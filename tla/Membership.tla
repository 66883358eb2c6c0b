------------------------------ MODULE Membership ------------------------------
(***************************************************************************)
(* Who may work in a workspace: invitations, acceptance, roles and removal *)
(* (packages/db/src/sqlite/collaboration.ts, with the policy of            *)
(* packages/domain/src/workspace-policy.ts).  Every operation is one       *)
(* immediate transaction that reads the role of its actor first.           *)
(*                                                                         *)
(* A user stands for the address he signs in with, and an invitation for   *)
(* its token, which only the reader of that mail knows.  Invitations are   *)
(* numbered in the order of their creation.                                *)
(***************************************************************************)
EXTENDS Naturals

CONSTANTS
  Users,            \* users, each with an e-mail address
  Founder,          \* the user whose personal workspace this is
  MaxInvitations    \* invitations that are ever made; bounds the model only

VARIABLES
  role,        \* workspace_members.role, "none" without a row
  invitation,  \* workspace_invitations, by number
  made,        \* how many invitations there are
  admitted,    \* the invitation a user's membership rests on   (history)
  dismissed    \* the last invitation made before his last removal (history)

membershipVars == <<role, invitation, made, admitted, dismissed>>

MembershipParameters == Founder \in Users /\ MaxInvitations \in Nat

Invitations == 1 .. MaxInvitations
InvitedRoles == {"admin", "member"}
Roles == InvitedRoles \union {"owner"}

\* expired is whether expiresAt has passed; by whom is not read again.
Invitation ==
  [email : Users, role : InvitedRoles, expired : BOOLEAN,
   state : {"pending", "accepted", "revoked"}]

MembershipTypeOK ==
  /\ role \in [Users -> Roles \union {"none"}]
  /\ made \in 0 .. MaxInvitations
  /\ invitation \in [1 .. made -> Invitation]
  /\ admitted \in [Users -> 0 .. MaxInvitations]
  /\ dismissed \in [Users -> 0 .. MaxInvitations]

\* ensureSqlitePersonalWorkspace
MembershipInit ==
  /\ role = [u \in Users |-> IF u = Founder THEN "owner" ELSE "none"]
  /\ invitation = << >>
  /\ made = 0
  /\ admitted = [u \in Users |-> 0]
  /\ dismissed = [u \in Users |-> 0]

-----------------------------------------------------------------------------

\* canInviteWorkspaceRole
MayInvite(actor, invited) ==
  \/ role[actor] = "owner"
  \/ role[actor] = "admin" /\ invited = "member"

\* canManageWorkspaceMember
MayManage(actor, target) ==
  \/ role[actor] = "owner" /\ role[target] # "owner"
  \/ role[actor] = "admin" /\ role[target] = "member"

Pending(i) == invitation[i].state = "pending"

\* The one pending invitation of an address may have expired.
Outdated(email) == {i \in 1 .. made :
  invitation[i].email = email /\ Pending(i) /\ invitation[i].expired}

\* No member has the address, and no invitation to it is pending.
Invitable(email) ==
  /\ role[email] = "none"
  /\ \A i \in 1 .. made :
       invitation[i].email = email /\ Pending(i) => invitation[i].expired

\* createSqliteWorkspaceInvitation also revokes an expired invitation.
Invite(actor, email, invited) ==
  /\ made < MaxInvitations
  /\ MayInvite(actor, invited)
  /\ Invitable(email)
  /\ made' = made + 1
  /\ invitation' = [i \in 1 .. made + 1 |->
       IF i = made + 1
       THEN [email |-> email, role |-> invited, expired |-> FALSE,
             state |-> "pending"]
       ELSE [invitation[i] EXCEPT
               !.state = IF i \in Outdated(email) THEN "revoked" ELSE @]]
  /\ UNCHANGED <<role, admitted, dismissed>>

\* INVITATION_TTL_MS passes.
Expire(i) ==
  /\ Pending(i) /\ ~invitation[i].expired
  /\ invitation' = [invitation EXCEPT ![i].expired = TRUE]
  /\ UNCHANGED <<role, made, admitted, dismissed>>

\* Wrong variant: an invitation may be used again.
AcceptableAgain(i) == invitation[i].state # "revoked" /\ ~invitation[i].expired

\* acceptSqliteWorkspaceInvitation refuses what is accepted, revoked or
\* expired.
Acceptable(i) == Pending(i) /\ ~invitation[i].expired

\* A member keeps the role he has.
Accept(i) ==
  LET user == invitation[i].email IN
  /\ Acceptable(i)
  /\ invitation' = [invitation EXCEPT ![i].state = "accepted"]
  /\ role' = [role EXCEPT ![user] = IF @ = "none" THEN invitation[i].role ELSE @]
  /\ admitted' = [admitted EXCEPT ![user] = i]
  /\ UNCHANGED <<made, dismissed>>

\* revokeSqliteWorkspaceInvitation
Revoke(actor, i) ==
  /\ Pending(i)
  /\ MayInvite(actor, invitation[i].role)
  /\ invitation' = [invitation EXCEPT ![i].state = "revoked"]
  /\ UNCHANGED <<role, made, admitted, dismissed>>

\* updateSqliteWorkspaceMemberRole
ChangeRole(actor, target, new) ==
  /\ role[target] # "none"
  /\ MayManage(actor, target)
  /\ MayInvite(actor, new)
  /\ role' = [role EXCEPT ![target] = new]
  /\ UNCHANGED <<invitation, made, admitted, dismissed>>

\* removeSqliteWorkspaceMember leaves the invitations alone.
Remove(actor, target) ==
  /\ role[target] # "none"
  /\ MayManage(actor, target)
  /\ role' = [role EXCEPT ![target] = "none"]
  /\ dismissed' = [dismissed EXCEPT ![target] = made]
  /\ UNCHANGED <<invitation, made, admitted>>

MembershipNext ==
  \/ \E actor, email \in Users, invited \in InvitedRoles :
       Invite(actor, email, invited)
  \/ \E i \in 1 .. made : Expire(i) \/ Accept(i)
  \/ \E actor \in Users, i \in 1 .. made : Revoke(actor, i)
  \/ \E actor, target \in Users :
       \/ Remove(actor, target)
       \/ \E new \in InvitedRoles : ChangeRole(actor, target, new)

MembershipSpec == MembershipInit /\ [][MembershipNext]_membershipVars

-----------------------------------------------------------------------------

\* The founder owns the workspace, alone.  Whoever else belongs to it was
\* admitted by an invitation made after his last removal: no invitation that
\* is still open, nor one that was used, lets a removed member back in
\* (removal does not look at invitations; creation and acceptance must).
MembersWereInvited ==
  \A u \in Users :
    /\ role[u] = "owner" <=> u = Founder
    /\ role[u] \in InvitedRoles => admitted[u] > dismissed[u]

=============================================================================
