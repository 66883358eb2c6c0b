---------------------------- MODULE PlatformProofs -----------------------------
(***************************************************************************)
(* Proofs about the parts of the platform that keep to state of their own, *)
(* for any number of writers, users, invitations, images, projectors and   *)
(* events: each part keeps the rule that module Platform states of it, and *)
(* the platform behaves as each of its parts.                              *)
(*                                                                         *)
(* The inductive invariant of each part contains what its parameters are   *)
(* assumed to be, which no step changes.                                   *)
(***************************************************************************)
EXTENDS Platform, TLAPS


-----------------------------------------------------------------------------
(* The write transactions of a database handle.                            *)

\* Calls made through a handle that are not over.
Live(h) ==
  {w \in Writers : HandleOf[w] = h /\ phase[w] \in {"waiting", "beginning", "inside"}}

\* The calls of each handle form a chain up to its tail: of two calls one is
\* earlier, and the later one waits for a call that is not before the earlier.
Chained(earlier) ==
  \A h \in Handles :
    /\ tail[h] = NoWriter => Live(h) = {}
    /\ tail[h] # NoWriter =>
         tail[h] \in Live(h) /\ \A u \in Live(h) \ {tail[h]} : <<u, tail[h]>> \in earlier
    /\ \A u, v \in Live(h) : u # v =>
         \/ <<u, v>> \in earlier
         \/ <<v, u>> \in earlier
    /\ \A u, v \in Live(h) : u # v /\ <<u, v>> \in earlier =>
         /\ previous[v] \in Live(h)
         /\ previous[v] = u \/ <<u, previous[v]>> \in earlier

\* A call that is past its wait has no call before it.
TurnsReleased ==
  \A w \in Writers : phase[w] \in {"beginning", "inside"} => Q!Released(w)

QueueIInv ==
  /\ Q!QueueParameters /\ Q!QueueTypeOK
  /\ TurnsReleased
  /\ \E earlier \in SUBSET (Writers \X Writers) : Chained(earlier)

\* The steps of calls and of a process that dies keep the types.
LEMMA QueueTypes ==
  ASSUME Q!QueueParameters, Q!QueueTypeOK, [Q!QueueNext]_(Q!queueVars)
  PROVE  Q!QueueTypeOK'
<1> USE DEF Q!QueueTypeOK, Q!QueueParameters, Q!Phase, Q!Over
<1>1. ASSUME NEW w \in Writers, Q!Call(w) PROVE Q!QueueTypeOK'
  BY <1>1 DEF Q!Call
<1>2. ASSUME NEW w \in Writers, Q!TakeTurn(w) \/ Q!Begin(w) PROVE Q!QueueTypeOK'
  BY <1>2 DEF Q!TakeTurn, Q!Begin
<1>3. ASSUME NEW w \in Writers, Q!Busy(w) PROVE Q!QueueTypeOK'
  BY <1>3 DEF Q!Busy
<1>4. ASSUME NEW w \in Writers, Q!GiveUp(w) \/ Q!Finish(w) PROVE Q!QueueTypeOK'
  <2>1. PICK result \in Q!Over : Q!Settle(w, result)
    BY <1>4 DEF Q!GiveUp, Q!Finish
  <2>2. Q!TailAfter(w) \in Writers \union {NoWriter}
    BY DEF Q!TailAfter
  <2>3. QED
    BY <2>1, <2>2 DEF Q!Settle
<1>5. ASSUME NEW h \in Handles, Q!Die(h) PROVE Q!QueueTypeOK'
  BY <1>5 DEF Q!Die
<1>6. CASE UNCHANGED Q!queueVars
  BY <1>6 DEF Q!queueVars
<1>7. QED
  BY <1>1, <1>2, <1>3, <1>4, <1>5, <1>6 DEF Q!QueueNext

\* A call whose turn is released is the first of its handle.
LEMMA FirstOfHandle ==
  ASSUME Q!QueueParameters, NEW earlier, Chained(earlier),
         NEW w \in Writers, w \in Live(HandleOf[w]), Q!Released(w),
         NEW u \in Live(HandleOf[w]), u # w
  PROVE  <<u, w>> \notin earlier /\ <<w, u>> \in earlier
<1> DEFINE h == HandleOf[w]
<1>1. h \in Handles
  BY DEF Q!QueueParameters
<1>2. previous[w] \notin Live(h)
  BY DEF Q!Released, Q!QueueParameters, Q!Over, Live
<1>3. <<u, w>> \notin earlier
  BY <1>1, <1>2 DEF Chained
<1>4. QED
  BY <1>1, <1>3 DEF Chained

\* A step of calls that neither join nor leave the chains keeps them.
LEMMA ChainsKept ==
  ASSUME NEW earlier, Chained(earlier), tail' = tail, previous' = previous,
         \A h \in Handles : Live(h)' = Live(h)
  PROVE  Chained(earlier)'
BY DEF Chained

\* The chains through every step.
LEMMA QueueStep ==
  ASSUME QueueIInv, [Q!QueueNext]_(Q!queueVars)
  PROVE  TurnsReleased' /\ \E earlier \in SUBSET (Writers \X Writers) : Chained(earlier)'
<1> DEFINE Goal ==
      TurnsReleased' /\ \E earlier \in SUBSET (Writers \X Writers) : Chained(earlier)'
<1>0. TurnsReleased /\ Q!QueueParameters /\ Q!QueueTypeOK
  BY DEF QueueIInv
<1>1. PICK earlier \in SUBSET (Writers \X Writers) : Chained(earlier)
  BY DEF QueueIInv
<1>2. \A w \in Writers : previous[w] # NoWriter => previous[w] \in Writers
  BY <1>0 DEF Q!QueueTypeOK
<1>3. ASSUME NEW w \in Writers, Q!Call(w) PROVE Goal
  <2> DEFINE h == HandleOf[w]
  <2>1. /\ phase[w] = "uncalled" /\ phase' = [phase EXCEPT ![w] = "waiting"]
        /\ tail' = [tail EXCEPT ![h] = w]
        /\ previous' = [previous EXCEPT ![w] = tail[h]]
        /\ h \in Handles /\ w \notin Live(h)
    BY <1>0, <1>3 DEF Q!Call, Q!QueueParameters, Live
  <2>2. /\ Live(h)' = Live(h) \union {w}
        /\ \A g \in Handles \ {h} : Live(g)' = Live(g) /\ w \notin Live(g)
    BY <1>0, <2>1 DEF Live, Q!QueueTypeOK
  <2>3. /\ tail'[h] = w /\ previous'[w] = tail[h]
        /\ \A g \in Handles \ {h} : tail'[g] = tail[g]
        /\ \A u \in Writers \ {w} : previous'[u] = previous[u]
        /\ w # NoWriter
    BY <1>0, <2>1 DEF Q!QueueTypeOK, Q!QueueParameters
  <2>4. \A g \in Handles : Live(g) \subseteq Writers
    BY DEF Live
  <2>5. \E later \in SUBSET (Writers \X Writers) :
          /\ \A u, v \in Writers \ {w} : <<u, v>> \in later <=> <<u, v>> \in earlier
          /\ \A u \in Writers : <<u, w>> \in later <=> u \in Live(h)
          /\ \A u \in Writers : <<w, u>> \notin later
    <3> DEFINE later ==
          {pair \in Writers \X Writers :
             \/ pair[1] # w /\ pair[2] # w /\ pair \in earlier
             \/ pair[1] \in Live(h) /\ pair[2] = w}
    <3>1. /\ \A u, v \in Writers \ {w} : <<u, v>> \in later <=> <<u, v>> \in earlier
          /\ \A u \in Writers : <<u, w>> \in later <=> u \in Live(h)
          /\ \A u \in Writers : <<w, u>> \notin later
      BY <2>1
    <3>2. later \in SUBSET (Writers \X Writers)
      OBVIOUS
    <3>3. QED
      BY <3>1, <3>2
  <2>6. PICK later \in SUBSET (Writers \X Writers) :
          /\ \A u, v \in Writers \ {w} : <<u, v>> \in later <=> <<u, v>> \in earlier
          /\ \A u \in Writers : <<u, w>> \in later <=> u \in Live(h)
          /\ \A u \in Writers : <<w, u>> \notin later
    BY <2>5
  <2>7. ASSUME NEW g \in Handles
        PROVE  /\ tail'[g] = NoWriter => Live(g)' = {}
               /\ tail'[g] # NoWriter =>
                    /\ tail'[g] \in Live(g)'
                    /\ \A u \in Live(g)' \ {tail'[g]} : <<u, tail'[g]>> \in later
               /\ \A u, v \in Live(g)' : u # v =>
                    \/ <<u, v>> \in later
                    \/ <<v, u>> \in later
               /\ \A u, v \in Live(g)' : u # v /\ <<u, v>> \in later =>
                    /\ previous'[v] \in Live(g)'
                    /\ previous'[v] = u \/ <<u, previous'[v]>> \in later
    <3>1. CASE g # h
      <4>1. Live(g)' = Live(g) /\ tail'[g] = tail[g] /\ w \notin Live(g)
            /\ Live(g) \subseteq Writers \ {w}
        BY <2>2, <2>3, <2>4, <3>1
      <4>2. \A u, v \in Live(g) : <<u, v>> \in later <=> <<u, v>> \in earlier
        BY <2>6, <4>1
      <4>3. \A v \in Live(g) : previous'[v] = previous[v]
        BY <2>3, <4>1
      <4>4. QED
        BY <1>1, <4>1, <4>2, <4>3 DEF Chained
    <3>2. CASE g = h
      <4>1. Live(g)' = Live(h) \union {w} /\ tail'[g] = w /\ w \notin Live(h)
            /\ Live(h) \subseteq Writers \ {w}
        BY <2>1, <2>2, <2>3, <2>4, <3>2
      <4>2. /\ \A u, v \in Live(h) : <<u, v>> \in later <=> <<u, v>> \in earlier
            /\ \A u \in Live(h) : <<u, w>> \in later /\ <<w, u>> \notin later
        BY <2>6, <4>1
      <4>3. \A v \in Live(h) : previous'[v] = previous[v]
        BY <2>3, <4>1
      <4>4. ASSUME NEW u \in Live(h)
            PROVE  tail[h] \in Live(h) /\ (tail[h] = u \/ <<u, tail[h]>> \in earlier)
        BY <1>1, <2>1, <4>4 DEF Chained
      <4>5. ASSUME NEW u \in Live(h), NEW v \in Live(h), u # v
            PROVE  /\ <<u, v>> \in later \/ <<v, u>> \in later
                   /\ <<u, v>> \in later =>
                        /\ previous'[v] \in Live(h)
                        /\ previous'[v] = u \/ <<u, previous'[v]>> \in later
        <5>1. <<u, v>> \in earlier \/ <<v, u>> \in earlier
          BY <1>1, <2>1, <4>5 DEF Chained
        <5>2. <<u, v>> \in earlier =>
                /\ previous[v] \in Live(h)
                /\ previous[v] = u \/ <<u, previous[v]>> \in earlier
          BY <1>1, <2>1, <4>5 DEF Chained
        <5>3. QED
          BY <4>2, <4>3, <5>1, <5>2
      <4>6. QED
        BY <2>3, <3>2, <4>1, <4>2, <4>4, <4>5
    <3>3. QED
      BY <3>1, <3>2
  <2>8. Chained(later)'
    BY <2>7 DEF Chained
  <2>9. TurnsReleased'
    <3> SUFFICES ASSUME NEW x \in Writers, phase'[x] \in {"beginning", "inside"}
                 PROVE  Q!Released(x)'
      BY DEF TurnsReleased
    <3>1. x # w /\ phase'[x] = phase[x] /\ previous'[x] = previous[x]
      BY <1>0, <2>1, <2>3 DEF Q!QueueTypeOK
    <3>2. Q!Released(x)
      BY <1>0, <3>1 DEF TurnsReleased
    <3>3. previous[x] # NoWriter => phase'[previous[x]] = phase[previous[x]]
      BY <1>0, <1>2, <2>1, <3>2 DEF Q!Released, Q!Over, Q!QueueTypeOK
    <3>4. QED
      BY <3>1, <3>2, <3>3 DEF Q!Released
  <2>10. QED
    BY <2>6, <2>8, <2>9
<1>4. ASSUME NEW w \in Writers, Q!TakeTurn(w) \/ Q!Begin(w) \/ Q!Busy(w) PROVE Goal
  <2>1. tail' = tail /\ previous' = previous
    BY <1>4 DEF Q!TakeTurn, Q!Begin, Q!Busy
  <2>2. /\ phase[w] \in {"waiting", "beginning"}
        /\ phase'[w] \in {"beginning", "inside"}
        /\ \A x \in Writers \ {w} : phase'[x] = phase[x]
        /\ phase[w] = "waiting" => Q!Released(w)
    BY <1>0, <1>4 DEF Q!TakeTurn, Q!Begin, Q!Busy, Q!QueueTypeOK
  <2>3. \A h \in Handles : Live(h)' = Live(h)
    BY <2>2 DEF Live
  <2>4. Chained(earlier)'
    BY <1>1, <2>1, <2>3, ChainsKept
  <2>5. TurnsReleased'
    <3> SUFFICES ASSUME NEW x \in Writers, phase'[x] \in {"beginning", "inside"}
                 PROVE  Q!Released(x)'
      BY DEF TurnsReleased
    <3>1. Q!Released(x)
      BY <1>0, <2>2 DEF TurnsReleased
    <3>2. QED
      BY <1>2, <2>1, <2>2, <3>1 DEF Q!Released, Q!Over
  <2>6. QED
    BY <2>4, <2>5
<1>5. ASSUME NEW w \in Writers, Q!GiveUp(w) \/ Q!Finish(w) PROVE Goal
  <2> DEFINE h == HandleOf[w]
  <2>1. PICK result \in Q!Over : Q!Settle(w, result)
    BY <1>5 DEF Q!GiveUp, Q!Finish, Q!Over
  <2>2. /\ phase[w] \in {"beginning", "inside"} /\ phase'[w] \in Q!Over
        /\ \A x \in Writers \ {w} : phase'[x] = phase[x]
        /\ previous' = previous
        /\ tail' = [tail EXCEPT ![h] = Q!TailAfter(w)]
    BY <1>0, <1>5, <2>1 DEF Q!GiveUp, Q!Finish, Q!Settle, Q!QueueTypeOK
  <2>3. h \in Handles /\ w \in Live(h) /\ Q!Released(w)
    BY <1>0, <2>2 DEF Live, TurnsReleased, Q!QueueParameters
  <2>4. /\ Live(h)' = Live(h) \ {w}
        /\ \A g \in Handles \ {h} : Live(g)' = Live(g)
    BY <2>2 DEF Live, Q!Over
  <2>5. \A u \in Live(h) \ {w} : <<u, w>> \notin earlier
    BY <1>0, <1>1, <2>3, FirstOfHandle
  <2>6. /\ tail'[h] = IF tail[h] = w THEN NoWriter ELSE tail[h]
        /\ \A g \in Handles \ {h} : tail'[g] = tail[g]
    BY <1>0, <2>2, <2>3 DEF Q!TailAfter, Q!QueueTypeOK
  <2>7. ASSUME NEW g \in Handles
        PROVE  /\ tail'[g] = NoWriter => Live(g)' = {}
               /\ tail'[g] # NoWriter =>
                    /\ tail'[g] \in Live(g)'
                    /\ \A u \in Live(g)' \ {tail'[g]} : <<u, tail'[g]>> \in earlier
               /\ \A u, v \in Live(g)' : u # v =>
                    \/ <<u, v>> \in earlier
                    \/ <<v, u>> \in earlier
               /\ \A u, v \in Live(g)' : u # v /\ <<u, v>> \in earlier =>
                    /\ previous'[v] \in Live(g)'
                    /\ previous'[v] = u \/ <<u, previous'[v]>> \in earlier
    <3>1. CASE g # h
      BY <1>1, <2>2, <2>4, <2>6, <3>1 DEF Chained
    <3>2. CASE g = h
      <4>1. tail[h] # NoWriter
        BY <1>1, <2>3 DEF Chained
      <4>2. /\ tail[h] \in Live(h)
            /\ \A u \in Live(h) \ {tail[h]} : <<u, tail[h]>> \in earlier
        BY <1>1, <2>3, <4>1 DEF Chained
      <4>3. tail'[h] = NoWriter => Live(h)' = {}
        BY <2>4, <2>5, <2>6, <4>1, <4>2
      <4>4. tail'[h] # NoWriter =>
              tail'[h] = tail[h] /\ tail[h] # w
        BY <2>6
      <4>5. ASSUME NEW u \in Live(h) \ {w}, NEW v \in Live(h) \ {w}, u # v
            PROVE  /\ <<u, v>> \in earlier \/ <<v, u>> \in earlier
                   /\ <<u, v>> \in earlier =>
                        /\ previous[v] \in Live(h) \ {w}
                        /\ previous[v] = u \/ <<u, previous[v]>> \in earlier
        <5>1. <<u, v>> \in earlier \/ <<v, u>> \in earlier
          BY <1>1, <2>3, <4>5 DEF Chained
        <5>2. <<u, v>> \in earlier =>
                /\ previous[v] \in Live(h)
                /\ previous[v] = u \/ <<u, previous[v]>> \in earlier
          BY <1>1, <2>3, <4>5 DEF Chained
        <5>3. QED
          BY <2>5, <5>1, <5>2
      <4>6. QED
        BY <2>2, <2>4, <3>2, <4>2, <4>3, <4>4, <4>5
    <3>3. QED
      BY <3>1, <3>2
  <2>8. Chained(earlier)'
    BY <2>7 DEF Chained
  <2>9. TurnsReleased'
    <3> SUFFICES ASSUME NEW x \in Writers, phase'[x] \in {"beginning", "inside"}
                 PROVE  Q!Released(x)'
      BY DEF TurnsReleased
    <3>1. Q!Released(x)
      BY <1>0, <2>2 DEF TurnsReleased, Q!Over
    <3>2. QED
      BY <1>2, <2>2, <3>1 DEF Q!Released
  <2>10. QED
    BY <2>8, <2>9
<1>6. ASSUME NEW h \in Handles, Q!Die(h) PROVE Goal
  <2>1. /\ previous' = previous
        /\ tail'[h] = NoWriter /\ \A g \in Handles \ {h} : tail'[g] = tail[g]
        /\ \A x \in Writers : phase'[x] = phase[x] \/ phase'[x] = "failed"
        /\ \A x \in Writers : HandleOf[x] # h => phase'[x] = phase[x]
        /\ \A x \in Writers : HandleOf[x] = h =>
             phase'[x] \notin {"waiting", "beginning", "inside"}
    BY <1>0, <1>6 DEF Q!Die, Q!QueueTypeOK
  <2>2. Live(h)' = {} /\ \A g \in Handles \ {h} : Live(g)' = Live(g)
    BY <2>1 DEF Live
  <2>3. Chained(earlier)'
    BY <1>1, <2>1, <2>2 DEF Chained
  <2>4. TurnsReleased'
    <3> SUFFICES ASSUME NEW x \in Writers, phase'[x] \in {"beginning", "inside"}
                 PROVE  Q!Released(x)'
      BY DEF TurnsReleased
    <3>1. Q!Released(x)
      BY <1>0, <2>1 DEF TurnsReleased
    <3>2. QED
      BY <1>2, <2>1, <3>1 DEF Q!Released, Q!Over
  <2>5. QED
    BY <2>3, <2>4
<1>7. ASSUME UNCHANGED Q!queueVars PROVE Goal
  <2>1. tail' = tail /\ previous' = previous /\ phase' = phase
    BY <1>7 DEF Q!queueVars
  <2>2. \A h \in Handles : Live(h)' = Live(h)
    BY <2>1 DEF Live
  <2>3. Chained(earlier)'
    BY <1>1, <2>1, <2>2, ChainsKept
  <2>4. TurnsReleased'
    BY <1>0, <2>1 DEF TurnsReleased, Q!Released
  <2>5. QED
    BY <2>3, <2>4
<1> HIDE DEF Goal
<1>8. ASSUME NEW w \in Writers,
             \/ Q!Call(w) \/ Q!TakeTurn(w) \/ Q!Begin(w)
             \/ Q!Busy(w) \/ Q!GiveUp(w) \/ Q!Finish(w)
      PROVE  Goal
  BY <1>3, <1>4, <1>5, <1>8
<1>9. Goal
  BY <1>6, <1>7, <1>8 DEF Q!QueueNext
<1>10. QED
  BY <1>9 DEF Goal

\* Of two calls past their wait one would be the later one, and wait for a
\* call that is not over.
THEOREM CallsTakeTurns ==
  Q!QueueParameters /\ Q!QueueSpec => []Q!WritersTakeTurns
<1>1. Q!QueueParameters /\ Q!QueueInit => QueueIInv
  <2> SUFFICES ASSUME Q!QueueParameters, Q!QueueInit PROVE QueueIInv
    OBVIOUS
  <2>1. Q!QueueTypeOK /\ TurnsReleased
    BY DEF Q!QueueInit, Q!QueueParameters, Q!QueueTypeOK, Q!Phase, TurnsReleased
  <2>2. Chained({})
    BY DEF Chained, Live, Q!QueueInit
  <2>3. QED
    BY <2>1, <2>2 DEF QueueIInv
<1>2. QueueIInv /\ [Q!QueueNext]_(Q!queueVars) => QueueIInv'
  BY QueueTypes, QueueStep DEF QueueIInv, Q!QueueParameters
<1>3. QueueIInv => Q!WritersTakeTurns
  <2> SUFFICES ASSUME QueueIInv, NEW v \in Writers, NEW w \in Writers, v # w,
                      HandleOf[v] = HandleOf[w],
                      phase[v] \in {"beginning", "inside"},
                      phase[w] \in {"beginning", "inside"}
               PROVE  FALSE
    BY DEF Q!WritersTakeTurns
  <2>1. PICK earlier : Chained(earlier)
    BY DEF QueueIInv
  <2>2. v \in Live(HandleOf[v]) /\ w \in Live(HandleOf[v])
    BY DEF Live
  <2>3. Q!Released(v) /\ Q!Released(w) /\ Q!QueueParameters
    BY DEF QueueIInv, TurnsReleased
  <2>4. QED
    BY <2>1, <2>2, <2>3, FirstOfHandle
<1>4. QED
  BY <1>1, <1>2, <1>3, PTL DEF Q!QueueSpec

-----------------------------------------------------------------------------
(* The members of a workspace.                                             *)


\* A pending invitation is the only one of its address, which belongs to no
\* member, and was made after the removal of the member it belonged to.
PendingAlone ==
  \A i \in 1 .. made : M!Pending(i) =>
    /\ role[invitation[i].email] = "none"
    /\ dismissed[invitation[i].email] < i
    /\ \A j \in 1 .. made :
         M!Pending(j) /\ invitation[j].email = invitation[i].email => j = i

MembershipIInv ==
  /\ M!MembershipParameters /\ M!MembershipTypeOK
  /\ \A u \in Users : dismissed[u] <= made
  /\ PendingAlone
  /\ M!MembersWereInvited

\* What a step does to the roles and to the times of removal, and which
\* invitations it leaves pending.
LEMMA MembershipTypes ==
  ASSUME M!MembershipParameters, M!MembershipTypeOK,
         [M!MembershipNext]_(M!membershipVars)
  PROVE  M!MembershipTypeOK'
<1> USE DEF M!MembershipParameters, M!MembershipTypeOK, M!Roles, M!InvitedRoles
<1>1. ASSUME NEW actor \in Users, NEW email \in Users, NEW invited \in M!InvitedRoles,
             M!Invite(actor, email, invited)
      PROVE  M!MembershipTypeOK'
  <2>1. /\ made' = made + 1 /\ made' \in 0 .. MaxInvitations
        /\ UNCHANGED <<role, admitted, dismissed>>
    BY <1>1 DEF M!Invite
  <2> DEFINE new == [email |-> email, role |-> invited, expired |-> FALSE,
                     state |-> "pending"]
  <2>2. new \in M!Invitation
    BY DEF M!Invitation
  <2>3. ASSUME NEW i \in 1 .. made
        PROVE  [invitation[i] EXCEPT
                  !.state = IF i \in M!Outdated(email) THEN "revoked" ELSE @] \in M!Invitation
    <3>1. invitation[i] \in M!Invitation
      OBVIOUS
    <3>2. QED
      BY <3>1 DEF M!Invitation
  <2>4. \A i \in 1 .. made + 1 : i # made + 1 => i \in 1 .. made
    OBVIOUS
  <2>5. invitation' \in [1 .. made + 1 -> M!Invitation]
    BY <1>1, <2>2, <2>3, <2>4 DEF M!Invite
  <2>6. QED
    BY <2>1, <2>5
<1>2. ASSUME NEW i \in 1 .. made, M!Expire(i) PROVE M!MembershipTypeOK'
  BY <1>2 DEF M!Expire, M!Invitation
<1>3. ASSUME NEW i \in 1 .. made, M!Accept(i) PROVE M!MembershipTypeOK'
  <2>1. invitation[i] \in M!Invitation /\ i \in 0 .. MaxInvitations
    OBVIOUS
  <2>2. invitation[i].email \in Users /\ invitation[i].role \in M!InvitedRoles
    BY <2>1 DEF M!Invitation
  <2>3. invitation' \in [1 .. made -> M!Invitation]
    BY <1>3, <2>1 DEF M!Accept, M!Invitation
  <2>4. QED
    BY <1>3, <2>1, <2>2, <2>3 DEF M!Accept
<1>4. ASSUME NEW actor \in Users, NEW i \in 1 .. made, M!Revoke(actor, i)
      PROVE  M!MembershipTypeOK'
  BY <1>4 DEF M!Revoke, M!Invitation
<1>5. ASSUME NEW actor \in Users, NEW target \in Users,
             \/ M!Remove(actor, target)
             \/ \E new \in M!InvitedRoles : M!ChangeRole(actor, target, new)
      PROVE  M!MembershipTypeOK'
  BY <1>5 DEF M!Remove, M!ChangeRole
<1>6. ASSUME UNCHANGED M!membershipVars PROVE M!MembershipTypeOK'
  BY <1>6 DEF M!membershipVars
<1>7. ASSUME M!MembershipNext PROVE M!MembershipTypeOK'
  BY <1>1, <1>2, <1>3, <1>4, <1>5, <1>7 DEF M!MembershipNext
<1>8. QED
  BY <1>6, <1>7

\* Invitations that are closed, and nothing else, leave the pending ones alone.
LEMMA ClosingKeepsAlone ==
  ASSUME M!MembershipTypeOK, PendingAlone, made' = made, dismissed' = dismissed,
         \A i \in 1 .. made :
           /\ invitation'[i].email = invitation[i].email
           /\ M!Pending(i)' => M!Pending(i),
         \A i \in 1 .. made :
           M!Pending(i)' => role'[invitation[i].email] = role[invitation[i].email]
  PROVE  PendingAlone'
BY DEF PendingAlone

\* The steps of the members.
LEMMA MembershipStep ==
  ASSUME MembershipIInv, [M!MembershipNext]_(M!membershipVars)
  PROVE  MembershipIInv'
<1> DEFINE Rest == PendingAlone' /\ M!MembersWereInvited'
                   /\ \A u \in Users : dismissed'[u] <= made'
<1>1. /\ M!MembershipParameters /\ M!MembershipTypeOK
      /\ PendingAlone /\ M!MembersWereInvited
      /\ \A u \in Users : dismissed[u] <= made
  BY DEF MembershipIInv
<1>2. /\ role \in [Users -> M!Roles \union {"none"}]
      /\ made \in Nat /\ Founder \in Users
      /\ admitted \in [Users -> Nat] /\ dismissed \in [Users -> Nat]
      /\ invitation \in [1 .. made -> M!Invitation]
  BY <1>1 DEF M!MembershipTypeOK, M!MembershipParameters
<1>3. \A i \in 1 .. made :
        invitation[i].email \in Users /\ invitation[i].role \in M!InvitedRoles
  BY <1>2 DEF M!Invitation
<1>4. "owner" \notin M!InvitedRoles /\ "none" \notin M!InvitedRoles
  BY DEF M!InvitedRoles
<1>5. \A u \in Users : role[u] \in M!InvitedRoles \/ role[u] = "owner" \/ role[u] = "none"
  BY <1>2 DEF M!Roles
<1>6. ASSUME NEW actor \in Users, NEW email \in Users, NEW invited \in M!InvitedRoles,
             M!Invite(actor, email, invited)
      PROVE  Rest
  <2>1. /\ made' = made + 1
        /\ role' = role /\ admitted' = admitted /\ dismissed' = dismissed
        /\ role[email] = "none"
    BY <1>6 DEF M!Invite, M!Invitable
  <2>2. invitation'[made + 1].email = email
    BY <1>2, <1>6 DEF M!Invite
  <2>3. \A i \in 1 .. made :
          /\ i \in 1 .. made + 1
          /\ i # made + 1
          /\ invitation'[i] = [invitation[i] EXCEPT
               !.state = IF i \in M!Outdated(email) THEN "revoked" ELSE @]
    BY <1>2, <1>6 DEF M!Invite
  <2>4. \A i \in 1 .. made :
          /\ invitation'[i].email = invitation[i].email
          /\ invitation'[i].state = "pending" =>
               invitation[i].state = "pending" /\ i \notin M!Outdated(email)
    BY <1>2, <2>3 DEF M!Invitation
  <2>5. \A i \in 1 .. made :
          invitation'[i].state = "pending" =>
            invitation[i].state = "pending" /\ invitation[i].email # email
    BY <1>6, <2>4 DEF M!Invite, M!Invitable, M!Outdated, M!Pending
  <2>6. \A i \in 1 .. made' : i \in 1 .. made \/ i = made + 1
    BY <1>2, <2>1
  <2>7. \A u \in Users : dismissed[u] < made + 1
    BY <1>1, <1>2
  <2>8. ASSUME NEW i \in 1 .. made', M!Pending(i)'
        PROVE  /\ role'[invitation'[i].email] = "none"
               /\ dismissed'[invitation'[i].email] < i
    BY <1>1, <2>1, <2>2, <2>4, <2>5, <2>6, <2>7, <2>8 DEF PendingAlone, M!Pending
  <2>9. ASSUME NEW i \in 1 .. made', M!Pending(i)', NEW j \in 1 .. made', M!Pending(j)',
               invitation'[i].email = invitation'[j].email
        PROVE  i = j
    BY <1>1, <2>2, <2>4, <2>5, <2>6, <2>9 DEF PendingAlone, M!Pending
  <2>10. PendingAlone'
    BY <2>8, <2>9 DEF PendingAlone
  <2>11. M!MembersWereInvited'
    BY <1>1, <2>1 DEF M!MembersWereInvited
  <2>12. \A u \in Users : dismissed'[u] <= made'
    BY <1>1, <1>2, <2>1
  <2>13. QED
    BY <2>10, <2>11, <2>12
<1>7. ASSUME NEW i \in 1 .. made,
             M!Expire(i) \/ \E actor \in Users : M!Revoke(actor, i)
      PROVE  Rest
  <2>1. /\ made' = made /\ role' = role
        /\ admitted' = admitted /\ dismissed' = dismissed
        /\ \/ invitation' = [invitation EXCEPT ![i].expired = TRUE]
           \/ invitation' = [invitation EXCEPT ![i].state = "revoked"]
    BY <1>7 DEF M!Expire, M!Revoke
  <2>2. \A j \in 1 .. made :
          /\ invitation'[j].email = invitation[j].email
          /\ M!Pending(j)' => M!Pending(j)
    <3> SUFFICES ASSUME NEW j \in 1 .. made
                 PROVE  /\ invitation'[j].email = invitation[j].email
                        /\ invitation'[j].state = "pending" =>
                             invitation[j].state = "pending"
      BY DEF M!Pending
    <3>1. invitation[j] \in M!Invitation
      BY <1>2
    <3>2. invitation'[j] \in {invitation[j], [invitation[j] EXCEPT !.expired = TRUE],
                              [invitation[j] EXCEPT !.state = "revoked"]}
      BY <1>2, <2>1
    <3>3. QED
      BY <3>1, <3>2 DEF M!Invitation
  <2>3. PendingAlone'
    BY <1>1, <2>1, <2>2, ClosingKeepsAlone
  <2>4. QED
    BY <1>1, <2>1, <2>3 DEF M!MembersWereInvited
<1>8. ASSUME NEW i \in 1 .. made, M!Accept(i) PROVE Rest
  <2> DEFINE user == invitation[i].email
  <2>1. /\ made' = made /\ dismissed' = dismissed
        /\ M!Pending(i)
        /\ invitation' = [invitation EXCEPT ![i].state = "accepted"]
        /\ role' = [role EXCEPT ![user] =
                      IF @ = "none" THEN invitation[i].role ELSE @]
        /\ admitted' = [admitted EXCEPT ![user] = i]
    BY <1>8 DEF M!Accept, M!Acceptable
  <2>2. user \in Users /\ role[user] = "none" /\ dismissed[user] < i
    BY <1>1, <1>3, <2>1 DEF PendingAlone
  <2>3. /\ role'[user] = invitation[i].role
        /\ \A u \in Users \ {user} : role'[u] = role[u]
        /\ admitted'[user] = i
        /\ \A u \in Users \ {user} : admitted'[u] = admitted[u]
    BY <1>2, <2>1, <2>2
  <2>4. \A j \in 1 .. made :
          /\ invitation'[j].email = invitation[j].email
          /\ M!Pending(j)' => M!Pending(j) /\ j # i
    BY <1>2, <2>1 DEF M!Pending, M!Invitation
  <2>5. \A j \in 1 .. made : M!Pending(j)' => invitation[j].email # user
    BY <1>1, <2>1, <2>4 DEF PendingAlone
  <2>6. PendingAlone'
    BY <1>1, <1>3, <2>1, <2>3, <2>4, <2>5, ClosingKeepsAlone
  <2>7. user # Founder
    BY <1>1, <1>2, <2>2 DEF M!MembersWereInvited
  <2>8. M!MembersWereInvited'
    <3> SUFFICES ASSUME NEW u \in Users
                 PROVE  /\ role'[u] = "owner" <=> u = Founder
                        /\ role'[u] \in M!InvitedRoles => admitted'[u] > dismissed[u]
      BY <2>1 DEF M!MembersWereInvited
    <3>1. CASE u = user
      <4>1. i > dismissed[user]
        BY <1>2, <2>2
      <4>2. QED
        BY <1>3, <1>4, <2>3, <2>7, <3>1, <4>1
    <3>2. CASE u # user
      BY <1>1, <2>3, <3>2 DEF M!MembersWereInvited
    <3>3. QED
      BY <3>1, <3>2
  <2>9. QED
    BY <1>1, <2>1, <2>6, <2>8
<1>9. ASSUME NEW actor \in Users, NEW target \in Users, M!Remove(actor, target)
      PROVE  Rest
  <2>1. /\ made' = made /\ invitation' = invitation /\ admitted' = admitted
        /\ role[target] # "none" /\ role[target] # "owner"
        /\ role' = [role EXCEPT ![target] = "none"]
        /\ dismissed' = [dismissed EXCEPT ![target] = made]
    BY <1>9 DEF M!Remove, M!MayManage
  <2>2. /\ role'[target] = "none"
        /\ \A u \in Users \ {target} : role'[u] = role[u] /\ dismissed'[u] = dismissed[u]
        /\ dismissed'[target] = made
    BY <1>2, <2>1
  <2>3. \A j \in 1 .. made : M!Pending(j) => invitation[j].email # target
    BY <1>1, <2>1 DEF PendingAlone
  <2>4. PendingAlone'
    BY <1>1, <1>3, <2>1, <2>2, <2>3 DEF PendingAlone, M!Pending
  <2>5. M!MembersWereInvited'
    BY <1>1, <1>4, <2>1, <2>2 DEF M!MembersWereInvited
  <2>6. \A u \in Users : dismissed'[u] <= made'
    BY <1>1, <1>2, <2>1, <2>2
  <2>7. QED
    BY <2>4, <2>5, <2>6
<1>10. ASSUME NEW actor \in Users, NEW target \in Users, NEW new \in M!InvitedRoles,
              M!ChangeRole(actor, target, new)
       PROVE  Rest
  <2>1. /\ made' = made /\ invitation' = invitation
        /\ admitted' = admitted /\ dismissed' = dismissed
        /\ role[target] # "none" /\ role[target] # "owner"
        /\ role' = [role EXCEPT ![target] = new]
    BY <1>10 DEF M!ChangeRole, M!MayManage
  <2>2. role'[target] = new /\ \A u \in Users \ {target} : role'[u] = role[u]
    BY <1>2, <2>1
  <2>3. \A j \in 1 .. made : M!Pending(j) => invitation[j].email # target
    BY <1>1, <2>1 DEF PendingAlone
  <2>4. PendingAlone'
    BY <1>1, <1>3, <2>1, <2>2, <2>3 DEF PendingAlone, M!Pending
  <2>5. M!MembersWereInvited'
    BY <1>1, <1>4, <1>5, <2>1, <2>2 DEF M!MembersWereInvited
  <2>6. QED
    BY <1>1, <2>1, <2>4, <2>5
<1>11. ASSUME UNCHANGED M!membershipVars PROVE Rest
  BY <1>1, <1>11 DEF M!membershipVars, PendingAlone, M!Pending, M!MembersWereInvited
<1> HIDE DEF Rest
<1>12. ASSUME M!MembershipNext PROVE Rest
  BY <1>6, <1>7, <1>8, <1>9, <1>10, <1>12 DEF M!MembershipNext
<1>13. Rest
  BY <1>11, <1>12
<1>14. M!MembershipParameters' /\ M!MembershipTypeOK'
  BY <1>1, MembershipTypes DEF M!MembershipParameters
<1>15. QED
  BY <1>13, <1>14 DEF Rest, MembershipIInv

\* Nobody works in a workspace without an invitation made after his removal.
THEOREM InvitationsComeFirst ==
  M!MembershipParameters /\ M!MembershipSpec => []M!MembersWereInvited
<1>1. M!MembershipParameters /\ M!MembershipInit => MembershipIInv
  <2> SUFFICES ASSUME M!MembershipParameters, M!MembershipInit PROVE MembershipIInv
    OBVIOUS
  <2>1. 1 .. made = {} /\ made = 0 /\ 0 \in 0 .. MaxInvitations
    BY DEF M!MembershipInit, M!MembershipParameters
  <2>2. M!MembershipTypeOK
    BY <2>1 DEF M!MembershipInit, M!MembershipTypeOK, M!Roles
  <2>3. PendingAlone
    BY <2>1 DEF PendingAlone
  <2>4. M!MembersWereInvited
    BY DEF M!MembershipInit, M!MembersWereInvited, M!InvitedRoles
  <2>5. QED
    BY <2>1, <2>2, <2>3, <2>4 DEF MembershipIInv, M!MembershipInit
<1>2. MembershipIInv /\ [M!MembershipNext]_(M!membershipVars) => MembershipIInv'
  BY MembershipStep
<1>3. MembershipIInv => M!MembersWereInvited
  BY DEF MembershipIInv
<1>4. QED
  BY <1>1, <1>2, <1>3, PTL DEF M!MembershipSpec

-----------------------------------------------------------------------------
(* The publication of a version.                                           *)


OwnTag(p, i) == tag[i] = BuildOf[p]

\* Only one run works, so what it saw of the tags still holds, and they are all
\* its own before it comes to the release.
TagsAsSeen(p) ==
  /\ job[p] = "queued" => image[p] = 1
  /\ job[p] = "preflight" =>
       \A i \in R!Images : i < image[p] => seen[p][i] = tag[i]
  /\ job[p] \in {"tags", "creating", "checking"} =>
       /\ \A i \in R!Images :
            /\ tag[i] \in {R!NoBuild, BuildOf[p]}
            /\ seen[p][i] # R!NoBuild => OwnTag(p, i)
            /\ i < image[p] => OwnTag(p, i)
  /\ job[p] = "creating" => tag[image[p]] = R!NoBuild
  /\ job[p] \in {"final", "public"} => \A i \in R!Images : OwnTag(p, i)
  /\ job[p] \in {"inspect", "create", "await"} => BuildOf[p] \in tagged

ReleaseIInv ==
  /\ R!ReleaseParameters /\ R!ReleaseTypeOK
  /\ \A p, q \in Publishers :
       job[p] \in R!Working /\ job[q] \in R!Working => p = q
  /\ \A p \in Publishers : TagsAsSeen(p)
  /\ \A b \in tagged, i \in R!Images : tag[i] = b
  /\ release # R!NoBuild => release \in tagged
  /\ \A p \in Publishers : job[p] = "published" => release = BuildOf[p]

\* A step of one run keeps the types, and moves only that run.
LEMMA ReleaseTypes ==
  ASSUME R!ReleaseParameters, R!ReleaseTypeOK, NEW p \in Publishers, R!Publish(p)
  PROVE  /\ R!ReleaseTypeOK'
         /\ job[p] \in R!Working \union {"queued"}
         /\ \A q \in Publishers \ {p} :
              job'[q] = job[q] /\ image'[q] = image[q] /\ seen'[q] = seen[q]
<1> DEFINE Goal ==
      /\ R!ReleaseTypeOK'
      /\ job[p] \in R!Working \union {"queued"}
      /\ \A q \in Publishers \ {p} :
           job'[q] = job[q] /\ image'[q] = image[q] /\ seen'[q] = seen[q]
<1>1. /\ BuildOf[p] \in R!Builds
      /\ 1 \in R!Images
      /\ image[p] \in R!Images
      /\ image[p] < LastImage => image[p] + 1 \in R!Images
  BY DEF R!ReleaseParameters, R!ReleaseTypeOK, R!Builds, R!Images
<1> USE DEF R!ReleaseTypeOK, R!At, R!Goes
<1>2. ASSUME NEW place \in R!Working \union R!Ends, R!Goes(p, place),
             job[p] \in R!Working \union {"queued"},
             UNCHANGED <<image, seen>>,
             tag' \in [R!Images -> R!Builds \union {R!NoBuild}],
             release' \in R!Builds \union {R!NoBuild}, tagged' \subseteq R!Builds
      PROVE  Goal
  BY <1>2
<1>3. ASSUME NEW loop \in R!Working, NEW next \in R!Working, R!Advance(p, loop, next),
             job[p] \in R!Working,
             seen' \in [Publishers -> [R!Images -> R!Builds \union {R!NoBuild}]],
             \A q \in Publishers \ {p} : seen'[q] = seen[q],
             UNCHANGED <<tag, release>>, tagged' \subseteq R!Builds
      PROVE  Goal
  <2>1. /\ image' \in [Publishers -> R!Images]
        /\ job' \in [Publishers -> R!Working \union R!Ends \union {"queued"}]
        /\ \A q \in Publishers \ {p} : job'[q] = job[q] /\ image'[q] = image[q]
    BY <1>1, <1>3 DEF R!Advance
  <2>2. QED
    BY <1>3, <2>1
<1> HIDE DEF Goal
<1>4. \A place \in {"preflight", "tags", "creating", "checking", "final", "public",
                    "inspect", "create", "await"} :
        place \in R!Working
  BY DEF R!Working
<1>5. "failed" \in R!Ends /\ "published" \in R!Ends
  BY DEF R!Ends
<1>6. ASSUME R!Start(p) PROVE Goal
  <2>1. PICK place \in {"inspect", "preflight"} : R!Goes(p, place)
    BY <1>6 DEF R!Start
  <2>2. QED
    BY <1>2, <1>4, <1>6, <2>1 DEF R!Start
<1>7. ASSUME R!Preflight(p) PROVE Goal
  <2>1. /\ seen' \in [Publishers -> [R!Images -> R!Builds \union {R!NoBuild}]]
        /\ \A q \in Publishers \ {p} : seen'[q] = seen[q]
    BY <1>1, <1>7 DEF R!Preflight
  <2>2. QED
    BY <1>3, <1>4, <1>7, <2>1 DEF R!Preflight
<1>8. ASSUME R!KeepTag(p) \/ R!CheckTag(p) \/ R!FinalCheck(p) PROVE Goal
  <2>1. PICK loop \in {"tags", "final"}, next \in {"final", "public"} :
          R!Advance(p, loop, next)
    BY <1>8 DEF R!KeepTag, R!CheckTag, R!FinalCheck
  <2>2. /\ job[p] \in {"tags", "checking", "final"}
        /\ UNCHANGED <<tag, release, seen, tagged>>
    BY <1>8 DEF R!KeepTag, R!CheckTag, R!FinalCheck
  <2>3. QED
    BY <1>3, <1>4, <2>1, <2>2
<1>9. ASSUME R!PublicCheck(p) PROVE Goal
  <2>1. tagged' \subseteq R!Builds
    BY <1>1, <1>9 DEF R!PublicCheck
  <2>2. QED
    BY <1>3, <1>4, <1>9, <2>1 DEF R!PublicCheck
<1>10. ASSUME R!CreateTag(p) PROVE Goal
  <2>1. tag' \in [R!Images -> R!Builds \union {R!NoBuild}]
    BY <1>1, <1>10 DEF R!CreateTag
  <2>2. PICK place \in {"checking", "failed"} : R!Goes(p, place)
    BY <1>10 DEF R!CreateTag
  <2>3. job[p] = "creating" /\ UNCHANGED <<release, image, seen, tagged>>
    BY <1>10 DEF R!CreateTag
  <2>4. QED
    BY <1>2, <1>4, <1>5, <2>1, <2>2, <2>3
<1>11. ASSUME R!CreateRelease(p) PROVE Goal
  <2>1. release' \in R!Builds \union {R!NoBuild}
    BY <1>1, <1>11 DEF R!CreateRelease
  <2>2. QED
    BY <1>2, <1>4, <1>11, <2>1 DEF R!CreateRelease
<1>12. ASSUME \/ R!DecideTag(p) \/ R!InspectRelease(p)
              \/ R!ConfirmRelease(p) \/ R!Stop(p)
       PROVE  Goal
  <2>1. PICK place \in {"creating", "create", "published", "failed"} : R!Goes(p, place)
    BY <1>12 DEF R!DecideTag, R!InspectRelease, R!ConfirmRelease, R!Stop
  <2>2. job[p] \in R!Working /\ UNCHANGED <<tag, release, image, seen, tagged>>
    BY <1>4, <1>12 DEF R!DecideTag, R!InspectRelease, R!ConfirmRelease, R!Stop
  <2>3. QED
    BY <1>2, <1>4, <1>5, <2>1, <2>2
<1>13. Goal
  BY <1>6, <1>7, <1>8, <1>9, <1>10, <1>11, <1>12 DEF R!Publish
<1>14. QED
  BY <1>13 DEF Goal

\* The steps of a run, which works alone.
LEMMA ReleaseStep ==
  ASSUME ReleaseIInv, NEW p \in Publishers, R!Publish(p)
  PROVE  ReleaseIInv'
<1> DEFINE Rest ==
      /\ TagsAsSeen(p)'
      /\ \A b \in tagged', i \in R!Images : tag'[i] = b
      /\ release' # R!NoBuild => release' \in tagged'
      /\ job'[p] = "published" => release' = BuildOf[p]
      /\ release # R!NoBuild => release' = release
<1>1. /\ R!ReleaseParameters /\ R!ReleaseTypeOK
      /\ R!ReleaseTypeOK'
      /\ job[p] \in R!Working \union {"queued"}
      /\ \A q \in Publishers \ {p} :
           job'[q] = job[q] /\ image'[q] = image[q] /\ seen'[q] = seen[q]
  BY ReleaseTypes DEF ReleaseIInv
<1>2. \A q \in Publishers \ {p} : job[q] \notin R!Working
  <2>1. CASE job[p] \in R!Working
    BY <2>1 DEF ReleaseIInv
  <2>2. CASE job[p] = "queued"
    BY <2>2 DEF R!Publish, R!Start, R!Preflight, R!KeepTag, R!DecideTag, R!CreateTag,
                R!CheckTag, R!FinalCheck, R!PublicCheck, R!InspectRelease,
                R!CreateRelease, R!ConfirmRelease, R!Stop, R!At, R!Working
  <2>3. QED
    BY <1>1, <2>1, <2>2
<1>3. /\ \A q \in Publishers : TagsAsSeen(q)
      /\ \A b \in tagged, i \in R!Images : tag[i] = b
      /\ release # R!NoBuild => release \in tagged
      /\ \A q \in Publishers : job[q] = "published" => release = BuildOf[q]
  BY DEF ReleaseIInv
<1>4. /\ BuildOf[p] \in R!Builds /\ \A q \in Publishers : BuildOf[q] # R!NoBuild
      /\ 1 \in R!Images
      /\ \A i \in R!Images : ~(i < 1)
      /\ image[p] \in R!Images
      /\ image[p] < LastImage => image[p] + 1 \in R!Images
      /\ \A i \in R!Images : i < image[p] + 1 => i < image[p] \/ i = image[p]
      /\ ~(image[p] < LastImage) => image[p] = LastImage
      /\ \A i \in R!Images : i < LastImage \/ i = LastImage
  BY <1>1 DEF R!ReleaseParameters, R!ReleaseTypeOK, R!Builds, R!Images
<1>5. ASSUME NEW loop, NEW next, R!Advance(p, loop, next)
      PROVE  \/ /\ image[p] < LastImage /\ job'[p] = loop
                /\ \A i \in R!Images : i < image'[p] => i < image[p] \/ i = image[p]
             \/ /\ image[p] = LastImage /\ job'[p] = next
                /\ \A i \in R!Images : ~(i < image'[p])
                /\ \A i \in R!Images : i < image[p] \/ i = image[p]
  BY <1>1, <1>4, <1>5 DEF R!Advance, R!Goes, R!ReleaseTypeOK
<1>6. ASSUME NEW place, R!Goes(p, place) PROVE job'[p] = place
  BY <1>1, <1>6 DEF R!Goes, R!ReleaseTypeOK
<1>7. ASSUME R!Start(p) PROVE Rest
  <2>1. UNCHANGED <<tag, release, tagged>>
    BY <1>7 DEF R!Start
  <2>2. CASE BuildOf[p] \in tagged
    <3>1. job'[p] = "inspect"
      BY <1>6, <1>7, <2>2 DEF R!Start
    <3>2. QED
      BY <1>3, <2>1, <2>2, <3>1 DEF TagsAsSeen
  <2>3. CASE BuildOf[p] \notin tagged
    <3>1. job'[p] = "preflight"
      BY <1>6, <1>7, <2>3 DEF R!Start
    <3>2. image'[p] = 1
      BY <1>3, <1>7 DEF R!Start, R!At, TagsAsSeen
    <3>3. QED
      BY <1>3, <1>4, <2>1, <3>1, <3>2 DEF TagsAsSeen
  <2>4. QED
    BY <2>2, <2>3
<1>8. ASSUME R!Preflight(p) PROVE Rest
  <2>1. /\ job[p] = "preflight" /\ UNCHANGED <<tag, release, tagged>>
        /\ R!Advance(p, "preflight", "tags")
        /\ seen'[p][image[p]] = tag[image[p]]
        /\ \A i \in R!Images : i # image[p] => seen'[p][i] = seen[p][i]
        /\ image[p] = LastImage =>
             \A i \in R!Images : seen'[p][i] = R!NoBuild \/ seen'[p][i] = BuildOf[p]
    BY <1>1, <1>4, <1>8 DEF R!Preflight, R!At, R!Own, R!ReleaseTypeOK
  <2>2. \A i \in R!Images : i < image[p] \/ i = image[p] => seen'[p][i] = tag[i]
    BY <1>3, <2>1 DEF TagsAsSeen
  <2>3. TagsAsSeen(p)'
    BY <1>5, <2>1, <2>2 DEF TagsAsSeen, OwnTag
  <2>4. job'[p] # "published"
    BY <1>5, <2>1
  <2>5. QED
    BY <1>3, <2>1, <2>3, <2>4
<1>9. ASSUME R!KeepTag(p) \/ R!CheckTag(p) PROVE Rest
  <2>1. /\ job[p] \in {"tags", "checking"} /\ UNCHANGED <<tag, release, seen, tagged>>
        /\ R!Advance(p, "tags", "final")
        /\ seen[p][image[p]] # R!NoBuild \/ OwnTag(p, image[p])
    BY <1>9 DEF R!KeepTag, R!CheckTag, R!At, R!Own, OwnTag
  <2>2. OwnTag(p, image[p])
    BY <1>3, <1>4, <2>1 DEF TagsAsSeen
  <2>3. TagsAsSeen(p)'
    BY <1>3, <1>5, <2>1, <2>2 DEF TagsAsSeen, OwnTag
  <2>4. job'[p] # "published"
    BY <1>5, <2>1
  <2>5. QED
    BY <1>3, <2>1, <2>3, <2>4
<1>10. ASSUME R!DecideTag(p) PROVE Rest
  <2>1. /\ job[p] = "tags" /\ job'[p] = "creating"
        /\ tag[image[p]] = R!NoBuild
        /\ UNCHANGED <<tag, release, image, seen, tagged>>
    BY <1>6, <1>10 DEF R!DecideTag, R!At
  <2>2. QED
    BY <1>3, <2>1 DEF TagsAsSeen, OwnTag
<1>11. ASSUME R!CreateTag(p) PROVE Rest
  <2>1. /\ job[p] = "creating" /\ job'[p] \in {"checking", "failed"}
        /\ tag'[image[p]] = BuildOf[p]
        /\ \A i \in R!Images : i # image[p] => tag'[i] = tag[i]
        /\ UNCHANGED <<release, image, seen, tagged>>
    BY <1>1, <1>4, <1>6, <1>11 DEF R!CreateTag, R!At, R!ReleaseTypeOK
  <2>2. tag[image[p]] = R!NoBuild
    BY <1>3, <2>1 DEF TagsAsSeen
  <2>3. tagged = {}
    <3>1. \A b \in tagged : b # R!NoBuild
      BY <1>1, <1>4 DEF R!ReleaseTypeOK, R!Builds
    <3>2. QED
      BY <1>3, <1>4, <2>2, <3>1
  <2>4. TagsAsSeen(p)'
    BY <1>3, <1>4, <2>1 DEF TagsAsSeen, OwnTag
  <2>5. QED
    BY <1>3, <2>1, <2>3, <2>4
<1>12. ASSUME R!FinalCheck(p) PROVE Rest
  <2>1. /\ job[p] = "final" /\ UNCHANGED <<tag, release, seen, tagged>>
        /\ R!Advance(p, "final", "public")
    BY <1>12 DEF R!FinalCheck, R!At
  <2>2. job'[p] \in {"final", "public"}
    BY <1>5, <2>1
  <2>3. QED
    BY <1>3, <2>1, <2>2 DEF TagsAsSeen, OwnTag
<1>13. ASSUME R!PublicCheck(p) PROVE Rest
  <2>1. /\ job[p] = "public" /\ UNCHANGED <<tag, release, seen>>
        /\ R!Advance(p, "public", "inspect")
        /\ tagged' = IF image[p] = LastImage THEN tagged \union {BuildOf[p]} ELSE tagged
    BY <1>13 DEF R!PublicCheck, R!At
  <2>2. \A i \in R!Images : tag[i] = BuildOf[p]
    BY <1>3, <2>1 DEF TagsAsSeen, OwnTag
  <2>3. \/ job'[p] = "public"
        \/ job'[p] = "inspect" /\ image[p] = LastImage
    BY <1>5, <2>1
  <2>4. TagsAsSeen(p)'
    BY <2>1, <2>2, <2>3 DEF TagsAsSeen, OwnTag
  <2>5. QED
    BY <1>3, <2>1, <2>2, <2>3, <2>4
<1>14. ASSUME R!InspectRelease(p) PROVE Rest
  <2>1. /\ job[p] = "inspect" /\ UNCHANGED <<tag, release, image, seen, tagged>>
        /\ \/ job'[p] = "create"
           \/ job'[p] = "published" /\ release = BuildOf[p]
    BY <1>6, <1>14 DEF R!InspectRelease, R!At, R!Own
  <2>2. QED
    BY <1>3, <2>1 DEF TagsAsSeen
<1>15. ASSUME R!CreateRelease(p) PROVE Rest
  <2>1. /\ job[p] = "create" /\ job'[p] = "await" /\ UNCHANGED <<tag, image, seen, tagged>>
        /\ release' = release \/ (release = R!NoBuild /\ release' = BuildOf[p])
    BY <1>6, <1>15 DEF R!CreateRelease, R!At
  <2>2. QED
    BY <1>3, <2>1 DEF TagsAsSeen
<1>16. ASSUME R!ConfirmRelease(p) PROVE Rest
  <2>1. /\ job'[p] = "published" /\ release = BuildOf[p]
        /\ UNCHANGED <<tag, release, image, seen, tagged>>
    BY <1>6, <1>16 DEF R!ConfirmRelease, R!Own
  <2>2. QED
    BY <1>3, <2>1 DEF TagsAsSeen
<1>17. ASSUME R!Stop(p) PROVE Rest
  <2>1. job'[p] = "failed" /\ UNCHANGED <<tag, release, image, seen, tagged>>
    BY <1>6, <1>17 DEF R!Stop
  <2>2. QED
    BY <1>3, <2>1 DEF TagsAsSeen
<1> HIDE DEF Rest
<1>18. Rest
  BY <1>7, <1>8, <1>9, <1>10, <1>11, <1>12, <1>13, <1>14, <1>15, <1>16, <1>17
     DEF R!Publish
<1>19. \A q \in Publishers \ {p} : TagsAsSeen(q)'
  BY <1>1, <1>2, <1>3 DEF TagsAsSeen, R!Working
<1>20. \A q \in Publishers : job'[q] = "published" => release' = BuildOf[q]
  <2> SUFFICES ASSUME NEW q \in Publishers, q # p, job'[q] = "published"
               PROVE  release' = BuildOf[q]
    BY <1>18 DEF Rest
  <2>1. release = BuildOf[q] /\ release # R!NoBuild
    BY <1>1, <1>3, <1>4
  <2>2. QED
    BY <1>18, <2>1 DEF Rest
<1>21. \A q, r \in Publishers :
         job'[q] \in R!Working /\ job'[r] \in R!Working => q = r
  BY <1>1, <1>2
<1>22. \A q \in Publishers : TagsAsSeen(q)'
  BY <1>18, <1>19 DEF Rest
<1>23. QED
  BY <1>1, <1>18, <1>20, <1>21, <1>22 DEF Rest, ReleaseIInv, R!ReleaseParameters, R!Images

\* A release describes tags that were all inspected after they were created,
\* by a run that worked alone, and a tag that points to a build stays.
THEOREM TagsAreDescribed ==
  R!ReleaseParameters /\ R!ReleaseSpec => []R!ReleaseMatchesTags
<1>1. R!ReleaseParameters /\ R!ReleaseInit => ReleaseIInv
  <2> SUFFICES ASSUME R!ReleaseParameters, R!ReleaseInit PROVE ReleaseIInv
    OBVIOUS
  <2>1. 1 \in R!Images
    BY DEF R!ReleaseParameters, R!Images
  <2>2. R!ReleaseTypeOK
    BY <2>1 DEF R!ReleaseInit, R!ReleaseTypeOK
  <2>3. \A p \in Publishers : job[p] = "queued" /\ image[p] = 1
    BY DEF R!ReleaseInit
  <2>4. \A p \in Publishers : TagsAsSeen(p)
    BY <2>3 DEF TagsAsSeen
  <2>5. QED
    BY <2>2, <2>3, <2>4 DEF ReleaseIInv, R!ReleaseInit, R!Working
<1>2. ReleaseIInv /\ [R!ReleaseNext]_(R!releaseVars) => ReleaseIInv'
  <2>1. ASSUME ReleaseIInv, UNCHANGED R!releaseVars PROVE ReleaseIInv'
    BY <2>1 DEF R!releaseVars, ReleaseIInv, R!ReleaseParameters, R!ReleaseTypeOK,
                TagsAsSeen, OwnTag, R!Images
  <2>2. QED
    BY <2>1, ReleaseStep DEF R!ReleaseNext
<1>3. ReleaseIInv => R!ReleaseMatchesTags
  BY DEF ReleaseIInv, R!ReleaseMatchesTags
<1>4. QED
  BY <1>1, <1>2, <1>3, PTL DEF R!ReleaseSpec

-----------------------------------------------------------------------------
(* The life of a worker process.                                           *)


ProcessIInv ==
  /\ W!ProcessParameters /\ W!ProcessTypeOK
  /\ task["dispatcher"] # "busy" => batch = 0
  /\ \A t \in W!Loops : task[t] # "rejected"
  /\ worker = "off" => running = 0
  /\ life = "draining" => firstStop # "none"
  /\ W!DrainsBeforeItEnds

\* The steps of the process.
LEMMA ProcessStep ==
  ASSUME ProcessIInv, [W!ProcessNext]_(W!processVars)
  PROVE  ProcessIInv'
<1>1. /\ BatchSize \in Nat \ {0} /\ Slots \in Nat
      /\ batch \in 0 .. BatchSize /\ running \in 0 .. Slots
      /\ worker = "off" => running = 0
      /\ task["dispatcher"] # "busy" => batch = 0
  BY DEF ProcessIInv, W!ProcessParameters, W!ProcessTypeOK
<1>2. W!ClaimBatch \/ W!HandleEvent \/ W!BatchFails => batch' \in 0 .. BatchSize
  BY <1>1 DEF W!ClaimBatch, W!HandleEvent, W!BatchFails
<1>3. W!HandleEvent => task["dispatcher"] = "busy"
  BY <1>1 DEF W!HandleEvent
<1>4. W!StartHandler \/ W!EndHandler =>
        running' \in 0 .. Slots /\ (worker = "off" => running' = 0)
  BY <1>1 DEF W!StartHandler, W!EndHandler
<1>5. worker = "off" => ~(running > 0)
  BY <1>1
<1> USE DEF ProcessIInv, W!ProcessParameters, W!ProcessTypeOK, W!Tasks, W!Loops,
            W!Signals, W!Alive, W!DrainsBeforeItEnds
<1>6. ASSUME W!ClaimBatch \/ W!HandleEvent \/ W!BatchFails PROVE ProcessIInv'
  <2>1. CASE W!ClaimBatch
    BY <1>2, <2>1 DEF W!ClaimBatch
  <2>2. CASE W!HandleEvent
    <3>1. task["dispatcher"] = "busy" /\ batch' \in 0 .. BatchSize
      BY <1>2, <1>3, <2>2
    <3>2. life' = life /\ life \in {"up", "draining"} /\ task' = task
          /\ UNCHANGED <<driver, running, worker, reading, armed, firstStop>>
      BY <2>2 DEF W!HandleEvent
    <3>3. QED
      BY <3>1, <3>2
  <2>3. CASE W!BatchFails
    <3>1. batch' = 0 /\ batch' \in 0 .. BatchSize
      BY <1>2, <2>3 DEF W!BatchFails
    <3>2. /\ task' \in [W!Tasks -> {"busy", "asleep", "returned", "rejected"}]
          /\ \A t \in W!Loops : task'[t] # "rejected"
      BY <2>3 DEF W!BatchFails, W!Becomes
    <3>3. QED
      BY <2>3, <3>1, <3>2 DEF W!BatchFails
  <2>4. QED
    BY <1>6, <2>1, <2>2, <2>3
<1>7. ASSUME NEW t \in W!Tasks, \/ t \in W!Loops /\ (W!Sleep(t) \/ W!Wake(t))
                                \/ W!Return(t)
      PROVE  ProcessIInv'
  <2>1. PICK state \in {"asleep", "busy", "returned"} : W!Becomes(t, state)
    BY <1>7 DEF W!Sleep, W!Wake, W!Return
  <2>2. /\ t = "dispatcher" => batch = 0
        /\ life' = life /\ life' \in {"up", "draining"}
        /\ UNCHANGED <<driver, batch, running, worker, reading, armed, firstStop>>
    BY <1>7 DEF W!Sleep, W!Wake, W!Return
  <2>3. /\ task' \in [W!Tasks -> {"busy", "asleep", "returned", "rejected"}]
        /\ task'[t] = state /\ \A u \in W!Tasks \ {t} : task'[u] = task[u]
    BY <2>1 DEF W!Becomes
  <2>4. /\ \A u \in W!Loops : task'[u] # "rejected"
        /\ task'["dispatcher"] # "busy" => batch' = 0
    BY <2>2, <2>3
  <2>5. W!DrainsBeforeItEnds'
    BY <2>2
  <2>6. W!ProcessTypeOK'
    BY <2>2, <2>3
  <2>7. QED
    BY <2>2, <2>4, <2>5, <2>6
<1>8. ASSUME W!Scrape \/ W!Collected \/ W!MetricsFail PROVE ProcessIInv'
  BY <1>8 DEF W!Scrape, W!Collected, W!MetricsFail, W!Becomes
<1>9. ASSUME W!StartHandler \/ W!EndHandler PROVE ProcessIInv'
  <2>1. running' \in 0 .. Slots /\ (worker = "off" => running' = 0)
    BY <1>4, <1>9
  <2>2. /\ life \in {"up", "draining"}
        /\ UNCHANGED <<driver, task, batch, worker, reading, armed, firstStop, life>>
    BY <1>9 DEF W!StartHandler, W!EndHandler
  <2>3. QED
    BY <2>1, <2>2
<1>10. ASSUME NEW s \in W!Signals, W!Signal(s) PROVE ProcessIInv'
  BY <1>10 DEF W!Signal
<1>11. ASSUME W!ComponentStops \/ W!Drain \/ W!WorkerStops \/ W!WorkerBreaks
      PROVE  ProcessIInv'
  BY <1>11 DEF W!ComponentStops, W!Drain, W!WorkerStops, W!WorkerBreaks
<1>12. ASSUME W!End PROVE ProcessIInv'
  <2>1. /\ life = "draining"
        /\ UNCHANGED <<driver, task, batch, running, worker, reading, armed, firstStop>>
        /\ life' \in {"ended", "ended with error"}
    BY <1>12 DEF W!End
  <2>2. /\ worker \in {"off", "broken"}
        /\ \A t \in W!Tasks : task[t] \in {"returned", "rejected"}
    BY <1>12 DEF W!End, W!AllSettled, W!WorkerOver
  <2>3. life' = "ended" =>
          /\ firstStop # "component" /\ worker # "broken"
          /\ \A t \in W!Tasks : task[t] # "rejected"
    BY <1>12 DEF W!End
  <2>4. batch = 0 /\ \A t \in W!Loops : task[t] = "returned"
    BY <2>2
  <2>5. running > 0 => worker = "broken"
    BY <1>5, <2>2
  <2>6. life' = "ended" =>
          firstStop = "signal" /\ running = 0 /\ task["metrics"] = "returned"
    BY <2>1, <2>2, <2>3
  <2>7. QED
    BY <2>1, <2>4, <2>5, <2>6
<1>13. ASSUME W!Kill PROVE ProcessIInv'
  BY <1>13 DEF W!Kill
<1>14. ASSUME UNCHANGED W!processVars PROVE ProcessIInv'
  BY <1>14 DEF W!processVars
<1>15. ASSUME W!ProcessNext PROVE ProcessIInv'
  BY <1>6, <1>7, <1>8, <1>9, <1>10, <1>11, <1>12, <1>13, <1>15 DEF W!ProcessNext
<1>16. QED
  BY <1>14, <1>15

\* The database is closed only after every task has settled, and no task that
\* settled writes again.
THEOREM TasksSettleFirst ==
  W!ProcessParameters /\ W!ProcessSpec => []W!DrainsBeforeItEnds
<1>1. W!ProcessParameters /\ W!ProcessInit => ProcessIInv
  <2> SUFFICES ASSUME W!ProcessParameters, W!ProcessInit PROVE ProcessIInv
    OBVIOUS
  <2>1. 0 \in 0 .. BatchSize /\ 0 \in 0 .. Slots
    BY DEF W!ProcessParameters
  <2>2. W!ProcessTypeOK
    BY <2>1 DEF W!ProcessInit, W!ProcessTypeOK
  <2>3. QED
    BY <2>2 DEF ProcessIInv, W!ProcessInit, W!Tasks, W!Loops, W!DrainsBeforeItEnds
<1>2. ProcessIInv /\ [W!ProcessNext]_(W!processVars) => ProcessIInv'
  BY ProcessStep
<1>3. ProcessIInv => W!DrainsBeforeItEnds
  BY DEF ProcessIInv
<1>4. QED
  BY <1>1, <1>2, <1>3, PTL DEF W!ProcessSpec

-----------------------------------------------------------------------------
(* The backup command.                                                     *)


\* A file that is about to be published is a verified snapshot.
BackupIInv ==
  /\ B!BackupParameters /\ B!BackupTypeOK
  /\ \A c \in B!Commands : step[c] = "publish" => partial[c] \in B!Snapshots

\* The steps of the commands, of the live database and of the operator.
LEMMA BackupStep ==
  ASSUME BackupIInv, [B!BackupNext]_(B!backupVars)
  PROVE  BackupIInv'
<1> USE DEF BackupIInv, B!BackupParameters, B!BackupTypeOK, B!Commands,
            B!Destinations, B!Output, B!Contents, B!Damaged, B!Absent, B!Steps, B!Goes
<1>1. ASSUME NEW c \in B!Commands, B!Start(c) \/ B!ReadBackup(c) PROVE BackupIInv'
  BY <1>1 DEF B!Start, B!ReadBackup
<1>2. ASSUME NEW c \in B!Commands, B!WritePartial(c) PROVE BackupIInv'
  BY <1>2 DEF B!WritePartial
<1>3. ASSUME NEW c \in B!Commands, B!Verify(c) PROVE BackupIInv'
  BY <1>3 DEF B!Verify, B!Sound
<1>4. ASSUME NEW c \in B!Commands, B!Publish(c) PROVE BackupIInv'
  BY <1>4 DEF B!Publish
<1>5. ASSUME NEW c \in B!Commands, B!RemovePartial(c) \/ B!CleanUp(c) PROVE BackupIInv'
  BY <1>5 DEF B!RemovePartial, B!CleanUp
<1>6. ASSUME NEW c \in B!Commands, B!Fail(c) \/ B!Kill(c) PROVE BackupIInv'
  BY <1>6 DEF B!Fail, B!Throw, B!Kill
<1>7. ASSUME B!Change \/ B!Delete \/ B!Rot PROVE BackupIInv'
  BY <1>7 DEF B!Change, B!Delete, B!Rot, B!Snapshots
<1>8. ASSUME UNCHANGED B!backupVars PROVE BackupIInv'
  BY <1>8 DEF B!backupVars
<1>9. ASSUME NEW c \in B!Commands, B!Command(c) PROVE BackupIInv'
  BY <1>1, <1>2, <1>3, <1>4, <1>5, <1>6, <1>9 DEF B!Command
<1>10. ASSUME B!BackupNext PROVE BackupIInv'
  BY <1>7, <1>9, <1>10 DEF B!BackupNext
<1>11. QED
  BY <1>8, <1>10

\* Only the link and the operator change what lies under an output path.
LEMMA OutputStep ==
  ASSUME BackupIInv, [B!BackupNext]_(B!backupVars), NEW d \in B!Destinations,
         file'[d] # file[d]
  PROVE  /\ file'[d] \in B!Snapshots => file[d] = B!Absent
         /\ file[d] = B!Absent => file'[d] \in B!Snapshots
<1>1. file \in [B!Destinations -> B!Contents \union {B!Absent}]
  BY DEF BackupIInv, B!BackupTypeOK
<1>2. B!Damaged \notin B!Snapshots /\ B!Absent \notin B!Snapshots /\ B!Damaged # B!Absent
  BY DEF BackupIInv, B!BackupParameters, B!Damaged, B!Absent, B!Snapshots
<1>3. ASSUME NEW c \in B!Commands, B!Publish(c) PROVE
        /\ file[d] = B!Absent
        /\ file'[d] \in B!Snapshots
  BY <1>1, <1>3 DEF B!Publish, B!MayLink, B!Goes, BackupIInv
<1>4. CASE B!Delete
  BY <1>1, <1>2, <1>4 DEF B!Delete
<1>5. CASE B!Rot
  BY <1>1, <1>2, <1>5 DEF B!Rot
<1>6. CASE \E c \in B!Commands : B!Command(c) /\ ~B!Publish(c)
  BY <1>6 DEF B!Command, B!Start, B!ReadBackup, B!WritePartial, B!Verify,
              B!RemovePartial, B!Fail, B!CleanUp, B!Kill
<1>7. CASE B!Change \/ UNCHANGED B!backupVars
  BY <1>7 DEF B!Change, B!backupVars
<1>8. QED
  BY <1>3, <1>4, <1>5, <1>6, <1>7 DEF B!BackupNext

\* A command links a temporary file that it has verified, to a free path.
THEOREM SnapshotsAreLinked ==
  B!BackupParameters /\ B!BackupSpec => B!OutputsAppearWhole
<1>1. B!BackupParameters /\ B!BackupInit => BackupIInv
  <2> SUFFICES ASSUME B!BackupParameters, B!BackupInit PROVE BackupIInv
    OBVIOUS
  <2>1. 1 \in B!Snapshots
    BY DEF B!BackupParameters, B!Snapshots
  <2>2. QED
    BY <2>1 DEF BackupIInv, B!BackupInit, B!BackupTypeOK, B!Contents, B!Steps
<1>2. BackupIInv /\ [B!BackupNext]_(B!backupVars) => BackupIInv'
  BY BackupStep
<1>3. BackupIInv /\ [B!BackupNext]_(B!backupVars) =>
        [\A d \in B!Destinations : file'[d] # file[d] =>
           /\ file'[d] \in B!Snapshots => file[d] = B!Absent
           /\ file[d] = B!Absent => file'[d] \in B!Snapshots]_(B!backupVars)
  BY OutputStep
<1>4. QED
  BY <1>1, <1>2, <1>3, PTL DEF B!BackupSpec, B!OutputsAppearWhole

-----------------------------------------------------------------------------
(* The analytics projector.                                                *)


\* An insertion that is under way and has events of a workspace that was
\* purged read the receipts before the purge.
BeganBeforePurge(insertion) ==
  \A e \in insertion.batch :
    LET w == WorkspaceOf[e] IN A!Purged(w) => receipt[w].since <= insertion.age

\* A workspace whose erasure has begun was purged the grace period ago; while
\* its erasure is confirmed, and from then on, the warehouse has none of it.
Erasing(p, w) ==
  /\ projector[p].stage \in {"erasing", "erased"} /\ w \in projector[p].todo =>
       A!Purged(w) /\ receipt[w].since = Grace
  /\ projector[p].stage = "erased" /\ A!First(projector[p].todo, w) =>
       warehouse \intersect A!EventsOf(w) = {}

\* A projector that does not insert has no insertion that grows old.
Orderly(p) ==
  /\ projector[p].stage # "checked" => projector[p].age = 0
  /\ projector[p].stage = "checked" => BeganBeforePurge(projector[p])
  /\ \A w \in Workspaces : Erasing(p, w)

AnalyticsIInv ==
  /\ A!AnalyticsParameters /\ A!AnalyticsTypeOK
  /\ \A w \in Workspaces :
       /\ receipt[w].state = "none" => receipt[w].since = 0
       /\ receipt[w].state = "erased" => receipt[w].since = Grace
  /\ \A p \in Dispatchers : Orderly(p)
  /\ \A request \in requests : BeganBeforePurge(request)
  /\ A!ErasedForGood

\* The rows of the tables, and what a projector and a request remember.
FactRow == [state : {"absent", "pending", "projected", "deleted"}, lapse : A!Lapse]
ReceiptRow ==
  [state : {"none", "purged", "erased"}, since : 0 .. Grace, lapse : A!Lapse]
Memory == [stage : A!Stage, todo : SUBSET Workspaces, batch : SUBSET Facts,
           age : 0 .. Deadline]
Request == [batch : SUBSET Facts, age : 0 .. Deadline]

\* The type invariant by rows.
LEMMA AnalyticsTypeRows ==
  A!AnalyticsTypeOK <=>
    /\ fact \in [Facts -> FactRow] /\ receipt \in [Workspaces -> ReceiptRow]
    /\ projector \in [Dispatchers -> Memory] /\ requests \subseteq Request
    /\ warehouse \subseteq Facts /\ setbacks \in 0 .. MaxSetbacks
BY DEF A!AnalyticsTypeOK, FactRow, ReceiptRow, Memory, Request

\* What the changes of single fields do to rows.
LEMMA RowChanges ==
  ASSUME A!AnalyticsParameters
  PROVE  /\ \A row \in FactRow, l \in A!Lapse : [row EXCEPT !.lapse = l] \in FactRow
         /\ \A row \in ReceiptRow, l \in A!Lapse :
              /\ [row EXCEPT !.lapse = l] \in ReceiptRow
              /\ [row EXCEPT !.lapse = l].state = row.state
              /\ [row EXCEPT !.lapse = l].since = row.since
         /\ \A row \in Memory, s \in A!Stage :
              /\ [row EXCEPT !.stage = s] \in Memory
              /\ [row EXCEPT !.stage = s].stage = s
              /\ [row EXCEPT !.stage = s].todo = row.todo
              /\ [row EXCEPT !.stage = s].batch = row.batch
              /\ [row EXCEPT !.stage = s].age = row.age
         /\ A!AtStart \in Memory /\ A!AtStart.stage = "erase" /\ A!AtStart.age = 0
         /\ A!Free \in A!Lapse
         /\ \A p \in Dispatchers : A!Claimed(p) \in A!Lapse
         /\ \A ticks \in 1 .. FactWait : A!Delayed(ticks) \in A!Lapse
<1> USE DEF A!AnalyticsParameters
<1>1. \A row \in FactRow, l \in A!Lapse : [row EXCEPT !.lapse = l] \in FactRow
  BY DEF FactRow
<1>2. ASSUME NEW row \in ReceiptRow, NEW l \in A!Lapse
      PROVE  /\ [row EXCEPT !.lapse = l] \in ReceiptRow
             /\ [row EXCEPT !.lapse = l].state = row.state
             /\ [row EXCEPT !.lapse = l].since = row.since
  BY DEF ReceiptRow
<1>3. ASSUME NEW row \in Memory, NEW s \in A!Stage
      PROVE  /\ [row EXCEPT !.stage = s] \in Memory
             /\ [row EXCEPT !.stage = s].stage = s
             /\ [row EXCEPT !.stage = s].todo = row.todo
             /\ [row EXCEPT !.stage = s].batch = row.batch
             /\ [row EXCEPT !.stage = s].age = row.age
  BY DEF Memory
<1>4. A!AtStart \in Memory /\ A!AtStart.stage = "erase" /\ A!AtStart.age = 0
  BY DEF Memory, A!AtStart, A!Stage
<1>5. /\ A!Free \in A!Lapse
      /\ \A p \in Dispatchers : A!Claimed(p) \in A!Lapse
      /\ \A ticks \in 1 .. FactWait : A!Delayed(ticks) \in A!Lapse
  BY DEF A!Free, A!Claimed, A!Delayed, A!Lapse
<1>6. QED
  BY <1>1, <1>2, <1>3, <1>4, <1>5

\* What the passing of time does to rows.
LEMMA RowsAge ==
  ASSUME A!AnalyticsParameters
  PROVE  /\ \A l \in A!Lapse : A!Aged(l) \in A!Lapse
         /\ \A row \in ReceiptRow :
              LET older == [row EXCEPT
                    !.lapse = A!Aged(@),
                    !.since = IF row.state = "none" \/ @ = Grace THEN @ ELSE @ + 1]
              IN /\ older \in ReceiptRow /\ older.state = row.state
                 /\ older.since = IF row.state = "none" \/ row.since = Grace
                                  THEN row.since ELSE row.since + 1
<1>1. /\ FactLease \in Nat /\ FactWait \in Nat /\ Grace \in Nat
  BY DEF A!AnalyticsParameters
<1>2. ASSUME NEW l \in A!Lapse PROVE A!Aged(l) \in A!Lapse
  <2>1. /\ l.claim \in Dispatchers \union {NoClaim}
        /\ l.age \in 0 .. FactLease + 1 /\ l.wait \in 0 .. FactWait
    BY DEF A!Lapse
  <2>2. /\ (IF l.claim = NoClaim \/ l.age > FactLease THEN l.age ELSE l.age + 1)
             \in 0 .. FactLease + 1
        /\ (IF l.wait = 0 THEN 0 ELSE l.wait - 1) \in 0 .. FactWait
    BY <1>1, <2>1
  <2>3. QED
    BY <2>2 DEF A!Lapse, A!Aged
<1>3. ASSUME NEW row \in ReceiptRow
      PROVE  LET older == [row EXCEPT
                    !.lapse = A!Aged(@),
                    !.since = IF row.state = "none" \/ @ = Grace THEN @ ELSE @ + 1]
             IN /\ older \in ReceiptRow /\ older.state = row.state
                /\ older.since = IF row.state = "none" \/ row.since = Grace
                                 THEN row.since ELSE row.since + 1
  <2>1. row.lapse \in A!Lapse /\ row.since \in 0 .. Grace
    BY DEF ReceiptRow
  <2>2. A!Aged(row.lapse) \in A!Lapse
    BY <1>2, <2>1
  <2>3. (IF row.state = "none" \/ row.since = Grace THEN row.since ELSE row.since + 1)
          \in 0 .. Grace
    BY <1>1, <2>1
  <2>4. QED
    BY <2>2, <2>3 DEF ReceiptRow
<1>4. QED
  BY <1>2, <1>3

\* The rows of the events through every step.
LEMMA FactTypes ==
  ASSUME A!AnalyticsParameters, A!AnalyticsTypeOK, A!AnalyticsNext
  PROVE  fact' \in [Facts -> FactRow]
<1>1. fact \in [Facts -> FactRow]
  BY AnalyticsTypeRows
<1>2. /\ \A row \in FactRow, l \in A!Lapse : [row EXCEPT !.lapse = l] \in FactRow
      /\ \A p \in Dispatchers : A!Claimed(p) \in A!Lapse
      /\ \A ticks \in 1 .. FactWait : A!Delayed(ticks) \in A!Lapse
      /\ \A l \in A!Lapse : A!Aged(l) \in A!Lapse
  BY RowChanges, RowsAge
<1>3. /\ [state |-> "deleted", lapse |-> A!Free] \in FactRow
      /\ [state |-> "projected", lapse |-> A!Free] \in FactRow
  BY RowChanges DEF FactRow
<1>4. \A row \in FactRow : row.lapse \in A!Lapse /\ [row EXCEPT !.state = "pending"] \in FactRow
  BY DEF FactRow
<1>5. CASE fact' = fact
  BY <1>1, <1>5
<1>6. ASSUME NEW e \in Facts, A!Record(e) PROVE fact' \in [Facts -> FactRow]
  BY <1>1, <1>4, <1>6 DEF A!Record
<1>7. ASSUME NEW w \in Workspaces, A!Purge(w) PROVE fact' \in [Facts -> FactRow]
  BY <1>1, <1>3, <1>7 DEF A!Purge
<1>8. ASSUME NEW p \in Dispatchers, A!ClaimFacts(p) PROVE fact' \in [Facts -> FactRow]
  BY <1>1, <1>2, <1>8 DEF A!ClaimFacts
<1>9. ASSUME NEW p \in Dispatchers, NEW events, A!RetriedFacts(p, events)
      PROVE  fact' \in [Facts -> FactRow]
  BY <1>1, <1>2, <1>9 DEF A!RetriedFacts
<1>10. ASSUME NEW p \in Dispatchers, A!CompleteFacts(p) PROVE fact' \in [Facts -> FactRow]
  BY <1>1, <1>3, <1>10 DEF A!CompleteFacts
<1>11. ASSUME A!Pass PROVE fact' \in [Facts -> FactRow]
  <2>1. fact' = [e \in Facts |-> [fact[e] EXCEPT !.lapse = A!Aged(@)]]
    BY <1>11 DEF A!Pass
  <2>2. \A e \in Facts : [fact[e] EXCEPT !.lapse = A!Aged(@)] \in FactRow
    BY <1>1, <1>2, <1>4
  <2>3. QED
    BY <2>1, <2>2
<1>12. ASSUME NEW p \in Dispatchers, A!Project(p) PROVE fact' \in [Facts -> FactRow]
  <2>1. CASE A!ClaimFacts(p) \/ A!CompleteFacts(p)
    BY <1>8, <1>10, <2>1
  <2>2. CASE A!RetryFacts(p) \/ \E e \in Facts : A!RejectFact(p, e)
    BY <1>9, <2>2 DEF A!RetryFacts, A!RejectFact
  <2>3. CASE \/ A!ClaimErasures(p) \/ A!CheckPurges(p) \/ A!NothingToInsert(p) \/ A!Insert(p)
             \/ \E w \in Workspaces : A!EraseWorkspace(p, w) \/ A!CompleteErasure(p, w)
    BY <1>5, <2>3 DEF A!ClaimErasures, A!CheckPurges, A!NothingToInsert, A!Insert,
                      A!EraseWorkspace, A!CompleteErasure
  <2>4. QED
    BY <1>12, <2>1, <2>2, <2>3 DEF A!Project
<1>13. CASE \/ \E p \in Dispatchers : A!FailInsertion(p) \/ A!Interrupt(p)
            \/ \E p \in Dispatchers, w \in Workspaces : A!FailErasure(p, w)
            \/ \E request \in requests : A!Settle(request)
  BY <1>5, <1>13 DEF A!FailInsertion, A!Interrupt, A!FailErasure, A!Settle
<1>14. QED
  BY <1>6, <1>7, <1>11, <1>12, <1>13 DEF A!AnalyticsNext

\* Receipts keep their times; one that is completed was erased before.
SameReceipts ==
  /\ receipt' \in [Workspaces -> ReceiptRow]
  /\ \A w \in Workspaces :
       /\ receipt'[w].since = receipt[w].since
       /\ receipt'[w].state # receipt[w].state =>
            /\ receipt[w].state = "purged" /\ receipt'[w].state = "erased"
            /\ warehouse' = warehouse
            /\ \E p \in Dispatchers :
                 projector[p].stage = "erased" /\ A!First(projector[p].todo, w)

\* What the steps of a projector do to the receipts.
LEMMA ReceiptsKept ==
  ASSUME A!AnalyticsParameters, A!AnalyticsTypeOK, NEW p \in Dispatchers,
         \/ A!Project(p) \/ A!FailInsertion(p) \/ A!Interrupt(p)
         \/ \E w \in Workspaces : A!FailErasure(p, w)
  PROVE  SameReceipts
<1>1. receipt \in [Workspaces -> ReceiptRow]
  BY AnalyticsTypeRows
<1>2. /\ \A row \in ReceiptRow, l \in A!Lapse :
           /\ [row EXCEPT !.lapse = l] \in ReceiptRow
           /\ [row EXCEPT !.lapse = l].state = row.state
           /\ [row EXCEPT !.lapse = l].since = row.since
      /\ A!Claimed(p) \in A!Lapse
      /\ \A ticks \in 1 .. FactWait : A!Delayed(ticks) \in A!Lapse
  BY RowChanges
<1>3. CASE receipt' = receipt
  BY <1>1, <1>3 DEF SameReceipts
<1>4. ASSUME A!ClaimErasures(p), receipt' # receipt PROVE SameReceipts
  <2>1. PICK chosen \in A!ErasureBatches :
          receipt' = [w \in Workspaces |->
               IF w \in chosen THEN [receipt[w] EXCEPT !.lapse = A!Claimed(p)]
                              ELSE receipt[w]]
    BY <1>4 DEF A!ClaimErasures
  <2>2. \A w \in Workspaces :
          /\ receipt[w] \in ReceiptRow
          /\ receipt'[w] = receipt[w] \/ receipt'[w] = [receipt[w] EXCEPT !.lapse = A!Claimed(p)]
    BY <1>1, <2>1
  <2>3. \A w \in Workspaces :
          /\ receipt'[w] \in ReceiptRow
          /\ receipt'[w].since = receipt[w].since
          /\ receipt'[w].state = receipt[w].state
    <3> SUFFICES ASSUME NEW w \in Workspaces
                 PROVE  /\ receipt'[w] \in ReceiptRow
                        /\ receipt'[w].since = receipt[w].since
                        /\ receipt'[w].state = receipt[w].state
      OBVIOUS
    <3> DEFINE row == [receipt[w] EXCEPT !.lapse = A!Claimed(p)]
    <3>1. row \in ReceiptRow /\ row.since = receipt[w].since /\ row.state = receipt[w].state
      BY <1>2, <2>2
    <3> HIDE DEF row
    <3>2. receipt'[w] = receipt[w] \/ receipt'[w] = row
      BY <2>2 DEF row
    <3>3. QED
      BY <2>2, <3>1, <3>2
  <2>4. QED
    BY <2>1, <2>3 DEF SameReceipts
<1>5. ASSUME NEW w \in Workspaces, NEW ticks \in 1 .. FactWait,
             receipt' = [receipt EXCEPT ![w].lapse = A!Delayed(ticks)]
      PROVE  SameReceipts
  <2> DEFINE row == [receipt[w] EXCEPT !.lapse = A!Delayed(ticks)]
  <2>1. row \in ReceiptRow /\ row.since = receipt[w].since /\ row.state = receipt[w].state
    BY <1>1, <1>2
  <2>2. receipt' \in [Workspaces -> ReceiptRow]
    BY <1>1, <1>5, <2>1
  <2>3. \A v \in Workspaces : receipt'[v] = IF v = w THEN row ELSE receipt[v]
    BY <1>1, <1>5
  <2> HIDE DEF row
  <2>4. QED
    BY <1>1, <2>1, <2>2, <2>3 DEF SameReceipts
<1>6. ASSUME NEW w \in Workspaces, receipt[w].state = "purged", warehouse' = warehouse,
             projector[p].stage = "erased", A!First(projector[p].todo, w),
             receipt' = [receipt EXCEPT ![w].state = "erased", ![w].lapse = A!Free]
      PROVE  SameReceipts
  <2>1. A!Free \in A!Lapse /\ receipt[w] \in ReceiptRow
    BY <1>1, RowChanges
  <2>2. [receipt[w] EXCEPT !.state = "erased", !.lapse = A!Free] \in ReceiptRow
    BY <2>1 DEF ReceiptRow
  <2>3. \A v \in Workspaces :
          receipt'[v] = IF v = w
            THEN [receipt[w] EXCEPT !.state = "erased", !.lapse = A!Free]
            ELSE receipt[v]
    BY <1>1, <1>6
  <2>4. /\ receipt'[w].since = receipt[w].since /\ receipt'[w].state = "erased"
    BY <2>1, <2>3 DEF ReceiptRow
  <2>5. receipt' \in [Workspaces -> ReceiptRow]
    BY <1>1, <1>6, <2>2, <2>3
  <2>6. QED
    BY <1>6, <2>3, <2>4, <2>5 DEF SameReceipts
<1>7. CASE \E w \in Workspaces : A!CompleteErasure(p, w) \/ A!FailErasure(p, w)
  BY <1>3, <1>5, <1>6, <1>7 DEF A!CompleteErasure, A!FailErasure, A!HoldsErasure
<1>8. CASE A!FailInsertion(p) \/ A!Interrupt(p)
  BY <1>3, <1>8 DEF A!FailInsertion, A!Interrupt
<1>9. CASE \/ A!ClaimFacts(p) \/ A!CheckPurges(p) \/ A!NothingToInsert(p)
           \/ A!Insert(p) \/ A!CompleteFacts(p) \/ A!RetryFacts(p)
           \/ \E w \in Workspaces : A!EraseWorkspace(p, w)
           \/ \E e \in Facts : A!RejectFact(p, e)
  BY <1>3, <1>9 DEF A!ClaimFacts, A!CheckPurges, A!NothingToInsert, A!Insert,
                    A!CompleteFacts, A!RetryFacts, A!EraseWorkspace, A!RejectFact
<1>10. QED
  BY <1>3, <1>4, <1>7, <1>8, <1>9 DEF A!Project

\* An event that may still reach the warehouse: the erasure of its workspace
\* is not due.
Unripe(e) == ~(A!Purged(WorkspaceOf[e]) /\ receipt[WorkspaceOf[e]].since = Grace)

\* An insertion that is under way ends before the erasure of what it carries.
LEMMA InsertionsAreUnripe ==
  ASSUME A!AnalyticsParameters, A!AnalyticsTypeOK,
         NEW events \in SUBSET Facts, NEW age \in 0 .. Deadline,
         \A e \in events :
           A!Purged(WorkspaceOf[e]) => receipt[WorkspaceOf[e]].since <= age,
         NEW e \in events
  PROVE  Unripe(e)
BY DEF Unripe, A!AnalyticsParameters

\* A step that keeps the receipts, and brings only such events, keeps the
\* rules of everybody else.
LEMMA OthersStay ==
  ASSUME AnalyticsIInv, SameReceipts,
         \A e \in warehouse' : e \in warehouse \/ Unripe(e)
  PROVE  /\ \A w \in Workspaces :
              /\ receipt'[w].state = "none" => receipt'[w].since = 0
              /\ receipt'[w].state = "erased" => receipt'[w].since = Grace
         /\ A!ErasedForGood'
         /\ \A q \in Dispatchers : projector'[q] = projector[q] => Orderly(q)'
         /\ \A events \in SUBSET Facts, age \in 0 .. Deadline :
              (\A e \in events : A!Purged(WorkspaceOf[e]) =>
                                  receipt[WorkspaceOf[e]].since <= age) =>
              (\A e \in events : A!Purged(WorkspaceOf[e])' =>
                                  receipt'[WorkspaceOf[e]].since <= age)
         /\ \A w \in Workspaces : A!Purged(w)' <=> A!Purged(w)
<1>1. \A e \in Facts : WorkspaceOf[e] \in Workspaces
  BY DEF AnalyticsIInv, A!AnalyticsParameters
<1>2. \A w \in Workspaces :
        /\ receipt'[w].since = receipt[w].since
        /\ A!Purged(w)' <=> A!Purged(w)
  BY DEF SameReceipts, A!Purged
<1>3. \A w \in Workspaces :
        /\ receipt[w].state = "none" => receipt[w].since = 0
        /\ receipt[w].state = "erased" => receipt[w].since = Grace
  BY DEF AnalyticsIInv
<1>4. \A p \in Dispatchers : Orderly(p)
  BY DEF AnalyticsIInv
<1>5. \A w \in Workspaces :
        receipt'[w].state # receipt[w].state =>
          /\ receipt[w].state = "purged" /\ receipt'[w].state = "erased"
          /\ receipt[w].since = Grace
          /\ warehouse' = warehouse
          /\ warehouse \intersect A!EventsOf(w) = {}
  BY <1>4 DEF SameReceipts, Orderly, Erasing, A!First
<1>6. \A w \in Workspaces :
        /\ receipt'[w].state = "none" => receipt'[w].since = 0
        /\ receipt'[w].state = "erased" => receipt'[w].since = Grace
  BY <1>2, <1>3, <1>5
<1>7. \A w \in Workspaces, e \in warehouse' :
        e \in A!EventsOf(w) /\ A!Purged(w) /\ receipt[w].since = Grace => e \in warehouse
  BY DEF Unripe, A!EventsOf
<1>8. A!ErasedForGood'
  <2> SUFFICES ASSUME NEW w \in Workspaces, receipt'[w].state = "erased",
                      NEW e \in warehouse', e \in A!EventsOf(w)
               PROVE  FALSE
    BY DEF A!ErasedForGood, A!EventsOf
  <2>1. CASE receipt[w].state = "erased"
    <3>1. e \in warehouse
      BY <1>3, <1>7, <2>1 DEF A!Purged
    <3>2. QED
      BY <2>1, <3>1 DEF AnalyticsIInv, A!ErasedForGood
  <2>2. CASE receipt[w].state # "erased"
    BY <1>5, <2>2
  <2>3. QED
    BY <2>1, <2>2
<1>9. ASSUME NEW q \in Dispatchers, projector'[q] = projector[q] PROVE Orderly(q)'
  <2>1. projector[q].batch \subseteq Facts
    BY DEF AnalyticsIInv, A!AnalyticsTypeOK
  <2>2. BeganBeforePurge(projector[q]) => BeganBeforePurge(projector[q])'
    BY <1>1, <1>2, <1>9, <2>1 DEF BeganBeforePurge
  <2>3. ASSUME NEW w \in Workspaces PROVE Erasing(q, w)'
    <3>1. Erasing(q, w)
      BY <1>4 DEF Orderly
    <3>2. projector[q].stage = "erased" /\ A!First(projector[q].todo, w) =>
            A!Purged(w) /\ receipt[w].since = Grace
      BY <3>1 DEF Erasing, A!First
    <3>3. projector[q].stage = "erased" /\ A!First(projector[q].todo, w) =>
            warehouse' \intersect A!EventsOf(w) = {}
      BY <1>7, <3>1, <3>2 DEF Erasing
    <3>4. QED
      BY <1>2, <1>9, <3>1, <3>3 DEF Erasing, A!EventsOf
  <2>4. QED
    BY <1>4, <1>9, <2>2, <2>3 DEF Orderly
<1>10. \A events \in SUBSET Facts, age \in 0 .. Deadline :
         (\A e \in events : A!Purged(WorkspaceOf[e]) =>
                             receipt[WorkspaceOf[e]].since <= age) =>
         (\A e \in events : A!Purged(WorkspaceOf[e])' =>
                             receipt'[WorkspaceOf[e]].since <= age)
  BY <1>1, <1>2
<1>11. QED
  BY <1>2, <1>6, <1>8, <1>9, <1>10

\* What a projector remembers after one of its steps.
LEMMA ProjectorStep ==
  ASSUME AnalyticsIInv, NEW p \in Dispatchers,
         \/ A!Project(p) \/ A!FailInsertion(p) \/ A!Interrupt(p)
         \/ \E w \in Workspaces : A!FailErasure(p, w)
  PROVE  /\ projector' \in [Dispatchers -> Memory]
         /\ \A q \in Dispatchers \ {p} : projector'[q] = projector[q]
         /\ Orderly(p)'
<1> DEFINE Goal ==
      /\ projector' \in [Dispatchers -> Memory]
      /\ \A q \in Dispatchers \ {p} : projector'[q] = projector[q]
      /\ Orderly(p)'
<1>1. /\ A!AnalyticsParameters /\ A!AnalyticsTypeOK
      /\ projector \in [Dispatchers -> Memory] /\ projector[p] \in Memory
      /\ Orderly(p)
  BY AnalyticsTypeRows DEF AnalyticsIInv
<1>2. SameReceipts
  BY <1>1, ReceiptsKept
<1>3. /\ \A w \in Workspaces : receipt'[w].since = receipt[w].since
      /\ \A w \in Workspaces : A!Purged(w)' <=> A!Purged(w)
  BY <1>2 DEF SameReceipts, A!Purged
<1>4. ASSUME NEW row \in Memory, projector' = [projector EXCEPT ![p] = row],
             row.stage = "checked" =>
               \A e \in row.batch :
                 A!Purged(WorkspaceOf[e])' => receipt'[WorkspaceOf[e]].since <= row.age,
             row.stage # "checked" => row.age = 0,
             row.stage \in {"erasing", "erased"} =>
               \A w \in row.todo : w \in Workspaces => A!Purged(w) /\ receipt[w].since = Grace,
             row.stage = "erased" =>
               \A w \in Workspaces : A!First(row.todo, w) =>
                 warehouse' \intersect A!EventsOf(w) = {}
      PROVE  Goal
  <2>1. /\ projector' \in [Dispatchers -> Memory] /\ projector'[p] = row
        /\ \A q \in Dispatchers \ {p} : projector'[q] = projector[q]
    BY <1>1, <1>4
  <2>2. \A w \in Workspaces : Erasing(p, w)'
    BY <1>3, <1>4, <2>1 DEF Erasing, A!EventsOf
  <2>3. Orderly(p)'
    BY <1>4, <2>1, <2>2 DEF Orderly, BeganBeforePurge
  <2>4. QED
    BY <2>1, <2>3
<1> HIDE DEF Goal
<1>5. /\ \A s \in A!Stage :
           /\ [projector[p] EXCEPT !.stage = s] \in Memory
           /\ [projector[p] EXCEPT !.stage = s].stage = s
           /\ [projector[p] EXCEPT !.stage = s].todo = projector[p].todo
           /\ [projector[p] EXCEPT !.stage = s].batch = projector[p].batch
           /\ [projector[p] EXCEPT !.stage = s].age = projector[p].age
      /\ A!AtStart \in Memory /\ A!AtStart.stage = "erase" /\ A!AtStart.age = 0
  BY <1>1, RowChanges
<1>6. /\ projector[p].stage # "checked" => projector[p].age = 0
      /\ projector[p].stage = "checked" =>
           \A e \in projector[p].batch :
             A!Purged(WorkspaceOf[e]) => receipt[WorkspaceOf[e]].since <= projector[p].age
      /\ projector[p].stage \in {"erasing", "erased"} =>
           \A w \in projector[p].todo :
             w \in Workspaces => A!Purged(w) /\ receipt[w].since = Grace
  BY <1>1 DEF Orderly, Erasing, BeganBeforePurge
<1>7. \A s \in {"erase", "erasing", "erased", "project", "claimed", "checked",
                "inserted", "failed"} : s \in A!Stage
  BY DEF A!Stage
<1>8. ASSUME A!Abandon(p) PROVE Goal
  BY <1>4, <1>5, <1>8 DEF A!Abandon
<1>9. ASSUME NEW s \in A!Stage, A!Goto(p, s), projector[p].stage # "checked",
             s \notin {"checked", "erasing", "erased"}
      PROVE  Goal
  <2>1. projector' = [projector EXCEPT ![p] = [projector[p] EXCEPT !.stage = s]]
    BY <1>1, <1>9 DEF A!Goto
  <2>2. QED
    BY <1>4, <1>5, <1>6, <1>9, <2>1
<1>10. ASSUME A!ClaimErasures(p) PROVE Goal
  <2>1. projector[p].stage = "erase"
    BY <1>10 DEF A!ClaimErasures
  <2>2. CASE A!Goto(p, "project")
    BY <1>7, <1>9, <2>1, <2>2
  <2>3. CASE \E chosen \in A!ErasureBatches :
               projector' = [projector EXCEPT ![p].stage = "erasing", ![p].todo = chosen]
    <3>1. PICK chosen \in A!ErasureBatches :
            projector' = [projector EXCEPT ![p].stage = "erasing", ![p].todo = chosen]
      BY <2>3
    <3>2. /\ chosen \subseteq Workspaces
          /\ \A w \in chosen : A!Purged(w) /\ receipt[w].since = Grace
      BY DEF A!ErasureBatches, A!Erasable, A!Purged
    <3> DEFINE row == [projector[p] EXCEPT !.stage = "erasing", !.todo = chosen]
    <3>3. /\ projector' = [projector EXCEPT ![p] = row]
      BY <1>1, <3>1
    <3>4. /\ row \in Memory /\ row.stage = "erasing" /\ row.todo = chosen
          /\ row.age = projector[p].age
      BY <1>1, <1>7, <3>2 DEF Memory
    <3> HIDE DEF row
    <3>5. QED
      BY <1>4, <1>6, <2>1, <3>2, <3>3, <3>4
  <2>4. QED
    BY <1>10, <2>2, <2>3 DEF A!ClaimErasures
<1>11. ASSUME NEW w \in Workspaces, A!EraseWorkspace(p, w) PROVE Goal
  <2>1. /\ projector[p].stage = "erasing" /\ A!First(projector[p].todo, w)
        /\ warehouse' = warehouse \ A!EventsOf(w)
        /\ projector' = [projector EXCEPT ![p] = [projector[p] EXCEPT !.stage = "erased"]]
    BY <1>1, <1>11 DEF A!EraseWorkspace, A!Goto
  <2>2. \A v \in Workspaces : A!First(projector[p].todo, v) => v = w
    BY <1>1, <2>1 DEF A!First, A!AnalyticsParameters
  <2>3. \A v \in Workspaces : A!First(projector[p].todo, v) =>
          warehouse' \intersect A!EventsOf(v) = {}
    BY <2>1, <2>2
  <2>4. QED
    BY <1>4, <1>5, <1>6, <1>7, <2>1, <2>3
<1>12. ASSUME NEW w \in Workspaces, A!NextErasure(p, w),
              projector[p].stage \in {"erasing", "erased"}
       PROVE  Goal
  <2> DEFINE rest == projector[p].todo \ {w}
  <2> DEFINE next == IF rest = {} THEN "project" ELSE "erasing"
  <2> DEFINE row == [projector[p] EXCEPT !.todo = rest, !.stage = next]
  <2>1. projector' = [projector EXCEPT ![p] = row]
    BY <1>1, <1>12 DEF A!NextErasure
  <2>2. /\ row \in Memory /\ row.stage = next /\ row.todo = rest
        /\ row.age = projector[p].age
    BY <1>1, <1>7 DEF Memory
  <2>3. next \in {"project", "erasing"} /\ rest \subseteq projector[p].todo
    OBVIOUS
  <2> HIDE DEF row, rest, next
  <2>4. QED
    BY <1>4, <1>6, <1>12, <2>1, <2>2, <2>3
<1>13. ASSUME NEW w \in Workspaces, A!CompleteErasure(p, w) \/ A!FailErasure(p, w)
       PROVE  Goal
  BY <1>8, <1>12, <1>13 DEF A!CompleteErasure, A!FailErasure
<1>14. ASSUME A!ClaimFacts(p) PROVE Goal
  <2>1. CASE A!Abandon(p)
    BY <1>8, <2>1
  <2>2. CASE projector' = [projector EXCEPT ![p].stage = "claimed",
                                            ![p].batch = A!ProjectionBatch]
    <3> DEFINE row == [projector[p] EXCEPT !.stage = "claimed", !.batch = A!ProjectionBatch]
    <3>1. projector' = [projector EXCEPT ![p] = row]
      BY <1>1, <2>2
    <3>2. A!ProjectionBatch \subseteq Facts
      BY DEF A!ProjectionBatch
    <3>3. row \in Memory /\ row.stage = "claimed" /\ row.age = projector[p].age
      BY <1>1, <1>7, <3>2 DEF Memory
    <3>4. projector[p].stage = "project"
      BY <1>14 DEF A!ClaimFacts
    <3> HIDE DEF row
    <3>5. QED
      BY <1>4, <1>6, <3>1, <3>3, <3>4
  <2>3. QED
    BY <1>14, <2>1, <2>2 DEF A!ClaimFacts
<1>15. ASSUME A!CheckPurges(p) PROVE Goal
  <2> DEFINE events == A!Unpurged(projector[p].batch)
  <2> DEFINE row == [projector[p] EXCEPT !.stage = "checked", !.batch = events]
  <2>1. projector' = [projector EXCEPT ![p] = row]
    BY <1>1, <1>15 DEF A!CheckPurges
  <2>2. /\ events \subseteq projector[p].batch
        /\ \A e \in events : ~A!Purged(WorkspaceOf[e])
    BY DEF A!Unpurged
  <2>3. row \in Memory /\ row.stage = "checked" /\ row.batch = events
    BY <1>1, <1>7, <2>2 DEF Memory
  <2>4. \A e \in events : WorkspaceOf[e] \in Workspaces
    BY <1>1, <2>2 DEF A!AnalyticsParameters, Memory
  <2> HIDE DEF row, events
  <2>5. QED
    BY <1>3, <1>4, <2>1, <2>2, <2>3, <2>4
<1>16. ASSUME NEW e \in Facts, A!RejectFact(p, e) PROVE Goal
  <2>1. CASE A!Abandon(p)
    BY <1>8, <2>1
  <2>2. CASE projector' = [projector EXCEPT ![p].batch = @ \ {e}]
    <3> DEFINE row == [projector[p] EXCEPT !.batch = @ \ {e}]
    <3>1. projector' = [projector EXCEPT ![p] = row]
      BY <1>1, <2>2
    <3>2. /\ row \in Memory /\ row.stage = projector[p].stage /\ row.age = projector[p].age
          /\ row.batch \subseteq projector[p].batch
      BY <1>1 DEF Memory
    <3>3. projector[p].stage = "checked"
      BY <1>16 DEF A!RejectFact
    <3>4. \A f \in projector[p].batch : WorkspaceOf[f] \in Workspaces
      BY <1>1 DEF A!AnalyticsParameters, Memory
    <3> HIDE DEF row
    <3>5. \A f \in row.batch :
            A!Purged(WorkspaceOf[f])' => receipt'[WorkspaceOf[f]].since <= row.age
      BY <1>3, <1>6, <3>2, <3>3, <3>4
    <3>6. QED
      BY <1>4, <3>1, <3>2, <3>3, <3>5
  <2>3. QED
    BY <1>16, <2>1, <2>2 DEF A!RejectFact
<1>17. ASSUME NEW s \in {"inserted", "failed"},
              projector' = [projector EXCEPT ![p].stage = s, ![p].age = 0]
       PROVE  Goal
  <2> DEFINE row == [projector[p] EXCEPT !.stage = s, !.age = 0]
  <2>1. projector' = [projector EXCEPT ![p] = row]
    BY <1>1, <1>17
  <2>2. 0 \in 0 .. Deadline
    BY <1>1 DEF A!AnalyticsParameters
  <2>3. row \in Memory /\ row.stage = s /\ row.age = 0
    BY <1>1, <1>7, <2>2 DEF Memory
  <2> HIDE DEF row
  <2>4. QED
    BY <1>4, <2>1, <2>3
<1>18. ASSUME A!CompleteFacts(p) PROVE Goal
  <2>1. A!Abandon(p) \/ A!Goto(p, "failed")
    BY <1>18 DEF A!CompleteFacts
  <2>2. projector[p].stage = "inserted"
    BY <1>18 DEF A!CompleteFacts
  <2>3. QED
    BY <1>7, <1>8, <1>9, <2>1, <2>2
<1>19. ASSUME A!Insert(p) \/ A!FailInsertion(p) PROVE Goal
  BY <1>17, <1>19 DEF A!Insert, A!FailInsertion
<1>20. ASSUME A!NothingToInsert(p) \/ A!RetryFacts(p) \/ A!Interrupt(p) PROVE Goal
  BY <1>8, <1>20 DEF A!NothingToInsert, A!RetryFacts, A!Interrupt
<1>21. Goal
  BY <1>10, <1>11, <1>13, <1>14, <1>15, <1>16, <1>18, <1>19, <1>20 DEF A!Project
<1>22. QED
  BY <1>21 DEF Goal

\* What a step of a projector does to the warehouse, to the requests that
\* nobody waits for, and to the count of setbacks.
LEMMA WarehouseStep ==
  ASSUME AnalyticsIInv, NEW p \in Dispatchers,
         \/ A!Project(p) \/ A!FailInsertion(p) \/ A!Interrupt(p)
         \/ \E w \in Workspaces : A!FailErasure(p, w)
  PROVE  /\ \A e \in warehouse' : e \in warehouse \/ (e \in Facts /\ Unripe(e))
         /\ requests' = requests
            \/ /\ projector[p].stage = "checked"
               /\ requests' = requests \union {[batch |-> projector[p].batch,
                                                age |-> projector[p].age]}
         /\ setbacks' \in 0 .. MaxSetbacks
<1>1. /\ A!AnalyticsParameters /\ A!AnalyticsTypeOK
      /\ projector[p] \in Memory /\ Orderly(p)
  BY AnalyticsTypeRows DEF AnalyticsIInv
<1>2. setbacks' \in 0 .. MaxSetbacks
  <2>1. MaxSetbacks \in Nat /\ setbacks \in 0 .. MaxSetbacks
    BY <1>1 DEF A!AnalyticsParameters, A!AnalyticsTypeOK
  <2>2. A!Setback => setbacks' \in 0 .. MaxSetbacks
    BY <2>1 DEF A!Setback
  <2>3. A!Setback \/ setbacks' = setbacks
    BY DEF A!Project, A!ClaimErasures, A!ClaimFacts, A!CheckPurges, A!NothingToInsert,
           A!Insert, A!CompleteFacts, A!RetryFacts, A!EraseWorkspace, A!CompleteErasure,
           A!RejectFact, A!FailInsertion, A!Interrupt, A!FailErasure
  <2>4. QED
    BY <2>1, <2>2, <2>3
<1>3. \/ requests' = requests
      \/ /\ projector[p].stage = "checked"
         /\ requests' = requests \union {[batch |-> projector[p].batch,
                                          age |-> projector[p].age]}
  <2>1. A!Forsaken(p) =>
          \/ requests' = requests
          \/ /\ projector[p].stage = "checked"
             /\ requests' = requests \union {[batch |-> projector[p].batch,
                                              age |-> projector[p].age]}
    BY DEF A!Forsaken, A!Inserting
  <2>2. A!Forsaken(p) \/ requests' = requests
    BY DEF A!Project, A!ClaimErasures, A!ClaimFacts, A!CheckPurges, A!NothingToInsert,
           A!Insert, A!CompleteFacts, A!RetryFacts, A!EraseWorkspace, A!CompleteErasure,
           A!RejectFact, A!FailInsertion, A!Interrupt, A!FailErasure
  <2>3. QED
    BY <2>1, <2>2
<1>4. \A e \in warehouse' : e \in warehouse \/ (e \in Facts /\ Unripe(e))
  <2>1. CASE A!Insert(p)
    <3>1. /\ projector[p].stage = "checked"
          /\ warehouse' = warehouse \union projector[p].batch
      BY <2>1 DEF A!Insert, A!Inserting
    <3>2. /\ projector[p].batch \in SUBSET Facts /\ projector[p].age \in 0 .. Deadline
      BY <1>1 DEF Memory
    <3>3. \A e \in projector[p].batch :
            A!Purged(WorkspaceOf[e]) => receipt[WorkspaceOf[e]].since <= projector[p].age
      BY <1>1, <3>1 DEF Orderly, BeganBeforePurge
    <3>4. \A e \in projector[p].batch : e \in Facts /\ Unripe(e)
      BY <1>1, <3>2, <3>3, InsertionsAreUnripe
    <3>5. QED
      BY <3>1, <3>4
  <2>2. A!Insert(p) \/ warehouse' \subseteq warehouse
    BY DEF A!Project, A!ClaimErasures, A!ClaimFacts, A!CheckPurges, A!NothingToInsert,
           A!CompleteFacts, A!RetryFacts, A!EraseWorkspace, A!CompleteErasure,
           A!RejectFact, A!FailInsertion, A!Interrupt, A!FailErasure
  <2>3. QED
    BY <2>1, <2>2
<1>5. QED
  BY <1>2, <1>3, <1>4

\* The steps of a projector.
LEMMA ProjectorsKeep ==
  ASSUME AnalyticsIInv, NEW p \in Dispatchers,
         \/ A!Project(p) \/ A!FailInsertion(p) \/ A!Interrupt(p)
         \/ \E w \in Workspaces : A!FailErasure(p, w)
  PROVE  AnalyticsIInv'
<1>1. /\ A!AnalyticsParameters /\ A!AnalyticsTypeOK /\ A!AnalyticsNext
      /\ projector[p] \in Memory /\ Orderly(p)
      /\ requests \subseteq Request /\ warehouse \subseteq Facts
      /\ \A request \in requests : BeganBeforePurge(request)
  BY AnalyticsTypeRows DEF AnalyticsIInv, A!AnalyticsNext
<1>2. SameReceipts
  BY <1>1, ReceiptsKept
<1>3. /\ \A e \in warehouse' : e \in warehouse \/ (e \in Facts /\ Unripe(e))
      /\ requests' = requests
         \/ /\ projector[p].stage = "checked"
            /\ requests' = requests \union {[batch |-> projector[p].batch,
                                             age |-> projector[p].age]}
      /\ setbacks' \in 0 .. MaxSetbacks
  BY WarehouseStep
<1>4. /\ projector' \in [Dispatchers -> Memory]
      /\ \A q \in Dispatchers \ {p} : projector'[q] = projector[q]
      /\ Orderly(p)'
  BY ProjectorStep
<1>5. /\ \A w \in Workspaces :
           /\ receipt'[w].state = "none" => receipt'[w].since = 0
           /\ receipt'[w].state = "erased" => receipt'[w].since = Grace
      /\ A!ErasedForGood'
      /\ \A q \in Dispatchers : projector'[q] = projector[q] => Orderly(q)'
      /\ \A events \in SUBSET Facts, age \in 0 .. Deadline :
           (\A e \in events : A!Purged(WorkspaceOf[e]) =>
                               receipt[WorkspaceOf[e]].since <= age) =>
           (\A e \in events : A!Purged(WorkspaceOf[e])' =>
                               receipt'[WorkspaceOf[e]].since <= age)
  BY <1>2, <1>3, OthersStay
<1>6. \A q \in Dispatchers : Orderly(q)'
  BY <1>4, <1>5
<1>7. requests' \subseteq Request /\ \A request \in requests' : BeganBeforePurge(request)'
  <2> SUFFICES ASSUME NEW request \in requests'
               PROVE  request \in Request /\ BeganBeforePurge(request)'
    OBVIOUS
  <2>1. /\ request \in Request
        /\ \A e \in request.batch :
             A!Purged(WorkspaceOf[e]) => receipt[WorkspaceOf[e]].since <= request.age
    <3>1. CASE request \in requests
      BY <1>1, <3>1 DEF BeganBeforePurge
    <3>2. CASE /\ projector[p].stage = "checked"
               /\ request = [batch |-> projector[p].batch, age |-> projector[p].age]
      BY <1>1, <3>2 DEF Orderly, BeganBeforePurge, Memory, Request
    <3>3. QED
      BY <1>3, <3>1, <3>2
  <2>2. request.batch \in SUBSET Facts /\ request.age \in 0 .. Deadline
    BY <2>1 DEF Request
  <2>3. \A e \in request.batch :
          A!Purged(WorkspaceOf[e])' => receipt'[WorkspaceOf[e]].since <= request.age
    BY <1>5, <2>1, <2>2
  <2>4. QED
    BY <2>1, <2>3 DEF BeganBeforePurge
<1>8. A!AnalyticsTypeOK'
  <2>1. fact' \in [Facts -> FactRow] /\ receipt' \in [Workspaces -> ReceiptRow]
    BY <1>1, <1>2, FactTypes DEF SameReceipts
  <2>2. warehouse' \subseteq Facts
    BY <1>1, <1>3
  <2>3. QED
    BY <1>3, <1>4, <1>7, <2>1, <2>2
       DEF A!AnalyticsTypeOK, FactRow, ReceiptRow, Memory, Request
<1>9. A!AnalyticsParameters'
  BY <1>1 DEF A!AnalyticsParameters
<1>10. QED
  BY <1>5, <1>6, <1>7, <1>8, <1>9 DEF AnalyticsIInv

\* An application records an event, or an insertion that nobody waits for ends.
LEMMA RecordsAndSettlements ==
  ASSUME AnalyticsIInv,
         (\E e \in Facts : A!Record(e)) \/ (\E request \in requests : A!Settle(request))
         \/ UNCHANGED A!analyticsVars
  PROVE  AnalyticsIInv'
<1>1. /\ A!AnalyticsParameters /\ A!AnalyticsTypeOK
      /\ receipt \in [Workspaces -> ReceiptRow] /\ projector \in [Dispatchers -> Memory]
      /\ fact \in [Facts -> FactRow] /\ setbacks \in 0 .. MaxSetbacks
      /\ requests \subseteq Request /\ warehouse \subseteq Facts
      /\ \A request \in requests : BeganBeforePurge(request)
  BY AnalyticsTypeRows DEF AnalyticsIInv
<1>2. /\ receipt' = receipt /\ projector' = projector /\ setbacks' = setbacks
      /\ requests' \subseteq requests
  BY DEF A!Record, A!Settle, A!analyticsVars
<1>3. fact' \in [Facts -> FactRow]
  BY <1>1, FactTypes DEF A!AnalyticsNext, A!analyticsVars
<1>4. \A e \in warehouse' : e \in warehouse \/ (e \in Facts /\ Unripe(e))
  <2>1. ASSUME NEW request \in requests, A!Settle(request), NEW e \in request.batch
        PROVE  e \in Facts /\ Unripe(e)
    <3>1. request.batch \in SUBSET Facts /\ request.age \in 0 .. Deadline
      BY <1>1 DEF Request
    <3>2. \A f \in request.batch :
            A!Purged(WorkspaceOf[f]) => receipt[WorkspaceOf[f]].since <= request.age
      BY <1>1 DEF BeganBeforePurge
    <3>3. QED
      BY <1>1, <2>1, <3>1, <3>2, InsertionsAreUnripe
  <2>2. CASE warehouse' = warehouse
    BY <2>2
  <2>3. CASE \E request \in requests :
               A!Settle(request) /\ warehouse' = warehouse \union request.batch
    BY <2>1, <2>3
  <2>4. QED
    BY <2>2, <2>3 DEF A!Record, A!Settle, A!analyticsVars
<1>5. SameReceipts
  BY <1>1, <1>2 DEF SameReceipts
<1>6. /\ \A w \in Workspaces :
           /\ receipt'[w].state = "none" => receipt'[w].since = 0
           /\ receipt'[w].state = "erased" => receipt'[w].since = Grace
      /\ A!ErasedForGood'
      /\ \A q \in Dispatchers : Orderly(q)'
  BY <1>2, <1>4, <1>5, OthersStay
<1>7. \A request \in requests' : BeganBeforePurge(request)'
  BY <1>1, <1>2 DEF BeganBeforePurge, A!Purged
<1>8. A!AnalyticsTypeOK'
  <2>1. warehouse' \subseteq Facts
    BY <1>1, <1>4
  <2>2. QED
    BY <1>1, <1>2, <1>3, <2>1 DEF A!AnalyticsTypeOK, FactRow, ReceiptRow, Memory, Request
<1>9. A!AnalyticsParameters'
  BY <1>1 DEF A!AnalyticsParameters
<1>10. QED
  BY <1>6, <1>7, <1>8, <1>9 DEF AnalyticsIInv

\* A workspace is purged: no insertion that is under way began after that.
LEMMA PurgeKeeps ==
  ASSUME AnalyticsIInv, NEW w \in Workspaces, A!Purge(w)
  PROVE  AnalyticsIInv'
<1>1. /\ A!AnalyticsParameters /\ A!AnalyticsTypeOK
      /\ receipt \in [Workspaces -> ReceiptRow] /\ projector \in [Dispatchers -> Memory]
      /\ fact \in [Facts -> FactRow] /\ setbacks \in 0 .. MaxSetbacks
      /\ requests \subseteq Request /\ warehouse \subseteq Facts
  BY AnalyticsTypeRows DEF AnalyticsIInv
<1>2. /\ receipt[w].state = "none" /\ receipt[w].since = 0
      /\ receipt' = [receipt EXCEPT ![w].state = "purged"]
      /\ UNCHANGED <<projector, requests, warehouse, setbacks>>
  BY DEF A!Purge, A!Purged, AnalyticsIInv
<1>3. /\ receipt' \in [Workspaces -> ReceiptRow]
      /\ receipt'[w].state = "purged" /\ receipt'[w].since = 0
      /\ \A v \in Workspaces \ {w} : receipt'[v] = receipt[v]
  <2> DEFINE row == [receipt[w] EXCEPT !.state = "purged"]
  <2>1. row \in ReceiptRow /\ row.state = "purged" /\ row.since = 0
    BY <1>1, <1>2 DEF ReceiptRow
  <2>2. receipt' = [receipt EXCEPT ![w] = row]
    BY <1>1, <1>2
  <2> HIDE DEF row
  <2>3. QED
    BY <1>1, <2>1, <2>2
<1>4. \A e \in Facts : WorkspaceOf[e] \in Workspaces
  BY <1>1 DEF A!AnalyticsParameters
<1>5. ASSUME NEW events \in SUBSET Facts, NEW age \in 0 .. Deadline,
             \A e \in events :
               A!Purged(WorkspaceOf[e]) => receipt[WorkspaceOf[e]].since <= age
      PROVE  \A e \in events :
               A!Purged(WorkspaceOf[e])' => receipt'[WorkspaceOf[e]].since <= age
  <2> SUFFICES ASSUME NEW e \in events, A!Purged(WorkspaceOf[e])'
               PROVE  receipt'[WorkspaceOf[e]].since <= age
    OBVIOUS
  <2>1. CASE WorkspaceOf[e] = w
    BY <1>3, <2>1
  <2>2. CASE WorkspaceOf[e] # w
    BY <1>3, <1>4, <1>5, <2>2 DEF A!Purged
  <2>3. QED
    BY <2>1, <2>2
<1>6. ASSUME NEW q \in Dispatchers PROVE Orderly(q)'
  <2>1. Orderly(q) /\ projector[q] \in Memory
    BY <1>1 DEF AnalyticsIInv
  <2>2. projector[q].stage = "checked" => BeganBeforePurge(projector[q])'
    BY <1>2, <1>5, <2>1 DEF Orderly, BeganBeforePurge, Memory
  <2>3. ASSUME NEW v \in Workspaces PROVE Erasing(q, v)'
    <3>1. Erasing(q, v)
      BY <2>1 DEF Orderly
    <3>2. CASE v = w
      BY <1>2, <3>1, <3>2 DEF Erasing, A!First, A!Purged
    <3>3. CASE v # w
      BY <1>2, <1>3, <3>1, <3>3 DEF Erasing, A!Purged, A!EventsOf
    <3>4. QED
      BY <3>2, <3>3
  <2>4. QED
    BY <1>2, <2>1, <2>2, <2>3 DEF Orderly
<1>7. \A request \in requests' : BeganBeforePurge(request)'
  <2> SUFFICES ASSUME NEW request \in requests PROVE BeganBeforePurge(request)'
    BY <1>2
  <2>1. request.batch \in SUBSET Facts /\ request.age \in 0 .. Deadline
    BY <1>1 DEF Request
  <2>2. BeganBeforePurge(request)
    BY DEF AnalyticsIInv
  <2>3. QED
    BY <1>5, <2>1, <2>2 DEF BeganBeforePurge
<1>8. /\ \A v \in Workspaces :
           /\ receipt'[v].state = "none" => receipt'[v].since = 0
           /\ receipt'[v].state = "erased" => receipt'[v].since = Grace
      /\ A!ErasedForGood'
  BY <1>2, <1>3 DEF AnalyticsIInv, A!ErasedForGood, A!EventsOf
<1>9. A!AnalyticsTypeOK'
  <2>1. fact' \in [Facts -> FactRow]
    BY <1>1, FactTypes DEF A!AnalyticsNext
  <2>2. QED
    BY <1>1, <1>2, <1>3, <2>1 DEF A!AnalyticsTypeOK, FactRow, ReceiptRow, Memory, Request
<1>10. A!AnalyticsParameters'
  BY <1>1 DEF A!AnalyticsParameters
<1>11. QED
  BY <1>6, <1>7, <1>8, <1>9, <1>10 DEF AnalyticsIInv

\* Time passes: a purge grows no older than an insertion that began before it.
LEMMA TimeKeeps ==
  ASSUME AnalyticsIInv, A!Pass
  PROVE  AnalyticsIInv'
<1>1. /\ A!AnalyticsParameters /\ A!AnalyticsTypeOK
      /\ receipt \in [Workspaces -> ReceiptRow] /\ projector \in [Dispatchers -> Memory]
      /\ fact \in [Facts -> FactRow] /\ setbacks \in 0 .. MaxSetbacks
      /\ requests \subseteq Request /\ warehouse \subseteq Facts
  BY AnalyticsTypeRows DEF AnalyticsIInv
<1>2. /\ Deadline \in Nat /\ Grace \in Nat /\ MaxSetbacks \in Nat
      /\ \A e \in Facts : WorkspaceOf[e] \in Workspaces
  BY <1>1 DEF A!AnalyticsParameters
<1>3. setbacks' \in 0 .. MaxSetbacks /\ warehouse' = warehouse
  <2>1. /\ A!Setback \/ setbacks' = setbacks
        /\ warehouse' = warehouse
    BY DEF A!Pass
  <2>2. A!Setback => setbacks' \in 0 .. MaxSetbacks
    BY <1>1, <1>2 DEF A!Setback
  <2>3. QED
    BY <1>1, <2>1, <2>2
<1>4. ASSUME NEW w \in Workspaces
      PROVE  /\ receipt'[w] \in ReceiptRow
             /\ receipt'[w].state = receipt[w].state
             /\ receipt'[w].since = IF receipt[w].state = "none" \/ receipt[w].since = Grace
                                    THEN receipt[w].since ELSE receipt[w].since + 1
  <2> DEFINE older == [receipt[w] EXCEPT
         !.lapse = A!Aged(@),
         !.since = IF receipt[w].state = "none" \/ @ = Grace THEN @ ELSE @ + 1]
  <2>1. receipt'[w] = older
    BY DEF A!Pass
  <2>2. /\ older \in ReceiptRow /\ older.state = receipt[w].state
        /\ older.since = IF receipt[w].state = "none" \/ receipt[w].since = Grace
                         THEN receipt[w].since ELSE receipt[w].since + 1
    BY <1>1, RowsAge
  <2> HIDE DEF older
  <2>3. QED
    BY <2>1, <2>2
<1>5. receipt' \in [Workspaces -> ReceiptRow]
  BY <1>4 DEF A!Pass
<1>6. \A w \in Workspaces :
        /\ A!Purged(w)' <=> A!Purged(w)
        /\ receipt'[w].since <= receipt[w].since + 1
        /\ receipt[w].since = Grace => receipt'[w].since = Grace
        /\ receipt'[w].state = "none" => receipt'[w].since = 0
        /\ receipt'[w].state = "erased" => receipt'[w].since = Grace
  <2>1. \A w \in Workspaces : receipt[w].since \in 0 .. Grace
    BY <1>1 DEF ReceiptRow
  <2>2. QED
    BY <1>2, <1>4, <2>1 DEF A!Purged, AnalyticsIInv
<1>7. ASSUME NEW events \in SUBSET Facts, NEW age \in 0 .. Deadline,
             \A e \in events :
               A!Purged(WorkspaceOf[e]) => receipt[WorkspaceOf[e]].since <= age
      PROVE  \A e \in events :
               A!Purged(WorkspaceOf[e])' => receipt'[WorkspaceOf[e]].since <= age + 1
  <2> SUFFICES ASSUME NEW e \in events, A!Purged(WorkspaceOf[e])'
               PROVE  receipt'[WorkspaceOf[e]].since <= age + 1
    OBVIOUS
  <2>1. WorkspaceOf[e] \in Workspaces
    BY <1>2
  <2>2. /\ receipt[WorkspaceOf[e]].since \in 0 .. Grace
        /\ receipt'[WorkspaceOf[e]].since \in 0 .. Grace
    BY <1>1, <1>5, <2>1 DEF ReceiptRow
  <2>3. /\ receipt[WorkspaceOf[e]].since <= age
        /\ receipt'[WorkspaceOf[e]].since <= receipt[WorkspaceOf[e]].since + 1
    BY <1>6, <1>7, <2>1
  <2>4. QED
    BY <1>2, <2>2, <2>3
<1>8. ASSUME NEW q \in Dispatchers PROVE Orderly(q)' /\ projector'[q] \in Memory
  <2>1. Orderly(q) /\ projector[q] \in Memory
    BY <1>1 DEF AnalyticsIInv
  <2>2. \A w \in Workspaces : Erasing(q, w)
    BY <2>1 DEF Orderly
  <2>3. CASE projector[q].stage = "checked"
    <3> DEFINE row == [projector[q] EXCEPT !.age = @ + 1]
    <3>1. projector'[q] = row /\ projector[q].age < Deadline
      BY <2>3 DEF A!Pass
    <3>2. projector[q].age \in 0 .. Deadline /\ projector[q].batch \in SUBSET Facts
      BY <2>1 DEF Memory
    <3>3. projector[q].age + 1 \in 0 .. Deadline
      BY <1>2, <3>1, <3>2
    <3>4. /\ row \in Memory /\ row.stage = "checked"
          /\ row.age = projector[q].age + 1 /\ row.batch = projector[q].batch
      BY <2>1, <2>3, <3>3 DEF Memory
    <3> HIDE DEF row
    <3>5. \A e \in row.batch :
            A!Purged(WorkspaceOf[e])' => receipt'[WorkspaceOf[e]].since <= row.age
      BY <1>7, <2>1, <2>3, <3>2, <3>4 DEF Orderly, BeganBeforePurge
    <3>6. QED
      BY <3>1, <3>4, <3>5 DEF Orderly, BeganBeforePurge, Erasing
  <2>4. CASE projector[q].stage # "checked"
    <3>1. projector'[q] = projector[q]
      BY <2>4 DEF A!Pass
    <3>2. \A w \in Workspaces : Erasing(q, w)'
      BY <1>3, <1>6, <2>2, <3>1 DEF Erasing, A!EventsOf
    <3>3. QED
      BY <2>1, <2>4, <3>1, <3>2 DEF Orderly
  <2>5. QED
    BY <2>3, <2>4
<1>9. projector' \in [Dispatchers -> Memory]
  <2>1. projector' = [p \in Dispatchers |->
          IF projector[p].stage = "checked"
            THEN [projector[p] EXCEPT !.age = @ + 1] ELSE projector[p]]
    BY DEF A!Pass
  <2>2. QED
    BY <1>8, <2>1
<1>10. \A later \in requests' : later \in Request /\ BeganBeforePurge(later)'
  <2> SUFFICES ASSUME NEW later \in requests'
               PROVE  later \in Request /\ BeganBeforePurge(later)'
    OBVIOUS
  <2>1. PICK request \in requests :
          later = [request EXCEPT !.age = @ + 1] /\ request.age < Deadline
    BY DEF A!Pass
  <2>2. /\ request \in Request /\ BeganBeforePurge(request)
        /\ request.age \in 0 .. Deadline /\ request.batch \in SUBSET Facts
    BY <1>1 DEF AnalyticsIInv, Request
  <2>3. request.age + 1 \in 0 .. Deadline
    BY <1>2, <2>1, <2>2
  <2>4. later \in Request /\ later.age = request.age + 1 /\ later.batch = request.batch
    BY <2>1, <2>2, <2>3 DEF Request
  <2>5. \A e \in later.batch :
          A!Purged(WorkspaceOf[e])' => receipt'[WorkspaceOf[e]].since <= later.age
    BY <1>7, <2>2, <2>4 DEF BeganBeforePurge
  <2>6. QED
    BY <2>4, <2>5 DEF BeganBeforePurge
<1>11. A!ErasedForGood'
  <2>1. \A w \in Workspaces : receipt'[w].state = receipt[w].state
    BY <1>4
  <2>2. QED
    BY <1>3, <2>1 DEF AnalyticsIInv, A!ErasedForGood, A!EventsOf
<1>12. A!AnalyticsTypeOK'
  <2>1. fact' \in [Facts -> FactRow]
    BY <1>1, FactTypes DEF A!AnalyticsNext
  <2>2. requests' \subseteq Request
    BY <1>10
  <2>3. QED
    BY <1>1, <1>3, <1>5, <1>9, <2>1, <2>2
       DEF A!AnalyticsTypeOK, FactRow, ReceiptRow, Memory, Request
<1>13. A!AnalyticsParameters'
  BY <1>1 DEF A!AnalyticsParameters
<1>14. QED
  BY <1>6, <1>8, <1>10, <1>11, <1>12, <1>13 DEF AnalyticsIInv

\* An insertion that is under way read the receipts before the purge of what
\* it carries, and the grace period outlasts it.
THEOREM ErasureIsFinal ==
  A!AnalyticsParameters /\ A!AnalyticsSpec => []A!ErasedForGood
<1>1. A!AnalyticsParameters /\ A!AnalyticsInit => AnalyticsIInv
  <2> SUFFICES ASSUME A!AnalyticsParameters, A!AnalyticsInit PROVE AnalyticsIInv
    OBVIOUS
  <2>1. /\ 0 \in 0 .. Grace /\ 0 \in 0 .. MaxSetbacks
        /\ A!Free \in A!Lapse /\ A!AtStart \in Memory
        /\ A!AtStart.stage = "erase" /\ A!AtStart.age = 0
    BY RowChanges DEF A!AnalyticsParameters
  <2>2. A!AnalyticsTypeOK
    BY <2>1, AnalyticsTypeRows DEF A!AnalyticsInit, FactRow, ReceiptRow
  <2>3. \A p \in Dispatchers : Orderly(p)
    BY <2>1 DEF A!AnalyticsInit, Orderly, Erasing
  <2>4. \A w \in Workspaces : receipt[w].state = "none" /\ receipt[w].since = 0
    BY DEF A!AnalyticsInit
  <2>5. QED
    BY <2>2, <2>3, <2>4 DEF AnalyticsIInv, A!AnalyticsInit, A!ErasedForGood
<1>2. AnalyticsIInv /\ [A!AnalyticsNext]_(A!analyticsVars) => AnalyticsIInv'
  BY ProjectorsKeep, RecordsAndSettlements, PurgeKeeps, TimeKeeps DEF A!AnalyticsNext
<1>3. AnalyticsIInv => A!ErasedForGood
  BY DEF AnalyticsIInv
<1>4. QED
  BY <1>1, <1>2, <1>3, PTL DEF A!AnalyticsSpec

-----------------------------------------------------------------------------
(* The rotation of the master key.                                         *)

\* The configurations that the sequence of docs/MASTER_KEY_ROTATION.md goes
\* through, for one current key n: settled, with the next key staged, and
\* promoted with the key before still readable.
Settled(n) == [current |-> n, extra |-> {}]
Staged(n) == [current |-> n, extra |-> {n + 1}]
Promoted(n) == [current |-> n, extra |-> {n - 1}]

\* What may be running and stored under each of them.
UnderSettled(n) ==
  /\ deployed = Settled(n)
  /\ \A r \in Replicas : ring[r] \in {Settled(n), Promoted(n)}
  /\ \A w \in Tenants : wrapped[w] \in {0, n}

UnderStaged(n) ==
  /\ deployed = Staged(n)
  /\ \A r \in Replicas : ring[r] \in {Settled(n), Staged(n)}
  /\ \A w \in Tenants : wrapped[w] \in {0, n}

UnderPromoted(n) ==
  /\ deployed = Promoted(n)
  /\ \A r \in Replicas : ring[r] \in {Staged(n - 1), Promoted(n)}
  /\ \A w \in Tenants : wrapped[w] \in {0, n - 1, n}
  /\ confirmed => /\ \A r \in Replicas : ring[r] = deployed
                  /\ \A w \in Tenants : wrapped[w] \in {0, n}

\* The inductive invariant.
RotationInv ==
  /\ wrapped = [w \in Tenants |-> wrapped[w]]
  /\ ring = [r \in Replicas |-> ring[r]]
  /\ \E n \in Nat \ {0} :
       UnderSettled(n) \/ UnderStaged(n) \/ UnderPromoted(n)

-----------------------------------------------------------------------------

\* In every phase all rings read all keys.
LEMMA InvariantIsReadable == RotationInv => KeysReadable
<1> SUFFICES ASSUME RotationInv, NEW w \in Stored
             PROVE  /\ Unwraps(deployed, w)
                    /\ \A r \in Replicas : Unwraps(ring[r], w)
  BY DEF KeysReadable
<1>1. PICK n \in Nat \ {0} :
        UnderSettled(n) \/ UnderStaged(n) \/ UnderPromoted(n)
  BY DEF RotationInv
<1>2. w \in Tenants /\ wrapped[w] # 0
  BY DEF Stored
<1>3. CASE UnderSettled(n)
  BY <1>2, <1>3 DEF UnderSettled, Settled, Promoted, Unwraps
<1>4. CASE UnderStaged(n)
  BY <1>2, <1>4 DEF UnderStaged, Settled, Staged, Unwraps
<1>5. CASE UnderPromoted(n)
  <2>1. (n - 1) + 1 = n
    OBVIOUS
  <2>2. QED
    BY <1>2, <1>5, <2>1 DEF UnderPromoted, Staged, Promoted, Unwraps
<1>6. QED
  BY <1>1, <1>3, <1>4, <1>5

-----------------------------------------------------------------------------

\* What the phase says of the keys and the rings, for steps that change
\* neither the deployment nor the plan.
LEMMA KeysChange ==
  ASSUME NEW n \in Nat \ {0},
         UnderSettled(n) \/ UnderStaged(n) \/ UnderPromoted(n),
         UNCHANGED <<deployed, ring, confirmed>>,
         \A w \in Tenants :
           \/ wrapped'[w] \in {0, wrapped[w], deployed.current}
           \/ \E r \in Replicas : wrapped'[w] = ring[r].current
  PROVE  (UnderSettled(n) \/ UnderStaged(n) \/ UnderPromoted(n))'
<1>1. CASE UnderSettled(n)
  BY <1>1 DEF UnderSettled, Settled, Promoted
<1>2. CASE UnderStaged(n)
  BY <1>2 DEF UnderStaged, Settled, Staged
<1>3. CASE UnderPromoted(n)
  <2>1. \A r \in Replicas : ring[r].current \in {n - 1, n}
    BY <1>3 DEF UnderPromoted, Staged, Promoted
  <2>2. deployed.current = n
    BY <1>3 DEF UnderPromoted, Promoted
  <2>3. \A w \in Tenants : wrapped'[w] \in {0, n - 1, n}
    BY <1>3, <2>1, <2>2 DEF UnderPromoted
  <2>4. confirmed =>
          /\ \A r \in Replicas : ring[r].current = n
          /\ \A w \in Tenants : wrapped[w] \in {0, n}
    BY <1>3, <2>2 DEF UnderPromoted
  <2>5. confirmed => \A w \in Tenants : wrapped'[w] \in {0, n}
    BY <2>2, <2>4
  <2>6. QED
    BY <1>3, <2>3, <2>5 DEF UnderPromoted
<1>4. QED
  BY <1>1, <1>2, <1>3

\* Every step keeps the inductive invariant.
LEMMA RotationStep ==
  ASSUME RotationInv, [RotationNext]_rotationVars
  PROVE  RotationInv'
<1>1. PICK n \in Nat \ {0} :
        UnderSettled(n) \/ UnderStaged(n) \/ UnderPromoted(n)
  BY DEF RotationInv
<1>2. /\ wrapped = [w \in Tenants |-> wrapped[w]]
      /\ ring = [r \in Replicas |-> ring[r]]
  BY DEF RotationInv
<1> DEFINE Kept == (UnderSettled(n) \/ UnderStaged(n) \/ UnderPromoted(n))'
<1>3. ASSUME Kept,
             wrapped' = [w \in Tenants |-> wrapped'[w]],
             ring' = [r \in Replicas |-> ring'[r]]
      PROVE  RotationInv'
  BY <1>3 DEF RotationInv
<1>4. ASSUME NEW r \in Replicas, NEW w \in Tenants, CreateWorkspaceKey(r, w)
      PROVE  RotationInv'
  <2>1. \A v \in Tenants : wrapped'[v] \in {wrapped[v], ring[r].current}
    BY <1>2, <1>4 DEF CreateWorkspaceKey
  <2>2. Kept
    BY <1>1, <1>4, <2>1, KeysChange DEF CreateWorkspaceKey
  <2>3. QED
    BY <1>2, <1>3, <1>4, <2>2 DEF CreateWorkspaceKey
<1>5. ASSUME NEW w \in Tenants, DeleteWorkspaceKey(w) PROVE RotationInv'
  <2>1. \A v \in Tenants : wrapped'[v] \in {0, wrapped[v]}
    BY <1>2, <1>5 DEF DeleteWorkspaceKey
  <2>2. Kept
    BY <1>1, <1>5, <2>1, KeysChange DEF DeleteWorkspaceKey
  <2>3. QED
    BY <1>2, <1>3, <1>5, <2>2 DEF DeleteWorkspaceKey
<1>6. ASSUME RotateBatch PROVE RotationInv'
  <2>1. \A v \in Tenants : wrapped'[v] \in {wrapped[v], deployed.current}
    BY <1>6 DEF RotateBatch
  <2>2. Kept
    BY <1>1, <1>6, <2>1, KeysChange DEF RotateBatch
  <2>3. QED
    BY <1>2, <1>3, <1>6, <2>2 DEF RotateBatch
<1>7. ASSUME UNCHANGED <<wrapped, deployed, ring, confirmed>>
      PROVE  RotationInv'
  <2>1. Kept
    BY <1>1, <1>7, KeysChange
  <2>2. QED
    BY <1>2, <1>3, <1>7, <2>1
<1>8. ASSUME Plan PROVE RotationInv'
  <2>1. /\ UNCHANGED <<wrapped, deployed, ring>>
        /\ \A r \in Replicas : ring[r] = deployed
        /\ confirmed' => \A w \in Tenants : wrapped[w] \in {0, deployed.current}
    BY <1>8 DEF Plan, Rolled, Pending, Outdated, Stored
  <2>2. CASE UnderPromoted(n)
    <3>1. deployed.current = n
      BY <2>2 DEF UnderPromoted, Promoted
    <3>2. UnderPromoted(n)'
      BY <2>1, <2>2, <3>1 DEF UnderPromoted
    <3>3. QED
      BY <1>2, <1>3, <2>1, <3>2
  <2>3. CASE UnderSettled(n) \/ UnderStaged(n)
    <3>1. (UnderSettled(n) \/ UnderStaged(n))'
      BY <2>1, <2>3 DEF UnderSettled, UnderStaged
    <3>2. QED
      BY <1>2, <1>3, <2>1, <3>1
  <2>4. QED
    BY <1>1, <2>2, <2>3
<1>9. ASSUME StageKey PROVE RotationInv'
  <2>1. UnderSettled(n)
    <3>1. deployed.extra = {} /\ {n + 1} # {} /\ {n - 1} # {}
      BY <1>9 DEF StageKey
    <3>2. ~UnderStaged(n)
      BY <3>1 DEF UnderStaged, Staged
    <3>3. ~UnderPromoted(n)
      BY <3>1 DEF UnderPromoted, Promoted
    <3>4. QED
      BY <1>1, <3>2, <3>3
  <2>2. deployed' = Staged(n)
    BY <1>9, <2>1 DEF StageKey, Deploy, UnderSettled, Settled, Staged
  <2>3. UnderStaged(n)'
    BY <1>9, <2>1, <2>2
       DEF StageKey, Deploy, Rolled, UnderSettled, UnderStaged
  <2>4. QED
    BY <1>2, <1>3, <1>9, <2>3 DEF StageKey, Deploy
<1>10. ASSUME PromoteKey PROVE RotationInv'
  <2>1. UnderStaged(n)
    <3>1. ~UnderSettled(n)
      BY <1>10 DEF PromoteKey, UnderSettled, Settled
    <3>2. ~UnderPromoted(n)
      BY <1>10 DEF PromoteKey, UnderPromoted, Promoted
    <3>3. QED
      BY <1>1, <3>1, <3>2
  <2>2. deployed' = Promoted(n + 1) /\ (n + 1) - 1 = n /\ n + 1 \in Nat \ {0}
    <3>1. deployed.current = n
      BY <2>1 DEF UnderStaged, Staged
    <3>2. deployed' = [current |-> n + 1, extra |-> {n}]
      BY <1>10, <3>1 DEF PromoteKey, Deploy
    <3>3. (n + 1) - 1 = n /\ n + 1 \in Nat \ {0}
      OBVIOUS
    <3>4. QED
      BY <3>2, <3>3 DEF Promoted
  <2>3. UnderPromoted(n + 1)'
    BY <1>10, <2>1, <2>2
       DEF PromoteKey, Deploy, Rolled, UnderStaged, UnderPromoted
  <2>4. QED
    BY <1>2, <1>10, <2>2, <2>3 DEF RotationInv, PromoteKey, Deploy
<1>11. ASSUME WithdrawKey PROVE RotationInv'
  <2>1. UnderPromoted(n)
    <3>1. ~UnderSettled(n)
      BY <1>11 DEF WithdrawKey, UnderSettled, Settled
    <3>2. ~UnderStaged(n)
      BY <1>11 DEF WithdrawKey, UnderStaged, Staged
    <3>3. QED
      BY <1>1, <3>1, <3>2
  <2>2. deployed' = Settled(n)
    BY <1>11, <2>1 DEF WithdrawKey, Deploy, UnderPromoted, Promoted, Settled
  <2>3. UnderSettled(n)'
    BY <1>11, <2>1, <2>2
       DEF WithdrawKey, Deploy, Rolled, UnderPromoted, UnderSettled
  <2>4. QED
    BY <1>2, <1>3, <1>11, <2>3 DEF WithdrawKey, Deploy
<1>12. ASSUME NEW r \in Replicas, Restart(r) PROVE RotationInv'
  <2>1. /\ UNCHANGED <<wrapped, deployed, confirmed>>
        /\ \A q \in Replicas : ring'[q] \in {ring[q], deployed}
    BY <1>2, <1>12 DEF Restart
  <2>2. Kept
    BY <1>1, <2>1 DEF UnderSettled, UnderStaged, UnderPromoted
  <2>3. QED
    BY <1>2, <1>3, <1>12, <2>2 DEF Restart
<1>13. QED
  BY <1>4, <1>5, <1>6, <1>7, <1>8, <1>9, <1>10, <1>11, <1>12
     DEF RotationNext, rotationVars, StartApply, VerifyApply, AbortApply

\* Whatever the operator, the replicas and the maintenance command do in the
\* documented order, no replica meets a key that it cannot unwrap
\* (rotateSqliteMasterKeysBatch, unwrapWorkspaceKeyFromRing).
THEOREM KeysStayReadable == RotationSpec => []KeysReadable
<1>1. RotationInit => RotationInv
  <2> SUFFICES ASSUME RotationInit PROVE RotationInv
    OBVIOUS
  <2>1. UnderSettled(1)
    BY DEF RotationInit, UnderSettled, Settled
  <2>2. 1 \in Nat \ {0}
    OBVIOUS
  <2>3. QED
    BY <2>1, <2>2 DEF RotationInv, RotationInit
<1>2. RotationInv /\ [RotationNext]_rotationVars => RotationInv'
  BY RotationStep
<1>3. QED
  BY <1>1, <1>2, InvariantIsReadable, PTL DEF RotationSpec

-----------------------------------------------------------------------------
(* The platform: it starts as each of its parts does, and each step is one *)
(* of a part's or leaves the part as it is.                                *)

\* What leaves a part's variables alone leaves them alone as the part names
\* them.
LEMMA PartVariables ==
  /\ UNCHANGED queueVars => UNCHANGED Q!queueVars
  /\ UNCHANGED membershipVars => UNCHANGED M!membershipVars
  /\ UNCHANGED backupVars => UNCHANGED B!backupVars
  /\ UNCHANGED processVars => UNCHANGED W!processVars
  /\ UNCHANGED releaseVars => UNCHANGED R!releaseVars
  /\ UNCHANGED analyticsVars => UNCHANGED A!analyticsVars
BY DEF queueVars, membershipVars, backupVars, processVars, releaseVars,
       analyticsVars, Q!queueVars, M!membershipVars, B!backupVars,
       W!processVars, R!releaseVars, A!analyticsVars

\* A step of the platform is a step of the part that is followed.
LEMMA PartSteps ==
  ASSUME [PlatformNext]_platformVars
  PROVE  /\ [Next]_vars
         /\ [RotationNext]_rotationVars
         /\ [A!AnalyticsNext]_(A!analyticsVars)
         /\ [Q!QueueNext]_(Q!queueVars)
         /\ [M!MembershipNext]_(M!membershipVars)
         /\ [B!BackupNext]_(B!backupVars)
         /\ [W!ProcessNext]_(W!processVars)
         /\ [R!ReleaseNext]_(R!releaseVars)
<1>1. CASE UNCHANGED platformVars
  <2>1. /\ UNCHANGED vars /\ UNCHANGED rotationVars
        /\ UNCHANGED analyticsVars /\ UNCHANGED queueVars
        /\ UNCHANGED membershipVars /\ UNCHANGED backupVars
        /\ UNCHANGED processVars /\ UNCHANGED releaseVars
    BY <1>1 DEF platformVars, loopVars, otherVars
  <2>2. QED
    BY <2>1, PartVariables
<1>2. CASE Dispatch(Next)
  BY <1>2, PartVariables DEF Dispatch, otherVars
<1>3. CASE Analytics(A!AnalyticsNext)
  BY <1>3, PartVariables DEF Analytics, otherVars
<1>4. CASE Rotation(RotationNext)
  BY <1>4, PartVariables DEF Rotation, loopVars
<1>5. CASE Writes(Q!QueueNext)
  BY <1>5, PartVariables DEF Writes, loopVars
<1>6. CASE Members(M!MembershipNext)
  BY <1>6, PartVariables DEF Members, loopVars
<1>7. CASE Backup(B!BackupNext)
  BY <1>7, PartVariables DEF Backup, loopVars
<1>8. CASE Process(W!ProcessNext)
  BY <1>8, PartVariables DEF Process, loopVars
<1>9. CASE Release(R!ReleaseNext)
  BY <1>9, PartVariables DEF Release, loopVars
<1>10. CASE Predecessor(PostgresNext)
  BY <1>10, PartVariables DEF Predecessor, loopVars
<1>11. QED
  BY <1>1, <1>2, <1>3, <1>4, <1>5, <1>6, <1>7, <1>8, <1>9, <1>10 DEF PlatformNext

\* The platform behaves as each of its parts promises on its own.
THEOREM PartsBehave ==
  PlatformSpec => /\ Spec
                  /\ RotationSpec
                  /\ A!AnalyticsSpec
                  /\ Q!QueueSpec
                  /\ M!MembershipSpec
                  /\ B!BackupSpec
                  /\ W!ProcessSpec
                  /\ R!ReleaseSpec
<1>1. PlatformInit => /\ Init /\ RotationInit /\ A!AnalyticsInit
                      /\ Q!QueueInit /\ M!MembershipInit /\ B!BackupInit
                      /\ W!ProcessInit /\ R!ReleaseInit
  BY DEF PlatformInit
<1>2. [PlatformNext]_platformVars =>
         /\ [Next]_vars
         /\ [RotationNext]_rotationVars
         /\ [A!AnalyticsNext]_(A!analyticsVars)
         /\ [Q!QueueNext]_(Q!queueVars)
         /\ [M!MembershipNext]_(M!membershipVars)
         /\ [B!BackupNext]_(B!backupVars)
         /\ [W!ProcessNext]_(W!processVars)
         /\ [R!ReleaseNext]_(R!releaseVars)
  BY PartSteps
<1>3. QED
  BY <1>1, <1>2, PTL
  DEF PlatformSpec, Spec, RotationSpec, A!AnalyticsSpec, Q!QueueSpec,
      M!MembershipSpec, B!BackupSpec, W!ProcessSpec, R!ReleaseSpec

\* No replica of the platform meets a key that it cannot unwrap
\* (master-key-rotation.ts).
THEOREM AlwaysReadable == PlatformSpec => []KeysReadable
BY PartsBehave, KeysStayReadable, PTL

\* Of the calls through one database handle at most one is past its wait
\* (withSqliteWriteTransaction).
THEOREM WritersAreApart == PlatformSpec => []WritersTakeTurns
BY PartsBehave, CallsTakeTurns, PlatformAssumption, PTL DEF WritersTakeTurns

\* The founder is the only owner, and every other member was admitted after
\* his last dismissal (collaboration.ts).
THEOREM MembersInvited == PlatformSpec => []MembersWereInvited
BY PartsBehave, InvitationsComeFirst, PlatformAssumption, PTL
DEF MembersWereInvited

\* A release describes the images that all its tags point to, and a run that
\* reports success has published it (release.yml and its scripts).
THEOREM ReleasesMatch == PlatformSpec => []ReleaseMatchesTags
BY PartsBehave, TagsAreDescribed, PlatformAssumption, PTL DEF ReleaseMatchesTags

\* A worker process ends when its tasks have settled (worker-lifecycle.ts).
THEOREM ProcessDrains == PlatformSpec => []DrainsBeforeItEnds
BY PartsBehave, TasksSettleFirst, PlatformAssumption, PTL DEF DrainsBeforeItEnds

\* Only complete, verified snapshots appear under an output path, and none
\* over another file (backup.ts).
THEOREM OutputsAreWhole == PlatformSpec => OutputsAppearWhole
BY PartsBehave, SnapshotsAreLinked, PlatformAssumption, PTL DEF OutputsAppearWhole

\* Once the erasure of a workspace is recorded, no row of it is in the
\* warehouse (sqlite/analytics.ts and the projector).
THEOREM ErasureLasts == PlatformSpec => []ErasedForGood
BY PartsBehave, ErasureIsFinal, PlatformAssumption, PTL DEF ErasedForGood

=============================================================================
