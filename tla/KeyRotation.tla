----------------------------- MODULE KeyRotation -----------------------------
(***************************************************************************)
(* Rotation of the deployment master key (packages/db/src/sqlite/          *)
(* master-key-rotation.ts and its command line) while replicas of the web  *)
(* application and of the worker create and read workspace keys            *)
(* (credentials.ts, packages/security/src/index.ts).                       *)
(*                                                                         *)
(* The operator, who is external to the code, follows the zero-downtime    *)
(* sequence of docs/MASTER_KEY_ROTATION.md: every change of the deployment *)
(* waits until all replicas run with the previous one, and the old key is  *)
(* withdrawn after a plan that found nothing pending.                      *)
(***************************************************************************)
EXTENDS Integers, FiniteSets

CONSTANTS
  Tenants,         \* workspaces, naturals in identifier order
  Replicas,        \* web and worker processes
  LastKey,         \* bound: master keys are numbered 1 .. LastKey
  RotationBatch,   \* rows re-wrapped in one transaction
  InspectionBatch  \* rows inspected at a time

KeyRotationParameters ==
  /\ Tenants \subseteq Nat
  /\ {LastKey, RotationBatch, InspectionBatch} \subseteq Nat \ {0}

VARIABLES
  wrapped,     \* workspace_keys: the master key of each row, 0 when absent
  deployed,    \* the key ring in the deployment's configuration
  ring,        \* the key ring each replica was started with
  cli,         \* where the maintenance command is
  confirmed    \* the last plan under this configuration found none pending

rotationVars == <<wrapped, deployed, ring, cli, confirmed>>

MasterKey == 1 .. LastKey

\* current: new workspace keys are wrapped by it; extra: decrypt-only.
Ring == [current : MasterKey, extra : SUBSET MasterKey]

RotationTypeOK ==
  /\ wrapped \in [Tenants -> MasterKey \union {0}]
  /\ deployed \in Ring
  /\ ring \in [Replicas -> Ring]
  /\ cli \in {"idle", "rotating", "verifying"}
  /\ confirmed \in BOOLEAN

RotationInit ==
  LET first == [current |-> 1, extra |-> {}]
  IN /\ wrapped = [w \in Tenants |-> 0]
     /\ deployed = first
     /\ ring = [r \in Replicas |-> first]
     /\ cli = "idle"
     /\ confirmed = FALSE

\* unwrapWorkspaceKeyFromRing finds the master key of the envelope.
Unwraps(keys, w) == wrapped[w] \in {keys.current} \union keys.extra

-----------------------------------------------------------------------------

\* createSqliteCredential in a workspace that has no key yet.
CreateWorkspaceKey(r, w) ==
  /\ wrapped[w] = 0
  /\ wrapped' = [wrapped EXCEPT ![w] = ring[r].current]
  /\ UNCHANGED <<deployed, ring, cli, confirmed>>

\* A purge deletes the key of its workspace.
DeleteWorkspaceKey(w) ==
  /\ wrapped[w] # 0
  /\ wrapped' = [wrapped EXCEPT ![w] = 0]
  /\ UNCHANGED <<deployed, ring, cli, confirmed>>

Stored == {w \in Tenants : wrapped[w] # 0}
Outdated == {w \in Stored : wrapped[w] # deployed.current}

\* Wrong variant: the inspection stops after its first page.
PendingFirstPage ==
  {w \in Outdated :
     Cardinality({v \in Stored : v < w}) < InspectionBatch}

\* inspectSqliteMasterKeyRotation: the rows not under the current key, page by
\* page, in one transaction.
Pending == Outdated

\* The inspection stops at an envelope whose master key is not in the ring.
Authentic == \A w \in Stored : Unwraps(deployed, w)

\* The rows of the next transaction, in identifier order.
RotationRows ==
  {w \in Outdated :
     Cardinality({v \in Outdated : v < w}) < RotationBatch}

\* The loop of apply goes on while rows remain.
While(remaining) == IF remaining = {} THEN "verifying" ELSE "rotating"

\* Every replica runs with the deployed configuration, and no command does.
Rolled == cli = "idle" /\ \A r \in Replicas : ring[r] = deployed

\* apply starts with a complete inspection, which throws or counts.
StartApply ==
  /\ cli = "idle"
  /\ Authentic
  /\ cli' = While(Pending)
  /\ UNCHANGED <<wrapped, deployed, ring, confirmed>>

\* rotateSqliteMasterKeysBatch; a batch without rows ends the command.
RotateBatch ==
  /\ cli = "rotating"
  /\ \A w \in RotationRows : Unwraps(deployed, w)
  /\ wrapped' = [w \in Tenants |->
       IF w \in RotationRows THEN deployed.current ELSE wrapped[w]]
  /\ cli' = IF RotationRows = {} THEN "idle"
            ELSE While(Outdated \ RotationRows)
  /\ UNCHANGED <<deployed, ring, confirmed>>

\* apply ends with a second inspection and its report, and changes nothing.
VerifyApply ==
  /\ cli = "verifying"
  /\ cli' = "idle"
  /\ UNCHANGED <<wrapped, deployed, ring, confirmed>>

\* The command dies, or one of its statements fails.
AbortApply ==
  /\ cli # "idle"
  /\ cli' = "idle"
  /\ UNCHANGED <<wrapped, deployed, ring, confirmed>>

\* plan only inspects.  The operator relies on it (step 6) once every replica
\* runs with the deployed configuration.
Plan ==
  /\ Rolled
  /\ Authentic
  /\ confirmed' = (Pending = {})
  /\ UNCHANGED <<wrapped, deployed, ring, cli>>

-----------------------------------------------------------------------------

Deploy(keys) ==
  /\ Rolled
  /\ deployed' = keys
  /\ confirmed' = FALSE
  /\ UNCHANGED <<wrapped, ring, cli>>

\* Step 2 of the sequence: the next key becomes readable everywhere.
StageKey ==
  /\ deployed.extra = {}
  /\ deployed.current < LastKey
  /\ Deploy([deployed EXCEPT !.extra = {deployed.current + 1}])

\* Step 3: it becomes the current key, and the old one readable only.
PromoteKey ==
  /\ deployed.current + 1 \in deployed.extra
  /\ Deploy([current |-> deployed.current + 1, extra |-> {deployed.current}])

\* Step 7, after step 6: nothing is pending, the old key is withdrawn.
WithdrawKey ==
  /\ deployed.current - 1 \in deployed.extra
  /\ confirmed
  /\ Deploy([deployed EXCEPT !.extra = {}])

\* A replica restarts with the deployed configuration.
Restart(r) ==
  /\ ring[r] # deployed
  /\ ring' = [ring EXCEPT ![r] = deployed]
  /\ UNCHANGED <<wrapped, deployed, cli, confirmed>>

RotationNext ==
  \/ \E r \in Replicas, w \in Tenants : CreateWorkspaceKey(r, w)
  \/ \E w \in Tenants : DeleteWorkspaceKey(w)
  \/ StartApply \/ RotateBatch \/ VerifyApply \/ AbortApply \/ Plan
  \/ StageKey \/ PromoteKey \/ WithdrawKey
  \/ \E r \in Replicas : Restart(r)

RotationSpec == RotationInit /\ [][RotationNext]_rotationVars

-----------------------------------------------------------------------------

\* No replica ever meets a workspace key that its key ring cannot unwrap,
\* through rolling restarts, interrupted rotations and workspaces that are
\* created meanwhile; and a rotation can always be carried out.
KeysReadable ==
  \A w \in Stored :
    /\ Unwraps(deployed, w)
    /\ \A r \in Replicas : Unwraps(ring[r], w)

=============================================================================
