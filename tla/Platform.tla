------------------------------ MODULE Platform -------------------------------
(***************************************************************************)
(* The parts of the platform that keep to state of their own: the outbox   *)
(* with the dispatch loop alone, whatever its handlers do; the analytics   *)
(* projector with the purge of workspaces; the rotation of the master key; *)
(* the write transactions of one database file; the members of a           *)
(* workspace; the backup command; the life of a worker process; the        *)
(* publication of a version; and the transactions of the PostgreSQL        *)
(* predecessor, which has a database of its own.  The events that the      *)
(* projector reads have columns of their own in outbox_events, so that its *)
(* claims and the dispatch loop's do not meet.                             *)
(*                                                                         *)
(* Steps of two parts commute, so a behaviour follows one part, chosen at  *)
(* the start, and leaves the others as they began.                         *)
(***************************************************************************)
EXTENDS Outbox, KeyRotation, Postgres

CONSTANTS
  Facts, Workspaces, WorkspaceOf, Invalid, FactLimit, FactLease, FactWait,
  Deadline, Grace, MaxSetbacks,                            \* module Analytics
  Writers, Handles, HandleOf, MaxTries, NoWriter,                \* WriteQueue
  Users, Founder, MaxInvitations,                                \* Membership
  Creators, Restorers, LastChange,                              \* BackupFiles
  BatchSize, Slots,                                           \* WorkerProcess
  LastImage, Publishers, BuildOf                                   \* Releases

VARIABLES
  part,                                                     \* what is followed
  fact, receipt, projector, requests, warehouse, setbacks,  \* Analytics
  tail, previous, phase, conflicts,                         \* WriteQueue
  role, invitation, made, admitted, dismissed,              \* Membership
  live, file, partial, step, digest,                        \* BackupFiles
  driver, task, batch, running, worker, reading, armed, firstStop, life,
                                                            \* WorkerProcess
  tag, release, job, image, seen, tagged                    \* Releases

A == INSTANCE Analytics WITH Projectors <- Dispatchers, NoProjector <- NoClaim
Q == INSTANCE WriteQueue
M == INSTANCE Membership
B == INSTANCE BackupFiles
W == INSTANCE WorkerProcess
R == INSTANCE Releases

ASSUME PlatformAssumption ==
  /\ A!AnalyticsParameters
  /\ KeyRotationParameters
  /\ Q!QueueParameters
  /\ M!MembershipParameters
  /\ B!BackupParameters
  /\ W!ProcessParameters
  /\ R!ReleaseParameters

analyticsVars == <<fact, receipt, projector, requests, warehouse, setbacks>>
queueVars == <<tail, previous, phase, conflicts>>
membershipVars == <<role, invitation, made, admitted, dismissed>>
backupVars == <<live, file, partial, step, digest>>
processVars == <<driver, task, batch, running, worker, reading, armed,
                 firstStop, life>>
releaseVars == <<tag, release, job, image, seen, tagged>>

\* The parts about which liveness is stated, and those that only keep rules.
loopVars == <<vars, analyticsVars>>
otherVars == <<rotationVars, queueVars, membershipVars, backupVars,
               processVars, releaseVars, txn>>
platformVars == <<part, loopVars, otherVars>>

Parts == {"dispatch", "analytics", "rotation", "writes", "members", "backup",
          "process", "release", "postgres"}

PlatformInit ==
  /\ part \in Parts
  /\ Init /\ A!AnalyticsInit /\ RotationInit
  /\ Q!QueueInit /\ M!MembershipInit /\ B!BackupInit /\ R!ReleaseInit
  /\ PostgresInit
  /\ W!ProcessInit /\ (part # "process" => driver = "local")

-----------------------------------------------------------------------------

\* The steps of each part.
Dispatch(act) ==
  /\ part = "dispatch"
  /\ act
  /\ UNCHANGED <<part, analyticsVars, otherVars>>

Analytics(act) ==
  /\ part = "analytics"
  /\ act
  /\ UNCHANGED <<part, vars, otherVars>>

Rotation(act) ==
  /\ part = "rotation"
  /\ act
  /\ UNCHANGED <<part, loopVars, queueVars, membershipVars, backupVars,
                 processVars, releaseVars, txn>>

Writes(act) ==
  /\ part = "writes"
  /\ act
  /\ UNCHANGED <<part, loopVars, rotationVars, membershipVars, backupVars,
                 processVars, releaseVars, txn>>

Members(act) ==
  /\ part = "members"
  /\ act
  /\ UNCHANGED <<part, loopVars, rotationVars, queueVars, backupVars,
                 processVars, releaseVars, txn>>

Backup(act) ==
  /\ part = "backup"
  /\ act
  /\ UNCHANGED <<part, loopVars, rotationVars, queueVars, membershipVars,
                 processVars, releaseVars, txn>>

Process(act) ==
  /\ part = "process"
  /\ act
  /\ UNCHANGED <<part, loopVars, rotationVars, queueVars, membershipVars,
                 backupVars, releaseVars, txn>>

Release(act) ==
  /\ part = "release"
  /\ act
  /\ UNCHANGED <<part, loopVars, rotationVars, queueVars, membershipVars,
                 backupVars, processVars, txn>>

Predecessor(act) ==
  /\ part = "postgres"
  /\ act
  /\ UNCHANGED <<part, loopVars, rotationVars, queueVars, membershipVars,
                 backupVars, processVars, releaseVars>>

PlatformNext ==
  \/ Dispatch(Next)
  \/ Analytics(A!AnalyticsNext)
  \/ Rotation(RotationNext)
  \/ Writes(Q!QueueNext)
  \/ Members(M!MembershipNext)
  \/ Backup(B!BackupNext)
  \/ Process(W!ProcessNext)
  \/ Release(R!ReleaseNext)
  \/ Predecessor(PostgresNext)

PlatformSpec == PlatformInit /\ [][PlatformNext]_platformVars

\* The dispatch loop and the projector's never stop, requests end and time
\* passes.  Of operators and administrators nothing is assumed, nor of the
\* parts of which only safety is stated.
PlatformFairness ==
  /\ WF_platformVars(Dispatch(Tick) \/ Analytics(A!Pass))
  /\ WF_platformVars(Analytics(\E request \in requests : A!Settle(request)))
  /\ \A d \in Dispatchers :
       WF_platformVars(Dispatch(Loop(d)) \/ Analytics(A!Project(d)))

PlatformFairSpec == PlatformSpec /\ PlatformFairness

-----------------------------------------------------------------------------

\* An erased workspace stays out of the warehouse (Analytics).
ErasedForGood == A!ErasedForGood

\* Events are projected and purged workspaces erased (Analytics).
AnalyticsSettle == A!AnalyticsSettle

\* The calls of one database handle take turns (WriteQueue).
WritersTakeTurns == Q!WritersTakeTurns

\* Every member was invited after his last removal (Membership).
MembersWereInvited == M!MembersWereInvited

\* The backup command publishes whole files and replaces none (BackupFiles).
OutputsAppearWhole == B!OutputsAppearWhole

\* A worker ends when nothing can write any more (WorkerProcess).
DrainsBeforeItEnds == W!DrainsBeforeItEnds

\* A release describes the images its tags point to (Releases).
ReleaseMatchesTags == R!ReleaseMatchesTags

=============================================================================
