\* Two crashes or storage errors, and one claim that expires under a live
\* dispatcher; two failures, crashes or late claims of a projector.
\* The calls, commands, processes and publications of the other parts end, so
\* that a behaviour may stop.
SPECIFICATION PlatformFairSpec
CONSTANTS
  Events <- MCEvents
  Dispatchers = {d1, d2}
  NoClaim = NoClaim
  BatchLimit = 2
  Lease = 1
  MaxWait = 2
  MaxRetries = 1
  MaxAttempts = 6
  MaxFaults = 2
  MaxLate = 1
  Facts <- MCFacts
  Workspaces = {1, 2}
  WorkspaceOf <- MCWorkspaceOf
  Invalid <- MCInvalid
  FactLimit = 2
  FactLease = 0
  FactWait = 1
  Deadline = 1
  Grace = 2
  MaxSetbacks = 2
  Tenants <- MCTenants
  Replicas = {r1, r2}
  LastKey = 3
  RotationBatch = 2
  InspectionBatch = 2
  Writers = {1, 2, 3, 4}
  p = p
  q = q
  Handles = {p, q}
  HandleOf <- MCHandleOf
  MaxTries = 2
  NoWriter = 0
  Users = {1, 2, 3}
  Founder = 1
  MaxInvitations = 3
  Creators = {c1, c2}
  Restorers = {s1}
  LastChange = 2
  BatchSize = 2
  Slots = 2
  LastImage = 2
  Publishers = {1, 2, 3}
  BuildOf <- MCBuildOf
CHECK_DEADLOCK FALSE
INVARIANTS OwnedAttemptIsLatest ExclusiveExecution
INVARIANTS WritesFollowReads SettlementsTakeTurns
INVARIANTS ErasedForGood KeysReadable WritersTakeTurns MembersWereInvited
INVARIANTS DrainsBeforeItEnds ReleaseMatchesTags
PROPERTIES EventuallyPublished AnalyticsSettle OutputsAppearWhole
