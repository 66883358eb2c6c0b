------------------------------ MODULE Postgres -------------------------------
(***************************************************************************)
(* The PostgreSQL predecessor at READ COMMITTED.  One operation, of an API *)
(* route or a worker, is followed statement by statement, with the locks   *)
(* it holds, what it has looked at and what of that has changed since.     *)
(*                                                                         *)
(* The transactions of everybody else, any number of them, appear as what  *)
(* they do when they commit: one of them changes a fact, holding the locks *)
(* it has taken by then, if none of these conflicts with the locks held by *)
(* the operation that is followed. At any time at most one of the facts    *)
(* looked at is no longer so: the locks of one say nothing of another, and *)
(* what follows is about one at a time. To that operation, a transaction   *)
(* that it does not wait for is as if it ran at its commit, so nothing it  *)
(* can meet is left out. The purge of the workspace changes no fact:       *)
(* nothing of the operation then matches any record, or it fails a foreign *)
(* key.                                                                    *)
(***************************************************************************)
EXTENDS PostgresRuns, FiniteSets, TLC

VARIABLE txn   \* the operation followed, its next statement, its locks, what
               \* it looked at, and what of that is no longer so

\* All that is exported or run, statement by statement.
Exported ==
  TablePrograms @@ FeedPrograms @@ DeliveryPrograms @@ RunPrograms @@
  AccountPrograms @@ WorkerPrograms

Programs == AllLaidOut(Exported)

Operations == DOMAIN Programs

-----------------------------------------------------------------------------
\* Locks: what a statement takes, and which exclude each other.

LocksOf(s) ==
  CASE s.do \in {"lock", "claim", "delete"} -> {"update"} \X s.on
    [] s.do \in {"update", "fence"} ->
         {"no key update"} \X {RowOf(x) : x \in s.on}
    [] s.do = "insert" -> {"insert"} \X (s.on \cap Unique)
    [] s.do = "refer" -> {"key share"} \X s.on
    [] s.do \in {"share", "exclude"} -> {s.do} \X s.on
    [] OTHER -> {}

Conflicts ==
  {{"update"}, {"update", "no key update"}, {"update", "key share"},
   {"no key update"}, {"insert"}, {"exclude"}, {"exclude", "share"}}

Compatible(K, L) ==
  \A k \in K, l \in L : k[2] = l[2] => {k[1], l[1]} \notin Conflicts

\* What a statement looks at and what it changes.
SeenBy(s) ==
  CASE s.do = "read" -> WithNew(s.on)
    [] s.do \in {"lock", "claim", "fence"} -> s.on
    [] OTHER -> {}

ChangedBy(s) ==
  CASE s.do \in {"update", "fence"} -> s.on
    [] s.do = "insert" -> {New(x) : x \in s.on}
    [] s.do = "delete" /\ "workspace" \notin s.on -> s.on
    [] OTHER -> {}

\* How far it is to the statements that can be next.
Ways(s) ==
  CASE s.do = "skip" -> {1, 1 + s.over}
    [] s.do = "jump" -> {1 + s.over}
    [] s.do = "end" -> {}
    [] OTHER -> {1}

\* The facts that an operation relies on somewhere.
BasisOf(P) == UNION {P[at].from : at \in DOMAIN P}


-----------------------------------------------------------------------------
\* The others: where a program can be, holding what, having changed what.

Relied == UNION {BasisOf(Programs[op]) : op \in Operations}

Steps(op, w) ==
  UNION {LET held == IF s.do = "commit" THEN {} ELSE w.held \cup LocksOf(s)
             changed == IF s.do = "commit" THEN {}
                        ELSE w.changed \cup ChangedBy(s)
         IN  {[at |-> w.at + n, held |-> held, changed |-> changed] :
                n \in Ways(s)} :
         s \in {Programs[op][w.at]}}

Walk ==
  [at : Nat, held : SUBSET (STRING \X STRING), changed : SUBSET STRING]

\* All that can be reached, from what was reached latest.
Walks ==
  [op \in Operations |->
     LET start == {[at |-> 1, held |-> {}, changed |-> {}]}
         Closure[reached \in SUBSET Walk, latest \in SUBSET Walk] ==
           LET next == UNION {Steps(op, w) : w \in latest} \ reached
           IN  IF next = {} THEN reached ELSE Closure[reached \cup next, next]
     IN  Closure[start, start]]

\* Where a transaction commits.
Commits(op, w) == Programs[op][w.at].do \in {"commit", "end"}

\* The least locks with which a fact is changed.
Least(S) == {K \in S : \A L \in S : L \subseteq K => L = K}

Changes ==
  LET Held(op, x) ==
        Least({w.held : w \in {v \in Walks[op] : /\ x \in v.changed
                                                 /\ Commits(op, v)}})
  IN  [x \in Relied |-> Least(UNION {Held(op, x) : op \in Operations})]

-----------------------------------------------------------------------------
\* The operation that is followed.

None == [op |-> "none", at |-> 0, held |-> {}, looked |-> {}, stale |-> {}]

Free == txn.op = "none"

PostgresInit == txn = None

\* The statement that is next, if it is one of these.
Ahead(do) ==
  {s \in IF Free THEN {} ELSE {Programs[txn.op][txn.at]} : s.do \in do}

Begin(op) ==
  /\ Free
  /\ txn' = [None EXCEPT !.op = op, !.at = 1]

\* A statement that had to wait finds what was committed before it went on.
Execute ==
  \E s \in Ahead({"read", "lock", "claim", "share", "exclude", "update",
                  "fence", "insert", "refer", "delete"}) :
    \E sight \in {SeenBy(s) \cap BasisOf(Programs[txn.op])} :
      txn' = [txn EXCEPT !.at = @ + 1,
                         !.held = @ \cup LocksOf(s),
                         !.looked = @ \cup sight,
                         !.stale = @ \ sight]

Branch ==
  \E s \in Ahead({"skip", "jump"}) : \E n \in Ways(s) :
    txn' = [txn EXCEPT !.at = @ + n]

\* What was looked at stays in the memory of the process.
EndTransaction ==
  Ahead({"commit"}) # {} /\ txn' = [txn EXCEPT !.at = @ + 1, !.held = {}]

\* The operation ends, or a check, an error or a deadlock rolls it back.
Finish == ~Free /\ txn' = None

Interfere ==
  /\ txn.stale = {}
  /\ \E x \in txn.looked : \E locks \in Changes[x] :
       /\ Compatible(locks, txn.held)
       /\ txn' = [txn EXCEPT !.stale = {x}]

PostgresNext ==
  \/ \E op \in Operations : Begin(op)
  \/ Execute
  \/ Branch
  \/ EndTransaction
  \/ Finish
  \/ Interfere

PostgresSpec == PostgresInit /\ [][PostgresNext]_txn

-----------------------------------------------------------------------------

\* What may change between the look at it and the write that relies on it: no
\* lock of the operation excludes the others that change it.  Users of a
\* table or of a column come in while it is archived or converted; a column
\* is archived, or becomes of another type, while it is put to use; values
\* are written while formulas, requests and deliveries are made from them by
\* an operation that does not hold the row; memberships and invitations are
\* looked at without a lock.
Unprotected(op) ==
  CASE op = "archiveWorkspaceTable" -> WithNew(TableUsers)
    [] op = "archiveWorkspaceColumn" -> WithNew(ColumnUsers)
    [] op = "convertWorkspaceColumnType" -> WithNew(ConversionUsers)
    [] op = "createInputColumn" -> {New("column")}
    [] op \in {"createSavedGridView", "updateSavedGridView",
               "createWritebackDestination", "updateWritebackDestination"} ->
         {"column", "column type"}
    [] op = "createFormulaColumn" ->
         {"column", "column type", "cell", "result"}
    [] op = "applyCsvImport" -> {"column", "column type", "cell", "result"}
    [] op \in {"applyIngestionBatch", "executeSourceRun"} ->
         {"column", "result"}
    [] op \in {"createConnectorActionColumn", "createHttpWaterfallColumn",
               "createHttpEnrichmentColumn", "setSourceStatus",
               "writeGridCell"} -> {"column"}
    [] op \in {"queueEnrichmentCellRun", "expandBulkRun"} ->
         {"column"} \cup Values
    [] op = "runRowSettlement" ->
         {"column", "output cell", "webhook", "writeback"}
    [] op \in {"queueWebhookDelivery", "queueWritebackDelivery"} ->
         {"row", "output cell"} \cup Values
    [] op = "executeCellRun" -> {"run"}
    [] op = "createWorkspaceInvitation" -> {"invitation", New("member")}
    [] op = "revokeWorkspaceInvitation" -> {"invitation"}
    [] op = "ensurePersonalWorkspace" -> {New("member")}
    [] op \in {"updateWorkspaceMemberRole", "removeWorkspaceMember"} ->
         {"member"}
    [] OTHER -> {}

\* Whatever commits meanwhile, a statement writes from what the operation has
\* looked at and what still holds, except for what no lock protects: the row
\* locks, key checks and advisory locks of every pair of operations fit, as
\* schema-locks.ts has it for cell writes and conversions.
WritesFollowReads ==
  \A s \in Ahead({"update", "insert", "delete"}) :
    /\ s.from \subseteq txn.looked
    /\ s.from \cap txn.stale \subseteq Unprotected(txn.op)

\* The operations that edit, settle and deliver rows.
Settling ==
  {"writeGridCell", "cancelBulkRunBatch", "executeCellRun",
   "runRowSettlement", "executeWebhookDelivery", "executeWritebackDelivery"}

\* The statements that wait for a lock.
Waiting == {"lock", "delete", "update", "fence", "insert", "refer", "share",
            "exclude"}

\* Where an operation can wait, holding what and for what.
WaitsOf(op) ==
  UNION {{<<w.held, LocksOf(s)>> :
            s \in {r \in {Programs[op][w.at]} : r.do \in Waiting}} :
         w \in Walks[op]}

Waits == UNION {WaitsOf(op) : op \in Settling}

\* No two of them wait for each other: they lock a row before its
\* settlements, as the comment of processRowSettlement has it, and before the
\* runs and the cells of the row.
SettlementsTakeTurns ==
  txn.op \in Settling =>
    \A s \in Ahead(Waiting), wait \in Waits :
      Compatible(txn.held, wait[1]) =>
        \/ Compatible(LocksOf(s), wait[1])
        \/ Compatible(wait[2], txn.held)

=============================================================================
