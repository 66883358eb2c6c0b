------------------------- MODULE RowSettlementProofs -------------------------
(***************************************************************************)
(* Proofs about row settlement, for any table, any automatic columns,      *)
(* destinations and limits, and any number of edits and failures: a quiet  *)
(* row has told its webhooks, no change is forgotten, and no automatic     *)
(* column runs without one.                                                *)
(***************************************************************************)
EXTENDS RowSettlement, FiniteSetTheorems, TLAPS

\* A settlement is recorded at the version that a mutation gives the row, and
\* its event is pending while it is queued.
RecordsArePast ==
  \A v \in Versions :
    /\ settlement[v].status # "none" => v <= version
    /\ settlement[v].status = "none" =>
         settlement[v].runs = 0 /\ settlement[v].consumer = NoConsumer

QueuedArePending ==
  \A v \in Versions : settlement[v].status = "queued" =>
    v \in events /\ settlement[v].runs = 0 /\ settlement[v].consumer = NoConsumer

ConsumersAreLater ==
  \A v \in Versions : settlement[v].consumer # NoConsumer =>
    v <= settlement[v].consumer /\ settlement[v].consumer <= version

\* Nobody has consumed settlement v.
Open(v) == settlement[v].status # "none" /\ settlement[v].consumer = NoConsumer

\* Settlement v was consumed by one that failed, for good.
Blamed(v) ==
  \E u \in v .. MaxVersion :
    /\ settlement[v].consumer = u /\ settlement[u].consumer = u
    /\ settlement[u].status = "failed"

\* The settlement of the current version tells what the row waits for: an
\* enrichment that is active, or nothing if it was delivered.
CurrentRecorded ==
  Webhooks /\ ~archived /\ version > 0 => settlement[version].status # "none"

WaitsForActive ==
  /\ faults["cancellation"] = 0 /\ ~archived /\ version > 0
  /\ \/ settlement[version].status = "skipped"
     \/ settlement[version].status = "succeeded" /\ settlement[version].runs > 0
  => active # {}

DeliveredConsumesAll ==
  version > 0 /\ settlement[version].status = "succeeded"
              /\ settlement[version].runs = 0 =>
    /\ Webhooks => sent = version
    /\ \A v \in Versions : ~ Open(v)

\* What is owed or unsent is carried by a settlement that nobody has consumed
\* yet, or whose consumer failed.
OwedIsCarried ==
  \A c \in owed : \E v \in Versions :
    /\ DependsOn(c, settlement[v].changed)
    /\ (Open(v) /\ settlement[v].runs = 0) \/ Blamed(v)

UnsentIsCarried ==
  \A d \in Destinations : \A c \in unsent[d] :
    /\ c \in Relevant[d]
    /\ \E v \in Versions :
         c \in settlement[v].changed /\ (Open(v) \/ Blamed(v))

\* Unless an enrichment failed, an open settlement wakes owed columns only.
OpenIsOwed ==
  faults["failure"] = 0 => \A c \in Automatic, v \in Versions :
    Open(v) /\ settlement[v].runs = 0 /\ DependsOn(c, settlement[v].changed)
      => c \in owed

\* What a settlement can still do for the changes that it carries, apart from
\* its status: the parts of the inductive invariant about records.
Records ==
  /\ RecordsArePast /\ QueuedArePending /\ ConsumersAreLater
  /\ CurrentRecorded /\ WaitsForActive /\ DeliveredConsumesAll

Carried == OwedIsCarried /\ UnsentIsCarried /\ OpenIsOwed

SettlementRow ==
  [ status   : Status,
    changed  : SUBSET Columns,
    runs     : 0 .. MaxRuns,
    consumer : {NoConsumer} \union Versions ]

\* The inductive invariant.
IInv == TypeOK /\ Records /\ Carried

-----------------------------------------------------------------------------

\* Whatever happens, the faults of a kind only become more, within the bound.
LEMMA FaultsGrow ==
  ASSUME TypeOK, NEW j \in Fault, Faulty(j)
  PROVE  /\ faults' \in [Fault -> 0 .. MaxFaults]
         /\ \A k \in Fault : faults'[k] = IF k = j THEN faults[k] + 1 ELSE faults[k]
         /\ \A k \in Fault : faults'[k] = 0 => faults[k] = 0
         /\ faults'[j] # 0
<1>1. /\ MaxFaults \in Nat
      /\ \A k \in Fault : faults[k] \in 0 .. MaxFaults
  BY RowSettlementAssumption DEF TypeOK
<1>2. /\ faults["statement"] \in 0 .. MaxFaults
      /\ faults["redelivery"] \in 0 .. MaxFaults
      /\ faults["failure"] \in 0 .. MaxFaults
      /\ faults["cancellation"] \in 0 .. MaxFaults
  BY <1>1 DEF Fault
<1>3. \A k \in Fault : faults[k] < MaxFaults
  <2>1. faults["statement"] + faults["redelivery"]
          + faults["failure"] + faults["cancellation"] < MaxFaults
    BY DEF Faulty
  <2>2. /\ faults["statement"] < MaxFaults /\ faults["redelivery"] < MaxFaults
        /\ faults["failure"] < MaxFaults /\ faults["cancellation"] < MaxFaults
    BY <1>1, <1>2, <2>1
  <2>3. QED
    BY <2>2 DEF Fault
<1>4. /\ faults' = [faults EXCEPT ![j] = faults[j] + 1]
      /\ DOMAIN faults = Fault
  BY DEF Faulty, TypeOK
<1>5. \A k \in Fault : faults'[k] = IF k = j THEN faults[k] + 1 ELSE faults[k]
  BY <1>4
<1>6. faults[j] + 1 \in 0 .. MaxFaults /\ faults[j] + 1 # 0
  BY <1>1, <1>3
<1>7. faults' \in [Fault -> 0 .. MaxFaults]
  BY <1>4, <1>6 DEF TypeOK
<1>8. QED
  BY <1>5, <1>6, <1>7

\* A mutation gives the row a version that no settlement has, and records one
\* there or leaves the settlements alone.
LEMMA MutationEffect ==
  ASSUME TypeOK, RecordsArePast, NEW bumps \in {1, 2}, NEW D \in SUBSET Columns,
         Mutate(bumps, D)
  PROVE  /\ version' \in Versions /\ version' > version
         /\ settlement[version'].status = "none"
         /\ settlement[version'].runs = 0
         /\ settlement[version'].consumer = NoConsumer
         /\ settlement' \in [Versions -> SettlementRow]
         /\ \A v \in Versions \ {version'} : settlement'[v] = settlement[v]
         /\ \/ /\ NeedsSettlement(D)
               /\ settlement'[version'].status = "queued"
               /\ settlement'[version'].changed = D
               /\ settlement'[version'].runs = 0
               /\ settlement'[version'].consumer = NoConsumer
               /\ events' = events \union {version'}
            \/ /\ ~ NeedsSettlement(D)
               /\ settlement' = settlement /\ events' = events
<1>1. version' = version + bumps /\ version' \in Versions
  BY DEF Mutate
<1>2. version \in Nat /\ MaxVersion \in Nat
  BY RowSettlementAssumption DEF TypeOK
<1>3. version' > version
  BY <1>1, <1>2
<1>4. settlement \in [Versions -> SettlementRow]
  BY DEF TypeOK, SettlementRow
<1>5. /\ settlement[version'].status = "none"
      /\ settlement[version'].runs = 0
      /\ settlement[version'].consumer = NoConsumer
  <2>1. ~ (version' <= version)
    BY <1>1, <1>2
  <2>2. QED
    BY <1>1, <2>1 DEF RecordsArePast
<1>6. CASE NeedsSettlement(D)
  <2>1. /\ settlement' = [settlement EXCEPT ![version'].status = "queued",
                                            ![version'].changed = D]
        /\ events' = events \union {version'}
    BY <1>1, <1>6 DEF Mutate
  <2> DEFINE row == [settlement[version'] EXCEPT !.status = "queued", !.changed = D]
  <2>2. /\ row \in SettlementRow /\ row.status = "queued" /\ row.changed = D
        /\ row.runs = settlement[version'].runs
        /\ row.consumer = settlement[version'].consumer
    <3>1. settlement[version'] \in SettlementRow
      BY <1>1, <1>4
    <3>2. QED
      BY <3>1 DEF SettlementRow, Status
  <2>3. settlement' = [settlement EXCEPT ![version'] = row]
    BY <1>1, <1>4, <2>1
  <2> HIDE DEF row
  <2>4. settlement'[version'] = row
    BY <1>1, <1>4, <2>3
  <2>5. QED
    BY <1>1, <1>3, <1>4, <1>5, <1>6, <2>1, <2>2, <2>3, <2>4
<1>7. CASE ~ NeedsSettlement(D)
  <2>1. settlement' = settlement /\ events' = events
    BY <1>7 DEF Mutate
  <2>2. QED
    BY <1>1, <1>3, <1>4, <1>5, <1>7, <2>1
<1>8. QED
  BY <1>6, <1>7

\* A mutation keeps the invariants about records, whatever else it does.
LEMMA MutationKeepsRecords ==
  ASSUME TypeOK, Records, NEW bumps \in {1, 2}, NEW D \in SUBSET Columns,
         Mutate(bumps, D)
  PROVE  Records'
<1> USE DEF Records
<1> DEFINE n == version'
<1>1. /\ n \in Versions /\ n > version /\ version \in Nat
      /\ settlement[n].runs = 0
      /\ settlement[n].consumer = NoConsumer
      /\ \A v \in Versions \ {n} : settlement'[v] = settlement[v]
  <2>1. version \in Nat
    BY RowSettlementAssumption DEF TypeOK
  <2>2. QED
    BY <2>1, MutationEffect
<1>2. /\ settlement'[n].status \in {"none", "queued"}
      /\ settlement'[n].runs = 0 /\ settlement'[n].consumer = NoConsumer
      /\ settlement'[n].status = "queued" => n \in events'
      /\ Webhooks => settlement'[n].status = "queued"
  <2>1. CASE NeedsSettlement(D)
    BY <2>1, MutationEffect
  <2>2. CASE ~ NeedsSettlement(D)
    BY <1>1, <2>2, MutationEffect DEF NeedsSettlement
  <2>3. QED
    BY <2>1, <2>2
<1>3. events \subseteq events'
  BY MutationEffect
<1>4. RecordsArePast'
  BY <1>1, <1>2 DEF RecordsArePast, Versions
<1>5. QueuedArePending'
  BY <1>1, <1>2, <1>3 DEF QueuedArePending
<1>6. ConsumersAreLater'
  <2>1. \A v \in Versions : settlement[v].consumer \in {NoConsumer} \union Versions
    BY DEF TypeOK
  <2>2. \A u \in Versions : u <= version => u <= n
    BY <1>1 DEF Versions
  <2>3. QED
    BY <1>1, <1>2, <2>1, <2>2, Zenon DEF ConsumersAreLater
<1>7. CurrentRecorded' /\ WaitsForActive' /\ DeliveredConsumesAll'
  BY <1>2 DEF CurrentRecorded, WaitsForActive, DeliveredConsumesAll
<1>8. QED
  BY <1>4, <1>5, <1>6, <1>7

\* A mutation carries its own changes, and an enrichment that fails changes
\* nothing.
LEMMA MutationKeepsCarried ==
  ASSUME TypeOK, Records, Carried, NEW bumps \in {1, 2}, NEW D \in SUBSET Columns,
         Mutate(bumps, D),
         \/ Changes(D) /\ faults' = faults
         \/ UNCHANGED history /\ faults'["failure"] # 0
  PROVE  Carried'
<1> USE DEF Records, Carried
<1> DEFINE n == version'
<1>1. /\ n \in Versions
      /\ settlement[n].status = "none"
      /\ settlement[n].runs = 0
      /\ settlement[n].consumer = NoConsumer
      /\ \A v \in Versions \ {n} : settlement'[v] = settlement[v]
  BY MutationEffect
<1>2. NeedsSettlement(D) => /\ settlement'[n].status = "queued"
                            /\ settlement'[n].changed = D
                            /\ settlement'[n].runs = 0
                            /\ settlement'[n].consumer = NoConsumer
  BY MutationEffect
<1>3. ~ NeedsSettlement(D) => settlement' = settlement
  BY MutationEffect
<1>4. ASSUME NEW v \in Versions PROVE (Open(v) \/ Blamed(v)) => v # n
  BY <1>1 DEF Open, Blamed, NoConsumer, Versions
<1>5. ASSUME NEW v \in Versions
      PROVE  /\ Open(v) => Open(v)' /\ settlement'[v] = settlement[v]
             /\ Blamed(v) => Blamed(v)' /\ settlement'[v] = settlement[v]
  <2>1. Open(v) => Open(v)' /\ settlement'[v] = settlement[v]
    BY <1>1, <1>4 DEF Open
  <2>2. ASSUME Blamed(v) PROVE Blamed(v)' /\ settlement'[v] = settlement[v]
    <3>1. PICK u \in v .. MaxVersion :
            /\ settlement[v].consumer = u /\ settlement[u].consumer = u
            /\ settlement[u].status = "failed"
      BY <2>2 DEF Blamed
    <3>2. u \in Versions /\ u # n /\ v # n
      BY <1>1, <1>4, <2>2, <3>1 DEF Versions
    <3>3. settlement'[v] = settlement[v] /\ settlement'[u] = settlement[u]
      BY <1>1, <3>2
    <3>4. QED
      BY <3>1, <3>3 DEF Blamed
  <2>3. QED
    BY <2>1, <2>2
<1>6. OwedIsCarried'
  <2> SUFFICES ASSUME NEW c \in owed'
               PROVE  \E v \in Versions :
                        /\ DependsOn(c, settlement'[v].changed)
                        /\ (Open(v)' /\ settlement'[v].runs = 0) \/ Blamed(v)'
    BY DEF OwedIsCarried, DependsOn
  <2>1. CASE c \in owed
    <3>1. PICK v \in Versions :
            /\ DependsOn(c, settlement[v].changed)
            /\ (Open(v) /\ settlement[v].runs = 0) \/ Blamed(v)
      BY <2>1 DEF OwedIsCarried
    <3>2. QED
      BY <1>5, <3>1
  <2>2. CASE c \notin owed
    <3>1. c \in Automatic /\ DependsOn(c, D)
      BY <2>2 DEF Changes, history
    <3>2. NeedsSettlement(D)
      BY <3>1 DEF NeedsSettlement
    <3>3. QED
      BY <1>1, <1>2, <3>1, <3>2 DEF Open
  <2>3. QED
    BY <2>1, <2>2
<1>7. UnsentIsCarried'
  <2> SUFFICES ASSUME NEW d \in Destinations, NEW c \in unsent'[d]
               PROVE  /\ c \in Relevant[d]
                      /\ \E v \in Versions :
                           c \in settlement'[v].changed /\ (Open(v)' \/ Blamed(v)')
    BY DEF UnsentIsCarried
  <2>1. CASE c \in unsent[d]
    <3>1. c \in Relevant[d] /\ \E v \in Versions :
            c \in settlement[v].changed /\ (Open(v) \/ Blamed(v))
      BY <2>1 DEF UnsentIsCarried
    <3>2. QED
      BY <1>5, <3>1
  <2>2. CASE c \notin unsent[d]
    <3>1. c \in Relevant[d] /\ c \in D
      BY <2>2 DEF Changes, history
    <3>2. NeedsSettlement(D)
      BY <3>1 DEF NeedsSettlement
    <3>3. QED
      BY <1>1, <1>2, <3>1, <3>2 DEF Open
  <2>3. QED
    BY <2>1, <2>2
<1>8. OpenIsOwed'
  <2> SUFFICES ASSUME faults'["failure"] = 0, NEW c \in Automatic, NEW v \in Versions,
                      Open(v)', settlement'[v].runs = 0,
                      DependsOn(c, settlement'[v].changed)
               PROVE  c \in owed'
    BY DEF OpenIsOwed, DependsOn
  <2>1. faults["failure"] = 0 /\ Changes(D)
    OBVIOUS
  <2>2. CASE v = n
    <3>1. NeedsSettlement(D)
      BY <1>1, <1>3, <2>2 DEF Open
    <3>2. QED
      BY <1>2, <2>1, <2>2, <3>1 DEF Changes
  <2>3. CASE v # n
    BY <1>1, <2>1, <2>3 DEF Open, OpenIsOwed, Changes
  <2>4. QED
    BY <2>2, <2>3
<1>9. QED
  BY <1>6, <1>7, <1>8

-----------------------------------------------------------------------------

\* What the two parts of the invariant say of faults holds as faults grow.
FaultsKept ==
  \A k \in {"failure", "cancellation"} : faults'[k] = 0 => faults[k] = 0

\* Redelivery is not a failure of an enrichment nor a cancellation.
LEMMA ReturnKeeps ==
  ASSUME TypeOK, NEW v \in Versions, Returns(v)
  PROVE  /\ FaultsKept
         /\ events' = events \/ events' = events \ {v}
  BY FaultsGrow DEF Returns, FaultsKept, Fault

\* A step that leaves the settlements alone: the row is archived, which skips
\* a version, or stays, and its events are pending or over.
LEMMA QuietStep ==
  ASSUME TypeOK, Records, Carried, settlement' = settlement, UNCHANGED history,
         \/ version' = version /\ archived' = archived
         \/ version' = version + 1 /\ version' \in Versions /\ archived' = TRUE,
         \A v \in Versions : settlement[v].status = "queued" => v \in events',
         active # {} => active' # {} \/ faults'["cancellation"] # 0,
         FaultsKept
  PROVE  Records' /\ Carried'
<1> USE DEF Records, Carried
<1>1. version \in Nat /\ version' >= version
  BY RowSettlementAssumption DEF TypeOK
<1>2. RecordsArePast'
  BY <1>1 DEF RecordsArePast, Versions
<1>3. QueuedArePending'
  BY DEF QueuedArePending
<1>4. ConsumersAreLater'
  <2>1. \A v \in Versions : settlement[v].consumer \in {NoConsumer} \union Versions
    BY DEF TypeOK
  <2>2. \A u \in Versions : u <= version => u <= version'
    BY <1>1 DEF Versions
  <2>3. QED
    BY <2>1, <2>2, Zenon DEF ConsumersAreLater
<1>5. CurrentRecorded' /\ WaitsForActive'
  BY DEF CurrentRecorded, WaitsForActive, FaultsKept
<1>6. \A v \in Versions : /\ Open(v)' <=> Open(v)
                          /\ Blamed(v)' <=> Blamed(v)
  BY DEF Open, Blamed
<1>7. DeliveredConsumesAll'
  <2>1. CASE version' = version
    BY <1>6, <2>1 DEF DeliveredConsumesAll, history
  <2>2. CASE version' # version
    <3>1. version' \in Versions /\ ~ (version' <= version)
      BY <1>1, <2>2
    <3>2. settlement[version'].status = "none"
      BY <3>1 DEF RecordsArePast
    <3>3. QED
      BY <3>2 DEF DeliveredConsumesAll
  <2>3. QED
    BY <2>1, <2>2
<1>8. OwedIsCarried' /\ UnsentIsCarried' /\ OpenIsOwed'
  BY <1>6 DEF OwedIsCarried, UnsentIsCarried, OpenIsOwed, DependsOn, history, FaultsKept
<1>9. QED
  BY <1>2, <1>3, <1>4, <1>5, <1>7, <1>8

\* A settlement that is skipped or fails in place is still open.
LEMMA StatusStep ==
  ASSUME TypeOK, Records, Carried, NEW v \in Versions, Processing(v),
         NEW status \in {"skipped", "failed"},
         settlement' = [settlement EXCEPT ![v].status = status],
         UNCHANGED <<version, archived, active, history>>,
         \A u \in Versions \ {v} : u \in events => u \in events',
         status = "skipped" => ~ Current(v) \/ active # {},
         FaultsKept
  PROVE  Records' /\ Carried'
<1> USE DEF Records, Carried
<1>1. /\ settlement'[v].status = status
      /\ settlement'[v].changed = settlement[v].changed
      /\ settlement'[v].runs = settlement[v].runs
      /\ settlement'[v].consumer = settlement[v].consumer
      /\ \A u \in Versions \ {v} : settlement'[u] = settlement[u]
  <2>1. settlement[v] \in SettlementRow
    BY DEF TypeOK, SettlementRow
  <2>2. QED
    BY <2>1 DEF TypeOK, SettlementRow
<1>2. settlement[v].status = "queued"
  BY DEF Processing
<1>3. RecordsArePast' /\ QueuedArePending' /\ ConsumersAreLater'
  BY <1>1, <1>2 DEF RecordsArePast, QueuedArePending, ConsumersAreLater
<1>4. version \in Versions \/ version = 0
  BY RowSettlementAssumption DEF TypeOK, Versions
<1>5. CurrentRecorded'
  BY <1>1, <1>4 DEF CurrentRecorded
<1>6. WaitsForActive'
  <2>1. CASE v = version
    BY <1>1, <2>1 DEF WaitsForActive, Current
  <2>2. CASE v # version
    BY <1>1, <1>4, <2>2 DEF WaitsForActive, FaultsKept
  <2>3. QED
    BY <2>1, <2>2
<1>7. ASSUME NEW u \in Versions
      PROVE  /\ Open(u)' <=> Open(u)
             /\ Blamed(u) => Blamed(u)'
             /\ settlement'[u].changed = settlement[u].changed
             /\ settlement'[u].runs = settlement[u].runs
  <2>1. Open(u)' <=> Open(u)
    BY <1>1, <1>2 DEF Open
  <2>2. ASSUME Blamed(u) PROVE Blamed(u)'
    <3>1. PICK w \in u .. MaxVersion :
            /\ settlement[u].consumer = w /\ settlement[w].consumer = w
            /\ settlement[w].status = "failed"
      BY <2>2 DEF Blamed
    <3>2. w \in Versions /\ w # v
      BY <1>2, <3>1 DEF Versions
    <3>3. settlement'[u].consumer = w /\ settlement'[w] = settlement[w]
      BY <1>1, <3>1, <3>2
    <3>4. QED
      BY <3>1, <3>3 DEF Blamed
  <2>3. QED
    BY <1>1, <2>1, <2>2
<1>8. DeliveredConsumesAll'
  BY <1>1, <1>4, <1>7 DEF DeliveredConsumesAll, history
<1>9. OwedIsCarried'
  BY <1>7 DEF OwedIsCarried, DependsOn, history
<1>10. UnsentIsCarried'
  BY <1>7 DEF UnsentIsCarried, history
<1>11. OpenIsOwed'
  BY <1>7 DEF OpenIsOwed, DependsOn, history, FaultsKept
<1>12. QED
  BY <1>3, <1>5, <1>6, <1>8, <1>9, <1>10, <1>11

\* The settlement of the current version may consume every open one.
LEMMA CandidatesAreOpen ==
  ASSUME TypeOK, Records, NEW v \in Versions, Current(v)
  PROVE  Candidates(v) = {u \in Versions : Open(u)}
<1>1. \A u \in Versions : Open(u) => u \in 1 .. v
  BY DEF Open, RecordsArePast, Records, Current, Versions
<1>2. 1 .. v \subseteq Versions
  <2>1. MaxVersion \in Nat /\ v \in 1 .. MaxVersion
    BY RowSettlementAssumption DEF Versions
  <2>2. 1 .. v \subseteq 1 .. MaxVersion
    BY <2>1
  <2>3. QED
    BY <2>2 DEF Versions
<1>3. QED
  BY <1>1, <1>2 DEF Candidates, Open

\* The settlement of the current version consumes every open one.
LEMMA ConsumeEffect ==
  ASSUME TypeOK, Records, NEW v \in Versions, Processing(v), Current(v),
         NEW outcome, settlement' = Consumed(v, outcome)
  PROVE  /\ v = version /\ ~ archived /\ Open(v) /\ settlement[v].runs = 0
         /\ Candidates(v) = {u \in Versions : Open(u)}
         /\ settlement'[v] = outcome
         /\ \A u \in Versions \ {v} : Open(u) =>
              /\ settlement'[u].status = "skipped" /\ settlement'[u].consumer = v
              /\ settlement'[u].changed = settlement[u].changed
         /\ \A u \in Versions : ~ Open(u) => settlement'[u] = settlement[u]
         /\ \A u \in Versions : Blamed(u) =>
              Blamed(u)' /\ settlement'[u] = settlement[u] /\ ~ Open(u)
<1> USE DEF Records
<1>1. v = version /\ ~ archived /\ settlement[v].status = "queued"
  BY DEF Current, Processing
<1>2. Open(v) /\ settlement[v].runs = 0
  BY <1>1 DEF QueuedArePending, Open
<1>3. Candidates(v) = {u \in Versions : Open(u)}
  BY CandidatesAreOpen
<1>4. settlement'[v] = outcome
  BY DEF Consumed
<1>5. ASSUME NEW u \in Versions \ {v}, Open(u)
      PROVE  /\ settlement'[u].status = "skipped" /\ settlement'[u].consumer = v
             /\ settlement'[u].changed = settlement[u].changed
  <2>1. settlement[u] \in SettlementRow
    BY DEF TypeOK, SettlementRow
  <2>2. settlement'[u] = [settlement[u] EXCEPT !.status = "skipped", !.consumer = v]
    BY <1>3, <1>5 DEF Consumed
  <2>3. QED
    BY <2>1, <2>2 DEF SettlementRow
<1>6. ASSUME NEW u \in Versions, ~ Open(u) PROVE settlement'[u] = settlement[u]
  BY <1>2, <1>3, <1>6 DEF Consumed
<1>7. ASSUME NEW u \in Versions, Blamed(u)
      PROVE  Blamed(u)' /\ settlement'[u] = settlement[u] /\ ~ Open(u)
  <2>1. PICK w \in u .. MaxVersion :
          /\ settlement[u].consumer = w /\ settlement[w].consumer = w
          /\ settlement[w].status = "failed"
    BY <1>7 DEF Blamed
  <2>2. w \in Versions /\ ~ Open(u) /\ ~ Open(w)
    BY <2>1 DEF Versions, Open, NoConsumer
  <2>3. settlement'[u] = settlement[u] /\ settlement'[w] = settlement[w]
    BY <1>6, <2>2
  <2>4. QED
    BY <2>1, <2>2, <2>3 DEF Blamed
<1>8. QED
  BY <1>1, <1>2, <1>3, <1>4, <1>5, <1>6, <1>7

\* It ends with an outcome that is not queued: waiting for the runs that it
\* queued, failed, or delivered.
LEMMA ConsumeKeepsRecords ==
  ASSUME TypeOK, Records, NEW v \in Versions, Processing(v), Current(v),
         NEW outcome, settlement' = Consumed(v, outcome),
         UNCHANGED <<version, archived>>,
         \/ /\ outcome.status = "succeeded" /\ outcome.runs > 0
            /\ outcome.consumer = NoConsumer /\ active' # {}
         \/ outcome.status = "failed" /\ outcome.consumer = v
         \/ /\ outcome.status = "succeeded" /\ outcome.runs = 0
            /\ outcome.consumer = v /\ sent' = Snapshot(v)
  PROVE  Records'
<1> USE DEF Records
<1>1. /\ v = version /\ settlement'[v] = outcome
      /\ \A u \in Versions \ {v} : Open(u) =>
           settlement'[u].status = "skipped" /\ settlement'[u].consumer = v
      /\ \A u \in Versions : ~ Open(u) => settlement'[u] = settlement[u]
  BY ConsumeEffect
<1>2. RecordsArePast'
  <2> SUFFICES ASSUME NEW u \in Versions
               PROVE  /\ settlement'[u].status # "none" => u <= version
                      /\ settlement'[u].status = "none" =>
                           settlement'[u].runs = 0 /\ settlement'[u].consumer = NoConsumer
    BY DEF RecordsArePast
  <2>1. v <= v
    BY DEF Versions
  <2>2. QED
    BY <1>1, <2>1 DEF RecordsArePast, Open
<1>3. \A u \in Versions : settlement'[u].status # "queued"
  BY <1>1 DEF QueuedArePending, Open
<1>4. QueuedArePending'
  BY <1>3 DEF QueuedArePending
<1>5. ConsumersAreLater'
  <2>1. \A u \in Versions : Open(u) => u <= v
    BY <1>1 DEF Open, RecordsArePast
  <2>2. v <= v
    BY DEF Versions
  <2>3. QED
    BY <1>1, <2>1, <2>2 DEF ConsumersAreLater
<1>6. CurrentRecorded' /\ WaitsForActive'
  BY <1>1 DEF CurrentRecorded, WaitsForActive
<1>7. DeliveredConsumesAll'
  <2> SUFFICES ASSUME outcome.status = "succeeded", outcome.runs = 0
               PROVE  /\ Webhooks => sent' = version
                      /\ \A u \in Versions : ~ Open(u)'
    BY <1>1 DEF DeliveredConsumesAll
  <2>1. outcome.consumer = v /\ sent' = Snapshot(v) /\ v # NoConsumer
    BY DEF Versions, NoConsumer
  <2>2. \A u \in Versions : ~ Open(u)'
    BY <1>1, <2>1 DEF Open
  <2>3. QED
    BY <1>1, <2>1, <2>2 DEF Snapshot
<1>8. QED
  BY <1>2, <1>4, <1>5, <1>6, <1>7

\* Automatic runs are queued for all that an open settlement wakes.
LEMMA QueueRunsStep ==
  ASSUME TypeOK, Records, Carried, NEW v \in Versions, QueueRuns(v)
  PROVE  Records' /\ Carried'
<1> USE DEF Records, Carried
<1> DEFINE outcome == [settlement[v] EXCEPT
             !.status = "succeeded",
             !.changed = Changed(Candidates(v)),
             !.runs = Cardinality(Woken(v))]
<1>1. /\ Processing(v) /\ Current(v) /\ ~ Held(v) /\ Woken(v) # {}
      /\ active' = active \union Woken(v) /\ owed' = owed \ Woken(v)
      /\ settlement' = Consumed(v, outcome)
      /\ UNCHANGED <<version, archived, sent, unsent>>
      /\ Returns(v)
  BY DEF QueueRuns
<1>2. Cardinality(Woken(v)) \in Nat /\ Cardinality(Woken(v)) > 0
  <2>1. Woken(v) \in SUBSET Connectors
    BY RowSettlementAssumption DEF Woken
  <2>2. IsFiniteSet(Woken(v)) /\ Cardinality(Woken(v)) \in Nat
    BY <2>1, RowSettlementAssumption, FS_Subset, FS_CardinalityType
  <2>3. Cardinality(Woken(v)) # 0
    BY <1>1, <2>2, FS_EmptySet
  <2>4. QED
    BY <2>2, <2>3
<1>3. /\ v = version /\ Open(v) /\ settlement[v].runs = 0
      /\ Candidates(v) = {u \in Versions : Open(u)}
      /\ settlement'[v] = outcome
      /\ \A u \in Versions \ {v} : Open(u) => settlement'[u].consumer = v
      /\ \A u \in Versions : ~ Open(u) => settlement'[u] = settlement[u]
      /\ \A u \in Versions : Blamed(u) =>
           Blamed(u)' /\ settlement'[u] = settlement[u]
  BY <1>1, ConsumeEffect
<1>4. /\ outcome.status = "succeeded" /\ outcome.runs = Cardinality(Woken(v))
      /\ outcome.changed = Changed(Candidates(v)) /\ outcome.consumer = NoConsumer
  <2>1. settlement[v] \in SettlementRow /\ settlement[v].consumer = NoConsumer
    BY <1>3 DEF TypeOK, SettlementRow, Open
  <2>2. QED
    BY <2>1 DEF SettlementRow
<1> HIDE DEF outcome
<1>5. Records'
  BY <1>1, <1>2, <1>4, ConsumeKeepsRecords
<1>6. FaultsKept
  BY <1>1, ReturnKeeps
<1>7. ASSUME NEW c \in Automatic, NEW u \in Versions, Open(u),
             settlement[u].runs = 0, DependsOn(c, settlement[u].changed)
      PROVE  c \in Woken(v)
  <2>1. settlement[u].changed \subseteq Dirty(v)
    BY <1>3, <1>7 DEF Dirty, Changed
  <2>2. QED
    BY <1>7, <2>1 DEF Woken, DependsOn
<1>8. OwedIsCarried'
  <2> SUFFICES ASSUME NEW c \in owed, c \notin Woken(v)
               PROVE  \E u \in Versions :
                        DependsOn(c, settlement'[u].changed) /\ Blamed(u)'
    BY <1>1 DEF OwedIsCarried, DependsOn
  <2>1. PICK u \in Versions : /\ DependsOn(c, settlement[u].changed)
                              /\ (Open(u) /\ settlement[u].runs = 0) \/ Blamed(u)
    BY DEF OwedIsCarried
  <2>2. c \in Automatic
    BY DEF TypeOK
  <2>3. Blamed(u)
    BY <1>7, <2>1, <2>2
  <2>4. QED
    BY <1>3, <2>1, <2>3
<1>9. UnsentIsCarried'
  <2> SUFFICES ASSUME NEW d \in Destinations, NEW c \in unsent[d]
               PROVE  /\ c \in Relevant[d]
                      /\ \E u \in Versions :
                           c \in settlement'[u].changed /\ (Open(u)' \/ Blamed(u)')
    BY <1>1 DEF UnsentIsCarried
  <2>1. c \in Relevant[d]
    BY DEF UnsentIsCarried
  <2>2. PICK u \in Versions : c \in settlement[u].changed /\ (Open(u) \/ Blamed(u))
    BY DEF UnsentIsCarried
  <2>3. CASE Open(u)
    <3>1. c \in settlement'[v].changed
      BY <1>3, <1>4, <2>2, <2>3 DEF Changed
    <3>2. Open(v)'
      BY <1>3, <1>4 DEF Open
    <3>3. QED
      BY <2>1, <3>1, <3>2
  <2>4. CASE Blamed(u)
    BY <1>3, <2>1, <2>2, <2>4
  <2>5. QED
    BY <2>2, <2>3, <2>4
<1>10. OpenIsOwed'
  <2>1. \A u \in Versions : ~ (Open(u)' /\ settlement'[u].runs = 0)
    <3>1. v # NoConsumer
      BY DEF Versions, NoConsumer
    <3>2. \A u \in Versions \ {v} : ~ Open(u)'
      BY <1>3, <3>1 DEF Open
    <3>3. settlement'[v].runs # 0
      BY <1>2, <1>3, <1>4
    <3>4. QED
      BY <3>2, <3>3
  <2>2. QED
    BY <2>1 DEF OpenIsOwed
<1>11. QED
  BY <1>5, <1>8, <1>9, <1>10

\* A blocked fan-out takes the blame for all that it consumes.
LEMMA BlockedStep ==
  ASSUME TypeOK, Records, Carried, NEW v \in Versions, Processing(v), Current(v),
         Blocked(v), FaultsKept, UNCHANGED <<version, archived, active, history>>
  PROVE  Records' /\ Carried'
<1> USE DEF Records, Carried
<1> DEFINE outcome == [settlement[v] EXCEPT !.status = "failed", !.consumer = v]
<1>1. settlement' = Consumed(v, outcome)
  BY DEF Blocked
<1>2. outcome.status = "failed" /\ outcome.consumer = v
      /\ outcome.changed = settlement[v].changed
  <2>1. settlement[v] \in SettlementRow
    BY DEF TypeOK, SettlementRow
  <2>2. QED
    BY <2>1 DEF SettlementRow
<1> HIDE DEF outcome
<1>3. /\ v = version /\ settlement'[v] = outcome
      /\ \A u \in Versions \ {v} : Open(u) =>
           /\ settlement'[u].consumer = v
           /\ settlement'[u].changed = settlement[u].changed
      /\ \A u \in Versions : ~ Open(u) => settlement'[u] = settlement[u]
      /\ \A u \in Versions : Blamed(u) =>
           Blamed(u)' /\ settlement'[u] = settlement[u]
  BY <1>1, ConsumeEffect
<1>4. Records'
  BY <1>1, <1>2, ConsumeKeepsRecords
<1>5. ASSUME NEW u \in Versions, Open(u) \/ Blamed(u)
      PROVE  Blamed(u)' /\ settlement'[u].changed = settlement[u].changed
  <2>1. CASE Open(u)
    <3>1. settlement'[u].consumer = v /\ settlement'[u].changed = settlement[u].changed
      BY <1>2, <1>3, <2>1
    <3>2. v \in u .. MaxVersion
      BY <1>3, <2>1 DEF Open, RecordsArePast, Versions
    <3>3. settlement'[v].consumer = v /\ settlement'[v].status = "failed"
      BY <1>2, <1>3
    <3>4. QED
      BY <3>1, <3>2, <3>3 DEF Blamed
  <2>2. CASE Blamed(u)
    BY <1>3, <2>2
  <2>3. QED
    BY <1>5, <2>1, <2>2
<1>6. OwedIsCarried' /\ UnsentIsCarried'
  BY <1>5 DEF OwedIsCarried, UnsentIsCarried, DependsOn, history
<1>7. OpenIsOwed'
  <2>1. v # NoConsumer
    BY DEF Versions, NoConsumer
  <2>2. \A u \in Versions : ~ Open(u)'
    BY <1>2, <1>3, <2>1 DEF Open
  <2>3. QED
    BY <2>2 DEF OpenIsOwed
<1>8. QED
  BY <1>4, <1>6, <1>7

\* A delivery leaves nothing open, and only what failed is still owed.
LEMMA DeliverStep ==
  ASSUME TypeOK, Records, Carried, NEW v \in Versions, Deliver(v)
  PROVE  /\ Records' /\ Carried'
         /\ active = {}
         /\ \A c \in owed : \E u \in Versions :
              DependsOn(c, settlement[u].changed) /\ Blamed(u)
<1> USE DEF Records, Carried
<1> DEFINE outcome == [settlement[v] EXCEPT !.status = "succeeded", !.consumer = v]
<1>1. /\ Processing(v) /\ Current(v) /\ ~ Held(v) /\ Woken(v) = {}
      /\ settlement' = Consumed(v, outcome)
      /\ UNCHANGED <<version, archived, active, owed>>
      /\ sent' = Snapshot(v)
      /\ unsent' = [d \in Destinations |->
           IF d \in Writebacks(v) THEN {} ELSE unsent[d]]
      /\ Returns(v)
  BY DEF Deliver, Deliverable
<1>2. active = {}
  BY <1>1 DEF Held
<1>3. /\ v = version /\ settlement'[v] = outcome /\ settlement[v].runs = 0
      /\ Candidates(v) = {u \in Versions : Open(u)}
      /\ \A u \in Versions \ {v} : Open(u) => settlement'[u].consumer = v
      /\ \A u \in Versions : ~ Open(u) => settlement'[u] = settlement[u]
      /\ \A u \in Versions : Blamed(u) =>
           Blamed(u)' /\ settlement'[u] = settlement[u]
  BY <1>1, ConsumeEffect
<1>4. outcome.status = "succeeded" /\ outcome.consumer = v /\ outcome.runs = 0
  <2>1. settlement[v] \in SettlementRow
    BY DEF TypeOK, SettlementRow
  <2>2. QED
    BY <1>3, <2>1 DEF SettlementRow
<1> HIDE DEF outcome
<1>5. Records'
  BY <1>1, <1>4, ConsumeKeepsRecords
<1>6. ASSUME NEW c \in owed
      PROVE  \E u \in Versions : DependsOn(c, settlement[u].changed) /\ Blamed(u)
  <2>1. PICK u \in Versions : /\ DependsOn(c, settlement[u].changed)
                              /\ (Open(u) /\ settlement[u].runs = 0) \/ Blamed(u)
    BY DEF OwedIsCarried
  <2>2. ASSUME Open(u), settlement[u].runs = 0 PROVE FALSE
    <3>1. settlement[u].changed \subseteq Dirty(v)
      BY <1>3, <2>2 DEF Dirty, Changed
    <3>2. c \in Woken(v)
      BY <2>1, <3>1 DEF Woken, DependsOn, TypeOK
    <3>3. QED
      BY <1>1, <3>2
  <2>3. QED
    BY <2>1, <2>2
<1>7. OwedIsCarried'
  <2> SUFFICES ASSUME NEW c \in owed
               PROVE  \E u \in Versions :
                        DependsOn(c, settlement'[u].changed) /\ Blamed(u)'
    BY <1>1 DEF OwedIsCarried, DependsOn
  <2>1. PICK u \in Versions : DependsOn(c, settlement[u].changed) /\ Blamed(u)
    BY <1>6
  <2>2. QED
    BY <1>3, <2>1
<1>8. UnsentIsCarried'
  <2> SUFFICES ASSUME NEW d \in Destinations, d \notin Writebacks(v), NEW c \in unsent[d]
               PROVE  /\ c \in Relevant[d]
                      /\ \E u \in Versions : c \in settlement'[u].changed /\ Blamed(u)'
    BY <1>1 DEF UnsentIsCarried
  <2>1. c \in Relevant[d]
    BY DEF UnsentIsCarried
  <2>2. PICK u \in Versions : c \in settlement[u].changed /\ (Open(u) \/ Blamed(u))
    BY DEF UnsentIsCarried
  <2>3. ~ Open(u)
    <3>1. ASSUME Open(u) PROVE c \in Changed(Candidates(v))
      BY <1>3, <2>2, <3>1 DEF Changed
    <3>2. QED
      BY <2>1, <3>1 DEF Writebacks
  <2>4. QED
    BY <1>3, <2>1, <2>2, <2>3
<1>9. OpenIsOwed'
  <2>1. v # NoConsumer
    BY DEF Versions, NoConsumer
  <2>2. \A u \in Versions : ~ Open(u)'
    BY <1>3, <1>4, <2>1 DEF Open
  <2>3. QED
    BY <2>2 DEF OpenIsOwed
<1>10. QED
  BY <1>2, <1>5, <1>6, <1>7, <1>8, <1>9

-----------------------------------------------------------------------------

\* No step of the system breaks what the settlements record or carry.
LEMMA StepKeeps ==
  ASSUME TypeOK, Records, Carried, [Next]_vars
  PROVE  Records' /\ Carried'
<1> DEFINE Pending == \A v \in Versions : settlement[v].status = "queued" => v \in events
<1>1. Pending
  BY DEF Records, QueuedArePending
<1>2. RecordsArePast
  BY DEF Records
<1>3. faults' = faults => FaultsKept
  BY DEF FaultsKept
<1>4. \A k \in Fault : Faulty(k) => FaultsKept
  BY FaultsGrow DEF FaultsKept, Fault
<1>5. CASE Edit
  <2>1. PICK D \in SUBSET Inputs : \E F \in SUBSET Recomputed(D) :
          Mutate(1, D \union F) /\ Changes(D \union F)
    BY <1>5 DEF Edit
  <2> PICK F \in SUBSET Recomputed(D) :
          Mutate(1, D \union F) /\ Changes(D \union F)
    BY <2>1
  <2>2. D \union F \in SUBSET Columns
    BY DEF Recomputed, Columns
  <2>3. faults' = faults
    BY <1>5 DEF Edit
  <2>4. QED
    BY <2>2, <2>3, MutationKeepsRecords, MutationKeepsCarried
<1>6. CASE Restore
  <2>1. PICK F \in SUBSET Recomputed(Inputs) :
          Mutate(2, Inputs \union F) /\ Changes(Inputs \union F)
    BY <1>6 DEF Restore
  <2>2. Inputs \union F \in SUBSET Columns
    BY DEF Recomputed, Columns
  <2>3. faults' = faults
    BY <1>6 DEF Restore
  <2>4. QED
    BY <2>1, <2>2, <2>3, MutationKeepsRecords, MutationKeepsCarried
<1>7. CASE Archive
  <2>1. /\ version' = version + 1 /\ version' \in Versions /\ archived' = TRUE
        /\ UNCHANGED <<settlement, events, active, history, faults>>
    BY <1>7, RowSettlementAssumption DEF Archive, TypeOK, Versions
  <2>2. QED
    BY <1>1, <1>3, <2>1, QuietStep
<1>8. ASSUME NEW c \in Connectors, RunByHand(c) PROVE Records' /\ Carried'
  <2>1. /\ UNCHANGED <<version, archived, settlement, events, history, faults>>
        /\ active' # {}
    BY <1>8 DEF RunByHand, rowVars
  <2>2. QED
    BY <1>1, <1>3, <2>1, QuietStep
<1>9. ASSUME NEW c \in Connectors, Succeed(c) PROVE Records' /\ Carried'
  <2>1. PICK F \in SUBSET Recomputed({c}) :
          Mutate(1, {c} \union F) /\ Changes({c} \union F)
    BY <1>9 DEF Succeed
  <2>2. {c} \union F \in SUBSET Columns
    BY DEF Recomputed, Columns
  <2>3. faults' = faults
    BY <1>9 DEF Succeed
  <2>4. QED
    BY <2>1, <2>2, <2>3, MutationKeepsRecords, MutationKeepsCarried
<1>10. ASSUME NEW c \in Connectors, Fail(c) PROVE Records' /\ Carried'
  <2>1. Mutate(1, {c}) /\ UNCHANGED history /\ Faulty("failure")
    BY <1>10 DEF Fail
  <2>2. faults'["failure"] # 0
    BY <2>1, FaultsGrow DEF Fault
  <2>3. {c} \in SUBSET Columns
    BY DEF Columns
  <2>4. QED
    BY <2>1, <2>2, <2>3, MutationKeepsRecords, MutationKeepsCarried
<1>11. ASSUME NEW c \in Connectors, Cancel(c) PROVE Records' /\ Carried'
  <2>1. /\ UNCHANGED <<version, archived, settlement, events, history>>
        /\ Faulty("cancellation")
    BY <1>11 DEF Cancel, rowVars
  <2>2. faults'["cancellation"] # 0 /\ FaultsKept
    BY <1>4, <2>1, FaultsGrow DEF Fault
  <2>3. QED
    BY <1>1, <2>1, <2>2, QuietStep
<1>12. ASSUME NEW v \in Versions, Over(v) PROVE Records' /\ Carried'
  <2>1. /\ UNCHANGED <<version, archived, settlement, active, history>>
        /\ settlement[v].status # "queued" /\ Returns(v)
    BY <1>12 DEF Over
  <2>2. FaultsKept /\ (events' = events \/ events' = events \ {v})
    BY <2>1, ReturnKeeps
  <2>3. \A u \in Versions : settlement[u].status = "queued" => u \in events'
    BY <1>1, <2>1, <2>2
  <2>4. QED
    BY <2>1, <2>2, <2>3, QuietStep
<1>13. ASSUME NEW v \in Versions, Skip(v) PROVE Records' /\ Carried'
  <2>1. /\ Processing(v) /\ Returns(v)
        /\ settlement' = [settlement EXCEPT ![v].status = "skipped"]
        /\ UNCHANGED <<version, archived, active, history>>
    BY <1>13 DEF Skip
  <2>2. FaultsKept /\ (events' = events \/ events' = events \ {v})
    BY <2>1, ReturnKeeps
  <2>3. ~ Current(v) \/ active # {}
    BY <1>13 DEF Skip, Held
  <2>4. QED
    BY <2>1, <2>2, <2>3, StatusStep
<1>14. ASSUME NEW v \in Versions, BlockRuns(v) \/ BlockWritebacks(v)
       PROVE  Records' /\ Carried'
  <2>1. /\ Processing(v) /\ Current(v) /\ Blocked(v) /\ Returns(v)
        /\ UNCHANGED <<version, archived, active, history>>
    BY <1>14 DEF BlockRuns, BlockWritebacks, Deliverable
  <2>2. FaultsKept
    BY <2>1, ReturnKeeps
  <2>3. QED
    BY <2>1, <2>2, BlockedStep
<1>15. ASSUME NEW v \in Versions, Unprepared(v) \/ StorageFault(v)
       PROVE  Records' /\ Carried'
  <2>1. /\ Processing(v) /\ Throws(v)
        /\ UNCHANGED <<version, archived, active, history>>
    BY <1>15 DEF Unprepared, StorageFault, Throws
  <2>2. FaultsKept
    BY <1>3, <1>4, <1>15 DEF Unprepared, StorageFault, Fault
  <2>3. CASE attempt[v] < MaxRetries
    <3>1. UNCHANGED <<settlement, events>>
      BY <2>1, <2>3 DEF Throws
    <3>2. QED
      BY <1>1, <2>1, <2>2, <3>1, QuietStep
  <2>4. CASE ~ (attempt[v] < MaxRetries)
    <3>1. /\ settlement' = [settlement EXCEPT ![v].status = "failed"]
          /\ events' = events \ {v}
      BY <2>1, <2>4 DEF Throws
    <3>2. QED
      BY <2>1, <2>2, <3>1, StatusStep
  <2>5. QED
    BY <2>3, <2>4
<1>16. CASE UNCHANGED vars
  BY <1>1, <1>3, <1>16, QuietStep DEF vars, rowVars
<1>17. QED
  BY <1>5, <1>6, <1>7, <1>8, <1>9, <1>10, <1>11, <1>12, <1>13, <1>14, <1>15, <1>16,
     QueueRunsStep, DeliverStep DEF Next, Process
-----------------------------------------------------------------------------

\* The settlements after a step, and the events that are of some of them.
RowsTyped ==
  /\ settlement \in [Versions -> SettlementRow]
  /\ events \subseteq {v \in Versions : settlement[v].status # "none"}

\* A mutation adds a version, and perhaps a settlement with its event.
LEMMA MutationTyped ==
  ASSUME TypeOK, Records, NEW bumps \in {1, 2}, NEW D \in SUBSET Columns,
         Mutate(bumps, D)
  PROVE  RowsTyped' /\ version' \in 0 .. MaxVersion /\ sent \in 0 .. version'
<1> USE DEF Records
<1> DEFINE n == version'
<1>1. /\ n \in Versions /\ n > version
      /\ settlement' \in [Versions -> SettlementRow]
      /\ \A v \in Versions \ {n} : settlement'[v] = settlement[v]
  BY MutationEffect
<1>2. n \in 0 .. MaxVersion /\ sent \in 0 .. n
  BY <1>1, RowSettlementAssumption DEF TypeOK, Versions
<1>3. \A v \in events : v \in Versions /\ settlement[v].status # "none"
  BY DEF TypeOK
<1>4. \A v \in events : v # n
  BY <1>3, MutationEffect
<1>5. CASE NeedsSettlement(D)
  <2>1. settlement'[n].status = "queued" /\ events' = events \union {n}
    BY <1>5, MutationEffect
  <2>2. QED
    BY <1>1, <1>2, <1>3, <1>4, <2>1 DEF RowsTyped
<1>6. CASE ~ NeedsSettlement(D)
  BY <1>1, <1>2, <1>3, <1>6, MutationEffect DEF RowsTyped
<1>7. QED
  BY <1>5, <1>6

\* So does a settlement that is skipped or fails in place,
LEMMA StatusTyped ==
  ASSUME TypeOK, NEW v \in Versions, NEW status \in {"skipped", "failed"},
         settlement' = [settlement EXCEPT ![v].status = status],
         events' \subseteq events
  PROVE  RowsTyped'
<1>1. settlement \in [Versions -> SettlementRow]
  BY DEF TypeOK, SettlementRow
<1>2. /\ [settlement[v] EXCEPT !.status = status] \in SettlementRow
      /\ [settlement[v] EXCEPT !.status = status].status = status
  <2>1. settlement[v] \in SettlementRow
    BY <1>1
  <2>2. QED
    BY <2>1 DEF SettlementRow, Status
<1>3. settlement' = [settlement EXCEPT ![v] = [settlement[v] EXCEPT !.status = status]]
  BY <1>1
<1>4. QED
  BY <1>1, <1>2, <1>3 DEF RowsTyped, TypeOK

\* and one that consumes the others.
LEMMA ConsumeTyped ==
  ASSUME TypeOK, Records, NEW v \in Versions, Processing(v), Current(v),
         NEW outcome \in SettlementRow, outcome.status # "none",
         settlement' = Consumed(v, outcome), events' \subseteq events
  PROVE  RowsTyped'
<1>1. settlement \in [Versions -> SettlementRow]
  BY DEF TypeOK, SettlementRow
<1>2. ASSUME NEW u \in Versions
      PROVE  /\ [settlement[u] EXCEPT !.status = "skipped", !.consumer = v] \in SettlementRow
             /\ [settlement[u] EXCEPT !.status = "skipped", !.consumer = v].status = "skipped"
  <2>1. settlement[u] \in SettlementRow
    BY <1>1
  <2>2. QED
    BY <2>1 DEF SettlementRow, Status
<1>3. ASSUME NEW u \in Versions
      PROVE  /\ settlement'[u] \in SettlementRow
             /\ settlement[u].status # "none" => settlement'[u].status # "none"
  BY <1>1, <1>2 DEF Consumed
<1>4. settlement' = [u \in Versions |-> settlement'[u]]
  BY DEF Consumed
<1>5. settlement' \in [Versions -> SettlementRow]
  BY <1>3, <1>4
<1>6. QED
  BY <1>3, <1>5 DEF RowsTyped, TypeOK

\* Handling an event keeps the rows well formed.
LEMMA HandlersTyped ==
  ASSUME TypeOK, Records, NEW v \in Versions, Process(v) \/ StorageFault(v)
  PROVE  RowsTyped' /\ faults' \in [Fault -> 0 .. MaxFaults]
<1>1. ASSUME Returns(v)
      PROVE  events' \subseteq events /\ faults' \in [Fault -> 0 .. MaxFaults]
  BY <1>1, FaultsGrow DEF Returns, Fault, TypeOK
<1>2. settlement[v] \in SettlementRow
  BY DEF TypeOK, SettlementRow
<1>3. CASE Over(v)
  BY <1>1, <1>3 DEF Over, RowsTyped, TypeOK, SettlementRow
<1>4. CASE Skip(v)
  BY <1>1, <1>4, StatusTyped DEF Skip
<1>5. CASE QueueRuns(v)
  <2> DEFINE outcome == [settlement[v] EXCEPT
               !.status = "succeeded",
               !.changed = Changed(Candidates(v)),
               !.runs = Cardinality(Woken(v))]
  <2>1. /\ Processing(v) /\ Current(v) /\ settlement' = Consumed(v, outcome)
        /\ Returns(v) /\ Cardinality(Woken(v)) <= MaxRuns
    BY <1>5 DEF QueueRuns
  <2>2. Cardinality(Woken(v)) \in 0 .. MaxRuns
    <3>1. Woken(v) \in SUBSET Connectors
      BY RowSettlementAssumption DEF Woken
    <3>2. Cardinality(Woken(v)) \in Nat
      BY <3>1, RowSettlementAssumption, FS_Subset, FS_CardinalityType
    <3>3. QED
      BY <2>1, <3>2, RowSettlementAssumption
  <2>3. Changed(Candidates(v)) \in SUBSET Columns
    BY RowSettlementAssumption DEF Changed, Candidates, TypeOK, Versions
  <2>4. outcome \in SettlementRow /\ outcome.status = "succeeded"
    BY <1>2, <2>2, <2>3 DEF SettlementRow, Status
  <2> HIDE DEF outcome
  <2>5. QED
    BY <1>1, <2>1, <2>4, ConsumeTyped
<1>6. CASE BlockRuns(v) \/ BlockWritebacks(v)
  <2> DEFINE outcome == [settlement[v] EXCEPT !.status = "failed", !.consumer = v]
  <2>1. /\ Processing(v) /\ Current(v) /\ settlement' = Consumed(v, outcome)
        /\ Returns(v)
    BY <1>6 DEF BlockRuns, BlockWritebacks, Deliverable, Blocked
  <2>2. outcome \in SettlementRow /\ outcome.status = "failed"
    BY <1>2 DEF SettlementRow, Status
  <2> HIDE DEF outcome
  <2>3. QED
    BY <1>1, <2>1, <2>2, ConsumeTyped
<1>7. CASE Deliver(v)
  <2> DEFINE outcome == [settlement[v] EXCEPT !.status = "succeeded", !.consumer = v]
  <2>1. /\ Processing(v) /\ Current(v) /\ settlement' = Consumed(v, outcome)
        /\ Returns(v)
    BY <1>7 DEF Deliver, Deliverable
  <2>2. outcome \in SettlementRow /\ outcome.status = "succeeded"
    BY <1>2 DEF SettlementRow, Status
  <2> HIDE DEF outcome
  <2>3. QED
    BY <1>1, <2>1, <2>2, ConsumeTyped
<1>8. CASE Unprepared(v) \/ StorageFault(v)
  <2>1. Throws(v)
    BY <1>8 DEF Unprepared, StorageFault
  <2>2. faults' \in [Fault -> 0 .. MaxFaults]
    BY <1>8, FaultsGrow DEF Unprepared, StorageFault, Fault, TypeOK
  <2>3. CASE attempt[v] < MaxRetries
    BY <2>1, <2>2, <2>3 DEF Throws, RowsTyped, TypeOK, SettlementRow
  <2>4. CASE ~ (attempt[v] < MaxRetries)
    BY <2>1, <2>2, <2>4, StatusTyped DEF Throws
  <2>5. QED
    BY <2>3, <2>4
<1>9. QED
  BY <1>3, <1>4, <1>5, <1>6, <1>7, <1>8 DEF Process
\* What a change of the columns D makes of the history is well formed.
LEMMA ChangesTyped ==
  ASSUME TypeOK, NEW D \in SUBSET Columns, Changes(D)
  PROVE  /\ owed' \subseteq Automatic
         /\ unsent' \in [Destinations -> SUBSET Columns]
         /\ sent' = sent
<1>1. owed' \subseteq Automatic /\ sent' = sent
  BY DEF Changes, TypeOK
<1>2. \A d \in Destinations : unsent[d] \union (Relevant[d] \intersect D) \in SUBSET Columns
  BY DEF TypeOK
<1>3. QED
  BY <1>1, <1>2 DEF Changes

\* Every step keeps the types.
LEMMA TypeStep ==
  ASSUME TypeOK, Records, [Next]_vars
  PROVE  TypeOK'
<1> USE RowSettlementAssumption
<1> USE DEF SettlementRow
<1>1. ByUser => user' \in 0 .. MaxUser
  BY DEF ByUser, TypeOK
<1>2. \A k \in Fault : Faulty(k) => faults' \in [Fault -> 0 .. MaxFaults]
  BY FaultsGrow
<1>3. CASE Edit
  <2>1. PICK D \in SUBSET Inputs : \E F \in SUBSET Recomputed(D) :
          /\ Mutate(1, D \union F) /\ Changes(D \union F)
          /\ filled' \subseteq filled \union D \union F
    BY <1>3 DEF Edit
  <2>2. PICK F \in SUBSET Recomputed(D) :
          /\ Mutate(1, D \union F) /\ Changes(D \union F)
          /\ filled' \subseteq filled \union D \union F
    BY <2>1
  <2>3. D \union F \in SUBSET Columns
    BY DEF Recomputed, Columns
  <2>4. RowsTyped' /\ version' \in 0 .. MaxVersion /\ sent \in 0 .. version'
    BY <2>2, <2>3, MutationTyped
  <2>5. /\ owed' \subseteq Automatic
        /\ unsent' \in [Destinations -> SUBSET Columns]
        /\ sent' = sent
    BY <2>2, <2>3, ChangesTyped
  <2>6. user' \in 0 .. MaxUser /\ filled' \subseteq Columns
    BY <1>1, <1>3, <2>2, <2>3 DEF Edit, TypeOK
  <2>7. UNCHANGED <<archived, active, bulk, attempt, faults>>
    BY <1>3 DEF Edit
  <2>8. QED
    BY <2>4, <2>5, <2>6, <2>7 DEF TypeOK, RowsTyped
<1>4. CASE Restore
  <2>1. PICK F \in SUBSET Recomputed(Inputs) :
          /\ Mutate(2, Inputs \union F) /\ Changes(Inputs \union F)
          /\ filled' = filled \union Inputs \union F
    BY <1>4 DEF Restore
  <2>2. Inputs \union F \in SUBSET Columns
    BY DEF Recomputed, Columns
  <2>3. RowsTyped' /\ version' \in 0 .. MaxVersion /\ sent \in 0 .. version'
    BY <2>1, <2>2, MutationTyped
  <2>4. /\ owed' \subseteq Automatic
        /\ unsent' \in [Destinations -> SUBSET Columns]
        /\ sent' = sent
    BY <2>1, <2>2, ChangesTyped
  <2>5. filled' \subseteq Columns
    BY <2>1, <2>2 DEF TypeOK
  <2>6. archived' = FALSE /\ UNCHANGED <<active, bulk, attempt, user, faults>>
    BY <1>4 DEF Restore
  <2>7. QED
    BY <2>3, <2>4, <2>5, <2>6 DEF TypeOK, RowsTyped
<1>5. CASE Archive
  <2>1. version' \in 0 .. MaxVersion /\ sent \in 0 .. version' /\ archived' = TRUE
    BY <1>5 DEF Archive, TypeOK
  <2>2. QED
    BY <1>1, <1>5, <2>1 DEF Archive, TypeOK, history
<1>6. ASSUME NEW c \in Connectors, RunByHand(c) PROVE TypeOK'
  <2>1. bulk' \subseteq active' /\ active' \subseteq Connectors
    BY <1>6 DEF RunByHand, TypeOK
  <2>2. QED
    BY <1>1, <1>6, <2>1 DEF RunByHand, TypeOK, history, rowVars
<1>7. ASSUME NEW c \in Connectors, Succeed(c) PROVE TypeOK'
  <2>1. PICK F \in SUBSET Recomputed({c}) :
          /\ Mutate(1, {c} \union F) /\ Changes({c} \union F)
          /\ filled' = filled \union {c} \union F
    BY <1>7 DEF Succeed
  <2>2. {c} \union F \in SUBSET Columns
    BY DEF Recomputed, Columns
  <2>3. RowsTyped' /\ version' \in 0 .. MaxVersion /\ sent \in 0 .. version'
    BY <2>1, <2>2, MutationTyped
  <2>4. /\ owed' \subseteq Automatic
        /\ unsent' \in [Destinations -> SUBSET Columns]
        /\ sent' = sent
    BY <2>1, <2>2, ChangesTyped
  <2>5. filled' \subseteq Columns
    BY <2>1, <2>2 DEF TypeOK
  <2>6. bulk' \subseteq active' /\ active' \subseteq Connectors
    BY <1>7 DEF Succeed, TypeOK
  <2>7. UNCHANGED <<archived, attempt, user, faults>>
    BY <1>7 DEF Succeed
  <2>8. QED
    BY <2>3, <2>4, <2>5, <2>6, <2>7 DEF TypeOK, RowsTyped
<1>8. ASSUME NEW c \in Connectors, Fail(c) PROVE TypeOK'
  <2>1. {c} \in SUBSET Columns /\ Mutate(1, {c})
    BY <1>8 DEF Fail, Columns
  <2>2. RowsTyped' /\ version' \in 0 .. MaxVersion /\ sent \in 0 .. version'
    BY <2>1, MutationTyped
  <2>3. bulk' \subseteq active' /\ active' \subseteq Connectors
    BY <1>8 DEF Fail, TypeOK
  <2>4. faults' \in [Fault -> 0 .. MaxFaults]
    BY <1>2, <1>8 DEF Fail, Fault
  <2>5. UNCHANGED <<archived, filled, attempt, history, user>>
    BY <1>8 DEF Fail
  <2>6. QED
    BY <2>2, <2>3, <2>4, <2>5 DEF TypeOK, RowsTyped, history
<1>9. ASSUME NEW c \in Connectors, Cancel(c) PROVE TypeOK'
  <2>1. bulk' \subseteq active' /\ active' \subseteq Connectors
    BY <1>9 DEF Cancel, TypeOK
  <2>2. faults' \in [Fault -> 0 .. MaxFaults]
    BY <1>2, <1>9 DEF Cancel, Fault
  <2>3. QED
    BY <1>9, <2>1, <2>2 DEF Cancel, TypeOK, history, rowVars
<1>10. ASSUME NEW v \in Versions, Process(v) \/ StorageFault(v) PROVE TypeOK'
  <2>1. RowsTyped' /\ faults' \in [Fault -> 0 .. MaxFaults]
    BY <1>10, HandlersTyped
  <2>2. UNCHANGED <<version, archived, filled, bulk, user>>
    BY <1>10 DEF Process, Over, Skip, QueueRuns, BlockRuns, Unprepared,
                 BlockWritebacks, Deliver, StorageFault, Throws
  <2>3. bulk \subseteq active' /\ active' \subseteq Connectors
    BY <1>10 DEF Process, Over, Skip, QueueRuns, BlockRuns, Unprepared,
                 BlockWritebacks, Deliver, StorageFault, Throws, Woken, TypeOK
  <2>4. attempt' \in [Versions -> 0 .. MaxRetries]
    <3>1. attempt' = attempt \/ /\ attempt[v] < MaxRetries
                                /\ attempt' = [attempt EXCEPT ![v] = @ + 1]
      BY <1>10 DEF Process, Over, Skip, QueueRuns, BlockRuns, Unprepared,
                   BlockWritebacks, Deliver, StorageFault, Throws
    <3>2. QED
      BY <3>1 DEF TypeOK
  <2>5. owed' \subseteq Automatic
    BY <1>10 DEF Process, Over, Skip, QueueRuns, BlockRuns, Unprepared,
                 BlockWritebacks, Deliver, StorageFault, Throws, TypeOK, history
  <2>6. sent' \in 0 .. version /\ unsent' \in [Destinations -> SUBSET Columns]
    <3>1. CASE Deliver(v)
      <4>1. v = version
        BY <3>1 DEF Deliver, Deliverable, Current
      <4>2. Snapshot(v) \in 0 .. version
        BY <4>1 DEF Snapshot, TypeOK
      <4>3. QED
        BY <3>1, <4>2 DEF Deliver, TypeOK
    <3>2. CASE ~ Deliver(v)
      BY <1>10, <3>2 DEF Process, Over, Skip, QueueRuns, BlockRuns, Unprepared,
                         BlockWritebacks, StorageFault, Throws, TypeOK, history
    <3>3. QED
      BY <3>1, <3>2
  <2>7. QED
    BY <2>1, <2>2, <2>3, <2>4, <2>5, <2>6 DEF TypeOK, RowsTyped
<1>11. CASE UNCHANGED vars
  BY <1>11 DEF vars, rowVars, history, TypeOK
<1>12. QED
  BY <1>3, <1>4, <1>5, <1>6, <1>7, <1>8, <1>9, <1>10, <1>11 DEF Next

-----------------------------------------------------------------------------

\* A new row has no version that was recorded.
LEMMA InitSound == Init => IInv
<1> SUFFICES ASSUME Init PROVE IInv
  OBVIOUS
<1> USE RowSettlementAssumption
<1>1. TypeOK
  <2>1. /\ 0 \in 0 .. MaxVersion /\ 0 \in 0 .. MaxRuns /\ 0 \in 0 .. MaxRetries
        /\ 0 \in 0 .. MaxUser /\ 0 \in 0 .. MaxFaults /\ 0 \in 0 .. 0
    OBVIOUS
  <2>2. [ status |-> "none", changed |-> {}, runs |-> 0, consumer |-> NoConsumer ]
          \in SettlementRow
    BY <2>1 DEF SettlementRow, Status
  <2>3. QED
    BY <2>1, <2>2 DEF Init, TypeOK, SettlementRow
<1>2. \A v \in Versions : /\ settlement[v].status = "none"
                          /\ settlement[v].runs = 0
                          /\ settlement[v].consumer = NoConsumer
  BY DEF Init
<1>3. Records
  BY <1>2 DEF Init, Records, RecordsArePast, QueuedArePending, ConsumersAreLater,
       CurrentRecorded, WaitsForActive, DeliveredConsumesAll
<1>4. Carried
  BY <1>2 DEF Init, Carried, OwedIsCarried, UnsentIsCarried, OpenIsOwed, Open
<1>5. QED
  BY <1>1, <1>3, <1>4 DEF IInv

\* The inductive invariant holds in every reachable state.
THEOREM RowSettlementInvariance == Spec => []IInv
<1>1. IInv /\ [Next]_vars => IInv'
  BY TypeStep, StepKeeps DEF IInv
<1>2. QED
  BY <1>1, InitSound, PTL DEF Spec

\* Every variable keeps the values its declaration gives it.
THEOREM RowSettlementTypeCorrect == Spec => []TypeOK
<1>1. IInv => TypeOK
  BY DEF IInv
<1>2. QED
  BY <1>1, RowSettlementInvariance, PTL

\* A settlement whose consumer failed is lost for good.
LEMMA BlamedIsLost ==
  ASSUME NEW v \in Versions, Blamed(v)
  PROVE  Lost(v)
BY DEF Blamed, Lost

\* In a quiet row with webhooks, what was never consumed waits behind a failed
\* settlement of the current version: there is nothing else that it waits for.
LEMMA OpenAtRestIsLost ==
  ASSUME IInv, AtRest, Webhooks, ~ archived, faults["cancellation"] = 0,
         NEW v \in Versions, Open(v)
  PROVE  Lost(v)
<1> USE DEF IInv, Records
<1>1. v <= version /\ version \in Versions
  <2>1. v <= version
    BY DEF Open, RecordsArePast
  <2>2. version \in 0 .. MaxVersion /\ MaxVersion \in Nat /\ v \in 1 .. MaxVersion
    BY RowSettlementAssumption DEF TypeOK, Versions
  <2>3. QED
    BY <2>1, <2>2 DEF Versions
<1>2. settlement[version].status \in {"skipped", "succeeded", "failed"}
  <2>1. settlement[version].status \in Status
    BY <1>1 DEF TypeOK
  <2>2. settlement[version].status # "queued"
    BY <1>1 DEF QueuedArePending, AtRest
  <2>3. version > 0
    BY <1>1 DEF Versions
  <2>4. settlement[version].status # "none"
    BY <1>1, <2>3 DEF CurrentRecorded
  <2>5. QED
    BY <2>1, <2>2, <2>4 DEF Status
<1>3. settlement[version].runs \in Nat /\ version > 0
  BY <1>1, RowSettlementAssumption DEF TypeOK, Versions
<1>4. settlement[version].status = "failed"
  <2>1. settlement[version].status # "skipped"
    BY <1>3 DEF WaitsForActive, AtRest
  <2>2. ~ (settlement[version].status = "succeeded" /\ settlement[version].runs > 0)
    BY <1>3 DEF WaitsForActive, AtRest
  <2>3. ~ (settlement[version].status = "succeeded" /\ settlement[version].runs = 0)
    BY <1>3 DEF DeliveredConsumesAll
  <2>4. settlement[version].runs > 0 \/ settlement[version].runs = 0
    BY <1>3
  <2>5. QED
    BY <1>2, <2>1, <2>2, <2>3, <2>4
<1>5. version \in v .. MaxVersion
  BY <1>1 DEF Versions
<1>6. QED
  BY <1>4, <1>5 DEF Lost, Open

\* DeliveredUnlessCancelled for every table and every history of a row: the
\* settlement of the current version is recorded when there are webhooks; if it
\* is neither queued nor waiting for an enrichment nor failed, it was delivered.
THEOREM SettledRowsAreDelivered == Spec => []DeliveredUnlessCancelled
<1>1. IInv => DeliveredUnlessCancelled
  <2> SUFFICES ASSUME IInv, faults["cancellation"] = 0,
                      AtRest, Webhooks, ~ archived, version > 0
               PROVE  sent = version \/ Lost(version)
    BY DEF DeliveredUnlessCancelled, SettledRowIsDelivered
  <2>1. version \in Versions
    BY RowSettlementAssumption DEF IInv, TypeOK, Versions
  <2>2. settlement[version].status # "none"
    BY DEF IInv, Records, CurrentRecorded
  <2>3. CASE Open(version)
    BY <2>1, <2>3, OpenAtRestIsLost
  <2>4. CASE ~ Open(version)
    <3>1. settlement[version].consumer = version
      <4>1. settlement[version].consumer # NoConsumer
        BY <2>2, <2>4 DEF Open
      <4>2. /\ settlement[version].consumer \in {NoConsumer} \union Versions
            /\ version <= settlement[version].consumer
            /\ settlement[version].consumer <= version
        BY <2>1, <4>1 DEF IInv, TypeOK, Records, ConsumersAreLater
      <4>3. QED
        BY <2>1, <4>1, <4>2 DEF Versions
    <3>2. settlement[version].status \in {"skipped", "succeeded", "failed"}
      <4>1. settlement[version].status # "queued"
        BY <2>1 DEF IInv, Records, QueuedArePending, AtRest
      <4>2. QED
        BY <2>1, <2>2, <4>1 DEF IInv, TypeOK, Status
    <3>3. CASE settlement[version].status = "failed"
      BY <2>1, <3>1, <3>3 DEF Lost, Versions
    <3>4. CASE settlement[version].status = "skipped"
      BY <3>4 DEF IInv, Records, WaitsForActive, AtRest
    <3>5. CASE settlement[version].status = "succeeded"
      <4>1. settlement[version].runs \in Nat
        BY <2>1, RowSettlementAssumption DEF IInv, TypeOK
      <4>2. ~ (settlement[version].runs > 0)
        BY <3>5 DEF IInv, Records, WaitsForActive, AtRest
      <4>3. settlement[version].runs = 0
        BY <4>1, <4>2
      <4>4. QED
        BY <3>5, <4>3 DEF IInv, Records, DeliveredConsumesAll
    <3>6. QED
      BY <3>2, <3>3, <3>4, <3>5
  <2>5. QED
    BY <2>3, <2>4
<1>2. QED
  BY <1>1, RowSettlementInvariance, PTL

\* NoChangeForgotten for every table with a row_settled webhook: what is owed
\* or unsent is carried by a settlement, whose changes a failed one consumed or
\* which waits behind the failed settlement of the current version.  Without
\* a webhook a mutation that nothing depends on records no settlement, and the
\* row may go quiet over an older one that was skipped.
THEOREM ChangesAreNotForgotten == Spec => [](Webhooks => NoChangeForgotten)
<1>1. IInv => (Webhooks => NoChangeForgotten)
  <2> SUFFICES ASSUME IInv, Webhooks, AtRest, ~ archived, faults["cancellation"] = 0
               PROVE  NoChangeForgotten
    BY DEF NoChangeForgotten
  <2>1. ASSUME NEW v \in Versions, Open(v) \/ Blamed(v) PROVE Lost(v)
    BY <2>1, BlamedIsLost, OpenAtRestIsLost
  <2>2. ASSUME NEW c \in owed
        PROVE  \E v \in Versions : Lost(v) /\ DependsOn(c, settlement[v].changed)
    BY <2>1 DEF IInv, Carried, OwedIsCarried
  <2>3. ASSUME NEW d \in Destinations, unsent[d] # {}
        PROVE  \E v \in Versions : Lost(v) /\ unsent[d] \intersect settlement[v].changed # {}
    <3>1. PICK c \in unsent[d] : TRUE
      BY <2>3
    <3>2. PICK v \in Versions : c \in settlement[v].changed /\ (Open(v) \/ Blamed(v))
      BY DEF IInv, Carried, UnsentIsCarried
    <3>3. QED
      BY <2>1, <3>1, <3>2
  <2>4. QED
    BY <2>2, <2>3 DEF NoChangeForgotten
<1>2. QED
  BY <1>1, RowSettlementInvariance, PTL

\* RunsOnlyForChanges for every table: what a settlement wakes is a dirty
\* column of an open settlement, and those are owed their run.
THEOREM RunsAreOwed == Spec => RunsOnlyForChanges
<1>1. IInv /\ [Next]_vars =>
        [faults["failure"] = 0 => \A c \in Automatic :
           (\E v \in Versions : QueueRuns(v)) /\ c \in active' \ active
             => c \in owed]_vars
  <2> SUFFICES ASSUME IInv, faults["failure"] = 0, NEW c \in Automatic,
                      NEW v \in Versions, QueueRuns(v), c \in active' \ active
               PROVE  c \in owed
    BY DEF vars
  <2> USE DEF IInv
  <2>1. c \in Woken(v) /\ Processing(v) /\ Current(v)
    BY DEF QueueRuns
  <2>2. Candidates(v) = {u \in Versions : Open(u)}
    BY <2>1, CandidatesAreOpen
  <2>3. PICK u \in Candidates(v) :
          settlement[u].runs = 0 /\ DependsOn(c, settlement[u].changed)
    BY <2>1 DEF Woken, Dirty, Changed, DependsOn
  <2>4. QED
    BY <2>2, <2>3 DEF Carried, OpenIsOwed
<1>2. QED
  BY <1>1, RowSettlementInvariance, PTL DEF Spec, RunsOnlyForChanges

\* DeliveredRowIsComplete for every table: only a delivery takes a snapshot,
\* and it finds no enrichment active and only what failed still owed.
THEOREM DeliveredRowsAreComplete == Spec => DeliveredRowIsComplete
<1>1. IInv /\ [Next]_vars =>
        [sent' # sent => active = {} /\ \A c \in owed : \E v \in Versions :
           Lost(v) /\ DependsOn(c, settlement[v].changed)]_vars
  <2> SUFFICES ASSUME IInv, Next, sent' # sent
               PROVE  active = {} /\ \A c \in owed : \E v \in Versions :
                        Lost(v) /\ DependsOn(c, settlement[v].changed)
    BY DEF vars, history
  <2>1. PICK v \in Versions : Deliver(v)
    <3>1. CASE Edit \/ Archive \/ Restore
      BY <3>1 DEF Edit, Archive, Restore, Changes, history
    <3>2. CASE \E c \in Connectors : RunByHand(c) \/ Succeed(c) \/ Fail(c) \/ Cancel(c)
      BY <3>2 DEF RunByHand, Succeed, Fail, Cancel, Changes, history
    <3>3. CASE \E v \in Versions : Process(v) \/ StorageFault(v)
      BY <3>3 DEF Process, Over, Skip, QueueRuns, BlockRuns, Unprepared,
                  BlockWritebacks, StorageFault, Throws, history
    <3>4. QED
      BY <3>1, <3>2, <3>3 DEF Next
  <2>2. QED
    BY <2>1, BlamedIsLost, DeliverStep DEF IInv
<1>2. QED
  BY <1>1, RowSettlementInvariance, PTL DEF Spec, DeliveredRowIsComplete

=============================================================================
