------------------------------- MODULE Airbyte -------------------------------
(***************************************************************************)
(* The Airbyte destination (packages/airbyte-destination/src): it reads    *)
(* records and STATE messages of a sync, pushes the records in batches to  *)
(* an ingestion endpoint per stream, waits until each batch is applied,    *)
(* and acknowledges a STATE once everything before it is.                  *)
(*                                                                         *)
(* A sync that fails or dies is started again by Airbyte, which is         *)
(* external, with the messages after the last acknowledged STATE.  The     *)
(* endpoints (module Ingestion) apply the batches they accepted in order.  *)
(***************************************************************************)
EXTENDS Integers, Sequences, FiniteSets

CONSTANTS
  Messages,       \* the source's messages: <<route, key>> or Checkpoint
  Checkpoint,     \* a STATE message
  MaxRecords,     \* batchMaximumRecords
  RequestTries,   \* requestAttempts
  MaxSyncs        \* bound: syncs

Routes == {Messages[i][1] : i \in {j \in DOMAIN Messages :
                                     Messages[j] # Checkpoint}}
RecordKeys == {Messages[i] : i \in DOMAIN Messages} \ {Checkpoint}

AirbyteParameters ==
  /\ DOMAIN Messages = 1 .. Len(Messages)
  /\ Len(Messages) \in Nat
  /\ {MaxRecords, RequestTries, MaxSyncs} \subseteq Nat \ {0}
  /\ Routes \subseteq Nat

VARIABLES
  sync,       \* number of the sync that runs, and whether it still does
  position,   \* messages that the sync has accepted
  buffer,     \* #batchByRoute: the records of each route, by message number
  sequence,   \* #batchSequence
  request,    \* the batch that #flush submits or waits for
  acked,      \* position of the last STATE that was emitted
  accepted,   \* the batches that the endpoints have accepted, in order
  written     \* the message that last wrote each record of the tables

airbyteVars == <<sync, position, buffer, sequence, request, acked, accepted,
                 written>>

NoRequest == [stage |-> "none", route |-> 0, tries |-> 0]

Records == SUBSET DOMAIN Messages

AirbyteTypeOK ==
  /\ sync \in [number : 1 .. MaxSyncs, over : BOOLEAN]
  /\ position \in 0 .. Len(Messages)
  /\ buffer \in [Routes -> Records]
  /\ sequence \in Nat
  /\ request \in [stage : {"none", "submit", "wait"},
                  route : Routes \union {0}, tries : 0 .. RequestTries]
  /\ acked \in 0 .. Len(Messages)
  /\ accepted \in Seq([key : Nat \X Nat, route : Routes, records : Records,
                       status : {"queued", "succeeded", "failed"}])
  /\ written \in [RecordKeys -> 0 .. Len(Messages)]

AirbyteInit ==
  /\ sync = [number |-> 1, over |-> FALSE]
  /\ position = 0
  /\ buffer = [r \in Routes |-> {}]
  /\ sequence = 0
  /\ request = NoRequest
  /\ acked = 0
  /\ accepted = <<>>
  /\ written = [k \in RecordKeys |-> 0]

-----------------------------------------------------------------------------

Working == ~sync.over /\ request = NoRequest
AtEnd == position = Len(Messages)
Message == Messages[position + 1]   \* the message that acceptLine is given

Pending == {r \in Routes : buffer[r] # {}}

\* #acceptRecord, when the record still fits into the batch of its route.
BufferRecord ==
  /\ Working
  /\ ~AtEnd
  /\ Message # Checkpoint
  /\ Cardinality(buffer[Message[1]]) < MaxRecords
  /\ buffer' = [buffer EXCEPT ![Message[1]] = @ \union {position + 1}]
  /\ position' = position + 1
  /\ UNCHANGED <<sync, sequence, request, acked, accepted, written>>

\* The batch to flush next: that of the record's route if the record does not fit,
\* by number or by bytes (any batch may be too long for it), or, before a STATE is
\* emitted and at the end, that of the first route that has one.
Flushes(r) ==
  /\ r \in Pending
  /\ IF ~AtEnd /\ Message # Checkpoint
       THEN r = Message[1]
       ELSE \A other \in Pending : r <= other

\* #flush: a batch gets the next sequence number and is submitted.
StartFlush(r) ==
  /\ Working
  /\ Flushes(r)
  /\ sequence' = sequence + 1
  /\ request' = [stage |-> "submit", route |-> r, tries |-> 0]
  /\ UNCHANGED <<sync, position, buffer, acked, accepted, written>>

\* The idempotency key of the batch under way.
Identity == <<sync.number, sequence>>
AcceptedAs == {i \in DOMAIN accepted : accepted[i].key = Identity}

\* The endpoint accepts the batch, or recognises its idempotency key.
AcceptBatch ==
  IF AcceptedAs # {} THEN UNCHANGED accepted
  ELSE accepted' = Append(accepted,
         [key |-> Identity, route |-> request.route,
          records |-> buffer[request.route], status |-> "queued"])

\* The sync ends: the command exits with code 1, or dies.
EndSync == sync' = [sync EXCEPT !.over = TRUE] /\ request' = NoRequest

\* submitBatch: the endpoint answers 202 with the batch, or with one that has
\* failed already, which is not an acceptance.
Submit ==
  /\ request.stage = "submit"
  /\ AcceptBatch
  /\ IF \E i \in AcceptedAs : accepted[i].status = "failed"
       THEN EndSync
       ELSE /\ request' = [request EXCEPT !.stage = "wait", !.tries = 0]
            /\ UNCHANGED sync
  /\ UNCHANGED <<position, buffer, sequence, acked, written>>

\* guardedFetch: a request, of either kind, is not answered usably, though the
\* endpoint may have carried it out; the third time ends the sync.
RequestFails ==
  /\ request.stage # "none"
  /\ \/ request.stage = "submit" /\ AcceptBatch
     \/ UNCHANGED accepted
  /\ IF request.tries + 1 < RequestTries
       THEN request' = [request EXCEPT !.tries = @ + 1] /\ UNCHANGED sync
       ELSE EndSync
  /\ UNCHANGED <<position, buffer, sequence, acked, written>>

\* The status that ends the loop of waitForApplication.
Applied(status) == status = "succeeded"

\* waitForApplication sees that the batch is applied, and #flush forgets it.
Confirm ==
  /\ request.stage = "wait"
  /\ \E i \in AcceptedAs : Applied(accepted[i].status)
  /\ buffer' = [buffer EXCEPT ![request.route] = {}]
  /\ request' = NoRequest
  /\ UNCHANGED <<sync, position, sequence, acked, accepted, written>>

\* The status of a batch that is not applied yet is answered: the requests
\* for the next one start anew.
KeepWaiting ==
  /\ request.stage = "wait"
  /\ request.tries > 0
  /\ \E i \in AcceptedAs : accepted[i].status = "queued"
  /\ request' = [request EXCEPT !.tries = 0]
  /\ UNCHANGED <<sync, position, buffer, sequence, acked, accepted, written>>

\* The batch failed, or it is not applied within the time allowed.
GiveUpWaiting ==
  /\ request.stage = "wait"
  /\ \E i \in AcceptedAs : accepted[i].status # "succeeded"
  /\ EndSync
  /\ UNCHANGED <<position, buffer, sequence, acked, accepted, written>>

\* Wrong variant: a STATE is emitted once the batch of one route is flushed.
FlushedSome == \E r \in Routes : buffer[r] = {}

\* flushAll has left nothing to flush.
FlushedAll == Pending = {}

\* A STATE message is emitted once flushAll has returned.
EmitState ==
  /\ Working
  /\ ~AtEnd
  /\ Message = Checkpoint
  /\ FlushedAll
  /\ position' = position + 1
  /\ acked' = position + 1
  /\ UNCHANGED <<sync, buffer, sequence, request, accepted, written>>

\* The process dies, or a message is refused.
Die ==
  /\ ~sync.over
  /\ EndSync
  /\ UNCHANGED <<position, buffer, sequence, acked, accepted, written>>

\* Airbyte starts another sync after the last STATE it was given.
Resync ==
  /\ sync.over
  /\ sync.number < MaxSyncs
  /\ sync' = [number |-> sync.number + 1, over |-> FALSE]
  /\ position' = acked
  /\ buffer' = [r \in Routes |-> {}]
  /\ sequence' = 0
  /\ UNCHANGED <<request, acked, accepted, written>>

\* The worker applies the next batch of an endpoint (module Ingestion), or
\* some of its records before it fails.
ApplyBatch(i) ==
  LET batch == accepted[i]
      Latest(k, rs) ==
        IF \E m \in rs : Messages[m] = k
          THEN CHOOSE m \in rs : /\ Messages[m] = k
                                 /\ \A n \in rs : Messages[n] = k => n <= m
          ELSE written[k]
  IN /\ batch.status = "queued"
     /\ \A j \in 1 .. i - 1 :
          accepted[j].route = batch.route => accepted[j].status # "queued"
     /\ \E status \in {"succeeded", "failed"}, part \in SUBSET batch.records :
          /\ status = "succeeded" => part = batch.records
          /\ \A m \in part, n \in batch.records : n < m => n \in part
          /\ accepted' = [accepted EXCEPT ![i].status = status]
          /\ written' = [k \in RecordKeys |-> Latest(k, part)]
     /\ UNCHANGED <<sync, position, buffer, sequence, request, acked>>

AirbyteNext ==
  \/ BufferRecord
  \/ \E r \in Routes : StartFlush(r)
  \/ Submit \/ RequestFails \/ Confirm \/ KeepWaiting \/ GiveUpWaiting
  \/ EmitState \/ Die \/ Resync
  \/ \E i \in DOMAIN accepted : ApplyBatch(i)

AirbyteSpec == AirbyteInit /\ [][AirbyteNext]_airbyteVars

-----------------------------------------------------------------------------

\* Once a STATE is acknowledged, the tables show every record before it as the
\* source last sent it, and go on doing so: no request that was lost or
\* repeated, sync that was given up or batch that is applied late takes a
\* record back to an earlier message or loses one.
AckedIsWritten ==
  \A m \in 1 .. acked : Messages[m] # Checkpoint => written[Messages[m]] >= m

=============================================================================
