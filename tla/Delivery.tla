------------------------------ MODULE Delivery ------------------------------
(***************************************************************************)
(* Webhook deliveries (packages/db/src/sqlite/webhooks.ts) sent by the     *)
(* handler of execute-webhook-delivery.ts from the dispatch loop of module *)
(* Outbox.  HubSpot writebacks (writebacks.ts,                             *)
(* execute-writeback-delivery.ts) are the same state machine with another  *)
(* adapter and a smaller retry budget.                                     *)
(*                                                                         *)
(* The deliveries go to one destination.  The receiver is outside the      *)
(* system.  The attempt counter and the response columns are an audit      *)
(* record that nothing reads back; they are left out.                      *)
(***************************************************************************)
EXTENDS Integers, FiniteSets

CONSTANTS
  Deliveries,    \* deliveries and their events, naturals in creation order
  MaxErrors,     \* bound: failed statements of a handler
  Dispatchers, NoClaim, BatchLimit, Lease, MaxWait, MaxRetries,
  MaxAttempts, MaxFaults, MaxLate   \* as in module Outbox

VARIABLES
  outbox, disp, faults,   \* module Outbox
  paused,     \* webhook_destinations.status is 'paused'
  revoked,    \* whether the signing credential is revoked
  status,     \* webhook_deliveries.status
  stage,      \* where each dispatcher is in executeSqliteWebhookDelivery
  errors      \* failed statements so far

O == INSTANCE Outbox WITH Events <- Deliveries

outboxVars == <<outbox, disp, faults>>
settings == <<paused, revoked>>
local == <<settings, status, stage, errors>>
vars == <<outboxVars, local>>

Active == {"queued", "running"}
Terminal == {"succeeded", "failed"}

\* what the request came to, as the handler knows it
Answer == {"accepted", "retryable", "fatal"}

\* about to mark the delivery running; about to load it; waiting for the
\* answer; accepted, or in the catch block with either kind of failure
Stage == {"outside", "loading", "sending"} \union Answer

DeliveryTypeOK ==
  /\ paused \in BOOLEAN
  /\ revoked \in BOOLEAN
  /\ status \in [Deliveries -> {"absent"} \union Active \union Terminal]
  /\ stage \in [Dispatchers -> Stage]
  /\ errors \in 0 .. MaxErrors

TypeOK == O!TypeOK /\ DeliveryTypeOK

DeliveryInit ==
  /\ paused = FALSE
  /\ revoked = FALSE
  /\ status = [e \in Deliveries |-> "absent"]
  /\ stage = [d \in Dispatchers |-> "outside"]
  /\ errors = 0

Init == O!Init /\ DeliveryInit

-----------------------------------------------------------------------------

\* queueSqliteWebhookDelivery and queueSettledSqliteWebhookDeliveries: the
\* delivery and its event are inserted in one transaction.  A replay of the
\* idempotency key returns the delivery or conflicts, and changes nothing.
Queue(e) ==
  /\ ~paused
  /\ \A f \in Deliveries : f < e => status[f] # "absent"
  /\ O!Enqueue(e)
  /\ status' = [status EXCEPT ![e] = "queued"]
  /\ UNCHANGED <<settings, stage, errors>>

\* updateSqliteWebhookDestination: deliveries already queued are kept.
SetPaused(value) ==
  /\ paused # value
  /\ paused' = value
  /\ UNCHANGED <<outboxVars, revoked, status, stage, errors>>

\* revokeSqliteCredential
Revoke ==
  /\ ~revoked
  /\ revoked' = TRUE
  /\ UNCHANGED <<outboxVars, paused, status, stage, errors>>

\* The dispatcher claims its next events.
Dispatch(d) == O!Claim(d) /\ UNCHANGED local

Handling(d, e, place) ==
  /\ O!Current(d, e)
  /\ disp[d].outcome = "running"
  /\ stage[d] = place

Leaves(d, result) ==
  /\ disp' = [disp EXCEPT ![d].outcome = result]
  /\ stage' = [stage EXCEPT ![d] = "outside"]

\* Wrong variant of the definition that follows: a delivery is started again
\* after its success.
MayBeginAgain(e) == status[e] \in Active \union {"succeeded"}

\* A delivery left running by a dead or overtaken worker is started again.
MayBegin(e) == status[e] \in Active

\* markSqliteWebhookDeliveryRunning returns 'ready'.
Begin(d, e) ==
  /\ Handling(d, e, "outside")
  /\ MayBegin(e)
  /\ status' = [status EXCEPT ![e] = "running"]
  /\ stage' = [stage EXCEPT ![d] = "loading"]
  /\ UNCHANGED <<outboxVars, settings, errors>>

\* It returns 'succeeded', or throws because the delivery has failed.  The
\* call is outside the try block, so its error leaves the handler.
BeginOver(d, e) ==
  /\ Handling(d, e, "outside")
  /\ ~MayBegin(e)
  /\ Leaves(d, IF status[e] = "succeeded" THEN "ok" ELSE "retryable")
  /\ UNCHANGED <<outbox, faults, settings, status, errors>>

\* loadExecution finds the credential revoked, or signs the stored payload.
\* It does not ask whether the destination is paused.
Load(d, e) ==
  /\ Handling(d, e, "loading")
  /\ stage' = [stage EXCEPT ![d] = IF revoked THEN "fatal" ELSE "sending"]
  /\ UNCHANGED <<outboxVars, settings, status, errors>>

\* The request is accepted; or it fails for a reason worth a retry (a status
\* of that kind, a transport error, an answer lost or later than the
\* deadline, whether or not the receiver got it); or it fails for good (any
\* other status, a secret that cannot be read, forbidden egress).
Send(d, e, answer) ==
  /\ Handling(d, e, "sending")
  /\ stage' = [stage EXCEPT ![d] = answer]
  /\ UNCHANGED <<outboxVars, settings, status, errors>>

\* markSqliteWebhookDeliverySucceeded
Record(d, e) ==
  /\ Handling(d, e, "accepted")
  /\ status[e] = "running"
  /\ status' = [status EXCEPT ![e] = "succeeded"]
  /\ Leaves(d, "ok")
  /\ UNCHANGED <<outbox, faults, settings, errors>>

\* It throws, for another worker has finished or requeued the delivery.
RecordRefused(d, e) ==
  /\ Handling(d, e, "accepted")
  /\ status[e] # "running"
  /\ stage' = [stage EXCEPT ![d] = "retryable"]
  /\ UNCHANGED <<outboxVars, settings, status, errors>>

Error ==
  /\ errors < MaxErrors
  /\ errors' = errors + 1

\* It commits, but the use of the credential beside it cannot be recorded.
RecordThenFault(d, e) ==
  /\ Handling(d, e, "accepted")
  /\ status[e] = "running"
  /\ Error
  /\ status' = [status EXCEPT ![e] = "succeeded"]
  /\ stage' = [stage EXCEPT ![d] = "retryable"]
  /\ UNCHANGED <<outboxVars, settings>>

\* The handler leaves the delivery to another attempt.
Retries(d, e) ==
  stage[d] = "retryable" /\ disp[d].attempt[e] - 1 < MaxRetries

\* The status the failure leaves: a delivery that is over is not touched.
FailureStatus(d, e) ==
  IF status[e] \notin Active THEN status[e]
  ELSE IF Retries(d, e) THEN "queued" ELSE "failed"

\* setSqliteWebhookDeliveryFailure, after which the catch block throws.
Fail(d, e) ==
  /\ \E failure \in {"retryable", "fatal"} : Handling(d, e, failure)
  /\ status' = [status EXCEPT ![e] = FailureStatus(d, e)]
  /\ Leaves(d, stage[d])
  /\ UNCHANGED <<outbox, faults, settings, errors>>

\* A statement of the handler fails.  In the try block the catch block meets
\* the error; before it and in the catch block the error leaves the handler.
StorageFault(d, e) ==
  /\ \E place \in Stage \ {"sending"} : Handling(d, e, place)
  /\ Error
  /\ IF stage[d] \in {"loading", "accepted"}
       THEN stage' = [stage EXCEPT ![d] = "retryable"] /\ UNCHANGED disp
       ELSE Leaves(d, "retryable")
  /\ UNCHANGED <<outbox, faults, settings, status>>

Settle(d) ==
  /\ \/ \E e \in Deliveries :
          O!Publish(d, e) \/ O!Retry(d, e) \/ O!LostClaim(d, e)
     \/ O!StorageError(d)
  /\ UNCHANGED local

Crash(d) ==
  /\ O!Crash(d)
  /\ stage' = [stage EXCEPT ![d] = "outside"]
  /\ UNCHANGED <<settings, status, errors>>

Tick == O!Tick /\ UNCHANGED local

Handler(d, e) ==
  \/ Begin(d, e)
  \/ BeginOver(d, e)
  \/ Load(d, e)
  \/ \E answer \in Answer : Send(d, e, answer)
  \/ Record(d, e)
  \/ RecordRefused(d, e)
  \/ Fail(d, e)

\* The next step of the dispatch loop: to claim, to handle or to settle.
Work(d) == Dispatch(d) \/ (\E e \in Deliveries : Handler(d, e)) \/ Settle(d)

Next ==
  \/ \E e \in Deliveries : Queue(e)
  \/ \E value \in BOOLEAN : SetPaused(value)
  \/ Revoke
  \/ \E d \in Dispatchers :
       \/ Work(d)
       \/ \E e \in Deliveries : RecordThenFault(d, e)
       \/ \E e \in Deliveries : StorageFault(d, e)
       \/ Crash(d)
  \/ Tick

Spec == Init /\ [][Next]_vars

-----------------------------------------------------------------------------

\* An outcome is final: neither an overtaken worker's late failure nor a
\* redelivered event changes it.
OutcomeIsFinal ==
  [][\A e \in Deliveries :
       status[e] \in Terminal => status'[e] = status[e]]_vars

=============================================================================
