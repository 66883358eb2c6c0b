----------------------------- MODULE WriteQueue ------------------------------
(***************************************************************************)
(* withSqliteWriteTransaction (packages/db/src/sqlite/client.ts): the      *)
(* writes made through one database handle queue behind one another by a   *)
(* chain of promises, and each tries a few times to begin an immediate     *)
(* transaction against the processes that share the file.                  *)
(*                                                                         *)
(* A call is named by its writer.  Its promise in the chain is resolved    *)
(* once the call is settled, because it waits for the previous one.        *)
(***************************************************************************)
EXTENDS Naturals

CONSTANTS
  Writers,       \* calls of withSqliteWriteTransaction
  Handles,       \* database handles, one in each process
  HandleOf,      \* the handle a call is made through
  MaxTries,      \* SQLITE_WRITE_ACQUISITION_MAX_ATTEMPTS
  NoWriter

VARIABLES
  tail,       \* sqliteWriteTails: the call at the end of a handle's chain
  previous,   \* the call whose turn a call waits for
  phase,      \* where a call is
  conflicts   \* the attempts that found the file locked

queueVars == <<tail, previous, phase, conflicts>>

QueueParameters ==
  /\ HandleOf \in [Writers -> Handles]
  /\ MaxTries \in Nat \ {0}
  /\ NoWriter \notin Writers

Over == {"committed", "failed"}
Phase == {"uncalled", "waiting", "beginning", "inside"} \union Over

QueueTypeOK ==
  /\ tail \in [Handles -> Writers \union {NoWriter}]
  /\ previous \in [Writers -> Writers \union {NoWriter}]
  /\ phase \in [Writers -> Phase]
  /\ conflicts \in [Writers -> 0 .. MaxTries - 1]

QueueInit ==
  /\ tail = [h \in Handles |-> NoWriter]
  /\ previous = [w \in Writers |-> NoWriter]
  /\ phase = [w \in Writers |-> "uncalled"]
  /\ conflicts = [w \in Writers |-> 0]

-----------------------------------------------------------------------------

\* A call joins the chain of its handle; no await separates the reading of
\* the old tail from the setting of the new one.
Call(w) ==
  /\ phase[w] = "uncalled"
  /\ previous' = [previous EXCEPT ![w] = tail[HandleOf[w]]]
  /\ tail' = [tail EXCEPT ![HandleOf[w]] = w]
  /\ phase' = [phase EXCEPT ![w] = "waiting"]
  /\ UNCHANGED conflicts

\* The turn a call waits for is released.
Released(w) == previous[w] # NoWriter => phase[previous[w]] \in Over

TakeTurn(w) ==
  /\ phase[w] = "waiting"
  /\ Released(w)
  /\ phase' = [phase EXCEPT ![w] = "beginning"]
  /\ UNCHANGED <<tail, previous, conflicts>>

\* Another transaction holds the write lock of the file.
Locked == \E w \in Writers : phase[w] = "inside"

\* BEGIN IMMEDIATE succeeds and the callback starts.
Begin(w) ==
  /\ phase[w] = "beginning"
  /\ ~Locked
  /\ phase' = [phase EXCEPT ![w] = "inside"]
  /\ UNCHANGED <<tail, previous, conflicts>>

\* BEGIN IMMEDIATE waits for the lock in vain, and is tried again.
Busy(w) ==
  /\ phase[w] = "beginning"
  /\ Locked
  /\ conflicts[w] < MaxTries - 1
  /\ conflicts' = [conflicts EXCEPT ![w] = @ + 1]
  /\ UNCHANGED <<tail, previous, phase>>

\* Wrong variant: the handle forgets its tail whenever a call ends.
TailAfterAny(w) == NoWriter

\* The tail once a call has ended: forgotten if the call is still the last.
TailAfter(w) == IF tail[HandleOf[w]] = w THEN NoWriter ELSE tail[HandleOf[w]]

\* The call ends, and its finally block releases its turn.
Settle(w, result) ==
  /\ phase' = [phase EXCEPT ![w] = result]
  /\ tail' = [tail EXCEPT ![HandleOf[w]] = TailAfter(w)]
  /\ UNCHANGED <<previous, conflicts>>

\* The last attempt finds the file locked, or BEGIN fails for another reason.
GiveUp(w) ==
  /\ phase[w] = "beginning"
  /\ Settle(w, "failed")

\* The callback returns and the transaction commits, or either throws.  Once
\* the callback has started nothing is retried.
Finish(w) ==
  /\ phase[w] = "inside"
  /\ \E result \in Over : Settle(w, result)

\* The process dies: its transaction is rolled back, its calls are gone, and
\* its successor starts with an empty chain.
Die(h) ==
  /\ \E w \in Writers :
       HandleOf[w] = h /\ phase[w] \in {"waiting", "beginning", "inside"}
  /\ tail' = [tail EXCEPT ![h] = NoWriter]
  /\ phase' = [w \in Writers |->
       IF HandleOf[w] = h /\ phase[w] \in {"waiting", "beginning", "inside"}
       THEN "failed" ELSE phase[w]]
  /\ UNCHANGED <<previous, conflicts>>

QueueNext ==
  \/ \E w \in Writers :
       Call(w) \/ TakeTurn(w) \/ Begin(w) \/ Busy(w) \/ GiveUp(w) \/ Finish(w)
  \/ \E h \in Handles : Die(h)

QueueSpec == QueueInit /\ [][QueueNext]_queueVars

-----------------------------------------------------------------------------

\* Of the calls made through one handle at most one is past its wait: the
\* chain keeps them apart although the map forgets its end as soon as the
\* last call is over (client.ts, withSqliteWriteTransaction).
WritersTakeTurns ==
  \A v, w \in Writers :
    /\ v # w /\ HandleOf[v] = HandleOf[w]
    /\ phase[v] \in {"beginning", "inside"}
    => phase[w] \notin {"beginning", "inside"}

=============================================================================
