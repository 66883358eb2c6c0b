---------------------------- MODULE WorkerProcess ----------------------------
(***************************************************************************)
(* The life of one worker process: runWorkerLifecycle                      *)
(* (apps/workflow-worker/src/worker-lifecycle.ts) over the tasks of        *)
(* local-worker.ts or hatchet-worker.ts.  The dispatch loop, the source    *)
(* scheduler and the metrics server run side by side and share one         *)
(* database handle with the handlers, which the dispatch loop runs itself  *)
(* or, under Hatchet, the engine's worker in its slots.                    *)
(***************************************************************************)
EXTENDS Naturals

CONSTANTS
  BatchSize,   \* events the dispatch loop claims at once
  Slots        \* handlers that the engine's worker runs at once

VARIABLES
  driver,      \* "local" or "hatchet"
  task,        \* what each background task does
  batch,       \* claimed events that the dispatch loop has still to handle
  running,     \* handlers in the slots of the engine's worker
  worker,      \* whether the worker handle is on, stopping, off or broken
  reading,     \* the metrics are being collected from the database
  armed,       \* signals whose listener (once) is still there
  firstStop,   \* what ended the race of the lifecycle
  life         \* where runWorkerLifecycle is

processVars == <<driver, task, batch, running, worker, reading, armed,
                 firstStop, life>>

Tasks == {"dispatcher", "scheduler", "metrics"}
Signals == {"SIGINT", "SIGTERM"}

ProcessParameters == BatchSize \in Nat \ {0} /\ Slots \in Nat

ProcessTypeOK ==
  /\ driver \in {"local", "hatchet"}
  /\ task \in [Tasks -> {"busy", "asleep", "returned", "rejected"}]
  /\ batch \in 0 .. BatchSize
  /\ running \in 0 .. Slots
  /\ worker \in {"on", "stopping", "off", "broken"}
  /\ reading \in BOOLEAN
  /\ armed \subseteq Signals
  /\ firstStop \in {"none", "signal", "component"}
  /\ life \in {"up", "draining", "ended", "ended with error", "killed"}

ProcessInit ==
  /\ driver \in {"local", "hatchet"}
  /\ task = [t \in Tasks |-> "busy"]
  /\ batch = 0
  /\ running = 0
  /\ worker = "on"
  /\ reading = FALSE
  /\ armed = Signals
  /\ firstStop = "none"
  /\ life = "up"

-----------------------------------------------------------------------------

Alive == life \in {"up", "draining"}

\* controller.abort() has been called.
Aborted == life = "draining"

Becomes(t, state) == task' = [task EXCEPT ![t] = state]

\* dispatchBatch, executeLocalBatch: the head of the loop finds no abort and
\* claims some events.
ClaimBatch ==
  /\ Alive
  /\ task["dispatcher"] = "busy" /\ batch = 0
  /\ ~Aborted
  /\ batch' \in 1 .. BatchSize
  /\ UNCHANGED <<driver, task, running, worker, reading, armed, firstStop, life>>

\* One event of the batch is over: its handler returns, or it is handed to
\* the engine.  Between two events nobody asks for the abort.
HandleEvent ==
  /\ Alive
  /\ batch > 0
  /\ batch' = batch - 1
  /\ UNCHANGED <<driver, task, running, worker, reading, armed, firstStop, life>>

\* A statement throws, and the rest of the batch is abandoned.
BatchFails ==
  /\ Alive
  /\ batch > 0
  /\ batch' = 0
  /\ Becomes("dispatcher", IF Aborted THEN "returned" ELSE "asleep")
  /\ UNCHANGED <<driver, running, worker, reading, armed, firstStop, life>>

Loops == {"dispatcher", "scheduler"}

\* Nothing was due, or the error of a pass is slept over.
Sleep(t) ==
  /\ Alive
  /\ task[t] = "busy" /\ (t = "dispatcher" => batch = 0)
  /\ ~Aborted
  /\ Becomes(t, "asleep")
  /\ UNCHANGED <<driver, batch, running, worker, reading, armed, firstStop, life>>

Wake(t) ==
  /\ Alive
  /\ task[t] = "asleep"
  /\ ~Aborted
  /\ Becomes(t, "busy")
  /\ UNCHANGED <<driver, batch, running, worker, reading, armed, firstStop, life>>

\* The abort ends the delay, or is met at the head of the loop.
Return(t) ==
  /\ Alive
  /\ Aborted
  /\ task[t] \in {"busy", "asleep"} /\ (t = "dispatcher" => batch = 0)
  /\ Becomes(t, "returned")
  /\ UNCHANGED <<driver, batch, running, worker, reading, armed, firstStop, life>>

\* A scrape starts one collection at a time; the answer may give up on it
\* (withTimeout) without ending it.
Scrape ==
  /\ Alive
  /\ task["metrics"] = "busy"
  /\ ~reading
  /\ reading' = TRUE
  /\ UNCHANGED <<driver, task, batch, running, worker, armed, firstStop, life>>

Collected ==
  /\ Alive
  /\ reading
  /\ reading' = FALSE
  /\ UNCHANGED <<driver, task, batch, running, worker, armed, firstStop, life>>

\* The server cannot listen, or fails: the only task that may reject.
MetricsFail ==
  /\ Alive
  /\ task["metrics"] = "busy"
  /\ Becomes("metrics", "rejected")
  /\ UNCHANGED <<driver, batch, running, worker, reading, armed, firstStop, life>>

\* The engine starts a handler in a free slot, and a handler returns.
StartHandler ==
  /\ Alive
  /\ driver = "hatchet"
  /\ worker = "on" /\ running < Slots
  /\ running' = running + 1
  /\ UNCHANGED <<driver, task, batch, worker, reading, armed, firstStop, life>>

EndHandler ==
  /\ Alive
  /\ running > 0
  /\ running' = running - 1
  /\ UNCHANGED <<driver, task, batch, worker, reading, armed, firstStop, life>>

\* The first signal of each kind requests the shutdown; another of the same
\* kind meets no listener and ends the process.
Signal(s) ==
  /\ Alive
  /\ IF s \in armed
     THEN /\ armed' = armed \ {s}
          /\ firstStop' = IF firstStop = "none" THEN "signal" ELSE firstStop
          /\ UNCHANGED life
     ELSE /\ life' = "killed"
          /\ UNCHANGED <<armed, firstStop>>
  /\ UNCHANGED <<driver, task, batch, running, worker, reading>>

\* A component that ends or rejects before any signal wins the race: a task,
\* or the engine's worker, but not the idle one.
ComponentStops ==
  /\ life = "up"
  /\ firstStop = "none"
  /\ \/ driver = "hatchet"
     \/ \E t \in Tasks : task[t] \in {"returned", "rejected"}
  /\ firstStop' = "component"
  /\ UNCHANGED <<driver, task, batch, running, worker, reading, armed, life>>

\* The finally block aborts the tasks and stops the worker.
Drain ==
  /\ life = "up"
  /\ firstStop # "none"
  /\ life' = "draining"
  /\ worker' = "stopping"
  /\ UNCHANGED <<driver, task, batch, running, reading, armed, firstStop>>

\* worker.stop() resolves: the engine's worker waits for its handlers.
WorkerStops ==
  /\ Alive
  /\ worker = "stopping"
  /\ running = 0
  /\ worker' = "off"
  /\ UNCHANGED <<driver, task, batch, running, reading, armed, firstStop, life>>

\* The engine's worker cannot be stopped, or fails meanwhile: the rejection
\* says nothing of its handlers.
WorkerBreaks ==
  /\ Alive
  /\ worker = "stopping" /\ driver = "hatchet"
  /\ worker' = "broken"
  /\ UNCHANGED <<driver, task, batch, running, reading, armed, firstStop, life>>

WorkerOver == worker \in {"off", "broken"}

\* Wrong variant: the first rejection ends the wait (Promise.all).
AllSettledOrRejected ==
  \/ WorkerOver /\ \A t \in Tasks : task[t] \in {"returned", "rejected"}
  \/ \E t \in Tasks : task[t] = "rejected"

\* Promise.allSettled over the worker's stop and every task.
AllSettled ==
  WorkerOver /\ \A t \in Tasks : task[t] \in {"returned", "rejected"}

\* The database is closed and the process ends, with an error if one was met.
End ==
  /\ life = "draining"
  /\ AllSettled
  /\ life' = IF \/ firstStop = "component" \/ worker = "broken"
                \/ \E t \in Tasks : task[t] = "rejected"
             THEN "ended with error" ELSE "ended"
  /\ UNCHANGED <<driver, task, batch, running, worker, reading, armed, firstStop>>

\* The host kills it, for instance at the end of its grace period.
Kill ==
  /\ Alive
  /\ life' = "killed"
  /\ UNCHANGED <<driver, task, batch, running, worker, reading, armed, firstStop>>

ProcessNext ==
  \/ ClaimBatch \/ HandleEvent \/ BatchFails
  \/ \E t \in Loops : Sleep(t) \/ Wake(t)
  \/ \E t \in Tasks : Return(t)
  \/ Collected \/ EndHandler \/ ComponentStops \/ Drain \/ WorkerStops \/ WorkerBreaks
  \/ End
  \/ Scrape \/ MetricsFail \/ StartHandler \/ Kill
  \/ \E s \in Signals : Signal(s)

ProcessSpec == ProcessInit /\ [][ProcessNext]_processVars

-----------------------------------------------------------------------------

\* The process closes its database only when neither loop can write through
\* it any more, and reports success only if it was asked to stop, nothing
\* failed on the way and no handler is left (runWorkerLifecycle).  A
\* collection of metrics that was given up may still be reading, and so may
\* the handlers of an engine's worker that could not be stopped.
DrainsBeforeItEnds ==
  life \in {"ended", "ended with error"} =>
    /\ batch = 0
    /\ \A t \in Loops : task[t] = "returned"
    /\ running > 0 => worker = "broken"
    /\ life = "ended" => /\ firstStop = "signal" /\ running = 0
                         /\ task["metrics"] = "returned"

=============================================================================
