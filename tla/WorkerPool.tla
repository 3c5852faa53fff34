----------------------------- MODULE WorkerPool -----------------------------
(***************************************************************************)
(* tools/workers/workers.ts: the module-level worker loop.                 *)
(*                                                                         *)
(* The code is single-threaded: a call of the API, and each callback of a  *)
(* promise chain, is one atomic step.  pump() launches a task by           *)
(*   Promise.resolve().then(task).catch(log).finally(finished)             *)
(* so a launched task starts in a later microtask (StartTask), settles     *)
(* when its own promise does (SettleTask), and only then runs the finally  *)
(* callback (FinishTask).  API calls come between any two of these steps,  *)
(* from other code or from the tasks themselves.                           *)
(*                                                                         *)
(* Task is the set of queue entries that can exist at one time: the same   *)
(* function queued twice is two entries, and an entry that finished or was *)
(* dropped is idle and can be added again.                                 *)
(***************************************************************************)
EXTENDS Integers, Sequences, FiniteSets, SequencesExt

CONSTANTS Task,           \* queue entries
          LimitArg,       \* arguments callers give setWorkersLimit
          DefaultLimit    \* DEFAULT_WORKER_LIMIT

ASSUME TaskAssumption == IsFiniteSet(Task)
ASSUME LimitAssumption == LimitArg \subseteq Int /\ DefaultLimit \in Nat \ {0}

VARIABLES limit, queue, active, running,   \* the four module variables
          ready,      \* launched tasks whose then(task) microtask is pending
          stage,      \* where each entry is
          forgotten   \* history: tasks in flight when resetWorkers zeroed active

vars == <<limit, queue, active, running, ready, stage, forgotten>>

Stage == {"idle", "queued", "launched", "executing", "fulfilled", "rejected"}

InFlightStage == {"launched", "executing", "fulfilled", "rejected"}

\* Tasks pump has launched and whose finally callback has not run.
InFlight == {t \in Task : stage[t] \in InFlightStage}

\* Tasks whose own code is running or awaiting something.
Executing == {t \in Task : stage[t] = "executing"}

Init ==
  /\ limit = DefaultLimit
  /\ queue = <<>>
  /\ active = 0
  /\ running = FALSE
  /\ ready = <<>>
  /\ stage = [t \in Task |-> "idle"]
  /\ forgotten = 0

-----------------------------------------------------------------------------
\* Mutant: while (active <= limit).
LaunchesOneTooMany(run, q, a, l) ==
  IF ~run \/ a > l THEN 0
  ELSE IF l - a + 1 < Len(q) THEN l - a + 1 ELSE Len(q)

(***************************************************************************)
(* pump(): the while loop in closed form.  With run, a and l the values of *)
(* running, active and limit, it shifts one entry per round for as long as *)
(* the pool runs, active < limit, and the queue is not empty.              *)
(***************************************************************************)
Launches(run, q, a, l) ==
  IF ~run \/ a >= l THEN 0
  ELSE IF l - a < Len(q) THEN l - a ELSE Len(q)

\* Mutant: queue.pop() for queue.shift().
PumpNewest(run, q, a, l, st) ==
  LET n == Launches(run, q, a, l)
      launched == SubSeq(q, Len(q) - n + 1, Len(q))
  IN  /\ queue' = SubSeq(q, 1, Len(q) - n)
      /\ ready' = ready \o launched
      /\ active' = a + n
      /\ stage' = [t \in Task |-> IF t \in ToSet(launched) THEN "launched"
                                  ELSE st[t]]

\* Mutant: queue[0] for queue.shift(), so the entry stays.
PumpPeeks(run, q, a, l, st) ==
  LET n == Launches(run, q, a, l)
      launched == SubSeq(q, 1, n)
  IN  /\ queue' = q
      /\ ready' = ready \o launched
      /\ active' = a + n
      /\ stage' = [t \in Task |-> IF t \in ToSet(launched) THEN "launched"
                                  ELSE st[t]]

Pump(run, q, a, l, st) ==
  LET n == Launches(run, q, a, l)
      launched == SubSeq(q, 1, n)
  IN  /\ queue' = SubSeq(q, n + 1, Len(q))
      /\ ready' = ready \o launched
      /\ active' = a + n
      /\ stage' = [t \in Task |-> IF t \in ToSet(launched) THEN "launched"
                                  ELSE st[t]]

-----------------------------------------------------------------------------
(* The API.                                                                *)

AddTask(t) ==
  /\ stage[t] = "idle"
  /\ Pump(running, Append(queue, t), active, limit,
          [stage EXCEPT ![t] = "queued"])
  /\ UNCHANGED <<limit, running, forgotten>>

\* Mutant: the new limit waits for the next pump.
SetWorkersLimitLater(v) ==
  /\ limit' = IF v <= 0 THEN DefaultLimit ELSE v
  /\ UNCHANGED <<queue, active, running, ready, stage, forgotten>>

SetWorkersLimit(v) ==
  /\ limit' = IF v <= 0 THEN DefaultLimit ELSE v
  /\ Pump(running, queue, active, limit', stage)
  /\ UNCHANGED <<running, forgotten>>

RunWorkers ==
  /\ ~running
  /\ running' = TRUE
  /\ Pump(TRUE, queue, active, limit, stage)
  /\ UNCHANGED <<limit, forgotten>>

StopWorkers ==
  /\ running' = FALSE
  /\ UNCHANGED <<limit, queue, active, ready, stage, forgotten>>

\* stopWorkers() then runWorkers(), in one turn.
RestartWorkers ==
  /\ running' = TRUE
  /\ Pump(TRUE, queue, active, limit, stage)
  /\ UNCHANGED <<limit, forgotten>>

ResetWorkers ==
  /\ running' = FALSE
  /\ queue' = <<>>
  /\ active' = 0
  /\ limit' = DefaultLimit
  /\ stage' = [t \in Task |-> IF stage[t] = "queued" THEN "idle" ELSE stage[t]]
  /\ forgotten' = Cardinality(InFlight)
  /\ UNCHANGED ready

-----------------------------------------------------------------------------
(* The promise chain of one launched task.                                 *)

\* The microtasks run in the order pump queued them.
StartTask ==
  /\ ready # <<>>
  /\ stage' = [stage EXCEPT ![Head(ready)] = "executing"]
  /\ ready' = Tail(ready)
  /\ UNCHANGED <<limit, queue, active, running, forgotten>>

\* The task returns or resolves, or it throws or rejects and catch() logs it.
SettleTask(t, outcome) ==
  /\ stage[t] = "executing"
  /\ stage' = [stage EXCEPT ![t] = outcome]
  /\ UNCHANGED <<limit, queue, active, running, ready, forgotten>>

\* Mutant: then() for finally(), so a rejected task keeps its slot.
FinishIfFulfilled(t) ==
  /\ stage[t] \in {"fulfilled", "rejected"}
  /\ Pump(running, queue, IF stage[t] = "fulfilled" THEN active - 1 ELSE active, limit,
          [stage EXCEPT ![t] = "idle"])
  /\ UNCHANGED <<limit, running, forgotten>>

\* Mutant: the slot is freed and nobody pumps.
FinishWithoutPump(t) ==
  /\ stage[t] \in {"fulfilled", "rejected"}
  /\ active' = active - 1
  /\ stage' = [stage EXCEPT ![t] = "idle"]
  /\ UNCHANGED <<limit, queue, running, ready, forgotten>>

\* The finally callback, which runs for either outcome.
FinishTask(t) ==
  /\ stage[t] \in {"fulfilled", "rejected"}
  /\ Pump(running, queue, active - 1, limit, [stage EXCEPT ![t] = "idle"])
  /\ UNCHANGED <<limit, running, forgotten>>

-----------------------------------------------------------------------------
Next ==
  \/ \E t \in Task : AddTask(t)
  \/ \E v \in LimitArg : SetWorkersLimit(v)
  \/ RunWorkers
  \/ StopWorkers
  \/ RestartWorkers
  \/ ResetWorkers
  \/ StartTask
  \/ \E t \in Task, outcome \in {"fulfilled", "rejected"} : SettleTask(t, outcome)
  \/ \E t \in Task : FinishTask(t)

Spec == Init /\ [][Next]_vars

(***************************************************************************)
(* The event loop runs every microtask, and every task is taken to settle  *)
(* in the end.  Nothing is assumed of the callers of the API.              *)
(***************************************************************************)
Fairness ==
  /\ WF_vars(StartTask)
  /\ \A t \in Task :
       /\ WF_vars(\E outcome \in {"fulfilled", "rejected"} : SettleTask(t, outcome))
       /\ WF_vars(FinishTask(t))

FairSpec == Spec /\ Fairness

-----------------------------------------------------------------------------
(* Properties.                                                             *)

(***************************************************************************)
(* Every variable keeps its type.  limit stays positive because            *)
(* setWorkersLimit falls back to the default; active is an integer, not a  *)
(* natural number: see Accounting.                                         *)
(***************************************************************************)
TypeOK ==
  /\ limit \in Nat \ {0}
  /\ queue \in Seq(Task)
  /\ active \in Int
  /\ running \in BOOLEAN
  /\ ready \in Seq(Task)
  /\ stage \in [Task -> Stage]
  /\ forgotten \in Nat

(***************************************************************************)
(* active is the number of tasks in flight, less those that resetWorkers   *)
(* forgot.  The difference stays until the next reset, however many of     *)
(* those tasks finish in between (their finally callbacks decrement a      *)
(* counter that no longer counts them), so the counter may be negative.    *)
(***************************************************************************)
Accounting == active = Cardinality(InFlight) - forgotten

(***************************************************************************)
(* A running pool never leaves a task waiting while it has capacity: each  *)
(* way of gaining capacity or work (addTask, setWorkersLimit, runWorkers,  *)
(* restartWorkers and the finally callback) pumps before it returns.       *)
(***************************************************************************)
WorkConserving == running /\ queue # <<>> => active >= limit

(***************************************************************************)
(* The queue and the microtask queue hold each entry once, and hold        *)
(* exactly the entries whose stage says so: no entry is lost, run twice,   *)
(* or both waiting and running.                                            *)
(***************************************************************************)
QueuesMatchStages ==
  /\ IsInjective(queue) /\ ToSet(queue) = {t \in Task : stage[t] = "queued"}
  /\ IsInjective(ready) /\ ToSet(ready) = {t \in Task : stage[t] = "launched"}

(***************************************************************************)
(* A step that launches tasks leaves at most limit in flight, beside the   *)
(* ones the last reset forgot.  Lowering the limit cancels nothing, so     *)
(* this is a property of steps and not of states.                          *)
(***************************************************************************)
LaunchWithinLimit ==
  [][~(InFlight' \subseteq InFlight)
       => Cardinality(InFlight') <= limit' + forgotten']_vars

(***************************************************************************)
(* If the pool is running again and again, every queued task leaves the    *)
(* queue, whatever stops, restarts and limit changes come in between.      *)
(***************************************************************************)
NoStarvation ==
  []<>running => \A t \in Task : (stage[t] = "queued") ~> (stage[t] # "queued")

\* The abstract pool: an entry is busy from its launch to its finally callback.
Pool == INSTANCE TaskPool
          WITH waiting <- queue, busy <- InFlight, open <- running, extra <- forgotten

(***************************************************************************)
(* The worker loop is a bounded first-in first-out pool that keeps no task *)
(* waiting without need; the tasks a reset forgot run beside its limit.    *)
(***************************************************************************)
ImplementsPool == Pool!Spec
=============================================================================
