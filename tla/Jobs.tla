-------------------------------- MODULE Jobs --------------------------------
(***************************************************************************)
(* tools/jobs/jobs.ts: instances of the Jobs class, the registry of        *)
(* instances, the package-level functions on the default instance, and the *)
(* test-mode flag of tools/utilities/mode.ts.                              *)
(*                                                                         *)
(* Every API call and every timer or promise callback is one atomic step   *)
(* of the event loop.  A tick of a job without a timeout calls the job's   *)
(* function at once; with a timeout, withTimeout defers the call to a      *)
(* microtask, races it against a timer, and leaves it running when the     *)
(* timer wins.                                                             *)
(*                                                                         *)
(* Cron and interval jobs are armed, paused, stopped and executed alike;   *)
(* which ticks of a cron job call #execute is the subject of CronJob, and  *)
(* here a tick that does not is a tick that did not happen: nothing makes  *)
(* a cron job's trigger match, not even in the end.                        *)
(***************************************************************************)
EXTENDS Integers, FiniteSets

CONSTANTS Instance,      \* objects of class Jobs
          Default,       \* defaultJobs, the one behind the package-level API
          Id,            \* job ids, given by the caller or drawn at random
          Control,       \* JobControl objects
          Cron,          \* those of kind "cron"; the others are of kind "interval"
          None,          \* no control: an absent key of #controls
          MaxAbandoned   \* bound: calls of one job that outlive their timeout

ASSUME InstanceAssumption == Default \in Instance
ASSUME ControlAssumption ==
  IsFiniteSet(Control) /\ None \notin Control /\ Cron \subseteq Control
ASSUME BoundAssumption == MaxAbandoned \in Nat

VARIABLES modeTest,   \* the flag of mode.ts
          registry,   \* the instances stopAllJobs and checkStatusJobs see
          created,    \* the instances that were constructed
          started,    \* #started of each instance
          controls,   \* #controls of each instance, from ids to controls
          job,        \* the fields of each control
          calls       \* the calls of each job's function, by phase

vars == <<modeTest, registry, created, started, controls, job, calls>>

(***************************************************************************)
(* armed: the control has a timer.  quiet is a history field: the job was  *)
(* registered on a started instance in test mode, so nothing armed it.     *)
(***************************************************************************)
JobControl == [timeout : BOOLEAN, armed : BOOLEAN, paused : BOOLEAN,
               stopped : BOOLEAN, running : BOOLEAN, quiet : BOOLEAN]

(***************************************************************************)
(* deferred: withTimeout has queued the call.  executing: the function is  *)
(* running and #execute awaits it.  settled: what #execute awaits is       *)
(* decided, its finally block is pending.  abandoned: the function still   *)
(* runs after its timeout.                                                 *)
(***************************************************************************)
NoCalls == [deferred |-> 0, executing |-> 0, settled |-> 0, abandoned |-> 0]

Registered(i) == {controls[i][id] : id \in Id} \ {None}

\* A control that nothing refers to any more, or that was never made.
Free(c) == calls[c] = NoCalls /\ \A i \in Instance : c \notin Registered(i)

Init ==
  /\ modeTest = FALSE
  /\ registry = {Default}
  /\ created = {Default}
  /\ started = [i \in Instance |-> FALSE]
  /\ controls = [i \in Instance |-> [id \in Id |-> None]]
  /\ job = [c \in Control |-> [timeout |-> FALSE, armed |-> FALSE, paused |-> FALSE,
                               stopped |-> FALSE, running |-> FALSE, quiet |-> FALSE]]
  /\ calls = [c \in Control |-> NoCalls]

-----------------------------------------------------------------------------
(* The API of an instance.                                                 *)

\* The constructor puts the instance in the registry.
NewJobs(i) ==
  /\ i \notin created
  /\ created' = created \cup {i}
  /\ registry' = registry \cup {i}
  /\ UNCHANGED <<modeTest, started, controls, job, calls>>

\* The control of a job that is registered now.
NewControl(i, timeout, armed) ==
  [timeout |-> timeout, armed |-> armed, paused |-> FALSE, stopped |-> FALSE,
   running |-> FALSE, quiet |-> started[i] /\ modeTest]

\* Mutant: no check for a duplicate id.
RegisterOver(i, id, c, timeout) ==
  /\ i \in created
  /\ Free(c)
  /\ c \in Cron => ~timeout
  /\ controls' = [controls EXCEPT ![i][id] = c]
  /\ job' = [job EXCEPT ![c] = NewControl(i, timeout, started[i] /\ ~modeTest)]
  /\ UNCHANGED <<modeTest, registry, created, started, calls>>

\* Mutant: a job registered on a started instance waits for startJobs.
RegisterUnarmed(i, id, c, timeout) ==
  /\ i \in created
  /\ controls[i][id] = None
  /\ Free(c)
  /\ c \in Cron => ~timeout
  /\ controls' = [controls EXCEPT ![i][id] = c]
  /\ job' = [job EXCEPT ![c] = NewControl(i, timeout, FALSE)]
  /\ UNCHANGED <<modeTest, registry, created, started, calls>>

(***************************************************************************)
(* job and cronJob draw a fresh id; jobWithID and cronJobWithID throw on   *)
(* one that is taken.  The job is armed now only on a started instance     *)
(* outside test mode.  Cron jobs have no timeout.                          *)
(***************************************************************************)
Register(i, id, c, timeout) ==
  /\ i \in created
  /\ controls[i][id] = None
  /\ Free(c)
  /\ c \in Cron => ~timeout
  /\ controls' = [controls EXCEPT ![i][id] = c]
  /\ job' = [job EXCEPT ![c] = NewControl(i, timeout, started[i] /\ ~modeTest)]
  /\ UNCHANGED <<modeTest, registry, created, started, calls>>

StartJobs(i) ==
  /\ i \in created
  /\ ~started[i] /\ ~modeTest
  /\ started' = [started EXCEPT ![i] = TRUE]
  /\ job' = [c \in Control |->
               IF c \in Registered(i) THEN [job[c] EXCEPT !.armed = TRUE] ELSE job[c]]
  /\ UNCHANGED <<modeTest, registry, created, controls, calls>>

\* Mutant: the timer is not cleared.
StoppedStillArmed(S) ==
  [c \in Control |-> IF c \in S THEN [job[c] EXCEPT !.stopped = TRUE] ELSE job[c]]

\* The fields of the controls once those in S are stopped and disarmed.
Stopped(S) ==
  [c \in Control |-> IF c \in S THEN [job[c] EXCEPT !.stopped = TRUE, !.armed = FALSE]
                     ELSE job[c]]

StopJob(i, id) ==
  /\ controls[i][id] # None
  /\ job' = Stopped({controls[i][id]})
  /\ controls' = [controls EXCEPT ![i][id] = None]
  /\ UNCHANGED <<modeTest, registry, created, started, calls>>

PauseJob(i, id) ==
  /\ controls[i][id] # None
  /\ job' = [job EXCEPT ![controls[i][id]].paused = TRUE]
  /\ UNCHANGED <<modeTest, registry, created, started, controls, calls>>

ResumeJob(i, id) ==
  /\ controls[i][id] # None
  /\ job' = [job EXCEPT ![controls[i][id]].paused = FALSE]
  /\ UNCHANGED <<modeTest, registry, created, started, controls, calls>>

\* The effect of destroy() on each of the instances S.
DestroyAll(S) ==
  /\ job' = Stopped(UNION {Registered(i) : i \in S})
  /\ controls' = [i \in Instance |-> IF i \in S THEN [id \in Id |-> None] ELSE controls[i]]
  /\ registry' = registry \ S

Destroy(i) ==
  /\ i \in created
  /\ DestroyAll({i})
  /\ started' = [started EXCEPT ![i] = FALSE]
  /\ UNCHANGED <<modeTest, created, calls>>

-----------------------------------------------------------------------------
(* The package-level API and the test mode.                                *)

\* destroy, then startJobs, which finds no job left to arm.
RestartJobs ==
  /\ DestroyAll({Default})
  /\ started' = [started EXCEPT ![Default] = ~modeTest]
  /\ UNCHANGED <<modeTest, created, calls>>

StopAllJobs ==
  /\ DestroyAll(registry)
  /\ started' = [i \in Instance |-> IF i \in registry THEN FALSE ELSE started[i]]
  /\ UNCHANGED <<modeTest, created, calls>>

SetModeTest(on) ==
  /\ modeTest' = on
  /\ UNCHANGED <<registry, created, started, controls, job, calls>>

-----------------------------------------------------------------------------
(* Ticks and calls.                                                        *)

\* One call of c moves from one phase to another, in a step of #execute.
Move(c, from, to) ==
  /\ calls[c][from] > 0
  /\ calls' = [calls EXCEPT ![c][from] = @ - 1, ![c][to] = @ + 1]

\* The timer of c fires and #execute goes past its first line.
Tick(c) ==
  /\ job[c].armed
  /\ ~job[c].paused /\ ~job[c].stopped /\ ~job[c].running
  /\ calls[c].abandoned < MaxAbandoned
  /\ job' = [job EXCEPT ![c].running = TRUE]
  /\ calls' = IF job[c].timeout THEN [calls EXCEPT ![c].deferred = @ + 1]
              ELSE [calls EXCEPT ![c].executing = @ + 1]
  /\ UNCHANGED <<modeTest, registry, created, started, controls>>

StartCall(c) ==
  /\ Move(c, "deferred", "executing")
  /\ UNCHANGED <<modeTest, registry, created, started, controls, job>>

\* The function returns, resolves, throws or rejects.
SettleCall(c) ==
  /\ Move(c, "executing", "settled")
  /\ UNCHANGED <<modeTest, registry, created, started, controls, job>>

\* Mutant: the timer is cleared as soon as the function is called.
TimeoutClearedEarly(c) ==
  /\ job[c].timeout
  /\ calls[c].deferred > 0
  /\ calls' = [calls EXCEPT ![c].deferred = @ - 1, ![c].settled = @ + 1]
  /\ UNCHANGED <<modeTest, registry, created, started, controls, job>>

\* The timer of withTimeout rejects; nothing stops the function.
TimeoutCall(c) ==
  /\ job[c].timeout
  /\ calls[c].executing > 0
  /\ calls' = [calls EXCEPT ![c].executing = @ - 1, ![c].settled = @ + 1,
                            ![c].abandoned = @ + 1]
  /\ UNCHANGED <<modeTest, registry, created, started, controls, job>>

\* Mutant: the flag is cleared when the function ends, not when what #execute awaits does.
AbandonedEndClears(c) ==
  /\ calls[c].abandoned > 0
  /\ calls' = [calls EXCEPT ![c].abandoned = @ - 1]
  /\ job' = [job EXCEPT ![c].running = FALSE]
  /\ UNCHANGED <<modeTest, registry, created, started, controls>>

AbandonedCallEnds(c) ==
  /\ calls[c].abandoned > 0
  /\ calls' = [calls EXCEPT ![c].abandoned = @ - 1]
  /\ UNCHANGED <<modeTest, registry, created, started, controls, job>>

\* Mutant: no finally block.
EndCallStillRunning(c) ==
  /\ calls[c].settled > 0
  /\ calls' = [calls EXCEPT ![c].settled = @ - 1]
  /\ UNCHANGED <<modeTest, registry, created, started, controls, job>>

\* The finally block of #execute.
EndCall(c) ==
  /\ calls[c].settled > 0
  /\ calls' = [calls EXCEPT ![c].settled = @ - 1]
  /\ job' = [job EXCEPT ![c].running = FALSE]
  /\ UNCHANGED <<modeTest, registry, created, started, controls>>

-----------------------------------------------------------------------------
Next ==
  \/ \E i \in Instance : NewJobs(i) \/ StartJobs(i) \/ Destroy(i)
  \/ \E i \in Instance, id \in Id : StopJob(i, id) \/ PauseJob(i, id) \/ ResumeJob(i, id)
  \/ \E i \in Instance, id \in Id, c \in Control, timeout \in BOOLEAN :
       Register(i, id, c, timeout)
  \/ RestartJobs
  \/ StopAllJobs
  \/ \E on \in BOOLEAN : SetModeTest(on)
  \/ \E c \in Control : \/ Tick(c) \/ StartCall(c) \/ SettleCall(c) \/ TimeoutCall(c)
                        \/ AbandonedCallEnds(c) \/ EndCall(c)

Spec == Init /\ [][Next]_vars

(***************************************************************************)
(* Timers fire and microtasks run.  Of the jobs' functions, only those     *)
(* registered without a timeout are taken to settle in the end.  A tick    *)
(* gets to #execute again and again only in an interval job: that of a     *)
(* cron job does so at the seconds of its trigger, which may be past.      *)
(***************************************************************************)
Fairness ==
  /\ \A c \in Control \ Cron : WF_vars(Tick(c))
  /\ \A c \in Control : /\ WF_vars(StartCall(c))
                        /\ WF_vars(TimeoutCall(c))
                        /\ WF_vars(EndCall(c))
                        /\ WF_vars(~job[c].timeout /\ SettleCall(c))

FairSpec == Spec /\ Fairness

-----------------------------------------------------------------------------
(* Properties.                                                             *)

\* Every variable keeps its type, and the bound on abandoned calls holds.
TypeOK ==
  /\ modeTest \in BOOLEAN
  /\ created \subseteq Instance /\ registry \subseteq created
  /\ started \in [Instance -> BOOLEAN]
  /\ controls \in [Instance -> [Id -> Control \cup {None}]]
  /\ job \in [Control -> JobControl]
  /\ calls \in [Control -> [deferred : Nat, executing : Nat, settled : Nat,
                            abandoned : 0..MaxAbandoned]]

(***************************************************************************)
(* No timer leaks: an armed control is a live entry of exactly one map,    *)
(* under one id, of a started instance, so stopJob and destroy can always  *)
(* reach its timer; and nothing that was stopped is still in a map.        *)
(***************************************************************************)
NoLeakedTimer ==
  /\ \A c \in Control : job[c].armed => \E i \in created : started[i] /\ c \in Registered(i)
  /\ \A i \in Instance, id \in Id : controls[i][id] # None =>
       /\ ~job[controls[i][id]].stopped
       /\ \A j \in Instance, other \in Id :
            controls[j][other] = controls[i][id] => i = j /\ id = other

(***************************************************************************)
(* JobStatus.running says that #execute awaits a call, and there is never  *)
(* a second one: a slow job skips ticks, it does not overlap with itself.  *)
(* A call that a timeout abandoned may run on beside the next, and its end *)
(* is not taken for the next one's.                                        *)
(***************************************************************************)
OneAwaitedCall ==
  \A c \in Control :
    LET awaited == calls[c].deferred + calls[c].executing + calls[c].settled
    IN  /\ awaited = IF job[c].running THEN 1 ELSE 0
        /\ ~job[c].timeout => calls[c].abandoned = 0

(***************************************************************************)
(* On a started instance every job has its timer, but for the jobs that    *)
(* were registered while the instance was started and test mode was on.    *)
(***************************************************************************)
StartedJobsArmed ==
  \A i \in Instance : started[i] =>
    \A c \in Registered(i) : job[c].armed \/ job[c].quiet

(***************************************************************************)
(* No call of a job begins after stopJob, destroy, restartJobs or          *)
(* stopAllJobs returned, but for the one that withTimeout had already put  *)
(* on the microtask queue.                                                 *)
(***************************************************************************)
StoppedStaysStopped ==
  [][\A c \in Control :
       job[c].stopped /\ job'[c].stopped
         => /\ ~job'[c].armed
            /\ calls'[c].deferred + calls'[c].executing + calls'[c].abandoned
                 <= calls[c].deferred + calls[c].executing + calls[c].abandoned]_vars

(***************************************************************************)
(* A job never hangs in the running state, even if its function never      *)
(* settles, as long as it has a timeout.                                   *)
(***************************************************************************)
RunningEnds == \A c \in Control : job[c].running ~> ~job[c].running

(***************************************************************************)
(* An interval job without a timeout that from some moment on is armed and *)
(* not paused is called again and again.                                   *)
(***************************************************************************)
JobRecurs ==
  \A c \in Control \ Cron :
    <>[](job[c].armed /\ ~job[c].paused /\ ~job[c].timeout) => []<>(calls[c].executing > 0)

(***************************************************************************)
(* "a global registry so stopAllJobs can halt every instance" (the         *)
(* module's comment, jobs.ts:9-10): an instance with an armed job is in    *)
(* the registry that stopAllJobs goes through.                             *)
(***************************************************************************)
StopAllReachesEveryInstance ==
  \A i \in Instance : (\E c \in Registered(i) : job[c].armed) => i \in registry

=============================================================================
