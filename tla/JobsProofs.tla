----------------------------- MODULE JobsProofs -----------------------------
(***************************************************************************)
(* Proofs about the scheduler of tools/jobs/jobs.ts, for every set of      *)
(* instances, ids and controls and any number of abandoned calls; and      *)
(* about the polling of its cron jobs, for seconds of any number of units, *)
(* any triggers and intervals, and any lateness of the event loop that the *)
(* statement names.                                                        *)
(***************************************************************************)
EXTENDS Jobs, CronJob, TLAPS

(***************************************************************************)
(* Only an instance that was constructed has jobs.  NoLeakedTimer needs    *)
(* it: startJobs arms what is registered, on a created instance.           *)
(***************************************************************************)
Homes == \A i \in Instance, id \in Id : controls[i][id] # None => i \in created

(***************************************************************************)
(* Types, and what is registered where.                                    *)
(***************************************************************************)
Registry == TypeOK /\ Homes /\ NoLeakedTimer

(***************************************************************************)
(* The calls of each job: OneAwaitedCall, and the bound on abandoned calls *)
(* leaves room for the call that is awaited, should it time out.           *)
(***************************************************************************)
CallsCounted ==
  /\ OneAwaitedCall
  /\ \A c \in Control : calls[c].deferred + calls[c].executing > 0
                       => calls[c].abandoned < MaxAbandoned

-----------------------------------------------------------------------------
(* The operators of the module.                                            *)

\* What Registered returns: the controls that the map of i holds.
LEMMA RegisteredIs ==
  ASSUME NEW i \in Instance, NEW c \in Control
  PROVE  c \in Registered(i) <=> \E id \in Id : controls[i][id] = c
BY ControlAssumption DEF Registered

\* What clearing the timers of the controls in S does to each control.
LEMMA StoppedFields ==
  ASSUME job \in [Control -> JobControl], NEW S
  PROVE  /\ Stopped(S) \in [Control -> JobControl]
         /\ \A c \in Control :
              /\ c \in S => ~Stopped(S)[c].armed /\ Stopped(S)[c].stopped
              /\ c \notin S => Stopped(S)[c] = job[c]
              /\ Stopped(S)[c].running = job[c].running
              /\ Stopped(S)[c].timeout = job[c].timeout
<1>1. \A d \in Control : [job[d] EXCEPT !.stopped = TRUE, !.armed = FALSE] \in JobControl
  BY DEF JobControl
<1>2. Stopped(S) \in [Control -> JobControl]
  BY <1>1 DEF Stopped
<1>3. QED
  BY <1>2 DEF Stopped, JobControl

\* The fields of a control and of its calls.
LEMMA FieldTypes ==
  ASSUME TypeOK, NEW c \in Control
  PROVE  /\ calls[c].deferred \in Nat /\ calls[c].executing \in Nat
         /\ calls[c].settled \in Nat /\ calls[c].abandoned \in 0..MaxAbandoned
         /\ job[c].running \in BOOLEAN /\ job[c].timeout \in BOOLEAN
BY DEF TypeOK, JobControl

\* A job with a call that is awaited is running, and has one such call.
LEMMA AwaitedIsOne ==
  ASSUME TypeOK, CallsCounted, NEW c \in Control
  PROVE  /\ ~job[c].running => calls[c].deferred = 0 /\ calls[c].executing = 0
                                /\ calls[c].settled = 0
         /\ calls[c].executing > 0 => calls[c].deferred = 0 /\ calls[c].executing = 1
                                      /\ calls[c].settled = 0
         /\ calls[c].settled > 0 => calls[c].deferred = 0 /\ calls[c].executing = 0
                                    /\ calls[c].settled = 1
<1> DEFINE awaited == calls[c].deferred + calls[c].executing + calls[c].settled
<1>1. awaited \in {0, 1} /\ (~job[c].running => awaited = 0)
  BY DEF CallsCounted, OneAwaitedCall
<1>2. QED BY <1>1, FieldTypes

\* Pausing and resuming write the paused flag of a registered control.
LEMMA PauseWrites ==
  ASSUME TypeOK, NEW i \in Instance, NEW id \in Id, PauseJob(i, id) \/ ResumeJob(i, id)
  PROVE  \E c \in Control, flag \in BOOLEAN : job' = [job EXCEPT ![c].paused = flag]
<1>1. controls[i][id] \in Control
  BY DEF TypeOK, PauseJob, ResumeJob
<1>2. CASE PauseJob(i, id)
  BY <1>1, <1>2 DEF PauseJob
<1>3. CASE ResumeJob(i, id)
  BY <1>1, <1>3 DEF ResumeJob
<1>4. QED BY <1>2, <1>3

\* Counting a call in another phase keeps the type.
LEMMA MoveTypes ==
  ASSUME TypeOK, NEW c \in Control,
         NEW from \in {"deferred", "executing"}, NEW to \in {"executing", "settled"},
         from # to, Move(c, from, to)
  PROVE  /\ calls' \in [Control -> [deferred : Nat, executing : Nat, settled : Nat,
                                    abandoned : 0..MaxAbandoned]]
         /\ calls'[c].deferred + calls'[c].executing + calls'[c].settled
              = calls[c].deferred + calls[c].executing + calls[c].settled
         /\ calls'[c].abandoned = calls[c].abandoned
         /\ calls'[c].deferred + calls'[c].executing <= calls[c].deferred + calls[c].executing
         /\ \A d \in Control : d # c => calls'[d] = calls[d]
<1>1. CASE from = "deferred" /\ to = "executing"
  BY <1>1 DEF TypeOK, Move
<1>2. CASE from = "deferred" /\ to = "settled"
  BY <1>2 DEF TypeOK, Move
<1>3. CASE from = "executing" /\ to = "settled"
  BY <1>3 DEF TypeOK, Move
<1>4. QED BY <1>1, <1>2, <1>3
-----------------------------------------------------------------------------
(* Types and the registry of timers.                                       *)

\* Nothing is registered or armed at the start.
LEMMA InitRegistry == Init => Registry
<1> SUFFICES ASSUME Init PROVE Registry
  OBVIOUS
<1>1. job \in [Control -> JobControl] /\ \A c \in Control : ~job[c].armed
  BY DEF Init, JobControl
<1>2. calls \in [Control -> [deferred : Nat, executing : Nat, settled : Nat,
                            abandoned : 0..MaxAbandoned]]
  BY BoundAssumption DEF Init, NoCalls
<1>3. TypeOK
  BY <1>1, <1>2, InstanceAssumption DEF Init, TypeOK
<1>4. Homes /\ NoLeakedTimer
  BY <1>1 DEF Init, Homes, NoLeakedTimer
<1>5. QED BY <1>3, <1>4 DEF Registry

\* A job that is registered gets a control that nothing else refers to.
LEMMA RegisterRegistry ==
  ASSUME Registry, NEW i \in Instance, NEW id \in Id, NEW c \in Control,
         NEW timeout \in BOOLEAN, Register(i, id, c, timeout)
  PROVE  Registry'
<1> USE DEF Registry
<1>1. /\ controls' \in [Instance -> [Id -> Control \cup {None}]]
      /\ controls'[i][id] = c
      /\ \A j \in Instance, other \in Id :
           (j # i \/ other # id) => controls'[j][other] = controls[j][other]
  BY DEF Register, TypeOK
<1>2. \A j \in Instance, other \in Id : controls[j][other] # c
  BY RegisteredIs DEF Register, Free
<1>3. NewControl(i, timeout, started[i] /\ ~modeTest) \in JobControl
  BY DEF NewControl, JobControl, TypeOK
<1>4. /\ job' \in [Control -> JobControl]
      /\ job'[c].armed = (started[i] /\ ~modeTest) /\ ~job'[c].stopped
      /\ \A d \in Control : d # c => job'[d] = job[d]
  BY <1>3 DEF Register, TypeOK, NewControl
<1>5. TypeOK' /\ Homes'
  BY <1>1, <1>4 DEF Register, TypeOK, Homes
<1>6. ASSUME NEW d \in Control, job'[d].armed
      PROVE  \E j \in created' : started'[j] /\ d \in Registered(j)'
  <2>1. CASE d = c
    <3>1. started[i] /\ i \in created /\ c \in Registered(i)'
      BY <2>1, <1>6, <1>4, <1>1, ControlAssumption DEF Register, Registered
    <3>2. QED BY <3>1, <2>1 DEF Register
  <2>2. CASE d # c
    <3>1. PICK j \in created : started[j] /\ d \in Registered(j)
      BY <2>2, <1>6, <1>4 DEF NoLeakedTimer
    <3>2. PICK other \in Id : controls[j][other] = d
      BY <3>1, RegisteredIs DEF TypeOK
    <3>3. controls'[j][other] = d
      BY <3>1, <3>2, <1>1, ControlAssumption DEF Register, TypeOK
    <3>4. QED BY <3>1, <3>3, ControlAssumption DEF Register, Registered
  <2>3. QED BY <2>1, <2>2
<1>7. ASSUME NEW j \in Instance, NEW other \in Id, controls'[j][other] # None
      PROVE  /\ ~job'[controls'[j][other]].stopped
             /\ \A k \in Instance, third \in Id :
                  controls'[k][third] = controls'[j][other] => j = k /\ other = third
  <2>1. CASE j = i /\ other = id
    BY <2>1, <1>1, <1>2, <1>4
  <2>2. CASE j # i \/ other # id
    BY <2>2, <1>7, <1>1, <1>2, <1>4 DEF NoLeakedTimer, TypeOK
  <2>3. QED BY <2>1, <2>2
<1>8. QED BY <1>5, <1>6, <1>7 DEF NoLeakedTimer

\* Stopping the controls in S and taking exactly those out of the maps.
LEMMA StopRegistry ==
  ASSUME Registry, NEW S \in SUBSET Control,
         job' = Stopped(S),
         controls' \in [Instance -> [Id -> Control \cup {None}]],
         \A i \in Instance, id \in Id :
           controls'[i][id] = IF controls[i][id] \in S THEN None ELSE controls[i][id],
         UNCHANGED <<modeTest, created, calls>>,
         registry' \subseteq registry,
         started' \in [Instance -> BOOLEAN],
         \A i \in Instance : started[i] /\ ~started'[i] => Registered(i) \subseteq S
  PROVE  Registry'
<1> USE DEF Registry
<1>1. TypeOK'
  BY StoppedFields DEF TypeOK
<1>2. Homes'
  BY DEF Homes
<1>3. ASSUME NEW c \in Control, job'[c].armed
      PROVE  \E i \in created' : started'[i] /\ c \in Registered(i)'
  <2>1. c \notin S /\ job[c].armed
    BY <1>3, StoppedFields DEF TypeOK
  <2>2. PICK i \in created : started[i] /\ c \in Registered(i)
    BY <2>1 DEF NoLeakedTimer
  <2>3. i \in Instance
    BY DEF TypeOK
  <2>4. PICK id \in Id : controls[i][id] = c
    BY <2>2, <2>3, RegisteredIs
  <2>5. controls'[i][id] = c
    BY <2>1, <2>3, <2>4
  <2>6. started'[i]
    BY <2>1, <2>2, <2>3 DEF TypeOK
  <2>7. QED BY <2>5, <2>6, ControlAssumption DEF Registered
<1>4. ASSUME NEW i \in Instance, NEW id \in Id, controls'[i][id] # None
      PROVE  /\ ~job'[controls'[i][id]].stopped
             /\ \A j \in Instance, other \in Id :
                  controls'[j][other] = controls'[i][id] => i = j /\ id = other
  <2>1. controls'[i][id] = controls[i][id] /\ controls[i][id] \in Control \ S
    BY <1>4, ControlAssumption DEF TypeOK
  <2>2. job'[controls[i][id]] = job[controls[i][id]]
    BY <2>1, StoppedFields DEF TypeOK
  <2>3. \A j \in Instance, other \in Id :
          controls'[j][other] = controls'[i][id] => controls[j][other] = controls[i][id]
    BY <2>1, <1>4
  <2>4. QED BY <2>1, <2>2, <2>3, <1>4 DEF NoLeakedTimer
<1>5. QED BY <1>1, <1>2, <1>3, <1>4 DEF NoLeakedTimer

\* What leaves the maps, the timers and the stopped flags alone.
LEMMA KeepRegistry ==
  ASSUME Registry, UNCHANGED <<controls, started>>,
         created \subseteq created', created' \subseteq Instance,
         \A c \in Control : job'[c].armed = job[c].armed /\ job'[c].stopped = job[c].stopped
  PROVE  Homes' /\ NoLeakedTimer'
<1>1. Homes'
  BY DEF Registry, Homes
<1>2. ASSUME NEW c \in Control, job'[c].armed
      PROVE  \E i \in created' : started'[i] /\ c \in Registered(i)'
  BY <1>2 DEF Registry, NoLeakedTimer, Registered
<1>3. \A i \in Instance, id \in Id : controls'[i][id] # None => controls'[i][id] \in Control
  BY DEF Registry, TypeOK
<1>4. QED BY <1>1, <1>2, <1>3 DEF Registry, NoLeakedTimer

\* startJobs arms what the instance has registered.
LEMMA StartRegistry ==
  ASSUME Registry, NEW i \in Instance, StartJobs(i)
  PROVE  Registry'
<1> USE DEF Registry
<1>1. /\ job' \in [Control -> JobControl]
      /\ \A c \in Control : /\ job'[c].stopped = job[c].stopped
                            /\ job'[c].armed => job[c].armed \/ c \in Registered(i)
  BY DEF StartJobs, TypeOK, JobControl
<1>2. TypeOK' /\ Homes'
  BY <1>1 DEF StartJobs, TypeOK, Homes
<1>3. ASSUME NEW c \in Control, job'[c].armed
      PROVE  \E j \in created' : started'[j] /\ c \in Registered(j)'
  <2>1. CASE c \in Registered(i)
    BY <2>1 DEF StartJobs, TypeOK, Registered
  <2>2. CASE job[c].armed
    <3>1. PICK j \in created : started[j] /\ c \in Registered(j)
      BY <2>2 DEF NoLeakedTimer
    <3>2. j \in created' /\ started'[j] /\ c \in Registered(j)'
      BY <3>1 DEF StartJobs, TypeOK, Registered
    <3>3. QED BY <3>2
  <2>3. QED BY <2>1, <2>2, <1>1, <1>3
<1>4. \A j \in Instance, id \in Id : controls'[j][id] # None => controls'[j][id] \in Control
  BY <1>2 DEF TypeOK
<1>5. QED BY <1>1, <1>2, <1>3, <1>4 DEF NoLeakedTimer, StartJobs

\* The three actions that destroy instances are destroy() of a set of them.
LEMMA DestroyRegistry ==
  ASSUME Registry, NEW S \in SUBSET Instance, DestroyAll(S),
         UNCHANGED <<modeTest, created, calls>>,
         started' \in [Instance -> BOOLEAN],
         \A i \in Instance : started[i] /\ ~started'[i] => i \in S
  PROVE  Registry'
<1> DEFINE gone == UNION {Registered(i) : i \in S}
<1>1. gone \in SUBSET Control
  BY DEF Registry, TypeOK, Registered
<1>2. \A i \in Instance, id \in Id :
        controls[i][id] # None => (controls[i][id] \in gone <=> i \in S)
  <2> SUFFICES ASSUME NEW i \in Instance, NEW id \in Id, controls[i][id] # None
               PROVE  controls[i][id] \in gone <=> i \in S
    OBVIOUS
  <2>1. controls[i][id] \in Control
    BY DEF Registry, TypeOK
  <2>2. \A j \in Instance : controls[i][id] \in Registered(j) <=> j = i
    BY <2>1, RegisteredIs DEF Registry, NoLeakedTimer
  <2>3. QED BY <2>2
<1>3. job' = Stopped(gone) /\ registry' \subseteq registry
  BY DEF DestroyAll
<1>4. /\ controls' \in [Instance -> [Id -> Control \cup {None}]]
      /\ \A i \in Instance, id \in Id :
           controls'[i][id] = IF controls[i][id] \in gone THEN None ELSE controls[i][id]
  <2>1. None \notin gone
    BY <1>1, ControlAssumption
  <2>2. QED BY <2>1, <1>2 DEF DestroyAll, Registry, TypeOK
<1>5. \A i \in Instance : i \in S => Registered(i) \subseteq gone
  OBVIOUS
<1> HIDE DEF gone
<1>6. QED BY <1>1, <1>3, <1>4, <1>5, StopRegistry

\* Every step keeps types and registrations.
LEMMA NextRegistry ==
  ASSUME Registry, CallsCounted, [Next]_vars
  PROVE  Registry'
<1>1. ASSUME NEW i \in Instance, NewJobs(i) PROVE Registry'
  <2>1. TypeOK'
    BY <1>1 DEF NewJobs, Registry, TypeOK
  <2>2. QED BY <1>1, <2>1, KeepRegistry DEF NewJobs, Registry, TypeOK
<1>2. ASSUME NEW i \in Instance, StartJobs(i) PROVE Registry'
  BY <1>2, StartRegistry
<1>3. ASSUME NEW i \in Instance, Destroy(i) PROVE Registry'
  BY <1>3, DestroyRegistry DEF Destroy, Registry, TypeOK
<1>4. ASSUME NEW i \in Instance, NEW id \in Id, StopJob(i, id) PROVE Registry'
  <2> DEFINE gone == {controls[i][id]}
  <2>1. gone \in SUBSET Control /\ job' = Stopped(gone)
    BY <1>4 DEF StopJob, Registry, TypeOK
  <2>2. /\ controls' \in [Instance -> [Id -> Control \cup {None}]]
        /\ \A j \in Instance, other \in Id :
             controls'[j][other] = IF controls[j][other] \in gone THEN None
                                   ELSE controls[j][other]
    BY <1>4, ControlAssumption DEF StopJob, Registry, TypeOK, NoLeakedTimer
  <2> HIDE DEF gone
  <2>3. QED BY <1>4, <2>1, <2>2, StopRegistry DEF StopJob, Registry, TypeOK
<1>5. ASSUME NEW i \in Instance, NEW id \in Id, PauseJob(i, id) \/ ResumeJob(i, id)
      PROVE  Registry'
  <2>1. /\ job' \in [Control -> JobControl]
        /\ \A c \in Control : job'[c].armed = job[c].armed /\ job'[c].stopped = job[c].stopped
    <3>1. PICK c \in Control, flag \in BOOLEAN : job' = [job EXCEPT ![c].paused = flag]
      BY <1>5, PauseWrites DEF Registry
    <3>2. QED BY <3>1 DEF Registry, TypeOK, JobControl
  <2>2. UNCHANGED <<modeTest, registry, created, started, controls, calls>>
    BY <1>5 DEF PauseJob, ResumeJob
  <2>3. QED BY <2>1, <2>2, KeepRegistry DEF Registry, TypeOK
<1>6. ASSUME NEW i \in Instance, NEW id \in Id, NEW c \in Control, NEW timeout \in BOOLEAN,
             Register(i, id, c, timeout)
      PROVE  Registry'
  BY <1>6, RegisterRegistry
<1>7. CASE RestartJobs
  BY <1>7, DestroyRegistry, InstanceAssumption DEF RestartJobs, Registry, TypeOK
<1>8. CASE StopAllJobs
  BY <1>8, DestroyRegistry DEF StopAllJobs, Registry, TypeOK
<1>9. ASSUME NEW on \in BOOLEAN, SetModeTest(on) PROVE Registry'
  BY <1>9, KeepRegistry DEF SetModeTest, Registry, TypeOK
<1>10. ASSUME NEW c \in Control, Tick(c) PROVE Registry'
  <2>1. /\ job' \in [Control -> JobControl]
        /\ \A d \in Control : job'[d].armed = job[d].armed /\ job'[d].stopped = job[d].stopped
    BY <1>10 DEF Tick, Registry, TypeOK, JobControl
  <2>2. calls' \in [Control -> [deferred : Nat, executing : Nat, settled : Nat,
                                abandoned : 0..MaxAbandoned]]
    BY <1>10 DEF Tick, Registry, TypeOK
  <2>3. QED BY <1>10, <2>1, <2>2, KeepRegistry DEF Tick, Registry, TypeOK
<1>11. ASSUME NEW c \in Control, StartCall(c) \/ SettleCall(c) PROVE Registry'
  <2>1. calls' \in [Control -> [deferred : Nat, executing : Nat, settled : Nat,
                                abandoned : 0..MaxAbandoned]]
    BY <1>11, MoveTypes DEF StartCall, SettleCall, Registry
  <2>2. QED BY <1>11, <2>1, KeepRegistry DEF StartCall, SettleCall, Registry, TypeOK
<1>12. ASSUME NEW c \in Control, TimeoutCall(c) \/ AbandonedCallEnds(c) PROVE Registry'
  <2>1. calls' \in [Control -> [deferred : Nat, executing : Nat, settled : Nat,
                                abandoned : 0..MaxAbandoned]]
    <3>1. CASE TimeoutCall(c)
      BY <3>1, BoundAssumption DEF TimeoutCall, Registry, TypeOK, CallsCounted
    <3>2. CASE AbandonedCallEnds(c)
      BY <3>2, BoundAssumption DEF AbandonedCallEnds, Registry, TypeOK
    <3>3. QED BY <1>12, <3>1, <3>2
  <2>2. QED BY <1>12, <2>1, KeepRegistry DEF TimeoutCall, AbandonedCallEnds, Registry, TypeOK
<1>13. ASSUME NEW c \in Control, EndCall(c) PROVE Registry'
  <2>1. /\ job' \in [Control -> JobControl]
        /\ \A d \in Control : job'[d].armed = job[d].armed /\ job'[d].stopped = job[d].stopped
    BY <1>13 DEF EndCall, Registry, TypeOK, JobControl
  <2>2. calls' \in [Control -> [deferred : Nat, executing : Nat, settled : Nat,
                                abandoned : 0..MaxAbandoned]]
    BY <1>13 DEF EndCall, Registry, TypeOK
  <2>3. QED BY <1>13, <2>1, <2>2, KeepRegistry DEF EndCall, Registry, TypeOK
<1>14. CASE UNCHANGED vars
  BY <1>14, KeepRegistry DEF vars, Registry, TypeOK
<1>15. QED
  BY <1>1, <1>2, <1>3, <1>4, <1>5, <1>6, <1>7, <1>8, <1>9, <1>10, <1>11, <1>12, <1>13,
     <1>14 DEF Next

-----------------------------------------------------------------------------
(* The calls of a job.                                                     *)

\* No call is under way at the start.
LEMMA InitCalls == Init => CallsCounted
BY DEF Init, NoCalls, CallsCounted, OneAwaitedCall

\* What leaves the calls, the running flags and the timeouts alone.
LEMMA KeepCalls ==
  ASSUME CallsCounted, UNCHANGED calls,
         \A c \in Control : job'[c].running = job[c].running /\ job'[c].timeout = job[c].timeout
  PROVE  CallsCounted'
BY DEF CallsCounted, OneAwaitedCall

\* Every step keeps the count of calls.
LEMMA NextCalls ==
  ASSUME Registry, CallsCounted, [Next]_vars
  PROVE  CallsCounted'
<1> USE DEF Registry
<1>1. ASSUME NEW i \in Instance, NewJobs(i) PROVE CallsCounted'
  BY <1>1, KeepCalls DEF NewJobs
<1>2. ASSUME NEW i \in Instance, StartJobs(i) PROVE CallsCounted'
  <2>1. \A c \in Control : job'[c].running = job[c].running /\ job'[c].timeout = job[c].timeout
    BY <1>2 DEF StartJobs, TypeOK, JobControl
  <2>2. QED BY <1>2, <2>1, KeepCalls DEF StartJobs
<1>3. ASSUME NEW S, job' = Stopped(S), UNCHANGED calls PROVE CallsCounted'
  BY <1>3, StoppedFields, KeepCalls DEF TypeOK
<1>4. CASE \/ RestartJobs \/ StopAllJobs
           \/ \E i \in Instance : Destroy(i)
           \/ \E i \in Instance, id \in Id : StopJob(i, id)
  <2>1. PICK S : job' = Stopped(S) /\ UNCHANGED calls
    BY <1>4 DEF RestartJobs, StopAllJobs, Destroy, StopJob, DestroyAll
  <2>2. QED BY <2>1, <1>3
<1>5. ASSUME NEW i \in Instance, NEW id \in Id, PauseJob(i, id) \/ ResumeJob(i, id)
      PROVE  CallsCounted'
  <2>1. PICK c \in Control, flag \in BOOLEAN : job' = [job EXCEPT ![c].paused = flag]
    BY <1>5, PauseWrites
  <2>2. \A d \in Control : job'[d].running = job[d].running /\ job'[d].timeout = job[d].timeout
    BY <2>1 DEF TypeOK, JobControl
  <2>3. QED BY <1>5, <2>2, KeepCalls DEF PauseJob, ResumeJob
<1>6. ASSUME NEW i \in Instance, NEW id \in Id, NEW c \in Control, NEW timeout \in BOOLEAN,
             Register(i, id, c, timeout)
      PROVE  CallsCounted'
  <2>1. ~job'[c].running /\ calls'[c] = NoCalls
    BY <1>6 DEF Register, Free, NewControl, TypeOK
  <2>2. \A d \in Control : d # c => job'[d] = job[d] /\ calls'[d] = calls[d]
    BY <1>6 DEF Register, TypeOK
  <2>3. calls' = calls
    BY <1>6 DEF Register
  <2>4. ASSUME NEW d \in Control
        PROVE  /\ calls'[d].deferred + calls'[d].executing + calls'[d].settled
                    = IF job'[d].running THEN 1 ELSE 0
               /\ ~job'[d].timeout => calls'[d].abandoned = 0
    <3>1. CASE d = c
      BY <3>1, <2>1 DEF NoCalls
    <3>2. CASE d # c
      BY <3>2, <2>2 DEF CallsCounted, OneAwaitedCall
    <3>3. QED BY <3>1, <3>2
  <2>5. QED BY <2>3, <2>4 DEF CallsCounted, OneAwaitedCall
<1>7. ASSUME NEW on \in BOOLEAN, SetModeTest(on) PROVE CallsCounted'
  BY <1>7, KeepCalls DEF SetModeTest
<1>8. ASSUME NEW c \in Control, Tick(c) PROVE CallsCounted'
  <2>1. /\ calls[c].deferred = 0 /\ calls[c].executing = 0 /\ calls[c].settled = 0
        /\ calls[c].abandoned < MaxAbandoned
        /\ ~job[c].timeout => calls[c].abandoned = 0
    BY <1>8, AwaitedIsOne DEF Tick, CallsCounted, OneAwaitedCall
  <2>2. /\ job'[c].running /\ job'[c].timeout = job[c].timeout
        /\ \A d \in Control : d # c => job'[d] = job[d] /\ calls'[d] = calls[d]
    BY <1>8 DEF Tick, TypeOK, JobControl
  <2>3. /\ calls'[c].deferred + calls'[c].executing + calls'[c].settled = 1
        /\ calls'[c].abandoned = calls[c].abandoned
    <3>1. CASE job[c].timeout
      BY <1>8, <2>1, <3>1 DEF Tick, TypeOK
    <3>2. CASE ~job[c].timeout
      BY <1>8, <2>1, <3>2 DEF Tick, TypeOK
    <3>3. QED BY <3>1, <3>2
  <2>4. QED BY <2>1, <2>2, <2>3 DEF CallsCounted, OneAwaitedCall
<1>9. ASSUME NEW c \in Control, StartCall(c) \/ SettleCall(c) PROVE CallsCounted'
  <2>1. /\ calls'[c].deferred + calls'[c].executing + calls'[c].settled
             = calls[c].deferred + calls[c].executing + calls[c].settled
        /\ calls'[c].deferred + calls'[c].executing <= calls[c].deferred + calls[c].executing
        /\ calls'[c].abandoned = calls[c].abandoned
        /\ calls'[c].deferred + calls'[c].executing \in Nat
        /\ calls[c].deferred + calls[c].executing \in Nat
        /\ \A d \in Control : d # c => calls'[d] = calls[d]
    BY <1>9, MoveTypes DEF StartCall, SettleCall, TypeOK
  <2>2. job' = job
    BY <1>9 DEF StartCall, SettleCall
  <2>3. QED BY <2>1, <2>2 DEF CallsCounted, OneAwaitedCall
<1>10. ASSUME NEW c \in Control, TimeoutCall(c) PROVE CallsCounted'
  <2>1. job[c].timeout /\ job[c].running /\ job' = job
    BY <1>10, AwaitedIsOne DEF TimeoutCall
  <2>2. calls[c].deferred = 0 /\ calls[c].executing = 1 /\ calls[c].settled = 0
    BY <1>10, AwaitedIsOne DEF TimeoutCall
  <2>3. /\ calls'[c].deferred = 0 /\ calls'[c].executing = 0 /\ calls'[c].settled = 1
        /\ \A d \in Control : d # c => calls'[d] = calls[d]
    BY <1>10, <2>2 DEF TimeoutCall, TypeOK
  <2>4. QED BY <2>1, <2>3 DEF CallsCounted, OneAwaitedCall
<1>11. ASSUME NEW c \in Control, AbandonedCallEnds(c) PROVE CallsCounted'
  <2>1. /\ job' = job
        /\ calls'[c].deferred = calls[c].deferred /\ calls'[c].executing = calls[c].executing
        /\ calls'[c].settled = calls[c].settled
        /\ calls'[c].abandoned = calls[c].abandoned - 1
        /\ calls[c].abandoned \in 1..MaxAbandoned
        /\ \A d \in Control : d # c => calls'[d] = calls[d]
    BY <1>11, BoundAssumption DEF AbandonedCallEnds, TypeOK
  <2>2. calls[c].deferred + calls[c].executing > 0 => calls'[c].abandoned < MaxAbandoned
    BY <2>1, BoundAssumption DEF CallsCounted
  <2>3. job[c].timeout
    BY <2>1, BoundAssumption DEF CallsCounted, OneAwaitedCall
  <2>4. QED BY <2>1, <2>2, <2>3 DEF CallsCounted, OneAwaitedCall
<1>12. ASSUME NEW c \in Control, EndCall(c) PROVE CallsCounted'
  <2>1. calls[c].deferred = 0 /\ calls[c].executing = 0 /\ calls[c].settled = 1
    BY <1>12, AwaitedIsOne DEF EndCall
  <2>2. /\ calls'[c].deferred = 0 /\ calls'[c].executing = 0 /\ calls'[c].settled = 0
        /\ calls'[c].abandoned = calls[c].abandoned
        /\ ~job'[c].running /\ job'[c].timeout = job[c].timeout
        /\ \A d \in Control : d # c => calls'[d] = calls[d] /\ job'[d] = job[d]
    BY <1>12, <2>1 DEF EndCall, TypeOK, JobControl
  <2>3. QED BY <2>2 DEF CallsCounted, OneAwaitedCall
<1>13. CASE UNCHANGED vars
  BY <1>13, KeepCalls DEF vars
<1>14. QED
  BY <1>1, <1>2, <1>4, <1>5, <1>6, <1>7, <1>8, <1>9, <1>10, <1>11, <1>12, <1>13 DEF Next

-----------------------------------------------------------------------------
(* Timers.                                                                 *)

(***************************************************************************)
(* StartedJobsArmed, entry by entry of the maps.                           *)
(***************************************************************************)
EntriesArmed ==
  \A i \in Instance, id \in Id :
    started[i] /\ controls[i][id] # None
      => job[controls[i][id]].armed \/ job[controls[i][id]].quiet

\* No instance is started at the start.
LEMMA InitArmed == Init => EntriesArmed
BY DEF Init, EntriesArmed

\* Entries that stay, on instances that stay started, keep their timers.
LEMMA KeepArmed ==
  ASSUME Registry, EntriesArmed,
         \A i \in Instance : started'[i] => started[i],
         \A i \in Instance, id \in Id :
           controls'[i][id] # None =>
             /\ controls'[i][id] = controls[i][id]
             /\ job'[controls[i][id]].armed = job[controls[i][id]].armed
             /\ job'[controls[i][id]].quiet = job[controls[i][id]].quiet
  PROVE  EntriesArmed'
BY DEF EntriesArmed

\* Every step keeps what a started instance has armed.
LEMMA NextArmed ==
  ASSUME Registry, EntriesArmed, [Next]_vars
  PROVE  EntriesArmed'
<1> USE DEF Registry
<1>1. \A i \in Instance, id \in Id : controls[i][id] # None => controls[i][id] \in Control
  BY DEF TypeOK
<1>2. ASSUME UNCHANGED <<started, controls>>,
             \A c \in Control : job'[c].armed = job[c].armed /\ job'[c].quiet = job[c].quiet
      PROVE  EntriesArmed'
  BY <1>1, <1>2, KeepArmed
<1>3. ASSUME NEW i \in Instance, NewJobs(i) PROVE EntriesArmed'
  BY <1>2, <1>3 DEF NewJobs
<1>4. ASSUME NEW i \in Instance, StartJobs(i) PROVE EntriesArmed'
  <2>1. \A c \in Control : /\ c \in Registered(i) => job'[c].armed
                           /\ job[c].armed => job'[c].armed
                           /\ job'[c].quiet = job[c].quiet
    BY <1>4 DEF StartJobs, TypeOK, JobControl
  <2>2. \A j \in Instance : started'[j] => j = i \/ started[j]
    BY <1>4 DEF StartJobs, TypeOK
  <2>3. \A id \in Id : controls[i][id] # None => controls[i][id] \in Registered(i)
    BY DEF Registered
  <2>4. controls' = controls
    BY <1>4 DEF StartJobs
  <2>5. QED BY <1>1, <2>1, <2>2, <2>3, <2>4 DEF EntriesArmed
<1>5. ASSUME NEW S \in SUBSET Instance, DestroyAll(S),
             \A i \in Instance \ S : started'[i] => started[i]
      PROVE  EntriesArmed'
  <2> DEFINE gone == UNION {Registered(i) : i \in S}
  <2>1. \A i \in Instance, id \in Id :
          controls'[i][id] # None => i \notin S /\ controls'[i][id] = controls[i][id]
    BY <1>5 DEF DestroyAll
  <2>2. \A i \in Instance \ S, id \in Id :
          controls[i][id] # None => controls[i][id] \notin gone
    <3> SUFFICES ASSUME NEW i \in Instance \ S, NEW id \in Id, NEW j \in S,
                        controls[i][id] # None, controls[i][id] \in Registered(j)
                 PROVE  FALSE
      OBVIOUS
    <3>1. PICK other \in Id : controls[j][other] = controls[i][id]
      BY <1>1, RegisteredIs
    <3>2. QED BY <3>1 DEF NoLeakedTimer
  <2>3. \A c \in Control \ gone : job'[c] = job[c]
    BY <1>5, StoppedFields DEF DestroyAll, TypeOK
  <2> HIDE DEF gone
  <2>4. QED BY <1>1, <1>5, <2>1, <2>2, <2>3 DEF EntriesArmed
<1>6. ASSUME NEW i \in Instance, Destroy(i) PROVE EntriesArmed'
  BY <1>5, <1>6 DEF Destroy, TypeOK
<1>7. CASE RestartJobs
  BY <1>5, <1>7, InstanceAssumption DEF RestartJobs, TypeOK
<1>8. CASE StopAllJobs
  BY <1>5, <1>8 DEF StopAllJobs, TypeOK
<1>9. ASSUME NEW i \in Instance, NEW id \in Id, StopJob(i, id) PROVE EntriesArmed'
  <2>1. \A j \in Instance, other \in Id :
          controls'[j][other] # None =>
            controls'[j][other] = controls[j][other] /\ (j # i \/ other # id)
    BY <1>9 DEF StopJob, TypeOK
  <2>2. \A c \in Control : c # controls[i][id] => job'[c] = job[c]
    BY <1>9, StoppedFields DEF StopJob, TypeOK
  <2>3. \A j \in Instance, other \in Id :
          controls'[j][other] # None => job'[controls[j][other]] = job[controls[j][other]]
    <3>1. controls[i][id] # None
      BY <1>9 DEF StopJob
    <3>2. \A j \in Instance, other \in Id :
            controls[j][other] = controls[i][id] => i = j /\ id = other
      BY <3>1 DEF NoLeakedTimer
    <3>3. \A j \in Instance, other \in Id :
            controls'[j][other] # None => controls[j][other] \in Control \ {controls[i][id]}
      BY <1>1, <2>1, <3>2
    <3>4. QED BY <2>2, <3>3
  <2>4. started' = started
    BY <1>9 DEF StopJob
  <2>5. \A j \in Instance, other \in Id :
          controls'[j][other] # None => controls'[j][other] = controls[j][other]
    BY <2>1
  <2>6. QED BY <2>3, <2>4, <2>5 DEF EntriesArmed
<1>10. ASSUME NEW i \in Instance, NEW id \in Id, PauseJob(i, id) \/ ResumeJob(i, id)
       PROVE  EntriesArmed'
  <2>1. PICK c \in Control, flag \in BOOLEAN : job' = [job EXCEPT ![c].paused = flag]
    BY <1>10, PauseWrites
  <2>2. \A d \in Control : job'[d].armed = job[d].armed /\ job'[d].quiet = job[d].quiet
    BY <2>1 DEF TypeOK, JobControl
  <2>3. QED BY <1>2, <1>10, <2>2 DEF PauseJob, ResumeJob
<1>11. ASSUME NEW i \in Instance, NEW id \in Id, NEW c \in Control, NEW timeout \in BOOLEAN,
              Register(i, id, c, timeout)
       PROVE  EntriesArmed'
  <2>1. /\ controls'[i][id] = c
        /\ \A j \in Instance, other \in Id :
             (j # i \/ other # id) => controls'[j][other] = controls[j][other]
    BY <1>11 DEF Register, TypeOK
  <2>2. \A j \in Instance, other \in Id : controls[j][other] # c
    BY <1>11, RegisteredIs DEF Register, Free
  <2>3. /\ job'[c].armed = (started[i] /\ ~modeTest) /\ job'[c].quiet = (started[i] /\ modeTest)
        /\ \A d \in Control : d # c => job'[d] = job[d]
    BY <1>11 DEF Register, NewControl, TypeOK
  <2>4. started' = started
    BY <1>11 DEF Register
  <2>5. ASSUME NEW j \in Instance, NEW other \in Id, started'[j], controls'[j][other] # None
        PROVE  job'[controls'[j][other]].armed \/ job'[controls'[j][other]].quiet
    <3>1. CASE j = i /\ other = id
      BY <2>1, <2>3, <2>4, <2>5, <3>1
    <3>2. CASE j # i \/ other # id
      BY <1>1, <2>1, <2>2, <2>3, <2>4, <2>5, <3>2 DEF EntriesArmed
    <3>3. QED BY <3>1, <3>2
  <2>6. QED BY <2>5 DEF EntriesArmed
<1>12. ASSUME NEW on \in BOOLEAN, SetModeTest(on) PROVE EntriesArmed'
  BY <1>2, <1>12 DEF SetModeTest
<1>13. ASSUME NEW c \in Control, Tick(c) \/ EndCall(c) PROVE EntriesArmed'
  <2>1. PICK flag \in BOOLEAN : job' = [job EXCEPT ![c].running = flag]
    BY <1>13 DEF Tick, EndCall
  <2>2. \A d \in Control : job'[d].armed = job[d].armed /\ job'[d].quiet = job[d].quiet
    BY <2>1 DEF TypeOK, JobControl
  <2>3. QED BY <1>2, <1>13, <2>2 DEF Tick, EndCall
<1>14. ASSUME NEW c \in Control,
              StartCall(c) \/ SettleCall(c) \/ TimeoutCall(c) \/ AbandonedCallEnds(c)
       PROVE  EntriesArmed'
  BY <1>2, <1>14 DEF StartCall, SettleCall, TimeoutCall, AbandonedCallEnds
<1>15. CASE UNCHANGED vars
  BY <1>2, <1>15 DEF vars
<1>16. QED
  BY <1>3, <1>4, <1>6, <1>7, <1>8, <1>9, <1>10, <1>11, <1>12, <1>13, <1>14, <1>15 DEF Next

-----------------------------------------------------------------------------
(* The theorems.                                                           *)

IInv == Registry /\ CallsCounted /\ EntriesArmed

(***************************************************************************)
(* The inductive invariant of the scheduler holds in every reachable       *)
(* state, whatever is registered, started, stopped and timed out.          *)
(***************************************************************************)
THEOREM Invariance == Spec => []IInv
<1>1. Init => IInv
  BY InitRegistry, InitCalls, InitArmed DEF IInv
<1>2. IInv /\ [Next]_vars => IInv'
  BY NextRegistry, NextCalls, NextArmed DEF IInv
<1>3. QED BY <1>1, <1>2, PTL DEF Spec

(***************************************************************************)
(* Every variable of the scheduler keeps its type (jobs.ts).               *)
(***************************************************************************)
THEOREM TypeCorrect == Spec => []TypeOK
<1>1. IInv => TypeOK
  BY DEF IInv, Registry
<1>2. QED BY <1>1, Invariance, PTL

(***************************************************************************)
(* No timer leaks: what is armed can be found by stopJob and destroy.      *)
(***************************************************************************)
THEOREM TimersReachable == Spec => []NoLeakedTimer
<1>1. IInv => NoLeakedTimer
  BY DEF IInv, Registry
<1>2. QED BY <1>1, Invariance, PTL

(***************************************************************************)
(* A job never overlaps with itself, but for the calls a timeout abandoned *)
(* (#execute of jobs.ts).                                                  *)
(***************************************************************************)
THEOREM NoOverlap == Spec => []OneAwaitedCall
<1>1. IInv => OneAwaitedCall
  BY DEF IInv, CallsCounted
<1>2. QED BY <1>1, Invariance, PTL

(***************************************************************************)
(* A started instance has armed every job, but for those registered on it  *)
(* in test mode (startJobs and #register of jobs.ts).                      *)
(***************************************************************************)
THEOREM StartArms == Spec => []StartedJobsArmed
<1>1. IInv => StartedJobsArmed
  <2> SUFFICES ASSUME IInv, NEW i \in Instance, started[i], NEW c \in Registered(i)
               PROVE  job[c].armed \/ job[c].quiet
    BY DEF StartedJobsArmed
  <2>1. PICK id \in Id : controls[i][id] = c /\ c # None
    BY DEF Registered
  <2>2. QED BY <2>1 DEF IInv, EntriesArmed
<1>2. QED BY <1>1, Invariance, PTL

\* One step of StoppedStaysStopped.
LEMMA StoppedStep ==
  ASSUME IInv, [Next]_vars, NEW c \in Control, job[c].stopped, job'[c].stopped
  PROVE  /\ ~job'[c].armed
         /\ calls'[c].deferred + calls'[c].executing + calls'[c].abandoned
              <= calls[c].deferred + calls[c].executing + calls[c].abandoned
<1> USE DEF IInv, Registry
<1>1. ~job'[c].armed
  <2>1. Registry'
    BY NextRegistry
  <2>2. SUFFICES ASSUME job'[c].armed PROVE FALSE
    OBVIOUS
  <2>3. PICK i \in created' : c \in Registered(i)'
    BY <2>1, <2>2 DEF NoLeakedTimer
  <2>4. PICK id \in Id : controls'[i][id] = c /\ c # None
    BY <2>3 DEF Registered
  <2>5. i \in Instance
    BY <2>1 DEF TypeOK
  <2>6. QED BY <2>1, <2>4, <2>5 DEF NoLeakedTimer
<1>2. /\ calls[c].deferred \in Nat /\ calls[c].executing \in Nat
      /\ calls[c].abandoned \in Nat
  BY FieldTypes, BoundAssumption
<1>3. CASE calls'[c] = calls[c]
  BY <1>1, <1>2, <1>3
<1>4. CASE \E d \in Control : Tick(d)
  <2>1. PICK d \in Control : Tick(d)
    BY <1>4
  <2>2. d # c
    BY <2>1 DEF Tick
  <2>3. calls'[c] = calls[c]
    BY <2>1, <2>2 DEF Tick, TypeOK
  <2>4. QED BY <2>3, <1>3
<1>5. CASE \E d \in Control : StartCall(d) \/ SettleCall(d)
  <2>1. PICK d \in Control : StartCall(d) \/ SettleCall(d)
    BY <1>5
  <2>2. CASE d = c
    <3>1. /\ calls'[c].abandoned = calls[c].abandoned
          /\ calls'[c].deferred + calls'[c].executing
               <= calls[c].deferred + calls[c].executing
          /\ calls'[c].deferred \in Nat /\ calls'[c].executing \in Nat
      BY <2>1, <2>2, MoveTypes DEF StartCall, SettleCall
    <3>2. QED BY <3>1, <1>1, <1>2
  <2>3. CASE d # c
    <3>1. calls'[c] = calls[c]
      BY <2>1, <2>3, MoveTypes DEF StartCall, SettleCall
    <3>2. QED BY <3>1, <1>3
  <2>4. QED BY <2>2, <2>3
<1>6. CASE \E d \in Control : TimeoutCall(d) \/ AbandonedCallEnds(d) \/ EndCall(d)
  <2>1. PICK d \in Control : TimeoutCall(d) \/ AbandonedCallEnds(d) \/ EndCall(d)
    BY <1>6
  <2>2. CASE d = c /\ TimeoutCall(d)
    <3>1. /\ calls'[c].deferred = calls[c].deferred
          /\ calls'[c].executing = calls[c].executing - 1
          /\ calls'[c].abandoned = calls[c].abandoned + 1
      BY <2>2 DEF TimeoutCall, TypeOK
    <3>2. QED BY <3>1, <1>1, <1>2
  <2>3. CASE d = c /\ AbandonedCallEnds(d)
    <3>1. /\ calls'[c].deferred = calls[c].deferred
          /\ calls'[c].executing = calls[c].executing
          /\ calls'[c].abandoned = calls[c].abandoned - 1
      BY <2>3 DEF AbandonedCallEnds, TypeOK
    <3>2. QED BY <3>1, <1>1, <1>2
  <2>4. CASE d = c /\ EndCall(d)
    <3>1. /\ calls'[c].deferred = calls[c].deferred
          /\ calls'[c].executing = calls[c].executing
          /\ calls'[c].abandoned = calls[c].abandoned
      BY <2>4 DEF EndCall, TypeOK
    <3>2. QED BY <3>1, <1>1, <1>2
  <2>5. CASE d # c
    <3>1. calls'[c] = calls[c]
      BY <2>1, <2>5 DEF TimeoutCall, AbandonedCallEnds, EndCall, TypeOK
    <3>2. QED BY <3>1, <1>3
  <2>6. QED BY <2>1, <2>2, <2>3, <2>4, <2>5
<1>7. CASE UNCHANGED calls
  BY <1>7, <1>3
<1>8. UNCHANGED calls \/ \E d \in Control : \/ Tick(d) \/ StartCall(d) \/ SettleCall(d)
                                            \/ TimeoutCall(d) \/ AbandonedCallEnds(d)
                                            \/ EndCall(d)
  BY DEF Next, vars, NewJobs, StartJobs, Destroy, StopJob, PauseJob, ResumeJob, Register,
         RestartJobs, StopAllJobs, SetModeTest
<1>9. QED BY <1>1, <1>4, <1>5, <1>6, <1>7, <1>8

(***************************************************************************)
(* No call of a job begins once it was stopped, but for the one that       *)
(* withTimeout had already queued.                                         *)
(***************************************************************************)
THEOREM StopIsFinal == Spec => StoppedStaysStopped
<1>1. IInv /\ [Next]_vars =>
        [\A c \in Control :
           job[c].stopped /\ job'[c].stopped
             => /\ ~job'[c].armed
                /\ calls'[c].deferred + calls'[c].executing + calls'[c].abandoned
                     <= calls[c].deferred + calls[c].executing + calls[c].abandoned]_vars
  BY StoppedStep
<1>2. QED BY <1>1, Invariance, PTL DEF Spec, StoppedStaysStopped

-----------------------------------------------------------------------------
(***************************************************************************)
(* When the ticks of one cron job call its function: CronJob, which is     *)
(* about the same class.  First, facts about seconds.                      *)
(***************************************************************************)
LEMMA SecondBounds ==
  ASSUME NEW t \in Nat
  PROVE  /\ Second(t) \in Nat
         /\ UnitsPerSecond * Second(t) <= t
         /\ t < UnitsPerSecond * Second(t) + UnitsPerSecond
BY UnitAssumption DEF Second

\* A moment between the start of a second and its end is in it.
LEMMA SecondIs ==
  ASSUME NEW t \in Nat, NEW s \in Nat,
         UnitsPerSecond * s <= t, t < UnitsPerSecond * s + UnitsPerSecond
  PROVE  Second(t) = s
BY UnitAssumption DEF Second

\* A second later the second is the next.
LEMMA SecondStep ==
  ASSUME NEW t \in Nat
  PROVE  t + UnitsPerSecond \in Nat /\ Second(t + UnitsPerSecond) = Second(t) + 1
<1>1. /\ Second(t) \in Nat /\ UnitsPerSecond * Second(t) <= t
      /\ t < UnitsPerSecond * Second(t) + UnitsPerSecond /\ UnitsPerSecond \in Nat
  BY SecondBounds, UnitAssumption
<1>2. /\ t + UnitsPerSecond \in Nat /\ Second(t) + 1 \in Nat
      /\ UnitsPerSecond * (Second(t) + 1) <= t + UnitsPerSecond
      /\ t + UnitsPerSecond < UnitsPerSecond * (Second(t) + 1) + UnitsPerSecond
  BY <1>1
<1>3. QED BY <1>2, SecondIs

\* A later moment is in no earlier second.
LEMMA SecondMonotonic ==
  ASSUME NEW t \in Nat, NEW u \in Nat, t <= u
  PROVE  Second(t) <= Second(u)
<1>1. /\ Second(t) \in Nat /\ Second(u) \in Nat
      /\ UnitsPerSecond * Second(t) < UnitsPerSecond * Second(u) + UnitsPerSecond
  BY SecondBounds, UnitAssumption
<1>2. \A U \in Nat \ {0} : \A a, b \in Nat : U * a < U * b + U => a <= b
  OBVIOUS
<1>3. QED BY <1>1, <1>2, UnitAssumption

\* A second begins with its own number.
LEMMA SecondStarts ==
  ASSUME NEW s \in Nat
  PROVE  s * UnitsPerSecond \in Nat /\ Second(s * UnitsPerSecond) = s
<1>1. /\ s * UnitsPerSecond \in Nat
      /\ UnitsPerSecond * s <= s * UnitsPerSecond
      /\ s * UnitsPerSecond < UnitsPerSecond * s + UnitsPerSecond
  BY UnitAssumption
<1>2. QED BY <1>1, SecondIs

-----------------------------------------------------------------------------
(* The inductive invariant.                                                *)

(***************************************************************************)
(* The next tick is a whole resolution behind the last that fired, so that *)
(* it falls in a later second.                                             *)
(***************************************************************************)
Spaced ==
  /\ lastFired + UnitsPerSecond <= due
  /\ \A t \in ran : t <= lastFired

\* The second before the one in which the timer is due had a tick, but for the first.
Polled ==
  /\ Second(due) >= 1
  /\ Second(due) - 1 \in ticked \cup {0}
  /\ MaxLate < UnitsPerSecond =>
       \A s \in Nat \ {0} : s + 1 < Second(due) => s \in ticked \/ s + 1 \in ticked

Punctual ==
  ~late => \A s \in Nat \ {0} :
             /\ s < Second(due) /\ intervalMs = 0
             /\ MatchesTrigger(DateAt(s * UnitsPerSecond), trigger)
             => s \in fired

CronInv == CronTypeOK /\ Spaced /\ Polled /\ Punctual /\ RunsAsScheduled

\* The timer set by start is the first tick.
LEMMA CronStarts == CronInit => CronInv
<1> SUFFICES ASSUME CronInit PROVE CronInv
  OBVIOUS
<1>1. /\ clock \in Nat /\ intervalMs \in Nat /\ UnitsPerSecond \in Nat \ {0} /\ MaxLate \in Nat
      /\ due = clock + UnitsPerSecond /\ lastFired = 0 - intervalMs
      /\ clock < UnitsPerSecond
  BY UnitAssumption, DelayAssumption DEF CronInit, CronResolution
<1>2. Second(clock) = 0
  BY <1>1, SecondIs
<1>3. due \in Nat /\ Second(due) = 1
  BY <1>1, <1>2, SecondStep
<1>4. CronTypeOK
  <2>1. /\ trigger \in Triggers /\ intervalMs \in Intervals
        /\ late = FALSE /\ paused = FALSE /\ running = FALSE
        /\ ticked = {} /\ fired = {} /\ ran = {}
    BY DEF CronInit
  <2>2. clock <= due + MaxLate /\ lastFired \in Int /\ lastFired <= clock
    BY <1>1
  <2>3. QED BY <1>1, <1>3, <2>1, <2>2 DEF CronTypeOK
<1>5. Spaced
  BY <1>1 DEF CronInit, Spaced
<1>6. Polled /\ Punctual
  BY <1>3 DEF Polled, Punctual
<1>7. RunsAsScheduled
  BY DEF CronInit, RunsAsScheduled
<1>8. QED BY <1>4, <1>5, <1>6, <1>7 DEF CronInv

\* A step that is no tick changes nothing that the invariant speaks of but the clock.
LEMMA NoTick ==
  ASSUME CronInv, Advance \/ EndRun \/ (\E on \in BOOLEAN : SetPaused(on)) \/ UNCHANGED cronVars
  PROVE  CronInv'
<1>1. /\ UNCHANGED <<trigger, intervalMs, due, lastFired, late, ticked, fired, ran>>
      /\ clock' = clock \/ (clock' = clock + 1 /\ clock < due + MaxLate)
      /\ paused' \in BOOLEAN /\ running' \in BOOLEAN
  BY DEF Advance, EndRun, SetPaused, cronVars, CronInv, CronTypeOK
<1>2. CronTypeOK'
  BY <1>1, DelayAssumption DEF CronInv, CronTypeOK, Second
<1>3. Spaced' /\ Polled' /\ Punctual'
  BY <1>1 DEF CronInv, Spaced, Polled, Punctual, Second, MatchesTrigger, DateAt
<1>4. RunsAsScheduled'
  BY <1>1 DEF CronInv, RunsAsScheduled, Second, MatchesTrigger, DateAt
<1>5. QED BY <1>2, <1>3, <1>4 DEF CronInv

\* A tick, whether it fires or not, arms the next one.
LEMMA TickKeeps ==
  ASSUME CronInv, CronTick
  PROVE  CronInv'
<1>1. /\ UnitsPerSecond \in Nat \ {0} /\ MaxLate \in Nat /\ clock \in Nat /\ due \in Nat
      /\ intervalMs \in Nat /\ lastFired \in Int /\ lastFired <= clock
      /\ due <= clock /\ clock <= due + MaxLate
      /\ ran \subseteq Nat /\ ticked \subseteq Nat /\ fired \subseteq ticked
  BY UnitAssumption, DelayAssumption DEF CronInv, CronTypeOK, CronTick
<1>2. /\ due' = clock + UnitsPerSecond /\ ticked' = ticked \cup {Second(clock)}
      /\ UNCHANGED <<trigger, intervalMs, clock, paused>>
  BY DEF CronTick, CronResolution
<1>3. /\ due' \in Nat /\ Second(clock) \in Nat /\ Second(due) \in Nat
      /\ Second(due') = Second(clock) + 1 /\ Second(due) <= Second(clock)
  BY <1>1, <1>2, SecondStep, SecondBounds, SecondMonotonic
<1>4. /\ Second(due)' = Second(clock) + 1
      /\ \A t : Second(t)' = Second(t)
  BY <1>3 DEF Second
<1>5. \/ Idle /\ UNCHANGED <<lastFired, fired, ran>>
      \/ /\ ~Idle /\ lastFired' = clock /\ fired' = fired \cup {Second(clock)}
         /\ ran' \in {ran, ran \cup {clock}}
  BY DEF CronTick
<1>6. CronTypeOK'
  <2>1. clock <= due' + MaxLate /\ ticked' \subseteq Nat
    <3>1. due' = clock + UnitsPerSecond /\ ticked' = ticked \cup {Second(clock)}
      BY <1>2
    <3>2. clock <= due' + MaxLate
      BY <1>1, <3>1
    <3>3. ticked' \subseteq Nat
      BY <1>1, <1>3, <3>1
    <3>4. QED BY <3>2, <3>3
  <2>2. /\ lastFired' \in Int /\ lastFired' <= clock
        /\ fired' \subseteq ticked' /\ ran' \subseteq Nat
        /\ \A t \in ran' : Second(t) \in fired'
    <3>1. \A t \in ran : Second(t) \in fired
      BY DEF CronInv, CronTypeOK
    <3>2. CASE UNCHANGED <<lastFired, fired, ran>>
      BY <1>1, <1>2, <3>1, <3>2
    <3>3. CASE /\ lastFired' = clock /\ fired' = fired \cup {Second(clock)}
               /\ ran' \in {ran, ran \cup {clock}}
      <4>1. ticked' = ticked \cup {Second(clock)}
        BY <1>2
      <4>2. lastFired' \in Int /\ lastFired' <= clock
        BY <1>1, <3>3
      <4>3. fired' \subseteq ticked'
        BY <1>1, <3>3, <4>1
      <4>4. ran' \subseteq Nat /\ \A t \in ran' : Second(t) \in fired'
        BY <1>1, <3>1, <3>3
      <4>5. QED BY <4>2, <4>3, <4>4
    <3>4. QED BY <1>5, <3>2, <3>3
  <2>3. \A t \in ran' : Second(t)' \in fired'
    BY <1>4, <2>2
  <2>4. /\ trigger' \in Triggers /\ intervalMs' \in Intervals
        /\ late' \in BOOLEAN /\ paused' \in BOOLEAN /\ running' \in BOOLEAN
    BY DEF CronTick, CronInv, CronTypeOK
  <2>5. clock' \in Nat /\ clock' = clock
    BY <1>1, <1>2
  <2>6. QED BY <1>3, <2>1, <2>2, <2>3, <2>4, <2>5 DEF CronTypeOK
<1>7. Spaced'
  <2>1. lastFired' = lastFired \/ lastFired' = clock
    BY <1>5
  <2>2. lastFired' + UnitsPerSecond <= due'
    <3>1. due' = clock + UnitsPerSecond
      BY <1>2
    <3>2. QED BY <1>1, <2>1, <3>1
  <2>3. \A t \in ran' : t <= lastFired'
    <3>1. \A t \in ran : t \in Nat /\ t <= lastFired
      BY <1>1 DEF CronInv, Spaced
    <3>2. CASE UNCHANGED <<lastFired, ran>>
      BY <3>1, <3>2
    <3>3. CASE lastFired' = clock /\ ran' \in {ran, ran \cup {clock}}
      <4>1. \A t \in ran \cup {clock} : t <= clock
        BY <1>1, <3>1
      <4>2. QED BY <3>3, <4>1
    <3>4. QED BY <1>5, <3>2, <3>3
  <2>4. QED BY <2>2, <2>3 DEF Spaced
<1>8. Polled'
  <2>1. Second(due)' >= 1 /\ (Second(due) - 1)' \in ticked'
    BY <1>2, <1>3, <1>4
  <2>2. ASSUME MaxLate < UnitsPerSecond, NEW s \in Nat \ {0}, s + 1 < Second(clock) + 1
        PROVE  s \in ticked' \/ s + 1 \in ticked'
    <3>1. Second(clock) <= Second(due) + 1
      <4>1. due + UnitsPerSecond \in Nat /\ clock <= due + UnitsPerSecond
        BY <1>1, <2>2
      <4>2. Second(clock) <= Second(due + UnitsPerSecond)
        BY <1>1, <4>1, SecondMonotonic
      <4>3. QED BY <1>1, <4>2, SecondStep
    <3>2. CASE s + 1 < Second(due)
      BY <1>2, <2>2, <3>2 DEF CronInv, Polled
    <3>3. CASE s + 1 = Second(clock)
      BY <1>2, <3>3
    <3>4. CASE s + 1 = Second(due)
      <4>1. s = Second(due) - 1 /\ s # 0
        BY <3>4
      <4>2. s \in ticked
        BY <4>1 DEF CronInv, Polled
      <4>3. QED BY <1>2, <4>2
    <3>5. QED BY <1>3, <2>2, <3>1, <3>2, <3>3, <3>4
  <2>3. QED BY <1>4, <2>1, <2>2 DEF Polled
<1>9. Punctual'
  <2>1. SUFFICES ASSUME ~late', NEW s \in Nat \ {0}, s < Second(clock) + 1, intervalMs = 0,
                        MatchesTrigger(DateAt(s * UnitsPerSecond), trigger)
                 PROVE  s \in fired'
    <3>1. \A s \in Nat : MatchesTrigger(DateAt(s * UnitsPerSecond), trigger)'
                           <=> MatchesTrigger(DateAt(s * UnitsPerSecond), trigger)
      BY <1>2 DEF MatchesTrigger, DateAt, Second
    <3>2. UNCHANGED intervalMs
      BY <1>2
    <3>3. QED BY <1>4, <3>1, <3>2 DEF Punctual
  <2>2. ~late /\ clock = due
    <3>1. ~late /\ ~(clock > due)
      BY <2>1 DEF CronTick
    <3>2. QED BY <1>1, <3>1
  <2>3. CASE s < Second(due)
    BY <1>5, <2>1, <2>2, <2>3 DEF CronInv, Punctual
  <2>4. CASE s = Second(clock)
    <3>1. DateAt(s * UnitsPerSecond) = DateAt(clock)
      BY <2>4, SecondStarts DEF DateAt
    <3>2. ~Idle
      BY <2>1, <3>1 DEF Idle
    <3>3. QED BY <1>5, <2>4, <3>2
  <2>5. QED BY <1>3, <2>1, <2>2, <2>3, <2>4
<1>10. RunsAsScheduled'
  <2>1. CASE ran' = ran
    BY <1>2, <2>1 DEF CronInv, RunsAsScheduled, Second, MatchesTrigger, DateAt
  <2>2. CASE ran' # ran
    <3>1. ran' = ran \cup {clock} /\ ~Idle
      BY <1>5, <2>2
    <3>2. MatchesTrigger(DateAt(clock), trigger)
          /\ (intervalMs = 0 \/ clock - lastFired >= intervalMs)
      BY <1>1, <3>1 DEF Idle
    <3>3. ASSUME NEW t \in ran
          PROVE  t + UnitsPerSecond <= clock /\ clock - t >= intervalMs
      <4>1. t \in Nat /\ t <= lastFired /\ lastFired + UnitsPerSecond <= due
        BY <1>1 DEF CronInv, Spaced
      <4>2. QED BY <1>1, <3>2, <4>1
    <3>4. ASSUME NEW t \in ran PROVE Second(t) < Second(clock) /\ t < clock
      <4>1. t \in Nat /\ t + UnitsPerSecond <= clock
        BY <1>1, <3>3
      <4>2. /\ Second(t) \in Nat /\ t + UnitsPerSecond \in Nat
            /\ Second(t + UnitsPerSecond) = Second(t) + 1
        BY <4>1, SecondStep, SecondBounds
      <4>3. Second(t + UnitsPerSecond) <= Second(clock)
        BY <1>1, <4>1, <4>2, SecondMonotonic
      <4>4. QED BY <1>1, <1>3, <4>1, <4>2, <4>3
    <3>5. \A t \in ran' : MatchesTrigger(DateAt(t), trigger)
      BY <3>1, <3>2 DEF CronInv, RunsAsScheduled
    <3>6. \A t, u \in ran' : t < u => Second(t) < Second(u) /\ u - t >= intervalMs
      <4>1. SUFFICES ASSUME NEW t \in ran', NEW u \in ran', t < u
                     PROVE  Second(t) < Second(u) /\ u - t >= intervalMs
        OBVIOUS
      <4>2. CASE t \in ran /\ u \in ran
        BY <4>1, <4>2 DEF CronInv, RunsAsScheduled
      <4>3. CASE t \in ran /\ u = clock
        BY <3>3, <3>4, <4>3
      <4>4. CASE t = clock
        <5>1. u \in Nat /\ u <= clock
          BY <1>1, <3>1, <3>4
        <5>2. QED BY <1>1, <4>1, <4>4, <5>1
      <4>5. QED BY <3>1, <4>2, <4>3, <4>4
    <3>7. QED BY <1>2, <3>5, <3>6 DEF RunsAsScheduled, Second, MatchesTrigger, DateAt
  <2>3. QED BY <2>1, <2>2
<1>11. QED BY <1>6, <1>7, <1>8, <1>9, <1>10 DEF CronInv

\* Every step keeps the invariant.
LEMMA CronStays == CronInv /\ [CronNext]_cronVars => CronInv'
BY NoTick, TickKeeps DEF CronNext

-----------------------------------------------------------------------------
(* The theorems.                                                           *)

(***************************************************************************)
(* In every reachable state the next tick is due in the second behind the  *)
(* last that had one, and a whole resolution behind the last that fired.   *)
(***************************************************************************)
THEOREM CronInvariance == CronSpec => []CronInv
<1>1. QED BY CronStarts, CronStays, PTL DEF CronSpec

\* The variables keep their types, and no timer is later than MaxLate.
THEOREM CronTypeCorrect == CronSpec => []CronTypeOK
<1>1. CronInv => CronTypeOK
  BY DEF CronInv
<1>2. QED BY <1>1, CronInvariance, PTL

\* However late timers are, runs match the trigger, one to a second, intervalMs apart.
THEOREM Scheduled == CronSpec => []RunsAsScheduled
<1>1. CronInv => RunsAsScheduled
  BY DEF CronInv
<1>2. QED BY <1>1, CronInvariance, PTL

\* With timers less than a second late, polling never skips two seconds in a row.
THEOREM PollsEveryOther ==
  ASSUME MaxLate < UnitsPerSecond
  PROVE  CronSpec => []NoTwoSecondsSkipped
<1>1. CronInv => NoTwoSecondsSkipped
  <2> SUFFICES ASSUME CronInv, NEW s \in Elapsed, s + 1 \in Elapsed, Second(due) > s + 1
      PROVE  s \in ticked \/ s + 1 \in ticked
    BY DEF NoTwoSecondsSkipped
  <2>1. s \in Nat \ {0} /\ Second(due) \in Nat
    <3>1. due \in Nat /\ Horizon \in Nat
      BY DelayAssumption DEF CronInv, CronTypeOK
    <3>2. QED BY <3>1, SecondBounds DEF Elapsed
  <2>2. QED BY <2>1 DEF CronInv, Polled
<1>2. QED BY <1>1, CronInvariance, PTL

\* As long as no timer ran late, a job with no intervalMs fires in every second that matches.
THEOREM MissesNothing == CronSpec => []FiresWhenPunctual
<1>1. CronInv => FiresWhenPunctual
  <2> SUFFICES ASSUME CronInv, ~late, NEW s \in 1..Second(Horizon), Matched(s)
      PROVE  s \in fired
    BY DEF FiresWhenPunctual
  <2>1. /\ s \in Nat \ {0} /\ due \in Nat /\ due >= (s + 1) * UnitsPerSecond
        /\ intervalMs = 0 /\ MatchesTrigger(DateAt(s * UnitsPerSecond), trigger)
    <3>1. Second(Horizon) \in Nat
      BY DelayAssumption, SecondBounds
    <3>2. QED BY <3>1 DEF CronInv, CronTypeOK, Matched
  <2>2. s < Second(due)
    <3>1. s + 1 \in Nat
      BY <2>1
    <3>2. (s + 1) * UnitsPerSecond \in Nat /\ Second((s + 1) * UnitsPerSecond) = s + 1
      BY <3>1, SecondStarts
    <3>3. Second((s + 1) * UnitsPerSecond) <= Second(due) /\ Second(due) \in Nat
      BY <2>1, <3>2, SecondMonotonic, SecondBounds
    <3>4. QED BY <2>1, <3>2, <3>3
  <2>3. QED BY <2>1, <2>2 DEF CronInv, Punctual
<1>2. QED BY <1>1, CronInvariance, PTL
=============================================================================
