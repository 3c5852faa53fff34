------------------------------ MODULE CronJob ------------------------------
(***************************************************************************)
(* tools/jobs/jobs.ts: when the ticks of one armed cron job call its       *)
(* function.  A cron job polls: setInterval ticks once a second, and a     *)
(* tick does something only if the wall clock matches the trigger at that  *)
(* moment.                                                                 *)
(*                                                                         *)
(* The clock counts units, UnitsPerSecond to a second.  The event loop may *)
(* run a timer callback up to MaxLate units after it is due, and rearms    *)
(* an interval timer from the moment it ran.  The calendar has days of     *)
(* SecondsPerDay seconds; hour, minute and second of the source are one    *)
(* component, and so are year, month and day.                              *)
(***************************************************************************)
EXTENDS Integers

CONSTANTS UnitsPerSecond,
          SecondsPerDay,
          MaxLate,        \* how late the event loop runs a timer
          Triggers,       \* CronTriggers: a second, and a day or Any
          Any,            \* an omitted component
          Intervals,      \* intervalMs arguments, in units
          Horizon         \* bound: the clock stops here

ASSUME UnitAssumption == UnitsPerSecond \in Nat \ {0} /\ SecondsPerDay \in Nat \ {0}
ASSUME DelayAssumption == MaxLate \in Nat /\ Intervals \subseteq Nat /\ Horizon \in Nat

VARIABLES trigger, intervalMs,   \* the arguments the job was registered with
          clock,       \* Date.now()
          due,         \* when the interval timer is due
          lastFired,   \* lastFired of #registerCron
          paused,      \* the control's flags
          running,
          late,        \* history: whether the timer ever ran late
          ticked,      \* history: the seconds in which the timer ran
          fired,       \* history: the seconds in which lastFired was set
          ran          \* history: the moments at which the function was called

cronVars ==
  <<trigger, intervalMs, clock, due, lastFired, paused, running, late, ticked, fired, ran>>

\* Mutant: a tick every two seconds.
CronResolutionDoubled == 2 * UnitsPerSecond

\* Mutant: a little more than a second.
CronResolutionTooLong == UnitsPerSecond + 1

CronResolution == UnitsPerSecond

Second(t) == t \div UnitsPerSecond

DateAt(t) == [day |-> Second(t) \div SecondsPerDay, second |-> Second(t) % SecondsPerDay]

\* An omitted day matches every day; the second is never omitted.
MatchesTrigger(date, t) ==
  /\ t.day \in {Any, date.day}
  /\ t.second = date.second

\* The job is armed at some fraction of a second.  0 - intervalMs: never fired.
CronInit ==
  /\ trigger \in Triggers
  /\ intervalMs \in Intervals
  /\ clock \in 0..(UnitsPerSecond - 1)
  /\ due = clock + CronResolution
  /\ lastFired = 0 - intervalMs
  /\ paused = FALSE
  /\ running = FALSE
  /\ late = FALSE
  /\ ticked = {} /\ fired = {} /\ ran = {}

-----------------------------------------------------------------------------
\* Time passes, but never so much that the timer would be later than MaxLate.
Advance ==
  /\ clock < Horizon
  /\ clock < due + MaxLate
  /\ clock' = clock + 1
  /\ UNCHANGED <<trigger, intervalMs, due, lastFired, paused, running, late, ticked, fired, ran>>

\* Mutant: intervalMs is not looked at.
IdleUnspaced == ~MatchesTrigger(DateAt(clock), trigger)

\* A tick that returns early: the trigger does not match, or it is too soon.
Idle ==
  \/ ~MatchesTrigger(DateAt(clock), trigger)
  \/ intervalMs > 0 /\ clock - lastFired < intervalMs

CronTick ==
  /\ clock >= due
  /\ due' = clock + CronResolution
  /\ late' = (late \/ clock > due)
  /\ ticked' = ticked \cup {Second(clock)}
  /\ IF Idle THEN UNCHANGED <<lastFired, running, fired, ran>>
     ELSE /\ lastFired' = clock
          /\ fired' = fired \cup {Second(clock)}
          /\ running' = (running \/ ~paused)
          /\ ran' = IF paused \/ running THEN ran ELSE ran \cup {clock}
  /\ UNCHANGED <<trigger, intervalMs, clock, paused>>

\* The function settles and #execute's finally block runs.
EndRun ==
  /\ running
  /\ running' = FALSE
  /\ UNCHANGED <<trigger, intervalMs, clock, due, lastFired, paused, late, ticked, fired, ran>>

SetPaused(on) ==
  /\ paused' = on
  /\ UNCHANGED <<trigger, intervalMs, clock, due, lastFired, running, late, ticked, fired, ran>>

CronNext == Advance \/ CronTick \/ EndRun \/ (\E on \in BOOLEAN : SetPaused(on))

CronSpec == CronInit /\ [][CronNext]_cronVars

-----------------------------------------------------------------------------
(* Properties.                                                             *)

\* The variables keep their types, and the timer is never later than MaxLate.
CronTypeOK ==
  /\ trigger \in Triggers /\ intervalMs \in Intervals
  /\ late \in BOOLEAN /\ paused \in BOOLEAN /\ running \in BOOLEAN
  /\ clock \in Nat /\ due \in Nat /\ clock <= due + MaxLate
  /\ lastFired \in Int /\ lastFired <= clock
  /\ ticked \subseteq Nat /\ fired \subseteq ticked
  /\ ran \subseteq Nat /\ \A t \in ran : Second(t) \in fired

\* The seconds that began after the job was armed and are over.
Elapsed == {s \in 1..Second(Horizon) : clock >= (s + 1) * UnitsPerSecond}

(***************************************************************************)
(* Every run starts in a second that matches the trigger, no second sees   *)
(* two runs, and runs are at least intervalMs apart, although the interval *)
(* is measured from ticks and not from runs.                               *)
(***************************************************************************)
RunsAsScheduled ==
  /\ \A t \in ran : MatchesTrigger(DateAt(t), trigger)
  /\ \A t, u \in ran : t < u => Second(t) < Second(u) /\ u - t >= intervalMs

(***************************************************************************)
(* With timers less than a second late, polling skips single seconds but   *)
(* never two in a row.                                                     *)
(***************************************************************************)
NoTwoSecondsSkipped ==
  \A s \in Elapsed : s + 1 \in Elapsed /\ Second(due) > s + 1
                       => s \in ticked \/ s + 1 \in ticked

\* Whether second s is over, matches the trigger of an unspaced job, and has had its tick.
Matched(s) ==
  /\ s \in Elapsed /\ due >= (s + 1) * UnitsPerSecond
  /\ intervalMs = 0 /\ MatchesTrigger(DateAt(s * UnitsPerSecond), trigger)

(***************************************************************************)
(* As long as no timer ran late, polling once a second misses nothing: a   *)
(* job with no intervalMs fires in every second that matches its trigger.  *)
(***************************************************************************)
FiresWhenPunctual == ~late => \A s \in 1..Second(Horizon) : Matched(s) => s \in fired
=============================================================================
