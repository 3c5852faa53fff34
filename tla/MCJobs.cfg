\* Two instances, an interval job and a cron job, and up to two abandoned calls of a job;
\* functions of jobs with a timeout may never settle.
SPECIFICATION FairSpec
CONSTANTS
  Instance = {dflt, other}
  Default = dflt
  Id = {a, b}
  Control = {interval, cron}
  Cron = {cron}
  None = None
  MaxAbandoned = 2
INVARIANTS NoLeakedTimer OneAwaitedCall StartedJobsArmed
PROPERTIES StoppedStaysStopped RunningEnds JobRecurs
