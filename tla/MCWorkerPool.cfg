\* Any interleaving of the API with four tasks, resets under running tasks included.
SPECIFICATION FairSpec
CONSTANTS
  Task = {t1, t2, t3, t4}
  LimitArg = {0, 1, 2}
  DefaultLimit = 3
INVARIANTS Accounting WorkConserving QueuesMatchStages
PROPERTIES LaunchWithinLimit ImplementsPool NoStarvation
