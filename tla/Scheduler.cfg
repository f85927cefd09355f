SPECIFICATION FairSpec
CONSTANTS
  a1 = a1
  AtIds = {a1}
  Tasks = 2
  Faults = 2
  Others = 1
INVARIANTS CancelledStaysGone OneBackend PromiseKept
PROPERTIES ForeignJobsKept TasksDrain
