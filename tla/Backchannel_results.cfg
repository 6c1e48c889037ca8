\* Three jobs, one of them unreadable, and a worker that fails twice.
SPECIFICATION FairSpec
CONSTANTS
  Job = {j1, j2, j3}
  NoJob = NoJob
  Unreadable = {j3}
  MaxFaults = 2
INVARIANT ResultKept
PROPERTIES ReplySpec ResultsDelivered
CHECK_DEADLOCK FALSE
