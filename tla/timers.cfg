\* Two pipelines enabled and disabled at any pass of a thread with a period between theirs.
CONSTANTS
  Pipelines <- ShortAndLong
  Period <- TwoPeriods
  ThreadPeriod = 4
  Gap = 2
  MaxTime = 16
SPECIFICATION Spec
INVARIANTS ServedInTime ThreadServedInTime
\* The time ends: MaxTime.
CHECK_DEADLOCK FALSE
