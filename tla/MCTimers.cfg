CONSTANTS
  attempt = attempt
  switch = switch
  exit = exit
  Wrap = 8
  Spans <- MCSpans
  Delays <- MCDelays
  Deadlines <- MCDeadlines
  Length <- MCLength
  Preemptive = FALSE
  MaxStarts = 2
SPECIFICATION FairSpec
INVARIANT DueExactly
PROPERTY NotFiredEarly
PROPERTY TimersFire
