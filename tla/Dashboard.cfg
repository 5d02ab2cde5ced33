\* One submission, one click and one timer: any two of their refreshes overlap.
CONSTANTS
  s1 = s1
  c1 = c1
  t1 = t1
  Submits <- OneSubmit
  Clicks <- OneClick
  Timers <- OneTimer
  MaxTroubles = 1
  MaxOverlap = 2
  None = None
SPECIFICATION DashSpec
INVARIANTS
  DashTypeOK
  SuccessIsTrue
  HonestWhenCalm
PROPERTIES
  OldAnswersRunOut
  JobsEnd
  PageCatchesUp
