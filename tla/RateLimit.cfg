SPECIFICATION FairSpec
CONSTANTS
  Callers = {t1, t2}
  NoCaller = NoCaller
  Amounts = {0, 2, 5}
  Rate = 3
  Second = 4
  ShortWait = 2
  Thresh0 = 4
  ThreshMin = 2
  ThreshMax = 8
  Wall0 = 20
  ClockSteps <- MCClockSteps
  MaxSteps = 1
  MaxCalls = 4
  MaxIdle = 5
INVARIANTS
  TypeOK
  Paced
  WaitIsOwed
PROPERTIES
  CallReturns
CHECK_DEADLOCK FALSE
