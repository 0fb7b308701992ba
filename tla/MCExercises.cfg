SPECIFICATION FairSpec
CONSTANTS
  Loops = 10
  MaxKills = 3
  COUNT_OF_SORTING_THREADS = 3
  MaxLines = 3
  SizeRange = 256
  Lines <- SomeLines
  COUNT_OF_THREADS = 3
  STOP_POINTS = 2
  MaxRounds = 4
  IN_BUFFER_SIZE = 5
  MAX_SCREEN_LINES = 2
  MIN_READ_BUFF_SIZE = 3
  MaxBytes = 9
  Key = {k1, k2, k3}
  Headers = {h1, h2}
  Response = {r1, r2}
  Nothing = Nothing
  Garbage = Garbage
INVARIANTS
  SignalUnderWay StuckCause OneToken OrderAsFound
  NoLostWakeup ListIntact CrashCause SortsLeave
  TermsSummed PagedFaithfully StoredAsGiven
PROPERTIES RefinesAlternation AllFinish RefinesAccess AllGoOn
CHECK_DEADLOCK FALSE
