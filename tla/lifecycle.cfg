SPECIFICATION FairSpec
CONSTANTS
  Sessions = {s1}
  Refresh = refresh
  Update = update
  Schedule = schedule
  Monitor = monitor
  Launches = 1
INVARIANTS TypeOK JoinedUnlessBusy NoTrayLeft
PROPERTIES StopCompletes EverySessionServed
CHECK_DEADLOCK FALSE
