SPECIFICATION Spec
CONSTANTS
  Main = Main
  Updater = Updater
  Callers = {}
  Disks <- GoodDisks
  MaxFaults = 0
  MaxCrashes = 2
INVARIANTS
  GoodCopySurvives
  MemoryMatchesFile
