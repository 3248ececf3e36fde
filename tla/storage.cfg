SPECIFICATION FairSpec
CONSTANTS
  Main = Main
  Updater = Updater
  Callers = {c1}
  Disks <- AllDisks
  MaxFaults = 1
  MaxCrashes = 1
INVARIANTS
  TypeOK
  ReadyMeansLoaded
PROPERTIES
  ImplementsContract
  LoadsAndUpdatesEnd
