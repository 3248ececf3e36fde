SPECIFICATION Spec
CONSTANTS
  Main = Main
  Updater = Updater
  Callers = {}
  Disks <- ForgedDisks
  MaxFaults = 1
  MaxCrashes = 0
INVARIANT BackupPreventsDefault
