SPECIFICATION FairSpec
CONSTANTS
  p1 = p1
  p2 = p2
  f1 = f1
  f2 = f2
  Paths = {p1, p2}
  Files = {f1, f2}
  Holds <- Nested
  Nowhere = Nowhere
  MaxFaults = 1
PROPERTY MonitoredFolderScanned
