SPECIFICATION FairSpec
CONSTANTS
  folder = folder
  file = file
  f1 = f1
  f2 = f2
  Paths = {folder, file}
  Folders = {folder}
  Files = {f1, f2}
  Holds <- FolderAndFile
  MaxInterval = 2
INVARIANTS TypeOK ReportBelongs
PROPERTIES ReportExactUnlessDoubtful ScansApart LateReportReplaced DueScansStartUntilStop
