--------------------------- MODULE MCScanSchedule ---------------------------
(* A folder with two files and one of these files as a path of its own.     *)
EXTENDS ScanSchedule, TLC

CONSTANTS folder, file, f1, f2

FolderAndFile == (folder :> {f1, f2}) @@ (file :> {f2})
=============================================================================
