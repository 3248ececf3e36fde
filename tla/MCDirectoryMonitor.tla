------------------------- MODULE MCDirectoryMonitor -------------------------
(* A folder with two files, one of them in a sub-folder that a client may   *)
(* choose as well: a scan of p1 can be cut in two, and a change of f1 is    *)
(* not seen by a watch of p2.                                               *)
EXTENDS DirectoryMonitor, TLC

CONSTANTS p1, p2, f1, f2

Nested == (p1 :> {f1, f2}) @@ (p2 :> {f2})
=============================================================================
