--------------------------- MODULE MCNtfsNamespace --------------------------
(* Model values for NtfsNamespace.  Two names in each of two directories, one *)
(* directory and two files beside the root are the least with which a file   *)
(* replaces a file, a file or a directory replaces an empty directory, and a *)
(* rename leaves its directory.                                              *)
EXTENDS NtfsNamespace

CONSTANTS root, d1, f1, f2, logfile, a, b, nil

UserDirs  == {d1}
UserFiles == {f1, f2}
LogFile   == {logfile}
AB        == {a, b}
JustB     == {b}
=============================================================================
