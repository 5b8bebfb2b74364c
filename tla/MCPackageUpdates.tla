--------------------------- MODULE MCPackageUpdates ---------------------------
(* Two payload files and two versions: an apply can die between the files and *)
(* be retried, and the point of the first try is older than the torn one.     *)
EXTENDS PackageUpdates, TLC

CommandsAndFiles == Permutations(Commands) \cup Permutations(Files)
===============================================================================
