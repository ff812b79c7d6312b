----------------------------- MODULE MCRegistry -----------------------------
(* Finite instances of Registry. *)
EXTENDS Registry

CONSTANTS f1, f2

\* Two directories of one file each.
TwoDirectories == <<<<f1>>, <<f2>>>>
=============================================================================
