-------------------------------- MODULE MCKill --------------------------------
(* Small instances of KillScript for TLC. *)
EXTENDS KillScript, TLC

Interchangeable == Permutations(Requests) \union Permutations(Stress)
===============================================================================
