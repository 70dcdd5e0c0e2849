-------------------------------- MODULE MCSignup --------------------------------
(* Small instances of Signup for TLC. *)
EXTENDS Signup, TLC

Interchangeable == Permutations(Requests)
===============================================================================
