------------------------------- MODULE MCLogViews -------------------------------
(* Small instances of LogViews for TLC. *)
EXTENDS LogViews

CONSTANTS w1, w2, fe, be

Interchangeable == Permutations({w1, w2})
===============================================================================
