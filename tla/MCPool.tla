--------------------------------- MODULE MCPool ---------------------------------
(* Small instances of RequestPool for TLC. *)
EXTENDS RequestPool

CONSTANTS r1, r2, w1

Two == {r1, r2}
OneWriter == {w1}
===============================================================================
