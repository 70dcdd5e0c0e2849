--------------------------------- MODULE MCAuth ---------------------------------
(* Small instances of AuthService for TLC. *)
EXTENDS AuthService

CONSTANTS w1, w2, alice, ghost

BothSlots == {w1, w2}
OneAccount == {alice}
===============================================================================
