-------------------------------- MODULE MCSecurity --------------------------------
(* A small instance of SecurityIngest for TLC: one chunk of one or two things. *)
EXTENDS SecurityIngest

CONSTANTS auth, root, postgres, password, interactive

\* The shortest name the sudo pattern takes, and one sudo does not pad.
Lengths == [u \in {root, postgres} |-> IF u = root THEN 4 ELSE 8]

\* A sudo that ran is three lines.
Batches == UNION {[1 .. n -> Kinds] : n \in 1 .. 3 * MaxThings}
===============================================================================
