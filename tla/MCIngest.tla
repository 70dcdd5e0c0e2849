-------------------------------- MODULE MCIngest --------------------------------
(* Small instances of LogIngest for TLC: every batch of three records. *)
EXTENDS LogIngest

CONSTANTS access, auth

AccessLog == {access}
AuthLog == {auth}
BothLogs == {access, auth}
NginxTriples == [1 .. 3 -> {"good", "bad"}]
OneSecurityTriple == {<<"bad", "noise", "good">>}
SecurityTriples == [1 .. 3 -> Kinds]
===============================================================================
