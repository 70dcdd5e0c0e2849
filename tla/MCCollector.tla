------------------------------- MODULE MCCollector -------------------------------
(* Small instances of Collector for TLC. *)
EXTENDS Collector

CONSTANTS be, db, loop, prom, dbIp

TwoServers == {be, db}
ThreeAddresses == {loop, prom, dbIp}

\* Prometheus runs on `be`.  Three contents of server_info: as intended; both
\* servers claim one address; a server that was given 127.0.0.1.
Intended == [s \in TwoServers |-> IF s = be THEN {prom} ELSE {dbIp}]
Shared == [s \in TwoServers |-> IF s = be THEN {prom} ELSE {prom, dbIp}]
Local == [s \in TwoServers |-> IF s = be THEN {prom} ELSE {loop, dbIp}]
ThreeLayouts == {Intended, Shared, Local}
===============================================================================
