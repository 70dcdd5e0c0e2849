------------------------------- MODULE MCMetrics -------------------------------
(* Small instances of MetricsQuery for TLC. *)
EXTENDS MetricsQuery

CONSTANTS be, db, loop, prom, dbIp

\* `be` is reported as 127.0.0.1 and by its own address, which the collector files
\* under one server; `db` has one address.
ThreeAddresses == {loop, prom, dbIp}
BothHosts == {<<loop, be>>, <<prom, be>>, <<dbIp, db>>}
Order == [a \in ThreeAddresses |-> CASE a = loop -> 1 [] a = prom -> 2 [] a = dbIp -> 3]
===============================================================================
