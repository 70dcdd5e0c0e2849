------------------------------ MODULE MetricsQuery ------------------------------
(***************************************************************************)
(* The answers of /infra/metrics and /infra/metrics/history                *)
(* (infra_repository.py, endpoints/infra.py) over any table MetricsLog     *)
(* allows.                                                                 *)
(*                                                                         *)
(* The latest values are found by the time of their cycle, the history by  *)
(* the order of the ids, cut after a number of rows and only then grouped  *)
(* by time.                                                                *)
(***************************************************************************)
EXTENDS MetricsLog, FiniteSets

CONSTANTS
  Rank,      \* the order of the addresses in an answer of Prometheus
  Shown,     \* the metrics of a history point: cpu, memory, disk
  Limits     \* values of the query parameter

ASSUME QueryAssumption ==
  /\ Rank \in [Addresses -> Nat]
  /\ \A a, b \in Addresses : Rank[a] = Rank[b] => a = b
  /\ Metrics \in Nat /\ Shown \subseteq 1 .. Metrics
  /\ Times \subseteq Nat /\ Limits \subseteq Nat \ {0}
  /\ MaxCycles \in Nat

-------------------------------------------------------------------------------
(* The latest values *)

At(r) == time[r.cycle]

\* The join without the server in its outer filter.
BugJoinAllServers(s) ==
  {r \in rows : \E m \in rows :
     /\ m.server = s /\ m.metric = r.metric /\ At(m) = At(r)
     /\ \A q \in rows : q.server = s /\ q.metric = m.metric => At(q) <= At(m)}
\* The rows that have the greatest time of their metric.
Joined(s) ==
  {r \in rows : r.server = s /\
     \A q \in rows : q.server = s /\ q.metric = r.metric => At(q) <= At(r)}

\* What a metric may be answered with: one of the rows, whichever the join returns
\* last, or 0.0 if there is none.
Zero == "0.0"
Latest(s, m) ==
  LET found == {r \in Joined(s) : r.metric = m} IN IF found = {} THEN {Zero} ELSE found

\* created_at: the newest time among them, if there is one.
CreatedAt(s) == {t \in {At(r) : r \in Joined(s)} : \A r \in Joined(s) : At(r) <= t}

-------------------------------------------------------------------------------
(* The history *)

\* The order of the ids.
Before(q, r) ==
  \/ q.cycle < r.cycle
  \/ q.cycle = r.cycle /\ q.metric < r.metric
  \/ q.cycle = r.cycle /\ q.metric = r.metric /\ Rank[q.addr] < Rank[r.addr]

ShownRows(s) == {r \in rows : r.server = s /\ r.metric \in Shown}

\* LIMIT counts the points, not the rows.
BugLimitRows(s, limit) ==
  {r \in ShownRows(s) : Cardinality({q \in ShownRows(s) : Before(r, q)}) < limit}
\* ORDER BY id DESC LIMIT limit * 3
Window(s, limit) ==
  {r \in ShownRows(s) :
     Cardinality({q \in ShownRows(s) : Before(r, q)}) < limit * Cardinality(Shown)}

\* The rows are gone through from the last to the first, so the lowest id of a
\* group stays.
Point(group, m) ==
  LET of == {r \in group : r.metric = m}
  IN {r \in of : \A q \in of : ~Before(q, r)}

\* result[:limit], newest first; an empty set is shown as 0.0.
History(s, limit) ==
  LET window == Window(s, limit)
      times == {At(r) : r \in window}
      kept == {t \in times : Cardinality({u \in times : u > t}) < limit}
  IN [t \in kept |-> [m \in Shown |-> Point({r \in window : At(r) = t}, m)]]

-------------------------------------------------------------------------------
(* Properties *)

\* If the clock of the newest cycle that has a metric is ahead of all others, the
\* metric is answered with a value of that cycle and that server, however the rows
\* of other metrics and servers fall; and if the clock is so for all cycles of the
\* server, created_at is the time of the last (infra_repository.py 21-46, infra.py
\* 22-40).
Having(s, m) == {r \in rows : r.server = s /\ r.metric = m}
Newest(n, S) == \A q \in S : q.cycle = n.cycle \/ (q.cycle < n.cycle /\ At(q) < At(n))
LatestRight ==
  \A s \in present :
    /\ \A m \in 1 .. Metrics : \A n \in Having(s, m) : Newest(n, Having(s, m)) =>
         Latest(s, m) = {r \in Having(s, m) : r.cycle = n.cycle}
    /\ \A n \in rows : n.server = s /\ Newest(n, {r \in rows : r.server = s}) =>
         CreatedAt(s) = {At(n)}

\* The last `limit` cycles that have something to show.
Cycles(s) == {r.cycle : r \in ShownRows(s)}
Recent(s, limit) == {c \in Cycles(s) : Cardinality({d \in Cycles(s) : d > c}) < limit}

OneHost(s) == \A q, r \in ShownRows(s) : q.addr = r.addr
ClockAdvances(s) == \A c, d \in Cycles(s) : c < d => time[c] < time[d]

\* For a server with one address and a clock that advances, the history is the last
\* `limit` cycles, each with all its values, although it is cut by rows and cycles
\* have holes (infra_repository.py 48-77).
HistoryRight ==
  \A s \in present, limit \in Limits : OneHost(s) /\ ClockAdvances(s) =>
    History(s, limit) =
      [t \in {time[c] : c \in Recent(s, limit)} |-> [m \in Shown |->
         {r \in ShownRows(s) : At(r) = t /\ r.metric = m}]]
===============================================================================
