--------------------------- MODULE MetricsQueryProofs ---------------------------
(***************************************************************************)
(* The answers of MetricsQuery are right for any number of servers,        *)
(* addresses, metrics and cycles, and any limit.                           *)
(***************************************************************************)
EXTENDS MetricsQuery, FiniteSetTheorems, TLAPS

\* Every variable keeps its type.
THEOREM QueryTypeCorrect == LogSpec => []LogTypeOK
<1>1. ASSUME QueryAssumption, LogInit
      PROVE  LogTypeOK
  BY <1>1 DEF LogInit, LogTypeOK, QueryAssumption
<1>2. ASSUME QueryAssumption, LogTypeOK, [LogNext]_logged
      PROVE  LogTypeOK'
  <2>1. CASE Begin
    <3>1. PICK t \in Times : time' = Append(time, t)
      BY <2>1 DEF Begin
    <3>2. time' \in Seq(Times) /\ Len(time') = cycle'
      BY <1>2, <2>1, <3>1 DEF Begin, LogTypeOK
    <3>3. cycle \in Nat /\ cycle' = cycle + 1 /\ cycle' \in 0 .. MaxCycles
      BY <1>2, <2>1 DEF Begin, LogTypeOK, QueryAssumption
    <3>4. \A r \in rows : r \in Row /\ r.cycle <= cycle' /\ r.server \in present
      BY <1>2, <3>3 DEF LogTypeOK, Row
    <3> QED
      BY <1>2, <2>1, <3>2, <3>3, <3>4 DEF Begin, LogTypeOK
  <2>2. CASE Store
    <3>1. \A r \in rows' : r \in rows \/ r \in Gatherable
      BY <2>2 DEF Store
    <3>2. \A r \in rows : r \in Row /\ r.cycle <= cycle /\ r.server \in present
      BY <1>2 DEF LogTypeOK
    <3>3. \A r \in Gatherable : r \in Row /\ r.cycle <= cycle /\ r.server \in present
      <4>1. \A r \in Gatherable : r \in Row /\ r.cycle = cycle /\ r.server \in present
        BY DEF Gatherable
      <4>2. cycle \in Nat
        BY <1>2 DEF LogTypeOK
      <4> QED
        BY <4>1, <4>2
    <3>4. \A r \in rows' : r \in Row /\ r.cycle <= cycle /\ r.server \in present
      BY <3>1, <3>2, <3>3
    <3> QED
      BY <1>2, <2>2, <3>4 DEF Store, LogTypeOK
  <2>3. ASSUME NEW s \in Servers, RemoveServer(s)
        PROVE  LogTypeOK'
    BY <1>2, <2>3 DEF RemoveServer, LogTypeOK
  <2>4. CASE UNCHANGED logged
    BY <1>2, <2>4 DEF logged, LogTypeOK
  <2> QED
    BY <1>2, <2>1, <2>2, <2>3, <2>4 DEF LogNext
<1> QED
  BY <1>1, <1>2, QueryAssumption, PTL DEF LogSpec

-------------------------------------------------------------------------------
\* Rows have a cycle and a time.
LEMMA RowTimes ==
  ASSUME QueryAssumption, LogTypeOK
  PROVE  \A r \in rows : /\ r \in Row /\ r.cycle \in 1 .. cycle /\ r.cycle \in Nat
                         /\ r.metric \in 1 .. Metrics /\ r.metric \in Nat
                         /\ At(r) \in Nat
<1> SUFFICES ASSUME NEW r \in rows
             PROVE  /\ r \in Row /\ r.cycle \in 1 .. cycle /\ r.cycle \in Nat
                    /\ r.metric \in 1 .. Metrics /\ r.metric \in Nat
                    /\ At(r) \in Nat
  OBVIOUS
<1>1. r \in Row /\ r.cycle \in 1 .. cycle /\ r.cycle \in Nat
  BY DEF LogTypeOK, Row, QueryAssumption
<1>2. r.metric \in 1 .. Metrics /\ r.metric \in Nat
  BY DEF LogTypeOK, Row, QueryAssumption
<1>3. time[r.cycle] \in Times
  BY <1>1 DEF LogTypeOK
<1> QED
  BY <1>1, <1>2, <1>3 DEF At, QueryAssumption

\* With its clock ahead, the newest cycle of a metric is the one the join finds.
LEMMA NewestFound ==
  ASSUME QueryAssumption, LogTypeOK, NEW s, NEW m, NEW n \in Having(s, m),
         Newest(n, Having(s, m))
  PROVE  Latest(s, m) = {r \in Having(s, m) : r.cycle = n.cycle}
<1>1. \A r \in Having(s, m) : r.cycle \in Nat /\ At(r) \in Nat
  BY RowTimes DEF Having
<1>2. {r \in Joined(s) : r.metric = m} =
        {r \in Having(s, m) : \A q \in Having(s, m) : At(q) <= At(r)}
  BY DEF Joined, Having
<1>3. \A r \in Having(s, m) :
        (\A q \in Having(s, m) : At(q) <= At(r)) <=> r.cycle = n.cycle
  <2>1. \A q \in Having(s, m) : At(q) <= At(n)
    BY <1>1 DEF Newest, At
  <2>2. \A r \in Having(s, m) : r.cycle = n.cycle => At(r) = At(n)
    BY DEF At
  <2>3. \A r \in Having(s, m) : r.cycle # n.cycle => At(r) < At(n)
    BY DEF Newest
  <2> QED
    BY <1>1, <2>1, <2>2, <2>3
<1> QED
  BY <1>2, <1>3 DEF Latest

\* And its time is created_at.
LEMMA NewestTime ==
  ASSUME QueryAssumption, LogTypeOK, NEW s, NEW n \in rows, n.server = s,
         Newest(n, {r \in rows : r.server = s})
  PROVE  CreatedAt(s) = {At(n)}
<1>1. \A r \in rows : At(r) \in Nat
  BY RowTimes
<1>2. \A r \in rows : r.server = s => At(r) <= At(n)
  BY <1>1 DEF Newest, At
<1>3. n \in Joined(s) /\ \A r \in Joined(s) : r \in rows /\ r.server = s
  BY <1>2 DEF Joined
<1> QED
  BY <1>1, <1>2, <1>3 DEF CreatedAt

\* The latest values are right under a clock that advances.
THEOREM LatestCorrect == LogSpec => []LatestRight
<1>1. QueryAssumption /\ LogTypeOK => LatestRight
  BY NewestFound, NewestTime DEF LatestRight
<1> QED
  BY <1>1, QueryTypeCorrect, QueryAssumption, PTL

-------------------------------------------------------------------------------
\* Of a server with one address, a row is known by its cycle and its metric, and of
\* two rows the one of the later cycle has the later id.
LEMMA RowKnown ==
  ASSUME QueryAssumption, LogTypeOK, NEW s, OneHost(s),
         NEW q \in ShownRows(s), NEW r \in ShownRows(s)
  PROVE  /\ q.cycle = r.cycle /\ q.metric = r.metric => q = r
         /\ Before(q, r) <=> \/ q.cycle < r.cycle
                             \/ q.cycle = r.cycle /\ q.metric < r.metric
<1>1. q \in Row /\ r \in Row /\ q.server = s /\ r.server = s /\ q.addr = r.addr
  BY RowTimes DEF ShownRows, OneHost
<1>2. q.cycle = r.cycle /\ q.metric = r.metric => q = r
  BY <1>1 DEF Row
<1>3. Rank[q.addr] \in Nat
  BY <1>1 DEF Row, QueryAssumption
<1> QED
  BY <1>1, <1>2, <1>3 DEF Before

\* A set of rows is no larger than its cycles times the metrics shown.
LEMMA RowBound ==
  ASSUME QueryAssumption, LogTypeOK, NEW s, OneHost(s), NEW R \in SUBSET ShownRows(s),
         NEW C, IsFiniteSet(C), \A r \in R : r.cycle \in C
  PROVE  IsFiniteSet(R) /\ Cardinality(R) <= Cardinality(C) * Cardinality(Shown)
<1> DEFINE f == [r \in R |-> <<r.cycle, r.metric>>]
<1>1. IsFiniteSet(Shown)
  BY FS_Interval, FS_Subset, 1 \in Int, Metrics \in Int DEF QueryAssumption
<1>2. IsFiniteSet(C \X Shown) /\ Cardinality(C \X Shown) = Cardinality(C) * Cardinality(Shown)
  BY <1>1, FS_Product
<1>3. f \in [R -> C \X Shown]
  BY DEF ShownRows
<1>4. \A q, r \in R : f[q] = f[r] => q = r
  BY RowKnown
<1>5. f \in Injection(R, C \X Shown)
  BY <1>3, <1>4 DEF Injection, IsInjective
<1> QED
  BY <1>2, <1>5, FS_Injection

\* The rows of the last `limit` cycles fit into the window.
LEMMA RecentInWindow ==
  ASSUME QueryAssumption, LogTypeOK, NEW s, OneHost(s), NEW limit \in Limits,
         NEW r \in ShownRows(s), r.cycle \in Recent(s, limit)
  PROVE  r \in Window(s, limit)
<1> DEFINE later == {q \in ShownRows(s) : Before(r, q)}
           newer == {d \in Cycles(s) : d > r.cycle}
<1>1. IsFiniteSet(newer) /\ Cardinality(newer) \in Nat
  <2>1. newer \subseteq 1 .. cycle
    BY RowTimes DEF Cycles, ShownRows
  <2> QED
    BY <2>1, FS_Interval, FS_Subset, FS_CardinalityType, 1 \in Int, cycle \in Int DEF LogTypeOK
<1>2. Cardinality(newer) < limit
  BY DEF Recent
<1>3. r.cycle \notin newer
  BY RowTimes DEF ShownRows
<1>4. IsFiniteSet(newer \union {r.cycle}) /\
      Cardinality(newer \union {r.cycle}) = Cardinality(newer) + 1
  BY <1>1, <1>3, FS_AddElement
<1>5. \A q \in later \union {r} : q \in ShownRows(s) /\ q.cycle \in newer \union {r.cycle}
  <2>1. ASSUME NEW q \in later
        PROVE  q.cycle \in newer \union {r.cycle}
    BY RowTimes, RowKnown DEF Cycles, ShownRows
  <2> QED
    BY <2>1
<1>6. IsFiniteSet(later \union {r}) /\
      Cardinality(later \union {r}) <= (Cardinality(newer) + 1) * Cardinality(Shown)
  BY <1>4, <1>5, RowBound
<1>7. IsFiniteSet(later)
  BY <1>6, FS_Subset
<1>8. r \notin later
  BY RowTimes, RowKnown DEF ShownRows
<1>9. Cardinality(later \union {r}) = Cardinality(later) + 1 /\ Cardinality(later) \in Nat
  BY <1>7, <1>8, FS_AddElement, FS_CardinalityType
<1>10. IsFiniteSet(Shown) /\ Cardinality(Shown) \in Nat
  BY FS_Interval, FS_Subset, FS_CardinalityType, 1 \in Int, Metrics \in Int DEF QueryAssumption
<1>11. \A a, b, k \in Nat : a < b => (a + 1) * k <= b * k
  OBVIOUS
<1>12. (Cardinality(newer) + 1) * Cardinality(Shown) <= limit * Cardinality(Shown)
  BY <1>1, <1>2, <1>10, <1>11 DEF QueryAssumption
<1>13. limit * Cardinality(Shown) \in Nat /\
       (Cardinality(newer) + 1) * Cardinality(Shown) \in Nat
  BY <1>1, <1>10 DEF QueryAssumption
<1>14. Cardinality(later) < limit * Cardinality(Shown)
  BY <1>6, <1>9, <1>12, <1>13
<1> QED
  BY <1>14 DEF Window

\* The window has all rows of the cycles later than one it has a row of.
LEMMA WindowClosed ==
  ASSUME QueryAssumption, LogTypeOK, NEW s, OneHost(s), NEW limit \in Limits,
         NEW r \in Window(s, limit), NEW q \in ShownRows(s), q.cycle > r.cycle
  PROVE  q \in Window(s, limit)
<1> DEFINE after(x) == {y \in ShownRows(s) : Before(x, y)}
<1>1. r \in ShownRows(s) /\ Cardinality(after(r)) < limit * Cardinality(Shown)
  BY DEF Window
<1>2. \A x \in ShownRows(s) : x.cycle \in 1 .. cycle /\ x.cycle \in Nat /\ x.metric \in Nat
  BY RowTimes DEF ShownRows
<1>3. IsFiniteSet(1 .. cycle)
  BY FS_Interval, 1 \in Int, cycle \in Int DEF LogTypeOK
<1>4. IsFiniteSet(after(r))
  BY <1>2, <1>3, RowBound, after(r) \in SUBSET ShownRows(s)
<1>5. after(q) \subseteq after(r)
  BY <1>1, <1>2, RowKnown
<1>6. Cardinality(after(q)) <= Cardinality(after(r))
        /\ Cardinality(after(q)) \in Nat /\ Cardinality(after(r)) \in Nat
  BY <1>4, <1>5, FS_Subset, FS_CardinalityType
<1>7. limit \in Nat /\ Cardinality(Shown) \in Nat
  BY FS_Interval, FS_Subset, FS_CardinalityType, 1 \in Int, Metrics \in Int DEF QueryAssumption
<1>8. Cardinality(after(q)) < limit * Cardinality(Shown)
  BY <1>1, <1>6, <1>7
<1> QED
  BY <1>8 DEF Window

\* The times kept are those of the last cycles.
LEMMA KeptTimes ==
  ASSUME QueryAssumption, LogTypeOK, NEW s, OneHost(s), ClockAdvances(s), NEW limit \in Limits
  PROVE  DOMAIN History(s, limit) = {time[c] : c \in Recent(s, limit)}
<1> DEFINE times == {At(r) : r \in Window(s, limit)}
           kept == {t \in times : Cardinality({u \in times : u > t}) < limit}
<1>1. DOMAIN History(s, limit) = kept
  BY DEF History
<1>2. \A r \in Window(s, limit) : r \in ShownRows(s) /\ r.cycle \in Cycles(s)
  BY DEF Window, Cycles
<1>3. ASSUME NEW r \in Window(s, limit)
      PROVE  At(r) \in kept <=> r.cycle \in Recent(s, limit)
  <2> DEFINE U == {u \in times : u > At(r)}
             D == {d \in Cycles(s) : d > r.cycle}
             f == [d \in D |-> time[d]]
  <2>1. \A d \in Cycles(s) : d \in 1 .. cycle /\ d \in Nat /\ time[d] \in Nat
    BY RowTimes DEF Cycles, ShownRows, At
  <2>2. ASSUME NEW d \in D
        PROVE  time[d] \in U
    <3>1. PICK q \in ShownRows(s) : q.cycle = d
      BY DEF Cycles
    <3>2. q \in Window(s, limit) /\ At(q) = time[d]
      BY <3>1, WindowClosed DEF At
    <3>3. time[d] > At(r)
      BY <1>2, <2>1 DEF ClockAdvances, At
    <3> QED
      BY <3>2, <3>3
  <2>3. ASSUME NEW u \in U
        PROVE  \E d \in D : time[d] = u
    <3>1. PICK q \in Window(s, limit) : u = At(q) /\ u > At(r)
      OBVIOUS
    <3>2. q.cycle \in Cycles(s) /\ u = time[q.cycle]
      BY <1>2, <3>1 DEF At
    <3>3. q.cycle > r.cycle
      BY <1>2, <2>1, <3>1, <3>2 DEF ClockAdvances, At
    <3> QED
      BY <3>2, <3>3
  <2>4. \A d, e \in D : time[d] = time[e] => d = e
    BY <2>1 DEF ClockAdvances
  <2>5. f \in Bijection(D, U)
    BY <2>2, <2>3, <2>4 DEF Bijection, Injection, Surjection, IsInjective
  <2>6. IsFiniteSet(D)
    <3>1. D \subseteq 1 .. cycle
      BY <2>1
    <3> QED
      BY <3>1, FS_Interval, FS_Subset, 1 \in Int, cycle \in Int DEF LogTypeOK
  <2>7. Cardinality(U) = Cardinality(D)
    BY <2>5, <2>6, FS_Bijection DEF ExistsBijection
  <2>8. At(r) \in kept <=> Cardinality(U) < limit
    OBVIOUS
  <2>9. r.cycle \in Recent(s, limit) <=> Cardinality(D) < limit
    BY <1>2 DEF Recent
  <2> QED
    BY <2>7, <2>8, <2>9
<1>4. ASSUME NEW t \in kept
      PROVE  \E c \in Recent(s, limit) : t = time[c]
  <2>1. PICK r \in Window(s, limit) : t = At(r)
    OBVIOUS
  <2> QED
    BY <1>3, <2>1 DEF At
<1>5. ASSUME NEW c \in Recent(s, limit)
      PROVE  time[c] \in kept
  <2>1. PICK r \in ShownRows(s) : r.cycle = c
    BY DEF Recent, Cycles
  <2>2. r \in Window(s, limit)
    BY <2>1, RecentInWindow
  <2> QED
    BY <1>3, <2>1, <2>2 DEF At
<1> HIDE DEF kept
<1> QED
  BY <1>1, <1>4, <1>5

\* At each of them the point has all values of its cycle.
LEMMA PointsWhole ==
  ASSUME QueryAssumption, LogTypeOK, NEW s, OneHost(s), ClockAdvances(s), NEW limit \in Limits,
         NEW c \in Recent(s, limit), NEW m \in Shown
  PROVE  Point({r \in Window(s, limit) : At(r) = time[c]}, m) =
           {r \in ShownRows(s) : At(r) = time[c] /\ r.metric = m}
<1> DEFINE of == {r \in ShownRows(s) : At(r) = time[c] /\ r.metric = m}
<1>1. \A r \in ShownRows(s) : /\ r.cycle \in Cycles(s) /\ r.cycle \in Nat
                              /\ r.metric \in Nat /\ At(r) \in Nat
  BY RowTimes DEF Cycles, ShownRows
<1>2. \A r \in of : r.cycle = c
  <2>1. c \in Cycles(s) /\ c \in Nat
    BY <1>1 DEF Recent, Cycles
  <2> QED
    BY <1>1, <2>1 DEF ClockAdvances, At
<1>3. of = {r \in {q \in Window(s, limit) : At(q) = time[c]} : r.metric = m}
  BY <1>2, RecentInWindow DEF Window
<1>4. \A q, r \in of : q = r
  BY <1>2, RowKnown
<1>5. \A q, r \in of : ~Before(q, r)
  BY <1>1, <1>4, RowKnown
<1> QED
  BY <1>3, <1>5 DEF Point

\* The history is right for a server with one address under a clock that advances.
THEOREM HistoryCorrect == LogSpec => []HistoryRight
<1>1. ASSUME QueryAssumption, LogTypeOK, NEW s \in present, NEW limit \in Limits,
             OneHost(s), ClockAdvances(s)
      PROVE  History(s, limit) =
               [t \in {time[c] : c \in Recent(s, limit)} |-> [m \in Shown |->
                  {r \in ShownRows(s) : At(r) = t /\ r.metric = m}]]
  <2> DEFINE value(t, m) == Point({r \in Window(s, limit) : At(r) = t}, m)
             right(t, m) == {r \in ShownRows(s) : At(r) = t /\ r.metric = m}
             kept == {time[c] : c \in Recent(s, limit)}
  <2>1. History(s, limit) = [t \in DOMAIN History(s, limit) |-> [m \in Shown |-> value(t, m)]]
    BY DEF History
  <2>2. DOMAIN History(s, limit) = kept
    BY <1>1, KeptTimes
  <2>3. \A t \in kept : \A m \in Shown : value(t, m) = right(t, m)
    BY <1>1, PointsWhole
  <2> HIDE DEF value, right, kept
  <2>4. \A t \in kept : [m \in Shown |-> value(t, m)] = [m \in Shown |-> right(t, m)]
    BY <2>3
  <2>5. [t \in kept |-> [m \in Shown |-> value(t, m)]] =
          [t \in kept |-> [m \in Shown |-> right(t, m)]]
    BY <2>4
  <2>6. History(s, limit) = [t \in kept |-> [m \in Shown |-> right(t, m)]]
    BY <2>1, <2>2, <2>5
  <2> QED
    BY <2>6 DEF kept, right
<1>2. QueryAssumption /\ LogTypeOK => HistoryRight
  BY <1>1 DEF HistoryRight
<1> QED
  BY <1>2, QueryTypeCorrect, QueryAssumption, PTL
===============================================================================
