----------------------------- MODULE CollectorProofs -----------------------------
(***************************************************************************)
(* What Collector promises about server_metrics, for any servers,          *)
(* addresses, number of metrics, cycles and edits.                         *)
(***************************************************************************)
EXTENDS Collector, TLAPS

\* What the queries of MetricsQuery are about: see there.
CONSTANTS Rank, Shown, Limits

Charts == INSTANCE MetricsQueryProofs WITH Hosts <- Addresses \X Servers

\* The cycle in progress, and its batch: what is gathered belongs to it, and as
\* long as it is not stored no row does.
CurrentCycle ==
  /\ InLoop => cycle >= 1
  /\ \A r \in records : r.cycle = cycle
  /\ task = "insert" => batch[cycle] = records
  /\ \A r \in rows : r.cycle <= cycle
  /\ task \in {"fetch", "insert"} => \A r \in rows : r.cycle # cycle

\* The foreign key of server_metrics.
ForeignKey == \A r \in rows : r.server \in present

CycleInv == TypeOK /\ CurrentCycle /\ ForeignKey /\ WholeCycles

\* The address table and what was gathered with it are as server_info has it.
RightTable ==
  ~edited => /\ \A t \in table : Owns(t[2], t[1])
             /\ \A r \in records : Owns(r.server, r.addr)

-------------------------------------------------------------------------------
\* Resolving addresses picks pairs of the table's type.
LEMMA TableTyped ==
  ASSUME CollectorAssumption, TypeOK, NEW t \in Resolved
  PROVE  WithLoopback(t) \subseteq Addresses \X Servers
<1>1. t \subseteq Addresses \X Servers
  BY DEF Resolved, Claims, TypeOK
<1>2. ASSUME NEW u \in WithLoopback(t)
      PROVE  u \in Addresses \X Servers
  <2>1. CASE u \in t
    BY <1>1, <2>1
  <2>2. CASE u \notin t
    <3>1. PICK v \in t : u = <<Loopback, v[2]>>
      BY <2>2, <1>2 DEF WithLoopback
    <3>2. v[2] \in Servers
      BY <1>1
    <3> QED
      BY <3>1, <3>2 DEF CollectorAssumption
  <2> QED
    BY <2>1, <2>2
<1> QED
  BY <1>2

\* A cycle that begins has its number and its time.
LEMMA BegunTyped ==
  ASSUME CollectorAssumption, TypeOK, BeginCycle
  PROVE  /\ cycle' \in 0 .. MaxCycles /\ metric' \in 1 .. Metrics + 1
         /\ time' \in Seq(Times) /\ Len(time') = cycle'
<1>1. PICK t \in Times : time' = Append(time, t)
  BY DEF BeginCycle
<1>2. time' \in Seq(Times) /\ Len(time') = Len(time) + 1
  BY <1>1 DEF TypeOK
<1> QED
  BY <1>2 DEF BeginCycle, TypeOK, CollectorAssumption

\* Types are kept.  CurrentCycle is needed for `cycle` to be one of 1 .. MaxCycles
\* whenever something is gathered under it.
LEMMA TypeStep ==
  ASSUME CollectorAssumption, CycleInv, [Next]_vars
  PROVE  TypeOK'
<1> USE DEF CycleInv, TypeOK, gathering, begun, store, info
<1>1. CASE Boot
  BY <1>1 DEF Boot, CollectorAssumption
<1>2. CASE Connect \/ ConnectFails \/ LoadFails
  BY <1>2 DEF Connect, ConnectFails, LoadFails
<1>3. CASE Load
  <2>1. PICK t \in Resolved : table' = WithLoopback(t)
    BY <1>3 DEF Load
  <2>2. table' \subseteq Addresses \X Servers
    BY <2>1, TableTyped
  <2>3. BeginCycle
    BY <1>3 DEF Load
  <2>4. /\ metric' \in 1 .. Metrics + 1 /\ cycle' \in 0 .. MaxCycles
        /\ time' \in Seq(Times) /\ Len(time') = cycle'
    BY <2>3, BegunTyped
  <2>5. task' = "fetch" /\ records' = {} /\ edited' = FALSE
    BY <1>3, <2>3 DEF Load, BeginCycle
  <2>6. UNCHANGED <<app, pool, batch, rows, present, layout, edits>>
    BY <1>3 DEF Load
  <2> QED
    BY <2>2, <2>4, <2>5, <2>6
<1>4. CASE Fetch
  <2>1. PICK reporting \in SUBSET Addresses : records' = records \union
         {[cycle |-> cycle, metric |-> metric, addr |-> t[1], server |-> t[2]] :
            t \in {u \in table : u[1] \in reporting}}
    BY <1>4 DEF Fetch
  <2>2. cycle \in 1 .. MaxCycles /\ metric \in 1 .. Metrics
    BY <1>4 DEF Fetch, CurrentCycle, InLoop, CollectorAssumption
  <2>3. records' \subseteq Record
    BY <2>1, <2>2 DEF Record
  <2> QED
    BY <1>4, <2>2, <2>3 DEF Fetch, CollectorAssumption
<1>5. CASE Gathered
  <2>1. batch' \in [1 .. MaxCycles -> SUBSET Record]
    BY <1>5 DEF Gathered
  <2> QED
    BY <1>5, <2>1 DEF Gathered
<1>6. CASE CycleBreaks \/ InsertFails \/ ClosePool \/ Exit
  BY <1>6 DEF CycleBreaks, InsertFails, ClosePool, Exit
<1>7. CASE Insert
  BY <1>7 DEF Insert, Stored
<1>8. CASE Wake
  BY <1>8, BegunTyped DEF Wake, BeginCycle
<1>9. CASE Stop
  BY <1>9 DEF Stop, Cancel, CutShort, Stored
<1>10. CASE Crash
  BY <1>10 DEF Crash, CutShort, Stored
<1>11. ASSUME NEW s \in Servers, Remove(s)
       PROVE  TypeOK'
  BY <1>11 DEF Remove, CollectorAssumption
<1>12. ASSUME NEW l \in Layouts, Readdress(l)
       PROVE  TypeOK'
  BY <1>12 DEF Readdress, CollectorAssumption
<1>13. CASE UNCHANGED vars
  BY <1>13 DEF vars
<1> QED
  BY <1>1, <1>2, <1>3, <1>4, <1>5, <1>6, <1>7, <1>8, <1>9, <1>10, <1>11, <1>12, <1>13
     DEF Next, Step

\* The facts about the cycle in progress are kept.
LEMMA CurrentCycleStep ==
  ASSUME CollectorAssumption, CycleInv, [Next]_vars
  PROVE  CurrentCycle'
<1> USE DEF CycleInv, CurrentCycle, InLoop, gathering, begun, store, info
<1>1. CASE Boot
  BY <1>1 DEF Boot
<1>2. CASE Connect \/ ConnectFails \/ LoadFails
  BY <1>2 DEF Connect, ConnectFails, LoadFails
<1>3. CASE Load \/ Wake
  <2>1. BeginCycle /\ UNCHANGED rows
    BY <1>3 DEF Load, Wake
  <2>2. \A r \in rows' : r.cycle \in Nat /\ r.cycle <= cycle
    BY <2>1 DEF TypeOK, Record
  <2>3. cycle \in Nat /\ cycle' = cycle + 1 /\ records' = {} /\ task' = "fetch"
    BY <2>1 DEF BeginCycle, TypeOK
  <2> QED
    BY <2>2, <2>3
<1>4. CASE Fetch
  <2>1. \A r \in records' : r \in records \/ r.cycle = cycle
    BY <1>4 DEF Fetch
  <2> QED
    BY <1>4, <2>1 DEF Fetch
<1>5. CASE Gathered
  <2>1. cycle \in 1 .. MaxCycles
    BY <1>5 DEF Gathered, TypeOK
  <2>2. batch'[cycle] = records
    BY <1>5, <2>1 DEF Gathered, TypeOK
  <2> QED
    BY <1>5, <2>2 DEF Gathered
<1>6. CASE CycleBreaks \/ InsertFails \/ ClosePool \/ Exit
  BY <1>6 DEF CycleBreaks, InsertFails, ClosePool, Exit
<1>7. CASE Insert \/ Stop \/ Crash
  <2>1. \A r \in rows' : r \in rows \/ r \in records
    BY <1>7 DEF Insert, Stop, Crash, Cancel, CutShort, Stored
  <2>2. task' \notin {"fetch", "insert"} /\ (task' = "sleep" => task = "insert")
    BY <1>7 DEF Insert, Stop, Crash, Cancel
  <2>3. UNCHANGED <<records, cycle>>
    BY <1>7 DEF Insert, Stop, Crash
  <2>4. \A r \in rows' : r.cycle <= cycle
    BY <2>1 DEF TypeOK
  <2> QED
    BY <2>2, <2>3, <2>4
<1>8. ASSUME NEW s \in Servers, Remove(s)
      PROVE  CurrentCycle'
  BY <1>8 DEF Remove
<1>9. ASSUME NEW l \in Layouts, Readdress(l)
      PROVE  CurrentCycle'
  BY <1>9 DEF Readdress
<1>10. CASE UNCHANGED vars
  BY <1>10 DEF vars
<1> QED
  BY <1>1, <1>2, <1>3, <1>4, <1>5, <1>6, <1>7, <1>8, <1>9, <1>10 DEF Next, Step

\* A step that stores, stores the batch of the current cycle, whole.
LEMMA StoreIsWhole ==
  ASSUME CycleInv, task = "insert", Stored, UNCHANGED <<batch, present>>
  PROVE  ForeignKey' /\ WholeCycles'
<1> USE DEF CycleInv
<1>1. ForeignKey'
  BY DEF ForeignKey, Stored
<1>2. ASSUME NEW c \in 1 .. MaxCycles
      PROVE  {r \in rows' : r.cycle = c} \in {{}, {r \in batch[c] : r.server \in present}}
  <2>1. CASE c = cycle
    <3>1. \A r \in rows : r.cycle # c
      BY <2>1 DEF CurrentCycle
    <3>2. \A r \in records : r.cycle = c /\ r.server \in present
      BY <2>1 DEF CurrentCycle, Stored
    <3>3. {r \in rows' : r.cycle = c} = records
      BY <3>1, <3>2 DEF Stored
    <3>4. {r \in batch[c] : r.server \in present} = records
      BY <2>1, <3>2 DEF CurrentCycle
    <3> QED
      BY <3>3, <3>4
  <2>2. CASE c # cycle
    <3>1. {r \in rows' : r.cycle = c} = {r \in rows : r.cycle = c}
      BY <2>2 DEF CurrentCycle, Stored
    <3> QED
      BY <3>1 DEF WholeCycles
  <2> QED
    BY <2>1, <2>2
<1> QED
  BY <1>1, <1>2 DEF WholeCycles

\* The foreign key and the wholeness of cycles are kept.
LEMMA WholeStep ==
  ASSUME CollectorAssumption, CycleInv, [Next]_vars
  PROVE  ForeignKey' /\ WholeCycles'
<1> USE DEF CycleInv, gathering, begun, store, info
<1>1. CASE UNCHANGED <<batch, rows, present>>
  BY <1>1 DEF ForeignKey, WholeCycles
<1>2. CASE task = "insert" /\ Stored /\ UNCHANGED <<batch, present>>
  BY <1>2, StoreIsWhole
<1>3. CASE Gathered
  <2>1. ASSUME NEW c \in 1 .. MaxCycles
        PROVE  {r \in rows : r.cycle = c} \in {{}, {r \in batch'[c] : r.server \in present}}
    <3>1. CASE c = cycle
      BY <1>3, <3>1 DEF Gathered, CurrentCycle
    <3>2. CASE c # cycle
      <4>1. batch'[c] = batch[c]
        BY <1>3, <3>2 DEF Gathered, TypeOK
      <4> QED
        BY <4>1 DEF WholeCycles
    <3> QED
      BY <3>1, <3>2
  <2>2. UNCHANGED <<rows, present>>
    BY <1>3 DEF Gathered
  <2> QED
    BY <2>1, <2>2 DEF ForeignKey, WholeCycles
<1>4. ASSUME NEW s \in Servers, Remove(s)
      PROVE  ForeignKey' /\ WholeCycles'
  <2>1. rows' = {r \in rows : r.server # s} /\ present' = present \ {s} /\ batch' = batch
    BY <1>4 DEF Remove
  <2>2. ASSUME NEW c \in 1 .. MaxCycles
        PROVE  {r \in rows' : r.cycle = c} \in {{}, {r \in batch[c] : r.server \in present'}}
    <3>1. CASE {r \in rows : r.cycle = c} = {}
      BY <2>1, <3>1
    <3>2. CASE {r \in rows : r.cycle = c} = {r \in batch[c] : r.server \in present}
      <4>1. {r \in rows' : r.cycle = c} = {r \in batch[c] : r.server \in present'}
        BY <2>1, <3>2
      <4> QED
        BY <4>1
    <3> QED
      BY <3>1, <3>2 DEF WholeCycles
  <2> QED
    BY <2>1, <2>2 DEF ForeignKey, WholeCycles
<1>5. CASE Insert \/ Stop \/ Crash
  BY <1>1, <1>2, <1>5 DEF Insert, Stop, Crash, Cancel, CutShort
<1>6. CASE Boot \/ Connect \/ ConnectFails \/ Load \/ LoadFails \/ Fetch
  BY <1>1, <1>6 DEF Boot, Connect, ConnectFails, Load, LoadFails, Fetch
<1>7. CASE CycleBreaks \/ InsertFails \/ Wake \/ ClosePool \/ Exit \/ UNCHANGED vars
  BY <1>1, <1>7 DEF CycleBreaks, InsertFails, Wake, ClosePool, Exit, vars
<1>8. ASSUME NEW l \in Layouts, Readdress(l)
      PROVE  ForeignKey' /\ WholeCycles'
  BY <1>1, <1>8 DEF Readdress
<1> QED
  BY <1>3, <1>4, <1>5, <1>6, <1>7, <1>8 DEF Next, Step

\* The three together are inductive.
THEOREM CycleInvariant == Spec => []CycleInv
<1>1. ASSUME CollectorAssumption, Init
      PROVE  CycleInv
  <2> USE <1>1 DEF Init
  <2>1. TypeOK
    <3>1. batch \in [1 .. MaxCycles -> SUBSET Record]
      OBVIOUS
    <3>2. metric \in 1 .. Metrics + 1 /\ cycle \in 0 .. MaxCycles /\ edits \in 0 .. MaxEdits
      BY DEF CollectorAssumption
    <3>3. layout \in [Servers -> SUBSET Addresses]
      BY DEF CollectorAssumption
    <3>4. time \in Seq(Times) /\ Len(time) = cycle
      OBVIOUS
    <3> QED
      BY <3>1, <3>2, <3>3, <3>4 DEF TypeOK
  <2>2. CurrentCycle
    BY DEF CurrentCycle, InLoop
  <2>3. ForeignKey /\ WholeCycles
    BY DEF ForeignKey, WholeCycles
  <2> QED
    BY <2>1, <2>2, <2>3 DEF CycleInv
<1>2. ASSUME CollectorAssumption, CycleInv, [Next]_vars
      PROVE  CycleInv'
  BY <1>2, TypeStep, CurrentCycleStep, WholeStep DEF CycleInv
<1> QED
  BY <1>1, <1>2, CollectorAssumption, PTL DEF Spec

\* Every variable keeps its type.
THEOREM CollectorTypeCorrect == Spec => []TypeOK
BY CycleInvariant, PTL DEF CycleInv

\* A cycle is stored whole or not at all.
THEOREM CyclesAreAtomic == Spec => []WholeCycles
BY CycleInvariant, PTL DEF CycleInv

-------------------------------------------------------------------------------
\* What Load puts into the table is what server_info says at that moment.
LEMMA TableRight ==
  ASSUME NEW t \in Resolved, NEW u \in WithLoopback(t)
  PROVE  Owns(u[2], u[1])
<1>1. t \subseteq Claims /\ \A c \in Claims : \E v \in t : v[1] = c[1]
  BY DEF Resolved
<1>2. CASE u \in t
  <2>1. PICK a \in Addresses, s \in present : u = <<a, s>> /\ a \in layout[s]
    BY <1>1, <1>2 DEF Claims
  <2>2. ASSUME a = Loopback, NEW o \in present, PrometheusAddr \in layout[o],
               PrometheusAddr \in Addresses
        PROVE  PrometheusAddr \in layout[s]
    <3>1. <<PrometheusAddr, o>> \in Claims
      BY <2>2 DEF Claims
    <3>2. PICK v \in t : v[1] = PrometheusAddr
      BY <1>1, <3>1
    <3>3. u = <<Loopback, s>> /\ u[1] = Loopback
      BY <2>1, <2>2
    <3>4. u \notin {w \in t : w[1] = Loopback =>
                     {x[2] : x \in {y \in t : y[1] = PrometheusAddr}} = {}}
      BY <3>2, <3>3
    <3>5. PICK w \in t : w[1] = PrometheusAddr /\ u = <<Loopback, w[2]>>
      BY <3>4 DEF WithLoopback
    <3>6. w[2] = s /\ w[1] \in layout[w[2]]
      BY <3>3, <3>5, <1>1 DEF Claims
    <3> QED
      BY <3>5, <3>6
  <2> QED
    BY <2>1, <2>2, CollectorAssumption DEF Owns, CollectorAssumption
<1>3. CASE u \notin t
  <2>1. PICK w \in t : w[1] = PrometheusAddr /\ u = <<Loopback, w[2]>>
    BY <1>3 DEF WithLoopback
  <2>2. w[2] \in present /\ PrometheusAddr \in layout[w[2]]
    BY <2>1, <1>1 DEF Claims
  <2> QED
    BY <2>1, <2>2 DEF Owns
<1> QED
  BY <1>2, <1>3

\* The table stays right until server_info is edited.
LEMMA RightTableStep ==
  ASSUME RightTable, [Next]_vars
  PROVE  RightTable'
<1> USE DEF gathering, begun, store, info
<1>1. CASE UNCHANGED <<table, records, info>>
  BY <1>1 DEF RightTable, Owns
<1>2. CASE Boot
  BY <1>2 DEF Boot, RightTable
<1>3. CASE Load
  <2>1. PICK t \in Resolved : table' = WithLoopback(t)
    BY <1>3 DEF Load
  <2>2. records' = {} /\ UNCHANGED <<present, layout>>
    BY <1>3 DEF Load, BeginCycle
  <2>3. \A u \in table' : Owns(u[2], u[1])
    BY <2>1, TableRight
  <2>4. \A u \in table' : Owns(u[2], u[1])'
    BY <2>2, <2>3 DEF Owns
  <2> QED
    BY <2>2, <2>4 DEF RightTable
<1>4. CASE Fetch
  <2>1. UNCHANGED <<table, info>>
    BY <1>4 DEF Fetch
  <2>2. \A r \in records' : r \in records \/ \E t \in table : r.addr = t[1] /\ r.server = t[2]
    BY <1>4 DEF Fetch
  <2> QED
    BY <2>1, <2>2 DEF RightTable, Owns
<1>5. CASE Wake
  BY <1>5 DEF Wake, BeginCycle, RightTable, Owns
<1>6. CASE Connect \/ ConnectFails \/ LoadFails \/ Gathered \/ CycleBreaks
  BY <1>1, <1>6 DEF Connect, ConnectFails, LoadFails, Gathered, CycleBreaks
<1>7. CASE Insert \/ InsertFails \/ ClosePool \/ Exit \/ Stop \/ Crash \/ UNCHANGED vars
  BY <1>1, <1>7 DEF Insert, InsertFails, ClosePool, Exit, Stop, Crash, vars
<1>8. ASSUME NEW s \in Servers, Remove(s)
      PROVE  RightTable'
  BY <1>8 DEF Remove, RightTable
<1>9. ASSUME NEW l \in Layouts, Readdress(l)
      PROVE  RightTable'
  BY <1>9 DEF Readdress, RightTable
<1> QED
  BY <1>2, <1>3, <1>4, <1>5, <1>6, <1>7, <1>8, <1>9 DEF Next, Step

\* Values are stored for the server they were measured on, unless server_info has
\* been edited since it was loaded.
THEOREM ValuesAttributed == Spec => RightServer
<1>1. Init => RightTable
  BY DEF Init, RightTable
<1>2. RightTable /\ [Next]_vars => RightTable'
  BY RightTableStep
<1>3. ASSUME RightTable, [Next]_vars
      PROVE  [\A r \in rows' \ rows : ~edited => Owns(r.server, r.addr)]_vars
  <2>1. \A r \in rows' \ rows : r \in records
    BY <1>3 DEF Next, Step, Boot, Connect, ConnectFails, Load, LoadFails, Fetch, Gathered,
       CycleBreaks, Insert, InsertFails, Wake, ClosePool, Exit, Stop, Crash, Remove,
       Readdress, Cancel, CutShort, Stored, BeginCycle, store, vars
  <2> QED
    BY <1>3, <2>1 DEF RightTable
<1> QED
  BY <1>1, <1>2, <1>3, PTL DEF Spec, RightServer

-------------------------------------------------------------------------------
\* A step begins a cycle, stores the batch of one, deletes a server, or is of no concern
\* to the readers.
LEMMA LogStep ==
  ASSUME CollectorAssumption, CycleInv, [Next]_vars
  PROVE  [Log!LogNext]_(Log!logged)
<1> USE DEF gathering, begun, store, info, Log!logged
<1>1. CASE task = "insert" /\ Stored /\ UNCHANGED <<present, begun>>
  <2>1. cycle \in 1 .. MaxCycles /\ \A r \in rows : r.cycle < cycle
    <3>1. cycle \in 1 .. MaxCycles
      BY <1>1 DEF CycleInv, CurrentCycle, InLoop, TypeOK, CollectorAssumption
    <3>2. ASSUME NEW r \in rows
          PROVE  r.cycle < cycle
      <4>1. r.cycle \in Nat /\ r.cycle <= cycle /\ r.cycle # cycle
        BY <1>1 DEF CycleInv, CurrentCycle, TypeOK, Record
      <4> QED
        BY <3>1, <4>1
    <3> QED
      BY <3>1, <3>2
  <2>2. records \in SUBSET Log!Gatherable
    <3>1. \A r \in records : /\ r \in Log!Row /\ r.cycle = cycle /\ r.server \in present
                             /\ r.addr \in Addresses /\ r.server \in Servers
      BY <1>1 DEF Stored, CycleInv, CurrentCycle, TypeOK, Record, Log!Row
    <3> QED
      BY <3>1 DEF Log!Gatherable
  <2>3. Log!Store
    BY <1>1, <2>1, <2>2 DEF Stored, Log!Store
  <2> QED
    BY <2>3 DEF Log!LogNext
<1>2. CASE UNCHANGED <<rows, present, begun>>
  BY <1>2
<1>3. CASE Insert \/ Stop \/ Crash
  BY <1>1, <1>2, <1>3 DEF Insert, Stop, Crash, Cancel, CutShort
<1>4. CASE Load \/ Wake
  <2>1. BeginCycle /\ UNCHANGED <<rows, present>>
    BY <1>4 DEF Load, Wake
  <2> QED
    BY <2>1 DEF BeginCycle, Log!Begin, Log!LogNext
<1>5. ASSUME NEW s \in Servers, Remove(s)
      PROVE  Log!LogNext
  BY <1>5 DEF Remove, Log!LogNext, Log!RemoveServer
<1>6. CASE Boot \/ Connect \/ ConnectFails \/ LoadFails \/ Fetch
  BY <1>2, <1>6 DEF Boot, Connect, ConnectFails, LoadFails, Fetch
<1>7. CASE Gathered \/ CycleBreaks \/ InsertFails \/ ClosePool \/ Exit \/ UNCHANGED vars
  BY <1>2, <1>7 DEF Gathered, CycleBreaks, InsertFails, ClosePool, Exit, vars
<1>8. ASSUME NEW l \in Layouts, Readdress(l)
      PROVE  UNCHANGED <<rows, present, begun>>
  BY <1>8 DEF Readdress
<1> QED
  BY <1>2, <1>3, <1>4, <1>5, <1>6, <1>7, <1>8 DEF Next, Step

\* The collector implements MetricsLog.
THEOREM CollectorImplementsLog == Spec => KeepsLog
<1>1. Init => Log!LogInit
  BY DEF Init, Log!LogInit
<1>2. ASSUME CollectorAssumption, CycleInv, [Next]_vars
      PROVE  [Log!LogNext]_(Log!logged)
  BY <1>2, LogStep
<1> QED
  BY <1>1, <1>2, CycleInvariant, CollectorAssumption, PTL DEF Spec, KeepsLog, Log!LogSpec

\* What the collector stores, in whatever order it is cancelled, restarted and server_info
\* edited, the charts show: the latest values are of the newest cycle, and a history is the
\* last cycles, whole (metrics_collector.py 122-187, infra_repository.py 21-77).
THEOREM ChartsRight ==
  Charts!QueryAssumption => (Spec => [](Charts!LatestRight /\ Charts!HistoryRight))
<1> SUFFICES ASSUME Charts!QueryAssumption
             PROVE  Spec => [](Charts!LatestRight /\ Charts!HistoryRight)
  OBVIOUS
<1>1. Log!LogInit => Charts!LogInit
  BY DEF Log!LogInit, Charts!LogInit
<1>2. [Log!LogNext]_(Log!logged) => [Charts!LogNext]_(Charts!logged)
  BY DEF Log!LogNext, Log!Begin, Log!Store, Log!Gatherable, Log!Row, Log!RemoveServer,
     Log!logged, Charts!LogNext, Charts!Begin, Charts!Store, Charts!Gatherable, Charts!Row,
     Charts!RemoveServer, Charts!logged
<1>3. KeepsLog => Charts!LogSpec
  BY <1>1, <1>2, PTL DEF KeepsLog, Log!LogSpec, Charts!LogSpec
<1>4. Charts!LogSpec => []Charts!LatestRight
  BY Charts!LatestCorrect, Charts!QueryAssumption
<1>5. Charts!LogSpec => []Charts!HistoryRight
  BY Charts!HistoryCorrect, Charts!QueryAssumption
<1> QED
  BY <1>3, <1>4, <1>5, CollectorImplementsLog, PTL
===============================================================================
