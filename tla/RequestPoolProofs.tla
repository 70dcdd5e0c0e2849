--------------------------- MODULE RequestPoolProofs ---------------------------
(***************************************************************************)
(* The connection pool's books, for any number of requests, log writers,   *)
(* connections and threads.                                                *)
(***************************************************************************)
EXTENDS RequestPool, FiniteSetTheorems, TLAPS

Parties == Requests \union Writers

\* Whoever asks for a connection has none.
AskersHoldNothing ==
  /\ \A r \in Requests : pc[r] = "getting" => r \notin held
  /\ \A w \in Writers : writer[w] = "getting" => w \notin held

Inv == TypeOK /\ Accounted /\ AskersHoldNothing

-------------------------------------------------------------------------------
\* Every set of requests and writers is finite.
LEMMA PartiesFinite ==
  ASSUME NEW T \in SUBSET Parties
  PROVE  IsFiniteSet(T) /\ Cardinality(T) \in Nat
<1>1. IsFiniteSet(Parties)
  BY PoolAssumption, FS_Union DEF Parties
<1> QED
  BY <1>1, FS_Subset, FS_CardinalityType

\* A connection handed out moves from one side of the books to the other.
LEMMA TakeBooks ==
  ASSUME TypeOK, free + Cardinality(held) = Conns, NEW p \in Parties, p \notin held, Take(p)
  PROVE  /\ free' \in 0 .. Conns /\ held' \subseteq Parties
         /\ free' + Cardinality(held') = Conns
<1>1. IsFiniteSet(held) /\ Cardinality(held) \in Nat
  BY PartiesFinite DEF TypeOK, Parties
<1>2. Cardinality(held') = Cardinality(held) + 1
  BY <1>1, FS_AddElement DEF Take
<1> QED
  BY <1>1, <1>2, PoolAssumption DEF Take, TypeOK, Parties

\* A connection given back moves the other way.
LEMMA GiveBooks ==
  ASSUME TypeOK, free + Cardinality(held) = Conns, NEW p \in held, Give(p)
  PROVE  /\ free' \in 0 .. Conns /\ held' \subseteq Parties
         /\ free' + Cardinality(held') = Conns
<1>1. IsFiniteSet(held) /\ Cardinality(held) \in Nat
  BY PartiesFinite DEF TypeOK, Parties
<1>2. Cardinality(held') = Cardinality(held) - 1
  BY <1>1, FS_RemoveElement DEF Give
<1>3. Cardinality(held') \in Nat
  <2>1. held' \in SUBSET Parties
    BY DEF Give, TypeOK, Parties
  <2> QED
    BY <2>1, PartiesFinite
<1> QED
  BY <1>1, <1>2, <1>3, PoolAssumption DEF Give, TypeOK, Parties

\* A step of request r that neither takes nor gives back a connection.
LEMMA BooksUntouched ==
  ASSUME Inv, TypeOK', NEW r \in Requests, UNCHANGED <<free, held, writer>>,
         \A q \in Requests \ {r} : pc'[q] = pc[q],
         pc'[r] \in {"idle", "closed", "getting"} => r \notin held
  PROVE  Inv'
<1>1. Accounted'
  BY DEF Inv, Accounted
<1>2. AskersHoldNothing'
  BY DEF Inv, AskersHoldNothing
<1> QED
  BY <1>1, <1>2 DEF Inv

\* Plans are sequences of segments, and "query" is one of them.
LEMMA PlanType == "query" \in Kinds /\ \A k \in Kinds : Len(Plan[k]) \in Nat
  BY DEF Kinds, Plan

\* Where a segment's end leaves its request.
LEMMA EndType ==
  ASSUME TypeOK, NEW r \in Requests, NEW how \in {"returned", "raised"}, End(r, how)
  PROVE  /\ step' \in [Requests -> Nat \ {0}]
         /\ pc' \in [Requests -> Points]
         /\ pc'[r] \in {"ready", "returned", "raised"}
         /\ \A q \in Requests \ {r} : pc'[q] = pc[q]
<1>1. Len(Plan[kind[r]]) \in Nat
  BY PlanType DEF TypeOK
<1>2. CASE Segment(r).at = "thread"
  BY <1>2 DEF End, Goto, TypeOK, Points
<1>3. CASE Segment(r).at # "thread"
  <2>1. step[r] + 1 \in Nat \ {0} /\ Len(Plan[kind[r]]) + 1 \in Nat \ {0}
    BY <1>1 DEF TypeOK
  <2> QED
    BY <1>3, <2>1 DEF End, Goto, TypeOK, Points
<1> QED
  BY <1>2, <1>3

\* No step of a request on the loop spoils the books.
LEMMA LoopStepInv == ASSUME Inv, NEW r \in Requests, LoopStep(r) PROVE Inv'
<1> USE DEF Inv, Accounted
<1>0. Len(Plan[kind[r]]) \in Nat /\ "query" \in Kinds
  BY PlanType DEF TypeOK
<1>1. CASE BeginBody(r)
  <2>1. TypeOK'
    BY <1>1 DEF BeginBody, Goto, TypeOK, Points, logger
  <2> QED
    BY <1>1, <2>1, BooksUntouched DEF BeginBody, Goto, TypeOK, logger
<1>2. CASE BeginThread(r)
  <2>1. TypeOK'
    BY <1>2 DEF BeginThread, Goto, TypeOK, Points, logger
  <2> QED
    BY <1>2, <2>1, BooksUntouched DEF BeginThread, Goto, TypeOK, logger
<1>3. CASE Resume(r)
  <2>1. step[r] + 1 \in Nat \ {0} /\ Len(Plan[kind[r]]) + 1 \in Nat \ {0}
    BY <1>0 DEF TypeOK
  <2>2. TypeOK'
    BY <1>3, <2>1 DEF Resume, Goto, TypeOK, Points, logger
  <2> QED
    BY <1>3, <2>2, BooksUntouched DEF Resume, Goto, TypeOK, logger
<1>4. CASE BeginClose(r)
  <2>1. TypeOK'
    BY <1>4 DEF BeginClose, Goto, TypeOK, Points, logger
  <2> QED
    BY <1>4, <2>1, BooksUntouched DEF BeginClose, Goto, TypeOK, logger
<1>5. CASE Answer(r)
  <2>1. TypeOK'
    BY <1>0, <1>5, PoolAssumption DEF Answer, Goto, TypeOK, Points
  <2> QED
    BY <1>5, <2>1, BooksUntouched DEF Answer, Goto, TypeOK
<1> QED
  BY <1>1, <1>2, <1>3, <1>4, <1>5 DEF LoopStep

\* No step of a segment spoils the books: what raises or times out keeps what it
\* holds for db.close(), and a session asks only when it holds nothing.
LEMMA WorkInv == ASSUME Inv, NEW r \in Requests, Work(r) PROVE Inv'
<1> USE DEF Inv, Accounted
<1>1. CASE Ask(r)
  <2>1. TypeOK'
    BY <1>1, PoolAssumption DEF Ask, Goto, TypeOK, Points, logger
  <2> QED
    BY <1>1, <2>1, BooksUntouched DEF Ask, Goto, TypeOK, logger
<1>2. CASE Grant(r)
  <2>1. /\ free' \in 0 .. Conns /\ held' \subseteq Parties
        /\ free' + Cardinality(held') = Conns
    BY <1>2, TakeBooks DEF Grant, AskersHoldNothing, Parties
  <2>2. TypeOK'
    BY <1>2, <2>1 DEF Grant, Goto, TypeOK, Points, logger, Parties
  <2> QED
    BY <1>2, <2>1, <2>2, PoolAssumption
       DEF Grant, Take, Goto, TypeOK, logger, AskersHoldNothing
<1>3. CASE TimeOut(r)
  <2>1. /\ step' \in [Requests -> Nat \ {0}] /\ pc' \in [Requests -> Points]
        /\ pc'[r] \in {"ready", "returned", "raised", "running"}
        /\ \A q \in Requests \ {r} : pc'[q] = pc[q]
    <3>1. CASE kind[r] = "ingest"
      BY <1>3, <3>1 DEF TimeOut, Goto, TypeOK, Points
    <3>2. CASE kind[r] # "ingest"
      BY <1>3, <3>2, EndType DEF TimeOut
    <3> QED
      BY <3>1, <3>2
  <2>2. TypeOK'
    BY <1>3, <2>1 DEF TimeOut, TypeOK, logger
  <2> QED
    BY <1>3, <2>1, <2>2, BooksUntouched DEF TimeOut, logger
<1>4. CASE Commit(r)
  <2>1. /\ free' \in 0 .. Conns /\ held' \subseteq Parties
        /\ free' + Cardinality(held') = Conns
    BY <1>4, GiveBooks DEF Commit
  <2>2. TypeOK'
    BY <1>4, <2>1 DEF Commit, TypeOK, logger, request, Parties
  <2> QED
    BY <1>4, <2>1, <2>2, PoolAssumption
       DEF Commit, Give, TypeOK, logger, request, AskersHoldNothing
<1>5. CASE Return(r) \/ Raise(r)
  <2>1. PICK how \in {"returned", "raised"} : End(r, how)
    BY <1>5 DEF Return, Raise
  <2>2. TypeOK'
    BY <1>5, <2>1, EndType DEF Return, Raise, TypeOK, logger
  <2> QED
    BY <1>5, <2>1, <2>2, EndType, BooksUntouched DEF Return, Raise, logger
<1>6. CASE Close(r)
  <2>1. CASE r \in held
    <3>1. /\ free' \in 0 .. Conns /\ held' \subseteq Parties
          /\ free' + Cardinality(held') = Conns
      BY <1>6, <2>1, GiveBooks DEF Close
    <3>2. TypeOK'
      BY <1>6, <3>1 DEF Close, Goto, TypeOK, Points, logger, Parties
    <3> QED
      BY <1>6, <2>1, <3>1, <3>2, PoolAssumption
         DEF Close, Give, Goto, TypeOK, logger, AskersHoldNothing
  <2>2. CASE r \notin held
    <3>1. TypeOK'
      BY <1>6, <2>2 DEF Close, Goto, TypeOK, Points, logger
    <3> QED
      BY <1>6, <2>2, <3>1, BooksUntouched DEF Close, Goto, TypeOK, logger
  <2> QED
    BY <2>1, <2>2
<1> QED
  BY <1>1, <1>2, <1>3, <1>4, <1>5, <1>6 DEF Work

\* No log row spoils the books.
LEMMA WriterInv == ASSUME Inv, NEW w \in Writers, TakeJob(w) \/ Write(w) PROVE Inv'
<1> USE DEF Inv, Accounted
<1>1. CASE TakeJob(w)
  <2>1. TypeOK'
    BY <1>1, PoolAssumption DEF TakeJob, TypeOK, request
  <2> QED
    BY <1>1, <2>1 DEF TakeJob, TypeOK, request, AskersHoldNothing
<1>2. CASE WriterGrant(w)
  <2>1. /\ free' \in 0 .. Conns /\ held' \subseteq Parties
        /\ free' + Cardinality(held') = Conns
    BY <1>2, TakeBooks DEF WriterGrant, AskersHoldNothing, Parties
  <2>2. TypeOK'
    BY <1>2, <2>1 DEF WriterGrant, TypeOK, request, Parties
  <2> QED
    BY <1>2, <2>1, <2>2, PoolAssumption
       DEF WriterGrant, Take, TypeOK, request, AskersHoldNothing
<1>3. CASE WriterTimeOut(w)
  <2>1. TypeOK'
    BY <1>3 DEF WriterTimeOut, TypeOK, request
  <2> QED
    BY <1>3, <2>1 DEF WriterTimeOut, TypeOK, request, AskersHoldNothing
<1>4. CASE WriterClose(w)
  <2>1. /\ free' \in 0 .. Conns /\ held' \subseteq Parties
        /\ free' + Cardinality(held') = Conns
    BY <1>4, GiveBooks DEF WriterClose
  <2>2. TypeOK'
    BY <1>4, <2>1 DEF WriterClose, TypeOK, request, Parties
  <2> QED
    BY <1>4, <2>1, <2>2, PoolAssumption
       DEF WriterClose, Give, TypeOK, request, AskersHoldNothing
<1> QED
  BY <1>1, <1>2, <1>3, <1>4 DEF Write

\* The books balance in every state.
THEOREM BooksBalance == Spec => []Inv
<1>1. Init => Inv
  BY FS_EmptySet, PoolAssumption, PlanType
     DEF Init, Inv, TypeOK, Accounted, AskersHoldNothing, Points
<1>2. Inv /\ [Next]_vars => Inv'
  <2> SUFFICES ASSUME Inv, [Next]_vars PROVE Inv'
    OBVIOUS
  <2>1. ASSUME NEW r \in Requests, NEW k \in Kinds, Send(r, k) PROVE Inv'
    <3>1. TypeOK'
      BY <2>1 DEF Send, Goto, TypeOK, Inv, Points, logger
    <3> QED
      BY <2>1, <3>1, BooksUntouched DEF Send, Goto, TypeOK, Inv, logger
  <2>2. CASE UNCHANGED vars
    BY <2>2 DEF vars, request, logger, Inv, TypeOK, Accounted, AskersHoldNothing
  <2> QED
    BY <2>1, <2>2, LoopStepInv, WorkInv, WriterInv DEF Next
<1> QED
  BY <1>1, <1>2, PTL DEF Spec

\* Every variable keeps its type: the pool never hands out more than it has.
THEOREM PoolTypeCorrect == Spec => []TypeOK
  BY BooksBalance, PTL DEF Inv

\* No connection leaks, whatever raises or times out.
THEOREM NoLeak == Spec => []Accounted
  BY BooksBalance, PTL DEF Inv

\* To wait for a connection takes as many others in flight as there are
\* connections.
THEOREM FullHouse == Spec => []WaitNeedsFullHouse
<1>1. Inv => WaitNeedsFullHouse
  <2> SUFFICES ASSUME Inv, NEW p \in InFlight, free = 0,
                      p \in Requests => pc[p] = "getting",
                      p \in Writers => writer[p] = "getting"
               PROVE  Cardinality(InFlight \ {p}) >= Conns
    BY DEF WaitNeedsFullHouse
  <2>1. p \notin held
    BY DEF Inv, AskersHoldNothing, InFlight
  <2>2. held \subseteq InFlight \ {p}
    BY <2>1 DEF Inv, Accounted, TypeOK, InFlight
  <2>3. IsFiniteSet(InFlight \ {p}) /\ Cardinality(InFlight \ {p}) \in Nat
    <3>1. InFlight \ {p} \in SUBSET Parties
      BY DEF InFlight, Parties
    <3> QED
      BY <3>1, PartiesFinite
  <2>4. Cardinality(held) <= Cardinality(InFlight \ {p})
    BY <2>2, <2>3, FS_Subset
  <2>5. Cardinality(held) \in Nat
    BY PartiesFinite DEF Inv, TypeOK, Parties
  <2> QED
    BY <2>3, <2>4, <2>5, PoolAssumption DEF Inv, Accounted
<1> QED
  BY <1>1, BooksBalance, PTL
===============================================================================
