------------------------------ MODULE SignupProofs ------------------------------
(***************************************************************************)
(* The safety properties of Signup, for any number of requests, names and  *)
(* addresses.                                                              *)
(***************************************************************************)
EXTENDS Signup, TLAPS

\* At most one body is on the loop.
Exclusive == \A q, r \in Requests :
  request[q].pc \in OnLoop /\ request[r].pc \in OnLoop => q = r

SignupInv == TypeOK /\ Exclusive /\ IndexNeverHit /\ AnswerTells

InFlight(r) == request[r].pc \in {"queued"} \union OnLoop

-------------------------------------------------------------------------------
\* The row of a request in flight fits the table.
LEMMA AddedTyped ==
  ASSUME TypeOK, NEW r \in Requests, request[r].pc = "checked"
  PROVE  Added(r) \in Row
<1>1. request[r] \in Request
  BY DEF TypeOK, Idle
<1> QED
  BY <1>1 DEF Added, Row, Request

\* Adding the row of a checked request that clashes with none.
LEMMA AddRow ==
  ASSUME SignupInv, NEW r \in Requests, request[r].pc = "checked", ~Clash(r),
         user' = user \union {Added(r)},
         \A q \in Requests \ {r} : \/ request'[q] = request[q]
                                   \/ InFlight(q) /\ request'[q].pc \in {"failed", "lost"},
         request'[r] \in {[request[r] EXCEPT !.pc = "committed"],
                          [request[r] EXCEPT !.pc = "failed"],
                          [request[r] EXCEPT !.pc = "lost"]}
  PROVE  IndexNeverHit' /\ AnswerTells'
<1> USE DEF SignupInv
<1>1. request[r] \in Request /\ user \subseteq Row /\ Added(r) \in Row
  BY AddedTyped DEF TypeOK, Idle
<1>2. request'[r].pc \in {"committed", "failed", "lost"} /\ Added(r)' = Added(r)
  BY <1>1 DEF Request, Added
<1>3. \A q \in Requests : request[q].pc \in OnLoop => q = r
  BY DEF Exclusive, OnLoop
<1>4. IndexNeverHit'
  <2>1. ASSUME NEW q \in Requests, request'[q].pc = "checked"
        PROVE  FALSE
    BY <1>2, <1>3, <2>1 DEF OnLoop
  <2> QED
    BY <2>1 DEF IndexNeverHit
<1>5. ASSUME NEW u \in user', NEW v \in user', u.username = v.username \/ u.email = v.email
      PROVE  u = v
  <2>1. CASE u \in user /\ v \in user
    BY <1>5, <2>1 DEF AnswerTells
  <2>2. \A w \in user : w.username # request[r].username /\ w.email # request[r].email
    BY DEF Clash
  <2> QED
    BY <1>5, <2>1, <2>2 DEF Added
<1>6. Mine(r)' = {Added(r)}
  <2>1. Mine(r) = {}
    BY DEF AnswerTells
  <2> QED
    BY <2>1 DEF Mine, Added
<1>7. ASSUME NEW q \in Requests \ {r}
      PROVE  Mine(q)' = Mine(q)
  BY DEF Mine, Added
<1>8. ASSUME NEW q \in Requests \ {r}, request'[q] = request[q]
      PROVE  /\ Added(q)' = Added(q)
             /\ Clash(q) => Clash(q)'
  BY <1>8 DEF Added, Clash
<1>9. ASSUME NEW q \in Requests
      PROVE  /\ request'[q].pc \in {"committed", "created"} => Mine(q)' = {Added(q)'}
             /\ request'[q].pc \in {"idle", "queued", "checked", "taken", "refused"}
                  => Mine(q)' = {}
             /\ request'[q].pc = "taken" => Clash(q)'
  <2>1. CASE q = r
    BY <1>2, <1>6, <2>1
  <2>2. CASE q # r /\ request'[q].pc \in {"failed", "lost"}
    BY <2>2
  <2>3. CASE q # r /\ request'[q] = request[q]
    BY <1>7, <1>8, <2>3 DEF AnswerTells
  <2> QED
    BY <2>1, <2>2, <2>3
<1> QED
  BY <1>4, <1>5, <1>9 DEF AnswerTells

\* A step of one request that adds no row, to an answer its look-up allows.
LEMMA NoRow ==
  ASSUME SignupInv, UNCHANGED user, NEW r \in Requests, request[r] \in Request,
         NEW p \in {"checked", "taken", "refused", "created", "failed"},
         request' = [request EXCEPT ![r].pc = p],
         p = "checked" => request[r].pc = "queued" /\ LoopFree /\ ~Clash(r),
         p = "taken" => request[r].pc = "queued" /\ Clash(r),
         p = "refused" => request[r].pc \in {"queued", "checked"},
         p = "created" => request[r].pc = "committed"
  PROVE  SignupInv'
<1> USE DEF SignupInv
<1>1. /\ request'[r] = [request[r] EXCEPT !.pc = p] /\ request'[r].pc = p
      /\ request'[r].username = request[r].username /\ request'[r].email = request[r].email
      /\ request'[r] \in Request
      /\ \A q \in Requests \ {r} : request'[q] = request[q]
  BY DEF TypeOK, Request, OnLoop, Answers
<1>2. TypeOK'
  BY <1>1 DEF TypeOK
<1>3. Exclusive'
  BY <1>1 DEF Exclusive, LoopFree, OnLoop
<1>4. \A q \in Requests : /\ Mine(q)' = Mine(q) /\ Added(q)' = Added(q)
                          /\ Clash(q)' <=> Clash(q)
  BY <1>1 DEF Mine, Added, Clash
<1>5. IndexNeverHit'
  BY <1>1, <1>4 DEF IndexNeverHit
<1>6. AnswerTells'
  BY <1>1, <1>4 DEF AnswerTells
<1> QED
  BY <1>2, <1>3, <1>5, <1>6

\* The invariant is kept.
LEMMA SignupStep == SignupInv /\ [Next]_vars => SignupInv'
<1> SUFFICES ASSUME SignupInv, [Next]_vars
             PROVE  SignupInv'
  OBVIOUS
<1> USE DEF SignupInv
<1>1. \A r \in Requests : request[r].pc # "idle" => request[r] \in Request
  BY DEF TypeOK, Idle
<1>2. ASSUME NEW r \in Requests, NEW path \in {"signup", "users"}, NEW n \in Usernames,
             NEW e \in Emails, Arrive(r, path, n, e)
      PROVE  SignupInv'
  <2>1. /\ request'[r] \in Request /\ request'[r].pc = "queued"
        /\ \A q \in Requests \ {r} : request'[q] = request[q]
        /\ request[r].pc = "idle" /\ user' = user
    BY <1>2 DEF Arrive, TypeOK, Request, Idle
  <2>2. TypeOK'
    BY <1>2, <2>1 DEF Arrive, TypeOK
  <2>3. Exclusive'
    BY <2>1 DEF Exclusive, OnLoop
  <2>4. \A q \in Requests : Mine(q)' = Mine(q)
    BY <2>1 DEF Mine
  <2>5. \A q \in Requests \ {r} : Added(q)' = Added(q) /\ (Clash(q)' <=> Clash(q))
    BY <2>1 DEF Added, Clash
  <2>6. IndexNeverHit'
    BY <2>1, <2>5 DEF IndexNeverHit
  <2>7. AnswerTells'
    BY <2>1, <2>4, <2>5 DEF AnswerTells
  <2> QED
    BY <2>2, <2>3, <2>6, <2>7
<1>3. ASSUME NEW r \in Requests, Check(r)
      PROVE  SignupInv'
  <2>1. CASE Clash(r)
    BY <1>1, <1>3, <2>1, NoRow DEF Check, Goto
  <2>2. CASE ~Clash(r)
    BY <1>1, <1>3, <2>2, NoRow DEF Check, Goto
  <2> QED
    BY <2>1, <2>2
<1>4. ASSUME NEW r \in Requests, BadValue(r) \/ Reread(r)
      PROVE  SignupInv'
  <2>1. PICK p \in {"refused", "failed", "created"} :
          /\ request' = [request EXCEPT ![r].pc = p] /\ user' = user
          /\ p = "refused" => request[r].pc \in {"queued", "checked"}
          /\ p = "created" => request[r].pc = "committed"
          /\ request[r].pc # "idle"
    BY <1>4 DEF BadValue, Reread, Goto
  <2> QED
    BY <1>1, <2>1, NoRow
<1>5. ASSUME NEW r \in Requests, Commit(r) \/ Fault(r)
      PROVE  SignupInv'
  <2>1. PICK p \in {"committed", "failed"} :
          /\ request' = [request EXCEPT ![r].pc = p]
          /\ p = "committed" => Commit(r)
          /\ p = "failed" => Fault(r)
    BY <1>5 DEF Commit, Fault, Goto
  <2>2. CASE UNCHANGED user /\ p = "failed"
    <3>1. request[r].pc # "idle"
      BY <2>1, <2>2 DEF Fault, OnLoop
    <3> QED
      BY <1>1, <2>1, <2>2, <3>1, NoRow
  <2>3. CASE request[r].pc = "checked" /\ ~Clash(r) /\ user' = user \union {Added(r)}
    <3>1. /\ request'[r] = [request[r] EXCEPT !.pc = p]
          /\ \A q \in Requests \ {r} : request'[q] = request[q]
      BY <2>1 DEF TypeOK
    <3>2. request'[r] \in Request
      BY <1>1, <2>3, <3>1 DEF Request, OnLoop, Answers
    <3>3. TypeOK'
      BY <2>1, <2>3, <3>1, <3>2, AddedTyped DEF TypeOK
    <3>4. Exclusive'
      BY <1>1, <2>3, <3>1 DEF Exclusive, OnLoop, Request
    <3>5. IndexNeverHit' /\ AnswerTells'
      BY <2>3, <3>1, AddRow
    <3> QED
      BY <3>3, <3>4, <3>5
  <2>4. UNCHANGED user \/ (request[r].pc = "checked" /\ ~Clash(r) /\ user' = user \union {Added(r)})
    BY <2>1 DEF Commit, Fault, Landed
  <2>5. p = "committed" => request[r].pc = "checked" /\ ~Clash(r) /\ user' = user \union {Added(r)}
    BY <2>1 DEF Commit
  <2> QED
    BY <2>2, <2>3, <2>4, <2>5
<1>6. CASE Crash
  <2>1. \A q \in Requests : request'[q] =
          IF InFlight(q) THEN [request[q] EXCEPT !.pc = "lost"] ELSE request[q]
    BY <1>6 DEF Crash, InFlight
  <2>2. \A q \in Requests : InFlight(q) => request'[q] \in Request /\ request'[q].pc = "lost"
    BY <1>1, <2>1 DEF InFlight, Request, Answers, OnLoop
  <2>3. request' \in [Requests -> Request \union {Idle}]
    BY <1>6, <2>1, <2>2 DEF TypeOK, Crash
  <2>4. Exclusive' /\ \A q \in Requests : request'[q].pc # "checked"
    BY <2>1, <2>2 DEF Exclusive, InFlight, OnLoop
  <2>5. CASE UNCHANGED user
    <3>1. \A q \in Requests : Mine(q)' = Mine(q)
      BY <2>5 DEF Mine
    <3>2. \A q \in Requests : ~InFlight(q) => Added(q)' = Added(q) /\ (Clash(q)' <=> Clash(q))
      BY <2>1, <2>5 DEF Added, Clash
    <3>3. AnswerTells'
      BY <2>1, <2>2, <2>5, <3>1, <3>2 DEF AnswerTells
    <3> QED
      BY <2>3, <2>4, <2>5, <3>3 DEF TypeOK, IndexNeverHit
  <2>6. CASE ~UNCHANGED user
    <3>1. PICK r \in Requests :
            request[r].pc = "checked" /\ ~Clash(r) /\ user' = user \union {Added(r)}
      BY <1>6, <2>6 DEF Crash, Landed
    <3>2. InFlight(r)
      BY <3>1 DEF InFlight, OnLoop
    <3>3. AnswerTells'
      BY <2>1, <2>2, <3>1, <3>2, AddRow
    <3>4. TypeOK'
      BY <2>3, <3>1, AddedTyped DEF TypeOK
    <3> QED
      BY <2>4, <3>3, <3>4 DEF IndexNeverHit
  <2> QED
    BY <2>5, <2>6
<1>7. CASE UNCHANGED vars
  BY <1>7 DEF vars, TypeOK, Exclusive, IndexNeverHit, AnswerTells, Mine, Added, Clash
<1> QED
  BY <1>2, <1>3, <1>4, <1>5, <1>6, <1>7 DEF Next, Body

\* The four facts are inductive together.
THEOREM SignupInvariant == Spec => []SignupInv
<1>1. Init => SignupInv
  BY DEF Init, SignupInv, TypeOK, Exclusive, IndexNeverHit, AnswerTells, Idle, OnLoop, Mine
<1> QED
  BY <1>1, SignupStep, PTL DEF Spec

\* Every variable keeps its type.
THEOREM SignupTypeCorrect == Spec => []TypeOK
BY SignupInvariant, PTL DEF SignupInv

\* The unique indexes never speak.
THEOREM LookUpSuffices == Spec => []IndexNeverHit
BY SignupInvariant, PTL DEF SignupInv

\* What a client is told about its account is true.
THEOREM AnswersTrue == Spec => []AnswerTells
BY SignupInvariant, PTL DEF SignupInv
===============================================================================
