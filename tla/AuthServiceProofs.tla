--------------------------- MODULE AuthServiceProofs ---------------------------
(***************************************************************************)
(* What holds of AuthService for any number of accounts and requests, any  *)
(* lock limit and lifetimes and any length of behaviour.                   *)
(***************************************************************************)
EXTENDS AuthService, TLAPS

USE DEF Points, OnLoop, At, Start, Goto, Finish

-------------------------------------------------------------------------------
(* Type correctness *)

\* An empty slot is a well-typed request.
LEMMA IdleIsRequest == Idle \in Request
  BY DEF Idle, Request

\* What Revoke does to the token table.
LEMMA RevokeType ==
  ASSUME NEW t \in Tokens, NEW why \in Statuses, Revoke(t, why),
         status \in [Tokens -> Statuses]
  PROVE  status' \in [Tokens -> Statuses] /\ UNCHANGED <<expires, session>>
  BY DEF Revoke

\* What a request holds at the points where a handler uses it.
Holds(r) ==
  /\ r.pc \in {"unlock", "verify", "mint", "insert"} => r.user \in Accounts
  /\ r.pc = "insert" => r.new \in Tokens /\ r.new.user = r.user
  /\ r.pc \in {"queued", "expire", "rotate", "revoke"} => r.tok \in Tokens
  /\ r.pc \in {"failLog", "secLog"} => r.user \in Accounts
  /\ r.pc = "rotate" => r.user = r.tok.user
  /\ r.pc \in {"unlock", "verify"} => r.tok = None

TypeInv == TypeOK /\ \A w \in Slots : Holds(slot[w])

SlotsTyped == slot \in [Slots -> Request] /\ \A w \in Slots : Holds(slot[w])

\* A step that rewrites one slot.
LEMMA SlotUpdate ==
  ASSUME slot \in [Slots -> Request], \A v \in Slots : Holds(slot[v]),
         NEW w \in Slots, NEW r \in Request, Holds(r), slot' = [slot EXCEPT ![w] = r]
  PROVE  SlotsTyped'
<1>1. \A v \in Slots : slot'[v] = IF v = w THEN r ELSE slot[v]
  OBVIOUS
<1> QED
  BY <1>1 DEF SlotsTyped

\* A step that rewrites one slot and nothing else keeps the types.
LEMMA SlotStepType ==
  ASSUME TypeInv, NEW w \in Slots, NEW r \in Request, Holds(r),
         slot' = [slot EXCEPT ![w] = r], UNCHANGED <<now, userTable, tokenTable, known>>
  PROVE  TypeInv'
<1>1. SlotsTyped'
  BY SlotUpdate DEF TypeInv, TypeOK
<1>2. UNCHANGED <<now, failedCount, lockedUntil, streak, status, expires, session, known>>
  BY DEF userTable, tokenTable
<1> QED
  BY <1>1, <1>2 DEF TypeInv, TypeOK, SlotsTyped

\* The types, together with what each point of a handler knows of its slot (whose
\* user, which token is presented, which minted), hold in every state.
THEOREM TypeInvariance == Spec => []TypeInv
<1> USE ConstantsAssumption
<1>1. Init => TypeInv
  BY IdleIsRequest DEF Init, TypeInv, TypeOK, Statuses, Tokens, Holds, Idle
<1>2. TypeInv /\ [Next]_vars => TypeInv'
  <2> SUFFICES ASSUME TypeInv, [Next]_vars PROVE TypeInv'
    OBVIOUS
  <2> USE DEF TypeInv, TypeOK, Holds
  <2>1. ASSUME NEW w \in Slots, NEW u \in Names, LoginRefused(w, u) PROVE TypeInv'
    BY <2>1 DEF LoginRefused, Idle, Request, userTable, tokenTable
  <2>2. ASSUME NEW w \in Slots, NEW u \in Names, NEW good \in BOOLEAN, LoginBegin(w, u, good)
        PROVE  TypeInv'
    <3> DEFINE r == [Idle EXCEPT !.pc = IF lockedUntil[u] = 0 THEN "verify" ELSE "unlock",
                                 !.user = u, !.good = good, !.seen = failedCount[u]]
    <3>1. slot' = [slot EXCEPT ![w] = r] /\ UNCHANGED <<now, userTable, tokenTable, known>>
      BY <2>2 DEF LoginBegin, Start
    <3>2. r \in Request /\ Holds(r)
      BY <2>2 DEF LoginBegin, Idle, Request
    <3> HIDE DEF r
    <3> QED
      BY <3>1, <3>2, SlotStepType
  <2>3. ASSUME NEW w \in Slots, NEW t \in Tokens, RefreshBegin(w, t) PROVE TypeInv'
    BY <2>3 DEF RefreshBegin, Idle, Request, userTable, tokenTable, Tokens
  <2>4. ASSUME NEW w \in Slots, NEW b \in Tokens, NEW t \in Tokens, LogoutCheck(w, b, t)
        PROVE  TypeInv'
    BY <2>4 DEF LogoutCheck, Idle, Request, userTable, tokenTable, Tokens
  <2>5. ASSUME NEW w \in Slots, LogoutBegin(w) PROVE TypeInv'
    BY <2>5 DEF LogoutBegin, Request, userTable, tokenTable
  <2>6. ASSUME NEW w \in Slots, LogoutRefused(w) PROVE TypeInv'
    BY <2>6, IdleIsRequest DEF LogoutRefused, Idle, userTable, tokenTable
  <2>7. ASSUME NEW w \in Slots, Unlock(w) PROVE TypeInv'
    <3> DEFINE r == [slot[w] EXCEPT !.pc = "verify", !.seen = 0]
    <3>1. slot' = [slot EXCEPT ![w] = r]
      BY <2>7 DEF Unlock
    <3>2. r \in Request /\ Holds(r)
      <4>1. /\ slot[w] \in Request /\ Holds(slot[w])
            /\ slot[w].pc = "unlock"
        BY <2>7 DEF Unlock, At
      <4>2. r \in Request
        BY <4>1 DEF Request, Points, OnLoop
      <4>3. Holds(r)
        BY <4>1 DEF Request
      <4> QED
        BY <4>2, <4>3
    <3> HIDE DEF r
    <3>3. SlotsTyped'
      BY <3>1, <3>2, SlotUpdate
    <3> QED
      BY <2>7, <3>3 DEF SlotsTyped, Unlock, ResetAttempts, tokenTable
  <2>8. ASSUME NEW w \in Slots, RejectPassword(w) PROVE TypeInv'
    BY <2>8 DEF RejectPassword, Request, tokenTable
  <2>9. ASSUME NEW w \in Slots, AcceptPassword(w) PROVE TypeInv'
    BY <2>9 DEF AcceptPassword, ResetAttempts, Request, tokenTable
  <2>10. ASSUME NEW w \in Slots, WriteFailLog(w) PROVE TypeInv'
    BY <2>10 DEF WriteFailLog, Request, userTable, tokenTable
  <2>11. ASSUME NEW w \in Slots, WriteSecurityLog(w) PROVE TypeInv'
    BY <2>11, IdleIsRequest DEF WriteSecurityLog, Idle, userTable, tokenTable
  <2>12. ASSUME NEW w \in Slots, Mint(w) PROVE TypeInv'
    <3> DEFINE t == [user |-> slot[w].user, iat |-> now]
               r == [slot[w] EXCEPT !.pc = "insert", !.new = t]
    <3>1. slot' = [slot EXCEPT ![w] = r]
      BY <2>12 DEF Mint
    <3>2. t \in Tokens /\ t.user = slot[w].user
      BY <2>12 DEF Mint, Tokens
    <3> HIDE DEF t
    <3>3. r \in Request /\ Holds(r)
      <4>1. /\ slot[w] \in Request /\ Holds(slot[w])
            /\ slot[w].pc = "mint"
        BY <2>12 DEF Mint, At
      <4>2. r \in Request
        BY <4>1, <3>2 DEF Request, Points, OnLoop
      <4>3. Holds(r)
        BY <4>1, <3>2 DEF Request
      <4> QED
        BY <4>2, <4>3
    <3> HIDE DEF r
    <3>4. UNCHANGED <<now, userTable, tokenTable, known>>
      BY <2>12 DEF Mint
    <3> QED
      BY <3>1, <3>3, <3>4, SlotStepType
  <2>13. ASSUME NEW w \in Slots, Insert(w) PROVE TypeInv'
    BY <2>13 DEF Insert, Request, Statuses, userTable
  <2>14. ASSUME NEW w \in Slots, InsertConflict(w) PROVE TypeInv'
    BY <2>14, IdleIsRequest DEF InsertConflict, Idle, userTable, tokenTable
  <2>15. ASSUME NEW w \in Slots, WriteAuthLog(w) PROVE TypeInv'
    BY <2>15, IdleIsRequest DEF WriteAuthLog, Idle, Request, userTable, tokenTable
  <2>16. ASSUME NEW w \in Slots, Expire(w) PROVE TypeInv'
    BY <2>16, IdleIsRequest, RevokeType DEF Expire, Idle, Statuses, userTable
  <2>17. ASSUME NEW w \in Slots, Rotate(w) PROVE TypeInv'
    <3> DEFINE r == [slot[w] EXCEPT !.pc = "mint"]
    <3>1. slot' = [slot EXCEPT ![w] = r]
      BY <2>17 DEF Rotate
    <3>2. r \in Request /\ Holds(r)
      <4>1. /\ slot[w] \in Request /\ Holds(slot[w])
            /\ slot[w].pc = "rotate"
        BY <2>17 DEF Rotate, At
      <4>2. r \in Request
        BY <4>1 DEF Request, Points, OnLoop
      <4>3. Holds(r)
        BY <4>1 DEF Request, Tokens
      <4> QED
        BY <4>2, <4>3
    <3> HIDE DEF r
    <3>3. SlotsTyped'
      BY <3>1, <3>2, SlotUpdate
    <3> QED
      BY <2>17, <3>3, RevokeType DEF SlotsTyped, Rotate, Statuses, userTable
  <2>18. ASSUME NEW w \in Slots, Logout(w) PROVE TypeInv'
    BY <2>18, RevokeType DEF Logout, Request, Statuses, userTable
  <2>19. ASSUME NEW w \in Slots, Fault(w) PROVE TypeInv'
    BY <2>19, IdleIsRequest DEF Fault, Idle, userTable, tokenTable
  <2>20. ASSUME Crash PROVE TypeInv'
    BY <2>20, IdleIsRequest DEF Crash, Idle, userTable, tokenTable
  <2>21. ASSUME Tick PROVE TypeInv'
    BY <2>21 DEF Tick, userTable, tokenTable
  <2>22. CASE UNCHANGED vars
    BY <2>22 DEF vars, userTable, tokenTable
  <2> HIDE DEF TypeInv, TypeOK, Holds
  <2>23. ASSUME NEW w \in Slots, Arrive(w) PROVE TypeInv'
    BY <2>23, <2>1, <2>2, <2>3, <2>4 DEF Arrive
  <2>24. ASSUME NEW w \in Slots, BodyStep(w) PROVE TypeInv'
    BY <2>24, <2>7, <2>8, <2>9, <2>10, <2>11, <2>12, <2>13, <2>14, <2>15, <2>16, <2>17, <2>18
       DEF BodyStep, LoginStep, IssueStep, RevokeStep
  <2> QED
    BY <2>5, <2>6, <2>19, <2>20, <2>21, <2>22, <2>23, <2>24 DEF Next, PickUp
<1> QED
  BY <1>1, <1>2, PTL DEF Spec

\* Every variable keeps its type, whatever handlers, faults and ticks interleave.
THEOREM TypeCorrect == Spec => []TypeOK
  BY TypeInvariance, PTL DEF TypeInv

-------------------------------------------------------------------------------
(***************************************************************************)
(* The inductive invariant.  The event loop runs one body at a time        *)
(* (Exclusive), so what a body has read stays true until it has answered:  *)
(* the row it loaded (RowFresh) and the token it looked up (TokenFresh).   *)
(***************************************************************************)
Exclusive == \A v, w \in Slots : slot[v].pc \in OnLoop /\ slot[w].pc \in OnLoop => v = w

RowFresh ==
  \A w \in Slots :
    LET r == slot[w] IN
      /\ r.pc \in {"unlock", "verify", "failLog", "secLog"} => r.seen = failedCount[r.user]
      /\ r.pc = "unlock" => lockedUntil[r.user] <= now
      /\ r.pc = "verify" => lockedUntil[r.user] = 0
      /\ r.pc \in {"mint", "insert"} /\ r.tok = None => lockedUntil[r.user] = 0

TokenFresh ==
  \A w \in Slots :
    LET r == slot[w] IN
      /\ r.pc \in {"expire", "rotate", "revoke"} => status[r.tok] = "live"
      /\ Renewing(w) =>
           /\ status[r.tok] # "absent"
           /\ \A t \in Tokens : session[t] = session[r.tok]
                                  => status[t] \notin {"live", "loggedOut"}

\* A token of the table descends from a token of the table, and that from
\* itself, as does every token that is not in the table.
Lineage ==
  /\ \A t \in Tokens : status[t] = "absent" => session[t] = t
  /\ \A t \in Tokens : status[t] # "absent" => status[session[t]] # "absent"
  /\ \A t \in Tokens : session[session[t]] = session[t]

LockInv == RowFresh /\ LockMatchesCount /\ NoLostFailure
TokenInv == TokenFresh /\ Lineage /\ OneLivePerSession /\ LogoutEndsSession

-------------------------------------------------------------------------------
(* One body at a time *)

\* The event loop never has two handlers' bodies under way.
THEOREM OneBody == Spec => []Exclusive
<1>1. Init => Exclusive
  BY DEF Init, Exclusive, Idle
<1>2. TypeOK /\ Exclusive /\ [Next]_vars => Exclusive'
  <2> SUFFICES ASSUME TypeOK, Exclusive, [Next]_vars PROVE Exclusive'
    OBVIOUS
  <2> USE DEF Exclusive, TypeOK
  <2>1. ASSUME NEW w \in Slots, Arrive(w) \/ PickUp(w) PROVE Exclusive'
    <3>1. /\ slot'[w].pc \in OnLoop => LoopFree
          /\ \A v \in Slots \ {w} : slot'[v] = slot[v]
      <4>1. CASE Arrive(w)
        <5>1. ASSUME NEW u \in Names,
                     LoginRefused(w, u) \/ \E good \in BOOLEAN : LoginBegin(w, u, good)
              PROVE  LoopFree /\ \A v \in Slots \ {w} : slot'[v] = slot[v]
          BY <5>1 DEF LoginRefused, LoginBegin
        <5>2. ASSUME NEW t \in Tokens, RefreshBegin(w, t)
              PROVE  LoopFree /\ \A v \in Slots \ {w} : slot'[v] = slot[v]
          BY <5>2 DEF RefreshBegin
        <5>3. ASSUME NEW b \in Tokens, NEW t \in Tokens, LogoutCheck(w, b, t)
              PROVE  slot'[w].pc \notin OnLoop /\ \A v \in Slots \ {w} : slot'[v] = slot[v]
          BY <5>3 DEF LogoutCheck, Idle
        <5> QED
          BY <4>1, <5>1, <5>2, <5>3 DEF Arrive
      <4>2. CASE PickUp(w)
        BY <4>2 DEF PickUp, LogoutBegin, LogoutRefused
      <4> QED
        BY <2>1, <4>1, <4>2
    <3> QED
      BY <3>1 DEF LoopFree
  <2>2. ASSUME NEW w \in Slots, BodyStep(w) \/ Fault(w) PROVE Exclusive'
    <3>1. /\ slot[w].pc \in OnLoop \/ slot'[w].pc \notin OnLoop
          /\ \A v \in Slots \ {w} : slot'[v] = slot[v]
      <4>1. CASE LoginStep(w)
        BY <4>1 DEF LoginStep, Unlock, RejectPassword, AcceptPassword, WriteFailLog,
                    WriteSecurityLog
      <4>2. CASE IssueStep(w)
        BY <4>2 DEF IssueStep, Mint, Insert, InsertConflict, WriteAuthLog
      <4>3. CASE RevokeStep(w) \/ Fault(w)
        BY <4>3 DEF RevokeStep, Expire, Rotate, Logout, Fault, Idle
      <4> QED
        BY <2>2, <4>1, <4>2, <4>3 DEF BodyStep
    <3> QED
      BY <3>1
  <2>3. CASE Crash
    BY <2>3 DEF Crash, Idle
  <2>4. CASE Tick \/ UNCHANGED vars
    BY <2>4 DEF Tick, vars
  <2> QED
    BY <2>1, <2>2, <2>3, <2>4 DEF Next
<1> QED
  BY <1>1, <1>2, TypeCorrect, PTL DEF Spec

-------------------------------------------------------------------------------
(* The account lock *)

\* A step of slot w that leaves the user table alone.
LEMMA RowUntouched ==
  ASSUME TypeOK, LockInv, NEW w \in Slots, UNCHANGED <<now, userTable>>,
         \A v \in Slots \ {w} : slot'[v] = slot[v],
         LET r == slot'[w] IN
           /\ r.pc \in {"unlock", "verify", "failLog", "secLog"} => r.seen = failedCount[r.user]
           /\ r.pc = "unlock" => lockedUntil[r.user] <= now
           /\ r.pc = "verify" => lockedUntil[r.user] = 0
           /\ r.pc \in {"mint", "insert"} /\ r.tok = None => lockedUntil[r.user] = 0
  PROVE  LockInv'
  BY DEF LockInv, RowFresh, LockMatchesCount, NoLostFailure, userTable

\* A step of the body on the loop that changes the row of its user.
LEMMA RowWritten ==
  ASSUME TypeOK, LockInv, Exclusive, NEW w \in Slots, slot[w].pc \in OnLoop,
         NEW u \in Accounts, NEW n \in 0 .. MaxFailures, NEW until \in Nat,
         n = MaxFailures <=> until # 0,
         failedCount' = [failedCount EXCEPT ![u] = n],
         lockedUntil' = [lockedUntil EXCEPT ![u] = until],
         streak' = [streak EXCEPT ![u] = n],
         \A v \in Slots \ {w} : slot'[v] = slot[v],
         slot'[w].user = u, slot'[w].pc \in {"verify", "failLog", "mint"},
         slot'[w].pc \in {"verify", "failLog"} => slot'[w].seen = n,
         slot'[w].pc # "failLog" => n = 0 /\ until = 0
  PROVE  LockInv'
<1> USE ConstantsAssumption DEF TypeOK
<1>1. RowFresh'
  BY DEF RowFresh, Exclusive
<1>2. LockMatchesCount' /\ NoLostFailure'
  BY DEF LockInv, LockMatchesCount, NoLostFailure
<1> QED
  BY <1>1, <1>2 DEF LockInv

\* No step of a handler, fault, crash or tick breaks the lock invariant.
LEMMA LockStep == TypeInv /\ Exclusive /\ LockInv /\ [Next]_vars => LockInv'
<1> SUFFICES ASSUME TypeInv, Exclusive, LockInv, [Next]_vars PROVE LockInv'
  OBVIOUS
<1> TypeOK
  BY DEF TypeInv
<1> USE ConstantsAssumption
<1>1. ASSUME NEW w \in Slots, Arrive(w) PROVE LockInv'
  <2> USE DEF TypeOK, Request
  <2>1. ASSUME NEW u \in Names, LoginRefused(w, u) PROVE LockInv'
    BY <2>1, RowUntouched DEF LoginRefused, Idle
  <2>2. ASSUME NEW u \in Names, NEW good \in BOOLEAN, LoginBegin(w, u, good) PROVE LockInv'
    BY <2>2, RowUntouched DEF LoginBegin, Idle, Locked
  <2>3. ASSUME NEW t \in Tokens, RefreshBegin(w, t) PROVE LockInv'
    BY <2>3, RowUntouched DEF RefreshBegin, Idle
  <2>4. ASSUME NEW b \in Tokens, NEW t \in Tokens, LogoutCheck(w, b, t) PROVE LockInv'
    BY <2>4, RowUntouched DEF LogoutCheck, Idle
  <2> QED
    BY <1>1, <2>1, <2>2, <2>3, <2>4 DEF Arrive
<1>2. ASSUME NEW w \in Slots, PickUp(w) \/ Fault(w) PROVE LockInv'
  BY <1>2, RowUntouched DEF PickUp, LogoutBegin, LogoutRefused, Fault, Idle, TypeOK, Request
<1>3. ASSUME NEW w \in Slots, LoginStep(w) PROVE LockInv'
  <2> DEFINE u == slot[w].user
  <2>1. CASE Unlock(w)
    <3>1. u \in Accounts
      BY <2>1 DEF Unlock, TypeInv, Holds
    <3>2. /\ slot[w].pc \in OnLoop /\ slot'[w].user = u /\ slot'[w].pc = "verify"
          /\ slot'[w].seen = 0
          /\ \A v \in Slots \ {w} : slot'[v] = slot[v]
      BY <2>1 DEF Unlock, TypeOK, Request
    <3>3. 0 \in 0 .. MaxFailures /\ 0 \in Nat /\ 0 # MaxFailures
      OBVIOUS
    <3>4. ResetAttempts(u)
      BY <2>1 DEF Unlock
    <3> HIDE DEF u
    <3> QED
      BY <2>1, <3>1, <3>2, <3>3, <3>4, RowWritten DEF ResetAttempts
  <2>2. CASE RejectPassword(w)
    <3> DEFINE n == slot[w].seen + 1
               until == IF n >= MaxFailures THEN now + LockTime ELSE lockedUntil[u]
    <3>1. u \in Accounts
      BY <2>2 DEF RejectPassword, TypeInv, Holds
    <3>2. /\ slot[w].seen = failedCount[u] /\ failedCount[u] = streak[u]
          /\ lockedUntil[u] = 0 /\ failedCount[u] < MaxFailures
      BY <2>2, <3>1 DEF RejectPassword, LockInv, RowFresh, LockMatchesCount, NoLostFailure, TypeOK
    <3>3. n \in 0 .. MaxFailures /\ until \in Nat /\ (n = MaxFailures <=> until # 0)
      BY <3>1, <3>2 DEF TypeOK
    <3>4. /\ failedCount' = [failedCount EXCEPT ![u] = n]
          /\ lockedUntil' = [lockedUntil EXCEPT ![u] = until]
          /\ streak' = [streak EXCEPT ![u] = n]
      BY <2>2, <3>1, <3>2 DEF RejectPassword, TypeOK
    <3>5. /\ slot'[w].user = u /\ slot'[w].pc = "failLog" /\ slot'[w].seen = n
          /\ \A v \in Slots \ {w} : slot'[v] = slot[v]
          /\ slot[w].pc \in OnLoop
      BY <2>2 DEF RejectPassword, TypeOK, Request
    <3> HIDE DEF n, until
    <3> QED
      BY <3>1, <3>3, <3>4, <3>5, RowWritten
  <2>3. CASE AcceptPassword(w)
    <3>1. u \in Accounts
      BY <2>3 DEF AcceptPassword, TypeInv, Holds
    <3>2. /\ slot[w].pc \in OnLoop /\ slot'[w].user = u /\ slot'[w].pc = "mint"
          /\ \A v \in Slots \ {w} : slot'[v] = slot[v]
      BY <2>3 DEF AcceptPassword, TypeOK, Request
    <3>3. 0 \in 0 .. MaxFailures /\ 0 \in Nat /\ 0 # MaxFailures
      OBVIOUS
    <3>4. ResetAttempts(u)
      BY <2>3 DEF AcceptPassword
    <3> HIDE DEF u
    <3> QED
      BY <2>3, <3>1, <3>2, <3>3, <3>4, RowWritten DEF ResetAttempts
  <2>4. CASE WriteFailLog(w) \/ WriteSecurityLog(w)
    BY <2>4, RowUntouched DEF WriteFailLog, WriteSecurityLog, Idle, TypeOK, Request,
                              LockInv, RowFresh
  <2> QED
    BY <1>3, <2>1, <2>2, <2>3, <2>4 DEF LoginStep
<1>4. ASSUME NEW w \in Slots, IssueStep(w) \/ RevokeStep(w) PROVE LockInv'
  <2>1. CASE Mint(w)
    BY <2>1, RowUntouched DEF Mint, TypeOK, Request, LockInv, RowFresh
  <2>2. CASE Insert(w) \/ InsertConflict(w) \/ WriteAuthLog(w)
    BY <2>2, RowUntouched DEF Insert, InsertConflict, WriteAuthLog, Idle, TypeOK, Request
  <2>3. CASE RevokeStep(w)
    <3>1. slot[w].pc = "rotate" => slot[w].tok # None
      BY DEF TypeInv, Holds
    <3> QED
      BY <2>3, <3>1, RowUntouched DEF RevokeStep, Expire, Rotate, Logout, Idle, TypeOK, Request
  <2> QED
    BY <1>4, <2>1, <2>2, <2>3 DEF IssueStep
<1>5. CASE Crash
  BY <1>5 DEF Crash, Idle, LockInv, RowFresh, LockMatchesCount, NoLostFailure, userTable
<1>6. CASE Tick \/ UNCHANGED vars
  BY <1>6 DEF Tick, vars, LockInv, RowFresh, LockMatchesCount, NoLostFailure, userTable,
              TypeOK, TypeInv, Holds
<1> QED
  BY <1>1, <1>2, <1>3, <1>4, <1>5, <1>6 DEF Next, BodyStep

\* The lock invariant holds in every state: rows agree with their history, and the
\* count a login loaded is still the stored one when it writes it back.
THEOREM LockInvariance == Spec => []LockInv
<1>1. Init => LockInv
  BY ConstantsAssumption
     DEF Init, LockInv, RowFresh, LockMatchesCount, NoLostFailure, Idle
<1> QED
  BY <1>1, LockStep, TypeInvariance, OneBody, PTL DEF Spec

\* An account's row is locked exactly when its failure count is at the limit,
\* and the count never passes the limit (auth_service.login, record_failed_login).
THEOREM LockSound == Spec => []LockMatchesCount
  BY LockInvariance, PTL DEF LockInv

\* record_failed_login never overwrites another login's failure.
THEOREM FailuresCounted == Spec => []NoLostFailure
  BY LockInvariance, PTL DEF LockInv

\* The log entries of a rejected password agree with the row they describe.
THEOREM AuditSound == Spec => []AuditTellsRow
<1>1. LockInv => AuditTellsRow
  BY DEF LockInv, RowFresh, AuditTellsRow
<1> QED
  BY <1>1, LockInvariance, PTL

\* No step of any request lifts or moves a lock that has not lapsed.
THEOREM LockNotLifted == Spec => LockHolds
<1> DEFINE Kept == \A u \in Accounts : Locked(u) => lockedUntil'[u] = lockedUntil[u]
<1>1. TypeInv /\ LockInv /\ [Next]_vars => [Kept]_vars
  <2> SUFFICES ASSUME TypeInv, LockInv, Next, ~UNCHANGED lockedUntil PROVE Kept
    BY DEF vars, userTable
  <2>1. PICK w \in Slots : Unlock(w) \/ RejectPassword(w) \/ AcceptPassword(w)
    BY DEF Next, Arrive, PickUp, BodyStep, LoginStep, IssueStep, RevokeStep,
           LoginRefused, LoginBegin, RefreshBegin, LogoutCheck, LogoutBegin, LogoutRefused,
           WriteFailLog, WriteSecurityLog, Mint, Insert, InsertConflict, WriteAuthLog,
           Expire, Rotate, Logout, Fault, Crash, Tick, userTable
  <2>2. /\ slot[w].user \in Accounts
        /\ slot[w].pc = "unlock" => lockedUntil[slot[w].user] <= now
        /\ slot[w].pc = "verify" => lockedUntil[slot[w].user] = 0
    BY <2>1 DEF TypeInv, Holds, LockInv, RowFresh, Unlock, RejectPassword, AcceptPassword
  <2>3. /\ \A u \in Accounts \ {slot[w].user} : lockedUntil'[u] = lockedUntil[u]
        /\ ~Locked(slot[w].user)
    BY <2>1, <2>2 DEF Unlock, RejectPassword, AcceptPassword, ResetAttempts, Locked,
                      TypeInv, TypeOK
  <2> QED
    BY <2>2, <2>3
<1> QED
  BY <1>1, TypeInvariance, LockInvariance, PTL DEF Spec, LockHolds

-------------------------------------------------------------------------------
(* Sessions *)

\* A step that leaves the token table alone and starts no renewal.
LEMMA TokensUntouched ==
  ASSUME TypeOK, TokenInv, NEW w \in Slots, UNCHANGED tokenTable,
         \A v \in Slots \ {w} : slot'[v] = slot[v],
         slot'[w].pc \in {"expire", "rotate", "revoke"} => status[slot'[w].tok] = "live",
         Renewing(w)' => Renewing(w) /\ slot'[w].tok = slot[w].tok
  PROVE  TokenInv'
  BY DEF TokenInv, TokenFresh, Lineage, OneLivePerSession, LogoutEndsSession, Renewing,
         tokenTable, TypeOK

\* A live token is revoked by the one body on the loop.
LEMMA TokenRevoked ==
  ASSUME TypeOK, TokenInv, Exclusive, NEW w \in Slots, NEW t \in Tokens,
         NEW why \in {"rotated", "loggedOut", "expired"}, Revoke(t, why),
         slot[w].pc \in OnLoop, status[t] = "live",
         \A v \in Slots \ {w} : slot'[v] = slot[v],
         slot'[w].pc \notin {"expire", "rotate", "revoke"},
         Renewing(w)' => slot'[w].tok = t /\ why = "rotated"
  PROVE  TokenInv'
<1> USE DEF TypeOK
<1>1. /\ UNCHANGED session
      /\ status'[t] = why
      /\ \A s \in Tokens \ {t} : status'[s] = status[s]
  BY DEF Revoke
<1>2. \A s \in Tokens : session[s] = session[t] => status'[s] # "live"
  BY <1>1 DEF TokenInv, OneLivePerSession
<1>3. \A s \in Tokens : session[s] = session[t] => status[s] # "loggedOut"
  BY DEF TokenInv, LogoutEndsSession
<1>4. TokenFresh'
  BY <1>1, <1>2, <1>3 DEF TokenFresh, Renewing, Exclusive
<1>5. Lineage' /\ OneLivePerSession'
  BY <1>1 DEF TokenInv, Lineage, OneLivePerSession
<1>6. LogoutEndsSession'
  BY <1>1, <1>2, <1>3 DEF TokenInv, LogoutEndsSession
<1> QED
  BY <1>4, <1>5, <1>6 DEF TokenInv

\* A token that was not in the table joins session r, which has no valid token
\* and was not logged out.
LEMMA TokenInserted ==
  ASSUME TypeOK, TokenInv, Exclusive, NEW w \in Slots, slot[w].pc \in OnLoop,
         NEW t \in Tokens, status[t] = "absent", NEW r \in Tokens,
         r = t \/ (status[r] # "absent" /\ session[r] = r /\ \A s \in Tokens :
                     session[s] = r => status[s] \notin {"live", "loggedOut"}),
         status' = [status EXCEPT ![t] = "live"],
         session' = [session EXCEPT ![t] = r],
         \A v \in Slots \ {w} : slot'[v] = slot[v],
         slot'[w].pc = "authLog"
  PROVE  TokenInv'
<1> USE DEF TypeOK
<1>1. \A s \in Tokens : session[s] = t => s = t
  BY DEF TokenInv, Lineage
<1>2. \A s \in Tokens \ {t} : session[s] = r => status[s] \notin {"live", "loggedOut"}
  BY <1>1
<1>3. TokenFresh'
  BY DEF TokenInv, TokenFresh, Renewing, Exclusive
<1>4. Lineage'
  BY DEF TokenInv, Lineage
<1>5. OneLivePerSession' /\ LogoutEndsSession'
  BY <1>2 DEF TokenInv, OneLivePerSession, LogoutEndsSession
<1> QED
  BY <1>3, <1>4, <1>5 DEF TokenInv

\* No step of a handler, fault, crash or tick breaks the session invariant.
LEMMA TokenStep == TypeInv /\ Exclusive /\ TokenInv /\ [Next]_vars => TokenInv'
<1> SUFFICES ASSUME TypeInv, Exclusive, TokenInv, [Next]_vars PROVE TokenInv'
  OBVIOUS
<1> TypeOK
  BY DEF TypeInv
<1>1. ASSUME NEW w \in Slots, Arrive(w) PROVE TokenInv'
  <2> USE DEF TypeOK, Request, Renewing
  <2>1. ASSUME NEW u \in Names, LoginRefused(w, u) PROVE TokenInv'
    BY <2>1, TokensUntouched DEF LoginRefused, Idle
  <2>2. ASSUME NEW u \in Names, NEW good \in BOOLEAN, LoginBegin(w, u, good) PROVE TokenInv'
    BY <2>2, TokensUntouched DEF LoginBegin, Idle
  <2>3. ASSUME NEW t \in Tokens, RefreshBegin(w, t) PROVE TokenInv'
    BY <2>3, TokensUntouched DEF RefreshBegin, Idle
  <2>4. ASSUME NEW b \in Tokens, NEW t \in Tokens, LogoutCheck(w, b, t) PROVE TokenInv'
    BY <2>4, TokensUntouched DEF LogoutCheck, Idle
  <2> QED
    BY <1>1, <2>1, <2>2, <2>3, <2>4 DEF Arrive
<1>2. ASSUME NEW w \in Slots, PickUp(w) \/ Fault(w) PROVE TokenInv'
  BY <1>2, TokensUntouched DEF PickUp, LogoutBegin, LogoutRefused, Fault, Revocable, Idle,
                               TypeOK, Request, Renewing
<1>3. ASSUME NEW w \in Slots, LoginStep(w) PROVE TokenInv'
  <2>1. CASE Unlock(w) \/ RejectPassword(w) \/ WriteFailLog(w) \/ WriteSecurityLog(w)
    BY <2>1, TokensUntouched DEF Unlock, RejectPassword, WriteFailLog, WriteSecurityLog, Idle,
                                 TypeOK, Request, Renewing
  <2>2. CASE AcceptPassword(w)
    <3>1. slot[w].tok = None
      BY <2>2 DEF AcceptPassword, TypeInv, Holds
    <3> QED
      BY <2>2, <3>1, TokensUntouched DEF AcceptPassword, TypeOK, Request, Renewing
  <2> QED
    BY <1>3, <2>1, <2>2 DEF LoginStep
<1>4. ASSUME NEW w \in Slots, IssueStep(w) PROVE TokenInv'
  <2>1. CASE Mint(w) \/ InsertConflict(w) \/ WriteAuthLog(w)
    BY <2>1, TokensUntouched DEF Mint, InsertConflict, WriteAuthLog, Idle, TypeOK, Request,
                                 Renewing
  <2>2. CASE Insert(w)
    <3> DEFINE t == slot[w].new
               r == IF slot[w].tok = None THEN t ELSE session[slot[w].tok]
    <3>1. t \in Tokens /\ slot[w].tok \in Tokens \union {None}
      BY <2>2 DEF Insert, TypeInv, Holds, TypeOK, Request
    <3>2. /\ r \in Tokens
          /\ r = t \/ (status[r] # "absent" /\ session[r] = r /\ \A s \in Tokens :
                         session[s] = r => status[s] \notin {"live", "loggedOut"})
      BY <2>2, <3>1 DEF Insert, Renewing, TokenInv, TokenFresh, Lineage, TypeOK
    <3>3. /\ slot[w].pc \in OnLoop /\ slot'[w].pc = "authLog"
          /\ \A v \in Slots \ {w} : slot'[v] = slot[v]
      BY <2>2 DEF Insert, TypeOK, Request
    <3>4. /\ status[t] = "absent"
          /\ status' = [status EXCEPT ![t] = "live"]
          /\ session' = [session EXCEPT ![t] = r]
      BY <2>2 DEF Insert
    <3> HIDE DEF t, r
    <3> QED
      BY <3>1, <3>2, <3>3, <3>4, TokenInserted
  <2> QED
    BY <1>4, <2>1, <2>2 DEF IssueStep
<1>5. ASSUME NEW w \in Slots, RevokeStep(w) PROVE TokenInv'
  <2> DEFINE t == slot[w].tok
  <2>1. t \in Tokens /\ status[t] = "live"
    BY <1>5 DEF RevokeStep, Expire, Rotate, Logout, TypeInv, Holds, TokenInv, TokenFresh
  <2>2. PICK why \in {"rotated", "loggedOut", "expired"} :
          /\ Revoke(t, why)
          /\ Rotate(w) => why = "rotated"
    BY <1>5 DEF RevokeStep, Expire, Rotate, Logout
  <2>3. /\ slot[w].pc \in OnLoop
        /\ \A v \in Slots \ {w} : slot'[v] = slot[v]
        /\ slot'[w].pc \notin {"expire", "rotate", "revoke"}
        /\ Renewing(w)' => slot'[w].tok = t /\ Rotate(w)
    BY <1>5 DEF RevokeStep, Expire, Rotate, Logout, Idle, Renewing, TypeOK, Request
  <2> HIDE DEF t
  <2> QED
    BY <2>1, <2>2, <2>3, TokenRevoked
<1>6. CASE Crash
  BY <1>6 DEF Crash, Idle, TokenInv, TokenFresh, Lineage, OneLivePerSession,
              LogoutEndsSession, Renewing, tokenTable
<1>7. CASE Tick \/ UNCHANGED vars
  BY <1>7 DEF Tick, vars, TokenInv, TokenFresh, Lineage, OneLivePerSession,
              LogoutEndsSession, Renewing, tokenTable
<1> QED
  BY <1>1, <1>2, <1>3, <1>4, <1>5, <1>6, <1>7 DEF Next, BodyStep

\* The session invariant holds in every state: one valid token per session, none
\* after logout, and a rotation under way owns its session alone.
THEOREM TokenInvariance == Spec => []TokenInv
<1>1. Init => TokenInv
  BY DEF Init, TokenInv, TokenFresh, Lineage, OneLivePerSession, LogoutEndsSession, Renewing,
         Idle
<1> QED
  BY <1>1, TokenStep, TypeInvariance, OneBody, PTL DEF Spec

\* The tokens that descend from one login never have two valid ones among them.
THEOREM SessionHasOneToken == Spec => []OneLivePerSession
  BY TokenInvariance, PTL DEF TokenInv

\* A logged-out session never has a valid token again.
THEOREM LogoutIsFinal == Spec => []LogoutEndsSession
  BY TokenInvariance, PTL DEF TokenInv

\* No login stores a token for an account that is locked at that moment.
THEOREM LockedOut == Spec => NoLoginWhileLocked
<1> DEFINE Guarded == \A t \in Tokens :
                        status[t] = "absent" /\ status'[t] = "live" /\ session'[t] = t
                          => ~Locked(t.user)
<1>1. TypeInv /\ LockInv /\ TokenInv /\ [Next]_vars => [Guarded]_vars
  <2> SUFFICES ASSUME TypeInv, LockInv, TokenInv, Next,
                      NEW t \in Tokens, status[t] = "absent", status'[t] = "live",
                      session'[t] = t
               PROVE  ~Locked(t.user)
    OBVIOUS
  <2> TypeOK
    BY DEF TypeInv
  <2>0. \/ \E w \in Slots : Insert(w)
        \/ UNCHANGED tokenTable
        \/ \E w \in Slots : RevokeStep(w)
    <3>1. ASSUME NEW w \in Slots, Arrive(w) \/ PickUp(w) \/ Fault(w) PROVE UNCHANGED tokenTable
      BY <3>1 DEF Arrive, PickUp, Fault, LoginRefused, LoginBegin, RefreshBegin, LogoutCheck,
                  LogoutBegin, LogoutRefused
    <3>2. ASSUME NEW w \in Slots, LoginStep(w) PROVE UNCHANGED tokenTable
      BY <3>2 DEF LoginStep, Unlock, RejectPassword, AcceptPassword, WriteFailLog,
                  WriteSecurityLog
    <3>3. ASSUME NEW w \in Slots, IssueStep(w) PROVE Insert(w) \/ UNCHANGED tokenTable
      BY <3>3 DEF IssueStep, Mint, InsertConflict, WriteAuthLog
    <3>4. Crash \/ Tick => UNCHANGED tokenTable
      BY DEF Crash, Tick
    <3> QED
      BY <3>1, <3>2, <3>3, <3>4 DEF Next, BodyStep
  <2>1. PICK w \in Slots : Insert(w)
    BY <2>0 DEF RevokeStep, Expire, Rotate, Logout, Revoke, tokenTable, TypeOK
  <2>2. /\ slot[w].new = t /\ t.user = slot[w].user /\ slot[w].user \in Accounts
        /\ slot[w].tok \in Tokens \union {None}
    BY <2>1 DEF Insert, TypeInv, TypeOK, Holds, Request
  <2>3. CASE slot[w].tok = None
    <3>1. lockedUntil[t.user] = 0
      BY <2>1, <2>2, <2>3 DEF Insert, LockInv, RowFresh
    <3> QED
      BY <3>1 DEF Locked, TypeOK
  <2>4. CASE slot[w].tok \in Tokens
    <3>1. slot[w].tok # None
      BY <2>4, ConstantsAssumption
    <3>2. status[session[slot[w].tok]] # "absent"
      BY <2>1, <2>4, <3>1 DEF Insert, TokenInv, TokenFresh, Renewing, Lineage
    <3>3. session'[t] = session[slot[w].tok]
      BY <2>1, <2>2, <3>1 DEF Insert, TypeOK
    <3> QED
      BY <3>2, <3>3
  <2> QED
    BY <2>2, <2>3, <2>4
<1> QED
  BY <1>1, TypeInvariance, LockInvariance, TokenInvariance, PTL DEF Spec, NoLoginWhileLocked

-------------------------------------------------------------------------------
(***************************************************************************)
(* AuthService implements Sessions.  A session is seen through the token   *)
(* its login stored; it is being renewed while some request holds a spent  *)
(* token of it and no successor yet.                                       *)
(***************************************************************************)

\* A step of one session, read off the token table.
LEMMA SessionMoves ==
  ASSUME NEW r \in Tokens, NEW from, NEW to, Phase(r) \in from, Phase(r)' = to,
         \A s \in Tokens \ {r} : Phase(s)' = Phase(s)
  PROVE  S!Move(r, from, to)
<1> DEFINE phase == [s \in Tokens |-> Phase(s)]
           phaseNew == [s \in Tokens |-> Phase(s)']
<1>1. phaseNew = [phase EXCEPT ![r] = to]
  OBVIOUS
<1>2. phase[r] \in from
  OBVIOUS
<1> QED
  BY <1>1, <1>2 DEF S!Move

\* A step that changes the valid tokens of one session changes those of no other.
LEMMA SessionHolds ==
  ASSUME NEW r \in Tokens, NEW held, Live(r)' = held,
         \A s \in Tokens \ {r} : Live(s)' = Live(s)
  PROVE  [s \in Tokens |-> Live(s)]' = [[s \in Tokens |-> Live(s)] EXCEPT ![r] = held]
  OBVIOUS

\* A step that neither writes the token table nor starts or ends a renewal.
LEMMA ViewUnchanged ==
  ASSUME UNCHANGED tokenTable, \A s \in Tokens : Renewal(s)' <=> Renewal(s)
  PROVE  UNCHANGED S!svars
<1>1. \A s \in Tokens : Live(s)' = Live(s) /\ Phase(s)' = Phase(s)
  BY DEF Phase, Live, Issued, Renewal, tokenTable
<1>2. Issued' = Issued
  BY DEF Issued, tokenTable
<1> QED
  BY <1>1, <1>2 DEF S!svars, tokenTable

\* Only the body on the loop can be renewing.
LEMMA OneRenewal ==
  ASSUME Exclusive, NEW w \in Slots, slot[w].pc \in OnLoop
  PROVE  \A v \in Slots \ {w} : ~Renewing(v)
  BY DEF Exclusive, Renewing

\* A refresh that ends between its two commits closes its session.
LEMMA RenewalAbandoned ==
  ASSUME TypeOK, Exclusive, TokenInv, NEW w \in Slots, Renewing(w),
         slot[w].tok \in Tokens,
         UNCHANGED tokenTable, \A v \in Slots : ~Renewing(v)'
  PROVE  S!Close(session[slot[w].tok])
<1>0. PICK r \in Tokens : r = session[slot[w].tok]
  BY DEF TypeOK
<1>1. session[r] = r /\ r \in Issued /\ Live(r) = {}
  BY <1>0 DEF TokenInv, TokenFresh, Lineage, TypeOK, Issued, Live
<1>2. \A s \in Tokens : ~Renewal(s)'
  BY DEF Renewal
<1>3. \A s \in Tokens : Renewal(s) <=> s = r
  BY <1>0, OneRenewal DEF Renewal, Renewing
<1>4. Issued' = Issued /\ UNCHANGED session /\ \A s \in Tokens : Live(s)' = Live(s)
  BY DEF Issued, Live, tokenTable
<1>5. Phase(r) = "renewing" /\ Phase(r)' = "closed"
  BY <1>1, <1>2, <1>3, <1>4 DEF Phase
<1>6. \A s \in Tokens \ {r} : Phase(s)' = Phase(s)
  BY <1>2, <1>3, <1>4 DEF Phase
<1>7. S!Move(r, {"open", "renewing"}, "closed")
  BY <1>1, <1>5, <1>6, SessionMoves
<1>8. [s \in Tokens |-> Live(s)]' = [[s \in Tokens |-> Live(s)] EXCEPT ![r] = {}]
  BY <1>1, <1>4, SessionHolds
<1>9. S!Close(r)
  BY <1>4, <1>7, <1>8 DEF S!Close
<1> QED
  BY <1>0, <1>9

\* A revocation spends the session's token or closes the session.
LEMMA RevocationIsSpendOrClose ==
  ASSUME TypeOK, Exclusive, TokenInv, NEW w \in Slots, slot[w].pc \in OnLoop,
         NEW t \in Tokens, t = slot[w].tok, status[t] = "live", ~Renewing(w),
         NEW why \in {"rotated", "loggedOut", "expired"}, Revoke(t, why),
         \A v \in Slots \ {w} : slot'[v] = slot[v],
         Renewing(w)' => slot'[w].tok = t
  PROVE  S!Spend(session[t]) \/ S!Close(session[t])
<1> USE DEF TypeOK
<1>0. PICK r \in Tokens : r = session[t]
  OBVIOUS
<1>1. session[r] = r /\ r \in Issued
  BY <1>0 DEF TokenInv, Lineage, Issued
<1>2. \A s \in Tokens : ~Renewal(s)
  BY OneRenewal DEF Renewal
<1>3. \A s \in Tokens \ {r} : ~Renewal(s)'
  BY <1>0, OneRenewal DEF Renewal, Renewing, Revoke
<1>4. Issued' = Issued /\ UNCHANGED session
  BY DEF Issued, Revoke
<1>5. /\ Live(r) = {t} /\ Live(r)' = {}
      /\ \A s \in Tokens \ {r} : Live(s)' = Live(s)
  BY <1>0 DEF Live, Revoke, TokenInv, OneLivePerSession
<1>6. Phase(r) = "open" /\ Phase(r)' \in {"renewing", "closed"}
  BY <1>1, <1>4, <1>5 DEF Phase
<1>7. \A s \in Tokens \ {r} : Phase(s)' = Phase(s)
  BY <1>2, <1>3, <1>4, <1>5 DEF Phase
<1>8. [s \in Tokens |-> Live(s)]' = [[s \in Tokens |-> Live(s)] EXCEPT ![r] = {}]
  BY <1>1, <1>5, SessionHolds
<1>9. CASE Phase(r)' = "renewing"
  <2>1. S!Move(r, {"open"}, "renewing")
    BY <1>1, <1>6, <1>7, <1>9, SessionMoves
  <2>2. S!Spend(r)
    BY <1>4, <1>8, <2>1 DEF S!Spend
  <2> QED
    BY <1>0, <2>2
<1>10. CASE Phase(r)' = "closed"
  <2>1. S!Move(r, {"open", "renewing"}, "closed")
    BY <1>1, <1>6, <1>7, <1>10, SessionMoves
  <2>2. S!Close(r)
    BY <1>4, <1>8, <2>1 DEF S!Close
  <2> QED
    BY <1>0, <2>2
<1> QED
  BY <1>6, <1>9, <1>10

\* Storing a token opens the session of a login or renews that of a refresh.
LEMMA InsertionIsOpenOrRenew ==
  ASSUME TypeInv, Exclusive, TokenInv, NEW w \in Slots, Insert(w)
  PROVE  \E s \in Tokens : S!Open(s) \/ \E t \in Tokens : S!Renew(s, t)
<1> USE DEF TypeOK
<1>0. TypeOK
  BY DEF TypeInv
<1>1. PICK t \in Tokens, tok \in Tokens \union {None} : t = slot[w].new /\ tok = slot[w].tok
  BY <1>0 DEF Insert, TypeInv, Holds, Request
<1>r. PICK r \in Tokens : r = IF tok = None THEN t ELSE session[tok]
  BY <1>0, <1>1
<1>2. /\ status[t] = "absent"
      /\ status' = [status EXCEPT ![t] = "live"]
      /\ session' = [session EXCEPT ![t] = r]
  BY <1>1, <1>r DEF Insert
<1>3. tok # None => /\ tok \in Tokens
                    /\ r \in Issued /\ session[r] = r
                    /\ Live(r) = {} /\ Renewal(r)
  BY <1>0, <1>1, <1>r DEF Insert, Renewing, Renewal, TokenInv, TokenFresh, Lineage, Issued, Live
<1>4. session[t] = t /\ t \notin Issued
  BY <1>0, <1>1, <1>2 DEF TokenInv, Lineage, Issued
<1>5. Issued' = Issued \union {t}
  BY <1>0, <1>1, <1>2 DEF Issued
<1>6. \A s \in Tokens : session[s] = t => s = t
  BY <1>0, <1>1, <1>2 DEF TokenInv, Lineage
<1>7. \A s \in Tokens : Live(s)' = IF s = r THEN Live(s) \union {t} ELSE Live(s)
  BY <1>0, <1>1, <1>2, <1>4, <1>6 DEF Live
<1>8. Live(t) = {} /\ Live(r)' = {t} /\ \A s \in Tokens \ {r} : Live(s)' = Live(s)
  <2>1. Live(t) = {}
    BY <1>0, <1>2, <1>6 DEF Live
  <2> QED
    BY <1>3, <1>r, <1>7, <2>1
<1>9. \A s \in Tokens : ~Renewal(s)'
  BY <1>0, OneRenewal DEF Renewal, Renewing, Insert, Request
<1>10. \A s \in Tokens : Renewal(s) => tok # None /\ s = r
  BY <1>0, <1>1, <1>r, OneRenewal DEF Renewal, Renewing, Insert
<1>11. \A s \in Tokens \ {t} : session'[s] = session[s] /\ (s \in Issued' <=> s \in Issued)
  BY <1>0, <1>1, <1>2, <1>5
<1>12. \A s \in Tokens \ {r, t} : Phase(s)' = Phase(s)
  BY <1>8, <1>9, <1>10, <1>11 DEF Phase
<1>13. session'[t] = r /\ t \in Issued'
  BY <1>0, <1>1, <1>2, <1>5
<1>14. Phase(t) = "unused"
  BY <1>4 DEF Phase
<1>15. tok = None => r = t
  BY <1>r
<1>16. Phase(r)' = "open"
  BY <1>3, <1>4, <1>8, <1>11, <1>13, <1>15 DEF Phase
<1>17. [s \in Tokens |-> Live(s)]' = [[s \in Tokens |-> Live(s)] EXCEPT ![r] = {t}]
  BY <1>4, <1>8, SessionHolds
<1>18. CASE r = t
  <2>1. S!Move(t, {"unused"}, "open")
    BY <1>1, <1>12, <1>14, <1>16, <1>18, SessionMoves
  <2>2. S!Open(t)
    BY <1>4, <1>5, <1>17, <1>18, <2>1 DEF S!Open
  <2> QED
    BY <1>1, <2>2
<1>19. CASE r # t
  <2>1. Phase(r) = "renewing"
    BY <1>3, <1>15, <1>19 DEF Phase
  <2>2. Phase(t)' = "unused"
    BY <1>13, <1>19 DEF Phase
  <2>3. S!Move(r, {"renewing"}, "open")
    BY <1>4, <1>12, <1>14, <1>16, <2>1, <2>2, SessionMoves
  <2>4. S!Renew(r, t)
    BY <1>4, <1>5, <1>17, <2>3 DEF S!Renew
  <2> QED
    BY <1>1, <1>4, <2>4
<1> QED
  BY <1>18, <1>19

\* A step of one slot that leaves the token table alone is no step of a session,
\* unless it ends a renewal.
LEMMA SlotStepView ==
  ASSUME TypeInv, Exclusive, TokenInv, NEW w \in Slots, UNCHANGED tokenTable,
         \A v \in Slots \ {w} : slot'[v] = slot[v],
         Renewing(w)' => Renewing(w) /\ slot'[w].tok = slot[w].tok
  PROVE  [S!Next]_S!svars
<1>1. CASE Renewing(w)' <=> Renewing(w)
  BY <1>1, ViewUnchanged DEF Renewal, Renewing, tokenTable
<1>2. CASE Renewing(w) /\ ~Renewing(w)'
  <2>1. TypeOK /\ slot[w].pc \in OnLoop /\ slot[w].tok \in Tokens
    BY <1>2 DEF Renewing, TypeInv, TypeOK, Request
  <2>2. \A v \in Slots : ~Renewing(v)'
    BY <1>2, <2>1, OneRenewal DEF Renewing
  <2>3. session[slot[w].tok] \in Tokens
    BY <2>1 DEF TypeOK
  <2> QED
    BY <1>2, <2>1, <2>2, <2>3, RenewalAbandoned DEF S!Next
<1> QED
  BY <1>1, <1>2

\* Every step of the handlers is a step of Sessions or leaves all sessions alone.
LEMMA StepSimulation ==
  TypeInv /\ Exclusive /\ TokenInv /\ [Next]_vars => [S!Next]_S!svars
<1> SUFFICES ASSUME TypeInv, Exclusive, TokenInv, [Next]_vars PROVE [S!Next]_S!svars
  OBVIOUS
<1> TypeOK
  BY DEF TypeInv
<1>1. ASSUME NEW w \in Slots, Arrive(w) PROVE [S!Next]_S!svars
  <2> USE DEF TypeOK, Request, Renewing
  <2>1. ASSUME NEW u \in Names, LoginRefused(w, u) PROVE [S!Next]_S!svars
    BY <2>1, SlotStepView DEF LoginRefused, Idle
  <2>2. ASSUME NEW u \in Names, NEW good \in BOOLEAN, LoginBegin(w, u, good)
        PROVE  [S!Next]_S!svars
    BY <2>2, SlotStepView DEF LoginBegin, Idle
  <2>3. ASSUME NEW t \in Tokens, RefreshBegin(w, t) PROVE [S!Next]_S!svars
    BY <2>3, SlotStepView DEF RefreshBegin, Idle
  <2>4. ASSUME NEW b \in Tokens, NEW t \in Tokens, LogoutCheck(w, b, t)
        PROVE  [S!Next]_S!svars
    BY <2>4, SlotStepView DEF LogoutCheck, Idle
  <2> QED
    BY <1>1, <2>1, <2>2, <2>3, <2>4 DEF Arrive
<1>2. ASSUME NEW w \in Slots, PickUp(w) \/ Fault(w) PROVE [S!Next]_S!svars
  BY <1>2, SlotStepView DEF PickUp, LogoutBegin, LogoutRefused, Fault, Idle, TypeOK, Request,
                            Renewing
<1>3. ASSUME NEW w \in Slots, LoginStep(w) PROVE [S!Next]_S!svars
  <2>1. CASE Unlock(w) \/ RejectPassword(w) \/ WriteFailLog(w) \/ WriteSecurityLog(w)
    BY <2>1, SlotStepView DEF Unlock, RejectPassword, WriteFailLog, WriteSecurityLog, Idle,
                              TypeOK, Request, Renewing
  <2>2. CASE AcceptPassword(w)
    <3>1. slot[w].tok = None
      BY <2>2 DEF AcceptPassword, TypeInv, Holds
    <3> QED
      BY <2>2, <3>1, SlotStepView DEF AcceptPassword, TypeOK, Request, Renewing
  <2> QED
    BY <1>3, <2>1, <2>2 DEF LoginStep
<1>4. ASSUME NEW w \in Slots, IssueStep(w) PROVE [S!Next]_S!svars
  <2>1. CASE Mint(w) \/ InsertConflict(w) \/ WriteAuthLog(w)
    BY <2>1, SlotStepView DEF Mint, InsertConflict, WriteAuthLog, Idle, TypeOK, Request,
                              Renewing
  <2>2. CASE Insert(w)
    BY <2>2, InsertionIsOpenOrRenew DEF S!Next
  <2> QED
    BY <1>4, <2>1, <2>2 DEF IssueStep
<1>5. ASSUME NEW w \in Slots, RevokeStep(w) PROVE [S!Next]_S!svars
  <2>1. PICK t \in Tokens : t = slot[w].tok /\ status[t] = "live"
    BY <1>5 DEF RevokeStep, Expire, Rotate, Logout, TypeInv, Holds, TokenInv, TokenFresh
  <2>2. PICK why \in {"rotated", "loggedOut", "expired"} : Revoke(t, why)
    BY <1>5, <2>1 DEF RevokeStep, Expire, Rotate, Logout
  <2>3. /\ slot[w].pc \in OnLoop /\ ~Renewing(w)
        /\ \A v \in Slots \ {w} : slot'[v] = slot[v]
        /\ Renewing(w)' => slot'[w].tok = t
    BY <1>5, <2>1 DEF RevokeStep, Expire, Rotate, Logout, Idle, Renewing, TypeOK, Request
  <2>4. session[t] \in Tokens
    BY DEF TypeOK
  <2> QED
    BY <2>1, <2>2, <2>3, <2>4, RevocationIsSpendOrClose DEF S!Next
<1>6. CASE Crash
  <2>1. UNCHANGED tokenTable /\ \A v \in Slots : ~Renewing(v)'
    BY <1>6 DEF Crash, Idle, Renewing
  <2>2. CASE \E w \in Slots : Renewing(w)
    <3>1. PICK w \in Slots : Renewing(w)
      BY <2>2
    <3>2. slot[w].tok \in Tokens /\ session[slot[w].tok] \in Tokens
      BY <3>1 DEF Renewing, TypeOK, Request
    <3> QED
      BY <2>1, <3>1, <3>2, RenewalAbandoned DEF S!Next
  <2>3. CASE \A w \in Slots : ~Renewing(w)
    BY <2>1, <2>3, ViewUnchanged DEF Renewal
  <2> QED
    BY <2>2, <2>3
<1>7. CASE Tick \/ UNCHANGED vars
  BY <1>7, ViewUnchanged DEF Tick, vars, Renewal, Renewing, tokenTable
<1> QED
  BY <1>1, <1>2, <1>3, <1>4, <1>5, <1>6, <1>7 DEF Next, BodyStep

\* Login, refresh, logout, faults and crashes together do to a session only
\* what Sessions allows.
THEOREM RotationImplemented == Spec => Rotation
<1>1. Init => S!Init
  BY DEF Init, S!Init, Phase, Live, Issued
<1> QED
  BY <1>1, StepSimulation, TypeInvariance, OneBody, TokenInvariance, PTL
     DEF Spec, Rotation, S!Spec
===============================================================================
