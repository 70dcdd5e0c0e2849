---------------------------- MODULE KillScriptProofs ----------------------------
(***************************************************************************)
(* That a script that says "Killed stress" has missed nothing it was called *)
(* for, for any number of requests and processes.                          *)
(***************************************************************************)
EXTENDS KillScript, TLAPS

\* What a request saw and still runs was signalled or is on the list of its pkill, while
\* that goes through it.
Listed ==
  \A r \in Requests :
    /\ saw[r] \intersect fresh = {}
    /\ command[r] = "pkill" => saw[r] \intersect running \subseteq todo[r] \union signalled
    /\ answer[r] = "killed" => command[r] = "ended"

Inv == TypeOK /\ Listed /\ NoneMissed

-------------------------------------------------------------------------------
\* A script ends, with or without an answer that counts.
LEMMA FinishType ==
  ASSUME TypeOK, NEW r \in Requests, NEW told \in Success \union Failure, Finish(r, told)
  PROVE  /\ answer' \in [Requests -> {""} \union Success \union Failure]
         /\ \A q \in Requests : answer'[q] = answer[q] \/ (q = r /\ answer'[q] = told)
  BY DEF TypeOK, Finish

\* What a script finds is among the targets, and has every process that runs.
LEMMA MatchingType ==
  ASSUME TypeOK, NEW r \in Requests
  PROVE  Matching(r) \subseteq Targets /\ running \subseteq Matching(r)
  BY DEF TypeOK, Matching, Targets

LEMMA InitInv == Init => Inv
  BY DEF Init, Inv, TypeOK, Listed, NoneMissed, Success, Failure

\* No step of a script, of another script or of the processes takes a process off a
\* list that runs and has not been signalled.
LEMMA StepInv == Inv /\ [Next]_vars => Inv'
<1> SUFFICES ASSUME Inv, [Next]_vars PROVE Inv'
  OBVIOUS
<1> USE DEF Inv
<1>1. ASSUME NEW r \in Requests, Arrive(r) PROVE Inv'
  BY <1>1 DEF Arrive, TypeOK, Listed, NoneMissed
<1>2. ASSUME NEW r \in Requests, PgrepFinds(r) PROVE Inv'
  BY <1>2 DEF PgrepFinds, TypeOK, Listed, NoneMissed
<1>3. ASSUME NEW r \in Requests, PgrepFindsNone(r) PROVE Inv'
  <2>1. /\ answer' \in [Requests -> {""} \union Success \union Failure]
        /\ \A q \in Requests : answer'[q] = "killed" => answer[q] = "killed"
    <3>1. "no process" \in Success \union Failure /\ Finish(r, "no process")
      BY <1>3 DEF PgrepFindsNone, Success
    <3> QED
      BY <3>1, FinishType
  <2> QED
    BY <1>3, <2>1 DEF PgrepFindsNone, TypeOK, Listed, NoneMissed
<1>4. ASSUME NEW r \in Requests, SudoRefuses(r) PROVE Inv'
  <2>1. /\ answer' \in [Requests -> {""} \union Success \union Failure]
        /\ \A q \in Requests : answer'[q] = "killed" => answer[q] = "killed"
    <3>1. "failed" \in Success \union Failure /\ Finish(r, "failed")
      BY <1>4 DEF SudoRefuses, Failure
    <3> QED
      BY <3>1, FinishType
  <2> QED
    BY <1>4, <2>1 DEF SudoRefuses, TypeOK, Listed, NoneMissed
<1>5. ASSUME NEW r \in Requests, Scan(r) PROVE Inv'
  <2> DEFINE found == Matching(r) \union {<<r, "sudo">>}
  <2>1. found \subseteq Targets /\ running \subseteq found
    BY MatchingType DEF Targets
  <2>2. todo' = [todo EXCEPT ![r] = found]
    BY <1>5 DEF Scan
  <2> HIDE DEF found
  <2>3. TypeOK'
    BY <1>5, <2>1, <2>2 DEF Scan, TypeOK
  <2>4. Listed'
    BY <1>5, <2>1, <2>2 DEF Scan, TypeOK, Listed
  <2> QED
    BY <1>5, <2>3, <2>4 DEF Scan, NoneMissed
<1>6. ASSUME NEW r \in Requests, SignalStress(r) PROVE Inv'
  <2>1. PICK s \in todo[r] \intersect running :
          /\ signalled' = signalled \union {s} /\ todo' = [todo EXCEPT ![r] = @ \ {s}]
          /\ UNCHANGED <<allowed, fresh, running, command, answer, saw>>
    BY <1>6 DEF SignalStress
  <2>2. TypeOK'
    BY <2>1 DEF TypeOK
  <2>3. Listed'
    BY <2>1 DEF TypeOK, Listed
  <2> QED
    BY <2>1, <2>2, <2>3 DEF NoneMissed
<1>7. ASSUME NEW r \in Requests, SignalCommand(r) PROVE Inv'
  <2>1. PICK q \in Requests, told \in {"no process", "failed"} :
          /\ Finish(q, told) /\ Struck(q)
          /\ command[q] \in {"pgrep", "sudo", "pkill"}
          /\ UNCHANGED <<allowed, fresh, running, signalled, saw>>
    BY <1>7 DEF SignalCommand, Runs
  <2>2. told \in Success \union Failure /\ told # "killed"
    BY DEF Success, Failure
  <2>3. /\ answer' \in [Requests -> {""} \union Success \union Failure]
        /\ \A p \in Requests : answer'[p] = "killed" => answer[p] = "killed"
    BY <2>1, <2>2, FinishType
  <2> QED
    BY <2>1, <2>3 DEF Struck, TypeOK, Listed, NoneMissed
<1>8. ASSUME NEW r \in Requests, Killed(r) PROVE Inv'
  <2>1. saw[r] \intersect running \subseteq signalled
    BY <1>8, MatchingType DEF Killed, Listed
  <2>2. /\ answer' \in [Requests -> {""} \union Success \union Failure]
        /\ \A q \in Requests : answer'[q] = "killed" => answer[q] = "killed" \/ q = r
    <3>1. "killed" \in Success \union Failure /\ Finish(r, "killed")
      BY <1>8 DEF Killed, Success
    <3> QED
      BY <3>1, FinishType
  <2> QED
    BY <1>8, <2>1, <2>2 DEF Killed, TypeOK, Listed, NoneMissed
<1>9. ASSUME NEW r \in Requests, TimeOut(r) PROVE Inv'
  BY <1>9 DEF TimeOut, TypeOK, Listed, NoneMissed, Failure
<1>10. ASSUME NEW s \in Stress, Start(s) PROVE Inv'
  BY <1>10 DEF Start, TypeOK, Listed, NoneMissed
<1>11. ASSUME NEW s \in Stress, Exit(s) PROVE Inv'
  BY <1>11 DEF Exit, TypeOK, Listed, NoneMissed
<1>12. CASE UNCHANGED vars
  BY <1>12 DEF vars, TypeOK, Listed, NoneMissed, Matching
<1> QED
  BY <1>1, <1>2, <1>3, <1>4, <1>5, <1>6, <1>7, <1>8, <1>9, <1>10, <1>11, <1>12
  DEF Next, Script

\* What a request came for and still runs was signalled, or is on the list of its pkill
\* until that is done.
THEOREM KillInvariant == Spec => []Inv
  BY InitInv, StepInv, PTL DEF Spec

\* Every variable keeps its type; only a pkill that runs has a list.
THEOREM KillTypeCorrect == Spec => []TypeOK
<1>1. Inv => TypeOK
  BY DEF Inv
<1> QED
  BY <1>1, KillInvariant, PTL

\* A client told "Killed stress" has had a signal sent to all that ran when it asked and
\* has not ended, however many scripts run and strike one another.
THEOREM AllSignalled == Spec => []NoneMissed
<1>1. Inv => NoneMissed
  BY DEF Inv
<1> QED
  BY <1>1, KillInvariant, PTL
===============================================================================
