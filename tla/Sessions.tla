------------------------------- MODULE Sessions -------------------------------
(***************************************************************************)
(* What refresh-token rotation promises, with no database, no request and  *)
(* no clock.  A session is named by the token its login issued.  It opens  *)
(* once, hands itself from one token to a token never used before, and,    *)
(* once closed, stays closed.  At no time does it have two valid tokens.   *)
(***************************************************************************)
CONSTANT Tokens

VARIABLES phase,    \* phase[s]: where session s is in its life
          holder,   \* holder[s]: the valid tokens of session s
          used      \* every token ever issued, by any session

svars == <<phase, holder, used>>

Phases == {"unused", "open", "renewing", "closed"}

TypeOK == /\ phase \in [Tokens -> Phases]
          /\ holder \in [Tokens -> SUBSET Tokens]
          /\ used \subseteq Tokens

Init == /\ phase = [s \in Tokens |-> "unused"]
        /\ holder = [s \in Tokens |-> {}]
        /\ used = {}

Move(s, from, to) == /\ phase[s] \in from
                     /\ phase' = [phase EXCEPT ![s] = to]

\* A login starts a session with a token nobody has seen.
Open(s) == /\ s \notin used
           /\ Move(s, {"unused"}, "open")
           /\ holder' = [holder EXCEPT ![s] = {s}]
           /\ used' = used \union {s}

\* A refresh invalidates the token it was given ...
Spend(s) == /\ Move(s, {"open"}, "renewing")
            /\ holder' = [holder EXCEPT ![s] = {}]
            /\ UNCHANGED used

\* ... and then issues its successor.
Renew(s, t) == /\ t \notin used
               /\ Move(s, {"renewing"}, "open")
               /\ holder' = [holder EXCEPT ![s] = {t}]
               /\ used' = used \union {t}

\* A logout, an expiry, or a refresh that never finished.
Close(s) == /\ Move(s, {"open", "renewing"}, "closed")
            /\ holder' = [holder EXCEPT ![s] = {}]
            /\ UNCHANGED used

Next == \E s \in Tokens : \/ Open(s) \/ Spend(s) \/ Close(s)
                          \/ \E t \in Tokens : Renew(s, t)

Spec == Init /\ [][Next]_svars
===============================================================================
