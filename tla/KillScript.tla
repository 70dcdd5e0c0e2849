-------------------------------- MODULE KillScript --------------------------------
(***************************************************************************)
(* POST /api/kill/run (kill.py) and kill_cpu.sh: bash looks for processes  *)
(* whose command line holds "stress" and signals them with sudo pkill,     *)
(* which does not wait for them to end.  The endpoint runs in threads, so  *)
(* scripts overlap, and the command lines of their pgrep, sudo and pkill   *)
(* hold "stress" as well.                                                  *)
(***************************************************************************)
EXTENDS FiniteSets

CONSTANTS
  Requests,
  Stress      \* processes that hold "stress", each with a pid of its own

VARIABLES
  allowed,    \* sudo lets the user of the service run pkill (server_setup.sh 80)
  fresh,      \* processes of Stress that have not started
  running,    \* processes of Stress that run
  signalled,  \* those of them that were sent SIGTERM; they may end later, or never
  command,    \* per request: the command its script runs
  todo,       \* per request: the processes its pkill has found and not yet signalled
  answer,     \* per request: what the client is told, "" before
  saw         \* history: per request, what ran when it came

vars == <<allowed, fresh, running, signalled, command, todo, answer, saw>>

\* A process pkill may find: of Stress, or the command of a request.
Targets == Stress \union (Requests \X {"pgrep", "sudo"})
Success == {"killed", "no process"}
Failure == {"failed", "timeout"}

TypeOK ==
  /\ allowed \in BOOLEAN
  /\ fresh \in SUBSET Stress /\ running \in SUBSET (Stress \ fresh)
  /\ signalled \in SUBSET running
  /\ command \in [Requests -> {"none", "pgrep", "sudo", "pkill", "ended"}]
  /\ todo \in [Requests -> SUBSET Targets]
  /\ answer \in [Requests -> {""} \union Success \union Failure]
  /\ saw \in [Requests -> SUBSET Stress]
  /\ \A r \in Requests : todo[r] # {} => command[r] = "pkill"

Init ==
  /\ allowed \in BOOLEAN
  /\ fresh = Stress /\ running = {} /\ signalled = {}
  /\ command = [r \in Requests |-> "none"]
  /\ todo = [r \in Requests |-> {}]
  /\ answer = [r \in Requests |-> ""]
  /\ saw = [r \in Requests |-> {}]

-------------------------------------------------------------------------------
(* The script *)

\* The process of a request that runs pgrep, or sudo with pkill below it.
Runs(q, what) == command[q] = what \/ (what = "sudo" /\ command[q] = "pkill")

\* What pgrep -f or pkill -f finds but for the commands of r itself.
Matching(r) ==
  running \union {t \in (Requests \ {r}) \X {"pgrep", "sudo"} : Runs(t[1], t[2])}

\* The script of this request ends with this answer, which nobody hears after a timeout.
Finish(r, told) ==
  answer' = [answer EXCEPT ![r] = IF @ = "" THEN told ELSE @]

Arrive(r) ==
  /\ command[r] = "none"
  /\ command' = [command EXCEPT ![r] = "pgrep"]
  /\ saw' = [saw EXCEPT ![r] = running]
  /\ UNCHANGED <<allowed, fresh, running, signalled, todo, answer>>

PgrepFinds(r) ==
  /\ command[r] = "pgrep" /\ Matching(r) # {}
  /\ command' = [command EXCEPT ![r] = IF answer[r] = "" THEN "sudo" ELSE "ended"]
  /\ UNCHANGED <<allowed, fresh, running, signalled, todo, answer, saw>>

PgrepFindsNone(r) ==
  /\ command[r] = "pgrep" /\ Matching(r) = {}
  /\ command' = [command EXCEPT ![r] = "ended"]
  /\ Finish(r, "no process")
  /\ UNCHANGED <<allowed, fresh, running, signalled, todo, saw>>

SudoRefuses(r) ==
  /\ command[r] = "sudo" /\ ~allowed
  /\ command' = [command EXCEPT ![r] = "ended"]
  /\ Finish(r, "failed")
  /\ UNCHANGED <<allowed, fresh, running, signalled, todo, saw>>

\* pkill -n, the newest only.
BugNewestOnly(r) ==
  /\ command[r] = "sudo" /\ allowed
  /\ command' = [command EXCEPT ![r] = "pkill"]
  /\ \E t \in Matching(r) \union {<<r, "sudo">>} : todo' = [todo EXCEPT ![r] = {t}]
  /\ UNCHANGED <<allowed, fresh, running, signalled, answer, saw>>
\* pkill lists the processes once and finds at least the sudo it runs below, which
\* ignores a signal of its own command.
Scan(r) ==
  /\ command[r] = "sudo" /\ allowed
  /\ command' = [command EXCEPT ![r] = "pkill"]
  /\ todo' = [todo EXCEPT ![r] = Matching(r) \union {<<r, "sudo">>}]
  /\ UNCHANGED <<allowed, fresh, running, signalled, answer, saw>>

\* A signalled pgrep ends without output; a signalled sudo passes the signal to its pkill.
Struck(q) ==
  /\ command' = [command EXCEPT ![q] = "ended"]
  /\ todo' = [todo EXCEPT ![q] = {}]

\* SIGTERM: the process ends in its own time (Exit), or catches the signal and does not.
SignalStress(r) ==
  \E s \in todo[r] \intersect running :
    /\ signalled' = signalled \union {s}
    /\ todo' = [todo EXCEPT ![r] = @ \ {s}]
    /\ UNCHANGED <<allowed, fresh, running, command, answer, saw>>

SignalCommand(r) ==
  \E q \in Requests \ {r}, what \in {"pgrep", "sudo"} :
    /\ <<q, what>> \in todo[r] /\ Runs(q, what)
    /\ Finish(q, IF what = "pgrep" THEN "no process" ELSE "failed")
    /\ Struck(q)
    /\ UNCHANGED <<allowed, fresh, running, signalled, saw>>

\* What is left on the list has ended; a signal was sent, so pkill returns 0.
Killed(r) ==
  /\ command[r] = "pkill" /\ todo[r] \intersect Matching(r) = {}
  /\ command' = [command EXCEPT ![r] = "ended"]
  /\ todo' = [todo EXCEPT ![r] = {}]
  /\ Finish(r, "killed")
  /\ UNCHANGED <<allowed, fresh, running, signalled, saw>>

\* bash is killed, the command it waits for is not.
TimeOut(r) ==
  /\ command[r] # "none" /\ answer[r] = ""
  /\ answer' = [answer EXCEPT ![r] = "timeout"]
  /\ UNCHANGED <<allowed, fresh, running, signalled, command, todo, saw>>

Script(r) ==
  \/ PgrepFinds(r) \/ PgrepFindsNone(r) \/ SudoRefuses(r) \/ Scan(r)
  \/ SignalStress(r) \/ SignalCommand(r) \/ Killed(r) \/ TimeOut(r)

-------------------------------------------------------------------------------
(* The load test *)

Start(s) ==
  /\ s \in fresh
  /\ fresh' = fresh \ {s} /\ running' = running \union {s}
  /\ UNCHANGED <<allowed, signalled, command, todo, answer, saw>>

Exit(s) ==
  /\ s \in running
  /\ running' = running \ {s} /\ signalled' = signalled \ {s}
  /\ UNCHANGED <<allowed, fresh, command, todo, answer, saw>>

Next ==
  \/ \E r \in Requests : Arrive(r) \/ Script(r)
  \/ \E s \in Stress : Start(s) \/ Exit(s)

Spec == Init /\ [][Next]_vars

-------------------------------------------------------------------------------
(* Properties *)

\* "Killed stress" (kill_cpu.sh 12-15): of what ran when the request came, nothing was
\* missed.  Each process has ended or was sent the signal, by this script or by another,
\* though the scripts strike each other's commands and their lists grow old.  That it has
\* ended by then the code does not see to: pkill waits for nobody.
NoneMissed ==
  \A r \in Requests : answer[r] = "killed" => saw[r] \intersect running \subseteq signalled
===============================================================================
