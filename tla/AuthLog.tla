--------------------------------- MODULE AuthLog ---------------------------------
(***************************************************************************)
(* Which lines of an auth.log become rows of security_access_logs:         *)
(* _parse_auth_log (endpoints/security.py).  sshd, sudo and cron write     *)
(* several lines for one thing that happens.                               *)
(***************************************************************************)
EXTENDS Naturals, Sequences, FiniteSets, Functions

CONSTANTS
  Users,
  Root,       \* the user sudo and cron open sessions for
  Width,      \* letters of a user's name
  Methods,    \* authentication methods of sshd
  Words       \* those that are one word: "publickey", not "keyboard-interactive/pam"

ASSUME AuthLogAssumption ==
  /\ Root \in Users /\ Width \in [Users -> Nat]
  /\ Words \subseteq Methods

-------------------------------------------------------------------------------
(* What is written *)

Line(program, text, user, method) ==
  [program |-> program, text |-> text, user |-> user, method |-> method]

\* A thing that happens on a server.
Happenings ==
  [what : {"opened", "failed"}, user : Users, method : Methods] \union
  [what : {"closed", "ran", "refused"}, user : Users] \union
  {[what |-> "cron"]}

PamSession(program) ==
  <<Line(program, "session opened", Root, "-"), Line(program, "session closed", Root, "-")>>

\* A refused sudo ("user NOT in sudoers ; ... COMMAND=") has the line of one that ran,
\* with the reason in it.
Written(h) ==
  CASE h.what = "opened"  -> <<Line("sshd", "Accepted", h.user, h.method),
                               Line("sshd", "session opened", h.user, "-")>>
    [] h.what = "failed"  -> <<Line("sshd", "Failed", h.user, h.method)>>
    [] h.what = "closed"  -> <<Line("sshd", "session closed", h.user, "-")>>
    [] h.what = "ran"     -> <<Line("sudo", "COMMAND", h.user, "-")>> \o PamSession("sudo")
    [] h.what = "refused" -> <<Line("sudo", "COMMAND", h.user, "-")>>
    [] h.what = "cron"    -> PamSession("CRON")

\* The j-th line of the k-th thing, for all of a sequence of things.
Places(things) == UNION {{k} \X DOMAIN Written(things[k]) : k \in DOMAIN things}

\* What may be in the log of these things: each line once, those of one thing in order;
\* sshd, sudo and cron write beside each other.
Logs(things) ==
  {log \in Bijection(1 .. Cardinality(Places(things)), Places(things)) :
     \A i, j \in DOMAIN log : log[i][1] = log[j][1] /\ log[i][2] < log[j][2] => i < j}

\* sudo right-aligns the user in eight columns, behind the blank of "sudo: ".
Blanks(u) == 1 + (IF Width[u] < 8 THEN 8 - Width[u] ELSE 0)

-------------------------------------------------------------------------------
(* What is made of it *)

\* The third pattern without "sshd".
BugAnyClosed(l) ==
  CASE l.text = "Accepted" /\ l.method \in Words -> "session_opened"
    [] l.text = "Failed" /\ l.method \in Words -> "failed"
    [] l.text = "session closed" -> "session_closed"
    [] l.text = "COMMAND" /\ Blanks(l.user) \in 1 .. 5 -> "sudo"
    [] OTHER -> "None"
\* The four patterns: Accepted (\w+), Failed (\w+), sshd.*session closed, and
\* sudo:\s{1,5}(\S+) with COMMAND= somewhere behind it.
Parse(l) ==
  CASE l.text = "Accepted" /\ l.method \in Words -> "session_opened"
    [] l.text = "Failed" /\ l.method \in Words -> "failed"
    [] l.text = "session closed" /\ l.program = "sshd" -> "session_closed"
    [] l.text = "COMMAND" /\ Blanks(l.user) \in 1 .. 5 -> "sudo"
    [] OTHER -> "None"
===============================================================================
