----------------------------- MODULE SecurityIngest -----------------------------
(***************************************************************************)
(* From what happens on a server to the rows of security_access_logs: the  *)
(* lines of AuthLog in the batches of LogIngest.  The two meet in          *)
(* ingest_security_logs (endpoints/security.py), where a record is passed  *)
(* over, stored, refused or struck according to its line.                  *)
(***************************************************************************)
EXTENDS LogIngest, AuthLog

CONSTANT MaxThings   \* bound: things that happen for one chunk

VARIABLES
  things,     \* external: what happened on the server of a chunk
  log         \* external: the order in which its auth.log has the lines of these things

happened == <<things, log>>

Security == Chunks \ Nginx
ThingOf(c, i) == log[c][i][1]
LineOf(c, i) == Written(things[c][ThingOf(c, i)])[log[c][i][2]]

\* The batch a log is for LogIngest: an event is accepted by the database, or not.
Reads(kind, line) == IF Parse(line) = "None" THEN kind = "noise" ELSE kind \in {"good", "bad"}

IngestInit ==
  /\ things \in [Security -> UNION {[1 .. n -> Happenings] : n \in 1 .. MaxThings}]
  /\ log \in {l \in [Security -> UNION {Logs(things[c]) : c \in Security}] :
               \A c \in Security : l[c] \in Logs(things[c])}
  /\ batch \in {b \in [Chunks -> NginxBatches \union SecurityBatches] :
                 \A c \in Security : /\ DOMAIN b[c] = DOMAIN log[c]
                                    /\ \A i \in DOMAIN b[c] : Reads(b[c][i], LineOf(c, i))}
  /\ Init

IngestNext == Next /\ UNCHANGED happened

IngestSpec == IngestInit /\ [][IngestNext]_<<vars, happened>>

-------------------------------------------------------------------------------
(* Properties *)

\* What a row of each status says has happened.
Says == [session_opened |-> "opened", failed |-> "failed",
         session_closed |-> "closed", sudo |-> "ran"]

\* The rows post p made, of this status and user, and what the user did.
RowsOf(c, p, status, u) ==
  {i \in 1 .. Len(batch[c]) : /\ Stored(c, i, p)
                              /\ Parse(LineOf(c, i)) = status /\ LineOf(c, i).user = u}
Did(c, what, u) == {k \in DOMAIN things[c] : things[c][k].what = what /\ things[c][k].user = u}

\* What the patterns provide for (security.py 75, 85, 102): a method of one word, and a name
\* long enough for sudo to put no more than five blanks before it.
Foreseen(h) ==
  /\ h.what \in {"opened", "failed"} => h.method \in Words
  /\ h.what = "ran" => Width[h.user] >= 4

InsertsFailed(c, p) == \E i \in 1 .. Len(batch[c]) : batch[c][i] = "bad" \/ Struck(c, i, p)

\* Whatever sshd, sudo and cron write in the same words and in between, a row is about what
\* it says its user did, and no two rows of a post are about the same thing, so that rows
\* tell which sessions are open.  A post that was answered and none of whose inserts failed
\* has such a row for everything of a foreseen form.  For sudo this is said of users who
\* were never refused (security.py 70-112, 152-179).
OneRowEach ==
  \A c \in Security, p \in Posts, u \in Users, status \in DOMAIN Says :
    (status = "sudo" => Did(c, "refused", u) = {}) =>
      LET did == Did(c, Says[status], u)
          made == RowsOf(c, p, status, u)
      IN /\ \A i \in made : ThingOf(c, i) \in did
         /\ \A i, j \in made : ThingOf(c, i) = ThingOf(c, j) => i = j
         /\ handler[c][p].pc = "answered" /\ ~InsertsFailed(c, p) =>
              \A k \in did : Foreseen(things[c][k]) => \E i \in made : ThingOf(c, i) = k
===============================================================================
