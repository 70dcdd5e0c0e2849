------------------------------- MODULE LogIngest -------------------------------
(***************************************************************************)
(* Batches of log records that fluent-bit posts to /logs/ingest (nginx) and *)
(* to /security/logs/ingest (auth.log), app/api/v1/endpoints/log.py and    *)
(* security.py.                                                            *)
(*                                                                         *)
(* Both handlers insert record by record, commit after each, swallow what  *)
(* goes wrong with one and answer 204.  They are plain `def` functions:    *)
(* each post runs in a thread of its own with a session of its own, and a  *)
(* sender that stops waiting does not stop it.  After a failed insert a    *)
(* session refuses all work until it is rolled back; only the nginx        *)
(* handler rolls back.                                                     *)
(***************************************************************************)
EXTENDS Naturals, Sequences

CONSTANTS
  Chunks,      \* chunks of records in the senders' buffers
  Nginx,       \* those posted to /logs/ingest; the others go to the security log
  NginxBatches, SecurityBatches,    \* what a chunk may contain
  MaxPosts     \* bound: how often a sender posts one chunk

\* "good": an insert of it is accepted; "bad": the database refuses it (a value
\* too long for its column, a NUL character); "noise": an auth.log line that
\* _parse_auth_log returns None for.
Kinds == {"good", "bad", "noise"}
Posts == 1 .. MaxPosts

ASSUME IngestAssumption ==
  /\ Nginx \subseteq Chunks
  /\ NginxBatches \subseteq Seq({"good", "bad"})
  /\ SecurityBatches \subseteq Seq(Kinds)
  /\ MaxPosts \in Nat

VARIABLES
  batch,      \* batch[c]: the kinds of the records of chunk c
  sender,     \* external: fluent-bit's view of each chunk
  posts,      \* posts[c]: how often c has been posted
  handler,    \* handler[c][p]: the handler of the p-th post of c
  rows,       \* the log tables: <<c, i, p>> is the row post p made of record i
  struck      \* history: the good records whose insert failed, likewise

vars == <<batch, sender, posts, handler, rows, struck>>

Handler == [pc : {"none", "running", "answered", "dead"},
            next : Nat \ {0},              \* the record it looks at
            broken : BOOLEAN]              \* its session awaits a rollback

TypeOK ==
  /\ batch \in [Chunks -> NginxBatches \union SecurityBatches]
  /\ sender \in [Chunks -> {"buffered", "waiting", "acked"}]
  /\ posts \in [Chunks -> 0 .. MaxPosts]
  /\ handler \in [Chunks -> [Posts -> Handler]]
  /\ rows \subseteq Chunks \X Nat \X Posts
  /\ struck \subseteq Chunks \X Nat \X Posts

\* The loop starts in front of the first record.
BugZeroBased == [pc |-> "none", next |-> 0, broken |-> FALSE]
NoHandler == [pc |-> "none", next |-> 1, broken |-> FALSE]

Init ==
  /\ batch \in {b \in [Chunks -> NginxBatches \union SecurityBatches] :
                  \A c \in Chunks : b[c] \in IF c \in Nginx THEN NginxBatches
                                             ELSE SecurityBatches}
  /\ sender = [c \in Chunks |-> "buffered"]
  /\ posts = [c \in Chunks |-> 0]
  /\ handler = [c \in Chunks |-> [p \in Posts |-> NoHandler]]
  /\ rows = {}
  /\ struck = {}

-------------------------------------------------------------------------------
(* The handlers *)

\* Post p of chunk c is at a record of this kind.
AtRecord(c, p, kind) ==
  /\ handler[c][p].pc = "running"
  /\ handler[c][p].next <= Len(batch[c])
  /\ batch[c][handler[c][p].next] = kind

Entry(c, p) == <<c, handler[c][p].next, p>>
Advance(c, p, broken) ==
  handler' = [handler EXCEPT ![c][p] = [pc |-> "running",
                                        next |-> handler[c][p].next + 1,
                                        broken |-> broken]]

\* A parser that gives up on the batch at the first line it has no event for.
BugStopAtNoise(c, p) ==
  /\ AtRecord(c, p, "noise")
  /\ handler' = [handler EXCEPT ![c][p].next = Len(batch[c]) + 1]
  /\ UNCHANGED <<batch, sender, posts, rows, struck>>
\* A line that is no event is passed over, whatever the state of the session.
Skip(c, p) ==
  /\ AtRecord(c, p, "noise")
  /\ Advance(c, p, handler[c][p].broken)
  /\ UNCHANGED <<batch, sender, posts, rows, struck>>

\* create_nginx_log or create_security_access_log: one insert, one commit.
Store(c, p) ==
  /\ AtRecord(c, p, "good") /\ ~handler[c][p].broken
  /\ rows' = rows \union {Entry(c, p)}
  /\ Advance(c, p, FALSE)
  /\ UNCHANGED <<batch, sender, posts, struck>>

\* The rollback was forgotten, as in security.py.
BugNoRollback(c) == TRUE
\* What a failed insert leaves behind: the nginx handler calls db.rollback().
BrokenAfter(c) == c \notin Nginx

\* The database refuses the record.
Reject(c, p) ==
  /\ AtRecord(c, p, "bad") /\ ~handler[c][p].broken
  /\ Advance(c, p, BrokenAfter(c))
  /\ UNCHANGED <<batch, sender, posts, rows, struck>>

\* The database fails while a good record is inserted: before the commit, or
\* after it but before the handler hears of it.
Strike(c, p, landed) ==
  /\ AtRecord(c, p, "good") /\ ~handler[c][p].broken
  /\ rows' = IF landed THEN rows \union {Entry(c, p)} ELSE rows
  /\ struck' = struck \union {Entry(c, p)}
  /\ Advance(c, p, BrokenAfter(c))
  /\ UNCHANGED <<batch, sender, posts>>

\* The session is broken: PendingRollbackError, swallowed like any other.
Refuse(c, p) ==
  /\ AtRecord(c, p, "good") \/ AtRecord(c, p, "bad")
  /\ handler[c][p].broken
  /\ Advance(c, p, TRUE)
  /\ UNCHANGED <<batch, sender, posts, rows, struck>>

\* 204.  The sender hears it if it still waits for this post.
Answer(c, p) ==
  /\ handler[c][p].pc = "running"
  /\ handler[c][p].next > Len(batch[c])
  /\ handler' = [handler EXCEPT ![c][p].pc = "answered"]
  /\ sender' = [sender EXCEPT ![c] = IF @ = "waiting" /\ p = posts[c] THEN "acked" ELSE @]
  /\ UNCHANGED <<batch, posts, rows, struck>>

-------------------------------------------------------------------------------
(* The senders and the process *)

Post(c) ==
  /\ sender[c] = "buffered" /\ posts[c] < MaxPosts
  /\ sender' = [sender EXCEPT ![c] = "waiting"]
  /\ posts' = [posts EXCEPT ![c] = @ + 1]
  /\ handler' = [handler EXCEPT ![c][posts[c] + 1].pc = "running"]
  /\ UNCHANGED <<batch, rows, struck>>

\* The sender's timeout: its handler runs on.
GiveUpWaiting(c) ==
  /\ sender[c] = "waiting"
  /\ sender' = [sender EXCEPT ![c] = "buffered"]
  /\ UNCHANGED <<batch, posts, handler, rows, struck>>

\* The process dies with every post it was handling, and systemd restarts it.
Crash ==
  /\ \E c \in Chunks, p \in Posts : handler[c][p].pc = "running"
  /\ handler' = [c \in Chunks |-> [p \in Posts |->
                   IF handler[c][p].pc = "running"
                     THEN [handler[c][p] EXCEPT !.pc = "dead"] ELSE handler[c][p]]]
  /\ sender' = [c \in Chunks |-> IF sender[c] = "waiting" THEN "buffered" ELSE sender[c]]
  /\ UNCHANGED <<batch, posts, rows, struck>>

HandlerStep(c, p) ==
  \/ Skip(c, p) \/ Store(c, p) \/ Reject(c, p) \/ Refuse(c, p) \/ Answer(c, p)
  \/ \E landed \in BOOLEAN : Strike(c, p, landed)

Next ==
  \/ \E c \in Chunks, p \in Posts : HandlerStep(c, p)
  \/ \E c \in Chunks : Post(c) \/ GiveUpWaiting(c)
  \/ Crash

Spec == Init /\ [][Next]_vars

-------------------------------------------------------------------------------
(* Properties *)

Stored(c, i, p) == <<c, i, p>> \in rows
Struck(c, i, p) == <<c, i, p>> \in struck

\* A chunk the sender was told is stored went through one post from end to end,
\* and an nginx record missing from that post failed on its own account: no
\* neighbour, other post, timeout or crash took it along (log.py 78-80).
NginxAckMeansStored ==
  \A c \in Nginx : sender[c] = "acked" =>
    \E p \in Posts : \A i \in 1 .. Len(batch[c]) :
      batch[c][i] = "good" => Stored(c, i, p) \/ Struck(c, i, p)

\* A security event missing from the post the sender was told of comes after an
\* insert that failed (or failed itself): lines that are no events, other posts
\* and crashes cost nothing (security.py 152-179).
SecurityLossFollowsFailure ==
  \A c \in Chunks \ Nginx : sender[c] = "acked" =>
    \E p \in Posts : \A i \in 1 .. Len(batch[c]) :
      batch[c][i] = "good" => \/ Stored(c, i, p)
                              \/ \E j \in 1 .. i : batch[c][j] = "bad" \/ Struck(c, j, p)

\* security.py:150-151: the handler receives records in a batch, parses each
\* auth.log line and stores it.  Read as a promise about an acknowledged batch:
\* every event in it that the database accepts is stored.
EveryEventStored ==
  \A c \in Chunks \ Nginx : sender[c] = "acked" =>
    \E p \in Posts : \A i \in 1 .. Len(batch[c]) :
      batch[c][i] = "good" => Stored(c, i, p) \/ Struck(c, i, p)
===============================================================================
