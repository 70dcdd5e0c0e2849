------------------------------- MODULE LogProofs -------------------------------
(***************************************************************************)
(* The logs, from what happens on a server to what a page shows: what the  *)
(* acknowledgement of a batch is worth, for any number of senders and      *)
(* posts and batches of any length; that a row of the security log is       *)
(* about a thing of its own; and which rows a page may leave out.          *)
(***************************************************************************)
EXTENDS SecurityIngest, LogViews, FiniteSetTheorems, TLAPS

-------------------------------------------------------------------------------
(* LogIngest *)

\* The account a post can give of the records it has passed: an nginx record is
\* stored or failed itself; a security event may also have come too late.
Excused(c, i, p) ==
  \/ Struck(c, i, p)
  \/ c \notin Nginx /\ \E j \in 1 .. i : batch[c][j] = "bad" \/ Struck(c, j, p)

Accounted(c, p) ==
  \A i \in 1 .. Len(batch[c]) :
    i < handler[c][p].next /\ batch[c][i] = "good" => Stored(c, i, p) \/ Excused(c, i, p)

\* A session is broken only behind a failed insert, and never in nginx's handler.
BrokenForCause(c, p) ==
  handler[c][p].broken =>
    /\ c \notin Nginx
    /\ \E j \in 1 .. Len(batch[c]) :
         j < handler[c][p].next /\ (batch[c][j] = "bad" \/ Struck(c, j, p))

AckedAfterAll ==
  \A c \in Chunks : sender[c] = "acked" =>
    \E p \in Posts : handler[c][p].next > Len(batch[c])

\* A post is answered behind its last record.
AnsweredAfterAll(c, p) == handler[c][p].pc = "answered" => handler[c][p].next > Len(batch[c])

Inv == /\ TypeOK
       /\ \A c \in Chunks, p \in Posts :
            Accounted(c, p) /\ BrokenForCause(c, p) /\ AnsweredAfterAll(c, p)
       /\ AckedAfterAll

-------------------------------------------------------------------------------
\* A batch is a finite sequence of records.
LEMMA BatchType ==
  ASSUME TypeOK, NEW c \in Chunks
  PROVE  batch[c] \in Seq(Kinds) /\ Len(batch[c]) \in Nat
<1>1. Seq({"good", "bad"}) \subseteq Seq(Kinds)
  BY DEF Kinds
<1>2. batch[c] \in Seq(Kinds)
  BY <1>1, IngestAssumption DEF TypeOK
<1> QED
  BY <1>2

\* A step of one post leaves the handlers of all others alone.
LEMMA HandlerUpdate ==
  ASSUME handler \in [Chunks -> [Posts -> Handler]], NEW c \in Chunks, NEW p \in Posts,
         NEW h \in Handler, handler' = [handler EXCEPT ![c][p] = h]
  PROVE  /\ handler' \in [Chunks -> [Posts -> Handler]]
         /\ handler'[c][p] = h
         /\ \A d \in Chunks, q \in Posts : d # c \/ q # p => handler'[d][q] = handler[d][q]
  OBVIOUS

\* A post that passes its next record, which is accounted for.
LEMMA RecordPassed ==
  ASSUME Inv, NEW c \in Chunks, NEW p \in Posts, NEW broken \in BOOLEAN,
         NEW n \in Nat \ {0}, n = handler[c][p].next, n <= Len(batch[c]),
         Advance(c, p, broken), UNCHANGED <<batch, sender, posts>>,
         rows \subseteq rows', rows' \subseteq Chunks \X Nat \X Posts,
         struck \subseteq struck', struck' \subseteq Chunks \X Nat \X Posts,
         batch[c][n] = "good" => Stored(c, n, p)' \/ Struck(c, n, p)' \/ handler[c][p].broken,
         broken => c \notin Nginx /\ (\/ handler[c][p].broken
                                      \/ batch[c][n] = "bad"
                                      \/ Struck(c, n, p)')
  PROVE  Inv'
<1> USE DEF Inv
<1>1. Len(batch[c]) \in Nat
  BY BatchType
<1>2. [pc |-> "running", next |-> n + 1, broken |-> broken] \in Handler
  BY DEF Handler
<1>3. /\ handler' \in [Chunks -> [Posts -> Handler]]
      /\ handler'[c][p].next = n + 1
      /\ handler'[c][p].broken = broken /\ handler'[c][p].pc = "running"
      /\ \A d \in Chunks, q \in Posts : d # c \/ q # p => handler'[d][q] = handler[d][q]
  BY <1>2, HandlerUpdate DEF Advance, TypeOK
<1>4. TypeOK'
  BY <1>3 DEF TypeOK
<1>5. \A d \in Chunks, q \in Posts, i \in Nat :
        /\ Stored(d, i, q) => Stored(d, i, q)'
        /\ Struck(d, i, q) => Struck(d, i, q)'
  BY DEF Stored, Struck
<1>6. BrokenForCause(c, p)'
  <2> SUFFICES ASSUME broken
               PROVE  \E j \in 1 .. Len(batch[c]) :
                        j < n + 1 /\ (batch[c][j] = "bad" \/ Struck(c, j, p)')
    BY <1>3 DEF BrokenForCause
  <2>1. CASE handler[c][p].broken
    BY <1>1, <1>5, <2>1 DEF BrokenForCause
  <2>2. CASE ~handler[c][p].broken
    BY <1>1, <2>2
  <2> QED
    BY <2>1, <2>2
<1>7. Accounted(c, p)'
  <2> SUFFICES ASSUME NEW i \in 1 .. Len(batch[c]), i < n + 1, batch[c][i] = "good"
               PROVE  Stored(c, i, p)' \/ Excused(c, i, p)'
    BY <1>3 DEF Accounted
  <2>1. CASE i < n
    BY <1>1, <1>5, <2>1 DEF Accounted, Excused
  <2>2. CASE i = n /\ handler[c][p].broken
    <3>1. PICK j \in 1 .. Len(batch[c]) : j < n /\ (batch[c][j] = "bad" \/ Struck(c, j, p))
      BY <2>2 DEF BrokenForCause
    <3>2. j \in 1 .. i /\ (batch[c][j] = "bad" \/ Struck(c, j, p)')
      BY <1>1, <1>5, <2>2, <3>1
    <3>3. c \notin Nginx
      BY <2>2 DEF BrokenForCause
    <3> QED
      BY <3>2, <3>3 DEF Excused
  <2>3. CASE i = n /\ ~handler[c][p].broken
    BY <2>3 DEF Excused
  <2> QED
    BY <1>1, <2>1, <2>2, <2>3
<1>8. ASSUME NEW d \in Chunks, NEW q \in Posts, d # c \/ q # p
      PROVE  Accounted(d, q)' /\ BrokenForCause(d, q)' /\ AnsweredAfterAll(d, q)'
  <2>1. handler'[d][q] = handler[d][q] /\ Len(batch[d]) \in Nat
    BY <1>3, <1>8, BatchType
  <2>2. Accounted(d, q)'
    BY <1>5, <2>1 DEF Accounted, Excused
  <2>3. BrokenForCause(d, q)'
    BY <1>5, <2>1 DEF BrokenForCause
  <2>4. AnsweredAfterAll(d, q)'
    BY <2>1 DEF AnsweredAfterAll
  <2> QED
    BY <2>2, <2>3, <2>4
<1>9. AckedAfterAll'
  <2> SUFFICES ASSUME NEW d \in Chunks, sender[d] = "acked"
               PROVE  \E q \in Posts : handler'[d][q].next > Len(batch[d])
    BY DEF AckedAfterAll
  <2>1. PICK q \in Posts : handler[d][q].next > Len(batch[d])
    BY DEF AckedAfterAll
  <2>2. d # c \/ q # p
    BY <1>1, <2>1
  <2> QED
    BY <1>3, <2>1, <2>2
<1>10. AnsweredAfterAll(c, p)'
  BY <1>3 DEF AnsweredAfterAll
<1> QED
  BY <1>4, <1>6, <1>7, <1>8, <1>9, <1>10

\* A step that passes no record and stores nothing.
LEMMA NothingPassed ==
  ASSUME Inv, TypeOK', UNCHANGED <<batch, rows, struck>>,
         \A c \in Chunks, p \in Posts : /\ handler'[c][p].next = handler[c][p].next
                                        /\ handler'[c][p].broken = handler[c][p].broken
                                        /\ handler'[c][p].pc = "answered" =>
                                             \/ handler[c][p].pc = "answered"
                                             \/ handler[c][p].next > Len(batch[c]),
         \A c \in Chunks : sender'[c] = "acked" =>
           sender[c] = "acked" \/ \E p \in Posts : handler[c][p].next > Len(batch[c])
  PROVE  Inv'
<1>1. \A c \in Chunks, p \in Posts : Accounted(c, p)' /\ BrokenForCause(c, p)'
  BY DEF Inv, Accounted, BrokenForCause, Stored, Excused, Struck
<1>2. AckedAfterAll'
  BY DEF Inv, AckedAfterAll
<1>3. \A c \in Chunks, p \in Posts : AnsweredAfterAll(c, p)'
  BY DEF Inv, AnsweredAfterAll
<1> QED
  BY <1>1, <1>2, <1>3 DEF Inv

\* Before anything is posted there is nothing to account for.
LEMMA InitInv == Init => Inv
<1> SUFFICES ASSUME Init PROVE Inv
  OBVIOUS
<1>1. TypeOK
  BY IngestAssumption DEF Init, TypeOK, NoHandler, Handler
<1>2. \A c \in Chunks, p \in Posts :
        Accounted(c, p) /\ BrokenForCause(c, p) /\ AnsweredAfterAll(c, p)
  BY DEF Init, NoHandler, Accounted, BrokenForCause, AnsweredAfterAll
<1> QED
  BY <1>1, <1>2 DEF Inv, Init, AckedAfterAll

\* No record, answer, post, timeout or crash breaks the account a post can give.
LEMMA StepInv == Inv /\ [Next]_vars => Inv'
<1> SUFFICES ASSUME Inv, [Next]_vars PROVE Inv'
  OBVIOUS
<1> TypeOK
  BY DEF Inv
<1>1. ASSUME NEW c \in Chunks, NEW p \in Posts, HandlerStep(c, p) PROVE Inv'
  <2>1. PICK n \in Nat \ {0} : n = handler[c][p].next
    BY DEF TypeOK, Handler
  <2>2. /\ handler[c][p].broken \in BOOLEAN
        /\ <<c, n, p>> \in Chunks \X Nat \X Posts /\ Entry(c, p) = <<c, n, p>>
        /\ handler[c][p].broken => c \notin Nginx
    BY <2>1 DEF Entry, TypeOK, Handler, Inv, BrokenForCause
  <2>3. CASE Skip(c, p)
    BY <2>1, <2>2, <2>3, RecordPassed DEF Skip, AtRecord, TypeOK
  <2>4. CASE Store(c, p)
    <3>1. Stored(c, n, p)'
      BY <2>2, <2>4 DEF Store, Stored
    <3> QED
      BY <2>1, <2>2, <2>4, <3>1, RecordPassed DEF Store, AtRecord, TypeOK
  <2>5. CASE Reject(c, p)
    BY <2>1, <2>2, <2>5, RecordPassed DEF Reject, AtRecord, BrokenAfter, TypeOK
  <2>6. CASE Refuse(c, p)
    BY <2>1, <2>2, <2>6, RecordPassed DEF Refuse, AtRecord, TypeOK
  <2>7. ASSUME NEW landed \in BOOLEAN, Strike(c, p, landed) PROVE Inv'
    <3>1. Struck(c, n, p)'
      BY <2>2, <2>7 DEF Strike, Struck
    <3>2. rows \subseteq rows' /\ rows' \subseteq Chunks \X Nat \X Posts
      BY <2>2, <2>7 DEF Strike, TypeOK
    <3>3. struck \subseteq struck' /\ struck' \subseteq Chunks \X Nat \X Posts
      BY <2>2, <2>7 DEF Strike, TypeOK
    <3> QED
      BY <2>1, <2>7, <3>1, <3>2, <3>3, RecordPassed DEF Strike, AtRecord, BrokenAfter
  <2>8. CASE Answer(c, p)
    <3> DEFINE h == [handler[c][p] EXCEPT !.pc = "answered"]
    <3>1. handler' = [handler EXCEPT ![c][p] = h]
      BY <2>8 DEF Answer, TypeOK
    <3>2. h \in Handler /\ h.next = handler[c][p].next /\ h.broken = handler[c][p].broken
      BY DEF TypeOK, Handler
    <3> HIDE DEF h
    <3>3. /\ handler' \in [Chunks -> [Posts -> Handler]]
          /\ \A d \in Chunks, q \in Posts : /\ handler'[d][q].next = handler[d][q].next
                                            /\ handler'[d][q].broken = handler[d][q].broken
      BY <3>1, <3>2, HandlerUpdate DEF TypeOK
    <3> QED
      BY <2>8, <3>3, NothingPassed DEF Answer, TypeOK
  <2> QED
    BY <1>1, <2>3, <2>4, <2>5, <2>6, <2>7, <2>8 DEF HandlerStep
<1>2. ASSUME NEW c \in Chunks, Post(c) PROVE Inv'
  <2>1. PICK p \in Posts : p = posts[c] + 1
    BY <1>2, IngestAssumption DEF Post, Posts, TypeOK
  <2> DEFINE h == [handler[c][p] EXCEPT !.pc = "running"]
  <2>2. handler' = [handler EXCEPT ![c][p] = h]
    BY <1>2, <2>1 DEF Post, TypeOK
  <2>3. h \in Handler /\ h.next = handler[c][p].next /\ h.broken = handler[c][p].broken
    BY DEF TypeOK, Handler
  <2> HIDE DEF h
  <2>4. /\ handler' \in [Chunks -> [Posts -> Handler]]
        /\ \A d \in Chunks, q \in Posts : /\ handler'[d][q].next = handler[d][q].next
                                          /\ handler'[d][q].broken = handler[d][q].broken
    BY <2>2, <2>3, HandlerUpdate DEF TypeOK
  <2>5. posts' \in [Chunks -> 0 .. MaxPosts]
    BY <1>2, <2>1, IngestAssumption DEF Post, Posts, TypeOK
  <2> QED
    BY <1>2, <2>4, <2>5, NothingPassed DEF Post, TypeOK
<1>3. ASSUME NEW c \in Chunks, GiveUpWaiting(c) PROVE Inv'
  BY <1>3, NothingPassed DEF GiveUpWaiting, TypeOK
<1>4. CASE Crash
  <2>1. \A c \in Chunks, p \in Posts :
          /\ handler'[c][p] \in Handler
          /\ handler'[c][p].next = handler[c][p].next
          /\ handler'[c][p].broken = handler[c][p].broken
    <3> TAKE c \in Chunks, p \in Posts
    <3>1. handler'[c][p] = IF handler[c][p].pc = "running"
                             THEN [handler[c][p] EXCEPT !.pc = "dead"] ELSE handler[c][p]
      BY <1>4 DEF Crash
    <3>2. handler[c][p] \in Handler
      BY DEF TypeOK
    <3> QED
      BY <3>1, <3>2 DEF Handler
  <2>2. handler' \in [Chunks -> [Posts -> Handler]]
    BY <1>4, <2>1 DEF Crash
  <2> QED
    BY <1>4, <2>1, <2>2, NothingPassed DEF Crash, TypeOK
<1>5. CASE UNCHANGED vars
  BY <1>5, NothingPassed DEF vars, TypeOK
<1> QED
  BY <1>1, <1>2, <1>3, <1>4, <1>5 DEF Next

\* Every post can account for the records it has passed, a broken session has its
\* cause, and only a post that passed its whole batch was acknowledged.
THEOREM Invariance == Spec => []Inv
  BY InitInv, StepInv, PTL DEF Spec

\* Every variable keeps its type, for batches of any length and any number of posts.
THEOREM IngestTypeCorrect == Spec => []TypeOK
<1>1. Inv => TypeOK
  BY DEF Inv
<1> QED
  BY <1>1, Invariance, PTL

\* An acknowledged nginx record is in the table unless its own insert failed.
THEOREM NginxIsolation == Spec => []NginxAckMeansStored
<1>1. Inv => NginxAckMeansStored
  <2> SUFFICES ASSUME Inv, NEW c \in Chunks, sender[c] = "acked"
               PROVE  \E p \in Posts : \A i \in 1 .. Len(batch[c]) :
                        batch[c][i] = "good" => Stored(c, i, p) \/ Excused(c, i, p)
    BY IngestAssumption DEF NginxAckMeansStored, Excused
  <2>1. PICK p \in Posts : handler[c][p].next > Len(batch[c])
    BY DEF Inv, AckedAfterAll
  <2>2. handler[c][p].next \in Nat /\ Len(batch[c]) \in Nat
    BY BatchType DEF Inv, TypeOK, Handler
  <2> QED
    BY <2>1, <2>2 DEF Inv, Accounted
<1> QED
  BY <1>1, Invariance, PTL

\* An acknowledged security event is in the table unless an insert at or before
\* it failed.
THEOREM SecurityLossExplained == Spec => []SecurityLossFollowsFailure
<1>1. Inv => SecurityLossFollowsFailure
  <2> SUFFICES ASSUME Inv, NEW c \in Chunks, sender[c] = "acked"
               PROVE  \E p \in Posts : \A i \in 1 .. Len(batch[c]) :
                        batch[c][i] = "good" => Stored(c, i, p) \/ Excused(c, i, p)
    BY IngestAssumption DEF SecurityLossFollowsFailure, Excused
  <2>1. PICK p \in Posts : handler[c][p].next > Len(batch[c])
    BY DEF Inv, AckedAfterAll
  <2>2. handler[c][p].next \in Nat /\ Len(batch[c]) \in Nat
    BY BatchType DEF Inv, TypeOK, Handler
  <2> QED
    BY <2>1, <2>2 DEF Inv, Accounted
<1> QED
  BY <1>1, Invariance, PTL

-------------------------------------------------------------------------------
(* AuthLog *)

Statuses == {"session_opened", "failed", "session_closed", "sudo"}

\* A thing a row of this status and user stands for.
Counts(h, status, u) ==
  \/ status = "session_opened" /\ h.what = "opened" /\ h.user = u /\ h.method \in Words
  \/ status = "failed" /\ h.what = "failed" /\ h.user = u /\ h.method \in Words
  \/ status = "session_closed" /\ h.what = "closed" /\ h.user = u
  \/ status = "sudo" /\ h.what \in {"ran", "refused"} /\ h.user = u /\ Width[u] >= 4

\* The patterns on each line there is: what PAM writes about the sessions of sudo and cron
\* is never mistaken for one of sshd's.
LEMMA LinesParsed ==
  ASSUME NEW u \in Users, NEW m
  PROVE  /\ Parse(Line("sshd", "Accepted", u, m)) = IF m \in Words THEN "session_opened" ELSE "None"
         /\ Parse(Line("sshd", "Failed", u, m)) = IF m \in Words THEN "failed" ELSE "None"
         /\ Parse(Line("sshd", "session opened", u, m)) = "None"
         /\ Parse(Line("sshd", "session closed", u, m)) = "session_closed"
         /\ Parse(Line("sudo", "COMMAND", u, m)) = IF Width[u] >= 4 THEN "sudo" ELSE "None"
         /\ \A program \in {"sudo", "CRON"} :
              /\ Parse(Line(program, "session opened", u, m)) = "None"
              /\ Parse(Line(program, "session closed", u, m)) = "None"
<1>1. Width[u] \in Nat
  BY AuthLogAssumption DEF AuthLogAssumption
<1>2. Blanks(u) \in 1 .. 5 <=> Width[u] >= 4
  BY <1>1 DEF Blanks
<1> QED
  BY <1>2 DEF Parse, Line

\* The patterns take from the lines of one thing its first, and only if it counts.
LEMMA FirstLineCounts ==
  ASSUME NEW h \in Happenings, NEW j \in DOMAIN Written(h),
         NEW status \in Statuses, NEW u \in Users
  PROVE  /\ 1 \in DOMAIN Written(h)
         /\ Parse(Written(h)[j]) = status /\ Written(h)[j].user = u
              <=> j = 1 /\ Counts(h, status, u)
<1>1. Root \in Users
  BY AuthLogAssumption DEF AuthLogAssumption
<1>2. h.what # "cron" => h.user \in Users
  BY DEF Happenings
<1>3. CASE h.what = "opened"
  <2> DEFINE a == Line("sshd", "Accepted", h.user, h.method)
             b == Line("sshd", "session opened", h.user, "-")
  <2>1. Written(h) = <<a, b>>
    BY <1>3 DEF Written
  <2> HIDE DEF a, b
  <2>2. DOMAIN Written(h) = {1, 2} /\ Written(h)[1] = a /\ Written(h)[2] = b
    BY <2>1
  <2>3. a.user = h.user
    BY DEF a, Line
  <2>4. Parse(a) = IF h.method \in Words THEN "session_opened" ELSE "None"
    BY <1>2, <1>3, LinesParsed DEF a
  <2>5. Parse(b) = "None"
    BY <1>2, <1>3, LinesParsed DEF b
  <2> QED
    BY <1>3, <2>2, <2>3, <2>4, <2>5 DEF Counts, Statuses
<1>4. CASE h.what = "failed"
  <2> DEFINE a == Line("sshd", "Failed", h.user, h.method)
  <2>1. Written(h) = <<a>>
    BY <1>4 DEF Written
  <2> HIDE DEF a
  <2>2. DOMAIN Written(h) = {1} /\ Written(h)[1] = a
    BY <2>1
  <2>3. a.user = h.user
    BY DEF a, Line
  <2>4. Parse(a) = IF h.method \in Words THEN "failed" ELSE "None"
    BY <1>2, <1>4, LinesParsed DEF a
  <2> QED
    BY <1>4, <2>2, <2>3, <2>4 DEF Counts, Statuses
<1>5. CASE h.what = "closed"
  <2> DEFINE a == Line("sshd", "session closed", h.user, "-")
  <2>1. Written(h) = <<a>>
    BY <1>5 DEF Written
  <2> HIDE DEF a
  <2>2. DOMAIN Written(h) = {1} /\ Written(h)[1] = a
    BY <2>1
  <2>3. a.user = h.user
    BY DEF a, Line
  <2>4. Parse(a) = "session_closed"
    BY <1>2, <1>5, LinesParsed DEF a
  <2> QED
    BY <1>5, <2>2, <2>3, <2>4 DEF Counts, Statuses
<1>6. CASE h.what \in {"ran", "refused"}
  <2> DEFINE a == Line("sudo", "COMMAND", h.user, "-")
             b == Line("sudo", "session opened", Root, "-")
             c == Line("sudo", "session closed", Root, "-")
  <2>1. Written(h) = <<a>> \/ Written(h) = <<a>> \o <<b, c>>
    BY <1>6 DEF Written, PamSession
  <2> HIDE DEF a, b, c
  <2>2. /\ 1 \in DOMAIN Written(h) /\ Written(h)[1] = a
        /\ j # 1 => Written(h)[j] \in {b, c}
    BY <2>1
  <2>3. a.user = h.user
    BY DEF a, Line
  <2>4. Parse(a) = IF Width[h.user] >= 4 THEN "sudo" ELSE "None"
    BY <1>2, <1>6, LinesParsed DEF a
  <2>5. Parse(b) = "None" /\ Parse(c) = "None"
    BY <1>1, LinesParsed DEF b, c
  <2> QED
    BY <1>6, <2>2, <2>3, <2>4, <2>5 DEF Counts, Statuses
<1>7. CASE h.what = "cron"
  <2> DEFINE a == Line("CRON", "session opened", Root, "-")
             b == Line("CRON", "session closed", Root, "-")
  <2>1. Written(h) = <<a, b>>
    BY <1>7 DEF Written, PamSession
  <2> HIDE DEF a, b
  <2>2. DOMAIN Written(h) = {1, 2} /\ Written(h)[1] = a /\ Written(h)[2] = b
    BY <2>1
  <2>3. Parse(a) = "None" /\ Parse(b) = "None"
    BY <1>1, LinesParsed DEF a, b
  <2> QED
    BY <1>7, <2>2, <2>3 DEF Counts, Statuses
<1>8. h.what \in {"opened", "failed", "closed", "ran", "refused", "cron"}
  BY DEF Happenings
<1> QED
  BY <1>3, <1>4, <1>5, <1>6, <1>7, <1>8

-------------------------------------------------------------------------------
(* SecurityIngest *)

\* A batch is its log, line by line; none of it changes while the batch is on its way.
Read ==
  \A c \in Security :
    /\ things[c] \in UNION {[1 .. n -> Happenings] : n \in 1 .. MaxThings}
    /\ log[c] \in Logs(things[c])
    /\ DOMAIN batch[c] = DOMAIN log[c]
    /\ \A i \in DOMAIN batch[c] : Reads(batch[c][i], LineOf(c, i))

\* For the senders and handlers it makes no difference what the records say.
THEOREM ImplementsIngest == IngestSpec => Spec
<1>1. IngestInit => Init
  BY DEF IngestInit
<1>2. [IngestNext]_<<vars, happened>> => [Next]_vars
  BY DEF IngestNext
<1> QED
  BY <1>1, <1>2, PTL DEF IngestSpec, Spec

\* Nothing changes what was read.
LEMMA ReadStays == IngestSpec => []Read
<1>1. IngestInit => Read
  BY DEF IngestInit, Read, LineOf, ThingOf
<1>2. Read /\ [IngestNext]_<<vars, happened>> => Read'
  <2> SUFFICES ASSUME Read, [IngestNext]_<<vars, happened>> PROVE Read'
    OBVIOUS
  <2>1. UNCHANGED <<things, log>>
    BY DEF IngestNext, happened
  <2>2. batch' = batch
    BY DEF IngestNext, vars, Next, HandlerStep, Skip, Store, Reject, Refuse, Answer, Strike,
       Post, GiveUpWaiting, Crash
  <2> QED
    BY <2>1, <2>2 DEF Read, LineOf, ThingOf
<1> QED
  BY <1>1, <1>2, PTL DEF IngestSpec

\* A line of a log is a line of one of its things, and has a place in it of its own.
LEMMA LinePlaces ==
  ASSUME Inv, Read, NEW c \in Security
  PROVE  /\ 1 .. Len(batch[c]) = DOMAIN log[c] /\ DOMAIN batch[c] = DOMAIN log[c]
         /\ \A i \in DOMAIN log[c] : /\ ThingOf(c, i) \in DOMAIN things[c]
                                     /\ things[c][ThingOf(c, i)] \in Happenings
                                     /\ log[c][i][2] \in DOMAIN Written(things[c][ThingOf(c, i)])
         /\ \A i, j \in DOMAIN log[c] :
              ThingOf(c, i) = ThingOf(c, j) /\ log[c][i][2] = log[c][j][2] => i = j
         /\ \A k \in DOMAIN things[c] :
              /\ things[c][k] \in Happenings
              /\ 1 \in DOMAIN Written(things[c][k]) =>
                   \E i \in DOMAIN log[c] : ThingOf(c, i) = k /\ log[c][i][2] = 1
<1> DEFINE f == things[c]
           o == log[c]
           N == 1 .. Cardinality(Places(f))
<1>1. PICK n : f \in [1 .. n -> Happenings]
  BY DEF Read
<1>2. o \in [N -> Places(f)] /\ IsInjective(o) /\ \A q \in Places(f) : \E i \in N : o[i] = q
  BY DEF Read, Logs, Bijection, Injection, Surjection
<1>3. \A q \in Places(f) :
        q = <<q[1], q[2]>> /\ q[1] \in DOMAIN f /\ q[2] \in DOMAIN Written(f[q[1]])
  BY DEF Places
<1>4. \A k \in DOMAIN f : 1 \in DOMAIN Written(f[k]) => <<k, 1>> \in Places(f)
  BY DEF Places
<1>5. 1 .. Len(batch[c]) = DOMAIN o /\ DOMAIN batch[c] = DOMAIN o
  BY BatchType DEF Security, Read, Inv
<1>6. ASSUME NEW i \in DOMAIN o, NEW j \in DOMAIN o, o[i][1] = o[j][1], o[i][2] = o[j][2]
      PROVE  i = j
  <2>1. o[i] \in Places(f) /\ o[j] \in Places(f)
    BY <1>2
  <2>2. o[i] = o[j]
    BY <1>3, <1>6, <2>1
  <2> QED
    BY <1>2, <2>2 DEF IsInjective
<1>7. \A k \in DOMAIN f : 1 \in DOMAIN Written(f[k]) =>
        \E i \in DOMAIN o : o[i][1] = k /\ o[i][2] = 1
  <2> TAKE k \in DOMAIN f
  <2> HAVE 1 \in DOMAIN Written(f[k])
  <2>1. PICK i \in N : o[i] = <<k, 1>>
    BY <1>2, <1>4
  <2>2. i \in DOMAIN o
    BY <1>2
  <2>3. o[i][1] = k /\ o[i][2] = 1
    BY <2>1
  <2> QED
    BY <2>2, <2>3
<1> QED
  BY <1>1, <1>2, <1>3, <1>5, <1>6, <1>7 DEF ThingOf

\* The line of a row is the first line of a thing that counts for it.
LEMMA RowsAreFirstLines ==
  ASSUME Inv, Read, NEW c \in Security, NEW i \in DOMAIN log[c],
         NEW status \in Statuses, NEW u \in Users
  PROVE  Parse(LineOf(c, i)) = status /\ LineOf(c, i).user = u
           <=> log[c][i][2] = 1 /\ Counts(things[c][ThingOf(c, i)], status, u)
  BY LinePlaces, FirstLineCounts DEF LineOf

\* An answered post none of whose inserts failed has a row for every line it parsed.
LEMMA ParsedMeansStored ==
  ASSUME Inv, Read, NEW c \in Security, NEW p \in Posts, NEW i \in DOMAIN log[c],
         handler[c][p].pc = "answered", ~InsertsFailed(c, p), Parse(LineOf(c, i)) # "None"
  PROVE  Stored(c, i, p)
<1>1. c \in Chunks /\ c \notin Nginx /\ i \in 1 .. Len(batch[c]) /\ i \in DOMAIN batch[c]
  BY LinePlaces DEF Security
<1>2. handler[c][p].next \in Nat /\ Len(batch[c]) \in Nat /\ handler[c][p].next > Len(batch[c])
  BY <1>1, BatchType DEF Inv, TypeOK, Handler, AnsweredAfterAll
<1>3. batch[c][i] = "good"
  BY <1>1 DEF Read, Reads, InsertsFailed
<1> QED
  BY <1>1, <1>2, <1>3 DEF Inv, Accounted, Excused, InsertsFailed

\* No two rows of a post are about one thing and none is about nothing, and with no insert
\* failed none of a foreseen form is missing, however many things a chunk is about and
\* however their lines are mixed; of sudo for users that it did not refuse.
THEOREM EachThingItsRow == IngestSpec => []OneRowEach
<1>1. Inv /\ Read => OneRowEach
  <2> SUFFICES ASSUME Inv, Read, NEW c \in Security, NEW p \in Posts, NEW u \in Users,
                      NEW status \in DOMAIN Says,
                      status = "sudo" => Did(c, "refused", u) = {}
               PROVE  LET did == Did(c, Says[status], u)
                          made == RowsOf(c, p, status, u)
                      IN /\ \A i \in made : ThingOf(c, i) \in did
                         /\ \A i, j \in made : ThingOf(c, i) = ThingOf(c, j) => i = j
                         /\ handler[c][p].pc = "answered" /\ ~InsertsFailed(c, p) =>
                              \A k \in did : Foreseen(things[c][k]) =>
                                \E i \in made : ThingOf(c, i) = k
    BY DEF OneRowEach
  <2> DEFINE did == Did(c, Says[status], u)
             made == RowsOf(c, p, status, u)
  <2>1. /\ status \in Statuses
        /\ Says["session_opened"] = "opened" /\ Says["failed"] = "failed"
        /\ Says["session_closed"] = "closed" /\ Says["sudo"] = "ran"
    BY DEF Says, Statuses
  <2>2. \A i \in made : /\ i \in DOMAIN log[c] /\ log[c][i][2] = 1
                        /\ Counts(things[c][ThingOf(c, i)], status, u)
    BY <2>1, LinePlaces, RowsAreFirstLines DEF RowsOf
  <2>3. ASSUME NEW i \in made PROVE ThingOf(c, i) \in did
    <3>1. ThingOf(c, i) \in DOMAIN things[c] /\ Counts(things[c][ThingOf(c, i)], status, u)
      BY <2>2, LinePlaces
    <3> QED
      BY <2>1, <3>1 DEF Counts, Did, Statuses
  <2>4. \A i, j \in made : ThingOf(c, i) = ThingOf(c, j) => i = j
    BY <2>2, LinePlaces
  <2>5. ASSUME handler[c][p].pc = "answered", ~InsertsFailed(c, p),
               NEW k \in did, Foreseen(things[c][k])
        PROVE  \E i \in made : ThingOf(c, i) = k
    <3>1. k \in DOMAIN things[c] /\ things[c][k].what = Says[status] /\ things[c][k].user = u
      BY DEF Did
    <3>2. Counts(things[c][k], status, u)
      BY <2>1, <2>5, <3>1 DEF Foreseen, Counts, Statuses
    <3>3. 1 \in DOMAIN Written(things[c][k])
      BY <2>1, <3>1, LinePlaces DEF Written, PamSession, Statuses
    <3>4. PICK i \in DOMAIN log[c] : ThingOf(c, i) = k /\ log[c][i][2] = 1
      BY <3>1, <3>3, LinePlaces
    <3>5. Parse(LineOf(c, i)) = status /\ LineOf(c, i).user = u
      BY <2>1, <3>2, <3>4, RowsAreFirstLines
    <3>6. Stored(c, i, p) /\ i \in 1 .. Len(batch[c])
      BY <2>1, <2>5, <3>5, ParsedMeansStored, LinePlaces DEF Statuses
    <3> QED
      BY <3>4, <3>5, <3>6 DEF RowsOf
  <2> HIDE DEF did, made
  <2> QED
    BY <2>3, <2>4, <2>5 DEF did, made
<1> QED
  BY <1>1, ImplementsIngest, Invariance, ReadStays, PTL

-------------------------------------------------------------------------------
(* LogViews *)

\* A row of a log, with the time it was written at and the one it was stamped with.
LogRow ==
  {r \in [kind : AppKinds \union AccessKinds, at : Nat, collected : Nat] :
     r.collected = IF r.kind \in Aware THEN r.at ELSE r.at + Lag}

NginxRow == [server : Servers, created : Nat]

ViewsTypeOK ==
  /\ now \in Nat
  /\ inflight \in [Writers -> LogRow \union {None}]
  /\ logs \in Seq(LogRow)
  /\ nginx \in Seq(NginxRow)

\* Whoever writes when, each row is stamped as its kind is.
THEOREM ViewsTypeCorrect == ViewsSpec => []ViewsTypeOK
<1>1. ViewsInit => ViewsTypeOK
  BY DEF ViewsInit, ViewsTypeOK
<1>2. ViewsTypeOK /\ [ViewsNext]_views => ViewsTypeOK'
  <2> SUFFICES ASSUME ViewsTypeOK, [ViewsNext]_views PROVE ViewsTypeOK'
    OBVIOUS
  <2> Lag \in Nat
    BY ViewsAssumption DEF ViewsAssumption
  <2>1. ASSUME NEW w \in Writers, NEW kind \in AppKinds \union AccessKinds, Stamp(w, kind)
        PROVE  ViewsTypeOK'
    <3>1. [kind |-> kind, at |-> now, collected |-> Stamped(kind)] \in LogRow
      BY DEF ViewsTypeOK, LogRow, Stamped
    <3> QED
      BY <2>1, <3>1 DEF Stamp, ViewsTypeOK
  <2>2. ASSUME NEW w \in Writers, Commit(w) PROVE ViewsTypeOK'
    <3>1. inflight[w] \in LogRow
      BY <2>2 DEF Commit, ViewsTypeOK
    <3> QED
      BY <2>2, <3>1 DEF Commit, ViewsTypeOK
  <2>3. ASSUME NEW w \in Writers, Lose(w) PROVE ViewsTypeOK'
    BY <2>3 DEF Lose, ViewsTypeOK
  <2>4. ASSUME NEW server \in Servers, NEW created \in 0 .. now + Lag, Ingest(server, created)
        PROVE  ViewsTypeOK'
    <3>1. [server |-> server, created |-> created] \in NginxRow
      BY DEF ViewsTypeOK, NginxRow
    <3> QED
      BY <2>4, <3>1 DEF Ingest, ViewsTypeOK
  <2>5. CASE Tick
    BY <2>5 DEF Tick, ViewsTypeOK
  <2>6. CASE UNCHANGED views
    BY <2>6 DEF views, ViewsTypeOK
  <2> QED
    BY <2>1, <2>2, <2>3, <2>4, <2>5, <2>6 DEF ViewsNext
<1> QED
  BY <1>1, <1>2, PTL DEF ViewsSpec

\* A page leaves out a row only if it is full, of rows none of which sorts behind it.
LEMMA PageFull ==
  ASSUME NEW matching, IsFiniteSet(matching), NEW key, NEW page \in Pages(matching, key),
         NEW i \in matching \ page
  PROVE  Cardinality(page) = Limit /\ \A j \in page : key[j] >= key[i]
<1>1. page \in SUBSET matching /\ page # matching
  BY DEF Pages
<1>2. Cardinality(page) # Cardinality(matching)
  BY <1>1, FS_Subset
<1> QED
  BY <1>2 DEF Pages

\* The rows of a table are finitely many.
LEMMA RowsFinite ==
  ASSUME NEW T, NEW s \in Seq(T), NEW some \in SUBSET DOMAIN s
  PROVE  IsFiniteSet(some)
<1>1. DOMAIN s = 1 .. Len(s) /\ Len(s) \in Int
  OBVIOUS
<1> QED
  BY <1>1, FS_Interval, FS_Subset

\* Of two rows of a log, the one stamped later is not older by more than the difference
\* between their zones.
LEMMA StampsTell ==
  ASSUME ViewsTypeOK, NEW i \in DOMAIN logs, NEW j \in DOMAIN logs, Collected[j] >= Collected[i]
  PROVE  /\ logs[i].kind \notin Aware \/ logs[j].kind \in Aware => logs[i].at <= logs[j].at
         /\ logs[i].at <= logs[j].at + Lag
<1>1. logs[i] \in LogRow /\ logs[j] \in LogRow
  BY DEF ViewsTypeOK
<1>2. logs[j].collected >= logs[i].collected
  BY DEF Collected
<1>3. Lag \in Nat
  BY ViewsAssumption DEF ViewsAssumption
<1> QED
  BY <1>1, <1>2, <1>3 DEF LogRow

\* A page of rows of one zone holds the newest, for any limit, lag and number of writers.
THEOREM PagesNewest == ViewsSpec => []NewestShown
<1>1. ViewsTypeOK => NewestShown
  <2> SUFFICES ASSUME ViewsTypeOK PROVE NewestShown
    OBVIOUS
  <2>1. ASSUME NEW kinds \in {{k} : k \in AppKinds} \union SUBSET AccessKinds,
               NEW page \in LogPages(kinds),
               NEW i \in {r \in DOMAIN logs : logs[r].kind \in kinds} \ page
        PROVE  Cardinality(page) = Limit /\ \A j \in page : logs[i].at <= logs[j].at
    <3> DEFINE matching == {r \in DOMAIN logs : logs[r].kind \in kinds}
    <3>1. IsFiniteSet(matching)
      BY RowsFinite DEF ViewsTypeOK
    <3>2. page \in Pages(matching, Collected) /\ page \subseteq matching
      BY DEF LogPages, Pages
    <3>3. Cardinality(page) = Limit /\ \A j \in page : Collected[j] >= Collected[i]
      BY <3>1, <3>2, PageFull
    <3>4. \A j \in page : logs[i].kind \notin Aware \/ logs[j].kind \in Aware
      BY <3>2 DEF AppKinds, AccessKinds, Aware
    <3> QED
      BY <3>2, <3>3, <3>4, StampsTell
  <2>2. ASSUME NEW s \in Servers, NEW page \in NginxPages(s),
               NEW i \in {r \in DOMAIN nginx : nginx[r].server = s} \ page
        PROVE  Cardinality(page) = Limit /\ \A j \in page : i < j
    <3> DEFINE matching == {r \in DOMAIN nginx : nginx[r].server = s}
               key == [r \in DOMAIN nginx |-> r]
    <3>1. IsFiniteSet(matching)
      BY RowsFinite DEF ViewsTypeOK
    <3>2. page \in Pages(matching, key) /\ page \subseteq matching
      BY DEF NginxPages, Pages
    <3>3. Cardinality(page) = Limit /\ \A j \in page : key[j] >= key[i]
      BY <3>1, <3>2, PageFull
    <3>4. DOMAIN nginx \subseteq Nat
      BY DEF ViewsTypeOK
    <3> QED
      BY <3>2, <3>3, <3>4
  <2>3. ASSUME NEW page \in SecurityPages(Frontend), NEW i \in DOMAIN nginx \ page
        PROVE  Cardinality(page) = Limit /\ \A j \in page : nginx[i].created <= nginx[j].created
    <3> DEFINE key == [r \in DOMAIN nginx |-> nginx[r].created]
    <3>1. IsFiniteSet(DOMAIN nginx)
      BY RowsFinite DEF ViewsTypeOK
    <3>2. page \in Pages(DOMAIN nginx, key) /\ page \subseteq DOMAIN nginx
      BY DEF SecurityPages, Pages
    <3>3. Cardinality(page) = Limit /\ \A j \in page : key[j] >= key[i]
      BY <3>1, <3>2, PageFull
    <3>4. \A r \in DOMAIN nginx : nginx[r].created \in Nat
      <4>1. \A r \in DOMAIN nginx : nginx[r] \in NginxRow
        BY DEF ViewsTypeOK
      <4> QED
        BY <4>1 DEF NginxRow
    <3> QED
      BY <3>2, <3>3, <3>4
  <2> QED
    BY <2>1, <2>2, <2>3 DEF NewestShown, LogPagesHold, Holds
<1> QED
  BY <1>1, ViewsTypeCorrect, PTL

\* On the page of all webapp logs a login may be displaced by an older error, but by none
\* that is older by more than the difference between the zones.
THEOREM DisplacedBound == ViewsSpec => []DisplacedWithinLag
<1>1. ViewsTypeOK => DisplacedWithinLag
  <2> SUFFICES ASSUME ViewsTypeOK, NEW page \in LogPages(AppKinds),
                      NEW i \in {r \in DOMAIN logs : logs[r].kind \in AppKinds} \ page
               PROVE  /\ Cardinality(page) = Limit
                      /\ \A j \in page : logs[i].at <= logs[j].at
                           + (IF logs[i].kind = "auth_login" THEN Lag ELSE 0)
    BY DEF DisplacedWithinLag, LogPagesHold, Holds
  <2> DEFINE matching == {r \in DOMAIN logs : logs[r].kind \in AppKinds}
  <2>1. IsFiniteSet(matching)
    BY RowsFinite DEF ViewsTypeOK
  <2>2. page \in Pages(matching, Collected) /\ page \subseteq matching
    BY DEF LogPages, Pages
  <2>3. Cardinality(page) = Limit /\ \A j \in page : Collected[j] >= Collected[i]
    BY <2>1, <2>2, PageFull
  <2>4. ASSUME NEW j \in page
        PROVE  logs[i].at <= logs[j].at + (IF logs[i].kind = "auth_login" THEN Lag ELSE 0)
    <3>1. logs[i].at \in Nat /\ logs[j].at \in Nat
      BY <2>2 DEF ViewsTypeOK, LogRow
    <3>2. CASE logs[i].kind = "auth_login"
      BY <2>2, <2>3, <3>2, StampsTell
    <3>3. CASE logs[i].kind # "auth_login"
      <4>1. logs[i].kind \notin Aware
        BY <3>3 DEF Aware
      <4>2. logs[i].at <= logs[j].at
        BY <2>2, <2>3, <4>1, StampsTell
      <4> QED
        BY <3>1, <3>3, <4>2
    <3> QED
      BY <3>2, <3>3
  <2> QED
    BY <2>3, <2>4
<1> QED
  BY <1>1, ViewsTypeCorrect, PTL
===============================================================================
