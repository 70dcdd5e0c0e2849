--------------------------------- MODULE Signup ---------------------------------
(***************************************************************************)
(* The two ways to create a user: POST /auth/signup (auth_service.py) and  *)
(* POST /users (user_service.py).  Both look the user name and the address *)
(* up, hash the password, insert, commit and read the row back, on the     *)
(* event loop and without an await; two unique indexes stand behind the    *)
(* look-up.  A client whose answer was lost sends the same request again,  *)
(* which here is another request with the same payload.                    *)
(***************************************************************************)
EXTENDS Naturals

CONSTANTS
  Requests,   \* bound: the requests of a behaviour
  Usernames,
  Emails

VARIABLES
  user,       \* table "user": the columns under a unique index, and its request
  request     \* where each request is

vars == <<user, request>>

Row == [username : Usernames, email : Emails, by : Requests]

\* Between two database calls of a body on the loop, and the outcomes: 201 or 200,
\* 400 for a name or address that exists, 400 for a value, 500, no answer.
OnLoop == {"checked", "committed"}
Answers == {"created", "taken", "refused", "failed", "lost"}
Idle == [pc |-> "idle"]
Request == [pc : OnLoop \union Answers \union {"queued"}, path : {"signup", "users"},
            username : Usernames, email : Emails]

TypeOK ==
  /\ user \subseteq Row
  /\ request \in [Requests -> Request \union {Idle}]

Init == user = {} /\ request = [r \in Requests |-> Idle]

Goto(r, point) == request' = [request EXCEPT ![r].pc = point]

\* Two workers, or plain `def` handlers.
BugLoopNotExclusive == TRUE
LoopFree == \A r \in Requests : request[r].pc \notin OnLoop

\* What the look-ups find, and what the unique indexes refuse.
Clash(r) == \E u \in user : u.username = request[r].username \/ u.email = request[r].email

Arrive(r, path, username, email) ==
  /\ request[r] = Idle
  /\ request' = [request EXCEPT ![r] =
       [pc |-> "queued", path |-> path, username |-> username, email |-> email]]
  /\ UNCHANGED user

Check(r) ==
  /\ request[r].pc = "queued" /\ LoopFree
  /\ Goto(r, IF Clash(r) THEN "taken" ELSE "checked")
  /\ UNCHANGED user

\* A ValueError: psycopg2 has no form for a NUL in the name or address it looks up or
\* inserts, passlib no hash of the password.  /users turns it into a 400, /auth/signup
\* does not.
BadValue(r) ==
  /\ request[r].pc \in {"queued", "checked"}
  /\ request[r].pc = "queued" => LoopFree /\ ~Clash(r)
  /\ Goto(r, IF request[r].path = "users" THEN "refused" ELSE "failed")
  /\ UNCHANGED user

\* The address is not handed on to the repository.
BugNoEmail(r) == [username |-> request[r].username, email |-> "NULL", by |-> r]
Added(r) == [username |-> request[r].username, email |-> request[r].email, by |-> r]

Commit(r) ==
  /\ request[r].pc = "checked" /\ ~Clash(r)
  /\ user' = user \union {Added(r)}
  /\ Goto(r, "committed")

\* db.refresh, and the answer.
Reread(r) ==
  /\ request[r].pc = "committed"
  /\ Goto(r, "created")
  /\ UNCHANGED user

\* The insert may have been committed by the time the connection breaks.
Landed(r) == UNCHANGED user \/ (request[r].pc = "checked" /\ ~Clash(r) /\
                                user' = user \union {Added(r)})

\* `except Exception` in POST /users.
BugEveryErrorIs400(r) ==
  /\ request[r].pc \in {"queued"} \union OnLoop /\ (request[r].pc = "queued" => LoopFree)
  /\ Landed(r)
  /\ Goto(r, IF request[r].path = "users" THEN "refused" ELSE "failed")
\* A database error in any of the calls; at the commit that is also the IntegrityError
\* of a unique index, which nobody catches.
Fault(r) ==
  /\ request[r].pc \in {"queued"} \union OnLoop /\ (request[r].pc = "queued" => LoopFree)
  /\ Landed(r)
  /\ Goto(r, "failed")

Crash ==
  /\ \E r \in Requests : request[r].pc \in {"queued"} \union OnLoop
  /\ UNCHANGED user \/ \E r \in Requests : Landed(r)
  /\ request' = [r \in Requests |->
       IF request[r].pc \in {"queued"} \union OnLoop THEN [request[r] EXCEPT !.pc = "lost"]
                                                     ELSE request[r]]

Body(r) == BadValue(r) \/ Commit(r) \/ Reread(r) \/ Fault(r)

Next == \/ Crash
        \/ \E r \in Requests : Check(r) \/ Body(r)
        \/ \E r \in Requests, path \in {"signup", "users"}, n \in Usernames, e \in Emails :
             Arrive(r, path, n, e)

Spec == Init /\ [][Next]_vars

-------------------------------------------------------------------------------
(* Properties *)

\* The look-up is worth something: what it did not find is still not there when the
\* row is inserted, so nobody is answered 500 by the unique indexes
\* (auth_service.py 42-55, user_service.py 8-22, user_repository.py 26-31).
IndexNeverHit == \A r \in Requests : request[r].pc = "checked" => ~Clash(r)

\* What a client is told is true: an account was created by its request, or by
\* another request and not by its own; and no two accounts share a name or an
\* address.  Only a 500 or a lost answer leaves it open (auth.py 21-24, user.py
\* 14-19).
Mine(r) == {u \in user : u.by = r}
AnswerTells ==
  /\ \A u, v \in user : u.username = v.username \/ u.email = v.email => u = v
  /\ \A r \in Requests :
       /\ request[r].pc \in {"committed", "created"} => Mine(r) = {Added(r)}
       /\ request[r].pc \in {"idle", "queued", "checked", "taken", "refused"} => Mine(r) = {}
       /\ request[r].pc = "taken" => Clash(r)
===============================================================================
