------------------------------ MODULE AuthService ------------------------------
(***************************************************************************)
(* Login, account lock, refresh-token rotation and logout                  *)
(* (app/services/auth_service.py with the user and refresh-token           *)
(* repositories and app/api/deps.py), at the granularity of one database   *)
(* commit per step.                                                        *)
(*                                                                         *)
(* The three handlers are `async def` functions that never await: the      *)
(* event loop of the one server process runs a handler's body from its     *)
(* first query to its answer before it starts another.  Around the bodies  *)
(* things do interleave: the bearer check of /logout runs in a thread of   *)
(* the pool, the clock moves, any database call may fail, and the process  *)
(* may die between two commits.                                            *)
(***************************************************************************)
EXTENDS Naturals

CONSTANTS
  Names,         \* user names a client may submit
  Accounts,      \* those that have a row in table "user"
  Inactive,      \* accounts whose is_active flag is off (no code writes it)
  Slots,         \* requests the process may have in flight
  MaxFailures,   \* _MAX_FAILURES, 5 in the code
  LockTime,      \* _LOCK_MINUTES; one tick of the clock is one second
  AccessLife,    \* ACCESS_TOKEN_EXPIRE_MINUTES
  RefreshLife,   \* REFRESH_TOKEN_EXPIRE_MINUTES_REFRESH
  MaxClock,      \* bound: the last second of a behaviour
  None           \* "no token" and "no user" in a slot

\* A refresh JWT is a function of the user and of the second it is minted in:
\* its claims are sub, userId, type and exp, and exp is a whole second.
Tokens == [user : Accounts, iat : 0 .. MaxClock]

ASSUME ConstantsAssumption ==
  /\ Accounts \subseteq Names
  /\ Inactive \subseteq Accounts
  /\ MaxFailures \in Nat \ {0}
  /\ LockTime \in Nat \ {0}
  /\ AccessLife \in Nat
  /\ RefreshLife \in Nat
  /\ MaxClock \in Nat
  /\ None \notin Names \union Tokens

VARIABLES
  now,           \* the wall clock, in seconds
  failedCount,   \* user.failed_login_count
  lockedUntil,   \* user.locked_until; 0 stands for NULL
  status,        \* refreshtoken.revoked, with the reason it was set
  expires,       \* refreshtoken.expires_at
  session,       \* history: the login token a token descends from
  known,         \* history: tokens some client has been sent
  streak,        \* history: passwords rejected since the last reset
  slot           \* the requests in flight

userTable == <<failedCount, lockedUntil, streak>>
tokenTable == <<status, expires, session>>
vars == <<now, userTable, tokenTable, known, slot>>

-------------------------------------------------------------------------------
Statuses == {"absent", "live", "rotated", "loggedOut", "expired"}

\* Points at which a handler's body is about to commit (or, at "mint", to
\* encode a token).  "queued" is a logout whose dependencies are resolved and
\* whose body is not yet running.
OnLoop == {"authLog", "unlock", "verify", "failLog", "secLog", "mint",
           "insert", "expire", "rotate", "revoke"}
Points == OnLoop \union {"idle", "queued"}

Idle == [pc |-> "idle", user |-> None, good |-> FALSE, seen |-> 0,
         tok |-> None, new |-> None]

Request == [pc : Points,
            user : Names \union {None},     \* whose request
            good : BOOLEAN,                 \* the password submitted is right
            seen : Nat,                     \* failed_login_count as loaded
            tok : Tokens \union {None},     \* the refresh token presented
            new : Tokens \union {None}]     \* the refresh token minted

TypeOK ==
  /\ now \in 0 .. MaxClock
  /\ failedCount \in [Accounts -> Nat]
  /\ lockedUntil \in [Accounts -> Nat]
  /\ streak \in [Accounts -> Nat]
  /\ status \in [Tokens -> Statuses]
  /\ expires \in [Tokens -> Nat]
  /\ session \in [Tokens -> Tokens]
  /\ known \in SUBSET Tokens
  /\ slot \in [Slots -> Request]

Init ==
  /\ now = 0
  /\ failedCount = [u \in Accounts |-> 0]
  /\ lockedUntil = [u \in Accounts |-> 0]
  /\ streak = [u \in Accounts |-> 0]
  /\ status = [t \in Tokens |-> "absent"]
  /\ expires = [t \in Tokens |-> 0]
  /\ session = [t \in Tokens |-> t]
  /\ known = {}
  /\ slot = [w \in Slots |-> Idle]

-------------------------------------------------------------------------------
\* Helpers of the handlers.

\* Two workers, or plain `def` handlers in the thread pool.
BugLoopNotExclusive == TRUE
\* The event loop is not inside a handler's body.
LoopFree == \A w \in Slots : slot[w].pc \notin OnLoop

Locked(u) == lockedUntil[u] > now

At(w, point) == slot[w].pc = point
Start(w, request) == slot' = [slot EXCEPT ![w] = request]
Goto(w, point) == slot' = [slot EXCEPT ![w].pc = point]
Finish(w) == slot' = [slot EXCEPT ![w] = Idle]

\* The reset forgets the lock.
BugResetCountOnly(u) ==
  /\ failedCount' = [failedCount EXCEPT ![u] = 0]
  /\ streak' = [streak EXCEPT ![u] = 0]
  /\ UNCHANGED lockedUntil
\* The reset forgives one failure instead of all of them.
BugForgiveOne(u) ==
  /\ failedCount' = [failedCount EXCEPT ![u] = @ - 1]
  /\ streak' = [streak EXCEPT ![u] = 0]
  /\ lockedUntil' = [lockedUntil EXCEPT ![u] = 0]
\* reset_login_attempts
ResetAttempts(u) ==
  /\ failedCount' = [failedCount EXCEPT ![u] = 0]
  /\ lockedUntil' = [lockedUntil EXCEPT ![u] = 0]
  /\ streak' = [streak EXCEPT ![u] = 0]

\* revoke_refresh_token: a second revocation changes nothing.
Revoke(t, why) ==
  /\ status' = [status EXCEPT ![t] = IF @ = "live" THEN why ELSE @]
  /\ UNCHANGED <<expires, session>>

-------------------------------------------------------------------------------
(* POST /auth/login *)

\* The name is unknown or the account inactive: 401 or 403, after an app log.
LoginRefused(w, u) ==
  /\ At(w, "idle") /\ LoopFree
  /\ u \in (Names \ Accounts) \union Inactive
  /\ Start(w, [Idle EXCEPT !.pc = "authLog", !.user = u])
  /\ UNCHANGED <<now, userTable, tokenTable, known>>

\* A locked account is answered 423 at once and nothing changes, hence the
\* guard.  A lock that has lapsed is cleared before the password is looked at.
LoginBegin(w, u, good) ==
  /\ At(w, "idle") /\ LoopFree
  /\ u \in Accounts \ Inactive
  /\ ~Locked(u)
  /\ Start(w, [Idle EXCEPT !.pc = IF lockedUntil[u] = 0 THEN "verify" ELSE "unlock",
                           !.user = u, !.good = good, !.seen = failedCount[u]])
  /\ UNCHANGED <<now, userTable, tokenTable, known>>

\* The lock lapsed.  The commit expires the loaded row: the count read after it
\* is the stored one.
Unlock(w) ==
  /\ At(w, "unlock")
  /\ ResetAttempts(slot[w].user)
  /\ slot' = [slot EXCEPT ![w].pc = "verify", ![w].seen = 0]
  /\ UNCHANGED <<now, tokenTable, known>>

\* The failure that reaches the limit is counted but sets no lock.
BugLockOneLate(w) ==
  /\ At(w, "verify") /\ ~slot[w].good
  /\ LET u == slot[w].user
         count == slot[w].seen + 1
     IN /\ failedCount' = [failedCount EXCEPT ![u] = count]
        /\ lockedUntil' = [lockedUntil EXCEPT ![u] =
                             IF count > MaxFailures THEN now + LockTime ELSE @]
        /\ streak' = [streak EXCEPT ![u] = @ + 1]
        /\ slot' = [slot EXCEPT ![w].pc = "failLog", ![w].seen = count]
  /\ UNCHANGED <<now, tokenTable, known>>
\* record_failed_login: the new count is computed from the loaded row.
RejectPassword(w) ==
  /\ At(w, "verify") /\ ~slot[w].good
  /\ LET u == slot[w].user
         count == slot[w].seen + 1
     IN /\ failedCount' = [failedCount EXCEPT ![u] = count]
        /\ lockedUntil' = [lockedUntil EXCEPT ![u] =
                             IF count >= MaxFailures THEN now + LockTime ELSE @]
        /\ streak' = [streak EXCEPT ![u] = @ + 1]
        /\ slot' = [slot EXCEPT ![w].pc = "failLog", ![w].seen = count]
  /\ UNCHANGED <<now, tokenTable, known>>

\* The right password resets the counter, then the tokens are made.
AcceptPassword(w) ==
  /\ At(w, "verify") /\ slot[w].good
  /\ ResetAttempts(slot[w].user)
  /\ Goto(w, "mint")
  /\ UNCHANGED <<now, tokenTable, known>>

\* After a rejected password: the app log, then the security log with the
\* count ("failed count/5" or "account locked"), then 401 or 423.
WriteFailLog(w) ==
  /\ At(w, "failLog")
  /\ Goto(w, "secLog")
  /\ UNCHANGED <<now, userTable, tokenTable, known>>

WriteSecurityLog(w) ==
  /\ At(w, "secLog")
  /\ Finish(w)
  /\ UNCHANGED <<now, userTable, tokenTable, known>>

-------------------------------------------------------------------------------
(* Issuing a token, for /auth/login and /auth/refresh *)

\* create_access_token and create_refresh_token: the JWT carries this second.
Mint(w) ==
  /\ At(w, "mint")
  /\ slot' = [slot EXCEPT ![w].pc = "insert",
                          ![w].new = [user |-> slot[w].user, iat |-> now]]
  /\ UNCHANGED <<now, userTable, tokenTable, known>>

\* create_refresh_token of the repository.  The row's expiry is computed from a
\* later reading of the clock than the JWT's.
Insert(w) ==
  /\ At(w, "insert")
  /\ LET t == slot[w].new IN
       /\ status[t] = "absent"
       /\ status' = [status EXCEPT ![t] = "live"]
       /\ expires' = [expires EXCEPT ![t] = now + RefreshLife]
       /\ session' = [session EXCEPT ![t] =
                        IF slot[w].tok = None THEN t ELSE session[slot[w].tok]]
  /\ Goto(w, "authLog")
  /\ UNCHANGED <<now, userTable, known>>

\* A retry loop that encodes the same token for ever.
BugRetrySameToken(w) ==
  /\ At(w, "insert")
  /\ status[slot[w].new] # "absent"
  /\ UNCHANGED vars
\* The unique index refuses a token already in the table: the IntegrityError
\* leaves the handler and the client gets a 500.
InsertConflict(w) ==
  /\ At(w, "insert")
  /\ status[slot[w].new] # "absent"
  /\ Finish(w)
  /\ UNCHANGED <<now, userTable, tokenTable, known>>

\* The last app log of a handler, then its answer.
WriteAuthLog(w) ==
  /\ At(w, "authLog")
  /\ known' = known \union ({slot[w].new} \ {None})
  /\ Finish(w)
  /\ UNCHANGED <<now, userTable, tokenTable>>

-------------------------------------------------------------------------------
(* POST /auth/refresh *)

\* decode_token: python-jose accepts a token up to and including second exp.
JwtAlive(t, life) == now <= t.iat + life

\* A rotation that goes straight to issuing the successor.
BugIssueWithoutRevoke(w, t) ==
  /\ At(w, "idle") /\ LoopFree
  /\ t \in known /\ status[t] = "live"
  /\ expires[t] > now
  /\ Start(w, [Idle EXCEPT !.pc = "mint", !.user = t.user, !.tok = t])
  /\ UNCHANGED <<now, userTable, tokenTable, known>>
\* A token that is unknown or revoked, or whose JWT no longer decodes while the
\* row is still valid, is answered 401 and nothing changes.  The token's user
\* always exists: no code deletes or renames one.
RefreshBegin(w, t) ==
  /\ At(w, "idle") /\ LoopFree
  /\ t \in known /\ status[t] = "live"
  /\ expires[t] <= now \/ JwtAlive(t, RefreshLife)
  /\ Start(w, [Idle EXCEPT !.pc = IF expires[t] <= now THEN "expire" ELSE "rotate",
                           !.user = t.user, !.tok = t])
  /\ UNCHANGED <<now, userTable, tokenTable, known>>

\* An expired token is revoked, then 401.
Expire(w) ==
  /\ At(w, "expire")
  /\ Revoke(slot[w].tok, "expired")
  /\ Finish(w)
  /\ UNCHANGED <<now, userTable, known>>

\* Rotation, first commit: the presented token is revoked.
Rotate(w) ==
  /\ At(w, "rotate")
  /\ Revoke(slot[w].tok, "rotated")
  /\ Goto(w, "mint")
  /\ UNCHANGED <<now, userTable, known>>

-------------------------------------------------------------------------------
(* POST /auth/logout *)

\* get_current_user, in a thread of the pool.  The bearer is the access JWT
\* minted together with refresh token b; `type` is not looked at, so the
\* lifetime may be that of either kind.
LogoutCheck(w, b, t) ==
  /\ At(w, "idle")
  /\ b \in known /\ t \in known
  /\ \E life \in {AccessLife, RefreshLife} : JwtAlive(b, life)
  /\ b.user \notin Inactive
  /\ Start(w, [Idle EXCEPT !.pc = "queued", !.user = b.user, !.tok = t])
  /\ UNCHANGED <<now, userTable, tokenTable, known>>

Revocable(w) == LET t == slot[w].tok
                IN status[t] = "live" /\ t.user = slot[w].user

\* The body: the row is read when the loop gets to it.
LogoutBegin(w) ==
  /\ At(w, "queued") /\ LoopFree
  /\ Revocable(w)
  /\ Goto(w, "revoke")
  /\ UNCHANGED <<now, userTable, tokenTable, known>>

\* Revoked meanwhile, or another user's token: 401.
LogoutRefused(w) ==
  /\ At(w, "queued") /\ LoopFree
  /\ ~Revocable(w)
  /\ Finish(w)
  /\ UNCHANGED <<now, userTable, tokenTable, known>>

Logout(w) ==
  /\ At(w, "revoke")
  /\ Revoke(slot[w].tok, "loggedOut")
  /\ Goto(w, "authLog")
  /\ UNCHANGED <<now, userTable, known>>

-------------------------------------------------------------------------------
(* The environment *)

\* A query or a commit raises, or the client hangs up before the answer: the
\* session is closed and whatever was committed stays.
Fault(w) ==
  /\ ~At(w, "idle")
  /\ Finish(w)
  /\ UNCHANGED <<now, userTable, tokenTable, known>>

\* The process dies and is restarted by systemd (Restart=always).
Crash ==
  /\ \E w \in Slots : ~At(w, "idle")
  /\ slot' = [w \in Slots |-> Idle]
  /\ UNCHANGED <<now, userTable, tokenTable, known>>

Tick ==
  /\ now < MaxClock
  /\ now' = now + 1
  /\ UNCHANGED <<userTable, tokenTable, known, slot>>

-------------------------------------------------------------------------------
\* A step of a handler whose body is on the loop.
LoginStep(w) == Unlock(w) \/ RejectPassword(w) \/ AcceptPassword(w)
                \/ WriteFailLog(w) \/ WriteSecurityLog(w)
IssueStep(w) == Mint(w) \/ Insert(w) \/ InsertConflict(w) \/ WriteAuthLog(w)
RevokeStep(w) == Expire(w) \/ Rotate(w) \/ Logout(w)
BodyStep(w) == LoginStep(w) \/ IssueStep(w) \/ RevokeStep(w)
\* The loop picks up a logout that waits for it.
PickUp(w) == LogoutBegin(w) \/ LogoutRefused(w)

Arrive(w) ==
  \/ \E u \in Names : LoginRefused(w, u)
  \/ \E u \in Names, good \in BOOLEAN : LoginBegin(w, u, good)
  \/ \E t \in Tokens : RefreshBegin(w, t)
  \/ \E b, t \in Tokens : LogoutCheck(w, b, t)

Next == \/ \E w \in Slots : Arrive(w) \/ PickUp(w) \/ BodyStep(w) \/ Fault(w)
        \/ Crash
        \/ Tick

Spec == Init /\ [][Next]_vars

-------------------------------------------------------------------------------
(* Account lock *)

\* The row is locked exactly when five failures are counted in it, and no more
\* are ever counted: attempts on a locked account are not (auth_service.login
\* 81-102, user_repository.record_failed_login).
LockMatchesCount ==
  \A u \in Accounts :
    /\ failedCount[u] <= MaxFailures
    /\ failedCount[u] = MaxFailures <=> lockedUntil[u] # 0

\* No rejected password is lost from the counter, whatever other logins of the
\* same account are in flight: record_failed_login adds one to a value it
\* loaded earlier.
NoLostFailure == failedCount = streak

\* While a rejection is being logged, the row still says what the log entries
\* are about to say ("failed count/5", or "account locked" at the limit).
AuditTellsRow ==
  \A w \in Slots : slot[w].pc \in {"failLog", "secLog"}
                     => failedCount[slot[w].user] = slot[w].seen

\* A lock set by the fifth failure is neither lifted nor moved before it
\* lapses: not even a login that had its password accepted meanwhile does so.
LockHolds ==
  [][\A u \in Accounts : Locked(u) => lockedUntil'[u] = lockedUntil[u]]_vars

\* No login issues a token for an account while the account is locked.
NoLoginWhileLocked ==
  [][\A t \in Tokens : status[t] = "absent" /\ status'[t] = "live" /\ session'[t] = t
                         => ~Locked(t.user)]_vars

-------------------------------------------------------------------------------
(* Sessions *)

\* A refresh between its two commits: the presented token is revoked, its
\* successor not stored.
Renewing(w) == slot[w].pc \in {"mint", "insert"} /\ slot[w].tok # None

\* However logins, refreshes, logouts, faults and crashes interleave, the tokens
\* that descend from one login never have two valid ones among them.
OneLivePerSession ==
  \A s, t \in Tokens : status[s] = "live" /\ status[t] = "live" /\ session[s] = session[t]
                         => s = t

\* Once a logout has revoked a session's token, no token of that session is
\* valid again: a refresh that overlaps the logout cannot carry the session on.
LogoutEndsSession ==
  \A s, t \in Tokens : status[s] = "loggedOut" /\ session[s] = session[t]
                         => status[t] # "live"

\* What auth_service.py:151 says of refresh ("revoke old refresh token and issue
\* a new pair"): a refresh that has revoked the old token can store the new one.
RotationCanIssue ==
  \A w \in Slots : Renewing(w) /\ At(w, "insert") => status[slot[w].new] = "absent"

\* Every step above is a step of a session, or leaves all sessions alone.
Live(s) == {t \in Tokens : status[t] = "live" /\ session[t] = s}
Issued == {t \in Tokens : status[t] # "absent"}
Renewal(s) == \E w \in Slots : Renewing(w) /\ session[slot[w].tok] = s
Phase(s) == IF s \notin Issued \/ session[s] # s THEN "unused"
            ELSE IF Live(s) # {} THEN "open"
            ELSE IF Renewal(s) THEN "renewing" ELSE "closed"

S == INSTANCE Sessions WITH phase <- [s \in Tokens |-> Phase(s)],
                            holder <- [s \in Tokens |-> Live(s)],
                            used <- Issued
Rotation == S!Spec

-------------------------------------------------------------------------------
(* Progress *)

\* A body on the loop runs to its end (or faults), and the loop serves its ready
\* queue in order, so a waiting logout is not overtaken for ever.
FairSpec == Spec /\ \A w \in Slots : WF_vars(BodyStep(w)) /\ SF_vars(PickUp(w))

\* Every request is answered: none waits for ever for a loop that others keep.
Answered == \A w \in Slots : ~At(w, "idle") ~> At(w, "idle")

\* A user who keeps trying with the right password, a clock that advances and a
\* database that does not fail every single time.
RetrySpec ==
  /\ FairSpec
  /\ WF_vars(Tick)
  /\ \A u \in Accounts : SF_vars(\E w \in Slots : LoginBegin(w, u, TRUE))
  /\ \A w \in Slots : SF_vars(Unlock(w))

\* "Locked for five minutes (released automatically)", README.md:258: a lock that
\* lapses within the behaviour is lifted by an attempt that follows.
AutoUnlock ==
  \A u \in Accounts \ Inactive :
    (lockedUntil[u] # 0 /\ lockedUntil[u] <= MaxClock) ~> lockedUntil[u] = 0
===============================================================================
