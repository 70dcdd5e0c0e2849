--------------------------------- MODULE LogViews ---------------------------------
(***************************************************************************)
(* What the log pages show: GET /logs/webapp over app_logs,                *)
(* /security/logs/access over security_access_logs, /logs/nginx and        *)
(* /security/logs over nginx_logs.  The rows are stamped by their writers  *)
(* before they commit, and not all in the same zone.                       *)
(***************************************************************************)
EXTENDS Naturals, FiniteSets, Sequences, TLC

CONSTANTS
  Writers,    \* the log threads, the loop and the threads of the ingest endpoints
  Lag,        \* how far Korean time is ahead of the time zone of the database
  Limit,      \* LIMIT of a page
  Servers,
  Frontend,   \* "nginx-fe-server"
  None,
  MaxTime,    \* bound: the clock
  MaxRows     \* bound: rows

ASSUME ViewsAssumption ==
  Lag \in Nat /\ Limit \in Nat \ {0} /\ MaxTime \in Nat /\ MaxRows \in Nat

VARIABLES
  now,        \* time, in the zone of the database
  inflight,   \* per writer: the row it has stamped and not committed
  logs,       \* app_logs and security_access_logs, in the order of their ids
  nginx       \* nginx_logs, in the order of its ids

views == <<now, inflight, logs, nginx>>

AppKinds == {"fastapi_error", "auth_login"}     \* log_type of app_logs
AccessKinds == {"ssh", "login"}                 \* security_access_logs

ViewsInit ==
  /\ now = 0
  /\ inflight = [w \in Writers |-> None]
  /\ logs = <<>> /\ nginx = <<>>

-------------------------------------------------------------------------------
(* Writing *)

Room == Len(logs) + Len(nginx) + Cardinality({w \in Writers : inflight[w] # None}) < MaxRows

Aware == {"auth_login"}
\* The repository of the access log without its replace(tzinfo=None).
BugAwareLogin(kind) == IF kind \in Aware \union {"login"} THEN now ELSE now + Lag
\* datetime.now(KST) and, but for _add_auth_log, .replace(tzinfo=None): a time with a
\* zone is converted to that of the database when it is stored in a TIMESTAMP.
Stamped(kind) == IF kind \in Aware THEN now ELSE now + Lag

Stamp(w, kind) ==
  /\ Room /\ inflight[w] = None
  /\ inflight' = [inflight EXCEPT ![w] =
                    [kind |-> kind, at |-> now, collected |-> Stamped(kind)]]
  /\ UNCHANGED <<now, logs, nginx>>

Commit(w) ==
  /\ inflight[w] # None
  /\ logs' = Append(logs, inflight[w])
  /\ inflight' = [inflight EXCEPT ![w] = None]
  /\ UNCHANGED <<now, nginx>>

\* The insert fails, or the process ends.
Lose(w) ==
  /\ inflight[w] # None
  /\ inflight' = [inflight EXCEPT ![w] = None]
  /\ UNCHANGED <<now, logs, nginx>>

\* created is create_time of the record, or the time of its arrival.
Ingest(s, created) ==
  /\ Room
  /\ nginx' = Append(nginx, [server |-> s, created |-> created])
  /\ UNCHANGED <<now, inflight, logs>>

Tick ==
  /\ now < MaxTime
  /\ now' = now + 1
  /\ UNCHANGED <<inflight, logs, nginx>>

ViewsNext ==
  \/ \E w \in Writers : Commit(w) \/ Lose(w) \/ \E k \in AppKinds \union AccessKinds : Stamp(w, k)
  \/ \E s \in Servers, t \in 0 .. now + Lag : Ingest(s, t)
  \/ Tick

ViewsSpec == ViewsInit /\ [][ViewsNext]_views

-------------------------------------------------------------------------------
(* The pages: the sets of rows PostgreSQL may return for ORDER BY ... DESC LIMIT *)

\* Without DESC.
BugOldestFirst(matching, key) ==
  {page \in SUBSET matching :
     /\ Cardinality(page) = IF Cardinality(matching) < Limit THEN Cardinality(matching) ELSE Limit
     /\ \A shown \in page, other \in matching \ page : key[shown] <= key[other]}
Pages(matching, key) ==
  {page \in SUBSET matching :
     /\ Cardinality(page) = IF Cardinality(matching) < Limit THEN Cardinality(matching) ELSE Limit
     /\ \A shown \in page, other \in matching \ page : key[shown] >= key[other]}

Collected == [i \in DOMAIN logs |-> logs[i].collected]
\* Of the rows of some kinds: log_type of /logs/webapp; server_name, level, status and
\* keyword of /security/logs/access.
LogPages(kinds) == Pages({i \in DOMAIN logs : logs[i].kind \in kinds}, Collected)

\* /logs/nginx sorts by id and filters by server.
NginxPages(s) ==
  Pages({i \in DOMAIN nginx : nginx[i].server = s}, [i \in DOMAIN nginx |-> i])

\* /security/logs takes all of nginx_logs for logs of the nginx server.
SecurityPages(s) ==
  Pages(IF s = Frontend THEN DOMAIN nginx ELSE {}, [i \in DOMAIN nginx |-> nginx[i].created])

-------------------------------------------------------------------------------
(* Properties *)

\* A row that matches is left out of a page only if the page is full, of rows none of
\* which Before says to come after it.
Holds(page, matching, Before(_, _)) ==
  \A i \in matching \ page : Cardinality(page) = Limit /\ \A j \in page : Before(i, j)

LogPagesHold(kinds, Before(_, _)) ==
  \A page \in LogPages(kinds) : Holds(page, {i \in DOMAIN logs : logs[i].kind \in kinds}, Before)

\* A page of one kind of webapp log, of any part of the access log, of the nginx log of a
\* server, and of /security/logs for the nginx server, holds the newest rows there are, in
\* whatever order their writers committed, and however many rows of other kinds there are
\* (app_log_repository.py 35, security_access_log_repository.py 44, log_repository.py 40,
\* infra_repository.py 96).
NewestShown ==
  /\ \A kinds \in {{k} : k \in AppKinds} \union SUBSET AccessKinds :
       LogPagesHold(kinds, LAMBDA i, j : logs[i].at <= logs[j].at)
  /\ \A s \in Servers : \A page \in NginxPages(s) :
       Holds(page, {i \in DOMAIN nginx : nginx[i].server = s}, LAMBDA i, j : i < j)
  /\ \A page \in SecurityPages(Frontend) :
       Holds(page, DOMAIN nginx, LAMBDA i, j : nginx[i].created <= nginx[j].created)

\* On the unfiltered webapp page the logins and the errors are stamped in different
\* zones: a login is displaced by older errors, but only by ones that are older by at
\* most the difference, and an error by no older row (auth_service.py 37,
\* error_logger.py 57).
DisplacedWithinLag ==
  LogPagesHold(AppKinds, LAMBDA i, j :
    logs[i].at <= logs[j].at + (IF logs[i].kind = "auth_login" THEN Lag ELSE 0))
===============================================================================
