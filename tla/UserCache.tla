----------------------------- MODULE UserCache -----------------------------
(***************************************************************************)
(* The users that requests run as: application.getUser, which both         *)
(* AuthTokenMiddleware and userContextMiddleware call (cmd/api), with the  *)
(* Redis cache of internal/store/cache in front of the users table.        *)
(*                                                                         *)
(* Nothing invalidates the cache: activation and removal change the table  *)
(* only, and a handler may store the row it read after it has changed.  So *)
(* what a request sees of a user may be old, and the question is how old.  *)
(*                                                                         *)
(* Time passes in ticks.  A request of /users/{id} makes two lookups, for  *)
(* its caller and for the id in the path; here each is a lookup of its     *)
(* own.  Rows change as in Accounts: pending, active, gone.                *)
(***************************************************************************)
EXTENDS Integers

CONSTANTS Handlers,      \* lookups that may run at once
          Users,
          TTL,           \* UserExpTime
          MaxDelay,      \* bound: ticks between a handler's query and its SETEX
          CacheEnabled,  \* redisCfg.enabled
          RedisFails,    \* whether a command to Redis may fail
          QueriesFail,   \* whether a query may fail
          NoEntry        \* no value under this key

Rows == {"pending", "active"}
Entry == [user : Rows, left : 1..TTL]
Callers == {"AuthTokenMiddleware", "userContextMiddleware"}

\* A state a row has left for longer than this may be called ancient.
Horizon == TTL + MaxDelay + 1

ASSUME TimeAssumption == TTL \in Nat \ {0} /\ MaxDelay \in Nat
ASSUME EntryAssumption == NoEntry \notin Entry
ASSUME SwitchAssumption == /\ CacheEnabled \in BOOLEAN
                           /\ RedisFails \in BOOLEAN
                           /\ QueriesFail \in BOOLEAN

VARIABLES row,     \* row[u]: the row of users, or "gone"
          since,   \* since[u][s]: ticks since row[u] was last s, up to Horizon
          cache,   \* cache[u]: the value under "user-u" and its remaining ticks
          pc,      \* pc[h]: "idle", "get", "query", "set"
          caller,  \* caller[h]: the middleware
          userID,  \* userID[h]: the user it asks for
          user,    \* user[h]: the row its query returned
          late,    \* late[h]: ticks since that query
          answer   \* answer[h]: the user in the request's context, or a status

vars == <<row, since, cache, pc, caller, userID, user, late, answer>>
tableVars == <<row, since>>
requestVars == <<caller, userID>>

Statuses == {"none", "401", "404", "500"}

-----------------------------------------------------------------------------
Init == /\ row \in [Users -> Rows \cup {"gone"}]
        /\ since = [u \in Users |-> [s \in Rows |-> IF s = row[u] THEN 0 ELSE Horizon]]
        /\ cache = [u \in Users |-> NoEntry]
        /\ pc = [h \in Handlers |-> "idle"]
        /\ caller \in [Handlers -> Callers]
        /\ userID \in [Handlers -> Users]
        /\ user = [h \in Handlers |-> "pending"]
        /\ late = [h \in Handlers |-> 0]
        /\ answer = [h \in Handlers |-> "none"]

\* getUser returns, and the middleware passes the user on or answers.
Return(h, a) == /\ pc' = [pc EXCEPT ![h] = "idle"]
                /\ answer' = [answer EXCEPT ![h] = a]

\* AuthTokenMiddleware makes a 401 of every error; userContextMiddleware
\* knows ErrNotFound.
ErrorAnswer(h, err) ==
    IF caller[h] = "AuthTokenMiddleware" THEN "401" ELSE err

Call(h, u, c) ==
    /\ pc[h] = "idle"
    /\ pc' = [pc EXCEPT ![h] = IF CacheEnabled THEN "get" ELSE "query"]
    /\ caller' = [caller EXCEPT ![h] = c]
    /\ userID' = [userID EXCEPT ![h] = u]
    /\ answer' = [answer EXCEPT ![h] = "none"]
    /\ UNCHANGED <<tableVars, cache, user, late>>

\* Users.Get finds the key: its value is what the request runs as.
Hit(h) ==
    /\ pc[h] = "get"
    /\ cache[userID[h]] # NoEntry
    /\ Return(h, cache[userID[h]].user)
    /\ UNCHANGED <<tableVars, cache, requestVars, user, late>>

\* redis.Nil is not an error.
Miss(h) ==
    /\ pc[h] = "get"
    /\ cache[userID[h]] = NoEntry
    /\ pc' = [pc EXCEPT ![h] = "query"]
    /\ UNCHANGED <<tableVars, cache, requestVars, user, late, answer>>

\* Any other error of Users.Get ends the lookup.
GetFails(h) ==
    /\ pc[h] = "get"
    /\ RedisFails
    /\ Return(h, ErrorAnswer(h, "500"))
    /\ UNCHANGED <<tableVars, cache, requestVars, user, late>>

\* Users.GetById.
Query(h) ==
    /\ pc[h] = "query"
    /\ row[userID[h]] # "gone"
    /\ user' = [user EXCEPT ![h] = row[userID[h]]]
    /\ late' = [late EXCEPT ![h] = 0]
    /\ pc' = [pc EXCEPT ![h] = "set"]
    /\ UNCHANGED <<tableVars, cache, requestVars, answer>>

QueryFails(h) ==
    /\ pc[h] = "query"
    /\ \/ row[userID[h]] = "gone" /\ Return(h, ErrorAnswer(h, "404"))
       \/ QueriesFail /\ Return(h, ErrorAnswer(h, "500"))
    /\ UNCHANGED <<tableVars, cache, requestVars, user, late>>

ForgottenLifetime == TTL + 1

\* SETEX gives the key UserExpTime to live.
Lifetime == TTL

Cached(h) == [cache EXCEPT ![userID[h]] = [user |-> user[h], left |-> Lifetime]]

\* Users.Set, with the row as the query saw it.
Set(h) ==
    /\ pc[h] = "set"
    /\ CacheEnabled
    /\ cache' = Cached(h)
    /\ Return(h, user[h])
    /\ UNCHANGED <<tableVars, requestVars, user, late>>

\* An error of Users.Set ends the lookup too, although the user was found;
\* SETEX may have been executed.  Without a cache there is no client either:
\* Users.Set dereferences nil, and the Recoverer middleware answers.
SetFails(h) ==
    /\ pc[h] = "set"
    /\ CacheEnabled => RedisFails
    /\ cache' \in IF CacheEnabled THEN {cache, Cached(h)} ELSE {cache}
    /\ Return(h, IF CacheEnabled THEN ErrorAnswer(h, "500") ELSE "500")
    /\ UNCHANGED <<tableVars, requestVars, user, late>>

\* Activation, and the removal of a user whose invitation could not be mailed.
Change(u, s) ==
    /\ row[u] # "gone"
    /\ s # row[u] /\ s # "pending"
    /\ row' = [row EXCEPT ![u] = s]
    /\ since' = [since EXCEPT ![u] = [t \in Rows |-> IF t = s THEN 0 ELSE @[t]]]
    /\ UNCHANGED <<cache, pc, requestVars, user, late, answer>>

RenewedByTick(entry) == entry

LingersAfterTick(entry) ==
    IF entry = NoEntry THEN NoEntry ELSE [entry EXCEPT !.left = @ - 1]

EntryAfterTick(entry) ==
    IF entry = NoEntry \/ entry.left = 1
    THEN NoEntry
    ELSE [entry EXCEPT !.left = @ - 1]

\* Time passes, but not for longer than a handler may take.
Tick ==
    /\ \A h \in Handlers : pc[h] = "set" => late[h] < MaxDelay
    /\ since' = [u \in Users |-> [s \in Rows |->
                    IF s = row[u] \/ since[u][s] = Horizon
                    THEN since[u][s]
                    ELSE since[u][s] + 1]]
    /\ cache' = [u \in Users |-> EntryAfterTick(cache[u])]
    /\ late' = [h \in Handlers |-> IF pc[h] = "set" THEN late[h] + 1 ELSE late[h]]
    /\ UNCHANGED <<row, pc, requestVars, user, answer>>

Finish(h) == Query(h) \/ QueryFails(h) \/ Set(h) \/ SetFails(h)

Next == \/ \E h \in Handlers :
              \/ \E u \in Users, c \in Callers : Call(h, u, c)
              \/ Hit(h) \/ Miss(h) \/ GetFails(h)
              \/ Finish(h)
        \/ \E u \in Users, s \in {"active", "gone"} : Change(u, s)
        \/ Tick

Spec == Init /\ [][Next]_vars

\* Clocks do not stop, and a handler comes to its end: both the query and the
\* commands to Redis run under timeouts.
FairSpec == /\ Spec
            /\ WF_vars(Tick)
            /\ \A h \in Handlers : WF_vars(Finish(h))

-----------------------------------------------------------------------------
(* Properties *)

\* Rows, entries, lookups and clocks are well formed.
TypeOK == /\ row \in [Users -> Rows \cup {"gone"}]
          /\ since \in [Users -> [Rows -> 0..Horizon]]
          /\ cache \in [Users -> Entry \cup {NoEntry}]
          /\ pc \in [Handlers -> {"idle", "get", "query", "set"}]
          /\ caller \in [Handlers -> Callers]
          /\ userID \in [Handlers -> Users]
          /\ user \in [Handlers -> Rows]
          /\ late \in [Handlers -> 0..MaxDelay]
          /\ answer \in [Handlers -> Rows \cup Statuses]

\* An entry that is out of date is gone before it is older than its lifetime
\* and the delay of the handler that stored it.
EntriesExpire ==
    \A u \in Users :
        cache[u] # NoEntry =>
            since[u][cache[u].user] + cache[u].left <= TTL + MaxDelay

ServesRecentRow ==
    \A h \in Handlers :
        answer[h] = "none" /\ answer'[h] \in Rows =>
            since[userID[h]][answer'[h]] <= TTL + MaxDelay

\* A request runs as a user who was in this state at most TTL + MaxDelay ticks
\* ago, however lookups, activation and removal interleave: a removed user is
\* locked out, and an activated one is seen as active, after that time.
ServedRecently == [][ServesRecentRow]_vars

\* Once the rows have settled, the cache comes to agree with them for good.
CacheConverges == <>[](\A u \in Users : cache[u] # NoEntry => cache[u].user = row[u])

\* "Log the error, but continue to try the database": an error of the cache
\* does not end the lookup.
CacheErrorTriesDatabase ==
    [][\A h \in Handlers :
          pc[h] = "get" /\ pc'[h] = "idle" => answer'[h] \in Rows]_vars
=============================================================================
