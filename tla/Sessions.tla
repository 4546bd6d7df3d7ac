------------------------------ MODULE Sessions ------------------------------
(***************************************************************************)
(* Sessions and the tokens made from them: signInHandler and refreshToken  *)
(* (cmd/api/auth.go), SessionStore (internal/store/sessions.go) and        *)
(* TokenStore (internal/store/auth_token.go).                              *)
(*                                                                         *)
(* Tokens are not stored: a refresh token names a session and a version,   *)
(* and works while that row is there and has not expired; an access token  *)
(* works until its own expiry, whatever becomes of the session.  The       *)
(* expiry in a token is a whole second, that of a row is not.  The row is  *)
(* read, judged and deleted or extended in separate statements, and time   *)
(* passes and other handlers run in between.                               *)
(*                                                                         *)
(* These are the sessions of one user.  Registration may remove the user   *)
(* again (Accounts); no foreign key takes the sessions along, so that only *)
(* the join with users keeps them from being used.                         *)
(***************************************************************************)
EXTENDS Integers

CONSTANTS Ids,           \* ids of sessions
          Handlers,      \* requests that may run at once
          Second,        \* ticks of the clock in a second
          AccessTTL, RefreshTTL, RememberTTL,
          WriteTimeout,  \* of the HTTP server: a later answer is not sent
          MaxTime,       \* bound: the last tick of the clock
          LookupScans,   \* whether GetByEmail can scan the row it finds
          QueriesFail,   \* whether a statement may fail
          NoRow,
          stored,        \* stored[id]: rows of earlier deployments
          held           \* and the refresh tokens clients hold for them

Times == 0..MaxTime + RememberTTL

Never == MaxTime + 1

\* max_renewal_duration is 0 when it is NULL.
Row == [version : Nat, expires : Times, created : Times, remember : BOOLEAN,
        maxRenewal : Nat]

RefreshToken == [session : Ids, version : Nat, expires : Times]

ASSUME TimesAssumption == /\ MaxTime \in Nat /\ WriteTimeout \in Nat
                          /\ Second \in Nat \ {0}
                          /\ AccessTTL \in 0..RememberTTL
                          /\ RefreshTTL \in 1..RememberTTL
                          /\ RememberTTL \in Nat
ASSUME IdsAssumption == Ids # {}
ASSUME RowAssumption == NoRow \notin Row
ASSUME SwitchAssumption == LookupScans \in BOOLEAN /\ QueriesFail \in BOOLEAN
\* Versions start at the column's default, 1, and only grow.
ASSUME StoredAssumption ==
    /\ stored \in [Ids -> Row \cup {NoRow}]
    /\ \A i \in Ids : stored[i] # NoRow => /\ stored[i].expires # 0
                                          /\ stored[i].version # 0

\* The expiry of a token is computed after the row's and then cut to a second:
\* it may be any time after the row's, or less than a second before.
ASSUME HeldAssumption ==
    /\ held \subseteq RefreshToken
    /\ \A t \in held : /\ stored[t.session] # NoRow
                       /\ t.version = stored[t.session].version
                       /\ stored[t.session].expires < t.expires + Second

VARIABLES now,
          sessions,       \* sessions[id]: the row, or NoRow
          refreshTokens,  \* those that clients have received
          accessUntil,    \* accessUntil[id]: when the last access token for it expires
          pc,             \* pc[h]: "idle", "create", "tokens", "check", "delete",
                          \* "extend", "reply"
          started,        \* started[h]: when its request came in
          id,             \* id[h]: the session it is about
          row,            \* row[h]: that session as the handler knows it
          token,          \* token[h]: the refresh token of the request
          answer,
          removed,        \* when the user was removed, or Never
          expiry          \* history: the last expires_at of each session

vars == <<now, sessions, refreshTokens, accessUntil, pc, started, id, row, token, answer,
          removed, expiry>>
handedOut == <<refreshTokens, accessUntil>>
request == <<started, id, row, token>>

\* What an idle handler's variables hold.
NoToken == [session |-> CHOOSE i \in Ids : TRUE, version |-> 0, expires |-> 0]
BlankRow == [version |-> 0, expires |-> 0, created |-> 0, remember |-> FALSE, maxRenewal |-> 0]

-----------------------------------------------------------------------------
Init == /\ now = 0
        /\ sessions = stored
        /\ refreshTokens = held
        /\ accessUntil = [i \in Ids |-> 0]
        /\ pc = [h \in Handlers |-> "idle"]
        /\ started = [h \in Handlers |-> 0]
        /\ id = [h \in Handlers |-> NoToken.session]
        /\ row = [h \in Handlers |-> BlankRow]
        /\ token = [h \in Handlers |-> NoToken]
        /\ answer = [h \in Handlers |-> "none"]
        /\ removed = Never
        /\ expiry = [i \in Ids |-> IF stored[i] = NoRow THEN 0 ELSE stored[i].expires]

\* The handler answers and forgets the request.
Answer(h, a) == /\ pc' = [pc EXCEPT ![h] = "idle"]
                /\ answer' = [answer EXCEPT ![h] = a]
                /\ started' = [started EXCEPT ![h] = 0]
                /\ id' = [id EXCEPT ![h] = NoToken.session]
                /\ row' = [row EXCEPT ![h] = BlankRow]
                /\ token' = [token EXCEPT ![h] = NoToken]

\* A request comes in and its handler goes on to step s.
Begin(h, s) == /\ pc[h] = "idle"
               /\ pc' = [pc EXCEPT ![h] = s]
               /\ started' = [started EXCEPT ![h] = now]
               /\ answer' = [answer EXCEPT ![h] = "none"]

Present == removed = Never

\* signInHandler: a wrong address or password is a 404.  The lookup selects
\* nine columns and scans seven, which fails for every user it finds.
SignIn(h) ==
    /\ LookupScans
    /\ Present
    /\ Begin(h, "create")
    /\ UNCHANGED <<now, removed, sessions, handedOut, id, row, token, expiry>>

SignInFails(h) ==
    /\ pc[h] = "idle"
    /\ \/ Answer(h, "404")
       \/ (QueriesFail \/ (Present /\ ~LookupScans)) /\ Answer(h, "500")
    /\ UNCHANGED <<now, removed, sessions, handedOut, expiry>>

AddedTTL(remember) == IF remember THEN RefreshTTL + RememberTTL ELSE RefreshTTL

SessionTTL(remember) == IF remember THEN RememberTTL ELSE RefreshTTL

\* The columns CreateSession names; remember_me and max_renewal_duration keep
\* their defaults.
InsertedRow(expires) ==
    [version |-> 1, expires |-> expires, created |-> now, remember |-> FALSE, maxRenewal |-> 0]

\* A fresh uuid is none that a session ever had.
Fresh(i) == expiry[i] = 0

CreateSession(h, i, remember) ==
    /\ pc[h] = "create"
    /\ Fresh(i)
    /\ LET r == InsertedRow(now + SessionTTL(remember))
       IN  /\ sessions' = [sessions EXCEPT ![i] = r]
           /\ expiry' = [expiry EXCEPT ![i] = r.expires]
           /\ \/ /\ pc' = [pc EXCEPT ![h] = "tokens"]
                 /\ id' = [id EXCEPT ![h] = i]
                 /\ row' = [row EXCEPT ![h] = [r EXCEPT !.remember = remember]]
                 /\ UNCHANGED <<started, token, answer>>
              \/ QueriesFail /\ Answer(h, "500")  \* timed out, but in effect
    /\ UNCHANGED <<now, removed, handedOut>>

CreateSessionFails(h) ==
    /\ pc[h] = "create"
    /\ QueriesFail
    /\ Answer(h, "500")
    /\ UNCHANGED <<now, removed, sessions, handedOut, expiry>>

\* jwt.NewNumericDate, which the payload of each token passes its expiry through:
\* Truncate to the precision of the package, a second.
NumericDate(t) == Second * (t \div Second)

SentAtLast(h) == TRUE

\* The connection's write deadline has not passed.
Sent(h) == now <= started[h] + WriteTimeout

\* The response with a new access token for the session, and these refresh
\* tokens; the client receives it or not.
Reply(h, tokens) ==
    /\ Answer(h, "200")
    /\ IF Sent(h)
       THEN /\ accessUntil' = [accessUntil EXCEPT ![id[h]] = NumericDate(now + AccessTTL)]
            /\ refreshTokens' = refreshTokens \cup tokens
       ELSE UNCHANGED handedOut

\* The tokens made from the new session, whose copy has the version the INSERT
\* returned.
SignInReplies(h) ==
    /\ pc[h] = "tokens"
    /\ Reply(h, {[session |-> id[h], version |-> row[h].version,
                  expires |-> NumericDate(now + SessionTTL(row[h].remember))]})
    /\ UNCHANGED <<now, removed, sessions, expiry>>

\* WHERE id = $1 AND version = $2 finds the token's session.
Stored(t) == sessions[t.session] # NoRow /\ sessions[t.session].version = t.version

WithoutJoin(t) == Stored(t)

\* SELECT ... INNER JOIN users finds it, and its user.
Matches(t) == Stored(t) /\ Present

\* The SELECT has no version column, so the copy's version is Go's zero.
Scanned(r) == [r EXCEPT !.version = 0]

\* refreshToken with a token that decrypts (nothing looks at its expiry):
\* ValidateSession reads the row.
Refresh(h, t) ==
    /\ Matches(t)
    /\ Begin(h, "check")
    /\ token' = [token EXCEPT ![h] = t]
    /\ id' = [id EXCEPT ![h] = t.session]
    /\ row' = [row EXCEPT ![h] = Scanned(sessions[t.session])]
    /\ UNCHANGED <<now, removed, sessions, handedOut, expiry>>

\* There is no such row, or it cannot be read; a token that does not decrypt
\* gets the same answer.
RefreshRefused(h, t) ==
    /\ pc[h] = "idle"
    /\ ~Matches(t) \/ QueriesFail
    /\ Answer(h, "401")
    /\ UNCHANGED <<now, removed, sessions, handedOut, expiry>>

\* With a second of leeway.
ExpiredASecondAgo(r) == now > r.expires + Second

Expired(r) == now > r.expires

LastRenewal(r) == r.created + r.maxRenewal

MayRenew(r) == r.expires < LastRenewal(r)

\* ValidateSession judges the row it read.
Check(h) ==
    /\ pc[h] = "check"
    /\ pc' = [pc EXCEPT ![h] =
                 IF Expired(row[h]) THEN "delete"
                 ELSE IF ~row[h].remember THEN "reply"
                 ELSE IF MayRenew(row[h]) THEN "extend"
                 ELSE "delete"]
    /\ UNCHANGED <<now, removed, sessions, handedOut, request, answer, expiry>>

EverySession(i) == [j \in Ids |-> NoRow]

Without(i) == [sessions EXCEPT ![i] = NoRow]

\* InvalidateSession deletes by id; its error is ignored.
Invalidate(h) ==
    /\ pc[h] = "delete"
    /\ \/ sessions' = Without(id[h])
       \/ QueriesFail /\ UNCHANGED sessions
    /\ Answer(h, "401")
    /\ UNCHANGED <<now, removed, handedOut, expiry>>

RefreshReplies(h) ==
    /\ pc[h] = "reply"
    /\ Reply(h, {})
    /\ UNCHANGED <<now, removed, sessions, expiry>>

NewExpiry(r) ==
    IF now + RefreshTTL > LastRenewal(r) THEN LastRenewal(r) ELSE now + RefreshTTL

\* ExtendSessionAndGenerateRefreshToken: an UPDATE that compares the version
\* of the copy, and a token for the next version.
Extend(h) ==
    /\ pc[h] = "extend"
    /\ LET i == id[h]
           next == row[h].version + 1
       IN  IF Stored([session |-> i, version |-> row[h].version])
           THEN /\ sessions' = [sessions EXCEPT ![i].version = next,
                                                ![i].expires = NewExpiry(row[h])]
                /\ expiry' = [expiry EXCEPT ![i] = NewExpiry(row[h])]
                /\ Reply(h, {[session |-> i, version |-> next,
                              expires |-> NumericDate(now + RefreshTTL)]})
           ELSE /\ Answer(h, "500")
                /\ UNCHANGED <<sessions, expiry, handedOut>>
    /\ UNCHANGED <<now, removed>>

\* UserStore.Delete, called by a registration whose mail could not be sent.
RemoveUser == /\ Present
              /\ removed' = now
              /\ UNCHANGED <<now, sessions, handedOut, pc, request, answer, expiry>>

Tick == /\ now < MaxTime
        /\ now' = now + 1
        /\ UNCHANGED <<sessions, handedOut, pc, request, answer, removed, expiry>>

Next == \/ \E h \in Handlers :
              \/ SignIn(h) \/ SignInFails(h) \/ CreateSessionFails(h) \/ SignInReplies(h)
              \/ \E i \in Ids, remember \in BOOLEAN : CreateSession(h, i, remember)
              \/ \E t \in refreshTokens : Refresh(h, t) \/ RefreshRefused(h, t)
              \/ Check(h) \/ Invalidate(h) \/ RefreshReplies(h) \/ Extend(h)
        \/ RemoveUser
        \/ Tick

Spec == Init /\ [][Next]_vars

-----------------------------------------------------------------------------
(* Properties *)

\* Rows, tokens and handlers are well formed.
TypeOK == /\ now \in 0..MaxTime
          /\ sessions \in [Ids -> Row \cup {NoRow}]
          /\ refreshTokens \subseteq RefreshToken
          /\ accessUntil \in [Ids -> Times]
          /\ pc \in [Handlers -> {"idle", "create", "tokens", "check", "delete", "extend",
                                  "reply"}]
          /\ started \in [Handlers -> 0..now]
          /\ id \in [Handlers -> Ids]
          /\ row \in [Handlers -> Row]
          /\ token \in [Handlers -> RefreshToken]
          /\ answer \in [Handlers -> {"none", "200", "401", "404", "500"}]
          /\ removed \in 0..now \cup {Never}
          /\ expiry \in [Ids -> Times]

\* Nothing calls RefreshPayload.Valid, so that a refresh token whose own expiry
\* has passed can be honoured; but its session stands in for it, and ends less
\* than a second after the expiry that the token says.
OverrunsLessThanSecond ==
    [][\A h \in Handlers :
          pc[h] = "check" /\ pc'[h] \in {"reply", "extend"}
              => now < token[h].expires + Second]_vars

\* An access token cannot be revoked, but none that a client receives outlives
\* its session by more than the server's write timeout and its own lifetime,
\* however slowly the handler that made it ran.
AccessEndsWithSession ==
    \A i \in Ids : accessUntil[i] # 0 => accessUntil[i] <= expiry[i] + WriteTimeout + AccessTTL

\* Nor does it outlive its user by more than that: the sessions of a removed user
\* stay, and a sign-in under way even makes one, but no refresh finds them.
AccessEndsWithUser ==
    \A i \in Ids : accessUntil[i] # 0 => accessUntil[i] <= removed + WriteTimeout + AccessTTL

\* A session to be remembered whose renewals are used up is deleted when it is
\* next used.  Only rows of earlier deployments are: CreateSession makes none.
Spent(i) == stored[i] # NoRow /\ stored[i].remember /\ ~MayRenew(stored[i])

\* A client keeps its session until it expires, its renewals are used up or the
\* user is removed: no other request, however it fails or whatever it deletes,
\* takes the row away.
TokensStayUsable ==
    \A t \in refreshTokens :
        now <= expiry[t.session] /\ Present /\ ~Spent(t.session) => Matches(t)
=============================================================================
