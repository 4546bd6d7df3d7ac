--------------------------- MODULE SessionsProofs ---------------------------
(***************************************************************************)
(* Proofs about Sessions: how long tokens work, and that no other request  *)
(* takes a client's session away, for any number of sessions and handlers  *)
(* and any lifetimes.                                                      *)
(***************************************************************************)
EXTENDS Sessions, TLAPS

-----------------------------------------------------------------------------
(* What the constants and the operators give. *)

LEMMA TimeFacts ==
    /\ MaxTime \in Nat /\ RememberTTL \in Nat /\ RefreshTTL \in Nat /\ AccessTTL \in Nat
    /\ WriteTimeout \in Nat /\ Second \in Nat
    /\ AccessTTL <= RememberTTL /\ RefreshTTL <= RememberTTL /\ 0 < RefreshTTL
    /\ Times \subseteq Nat
    /\ Never = MaxTime + 1
  BY TimesAssumption DEF Times, Never

\* A session made now expires later, within the range of times.
LEMMA TTLFacts ==
    ASSUME NEW t \in 0..MaxTime, NEW remember \in BOOLEAN
    PROVE  /\ SessionTTL(remember) \in Nat
           /\ t + SessionTTL(remember) \in Times
           /\ t < t + SessionTTL(remember)
  BY TimeFacts DEF SessionTTL, Times

\* Cutting an expiry to a second takes less than a second off.
LEMMA NumericDateFacts ==
    ASSUME NEW t \in Nat
    PROVE  /\ NumericDate(t) \in Nat
           /\ NumericDate(t) <= t
           /\ t < NumericDate(t) + Second
           /\ t \in Times => NumericDate(t) \in Times
<1> DEFINE d == NumericDate(t)
<1>1. Second \in Nat \ {0}
  BY TimesAssumption
<1>2. d \in Int /\ d <= t /\ t < d + Second
  BY <1>1 DEF NumericDate
<1>3. 0 <= d
  <2>1. t \div Second \in Nat
    BY <1>1
  <2>2. ASSUME NEW a \in Nat, NEW b \in Nat PROVE a * b \in Nat
    OBVIOUS
  <2> QED
    BY <1>1, <2>1, <2>2 DEF NumericDate
<1> QED
  BY <1>2, <1>3, TimesAssumption DEF Times

LEMMA BlankFacts == /\ NoToken \in RefreshToken /\ NoToken.session \in Ids
                    /\ BlankRow \in Row
<1>1. (CHOOSE i \in Ids : TRUE) \in Ids
  BY IdsAssumption
<1> QED
  BY <1>1, TimeFacts DEF NoToken, RefreshToken, BlankRow, Row, Times

LEMMA ScannedFacts ==
    ASSUME NEW r \in Row
    PROVE  /\ Scanned(r) \in Row
           /\ Scanned(r).version = 0
           /\ Scanned(r).expires = r.expires
           /\ Scanned(r).remember = r.remember
           /\ MayRenew(Scanned(r)) <=> MayRenew(r)
  BY DEF Scanned, Row, MayRenew, LastRenewal

-----------------------------------------------------------------------------
(* Type correctness. *)

LEMMA TypeInit == Init => TypeOK
<1> SUFFICES ASSUME Init PROVE TypeOK
  OBVIOUS
<1>1. expiry \in [Ids -> Times]
  BY StoredAssumption, TimeFacts DEF Init, Row, Times
<1>2. accessUntil \in [Ids -> Times]
  BY TimeFacts DEF Init, Times
<1>3. refreshTokens \subseteq RefreshToken
  BY HeldAssumption DEF Init
<1>4. now \in 0..MaxTime /\ removed \in 0..now \cup {Never}
  BY TimeFacts DEF Init
<1>5. started \in [Handlers -> 0..now]
  BY DEF Init
<1> QED
  BY <1>1, <1>2, <1>3, <1>4, <1>5, BlankFacts, StoredAssumption DEF Init, TypeOK

\* A reply's access token and refresh tokens have times in range.
LEMMA ReplyType ==
    ASSUME TypeOK, NEW h \in Handlers, NEW tokens \in SUBSET RefreshToken,
           Reply(h, tokens)
    PROVE  /\ refreshTokens' \subseteq RefreshToken
           /\ accessUntil' \in [Ids -> Times]
<1>1. now + AccessTTL \in Times /\ now + AccessTTL \in Nat
  BY TimeFacts DEF TypeOK, Times
<1>2. NumericDate(now + AccessTTL) \in Times
  BY <1>1, NumericDateFacts
<1> QED
  BY <1>2 DEF TypeOK, Reply, handedOut

LEMMA AnswerType ==
    ASSUME TypeOK, NEW h \in Handlers, NEW a \in {"200", "401", "404", "500"},
           Answer(h, a), UNCHANGED now
    PROVE  /\ pc' \in [Handlers -> {"idle", "create", "tokens", "check", "delete", "extend",
                                    "reply"}]
           /\ started' \in [Handlers -> 0..now']
           /\ id' \in [Handlers -> Ids]
           /\ row' \in [Handlers -> Row]
           /\ token' \in [Handlers -> RefreshToken]
           /\ answer' \in [Handlers -> {"none", "200", "401", "404", "500"}]
<1>1. 0 \in 0..now
  BY TimeFacts DEF TypeOK
<1> QED
  BY <1>1, BlankFacts DEF TypeOK, Answer

LEMMA BeginType ==
    ASSUME TypeOK, NEW h \in Handlers, NEW s \in {"create", "check"},
           Begin(h, s), UNCHANGED now
    PROVE  /\ pc' \in [Handlers -> {"idle", "create", "tokens", "check", "delete", "extend",
                                    "reply"}]
           /\ started' \in [Handlers -> 0..now']
           /\ answer' \in [Handlers -> {"none", "200", "401", "404", "500"}]
<1>1. now \in 0..now
  BY TimeFacts DEF TypeOK
<1> QED
  BY <1>1 DEF TypeOK, Begin

LEMMA NewExpiryType ==
    ASSUME TypeOK, NEW r \in Row
    PROVE  NewExpiry(r) \in Times
<1>1. LastRenewal(r) \in Nat
  BY TimeFacts DEF LastRenewal, Row, Times
<1> QED
  BY <1>1, TimeFacts DEF NewExpiry, TypeOK, Times

LEMMA TypeStep == TypeOK /\ [Next]_vars => TypeOK'
<1> SUFFICES ASSUME TypeOK, [Next]_vars PROVE TypeOK'
  OBVIOUS
<1> USE DEF handedOut, request
<1>1. ASSUME NEW h \in Handlers, SignIn(h) PROVE TypeOK'
  <2>1. Begin(h, "create")
    BY <1>1 DEF SignIn
  <2> QED
    BY <1>1, <2>1, BeginType DEF SignIn, TypeOK
<1>2. ASSUME NEW h \in Handlers, SignInFails(h) PROVE TypeOK'
  <2>1. PICK a \in {"404", "500"} : Answer(h, a)
    BY <1>2 DEF SignInFails
  <2> QED
    BY <1>2, <2>1, AnswerType DEF SignInFails, TypeOK
<1>3. ASSUME NEW h \in Handlers, CreateSessionFails(h) PROVE TypeOK'
  BY <1>3, AnswerType DEF CreateSessionFails, TypeOK
<1>4. ASSUME NEW h \in Handlers, SignInReplies(h) PROVE TypeOK'
  <2> DEFINE t == [session |-> id[h], version |-> row[h].version,
                   expires |-> NumericDate(now + SessionTTL(row[h].remember))]
  <2>1. t \in RefreshToken
    <3>1. now + SessionTTL(row[h].remember) \in Times
      BY TTLFacts DEF TypeOK, Row
    <3>2. NumericDate(now + SessionTTL(row[h].remember)) \in Times
      BY <3>1, TimeFacts, NumericDateFacts
    <3> QED
      BY <3>2 DEF TypeOK, RefreshToken, Row
  <2>2. Reply(h, {t}) /\ Answer(h, "200")
    BY <1>4 DEF SignInReplies, Reply
  <2> HIDE DEF t
  <2> QED
    BY <1>4, <2>1, <2>2, ReplyType, AnswerType DEF SignInReplies, TypeOK
<1>5. ASSUME NEW h \in Handlers, NEW i \in Ids, NEW remember \in BOOLEAN,
             CreateSession(h, i, remember)
      PROVE  TypeOK'
  <2> DEFINE r == InsertedRow(now + SessionTTL(remember))
  <2>1. /\ r \in Row /\ r.expires \in Times
        /\ [r EXCEPT !.remember = remember] \in Row
    BY TTLFacts, TimeFacts DEF TypeOK, InsertedRow, Row, Times
  <2>2. /\ sessions' = [sessions EXCEPT ![i] = r]
        /\ expiry' = [expiry EXCEPT ![i] = r.expires]
        /\ \/ /\ pc' = [pc EXCEPT ![h] = "tokens"]
              /\ id' = [id EXCEPT ![h] = i]
              /\ row' = [row EXCEPT ![h] = [r EXCEPT !.remember = remember]]
              /\ UNCHANGED <<started, token, answer>>
           \/ Answer(h, "500")
        /\ UNCHANGED <<now, removed, handedOut>>
    BY <1>5 DEF CreateSession
  <2> HIDE DEF r
  <2>3. CASE Answer(h, "500")
    BY <2>1, <2>2, <2>3, AnswerType DEF TypeOK
  <2>4. CASE ~Answer(h, "500")
    BY <2>1, <2>2, <2>4 DEF TypeOK
  <2> QED
    BY <2>3, <2>4
<1>6. ASSUME NEW h \in Handlers, NEW t \in refreshTokens, Refresh(h, t) PROVE TypeOK'
  <2>1. t \in RefreshToken /\ t.session \in Ids
    BY DEF TypeOK, RefreshToken
  <2>2. Scanned(sessions[t.session]) \in Row
    BY <1>6, <2>1, ScannedFacts DEF Refresh, Matches, Stored, TypeOK
  <2> QED
    BY <1>6, <2>1, <2>2, BeginType DEF Refresh, TypeOK
<1>7. ASSUME NEW h \in Handlers, NEW t \in refreshTokens, RefreshRefused(h, t)
      PROVE  TypeOK'
  BY <1>7, AnswerType DEF RefreshRefused, TypeOK
<1>8. ASSUME NEW h \in Handlers, Check(h) PROVE TypeOK'
  BY <1>8 DEF Check, TypeOK
<1>9. ASSUME NEW h \in Handlers, Invalidate(h) PROVE TypeOK'
  BY <1>9, AnswerType DEF Invalidate, Without, TypeOK
<1>10. ASSUME NEW h \in Handlers, RefreshReplies(h) PROVE TypeOK'
  <2>1. Reply(h, {}) /\ Answer(h, "200")
    BY <1>10 DEF RefreshReplies, Reply
  <2> QED
    BY <1>10, <2>1, ReplyType, AnswerType DEF RefreshReplies, TypeOK
<1>11. ASSUME NEW h \in Handlers, Extend(h) PROVE TypeOK'
  <2> DEFINE next == row[h].version + 1
             t == [session |-> id[h], version |-> next,
                   expires |-> NumericDate(now + RefreshTTL)]
  <2>1. next \in Nat /\ t \in RefreshToken
    <3>1. now + RefreshTTL \in Times
      BY TimeFacts DEF TypeOK, Times
    <3>2. NumericDate(now + RefreshTTL) \in Times
      BY <3>1, TimeFacts, NumericDateFacts
    <3> QED
      BY <3>2 DEF TypeOK, RefreshToken, Row
  <2>2. NewExpiry(row[h]) \in Times
    BY NewExpiryType DEF TypeOK
  <2>3. ASSUME sessions[id[h]] # NoRow,
               sessions' = [sessions EXCEPT ![id[h]].version = next,
                                            ![id[h]].expires = NewExpiry(row[h])]
        PROVE  sessions' \in [Ids -> Row \cup {NoRow}]
    <3>1. sessions[id[h]] \in Row /\ id[h] \in Ids
      BY <2>3 DEF TypeOK
    <3>2. sessions'[id[h]]
            = [sessions[id[h]] EXCEPT !.version = next, !.expires = NewExpiry(row[h])]
      BY <2>3, <3>1 DEF TypeOK
    <3>3. [sessions[id[h]] EXCEPT !.version = next, !.expires = NewExpiry(row[h])] \in Row
      BY <2>1, <2>2, <3>1 DEF Row
    <3> QED
      BY <2>3, <3>1, <3>2, <3>3 DEF TypeOK
  <2>4. CASE Answer(h, "500") /\ UNCHANGED <<sessions, expiry, handedOut>>
    BY <1>11, <2>4, AnswerType DEF Extend, TypeOK
  <2>5. CASE /\ sessions[id[h]] # NoRow
             /\ sessions' = [sessions EXCEPT ![id[h]].version = next,
                                             ![id[h]].expires = NewExpiry(row[h])]
             /\ expiry' = [expiry EXCEPT ![id[h]] = NewExpiry(row[h])]
             /\ Reply(h, {t})
    <3>1. Answer(h, "200")
      BY <2>5 DEF Reply
    <3> HIDE DEF next, t
    <3> QED
      BY <1>11, <2>1, <2>2, <2>3, <2>5, <3>1, ReplyType, AnswerType DEF Extend, TypeOK
  <2> QED
    BY <1>11, <2>4, <2>5 DEF Extend, Stored
<1>12. CASE RemoveUser
  BY <1>12, TimeFacts DEF RemoveUser, TypeOK
<1>13. CASE Tick
  BY <1>13, TimeFacts DEF Tick, TypeOK
<1>14. CASE UNCHANGED vars
  BY <1>14 DEF vars, TypeOK
<1> QED
  BY <1>1, <1>2, <1>3, <1>4, <1>5, <1>6, <1>7, <1>8, <1>9, <1>10, <1>11, <1>12,
     <1>13, <1>14 DEF Next

\* Every expiry a row or a token gets is a time the clock and the lifetimes
\* allow, and a handler's copies are rows and tokens.
THEOREM TypeCorrect == Spec => []TypeOK
  BY TypeInit, TypeStep, PTL DEF Spec

-----------------------------------------------------------------------------
(* The inductive invariant: what ties a handler's copies, the tokens that   *)
(* clients hold and the answers already given to the rows.                  *)

\* A row is as it was stored or as CreateSession made it: its version is one
\* that no scanned copy has, and only an old row is to be remembered.
RowsInv ==
    \A i \in Ids :
        sessions[i] # NoRow => /\ sessions[i].version # 0
                               /\ sessions[i].expires = expiry[i]
                               /\ expiry[i] # 0
                               /\ sessions[i].remember => sessions[i] = stored[i]

\* Session i is there in version v for as long as nothing but the clock, its
\* renewals or its user may end it.
Kept(i, v) ==
    now <= expiry[i] /\ ~Spent(i) => sessions[i] # NoRow /\ sessions[i].version = v

\* A session ends less than a second after the expiry its token says.
TokensInv ==
    \A t \in refreshTokens : /\ expiry[t.session] # 0
                             /\ expiry[t.session] < t.expires + Second
                             /\ Kept(t.session, t.version)

\* The user was there when the request came in.
ArrivedInv == \A h \in Handlers : pc[h] # "idle" => started[h] <= removed

\* A sign-in that made its session.
SignInInv ==
    \A h \in Handlers :
        pc[h] = "tokens" => /\ expiry[id[h]] # 0
                            /\ started[h] <= expiry[id[h]]
                            /\ expiry[id[h]] <= now + SessionTTL(row[h].remember)
                            /\ Kept(id[h], row[h].version)

\* A refresh that read its session: the copy has the row's expiry, whatever
\* became of the row, and is judged by it.
RefreshInv ==
    \A h \in Handlers :
        /\ pc[h] \in {"check", "delete", "extend", "reply"} =>
              /\ expiry[id[h]] # 0
              /\ row[h].version = 0
              /\ row[h].expires = expiry[id[h]]
              /\ row[h].remember => /\ stored[id[h]] # NoRow
                                    /\ row[h] = Scanned(stored[id[h]])
        /\ pc[h] = "check" => expiry[id[h]] < token[h].expires + Second
        /\ pc[h] = "delete" => expiry[id[h]] < now \/ Spent(id[h])
        /\ pc[h] \in {"extend", "reply"} => started[h] <= expiry[id[h]]

\* An access token was made from a session, at some time that has passed.
AccessInv ==
    \A i \in Ids :
        accessUntil[i] # 0 => expiry[i] # 0 /\ accessUntil[i] <= now + AccessTTL

IInv == /\ TypeOK
        /\ RowsInv
        /\ TokensInv
        /\ ArrivedInv
        /\ SignInInv
        /\ RefreshInv
        /\ AccessInv
        /\ AccessEndsWithSession
        /\ AccessEndsWithUser

LEMMA IInvInit == Init => IInv
<1> SUFFICES ASSUME Init PROVE IInv
  OBVIOUS
<1>1. TypeOK
  BY TypeInit
<1>2. RowsInv
  BY StoredAssumption DEF Init, RowsInv
<1>3. TokensInv
  <2> SUFFICES ASSUME NEW t \in held
               PROVE  /\ expiry[t.session] # 0
                      /\ expiry[t.session] < t.expires + Second
                      /\ Kept(t.session, t.version)
    BY DEF Init, TokensInv
  <2>1. t.session \in Ids /\ stored[t.session] # NoRow
    BY HeldAssumption DEF RefreshToken
  <2>2. expiry[t.session] = stored[t.session].expires
    BY <2>1 DEF Init
  <2> QED
    BY <2>1, <2>2, HeldAssumption, StoredAssumption DEF Init, Kept
<1>4. ArrivedInv /\ SignInInv /\ RefreshInv
  BY DEF Init, ArrivedInv, SignInInv, RefreshInv
<1>5. AccessInv /\ AccessEndsWithSession /\ AccessEndsWithUser
  BY DEF Init, AccessInv, AccessEndsWithSession, AccessEndsWithUser
<1> QED
  BY <1>1, <1>2, <1>3, <1>4, <1>5 DEF IInv

-----------------------------------------------------------------------------
(* Renewal *)

\* The copy a renewal compares was scanned without its version, and no row has
\* the version it holds: the UPDATE matches nothing.
LEMMA ExtendFails ==
    ASSUME IInv, NEW h \in Handlers, Extend(h)
    PROVE  /\ Answer(h, "500")
           /\ UNCHANGED <<now, removed, sessions, expiry, handedOut>>
<1>1. row[h].version = 0 /\ id[h] \in Ids
  BY DEF IInv, TypeOK, RefreshInv, Extend
<1>2. ~Stored([session |-> id[h], version |-> row[h].version])
  BY <1>1 DEF Stored, IInv, RowsInv
<1> QED
  BY <1>2 DEF Extend

-----------------------------------------------------------------------------
(* Rows and tokens *)

LEMMA RowsStep == IInv /\ TypeOK' /\ [Next]_vars => RowsInv'
<1> SUFFICES ASSUME IInv, TypeOK', [Next]_vars PROVE RowsInv'
  OBVIOUS
<1> USE DEF RowsInv, IInv
<1>1. CASE UNCHANGED <<sessions, expiry>>
  BY <1>1
<1>2. ASSUME NEW h \in Handlers, NEW i \in Ids, NEW remember \in BOOLEAN,
             CreateSession(h, i, remember)
      PROVE  RowsInv'
  <2>1. now + SessionTTL(remember) \in Nat \ {0}
    BY TTLFacts, TimeFacts DEF TypeOK, Times
  <2> QED
    BY <1>2, <2>1 DEF CreateSession, InsertedRow, TypeOK
<1>3. ASSUME NEW h \in Handlers, Invalidate(h) PROVE RowsInv'
  BY <1>3 DEF Invalidate, Without, TypeOK
<1>4. ASSUME NEW h \in Handlers, Extend(h) PROVE RowsInv'
  BY <1>4, <1>1, ExtendFails
<1> QED
  BY <1>1, <1>2, <1>3, <1>4
  DEF Next, SignIn, SignInFails, CreateSessionFails, SignInReplies, Refresh,
      RefreshRefused, Check, RefreshReplies, RemoveUser, Tick, vars

\* Once made, a session has one expiry, and nothing but the clock, its spent
\* renewals or its user takes it away.
LEMMA KeptStep ==
    ASSUME IInv, TypeOK', [Next]_vars, NEW i \in Ids, expiry[i] # 0
    PROVE  /\ expiry'[i] = expiry[i]
           /\ \A v : Kept(i, v) => Kept(i, v)'
<1> USE DEF Kept, Spent, MayRenew, LastRenewal
<1>0. now \in Nat /\ now' \in Nat /\ expiry[i] \in Nat
  BY TimeFacts DEF IInv, TypeOK, Times
<1>1. CASE UNCHANGED <<now, sessions, expiry>>
  BY <1>1
<1>2. ASSUME NEW h \in Handlers, NEW j \in Ids, NEW remember \in BOOLEAN,
             CreateSession(h, j, remember)
      PROVE  /\ expiry'[i] = expiry[i]
             /\ \A v : Kept(i, v) => Kept(i, v)'
  BY <1>2 DEF CreateSession, Fresh, IInv, TypeOK
<1>3. ASSUME NEW h \in Handlers, Invalidate(h)
      PROVE  /\ expiry'[i] = expiry[i]
             /\ \A v : Kept(i, v) => Kept(i, v)'
  \* The deleted session is the one the handler judged.
  <2>1. i = id[h] => expiry[i] < now \/ Spent(i)
    BY <1>3 DEF Invalidate, IInv, RefreshInv
  <2>2. i # id[h] => sessions'[i] = sessions[i]
    BY <1>3 DEF Invalidate, Without, IInv, TypeOK
  <2>3. UNCHANGED <<now, expiry>>
    BY <1>3 DEF Invalidate
  <2> QED
    BY <1>0, <2>1, <2>2, <2>3
<1>4. ASSUME NEW h \in Handlers, Extend(h)
      PROVE  /\ expiry'[i] = expiry[i]
             /\ \A v : Kept(i, v) => Kept(i, v)'
  BY <1>4, <1>1, ExtendFails
<1>5. CASE Tick
  BY <1>0, <1>5 DEF Tick
<1> QED
  BY <1>1, <1>2, <1>3, <1>4, <1>5
  DEF Next, SignIn, SignInFails, CreateSessionFails, SignInReplies, Refresh,
      RefreshRefused, Check, RefreshReplies, RemoveUser, vars

LEMMA TokensStep == IInv /\ TypeOK' /\ [Next]_vars => TokensInv'
<1> SUFFICES ASSUME IInv, TypeOK', [Next]_vars, NEW t \in refreshTokens'
             PROVE  /\ expiry'[t.session] # 0
                    /\ expiry'[t.session] < t.expires + Second
                    /\ Kept(t.session, t.version)'
  BY DEF TokensInv
<1>0. t.session \in Ids
  BY DEF TypeOK, RefreshToken
<1>1. CASE t \in refreshTokens
  <2>1. /\ expiry[t.session] # 0
        /\ expiry[t.session] < t.expires + Second
        /\ Kept(t.session, t.version)
    BY <1>1 DEF IInv, TokensInv
  <2> QED
    BY <1>0, <2>1, KeptStep
<1>2. CASE t \notin refreshTokens
  \* Only a sign-in hands out a token.
  <2>1. PICK h \in Handlers : SignInReplies(h)
    <3>1. ASSUME NEW h \in Handlers, Extend(h) PROVE FALSE
      BY <1>2, <3>1, ExtendFails DEF handedOut
    <3> QED
      BY <1>2, <3>1
      DEF Next, SignIn, SignInFails, CreateSessionFails, CreateSession, Refresh,
          RefreshRefused, Check, Invalidate, RefreshReplies, Reply, RemoveUser, Tick,
          vars, handedOut
  <2>2. /\ t.session = id[h] /\ t.version = row[h].version
        /\ t.expires = NumericDate(now + SessionTTL(row[h].remember))
        /\ pc[h] = "tokens"
    BY <1>2, <2>1 DEF SignInReplies, Reply, handedOut
  <2>3. /\ expiry[id[h]] # 0
        /\ expiry[id[h]] < t.expires + Second
        /\ Kept(id[h], row[h].version)
    <3>1. /\ expiry[id[h]] # 0
          /\ expiry[id[h]] <= now + SessionTTL(row[h].remember)
          /\ Kept(id[h], row[h].version)
      BY <2>2 DEF IInv, SignInInv
    <3>2. now + SessionTTL(row[h].remember) \in Times /\ expiry[id[h]] \in Times
      BY TTLFacts DEF IInv, TypeOK, Row
    <3>3. /\ now + SessionTTL(row[h].remember) < t.expires + Second
          /\ t.expires \in Nat
      BY <2>2, <3>2, TimeFacts, NumericDateFacts
    <3>4. ASSUME NEW e \in Nat, NEW a \in Nat, NEW x \in Nat,
                 e <= a, a < x + Second
          PROVE  e < x + Second
      BY <3>4, TimeFacts
    <3> QED
      BY <3>1, <3>2, <3>3, <3>4, TimeFacts
  <2> QED
    BY <1>0, <2>2, <2>3, KeptStep
<1> QED
  BY <1>1, <1>2

-----------------------------------------------------------------------------
(* Handlers *)

\* A handler that stays where it is keeps what it knows.
LEMMA HandlerFrame ==
    ASSUME TypeOK, [Next]_vars, NEW h \in Handlers, pc'[h] = pc[h], pc[h] # "idle"
    PROVE  /\ started'[h] = started[h] /\ id'[h] = id[h]
           /\ row'[h] = row[h] /\ token'[h] = token[h]
<1> USE DEF TypeOK, request
<1>1. ASSUME NEW g \in Handlers, NEW a, Answer(g, a)
      PROVE  /\ started'[h] = started[h] /\ id'[h] = id[h]
             /\ row'[h] = row[h] /\ token'[h] = token[h]
  BY <1>1 DEF Answer
<1>2. ASSUME NEW g \in Handlers, NEW s, Begin(g, s),
             UNCHANGED <<id, row, token>>
             \/ \E i, r, t : /\ id' = [id EXCEPT ![g] = i]
                            /\ row' = [row EXCEPT ![g] = r]
                            /\ token' = [token EXCEPT ![g] = t]
      PROVE  /\ started'[h] = started[h] /\ id'[h] = id[h]
             /\ row'[h] = row[h] /\ token'[h] = token[h]
  <2>1. g # h
    BY <1>2 DEF Begin
  <2> QED
    BY <1>2, <2>1 DEF Begin
<1>3. ASSUME NEW g \in Handlers, NEW i \in Ids, NEW remember \in BOOLEAN,
             CreateSession(g, i, remember)
      PROVE  /\ started'[h] = started[h] /\ id'[h] = id[h]
             /\ row'[h] = row[h] /\ token'[h] = token[h]
  BY <1>1, <1>3 DEF CreateSession
<1>4. ASSUME NEW g \in Handlers, SignIn(g) \/ \E t \in refreshTokens : Refresh(g, t)
      PROVE  /\ started'[h] = started[h] /\ id'[h] = id[h]
             /\ row'[h] = row[h] /\ token'[h] = token[h]
  BY <1>2, <1>4 DEF SignIn, Refresh
<1>5. CASE UNCHANGED request
  BY <1>5
<1> QED
  BY <1>1, <1>3, <1>4, <1>5
  DEF Next, SignInFails, CreateSessionFails, SignInReplies, Reply, RefreshRefused,
      Check, Invalidate, RefreshReplies, Extend, RemoveUser, Tick, vars

\* How a handler comes to each of its steps.
LEMMA HandlerMoves ==
    ASSUME TypeOK, [Next]_vars, NEW h \in Handlers, pc'[h] # pc[h], pc'[h] # "idle"
    PROVE  \/ pc'[h] = "create" /\ SignIn(h)
           \/ /\ pc'[h] = "tokens"
              /\ \E i \in Ids, remember \in BOOLEAN : CreateSession(h, i, remember)
           \/ pc'[h] = "check" /\ \E t \in refreshTokens : Refresh(h, t)
           \/ pc'[h] \in {"delete", "extend", "reply"} /\ Check(h)
<1> USE DEF TypeOK, request
<1>1. ASSUME NEW g \in Handlers, NEW a, Answer(g, a) PROVE FALSE
  BY <1>1 DEF Answer
<1>2. ASSUME NEW g \in Handlers, NEW i \in Ids, NEW remember \in BOOLEAN,
             CreateSession(g, i, remember)
      PROVE  pc'[h] = "tokens" /\ CreateSession(h, i, remember)
  BY <1>1, <1>2 DEF CreateSession
<1>3. ASSUME NEW g \in Handlers, SignIn(g)
      PROVE  pc'[h] = "create" /\ SignIn(h)
  BY <1>3 DEF SignIn, Begin
<1>4. ASSUME NEW g \in Handlers, NEW t \in refreshTokens, Refresh(g, t)
      PROVE  pc'[h] = "check" /\ Refresh(h, t)
  BY <1>4 DEF Refresh, Begin
<1>5. ASSUME NEW g \in Handlers, Check(g)
      PROVE  pc'[h] \in {"delete", "extend", "reply"} /\ Check(h)
  BY <1>5 DEF Check
<1> QED
  BY <1>1, <1>2, <1>3, <1>4, <1>5
  DEF Next, SignInFails, CreateSessionFails, SignInReplies, Reply, RefreshRefused,
      Invalidate, RefreshReplies, Extend, RemoveUser, Tick, vars

\* Time does not run back, and the user is removed once, at the present time.
LEMMA ClockStep ==
    ASSUME TypeOK, [Next]_vars
    PROVE  /\ now \in 0..MaxTime /\ now <= now'
           /\ \/ removed' = removed
              \/ removed' = now /\ UNCHANGED <<now, pc, started, accessUntil, expiry>>
<1>0. now \in 0..MaxTime /\ MaxTime \in Nat
  BY TimeFacts DEF TypeOK
<1>1. CASE Tick
  BY <1>0, <1>1 DEF Tick
<1>2. CASE RemoveUser
  BY <1>0, <1>2 DEF RemoveUser, request, handedOut
<1>3. CASE UNCHANGED <<now, removed>>
  BY <1>0, <1>3
<1> QED
  BY <1>1, <1>2, <1>3
  DEF Next, SignIn, SignInFails, CreateSessionFails, CreateSession, SignInReplies,
      Refresh, RefreshRefused, Check, Invalidate, RefreshReplies, Extend, vars

LEMMA ArrivedStep == IInv /\ TypeOK' /\ [Next]_vars => ArrivedInv'
<1> SUFFICES ASSUME IInv, TypeOK', [Next]_vars, NEW h \in Handlers, pc'[h] # "idle"
             PROVE  started'[h] <= removed'
  BY DEF ArrivedInv
<1>t. /\ now \in Nat /\ now <= MaxTime /\ now < Never
      /\ started[h] \in 0..now
      /\ removed \in Nat
  BY TimeFacts DEF IInv, TypeOK
<1>1. CASE removed' = now /\ UNCHANGED <<now, pc, started, accessUntil, expiry>>
  BY <1>1, <1>t
<1>2. CASE removed' = removed /\ pc'[h] = pc[h]
  BY <1>2, HandlerFrame DEF IInv, ArrivedInv
<1>3. CASE removed' = removed /\ pc'[h] # pc[h]
  <2>1. CASE Present /\ \E s : Begin(h, s)
    BY <1>3, <1>t, <2>1 DEF Present, Begin, IInv, TypeOK
  <2>2. CASE pc[h] # "idle" /\ started'[h] = started[h]
    BY <1>3, <2>2 DEF IInv, ArrivedInv
  <2>3. CASE \E i \in Ids, remember \in BOOLEAN : CreateSession(h, i, remember)
    <3>1. pc[h] # "idle" /\ started' = started
      BY <1>3, <2>3 DEF CreateSession, Answer, IInv, TypeOK
    <3> QED
      BY <2>2, <3>1
  <2> QED
    BY <1>3, <2>1, <2>2, <2>3, HandlerMoves
    DEF IInv, SignIn, Refresh, Matches, Check, request
<1> QED
  BY <1>1, <1>2, <1>3, ClockStep DEF IInv

LEMMA SignInStep == IInv /\ TypeOK' /\ [Next]_vars => SignInInv'
<1> SUFFICES ASSUME IInv, TypeOK', [Next]_vars, NEW h \in Handlers, pc'[h] = "tokens"
             PROVE  /\ expiry'[id'[h]] # 0
                    /\ started'[h] <= expiry'[id'[h]]
                    /\ expiry'[id'[h]] <= now' + SessionTTL(row'[h].remember)
                    /\ Kept(id[h], row[h].version)'
  BY DEF SignInInv
<1>t. now \in Nat /\ now' \in Nat /\ id[h] \in Ids /\ now <= now'
  BY ClockStep, TimeFacts DEF IInv, TypeOK
<1>1. CASE pc[h] = "tokens"
  <2>1. /\ started'[h] = started[h] /\ id'[h] = id[h] /\ row'[h] = row[h]
    BY <1>1, HandlerFrame DEF IInv
  <2>2. /\ expiry[id[h]] # 0
        /\ started[h] <= expiry[id[h]]
        /\ expiry[id[h]] <= now + SessionTTL(row[h].remember)
        /\ Kept(id[h], row[h].version)
    BY <1>1 DEF IInv, SignInInv
  <2>3. expiry'[id[h]] = expiry[id[h]] /\ Kept(id[h], row[h].version)'
    BY <1>t, <2>1, <2>2, KeptStep
  <2>4. row[h].remember \in BOOLEAN /\ expiry[id[h]] \in Nat
    BY <1>t, TimeFacts DEF IInv, TypeOK, Row, Times
  <2>5. SessionTTL(row[h].remember) \in Nat
    BY <2>4, TTLFacts, TimeFacts DEF SessionTTL
  <2> QED
    BY <1>t, <2>1, <2>2, <2>3, <2>4, <2>5
<1>2. CASE pc[h] # "tokens"
  <2>1. PICK i \in Ids, remember \in BOOLEAN : CreateSession(h, i, remember)
    BY <1>2, HandlerMoves DEF IInv
  <2> DEFINE e == now + SessionTTL(remember)
             r == InsertedRow(e)
  <2>2. /\ id'[h] = i /\ started'[h] = started[h] /\ now' = now
        /\ row'[h] = [r EXCEPT !.remember = remember]
        /\ sessions'[i] = r
        /\ expiry'[i] = r.expires
    <3>1. ~Answer(h, "500")
      BY DEF Answer, IInv, TypeOK
    <3> QED
      BY <2>1, <3>1 DEF CreateSession, IInv, TypeOK
  <2>3. /\ r.expires = e /\ r.version = 1 /\ r # NoRow
        /\ row'[h].remember = remember /\ row'[h].version = 1
    <3>1. r \in Row
      BY TTLFacts, TimeFacts DEF IInv, TypeOK, InsertedRow, Row, Times
    <3> QED
      BY <2>2, <3>1, RowAssumption DEF InsertedRow
  <2>4. e \in Nat /\ now < e /\ started[h] <= now /\ started[h] \in Nat
    BY TTLFacts, TimeFacts DEF IInv, TypeOK, Times
  <2> HIDE DEF e, r
  <2> QED
    BY <1>t, <2>2, <2>3, <2>4, TTLFacts DEF Kept, e, IInv, TypeOK
<1> QED
  BY <1>1, <1>2

\* A refresh judges the copy it read; time only makes its verdict more right.
LEMMA RefreshStep == IInv /\ TypeOK' /\ [Next]_vars => RefreshInv'
<1> DEFINE Read == {"check", "delete", "extend", "reply"}
<1> SUFFICES ASSUME IInv, TypeOK', [Next]_vars, NEW h \in Handlers, pc'[h] \in Read
             PROVE  /\ expiry'[id'[h]] # 0
                    /\ row'[h].version = 0
                    /\ row'[h].expires = expiry'[id'[h]]
                    /\ row'[h].remember => /\ stored[id'[h]] # NoRow
                                           /\ row'[h] = Scanned(stored[id'[h]])
                    /\ pc'[h] = "check" => expiry'[id'[h]] < token'[h].expires + Second
                    /\ pc'[h] = "delete" => expiry'[id'[h]] < now' \/ Spent(id'[h])
                    /\ pc'[h] \in {"extend", "reply"} => started'[h] <= expiry'[id'[h]]
  BY DEF RefreshInv, Spent, MayRenew, LastRenewal, Scanned
<1>t. /\ now \in Nat /\ now' \in Nat /\ now <= now' /\ id[h] \in Ids
      /\ expiry[id[h]] \in Nat /\ started[h] \in 0..now
  BY ClockStep, TimeFacts DEF IInv, TypeOK, Times
<1>a. pc[h] \in Read =>
          /\ expiry[id[h]] # 0
          /\ row[h].version = 0
          /\ row[h].expires = expiry[id[h]]
          /\ row[h].remember => /\ stored[id[h]] # NoRow
                                /\ row[h] = Scanned(stored[id[h]])
  BY DEF IInv, RefreshInv
<1>1. CASE pc'[h] = pc[h]
  <2>1. /\ started'[h] = started[h] /\ id'[h] = id[h]
        /\ row'[h] = row[h] /\ token'[h] = token[h]
    BY <1>1, HandlerFrame DEF IInv
  <2>2. expiry'[id[h]] = expiry[id[h]]
    BY <1>1, <1>t, <1>a, KeptStep
  <2>3. /\ pc[h] = "check" => expiry[id[h]] < token[h].expires + Second
        /\ pc[h] = "delete" => expiry[id[h]] < now \/ Spent(id[h])
        /\ pc[h] \in {"extend", "reply"} => started[h] <= expiry[id[h]]
    BY DEF IInv, RefreshInv
  <2> QED
    BY <1>1, <1>t, <1>a, <2>1, <2>2, <2>3
<1>2. ASSUME NEW t \in refreshTokens, pc'[h] = "check", Refresh(h, t)
      PROVE  /\ expiry'[id'[h]] # 0
             /\ row'[h].version = 0
             /\ row'[h].expires = expiry'[id'[h]]
             /\ row'[h].remember => /\ stored[id'[h]] # NoRow
                                    /\ row'[h] = Scanned(stored[id'[h]])
             /\ expiry'[id'[h]] < token'[h].expires + Second
  <2> DEFINE i == t.session
  <2>1. /\ id'[h] = i /\ token'[h] = t /\ row'[h] = Scanned(sessions[i])
        /\ expiry' = expiry /\ sessions[i] # NoRow /\ i \in Ids
    BY <1>2 DEF Refresh, Matches, Stored, IInv, TypeOK, RefreshToken
  <2>2. sessions[i] \in Row
    BY <2>1 DEF IInv, TypeOK
  <2>3. /\ sessions[i].expires = expiry[i] /\ expiry[i] # 0
        /\ sessions[i].remember => sessions[i] = stored[i]
    BY <2>1 DEF IInv, RowsInv
  <2>4. expiry[i] < t.expires + Second
    BY DEF IInv, TokensInv
  <2> QED
    BY <2>1, <2>2, <2>3, <2>4, ScannedFacts
<1>3. CASE pc'[h] \in {"delete", "extend", "reply"} /\ Check(h)
  <2>1. /\ UNCHANGED <<expiry, now>> /\ id'[h] = id[h]
        /\ row'[h] = row[h] /\ started'[h] = started[h] /\ pc[h] = "check"
        /\ pc'[h] = IF Expired(row[h]) THEN "delete"
                    ELSE IF ~row[h].remember THEN "reply"
                    ELSE IF MayRenew(row[h]) THEN "extend"
                    ELSE "delete"
    BY <1>3 DEF Check, request, IInv, TypeOK
  <2>2. CASE Expired(row[h])
    BY <1>t, <1>a, <2>1, <2>2 DEF Expired
  <2>3. CASE ~Expired(row[h])
    <3>1. started[h] <= expiry[id[h]]
      BY <1>t, <1>a, <2>1, <2>3 DEF Expired
    <3>2. pc'[h] = "delete" => Spent(id[h])
      <4>1. pc'[h] = "delete" => row[h].remember /\ ~MayRenew(row[h])
        BY <2>1, <2>3
      <4>2. stored[id[h]] # NoRow => stored[id[h]] \in Row
        BY <1>t, StoredAssumption
      <4> QED
        BY <1>a, <2>1, <4>1, <4>2, ScannedFacts DEF Spent
    <3> QED
      BY <1>a, <2>1, <3>1, <3>2
  <2> QED
    BY <2>2, <2>3
<1> QED
  BY <1>1, <1>2, <1>3, HandlerMoves DEF IInv

-----------------------------------------------------------------------------
(* Access tokens *)

\* What an answer that is sent in time gives the client.
LEMMA ReplyTime ==
    ASSUME IInv, NEW h \in Handlers, NEW tokens, Reply(h, tokens), pc[h] # "idle",
           NEW i \in Ids, accessUntil'[i] # accessUntil[i]
    PROVE  /\ i = id[h]
           /\ accessUntil'[i] <= now + AccessTTL
           /\ now <= started[h] + WriteTimeout
           /\ started[h] <= removed
<1>1. /\ i = id[h]
      /\ accessUntil'[i] = NumericDate(now + AccessTTL)
      /\ now <= started[h] + WriteTimeout
      /\ started[h] <= removed
  BY DEF Reply, Sent, handedOut, IInv, TypeOK, ArrivedInv
<1>2. now + AccessTTL \in Nat
  BY TimeFacts DEF IInv, TypeOK
<1> QED
  BY <1>1, <1>2, NumericDateFacts

LEMMA AccessStep ==
    IInv /\ TypeOK' /\ [Next]_vars
        => AccessInv' /\ AccessEndsWithSession' /\ AccessEndsWithUser'
<1> SUFFICES ASSUME IInv, TypeOK', [Next]_vars, NEW i \in Ids, accessUntil'[i] # 0
             PROVE  /\ expiry'[i] # 0
                    /\ accessUntil'[i] <= now' + AccessTTL
                    /\ accessUntil'[i] <= expiry'[i] + WriteTimeout + AccessTTL
                    /\ accessUntil'[i] <= removed' + WriteTimeout + AccessTTL
  BY DEF AccessInv, AccessEndsWithSession, AccessEndsWithUser
<1>t. /\ now \in Nat /\ now' \in Nat /\ now <= now'
      /\ expiry[i] \in Nat /\ removed \in Nat
      /\ accessUntil[i] \in Nat /\ accessUntil'[i] \in Nat
      /\ AccessTTL \in Nat /\ WriteTimeout \in Nat
  BY ClockStep, TimeFacts DEF IInv, TypeOK, Times
<1>1. CASE accessUntil'[i] = accessUntil[i]
  <2>1. /\ expiry[i] # 0 /\ accessUntil[i] <= now + AccessTTL
        /\ accessUntil[i] <= expiry[i] + WriteTimeout + AccessTTL
        /\ accessUntil[i] <= removed + WriteTimeout + AccessTTL
    BY <1>1 DEF IInv, AccessInv, AccessEndsWithSession, AccessEndsWithUser
  <2>2. expiry'[i] = expiry[i]
    BY <2>1, KeptStep
  <2>3. removed' = removed \/ removed' = now
    BY ClockStep DEF IInv
  <2> QED
    BY <1>t, <1>1, <2>1, <2>2, <2>3
<1>2. CASE accessUntil'[i] # accessUntil[i]
  <2>1. PICK h \in Handlers : SignInReplies(h) \/ RefreshReplies(h)
    <3>1. ASSUME NEW h \in Handlers, Extend(h) PROVE FALSE
      BY <1>2, <3>1, ExtendFails DEF handedOut
    <3> QED
      BY <1>2, <3>1
      DEF Next, SignIn, SignInFails, CreateSessionFails, CreateSession, Refresh,
          RefreshRefused, Check, Invalidate, RemoveUser, Tick, vars, handedOut
  <2>2. /\ UNCHANGED <<now, removed, expiry>> /\ pc[h] \in {"tokens", "reply"}
        /\ \E tokens : Reply(h, tokens)
    BY <2>1 DEF SignInReplies, RefreshReplies
  <2>3. /\ i = id[h] /\ accessUntil'[i] <= now + AccessTTL
        /\ now <= started[h] + WriteTimeout /\ started[h] <= removed
    BY <1>2, <2>2, ReplyTime
  \* The session was made or judged after the request came in.
  <2>4. expiry[i] # 0 /\ started[h] <= expiry[i]
    BY <2>2, <2>3 DEF IInv, SignInInv, RefreshInv
  <2>5. started[h] \in Nat
    BY TimeFacts DEF IInv, TypeOK
  <2> QED
    BY <1>t, <2>2, <2>3, <2>4, <2>5
<1> QED
  BY <1>1, <1>2

LEMMA IInvStep == IInv /\ [Next]_vars => IInv'
  BY TypeStep, RowsStep, TokensStep, ArrivedStep, SignInStep, RefreshStep, AccessStep
  DEF IInv

LEMMA IInvCorrect == Spec => []IInv
  BY IInvInit, IInvStep, PTL DEF Spec

-----------------------------------------------------------------------------
(* Theorems *)

\* However slowly the handler that made it ran, no access token that a client
\* receives outlives its session by more than the write timeout and its own
\* lifetime.
THEOREM AccessAfterSession == Spec => []AccessEndsWithSession
  BY IInvCorrect, PTL DEF IInv

\* Nor its user: a sign-in that was under way when the user was removed is
\* answered within the write timeout, and no refresh finds the session.
THEOREM AccessAfterUser == Spec => []AccessEndsWithUser
  BY IInvCorrect, PTL DEF IInv

\* Whatever other requests do to their sessions, a token that a client holds
\* works until its session expires, its renewals are used up or the user is
\* removed.
THEOREM TokensUsable == Spec => []TokensStayUsable
<1>1. IInv => TokensStayUsable
  BY DEF IInv, TokensInv, TokensStayUsable, Kept, Matches, Stored
<1> QED
  BY <1>1, IInvCorrect, PTL

\* Nothing looks at a refresh token's own expiry, and yet no handler honours one
\* that passed it a second ago or more, whatever the lifetimes and however slow the
\* handlers: the row it is judged by ends before that.
THEOREM OverrunBounded == Spec => OverrunsLessThanSecond
<1>1. ASSUME IInv, [Next]_vars, NEW h \in Handlers,
             pc[h] = "check", pc'[h] \in {"reply", "extend"}
      PROVE  now < token[h].expires + Second
  <2>1. Check(h)
    BY <1>1, HandlerMoves DEF IInv
  <2>2. ~Expired(row[h])
    BY <1>1, <2>1 DEF Check, IInv, TypeOK
  <2>3. /\ now \in Nat /\ expiry[id[h]] \in Nat /\ token[h].expires \in Nat
        /\ row[h].expires = expiry[id[h]]
        /\ expiry[id[h]] < token[h].expires + Second
    BY <1>1, TimeFacts DEF IInv, TypeOK, RefreshInv, RefreshToken, Times
  <2> QED
    BY <2>2, <2>3, TimesAssumption DEF Expired
<1>2. IInv /\ [Next]_vars
        => [\A h \in Handlers :
               pc[h] = "check" /\ pc'[h] \in {"reply", "extend"}
                   => now < token[h].expires + Second]_vars
  BY <1>1
<1> QED
  BY <1>2, IInvCorrect, PTL DEF Spec, OverrunsLessThanSecond

\* No session is ever renewed: the copy that a renewal compares has no version,
\* so that its UPDATE finds no row, whatever runs in between.  A row stays as it
\* is until it is deleted.
THEOREM NeverRenewed ==
    Spec => [][\A i \in Ids :
                  sessions[i] # NoRow => sessions'[i] \in {sessions[i], NoRow}]_vars
<1>1. ASSUME IInv, [Next]_vars, NEW i \in Ids, sessions[i] # NoRow
      PROVE  sessions'[i] \in {sessions[i], NoRow}
  <2> USE <1>1 DEF IInv, TypeOK
  <2>1. ASSUME NEW h \in Handlers, Extend(h) PROVE UNCHANGED sessions
    BY <2>1, ExtendFails
  <2>2. ASSUME NEW h \in Handlers, Invalidate(h)
        PROVE  sessions'[i] \in {sessions[i], NoRow}
    BY <2>2 DEF Invalidate, Without
  <2>3. ASSUME NEW h \in Handlers, NEW j \in Ids, NEW remember \in BOOLEAN,
               CreateSession(h, j, remember)
        PROVE  sessions'[i] = sessions[i]
    BY <2>3 DEF CreateSession, Fresh, RowsInv
  <2> QED
    BY <2>1, <2>2, <2>3
    DEF Next, SignIn, SignInFails, CreateSessionFails, SignInReplies, Refresh,
        RefreshRefused, Check, RefreshReplies, RemoveUser, Tick, vars
<1>2. IInv /\ [Next]_vars
        => [\A i \in Ids :
               sessions[i] # NoRow => sessions'[i] \in {sessions[i], NoRow}]_vars
  BY <1>1
<1> QED
  BY <1>2, IInvCorrect, PTL DEF Spec
=============================================================================
