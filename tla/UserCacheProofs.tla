-------------------------- MODULE UserCacheProofs --------------------------
(***************************************************************************)
(* For any number of lookups and users, and any lifetime of a key: what a  *)
(* request sees of a user is never older than the lifetime and the time a  *)
(* handler takes between its query and its SETEX.                          *)
(***************************************************************************)
EXTENDS UserCache, TLAPS

\* A row is in the state it is in.
CurrentIsNow == \A u \in Users : row[u] # "gone" => since[u][row[u]] = 0

\* What a handler is about to store was read no longer ago than it remembers.
HeldIsRecent ==
    \A h \in Handlers : pc[h] = "set" => since[userID[h]][user[h]] <= late[h]

IInv == TypeOK /\ CurrentIsNow /\ HeldIsRecent /\ EntriesExpire

\* What Call, Hit, Miss, GetFails, Query, QueryFails, Set and SetFails leave
\* alone: the table and its clocks.
HandlerStep(h) ==
    \/ \E u \in Users, c \in Callers : Call(h, u, c)
    \/ Hit(h) \/ Miss(h) \/ GetFails(h) \/ Finish(h)

LEMMA HandlersLeaveTable ==
    ASSUME NEW h \in Handlers, HandlerStep(h)
    PROVE  UNCHANGED tableVars
BY DEF HandlerStep, Finish, Call, Hit, Miss, GetFails, Query, QueryFails, Set, SetFails

\* The cases of a step.
LEMMA StepCases ==
    ASSUME [Next]_vars
    PROVE  \/ \E h \in Handlers : HandlerStep(h)
           \/ \E u \in Users, s \in {"active", "gone"} : Change(u, s)
           \/ Tick
           \/ UNCHANGED vars
BY DEF Next, HandlerStep

\* The horizon is a time.
LEMMA HorizonIsTime == Horizon \in Nat /\ 0 \in 0..Horizon /\ 0 \in 0..MaxDelay
BY TimeAssumption DEF Horizon

\* A stored row is an entry with its whole lifetime before it.
LEMMA CachedEntry ==
    ASSUME TypeOK, NEW h \in Handlers
    PROVE  /\ Cached(h) \in [Users -> Entry \cup {NoEntry}]
           /\ \A u \in Users : u # userID[h] => Cached(h)[u] = cache[u]
           /\ Cached(h)[userID[h]] = [user |-> user[h], left |-> TTL]
<1>1. [user |-> user[h], left |-> TTL] \in Entry
  BY TimeAssumption DEF TypeOK, Entry
<1> QED
  BY <1>1 DEF TypeOK, Cached, Lifetime

\* A tick takes one tick from an entry, or the entry.
LEMMA AgedEntry ==
    ASSUME NEW entry \in Entry \cup {NoEntry}
    PROVE  LET aged == EntryAfterTick(entry)
           IN  \/ aged = NoEntry
               \/ /\ entry \in Entry /\ aged \in Entry
                  /\ aged.user = entry.user /\ aged.left = entry.left - 1
<1>1. CASE entry \in Entry /\ entry.left # 1
  <2>1. entry.left - 1 \in 1..TTL
    BY <1>1, TimeAssumption DEF Entry
  <2>2. [entry EXCEPT !.left = entry.left - 1] \in Entry
    BY <1>1, <2>1 DEF Entry
  <2> QED
    BY <1>1, <2>1, <2>2, EntryAssumption DEF EntryAfterTick, Entry
<1> QED
  BY <1>1 DEF EntryAfterTick

\* Handlers, rows, entries and clocks stay well formed.
LEMMA TypeStep == TypeOK /\ [Next]_vars => TypeOK'
<1> SUFFICES ASSUME TypeOK, [Next]_vars PROVE TypeOK'
  OBVIOUS
<1>1. ASSUME NEW h \in Handlers, HandlerStep(h) PROVE TypeOK'
  <2>1. ASSUME NEW u \in Users, NEW c \in Callers, Call(h, u, c) PROVE TypeOK'
    BY <2>1 DEF TypeOK, Call, tableVars, Statuses
  <2>2. ASSUME Hit(h) PROVE TypeOK'
    <3>1. cache[userID[h]].user \in Rows
      BY <2>2 DEF TypeOK, Hit, Entry
    <3> QED
      BY <2>2, <3>1 DEF TypeOK, Hit, Return, tableVars, requestVars
  <2>3. ASSUME Miss(h) \/ GetFails(h) \/ QueryFails(h) PROVE TypeOK'
    BY <2>3 DEF TypeOK, Miss, GetFails, QueryFails, Return, ErrorAnswer, Statuses,
                tableVars, requestVars
  <2>4. ASSUME Query(h) PROVE TypeOK'
    BY <2>4, HorizonIsTime DEF TypeOK, Query, tableVars, requestVars
  <2>5. ASSUME Set(h) \/ SetFails(h) PROVE TypeOK'
    <3>1. cache' \in [Users -> Entry \cup {NoEntry}]
      BY <2>5, CachedEntry DEF TypeOK, Set, SetFails
    <3>2. user[h] \in Rows
      BY DEF TypeOK
    <3>3. CASE Set(h)
      BY <3>1, <3>2, <3>3 DEF TypeOK, Set, Return, tableVars, requestVars
    <3>4. CASE SetFails(h)
      <4>1. PICK a \in {"401", "500"} : Return(h, a)
        BY <3>4 DEF SetFails, ErrorAnswer
      <4> QED
        BY <3>1, <3>4, <4>1 DEF TypeOK, SetFails, Return, Statuses, tableVars, requestVars
    <3> QED
      BY <2>5, <3>3, <3>4
  <2> QED
    BY <1>1, <2>1, <2>2, <2>3, <2>4, <2>5 DEF HandlerStep, Finish
<1>2. ASSUME NEW u \in Users, NEW s \in {"active", "gone"}, Change(u, s) PROVE TypeOK'
  BY <1>2, HorizonIsTime DEF TypeOK, Change, Rows, requestVars
<1>3. CASE Tick
  <2>1. since' \in [Users -> [Rows -> 0..Horizon]]
    <3>1. ASSUME NEW n \in 0..Horizon, n # Horizon PROVE n + 1 \in 0..Horizon
      BY <3>1, HorizonIsTime
    <3>2. ASSUME NEW u \in Users, NEW s \in Rows
          PROVE  (IF s = row[u] \/ since[u][s] = Horizon THEN since[u][s] ELSE since[u][s] + 1)
                    \in 0..Horizon
      BY <3>1 DEF TypeOK
    <3> QED
      BY <1>3, <3>2 DEF Tick
  <2>2. cache' \in [Users -> Entry \cup {NoEntry}]
    BY <1>3, AgedEntry DEF TypeOK, Tick
  <2>3. late' \in [Handlers -> 0..MaxDelay]
    BY <1>3, TimeAssumption DEF TypeOK, Tick
  <2> QED
    BY <1>3, <2>1, <2>2, <2>3 DEF TypeOK, Tick, requestVars
<1>4. CASE UNCHANGED vars
  BY <1>4 DEF TypeOK, vars, tableVars, requestVars
<1> QED
  BY <1>1, <1>2, <1>3, <1>4, StepCases

\* How long ago a row was in a state grows with time only, tick by tick.
LEMMA ClockStep ==
    ASSUME IInv, [Next]_vars, NEW u \in Users, NEW s \in Rows
    PROVE  /\ since[u][s] \in Nat /\ since'[u][s] \in Nat
           /\ since'[u][s] <= since[u][s] + 1
           /\ ~Tick => since'[u][s] <= since[u][s]
<1>1. since[u][s] \in Nat /\ since'[u][s] \in Nat
  BY TypeStep, HorizonIsTime DEF IInv, TypeOK
<1>2. ASSUME NEW h \in Handlers, HandlerStep(h) PROVE since'[u][s] = since[u][s]
  BY <1>2, HandlersLeaveTable DEF tableVars
<1>3. ASSUME NEW v \in Users, NEW t \in {"active", "gone"}, Change(v, t)
      PROVE  since'[u][s] = 0 \/ since'[u][s] = since[u][s]
  BY <1>3 DEF Change, IInv, TypeOK
<1>4. CASE Tick
  <2>1. since'[u][s] = since[u][s] \/ since'[u][s] = since[u][s] + 1
    BY <1>4 DEF Tick
  <2> QED
    BY <1>1, <1>4, <2>1
<1>5. CASE UNCHANGED vars
  BY <1>1, <1>5 DEF vars, tableVars
<1> QED
  BY <1>1, <1>2, <1>3, <1>4, <1>5, StepCases

\* A row's state has not been left.
LEMMA CurrentStep == IInv /\ [Next]_vars => CurrentIsNow'
<1> SUFFICES ASSUME IInv, [Next]_vars, NEW u \in Users, row'[u] # "gone"
             PROVE  since'[u][row'[u]] = 0
  BY DEF CurrentIsNow
<1> USE DEF IInv, TypeOK, CurrentIsNow
<1>1. ASSUME NEW h \in Handlers, HandlerStep(h) PROVE since'[u][row'[u]] = 0
  BY <1>1, HandlersLeaveTable DEF tableVars
<1>2. ASSUME NEW v \in Users, NEW s \in {"active", "gone"}, Change(v, s)
      PROVE  since'[u][row'[u]] = 0
  BY <1>2 DEF Change, Rows
<1>3. CASE Tick
  BY <1>3 DEF Tick
<1>4. CASE UNCHANGED vars
  BY <1>4 DEF vars, tableVars
<1> QED
  BY <1>1, <1>2, <1>3, <1>4, StepCases

\* The row a handler holds was current when it queried, late[h] ticks ago.
LEMMA HeldStep == IInv /\ [Next]_vars => HeldIsRecent'
<1> SUFFICES ASSUME IInv, [Next]_vars, NEW g \in Handlers, pc'[g] = "set"
             PROVE  since'[userID'[g]][user'[g]] <= late'[g]
  BY DEF HeldIsRecent
<1>t. /\ userID[g] \in Users /\ user[g] \in Rows /\ late[g] \in Nat
  BY TimeAssumption DEF IInv, TypeOK
<1>c. /\ since[userID[g]][user[g]] \in Nat /\ since'[userID[g]][user[g]] \in Nat
      /\ since'[userID[g]][user[g]] <= since[userID[g]][user[g]] + 1
      /\ ~Tick => since'[userID[g]][user[g]] <= since[userID[g]][user[g]]
  BY <1>t, ClockStep
<1>1. ASSUME pc[g] = "set", UNCHANGED <<userID[g], user[g], late[g]>>, ~Tick
      PROVE  since'[userID'[g]][user'[g]] <= late'[g]
  BY <1>1, <1>t, <1>c DEF IInv, HeldIsRecent
<1>2. ASSUME NEW h \in Handlers, HandlerStep(h), ~Query(h), ~Tick
      PROVE  pc[g] = "set" /\ UNCHANGED <<userID[g], user[g], late[g]>>
  BY <1>2 DEF IInv, TypeOK, HandlerStep, Finish, Call, Hit, Miss, GetFails, QueryFails, Set,
              SetFails, Return, requestVars
<1>3. ASSUME NEW h \in Handlers, Query(h), h # g, ~Tick
      PROVE  pc[g] = "set" /\ UNCHANGED <<userID[g], user[g], late[g]>>
  BY <1>3 DEF IInv, TypeOK, Query, requestVars
<1>4. ASSUME Query(g) PROVE since'[userID'[g]][user'[g]] <= late'[g]
  BY <1>4, <1>t DEF Query, requestVars, tableVars, IInv, TypeOK, CurrentIsNow
<1>5. ASSUME NEW u \in Users, NEW s \in {"active", "gone"}, Change(u, s), ~Tick
      PROVE  pc[g] = "set" /\ UNCHANGED <<userID[g], user[g], late[g]>>
  BY <1>5 DEF Change, requestVars
<1>6. CASE Tick
  <2>1. /\ pc[g] = "set" /\ userID'[g] = userID[g] /\ user'[g] = user[g]
        /\ late'[g] = late[g] + 1
    BY <1>6 DEF Tick, requestVars, IInv, TypeOK
  <2>2. since[userID[g]][user[g]] <= late[g]
    BY <2>1 DEF IInv, HeldIsRecent
  <2> QED
    BY <2>1, <2>2, <1>c, <1>t
<1>7. CASE UNCHANGED vars /\ ~Tick
  BY <1>1, <1>7 DEF vars, requestVars
<1> QED
  BY <1>1, <1>2, <1>3, <1>4, <1>5, <1>6, <1>7, StepCases

\* No entry outlives its bound.
LEMMA EntryStep == IInv /\ [Next]_vars => EntriesExpire'
<1> SUFFICES ASSUME IInv, [Next]_vars, NEW u \in Users, cache'[u] # NoEntry
             PROVE  since'[u][cache'[u].user] + cache'[u].left <= TTL + MaxDelay
  BY DEF EntriesExpire
<1>1. ASSUME cache'[u] = cache[u], ~Tick
      PROVE  since'[u][cache'[u].user] + cache'[u].left <= TTL + MaxDelay
  <2>1. cache[u] \in Entry /\ cache[u].user \in Rows /\ cache[u].left \in Nat
    BY <1>1, TimeAssumption DEF IInv, TypeOK, Entry
  <2>2. /\ since[u][cache[u].user] \in Nat /\ since'[u][cache[u].user] \in Nat
        /\ since'[u][cache[u].user] <= since[u][cache[u].user]
    BY <1>1, <2>1, ClockStep
  <2>3. since[u][cache[u].user] + cache[u].left <= TTL + MaxDelay
    BY <1>1 DEF IInv, EntriesExpire
  <2> QED
    BY <1>1, <2>1, <2>2, <2>3, TimeAssumption
<1>2. ASSUME NEW h \in Handlers, Set(h) \/ SetFails(h), u = userID[h], cache' = Cached(h)
      PROVE  since'[u][cache'[u].user] + cache'[u].left <= TTL + MaxDelay
  <2>1. cache'[u] = [user |-> user[h], left |-> TTL]
    BY <1>2, CachedEntry DEF IInv
  <2>2. since[u][user[h]] <= late[h] /\ since' = since
    BY <1>2 DEF IInv, HeldIsRecent, Set, SetFails, tableVars
  <2>3. late[h] \in 0..MaxDelay /\ since[u][user[h]] \in Nat
    BY <1>2, ClockStep DEF IInv, TypeOK
  <2> QED
    BY <2>1, <2>2, <2>3, TimeAssumption
<1>3. ASSUME NEW h \in Handlers, HandlerStep(h), ~Tick
      PROVE  since'[u][cache'[u].user] + cache'[u].left <= TTL + MaxDelay
  <2>1. CASE cache'[u] = cache[u]
    BY <1>1, <1>3, <2>1
  <2>2. CASE cache'[u] # cache[u]
    <3>1. Set(h) \/ SetFails(h)
      BY <1>3, <2>2 DEF HandlerStep, Finish, Call, Hit, Miss, GetFails, Query, QueryFails
    <3>2. cache' = Cached(h)
      BY <2>2, <3>1 DEF Set, SetFails
    <3>3. u = userID[h]
      BY <2>2, <3>2, CachedEntry DEF IInv
    <3> QED
      BY <1>2, <3>1, <3>2, <3>3
  <2> QED
    BY <2>1, <2>2
<1>4. CASE Tick
  <2>1. cache'[u] = EntryAfterTick(cache[u]) /\ cache[u] \in Entry \cup {NoEntry}
    BY <1>4 DEF Tick, IInv, TypeOK
  <2>2. /\ cache[u] \in Entry
        /\ cache'[u].user = cache[u].user /\ cache'[u].left = cache[u].left - 1
    BY <2>1, AgedEntry
  <2>3. cache[u].user \in Rows /\ cache[u].left \in Nat
    BY <2>2, TimeAssumption DEF Entry
  <2>4. /\ since[u][cache[u].user] \in Nat /\ since'[u][cache[u].user] \in Nat
        /\ since'[u][cache[u].user] <= since[u][cache[u].user] + 1
    BY <2>3, ClockStep
  <2>5. since[u][cache[u].user] + cache[u].left <= TTL + MaxDelay
    BY <2>2, EntryAssumption DEF IInv, EntriesExpire
  <2> QED
    BY <2>2, <2>3, <2>4, <2>5, TimeAssumption
<1>5. ASSUME UNCHANGED cache, ~Tick
      PROVE  since'[u][cache'[u].user] + cache'[u].left <= TTL + MaxDelay
  BY <1>1, <1>5
<1>6. ASSUME (\E v \in Users, s \in {"active", "gone"} : Change(v, s)) \/ UNCHANGED vars
      PROVE  UNCHANGED cache
  BY <1>6 DEF Change, vars
<1> QED
  BY <1>3, <1>4, <1>5, <1>6, StepCases

\* The inductive invariant holds of every execution.
THEOREM Invariance == Spec => []IInv
<1>1. Init => IInv
  <2> SUFFICES ASSUME Init PROVE IInv
    OBVIOUS
  <2>1. TypeOK
    BY HorizonIsTime DEF Init, TypeOK, Rows, Statuses
  <2>2. CurrentIsNow
    BY DEF Init, CurrentIsNow, Rows
  <2>3. HeldIsRecent /\ EntriesExpire
    BY DEF Init, HeldIsRecent, EntriesExpire
  <2> QED
    BY <2>1, <2>2, <2>3 DEF IInv
<1>2. IInv /\ [Next]_vars => IInv'
  BY TypeStep, CurrentStep, HeldStep, EntryStep DEF IInv
<1> QED
  BY <1>1, <1>2, PTL DEF Spec

\* Rows, entries, lookups and clocks stay well formed.
THEOREM TypeCorrect == Spec => []TypeOK
BY Invariance, PTL DEF IInv

\* No entry of the cache is older than its lifetime and a handler's delay.
THEOREM EntriesAreBounded == Spec => []EntriesExpire
BY Invariance, PTL DEF IInv

\* No request runs as a user as the user was longer ago than that.
THEOREM ServedRows == Spec => ServedRecently
<1>1. IInv /\ [Next]_vars => [ServesRecentRow]_vars
  <2> SUFFICES ASSUME IInv, [Next]_vars, NEW h \in Handlers,
                      answer[h] = "none", answer'[h] \in Rows
               PROVE  since[userID[h]][answer'[h]] <= TTL + MaxDelay
    BY DEF ServesRecentRow
  <2>1. PICK g \in Handlers : HandlerStep(g)
    <3>1. answer' # answer
      BY DEF Rows
    <3> QED
      BY <3>1, StepCases DEF Change, Tick, vars
  <2>2. g = h
    BY <2>1 DEF IInv, TypeOK, HandlerStep, Finish, Call, Hit, Miss, GetFails, Query, QueryFails,
                Set, SetFails, Return, Rows
  <2>3. Hit(h) \/ Set(h)
    BY <2>1, <2>2 DEF IInv, TypeOK, HandlerStep, Finish, Call, Miss, GetFails, Query, QueryFails,
                      SetFails, Return, ErrorAnswer, Rows
  <2>4. CASE Hit(h)
    <3>1. /\ userID[h] \in Users /\ cache[userID[h]] \in Entry
          /\ cache[userID[h]] # NoEntry
          /\ answer'[h] = cache[userID[h]].user
      BY <2>4 DEF Hit, Return, IInv, TypeOK
    <3>2. since[userID[h]][cache[userID[h]].user] + cache[userID[h]].left <= TTL + MaxDelay
      BY <3>1 DEF IInv, EntriesExpire
    <3>3. cache[userID[h]].left \in Nat /\ cache[userID[h]].user \in Rows
      BY <3>1, TimeAssumption DEF Entry
    <3>4. since[userID[h]][cache[userID[h]].user] \in Nat
      BY <3>1, <3>3, ClockStep
    <3> QED
      BY <3>1, <3>2, <3>3, <3>4, TimeAssumption
  <2>5. CASE Set(h)
    <3>1. userID[h] \in Users /\ user[h] \in Rows /\ answer'[h] = user[h]
      BY <2>5 DEF Set, Return, IInv, TypeOK
    <3>2. since[userID[h]][user[h]] <= late[h] /\ late[h] \in 0..MaxDelay
      BY <2>5 DEF Set, IInv, TypeOK, HeldIsRecent
    <3>3. since[userID[h]][user[h]] \in Nat
      BY <3>1, ClockStep
    <3> QED
      BY <3>1, <3>2, <3>3, TimeAssumption
  <2> QED
    BY <2>3, <2>4, <2>5
<1> QED
  BY <1>1, Invariance, PTL DEF Spec, ServedRecently
=============================================================================
