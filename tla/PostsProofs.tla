---------------------------- MODULE PostsProofs ----------------------------
(***************************************************************************)
(* For any number of requests, users, posts and values: the version read   *)
(* by the middleware protects the row until the write, so the handlers of  *)
(* Posts implement the atomic requests of AtomicPosts.                     *)
(***************************************************************************)
EXTENDS Posts, TLAPS

\* Ids at or above the sequence's next value have no row.
RowsBelowNext == \A id \in PostIds : posts[id] # NoRow => id < nextId

\* What a request past the middleware knows.
HeldPost ==
    \A r \in Requests :
        Holds(r) => /\ target[r] \in PostIds /\ target[r] < nextId
                    /\ post[r] \in Row
                    /\ pc[r] = "permitted" /\ op[r] = "patch"
                          => MayUpdate(caller[r], post[r])

\* A request has no effect and no answer before it is done.
Pending ==
    \A r \in Requests :
        pc[r] # "done" => answer[r] = "none"

IInv == TypeOK /\ RowsBelowNext /\ HeldPost /\ Pending /\ VersionIdentifiesRow

\* A patch yields a row of the same author with the next version.
LEMMA PatchedRow ==
    ASSUME NEW row \in Row, NEW f \in Forms
    PROVE  /\ Patched(row, f) \in Row
           /\ Patched(row, f).version = row.version + 1
           /\ Patched(row, f).user = row.user
<1> DEFINE title == IF f.title = Absent THEN row.title ELSE f.title
           content == IF f.content = Absent THEN row.content ELSE f.content
<1>1. title \in Values /\ content \in Values
  BY DEF Row, Forms
<1>2. Patched(row, f) = [row EXCEPT !.title = title, !.content = content,
                                       !.version = row.version + 1]
  BY DEF Patched
<1>3. row.version + 1 \in Nat
  BY DEF Row
<1> HIDE DEF title, content
<1> QED
  BY <1>1, <1>2, <1>3 DEF Row

\* An UPDATE that matches is a patch of the current row, by a caller who may.
LEMMA UpdateEffect ==
    ASSUME IInv, NEW r \in Requests, Update(r)
    PROVE  /\ target[r] \in PostIds /\ target[r] < nextId
           /\ posts[target[r]] \in Row /\ posts[target[r]] = post[r]
           /\ MayUpdate(caller[r], posts[target[r]])
           /\ posts' = [posts EXCEPT ![target[r]] = Patched(posts[target[r]], form[r])]
           /\ post' = [post EXCEPT ![r] = Patched(post[r], form[r])]
           /\ form[r] \in Forms
           /\ answer' \in {[answer EXCEPT ![r] = a] : a \in {"updated", "error"}}
           /\ pc' = [pc EXCEPT ![r] = "done"]
           /\ overtaken' = overtaken \cup Overtakes(r)
           /\ UNCHANGED <<nextId, op, target>>
<1> DEFINE t == target[r]
<1>1. /\ t \in PostIds /\ t < nextId /\ post[r] \in Row
      /\ MayUpdate(caller[r], post[r])
  BY DEF IInv, HeldPost, Holds, Update
<1>2. posts[t] \in Row /\ posts[t] = post[r]
  BY <1>1 DEF IInv, TypeOK, VersionIdentifiesRow, Holds, Update, Matches
<1>3. /\ posts' = [posts EXCEPT ![t] = Overwritten(r)]
      /\ post' = [post EXCEPT ![r] = Overwritten(r)]
  BY DEF Update
<1>4. Overwritten(r) = Patched(posts[t], form[r])
  BY <1>2 DEF Overwritten, Patched, Row
<1> QED
  BY <1>1, <1>2, <1>3, <1>4, FormAssumption DEF Update, Answer

\* A new row belongs to its caller and has version 1.
LEMMA CreatedRow ==
    ASSUME NEW r \in Requests, NEW t \in Values, NEW c \in Values, NEW tags \in Tags
    PROVE  NewRow(t, c, caller[r], tags) \in Row
BY PeopleAssumption DEF NewRow, Row

\* The state stays well formed.
LEMMA TypeStep == IInv /\ [Next]_vars => TypeOK'
<1> SUFFICES ASSUME IInv, [Next]_vars PROVE TypeOK'
  OBVIOUS
<1>t. TypeOK
  BY DEF IInv
<1>1. ASSUME NEW r \in Requests, Create(r) PROVE TypeOK'
  <2>1. nextId \in PostIds /\ nextId + 1 \in 1..MaxPosts + 1
    BY <1>1, <1>t, BoundAssumption DEF Create, FreshId, TypeOK, PostIds
  <2>2. posts' \in [PostIds -> Row \cup {NoRow}]
    BY <1>1, <1>t, <2>1, CreatedRow DEF Create, FreshId, TypeOK
  <2>3. nextId' \in 1..MaxPosts + 1 /\ target' \in [Requests -> 0..MaxPosts]
    BY <1>1, <1>t, <2>1, BoundAssumption DEF Create, FreshId, TypeOK, PostIds
  <2>4. answer' \in [Requests -> Answers]
    BY <1>1, <1>t DEF Create, FreshId, Answer, TypeOK, Answers, Refusals
  <2> QED
    BY <1>1, <1>t, <2>2, <2>3, <2>4 DEF Create, FreshId, Answer, TypeOK
<1>2. ASSUME NEW r \in Requests, Update(r) PROVE TypeOK'
  <2>1. /\ posts' = [posts EXCEPT ![target[r]] = Patched(posts[target[r]], form[r])]
        /\ post' = [post EXCEPT ![r] = Patched(post[r], form[r])]
        /\ form[r] \in Forms
    BY <1>2, UpdateEffect
  <2>2. posts[target[r]] \in Row /\ post[r] \in Row /\ target[r] \in PostIds
    BY <1>2, UpdateEffect
  <2>3. posts' \in [PostIds -> Row \cup {NoRow}] /\ post' \in [Requests -> Row \cup {NoRow}]
    BY <1>t, <2>1, <2>2, PatchedRow DEF TypeOK
  <2> QED
    BY <1>2, <1>t, <2>3 DEF Update, Overtakes, Answer, TypeOK, Answers, Refusals
<1>3. ASSUME NEW r \in Requests, NEW id \in PostIds, Load(r, id) \/ LoadFails(r, id)
      PROVE  TypeOK'
  <2>1. id \in 0..MaxPosts /\ posts[id] \in Row \cup {NoRow}
    BY <1>t, BoundAssumption DEF TypeOK, PostIds
  <2> QED
    BY <1>3, <1>t, <2>1 DEF Load, LoadFails, Answer, TypeOK, Answers, Refusals
<1>4. ASSUME NEW r \in Requests, \/ CreateFails(r) \/ Permit(r) \/ Forbid(r) \/ Get(r)
                                 \/ Conflict(r) \/ UpdateFails(r) \/ DeleteFails(r)
      PROVE  TypeOK'
  BY <1>4, <1>t DEF CreateFails, Permit, Forbid, Get, Conflict, UpdateFails,
                    DeleteFails, Answer, TypeOK, Answers, Refusals
<1>5. ASSUME NEW r \in Requests, Delete(r) PROVE TypeOK'
  <2>1. posts' \in [PostIds -> Row \cup {NoRow}]
    BY <1>5, <1>t DEF Delete, TypeOK
  <2> QED
    BY <1>5, <1>t, <2>1 DEF Delete, Overtakes, Answer, TypeOK, Answers, Refusals
<1>6. CASE UNCHANGED vars
  BY <1>6, <1>t DEF vars, TypeOK
<1> QED
  BY <1>1, <1>2, <1>3, <1>4, <1>5, <1>6 DEF Next, Quiet

\* What one step can do to one row: nothing, create it under a fresh id, give
\* it its next version, or remove it.
RowStep(id) ==
    \/ posts'[id] = posts[id]
    \/ id = nextId /\ posts[id] = NoRow /\ posts'[id] \in Row /\ nextId' = nextId + 1
    \/ /\ posts[id] \in Row /\ posts'[id] \in Row
       /\ posts'[id].version = posts[id].version + 1
       /\ posts'[id].user = posts[id].user
    \/ posts[id] \in Row /\ posts'[id] = NoRow

\* Every step does one of these to every row, and the sequence only grows.
LEMMA TableStep ==
    ASSUME IInv, [Next]_vars, NEW id \in PostIds
    PROVE  nextId' >= nextId /\ RowStep(id)
<1>t. /\ TypeOK /\ nextId \in Int /\ posts[id] \in Row \cup {NoRow}
      /\ posts \in [PostIds -> Row \cup {NoRow}]
  BY BoundAssumption DEF IInv, TypeOK
<1>1. ASSUME UNCHANGED <<posts, nextId>> PROVE nextId' >= nextId /\ RowStep(id)
  BY <1>1, <1>t DEF RowStep
<1>2. ASSUME NEW r \in Requests, Create(r) PROVE nextId' >= nextId /\ RowStep(id)
  <2>1. nextId \in PostIds /\ posts[nextId] = NoRow
    BY <1>2, <1>t, BoundAssumption DEF Create, FreshId, TypeOK, PostIds, IInv, RowsBelowNext
  <2>2. PICK row \in Row : posts' = [posts EXCEPT ![nextId] = row]
    BY <1>2, CreatedRow DEF Create, FreshId
  <2> QED
    BY <1>2, <1>t, <2>1, <2>2 DEF Create, FreshId, RowStep
<1>3. ASSUME NEW r \in Requests, Update(r) PROVE nextId' >= nextId /\ RowStep(id)
  <2>1. /\ target[r] \in PostIds /\ posts[target[r]] \in Row /\ UNCHANGED nextId
    BY <1>3, UpdateEffect
  <2>2. /\ posts' = [posts EXCEPT ![target[r]] = Patched(posts[target[r]], form[r])]
        /\ form[r] \in Forms
    BY <1>3, UpdateEffect
  <2> QED
    BY <1>t, <2>1, <2>2, PatchedRow DEF RowStep
<1>4. ASSUME NEW r \in Requests, Delete(r) PROVE nextId' >= nextId /\ RowStep(id)
  BY <1>4, <1>t DEF Delete, Deletable, RowStep
<1> QED
  BY <1>1, <1>2, <1>3, <1>4
  DEF Next, Quiet, vars, CreateFails, Load, LoadFails, Permit, Forbid, Get, Conflict,
      UpdateFails, DeleteFails

\* A request that holds a post either held it before, or has just read it.
LEMMA HolderStep ==
    ASSUME IInv, [Next]_vars, NEW q \in Requests, Holds(q)'
    PROVE  \/ /\ Holds(q) /\ post'[q] = post[q] /\ target'[q] = target[q] /\ op'[q] = op[q]
              /\ \/ pc'[q] = pc[q]
                 \/ post[q].user = caller[q] \/ level[caller[q]] >= RequiredLevel(q)
           \/ /\ target'[q] \in PostIds /\ posts[target'[q]] \in Row
              /\ post'[q] = posts[target'[q]]
              /\ pc'[q] = "permitted" => op'[q] # "patch"
              /\ UNCHANGED <<posts, nextId>>
<1> USE DEF IInv, TypeOK, Holds
<1>1. ASSUME NEW r \in Requests,
             \/ Create(r) \/ CreateFails(r) \/ Forbid(r) \/ Get(r) \/ Conflict(r)
             \/ UpdateFails(r) \/ Delete(r) \/ DeleteFails(r)
      PROVE  Holds(q) /\ UNCHANGED <<post[q], target[q], op[q], pc[q]>>
  BY <1>1 DEF Create, FreshId, CreateFails, Forbid, Get, Conflict, UpdateFails, Delete,
              DeleteFails, Answer
<1>2. ASSUME NEW r \in Requests, Update(r)
      PROVE  Holds(q) /\ UNCHANGED <<post[q], target[q], op[q], pc[q]>>
  <2>1. q # r
    BY <1>2 DEF Update, Answer
  <2> QED
    BY <1>2, <2>1 DEF Update, Answer
<1>3. ASSUME NEW r \in Requests, Permit(r)
      PROVE  /\ Holds(q) /\ UNCHANGED <<post[q], target[q], op[q]>>
             /\ \/ pc'[q] = pc[q]
                \/ post[q].user = caller[q] \/ level[caller[q]] >= RequiredLevel(q)
  BY <1>3 DEF Permit
<1>4. ASSUME NEW r \in Requests, NEW id \in PostIds, LoadFails(r, id)
      PROVE  Holds(q) /\ UNCHANGED <<post[q], target[q], op[q], pc[q]>>
  BY <1>4 DEF LoadFails, Answer
<1>5. ASSUME NEW r \in Requests, NEW id \in PostIds, Load(r, id), q # r
      PROVE  Holds(q) /\ UNCHANGED <<post[q], target[q], op[q], pc[q]>>
  BY <1>5 DEF Load
<1>6. ASSUME NEW r \in Requests, NEW id \in PostIds, Load(r, id), q = r
      PROVE  /\ target'[q] \in PostIds /\ posts[target'[q]] \in Row
             /\ post'[q] = posts[target'[q]]
             /\ pc'[q] = "permitted" => op'[q] # "patch"
             /\ UNCHANGED <<posts, nextId>>
  BY <1>6 DEF Load
<1>7. CASE UNCHANGED vars
  BY <1>7 DEF vars
<1> QED
  BY <1>1, <1>2, <1>3, <1>4, <1>5, <1>6, <1>7 DEF Next, Quiet

\* The inductive invariant is preserved, conjunct by conjunct.
LEMMA InvStep == IInv /\ [Next]_vars => IInv'
<1> SUFFICES ASSUME IInv, [Next]_vars PROVE IInv'
  OBVIOUS
<1>t. TypeOK /\ TypeOK'
  BY TypeStep DEF IInv
<1>n. nextId \in Int /\ nextId' \in Int /\ PostIds \subseteq Int
  BY <1>t, BoundAssumption DEF TypeOK, PostIds
<1>1. RowsBelowNext'
  <2> SUFFICES ASSUME NEW id \in PostIds, posts'[id] # NoRow PROVE id < nextId'
    BY DEF RowsBelowNext, PostIds
  <2> QED
    BY <1>n, TableStep, RowAssumption DEF RowStep, IInv, RowsBelowNext
<1>2. HeldPost'
  <2> SUFFICES ASSUME NEW q \in Requests, Holds(q)'
               PROVE  /\ target'[q] \in PostIds /\ target'[q] < nextId'
                      /\ post'[q] \in Row
                      /\ pc'[q] = "permitted" /\ op'[q] = "patch"
                            => MayUpdate(caller[q], post'[q])
    BY DEF HeldPost, PostIds, MayUpdate
  <2>1. ASSUME Holds(q), post'[q] = post[q], target'[q] = target[q], op'[q] = op[q],
               \/ pc'[q] = pc[q]
               \/ post[q].user = caller[q] \/ level[caller[q]] >= RequiredLevel(q)
        PROVE  /\ target'[q] \in PostIds /\ target'[q] < nextId'
               /\ post'[q] \in Row
               /\ pc'[q] = "permitted" /\ op'[q] = "patch"
                     => MayUpdate(caller[q], post'[q])
    <3>1. target[q] \in PostIds /\ target[q] < nextId /\ post[q] \in Row
      BY <2>1 DEF IInv, HeldPost
    <3>2. nextId' >= nextId
      BY <3>1, TableStep
    <3>3. ASSUME pc'[q] = "permitted", op'[q] = "patch"
          PROVE  MayUpdate(caller[q], post'[q])
      BY <2>1, <3>3 DEF IInv, HeldPost, MayUpdate, RequiredLevel
    <3>4. target'[q] \in PostIds /\ post'[q] \in Row
      BY <2>1, <3>1
    <3>5. target[q] \in Int
      BY <3>1, <1>n
    <3>6. target'[q] = target[q]
      BY <2>1
    <3>7. target[q] < nextId'
      BY <3>1, <3>2, <3>5, <1>n
    <3> QED
      BY <3>3, <3>4, <3>6, <3>7
  <2>2. ASSUME target'[q] \in PostIds, posts[target'[q]] \in Row,
               post'[q] = posts[target'[q]], UNCHANGED <<posts, nextId>>
        PROVE  target'[q] < nextId' /\ post'[q] \in Row
    BY <2>2, RowAssumption DEF IInv, RowsBelowNext
  <2> QED
    BY <2>1, <2>2, HolderStep
<1>3. Pending'
  <2> USE <1>t DEF IInv, Pending, TypeOK
  <2>1. ASSUME NEW r \in Requests, NEW a, Answer(r, a) PROVE Pending'
    BY <2>1 DEF Answer
  <2>2. ASSUME NEW r \in Requests, NEW s, s # "done", pc[r] # "done",
               pc' = [pc EXCEPT ![r] = s], UNCHANGED answer
        PROVE  Pending'
    BY <2>2
  <2>3. ASSUME NEW r \in Requests,
               \/ Create(r) \/ CreateFails(r) \/ Forbid(r) \/ Get(r) \/ Update(r)
               \/ Conflict(r) \/ UpdateFails(r) \/ Delete(r) \/ DeleteFails(r)
        PROVE  Pending'
    BY <2>1, <2>3 DEF Create, FreshId, CreateFails, Forbid, Get, Update, Conflict, UpdateFails,
                      Delete, DeleteFails
  <2>4. ASSUME NEW r \in Requests, NEW id \in PostIds, LoadFails(r, id) PROVE Pending'
    BY <2>1, <2>4 DEF LoadFails
  <2>5. ASSUME NEW r \in Requests, NEW id \in PostIds, Load(r, id) PROVE Pending'
    <3>1. CASE op[r] = "get"
      BY <2>2, <2>5, <3>1 DEF Load
    <3>2. CASE op[r] # "get"
      BY <2>2, <2>5, <3>2 DEF Load
    <3> QED
      BY <3>1, <3>2
  <2>6. ASSUME NEW r \in Requests, Permit(r) PROVE Pending'
    BY <2>2, <2>6 DEF Permit
  <2>7. CASE UNCHANGED vars
    BY <2>7 DEF vars
  <2> QED
    BY <2>3, <2>4, <2>5, <2>6, <2>7 DEF Next, Quiet
<1>4. VersionIdentifiesRow'
  <2> SUFFICES ASSUME NEW q \in Requests, Holds(q)', posts'[target'[q]] # NoRow
               PROVE  /\ post'[q].version <= posts'[target'[q]].version
                      /\ post'[q].version = posts'[target'[q]].version
                            => post'[q] = posts'[target'[q]]
    BY DEF VersionIdentifiesRow
  <2>1. CASE Holds(q) /\ post'[q] = post[q] /\ target'[q] = target[q]
    <3>1. target[q] \in PostIds /\ target[q] < nextId /\ post[q] \in Row
      BY <2>1 DEF IInv, HeldPost
    <3>2. RowStep(target[q])
      BY <3>1, TableStep
    <3>3. posts[target[q]] \in Row
      BY <2>1, <3>1, <3>2, <1>n, <1>t, RowAssumption DEF RowStep, TypeOK
    <3>4. post[q].version <= posts[target[q]].version
      BY <2>1, <3>3, RowAssumption DEF IInv, VersionIdentifiesRow
    <3>5. post[q].version \in Nat /\ posts[target[q]].version \in Nat
      BY <3>1, <3>3 DEF Row
    <3> QED
      BY <2>1, <3>1, <3>2, <3>3, <3>4, <3>5, <1>n, RowAssumption
      DEF RowStep, IInv, VersionIdentifiesRow
  <2>2. CASE /\ target'[q] \in PostIds /\ posts[target'[q]] \in Row
             /\ post'[q] = posts[target'[q]] /\ UNCHANGED <<posts, nextId>>
    BY <2>2 DEF Row
  <2> QED
    BY <2>1, <2>2, HolderStep
<1> QED
  BY <1>t, <1>1, <1>2, <1>3, <1>4 DEF IInv

\* The stored rows are consistent with a system in which no request has begun.
LEMMA InvInit == Init => IInv
<1> SUFFICES ASSUME Init PROVE IInv
  OBVIOUS
<1> USE DEF Init, AtomicInit
<1>1. TypeOK
  BY StoredAssumption, BoundAssumption DEF TypeOK, Answers, Ops
<1>2. RowsBelowNext
  BY StoredAssumption, BoundAssumption DEF RowsBelowNext, PostIds
<1>3. HeldPost /\ Pending /\ VersionIdentifiesRow
  BY DEF HeldPost, Pending, VersionIdentifiesRow, Holds
<1> QED
  BY <1>1, <1>2, <1>3 DEF IInv

\* The inductive invariant holds of every execution.
THEOREM Invariance == Spec => []IInv
BY InvInit, InvStep, PTL DEF Spec

\* Rows, requests and answers stay well formed.
THEOREM TypeCorrect == Spec => []TypeOK
BY Invariance, PTL DEF IInv

\* A stored version that equals the one a request read identifies the row.
THEOREM VersionsProtectRows == Spec => []VersionIdentifiesRow
BY Invariance, PTL DEF IInv

\* Every step of the handlers is an atomic request or invisible to clients.
LEMMA StepRefines == IInv /\ [Next]_vars => [AtomicNext]_atomicVars
<1> SUFFICES ASSUME IInv, [Next]_vars PROVE [AtomicNext]_atomicVars
  OBVIOUS
<1>a. ASSUME NEW r \in Requests, pc[r] # "done" PROVE answer[r] = "none"
  BY <1>a DEF IInv, Pending
<1>1. ASSUME NEW r \in Requests, Create(r) PROVE AtomicNext
  <2>1. AtomicCreate(r)
    BY <1>1, <1>a DEF Create, FreshId, Answer, AtomicCreate, Reply
  <2> QED
    BY <2>1 DEF AtomicNext
<1>2. ASSUME NEW r \in Requests, Update(r) PROVE AtomicNext
  <2>1. posts' = [posts EXCEPT ![target[r]] = Patched(posts[target[r]], form[r])]
    BY <1>2, UpdateEffect
  <2>2. /\ target[r] \in PostIds /\ posts[target[r]] # NoRow
        /\ MayUpdate(caller[r], posts[target[r]])
    BY <1>2, UpdateEffect, RowAssumption
  <2>3. AtomicUpdate(r, target[r])
    BY <1>2, <1>a, <2>1, <2>2 DEF Update, Answer, AtomicUpdate, Reply
  <2> QED
    BY <2>2, <2>3 DEF AtomicNext
<1>3. ASSUME NEW r \in Requests, Delete(r) PROVE AtomicNext
  <2>1. target[r] \in PostIds
    BY <1>3 DEF Delete, IInv, HeldPost, Holds
  <2>2. AtomicDelete(r, target[r])
    BY <1>3, <1>a DEF Delete, Deletable, Answer, AtomicDelete, Reply
  <2> QED
    BY <2>1, <2>2 DEF AtomicNext
<1>4. ASSUME NEW r \in Requests, NEW a \in Refusals \cup {"fetched", "error"},
             pc[r] # "done", Answer(r, a), UNCHANGED <<posts, nextId>>
      PROVE  AtomicNext
  BY <1>4, <1>a DEF Answer, AtomicNoEffect, AtomicNext, Reply
<1>5. ASSUME NEW r \in Requests,
             \/ CreateFails(r) \/ Forbid(r) \/ Get(r) \/ Conflict(r) \/ UpdateFails(r)
             \/ DeleteFails(r)
      PROVE  AtomicNext
  BY <1>4, <1>5 DEF CreateFails, Forbid, Get, Conflict, UpdateFails, DeleteFails, Refusals
<1>6. ASSUME NEW r \in Requests, NEW id \in PostIds, LoadFails(r, id) PROVE AtomicNext
  BY <1>4, <1>6 DEF LoadFails, Refusals
<1>7. ASSUME NEW r \in Requests,
             Permit(r) \/ \E id \in PostIds : Load(r, id)
      PROVE  UNCHANGED atomicVars
  BY <1>7 DEF Permit, Load, atomicVars
<1>8. CASE UNCHANGED vars
  BY <1>8 DEF vars, atomicVars
<1> QED
  BY <1>1, <1>2, <1>3, <1>5, <1>6, <1>7, <1>8 DEF Next, Quiet

\* The read-check-write handlers implement atomic requests: no update is lost,
\* and nobody has an effect they are not allowed.
THEOREM Refinement == Spec => RefinesAtomic
<1>1. Init => AtomicInit
  BY DEF Init
<1> QED
  BY <1>1, Invariance, StepRefines, PTL DEF Spec, RefinesAtomic, AtomicSpec

\* Who changed a row may do so, made one request, and was not told a refusal.
Authorised(id) ==
    \E r \in Requests :
        /\ \/ MayUpdate(caller[r], posts[id]) /\ posts'[id] = Patched(posts[id], form[r])
           \/ caller[r] = posts[id].user /\ posts'[id] = NoRow
        /\ answer[r] = "none" /\ answer'[r] \in {"updated", "deleted", "error"}

\* No post changes but by the patch of someone who may update the row as it is
\* then, or by its author's DELETE, however old the copy on which the middlewares
\* decided; a client that was refused, or answered before, had no part in it.
THEOREM OnlyPermittedChanges ==
    Spec => [][\A id \in PostIds :
                  posts[id] # NoRow /\ posts'[id] # posts[id] => Authorised(id)]_vars
<1>1. ASSUME IInv, AtomicNext, NEW id \in PostIds, id < nextId,
             posts[id] # NoRow, posts'[id] # posts[id]
      PROVE  Authorised(id)
  <2>0. DOMAIN posts = PostIds /\ nextId \in Int /\ answer \in [Requests -> Answers]
    BY <1>1, BoundAssumption DEF IInv, TypeOK
  <2>1. PICK r \in Requests :
           \/ AtomicCreate(r) \/ AtomicNoEffect(r)
           \/ \E i \in PostIds : AtomicUpdate(r, i) \/ AtomicDelete(r, i)
    BY <1>1 DEF AtomicNext
  <2>2. CASE AtomicCreate(r)
    BY <1>1, <2>0, <2>2 DEF AtomicCreate, PostIds
  <2>3. CASE AtomicNoEffect(r)
    BY <1>1, <2>3 DEF AtomicNoEffect
  <2>4. ASSUME NEW i \in PostIds, AtomicUpdate(r, i) PROVE Authorised(id)
    <3>1. i = id
      BY <1>1, <2>0, <2>4 DEF AtomicUpdate
    <3> QED
      BY <2>0, <2>4, <3>1 DEF AtomicUpdate, Authorised, Reply
  <2>5. ASSUME NEW i \in PostIds, AtomicDelete(r, i) PROVE Authorised(id)
    <3>1. i = id
      BY <1>1, <2>0, <2>5 DEF AtomicDelete
    <3> QED
      BY <2>0, <2>5, <3>1 DEF AtomicDelete, Authorised, Reply
  <2> QED
    BY <2>1, <2>2, <2>3, <2>4, <2>5
<1>2. IInv /\ [Next]_vars =>
          [\A id \in PostIds :
              posts[id] # NoRow /\ posts'[id] # posts[id] => Authorised(id)]_vars
  BY <1>1, StepRefines DEF IInv, RowsBelowNext, atomicVars
<1> QED
  BY <1>2, Invariance, PTL DEF Spec

\* A deleted post stays deleted, whatever requests still hold it.
THEOREM DeletedForGood == Spec => GoneForGood
<1>1. IInv /\ [Next]_vars => [StaysGone]_vars
  <2> SUFFICES ASSUME IInv, [Next]_vars, NEW id \in PostIds,
                      id < nextId, posts[id] = NoRow
               PROVE  posts'[id] = NoRow
    BY DEF StaysGone
  <2>1. RowStep(id) /\ nextId \in Int /\ id \in Int
    BY TableStep, BoundAssumption DEF IInv, TypeOK, PostIds
  <2> QED
    BY <2>1, RowAssumption DEF RowStep
<1> QED
  BY <1>1, Invariance, PTL DEF Spec, GoneForGood

\* A request that was told a version is done, and its post, if it is still
\* there, has at least that version.
Written ==
    \A r \in Requests :
        answer[r] = "updated" =>
            /\ pc[r] = "done" /\ post[r] \in Row
            /\ target[r] \in PostIds /\ target[r] < nextId
            /\ posts[target[r]] # NoRow =>
                  post[r].version <= posts[target[r]].version

\* A held post is the stored one unless another request wrote it since the read.
StaleOnlyIfWritten ==
    \A r \in Requests :
        Holds(r) => posts[target[r]] = post[r] \/ r \in overtaken

\* The inductive invariant together with what it implies about the past.
HInv == IInv /\ Written /\ StaleOnlyIfWritten /\ VersionsAreDistinct /\ ConflictIsReal

\* A request that is done has had its say: no step changes what is known of it.
LEMMA DoneStep ==
    ASSUME IInv, [Next]_vars, NEW q \in Requests, pc[q] = "done"
    PROVE  /\ pc'[q] = pc[q] /\ answer'[q] = answer[q]
           /\ post'[q] = post[q] /\ target'[q] = target[q]
<1> USE DEF IInv, TypeOK
<1>1. ASSUME NEW r \in Requests,
             \/ Create(r) \/ CreateFails(r) \/ Permit(r) \/ Forbid(r) \/ Get(r)
             \/ Conflict(r) \/ UpdateFails(r) \/ Delete(r) \/ DeleteFails(r)
             \/ \E id \in PostIds : Load(r, id) \/ LoadFails(r, id)
      PROVE  /\ pc'[q] = pc[q] /\ answer'[q] = answer[q]
             /\ post'[q] = post[q] /\ target'[q] = target[q]
    <2>1. q # r
    BY <1>1 DEF Create, FreshId, CreateFails, Permit, Forbid, Get, Conflict, UpdateFails, Delete,
                DeleteFails, Load, LoadFails
  <2> QED
    BY <1>1, <2>1 DEF Create, FreshId, CreateFails, Permit, Forbid, Get, Conflict, UpdateFails,
                      Delete, DeleteFails, Load, LoadFails, Answer
<1>2. ASSUME NEW r \in Requests, Update(r)
      PROVE  /\ pc'[q] = pc[q] /\ answer'[q] = answer[q]
             /\ post'[q] = post[q] /\ target'[q] = target[q]
    <2>1. q # r
    BY <1>2 DEF Update
  <2> QED
    BY <1>2, <2>1 DEF Update, Answer
<1>3. CASE UNCHANGED vars
  BY <1>3 DEF vars
<1> QED
  BY <1>1, <1>2, <1>3 DEF Next, Quiet

\* Who can be told "updated" or "conflict".
LEMMA OutcomeStep ==
    ASSUME IInv, [Next]_vars, NEW q \in Requests, pc[q] # "done"
    PROVE  /\ answer'[q] = "updated" => Update(q)
           /\ answer'[q] = "conflict" => Conflict(q)
<1> USE DEF IInv, TypeOK, Pending
<1>1. ASSUME NEW r \in Requests, q # r,
             \/ Create(r) \/ CreateFails(r) \/ Permit(r) \/ Forbid(r) \/ Get(r)
             \/ Update(r) \/ Conflict(r) \/ UpdateFails(r) \/ Delete(r) \/ DeleteFails(r)
             \/ \E id \in PostIds : Load(r, id) \/ LoadFails(r, id)
      PROVE  answer'[q] = "none"
  BY <1>1 DEF Create, FreshId, CreateFails, Permit, Forbid, Get, Conflict, Update, UpdateFails,
              Delete, DeleteFails, Load, LoadFails, Answer
<1>2. ASSUME \/ Create(q) \/ CreateFails(q) \/ Forbid(q) \/ Get(q)
             \/ UpdateFails(q) \/ Delete(q) \/ DeleteFails(q)
             \/ \E id \in PostIds : LoadFails(q, id)
      PROVE  answer'[q] \notin {"updated", "conflict"}
  BY <1>2 DEF Create, FreshId, CreateFails, Forbid, Get, UpdateFails, Delete, DeleteFails,
              LoadFails, Answer
<1>3. ASSUME Update(q)
      PROVE  answer'[q] # "conflict"
  BY <1>3 DEF Update, Answer
<1>4. ASSUME Conflict(q)
      PROVE  answer'[q] # "updated"
  BY <1>4 DEF Conflict, Answer
<1>5. ASSUME Permit(q) \/ \E id \in PostIds : Load(q, id)
      PROVE  answer'[q] = "none"
  BY <1>5 DEF Permit, Load
<1>6. CASE UNCHANGED vars
  BY <1>6 DEF vars
<1> QED
  BY <1>1, <1>2, <1>3, <1>4, <1>5, <1>6 DEF Next, Quiet

\* Having been overtaken by another write is for good.
LEMMA OvertakenStep == [Next]_vars => overtaken \subseteq overtaken'
  BY DEF Next, Quiet, vars, Create, CreateFails, Load, LoadFails, Permit, Forbid, Get,
         Update, Conflict, UpdateFails, Delete, DeleteFails

\* The history invariant is preserved.
LEMMA HistoryStep == HInv /\ [Next]_vars => HInv'
<1> SUFFICES ASSUME HInv, [Next]_vars PROVE HInv'
  OBVIOUS
<1>i. IInv /\ IInv'
  BY InvStep DEF HInv
<1>t. /\ TypeOK /\ TypeOK' /\ nextId \in Int /\ nextId' \in Int /\ PostIds \subseteq Int
  BY <1>i, BoundAssumption DEF IInv, TypeOK, PostIds
<1>u. ASSUME NEW q \in Requests, Update(q)
      PROVE  /\ target[q] \in PostIds /\ target[q] < nextId
             /\ UNCHANGED <<target, nextId>>
             /\ pc'[q] = "done" /\ posts[target[q]] \in Row
             /\ post'[q] \in Row /\ posts'[target[q]] = post'[q]
             /\ post'[q].version = posts[target[q]].version + 1
  <2>1. /\ target[q] \in PostIds /\ target[q] < nextId
        /\ posts[target[q]] \in Row /\ posts[target[q]] = post[q]
        /\ pc' = [pc EXCEPT ![q] = "done"] /\ UNCHANGED <<target, nextId>>
    BY <1>i, <1>u, UpdateEffect
  <2>2. /\ posts' = [posts EXCEPT ![target[q]] = Patched(posts[target[q]], form[q])]
        /\ post' = [post EXCEPT ![q] = Patched(post[q], form[q])]
        /\ form[q] \in Forms
    BY <1>i, <1>u, UpdateEffect
  <2>3. /\ posts'[target[q]] = Patched(posts[target[q]], form[q])
        /\ post'[q] = Patched(posts[target[q]], form[q])
    BY <1>t, <2>1, <2>2 DEF TypeOK
  <2>4. pc'[q] = "done"
    BY <1>t, <2>1 DEF TypeOK
  <2> QED
    BY <2>1, <2>2, <2>3, <2>4, PatchedRow
<1>1. Written'
  <2> SUFFICES ASSUME NEW q \in Requests
               PROVE  answer'[q] = "updated" =>
                          /\ pc'[q] = "done" /\ post'[q] \in Row
                          /\ target'[q] \in PostIds /\ target'[q] < nextId'
                          /\ posts'[target'[q]] # NoRow =>
                                post'[q].version <= posts'[target'[q]].version
    BY DEF Written, PostIds
  <2>1. CASE pc[q] = "done"
    <3>1. /\ pc'[q] = pc[q] /\ answer'[q] = answer[q]
          /\ post'[q] = post[q] /\ target'[q] = target[q]
      BY <1>i, <2>1, DoneStep
    <3>2. ASSUME answer[q] = "updated"
          PROVE  /\ target[q] < nextId'
                 /\ posts'[target[q]] # NoRow => post[q].version <= posts'[target[q]].version
      <4>1. /\ post[q] \in Row /\ target[q] \in PostIds /\ target[q] < nextId
            /\ posts[target[q]] # NoRow => post[q].version <= posts[target[q]].version
        BY <3>2 DEF HInv, Written
      <4>2. RowStep(target[q]) /\ nextId' >= nextId
        BY <1>i, <4>1, TableStep
      <4>3. target[q] \in Int /\ post[q].version \in Nat
        BY <1>t, <4>1 DEF Row
      <4>4. target[q] < nextId'
        BY <1>t, <4>1, <4>2, <4>3
      <4>5. ASSUME posts'[target[q]] # NoRow
            PROVE  post[q].version <= posts'[target[q]].version
        <5>1. posts[target[q]] \in Row /\ posts[target[q]].version \in Nat
          BY <1>t, <4>1, <4>2, <4>3, <4>5 DEF RowStep, TypeOK, Row
        <5>2. \/ posts'[target[q]] = posts[target[q]]
              \/ posts'[target[q]].version = posts[target[q]].version + 1
          BY <1>t, <4>1, <4>2, <4>3, <4>5 DEF RowStep
        <5> QED
          BY <4>1, <4>3, <5>1, <5>2, RowAssumption
      <4> QED
        BY <4>4, <4>5
    <3> QED
      BY <2>1, <3>1, <3>2 DEF HInv, Written
  <2>2. CASE pc[q] # "done"
    <3>1. ASSUME answer'[q] = "updated"
          PROVE  /\ pc'[q] = "done" /\ post'[q] \in Row
                 /\ target'[q] \in PostIds /\ target'[q] < nextId'
                 /\ post'[q].version <= posts'[target'[q]].version
      <4>1. Update(q)
        BY <1>i, <2>2, <3>1, OutcomeStep
      <4> QED
        BY <1>u, <4>1 DEF Row
    <3> QED
      BY <1>i, <2>2, <3>1, OutcomeStep
  <2> QED
    BY <2>1, <2>2
<1>2. VersionsAreDistinct'
  <2>1. ASSUME NEW q \in Requests, NEW r \in Requests, q # r, target'[q] = target'[r],
               answer'[q] = "updated", answer'[r] = "updated",
               pc[q] = "done", pc[r] # "done"
        PROVE  post'[q].version # post'[r].version
    <3>1. Update(r)
      BY <1>i, <2>1, OutcomeStep
    <3>2. post'[q] = post[q] /\ target'[q] = target[q] /\ answer[q] = "updated"
      BY <1>i, <2>1, DoneStep
    <3>3. target[q] = target[r] /\ posts[target[r]] \in Row
      BY <1>u, <2>1, <3>1, <3>2
    <3>4. post[q] \in Row /\ post[q].version <= posts[target[r]].version
      BY <3>2, <3>3, RowAssumption DEF HInv, Written
    <3> QED
      BY <1>u, <3>1, <3>2, <3>3, <3>4 DEF Row
  <2>2. ASSUME NEW q \in Requests, NEW r \in Requests, q # r, target'[q] = target'[r],
               answer'[q] = "updated", answer'[r] = "updated",
               pc[q] = "done", pc[r] = "done"
        PROVE  post'[q].version # post'[r].version
    BY <1>i, <2>2, DoneStep DEF HInv, VersionsAreDistinct
  <2>3. ASSUME NEW q \in Requests, NEW r \in Requests, q # r,
               answer'[q] = "updated", answer'[r] = "updated"
        PROVE  pc[q] = "done" \/ pc[r] = "done"
    <3>1. CASE pc[q] # "done" /\ pc[r] # "done"
      <4>1. Update(q) /\ Update(r)
        BY <1>i, <2>3, <3>1, OutcomeStep
      <4> QED
        BY <1>t, <2>3, <3>1, <4>1 DEF Update, Answer, TypeOK
    <3> QED
      BY <3>1
  <2> QED
    BY <2>1, <2>2, <2>3 DEF VersionsAreDistinct
<1>3. StaleOnlyIfWritten'
  <2> SUFFICES ASSUME NEW q \in Requests, Holds(q)'
               PROVE  posts'[target'[q]] = post'[q] \/ q \in overtaken'
    BY DEF StaleOnlyIfWritten
  <2>1. CASE Holds(q) /\ post'[q] = post[q] /\ target'[q] = target[q]
    <3>1. target[q] \in PostIds /\ target[q] < nextId
      BY <1>i, <2>1 DEF IInv, HeldPost
    <3>2. CASE q \in overtaken
      BY <3>2, OvertakenStep
    <3>3. CASE posts[target[q]] = post[q] /\ posts'[target[q]] # posts[target[q]]
      <4>1. PICK r \in Requests : Create(r) \/ Update(r) \/ Delete(r)
        BY <3>3 DEF Next, Quiet, vars, CreateFails, Load, LoadFails, Permit, Forbid, Get,
                    Conflict, UpdateFails, DeleteFails
      <4>2. ~Create(r)
        BY <1>t, <3>1, <3>3 DEF Create, FreshId, TypeOK
      <4>3. CASE Update(r)
        <5>1. target[r] = target[q]
          BY <1>i, <1>t, <3>1, <3>3, <4>3, UpdateEffect DEF TypeOK
        <5>2. pc'[r] = "done" /\ overtaken' = overtaken \cup Overtakes(r)
          BY <1>t, <4>3 DEF Update, Answer, TypeOK
        <5> QED
          BY <2>1, <5>1, <5>2 DEF Overtakes, Holds
      <4>4. CASE Delete(r)
        <5>1. target[r] = target[q]
          BY <1>t, <3>1, <3>3, <4>4 DEF Delete, TypeOK
        <5>2. pc'[r] = "done" /\ overtaken' = overtaken \cup Overtakes(r)
          BY <1>t, <4>4 DEF Delete, Answer, TypeOK
        <5> QED
          BY <2>1, <5>1, <5>2 DEF Overtakes, Holds
      <4> QED
        BY <4>1, <4>2, <4>3, <4>4
    <3> QED
      BY <2>1, <3>2, <3>3 DEF HInv, StaleOnlyIfWritten
  <2>2. CASE post'[q] = posts[target'[q]] /\ UNCHANGED posts
    BY <2>2
  <2> QED
    BY <1>i, <2>1, <2>2, HolderStep
<1>4. ConflictIsReal'
  <2> SUFFICES ASSUME NEW q \in Requests, answer'[q] = "conflict" PROVE q \in overtaken
    BY OvertakenStep DEF ConflictIsReal
  <2>1. CASE pc[q] = "done"
    BY <1>i, <2>1, DoneStep DEF HInv, ConflictIsReal
  <2>2. CASE pc[q] # "done"
    <3>1. Conflict(q)
      BY <1>i, <2>2, OutcomeStep
    <3>2. Holds(q) /\ post[q] \in Row /\ posts[target[q]] # post[q]
      BY <1>i, <3>1, RowAssumption DEF Conflict, Matches, Holds, IInv, HeldPost
    <3> QED
      BY <3>2 DEF HInv, StaleOnlyIfWritten
  <2> QED
    BY <2>1, <2>2
<1> QED
  BY <1>i, <1>1, <1>2, <1>3, <1>4 DEF HInv

\* The history invariant holds of every execution.
LEMMA HistoryInvariance == Spec => []HInv
<1>1. Init => HInv
  BY InvInit DEF Init, AtomicInit, HInv, Written, StaleOnlyIfWritten, VersionsAreDistinct,
                 ConflictIsReal, Holds
<1> QED
  BY <1>1, HistoryStep, PTL DEF Spec

\* No two clients are told that they made the same version of a post, however
\* their requests interleave and whichever acknowledgements are lost.
THEOREM DistinctVersions == Spec => []VersionsAreDistinct
BY HistoryInvariance, PTL DEF HInv

\* A request answered 409 was overtaken: another one's write of the post took
\* effect between its own read and its own UPDATE.
THEOREM RealConflicts == Spec => []ConflictIsReal
BY HistoryInvariance, PTL DEF HInv
=============================================================================
