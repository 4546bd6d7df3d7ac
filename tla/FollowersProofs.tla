--------------------------- MODULE FollowersProofs ---------------------------
(***************************************************************************)
(* For any number of requests and users: the handlers implement            *)
(* FollowGraph, no row of followers names a user who is gone, and the      *)
(* answers account for the rows of those who are there.                    *)
(***************************************************************************)
EXTENDS Followers, FiniteSetTheorems, TLAPS

IInv == TypeOK /\ RowsHaveUsers

\* A request moves on or is answered.
LEMMA AnswerKeepsTypes ==
    ASSUME TypeOK, NEW r \in Requests, pc[r] # "done",
           \/ answer' = [answer EXCEPT ![r] = "201"]
           \/ answer' = [answer EXCEPT ![r] = "204"]
           \/ answer' = [answer EXCEPT ![r] = "400"]
           \/ answer' = [answer EXCEPT ![r] = "401"]
           \/ answer' = [answer EXCEPT ![r] = "404"]
           \/ answer' = [answer EXCEPT ![r] = "409"]
           \/ answer' = [answer EXCEPT ![r] = "500"],
           pc' = [pc EXCEPT ![r] = "done"]
    PROVE  /\ answer' \in [Requests -> Answers]
           /\ pc' \in [Requests -> {"new", "authenticated", "loaded", "done"}]
           /\ \A q \in Requests : answer'[q] # "none" <=> pc'[q] = "done"
BY DEF TypeOK, Answers

LEMMA TypeInit == Init => TypeOK
BY DEF Init, TypeOK, Answers, Ops

LEMMA TypeStep == TypeOK /\ [Next]_vars => TypeOK'
<1> SUFFICES ASSUME TypeOK, [Next]_vars PROVE TypeOK'
  OBVIOUS
<1> USE CallerAssumption DEF TypeOK
<1>1. CASE UNCHANGED vars
  BY <1>1 DEF vars
<1>2. ASSUME NEW r \in Requests, Authenticate(r) \/ LoadUser(r) PROVE TypeOK'
  BY <1>2 DEF Authenticate, LoadUser
<1>3. ASSUME NEW r \in Requests,
             \/ Unauthenticated(r) \/ LoadUserFails(r)
             \/ FollowConflicts(r) \/ FollowFails(r)
             \/ UnfollowMissing(r) \/ UnfollowFails(r)
      PROVE  TypeOK'
  <2>1. UNCHANGED <<users, followers, op, before>> /\ pc[r] # "done"
    BY <1>3 DEF Unauthenticated, LoadUserFails, FollowConflicts, FollowFails,
                UnfollowMissing, UnfollowFails
  <2>2. \/ Answer(r, "401") \/ Answer(r, "404") \/ Answer(r, "400")
        \/ Answer(r, "500") \/ Answer(r, "409")
    BY <1>3 DEF Unauthenticated, LoadUserFails, FollowConflicts, FollowFails,
                UnfollowMissing, UnfollowFails, Reply
  <2>3. /\ answer' \in [Requests -> Answers]
        /\ pc' \in [Requests -> {"new", "authenticated", "loaded", "done"}]
        /\ \A q \in Requests : answer'[q] # "none" <=> pc'[q] = "done"
    BY <2>1, <2>2, AnswerKeepsTypes DEF Answer
  <2> QED
    BY <2>1, <2>3
<1>4. ASSUME NEW r \in Requests, Follow(r) \/ Unfollow(r) PROVE TypeOK'
  <2>1. UNCHANGED <<users, op, before>> /\ pc[r] # "done"
    BY <1>4 DEF Follow, Unfollow
  <2>2. Answer(r, "201") \/ Answer(r, "204") \/ Answer(r, "500")
    BY <1>4 DEF Follow, Unfollow, Reply
  <2>3. /\ answer' \in [Requests -> Answers]
        /\ pc' \in [Requests -> {"new", "authenticated", "loaded", "done"}]
        /\ \A q \in Requests : answer'[q] # "none" <=> pc'[q] = "done"
    BY <2>1, <2>2, AnswerKeepsTypes DEF Answer
  <2>4. followers' \in [Users -> SUBSET Users]
    BY <1>4 DEF Follow, Unfollow, Inserted, Deleted
  <2> QED
    BY <2>1, <2>3, <2>4
<1>5. ASSUME NEW u \in Users, RemoveUser(u) PROVE TypeOK'
  BY <1>5 DEF RemoveUser, Cascaded
<1> QED
  BY <1>1, <1>2, <1>3, <1>4, <1>5 DEF Next, Quiet

LEMMA RowsStep == IInv /\ [Next]_vars => RowsHaveUsers'
<1> SUFFICES ASSUME IInv, [Next]_vars PROVE RowsHaveUsers'
  OBVIOUS
<1> USE CallerAssumption DEF IInv, TypeOK, RowsHaveUsers
<1>1. CASE UNCHANGED <<users, followers>>
  BY <1>1
<1>2. ASSUME NEW r \in Requests, Follow(r) PROVE RowsHaveUsers'
  BY <1>2 DEF Follow, Inserted, ForeignKeys
<1>3. ASSUME NEW r \in Requests, Unfollow(r) PROVE RowsHaveUsers'
  BY <1>3 DEF Unfollow, Deleted
<1>4. ASSUME NEW u \in Users, RemoveUser(u) PROVE RowsHaveUsers'
  BY <1>4 DEF RemoveUser, Cascaded
<1> QED
  BY <1>1, <1>2, <1>3, <1>4
  DEF Next, Quiet, vars, Authenticate, Unauthenticated, LoadUser, LoadUserFails,
      FollowConflicts, FollowFails, UnfollowMissing, UnfollowFails

LEMMA Invariant == Spec => []IInv
<1>1. Init => IInv
  BY TypeInit DEF Init, IInv, RowsHaveUsers
<1>2. IInv /\ [Next]_vars => IInv'
  BY TypeStep, RowsStep DEF IInv
<1> QED
  BY <1>1, <1>2, PTL DEF Spec

\* Rows, requests and answers stay well formed, and a request is answered once, for
\* any number of requests.
THEOREM TypeCorrect == Spec => []TypeOK
<1>1. IInv => TypeOK
  BY DEF IInv
<1> QED
  BY <1>1, Invariant, PTL

\* The foreign keys and their cascades keep the relation about users who are there,
\* however old the lookups of the handlers are.
THEOREM NoRowAboutNobody == Spec => []RowsHaveUsers
<1>1. IInv => RowsHaveUsers
  BY DEF IInv
<1> QED
  BY <1>1, Invariant, PTL

\* What FollowGraph sees of the state.
Relation == {p \in Users \X Users : p[1] \in followers[p[2]]}
Known == [r \in Requests |-> Meaning(answer[r])]

LEMMA PairInRelation ==
    ASSUME NEW r \in Requests
    PROVE  /\ <<caller[r], path[r]>> \in Users \X Users
           /\ <<caller[r], path[r]>> \in Relation <=> caller[r] \in followers[path[r]]
BY CallerAssumption DEF Relation

\* The client of a request is told once.
LEMMA KnownStep ==
    ASSUME TypeOK, NEW r \in Requests, pc[r] # "done", NEW a \in Answers, Answer(r, a)
    PROVE  Known[r] = "none" /\ Known' = [Known EXCEPT ![r] = Meaning(a)]
<1>1. answer[r] = "none" /\ answer' = [answer EXCEPT ![r] = a] /\ answer \in [Requests -> Answers]
  BY DEF TypeOK, Answer
<1>2. \A q \in Requests : answer'[q] = IF q = r THEN a ELSE answer[q]
  BY <1>1
<1>3. Known' = [q \in Requests |-> Meaning(answer'[q])]
  BY DEF Known
<1> QED
  BY <1>1, <1>2, <1>3 DEF Known, Meaning

LEMMA InsertedRelation ==
    ASSUME TypeOK, NEW r \in Requests, followers' = Inserted(r)
    PROVE  Relation' = Relation \cup {<<caller[r], path[r]>>}
BY CallerAssumption DEF TypeOK, Inserted, Relation

LEMMA DeletedRelation ==
    ASSUME TypeOK, NEW r \in Requests, followers' = Deleted(r)
    PROVE  Relation' = Relation \ {<<caller[r], path[r]>>}
BY CallerAssumption DEF TypeOK, Deleted, Relation

LEMMA CascadedRelation ==
    ASSUME TypeOK, NEW u \in Users, followers' = Cascaded(u)
    PROVE  Relation' = {p \in Relation : p[1] # u /\ p[2] # u}
BY DEF TypeOK, Cascaded, Relation

LEMMA StepRefines == IInv /\ [Next]_vars => [Graph!GraphNext]_<<users, Relation, Known>>
<1> SUFFICES ASSUME IInv, [Next]_vars
             PROVE  Graph!GraphNext \/ UNCHANGED <<users, Relation, Known>>
  OBVIOUS
<1>0. TypeOK /\ RowsHaveUsers
  BY DEF IInv
<1>1. ASSUME UNCHANGED <<users, followers, answer>>
      PROVE  UNCHANGED <<users, Relation, Known>>
  BY <1>1 DEF Relation, Known
<1>2. ASSUME NEW r \in Requests, NEW a \in {"201", "500"}, pc[r] # "done",
             Follow(r), Answer(r, a)
      PROVE  Graph!AtomicFollow(r)
  <2>1. /\ <<caller[r], path[r]>> \notin Relation
        /\ caller[r] \in users /\ path[r] \in users
        /\ Relation' = Relation \cup {<<caller[r], path[r]>>}
        /\ UNCHANGED users
    BY <1>0, <1>2, PairInRelation, InsertedRelation DEF Follow, ForeignKeys
  <2>2. Known[r] = "none" /\ Known' = [Known EXCEPT ![r] = Meaning(a)]
    BY <1>0, <1>2, KnownStep DEF Answers
  <2>3. Meaning(a) \in {"following", "unknown"}
    BY <1>2 DEF Meaning
  <2> QED
    BY <2>1, <2>2, <2>3 DEF Graph!AtomicFollow, Graph!Pair, Graph!Tell, Relation, Known
<1>3. ASSUME NEW r \in Requests, NEW a \in {"204", "500"}, pc[r] # "done",
             Unfollow(r), Answer(r, a)
      PROVE  Graph!AtomicUnfollow(r)
  <2>1. /\ <<caller[r], path[r]>> \in Relation
        /\ Relation' = Relation \ {<<caller[r], path[r]>>}
        /\ UNCHANGED users
    BY <1>0, <1>3, PairInRelation, DeletedRelation DEF Unfollow
  <2>2. Known[r] = "none" /\ Known' = [Known EXCEPT ![r] = Meaning(a)]
    BY <1>0, <1>3, KnownStep DEF Answers
  <2>3. Meaning(a) \in {"unfollowed", "unknown"}
    BY <1>3 DEF Meaning
  <2> QED
    BY <2>1, <2>2, <2>3 DEF Graph!AtomicUnfollow, Graph!Pair, Graph!Tell, Relation, Known
<1>4. ASSUME NEW r \in Requests, NEW a \in Answers, pc[r] # "done", Answer(r, a),
             UNCHANGED <<users, followers>>,
             \/ a \in {"400", "401", "500"}
             \/ a = "409" /\ caller[r] \in followers[path[r]]
             \/ a = "404" /\ caller[r] \notin followers[path[r]]
      PROVE  Graph!NoEffect(r)
  <2>1. UNCHANGED <<users, Relation>>
    BY <1>4 DEF Relation
  <2>2. Known[r] = "none" /\ Known' = [Known EXCEPT ![r] = Meaning(a)]
    BY <1>0, <1>4, KnownStep
  <2>3. \/ Meaning(a) \in {"denied", "unknown"}
        \/ Meaning(a) = "already" /\ <<caller[r], path[r]>> \in Relation
        \/ Meaning(a) = "absent" /\ <<caller[r], path[r]>> \notin Relation
    BY <1>4, PairInRelation DEF Meaning
  <2> QED
    BY <2>1, <2>2, <2>3 DEF Graph!NoEffect, Graph!Pair, Graph!Tell, Relation, Known
<1>5. ASSUME NEW r \in Requests, Follow(r) PROVE Graph!AtomicFollow(r)
  <2>1. pc[r] # "done" /\ (Answer(r, "201") \/ Answer(r, "500"))
    BY <1>5 DEF Follow, Reply
  <2> QED
    BY <1>2, <1>5, <2>1
<1>6. ASSUME NEW r \in Requests, Unfollow(r) PROVE Graph!AtomicUnfollow(r)
  <2>1. pc[r] # "done" /\ (Answer(r, "204") \/ Answer(r, "500"))
    BY <1>6 DEF Unfollow, Reply
  <2> QED
    BY <1>3, <1>6, <2>1
<1>7. ASSUME NEW r \in Requests, LoadUserFails(r) PROVE Graph!NoEffect(r)
  <2>1. path[r] \notin users => caller[r] \notin followers[path[r]]
    BY <1>0, CallerAssumption DEF RowsHaveUsers
  <2>2. /\ pc[r] # "done" /\ UNCHANGED <<users, followers>>
        /\ \/ path[r] \notin users /\ Answer(r, "404")
           \/ Answer(r, "400")
           \/ Answer(r, "500")
    BY <1>7 DEF LoadUserFails
  <2> QED
    BY <1>4, <2>1, <2>2 DEF Answers
<1>8. ASSUME NEW r \in Requests,
             \/ Unauthenticated(r) \/ FollowConflicts(r) \/ FollowFails(r)
             \/ UnfollowMissing(r) \/ UnfollowFails(r)
      PROVE  Graph!NoEffect(r)
  <2>1. pc[r] # "done" /\ UNCHANGED <<users, followers>>
    BY <1>8 DEF Unauthenticated, FollowConflicts, FollowFails, UnfollowMissing, UnfollowFails
  <2>2. \/ Answer(r, "401") \/ Answer(r, "500")
        \/ Answer(r, "409") /\ caller[r] \in followers[path[r]]
        \/ Answer(r, "404") /\ caller[r] \notin followers[path[r]]
    BY <1>8 DEF Unauthenticated, FollowConflicts, FollowFails, UnfollowMissing, UnfollowFails,
                Reply
  <2> QED
    BY <1>4, <2>1, <2>2 DEF Answers
<1>9. ASSUME NEW u \in Users, RemoveUser(u) PROVE Graph!AtomicRemove(u)
  <2>1. /\ u \in users /\ users' = users \ {u}
        /\ Relation' = {p \in Relation : p[1] # u /\ p[2] # u}
        /\ UNCHANGED Known
    BY <1>0, <1>9, CascadedRelation DEF RemoveUser, Known
  <2> QED
    BY <2>1 DEF Graph!AtomicRemove, Relation, Known
<1>10. CASE UNCHANGED vars \/ Quiet
  BY <1>1, <1>10 DEF vars, Quiet
<1>11. ASSUME NEW r \in Requests, Authenticate(r) \/ LoadUser(r)
       PROVE  UNCHANGED <<users, followers, answer>>
  BY <1>11 DEF Authenticate, LoadUser
<1> QED
  BY <1>1, <1>5, <1>6, <1>7, <1>8, <1>9, <1>10, <1>11 DEF Next, Graph!GraphNext

\* Reading, checking and writing in separate steps, the handlers behave as if each
\* request changed the relation at once and its answer were true of it.
THEOREM Refinement == Spec => RefinesGraph
<1>1. Init => Graph!GraphInit
  <2> SUFFICES ASSUME Init PROVE Graph!GraphInit
    OBVIOUS
  <2>1. Known = [r \in Requests |-> "none"]
    BY DEF Init, Known, Meaning
  <2>2. users = Users /\ Relation \in SUBSET (Users \X Users)
    BY DEF Init, Relation
  <2> QED
    BY <2>1, <2>2 DEF Graph!GraphInit, Known, Relation
<1>2. IInv /\ [Next]_vars => [Graph!GraphNext]_Graph!graphVars
  BY StepRefines DEF Graph!graphVars, Relation, Known
<1> QED
  BY <1>1, <1>2, Invariant, PTL DEF Spec, RefinesGraph, Graph!GraphSpec

\* A row comes or goes only by a request of the follower himself, about that user,
\* to which no refusal was answered, or with one of the two users.
THEOREM OnlyOwnRows ==
    Spec => [][\A u, v \in users' :
                  (v \in followers'[u]) # (v \in followers[u]) =>
                      \E r \in Requests :
                          /\ caller[r] = v /\ path[r] = u
                          /\ answer[r] = "none"
                          /\ answer'[r] \in IF v \in followers'[u]
                                            THEN {"201", "500"} ELSE {"204", "500"}]_vars
<1> DEFINE Own(u, v) ==
        (v \in followers'[u]) # (v \in followers[u]) =>
            \E r \in Requests :
                /\ caller[r] = v /\ path[r] = u
                /\ answer[r] = "none"
                /\ answer'[r] \in IF v \in followers'[u]
                                  THEN {"201", "500"} ELSE {"204", "500"}
<1>1. ASSUME TypeOK, [Next]_vars, NEW u \in users', NEW v \in users'
      PROVE  Own(u, v)
  <2> USE CallerAssumption DEF TypeOK
  <2>1. ASSUME NEW r \in Requests, Follow(r) PROVE Own(u, v)
    BY <1>1, <2>1 DEF Follow, Inserted, Reply, Answer, Answers
  <2>2. ASSUME NEW r \in Requests, Unfollow(r) PROVE Own(u, v)
    BY <1>1, <2>2 DEF Unfollow, Deleted, Reply, Answer, Answers
  <2>3. ASSUME NEW w \in Users, RemoveUser(w) PROVE Own(u, v)
    BY <1>1, <2>3 DEF RemoveUser, Cascaded
  <2>4. CASE UNCHANGED followers
    BY <2>4
  <2> QED
    BY <1>1, <2>1, <2>2, <2>3, <2>4
    DEF Next, Quiet, vars, Authenticate, Unauthenticated, LoadUser, LoadUserFails,
        FollowConflicts, FollowFails, UnfollowMissing, UnfollowFails
<1>2. TypeOK /\ [Next]_vars => [\A u, v \in users' : Own(u, v)]_vars
  BY <1>1
<1> QED
  BY <1>2, TypeCorrect, PTL DEF Spec

-----------------------------------------------------------------------------
(* The answers account for the relation.                                    *)

\* A request that is answered counts once, for its caller, path and operation.
LEMMA AnsweredStep ==
    ASSUME TypeOK, NEW r \in Requests, pc[r] # "done", NEW a \in Answers, Answer(r, a),
           UNCHANGED op, NEW u, NEW v, NEW o, NEW b \in Answers \ {"none"}
    PROVE  /\ Cardinality(Answered(u, v, o, {b})) \in Nat
           /\ Cardinality(Answered(u, v, o, {b})') =
                  IF caller[r] = u /\ path[r] = v /\ op[r] = o /\ a = b
                  THEN Cardinality(Answered(u, v, o, {b})) + 1
                  ELSE Cardinality(Answered(u, v, o, {b}))
<1> DEFINE S == Answered(u, v, o, {b})
<1>1. IsFiniteSet(S) /\ Cardinality(S) \in Nat
  <2>1. S \subseteq Requests
    BY DEF Answered
  <2> QED
    BY <2>1, RequestsAssumption, FS_Subset, FS_CardinalityType
<1>2. r \notin S
  BY DEF Answered, TypeOK
<1>3. \A q \in Requests : answer'[q] = IF q = r THEN a ELSE answer[q]
  BY DEF Answer, TypeOK
<1>4. S' = IF caller[r] = u /\ path[r] = v /\ op[r] = o /\ a = b THEN S \cup {r} ELSE S
  BY <1>2, <1>3 DEF Answered
<1>5. Cardinality(S \cup {r}) = Cardinality(S) + 1
  BY <1>1, <1>2, FS_AddElement
<1> HIDE DEF S
<1> QED
  BY <1>1, <1>4, <1>5 DEF S

\* Between one user and another.
Balance(u, v) ==
    LET follow == Cardinality(Answered(u, v, "follow", {"201"}))
        unfollow == Cardinality(Answered(u, v, "unfollow", {"204"}))
        maybeFollow == Cardinality(Answered(u, v, "follow", {"500"}))
        maybeUnfollow == Cardinality(Answered(u, v, "unfollow", {"500"}))
        surplus == Count(u, v, followers) - Count(u, v, before) - follow + unfollow
    IN  surplus \in (-maybeUnfollow)..maybeFollow

\* Whatever a request does to the rows, its answer says, or is one after which
\* the client does not know.
LEMMA BalanceStep ==
    ASSUME TypeOK, NEW r \in Requests, pc[r] # "done", NEW a \in Answers, Answer(r, a),
           UNCHANGED <<op, before>>,
           \/ /\ a \in {"201", "500"} /\ op[r] = "follow"
              /\ caller[r] \notin followers[path[r]] /\ followers' = Inserted(r)
           \/ /\ a \in {"204", "500"} /\ op[r] = "unfollow"
              /\ caller[r] \in followers[path[r]] /\ followers' = Deleted(r)
           \/ a \notin {"201", "204"} /\ UNCHANGED followers,
           NEW u \in Users, NEW v \in Users, Balance(u, v)
    PROVE  Balance(u, v)'
<1> DEFINE F == Cardinality(Answered(u, v, "follow", {"201"}))
           U == Cardinality(Answered(u, v, "unfollow", {"204"}))
           MF == Cardinality(Answered(u, v, "follow", {"500"}))
           MU == Cardinality(Answered(u, v, "unfollow", {"500"}))
           C == Count(u, v, followers)
           B == Count(u, v, before)
<1> DEFINE mine == caller[r] = u /\ path[r] = v
<1>1. op[r] \in {"follow", "unfollow"}
  BY DEF TypeOK, Ops
<1>2. /\ F \in Nat /\ F' = IF mine /\ op[r] = "follow" /\ a = "201" THEN F + 1 ELSE F
      /\ MF \in Nat /\ MF' = IF mine /\ op[r] = "follow" /\ a = "500" THEN MF + 1 ELSE MF
      /\ U \in Nat /\ U' = IF mine /\ op[r] = "unfollow" /\ a = "204" THEN U + 1 ELSE U
      /\ MU \in Nat /\ MU' = IF mine /\ op[r] = "unfollow" /\ a = "500" THEN MU + 1 ELSE MU
  <2>1. {"201", "204", "500"} \subseteq Answers \ {"none"}
    BY DEF Answers
  <2> QED
    BY <2>1, AnsweredStep
<1>3. C \in {0, 1} /\ B \in {0, 1} /\ B' = B
  BY DEF Count
<1>4. \/ mine /\ op[r] = "follow" /\ a \in {"201", "500"} /\ C' = C + 1
      \/ mine /\ op[r] = "unfollow" /\ a \in {"204", "500"} /\ C' = C - 1
      \/ ~mine /\ C' = C
      \/ a \notin {"201", "204"} /\ C' = C
  <2>1. CASE op[r] = "follow" /\ a \in {"201", "500"}
             /\ caller[r] \notin followers[path[r]] /\ followers' = Inserted(r)
    BY <2>1, CallerAssumption DEF Inserted, Count, TypeOK
  <2>2. CASE op[r] = "unfollow" /\ a \in {"204", "500"}
             /\ caller[r] \in followers[path[r]] /\ followers' = Deleted(r)
    BY <2>2, CallerAssumption DEF Deleted, Count, TypeOK
  <2>3. CASE a \notin {"201", "204"} /\ UNCHANGED followers
    BY <2>3 DEF Count
  <2> QED
    BY <2>1, <2>2, <2>3
<1>5. C - B - F + U \in (-MU)..MF
  BY DEF Balance
<1> HIDE DEF F, U, MF, MU, C, B, mine
<1>6. C' - B' - F' + U' \in (-MU')..MF'
  BY <1>1, <1>2, <1>3, <1>4, <1>5
<1> QED
  BY <1>6 DEF Balance, F, U, MF, MU, C, B

LEMMA BalanceInit == Init => \A u, v \in users : Balance(u, v)
<1> SUFFICES ASSUME Init, NEW u \in users, NEW v \in users PROVE Balance(u, v)
  OBVIOUS
<1>1. \A o : \A b \in {"201", "204", "500"} : Answered(u, v, o, {b}) = {}
  BY DEF Init, Answered
<1>2. Count(u, v, followers) = Count(u, v, before) /\ Count(u, v, before) \in {0, 1}
  BY DEF Init, Count
<1>3. /\ Cardinality(Answered(u, v, "follow", {"201"})) = 0
      /\ Cardinality(Answered(u, v, "unfollow", {"204"})) = 0
      /\ Cardinality(Answered(u, v, "follow", {"500"})) = 0
      /\ Cardinality(Answered(u, v, "unfollow", {"500"})) = 0
  BY <1>1, FS_EmptySet
<1>4. Count(u, v, followers) - Count(u, v, before) = 0
  BY <1>2
<1> QED
  BY <1>3, <1>4 DEF Balance

\* A user who is removed takes only pairs of his own along.
LEMMA BalanceKept ==
    ASSUME TypeOK, [Next]_vars, \A u, v \in users : Balance(u, v)
    PROVE  (\A u, v \in users : Balance(u, v))'
<1>1. ASSUME NEW u \in Users, NEW v \in Users, Balance(u, v),
             Count(u, v, followers') = Count(u, v, followers),
             UNCHANGED <<op, answer, before>>
      PROVE  Balance(u, v)'
  BY <1>1 DEF Balance, Answered, Count
<1>2. ASSUME NEW r \in Requests, Follow(r), NEW u \in users', NEW v \in users'
      PROVE  Balance(u, v)'
  <2>1. PICK a \in {"201", "500"} : Answer(r, a)
    BY <1>2 DEF Follow, Reply
  <2> QED
    BY <1>2, <2>1, BalanceStep DEF Follow, TypeOK, Answers
<1>3. ASSUME NEW r \in Requests, Unfollow(r), NEW u \in users', NEW v \in users'
      PROVE  Balance(u, v)'
  <2>1. PICK a \in {"204", "500"} : Answer(r, a)
    BY <1>3 DEF Unfollow, Reply
  <2> QED
    BY <1>3, <2>1, BalanceStep DEF Unfollow, TypeOK, Answers
<1>4. ASSUME NEW r \in Requests,
             \/ Unauthenticated(r) \/ LoadUserFails(r)
             \/ FollowConflicts(r) \/ FollowFails(r)
             \/ UnfollowMissing(r) \/ UnfollowFails(r),
             NEW u \in users', NEW v \in users'
      PROVE  Balance(u, v)'
  <2>1. pc[r] # "done" /\ UNCHANGED <<users, followers, op, before>>
    BY <1>4 DEF Unauthenticated, LoadUserFails, FollowConflicts, FollowFails,
                UnfollowMissing, UnfollowFails
  <2>2. PICK a \in {"400", "401", "404", "409", "500"} : Answer(r, a)
    BY <1>4 DEF Unauthenticated, LoadUserFails, FollowConflicts, FollowFails,
                UnfollowMissing, UnfollowFails, Reply
  <2> QED
    BY <2>1, <2>2, BalanceStep DEF TypeOK, Answers
<1>5. ASSUME NEW w \in Users, RemoveUser(w), NEW u \in users', NEW v \in users'
      PROVE  Balance(u, v)'
  <2>1. /\ u \in users \ {w} /\ v \in users \ {w} /\ u \in Users /\ v \in Users
        /\ UNCHANGED <<op, answer, before>>
    BY <1>5 DEF RemoveUser, TypeOK
  <2>2. Count(u, v, followers') = Count(u, v, followers)
    BY <1>5, <2>1 DEF RemoveUser, Cascaded, Count
  <2> QED
    BY <1>1, <2>1, <2>2
<1>6. ASSUME UNCHANGED <<users, followers, op, answer, before>>,
             NEW u \in users', NEW v \in users'
      PROVE  Balance(u, v)'
  BY <1>1, <1>6 DEF TypeOK
<1> QED
  BY <1>2, <1>3, <1>4, <1>5, <1>6 DEF Next, Quiet, vars, Authenticate, LoadUser

\* As long as both users have an account, what is in the table is what was there
\* before and what the answers say was done, give or take the requests whose
\* clients do not know; for any number of requests about any number of users.
THEOREM AnswersAccount == Spec => []AnswersBalance
<1> DEFINE Balanced == \A u, v \in users : Balance(u, v)
<1>1. Init => Balanced
  BY BalanceInit
<1>2. TypeOK /\ Balanced /\ [Next]_vars => Balanced'
  BY BalanceKept
<1>3. Balanced => AnswersBalance
  BY DEF AnswersBalance, Balance
<1> QED
  BY <1>1, <1>2, <1>3, TypeCorrect, PTL DEF Spec
=============================================================================
