------------------------------ MODULE Followers ------------------------------
(***************************************************************************)
(* Following and unfollowing: followUserHandler and unfollowUserHandler    *)
(* (cmd/api/users.go) behind the two middlewares that look users up, and   *)
(* FollowerStore (internal/store/followers.go).                            *)
(*                                                                         *)
(* A lookup may be answered by the cache (UserCache), so a user can be     *)
(* gone who was found a moment ago, and it is the foreign keys and the     *)
(* primary key of the table that decide.  The statement runs under a       *)
(* context of its own: it takes effect although the client has gone, and   *)
(* one that timed out may have taken effect too.                           *)
(*                                                                         *)
(* FollowGraph is the promise these handlers implement.                    *)
(***************************************************************************)
EXTENDS Integers, FiniteSets

CONSTANTS Requests,  \* requests, each made once
          Users,
          caller,    \* caller[r]: whose token request r carries
          path,      \* path[r]: the user id in the path
          Pending    \* users whose registration may still be rolled back

ASSUME CallerAssumption == /\ caller \in [Requests -> Users]
                           /\ path \in [Requests -> Users]
ASSUME PendingAssumption == Pending \subseteq Users
\* Only so many requests have been made.
ASSUME RequestsAssumption == IsFiniteSet(Requests)

VARIABLES users,      \* rows of users
          followers,  \* followers[u]: the follower_ids of the rows with user_id u
          op,         \* op[r]: the route, "follow" or "unfollow"
          pc,         \* pc[r]: "new", "authenticated", "loaded", "done"
          answer,     \* answer[r]: the status; "500" also when the client missed it
          before      \* history: the rows before the first request

vars == <<users, followers, op, pc, answer, before>>

Ops == {"follow", "unfollow"}
Answers == {"none", "201", "204", "400", "401", "404", "409", "500"}

-----------------------------------------------------------------------------
\* Any relation, also of users with themselves: nothing forbids it.
Init == /\ users = Users
        /\ followers \in [Users -> SUBSET Users]
        /\ before = followers
        /\ op \in [Requests -> Ops]
        /\ pc = [r \in Requests |-> "new"]
        /\ answer = [r \in Requests |-> "none"]

\* A missing return.
WithoutReturn(r, a) == /\ answer' = [answer EXCEPT ![r] = a]
                       /\ UNCHANGED pc

\* The answer is the last thing a handler does.
Answer(r, a) == /\ answer' = [answer EXCEPT ![r] = a]
                /\ pc' = [pc EXCEPT ![r] = "done"]

\* The statement has taken effect, or found nothing to do; the client is told, or
\* has gone, or the statement reported an error after all.
Reply(r, a) == Answer(r, a) \/ Answer(r, "500")

\* AuthTokenMiddleware: the token is good and getUser finds its user, in the
\* table or, gone already, in the cache.
Authenticate(r) ==
    /\ pc[r] = "new"
    /\ pc' = [pc EXCEPT ![r] = "authenticated"]
    /\ UNCHANGED <<users, followers, op, answer, before>>

\* No header, a malformed one, a token that is not valid, or a failing lookup.
Unauthenticated(r) ==
    /\ pc[r] = "new"
    /\ Answer(r, "401")
    /\ UNCHANGED <<users, followers, op, before>>

\* userContextMiddleware finds the user of the path, the same way.
LoadUser(r) ==
    /\ pc[r] = "authenticated"
    /\ pc' = [pc EXCEPT ![r] = "loaded"]
    /\ UNCHANGED <<users, followers, op, answer, before>>

\* The id is no number, there is no such user, or the lookup fails.
LoadUserFails(r) ==
    /\ pc[r] = "authenticated"
    /\ \/ path[r] \notin users /\ Answer(r, "404")
       \/ Answer(r, "400")
       \/ Answer(r, "500")
    /\ UNCHANGED <<users, followers, op, before>>

Swapped(r) == [followers EXCEPT ![caller[r]] = @ \cup {path[r]}]

\* INSERT INTO followers(user_id, follower_id).
Inserted(r) == [followers EXCEPT ![path[r]] = @ \cup {caller[r]}]

EndsExist(r) == TRUE

\* The foreign keys of the table.
ForeignKeys(r) == caller[r] \in users /\ path[r] \in users

\* The row is new.
Follow(r) ==
    /\ pc[r] = "loaded"
    /\ op[r] = "follow"
    /\ ForeignKeys(r)
    /\ caller[r] \notin followers[path[r]]
    /\ followers' = Inserted(r)
    /\ Reply(r, "201")
    /\ UNCHANGED <<users, op, before>>

\* The primary key: unique_violation is ErrConflict.
FollowConflicts(r) ==
    /\ pc[r] = "loaded"
    /\ op[r] = "follow"
    /\ caller[r] \in followers[path[r]]
    /\ Reply(r, "409")
    /\ UNCHANGED <<users, followers, op, before>>

\* A foreign key that is not there any more, or a statement that fails.
FollowFails(r) ==
    /\ pc[r] = "loaded"
    /\ op[r] = "follow"
    /\ Answer(r, "500")
    /\ UNCHANGED <<users, followers, op, before>>

Cleared(r) == [followers EXCEPT ![path[r]] = {}]

\* DELETE FROM followers WHERE user_id = $1 and follower_id = $2.
Deleted(r) == [followers EXCEPT ![path[r]] = @ \ {caller[r]}]

Unfollow(r) ==
    /\ pc[r] = "loaded"
    /\ op[r] = "unfollow"
    /\ caller[r] \in followers[path[r]]
    /\ followers' = Deleted(r)
    /\ Reply(r, "204")
    /\ UNCHANGED <<users, op, before>>

\* rowsCount is 0.
UnfollowMissing(r) ==
    /\ pc[r] = "loaded"
    /\ op[r] = "unfollow"
    /\ caller[r] \notin followers[path[r]]
    /\ Reply(r, "404")
    /\ UNCHANGED <<users, followers, op, before>>

UnfollowFails(r) ==
    /\ pc[r] = "loaded"
    /\ op[r] = "unfollow"
    /\ Answer(r, "500")
    /\ UNCHANGED <<users, followers, op, before>>

WithoutFollowersOf(u) == [followers EXCEPT ![u] = {}]

\* ON DELETE CASCADE, for both foreign keys.
Cascaded(u) == [v \in Users |-> IF v = u THEN {} ELSE followers[v] \ {u}]

\* UserStore.Delete, when the mail of a registration could not be sent.
RemoveUser(u) ==
    /\ u \in users \cap Pending
    /\ users' = users \ {u}
    /\ followers' = Cascaded(u)
    /\ UNCHANGED <<op, pc, answer, before>>

\* Every request has been answered.
Quiet == (\A r \in Requests : pc[r] = "done") /\ UNCHANGED vars

Next == \/ \E r \in Requests :
              \/ Authenticate(r) \/ Unauthenticated(r)
              \/ LoadUser(r) \/ LoadUserFails(r)
              \/ Follow(r) \/ FollowConflicts(r) \/ FollowFails(r)
              \/ Unfollow(r) \/ UnfollowMissing(r) \/ UnfollowFails(r)
        \/ \E u \in Users : RemoveUser(u)
        \/ Quiet

Spec == Init /\ [][Next]_vars

-----------------------------------------------------------------------------
(* Properties *)

\* Rows, requests and answers are well formed, and a request is answered once,
\* when it ends.
TypeOK == /\ users \in SUBSET Users
          /\ followers \in [Users -> SUBSET Users]
          /\ op \in [Requests -> Ops]
          /\ pc \in [Requests -> {"new", "authenticated", "loaded", "done"}]
          /\ answer \in [Requests -> Answers]
          /\ \A r \in Requests : answer[r] # "none" <=> pc[r] = "done"
          /\ before \in [Users -> SUBSET Users]

\* Whatever was read before a user was removed, no row of followers names a
\* user who is gone.
RowsHaveUsers ==
    \A u, v \in Users : v \in followers[u] => u \in users /\ v \in users

\* What an answer tells the client.
Meaning(a) == CASE a = "none" -> "none"
                [] a = "201" -> "following"
                [] a = "204" -> "unfollowed"
                [] a = "409" -> "already"
                [] a = "404" -> "absent"
                [] a \in {"400", "401"} -> "denied"
                [] OTHER -> "unknown"

Graph == INSTANCE FollowGraph
            WITH follows <- {p \in Users \X Users : p[1] \in followers[p[2]]},
                 told <- [r \in Requests |-> Meaning(answer[r])]

\* The handlers implement FollowGraph: each answer is true of the relation at
\* the moment of the statement, although the users were looked up earlier.
RefinesGraph == Graph!GraphSpec

\* The requests with the caller, the path and the operation of o on this pair
\* that were answered a.
Answered(u, v, o, a) ==
    {r \in Requests : caller[r] = u /\ path[r] = v /\ op[r] = o /\ answer[r] \in a}

Count(u, v, rows) == IF u \in rows[v] THEN 1 ELSE 0

\* The answers account for the relation: as long as both users have an account,
\* a pair is in the table if it was there before, plus the follows answered 201,
\* minus the unfollows answered 204, give or take the requests whose clients do
\* not know.
AnswersBalance ==
    \A u, v \in users :
        LET follow == Cardinality(Answered(u, v, "follow", {"201"}))
            unfollow == Cardinality(Answered(u, v, "unfollow", {"204"}))
            maybeFollow == Cardinality(Answered(u, v, "follow", {"500"}))
            maybeUnfollow == Cardinality(Answered(u, v, "unfollow", {"500"}))
            surplus == Count(u, v, followers) - Count(u, v, before) - follow + unfollow
        IN  surplus \in (-maybeUnfollow)..maybeFollow
=============================================================================
