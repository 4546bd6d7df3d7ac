------------------------------- MODULE Posts -------------------------------
(***************************************************************************)
(* Creating, reading, patching and deleting posts: cmd/api/posts.go, the   *)
(* ownership middleware and internal/store/posts.go.                       *)
(*                                                                         *)
(* A request is one HTTP handler.  For a route with a post id, the         *)
(* middleware reads the row (one query), checkPostOwnership may look the   *)
(* role up (another), and only then the handler writes (a third).  Other   *)
(* requests run between these steps; the row read first is kept in the     *)
(* request's context, and UPDATE ... WHERE version = $4 is what protects   *)
(* it.  Every query may fail, and a write that runs into its timeout may   *)
(* have been applied although the handler sees an error.                   *)
(*                                                                         *)
(* AtomicPosts is the promise this protocol implements.                    *)
(***************************************************************************)
EXTENDS AtomicPosts

VARIABLES pc,      \* pc[r]: "new", "loaded", "permitted", "done"
          op,      \* op[r]: what the route asks for
          target,  \* target[r]: the id in the path, 0 when there is none
          post,    \* post[r]: the post in the request's context
          overtaken  \* history: requests that held a post when another wrote it

vars == <<posts, nextId, answer, pc, op, target, post, overtaken>>

Ops == {"create", "get", "patch", "delete"}

\* GetById fails on a row whose tags it cannot decode into a list.
Readable(row) == row.tags = "null"

RequiredLevel(r) == IF op[r] = "patch" THEN Moderator ELSE Admin

\* Between the middleware's read and the handler's statement.
Holds(r) == pc[r] \in {"loaded", "permitted"}

\* The other requests that hold the post which r writes.
Overtakes(r) == {q \in Requests \ {r} : Holds(q) /\ target[q] = target[r]}

-----------------------------------------------------------------------------
Init == /\ AtomicInit
        /\ pc = [r \in Requests |-> "new"]
        /\ op \in [Requests -> Ops]
        /\ target = [r \in Requests |-> 0]
        /\ post = [r \in Requests |-> NoRow]
        /\ overtaken = {}

Answer(r, a) == /\ answer' = [answer EXCEPT ![r] = a]
                /\ pc' = [pc EXCEPT ![r] = "done"]

LowestFreeId == CHOOSE id \in PostIds : posts[id] = NoRow

\* The sequence behind posts.id.
FreshId == nextId

\* createPostHandler: no tags are stored as NULL, an empty list as the text
\* "{}", which JSONB accepts as an object.
Create(r) ==
    /\ pc[r] = "new"
    /\ op[r] = "create"
    /\ nextId <= MaxPosts
    /\ \E t, c \in Values, tags \in Tags :
          posts' = [posts EXCEPT ![FreshId] = NewRow(t, c, caller[r], tags)]
    /\ nextId' = nextId + 1
    /\ target' = [target EXCEPT ![r] = FreshId]
    /\ Answer(r, "created") \/ Answer(r, "error")
    /\ UNCHANGED <<op, post, overtaken>>

\* The form is refused, the INSERT fails, or the tags are not empty: pq.Array
\* renders them as {"a"}, which JSONB refuses.
CreateFails(r) ==
    /\ pc[r] = "new"
    /\ op[r] = "create"
    /\ Answer(r, "bad") \/ Answer(r, "error")
    /\ UNCHANGED <<posts, nextId, op, target, post, overtaken>>

\* postContextMiddleware: the row is read into the request's context.
Load(r, id) ==
    /\ pc[r] = "new"
    /\ op[r] # "create"
    /\ posts[id] # NoRow
    /\ Readable(posts[id])
    /\ target' = [target EXCEPT ![r] = id]
    /\ post' = [post EXCEPT ![r] = posts[id]]
    /\ pc' = [pc EXCEPT ![r] = IF op[r] = "get" THEN "permitted" ELSE "loaded"]
    /\ UNCHANGED <<posts, nextId, answer, op, overtaken>>

\* There is no such post, or its row cannot be read or decoded.
LoadFails(r, id) ==
    /\ pc[r] = "new"
    /\ op[r] # "create"
    /\ target' = [target EXCEPT ![r] = id]
    /\ \/ posts[id] = NoRow /\ Answer(r, "missing")
       \/ Answer(r, "error")
    /\ UNCHANGED <<posts, nextId, op, post, overtaken>>

\* checkPostOwnership lets the author pass, and whoever has the role's level.
Permit(r) ==
    /\ pc[r] = "loaded"
    /\ post[r].user = caller[r] \/ level[caller[r]] >= RequiredLevel(r)
    /\ pc' = [pc EXCEPT ![r] = "permitted"]
    /\ UNCHANGED <<posts, nextId, answer, op, target, post, overtaken>>

\* It refuses the others, and everyone but the author when the role cannot
\* be looked up.
Forbid(r) ==
    /\ pc[r] = "loaded"
    /\ post[r].user # caller[r]
    /\ Answer(r, "forbidden")
    /\ UNCHANGED <<posts, nextId, op, target, post, overtaken>>

\* getPostByIdHandler: the comments are read, and the post is written out as
\* it was when the middleware read it.
Get(r) ==
    /\ pc[r] = "permitted"
    /\ op[r] = "get"
    /\ Answer(r, "fetched") \/ Answer(r, "error")
    /\ UNCHANGED <<posts, nextId, op, target, post, overtaken>>

MatchesAnyVersion(r) == posts[target[r]] # NoRow

\* With the version that every post is created with.
MatchesFirstVersion(r) == posts[target[r]] # NoRow /\ posts[target[r]].version = 1

\* WHERE id = $3 AND version = $4, with the version the middleware read.
Matches(r) ==
    posts[target[r]] # NoRow /\ posts[target[r]].version = post[r].version

OverwrittenInPlace(r) ==
    [posts[target[r]] EXCEPT !.title = Patched(post[r], form[r]).title,
                             !.content = Patched(post[r], form[r]).content]

\* SET title = $1, content = $2, version = version + 1: both fields come from
\* the request's copy with the form merged in.
Overwritten(r) ==
    [posts[target[r]] EXCEPT !.title = Patched(post[r], form[r]).title,
                             !.content = Patched(post[r], form[r]).content,
                             !.version = @ + 1]

\* updatePostHandler: the copy replaces the row that still has its version, and
\* takes the new version over for the answer.
Update(r) ==
    /\ pc[r] = "permitted"
    /\ op[r] = "patch"
    /\ Matches(r)
    /\ posts' = [posts EXCEPT ![target[r]] = Overwritten(r)]
    /\ post' = [post EXCEPT ![r] = Overwritten(r)]
    /\ overtaken' = overtaken \cup Overtakes(r)
    /\ Answer(r, "updated") \/ Answer(r, "error")
    /\ UNCHANGED <<nextId, op, target>>

\* The UPDATE matches no row: ErrNotFound, answered with 409.
Conflict(r) ==
    /\ pc[r] = "permitted"
    /\ op[r] = "patch"
    /\ ~Matches(r)
    /\ Answer(r, "conflict")
    /\ UNCHANGED <<posts, nextId, op, target, post, overtaken>>

\* The form is refused or the UPDATE fails without effect.
UpdateFails(r) ==
    /\ pc[r] = "permitted"
    /\ op[r] = "patch"
    /\ Answer(r, "bad") \/ Answer(r, "error")
    /\ UNCHANGED <<posts, nextId, op, target, post, overtaken>>

\* The row DeleteByUser names: this id, and this user's.
Deletable(r) == posts[target[r]] # NoRow /\ posts[target[r]].user = caller[r]

\* removePostByIdHandler: DELETE ... WHERE id = $1 and user_id = $2.
Delete(r) ==
    /\ pc[r] = "permitted"
    /\ op[r] = "delete"
    /\ Deletable(r)
    /\ posts' = [posts EXCEPT ![target[r]] = NoRow]
    /\ overtaken' = overtaken \cup Overtakes(r)
    /\ Answer(r, "deleted") \/ Answer(r, "error")
    /\ UNCHANGED <<nextId, op, target, post>>

\* It deletes no row, or fails without effect.
DeleteFails(r) ==
    /\ pc[r] = "permitted"
    /\ op[r] = "delete"
    /\ \/ ~Deletable(r) /\ Answer(r, "missing")
       \/ Answer(r, "error")
    /\ UNCHANGED <<posts, nextId, op, target, post, overtaken>>

\* Every request has been answered.
Quiet == (\A r \in Requests : pc[r] = "done") /\ UNCHANGED vars

Next == \/ \E r \in Requests :
              \/ Create(r) \/ CreateFails(r)
              \/ \E id \in PostIds : Load(r, id) \/ LoadFails(r, id)
              \/ Permit(r) \/ Forbid(r)
              \/ Get(r)
              \/ Update(r) \/ Conflict(r) \/ UpdateFails(r)
              \/ Delete(r) \/ DeleteFails(r)
        \/ Quiet

Spec == Init /\ [][Next]_vars

-----------------------------------------------------------------------------
(* Properties *)

\* Rows are well formed, and a request past the middleware has a post.
TypeOK == /\ posts \in [PostIds -> Row \cup {NoRow}]
          /\ nextId \in 1..MaxPosts + 1
          /\ answer \in [Requests -> Answers]
          /\ pc \in [Requests -> {"new", "loaded", "permitted", "done"}]
          /\ op \in [Requests -> Ops]
          /\ target \in [Requests -> 0..MaxPosts]
          /\ post \in [Requests -> Row \cup {NoRow}]
          /\ overtaken \in SUBSET Requests

\* The version identifies the row: while the stored version is the one a
\* request read, the whole row is the one it read, so writing the request's
\* copy back loses no other request's edit.
VersionIdentifiesRow ==
    \A r \in Requests :
        Holds(r) /\ posts[target[r]] # NoRow =>
            /\ post[r].version <= posts[target[r]].version
            /\ post[r].version = posts[target[r]].version => post[r] = posts[target[r]]

\* No two clients are told that they made the same version of a post.
VersionsAreDistinct ==
    \A r, q \in Requests :
        /\ r # q /\ target[r] = target[q]
        /\ answer[r] = "updated" /\ answer[q] = "updated"
        => post[r].version # post[q].version

\* A PATCH is refused with 409 only if another request changed or deleted the
\* post after the middleware had read it for this one: of several requests that
\* race, not all lose, and one that nobody interferes with is never refused so.
ConflictIsReal == \A r \in Requests : answer[r] = "conflict" => r \in overtaken

StaysGone ==
    \A id \in PostIds : id < nextId /\ posts[id] = NoRow => posts'[id] = NoRow

\* An id is never used twice: a post that is gone stays gone, although
\* requests that loaded it before are still running.
GoneForGood == [][StaysGone]_vars

\* The handlers implement the atomic requests of AtomicPosts: no lost update,
\* no effect of a refused request, no effect by a caller who may not.  The
\* table, the id sequence and the answers are the same variables in both, so
\* the refinement mapping is the identity.
RefinesAtomic == AtomicSpec

\* "Fetch a post by its ID": a post in the table can be fetched.
StoredPostIsReadable ==
    \A id \in PostIds : posts[id] # NoRow => Readable(posts[id])
=============================================================================
