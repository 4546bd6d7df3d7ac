---------------------------- MODULE AtomicPosts ----------------------------
(***************************************************************************)
(* What the posts API promises its clients: each request takes effect at   *)
(* once or not at all, on the post as it is at that moment, and only if    *)
(* its caller may do so.  An answer that names an effect (created,         *)
(* updated, deleted) is given by a request that had it; an answer that     *)
(* names a refusal (bad, forbidden, missing, conflict) by one that had     *)
(* none; after "error" the client does not know.                           *)
(***************************************************************************)
EXTENDS Integers

CONSTANTS Requests,  \* requests, each made once
          Users,
          Values,    \* titles and contents
          MaxPosts,  \* bound: ids the sequence of posts can give out
          caller,    \* caller[r]: the authenticated user of request r
          level,     \* level[u]: the level of u's role
          form,      \* form[r]: the body of request r, if it is a PATCH
          NoRow,     \* no row with this id
          Absent,    \* a field the PATCH form does not have
          stored,    \* stored[id]: the rows before the first request
          firstFree  \* and the first id not yet given out

PostIds == 1..MaxPosts

\* Levels of the roles table.
Moderator == 2
Admin == 3

Tags == {"null", "object"}  \* SQL NULL, and the JSON object an empty list becomes

Row == [title : Values, content : Values, user : Users, tags : Tags, version : Nat]

Forms == [title : Values \cup {Absent}, content : Values \cup {Absent}]

Refusals == {"bad", "forbidden", "missing", "conflict"}
Answers == {"none", "fetched", "created", "updated", "deleted", "error"} \cup Refusals

\* version is 1 by default (migration 000005).
NewRow(t, c, u, tags) ==
    [title |-> t, content |-> c, user |-> u, tags |-> tags, version |-> 1]

ASSUME RowAssumption == NoRow \notin Row
ASSUME AbsentAssumption == Absent \notin Values
ASSUME BoundAssumption == MaxPosts \in Nat
ASSUME PeopleAssumption == /\ caller \in [Requests -> Users]
                           /\ level \in [Users -> Nat]
ASSUME FormAssumption == form \in [Requests -> Forms]
ASSUME StoredAssumption ==
    /\ firstFree \in 1..MaxPosts + 1
    /\ stored \in [PostIds -> Row \cup {NoRow}]
    /\ \A id \in PostIds : id >= firstFree => stored[id] = NoRow

VARIABLES posts,   \* posts[id]: the row of post id, or NoRow
          nextId,  \* the next value of the id sequence
          answer   \* answer[r]: what the client of request r was told

atomicVars == <<posts, nextId, answer>>

PatchedBlindly(row, f) ==
    [title |-> f.title, content |-> f.content, user |-> row.user,
     tags |-> row.tags, version |-> row.version + 1]

\* A field the form does not have keeps its value.
Patched(row, f) ==
    [row EXCEPT !.title = IF f.title = Absent THEN @ ELSE f.title,
                !.content = IF f.content = Absent THEN @ ELSE f.content,
                !.version = @ + 1]

MayUpdate(u, row) == u = row.user \/ level[u] >= Moderator

AtomicInit == /\ posts = stored
              /\ nextId = firstFree
              /\ answer = [r \in Requests |-> "none"]

Reply(r, a) == /\ answer[r] = "none"
               /\ answer' = [answer EXCEPT ![r] = a]

AtomicCreate(r) ==
    /\ nextId <= MaxPosts
    /\ \E t, c \in Values, tags \in Tags :
          posts' = [posts EXCEPT ![nextId] = NewRow(t, c, caller[r], tags)]
    /\ nextId' = nextId + 1
    /\ Reply(r, "created") \/ Reply(r, "error")

AtomicUpdate(r, id) ==
    /\ posts[id] # NoRow
    /\ MayUpdate(caller[r], posts[id])
    /\ posts' = [posts EXCEPT ![id] = Patched(posts[id], form[r])]
    /\ UNCHANGED nextId
    /\ Reply(r, "updated") \/ Reply(r, "error")

AtomicDelete(r, id) ==
    /\ posts[id] # NoRow
    /\ posts[id].user = caller[r]
    /\ posts' = [posts EXCEPT ![id] = NoRow]
    /\ UNCHANGED nextId
    /\ Reply(r, "deleted") \/ Reply(r, "error")

AtomicNoEffect(r) ==
    /\ UNCHANGED <<posts, nextId>>
    /\ \E a \in Refusals \cup {"fetched", "error"} : Reply(r, a)

AtomicNext == \E r \in Requests :
                  \/ AtomicCreate(r)
                  \/ AtomicNoEffect(r)
                  \/ \E id \in PostIds : AtomicUpdate(r, id) \/ AtomicDelete(r, id)

AtomicSpec == AtomicInit /\ [][AtomicNext]_atomicVars
=============================================================================
