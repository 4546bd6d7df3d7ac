------------------------------ MODULE MCPosts ------------------------------
(***************************************************************************)
(* Three requests on two posts, the first of them already stored.          *)
(***************************************************************************)
EXTENDS Posts, TLC

CONSTANTS author, moderator, admin, r1, r2, r3, v1, v2

MCUsers == {author, moderator, admin}
MCRequests == {r1, r2, r3}
MCValues == {v1, v2}

MCLevel == (author :> 1) @@ (moderator :> Moderator) @@ (admin :> Admin)
MCCaller == (r1 :> author) @@ (r2 :> moderator) @@ (r3 :> admin)

\* The author patches the title, the moderator the content, the administrator
\* both: a copy of the row that is out of date would undo another's field.
MCForm == (r1 :> [title |-> v2, content |-> Absent])
          @@ (r2 :> [title |-> Absent, content |-> v2])
          @@ (r3 :> [title |-> v2, content |-> v2])

MCStored == [id \in PostIds |->
                IF id = 1
                THEN NewRow(v1, v1, author, "null")
                ELSE NoRow]
=============================================================================
