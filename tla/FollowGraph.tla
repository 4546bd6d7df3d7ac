----------------------------- MODULE FollowGraph -----------------------------
(***************************************************************************)
(* What following and unfollowing promise: a request changes the relation  *)
(* at once or not at all, and its answer tells which.  "already" is said   *)
(* only to who follows, "absent" only to who does not, at the moment it is *)
(* said; after "unknown" the client cannot tell.  A user who is removed    *)
(* takes both ends of the relation along.                                  *)
(***************************************************************************)

CONSTANTS Requests,  \* requests, each made once
          Users,
          caller,    \* caller[r]: the authenticated user
          path       \* path[r]: the user named in the path

VARIABLES users,    \* those who have an account
          follows,  \* <<u, v>>: u follows v
          told      \* told[r]: what the client of request r knows

graphVars == <<users, follows, told>>

Pair(r) == <<caller[r], path[r]>>

Tell(r, what) == /\ told[r] = "none"
                 /\ told' = [told EXCEPT ![r] = what]

GraphInit == /\ users = Users
             /\ follows \in SUBSET (Users \X Users)
             /\ told = [r \in Requests |-> "none"]

AtomicFollow(r) ==
    /\ Pair(r) \notin follows
    /\ caller[r] \in users /\ path[r] \in users
    /\ follows' = follows \cup {Pair(r)}
    /\ Tell(r, "following") \/ Tell(r, "unknown")
    /\ UNCHANGED users

AtomicUnfollow(r) ==
    /\ Pair(r) \in follows
    /\ follows' = follows \ {Pair(r)}
    /\ Tell(r, "unfollowed") \/ Tell(r, "unknown")
    /\ UNCHANGED users

NoEffect(r) ==
    /\ \/ Pair(r) \in follows /\ Tell(r, "already")
       \/ Pair(r) \notin follows /\ Tell(r, "absent")
       \/ Tell(r, "denied")
       \/ Tell(r, "unknown")
    /\ UNCHANGED <<users, follows>>

AtomicRemove(u) ==
    /\ u \in users
    /\ users' = users \ {u}
    /\ follows' = {p \in follows : p[1] # u /\ p[2] # u}
    /\ UNCHANGED told

GraphNext == \/ \E r \in Requests : AtomicFollow(r) \/ AtomicUnfollow(r) \/ NoEffect(r)
             \/ \E u \in Users : AtomicRemove(u)

GraphSpec == GraphInit /\ [][GraphNext]_graphVars
=============================================================================
