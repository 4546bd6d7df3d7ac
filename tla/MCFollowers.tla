---------------------------- MODULE MCFollowers ----------------------------
(***************************************************************************)
(* Three requests of one user about another, who may be removed at any     *)
(* time; the table holds any rows before.                                  *)
(***************************************************************************)
EXTENDS Followers, TLC

CONSTANTS r1, r2, r3, ann, bob

MCRequests == {r1, r2, r3}
MCUsers == {ann, bob}
MCCaller == [r \in MCRequests |-> ann]
MCPath == [r \in MCRequests |-> bob]
=============================================================================
