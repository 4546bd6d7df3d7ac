---------------------------- MODULE MCUserCache ----------------------------
(***************************************************************************)
(* Two lookups of one user at once (the keys of two users have nothing to  *)
(* do with each other); a key lives for two ticks, and a handler may take  *)
(* one from its query to its SETEX.                                        *)
(***************************************************************************)
EXTENDS UserCache

CONSTANTS h1, h2, ann

MCHandlers == {h1, h2}
MCUsers == {ann}
=============================================================================
