----------------------------- MODULE MCAccounts -----------------------------
(***************************************************************************)
(* Two registrations that want the same email address, and a user of an    *)
(* earlier deployment.                                                     *)
(***************************************************************************)
EXTENDS Accounts, TLC

CONSTANTS a1, a2, old, c1, c2, ann, bob, cid

MCAccountSet == {a1, a2, old}
MCClients == {c1, c2}
MCEmail == (a1 :> ann) @@ (a2 :> ann) @@ (old :> cid)
MCUsername == (a1 :> ann) @@ (a2 :> bob) @@ (old :> cid)
=============================================================================
