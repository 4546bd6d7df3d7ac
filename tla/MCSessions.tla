----------------------------- MODULE MCSessions -----------------------------
(***************************************************************************)
(* Two handlers; in the table are a session that may be renewed and one    *)
(* whose renewals are used up, and one more can be made.  A second has two *)
(* ticks, so that the expiry of a session can have a fraction.  The        *)
(* handlers run the same code, and no property tells them apart.           *)
(***************************************************************************)
EXTENDS Sessions, TLC

CONSTANTS h1, h2, renewable, spent, new

MCIds == {renewable, spent, new}
MCHandlers == {h1, h2}
Symmetry == Permutations(MCHandlers)

OldRow == [version |-> 1, expires |-> 3, created |-> 0, remember |-> TRUE, maxRenewal |-> 0]

OldSessions == (renewable :> [OldRow EXCEPT !.maxRenewal = 4])
               @@ (spent :> OldRow)
               @@ (new :> NoRow)

OldTokens ==
    {[session |-> i, version |-> 1, expires |-> NumericDate(3)] : i \in {renewable, spent}}
=============================================================================
