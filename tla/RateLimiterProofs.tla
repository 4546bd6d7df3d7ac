------------------------- MODULE RateLimiterProofs -------------------------
(***************************************************************************)
(* For every set of clients, every finite non-empty set of handlers and    *)
(* every limit: the counts of the limiter are well formed, no window       *)
(* admits more than Cap + (number of handlers) - 1 requests, and an entry  *)
(* is orphaned by a stale read only.                                       *)
(***************************************************************************)
EXTENDS RateLimiter, FiniteSetTheorems, TLAPS

\* The state of the limiter stays well formed.
THEOREM TypeCorrect == Spec => []TypeOK
<1>1. Init => TypeOK
  BY DEF Init, TypeOK
<1>2. TypeOK /\ [Next]_vars => TypeOK'
  <2> SUFFICES ASSUME TypeOK, [Next]_vars PROVE TypeOK'
    OBVIOUS
  <2>1. ASSUME NEW ip \in Clients, NEW h \in Handlers, Read(h, ip) PROVE TypeOK'
    BY <2>1 DEF Read, TypeOK, Exists
  <2>2. ASSUME NEW ip \in Clients, NEW h \in Handlers, Deny(h, ip) PROVE TypeOK'
    BY <2>2 DEF Deny, TypeOK
  <2>3. ASSUME NEW ip \in Clients, NEW h \in Handlers, Admit(h, ip) PROVE TypeOK'
    BY <2>3 DEF Admit, StartsReset, TypeOK
  <2>4. ASSUME NEW ip \in Clients, ResetCount(ip) PROVE TypeOK'
    BY <2>4 DEF ResetCount, CountAfterReset, TypeOK
  <2>5. CASE UNCHANGED vars
    BY <2>5 DEF vars, TypeOK
  <2> QED
    BY <2>1, <2>2, <2>3, <2>4, <2>5 DEF Next
<1> QED
  BY <1>1, <1>2, PTL DEF Spec

\* Sets of handlers are finite, and have at most as many members as there
\* are handlers.
LEMMA HandlerSets ==
    ASSUME NEW S \in SUBSET Handlers
    PROVE  /\ IsFiniteSet(S)
           /\ Cardinality(S) \in Nat
           /\ Cardinality(Handlers) \in Nat \ {0}
           /\ Cardinality(S) <= Cardinality(Handlers)
<1>1. IsFiniteSet(Handlers) /\ Handlers # {}
  BY HandlersAssumption
<1>2. IsFiniteSet(S) /\ Cardinality(S) <= Cardinality(Handlers)
  BY <1>1, FS_Subset
<1> QED
  BY <1>1, <1>2, FS_CardinalityType, FS_EmptySet

\* The cap is a positive number that no count below the limit has reached.
LEMMA CapFacts == Cap \in Nat \ {0} /\ limit <= Cap
  BY LimitAssumption DEF Cap

\* The two invariants together: OvershootReserve is inductive, and bounds
\* every count because a set of handlers is never of negative size.
IInv == TypeOK /\ OvershootReserve

\* The reserve is enough: a count at or above the cap is within the bound.
LEMMA ReserveImpliesBound == IInv => OvershootBound
<1> SUFFICES ASSUME IInv, NEW ip \in Clients
             PROVE  clients[ip] <= Cap + Cardinality(Handlers) - 1
  BY DEF OvershootBound
<1>1. clients[ip] \in Nat /\ admitting[ip] \in SUBSET Handlers
  BY DEF IInv, TypeOK
<1>2. /\ Cardinality(admitting[ip]) \in Nat
      /\ Cardinality(Handlers) \in Nat \ {0}
  BY <1>1, HandlerSets
<1>3. CASE clients[ip] >= Cap
  BY <1>1, <1>2, <1>3, CapFacts DEF IInv, OvershootReserve
<1>4. CASE ~(clients[ip] >= Cap)
  BY <1>1, <1>2, <1>4, CapFacts
<1> QED
  BY <1>3, <1>4

\* One step preserves the reserve.
LEMMA ReserveStep == IInv /\ TypeOK' /\ [Next]_vars => OvershootReserve'
<1> SUFFICES ASSUME IInv, TypeOK', [Next]_vars, NEW c \in Clients, clients'[c] >= Cap
             PROVE  clients'[c] + Cardinality(admitting'[c])
                       <= Cap + Cardinality(Handlers) - 1
  BY DEF OvershootReserve, Cap
<1> USE DEF IInv
<1>t. /\ clients[c] \in Nat /\ clients'[c] \in Nat
      /\ admitting[c] \in SUBSET Handlers /\ admitting'[c] \in SUBSET Handlers
  BY DEF TypeOK
<1>c. /\ Cardinality(admitting[c]) \in Nat /\ Cardinality(admitting'[c]) \in Nat
      /\ Cardinality(admitting[c]) <= Cardinality(Handlers)
      /\ Cardinality(Handlers) \in Nat \ {0}
  BY <1>t, HandlerSets
<1>r. clients[c] >= Cap =>
          clients[c] + Cardinality(admitting[c]) <= Cap + Cardinality(Handlers) - 1
  BY DEF OvershootReserve
<1>u. ASSUME clients'[c] = clients[c], admitting'[c] = admitting[c]
      PROVE  clients'[c] + Cardinality(admitting'[c]) <= Cap + Cardinality(Handlers) - 1
  BY <1>u, <1>r
<1>1. ASSUME NEW ip \in Clients, NEW h \in Handlers, Read(h, ip)
      PROVE  clients'[c] + Cardinality(admitting'[c]) <= Cap + Cardinality(Handlers) - 1
  <2>1. CASE c = ip
    \* A client that passes the check is below the cap.
    <3>1. clients[c] < Cap
      BY <1>1, <1>t, <2>1, CapFacts, LimitAssumption DEF Read, Admissible, Exists
    <3>2. clients'[c] = clients[c]
      BY <1>1 DEF Read
    <3> QED
      BY <3>1, <3>2, <1>t, CapFacts
  <2>2. CASE c # ip
    BY <1>1, <2>2, <1>u DEF Read, TypeOK
  <2> QED
    BY <2>1, <2>2
<1>2. ASSUME NEW ip \in Clients, NEW h \in Handlers, Deny(h, ip)
      PROVE  clients'[c] + Cardinality(admitting'[c]) <= Cap + Cardinality(Handlers) - 1
  BY <1>2, <1>u DEF Deny
<1>3. ASSUME NEW ip \in Clients, NEW h \in Handlers, Admit(h, ip)
      PROVE  clients'[c] + Cardinality(admitting'[c]) <= Cap + Cardinality(Handlers) - 1
  <2>1. CASE c = ip
    <3>1. /\ clients'[c] = clients[c] + 1
          /\ admitting'[c] = admitting[c] \ {h}
          /\ h \in admitting[c]
      BY <1>3, <2>1 DEF Admit, StartsReset, TypeOK
    <3>2. Cardinality(admitting'[c]) = Cardinality(admitting[c]) - 1
      BY <3>1, <1>t, HandlerSets, FS_RemoveElement
    <3> QED
      BY <3>1, <3>2, <1>t, <1>c, <1>r, CapFacts
  <2>2. CASE c # ip
    BY <1>3, <2>2, <1>u DEF Admit, StartsReset, TypeOK
  <2> QED
    BY <2>1, <2>2
<1>4. ASSUME NEW ip \in Clients, ResetCount(ip)
      PROVE  clients'[c] + Cardinality(admitting'[c]) <= Cap + Cardinality(Handlers) - 1
  <2>1. CASE c = ip
    BY <1>4, <2>1, CapFacts DEF ResetCount, CountAfterReset, TypeOK
  <2>2. CASE c # ip
    BY <1>4, <2>2, <1>u DEF ResetCount, CountAfterReset, TypeOK
  <2> QED
    BY <2>1, <2>2
<1>5. CASE UNCHANGED vars
  BY <1>5, <1>u DEF vars
<1> QED
  BY <1>1, <1>2, <1>3, <1>4, <1>5 DEF Next

\* A client that has reached the cap is let past it only by the requests that
\* passed the check before the last slot was taken: each of them has its place
\* in the reserve.
THEOREM ReserveHolds == Spec => []OvershootReserve
<1>1. Init => OvershootReserve
  BY CapFacts DEF Init, OvershootReserve
<1> QED
  BY <1>1, TypeCorrect, ReserveStep, PTL DEF Spec, IInv

\* However the handlers interleave, a window admits at most one request fewer
\* than there are handlers above the cap.
THEOREM Overshoot == Spec => []OvershootBound
  BY ReserveHolds, TypeCorrect, ReserveImpliesBound, PTL DEF IInv

\* A handler serves one request, so it is past the check of one client only.
OneRequest == \A c, d \in Clients : c # d => admitting[c] \cap admitting[d] = {}

\* One step preserves it: only an idle handler passes a check.
LEMMA OneRequestStep == TypeOK /\ OneRequest /\ [Next]_vars => OneRequest'
<1> SUFFICES ASSUME TypeOK, OneRequest, [Next]_vars PROVE OneRequest'
  OBVIOUS
<1> USE DEF TypeOK, OneRequest
<1>1. ASSUME NEW ip \in Clients, NEW h \in Handlers, Read(h, ip) PROVE OneRequest'
  BY <1>1 DEF Read, Idle
<1>2. ASSUME NEW ip \in Clients, NEW h \in Handlers, Deny(h, ip) PROVE OneRequest'
  BY <1>2 DEF Deny
<1>3. ASSUME NEW ip \in Clients, NEW h \in Handlers, Admit(h, ip) PROVE OneRequest'
  BY <1>3 DEF Admit, StartsReset
<1>4. ASSUME NEW ip \in Clients, ResetCount(ip) PROVE OneRequest'
  BY <1>4 DEF ResetCount, CountAfterReset
<1>5. CASE UNCHANGED vars
  BY <1>5 DEF vars
<1> QED
  BY <1>1, <1>2, <1>3, <1>4, <1>5 DEF Next

\* Only a handler that counts its request after the entry it read was deleted
\* can leave an entry that nothing will ever delete.
THEOREM OrphanCause == Spec => OrphanOnlyByStaleRead
<1>1. Init => OneRequest
  BY DEF Init, OneRequest
<1>2. ASSUME TypeOK, OneRequest, Next PROVE OrphanedByStaleRead
  <2> SUFFICES ASSUME NEW c \in Clients, Orphan(c)', ~Orphan(c)
               PROVE  /\ ~Exists(c)
                      /\ \E h \in admitting[c] \ sawNone : Admit(h, c)
    BY DEF OrphanedByStaleRead
  <2> USE <1>2 DEF TypeOK, Orphan, Exists, Starters
  <2>1. ASSUME NEW ip \in Clients, NEW h \in Handlers, Read(h, ip) PROVE FALSE
    BY <2>1 DEF Read, Idle
  <2>2. ASSUME NEW ip \in Clients, NEW h \in Handlers, Deny(h, ip) PROVE FALSE
    BY <2>2 DEF Deny
  <2>3. ASSUME NEW ip \in Clients, NEW h \in Handlers, Admit(h, ip)
        PROVE  /\ ~Exists(c)
               /\ \E k \in admitting[c] \ sawNone : Admit(k, c)
    <3>1. ip = c
      BY <2>3 DEF Admit, StartsReset, OneRequest
    <3>2. h \notin sawNone
      BY <2>3, <3>1 DEF Admit, StartsReset
    <3> QED
      BY <2>3, <3>1, <3>2 DEF Admit, StartsReset
  <2>4. ASSUME NEW ip \in Clients, ResetCount(ip) PROVE FALSE
    BY <2>4 DEF ResetCount, CountAfterReset
  <2> QED
    BY <2>1, <2>2, <2>3, <2>4 DEF Next
<1>3. TypeOK /\ OneRequest /\ [Next]_vars => [OrphanedByStaleRead]_vars
  BY <1>2
<1> QED
  BY <1>1, <1>3, TypeCorrect, OneRequestStep, PTL DEF Spec, OrphanOnlyByStaleRead
=============================================================================
