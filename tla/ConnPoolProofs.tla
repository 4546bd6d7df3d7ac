--------------------------- MODULE ConnPoolProofs ---------------------------
(***************************************************************************)
(* For any pool and any number of registrations and other requests: no     *)
(* connection is lost, and the pool comes to a standstill only when as     *)
(* many registrations as it has connections wait for their second one.     *)
(***************************************************************************)
EXTENDS ConnPool, FiniteSetTheorems, TLAPS

\* Registrations and other requests keep to their own phases.
Roles == /\ \A r \in Registrations : pc[r] # "query"
         /\ \A p \in Others : pc[p] \in {"new", "query", "done"}

\* The two parts of NoLeak.
Used == \A c \in Conns, p \in Requests, u \in Uses : owner[c] = <<p, u>> => InUse(p, u)
Single == \A c, d \in Conns : owner[c] = owner[d] /\ owner[c] # Nobody => c = d

IInv == TypeOK /\ Roles /\ Used /\ Single

LEMMA OwnerForm ==
    ASSUME TypeOK, NEW c \in Conns, owner[c] # Nobody
    PROVE  \E p \in Requests, u \in Uses :
               owner[c] = <<p, u>> /\ owner[c][1] = p /\ owner[c][2] = u
BY DEF TypeOK

LEMMA LeakParts == ASSUME TypeOK PROVE NoLeak <=> Used /\ Single
<1>1. ASSUME NEW p \in Requests, NEW u \in Uses PROVE <<p, u>> # Nobody
  BY RequestsAssumption DEF Requests, Uses
<1>2. ASSUME NoLeak PROVE Used /\ Single
  <2>1. ASSUME NEW c \in Conns, NEW p \in Requests, NEW u \in Uses, owner[c] = <<p, u>>
        PROVE  InUse(p, u)
    <3>1. owner[c][1] = p /\ owner[c][2] = u
      BY <2>1
    <3>2. InUse(owner[c][1], owner[c][2])
      BY <1>1, <1>2, <2>1 DEF NoLeak
    <3> QED
      BY <3>1, <3>2
  <2>2. ASSUME NEW c \in Conns, NEW d \in Conns, owner[c] = owner[d], owner[c] # Nobody
        PROVE  c = d
    <3>1. d \in Held(owner[c][1], owner[c][2])
      BY <2>2, OwnerForm DEF Held
    <3> QED
      BY <1>2, <2>2, <3>1 DEF NoLeak
  <2> QED
    BY <2>1, <2>2 DEF Used, Single
<1>3. ASSUME Used, Single PROVE NoLeak
  <2> SUFFICES ASSUME NEW c \in Conns, owner[c] # Nobody
               PROVE  /\ InUse(owner[c][1], owner[c][2])
                      /\ Held(owner[c][1], owner[c][2]) = {c}
    BY DEF NoLeak
  <2>1. PICK p \in Requests, u \in Uses : 
               owner[c] = <<p, u>> /\ owner[c][1] = p /\ owner[c][2] = u
    BY OwnerForm
  <2>2. InUse(p, u)
    BY <1>3, <2>1 DEF Used
  <2>3. Held(p, u) = {c}
    BY <1>3, <2>1 DEF Single, Held
  <2> QED
    BY <2>1, <2>2, <2>3
<1> QED
  BY <1>2, <1>3

\* Who waits does not have what it waits for.
LEMMA WaitersLack ==
    ASSUME IInv, NEW w \in waiting
    PROVE  /\ w \in Requests
           /\ pc[w] \in {"begin", "create", "undo", "query"}
           /\ \A c \in Conns : owner[c] # <<w, Use(pc[w])>>
<1>1. w \in Requests /\ pc[w] \in {"begin", "create", "undo", "query"}
  BY DEF IInv, TypeOK
<1>2. Use(pc[w]) \in Uses
  BY DEF Use, Uses
<1>3. ~InUse(w, Use(pc[w]))
  BY <1>1 DEF InUse, Use, Running
<1> QED
  BY <1>1, <1>2, <1>3 DEF IInv, Used

\* Where the connections are once c has been returned.
LEMMA Handover ==
    ASSUME IInv, NEW c \in Conns, owner[c] # Nobody, Return(c)
    PROVE  /\ owner' \in [Conns -> (Requests \X Uses) \cup {Nobody}]
           /\ waiting' \subseteq waiting
           /\ \A d \in Conns \ {c} : owner'[d] = owner[d]
           /\ \/ owner'[c] = Nobody
              \/ \E w \in waiting : /\ owner'[c] = <<w, Use(pc[w])>>
                                    /\ waiting' = waiting \ {w}
           /\ \A d, e \in Conns : owner'[d] = owner'[e] /\ owner'[d] # Nobody => d = e
<1>1. owner \in [Conns -> (Requests \X Uses) \cup {Nobody}]
  BY DEF IInv, TypeOK
<1>2. CASE waiting = {} /\ owner' = [owner EXCEPT ![c] = Nobody] /\ UNCHANGED waiting
  BY <1>1, <1>2 DEF IInv, Single
<1>3. CASE \E w \in waiting : /\ owner' = [owner EXCEPT ![c] = <<w, Use(pc[w])>>]
                              /\ waiting' = waiting \ {w}
  <2>1. PICK w \in waiting : /\ owner' = [owner EXCEPT ![c] = <<w, Use(pc[w])>>]
                             /\ waiting' = waiting \ {w}
    BY <1>3
  <2>2. /\ w \in Requests
        /\ \A d \in Conns : owner[d] # <<w, Use(pc[w])>>
    BY WaitersLack
  <2>3. Use(pc[w]) \in Uses
    BY DEF Use, Uses
  <2> DEFINE got == <<w, Use(pc[w])>>
  <2>4. got \in Requests \X Uses /\ \A d \in Conns : owner[d] # got
    BY <2>2, <2>3
  <2>5. owner' = [owner EXCEPT ![c] = got] /\ owner'[c] = got
    BY <1>1, <2>1
  <2>6. owner'[c] = <<w, Use(pc[w])>>
    BY <2>5
  <2> HIDE DEF got
  <2> QED
    BY <1>1, <2>1, <2>4, <2>5, <2>6 DEF IInv, Single
<1> QED
  BY <1>2, <1>3 DEF Return

LEMMA InitInv == Init => IInv
<1> SUFFICES ASSUME Init PROVE IInv
  OBVIOUS
<1>1. \A p \in Requests, u \in Uses : <<p, u>> # Nobody
  BY RequestsAssumption DEF Requests, Uses
<1>2. TypeOK
  BY DEF Init, TypeOK, Phases
<1>3. Roles
  BY DEF Init, Roles, Requests
<1> QED
  BY <1>1, <1>2, <1>3 DEF Init, IInv, Used, Single

Asking == {"begin", "create", "undo", "query"}

\* A step of p keeps the invariant if whoever holds a connection afterwards held it
\* before, was handed it as a waiter, or is in use of it.
LEMMA Keeps ==
    ASSUME IInv, NEW p \in Requests, NEW phase \in Phases,
           pc' = [pc EXCEPT ![p] = phase],
           cancelled \subseteq cancelled', cancelled' \subseteq Requests,
           owner' \in [Conns -> (Requests \X Uses) \cup {Nobody}],
           Single',
           waiting' \subseteq waiting \cup {p},
           p \in waiting' => phase \in Asking,
           p \in Registrations => phase # "query",
           p \in Others => phase \in {"new", "query", "done"},
           \A c \in Conns, q \in Requests, u \in Uses : owner'[c] = <<q, u>> =>
               \/ owner[c] = <<q, u>> /\ q # p
               \/ q \in waiting \ waiting' /\ u = Use(pc[q]) /\ pc'[q] = pc[q]
               \/ InUse(q, u)'
    PROVE  IInv'
<1>1. pc \in [Requests -> Phases] /\ waiting \subseteq Requests
  BY DEF IInv, TypeOK
<1>2. TypeOK'
  BY <1>1 DEF IInv, TypeOK, Asking
<1>3. Roles'
  BY <1>1 DEF IInv, Roles, Requests
<1>4. ASSUME NEW c \in Conns, NEW q \in Requests, NEW u \in Uses, owner'[c] = <<q, u>>
      PROVE  InUse(q, u)'
  <2>1. CASE owner[c] = <<q, u>> /\ q # p
    <3>1. InUse(q, u)
      BY <2>1 DEF IInv, Used
    <3>2. /\ pc'[q] = pc[q]
          /\ q \notin waiting => q \notin waiting'
          /\ q \in cancelled => q \in cancelled'
      BY <1>1, <2>1
    <3>3. CASE u = "tx"
      BY <3>1, <3>2, <3>3 DEF InUse, Running
    <3>4. CASE u = "query"
      BY <3>1, <3>2, <3>4 DEF InUse, Running
    <3>5. CASE u = "undo"
      BY <3>1, <3>2, <3>5 DEF InUse, Running
    <3> QED
      BY <3>3, <3>4, <3>5 DEF Uses
  <2>2. CASE q \in waiting \ waiting' /\ u = Use(pc[q]) /\ pc'[q] = pc[q]
    <3>1. pc[q] \in Asking
      BY <2>2, WaitersLack DEF Asking
    <3> QED
      BY <2>2, <3>1 DEF InUse, Running, Use, Asking
  <2> QED
    BY <1>4, <2>1, <2>2
<1>5. Used'
  BY <1>4 DEF Used
<1> QED
  BY <1>2, <1>3, <1>5 DEF IInv

\* p returns a connection and moves on.
LEMMA ReturnKeeps ==
    ASSUME IInv, NEW p \in Requests, NEW phase \in Phases,
           pc' = [pc EXCEPT ![p] = phase], UNCHANGED cancelled,
           NEW c \in Conns, owner[c] # Nobody, Return(c),
           p \in waiting => phase = pc[p],
           p \in Registrations => phase # "query",
           p \in Others => phase \in {"new", "query", "done"},
           \A d \in Conns \ {c}, u \in Uses : owner[d] = <<p, u>> => InUse(p, u)'
    PROVE  IInv'
<1>1. /\ pc \in [Requests -> Phases] /\ cancelled \subseteq Requests
      /\ \A q \in Requests, u \in Uses : <<q, u>> # Nobody
  BY RequestsAssumption DEF IInv, TypeOK, Requests, Uses
<1>2. ASSUME NEW d \in Conns, NEW q \in Requests, NEW u \in Uses, owner'[d] = <<q, u>>
      PROVE  \/ owner[d] = <<q, u>> /\ q # p
             \/ q \in waiting \ waiting' /\ u = Use(pc[q]) /\ pc'[q] = pc[q]
             \/ InUse(q, u)'
  <2>1. CASE d # c
    BY <1>2, <2>1, Handover
  <2>2. CASE d = c
    <3>1. PICK w \in waiting : owner'[c] = <<w, Use(pc[w])>> /\ waiting' = waiting \ {w}
      BY <1>1, <1>2, <2>2, Handover
    <3>2. q = w /\ u = Use(pc[w])
      BY <1>2, <2>2, <3>1
    <3>3. pc'[w] = pc[w]
      BY <1>1, <3>1, WaitersLack
    <3> QED
      BY <3>1, <3>2, <3>3
  <2> QED
    BY <2>1, <2>2
<1>3. p \in waiting' => phase \in Asking
  BY Handover, WaitersLack DEF Asking
<1>4. /\ owner' \in [Conns -> (Requests \X Uses) \cup {Nobody}]
      /\ Single'
      /\ waiting' \subseteq waiting \cup {p}
  BY Handover DEF Single
<1> QED
  BY <1>1, <1>2, <1>3, <1>4, Keeps

\* p asks for a connection.
LEMMA AskKeeps ==
    ASSUME IInv, NEW p \in Requests, NEW phase \in Asking,
           Ask(p, phase), UNCHANGED cancelled, p \notin waiting,
           p \in Registrations => phase # "query",
           p \in Others => phase = "query",
           \A c \in Conns, u \in Uses : owner[c] = <<p, u>> =>
               u # Use(phase) /\ InUse(p, u)'
    PROVE  IInv'
<1>1. /\ owner \in [Conns -> (Requests \X Uses) \cup {Nobody}]
      /\ pc \in [Requests -> Phases] /\ cancelled \subseteq Requests
  BY DEF IInv, TypeOK
<1>2. phase \in Phases /\ Use(phase) \in Uses
  BY DEF Asking, Phases, Use, Uses
<1>3. pc' = [pc EXCEPT ![p] = phase] /\ pc'[p] = phase
  BY <1>1 DEF Ask
<1> DEFINE got == <<p, Use(phase)>>
<1>4. got \in Requests \X Uses /\ \A c \in Conns : owner[c] # got
  BY <1>2
<1>5. CASE (\E c \in Idle : owner' = [owner EXCEPT ![c] = got]) /\ UNCHANGED waiting
  <2>1. PICK c \in Idle : owner' = [owner EXCEPT ![c] = got]
    BY <1>5
  <2>2. c \in Conns
    BY DEF Idle
  <2>3. /\ owner' \in [Conns -> (Requests \X Uses) \cup {Nobody}]
        /\ owner'[c] = got /\ \A d \in Conns \ {c} : owner'[d] = owner[d]
    <3> HIDE DEF got
    <3> QED
      BY <1>1, <1>4, <2>1, <2>2
  <2>4. Single'
    <3> HIDE DEF got
    <3> QED
      BY <1>4, <2>3 DEF IInv, Single
  <2>5. InUse(p, Use(phase))'
    BY <1>3, <1>5 DEF InUse, Running, Use, Asking
  <2>6. ASSUME NEW d \in Conns, NEW q \in Requests, NEW u \in Uses, owner'[d] = <<q, u>>
        PROVE  \/ owner[d] = <<q, u>> /\ q # p
               \/ q \in waiting \ waiting' /\ u = Use(pc[q]) /\ pc'[q] = pc[q]
               \/ InUse(q, u)'
    <3>1. CASE d = c
      <4>1. q = p /\ u = Use(phase)
        BY <2>3, <2>6, <3>1
      <4> QED
        BY <2>5, <4>1
    <3>2. CASE d # c
      BY <2>3, <2>6, <3>2
    <3> QED
      BY <3>1, <3>2
  <2>7. /\ p \in Registrations => phase # "query"
        /\ p \in Others => phase \in {"new", "query", "done"}
        /\ cancelled \subseteq cancelled' /\ cancelled' \subseteq Requests
        /\ waiting' \subseteq waiting \cup {p}
        /\ p \in waiting' => phase \in Asking
    BY <1>1, <1>5
  <2> HIDE DEF got
  <2> QED
    BY <1>2, <1>3, <2>3, <2>4, <2>6, <2>7, Keeps
<1>6. CASE waiting' = waiting \cup {p} /\ UNCHANGED owner
  <2>1. Single'
    BY <1>6 DEF IInv, Single
  <2>2. /\ p \in Registrations => phase # "query"
        /\ p \in Others => phase \in {"new", "query", "done"}
        /\ cancelled \subseteq cancelled' /\ cancelled' \subseteq Requests
        /\ waiting' \subseteq waiting \cup {p}
        /\ owner' \in [Conns -> (Requests \X Uses) \cup {Nobody}]
    BY <1>1, <1>6
  <2>3. ASSUME NEW d \in Conns, NEW q \in Requests, NEW u \in Uses, owner'[d] = <<q, u>>
        PROVE  \/ owner[d] = <<q, u>> /\ q # p
               \/ q \in waiting \ waiting' /\ u = Use(pc[q]) /\ pc'[q] = pc[q]
               \/ InUse(q, u)'
    <3>1. owner[d] = <<q, u>>
      BY <1>6, <2>3
    <3> QED
      BY <3>1
  <2> QED
    BY <1>2, <1>3, <2>1, <2>2, <2>3, Keeps
<1> QED
  BY <1>5, <1>6 DEF Ask


\* p moves on without touching a connection.
LEMMA StayKeeps ==
    ASSUME IInv, NEW p \in Requests, NEW phase \in Phases,
           pc' = [pc EXCEPT ![p] = phase], UNCHANGED <<owner, cancelled>>,
           waiting' \subseteq waiting, p \notin waiting',
           p \in Registrations => phase # "query",
           p \in Others => phase \in {"new", "query", "done"},
           \A c \in Conns, u \in Uses : owner[c] = <<p, u>> => InUse(p, u)'
    PROVE  IInv'
<1>1. /\ owner' \in [Conns -> (Requests \X Uses) \cup {Nobody}]
      /\ cancelled \subseteq cancelled' /\ cancelled' \subseteq Requests
      /\ waiting' \subseteq waiting \cup {p}
      /\ p \in waiting' => phase \in Asking
  BY DEF IInv, TypeOK
<1>2. Single'
  BY DEF IInv, Single
<1>3. ASSUME NEW d \in Conns, NEW q \in Requests, NEW u \in Uses, owner'[d] = <<q, u>>
      PROVE  \/ owner[d] = <<q, u>> /\ q # p
             \/ q \in waiting \ waiting' /\ u = Use(pc[q]) /\ pc'[q] = pc[q]
             \/ InUse(q, u)'
  <2>1. owner[d] = <<q, u>>
    BY <1>3
  <2> QED
    BY <2>1
<1> QED
  BY <1>1, <1>2, <1>3, Keeps

\* What a registration holds in each of its phases.
LEMMA HoldsInPhase ==
    ASSUME IInv, NEW r \in Registrations
    PROVE  /\ r \in Requests /\ r \notin Others
           /\ pc[r] \in {"new", "mail"} => r \notin waiting
           /\ pc[r] \in {"invite", "fail", "done"} => r \notin waiting
           /\ \A c \in Conns, u \in Uses : owner[c] = <<r, u>> =>
                 /\ pc[r] \notin {"new", "mail", "query"}
                 /\ pc[r] = "begin" => u = "tx" /\ r \notin waiting
                 /\ pc[r] = "create" => u = "tx" \/ (u = "query" /\ r \notin waiting)
                 /\ pc[r] \in {"invite", "fail", "done"} => u = "tx"
                 /\ pc[r] = "undo" => u = "undo"
<1>1. r \in Requests /\ r \notin Others
  BY RequestsAssumption DEF Requests
<1>2. pc[r] \in {"new", "mail", "invite", "fail", "done"} => r \notin waiting
  BY DEF IInv, TypeOK
<1>3. ASSUME NEW c \in Conns, NEW u \in Uses, owner[c] = <<r, u>>
      PROVE  /\ pc[r] \notin {"new", "mail", "query"}
             /\ pc[r] = "begin" => u = "tx" /\ r \notin waiting
             /\ pc[r] = "create" => u = "tx" \/ (u = "query" /\ r \notin waiting)
             /\ pc[r] \in {"invite", "fail", "done"} => u = "tx"
             /\ pc[r] = "undo" => u = "undo"
  <2>1. InUse(r, u) /\ pc[r] # "query"
    BY <1>1, <1>3 DEF IInv, Used, Roles
  <2> QED
    BY <2>1 DEF InUse, Running, Uses
<1> QED
  BY <1>1, <1>2, <1>3

\* A registration returns the connection it holds for a use.
LEMMA ReleaseKeeps ==
    ASSUME IInv, NEW r \in Registrations, NEW use \in Uses, NEW phase \in Phases \ {"query"},
           Release(r, use, phase), UNCHANGED cancelled, r \notin waiting,
           \A c \in Conns, u \in Uses : owner[c] = <<r, u>> /\ u # use => InUse(r, u)'
    PROVE  IInv'
<1>1. PICK c \in Held(r, use) : Return(c)
  BY DEF Release
<1>2. /\ c \in Conns /\ owner[c] = <<r, use>> /\ owner[c] # Nobody
      /\ r \in Requests /\ r \notin Others
  <2>1. \A p \in Requests, u \in Uses : <<p, u>> # Nobody
    BY RequestsAssumption DEF Requests, Uses
  <2>2. c \in Conns /\ owner[c] = <<r, use>>
    BY DEF Held
  <2>3. r \in Requests /\ r \notin Others
    BY RequestsAssumption DEF Requests
  <2> QED
    BY <2>1, <2>2, <2>3
<1>3. \A d \in Conns \ {c}, u \in Uses : owner[d] = <<r, u>> => InUse(r, u)'
  BY <1>2 DEF IInv, Single
<1>4. pc' = [pc EXCEPT ![r] = phase]
  BY DEF Release, Continue
<1>5. phase \in Phases /\ phase # "query"
  OBVIOUS
<1> QED
  BY <1>1, <1>2, <1>3, <1>4, <1>5, ReturnKeeps

LEMMA RegistrationKeeps ==
    ASSUME IInv, NEW r \in Registrations, Begin(r) \/ Proceed(r) \/ AwaitDone(r)
    PROVE  IInv'
<1>1. /\ r \in Requests /\ r \notin Others
      /\ pc \in [Requests -> Phases]
      /\ \A phase : pc' = [pc EXCEPT ![r] = phase] => pc'[r] = phase
  BY HoldsInPhase DEF IInv, TypeOK
<1>2. CASE Begin(r)
  <2>1. /\ "begin" \in Asking
        /\ Ask(r, "begin") /\ UNCHANGED cancelled /\ r \notin waiting
        /\ \A c \in Conns, u \in Uses : owner[c] # <<r, u>>
    BY <1>2, HoldsInPhase DEF Begin, Asking
  <2> QED
    BY <1>1, <2>1, AskKeeps
<1>3. CASE BeginFails(r)
  <2>1. CASE GiveUp(r, "done")
    <3>1. /\ pc' = [pc EXCEPT ![r] = "done"] /\ UNCHANGED <<owner, cancelled>>
          /\ waiting' \subseteq waiting /\ r \notin waiting'
          /\ \A c \in Conns, u \in Uses : owner[c] # <<r, u>>
      BY <1>3, <2>1, HoldsInPhase DEF BeginFails, GiveUp, Continue
    <3> QED
      BY <1>1, <3>1, StayKeeps DEF Phases
  <2>2. CASE r \notin waiting /\ Release(r, "tx", "done")
    <3>1. \A c \in Conns, u \in Uses : owner[c] = <<r, u>> => u = "tx"
      BY <1>3, HoldsInPhase DEF BeginFails
    <3>2. UNCHANGED cancelled
      BY <1>3 DEF BeginFails
    <3> QED
      BY <2>2, <3>1, <3>2, ReleaseKeeps DEF Phases, Uses
  <2> QED
    BY <1>3, <2>1, <2>2 DEF BeginFails
<1>4. CASE StartCreate(r)
  <2>1. /\ "create" \in Asking
        /\ Ask(r, "create") /\ UNCHANGED cancelled /\ r \notin waiting
        /\ pc[r] = "begin" /\ pc'[r] = "create"
    BY <1>1, <1>4 DEF StartCreate, Running, Asking, Ask
  <2>2. ASSUME NEW c \in Conns, NEW u \in Uses, owner[c] = <<r, u>>
        PROVE  u # Use("create") /\ InUse(r, u)'
    <3>1. u = "tx"
      BY <2>1, <2>2, HoldsInPhase
    <3> QED
      BY <2>1, <3>1 DEF Use, InUse
  <2> QED
    BY <1>1, <2>1, <2>2, AskKeeps
<1>5. CASE CreateFails(r)
  <2>1. CASE pc[r] = "create" /\ GiveUp(r, "fail")
    <3>1. /\ pc' = [pc EXCEPT ![r] = "fail"] /\ pc'[r] = "fail"
          /\ UNCHANGED <<owner, cancelled>>
          /\ waiting' \subseteq waiting /\ r \notin waiting' /\ r \in waiting
      BY <1>1, <1>5, <2>1 DEF CreateFails, GiveUp, Continue
    <3>2. ASSUME NEW c \in Conns, NEW u \in Uses, owner[c] = <<r, u>>
          PROVE  InUse(r, u)'
      <4>1. u = "tx"
        BY <2>1, <3>1, <3>2, HoldsInPhase
      <4> QED
        BY <3>1, <4>1 DEF InUse
    <3> QED
      BY <1>1, <3>1, <3>2, StayKeeps DEF Phases
  <2>2. CASE Running(r, "create") /\ Release(r, "query", "fail")
    <3>1. /\ pc[r] = "create" /\ pc'[r] = "fail" /\ r \notin waiting
          /\ UNCHANGED cancelled
      BY <1>1, <1>5, <2>2 DEF CreateFails, Running, Release, Continue
    <3>2. ASSUME NEW c \in Conns, NEW u \in Uses, owner[c] = <<r, u>>, u # "query"
          PROVE  InUse(r, u)'
      <4>1. u = "tx"
        BY <3>1, <3>2, HoldsInPhase
      <4> QED
        BY <3>1, <4>1 DEF InUse
    <3> QED
      BY <2>2, <3>1, <3>2, ReleaseKeeps DEF Phases, Uses
  <2>3. CASE /\ Running(r, "begin") /\ r \in cancelled /\ Continue(r, "fail")
             /\ UNCHANGED <<owner, waiting>>
    <3>1. /\ pc' = [pc EXCEPT ![r] = "fail"] /\ pc'[r] = "fail" /\ pc[r] = "begin"
          /\ UNCHANGED <<owner, cancelled>>
          /\ waiting' \subseteq waiting /\ r \notin waiting'
      BY <1>1, <1>5, <2>3 DEF CreateFails, Running, Continue
    <3>2. ASSUME NEW c \in Conns, NEW u \in Uses, owner[c] = <<r, u>>
          PROVE  InUse(r, u)'
      <4>1. u = "tx"
        BY <3>1, <3>2, HoldsInPhase
      <4> QED
        BY <3>1, <4>1 DEF InUse
    <3> QED
      BY <1>1, <3>1, <3>2, StayKeeps DEF Phases
  <2> QED
    BY <1>5, <2>1, <2>2, <2>3 DEF CreateFails
<1>6. CASE Created(r)
  <2>1. /\ pc[r] = "create" /\ pc'[r] = "invite" /\ r \notin waiting
        /\ Release(r, "query", "invite") /\ UNCHANGED cancelled
    BY <1>1, <1>6 DEF Created, Running, Release, Continue
  <2>2. ASSUME NEW c \in Conns, NEW u \in Uses, owner[c] = <<r, u>>, u # "query"
        PROVE  InUse(r, u)'
    <3>1. u = "tx"
      BY <2>1, <2>2, HoldsInPhase
    <3> QED
      BY <2>1, <3>1 DEF InUse
  <2> QED
    BY <2>1, <2>2, ReleaseKeeps DEF Phases, Uses
<1>7. CASE InviteFails(r)
  <2>1. /\ pc' = [pc EXCEPT ![r] = "fail"] /\ pc'[r] = "fail" /\ pc[r] = "invite"
        /\ UNCHANGED <<owner, cancelled>>
        /\ waiting' \subseteq waiting /\ r \notin waiting'
    BY <1>1, <1>7, HoldsInPhase DEF InviteFails, Continue
  <2>2. ASSUME NEW c \in Conns, NEW u \in Uses, owner[c] = <<r, u>>
        PROVE  InUse(r, u)'
    <3>1. u = "tx"
      BY <2>1, <2>2, HoldsInPhase
    <3> QED
      BY <2>1, <3>1 DEF InUse
  <2> QED
    BY <1>1, <2>1, <2>2, StayKeeps DEF Phases
<1>8. CASE Commit(r)
  <2>1. /\ r \notin waiting /\ UNCHANGED cancelled
        /\ Release(r, "tx", "mail") \/ Release(r, "tx", "done")
        /\ \A c \in Conns, u \in Uses : owner[c] = <<r, u>> => u = "tx"
    BY <1>8, HoldsInPhase DEF Commit
  <2> QED
    BY <2>1, ReleaseKeeps DEF Phases, Uses
<1>9. CASE Rollback(r)
  <2>1. /\ pc[r] = "fail" /\ r \notin waiting /\ UNCHANGED cancelled
        /\ pc' = [pc EXCEPT ![r] = "done"] /\ pc'[r] = "done"
        /\ \A c \in Conns, u \in Uses : owner[c] = <<r, u>> => u = "tx"
    BY <1>1, <1>9, HoldsInPhase DEF Rollback, Continue
  <2>2. CASE \E c \in Held(r, "tx") : Return(c)
    BY <2>1, <2>2, ReleaseKeeps DEF Release, Continue, Phases, Uses
  <2>3. CASE (r \in cancelled \/ Held(r, "tx") = {}) /\ UNCHANGED <<owner, waiting>>
    <3>1. ASSUME NEW c \in Conns, NEW u \in Uses, owner[c] = <<r, u>>
          PROVE  InUse(r, u)'
      <4>1. u = "tx" /\ r \in cancelled
        BY <2>1, <2>3, <3>1 DEF Held
      <4> QED
        BY <2>1, <4>1 DEF InUse
    <3>2. UNCHANGED <<owner, cancelled>> /\ waiting' \subseteq waiting /\ r \notin waiting'
      BY <2>1, <2>3
    <3> QED
      BY <1>1, <2>1, <3>1, <3>2, StayKeeps DEF Phases
  <2> QED
    BY <1>9, <2>2, <2>3 DEF Rollback, RolledBack
<1>10. CASE MailSent(r)
  <2>1. /\ pc' = [pc EXCEPT ![r] = "done"]
        /\ UNCHANGED <<owner, cancelled>>
        /\ waiting' \subseteq waiting /\ r \notin waiting'
        /\ \A c \in Conns, u \in Uses : owner[c] # <<r, u>>
    BY <1>10, HoldsInPhase DEF MailSent, Continue
  <2> QED
    BY <1>1, <2>1, StayKeeps DEF Phases
<1>11. CASE MailFails(r)
  <2>1. /\ "undo" \in Asking
        /\ Ask(r, "undo") /\ UNCHANGED cancelled /\ r \notin waiting
        /\ \A c \in Conns, u \in Uses : owner[c] # <<r, u>>
    BY <1>11, HoldsInPhase DEF MailFails, Asking
  <2> QED
    BY <1>1, <2>1, AskKeeps
<1>12. CASE Undone(r)
  <2>1. /\ r \notin waiting /\ UNCHANGED cancelled /\ Release(r, "undo", "done")
        /\ \A c \in Conns, u \in Uses : owner[c] = <<r, u>> => u = "undo"
    BY <1>12, HoldsInPhase DEF Undone, Running
  <2> QED
    BY <2>1, ReleaseKeeps DEF Phases, Uses
<1>13. CASE AwaitDone(r)
  <2>1. PICK c \in Held(r, "tx") : Return(c)
    BY <1>13 DEF AwaitDone
  <2>2. /\ c \in Conns /\ owner[c] # Nobody
        /\ UNCHANGED <<pc, cancelled>>
        /\ pc' = [pc EXCEPT ![r] = pc[r]]
        /\ pc[r] \in Phases /\ pc[r] # "query"
    BY <1>1, <1>13, RequestsAssumption DEF AwaitDone, Held, Requests, IInv, Roles
  <2>3. waiting' \subseteq waiting
    BY <2>1, <2>2, Handover
  <2>4. ASSUME NEW d \in Conns \ {c}, NEW u \in Uses, owner[d] = <<r, u>>
        PROVE  InUse(r, u)'
    <3>1. InUse(r, u)
      BY <1>1, <2>4 DEF IInv, Used
    <3> QED
      BY <2>2, <2>3, <3>1 DEF InUse, Running, Uses
  <2> QED
    BY <1>1, <2>1, <2>2, <2>4, ReturnKeeps
<1> QED
  BY <1>2, <1>3, <1>4, <1>5, <1>6, <1>7, <1>8, <1>9, <1>10, <1>11, <1>12, <1>13 DEF Proceed

LEMMA OtherKeeps ==
    ASSUME IInv, NEW p \in Others, Query(p) \/ QueryEnds(p)
    PROVE  IInv'
<1>1. /\ p \in Requests /\ p \notin Registrations
      /\ \A c \in Conns, u \in Uses : owner[c] = <<p, u>> => InUse(p, u)
  BY RequestsAssumption DEF Requests, IInv, Used
<1>2. CASE Query(p)
  <2>1. /\ "query" \in Asking
        /\ Ask(p, "query") /\ UNCHANGED cancelled /\ p \notin waiting /\ pc[p] = "new"
    BY <1>2 DEF Query, Asking, IInv, TypeOK
  <2>2. ASSUME NEW c \in Conns, NEW u \in Uses PROVE owner[c] # <<p, u>>
    <3>1. ~InUse(p, u)
      BY <2>1 DEF InUse, Running, Uses
    <3> QED
      BY <1>1, <3>1
  <2> QED
    BY <1>1, <2>1, <2>2, AskKeeps
<1>3. CASE QueryEnds(p)
  <2>1. pc[p] = "query" /\ UNCHANGED cancelled
    BY <1>3 DEF QueryEnds
  <2>2. ASSUME NEW c \in Conns, NEW u \in Uses, owner[c] = <<p, u>>
        PROVE  u = "query" /\ p \notin waiting
    <3>1. InUse(p, u)
      BY <1>1, <2>2
    <3> QED
      BY <2>1, <3>1 DEF InUse, Running, Uses
  <2>3. CASE GiveUp(p, "done")
    <3>1. /\ pc' = [pc EXCEPT ![p] = "done"]
          /\ UNCHANGED <<owner, cancelled>>
          /\ waiting' \subseteq waiting /\ p \notin waiting' /\ p \in waiting
      BY <2>1, <2>3 DEF GiveUp, Continue
    <3> QED
      BY <1>1, <2>2, <3>1, StayKeeps DEF Phases
  <2>4. CASE p \notin waiting /\ Release(p, "query", "done")
    <3>1. PICK c \in Held(p, "query") : Return(c)
      BY <2>4 DEF Release
    <3>2. /\ c \in Conns /\ owner[c] = <<p, "query">> /\ owner[c] # Nobody
          /\ pc' = [pc EXCEPT ![p] = "done"]
      BY <1>1, <2>4, <3>1, RequestsAssumption DEF Release, Continue, Held, Requests
    <3>3. \A d \in Conns \ {c}, u \in Uses : owner[d] = <<p, u>> => InUse(p, u)'
      BY <2>2, <3>2 DEF IInv, Single
    <3>4. Return(c) /\ "done" \in Phases /\ "done" # "query" /\ "done" \in {"new", "query", "done"}
      BY <3>1 DEF Phases
    <3> QED
      BY <1>1, <2>1, <2>4, <3>2, <3>3, <3>4, ReturnKeeps
  <2> QED
    BY <1>3, <2>3, <2>4 DEF QueryEnds
<1> QED
  BY <1>2, <1>3

LEMMA ContextKeeps ==
    ASSUME IInv, NEW p \in Requests, ContextEnds(p)
    PROVE  IInv'
<1>1. TypeOK' /\ Roles' /\ Single'
  BY DEF IInv, TypeOK, Roles, Single, ContextEnds
<1>2. ASSUME NEW c \in Conns, NEW q \in Requests, NEW u \in Uses, owner'[c] = <<q, u>>
      PROVE  InUse(q, u)'
  <2>1. InUse(q, u)
    BY <1>2 DEF ContextEnds, IInv, Used
  <2> QED
    BY <2>1 DEF ContextEnds, InUse, Running, Uses
<1> QED
  BY <1>1, <1>2 DEF IInv, Used

LEMMA StepInv == IInv /\ [Next]_vars => IInv'
<1> SUFFICES ASSUME IInv, [Next]_vars PROVE IInv'
  OBVIOUS
<1>1. CASE UNCHANGED vars
  <2>1. TypeOK' /\ Roles' /\ Single'
    BY <1>1 DEF vars, IInv, TypeOK, Roles, Single
  <2>2. ASSUME NEW c \in Conns, NEW q \in Requests, NEW u \in Uses, owner'[c] = <<q, u>>
        PROVE  InUse(q, u)'
    <3>1. InUse(q, u)
      BY <1>1, <2>2 DEF vars, IInv, Used
    <3> QED
      BY <1>1, <3>1 DEF vars, InUse, Running, Uses
  <2> QED
    BY <2>1, <2>2 DEF IInv, Used
<1>2. CASE Quiet
  BY <1>1, <1>2 DEF Quiet
<1> QED
  BY <1>1, <1>2, RegistrationKeeps, OtherKeeps, ContextKeeps DEF Next

LEMMA Invariant == Spec => []IInv
BY InitInv, StepInv, PTL DEF Spec

\* Owners, queue and phases stay well formed for any pool and any requests.
THEOREM TypeCorrect == Spec => []TypeOK
<1>1. IInv => TypeOK
  BY DEF IInv
<1> QED
  BY <1>1, Invariant, PTL

\* withTx, Commit, Rollback and the goroutine of the context return every connection
\* they were given, however failures, deadlines and cancellations fall.
THEOREM NoConnectionLost == Spec => []NoLeak
<1>1. IInv => NoLeak
  BY LeakParts DEF IInv
<1> QED
  BY <1>1, Invariant, PTL

\* If nobody who holds a connection can go on, each is held by a registration whose
\* Create waits.
LEMMA StalledOwner ==
    ASSUME IInv, Stalled, NEW c \in Conns
    PROVE  \E r \in Starved : owner[c] = <<r, "tx">>
<1>1. PICK p \in Requests, u \in Uses :
             owner[c] = <<p, u>> /\ owner[c][1] = p /\ owner[c][2] = u
  BY OwnerForm DEF IInv, Stalled
<1>2. InUse(p, u)
  BY <1>1 DEF IInv, Used
<1>3. p \in waiting \/ (pc[p] = "done" /\ p \notin cancelled)
  BY <1>1 DEF Stalled
<1>4. pc[p] = "done" => p \notin waiting
  BY DEF IInv, TypeOK
<1>5. u = "tx" /\ p \in waiting /\ pc[p] = "create"
  <2>1. CASE u = "tx"
    <3>1. p \in waiting => pc[p] \in {"begin", "create", "undo", "query"}
      BY DEF IInv, TypeOK
    <3> QED
      BY <1>2, <1>3, <2>1, <3>1 DEF InUse, Running
  <2>2. CASE u = "query"
    BY <1>2, <1>3, <2>2 DEF InUse, Running
  <2>3. CASE u = "undo"
    BY <1>2, <1>3, <2>3 DEF InUse, Running
  <2> QED
    BY <2>1, <2>2, <2>3 DEF Uses
<1>6. p \in Registrations
  BY <1>5 DEF IInv, Roles, Requests
<1> QED
  BY <1>1, <1>5, <1>6 DEF Starved

\* A pool of n connections stands still only with n registrations, each inside its
\* own transaction, waiting for a second connection.
THEOREM StandstillNeedsFullPool == Spec => []StallNeedsFullPool
<1>1. IInv => StallNeedsFullPool
  <2> SUFFICES ASSUME IInv, Stalled PROVE Cardinality(Starved) >= Cardinality(Conns)
    BY DEF StallNeedsFullPool
  <2> DEFINE holder == [c \in Conns |-> owner[c][1]]
  <2>1. ASSUME NEW c \in Conns PROVE holder[c] \in Starved /\ owner[c] = <<holder[c], "tx">>
    BY StalledOwner
  <2>2. holder \in Injection(Conns, Starved)
    <3> HIDE DEF holder
    <3>1. holder \in [Conns -> Starved]
      <4>1. holder = [c \in Conns |-> holder[c]]
        BY DEF holder
      <4> QED
        BY <2>1, <4>1
    <3>2. ASSUME NEW c \in Conns, NEW d \in Conns, holder[c] = holder[d] PROVE c = d
      <4>1. owner[c] = owner[d]
        BY <2>1, <3>2
      <4>2. owner[c] # Nobody
        BY DEF Stalled
      <4> QED
        BY <4>1, <4>2 DEF IInv, Single
    <3> QED
      BY <3>1, <3>2 DEF Injection, IsInjective
  <2>3. IsFiniteSet(Starved) /\ IsFiniteSet(Conns)
    <3>1. Starved \subseteq Registrations
      BY DEF Starved
    <3> QED
      BY <3>1, RequestsAssumption, ConnsAssumption, FS_Subset
  <2>4. Cardinality(Conns) <= Cardinality(Starved)
    BY <2>2, <2>3, FS_Injection
  <2> QED
    BY <2>3, <2>4, FS_CardinalityType
<1> QED
  BY <1>1, Invariant, PTL

=============================================================================
