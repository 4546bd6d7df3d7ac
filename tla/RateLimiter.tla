---------------------------- MODULE RateLimiter ----------------------------
(***************************************************************************)
(* The fixed-window rate limiter of internal/ratelimiter/fixed_window.go,  *)
(* as RateLimiterMiddleware calls it: every HTTP handler goroutine looks   *)
(* its client up under the read lock, releases it, and only then takes the *)
(* write lock to count the request.  The goroutine that saw no entry also  *)
(* starts a resetCount goroutine, which sleeps for a window and deletes    *)
(* the entry.  Between the two critical sections anything can happen.      *)
(*                                                                         *)
(* Time is abstracted to order: a sleeping resetCount may wake at any      *)
(* moment after it was started.                                            *)
(***************************************************************************)
EXTENDS Integers, FiniteSets

CONSTANTS Clients,     \* remote addresses, the keys of the limiter's map
          Handlers,    \* HTTP handler goroutines that may run at once
          limit,       \* requests per window (RATE_LIMITER_REQUEST_COUNT)
          MaxSleepers  \* bound: resetCount goroutines per client

ASSUME LimitAssumption == limit \in Nat
ASSUME HandlersAssumption == IsFiniteSet(Handlers) /\ Handlers # {}
ASSUME SleepersAssumption == MaxSleepers \in Nat \ {0}

VARIABLES clients,    \* clients[ip]: the count stored for ip, 0 when there is no entry
          sleepers,   \* sleepers[ip]: resetCount goroutines not yet woken
          admitting,  \* admitting[ip]: handlers between the read and the write lock
          sawNone,    \* those of them that read exist = FALSE
          denied      \* clients whose latest request was answered 429

vars == <<clients, sleepers, admitting, sawNone, denied>>

Exists(ip) == clients[ip] # 0

AdmissibleOffByOne(ip) == ~Exists(ip) \/ clients[ip] <= limit

\* The test of Allow: no entry, or a count below the limit.
Admissible(ip) == ~Exists(ip) \/ clients[ip] < limit

Idle(h) == \A ip \in Clients : h \notin admitting[ip]

\* Handlers that will start a resetCount when they take the write lock.
Starters(ip) == admitting[ip] \cap sawNone

-----------------------------------------------------------------------------
Init == /\ clients = [ip \in Clients |-> 0]
        /\ sleepers = [ip \in Clients |-> 0]
        /\ admitting = [ip \in Clients |-> {}]
        /\ sawNone = {}
        /\ denied = {}

\* Allow, first critical section: the request will be let through.
Read(h, ip) ==
    /\ Idle(h)
    /\ Admissible(ip)
    /\ ~Exists(ip) => sleepers[ip] + Cardinality(Starters(ip)) < MaxSleepers
    /\ admitting' = [admitting EXCEPT ![ip] = @ \cup {h}]
    /\ sawNone' = IF Exists(ip) THEN sawNone ELSE sawNone \cup {h}
    /\ denied' = denied \ {ip}
    /\ UNCHANGED <<clients, sleepers>>

\* Allow returns false, and the middleware answers 429 with Retry-After.
Deny(h, ip) ==
    /\ Idle(h)
    /\ ~Admissible(ip)
    /\ denied' = denied \cup {ip}
    /\ UNCHANGED <<clients, sleepers, admitting, sawNone>>

NobodyStarts(h) == FALSE

\* if !exist, with the exist of the first critical section.
StartsReset(h) == h \in sawNone

\* Allow, second critical section: start the reset if the READ saw no entry,
\* count the request, let it through.
Admit(h, ip) ==
    /\ h \in admitting[ip]
    /\ sleepers' = IF StartsReset(h)
                   THEN [sleepers EXCEPT ![ip] = @ + 1]
                   ELSE sleepers
    /\ clients' = [clients EXCEPT ![ip] = @ + 1]
    /\ admitting' = [admitting EXCEPT ![ip] = @ \ {h}]
    /\ sawNone' = sawNone \ {h}
    /\ UNCHANGED denied

KeptCount(ip) == clients[ip]

ReducedCount(ip) == clients[ip] - limit

\* The entry is deleted, whatever its count.
CountAfterReset(ip) == 0

\* resetCount wakes after its sleep and deletes whatever entry is there.
ResetCount(ip) ==
    /\ sleepers[ip] > 0
    /\ sleepers' = [sleepers EXCEPT ![ip] = @ - 1]
    /\ clients' = [clients EXCEPT ![ip] = CountAfterReset(ip)]
    /\ UNCHANGED <<admitting, sawNone, denied>>

Next == \E ip \in Clients :
            \/ ResetCount(ip)
            \/ \E h \in Handlers : Read(h, ip) \/ Deny(h, ip) \/ Admit(h, ip)

Spec == Init /\ [][Next]_vars

\* A handler holding no lock is scheduled, and a sleep ends.
Fairness == \A ip \in Clients :
                /\ WF_vars(ResetCount(ip))
                /\ \A h \in Handlers : WF_vars(Admit(h, ip))

FairSpec == Spec /\ Fairness

-----------------------------------------------------------------------------
(* Properties *)

\* Counts are natural numbers (the map never holds a negative count) and the
\* book-keeping of handlers and sleepers is well formed.
TypeOK == /\ clients \in [Clients -> Nat]
          /\ sleepers \in [Clients -> Nat]
          /\ admitting \in [Clients -> SUBSET Handlers]
          /\ sawNone \in SUBSET Handlers
          /\ denied \in SUBSET Clients

\* A limit of 0 still lets the first request of a window through.
Cap == IF limit = 0 THEN 1 ELSE limit

\* The check and the increment are separate critical sections, so a window can
\* admit more than the limit, but only by the requests already past the check:
\* one fewer than there are handlers.
OvershootBound == \A ip \in Clients :
                      clients[ip] <= Cap + Cardinality(Handlers) - 1

\* The strengthening that makes OvershootBound inductive: once the cap is
\* reached nobody joins the handlers past the check.
OvershootReserve ==
    \A ip \in Clients :
        clients[ip] >= Cap =>
            clients[ip] + Cardinality(admitting[ip]) <= Cap + Cardinality(Handlers) - 1

\* An entry no resetCount will ever delete.
Orphan(ip) == Exists(ip) /\ sleepers[ip] = 0 /\ Starters(ip) = {}

OrphanedByStaleRead ==
    \A ip \in Clients :
        Orphan(ip)' /\ ~Orphan(ip) =>
            /\ ~Exists(ip)
            /\ \E h \in admitting[ip] \ sawNone : Admit(h, ip)

\* An entry loses its scheduled reset in one way only: a handler that read an
\* entry counts its request after that entry was deleted.
OrphanOnlyByStaleRead == [][OrphanedByStaleRead]_vars

\* A client turned away while a reset is scheduled is admissible again.
ScheduledClientReadmitted ==
    \A ip \in Clients :
        ip \in denied /\ sleepers[ip] > 0 ~> Admissible(ip)

\* What the 429 answer says: "rate limit exceeded, retry after: <window>".
\* A client that was turned away is admissible again at some later time.
RetryAfterHonoured == \A ip \in Clients : ip \in denied ~> Admissible(ip)
=============================================================================
