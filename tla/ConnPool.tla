------------------------------ MODULE ConnPool ------------------------------
(***************************************************************************)
(* Registrations and the connection pool: withTx (store/storage.go),       *)
(* CreateAndInvite, Create and Delete (store/users.go), the mail goroutine *)
(* (cmd/api/auth.go), and the pool of database/sql, which is external.     *)
(*                                                                         *)
(* CreateAndInvite begins a transaction on one connection, and Create,     *)
(* called inside it, runs its INSERT on the pool: a registration holds a   *)
(* connection and waits for another one.  The goroutine that undoes a      *)
(* registration waits under context.Background(), that is for ever.        *)
(*                                                                         *)
(* The pool hands a connection that is returned to any of those who wait,  *)
(* and keeps it only if nobody does.  When the context of a transaction    *)
(* ends, a goroutine of database/sql rolls it back and returns its         *)
(* connection, in no order with the steps of the handler.                  *)
(***************************************************************************)
EXTENDS Integers, FiniteSets

CONSTANTS Conns,          \* MaxOpenConns connections
          Registrations,  \* registrations, each made once
          Others,         \* statements and short transactions of other requests
          Nobody

ASSUME ConnsAssumption == IsFiniteSet(Conns) /\ Conns # {}
ASSUME RequestsAssumption == /\ IsFiniteSet(Registrations)
                             /\ Registrations \cap Others = {}
                             /\ Nobody \notin (Registrations \cup Others) \X {"tx", "query", "undo"}

VARIABLES owner,     \* owner[c]: who holds connection c, and for what
          waiting,   \* the requests queued in the pool
          pc,        \* pc[p]: what p does or waits to do
          cancelled  \* whose request context has ended

vars == <<owner, waiting, pc, cancelled>>

Requests == Registrations \cup Others
Uses == {"tx", "query", "undo"}
Phases == {"new", "begin", "create", "invite", "fail", "mail", "undo", "query", "done"}

\* What the connection is for that p asks for in its phase.
Use(phase) == CASE phase = "begin" -> "tx"
                [] phase = "undo" -> "undo"
                [] OTHER -> "query"

Held(p, use) == {c \in Conns : owner[c] = <<p, use>>}

Idle == {c \in Conns : owner[c] = Nobody}

-----------------------------------------------------------------------------
(* The pool *)

\* p moves on to a phase for which it needs a connection.
Ask(p, phase) ==
    /\ pc' = [pc EXCEPT ![p] = phase]
    /\ \/ /\ \E c \in Idle : owner' = [owner EXCEPT ![c] = <<p, Use(phase)>>]
          /\ UNCHANGED waiting
       \/ /\ Idle = {}
          /\ waiting' = waiting \cup {p}
          /\ UNCHANGED owner

\* Connection c comes back.
Return(c) ==
    \/ /\ waiting = {}
       /\ owner' = [owner EXCEPT ![c] = Nobody]
       /\ UNCHANGED waiting
    \/ \E w \in waiting :
          /\ owner' = [owner EXCEPT ![c] = <<w, Use(pc[w])>>]
          /\ waiting' = waiting \ {w}

\* p has what its phase needs.
Running(p, phase) == pc[p] = phase /\ p \notin waiting

Continue(p, phase) == pc' = [pc EXCEPT ![p] = phase]

\* Left in the queue.
GiveUpQueued(p, phase) ==
    /\ p \in waiting
    /\ Continue(p, phase)
    /\ UNCHANGED <<owner, waiting>>

\* p gives up waiting: its deadline has passed, or its context has ended.
GiveUp(p, phase) ==
    /\ p \in waiting
    /\ waiting' = waiting \ {p}
    /\ Continue(p, phase)
    /\ UNCHANGED owner

\* p returns the connection it holds for a use.
Release(p, use, phase) ==
    /\ \E c \in Held(p, use) : Return(c)
    /\ Continue(p, phase)

-----------------------------------------------------------------------------
Init == /\ owner = [c \in Conns |-> Nobody]
        /\ waiting = {}
        /\ pc = [p \in Requests |-> "new"]
        /\ cancelled = {}

\* withTx: BeginTx under the context of the request.
Begin(r) ==
    /\ pc[r] = "new"
    /\ Ask(r, "begin")
    /\ UNCHANGED cancelled

BeginFails(r) ==
    /\ pc[r] = "begin"
    /\ GiveUp(r, "done") \/ (r \notin waiting /\ Release(r, "tx", "done"))
    /\ UNCHANGED cancelled

\* Create asks the pool although it has been given the transaction.
StartCreate(r) ==
    /\ Running(r, "begin")
    /\ r \notin cancelled
    /\ Ask(r, "create")
    /\ UNCHANGED cancelled

\* Five seconds without a connection, a statement that fails, or a context that
\* has ended before or meanwhile.
CreateFails(r) ==
    /\ \/ pc[r] = "create" /\ GiveUp(r, "fail")
       \/ Running(r, "create") /\ Release(r, "query", "fail")
       \/ Running(r, "begin") /\ r \in cancelled /\ Continue(r, "fail")
                              /\ UNCHANGED <<owner, waiting>>
    /\ UNCHANGED cancelled

Created(r) ==
    /\ Running(r, "create")
    /\ Release(r, "query", "invite")
    /\ UNCHANGED cancelled

\* The invitation runs in the transaction.
InviteFails(r) ==
    /\ pc[r] = "invite"
    /\ Continue(r, "fail")
    /\ UNCHANGED <<owner, waiting, cancelled>>

\* The mail, and with it Delete, inside the transaction.
MailInTransaction(r) ==
    /\ pc[r] = "invite"
    /\ Continue(r, "mail")
    /\ UNCHANGED <<owner, waiting, cancelled>>

\* tx.Commit returns the connection, successful or not.
Commit(r) ==
    /\ pc[r] = "invite"
    /\ Release(r, "tx", "mail") \/ Release(r, "tx", "done")
    /\ UNCHANGED cancelled

NotRolledBack(r) == UNCHANGED <<owner, waiting>>

\* tx.Rollback, unless the other goroutine has begun to: ErrTxDone.
RolledBack(r) ==
    \/ \E c \in Held(r, "tx") : Return(c)
    \/ (r \in cancelled \/ Held(r, "tx") = {}) /\ UNCHANGED <<owner, waiting>>

Rollback(r) ==
    /\ pc[r] = "fail"
    /\ RolledBack(r)
    /\ Continue(r, "done")
    /\ UNCHANGED cancelled

\* The client goes away, or middleware.Timeout ends the context.
ContextEnds(p) ==
    /\ pc[p] \in {"begin", "create", "invite", "fail", "query"}
    /\ p \notin cancelled
    /\ cancelled' = cancelled \cup {p}
    /\ UNCHANGED <<owner, waiting, pc>>

\* Tx.awaitDone: the goroutine that waits for the context of the transaction.
AwaitDone(r) ==
    /\ r \in cancelled
    /\ \E c \in Held(r, "tx") : Return(c)
    /\ UNCHANGED <<pc, cancelled>>

MailSent(r) ==
    /\ pc[r] = "mail"
    /\ Continue(r, "done")
    /\ UNCHANGED <<owner, waiting, cancelled>>

\* Delete, under context.Background().
MailFails(r) ==
    /\ pc[r] = "mail"
    /\ Ask(r, "undo")
    /\ UNCHANGED cancelled

\* Commit or Rollback of Delete's transaction.
Undone(r) ==
    /\ Running(r, "undo")
    /\ Release(r, "undo", "done")
    /\ UNCHANGED cancelled

\* Any other request: a statement with a deadline, or a transaction that keeps to
\* its one connection.
Query(p) ==
    /\ pc[p] = "new"
    /\ Ask(p, "query")
    /\ UNCHANGED cancelled

QueryEnds(p) ==
    /\ pc[p] = "query"
    /\ GiveUp(p, "done") \/ (p \notin waiting /\ Release(p, "query", "done"))
    /\ UNCHANGED cancelled

Proceed(r) == \/ BeginFails(r) \/ StartCreate(r) \/ CreateFails(r) \/ Created(r)
              \/ InviteFails(r) \/ Commit(r) \/ Rollback(r)
              \/ MailSent(r) \/ MailFails(r) \/ Undone(r)

\* Nothing is left to do.
Quiet == /\ \A p \in Requests : pc[p] = "done"
         /\ Idle = Conns
         /\ UNCHANGED vars

Next == \/ \E r \in Registrations : Begin(r) \/ Proceed(r) \/ AwaitDone(r)
        \/ \E p \in Others : Query(p) \/ QueryEnds(p)
        \/ \E p \in Requests : ContextEnds(p)
        \/ Quiet

Spec == Init /\ [][Next]_vars

\* Statements and mails end, one way or the other, and so do deadlines.
FairSpec == /\ Spec
            /\ \A r \in Registrations : WF_vars(Proceed(r)) /\ WF_vars(AwaitDone(r))
            /\ \A p \in Others : WF_vars(QueryEnds(p))

-----------------------------------------------------------------------------
(* Properties *)

\* Owners and phases are well formed, and who waits is in a phase that needs a
\* connection.
TypeOK == /\ owner \in [Conns -> (Requests \X Uses) \cup {Nobody}]
          /\ waiting \subseteq {p \in Requests :
                            pc[p] \in {"begin", "create", "undo", "query"}}
          /\ pc \in [Requests -> Phases]
          /\ cancelled \subseteq Requests

\* p is in the step that will return the connection it holds for a use, or the
\* goroutine that waits for the context is about to.
InUse(p, use) ==
    CASE use = "tx" -> \/ Running(p, "begin")
                       \/ pc[p] \in {"create", "invite", "fail"}
                       \/ pc[p] = "done" /\ p \in cancelled
      [] use = "undo" -> Running(p, "undo")
      [] use = "query" -> Running(p, "create") \/ Running(p, "query")

\* No connection is lost: whatever fails, times out or is cancelled, who holds one
\* is still in the step that will return it, and holds it once.
NoLeak ==
    \A c \in Conns : owner[c] # Nobody =>
        /\ InUse(owner[c][1], owner[c][2])
        /\ Held(owner[c][1], owner[c][2]) = {c}

\* Registrations whose Create waits for a second connection.
Starved == {r \in Registrations : pc[r] = "create" /\ r \in waiting}

\* Somebody waits, and every connection is with somebody who waits, or is lost.
Stalled == /\ waiting # {}
           /\ \A c \in Conns :
                 /\ owner[c] # Nobody
                 /\ \/ owner[c][1] \in waiting
                    \/ pc[owner[c][1]] = "done" /\ owner[c][1] \notin cancelled

\* The pool comes to a standstill only when as many registrations as there are
\* connections are between BeginTx and the INSERT of Create at once.
StallNeedsFullPool == Stalled => Cardinality(Starved) >= Cardinality(Conns)

\* Every registration and every other request ends and gives back what it held,
\* although some of them wait for each other and the one that undoes a
\* registration would wait for ever.
EverybodyEnds ==
    \A p \in Requests :
        pc[p] # "new" ~> pc[p] = "done" /\ \A u \in Uses : Held(p, u) = {}
=============================================================================
