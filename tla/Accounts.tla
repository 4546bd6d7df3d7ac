------------------------------ MODULE Accounts ------------------------------
(***************************************************************************)
(* Registration, the invitation mail and activation: registerUserHandler   *)
(* (cmd/api/auth.go), activateUserHandler (cmd/api/users.go), UserStore    *)
(* (internal/store/users.go) and MailTrapClient.Send.                      *)
(*                                                                         *)
(* CreateAndInvite opens a transaction, but its INSERT of the user runs on *)
(* the pool (s.db), so the row is committed before the invitation exists.  *)
(* After the 201 a goroutine mails the token, and deletes the user again   *)
(* when every attempt failed.  The server may die at any step (serve       *)
(* returns without waiting for Shutdown), a statement may fail, and a mail *)
(* may be delivered although the attempt reports an error.                 *)
(*                                                                         *)
(* A registration request and the user row it creates have the same name.  *)
(***************************************************************************)
EXTENDS Integers, FiniteSets

CONSTANTS Accounts,      \* registration requests, and their user rows
          Clients,       \* activation requests that may run at once
          email,         \* email[a], username[a]: what request a asks for
          username,
          seeded,        \* accounts already in the database
          maxRetries,    \* Send makes one attempt more than this
          MaxCrashes,    \* bound: how often the server dies
          CreateParses,  \* whether PostgreSQL accepts Create's INSERT
          QueriesFail    \* whether a statement may fail or time out

ASSUME AccountsAssumption == seeded \subseteq Accounts
ASSUME RetriesAssumption == maxRetries \in Nat /\ MaxCrashes \in Nat
ASSUME SwitchAssumption == CreateParses \in BOOLEAN /\ QueriesFail \in BOOLEAN

VARIABLES pc,          \* pc[a]: where registration a is
          status,      \* status[a]: its answer
          users,       \* rows of users
          active,      \* those with is_active and email_verified_at
          invitation,  \* invitation[a]: "none", "valid" or "expired"
          attempts,    \* attempts[a]: mails that Send has tried
          activating,  \* activating[a]: activations that read a's invitation
          told,        \* accounts some activation was answered 204 for
          inbox,       \* accounts whose token was delivered
          lostAck,     \* history: delivered by an attempt that reported an error
          broken,      \* history: cut short after the user row was committed
          crashes

vars == <<pc, status, users, active, invitation, attempts, activating, told, inbox,
          lostAck, broken, crashes>>

mailVars == <<attempts, inbox, lostAck>>
activationVars == <<active, activating, told>>

InFlight == {a \in Accounts : pc[a] \in {"created", "mailing", "rollback"}}

Taken(name, a) == \E b \in users : name[b] = name[a]

-----------------------------------------------------------------------------
\* Users of earlier deployments: an active one has used its invitation.
Init == /\ users = seeded
        /\ active \in SUBSET seeded
        /\ invitation \in [Accounts -> {"none", "valid", "expired"}]
        /\ \A a \in Accounts : a \notin seeded \ active => invitation[a] = "none"
        /\ inbox = seeded  \* their mail arrived long ago
        /\ pc = [a \in Accounts |-> IF a \in seeded THEN "done" ELSE "new"]
        /\ status = [a \in Accounts |-> IF a \in seeded THEN "201" ELSE "none"]
        /\ attempts = [a \in Accounts |-> 0]
        /\ activating = [a \in Accounts |-> {}]
        /\ told = {}
        /\ lostAck = {}
        /\ broken = {}
        /\ crashes = 0

\* The handler answers and starts nothing more.
Finish(a, s) == /\ pc' = [pc EXCEPT ![a] = "done"]
                /\ status' = [status EXCEPT ![a] = s]

\* Create: the INSERT takes effect at once, outside the transaction.
Create(a) ==
    /\ pc[a] = "new"
    /\ CreateParses
    /\ ~Taken(email, a) /\ ~Taken(username, a)
    /\ users' = users \cup {a}
    /\ pc' = [pc EXCEPT ![a] = "created"]
    /\ UNCHANGED <<status, invitation, mailVars, activationVars, broken, crashes>>

\* The unique violation is a 409 only for the constraint users_email_key, which
\* is checked first; the other one is user_username_unique in the database and
\* users_username_key in Create, so it falls through to 500.  A statement that
\* does not parse is a 500 too.
CreateRefused(a) ==
    /\ pc[a] = "new"
    /\ \/ Taken(email, a)
       \/ Taken(username, a)
       \/ ~CreateParses
    /\ Finish(a, IF CreateParses /\ Taken(email, a) THEN "409" ELSE "500")
    /\ UNCHANGED <<users, invitation, mailVars, activationVars, broken, crashes>>

\* A bad form, or an INSERT that fails; one that times out may have been
\* applied.
CreateFails(a) ==
    /\ pc[a] = "new"
    /\ \/ /\ Finish(a, "400")
          /\ UNCHANGED <<users, broken>>
       \/ /\ QueriesFail
          /\ Finish(a, "500")
          /\ UNCHANGED <<users, broken>>
       \/ /\ QueriesFail /\ CreateParses
          /\ ~Taken(email, a) /\ ~Taken(username, a)
          /\ Finish(a, "500")
          /\ users' = users \cup {a}
          /\ broken' = broken \cup {a}
    /\ UNCHANGED <<invitation, mailVars, activationVars, crashes>>

WithoutMail(a) == "done"

\* go func() { app.mailer.Send(...) }
AfterInvite(a) == "mailing"

\* createUserInvitation and the commit; the handler answers 201 and leaves the
\* mail to a goroutine.
Invite(a) ==
    /\ pc[a] = "created"
    /\ invitation' = [invitation EXCEPT ![a] = "valid"]
    /\ pc' = [pc EXCEPT ![a] = AfterInvite(a)]
    /\ status' = [status EXCEPT ![a] = "201"]
    /\ UNCHANGED <<users, mailVars, activationVars, broken, crashes>>

\* The invitation or its commit fails: the transaction is rolled back (or its
\* commit went unnoticed), but the user row stays.
InviteFails(a) ==
    /\ pc[a] = "created"
    /\ QueriesFail
    /\ \/ UNCHANGED invitation
       \/ invitation' = [invitation EXCEPT ![a] = "valid"]
    /\ Finish(a, "500")
    /\ broken' = broken \cup {a}
    /\ UNCHANGED <<users, mailVars, activationVars, crashes>>

SilentAfterFailure(a) == IF attempts[a] < maxRetries THEN "mailing" ELSE "done"

OnceMoreAfterFailure(a) == IF attempts[a] <= maxRetries THEN "mailing" ELSE "rollback"

\* for i := 0; i <= maxRetries; after the last attempt Send fails.
AfterFailure(a) == IF attempts[a] < maxRetries THEN "mailing" ELSE "rollback"

OnAfterSuccess(a) == AfterFailure(a)

\* Send returns from the loop.
AfterSuccess(a) == "done"

\* DialAndSend succeeds.
MailSent(a) ==
    /\ pc[a] = "mailing"
    /\ attempts' = [attempts EXCEPT ![a] = @ + 1]
    /\ inbox' = inbox \cup {a}
    /\ pc' = [pc EXCEPT ![a] = AfterSuccess(a)]
    /\ UNCHANGED <<status, users, invitation, lostAck, activationVars, broken, crashes>>

\* DialAndSend reports an error, and the mail was delivered or not.
MailFails(a) ==
    /\ pc[a] = "mailing"
    /\ attempts' = [attempts EXCEPT ![a] = @ + 1]
    /\ \/ UNCHANGED <<inbox, lostAck>>
       \/ inbox' = inbox \cup {a} /\ lostAck' = lostAck \cup {a}
    /\ pc' = [pc EXCEPT ![a] = AfterFailure(a)]
    /\ UNCHANGED <<status, users, invitation, activationVars, broken, crashes>>

RemoveUserOnly(a) == /\ users' = users \ {a}
                     /\ active' = active \ {a}
                     /\ UNCHANGED invitation

\* Delete: the user and its invitations go in one transaction, activated or
\* not.
Remove(a) == /\ users' = users \ {a}
             /\ active' = active \ {a}
             /\ invitation' = [invitation EXCEPT ![a] = "none"]

\* The goroutine's compensation when the mail could not be sent.
Rollback(a) ==
    /\ pc[a] = "rollback"
    /\ Remove(a)
    /\ pc' = [pc EXCEPT ![a] = "done"]
    /\ UNCHANGED <<status, mailVars, activating, told, broken, crashes>>

\* Delete fails, or its commit went unnoticed, which is logged and forgotten.
RollbackFails(a) ==
    /\ pc[a] = "rollback"
    /\ QueriesFail
    /\ Remove(a) \/ UNCHANGED <<users, active, invitation>>
    /\ pc' = [pc EXCEPT ![a] = "done"]
    /\ broken' = broken \cup {a}
    /\ UNCHANGED <<status, mailVars, activating, told, crashes>>

\* Activate reads the user of a valid invitation; only who has the mail knows
\* the token.
ReadInvitation(c, a) ==
    /\ \A b \in Accounts : c \notin activating[b]
    /\ a \in inbox /\ a \in users
    /\ invitation[a] = "valid"
    /\ activating' = [activating EXCEPT ![a] = @ \cup {c}]
    /\ UNCHANGED <<pc, status, users, active, invitation, mailVars, told, broken, crashes>>

\* The UPDATE of a row that is still there, and the DELETE of the invitation.
MarkActive(a) == /\ a \in users
                 /\ active' = active \cup {a}
                 /\ invitation' = [invitation EXCEPT ![a] = "none"]

\* Activate writes and commits; another activation that holds the row's lock
\* goes first.
Activate(c, a) ==
    /\ c \in activating[a]
    /\ activating' = [activating EXCEPT ![a] = @ \ {c}]
    /\ MarkActive(a)
    /\ told' = told \cup {a}
    /\ UNCHANGED <<pc, status, users, mailVars, broken, crashes>>

\* The UPDATE matches no row (403), a statement fails, or the commit goes
\* unnoticed (500).
ActivateFails(c, a) ==
    /\ c \in activating[a]
    /\ activating' = [activating EXCEPT ![a] = @ \ {c}]
    /\ \/ a \notin users /\ UNCHANGED <<active, invitation>>
       \/ QueriesFail /\ UNCHANGED <<active, invitation>>
       \/ QueriesFail /\ MarkActive(a)
    /\ UNCHANGED <<pc, status, users, mailVars, told, broken, crashes>>

\* The clock passes the invitation's expiry.
Expire(a) ==
    /\ invitation[a] = "valid"
    /\ invitation' = [invitation EXCEPT ![a] = "expired"]
    /\ UNCHANGED <<pc, status, users, mailVars, activationVars, broken, crashes>>

\* The process ends: open transactions are rolled back, the goroutines are gone.
Crash ==
    /\ crashes < MaxCrashes
    /\ crashes' = crashes + 1
    /\ pc' = [a \in Accounts |-> IF a \in InFlight THEN "done" ELSE pc[a]]
    /\ broken' = broken \cup InFlight
    /\ activating' = [a \in Accounts |-> {}]
    /\ UNCHANGED <<status, users, active, invitation, mailVars, told>>

\* Every registration has ended, and no activation is running.
Quiet == /\ \A a \in Accounts : pc[a] = "done" /\ activating[a] = {}
         /\ UNCHANGED vars

Next == \/ \E a \in Accounts :
              \/ Create(a) \/ CreateRefused(a) \/ CreateFails(a)
              \/ Invite(a) \/ InviteFails(a)
              \/ MailSent(a) \/ MailFails(a)
              \/ Rollback(a) \/ RollbackFails(a)
              \/ Expire(a)
              \/ \E c \in Clients :
                    ReadInvitation(c, a) \/ Activate(c, a) \/ ActivateFails(c, a)
        \/ Crash
        \/ Quiet

Spec == Init /\ [][Next]_vars

\* The mail goroutine runs: each attempt and the rollback end one way or the
\* other.
FairSpec == Spec /\ \A a \in Accounts :
                        /\ WF_vars(MailSent(a) \/ MailFails(a))
                        /\ WF_vars(Rollback(a) \/ RollbackFails(a))

-----------------------------------------------------------------------------
(* Properties *)

\* Rows, answers and goroutines are well formed.
TypeOK ==
    /\ pc \in [Accounts -> {"new", "created", "mailing", "rollback", "done"}]
    /\ status \in [Accounts -> {"none", "201", "400", "409", "500"}]
    /\ users \in SUBSET Accounts /\ active \in SUBSET users
    /\ invitation \in [Accounts -> {"none", "valid", "expired"}]
    /\ attempts \in [Accounts -> 0..maxRetries + 1]
    /\ activating \in [Accounts -> SUBSET Clients]
    /\ told \in SUBSET Accounts /\ inbox \in SUBSET Accounts
    /\ lostAck \in SUBSET inbox /\ broken \in SUBSET Accounts
    /\ crashes \in 0..MaxCrashes

\* The table of invitations has no foreign key, yet none outlives its user, and
\* an active user's invitation is spent: the token works once.
InvitationsAreUseful ==
    \A a \in Accounts : invitation[a] # "none" => a \in users \ active

\* A user nobody was mailed about and nobody is going to mail about was left
\* behind by a failed statement or a crash; failing mails alone leave none.
StrandedOnlyByFault ==
    \A a \in users \ inbox : a \in InFlight \cup broken

\* Who was told that the account is active has an active account, unless the
\* mail was taken for lost and the user deleted.
ToldIsKept == told \subseteq active \cup lostAck

\* An activated account is deleted by the rollback only if an attempt delivered
\* the mail and reported an error.
ActiveIsKept ==
    [][\A a \in active : a \notin users' => a \in lostAck /\ pc[a] = "rollback"]_vars

\* A registration that was answered 201 ends with the mail delivered, the user
\* removed, or a fault.
RegistrationSettles ==
    \A a \in Accounts :
        status[a] = "201" ~> a \in inbox \/ a \notin users \/ a \in broken
=============================================================================
