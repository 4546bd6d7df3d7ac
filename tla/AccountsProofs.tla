--------------------------- MODULE AccountsProofs ---------------------------
(***************************************************************************)
(* Proofs about Accounts: type correctness, the four safety properties of  *)
(* registration and activation, and the action property, for any number of *)
(* accounts, requests, attempts and crashes.                               *)
(***************************************************************************)
EXTENDS Accounts, TLAPS

\* Nothing is mailed before the invitation, and a goroutine that mails has an
\* attempt left.
AttemptsLeft ==
    \A a \in Accounts :
        /\ pc[a] \in {"new", "created"} => attempts[a] = 0
        /\ pc[a] = "mailing" => attempts[a] <= maxRetries

TypeInv == TypeOK /\ AttemptsLeft

LEMMA TypeInit == Init => TypeInv
<1> USE AccountsAssumption, RetriesAssumption
<1> SUFFICES ASSUME Init PROVE TypeInv
  OBVIOUS
<1>1. attempts \in [Accounts -> 0..maxRetries + 1]
  BY DEF Init
<1>2. crashes \in 0..MaxCrashes
  BY DEF Init
<1> QED
  BY <1>1, <1>2 DEF Init, TypeInv, TypeOK, AttemptsLeft

LEMMA TypeStep == TypeInv /\ [Next]_vars => TypeInv'
<1> SUFFICES ASSUME TypeInv, [Next]_vars PROVE TypeInv'
  OBVIOUS
<1> USE RetriesAssumption DEF TypeInv, TypeOK, AttemptsLeft, mailVars, activationVars
<1>1. ASSUME NEW a \in Accounts, Create(a) PROVE TypeInv'
  BY <1>1 DEF Create
<1>2. ASSUME NEW a \in Accounts, CreateRefused(a) PROVE TypeInv'
  BY <1>2 DEF CreateRefused, Finish
<1>3. ASSUME NEW a \in Accounts, CreateFails(a) PROVE TypeInv'
  BY <1>3 DEF CreateFails, Finish
<1>4. ASSUME NEW a \in Accounts, Invite(a) PROVE TypeInv'
  BY <1>4 DEF Invite, AfterInvite
<1>5. ASSUME NEW a \in Accounts, InviteFails(a) PROVE TypeInv'
  BY <1>5 DEF InviteFails, Finish
<1>6. ASSUME NEW a \in Accounts, MailSent(a) PROVE TypeInv'
  BY <1>6 DEF MailSent, AfterSuccess
<1>7. ASSUME NEW a \in Accounts, MailFails(a) PROVE TypeInv'
  BY <1>7 DEF MailFails, AfterFailure
<1>8. ASSUME NEW a \in Accounts, Rollback(a) PROVE TypeInv'
  BY <1>8 DEF Rollback, Remove
<1>9. ASSUME NEW a \in Accounts, RollbackFails(a) PROVE TypeInv'
  BY <1>9 DEF RollbackFails, Remove
<1>10. ASSUME NEW a \in Accounts, Expire(a) PROVE TypeInv'
  BY <1>10 DEF Expire
<1>11. ASSUME NEW a \in Accounts, NEW c \in Clients, ReadInvitation(c, a)
       PROVE  TypeInv'
  BY <1>11 DEF ReadInvitation
<1>12. ASSUME NEW a \in Accounts, NEW c \in Clients, Activate(c, a) PROVE TypeInv'
  BY <1>12 DEF Activate, MarkActive
<1>13. ASSUME NEW a \in Accounts, NEW c \in Clients, ActivateFails(c, a)
       PROVE  TypeInv'
  BY <1>13 DEF ActivateFails, MarkActive
<1>14. CASE Crash
  BY <1>14 DEF Crash, InFlight
<1>15. CASE UNCHANGED vars
  BY <1>15 DEF vars
<1> QED
  BY <1>1, <1>2, <1>3, <1>4, <1>5, <1>6, <1>7, <1>8, <1>9, <1>10, <1>11, <1>12,
     <1>13, <1>14, <1>15 DEF Next, Quiet

\* Send tries a mail at most maxRetries + 1 times, an active account keeps its
\* row, and every other variable keeps its form.
THEOREM TypeCorrect == Spec => []TypeOK
<1>1. TypeInv => TypeOK
  BY DEF TypeInv
<1> QED
  BY <1>1, TypeInit, TypeStep, PTL DEF Spec

-----------------------------------------------------------------------------
(* What the safety properties rest on. *)

\* The row exists from Create to the end of the registration: only the
\* registration itself removes it, as its last step.
RowWhileInFlight ==
    \A a \in Accounts :
        /\ pc[a] = "new" => a \notin users
        /\ a \in InFlight => a \in users

\* A mail that was delivered while its goroutine still runs was delivered by an
\* attempt that reported an error.
DeliveredInFlight ==
    \A a \in Accounts :
        /\ pc[a] \in {"new", "created"} => a \notin inbox
        /\ pc[a] \in {"mailing", "rollback"} => a \notin inbox \ lostAck

\* Activation takes the token, and the token comes by mail only.
TokenByMail ==
    /\ active \cup told \subseteq inbox
    /\ \A a \in Accounts : activating[a] # {} => a \in inbox

IInv == /\ TypeInv
        /\ RowWhileInFlight
        /\ DeliveredInFlight
        /\ TokenByMail
        /\ InvitationsAreUseful
        /\ StrandedOnlyByFault
        /\ ToldIsKept

LEMMA IInvInit == Init => IInv
<1> SUFFICES ASSUME Init PROVE IInv
  OBVIOUS
<1>1. TypeInv
  BY TypeInit
<1> QED
  BY <1>1, AccountsAssumption
  DEF Init, IInv, RowWhileInFlight, DeliveredInFlight, TokenByMail, InFlight,
      InvitationsAreUseful, StrandedOnlyByFault, ToldIsKept

\* Each step preserves the strengthening: the rollback takes only accounts
\* whose delivery, if any, was reported as an error.
LEMMA IInvStep == IInv /\ [Next]_vars => IInv'
<1> SUFFICES ASSUME IInv, [Next]_vars PROVE IInv'
  OBVIOUS
<1>t. TypeInv'
  BY TypeStep DEF IInv
<1> USE DEF IInv, TypeInv, TypeOK, RowWhileInFlight, DeliveredInFlight, TokenByMail,
        InFlight, InvitationsAreUseful, StrandedOnlyByFault, ToldIsKept, mailVars,
        activationVars
<1>1. ASSUME NEW a \in Accounts, Create(a) PROVE IInv'
  BY <1>1, <1>t DEF Create
<1>2. ASSUME NEW a \in Accounts, CreateRefused(a) PROVE IInv'
  BY <1>2, <1>t DEF CreateRefused, Finish
<1>3. ASSUME NEW a \in Accounts, CreateFails(a) PROVE IInv'
  BY <1>3, <1>t DEF CreateFails, Finish
<1>4. ASSUME NEW a \in Accounts, Invite(a) PROVE IInv'
  BY <1>4, <1>t DEF Invite, AfterInvite
<1>5. ASSUME NEW a \in Accounts, InviteFails(a) PROVE IInv'
  BY <1>5, <1>t DEF InviteFails, Finish
<1>6. ASSUME NEW a \in Accounts, MailSent(a) PROVE IInv'
  BY <1>6, <1>t DEF MailSent, AfterSuccess
<1>7. ASSUME NEW a \in Accounts, MailFails(a) PROVE IInv'
  BY <1>7, <1>t DEF MailFails, AfterFailure
<1>8. ASSUME NEW a \in Accounts, Rollback(a) PROVE IInv'
  BY <1>8, <1>t DEF Rollback, Remove
<1>9. ASSUME NEW a \in Accounts, RollbackFails(a) PROVE IInv'
  BY <1>9, <1>t DEF RollbackFails, Remove
<1>10. ASSUME NEW a \in Accounts, Expire(a) PROVE IInv'
  BY <1>10, <1>t DEF Expire
<1>11. ASSUME NEW a \in Accounts, NEW c \in Clients, ReadInvitation(c, a) PROVE IInv'
  BY <1>11, <1>t DEF ReadInvitation
<1>12. ASSUME NEW a \in Accounts, NEW c \in Clients, Activate(c, a) PROVE IInv'
  BY <1>12, <1>t DEF Activate, MarkActive
<1>13. ASSUME NEW a \in Accounts, NEW c \in Clients, ActivateFails(c, a) PROVE IInv'
  BY <1>13, <1>t DEF ActivateFails, MarkActive
<1>14. CASE Crash
  BY <1>14, <1>t DEF Crash
<1>15. CASE UNCHANGED vars
  BY <1>15, <1>t DEF vars
<1> QED
  BY <1>1, <1>2, <1>3, <1>4, <1>5, <1>6, <1>7, <1>8, <1>9, <1>10, <1>11, <1>12,
     <1>13, <1>14, <1>15 DEF Next, Quiet

LEMMA IInvCorrect == Spec => []IInv
  BY IInvInit, IInvStep, PTL DEF Spec

\* No interleaving of registration, rollback, expiry and activation leaves an
\* invitation without its user, or one that an active user could spend again.
THEOREM InvitationsCorrect == Spec => []InvitationsAreUseful
  BY IInvCorrect, PTL DEF IInv

\* Failing mails alone never leave a user that nobody was mailed about.
THEOREM StrandedCause == Spec => []StrandedOnlyByFault
  BY IInvCorrect, PTL DEF IInv

\* Who was answered 204 has an active account, or one whose mail was taken for
\* lost.
THEOREM ToldKept == Spec => []ToldIsKept
  BY IInvCorrect, PTL DEF IInv

\* An activated account disappears only by the rollback of a registration
\* whose mail was delivered by an attempt that reported an error.
THEOREM ActiveKept == Spec => ActiveIsKept
<1>1. ASSUME IInv, [Next]_vars, NEW a \in active, a \notin users'
      PROVE  a \in lostAck /\ pc[a] = "rollback"
  <2> USE <1>1 DEF IInv, TypeInv, TypeOK, activationVars
  <2>1. ASSUME NEW b \in Accounts, Rollback(b) \/ RollbackFails(b)
        PROVE  a \in lostAck /\ pc[a] = "rollback"
    <3>1. pc[a] = "rollback"
      BY <2>1 DEF Rollback, RollbackFails, Remove
    <3> QED
      BY <3>1 DEF DeliveredInFlight, TokenByMail
  <2>2. ASSUME NEW b \in Accounts,
               \/ Create(b) \/ CreateRefused(b) \/ CreateFails(b)
               \/ Invite(b) \/ InviteFails(b)
               \/ MailSent(b) \/ MailFails(b) \/ Expire(b)
        PROVE  FALSE
    BY <2>2 DEF Create, CreateRefused, CreateFails, Invite, InviteFails, MailSent,
                MailFails, Expire
  <2>3. ASSUME NEW b \in Accounts, NEW c \in Clients,
               ReadInvitation(c, b) \/ Activate(c, b) \/ ActivateFails(c, b)
        PROVE  FALSE
    BY <2>3 DEF ReadInvitation, Activate, ActivateFails
  <2>4. CASE Crash \/ UNCHANGED vars
    BY <2>4 DEF Crash, vars
  <2> QED
    BY <2>1, <2>2, <2>3, <2>4 DEF Next, Quiet
<1>2. IInv /\ [Next]_vars
        => [\A a \in active : a \notin users' => a \in lostAck /\ pc[a] = "rollback"]_vars
  BY <1>1
<1> QED
  BY <1>2, IInvCorrect, PTL DEF Spec, ActiveIsKept
=============================================================================
