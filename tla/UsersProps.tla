----------------------------- MODULE UsersProps -----------------------------
(***************************************************************************)
(* What makes registration, activation and the mails of module Users right. *)
(***************************************************************************)
EXTENDS Users

Statements ==
    {"user", "oauth_user", "token", "settings", "categories", "trial", "activation",
     "session", "activate", "delete_token", "password", "default", "save", "row",
     "export", "notice", "chain", "smtp", "clean"}

Tasks == [type : {"none", "email:activation", "email:send", "export:email", "token:cleanup"},
          to : Emails \cup {Nobody}, kind : Kinds \cup {"none"}, retried : Nat]

Goroutine == [email : Emails \cup {Nobody}, todo : Seq(Statements), task : Tasks, row : Row]

\* Every variable holds a value of its column's type, a mail goes to an address,
\* and no task is tried more often than allowed.
TypeOK ==
    /\ users \in [Emails -> Row]
    /\ \A t \in tokens : t.user \in Emails /\ t.expires \in Nat
    /\ settings \in [Emails -> Seq({"default", "chosen"})]
    /\ setup \in [Emails -> SUBSET {"categories", "trial"}]
    /\ sessions \subseteq Emails
    /\ IsABag(queue)
    /\ \A t \in BagToSet(queue) :
          /\ t \in Tasks /\ t.retried <= MaxRetry
          /\ t.type = "token:cleanup" \/ t.to \in Emails
    /\ inbox \in [Emails \X Kinds -> Nat]
    /\ actor \in [Actors -> Goroutine]
    /\ phase \in {"up", "draining"}
    /\ now \in Nat

\* "Returns ErrUserNotActivated if the user account is not active"
\* (services/auth/contract.go): whoever is signed in has an active account, and an
\* account is active only if Google vouched for its address or the activation mail
\* was accepted for it, whatever requests of other goroutines came in between.
OnlyOwnersGetIn ==
    \A e \in Emails :
        /\ e \in sessions => users[e].active
        /\ users[e].active => users[e].via = "oauth" \/ inbox[<<e, "activation">>] > 0

\* A row is written by statements that know part of it: the base currency writes
\* back is_active as it was loaded, an activation or a new password may come in
\* between, and none of them takes back what another one stored.
NothingSetBack ==
    [][\A e \in Emails :
          /\ users[e] # NoUser => users'[e] # NoUser
          /\ users[e].active => users'[e].active
          /\ users'[e].password >= users[e].password]_vars

Registering(e) == \E a \in Actors : actor[a].email = e /\ Upcoming(a, "token")

\* A user who has not activated can still do so with the token for a day, whatever
\* fails in the activation; the only exception is a token that was never stored,
\* because registration ended in front of it.
NotLockedOut ==
    \A e \in Emails :
        users[e] # NoUser /\ ~users[e].active =>
            \/ \E t \in tokens : t.user = e
            \/ Registering(e) \/ <<e, "token">> \in missed
            \/ users[e].since + 1 < now

\* Whoever signs in for the first time finds one row of settings, the categories and
\* the trial: the activation mail is queued behind them.  What failed was logged.
ReadyAtLogin ==
    \A e \in sessions :
        users[e].via = "form" =>
            /\ Len(settings[e]) = 1 \/ <<e, "settings">> \in missed
            /\ \A s \in {"categories", "trial"} : s \in setup[e] \/ <<e, s>> \in missed

\* An address gets one activation mail, however often it is registered at the same
\* time; each failure can repeat a mail that SMTP had accepted.
OneActivationMail == \A e \in Emails : inbox[<<e, "activation">>] <= 1 + used.faults

\* A user who registers is sent the activation mail in the end, through failing
\* tasks, crashes and restarts, unless its task was never queued (logged) or was
\* given up.
MailInTheEnd ==
    \A e \in Emails :
        users[e].via = "form" ~>
            inbox[<<e, "activation">>] > 0 \/ <<e, "activation">> \in missed

\* What the contract of services/auth promises of an account, module Membership,
\* is what all these statements make of it.
StateOf(row) ==
    IF row = NoUser THEN "unknown" ELSE IF row.active THEN "active" ELSE "pending"

Abstract == INSTANCE Membership WITH
    state   <- [e \in Emails |-> StateOf(users[e])],
    invited <- {e \in Emails : inbox[<<e, "activation">>] > 0},
    inside  <- sessions

ImplementsMembership == Abstract!Spec

=============================================================================
