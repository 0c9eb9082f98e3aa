-------------------------------- MODULE Users --------------------------------
(***************************************************************************)
(* Registration, activation and signing in, the settings of a user, and the *)
(* mails the backend sends: internal/services/auth, settings, email and     *)
(* backup_notify, the mail and clean-up tasks, and the start and stop of    *)
(* the process (workers/manager.go, cmd/web/main.go).                       *)
(*                                                                         *)
(* A step is one statement of a request or of a task: nothing is done in a  *)
(* database transaction.  PostgreSQL, Redis with asynq, and SMTP are        *)
(* external.  Left out: what is written in a mail or a name, languages, and *)
(* requests that are refused before they reach a service.                   *)
(***************************************************************************)
EXTENDS Integers, Sequences, FiniteSets, Bags

CONSTANTS
    Emails,       \* addresses
    Admins,       \* those of them in ADMIN_EMAILS
    Nobody,       \* no address
    Actors,       \* goroutines: requests and worker slots
    MaxRetry,     \* how often a failed task is tried again
    MaxNow,       \* bound: the clock, in days
    MaxRequests,  \* bound: requests
    MaxFaults,    \* bound: statements that fail, and crashes
    MaxStops      \* bound: orderly shutdowns

ASSUME UsersAssumption ==
    /\ Nobody \notin Emails
    /\ Admins \subseteq Emails
    /\ IsFiniteSet(Actors)
    /\ {MaxRetry, MaxNow, MaxRequests, MaxFaults, MaxStops} \subseteq Nat

Kinds == {"activation", "export", "notice"}

\* models.User, without names; a password is the number of changes to it.
Row == [via : {"none", "form", "oauth"}, active : BOOLEAN, password : Nat,
        currency : {"USD", "EUR"}, since : Nat]

NoUser == [via |-> "none", active |-> FALSE, password |-> 0, currency |-> "USD", since |-> 0]

Task(type, to, kind) == [type |-> type, to |-> to, kind |-> kind, retried |-> 0]

NoTask == Task("none", Nobody, "none")

VARIABLES
    users,     \* the row of each address: email is unique, and no row is deleted
    tokens,    \* activation_tokens
    settings,  \* the rows of user_settings of each user; nothing makes them unique
    setup,     \* what else each user was given: categories, a trial
    sessions,  \* the users who hold a valid JWT
    queue,     \* a bag: tasks waiting in Redis
    inbox,     \* how many mails of a kind were accepted for an address
    actor,     \* what a goroutine has left to do
    phase,     \* "up", or "draining" when the workers are stopped
    now,       \* the clock
    used,      \* how much of each bound is used up
    missed     \* history: what was left undone for a user, and mails never sent

rows == <<users, tokens, settings, setup>>
vars == <<rows, sessions, queue, inbox, actor, phase, now, used, missed>>

Idle == [email |-> Nobody, todo |-> << >>, task |-> NoTask, row |-> NoUser]

Init ==
    /\ users = [e \in Emails |-> NoUser]
    /\ tokens = {}
    /\ settings = [e \in Emails |-> << >>]
    /\ setup = [e \in Emails |-> {}]
    /\ sessions = {}
    /\ queue = EmptyBag
    /\ inbox = [m \in Emails \X Kinds |-> 0]
    /\ actor = [a \in Actors |-> Idle]
    /\ phase = "up"
    /\ now = 0
    /\ used = [requests |-> 0, faults |-> 0, stops |-> 0]
    /\ missed = {}

Use(what, bound) == used[what] < bound /\ used' = [used EXCEPT ![what] = @ + 1]
Fault == Use("faults", MaxFaults)

-----------------------------------------------------------------------------
(* Requests (handlers/auth, settings, export and internal_api).             *)

\* Goroutine a serves a request of address e with these statements to come.  The
\* row that was loaded matters where it is written back.
Serve(a, e, todo) ==
    /\ actor[a] = Idle
    /\ Use("requests", MaxRequests)
    /\ actor' = [actor EXCEPT ![a] =
                    [Idle EXCEPT !.email = e, !.todo = todo,
                                 !.row = IF todo = <<"row">> THEN users[e] ELSE NoUser]]
    /\ UNCHANGED <<rows, sessions, queue, inbox, phase, now, missed>>

\* RequireAuth and RequireActiveUser
RequireAuth(e) == e \in sessions

RequireActiveUser(e) == users[e].active

\* The middleware of the protected groups of routes.
Protected(e) == RequireAuth(e) /\ RequireActiveUser(e)

\* Fault: the mail is queued before the user is set up.
RegistrationMailFirst == <<"user", "token", "activation", "settings", "categories", "trial">>

\* The statements of Register, in their order.
Registration == <<"user", "token", "settings", "categories", "trial", "activation">>

Register(a, e) == users[e] = NoUser /\ Serve(a, e, Registration)

RegisterOAuth == <<"oauth_user", "settings", "categories", "trial", "session">>

\* A new user is stored as active; one who never activated is refused.
LoginOrRegisterOAuth(a, e) ==
    \/ users[e] = NoUser /\ Serve(a, e, RegisterOAuth)
    \/ users[e].active /\ e \notin sessions /\ Serve(a, e, <<"session">>)

OAuth(a, e) == LoginOrRegisterOAuth(a, e)

\* Fault: anybody who knows the password gets in.
LoginUnchecked(a, e) ==
    users[e] # NoUser /\ e \notin sessions /\ Serve(a, e, <<"session">>)

Login(a, e) ==
    users[e] # NoUser /\ users[e].active /\ e \notin sessions /\ Serve(a, e, <<"session">>)

\* Fault: the token is deleted first.
ActivationTokenFirst(e) == IF users[e].active THEN <<"delete_token">>
                           ELSE <<"delete_token", "activate">>

\* What ActivateUser does with a token that is there and not expired.
Activation(e) == IF users[e].active THEN <<"delete_token">>
                 ELSE <<"activate", "delete_token">>

ActivateUser(a, e) ==
    /\ \E t \in tokens : t.user = e /\ now <= t.expires
    /\ Serve(a, e, Activation(e))

\* Only the mail holds the token.
Activate(a, e) == inbox[<<e, "activation">>] > 0 /\ ActivateUser(a, e)

ChangePassword(a, e) == Protected(e) /\ Serve(a, e, <<"password">>)

\* getOrCreateSettings: a first row is created when there is none.
getOrCreateSettings(e) == IF settings[e] = << >> THEN <<"default">> ELSE << >>

GetSettings(a, e) ==
    Protected(e) /\ getOrCreateSettings(e) # << >> /\ Serve(a, e, getOrCreateSettings(e))

UpdateSettings(a, e) == Protected(e) /\ Serve(a, e, Append(getOrCreateSettings(e), "save"))

\* The row is written back as it was loaded here.
UpdateBaseCurrency(a, e) == Protected(e) /\ Serve(a, e, <<"row">>)

EmailExport(a, e) == Protected(e) /\ Serve(a, e, <<"export">>)

\* The backup job reports to the administrators; here to one address.
BackupNotify(a, e) == e \in Admins /\ Serve(a, e, <<"notice">>)

-----------------------------------------------------------------------------
(* Statements.                                                              *)

\* The statement goroutine a executes next.
Upcoming(a, s) == actor[a].todo # << >> /\ Head(actor[a].todo) = s

\* The statement succeeds, or its failure is only logged.
Done(a) ==
    LET todo == actor[a].todo
    IN  actor' = [actor EXCEPT ![a] = IF Len(todo) = 1 THEN Idle
                                      ELSE [actor[a] EXCEPT !.todo = Tail(todo)]]

Abandon(a) == actor' = [actor EXCEPT ![a] = Idle]

NewUser(via) == [NoUser EXCEPT !.via = via, !.active = (via = "oauth"), !.since = now]

\* Fault: the column is not unique.
InsertUserTwice(a) ==
    /\ Upcoming(a, "user")
    /\ users' = [users EXCEPT ![actor[a].email] = NewUser("form")]
    /\ Done(a)
    /\ UNCHANGED <<tokens, settings, setup, sessions, queue, inbox, phase, now, used, missed>>

\* The address is unique.
InsertUser(a) ==
    LET e == actor[a].email
    IN  /\ \/ Upcoming(a, "user") /\ users' = [users EXCEPT ![e] = NewUser("form")]
           \/ Upcoming(a, "oauth_user") /\ users' = [users EXCEPT ![e] = NewUser("oauth")]
        /\ users[e] = NoUser
        /\ Done(a)
        /\ UNCHANGED <<tokens, settings, setup, sessions, queue, inbox, phase, now, used, missed>>

\* The token is valid for a day.
InsertToken(a) ==
    /\ Upcoming(a, "token")
    /\ tokens' = tokens \cup {[user |-> actor[a].email, expires |-> now + 1]}
    /\ Done(a)
    /\ UNCHANGED <<users, settings, setup, sessions, queue, inbox, phase, now, used, missed>>

\* ON CONFLICT DO NOTHING has no constraint to go by.
CreateDefault(a) ==
    /\ Upcoming(a, "settings") \/ Upcoming(a, "default")
    /\ settings' = [settings EXCEPT ![actor[a].email] = Append(@, "default")]
    /\ Done(a)
    /\ UNCHANGED <<users, tokens, setup, sessions, queue, inbox, phase, now, used, missed>>

\* Categories and the trial, each of which has a module of its own.
SetUp(a) ==
    /\ \E s \in {"categories", "trial"} :
          Upcoming(a, s) /\ setup' = [setup EXCEPT ![actor[a].email] = @ \cup {s}]
    /\ Done(a)
    /\ UNCHANGED <<users, tokens, settings, sessions, queue, inbox, phase, now, used, missed>>

GenerateToken(a) ==
    /\ Upcoming(a, "session")
    /\ sessions' = sessions \cup {actor[a].email}
    /\ Done(a)
    /\ UNCHANGED <<rows, queue, inbox, phase, now, used, missed>>

SetActive(a) ==
    /\ Upcoming(a, "activate")
    /\ users' = [users EXCEPT ![actor[a].email].active = TRUE]
    /\ Done(a)
    /\ UNCHANGED <<tokens, settings, setup, sessions, queue, inbox, phase, now, used, missed>>

DeleteToken(a) ==
    /\ Upcoming(a, "delete_token")
    /\ tokens' = {t \in tokens : t.user # actor[a].email}
    /\ Done(a)
    /\ UNCHANGED <<users, settings, setup, sessions, queue, inbox, phase, now, used, missed>>

\* All rows of the user are written.
SaveSettings(a) ==
    /\ Upcoming(a, "save")
    /\ settings' = [settings EXCEPT ![actor[a].email] = [i \in DOMAIN @ |-> "chosen"]]
    /\ Done(a)
    /\ UNCHANGED <<users, tokens, setup, sessions, queue, inbox, phase, now, used, missed>>

UpdatePassword(a) ==
    /\ Upcoming(a, "password")
    /\ users' = [users EXCEPT ![actor[a].email].password = @ + 1]
    /\ Done(a)
    /\ UNCHANGED <<tokens, settings, setup, sessions, queue, inbox, phase, now, used, missed>>

\* Fault: the whole row is written as it was loaded.
Overwritten(row, loaded) == [loaded EXCEPT !.currency = "EUR"]

\* The columns Update writes come from the loaded row, the others stay.
Written(row, loaded) == [row EXCEPT !.active = loaded.active, !.currency = "EUR"]

UpdateUser(a) ==
    /\ Upcoming(a, "row")
    /\ users' = [users EXCEPT ![actor[a].email] = Written(@, actor[a].row)]
    /\ Done(a)
    /\ UNCHANGED <<tokens, settings, setup, sessions, queue, inbox, phase, now, used, missed>>

-----------------------------------------------------------------------------
(* The queue, and the mail tasks.                                           *)

\* Fault: the address is left out.
NewEmailSendTaskToNobody(e, kind) == Task("email:send", Nobody, kind)

NewActivationEmailTask(e) == Task("email:activation", e, "activation")
NewExportEmailTask(e)     == Task("export:email", e, "export")
NewEmailSendTask(e, kind) == Task("email:send", e, kind)

Add(t) == queue' = queue (+) SetToBag({t})

\* The task a statement enqueues.
Enqueued(s, e) ==
    CASE s = "activation" -> NewActivationEmailTask(e)
      [] s = "export"     -> NewExportEmailTask(e)
      [] s = "notice"     -> NewEmailSendTask(e, "notice")
      [] s = "chain"      -> NewEmailSendTask(e, "activation")

\* The client is closed while the server drains.
Enqueue(a) ==
    /\ \E s \in {"activation", "export", "notice", "chain"} :
          Upcoming(a, s) /\ Add(Enqueued(s, actor[a].email))
    /\ phase = "up"
    /\ Done(a)
    /\ UNCHANGED <<rows, sessions, inbox, phase, now, used, missed>>

Accepted(a) == inbox' = [inbox EXCEPT ![<<actor[a].email, actor[a].task.kind>>] = @ + 1]

Send(a) ==
    /\ Upcoming(a, "smtp")
    /\ Accepted(a)
    /\ Done(a)
    /\ UNCHANGED <<rows, sessions, queue, phase, now, used, missed>>

DeleteExpired(a) ==
    /\ Upcoming(a, "clean")
    /\ tokens' = {t \in tokens : t.expires >= now}
    /\ Done(a)
    /\ UNCHANGED <<users, settings, setup, sessions, queue, inbox, phase, now, used, missed>>

\* registerHandlers: what a worker has to do for a task.
ProcessTask(type) ==
    CASE type = "email:activation" -> <<"chain">>
      [] type = "email:send"       -> <<"smtp">>
      [] type = "export:email"     -> <<"smtp">>
      [] type = "token:cleanup"    -> <<"clean">>

Take(a, t) ==
    /\ phase = "up"
    /\ actor[a] = Idle
    /\ BagIn(t, queue)
    /\ queue' = queue (-) SetToBag({t})
    /\ actor' = [actor EXCEPT ![a] = [Idle EXCEPT !.email = t.to, !.task = t,
                                                  !.todo = ProcessTask(t.type)]]
    /\ UNCHANGED <<rows, sessions, inbox, phase, now, used, missed>>

\* Fault: a failed task is not tried again, and nobody hears of it.
RequeueNever(t) == EmptyBag

Requeue(t) == IF t.retried < MaxRetry
              THEN SetToBag({[t EXCEPT !.retried = @ + 1]}) ELSE EmptyBag

\* History: the mail of a task that is given up is not sent.
GivenUp(t) == IF t.retried >= MaxRetry THEN {<<t.to, t.kind>>} ELSE {}

\* A task fails; SMTP may have accepted the mail all the same.
TaskFails(a) ==
    LET t == actor[a].task
    IN  /\ t # NoTask
        /\ Fault
        /\ queue' = queue (+) Requeue(t)
        /\ missed' = missed \cup GivenUp(t)
        /\ \/ UNCHANGED inbox
           \/ Upcoming(a, "smtp") /\ Accepted(a)
        /\ Abandon(a)
        /\ UNCHANGED <<rows, sessions, phase, now>>

\* Statements whose failure is logged; any other failure ends the request.
Logged == {"settings", "categories", "trial", "activation", "delete_token", "notice"}

Inserting(a) == Upcoming(a, "user") \/ Upcoming(a, "oauth_user")

\* History: what a request leaves undone when it ends here; a user who is not
\* stored misses nothing.
Undone(a) ==
    IF Inserting(a) THEN {}
    ELSE {<<actor[a].email, actor[a].todo[i]>> : i \in DOMAIN actor[a].todo}

\* What a failure of the next statement does to the request.
Fails(a) ==
    IF Head(actor[a].todo) \in Logged
    THEN Done(a) /\ missed' = missed \cup {<<actor[a].email, Head(actor[a].todo)>>}
    ELSE Abandon(a) /\ missed' = missed \cup Undone(a)

\* The address is taken, or the client is closed.
StatementRefused(a) ==
    /\ \/ Inserting(a) /\ users[actor[a].email] # NoUser
       \/ /\ \E s \in {"activation", "export", "notice"} : Upcoming(a, s)
          /\ phase = "draining"
    /\ Fails(a)
    /\ UNCHANGED <<rows, sessions, queue, inbox, phase, now, used>>

\* A statement, or the connection to Redis, fails.
StatementFails(a) ==
    /\ actor[a].todo # << >> /\ actor[a].task = NoTask
    /\ Fault
    /\ Fails(a)
    /\ UNCHANGED <<rows, sessions, queue, inbox, phase, now>>

-----------------------------------------------------------------------------
(* The process and its environment.                                         *)

\* Manager.Stop: running tasks are waited for, then the client is closed.
Stop ==
    /\ phase = "up" /\ phase' = "draining"
    /\ \A a \in Actors : actor[a].task = NoTask
    /\ Use("stops", MaxStops)
    /\ UNCHANGED <<rows, sessions, queue, inbox, actor, now, missed>>

\* The HTTP server has answered what it had accepted, and the process starts anew.
Restart ==
    /\ phase = "draining" /\ phase' = "up"
    /\ \A a \in Actors : actor[a] = Idle
    /\ UNCHANGED <<rows, sessions, queue, inbox, actor, now, used, missed>>

\* The process dies: requests are lost, running tasks go back to the queue.
Crash ==
    LET busy == {a \in Actors : actor[a].task # NoTask}
        back == UNION {BagToSet(Requeue(actor[a].task)) : a \in busy}
    IN  /\ Fault
        /\ \E a \in Actors : actor[a] # Idle
        /\ queue' = queue (+) [t \in back |->
                        Cardinality({a \in busy : BagIn(t, Requeue(actor[a].task))})]
        /\ missed' = missed \cup (UNION {GivenUp(actor[a].task) : a \in busy})
                            \cup (UNION {Undone(a) : a \in Actors \ busy})
        /\ actor' = [a \in Actors |-> Idle]
        /\ phase' = "up"
        /\ UNCHANGED <<rows, sessions, inbox, now>>

\* The cron entry of the clean-up, where there is a token to clean up.
Schedule ==
    /\ phase = "up"
    /\ \E t \in tokens : t.expires < now
    /\ \A t \in BagToSet(queue) : t.type # "token:cleanup"
    /\ Add(Task("token:cleanup", Nobody, "none"))
    /\ UNCHANGED <<rows, sessions, inbox, actor, phase, now, used, missed>>

\* A JWT that is not used for half an hour.
Expire(e) ==
    /\ e \in sessions
    /\ sessions' = sessions \ {e}
    /\ UNCHANGED <<rows, queue, inbox, actor, phase, now, used, missed>>

Tick ==
    /\ now < MaxNow /\ now' = now + 1
    /\ UNCHANGED <<rows, sessions, queue, inbox, actor, phase, used, missed>>

Request(a, e) ==
    \/ Register(a, e) \/ OAuth(a, e) \/ Login(a, e) \/ Activate(a, e)
    \/ ChangePassword(a, e) \/ GetSettings(a, e) \/ UpdateSettings(a, e)
    \/ UpdateBaseCurrency(a, e) \/ EmailExport(a, e) \/ BackupNotify(a, e)

Statement(a) ==
    \/ InsertUser(a) \/ InsertToken(a) \/ CreateDefault(a) \/ SetUp(a)
    \/ GenerateToken(a) \/ SetActive(a) \/ DeleteToken(a) \/ SaveSettings(a)
    \/ UpdatePassword(a) \/ UpdateUser(a) \/ Enqueue(a) \/ Send(a) \/ DeleteExpired(a)

Next ==
    \/ \E a \in Actors :
          \/ \E e \in Emails : Request(a, e)
          \/ \E t \in BagToSet(queue) : Take(a, t)
          \/ Statement(a) \/ StatementRefused(a) \/ StatementFails(a) \/ TaskFails(a)
    \/ Stop \/ Restart \/ Crash \/ Schedule \/ Tick
    \/ \E e \in Emails : Expire(e)

Spec == Init /\ [][Next]_vars

\* Goroutines go on, asynq serves every queue (by weight), and a process that
\* stops is started again.
Fairness ==
    /\ \A a \in Actors : WF_vars(Statement(a) \/ StatementRefused(a))
    /\ SF_vars(\E a \in Actors, t \in BagToSet(queue) : Take(a, t))
    /\ WF_vars(Restart)

FairSpec == Spec /\ Fairness

=============================================================================
