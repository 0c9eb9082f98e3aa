----------------------------- MODULE UsersProofs -----------------------------
(***************************************************************************)
(* Proofs about module Users, for any addresses, goroutines, faults and      *)
(* bounds: the statements of all requests and tasks, in any interleaving,     *)
(* implement Membership, and let nobody in whose address is not known to be   *)
(* theirs.  The second half follows what a registration leaves behind: the    *)
(* columns keep their types, nobody is locked out before the token expires,   *)
(* whoever signs in is set up, and an address gets one activation mail.       *)
(***************************************************************************)
EXTENDS UsersProps, FiniteSums, SequenceTheorems, TLAPS

Known(e) == users[e] # NoUser

Active(e) == users[e].active

\* Statement s comes before statement i of a list.
Before(todo, i, s) == \E j \in 1..(i - 1) : todo[j] = s

\* What a queued task relies on.
TaskFits(t) ==
    /\ t \in Tasks /\ t.type # "none"
    /\ t.type = "token:cleanup" \/ t.to \in Emails
    /\ t.type = "email:activation" => t.kind = "activation"
    /\ t.kind = "activation" => t.type # "token:cleanup" /\ Known(t.to)

\* What the statements a goroutine has left rely on.
FitsAt(r, i) ==
    /\ r.todo[i] # "clean" => r.email \in Emails
    /\ r.todo[i] \in {"token", "activation"} => Known(r.email) \/ Before(r.todo, i, "user")
    /\ r.todo[i] = "chain" => Known(r.email)
    /\ r.todo[i] = "smtp" /\ r.task.kind = "activation" => Known(r.email)
    /\ r.todo[i] = "activate" => Known(r.email) /\ inbox[<<r.email, "activation">>] > 0
    /\ r.todo[i] = "session" => Active(r.email) \/ Before(r.todo, i, "oauth_user")
    /\ r.todo[i] \in {"password", "row"} => Active(r.email)
    /\ r.todo[i] = "row" => r.row.active

Fits(r) ==
    /\ r.task # NoTask => TaskFits(r.task)
    /\ \A i \in 1..Len(r.todo) : FitsAt(r, i)

\* The columns the proofs rely on.
Typed ==
    /\ users \in [Emails -> Row]
    /\ sessions \subseteq Emails
    /\ inbox \in [Emails \X Kinds -> Nat]
    /\ now \in Nat

TokensKnown == \A t \in tokens : t.user \in Emails /\ Known(t.user)

QueueFits == \A t \in BagToSet(queue) : TaskFits(t)

\* The goroutines and what they have left to do.
ActorsFit == actor \in [Actors -> Goroutine] /\ \A a \in Actors : Fits(actor[a])

\* The inductive invariant: a mail is sent, a token kept and a session opened only
\* for a user who is stored, and every statement still to come finds the user as
\* the request that planned it did.
IInv == Typed /\ TokensKnown /\ QueueFits /\ ActorsFit /\ OnlyOwnersGetIn

\* No statement forgets a user, an activation or a mail.
Grows ==
    \A e \in Emails :
        /\ Known(e) => Known(e)'
        /\ Active(e) => Active(e)'
        /\ inbox[<<e, "activation">>] > 0 => inbox'[<<e, "activation">>] > 0

-----------------------------------------------------------------------------
(* Facts about the building blocks.                                         *)

\* What is left to do keeps fitting while the tables grow.
LEMMA FitsKept ==
    ASSUME NEW r \in Goroutine, Fits(r), Grows
    PROVE  Fits(r)'
  BY DEF Fits, FitsAt, TaskFits, Grows, Goroutine, Known, Active, Before

\* Lists of statements that lose their first one.
LEMMA TailFacts ==
    ASSUME NEW s \in Seq(Statements), s # << >>
    PROVE  /\ Tail(s) \in Seq(Statements) /\ Len(s) \in Nat
           /\ \A i \in 1..Len(Tail(s)) :
                 /\ Tail(s)[i] = s[i + 1] /\ i + 1 \in 1..Len(s)
                 /\ \A st : Before(s, i + 1, st) /\ Head(s) # st => Before(Tail(s), i, st)
  <1>1. /\ Tail(s) \in Seq(Statements) /\ Len(s) \in Nat
        /\ Len(Tail(s)) = Len(s) - 1
        /\ \A i \in 1..Len(Tail(s)) : Tail(s)[i] = s[i + 1]
    BY HeadTailProperties
  <1>2. ASSUME NEW i \in 1..Len(Tail(s)), NEW st, Before(s, i + 1, st), Head(s) # st
        PROVE  Before(Tail(s), i, st)
    <2>1. PICK j \in 1..i : s[j] = st
      BY <1>1, <1>2 DEF Before
    <2>2. j # 1
      BY <2>1, <1>2
    <2>3. j - 1 \in 1..(i - 1) /\ j - 1 \in 1..Len(Tail(s)) /\ (j - 1) + 1 = j
      BY <1>1, <2>1, <2>2
    <2>4. Tail(s)[j - 1] = st
      BY <1>1, <2>1, <2>3
    <2>5. QED
      BY <2>3, <2>4 DEF Before
  <1>3. QED
    BY <1>1, <1>2

\* The first statement is done: what relied on it finds it done.
LEMMA FitsTail ==
    ASSUME NEW r \in Goroutine, Fits(r), Grows, r.todo # << >>,
           Head(r.todo) = "user" => Known(r.email)',
           Head(r.todo) = "oauth_user" => Active(r.email)',
           NEW q, q.email = r.email, q.task = r.task, q.row = r.row, q.todo = Tail(r.todo)
    PROVE  Fits(q)'
  <1>1. r.todo \in Seq(Statements)
    BY DEF Goroutine
  <1>2. Fits(r)'
    BY FitsKept
  <1>3. ASSUME NEW i \in 1..Len(q.todo)
        PROVE  /\ q.todo[i] = r.todo[i + 1] /\ i + 1 \in 1..Len(r.todo)
               /\ Before(r.todo, i + 1, "user") =>
                     Known(r.email)' \/ Before(q.todo, i, "user")
               /\ Before(r.todo, i + 1, "oauth_user") =>
                     Active(r.email)' \/ Before(q.todo, i, "oauth_user")
    <2>1. \A k \in 1..Len(Tail(r.todo)) :
             /\ Tail(r.todo)[k] = r.todo[k + 1] /\ k + 1 \in 1..Len(r.todo)
             /\ \A st : Before(r.todo, k + 1, st) /\ Head(r.todo) # st
                       => Before(Tail(r.todo), k, st)
      BY <1>1, TailFacts
    <2>2. \A st : Before(r.todo, i + 1, st) /\ Head(r.todo) # st => Before(q.todo, i, st)
      BY <2>1
    <2>3. q.todo[i] = r.todo[i + 1] /\ i + 1 \in 1..Len(r.todo)
      BY <2>1
    <2>4. QED
      BY <2>2, <2>3
  <1>4. ASSUME NEW i \in 1..Len(q.todo)
        PROVE  FitsAt(q, i)'
    <2>1. FitsAt(r, i + 1)'
      BY <1>2, <1>3 DEF Fits
    <2>2. QED
      BY <1>3, <2>1 DEF FitsAt, Known, Active, Before
  <1>5. q.task # NoTask => TaskFits(q.task)'
    BY <1>2 DEF Fits, TaskFits, Known
  <1>6. QED
    BY <1>4, <1>5 DEF Fits

LEMMA IdleFits == Idle \in Goroutine /\ Idle.todo = << >> /\ Idle.task = NoTask
  BY DEF Idle, Goroutine, NoTask, Task, Tasks, NoUser, Row, Kinds

\* What a goroutine other than a does is left as it was, and still fits.
LEMMA OthersFit ==
    ASSUME ActorsFit, Grows, NEW a \in Actors, NEW r \in Goroutine, Fits(r)',
           actor' = [actor EXCEPT ![a] = r]
    PROVE  ActorsFit'
  <1>1. actor' \in [Actors -> Goroutine]
    BY DEF ActorsFit
  <1>2. ASSUME NEW b \in Actors
        PROVE  Fits(actor[b])'
    <2>1. CASE b = a
      <3>1. actor'[b] = r
        BY <2>1 DEF ActorsFit
      <3>2. QED
        BY <3>1 DEF Fits, FitsAt, TaskFits
    <2>2. CASE b # a
      <3>1. actor'[b] = actor[b]
        BY <2>2 DEF ActorsFit
      <3>2. PICK q : q = actor[b]
        OBVIOUS
      <3>3. q \in Goroutine /\ Fits(q)
        BY <3>2 DEF ActorsFit
      <3>4. Fits(q)'
        BY <3>3, FitsKept
      <3>5. actor'[b] = q
        BY <3>1, <3>2
      <3>6. QED
        BY <3>4, <3>5 DEF Fits, FitsAt, TaskFits
    <2>3. QED
      BY <2>1, <2>2
  <1>3. QED
    BY <1>1, <1>2 DEF ActorsFit

LEMMA AbandonFits ==
    ASSUME ActorsFit, Grows, NEW a \in Actors, Abandon(a)
    PROVE  ActorsFit'
  <1>1. Fits(Idle)'
    BY IdleFits DEF Fits
  <1>2. QED
    BY <1>1, IdleFits, OthersFit DEF Abandon

LEMMA DoneFits ==
    ASSUME ActorsFit, Grows, NEW a \in Actors, Done(a), actor[a].todo # << >>,
           Head(actor[a].todo) = "user" => users'[actor[a].email] # NoUser,
           Head(actor[a].todo) = "oauth_user" => users'[actor[a].email].active
    PROVE  ActorsFit'
  <1>1. CASE Len(actor[a].todo) = 1
    <2>1. Abandon(a)
      BY <1>1 DEF Done, Abandon, ActorsFit
    <2>2. QED
      BY <2>1, AbandonFits
  <1>2. CASE Len(actor[a].todo) # 1
    <2>1. PICK r : r = actor[a]
      OBVIOUS
    <2>2. r \in Goroutine /\ Fits(r)
      BY <2>1 DEF ActorsFit
    <2>3. PICK q : q = [r EXCEPT !.todo = Tail(r.todo)]
      OBVIOUS
    <2>4. Tail(r.todo) \in Seq(Statements)
      BY <2>1, <2>2, TailFacts DEF Goroutine
    <2>5. /\ q.email = r.email /\ q.task = r.task /\ q.row = r.row
          /\ q.todo = Tail(r.todo) /\ q \in Goroutine
      BY <2>2, <2>3, <2>4 DEF Goroutine
    <2>6. Fits(q)'
      <3>1. /\ r.todo # << >>
            /\ Head(r.todo) = "user" => Known(r.email)'
            /\ Head(r.todo) = "oauth_user" => Active(r.email)'
        BY <2>1 DEF Known, Active
      <3>2. QED
        BY <2>2, <2>5, <3>1, FitsTail
    <2>7. actor' = [actor EXCEPT ![a] = q]
      <3>1. actor' = [actor EXCEPT ![a] =
                        IF Len(actor[a].todo) = 1 THEN Idle
                        ELSE [actor[a] EXCEPT !.todo = Tail(actor[a].todo)]]
        BY DEF Done, ActorsFit
      <3>2. QED
        BY <1>2, <2>1, <2>3, <3>1
    <2>8. QED
      BY <2>5, <2>6, <2>7, OthersFit
  <1>3. QED
    BY <1>1, <1>2

-----------------------------------------------------------------------------
(* Steps that leave users, sessions and mails alone.                        *)

\* What a step may do to the rows, and what it is in Membership.
Holds == \A e \in Emails :
    /\ users[e] # NoUser => users'[e] # NoUser
    /\ users[e].active => users'[e].active
    /\ users'[e].password >= users[e].password

Maps == [Abstract!Next]_(Abstract!vars)

Quiet == UNCHANGED <<users, sessions, inbox>>

LEMMA QuietGrows == Quiet => Grows
  BY DEF Quiet, Grows, Known, Active

LEMMA QuietStep ==
    ASSUME IInv, Quiet, ActorsFit', TokensKnown', QueueFits', now' \in Nat
    PROVE  IInv' /\ Holds /\ Maps
  <1>1. Typed' /\ OnlyOwnersGetIn'
    BY DEF IInv, Quiet, Typed, OnlyOwnersGetIn
  <1>2. Holds
    BY DEF IInv, Typed, Quiet, Holds, Row
  <1>3. Maps
    BY DEF Maps, Quiet, Abstract!vars
  <1>4. QED
    BY <1>1, <1>2, <1>3 DEF IInv

LEMMA TokensKept == ASSUME TokensKnown, Grows, tokens' \subseteq tokens PROVE TokensKnown'
  BY DEF TokensKnown, Grows, Known

LEMMA QueueKept ==
    ASSUME QueueFits, Grows, BagToSet(queue') \subseteq BagToSet(queue)
    PROVE  QueueFits'
  <1>1. ASSUME NEW t \in BagToSet(queue')
        PROVE  TaskFits(t)'
    <2>1. TaskFits(t)
      BY <1>1 DEF QueueFits
    <2>2. QED
      BY <2>1 DEF TaskFits, Grows, Known
  <1>2. QED
    BY <1>1 DEF QueueFits

LEMMA QueueGrows ==
    ASSUME QueueFits, Grows, NEW B, queue' = queue (+) B,
           \A t \in BagToSet(B) : TaskFits(t)
    PROVE  QueueFits'
  <1>1. ASSUME NEW t \in BagToSet(queue')
        PROVE  TaskFits(t)'
    <2>1. BagToSet(queue') = BagToSet(queue) \cup BagToSet(B)
      BY DEF BagToSet, (+)
    <2>2. TaskFits(t)
      BY <1>1, <2>1 DEF QueueFits
    <2>3. QED
      BY <2>2 DEF TaskFits, Grows, Known
  <1>2. QED
    BY <1>1 DEF QueueFits

\* What a new request may plan to do for e.
Planned(e, todo) ==
    /\ todo \in Seq(Statements)
    /\ \A i \in 1..Len(todo) :
          /\ todo[i] # "chain"
          /\ todo[i] \in {"token", "activation"} => Before(todo, i, "user")
          /\ todo[i] = "activate" => Known(e) /\ inbox[<<e, "activation">>] > 0
          /\ todo[i] = "session" => Active(e) \/ Before(todo, i, "oauth_user")
          /\ todo[i] \in {"password", "row"} => Active(e)
          /\ todo[i] = "row" => todo = <<"row">>

LEMMA ServeStep ==
    ASSUME IInv, NEW a \in Actors, NEW e \in Emails, NEW todo,
           Planned(e, todo), Serve(a, e, todo)
    PROVE  IInv' /\ Holds /\ Maps
  <1>1. Quiet /\ tokens' = tokens /\ queue' = queue /\ now' = now
    BY DEF Serve, Quiet, rows
  <1>2. PICK r : r = [Idle EXCEPT !.email = e, !.todo = todo,
                                  !.row = IF todo = <<"row">> THEN users[e] ELSE NoUser]
    OBVIOUS
  <1>3. /\ r \in Goroutine /\ r.email = e /\ r.todo = todo /\ r.task = NoTask
        /\ todo = <<"row">> => r.row = users[e]
    <2>1. users[e] \in Row /\ NoUser \in Row
      BY DEF IInv, Typed, NoUser, Row
    <2>2. todo \in Seq(Statements)
      BY DEF Planned
    <2>3. QED
      BY <1>2, <2>1, <2>2, IdleFits DEF Idle, Goroutine
  <1>4. ASSUME NEW i \in 1..Len(r.todo)
        PROVE  FitsAt(r, i)'
    <2>1. NoTask.kind = "none"
      BY DEF NoTask, Task
    <2>2. FitsAt(r, i)
      BY <1>3, <2>1 DEF Planned, FitsAt, Active, Known, Before
    <2>3. QED
      BY <1>1, <2>2 DEF FitsAt, Known, Active, Before, Quiet
  <1>5. ActorsFit'
    <2>1. Fits(r)'
      BY <1>3, <1>4 DEF Fits
    <2>2. actor' = [actor EXCEPT ![a] = r]
      BY <1>2 DEF Serve
    <2>3. QED
      BY <1>1, <1>3, <2>1, <2>2, QuietGrows, OthersFit DEF IInv
  <1>6. TokensKnown' /\ QueueFits' /\ now' \in Nat
    BY <1>1, QuietGrows, TokensKept, QueueKept DEF IInv, Typed
  <1>7. QED
    BY <1>1, <1>5, <1>6, QuietStep

\* Every request plans statements that fit the rows it was checked against.
LEMMA RequestStep ==
    ASSUME IInv, NEW a \in Actors, NEW e \in Emails, Request(a, e)
    PROVE  IInv' /\ Holds /\ Maps
  <1>1. CASE Register(a, e)
    <2>1. Planned(e, Registration)
      BY DEF Planned, Registration, Statements, Before
    <2>2. QED
      BY <1>1, <2>1, ServeStep DEF Register
  <1>2. CASE OAuth(a, e)
    <2>1. Planned(e, RegisterOAuth)
      BY DEF Planned, RegisterOAuth, Statements, Before
    <2>2. Active(e) => Planned(e, <<"session">>)
      BY DEF Planned, Statements, Before
    <2>3. QED
      BY <1>2, <2>1, <2>2, ServeStep DEF OAuth, LoginOrRegisterOAuth, Active
  <1>3. CASE Login(a, e)
    <2>1. Planned(e, <<"session">>)
      BY <1>3 DEF Login, Active, Planned, Statements, Before
    <2>2. QED
      BY <1>3, <2>1, ServeStep DEF Login
  <1>4. CASE Activate(a, e)
    <2>1. Known(e) /\ inbox[<<e, "activation">>] > 0
      BY <1>4 DEF Activate, ActivateUser, IInv, TokensKnown
    <2>2. Planned(e, <<"delete_token">>)
      BY DEF Planned, Statements, Before
    <2>3. Planned(e, <<"activate", "delete_token">>)
      BY <2>1 DEF Planned, Statements, Before
    <2>4. QED
      BY <1>4, <2>2, <2>3, ServeStep DEF Activate, ActivateUser, Activation
  <1>5. CASE ChangePassword(a, e)
    <2>1. Planned(e, <<"password">>)
      BY <1>5 DEF ChangePassword, Active, Protected, RequireActiveUser, Planned, Statements, Before
    <2>2. QED
      BY <1>5, <2>1, ServeStep DEF ChangePassword
  <1>6. CASE GetSettings(a, e)
    <2>1. Planned(e, <<"default">>)
      BY DEF Planned, Statements, Before
    <2>2. QED
      BY <1>6, <2>1, ServeStep DEF GetSettings, getOrCreateSettings
  <1>7. CASE UpdateSettings(a, e)
    <2>1. Planned(e, Append(<< >>, "save"))
      BY DEF Planned, Statements, Before
    <2>2. Planned(e, Append(<<"default">>, "save"))
      <3>1. PICK q : q = Append(<<"default">>, "save")
        OBVIOUS
      <3>2. <<"default">> \in Seq(Statements) /\ "save" \in Statements
        BY DEF Statements
      <3>3. q \in Seq(Statements) /\ Len(q) = 2 /\ q[1] = "default" /\ q[2] = "save"
        BY <3>1, <3>2, AppendProperties
      <3>4. Planned(e, q)
        BY <3>3 DEF Planned
      <3>5. QED
        BY <3>1, <3>4
    <2>3. QED
      BY <1>7, <2>1, <2>2, ServeStep DEF UpdateSettings, getOrCreateSettings
  <1>8. CASE UpdateBaseCurrency(a, e)
    <2>1. Planned(e, <<"row">>)
      BY <1>8 DEF UpdateBaseCurrency, Active, Protected, RequireActiveUser, Planned, Statements, Before
    <2>2. QED
      BY <1>8, <2>1, ServeStep DEF UpdateBaseCurrency
  <1>9. CASE EmailExport(a, e)
    <2>1. Planned(e, <<"export">>)
      BY DEF Planned, Statements, Before
    <2>2. QED
      BY <1>9, <2>1, ServeStep DEF EmailExport
  <1>10. CASE BackupNotify(a, e)
    <2>1. Planned(e, <<"notice">>)
      BY DEF Planned, Statements, Before
    <2>2. QED
      BY <1>10, <2>1, ServeStep DEF BackupNotify
  <1>11. QED
    BY <1>1, <1>2, <1>3, <1>4, <1>5, <1>6, <1>7, <1>8, <1>9, <1>10 DEF Request

-----------------------------------------------------------------------------
(* Statements and tasks.                                                    *)

\* The goroutine that executes a statement, and what the statement relies on.
LEMMA Executing ==
    ASSUME IInv, NEW a \in Actors, NEW s, Upcoming(a, s), s # "clean"
    PROVE  /\ actor[a].todo # << >> /\ Head(actor[a].todo) = s
           /\ actor[a].email \in Emails
           /\ s \in {"token", "activation", "chain", "activate"} => Known(actor[a].email)
           /\ s = "smtp" /\ actor[a].task.kind = "activation" => Known(actor[a].email)
           /\ s = "activate" => inbox[<<actor[a].email, "activation">>] > 0
           /\ s \in {"session", "password", "row"} => Active(actor[a].email)
           /\ s = "row" => actor[a].row \in Row /\ actor[a].row.active
  <1>1. actor[a] \in Goroutine /\ Fits(actor[a])
    BY DEF IInv, ActorsFit
  <1>2. /\ actor[a].todo # << >> /\ Head(actor[a].todo) = s
        /\ actor[a].todo \in Seq(Statements) /\ actor[a].row \in Row
    BY <1>1 DEF Upcoming, Goroutine
  <1>3. 1 \in 1..Len(actor[a].todo) /\ actor[a].todo[1] = s
    BY <1>2
  <1>4. FitsAt(actor[a], 1)
    BY <1>1, <1>3 DEF Fits
  <1>5. \A st : ~Before(actor[a].todo, 1, st)
    BY DEF Before
  <1>6. QED
    BY <1>2, <1>3, <1>4, <1>5 DEF FitsAt

\* Statements that leave users, sessions and mails alone.
LEMMA QuietStatement ==
    ASSUME IInv, NEW a \in Actors,
           \/ InsertToken(a) \/ CreateDefault(a) \/ SetUp(a) \/ DeleteToken(a)
           \/ SaveSettings(a) \/ Enqueue(a) \/ DeleteExpired(a)
    PROVE  IInv' /\ Holds /\ Maps
  <1>1. Quiet /\ Grows /\ now' \in Nat
    <2>1. Quiet /\ now' = now
      BY DEF InsertToken, CreateDefault, SetUp, DeleteToken, SaveSettings, Enqueue,
             DeleteExpired, Quiet, rows
    <2>2. QED
      BY <2>1, QuietGrows DEF IInv, Typed
  <1>2. ActorsFit'
    <2>1. /\ Done(a) /\ actor[a].todo # << >>
          /\ Head(actor[a].todo) \notin {"user", "oauth_user"}
      BY DEF InsertToken, CreateDefault, SetUp, DeleteToken, SaveSettings, Enqueue,
             DeleteExpired, Upcoming
    <2>2. QED
      BY <1>1, <2>1, DoneFits DEF IInv
  <1>3. TokensKnown'
    <2>1. CASE InsertToken(a)
      <3>1. Known(actor[a].email) /\ actor[a].email \in Emails
        BY <2>1, Executing DEF InsertToken
      <3>2. QED
        BY <1>1, <2>1, <3>1 DEF InsertToken, TokensKnown, IInv, Known, Quiet
    <2>2. CASE ~InsertToken(a)
      <3>1. tokens' \subseteq tokens
        BY <2>2 DEF CreateDefault, SetUp, DeleteToken, SaveSettings, Enqueue, DeleteExpired,
                    rows
      <3>2. QED
        BY <1>1, <3>1, TokensKept DEF IInv
    <2>3. QED
      BY <2>1, <2>2
  <1>4. QueueFits'
    <2>1. CASE Enqueue(a)
      <3>1. PICK s \in {"activation", "export", "notice", "chain"} :
               Upcoming(a, s) /\ Add(Enqueued(s, actor[a].email))
        BY <2>1 DEF Enqueue
      <3>2. /\ actor[a].email \in Emails
            /\ s \in {"activation", "chain"} => Known(actor[a].email)
        BY <3>1, Executing
      <3>3. TaskFits(Enqueued(s, actor[a].email))
        BY <3>2 DEF TaskFits, Enqueued, NewActivationEmailTask, NewExportEmailTask,
                    NewEmailSendTask, Task, Tasks, Kinds
      <3>4. QED
        BY <1>1, <3>1, <3>3, QueueGrows DEF Add, IInv, BagToSet, SetToBag
    <2>2. CASE ~Enqueue(a)
      <3>1. queue' = queue
        BY <2>2 DEF InsertToken, CreateDefault, SetUp, DeleteToken, SaveSettings,
                    DeleteExpired
      <3>2. QED
        BY <1>1, <3>1, QueueKept DEF IInv
    <2>3. QED
      BY <2>1, <2>2
  <1>5. QED
    BY <1>1, <1>2, <1>3, <1>4, QuietStep

\* A goroutine stops, or goes on behind a statement that failed.
LEMMA FailsFit ==
    ASSUME ActorsFit, Grows, NEW a \in Actors, actor[a].todo # << >>, Fails(a)
    PROVE  ActorsFit'
  <1>1. CASE Head(actor[a].todo) \in Logged
    BY <1>1, DoneFits DEF Fails, Logged
  <1>2. CASE Head(actor[a].todo) \notin Logged
    BY <1>2, AbandonFits DEF Fails
  <1>3. QED
    BY <1>1, <1>2

LEMMA RequeueFits ==
    ASSUME NEW t, TaskFits(t)
    PROVE  \A u \in BagToSet(Requeue(t)) : TaskFits(u)
  <1>1. CASE t.retried < MaxRetry
    <2>1. PICK u : u = [t EXCEPT !.retried = @ + 1]
      OBVIOUS
    <2>2. /\ u \in Tasks /\ u.type = t.type /\ u.to = t.to /\ u.kind = t.kind
      BY <2>1 DEF TaskFits, Tasks
    <2>3. TaskFits(u)
      BY <2>2 DEF TaskFits
    <2>4. QED
      BY <1>1, <2>1, <2>3 DEF Requeue, SetToBag, BagToSet
  <1>2. CASE ~(t.retried < MaxRetry)
    BY <1>2 DEF Requeue, EmptyBag, SetToBag, BagToSet
  <1>3. QED
    BY <1>1, <1>2

\* The task a goroutine works on relies on what it did in the queue.
LEMMA TakeStep ==
    ASSUME IInv, NEW a \in Actors, NEW t \in BagToSet(queue), Take(a, t)
    PROVE  IInv' /\ Holds /\ Maps
  <1>1. Quiet /\ tokens' = tokens /\ now' = now
    BY DEF Take, Quiet, rows
  <1>2. TaskFits(t)
    BY DEF IInv, QueueFits
  <1>3. BagToSet(queue') \subseteq BagToSet(queue)
    BY DEF Take, (-), BagToSet
  <1>4. PICK r : r = [Idle EXCEPT !.email = t.to, !.task = t, !.todo = ProcessTask(t.type)]
    OBVIOUS
  <1>5. PICK s \in {"chain", "smtp", "clean"} :
           /\ ProcessTask(t.type) = <<s>>
           /\ s = "chain" => t.type = "email:activation"
           /\ s # "clean" => t.type # "token:cleanup"
    BY <1>2 DEF ProcessTask, TaskFits, Tasks
  <1>6. <<s>> \in Seq(Statements) /\ Len(<<s>>) = 1 /\ <<s>>[1] = s
    BY DEF Statements
  <1>7. r \in Goroutine /\ r.email = t.to /\ r.task = t /\ r.todo = <<s>>
    BY <1>2, <1>4, <1>5, <1>6, IdleFits DEF Idle, Goroutine, TaskFits, Tasks
  <1>8. ASSUME NEW i \in 1..Len(r.todo)
        PROVE  FitsAt(r, i)'
    <2>1. i = 1 /\ r.todo[1] = s
      BY <1>6, <1>7
    <2>2. FitsAt(r, 1)
      BY <1>2, <1>5, <1>7, <2>1 DEF FitsAt, TaskFits
    <2>3. QED
      BY <1>1, <2>1, <2>2 DEF FitsAt, Known, Active, Before, Quiet
  <1>9. TaskFits(r.task)'
    BY <1>1, <1>2, <1>7 DEF TaskFits, Known, Quiet
  <1>10. ActorsFit'
    <2>1. Fits(r)'
      BY <1>8, <1>9 DEF Fits
    <2>2. actor' = [actor EXCEPT ![a] = r]
      BY <1>4 DEF Take
    <2>3. QED
      BY <1>1, <1>7, <2>1, <2>2, QuietGrows, OthersFit DEF IInv
  <1>11. TokensKnown' /\ QueueFits' /\ now' \in Nat
    BY <1>1, <1>3, QuietGrows, TokensKept, QueueKept DEF IInv, Typed
  <1>12. QED
    BY <1>1, <1>10, <1>11, QuietStep

\* Steps that leave the rows, the queue and the clock alone.
LEMMA FrameStep ==
    ASSUME IInv, Grows, UNCHANGED <<tokens, queue, now>>
    PROVE  TokensKnown' /\ QueueFits' /\ now' \in Nat
  BY TokensKept, QueueKept DEF IInv, Typed

LEMMA FailureStep ==
    ASSUME IInv, NEW a \in Actors, StatementRefused(a) \/ StatementFails(a)
    PROVE  IInv' /\ Holds /\ Maps
  <1>1. Quiet /\ UNCHANGED <<tokens, queue, now>>
    BY DEF StatementRefused, StatementFails, Quiet, rows
  <1>2. Fails(a) /\ actor[a].todo # << >>
    BY DEF StatementRefused, StatementFails, Inserting, Upcoming
  <1>3. ActorsFit'
    BY <1>1, <1>2, QuietGrows, FailsFit DEF IInv
  <1>4. QED
    BY <1>1, <1>3, QuietGrows, FrameStep, QuietStep

\* A failed task comes back, or is given up; its mail may have been accepted.
LEMMA TaskFailsStep ==
    ASSUME IInv, NEW a \in Actors, TaskFails(a), UNCHANGED inbox
    PROVE  IInv' /\ Holds /\ Maps
  <1>1. Quiet /\ UNCHANGED <<tokens, now>>
    BY DEF TaskFails, Quiet, rows
  <1>2. TaskFits(actor[a].task)
    BY DEF TaskFails, IInv, ActorsFit, Fits
  <1>3. QueueFits'
    BY <1>1, <1>2, QuietGrows, RequeueFits, QueueGrows DEF TaskFails, IInv
  <1>4. ActorsFit'
    BY <1>1, QuietGrows, AbandonFits DEF TaskFails, IInv
  <1>5. TokensKnown' /\ now' \in Nat
    BY <1>1, QuietGrows, TokensKept DEF IInv, Typed
  <1>6. QED
    BY <1>1, <1>3, <1>4, <1>5, QuietStep

LEMMA CrashStep ==
    ASSUME IInv, Crash
    PROVE  IInv' /\ Holds /\ Maps
  <1>1. Quiet /\ UNCHANGED <<tokens, now>>
    BY DEF Crash, Quiet, rows
  <1>2. QueueFits'
    <2> DEFINE busy == {a \in Actors : actor[a].task # NoTask}
               back == UNION {BagToSet(Requeue(actor[a].task)) : a \in busy}
               B == [t \in back |->
                        Cardinality({a \in busy : BagIn(t, Requeue(actor[a].task))})]
    <2>1. queue' = queue (+) B
      BY DEF Crash
    <2>2. ASSUME NEW t \in BagToSet(B)
          PROVE  TaskFits(t)
      <3>1. PICK a \in busy : t \in BagToSet(Requeue(actor[a].task))
        BY <2>2 DEF BagToSet
      <3>2. TaskFits(actor[a].task)
        BY <3>1 DEF IInv, ActorsFit, Fits
      <3>3. QED
        BY <3>1, <3>2, RequeueFits
    <2> HIDE DEF B
    <2>3. QED
      BY <1>1, <2>1, <2>2, QuietGrows, QueueGrows DEF IInv
  <1>3. ActorsFit'
    <2>1. actor' = [a \in Actors |-> Idle]
      BY DEF Crash
    <2>2. QED
      BY <2>1, IdleFits DEF ActorsFit, Fits
  <1>4. TokensKnown' /\ now' \in Nat
    BY <1>1, QuietGrows, TokensKept DEF IInv, Typed
  <1>5. QED
    BY <1>1, <1>2, <1>3, <1>4, QuietStep

\* Goroutines are left alone.
LEMMA ActorsKept == ASSUME ActorsFit, Grows, actor' = actor PROVE ActorsFit'
  <1>1. ASSUME NEW a \in Actors
        PROVE  Fits(actor[a])'
    <2>1. PICK r : r = actor[a]
      OBVIOUS
    <2>2. Fits(r)'
      BY <2>1, FitsKept DEF ActorsFit
    <2>3. QED
      BY <2>1, <2>2 DEF Fits, FitsAt, TaskFits
  <1>2. QED
    BY <1>1 DEF ActorsFit

LEMMA EnvironmentStep ==
    ASSUME IInv, Stop \/ Restart \/ Schedule \/ Tick \/ UNCHANGED vars
    PROVE  IInv' /\ Holds /\ Maps
  <1>1. Quiet /\ UNCHANGED <<tokens, actor>>
    BY DEF Stop, Restart, Schedule, Tick, vars, Quiet, rows
  <1>2. QueueFits'
    <2>1. CASE Schedule
      <3>1. TaskFits(Task("token:cleanup", Nobody, "none"))
        BY DEF TaskFits, Task, Tasks
      <3>2. QED
        BY <1>1, <2>1, <3>1, QuietGrows, QueueGrows DEF Schedule, Add, SetToBag, BagToSet, IInv
    <2>2. CASE ~Schedule
      <3>1. queue' = queue
        BY <2>2 DEF Stop, Restart, Tick, vars
      <3>2. QED
        BY <1>1, <3>1, QuietGrows, QueueKept DEF IInv
    <2>3. QED
      BY <2>1, <2>2
  <1>3. now' \in Nat
    BY DEF Stop, Restart, Schedule, Tick, vars, IInv, Typed
  <1>4. ActorsFit' /\ TokensKnown'
    BY <1>1, QuietGrows, ActorsKept, TokensKept DEF IInv
  <1>5. QED
    BY <1>1, <1>2, <1>3, <1>4, QuietStep

-----------------------------------------------------------------------------
(* Steps that change users, sessions and mails.                             *)

LEMMA LoudStep ==
    ASSUME IInv, Grows, ActorsFit', UNCHANGED <<tokens, queue, now>>,
           users' \in [Emails -> Row], sessions' \subseteq Emails,
           inbox' \in [Emails \X Kinds -> Nat], OnlyOwnersGetIn'
    PROVE  IInv'
  BY FrameStep DEF IInv, Typed

\* One row is written: it stays a user, keeps its activation, and becomes active
\* by a provider or by a mail.
LEMMA RowStep ==
    ASSUME IInv, NEW a \in Actors, NEW e \in Emails, e = actor[a].email, NEW r \in Row,
           users' = [users EXCEPT ![e] = r], UNCHANGED <<sessions, inbox, tokens, queue, now>>,
           Done(a), actor[a].todo # << >>, Head(actor[a].todo) = "oauth_user" => r.active,
           r # NoUser, r.password >= users[e].password, users[e].active => r.active,
           r.active => r.via = "oauth" \/ inbox[<<e, "activation">>] > 0,
           r.active /\ ~users[e].active =>
              users[e] = NoUser \/ inbox[<<e, "activation">>] > 0
    PROVE  IInv' /\ Holds /\ Maps
  <1>1. /\ users \in [Emails -> Row] /\ users' \in [Emails -> Row]
        /\ users'[e] = r /\ \A f \in Emails \ {e} : users'[f] = users[f]
    BY DEF IInv, Typed
  <1>2. Holds
    BY <1>1 DEF Holds, Row
  <1>3. Grows
    BY <1>1 DEF Grows, Known, Active
  <1>4. ActorsFit'
    BY <1>1, <1>3, DoneFits DEF IInv
  <1>5. OnlyOwnersGetIn'
    BY <1>1 DEF OnlyOwnersGetIn, IInv
  <1>6. IInv'
    BY <1>1, <1>3, <1>4, <1>5, LoudStep DEF IInv, Typed
  <1>7. Maps
    <2> DEFINE st == [f \in Emails |-> StateOf(users[f])]
               st2 == [f \in Emails |-> StateOf(users'[f])]
    <2>1. st2 = [st EXCEPT ![e] = StateOf(r)]
      BY <1>1
    <2>2. CASE users[e] = NoUser
      <3>1. st[e] = "unknown"
        BY <2>2 DEF StateOf
      <3>2. StateOf(r) \in {"pending", "active"}
        BY DEF StateOf
      <3>3. Abstract!Register(e) \/ Abstract!RegisterOAuth(e)
        BY <2>1, <3>1, <3>2 DEF Abstract!Register, Abstract!RegisterOAuth
      <3>4. QED
        BY <3>3 DEF Maps, Abstract!Next
    <2>3. CASE users[e] # NoUser
      <3>1. st[e] = IF users[e].active THEN "active" ELSE "pending"
        BY <2>3 DEF StateOf
      <3>2. StateOf(r) = IF r.active THEN "active" ELSE "pending"
        BY DEF StateOf
      <3>3. CASE StateOf(r) = st[e]
        <4>1. st2 = st
          BY <2>1, <3>3
        <4>2. QED
          BY <4>1 DEF Maps, Abstract!vars
      <3>4. CASE StateOf(r) # st[e]
        <4>1. st[e] = "pending" /\ StateOf(r) = "active" /\ inbox[<<e, "activation">>] > 0
          BY <2>3, <3>1, <3>2, <3>4
        <4>2. Abstract!Activate(e)
          BY <2>1, <4>1 DEF Abstract!Activate
        <4>3. QED
          BY <4>2 DEF Maps, Abstract!Next
      <3>5. QED
        BY <3>3, <3>4
    <2>4. QED
      BY <2>2, <2>3
  <1>8. QED
    BY <1>2, <1>6, <1>7

LEMMA RowStatement ==
    ASSUME IInv, NEW a \in Actors,
           InsertUser(a) \/ SetActive(a) \/ UpdatePassword(a) \/ UpdateUser(a)
    PROVE  IInv' /\ Holds /\ Maps
  <1> DEFINE e == actor[a].email
  <1>1. PICK s \in {"user", "oauth_user", "activate", "password", "row"} :
           /\ Upcoming(a, s) /\ s # "clean"
           /\ s \in {"user", "oauth_user"} <=> InsertUser(a)
           /\ s = "activate" <=> SetActive(a)
           /\ s = "password" <=> UpdatePassword(a)
           /\ s = "row" <=> UpdateUser(a)
    BY DEF InsertUser, SetActive, UpdatePassword, UpdateUser, Upcoming
  <1>2. /\ e \in Emails /\ actor[a].todo # << >> /\ Head(actor[a].todo) = s
        /\ s = "activate" => users[e] # NoUser /\ inbox[<<e, "activation">>] > 0
        /\ s \in {"password", "row"} => users[e].active
        /\ s = "row" => actor[a].row \in Row /\ actor[a].row.active
    BY <1>1, Executing DEF Known, Active
  <1>3. /\ UNCHANGED <<sessions, inbox, tokens, queue, now>>
        /\ Done(a)
    BY DEF InsertUser, SetActive, UpdatePassword, UpdateUser, rows
  <1>4. /\ users[e] \in Row /\ now \in Nat /\ users \in [Emails -> Row]
        /\ users[e].active => users[e].via = "oauth" \/ inbox[<<e, "activation">>] > 0
    BY <1>2 DEF IInv, Typed, OnlyOwnersGetIn
  <1>5. CASE InsertUser(a)
    <2>1. users[e] = NoUser /\ ~users[e].active /\ users[e].password = 0
      BY <1>5 DEF InsertUser, NoUser
    <2>2. PICK via \in {"form", "oauth"} :
             /\ users' = [users EXCEPT ![e] = NewUser(via)]
             /\ s = "oauth_user" => via = "oauth"
      BY <1>1, <1>2, <1>5 DEF InsertUser, Upcoming
    <2>3. PICK r : r = NewUser(via)
      OBVIOUS
    <2>4. /\ r \in Row /\ r # NoUser /\ r.via = via /\ r.password = 0
          /\ r.active <=> via = "oauth"
      BY <1>4, <2>3 DEF NewUser, NoUser, Row
    <2>5. /\ r.password >= users[e].password
          /\ users' = [users EXCEPT ![e] = r]
          /\ Head(actor[a].todo) = "oauth_user" => r.active
          /\ users[e].active => r.active
          /\ r.active => r.via = "oauth"
      BY <1>2, <2>1, <2>2, <2>3, <2>4
    <2>6. QED
      BY <1>2, <1>3, <2>1, <2>4, <2>5, RowStep
  <1>6. CASE SetActive(a)
    <2>1. PICK r : r = [users[e] EXCEPT !.active = TRUE]
      OBVIOUS
    <2>2. /\ r \in Row /\ r.active /\ r.password = users[e].password /\ r.via = users[e].via
          /\ r # NoUser
      BY <1>4, <2>1 DEF Row, NoUser
    <2>3. users' = [users EXCEPT ![e] = r]
      BY <1>4, <1>6, <2>1 DEF SetActive
    <2>4. s = "activate" /\ r.password >= users[e].password
      BY <1>1, <1>4, <1>6, <2>2 DEF Row
    <2>5. QED
      BY <1>2, <1>3, <2>2, <2>3, <2>4, RowStep
  <1>7. CASE UpdatePassword(a)
    <2>1. PICK r : r = [users[e] EXCEPT !.password = @ + 1]
      OBVIOUS
    <2>2. /\ r \in Row /\ r.active = users[e].active /\ r.via = users[e].via
          /\ r.password = users[e].password + 1 /\ users[e].password \in Nat
      BY <1>4, <2>1 DEF Row
    <2>3. users' = [users EXCEPT ![e] = r]
      BY <1>4, <1>7, <2>1 DEF UpdatePassword
    <2>4. s = "password" /\ users[e].active
      BY <1>1, <1>2, <1>7
    <2>5. r # NoUser /\ r.password >= users[e].password
      BY <2>2, <2>4 DEF NoUser
    <2>6. QED
      BY <1>2, <1>3, <1>4, <2>2, <2>3, <2>4, <2>5, RowStep
  <1>8. CASE UpdateUser(a)
    <2>1. PICK r : r = Written(users[e], actor[a].row)
      OBVIOUS
    <2>2. s = "row" /\ users[e].active /\ actor[a].row.active /\ actor[a].row \in Row
      BY <1>1, <1>2, <1>8
    <2>3. /\ r \in Row /\ r.active /\ r.via = users[e].via
          /\ r.password = users[e].password /\ users[e].password \in Nat
      BY <1>4, <2>1, <2>2 DEF Row, Written
    <2>4. users' = [users EXCEPT ![e] = r]
      BY <1>4, <1>8, <2>1 DEF UpdateUser
    <2>5. r # NoUser /\ r.password >= users[e].password
      BY <2>3 DEF NoUser
    <2>6. QED
      BY <1>2, <1>3, <1>4, <2>2, <2>3, <2>4, <2>5, RowStep
  <1>9. QED
    BY <1>5, <1>6, <1>7, <1>8

\* A mail is accepted for a user who is stored.
LEMMA MailStep ==
    ASSUME IInv, NEW a \in Actors, Upcoming(a, "smtp"), Accepted(a),
           UNCHANGED <<users, sessions>>
    PROVE  /\ Grows /\ Holds /\ Maps /\ OnlyOwnersGetIn'
           /\ inbox' \in [Emails \X Kinds -> Nat]
  <1>0. PICK e, k : e = actor[a].email /\ k = actor[a].task.kind
    OBVIOUS
  <1>1. k = "activation" => users[e] # NoUser
    BY <1>0, Executing DEF Known
  <1>2. /\ e \in Emails
        /\ inbox' = [inbox EXCEPT ![<<e, k>>] = inbox[<<e, k>>] + 1]
    BY <1>0, Executing DEF Accepted
  <1>3. inbox \in [Emails \X Kinds -> Nat] /\ users \in [Emails -> Row]
    BY DEF IInv, Typed
  <1>4. inbox' \in [Emails \X Kinds -> Nat]
    <2>1. ASSUME NEW m \in Emails \X Kinds
          PROVE  inbox'[m] \in Nat
      BY <1>2, <1>3
    <2>2. QED
      BY <1>2, <1>3, <2>1
  <1>5. \A f \in Emails : inbox[<<f, "activation">>] > 0 => inbox'[<<f, "activation">>] > 0
    BY <1>2, <1>3 DEF Kinds
  <1>6. Grows
    BY <1>5 DEF Grows, Known, Active
  <1>7. Holds
    BY <1>3 DEF Holds, Row
  <1>8. OnlyOwnersGetIn'
    BY <1>5 DEF IInv, OnlyOwnersGetIn
  <1>9. Maps
    <2> DEFINE in(b) == {f \in Emails : b[<<f, "activation">>] > 0}
    <2>1. CASE k = "activation"
      <3>1. in(inbox') = in(inbox) \cup {e}
        BY <1>2, <1>3, <2>1 DEF Kinds
      <3>2. Abstract!Invite(e)
        BY <1>1, <1>2, <2>1, <3>1 DEF Abstract!Invite, StateOf
      <3>3. QED
        BY <1>2, <3>2 DEF Maps, Abstract!Next
    <2>2. CASE k # "activation"
      <3>1. in(inbox') = in(inbox)
        BY <1>2, <1>3, <2>2 DEF Kinds
      <3>2. QED
        BY <3>1 DEF Maps, Abstract!vars
    <2>3. QED
      BY <2>1, <2>2
  <1>10. QED
    BY <1>4, <1>6, <1>7, <1>8, <1>9

LEMMA SendStep ==
    ASSUME IInv, NEW a \in Actors, Send(a)
    PROVE  IInv' /\ Holds /\ Maps
  <1>1. /\ UNCHANGED <<users, sessions>> /\ UNCHANGED <<tokens, queue, now>>
        /\ Upcoming(a, "smtp") /\ Accepted(a) /\ Done(a)
    BY DEF Send, rows
  <1>2. /\ Grows /\ Holds /\ Maps /\ OnlyOwnersGetIn'
        /\ inbox' \in [Emails \X Kinds -> Nat]
    BY <1>1, MailStep
  <1>3. ActorsFit'
    BY <1>1, <1>2, DoneFits DEF Upcoming, IInv
  <1>4. QED
    BY <1>1, <1>2, <1>3, LoudStep DEF IInv, Typed

\* A task fails although SMTP accepted its mail.
LEMMA RepeatedMailStep ==
    ASSUME IInv, NEW a \in Actors, TaskFails(a), Upcoming(a, "smtp"), Accepted(a)
    PROVE  IInv' /\ Holds /\ Maps
  <1>1. UNCHANGED <<users, sessions>> /\ UNCHANGED <<tokens, now>>
    BY DEF TaskFails, rows
  <1>2. /\ Grows /\ Holds /\ Maps /\ OnlyOwnersGetIn'
        /\ inbox' \in [Emails \X Kinds -> Nat]
    BY <1>1, MailStep
  <1>3. QueueFits'
    <2>1. TaskFits(actor[a].task)
      BY DEF TaskFails, IInv, ActorsFit, Fits
    <2>2. QED
      BY <1>2, <2>1, RequeueFits, QueueGrows DEF TaskFails, IInv
  <1>4. ActorsFit'
    BY <1>2, AbandonFits DEF TaskFails, IInv
  <1>5. TokensKnown'
    BY <1>1, <1>2, TokensKept DEF IInv
  <1>6. QED
    BY <1>1, <1>2, <1>3, <1>4, <1>5 DEF IInv, Typed

\* Sessions begin and end.
LEMMA SessionStep ==
    ASSUME IInv, (\E a \in Actors : GenerateToken(a)) \/ (\E e \in Emails : Expire(e))
    PROVE  IInv' /\ Holds /\ Maps
  <1>1. /\ UNCHANGED <<users, inbox>> /\ UNCHANGED <<tokens, queue, now>>
    BY DEF GenerateToken, Expire, rows
  <1>2. Grows /\ Holds
    BY <1>1 DEF Grows, Known, Active, Holds, IInv, Typed, Row
  <1>3. CASE \E a \in Actors : GenerateToken(a)
    <2>1. PICK a \in Actors : GenerateToken(a)
      BY <1>3
    <2>2. PICK e : e = actor[a].email
      OBVIOUS
    <2>3. e \in Emails /\ users[e].active /\ sessions' = sessions \cup {e}
      BY <2>1, <2>2, Executing DEF GenerateToken, Active
    <2>4. ActorsFit'
      BY <1>2, <2>1, DoneFits DEF GenerateToken, Upcoming, IInv
    <2>5. OnlyOwnersGetIn' /\ sessions' \subseteq Emails
      BY <1>1, <2>3 DEF OnlyOwnersGetIn, IInv, Typed
    <2>6. Abstract!Login(e)
      <3>1. users[e] # NoUser
        BY <2>3 DEF NoUser
      <3>2. QED
        BY <1>1, <2>3, <3>1 DEF Abstract!Login, StateOf
    <2>7. Maps
      BY <2>3, <2>6 DEF Maps, Abstract!Next
    <2>8. QED
      BY <1>1, <1>2, <2>4, <2>5, <2>7, LoudStep DEF IInv, Typed
  <1>4. CASE \E e \in Emails : Expire(e)
    <2>1. PICK e \in Emails : Expire(e)
      BY <1>4
    <2>2. ActorsFit'
      BY <1>2, <2>1, ActorsKept DEF Expire, IInv
    <2>3. OnlyOwnersGetIn' /\ sessions' \subseteq Emails
      BY <1>1, <2>1 DEF Expire, OnlyOwnersGetIn, IInv, Typed
    <2>4. Maps
      BY <1>1, <2>1 DEF Expire, Maps, Abstract!Next, Abstract!Leave
    <2>5. QED
      BY <1>1, <1>2, <2>2, <2>3, <2>4, LoudStep DEF IInv, Typed
  <1>5. QED
    BY <1>3, <1>4

-----------------------------------------------------------------------------
(* The theorems.                                                            *)

LEMMA InitIInv == Init => IInv
  <1> SUFFICES ASSUME Init PROVE IInv
    OBVIOUS
  <1>1. Typed /\ TokensKnown
    BY DEF Init, Typed, TokensKnown, NoUser, Row
  <1>2. QueueFits
    BY DEF Init, QueueFits, EmptyBag, SetToBag, BagToSet
  <1>3. ActorsFit
    BY IdleFits DEF Init, ActorsFit, Fits
  <1>4. OnlyOwnersGetIn
    BY DEF Init, OnlyOwnersGetIn, NoUser
  <1>5. QED
    BY <1>1, <1>2, <1>3, <1>4 DEF IInv

\* One step: the invariant is kept, nothing is set back, and Membership moves.
LEMMA NextStep == IInv /\ [Next]_vars => IInv' /\ Holds /\ Maps
  <1> SUFFICES ASSUME IInv, [Next]_vars PROVE IInv' /\ Holds /\ Maps
    OBVIOUS
  <1>1. CASE \E a \in Actors, e \in Emails : Request(a, e)
    BY <1>1, RequestStep
  <1>2. CASE \E a \in Actors, t \in BagToSet(queue) : Take(a, t)
    BY <1>2, TakeStep
  <1>3. CASE \E a \in Actors : Statement(a)
    BY <1>3, QuietStatement, RowStatement, SendStep, SessionStep DEF Statement
  <1>4. CASE \E a \in Actors : StatementRefused(a) \/ StatementFails(a)
    BY <1>4, FailureStep
  <1>5. CASE \E a \in Actors : TaskFails(a)
    BY <1>5, TaskFailsStep, RepeatedMailStep DEF TaskFails
  <1>6. CASE Crash
    BY <1>6, CrashStep
  <1>7. CASE Stop \/ Restart \/ Schedule \/ Tick \/ UNCHANGED vars
    BY <1>7, EnvironmentStep
  <1>8. CASE \E e \in Emails : Expire(e)
    BY <1>8, SessionStep
  <1>9. QED
    BY <1>1, <1>2, <1>3, <1>4, <1>5, <1>6, <1>7, <1>8 DEF Next

\* The inductive invariant holds in every reachable state, for any constants.
THEOREM UsersInvariant == Spec => []IInv
  <1>1. IInv /\ [Next]_vars => IInv'
    BY NextStep
  <1>2. QED
    BY <1>1, InitIInv, PTL DEF Spec

\* Whoever is signed in has an active account, and an account is active only if a
\* provider vouched for its address or the mail was accepted for it.
THEOREM UsersOnlyOwners == Spec => []OnlyOwnersGetIn
  BY UsersInvariant, PTL DEF IInv

\* No statement takes back what another goroutine's stored.
THEOREM UsersNothingSetBack == Spec => NothingSetBack
  <1>1. IInv /\ [Next]_vars => [Holds]_vars
    BY NextStep
  <1>2. QED
    BY <1>1, UsersInvariant, PTL DEF Spec, NothingSetBack, Holds

\* All interleavings of the statements implement the contract of services/auth.
THEOREM UsersImplementMembership == Spec => ImplementsMembership
  <1>1. Init => Abstract!Init
    <2> SUFFICES ASSUME Init PROVE Abstract!Init
      OBVIOUS
    <2>1. [e \in Emails |-> StateOf(users[e])] = [e \in Emails |-> "unknown"]
      BY DEF Init, StateOf
    <2>2. {e \in Emails : inbox[<<e, "activation">>] > 0} = {}
      BY DEF Init, Kinds
    <2>3. QED
      BY <2>1, <2>2 DEF Init, Abstract!Init
  <1>2. IInv /\ [Next]_vars => [Abstract!Next]_(Abstract!vars)
    BY NextStep DEF Maps
  <1>3. QED
    BY <1>1, <1>2, UsersInvariant, PTL DEF Spec, ImplementsMembership, Abstract!Spec

-----------------------------------------------------------------------------
(* What the statements of a registration leave behind.                      *)

Form(e) == users[e].via = "form"

Setups == {"settings", "categories", "trial"}

\* What sets a user up was done once, or is known to be missing.
DoneFor(e, s) ==
    \/ <<e, s>> \in missed
    \/ IF s = "settings" THEN Len(settings[e]) = 1 ELSE s \in setup[e]

SetUpFor(e, s) == Known(e) /\ (Form(e) => DoneFor(e, s))

Ready(e) == \A s \in Setups : SetUpFor(e, s)

Has(r, s) == \E i \in 1..Len(r.todo) : r.todo[i] = s

\* A goroutine that has not stored the user yet.
Storing(r) == r.todo # << >> /\ Head(r.todo) \in {"user", "oauth_user"}

\* What a goroutine has left to do: a user is stored by its first statement, the token
\* behind it, and the mail is queued last; a worker has one statement.
Shape(r) ==
    /\ \A i, j \in 1..Len(r.todo) : r.todo[i] = r.todo[j] => i = j
    /\ \A i \in 1..Len(r.todo) :
          /\ r.todo[i] \in {"user", "oauth_user"} => i = 1
          /\ r.todo[i] = "user" => 2 \in 1..Len(r.todo) /\ r.todo[2] = "token"
          /\ r.todo[i] = "activation" => i = Len(r.todo)
          /\ r.todo[i] \in {"chain", "smtp", "clean"} <=> r.task # NoTask
    /\ r.task # NoTask =>
          /\ r.email = r.task.to /\ r.task.retried <= MaxRetry /\ Len(r.todo) = 1
          /\ r.task.kind = "activation" => r.todo[1] \in {"chain", "smtp"}
          /\ r.todo[1] = "chain" => r.task.kind = "activation"

\* What a statement to come relies on, beyond FitsAt.
KeepsAt(r, i) ==
    /\ r.todo[i] = "activation" =>
          \A s \in Setups : Before(r.todo, i, s) \/ SetUpFor(r.email, s)
    /\ r.todo[i] = "delete_token" => Active(r.email) \/ Before(r.todo, i, "activate")
    /\ r.todo[i] = "default" =>
          Active(r.email) /\ (Form(r.email) => <<r.email, "settings">> \in missed)

Keeps(r) ==
    /\ Shape(r)
    /\ \A i \in 1..Len(r.todo) : KeepsAt(r, i)
    /\ r.task.kind = "activation" => Ready(r.email)

ActorsKeep == \A a \in Actors : Keeps(actor[a])

\* Goroutine a holds the activation mail of e, or will queue it; or the mail is queued.
Holder(r, e) ==
    /\ r.email = e /\ ~Storing(r)
    /\ Has(r, "settings") \/ Has(r, "activation") \/ r.task.kind = "activation"

Carries(a, e) == Holder(actor[a], e)

Queued(t, e) == t \in BagToSet(queue) /\ t.kind = "activation" /\ t.to = e

OnePlace(e) ==
    /\ \A a, b \in Actors : Carries(a, e) /\ Carries(b, e) => a = b
    /\ \A t, u : Queued(t, e) /\ Queued(u, e) => t = u
    /\ \A t : Queued(t, e) => queue[t] = 1
    /\ \A a \in Actors : \A t : ~(Carries(a, e) /\ Queued(t, e))

Underway(e) == (\E a \in Actors : Carries(a, e)) \/ (\E t : Queued(t, e))

\* Who holds the mail of e will not add a second row of settings.
Single(e) ==
    /\ ~Known(e) => settings[e] = << >>
    /\ \A a \in Actors : Carries(a, e) /\ Has(actor[a], "settings") /\ Form(e) =>
          settings[e] = << >> \/ <<e, "settings">> \in missed

\* The mail of e is in one place, and was accepted as often as a fault let it be.
MailFits(e) ==
    /\ OnePlace(e)
    /\ Underway(e) => Known(e) /\ inbox[<<e, "activation">>] <= used.faults
    /\ inbox[<<e, "activation">>] <= used.faults + 1
    /\ inbox[<<e, "activation">>] > 0 => Ready(e)

MailsFit == \A e \in Emails : MailFits(e) /\ Single(e)

QueueKeeps == \A t \in BagToSet(queue) :
    t.retried <= MaxRetry /\ (t.kind = "activation" => Ready(t.to))

Dates ==
    /\ \A e \in Emails : users[e].since <= now
    /\ \A t \in tokens : t.expires >= users[t.user].since + 1

Types ==
    /\ \A t \in tokens : t.expires \in Nat
    /\ settings \in [Emails -> Seq({"default", "chosen"})]
    /\ setup \in [Emails -> SUBSET {"categories", "trial"}]
    /\ IsABag(queue)
    /\ phase \in {"up", "draining"}
    /\ used.faults \in Nat /\ used \in [{"requests", "faults", "stops"} -> Nat]

\* The inductive invariant, next to that of UsersProofs.
JInv == Types /\ QueueKeeps /\ Dates /\ MailsFit /\ NotLockedOut /\ ActorsKeep

-----------------------------------------------------------------------------
(* Facts about the building blocks.                                         *)

\* What a step keeps of every user: nothing is forgotten, and what was set up stays so.
Steady ==
    /\ missed \subseteq missed'
    /\ \A e \in Emails :
          /\ Known(e) => /\ Known(e)' /\ users'[e].via = users[e].via
                         /\ users'[e].since = users[e].since
          /\ Active(e) => Active(e)'
          /\ \A s \in Setups : SetUpFor(e, s) => SetUpFor(e, s)'

LEMMA SteadyRows ==
    ASSUME UNCHANGED <<users, settings, setup>>, missed \subseteq missed'
    PROVE  Steady
  BY DEF Steady, Known, Active, SetUpFor, DoneFor, Form, Setups

LEMMA KeepsKept ==
    ASSUME NEW r \in Goroutine, Fits(r), Keeps(r), Steady
    PROVE  Keeps(r)'
  <1>1. ASSUME NEW i \in 1..Len(r.todo) PROVE KeepsAt(r, i)'
    <2>1. KeepsAt(r, i) /\ (r.todo[i] # "clean" => r.email \in Emails)
      BY DEF Keeps, Fits, FitsAt
    <2>2. CASE r.todo[i] = "activation"
      BY <2>1, <2>2 DEF KeepsAt, Steady, Before
    <2>3. CASE r.todo[i] = "delete_token"
      BY <2>1, <2>3 DEF KeepsAt, Steady, Before, Active
    <2>4. CASE r.todo[i] = "default"
      <3>1. Known(r.email)
        BY <2>1, <2>4 DEF KeepsAt, Active, Known, NoUser
      <3>2. QED
        BY <2>1, <2>4, <3>1 DEF KeepsAt, Steady, Form
    <2>5. QED
      BY <2>2, <2>3, <2>4 DEF KeepsAt
  <1>2. r.task.kind = "activation" => Ready(r.email)'
    <2>1. SUFFICES ASSUME r.task.kind = "activation" PROVE Ready(r.email)'
      OBVIOUS
    <2>2. r.task # NoTask
      BY <2>1 DEF NoTask, Task
    <2>3. r.email \in Emails /\ Ready(r.email)
      BY <2>1, <2>2 DEF Keeps, Shape, Fits, TaskFits
    <2>4. QED
      BY <2>3 DEF Ready, Steady
  <1>3. QED
    BY <1>1, <1>2 DEF Keeps, Shape

\* The first statement is done: what relied on it finds it done.
LEMMA KeepsTail ==
    ASSUME NEW r \in Goroutine, Fits(r), Keeps(r), Steady, r.todo # << >>, Len(r.todo) # 1,
           r.email \in Emails,
           Head(r.todo) \in Setups /\ Known(r.email) => SetUpFor(r.email, Head(r.todo))',
           Head(r.todo) = "activate" => Active(r.email)',
           NEW q, q.email = r.email, q.task = r.task, q.row = r.row, q.todo = Tail(r.todo)
    PROVE  Keeps(q)'
  <1>1. r.todo \in Seq(Statements)
    BY DEF Goroutine
  <1>2. Keeps(r)'
    BY KeepsKept
  <1>3. PICK n : n = Len(q.todo)
    OBVIOUS
  <1>4. /\ n \in Nat /\ Len(r.todo) = n + 1 /\ Head(r.todo) = r.todo[1]
        /\ 1 \in 1..Len(r.todo)
        /\ \A i \in 1..n : q.todo[i] = r.todo[i + 1] /\ i + 1 \in 1..Len(r.todo)
    <2>1. /\ Len(r.todo) \in Nat /\ Len(r.todo) # 0 /\ n = Len(r.todo) - 1
          /\ Head(r.todo) = r.todo[1]
          /\ \A i \in 1..n : q.todo[i] = r.todo[i + 1]
      BY <1>1, <1>3, HeadTailProperties, EmptySeq
    <2>2. QED
      BY <2>1
  <1>5. ASSUME NEW i \in 1..n, NEW st, Before(r.todo, i + 1, st), Head(r.todo) # st
        PROVE  Before(q.todo, i, st)
    BY <1>1, <1>3, <1>5, TailFacts
  <1>6. r.task = NoTask /\ r.task.kind # "activation"
    BY DEF Keeps, Shape, NoTask, Task
  <1>7. Shape(q)
    <2>1. \A i, j \in 1..n : q.todo[i] = q.todo[j] => i = j
      <3>1. ASSUME NEW i \in 1..n, NEW j \in 1..n, q.todo[i] = q.todo[j] PROVE i = j
        <4>1. i + 1 = j + 1
          BY <1>4, <3>1 DEF Keeps, Shape
        <4>2. QED
          BY <1>4, <4>1
      <3>2. QED
        BY <3>1
    <2>2. ASSUME NEW i \in 1..n
          PROVE  /\ q.todo[i] \notin {"user", "oauth_user", "chain", "smtp", "clean"}
                 /\ q.todo[i] = "activation" => i = n
      <3>1. q.todo[i] = r.todo[i + 1] /\ i + 1 \in 1..Len(r.todo) /\ i + 1 # 1
        BY <1>4
      <3>2. q.todo[i] = "activation" => i + 1 = n + 1
        BY <1>4, <3>1 DEF Keeps, Shape
      <3>3. q.todo[i] \notin {"user", "oauth_user", "chain", "smtp", "clean"}
        BY <1>6, <3>1 DEF Keeps, Shape
      <3>4. QED
        BY <1>4, <3>2, <3>3
    <2>3. QED
      BY <1>3, <1>6, <2>1, <2>2 DEF Shape
  <1>8. ASSUME NEW i \in 1..n
        PROVE  KeepsAt(q, i)'
    <2>1. q.todo[i] = r.todo[i + 1] /\ i + 1 \in 1..Len(r.todo)
      BY <1>4
    <2>2. KeepsAt(r, i + 1)'
      BY <1>2, <2>1 DEF Keeps
    <2>3. CASE q.todo[i] = "activation"
      <3>1. ASSUME NEW s \in Setups
            PROVE  Before(q.todo, i, s) \/ SetUpFor(q.email, s)'
        <4>1. Before(r.todo, i + 1, s) \/ SetUpFor(q.email, s)'
          BY <2>1, <2>2, <2>3 DEF KeepsAt, Before, SetUpFor, DoneFor, Known, Form
        <4>2. CASE Before(r.todo, i + 1, s) /\ Head(r.todo) = s
          <5>1. Known(r.email) \/ Before(r.todo, i + 1, "user")
            BY <2>1, <2>3 DEF Fits, FitsAt
          <5>2. ~Before(r.todo, i + 1, "user")
            <6>1. \A j \in 1..i : j \in 1..Len(r.todo)
              BY <1>4
            <6>2. \A j \in 1..Len(r.todo) : r.todo[j] = "user" => r.todo[1] = "user"
              BY DEF Keeps, Shape
            <6>3. r.todo[1] # "user"
              BY <1>4, <4>2 DEF Setups
            <6>4. i + 1 - 1 = i
              BY <1>4
            <6>5. QED
              BY <6>1, <6>2, <6>3, <6>4 DEF Before
          <5>3. QED
            BY <4>2, <5>1, <5>2 DEF SetUpFor, DoneFor, Known, Form
        <4>3. QED
          BY <1>5, <4>1, <4>2
      <3>2. QED
        BY <2>3, <3>1 DEF KeepsAt, Before
    <2>4. CASE q.todo[i] = "delete_token"
      <3>1. Active(r.email)' \/ Before(r.todo, i + 1, "activate")
        BY <2>1, <2>2, <2>4 DEF KeepsAt, Before
      <3>2. Active(r.email)' \/ Before(q.todo, i, "activate")
        BY <1>5, <3>1
      <3>3. QED
        BY <2>4, <3>2 DEF KeepsAt, Active, Before
    <2>5. CASE q.todo[i] = "default"
      BY <2>1, <2>2, <2>5 DEF KeepsAt, Active, Form
    <2>6. QED
      BY <2>3, <2>4, <2>5 DEF KeepsAt
  <1>9. QED
    BY <1>3, <1>6, <1>7, <1>8 DEF Keeps, Shape

LEMMA IdleKeeps == Keeps(Idle) /\ Len(Idle.todo) = 0 /\ Idle.email = Nobody
  BY DEF Idle, Keeps, Shape, NoTask, Task

\* One goroutine changes, the others still keep.
LEMMA OthersKeep ==
    ASSUME ActorsFit, ActorsKeep, Steady, NEW a \in Actors, NEW r, Keeps(r)',
           actor' = [actor EXCEPT ![a] = r]
    PROVE  ActorsKeep'
  <1>1. ASSUME NEW b \in Actors PROVE Keeps(actor[b])'
    <2>1. CASE b = a
      <3>1. actor'[b] = r
        BY <2>1 DEF ActorsFit
      <3>2. QED
        BY <3>1 DEF Keeps, KeepsAt, Shape, Ready, SetUpFor, DoneFor, Known, Form, Active
    <2>2. CASE b # a
      <3>1. PICK q : q = actor[b]
        OBVIOUS
      <3>2. q \in Goroutine /\ Fits(q) /\ Keeps(q) /\ actor'[b] = q
        BY <2>2, <3>1 DEF ActorsFit, ActorsKeep
      <3>3. Keeps(q)'
        BY <3>2, KeepsKept
      <3>4. QED
        BY <3>2, <3>3, SMTT(20)
           DEF Keeps, KeepsAt, Shape, Ready, SetUpFor, DoneFor, Known, Form, Active
    <2>3. QED
      BY <2>1, <2>2
  <1>2. QED
    BY <1>1 DEF ActorsKeep

LEMMA ActorsKept2 == ASSUME ActorsFit, ActorsKeep, Steady, actor' = actor PROVE ActorsKeep'
  <1>1. ASSUME NEW b \in Actors PROVE Keeps(actor[b])'
    <2>1. PICK q : q = actor[b]
      OBVIOUS
    <2>2. q \in Goroutine /\ Fits(q) /\ Keeps(q) /\ actor'[b] = q
      BY <2>1 DEF ActorsFit, ActorsKeep
    <2>3. Keeps(q)'
      BY <2>2, KeepsKept
    <2>4. QED
      BY <2>2, <2>3, SMTT(20)
         DEF Keeps, KeepsAt, Shape, Ready, SetUpFor, DoneFor, Known, Form, Active
  <1>2. QED
    BY <1>1 DEF ActorsKeep

LEMMA AbandonKeeps ==
    ASSUME ActorsFit, ActorsKeep, Steady, NEW a \in Actors, Abandon(a)
    PROVE  ActorsKeep'
  <1>1. Keeps(Idle)'
    BY IdleKeeps DEF Keeps, KeepsAt, Idle, NoTask, Task, Shape
  <1>2. QED
    BY <1>1, OthersKeep DEF Abandon

\* What Done makes of a goroutine.
LEMMA DoneRecord ==
    ASSUME ActorsFit, NEW a \in Actors, Done(a), actor[a].todo # << >>
    PROVE  \E r \in Goroutine :
              /\ actor' = [actor EXCEPT ![a] = r] /\ actor'[a] = r
              /\ \/ r = Idle
                 \/ /\ Len(actor[a].todo) # 1 /\ r.email = actor[a].email
                    /\ r.task = actor[a].task /\ r.row = actor[a].row
                    /\ r.todo = Tail(actor[a].todo)
  <1>1. PICK q : q = actor[a]
    OBVIOUS
  <1>2. q \in Goroutine
    BY <1>1 DEF ActorsFit
  <1>3. CASE Len(q.todo) = 1
    <2>1. actor' = [actor EXCEPT ![a] = Idle]
      BY <1>1, <1>3 DEF Done, ActorsFit
    <2>2. QED
      BY <2>1, IdleFits DEF ActorsFit
  <1>4. CASE Len(q.todo) # 1
    <2>1. PICK r : r = [q EXCEPT !.todo = Tail(q.todo)]
      OBVIOUS
    <2>2. Tail(q.todo) \in Seq(Statements)
      BY <1>1, <1>2, TailFacts DEF Goroutine
    <2>3. /\ r.email = q.email /\ r.task = q.task /\ r.row = q.row
          /\ r.todo = Tail(q.todo) /\ r \in Goroutine
      BY <1>2, <2>1, <2>2 DEF Goroutine
    <2>4. actor' = [actor EXCEPT ![a] = r]
      <3>1. actor' = [actor EXCEPT ![a] =
                        IF Len(actor[a].todo) = 1 THEN Idle
                        ELSE [actor[a] EXCEPT !.todo = Tail(actor[a].todo)]]
        BY DEF Done, ActorsFit
      <3>2. QED
        BY <1>1, <1>4, <2>1, <3>1
    <2>5. actor'[a] = r
      BY <2>4 DEF ActorsFit
    <2>6. QED
      BY <1>1, <1>4, <2>3, <2>4, <2>5
  <1>5. QED
    BY <1>3, <1>4

LEMMA DoneKeeps ==
    ASSUME ActorsFit, ActorsKeep, Steady, NEW a \in Actors, Done(a), actor[a].todo # << >>,
           NEW e \in Emails, e = actor[a].email, NEW s, s = Head(actor[a].todo),
           s \in Setups /\ Known(e) => SetUpFor(e, s)', s = "activate" => Active(e)'
    PROVE  ActorsKeep'
  <1>1. PICK r \in Goroutine :
           /\ actor' = [actor EXCEPT ![a] = r]
           /\ \/ r = Idle
              \/ /\ Len(actor[a].todo) # 1 /\ r.email = actor[a].email
                 /\ r.task = actor[a].task /\ r.row = actor[a].row
                 /\ r.todo = Tail(actor[a].todo)
    BY DoneRecord
  <1>2. CASE r = Idle
    BY <1>1, <1>2, AbandonKeeps DEF Abandon
  <1>3. CASE r # Idle
    <2>1. PICK q : q = actor[a]
      OBVIOUS
    <2>2. q \in Goroutine /\ Fits(q) /\ Keeps(q)
      BY <2>1 DEF ActorsFit, ActorsKeep
    <2>3. /\ q.email = e /\ q.todo # << >> /\ Head(q.todo) = s
      BY <2>1
    <2>4. /\ Len(q.todo) # 1 /\ r.email = q.email /\ r.task = q.task /\ r.row = q.row
          /\ r.todo = Tail(q.todo)
      BY <1>1, <1>3, <2>1
    <2>5. Keeps(r)'
      BY <2>2, <2>3, <2>4, KeepsTail
    <2>6. QED
      BY <1>1, <2>5, OthersKeep
  <1>4. QED
    BY <1>2, <1>3

\* A goroutine that goes on holds no more than it did.
LEMMA DoneHolds ==
    ASSUME ActorsFit, ActorsKeep, NEW a \in Actors, Done(a), actor[a].todo # << >>,
           Head(actor[a].todo) \notin {"user", "oauth_user"},
           NEW b \in Actors, NEW e \in Emails, Carries(b, e)'
    PROVE  /\ Carries(b, e)
           /\ \A s : Has(actor'[b], s) => Has(actor[b], s)
           /\ b = a => ~Has(actor'[a], Head(actor[a].todo))
  <1>1. PICK r \in Goroutine :
           /\ actor' = [actor EXCEPT ![a] = r] /\ actor'[a] = r
           /\ \/ r = Idle
              \/ /\ Len(actor[a].todo) # 1 /\ r.email = actor[a].email
                 /\ r.task = actor[a].task /\ r.row = actor[a].row
                 /\ r.todo = Tail(actor[a].todo)
    BY DoneRecord
  <1>2. CASE b # a
    <2>1. actor'[b] = actor[b]
      BY <1>1, <1>2 DEF ActorsFit
    <2>2. QED
      BY <1>2, <2>1 DEF Carries
  <1>3. CASE b = a
    <2>1. PICK q : q = actor[a]
      OBVIOUS
    <2>2. q \in Goroutine /\ Shape(q) /\ q.todo # << >>
      BY <2>1 DEF ActorsFit, ActorsKeep, Keeps
    <2>3. Holder(r, e)
      BY <1>1, <1>3 DEF Carries
    <2>4. r # Idle
      BY <2>3, IdleKeeps, UsersAssumption DEF Holder
    <2>5. r.email = q.email /\ r.task = q.task /\ r.todo = Tail(q.todo)
      BY <1>1, <2>1, <2>4
    <2>6. /\ Len(q.todo) \in Nat /\ 1 \in 1..Len(q.todo) /\ Head(q.todo) = q.todo[1]
          /\ \A i \in 1..Len(r.todo) : r.todo[i] = q.todo[i + 1] /\ i + 1 \in 1..Len(q.todo)
                                       /\ i + 1 # 1
      <3>1. q.todo \in Seq(Statements)
        BY <2>2 DEF Goroutine
      <3>2. /\ Len(q.todo) \in Nat /\ Len(q.todo) # 0 /\ Head(q.todo) = q.todo[1]
            /\ Len(r.todo) = Len(q.todo) - 1
            /\ \A i \in 1..Len(r.todo) : r.todo[i] = q.todo[i + 1]
        BY <2>2, <2>5, <3>1, HeadTailProperties, EmptySeq
      <3>3. PICK n : n = Len(q.todo)
        OBVIOUS
      <3>4. n \in Nat /\ n # 0 /\ Len(r.todo) = n - 1
        BY <3>2, <3>3
      <3>5. \A i \in 1..(n - 1) : i + 1 \in 1..n /\ i + 1 # 1
        BY <3>4
      <3>6. QED
        BY <3>2, <3>3, <3>4, <3>5
    <2>7. \A s : Has(r, s) => Has(q, s)
      BY <2>6 DEF Has
    <2>8. ~Has(r, Head(q.todo))
      BY <2>2, <2>6 DEF Has, Shape
    <2>9. Holder(q, e)
      BY <2>1, <2>3, <2>5, <2>7 DEF Holder, Storing
    <2>10. QED
      BY <1>1, <1>3, <2>1, <2>7, <2>8, <2>9 DEF Carries
  <1>4. QED
    BY <1>2, <1>3

-----------------------------------------------------------------------------
(* The place of a mail.                                                     *)

\* A step that moves no mail of e.
StaysPut(e) ==
    /\ \A b \in Actors : Carries(b, e)' => Carries(b, e)
    /\ \A t : Queued(t, e)' => Queued(t, e) /\ queue'[t] = queue[t]

LEMMA SamePlace ==
    ASSUME NEW e, OnePlace(e), StaysPut(e)
    PROVE  OnePlace(e)' /\ (Underway(e)' => Underway(e))
  <1>1. Underway(e)' => Underway(e)
    BY DEF StaysPut, Underway
  <1>2. \A a, b \in Actors : Carries(a, e)' /\ Carries(b, e)' => a = b
    BY DEF StaysPut, OnePlace
  <1>3. \A t, u : Queued(t, e)' /\ Queued(u, e)' => t = u
    BY DEF StaysPut, OnePlace
  <1>4. \A t : Queued(t, e)' => queue'[t] = 1
    BY DEF StaysPut, OnePlace
  <1>5. \A a \in Actors : \A t : ~(Carries(a, e)' /\ Queued(t, e)')
    BY DEF StaysPut, OnePlace
  <1>6. QED
    BY <1>1, <1>2, <1>3, <1>4, <1>5 DEF OnePlace

LEMMA MailKept ==
    ASSUME NEW e \in Emails, MailFits(e), Steady, OnePlace(e)', Underway(e)' => Underway(e),
           inbox'[<<e, "activation">>] = inbox[<<e, "activation">>],
           inbox[<<e, "activation">>] \in Nat, used.faults \in Nat, used'.faults \in Nat,
           used.faults <= used'.faults
    PROVE  MailFits(e)'
  <1>1. Known(e) => Known(e)'
    BY DEF Steady
  <1>2. Ready(e) => Ready(e)'
    BY DEF Steady, Ready
  <1>3. QED
    BY <1>1, <1>2 DEF MailFits

\* A step that adds no row of settings for e, or one nobody else will follow.
LEMMA SingleKept ==
    ASSUME NEW e \in Emails, MailFits(e), Single(e), Steady,
           settings[e] = << >> => settings'[e] = << >>,
           \A b \in Actors : Carries(b, e)' /\ Has(actor'[b], "settings") =>
              Carries(b, e) /\ Has(actor[b], "settings")
    PROVE  Single(e)'
  <1>1. ~Known(e)' => settings'[e] = << >>
    BY DEF Single, Steady
  <1>2. ASSUME NEW b \in Actors, Carries(b, e)', Has(actor'[b], "settings"), Form(e)'
        PROVE  settings'[e] = << >> \/ <<e, "settings">> \in missed'
    <2>1. Carries(b, e) /\ Has(actor[b], "settings")
      BY <1>2
    <2>2. Known(e)
      BY <2>1 DEF MailFits, Underway
    <2>3. Form(e)
      BY <1>2, <2>2 DEF Form, Steady
    <2>4. QED
      BY <2>1, <2>3 DEF Single, Steady
  <1>3. QED
    BY <1>1, <1>2 DEF Single

\* All mails stay put.
LEMMA MailsKept ==
    ASSUME IInv, JInv, Steady, UNCHANGED inbox, used'.faults \in Nat,
           used.faults <= used'.faults,
           \A e \in Emails : /\ StaysPut(e) /\ (settings[e] = << >> => settings'[e] = << >>)
                             /\ \A b \in Actors : Carries(b, e)' /\ Has(actor'[b], "settings")
                                   => Has(actor[b], "settings")
    PROVE  MailsFit'
  <1>1. ASSUME NEW e \in Emails
        PROVE  MailFits(e)' /\ Single(e)'
    <2>1. MailFits(e) /\ Single(e) /\ OnePlace(e)
      BY DEF JInv, MailsFit, MailFits
    <2>2. OnePlace(e)' /\ (Underway(e)' => Underway(e))
      BY <2>1, SamePlace
    <2>3. inbox[<<e, "activation">>] \in Nat /\ used.faults \in Nat
      BY DEF IInv, Typed, JInv, Types, Kinds
    <2>4. MailFits(e)'
      BY <2>1, <2>2, <2>3, MailKept
    <2>5. Single(e)'
      BY <2>1, SingleKept DEF StaysPut
    <2>6. QED
      BY <2>4, <2>5
  <1>2. QED
    BY <1>1 DEF MailsFit

LEMMA QueueStays ==
    ASSUME UNCHANGED queue, NEW e, NEW t
    PROVE  Queued(t, e)' => Queued(t, e) /\ queue'[t] = queue[t]
  BY DEF Queued

LEMMA QueueKeepsKept ==
    ASSUME QueueFits, QueueKeeps, Steady, BagToSet(queue') \subseteq BagToSet(queue)
    PROVE  QueueKeeps'
  <1>1. ASSUME NEW t \in BagToSet(queue')
        PROVE  t.retried <= MaxRetry /\ (t.kind = "activation" => Ready(t.to)')
    <2>1. /\ TaskFits(t) /\ t.retried <= MaxRetry
          /\ t.kind = "activation" => Ready(t.to)
      BY <1>1 DEF QueueFits, QueueKeeps
    <2>2. t.kind = "activation" => t.to \in Emails
      BY <2>1 DEF TaskFits
    <2>3. QED
      BY <2>1, <2>2 DEF Ready, Steady
  <1>2. QED
    BY <1>1 DEF QueueKeeps, Ready, SetUpFor, DoneFor, Known, Form

-----------------------------------------------------------------------------
(* The way into an account.                                                 *)

LEMMA NotLockedKept ==
    ASSUME NotLockedOut, Steady, now \in Nat, now' \in Nat, now <= now',
           \A e \in Emails : Known(e)' => Known(e), \A e \in Emails : users[e].since \in Nat,
           \A e \in Emails : (\E t \in tokens : t.user = e) =>
              (\E t \in tokens' : t.user = e) \/ Active(e)' \/ users[e].since + 1 < now',
           \A e \in Emails : Registering(e) =>
              Registering(e)' \/ <<e, "token">> \in missed' \/ \E t \in tokens' : t.user = e
    PROVE  NotLockedOut'
  <1>1. ASSUME NEW e \in Emails, users'[e] # NoUser, ~users'[e].active
        PROVE  \/ \E t \in tokens' : t.user = e
               \/ Registering(e)' \/ <<e, "token">> \in missed'
               \/ users'[e].since + 1 < now'
    <2>1. Known(e) /\ ~Active(e) /\ users'[e].since = users[e].since
      BY <1>1 DEF Known, Active, Steady
    <2>2. \/ \E t \in tokens : t.user = e
          \/ Registering(e) \/ <<e, "token">> \in missed
          \/ users[e].since + 1 < now
      BY <2>1 DEF NotLockedOut, Known, Active
    <2>3. users[e].since + 1 < now => users[e].since + 1 < now'
      OBVIOUS
    <2>4. QED
      BY <1>1, <2>1, <2>2, <2>3 DEF Steady, Active
  <1>2. QED
    BY <1>1 DEF NotLockedOut

\* A goroutine that does not store a token changes nothing about the others that do.
LEMMA StillRegistering ==
    ASSUME ActorsFit, NEW a \in Actors, NEW r, actor' = [actor EXCEPT ![a] = r],
           ~Upcoming(a, "token"), NEW e, Registering(e)
    PROVE  Registering(e)'
  <1>1. PICK b \in Actors : actor[b].email = e /\ Upcoming(b, "token")
    BY DEF Registering
  <1>2. b # a /\ actor'[b] = actor[b]
    BY <1>1 DEF ActorsFit
  <1>3. QED
    BY <1>1, <1>2 DEF Registering, Upcoming

-----------------------------------------------------------------------------
(* Requests.                                                                *)

LEMMA UseTyped ==
    ASSUME JInv, NEW what \in {"requests", "faults", "stops"}, NEW bound, Use(what, bound)
    PROVE  /\ used' \in [{"requests", "faults", "stops"} -> Nat]
           /\ used.faults \in Nat /\ used'.faults \in Nat /\ used.faults <= used'.faults
           /\ what = "faults" => used'.faults = used.faults + 1
           /\ what # "faults" => used'.faults = used.faults
  BY DEF Use, JInv, Types

\* What a new request may plan to do for e, beyond Planned.
Sound(e, todo) ==
    /\ todo \in Seq(Statements)
    /\ \A i, j \in 1..Len(todo) : todo[i] = todo[j] => i = j
    /\ \A i \in 1..Len(todo) :
          /\ todo[i] \notin {"chain", "smtp", "clean"}
          /\ todo[i] \in {"user", "oauth_user"} => i = 1
          /\ todo[i] = "user" => 2 \in 1..Len(todo) /\ todo[2] = "token"
          /\ todo[i] \in {"settings", "activation"} => todo[1] \in {"user", "oauth_user"}
          /\ todo[i] = "activation" => i = Len(todo) /\ \A s \in Setups : Before(todo, i, s)
          /\ todo[i] = "delete_token" => Active(e) \/ Before(todo, i, "activate")
          /\ todo[i] = "default" => Active(e) /\ (Form(e) => <<e, "settings">> \in missed)

LEMMA ServeKeeps ==
    ASSUME IInv, JInv, NEW a \in Actors, NEW e \in Emails, NEW todo, Sound(e, todo),
           Serve(a, e, todo)
    PROVE  JInv'
  <1>1. /\ UNCHANGED <<users, tokens, settings, setup, queue, inbox, phase, now, missed>>
        /\ Use("requests", MaxRequests) /\ actor[a] = Idle
    BY DEF Serve, rows
  <1>2. Steady
    BY <1>1, SteadyRows
  <1>3. PICK r : r = [Idle EXCEPT !.email = e, !.todo = todo,
                                  !.row = IF todo = <<"row">> THEN users[e] ELSE NoUser]
    OBVIOUS
  <1>4. r.email = e /\ r.todo = todo /\ r.task = NoTask /\ NoTask.kind = "none"
    BY <1>3 DEF Idle, NoTask, Task
  <1>5. actor' = [actor EXCEPT ![a] = r] /\ actor'[a] = r
    BY <1>3 DEF Serve, IInv, ActorsFit
  <1>6. Keeps(r)'
    <2>1. Keeps(r)
      BY <1>4 DEF Keeps, Shape, KeepsAt, Sound
    <2>2. QED
      BY <1>1, <2>1 DEF Keeps, KeepsAt, Shape, Ready, SetUpFor, DoneFor, Known, Form, Active
  <1>7. ActorsKeep'
    BY <1>2, <1>5, <1>6, OthersKeep DEF IInv, JInv
  <1>8. \A f : ~Holder(r, f)
    <2>1. \A i \in 1..Len(todo) : todo[i] \in {"settings", "activation"} =>
             todo # << >> /\ Head(todo) \in {"user", "oauth_user"}
      <3>1. todo # << >> => Head(todo) = todo[1]
        OBVIOUS
      <3>2. QED
        BY <3>1 DEF Sound
    <2>2. QED
      BY <1>4, <2>1 DEF Holder, Storing, Has
  <1>9. \A b \in Actors : \A f : Carries(b, f)' => Carries(b, f) /\ actor'[b] = actor[b]
    BY <1>5, <1>8 DEF Carries, IInv, ActorsFit
  <1>10. MailsFit'
    BY <1>1, <1>2, <1>9, QueueStays, MailsKept, UseTyped DEF StaysPut
  <1>11. NotLockedOut'
    <2>1. ~Upcoming(a, "token")
      BY <1>1, IdleKeeps DEF Upcoming, Idle
    <2>2. \A f \in Emails : Registering(f) => Registering(f)'
      BY <1>5, <2>1, StillRegistering DEF IInv
    <2>3. now \in Nat /\ \A f \in Emails : users[f].since \in Nat
      BY DEF IInv, Typed, Row
    <2>4. QED
      BY <1>1, <1>2, <2>2, <2>3, NotLockedKept DEF JInv, Known
  <1>12. QueueKeeps'
    BY <1>1, <1>2, QueueKeepsKept DEF IInv, JInv
  <1>13. Types' /\ Dates'
    BY <1>1, UseTyped DEF JInv, Types, Dates
  <1>14. QED
    BY <1>7, <1>10, <1>11, <1>12, <1>13 DEF JInv

LEMMA ActiveReady ==
    ASSUME IInv, JInv, NEW e \in Emails, Active(e), Form(e) PROVE Ready(e)
  BY DEF IInv, OnlyOwnersGetIn, JInv, MailsFit, MailFits, Active, Form

LEMMA RequestKeeps ==
    ASSUME IInv, JInv, NEW a \in Actors, NEW e \in Emails, Request(a, e)
    PROVE  JInv'
  <1>1. CASE Register(a, e)
    <2>1. Sound(e, Registration)
      BY DEF Sound, Registration, Statements, Before, Setups
    <2>2. QED
      BY <1>1, <2>1, ServeKeeps DEF Register
  <1>2. CASE OAuth(a, e)
    <2>1. Sound(e, RegisterOAuth) /\ Sound(e, <<"session">>)
      BY DEF Sound, RegisterOAuth, Statements, Before
    <2>2. QED
      BY <1>2, <2>1, ServeKeeps DEF OAuth, LoginOrRegisterOAuth
  <1>3. CASE Login(a, e)
    <2>1. Sound(e, <<"session">>)
      BY DEF Sound, Statements, Before
    <2>2. QED
      BY <1>3, <2>1, ServeKeeps DEF Login
  <1>4. CASE Activate(a, e)
    <2>1. Active(e) => Sound(e, <<"delete_token">>)
      BY DEF Sound, Statements, Before
    <2>2. Sound(e, <<"activate", "delete_token">>)
      BY DEF Sound, Statements, Before
    <2>3. QED
      BY <1>4, <2>1, <2>2, ServeKeeps DEF Activate, ActivateUser, Activation, Active
  <1>5. CASE ChangePassword(a, e)
    <2>1. Sound(e, <<"password">>)
      BY DEF Sound, Statements, Before
    <2>2. QED
      BY <1>5, <2>1, ServeKeeps DEF ChangePassword
  <1>6. ASSUME Protected(e), settings[e] = << >>
        PROVE  Active(e) /\ (Form(e) => <<e, "settings">> \in missed)
    <2>1. Active(e)
      BY <1>6 DEF Protected, RequireActiveUser, Active
    <2>2. Form(e) => DoneFor(e, "settings")
      BY <2>1, ActiveReady DEF Ready, SetUpFor, Setups
    <2>3. QED
      BY <1>6, <2>1, <2>2 DEF DoneFor
  <1>7. CASE GetSettings(a, e)
    <2>1. Protected(e) /\ settings[e] = << >> /\ Serve(a, e, <<"default">>)
      BY <1>7 DEF GetSettings, getOrCreateSettings
    <2>2. Sound(e, <<"default">>)
      BY <1>6, <2>1 DEF Sound, Statements, Before
    <2>3. QED
      BY <2>1, <2>2, ServeKeeps
  <1>8. CASE UpdateSettings(a, e)
    <2>1. Sound(e, Append(<< >>, "save"))
      BY DEF Sound, Statements, Before
    <2>2. ASSUME Protected(e), settings[e] = << >>
          PROVE  Sound(e, Append(<<"default">>, "save"))
      <3>1. PICK q : q = Append(<<"default">>, "save")
        OBVIOUS
      <3>2. <<"default">> \in Seq(Statements) /\ "save" \in Statements
        BY DEF Statements
      <3>3. q \in Seq(Statements) /\ Len(q) = 2 /\ q[1] = "default" /\ q[2] = "save"
        BY <3>1, <3>2, AppendProperties
      <3>4. Active(e) /\ (Form(e) => <<e, "settings">> \in missed)
        BY <1>6, <2>2
      <3>5. Sound(e, q)
        BY <3>3, <3>4 DEF Sound
      <3>6. QED
        BY <3>1, <3>5
    <2>3. QED
      BY <1>8, <2>1, <2>2, ServeKeeps DEF UpdateSettings, getOrCreateSettings
  <1>9. CASE UpdateBaseCurrency(a, e)
    <2>1. Sound(e, <<"row">>)
      BY DEF Sound, Statements, Before
    <2>2. QED
      BY <1>9, <2>1, ServeKeeps DEF UpdateBaseCurrency
  <1>10. CASE EmailExport(a, e)
    <2>1. Sound(e, <<"export">>)
      BY DEF Sound, Statements, Before
    <2>2. QED
      BY <1>10, <2>1, ServeKeeps DEF EmailExport
  <1>11. CASE BackupNotify(a, e)
    <2>1. Sound(e, <<"notice">>)
      BY DEF Sound, Statements, Before
    <2>2. QED
      BY <1>11, <2>1, ServeKeeps DEF BackupNotify
  <1>12. QED
    BY <1>1, <1>2, <1>3, <1>4, <1>5, <1>7, <1>8, <1>9, <1>10, <1>11 DEF Request

-----------------------------------------------------------------------------
(* Statements.                                                              *)

\* What the next statement of a goroutine may rely on, beyond Executing.
LEMMA NextStatement ==
    ASSUME IInv, JInv, NEW a \in Actors, NEW s, Upcoming(a, s), NEW e, e = actor[a].email
    PROVE  /\ actor[a].todo # << >> /\ Head(actor[a].todo) = s /\ Has(actor[a], s)
           /\ s = "activation" => Ready(e)
           /\ s = "delete_token" => Active(e)
           /\ s = "default" => Active(e) /\ (Form(e) => <<e, "settings">> \in missed)
           /\ s \in {"chain", "smtp", "clean"} <=> actor[a].task # NoTask
           /\ actor[a].task.kind = "activation" => Ready(e) /\ s \in {"chain", "smtp"}
           /\ s = "chain" => actor[a].task.kind = "activation"
           /\ actor[a].task # NoTask => Len(actor[a].todo) = 1 /\ e = actor[a].task.to
           /\ s \in {"settings", "activation"} /\ e \in Emails => Carries(a, e)
           /\ actor[a].task.kind = "activation" /\ e \in Emails => Carries(a, e)
  <1>1. actor[a] \in Goroutine /\ Keeps(actor[a]) /\ actor[a].todo \in Seq(Statements)
    BY DEF IInv, ActorsFit, JInv, ActorsKeep, Goroutine
  <1>2. actor[a].todo # << >> /\ Head(actor[a].todo) = s
    BY DEF Upcoming
  <1>3. 1 \in 1..Len(actor[a].todo) /\ actor[a].todo[1] = s
    BY <1>1, <1>2
  <1>4. KeepsAt(actor[a], 1) /\ Shape(actor[a])
    BY <1>1, <1>3 DEF Keeps
  <1>5. \A st : ~Before(actor[a].todo, 1, st)
    BY DEF Before
  <1>6. NoTask.kind # "activation"
    BY DEF NoTask, Task
  <1>7. /\ Has(actor[a], s)
        /\ s \in {"chain", "smtp", "clean"} <=> actor[a].task # NoTask
        /\ actor[a].task # NoTask => Len(actor[a].todo) = 1 /\ e = actor[a].task.to
        /\ actor[a].task.kind = "activation" => s \in {"chain", "smtp"}
        /\ s = "chain" => actor[a].task.kind = "activation"
    BY <1>3, <1>4, <1>6 DEF Has, Shape
  <1>8. /\ s = "activation" => Ready(e)
        /\ s = "delete_token" => Active(e)
        /\ s = "default" => Active(e) /\ (Form(e) => <<e, "settings">> \in missed)
        /\ actor[a].task.kind = "activation" => Ready(e)
    BY <1>1, <1>3, <1>4, <1>5 DEF KeepsAt, Keeps, Ready
  <1>9. /\ s \in {"settings", "activation"} => Carries(a, e)
        /\ actor[a].task.kind = "activation" => Carries(a, e)
    BY <1>2, <1>7 DEF Carries, Holder, Storing
  <1>10. QED
    BY <1>2, <1>7, <1>8, <1>9

\* What is left to show of most steps.
LEMMA RestKept ==
    ASSUME IInv, JInv, Steady, ActorsKeep', MailsFit', Types', UNCHANGED <<queue, now>>,
           \A f \in Emails : (Known(f)' => Known(f)) /\ users'[f].since = users[f].since,
           tokens' \subseteq tokens,
           \A f \in Emails : (\E t \in tokens : t.user = f) =>
              (\E t \in tokens' : t.user = f) \/ Active(f)' \/ users[f].since + 1 < now,
           \A f \in Emails : Registering(f) => Registering(f)' \/ <<f, "token">> \in missed'
    PROVE  JInv'
  <1>1. now \in Nat /\ \A f \in Emails : users[f].since \in Nat
    BY DEF IInv, Typed, Row
  <1>2. NotLockedOut'
    BY <1>1, NotLockedKept DEF JInv
  <1>3. QueueKeeps'
    BY QueueKeepsKept DEF IInv, JInv
  <1>4. Dates'
    <2>1. \A t \in tokens : t.user \in Emails
      BY DEF IInv, TokensKnown
    <2>2. QED
      BY <2>1 DEF JInv, Dates
  <1>5. QED
    BY <1>2, <1>3, <1>4 DEF JInv

\* A statement of a request that stores nobody, no token and no mail.
LEMMA StatementKeeps ==
    ASSUME IInv, JInv, Steady, NEW a \in Actors, NEW s, Upcoming(a, s), Done(a),
           s \notin {"user", "oauth_user", "token", "clean"},
           NEW e, e = actor[a].email,
           s \in Setups /\ Known(e) => SetUpFor(e, s)', s = "activate" => Active(e)',
           UNCHANGED <<queue, now, inbox, used>>, MailsFit', Types',
           \A f \in Emails : (Known(f)' => Known(f)) /\ users'[f].since = users[f].since,
           tokens' \subseteq tokens,
           \A f \in Emails : (\E t \in tokens : t.user = f) =>
              (\E t \in tokens' : t.user = f) \/ Active(f)' \/ users[f].since + 1 < now
    PROVE  JInv'
  <1>1. e \in Emails /\ actor[a].todo # << >> /\ Head(actor[a].todo) = s
    BY Executing
  <1>2. ActorsKeep'
    BY <1>1, DoneKeeps DEF IInv, JInv
  <1>3. \A f : Registering(f) => Registering(f)'
    <2>1. PICK r : actor' = [actor EXCEPT ![a] = r]
      BY <1>1, DoneRecord DEF IInv
    <2>2. ~Upcoming(a, "token")
      BY <1>1 DEF Upcoming
    <2>3. QED
      BY <2>1, <2>2, StillRegistering DEF IInv
  <1>4. QED
    BY <1>2, <1>3, RestKept

\* The mails, where no settings are added.
LEMMA StatementMails ==
    ASSUME IInv, JInv, Steady, NEW a \in Actors, NEW s, Upcoming(a, s), Done(a),
           s \notin {"user", "oauth_user"}, UNCHANGED <<queue, inbox, used>>,
           \A f \in Emails : settings[f] = << >> => settings'[f] = << >>
    PROVE  MailsFit'
  <1>1. actor[a].todo # << >> /\ Head(actor[a].todo) = s
    BY DEF Upcoming
  <1>2. \A f \in Emails : \A b \in Actors :
           Carries(b, f)' => Carries(b, f) /\ \A st : Has(actor'[b], st) => Has(actor[b], st)
    BY <1>1, DoneHolds DEF IInv, JInv
  <1>3. used.faults \in Nat /\ used.faults <= used'.faults
    BY DEF JInv, Types
  <1>4. \A f \in Emails : StaysPut(f)
    BY <1>2, QueueStays DEF StaysPut
  <1>5. QED
    BY <1>2, <1>3, <1>4, MailsKept

LEMMA SessionKeeps ==
    ASSUME IInv, JInv, NEW a \in Actors, GenerateToken(a)
    PROVE  JInv'
  <1>1. /\ Upcoming(a, "session") /\ Done(a)
        /\ UNCHANGED <<users, tokens, settings, setup, queue, inbox, phase, now, used, missed>>
    BY DEF GenerateToken, rows
  <1>2. Steady
    BY <1>1, SteadyRows
  <1>3. MailsFit'
    BY <1>1, <1>2, StatementMails
  <1>4. Types'
    BY <1>1 DEF JInv, Types
  <1>5. \A f \in Emails : (Known(f)' => Known(f)) /\ users'[f].since = users[f].since
    BY <1>1 DEF Known
  <1>6. QED
    BY <1>1, <1>2, <1>3, <1>4, <1>5, StatementKeeps DEF Setups

\* A row of settings is added for a user who has none, or whose first one is known
\* to be missing.
LEMMA DefaultKeeps ==
    ASSUME IInv, JInv, NEW a \in Actors, CreateDefault(a)
    PROVE  JInv'
  <1>1. PICK s \in {"settings", "default"} : Upcoming(a, s)
    BY DEF CreateDefault
  <1>2. /\ Done(a) /\ settings' = [settings EXCEPT ![actor[a].email] = Append(@, "default")]
        /\ UNCHANGED <<users, tokens, setup, queue, inbox, phase, now, used, missed>>
    BY DEF CreateDefault
  <1>3. PICK e \in Emails : e = actor[a].email
    BY <1>1, Executing
  <1>4. /\ settings[e] \in Seq({"default", "chosen"})
        /\ settings'[e] = Append(settings[e], "default")
        /\ settings' \in [Emails -> Seq({"default", "chosen"})]
        /\ \A f \in Emails \ {e} : settings'[f] = settings[f]
    BY <1>2, <1>3 DEF JInv, Types
  <1>5. settings[e] = << >> => Len(settings[e]) = 0 /\ Len(settings'[e]) = 1
    BY <1>4
  <1>6. MailFits(e) /\ Single(e) /\ OnePlace(e)
    BY DEF JInv, MailsFit, MailFits
  <1>7. /\ actor[a].todo # << >> /\ Head(actor[a].todo) = s
        /\ s = "settings" => Carries(a, e) /\ Has(actor[a], "settings")
        /\ s = "default" => Active(e) /\ (Form(e) => <<e, "settings">> \in missed)
    BY <1>1, <1>3, NextStatement
  <1>8. Known(e) /\ (Form(e) => settings[e] = << >> \/ <<e, "settings">> \in missed)
    BY <1>6, <1>7 DEF Single, MailFits, Underway, Active, Known, NoUser
  <1>9. Steady
    BY <1>2, <1>4, <1>5, <1>8 DEF Steady, Known, Active, SetUpFor, DoneFor, Form, Setups
  <1>10. SetUpFor(e, "settings")'
    BY <1>2, <1>5, <1>8 DEF SetUpFor, DoneFor, Form, Known
  <1>11. ASSUME NEW f \in Emails, NEW b \in Actors, Carries(b, f)'
         PROVE  /\ Carries(b, f)
                /\ \A st : Has(actor'[b], st) => Has(actor[b], st)
                /\ b = a => ~Has(actor'[a], s)
    BY <1>1, <1>2, <1>7, <1>11, DoneHolds DEF IInv, JInv
  <1>12. ASSUME NEW f \in Emails
         PROVE  MailFits(f)' /\ Single(f)'
    <2>1. StaysPut(f)
      BY <1>2, <1>11, QueueStays DEF StaysPut
    <2>2. MailFits(f) /\ Single(f) /\ OnePlace(f)
      BY DEF JInv, MailsFit, MailFits
    <2>3. inbox[<<f, "activation">>] \in Nat /\ used.faults \in Nat
      BY DEF IInv, Typed, JInv, Types, Kinds
    <2>4. OnePlace(f)' /\ (Underway(f)' => Underway(f))
      BY <2>1, <2>2, SamePlace
    <2>5. MailFits(f)'
      BY <1>2, <1>9, <2>2, <2>3, <2>4, MailKept
    <2>6. ASSUME f # e
          PROVE  Single(f)'
      <3>1. settings[f] = << >> => settings'[f] = << >>
        BY <1>4, <2>6
      <3>2. \A b \in Actors : Carries(b, f)' /\ Has(actor'[b], "settings") =>
               Carries(b, f) /\ Has(actor[b], "settings")
        BY <1>11
      <3>3. QED
        BY <1>9, <2>2, <3>1, <3>2, SingleKept
    <2>7. ASSUME f = e
          PROVE  Single(f)'
      <3>1. ASSUME NEW b \in Actors, Carries(b, f)', Has(actor'[b], "settings"), Form(f)'
            PROVE  <<f, "settings">> \in missed'
        <4>1. Carries(b, f) /\ (b = a => ~Has(actor'[a], s))
          BY <1>11, <3>1
        <4>2. s = "settings" => b = a
          BY <1>6, <1>7, <2>7, <4>1 DEF OnePlace
        <4>3. s = "default"
          BY <1>1, <3>1, <4>1, <4>2
        <4>4. QED
          BY <1>2, <1>7, <2>7, <3>1, <4>3 DEF Form
      <3>2. Known(f)'
        BY <1>2, <1>8, <2>7 DEF Known
      <3>3. QED
        BY <3>1, <3>2 DEF Single, Form, Carries
    <2>8. QED
      BY <2>5, <2>6, <2>7
  <1>13. MailsFit'
    BY <1>12 DEF MailsFit
  <1>14. Types'
    BY <1>2, <1>4 DEF JInv, Types
  <1>15. \A f \in Emails : (Known(f)' => Known(f)) /\ users'[f].since = users[f].since
    BY <1>2 DEF Known
  <1>16. QED
    BY <1>1, <1>2, <1>3, <1>9, <1>10, <1>13, <1>14, <1>15, StatementKeeps DEF Setups

LEMMA SetUpKeeps ==
    ASSUME IInv, JInv, NEW a \in Actors, SetUp(a)
    PROVE  JInv'
  <1>1. PICK s \in {"categories", "trial"} :
           Upcoming(a, s) /\ setup' = [setup EXCEPT ![actor[a].email] = @ \cup {s}]
    BY DEF SetUp
  <1>2. /\ Done(a)
        /\ UNCHANGED <<users, tokens, settings, queue, inbox, phase, now, used, missed>>
    BY DEF SetUp
  <1>3. PICK e \in Emails : e = actor[a].email
    BY <1>1, Executing
  <1>4. /\ setup'[e] = setup[e] \cup {s} /\ \A f \in Emails \ {e} : setup'[f] = setup[f]
        /\ setup' \in [Emails -> SUBSET {"categories", "trial"}]
    BY <1>1, <1>3 DEF JInv, Types
  <1>5. Steady
    BY <1>2, <1>4 DEF Steady, Known, Active, SetUpFor, DoneFor, Form, Setups
  <1>6. MailsFit'
    BY <1>1, <1>2, <1>5, StatementMails
  <1>7. Types'
    BY <1>2, <1>4 DEF JInv, Types
  <1>8. Known(e) => SetUpFor(e, s)'
    BY <1>2, <1>4 DEF SetUpFor, DoneFor, Known, Form
  <1>9. \A f \in Emails : (Known(f)' => Known(f)) /\ users'[f].since = users[f].since
    BY <1>2 DEF Known
  <1>10. QED
    BY <1>1, <1>2, <1>3, <1>5, <1>6, <1>7, <1>8, <1>9, StatementKeeps DEF Setups

\* The rows of settings are written, none is added.
LEMMA SaveKeeps ==
    ASSUME IInv, JInv, NEW a \in Actors, SaveSettings(a)
    PROVE  JInv'
  <1>1. /\ Upcoming(a, "save") /\ Done(a)
        /\ settings' = [settings EXCEPT ![actor[a].email] = [i \in DOMAIN @ |-> "chosen"]]
        /\ UNCHANGED <<users, tokens, setup, queue, inbox, phase, now, used, missed>>
    BY DEF SaveSettings
  <1>2. PICK e \in Emails : e = actor[a].email
    BY <1>1, Executing
  <1>3. PICK q : q = [i \in DOMAIN settings[e] |-> "chosen"]
    OBVIOUS
  <1>4. settings[e] \in Seq({"default", "chosen"}) /\ settings'[e] = q
        /\ \A f \in Emails \ {e} : settings'[f] = settings[f]
    BY <1>1, <1>2, <1>3 DEF JInv, Types
  <1>5. DOMAIN settings[e] = 1..Len(settings[e]) /\ Len(settings[e]) \in Nat
    BY <1>4
  <1>6. q \in Seq({"default", "chosen"}) /\ Len(q) = Len(settings[e])
    <2>1. q = [i \in 1..Len(settings[e]) |-> "chosen"]
      BY <1>3, <1>5
    <2>2. q \in Seq({"default", "chosen"})
      BY <1>5, <2>1
    <2>3. DOMAIN q = 1..Len(settings[e])
      BY <2>1
    <2>4. Len(q) = Len(settings[e])
      BY <1>5, <2>2, <2>3, LenProperties
    <2>5. QED
      BY <2>2, <2>4
  <1>7. settings' \in [Emails -> Seq({"default", "chosen"})]
    BY <1>1, <1>2, <1>3, <1>6 DEF JInv, Types
  <1>8. \A f \in Emails : settings[f] = << >> => settings'[f] = << >>
    <2>1. settings[e] = << >> => Len(q) = 0
      BY <1>6
    <2>2. Len(q) = 0 => q = << >>
      BY <1>6, EmptySeq
    <2>3. QED
      BY <1>4, <2>1, <2>2
  <1>9. Steady
    <2>1. \A f \in Emails : Len(settings'[f]) = Len(settings[f])
      BY <1>4, <1>6
    <2>2. QED
      BY <1>1, <2>1 DEF Steady, Known, Active, SetUpFor, DoneFor, Form, Setups
  <1>10. MailsFit'
    BY <1>1, <1>8, <1>9, StatementMails
  <1>11. Types'
    BY <1>1, <1>7 DEF JInv, Types
  <1>12. \A f \in Emails : (Known(f)' => Known(f)) /\ users'[f].since = users[f].since
    BY <1>1 DEF Known
  <1>13. QED
    BY <1>1, <1>2, <1>9, <1>10, <1>11, <1>12, StatementKeeps DEF Setups

\* The tokens of a user are deleted once the user is active.
LEMMA DeleteTokenKeeps ==
    ASSUME IInv, JInv, NEW a \in Actors, DeleteToken(a)
    PROVE  JInv'
  <1>1. /\ Upcoming(a, "delete_token") /\ Done(a)
        /\ tokens' = {t \in tokens : t.user # actor[a].email}
        /\ UNCHANGED <<users, settings, setup, queue, inbox, phase, now, used, missed>>
    BY DEF DeleteToken
  <1>2. PICK e \in Emails : e = actor[a].email
    BY <1>1, Executing
  <1>3. Steady
    BY <1>1, SteadyRows
  <1>4. MailsFit'
    BY <1>1, <1>3, StatementMails
  <1>5. Types'
    BY <1>1 DEF JInv, Types
  <1>6. Active(e)'
    <2>1. Active(e)
      BY <1>1, <1>2, NextStatement
    <2>2. QED
      BY <1>1, <2>1 DEF Active
  <1>7. \A f \in Emails : (\E t \in tokens : t.user = f) =>
           (\E t \in tokens' : t.user = f) \/ Active(f)' \/ users[f].since + 1 < now
    BY <1>1, <1>2, <1>6 DEF Active
  <1>8. \A f \in Emails : (Known(f)' => Known(f)) /\ users'[f].since = users[f].since
    BY <1>1 DEF Known
  <1>9. QED
    BY <1>1, <1>2, <1>3, <1>4, <1>5, <1>7, <1>8, StatementKeeps DEF Setups

\* A worker has one statement.
LEMMA WorkerStops ==
    ASSUME IInv, JInv, NEW a \in Actors, NEW s \in {"chain", "smtp", "clean"},
           Upcoming(a, s), Done(a)
    PROVE  Abandon(a)
  <1>1. Len(actor[a].todo) = 1
    BY NextStatement
  <1>2. QED
    BY <1>1 DEF Done, Abandon, IInv, ActorsFit

\* A goroutine that stops holds no mail.
LEMMA AbandonPlace ==
    ASSUME IInv, NEW a \in Actors, Abandon(a), NEW b \in Actors, NEW e \in Emails,
           Carries(b, e)'
    PROVE  Carries(b, e) /\ b # a /\ actor'[b] = actor[b]
  <1>1. b # a
    <2>1. b = a => actor'[b] = Idle
      BY DEF Abandon, IInv, ActorsFit
    <2>2. Idle.email # e
      BY IdleKeeps, UsersAssumption
    <2>3. QED
      BY <2>1, <2>2 DEF Carries, Holder
  <1>2. actor'[b] = actor[b]
    BY <1>1 DEF Abandon, IInv, ActorsFit
  <1>3. QED
    BY <1>1, <1>2 DEF Carries

\* A token is kept for a day.
LEMMA DeleteExpiredKeeps ==
    ASSUME IInv, JInv, NEW a \in Actors, DeleteExpired(a)
    PROVE  JInv'
  <1>1. /\ Upcoming(a, "clean") /\ Done(a) /\ tokens' = {t \in tokens : t.expires >= now}
        /\ UNCHANGED <<users, settings, setup, queue, inbox, phase, now, used, missed>>
    BY DEF DeleteExpired
  <1>2. Abandon(a)
    BY <1>1, WorkerStops
  <1>3. Steady
    BY <1>1, SteadyRows
  <1>4. MailsFit'
    BY <1>1, <1>3, StatementMails
  <1>5. Types'
    BY <1>1 DEF JInv, Types
  <1>6. ActorsKeep'
    BY <1>2, <1>3, AbandonKeeps DEF IInv, JInv
  <1>7. ASSUME NEW t \in tokens, t \notin tokens'
        PROVE  users[t.user].since + 1 < now
    <2>1. users[t.user].since \in Nat /\ now \in Nat /\ t.expires \in Nat
      BY DEF IInv, Typed, TokensKnown, Row, JInv, Types
    <2>2. t.expires >= users[t.user].since + 1 /\ ~(t.expires >= now)
      BY <1>1, <1>7 DEF JInv, Dates
    <2>3. QED
      BY <2>1, <2>2
  <1>8. \A f \in Emails : Registering(f) => Registering(f)'
    <2>1. ~Upcoming(a, "token")
      BY <1>1 DEF Upcoming
    <2>2. QED
      BY <1>2, <2>1, StillRegistering DEF Abandon, IInv
  <1>9. \A f \in Emails : (Known(f)' => Known(f)) /\ users'[f].since = users[f].since
    BY <1>1 DEF Known
  <1>10. QED
    BY <1>1, <1>3, <1>4, <1>5, <1>6, <1>7, <1>8, <1>9, RestKept

\* A token is stored for the user it was announced for.
LEMMA InsertTokenKeeps ==
    ASSUME IInv, JInv, NEW a \in Actors, InsertToken(a)
    PROVE  JInv'
  <1>1. /\ Upcoming(a, "token") /\ Done(a)
        /\ UNCHANGED <<users, settings, setup, queue, inbox, phase, now, used, missed>>
    BY DEF InsertToken
  <1>2. PICK e \in Emails : e = actor[a].email
    BY <1>1, Executing
  <1>3. PICK t : t = [user |-> e, expires |-> now + 1]
    OBVIOUS
  <1>4. /\ tokens' = tokens \cup {t} /\ t.user = e /\ t.expires = now + 1
        /\ now \in Nat /\ \A f \in Emails : users[f].since \in Nat
    BY <1>2, <1>3 DEF InsertToken, IInv, Typed, Row
  <1>5. Steady
    BY <1>1, SteadyRows
  <1>6. MailsFit'
    BY <1>1, <1>5, StatementMails
  <1>7. Types'
    BY <1>1, <1>4 DEF JInv, Types
  <1>8. Dates'
    <2>1. users[e].since <= now
      BY DEF JInv, Dates
    <2>2. t.expires >= users[e].since + 1
      BY <1>4, <2>1
    <2>3. QED
      BY <1>1, <1>4, <2>2 DEF JInv, Dates
  <1>9. actor[a].todo # << >> /\ Head(actor[a].todo) = "token"
    BY <1>1 DEF Upcoming
  <1>10. ActorsKeep'
    BY <1>1, <1>2, <1>5, <1>9, DoneKeeps DEF IInv, JInv, Setups
  <1>11. QueueKeeps'
    BY <1>1, <1>5, QueueKeepsKept DEF IInv, JInv
  <1>12. ASSUME NEW f \in Emails, Registering(f)
         PROVE  Registering(f)' \/ \E u \in tokens' : u.user = f
    <2>1. CASE f = e
      BY <1>4, <2>1
    <2>2. CASE f # e
      <3>1. PICK b \in Actors : actor[b].email = f /\ Upcoming(b, "token")
        BY <1>12 DEF Registering
      <3>2. b # a
        BY <1>2, <2>2, <3>1
      <3>3. actor'[b] = actor[b]
        BY <1>1, <3>2 DEF Done, IInv, ActorsFit
      <3>4. QED
        BY <3>1, <3>3 DEF Registering, Upcoming
    <2>3. QED
      BY <2>1, <2>2
  <1>13. NotLockedOut'
    BY <1>1, <1>4, <1>5, <1>12, NotLockedKept DEF JInv, Known
  <1>14. QED
    BY <1>6, <1>7, <1>8, <1>10, <1>11, <1>13 DEF JInv

\* The row of a user who is stored is written.
LEMMA RowKeeps ==
    ASSUME IInv, JInv, NEW a \in Actors, NEW s \in {"activate", "password", "row"},
           Upcoming(a, s), Done(a), NEW e \in Emails, e = actor[a].email,
           NEW r, users' = [users EXCEPT ![e] = r], Known(e), r # NoUser,
           r.via = users[e].via, r.since = users[e].since,
           Active(e) => r.active, s = "activate" => r.active,
           UNCHANGED <<tokens, settings, setup, queue, inbox, phase, now, used, missed>>
    PROVE  JInv'
  <1>1. users'[e] = r /\ \A f \in Emails \ {e} : users'[f] = users[f]
    BY DEF IInv, Typed
  <1>2. Steady
    BY <1>1 DEF Steady, Known, Active, SetUpFor, DoneFor, Form, Setups
  <1>3. MailsFit'
    BY <1>2, StatementMails
  <1>4. Types'
    BY DEF JInv, Types
  <1>5. \A f \in Emails : (Known(f)' => Known(f)) /\ users'[f].since = users[f].since
    BY <1>1 DEF Known
  <1>6. s = "activate" => Active(e)'
    BY <1>1 DEF Active
  <1>7. QED
    BY <1>2, <1>3, <1>4, <1>5, <1>6, StatementKeeps DEF Setups

LEMMA RowStatementKeeps ==
    ASSUME IInv, JInv, NEW a \in Actors, SetActive(a) \/ UpdatePassword(a) \/ UpdateUser(a)
    PROVE  JInv'
  <1>1. PICK s \in {"activate", "password", "row"} :
           /\ Upcoming(a, s) /\ Done(a)
           /\ s = "activate" <=> SetActive(a)
           /\ s = "password" <=> UpdatePassword(a)
           /\ s = "row" <=> UpdateUser(a)
           /\ UNCHANGED <<tokens, settings, setup, queue, inbox, phase, now, used, missed>>
    BY DEF SetActive, UpdatePassword, UpdateUser, Upcoming
  <1>2. PICK e \in Emails : e = actor[a].email
    BY <1>1, Executing
  <1>3. /\ Known(e) /\ users \in [Emails -> Row] /\ users[e] \in Row
        /\ s # "activate" => Active(e)
        /\ s = "row" => actor[a].row \in Row /\ actor[a].row.active
    <2>1. /\ s = "activate" => Known(e)
          /\ s # "activate" => Active(e)
          /\ s = "row" => actor[a].row \in Row /\ actor[a].row.active
      BY <1>1, <1>2, Executing
    <2>2. Active(e) => Known(e)
      BY DEF Known, Active, NoUser
    <2>3. users \in [Emails -> Row] /\ users[e] \in Row
      BY DEF IInv, Typed
    <2>4. QED
      BY <2>1, <2>2, <2>3
  <1>4. PICK r : users' = [users EXCEPT ![e] = r] /\
           r = IF s = "activate" THEN [users[e] EXCEPT !.active = TRUE]
               ELSE IF s = "password" THEN [users[e] EXCEPT !.password = @ + 1]
               ELSE Written(users[e], actor[a].row)
    BY <1>1, <1>2, <1>3 DEF SetActive, UpdatePassword, UpdateUser
  <1>5. /\ r.via = users[e].via /\ r.since = users[e].since
        /\ Active(e) => r.active
        /\ s = "activate" => r.active
        /\ s # "activate" => r.active
    BY <1>3, <1>4 DEF Row, Written, Active
  <1>6. r # NoUser
    BY <1>5 DEF NoUser
  <1>7. QED
    BY <1>1, <1>2, <1>3, <1>4, <1>5, <1>6, RowKeeps

\* Behind "user" comes "token".
LEMMA TokenNext ==
    ASSUME IInv, JInv, NEW a \in Actors, Upcoming(a, "user"), Done(a),
           NEW e, e = actor[a].email
    PROVE  Registering(e)'
  <1>1. PICK q : q = actor[a]
    OBVIOUS
  <1>2. q \in Goroutine /\ Shape(q) /\ q.todo # << >> /\ Head(q.todo) = "user"
    BY <1>1 DEF IInv, ActorsFit, JInv, ActorsKeep, Keeps, Upcoming
  <1>3. PICK todo \in Seq(Statements) : todo = q.todo
    BY <1>2 DEF Goroutine
  <1>4. 1 \in 1..Len(todo) /\ todo[1] = "user"
    BY <1>2, <1>3
  <1>5. 2 \in 1..Len(todo) /\ todo[2] = "token"
    BY <1>2, <1>3, <1>4 DEF Shape
  <1>6. PICK n \in Nat : n = Len(todo)
    OBVIOUS
  <1>7. n >= 2 /\ n # 1
    BY <1>5, <1>6
  <1>8. Tail(todo) # << >> /\ Head(Tail(todo)) = "token"
    <2>1. /\ Tail(todo) \in Seq(Statements) /\ Len(Tail(todo)) = n - 1
          /\ \A i \in 1..Len(Tail(todo)) : Tail(todo)[i] = todo[i + 1]
      BY <1>2, <1>3, <1>6, HeadTailProperties
    <2>2. 1 \in 1..Len(Tail(todo)) /\ Len(Tail(todo)) # 0
      BY <1>7, <2>1
    <2>3. Tail(todo)[1] = "token"
      BY <1>5, <2>1, <2>2
    <2>4. Tail(todo) # << >>
      BY <2>1, <2>2, EmptySeq
    <2>5. QED
      BY <2>1, <2>3, <2>4, HeadTailProperties
  <1>9. actor'[a].email = e /\ actor'[a].todo = Tail(todo)
    <2>1. actor[a].todo # << >>
      BY <1>1, <1>2
    <2>2. PICK r \in Goroutine :
             /\ actor' = [actor EXCEPT ![a] = r] /\ actor'[a] = r
             /\ \/ r = Idle
                \/ /\ Len(actor[a].todo) # 1 /\ r.email = actor[a].email
                   /\ r.task = actor[a].task /\ r.row = actor[a].row
                   /\ r.todo = Tail(actor[a].todo)
      BY <2>1, DoneRecord DEF IInv
    <2>3. actor' = [actor EXCEPT ![a] = [q EXCEPT !.todo = Tail(q.todo)]]
      BY <1>1, <1>3, <1>6, <1>7 DEF Done
    <2>4. actor'[a].email = q.email /\ actor'[a].todo = Tail(q.todo)
      BY <1>2, <2>3 DEF IInv, ActorsFit, Goroutine
    <2>5. QED
      BY <1>1, <1>3, <2>4
  <1>10. QED
    BY <1>8, <1>9 DEF Registering, Upcoming

\* A user is stored: nothing was known of the address, and no mail is underway.
LEMMA InsertUserKeeps ==
    ASSUME IInv, JInv, NEW a \in Actors, InsertUser(a)
    PROVE  JInv'
  <1>1. PICK s \in {"user", "oauth_user"} :
           /\ Upcoming(a, s)
           /\ users' = [users EXCEPT ![actor[a].email] =
                           NewUser(IF s = "user" THEN "form" ELSE "oauth")]
    BY DEF InsertUser
  <1>2. /\ Done(a) /\ users[actor[a].email] = NoUser
        /\ UNCHANGED <<tokens, settings, setup, queue, inbox, phase, now, used, missed>>
    BY DEF InsertUser
  <1>3. PICK e \in Emails : e = actor[a].email
    BY <1>1, Executing
  <1>4. PICK r : r = NewUser(IF s = "user" THEN "form" ELSE "oauth")
    OBVIOUS
  <1>5. /\ r # NoUser /\ r.since = now /\ (s = "oauth_user" => r.active)
        /\ now \in Nat /\ ~NoUser.active
    <2>1. NoUser \in Row
      BY DEF NoUser, Row
    <2>2. r.since = now /\ r.via # "none" /\ (s = "oauth_user" => r.active)
      BY <1>4, <2>1 DEF NewUser, Row
    <2>3. QED
      BY <2>2 DEF NoUser, IInv, Typed
  <1>6. /\ users'[e] = r /\ \A f \in Emails \ {e} : users'[f] = users[f]
        /\ ~Known(e) /\ ~Active(e) /\ Known(e)'
    BY <1>1, <1>2, <1>3, <1>4, <1>5 DEF IInv, Typed, Known, Active
  <1>7. Steady
    BY <1>2, <1>6 DEF Steady, Known, Active, SetUpFor, DoneFor, Form, Setups
  <1>8. actor[a].todo # << >> /\ Head(actor[a].todo) = s
    BY <1>1 DEF Upcoming
  <1>9. ActorsKeep'
    BY <1>2, <1>3, <1>7, <1>8, DoneKeeps DEF IInv, JInv, Setups
  <1>10. QueueKeeps'
    BY <1>2, <1>7, QueueKeepsKept DEF IInv, JInv
  <1>11. Types'
    BY <1>2 DEF JInv, Types
  <1>12. Dates'
    <2>1. \A t \in tokens : t.user \in Emails \ {e}
      BY <1>6 DEF IInv, TokensKnown
    <2>2. r.since <= now
      BY <1>5
    <2>3. QED
      BY <1>2, <1>6, <2>1, <2>2 DEF JInv, Dates
  <1>13. PICK q \in Goroutine : /\ actor' = [actor EXCEPT ![a] = q] /\ actor'[a] = q
                                /\ q = Idle \/ q.email = e
    BY <1>2, <1>3, <1>8, DoneRecord DEF IInv
  <1>14. \A b \in Actors \ {a} : actor'[b] = actor[b]
    BY <1>13 DEF IInv, ActorsFit
  <1>15. NotLockedOut'
    <2>1. Registering(e)' \/ r.active
      BY <1>1, <1>2, <1>3, <1>5, TokenNext
    <2>2. ASSUME NEW f \in Emails \ {e}, Registering(f) PROVE Registering(f)'
      <3>1. ~Upcoming(a, "token")
        BY <1>8 DEF Upcoming
      <3>2. QED
        BY <1>13, <2>2, <3>1, StillRegistering DEF IInv
    <2>3. QED
      BY <1>2, <1>6, <2>1, <2>2 DEF JInv, NotLockedOut
  <1>16. ASSUME NEW f \in Emails
         PROVE  MailFits(f)' /\ Single(f)'
    <2>1. MailFits(f) /\ Single(f) /\ OnePlace(f)
      BY DEF JInv, MailsFit, MailFits
    <2>2. /\ inbox[<<f, "activation">>] \in Nat /\ used.faults \in Nat
          /\ inbox'[<<f, "activation">>] = inbox[<<f, "activation">>]
      BY <1>2 DEF IInv, Typed, JInv, Types, Kinds
    <2>3. CASE f # e
      <3>1. \A b \in Actors : Carries(b, f)' => Carries(b, f) /\ actor'[b] = actor[b]
        <4>1. ~Holder(q, f)
          BY <1>13, <2>3, IdleKeeps, UsersAssumption DEF Holder
        <4>2. QED
          BY <1>13, <1>14, <4>1 DEF Carries
      <3>2. StaysPut(f)
        BY <1>2, <3>1, QueueStays DEF StaysPut
      <3>3. OnePlace(f)' /\ (Underway(f)' => Underway(f))
        BY <2>1, <3>2, SamePlace
      <3>4. MailFits(f)'
        BY <1>2, <1>7, <2>1, <2>2, <3>3, MailKept
      <3>5. Single(f)'
        BY <1>2, <1>7, <2>1, <3>1, SingleKept
      <3>6. QED
        BY <3>4, <3>5
    <2>4. CASE f = e
      <3>1. ~Known(f) /\ Known(f)'
        BY <1>6, <2>4 DEF Known
      <3>2. ~Underway(f) /\ ~Ready(f) /\ settings[f] = << >>
        BY <2>1, <3>1 DEF MailFits, Single, Ready, SetUpFor, Setups
      <3>3. inbox[<<f, "activation">>] = 0
        BY <2>1, <2>2, <3>2 DEF MailFits
      <3>4. \A t : ~Queued(t, f)'
        BY <1>2, <3>2 DEF Underway, Queued
      <3>5. \A b \in Actors : Carries(b, f)' => b = a
        BY <1>14, <3>2 DEF Underway, Carries
      <3>6. OnePlace(f)'
        BY <3>4, <3>5 DEF OnePlace
      <3>7. MailFits(f)'
        BY <1>2, <2>2, <3>1, <3>3, <3>6 DEF MailFits
      <3>8. Single(f)'
        BY <1>2, <3>1, <3>2 DEF Single
      <3>9. QED
        BY <3>7, <3>8
    <2>5. QED
      BY <2>3, <2>4
  <1>17. MailsFit'
    BY <1>16 DEF MailsFit
  <1>18. QED
    BY <1>9, <1>10, <1>11, <1>12, <1>15, <1>17 DEF JInv

-----------------------------------------------------------------------------
(* The queue.                                                               *)

\* Tasks B come to the queue; if one of them is the mail of e, its only holder lets go.
Moves(B, e) ==
    \A t \in BagToSet(B) : t.kind = "activation" /\ t.to = e =>
        /\ B[t] = 1 /\ \A u \in BagToSet(B) : u.kind = "activation" /\ u.to = e => u = t
        /\ \E b \in Actors : Carries(b, e)

LetGo(B, e) ==
    \A t \in BagToSet(B) : t.kind = "activation" /\ t.to = e => \A b \in Actors : ~Carries(b, e)

LEMMA PlaceMoves ==
    ASSUME NEW e, OnePlace(e), NEW B, IsABag(B), IsABag(queue), queue' = queue (+) B,
           Moves(B, e), LetGo(B, e)', \A b \in Actors : Carries(b, e)' => Carries(b, e)
    PROVE  OnePlace(e)' /\ (Underway(e)' => Underway(e))
  <1>1. /\ BagToSet(queue') = BagToSet(queue) \cup BagToSet(B)
        /\ \A t \in BagToSet(queue) \ BagToSet(B) : queue'[t] = queue[t]
        /\ \A t \in BagToSet(B) \ BagToSet(queue) : queue'[t] = B[t]
    BY BagSum
  <1>2. ASSUME NEW t, Queued(t, e)'
        PROVE  Queued(t, e) \/ (t \in BagToSet(B) /\ t.kind = "activation" /\ t.to = e)
    BY <1>1, <1>2 DEF Queued
  <1>3. CASE \E t \in BagToSet(B) : t.kind = "activation" /\ t.to = e
    <2>1. PICK t \in BagToSet(B) : t.kind = "activation" /\ t.to = e
      BY <1>3
    <2>2. B[t] = 1 /\ \A u \in BagToSet(B) : u.kind = "activation" /\ u.to = e => u = t
      BY <2>1 DEF Moves
    <2>3. PICK a \in Actors : Carries(a, e)
      BY <2>1 DEF Moves
    <2>4. \A u : ~Queued(u, e)
      BY <2>3 DEF OnePlace
    <2>5. \A b \in Actors : ~Carries(b, e)'
      BY <2>1 DEF LetGo
    <2>6. \A u : Queued(u, e)' => u = t
      BY <1>2, <2>2, <2>4
    <2>7. t \notin BagToSet(queue)
      BY <2>1, <2>4 DEF Queued
    <2>8. queue'[t] = 1
      BY <1>1, <2>2, <2>7
    <2>9. OnePlace(e)'
      BY <2>5, <2>6, <2>8 DEF OnePlace
    <2>10. QED
      BY <2>3, <2>9 DEF Underway
  <1>4. CASE \A t \in BagToSet(B) : ~(t.kind = "activation" /\ t.to = e)
    <2>1. ASSUME NEW t, Queued(t, e)'
          PROVE  Queued(t, e) /\ queue'[t] = queue[t]
      <3>1. Queued(t, e)
        BY <1>2, <1>4, <2>1
      <3>2. t \in BagToSet(queue) /\ t \notin BagToSet(B)
        BY <1>4, <3>1 DEF Queued
      <3>3. QED
        BY <1>1, <3>1, <3>2
    <2>2. StaysPut(e)
      BY <2>1 DEF StaysPut
    <2>3. QED
      BY <2>2, SamePlace
  <1>5. QED
    BY <1>3, <1>4

LEMMA QueueKeepsGrows ==
    ASSUME QueueFits, QueueKeeps, Steady, NEW B, IsABag(B), IsABag(queue),
           queue' = queue (+) B,
           \A t \in BagToSet(B) :
              /\ t.retried <= MaxRetry
              /\ t.kind = "activation" => t.to \in Emails /\ Ready(t.to)
    PROVE  QueueKeeps'
  <1>1. ASSUME NEW t \in BagToSet(queue')
        PROVE  t.retried <= MaxRetry /\ (t.kind = "activation" => Ready(t.to)')
    <2>1. t \in BagToSet(queue) \/ t \in BagToSet(B)
      BY BagSum
    <2>2. /\ t.retried <= MaxRetry
          /\ t.kind = "activation" => t.to \in Emails /\ Ready(t.to)
      BY <2>1 DEF QueueFits, QueueKeeps, TaskFits
    <2>3. QED
      BY <2>2 DEF Ready, Steady
  <1>2. QED
    BY <1>1 DEF QueueKeeps, Ready, SetUpFor, DoneFor, Known, Form

\* What is left to show of a step that brings tasks to the queue: a mail that SMTP
\* accepted although its task failed is one more, and so is the fault.
LEMMA TasksArrive ==
    ASSUME IInv, JInv, Steady, ActorsKeep', UNCHANGED <<users, tokens, settings, setup, now>>,
           phase' \in {"up", "draining"}, used' \in [{"requests", "faults", "stops"} -> Nat],
           used.faults <= used'.faults, NEW B, IsABag(B), queue' = queue (+) B,
           \A t \in BagToSet(B) :
              /\ t.retried <= MaxRetry
              /\ t.kind = "activation" => t.to \in Emails /\ Ready(t.to),
           \A f \in Emails : Moves(B, f), \A f \in Emails : LetGo(B, f)',
           \A f \in Emails : \A b \in Actors :
              Carries(b, f)' =>
                 Carries(b, f) /\ (Has(actor'[b], "settings") => Has(actor[b], "settings")),
           \A f \in Emails : \/ inbox'[<<f, "activation">>] = inbox[<<f, "activation">>]
                             \/ /\ Underway(f) /\ Ready(f)
                                /\ inbox'[<<f, "activation">>] = inbox[<<f, "activation">>] + 1
                                /\ used'.faults = used.faults + 1,
           \A f \in Emails : Registering(f) => Registering(f)' \/ <<f, "token">> \in missed'
    PROVE  JInv'
  <1>1. IsABag(queue) /\ used.faults \in Nat /\ used'.faults \in Nat
    BY DEF JInv, Types
  <1>2. ASSUME NEW f \in Emails
        PROVE  MailFits(f)' /\ Single(f)'
    <2>1. MailFits(f) /\ Single(f) /\ OnePlace(f)
      BY DEF JInv, MailsFit, MailFits
    <2>2. Moves(B, f) /\ LetGo(B, f)' /\ \A b \in Actors : Carries(b, f)' => Carries(b, f)
      OBVIOUS
    <2>3. OnePlace(f)' /\ (Underway(f)' => Underway(f))
      BY <1>1, <2>1, <2>2, PlaceMoves
    <2>4. inbox[<<f, "activation">>] \in Nat
      BY DEF IInv, Typed, Kinds
    <2>5. MailFits(f)'
      <3>1. CASE inbox'[<<f, "activation">>] = inbox[<<f, "activation">>]
        BY <1>1, <2>1, <2>3, <2>4, <3>1, MailKept
      <3>2. CASE /\ Underway(f) /\ Ready(f)
                 /\ inbox'[<<f, "activation">>] = inbox[<<f, "activation">>] + 1
                 /\ used'.faults = used.faults + 1
        <4>1. Known(f)' /\ Ready(f)'
          BY <2>1, <3>2 DEF Steady, Ready, MailFits
        <4>2. /\ inbox'[<<f, "activation">>] <= used'.faults
              /\ inbox'[<<f, "activation">>] <= used'.faults + 1
          BY <1>1, <2>1, <2>4, <3>2 DEF MailFits
        <4>3. QED
          BY <2>3, <4>1, <4>2 DEF MailFits
      <3>3. QED
        BY <3>1, <3>2
    <2>6. Single(f)'
      BY <2>1, SingleKept
    <2>7. QED
      BY <2>5, <2>6
  <1>3. MailsFit'
    BY <1>2 DEF MailsFit
  <1>4. QueueKeeps'
    BY <1>1, QueueKeepsGrows DEF IInv, JInv
  <1>5. Types'
    BY <1>1, BagSum DEF JInv, Types
  <1>6. now \in Nat /\ \A f \in Emails : users[f].since \in Nat
    BY DEF IInv, Typed, Row
  <1>7. NotLockedOut'
    BY <1>6, NotLockedKept DEF JInv, Known
  <1>8. Dates'
    BY DEF JInv, Dates
  <1>9. QED
    BY <1>3, <1>4, <1>5, <1>7, <1>8 DEF JInv

\* A mail that is queued has left its goroutine.
LEMMA EnqueueKeeps ==
    ASSUME IInv, JInv, NEW a \in Actors, Enqueue(a)
    PROVE  JInv'
  <1>1. PICK s \in {"activation", "export", "notice", "chain"} :
           Upcoming(a, s) /\ Add(Enqueued(s, actor[a].email))
    BY DEF Enqueue
  <1>2. /\ Done(a)
        /\ UNCHANGED <<users, tokens, settings, setup, inbox, phase, now, used, missed>>
    BY DEF Enqueue, rows
  <1>3. PICK e \in Emails : e = actor[a].email
    BY <1>1, Executing
  <1>4. PICK t : t = Enqueued(s, e)
    OBVIOUS
  <1>5. /\ t.to = e /\ t.retried = 0 /\ queue' = queue (+) SetToBag({t})
        /\ t.kind = "activation" <=> s \in {"activation", "chain"}
    BY <1>1, <1>3, <1>4 DEF Enqueued, NewActivationEmailTask, NewExportEmailTask,
                            NewEmailSendTask, Task, Add
  <1>6. /\ actor[a].todo # << >> /\ Head(actor[a].todo) = s
        /\ s = "activation" => Ready(e) /\ Carries(a, e)
        /\ s = "chain" => Ready(e) /\ Carries(a, e)
    BY <1>1, <1>3, NextStatement
  <1>7. Steady
    BY <1>2, SteadyRows
  <1>8. ActorsKeep'
    BY <1>2, <1>3, <1>6, <1>7, DoneKeeps DEF IInv, JInv, Setups
  <1>9. s \in {"activation", "chain"} => Abandon(a)
    <2>1. CASE s = "activation"
      <3>1. Shape(actor[a]) /\ actor[a].todo \in Seq(Statements)
        BY DEF IInv, ActorsFit, Goroutine, JInv, ActorsKeep, Keeps
      <3>2. 1 \in 1..Len(actor[a].todo) /\ actor[a].todo[1] = "activation"
        BY <1>6, <2>1, <3>1
      <3>3. Len(actor[a].todo) = 1
        BY <3>1, <3>2 DEF Shape
      <3>4. QED
        BY <1>2, <3>3 DEF Done, Abandon
    <2>2. CASE s = "chain"
      BY <1>1, <1>2, <2>2, WorkerStops
    <2>3. QED
      BY <2>1, <2>2
  <1>10. ASSUME NEW f \in Emails, NEW b \in Actors, Carries(b, f)'
         PROVE  Carries(b, f) /\ (Has(actor'[b], "settings") => Has(actor[b], "settings"))
    BY <1>2, <1>6, <1>10, DoneHolds DEF IInv, JInv
  <1>11. BagToSet(SetToBag({t})) = {t} /\ SetToBag({t})[t] = 1 /\ IsABag(SetToBag({t}))
    BY SingleBag
  <1>12. ASSUME NEW f \in Emails
         PROVE  Moves(SetToBag({t}), f) /\ LetGo(SetToBag({t}), f)'
    <2>1. CASE t.kind = "activation" /\ f = e
      <3>1. \A b \in Actors : ~Carries(b, f)'
        <4>1. OnePlace(f) /\ Carries(a, f)
          BY <1>5, <1>6, <2>1 DEF JInv, MailsFit, MailFits
        <4>2. \A b \in Actors : Carries(b, f)' => Carries(b, f) /\ b # a
          BY <1>5, <1>9, <2>1, AbandonPlace
        <4>3. QED
          BY <4>1, <4>2 DEF OnePlace
      <3>2. Carries(a, f)
        BY <1>5, <1>6, <2>1
      <3>3. QED
        BY <1>11, <3>1, <3>2 DEF Moves, LetGo
    <2>2. CASE ~(t.kind = "activation" /\ f = e)
      BY <1>5, <1>11, <2>2 DEF Moves, LetGo
    <2>3. QED
      BY <2>1, <2>2
  <1>13. ~Upcoming(a, "token")
    BY <1>6 DEF Upcoming
  <1>14. PICK r : actor' = [actor EXCEPT ![a] = r]
    BY <1>2, <1>6, DoneRecord DEF IInv
  <1>15. \A f \in Emails : Registering(f) => Registering(f)'
    BY <1>13, <1>14, StillRegistering DEF IInv
  <1>16. /\ phase' \in {"up", "draining"} /\ used' \in [{"requests", "faults", "stops"} -> Nat]
         /\ used.faults <= used'.faults /\ 0 <= MaxRetry
    BY <1>2, UsersAssumption DEF JInv, Types
  <1>17. \A u \in BagToSet(SetToBag({t})) :
            /\ u.retried <= MaxRetry
            /\ u.kind = "activation" => u.to \in Emails /\ Ready(u.to)
    BY <1>5, <1>6, <1>11, <1>16
  <1>18. QED
    BY <1>2, <1>5, <1>7, <1>8, <1>10, <1>11, <1>12, <1>15, <1>16, <1>17, TasksArrive

\* What the worker that holds a mail carries.
LEMMA WorkerCarries ==
    ASSUME IInv, JInv, NEW a \in Actors, actor[a].task # NoTask
    PROVE  /\ actor[a].task.retried <= MaxRetry /\ TaskFits(actor[a].task)
           /\ actor[a].task.kind = "activation" =>
                 /\ actor[a].task.to \in Emails /\ Ready(actor[a].task.to)
                 /\ Carries(a, actor[a].task.to)
           /\ ~Upcoming(a, "token")
  <1>1. PICK r : r = actor[a]
    OBVIOUS
  <1>2. /\ r \in Goroutine /\ Shape(r) /\ TaskFits(r.task)
        /\ r.task.kind = "activation" => Ready(r.email)
    BY <1>1 DEF IInv, ActorsFit, Fits, JInv, ActorsKeep, Keeps
  <1>3. r.todo \in Seq(Statements) /\ Len(r.todo) = 1
    BY <1>1, <1>2 DEF Goroutine, Shape
  <1>4. 1 \in 1..Len(r.todo) /\ Head(r.todo) = r.todo[1]
    BY <1>3
  <1>5. r.todo[1] \in {"chain", "smtp", "clean"} /\ r.email = r.task.to
    BY <1>1, <1>2, <1>4 DEF Shape
  <1>6. ~Storing(r)
    BY <1>4, <1>5 DEF Storing
  <1>7. r.task.kind = "activation" => r.task.to \in Emails
    BY <1>2 DEF TaskFits
  <1>8. r.task.retried <= MaxRetry /\ ~Upcoming(a, "token")
    BY <1>1, <1>2, <1>4, <1>5 DEF Shape, Upcoming
  <1>9. QED
    BY <1>1, <1>2, <1>5, <1>6, <1>7, <1>8 DEF Carries, Holder

\* A mail is accepted: nobody holds it any longer.
LEMMA SendKeeps ==
    ASSUME IInv, JInv, NEW a \in Actors, Send(a)
    PROVE  JInv'
  <1>1. /\ Upcoming(a, "smtp") /\ Accepted(a) /\ Done(a)
        /\ UNCHANGED <<users, tokens, settings, setup, queue, phase, now, used, missed>>
    BY DEF Send, rows
  <1>2. Abandon(a)
    BY <1>1, WorkerStops
  <1>3. Steady
    BY <1>1, SteadyRows
  <1>4. PICK t : t = actor[a].task
    OBVIOUS
  <1>5. PICK e \in Emails : e = actor[a].email /\ e = t.to /\ t # NoTask
    BY <1>1, <1>4, Executing, NextStatement
  <1>6. t.kind = "activation" => Ready(e) /\ Carries(a, e)
    BY <1>4, <1>5, WorkerCarries
  <1>7. \A f \in Emails : \A b \in Actors :
           Carries(b, f)' => Carries(b, f) /\ b # a /\ actor'[b] = actor[b]
    BY <1>2, AbandonPlace
  <1>8. \A f \in Emails :
           /\ inbox[<<f, "activation">>] \in Nat
           /\ inbox'[<<f, "activation">>] =
                 IF f = e /\ t.kind = "activation" THEN inbox[<<f, "activation">>] + 1
                 ELSE inbox[<<f, "activation">>]
    BY <1>1, <1>4, <1>5 DEF Accepted, IInv, Typed, Kinds
  <1>9. ASSUME NEW f \in Emails
        PROVE  MailFits(f)' /\ Single(f)'
    <2>1. MailFits(f) /\ Single(f) /\ OnePlace(f)
      BY DEF JInv, MailsFit, MailFits
    <2>2. StaysPut(f)
      BY <1>1, <1>7, QueueStays DEF StaysPut
    <2>3. OnePlace(f)' /\ (Underway(f)' => Underway(f))
      BY <2>1, <2>2, SamePlace
    <2>4. used.faults \in Nat
      BY DEF JInv, Types
    <2>5. MailFits(f)'
      <3>1. CASE f = e /\ t.kind = "activation"
        <4>1. Underway(f) /\ Ready(f) /\ Carries(a, f)
          BY <1>6, <3>1 DEF Underway
        <4>2. ~Underway(f)'
          BY <1>7, <2>1, <2>2, <4>1 DEF Underway, OnePlace, StaysPut
        <4>3. Ready(f)'
          BY <1>3, <4>1 DEF Ready, Steady
        <4>4. inbox'[<<f, "activation">>] <= used'.faults + 1
          BY <1>1, <1>8, <2>1, <2>4, <3>1, <4>1 DEF MailFits
        <4>5. QED
          BY <2>3, <4>2, <4>3, <4>4 DEF MailFits
      <3>2. CASE ~(f = e /\ t.kind = "activation")
        <4>1. inbox'[<<f, "activation">>] = inbox[<<f, "activation">>]
          BY <1>8, <3>2
        <4>2. inbox[<<f, "activation">>] \in Nat /\ used' = used
          BY <1>1, <1>8
        <4>3. QED
          BY <1>3, <2>1, <2>3, <2>4, <4>1, <4>2, MailKept
      <3>3. QED
        BY <3>1, <3>2
    <2>6. Single(f)'
      BY <1>1, <1>3, <1>7, <2>1, SingleKept
    <2>7. QED
      BY <2>5, <2>6
  <1>10. MailsFit'
    BY <1>9 DEF MailsFit
  <1>11. ActorsKeep'
    BY <1>2, <1>3, AbandonKeeps DEF IInv, JInv
  <1>12. Types'
    BY <1>1 DEF JInv, Types
  <1>13. \A f \in Emails : Registering(f) => Registering(f)'
    <2>1. ~Upcoming(a, "token")
      BY <1>1 DEF Upcoming
    <2>2. QED
      BY <1>2, <2>1, StillRegistering DEF Abandon, IInv
  <1>14. \A f \in Emails : (Known(f)' => Known(f)) /\ users'[f].since = users[f].since
    BY <1>1 DEF Known
  <1>15. QED
    BY <1>1, <1>3, <1>10, <1>11, <1>12, <1>13, <1>14, RestKept

\* A worker takes a task from the queue.
LEMMA TakeKeeps ==
    ASSUME IInv, JInv, NEW a \in Actors, NEW t \in BagToSet(queue), Take(a, t)
    PROVE  JInv'
  <1>1. /\ actor[a] = Idle /\ queue' = queue (-) SetToBag({t}) /\ IsABag(queue)
        /\ UNCHANGED <<users, tokens, settings, setup, inbox, phase, now, used, missed>>
    BY DEF Take, rows, JInv, Types
  <1>2. /\ TaskFits(t) /\ t.retried <= MaxRetry /\ t # NoTask
        /\ t.kind = "activation" => Ready(t.to)
    BY DEF IInv, QueueFits, JInv, QueueKeeps, TaskFits, NoTask, Task
  <1>3. Steady
    BY <1>1, SteadyRows
  <1>4. /\ IsABag(queue') /\ BagToSet(queue') \subseteq BagToSet(queue)
        /\ queue[t] = 1 => t \notin BagToSet(queue')
        /\ \A u \in BagToSet(queue') \ {t} : queue'[u] = queue[u]
    BY <1>1, BagTake
  <1>5. PICK s \in {"chain", "smtp", "clean"} :
           /\ ProcessTask(t.type) = <<s>>
           /\ s = "chain" <=> t.type = "email:activation"
           /\ s = "clean" <=> t.type = "token:cleanup"
    BY <1>2 DEF ProcessTask, TaskFits, Tasks
  <1>6. PICK r : r = [Idle EXCEPT !.email = t.to, !.task = t, !.todo = ProcessTask(t.type)]
    OBVIOUS
  <1>7. r.email = t.to /\ r.task = t /\ r.todo = <<s>>
    BY <1>5, <1>6 DEF Idle
  <1>8. Len(<<s>>) = 1 /\ <<s>>[1] = s /\ <<s>> # << >> /\ \A i \in 1..Len(<<s>>) : i = 1
    OBVIOUS
  <1>9. Keeps(r)
    <2>1. t.kind = "activation" => s # "clean"
      BY <1>2, <1>5 DEF TaskFits
    <2>2. s = "chain" => t.kind = "activation"
      BY <1>2, <1>5 DEF TaskFits
    <2>3. Shape(r)
      BY <1>2, <1>7, <1>8, <2>1, <2>2 DEF Shape
    <2>4. \A i \in 1..Len(r.todo) : KeepsAt(r, i)
      BY <1>7, <1>8 DEF KeepsAt
    <2>5. QED
      BY <1>2, <1>7, <2>3, <2>4 DEF Keeps
  <1>10. Keeps(r)'
    BY <1>1, <1>9 DEF Keeps, KeepsAt, Shape, Ready, SetUpFor, DoneFor, Known, Form, Active
  <1>11. actor' = [actor EXCEPT ![a] = r] /\ actor'[a] = r
    BY <1>6 DEF Take, IInv, ActorsFit
  <1>12. ActorsKeep'
    BY <1>3, <1>10, <1>11, OthersKeep DEF IInv, JInv
  <1>13. \A b \in Actors \ {a} : actor'[b] = actor[b]
    BY <1>11 DEF IInv, ActorsFit
  <1>14. ~Has(r, "settings") /\ ~Has(r, "activation")
    BY <1>7, <1>8 DEF Has
  <1>15. ASSUME NEW f \in Emails
         PROVE  MailFits(f)' /\ Single(f)'
    <2>1. MailFits(f) /\ Single(f) /\ OnePlace(f)
      BY DEF JInv, MailsFit, MailFits
    <2>2. /\ inbox[<<f, "activation">>] \in Nat /\ used.faults \in Nat
      BY DEF IInv, Typed, JInv, Types, Kinds
    <2>3. \A b \in Actors : Carries(b, f)' => b = a \/ Carries(b, f)
      BY <1>13 DEF Carries
    <2>4. \A u : Queued(u, f)' => Queued(u, f)
      BY <1>4 DEF Queued
    <2>5. OnePlace(f)' /\ (Underway(f)' => Underway(f))
      <3>1. CASE Queued(t, f)
        <4>1. queue[t] = 1 /\ \A b \in Actors : ~Carries(b, f)
          BY <2>1, <3>1 DEF OnePlace
        <4>2. \A u : ~Queued(u, f)'
          BY <1>4, <2>1, <2>4, <3>1, <4>1 DEF OnePlace, Queued
        <4>3. OnePlace(f)'
          BY <2>3, <4>1, <4>2 DEF OnePlace
        <4>4. QED
          BY <3>1, <4>3 DEF Underway
      <3>2. CASE ~Queued(t, f)
        <4>1. ~Carries(a, f)'
          BY <1>7, <1>11, <1>14, <3>2 DEF Carries, Holder, Queued
        <4>2. \A u : Queued(u, f)' => queue'[u] = queue[u]
          BY <1>4, <2>4, <3>2 DEF Queued
        <4>3. StaysPut(f)
          BY <2>3, <2>4, <4>1, <4>2 DEF StaysPut
        <4>4. QED
          BY <2>1, <4>3, SamePlace
      <3>3. QED
        BY <3>1, <3>2
    <2>6. MailFits(f)'
      BY <1>1, <1>3, <2>1, <2>2, <2>5, MailKept
    <2>7. \A b \in Actors : Carries(b, f)' /\ Has(actor'[b], "settings") =>
             Carries(b, f) /\ Has(actor[b], "settings")
      BY <1>11, <1>13, <1>14, <2>3
    <2>8. Single(f)'
      BY <1>1, <1>3, <2>1, <2>7, SingleKept
    <2>9. QED
      BY <2>6, <2>8
  <1>16. MailsFit'
    BY <1>15 DEF MailsFit
  <1>17. QueueKeeps'
    BY <1>3, <1>4, QueueKeepsKept DEF IInv, JInv
  <1>18. Types' /\ Dates'
    BY <1>1, <1>4 DEF JInv, Types, Dates
  <1>19. NotLockedOut'
    <2>1. ~Upcoming(a, "token")
      BY <1>1 DEF Upcoming, Idle
    <2>2. \A f \in Emails : Registering(f) => Registering(f)'
      BY <1>11, <2>1, StillRegistering DEF IInv
    <2>3. now \in Nat /\ \A f \in Emails : users[f].since \in Nat
      BY DEF IInv, Typed, Row
    <2>4. QED
      BY <1>1, <1>3, <2>2, <2>3, NotLockedKept DEF JInv, Known
  <1>20. QED
    BY <1>12, <1>16, <1>17, <1>18, <1>19 DEF JInv

-----------------------------------------------------------------------------
(* Failures.                                                                *)

\* A request goes on behind a statement whose failure is logged, or ends.
LEMMA FailsKeeps ==
    ASSUME IInv, JInv, NEW a \in Actors, NEW s, s # "clean", Upcoming(a, s), Fails(a),
           UNCHANGED <<users, tokens, settings, setup, queue, inbox, phase, now>>,
           used' \in [{"requests", "faults", "stops"} -> Nat], used.faults <= used'.faults
    PROVE  JInv'
  <1>1. PICK e \in Emails : e = actor[a].email
    BY Executing
  <1>2. /\ actor[a].todo # << >> /\ Head(actor[a].todo) = s
        /\ actor[a].todo \in Seq(Statements)
    BY DEF Upcoming, IInv, ActorsFit, Goroutine
  <1>3. Steady
    BY SteadyRows DEF Fails
  <1>4. /\ s \in Logged => Done(a) /\ missed' = missed \cup {<<e, s>>}
        /\ s \notin Logged => Abandon(a) /\ missed' = missed \cup Undone(a)
    BY <1>1, <1>2 DEF Fails
  <1>5. s \in Setups \cup {"activate", "user", "oauth_user", "token"} =>
           (s \in Logged <=> s \in Setups)
    BY DEF Logged, Setups
  <1>6. ActorsKeep'
    <2>1. CASE s \in Logged
      <3>1. s # "activate"
        BY <2>1 DEF Logged
      <3>2. Known(e) => SetUpFor(e, s)'
        BY <1>4, <2>1 DEF SetUpFor, DoneFor, Known
      <3>3. QED
        BY <1>1, <1>2, <1>3, <1>4, <2>1, <3>1, <3>2, DoneKeeps DEF IInv, JInv
    <2>2. CASE s \notin Logged
      BY <1>3, <1>4, <2>2, AbandonKeeps DEF IInv, JInv
    <2>3. QED
      BY <2>1, <2>2
  <1>7. ASSUME NEW f \in Emails, NEW b \in Actors, Carries(b, f)'
        PROVE  Carries(b, f) /\ (Has(actor'[b], "settings") => Has(actor[b], "settings"))
    <2>1. CASE s \in Logged
      <3>1. s \notin {"user", "oauth_user"}
        BY <2>1 DEF Logged
      <3>2. QED
        BY <1>2, <1>4, <1>7, <2>1, <3>1, DoneHolds DEF IInv, JInv
    <2>2. CASE s \notin Logged
      <3>1. Carries(b, f) /\ actor'[b] = actor[b]
        BY <1>4, <1>7, <2>2, AbandonPlace
      <3>2. QED
        BY <3>1
    <2>3. QED
      BY <2>1, <2>2
  <1>8. MailsFit'
    <2>1. \A f \in Emails : StaysPut(f)
      BY <1>7, QueueStays DEF StaysPut
    <2>2. used'.faults \in Nat
      OBVIOUS
    <2>3. QED
      BY <1>3, <1>7, <2>1, <2>2, MailsKept
  <1>9. Types'
    BY DEF JInv, Types
  <1>10. ASSUME NEW f \in Emails, Registering(f)
         PROVE  Registering(f)' \/ <<f, "token">> \in missed'
    <2>1. PICK r : actor' = [actor EXCEPT ![a] = r]
      BY <1>2, <1>4, DoneRecord DEF Abandon, IInv
    <2>2. CASE s # "token"
      <3>1. ~Upcoming(a, "token")
        BY <1>2, <2>2 DEF Upcoming
      <3>2. QED
        BY <1>10, <2>1, <3>1, StillRegistering DEF IInv
    <2>3. CASE s = "token"
      <3>1. PICK b \in Actors : actor[b].email = f /\ Upcoming(b, "token")
        BY <1>10 DEF Registering
      <3>2. CASE b = a
        <4>1. ~Inserting(a) /\ s \notin Logged
          BY <1>2, <2>3 DEF Inserting, Upcoming, Logged
        <4>2. 1 \in DOMAIN actor[a].todo /\ actor[a].todo[1] = "token"
          BY <1>2, <2>3
        <4>3. <<f, "token">> \in Undone(a)
          BY <3>1, <3>2, <4>1, <4>2 DEF Undone
        <4>4. QED
          BY <1>4, <4>1, <4>3
      <3>3. CASE b # a
        <4>1. actor'[b] = actor[b]
          BY <2>1, <3>3 DEF IInv, ActorsFit
        <4>2. QED
          BY <3>1, <4>1 DEF Registering, Upcoming
      <3>4. QED
        BY <3>2, <3>3
    <2>4. QED
      BY <2>2, <2>3
  <1>11. \A f \in Emails : (Known(f)' => Known(f)) /\ users'[f].since = users[f].since
    BY DEF Known
  <1>12. QED
    BY <1>3, <1>6, <1>8, <1>9, <1>10, <1>11, RestKept

LEMMA FailureKeeps ==
    ASSUME IInv, JInv, NEW a \in Actors, StatementRefused(a) \/ StatementFails(a)
    PROVE  JInv'
  <1>1. /\ UNCHANGED <<users, tokens, settings, setup, queue, inbox, phase, now>>
        /\ Fails(a) /\ actor[a].todo # << >>
    BY DEF StatementRefused, StatementFails, Inserting, Upcoming, rows
  <1>2. PICK s : Upcoming(a, s)
    BY <1>1 DEF Upcoming
  <1>3. s # "clean"
    <2>1. CASE StatementFails(a)
      BY <1>2, <2>1, NextStatement DEF StatementFails
    <2>2. CASE StatementRefused(a)
      BY <1>2, <2>2 DEF StatementRefused, Inserting, Upcoming
    <2>3. QED
      BY <2>1, <2>2
  <1>4. used' \in [{"requests", "faults", "stops"} -> Nat] /\ used.faults <= used'.faults
    <2>1. CASE StatementFails(a)
      <3>1. Use("faults", MaxFaults)
        BY <2>1 DEF StatementFails, Fault
      <3>2. QED
        BY <3>1, UseTyped
    <2>2. CASE StatementRefused(a)
      BY <2>2 DEF StatementRefused, JInv, Types
    <2>3. QED
      BY <2>1, <2>2
  <1>5. QED
    BY <1>1, <1>2, <1>3, <1>4, FailsKeeps

\* What comes back to the queue of a task that is not done.
LEMMA Requeued ==
    ASSUME NEW t, TaskFits(t), t.retried <= MaxRetry
    PROVE  /\ IsABag(Requeue(t))
           /\ \A u \in BagToSet(Requeue(t)) :
                 /\ u.retried <= MaxRetry /\ u.kind = t.kind /\ u.to = t.to
                 /\ Requeue(t)[u] = 1
                 /\ \A v \in BagToSet(Requeue(t)) : v = u
  <1>1. CASE t.retried < MaxRetry
    <2>1. PICK u : u = [t EXCEPT !.retried = @ + 1]
      OBVIOUS
    <2>2. u.kind = t.kind /\ u.to = t.to /\ u.retried = t.retried + 1 /\ t.retried \in Nat
      BY <2>1 DEF TaskFits, Tasks
    <2>3. u.retried <= MaxRetry
      BY <1>1, <2>2, UsersAssumption
    <2>4. Requeue(t) = SetToBag({u})
      BY <1>1, <2>1 DEF Requeue
    <2>5. IsABag(Requeue(t)) /\ BagToSet(Requeue(t)) = {u} /\ Requeue(t)[u] = 1
      BY <2>4, SingleBag
    <2>6. QED
      BY <2>2, <2>3, <2>5
  <1>2. CASE ~(t.retried < MaxRetry)
    <2>1. Requeue(t) = EmptyBag
      BY <1>2 DEF Requeue
    <2>2. QED
      BY <2>1, SingleBag
  <1>3. QED
    BY <1>1, <1>2

\* A failed task comes back, unless it is given up.
LEMMA TaskFailsKeeps ==
    ASSUME IInv, JInv, NEW a \in Actors, TaskFails(a)
    PROVE  JInv'
  <1>1. PICK t : t = actor[a].task
    OBVIOUS
  <1>2. /\ t # NoTask /\ queue' = queue (+) Requeue(t) /\ Abandon(a)
        /\ missed \subseteq missed' /\ Use("faults", MaxFaults)
        /\ UNCHANGED <<users, tokens, settings, setup, phase, now>>
    BY <1>1 DEF TaskFails, Fault, rows
  <1>3. /\ t.retried <= MaxRetry /\ TaskFits(t) /\ ~Upcoming(a, "token")
        /\ t.kind = "activation" => t.to \in Emails /\ Ready(t.to) /\ Carries(a, t.to)
    BY <1>1, <1>2, WorkerCarries
  <1>4. PICK B : B = Requeue(t)
    OBVIOUS
  <1>5. /\ IsABag(B) /\ queue' = queue (+) B
        /\ \A u \in BagToSet(B) : /\ u.retried <= MaxRetry /\ u.kind = t.kind /\ u.to = t.to
                                  /\ B[u] = 1 /\ \A v \in BagToSet(B) : v = u
    BY <1>2, <1>3, <1>4, Requeued
  <1>6. Steady
    BY <1>2, SteadyRows
  <1>7. ActorsKeep'
    BY <1>2, <1>6, AbandonKeeps DEF IInv, JInv
  <1>8. \A f \in Emails : \A b \in Actors :
           Carries(b, f)' => Carries(b, f) /\ b # a /\ actor'[b] = actor[b]
    BY <1>2, AbandonPlace
  <1>9. ASSUME NEW f \in Emails
        PROVE  Moves(B, f) /\ LetGo(B, f)'
    <2>1. CASE t.kind = "activation" /\ t.to = f
      <3>1. OnePlace(f) /\ Carries(a, f)
        BY <1>3, <2>1 DEF JInv, MailsFit, MailFits
      <3>2. \A b \in Actors : ~Carries(b, f)'
        BY <1>8, <3>1 DEF OnePlace
      <3>3. QED
        BY <1>5, <3>1, <3>2 DEF Moves, LetGo
    <2>2. CASE ~(t.kind = "activation" /\ t.to = f)
      BY <1>5, <2>2 DEF Moves, LetGo
    <2>3. QED
      BY <2>1, <2>2
  <1>10. /\ used' \in [{"requests", "faults", "stops"} -> Nat]
         /\ used.faults <= used'.faults /\ used'.faults = used.faults + 1
    BY <1>2, UseTyped
  <1>11. ASSUME NEW f \in Emails
         PROVE  \/ inbox'[<<f, "activation">>] = inbox[<<f, "activation">>]
                \/ /\ Underway(f) /\ Ready(f)
                   /\ inbox'[<<f, "activation">>] = inbox[<<f, "activation">>] + 1
                   /\ used'.faults = used.faults + 1
    <2>1. CASE inbox' = inbox
      BY <2>1
    <2>2. CASE Upcoming(a, "smtp") /\ Accepted(a)
      <3>1. PICK e \in Emails : e = actor[a].email /\ e = t.to
        BY <1>1, <1>2, <2>2, Executing, NextStatement
      <3>2. inbox'[<<f, "activation">>] =
               IF f = e /\ t.kind = "activation" THEN inbox[<<f, "activation">>] + 1
               ELSE inbox[<<f, "activation">>]
        BY <1>1, <2>2, <3>1 DEF Accepted, IInv, Typed, Kinds
      <3>3. f = e /\ t.kind = "activation" => Underway(f) /\ Ready(f)
        BY <1>3, <3>1 DEF Underway
      <3>4. QED
        BY <1>10, <3>2, <3>3
    <2>3. QED
      BY <2>1, <2>2 DEF TaskFails
  <1>12. \A f \in Emails : Registering(f) => Registering(f)'
    BY <1>2, <1>3, StillRegistering DEF Abandon, IInv
  <1>13. \A f \in Emails : \A b \in Actors :
            Carries(b, f)' =>
               Carries(b, f) /\ (Has(actor'[b], "settings") => Has(actor[b], "settings"))
    BY <1>8
  <1>14. phase' \in {"up", "draining"}
    BY <1>2 DEF JInv, Types
  <1>15. \A u \in BagToSet(B) : /\ u.retried <= MaxRetry
                                /\ u.kind = "activation" => u.to \in Emails /\ Ready(u.to)
    BY <1>3, <1>5
  <1>16. QED
    BY <1>2, <1>5, <1>6, <1>7, <1>9, <1>10, <1>11, <1>12, <1>13, <1>14, <1>15, TasksArrive

\* The process dies: what the workers held goes back, what requests had left is missed.
LEMMA CrashKeeps ==
    ASSUME IInv, JInv, Crash
    PROVE  JInv'
  <1>1. PICK busy : busy = {a \in Actors : actor[a].task # NoTask}
    OBVIOUS
  <1>2. PICK back : back = UNION {BagToSet(Requeue(actor[a].task)) : a \in busy}
    OBVIOUS
  <1>3. PICK B : B = [t \in back |->
                        Cardinality({a \in busy : BagIn(t, Requeue(actor[a].task))})]
    OBVIOUS
  <1>0. PICK left : left = UNION {Undone(a) : a \in Actors \ busy}
    OBVIOUS
  <1>4. /\ queue' = queue (+) B /\ actor' = [a \in Actors |-> Idle] /\ phase' = "up"
        /\ missed \subseteq missed' /\ left \subseteq missed'
        /\ Use("faults", MaxFaults)
        /\ UNCHANGED <<users, tokens, settings, setup, inbox, now>>
    <2>1. missed' = missed \cup (UNION {GivenUp(actor[a].task) : a \in busy}) \cup left
      BY <1>0, <1>1 DEF Crash
    <2>2. missed \subseteq missed' /\ left \subseteq missed'
      BY <2>1
    <2>3. /\ queue' = queue (+) B /\ actor' = [a \in Actors |-> Idle] /\ phase' = "up"
          /\ Use("faults", MaxFaults)
          /\ UNCHANGED <<users, tokens, settings, setup, inbox, now>>
      BY <1>1, <1>2, <1>3 DEF Crash, Fault, rows
    <2>4. QED
      BY <2>2, <2>3
  <1>5. ASSUME NEW a \in busy
        PROVE  /\ a \in Actors
               /\ actor[a].task.kind = "activation" =>
                     /\ actor[a].task.to \in Emails /\ Ready(actor[a].task.to)
                     /\ Carries(a, actor[a].task.to)
               /\ ~Upcoming(a, "token")
               /\ \A u \in BagToSet(Requeue(actor[a].task)) :
                     /\ u.retried <= MaxRetry /\ u.kind = actor[a].task.kind
                     /\ u.to = actor[a].task.to
                     /\ \A v \in BagToSet(Requeue(actor[a].task)) : v = u
    <2>1. PICK t : t = actor[a].task
      OBVIOUS
    <2>2. /\ a \in Actors /\ t.retried <= MaxRetry /\ TaskFits(t) /\ ~Upcoming(a, "token")
          /\ t.kind = "activation" => t.to \in Emails /\ Ready(t.to) /\ Carries(a, t.to)
      BY <1>1, <2>1, WorkerCarries
    <2>3. \A u \in BagToSet(Requeue(t)) :
             /\ u.retried <= MaxRetry /\ u.kind = t.kind /\ u.to = t.to
             /\ \A v \in BagToSet(Requeue(t)) : v = u
      BY <2>2, Requeued
    <2>4. QED
      BY <2>1, <2>2, <2>3
  <1>6. \A u \in back : \E a \in busy : u \in BagToSet(Requeue(actor[a].task))
    BY <1>2
  <1>7. Steady
    BY <1>4, SteadyRows
  <1>8. \A a \in Actors : actor'[a] = Idle
    BY <1>4
  <1>9. ActorsKeep'
    <2>1. Keeps(Idle)'
      BY IdleKeeps DEF Keeps, KeepsAt, Idle, NoTask, Task, Shape
    <2>2. QED
      BY <1>8, <2>1 DEF ActorsKeep, Keeps, KeepsAt, Shape, Ready, SetUpFor, DoneFor, Known,
                        Form, Active
  <1>10. \A f \in Emails : \A b \in Actors : ~Carries(b, f)'
    BY <1>8, IdleKeeps, UsersAssumption DEF Carries, Holder
  <1>11. IsABag(B) /\ BagToSet(B) = back
    <2>1. ASSUME NEW u \in back
          PROVE  B[u] \in {n \in Nat : n > 0}
      <3>1. PICK S : S = {a \in busy : BagIn(u, Requeue(actor[a].task))}
        OBVIOUS
      <3>2. IsFiniteSet(S) /\ S # {}
        <4>1. S \subseteq Actors
          BY <1>1, <3>1
        <4>2. S # {}
          BY <1>6, <3>1 DEF BagIn
        <4>3. QED
          BY <4>1, <4>2, FS_Subset, UsersAssumption
      <3>3. Cardinality(S) \in Nat /\ Cardinality(S) # 0
        BY <3>2, FS_CardinalityType, FS_EmptySet
      <3>4. B[u] = Cardinality(S)
        BY <1>3, <3>1
      <3>5. QED
        BY <3>3, <3>4
    <2>2. DOMAIN B = back /\ B = [u \in back |-> B[u]]
      BY <1>3
    <2>3. QED
      BY <2>1, <2>2 DEF IsABag, BagToSet
  <1>12. ASSUME NEW f \in Emails
         PROVE  Moves(B, f) /\ LetGo(B, f)'
    <2>1. OnePlace(f)
      BY DEF JInv, MailsFit, MailFits
    <2>2. ASSUME NEW u \in back, u.kind = "activation", u.to = f
          PROVE  \E a \in busy :
                    /\ Carries(a, f) /\ u \in BagToSet(Requeue(actor[a].task))
                    /\ \A c \in busy : u \in BagToSet(Requeue(actor[c].task)) => c = a
      <3>1. PICK a \in busy : u \in BagToSet(Requeue(actor[a].task))
        BY <1>6
      <3>2. \A c \in busy : u \in BagToSet(Requeue(actor[c].task)) =>
               c \in Actors /\ Carries(c, f)
        BY <1>5, <2>2
      <3>3. QED
        BY <2>1, <3>1, <3>2 DEF OnePlace
    <2>3. ASSUME NEW u \in back, u.kind = "activation", u.to = f
          PROVE  B[u] = 1
      <3>1. PICK a \in busy :
               /\ u \in BagToSet(Requeue(actor[a].task))
               /\ \A c \in busy : u \in BagToSet(Requeue(actor[c].task)) => c = a
        BY <2>2, <2>3
      <3>2. {c \in busy : BagIn(u, Requeue(actor[c].task))} = {a}
        BY <3>1 DEF BagIn
      <3>3. Cardinality({a}) = 1
        BY FS_Singleton
      <3>4. B[u] = Cardinality({c \in busy : BagIn(u, Requeue(actor[c].task))})
        BY <1>3
      <3>5. QED
        BY <3>2, <3>3, <3>4
    <2>4. ASSUME NEW u \in back, u.kind = "activation", u.to = f,
                 NEW v \in back, v.kind = "activation", v.to = f
          PROVE  u = v
      <3>1. PICK a \in busy : Carries(a, f) /\ u \in BagToSet(Requeue(actor[a].task))
        BY <2>2, <2>4
      <3>2. PICK b \in busy : Carries(b, f) /\ v \in BagToSet(Requeue(actor[b].task))
        BY <2>2, <2>4
      <3>3. a = b
        BY <1>5, <2>1, <3>1, <3>2 DEF OnePlace
      <3>4. QED
        BY <1>5, <3>1, <3>2, <3>3
    <2>5. \A u \in back : u.kind = "activation" /\ u.to = f => \E a \in Actors : Carries(a, f)
      BY <1>5, <2>2
    <2>6. Moves(B, f)
      BY <1>11, <2>3, <2>4, <2>5 DEF Moves
    <2>7. LetGo(B, f)'
      BY <1>10 DEF LetGo
    <2>8. QED
      BY <2>6, <2>7
  <1>13. \A u \in BagToSet(B) : /\ u.retried <= MaxRetry
                                /\ u.kind = "activation" => u.to \in Emails /\ Ready(u.to)
    BY <1>5, <1>6, <1>11
  <1>14. ASSUME NEW f \in Emails, Registering(f)
         PROVE  <<f, "token">> \in missed'
    <2>1. PICK b \in Actors : actor[b].email = f /\ Upcoming(b, "token")
      BY <1>14 DEF Registering
    <2>2. b \in Actors \ busy
      BY <1>5, <2>1
    <2>3. 1 \in DOMAIN actor[b].todo /\ actor[b].todo[1] = "token" /\ ~Inserting(b)
      <3>1. actor[b].todo \in Seq(Statements)
        BY DEF IInv, ActorsFit, Goroutine
      <3>2. QED
        BY <2>1, <3>1 DEF Upcoming, Inserting
    <2>4. <<f, "token">> \in Undone(b)
      BY <2>1, <2>3 DEF Undone
    <2>5. <<f, "token">> \in left
      BY <1>0, <2>2, <2>4
    <2>6. QED
      BY <1>4, <2>5
  <1>15. /\ used' \in [{"requests", "faults", "stops"} -> Nat] /\ used.faults <= used'.faults
         /\ phase' \in {"up", "draining"}
    BY <1>4, UseTyped
  <1>16. \A f \in Emails : inbox'[<<f, "activation">>] = inbox[<<f, "activation">>]
    BY <1>4
  <1>17. QED
    BY <1>4, <1>7, <1>9, <1>10, <1>11, <1>12, <1>13, <1>14, <1>15, <1>16, TasksArrive

-----------------------------------------------------------------------------
(* The process and its environment.                                         *)

\* A step that leaves the tables, the goroutines and the queue alone.
LEMMA ElsewhereKeeps ==
    ASSUME IInv, JInv,
           UNCHANGED <<users, tokens, settings, setup, queue, inbox, actor, missed>>,
           phase' \in {"up", "draining"}, now' \in Nat, now <= now',
           used' \in [{"requests", "faults", "stops"} -> Nat], used.faults <= used'.faults
    PROVE  JInv'
  <1>1. Steady
    BY SteadyRows
  <1>2. ActorsKeep'
    BY <1>1, ActorsKept2 DEF IInv, JInv
  <1>3. \A f \in Emails : \A b \in Actors : Carries(b, f)' => Carries(b, f) /\ actor'[b] = actor[b]
    BY DEF Carries
  <1>4. MailsFit'
    <2>1. \A f \in Emails : StaysPut(f)
      BY <1>3, QueueStays DEF StaysPut
    <2>2. used'.faults \in Nat
      OBVIOUS
    <2>3. QED
      BY <1>1, <1>3, <2>1, <2>2, MailsKept
  <1>5. Types'
    BY DEF JInv, Types
  <1>6. QueueKeeps'
    BY <1>1, QueueKeepsKept DEF IInv, JInv
  <1>7. now \in Nat /\ \A f \in Emails : users[f].since \in Nat
    BY DEF IInv, Typed, Row
  <1>8. Dates'
    <2>1. \A f \in Emails : users'[f].since <= now'
      BY <1>7 DEF JInv, Dates
    <2>2. QED
      BY <2>1 DEF JInv, Dates
  <1>9. NotLockedOut'
    <2>1. \A f \in Emails : Registering(f) => Registering(f)'
      BY DEF Registering, Upcoming
    <2>2. QED
      BY <1>1, <1>7, <2>1, NotLockedKept DEF JInv, Known
  <1>10. QED
    BY <1>2, <1>4, <1>5, <1>6, <1>8, <1>9 DEF JInv

\* The clean-up is no mail.
LEMMA ScheduleKeeps ==
    ASSUME IInv, JInv, Schedule
    PROVE  JInv'
  <1>1. PICK t : t = Task("token:cleanup", Nobody, "none")
    OBVIOUS
  <1>2. /\ t.kind = "none" /\ t.retried = 0 /\ queue' = queue (+) SetToBag({t})
        /\ UNCHANGED <<users, tokens, settings, setup, inbox, actor, phase, now, used, missed>>
    BY <1>1 DEF Schedule, Add, Task, rows
  <1>3. BagToSet(SetToBag({t})) = {t} /\ IsABag(SetToBag({t}))
    BY SingleBag
  <1>4. Steady
    BY <1>2, SteadyRows
  <1>5. ActorsKeep'
    BY <1>2, <1>4, ActorsKept2 DEF IInv, JInv
  <1>6. \A f \in Emails : Moves(SetToBag({t}), f) /\ LetGo(SetToBag({t}), f)'
    BY <1>2, <1>3 DEF Moves, LetGo
  <1>7. \A f \in Emails : \A b \in Actors :
           Carries(b, f)' =>
              Carries(b, f) /\ (Has(actor'[b], "settings") => Has(actor[b], "settings"))
    BY <1>2 DEF Carries
  <1>8. \A f \in Emails : Registering(f) => Registering(f)'
    BY <1>2 DEF Registering, Upcoming
  <1>9. /\ phase' \in {"up", "draining"} /\ used' \in [{"requests", "faults", "stops"} -> Nat]
        /\ used.faults <= used'.faults /\ 0 <= MaxRetry
    BY <1>2, UsersAssumption DEF JInv, Types
  <1>10. \A u \in BagToSet(SetToBag({t})) :
            /\ u.retried <= MaxRetry
            /\ u.kind = "activation" => u.to \in Emails /\ Ready(u.to)
    BY <1>2, <1>3, <1>9
  <1>11. \A f \in Emails : inbox'[<<f, "activation">>] = inbox[<<f, "activation">>]
    BY <1>2
  <1>12. QED
    BY <1>2, <1>3, <1>4, <1>5, <1>6, <1>7, <1>8, <1>9, <1>10, <1>11, TasksArrive

LEMMA EnvironmentKeeps ==
    ASSUME IInv, JInv,
           Stop \/ Restart \/ Schedule \/ Tick \/ (\E e \in Emails : Expire(e)) \/ UNCHANGED vars
    PROVE  JInv'
  <1>1. /\ now \in Nat /\ phase \in {"up", "draining"}
        /\ used \in [{"requests", "faults", "stops"} -> Nat] /\ used.faults <= used.faults
    BY DEF IInv, Typed, JInv, Types
  <1>2. CASE Stop
    <2>1. Use("stops", MaxStops)
      BY <1>2 DEF Stop
    <2>2. used' \in [{"requests", "faults", "stops"} -> Nat] /\ used.faults <= used'.faults
      BY <2>1, UseTyped
    <2>3. QED
      BY <1>1, <1>2, <2>2, ElsewhereKeeps DEF Stop, rows
  <1>3. CASE Restart
    BY <1>1, <1>3, ElsewhereKeeps DEF Restart, rows
  <1>4. CASE Schedule
    BY <1>4, ScheduleKeeps
  <1>5. CASE Tick
    BY <1>1, <1>5, ElsewhereKeeps DEF Tick, rows
  <1>6. CASE \E e \in Emails : Expire(e)
    BY <1>1, <1>6, ElsewhereKeeps DEF Expire, rows
  <1>7. CASE UNCHANGED vars
    BY <1>1, <1>7, ElsewhereKeeps DEF vars, rows
  <1>8. QED
    BY <1>2, <1>3, <1>4, <1>5, <1>6, <1>7

-----------------------------------------------------------------------------
(* The theorems.                                                            *)

LEMMA InitJInv == Init => JInv
  <1> SUFFICES ASSUME Init PROVE JInv
    OBVIOUS
  <1>1. \A e \in Emails : users[e] = NoUser /\ settings[e] = << >> /\ ~Known(e)
    BY DEF Init, Known
  <1>2. IsABag(queue) /\ BagToSet(queue) = {}
    BY SingleBag DEF Init
  <1>3. Types
    BY <1>2 DEF Init, Types
  <1>4. QueueKeeps
    BY <1>2 DEF QueueKeeps
  <1>5. Dates
    BY <1>1 DEF Init, Dates, NoUser
  <1>6. \A a \in Actors : actor[a] = Idle
    BY DEF Init
  <1>7. ActorsKeep
    BY <1>6, IdleKeeps DEF ActorsKeep
  <1>8. \A e \in Emails : (\A a \in Actors : ~Carries(a, e)) /\ (\A t : ~Queued(t, e))
    BY <1>2, <1>6, IdleKeeps, UsersAssumption DEF Carries, Holder, Queued
  <1>9. \A e \in Emails : inbox[<<e, "activation">>] = 0 /\ used.faults = 0
    BY DEF Init, Kinds
  <1>10. MailsFit
    <2>1. ASSUME NEW e \in Emails PROVE MailFits(e) /\ Single(e)
      <3>1. OnePlace(e) /\ ~Underway(e) /\ Single(e)
        BY <1>1, <1>8 DEF OnePlace, Underway, Single
      <3>2. /\ inbox[<<e, "activation">>] <= used.faults + 1
            /\ ~(inbox[<<e, "activation">>] > 0)
        BY <1>9
      <3>3. QED
        BY <3>1, <3>2 DEF MailFits
    <2>2. QED
      BY <2>1 DEF MailsFit
  <1>11. NotLockedOut
    BY <1>1 DEF NotLockedOut
  <1>12. QED
    BY <1>3, <1>4, <1>5, <1>7, <1>10, <1>11 DEF JInv

LEMMA NextKeeps == IInv /\ JInv /\ [Next]_vars => JInv'
  <1> SUFFICES ASSUME IInv, JInv, [Next]_vars PROVE JInv'
    OBVIOUS
  <1>1. CASE \E a \in Actors, e \in Emails : Request(a, e)
    BY <1>1, RequestKeeps
  <1>2. CASE \E a \in Actors, t \in BagToSet(queue) : Take(a, t)
    BY <1>2, TakeKeeps
  <1>3. CASE \E a \in Actors : Statement(a)
    BY <1>3, InsertUserKeeps, InsertTokenKeeps, DefaultKeeps, SetUpKeeps, SessionKeeps,
       RowStatementKeeps, DeleteTokenKeeps, SaveKeeps, EnqueueKeeps, SendKeeps,
       DeleteExpiredKeeps DEF Statement
  <1>4. CASE \E a \in Actors : StatementRefused(a) \/ StatementFails(a)
    BY <1>4, FailureKeeps
  <1>5. CASE \E a \in Actors : TaskFails(a)
    BY <1>5, TaskFailsKeeps
  <1>6. CASE Crash
    BY <1>6, CrashKeeps
  <1>7. CASE \/ Stop \/ Restart \/ Schedule \/ Tick \/ (\E e \in Emails : Expire(e))
             \/ UNCHANGED vars
    BY <1>7, EnvironmentKeeps
  <1>8. QED
    BY <1>1, <1>2, <1>3, <1>4, <1>5, <1>6, <1>7 DEF Next

\* Both invariants hold in every reachable state, for any constants.
THEOREM UsersSetUpInvariant == Spec => [](IInv /\ JInv)
  <1>1. Init => IInv /\ JInv
    BY InitIInv, InitJInv
  <1>2. IInv /\ JInv /\ [Next]_vars => (IInv /\ JInv)'
    BY NextStep, NextKeeps
  <1>3. QED
    BY <1>1, <1>2, PTL DEF Spec

\* Every table, the queue and the goroutines hold what their columns promise; a mail
\* goes to an address, and no task is tried more often than asynq is told.
THEOREM UsersTyped == Spec => []TypeOK
  <1>1. IInv /\ JInv => TypeOK
    <2> SUFFICES ASSUME IInv, JInv PROVE TypeOK
      OBVIOUS
    <2>1. \A t \in BagToSet(queue) : /\ t \in Tasks /\ t.retried <= MaxRetry
                                     /\ t.type = "token:cleanup" \/ t.to \in Emails
      BY DEF IInv, QueueFits, TaskFits, JInv, QueueKeeps
    <2>2. QED
      BY <2>1 DEF IInv, Typed, TokensKnown, ActorsFit, JInv, Types, TypeOK
  <1>2. QED
    BY <1>1, UsersSetUpInvariant, PTL

\* A user who has not activated has a token for a day, whatever fails in activation.
THEOREM UsersNotLockedOut == Spec => []NotLockedOut
  BY UsersSetUpInvariant, PTL DEF JInv

\* Whoever signs in has one row of settings, the categories and the trial, or their
\* failure was logged.
THEOREM UsersReadyAtLogin == Spec => []ReadyAtLogin
  <1>1. IInv /\ JInv => ReadyAtLogin
    <2> SUFFICES ASSUME IInv, JInv, NEW e \in sessions, users[e].via = "form"
                 PROVE  /\ Len(settings[e]) = 1 \/ <<e, "settings">> \in missed
                        /\ \A s \in {"categories", "trial"} : s \in setup[e] \/ <<e, s>> \in missed
      BY DEF ReadyAtLogin
    <2>1. e \in Emails /\ Active(e) /\ Form(e)
      BY DEF IInv, Typed, OnlyOwnersGetIn, Active, Form
    <2>2. Ready(e)
      BY <2>1, ActiveReady
    <2>3. QED
      BY <2>1, <2>2 DEF Ready, SetUpFor, DoneFor, Setups
  <1>2. QED
    BY <1>1, UsersSetUpInvariant, PTL

\* An address gets one activation mail, and one more for each failure at most.
THEOREM UsersOneActivationMail == Spec => []OneActivationMail
  <1>1. IInv /\ JInv => OneActivationMail
    <2> SUFFICES ASSUME IInv, JInv, NEW e \in Emails
                 PROVE  inbox[<<e, "activation">>] <= 1 + used.faults
      BY DEF OneActivationMail
    <2>1. /\ inbox[<<e, "activation">>] \in Nat /\ used.faults \in Nat
          /\ inbox[<<e, "activation">>] <= used.faults + 1
      BY DEF IInv, Typed, Kinds, JInv, Types, MailsFit, MailFits
    <2>2. QED
      BY <2>1
  <1>2. QED
    BY <1>1, UsersSetUpInvariant, PTL

=============================================================================
