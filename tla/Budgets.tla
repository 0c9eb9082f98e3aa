------------------------------- MODULE Budgets -------------------------------
(***************************************************************************)
(* Budgets, and the background work that keeps them up to date: the         *)
(* recalculation of collected_amount after every transaction request, and   *)
(* the daily processing that copies and archives the budgets whose time is  *)
(* over.                                                                    *)
(*                                                                          *)
(* Code: services/budgets/service.go, repositories/budget.go,               *)
(* workers/tasks/budget_update.go and budgets.go, the enqueueing in         *)
(* services/transactions/service.go, and workers/manager.go.  Tasks wait in *)
(* an asynq queue (external): delivered at least once, in any order,        *)
(* retried when the handler fails or the process dies.                      *)
(*                                                                          *)
(* One action is one statement against the database: a request or a task is *)
(* a sequence of steps of the goroutine that runs it.  Names, comments,     *)
(* target amounts and currencies are left out: amounts are in the currency  *)
(* of the budget.                                                           *)
(***************************************************************************)
EXTENDS Integers, Sequences, FiniteSets, Bags, FiniteSetsExt, Functions, Calendar

CONSTANTS
    Users,
    Actors,     \* goroutines: asynq worker slots and request handlers
    Slots,      \* places for rows of the transactions table
    Expenses,   \* the rows a budget may count
    Bodies,     \* request bodies of create and update
    Days,       \* the days the clock shows
    NoExpense,  \* a slot without a row, or whose row no budget counts
    NoUser,     \* the user of a daily task
    MaxRetry,   \* how often a failed task is tried again
    MaxRequests, \* bound: requests of users
    MaxFaults   \* bound: failed statements, failed enqueues and crashes

Periods == {"DAILY", "WEEKLY", "MONTHLY", "YEARLY", "CUSTOM"}
TypeBudgetUserUpdate == "budget:user_update"
TypeBudgetProcessing == "budget:processing"
NoBudget == 0   \* the origin of a budget that is no copy
NoTask == [type |-> "none", user |-> NoUser, retried |-> 0]

ASSUME BudgetsAssumption ==
    /\ NoUser \notin Users
    /\ IsFiniteSet(Actors) /\ IsFiniteSet(Slots)
    /\ NoExpense \notin Expenses
    /\ \A e \in Expenses : /\ e.user \in Users
                           /\ e.date \in Nat /\ e.amount \in Int
    /\ \A b \in Bodies : /\ b.start \in Nat /\ b.end \in Nat
                         /\ b.period \in Periods /\ b.repeat \in BOOLEAN
                         /\ IsFiniteSet(b.categories)
    /\ Days \subseteq Nat /\ Days # {} /\ IsFiniteSet(Days)
    /\ MaxRetry \in Nat /\ MaxRequests \in Nat /\ MaxFaults \in Nat

VARIABLES
    rows,      \* the transactions table: an expense or NoExpense, by slot
    budgets,   \* the budgets table, by id; all columns but collected_amount
    collected, \* budgets.collected_amount, by id
    queue,     \* the bag of tasks waiting in asynq
    actor,     \* what each goroutine is doing
    today,     \* the day the clock shows
    requests,  \* requests so far
    faults,    \* failures so far
    excused    \* history: budgets known to be out of date, see Excuse

vars == <<rows, budgets, collected, queue, actor, today, requests, faults, excused>>

Idle == [at |-> "idle", task |-> NoTask, todo |-> {}, cur |-> NoBudget,
         total |-> 0, failed |-> FALSE]

Init ==
    /\ rows = [s \in Slots |-> NoExpense]
    /\ budgets = << >>
    /\ collected = << >>
    /\ queue = EmptyBag
    /\ actor = [a \in Actors |-> Idle]
    /\ today = Min(Days)
    /\ requests = 0
    /\ faults = 0
    /\ excused = {}

-----------------------------------------------------------------------------
(* repositories/budget.go                                                   *)

\* A budget as a query returned it; it is not read again.
Loaded(i) == [id |-> i, row |-> budgets[i]]

Live(i) == ~budgets[i].deleted

\* GetByUserID with include = "active"
ActiveOf(u) == {i \in DOMAIN budgets : budgets[i].user = u /\ Live(i) /\ ~budgets[i].archived}

\* Faults: archived budgets are processed again; only repeating ones are processed.
OutdatedOrArchived == {i \in DOMAIN budgets : budgets[i].end <= today /\ Live(i)}
OutdatedRepeating == {i \in DOMAIN budgets : /\ budgets[i].end <= today /\ Live(i)
                                              /\ ~budgets[i].archived /\ budgets[i].repeat}

\* end_date is a midnight, so it is before NOW() on the day itself.
GetOutdatedBudgets ==
    {i \in DOMAIN budgets : budgets[i].end <= today /\ Live(i) /\ ~budgets[i].archived}

\* An empty list of categories stands for all of them.
Matches(e, b) ==
    /\ e # NoExpense
    /\ e.user = b.user
    /\ b.start <= e.date /\ e.date < b.end
    /\ b.categories = {} \/ e.category \in b.categories

\* GetExpenseTransactionsForBudget, summed up.
Total(b) == SumFunction([s \in {x \in Slots : Matches(rows[x], b)} |-> rows[s].amount])

-----------------------------------------------------------------------------
(* The queue.                                                               *)

\* Faults: a failed task is not tried again, or each failure counts twice.
RequeueNever(t) == EmptyBag
RequeueTwice(t) == SetToBag({[t EXCEPT !.retried = @ + 2]})

\* A task that failed comes back, until it has been retried MaxRetry times.
Requeue(t) == IF t.retried < MaxRetry
              THEN SetToBag({[t EXCEPT !.retried = @ + 1]}) ELSE EmptyBag

Enqueue(type, u) == queue' = queue (+) SetToBag({[type |-> type, user |-> u, retried |-> 0]})

Fault == faults < MaxFaults /\ faults' = faults + 1

\* The budgets of the user whose task is given up.
GivenUp(t) == IF t.type = TypeBudgetUserUpdate /\ t.retried >= MaxRetry
              THEN ActiveOf(t.user) ELSE {}

\* History: the amounts of budgets S are stale for a reason the code logs.
Excuse(S) == excused' = excused \cup S

-----------------------------------------------------------------------------
(* Requests.                                                                *)

CountRequest == requests < MaxRequests /\ requests' = requests + 1

\* A transaction request of user u writes a row and enqueues a recalculation;
\* an enqueue that fails is logged.
WriteTransaction(u, s, e) ==
    /\ CountRequest
    /\ e # rows[s]
    /\ \A x \in {e, rows[s]} : x # NoExpense => x.user = u
    /\ rows' = [rows EXCEPT ![s] = e]
    /\ \/ Enqueue(TypeBudgetUserUpdate, u) /\ UNCHANGED <<faults, excused>>
       \/ Fault /\ Excuse(ActiveOf(u)) /\ UNCHANGED queue
    /\ UNCHANGED <<budgets, collected, actor, today>>

\* Recalculating a set of loaded budgets on behalf of a task (or of a request).
Recalculating(task, S) == [Idle EXCEPT !.at = "read", !.task = task, !.todo = S]

\* What a request may set; the stored end is the day after the given one.
Columns(body, b) ==
    [b EXCEPT !.start = body.start, !.end = body.end + 1,
              !.categories = body.categories, !.period = body.period, !.repeat = body.repeat]

NewBudget(u, origin) ==
    [user |-> u, start |-> 0, end |-> 0, categories |-> {}, period |-> "CUSTOM",
     repeat |-> FALSE, archived |-> FALSE, deleted |-> FALSE, origin |-> origin]

Create(a, u, body) ==
    LET b == Columns(body, NewBudget(u, NoBudget))
    IN  /\ actor[a] = Idle
        /\ CountRequest
        /\ budgets' = Append(budgets, b)
        /\ collected' = Append(collected, 0)
        /\ actor' = [actor EXCEPT
               ![a] = Recalculating(NoTask, {[id |-> Len(budgets) + 1, row |-> b]})]
        /\ UNCHANGED <<rows, queue, today, faults, excused>>

\* The budgets user u may change: archived ones too.
Mine(u) == {i \in DOMAIN budgets : Live(i) /\ budgets[i].user = u}

Update(a, u, i, body) ==
    LET b == Columns(body, budgets[i])
    IN  /\ actor[a] = Idle
        /\ i \in Mine(u)
        /\ b # budgets[i]
        /\ CountRequest
        /\ budgets' = [budgets EXCEPT ![i] = b]
        /\ actor' = [actor EXCEPT ![a] = Recalculating(NoTask, {[id |-> i, row |-> b]})]
        /\ UNCHANGED <<rows, collected, queue, today, faults, excused>>

Delete(u, i) ==
    /\ i \in Mine(u)
    /\ CountRequest
    /\ budgets' = [budgets EXCEPT ![i].deleted = TRUE]
    /\ UNCHANGED <<rows, collected, queue, actor, today, faults, excused>>

Archive(u, i) ==
    /\ i \in Mine(u) /\ ~budgets[i].archived
    /\ CountRequest
    /\ budgets' = [budgets EXCEPT ![i].archived = TRUE]
    /\ UNCHANGED <<rows, collected, queue, actor, today, faults, excused>>

-----------------------------------------------------------------------------
(* RecalculateCollectedAmounts and recalculateBudget                        *)

\* A worker takes a user_update task and loads the budgets of its user.
RecalculateCollectedAmounts(a, t) ==
    /\ actor[a] = Idle
    /\ BagIn(t, queue) /\ t.type = TypeBudgetUserUpdate
    /\ queue' = queue (-) SetToBag({t})
    /\ \/ /\ actor' = [actor EXCEPT ![a] = Recalculating(t, {Loaded(i) : i \in ActiveOf(t.user)})]
          /\ UNCHANGED faults
       \/ /\ actor' = [actor EXCEPT ![a] = [Recalculating(t, {}) EXCEPT !.failed = TRUE]]
          /\ Fault
    /\ UNCHANGED <<rows, budgets, collected, today, requests, excused>>

\* Sum the rows in the window of a budget, as it was loaded.
ReadRows(a) ==
    /\ actor[a].at = "read"
    /\ \E b \in actor[a].todo :
          /\ actor' = [actor EXCEPT ![a].at = "write", ![a].cur = b.id,
                                    ![a].total = Total(b.row), ![a].todo = @ \ {b}]
          /\ excused' = excused \ {b.id}
    /\ UNCHANGED <<rows, budgets, collected, queue, today, requests, faults>>

UpdateCollectedAmount(a) ==
    /\ actor[a].at = "write"
    /\ collected' = [collected EXCEPT ![actor[a].cur] = actor[a].total]
    /\ actor' = [actor EXCEPT ![a].at = "read", ![a].cur = NoBudget, ![a].total = 0]
    /\ UNCHANGED <<rows, budgets, queue, today, requests, faults, excused>>

\* A query or an update fails: logged, and the next budget is tried.
RecalculateFails(a) ==
    /\ Fault
    /\ \/ /\ actor[a].at = "read"
          /\ \E b \in actor[a].todo :
                /\ actor' = [actor EXCEPT ![a].todo = @ \ {b}, ![a].failed = TRUE]
                /\ IF actor[a].task = NoTask THEN Excuse({b.id}) ELSE UNCHANGED excused
       \/ /\ actor[a].at = "write"
          /\ actor' = [actor EXCEPT ![a].at = "read", ![a].cur = NoBudget,
                                    ![a].total = 0, ![a].failed = TRUE]
          /\ IF actor[a].task = NoTask THEN Excuse({actor[a].cur}) ELSE UNCHANGED excused
    /\ UNCHANGED <<rows, budgets, collected, queue, today, requests>>

\* The handler returns: an error sends the task back to the queue.
Return(a) ==
    LET t == actor[a].task
    IN  /\ actor[a].at \in {"read", "copy"} /\ actor[a].todo = {}
        /\ actor' = [actor EXCEPT ![a] = Idle]
        /\ IF actor[a].failed /\ t # NoTask
           THEN queue' = queue (+) Requeue(t) /\ Excuse(GivenUp(t))
           ELSE UNCHANGED <<queue, excused>>
        /\ UNCHANGED <<rows, budgets, collected, today, requests, faults>>

-----------------------------------------------------------------------------
(* DailyProcessing                                                          *)

\* Fault: the end is moved by 30 days instead of a month.
CalculateNewDatesBy30(b) ==
    IF b.period = "MONTHLY" THEN <<AddDate(b.start, 0, 1, 0), b.end + 30>>
    ELSE <<b.end, b.end + (b.end - b.start)>>

CalculateNewDates(b) ==
    LET shifted(years, months, days) ==
            <<AddDate(b.start, years, months, days), AddDate(b.end, years, months, days)>>
    IN  CASE b.period = "DAILY"   -> shifted(0, 0, 1)
          [] b.period = "WEEKLY"  -> shifted(0, 0, 7)
          [] b.period = "MONTHLY" -> shifted(0, 1, 0)
          [] b.period = "YEARLY"  -> shifted(1, 0, 0)
          [] OTHER -> <<b.end, b.end + (b.end - b.start)>>

\* A worker takes a processing task, or an administrator asks for a run.
DailyProcessing(a, t) ==
    /\ actor[a] = Idle
    /\ \/ t = NoTask /\ UNCHANGED queue
       \/ /\ BagIn(t, queue) /\ t.type = TypeBudgetProcessing
          /\ queue' = queue (-) SetToBag({t})
    /\ \/ /\ actor' = [actor EXCEPT ![a] =
                 [Idle EXCEPT !.at = "copy", !.task = t,
                              !.todo = {Loaded(i) : i \in GetOutdatedBudgets}]]
          /\ UNCHANGED faults
       \/ /\ actor' = [actor EXCEPT ![a] =
                 [Idle EXCEPT !.at = "copy", !.task = t, !.failed = TRUE]]
          /\ Fault
    /\ UNCHANGED <<rows, budgets, collected, today, requests, excused>>

\* A repeating budget is copied before it is archived.  The copy starts with
\* nothing collected and is not recalculated.
CreateCopy(a) ==
    /\ actor[a].at = "copy"
    /\ \E b \in actor[a].todo :
          LET dates == CalculateNewDates(b.row)
              copy  == [b.row EXCEPT !.start = dates[1], !.end = dates[2],
                                     !.archived = FALSE, !.deleted = FALSE, !.origin = b.id]
          IN  /\ actor' = [actor EXCEPT ![a].at = "archive", ![a].cur = b.id,
                                        ![a].todo = @ \ {b}]
              /\ IF b.row.repeat
                 THEN /\ budgets' = Append(budgets, copy)
                      /\ collected' = Append(collected, 0)
                      /\ Excuse({Len(budgets) + 1})
                 ELSE UNCHANGED <<budgets, collected, excused>>
    /\ UNCHANGED <<rows, queue, today, requests, faults>>

ArchiveOutdated(a) ==
    /\ actor[a].at = "archive"
    /\ budgets' = [budgets EXCEPT ![actor[a].cur].archived = TRUE]
    /\ actor' = [actor EXCEPT ![a].at = "copy", ![a].cur = NoBudget]
    /\ UNCHANGED <<rows, collected, queue, today, requests, faults, excused>>

\* Creating the copy or archiving fails: logged, and the next budget is tried.
ProcessingFails(a) ==
    /\ Fault
    /\ \/ /\ actor[a].at = "copy"
          /\ \E b \in actor[a].todo : /\ b.row.repeat
                                      /\ actor' = [actor EXCEPT ![a].todo = @ \ {b}]
       \/ /\ actor[a].at = "archive"
          /\ actor' = [actor EXCEPT ![a].at = "copy", ![a].cur = NoBudget]
    /\ UNCHANGED <<rows, budgets, collected, queue, today, requests, excused>>

-----------------------------------------------------------------------------
\* The process dies: requests are lost, tasks in progress go back to the queue.
Crash ==
    LET task(a)  == actor[a].task
        busy     == {a \in Actors : task(a) # NoTask}
        back     == UNION {BagToSet(Requeue(task(a))) : a \in busy}
        asking   == {a \in Actors : task(a) = NoTask /\ actor[a].at \in {"read", "write"}}
    IN  /\ Fault
        /\ \E a \in Actors : actor[a] # Idle
        /\ queue' = queue (+) [t \in back |-> Cardinality({a \in busy : BagIn(t, Requeue(task(a)))})]
        /\ Excuse((UNION {GivenUp(task(a)) : a \in busy})
                  \cup (UNION {{b.id : b \in actor[a].todo} \cup ({actor[a].cur} \ {NoBudget}) : a \in asking}))
        /\ actor' = [a \in Actors |-> Idle]
        /\ UNCHANGED <<rows, budgets, collected, today, requests>>

\* The cron entry of manager.go; it fires again only when its task has started.
Schedule ==
    /\ \A t \in BagToSet(queue) : t.type # TypeBudgetProcessing
    /\ Enqueue(TypeBudgetProcessing, NoUser)
    /\ UNCHANGED <<rows, budgets, collected, actor, today, requests, faults, excused>>

Tick ==
    /\ \E d \in Days : d > today /\ today' = d
    /\ UNCHANGED <<rows, budgets, collected, queue, actor, requests, faults, excused>>

Request ==
    \E u \in Users :
        \/ \E s \in Slots, e \in Expenses \cup {NoExpense} : WriteTransaction(u, s, e)
        \/ \E a \in Actors, body \in Bodies :
              \/ Create(a, u, body)
              \/ \E i \in DOMAIN budgets : Update(a, u, i, body)
        \/ \E i \in DOMAIN budgets : Delete(u, i) \/ Archive(u, i)

Start(a) == \E t \in BagToSet(queue) : RecalculateCollectedAmounts(a, t) \/ DailyProcessing(a, t)

\* A statement of a running request or task that succeeds.
Step(a) == \/ ReadRows(a) \/ UpdateCollectedAmount(a)
           \/ CreateCopy(a) \/ ArchiveOutdated(a)
           \/ Return(a)

Next ==
    \/ Request
    \/ \E a \in Actors :
          \/ Start(a) \/ DailyProcessing(a, NoTask)
          \/ Step(a) \/ RecalculateFails(a) \/ ProcessingFails(a)
    \/ Crash
    \/ Schedule
    \/ Tick

Spec == Init /\ [][Next]_vars

\* A running goroutine goes on; asynq serves its queues by weight, so that every
\* waiting task is taken at some time; and cron goes on firing.
Fairness ==
    /\ \A a \in Actors : WF_vars(Step(a))
    /\ SF_vars(\E a \in Actors, t \in BagToSet(queue) : RecalculateCollectedAmounts(a, t))
    /\ SF_vars(\E a \in Actors, t \in BagToSet(queue) : DailyProcessing(a, t))
    /\ WF_vars(Schedule)

FairSpec == Spec /\ Fairness

=============================================================================
