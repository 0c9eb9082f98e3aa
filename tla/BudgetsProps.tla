---------------------------- MODULE BudgetsProps ----------------------------
(***************************************************************************)
(* What makes the budgets of module Budgets correct.                        *)
(***************************************************************************)
EXTENDS Budgets

Task == [type : {TypeBudgetUserUpdate}, user : Users, retried : 0..MaxRetry]
        \cup [type : {TypeBudgetProcessing}, user : {NoUser}, retried : 0..MaxRetry]

\* Every variable holds a value of its column's type, tasks are never retried
\* more often than allowed, and goroutines refer to budgets that exist.
TypeOK ==
    /\ rows \in [Slots -> Expenses \cup {NoExpense}]
    /\ \A i \in DOMAIN budgets :
          /\ budgets[i].user \in Users
          /\ budgets[i].start \in Int /\ budgets[i].end \in Int
          /\ budgets[i].period \in Periods
          /\ budgets[i].origin \in 0..(i - 1)
    /\ collected \in Seq(Int) /\ DOMAIN collected = DOMAIN budgets
    /\ IsABag(queue) /\ BagToSet(queue) \subseteq Task
    /\ \A a \in Actors :
          /\ actor[a].at \in {"idle", "read", "write", "copy", "archive"}
          /\ actor[a].task \in Task \cup {NoTask}
          /\ \A b \in actor[a].todo : b.id \in DOMAIN budgets
          /\ actor[a].cur \in DOMAIN budgets \cup {NoBudget}
    /\ today \in Days
    /\ requests \in 0..MaxRequests /\ faults \in 0..MaxFaults
    /\ excused \subseteq DOMAIN budgets

Shown(u) == {i \in DOMAIN budgets : budgets[i].user = u /\ Live(i) /\ ~budgets[i].archived}

Fresh(i) == collected[i] = Total(budgets[i])

Queued(u) == \E t \in BagToSet(queue) : t.type = TypeBudgetUserUpdate /\ t.user = u

\* When no work is waiting or running for a user, the collected amount of every
\* active budget is the sum of the rows in its window, unless a failure the code
\* logged or a copy made since then says otherwise.
FreshWhenIdle ==
    (\A a \in Actors : actor[a] = Idle) =>
        \A u \in Users : Queued(u) \/ \A i \in Shown(u) : Fresh(i) \/ i \in excused

Copies(i) == {j \in DOMAIN budgets : budgets[j].origin = i}

\* A budget whose time is over is copied once; only a failure between the copy
\* and the archiving can make the next run copy it again ("duplicate budget may
\* exist", services/budgets/service.go:251).
SingleCopy == \A i \in DOMAIN budgets : Cardinality(Copies(i)) <= 1 + faults

\* The end of a period that starts on day d.
PeriodEnd(period, d) ==
    CASE period = "DAILY"   -> AddDate(d, 0, 0, 1)
      [] period = "WEEKLY"  -> AddDate(d, 0, 0, 7)
      [] period = "MONTHLY" -> AddDate(d, 0, 1, 0)
      [] period = "YEARLY"  -> AddDate(d, 1, 0, 0)

\* A budget whose window is exactly one period, starting on a day the months or
\* years to come have too.  (No request is refused for ending before it starts.)
OnePeriod(b) ==
    IF b.period = "CUSTOM" THEN b.start < b.end
    ELSE /\ b.end = PeriodEnd(b.period, b.start)
         /\ b.period \in {"MONTHLY", "YEARLY"} => DayOfMonth(b.start) <= 28

\* The copy of such a budget continues it without a gap or an overlap, and is
\* one period long again, so that a chain of copies covers every day once.
CopyContinues ==
    [][\A j \in DOMAIN budgets' \ DOMAIN budgets :
          LET i == budgets'[j].origin
          IN  i # NoBudget /\ OnePeriod(budgets[i]) =>
                 /\ budgets'[j].start = budgets[i].end
                 /\ OnePeriod(budgets'[j])
                 /\ budgets'[j].end > budgets'[j].start]_vars

Outdated(i) == budgets[i].end <= today /\ Live(i) /\ ~budgets[i].archived

\* Every budget whose time is over is archived in the end (or deleted, or given
\* a new end), whatever fails on the way, because the next daily run tries again:
\* there is a later moment when no such budget is left.
OutdatedArchived ==
    (\E i \in DOMAIN budgets : Outdated(i)) ~> (\A i \in DOMAIN budgets : ~Outdated(i))

\* "The stale collected_amount will be self-healing on the next transaction CRUD"
\* (services/budgets/service.go:84): once a recalculation is waiting, the user's
\* active budgets are all up to date at some later moment.
SelfHealing == \A u \in Users : Queued(u) ~> \A i \in Shown(u) : Fresh(i)

=============================================================================
