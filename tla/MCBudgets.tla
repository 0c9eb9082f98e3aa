----------------------------- MODULE MCBudgets -----------------------------
(* Instances of Budgets for TLC.                                            *)
EXTENDS BudgetsProps

CONSTANTS alice, bob, worker1, worker2, row1

Day(m, d) == DayNumber(2024, m, d)

Expense(u, d, amount) == [user |-> u, date |-> d, category |-> 1, amount |-> amount]

Body(from, to, categories, period, repeat) ==
    [start |-> from, end |-> to, categories |-> categories, period |-> period,
     repeat |-> repeat]

\* Expenses of one user on the leap day and after it.
AliceExpenses == {Expense(alice, Day(2, 29), 1), Expense(alice, Day(3, 3), 2)}

\* A budget for February that repeats and counts every category, one that goes
\* on into March and counts one, and repeating ones of the other periods.
MCBodies == {Body(Day(2, 1), Day(2, 29), {}, "MONTHLY", TRUE),
             Body(Day(2, 29), Day(3, 3), {1}, "CUSTOM", FALSE),
             Body(Day(3, 3), Day(3, 3), {}, "DAILY", TRUE),
             Body(Day(2, 26), Day(3, 3), {}, "WEEKLY", TRUE),
             Body(DayNumber(2023, 3, 4), Day(3, 3), {}, "YEARLY", TRUE)}
MCDays == {Day(2, 29), Day(3, 5)}
=============================================================================
