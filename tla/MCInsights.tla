------------------------------ MODULE MCInsights ------------------------------
(* Instances of Reports and Planning for TLC.  The parts share constants    *)
(* and rates but no property relates them, so that a behaviour takes one:   *)
(* "trees" the categories, "rows" categories and the ledger, "reports"      *)
(* rates and reports under way, "plans" planned transactions.               *)
EXTENDS Insights

CONSTANTS ann, bob, dailyTask, Parts
VARIABLE part

allVars == <<vars, part>>

MCDefaults == << [name |-> 1, parent |-> 0, isIncome |-> FALSE],
                 [name |-> 2, parent |-> 1, isIncome |-> FALSE] >>

TwoToOne == [USD |-> 1, EUR |-> 2]
NoEuros  == [USD |-> 1]
MCTables == {TwoToOne, NoEuros}

Expense(category, at, amount, currency) ==
    [category |-> category, at |-> at, amount |-> amount, currency |-> currency,
     isIncome |-> FALSE, isTransfer |-> FALSE, isAdjustment |-> FALSE,
     excluded |-> FALSE, hidden |-> FALSE]

Converted == {Expense(1, Later(1), 120, "USD"), Expense(2, Later(2), 6, "USD")}
MCRows == Converted \cup
    {Expense(1, Midnight(2), 60, "EUR"), Expense(2, Later(1), 1, "USD"),
     Expense(3, Midnight(1), 6, "USD"),
     [Expense(1, Midnight(3), 600, "USD") EXCEPT !.excluded = TRUE],
     [Expense(0, Later(2), 6, "USD") EXCEPT !.isIncome = TRUE, !.isTransfer = TRUE]}

Report(kind, last, filter) == [kind |-> kind, first |-> 1, last |-> last, filter |-> filter]
MCRequests ==
    {Report(kind, 2, {}) : kind \in {"cashflow", "diagram", "export"}}
    \cup {Report("expenses", 1, {2}), Report("data", 2, {2})}

Rule(frequency, interval, count, last, dayOfMonth) ==
    [frequency |-> frequency, interval |-> interval, count |-> count, last |-> last,
     dayOfMonth |-> dayOfMonth]
Plan(amount, date, rule) == [amount |-> amount, isIncome |-> amount = 7, date |-> date, rule |-> rule]

MCPlans ==
    {Plan(7, 32, Once),
     Plan(7, 25, Rule("monthly", 1, Unset, Unset, 31)),
     Plan(2, 20, Rule("weekly", 0, 3, Unset, Unset)),
     Plan(2, 28, Rule("daily", 5, Unset, 50, Unset)),
     Plan(2, 15, Rule("monthly", 2, 2, Unset, 5)),
     Plan(2, 33, Rule("yearly", 1, Unset, Unset, Unset)),
     Plan(2, 30, Rule("often", 1, Unset, Unset, Unset))}

MCHoldings ==
    {[user |-> ann, balance |-> 10, currency |-> "EUR", hidden |-> FALSE, inReports |-> TRUE],
     [user |-> ann, balance |-> 4, currency |-> "USD", hidden |-> TRUE, inReports |-> TRUE]}

MCInit ==
    /\ InitCats /\ InitReports /\ InitPlanning
    /\ part \in Parts
    /\ part # "plans" => base = [u \in Planners |-> "EUR"]
    /\ import = [i \in Importers |-> NoImport] /\ imports = 0
    /\ IF part = "plans" THEN rates \in {[d \in RateDays |-> table] : table \in {NoTable, TwoToOne}}
                         ELSE rates = [d \in RateDays |-> NoTable]

\* Bounds: rows and categories come before the reports and the rates; an update keeps
\* the plan or makes it one of two.
Before == report = NoReport /\ imports = 0

Revisions == {Plan(7, 25, Rule("monthly", 1, Unset, Unset, 31)),
              Plan(2, 28, Rule("daily", 5, Unset, 50, Unset))}

UpdatesKeepOr(plans) == update'.id # 0 => update'.row.plan \in plans \cup {planned[update'.id].plan}

CategoriesStep ==
    /\ \/ part = "trees" /\ CategoriesNext
       \/ part = "rows" /\ rows = << >> /\ edits = 0 /\ CategoriesNext
       \/ part = "reports" /\ Before /\ SetUpCategories(Reader)
    /\ UNCHANGED <<rateVars, reportVars, planVars>>

LedgerStep ==
    /\ \/ part = "rows" /\ RowStep
       \/ part = "reports" /\ Before /\ \E row \in Converted : AddRow(row)
    /\ UNCHANGED <<catVars, rateVars, planVars>>

MCNext ==
    /\ \/ CategoriesStep
       \/ LedgerStep
       \/ part = "reports" /\ ReportStep /\ UNCHANGED <<catVars, rateVars, planVars>>
       \/ part = "reports" /\ RatesStep /\ UNCHANGED <<catVars, planVars>>
       \/ /\ part = "plans" /\ PlanningNext /\ UpdatesKeepOr(Revisions)
          /\ UNCHANGED <<catVars, rateVars, reportVars>>
    /\ UNCHANGED part

MCSpec == MCInit /\ [][MCNext]_allVars

=============================================================================
