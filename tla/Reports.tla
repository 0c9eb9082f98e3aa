------------------------------- MODULE Reports -------------------------------
(***************************************************************************)
(* The reports and the export: what a user is told about the rows of the    *)
(* transactions table, converted to the user's currency while categories,   *)
(* rows and exchange rates go on changing.                                  *)
(*                                                                          *)
(* Code: services/reports, services/export, the queries of the transactions *)
(* repository they use, and their handlers.                                 *)
(*                                                                          *)
(* A report reads the categories, then the rows, then the rates row by row; *)
(* these are its steps.  Labels, colours and the order of what is shown are *)
(* left out, and so is the balance report (see Ledger).                     *)
(***************************************************************************)
EXTENDS Categories, Rates, Calendar

CONSTANTS
    Reader,      \* the user whose reports are looked at
    Base,        \* the currency of that user
    Requests,    \* the reports asked for
    RowInputs,   \* rows the ledger may hold for the user
    MaxRows,     \* bound: rows ever inserted
    MaxReports   \* bound: reports ever asked for

Kinds == {"cashflow", "expenses", "diagram", "data", "export"}

Row == [category : Nat, at : Int, amount : Nat, currency : STRING, isIncome : BOOLEAN,
        isTransfer : BOOLEAN, isAdjustment : BOOLEAN, excluded : BOOLEAN, hidden : BOOLEAN]

ASSUME ReportsAssumption ==
    /\ Reader \in CatUsers
    /\ \A request \in Requests : request.kind \in Kinds
    /\ RowInputs \subseteq Row
    /\ {MaxRows, MaxReports} \subseteq Nat

VARIABLES
    rows,        \* transactions of the user; id is the position
    report,      \* the report under way
    reports,     \* bound: how many reports have been asked for
    answers      \* history: the tables the rates of the report's day have been
                 \* since it was asked for

reportVars == <<rows, report, reports, answers>>

\* Instants: midnight of a day, and some time later on that day.
Midnight(d) == 2 * d
Later(d)    == 2 * d + 1
DayOf(at)   == at \div 2

NoReport == [kind |-> "none"]

InitReports ==
    /\ rows = << >>
    /\ report = NoReport
    /\ reports = 0
    /\ answers = {}

\* A row of services/transactions; `hidden' when it or its account is deleted.
AddRow(row) ==
    /\ Len(rows) < MaxRows
    /\ rows' = Append(rows, row)
    /\ UNCHANGED <<report, reports, answers>>

HideRow(i) ==
    /\ ~rows[i].hidden
    /\ rows' = [rows EXCEPT ![i].hidden = TRUE]
    /\ UNCHANGED <<report, reports, answers>>

-----------------------------------------------------------------------------
(* Which rows R a report from day first to day last reads.                  *)

\* Fault: the end is not made inclusive.
EndExclusive(last) == Midnight(last)

\* The end is compared with the midnight that follows the last day, inclusively.
MakeEndDateInclusive(last) == Midnight(last + 1)

GetByUserIDBetween(R, first, last) ==
    {i \in DOMAIN R : /\ ~R[i].hidden
                      /\ Midnight(first) <= R[i].at
                      /\ R[i].at <= MakeEndDateInclusive(last)}

\* The export's query: its last day ends as it begins.
GetForExport(R, first, last) ==
    {i \in DOMAIN R : /\ ~R[i].hidden /\ ~R[i].isTransfer /\ ~R[i].isAdjustment /\ ~R[i].excluded
                      /\ Midnight(first) <= R[i].at /\ R[i].at <= Midnight(last)}

Counted(row) == ~row.excluded /\ ~row.isTransfer

\* Rows the three reports by category can count.
Spent(row) == Counted(row) /\ ~row.isIncome /\ row.category # NoCategory

ExpenseCategories(C) == {c \in GetByUserID(C, Reader) : ~C[c].isIncome}
ExpenseRoots(C) == {c \in ExpenseCategories(C) : C[c].parent = NoCategory}

PassesFilter(C, c, filter) == filter = {} \/ c \in filter \/ C[c].parent \in filter

\* Roots and their direct children only.
FlatCategories(C, filter) ==
    {c \in ExpenseCategories(C) : /\ C[c].parent \in {NoCategory} \cup ExpenseRoots(C)
                                  /\ PassesFilter(C, c, filter)}

\* The rows whose amounts a report converts.
Selected(kind, C, R, S, filter) ==
    CASE kind = "cashflow" -> {i \in S : Counted(R[i])}
      [] kind = "expenses" -> {i \in S : Spent(R[i]) /\ R[i].category \in FlatCategories(C, filter)}
      [] kind = "diagram"  -> {i \in S : Spent(R[i])}
      [] kind = "data"     -> {i \in S : /\ Spent(R[i])
                                         /\ \/ filter = {}
                                            \/ /\ R[i].category \in ExpenseCategories(C)
                                               /\ PassesFilter(C, R[i].category, filter)}
      [] kind = "export"   -> S

-----------------------------------------------------------------------------
(* What is told: v are the amounts of the rows, converted.  A row without   *)
(* one is skipped.                                                          *)

Total(S, v) == MapThenSumSet(LAMBDA i : v[i], {i \in S : IsAmount(v[i])})

SumOf(entries) == MapThenSumSet(LAMBDA p : entries[p], DOMAIN entries)

ExpensesByCategories(C, R, v, filter) ==
    [c \in FlatCategories(C, filter) |-> Total({i \in DOMAIN v : R[i].category = c}, v)]

\* A category of expenses counts for its parent, whatever that is; in the end only
\* roots of expenses with a total are kept.
aggregateChildrenIntoParents(C, R, v) ==
    LET totals == [p \in ExpenseRoots(C) |->
                      Total({i \in DOMAIN v : /\ R[i].category \in ExpenseCategories(C)
                                              /\ p \in {R[i].category, C[R[i].category].parent}}, v)]
    IN  [p \in {q \in DOMAIN totals : totals[q] # 0} |-> totals[p]]

\* Fault: what is too small is dropped.
dropSmall(entries) ==
    LET small == {p \in DOMAIN entries : 50 * entries[p] < SumOf(entries)}
    IN  [p \in (DOMAIN entries) \ small |-> entries[p]]

\* Entries below two percent of a positive total become one, "Other".
applyOtherThreshold(entries) ==
    LET small == {p \in DOMAIN entries : 50 * entries[p] < SumOf(entries)}
        other == SumOf([p \in small |-> entries[p]])
    IN  IF SumOf(entries) <= 0 THEN entries
        ELSE [p \in ((DOMAIN entries) \ small) \cup (IF other > 0 THEN {NoCategory} ELSE {}) |->
                 IF p = NoCategory THEN other ELSE entries[p]]

DiagramData(C, R, v) == applyOtherThreshold(aggregateChildrenIntoParents(C, R, v))

ExpensesData(C, R, v) == applyOtherThreshold(aggregateChildrenIntoParents(C, R, v))

\* By day or by month, all other periods included.
PeriodKey(period, at) ==
    IF period = "daily" THEN DayOf(at) ELSE 12 * Year[DayOf(at)] + Month[DayOf(at)]

CashFlowReport(R, v, period) ==
    LET in(key, income) == Total({i \in DOMAIN v : /\ PeriodKey(period, R[i].at) = key
                                                   /\ R[i].isIncome = income}, v)
    IN  [key \in {PeriodKey(period, R[i].at) : i \in {j \in DOMAIN v : IsAmount(v[j])}} |->
            [income |-> in(key, TRUE), expenses |-> in(key, FALSE),
             net |-> in(key, TRUE) - in(key, FALSE)]]

-----------------------------------------------------------------------------
(* A report under way.  `todo' are the rows it has still to convert, `value' *)
(* what it has converted, `cache' the table it has fetched.                 *)

AskFor(request) ==
    /\ report = NoReport
    /\ reports < MaxReports
    /\ reports' = reports + 1
    /\ report' = [kind |-> request.kind, first |-> request.first, last |-> request.last,
                  filter |-> request.filter, cats |-> cats, rows |-> << >>, read |-> FALSE,
                  todo |-> {}, value |-> << >>, cache |-> NoTable, failed |-> FALSE]
    /\ answers' = {getAllRatesWithFallback(request.first)}
    /\ UNCHANGED rows

ReadRows ==
    LET r == report
        S == IF r.kind = "export" THEN GetForExport(rows, r.first, r.last)
             ELSE GetByUserIDBetween(rows, r.first, r.last)
    IN  /\ r # NoReport
        /\ ~r.read
        /\ report' = [r EXCEPT !.read = TRUE, !.rows = rows,
                               !.todo = Selected(r.kind, r.cats, rows, S, r.filter)]
        /\ UNCHANGED <<rows, reports, answers>>

\* ORDER BY date_time DESC
Latest(R, S) == CHOOSE i \in S : \A j \in S : R[j].at < R[i].at \/ (R[j].at = R[i].at /\ j <= i)

\* Fault: no cache.
Refetched(cached, d) == getAllRatesWithFallback(d)

\* Errors are not cached.
GetRatesForDate(cached, d) == IF cached # NoTable THEN cached ELSE getAllRatesWithFallback(d)

\* The amounts told so far, and that of row i.
Told(v, i, amount) == [j \in {i} \cup DOMAIN v |-> IF j = i THEN amount ELSE v[j]]

\* Rows in the user's own currency need no rates.
getTransactionAmount ==
    LET r     == report
        i     == Latest(r.rows, r.todo)
        own   == r.rows[i].currency = Base
        table == IF own THEN r.cache ELSE GetRatesForDate(r.cache, r.first)
        value == ConvertToBaseCurrency(r.rows[i].amount, r.rows[i].currency, Base, table)
    IN  /\ r # NoReport /\ r.kind # "export" /\ r.todo # {}
        /\ report' = [r EXCEPT !.cache = table, !.value = Told(@, i, value),
                               !.failed = value = NoExchangeRates,
                               !.todo = IF value = NoExchangeRates THEN {} ELSE @ \ {i}]
        /\ UNCHANGED <<rows, reports, answers>>

\* ORDER BY date_time ASC
Earliest(R, S) == CHOOSE i \in S : \A j \in S : R[i].at < R[j].at \/ (R[i].at = R[j].at /\ i <= j)

\* The export converts every row with the rates of its own day, as they are now.
GenerateExcel ==
    LET r == report
        i == Earliest(r.rows, r.todo)
    IN  /\ r # NoReport /\ r.kind = "export" /\ r.todo # {}
        /\ report' = [r EXCEPT !.todo = @ \ {i},
                               !.value = Told(@, i, ConvertAmount(r.rows[i].amount, r.rows[i].currency,
                                                                  Base, DayOf(r.rows[i].at)))]
        /\ UNCHANGED <<rows, reports, answers>>

Finished == report # NoReport /\ report.read /\ report.todo = {}

Respond ==
    /\ Finished
    /\ report' = NoReport
    /\ answers' = {}
    /\ UNCHANGED <<rows, reports>>

ReportStep ==
    \/ \E request \in Requests : AskFor(request)
    \/ ReadRows
    \/ getTransactionAmount
    \/ GenerateExcel
    \/ Respond

RowStep ==
    \/ \E row \in RowInputs : AddRow(row)
    \/ \E i \in DOMAIN rows : HideRow(i)

\* The rates change: what would a report of that day be converted with now?
RatesStep ==
    /\ RatesNext
    /\ UNCHANGED <<rows, report, reports>>
    /\ answers' = answers \cup
           IF report = NoReport THEN {} ELSE {getAllRatesWithFallback(report.first)'}

ReportsInit == InitCats /\ InitRates /\ InitReports

ReportsNext ==
    \/ CategoriesNext /\ UNCHANGED <<rateVars, reportVars>>
    \/ (ReportStep \/ RowStep) /\ UNCHANGED <<catVars, rateVars>>
    \/ RatesStep /\ UNCHANGED catVars

=============================================================================
