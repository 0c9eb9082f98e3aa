----------------------------- MODULE ReportsProps -----------------------------
(***************************************************************************)
(* What the lists of categories, the reports and the export promise.        *)
(***************************************************************************)
EXTENDS Reports

\* Row i of R, converted with one table.
ConvertedWith(table, R, i) == ConvertToBaseCurrency(R[i].amount, R[i].currency, Base, table)

\* The type invariant of the categories, the rates and the report under way.
ReportsTypeOK ==
    /\ cats \in Seq(CategoryRow) /\ edits \in 0..MaxEdits
    /\ rates \in [RateDays -> Tables \cup {NoTable}]
    /\ \A i \in Importers : import[i] = NoImport
                            \/ {import[i].next, import[i].last} \subseteq RateDays
    /\ rows \in Seq(Row)
    /\ report # NoReport => report.todo \cup DOMAIN report.value \subseteq DOMAIN report.rows

\* Whatever users do to their categories (a parent that is deleted, foreign or the
\* row itself, rings of parents), the flat list and the grouped list of one user show
\* the same rows, each once and after its parent: the live ones from which parents
\* lead through live rows of the user to a root.  (GetFlat and GetGrouped,
\* services/categories/service.go:30 and 93.)
TreesAgree ==
    \A u \in CatUsers :
    LET own    == {c \in DOMAIN cats : cats[c].user = u /\ ~cats[c].deleted}
        flat   == GetFlat(cats, u)
        shown  == ToSet(flat)
        groups == GetGrouped(cats, u)
        up[n \in 0..Len(cats)] ==
            IF n = 0 THEN {c \in own : cats[c].parent = NoCategory}
            ELSE up[n - 1] \cup {c \in own : cats[c].parent \in up[n - 1]}
    IN  /\ shown = up[Len(cats)]
        /\ shown = groups.income \cup groups.expenses
        /\ groups.income \cap groups.expenses = {}
        /\ Len(flat) = Cardinality(shown)
        /\ \A j \in DOMAIN flat : cats[flat[j]].parent \in {NoCategory} \cup {flat[i] : i \in 1..(j - 1)}

\* The expenses of all periods of a cash flow.
ExpensesOf(flow) == MapThenSumSet(LAMBDA key : flow[key].expenses, DOMAIN flow)

\* The three reports on expenses tell the same total, with any table of rates, for
\* any range and any filter, and never more than the cash flow: the list counts roots
\* and their children, the other two roll up children, hide zeros and merge what is
\* small.  (ExpensesByCategories, DiagramData, ExpensesData and CashFlowReport.)
TotalsAgree ==
    rows # << >> =>
    \A table \in Tables, request \in {r \in Requests : r.kind = "data"} :
    LET S       == GetByUserIDBetween(rows, request.first, request.last)
        v(kind, filter) == [i \in Selected(kind, cats, rows, S, filter) |-> ConvertedWith(table, rows, i)]
        list(filter)    == SumOf(ExpensesByCategories(cats, rows, v("expenses", filter), filter))
        flow    == CashFlowReport(rows, v("cashflow", {}), "monthly")
        daily   == CashFlowReport(rows, v("cashflow", {}), "daily")
    IN  /\ list(request.filter) = SumOf(ExpensesData(cats, rows, v("data", request.filter)))
        /\ list({}) = SumOf(DiagramData(cats, rows, v("diagram", {})))
        /\ list({}) <= ExpensesOf(flow)
        /\ ExpensesOf(flow) = ExpensesOf(daily)

\* Two ranges that follow each other miss nothing of the range they make up, and only
\* a row of the midnight between them is in both; the export has no row the report of
\* the same range lacks, and lacks, of the rows it is about, only those of the last day.
\* (MakeEndDateInclusive, dateutil/dateutil.go:34, and GetForExport.)
RangesCover ==
    rows # << >> =>
    \A first, last \in RateDays :
    LET all == GetByUserIDBetween(rows, first, last)
        exported == GetForExport(rows, first, last)
    IN  /\ \A m \in first..(last - 1) :
              LET before == GetByUserIDBetween(rows, first, m)
                  after  == GetByUserIDBetween(rows, m + 1, last)
              IN  /\ before \cup after = all
                  /\ \A i \in before \cap after : rows[i].at = Midnight(m + 1)
        /\ exported \subseteq all
        /\ \A i \in all \ exported :
              \/ rows[i].at > Midnight(last)
              \/ rows[i].isTransfer \/ rows[i].isAdjustment \/ rows[i].excluded

\* The amounts a report shows were converted with one table, and one that was that
\* day's while the report was made, however rates change meanwhile.  (getTransactionAmount
\* with its RateCache, services/currency/rate_cache.go:29.)
ReportOfOneMoment ==
    Finished /\ report.kind # "export" =>
        \E table \in answers \cup {NoTable} : \A i \in DOMAIN report.value :
            report.value[i] = ConvertedWith(table, report.rows, i)

=============================================================================
