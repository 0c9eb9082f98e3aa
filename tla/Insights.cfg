CONSTANTS
    ann = ann
    bob = bob
    dailyTask = dailyTask
    Parts = {"trees", "rows", "reports", "plans"}
    RateDays = {1, 2}
    Importers = {dailyTask}
    Tables <- MCTables
    NoTable = NoTable
    NoExchangeRates = NoExchangeRates
    RateMissing = RateMissing
    MaxImports = 2
    CatUsers = {ann, bob}
    Defaults <- MCDefaults
    Names = {2}
    MaxCats = 4
    MaxEdits = 2
    Reader = ann
    Base = "EUR"
    Requests <- MCRequests
    RowInputs <- MCRows
    MaxRows = 2
    MaxReports = 1
    Planners = {ann}
    Currencies = {"EUR", "USD"}
    Holdings <- MCHoldings
    PlanInputs <- MCPlans
    FirstToday = 30
    MaxIterations = 40
    MaxPlans = 1
    MaxPlanEdits = 2
    MaxDays = 1
    Targets = {32}
    Starts = {0, 9}
SPECIFICATION MCSpec
INVARIANTS TypeOK TreesAgree TotalsAgree RangesCover ReportOfOneMoment
INVARIANTS OccurrencesMatchRule ProjectionMatchesFuture 
CHECK_DEADLOCK FALSE
