------------------------------- MODULE Planning -------------------------------
(***************************************************************************)
(* Planned transactions, the occurrences their rules of recurrence make of  *)
(* them, and the balances projected from those.                             *)
(*                                                                          *)
(* Code: services/planned_transactions, services/financial_planning and     *)
(* their handlers; the accounts are those of a moment, the rates those of   *)
(* module Rates.                                                            *)
(*                                                                          *)
(* Days are day numbers of module Calendar; time zones are left out.  An    *)
(* edit reads the row, and writes all of it back in a later step.           *)
(***************************************************************************)
EXTENDS Rates, Calendar, SequencesExt

CONSTANTS
    Planners,    \* users with planned transactions
    Currencies,  \* currencies a user may choose as base currency
    Holdings,    \* accounts: [user, balance, currency, hidden, inReports]
    PlanInputs,  \* what a request may plan: [amount, isIncome, date, rule]
    FirstToday,  \* the day the behaviours start on
    MaxIterations, \* occurrences a rule is followed for (1000 in the code)
    MaxPlans,    \* bound: rows ever planned
    MaxPlanEdits,\* bound: updates and deletions ever asked for
    MaxDays      \* bound: days that pass

ASSUME PlanningAssumption ==
    /\ FirstToday \in Int /\ MaxIterations \in Nat
    /\ {MaxPlans, MaxPlanEdits, MaxDays} \subseteq Nat

VARIABLES
    planned,     \* planned_transactions; id is the position
    base,        \* users.base_currency_id
    today,       \* the day it is
    update,      \* the update under way: [id, row], or NoUpdate
    planEdits    \* bound: how many updates and deletions have been asked for

planVars == <<planned, base, today, update, planEdits>>

Unset     == -1  \* a NULL in a rule
Once      == [frequency |-> "once"]  \* no rule, or is_recurring false
NoUpdate  == [id |-> 0]
EndDateBeforeStart == "end before start"

InitPlanning ==
    /\ planned = << >>
    /\ base \in [Planners -> Currencies]
    /\ today = FirstToday
    /\ update = NoUpdate
    /\ planEdits = 0

-----------------------------------------------------------------------------
(* Requests.                                                                *)

CreatePlanned(u, input) ==
    /\ Len(planned) < MaxPlans
    /\ planned' = Append(planned, [user |-> u, currency |-> base[u], active |-> TRUE,
                                   deleted |-> FALSE, plan |-> input])
    /\ UNCHANGED <<base, today, update, planEdits>>

\* GetByID shows live rows; the service then compares the user.
MayEditPlan(u, id) == ~planned[id].deleted /\ planned[id].user = u

PlanEdit == planEdits < MaxPlanEdits /\ planEdits' = planEdits + 1

\* isActive holds a flag or nothing: then the row keeps the one that was read.
UpdatePlanned(u, id, input, isActive) ==
    /\ PlanEdit
    /\ MayEditPlan(u, id)
    /\ update = NoUpdate
    /\ update' = [id |-> id, row |-> [planned[id] EXCEPT !.plan = input,
                                 !.active = IF isActive = {} THEN @ ELSE TRUE \in isActive]]
    /\ UNCHANGED <<planned, base, today>>

\* is_deleted is not among the columns written.
SavePlanned ==
    /\ update # NoUpdate
    /\ planned' = [planned EXCEPT ![update.id] = [update.row EXCEPT !.deleted = planned[update.id].deleted]]
    /\ update' = NoUpdate
    /\ UNCHANGED <<base, today, planEdits>>

DeletePlanned(u, id) ==
    /\ PlanEdit
    /\ MayEditPlan(u, id)
    /\ planned' = [planned EXCEPT ![id].deleted = TRUE, ![id].active = FALSE]
    /\ UNCHANGED <<base, today, update>>

\* Rows planned before keep their currency.
ChooseBase(u, c) ==
    /\ base' = [base EXCEPT ![u] = c]
    /\ UNCHANGED <<planned, today, update, planEdits>>

NextDay ==
    /\ today < FirstToday + MaxDays
    /\ today' = today + 1
    /\ UNCHANGED <<planned, base, update, planEdits>>

Create(u) == \E input \in PlanInputs : CreatePlanned(u, input)

Update(u) == \E id \in DOMAIN planned, input \in PlanInputs, isActive \in {{}, {TRUE}, {FALSE}} :
                 UpdatePlanned(u, id, input, isActive)

Delete(u) == \E id \in DOMAIN planned : DeletePlanned(u, id)

PlanRequest(u) ==
    \/ Create(u)
    \/ Update(u)
    \/ Delete(u)
    \/ \E c \in Currencies : ChooseBase(u, c)

PlanningNext == (\E u \in Planners : PlanRequest(u)) \/ SavePlanned \/ NextDay

-----------------------------------------------------------------------------
(* Occurrences: the days a plan falls on.                                   *)

LastDayOfMonth(d) == DayOfMonth(DayNumber(Year[d], Month[d] + 1, 0))

\* Fault: a day the month does not have falls into the next one.
unclamped(d, day) == DayNumber(Year[d], Month[d], day)

adjustDayOfMonth(d, day) ==
    DayNumber(Year[d], Month[d], IF day > LastDayOfMonth(d) THEN LastDayOfMonth(d) ELSE day)

\* The next turn of a rule.  A month added to the 31st may skip the month after.
Advance(rule, d) ==
    LET interval == IF rule.interval < 1 THEN 1 ELSE rule.interval
    IN  CASE rule.frequency = "daily"   -> AddDate(d, 0, 0, interval)
          [] rule.frequency = "weekly"  -> AddDate(d, 0, 0, 7 * interval)
          [] rule.frequency = "monthly" -> AddDate(d, 0, interval, 0)
          [] rule.frequency = "yearly"  -> AddDate(d, interval, 0, 0)

Frequencies == {"daily", "weekly", "monthly", "yearly"}

\* Occurrences before `first' count, but are not returned.
generateOccurrences(plan, first, last) ==
    LET rule == plan.rule
        end  == IF rule.last # Unset /\ rule.last < last THEN rule.last ELSE last
        day(d) == IF rule.frequency = "monthly" /\ rule.dayOfMonth # Unset
                  THEN adjustDayOfMonth(d, rule.dayOfMonth) ELSE d
        from[d \in Int, n \in 0..MaxIterations] ==
            IF n = MaxIterations \/ day(d) > end \/ (rule.count # Unset /\ n >= rule.count) THEN {}
            ELSE {e \in {day(d)} : first <= e}
                 \cup (IF rule.frequency \in Frequencies THEN from[Advance(rule, d), n + 1] ELSE {})
    IN  IF rule = Once THEN {plan.date} \cap first..last ELSE from[plan.date, 0]

\* The list shows executed rows too; nothing executes a row.
List(u, includeInactive) ==
    {id \in DOMAIN planned : /\ planned[id].user = u /\ ~planned[id].deleted
                             /\ includeInactive \/ planned[id].active}

\* Fault: that a row is deleted is taken from is_active.
onlyActive(u, includeInactive) ==
    {id \in DOMAIN planned : planned[id].user = u /\ (includeInactive \/ planned[id].active)}

GetActiveByUserID(u, includeInactive) ==
    {id \in DOMAIN planned : /\ planned[id].user = u /\ ~planned[id].deleted
                             /\ includeInactive \/ planned[id].active}

GenerateOccurrencesForTxs(ids, first, last) ==
    UNION {{[id |-> id, day |-> d] : d \in generateOccurrences(planned[id].plan, first, last)} : id \in ids}

GetUpcoming(u, days, includeInactive) ==
    GenerateOccurrencesForTxs(GetActiveByUserID(u, includeInactive), today, today + days)

-----------------------------------------------------------------------------
(* Balances.  Both services convert at the rates of an occurrence's day,    *)
(* the balances of the accounts at those of today.                          *)

Accounts(u, includeHidden) ==
    {a \in Holdings : a.user = u /\ a.inReports /\ (includeHidden \/ ~a.hidden)}

InBase(u, amount, currency, d) ==
    ConvertToBaseCurrency(amount, currency, base[u], getAllRatesWithFallback(d))

OccurrenceInBase(u, o) == InBase(u, planned[o.id].plan.amount, planned[o.id].currency, o.day)

\* What the occurrences add to the balance; those without a rate are skipped.
Net(u, occurrences) ==
    MapThenSumSet(LAMBDA o : IF planned[o.id].plan.isIncome THEN OccurrenceInBase(u, o)
                             ELSE -OccurrenceInBase(u, o),
                  {o \in occurrences : IsAmount(OccurrenceInBase(u, o))})

\* An account without a rate counts with its own amount.
CurrentBalance(u, includeHidden) ==
    MapThenSumSet(LAMBDA a : LET v == InBase(u, a.balance, a.currency, today)
                             IN  IF IsAmount(v) THEN v ELSE a.balance, Accounts(u, includeHidden))

\* The rates table is empty for something that is to be converted.
NoRates(u, occurrences, includeHidden) ==
    \/ \E o \in occurrences : OccurrenceInBase(u, o) = NoExchangeRates
    \/ \E a \in Accounts(u, includeHidden) : InBase(u, a.balance, a.currency, today) = NoExchangeRates

CalculateFutureBalance(u, target, includeInactive, includeHidden) ==
    LET days == IF target > today THEN target - today ELSE 0
        occurrences == GetUpcoming(u, days, includeInactive)
    IN  IF NoRates(u, occurrences, includeHidden) THEN NoExchangeRates
        ELSE CurrentBalance(u, includeHidden) + Net(u, occurrences)

\* Sunday is 0; day 1 is a Monday.
Weekday(d) == d % 7

generateDatePoints(first, last, period) ==
    LET monday == first + (IF Weekday(first) = 1 THEN 7 ELSE (8 - Weekday(first)) % 7)
    IN  CASE period = "weekly"  -> {first, last} \cup {d \in monday..last : Weekday(d) = 0}
          [] period = "monthly" -> {first, last} \cup
                 {d \in first..last : DayOfMonth(d + 1) = 1 /\ Month[d] # Month[first]}
          [] OTHER              -> first..last

\* Fault: a period starts with the point before.
fromThePointBefore(points, p, d) ==
    \A q \in points : (q < p => q <= d) /\ (p <= q => d <= q)

\* A period starts on the day after the point before.
InPeriod(points, p, d) ==
    \A q \in points : (q < p => q < d) /\ (p <= q => d <= q)

\* The window of occurrences is as long as the projection, but begins today.
GetBalanceProjection(u, first, last, period, includeInactive, includeHidden) ==
    LET points      == generateDatePoints(first, last, period)
        occurrences == GetUpcoming(u, last - first, includeInactive)
        in(p)       == {o \in occurrences : first <= o.day /\ InPeriod(points, p, o.day)}
        net         == [p \in points |-> Net(u, in(p))]
        current     == CurrentBalance(u, includeHidden)
    IN  IF first > last THEN EndDateBeforeStart
        ELSE IF NoRates(u, UNION {in(p) : p \in points}, includeHidden) THEN NoExchangeRates
        ELSE [p \in points |-> current + MapThenSumSet(LAMBDA q : net[q], {q \in points : q <= p})]

=============================================================================
