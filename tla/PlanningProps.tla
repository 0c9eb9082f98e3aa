----------------------------- MODULE PlanningProps -----------------------------
(***************************************************************************)
(* What the occurrences and the projections of module Planning promise.     *)
(***************************************************************************)
EXTENDS Planning

CONSTANTS
    Targets,     \* days after today that balances are asked for
    Starts       \* days before today that projections start

\* Rows and the update under way are of the types of their columns.
PlanningTypeOK ==
    /\ \A id \in DOMAIN planned :
          /\ planned[id].user \in Planners /\ planned[id].currency \in Currencies
          /\ planned[id].plan \in PlanInputs
          /\ {planned[id].active, planned[id].deleted} \subseteq BOOLEAN
    /\ base \in [Planners -> Currencies]
    /\ today \in FirstToday..(FirstToday + MaxDays)
    /\ update.id \in {0} \cup DOMAIN planned
    /\ planEdits \in 0..MaxPlanEdits

\* How often `plan' has come round on day d, or Unset if it does not fall on it.
Turn(plan, d) ==
    LET rule     == plan.rule
        interval == IF rule.interval < 1 THEN 1 ELSE rule.interval
        turn(distance, onDay) == IF onDay /\ distance >= 0 /\ distance % interval = 0
                                 THEN distance \div interval ELSE Unset
        months(e)== 12 * Year[e] + Month[e]
        asked    == IF rule.dayOfMonth = Unset THEN DayOfMonth(plan.date) ELSE rule.dayOfMonth
    IN  CASE rule.frequency = "daily"   -> turn(d - plan.date, TRUE)
          [] rule.frequency = "weekly"  -> turn((d - plan.date) \div 7, (d - plan.date) % 7 = 0)
          [] rule.frequency = "monthly" -> turn(months(d) - months(plan.date),
                 DayOfMonth(d) = asked \/ (asked > DayOfMonth(d) /\ DayOfMonth(d + 1) = 1))
          [] rule.frequency = "yearly"  -> turn(Year[d] - Year[plan.date],
                 <<Month[d], DayOfMonth(d)>> = <<Month[plan.date], DayOfMonth(plan.date)>>)
          [] OTHER                      -> IF d = plan.date THEN 0 ELSE Unset

\* The days a plan falls on, without following it turn by turn.
Expected(plan, first, last) ==
    {d \in first..last :
        IF plan.rule = Once THEN d = plan.date
        ELSE LET n == Turn(plan, d)
             IN  /\ n # Unset /\ n < MaxIterations
                 /\ plan.rule.count # Unset => n < plan.rule.count
                 /\ plan.rule.last # Unset => d <= plan.rule.last}

\* A plan that starts on a day every month has falls on exactly the days its rule
\* says: the right turns, clamped to the ends of short months, none lost before the
\* range, none beyond the rule's end or count.  (generateOccurrences,
\* services/planned_transactions/occurrences.go:37.  From January 31 the code adds a
\* month and lands in March, so that plans of days 29 to 31 skip short months.)
OccurrencesMatchRule ==
    \A id \in DOMAIN planned, t \in Targets, s \in Starts :
        LET plan == planned[id].plan
        IN  DayOfMonth(plan.date) <= 28 =>
                generateOccurrences(plan, today - s, today + t) = Expected(plan, today - s, today + t)

\* The two services agree: a projection that starts today or earlier shows at each of
\* its points from today on, whatever the period, the future balance of that day,
\* unless rates are missing altogether.  (financial_planning/service.go:50 and 195.)
ProjectionMatchesFuture ==
    \A u \in {planned[id].user : id \in DOMAIN planned}, t \in Targets, all \in BOOLEAN :
        LET future == [p \in today..(today + t) |-> CalculateFutureBalance(u, p, all, all)]
        IN  \A s \in Starts, period \in {"daily", "weekly", "monthly"} :
                LET projection == GetBalanceProjection(u, today - s, today + t, period, all, all)
                IN  projection # NoExchangeRates =>
                        \A p \in DOMAIN projection \cap DOMAIN future : projection[p] = future[p]

\* What a user has deleted is never listed nor expected again, though an update that
\* was under way may write is_active back.  (Update and Delete of
\* services/planned_transactions.)
DeletedNeverUpcoming ==
    \A u \in Planners, t \in Targets, all \in BOOLEAN :
        \A id \in List(u, all) \cup {o.id : o \in GetUpcoming(u, t, all)} : ~planned[id].deleted

=============================================================================
