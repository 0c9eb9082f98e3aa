---------------------------- MODULE Subscriptions ----------------------------
(***************************************************************************)
(* The subscription of one user, and the Stripe subscription that pays it.  *)
(*                                                                          *)
(* Code: services/subscription/service.go, services/payment/service.go and  *)
(* webhook_handler.go, repositories/subscription.go,                        *)
(* workers/tasks/subscription.go.  Stripe is external: it is modelled by    *)
(* what the code asks of it and by the events it reports.                   *)
(*                                                                          *)
(* A request, a webhook delivery and a scheduled job are goroutines.  Each  *)
(* reads the two rows of the user (and talks to Stripe), then writes back   *)
(* one row after the other, with no database transaction around it.  All    *)
(* handlers work on the rows of one user, so one user is enough.            *)
(*                                                                          *)
(* Left out: prices and credit, the columns nothing else reads              *)
(* (current_billing_period_id, subscribed_at, auto_renew), prices Stripe    *)
(* knows and the program does not, and the selection of accounts to keep,   *)
(* which is stored but never applied: nobody                                *)
(* calls SetArchivers.                                                      *)
(***************************************************************************)
EXTENDS Integers, Sequences, FiniteSets, SequencesExt

CONSTANTS
    Actors,           \* goroutines
    StripeIds,        \* ids of Stripe subscriptions, 1..n
    Days,             \* the length of each plan's period, 0 if it has none
    TrialDays,        \* the configured length of a trial
    InOrder,          \* does Stripe deliver events in order?
    TrialMayFail,     \* may the creation of the trial fail at registration?
    MaxNow,           \* bound: the clock
    MaxRequests,      \* bound: requests of the user, here and at Stripe
    MaxErrors,        \* bound: statements that fail
    MaxCrashes,       \* bound: crashes of the process
    MaxRepeats        \* bound: events delivered twice

Plans == {"free", "trial", "monthly", "yearly"}
PremiumPlans == {"monthly", "yearly"}
PlanType(p) == IF p \in PremiumPlans THEN "premium" ELSE p
NoPlan == "none"
Null == 0    \* a NULL time, and a NULL id

ASSUME SubscriptionsAssumption ==
    /\ IsFiniteSet(Actors)
    /\ StripeIds = 1..Cardinality(StripeIds) /\ IsFiniteSet(StripeIds)
    /\ Days \in [Plans -> Nat]
    /\ \A p \in Plans : p \in PremiumPlans <=> Days[p] > 0
    /\ TrialDays \in Nat
    /\ {InOrder, TrialMayFail} \subseteq BOOLEAN
    /\ {MaxNow, MaxRequests, MaxErrors, MaxCrashes, MaxRepeats} \subseteq Nat
    /\ MaxNow > 0

VARIABLES
    sub,      \* the row of subscriptions, or NoSub
    psub,     \* the row of payment_provider_subscriptions, or NoProvider
    actor,    \* what each goroutine has left to do
    stripe,   \* external: Stripe's subscriptions
    sessions, \* external: plans with an open checkout session
    events,   \* external: events Stripe has not delivered
    now,      \* the clock
    used,     \* bound: how many requests, errors, crashes, repeats so far
    granted,  \* history: the latest time anybody was promised premium until
    leaving   \* history: a downgrade to free was asked for since the last payment

vars == <<sub, psub, actor, stripe, sessions, events, now, used, granted, leaving>>
external == <<stripe, sessions, events>>

Sub == [plan : Plans, trialEnds : Nat, expires : Nat,
        canceled : BOOLEAN, active : BOOLEAN, pending : Plans \cup {NoPlan}]
NoSub == [plan |-> NoPlan, trialEnds |-> Null, expires |-> Null,
          canceled |-> FALSE, active |-> FALSE, pending |-> NoPlan]
NewSub(p) == [NoSub EXCEPT !.plan = p, !.active = TRUE]

\* external_customer_id, external_subscription_id, external_schedule_id,
\* last_payment_failed
Provider == [customer : BOOLEAN, link : StripeIds \cup {Null}, schedule : Nat, failed : BOOLEAN]
NoProvider == [customer |-> FALSE, link |-> Null, schedule |-> Null, failed |-> TRUE]
NewProvider == [NoProvider EXCEPT !.customer = TRUE, !.failed = FALSE]

StripeSub == [status : {"none", "active", "past_due", "canceled"}, plan : Plans, end : Nat,
              atEnd : BOOLEAN, schedule : Nat, next : Plans]
NoStripeSub == [status |-> "none", plan |-> "free", end |-> Null,
                atEnd |-> FALSE, schedule |-> Null, next |-> "free"]

Event(type, id) == [type |-> type, id |-> id, plan |-> "free", end |-> Null,
                    atEnd |-> FALSE, status |-> "none"]
NoEvent == Event("none", Null)

Idle == [op |-> "idle", event |-> NoEvent, writes |-> << >>]

\* At registration; when it fails, the user is registered without a row.
CreateTrialSubscription == [NewSub("trial") EXCEPT !.trialEnds = 1 + TrialDays]

Init ==
    /\ sub \in {CreateTrialSubscription} \cup IF TrialMayFail THEN {NoSub} ELSE {}
    /\ psub = NoProvider
    /\ actor = [a \in Actors |-> Idle]
    /\ stripe = [x \in StripeIds |-> NoStripeSub]
    /\ sessions = {}
    /\ events = << >>
    /\ now = 1
    /\ used = [requests |-> 0, errors |-> 0, crashes |-> 0, repeats |-> 0]
    /\ granted = 0
    /\ leaving = FALSE

Use(what, bound) == used[what] < bound /\ used' = [used EXCEPT ![what] = @ + 1]
Request == Use("requests", MaxRequests)
Promise(t) == granted' = IF t > granted THEN t ELSE granted

-----------------------------------------------------------------------------
(* What the repository and the service make of the rows.                    *)

HasStripeSubscription == psub.link # Null

Expired(t) == t # Null /\ t < now

GetEffectivePlanType(s) ==
    IF \/ s.plan = "trial" /\ Expired(s.trialEnds)
       \/ s.plan \in PremiumPlans /\ Expired(s.expires)
    THEN "free" ELSE PlanType(s.plan)

\* The writes of a goroutine: a whole row, the few columns of Update, a new row,
\* or the opening of a checkout session.
Save(s) == [to |-> "sub", row |-> s]
Update(s) == [to |-> "some", row |-> s]
Insert(s) == [to |-> "new", row |-> s]
SaveProvider(r) == [to |-> "psub", row |-> r]
InsertProvider(r) == [to |-> "new_psub", row |-> r]
Open(p) == [to |-> "session", row |-> [plan |-> p]]

Start(a, op, event, writes) ==
    /\ actor[a] = Idle
    /\ actor' = [actor EXCEPT ![a] = [op |-> op, event |-> event, writes |-> writes]]
    /\ UNCHANGED <<sub, psub, now>>

\* A request that leaves Stripe alone.
StartRequest(a, op, writes) ==
    /\ Start(a, op, NoEvent, writes)
    /\ Request
    /\ UNCHANGED external

-----------------------------------------------------------------------------
(* services/subscription                                                    *)

\* An expired trial is downgraded when the user asks for the status.
GetStatus(a) ==
    /\ sub.plan = "trial" /\ Expired(sub.trialEnds)
    /\ Start(a, "GetStatus", NoEvent, <<Update([sub EXCEPT !.plan = "free", !.active = TRUE])>>)
    /\ UNCHANGED <<external, used, granted, leaving>>

validatePlanTransition(from, to) ==
    from # to /\ to # "trial" /\ ~(from \in {"trial", "premium"} /\ to = "free")

\* Fault: the new period is not given an end.
SubscribedWithoutEnd(s, p) == [s EXCEPT !.plan = p, !.active = TRUE]

\* A plan without a period leaves the old end in place.
Subscribed(s, p) ==
    [s EXCEPT !.plan = p, !.active = TRUE,
              !.expires = IF Days[p] > 0 THEN now + Days[p] ELSE @]

Upgrade(a, p) ==
    /\ IF sub = NoSub
       THEN StartRequest(a, "Upgrade", <<Insert(Subscribed(NoSub, p))>>)
       ELSE /\ validatePlanTransition(GetEffectivePlanType(sub), PlanType(p))
            /\ sub.plan # p
            /\ StartRequest(a, "Upgrade", <<Update(Subscribed(sub, p))>>)
    /\ IF Days[p] > 0 THEN Promise(now + Days[p]) ELSE UNCHANGED granted
    /\ UNCHANGED leaving

ScheduleDowngrade(a) ==
    /\ sub # NoSub /\ GetEffectivePlanType(sub) # "free"
    /\ StartRequest(a, "ScheduleDowngrade",
           IF HasStripeSubscription
           THEN <<Save([sub EXCEPT !.pending = "free"])>>
           ELSE <<Save([sub EXCEPT !.plan = "free", !.pending = NoPlan, !.active = TRUE])>>)
    /\ leaving' = TRUE
    /\ UNCHANGED granted

\* What the daily job makes of one expired subscription.
Renewals ==
    IF ~(sub # NoSub /\ sub.active /\ Expired(sub.expires)) THEN << >>
    ELSE IF sub.plan = "trial" THEN <<Update([sub EXCEPT !.plan = "free"])>>
    ELSE IF sub.plan \in PremiumPlans /\ ~HasStripeSubscription
         THEN <<Update([sub EXCEPT !.active = FALSE])>>
    ELSE << >>

ProcessRenewals(a) ==
    /\ Start(a, "ProcessRenewals", NoEvent, Renewals)
    /\ UNCHANGED <<external, used, granted, leaving>>

\* What the hourly job makes of a pending downgrade whose time has come.
ExpiredDowngrades ==
    IF sub.pending # NoPlan /\ (sub.expires = Null \/ sub.expires <= now)
    THEN <<Save([sub EXCEPT !.plan = sub.pending, !.pending = NoPlan, !.active = TRUE])>>
    ELSE << >>

ProcessExpiredDowngrades(a) ==
    /\ Start(a, "ProcessExpiredDowngrades", NoEvent, ExpiredDowngrades)
    /\ UNCHANGED <<external, used, granted, leaving>>

-----------------------------------------------------------------------------
(* services/payment/service.go                                              *)

\* Stripe's state of subscription x changes to S, and Stripe reports the events es.
AtStripe(x, S, es) ==
    /\ stripe' = [stripe EXCEPT ![x] = S]
    /\ events' = events \o es
    /\ Promise(S.end)

Updated(x, S) == [Event("updated", x) EXCEPT !.plan = S.plan, !.end = S.end,
                                             !.atEnd = S.atEnd, !.status = S.status]

Running(x) == x # Null /\ stripe[x].status \in {"active", "past_due"}

\* GetOrCreateCustomer, then the checkout session.
CreateCheckout(a, p) ==
    /\ p \in PremiumPlans
    /\ StartRequest(a, "CreateCheckout",
           IF psub = NoProvider /\ sub # NoSub
           THEN <<InsertProvider(NewProvider), Open(p)>> ELSE <<Open(p)>>)
    /\ UNCHANGED <<granted, leaving>>

\* A new price starts a new period when its length differs.
Repriced(S, p) == [S EXCEPT !.plan = p, !.end = IF p = S.plan THEN @ ELSE now + Days[p]]

IsUpgrade(p) == Days[p] = 0 \/ Days[sub.plan] = 0 \/ Days[p] >= Days[sub.plan]

handleUpgrade(a, x, p) ==
    /\ AtStripe(x, Repriced(stripe[x], p), <<Updated(x, Repriced(stripe[x], p))>>)
    /\ Start(a, "ChangePlan", NoEvent, <<Save([sub EXCEPT !.plan = p])>>)

\* The id Stripe gives to a new schedule: every request is counted.
NewSchedule == 1 + used.requests

\* Stripe refuses a second schedule for a subscription.
handleDowngrade(a, x, p) ==
    /\ stripe[x].schedule = Null
    /\ AtStripe(x, [stripe[x] EXCEPT !.schedule = NewSchedule, !.next = p], << >>)
    /\ Start(a, "ChangePlan", NoEvent,
             <<SaveProvider([psub EXCEPT !.schedule = NewSchedule]),
               Save([sub EXCEPT !.pending = p])>>)

ChangePlan(a, p) ==
    /\ sub # NoSub /\ Running(psub.link) /\ p \in PremiumPlans
    /\ IF IsUpgrade(p) THEN handleUpgrade(a, psub.link, p) ELSE handleDowngrade(a, psub.link, p)
    /\ Request
    /\ UNCHANGED <<sessions, leaving>>

\* Release the schedule at Stripe, and take back a cancellation that waits.
\* Stripe may refuse the second after it has done the first.
CancelScheduledChange(a) ==
    LET y == psub.link
        reenable == sub.canceled /\ y # Null
    IN  /\ sub # NoSub /\ psub.schedule # Null
        /\ \E x \in StripeIds :
              LET released == [stripe EXCEPT ![x].schedule = Null]
                  resumed  == [released EXCEPT ![y].atEnd = FALSE]
                  event    == Event("released", psub.schedule)
              IN  /\ Running(x) /\ stripe[x].schedule = psub.schedule
                  /\ IF reenable /\ Running(y)
                     THEN stripe' = resumed /\ events' = events \o <<event, Updated(y, resumed[y])>>
                     ELSE stripe' = released /\ events' = Append(events, event)
        /\ Start(a, "CancelScheduledChange", NoEvent,
                 IF reenable /\ ~Running(y) THEN << >>
                 ELSE <<SaveProvider([psub EXCEPT !.schedule = Null]),
                        Save([sub EXCEPT !.pending = NoPlan, !.canceled = FALSE])>>)
        /\ Request
        /\ UNCHANGED <<sessions, granted, leaving>>

-----------------------------------------------------------------------------
(* services/payment/webhook_handler.go: what each event makes of the rows.  *)

CheckedOut(s, x, p) ==
    [s EXCEPT !.plan = p, !.expires = stripe[x].end, !.active = TRUE,
              !.trialEnds = Null, !.pending = NoPlan]

\* Fault: a record of the user's earlier checkout is not looked for.
CompletedFirstCheckout(e) ==
    IF sub = NoSub THEN << >>
    ELSE <<InsertProvider([NewProvider EXCEPT !.link = e.id]), Save(CheckedOut(sub, e.id, e.plan))>>

handleCheckoutSessionCompleted(e) ==
    IF sub = NoSub THEN << >>
    ELSE <<IF psub = NoProvider THEN InsertProvider([NewProvider EXCEPT !.link = e.id])
           ELSE SaveProvider([psub EXCEPT !.link = e.id]),
           Save(CheckedOut(sub, e.id, e.plan))>>

\* Fault: the period that ended is not replaced.
SyncedExceptEnd(s, e) == [s EXCEPT !.plan = e.plan, !.canceled = e.atEnd]

Synced(s, e) ==
    [s EXCEPT !.plan = e.plan, !.canceled = e.atEnd,
              !.expires = e.end, !.active = e.status \in {"active", "past_due"}]

Linked(x) == psub.link = x /\ sub # NoSub

handleSubscriptionUpdated(e) == IF Linked(e.id) THEN <<Save(Synced(sub, e))>> ELSE << >>

Deleted(s) ==
    [s EXCEPT !.plan = "free", !.active = TRUE, !.canceled = TRUE,
              !.expires = Null, !.pending = NoPlan]

handleSubscriptionDeleted(e) ==
    IF Linked(e.id)
    THEN <<Save(Deleted(sub)), SaveProvider([psub EXCEPT !.link = Null, !.schedule = Null])>>
    ELSE << >>

\* Fault: a failed payment is handled like a successful one.
InvoiceClears(e, failed) ==
    IF psub.link = e.id THEN <<SaveProvider([psub EXCEPT !.failed = FALSE])>> ELSE << >>

handleInvoice(e, failed) ==
    IF psub.link = e.id THEN <<SaveProvider([psub EXCEPT !.failed = failed])>> ELSE << >>

Scheduled(id) == psub.schedule = id /\ sub # NoSub

\* Fault: a schedule completes only when a plan is pending.
CompletedUnchecked(e) ==
    IF Scheduled(e.id)
    THEN <<Save([sub EXCEPT !.plan = sub.pending, !.pending = NoPlan]),
           SaveProvider([psub EXCEPT !.schedule = Null])>>
    ELSE << >>

\* Fault: without a pending plan there is nothing to complete.
CompletedIfPending(e) ==
    IF Scheduled(e.id) /\ sub.pending # NoPlan
    THEN <<Save([sub EXCEPT !.plan = sub.pending, !.pending = NoPlan]),
           SaveProvider([psub EXCEPT !.schedule = Null])>>
    ELSE << >>

handleScheduleCompleted(e) ==
    IF Scheduled(e.id)
    THEN <<Save(IF sub.pending = NoPlan THEN sub
                ELSE [sub EXCEPT !.plan = sub.pending, !.pending = NoPlan]),
           SaveProvider([psub EXCEPT !.schedule = Null])>>
    ELSE << >>

\* Only the reference is cleared: a pending plan stays pending.
handleScheduleReleased(e) ==
    IF psub.schedule = e.id THEN <<SaveProvider([psub EXCEPT !.schedule = Null])>> ELSE << >>

HandleWebhook(e) ==
    CASE e.type = "checkout"  -> handleCheckoutSessionCompleted(e)
      [] e.type = "updated"   -> handleSubscriptionUpdated(e)
      [] e.type = "deleted"   -> handleSubscriptionDeleted(e)
      [] e.type = "paid"      -> handleInvoice(e, FALSE)
      [] e.type = "failed"    -> handleInvoice(e, TRUE)
      [] e.type = "completed" -> handleScheduleCompleted(e)
      [] e.type = "released"  -> handleScheduleReleased(e)

\* Stripe delivers event number i, and may deliver it again.
Webhook(a, i) ==
    /\ InOrder => i = 1
    /\ Start(a, "Webhook", events[i], HandleWebhook(events[i]))
    /\ \/ events' = RemoveAt(events, i) /\ UNCHANGED used
       \/ Use("repeats", MaxRepeats) /\ UNCHANGED events
    /\ UNCHANGED <<stripe, sessions, granted, leaving>>

-----------------------------------------------------------------------------
(* Goroutines.                                                              *)

Left(a) == actor' = [actor EXCEPT ![a].writes = Tail(@)]

\* One statement of goroutine a.
Write(a) ==
    LET w == Head(actor[a].writes)
    IN  /\ actor[a].writes # << >>
        /\ \/ /\ w.to = "sub" /\ sub' = w.row
              /\ Left(a) /\ UNCHANGED <<psub, sessions>>
           \/ /\ w.to = "some"
              /\ sub' = [sub EXCEPT !.plan = w.row.plan, !.expires = w.row.expires,
                                    !.active = w.row.active, !.pending = w.row.pending]
              /\ Left(a) /\ UNCHANGED <<psub, sessions>>
           \/ /\ w.to = "psub" /\ psub' = w.row
              /\ Left(a) /\ UNCHANGED <<sub, sessions>>
           \/ /\ w.to = "session" /\ sessions' = sessions \cup {w.row.plan}
              /\ Left(a) /\ UNCHANGED <<sub, psub>>
           \/ /\ w.to = "new" /\ sub = NoSub /\ sub' = w.row
              /\ Left(a) /\ UNCHANGED <<psub, sessions>>
           \/ /\ w.to = "new_psub" /\ psub = NoProvider /\ psub' = w.row
              /\ Left(a) /\ UNCHANGED <<sub, sessions>>
        /\ UNCHANGED <<stripe, events, now, used, granted, leaving>>

\* The row to insert is there: user_id and subscription_id are unique.
Duplicate(w) == (w.to = "new" /\ sub # NoSub) \/ (w.to = "new_psub" /\ psub # NoProvider)

\* The goroutine ends: it is done, or a statement fails.  A webhook answers 200
\* in either case, and Stripe will not deliver the event again.
Return(a) ==
    /\ actor[a] # Idle
    /\ actor' = [actor EXCEPT ![a] = Idle]
    /\ \/ actor[a].writes = << >> /\ UNCHANGED used
       \/ actor[a].writes # << >> /\ Duplicate(Head(actor[a].writes)) /\ UNCHANGED used
       \/ actor[a].writes # << >> /\ Use("errors", MaxErrors)
    /\ UNCHANGED <<sub, psub, external, now, granted, leaving>>

\* The process dies.  Stripe delivers the events again that were not answered.
Crash ==
    LET unanswered == {actor[a].event : a \in {b \in Actors : actor[b].event # NoEvent}}
    IN  /\ \E a \in Actors : actor[a] # Idle
        /\ Use("crashes", MaxCrashes)
        /\ actor' = [a \in Actors |-> Idle]
        /\ events' = events \o SetToSeq(unanswered)
        /\ UNCHANGED <<sub, psub, stripe, sessions, now, granted, leaving>>

-----------------------------------------------------------------------------
(* Stripe (external).                                                       *)

Elsewhere == UNCHANGED <<sub, psub, actor, now, leaving>>

\* The user pays in an open checkout session.
Pay(p) ==
    LET x == 1 + Cardinality({y \in StripeIds : stripe[y].status # "none"})
        S == [NoStripeSub EXCEPT !.status = "active", !.plan = p, !.end = now + Days[p]]
    IN  /\ p \in sessions /\ sessions' = sessions \ {p}
        /\ x \in StripeIds
        /\ AtStripe(x, S, <<[Event("checkout", x) EXCEPT !.plan = p]>>)
        /\ leaving' = FALSE
        /\ UNCHANGED <<sub, psub, actor, now, used>>

Over(S) == [S EXCEPT !.status = "canceled", !.schedule = Null]

\* A period ends: renewed, perhaps with the plan of the schedule, or over.
PeriodEnds(x) ==
    LET S == stripe[x]
        plan == IF S.schedule # Null THEN S.next ELSE S.plan
        next == [S EXCEPT !.plan = plan, !.end = @ + Days[plan], !.schedule = Null]
    IN  /\ Running(x) /\ S.end <= now
        /\ IF S.atEnd THEN AtStripe(x, Over(S), <<Event("deleted", x)>>)
           ELSE \E last \in {"completed", "released"} :
                   AtStripe(x, next, <<Updated(x, next)>>
                                     \o IF S.schedule # Null THEN <<Event(last, S.schedule)>> ELSE << >>)
        /\ Elsewhere /\ UNCHANGED <<sessions, used>>

\* In the portal the user cancels the subscription at its end, or resumes it.
Portal(x) ==
    LET S == [stripe[x] EXCEPT !.atEnd = ~@]
    IN  /\ Running(x) /\ psub.customer
        /\ AtStripe(x, S, <<Updated(x, S)>>)
        /\ Request
        /\ Elsewhere /\ UNCHANGED sessions

\* A payment fails, a late one succeeds, or Stripe gives up.
Payment(x) ==
    LET failed == [stripe[x] EXCEPT !.status = "past_due"]
        paid   == [stripe[x] EXCEPT !.status = "active"]
    IN  /\ \/ /\ stripe[x].status = "active"
              /\ AtStripe(x, failed, <<Event("failed", x), Updated(x, failed)>>)
           \/ /\ stripe[x].status = "past_due"
              /\ AtStripe(x, paid, <<Event("paid", x), Updated(x, paid)>>)
           \/ /\ stripe[x].status = "past_due"
              /\ AtStripe(x, Over(stripe[x]), <<Event("deleted", x)>>)
        /\ Request
        /\ Elsewhere /\ UNCHANGED sessions

\* Stripe ends periods on time.
Tick ==
    /\ now < MaxNow
    /\ \A x \in StripeIds : Running(x) => stripe[x].end > now
    /\ now' = now + 1
    /\ UNCHANGED <<sub, psub, actor, external, used, granted, leaving>>

-----------------------------------------------------------------------------
Next ==
    \/ \E a \in Actors :
          \/ GetStatus(a) \/ ScheduleDowngrade(a) \/ CancelScheduledChange(a)
          \/ \E p \in Plans : Upgrade(a, p) \/ CreateCheckout(a, p) \/ ChangePlan(a, p)
          \/ ProcessRenewals(a) \/ ProcessExpiredDowngrades(a)
          \/ \E i \in DOMAIN events : Webhook(a, i)
          \/ Write(a) \/ Return(a)
    \/ Crash
    \/ \E p \in Plans : Pay(p)
    \/ \E x \in StripeIds : PeriodEnds(x) \/ Portal(x) \/ Payment(x)
    \/ Tick

Spec == Init /\ [][Next]_vars

\* Goroutines go on, cron starts both jobs again and again, Stripe goes on
\* delivering events and ends periods, and time passes.
Fairness ==
    /\ \A a \in Actors : WF_vars(Write(a) \/ Return(a))
    /\ SF_vars(\E a \in Actors : ProcessRenewals(a))
    /\ SF_vars(\E a \in Actors : ProcessExpiredDowngrades(a))
    /\ SF_vars(\E a \in Actors : events # << >> /\ Webhook(a, 1))
    /\ \A x \in StripeIds : WF_vars(PeriodEnds(x))
    /\ WF_vars(Tick)

FairSpec == Spec /\ Fairness

=============================================================================
