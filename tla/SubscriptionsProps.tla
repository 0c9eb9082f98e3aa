------------------------- MODULE SubscriptionsProps -------------------------
(***************************************************************************)
(* What makes the subscription of module Subscriptions correct.             *)
(***************************************************************************)
EXTENDS Subscriptions

Writes == {"sub", "some", "new", "psub", "new_psub", "session"}

\* Every variable holds a value of its column's type; a goroutine writes rows
\* of such types only.
TypeOK ==
    /\ sub \in Sub \cup {NoSub}
    /\ psub \in Provider \cup {NoProvider}
    /\ \A a \in Actors : \A k \in DOMAIN actor[a].writes :
          LET w == actor[a].writes[k]
          IN  /\ w.to \in Writes
              /\ w.to \in {"sub", "some", "new"} => w.row \in Sub
              /\ w.to \in {"psub", "new_psub"} => w.row \in Provider
    /\ stripe \in [StripeIds -> StripeSub]
    /\ sessions \subseteq PremiumPlans
    /\ now \in 1..MaxNow

\* The Stripe subscription created last, or Null.
Newest == Cardinality({x \in StripeIds : stripe[x].status # "none"})

Quiet == events = << >> /\ \A a \in Actors : actor[a] = Idle

\* "It links the Stripe customer and subscription to our internal subscription,
\* activates the target plan" (webhook_handler.go:132): once the events are
\* handled, whoever has a running Stripe subscription has its plan, and has it
\* until the end of the period that is paid, unless a downgrade was asked for.
PaidIsPremium ==
    Quiet /\ Running(Newest) /\ now < stripe[Newest].end /\ ~leaving =>
        /\ GetEffectivePlanType(sub) = "premium"
        /\ sub.plan = stripe[Newest].plan

\* Premium access never outlives the latest end anybody was promised, neither
\* by Stripe nor by an upgrade, although events that end it may come late, twice or
\* in another order.  Only half of a checkout can break it (a statement failed, the
\* process died, or another goroutine came between the two statements): then
\* ChangePlan stores a premium plan without an end.
NoFreeRide ==
    GetEffectivePlanType(sub) = "premium" =>
        \/ now <= granted
        \/ sub.expires = Null /\ used.errors + used.crashes > 0

\* Once the events are handled, a linked subscription whose last payment failed
\* is flagged as such.
FailureShown ==
    Quiet /\ psub.link # Null /\ psub.link = Newest /\ stripe[Newest].status = "past_due" =>
        psub.failed

\* Once the events are handled, the rows know what Stripe will do when the period
\* of the user's first Stripe subscription is over: end it, or change its plan.
\* (A later checkout keeps canceled_at and the schedule of an earlier one.)
MirrorsStripe ==
    Quiet /\ psub.link = 1 /\ Running(1) =>
        /\ sub.canceled = stripe[1].atEnd
        /\ psub.schedule = stripe[1].schedule

\* A running Stripe subscription of a user who was registered with a trial is linked
\* in the end, although the process may die while it handles the event: Stripe
\* delivers it again.  Only a statement that fails lets it be forgotten, for a webhook
\* answers 200 all the same.
PaymentLinks ==
    sub # NoSub =>
        \A x \in StripeIds :
            stripe[x].status = "active" ~>
                psub.link = x \/ Newest # x \/ ~Running(x) \/ used.errors > 0

\* "If the user has an active Stripe subscription the downgrade is scheduled for
\* the end of the current billing period" (services/subscription/service.go:373):
\* it takes place when that period is over and the hourly job has run.
DowngradeHappens ==
    \A t \in 1..(MaxNow - 1) :
        (sub.pending = "free" /\ sub.expires = t) ~> sub.pending # "free"

=============================================================================
