------------------------- MODULE SubscriptionsProofs -------------------------
(***************************************************************************)
(* Proofs about module Subscriptions, for any goroutines, Stripe ids,       *)
(* periods, faults and bounds: the rows keep the types of their columns, no *)
(* end of a premium plan was never promised, and, where the goroutines run  *)
(* one after the other, nobody keeps premium access for nothing.  Where     *)
(* nothing fails either and the events come in order, the rows follow       *)
(* Stripe: who pays is premium, a failure shows, and a cancellation too.    *)
(***************************************************************************)
EXTENDS SubscriptionsProps, SequenceTheorems, FiniteSetTheorems, TLAPS

Ops == {"idle", "GetStatus", "Upgrade", "ScheduleDowngrade", "ProcessRenewals",
        "ProcessExpiredDowngrades", "CreateCheckout", "ChangePlan",
        "CancelScheduledChange", "Webhook"}

Types == {"none", "checkout", "updated", "deleted", "paid", "failed", "completed", "released"}

Events == [type : Types, id : Nat, plan : Plans, end : Nat, atEnd : BOOLEAN,
           status : {"none", "active", "past_due", "canceled"}]

RowWrites == {"sub", "some", "new"}
ProviderWrites == {"psub", "new_psub"}

Statement == [to : RowWrites, row : Sub] \cup [to : ProviderWrites, row : Provider]
             \cup [to : {"session"}, row : [plan : PremiumPlans]]

Counts == [requests : Nat, errors : Nat, crashes : Nat, repeats : Nat]

Goroutine == [op : Ops, event : Events, writes : Seq(Statement)]

\* A row to be written ends when somebody was promised it would, and only a user
\* with a row is linked to Stripe.
StatementFits(w) ==
    /\ w.to \in RowWrites => w.row.expires <= granted
    /\ w.to \in ProviderWrites => (w.row.link # Null => sub # NoSub)

Planned(ws) ==
    /\ ws \in Seq(Statement)
    /\ \A k \in 1..Len(ws) : StatementFits(ws[k])

\* An event reports an end Stripe has promised, of a subscription it has.
EventFits(e) ==
    /\ e.end <= granted
    /\ e.type \in {"checkout", "updated"} => e.id \in StripeIds
    /\ e.type = "checkout" => stripe[e.id].status # "none"
    /\ e.type = "updated" => e.end # Null
    /\ e.type = "none" => e = NoEvent

Fits(r) == EventFits(r.event) /\ Planned(r.writes)

Rows ==
    /\ sub \in Sub \cup {NoSub} /\ sub.expires <= granted
    /\ psub \in Provider /\ (psub.link # Null => sub # NoSub)
    /\ sessions \subseteq PremiumPlans
    /\ now \in 1..MaxNow
    /\ granted \in Nat
    /\ used \in Counts

AtStripeFits ==
    /\ stripe \in [StripeIds -> StripeSub]
    /\ \A x \in StripeIds : /\ stripe[x].end <= granted
                            /\ stripe[x].status # "none" => stripe[x].end # Null

EventsFit ==
    /\ events \in Seq(Events)
    /\ \A i \in 1..Len(events) : EventFits(events[i]) /\ events[i].type # "none"

ActorsFit == actor \in [Actors -> Goroutine] /\ \A a \in Actors : Fits(actor[a])

\* The inductive invariant: every end in a row, in a statement to come, at Stripe and
\* in an event was promised.
IInv == Rows /\ AtStripeFits /\ EventsFit /\ ActorsFit

\* A promise is not taken back, and no row is lost.
Grows ==
    /\ granted \in Nat /\ granted' \in Nat /\ granted <= granted'
    /\ sub # NoSub => sub' # NoSub
    /\ \A x \in StripeIds : stripe[x].status # "none" => stripe'[x].status # "none"

-----------------------------------------------------------------------------
(* Facts about the building blocks.                                         *)

LEMMA ExpiresIsNat == ASSUME NEW s \in Sub \cup {NoSub} PROVE s.expires \in Nat
  BY DEF Sub, NoSub, Null

LEMMA NoSubIsNoRow == NoSub \notin Sub
  BY DEF Sub, NoSub, NoPlan, Plans

LEMMA StatementKept ==
    ASSUME NEW w \in Statement, StatementFits(w), Grows
    PROVE  StatementFits(w)'
  BY ExpiresIsNat DEF StatementFits, Grows, Statement, RowWrites, ProviderWrites

LEMMA PlannedKept == ASSUME NEW ws, Planned(ws), Grows PROVE Planned(ws)'
  <1>1. ASSUME NEW k \in 1..Len(ws) PROVE StatementFits(ws[k])'
    BY StatementKept, ElementOfSeq DEF Planned
  <1>2. QED
    BY <1>1 DEF Planned

LEMMA EventKept == ASSUME NEW e \in Events, EventFits(e), Grows PROVE EventFits(e)'
  BY DEF EventFits, Grows, Events

LEMMA FitsKept == ASSUME NEW r \in Goroutine, Fits(r), Grows PROVE Fits(r)'
  BY PlannedKept, EventKept DEF Fits, Goroutine

LEMMA EventsKept == ASSUME EventsFit, Grows, UNCHANGED events PROVE EventsFit'
  <1>1. ASSUME NEW i \in 1..Len(events) PROVE EventFits(events[i])'
    BY EventKept, ElementOfSeq DEF EventsFit
  <1>2. QED
    BY <1>1 DEF EventsFit, EventFits

\* One goroutine changes, the others still fit.
LEMMA OthersFit ==
    ASSUME ActorsFit, Grows, NEW a \in Actors, NEW r \in Goroutine, Fits(r)',
           actor' = [actor EXCEPT ![a] = r]
    PROVE  ActorsFit'
  <1>1. actor' \in [Actors -> Goroutine]
    BY DEF ActorsFit
  <1>2. ASSUME NEW b \in Actors
        PROVE  Fits(actor[b])'
    <2>1. CASE b = a
      <3>1. actor'[b] = r
        BY <2>1 DEF ActorsFit
      <3>2. QED
        BY <3>1 DEF Fits, Planned, EventFits, StatementFits
    <2>2. CASE b # a
      <3>1. PICK q : q = actor[b]
        OBVIOUS
      <3>2. q \in Goroutine /\ Fits(q) /\ actor'[b] = q
        BY <2>2, <3>1 DEF ActorsFit
      <3>3. Fits(q)'
        BY <3>2, FitsKept
      <3>4. QED
        BY <3>2, <3>3 DEF Fits, Planned, EventFits, StatementFits
    <2>3. QED
      BY <2>1, <2>2
  <1>3. QED
    BY <1>1, <1>2 DEF ActorsFit

LEMMA ActorsKept == ASSUME ActorsFit, Grows, UNCHANGED actor PROVE ActorsFit'
  <1>1. ASSUME NEW b \in Actors PROVE Fits(actor[b])'
    <2>1. PICK q : q = actor[b]
      OBVIOUS
    <2>2. q \in Goroutine /\ Fits(q) /\ actor'[b] = q
      BY <2>1 DEF ActorsFit
    <2>3. Fits(q)'
      BY <2>2, FitsKept
    <2>4. QED
      BY <2>2, <2>3 DEF Fits, Planned, EventFits, StatementFits
  <1>2. QED
    BY <1>1 DEF ActorsFit

LEMMA NoEventFits ==
    ASSUME granted \in Nat
    PROVE  NoEvent \in Events /\ EventFits(NoEvent)
  BY DEF NoEvent, Event, Events, Types, Plans, EventFits, Null

LEMMA NothingPlanned == Planned(<< >>)
  BY DEF Planned

LEMMA OnePlanned ==
    ASSUME NEW w \in Statement, StatementFits(w) PROVE Planned(<<w>>)
  BY DEF Planned

LEMMA TwoPlanned ==
    ASSUME NEW w \in Statement, StatementFits(w), NEW z \in Statement, StatementFits(z)
    PROVE  Planned(<<w, z>>)
  BY DEF Planned

LEMMA IdleFits == ASSUME granted \in Nat PROVE Idle \in Goroutine /\ Fits(Idle)
  BY NoEventFits, NothingPlanned DEF Idle, Goroutine, Fits, Ops

-----------------------------------------------------------------------------
(* What a request, a job or a webhook plans to write.                       *)

\* A goroutine begins: the rows are as they were.
LEMMA StartFits ==
    ASSUME ActorsFit, Grows, NEW a \in Actors, NEW op \in Ops,
           NEW e \in Events, EventFits(e)', NEW ws, Planned(ws)', Start(a, op, e, ws)
    PROVE  ActorsFit'
  <1>1. PICK r : r = [op |-> op, event |-> e, writes |-> ws]
    OBVIOUS
  <1>2. r \in Goroutine /\ Fits(r)'
    BY <1>1 DEF Goroutine, Fits, Planned
  <1>3. actor' = [actor EXCEPT ![a] = r]
    BY <1>1 DEF Start
  <1>4. QED
    BY <1>2, <1>3, OthersFit

\* The row of a user who has one, and the two ways to write it.
LEMMA SaveFits ==
    ASSUME NEW s \in Sub, s.expires <= granted
    PROVE  /\ Save(s) \in Statement /\ StatementFits(Save(s))
           /\ Update(s) \in Statement /\ StatementFits(Update(s))
           /\ Insert(s) \in Statement /\ StatementFits(Insert(s))
  BY DEF Save, Update, Insert, Statement, StatementFits, RowWrites, ProviderWrites

LEMMA SaveProviderFits ==
    ASSUME NEW r \in Provider, r.link # Null => sub # NoSub
    PROVE  /\ SaveProvider(r) \in Statement /\ StatementFits(SaveProvider(r))
           /\ InsertProvider(r) \in Statement /\ StatementFits(InsertProvider(r))
  BY DEF SaveProvider, InsertProvider, Statement, StatementFits, RowWrites, ProviderWrites

LEMMA OpenFits ==
    ASSUME NEW p \in PremiumPlans
    PROVE  Open(p) \in Statement /\ StatementFits(Open(p))
  BY DEF Open, Statement, StatementFits, RowWrites, ProviderWrites

\* What the requests and jobs write that leave the provider's row alone.
LEMMA RequestsPlan ==
    ASSUME Rows, sub # NoSub
    PROVE  /\ Planned(<<Update([sub EXCEPT !.plan = "free", !.active = TRUE])>>)
           /\ Planned(<<Save([sub EXCEPT !.pending = "free"])>>)
           /\ Planned(<<Save([sub EXCEPT !.plan = "free", !.pending = NoPlan, !.active = TRUE])>>)
           /\ Planned(<<Update([sub EXCEPT !.plan = "free"])>>)
           /\ Planned(<<Update([sub EXCEPT !.active = FALSE])>>)
           /\ \A p \in Plans : Planned(<<Save([sub EXCEPT !.plan = p])>>)
           /\ sub.pending # NoPlan =>
                 Planned(<<Save([sub EXCEPT !.plan = sub.pending, !.pending = NoPlan, !.active = TRUE])>>)
  <1> DEFINE Fine(s) == s \in Sub /\ s.expires <= granted
  <1>1. sub \in Sub /\ sub.expires <= granted
    BY DEF Rows
  <1>2. ASSUME NEW s, Fine(s)
        PROVE  Planned(<<Save(s)>>) /\ Planned(<<Update(s)>>)
    BY <1>2, SaveFits, OnePlanned
  <1>3. /\ Fine([sub EXCEPT !.plan = "free", !.active = TRUE])
        /\ Fine([sub EXCEPT !.pending = "free"])
        /\ Fine([sub EXCEPT !.plan = "free", !.pending = NoPlan, !.active = TRUE])
        /\ Fine([sub EXCEPT !.plan = "free"])
        /\ Fine([sub EXCEPT !.active = FALSE])
    BY <1>1 DEF Sub, Plans
  <1>4. \A p \in Plans : Fine([sub EXCEPT !.plan = p])
    BY <1>1 DEF Sub
  <1>5. sub.pending # NoPlan =>
           Fine([sub EXCEPT !.plan = sub.pending, !.pending = NoPlan, !.active = TRUE])
    BY <1>1 DEF Sub
  <1> HIDE DEF Fine
  <1>6. QED
    BY <1>2, <1>3, <1>4, <1>5

LEMMA UpgradePlans ==
    ASSUME Rows, NEW p \in Plans, NEW s, s = Subscribed(sub, p), NEW g \in Nat,
           granted <= g, Days[p] > 0 => now + Days[p] <= g
    PROVE  s \in Sub /\ s.expires <= g
  <1>1. sub.expires \in Nat /\ now \in Nat /\ granted \in Nat /\ Days[p] \in Nat
        /\ sub.expires <= granted
    BY ExpiresIsNat, SubscriptionsAssumption DEF Rows
  <1>2. PICK t : t = (IF Days[p] > 0 THEN now + Days[p] ELSE sub.expires)
    OBVIOUS
  <1>3. t \in Nat /\ t <= g
    BY <1>1, <1>2
  <1>4. s = [sub EXCEPT !.plan = p, !.active = TRUE, !.expires = t]
    BY <1>2 DEF Subscribed
  <1>5. CASE sub \in Sub
    BY <1>3, <1>4, <1>5 DEF Sub
  <1>6. CASE sub = NoSub
    <2>1. s = [plan |-> p, trialEnds |-> Null, expires |-> t,
               canceled |-> FALSE, active |-> TRUE, pending |-> NoPlan]
      BY <1>4, <1>6 DEF NoSub
    <2>2. QED
      BY <1>3, <2>1 DEF Sub, Null
  <1>7. QED
    BY <1>5, <1>6 DEF Rows

\* What the webhook makes of an event, with any of its handlers.
LEMMA WebhookPlans ==
    ASSUME Rows, AtStripeFits, NEW e \in Events, EventFits(e), e.type # "none"
    PROVE  Planned(HandleWebhook(e))
  <1>0. granted \in Nat
    BY DEF Rows
  <1>1. ASSUME sub # NoSub
        PROVE  sub \in Sub /\ sub.expires <= granted /\ sub.expires \in Nat
    BY <1>1, ExpiresIsNat DEF Rows
  <1>2. psub \in Provider /\ (psub.link # Null => sub # NoSub)
    BY DEF Rows
  <1>3. CASE e.type = "checkout"
    <2>1. HandleWebhook(e) = handleCheckoutSessionCompleted(e)
      BY <1>3 DEF HandleWebhook
    <2>2. CASE sub = NoSub
      BY <2>1, <2>2, NothingPlanned DEF handleCheckoutSessionCompleted
    <2>3. CASE sub # NoSub
      <3>1. /\ e.id \in StripeIds /\ e.plan \in Plans /\ stripe[e.id].end \in Nat
            /\ stripe[e.id].end <= granted
        BY <1>3 DEF EventFits, Events, AtStripeFits, StripeSub
      <3>2. PICK s : s = CheckedOut(sub, e.id, e.plan)
        OBVIOUS
      <3>3. s \in Sub /\ s.expires <= granted
        BY <1>1, <2>3, <3>1, <3>2 DEF CheckedOut, Sub, Null
      <3>4. [NewProvider EXCEPT !.link = e.id] \in Provider
        BY <3>1 DEF NewProvider, NoProvider, Provider, Null
      <3>5. [psub EXCEPT !.link = e.id] \in Provider
        BY <1>2, <3>1 DEF Provider
      <3>6. PICK w : w = IF psub = NoProvider
                         THEN InsertProvider([NewProvider EXCEPT !.link = e.id])
                         ELSE SaveProvider([psub EXCEPT !.link = e.id])
        OBVIOUS
      <3>7. w \in Statement /\ StatementFits(w)
        BY <2>3, <3>4, <3>5, <3>6, SaveProviderFits
      <3>8. Save(s) \in Statement /\ StatementFits(Save(s))
        BY <3>3, SaveFits
      <3>9. HandleWebhook(e) = <<w, Save(s)>>
        BY <2>1, <2>3, <3>2, <3>6 DEF handleCheckoutSessionCompleted
      <3>10. QED
        BY <3>7, <3>8, <3>9, TwoPlanned
    <2>4. QED
      BY <2>2, <2>3
  <1>4. CASE e.type = "updated"
    <2>1. HandleWebhook(e) = handleSubscriptionUpdated(e)
      BY <1>4 DEF HandleWebhook
    <2>2. CASE ~Linked(e.id)
      BY <2>1, <2>2, NothingPlanned DEF handleSubscriptionUpdated
    <2>3. CASE Linked(e.id)
      <3>1. PICK s : s = Synced(sub, e)
        OBVIOUS
      <3>2. e.end \in Nat /\ e.end <= granted /\ e.plan \in Plans /\ e.atEnd \in BOOLEAN
        BY DEF EventFits, Events
      <3>3. s \in Sub /\ s.expires <= granted
        <4>1. sub \in Sub
          BY <1>1, <2>3 DEF Linked
        <4>2. (e.status \in {"active", "past_due"}) \in BOOLEAN
          OBVIOUS
        <4>3. QED
          BY <4>1, <4>2, <3>1, <3>2 DEF Synced, Sub
      <3>4. HandleWebhook(e) = <<Save(s)>>
        BY <2>1, <2>3, <3>1 DEF handleSubscriptionUpdated
      <3>5. QED
        BY <3>3, <3>4, SaveFits, OnePlanned
    <2>4. QED
      BY <2>2, <2>3
  <1>5. CASE e.type = "deleted"
    <2>1. HandleWebhook(e) = handleSubscriptionDeleted(e)
      BY <1>5 DEF HandleWebhook
    <2>2. CASE ~Linked(e.id)
      BY <2>1, <2>2, NothingPlanned DEF handleSubscriptionDeleted
    <2>3. CASE Linked(e.id)
      <3>1. PICK s : s = Deleted(sub)
        OBVIOUS
      <3>2. s \in Sub /\ s.expires <= granted
        <4>1. sub \in Sub
          BY <1>1, <2>3 DEF Linked
        <4>2. s = [sub EXCEPT !.plan = "free", !.active = TRUE, !.canceled = TRUE,
                              !.expires = 0, !.pending = NoPlan]
          BY <3>1 DEF Deleted, Null
        <4>3. s \in Sub /\ s.expires = 0
          BY <4>1, <4>2 DEF Sub, Plans
        <4>4. QED
          BY <1>0, <4>3
      <3>3. PICK r : r = [psub EXCEPT !.link = Null, !.schedule = Null]
        OBVIOUS
      <3>4. r \in Provider /\ r.link = Null
        BY <1>2, <3>3 DEF Provider, Null
      <3>5. HandleWebhook(e) = <<Save(s), SaveProvider(r)>>
        BY <2>1, <2>3, <3>1, <3>3 DEF handleSubscriptionDeleted
      <3>6. QED
        BY <3>2, <3>4, <3>5, SaveFits, SaveProviderFits, TwoPlanned
    <2>4. QED
      BY <2>2, <2>3
  <1>6. CASE e.type \in {"paid", "failed"}
    <2>1. PICK failed \in BOOLEAN : HandleWebhook(e) = handleInvoice(e, failed)
      BY <1>6 DEF HandleWebhook
    <2>2. PICK r : r = [psub EXCEPT !.failed = failed]
      OBVIOUS
    <2>3. r \in Provider /\ (r.link # Null => sub # NoSub)
      BY <1>2, <2>2 DEF Provider
    <2>4. HandleWebhook(e) \in {<< >>, <<SaveProvider(r)>>}
      BY <2>1, <2>2 DEF handleInvoice
    <2>5. QED
      BY <2>3, <2>4, NothingPlanned, SaveProviderFits, OnePlanned
  <1>7. CASE e.type \in {"completed", "released"}
    <2>1. PICK r : r = [psub EXCEPT !.schedule = Null]
      OBVIOUS
    <2>2. r \in Provider /\ (r.link # Null => sub # NoSub)
      BY <1>2, <2>1 DEF Provider, Null
    <2>3. SaveProvider(r) \in Statement /\ StatementFits(SaveProvider(r))
      BY <2>2, SaveProviderFits
    <2>4. CASE e.type = "released"
      <3>1. HandleWebhook(e) \in {<< >>, <<SaveProvider(r)>>}
        BY <2>1, <2>4 DEF HandleWebhook, handleScheduleReleased
      <3>2. QED
        BY <2>3, <3>1, NothingPlanned, OnePlanned
    <2>5. CASE e.type = "completed" /\ ~Scheduled(e.id)
      <3>1. HandleWebhook(e) = << >>
        BY <2>5 DEF HandleWebhook, handleScheduleCompleted
      <3>2. QED
        BY <3>1, NothingPlanned
    <2>6. CASE e.type = "completed" /\ Scheduled(e.id)
      <3>1. PICK s : s = IF sub.pending = NoPlan THEN sub
                         ELSE [sub EXCEPT !.plan = sub.pending, !.pending = NoPlan]
        OBVIOUS
      <3>2. s \in Sub /\ s.expires <= granted
        BY <1>1, <2>6, <3>1 DEF Scheduled, Sub
      <3>3. HandleWebhook(e) = <<Save(s), SaveProvider(r)>>
        BY <2>1, <2>6, <3>1 DEF HandleWebhook, handleScheduleCompleted
      <3>4. QED
        BY <2>3, <3>2, <3>3, SaveFits, TwoPlanned
    <2>7. QED
      BY <1>7, <2>4, <2>5, <2>6
  <1>8. QED
    BY <1>3, <1>4, <1>5, <1>6, <1>7 DEF Events, Types

-----------------------------------------------------------------------------
(* The steps of the program.                                                *)

LEMMA UseFits ==
    ASSUME used \in Counts, NEW what \in {"requests", "errors", "crashes", "repeats"},
           NEW bound, Use(what, bound)
    PROVE  used' \in Counts
  BY DEF Use, Counts

LEMMA QuietGrows ==
    ASSUME Rows, UNCHANGED stripe, sub' = sub \/ sub' \in Sub, granted' \in Nat, granted <= granted'
    PROVE  Grows
  BY NoSubIsNoRow DEF Rows, Grows

\* A request or a job that asks nothing of Stripe.
LEMMA QuietRequest ==
    ASSUME IInv, NEW a \in Actors, NEW op \in Ops, NEW ws, Planned(ws)',
           Start(a, op, NoEvent, ws), UNCHANGED external, used' \in Counts,
           granted' \in Nat, granted <= granted'
    PROVE  IInv'
  <1>1. UNCHANGED <<sub, psub, now, stripe, sessions, events>>
    BY DEF Start, external
  <1>2. Grows
    BY <1>1, QuietGrows DEF IInv
  <1>3. Rows' /\ AtStripeFits'
    <2>1. sub.expires \in Nat /\ \A x \in StripeIds : stripe[x].end \in Nat
      BY ExpiresIsNat DEF IInv, Rows, AtStripeFits, StripeSub
    <2>2. QED
      BY <1>1, <2>1 DEF IInv, Rows, AtStripeFits
  <1>4. EventsFit'
    BY <1>1, <1>2, EventsKept DEF IInv
  <1>5. ActorsFit'
    <2>1. NoEvent \in Events /\ EventFits(NoEvent)
      BY NoEventFits DEF IInv, Rows
    <2>2. EventFits(NoEvent)'
      BY <1>2, <2>1, EventKept DEF EventFits
    <2>3. QED
      BY <1>2, <2>1, <2>2, StartFits DEF IInv
  <1>6. QED
    BY <1>3, <1>4, <1>5 DEF IInv

LEMMA QuietPlan ==
    ASSUME IInv, NEW a \in Actors, NEW op \in Ops, NEW ws, Planned(ws),
           Start(a, op, NoEvent, ws), UNCHANGED <<external, granted>>, used' \in Counts
    PROVE  IInv'
  <1>1. granted' \in Nat /\ granted <= granted' /\ UNCHANGED <<sub, stripe>>
    BY DEF IInv, Rows, Start, external
  <1>2. Planned(ws)'
    BY <1>1, QuietGrows, PlannedKept DEF IInv
  <1>3. QED
    BY <1>1, <1>2, QuietRequest

LEMMA StatusStep ==
    ASSUME IInv, NEW a \in Actors, GetStatus(a)
    PROVE  IInv'
  <1>1. sub # NoSub
    BY DEF GetStatus, NoSub, NoPlan
  <1>2. Planned(<<Update([sub EXCEPT !.plan = "free", !.active = TRUE])>>)
    BY <1>1, RequestsPlan DEF IInv
  <1>3. used' \in Counts /\ "GetStatus" \in Ops
    BY DEF GetStatus, IInv, Rows, Ops
  <1>4. QED
    BY <1>2, <1>3, QuietPlan DEF GetStatus

LEMMA DowngradeStep ==
    ASSUME IInv, NEW a \in Actors, ScheduleDowngrade(a)
    PROVE  IInv'
  <1>1. PICK ws : /\ StartRequest(a, "ScheduleDowngrade", ws)
                  /\ ws = IF HasStripeSubscription
                          THEN <<Save([sub EXCEPT !.pending = "free"])>>
                          ELSE <<Save([sub EXCEPT !.plan = "free", !.pending = NoPlan, !.active = TRUE])>>
    BY DEF ScheduleDowngrade
  <1>2. Planned(ws)
    BY <1>1, RequestsPlan DEF ScheduleDowngrade, IInv
  <1>3. used' \in Counts /\ "ScheduleDowngrade" \in Ops
    BY <1>1, UseFits DEF StartRequest, Request, IInv, Rows, Ops
  <1>4. QED
    BY <1>1, <1>2, <1>3, QuietPlan DEF ScheduleDowngrade, StartRequest

LEMMA JobStep ==
    ASSUME IInv, NEW a \in Actors, ProcessRenewals(a) \/ ProcessExpiredDowngrades(a)
    PROVE  IInv'
  <1>1. Planned(Renewals)
    BY RequestsPlan, NothingPlanned DEF Renewals, IInv
  <1>2. Planned(ExpiredDowngrades)
    <2>1. sub.pending # NoPlan => sub # NoSub
      BY DEF NoSub
    <2>2. QED
      BY <2>1, RequestsPlan, NothingPlanned DEF ExpiredDowngrades, IInv
  <1>3. used' \in Counts /\ "ProcessRenewals" \in Ops /\ "ProcessExpiredDowngrades" \in Ops
    BY DEF ProcessRenewals, ProcessExpiredDowngrades, IInv, Rows, Ops
  <1>4. QED
    BY <1>1, <1>2, <1>3, QuietPlan DEF ProcessRenewals, ProcessExpiredDowngrades

LEMMA UpgradeStep ==
    ASSUME IInv, NEW a \in Actors, NEW p \in Plans, Upgrade(a, p)
    PROVE  IInv'
  <1>1. PICK s : s = Subscribed(sub, p)
    OBVIOUS
  <1>2. PICK ws \in {<<Insert(s)>>, <<Update(s)>>} : StartRequest(a, "Upgrade", ws)
    BY <1>1 DEF Upgrade
  <1>3. /\ granted \in Nat /\ granted' \in Nat /\ granted <= granted'
        /\ Days[p] > 0 => now + Days[p] <= granted'
    <2>1. granted \in Nat /\ now \in Nat /\ Days[p] \in Nat
      BY SubscriptionsAssumption DEF IInv, Rows
    <2>2. QED
      BY <2>1 DEF Upgrade, Promise
  <1>4. s \in Sub /\ s.expires <= granted'
    BY <1>1, <1>3, UpgradePlans DEF IInv
  <1>5. Planned(ws)'
    <2>1. /\ Insert(s) \in Statement /\ Update(s) \in Statement
          /\ StatementFits(Insert(s))' /\ StatementFits(Update(s))'
      BY <1>4 DEF Update, Insert, Statement, StatementFits, RowWrites, ProviderWrites
    <2>2. PICK w \in {Insert(s), Update(s)} : ws = <<w>>
      BY <1>2
    <2>3. w \in Statement /\ StatementFits(w)'
      BY <2>1, <2>2 DEF StatementFits
    <2>4. QED
      BY <2>2, <2>3 DEF Planned, StatementFits
  <1>6. used' \in Counts /\ "Upgrade" \in Ops
    BY <1>2, UseFits DEF StartRequest, Request, IInv, Rows, Ops
  <1>7. QED
    BY <1>2, <1>3, <1>5, <1>6, QuietRequest DEF StartRequest

LEMMA CheckoutStep ==
    ASSUME IInv, NEW a \in Actors, NEW p \in Plans, CreateCheckout(a, p)
    PROVE  IInv'
  <1>1. PICK ws : /\ StartRequest(a, "CreateCheckout", ws)
                  /\ ws = IF psub = NoProvider /\ sub # NoSub
                          THEN <<InsertProvider(NewProvider), Open(p)>> ELSE <<Open(p)>>
    BY DEF CreateCheckout
  <1>2. Planned(ws)
    <2>1. NewProvider \in Provider /\ NewProvider.link = Null
      BY DEF NewProvider, NoProvider, Provider, Null
    <2>2. p \in PremiumPlans
      BY DEF CreateCheckout
    <2>3. QED
      BY <1>1, <2>1, <2>2, SaveProviderFits, OpenFits, OnePlanned, TwoPlanned
  <1>3. used' \in Counts /\ "CreateCheckout" \in Ops
    BY <1>1, UseFits DEF StartRequest, Request, IInv, Rows, Ops
  <1>4. QED
    BY <1>1, <1>2, <1>3, QuietPlan DEF CreateCheckout, StartRequest

-----------------------------------------------------------------------------
(* The steps at Stripe.                                                     *)

\* An event Stripe reports when subscription x becomes S.
Reports(e, x, S) ==
    /\ e \in Events /\ e.type # "none"
    /\ e.end \in {Null, S.end}
    /\ e.type \in {"checkout", "updated"} => e.id = x
    /\ e.type = "updated" => e.end # Null

LEMMA StripeIdsAreNat == StripeIds \subseteq Nat /\ Null \notin StripeIds
  BY FS_CardinalityType, SubscriptionsAssumption DEF Null

LEMMA UpdatedReports ==
    ASSUME NEW x \in StripeIds, NEW S \in StripeSub, S.end # Null
    PROVE  Reports(Updated(x, S), x, S)
  BY StripeIdsAreNat DEF Reports, Updated, Event, Events, Types, StripeSub, Plans

LEMMA EventReports ==
    ASSUME NEW x, NEW S, NEW type \in {"deleted", "paid", "failed", "completed", "released"},
           NEW id \in Nat
    PROVE  Reports(Event(type, id), x, S)
  BY DEF Reports, Event, Events, Types, Plans, Null

\* Events join the queue.
LEMMA NewEventsFit ==
    ASSUME EventsFit, Grows, NEW es \in Seq(Events), events' = events \o es,
           \A i \in 1..Len(es) : EventFits(es[i])' /\ es[i].type # "none"
    PROVE  EventsFit'
  <1>1. events \in Seq(Events) /\ events' \in Seq(Events)
    BY ConcatProperties DEF EventsFit
  <1>2. ASSUME NEW i \in 1..Len(events')
        PROVE  EventFits(events[i])' /\ events'[i].type # "none"
    <2>1. CASE i \in 1..Len(events)
      <3>1. PICK e : e = events[i]
        OBVIOUS
      <3>2. events'[i] = e
        BY <1>1, <2>1, <3>1, ConcatProperties
      <3>3. e \in Events /\ EventFits(e) /\ e.type # "none"
        BY <2>1, <3>1, ElementOfSeq DEF EventsFit
      <3>4. EventFits(e)'
        BY <3>3, EventKept
      <3>5. QED
        BY <3>2, <3>3, <3>4 DEF EventFits
    <2>2. CASE i \notin 1..Len(events)
      <3>1. PICK k \in 1..Len(es) : events'[i] = es[k]
        <4>1. Len(events') = Len(events) + Len(es) /\ Len(events) \in Nat /\ Len(es) \in Nat
          BY <1>1, ConcatProperties, LenProperties
        <4>2. i - Len(events) \in 1..Len(es) /\ i > Len(events)
          BY <2>2, <4>1
        <4>3. events'[i] = es[i - Len(events)]
          BY <1>1, <4>1, <4>2, ConcatProperties
        <4>4. QED
          BY <4>2, <4>3
      <3>2. QED
        BY <3>1 DEF EventFits
    <2>3. QED
      BY <2>1, <2>2
  <1>3. QED
    BY <1>1, <1>2 DEF EventsFit

\* Stripe changes subscription x and reports the events es.
LEMMA StripeChanges ==
    ASSUME IInv, NEW x \in StripeIds, NEW S \in StripeSub, S.status # "none", S.end # Null,
           NEW es \in Seq(Events), \A i \in 1..Len(es) : Reports(es[i], x, S),
           AtStripe(x, S, es), UNCHANGED sub
    PROVE  Grows /\ AtStripeFits' /\ EventsFit'
  <1>1. /\ granted \in Nat /\ granted' \in Nat /\ granted <= granted'
        /\ S.end \in Nat /\ S.end <= granted'
    BY DEF IInv, Rows, AtStripe, Promise, StripeSub
  <1>2. /\ stripe' \in [StripeIds -> StripeSub] /\ stripe'[x] = S
        /\ \A y \in StripeIds \ {x} : stripe'[y] = stripe[y]
    BY DEF AtStripe, IInv, AtStripeFits
  <1>3. Grows
    BY <1>1, <1>2 DEF Grows
  <1>4. AtStripeFits'
    <2>1. ASSUME NEW y \in StripeIds
          PROVE  /\ stripe'[y].end <= granted'
                 /\ stripe'[y].status # "none" => stripe'[y].end # Null
      <3>1. CASE y = x
        BY <1>1, <1>2, <3>1
      <3>2. CASE y # x
        <4>1. /\ stripe'[y] = stripe[y] /\ stripe[y].end \in Nat /\ stripe[y].end <= granted
              /\ stripe[y].status # "none" => stripe[y].end # Null
          BY <1>2, <3>2 DEF IInv, AtStripeFits, StripeSub
        <4>2. QED
          BY <1>1, <4>1
      <3>3. QED
        BY <3>1, <3>2
    <2>2. QED
      BY <1>2, <2>1 DEF AtStripeFits
  <1>5. EventsFit'
    <2>1. ASSUME NEW i \in 1..Len(es)
          PROVE  EventFits(es[i])' /\ es[i].type # "none"
      <3>1. PICK e : e = es[i]
        OBVIOUS
      <3>2. Reports(e, x, S)
        BY <3>1
      <3>3. e.end <= granted'
        BY <1>1, <3>2 DEF Reports, Null
      <3>4. QED
        BY <1>2, <3>1, <3>2, <3>3 DEF Reports, EventFits
    <2>2. QED
      BY <1>3, <2>1, NewEventsFit DEF IInv, AtStripe
  <1>6. QED
    BY <1>3, <1>4, <1>5

LEMMA OneReport ==
    ASSUME NEW x, NEW S, NEW e, Reports(e, x, S)
    PROVE  <<e>> \in Seq(Events) /\ \A i \in 1..Len(<<e>>) : Reports(<<e>>[i], x, S)
  BY DEF Reports

LEMMA TwoReports ==
    ASSUME NEW x, NEW S, NEW e, Reports(e, x, S), NEW f, Reports(f, x, S)
    PROVE  <<e, f>> \in Seq(Events) /\ \A i \in 1..Len(<<e, f>>) : Reports(<<e, f>>[i], x, S)
  BY DEF Reports

\* What Stripe does by itself leaves the program's rows alone.
LEMMA ElsewhereStep ==
    ASSUME IInv, NEW x \in StripeIds, NEW S \in StripeSub, S.status # "none", S.end # Null,
           NEW es \in Seq(Events), \A i \in 1..Len(es) : Reports(es[i], x, S),
           AtStripe(x, S, es), UNCHANGED <<sub, psub, actor, now>>, used' \in Counts,
           sessions' \subseteq PremiumPlans
    PROVE  IInv'
  <1>1. Grows /\ AtStripeFits' /\ EventsFit'
    BY StripeChanges
  <1>2. ActorsFit'
    BY <1>1, ActorsKept DEF IInv
  <1>3. Rows'
    BY <1>1, ExpiresIsNat DEF IInv, Rows, Grows
  <1>4. QED
    BY <1>1, <1>2, <1>3 DEF IInv

LEMMA PayStep ==
    ASSUME IInv, NEW p \in Plans, Pay(p)
    PROVE  IInv'
  <1>1. PICK x \in StripeIds : AtStripe(x, [NoStripeSub EXCEPT !.status = "active", !.plan = p,
                                                               !.end = now + Days[p]],
                                        <<[Event("checkout", x) EXCEPT !.plan = p]>>)
    BY DEF Pay
  <1>2. PICK S : S = [NoStripeSub EXCEPT !.status = "active", !.plan = p, !.end = now + Days[p]]
    OBVIOUS
  <1>3. now + Days[p] \in Nat /\ now + Days[p] # Null
    BY SubscriptionsAssumption DEF IInv, Rows, Null
  <1>4. S \in StripeSub /\ S.status # "none" /\ S.end # Null
    BY <1>2, <1>3 DEF NoStripeSub, StripeSub, Plans, Null
  <1>5. PICK e : e = [Event("checkout", x) EXCEPT !.plan = p]
    OBVIOUS
  <1>6. Reports(e, x, S)
    BY <1>5, StripeIdsAreNat DEF Reports, Event, Events, Types, Null
  <1>7. UNCHANGED <<sub, psub, actor, now>> /\ used' \in Counts /\ sessions' \subseteq PremiumPlans
    BY DEF Pay, IInv, Rows
  <1>8. QED
    BY <1>1, <1>2, <1>4, <1>5, <1>6, <1>7, OneReport, ElsewhereStep

LEMMA RunningFacts ==
    ASSUME IInv, NEW x, Running(x), x \in StripeIds
    PROVE  /\ stripe[x] \in StripeSub /\ stripe[x].status # "none"
           /\ stripe[x].end # Null /\ stripe[x].end \in Nat /\ stripe[x].schedule \in Nat
  BY DEF IInv, AtStripeFits, Running, StripeSub

LEMMA OverFacts ==
    ASSUME NEW S \in StripeSub, S.end # Null
    PROVE  Over(S) \in StripeSub /\ Over(S).status # "none" /\ Over(S).end # Null
  BY DEF Over, StripeSub, Null

LEMMA PeriodEndsStep ==
    ASSUME IInv, NEW x \in StripeIds, PeriodEnds(x)
    PROVE  IInv'
  <1> DEFINE S == stripe[x]
             plan == IF S.schedule # Null THEN S.next ELSE S.plan
             next == [S EXCEPT !.plan = plan, !.end = @ + Days[plan], !.schedule = Null]
  <1>1. /\ S \in StripeSub /\ S.status # "none" /\ S.end # Null /\ S.end \in Nat
        /\ S.schedule \in Nat
    BY RunningFacts DEF PeriodEnds
  <1>2. /\ UNCHANGED <<sub, psub, actor, now>> /\ used' \in Counts
        /\ sessions' \subseteq PremiumPlans /\ x \in Nat
    BY StripeIdsAreNat DEF PeriodEnds, Elsewhere, IInv, Rows
  <1>3. CASE S.atEnd
    <2>1. AtStripe(x, Over(S), <<Event("deleted", x)>>)
      BY <1>3 DEF PeriodEnds
    <2>2. PICK T : T = Over(S)
      OBVIOUS
    <2>3. T \in StripeSub /\ T.status # "none" /\ T.end # Null
      BY <1>1, <2>2, OverFacts
    <2>4. PICK e : e = Event("deleted", x)
      OBVIOUS
    <2>5. Reports(e, x, T)
      BY <1>2, <2>4, EventReports
    <2>6. QED
      BY <1>2, <2>1, <2>2, <2>3, <2>4, <2>5, OneReport, ElsewhereStep
  <1>4. CASE ~S.atEnd
    <2>1. PICK last \in {"completed", "released"} :
             AtStripe(x, next, <<Updated(x, next)>>
                               \o IF S.schedule # Null THEN <<Event(last, S.schedule)>> ELSE << >>)
      BY <1>4 DEF PeriodEnds
    <2>2. PICK T : T = next
      OBVIOUS
    <2>3. T \in StripeSub /\ T.status # "none" /\ T.end # Null
      <3>1. plan \in Plans
        BY <1>1 DEF StripeSub
      <3>2. PICK t : t = S.end + Days[plan]
        OBVIOUS
      <3>3. t \in Nat /\ t # Null
        BY <1>1, <3>1, <3>2, SubscriptionsAssumption DEF Null
      <3>4. T = [S EXCEPT !.plan = plan, !.end = t, !.schedule = Null]
        BY <2>2, <3>2
      <3>5. QED
        BY <1>1, <3>1, <3>3, <3>4 DEF StripeSub, Null
    <2>4. PICK e : e = Updated(x, T)
      OBVIOUS
    <2>5. Reports(e, x, T)
      BY <2>3, <2>4, UpdatedReports
    <2>6. CASE S.schedule # Null
      <3>1. PICK f : f = Event(last, S.schedule)
        OBVIOUS
      <3>2. Reports(f, x, T)
        BY <1>1, <3>1, EventReports
      <3>3. PICK es : es = <<e>> \o <<f>>
        OBVIOUS
      <3>4. es \in Seq(Events) /\ \A i \in 1..Len(es) : Reports(es[i], x, T)
        <4>1. /\ Len(<<e>>) = 1 /\ Len(<<f>>) = 1 /\ <<e>>[1] = e /\ <<f>>[1] = f
              /\ <<e>> \in Seq(Events) /\ <<f>> \in Seq(Events)
          BY <2>5, <3>2 DEF Reports
        <4>2. /\ es \in Seq(Events) /\ Len(es) = 2
              /\ es[1] = e /\ es[2] = f
          BY <3>3, <4>1, ConcatProperties
        <4>3. QED
          BY <2>5, <3>2, <4>2
      <3>5. AtStripe(x, T, es)
        BY <2>1, <2>2, <2>4, <2>6, <3>1, <3>3
      <3>6. QED
        BY <1>2, <2>3, <3>4, <3>5, ElsewhereStep
    <2>7. CASE S.schedule = Null
      <3>1. <<e>> \o << >> = <<e>>
        BY <2>5, ConcatEmptySeq DEF Reports
      <3>2. AtStripe(x, T, <<e>>)
        BY <2>1, <2>2, <2>4, <2>7, <3>1
      <3>3. QED
        BY <1>2, <2>3, <2>5, <3>2, OneReport, ElsewhereStep
    <2>8. QED
      BY <2>6, <2>7
  <1>5. QED
    BY <1>3, <1>4

LEMMA PortalStep ==
    ASSUME IInv, NEW x \in StripeIds, Portal(x)
    PROVE  IInv'
  <1>1. PICK S : S = [stripe[x] EXCEPT !.atEnd = ~@]
    OBVIOUS
  <1>2. S \in StripeSub /\ S.status # "none" /\ S.end # Null
    BY <1>1, RunningFacts DEF Portal, StripeSub
  <1>3. PICK e : e = Updated(x, S)
    OBVIOUS
  <1>4. Reports(e, x, S)
    BY <1>2, <1>3, UpdatedReports
  <1>5. AtStripe(x, S, <<e>>)
    BY <1>1, <1>3 DEF Portal
  <1>6. /\ UNCHANGED <<sub, psub, actor, now>> /\ used' \in Counts
        /\ sessions' \subseteq PremiumPlans
    BY UseFits DEF Portal, Request, Elsewhere, IInv, Rows
  <1>7. QED
    BY <1>2, <1>4, <1>5, <1>6, OneReport, ElsewhereStep

LEMMA PaymentStep ==
    ASSUME IInv, NEW x \in StripeIds, Payment(x)
    PROVE  IInv'
  <1>1. /\ stripe[x] \in StripeSub /\ stripe[x].status # "none" /\ stripe[x].end # Null
    BY DEF Payment, IInv, AtStripeFits, StripeSub
  <1>2. /\ UNCHANGED <<sub, psub, actor, now>> /\ used' \in Counts
        /\ sessions' \subseteq PremiumPlans /\ x \in Nat
    BY UseFits, StripeIdsAreNat DEF Payment, Request, Elsewhere, IInv, Rows
  <1>3. ASSUME NEW S, NEW type \in {"failed", "paid"}, NEW status \in {"past_due", "active"},
               S = [stripe[x] EXCEPT !.status = status],
               AtStripe(x, S, <<Event(type, x), Updated(x, S)>>)
        PROVE  IInv'
    <2>1. S \in StripeSub /\ S.status # "none" /\ S.end # Null
      BY <1>1, <1>3 DEF StripeSub
    <2>2. PICK e, f : e = Event(type, x) /\ f = Updated(x, S)
      OBVIOUS
    <2>3. Reports(e, x, S) /\ Reports(f, x, S)
      BY <1>2, <2>1, <2>2, EventReports, UpdatedReports
    <2>4. QED
      BY <1>2, <1>3, <2>1, <2>2, <2>3, TwoReports, ElsewhereStep
  <1>4. CASE AtStripe(x, Over(stripe[x]), <<Event("deleted", x)>>)
    <2>1. PICK T : T = Over(stripe[x])
      OBVIOUS
    <2>2. T \in StripeSub /\ T.status # "none" /\ T.end # Null
      BY <1>1, <2>1, OverFacts
    <2>3. PICK e : e = Event("deleted", x)
      OBVIOUS
    <2>4. Reports(e, x, T)
      BY <1>2, <2>3, EventReports
    <2>5. QED
      BY <1>2, <1>4, <2>1, <2>2, <2>3, <2>4, OneReport, ElsewhereStep
  <1>5. QED
    BY <1>3, <1>4 DEF Payment

-----------------------------------------------------------------------------
(* Requests that change Stripe, and webhooks.                               *)

\* A goroutine begins while Stripe or its events change.
LEMMA ChangingStep ==
    ASSUME IInv, Grows, AtStripeFits', EventsFit', NEW a \in Actors, NEW op \in Ops,
           NEW e \in Events, EventFits(e), NEW ws, Planned(ws), Start(a, op, e, ws),
           used' \in Counts, UNCHANGED sessions
    PROVE  IInv'
  <1>1. Planned(ws)' /\ EventFits(e)'
    BY PlannedKept, EventKept
  <1>2. ActorsFit'
    BY <1>1, StartFits DEF IInv
  <1>3. Rows'
    BY ExpiresIsNat DEF IInv, Rows, Grows, Start
  <1>4. QED
    BY <1>2, <1>3 DEF IInv

LEMMA ChangePlanStep ==
    ASSUME IInv, NEW a \in Actors, NEW p \in Plans, ChangePlan(a, p)
    PROVE  IInv'
  <1> DEFINE x == psub.link
  <1>1. x \in StripeIds /\ Running(x) /\ sub # NoSub
    BY DEF ChangePlan, Running, IInv, Rows, Provider
  <1>2. /\ stripe[x] \in StripeSub /\ stripe[x].status # "none"
        /\ stripe[x].end # Null /\ stripe[x].end \in Nat
    BY <1>1, RunningFacts
  <1>3. /\ used' \in Counts /\ UNCHANGED sessions /\ "ChangePlan" \in Ops
        /\ NoEvent \in Events /\ EventFits(NoEvent)
    BY UseFits, NoEventFits DEF ChangePlan, Request, IInv, Rows, Ops
  <1>4. sub \in Sub /\ sub.expires <= granted /\ psub \in Provider
    BY <1>1 DEF IInv, Rows
  <1>5. CASE handleUpgrade(a, x, p)
    <2>1. PICK S : S = Repriced(stripe[x], p)
      OBVIOUS
    <2>2. S \in StripeSub /\ S.status # "none" /\ S.end # Null
      <3>1. PICK t : t = IF p = stripe[x].plan THEN stripe[x].end ELSE now + Days[p]
        OBVIOUS
      <3>2. t \in Nat /\ t # Null
        BY <1>2, <3>1, SubscriptionsAssumption DEF IInv, Rows, Null
      <3>3. S = [stripe[x] EXCEPT !.plan = p, !.end = t]
        BY <2>1, <3>1 DEF Repriced
      <3>4. QED
        BY <1>2, <3>2, <3>3 DEF StripeSub
    <2>3. PICK e : e = Updated(x, S)
      OBVIOUS
    <2>4. Reports(e, x, S)
      BY <1>1, <2>2, <2>3, UpdatedReports
    <2>5. AtStripe(x, S, <<e>>) /\ UNCHANGED sub
      BY <1>5, <2>1, <2>3 DEF handleUpgrade, Start
    <2>6. Grows /\ AtStripeFits' /\ EventsFit'
      BY <1>1, <2>2, <2>4, <2>5, OneReport, StripeChanges
    <2>7. Planned(<<Save([sub EXCEPT !.plan = p])>>)
      BY <1>1, RequestsPlan DEF IInv
    <2>8. QED
      BY <1>3, <1>5, <2>6, <2>7, ChangingStep DEF handleUpgrade
  <1>6. CASE handleDowngrade(a, x, p)
    <2>0. PICK n : n = NewSchedule
      OBVIOUS
    <2>1. n \in Nat
      BY <2>0 DEF NewSchedule, IInv, Rows, Counts
    <2>2. PICK S : S = [stripe[x] EXCEPT !.schedule = n, !.next = p]
      OBVIOUS
    <2>3. S \in StripeSub /\ S.status # "none" /\ S.end # Null
      BY <1>2, <2>1, <2>2 DEF StripeSub
    <2>4. AtStripe(x, S, << >>) /\ UNCHANGED sub
      BY <1>6, <2>0, <2>2 DEF handleDowngrade, Start
    <2>5. Grows /\ AtStripeFits' /\ EventsFit'
      <3>1. PICK es : es = << >>
        OBVIOUS
      <3>2. es \in Seq(Events) /\ \A i \in 1..Len(es) : Reports(es[i], x, S)
        BY <3>1
      <3>3. QED
        BY <1>1, <2>3, <2>4, <3>1, <3>2, StripeChanges
    <2>6. PICK r : r = [psub EXCEPT !.schedule = n]
      OBVIOUS
    <2>7. PICK s : s = [sub EXCEPT !.pending = p]
      OBVIOUS
    <2>8. r \in Provider /\ s \in Sub /\ s.expires <= granted
      BY <1>4, <2>1, <2>6, <2>7 DEF Provider, Sub
    <2>9. Planned(<<SaveProvider(r), Save(s)>>)
      BY <1>1, <2>8, SaveFits, SaveProviderFits, TwoPlanned
    <2>10. QED
      BY <1>3, <1>6, <2>0, <2>5, <2>6, <2>7, <2>9, ChangingStep DEF handleDowngrade
  <1>7. QED
    BY <1>5, <1>6 DEF ChangePlan

LEMMA CancelStep ==
    ASSUME IInv, NEW a \in Actors, CancelScheduledChange(a)
    PROVE  IInv'
  <1> DEFINE y == psub.link
             event == Event("released", psub.schedule)
  <1>1. /\ sub \in Sub /\ sub # NoSub /\ sub.expires <= granted
        /\ psub \in Provider /\ psub.schedule \in Nat
        /\ granted' = granted /\ granted \in Nat /\ UNCHANGED <<sub, psub>>
    BY DEF CancelScheduledChange, Start, IInv, Rows, Provider
  <1>2. PICK x, stripe2 :
           /\ x \in StripeIds
           /\ stripe' = stripe2
           /\ \/ /\ stripe2 = [stripe EXCEPT ![x].schedule = Null]
                 /\ events' = Append(events, event)
              \/ /\ stripe2 = [[stripe EXCEPT ![x].schedule = Null] EXCEPT ![y].atEnd = FALSE]
                 /\ events' = events \o <<event, Updated(y, stripe2[y])>>
                 /\ Running(y)
    BY DEF CancelScheduledChange
  <1>3. y # Null => y \in StripeIds
    BY <1>1 DEF Provider
  <1>4. /\ stripe2 \in [StripeIds -> StripeSub]
        /\ \A z \in StripeIds : /\ stripe2[z].end = stripe[z].end
                                /\ stripe2[z].status = stripe[z].status
    <2>1. stripe \in [StripeIds -> StripeSub]
      BY DEF IInv, AtStripeFits
    <2>2. PICK released : released = [stripe EXCEPT ![x].schedule = Null]
      OBVIOUS
    <2>3. released = [stripe EXCEPT ![x] = [stripe[x] EXCEPT !.schedule = 0]]
      BY <2>1, <2>2 DEF Null
    <2>4. PICK S : S = [stripe[x] EXCEPT !.schedule = 0]
      OBVIOUS
    <2>5. S \in StripeSub /\ S.end = stripe[x].end /\ S.status = stripe[x].status
      <3>1. x \in StripeIds
        BY <1>2
      <3>2. stripe[x] \in StripeSub
        BY <2>1, <3>1
      <3>3. QED
        BY <2>4, <3>2 DEF StripeSub
    <2>6. /\ released \in [StripeIds -> StripeSub]
          /\ \A z \in StripeIds : /\ released[z].end = stripe[z].end
                                  /\ released[z].status = stripe[z].status
      BY <2>1, <2>3, <2>4, <2>5
    <2>7. PICK T : T = [released[y] EXCEPT !.atEnd = FALSE]
      OBVIOUS
    <2>8. y # Null => /\ T \in StripeSub /\ T.end = released[y].end
                      /\ T.status = released[y].status
      BY <1>3, <2>6, <2>7 DEF StripeSub
    <2>9. stripe2 = released \/ (stripe2 = [released EXCEPT ![y] = T] /\ y # Null)
      BY <1>2, <2>2, <2>7 DEF Running
    <2>10. QED
      BY <1>3, <2>6, <2>8, <2>9
  <1>5. AtStripeFits'
    BY <1>1, <1>2, <1>4 DEF IInv, AtStripeFits
  <1>6. Grows
    BY <1>1, <1>2, <1>4 DEF Grows
  <1>7. EventsFit'
    <2>1. PICK e : e = event
      OBVIOUS
    <2>2. e \in Events /\ e.type = "released" /\ e.end = Null
      BY <1>1, <2>1 DEF Event, Events, Types, Plans, Null
    <2>3. EventFits(e)'
      BY <1>1, <2>2 DEF EventFits, Null
    <2>4. CASE events' = Append(events, e)
      <3>1. events' = events \o <<e>>
        BY <2>2, <2>4, AppendIsConcat DEF IInv, EventsFit
      <3>2. \A i \in 1..Len(<<e>>) : EventFits(<<e>>[i])' /\ <<e>>[i].type # "none"
        BY <2>2, <2>3
      <3>3. <<e>> \in Seq(Events)
        BY <2>2
      <3>4. QED
        BY <1>6, <3>1, <3>2, <3>3, NewEventsFit DEF IInv
    <2>5. CASE events' = events \o <<e, Updated(y, stripe2[y])>> /\ Running(y)
      <3>1. PICK f : f = Updated(y, stripe2[y])
        OBVIOUS
      <3>2. /\ y \in StripeIds /\ stripe2[y] \in StripeSub /\ stripe2[y].end # Null
            /\ stripe2[y].end <= granted
        <4>1. y \in StripeIds
          BY <1>3, <2>5 DEF Running
        <4>2. stripe[y].end # Null /\ stripe[y].end <= granted
          BY <2>5, <4>1, RunningFacts DEF IInv, AtStripeFits
        <4>3. QED
          BY <1>4, <4>1, <4>2
      <3>3. Reports(f, y, stripe2[y]) /\ f.type = "updated"
        BY <3>1, <3>2, UpdatedReports DEF Updated, Event
      <3>4. f \in Events /\ f.type # "none" /\ EventFits(f)'
        <4>1. f \in Events /\ f.id \in StripeIds /\ f.end # Null /\ f.end <= granted'
          BY <1>1, <3>2, <3>3 DEF Reports, Null
        <4>2. QED
          BY <3>3, <4>1 DEF EventFits
      <3>5. <<e, f>> \in Seq(Events)
        BY <2>2, <3>4
      <3>6. \A i \in 1..Len(<<e, f>>) : EventFits(<<e, f>>[i])' /\ <<e, f>>[i].type # "none"
        BY <2>2, <2>3, <3>4
      <3>7. QED
        BY <1>6, <2>5, <3>1, <3>5, <3>6, NewEventsFit DEF IInv
    <2>6. QED
      BY <1>2, <2>1, <2>4, <2>5
  <1>8. PICK ws : /\ Start(a, "CancelScheduledChange", NoEvent, ws)
                  /\ \/ ws = << >>
                     \/ ws = <<SaveProvider([psub EXCEPT !.schedule = Null]),
                               Save([sub EXCEPT !.pending = NoPlan, !.canceled = FALSE])>>
    BY DEF CancelScheduledChange
  <1>9. Planned(ws)
    <2>1. PICK r, s : /\ r = [psub EXCEPT !.schedule = Null]
                      /\ s = [sub EXCEPT !.pending = NoPlan, !.canceled = FALSE]
      OBVIOUS
    <2>2. r \in Provider /\ s \in Sub /\ s.expires <= granted
      BY <1>1, <2>1 DEF Provider, Sub, Null
    <2>3. Planned(<<SaveProvider(r), Save(s)>>)
      BY <1>1, <2>2, SaveFits, SaveProviderFits, TwoPlanned
    <2>4. QED
      BY <1>8, <2>1, <2>3, NothingPlanned
  <1>10. /\ used' \in Counts /\ UNCHANGED sessions /\ "CancelScheduledChange" \in Ops
         /\ NoEvent \in Events /\ EventFits(NoEvent)
    BY UseFits, NoEventFits DEF CancelScheduledChange, Request, IInv, Rows, Ops
  <1>11. QED
    BY <1>5, <1>6, <1>7, <1>8, <1>9, <1>10, ChangingStep

\* An event that is delivered leaves the queue.
\* The events that are left when one of them has been delivered.
LEMMA Removal ==
    ASSUME EventsFit, NEW i \in 1..Len(events), NEW rest, rest = RemoveAt(events, i)
    PROVE  /\ Len(events) \in Nat /\ rest \in Seq(Events) /\ Len(rest) = Len(events) - 1
           /\ \A j \in 1..(Len(events) - 1) : rest[j] = IF j < i THEN events[j] ELSE events[j + 1]
  <1> DEFINE n == Len(events)
             before == SubSeq(events, 1, i - 1)
             after  == SubSeq(events, i + 1, n)
  <1>1. n \in Nat /\ i \in 1..n
    BY LenProperties DEF EventsFit
  <1>2. /\ before \in Seq(Events) /\ Len(before) = i - 1
        /\ \A j \in 1..(i - 1) : before[j] = events[j]
    <2>1. 1 \in 1..(n + 1) /\ i - 1 \in 0..n
      BY <1>1
    <2>2. ASSUME NEW j \in 1..n, j < i PROVE events[j] \in Events
      BY <2>2, ElementOfSeq DEF EventsFit
    <2>3. \A j \in 1..(i - 1) : events[j] \in Events
      BY <1>1, <2>2
    <2>4. QED
      BY <1>1, <2>1, SubSeqProperties DEF EventsFit
  <1>3. /\ after \in Seq(Events) /\ Len(after) = n - i
        /\ \A j \in 1..(n - i) : after[j] = events[i + j]
    <2>1. i + 1 \in 1..(n + 1) /\ n \in i..n
      BY <1>1
    <2>2. QED
      BY <1>1, <2>1, SubSeqProperties DEF EventsFit
  <1>4. rest = before \o after
    BY DEF RemoveAt
  <1> HIDE DEF before, after
  <1>5. /\ rest \in Seq(Events) /\ Len(rest) = n - 1
        /\ \A j \in 1..(n - 1) : rest[j] = IF j < i THEN events[j] ELSE events[j + 1]
    <2>1. rest \in Seq(Events) /\ Len(rest) = n - 1
      <3>1. rest \in Seq(Events) /\ Len(rest) = Len(before) + Len(after)
        BY <1>2, <1>3, <1>4, ConcatProperties
      <3>2. QED
        BY <1>1, <1>2, <1>3, <3>1
    <2>2. ASSUME NEW j \in 1..(n - 1)
          PROVE  rest[j] = IF j < i THEN events[j] ELSE events[j + 1]
      <3>1. rest[j] = IF j <= i - 1 THEN before[j] ELSE after[j - (i - 1)]
        <4>1. j \in 1..(Len(before) + Len(after))
          BY <1>1, <1>2, <1>3
        <4>2. rest[j] = IF j <= Len(before) THEN before[j] ELSE after[j - Len(before)]
          BY <1>2, <1>3, <1>4, <4>1, ConcatProperties
        <4>3. QED
          BY <1>2, <4>2
      <3>2. CASE j < i
        BY <1>1, <1>2, <3>1, <3>2
      <3>3. CASE ~(j < i)
        <4>1. j - (i - 1) \in 1..(n - i) /\ i + (j - (i - 1)) = j + 1
          BY <1>1, <3>3
        <4>2. QED
          BY <1>1, <1>3, <3>1, <3>3, <4>1
      <3>4. QED
        BY <3>2, <3>3
    <2>3. QED
      BY <2>1, <2>2
  <1>6. QED
    BY <1>1, <1>5

LEMMA RemovedFits ==
    ASSUME EventsFit, Grows, NEW i \in 1..Len(events), events' = RemoveAt(events, i)
    PROVE  EventsFit'
  <1>1. PICK n, rest : n = Len(events) /\ rest = RemoveAt(events, i)
    OBVIOUS
  <1>2. /\ n \in Nat /\ rest \in Seq(Events) /\ Len(rest) = n - 1 /\ events' = rest
        /\ \A j \in 1..(n - 1) : rest[j] = IF j < i THEN events[j] ELSE events[j + 1]
    BY <1>1, Removal
  <1>3. ASSUME NEW j \in 1..Len(events')
        PROVE  EventFits(events[j])' /\ events'[j].type # "none"
    <2>1. PICK k \in 1..n : events'[j] = events[k]
      BY <1>1, <1>2
    <2>2. PICK e : e = events[k]
      OBVIOUS
    <2>3. e \in Events /\ EventFits(e) /\ e.type # "none"
      BY <1>1, <2>2, ElementOfSeq DEF EventsFit
    <2>4. EventFits(e)'
      BY <2>3, EventKept
    <2>5. QED
      BY <2>1, <2>2, <2>3, <2>4 DEF EventFits
  <1>4. QED
    BY <1>2, <1>3 DEF EventsFit

LEMMA WebhookStep ==
    ASSUME IInv, NEW a \in Actors, NEW i \in DOMAIN events, Webhook(a, i)
    PROVE  IInv'
  <1>1. i \in 1..Len(events)
    BY LenProperties DEF IInv, EventsFit
  <1>2. PICK e : e = events[i]
    OBVIOUS
  <1>3. e \in Events /\ EventFits(e) /\ e.type # "none"
    BY <1>1, <1>2, ElementOfSeq DEF IInv, EventsFit
  <1>4. Planned(HandleWebhook(e))
    BY <1>3, WebhookPlans DEF IInv
  <1>5. Start(a, "Webhook", e, HandleWebhook(e)) /\ UNCHANGED <<sub, psub, stripe, sessions, granted>>
    BY <1>2 DEF Webhook, Start
  <1>6. Grows
    BY <1>5, QuietGrows DEF IInv, Rows
  <1>7. AtStripeFits'
    BY <1>5 DEF IInv, AtStripeFits
  <1>8. EventsFit'
    BY <1>1, <1>6, EventsKept, RemovedFits DEF Webhook, IInv
  <1>9. used' \in Counts /\ "Webhook" \in Ops
    BY UseFits DEF Webhook, IInv, Rows, Ops
  <1>10. QED
    BY <1>3, <1>4, <1>5, <1>6, <1>7, <1>8, <1>9, ChangingStep

-----------------------------------------------------------------------------
(* Goroutines, and the process.                                             *)

LEMMA NextStatement ==
    ASSUME NEW ws, Planned(ws), ws # << >>
    PROVE  /\ Head(ws) = ws[1] /\ ws[1] \in Statement /\ StatementFits(ws[1])
           /\ Planned(Tail(ws)) /\ Len(ws) \in Nat /\ Len(ws) > 0
           /\ Len(Tail(ws)) = Len(ws) - 1
           /\ \A k \in 1..Len(Tail(ws)) : Tail(ws)[k] = ws[k + 1]
  <1>1. /\ Len(ws) \in Nat /\ Len(ws) > 0 /\ Head(ws) = ws[1]
        /\ Tail(ws) \in Seq(Statement) /\ Len(Tail(ws)) = Len(ws) - 1
        /\ \A k \in 1..Len(Tail(ws)) : Tail(ws)[k] = ws[k + 1]
    BY HeadTailProperties, EmptySeq, LenProperties DEF Planned
  <1>2. ws[1] \in Statement /\ StatementFits(ws[1])
    BY <1>1, ElementOfSeq DEF Planned
  <1>3. ASSUME NEW k \in 1..Len(Tail(ws)) PROVE StatementFits(Tail(ws)[k])
    <2>1. k + 1 \in 1..Len(ws) /\ Tail(ws)[k] = ws[k + 1]
      BY <1>1
    <2>2. StatementFits(ws[k + 1])
      BY <2>1 DEF Planned
    <2>3. QED
      BY <2>1, <2>2
  <1>4. QED
    BY <1>1, <1>2, <1>3 DEF Planned

\* What one statement does to the rows.
LEMMA Written ==
    ASSUME IInv, NEW a \in Actors, Write(a), NEW w, w = Head(actor[a].writes)
    PROVE  /\ w \in Statement /\ StatementFits(w) /\ actor[a].writes # << >>
           /\ Left(a) /\ UNCHANGED <<stripe, events, now, used, granted>>
           /\ sub' = sub \/ (w.to \in RowWrites /\ sub' \in Sub /\ sub'.expires = w.row.expires
                             /\ sub'.plan = w.row.plan /\ sub'.pending = w.row.pending)
           /\ psub' = psub \/ (w.to \in ProviderWrites /\ psub' = w.row)
           /\ w.to \in RowWrites => sub'.expires = w.row.expires /\ psub' = psub
           /\ w.to \in ProviderWrites => psub' = w.row /\ sub' = sub
           /\ w.to \notin RowWrites \cup ProviderWrites => psub' = psub /\ sub' = sub
           /\ sessions' \subseteq PremiumPlans
  <1>1. /\ actor[a].writes # << >> /\ Left(a) /\ UNCHANGED <<stripe, events, now, used, granted>>
    BY DEF Write
  <1>2. w \in Statement /\ StatementFits(w)
    BY <1>1, NextStatement DEF IInv, ActorsFit, Fits
  <1>3. CASE w.to \in {"sub", "new"}
    <2>1. sub' = w.row /\ psub' = psub /\ sessions' = sessions
      BY <1>3 DEF Write
    <2>2. w.row \in Sub
      BY <1>2, <1>3 DEF Statement, ProviderWrites
    <2>3. QED
      BY <1>1, <1>2, <1>3, <2>1, <2>2 DEF IInv, Rows, RowWrites, ProviderWrites
  <1>4. CASE w.to = "some"
    <2>1. /\ sub' = [sub EXCEPT !.plan = w.row.plan, !.expires = w.row.expires,
                                !.active = w.row.active, !.pending = w.row.pending]
          /\ psub' = psub /\ sessions' = sessions
      BY <1>4 DEF Write
    <2>2. w.row \in Sub
      BY <1>2, <1>4 DEF Statement, ProviderWrites
    <2>3. /\ sub' \in Sub /\ sub'.expires = w.row.expires
          /\ sub'.plan = w.row.plan /\ sub'.pending = w.row.pending
      <3>1. CASE sub \in Sub
        BY <2>1, <2>2, <3>1 DEF Sub
      <3>2. CASE sub = NoSub
        <4>1. sub' = [plan |-> w.row.plan, trialEnds |-> Null, expires |-> w.row.expires,
                      canceled |-> FALSE, active |-> w.row.active, pending |-> w.row.pending]
          BY <2>1, <3>2 DEF NoSub
        <4>2. QED
          BY <2>2, <4>1 DEF Sub, Null
      <3>3. QED
        BY <3>1, <3>2 DEF IInv, Rows
    <2>4. QED
      BY <1>1, <1>2, <1>4, <2>1, <2>3 DEF IInv, Rows, RowWrites, ProviderWrites
  <1>5. CASE w.to \in ProviderWrites
    <2>1. psub' = w.row /\ sub' = sub /\ sessions' = sessions
      BY <1>5 DEF Write, ProviderWrites
    <2>2. QED
      BY <1>1, <1>2, <1>5, <2>1 DEF IInv, Rows, RowWrites, ProviderWrites
  <1>6. CASE w.to = "session"
    <2>1. psub' = psub /\ sub' = sub /\ sessions' = sessions \cup {w.row.plan}
      BY <1>6 DEF Write
    <2>2. w.row.plan \in PremiumPlans
      BY <1>2, <1>6 DEF Statement, RowWrites, ProviderWrites
    <2>3. QED
      BY <1>1, <1>2, <1>6, <2>1, <2>2 DEF IInv, Rows, RowWrites, ProviderWrites
  <1>7. QED
    BY <1>2, <1>3, <1>4, <1>5, <1>6 DEF Statement, RowWrites

LEMMA WriteStep ==
    ASSUME IInv, NEW a \in Actors, Write(a)
    PROVE  IInv'
  <1>1. PICK w : w = Head(actor[a].writes)
    OBVIOUS
  <1>2. /\ w \in Statement /\ StatementFits(w) /\ actor[a].writes # << >>
        /\ Left(a) /\ UNCHANGED <<stripe, events, now, used, granted>>
        /\ sub' = sub \/ (w.to \in RowWrites /\ sub' \in Sub /\ sub'.expires = w.row.expires)
        /\ psub' = psub \/ (w.to \in ProviderWrites /\ psub' = w.row)
        /\ sessions' \subseteq PremiumPlans
    BY <1>1, Written
  <1>3. Grows
    BY <1>2, QuietGrows DEF IInv, Rows
  <1>4. Rows'
    <2>1. sub' \in Sub \cup {NoSub} /\ sub'.expires <= granted'
      BY <1>2 DEF IInv, Rows, StatementFits
    <2>2. psub' \in Provider /\ (psub'.link # Null => sub' # NoSub)
      <3>1. w.to \in ProviderWrites => w.row \in Provider
        BY <1>2 DEF Statement, RowWrites, ProviderWrites
      <3>2. QED
        BY <1>2, <1>3, <3>1 DEF IInv, Rows, StatementFits, Grows
    <2>3. QED
      BY <1>2, <2>1, <2>2 DEF IInv, Rows
  <1>5. ActorsFit'
    <2>1. PICK r : r = actor[a]
      OBVIOUS
    <2>2. r \in Goroutine /\ Fits(r)
      BY <2>1 DEF IInv, ActorsFit
    <2>3. PICK q : q = [r EXCEPT !.writes = Tail(r.writes)]
      OBVIOUS
    <2>4. Planned(Tail(r.writes))
      BY <1>2, <2>1, <2>2, NextStatement DEF Fits
    <2>5. q \in Goroutine /\ Fits(q)
      <3>1. Tail(r.writes) \in Seq(Statement)
        BY <2>4 DEF Planned
      <3>2. q \in Goroutine /\ q.event = r.event /\ q.writes = Tail(r.writes)
        BY <2>2, <2>3, <3>1 DEF Goroutine
      <3>3. QED
        BY <2>2, <2>4, <3>2 DEF Fits
    <2>6. Fits(q)'
      BY <1>3, <2>5, FitsKept
    <2>7. actor' = [actor EXCEPT ![a] = q]
      BY <1>2, <2>1, <2>3 DEF Left, IInv, ActorsFit
    <2>8. QED
      BY <1>3, <2>5, <2>6, <2>7, OthersFit DEF IInv
  <1>6. QED
    BY <1>2, <1>3, <1>4, <1>5, EventsKept DEF IInv, AtStripeFits

LEMMA ReturnStep ==
    ASSUME IInv, NEW a \in Actors, Return(a)
    PROVE  IInv'
  <1>1. UNCHANGED <<sub, psub, stripe, sessions, events, now, granted>> /\ used' \in Counts
    BY UseFits DEF Return, external, IInv, Rows
  <1>2. Grows
    BY <1>1, QuietGrows DEF IInv, Rows
  <1>3. ActorsFit'
    <2>1. Idle \in Goroutine /\ Fits(Idle)
      BY IdleFits DEF IInv, Rows
    <2>2. Fits(Idle)'
      BY <1>2, <2>1, FitsKept
    <2>3. QED
      BY <1>2, <2>1, <2>2, OthersFit DEF Return, IInv
  <1>4. QED
    BY <1>1, <1>2, <1>3, EventsKept DEF IInv, Rows, AtStripeFits

\* The events of a set, in any order.
LEMMA SetToSeqFacts ==
    ASSUME NEW S, IsFiniteSet(S)
    PROVE  SetToSeq(S) \in Seq(S)
  <1>1. Cardinality(S) \in Nat /\ ExistsBijection(1..Cardinality(S), S)
    BY FS_CardinalityType
  <1>2. PICK f : f \in Bijection(1..Cardinality(S), S)
    BY <1>1 DEF ExistsBijection
  <1>3. f \in [1..Cardinality(S) -> S] /\ IsInjective(f)
    BY <1>2 DEF Bijection, Injection
  <1>4. SetToSeq(S) \in [1..Cardinality(S) -> S]
    BY <1>3 DEF SetToSeq
  <1>5. QED
    BY <1>1, <1>4, SeqDef

LEMMA CrashStep ==
    ASSUME IInv, Crash
    PROVE  IInv'
  <1> DEFINE busy == {b \in Actors : actor[b].event # NoEvent}
             unanswered == {actor[b].event : b \in busy}
  <1>1. UNCHANGED <<sub, psub, stripe, sessions, now, granted>> /\ used' \in Counts
    BY UseFits DEF Crash, IInv, Rows
  <1>2. Grows
    BY <1>1, QuietGrows DEF IInv, Rows
  <1>3. ActorsFit'
    <2>1. Idle \in Goroutine /\ Fits(Idle)
      BY IdleFits DEF IInv, Rows
    <2>2. Fits(Idle)'
      BY <1>2, <2>1, FitsKept
    <2>3. actor' = [b \in Actors |-> Idle]
      BY DEF Crash
    <2>4. ASSUME NEW b \in Actors PROVE Fits(actor[b])'
      <3>1. actor'[b] = Idle
        BY <2>3
      <3>2. QED
        BY <2>2, <3>1 DEF Fits, Planned, EventFits, StatementFits
    <2>5. QED
      BY <2>1, <2>3, <2>4 DEF ActorsFit
  <1>4. ASSUME NEW e \in unanswered
        PROVE  e \in Events /\ EventFits(e) /\ e.type # "none"
    <2>1. PICK b \in busy : e = actor[b].event
      OBVIOUS
    <2>2. e \in Events /\ EventFits(e) /\ e # NoEvent
      BY <2>1 DEF IInv, ActorsFit, Fits, Goroutine
    <2>3. QED
      BY <2>2 DEF EventFits
  <1>5. SetToSeq(unanswered) \in Seq(unanswered)
    <2>1. IsFiniteSet(busy)
      BY FS_Subset, SubscriptionsAssumption
    <2>2. PICK f : f = [b \in busy |-> actor[b].event]
      OBVIOUS
    <2>3. f \in Surjection(busy, unanswered)
      BY <2>2 DEF Surjection
    <2>4. IsFiniteSet(unanswered)
      BY <2>1, <2>3, FS_Surjection
    <2>5. QED
      BY <2>4, SetToSeqFacts
  <1>6. PICK es : es = SetToSeq(unanswered)
    OBVIOUS
  <1>7. es \in Seq(Events) /\ \A i \in 1..Len(es) : EventFits(es[i])' /\ es[i].type # "none"
    <2>1. \A i \in 1..Len(es) : es[i] \in unanswered
      BY <1>5, <1>6, ElementOfSeq
    <2>2. es \in Seq(Events)
      <3>1. unanswered \subseteq Events
        BY <1>4
      <3>2. QED
        BY <1>5, <1>6, <3>1, SeqMonotonic
    <2>3. ASSUME NEW i \in 1..Len(es)
          PROVE  EventFits(es[i])' /\ es[i].type # "none"
      <3>1. PICK e : e = es[i]
        OBVIOUS
      <3>2. e \in Events /\ EventFits(e) /\ e.type # "none"
        BY <1>4, <2>1, <3>1
      <3>3. EventFits(e)'
        BY <1>2, <3>2, EventKept
      <3>4. QED
        BY <3>1, <3>2, <3>3
    <2>4. QED
      BY <2>2, <2>3
  <1>8. EventsFit'
    <2>1. events' = events \o es
      BY <1>6 DEF Crash
    <2>2. QED
      BY <1>2, <1>7, <2>1, NewEventsFit DEF IInv
  <1>9. QED
    BY <1>1, <1>3, <1>8 DEF IInv, Rows, AtStripeFits

LEMMA TickStep ==
    ASSUME IInv, Tick \/ UNCHANGED vars
    PROVE  IInv'
  <1>1. UNCHANGED <<sub, psub, actor, stripe, sessions, events, used, granted>>
    BY DEF Tick, vars, external
  <1>2. Grows
    BY <1>1, QuietGrows DEF IInv, Rows
  <1>3. now' \in 1..MaxNow
    BY SubscriptionsAssumption DEF Tick, vars, IInv, Rows
  <1>4. QED
    BY <1>1, <1>2, <1>3, ActorsKept, EventsKept DEF IInv, Rows, AtStripeFits

-----------------------------------------------------------------------------
(* The theorems for any number of goroutines.                               *)

LEMMA InitIInv == Init => IInv
  <1> SUFFICES ASSUME Init PROVE IInv
    OBVIOUS
  <1>1. sub \in Sub \cup {NoSub} /\ sub.expires = Null
    <2>1. 1 + TrialDays \in Nat
      BY SubscriptionsAssumption
    <2>2. PICK s : s = CreateTrialSubscription
      OBVIOUS
    <2>3. s = [plan |-> "trial", trialEnds |-> 1 + TrialDays, expires |-> Null,
               canceled |-> FALSE, active |-> TRUE, pending |-> NoPlan]
      BY <2>2 DEF CreateTrialSubscription, NewSub, NoSub
    <2>4. s \in Sub /\ s.expires = Null
      BY <2>1, <2>3 DEF Sub, Plans, Null
    <2>5. sub = s \/ sub = NoSub
      BY <2>2 DEF Init
    <2>6. QED
      BY <2>4, <2>5 DEF NoSub
  <1>2. Rows
    BY <1>1, SubscriptionsAssumption DEF Init, Rows, NoProvider, Provider, Counts, Null
  <1>3. AtStripeFits
    BY DEF Init, AtStripeFits, NoStripeSub, StripeSub, Plans, Null
  <1>4. EventsFit
    BY DEF Init, EventsFit
  <1>5. ActorsFit
    BY IdleFits DEF Init, ActorsFit
  <1>6. QED
    BY <1>2, <1>3, <1>4, <1>5 DEF IInv

LEMMA NextStep == IInv /\ [Next]_vars => IInv'
  <1> SUFFICES ASSUME IInv, [Next]_vars PROVE IInv'
    OBVIOUS
  <1>1. ASSUME NEW a \in Actors,
               \/ GetStatus(a) \/ ScheduleDowngrade(a) \/ CancelScheduledChange(a)
               \/ \E p \in Plans : Upgrade(a, p) \/ CreateCheckout(a, p) \/ ChangePlan(a, p)
               \/ ProcessRenewals(a) \/ ProcessExpiredDowngrades(a)
        PROVE  IInv'
    BY <1>1, StatusStep, DowngradeStep, CancelStep, UpgradeStep, CheckoutStep,
       ChangePlanStep, JobStep
  <1>2. ASSUME NEW a \in Actors, NEW i \in DOMAIN events, Webhook(a, i) PROVE IInv'
    BY <1>2, WebhookStep
  <1>3. ASSUME NEW a \in Actors, Write(a) \/ Return(a) PROVE IInv'
    BY <1>3, WriteStep, ReturnStep
  <1>4. ASSUME NEW p \in Plans, Pay(p) PROVE IInv'
    BY <1>4, PayStep
  <1>5. ASSUME NEW x \in StripeIds, PeriodEnds(x) \/ Portal(x) \/ Payment(x) PROVE IInv'
    BY <1>5, PeriodEndsStep, PortalStep, PaymentStep
  <1>6. CASE Crash
    BY <1>6, CrashStep
  <1>7. CASE Tick \/ UNCHANGED vars
    BY <1>7, TickStep
  <1>8. QED
    BY <1>1, <1>2, <1>3, <1>4, <1>5, <1>6, <1>7 DEF Next

\* The inductive invariant holds in every reachable state, for any constants.
THEOREM SubscriptionsInvariant == Spec => []IInv
  BY InitIInv, NextStep, PTL DEF Spec

\* Whatever requests, jobs and webhooks of any number of goroutines do in any order,
\* with lost, repeated and late events, failing statements and crashes, the rows keep
\* the types of their columns, and so does what is written next: a pending downgrade
\* names a plan, a link a Stripe subscription, and no handler writes a row it did
\* not find.
THEOREM SubscriptionsTyped == Spec => []TypeOK
  <1>1. IInv => TypeOK
    <2> SUFFICES ASSUME IInv PROVE TypeOK
      OBVIOUS
    <2>1. ASSUME NEW a \in Actors, NEW k \in DOMAIN actor[a].writes
          PROVE  LET w == actor[a].writes[k]
                 IN  /\ w.to \in Writes
                     /\ w.to \in {"sub", "some", "new"} => w.row \in Sub
                     /\ w.to \in {"psub", "new_psub"} => w.row \in Provider
      <3>1. actor[a].writes \in Seq(Statement)
        BY DEF IInv, ActorsFit, Goroutine
      <3>2. actor[a].writes[k] \in Statement
        BY <3>1, ElementOfSeq, LenProperties
      <3>3. QED
        BY <3>2 DEF Statement, RowWrites, ProviderWrites, Writes
    <2>2. QED
      BY <2>1 DEF IInv, Rows, AtStripeFits, TypeOK
  <1>2. QED
    BY <1>1, SubscriptionsInvariant, PTL

\* Premium access that has an end has one that was promised.
EndsArePromised == GetEffectivePlanType(sub) = "premium" /\ sub.expires # Null => now <= granted

LEMMA PromiseKept == IInv => EndsArePromised
  <1> SUFFICES ASSUME IInv, GetEffectivePlanType(sub) = "premium", sub.expires # Null
               PROVE  now <= granted
    BY DEF EndsArePromised
  <1>1. sub.expires \in Nat /\ sub.expires <= granted /\ granted \in Nat /\ now \in Nat
    BY ExpiresIsNat DEF IInv, Rows
  <1>2. sub.plan \in PremiumPlans
    BY DEF GetEffectivePlanType, PlanType, PremiumPlans, IInv, Rows, Sub, NoSub, Plans, NoPlan
  <1>3. ~Expired(sub.expires)
    BY <1>2 DEF GetEffectivePlanType
  <1>4. QED
    BY <1>1, <1>3 DEF Expired

\* The end of a premium plan is one somebody was promised, by an upgrade or by Stripe:
\* for any number of goroutines and whatever fails, premium access with an end
\* never outlives the latest promise.
THEOREM SubscriptionsEndsArePromised == Spec => []EndsArePromised
  BY SubscriptionsInvariant, PromiseKept, PTL

-----------------------------------------------------------------------------
(* Goroutines that run one after the other: as long as nothing fails, a     *)
(* premium plan has an end.                                                 *)

Sequential == \A a, b \in Actors : a = b

Faults == used.errors + used.crashes

\* A premium plan has an end, now or when it is pending.
Ends(s) == {s.plan, s.pending} \cap PremiumPlans # {} => s.expires # Null

\* Whoever is linked to Stripe has a row with an end.
Settles(link, expires) == link # Null => expires # Null

Settled == Ends(sub) /\ Settles(psub.link, sub.expires)

LinkAfter(link, w) == IF w.to \in ProviderWrites THEN w.row.link ELSE link
EndAfter(expires, w) == IF w.to \in RowWrites THEN w.row.expires ELSE expires

\* The statements a goroutine has left, the last of which leaves the rows settled; in
\* front of a statement that may be refused they are settled too.
Settling(ws) ==
    /\ Len(ws) <= 2
    /\ \A k \in 1..Len(ws) : ws[k].to \in RowWrites => Ends(ws[k].row)
    /\ Len(ws) = 0 => Settles(psub.link, sub.expires)
    /\ Len(ws) = 1 => Settles(LinkAfter(psub.link, ws[1]), EndAfter(sub.expires, ws[1]))
    /\ Len(ws) = 2 =>
          /\ Settles(LinkAfter(LinkAfter(psub.link, ws[1]), ws[2]),
                     EndAfter(EndAfter(sub.expires, ws[1]), ws[2]))
          /\ ws[2].to \notin {"new", "new_psub"}
    /\ Len(ws) > 0 /\ ws[1].to \in {"new", "new_psub"} => Settles(psub.link, sub.expires)

\* The second inductive invariant: unless a statement failed or the process died, the
\* rows are settled as soon as the goroutine is done.
Whole == Faults = 0 => Ends(sub) /\ \A a \in Actors : Settling(actor[a].writes)

LEMMA NothingSettles == ASSUME Settled PROVE Settling(<< >>)
  BY DEF Settled, Settling

LEMMA OneSettles ==
    ASSUME NEW w, w.to \in RowWrites => Ends(w.row), Settled,
           Settles(LinkAfter(psub.link, w), EndAfter(sub.expires, w))
    PROVE  Settling(<<w>>)
  BY DEF Settling, Settled

LEMMA TwoSettle ==
    ASSUME NEW w, w.to \in RowWrites => Ends(w.row),
           NEW z, z.to \in RowWrites => Ends(z.row), Settled,
           Settles(LinkAfter(LinkAfter(psub.link, w), z), EndAfter(EndAfter(sub.expires, w), z)),
           z.to \notin {"new", "new_psub"}
    PROVE  Settling(<<w, z>>)
  BY DEF Settling, Settled

\* A row that keeps its end.
LEMMA SameEnd ==
    ASSUME NEW s, s.expires = sub.expires, Ends(s), Settled
    PROVE  Settling(<<Save(s)>>) /\ Settling(<<Update(s)>>)
  BY OneSettles DEF Settled, Settles, LinkAfter, EndAfter, Save, Update, RowWrites, ProviderWrites

LEMMA RequestsSettle ==
    ASSUME Rows, sub # NoSub, Settled
    PROVE  /\ Settling(<<Update([sub EXCEPT !.plan = "free", !.active = TRUE])>>)
           /\ Settling(<<Save([sub EXCEPT !.pending = "free"])>>)
           /\ Settling(<<Save([sub EXCEPT !.plan = "free", !.pending = NoPlan, !.active = TRUE])>>)
           /\ Settling(<<Update([sub EXCEPT !.plan = "free"])>>)
           /\ Settling(<<Update([sub EXCEPT !.active = FALSE])>>)
           /\ sub.expires # Null => \A p \in Plans : Settling(<<Save([sub EXCEPT !.plan = p])>>)
           /\ Settling(<<Save([sub EXCEPT !.plan = sub.pending, !.pending = NoPlan, !.active = TRUE])>>)
  <1> DEFINE Fine(s) == s.expires = sub.expires /\ Ends(s)
  <1>1. sub \in Sub
    BY DEF Rows
  <1>2. ASSUME NEW s, Fine(s)
        PROVE  Settling(<<Save(s)>>) /\ Settling(<<Update(s)>>)
    BY <1>2, SameEnd
  <1>3. /\ Fine([sub EXCEPT !.plan = "free", !.active = TRUE])
        /\ Fine([sub EXCEPT !.pending = "free"])
        /\ Fine([sub EXCEPT !.plan = "free", !.pending = NoPlan, !.active = TRUE])
        /\ Fine([sub EXCEPT !.plan = "free"])
        /\ Fine([sub EXCEPT !.active = FALSE])
        /\ Fine([sub EXCEPT !.plan = sub.pending, !.pending = NoPlan, !.active = TRUE])
    BY <1>1 DEF Sub, Plans, Settled, Ends, PremiumPlans, NoPlan
  <1>4. sub.expires # Null => \A p \in Plans : Fine([sub EXCEPT !.plan = p])
    BY <1>1 DEF Sub, Ends
  <1> HIDE DEF Fine
  <1>5. QED
    BY <1>2, <1>3, <1>4

LEMMA UpgradeSettles ==
    ASSUME Rows, Settled, NEW p \in Plans, NEW s, s = Subscribed(sub, p)
    PROVE  Settling(<<Insert(s)>>) /\ Settling(<<Update(s)>>)
  <1>1. sub.expires \in Nat /\ now \in 1..MaxNow /\ Days[p] \in Nat
        /\ (p \in PremiumPlans <=> Days[p] > 0)
    BY ExpiresIsNat, SubscriptionsAssumption DEF Rows
  <1>2. PICK t : t = (IF Days[p] > 0 THEN now + Days[p] ELSE sub.expires)
    OBVIOUS
  <1>3. s = [sub EXCEPT !.plan = p, !.active = TRUE, !.expires = t]
    BY <1>2 DEF Subscribed
  <1>4. (Days[p] > 0 => t # Null) /\ (sub.expires # Null => t # Null)
    BY <1>1, <1>2 DEF Null
  <1>5. s.plan = p /\ s.expires = t /\ s.pending = sub.pending
    <2>1. CASE sub \in Sub
      BY <1>3, <2>1 DEF Sub
    <2>2. CASE sub = NoSub
      BY <1>3, <2>2 DEF NoSub
    <2>3. QED
      BY <2>1, <2>2 DEF Rows
  <1>6. Ends(s)
    BY <1>1, <1>4, <1>5 DEF Ends, Settled
  <1>7. ASSUME NEW to \in {"new", "some"}, NEW w, w = [to |-> to, row |-> s]
        PROVE  Settling(<<w>>)
    BY <1>4, <1>5, <1>6, <1>7, OneSettles
       DEF Settled, Settles, LinkAfter, EndAfter, RowWrites, ProviderWrites
  <1>8. QED
    BY <1>7 DEF Insert, Update

\* Statements that keep the link and the end.
LEMMA KeepsLink ==
    ASSUME Settled, NEW r, r.link = psub.link
    PROVE  /\ Settling(<<SaveProvider(r)>>)
           /\ \A s : s.expires = sub.expires /\ Ends(s) =>
                 /\ Settling(<<SaveProvider(r), Save(s)>>)
                 /\ Settling(<<Save(s), SaveProvider(r)>>)
  <1>1. Settling(<<SaveProvider(r)>>)
    BY OneSettles
       DEF Settled, Settles, LinkAfter, EndAfter, SaveProvider, RowWrites, ProviderWrites
  <1>2. ASSUME NEW s, s.expires = sub.expires, Ends(s)
        PROVE  /\ Settling(<<SaveProvider(r), Save(s)>>)
               /\ Settling(<<Save(s), SaveProvider(r)>>)
    <2>1. PICK w, z : w = SaveProvider(r) /\ z = Save(s)
      OBVIOUS
    <2>2. /\ w.to = "psub" /\ w.row.link = psub.link
          /\ z.to = "sub" /\ z.row.expires = sub.expires /\ Ends(z.row)
      BY <1>2, <2>1 DEF SaveProvider, Save
    <2>3. Settling(<<w, z>>) /\ Settling(<<z, w>>)
      BY <2>2, TwoSettle DEF Settled, Settles, LinkAfter, EndAfter, RowWrites, ProviderWrites
    <2>4. QED
      BY <2>1, <2>3
  <1>3. QED
    BY <1>1, <1>2

LEMMA CheckoutSettles ==
    ASSUME Settled, NEW p, psub = NoProvider
    PROVE  Settling(<<InsertProvider(NewProvider), Open(p)>>)
  <1>1. PICK w, z : w = InsertProvider(NewProvider) /\ z = Open(p)
    OBVIOUS
  <1>2. w.to = "new_psub" /\ w.row.link = Null /\ z.to = "session"
    BY <1>1 DEF InsertProvider, NewProvider, NoProvider, Open
  <1>3. QED
    BY <1>1, <1>2, TwoSettle DEF Settled, Settles, LinkAfter, EndAfter, RowWrites, ProviderWrites

LEMMA OpenSettles == ASSUME Settled, NEW p PROVE Settling(<<Open(p)>>)
  BY OneSettles DEF Settled, LinkAfter, EndAfter, Open, RowWrites, ProviderWrites

\* What the webhook makes of an event, with any of its handlers.
LEMMA WebhookSettles ==
    ASSUME Rows, AtStripeFits, Settled, NEW e \in Events, EventFits(e), e.type # "none"
    PROVE  Settling(HandleWebhook(e))
  <1>1. sub # NoSub => sub \in Sub
    BY DEF Rows
  <1>2. psub \in Provider
    BY DEF Rows
  <1>3. CASE e.type = "checkout"
    <2>1. HandleWebhook(e) = handleCheckoutSessionCompleted(e)
      BY <1>3 DEF HandleWebhook
    <2>2. CASE sub = NoSub
      BY <2>1, <2>2, NothingSettles DEF handleCheckoutSessionCompleted
    <2>3. CASE sub # NoSub
      <3>1. stripe[e.id].end # Null
        BY <1>3 DEF EventFits, AtStripeFits
      <3>2. PICK s : s = CheckedOut(sub, e.id, e.plan)
        OBVIOUS
      <3>3. s.expires # Null
        BY <1>1, <2>3, <3>1, <3>2 DEF CheckedOut, Sub
      <3>4. PICK w : w = IF psub = NoProvider
                         THEN InsertProvider([NewProvider EXCEPT !.link = e.id])
                         ELSE SaveProvider([psub EXCEPT !.link = e.id])
        OBVIOUS
      <3>5. w.to \in {"psub", "new_psub"}
        BY <3>4 DEF InsertProvider, SaveProvider
      <3>6. PICK z : z = Save(s)
        OBVIOUS
      <3>7. z.to = "sub" /\ z.row = s
        BY <3>6 DEF Save
      <3>8. Settling(<<w, z>>)
        BY <3>3, <3>5, <3>7, TwoSettle
           DEF Settled, Settles, Ends, LinkAfter, EndAfter, RowWrites, ProviderWrites
      <3>9. QED
        BY <2>1, <2>3, <3>2, <3>4, <3>6, <3>8 DEF handleCheckoutSessionCompleted
    <2>4. QED
      BY <2>2, <2>3
  <1>4. CASE e.type = "updated"
    <2>1. HandleWebhook(e) = handleSubscriptionUpdated(e)
      BY <1>4 DEF HandleWebhook
    <2>2. CASE ~Linked(e.id)
      BY <2>1, <2>2, NothingSettles DEF handleSubscriptionUpdated
    <2>3. CASE Linked(e.id)
      <3>1. PICK s : s = Synced(sub, e)
        OBVIOUS
      <3>2. s.expires # Null
        BY <1>1, <1>4, <2>3, <3>1 DEF Linked, Synced, Sub, EventFits
      <3>3. PICK z : z = Save(s)
        OBVIOUS
      <3>4. z.to = "sub" /\ z.row = s
        BY <3>3 DEF Save
      <3>5. Settling(<<z>>)
        BY <3>2, <3>4, OneSettles
           DEF Settled, Settles, Ends, LinkAfter, EndAfter, RowWrites, ProviderWrites
      <3>6. QED
        BY <2>1, <2>3, <3>1, <3>3, <3>5 DEF handleSubscriptionUpdated
    <2>4. QED
      BY <2>2, <2>3
  <1>5. CASE e.type = "deleted"
    <2>1. HandleWebhook(e) = handleSubscriptionDeleted(e)
      BY <1>5 DEF HandleWebhook
    <2>2. CASE ~Linked(e.id)
      BY <2>1, <2>2, NothingSettles DEF handleSubscriptionDeleted
    <2>3. CASE Linked(e.id)
      <3>1. PICK s, r : s = Deleted(sub) /\ r = [psub EXCEPT !.link = Null, !.schedule = Null]
        OBVIOUS
      <3>2. s.plan = "free" /\ s.pending = NoPlan
        BY <1>1, <2>3, <3>1 DEF Linked, Deleted, Sub
      <3>3. r.link = Null
        BY <1>2, <3>1 DEF Provider
      <3>4. PICK w, z : w = Save(s) /\ z = SaveProvider(r)
        OBVIOUS
      <3>5. w.to = "sub" /\ w.row = s /\ z.to = "psub" /\ z.row = r
        BY <3>4 DEF Save, SaveProvider
      <3>6. Ends(s)
        BY <3>2 DEF Ends, PremiumPlans, NoPlan
      <3>7. Settling(<<w, z>>)
        BY <3>3, <3>5, <3>6, TwoSettle
           DEF Settled, Settles, LinkAfter, EndAfter, RowWrites, ProviderWrites
      <3>8. QED
        BY <2>1, <2>3, <3>1, <3>4, <3>7 DEF handleSubscriptionDeleted
    <2>4. QED
      BY <2>2, <2>3
  <1>6. CASE e.type \in {"paid", "failed"}
    <2>1. PICK failed \in BOOLEAN : HandleWebhook(e) = handleInvoice(e, failed)
      BY <1>6 DEF HandleWebhook
    <2>2. PICK r : r = [psub EXCEPT !.failed = failed]
      OBVIOUS
    <2>3. r.link = psub.link
      BY <1>2, <2>2 DEF Provider
    <2>4. HandleWebhook(e) \in {<< >>, <<SaveProvider(r)>>}
      BY <2>1, <2>2 DEF handleInvoice
    <2>5. QED
      BY <2>3, <2>4, NothingSettles, KeepsLink
  <1>7. CASE e.type \in {"completed", "released"}
    <2>1. PICK r : r = [psub EXCEPT !.schedule = Null]
      OBVIOUS
    <2>2. r.link = psub.link
      BY <1>2, <2>1 DEF Provider
    <2>3. CASE e.type = "released"
      <3>1. HandleWebhook(e) \in {<< >>, <<SaveProvider(r)>>}
        BY <2>1, <2>3 DEF HandleWebhook, handleScheduleReleased
      <3>2. QED
        BY <2>2, <3>1, NothingSettles, KeepsLink
    <2>4. CASE e.type = "completed" /\ ~Scheduled(e.id)
      <3>1. HandleWebhook(e) = << >>
        BY <2>4 DEF HandleWebhook, handleScheduleCompleted
      <3>2. QED
        BY <3>1, NothingSettles
    <2>5. CASE e.type = "completed" /\ Scheduled(e.id)
      <3>1. PICK s : s = IF sub.pending = NoPlan THEN sub
                         ELSE [sub EXCEPT !.plan = sub.pending, !.pending = NoPlan]
        OBVIOUS
      <3>2. s.expires = sub.expires /\ Ends(s)
        BY <1>1, <2>5, <3>1 DEF Scheduled, Sub, Settled, Ends, PremiumPlans, NoPlan
      <3>3. HandleWebhook(e) = <<Save(s), SaveProvider(r)>>
        BY <2>1, <2>5, <3>1 DEF HandleWebhook, handleScheduleCompleted
      <3>4. QED
        BY <2>2, <3>2, <3>3, KeepsLink
    <2>6. QED
      BY <1>7, <2>3, <2>4, <2>5
  <1>8. QED
    BY <1>3, <1>4, <1>5, <1>6, <1>7 DEF Events, Types

LEMMA ChangesSettle ==
    ASSUME Rows, Settled, sub # NoSub, NEW p \in PremiumPlans, NEW n
    PROVE  /\ psub.link # Null =>
                 /\ Settling(<<Save([sub EXCEPT !.plan = p])>>)
                 /\ Settling(<<SaveProvider([psub EXCEPT !.schedule = n]),
                               Save([sub EXCEPT !.pending = p])>>)
           /\ Settling(<<SaveProvider([psub EXCEPT !.schedule = Null]),
                         Save([sub EXCEPT !.pending = NoPlan, !.canceled = FALSE])>>)
  <1>1. sub \in Sub /\ psub \in Provider /\ (psub.link # Null => sub.expires # Null)
    BY DEF Rows, Settled, Settles
  <1>2. PICK s, u : s = [sub EXCEPT !.pending = p]
                    /\ u = [sub EXCEPT !.pending = NoPlan, !.canceled = FALSE]
    OBVIOUS
  <1>3. s.expires = sub.expires /\ (psub.link # Null => Ends(s))
    BY <1>1, <1>2 DEF Sub, Ends
  <1>4. u.expires = sub.expires /\ Ends(u)
    BY <1>1, <1>2 DEF Sub, Settled, Ends, PremiumPlans, NoPlan
  <1>5. PICK r, q : r = [psub EXCEPT !.schedule = n] /\ q = [psub EXCEPT !.schedule = Null]
    OBVIOUS
  <1>6. r.link = psub.link /\ q.link = psub.link
    BY <1>1, <1>5 DEF Provider
  <1>7. psub.link # Null => Settling(<<SaveProvider(r), Save(s)>>)
    BY <1>3, <1>6, KeepsLink
  <1>8. Settling(<<SaveProvider(q), Save(u)>>)
    BY <1>4, <1>6, KeepsLink
  <1>9. psub.link # Null => Settling(<<Save([sub EXCEPT !.plan = p])>>)
    BY <1>1, RequestsSettle DEF PremiumPlans, Plans
  <1>10. QED
    BY <1>2, <1>5, <1>7, <1>8, <1>9

\* Faults are counted, never forgotten.
LEMMA FaultsStay ==
    ASSUME used \in Counts, NEW what \in {"requests", "errors", "crashes", "repeats"}, NEW bound,
           UNCHANGED used \/ Use(what, bound)
    PROVE  /\ Faults' = 0 => Faults = 0
           /\ Use(what, bound) /\ what \in {"errors", "crashes"} => Faults' > 0
  BY DEF Use, Counts, Faults

LEMMA WholeSettled ==
    ASSUME IInv, Whole, Faults = 0, Sequential, NEW a \in Actors, actor[a] = Idle
    PROVE  Settled
  BY DEF Whole, Settling, Settled, Idle

\* A goroutine begins: as the others are done, the rows it found are settled.
LEMMA StartSettles ==
    ASSUME IInv, Whole, Sequential, Faults' = 0 => Faults = 0, NEW a \in Actors,
           NEW op, NEW e, NEW ws, Start(a, op, e, ws), Settled => Settling(ws)
    PROVE  Whole'
  <1> SUFFICES ASSUME Faults' = 0
               PROVE  Ends(sub)' /\ \A b \in Actors : Settling(actor[b].writes)'
    BY DEF Whole, Faults
  <1>1. actor[a] = Idle /\ UNCHANGED <<sub, psub>>
    BY DEF Start
  <1>2. Settled
    BY <1>1, WholeSettled
  <1>3. actor'[a].writes = ws
    BY DEF Start, IInv, ActorsFit
  <1>4. ASSUME NEW b \in Actors PROVE Settling(actor[b].writes)'
    <2>1. actor'[b].writes = ws
      BY <1>3 DEF Sequential
    <2>2. Settling(ws)
      BY <1>2
    <2>3. QED
      BY <1>1, <2>1, <2>2 DEF Settling, Ends, Settles, LinkAfter, EndAfter
  <1>5. QED
    BY <1>1, <1>2, <1>4 DEF Settled, Ends

\* Steps that leave the rows and the goroutines alone.
LEMMA StaysWhole ==
    ASSUME Whole, Faults' = 0 => Faults = 0, UNCHANGED <<sub, psub, actor>>
    PROVE  Whole'
  BY DEF Whole, Faults, Settling, Ends, Settles, LinkAfter, EndAfter

LEMMA RequestsWhole ==
    ASSUME IInv, Whole, Sequential, NEW a \in Actors,
           \/ GetStatus(a) \/ ScheduleDowngrade(a) \/ CancelScheduledChange(a)
           \/ \E p \in Plans : Upgrade(a, p) \/ CreateCheckout(a, p) \/ ChangePlan(a, p)
           \/ ProcessRenewals(a) \/ ProcessExpiredDowngrades(a)
    PROVE  Whole'
  <1>0. Rows
    BY DEF IInv
  <1>1. Faults' = 0 => Faults = 0
    <2>1. UNCHANGED used \/ Use("requests", MaxRequests)
      BY DEF GetStatus, ScheduleDowngrade, CancelScheduledChange, Upgrade, CreateCheckout,
             ChangePlan, ProcessRenewals, ProcessExpiredDowngrades, StartRequest, Request
    <2>2. QED
      BY <1>0, <2>1, FaultsStay DEF Rows
  <1>2. CASE GetStatus(a)
    <2>1. sub # NoSub
      BY <1>2 DEF GetStatus, NoSub, NoPlan
    <2>2. QED
      BY <1>0, <1>1, <1>2, <2>1, RequestsSettle, StartSettles DEF GetStatus
  <1>3. CASE ScheduleDowngrade(a)
    <2>1. PICK ws : /\ Start(a, "ScheduleDowngrade", NoEvent, ws)
                    /\ ws \in {<<Save([sub EXCEPT !.pending = "free"])>>,
                               <<Save([sub EXCEPT !.plan = "free", !.pending = NoPlan,
                                                  !.active = TRUE])>>}
      BY <1>3 DEF ScheduleDowngrade, StartRequest
    <2>2. Settled => Settling(ws)
      BY <1>0, <1>3, <2>1, RequestsSettle DEF ScheduleDowngrade
    <2>3. QED
      BY <1>1, <2>1, <2>2, StartSettles
  <1>4. CASE CancelScheduledChange(a)
    <2>1. PICK ws : /\ Start(a, "CancelScheduledChange", NoEvent, ws)
                    /\ \/ ws = << >>
                       \/ ws = <<SaveProvider([psub EXCEPT !.schedule = Null]),
                                 Save([sub EXCEPT !.pending = NoPlan, !.canceled = FALSE])>>
      BY <1>4 DEF CancelScheduledChange
    <2>2. Settled => Settling(ws)
      <3>1. "monthly" \in PremiumPlans /\ sub # NoSub
        BY <1>4 DEF PremiumPlans, CancelScheduledChange
      <3>2. QED
        BY <1>0, <2>1, <3>1, ChangesSettle, NothingSettles
    <2>3. QED
      BY <1>1, <2>1, <2>2, StartSettles
  <1>5. ASSUME NEW p \in Plans, Upgrade(a, p) PROVE Whole'
    <2>1. PICK s : s = Subscribed(sub, p)
      OBVIOUS
    <2>2. PICK ws \in {<<Insert(s)>>, <<Update(s)>>} : Start(a, "Upgrade", NoEvent, ws)
      BY <1>5, <2>1 DEF Upgrade, StartRequest
    <2>3. QED
      BY <1>0, <1>1, <2>1, <2>2, UpgradeSettles, StartSettles
  <1>6. ASSUME NEW p \in Plans, CreateCheckout(a, p) PROVE Whole'
    <2>1. PICK ws : /\ Start(a, "CreateCheckout", NoEvent, ws)
                    /\ \/ psub = NoProvider /\ ws = <<InsertProvider(NewProvider), Open(p)>>
                       \/ ws = <<Open(p)>>
      BY <1>6 DEF CreateCheckout, StartRequest
    <2>2. QED
      BY <1>1, <2>1, CheckoutSettles, OpenSettles, StartSettles
  <1>7. ASSUME NEW p \in Plans, ChangePlan(a, p) PROVE Whole'
    <2>1. psub.link # Null /\ sub # NoSub /\ p \in PremiumPlans
      BY <1>7 DEF ChangePlan, Running
    <2>2. PICK ws, n : /\ Start(a, "ChangePlan", NoEvent, ws)
                       /\ \/ ws = <<Save([sub EXCEPT !.plan = p])>>
                          \/ ws = <<SaveProvider([psub EXCEPT !.schedule = n]),
                                    Save([sub EXCEPT !.pending = p])>>
      BY <1>7 DEF ChangePlan, handleUpgrade, handleDowngrade
    <2>3. Settled => Settling(ws)
      BY <1>0, <2>1, <2>2, ChangesSettle
    <2>4. QED
      BY <1>1, <2>2, <2>3, StartSettles
  <1>8. CASE ProcessRenewals(a) \/ ProcessExpiredDowngrades(a)
    <2>1. Settled => Settling(Renewals) /\ Settling(ExpiredDowngrades)
      <3>1. sub.pending # NoPlan => sub # NoSub
        BY DEF NoSub
      <3>2. QED
        BY <1>0, <3>1, RequestsSettle, NothingSettles DEF Renewals, ExpiredDowngrades
    <2>2. QED
      BY <1>1, <1>8, <2>1, StartSettles DEF ProcessRenewals, ProcessExpiredDowngrades
  <1>9. QED
    BY <1>2, <1>3, <1>4, <1>5, <1>6, <1>7, <1>8

LEMMA WebhookWhole ==
    ASSUME IInv, Whole, Sequential, NEW a \in Actors, NEW i \in DOMAIN events, Webhook(a, i)
    PROVE  Whole'
  <1>1. i \in 1..Len(events)
    BY LenProperties DEF IInv, EventsFit
  <1>2. PICK e : e = events[i]
    OBVIOUS
  <1>3. e \in Events /\ EventFits(e) /\ e.type # "none"
    BY <1>1, <1>2, ElementOfSeq DEF IInv, EventsFit
  <1>4. Settled => Settling(HandleWebhook(e))
    BY <1>3, WebhookSettles DEF IInv
  <1>5. Start(a, "Webhook", e, HandleWebhook(e))
    BY <1>2 DEF Webhook
  <1>6. Faults' = 0 => Faults = 0
    <2>1. UNCHANGED used \/ Use("repeats", MaxRepeats)
      BY DEF Webhook
    <2>2. QED
      BY <2>1, FaultsStay DEF IInv, Rows
  <1>7. QED
    BY <1>4, <1>5, <1>6, StartSettles

LEMMA WriteWhole ==
    ASSUME IInv, Whole, Sequential, NEW a \in Actors, Write(a)
    PROVE  Whole'
  <1>1. PICK ws, w : ws = actor[a].writes /\ w = Head(ws)
    OBVIOUS
  <1>2. /\ Left(a) /\ UNCHANGED used /\ ws # << >>
        /\ psub'.link = LinkAfter(psub.link, w) /\ sub'.expires = EndAfter(sub.expires, w)
        /\ sub' = sub \/ (w.to \in RowWrites /\ sub'.expires = w.row.expires
                         /\ sub'.plan = w.row.plan /\ sub'.pending = w.row.pending)
    BY <1>1, Written DEF LinkAfter, EndAfter
  <1> SUFFICES ASSUME Faults' = 0
               PROVE  Ends(sub)' /\ \A b \in Actors : Settling(actor[b].writes)'
    BY DEF Whole, Faults
  <1>3. Settling(ws) /\ Ends(sub)
    BY <1>1, <1>2 DEF Whole, Faults
  <1>4. Planned(ws)
    BY <1>1 DEF IInv, ActorsFit, Fits
  <1>5. /\ w = ws[1] /\ Len(ws) \in Nat /\ Len(ws) > 0 /\ Len(Tail(ws)) = Len(ws) - 1
        /\ \A k \in 1..Len(Tail(ws)) : Tail(ws)[k] = ws[k + 1]
    BY <1>1, <1>2, <1>4, NextStatement
  <1>6. Ends(sub)'
    <2>1. w.to \in RowWrites => Ends(w.row)
      BY <1>3, <1>5 DEF Settling
    <2>2. QED
      BY <1>2, <1>3, <2>1 DEF Ends
  <1>7. PICK rest : rest = Tail(ws)
    OBVIOUS
  <1>8. Settling(rest)'
    <2>1. CASE Len(ws) = 1
      <3>1. Len(rest) = 0
        BY <1>5, <1>7, <2>1
      <3>2. Settles(psub'.link, sub'.expires)
        BY <1>2, <1>3, <1>5, <2>1 DEF Settling
      <3>3. QED
        BY <3>1, <3>2 DEF Settling
    <2>2. CASE Len(ws) = 2
      <3>1. PICK z : z = ws[2]
        OBVIOUS
      <3>2. Len(rest) = 1 /\ rest[1] = z
        BY <1>5, <1>7, <2>2, <3>1
      <3>3. Settles(LinkAfter(psub'.link, z), EndAfter(sub'.expires, z))
        BY <1>2, <1>3, <1>5, <2>2, <3>1 DEF Settling
      <3>4. z.to \notin {"new", "new_psub"} /\ (z.to \in RowWrites => Ends(z.row))
        BY <1>3, <2>2, <3>1 DEF Settling
      <3>5. QED
        BY <3>2, <3>3, <3>4 DEF Settling, LinkAfter, EndAfter, Ends
    <2>3. Len(ws) = 1 \/ Len(ws) = 2
      <3>1. PICK n : n = Len(ws)
        OBVIOUS
      <3>2. n \in Nat /\ n > 0 /\ n <= 2
        BY <1>3, <1>5, <3>1 DEF Settling
      <3>3. n = 1 \/ n = 2
        BY <3>2
      <3>4. QED
        BY <3>1, <3>3
    <2>4. QED
      BY <2>1, <2>2, <2>3
  <1>9. ASSUME NEW b \in Actors PROVE Settling(actor[b].writes)'
    <2>1. actor'[b].writes = rest
      <3>1. b = a
        BY DEF Sequential
      <3>2. actor[a] \in Goroutine /\ actor' = [actor EXCEPT ![a].writes = Tail(@)]
        BY <1>2 DEF Left, IInv, ActorsFit
      <3>3. QED
        BY <1>1, <1>7, <3>1, <3>2 DEF IInv, ActorsFit, Goroutine
    <2>2. QED
      BY <1>8, <2>1 DEF Settling
  <1>10. QED
    BY <1>6, <1>9

\* A goroutine that returns before it is done was refused a row that is there, or
\* failed.
LEMMA ReturnWhole ==
    ASSUME IInv, Whole, Sequential, NEW a \in Actors, Return(a)
    PROVE  Whole'
  <1>1. UNCHANGED <<sub, psub>> /\ actor' = [actor EXCEPT ![a] = Idle]
    BY DEF Return
  <1> SUFFICES ASSUME Faults' = 0
               PROVE  Ends(sub)' /\ \A b \in Actors : Settling(actor[b].writes)'
    BY DEF Whole, Faults
  <1>2. /\ Faults = 0
        /\ actor[a].writes = << >> \/ (actor[a].writes # << >> /\ Duplicate(Head(actor[a].writes)))
    BY FaultsStay DEF Return, IInv, Rows
  <1>3. PICK ws : ws = actor[a].writes
    OBVIOUS
  <1>4. Settling(ws) /\ Ends(sub) /\ Planned(ws)
    BY <1>2, <1>3 DEF Whole, IInv, ActorsFit, Fits
  <1>5. Settled
    <2>1. CASE ws = << >>
      BY <1>4, <2>1 DEF Settling, Settled
    <2>2. CASE ws # << >> /\ Duplicate(Head(ws))
      <3>1. Head(ws) = ws[1] /\ Len(ws) > 0
        BY <1>4, <2>2, NextStatement
      <3>2. ws[1].to \in {"new", "new_psub"}
        BY <2>2, <3>1 DEF Duplicate
      <3>3. QED
        BY <1>4, <3>1, <3>2 DEF Settling, Settled
    <2>3. QED
      BY <1>2, <1>3, <2>1, <2>2
  <1>6. ASSUME NEW b \in Actors PROVE Settling(actor[b].writes)'
    <2>1. b = a
      BY DEF Sequential
    <2>2. actor'[b].writes = << >>
      BY <1>1, <2>1 DEF Idle, IInv, ActorsFit
    <2>3. Settling(<< >>)
      BY <1>5, NothingSettles
    <2>4. QED
      BY <1>1, <2>2, <2>3 DEF Settling, Settles
  <1>7. QED
    BY <1>1, <1>4, <1>6 DEF Ends

LEMMA WholeStep == Sequential /\ IInv /\ Whole /\ [Next]_vars => Whole'
  <1> SUFFICES ASSUME Sequential, IInv, Whole, [Next]_vars PROVE Whole'
    OBVIOUS
  <1>1. ASSUME NEW a \in Actors,
               \/ GetStatus(a) \/ ScheduleDowngrade(a) \/ CancelScheduledChange(a)
               \/ \E p \in Plans : Upgrade(a, p) \/ CreateCheckout(a, p) \/ ChangePlan(a, p)
               \/ ProcessRenewals(a) \/ ProcessExpiredDowngrades(a)
        PROVE  Whole'
    BY <1>1, RequestsWhole
  <1>2. ASSUME NEW a \in Actors, NEW i \in DOMAIN events, Webhook(a, i) PROVE Whole'
    BY <1>2, WebhookWhole
  <1>3. ASSUME NEW a \in Actors, Write(a) \/ Return(a) PROVE Whole'
    BY <1>3, WriteWhole, ReturnWhole
  <1>4. CASE Crash
    <2>1. Faults' > 0
      BY <1>4, FaultsStay DEF Crash, IInv, Rows
    <2>2. QED
      BY <2>1 DEF Whole, Faults
  <1>5. ASSUME \/ \E p \in Plans : Pay(p)
               \/ \E x \in StripeIds : PeriodEnds(x) \/ Portal(x) \/ Payment(x)
               \/ Tick \/ UNCHANGED vars
        PROVE  Whole'
    <2>1. UNCHANGED <<sub, psub, actor>> /\ (UNCHANGED used \/ Use("requests", MaxRequests))
      BY <1>5 DEF Pay, PeriodEnds, Portal, Payment, Tick, vars, Elsewhere, Request
    <2>2. QED
      BY <2>1, FaultsStay, StaysWhole DEF IInv, Rows
  <1>6. QED
    BY <1>1, <1>2, <1>3, <1>4, <1>5 DEF Next

LEMMA InitWhole == Init => Whole
  <1> SUFFICES ASSUME Init PROVE Whole
    OBVIOUS
  <1>1. PICK s : s = CreateTrialSubscription
    OBVIOUS
  <1>2. sub \in {s, NoSub} /\ {s.plan, s.pending} \cap PremiumPlans = {}
    <2>1. s = [plan |-> "trial", trialEnds |-> 1 + TrialDays, expires |-> Null,
               canceled |-> FALSE, active |-> TRUE, pending |-> NoPlan]
      BY <1>1 DEF CreateTrialSubscription, NewSub, NoSub
    <2>2. sub \in {s, NoSub}
      BY <1>1 DEF Init
    <2>3. QED
      BY <2>1, <2>2 DEF PremiumPlans, NoPlan
  <1>3. Ends(sub)
    BY <1>2 DEF Ends, NoSub, PremiumPlans, NoPlan
  <1>4. Settled
    BY <1>3 DEF Init, Settled, Settles, NoProvider
  <1>5. \A a \in Actors : actor[a].writes = << >>
    BY DEF Init, Idle
  <1>6. QED
    BY <1>3, <1>4, <1>5, NothingSettles DEF Whole

\* Where requests, jobs and webhooks run one after the other, in any order, with
\* lost, repeated and late events, failing statements and crashes, premium access
\* never outlives the latest end an upgrade or Stripe promised, unless a statement
\* failed or the process died in the middle of a handler: nothing else stores a
\* premium plan without an end.
THEOREM SubscriptionsNoFreeRide == ASSUME Sequential PROVE Spec => []NoFreeRide
  <1>1. Init => IInv /\ Whole
    BY InitIInv, InitWhole
  <1>2. IInv /\ Whole /\ [Next]_vars => (IInv /\ Whole)'
    BY NextStep, WholeStep
  <1>3. IInv /\ Whole => NoFreeRide
    <2> SUFFICES ASSUME IInv, Whole, GetEffectivePlanType(sub) = "premium", ~(now <= granted)
                 PROVE  sub.expires = Null /\ used.errors + used.crashes > 0
      BY DEF NoFreeRide
    <2>1. sub.expires = Null
      BY PromiseKept DEF EndsArePromised
    <2>2. sub.plan \in PremiumPlans
      BY DEF GetEffectivePlanType, PlanType, PremiumPlans, IInv, Rows, Sub, NoSub, Plans, NoPlan
    <2>3. Faults # 0
      BY <2>1, <2>2 DEF Whole, Ends
    <2>4. QED
      BY <2>1, <2>3 DEF Faults, IInv, Rows, Counts
  <1>4. QED
    BY <1>1, <1>2, <1>3, PTL DEF Spec

-----------------------------------------------------------------------------
(* One goroutine, events in order, and nothing fails: the rows follow       *)
(* Stripe.  The predicates take the rows as they will be when the goroutine *)
(* is done (s and p), Stripe's subscriptions (st) and its events (es).      *)

Orderly(one) ==
    /\ Actors = {one} /\ InOrder /\ ~TrialMayFail
    /\ MaxErrors = 0 /\ MaxCrashes = 0 /\ MaxRepeats = 0

About == {"updated", "deleted", "paid", "failed"}  \* events about a Stripe subscription
Invoices == {"paid", "failed"}
Scheduling == {"completed", "released"}  \* events about a schedule

Pays(S) == S.status \in {"active", "past_due"}

Is(e, types, x) == e.type \in types /\ e.id = x

Pending(es, types, x) == \E i \in 1..Len(es) : Is(es[i], types, x)

Later(es, i, types, x) == \E k \in (i + 1)..Len(es) : Is(es[k], types, x)

\* Events are about subscriptions Stripe has, the checkout is the first of them, and
\* the checkouts come in turn.
InTurn(es, st) ==
    \A i \in 1..Len(es) :
        /\ es[i].type \in About \cup {"checkout"} =>
              es[i].id \in StripeIds /\ st[es[i].id].status # "none"
        /\ es[i].type = "deleted" => st[es[i].id].status = "canceled"
        /\ es[i].type = "checkout" =>
              \A k \in (i + 1)..Len(es) : es[k].type = "checkout" => es[i].id < es[k].id
        /\ es[i].type \in About => ~Later(es, i, {"checkout"}, es[i].id)

Tells(e, S) == e.plan = S.plan /\ e.end = S.end /\ e.atEnd = S.atEnd

\* The last event of its kind says how subscription x is.
UpdatesTell(es, x, S) ==
    \A i \in 1..Len(es) :
        Is(es[i], {"updated"}, x) /\ ~Later(es, i, {"updated"}, x) => Tells(es[i], S)

CheckoutTells(es, x, S) ==
    \A i \in 1..Len(es) :
        Is(es[i], {"checkout"}, x) /\ ~Pending(es, {"updated"}, x) =>
            es[i].plan = S.plan /\ ~S.atEnd

InvoicesFail(es, x) ==
    \A i \in 1..Len(es) :
        Is(es[i], Invoices, x) /\ ~Later(es, i, Invoices, x) => es[i].type = "failed"

CheckoutsAfter(es, x) == \A i \in 1..Len(es) : es[i].type = "checkout" => es[i].id > x

\* When schedule id is reported to be completed, the plan is the one that was pending,
\* or what came after it will be told.
CompletesTo(es, id, x, pending, plan) ==
    \A i \in 1..Len(es) :
        Is(es[i], {"completed"}, id) => Later(es, i, {"updated"}, x) \/ pending = plan

SchedulesOver(es, st, m) ==
    \A i \in 1..Len(es) :
        es[i].type \in Scheduling =>
            es[i].id \in 1..m /\ \A x \in StripeIds : st[x].schedule # es[i].id

\* Stripe: n subscriptions so far, schedules up to number m.
Kept(S, m) ==
    /\ S.plan \in PremiumPlans /\ S.schedule <= m
    /\ S.schedule # Null => S.next \in PremiumPlans

OwnSchedules(st) ==
    \A x, y \in StripeIds : st[x].schedule = st[y].schedule /\ x # y => st[x].schedule = Null

StripeSound(st, es, n, m) ==
    /\ \A x \in StripeIds : st[x].status # "none" <=> x <= n
    /\ \A x \in StripeIds : st[x].status # "none" => Kept(st[x], m)
    /\ \A x \in StripeIds : st[x].status = "none" => st[x] = NoStripeSub
    /\ OwnSchedules(st)
    /\ \A x \in StripeIds : Pays(st[x]) => UpdatesTell(es, x, st[x]) /\ CheckoutTells(es, x, st[x])
    /\ InTurn(es, st)
    /\ SchedulesOver(es, st, m)

LinkFits(p, st, es) == p.link # Null => st[p.link].status # "none" /\ CheckoutsAfter(es, p.link)

NewestLinked(p, st, es, n) ==
    n \in StripeIds /\ Pays(st[n]) => p.link = n \/ Pending(es, {"checkout"}, n)

\* Before the first checkout nothing is linked.
FirstFresh(s, p, st, es) ==
    1 \in StripeIds /\ (st[1].status = "none" \/ Pending(es, {"checkout"}, 1)) =>
        p.link = Null /\ p.schedule = Null /\ ~s.canceled /\ st[1].schedule = Null

Mirrored(s, p, st, es) ==
    p.link = 1 /\ Pays(st[1]) =>
        /\ ~Pending(es, {"updated"}, 1) => s.canceled = st[1].atEnd
        /\ \/ p.schedule = st[1].schedule
           \/ st[1].schedule = Null /\ Pending(es, Scheduling, p.schedule)

FailureComes(p, st, es) ==
    \A x \in StripeIds : st[x].status = "past_due" =>
        /\ InvoicesFail(es, x)
        /\ ~Pending(es, Invoices, x) => ~Pending(es, {"checkout"}, x) /\ (p.link = x => p.failed)

\* The plan of subscription q counts: it is paid, and nothing about it is to come.
InForce(p, st, es, q, t) ==
    p.link = q /\ q \in StripeIds /\ Pays(st[q]) /\ t < st[q].end /\ ~Pending(es, {"updated"}, q)

PlanSynced(s, p, st, es, q, t) ==
    InForce(p, st, es, q, t) => s.plan = st[q].plan /\ s.expires = st[q].end

ChangeComes(s, p, st, es, q) ==
    p.link = q /\ q \in StripeIds /\ Pays(st[q]) /\ s.pending # NoPlan /\ p.schedule # Null =>
        /\ \A x \in StripeIds : st[x].schedule = p.schedule => x = q /\ st[x].next = s.pending
        /\ CompletesTo(es, p.schedule, q, s.pending, st[q].plan)

\* q is the subscription that counts, n or Null; t is the time.
RowsSound(s, p, st, es, n, m, q, t) ==
    /\ p.schedule <= m
    /\ LinkFits(p, st, es)
    /\ NewestLinked(p, st, es, n)
    /\ FirstFresh(s, p, st, es)
    /\ Mirrored(s, p, st, es)
    /\ FailureComes(p, st, es)
    /\ PlanSynced(s, p, st, es, q, t)
    /\ ChangeComes(s, p, st, es, q)

\* s and p are the rows when the statements ws have been done.
Coming(ws, s, p) ==
    /\ \A k \in 1..Len(ws) :
          /\ ws[k].to # "new"
          /\ ws[k].to \in RowWrites => ws[k].row = s
          /\ ws[k].to = "some" => s.canceled = sub.canceled /\ s.trialEnds = sub.trialEnds
          /\ ws[k].to \in ProviderWrites => ws[k].row = p
          /\ ws[k].to = "new_psub" => k = 1 /\ psub = NoProvider
    /\ (\A k \in 1..Len(ws) : ws[k].to \notin RowWrites) => s = sub
    /\ (\A k \in 1..Len(ws) : ws[k].to \notin ProviderWrites) => p = psub

\* The subscription whose plan the user is to have, unless they want to leave.
Due == IF leaving THEN Null ELSE Newest

Follows(s, p) == RowsSound(s, p, stripe, events, Newest, used.requests, Due, now)

\* The third inductive invariant.
OnCourse(one) ==
    /\ StripeSound(stripe, events, Newest, used.requests)
    /\ \E s \in Sub, p \in Provider : Coming(actor[one].writes, s, p) /\ Follows(s, p)

-----------------------------------------------------------------------------
(* Events that come and events that go.                                     *)

Joins(es, new, all) ==
    /\ Len(es) \in Nat /\ Len(new) \in Nat /\ Len(all) = Len(es) + Len(new)
    /\ \A i \in 1..Len(es) : all[i] = es[i]
    /\ \A j \in 1..Len(new) : all[Len(es) + j] = new[j]

Pops(es, rest) ==
    /\ Len(rest) \in Nat /\ Len(es) = Len(rest) + 1
    /\ \A i \in 1..Len(rest) : rest[i] = es[i + 1]

\* Where an event of the joined list comes from.
LEMMA JoinedFrom ==
    ASSUME NEW es, NEW new, NEW all, Joins(es, new, all), NEW i \in 1..Len(all)
    PROVE  \/ i \in 1..Len(es) /\ all[i] = es[i]
           \/ \E j \in 1..Len(new) : i = Len(es) + j /\ all[i] = new[j]
  <1>1. PICK a, b : a = Len(es) /\ b = Len(new)
    OBVIOUS
  <1>2. /\ a \in Nat /\ b \in Nat /\ i \in 1..(a + b) /\ (\A k \in 1..a : all[k] = es[k])
        /\ \A j \in 1..b : all[a + j] = new[j]
    BY <1>1 DEF Joins
  <1>3. CASE i <= a
    BY <1>1, <1>2, <1>3
  <1>4. CASE ~(i <= a)
    <2>1. i - a \in 1..b /\ i = a + (i - a)
      BY <1>2, <1>4
    <2>2. all[i] = new[i - a]
      BY <1>2, <2>1
    <2>3. QED
      BY <1>1, <2>1, <2>2
  <1>5. QED
    BY <1>3, <1>4

LEMMA PendingJoined ==
    ASSUME NEW es, NEW new, NEW all, Joins(es, new, all), NEW T, NEW x
    PROVE  Pending(all, T, x) <=> Pending(es, T, x) \/ Pending(new, T, x)
  <1>1. ASSUME Pending(all, T, x) PROVE Pending(es, T, x) \/ Pending(new, T, x)
    <2>1. PICK i \in 1..Len(all) : Is(all[i], T, x)
      BY <1>1 DEF Pending
    <2>2. QED
      BY <2>1, JoinedFrom DEF Pending
  <1>2. ASSUME Pending(es, T, x) PROVE Pending(all, T, x)
    <2>1. PICK i \in 1..Len(es) : Is(es[i], T, x)
      BY <1>2 DEF Pending
    <2>2. i \in 1..Len(all) /\ all[i] = es[i]
      BY DEF Joins
    <2>3. QED
      BY <2>1, <2>2 DEF Pending
  <1>3. ASSUME Pending(new, T, x) PROVE Pending(all, T, x)
    <2>1. PICK i \in 1..Len(new) : Is(new[i], T, x)
      BY <1>3 DEF Pending
    <2>2. Len(es) + i \in 1..Len(all) /\ all[Len(es) + i] = new[i]
      BY DEF Joins
    <2>3. QED
      BY <2>1, <2>2 DEF Pending
  <1>4. QED
    BY <1>1, <1>2, <1>3

LEMMA LaterJoined ==
    ASSUME NEW es, NEW new, NEW all, Joins(es, new, all), NEW T, NEW x
    PROVE  /\ \A i \in 1..Len(es) :
                 Later(all, i, T, x) <=> Later(es, i, T, x) \/ Pending(new, T, x)
           /\ \A j \in 1..Len(new) : Later(all, Len(es) + j, T, x) <=> Later(new, j, T, x)
  <1>1. PICK a, b : a = Len(es) /\ b = Len(new)
    OBVIOUS
  <1>2. /\ a \in Nat /\ b \in Nat /\ Len(all) = a + b /\ (\A k \in 1..a : all[k] = es[k])
        /\ \A j \in 1..b : all[a + j] = new[j]
    BY <1>1 DEF Joins
  <1>3. ASSUME NEW i \in 1..a, Later(all, i, T, x)
        PROVE  Later(es, i, T, x) \/ Pending(new, T, x)
    <2>1. PICK k \in (i + 1)..(a + b) : Is(all[k], T, x)
      BY <1>2, <1>3 DEF Later
    <2>2. CASE k <= a
      <3>1. k \in (i + 1)..a /\ all[k] = es[k]
        BY <1>2, <2>2
      <3>2. QED
        BY <1>1, <2>1, <3>1 DEF Later
    <2>3. CASE ~(k <= a)
      <3>1. k - a \in 1..b /\ a + (k - a) = k
        BY <1>2, <2>3
      <3>2. all[k] = new[k - a]
        BY <1>2, <3>1
      <3>3. QED
        BY <1>1, <2>1, <3>1, <3>2 DEF Pending
    <2>4. QED
      BY <2>2, <2>3
  <1>4. ASSUME NEW i \in 1..a, Later(es, i, T, x) PROVE Later(all, i, T, x)
    <2>1. PICK k \in (i + 1)..a : Is(es[k], T, x)
      BY <1>1, <1>4 DEF Later
    <2>2. k \in (i + 1)..(a + b) /\ all[k] = es[k]
      BY <1>2
    <2>3. QED
      BY <1>2, <2>1, <2>2 DEF Later
  <1>5. ASSUME NEW i \in 1..a, Pending(new, T, x) PROVE Later(all, i, T, x)
    <2>1. PICK j \in 1..b : Is(new[j], T, x)
      BY <1>1, <1>5 DEF Pending
    <2>2. a + j \in (i + 1)..(a + b) /\ all[a + j] = new[j]
      BY <1>2
    <2>3. QED
      BY <1>2, <2>1, <2>2 DEF Later
  <1>6. ASSUME NEW j \in 1..b
        PROVE  Later(all, a + j, T, x) <=> Later(new, j, T, x)
    <2>1. ASSUME Later(all, a + j, T, x) PROVE Later(new, j, T, x)
      <3>1. PICK k \in (a + j + 1)..(a + b) : Is(all[k], T, x)
        BY <1>2, <2>1 DEF Later
      <3>2. k - a \in (j + 1)..b /\ a + (k - a) = k /\ k - a \in 1..b
        BY <1>2
      <3>3. all[k] = new[k - a]
        BY <1>2, <3>2
      <3>4. QED
        BY <1>1, <3>1, <3>2, <3>3 DEF Later
    <2>2. ASSUME Later(new, j, T, x) PROVE Later(all, a + j, T, x)
      <3>1. PICK k \in (j + 1)..b : Is(new[k], T, x)
        BY <1>1, <2>2 DEF Later
      <3>2. a + k \in (a + j + 1)..(a + b) /\ all[a + k] = new[k]
        BY <1>2
      <3>3. QED
        BY <1>2, <3>1, <3>2 DEF Later
    <2>3. QED
      BY <2>1, <2>2
  <1>7. QED
    BY <1>1, <1>3, <1>4, <1>5, <1>6

LEMMA PendingPopped ==
    ASSUME NEW es, NEW rest, Pops(es, rest), NEW T, NEW x
    PROVE  /\ Pending(es, T, x) <=> Is(es[1], T, x) \/ Pending(rest, T, x)
           /\ Later(es, 1, T, x) <=> Pending(rest, T, x)
           /\ \A i \in 1..Len(rest) : Later(rest, i, T, x) <=> Later(es, i + 1, T, x)
  <1>1. PICK a : a = Len(rest)
    OBVIOUS
  <1>2. a \in Nat /\ Len(es) = a + 1 /\ \A i \in 1..a : rest[i] = es[i + 1]
    BY <1>1 DEF Pops
  <1>3. ASSUME NEW k \in 2..(a + 1) PROVE k - 1 \in 1..a /\ es[k] = rest[k - 1]
    <2>1. k - 1 \in 1..a /\ (k - 1) + 1 = k
      BY <1>2
    <2>2. QED
      BY <1>2, <2>1
  <1>4. Later(es, 1, T, x) <=> Pending(rest, T, x)
    <2>1. ASSUME Later(es, 1, T, x) PROVE Pending(rest, T, x)
      <3>1. PICK k \in 2..(a + 1) : Is(es[k], T, x)
        BY <1>2, <2>1 DEF Later
      <3>2. QED
        BY <1>1, <1>3, <3>1 DEF Pending
    <2>2. ASSUME Pending(rest, T, x) PROVE Later(es, 1, T, x)
      <3>1. PICK k \in 1..a : Is(rest[k], T, x)
        BY <1>1, <2>2 DEF Pending
      <3>2. k + 1 \in (1 + 1)..(a + 1) /\ rest[k] = es[k + 1]
        BY <1>2
      <3>3. QED
        BY <1>2, <3>1, <3>2 DEF Later
    <2>3. QED
      BY <2>1, <2>2
  <1>5. Pending(es, T, x) <=> Is(es[1], T, x) \/ Later(es, 1, T, x)
    <2>1. ASSUME Pending(es, T, x) PROVE Is(es[1], T, x) \/ Later(es, 1, T, x)
      <3>1. PICK k \in 1..(a + 1) : Is(es[k], T, x)
        BY <1>2, <2>1 DEF Pending
      <3>2. k = 1 \/ k \in (1 + 1)..(a + 1)
        BY <1>2
      <3>3. QED
        BY <1>2, <3>1, <3>2 DEF Later
    <2>2. ASSUME Later(es, 1, T, x) PROVE Pending(es, T, x)
      <3>1. PICK k \in 2..(a + 1) : Is(es[k], T, x)
        BY <1>2, <2>2 DEF Later
      <3>2. k \in 1..(a + 1)
        BY <1>2
      <3>3. QED
        BY <1>2, <3>1, <3>2 DEF Pending
    <2>3. 1 \in 1..Len(es)
      BY <1>2
    <2>4. QED
      BY <2>1, <2>2, <2>3 DEF Pending
  <1>6. ASSUME NEW i \in 1..a
        PROVE  Later(rest, i, T, x) <=> Later(es, i + 1, T, x)
    <2>1. ASSUME Later(rest, i, T, x) PROVE Later(es, i + 1, T, x)
      <3>1. PICK k \in (i + 1)..a : Is(rest[k], T, x)
        BY <1>1, <2>1 DEF Later
      <3>2. k + 1 \in (i + 1 + 1)..(a + 1) /\ rest[k] = es[k + 1]
        BY <1>2
      <3>3. QED
        BY <1>2, <3>1, <3>2 DEF Later
    <2>2. ASSUME Later(es, i + 1, T, x) PROVE Later(rest, i, T, x)
      <3>1. PICK k \in (i + 1 + 1)..(a + 1) : Is(es[k], T, x)
        BY <1>2, <2>2 DEF Later
      <3>2. k \in 2..(a + 1) /\ k - 1 \in (i + 1)..a
        BY <1>2
      <3>3. es[k] = rest[k - 1]
        BY <1>3, <3>2
      <3>4. QED
        BY <1>1, <3>1, <3>2, <3>3 DEF Later
    <2>3. QED
      BY <2>1, <2>2
  <1>7. QED
    BY <1>1, <1>4, <1>5, <1>6

\* What holds of the events still holds when the first of them is gone, and the first
\* is the last of its kind if there is no other.
LEMMA UpdatesPopped ==
    ASSUME NEW es, NEW rest, Pops(es, rest), NEW x, NEW S, UpdatesTell(es, x, S)
    PROVE  /\ UpdatesTell(rest, x, S)
           /\ Is(es[1], {"updated"}, x) /\ ~Pending(rest, {"updated"}, x) => Tells(es[1], S)
  <1>1. ASSUME NEW i \in 1..Len(rest), Is(rest[i], {"updated"}, x), ~Later(rest, i, {"updated"}, x)
        PROVE  Tells(rest[i], S)
    <2>1. i + 1 \in 1..Len(es) /\ rest[i] = es[i + 1]
      BY DEF Pops
    <2>2. ~Later(es, i + 1, {"updated"}, x)
      BY <1>1, PendingPopped
    <2>3. QED
      BY <1>1, <2>1, <2>2 DEF UpdatesTell
  <1>2. 1 \in 1..Len(es)
    BY DEF Pops
  <1>3. Later(es, 1, {"updated"}, x) <=> Pending(rest, {"updated"}, x)
    BY PendingPopped
  <1>4. QED
    BY <1>1, <1>2, <1>3 DEF UpdatesTell

LEMMA InvoicesPopped ==
    ASSUME NEW es, NEW rest, Pops(es, rest), NEW x, InvoicesFail(es, x)
    PROVE  /\ InvoicesFail(rest, x)
           /\ Is(es[1], Invoices, x) /\ ~Pending(rest, Invoices, x) => es[1].type = "failed"
  <1>1. ASSUME NEW i \in 1..Len(rest), Is(rest[i], Invoices, x), ~Later(rest, i, Invoices, x)
        PROVE  rest[i].type = "failed"
    <2>1. i + 1 \in 1..Len(es) /\ rest[i] = es[i + 1]
      BY DEF Pops
    <2>2. ~Later(es, i + 1, Invoices, x)
      BY <1>1, PendingPopped
    <2>3. QED
      BY <1>1, <2>1, <2>2 DEF InvoicesFail
  <1>2. 1 \in 1..Len(es)
    BY DEF Pops
  <1>3. Later(es, 1, Invoices, x) <=> Pending(rest, Invoices, x)
    BY PendingPopped
  <1>4. QED
    BY <1>1, <1>2, <1>3 DEF InvoicesFail

LEMMA CompletesPopped ==
    ASSUME NEW es, NEW rest, Pops(es, rest), NEW id, NEW x, NEW pending, NEW plan,
           CompletesTo(es, id, x, pending, plan)
    PROVE  /\ CompletesTo(rest, id, x, pending, plan)
           /\ Is(es[1], {"completed"}, id) /\ ~Pending(rest, {"updated"}, x) => pending = plan
  <1>1. ASSUME NEW i \in 1..Len(rest), Is(rest[i], {"completed"}, id),
               ~Later(rest, i, {"updated"}, x)
        PROVE  pending = plan
    <2>1. i + 1 \in 1..Len(es) /\ rest[i] = es[i + 1]
      BY DEF Pops
    <2>2. ~Later(es, i + 1, {"updated"}, x)
      BY <1>1, PendingPopped
    <2>3. QED
      BY <1>1, <2>1, <2>2 DEF CompletesTo
  <1>2. 1 \in 1..Len(es)
    BY DEF Pops
  <1>3. Later(es, 1, {"updated"}, x) <=> Pending(rest, {"updated"}, x)
    BY PendingPopped
  <1>4. QED
    BY <1>1, <1>2, <1>3 DEF CompletesTo

LEMMA CheckoutsPopped ==
    ASSUME NEW es, NEW rest, Pops(es, rest), NEW x, CheckoutsAfter(es, x)
    PROVE  CheckoutsAfter(rest, x) /\ (es[1].type = "checkout" => es[1].id > x)
  <1>1. ASSUME NEW i \in 1..Len(rest), rest[i].type = "checkout"
        PROVE  rest[i].id > x
    <2>1. i + 1 \in 1..Len(es) /\ rest[i] = es[i + 1]
      BY DEF Pops
    <2>2. QED
      BY <1>1, <2>1 DEF CheckoutsAfter
  <1>2. 1 \in 1..Len(es)
    BY DEF Pops
  <1>3. QED
    BY <1>1, <1>2 DEF CheckoutsAfter

LEMMA SchedulesPopped ==
    ASSUME NEW es, NEW rest, Pops(es, rest), NEW st, NEW m, SchedulesOver(es, st, m)
    PROVE  /\ SchedulesOver(rest, st, m)
           /\ es[1].type \in Scheduling =>
                 es[1].id \in 1..m /\ \A x \in StripeIds : st[x].schedule # es[1].id
  <1>1. ASSUME NEW i \in 1..Len(rest), rest[i].type \in Scheduling
        PROVE  rest[i].id \in 1..m /\ \A x \in StripeIds : st[x].schedule # rest[i].id
    <2>1. i + 1 \in 1..Len(es) /\ rest[i] = es[i + 1]
      BY DEF Pops
    <2>2. QED
      BY <1>1, <2>1 DEF SchedulesOver
  <1>2. 1 \in 1..Len(es)
    BY DEF Pops
  <1>3. QED
    BY <1>1, <1>2 DEF SchedulesOver

\* The first event, in turn.
LEMMA HeadInTurn ==
    ASSUME NEW es, NEW rest, Pops(es, rest), NEW st, InTurn(es, st), NEW e, e = es[1]
    PROVE  /\ e.type \in About \cup {"checkout"} => e.id \in StripeIds /\ st[e.id].status # "none"
           /\ e.type = "deleted" => st[e.id].status = "canceled"
           /\ e.type = "checkout" => CheckoutsAfter(rest, e.id)
           /\ e.type \in About => ~Pending(rest, {"checkout"}, e.id)
  <1>1. 1 \in 1..Len(es)
    BY DEF Pops
  <1>2. ASSUME e.type = "checkout" PROVE CheckoutsAfter(rest, e.id)
    <2>1. ASSUME NEW i \in 1..Len(rest), rest[i].type = "checkout" PROVE rest[i].id > e.id
      <3>1. i + 1 \in (1 + 1)..Len(es) /\ rest[i] = es[i + 1]
        BY DEF Pops
      <3>2. e.id < es[i + 1].id
        BY <1>1, <1>2, <2>1, <3>1 DEF InTurn
      <3>3. QED
        BY <3>1, <3>2
    <2>2. QED
      BY <2>1 DEF CheckoutsAfter
  <1>3. Later(es, 1, {"checkout"}, e.id) <=> Pending(rest, {"checkout"}, e.id)
    BY PendingPopped
  <1>4. QED
    BY <1>1, <1>2, <1>3 DEF InTurn

LEMMA InTurnPopped ==
    ASSUME NEW es, NEW rest, Pops(es, rest), NEW st, InTurn(es, st)
    PROVE  InTurn(rest, st)
  <1>1. ASSUME NEW i \in 1..Len(rest), NEW e, e = rest[i]
        PROVE  /\ e.type \in About \cup {"checkout"} =>
                     e.id \in StripeIds /\ st[e.id].status # "none"
               /\ e.type = "deleted" => st[e.id].status = "canceled"
               /\ e.type = "checkout" =>
                     \A k \in (i + 1)..Len(rest) : rest[k].type = "checkout" => e.id < rest[k].id
               /\ e.type \in About => ~Later(rest, i, {"checkout"}, e.id)
    <2>1. i + 1 \in 1..Len(es) /\ e = es[i + 1]
      BY <1>1 DEF Pops
    <2>2. /\ e.type \in About \cup {"checkout"} => e.id \in StripeIds /\ st[e.id].status # "none"
          /\ e.type = "deleted" => st[e.id].status = "canceled"
          /\ e.type = "checkout" =>
                \A k \in (i + 1 + 1)..Len(es) : es[k].type = "checkout" => e.id < es[k].id
          /\ e.type \in About => ~Later(es, i + 1, {"checkout"}, e.id)
      BY <2>1 DEF InTurn
    <2>3. ASSUME e.type = "checkout", NEW k \in (i + 1)..Len(rest), rest[k].type = "checkout"
          PROVE  e.id < rest[k].id
      <3>1. k + 1 \in (i + 1 + 1)..Len(es) /\ rest[k] = es[k + 1]
        BY DEF Pops
      <3>2. QED
        BY <2>2, <2>3, <3>1
    <2>4. Later(rest, i, {"checkout"}, e.id) <=> Later(es, i + 1, {"checkout"}, e.id)
      BY PendingPopped
    <2>5. QED
      BY <2>2, <2>3, <2>4
  <1>2. QED
    BY <1>1 DEF InTurn

LEMMA CheckoutPopped ==
    ASSUME NEW es, NEW rest, Pops(es, rest), NEW st, InTurn(es, st),
           NEW x, NEW S, CheckoutTells(es, x, S)
    PROVE  /\ CheckoutTells(rest, x, S)
           /\ Is(es[1], {"checkout"}, x) /\ ~Pending(rest, {"updated"}, x) =>
                 es[1].plan = S.plan /\ ~S.atEnd
  <1>1. PICK e : e = es[1]
    OBVIOUS
  <1>2. e.type \in About => ~Pending(rest, {"checkout"}, e.id)
    BY <1>1, HeadInTurn
  <1>3. Pending(es, {"updated"}, x) <=> Is(e, {"updated"}, x) \/ Pending(rest, {"updated"}, x)
    BY <1>1, PendingPopped
  <1>4. ASSUME NEW i \in 1..Len(rest), Is(rest[i], {"checkout"}, x), ~Pending(rest, {"updated"}, x)
        PROVE  rest[i].plan = S.plan /\ ~S.atEnd
    <2>1. i + 1 \in 1..Len(es) /\ rest[i] = es[i + 1]
      BY DEF Pops
    <2>2. Pending(rest, {"checkout"}, x)
      BY <1>4 DEF Pending
    <2>3. ~Is(e, {"updated"}, x)
      BY <1>2, <2>2 DEF Is, About
    <2>4. QED
      BY <1>3, <1>4, <2>1, <2>3 DEF CheckoutTells
  <1>5. 1 \in 1..Len(es)
    BY DEF Pops
  <1>6. ASSUME Is(e, {"checkout"}, x), ~Pending(rest, {"updated"}, x)
        PROVE  e.plan = S.plan /\ ~S.atEnd
    <2>1. ~Is(e, {"updated"}, x)
      BY <1>6 DEF Is
    <2>2. QED
      BY <1>1, <1>3, <1>5, <1>6, <2>1 DEF CheckoutTells
  <1>7. QED
    BY <1>1, <1>4, <1>6 DEF CheckoutTells

LEMMA StripePopped ==
    ASSUME NEW es, NEW rest, Pops(es, rest), NEW st, NEW n, NEW m, StripeSound(st, es, n, m)
    PROVE  StripeSound(st, rest, n, m)
  <1>1. InTurn(es, st) /\ InTurn(rest, st) /\ SchedulesOver(rest, st, m)
    BY InTurnPopped, SchedulesPopped DEF StripeSound
  <1>2. ASSUME NEW x \in StripeIds, Pays(st[x])
        PROVE  UpdatesTell(rest, x, st[x]) /\ CheckoutTells(rest, x, st[x])
    <2>1. PICK S : S = st[x]
      OBVIOUS
    <2>2. UpdatesTell(es, x, S) /\ CheckoutTells(es, x, S)
      BY <1>2, <2>1 DEF StripeSound
    <2>3. UpdatesTell(rest, x, S) /\ CheckoutTells(rest, x, S)
      BY <1>1, <2>2, UpdatesPopped, CheckoutPopped
    <2>4. QED
      BY <2>1, <2>3
  <1>3. QED
    BY <1>1, <1>2 DEF StripeSound

-----------------------------------------------------------------------------
(* Stripe goes on.                                                          *)

LEMMA UpdatesJoined ==
    ASSUME NEW es, NEW new, NEW all, Joins(es, new, all), NEW x, NEW S,
           UpdatesTell(new, x, S),
           Pending(new, {"updated"}, x) \/ UpdatesTell(es, x, S)
    PROVE  UpdatesTell(all, x, S)
  <1>1. ASSUME NEW i \in 1..Len(all), Is(all[i], {"updated"}, x), ~Later(all, i, {"updated"}, x)
        PROVE  Tells(all[i], S)
    <2>1. CASE i \in 1..Len(es) /\ all[i] = es[i]
      <3>1. ~Later(es, i, {"updated"}, x) /\ ~Pending(new, {"updated"}, x)
        BY <1>1, <2>1, LaterJoined
      <3>2. QED
        BY <1>1, <2>1, <3>1 DEF UpdatesTell
    <2>2. ASSUME NEW j \in 1..Len(new), i = Len(es) + j, all[i] = new[j]
          PROVE  Tells(all[i], S)
      <3>1. ~Later(new, j, {"updated"}, x)
        BY <1>1, <2>2, LaterJoined
      <3>2. QED
        BY <1>1, <2>2, <3>1 DEF UpdatesTell
    <2>3. QED
      BY <2>1, <2>2, JoinedFrom
  <1>2. QED
    BY <1>1 DEF UpdatesTell

LEMMA InvoicesJoined ==
    ASSUME NEW es, NEW new, NEW all, Joins(es, new, all), NEW x,
           InvoicesFail(new, x), Pending(new, Invoices, x) \/ InvoicesFail(es, x)
    PROVE  InvoicesFail(all, x)
  <1>1. ASSUME NEW i \in 1..Len(all), Is(all[i], Invoices, x), ~Later(all, i, Invoices, x)
        PROVE  all[i].type = "failed"
    <2>1. CASE i \in 1..Len(es) /\ all[i] = es[i]
      <3>1. ~Later(es, i, Invoices, x) /\ ~Pending(new, Invoices, x)
        BY <1>1, <2>1, LaterJoined
      <3>2. QED
        BY <1>1, <2>1, <3>1 DEF InvoicesFail
    <2>2. ASSUME NEW j \in 1..Len(new), i = Len(es) + j, all[i] = new[j]
          PROVE  all[i].type = "failed"
      <3>1. ~Later(new, j, Invoices, x)
        BY <1>1, <2>2, LaterJoined
      <3>2. QED
        BY <1>1, <2>2, <3>1 DEF InvoicesFail
    <2>3. QED
      BY <2>1, <2>2, JoinedFrom
  <1>2. QED
    BY <1>1 DEF InvoicesFail

LEMMA CompletesJoined ==
    ASSUME NEW es, NEW new, NEW all, Joins(es, new, all), NEW id, NEW x, NEW pending, NEW plan,
           NEW old, CompletesTo(es, id, x, pending, old), CompletesTo(new, id, x, pending, plan),
           Pending(new, {"updated"}, x) \/ plan = old
    PROVE  CompletesTo(all, id, x, pending, plan)
  <1>1. ASSUME NEW i \in 1..Len(all), Is(all[i], {"completed"}, id),
               ~Later(all, i, {"updated"}, x)
        PROVE  pending = plan
    <2>1. CASE i \in 1..Len(es) /\ all[i] = es[i]
      <3>1. ~Later(es, i, {"updated"}, x) /\ ~Pending(new, {"updated"}, x)
        BY <1>1, <2>1, LaterJoined
      <3>2. QED
        BY <1>1, <2>1, <3>1 DEF CompletesTo
    <2>2. ASSUME NEW j \in 1..Len(new), i = Len(es) + j, all[i] = new[j]
          PROVE  pending = plan
      <3>1. ~Later(new, j, {"updated"}, x)
        BY <1>1, <2>2, LaterJoined
      <3>2. QED
        BY <1>1, <2>2, <3>1 DEF CompletesTo
    <2>3. QED
      BY <2>1, <2>2, JoinedFrom
  <1>2. QED
    BY <1>1 DEF CompletesTo

LEMMA CheckoutsJoined ==
    ASSUME NEW es, NEW new, NEW all, Joins(es, new, all), NEW x,
           CheckoutsAfter(es, x), CheckoutsAfter(new, x)
    PROVE  CheckoutsAfter(all, x)
  <1>1. ASSUME NEW i \in 1..Len(all), all[i].type = "checkout" PROVE all[i].id > x
    <2>1. \/ i \in 1..Len(es) /\ all[i] = es[i]
          \/ \E j \in 1..Len(new) : i = Len(es) + j /\ all[i] = new[j]
      BY JoinedFrom
    <2>2. QED
      BY <1>1, <2>1 DEF CheckoutsAfter
  <1>2. QED
    BY <1>1 DEF CheckoutsAfter

LEMMA SchedulesJoined ==
    ASSUME NEW es, NEW new, NEW all, Joins(es, new, all), NEW st, NEW m,
           SchedulesOver(es, st, m), SchedulesOver(new, st, m)
    PROVE  SchedulesOver(all, st, m)
  <1>1. ASSUME NEW e, e.type \in Scheduling,
               \/ \E i \in 1..Len(es) : e = es[i]
               \/ \E j \in 1..Len(new) : e = new[j]
        PROVE  e.id \in 1..m /\ \A x \in StripeIds : st[x].schedule # e.id
    BY <1>1 DEF SchedulesOver
  <1>2. ASSUME NEW i \in 1..Len(all), all[i].type \in Scheduling
        PROVE  all[i].id \in 1..m /\ \A x \in StripeIds : st[x].schedule # all[i].id
    <2>1. CASE i \in 1..Len(es) /\ all[i] = es[i]
      BY <1>1, <1>2, <2>1
    <2>2. ASSUME NEW j \in 1..Len(new), i = Len(es) + j, all[i] = new[j]
          PROVE  all[i].id \in 1..m /\ \A x \in StripeIds : st[x].schedule # all[i].id
      BY <1>1, <1>2, <2>2
    <2>3. QED
      BY <2>1, <2>2, JoinedFrom
  <1>3. QED
    BY <1>2 DEF SchedulesOver

\* Subscription x goes from S to S2 while Stripe reports the events new.
Moves(S, S2, new, x) ==
    /\ S.status = "none" => S2 = S
    /\ S.status # "none" => S2.status # "none" /\ S2.plan \in PremiumPlans
    /\ S.status = "canceled" => S2.status = "canceled"
    /\ S2.schedule \in {S.schedule, Null}
    /\ S2.schedule # Null => S2.next = S.next
    /\ S2.schedule # S.schedule /\ Pays(S2) => Pending(new, Scheduling, S.schedule)
    /\ Pays(S2) => UpdatesTell(new, x, S2)
    /\ Pays(S2) => Pending(new, {"updated"}, x) \/ Tells(S, S2)
    /\ S2.status = "past_due" =>
          InvoicesFail(new, x) /\ (Pending(new, Invoices, x) \/ S.status = "past_due")

AllMove(st, st2, new) == \A x \in StripeIds : Moves(st[x], st2[x], new, x)

\* The events report what has happened.
Reported(e, st, st2) ==
    /\ e.type # "checkout"
    /\ e.type \in About => e.id \in StripeIds /\ st[e.id].status # "none"
    /\ e.type = "deleted" => st2[e.id].status = "canceled"
    /\ e.type \in Scheduling =>
          e.id # Null /\ \E x \in StripeIds : /\ st[x].schedule = e.id /\ st2[x].schedule = Null
                                              /\ e.type = "completed" => st2[x].plan = st[x].next

AllReported(new, st, st2) == \A j \in 1..Len(new) : Reported(new[j], st, st2)

LEMMA NoCheckout ==
    ASSUME NEW new, NEW st, NEW st2, AllReported(new, st, st2), NEW x
    PROVE  /\ ~Pending(new, {"checkout"}, x) /\ CheckoutsAfter(new, x)
           /\ \A j \in 1..Len(new) : ~Later(new, j, {"checkout"}, x) \/ Len(new) \notin Nat
  <1>1. ~Pending(new, {"checkout"}, x) /\ CheckoutsAfter(new, x)
    BY DEF AllReported, Reported, Pending, CheckoutsAfter, Is
  <1>2. ASSUME NEW j \in 1..Len(new), Len(new) \in Nat, Later(new, j, {"checkout"}, x) PROVE FALSE
    <2>1. PICK k \in (j + 1)..Len(new) : new[k].type = "checkout"
      BY <1>2 DEF Later, Is
    <2>2. k \in 1..Len(new)
      BY <1>2
    <2>3. QED
      BY <2>1, <2>2 DEF AllReported, Reported
  <1>3. QED
    BY <1>1, <1>2

LEMMA PaysBefore ==
    ASSUME NEW S \in StripeSub, NEW S2, NEW new, NEW x, Moves(S, S2, new, x), Pays(S2)
    PROVE  Pays(S) /\ S.status # "none"
  BY DEF Moves, Pays, StripeSub

LEMMA InTurnJoined ==
    ASSUME NEW es, NEW new, NEW all, Joins(es, new, all), NEW st, NEW st2, InTurn(es, st),
           AllMove(st, st2, new), AllReported(new, st, st2)
    PROVE  InTurn(all, st2)
  <1>1. ASSUME NEW x \in StripeIds
        PROVE  /\ st[x].status # "none" => st2[x].status # "none"
               /\ st[x].status = "canceled" => st2[x].status = "canceled"
    BY DEF AllMove, Moves
  <1>2. ASSUME NEW i \in 1..Len(all), NEW e, e = all[i]
        PROVE  /\ e.type \in About \cup {"checkout"} =>
                     e.id \in StripeIds /\ st2[e.id].status # "none"
               /\ e.type = "deleted" => st2[e.id].status = "canceled"
               /\ e.type = "checkout" =>
                     \A k \in (i + 1)..Len(all) : all[k].type = "checkout" => e.id < all[k].id
               /\ e.type \in About => ~Later(all, i, {"checkout"}, e.id)
    <2>1. CASE i \in 1..Len(es) /\ all[i] = es[i]
      <3>1. /\ e.type \in About \cup {"checkout"} => e.id \in StripeIds /\ st[e.id].status # "none"
            /\ e.type = "deleted" => st[e.id].status = "canceled"
            /\ e.type = "checkout" =>
                  \A k \in (i + 1)..Len(es) : es[k].type = "checkout" => e.id < es[k].id
            /\ e.type \in About => ~Later(es, i, {"checkout"}, e.id)
        BY <1>2, <2>1 DEF InTurn
      <3>2. /\ e.type \in About \cup {"checkout"} => e.id \in StripeIds /\ st2[e.id].status # "none"
            /\ e.type = "deleted" => st2[e.id].status = "canceled"
        BY <1>1, <3>1 DEF About
      <3>3. ASSUME e.type = "checkout", NEW k \in (i + 1)..Len(all), all[k].type = "checkout"
            PROVE  e.id < all[k].id
        <4>1. k \in 1..Len(all)
          BY <2>1 DEF Joins
        <4>2. ~\E j \in 1..Len(new) : k = Len(es) + j /\ all[k] = new[j]
          BY <3>3 DEF AllReported, Reported
        <4>3. \/ k \in 1..Len(es) /\ all[k] = es[k]
              \/ \E j \in 1..Len(new) : k = Len(es) + j /\ all[k] = new[j]
          BY <4>1, JoinedFrom
        <4>4. k \in 1..Len(es) /\ all[k] = es[k]
          BY <4>2, <4>3
        <4>5. k \in (i + 1)..Len(es)
          BY <2>1, <4>4
        <4>6. QED
          BY <3>1, <3>3, <4>4, <4>5
      <3>4. e.type \in About => ~Later(all, i, {"checkout"}, e.id)
        <4>1. ~Pending(new, {"checkout"}, e.id)
          BY NoCheckout
        <4>2. Later(all, i, {"checkout"}, e.id)
              <=> Later(es, i, {"checkout"}, e.id) \/ Pending(new, {"checkout"}, e.id)
          BY <2>1, LaterJoined
        <4>3. QED
          BY <3>1, <4>1, <4>2
      <3>5. QED
        BY <3>2, <3>3, <3>4
    <2>2. ASSUME NEW j \in 1..Len(new), i = Len(es) + j, all[i] = new[j]
          PROVE  /\ e.type # "checkout"
                 /\ e.type \in About => e.id \in StripeIds /\ st2[e.id].status # "none"
                 /\ e.type = "deleted" => st2[e.id].status = "canceled"
                 /\ ~Later(all, i, {"checkout"}, e.id)
      <3>1. Reported(e, st, st2)
        BY <1>2, <2>2 DEF AllReported
      <3>2. ~Later(new, j, {"checkout"}, e.id)
        BY <2>2, NoCheckout DEF Joins
      <3>3. ~Later(all, i, {"checkout"}, e.id)
        BY <2>2, <3>2, LaterJoined
      <3>4. QED
        BY <1>1, <3>1, <3>3 DEF Reported
    <2>3. (i \in 1..Len(es) /\ all[i] = es[i])
          \/ \E j \in 1..Len(new) : i = Len(es) + j /\ all[i] = new[j]
      BY JoinedFrom
    <2>4. QED
      BY <2>1, <2>2, <2>3
  <1>3. QED
    BY <1>2 DEF InTurn

LEMMA SchedulesMove ==
    ASSUME NEW es, NEW new, NEW all, Joins(es, new, all), NEW st \in [StripeIds -> StripeSub],
           NEW st2, NEW n, NEW m \in Nat, StripeSound(st, es, n, m),
           AllMove(st, st2, new), AllReported(new, st, st2)
    PROVE  SchedulesOver(all, st2, m) /\ OwnSchedules(st2)
  <1>1. \A x \in StripeIds : /\ st2[x].schedule \in {st[x].schedule, Null}
                             /\ st[x].schedule \in Nat
    BY DEF AllMove, Moves, StripeSub
  <1>2. \A x, y \in StripeIds : st[x].schedule = st[y].schedule /\ x # y => st[x].schedule = Null
    BY DEF StripeSound, OwnSchedules
  <1>3. \A x \in StripeIds : st[x].schedule <= m
    <2>1. ASSUME NEW x \in StripeIds PROVE st[x].schedule <= m
      <3>1. CASE st[x].status = "none"
        BY <3>1 DEF StripeSound, NoStripeSub, Null
      <3>2. CASE st[x].status # "none"
        BY <3>2 DEF StripeSound, Kept
      <3>3. QED
        BY <3>1, <3>2
    <2>2. QED
      BY <2>1
  <1>4. SchedulesOver(es, st2, m)
    <2>1. SchedulesOver(es, st, m)
      BY DEF StripeSound
    <2>2. QED
      BY <1>1, <2>1 DEF SchedulesOver, Null
  <1>5. SchedulesOver(new, st2, m)
    <2>1. ASSUME NEW j \in 1..Len(new), NEW e, e = new[j], e.type \in Scheduling
          PROVE  e.id \in 1..m /\ \A y \in StripeIds : st2[y].schedule # e.id
      <3>1. PICK x \in StripeIds : e.id # Null /\ st[x].schedule = e.id /\ st2[x].schedule = Null
        BY <2>1 DEF AllReported, Reported
      <3>2. e.id \in 1..m
        BY <1>1, <1>3, <3>1 DEF Null
      <3>3. ASSUME NEW y \in StripeIds PROVE st2[y].schedule # e.id
        BY <1>1, <1>2, <3>1
      <3>4. QED
        BY <3>2, <3>3
    <2>2. QED
      BY <2>1 DEF SchedulesOver
  <1>6. OwnSchedules(st2)
    BY <1>1, <1>2 DEF OwnSchedules
  <1>7. QED
    BY <1>4, <1>5, <1>6, SchedulesJoined

\* What is known of one subscription.
LEMMA OneMoves ==
    ASSUME NEW es, NEW new, NEW all, Joins(es, new, all), NEW st, NEW st2,
           AllReported(new, st, st2), NEW x, NEW S \in StripeSub, NEW S2,
           Moves(S, S2, new, x), Pays(S2),
           Pays(S) => UpdatesTell(es, x, S) /\ CheckoutTells(es, x, S)
    PROVE  UpdatesTell(all, x, S2) /\ CheckoutTells(all, x, S2)
  <1>1. Pays(S) /\ UpdatesTell(es, x, S) /\ CheckoutTells(es, x, S) /\ UpdatesTell(new, x, S2)
        /\ (Pending(new, {"updated"}, x) \/ Tells(S, S2))
    BY PaysBefore DEF Moves
  <1>2. Tells(S, S2) => UpdatesTell(es, x, S2)
    BY <1>1 DEF UpdatesTell, Tells
  <1>3. UpdatesTell(all, x, S2)
    BY <1>1, <1>2, UpdatesJoined
  <1>4. ASSUME NEW i \in 1..Len(all), Is(all[i], {"checkout"}, x), ~Pending(all, {"updated"}, x)
        PROVE  all[i].plan = S2.plan /\ ~S2.atEnd
    <2>1. ~Pending(es, {"updated"}, x) /\ ~Pending(new, {"updated"}, x)
      BY <1>4, PendingJoined
    <2>2. ~\E j \in 1..Len(new) : i = Len(es) + j /\ all[i] = new[j]
      BY <1>4 DEF AllReported, Reported, Is
    <2>3. i \in 1..Len(es) /\ all[i] = es[i]
      BY <2>2, JoinedFrom
    <2>4. all[i].plan = S.plan /\ ~S.atEnd
      BY <1>1, <1>4, <2>1, <2>3 DEF CheckoutTells
    <2>5. QED
      BY <1>1, <2>1, <2>4 DEF Tells
  <1>5. QED
    BY <1>3, <1>4 DEF CheckoutTells

LEMMA StripeMoves ==
    ASSUME NEW es, NEW new, NEW all, Joins(es, new, all), NEW st \in [StripeIds -> StripeSub],
           NEW st2, NEW n, NEW m \in Nat, StripeSound(st, es, n, m),
           AllMove(st, st2, new), AllReported(new, st, st2)
    PROVE  StripeSound(st2, all, n, m)
  <1>1. ASSUME NEW x \in StripeIds
        PROVE  /\ st2[x].status # "none" <=> x <= n
               /\ st2[x].status # "none" => Kept(st2[x], m)
               /\ st2[x].status = "none" => st2[x] = NoStripeSub
               /\ Pays(st2[x]) => UpdatesTell(all, x, st2[x]) /\ CheckoutTells(all, x, st2[x])
    <2>1. PICK S, S2 : S = st[x] /\ S2 = st2[x]
      OBVIOUS
    <2>2. /\ S \in StripeSub /\ Moves(S, S2, new, x) /\ (S.status # "none" <=> x <= n)
          /\ S.status # "none" => Kept(S, m)
          /\ S.status = "none" => S = NoStripeSub
          /\ Pays(S) => UpdatesTell(es, x, S) /\ CheckoutTells(es, x, S)
      BY <2>1 DEF StripeSound, AllMove
    <2>3. /\ S2.status # "none" <=> x <= n
          /\ S2.status = "none" => S2 = NoStripeSub
      BY <2>2 DEF Moves
    <2>4. S2.status # "none" => Kept(S2, m)
      <3>1. S2.status # "none" => Kept(S, m) /\ S2.plan \in PremiumPlans
        BY <2>2 DEF Moves
      <3>2. QED
        BY <2>2, <3>1 DEF Moves, Kept, Null
    <2>5. Pays(S2) => UpdatesTell(all, x, S2) /\ CheckoutTells(all, x, S2)
      BY <2>2, OneMoves
    <2>6. QED
      BY <2>1, <2>3, <2>4, <2>5
  <1>2. InTurn(all, st2)
    BY InTurnJoined DEF StripeSound
  <1>3. SchedulesOver(all, st2, m) /\ OwnSchedules(st2)
    BY SchedulesMove
  <1>4. QED
    BY <1>1, <1>2, <1>3 DEF StripeSound

-----------------------------------------------------------------------------
(* The rows while Stripe goes on.                                           *)

\* Stripe's subscriptions go from st to st2, and the events new are reported.
Goes(es, new, all, st, st2) ==
    /\ Joins(es, new, all)
    /\ st \in [StripeIds -> StripeSub]
    /\ AllMove(st, st2, new)
    /\ AllReported(new, st, st2)

LEMMA MovedFacts ==
    ASSUME NEW es, NEW new, NEW all, NEW st, NEW st2, Goes(es, new, all, st, st2),
           NEW x \in StripeIds
    PROVE  /\ Moves(st[x], st2[x], new, x) /\ st[x] \in StripeSub
           /\ st2[x].status = "none" <=> st[x].status = "none"
           /\ Pays(st2[x]) => Pays(st[x])
  <1>1. Moves(st[x], st2[x], new, x) /\ st[x] \in StripeSub
    BY DEF Goes, AllMove
  <1>2. Pays(st2[x]) => Pays(st[x])
    BY <1>1, PaysBefore
  <1>3. st2[x].status = "none" <=> st[x].status = "none"
    BY <1>1 DEF Moves
  <1>4. QED
    BY <1>1, <1>2, <1>3

LEMMA CheckoutsStay ==
    ASSUME NEW es, NEW new, NEW all, NEW st, NEW st2, Goes(es, new, all, st, st2), NEW x
    PROVE  Pending(all, {"checkout"}, x) <=> Pending(es, {"checkout"}, x)
  <1>1. Joins(es, new, all) /\ ~Pending(new, {"checkout"}, x)
    BY NoCheckout DEF Goes
  <1>2. QED
    BY <1>1, PendingJoined

LEMMA LinksMove ==
    ASSUME NEW es, NEW new, NEW all, NEW st, NEW st2, Goes(es, new, all, st, st2),
           NEW p \in Provider, NEW n, LinkFits(p, st, es), NewestLinked(p, st, es, n)
    PROVE  LinkFits(p, st2, all) /\ NewestLinked(p, st2, all, n)
  <1>1. LinkFits(p, st2, all)
    <2>1. ASSUME p.link # Null PROVE st2[p.link].status # "none" /\ CheckoutsAfter(all, p.link)
      <3>1. p.link \in StripeIds /\ st[p.link].status # "none" /\ CheckoutsAfter(es, p.link)
        BY <2>1 DEF Provider, LinkFits
      <3>2. CheckoutsAfter(new, p.link) /\ Joins(es, new, all)
        BY NoCheckout DEF Goes
      <3>3. CheckoutsAfter(all, p.link)
        BY <3>1, <3>2, CheckoutsJoined
      <3>4. QED
        BY <3>1, <3>3, MovedFacts
    <2>2. QED
      BY <2>1 DEF LinkFits
  <1>2. NewestLinked(p, st2, all, n)
    BY MovedFacts, CheckoutsStay DEF NewestLinked
  <1>3. QED
    BY <1>1, <1>2

LEMMA FirstMoves ==
    ASSUME NEW es, NEW new, NEW all, NEW st, NEW st2, Goes(es, new, all, st, st2),
           NEW s, NEW p, FirstFresh(s, p, st, es)
    PROVE  FirstFresh(s, p, st2, all)
  <1>1. ASSUME 1 \in StripeIds, st2[1].status = "none" \/ Pending(all, {"checkout"}, 1)
        PROVE  p.link = Null /\ p.schedule = Null /\ ~s.canceled /\ st2[1].schedule = Null
    <2>1. st[1].status = "none" \/ Pending(es, {"checkout"}, 1)
      BY <1>1, MovedFacts, CheckoutsStay
    <2>2. p.link = Null /\ p.schedule = Null /\ ~s.canceled /\ st[1].schedule = Null
      BY <1>1, <2>1 DEF FirstFresh
    <2>3. Moves(st[1], st2[1], new, 1)
      BY <1>1, MovedFacts
    <2>4. st2[1].schedule = Null
      BY <2>2, <2>3 DEF Moves
    <2>5. QED
      BY <2>2, <2>4
  <1>2. QED
    BY <1>1 DEF FirstFresh

LEMMA MirrorMoves ==
    ASSUME NEW es, NEW new, NEW all, NEW st, NEW st2, Goes(es, new, all, st, st2),
           NEW s, NEW p \in Provider, Mirrored(s, p, st, es)
    PROVE  Mirrored(s, p, st2, all)
  <1>1. ASSUME p.link = 1, Pays(st2[1])
        PROVE  /\ ~Pending(all, {"updated"}, 1) => s.canceled = st2[1].atEnd
               /\ \/ p.schedule = st2[1].schedule
                  \/ st2[1].schedule = Null /\ Pending(all, Scheduling, p.schedule)
    <2>1. PICK S, S2 : S = st[1] /\ S2 = st2[1]
      OBVIOUS
    <2>2. 1 \in StripeIds /\ Joins(es, new, all)
      BY <1>1 DEF Provider, Null, Goes
    <2>3. Moves(S, S2, new, 1) /\ Pays(S)
      BY <1>1, <2>1, <2>2, MovedFacts
    <2>4. /\ ~Pending(es, {"updated"}, 1) => s.canceled = S.atEnd
          /\ p.schedule = S.schedule \/ (S.schedule = Null /\ Pending(es, Scheduling, p.schedule))
      BY <1>1, <2>1, <2>3 DEF Mirrored
    <2>5. ASSUME ~Pending(all, {"updated"}, 1) PROVE s.canceled = S2.atEnd
      <3>1. ~Pending(es, {"updated"}, 1) /\ ~Pending(new, {"updated"}, 1)
        BY <2>2, <2>5, PendingJoined
      <3>2. Tells(S, S2)
        BY <1>1, <2>1, <2>3, <3>1 DEF Moves
      <3>3. QED
        BY <2>4, <3>1, <3>2 DEF Tells
    <2>6. S2.schedule \in {S.schedule, Null}
          /\ (S2.schedule # S.schedule => Pending(new, Scheduling, S.schedule))
      BY <1>1, <2>1, <2>3 DEF Moves
    <2>7. \A id : Pending(es, Scheduling, id) \/ Pending(new, Scheduling, id) =>
                     Pending(all, Scheduling, id)
      BY <2>2, PendingJoined
    <2>8. p.schedule = S2.schedule \/ (S2.schedule = Null /\ Pending(all, Scheduling, p.schedule))
      BY <2>4, <2>6, <2>7
    <2>9. QED
      BY <2>1, <2>5, <2>8
  <1>2. QED
    BY <1>1 DEF Mirrored

LEMMA FailureMoves ==
    ASSUME NEW es, NEW new, NEW all, NEW st, NEW st2, Goes(es, new, all, st, st2),
           NEW p, FailureComes(p, st, es)
    PROVE  FailureComes(p, st2, all)
  <1>1. ASSUME NEW x \in StripeIds, st2[x].status = "past_due"
        PROVE  /\ InvoicesFail(all, x)
               /\ ~Pending(all, Invoices, x) =>
                     ~Pending(all, {"checkout"}, x) /\ (p.link = x => p.failed)
    <2>1. Joins(es, new, all) /\ InvoicesFail(new, x)
          /\ (Pending(new, Invoices, x) \/ st[x].status = "past_due")
      BY <1>1, MovedFacts DEF Goes, Moves
    <2>2. st[x].status = "past_due" =>
             /\ InvoicesFail(es, x)
             /\ ~Pending(es, Invoices, x) => ~Pending(es, {"checkout"}, x) /\ (p.link = x => p.failed)
      BY DEF FailureComes
    <2>3. InvoicesFail(all, x)
      BY <2>1, <2>2, InvoicesJoined
    <2>4. ~Pending(all, Invoices, x) => ~Pending(es, Invoices, x) /\ ~Pending(new, Invoices, x)
      BY <2>1, PendingJoined
    <2>5. QED
      BY <2>1, <2>2, <2>3, <2>4, CheckoutsStay
  <1>2. QED
    BY <1>1 DEF FailureComes

LEMMA PlanMoves ==
    ASSUME NEW es, NEW new, NEW all, NEW st, NEW st2, Goes(es, new, all, st, st2),
           NEW s, NEW p, NEW q, NEW t, PlanSynced(s, p, st, es, q, t)
    PROVE  PlanSynced(s, p, st2, all, q, t)
  <1>1. ASSUME InForce(p, st2, all, q, t)
        PROVE  s.plan = st2[q].plan /\ s.expires = st2[q].end
    <2>1. PICK S, S2 : S = st[q] /\ S2 = st2[q]
      OBVIOUS
    <2>2. q \in StripeIds /\ p.link = q /\ Pays(S2) /\ t < S2.end /\ ~Pending(all, {"updated"}, q)
      BY <1>1, <2>1 DEF InForce
    <2>3. Moves(S, S2, new, q) /\ Pays(S) /\ Joins(es, new, all)
      BY <2>1, <2>2, MovedFacts DEF Goes
    <2>4. ~Pending(es, {"updated"}, q) /\ ~Pending(new, {"updated"}, q)
      BY <2>2, <2>3, PendingJoined
    <2>5. S.plan = S2.plan /\ S.end = S2.end
      BY <2>2, <2>3, <2>4 DEF Moves, Tells
    <2>6. InForce(p, st, es, q, t)
      BY <2>1, <2>2, <2>3, <2>4, <2>5 DEF InForce
    <2>7. QED
      BY <2>1, <2>5, <2>6 DEF PlanSynced
  <1>2. QED
    BY <1>1 DEF PlanSynced

LEMMA ChangeMoves ==
    ASSUME NEW es, NEW new, NEW all, NEW st, NEW st2, Goes(es, new, all, st, st2),
           NEW s, NEW p, NEW q, ChangeComes(s, p, st, es, q)
    PROVE  ChangeComes(s, p, st2, all, q)
  <1>1. ASSUME p.link = q, q \in StripeIds, Pays(st2[q]), s.pending # NoPlan, p.schedule # Null
        PROVE  /\ \A x \in StripeIds : st2[x].schedule = p.schedule =>
                                          x = q /\ st2[x].next = s.pending
               /\ CompletesTo(all, p.schedule, q, s.pending, st2[q].plan)
    <2>1. PICK S, S2, id, plan, old :
             /\ S = st[q] /\ S2 = st2[q] /\ id = p.schedule /\ plan = S2.plan /\ old = S.plan
      OBVIOUS
    <2>2. Moves(S, S2, new, q) /\ Pays(S) /\ Joins(es, new, all)
      BY <1>1, <2>1, MovedFacts DEF Goes
    <2>3. /\ \A x \in StripeIds : st[x].schedule = id => x = q /\ st[x].next = s.pending
          /\ CompletesTo(es, id, q, s.pending, old)
      BY <1>1, <2>1, <2>2 DEF ChangeComes
    <2>4. ASSUME NEW x \in StripeIds, st2[x].schedule = id PROVE x = q /\ st2[x].next = s.pending
      <3>1. st[x].schedule = id /\ st2[x].next = st[x].next
        BY <1>1, <2>1, <2>4, MovedFacts DEF Moves
      <3>2. QED
        BY <2>3, <3>1
    <2>5. CompletesTo(new, id, q, s.pending, plan)
      <3>1. ASSUME NEW j \in 1..Len(new), Is(new[j], {"completed"}, id) PROVE s.pending = plan
        <4>1. new[j].type = "completed" /\ new[j].id = id
          BY <3>1 DEF Is
        <4>2. PICK x \in StripeIds : st[x].schedule = id /\ st2[x].plan = st[x].next
          BY <4>1 DEF Goes, AllReported, Reported, Scheduling
        <4>3. QED
          BY <2>1, <2>3, <4>2
      <3>2. QED
        BY <3>1 DEF CompletesTo
    <2>6. Pending(new, {"updated"}, q) \/ plan = old
      BY <1>1, <2>1, <2>2 DEF Moves, Tells
    <2>7. CompletesTo(all, id, q, s.pending, plan)
      BY <2>2, <2>3, <2>5, <2>6, CompletesJoined
    <2>8. QED
      BY <2>1, <2>4, <2>7
  <1>2. QED
    BY <1>1 DEF ChangeComes

LEMMA RowsMove ==
    ASSUME NEW es, NEW new, NEW all, NEW st, NEW st2, Goes(es, new, all, st, st2),
           NEW s, NEW p \in Provider, NEW n, NEW m, NEW q, NEW t,
           RowsSound(s, p, st, es, n, m, q, t)
    PROVE  RowsSound(s, p, st2, all, n, m, q, t)
  BY LinksMove, FirstMoves, MirrorMoves, FailureMoves, PlanMoves, ChangeMoves DEF RowsSound

\* One subscription moves, and only it is reported.
LEMMA OneGoes ==
    ASSUME NEW es, NEW new, NEW all, Joins(es, new, all),
           NEW st \in [StripeIds -> StripeSub], NEW st2, NEW n, NEW m, StripeSound(st, es, n, m),
           NEW x \in StripeIds, NEW S2, st2 = [st EXCEPT ![x] = S2],
           Moves(st[x], S2, new, x),
           \A j \in 1..Len(new) : new[j].type \in About => new[j].id = x,
           AllReported(new, st, st2)
    PROVE  Goes(es, new, all, st, st2)
  <1>1. ASSUME NEW z \in StripeIds PROVE Moves(st[z], st2[z], new, z)
    <2>1. CASE z = x
      BY <2>1
    <2>2. CASE z # x
      <3>1. PICK S : S = st[z]
        OBVIOUS
      <3>2. st2[z] = S /\ S \in StripeSub
        BY <2>2, <3>1
      <3>3. UpdatesTell(new, z, S) /\ InvoicesFail(new, z)
        BY <2>2 DEF UpdatesTell, InvoicesFail, Is, About, Invoices
      <3>4. S.status # "none" => S.plan \in PremiumPlans
        BY <3>1 DEF StripeSound, Kept
      <3>5. Tells(S, S)
        BY DEF Tells
      <3>6. Moves(S, S, new, z)
        BY <3>3, <3>4, <3>5 DEF Moves
      <3>7. QED
        BY <3>1, <3>2, <3>6
    <2>3. QED
      BY <2>1, <2>2
  <1>2. QED
    BY <1>1 DEF Goes, AllMove

-----------------------------------------------------------------------------
(* The rows change, and Stripe does not.                                    *)

\* More schedules may come.
LEMMA MoreSchedules ==
    ASSUME NEW st, NEW es, NEW n, NEW m \in Nat, NEW m2 \in Nat, m <= m2,
           st \in [StripeIds -> StripeSub], StripeSound(st, es, n, m)
    PROVE  StripeSound(st, es, n, m2)
  <1>1. ASSUME NEW x \in StripeIds, st[x].status # "none" PROVE Kept(st[x], m2)
    <2>1. Kept(st[x], m) /\ st[x].schedule \in Nat
      BY <1>1 DEF StripeSound, StripeSub
    <2>2. QED
      BY <2>1 DEF Kept
  <1>2. SchedulesOver(es, st, m2)
    BY DEF StripeSound, SchedulesOver
  <1>3. QED
    BY <1>1, <1>2 DEF StripeSound

LEMMA MoreSchedulesInRows ==
    ASSUME NEW s, NEW p \in Provider, NEW st, NEW es, NEW n, NEW m \in Nat, NEW m2 \in Nat,
           m <= m2, NEW q, NEW t, RowsSound(s, p, st, es, n, m, q, t)
    PROVE  RowsSound(s, p, st, es, n, m2, q, t)
  <1>1. p.schedule <= m2
    BY DEF RowsSound, Provider
  <1>2. QED
    BY <1>1 DEF RowsSound

\* The same links, the same schedule, the same cancellation, and the plan in force.
LEMMA RowsKept ==
    ASSUME NEW s, NEW p, NEW st, NEW es, NEW n, NEW m, NEW q, NEW t,
           RowsSound(s, p, st, es, n, m, q, t),
           NEW s2, NEW p2, NEW q2, q2 = q \/ q2 = Null,
           p2.link = p.link, p2.schedule = p.schedule, s2.canceled = s.canceled,
           p2.failed = p.failed \/ p.link = Null,
           InForce(p, st, es, q2, t) => s2.plan = s.plan /\ s2.expires = s.expires,
           q2 # Null => s2.pending \in {s.pending, NoPlan}
    PROVE  RowsSound(s2, p2, st, es, n, m, q2, t)
  <1>1. p2.schedule <= m /\ LinkFits(p2, st, es) /\ NewestLinked(p2, st, es, n)
        /\ FirstFresh(s2, p2, st, es) /\ Mirrored(s2, p2, st, es)
    BY DEF RowsSound, LinkFits, NewestLinked, FirstFresh, Mirrored
  <1>2. \A x \in StripeIds : x # Null
    BY StripeIdsAreNat
  <1>3. FailureComes(p2, st, es)
    BY <1>2 DEF RowsSound, FailureComes
  <1>4. PlanSynced(s2, p2, st, es, q2, t)
    <2>1. ASSUME InForce(p2, st, es, q2, t) PROVE s2.plan = st[q2].plan /\ s2.expires = st[q2].end
      <3>1. InForce(p, st, es, q2, t) /\ q2 = q
        BY <1>2, <2>1 DEF InForce
      <3>2. s.plan = st[q2].plan /\ s.expires = st[q2].end
        BY <3>1 DEF RowsSound, PlanSynced
      <3>3. QED
        BY <3>1, <3>2
    <2>2. QED
      BY <2>1 DEF PlanSynced
  <1>5. ChangeComes(s2, p2, st, es, q2)
    BY <1>2 DEF RowsSound, ChangeComes
  <1>6. QED
    BY <1>1, <1>3, <1>4, <1>5 DEF RowsSound

\* A plan in force is premium, and has not run out.
LEMMA PremiumInForce ==
    ASSUME NEW s, NEW p, NEW st, NEW es, NEW n, NEW m, NEW q, NEW t \in Nat \ {0},
           RowsSound(s, p, st, es, n, m, q, t), StripeSound(st, es, n, m),
           st \in [StripeIds -> StripeSub], InForce(p, st, es, q, t)
    PROVE  s.plan \in PremiumPlans /\ t < s.expires /\ p.link = q
  <1>1. s.plan = st[q].plan /\ s.expires = st[q].end /\ p.link = q
    BY DEF RowsSound, PlanSynced, InForce
  <1>2. q \in StripeIds /\ Pays(st[q]) /\ t < st[q].end
    BY DEF InForce
  <1>3. st[q].plan \in PremiumPlans
    BY <1>2 DEF StripeSound, Kept, Pays
  <1>4. QED
    BY <1>1, <1>2, <1>3

\* A scheduled change is taken back.
LEMMA RowsFreed ==
    ASSUME NEW s, NEW p, NEW st, NEW es, NEW n, NEW m \in Nat, NEW q, NEW t,
           RowsSound(s, p, st, es, n, m, q, t),
           NEW s2, NEW p2, p2.link = p.link, p2.schedule = Null, p2.failed = p.failed,
           s2.plan = s.plan, s2.expires = s.expires, s2.pending = NoPlan, ~s2.canceled,
           s2.canceled \in BOOLEAN, st \in [StripeIds -> StripeSub], p.link \in StripeIds \cup {Null},
           \A x \in StripeIds : st[x].schedule # p.schedule,
           p.link # Null => s.canceled = FALSE \/ Pending(es, {"updated"}, p.link),
           p.schedule # Null
    PROVE  RowsSound(s2, p2, st, es, n, m, q, t)
  <1>1. p2.schedule <= m /\ LinkFits(p2, st, es) /\ NewestLinked(p2, st, es, n)
        /\ FirstFresh(s2, p2, st, es)
    BY DEF RowsSound, LinkFits, NewestLinked, FirstFresh, Null
  <1>2. ASSUME p2.link = 1, Pays(st[1])
        PROVE  /\ ~Pending(es, {"updated"}, 1) => s2.canceled = st[1].atEnd
               /\ p2.schedule = st[1].schedule
    <2>1. 1 \in StripeIds /\ p.link = 1 /\ p.link # Null
      BY <1>2 DEF Null
    <2>2. /\ ~Pending(es, {"updated"}, 1) => s.canceled = st[1].atEnd
          /\ p.schedule = st[1].schedule \/ st[1].schedule = Null
      BY <1>2, <2>1 DEF RowsSound, Mirrored
    <2>3. p.schedule # st[1].schedule
      BY <2>1
    <2>4. QED
      BY <2>1, <2>2, <2>3
  <1>3. Mirrored(s2, p2, st, es)
    BY <1>2 DEF Mirrored
  <1>4. FailureComes(p2, st, es) /\ PlanSynced(s2, p2, st, es, q, t)
    BY DEF RowsSound, FailureComes, PlanSynced, InForce
  <1>5. ChangeComes(s2, p2, st, es, q)
    BY DEF ChangeComes
  <1>6. QED
    BY <1>1, <1>3, <1>4, <1>5 DEF RowsSound

-----------------------------------------------------------------------------
(* The rows when the first event e has been handled, and rest is to come.   *)

First(e, es, rest, st, n, m) ==
    /\ Pops(es, rest) /\ e = es[1]
    /\ st \in [StripeIds -> StripeSub]
    /\ StripeSound(st, es, n, m)

LEMMA FirstFacts ==
    ASSUME NEW e, NEW es, NEW rest, NEW st, NEW n, NEW m, First(e, es, rest, st, n, m), NEW T, NEW x
    PROVE  /\ Pending(rest, T, x) => Pending(es, T, x)
           /\ Pending(es, T, x) => Is(e, T, x) \/ Pending(rest, T, x)
  BY PendingPopped DEF First

LEMMA FirstInTurn ==
    ASSUME NEW e, NEW es, NEW rest, NEW st, NEW n, NEW m, First(e, es, rest, st, n, m)
    PROVE  /\ e.type \in About \cup {"checkout"} => e.id \in StripeIds /\ st[e.id].status # "none"
           /\ e.type = "deleted" => st[e.id].status = "canceled"
           /\ e.type = "checkout" => CheckoutsAfter(rest, e.id)
           /\ e.type \in About => ~Pending(rest, {"checkout"}, e.id)
           /\ e.type \in Scheduling => e.id # Null /\ \A x \in StripeIds : st[x].schedule # e.id
  <1>1. Pops(es, rest) /\ e = es[1] /\ InTurn(es, st) /\ SchedulesOver(es, st, m)
    BY DEF First, StripeSound
  <1>2. /\ e.type \in About \cup {"checkout"} => e.id \in StripeIds /\ st[e.id].status # "none"
        /\ e.type = "deleted" => st[e.id].status = "canceled"
        /\ e.type = "checkout" => CheckoutsAfter(rest, e.id)
        /\ e.type \in About => ~Pending(rest, {"checkout"}, e.id)
    BY <1>1, HeadInTurn
  <1>3. 1 \in 1..Len(es)
    BY <1>1 DEF Pops
  <1>4. e.type \in Scheduling => e.id # Null /\ \A x \in StripeIds : st[x].schedule # e.id
    BY <1>1, <1>3 DEF SchedulesOver, Null
  <1>5. QED
    BY <1>2, <1>4

LEMMA LinkPopped ==
    ASSUME NEW e, NEW es, NEW rest, NEW st, NEW n, NEW m, First(e, es, rest, st, n, m),
           NEW p, LinkFits(p, st, es)
    PROVE  LinkFits(p, st, rest)
  <1>1. CheckoutsAfter(es, p.link) => CheckoutsAfter(rest, p.link)
    BY CheckoutsPopped DEF First
  <1>2. QED
    BY <1>1 DEF LinkFits

LEMMA NewestPopped ==
    ASSUME NEW e, NEW es, NEW rest, NEW st, NEW n, NEW m, First(e, es, rest, st, n, m),
           NEW p, NewestLinked(p, st, es, n), e.type # "checkout"
    PROVE  NewestLinked(p, st, rest, n)
  <1>1. Pending(es, {"checkout"}, n) => Pending(rest, {"checkout"}, n)
    BY FirstFacts DEF Is
  <1>2. QED
    BY <1>1 DEF NewestLinked

LEMMA FirstPopped ==
    ASSUME NEW e, NEW es, NEW rest, NEW st, NEW n, NEW m, First(e, es, rest, st, n, m),
           NEW s, NEW p, FirstFresh(s, p, st, es)
    PROVE  FirstFresh(s, p, st, rest)
  <1>1. Pending(rest, {"checkout"}, 1) => Pending(es, {"checkout"}, 1)
    BY FirstFacts
  <1>2. QED
    BY <1>1 DEF FirstFresh

LEMMA MirrorPopped ==
    ASSUME NEW e, NEW es, NEW rest, NEW st, NEW n, NEW m, First(e, es, rest, st, n, m),
           NEW s, NEW p, Mirrored(s, p, st, es),
           ~Is(e, {"updated"}, p.link), ~Is(e, Scheduling, p.schedule)
    PROVE  Mirrored(s, p, st, rest)
  <1>1. Pending(es, {"updated"}, p.link) => Pending(rest, {"updated"}, p.link)
    BY FirstFacts
  <1>2. Pending(es, Scheduling, p.schedule) => Pending(rest, Scheduling, p.schedule)
    BY FirstFacts
  <1>3. QED
    BY <1>1, <1>2 DEF Mirrored

\* A failure is flagged, unless the event of the linked subscription's invoice clears it.
LEMMA FailurePopped ==
    ASSUME NEW e, NEW es, NEW rest, NEW st, NEW n, NEW m, First(e, es, rest, st, n, m),
           NEW p, FailureComes(p, st, es), e.type # "checkout",
           NEW p2, p2.link = p.link \/ p2.link = Null,
           IF Is(e, Invoices, p.link) THEN p2.failed = (e.type = "failed") ELSE p2.failed = p.failed
    PROVE  FailureComes(p2, st, rest)
  <1>1. ASSUME NEW x \in StripeIds, st[x].status = "past_due"
        PROVE  /\ InvoicesFail(rest, x)
               /\ ~Pending(rest, Invoices, x) =>
                     ~Pending(rest, {"checkout"}, x) /\ (p2.link = x => p2.failed)
    <2>1. /\ InvoicesFail(es, x)
          /\ ~Pending(es, Invoices, x) => ~Pending(es, {"checkout"}, x) /\ (p.link = x => p.failed)
      BY <1>1 DEF FailureComes
    <2>2. /\ InvoicesFail(rest, x)
          /\ Is(e, Invoices, x) /\ ~Pending(rest, Invoices, x) => e.type = "failed"
      BY <2>1, InvoicesPopped DEF First
    <2>3. p2.link = x => p.link = x
      BY StripeIdsAreNat
    <2>4. CASE Is(e, Invoices, x)
      <3>1. ~Pending(rest, {"checkout"}, x)
        BY <2>4, FirstInTurn DEF Is, Invoices, About
      <3>2. QED
        BY <2>2, <2>3, <2>4, <3>1
    <2>5. CASE ~Is(e, Invoices, x)
      <3>1. ~Pending(rest, Invoices, x) => ~Pending(es, Invoices, x)
        BY <2>5, FirstFacts
      <3>2. ~Pending(es, {"checkout"}, x) => ~Pending(rest, {"checkout"}, x)
        BY FirstFacts
      <3>3. QED
        BY <2>1, <2>2, <2>3, <2>5, <3>1, <3>2
    <2>6. QED
      BY <2>4, <2>5
  <1>2. QED
    BY <1>1 DEF FailureComes

LEMMA PlanPopped ==
    ASSUME NEW e, NEW es, NEW rest, NEW st, NEW n, NEW m, First(e, es, rest, st, n, m),
           NEW s, NEW p, NEW q, NEW t, PlanSynced(s, p, st, es, q, t), ~Is(e, {"updated"}, p.link)
    PROVE  PlanSynced(s, p, st, rest, q, t)
  <1>1. InForce(p, st, rest, q, t) => InForce(p, st, es, q, t)
    BY FirstFacts DEF InForce
  <1>2. QED
    BY <1>1 DEF PlanSynced

LEMMA ChangePopped ==
    ASSUME NEW e, NEW es, NEW rest, NEW st, NEW n, NEW m, First(e, es, rest, st, n, m),
           NEW s, NEW p, NEW q, ChangeComes(s, p, st, es, q)
    PROVE  ChangeComes(s, p, st, rest, q)
  <1>1. CompletesTo(es, p.schedule, q, s.pending, st[q].plan) =>
           CompletesTo(rest, p.schedule, q, s.pending, st[q].plan)
    BY CompletesPopped DEF First
  <1>2. QED
    BY <1>1 DEF ChangeComes

\* An event of another subscription or schedule changes nothing.
LEMMA EventPasses ==
    ASSUME NEW e, NEW es, NEW rest, NEW st, NEW n, NEW m, First(e, es, rest, st, n, m),
           NEW s, NEW p, NEW q, NEW t, RowsSound(s, p, st, es, n, m, q, t), e.type # "checkout",
           ~Is(e, {"updated"} \cup Invoices, p.link), ~Is(e, Scheduling, p.schedule)
    PROVE  RowsSound(s, p, st, rest, n, m, q, t)
  <1>1. ~Is(e, {"updated"}, p.link) /\ ~Is(e, Invoices, p.link)
    BY DEF Is
  <1>2. LinkFits(p, st, rest) /\ NewestLinked(p, st, rest, n) /\ FirstFresh(s, p, st, rest)
    BY LinkPopped, NewestPopped, FirstPopped DEF RowsSound
  <1>3. Mirrored(s, p, st, rest) /\ PlanSynced(s, p, st, rest, q, t) /\ ChangeComes(s, p, st, rest, q)
    BY <1>1, MirrorPopped, PlanPopped, ChangePopped DEF RowsSound
  <1>4. FailureComes(p, st, rest)
    BY <1>1, FailurePopped DEF RowsSound
  <1>5. QED
    BY <1>2, <1>3, <1>4 DEF RowsSound

\* The first payment of subscription e.id: it is the one that is linked.
LEMMA CheckoutRows ==
    ASSUME NEW e, NEW es, NEW rest, NEW st, NEW n \in Nat, NEW m, First(e, es, rest, st, n, m),
           NEW s, NEW p \in Provider, NEW q, NEW t, RowsSound(s, p, st, es, n, m, q, t),
           e.type = "checkout",
           NEW s2, s2.canceled = s.canceled, s2.canceled \in BOOLEAN, s2.plan = e.plan,
           s2.expires = st[e.id].end, s2.pending = NoPlan,
           NEW p2, p2.link = e.id, p2.schedule = p.schedule
    PROVE  RowsSound(s2, p2, st, rest, n, m, q, t)
  <1>1. PICK x : x = e.id
    OBVIOUS
  <1>2. /\ x \in StripeIds /\ x \in Nat /\ st[x].status # "none" /\ CheckoutsAfter(rest, x)
        /\ x <= n /\ x >= 1
    <2>1. x \in StripeIds /\ st[x].status # "none" /\ CheckoutsAfter(rest, x)
      BY <1>1, FirstInTurn
    <2>2. QED
      BY <2>1, StripeIdsAreNat DEF First, StripeSound, Null
  <1>3. Is(e, {"checkout"}, x) /\ \A T, y : Is(e, T, y) => y = x /\ "checkout" \in T
    BY <1>1 DEF Is
  <1>4. Pending(es, {"checkout"}, x) /\ Pops(es, rest) /\ InTurn(es, st) /\ 1 \in 1..Len(es)
    <2>1. Pops(es, rest) /\ e = es[1] /\ InTurn(es, st)
      BY DEF First, StripeSound
    <2>2. 1 \in 1..Len(es)
      BY <2>1 DEF Pops
    <2>3. Pending(es, {"checkout"}, x)
      BY <1>3, <2>1, <2>2 DEF Pending
    <2>4. QED
      BY <2>1, <2>2, <2>3
  <1>5. p2.schedule <= m /\ LinkFits(p2, st, rest)
    BY <1>1, <1>2 DEF RowsSound, LinkFits
  <1>6. NewestLinked(p2, st, rest, n)
    <2>1. ASSUME n \in StripeIds, Pays(st[n]), x # n PROVE Pending(rest, {"checkout"}, n)
      <3>1. p.link = n \/ Pending(es, {"checkout"}, n)
        BY <2>1 DEF RowsSound, NewestLinked
      <3>2. p.link # n
        <4>1. ASSUME p.link = n PROVE CheckoutsAfter(es, n)
          BY <2>1, <4>1, StripeIdsAreNat DEF RowsSound, LinkFits
        <4>2. CheckoutsAfter(es, n) => x > n
          BY <1>1, <1>4 DEF CheckoutsAfter, First
        <4>3. QED
          BY <1>2, <4>1, <4>2
      <3>3. QED
        BY <1>3, <2>1, <3>1, <3>2, FirstFacts
    <2>2. QED
      BY <1>1, <2>1 DEF NewestLinked
  <1>7. FirstFresh(s2, p2, st, rest)
    <2>1. st[1].status = "none" /\ 1 \in StripeIds => FALSE
      BY <1>2 DEF First, StripeSound
    <2>2. Pending(rest, {"checkout"}, 1) => FALSE
      BY <1>2 DEF Pending, CheckoutsAfter, Is
    <2>3. QED
      BY <2>1, <2>2 DEF FirstFresh
  <1>8. Mirrored(s2, p2, st, rest)
    <2>1. ASSUME x = 1, Pays(st[1])
          PROVE  /\ ~Pending(rest, {"updated"}, 1) => s2.canceled = st[1].atEnd
                 /\ p2.schedule = st[1].schedule
      <3>1. PICK S : S = st[1]
        OBVIOUS
      <3>2. p.schedule = Null /\ ~s.canceled /\ S.schedule = Null
        BY <1>2, <1>4, <2>1, <3>1 DEF RowsSound, FirstFresh
      <3>3. CheckoutTells(es, 1, S)
        BY <1>2, <2>1, <3>1 DEF First, StripeSound
      <3>4. ~Pending(rest, {"updated"}, 1) => ~S.atEnd
        BY <1>3, <1>4, <2>1, <3>3, CheckoutPopped DEF First
      <3>5. S.atEnd \in BOOLEAN
        BY <1>2, <2>1, <3>1 DEF First, StripeSub
      <3>6. QED
        BY <3>1, <3>2, <3>4, <3>5
    <2>2. QED
      BY <1>1, <2>1 DEF Mirrored
  <1>9. FailureComes(p2, st, rest)
    <2>1. ASSUME NEW y \in StripeIds, st[y].status = "past_due"
          PROVE  /\ InvoicesFail(rest, y)
                 /\ ~Pending(rest, Invoices, y) =>
                       ~Pending(rest, {"checkout"}, y) /\ (p2.link = y => p2.failed)
      <3>1. InvoicesFail(es, y) /\ (~Pending(es, Invoices, y) => ~Pending(es, {"checkout"}, y))
        BY <2>1 DEF RowsSound, FailureComes
      <3>2. InvoicesFail(rest, y)
        BY <1>4, <3>1, InvoicesPopped
      <3>3. ~Is(e, Invoices, y)
        BY <1>3 DEF Invoices
      <3>4. ~Pending(rest, Invoices, y) => ~Pending(es, {"checkout"}, y)
        BY <3>1, <3>3, FirstFacts
      <3>5. ~Pending(es, {"checkout"}, y) => ~Pending(rest, {"checkout"}, y) /\ y # x
        BY <1>4, FirstFacts
      <3>6. QED
        BY <1>1, <3>2, <3>4, <3>5
    <2>2. QED
      BY <2>1 DEF FailureComes
  <1>10. PlanSynced(s2, p2, st, rest, q, t)
    <2>1. ASSUME InForce(p2, st, rest, q, t) PROVE s2.plan = st[q].plan /\ s2.expires = st[q].end
      <3>1. q = x /\ Pays(st[x]) /\ ~Pending(rest, {"updated"}, x)
        BY <1>1, <2>1 DEF InForce
      <3>2. PICK S : S = st[x]
        OBVIOUS
      <3>3. CheckoutTells(es, x, S)
        BY <1>2, <3>1, <3>2 DEF First, StripeSound
      <3>4. e.plan = S.plan
        BY <1>3, <1>4, <3>1, <3>3, CheckoutPopped DEF First
      <3>5. QED
        BY <1>1, <3>1, <3>2, <3>4
    <2>2. QED
      BY <2>1 DEF PlanSynced
  <1>11. ChangeComes(s2, p2, st, rest, q)
    BY DEF ChangeComes
  <1>12. QED
    BY <1>5, <1>6, <1>7, <1>8, <1>9, <1>10, <1>11 DEF RowsSound

\* The linked subscription is updated.
LEMMA UpdatedRows ==
    ASSUME NEW e, NEW es, NEW rest, NEW st, NEW n, NEW m, First(e, es, rest, st, n, m),
           NEW s, NEW p, NEW q, NEW t, RowsSound(s, p, st, es, n, m, q, t),
           e.type = "updated", p.link = e.id,
           NEW s2, s2.canceled = e.atEnd, s2.plan = e.plan, s2.expires = e.end,
           s2.pending = s.pending
    PROVE  RowsSound(s2, p, st, rest, n, m, q, t)
  <1>1. PICK y, S : y = e.id /\ S = st[y]
    OBVIOUS
  <1>2. y \in StripeIds /\ S.status # "none" /\ Pops(es, rest) /\ e = es[1] /\ y # Null
    BY <1>1, FirstInTurn, StripeIdsAreNat DEF First, About
  <1>3. Is(e, {"updated"}, y) /\ ~Is(e, Scheduling, p.schedule) /\ ~Is(e, Invoices, p.link)
    BY <1>1 DEF Is, Scheduling, Invoices
  <1>4. LinkFits(p, st, rest) /\ NewestLinked(p, st, rest, n) /\ FailureComes(p, st, rest)
    BY <1>3, LinkPopped, NewestPopped, FailurePopped DEF RowsSound
  <1>5. FirstFresh(s2, p, st, rest)
    <2>1. FirstFresh(s, p, st, rest)
      BY FirstPopped DEF RowsSound
    <2>2. QED
      BY <1>1, <1>2, <2>1 DEF FirstFresh
  <1>6. Pays(S) /\ ~Pending(rest, {"updated"}, y) => Tells(e, S)
    <2>1. Pays(S) => UpdatesTell(es, y, S)
      BY <1>1, <1>2 DEF First, StripeSound
    <2>2. QED
      BY <1>2, <1>3, <2>1, UpdatesPopped
  <1>7. Mirrored(s2, p, st, rest)
    <2>1. ASSUME y = 1, Pays(st[1])
          PROVE  /\ ~Pending(rest, {"updated"}, 1) => s2.canceled = st[1].atEnd
                 /\ \/ p.schedule = st[1].schedule
                    \/ st[1].schedule = Null /\ Pending(rest, Scheduling, p.schedule)
      <3>1. p.schedule = st[1].schedule
            \/ (st[1].schedule = Null /\ Pending(es, Scheduling, p.schedule))
        BY <1>1, <2>1 DEF RowsSound, Mirrored
      <3>2. Pending(es, Scheduling, p.schedule) => Pending(rest, Scheduling, p.schedule)
        BY <1>3, FirstFacts
      <3>3. ~Pending(rest, {"updated"}, 1) => s2.canceled = st[1].atEnd
        BY <1>1, <1>6, <2>1 DEF Tells
      <3>4. QED
        BY <3>1, <3>2, <3>3
    <2>2. QED
      BY <1>1, <2>1 DEF Mirrored
  <1>8. PlanSynced(s2, p, st, rest, q, t)
    BY <1>1, <1>6 DEF PlanSynced, InForce, Tells
  <1>9. ChangeComes(s2, p, st, rest, q)
    <2>1. ChangeComes(s, p, st, rest, q)
      BY ChangePopped DEF RowsSound
    <2>2. QED
      BY <2>1 DEF ChangeComes
  <1>10. QED
    BY <1>4, <1>5, <1>7, <1>8, <1>9 DEF RowsSound

\* The linked subscription is deleted.
LEMMA DeletedRows ==
    ASSUME NEW e, NEW es, NEW rest, NEW st, NEW n, NEW m \in Nat, First(e, es, rest, st, n, m),
           NEW s, NEW p, NEW q, NEW t, RowsSound(s, p, st, es, n, m, q, t),
           e.type = "deleted", p.link = e.id,
           NEW s2, s2.pending = NoPlan,
           NEW p2, p2.link = Null, p2.schedule = Null, p2.failed = p.failed
    PROVE  RowsSound(s2, p2, st, rest, n, m, q, t)
  <1>1. /\ e.id \in StripeIds /\ e.id # Null /\ st[e.id].status = "canceled"
        /\ ~Is(e, Invoices, p.link)
    BY FirstInTurn, StripeIdsAreNat DEF About, Is, Invoices
  <1>2. p2.schedule <= m /\ LinkFits(p2, st, rest) /\ FailureComes(p2, st, rest)
    BY <1>1, FailurePopped DEF RowsSound, LinkFits, Null
  <1>3. NewestLinked(p2, st, rest, n)
    <2>1. NewestLinked(p, st, rest, n)
      BY NewestPopped DEF RowsSound
    <2>2. QED
      BY <1>1, <2>1 DEF NewestLinked, Pays
  <1>4. FirstFresh(s2, p2, st, rest)
    <2>1. FirstFresh(s, p, st, rest)
      BY FirstPopped DEF RowsSound
    <2>2. QED
      BY <1>1, <2>1 DEF FirstFresh
  <1>5. Mirrored(s2, p2, st, rest) /\ ChangeComes(s2, p2, st, rest, q)
    BY DEF Mirrored, ChangeComes, Null
  <1>6. PlanSynced(s2, p2, st, rest, q, t)
    BY StripeIdsAreNat DEF PlanSynced, InForce
  <1>7. QED
    BY <1>2, <1>3, <1>4, <1>5, <1>6 DEF RowsSound

\* An invoice of the linked subscription is paid, or is not.
LEMMA InvoiceRows ==
    ASSUME NEW e, NEW es, NEW rest, NEW st, NEW n, NEW m, First(e, es, rest, st, n, m),
           NEW s, NEW p, NEW q, NEW t, RowsSound(s, p, st, es, n, m, q, t),
           e.type \in Invoices, p.link = e.id,
           NEW p2, p2.link = p.link, p2.schedule = p.schedule, p2.failed = (e.type = "failed")
    PROVE  RowsSound(s, p2, st, rest, n, m, q, t)
  <1>1. Is(e, Invoices, p.link) /\ ~Is(e, {"updated"}, p.link) /\ ~Is(e, Scheduling, p.schedule)
        /\ e.type # "checkout"
    BY DEF Is, Invoices, Scheduling
  <1>2. LinkFits(p, st, rest) /\ NewestLinked(p, st, rest, n) /\ FirstFresh(s, p, st, rest)
    BY <1>1, LinkPopped, NewestPopped, FirstPopped DEF RowsSound
  <1>3. Mirrored(s, p, st, rest) /\ PlanSynced(s, p, st, rest, q, t) /\ ChangeComes(s, p, st, rest, q)
    BY <1>1, MirrorPopped, PlanPopped, ChangePopped DEF RowsSound
  <1>4. FailureComes(p2, st, rest)
    BY <1>1, FailurePopped DEF RowsSound
  <1>5. LinkFits(p2, st, rest) /\ NewestLinked(p2, st, rest, n) /\ FirstFresh(s, p2, st, rest)
    BY <1>2 DEF LinkFits, NewestLinked, FirstFresh
  <1>6. Mirrored(s, p2, st, rest) /\ PlanSynced(s, p2, st, rest, q, t)
        /\ ChangeComes(s, p2, st, rest, q)
    BY <1>3 DEF Mirrored, PlanSynced, ChangeComes, InForce
  <1>7. QED
    BY <1>4, <1>5, <1>6 DEF RowsSound

\* The schedule of the row is over: the pending plan, if there is one and the schedule
\* was completed, takes effect.
LEMMA ScheduleRows ==
    ASSUME NEW e, NEW es, NEW rest, NEW st, NEW n, NEW m \in Nat, First(e, es, rest, st, n, m),
           NEW s, NEW p, NEW q, NEW t, RowsSound(s, p, st, es, n, m, q, t),
           p.link \in StripeIds \cup {Null},
           e.type \in Scheduling, p.schedule = e.id,
           NEW s2, s2.canceled = s.canceled, s2.expires = s.expires,
           s2.plan = s.plan \/ (e.type = "completed" /\ s.pending # NoPlan /\ s2.plan = s.pending),
           NEW p2, p2.link = p.link, p2.schedule = Null, p2.failed = p.failed
    PROVE  RowsSound(s2, p2, st, rest, n, m, q, t)
  <1>1. /\ e.id # Null /\ \A x \in StripeIds : st[x].schedule # e.id
        /\ Pops(es, rest) /\ e = es[1]
    BY FirstInTurn DEF First
  <1>2. e.type # "checkout" /\ ~Is(e, {"updated"}, p.link) /\ ~Is(e, Invoices, p.link)
    BY DEF Is, Invoices, Scheduling
  <1>3. p2.schedule <= m /\ FailureComes(p2, st, rest)
    BY <1>2, FailurePopped DEF RowsSound, Null
  <1>4. LinkFits(p2, st, rest) /\ NewestLinked(p2, st, rest, n)
    <2>1. LinkFits(p, st, rest) /\ NewestLinked(p, st, rest, n)
      BY <1>2, LinkPopped, NewestPopped DEF RowsSound
    <2>2. QED
      BY <2>1 DEF LinkFits, NewestLinked
  <1>5. FirstFresh(s2, p2, st, rest)
    <2>1. FirstFresh(s, p, st, rest)
      BY FirstPopped DEF RowsSound
    <2>2. QED
      BY <1>1, <2>1 DEF FirstFresh
  <1>6. Mirrored(s2, p2, st, rest)
    <2>1. ASSUME p.link = 1, Pays(st[1])
          PROVE  /\ ~Pending(rest, {"updated"}, 1) => s2.canceled = st[1].atEnd
                 /\ p2.schedule = st[1].schedule
      <3>1. 1 \in StripeIds
        BY <2>1 DEF Null
      <3>2. /\ ~Pending(es, {"updated"}, 1) => s.canceled = st[1].atEnd
            /\ p.schedule = st[1].schedule \/ st[1].schedule = Null
        BY <2>1 DEF RowsSound, Mirrored
      <3>3. Pending(es, {"updated"}, 1) => Pending(rest, {"updated"}, 1)
        BY <1>2, <2>1, FirstFacts
      <3>4. st[1].schedule = Null
        BY <1>1, <3>1, <3>2
      <3>5. QED
        BY <3>2, <3>3, <3>4
    <2>2. QED
      BY <2>1 DEF Mirrored
  <1>7. PlanSynced(s2, p2, st, rest, q, t)
    <2>1. ASSUME InForce(p2, st, rest, q, t) PROVE s2.plan = st[q].plan /\ s2.expires = st[q].end
      <3>1. /\ p.link = q /\ q \in StripeIds /\ Pays(st[q]) /\ ~Pending(rest, {"updated"}, q)
            /\ InForce(p, st, rest, q, t)
        BY <2>1 DEF InForce
      <3>2. PlanSynced(s, p, st, rest, q, t)
        BY <1>2, PlanPopped DEF RowsSound
      <3>3. s.plan = st[q].plan /\ s.expires = st[q].end
        BY <3>1, <3>2 DEF PlanSynced
      <3>4. ASSUME e.type = "completed", s.pending # NoPlan PROVE s.pending = st[q].plan
        <4>1. PICK plan, pending : plan = st[q].plan /\ pending = s.pending
          OBVIOUS
        <4>2. CompletesTo(es, e.id, q, pending, plan)
          BY <1>1, <3>1, <3>4, <4>1 DEF RowsSound, ChangeComes
        <4>3. Is(e, {"completed"}, e.id)
          BY <3>4 DEF Is
        <4>4. pending = plan
          BY <1>1, <3>1, <4>2, <4>3, CompletesPopped
        <4>5. QED
          BY <4>1, <4>4
      <3>5. QED
        BY <3>3, <3>4
    <2>2. QED
      BY <2>1 DEF PlanSynced
  <1>8. ChangeComes(s2, p2, st, rest, q)
    BY DEF ChangeComes
  <1>9. QED
    BY <1>3, <1>4, <1>5, <1>6, <1>7, <1>8 DEF RowsSound

-----------------------------------------------------------------------------
(* A goroutine begins.                                                      *)

Course(one) == Orderly(one) /\ IInv /\ OnCourse(one)

LEMMA CourseFacts ==
    ASSUME NEW one, Course(one), actor[one] = Idle
    PROVE  /\ sub \in Sub /\ psub \in Provider /\ stripe \in [StripeIds -> StripeSub]
           /\ used.requests \in Nat /\ now \in Nat \ {0}
           /\ StripeSound(stripe, events, Newest, used.requests)
           /\ Follows(sub, psub)
  <1>1. PICK s \in Sub, p \in Provider : Coming(actor[one].writes, s, p) /\ Follows(s, p)
    BY DEF Course, OnCourse
  <1>2. PICK ws : ws = actor[one].writes
    OBVIOUS
  <1>3. ws = << >> /\ Coming(ws, s, p)
    BY <1>1, <1>2 DEF Idle
  <1>4. s = sub /\ p = psub
    BY <1>3 DEF Coming
  <1>5. QED
    BY <1>1, <1>4 DEF Course, OnCourse, IInv, Rows, Counts, AtStripeFits

LEMMA Statements ==
    ASSUME NEW v, NEW w
    PROVE  /\ Len(<<v>>) = 1 /\ <<v>>[1] = v /\ \A k \in 1..1 : k = 1
           /\ Len(<<v, w>>) = 2 /\ <<v, w>>[1] = v /\ <<v, w>>[2] = w
           /\ \A k \in 1..2 : k = 1 \/ k = 2
  OBVIOUS

\* What the rows are when the statements of a handler have been done.
LEMMA ComingNothing == Coming(<< >>, sub, psub)
  BY DEF Coming

LEMMA ComingRow ==
    ASSUME NEW s
    PROVE  /\ Coming(<<Save(s)>>, s, psub)
           /\ s.canceled = sub.canceled /\ s.trialEnds = sub.trialEnds =>
                 Coming(<<Update(s)>>, s, psub)
  <1>1. PICK v, w : v = Save(s) /\ w = Update(s)
    OBVIOUS
  <1>2. v.to = "sub" /\ v.row = s /\ w.to = "some" /\ w.row = s
    BY <1>1 DEF Save, Update
  <1>3. Coming(<<v>>, s, psub)
    BY <1>2, Statements DEF Coming, RowWrites, ProviderWrites
  <1>4. s.canceled = sub.canceled /\ s.trialEnds = sub.trialEnds => Coming(<<w>>, s, psub)
    BY <1>2, Statements DEF Coming, RowWrites, ProviderWrites
  <1>5. QED
    BY <1>1, <1>3, <1>4

LEMMA ComingProvider ==
    ASSUME NEW p
    PROVE  Coming(<<SaveProvider(p)>>, sub, p)
  <1>1. PICK v : v = SaveProvider(p)
    OBVIOUS
  <1>2. v.to = "psub" /\ v.row = p
    BY <1>1 DEF SaveProvider
  <1>3. Coming(<<v>>, sub, p)
    BY <1>2, Statements DEF Coming, RowWrites, ProviderWrites
  <1>4. QED
    BY <1>1, <1>3

LEMMA ComingSession ==
    ASSUME NEW p, NEW plan
    PROVE  /\ Coming(<<Open(plan)>>, sub, psub)
           /\ psub = NoProvider => Coming(<<InsertProvider(p), Open(plan)>>, sub, p)
  <1>1. PICK v, w : v = InsertProvider(p) /\ w = Open(plan)
    OBVIOUS
  <1>2. v.to = "new_psub" /\ v.row = p /\ w.to = "session"
    BY <1>1 DEF InsertProvider, Open
  <1>3. Coming(<<w>>, sub, psub)
    BY <1>2, Statements DEF Coming, RowWrites, ProviderWrites
  <1>4. psub = NoProvider => Coming(<<v, w>>, sub, p)
    BY <1>2, Statements DEF Coming, RowWrites, ProviderWrites
  <1>5. QED
    BY <1>1, <1>3, <1>4

LEMMA ComingBoth ==
    ASSUME NEW s, NEW p
    PROVE  /\ Coming(<<SaveProvider(p), Save(s)>>, s, p)
           /\ Coming(<<Save(s), SaveProvider(p)>>, s, p)
           /\ psub = NoProvider => Coming(<<InsertProvider(p), Save(s)>>, s, p)
  <1>1. PICK v, w, z : v = SaveProvider(p) /\ w = Save(s) /\ z = InsertProvider(p)
    OBVIOUS
  <1>2. /\ v.to = "psub" /\ v.row = p /\ w.to = "sub" /\ w.row = s
        /\ z.to = "new_psub" /\ z.row = p
    BY <1>1 DEF SaveProvider, Save, InsertProvider
  <1>3. Coming(<<v, w>>, s, p)
    BY <1>2, Statements DEF Coming, RowWrites, ProviderWrites
  <1>4. Coming(<<w, v>>, s, p)
    BY <1>2, Statements DEF Coming, RowWrites, ProviderWrites
  <1>5. psub = NoProvider => Coming(<<z, w>>, s, p)
    BY <1>2, Statements DEF Coming, RowWrites, ProviderWrites
  <1>6. QED
    BY <1>1, <1>3, <1>4, <1>5

LEMMA Began ==
    ASSUME NEW one, Course(one), NEW op, NEW event, NEW ws, Start(one, op, event, ws),
           NEW s \in Sub, NEW p \in Provider, Coming(ws, s, p),
           StripeSound(stripe', events', Newest', used'.requests),
           RowsSound(s, p, stripe', events', Newest', used'.requests, Due', now)
    PROVE  OnCourse(one)'
  <1>1. one \in Actors
    BY DEF Course, Orderly
  <1>2. actor'[one].writes = ws
    BY <1>1 DEF Start, Course, IInv, ActorsFit
  <1>3. UNCHANGED <<sub, psub, now>>
    BY DEF Start
  <1>4. Coming(ws, s, p)'
    BY <1>3 DEF Coming
  <1>5. Coming(actor[one].writes, s, p)'
    BY <1>2, <1>4 DEF Coming
  <1>6. Follows(s, p)'
    BY <1>3 DEF Follows
  <1>7. QED
    BY <1>5, <1>6 DEF OnCourse

\* It asks nothing of Stripe, and leaves the links, the schedule, the cancellation and
\* a plan in force alone.
LEMMA RowsBegan ==
    ASSUME NEW one, Course(one), NEW op, NEW event, NEW ws, Start(one, op, event, ws),
           UNCHANGED <<stripe, events>>, used'.requests \in Nat,
           used.requests <= used'.requests, leaving' = leaving \/ leaving' = TRUE,
           NEW s \in Sub, NEW p \in Provider, Coming(ws, s, p),
           p.link = psub.link, p.schedule = psub.schedule, s.canceled = sub.canceled,
           p.failed = psub.failed \/ psub.link = Null,
           ~leaving' /\ psub.link # Null /\ sub.plan \in PremiumPlans /\ now < sub.expires =>
              s.plan = sub.plan /\ s.expires = sub.expires,
           ~leaving' => s.pending \in {sub.pending, NoPlan}
    PROVE  OnCourse(one)'
  <1>1. PICK st, es, n, m, m2, q, q2 :
           /\ st = stripe /\ es = events /\ n = Newest /\ m = used.requests
           /\ m2 = used'.requests /\ q = Due /\ q2 = Due'
    OBVIOUS
  <1>2. actor[one] = Idle
    BY DEF Start
  <1>3. /\ st \in [StripeIds -> StripeSub] /\ m \in Nat /\ m2 \in Nat /\ m <= m2
        /\ now \in Nat \ {0} /\ StripeSound(st, es, n, m)
        /\ RowsSound(sub, psub, st, es, n, m, q, now)
    BY <1>1, <1>2, CourseFacts DEF Follows
  <1>4. Newest' = n
    BY <1>1 DEF Newest
  <1>5. q2 = Null \/ (q2 = q /\ ~leaving')
    BY <1>1, <1>4 DEF Due
  <1>6. InForce(psub, st, es, q2, now) => s.plan = sub.plan /\ s.expires = sub.expires
    <2>1. ASSUME InForce(psub, st, es, q2, now) PROVE q2 # Null /\ psub.link # Null
      BY <2>1, StripeIdsAreNat DEF InForce
    <2>2. InForce(psub, st, es, q2, now) => sub.plan \in PremiumPlans /\ now < sub.expires
      BY <1>3, <1>5, <2>1, PremiumInForce
    <2>3. QED
      BY <1>5, <2>1, <2>2
  <1>7. RowsSound(s, p, st, es, n, m, q2, now)
    <2>1. q2 # Null => s.pending \in {sub.pending, NoPlan}
      BY <1>5
    <2>2. q2 = q \/ q2 = Null
      BY <1>5
    <2>3. QED
      BY <1>3, <1>6, <2>1, <2>2, RowsKept
  <1>8. StripeSound(st, es, n, m2) /\ RowsSound(s, p, st, es, n, m2, q2, now)
    BY <1>3, <1>7, MoreSchedules, MoreSchedulesInRows
  <1>9. StripeSound(stripe', events', Newest', used'.requests)
        /\ RowsSound(s, p, stripe', events', Newest', used'.requests, Due', now)
    BY <1>1, <1>4, <1>8
  <1>10. QED
    BY <1>9, Began

LEMMA ChangesOfRow ==
    ASSUME sub \in Sub
    PROVE  /\ [sub EXCEPT !.plan = "free", !.active = TRUE] \in Sub
           /\ [sub EXCEPT !.pending = "free"] \in Sub
           /\ [sub EXCEPT !.plan = "free", !.pending = NoPlan, !.active = TRUE] \in Sub
           /\ [sub EXCEPT !.plan = "free"] \in Sub
           /\ [sub EXCEPT !.active = FALSE] \in Sub
           /\ sub.pending # NoPlan =>
                 [sub EXCEPT !.plan = sub.pending, !.pending = NoPlan, !.active = TRUE] \in Sub
  BY DEF Sub, Plans, NoPlan

LEMMA Requested ==
    ASSUME used.requests \in Nat, Request
    PROVE  used'.requests \in Nat /\ used.requests <= used'.requests
  <1>1. used'.requests = used.requests \/ used'.requests = used.requests + 1
    BY DEF Request, Use
  <1>2. QED
    BY <1>1

LEMMA StatusOnCourse ==
    ASSUME NEW one, Course(one), GetStatus(one)
    PROVE  OnCourse(one)'
  <1>1. PICK s : s = [sub EXCEPT !.plan = "free", !.active = TRUE]
    OBVIOUS
  <1>2. /\ Start(one, "GetStatus", NoEvent, <<Update(s)>>) /\ actor[one] = Idle
        /\ UNCHANGED <<stripe, events, used, leaving>> /\ sub.plan = "trial"
    BY <1>1 DEF GetStatus, Start, external
  <1>3. sub \in Sub /\ psub \in Provider /\ used.requests \in Nat /\ s \in Sub
    BY <1>1, <1>2, CourseFacts, ChangesOfRow
  <1>4. /\ s.canceled = sub.canceled /\ s.trialEnds = sub.trialEnds /\ s.pending = sub.pending
        /\ sub.plan \notin PremiumPlans
    BY <1>1, <1>2, <1>3 DEF Sub, PremiumPlans
  <1>5. Coming(<<Update(s)>>, s, psub)
    BY <1>4, ComingRow
  <1>6. used'.requests \in Nat /\ used.requests <= used'.requests
    BY <1>2, <1>3
  <1>7. QED
    BY <1>2, <1>3, <1>4, <1>5, <1>6, RowsBegan

LEMMA UpgradeOnCourse ==
    ASSUME NEW one, Course(one), NEW plan \in Plans, Upgrade(one, plan)
    PROVE  OnCourse(one)'
  <1>1. PICK s : s = Subscribed(sub, plan)
    OBVIOUS
  <1>2. sub # NoSub => validatePlanTransition(GetEffectivePlanType(sub), PlanType(plan))
                       /\ StartRequest(one, "Upgrade", <<Update(s)>>)
    BY <1>1 DEF Upgrade
  <1>3. actor[one] = Idle
    BY DEF Upgrade, StartRequest, Start
  <1>4. sub \in Sub /\ psub \in Provider /\ used.requests \in Nat /\ sub # NoSub /\ now \in Nat
    BY <1>3, CourseFacts, NoSubIsNoRow
  <1>5. /\ Start(one, "Upgrade", NoEvent, <<Update(s)>>) /\ Request
        /\ UNCHANGED <<stripe, events, leaving>>
    BY <1>2, <1>4 DEF Upgrade, StartRequest, external
  <1>6. ~(sub.plan \in PremiumPlans /\ now < sub.expires)
    <2>1. ASSUME sub.plan \in PremiumPlans, now < sub.expires PROVE FALSE
      <3>1. sub.expires \in Nat
        BY <1>4 DEF Sub
      <3>2. GetEffectivePlanType(sub) = "premium"
        BY <1>4, <2>1, <3>1 DEF GetEffectivePlanType, Expired, PlanType, PremiumPlans
      <3>3. QED
        BY <1>2, <1>4, <3>2 DEF validatePlanTransition, PlanType, Plans, PremiumPlans
    <2>2. QED
      BY <2>1
  <1>7. s \in Sub
    <2>1. Days[plan] > 0 => now + Days[plan] \in Nat
      BY <1>4, SubscriptionsAssumption
    <2>2. QED
      BY <1>1, <1>4, <2>1 DEF Subscribed, Sub
  <1>8. s.canceled = sub.canceled /\ s.trialEnds = sub.trialEnds /\ s.pending = sub.pending
    BY <1>1, <1>4 DEF Subscribed, Sub
  <1>9. Coming(<<Update(s)>>, s, psub)
    BY <1>8, ComingRow
  <1>10. used'.requests \in Nat /\ used.requests <= used'.requests
    BY <1>4, <1>5, Requested
  <1>11. QED
    BY <1>4, <1>5, <1>6, <1>7, <1>8, <1>9, <1>10, RowsBegan

LEMMA DowngradeOnCourse ==
    ASSUME NEW one, Course(one), ScheduleDowngrade(one)
    PROVE  OnCourse(one)'
  <1>1. PICK s : s = IF HasStripeSubscription THEN [sub EXCEPT !.pending = "free"]
                     ELSE [sub EXCEPT !.plan = "free", !.pending = NoPlan, !.active = TRUE]
    OBVIOUS
  <1>2. /\ Start(one, "ScheduleDowngrade", NoEvent, <<Save(s)>>) /\ Request
        /\ UNCHANGED <<stripe, events>> /\ leaving' = TRUE /\ actor[one] = Idle
    BY <1>1 DEF ScheduleDowngrade, StartRequest, external, Start
  <1>3. sub \in Sub /\ psub \in Provider /\ used.requests \in Nat /\ s \in Sub
    BY <1>1, <1>2, CourseFacts, ChangesOfRow
  <1>4. s.canceled = sub.canceled
    BY <1>1, <1>3 DEF Sub
  <1>5. Coming(<<Save(s)>>, s, psub)
    BY ComingRow
  <1>6. used'.requests \in Nat /\ used.requests <= used'.requests
    BY <1>2, <1>3, Requested
  <1>7. QED
    BY <1>2, <1>3, <1>4, <1>5, <1>6, RowsBegan

LEMMA JobOnCourse ==
    ASSUME NEW one, Course(one), NEW op, NEW ws, Start(one, op, NoEvent, ws),
           UNCHANGED <<stripe, events, used, leaving>>,
           NEW s \in Sub, Coming(ws, s, psub), s.canceled = sub.canceled,
           s.pending \in {sub.pending, NoPlan},
           psub.link # Null /\ sub.plan \in PremiumPlans /\ now < sub.expires =>
              s.plan = sub.plan /\ s.expires = sub.expires
    PROVE  OnCourse(one)'
  <1>1. psub \in Provider /\ used.requests \in Nat
    BY CourseFacts DEF Start
  <1>2. used'.requests \in Nat /\ used.requests <= used'.requests
    BY <1>1
  <1>3. QED
    BY <1>1, <1>2, RowsBegan

LEMMA RenewalsOnCourse ==
    ASSUME NEW one, Course(one), ProcessRenewals(one)
    PROVE  OnCourse(one)'
  <1>1. /\ Start(one, "ProcessRenewals", NoEvent, Renewals) /\ actor[one] = Idle
        /\ UNCHANGED <<stripe, events, used, leaving>>
    BY DEF ProcessRenewals, Start, external
  <1>2. sub \in Sub
    BY <1>1, CourseFacts
  <1>3. PICK s, z : s = [sub EXCEPT !.plan = "free"] /\ z = [sub EXCEPT !.active = FALSE]
    OBVIOUS
  <1>4. /\ s \in Sub /\ z \in Sub
        /\ s.canceled = sub.canceled /\ s.trialEnds = sub.trialEnds /\ s.pending = sub.pending
        /\ z.canceled = sub.canceled /\ z.trialEnds = sub.trialEnds /\ z.pending = sub.pending
        /\ z.plan = sub.plan /\ z.expires = sub.expires
    BY <1>2, <1>3, ChangesOfRow DEF Sub
  <1>5. /\ Coming(<<Update(s)>>, s, psub) /\ Coming(<<Update(z)>>, z, psub)
        /\ Coming(<< >>, sub, psub)
    BY <1>4, ComingRow, ComingNothing
  <1>6. CASE Renewals = << >>
    BY <1>1, <1>2, <1>5, <1>6, JobOnCourse
  <1>7. CASE Renewals = <<Update(s)>> /\ sub.plan = "trial"
    <2>1. sub.plan \notin PremiumPlans
      BY <1>7 DEF PremiumPlans
    <2>2. Start(one, "ProcessRenewals", NoEvent, <<Update(s)>>)
      BY <1>1, <1>7
    <2>3. QED
      BY <1>1, <1>4, <1>5, <2>1, <2>2, JobOnCourse
  <1>8. CASE Renewals = <<Update(z)>>
    <2>1. Start(one, "ProcessRenewals", NoEvent, <<Update(z)>>)
      BY <1>1, <1>8
    <2>2. QED
      BY <1>1, <1>4, <1>5, <2>1, JobOnCourse
  <1>9. QED
    BY <1>3, <1>6, <1>7, <1>8 DEF Renewals

LEMMA ExpiredDowngradesOnCourse ==
    ASSUME NEW one, Course(one), ProcessExpiredDowngrades(one)
    PROVE  OnCourse(one)'
  <1>1. /\ Start(one, "ProcessExpiredDowngrades", NoEvent, ExpiredDowngrades)
        /\ UNCHANGED <<stripe, events, used, leaving>> /\ actor[one] = Idle
    BY DEF ProcessExpiredDowngrades, Start, external
  <1>2. sub \in Sub /\ now \in Nat
    BY <1>1, CourseFacts
  <1>3. CASE ExpiredDowngrades = << >>
    <2>1. Coming(<< >>, sub, psub)
      BY ComingNothing
    <2>2. QED
      BY <1>1, <1>2, <1>3, <2>1, JobOnCourse
  <1>4. CASE sub.pending # NoPlan /\ (sub.expires = Null \/ sub.expires <= now)
    <2>1. PICK s : s = [sub EXCEPT !.plan = sub.pending, !.pending = NoPlan, !.active = TRUE]
      OBVIOUS
    <2>2. Start(one, "ProcessExpiredDowngrades", NoEvent, <<Save(s)>>)
      BY <1>1, <1>4, <2>1 DEF ExpiredDowngrades
    <2>3. s \in Sub /\ s.canceled = sub.canceled /\ s.pending = NoPlan
      BY <1>2, <1>4, <2>1, ChangesOfRow DEF Sub
    <2>4. ~(now < sub.expires)
      BY <1>2, <1>4 DEF Sub, Null
    <2>5. Coming(<<Save(s)>>, s, psub)
      BY ComingRow
    <2>6. QED
      BY <1>1, <2>2, <2>3, <2>4, <2>5, JobOnCourse
  <1>5. QED
    BY <1>3, <1>4 DEF ExpiredDowngrades

LEMMA SessionOnCourse ==
    ASSUME NEW one, Course(one), NEW plan, CreateCheckout(one, plan)
    PROVE  OnCourse(one)'
  <1>1. PICK ws : /\ StartRequest(one, "CreateCheckout", ws)
                  /\ ws = IF psub = NoProvider /\ sub # NoSub
                          THEN <<InsertProvider(NewProvider), Open(plan)>> ELSE <<Open(plan)>>
    BY DEF CreateCheckout
  <1>2. /\ Start(one, "CreateCheckout", NoEvent, ws) /\ Request
        /\ UNCHANGED <<stripe, events, leaving>> /\ actor[one] = Idle
    BY <1>1 DEF CreateCheckout, StartRequest, external, Start
  <1>3. sub \in Sub /\ psub \in Provider /\ used.requests \in Nat
    BY <1>2, CourseFacts
  <1>4. used'.requests \in Nat /\ used.requests <= used'.requests
    BY <1>2, <1>3, Requested
  <1>5. PICK p : p = IF psub = NoProvider /\ sub # NoSub THEN NewProvider ELSE psub
    OBVIOUS
  <1>6. Coming(ws, sub, p)
    BY <1>1, <1>5, ComingSession
  <1>7. /\ p \in Provider /\ p.link = psub.link /\ p.schedule = psub.schedule
        /\ p.failed = psub.failed \/ psub.link = Null
    <2>1. /\ NewProvider \in Provider /\ NewProvider.link = Null /\ NewProvider.schedule = Null
          /\ NoProvider.link = Null /\ NoProvider.schedule = Null
      BY DEF NewProvider, NoProvider, Provider, Null
    <2>2. CASE p = psub
      BY <1>3, <2>2
    <2>3. CASE p = NewProvider /\ psub = NoProvider
      BY <2>1, <2>3
    <2>4. QED
      BY <1>5, <2>2, <2>3
  <1>8. QED
    BY <1>2, <1>3, <1>4, <1>6, <1>7, RowsBegan

-----------------------------------------------------------------------------
(* The steps at Stripe.                                                     *)

LEMMA Appended ==
    ASSUME NEW X, NEW es \in Seq(X), NEW new \in Seq(X), NEW all, all = es \o new
    PROVE  Joins(es, new, all)
  <1>1. Len(es) \in Nat /\ Len(new) \in Nat /\ Len(all) = Len(es) + Len(new)
    BY ConcatProperties, LenProperties
  <1>2. ASSUME NEW i \in 1..Len(es) PROVE all[i] = es[i]
    <2>1. i \in 1..(Len(es) + Len(new)) /\ i <= Len(es)
      BY <1>1
    <2>2. QED
      BY <2>1, ConcatProperties
  <1>3. ASSUME NEW j \in 1..Len(new) PROVE all[Len(es) + j] = new[j]
    <2>1. PICK k : k = Len(es) + j
      OBVIOUS
    <2>2. k \in 1..(Len(es) + Len(new)) /\ ~(k <= Len(es)) /\ k - Len(es) = j
      BY <1>1, <2>1
    <2>3. QED
      BY <2>1, <2>2, ConcatProperties
  <1>4. QED
    BY <1>1, <1>2, <1>3 DEF Joins

\* An event that tells what becomes of subscription x, which goes from S to S2.
Tiding(e, x, S, S2) ==
    \/ Is(e, {"updated"}, x) /\ Tells(e, S2)
    \/ Is(e, {"failed"}, x)
    \/ Is(e, {"paid"}, x) /\ S2.status # "past_due"
    \/ Is(e, {"deleted"}, x) /\ S2.status = "canceled"
    \/ /\ Is(e, Scheduling, S.schedule) /\ S.schedule # Null /\ S2.schedule = Null
       /\ e.type = "completed" => S2.plan = S.next

LEMMA TidingsGo ==
    ASSUME NEW es, NEW new, NEW all, Joins(es, new, all),
           NEW st \in [StripeIds -> StripeSub], NEW st2, NEW n, NEW m, StripeSound(st, es, n, m),
           NEW x \in StripeIds, NEW S, S = st[x], NEW S2, st2 = [st EXCEPT ![x] = S2],
           S.status # "none", S.status # "canceled", S2.status # "none",
           S2.plan \in PremiumPlans, S2.schedule \in {S.schedule, Null}, S2.next = S.next,
           S2.schedule # S.schedule /\ Pays(S2) => Pending(new, Scheduling, S.schedule),
           Pays(S2) => Pending(new, {"updated"}, x) \/ Tells(S, S2),
           S2.status = "past_due" => Pending(new, Invoices, x) \/ S.status = "past_due",
           \A j \in 1..Len(new) : Tiding(new[j], x, S, S2)
    PROVE  Goes(es, new, all, st, st2)
  <1>1. UpdatesTell(new, x, S2)
    BY DEF UpdatesTell, Tiding, Is, Scheduling
  <1>2. S2.status = "past_due" => InvoicesFail(new, x)
    BY DEF InvoicesFail, Tiding, Is, Scheduling, Invoices
  <1>3. Moves(S, S2, new, x)
    BY <1>1, <1>2 DEF Moves
  <1>4. \A j \in 1..Len(new) : new[j].type \in About => new[j].id = x
    BY DEF Tiding, Is, Scheduling, About
  <1>5. AllReported(new, st, st2)
    <2>1. ASSUME NEW j \in 1..Len(new), NEW e, e = new[j] PROVE Reported(e, st, st2)
      <3>1. Tiding(e, x, S, S2) /\ st[x] = S /\ st2[x] = S2
        BY <2>1
      <3>2. CASE Is(e, About, x) /\ (e.type = "deleted" => S2.status = "canceled")
        BY <3>1, <3>2 DEF Reported, Is, About, Scheduling
      <3>3. CASE /\ Is(e, Scheduling, S.schedule) /\ S.schedule # Null /\ S2.schedule = Null
                 /\ e.type = "completed" => S2.plan = S.next
        BY <3>1, <3>3 DEF Reported, Is, About, Scheduling
      <3>4. QED
        BY <3>1, <3>2, <3>3 DEF Tiding, Is, About
    <2>2. QED
      BY <2>1 DEF AllReported
  <1>6. QED
    BY <1>3, <1>4, <1>5, OneGoes

LEMMA NewestSame ==
    ASSUME \A x \in StripeIds : stripe'[x].status # "none" <=> stripe[x].status # "none"
    PROVE  Newest' = Newest
  <1>1. {x \in StripeIds : stripe'[x].status # "none"}
        = {x \in StripeIds : stripe[x].status # "none"}
    OBVIOUS
  <1>2. QED
    BY <1>1 DEF Newest

LEMMA NewestStays ==
    ASSUME NEW new, Goes(events, new, events', stripe, stripe')
    PROVE  Newest' = Newest
  <1>1. \A x \in StripeIds : stripe'[x].status # "none" <=> stripe[x].status # "none"
    BY MovedFacts
  <1>2. QED
    BY <1>1, NewestSame

LEMMA StripeGoesOn ==
    ASSUME NEW one, Course(one), NEW new, Goes(events, new, events', stripe, stripe'),
           UNCHANGED <<sub, psub, actor, now, leaving>>,
           used'.requests \in Nat, used.requests <= used'.requests
    PROVE  OnCourse(one)'
  <1>1. PICK s \in Sub, p \in Provider : Coming(actor[one].writes, s, p) /\ Follows(s, p)
    BY DEF Course, OnCourse
  <1>2. PICK es, all, st, st2, n, m, m2, q, t :
           /\ es = events /\ all = events' /\ st = stripe /\ st2 = stripe' /\ n = Newest
           /\ m = used.requests /\ m2 = used'.requests /\ q = Due /\ t = now
    OBVIOUS
  <1>3. Goes(es, new, all, st, st2) /\ m \in Nat /\ m2 \in Nat /\ m <= m2
    BY <1>2 DEF Course, IInv, Rows, Counts
  <1>4. StripeSound(st, es, n, m) /\ RowsSound(s, p, st, es, n, m, q, t)
    BY <1>1, <1>2 DEF Course, OnCourse, Follows
  <1>5. StripeSound(st, es, n, m2) /\ RowsSound(s, p, st, es, n, m2, q, t)
    BY <1>3, <1>4, MoreSchedules, MoreSchedulesInRows DEF Goes
  <1>6. StripeSound(st2, all, n, m2)
    BY <1>3, <1>5, StripeMoves DEF Goes
  <1>7. RowsSound(s, p, st2, all, n, m2, q, t)
    BY <1>3, <1>5, RowsMove
  <1>8. Newest' = n /\ Due' = q
    BY <1>2, NewestStays DEF Due
  <1>9. StripeSound(stripe', events', Newest', used'.requests) /\ Follows(s, p)'
    BY <1>2, <1>6, <1>7, <1>8 DEF Follows
  <1>10. Coming(actor[one].writes, s, p)'
    BY <1>1 DEF Coming
  <1>11. QED
    BY <1>9, <1>10 DEF OnCourse

LEMMA UpdatedIs ==
    ASSUME NEW x, NEW S
    PROVE  /\ Is(Updated(x, S), {"updated"}, x) /\ Tells(Updated(x, S), S)
           /\ \A type : Is(Event(type, x), {type}, x)
  BY DEF Updated, Event, Is, Tells

LEMMA RunningSubscription ==
    ASSUME NEW n, NEW m, NEW es, StripeSound(stripe, es, n, m), NEW x \in StripeIds,
           stripe \in [StripeIds -> StripeSub], Running(x)
    PROVE  /\ stripe[x].status \in {"active", "past_due"} /\ Kept(stripe[x], m)
           /\ Pays(stripe[x]) /\ stripe[x] \in StripeSub
  BY DEF Running, StripeSound, Pays

\* What is known at any time.
LEMMA CourseOfStripe ==
    ASSUME NEW one, Course(one)
    PROVE  /\ stripe \in [StripeIds -> StripeSub] /\ events \in Seq(Events)
           /\ used.requests \in Nat /\ now \in Nat
           /\ StripeSound(stripe, events, Newest, used.requests)
  BY DEF Course, OnCourse, IInv, Rows, Counts, AtStripeFits, EventsFit

LEMMA OverGoes ==
    ASSUME NEW one, Course(one), NEW x \in StripeIds, Running(x),
           NEW S, S = stripe[x], AtStripe(x, Over(S), <<Event("deleted", x)>>)
    PROVE  Goes(events, <<Event("deleted", x)>>, events', stripe, stripe')
  <1>1. PICK e, new, S2 : e = Event("deleted", x) /\ new = <<e>> /\ S2 = Over(S)
    OBVIOUS
  <1>2. /\ stripe \in [StripeIds -> StripeSub] /\ events \in Seq(Events)
        /\ StripeSound(stripe, events, Newest, used.requests)
        /\ S.status \in {"active", "past_due"} /\ Kept(S, used.requests) /\ S \in StripeSub
    BY CourseOfStripe, RunningSubscription
  <1>3. /\ S2.status = "canceled" /\ S2.schedule = Null /\ S2.plan = S.plan /\ S2.next = S.next
        /\ stripe' = [stripe EXCEPT ![x] = S2] /\ events' = events \o new
    BY <1>1, <1>2 DEF Over, AtStripe, StripeSub
  <1>4. Is(e, {"deleted"}, x)
    BY <1>1, UpdatedIs
  <1>5. new \in Seq({e} \cup Events) /\ events \in Seq({e} \cup Events)
    BY <1>1, <1>2
  <1>6. Joins(events, new, events')
    BY <1>3, <1>5, Appended
  <1>7. \A j \in 1..Len(new) : Tiding(new[j], x, S, S2)
    <2>1. Tiding(e, x, S, S2)
      BY <1>3, <1>4 DEF Tiding
    <2>2. QED
      BY <1>1, <2>1, Statements
  <1>8. S2.plan \in PremiumPlans /\ ~Pays(S2)
    BY <1>2, <1>3 DEF Kept, Pays
  <1>9. Goes(events, new, events', stripe, stripe')
    BY <1>2, <1>3, <1>6, <1>7, <1>8, TidingsGo
  <1>10. QED
    BY <1>1, <1>9

\* One or two events.
Lists(new, e, f, k) ==
    /\ new \in Seq({e, f}) /\ k \in {1, 2} /\ Len(new) = k
    /\ new[1] = e /\ (k = 2 => new[2] = f)

LEMMA Listed ==
    ASSUME NEW e, NEW f
    PROVE  /\ Lists(<<e>>, e, f, 1) /\ Lists(<<e, f>>, e, f, 2)
           /\ Lists(<<e>> \o << >>, e, f, 1) /\ Lists(<<e>> \o <<f>>, e, f, 2)
  <1>1. Lists(<<e>>, e, f, 1)
    BY DEF Lists
  <1>2. Lists(<<e, f>>, e, f, 2)
    BY DEF Lists
  <1>3. <<e>> \o << >> = <<e>>
    <2>1. <<e>> \in Seq({e, f})
      OBVIOUS
    <2>2. QED
      BY <2>1, ConcatEmptySeq
  <1>4. Lists(<<e>> \o <<f>>, e, f, 2)
    <2>1. PICK es : es = <<e>> \o <<f>>
      OBVIOUS
    <2>2. /\ Len(<<e>>) = 1 /\ Len(<<f>>) = 1 /\ <<e>>[1] = e /\ <<f>>[1] = f
          /\ <<e>> \in Seq({e, f}) /\ <<f>> \in Seq({e, f})
      OBVIOUS
    <2>3. es \in Seq({e, f}) /\ Len(es) = 2 /\ es[1] = e /\ es[2] = f
      BY <2>1, <2>2, ConcatProperties
    <2>4. QED
      BY <2>1, <2>3 DEF Lists
  <1>5. QED
    BY <1>1, <1>2, <1>3, <1>4

\* Stripe reports one or two events about subscription x, which goes from S to S2.
LEMMA ToldGoes ==
    ASSUME NEW one, Course(one), NEW x \in StripeIds, Running(x),
           NEW S, S = stripe[x], NEW S2, stripe' = [stripe EXCEPT ![x] = S2],
           NEW e, NEW f, NEW k, NEW new, Lists(new, e, f, k), events' = events \o new,
           Tiding(e, x, S, S2), k = 2 => Tiding(f, x, S, S2),
           S2.status # "none", S2.plan \in PremiumPlans, S2.schedule \in {S.schedule, Null},
           S2.next = S.next,
           Is(e, {"updated"}, x) \/ (k = 2 /\ Is(f, {"updated"}, x)),
           S2.schedule # S.schedule => k = 2 /\ Is(f, Scheduling, S.schedule),
           S2.status = "past_due" => Is(e, Invoices, x) \/ S.status = "past_due"
    PROVE  Goes(events, new, events', stripe, stripe')
  <1>1. /\ stripe \in [StripeIds -> StripeSub] /\ events \in Seq(Events)
        /\ StripeSound(stripe, events, Newest, used.requests)
        /\ S.status \in {"active", "past_due"}
    BY CourseOfStripe, RunningSubscription
  <1>2. /\ k \in {1, 2} /\ Len(new) = k /\ new[1] = e /\ (k = 2 => new[2] = f)
        /\ new \in Seq({e, f} \cup Events) /\ events \in Seq({e, f} \cup Events)
    BY <1>1 DEF Lists
  <1>3. Joins(events, new, events')
    BY <1>2, Appended
  <1>4. ASSUME NEW j \in 1..Len(new) PROVE Tiding(new[j], x, S, S2)
    <2>1. j = 1 \/ (j = 2 /\ k = 2)
      BY <1>2
    <2>2. QED
      BY <1>2, <2>1
  <1>5. 1 \in 1..Len(new) /\ (k = 2 => 2 \in 1..Len(new))
    BY <1>2
  <1>6. /\ \A T, y : Is(e, T, y) => Pending(new, T, y)
        /\ \A T, y : k = 2 /\ Is(f, T, y) => Pending(new, T, y)
    BY <1>2, <1>5 DEF Pending
  <1>7. QED
    BY <1>1, <1>3, <1>4, <1>6, TidingsGo

LEMMA PeriodEndsOnCourse ==
    ASSUME NEW one, Course(one), NEW x \in StripeIds, PeriodEnds(x)
    PROVE  OnCourse(one)'
  <1>1. PICK S : S = stripe[x]
    OBVIOUS
  <1>2. Running(x) /\ UNCHANGED <<sub, psub, actor, now, leaving, used>>
    BY DEF PeriodEnds, Elsewhere
  <1>3. /\ S.status \in {"active", "past_due"} /\ Kept(S, used.requests) /\ S \in StripeSub
        /\ used.requests \in Nat /\ used'.requests \in Nat /\ used.requests <= used'.requests
    BY <1>1, <1>2, CourseOfStripe, RunningSubscription
  <1>4. CASE S.atEnd
    <2>1. AtStripe(x, Over(S), <<Event("deleted", x)>>)
      BY <1>1, <1>4 DEF PeriodEnds
    <2>2. Goes(events, <<Event("deleted", x)>>, events', stripe, stripe')
      BY <1>1, <1>2, <2>1, OverGoes
    <2>3. QED
      BY <1>2, <1>3, <2>2, StripeGoesOn
  <1>5. CASE ~S.atEnd
    <2>1. PICK plan, S2 :
             /\ plan = IF S.schedule # Null THEN S.next ELSE S.plan
             /\ S2 = [S EXCEPT !.plan = plan, !.end = @ + Days[plan], !.schedule = Null]
      OBVIOUS
    <2>2. PICK last \in {"completed", "released"} :
             AtStripe(x, S2, <<Updated(x, S2)>>
                             \o IF S.schedule # Null THEN <<Event(last, S.schedule)>> ELSE << >>)
      BY <1>1, <1>5, <2>1 DEF PeriodEnds
    <2>3. PICK e, f, k, new :
             /\ e = Updated(x, S2) /\ f = Event(last, S.schedule)
             /\ k = IF S.schedule # Null THEN 2 ELSE 1
             /\ new = <<e>> \o IF S.schedule # Null THEN <<f>> ELSE << >>
      OBVIOUS
    <2>4. /\ Lists(new, e, f, k)
          /\ stripe' = [stripe EXCEPT ![x] = S2] /\ events' = events \o new
      <3>1. Lists(new, e, f, k)
        BY <2>3, Listed
      <3>2. QED
        BY <2>2, <2>3, <3>1 DEF AtStripe
    <2>5. plan \in PremiumPlans
      BY <1>3, <2>1 DEF Kept
    <2>6. /\ S2.status = S.status /\ S2.plan = plan /\ S2.schedule = Null /\ S2.next = S.next
      BY <1>3, <2>1 DEF StripeSub
    <2>7. Is(e, {"updated"}, x) /\ Tells(e, S2) /\ Is(f, {last}, S.schedule)
      BY <2>3, UpdatedIs
    <2>8. Is(f, Scheduling, S.schedule) /\ f.type = last
      BY <2>7 DEF Is, Scheduling
    <2>9. Tiding(e, x, S, S2)
      BY <2>7 DEF Tiding
    <2>10. S.schedule # Null => Tiding(f, x, S, S2)
      BY <2>1, <2>6, <2>8 DEF Tiding
    <2>11. S2.status # "none" /\ S2.plan \in PremiumPlans /\ S2.schedule \in {S.schedule, Null}
           /\ (S2.status = "past_due" => S.status = "past_due")
      BY <1>3, <2>5, <2>6
    <2>12. (k = 2 => Tiding(f, x, S, S2)) /\ (S2.schedule # S.schedule => k = 2)
      BY <2>3, <2>6, <2>10
    <2>13. Goes(events, new, events', stripe, stripe')
      BY <1>1, <1>2, <2>4, <2>6, <2>7, <2>8, <2>9, <2>11, <2>12, ToldGoes
    <2>14. QED
      BY <1>2, <1>3, <2>13, StripeGoesOn
  <1>6. QED
    BY <1>4, <1>5

LEMMA PortalOnCourse ==
    ASSUME NEW one, Course(one), NEW x \in StripeIds, Portal(x)
    PROVE  OnCourse(one)'
  <1>1. PICK S, S2, e : /\ S = stripe[x] /\ S2 = [S EXCEPT !.atEnd = ~@] /\ e = Updated(x, S2)
                        /\ Running(x) /\ AtStripe(x, S2, <<e>>)
    BY DEF Portal
  <1>2. UNCHANGED <<sub, psub, actor, now, leaving>> /\ Request
    BY DEF Portal, Elsewhere
  <1>3. /\ S.status \in {"active", "past_due"} /\ Kept(S, used.requests) /\ S \in StripeSub
        /\ used'.requests \in Nat /\ used.requests <= used'.requests
    BY <1>1, <1>2, CourseOfStripe, RunningSubscription, Requested
  <1>4. /\ S2.status = S.status /\ S2.plan = S.plan /\ S2.schedule = S.schedule
        /\ S2.next = S.next /\ S2.plan \in PremiumPlans
    BY <1>1, <1>3 DEF StripeSub, Kept
  <1>5. Is(e, {"updated"}, x) /\ Tiding(e, x, S, S2)
    BY <1>1, UpdatedIs DEF Tiding
  <1>6. PICK k, new : k = 1 /\ new = <<e>> /\ events' = events \o new
    BY <1>1 DEF AtStripe
  <1>7. stripe' = [stripe EXCEPT ![x] = S2] /\ Lists(new, e, e, k) /\ S2.status # "none"
    BY <1>1, <1>3, <1>4, <1>6, Listed DEF AtStripe
  <1>8. /\ S2.schedule \in {S.schedule, Null} /\ ~(S2.schedule # S.schedule)
        /\ S2.status = "past_due" => S.status = "past_due"
        /\ S = stripe[x] /\ Running(x) /\ (k = 2 => Tiding(e, x, S, S2))
    BY <1>1, <1>4, <1>6
  <1>9. Goes(events, new, events', stripe, stripe')
    BY <1>4, <1>5, <1>6, <1>7, <1>8, ToldGoes
  <1>10. QED
    BY <1>2, <1>3, <1>9, StripeGoesOn

LEMMA PaymentOnCourse ==
    ASSUME NEW one, Course(one), NEW x \in StripeIds, Payment(x)
    PROVE  OnCourse(one)'
  <1>1. PICK S, failed, paid : /\ S = stripe[x] /\ failed = [S EXCEPT !.status = "past_due"]
                               /\ paid = [S EXCEPT !.status = "active"]
    OBVIOUS
  <1>2. \/ S.status = "active" /\ AtStripe(x, failed, <<Event("failed", x), Updated(x, failed)>>)
        \/ S.status = "past_due" /\ AtStripe(x, paid, <<Event("paid", x), Updated(x, paid)>>)
        \/ S.status = "past_due" /\ AtStripe(x, Over(S), <<Event("deleted", x)>>)
    BY <1>1 DEF Payment
  <1>3. UNCHANGED <<sub, psub, actor, now, leaving>> /\ Request
    BY DEF Payment, Elsewhere
  <1>4. Running(x)
    BY <1>1, <1>2, StripeIdsAreNat DEF Running
  <1>5. /\ Kept(S, used.requests) /\ S \in StripeSub
        /\ used'.requests \in Nat /\ used.requests <= used'.requests
    BY <1>1, <1>3, <1>4, CourseOfStripe, RunningSubscription, Requested
  <1>6. ASSUME NEW S2 \in {failed, paid}, NEW type \in {"failed", "paid"},
               type = "failed" => S2 = failed, type = "paid" => S2 = paid,
               AtStripe(x, S2, <<Event(type, x), Updated(x, S2)>>)
        PROVE  OnCourse(one)'
    <2>1. PICK e, f : e = Event(type, x) /\ f = Updated(x, S2)
      OBVIOUS
    <2>2. PICK new : new = <<e, f>> /\ events' = events \o new
      BY <1>6, <2>1 DEF AtStripe
    <2>3. /\ S2.status = IF type = "failed" THEN "past_due" ELSE "active"
          /\ S2.plan = S.plan /\ S2.schedule = S.schedule
          /\ S2.next = S.next /\ S2.plan \in PremiumPlans
      BY <1>1, <1>5, <1>6 DEF StripeSub, Kept
    <2>4. Is(e, {type}, x) /\ Is(f, {"updated"}, x) /\ Tells(f, S2)
      BY <2>1, UpdatedIs
    <2>5. Tiding(e, x, S, S2) /\ Tiding(f, x, S, S2) /\ Is(e, Invoices, x)
      BY <2>3, <2>4 DEF Tiding, Is, Invoices
    <2>6. stripe' = [stripe EXCEPT ![x] = S2] /\ S2.status # "none" /\ Lists(new, e, f, 2)
      BY <1>6, <2>2, <2>3, Listed DEF AtStripe
    <2>7. Goes(events, new, events', stripe, stripe')
      BY <1>1, <1>4, <2>2, <2>3, <2>4, <2>5, <2>6, ToldGoes
    <2>8. QED
      BY <1>3, <1>5, <2>7, StripeGoesOn
  <1>7. CASE S.status = "past_due" /\ AtStripe(x, Over(S), <<Event("deleted", x)>>)
    <2>1. Goes(events, <<Event("deleted", x)>>, events', stripe, stripe')
      BY <1>1, <1>4, <1>7, OverGoes
    <2>2. QED
      BY <1>3, <1>5, <2>1, StripeGoesOn
  <1>8. QED
    BY <1>2, <1>6, <1>7

\* A new subscription x is paid; its checkout is reported.
Subscribes(es, new, all, st, st2, n, x, S) ==
    /\ Joins(es, new, all) /\ Len(new) = 1
    /\ Is(new[1], {"checkout"}, x) /\ new[1].plan = S.plan
    /\ st \in [StripeIds -> StripeSub] /\ st2 = [st EXCEPT ![x] = S]
    /\ n \in Nat /\ x = n + 1 /\ x \in StripeIds
    /\ S.status = "active" /\ S.plan \in PremiumPlans /\ S.atEnd = FALSE /\ S.schedule = Null

Newcomer(es, new, all, st, st2, x, S) ==
    /\ st2[x] = S /\ st[x].status = "none" /\ st[x].schedule = Null
    /\ \A z \in StripeIds : z # x => st2[z] = st[z]
    /\ \A z \in StripeIds : st[z].status # "none" => z < x
    /\ \A i \in 1..Len(all) : \/ i \in 1..Len(es) /\ all[i] = es[i]
                              \/ i = Len(es) + 1 /\ all[i] = new[1]
    /\ Len(es) \in Nat /\ Len(all) = Len(es) + 1
    /\ \A T, z : Pending(all, T, z) <=> Pending(es, T, z) \/ (z = x /\ "checkout" \in T)

LEMMA NewcomerFacts ==
    ASSUME NEW es, NEW new, NEW all, NEW st, NEW st2, NEW n, NEW m \in Nat, NEW x, NEW S,
           Subscribes(es, new, all, st, st2, n, x, S), StripeSound(st, es, n, m)
    PROVE  Newcomer(es, new, all, st, st2, x, S)
  <1>1. st2[x] = S /\ \A z \in StripeIds : z # x => st2[z] = st[z]
    BY DEF Subscribes
  <1>2. \A z \in StripeIds : st[z].status # "none" => z < x
    BY StripeIdsAreNat DEF Subscribes, StripeSound
  <1>3. st[x].status = "none" /\ x \in StripeIds
    BY <1>2, StripeIdsAreNat DEF Subscribes
  <1>4. st[x].schedule = Null
    BY <1>3 DEF StripeSound, NoStripeSub
  <1>5. Joins(es, new, all) /\ Len(new) = 1 /\ Len(es) \in Nat /\ Len(all) = Len(es) + 1
    BY DEF Subscribes, Joins
  <1>6. ASSUME NEW i \in 1..Len(all)
        PROVE  \/ i \in 1..Len(es) /\ all[i] = es[i]
               \/ i = Len(es) + 1 /\ all[i] = new[1]
    <2>1. CASE i \in 1..Len(es)
      BY <1>5, <2>1 DEF Joins
    <2>2. CASE i \notin 1..Len(es)
      <3>1. i = Len(es) + 1 /\ 1 \in 1..Len(new)
        BY <1>5, <2>2
      <3>2. QED
        BY <1>5, <3>1 DEF Joins
    <2>3. QED
      BY <2>1, <2>2
  <1>7. ASSUME NEW T, NEW z
        PROVE  Pending(all, T, z) <=> Pending(es, T, z) \/ (z = x /\ "checkout" \in T)
    <2>1. Pending(new, T, z) <=> Is(new[1], T, z)
      BY <1>5 DEF Pending
    <2>2. Is(new[1], T, z) <=> z = x /\ "checkout" \in T
      BY DEF Subscribes, Is
    <2>3. QED
      BY <1>5, <2>1, <2>2, PendingJoined
  <1>8. QED
    BY <1>1, <1>2, <1>3, <1>4, <1>5, <1>6, <1>7 DEF Newcomer

LEMMA StripePaid ==
    ASSUME NEW es, NEW new, NEW all, NEW st, NEW st2, NEW n, NEW m \in Nat, NEW x, NEW S,
           Subscribes(es, new, all, st, st2, n, x, S), StripeSound(st, es, n, m)
    PROVE  StripeSound(st2, all, n + 1, m)
  <1>1. /\ st2[x] = S /\ st[x].status = "none" /\ st[x].schedule = Null
        /\ \A z \in StripeIds : z # x => st2[z] = st[z]
        /\ \A z \in StripeIds : st[z].status # "none" => z < x
        /\ \A i \in 1..Len(all) : \/ i \in 1..Len(es) /\ all[i] = es[i]
                                  \/ i = Len(es) + 1 /\ all[i] = new[1]
        /\ Len(es) \in Nat /\ Len(all) = Len(es) + 1
        /\ \A T, z : Pending(all, T, z) <=> Pending(es, T, z) \/ (z = x /\ "checkout" \in T)
    <2>1. Newcomer(es, new, all, st, st2, x, S)
      BY NewcomerFacts
    <2>2. QED
      BY <2>1 DEF Newcomer
  <1>2. /\ x \in StripeIds /\ x = n + 1 /\ n \in Nat /\ S.status = "active"
        /\ S.plan \in PremiumPlans /\ S.atEnd = FALSE /\ S.schedule = Null
        /\ Is(new[1], {"checkout"}, x) /\ new[1].plan = S.plan
        /\ st \in [StripeIds -> StripeSub] /\ Joins(es, new, all) /\ Len(new) = 1
    BY DEF Subscribes
  <1>3. /\ \A z \in StripeIds : st2[z].status # "none" <=> z <= n + 1
        /\ \A z \in StripeIds : st2[z].status # "none" => Kept(st2[z], m)
        /\ \A z \in StripeIds : st2[z].status = "none" => st2[z] = NoStripeSub
    <2>1. ASSUME NEW z \in StripeIds
          PROVE  /\ st2[z].status # "none" <=> z <= n + 1
                 /\ st2[z].status # "none" => Kept(st2[z], m)
                 /\ st2[z].status = "none" => st2[z] = NoStripeSub
      <3>1. CASE z = x
        BY <1>1, <1>2, <3>1 DEF Kept, Null
      <3>2. CASE z # x
        <4>1. z \in Nat /\ (z <= n <=> z <= n + 1)
          BY <1>2, <3>2, StripeIdsAreNat
        <4>2. QED
          BY <1>1, <3>2, <4>1 DEF StripeSound
      <3>3. QED
        BY <3>1, <3>2
    <2>2. QED
      BY <2>1
  <1>4. \A z \in StripeIds : st2[z].schedule = st[z].schedule
    BY <1>1, <1>2
  <1>5. OwnSchedules(st2) /\ SchedulesOver(all, st2, m)
    <2>1. OwnSchedules(st2)
      BY <1>4 DEF StripeSound, OwnSchedules
    <2>2. SchedulesOver(es, st2, m)
      BY <1>4 DEF StripeSound, SchedulesOver
    <2>3. SchedulesOver(new, st2, m)
      BY <1>2 DEF SchedulesOver, Is, Scheduling
    <2>4. QED
      BY <1>2, <2>1, <2>2, <2>3, SchedulesJoined
  <1>6. ASSUME NEW z \in StripeIds, Pays(st2[z])
        PROVE  UpdatesTell(all, z, st2[z]) /\ CheckoutTells(all, z, st2[z])
    <2>1. UpdatesTell(new, z, st2[z])
      BY <1>2 DEF UpdatesTell, Is
    <2>2. CASE z = x
      <3>1. UpdatesTell(es, x, S)
        <4>1. \A i \in 1..Len(es) : ~Is(es[i], {"updated"}, x)
          BY <1>1 DEF StripeSound, InTurn, Is, About
        <4>2. QED
          BY <4>1 DEF UpdatesTell
      <3>2. UpdatesTell(all, x, S)
        BY <1>1, <1>2, <2>1, <2>2, <3>1, UpdatesJoined
      <3>3. ASSUME NEW i \in 1..Len(all), Is(all[i], {"checkout"}, x) PROVE all[i] = new[1]
        <4>1. \A j \in 1..Len(es) : ~Is(es[j], {"checkout"}, x)
          BY <1>1 DEF StripeSound, InTurn, Is
        <4>2. QED
          BY <1>1, <3>3, <4>1
      <3>4. CheckoutTells(all, x, S)
        BY <1>2, <3>3 DEF CheckoutTells
      <3>5. QED
        BY <1>1, <2>2, <3>2, <3>4
    <2>3. CASE z # x
      <3>1. PICK Z : Z = st[z]
        OBVIOUS
      <3>2. st2[z] = Z /\ Pays(Z)
        BY <1>1, <1>6, <2>3, <3>1
      <3>3. UpdatesTell(es, z, Z) /\ CheckoutTells(es, z, Z)
        BY <3>1, <3>2 DEF StripeSound
      <3>4. UpdatesTell(all, z, Z)
        BY <1>2, <2>1, <3>2, <3>3, UpdatesJoined
      <3>5. ASSUME NEW i \in 1..Len(all), Is(all[i], {"checkout"}, z),
                   ~Pending(all, {"updated"}, z)
            PROVE  all[i].plan = Z.plan /\ ~Z.atEnd
        <4>1. all[i] # new[1] /\ ~Pending(es, {"updated"}, z)
          BY <1>1, <1>2, <2>3, <3>5 DEF Is
        <4>2. i \in 1..Len(es) /\ all[i] = es[i]
          BY <1>1, <4>1
        <4>3. QED
          BY <3>3, <3>5, <4>1, <4>2 DEF CheckoutTells
      <3>6. CheckoutTells(all, z, Z)
        BY <3>5 DEF CheckoutTells
      <3>7. QED
        BY <3>2, <3>4, <3>6
    <2>4. QED
      BY <2>2, <2>3
  <1>7. InTurn(all, st2)
    <2>1. \A z \in StripeIds : /\ st[z].status # "none" => st2[z] = st[z] /\ z < x
                               /\ z \in Nat
      BY <1>1, StripeIdsAreNat
    <2>2. ASSUME NEW i \in 1..Len(all), NEW e, e = all[i]
          PROVE  /\ e.type \in About \cup {"checkout"} =>
                       e.id \in StripeIds /\ st2[e.id].status # "none"
                 /\ e.type = "deleted" => st2[e.id].status = "canceled"
                 /\ e.type = "checkout" =>
                       \A k \in (i + 1)..Len(all) : all[k].type = "checkout" => e.id < all[k].id
                 /\ e.type \in About => ~Later(all, i, {"checkout"}, e.id)
      <3>1. CASE i \in 1..Len(es) /\ all[i] = es[i]
        <4>1. /\ e.type \in About \cup {"checkout"} =>
                    e.id \in StripeIds /\ st[e.id].status # "none"
              /\ e.type = "deleted" => st[e.id].status = "canceled"
              /\ e.type = "checkout" =>
                    \A k \in (i + 1)..Len(es) : es[k].type = "checkout" => e.id < es[k].id
              /\ e.type \in About => ~Later(es, i, {"checkout"}, e.id)
          BY <2>2, <3>1 DEF StripeSound, InTurn
        <4>2. /\ e.type \in About \cup {"checkout"} =>
                    e.id \in StripeIds /\ st2[e.id].status # "none" /\ e.id < x
              /\ e.type = "deleted" => st2[e.id].status = "canceled"
          BY <2>1, <4>1 DEF About
        <4>3. ASSUME e.type = "checkout", NEW k \in (i + 1)..Len(all), all[k].type = "checkout"
              PROVE  e.id < all[k].id
          <5>1. k \in 1..Len(all)
            BY <1>1, <3>1
          <5>2. CASE k \in 1..Len(es) /\ all[k] = es[k]
            <6>1. k \in (i + 1)..Len(es)
              BY <5>2
            <6>2. QED
              BY <4>1, <4>3, <5>2, <6>1
          <5>3. CASE all[k] = new[1]
            BY <1>2, <4>2, <4>3, <5>3 DEF Is
          <5>4. QED
            BY <1>1, <5>1, <5>2, <5>3
        <4>4. ASSUME e.type \in About PROVE ~Later(all, i, {"checkout"}, e.id)
          <5>1. ~Pending(new, {"checkout"}, e.id)
            BY <1>2, <2>1, <4>2, <4>4 DEF Pending, Is
          <5>2. QED
            BY <1>2, <3>1, <4>1, <4>4, <5>1, LaterJoined
        <4>5. QED
          BY <4>2, <4>3, <4>4
      <3>2. CASE i = Len(es) + 1 /\ all[i] = new[1]
        <4>1. e.type = "checkout" /\ e.id = x /\ \A k \in (i + 1)..Len(all) : FALSE
          BY <1>1, <1>2, <2>2, <3>2 DEF Is
        <4>2. QED
          BY <1>1, <1>2, <4>1 DEF About
      <3>3. QED
        BY <1>1, <3>1, <3>2
    <2>3. QED
      BY <2>2 DEF InTurn
  <1>8. QED
    BY <1>3, <1>5, <1>6, <1>7 DEF StripeSound

LEMMA RowsPaid ==
    ASSUME NEW es, NEW new, NEW all, NEW st, NEW st2, NEW n, NEW m \in Nat, NEW x, NEW S,
           Subscribes(es, new, all, st, st2, n, x, S), StripeSound(st, es, n, m),
           NEW s, NEW p \in Provider, NEW q, NEW t, RowsSound(s, p, st, es, n, m, q, t)
    PROVE  RowsSound(s, p, st2, all, n + 1, m, x, t)
  <1>1. /\ st2[x] = S /\ st[x].status = "none" /\ st[x].schedule = Null
        /\ \A z \in StripeIds : z # x => st2[z] = st[z]
        /\ \A z \in StripeIds : st[z].status # "none" => z < x
        /\ \A i \in 1..Len(all) : \/ i \in 1..Len(es) /\ all[i] = es[i]
                                  \/ i = Len(es) + 1 /\ all[i] = new[1]
        /\ \A T, z : Pending(all, T, z) <=> Pending(es, T, z) \/ (z = x /\ "checkout" \in T)
    <2>1. Newcomer(es, new, all, st, st2, x, S)
      BY NewcomerFacts
    <2>2. QED
      BY <2>1 DEF Newcomer
  <1>2. /\ x \in StripeIds /\ x = n + 1 /\ n \in Nat /\ S.status = "active" /\ S.schedule = Null
        /\ Is(new[1], {"checkout"}, x) /\ Joins(es, new, all) /\ Len(new) = 1
    BY DEF Subscribes
  <1>3. p.link # Null => p.link \in StripeIds /\ p.link < x /\ st[p.link].status # "none"
    BY <1>1 DEF RowsSound, LinkFits, Provider
  <1>4. p.link # x
    BY <1>2, <1>3, StripeIdsAreNat
  <1>5. LinkFits(p, st2, all)
    <2>1. ASSUME p.link # Null PROVE CheckoutsAfter(all, p.link)
      <3>1. CheckoutsAfter(es, p.link)
        BY <2>1 DEF RowsSound, LinkFits
      <3>2. CheckoutsAfter(new, p.link)
        BY <1>2, <1>3, <2>1 DEF CheckoutsAfter, Is
      <3>3. QED
        BY <1>2, <3>1, <3>2, CheckoutsJoined
    <2>2. QED
      BY <1>1, <1>3, <1>4, <2>1 DEF LinkFits
  <1>6. NewestLinked(p, st2, all, n + 1)
    BY <1>1, <1>2 DEF NewestLinked
  <1>7. FirstFresh(s, p, st2, all)
    <2>1. ASSUME 1 \in StripeIds, st2[1].status = "none" \/ Pending(all, {"checkout"}, 1)
          PROVE  /\ st[1].status = "none" \/ Pending(es, {"checkout"}, 1)
                 /\ st[1].schedule = Null => st2[1].schedule = Null
      <3>1. CASE x = 1
        BY <1>1, <1>2, <3>1
      <3>2. CASE x # 1
        BY <1>1, <2>1, <3>2
      <3>3. QED
        BY <3>1, <3>2
    <2>2. QED
      BY <2>1 DEF RowsSound, FirstFresh
  <1>8. Mirrored(s, p, st2, all)
    <2>1. ASSUME p.link = 1, Pays(st2[1]) PROVE st2[1] = st[1]
      BY <1>1, <1>3, <1>4, <2>1 DEF Null
    <2>2. \A z : /\ Pending(all, {"updated"}, z) <=> Pending(es, {"updated"}, z)
                 /\ Pending(all, Scheduling, z) <=> Pending(es, Scheduling, z)
      BY <1>1 DEF Scheduling
    <2>3. QED
      BY <2>1, <2>2 DEF RowsSound, Mirrored
  <1>9. FailureComes(p, st2, all)
    <2>1. ASSUME NEW z \in StripeIds, st2[z].status = "past_due"
          PROVE  /\ InvoicesFail(all, z)
                 /\ ~Pending(all, Invoices, z) =>
                       ~Pending(all, {"checkout"}, z) /\ (p.link = z => p.failed)
      <3>1. z # x /\ st[z].status = "past_due"
        BY <1>1, <1>2, <2>1
      <3>2. /\ InvoicesFail(es, z)
            /\ ~Pending(es, Invoices, z) => ~Pending(es, {"checkout"}, z) /\ (p.link = z => p.failed)
        BY <3>1 DEF RowsSound, FailureComes
      <3>3. InvoicesFail(new, z)
        BY <1>2 DEF InvoicesFail, Is, Invoices
      <3>4. InvoicesFail(all, z)
        BY <1>2, <3>2, <3>3, InvoicesJoined
      <3>5. /\ Pending(all, Invoices, z) <=> Pending(es, Invoices, z)
            /\ Pending(all, {"checkout"}, z) <=> Pending(es, {"checkout"}, z)
        BY <1>1, <3>1 DEF Invoices
      <3>6. QED
        BY <3>2, <3>4, <3>5
    <2>2. QED
      BY <2>1 DEF FailureComes
  <1>10. PlanSynced(s, p, st2, all, x, t) /\ ChangeComes(s, p, st2, all, x)
    BY <1>4 DEF PlanSynced, ChangeComes, InForce
  <1>11. QED
    BY <1>5, <1>6, <1>7, <1>8, <1>9, <1>10 DEF RowsSound

LEMMA OneMore ==
    ASSUME NEW A, IsFiniteSet(A), NEW x, x \notin A, NEW B, B = A \cup {x}
    PROVE  Cardinality(B) = Cardinality(A) + 1 /\ Cardinality(A) \in Nat
  BY FS_AddElement, FS_CardinalityType

LEMMA PayOnCourse ==
    ASSUME NEW one, Course(one), NEW plan \in Plans, Pay(plan)
    PROVE  OnCourse(one)'
  <1>1. PICK s \in Sub, p \in Provider : Coming(actor[one].writes, s, p) /\ Follows(s, p)
    BY DEF Course, OnCourse
  <1>2. PICK n, x, S, e, new :
           /\ n = Newest /\ x = 1 + n /\ e = [Event("checkout", x) EXCEPT !.plan = plan]
           /\ S = [NoStripeSub EXCEPT !.status = "active", !.plan = plan, !.end = now + Days[plan]]
           /\ new = <<e>>
    OBVIOUS
  <1>3. /\ plan \in sessions /\ x \in StripeIds /\ AtStripe(x, S, new) /\ leaving' = FALSE
        /\ UNCHANGED <<sub, psub, actor, now, used>>
    BY <1>2 DEF Pay, Newest
  <1>4. PICK es, all, st, st2, m, q, t :
           /\ es = events /\ all = events' /\ st = stripe /\ st2 = stripe'
           /\ m = used.requests /\ q = Due /\ t = now
    OBVIOUS
  <1>5. /\ st \in [StripeIds -> StripeSub] /\ es \in Seq(Events) /\ m \in Nat
        /\ StripeSound(st, es, n, m) /\ RowsSound(s, p, st, es, n, m, q, t)
        /\ plan \in PremiumPlans
    BY <1>1, <1>2, <1>3, <1>4, CourseOfStripe DEF Follows, Course, IInv, Rows
  <1>6. n \in Nat
    <2>1. IsFiniteSet({z \in StripeIds : stripe[z].status # "none"})
      BY SubscriptionsAssumption, FS_Subset
    <2>2. QED
      BY <1>2, <2>1, FS_CardinalityType DEF Newest
  <1>7. /\ S.status = "active" /\ S.plan = plan /\ S.atEnd = FALSE /\ S.schedule = Null
        /\ Is(e, {"checkout"}, x) /\ e.plan = plan
    BY <1>2 DEF NoStripeSub, Event, Is
  <1>8. Joins(es, new, all) /\ Len(new) = 1 /\ new[1] = e /\ st2 = [st EXCEPT ![x] = S]
    <2>1. new \in Seq({e} \cup Events) /\ es \in Seq({e} \cup Events) /\ Len(new) = 1 /\ new[1] = e
      BY <1>2, <1>5
    <2>2. all = es \o new /\ st2 = [st EXCEPT ![x] = S]
      BY <1>3, <1>4 DEF AtStripe
    <2>3. QED
      BY <2>1, <2>2, Appended
  <1>9. Subscribes(es, new, all, st, st2, n, x, S) /\ n + 1 = x
    <2>1. n + 1 = x
      BY <1>2, <1>6
    <2>2. Is(new[1], {"checkout"}, x) /\ new[1].plan = S.plan /\ S.plan \in PremiumPlans
      BY <1>5, <1>7, <1>8
    <2>3. QED
      BY <1>3, <1>5, <1>6, <1>7, <1>8, <2>1, <2>2 DEF Subscribes
  <1>10. StripeSound(st2, all, x, m) /\ RowsSound(s, p, st2, all, x, m, x, t)
    <2>1. StripeSound(st2, all, n + 1, m)
      BY <1>5, <1>9, StripePaid
    <2>2. RowsSound(s, p, st2, all, n + 1, m, x, t)
      BY <1>5, <1>9, RowsPaid
    <2>3. QED
      BY <1>9, <2>1, <2>2
  <1>11. Newest' = x
    <2>1. PICK A, B : /\ A = {z \in StripeIds : stripe[z].status # "none"}
                      /\ B = {z \in StripeIds : stripe'[z].status # "none"}
      OBVIOUS
    <2>2. st2[x] = S /\ st[x].status = "none" /\ \A z \in StripeIds : z # x => st2[z] = st[z]
      <3>1. Newcomer(es, new, all, st, st2, x, S)
        BY <1>5, <1>9, NewcomerFacts
      <3>2. QED
        BY <3>1 DEF Newcomer
    <2>3. B = A \cup {x} /\ x \notin A
      BY <1>3, <1>4, <1>7, <2>1, <2>2
    <2>4. IsFiniteSet(A)
      BY <2>1, SubscriptionsAssumption, FS_Subset
    <2>5. Cardinality(B) = Cardinality(A) + 1
      BY <2>3, <2>4, OneMore
    <2>6. Newest' = Cardinality(B) /\ n = Cardinality(A)
      BY <1>2, <2>1 DEF Newest
    <2>7. QED
      BY <1>9, <2>5, <2>6
  <1>12. Due' = x
    BY <1>3, <1>11 DEF Due
  <1>13. StripeSound(stripe', events', Newest', used'.requests) /\ Follows(s, p)'
    BY <1>3, <1>4, <1>10, <1>11, <1>12 DEF Follows
  <1>14. Coming(actor[one].writes, s, p)'
    BY <1>1, <1>3 DEF Coming
  <1>15. QED
    BY <1>13, <1>14 DEF OnCourse

\* Time passes.
LEMMA TickOnCourse ==
    ASSUME NEW one, Course(one), Tick
    PROVE  OnCourse(one)'
  <1>1. PICK s \in Sub, p \in Provider : Coming(actor[one].writes, s, p) /\ Follows(s, p)
    BY DEF Course, OnCourse
  <1>2. /\ UNCHANGED <<sub, psub, actor, stripe, events, used, leaving>> /\ now' = now + 1
        /\ now \in Nat /\ stripe \in [StripeIds -> StripeSub]
    BY CourseOfStripe DEF Tick, external
  <1>3. PICK st, es, n, m, q, t : /\ st = stripe /\ es = events /\ n = Newest
                                  /\ m = used.requests /\ q = Due /\ t = now
    OBVIOUS
  <1>4. RowsSound(s, p, st, es, n, m, q, t) /\ t \in Nat /\ st \in [StripeIds -> StripeSub]
    BY <1>1, <1>2, <1>3 DEF Follows
  <1>5. PlanSynced(s, p, st, es, q, t + 1)
    <2>1. InForce(p, st, es, q, t + 1) => InForce(p, st, es, q, t)
      <3>1. q \in StripeIds => st[q].end \in Nat
        BY <1>4 DEF StripeSub
      <3>2. QED
        BY <1>4, <3>1 DEF InForce
    <2>2. QED
      BY <1>4, <2>1 DEF RowsSound, PlanSynced
  <1>6. RowsSound(s, p, st, es, n, m, q, t + 1)
    BY <1>4, <1>5 DEF RowsSound
  <1>7. Newest' = n /\ Due' = q
    BY <1>2, <1>3 DEF Newest, Due
  <1>8. Follows(s, p)'
    BY <1>2, <1>3, <1>6, <1>7 DEF Follows
  <1>9. StripeSound(stripe', events', Newest', used'.requests)
    BY <1>2, <1>3, <1>7, CourseOfStripe
  <1>10. Coming(actor[one].writes, s, p)'
    BY <1>1, <1>2 DEF Coming
  <1>11. QED
    BY <1>8, <1>9, <1>10 DEF OnCourse

-----------------------------------------------------------------------------
(* The steps that ask something of Stripe.                                  *)

LEMMA MovedRows ==
    ASSUME NEW one, Course(one), actor[one] = Idle,
           NEW new, Goes(events, new, events', stripe, stripe'), leaving' = leaving,
           used'.requests \in Nat, used.requests <= used'.requests
    PROVE  /\ StripeSound(stripe', events', Newest', used'.requests)
           /\ RowsSound(sub, psub, stripe', events', Newest', used'.requests, Due', now)
           /\ Due' = Due
  <1>1. PICK es, all, st, st2, n, m, m2, q, t :
           /\ es = events /\ all = events' /\ st = stripe /\ st2 = stripe' /\ n = Newest
           /\ m = used.requests /\ m2 = used'.requests /\ q = Due /\ t = now
    OBVIOUS
  <1>2. /\ Goes(es, new, all, st, st2) /\ m \in Nat /\ m2 \in Nat /\ m <= m2
        /\ psub \in Provider /\ StripeSound(st, es, n, m)
        /\ RowsSound(sub, psub, st, es, n, m, q, t)
    BY <1>1, CourseFacts DEF Follows
  <1>3. StripeSound(st, es, n, m2) /\ RowsSound(sub, psub, st, es, n, m2, q, t)
    BY <1>2, MoreSchedules, MoreSchedulesInRows DEF Goes
  <1>4. StripeSound(st2, all, n, m2)
    BY <1>2, <1>3, StripeMoves DEF Goes
  <1>5. RowsSound(sub, psub, st2, all, n, m2, q, t)
    BY <1>2, <1>3, RowsMove
  <1>6. Newest' = n /\ Due' = q
    BY <1>1, NewestStays DEF Due
  <1>7. QED
    BY <1>1, <1>4, <1>5, <1>6

LEMMA PricedOnCourse ==
    ASSUME NEW one, Course(one), NEW x, x = psub.link, Running(x), NEW plan \in PremiumPlans,
           handleUpgrade(one, x, plan), Request, UNCHANGED leaving
    PROVE  OnCourse(one)'
  <1>1. PICK S, S2, e, s, k, new :
           /\ S = stripe[x] /\ S2 = Repriced(S, plan) /\ e = Updated(x, S2) /\ new = <<e>>
           /\ s = [sub EXCEPT !.plan = plan] /\ k = 1
    OBVIOUS
  <1>2. /\ AtStripe(x, S2, new) /\ Start(one, "ChangePlan", NoEvent, <<Save(s)>>)
        /\ actor[one] = Idle
    BY <1>1 DEF handleUpgrade, Start
  <1>3. sub \in Sub /\ psub \in Provider /\ used.requests \in Nat
        /\ used'.requests \in Nat /\ used.requests <= used'.requests
    BY <1>2, CourseFacts, Requested
  <1>4. x \in StripeIds
    BY <1>3 DEF Running, Provider
  <1>5. S.status \in {"active", "past_due"} /\ S \in StripeSub
    BY <1>1, <1>4, CourseOfStripe, RunningSubscription
  <1>6. S2.status = S.status /\ S2.plan = plan /\ S2.schedule = S.schedule /\ S2.next = S.next
    BY <1>1, <1>5 DEF Repriced, StripeSub
  <1>7. /\ stripe' = [stripe EXCEPT ![x] = S2] /\ events' = events \o new
        /\ Lists(new, e, e, k) /\ Is(e, {"updated"}, x) /\ Tiding(e, x, S, S2)
    BY <1>1, <1>2, Listed, UpdatedIs DEF AtStripe, Tiding
  <1>8. Goes(events, new, events', stripe, stripe')
    <2>1. /\ S2.status # "none" /\ S2.plan \in PremiumPlans /\ S2.schedule \in {S.schedule, Null}
          /\ ~(S2.schedule # S.schedule) /\ (S2.status = "past_due" => S.status = "past_due")
          /\ S = stripe[x]
      BY <1>1, <1>5, <1>6
    <2>2. QED
      BY <1>4, <1>6, <1>7, <2>1, ToldGoes
  <1>9. /\ StripeSound(stripe', events', Newest', used'.requests)
        /\ RowsSound(sub, psub, stripe', events', Newest', used'.requests, Due', now)
    BY <1>2, <1>3, <1>8, MovedRows
  <1>10. PICK all, st2, n2, m2, q2, t :
            /\ all = events' /\ st2 = stripe' /\ n2 = Newest' /\ m2 = used'.requests
            /\ q2 = Due' /\ t = now
    OBVIOUS
  <1>11. RowsSound(sub, psub, st2, all, n2, m2, q2, t)
    BY <1>9, <1>10
  <1>12. Pending(all, {"updated"}, x)
    <2>1. Pending(new, {"updated"}, x)
      BY <1>7 DEF Lists, Pending
    <2>2. QED
      BY <1>8, <1>10, <2>1, PendingJoined DEF Goes
  <1>13. ~InForce(psub, st2, all, q2, t)
    BY <1>12 DEF InForce
  <1>14. s \in Sub /\ s.canceled = sub.canceled /\ s.pending = sub.pending
    BY <1>1, <1>3 DEF Sub, Plans, PremiumPlans
  <1>15. RowsSound(s, psub, st2, all, n2, m2, q2, t)
    BY <1>11, <1>13, <1>14, RowsKept
  <1>16. RowsSound(s, psub, stripe', events', Newest', used'.requests, Due', now)
    BY <1>10, <1>15
  <1>17. Coming(<<Save(s)>>, s, psub)
    BY ComingRow
  <1>18. QED
    BY <1>2, <1>3, <1>9, <1>14, <1>16, <1>17, Began

\* Subscription x gets schedule number m + 1.
LEMMA StripeScheduled ==
    ASSUME NEW st \in [StripeIds -> StripeSub], NEW es, NEW n, NEW m \in Nat,
           StripeSound(st, es, n, m), NEW x \in StripeIds, st[x].status # "none",
           NEW plan \in PremiumPlans, NEW S2,
           S2 = [st[x] EXCEPT !.schedule = m + 1, !.next = plan],
           NEW st2, st2 = [st EXCEPT ![x] = S2]
    PROVE  StripeSound(st2, es, n, m + 1)
  <1>1. PICK S : S = st[x]
    OBVIOUS
  <1>2. /\ S \in StripeSub /\ Kept(S, m) /\ st2[x] = S2 /\ m + 1 # Null
        /\ \A z \in StripeIds : z # x => st2[z] = st[z]
    BY <1>1 DEF StripeSound, Null
  <1>3. /\ S2.status = S.status /\ S2.plan = S.plan /\ S2.end = S.end /\ S2.atEnd = S.atEnd
        /\ S2.schedule = m + 1 /\ S2.next = plan
    BY <1>1, <1>2 DEF StripeSub
  <1>4. \A z \in StripeIds : st[z].schedule \in Nat /\ st[z].schedule <= m
    <2>1. ASSUME NEW z \in StripeIds PROVE st[z].schedule <= m
      BY DEF StripeSound, Kept, NoStripeSub, Null
    <2>2. QED
      BY <2>1 DEF StripeSub
  <1>5. /\ \A z \in StripeIds : st2[z].status # "none" <=> z <= n
        /\ \A z \in StripeIds : st2[z].status # "none" => Kept(st2[z], m + 1)
        /\ \A z \in StripeIds : st2[z].status = "none" => st2[z] = NoStripeSub
    <2>1. ASSUME NEW z \in StripeIds
          PROVE  /\ st2[z].status # "none" <=> z <= n
                 /\ st2[z].status # "none" => Kept(st2[z], m + 1)
                 /\ st2[z].status = "none" => st2[z] = NoStripeSub
      <3>1. CASE z = x
        <4>1. Kept(S2, m + 1) /\ S2.status # "none" /\ (S.status # "none" <=> x <= n)
          BY <1>1, <1>2, <1>3 DEF Kept, StripeSound
        <4>2. QED
          BY <1>1, <1>2, <1>3, <3>1, <4>1
      <3>2. CASE z # x
        <4>1. st[z].status # "none" => Kept(st[z], m + 1)
          BY <1>4 DEF StripeSound, Kept
        <4>2. QED
          BY <1>2, <3>2, <4>1 DEF StripeSound
      <3>3. QED
        BY <3>1, <3>2
    <2>2. QED
      BY <2>1
  <1>6. OwnSchedules(st2)
    <2>1. ASSUME NEW y \in StripeIds, NEW z \in StripeIds, y # z,
                 st2[y].schedule = st2[z].schedule
          PROVE  st2[y].schedule = Null
      <3>1. \A v \in StripeIds : v # x => st2[v].schedule # m + 1
        BY <1>2, <1>4
      <3>2. y # x /\ z # x
        BY <1>2, <1>3, <2>1, <3>1
      <3>3. QED
        BY <1>2, <2>1, <3>2 DEF StripeSound, OwnSchedules
    <2>2. QED
      BY <2>1 DEF OwnSchedules
  <1>7. SchedulesOver(es, st2, m + 1)
    <2>1. ASSUME NEW i \in 1..Len(es), es[i].type \in Scheduling
          PROVE  es[i].id \in 1..(m + 1) /\ \A z \in StripeIds : st2[z].schedule # es[i].id
      <3>1. es[i].id \in 1..m /\ \A z \in StripeIds : st[z].schedule # es[i].id
        BY <2>1 DEF StripeSound, SchedulesOver
      <3>2. es[i].id \in 1..(m + 1) /\ es[i].id # m + 1
        BY <3>1
      <3>3. QED
        BY <1>2, <1>3, <3>1, <3>2
    <2>2. QED
      BY <2>1 DEF SchedulesOver
  <1>8. ASSUME NEW z \in StripeIds, Pays(st2[z])
        PROVE  UpdatesTell(es, z, st2[z]) /\ CheckoutTells(es, z, st2[z])
    <2>1. CASE z = x
      <3>1. Pays(S)
        BY <1>2, <1>3, <1>8, <2>1 DEF Pays
      <3>2. UpdatesTell(es, x, S) /\ CheckoutTells(es, x, S)
        BY <1>1, <3>1 DEF StripeSound
      <3>3. UpdatesTell(es, x, S2) /\ CheckoutTells(es, x, S2)
        BY <1>3, <3>2 DEF UpdatesTell, CheckoutTells, Tells
      <3>4. QED
        BY <1>2, <2>1, <3>3
    <2>2. CASE z # x
      BY <1>2, <1>8, <2>2 DEF StripeSound
    <2>3. QED
      BY <2>1, <2>2
  <1>9. InTurn(es, st2)
    <2>1. \A z \in StripeIds : st2[z].status = st[z].status
      BY <1>1, <1>2, <1>3
    <2>2. InTurn(es, st)
      BY DEF StripeSound
    <2>3. QED
      BY <2>1, <2>2 DEF InTurn, About
  <1>10. QED
    BY <1>5, <1>6, <1>7, <1>8, <1>9 DEF StripeSound

LEMMA RowsScheduled ==
    ASSUME NEW st \in [StripeIds -> StripeSub], NEW es, NEW n, NEW m \in Nat,
           StripeSound(st, es, n, m), NEW x \in StripeIds, st[x].status # "none",
           NEW plan \in PremiumPlans, NEW S2,
           S2 = [st[x] EXCEPT !.schedule = m + 1, !.next = plan],
           NEW st2, st2 = [st EXCEPT ![x] = S2],
           NEW s, NEW p, NEW q, NEW t, RowsSound(s, p, st, es, n, m, q, t), p.link = x,
           NEW s2, s2.plan = s.plan, s2.expires = s.expires, s2.canceled = s.canceled,
           s2.pending = plan,
           NEW p2, p2.link = x, p2.schedule = m + 1, p2.failed = p.failed
    PROVE  RowsSound(s2, p2, st2, es, n, m + 1, q, t)
  <1>1. PICK S : S = st[x]
    OBVIOUS
  <1>2. /\ S \in StripeSub /\ st2[x] = S2 /\ x # Null
        /\ \A z \in StripeIds : z # x => st2[z] = st[z]
    BY <1>1, StripeIdsAreNat
  <1>3. /\ S2.status = S.status /\ S2.plan = S.plan /\ S2.end = S.end /\ S2.atEnd = S.atEnd
        /\ S2.schedule = m + 1 /\ S2.next = plan
    BY <1>1, <1>2 DEF StripeSub
  <1>4. \A z \in StripeIds : /\ st2[z].status = st[z].status /\ st2[z].plan = st[z].plan
                             /\ st2[z].end = st[z].end /\ st2[z].atEnd = st[z].atEnd
    BY <1>1, <1>2, <1>3
  <1>5. p2.schedule <= m + 1
    OBVIOUS
  <1>6. LinkFits(p2, st2, es) /\ NewestLinked(p2, st2, es, n) /\ FailureComes(p2, st2, es)
    BY <1>2, <1>4 DEF RowsSound, LinkFits, NewestLinked, FailureComes, Pays
  <1>7. FirstFresh(s2, p2, st2, es)
    BY <1>2, <1>4 DEF RowsSound, FirstFresh
  <1>8. Mirrored(s2, p2, st2, es)
    BY <1>2, <1>3, <1>4 DEF RowsSound, Mirrored, Pays
  <1>9. PlanSynced(s2, p2, st2, es, q, t)
    BY <1>4 DEF RowsSound, PlanSynced, InForce, Pays
  <1>10. ChangeComes(s2, p2, st2, es, q)
    <2>1. ASSUME q = x
          PROVE  /\ \A z \in StripeIds : st2[z].schedule = m + 1 => z = q /\ st2[z].next = plan
                 /\ CompletesTo(es, m + 1, q, plan, st2[q].plan)
      <3>1. \A z \in StripeIds : st[z].schedule <= m
        BY DEF StripeSound, Kept, NoStripeSub, Null
      <3>2. \A z \in StripeIds : st[z].schedule # m + 1
        BY <3>1 DEF StripeSub
      <3>3. \A z \in StripeIds : st2[z].schedule = m + 1 => z = q /\ st2[z].next = plan
        BY <1>2, <1>3, <2>1, <3>2
      <3>4. \A i \in 1..Len(es) : ~Is(es[i], {"completed"}, m + 1)
        BY DEF StripeSound, SchedulesOver, Scheduling, Is
      <3>5. QED
        BY <3>3, <3>4 DEF CompletesTo
    <2>2. QED
      BY <2>1 DEF ChangeComes
  <1>11. QED
    BY <1>5, <1>6, <1>7, <1>8, <1>9, <1>10 DEF RowsSound

LEMMA ScheduledOnCourse ==
    ASSUME NEW one, Course(one), NEW x, x = psub.link, Running(x), NEW plan \in PremiumPlans,
           handleDowngrade(one, x, plan), Request, UNCHANGED leaving
    PROVE  OnCourse(one)'
  <1>1. PICK S2, s, p, m :
           /\ m = used.requests /\ S2 = [stripe[x] EXCEPT !.schedule = m + 1, !.next = plan]
           /\ s = [sub EXCEPT !.pending = plan] /\ p = [psub EXCEPT !.schedule = m + 1]
    OBVIOUS
  <1>2. sub \in Sub /\ psub \in Provider /\ m \in Nat /\ actor[one] = Idle
    BY <1>1, CourseFacts DEF handleDowngrade, Start
  <1>3. 1 + used.requests = m + 1
    BY <1>1, <1>2
  <1>4. /\ AtStripe(x, S2, << >>)
        /\ Start(one, "ChangePlan", NoEvent, <<SaveProvider(p), Save(s)>>)
    BY <1>1, <1>3 DEF handleDowngrade, NewSchedule
  <1>5. stripe' = [stripe EXCEPT ![x] = S2] /\ events' = events /\ used'.requests = m + 1
    <2>1. events \in Seq(Events)
      BY CourseOfStripe
    <2>2. events \o << >> = events
      BY <2>1, ConcatEmptySeq
    <2>3. used'.requests = m + 1
      BY <1>1 DEF Request, Use, Course, IInv, Rows, Counts
    <2>4. QED
      BY <1>4, <2>2, <2>3 DEF AtStripe
  <1>6. PICK st, st2, es, n, q, t :
           /\ st = stripe /\ st2 = stripe' /\ es = events /\ n = Newest /\ q = Due /\ t = now
    OBVIOUS
  <1>7. /\ st \in [StripeIds -> StripeSub] /\ StripeSound(st, es, n, m)
        /\ RowsSound(sub, psub, st, es, n, m, q, t)
    BY <1>1, <1>2, <1>6, CourseFacts DEF Follows
  <1>8. x \in StripeIds /\ st[x].status # "none" /\ S2.status = st[x].status
    BY <1>1, <1>2, <1>6, <1>7 DEF Running, Provider, StripeSub
  <1>9. /\ s \in Sub /\ p \in Provider
        /\ s.plan = sub.plan /\ s.expires = sub.expires /\ s.canceled = sub.canceled
        /\ s.pending = plan /\ p.link = x /\ p.schedule = m + 1 /\ p.failed = psub.failed
    BY <1>1, <1>2 DEF Sub, Provider, Plans, PremiumPlans
  <1>10. st2 = [st EXCEPT ![x] = S2] /\ S2 = [st[x] EXCEPT !.schedule = m + 1, !.next = plan]
    BY <1>1, <1>5, <1>6
  <1>11. StripeSound(st2, es, n, m + 1) /\ RowsSound(s, p, st2, es, n, m + 1, q, t)
    <2>1. StripeSound(st2, es, n, m + 1)
      BY <1>2, <1>7, <1>8, <1>10, StripeScheduled
    <2>2. RowsSound(s, p, st2, es, n, m + 1, q, t)
      BY <1>2, <1>7, <1>8, <1>9, <1>10, RowsScheduled
    <2>3. QED
      BY <2>1, <2>2
  <1>12. Newest' = n
    <2>1. \A z \in StripeIds : stripe'[z].status # "none" <=> stripe[z].status # "none"
      BY <1>6, <1>7, <1>8, <1>10
    <2>2. QED
      BY <1>6, <2>1, NewestSame
  <1>13. Due' = q
    BY <1>6, <1>12 DEF Due
  <1>14. Coming(<<SaveProvider(p), Save(s)>>, s, p)
    BY ComingBoth
  <1>15. /\ StripeSound(stripe', events', Newest', used'.requests)
         /\ RowsSound(s, p, stripe', events', Newest', used'.requests, Due', now)
    BY <1>5, <1>6, <1>11, <1>12, <1>13
  <1>16. QED
    BY <1>4, <1>9, <1>14, <1>15, Began

LEMMA ChangePlanOnCourse ==
    ASSUME NEW one, Course(one), NEW plan, ChangePlan(one, plan)
    PROVE  OnCourse(one)'
  <1>1. /\ Running(psub.link) /\ plan \in PremiumPlans /\ Request /\ UNCHANGED leaving
        /\ handleUpgrade(one, psub.link, plan) \/ handleDowngrade(one, psub.link, plan)
    BY DEF ChangePlan
  <1>2. QED
    BY <1>1, PricedOnCourse, ScheduledOnCourse

Frees(st, x, st1) == st1 = [st EXCEPT ![x].schedule = Null]
Resumes(st, x, st1) == st1 = [st EXCEPT ![x].atEnd = FALSE]

Unscheduled(st, id) == \A z \in StripeIds : st[z].schedule # id

\* A schedule is released, and perhaps the cancellation of subscription y is taken back.
LEMMA ReleaseGoes ==
    ASSUME NEW st \in [StripeIds -> StripeSub], NEW es \in Seq(Events), NEW n, NEW m \in Nat,
           StripeSound(st, es, n, m), NEW x \in StripeIds, Pays(st[x]),
           NEW id, id = st[x].schedule, id # Null,
           NEW event, Is(event, {"released"}, id),
           NEW st1, Frees(st, x, st1),
           NEW all1, all1 = Append(es, event)
    PROVE  /\ Goes(es, <<event>>, all1, st, st1)
           /\ Unscheduled(st1, id)
           /\ st1 \in [StripeIds -> StripeSub]
  <1>1. PICK S, S2, new : S = st[x] /\ S2 = [S EXCEPT !.schedule = Null] /\ new = <<event>>
    OBVIOUS
  <1>2. S \in StripeSub /\ st1 = [st EXCEPT ![x] = S2] /\ S2 \in StripeSub
    BY <1>1 DEF StripeSub, Null, Frees
  <1>3. /\ S2.status = S.status /\ S2.plan = S.plan /\ S2.end = S.end /\ S2.atEnd = S.atEnd
        /\ S2.schedule = Null /\ S2.next = S.next
    BY <1>1, <1>2 DEF StripeSub
  <1>4. S.status \in {"active", "past_due"} /\ S.plan \in PremiumPlans
    BY <1>1 DEF Pays, StripeSound, Kept
  <1>5. Len(new) = 1 /\ new[1] = event /\ Joins(es, new, all1)
    <2>1. Len(new) = 1 /\ new[1] = event
      BY <1>1
    <2>2. es \in Seq({event} \cup Events)
      OBVIOUS
    <2>3. /\ Len(es) \in Nat /\ Len(all1) = Len(es) + 1 /\ all1[Len(es) + 1] = event
          /\ \A i \in 1..Len(es) : all1[i] = es[i]
      BY <2>2, AppendProperties, LenProperties
    <2>4. QED
      BY <2>1, <2>3 DEF Joins
  <1>6. Tells(S, S2) /\ Pending(new, Scheduling, S.schedule) /\ Tiding(event, x, S, S2)
    BY <1>1, <1>3, <1>5 DEF Tells, Pending, Is, Tiding, Scheduling
  <1>7. \A j \in 1..Len(new) : Tiding(new[j], x, S, S2)
    BY <1>5, <1>6
  <1>8. S.status # "none" /\ S.status # "canceled" /\ S2.status # "none"
        /\ S2.plan \in PremiumPlans /\ S2.schedule \in {S.schedule, Null}
        /\ (S2.status = "past_due" => S.status = "past_due")
    BY <1>3, <1>4
  <1>9. Goes(es, new, all1, st, st1)
    <2>1. /\ S = st[x] /\ S2.next = S.next /\ st1 = [st EXCEPT ![x] = S2]
          /\ S2.schedule # S.schedule /\ Pays(S2) => Pending(new, Scheduling, S.schedule)
          /\ Pays(S2) => Pending(new, {"updated"}, x) \/ Tells(S, S2)
          /\ S2.status = "past_due" => Pending(new, Invoices, x) \/ S.status = "past_due"
      BY <1>1, <1>2, <1>3, <1>6, <1>8
    <2>2. Joins(es, new, all1)
      BY <1>5
    <2>3. QED
      BY <1>7, <1>8, <2>1, <2>2, TidingsGo
  <1>10. \A z \in StripeIds : st1[z].schedule # id
    <2>1. \A z \in StripeIds : z # x => st[z].schedule # id
      BY DEF StripeSound, OwnSchedules
    <2>2. QED
      BY <1>2, <1>3, <2>1
  <1>11. QED
    BY <1>1, <1>2, <1>9, <1>10 DEF Unscheduled

LEMMA ResumeGoes ==
    ASSUME NEW st \in [StripeIds -> StripeSub], NEW es, NEW n, NEW m \in Nat,
           StripeSound(st, es, n, m), NEW y \in StripeIds, Pays(st[y]),
           NEW st2, Resumes(st, y, st2), NEW id, Unscheduled(st, id),
           NEW e, e = Updated(y, st2[y]), NEW all, Joins(es, <<e>>, all)
    PROVE  /\ Goes(es, <<e>>, all, st, st2) /\ Pending(all, {"updated"}, y)
           /\ Unscheduled(st2, id)
  <1>1. PICK S, S2, new : S = st[y] /\ S2 = [S EXCEPT !.atEnd = FALSE] /\ new = <<e>>
    OBVIOUS
  <1>2. S \in StripeSub /\ st2 = [st EXCEPT ![y] = S2] /\ st2[y] = S2
    BY <1>1 DEF Resumes
  <1>3. S2.status = S.status /\ S2.plan = S.plan /\ S2.schedule = S.schedule /\ S2.next = S.next
    BY <1>1, <1>2 DEF StripeSub
  <1>4. S.status \in {"active", "past_due"} /\ S.plan \in PremiumPlans
    BY <1>1 DEF Pays, StripeSound, Kept
  <1>5. Is(e, {"updated"}, y) /\ Tells(e, S2) /\ Len(new) = 1 /\ new[1] = e
    BY <1>1, <1>2, UpdatedIs
  <1>6. Tiding(e, y, S, S2) /\ Pending(new, {"updated"}, y)
    BY <1>5 DEF Tiding, Pending
  <1>7. \A j \in 1..Len(new) : Tiding(new[j], y, S, S2)
    BY <1>5, <1>6
  <1>8. S.status # "none" /\ S.status # "canceled" /\ S2.status # "none"
        /\ S2.plan \in PremiumPlans /\ S2.schedule \in {S.schedule, Null}
        /\ (S2.status = "past_due" => S.status = "past_due") /\ ~(S2.schedule # S.schedule)
        /\ Joins(es, new, all)
    BY <1>1, <1>3, <1>4
  <1>9. Goes(es, new, all, st, st2)
    <2>1. /\ S = st[y] /\ S2.next = S.next /\ st2 = [st EXCEPT ![y] = S2]
          /\ S2.schedule # S.schedule /\ Pays(S2) => Pending(new, Scheduling, S.schedule)
          /\ Pays(S2) => Pending(new, {"updated"}, y) \/ Tells(S, S2)
          /\ S2.status = "past_due" => Pending(new, Invoices, y) \/ S.status = "past_due"
      BY <1>1, <1>2, <1>3, <1>6, <1>8
    <2>2. QED
      BY <1>7, <1>8, <2>1, TidingsGo
  <1>10. Pending(all, {"updated"}, y)
    BY <1>6, <1>8, PendingJoined
  <1>11. \A z \in StripeIds : st2[z].schedule = st[z].schedule
    BY <1>1, <1>2, <1>3
  <1>12. QED
    BY <1>1, <1>9, <1>10, <1>11 DEF Unscheduled

\* The cancellation of the linked subscription is to be taken back too.
Reenable == sub.canceled /\ psub.link # Null

LEMMA CancelOnCourse ==
    ASSUME NEW one, Course(one), CancelScheduledChange(one)
    PROVE  OnCourse(one)'
  <1>1. PICK y, event, s, p, ws :
           /\ y = psub.link /\ event = Event("released", psub.schedule)
           /\ s = [sub EXCEPT !.pending = NoPlan, !.canceled = FALSE]
           /\ p = [psub EXCEPT !.schedule = Null]
           /\ ws = IF Reenable /\ ~Running(y) THEN << >> ELSE <<SaveProvider(p), Save(s)>>
    OBVIOUS
  <1>2. /\ psub.schedule # Null /\ Start(one, "CancelScheduledChange", NoEvent, ws)
        /\ Request /\ UNCHANGED leaving /\ actor[one] = Idle
    BY <1>1 DEF CancelScheduledChange, Start, Reenable
  <1>3. PICK x, st1 :
           /\ x \in StripeIds /\ Running(x) /\ stripe[x].schedule = psub.schedule
           /\ st1 = [stripe EXCEPT ![x].schedule = Null]
           /\ IF Reenable /\ Running(y)
              THEN LET resumed == [st1 EXCEPT ![y].atEnd = FALSE]
                   IN  stripe' = resumed /\ events' = events \o <<event, Updated(y, resumed[y])>>
              ELSE stripe' = st1 /\ events' = Append(events, event)
    BY <1>1 DEF CancelScheduledChange, Reenable
  <1>4. PICK es, st, n, m, m2, q, t, all1 :
           /\ es = events /\ st = stripe /\ n = Newest /\ m = used.requests
           /\ m2 = used'.requests /\ q = Due /\ t = now /\ all1 = Append(es, event)
    OBVIOUS
  <1>5. /\ sub \in Sub /\ psub \in Provider /\ st \in [StripeIds -> StripeSub]
        /\ es \in Seq(Events) /\ m \in Nat /\ m2 \in Nat /\ m <= m2
        /\ StripeSound(st, es, n, m) /\ RowsSound(sub, psub, st, es, n, m, q, t)
    BY <1>2, <1>4, CourseFacts, CourseOfStripe, Requested DEF Follows
  <1>6. StripeSound(st, es, n, m2) /\ RowsSound(sub, psub, st, es, n, m2, q, t)
    BY <1>5, MoreSchedules, MoreSchedulesInRows
  <1>7. /\ Goes(es, <<event>>, all1, st, st1)
        /\ Unscheduled(st1, psub.schedule)
        /\ st1 \in [StripeIds -> StripeSub]
    <2>1. Pays(st[x])
      BY <1>3, <1>4 DEF Running, Pays
    <2>2. Is(event, {"released"}, psub.schedule)
      BY <1>1, UpdatedIs
    <2>3. QED
      <3>1. PICK id : id = psub.schedule
        OBVIOUS
      <3>2. x \in StripeIds /\ id = st[x].schedule /\ id # Null /\ Is(event, {"released"}, id)
            /\ Frees(st, x, st1) /\ all1 = Append(es, event)
        BY <1>2, <1>3, <1>4, <2>2, <3>1 DEF Frees
      <3>3. QED
        BY <1>5, <2>1, <3>1, <3>2, ReleaseGoes
  <1>8. StripeSound(st1, all1, n, m2) /\ RowsSound(sub, psub, st1, all1, n, m2, q, t)
    <2>1. StripeSound(st1, all1, n, m2)
      BY <1>5, <1>6, <1>7, StripeMoves DEF Goes
    <2>2. QED
      BY <1>5, <1>6, <1>7, <2>1, RowsMove
  <1>9. /\ \A z \in StripeIds : stripe'[z].status # "none" <=> st[z].status # "none"
        /\ StripeSound(stripe', events', n, m2) /\ stripe' \in [StripeIds -> StripeSub]
        /\ RowsSound(sub, psub, stripe', events', n, m2, q, t)
        /\ Unscheduled(stripe', psub.schedule)
        /\ Reenable /\ Running(y) => Pending(events', {"updated"}, y)
    <2>1. CASE Reenable /\ Running(y)
      <3>1. PICK st2, e, all :
               /\ st2 = [st1 EXCEPT ![y].atEnd = FALSE] /\ e = Updated(y, st2[y])
               /\ all = es \o <<event, e>>
        OBVIOUS
      <3>2. stripe' = st2 /\ events' = all
        BY <1>3, <1>4, <2>1, <3>1
      <3>3. y \in StripeIds /\ Pays(st1[y])
        <4>1. y \in StripeIds /\ Pays(st[y])
          BY <1>1, <1>4, <1>5, <2>1 DEF Running, Pays, Provider
        <4>2. st1[y].status = st[y].status
          BY <1>3, <1>4, <1>5, <4>1 DEF StripeSub
        <4>3. QED
          BY <4>1, <4>2 DEF Pays
      <3>4. Joins(all1, <<e>>, all)
        <4>1. PICK X, two : X = {event, e} \cup Events /\ two = <<event, e>>
          OBVIOUS
        <4>2. es \in Seq(X) /\ two \in Seq(X) /\ Len(two) = 2 /\ two[1] = event /\ two[2] = e
              /\ event \in X
          BY <1>5, <4>1
        <4>3. Joins(es, two, all)
          BY <3>1, <4>1, <4>2, Appended
        <4>4. /\ Len(es) \in Nat /\ Len(all1) = Len(es) + 1 /\ all1[Len(es) + 1] = event
              /\ \A i \in 1..Len(es) : all1[i] = es[i]
          BY <1>4, <4>2, AppendProperties, LenProperties
        <4>5. /\ Len(all) = Len(es) + 2 /\ all[Len(es) + 1] = event /\ all[Len(es) + 2] = e
              /\ \A i \in 1..Len(es) : all[i] = es[i]
          BY <4>2, <4>3 DEF Joins
        <4>6. \A i \in 1..Len(all1) : all[i] = all1[i]
          BY <4>4, <4>5
        <4>7. (Len(es) + 1) + 1 = Len(es) + 2
          BY <4>4
        <4>8. QED
          BY <4>4, <4>5, <4>6, <4>7 DEF Joins
      <3>5. /\ Goes(all1, <<e>>, all, st1, st2) /\ Pending(all, {"updated"}, y)
            /\ Unscheduled(st2, psub.schedule)
        <4>1. Resumes(st1, y, st2)
          BY <3>1 DEF Resumes
        <4>2. PICK id : id = psub.schedule /\ Unscheduled(st1, id)
          BY <1>7
        <4>3. e = Updated(y, st2[y])
          BY <3>1
        <4>4. Goes(all1, <<e>>, all, st1, st2) /\ Pending(all, {"updated"}, y) /\ Unscheduled(st2, id)
          BY <1>5, <1>7, <1>8, <3>3, <3>4, <4>1, <4>2, <4>3, ResumeGoes
        <4>5. QED
          BY <4>2, <4>4
      <3>6. StripeSound(st2, all, n, m2)
        BY <1>5, <1>8, <3>5, StripeMoves DEF Goes
      <3>7. RowsSound(sub, psub, st2, all, n, m2, q, t)
        BY <1>5, <1>8, <3>5, RowsMove
      <3>8. \A z \in StripeIds : st2[z].status # "none" <=> st[z].status # "none"
        BY <1>7, <3>5, MovedFacts
      <3>9. st2 \in [StripeIds -> StripeSub]
        BY <1>7, <3>1 DEF StripeSub
      <3>10. QED
        BY <3>2, <3>5, <3>6, <3>7, <3>8, <3>9
    <2>2. CASE ~(Reenable /\ Running(y))
      <3>1. stripe' = st1 /\ events' = all1
        BY <1>3, <1>4, <2>2
      <3>2. \A z \in StripeIds : st1[z].status # "none" <=> st[z].status # "none"
        BY <1>7, MovedFacts
      <3>3. QED
        BY <1>7, <1>8, <2>2, <3>1, <3>2
    <2>3. QED
      BY <2>1, <2>2
  <1>10. Newest' = n /\ Due' = q
    <2>1. Newest' = n
      BY <1>4, <1>9, NewestSame
    <2>2. QED
      BY <1>2, <1>4, <2>1 DEF Due
  <1>11. CASE Reenable /\ ~Running(y)
    <2>1. Coming(ws, sub, psub)
      BY <1>1, <1>11, ComingNothing
    <2>2. /\ StripeSound(stripe', events', Newest', used'.requests)
          /\ RowsSound(sub, psub, stripe', events', Newest', used'.requests, Due', now)
      BY <1>4, <1>9, <1>10
    <2>3. QED
      BY <1>2, <1>5, <2>1, <2>2, Began
  <1>12. CASE ~(Reenable /\ ~Running(y))
    <2>1. Coming(ws, s, p)
      BY <1>1, <1>12, ComingBoth
    <2>2. PICK st2, all : st2 = stripe' /\ all = events'
      OBVIOUS
    <2>3. /\ s \in Sub /\ p \in Provider /\ p.link = psub.link /\ p.schedule = Null
          /\ p.failed = psub.failed /\ s.plan = sub.plan /\ s.expires = sub.expires
          /\ s.pending = NoPlan /\ s.canceled = FALSE
      BY <1>1, <1>5 DEF Sub, Provider, Null
    <2>4. /\ psub.link \in StripeIds \cup {Null} /\ sub.canceled \in BOOLEAN
          /\ psub.link # Null => sub.canceled = FALSE \/ Pending(all, {"updated"}, psub.link)
      BY <1>1, <1>5, <1>9, <1>12, <2>2 DEF Provider, Sub, Reenable
    <2>5. /\ st2 \in [StripeIds -> StripeSub] /\ RowsSound(sub, psub, st2, all, n, m2, q, t)
          /\ \A z \in StripeIds : st2[z].schedule # psub.schedule
      BY <1>9, <2>2 DEF Unscheduled
    <2>6. RowsSound(s, p, st2, all, n, m2, q, t)
      BY <1>2, <1>5, <2>3, <2>4, <2>5, RowsFreed
    <2>7. /\ StripeSound(stripe', events', Newest', used'.requests)
          /\ RowsSound(s, p, stripe', events', Newest', used'.requests, Due', now)
      BY <1>4, <1>9, <1>10, <2>2, <2>6
    <2>8. QED
      BY <1>2, <2>1, <2>3, <2>7, Began
  <1>13. QED
    BY <1>11, <1>12

-----------------------------------------------------------------------------
(* The first event is handled.                                              *)

\* Event e is the first one, rest is what is left.
Told(e, rest) ==
    /\ e \in Events /\ First(e, events, rest, stripe, Newest, used.requests)
    /\ sub \in Sub /\ psub \in Provider /\ Follows(sub, psub)
    /\ used.requests \in Nat /\ Newest \in Nat /\ stripe \in [StripeIds -> StripeSub]

\* Statements ws make the rows fit what is left.
Handles(ws, rest) ==
    \E s \in Sub, p \in Provider :
        /\ Coming(ws, s, p)
        /\ RowsSound(s, p, stripe, rest, Newest, used.requests, Due, now)

LEMMA NothingHandled ==
    ASSUME NEW e, NEW rest, Told(e, rest), e.type # "checkout",
           ~Is(e, {"updated"} \cup Invoices, psub.link), ~Is(e, Scheduling, psub.schedule)
    PROVE  Handles(<< >>, rest)
  <1>1. PICK es, n, m, q, t, st :
           es = events /\ n = Newest /\ m = used.requests /\ q = Due /\ t = now /\ st = stripe
    OBVIOUS
  <1>2. First(e, es, rest, st, n, m) /\ RowsSound(sub, psub, st, es, n, m, q, t)
    BY <1>1 DEF Told, Follows
  <1>3. RowsSound(sub, psub, st, rest, n, m, q, t)
    BY <1>2, EventPasses
  <1>4. sub \in Sub /\ psub \in Provider /\ Coming(<< >>, sub, psub)
    BY ComingNothing DEF Told
  <1>5. QED
    BY <1>1, <1>3, <1>4 DEF Handles

LEMMA CheckoutHandled ==
    ASSUME NEW e, NEW rest, Told(e, rest), e.type = "checkout"
    PROVE  Handles(handleCheckoutSessionCompleted(e), rest)
  <1>1. PICK es, n, m, q, t, st :
           es = events /\ n = Newest /\ m = used.requests /\ q = Due /\ t = now /\ st = stripe
    OBVIOUS
  <1>2. /\ First(e, es, rest, st, n, m) /\ RowsSound(sub, psub, st, es, n, m, q, t)
        /\ n \in Nat /\ st \in [StripeIds -> StripeSub]
    BY <1>1 DEF Told, Follows
  <1>3. sub \in Sub /\ psub \in Provider /\ e.plan \in Plans
    BY DEF Told, Events
  <1>4. e.id \in StripeIds /\ st[e.id].end \in Nat
    <2>1. e.id \in StripeIds
      BY <1>2, FirstInTurn
    <2>2. QED
      BY <1>2, <2>1 DEF StripeSub
  <1>5. PICK s, p :
           /\ s = CheckedOut(sub, e.id, e.plan)
           /\ p = IF psub = NoProvider THEN [NewProvider EXCEPT !.link = e.id]
                  ELSE [psub EXCEPT !.link = e.id]
    OBVIOUS
  <1>6. /\ s \in Sub /\ s.canceled = sub.canceled /\ s.canceled \in BOOLEAN
        /\ s.plan = e.plan /\ s.expires = st[e.id].end /\ s.pending = NoPlan
    BY <1>1, <1>3, <1>4, <1>5 DEF CheckedOut, Sub, Null
  <1>7. p \in Provider /\ p.link = e.id /\ p.schedule = psub.schedule
    <2>1. CASE psub = NoProvider
      BY <1>4, <1>5, <2>1 DEF NoProvider, NewProvider, Provider, Null
    <2>2. CASE psub # NoProvider
      BY <1>3, <1>4, <1>5, <2>2 DEF Provider
    <2>3. QED
      BY <2>1, <2>2
  <1>8. RowsSound(s, p, st, rest, n, m, q, t)
    BY <1>2, <1>3, <1>6, <1>7, CheckoutRows
  <1>9. Coming(handleCheckoutSessionCompleted(e), s, p)
    <2>1. sub # NoSub
      BY <1>3, NoSubIsNoRow
    <2>2. CASE psub = NoProvider
      <3>1. handleCheckoutSessionCompleted(e) = <<InsertProvider(p), Save(s)>>
        BY <1>5, <2>1, <2>2 DEF handleCheckoutSessionCompleted
      <3>2. QED
        BY <2>2, <3>1, ComingBoth
    <2>3. CASE psub # NoProvider
      <3>1. handleCheckoutSessionCompleted(e) = <<SaveProvider(p), Save(s)>>
        BY <1>5, <2>1, <2>3 DEF handleCheckoutSessionCompleted
      <3>2. QED
        BY <3>1, ComingBoth
    <2>4. QED
      BY <2>2, <2>3
  <1>10. QED
    BY <1>1, <1>6, <1>7, <1>8, <1>9 DEF Handles

LEMMA UpdateHandled ==
    ASSUME NEW e, NEW rest, Told(e, rest), e.type = "updated"
    PROVE  Handles(handleSubscriptionUpdated(e), rest)
  <1>1. CASE psub.link # e.id
    <2>1. handleSubscriptionUpdated(e) = << >>
      BY <1>1 DEF handleSubscriptionUpdated, Linked
    <2>2. ~Is(e, {"updated"} \cup Invoices, psub.link) /\ ~Is(e, Scheduling, psub.schedule)
      BY <1>1 DEF Is, Scheduling
    <2>3. QED
      BY <2>1, <2>2, NothingHandled
  <1>2. CASE psub.link = e.id
    <2>1. PICK es, n, m, q, t, st :
             es = events /\ n = Newest /\ m = used.requests /\ q = Due /\ t = now /\ st = stripe
      OBVIOUS
    <2>2. First(e, es, rest, st, n, m) /\ RowsSound(sub, psub, st, es, n, m, q, t)
      BY <2>1 DEF Told, Follows
    <2>3. sub \in Sub /\ psub \in Provider /\ sub # NoSub
      BY NoSubIsNoRow DEF Told
    <2>4. PICK s : s = Synced(sub, e)
      OBVIOUS
    <2>5. /\ s \in Sub /\ s.canceled = e.atEnd /\ s.plan = e.plan /\ s.expires = e.end
          /\ s.pending = sub.pending
      <3>1. (e.status \in {"active", "past_due"}) \in BOOLEAN
        OBVIOUS
      <3>2. e.plan \in Plans /\ e.atEnd \in BOOLEAN /\ e.end \in Nat
        BY DEF Told, Events
      <3>3. QED
        BY <2>3, <2>4, <3>1, <3>2 DEF Synced, Sub
    <2>6. RowsSound(s, psub, st, rest, n, m, q, t)
      BY <1>2, <2>2, <2>5, UpdatedRows
    <2>7. handleSubscriptionUpdated(e) = <<Save(s)>>
      BY <1>2, <2>3, <2>4 DEF handleSubscriptionUpdated, Linked
    <2>8. Coming(handleSubscriptionUpdated(e), s, psub)
      BY <2>7, ComingRow
    <2>9. QED
      BY <2>1, <2>3, <2>5, <2>6, <2>8 DEF Handles
  <1>3. QED
    BY <1>1, <1>2

LEMMA DeletionHandled ==
    ASSUME NEW e, NEW rest, Told(e, rest), e.type = "deleted"
    PROVE  Handles(handleSubscriptionDeleted(e), rest)
  <1>1. CASE psub.link # e.id
    <2>1. handleSubscriptionDeleted(e) = << >>
      BY <1>1 DEF handleSubscriptionDeleted, Linked
    <2>2. ~Is(e, {"updated"} \cup Invoices, psub.link) /\ ~Is(e, Scheduling, psub.schedule)
      BY <1>1 DEF Is, Scheduling
    <2>3. QED
      BY <2>1, <2>2, NothingHandled
  <1>2. CASE psub.link = e.id
    <2>1. PICK es, n, m, q, t, st :
             es = events /\ n = Newest /\ m = used.requests /\ q = Due /\ t = now /\ st = stripe
      OBVIOUS
    <2>2. First(e, es, rest, st, n, m) /\ RowsSound(sub, psub, st, es, n, m, q, t) /\ m \in Nat
      BY <2>1 DEF Told, Follows
    <2>3. sub \in Sub /\ psub \in Provider /\ sub # NoSub
      BY NoSubIsNoRow DEF Told
    <2>4. PICK s, p : s = Deleted(sub) /\ p = [psub EXCEPT !.link = Null, !.schedule = Null]
      OBVIOUS
    <2>5. s \in Sub /\ s.pending = NoPlan
      BY <2>3, <2>4 DEF Deleted, Sub, Plans, Null
    <2>6. p \in Provider /\ p.link = Null /\ p.schedule = Null /\ p.failed = psub.failed
      BY <2>3, <2>4 DEF Provider, Null
    <2>7. RowsSound(s, p, st, rest, n, m, q, t)
      BY <1>2, <2>2, <2>5, <2>6, DeletedRows
    <2>8. handleSubscriptionDeleted(e) = <<Save(s), SaveProvider(p)>>
      BY <1>2, <2>3, <2>4 DEF handleSubscriptionDeleted, Linked
    <2>9. Coming(handleSubscriptionDeleted(e), s, p)
      BY <2>8, ComingBoth
    <2>10. QED
      BY <2>1, <2>5, <2>6, <2>7, <2>9 DEF Handles
  <1>3. QED
    BY <1>1, <1>2

LEMMA InvoiceHandled ==
    ASSUME NEW e, NEW rest, Told(e, rest), e.type \in Invoices, NEW failed \in BOOLEAN,
           failed = (e.type = "failed")
    PROVE  Handles(handleInvoice(e, failed), rest)
  <1>1. CASE psub.link # e.id
    <2>1. handleInvoice(e, failed) = << >>
      BY <1>1 DEF handleInvoice
    <2>2. /\ ~Is(e, {"updated"} \cup Invoices, psub.link) /\ ~Is(e, Scheduling, psub.schedule)
          /\ e.type # "checkout"
      BY <1>1 DEF Is, Scheduling, Invoices
    <2>3. QED
      BY <2>1, <2>2, NothingHandled
  <1>2. CASE psub.link = e.id
    <2>1. PICK es, n, m, q, t, st :
             es = events /\ n = Newest /\ m = used.requests /\ q = Due /\ t = now /\ st = stripe
      OBVIOUS
    <2>2. First(e, es, rest, st, n, m) /\ RowsSound(sub, psub, st, es, n, m, q, t)
      BY <2>1 DEF Told, Follows
    <2>3. sub \in Sub /\ psub \in Provider
      BY DEF Told
    <2>4. PICK p : p = [psub EXCEPT !.failed = failed]
      OBVIOUS
    <2>5. /\ p \in Provider /\ p.link = psub.link /\ p.schedule = psub.schedule
          /\ p.failed = failed
      BY <2>3, <2>4 DEF Provider
    <2>6. RowsSound(sub, p, st, rest, n, m, q, t)
      BY <1>2, <2>2, <2>5, InvoiceRows
    <2>7. handleInvoice(e, failed) = <<SaveProvider(p)>>
      BY <1>2, <2>4 DEF handleInvoice
    <2>8. Coming(handleInvoice(e, failed), sub, p)
      BY <2>7, ComingProvider
    <2>9. QED
      BY <2>1, <2>3, <2>5, <2>6, <2>8 DEF Handles
  <1>3. QED
    BY <1>1, <1>2

LEMMA ScheduleHandled ==
    ASSUME NEW e, NEW rest, Told(e, rest), e.type \in Scheduling
    PROVE  /\ e.type = "completed" => Handles(handleScheduleCompleted(e), rest)
           /\ e.type = "released" => Handles(handleScheduleReleased(e), rest)
  <1>1. CASE psub.schedule # e.id
    <2>1. handleScheduleCompleted(e) = << >> /\ handleScheduleReleased(e) = << >>
      BY <1>1 DEF handleScheduleCompleted, handleScheduleReleased, Scheduled
    <2>2. /\ ~Is(e, {"updated"} \cup Invoices, psub.link) /\ ~Is(e, Scheduling, psub.schedule)
          /\ e.type # "checkout"
      BY <1>1 DEF Is, Scheduling, Invoices
    <2>3. QED
      BY <2>1, <2>2, NothingHandled
  <1>2. CASE psub.schedule = e.id
    <2>1. PICK es, n, m, q, t, st :
             es = events /\ n = Newest /\ m = used.requests /\ q = Due /\ t = now /\ st = stripe
      OBVIOUS
    <2>2. First(e, es, rest, st, n, m) /\ RowsSound(sub, psub, st, es, n, m, q, t) /\ m \in Nat
      BY <2>1 DEF Told, Follows
    <2>3. /\ sub \in Sub /\ psub \in Provider /\ sub # NoSub
          /\ psub.link \in StripeIds \cup {Null}
      BY NoSubIsNoRow DEF Told, Provider
    <2>4. PICK s, p : /\ p = [psub EXCEPT !.schedule = Null]
                      /\ s = IF sub.pending = NoPlan THEN sub
                             ELSE [sub EXCEPT !.plan = sub.pending, !.pending = NoPlan]
      OBVIOUS
    <2>5. /\ p \in Provider /\ p.link = psub.link /\ p.schedule = Null
          /\ p.failed = psub.failed
      BY <2>3, <2>4 DEF Provider, Null
    <2>6. /\ s \in Sub /\ s.canceled = sub.canceled /\ s.expires = sub.expires
          /\ s.plan = sub.plan \/ (sub.pending # NoPlan /\ s.plan = sub.pending)
      BY <2>3, <2>4 DEF Sub
    <2>7. CASE e.type = "completed"
      <3>1. RowsSound(s, p, st, rest, n, m, q, t)
        BY <1>2, <2>2, <2>3, <2>5, <2>6, <2>7, ScheduleRows
      <3>2. handleScheduleCompleted(e) = <<Save(s), SaveProvider(p)>>
        BY <1>2, <2>3, <2>4 DEF handleScheduleCompleted, Scheduled
      <3>3. Coming(handleScheduleCompleted(e), s, p)
        BY <3>2, ComingBoth
      <3>4. QED
        BY <2>1, <2>5, <2>6, <2>7, <3>1, <3>3 DEF Handles
    <2>8. CASE e.type = "released"
      <3>1. RowsSound(sub, p, st, rest, n, m, q, t)
        BY <1>2, <2>2, <2>3, <2>5, <2>8, ScheduleRows
      <3>2. handleScheduleReleased(e) = <<SaveProvider(p)>>
        BY <1>2, <2>4 DEF handleScheduleReleased
      <3>3. Coming(handleScheduleReleased(e), sub, p)
        BY <3>2, ComingProvider
      <3>4. QED
        BY <2>1, <2>3, <2>5, <2>8, <3>1, <3>3 DEF Handles
    <2>9. QED
      BY <2>7, <2>8
  <1>3. QED
    BY <1>1, <1>2

LEMMA NewestIsNat == Newest \in Nat
  <1>1. IsFiniteSet({x \in StripeIds : stripe[x].status # "none"})
    BY SubscriptionsAssumption, FS_Subset
  <1>2. QED
    BY <1>1, FS_CardinalityType DEF Newest

LEMMA WebhookOnCourse ==
    ASSUME NEW one, Course(one), NEW i \in DOMAIN events, Webhook(one, i)
    PROVE  OnCourse(one)'
  <1>1. PICK e, rest : e = events[1] /\ rest = events'
    OBVIOUS
  <1>2. /\ Orderly(one) /\ i = 1 /\ UNCHANGED <<stripe, leaving>>
        /\ Start(one, "Webhook", e, HandleWebhook(e)) /\ actor[one] = Idle
    BY <1>1 DEF Course, Orderly, Webhook, Start
  <1>3. rest = RemoveAt(events, 1) /\ UNCHANGED used
    <2>1. used.repeats \in Nat /\ MaxRepeats = 0
      BY DEF Course, Orderly, IInv, Rows, Counts
    <2>2. ~Use("repeats", MaxRepeats)
      BY <2>1 DEF Use
    <2>3. QED
      BY <1>1, <1>2, <2>2 DEF Webhook
  <1>4. EventsFit /\ i \in 1..Len(events)
    BY DEF Course, IInv, EventsFit
  <1>5. 1 \in 1..Len(events) /\ e \in Events /\ e.type # "none"
    BY <1>1, <1>2, <1>4, ElementOfSeq DEF EventsFit
  <1>6. Pops(events, rest)
    <2>1. PICK j : j = 1
      OBVIOUS
    <2>2. j \in 1..Len(events) /\ rest = RemoveAt(events, j)
      BY <1>3, <1>5, <2>1
    <2>3. /\ Len(events) \in Nat /\ Len(rest) = Len(events) - 1
          /\ \A k \in 1..(Len(events) - 1) : rest[k] = IF k < j THEN events[k] ELSE events[k + 1]
      BY <1>4, <2>2, Removal
    <2>4. \A k \in 1..Len(rest) : rest[k] = events[k + 1]
      BY <2>1, <2>3
    <2>5. Len(rest) \in Nat /\ Len(events) = Len(rest) + 1
      BY <1>5, <2>3
    <2>6. QED
      BY <2>4, <2>5 DEF Pops
  <1>7. Told(e, rest)
    <2>1. /\ sub \in Sub /\ psub \in Provider /\ stripe \in [StripeIds -> StripeSub]
          /\ used.requests \in Nat /\ Follows(sub, psub)
          /\ StripeSound(stripe, events, Newest, used.requests)
      BY <1>2, CourseFacts
    <2>2. QED
      BY <1>1, <1>5, <1>6, <2>1, NewestIsNat DEF Told, First
  <1>8. Handles(HandleWebhook(e), rest)
    <2>1. CASE e.type = "checkout"
      BY <1>7, <2>1, CheckoutHandled DEF HandleWebhook
    <2>2. CASE e.type = "updated"
      BY <1>7, <2>2, UpdateHandled DEF HandleWebhook
    <2>3. CASE e.type = "deleted"
      BY <1>7, <2>3, DeletionHandled DEF HandleWebhook
    <2>4. CASE e.type = "paid"
      <3>1. e.type \in Invoices /\ FALSE = (e.type = "failed")
        BY <2>4 DEF Invoices
      <3>2. Handles(handleInvoice(e, FALSE), rest)
        BY <1>7, <3>1, InvoiceHandled
      <3>3. QED
        BY <2>4, <3>2 DEF HandleWebhook
    <2>5. CASE e.type = "failed"
      <3>1. e.type \in Invoices /\ TRUE = (e.type = "failed")
        BY <2>5 DEF Invoices
      <3>2. Handles(handleInvoice(e, TRUE), rest)
        BY <1>7, <3>1, InvoiceHandled
      <3>3. QED
        BY <2>5, <3>2 DEF HandleWebhook
    <2>6. CASE e.type \in Scheduling
      <3>1. CASE e.type = "completed"
        BY <1>7, <2>6, <3>1, ScheduleHandled DEF HandleWebhook
      <3>2. CASE e.type = "released"
        BY <1>7, <2>6, <3>2, ScheduleHandled DEF HandleWebhook
      <3>3. QED
        BY <2>6, <3>1, <3>2 DEF Scheduling
    <2>7. QED
      BY <1>5, <2>1, <2>2, <2>3, <2>4, <2>5, <2>6 DEF Events, Types, Scheduling
  <1>9. PICK s \in Sub, p \in Provider :
           /\ Coming(HandleWebhook(e), s, p)
           /\ RowsSound(s, p, stripe, rest, Newest, used.requests, Due, now)
    BY <1>8 DEF Handles
  <1>10. StripeSound(stripe, rest, Newest, used.requests)
    BY <1>7, StripePopped DEF Told, First
  <1>11. Newest' = Newest /\ Due' = Due
    BY <1>2 DEF Newest, Due
  <1>12. /\ StripeSound(stripe', events', Newest', used'.requests)
         /\ RowsSound(s, p, stripe', events', Newest', used'.requests, Due', now)
    BY <1>1, <1>2, <1>3, <1>9, <1>10, <1>11
  <1>13. QED
    BY <1>2, <1>9, <1>12, Began

-----------------------------------------------------------------------------
(* A statement is done, or the goroutine returns.                           *)

\* The first of the statements ws is done, and rest is left.
LEMMA ComingDone ==
    ASSUME NEW ws, NEW s \in Sub, NEW p, Coming(ws, s, p), sub \in Sub \cup {NoSub},
           NEW w, w = ws[1], NEW rest, Pops(ws, rest),
           \/ w.to = "sub" /\ sub' = w.row /\ psub' = psub
           \/ /\ w.to = "some" /\ psub' = psub
              /\ sub' = [sub EXCEPT !.plan = w.row.plan, !.expires = w.row.expires,
                                    !.active = w.row.active, !.pending = w.row.pending]
           \/ w.to \in ProviderWrites /\ psub' = w.row /\ sub' = sub
           \/ w.to = "session" /\ UNCHANGED <<sub, psub>>
    PROVE  Coming(rest, s, p)'
  <1>1. 1 \in 1..Len(ws) /\ \A k \in 1..Len(rest) : k + 1 \in 1..Len(ws) /\ rest[k] = ws[k + 1]
    BY DEF Pops
  <1>2. /\ w.to \in RowWrites => w.row = s
        /\ w.to = "some" => s.canceled = sub.canceled /\ s.trialEnds = sub.trialEnds
        /\ w.to \in ProviderWrites => w.row = p
    BY <1>1 DEF Coming
  <1>3. /\ w.to \in RowWrites => sub' = s /\ psub' = psub
        /\ w.to \in ProviderWrites => psub' = p /\ sub' = sub
        /\ w.to \notin RowWrites \cup ProviderWrites => sub' = sub /\ psub' = psub
    <2>1. CASE w.to = "sub"
      BY <1>2, <2>1 DEF RowWrites, ProviderWrites
    <2>2. CASE w.to = "some"
      <3>1. /\ sub' = [sub EXCEPT !.plan = s.plan, !.expires = s.expires,
                                  !.active = s.active, !.pending = s.pending]
            /\ s.canceled = sub.canceled /\ s.trialEnds = sub.trialEnds /\ psub' = psub
        BY <1>2, <2>2 DEF RowWrites, ProviderWrites
      <3>2. sub' = s
        BY <3>1 DEF Sub, NoSub
      <3>3. QED
        BY <2>2, <3>1, <3>2 DEF RowWrites, ProviderWrites
    <2>3. CASE w.to \in ProviderWrites
      BY <1>2, <2>3 DEF RowWrites, ProviderWrites
    <2>4. CASE w.to = "session"
      BY <2>4 DEF RowWrites, ProviderWrites
    <2>5. QED
      BY <2>1, <2>2, <2>3, <2>4
  <1>4. ASSUME NEW k \in 1..Len(rest), NEW v, v = rest[k]
        PROVE  /\ v.to # "new"
               /\ v.to \in RowWrites => v.row = s
               /\ v.to = "some" => s.canceled = sub'.canceled /\ s.trialEnds = sub'.trialEnds
               /\ v.to \in ProviderWrites => v.row = p
               /\ v.to # "new_psub"
    <2>1. k + 1 \in 1..Len(ws) /\ v = ws[k + 1] /\ k + 1 # 1
      BY <1>1, <1>4
    <2>2. /\ v.to # "new"
          /\ v.to \in RowWrites => v.row = s
          /\ v.to = "some" => s.canceled = sub.canceled /\ s.trialEnds = sub.trialEnds
          /\ v.to \in ProviderWrites => v.row = p
          /\ v.to # "new_psub"
      BY <2>1 DEF Coming
    <2>3. QED
      BY <1>3, <2>2
  <1>5. ASSUME \A k \in 1..Len(rest) : rest[k].to \notin RowWrites PROVE sub' = s
    <2>1. CASE w.to \in RowWrites
      BY <1>3, <2>1
    <2>2. CASE w.to \notin RowWrites
      <3>1. ASSUME NEW k \in 1..Len(ws) PROVE ws[k].to \notin RowWrites
        <4>1. CASE k = 1
          BY <2>2, <4>1
        <4>2. CASE k # 1
          <5>1. PICK j : j = k - 1
            OBVIOUS
          <5>2. j \in 1..Len(rest) /\ rest[j] = ws[k]
            BY <4>2, <5>1 DEF Pops
          <5>3. QED
            BY <1>5, <5>2
        <4>3. QED
          BY <4>1, <4>2
      <3>2. s = sub
        BY <3>1 DEF Coming
      <3>3. sub' = sub
        BY <1>3, <2>2
      <3>4. QED
        BY <3>2, <3>3
    <2>3. QED
      BY <2>1, <2>2
  <1>6. ASSUME \A k \in 1..Len(rest) : rest[k].to \notin ProviderWrites PROVE psub' = p
    <2>1. CASE w.to \in ProviderWrites
      BY <1>3, <2>1
    <2>2. CASE w.to \notin ProviderWrites
      <3>1. ASSUME NEW k \in 1..Len(ws) PROVE ws[k].to \notin ProviderWrites
        <4>1. CASE k = 1
          BY <2>2, <4>1
        <4>2. CASE k # 1
          <5>1. PICK j : j = k - 1
            OBVIOUS
          <5>2. j \in 1..Len(rest) /\ rest[j] = ws[k]
            BY <4>2, <5>1 DEF Pops
          <5>3. QED
            BY <1>6, <5>2
        <4>3. QED
          BY <4>1, <4>2
      <3>2. p = psub
        BY <3>1 DEF Coming
      <3>3. psub' = psub
        BY <1>3, <2>2
      <3>4. QED
        BY <3>2, <3>3
    <2>3. QED
      BY <2>1, <2>2
  <1>7. QED
    BY <1>4, <1>5, <1>6 DEF Coming

LEMMA WriteOnCourse ==
    ASSUME NEW one, Course(one), Write(one)
    PROVE  OnCourse(one)'
  <1>1. PICK s \in Sub, p \in Provider : Coming(actor[one].writes, s, p) /\ Follows(s, p)
    BY DEF Course, OnCourse
  <1>2. PICK ws, w, rest : ws = actor[one].writes /\ w = Head(ws) /\ rest = Tail(ws)
    OBVIOUS
  <1>3. ws # << >> /\ UNCHANGED <<stripe, events, now, used, leaving>> /\ Left(one)
    BY <1>2 DEF Write
  <1>4. one \in Actors /\ Planned(ws) /\ sub \in Sub \cup {NoSub}
    <2>1. one \in Actors /\ ActorsFit
      BY DEF Course, Orderly, IInv
    <2>2. QED
      BY <1>2, <2>1 DEF ActorsFit, Fits, Course, IInv, Rows
  <1>5. /\ w = ws[1] /\ w \in Statement /\ Pops(ws, rest)
    <2>1. /\ w = ws[1] /\ w \in Statement /\ Len(ws) \in Nat /\ Len(ws) > 0
          /\ Len(rest) = Len(ws) - 1 /\ \A k \in 1..Len(rest) : rest[k] = ws[k + 1]
      BY <1>2, <1>3, <1>4, NextStatement
    <2>2. QED
      BY <2>1 DEF Pops
  <1>6. w.to # "new"
    <2>1. 1 \in 1..Len(ws)
      BY <1>5 DEF Pops
    <2>2. QED
      BY <1>1, <1>2, <1>5, <2>1 DEF Coming
  <1>7. \/ w.to = "sub" /\ sub' = w.row /\ psub' = psub
        \/ /\ w.to = "some" /\ psub' = psub
           /\ sub' = [sub EXCEPT !.plan = w.row.plan, !.expires = w.row.expires,
                                 !.active = w.row.active, !.pending = w.row.pending]
        \/ w.to \in ProviderWrites /\ psub' = w.row /\ sub' = sub
        \/ w.to = "session" /\ UNCHANGED <<sub, psub>>
    BY <1>2, <1>6 DEF Write, ProviderWrites
  <1>8. Coming(rest, s, p)'
    BY <1>1, <1>2, <1>4, <1>5, <1>7, ComingDone
  <1>9. actor'[one].writes = rest
    <2>1. actor \in [Actors -> Goroutine] /\ actor' = [actor EXCEPT ![one].writes = Tail(@)]
      BY <1>3 DEF Left, Course, IInv, ActorsFit
    <2>2. QED
      BY <1>2, <1>4, <2>1 DEF Goroutine
  <1>10. Newest' = Newest /\ Due' = Due
    BY <1>3 DEF Newest, Due
  <1>11. Follows(s, p)' /\ StripeSound(stripe', events', Newest', used'.requests)
    BY <1>1, <1>3, <1>10 DEF Follows, Course, OnCourse
  <1>12. Coming(actor[one].writes, s, p)'
    BY <1>8, <1>9 DEF Coming
  <1>13. QED
    BY <1>11, <1>12 DEF OnCourse

LEMMA ReturnOnCourse ==
    ASSUME NEW one, Course(one), Return(one)
    PROVE  OnCourse(one)'
  <1>1. PICK s \in Sub, p \in Provider : Coming(actor[one].writes, s, p) /\ Follows(s, p)
    BY DEF Course, OnCourse
  <1>2. PICK ws, w : ws = actor[one].writes /\ w = Head(ws)
    OBVIOUS
  <1>3. ~Use("errors", MaxErrors)
    <2>1. used.errors \in Nat /\ MaxErrors = 0
      BY DEF Course, Orderly, IInv, Rows, Counts
    <2>2. QED
      BY <2>1 DEF Use
  <1>4. one \in Actors /\ actor \in [Actors -> Goroutine] /\ Planned(ws)
    <2>1. one \in Actors /\ ActorsFit
      BY DEF Course, Orderly, IInv
    <2>2. QED
      BY <1>2, <2>1 DEF ActorsFit, Fits
  <1>5. ws # << >> => ~Duplicate(w)
    <2>1. ASSUME ws # << >> PROVE ~Duplicate(w)
      <3>1. w = ws[1] /\ Len(ws) \in Nat /\ Len(ws) > 0
        BY <1>2, <1>4, <2>1, NextStatement
      <3>2. 1 \in 1..Len(ws)
        BY <3>1
      <3>3. w.to # "new" /\ (w.to = "new_psub" => psub = NoProvider)
        BY <1>1, <1>2, <3>1, <3>2 DEF Coming
      <3>4. QED
        BY <3>3 DEF Duplicate
    <2>2. QED
      BY <2>1
  <1>6. /\ ws = << >> /\ UNCHANGED <<sub, psub, stripe, events, now, used, leaving>>
        /\ actor' = [actor EXCEPT ![one] = Idle]
    BY <1>2, <1>3, <1>5 DEF Return, external
  <1>7. s = sub /\ p = psub
    BY <1>1, <1>2, <1>6 DEF Coming
  <1>8. actor'[one].writes = << >>
    BY <1>4, <1>6 DEF Idle
  <1>9. Coming(actor[one].writes, s, p)'
    BY <1>6, <1>7, <1>8 DEF Coming
  <1>10. Newest' = Newest /\ Due' = Due
    BY <1>6 DEF Newest, Due
  <1>11. Follows(s, p)' /\ StripeSound(stripe', events', Newest', used'.requests)
    BY <1>1, <1>6, <1>10 DEF Follows, Course, OnCourse
  <1>12. QED
    BY <1>9, <1>11 DEF OnCourse

LEMMA OnCourseStep ==
    ASSUME NEW one, Course(one), [Next]_vars
    PROVE  OnCourse(one)'
  <1>1. ASSUME NEW a \in Actors PROVE a = one
    BY <1>1 DEF Course, Orderly
  <1>2. ASSUME \/ GetStatus(one) \/ ScheduleDowngrade(one) \/ CancelScheduledChange(one)
               \/ \E p \in Plans : Upgrade(one, p) \/ CreateCheckout(one, p) \/ ChangePlan(one, p)
        PROVE  OnCourse(one)'
    BY <1>2, StatusOnCourse, DowngradeOnCourse, CancelOnCourse, UpgradeOnCourse,
       SessionOnCourse, ChangePlanOnCourse
  <1>3. ASSUME \/ ProcessRenewals(one) \/ ProcessExpiredDowngrades(one)
               \/ \E i \in DOMAIN events : Webhook(one, i)
               \/ Write(one) \/ Return(one)
        PROVE  OnCourse(one)'
    BY <1>3, RenewalsOnCourse, ExpiredDowngradesOnCourse, WebhookOnCourse,
       WriteOnCourse, ReturnOnCourse
  <1>4. ~Crash
    <2>1. used.crashes \in Nat /\ MaxCrashes = 0
      BY DEF Course, Orderly, IInv, Rows, Counts
    <2>2. QED
      BY <2>1 DEF Crash, Use
  <1>5. ASSUME \/ \E p \in Plans : Pay(p)
               \/ \E x \in StripeIds : PeriodEnds(x) \/ Portal(x) \/ Payment(x)
               \/ Tick
        PROVE  OnCourse(one)'
    BY <1>5, PayOnCourse, PeriodEndsOnCourse, PortalOnCourse, PaymentOnCourse, TickOnCourse
  <1>6. CASE UNCHANGED vars
    <2>1. /\ UNCHANGED <<sub, psub, actor, stripe, events, now, used, leaving>>
          /\ Newest' = Newest
      BY <1>6 DEF vars, Newest
    <2>2. PICK s \in Sub, p \in Provider : Coming(actor[one].writes, s, p) /\ Follows(s, p)
      BY DEF Course, OnCourse
    <2>3. Coming(actor[one].writes, s, p)' /\ Follows(s, p)'
      BY <2>1, <2>2 DEF Coming, Follows, Due
    <2>4. StripeSound(stripe', events', Newest', used'.requests)
      BY <2>1 DEF Course, OnCourse
    <2>5. QED
      BY <2>3, <2>4 DEF OnCourse
  <1>7. QED
    BY <1>1, <1>2, <1>3, <1>4, <1>5, <1>6 DEF Next

LEMMA InitOnCourse == ASSUME NEW one, Orderly(one), Init PROVE OnCourse(one)
  <1>1. PICK st, n, m, q, t :
           st = stripe /\ n = Newest /\ m = used.requests /\ q = Due /\ t = now
    OBVIOUS
  <1>2. /\ st = [x \in StripeIds |-> NoStripeSub] /\ events = << >> /\ psub = NoProvider
        /\ sub = CreateTrialSubscription /\ actor[one].writes = << >> /\ m = 0
    BY <1>1 DEF Init, Orderly, Idle
  <1>3. \A x \in StripeIds : /\ st[x] = NoStripeSub /\ st[x].status = "none"
                             /\ st[x].schedule = Null /\ ~Pays(st[x])
    BY <1>2 DEF NoStripeSub, Pays
  <1>4. n = 0
    <2>1. {x \in StripeIds : stripe[x].status # "none"} = {}
      BY <1>1, <1>3
    <2>2. QED
      BY <1>1, <2>1, FS_EmptySet DEF Newest
  <1>5. StripeSound(st, << >>, n, m)
    <2>1. \A x \in StripeIds : ~(x <= n)
      BY <1>4, StripeIdsAreNat DEF Null
    <2>2. InTurn(<< >>, st) /\ SchedulesOver(<< >>, st, m)
      BY DEF InTurn, SchedulesOver
    <2>3. QED
      BY <1>3, <2>1, <2>2 DEF StripeSound, OwnSchedules
  <1>6. sub \in Sub /\ psub \in Provider
    <2>1. 1 + TrialDays \in Nat
      BY SubscriptionsAssumption
    <2>2. sub = [plan |-> "trial", trialEnds |-> 1 + TrialDays, expires |-> Null,
                 canceled |-> FALSE, active |-> TRUE, pending |-> NoPlan]
      BY <1>2 DEF CreateTrialSubscription, NewSub, NoSub
    <2>3. QED
      BY <1>2, <2>1, <2>2 DEF Sub, Plans, Null, NoProvider, Provider
  <1>7. psub.link = Null /\ psub.schedule = Null /\ ~sub.canceled
    BY <1>2 DEF NoProvider, CreateTrialSubscription, NewSub, NoSub
  <1>8. /\ ~(n \in StripeIds) /\ psub.schedule <= m
        /\ \A x \in StripeIds : st[x].status # "past_due"
    BY <1>2, <1>3, <1>4, <1>7, StripeIdsAreNat DEF Null
  <1>9. RowsSound(sub, psub, st, << >>, n, m, q, t)
    BY <1>3, <1>7, <1>8 DEF RowsSound, LinkFits, NewestLinked, FirstFresh, Mirrored,
       FailureComes, PlanSynced, InForce, ChangeComes, Null
  <1>10. Coming(actor[one].writes, sub, psub)
    BY <1>2 DEF Coming
  <1>11. QED
    BY <1>1, <1>2, <1>5, <1>6, <1>9, <1>10 DEF OnCourse, Follows

LEMMA AlwaysOnCourse ==
    ASSUME NEW one, Orderly(one)
    PROVE  Spec => [](IInv /\ OnCourse(one))
  <1>1. Init => IInv /\ OnCourse(one)
    BY InitIInv, InitOnCourse
  <1>2. IInv /\ OnCourse(one) /\ [Next]_vars => (IInv /\ OnCourse(one))'
    BY NextStep, OnCourseStep DEF Course
  <1>3. QED
    BY <1>1, <1>2, PTL DEF Spec

-----------------------------------------------------------------------------
(* When everything is handled.                                              *)

LEMMA AllHandled ==
    ASSUME NEW one, Orderly(one), IInv, OnCourse(one), Quiet
    PROVE  /\ RowsSound(sub, psub, stripe, << >>, Newest, used.requests, Due, now)
           /\ \A T, x : ~Pending(<< >>, T, x)
           /\ sub \in Sub /\ psub \in Provider /\ now \in Nat \ {0}
           /\ StripeSound(stripe, << >>, Newest, used.requests)
           /\ stripe \in [StripeIds -> StripeSub]
  <1>1. actor[one] = Idle /\ events = << >>
    BY DEF Quiet, Orderly
  <1>2. Course(one)
    BY DEF Course
  <1>3. QED
    BY <1>1, <1>2, CourseFacts DEF Follows, Pending

\* Where one goroutine at a time runs, Stripe delivers events in order and nothing
\* fails, whatever requests, payments and cancellations there are in whatever order:
\* once the events are handled, a linked subscription whose last payment failed is
\* flagged as such.
THEOREM SubscriptionsFailureShown ==
    ASSUME NEW one, Orderly(one)
    PROVE  Spec => []FailureShown
  <1>1. ASSUME IInv, OnCourse(one), Quiet, psub.link # Null, psub.link = Newest,
               stripe[Newest].status = "past_due"
        PROVE  psub.failed
    <2>1. RowsSound(sub, psub, stripe, << >>, Newest, used.requests, Due, now)
          /\ ~Pending(<< >>, Invoices, Newest) /\ psub \in Provider
      BY <1>1, AllHandled
    <2>2. Newest \in StripeIds
      BY <1>1, <2>1 DEF Provider
    <2>3. QED
      BY <1>1, <2>1, <2>2 DEF RowsSound, FailureComes
  <1>2. IInv /\ OnCourse(one) => FailureShown
    BY <1>1 DEF FailureShown
  <1>3. QED
    BY <1>2, AlwaysOnCourse, PTL

\* In the same circumstances the rows know, once the events are handled, what Stripe
\* will do when the period of the user's first Stripe subscription is over: end it,
\* or change its plan.
THEOREM SubscriptionsMirrorsStripe ==
    ASSUME NEW one, Orderly(one)
    PROVE  Spec => []MirrorsStripe
  <1>1. ASSUME IInv, OnCourse(one), Quiet, psub.link = 1, Running(1)
        PROVE  sub.canceled = stripe[1].atEnd /\ psub.schedule = stripe[1].schedule
    <2>1. PICK id : id = psub.schedule
      OBVIOUS
    <2>2. /\ RowsSound(sub, psub, stripe, << >>, Newest, used.requests, Due, now)
          /\ ~Pending(<< >>, {"updated"}, 1) /\ ~Pending(<< >>, Scheduling, id)
      BY <1>1, AllHandled
    <2>3. Pays(stripe[1])
      BY <1>1 DEF Pays, Running
    <2>4. QED
      BY <1>1, <2>1, <2>2, <2>3 DEF RowsSound, Mirrored
  <1>2. IInv /\ OnCourse(one) => MirrorsStripe
    BY <1>1 DEF MirrorsStripe
  <1>3. QED
    BY <1>2, AlwaysOnCourse, PTL

\* In the same circumstances, once the events are handled, whoever has a running
\* Stripe subscription has its plan, and has it until the end of the period that is
\* paid, unless they asked for a downgrade to the free plan: no job, no late handler
\* and no pending change takes it away before.
THEOREM SubscriptionsPaidIsPremium ==
    ASSUME NEW one, Orderly(one)
    PROVE  Spec => []PaidIsPremium
  <1>1. ASSUME IInv, OnCourse(one), Quiet, Running(Newest), now < stripe[Newest].end, ~leaving
        PROVE  GetEffectivePlanType(sub) = "premium" /\ sub.plan = stripe[Newest].plan
    <2>1. PICK n, es, m, t, st :
             n = Newest /\ es = << >> /\ m = used.requests /\ t = now /\ st = stripe
      OBVIOUS
    <2>2. /\ RowsSound(sub, psub, st, es, n, m, n, t) /\ StripeSound(st, es, n, m)
          /\ sub \in Sub /\ psub \in Provider /\ t \in Nat \ {0}
          /\ st \in [StripeIds -> StripeSub]
          /\ ~Pending(es, {"checkout"}, n) /\ ~Pending(es, {"updated"}, n)
      BY <1>1, <2>1, AllHandled DEF Due
    <2>3. n \in StripeIds /\ Pays(st[n])
      <3>1. n \in Nat /\ n # 0
        BY <1>1, <2>1, NewestIsNat DEF Running, Null
      <3>2. n <= Cardinality(StripeIds)
        <4>1. {x \in StripeIds : stripe[x].status # "none"} \subseteq StripeIds
          OBVIOUS
        <4>2. IsFiniteSet(StripeIds)
          BY SubscriptionsAssumption
        <4>3. Newest <= Cardinality(StripeIds)
          BY <4>1, <4>2, FS_Subset DEF Newest
        <4>4. QED
          BY <2>1, <4>3
      <3>3. StripeIds = 1..Cardinality(StripeIds) /\ Cardinality(StripeIds) \in Nat
        BY SubscriptionsAssumption, FS_CardinalityType
      <3>4. n \in StripeIds
        BY <3>1, <3>2, <3>3
      <3>5. QED
        BY <1>1, <2>1, <3>4 DEF Running, Pays
    <2>4. psub.link = n
      BY <2>2, <2>3 DEF RowsSound, NewestLinked
    <2>5. InForce(psub, st, es, n, t)
      BY <1>1, <2>1, <2>2, <2>3, <2>4 DEF InForce
    <2>6. sub.plan \in PremiumPlans /\ t < sub.expires /\ sub.plan = st[n].plan
      <3>1. sub.plan \in PremiumPlans /\ t < sub.expires
        BY <2>2, <2>5, PremiumInForce
      <3>2. sub.plan = st[n].plan
        BY <2>2, <2>5 DEF RowsSound, PlanSynced
      <3>3. QED
        BY <3>1, <3>2
    <2>7. ~Expired(sub.expires) /\ sub.plan # "trial"
      BY <2>1, <2>2, <2>6 DEF Expired, Sub, PremiumPlans
    <2>8. QED
      BY <2>1, <2>6, <2>7 DEF GetEffectivePlanType, PlanType
  <1>2. IInv /\ OnCourse(one) => PaidIsPremium
    BY <1>1 DEF PaidIsPremium
  <1>3. QED
    BY <1>2, AlwaysOnCourse, PTL

=============================================================================
