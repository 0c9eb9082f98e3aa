---------------------------- MODULE InsightsProofs ----------------------------
(***************************************************************************)
(* Proofs about module Insights, for any users, tables, days, requests,     *)
(* rows and plans: the types, that a report is converted with one table,    *)
(* that ranges fit together, that the reports on expenses tell one total,   *)
(* and that what is deleted stays away.                                     *)
(***************************************************************************)
EXTENDS Insights, FiniteSums, SequenceTheorems

-----------------------------------------------------------------------------
(* The types, strong enough to be inductive.                                *)

CatsTyped == cats \in Seq(CategoryRow) /\ edits \in 0..MaxEdits

Job == [next : RateDays, last : RateDays, got : Tables \cup {NoTable}]

\* An importer that is at work has days left.
RatesTyped ==
    /\ rates \in [RateDays -> Tables \cup {NoTable}]
    /\ import \in [Importers -> {NoImport} \cup Job]
    /\ \A i \in Importers : import[i] # NoImport => import[i].next <= import[i].last

ReportFields == {"kind", "first", "last", "filter", "cats", "rows", "read", "todo",
                 "value", "cache", "failed"}

IsReport(r) == r = [kind |-> r.kind, first |-> r.first, last |-> r.last, filter |-> r.filter,
                    cats |-> r.cats, rows |-> r.rows, read |-> r.read, todo |-> r.todo,
                    value |-> r.value, cache |-> r.cache, failed |-> r.failed]

ReportTyped(r) ==
    /\ IsReport(r)
    /\ r.kind \in Kinds
    /\ r.rows \in Seq(Row)
    /\ r.read \in BOOLEAN
    /\ r.todo \subseteq DOMAIN r.rows
    /\ DOMAIN r.value \subseteq DOMAIN r.rows

ReportsTyped ==
    /\ rows \in Seq(Row)
    /\ report = NoReport \/ ReportTyped(report)

\* The table a report keeps was that of its day at some moment, and is the one all its
\* amounts come from; while it has none, they were in the user's own currency.
OneTable(r) ==
    /\ getAllRatesWithFallback(r.first) \in answers
    /\ r.cache \in answers \cup {NoTable}
    /\ ~r.read => r.todo = {} /\ r.cache = NoTable /\ DOMAIN r.value = {}
    /\ r.kind # "export" =>
          /\ \A i \in DOMAIN r.value : r.value[i] = ConvertedWith(r.cache, r.rows, i)
          /\ r.cache = NoTable /\ r.todo # {} =>
                \A i \in DOMAIN r.value : r.rows[i].currency = Base

Converting == report = NoReport \/ OneTable(report)

PlanRow == [user : Planners, currency : Currencies, active : BOOLEAN, deleted : BOOLEAN,
            plan : PlanInputs]

PlansTyped ==
    /\ planned \in Seq(PlanRow)
    /\ base \in [Planners -> Currencies]
    /\ today \in FirstToday..(FirstToday + MaxDays)
    /\ update = NoUpdate \/ update \in [id : DOMAIN planned, row : PlanRow]
    /\ planEdits \in 0..MaxPlanEdits

IInv == CatsTyped /\ RatesTyped /\ ReportsTyped /\ Converting /\ PlansTyped

-----------------------------------------------------------------------------
(* Categories.                                                              *)

\* The orders of a finite set are sequences of its members.
LEMMA OrdersOfAFiniteSet ==
    ASSUME NEW S, IsFiniteSet(S), NEW order \in SetToSeqs(S)
    PROVE  order \in Seq(S)
  <1>1. Cardinality(S) \in Nat
    BY FS_CardinalityType
  <1>2. order \in [1..Cardinality(S) -> S]
    BY DEF SetToSeqs
  <1>3. QED
    BY <1>1, <1>2, SeqDef

LEMMA FiniteDomain ==
    ASSUME NEW T, NEW s \in Seq(T)
    PROVE  IsFiniteSet(DOMAIN s)
  BY FS_Interval, LenProperties

\* A statement appends well-formed rows.
LEMMA AppendedRows ==
    ASSUME NEW C \in Seq(CategoryRow), NEW n \in Nat, NEW f,
           f \in [1..n -> CategoryRow]
    PROVE  C \o f \in Seq(CategoryRow)
  <1>1. f \in Seq(CategoryRow)
    BY SeqDef
  <1>2. QED
    BY <1>1, ConcatProperties

LEMMA CopiedRow ==
    ASSUME NEW u \in CatUsers, NEW k \in DOMAIN Defaults, NEW parent \in Nat
    PROVE  Copy(u, k, parent) \in CategoryRow
  <1>1. Defaults[k] \in [name : Nat, parent : Nat, isIncome : BOOLEAN]
    BY CategoriesAssumption, ElementOfSeq, LenProperties
  <1>2. QED
    BY <1>1 DEF Copy, CategoryRow

LEMMA CopiedRoots ==
    ASSUME NEW C \in Seq(CategoryRow), NEW u \in CatUsers, NEW D \in CopyRoots(C, u)
    PROVE  D \in Seq(CategoryRow)
  <1>1. IsFiniteSet(DefaultRoots)
    <2>1. IsFiniteSet(DOMAIN Defaults)
      BY CategoriesAssumption, FiniteDomain
    <2>2. DefaultRoots \subseteq DOMAIN Defaults
      BY DEF DefaultRoots
    <2>3. QED
      BY <2>1, <2>2, FS_Subset
  <1>2. PICK order \in SetToSeqs(DefaultRoots) :
            D = C \o [j \in DOMAIN order |-> Copy(u, order[j], NoCategory)]
    BY DEF CopyRoots
  <1>3. order \in Seq(DefaultRoots)
    BY <1>1, <1>2, OrdersOfAFiniteSet
  <1>4. DOMAIN order = 1..Len(order) /\ Len(order) \in Nat
    BY <1>3, LenProperties
  <1>5. ASSUME NEW j \in DOMAIN order PROVE Copy(u, order[j], NoCategory) \in CategoryRow
    <2>1. order[j] \in DefaultRoots
      BY <1>3, <1>4, ElementOfSeq
    <2>2. QED
      BY <2>1, CopiedRow DEF DefaultRoots, NoCategory
  <1>6. [j \in DOMAIN order |-> Copy(u, order[j], NoCategory)] \in [1..Len(order) -> CategoryRow]
    BY <1>4, <1>5
  <1>7. QED
    BY <1>2, <1>4, <1>6, AppendedRows

LEMMA CopiedChildren ==
    ASSUME NEW C \in Seq(CategoryRow), NEW u \in CatUsers, NEW D \in CopyChildren(C, u)
    PROVE  D \in Seq(CategoryRow)
  <1> DEFINE pairs == ChildCopies(C, u)
  <1>1. IsFiniteSet(pairs)
    <2>1. IsFiniteSet(DOMAIN Defaults) /\ IsFiniteSet(DOMAIN C)
      BY CategoriesAssumption, FiniteDomain
    <2>2. IsFiniteSet((DOMAIN Defaults) \X (DOMAIN C))
      BY <2>1, FS_Product
    <2>3. pairs \subseteq (DOMAIN Defaults) \X (DOMAIN C)
      BY DEF ChildCopies
    <2>4. QED
      BY <2>2, <2>3, FS_Subset
  <1>2. PICK order \in SetToSeqs(pairs) :
            D = C \o [j \in DOMAIN order |-> Copy(u, order[j][1], order[j][2])]
    BY DEF CopyChildren
  <1>3. order \in Seq(pairs)
    BY <1>1, <1>2, OrdersOfAFiniteSet
  <1>4. DOMAIN order = 1..Len(order) /\ Len(order) \in Nat
    BY <1>3, LenProperties
  <1>5. ASSUME NEW j \in DOMAIN order PROVE Copy(u, order[j][1], order[j][2]) \in CategoryRow
    <2>1. order[j] \in pairs
      BY <1>3, <1>4, ElementOfSeq
    <2>2. order[j] \in (DOMAIN Defaults) \X (DOMAIN C)
      BY <2>1 DEF ChildCopies
    <2>3. order[j][1] \in DOMAIN Defaults /\ order[j][2] \in DOMAIN C
      BY <2>2
    <2>4. order[j][2] \in Nat
      BY <2>3, LenProperties
    <2>5. QED
      BY <2>3, <2>4, CopiedRow
  <1>6. [j \in DOMAIN order |-> Copy(u, order[j][1], order[j][2])] \in [1..Len(order) -> CategoryRow]
    BY <1>4, <1>5
  <1>7. QED
    BY <1>2, <1>4, <1>6, AppendedRows

\* Whatever registration and requests do, the columns keep their types.
LEMMA CategoriesKeepTypes ==
    ASSUME CatsTyped, CategoriesNext
    PROVE  CatsTyped'
  <1>1. PICK u \in CatUsers : SetUpCategories(u) \/ CategoryRequest(u)
    BY DEF CategoriesNext
  <1>2. CASE SetUpCategories(u)
    <2>1. cats' \in CopyDefaultCategories(cats, u) /\ UNCHANGED edits
      BY <1>2 DEF SetUpCategories
    <2>2. CASE cats' \in CopyRoots(cats, u)
      BY <2>1, <2>2, CopiedRoots DEF CatsTyped
    <2>3. CASE \E D \in CopyRoots(cats, u) : cats' \in CopyChildren(D, u)
      BY <2>1, <2>3, CopiedRoots, CopiedChildren DEF CatsTyped
    <2>4. QED
      BY <2>1, <2>2, <2>3 DEF CopyDefaultCategories
  <1>3. ASSUME CategoryRequest(u) PROVE CatsTyped'
    <2>1. edits' \in 0..MaxEdits
      <3>1. Edit
        BY <1>3 DEF CategoryRequest, CreateCategory, UpdateCategory, DeleteCategory
      <3>2. QED
        BY <3>1, CategoriesAssumption DEF CatsTyped, Edit
    <2>2. ASSUME NEW id \in DOMAIN cats
          PROVE  cats[id] \in CategoryRow
      BY ElementOfSeq, LenProperties DEF CatsTyped
    <2>3. ASSUME NEW name \in Names, NEW parent \in {NoCategory} \cup DOMAIN cats,
                 NEW income \in BOOLEAN
          PROVE  /\ name \in Nat /\ parent \in Nat
                 /\ CreateCategory(u, name, parent, income) => cats' \in Seq(CategoryRow)
                 /\ \A id \in DOMAIN cats :
                       UpdateCategory(u, id, name, parent, income) => cats' \in Seq(CategoryRow)
      <3>1. name \in Nat /\ parent \in Nat
        BY LenProperties, CategoriesAssumption DEF CatsTyped, NoCategory
      <3>2. ASSUME CreateCategory(u, name, parent, income) PROVE cats' \in Seq(CategoryRow)
        <4>1. [user |-> u, name |-> name, parent |-> parent, isIncome |-> income,
               deleted |-> FALSE] \in CategoryRow
          BY <3>1 DEF CategoryRow
        <4>2. QED
          BY <3>2, <4>1, AppendProperties DEF CreateCategory, CatsTyped
      <3>3. ASSUME NEW id \in DOMAIN cats, UpdateCategory(u, id, name, parent, income)
            PROVE  cats' \in Seq(CategoryRow)
        <4>1. PICK row : row = [cats[id] EXCEPT !.name = name, !.parent = parent, !.isIncome = income]
          OBVIOUS
        <4>2. row \in CategoryRow
          BY <2>2, <3>1, <4>1 DEF CategoryRow
        <4>3. cats' = [cats EXCEPT ![id] = row]
          BY <3>3, <4>1 DEF UpdateCategory
        <4>4. QED
          BY <4>2, <4>3, ExceptSeq, LenProperties DEF CatsTyped
      <3>4. QED
        BY <3>1, <3>2, <3>3
    <2>4. ASSUME NEW id \in DOMAIN cats, DeleteCategory(u, id)
          PROVE  cats' \in Seq(CategoryRow)
      <3>1. PICK row : row = [cats[id] EXCEPT !.deleted = TRUE]
        OBVIOUS
      <3>2. row \in CategoryRow
        BY <2>2, <3>1 DEF CategoryRow
      <3>3. cats' = [cats EXCEPT ![id] = row]
        BY <2>4, <3>1 DEF DeleteCategory
      <3>4. QED
        BY <3>2, <3>3, ExceptSeq, LenProperties DEF CatsTyped
    <2>5. QED
      BY <1>3, <2>1, <2>3, <2>4 DEF CategoryRequest, CatsTyped
  <1>4. QED
    BY <1>1, <1>2, <1>3

-----------------------------------------------------------------------------
(* Rates.                                                                   *)

\* An import stays within the days it was asked for.
LEMMA RatesKeepTypes ==
    ASSUME RatesTyped, RatesNext
    PROVE  RatesTyped'
  <1>1. PICK i \in Importers :
            \/ \E first, last \in RateDays : FetchAndSaveRatesRange(i, first, last)
            \/ \E d \in RateDays : FetchAndSaveRates(i, d)
            \/ \E table \in Tables : fetchFromAPI(i, table)
            \/ saveRates(i)
            \/ ImportFails(i)
    BY DEF RatesNext
  <1>2. ASSUME NEW job, job \in {NoImport} \cup Job, job # NoImport => job.next <= job.last,
               import' = [import EXCEPT ![i] = job],
               rates' \in [RateDays -> Tables \cup {NoTable}]
        PROVE  RatesTyped'
    BY <1>2 DEF RatesTyped
  <1>3. ASSUME NEW first \in RateDays, NEW last \in RateDays,
               FetchAndSaveRatesRange(i, first, last)
        PROVE  RatesTyped'
    <2>1. [next |-> first, last |-> last, got |-> NoTable] \in Job
      BY DEF Job
    <2>2. QED
      BY <1>2, <1>3, <2>1 DEF FetchAndSaveRatesRange, RatesTyped
  <1>4. ASSUME NEW table \in Tables, fetchFromAPI(i, table)
        PROVE  RatesTyped'
    <2>1. import[i] \in Job /\ import[i].next <= import[i].last
      BY <1>4 DEF fetchFromAPI, Importing, NoImport, RatesTyped
    <2>2. PICK job : job = [import[i] EXCEPT !.got = table]
      OBVIOUS
    <2>3. job \in Job /\ job.next <= job.last
      BY <2>1, <2>2 DEF Job
    <2>4. import' = [import EXCEPT ![i] = job]
      BY <1>4, <2>2 DEF fetchFromAPI
    <2>5. QED
      BY <1>2, <1>4, <2>3, <2>4 DEF fetchFromAPI, RatesTyped
  <1>5. CASE saveRates(i)
    <2>1. import[i] \in Job /\ import[i].next <= import[i].last /\ import[i].got \in Tables
      BY <1>5 DEF saveRates, NoImport, RatesTyped, Job
    <2>2. rates' \in [RateDays -> Tables \cup {NoTable}]
      BY <1>5, <2>1 DEF saveRates, RatesTyped, Job
    <2>3. CASE import[i].next = import[i].last
      BY <1>2, <1>5, <2>2, <2>3 DEF saveRates
    <2>4. CASE import[i].next # import[i].last
      <3>1. PICK job : job = [import[i] EXCEPT !.next = @ + 1, !.got = NoTable]
        OBVIOUS
      <3>2. PICK n \in RateDays, m \in RateDays : n = import[i].next /\ m = import[i].last
        BY <2>1 DEF Job
      <3>3. n \in Int /\ m \in Int /\ n..m \subseteq RateDays
        BY RatesAssumption
      <3>4. n + 1 \in n..m
        BY <2>1, <2>4, <3>2, <3>3
      <3>5. n + 1 \in RateDays /\ n + 1 <= m
        BY <3>3, <3>4
      <3>6. job = [next |-> n + 1, last |-> m, got |-> NoTable]
        BY <2>1, <3>1, <3>2 DEF Job
      <3>7. job \in Job /\ job.next <= job.last
        BY <3>2, <3>5, <3>6 DEF Job
      <3>8. import' = [import EXCEPT ![i] = job]
        BY <1>5, <2>4, <3>1 DEF saveRates
      <3>9. QED
        BY <1>2, <2>2, <3>7, <3>8
    <2>5. QED
      BY <2>3, <2>4
  <1>6. CASE ImportFails(i)
    BY <1>2, <1>6 DEF ImportFails, RatesTyped
  <1>7. QED
    BY <1>1, <1>3, <1>4, <1>5, <1>6 DEF FetchAndSaveRates

-----------------------------------------------------------------------------
(* Planned transactions.                                                    *)

LEMMA PlanRowAt ==
    ASSUME PlansTyped, NEW id \in DOMAIN planned
    PROVE  planned[id] \in PlanRow
  BY ElementOfSeq, LenProperties DEF PlansTyped

\* Whatever users plan, edit and delete, the columns keep their types.
LEMMA PlansKeepTypes ==
    ASSUME PlansTyped, PlanningNext
    PROVE  PlansTyped'
  <1>1. ASSUME NEW u \in Planners, NEW input \in PlanInputs, CreatePlanned(u, input)
        PROVE  PlansTyped'
    <2>1. PICK row : row = [user |-> u, currency |-> base[u], active |-> TRUE,
                            deleted |-> FALSE, plan |-> input]
      OBVIOUS
    <2>2. row \in PlanRow
      BY <2>1 DEF PlanRow, PlansTyped
    <2>3. planned' = Append(planned, row)
      BY <1>1, <2>1 DEF CreatePlanned
    <2>4. planned' \in Seq(PlanRow) /\ DOMAIN planned \subseteq DOMAIN planned'
      BY <2>2, <2>3, AppendProperties, LenProperties DEF PlansTyped
    <2>5. QED
      BY <1>1, <2>4 DEF PlansTyped, CreatePlanned
  <1>2. ASSUME NEW u \in Planners, NEW id \in DOMAIN planned, NEW input \in PlanInputs,
               NEW isActive \in {{}, {TRUE}, {FALSE}}, UpdatePlanned(u, id, input, isActive)
        PROVE  PlansTyped'
    <2>1. PICK row : row = [planned[id] EXCEPT !.plan = input,
                            !.active = IF isActive = {} THEN @ ELSE TRUE \in isActive]
      OBVIOUS
    <2>2. row \in PlanRow
      <3>1. PICK active \in BOOLEAN :
                active = IF isActive = {} THEN planned[id].active ELSE TRUE \in isActive
        <4>1. planned[id].active \in BOOLEAN
          BY PlanRowAt DEF PlanRow
        <4>2. (TRUE \in isActive) \in BOOLEAN
          OBVIOUS
        <4>3. QED
          BY <4>1, <4>2
      <3>2. row = [planned[id] EXCEPT !.plan = input, !.active = active]
        BY <2>1, <3>1
      <3>3. QED
        BY <3>2, PlanRowAt DEF PlanRow
    <2>3. update' = [id |-> id, row |-> row]
      BY <1>2, <2>1 DEF UpdatePlanned
    <2>4. planEdits' \in 0..MaxPlanEdits
      BY <1>2, PlanningAssumption DEF UpdatePlanned, PlanEdit, PlansTyped
    <2>5. QED
      BY <1>2, <2>2, <2>3, <2>4 DEF PlansTyped, UpdatePlanned
  <1>3. ASSUME NEW u \in Planners, NEW id \in DOMAIN planned, DeletePlanned(u, id)
        PROVE  PlansTyped'
    <2>1. PICK row : row = [planned[id] EXCEPT !.deleted = TRUE, !.active = FALSE]
      OBVIOUS
    <2>2. row \in PlanRow
      BY <2>1, PlanRowAt DEF PlanRow
    <2>3. planned' = [planned EXCEPT ![id] = row]
      BY <1>3, <2>1 DEF DeletePlanned
    <2>4. planned' \in Seq(PlanRow) /\ DOMAIN planned' = DOMAIN planned
      BY <2>2, <2>3, ExceptSeq, LenProperties DEF PlansTyped
    <2>5. planEdits' \in 0..MaxPlanEdits
      BY <1>3, PlanningAssumption DEF DeletePlanned, PlanEdit, PlansTyped
    <2>6. QED
      BY <1>3, <2>4, <2>5 DEF PlansTyped, DeletePlanned
  <1>4. ASSUME NEW u \in Planners, NEW c \in Currencies, ChooseBase(u, c)
        PROVE  PlansTyped'
    BY <1>4 DEF PlansTyped, ChooseBase
  <1>5. CASE SavePlanned
    <2>1. update \in [id : DOMAIN planned, row : PlanRow]
      BY <1>5 DEF SavePlanned, PlansTyped
    <2>2. PICK row : row = [update.row EXCEPT !.deleted = planned[update.id].deleted]
      OBVIOUS
    <2>3. planned[update.id] \in PlanRow
      BY <2>1, PlanRowAt
    <2>4. row \in PlanRow
      BY <2>1, <2>2, <2>3 DEF PlanRow
    <2>5. planned' = [planned EXCEPT ![update.id] = row]
      BY <1>5, <2>2 DEF SavePlanned
    <2>6. planned' \in Seq(PlanRow)
      BY <2>1, <2>4, <2>5, ExceptSeq, LenProperties DEF PlansTyped
    <2>7. QED
      BY <1>5, <2>6 DEF PlansTyped, SavePlanned
  <1>6. CASE NextDay
    BY <1>6, PlanningAssumption DEF PlansTyped, NextDay
  <1>7. QED
    BY <1>1, <1>2, <1>3, <1>4, <1>5, <1>6
    DEF PlanningNext, PlanRequest, Create, Update, Delete

\* Neither a request nor the second statement of an update brings a deleted plan back.
LEMMA DeletedStays ==
    ASSUME PlansTyped, PlanningNext
    PROVE  DeletedStay
  <1> SUFFICES ASSUME NEW id \in DOMAIN planned, planned[id].deleted
               PROVE  id \in DOMAIN planned' /\ planned'[id].deleted
    BY DEF DeletedStay
  <1>1. ASSUME NEW u \in Planners, NEW input \in PlanInputs, CreatePlanned(u, input)
        PROVE  id \in DOMAIN planned' /\ planned'[id].deleted
    <2>1. PICK row : row = [user |-> u, currency |-> base[u], active |-> TRUE,
                            deleted |-> FALSE, plan |-> input]
      OBVIOUS
    <2>2. planned' = Append(planned, row)
      BY <1>1, <2>1 DEF CreatePlanned
    <2>3. row \in PlanRow
      BY <2>1 DEF PlanRow, PlansTyped
    <2>4. QED
      BY <2>2, <2>3, AppendProperties, LenProperties DEF PlansTyped
  <1>2. ASSUME NEW i \in DOMAIN planned, NEW row, planned' = [planned EXCEPT ![i] = row],
               i = id => row.deleted
        PROVE  id \in DOMAIN planned' /\ planned'[id].deleted
    BY <1>2
  <1>3. ASSUME NEW u \in Planners, NEW i \in DOMAIN planned, DeletePlanned(u, i)
        PROVE  id \in DOMAIN planned' /\ planned'[id].deleted
    <2>1. PICK row : row = [planned[i] EXCEPT !.deleted = TRUE, !.active = FALSE]
      OBVIOUS
    <2>2. row.deleted
      BY <2>1, PlanRowAt DEF PlanRow
    <2>3. planned' = [planned EXCEPT ![i] = row]
      BY <1>3, <2>1 DEF DeletePlanned
    <2>4. QED
      BY <1>2, <2>2, <2>3
  <1>4. CASE SavePlanned
    <2>1. update \in [id : DOMAIN planned, row : PlanRow]
      BY <1>4 DEF SavePlanned, PlansTyped
    <2>2. PICK row : row = [update.row EXCEPT !.deleted = planned[update.id].deleted]
      OBVIOUS
    <2>3. row.deleted = planned[update.id].deleted
      BY <2>1, <2>2 DEF PlanRow
    <2>4. planned' = [planned EXCEPT ![update.id] = row]
      BY <1>4, <2>2 DEF SavePlanned
    <2>5. QED
      BY <1>2, <2>1, <2>3, <2>4
  <1>5. CASE UNCHANGED planned
    BY <1>5
  <1>6. QED
    BY <1>1, <1>3, <1>4, <1>5
    DEF PlanningNext, PlanRequest, Create, Update, Delete, UpdatePlanned, ChooseBase, NextDay

-----------------------------------------------------------------------------
(* Reports.                                                                 *)

\* So one of the rows a report has still to convert is the latest, and one the earliest.
LEMMA NextRow ==
    ASSUME NEW R \in Seq(Row), NEW S, S \subseteq DOMAIN R, S # {}
    PROVE  Latest(R, S) \in S /\ Earliest(R, S) \in S
  <1>1. \A i \in S : R[i].at \in Int /\ i \in Int
    <2>1. \A i \in DOMAIN R : R[i] \in Row /\ i \in Nat
      BY ElementOfSeq, LenProperties
    <2>2. QED
      BY <2>1 DEF Row
  <1>2. IsFiniteSet(S)
    BY FiniteDomain, FS_Subset
  <1>3. PICK at : at = [i \in S |-> R[i].at]
    OBVIOUS
  <1>4. \A i \in S : at[i] \in Int /\ i \in Int /\ at[i] = R[i].at
    BY <1>1, <1>3
  <1>5. \E i \in S : \A j \in S : R[j].at < R[i].at \/ (R[j].at = R[i].at /\ j <= i)
    <2> DEFINE L == {p \in S \X S : at[p[2]] < at[p[1]] \/ (at[p[2]] = at[p[1]] /\ p[2] <= p[1])}
    <2>1. \A x, y \in S : <<x, y>> \in L <=> at[y] < at[x] \/ (at[y] = at[x] /\ y <= x)
      OBVIOUS
    <2> HIDE DEF L
    <2>2. ASSUME NEW x \in S, NEW y \in S
          PROVE  <<x, y>> \in L \/ <<y, x>> \in L
      <3>1. PICK ax \in Int, ay \in Int : ax = at[x] /\ ay = at[y]
        BY <1>4
      <3>2. x \in Int /\ y \in Int
        BY <1>4
      <3>3. QED
        BY <2>1, <3>1, <3>2
    <2>3. ASSUME NEW x \in S, NEW y \in S, NEW z \in S, <<x, y>> \in L, <<y, z>> \in L
          PROVE  <<x, z>> \in L
      <3>1. PICK ax \in Int, ay \in Int, az \in Int : ax = at[x] /\ ay = at[y] /\ az = at[z]
        BY <1>4
      <3>2. x \in Int /\ y \in Int /\ z \in Int
        BY <1>4
      <3>3. /\ ay < ax \/ (ay = ax /\ y <= x)
            /\ az < ay \/ (az = ay /\ z <= y)
        BY <2>1, <2>3, <3>1
      <3>4. az < ax \/ (az = ax /\ z <= x)
        BY <3>1, <3>2, <3>3
      <3>5. QED
        BY <2>1, <3>1, <3>4
    <2>4. \E x \in S : \A y \in S : <<x, y>> \in L
      BY <1>2, <2>2, <2>3, FirstOfAFiniteSet
    <2>5. PICK x \in S : \A y \in S : <<x, y>> \in L
      BY <2>4
    <2>6. ASSUME NEW y \in S
          PROVE  R[y].at < R[x].at \/ (R[y].at = R[x].at /\ y <= x)
      <3>1. <<x, y>> \in L /\ R[x].at = at[x] /\ R[y].at = at[y]
        BY <1>4, <2>5
      <3>2. QED
        BY <2>1, <3>1
    <2>7. QED
      BY <2>6
  <1>6. \E i \in S : \A j \in S : R[i].at < R[j].at \/ (R[i].at = R[j].at /\ i <= j)
    <2> DEFINE L == {p \in S \X S : at[p[1]] < at[p[2]] \/ (at[p[1]] = at[p[2]] /\ p[1] <= p[2])}
    <2>1. \A x, y \in S : <<x, y>> \in L <=> at[x] < at[y] \/ (at[x] = at[y] /\ x <= y)
      OBVIOUS
    <2> HIDE DEF L
    <2>2. ASSUME NEW x \in S, NEW y \in S
          PROVE  <<x, y>> \in L \/ <<y, x>> \in L
      <3>1. PICK ax \in Int, ay \in Int : ax = at[x] /\ ay = at[y]
        BY <1>4
      <3>2. x \in Int /\ y \in Int
        BY <1>4
      <3>3. QED
        BY <2>1, <3>1, <3>2
    <2>3. ASSUME NEW x \in S, NEW y \in S, NEW z \in S, <<x, y>> \in L, <<y, z>> \in L
          PROVE  <<x, z>> \in L
      <3>1. PICK ax \in Int, ay \in Int, az \in Int : ax = at[x] /\ ay = at[y] /\ az = at[z]
        BY <1>4
      <3>2. x \in Int /\ y \in Int /\ z \in Int
        BY <1>4
      <3>3. /\ ax < ay \/ (ax = ay /\ x <= y)
            /\ ay < az \/ (ay = az /\ y <= z)
        BY <2>1, <2>3, <3>1
      <3>4. ax < az \/ (ax = az /\ x <= z)
        BY <3>1, <3>2, <3>3
      <3>5. QED
        BY <2>1, <3>1, <3>4
    <2>4. \E x \in S : \A y \in S : <<x, y>> \in L
      BY <1>2, <2>2, <2>3, FirstOfAFiniteSet
    <2>5. PICK x \in S : \A y \in S : <<x, y>> \in L
      BY <2>4
    <2>6. ASSUME NEW y \in S
          PROVE  R[x].at < R[y].at \/ (R[x].at = R[y].at /\ x <= y)
      <3>1. <<x, y>> \in L /\ R[x].at = at[x] /\ R[y].at = at[y]
        BY <1>4, <2>5
      <3>2. QED
        BY <2>1, <3>1
    <2>7. QED
      BY <2>6
  <1>7. QED
    BY <1>5, <1>6 DEF Latest, Earliest

\* What a report selects is among the rows it read.
LEMMA SelectedRows ==
    ASSUME NEW kind \in Kinds, NEW C, NEW R, NEW S, NEW filter
    PROVE  Selected(kind, C, R, S, filter) \subseteq S
  BY DEF Selected, Kinds

\* Rows come and are hidden; requests and reports keep the types.
LEMMA RowsKeepTypes ==
    ASSUME ReportsTyped, RowStep
    PROVE  ReportsTyped'
  <1>1. ASSUME NEW row \in RowInputs, AddRow(row) PROVE ReportsTyped'
    <2>1. row \in Row
      BY ReportsAssumption
    <2>2. rows' \in Seq(Row) /\ report' = report
      BY <1>1, <2>1, AppendProperties DEF AddRow, ReportsTyped
    <2>3. QED
      BY <2>2 DEF ReportsTyped
  <1>2. ASSUME NEW i \in DOMAIN rows, HideRow(i) PROVE ReportsTyped'
    <2>1. PICK row : row = [rows[i] EXCEPT !.hidden = TRUE]
      OBVIOUS
    <2>2. rows[i] \in Row
      BY ElementOfSeq, LenProperties DEF ReportsTyped
    <2>3. row \in Row
      BY <2>1, <2>2 DEF Row
    <2>4. rows' = [rows EXCEPT ![i] = row] /\ report' = report
      BY <1>2, <2>1 DEF HideRow
    <2>5. rows' \in Seq(Row)
      BY <2>3, <2>4, ExceptSeq, LenProperties DEF ReportsTyped
    <2>6. QED
      BY <2>4, <2>5 DEF ReportsTyped
  <1>3. QED
    BY <1>1, <1>2 DEF RowStep

\* Whoever asks for a report gets a new one.
LEMMA AskKeeps ==
    ASSUME ReportsTyped, NEW request \in Requests, AskFor(request), UNCHANGED rateVars
    PROVE  ReportsTyped' /\ Converting'
  <1>1. PICK r : r = [kind |-> request.kind, first |-> request.first, last |-> request.last,
                      filter |-> request.filter, cats |-> cats, rows |-> << >>, read |-> FALSE,
                      todo |-> {}, value |-> << >>, cache |-> NoTable, failed |-> FALSE]
    OBVIOUS
  <1>2. report' = r /\ rows' = rows /\ answers' = {getAllRatesWithFallback(request.first)}
    BY <1>1 DEF AskFor
  <1>3. ReportTyped(r)
    <2>1. request.kind \in Kinds
      BY ReportsAssumption
    <2>2. << >> \in Seq(Row) /\ DOMAIN << >> = {}
      BY EmptySeq
    <2>3. QED
      BY <1>1, <2>1, <2>2 DEF ReportTyped, IsReport
  <1>4. getAllRatesWithFallback(report.first)' = getAllRatesWithFallback(request.first)
    BY <1>1, <1>2 DEF getAllRatesWithFallback, Stored, rateVars
  <1>5. r.todo = {} /\ r.cache = NoTable /\ DOMAIN r.value = {}
    BY <1>1, EmptySeq
  <1>6. OneTable(report)'
    BY <1>2, <1>4, <1>5 DEF OneTable
  <1>7. QED
    BY <1>2, <1>3, <1>6 DEF ReportsTyped, ReportTyped, IsReport, Converting

\* Reading the rows leaves the table to be fetched.
LEMMA ReadKeeps ==
    ASSUME ReportsTyped, Converting, ReadRows, UNCHANGED rateVars
    PROVE  ReportsTyped' /\ Converting'
  <1>1. ReportTyped(report) /\ OneTable(report) /\ ~report.read
    BY DEF ReportsTyped, Converting, ReadRows
  <1>2. PICK S : S = IF report.kind = "export" THEN GetForExport(rows, report.first, report.last)
                     ELSE GetByUserIDBetween(rows, report.first, report.last)
    OBVIOUS
  <1>3. PICK todo : todo = Selected(report.kind, report.cats, rows, S, report.filter)
    OBVIOUS
  <1>4. todo \subseteq DOMAIN rows
    <2>1. S \subseteq DOMAIN rows
      BY <1>2 DEF GetForExport, GetByUserIDBetween
    <2>2. todo \subseteq S
      BY <1>1, <1>3, SelectedRows DEF ReportTyped
    <2>3. QED
      BY <2>1, <2>2
  <1>5. report' = [report EXCEPT !.read = TRUE, !.rows = rows, !.todo = todo]
    BY <1>2, <1>3 DEF ReadRows
  <1>6. /\ IsReport(report')
        /\ report'.kind = report.kind /\ report'.first = report.first
        /\ report'.rows = rows /\ report'.read /\ report'.todo = todo
        /\ report'.value = report.value /\ report'.cache = report.cache
        /\ rows' = rows /\ answers' = answers
    BY <1>1, <1>5 DEF ReportTyped, IsReport, ReadRows
  <1>7. DOMAIN report.value = {} /\ report.cache = NoTable
    BY <1>1 DEF OneTable
  <1>8. ReportsTyped'
    BY <1>1, <1>4, <1>6, <1>7 DEF ReportsTyped, ReportTyped
  <1>9. getAllRatesWithFallback(report.first)' = getAllRatesWithFallback(report.first)
    BY <1>6 DEF getAllRatesWithFallback, Stored, rateVars
  <1>10. OneTable(report)'
    BY <1>1, <1>6, <1>7, <1>9 DEF OneTable
  <1>11. QED
    BY <1>8, <1>10 DEF Converting

\* An amount in the user's own currency needs no table; any other one fails without.
LEMMA Conversions ==
    ASSUME NEW R, NEW i
    PROVE  /\ R[i].currency = Base => \A table : ConvertedWith(table, R, i) = R[i].amount
           /\ R[i].currency # Base => ConvertedWith(NoTable, R, i) = NoExchangeRates
  BY DEF ConvertedWith, ConvertToBaseCurrency

\* The next amount is converted with the table the others were converted with.
LEMMA ConversionKeeps ==
    ASSUME ReportsTyped, Converting, getTransactionAmount, UNCHANGED rateVars
    PROVE  ReportsTyped' /\ Converting'
  <1>1. ReportTyped(report) /\ OneTable(report) /\ report.kind # "export" /\ report.todo # {}
    BY DEF ReportsTyped, Converting, getTransactionAmount
  <1>2. PICK R, i : R = report.rows /\ i = Latest(report.rows, report.todo)
    OBVIOUS
  <1>3. R \in Seq(Row) /\ i \in report.todo /\ i \in DOMAIN R /\ report.read
    BY <1>1, <1>2, NextRow DEF ReportTyped, OneTable
  <1>4. PICK table : table = IF R[i].currency = Base THEN report.cache
                             ELSE GetRatesForDate(report.cache, report.first)
    OBVIOUS
  <1>5. PICK value : value = ConvertedWith(table, R, i)
    OBVIOUS
  <1>6. PICK values : values = Told(report.value, i, value)
    OBVIOUS
  <1>7. PICK todo : todo = IF value = NoExchangeRates THEN {} ELSE report.todo \ {i}
    OBVIOUS
  <1>8. PICK failed : failed = (value = NoExchangeRates)
    OBVIOUS
  <1>9. report' = [report EXCEPT !.cache = table, !.value = values, !.failed = failed, !.todo = todo]
    BY <1>2, <1>4, <1>5, <1>6, <1>7, <1>8 DEF getTransactionAmount, ConvertedWith
  <1>10. /\ IsReport(report')
         /\ report'.kind = report.kind /\ report'.first = report.first
         /\ report'.rows = R /\ report'.read = report.read /\ report'.todo = todo
         /\ report'.value = values /\ report'.cache = table
         /\ rows' = rows /\ answers' = answers
    BY <1>1, <1>2, <1>9 DEF ReportTyped, IsReport, getTransactionAmount
  <1>11. /\ DOMAIN values = {i} \cup DOMAIN report.value
         /\ \A j \in DOMAIN values : values[j] = IF j = i THEN value ELSE report.value[j]
    BY <1>6 DEF Told
  <1>12. ReportsTyped'
    <2>1. todo \subseteq DOMAIN R /\ DOMAIN values \subseteq DOMAIN R
      BY <1>1, <1>2, <1>3, <1>7, <1>11 DEF ReportTyped
    <2>2. QED
      BY <1>1, <1>3, <1>10, <2>1 DEF ReportsTyped, ReportTyped
  <1>13. getAllRatesWithFallback(report.first)' = getAllRatesWithFallback(report.first)
    BY <1>10 DEF getAllRatesWithFallback, Stored, rateVars
  <1>14. table \in answers \cup {NoTable}
    BY <1>1, <1>4 DEF OneTable, GetRatesForDate
  <1>15. CASE R[i].currency = Base
    <2>1. table = report.cache
      BY <1>4, <1>15
    <2>2. \A j \in DOMAIN values : values[j] = ConvertedWith(table, R, j)
      BY <1>1, <1>2, <1>5, <1>11, <2>1 DEF OneTable
    <2>3. table = NoTable => \A j \in DOMAIN values : R[j].currency = Base
      BY <1>1, <1>2, <1>11, <1>15, <2>1 DEF OneTable
    <2>4. OneTable(report)'
      BY <1>1, <1>3, <1>10, <1>13, <1>14, <2>2, <2>3 DEF OneTable, ConvertedWith
    <2>5. QED
      BY <1>12, <2>4 DEF Converting
  <1>16. CASE R[i].currency # Base
    <2>1. report.cache # NoTable => table = report.cache
      BY <1>4, <1>16 DEF GetRatesForDate
    <2>2. ASSUME NEW j \in DOMAIN values
          PROVE  values[j] = ConvertedWith(table, R, j)
      <3>1. CASE j = i
        BY <1>5, <1>11, <3>1
      <3>2. CASE j # i /\ report.cache # NoTable
        BY <1>1, <1>2, <1>11, <2>1, <3>2 DEF OneTable
      <3>3. CASE j # i /\ report.cache = NoTable
        <4>1. j \in DOMAIN report.value /\ R[j].currency = Base
          BY <1>1, <1>2, <1>11, <3>3 DEF OneTable
        <4>2. values[j] = ConvertedWith(report.cache, R, j)
          BY <1>1, <1>2, <1>11, <3>3, <4>1 DEF OneTable
        <4>3. QED
          BY <4>1, <4>2, Conversions
      <3>4. QED
        BY <3>1, <3>2, <3>3
    <2>3. table = NoTable => todo = {}
      BY <1>5, <1>7, <1>16, Conversions
    <2>4. OneTable(report)'
      BY <1>1, <1>3, <1>10, <1>13, <1>14, <2>2, <2>3 DEF OneTable, ConvertedWith
    <2>5. QED
      BY <1>12, <2>4 DEF Converting
  <1>17. QED
    BY <1>15, <1>16

\* The export converts with the rates of each day and keeps no table.
LEMMA ExportKeeps ==
    ASSUME ReportsTyped, Converting, GenerateExcel, UNCHANGED rateVars
    PROVE  ReportsTyped' /\ Converting'
  <1>1. ReportTyped(report) /\ OneTable(report) /\ report.kind = "export" /\ report.todo # {}
    BY DEF ReportsTyped, Converting, GenerateExcel
  <1>2. PICK i : i = Earliest(report.rows, report.todo)
    OBVIOUS
  <1>3. i \in report.todo /\ i \in DOMAIN report.rows /\ report.read
    BY <1>1, <1>2, NextRow DEF ReportTyped, OneTable
  <1>4. PICK value : value = ConvertAmount(report.rows[i].amount, report.rows[i].currency,
                                           Base, DayOf(report.rows[i].at))
    OBVIOUS
  <1>5. PICK values : values = Told(report.value, i, value)
    OBVIOUS
  <1>6. PICK todo : todo = report.todo \ {i}
    OBVIOUS
  <1>7. report' = [report EXCEPT !.todo = todo, !.value = values]
    BY <1>2, <1>4, <1>5, <1>6 DEF GenerateExcel
  <1>8. /\ IsReport(report')
        /\ report'.kind = report.kind /\ report'.first = report.first
        /\ report'.rows = report.rows /\ report'.read = report.read /\ report'.todo = todo
        /\ report'.value = values /\ report'.cache = report.cache
        /\ rows' = rows /\ answers' = answers
    BY <1>1, <1>7 DEF ReportTyped, IsReport, GenerateExcel
  <1>9. DOMAIN values = {i} \cup DOMAIN report.value
    BY <1>5 DEF Told
  <1>10. todo \subseteq DOMAIN report.rows /\ DOMAIN values \subseteq DOMAIN report.rows
    BY <1>1, <1>3, <1>6, <1>9 DEF ReportTyped
  <1>11. ReportsTyped'
    BY <1>1, <1>8, <1>10 DEF ReportsTyped, ReportTyped
  <1>12. getAllRatesWithFallback(report.first)' = getAllRatesWithFallback(report.first)
    BY <1>8 DEF getAllRatesWithFallback, Stored, rateVars
  <1>13. OneTable(report)'
    BY <1>1, <1>3, <1>8, <1>12 DEF OneTable
  <1>14. QED
    BY <1>11, <1>13 DEF Converting

\* Rates that change while a report is made are among the answers.
LEMMA RatesKeepReports ==
    ASSUME ReportsTyped, Converting, RatesStep
    PROVE  ReportsTyped' /\ Converting'
  <1>1. rows' = rows /\ report' = report
    BY DEF RatesStep
  <1>2. ReportsTyped'
    BY <1>1 DEF ReportsTyped, ReportTyped, IsReport
  <1>3. ASSUME report # NoReport PROVE OneTable(report)'
    <2>1. OneTable(report)
      BY <1>3 DEF Converting
    <2>2. answers' = answers \cup {getAllRatesWithFallback(report.first)'}
      BY <1>3 DEF RatesStep
    <2>3. QED
      BY <1>1, <2>1, <2>2 DEF OneTable, ConvertedWith
  <1>4. QED
    BY <1>1, <1>2, <1>3 DEF Converting

\* Steps that leave report and rates alone keep the report's table.
LEMMA OthersKeepReports ==
    ASSUME Converting, UNCHANGED <<report, answers>>, UNCHANGED rateVars
    PROVE  Converting'
  <1>1. report # NoReport =>
           getAllRatesWithFallback(report.first)' = getAllRatesWithFallback(report.first)
    BY DEF getAllRatesWithFallback, Stored, rateVars
  <1>2. QED
    BY <1>1 DEF Converting, OneTable, ConvertedWith

-----------------------------------------------------------------------------
(* The invariant.                                                           *)

LEMMA InitEstablishes ==
    ASSUME InsightsInit
    PROVE  IInv
  <1>1. CatsTyped
    BY CategoriesAssumption, EmptySeq DEF InsightsInit, InitCats, CatsTyped
  <1>2. RatesTyped
    BY DEF InsightsInit, RatesTyped
  <1>3. ReportsTyped /\ Converting
    BY EmptySeq DEF InsightsInit, InitReports, ReportsTyped, Converting
  <1>4. PlansTyped
    BY PlanningAssumption, EmptySeq DEF InsightsInit, InitPlanning, PlansTyped
  <1>5. QED
    BY <1>1, <1>2, <1>3, <1>4 DEF IInv

LEMMA StepKeeps ==
    ASSUME IInv, [InsightsNext]_vars
    PROVE  IInv'
  <1>1. CASE ReportsNext /\ UNCHANGED planVars
    <2>1. PlansTyped'
      BY <1>1 DEF IInv, PlansTyped, planVars
    <2>2. CASE CategoriesNext /\ UNCHANGED <<rateVars, reportVars>>
      <3>1. CatsTyped'
        BY <2>2, CategoriesKeepTypes DEF IInv
      <3>2. RatesTyped'
        BY <2>2 DEF IInv, RatesTyped, rateVars
      <3>3. ReportsTyped' /\ Converting'
        BY <2>2, OthersKeepReports DEF IInv, ReportsTyped, ReportTyped, IsReport, reportVars
      <3>4. QED
        BY <2>1, <3>1, <3>2, <3>3 DEF IInv
    <2>3. CASE (ReportStep \/ RowStep) /\ UNCHANGED <<catVars, rateVars>>
      <3>1. CatsTyped'
        BY <2>3 DEF IInv, CatsTyped, catVars
      <3>2. RatesTyped'
        BY <2>3 DEF IInv, RatesTyped, rateVars
      <3>3. ASSUME RowStep PROVE ReportsTyped' /\ Converting'
        BY <2>3, <3>3, RowsKeepTypes, OthersKeepReports DEF IInv, RowStep, AddRow, HideRow
      <3>4. ASSUME ReportStep PROVE ReportsTyped' /\ Converting'
        <4>1. ASSUME Respond PROVE ReportsTyped' /\ Converting'
          BY <4>1 DEF IInv, Respond, ReportsTyped, Converting
        <4>2. QED
          BY <2>3, <3>4, <4>1, AskKeeps, ReadKeeps, ConversionKeeps, ExportKeeps
          DEF IInv, ReportStep
      <3>5. QED
        BY <2>1, <2>3, <3>1, <3>2, <3>3, <3>4 DEF IInv
    <2>4. CASE RatesStep /\ UNCHANGED catVars
      <3>1. CatsTyped'
        BY <2>4 DEF IInv, CatsTyped, catVars
      <3>2. RatesTyped' /\ ReportsTyped' /\ Converting'
        BY <2>4, RatesKeepTypes, RatesKeepReports DEF IInv, RatesStep
      <3>3. QED
        BY <2>1, <3>1, <3>2 DEF IInv
    <2>5. QED
      BY <1>1, <2>2, <2>3, <2>4 DEF ReportsNext
  <1>2. ASSUME UNCHANGED <<catVars, rateVars, reportVars>>
        PROVE  CatsTyped' /\ RatesTyped' /\ ReportsTyped' /\ Converting'
    <2>1. CatsTyped' /\ RatesTyped'
      BY <1>2 DEF IInv, CatsTyped, RatesTyped, catVars, rateVars
    <2>2. ReportsTyped' /\ Converting'
      BY <1>2, OthersKeepReports DEF IInv, ReportsTyped, ReportTyped, IsReport, reportVars
    <2>3. QED
      BY <2>1, <2>2
  <1>3. CASE PlanningNext /\ UNCHANGED <<catVars, rateVars, reportVars>>
    BY <1>2, <1>3, PlansKeepTypes DEF IInv
  <1>4. CASE UNCHANGED vars
    <2>1. PlansTyped'
      BY <1>4 DEF IInv, PlansTyped, vars, planVars
    <2>2. QED
      BY <1>2, <1>4, <2>1 DEF IInv, vars
  <1>5. QED
    BY <1>1, <1>3, <1>4 DEF InsightsNext

\* What every reachable state satisfies: the columns have their types, and a report
\* under way keeps one table, that of its day at a moment since it was asked for.
\* (RateCache, services/currency/rate_cache.go:29, and what surrounds it.)
THEOREM InsightsInvariant == InsightsSpec => []IInv
  <1>1. InsightsInit => IInv
    BY InitEstablishes
  <1>2. IInv /\ [InsightsNext]_vars => IInv'
    BY StepKeeps
  <1>3. QED
    BY <1>1, <1>2, PTL DEF InsightsSpec

\* Requests, tasks and imports store in every column of categories, rates, rows and
\* plans what its type allows; imports stay within the days they were asked for
\* (FetchAndSaveRatesRange, services/exchange_rates).
THEOREM InsightsTyped == InsightsSpec => []TypeOK
  <1>1. IInv => TypeOK
    <2> SUFFICES ASSUME IInv PROVE TypeOK
      OBVIOUS
    <2>1. ASSUME NEW i \in Importers
          PROVE  import[i] = NoImport \/ {import[i].next, import[i].last} \subseteq RateDays
      BY DEF IInv, RatesTyped, Job
    <2>2. report # NoReport => report.todo \cup DOMAIN report.value \subseteq DOMAIN report.rows
      BY DEF IInv, ReportsTyped, ReportTyped
    <2>3. ReportsTypeOK
      BY <2>1, <2>2 DEF IInv, ReportsTypeOK, CatsTyped, RatesTyped, ReportsTyped
    <2>4. ASSUME NEW id \in DOMAIN planned
          PROVE  /\ planned[id].user \in Planners /\ planned[id].currency \in Currencies
                 /\ planned[id].plan \in PlanInputs
                 /\ {planned[id].active, planned[id].deleted} \subseteq BOOLEAN
      BY PlanRowAt DEF IInv, PlanRow
    <2>5. update.id \in {0} \cup DOMAIN planned
      BY DEF IInv, PlansTyped, NoUpdate
    <2>6. PlanningTypeOK
      BY <2>4, <2>5 DEF IInv, PlanningTypeOK, PlansTyped
    <2>7. QED
      BY <2>3, <2>6 DEF TypeOK
  <1>2. QED
    BY <1>1, InsightsInvariant, PTL

\* However rates change while it is made, the amounts of a report were converted with
\* one table, which its day had at a moment between question and answer.
\* (getTransactionAmount, services/reports, with the RateCache of the request.)
THEOREM InsightsReportOfOneMoment == InsightsSpec => []ReportOfOneMoment
  <1>1. IInv => ReportOfOneMoment
    <2> SUFFICES ASSUME IInv, Finished, report.kind # "export"
                 PROVE  \E table \in answers \cup {NoTable} : \A i \in DOMAIN report.value :
                            report.value[i] = ConvertedWith(table, report.rows, i)
      BY DEF ReportOfOneMoment
    <2>1. OneTable(report)
      BY DEF IInv, Converting, Finished
    <2>2. QED
      BY <2>1 DEF OneTable
  <1>2. QED
    BY <1>1, InsightsInvariant, PTL

\* For every set of rows, two ranges that follow each other make up the range of both,
\* and the export lacks of the rows it is about only those of the last day.
\* (MakeEndDateInclusive, dateutil/dateutil.go:34, and GetForExport.)
THEOREM InsightsRangesCover == InsightsSpec => []RangesCover
  <1>1. IInv => RangesCover
    <2> SUFFICES ASSUME IInv, NEW first \in RateDays, NEW last \in RateDays
                 PROVE
                  LET all == GetByUserIDBetween(rows, first, last)
                      exported == GetForExport(rows, first, last)
                  IN  /\ \A m \in first..(last - 1) :
                            LET before == GetByUserIDBetween(rows, first, m)
                                after  == GetByUserIDBetween(rows, m + 1, last)
                            IN  /\ before \cup after = all
                                /\ \A i \in before \cap after : rows[i].at = Midnight(m + 1)
                      /\ exported \subseteq all
                      /\ \A i \in all \ exported :
                            \/ rows[i].at > Midnight(last)
                            \/ rows[i].isTransfer \/ rows[i].isAdjustment \/ rows[i].excluded
      BY DEF RangesCover
    <2>1. first \in Int /\ last \in Int
      BY RatesAssumption
    <2>2. \A i \in DOMAIN rows : rows[i].at \in Int
      <3>1. \A i \in DOMAIN rows : rows[i] \in Row
        BY ElementOfSeq, LenProperties DEF IInv, ReportsTyped
      <3>2. QED
        BY <3>1 DEF Row
    <2>3. ASSUME NEW m \in first..(last - 1)
          PROVE  LET before == GetByUserIDBetween(rows, first, m)
                     after  == GetByUserIDBetween(rows, m + 1, last)
                 IN  /\ before \cup after = GetByUserIDBetween(rows, first, last)
                     /\ \A i \in before \cap after : rows[i].at = Midnight(m + 1)
      BY <2>1, <2>2 DEF GetByUserIDBetween, MakeEndDateInclusive, Midnight
    <2>4. GetForExport(rows, first, last) \subseteq GetByUserIDBetween(rows, first, last)
      BY <2>1, <2>2 DEF GetByUserIDBetween, GetForExport, MakeEndDateInclusive, Midnight
    <2>5. ASSUME NEW i \in GetByUserIDBetween(rows, first, last) \ GetForExport(rows, first, last)
          PROVE  \/ rows[i].at > Midnight(last)
                 \/ rows[i].isTransfer \/ rows[i].isAdjustment \/ rows[i].excluded
      BY <2>1, <2>2 DEF GetByUserIDBetween, GetForExport, MakeEndDateInclusive, Midnight
    <2>6. QED
      BY <2>3, <2>4, <2>5
  <1>2. QED
    BY <1>1, InsightsInvariant, PTL

\* What a user deleted is never listed nor expected again, and stays deleted: the
\* second statement of an update that was under way writes is_active back, and not
\* is_deleted.  (Update and Delete of services/planned_transactions.)
THEOREM InsightsDeletedStay == InsightsSpec => []DeletedNeverUpcoming /\ [][DeletedStay]_vars
  <1>1. DeletedNeverUpcoming
    BY DEF DeletedNeverUpcoming, List, GetUpcoming, GetActiveByUserID, GenerateOccurrencesForTxs
  <1>2. IInv /\ [InsightsNext]_vars => [DeletedStay]_vars
    <2> SUFFICES ASSUME IInv, InsightsNext PROVE DeletedStay
      OBVIOUS
    <2>1. CASE PlanningNext
      BY <2>1, DeletedStays DEF IInv
    <2>2. CASE UNCHANGED planned
      BY <2>2 DEF DeletedStay
    <2>3. QED
      BY <2>1, <2>2 DEF InsightsNext, planVars
  <1>3. QED
    BY <1>1, <1>2, InsightsInvariant, PTL DEF InsightsSpec

-----------------------------------------------------------------------------
(* The totals of the reports on expenses.                                   *)

\* The sums of the reports, said with the sums of FiniteSums.
LEMMA SumOfIs ==
    ASSUME NEW e
    PROVE  SumOf(e) = SumFunction(e)
  BY DEF SumOf, MapThenSumSet, SumFunction, SumFunctionOnSet, FoldFunctionOnSet, MapThenFoldSet

LEMMA MappedSum ==
    ASSUME NEW v, NEW T, Addable(v, T)
    PROVE  MapThenSumSet(LAMBDA i : v[i], T) = SumOver(v, T)
  <1>1. PICK it : it = CHOOSE h : Adder(v, T, h)
    OBVIOUS
  <1>2. MapThenSumSet(LAMBDA i : v[i], T) = it[T]
    BY <1>1 DEF MapThenSumSet, MapThenFoldSet, pick, Adder
  <1>3. Adder(v, T, it)
    BY <1>1, AdderAdds
  <1>4. QED
    BY <1>2, <1>3, AdderAdds

LEMMA ExpensesSum ==
    ASSUME NEW f, NEW T, T = DOMAIN f, Addable([key \in T |-> f[key].expenses], T)
    PROVE  ExpensesOf(f) = SumFunction([key \in T |-> f[key].expenses])
  <1> DEFINE Rec(it) == it = [s \in SUBSET T |->
                                IF s = {} THEN 0 ELSE f[pick(s)].expenses + it[s \ {pick(s)}]]
  <1>1. PICK it : it = CHOOSE h : Rec(h)
    OBVIOUS
  <1>2. ExpensesOf(f) = it[T]
    BY <1>1 DEF ExpensesOf, MapThenSumSet, MapThenFoldSet, pick
  <1>3. PICK v : v = [key \in T |-> f[key].expenses]
    OBVIOUS
  <1>4. ASSUME NEW s \in SUBSET T, s # {} PROVE v[pick(s)] = f[pick(s)].expenses
    BY <1>3, <1>4, PickOne
  <1>5. \A h : [s \in SUBSET T |-> IF s = {} THEN 0 ELSE v[pick(s)] + h[s \ {pick(s)}]]
             = [s \in SUBSET T |-> IF s = {} THEN 0 ELSE f[pick(s)].expenses + h[s \ {pick(s)}]]
    BY <1>4
  <1>6. \A h : Adder(v, T, h) <=> Rec(h)
    BY <1>5 DEF Adder
  <1>7. it[T] = SumOver(v, T)
    <2>1. Addable(v, T)
      BY <1>3
    <2>2. Rec(it)
      <3>1. \E h : Rec(h)
        BY <1>6, <2>1, AdderAdds
      <3>2. QED
        BY <1>1, <3>1
    <2>3. QED
      BY <1>6, <2>1, <2>2, AdderAdds
  <1>8. v = [key \in T |-> v[key]]
    BY <1>3
  <1>9. QED
    BY <1>2, <1>3, <1>7, <1>8 DEF SumOver

\* The rows of v that have an amount.
WithAmount(v) == {i \in DOMAIN v : IsAmount(v[i])}

LEMMA TotalIs ==
    ASSUME NEW v, Addable(v, WithAmount(v)), NEW S, S \subseteq DOMAIN v,
           NEW T, T = {i \in S : IsAmount(v[i])}
    PROVE  Addable(v, T) /\ Total(S, v) = SumOver(v, T)
  <1>1. T \in SUBSET WithAmount(v)
    BY DEF WithAmount
  <1>2. Addable(v, T)
    BY <1>1, PartSummable
  <1>3. MapThenSumSet(LAMBDA i : v[i], T) = SumOver(v, T)
    BY <1>2, MappedSum
  <1>4. QED
    BY <1>2, <1>3 DEF Total

\* What a conversion returns is an error or an amount that is not negative.
LEMMA ConvertedAmounts ==
    ASSUME NEW table \in Tables, NEW R \in Seq(Row), NEW i \in DOMAIN R,
           IsAmount(ConvertedWith(table, R, i))
    PROVE  ConvertedWith(table, R, i) \in Nat
  <1>1. R[i].amount \in Nat
    <2>1. R[i] \in Row
      BY ElementOfSeq, LenProperties
    <2>2. QED
      BY <2>1 DEF Row
  <1>2. CASE R[i].currency = Base
    BY <1>1, <1>2, Conversions
  <1>3. CASE /\ R[i].currency # Base
             /\ Quotes(table, R[i].currency) /\ Quotes(table, Base)
    <2>1. PICK a, b, c : a = R[i].amount /\ b = table[Base] /\ c = table[R[i].currency]
      OBVIOUS
    <2>2. a \in Nat /\ b \in Nat /\ c \in Nat /\ c # 0
      BY <1>1, <1>3, <2>1, RatesAssumption DEF Quotes
    <2>3. PICK n : n = a * b
      OBVIOUS
    <2>4. n \in Nat
      BY <2>2, <2>3
    <2>5. n \div c \in Nat
      BY <2>2, <2>4
    <2>6. CASE table = NoTable \/ DOMAIN table = {}
      BY <2>6, <1>3 DEF IsAmount, ConvertedWith, ConvertToBaseCurrency
    <2>7. CASE ~(table = NoTable \/ DOMAIN table = {})
      <3>1. ConvertedWith(table, R, i) = (a * b) \div c
        BY <1>3, <2>1, <2>7 DEF ConvertedWith, ConvertToBaseCurrency
      <3>2. QED
        BY <2>3, <2>5, <3>1
    <2>8. QED
      BY <2>6, <2>7
  <1>4. CASE /\ R[i].currency # Base
             /\ ~(Quotes(table, R[i].currency) /\ Quotes(table, Base))
    BY <1>4 DEF IsAmount, ConvertedWith, ConvertToBaseCurrency
  <1>5. QED
    BY <1>2, <1>3, <1>4

\* The list: every row it counts is of one of its categories.
LEMMA ListTotal ==
    ASSUME NEW C \in Seq(CategoryRow), NEW R, NEW v, Addable(v, WithAmount(v)), NEW filter,
           \A i \in DOMAIN v : R[i].category \in FlatCategories(C, filter)
    PROVE  SumOf(ExpensesByCategories(C, R, v, filter)) = SumOver(v, WithAmount(v))
  <1>1. PICK K, I : K = FlatCategories(C, filter) /\ I = WithAmount(v)
    OBVIOUS
  <1>2. IsFiniteSet(K)
    <2>1. K \subseteq DOMAIN C
      BY <1>1 DEF FlatCategories, ExpenseCategories, GetByUserID
    <2>2. QED
      BY <2>1, FiniteDomain, FS_Subset
  <1>3. PICK key : key = [i \in I |-> R[i].category]
    OBVIOUS
  <1>4. \A i \in I : key[i] \in K
    BY <1>1, <1>3 DEF WithAmount
  <1>5. ASSUME NEW c \in K
        PROVE  Total({i \in DOMAIN v : R[i].category = c}, v)
                 = SumOver(v, {i \in I : key[i] = c})
    <2>1. {i \in {j \in DOMAIN v : R[j].category = c} : IsAmount(v[i])} = {i \in I : key[i] = c}
      BY <1>1, <1>3 DEF WithAmount
    <2>2. QED
      BY <2>1, TotalIs
  <1>6. ExpensesByCategories(C, R, v, filter) = [c \in K |-> SumOver(v, {i \in I : key[i] = c})]
    BY <1>1, <1>5 DEF ExpensesByCategories
  <1>7. QED
    BY <1>1, <1>2, <1>4, <1>6, SumByKey, SumOfIs

\* The roll-up: every row of a root or of a root's child counts once, for that root.
Rolled(C, R, v) ==
    {i \in WithAmount(v) : /\ R[i].category \in ExpenseCategories(C)
                           /\ C[R[i].category].parent \in {NoCategory} \cup ExpenseRoots(C)}

LEMMA RootsAreRows ==
    ASSUME NEW C \in Seq(CategoryRow)
    PROVE  IsFiniteSet(ExpenseRoots(C)) /\ NoCategory \notin ExpenseRoots(C)
  <1>1. ExpenseRoots(C) \subseteq DOMAIN C
    BY DEF ExpenseRoots, ExpenseCategories, GetByUserID
  <1>2. NoCategory \notin DOMAIN C
    BY LenProperties DEF NoCategory
  <1>3. QED
    BY <1>1, <1>2, FiniteDomain, FS_Subset

LEMMA AggregateTotal ==
    ASSUME NEW C \in Seq(CategoryRow), NEW R, NEW v, Addable(v, WithAmount(v)),
           \A i \in WithAmount(v) : v[i] >= 0,
           NEW e, e = aggregateChildrenIntoParents(C, R, v)
    PROVE  /\ Addable(e, DOMAIN e) /\ \A p \in DOMAIN e : e[p] >= 0
           /\ NoCategory \notin DOMAIN e
           /\ SumOf(e) = SumOver(e, DOMAIN e)
           /\ SumOf(e) = SumOver(v, Rolled(C, R, v))
  <1>1. PICK K, I : K = ExpenseRoots(C) /\ I = Rolled(C, R, v)
    OBVIOUS
  <1>2. IsFiniteSet(K) /\ NoCategory \notin K
    BY <1>1, RootsAreRows
  <1>3. PICK key : key = [i \in I |-> IF R[i].category \in K THEN R[i].category
                                      ELSE C[R[i].category].parent]
    OBVIOUS
  <1>4. \A i \in I : key[i] \in K
    BY <1>1, <1>3 DEF Rolled, ExpenseRoots
  <1> DEFINE class(p) == {i \in I : key[i] = p}
             counted(p) == {i \in DOMAIN v : /\ R[i].category \in ExpenseCategories(C)
                                             /\ p \in {R[i].category, C[R[i].category].parent}}
  <1>5. I \in SUBSET WithAmount(v) /\ Addable(v, I)
    <2>1. I \in SUBSET WithAmount(v)
      BY <1>1 DEF Rolled
    <2>2. QED
      BY <2>1, PartSummable
  <1>6. ASSUME NEW p \in K
        PROVE  /\ Total(counted(p), v) = SumOver(v, class(p))
               /\ SumOver(v, class(p)) \in Int /\ SumOver(v, class(p)) >= 0
    <2>1. class(p) = {i \in counted(p) : IsAmount(v[i])}
      <3>1. ASSUME NEW i \in class(p) PROVE i \in counted(p) /\ IsAmount(v[i])
        BY <1>1, <1>3 DEF Rolled, WithAmount
      <3>2. ASSUME NEW i \in counted(p), IsAmount(v[i]) PROVE i \in class(p)
        <4>1. i \in WithAmount(v) /\ R[i].category \in ExpenseCategories(C)
          BY <3>2 DEF WithAmount
        <4>2. CASE R[i].category \in K
          <5>1. C[R[i].category].parent = NoCategory
            BY <1>1, <4>2 DEF ExpenseRoots
          <5>2. p = R[i].category
            BY <1>2, <5>1
          <5>3. QED
            BY <1>1, <1>3, <4>1, <4>2, <5>1, <5>2 DEF Rolled
        <4>3. CASE R[i].category \notin K
          BY <1>1, <1>3, <4>1, <4>3 DEF Rolled
        <4>4. QED
          BY <4>2, <4>3
      <3> HIDE DEF class
      <3>3. class(p) \subseteq DOMAIN v
        BY <3>1
      <3>4. QED
        BY <3>1, <3>2
    <2>2. PICK S, T : S = counted(p) /\ T = class(p)
      OBVIOUS
    <2>3. S \subseteq DOMAIN v /\ T = {i \in S : IsAmount(v[i])}
      BY <2>1, <2>2
    <2>4. T \in SUBSET WithAmount(v)
      BY <2>3 DEF WithAmount
    <2>5. Addable(v, T) /\ Total(S, v) = SumOver(v, T)
      BY <2>3, TotalIs
    <2>6. SumOver(v, T) \in Int /\ SumOver(v, T) >= 0
      BY <2>4, <2>5, PartSummable, SumOfNaturals
    <2>7. QED
      BY <2>2, <2>5, <2>6
  <1>7. PICK totals : totals = [p \in K |-> SumOver(v, class(p))]
    OBVIOUS
  <1>8. Summable(totals) /\ SumFunction(totals) = SumOver(v, I)
    BY <1>2, <1>4, <1>5, <1>7, SumByKey
  <1>9. totals = [p \in ExpenseRoots(C) |-> Total(counted(p), v)]
    BY <1>1, <1>6, <1>7
  <1>10. PICK kept : kept = {q \in K : totals[q] # 0}
    OBVIOUS
  <1>11. e = [p \in kept |-> totals[p]]
    <2>1. DOMAIN totals = K
      BY <1>7
    <2> HIDE DEF counted
    <2>2. QED
      BY <1>9, <1>10, <2>1 DEF aggregateChildrenIntoParents, counted
  <1>12. Addable(totals, K) /\ kept \in SUBSET K /\ totals = [p \in K |-> totals[p]]
    BY <1>2, <1>6, <1>7, <1>10 DEF Addable
  <1>13. SumFunction(e) = SumOver(v, I)
    <2>1. PICK zero : zero = K \ kept
      OBVIOUS
    <2>2. \A p \in zero : totals[p] = 0
      BY <1>10, <2>1
    <2>3. Addable(totals, zero) /\ zero \in SUBSET K
      BY <1>12, <2>1, PartSummable
    <2>4. SumOver(totals, zero) = 0
      BY <2>2, <2>3, SumOfZeros
    <2>5. K = kept \cup zero /\ kept \cap zero = {}
      BY <1>12, <2>1
    <2>6. SumOver(totals, K) = SumOver(totals, kept) + SumOver(totals, zero)
      BY <1>12, <2>5, SumOverUnion
    <2>7. SumOver(totals, kept) \in Int
      BY <1>12, PartSummable
    <2>8. SumOver(totals, K) = SumFunction(totals) /\ SumOver(totals, kept) = SumFunction(e)
      BY <1>11, <1>12 DEF SumOver
    <2>9. QED
      BY <1>8, <2>4, <2>6, <2>7, <2>8
  <1>14. Addable(e, DOMAIN e)
    <2>1. DOMAIN e = kept /\ \A p \in kept : e[p] = totals[p]
      BY <1>11
    <2>2. Addable(totals, kept)
      BY <1>12, PartSummable
    <2>3. QED
      BY <2>1, <2>2 DEF Addable
  <1>15. \A p \in DOMAIN e : e[p] >= 0 /\ p # NoCategory
    BY <1>2, <1>6, <1>7, <1>10, <1>11
  <1>16. SumFunction(e) = SumOver(e, DOMAIN e)
    <2>1. e = [p \in DOMAIN e |-> e[p]]
      BY <1>11
    <2>2. QED
      BY <2>1 DEF SumOver
  <1>17. QED
    BY <1>1, <1>13, <1>14, <1>15, <1>16, SumOfIs

\* What is small is merged, not lost.
LEMMA ThresholdTotal ==
    ASSUME NEW e, Addable(e, DOMAIN e), SumOf(e) = SumOver(e, DOMAIN e),
           \A p \in DOMAIN e : e[p] >= 0, NoCategory \notin DOMAIN e
    PROVE  SumOf(applyOtherThreshold(e)) = SumOf(e)
  <1>1. PICK sum : sum = SumOf(e)
    OBVIOUS
  <1>2. PICK small : small = {p \in DOMAIN e : 50 * e[p] < sum}
    OBVIOUS
  <1>3. PICK big : big = (DOMAIN e) \ small
    OBVIOUS
  <1>4. PICK other : other = SumOf([p \in small |-> e[p]])
    OBVIOUS
  <1>5. /\ small \in SUBSET DOMAIN e /\ big \in SUBSET DOMAIN e
        /\ DOMAIN e = big \cup small /\ big \cap small = {}
    BY <1>2, <1>3
  <1>6. sum = SumOver(e, big) + SumOver(e, small)
    BY <1>1, <1>5, SumOverUnion
  <1>7. other = SumOver(e, small) /\ other \in Int /\ other >= 0 /\ SumOver(e, big) \in Int
    <2>1. other = SumOver(e, small)
      BY <1>4, SumOfIs DEF SumOver
    <2>2. Addable(e, small) /\ SumOver(e, small) \in Int /\ SumOver(e, big) \in Int
      BY <1>5, PartSummable
    <2>3. SumOver(e, small) >= 0
      BY <1>5, <2>2, SumOfNaturals
    <2>4. QED
      BY <2>1, <2>2, <2>3
  <1>8. CASE sum <= 0
    BY <1>1, <1>8 DEF applyOtherThreshold
  <1>9. CASE ~(sum <= 0)
    <2>1. PICK D : D = big \cup (IF other > 0 THEN {NoCategory} ELSE {})
      OBVIOUS
    <2>2. PICK r : r = [p \in D |-> IF p = NoCategory THEN other ELSE e[p]]
      OBVIOUS
    <2>3. applyOtherThreshold(e) = r
      BY <1>1, <1>2, <1>3, <1>4, <1>9, <2>1, <2>2 DEF applyOtherThreshold
    <2>4. \A p \in big : r[p] = e[p]
      BY <1>5, <2>1, <2>2
    <2>5. SumOver(r, big) = SumOver(e, big)
      BY <2>4, SumOverSame
    <2>6. Addable(r, D)
      <3>1. IsFiniteSet(big)
        BY <1>5, PartSummable DEF Addable
      <3>2. IsFiniteSet(D)
        BY <2>1, <3>1, FS_AddElement
      <3>3. \A p \in big : e[p] \in Int
        BY <1>5 DEF Addable
      <3>4. ASSUME NEW p \in D PROVE r[p] \in Int
        BY <1>7, <2>1, <2>2, <2>4, <3>3
      <3>5. QED
        BY <3>2, <3>4 DEF Addable
    <2>7. SumFunction(r) = SumOver(r, D)
      <3>1. r = [p \in D |-> r[p]]
        BY <2>2
      <3>2. QED
        BY <3>1 DEF SumOver
    <2>8. CASE other > 0
      <3>1. D = big \cup {NoCategory} /\ NoCategory \in D \ big /\ big \in SUBSET D
        BY <1>5, <2>1, <2>8
      <3>2. r[NoCategory] = other
        BY <2>2, <3>1
      <3>3. SumOver(r, D) = SumOver(r, big) + other
        BY <2>6, <3>1, <3>2, SumOverOneMore
      <3>4. QED
        BY <1>1, <1>6, <1>7, <2>3, <2>5, <2>7, <3>3, SumOfIs
    <2>9. CASE ~(other > 0)
      <3>1. D = big /\ other = 0
        BY <1>7, <2>1, <2>9
      <3>2. SumOver(e, big) = sum
        BY <1>6, <1>7, <3>1
      <3>3. QED
        BY <1>1, <2>3, <2>5, <2>7, <3>1, <3>2, SumOfIs
    <2>10. QED
      BY <2>8, <2>9
  <1>10. QED
    BY <1>8, <1>9

\* The expenses of the cash flow.
Paid(R, v) == {i \in WithAmount(v) : R[i].isIncome = FALSE}

LEMMA FlowTotal ==
    ASSUME NEW R, NEW v, Addable(v, WithAmount(v)), NEW period,
           NEW flow, flow = CashFlowReport(R, v, period)
    PROVE  ExpensesOf(flow) = SumOver(v, Paid(R, v))
  <1>1. PICK I, K : I = Paid(R, v) /\ K = DOMAIN flow
    OBVIOUS
  <1>2. K = {PeriodKey(period, R[i].at) : i \in WithAmount(v)}
    BY <1>1 DEF CashFlowReport, WithAmount
  <1>3. IsFiniteSet(K)
    <2>1. PICK f : f = [i \in WithAmount(v) |-> PeriodKey(period, R[i].at)]
      OBVIOUS
    <2>2. f \in Surjection(WithAmount(v), K)
      BY <1>2, <2>1 DEF Surjection
    <2>3. IsFiniteSet(WithAmount(v))
      BY DEF Addable
    <2>4. QED
      BY <2>2, <2>3, FS_Surjection
  <1>4. PICK keyOf : keyOf = [i \in I |-> PeriodKey(period, R[i].at)]
    OBVIOUS
  <1>5. \A i \in I : keyOf[i] \in K
    BY <1>1, <1>2, <1>4 DEF Paid
  <1>6. Addable(v, I)
    <2>1. I \in SUBSET WithAmount(v)
      BY <1>1 DEF Paid
    <2>2. QED
      BY <2>1, PartSummable
  <1>7. ASSUME NEW k \in K
        PROVE  flow[k].expenses = SumOver(v, {i \in I : keyOf[i] = k})
    <2>1. PICK S : S = {i \in DOMAIN v : /\ PeriodKey(period, R[i].at) = k
                                         /\ R[i].isIncome = FALSE}
      OBVIOUS
    <2>2. flow[k].expenses = Total(S, v)
      BY <1>1, <1>2, <2>1 DEF CashFlowReport, WithAmount
    <2>3. S \subseteq DOMAIN v /\ {i \in I : keyOf[i] = k} = {i \in S : IsAmount(v[i])}
      BY <1>1, <1>4, <2>1 DEF Paid, WithAmount
    <2>4. QED
      BY <2>2, <2>3, TotalIs
  <1>8. [k \in K |-> flow[k].expenses] = [k \in K |-> SumOver(v, {i \in I : keyOf[i] = k})]
    BY <1>7
  <1>9. PICK h : h = [k \in K |-> flow[k].expenses]
    OBVIOUS
  <1>10. Summable(h) /\ SumFunction(h) = SumOver(v, I)
    BY <1>3, <1>5, <1>6, <1>8, <1>9, SumByKey
  <1>11. Addable(h, K)
    BY <1>9, <1>10 DEF Addable, Summable
  <1>12. ExpensesOf(flow) = SumFunction(h)
    BY <1>1, <1>9, <1>11, ExpensesSum
  <1>13. QED
    BY <1>1, <1>10, <1>12

-----------------------------------------------------------------------------
(* One table, one set of rows, and what the reports make of them.           *)

Converted(table, T) == [i \in T |-> ConvertedWith(table, rows, i)]

\* Amounts of rows can be added up, and none is negative.
LEMMA ConvertedAdd ==
    ASSUME rows \in Seq(Row), NEW table \in Tables, NEW T \in SUBSET DOMAIN rows,
           NEW v, v = Converted(table, T)
    PROVE  /\ Addable(v, WithAmount(v)) /\ \A i \in WithAmount(v) : v[i] >= 0
           /\ WithAmount(v) = {i \in T : IsAmount(ConvertedWith(table, rows, i))}
           /\ DOMAIN v = T /\ \A i \in T : v[i] = ConvertedWith(table, rows, i)
  <1>1. /\ DOMAIN v = T /\ \A i \in T : v[i] = ConvertedWith(table, rows, i)
        /\ WithAmount(v) = {i \in T : IsAmount(ConvertedWith(table, rows, i))}
    BY DEF Converted, WithAmount
  <1>2. \A i \in WithAmount(v) : v[i] \in Nat
    BY <1>1, ConvertedAmounts
  <1>3. IsFiniteSet(WithAmount(v))
    <2>1. IsFiniteSet(DOMAIN rows)
      BY FiniteDomain
    <2>2. WithAmount(v) \in SUBSET DOMAIN rows
      BY <1>1
    <2>3. QED
      BY <2>1, <2>2, FS_Subset
  <1>4. QED
    BY <1>1, <1>2, <1>3 DEF Addable

\* The list and the roll-up count the same rows.
LEMMA ListedIsRolled ==
    ASSUME CatsTyped, rows \in Seq(Row), NEW table \in Tables, NEW S \in SUBSET DOMAIN rows, NEW filter,
           NEW kind \in {"data", "diagram"}, kind = "diagram" => filter = {},
           NEW v, v = Converted(table, Selected("expenses", cats, rows, S, filter)),
           NEW w, w = Converted(table, Selected(kind, cats, rows, S, filter))
    PROVE  /\ SumOf(ExpensesByCategories(cats, rows, v, filter)) = SumOver(v, WithAmount(v))
           /\ SumOf(applyOtherThreshold(aggregateChildrenIntoParents(cats, rows, w)))
                = SumOver(v, WithAmount(v))
  <1>1. PICK A, B : /\ A = Selected("expenses", cats, rows, S, filter)
                    /\ B = Selected(kind, cats, rows, S, filter)
    OBVIOUS
  <1>2. A = {i \in S : Spent(rows[i]) /\ rows[i].category \in FlatCategories(cats, filter)}
    BY <1>1 DEF Selected
  <1>3. B = {i \in S : /\ Spent(rows[i])
                       /\ \/ filter = {}
                          \/ /\ rows[i].category \in ExpenseCategories(cats)
                             /\ PassesFilter(cats, rows[i].category, filter)}
    <2>1. CASE kind = "data"
      BY <1>1, <2>1 DEF Selected
    <2>2. CASE kind = "diagram"
      BY <1>1, <2>2 DEF Selected
    <2>3. QED
      BY <2>1, <2>2
  <1>4. A \in SUBSET DOMAIN rows /\ B \in SUBSET DOMAIN rows
    BY <1>2, <1>3
  <1>5. /\ Addable(v, WithAmount(v))
        /\ WithAmount(v) = {i \in A : IsAmount(ConvertedWith(table, rows, i))}
        /\ DOMAIN v = A /\ \A i \in A : v[i] = ConvertedWith(table, rows, i)
    BY <1>1, <1>4, ConvertedAdd
  <1>6. /\ Addable(w, WithAmount(w)) /\ \A i \in WithAmount(w) : w[i] >= 0
        /\ WithAmount(w) = {i \in B : IsAmount(ConvertedWith(table, rows, i))}
        /\ DOMAIN w = B /\ \A i \in B : w[i] = ConvertedWith(table, rows, i)
    BY <1>1, <1>4, ConvertedAdd
  <1>7. cats \in Seq(CategoryRow)
    BY DEF CatsTyped
  <1>8. SumOf(ExpensesByCategories(cats, rows, v, filter)) = SumOver(v, WithAmount(v))
    <2>1. \A i \in DOMAIN v : rows[i].category \in FlatCategories(cats, filter)
      BY <1>2, <1>5
    <2>2. QED
      BY <1>5, <1>7, <2>1, ListTotal
  <1>9. Rolled(cats, rows, w) = WithAmount(v)
    <2>1. Rolled(cats, rows, w) =
            {i \in B : /\ IsAmount(ConvertedWith(table, rows, i))
                       /\ rows[i].category \in ExpenseCategories(cats)
                       /\ cats[rows[i].category].parent \in {NoCategory} \cup ExpenseRoots(cats)}
      BY <1>6 DEF Rolled
    <2>2. \A c \in ExpenseCategories(cats) : filter = {} => PassesFilter(cats, c, filter)
      BY DEF PassesFilter
    <2>3. QED
      BY <1>2, <1>3, <1>5, <2>1, <2>2 DEF FlatCategories
  <1>10. PICK e : e = aggregateChildrenIntoParents(cats, rows, w)
    OBVIOUS
  <1>11. /\ Addable(e, DOMAIN e) /\ \A p \in DOMAIN e : e[p] >= 0
         /\ NoCategory \notin DOMAIN e /\ SumOf(e) = SumOver(e, DOMAIN e)
         /\ SumOf(e) = SumOver(w, Rolled(cats, rows, w))
    <2>1. Addable(w, WithAmount(w)) /\ \A i \in WithAmount(w) : w[i] >= 0
      BY <1>6
    <2>2. QED
      BY ONLY <1>7, <1>10, <2>1, AggregateTotal
  <1>12. SumOf(applyOtherThreshold(e)) = SumOf(e)
    BY <1>11, ThresholdTotal
  <1>13. SumOver(w, WithAmount(v)) = SumOver(v, WithAmount(v))
    <2>1. \A i \in WithAmount(v) : w[i] = v[i]
      <3>1. WithAmount(v) \subseteq B
        BY <1>9, <1>6 DEF Rolled
      <3>2. QED
        BY <1>5, <1>6, <3>1
    <2>2. QED
      BY <2>1, SumOverSame
  <1>14. QED
    BY <1>8, <1>9, <1>10, <1>11, <1>12, <1>13

\* What is listed was paid.
LEMMA ListedIsPaid ==
    ASSUME rows \in Seq(Row), NEW table \in Tables, NEW S \in SUBSET DOMAIN rows,
           NEW v, v = Converted(table, Selected("expenses", cats, rows, S, {})),
           NEW w, w = Converted(table, Selected("cashflow", cats, rows, S, {}))
    PROVE  Addable(w, WithAmount(w)) /\ SumOver(v, WithAmount(v)) <= SumOver(w, Paid(rows, w))
  <1>1. PICK A, B : /\ A = Selected("expenses", cats, rows, S, {})
                    /\ B = Selected("cashflow", cats, rows, S, {})
    OBVIOUS
  <1>2. /\ A = {i \in S : Spent(rows[i]) /\ rows[i].category \in FlatCategories(cats, {})}
        /\ B = {i \in S : Counted(rows[i])}
    BY <1>1 DEF Selected
  <1>3. A \in SUBSET DOMAIN rows /\ B \in SUBSET DOMAIN rows
    BY <1>2
  <1>4. /\ Addable(v, WithAmount(v))
        /\ WithAmount(v) = {i \in A : IsAmount(ConvertedWith(table, rows, i))}
        /\ DOMAIN v = A /\ \A i \in A : v[i] = ConvertedWith(table, rows, i)
    BY <1>1, <1>3, ConvertedAdd
  <1>5. /\ Addable(w, WithAmount(w)) /\ \A i \in WithAmount(w) : w[i] >= 0
        /\ WithAmount(w) = {i \in B : IsAmount(ConvertedWith(table, rows, i))}
        /\ DOMAIN w = B /\ \A i \in B : w[i] = ConvertedWith(table, rows, i)
    BY <1>1, <1>3, ConvertedAdd
  <1>6. PICK listed, paid, rest : /\ listed = WithAmount(v) /\ paid = Paid(rows, w)
                                  /\ rest = paid \ listed
    OBVIOUS
  <1>7. listed \subseteq paid /\ paid \subseteq WithAmount(w)
    <2>1. \A i \in A : i \in B /\ rows[i].isIncome = FALSE
      <3>1. \A i \in DOMAIN rows : rows[i].isIncome \in BOOLEAN
        <4>1. \A i \in DOMAIN rows : rows[i] \in Row
          BY ElementOfSeq, LenProperties
        <4>2. QED
          BY <4>1 DEF Row
      <3>2. QED
        BY <1>2, <3>1 DEF Spent
    <2>2. QED
      BY <1>4, <1>5, <1>6, <2>1 DEF Paid
  <1>8. SumOver(w, paid) = SumOver(w, listed) + SumOver(w, rest)
    <2>1. paid = listed \cup rest /\ listed \cap rest = {}
      BY <1>6, <1>7
    <2>2. Addable(w, paid)
      BY <1>5, <1>7, PartSummable
    <2>3. QED
      BY <2>1, <2>2, SumOverUnion
  <1>9. SumOver(w, rest) \in Int /\ SumOver(w, rest) >= 0 /\ SumOver(w, listed) \in Int
    <2>1. rest \in SUBSET WithAmount(w) /\ listed \in SUBSET WithAmount(w)
      BY <1>6, <1>7
    <2>2. Addable(w, rest) /\ SumOver(w, rest) \in Int /\ SumOver(w, listed) \in Int
      BY <1>5, <2>1, PartSummable
    <2>3. \A i \in rest : w[i] >= 0
      BY <1>5, <2>1
    <2>4. QED
      BY <2>2, <2>3, SumOfNaturals
  <1>10. SumOver(v, listed) = SumOver(w, listed)
    <2>1. \A i \in listed : v[i] = w[i]
      BY <1>4, <1>5, <1>6, <1>7
    <2>2. QED
      BY <2>1, SumOverSame
  <1>11. QED
    BY <1>5, <1>6, <1>8, <1>9, <1>10

\* Whatever categories, rows and rates there are, the reports on expenses tell the same
\* total, and never more than the cash flow, by day or by month.
\* (ExpensesByCategories, DiagramData, ExpensesData and CashFlowReport, services/reports.)
THEOREM InsightsTotalsAgree == InsightsSpec => []TotalsAgree
  <1>1. IInv => TotalsAgree
    <2> SUFFICES ASSUME IInv, NEW table \in Tables, NEW request \in Requests
                 PROVE
          LET S       == GetByUserIDBetween(rows, request.first, request.last)
              v(kind, filter) == Converted(table, Selected(kind, cats, rows, S, filter))
              list(filter)    == SumOf(ExpensesByCategories(cats, rows, v("expenses", filter), filter))
              flow    == CashFlowReport(rows, v("cashflow", {}), "monthly")
              daily   == CashFlowReport(rows, v("cashflow", {}), "daily")
          IN  /\ list(request.filter) = SumOf(ExpensesData(cats, rows, v("data", request.filter)))
              /\ list({}) = SumOf(DiagramData(cats, rows, v("diagram", {})))
              /\ list({}) <= ExpensesOf(flow)
              /\ ExpensesOf(flow) = ExpensesOf(daily)
      BY DEF TotalsAgree, Converted
    <2>1. CatsTyped /\ rows \in Seq(Row)
      BY DEF IInv, ReportsTyped
    <2>2. PICK S : S = GetByUserIDBetween(rows, request.first, request.last)
      OBVIOUS
    <2>3. S \in SUBSET DOMAIN rows
      BY <2>2 DEF GetByUserIDBetween
    <2>4. PICK asked : asked = request.filter
      OBVIOUS
    <2> DEFINE v(kind, filter) == Converted(table, Selected(kind, cats, rows, S, filter))
    <2>5. PICK expenses, some, data, diagram, cashflow :
              /\ expenses = v("expenses", {}) /\ some = v("expenses", asked)
              /\ data = v("data", asked) /\ diagram = v("diagram", {})
              /\ cashflow = v("cashflow", {})
      OBVIOUS
    <2>6. SumOf(ExpensesByCategories(cats, rows, some, asked)) = SumOf(ExpensesData(cats, rows, data))
      BY <2>1, <2>3, <2>5, ListedIsRolled DEF ExpensesData
    <2>7. /\ SumOf(ExpensesByCategories(cats, rows, expenses, {})) = SumOver(expenses, WithAmount(expenses))
          /\ SumOf(DiagramData(cats, rows, diagram)) = SumOver(expenses, WithAmount(expenses))
      BY <2>1, <2>3, <2>5, ListedIsRolled DEF DiagramData
    <2>8. /\ Addable(cashflow, WithAmount(cashflow))
          /\ SumOver(expenses, WithAmount(expenses)) <= SumOver(cashflow, Paid(rows, cashflow))
      BY <2>1, <2>3, <2>5, ListedIsPaid
    <2>9. \A period : ExpensesOf(CashFlowReport(rows, cashflow, period)) = SumOver(cashflow, Paid(rows, cashflow))
      BY <2>8, FlowTotal
    <2>10. /\ SumOf(ExpensesByCategories(cats, rows, expenses, {})) = SumOf(DiagramData(cats, rows, diagram))
           /\ SumOf(ExpensesByCategories(cats, rows, expenses, {}))
                <= ExpensesOf(CashFlowReport(rows, cashflow, "monthly"))
           /\ ExpensesOf(CashFlowReport(rows, cashflow, "monthly"))
                = ExpensesOf(CashFlowReport(rows, cashflow, "daily"))
      BY <2>7, <2>8, <2>9
    <2>11. QED
      BY <2>2, <2>4, <2>5, <2>6, <2>10
  <1>2. QED
    BY <1>1, InsightsInvariant, PTL

=============================================================================
