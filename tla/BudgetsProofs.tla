---------------------------- MODULE BudgetsProofs ----------------------------
(***************************************************************************)
(* Proofs about module Budgets, for any users, rows, bodies, days, faults   *)
(* and bounds.  That a budget is copied once, that a copy continues its      *)
(* budget and that amounts are fresh when nothing runs hold for one          *)
(* goroutine at a time (Sequential).                                         *)
(***************************************************************************)
EXTENDS BudgetsProps, FiniteSums, SequenceTheorems

-----------------------------------------------------------------------------
(* Types, and what the goroutines rely on.                                  *)

Row == [user : Users, start : Int, end : Int, categories : {b.categories : b \in Bodies},
        period : Periods, repeat : BOOLEAN, archived : BOOLEAN, deleted : BOOLEAN, origin : Nat]

\* Only a budget of a free period can go back to days before day 0.
Dated(b) == b.period # "CUSTOM" => b.start \in Nat /\ b.end \in Nat

LoadedRow == [id : Nat, row : Row]

Work == [at : {"idle", "read", "write", "copy", "archive"}, task : Task \cup {NoTask},
         todo : SUBSET LoadedRow, cur : Nat, total : Int, failed : BOOLEAN]

\* The budgets a goroutine refers to exist.
Refers(r) ==
    /\ \A b \in r.todo : b.id \in DOMAIN budgets /\ Dated(b.row)
    /\ r.cur \in DOMAIN budgets \cup {NoBudget}
    /\ r.at \in {"write", "archive"} => r.cur # NoBudget

BudgetsTyped ==
    /\ budgets \in Seq(Row)
    /\ \A i \in DOMAIN budgets : budgets[i].origin < i /\ Dated(budgets[i])
    /\ collected \in Seq(Int) /\ Len(collected) = Len(budgets)
    /\ excused \subseteq DOMAIN budgets

QueueTyped == IsABag(queue) /\ BagToSet(queue) \subseteq Task

ActorsTyped == actor \in [Actors -> Work] /\ \A a \in Actors : Refers(actor[a])

CountersTyped ==
    /\ rows \in [Slots -> Expenses \cup {NoExpense}]
    /\ today \in Days /\ requests \in 0..MaxRequests /\ faults \in 0..MaxFaults

Typed == BudgetsTyped /\ QueueTyped /\ ActorsTyped /\ CountersTyped

\* Requests and tasks run one after the other.
Sequential == \A a, b \in Actors : a = b

-----------------------------------------------------------------------------
(* What holds when they do.                                                 *)

\* The columns that only a request of update changes.
Window(b) == [user |-> b.user, start |-> b.start, end |-> b.end, categories |-> b.categories,
              period |-> b.period, origin |-> b.origin]

\* A goroutine has loaded a budget once, and it has not changed since but for its flags.
AsLoaded(r) ==
    /\ \A b \in r.todo : Window(b.row) = Window(budgets[b.id]) /\ b.id # r.cur
    /\ \A b, c \in r.todo : b.id = c.id => b = c
    /\ r.at \in {"read", "copy"} => r.cur = NoBudget
    /\ r.at = "idle" => r = Idle

\* A recalculation is one of a request, or of the task of the budgets' user.
ForUser(r) ==
    /\ r.at \in {"read", "write"} =>
          /\ r.task # NoTask =>
                /\ r.task.type = TypeBudgetUserUpdate
                /\ \A b \in r.todo : b.row.user = r.task.user
                /\ r.cur # NoBudget => budgets[r.cur].user = r.task.user
    /\ r.at \in {"copy", "archive"} => r.task.type # TypeBudgetUserUpdate

OneByOne == \A a \in Actors : AsLoaded(actor[a]) /\ ForUser(actor[a])

Has(r, i) == \E b \in r.todo : b.id = i

\* Budget i waits to be copied, or has been copied and waits to be archived.
ToCopy(i) == \E a \in Actors : actor[a].at \in {"copy", "archive"} /\ Has(actor[a], i)
ToArchive(i) == \E a \in Actors : actor[a].at = "archive" /\ actor[a].cur = i

Copiable(i) == ToCopy(i) \/ ~(budgets[i].archived \/ ToArchive(i))

\* A budget that can still be copied has one copy for each fault at most.
CopiedOnce(i) ==
    /\ Cardinality(Copies(i)) <= 1 + faults
    /\ Copiable(i) => Cardinality(Copies(i)) <= faults

AllCopiedOnce == \A i \in DOMAIN budgets : CopiedOnce(i)

\* A goroutine is going to recalculate budget i of user u, or to try again.
Recalculates(r, u, i) ==
    \/ /\ r.at \in {"read", "write"}
       /\ Has(r, i) \/ (r.failed /\ r.task.type = TypeBudgetUserUpdate /\ r.task.user = u)
    \/ r.at = "write" /\ r.cur = i

Known(u, i) == Queued(u) \/ i \in excused

\* The amount of a budget on show is right, or known to be out of date, or will be
\* recalculated; and so is the one about to be written.
Healing(u, i) ==
    /\ Known(u, i) \/ Fresh(i) \/ \E a \in Actors : Recalculates(actor[a], u, i)
    /\ \A a \in Actors : actor[a].at = "write" /\ actor[a].cur = i =>
          Known(u, i) \/ actor[a].total = Total(budgets[i])

AllHealing == \A u \in Users : \A i \in Shown(u) : Healing(u, i)

-----------------------------------------------------------------------------
(* The calendar, from day 0 on.                                             *)

Months == 1..12

LeapDay(y, m) == IF m > 2 /\ Leap(y) THEN 1 ELSE 0

\* Only the months of a calendar are looked up in DaysBefore.
LEMMA DayIs ==
    ASSUME NEW y \in Int, NEW m \in Months, NEW d \in Int
    PROVE  /\ DayIn[<<y, m, d>>] = YearsBefore(y) + DaysBefore[m] + LeapDay(y, m) + d
           /\ DaysBefore[m] \in Nat /\ LeapDay(y, m) \in 0..1 /\ YearsBefore(y) \in Int
           /\ DayIn[<<y, m, d>>] \in Int
  <1>1. DayIn[<<y, m, d>>] = YearsBefore(y) + DaysBefore[m] + LeapDay(y, m) + d
    BY DEF DayIn, LeapDay, Months
  <1>2. DaysBefore[m] \in Nat
    BY DEF DaysBefore, Months
  <1>3. LeapDay(y, m) \in 0..1
    BY DEF LeapDay
  <1>4. YearsBefore(y) \in Int
    BY DEF YearsBefore
  <1>5. QED
    BY <1>1, <1>2, <1>3, <1>4

\* A month has 28 days at least; the next one begins where it ends.
LEMMA MonthLength ==
    ASSUME NEW y \in Int, NEW m \in 1..11
    PROVE  DaysBefore[m + 1] + LeapDay(y, m + 1) >= DaysBefore[m] + LeapDay(y, m) + 28
  <1>1. DaysBefore[m + 1] >= DaysBefore[m] + 28
    BY DEF DaysBefore
  <1>2. LeapDay(y, m + 1) >= LeapDay(y, m)
    BY DEF LeapDay
  <1>3. m \in Months /\ m + 1 \in Months
    BY DEF Months
  <1>4. DaysBefore[m] \in Nat /\ DaysBefore[m + 1] \in Nat
    BY <1>3, DayIs
  <1>5. LeapDay(y, m) \in 0..1 /\ LeapDay(y, m + 1) \in 0..1
    BY <1>3, DayIs
  <1>6. QED
    BY <1>1, <1>2, <1>4, <1>5

\* December ends with the year, which has 365 or 366 days.
LEMMA YearLength ==
    ASSUME NEW y \in Int
    PROVE  YearsBefore(y + 1) - YearsBefore(y) = IF Leap(y) THEN 366 ELSE 365
  <1>1. YearsBefore(y + 1) = 365 * y + y \div 4 - y \div 100 + y \div 400
    BY DEF YearsBefore
  <1>2. (y % 4 = 0 => y \div 4 = (y - 1) \div 4 + 1) /\ (y % 4 # 0 => y \div 4 = (y - 1) \div 4)
    OBVIOUS
  <1>3. (y % 100 = 0 => y \div 100 = (y - 1) \div 100 + 1) /\ (y % 100 # 0 => y \div 100 = (y - 1) \div 100)
    OBVIOUS
  <1>4. (y % 400 = 0 => y \div 400 = (y - 1) \div 400 + 1) /\ (y % 400 # 0 => y \div 400 = (y - 1) \div 400)
    OBVIOUS
  <1>5. (y % 400 = 0 => y % 100 = 0) /\ (y % 100 = 0 => y % 4 = 0)
    OBVIOUS
  <1>6. YearsBefore(y) = 365 * y - 365 + (y - 1) \div 4 - (y - 1) \div 100 + (y - 1) \div 400
    BY DEF YearsBefore
  <1>7. QED
    BY <1>1, <1>2, <1>3, <1>4, <1>5, <1>6 DEF Leap

LEMMA YearsGrow ==
    ASSUME NEW y \in Int, NEW z \in Int, y < z
    PROVE  YearsBefore(y) < YearsBefore(z)
  BY DEF YearsBefore

InYear(n, y) == DayIn[<<y, 1, 1>>] <= n /\ n < DayIn[<<y + 1, 1, 1>>]

InMonth(n, y, m) == DayIn[<<y, m, 1>>] <= n /\ n < DayNumber(y, m + 1, 1)

LEMMA NewYear ==
    ASSUME NEW y \in Int
    PROVE  DayIn[<<y, 1, 1>>] = YearsBefore(y) + 1 /\ YearsBefore(y) \in Int
  <1>1. 1 \in Months
    BY DEF Months
  <1>2. LeapDay(y, 1) = 0 /\ DaysBefore[1] = 0
    BY DEF LeapDay, DaysBefore
  <1>3. QED
    BY <1>1, <1>2, DayIs

\* Every day from 0 on lies in the year that Year finds.
LEMMA YearIs ==
    ASSUME NEW n \in Nat
    PROVE  Year[n] \in Int /\ InYear(n, Year[n])
  <1> DEFINE low == n \div 366
             high == n \div 365 + 1
             S == {y \in low..high : DayIn[<<y, 1, 1>>] <= n}
             L == {p \in S \X S : p[1] >= p[2]}
  <1>1. low \in Nat /\ high \in Nat /\ low <= high
    OBVIOUS
  <1>2. low \in S
    <2>1. YearsBefore(low) + 1 <= n
      <3>1. PICK a : a = low - 1
        OBVIOUS
      <3>2. a \in Int /\ a >= -1 /\ 366 * a + 366 <= n
        BY <3>1
      <3>3. a \div 4 - a \div 100 + a \div 400 <= a
        BY <3>2
      <3>4. YearsBefore(low) = 365 * a + a \div 4 - a \div 100 + a \div 400
        BY <3>1 DEF YearsBefore
      <3>5. QED
        BY <3>2, <3>3, <3>4
    <2>2. QED
      BY <1>1, <2>1, NewYear
  <1>3. n < DayIn[<<high + 1, 1, 1>>]
    <2>1. YearsBefore(high + 1) >= 365 * high
      <3>1. high \div 4 - high \div 100 + high \div 400 >= 0
        BY <1>1
      <3>2. QED
        BY <1>1, <3>1 DEF YearsBefore
    <2>2. 365 * high > n
      OBVIOUS
    <2>3. QED
      BY <1>1, <2>1, <2>2, NewYear
  <1>4. PICK y \in S : \A z \in S : y >= z
    <2>1. IsFiniteSet(S)
      <3>1. IsFiniteSet(low..high) /\ S \subseteq low..high
        BY <1>1, FS_Interval
      <3>2. QED
        <4> HIDE DEF S, low, high
        <4>1. QED
          BY <3>1, FS_Subset
    <2>2. \A x, z \in S : <<x, z>> \in L \/ <<z, x>> \in L
      OBVIOUS
    <2>3. \A x, z, w \in S : <<x, z>> \in L /\ <<z, w>> \in L => <<x, w>> \in L
      OBVIOUS
    <2>4. \E x \in S : \A z \in S : <<x, z>> \in L
      <3> HIDE DEF S, L
      <3>1. QED
        BY <1>2, <2>1, <2>2, <2>3, FirstOfAFiniteSet
    <2>5. QED
      BY <2>4, ZenonT(30)
  <1>5. InYear(n, y)
    <2>1. CASE y = high
      BY <1>3, <2>1 DEF InYear
    <2>2. CASE y # high
      <3>1. y + 1 \in low..high /\ y + 1 \notin S
        BY <1>1, <1>4, <2>2
      <3>2. DayIn[<<y + 1, 1, 1>>] \in Int
        BY <1>1, NewYear
      <3>3. QED
        BY <1>4, <3>1, <3>2 DEF InYear
    <2>3. QED
      BY <2>1, <2>2
  <1>6. Year[n] \in low..high /\ InYear(n, Year[n])
    <2>1. \E z \in low..high : InYear(n, z)
      BY <1>4, <1>5
    <2>2. Year[n] = CHOOSE z \in low..high : InYear(n, z)
      BY DEF Year, InYear
    <2>3. QED
      BY <2>1, <2>2
  <1>7. QED
    BY <1>1, <1>6

\* and in no other.
LEMMA OneYear ==
    ASSUME NEW n \in Int, NEW y \in Int, NEW z \in Int, InYear(n, y), InYear(n, z)
    PROVE  y = z
  <1>1. \A w \in Int : DayIn[<<w, 1, 1>>] = YearsBefore(w) + 1 /\ YearsBefore(w) \in Int
    BY NewYear
  <1>2. ASSUME NEW u \in Int, NEW v \in Int, u < v PROVE ~(InYear(n, u) /\ InYear(n, v))
    <2>1. YearsBefore(u + 1) <= YearsBefore(v)
      <3>1. PICK w \in Int : w = u + 1
        OBVIOUS
      <3>2. YearsBefore(w) \in Int /\ YearsBefore(v) \in Int
        BY <1>1
      <3>3. w = v \/ w < v
        BY <1>2, <3>1
      <3>4. YearsBefore(w) <= YearsBefore(v)
        BY <3>2, <3>3, YearsGrow
      <3>5. QED
        BY <3>1, <3>4
    <2>2. QED
      BY <1>1, <2>1 DEF InYear
  <1>3. QED
    BY <1>2

\* Month by month a year goes on from its first day to the next year's first day.
LEMMA MonthsGrow ==
    ASSUME NEW y \in Int, NEW m \in Months
    PROVE  /\ DayIn[<<y, m, 1>>] \in Int /\ DayNumber(y, m + 1, 1) \in Int
           /\ DayNumber(y, m + 1, 1) >= DayIn[<<y, m, 1>>] + 28
           /\ m # 12 => DayNumber(y, m + 1, 1) = DayIn[<<y, m + 1, 1>>]
           /\ m = 12 => DayNumber(y, m + 1, 1) = DayIn[<<y + 1, 1, 1>>]
  <1>1. CASE m # 12
    <2>1. m \in 1..11 /\ m + 1 \in Months
      BY <1>1 DEF Months
    <2>2. m \div 12 = 0 /\ m % 12 = m
      BY <2>1
    <2>3. DayNumber(y, m + 1, 1) = DayIn[<<y, m + 1, 1>>]
      <3>1. y + ((m + 1) - 1) \div 12 = y /\ (((m + 1) - 1) % 12) + 1 = m + 1
        BY <2>1, <2>2
      <3>2. QED
        BY <3>1 DEF DayNumber
    <2>4. DaysBefore[m + 1] + LeapDay(y, m + 1) >= DaysBefore[m] + LeapDay(y, m) + 28
      BY <2>1, MonthLength
    <2>5. /\ DayIn[<<y, m, 1>>] = YearsBefore(y) + DaysBefore[m] + LeapDay(y, m) + 1
          /\ DaysBefore[m] \in Nat /\ LeapDay(y, m) \in 0..1 /\ YearsBefore(y) \in Int
      BY DayIs
    <2>6. /\ DayIn[<<y, m + 1, 1>>] = YearsBefore(y) + DaysBefore[m + 1] + LeapDay(y, m + 1) + 1
          /\ DaysBefore[m + 1] \in Nat /\ LeapDay(y, m + 1) \in 0..1
      BY <2>1, DayIs
    <2>7. QED
      BY <1>1, <2>3, <2>4, <2>5, <2>6
  <1>2. CASE m = 12
    <2>1. DayNumber(y, m + 1, 1) = DayIn[<<y + 1, 1, 1>>]
      <3>1. y + ((m + 1) - 1) \div 12 = y + 1 /\ (((m + 1) - 1) % 12) + 1 = 1
        BY <1>2
      <3>2. QED
        BY <3>1 DEF DayNumber
    <2>2. DayIn[<<y + 1, 1, 1>>] = YearsBefore(y + 1) + 1 /\ YearsBefore(y + 1) \in Int
      BY NewYear
    <2>3. /\ DayIn[<<y, m, 1>>] = YearsBefore(y) + DaysBefore[m] + LeapDay(y, m) + 1
          /\ YearsBefore(y) \in Int
      BY DayIs
    <2>4. DaysBefore[m] = 334 /\ LeapDay(y, m) = IF Leap(y) THEN 1 ELSE 0
      BY <1>2 DEF DaysBefore, LeapDay
    <2>5. YearsBefore(y + 1) - YearsBefore(y) = IF Leap(y) THEN 366 ELSE 365
      BY YearLength
    <2>6. YearsBefore(y + 1) >= YearsBefore(y) + 334 + LeapDay(y, m) + 28
      <3>1. CASE Leap(y)
        BY <2>2, <2>3, <2>4, <2>5, <3>1
      <3>2. CASE ~Leap(y)
        BY <2>2, <2>3, <2>4, <2>5, <3>2
      <3>3. QED
        BY <3>1, <3>2
    <2>7. LeapDay(y, m) \in 0..1
      BY DEF LeapDay
    <2>8. QED
      BY <1>2, <2>1, <2>2, <2>3, <2>4, <2>6, <2>7
  <1>3. QED
    BY <1>1, <1>2

\* Every day of a year lies in a month of it.
LEMMA MonthExists ==
    ASSUME NEW n \in Int, NEW y \in Int, InYear(n, y)
    PROVE  \E m \in Months : InMonth(n, y, m)
  <1>1. \A m \in Months : DayIn[<<y, m, 1>>] \in Int
    BY MonthsGrow
  <1>2. SUFFICES ASSUME \A m \in Months : ~InMonth(n, y, m) PROVE FALSE
    OBVIOUS
  <1>3. ASSUME NEW m \in Months, DayIn[<<y, m, 1>>] <= n
        PROVE  DayNumber(y, m + 1, 1) <= n
    <2>1. ~(n < DayNumber(y, m + 1, 1)) /\ DayNumber(y, m + 1, 1) \in Int
      BY <1>2, <1>3, MonthsGrow DEF InMonth
    <2>2. QED
      BY <2>1
  <1>4. ASSUME NEW m \in 1..11, DayIn[<<y, m, 1>>] <= n
        PROVE  DayIn[<<y, m + 1, 1>>] <= n
    <2>1. m \in Months /\ m # 12
      BY DEF Months
    <2>2. QED
      BY <1>3, <1>4, <2>1, MonthsGrow
  <1>5. DayIn[<<y, 1, 1>>] <= n
    BY DEF InYear
  <1>6. DayIn[<<y, 2, 1>>] <= n /\ DayIn[<<y, 3, 1>>] <= n /\ DayIn[<<y, 4, 1>>] <= n
    BY <1>4, <1>5
  <1>7. DayIn[<<y, 5, 1>>] <= n /\ DayIn[<<y, 6, 1>>] <= n /\ DayIn[<<y, 7, 1>>] <= n
    BY <1>4, <1>6
  <1>8. DayIn[<<y, 8, 1>>] <= n /\ DayIn[<<y, 9, 1>>] <= n /\ DayIn[<<y, 10, 1>>] <= n
    BY <1>4, <1>7
  <1>9. DayIn[<<y, 11, 1>>] <= n /\ DayIn[<<y, 12, 1>>] <= n
    BY <1>4, <1>8
  <1>10. 12 \in Months
    BY DEF Months
  <1>11. DayIn[<<y + 1, 1, 1>>] <= n
    BY <1>3, <1>9, <1>10, MonthsGrow
  <1>12. DayIn[<<y + 1, 1, 1>>] \in Int
    BY NewYear
  <1>13. QED
    BY <1>11, <1>12 DEF InYear

LEMMA OneMonth ==
    ASSUME NEW n \in Int, NEW y \in Int, NEW m \in Months, NEW k \in Months,
           InMonth(n, y, m), InMonth(n, y, k)
    PROVE  m = k
  <1>1. ASSUME NEW u \in Months, NEW v \in Months, u < v PROVE ~(InMonth(n, y, u) /\ InMonth(n, y, v))
    <2>1. u + 1 \in Months /\ u # 12
      BY <1>1 DEF Months
    <2>2. DaysBefore[u + 1] <= DaysBefore[v]
      BY <1>1 DEF DaysBefore, Months
    <2>3. LeapDay(y, u + 1) <= LeapDay(y, v)
      BY <1>1, <2>1 DEF LeapDay, Months
    <2>4. /\ DayIn[<<y, v, 1>>] = YearsBefore(y) + DaysBefore[v] + LeapDay(y, v) + 1
          /\ DaysBefore[v] \in Nat /\ LeapDay(y, v) \in 0..1 /\ YearsBefore(y) \in Int
      BY DayIs
    <2>5. /\ DayIn[<<y, u + 1, 1>>] = YearsBefore(y) + DaysBefore[u + 1] + LeapDay(y, u + 1) + 1
          /\ DaysBefore[u + 1] \in Nat /\ LeapDay(y, u + 1) \in 0..1
      BY <2>1, DayIs
    <2>6. DayNumber(y, u + 1, 1) = DayIn[<<y, u + 1, 1>>]
      BY <2>1, MonthsGrow
    <2>7. DayNumber(y, u + 1, 1) <= DayIn[<<y, v, 1>>]
      BY <2>2, <2>3, <2>4, <2>5, <2>6
    <2>8. DayNumber(y, u + 1, 1) \in Int /\ DayIn[<<y, v, 1>>] \in Int
      BY MonthsGrow
    <2>9. QED
      BY <2>7, <2>8 DEF InMonth
  <1>2. QED
    BY <1>1 DEF Months

\* Year, Month and DayOfMonth are the date of a day.
LEMMA DateIs ==
    ASSUME NEW n \in Nat
    PROVE  /\ Year[n] \in Int /\ Month[n] \in Months /\ DayOfMonth(n) \in Nat /\ DayOfMonth(n) >= 1
           /\ InYear(n, Year[n]) /\ InMonth(n, Year[n], Month[n])
           /\ n = DayIn[<<Year[n], Month[n], DayOfMonth(n)>>]
  <1>1. Year[n] \in Int /\ InYear(n, Year[n])
    BY YearIs
  <1>2. Month[n] \in Months /\ InMonth(n, Year[n], Month[n])
    <2>1. \E m \in Months : InMonth(n, Year[n], m)
      BY <1>1, MonthExists
    <2>2. Month[n] = CHOOSE m \in Months : InMonth(n, Year[n], m)
      <3>1. n \in Int
        OBVIOUS
      <3>2. QED
        BY <3>1, Zenon DEF Month, InMonth, Months
    <2>3. QED
      BY <2>1, <2>2
  <1>3. PICK first : first = DayIn[<<Year[n], Month[n], 1>>]
    OBVIOUS
  <1>4. first \in Int /\ first <= n /\ DayOfMonth(n) = n - first + 1
    BY <1>1, <1>2, <1>3, DayIs DEF InMonth, DayOfMonth, Months
  <1>5. DayOfMonth(n) \in Nat /\ DayOfMonth(n) >= 1
    BY <1>4
  <1>6. DayIn[<<Year[n], Month[n], DayOfMonth(n)>>] = first - 1 + DayOfMonth(n)
    BY <1>1, <1>2, <1>3, <1>5, DayIs
  <1>7. QED
    BY <1>1, <1>2, <1>4, <1>5, <1>6

\* A date up to the 28th is the date of its day.
LEMMA DateOf ==
    ASSUME NEW n \in Nat, NEW y \in Int, NEW m \in Months, NEW d \in 1..28,
           DayIn[<<y, m, d>>] = n
    PROVE  Year[n] = y /\ Month[n] = m /\ DayOfMonth(n) = d
  <1>1. DayIn[<<y, m, 1>>] = n - d + 1
    <2>1. d \in Int /\ 1 \in Int
      OBVIOUS
    <2>2. QED
      BY <2>1, DayIs
  <1>2. InMonth(n, y, m)
    <2>1. /\ DayIn[<<y, m, 1>>] \in Int /\ DayNumber(y, m + 1, 1) \in Int
          /\ DayNumber(y, m + 1, 1) >= DayIn[<<y, m, 1>>] + 28
      BY MonthsGrow
    <2>2. DayIn[<<y, m, 1>>] <= n /\ n < DayNumber(y, m + 1, 1)
      BY <1>1, <2>1
    <2>3. QED
      BY <2>2 DEF InMonth
  <1>3. InYear(n, y)
    <2>1. DayIn[<<y, 1, 1>>] <= DayIn[<<y, m, 1>>]
      <3>1. DaysBefore[m] \in Nat /\ LeapDay(y, m) \in 0..1
        BY DayIs
      <3>2. DayIn[<<y, m, 1>>] = YearsBefore(y) + DaysBefore[m] + LeapDay(y, m) + 1
        BY DayIs
      <3>3. QED
        BY <3>1, <3>2, NewYear
    <2>2. DayNumber(y, m + 1, 1) <= DayIn[<<y + 1, 1, 1>>]
      <3>1. CASE m = 12
        <4>1. DayNumber(y, m + 1, 1) = DayIn[<<y + 1, 1, 1>>] /\ DayNumber(y, m + 1, 1) \in Int
          BY <3>1, MonthsGrow
        <4>2. QED
          BY <4>1
      <3>2. CASE m # 12
        <4>1. m + 1 \in Months
          BY <3>2 DEF Months
        <4>2. DayNumber(y, m + 1, 1) = DayIn[<<y, m + 1, 1>>]
          BY <3>2, MonthsGrow
        <4>3. /\ DayIn[<<y, m + 1, 1>>] = YearsBefore(y) + DaysBefore[m + 1] + LeapDay(y, m + 1) + 1
              /\ DaysBefore[m + 1] \in Nat /\ LeapDay(y, m + 1) \in 0..1 /\ YearsBefore(y) \in Int
          BY <4>1, DayIs
        <4>4. DaysBefore[m + 1] <= 334
          BY <4>1 DEF DaysBefore, Months
        <4>5. /\ DayIn[<<y + 1, 1, 1>>] = YearsBefore(y + 1) + 1
              /\ YearsBefore(y + 1) \in Int
          BY NewYear
        <4>6. YearsBefore(y + 1) >= YearsBefore(y) + 365
          <5>1. YearsBefore(y + 1) - YearsBefore(y) >= 365
            BY YearLength
          <5>2. QED
            BY <4>3, <4>5, <5>1
        <4>7. QED
          BY <4>2, <4>3, <4>4, <4>5, <4>6
      <3>3. QED
        BY <3>1, <3>2
    <2>3. /\ DayIn[<<y, 1, 1>>] \in Int /\ DayIn[<<y + 1, 1, 1>>] \in Int
          /\ DayIn[<<y, m, 1>>] \in Int /\ DayNumber(y, m + 1, 1) \in Int
      <3>1. DayIn[<<y, 1, 1>>] \in Int
        BY NewYear
      <3>2. PICK z \in Int : z = y + 1
        OBVIOUS
      <3>3. DayIn[<<z, 1, 1>>] \in Int
        BY NewYear
      <3>4. QED
        BY <3>1, <3>2, <3>3, MonthsGrow
    <2>4. QED
      BY <1>2, <2>1, <2>2, <2>3 DEF InYear, InMonth
  <1>4. Year[n] = y
    <2>1. Year[n] \in Int /\ InYear(n, Year[n])
      BY DateIs
    <2>2. n \in Int
      OBVIOUS
    <2>3. QED
      BY <1>3, <2>1, <2>2, OneYear
  <1>5. Month[n] = m
    <2>1. Month[n] \in Months /\ InMonth(n, y, Month[n])
      BY <1>4, DateIs
    <2>2. n \in Int
      OBVIOUS
    <2>3. QED
      BY <1>2, <2>1, <2>2, OneMonth
  <1>6. QED
    BY <1>1, <1>4, <1>5 DEF DayOfMonth

\* n days later.
LEMMA AddDays ==
    ASSUME NEW n \in Nat, NEW k \in Int
    PROVE  AddDate(n, 0, 0, k) = n + k
  <1>1. PICK y \in Int, m \in Months, d \in Nat :
           y = Year[n] /\ m = Month[n] /\ d = DayOfMonth(n) /\ n = DayIn[<<y, m, d>>]
    BY DateIs
  <1>2. AddDate(n, 0, 0, k) = DayNumber(y + 0, m + 0, d + k)
    BY <1>1 DEF AddDate
  <1>3. DayNumber(y + 0, m + 0, d + k) = DayIn[<<y, m, d + k>>]
    <2>1. (m - 1) \div 12 = 0 /\ ((m - 1) % 12) + 1 = m
      BY DEF Months
    <2>2. QED
      BY <2>1 DEF DayNumber, Months
  <1>4. DayIn[<<y, m, d + k>>] = DayIn[<<y, m, d>>] + k
    <2>1. PICK e \in Int : e = d + k
      OBVIOUS
    <2>2. /\ DayIn[<<y, m, e>>] = YearsBefore(y) + DaysBefore[m] + LeapDay(y, m) + e
          /\ DaysBefore[m] \in Nat /\ LeapDay(y, m) \in 0..1 /\ YearsBefore(y) \in Int
      BY DayIs
    <2>3. DayIn[<<y, m, d>>] = YearsBefore(y) + DaysBefore[m] + LeapDay(y, m) + d
      BY DayIs
    <2>4. QED
      BY <2>1, <2>2, <2>3
  <1>5. QED
    BY <1>1, <1>2, <1>3, <1>4

\* The same day of the next month, which is later; up to the 28th it is that day.
LEMMA AddMonth ==
    ASSUME NEW n \in Nat
    PROVE  /\ AddDate(n, 0, 1, 0) \in Nat /\ AddDate(n, 0, 1, 0) > n
           /\ DayOfMonth(n) <= 28 => DayOfMonth(AddDate(n, 0, 1, 0)) = DayOfMonth(n)
  <1>1. PICK y \in Int, m \in Months, d \in Nat :
           /\ y = Year[n] /\ m = Month[n] /\ d = DayOfMonth(n) /\ n = DayIn[<<y, m, d>>]
           /\ d >= 1 /\ InMonth(n, y, m)
    BY DateIs
  <1>2. PICK z \in Int, k \in Months :
           z = y + ((m + 1) - 1) \div 12 /\ k = (((m + 1) - 1) % 12) + 1
    BY DEF Months
  <1>3. AddDate(n, 0, 1, 0) = DayIn[<<z, k, d>>] /\ DayNumber(y, m + 1, 1) = DayIn[<<z, k, 1>>]
    <2>1. AddDate(n, 0, 1, 0) = DayNumber(y + 0, m + 1, d + 0)
      BY <1>1 DEF AddDate
    <2>2. y + 0 = y /\ d + 0 = d
      OBVIOUS
    <2>3. QED
      BY <1>2, <2>1, <2>2 DEF DayNumber
  <1>4. DayIn[<<z, k, d>>] = DayIn[<<z, k, 1>>] + d - 1 /\ DayIn[<<z, k, 1>>] \in Int
    <2>1. /\ DayIn[<<z, k, d>>] = YearsBefore(z) + DaysBefore[k] + LeapDay(z, k) + d
          /\ DaysBefore[k] \in Nat /\ LeapDay(z, k) \in 0..1 /\ YearsBefore(z) \in Int
      BY DayIs
    <2>2. DayIn[<<z, k, 1>>] = YearsBefore(z) + DaysBefore[k] + LeapDay(z, k) + 1
      BY DayIs
    <2>3. QED
      BY <2>1, <2>2
  <1>5. n < DayNumber(y, m + 1, 1)
    BY <1>1 DEF InMonth
  <1>6. AddDate(n, 0, 1, 0) \in Nat /\ AddDate(n, 0, 1, 0) > n
    BY <1>1, <1>3, <1>4, <1>5
  <1>7. ASSUME d <= 28 PROVE DayOfMonth(AddDate(n, 0, 1, 0)) = d
    <2>1. PICK e \in 1..28 : e = d
      BY <1>1, <1>7
    <2>2. PICK x \in Nat : x = AddDate(n, 0, 1, 0) /\ DayIn[<<z, k, e>>] = x
      BY <1>3, <1>6, <2>1
    <2>3. DayOfMonth(x) = e
      BY ONLY <2>2, DateOf
    <2>4. QED
      BY <2>1, <2>2, <2>3
  <1>8. QED
    BY <1>1, <1>6, <1>7

\* So is the same day of the next year.
LEMMA AddYear ==
    ASSUME NEW n \in Nat
    PROVE  /\ AddDate(n, 1, 0, 0) \in Nat /\ AddDate(n, 1, 0, 0) > n
           /\ DayOfMonth(n) <= 28 => DayOfMonth(AddDate(n, 1, 0, 0)) = DayOfMonth(n)
  <1>1. PICK y \in Int, m \in Months, d \in Nat :
           /\ y = Year[n] /\ m = Month[n] /\ d = DayOfMonth(n) /\ n = DayIn[<<y, m, d>>] /\ d >= 1
    BY DateIs
  <1>2. PICK z \in Int : z = y + 1
    OBVIOUS
  <1>3. AddDate(n, 1, 0, 0) = DayIn[<<z, m, d>>]
    <2>1. AddDate(n, 1, 0, 0) = DayNumber(z, m + 0, d + 0)
      BY <1>1, <1>2 DEF AddDate
    <2>2. (m - 1) \div 12 = 0 /\ ((m - 1) % 12) + 1 = m /\ d + 0 = d /\ m + 0 = m
      BY DEF Months
    <2>3. QED
      BY <2>1, <2>2 DEF DayNumber
  <1>4. DayIn[<<z, m, d>>] > DayIn[<<y, m, d>>] /\ DayIn[<<z, m, d>>] \in Int
    <2>1. /\ DayIn[<<z, m, d>>] = YearsBefore(z) + DaysBefore[m] + LeapDay(z, m) + d
          /\ DaysBefore[m] \in Nat /\ LeapDay(z, m) \in 0..1 /\ YearsBefore(z) \in Int
      BY DayIs
    <2>2. /\ DayIn[<<y, m, d>>] = YearsBefore(y) + DaysBefore[m] + LeapDay(y, m) + d
          /\ LeapDay(y, m) \in 0..1 /\ YearsBefore(y) \in Int
      BY DayIs
    <2>3. YearsBefore(z) - YearsBefore(y) >= 365
      BY <1>2, YearLength
    <2>4. QED
      BY <2>1, <2>2, <2>3
  <1>5. AddDate(n, 1, 0, 0) \in Nat /\ AddDate(n, 1, 0, 0) > n
    BY <1>1, <1>3, <1>4
  <1>6. ASSUME d <= 28 PROVE DayOfMonth(AddDate(n, 1, 0, 0)) = d
    <2>1. PICK e \in 1..28 : e = d
      BY <1>1, <1>6
    <2>2. PICK x \in Nat : x = AddDate(n, 1, 0, 0) /\ DayIn[<<z, m, e>>] = x
      BY <1>3, <1>5, <2>1
    <2>3. DayOfMonth(x) = e
      BY ONLY <2>2, DateOf
    <2>4. QED
      BY <2>1, <2>2, <2>3
  <1>7. QED
    BY <1>1, <1>5, <1>6

-----------------------------------------------------------------------------
(* Types.                                                                   *)

LEMMA TaskTypes ==
    /\ TypeBudgetUserUpdate # TypeBudgetProcessing
    /\ NoTask.type # TypeBudgetUserUpdate /\ NoTask.type # TypeBudgetProcessing
    /\ NoTask \notin Task /\ NoTask.retried = 0
    /\ \A t \in Task : /\ t.type \in {TypeBudgetUserUpdate, TypeBudgetProcessing}
                       /\ t.retried \in Nat /\ t.retried <= MaxRetry
                       /\ t.type = TypeBudgetUserUpdate => t.user \in Users
  BY BudgetsAssumption DEF Task, NoTask, TypeBudgetUserUpdate, TypeBudgetProcessing, BudgetsAssumption

LEMMA RequeueIs ==
    ASSUME NEW t \in Task
    PROVE  /\ IsABag(Requeue(t)) /\ BagToSet(Requeue(t)) \subseteq Task
           /\ \A v \in BagToSet(Requeue(t)) : v.type = t.type /\ v.user = t.user
           /\ t.retried < MaxRetry => BagToSet(Requeue(t)) # {}
  <1>1. CASE t.retried < MaxRetry
    <2>1. PICK v : v = [t EXCEPT !.retried = @ + 1]
      OBVIOUS
    <2>2. v \in Task /\ v.type = t.type /\ v.user = t.user
      BY <1>1, <2>1, BudgetsAssumption DEF Task, BudgetsAssumption
    <2>3. Requeue(t) = SetToBag({v})
      BY <1>1, <2>1 DEF Requeue
    <2>4. QED
      BY <2>2, <2>3, SingleBag
  <1>2. CASE ~(t.retried < MaxRetry)
    <2>1. Requeue(t) = EmptyBag
      BY <1>2 DEF Requeue
    <2>2. QED
      BY <1>2, <2>1, SingleBag
  <1>3. QED
    BY <1>1, <1>2

\* The amount of a budget is an integer.
LEMMA TotalIsInt ==
    ASSUME NEW b, CountersTyped
    PROVE  Total(b) \in Int
  <1>1. PICK f : f = [s \in {x \in Slots : Matches(rows[x], b)} |-> rows[s].amount]
    OBVIOUS
  <1>2. IsFiniteSet({x \in Slots : Matches(rows[x], b)})
    BY BudgetsAssumption, FS_Subset DEF BudgetsAssumption
  <1>3. \A s \in DOMAIN f : f[s] \in Int
    BY <1>1, BudgetsAssumption DEF BudgetsAssumption, CountersTyped, Matches
  <1>4. Summable(f)
    BY <1>1, <1>2, <1>3 DEF Summable
  <1>5. QED
    BY <1>1, <1>4, SumIsInt DEF Total

\* The clock starts on one of its days.
LEMMA FirstDay == Min(Days) \in Days
  <1> DEFINE L == {p \in Days \X Days : p[1] <= p[2]}
  <1>1. Days \subseteq Nat /\ Days # {} /\ IsFiniteSet(Days)
    BY BudgetsAssumption DEF BudgetsAssumption
  <1>2. \A x, y \in Days : <<x, y>> \in L \/ <<y, x>> \in L
    BY <1>1
  <1>3. \A x, y, z \in Days : <<x, y>> \in L /\ <<y, z>> \in L => <<x, z>> \in L
    BY <1>1
  <1>4. \E x \in Days : \A y \in Days : <<x, y>> \in L
    <2> HIDE DEF L
    <2>1. QED
      BY <1>1, <1>2, <1>3, FirstOfAFiniteSet
  <1>5. QED
    BY <1>4 DEF Min

LEMMA InitTyped == Init => Typed
  <1> SUFFICES ASSUME Init PROVE Typed
    OBVIOUS
  <1>1. BudgetsTyped
    BY EmptySeq DEF Init, BudgetsTyped
  <1>2. QueueTyped
    BY SingleBag DEF Init, QueueTyped
  <1>3. Idle \in Work /\ Idle.todo = {} /\ Idle.cur = NoBudget /\ Idle.at = "idle"
    BY DEF Idle, Work, NoBudget
  <1>4. ActorsTyped
    BY <1>3 DEF Init, ActorsTyped, Refers
  <1>5. CountersTyped
    BY FirstDay, BudgetsAssumption DEF Init, CountersTyped, BudgetsAssumption
  <1>6. QED
    BY <1>1, <1>2, <1>4, <1>5 DEF Typed

\* A row more.
LEMMA RowAdded ==
    ASSUME BudgetsTyped, NEW b \in Row, b.origin <= Len(budgets), Dated(b),
           budgets' = Append(budgets, b), collected' = Append(collected, 0),
           excused' \subseteq DOMAIN budgets'
    PROVE  /\ BudgetsTyped' /\ Len(budgets') = Len(budgets) + 1
           /\ DOMAIN budgets = 1..Len(budgets) /\ DOMAIN budgets' = 1..(Len(budgets) + 1)
           /\ \A i \in DOMAIN budgets : budgets'[i] = budgets[i] /\ collected'[i] = collected[i]
           /\ budgets'[Len(budgets) + 1] = b
  <1>1. budgets \in Seq(Row) /\ collected \in Seq(Int) /\ Len(collected) = Len(budgets)
    BY DEF BudgetsTyped
  <1>2. /\ budgets' \in Seq(Row) /\ Len(budgets') = Len(budgets) + 1
        /\ \A i \in 1..Len(budgets) : budgets'[i] = budgets[i]
        /\ budgets'[Len(budgets) + 1] = b
    BY <1>1, AppendProperties
  <1>3. /\ collected' \in Seq(Int) /\ Len(collected') = Len(collected) + 1
        /\ \A i \in 1..Len(collected) : collected'[i] = collected[i]
    BY <1>1, AppendProperties
  <1>4. DOMAIN budgets = 1..Len(budgets) /\ DOMAIN budgets' = 1..(Len(budgets) + 1) /\ Len(budgets) \in Nat
    BY <1>1, <1>2, LenProperties
  <1>5. \A i \in DOMAIN budgets' : budgets'[i].origin < i /\ Dated(budgets'[i])
    <2> TAKE i \in DOMAIN budgets'
    <2>1. CASE i \in DOMAIN budgets
      BY <1>2, <1>4, <2>1 DEF BudgetsTyped
    <2>2. CASE i = Len(budgets) + 1
      <3>1. b.origin \in Nat
        BY DEF Row
      <3>2. QED
        BY <1>2, <1>4, <2>2, <3>1
    <2>3. QED
      BY <1>4, <2>1, <2>2
  <1>6. QED
    BY <1>1, <1>2, <1>3, <1>4, <1>5 DEF BudgetsTyped

\* A row changed.
LEMMA RowChanged ==
    ASSUME BudgetsTyped, NEW i \in DOMAIN budgets, NEW b \in Row, b.origin = budgets[i].origin, Dated(b),
           budgets' = [budgets EXCEPT ![i] = b], UNCHANGED <<collected, excused>>
    PROVE  /\ BudgetsTyped' /\ DOMAIN budgets' = DOMAIN budgets
           /\ \A j \in DOMAIN budgets : budgets'[j] = IF j = i THEN b ELSE budgets[j]
  <1>1. budgets \in Seq(Row)
    BY DEF BudgetsTyped
  <1>2. budgets' \in Seq(Row) /\ Len(budgets') = Len(budgets) /\ DOMAIN budgets' = DOMAIN budgets
    BY <1>1, ExceptSeq
  <1>3. \A j \in DOMAIN budgets : budgets'[j] = IF j = i THEN b ELSE budgets[j]
    OBVIOUS
  <1>4. \A j \in DOMAIN budgets' : budgets'[j].origin < j /\ Dated(budgets'[j])
    BY <1>2, <1>3 DEF BudgetsTyped
  <1>5. QED
    BY <1>2, <1>3, <1>4 DEF BudgetsTyped

\* The goroutine of a step is the only one it changes, and it refers to what exists.
LEMMA ActorsStay ==
    ASSUME ActorsTyped, NEW a \in Actors, NEW r \in Work, actor' = [actor EXCEPT ![a] = r],
           DOMAIN budgets \subseteq DOMAIN budgets',
           \A b \in r.todo : b.id \in DOMAIN budgets' /\ Dated(b.row),
           r.cur \in DOMAIN budgets' \cup {NoBudget},
           r.at \in {"write", "archive"} => r.cur # NoBudget
    PROVE  ActorsTyped' /\ \A c \in Actors : actor'[c] = IF c = a THEN r ELSE actor[c]
  <1>1. \A c \in Actors : actor'[c] = IF c = a THEN r ELSE actor[c]
    BY DEF ActorsTyped
  <1>2. actor' \in [Actors -> Work]
    BY DEF ActorsTyped
  <1>3. ASSUME NEW c \in Actors PROVE Refers(actor[c])
    BY <1>3 DEF ActorsTyped
  <1>4. ASSUME NEW c \in Actors PROVE Refers(actor[c])'
    <2>1. CASE c = a
      BY <1>1, <2>1 DEF Refers
    <2>2. CASE c # a
      BY <1>1, <1>3, <2>2 DEF Refers
    <2>3. QED
      BY <2>1, <2>2
  <1>5. QED
    BY <1>1, <1>2, <1>4 DEF ActorsTyped

\* or none changes.
LEMMA ActorsSame ==
    ASSUME ActorsTyped, actor' = actor, DOMAIN budgets \subseteq DOMAIN budgets'
    PROVE  ActorsTyped'
  BY DEF ActorsTyped, Refers

LEMMA Enqueued ==
    ASSUME QueueTyped, NEW t \in Task, queue' = queue (+) SetToBag({t})
    PROVE  QueueTyped' /\ BagToSet(queue') = BagToSet(queue) \cup {t}
  <1>1. IsABag(queue) /\ IsABag(SetToBag({t})) /\ BagToSet(SetToBag({t})) = {t}
    BY SingleBag DEF QueueTyped
  <1>2. IsABag(queue') /\ BagToSet(queue') = BagToSet(queue) \cup {t}
    BY <1>1, BagSum
  <1>3. QED
    BY <1>2 DEF QueueTyped

\* The tasks that are enqueued.
LEMMA NewTask ==
    /\ \A u \in Users : [type |-> TypeBudgetUserUpdate, user |-> u, retried |-> 0] \in Task
    /\ [type |-> TypeBudgetProcessing, user |-> NoUser, retried |-> 0] \in Task
  BY BudgetsAssumption DEF Task, BudgetsAssumption

LEMMA Dequeued ==
    ASSUME QueueTyped, NEW t \in BagToSet(queue), queue' = queue (-) SetToBag({t})
    PROVE  /\ QueueTyped' /\ t \in Task
           /\ BagToSet(queue') \subseteq BagToSet(queue)
           /\ \A v \in BagToSet(queue) \ {t} : v \in BagToSet(queue')
  <1>1. t \in Task /\ IsABag(queue) /\ BagToSet(queue) \subseteq Task
    BY DEF QueueTyped
  <1>2. IsABag(queue') /\ BagToSet(queue') \subseteq BagToSet(queue)
    BY <1>1, BagTake
  <1>3. ASSUME NEW v \in BagToSet(queue) \ {t} PROVE v \in BagToSet(queue')
    BY <1>1, <1>3, BagKeeps
  <1>4. QED
    BY <1>1, <1>2, <1>3 DEF QueueTyped

LEMMA FaultTyped ==
    ASSUME CountersTyped, Fault
    PROVE  faults' \in 0..MaxFaults /\ faults' = faults + 1 /\ faults \in Nat
  BY BudgetsAssumption DEF CountersTyped, Fault, BudgetsAssumption

LEMMA RequestTyped ==
    ASSUME CountersTyped, CountRequest
    PROVE  requests' \in 0..MaxRequests
  BY BudgetsAssumption DEF CountersTyped, CountRequest, BudgetsAssumption

\* What leaves the budgets alone.
LEMMA BudgetsSame ==
    ASSUME BudgetsTyped, budgets' = budgets, collected' = collected,
           excused' \subseteq DOMAIN budgets
    PROVE  BudgetsTyped' /\ DOMAIN budgets' = DOMAIN budgets
  BY DEF BudgetsTyped

LEMMA QueueSame ==
    ASSUME QueueTyped, queue' = queue
    PROVE  QueueTyped'
  BY DEF QueueTyped

LEMMA WriteTransactionTyped ==
    ASSUME Typed, NEW u \in Users, NEW s \in Slots, NEW e \in Expenses \cup {NoExpense},
           WriteTransaction(u, s, e)
    PROVE  Typed'
  <1>1. ActiveOf(u) \subseteq DOMAIN budgets
    BY DEF ActiveOf
  <1>2. BudgetsTyped'
    <2>1. budgets' = budgets /\ collected' = collected
      BY DEF WriteTransaction
    <2>2. excused' \subseteq DOMAIN budgets
      BY <1>1 DEF WriteTransaction, Excuse, Typed, BudgetsTyped
    <2>3. QED
      BY <2>1, <2>2, BudgetsSame DEF Typed
  <1>3. QueueTyped'
    <2>1. CASE Enqueue(TypeBudgetUserUpdate, u)
      <3>1. PICK t \in Task : t = [type |-> TypeBudgetUserUpdate, user |-> u, retried |-> 0]
        BY NewTask
      <3>2. queue' = queue (+) SetToBag({t})
        BY <2>1, <3>1 DEF Enqueue
      <3>3. QED
        BY <3>2, Enqueued DEF Typed
    <2>2. CASE queue' = queue
      BY <2>2, QueueSame DEF Typed
    <2>3. QED
      BY <2>1, <2>2 DEF WriteTransaction
  <1>4. ActorsTyped'
    <2>1. actor' = actor /\ budgets' = budgets
      BY DEF WriteTransaction
    <2>2. QED
      BY <2>1, ActorsSame DEF Typed
  <1>5. CountersTyped'
    <2>1. CountersTyped /\ rows' = [rows EXCEPT ![s] = e] /\ today' = today
      BY DEF Typed, WriteTransaction
    <2>2. requests' \in 0..MaxRequests
      BY <2>1, RequestTyped DEF WriteTransaction
    <2>3. faults' \in 0..MaxFaults
      <3>1. CASE Fault
        BY <2>1, <3>1, FaultTyped
      <3>2. CASE faults' = faults
        BY <2>1, <3>2 DEF CountersTyped
      <3>3. QED
        BY <3>1, <3>2 DEF WriteTransaction
    <2>4. QED
      BY <2>1, <2>2, <2>3 DEF CountersTyped
  <1>6. QED
    BY <1>2, <1>3, <1>4, <1>5 DEF Typed

\* What a request writes is a row.
LEMMA ColumnsIs ==
    ASSUME NEW body \in Bodies, NEW b,
           b \in Row \/ \E u \in Users : b = NewBudget(u, NoBudget)
    PROVE  /\ Columns(body, b) \in Row /\ Dated(Columns(body, b))
           /\ Columns(body, b).origin = b.origin /\ Columns(body, b).user = b.user
           /\ Columns(body, b).archived = b.archived /\ Columns(body, b).deleted = b.deleted
  <1>1. /\ body.start \in Nat /\ body.end \in Nat /\ body.period \in Periods
        /\ body.repeat \in BOOLEAN
    BY BudgetsAssumption DEF BudgetsAssumption
  <1>2. PICK c : c = Columns(body, b)
    OBVIOUS
  <1>3. b = [user |-> b.user, start |-> b.start, end |-> b.end, categories |-> b.categories,
             period |-> b.period, repeat |-> b.repeat, archived |-> b.archived,
             deleted |-> b.deleted, origin |-> b.origin]
    BY DEF Row, NewBudget
  <1>4. c = [user |-> b.user, start |-> body.start, end |-> body.end + 1,
             categories |-> body.categories, period |-> body.period, repeat |-> body.repeat,
             archived |-> b.archived, deleted |-> b.deleted, origin |-> b.origin]
    BY <1>2, <1>3 DEF Columns
  <1>5. b.user \in Users /\ b.archived \in BOOLEAN /\ b.deleted \in BOOLEAN /\ b.origin \in Nat
    <2>1. CASE b \in Row
      BY <2>1 DEF Row
    <2>2. ASSUME NEW u \in Users, b = NewBudget(u, NoBudget)
          PROVE  b.user \in Users /\ b.archived \in BOOLEAN /\ b.deleted \in BOOLEAN /\ b.origin \in Nat
      BY <2>2 DEF NewBudget, NoBudget
    <2>3. QED
      BY <2>1, <2>2
  <1>6. body.categories \in {x.categories : x \in Bodies}
    OBVIOUS
  <1>7. c \in Row /\ Dated(c)
    BY <1>1, <1>4, <1>5, <1>6 DEF Row, Dated
  <1>8. QED
    BY <1>2, <1>4, <1>7

LEMMA RecalculatingIs ==
    ASSUME NEW t \in Task \cup {NoTask}, NEW S \in SUBSET LoadedRow
    PROVE  /\ Recalculating(t, S) = [at |-> "read", task |-> t, todo |-> S, cur |-> NoBudget,
                                      total |-> 0, failed |-> FALSE]
           /\ Recalculating(t, S) \in Work
           /\ [Recalculating(t, S) EXCEPT !.failed = TRUE] \in Work
  <1>1. PICK r : r = Recalculating(t, S)
    OBVIOUS
  <1>2. r = [at |-> "read", task |-> t, todo |-> S, cur |-> NoBudget, total |-> 0, failed |-> FALSE]
    BY <1>1 DEF Recalculating, Idle
  <1>3. r \in Work
    BY <1>2 DEF Work, NoBudget
  <1>4. [r EXCEPT !.failed = TRUE] \in Work
    BY <1>3 DEF Work
  <1>5. QED
    BY <1>1, <1>2, <1>3, <1>4

LEMMA CountersStep ==
    ASSUME CountersTyped, rows' \in [Slots -> Expenses \cup {NoExpense}], today' \in Days,
           requests' = requests \/ CountRequest, faults' = faults \/ Fault
    PROVE  CountersTyped'
  <1>1. requests' \in 0..MaxRequests
    BY RequestTyped DEF CountersTyped
  <1>2. faults' \in 0..MaxFaults
    BY FaultTyped DEF CountersTyped
  <1>3. QED
    BY <1>1, <1>2 DEF CountersTyped

LEMMA CountersSame ==
    ASSUME CountersTyped, UNCHANGED <<rows, today>>,
           requests' = requests \/ CountRequest, faults' = faults \/ Fault
    PROVE  CountersTyped'
  BY CountersStep DEF CountersTyped

\* The row a request of create stores.
Created(u, body) == Columns(body, NewBudget(u, NoBudget))

LEMMA CreateTyped ==
    ASSUME Typed, NEW a \in Actors, NEW u \in Users, NEW body \in Bodies, Create(a, u, body)
    PROVE  Typed'
  <1>1. PICK b : b = Created(u, body)
    OBVIOUS
  <1>2. b \in Row /\ Dated(b) /\ b.origin = 0 /\ b.user = u
    BY <1>1, ColumnsIs DEF Created, NewBudget, NoBudget
  <1>3. PICK S : S = {[id |-> Len(budgets) + 1, row |-> b]}
    OBVIOUS
  <1>4. /\ budgets' = Append(budgets, b) /\ collected' = Append(collected, 0)
        /\ actor' = [actor EXCEPT ![a] = Recalculating(NoTask, S)]
        /\ excused' = excused /\ queue' = queue /\ UNCHANGED <<rows, today, faults>> /\ CountRequest
    BY <1>1, <1>3 DEF Create, Created
  <1>5. BudgetsTyped /\ ActorsTyped /\ QueueTyped /\ CountersTyped
    BY DEF Typed
  <1>6. Len(budgets) \in Nat /\ DOMAIN budgets = 1..Len(budgets) /\ excused \subseteq DOMAIN budgets
    BY <1>5, LenProperties DEF BudgetsTyped
  <1>7. DOMAIN budgets' = 1..(Len(budgets) + 1)
    BY <1>4, <1>5, <1>6, AppendProperties DEF BudgetsTyped
  <1>8. BudgetsTyped'
    <2>1. excused' \subseteq DOMAIN budgets'
      BY <1>4, <1>6, <1>7
    <2>2. b.origin <= Len(budgets)
      BY <1>2, <1>6
    <2>3. QED
      BY <1>2, <1>4, <1>5, <2>1, <2>2, RowAdded
  <1>9. ActorsTyped'
    <2>1. S \in SUBSET LoadedRow
      BY <1>2, <1>3, <1>6 DEF LoadedRow
    <2>2. PICK r : r = Recalculating(NoTask, S)
      OBVIOUS
    <2>3. r \in Work /\ r.at = "read" /\ r.todo = S /\ r.cur = NoBudget
      <3>1. NoTask \in Task \cup {NoTask}
        OBVIOUS
      <3>2. /\ r = [at |-> "read", task |-> NoTask, todo |-> S, cur |-> NoBudget,
                    total |-> 0, failed |-> FALSE]
            /\ r \in Work
        BY <2>1, <2>2, <3>1, RecalculatingIs
      <3>3. QED
        BY <3>2
    <2>4. \A x \in r.todo : x.id \in DOMAIN budgets' /\ Dated(x.row)
      <3>1. Len(budgets) + 1 \in DOMAIN budgets'
        BY <1>6, <1>7
      <3>2. r.todo = {[id |-> Len(budgets) + 1, row |-> b]}
        BY <1>3, <2>3
      <3>3. QED
        BY <1>2, <3>1, <3>2
    <2>5. DOMAIN budgets \subseteq DOMAIN budgets'
      BY <1>6, <1>7
    <2>6. actor' = [actor EXCEPT ![a] = r]
      BY <1>4, <2>2
    <2>7. r.cur \in DOMAIN budgets' \cup {NoBudget} /\ ~(r.at \in {"write", "archive"})
      BY <2>3
    <2>8. QED
      BY <1>5, <2>3, <2>4, <2>5, <2>6, <2>7, ActorsStay
  <1>10. QueueTyped' /\ CountersTyped'
    BY <1>4, <1>5, QueueSame, CountersSame
  <1>11. QED
    BY <1>8, <1>9, <1>10 DEF Typed

LEMMA UpdateTyped ==
    ASSUME Typed, NEW a \in Actors, NEW u \in Users, NEW i \in DOMAIN budgets, NEW body \in Bodies,
           Update(a, u, i, body)
    PROVE  Typed'
  <1>1. PICK b : b = Columns(body, budgets[i])
    OBVIOUS
  <1>2. budgets \in Seq(Row) /\ budgets[i] \in Row /\ i \in Nat
    BY ElementOfSeq DEF Typed, BudgetsTyped
  <1>3. b \in Row /\ Dated(b) /\ b.origin = budgets[i].origin
    BY <1>1, <1>2, ColumnsIs
  <1>4. PICK S : S = {[id |-> i, row |-> b]}
    OBVIOUS
  <1>5. /\ budgets' = [budgets EXCEPT ![i] = b] /\ collected' = collected /\ excused' = excused
        /\ actor' = [actor EXCEPT ![a] = Recalculating(NoTask, S)]
        /\ queue' = queue /\ UNCHANGED <<rows, today, faults>> /\ CountRequest
    BY <1>1, <1>4 DEF Update
  <1>6. BudgetsTyped /\ ActorsTyped /\ QueueTyped /\ CountersTyped
    BY DEF Typed
  <1>7. BudgetsTyped' /\ DOMAIN budgets' = DOMAIN budgets
    BY <1>3, <1>5, <1>6, RowChanged
  <1>8. ActorsTyped'
    <2>1. S \in SUBSET LoadedRow
      BY <1>2, <1>3, <1>4 DEF LoadedRow
    <2>2. PICK r : r = Recalculating(NoTask, S)
      OBVIOUS
    <2>3. r \in Work /\ r.at = "read" /\ r.todo = S /\ r.cur = NoBudget
      <3>1. NoTask \in Task \cup {NoTask}
        OBVIOUS
      <3>2. /\ r = [at |-> "read", task |-> NoTask, todo |-> S, cur |-> NoBudget,
                    total |-> 0, failed |-> FALSE]
            /\ r \in Work
        BY <2>1, <2>2, <3>1, RecalculatingIs
      <3>3. QED
        BY <3>2
    <2>4. \A x \in r.todo : x.id \in DOMAIN budgets' /\ Dated(x.row)
      BY <1>3, <1>4, <1>7, <2>3
    <2>5. actor' = [actor EXCEPT ![a] = r]
      BY <1>5, <2>2
    <2>6. r.cur \in DOMAIN budgets' \cup {NoBudget} /\ ~(r.at \in {"write", "archive"})
      BY <2>3
    <2>7. QED
      BY <1>6, <1>7, <2>3, <2>4, <2>5, <2>6, ActorsStay
  <1>9. QueueTyped' /\ CountersTyped'
    BY <1>5, <1>6, QueueSame, CountersSame
  <1>10. QED
    BY <1>7, <1>8, <1>9 DEF Typed

\* A flag of a row is set.
LEMMA FlagTyped ==
    ASSUME Typed, NEW i \in DOMAIN budgets, NEW b,
           b = [budgets[i] EXCEPT !.deleted = TRUE] \/ b = [budgets[i] EXCEPT !.archived = TRUE],
           budgets' = [budgets EXCEPT ![i] = b], UNCHANGED <<collected, excused>>
    PROVE  /\ BudgetsTyped' /\ DOMAIN budgets' = DOMAIN budgets
           /\ b \in Row /\ b.origin = budgets[i].origin /\ Window(b) = Window(budgets[i])
           /\ \A j \in DOMAIN budgets : budgets'[j] = IF j = i THEN b ELSE budgets[j]
           /\ budgets[i].archived => b.archived
           /\ budgets[i].deleted => b.deleted
  <1>1. BudgetsTyped /\ budgets[i] \in Row
    BY ElementOfSeq DEF Typed, BudgetsTyped
  <1>2. PICK c : c = budgets[i]
    OBVIOUS
  <1>3. b = [c EXCEPT !.deleted = TRUE] \/ b = [c EXCEPT !.archived = TRUE]
    BY <1>2
  <1>4. c \in Row
    BY <1>1, <1>2
  <1>5. /\ b \in Row /\ b.origin = c.origin /\ b.start = c.start /\ b.end = c.end
        /\ b.period = c.period /\ b.user = c.user /\ b.categories = c.categories
        /\ (c.archived => b.archived) /\ (c.deleted => b.deleted)
    BY <1>3, <1>4 DEF Row
  <1>6. Dated(b)
    BY <1>1, <1>2, <1>5 DEF BudgetsTyped, Dated
  <1>7. QED
    BY <1>1, <1>2, <1>5, <1>6, RowChanged DEF Window

LEMMA FlagActionsTyped ==
    ASSUME Typed, NEW u \in Users, NEW i \in DOMAIN budgets, Delete(u, i) \/ Archive(u, i)
    PROVE  Typed'
  <1>1. PICK b : /\ b = [budgets[i] EXCEPT !.deleted = TRUE] \/ b = [budgets[i] EXCEPT !.archived = TRUE]
                 /\ budgets' = [budgets EXCEPT ![i] = b]
    BY DEF Delete, Archive
  <1>2. /\ UNCHANGED <<collected, excused>> /\ queue' = queue /\ actor' = actor
        /\ UNCHANGED <<rows, today, faults>> /\ CountRequest
    BY DEF Delete, Archive
  <1>3. BudgetsTyped' /\ DOMAIN budgets' = DOMAIN budgets
    BY <1>1, <1>2, FlagTyped
  <1>4. ActorsTyped'
    BY <1>2, <1>3, ActorsSame DEF Typed
  <1>5. QueueTyped' /\ CountersTyped'
    BY <1>2, QueueSame, CountersSame DEF Typed
  <1>6. QED
    BY <1>3, <1>4, <1>5 DEF Typed

\* What a goroutine has in hand.
LEMMA WorkIs ==
    ASSUME Typed, NEW a \in Actors
    PROVE  /\ actor[a] \in Work /\ Refers(actor[a])
           /\ actor[a].task \in Task \cup {NoTask} /\ actor[a].cur \in Nat /\ actor[a].total \in Int
           /\ actor[a].failed \in BOOLEAN
           /\ \A b \in actor[a].todo : b \in LoadedRow /\ b.id \in Nat /\ b.row \in Row
  <1>1. actor[a] \in Work /\ Refers(actor[a])
    BY DEF Typed, ActorsTyped
  <1>2. PICK r : r = actor[a]
    OBVIOUS
  <1>3. r \in Work
    BY <1>1, <1>2
  <1>4. r.task \in Task \cup {NoTask} /\ r.cur \in Nat /\ r.total \in Int /\ r.failed \in BOOLEAN
        /\ r.todo \in SUBSET LoadedRow
    BY <1>3 DEF Work
  <1>5. QED
    BY <1>1, <1>2, <1>4 DEF LoadedRow

\* The budgets a query loads.
LEMMA LoadedIs ==
    ASSUME Typed, NEW S, S \subseteq DOMAIN budgets
    PROVE  /\ {Loaded(i) : i \in S} \in SUBSET LoadedRow
           /\ \A b \in {Loaded(i) : i \in S} : b.id \in S /\ b.row = budgets[b.id] /\ Dated(b.row)
  <1>1. ASSUME NEW i \in S
        PROVE  Loaded(i) \in LoadedRow /\ Loaded(i).id = i /\ Loaded(i).row = budgets[i] /\ Dated(budgets[i])
    <2>1. budgets[i] \in Row /\ i \in Nat /\ Dated(budgets[i])
      BY ElementOfSeq DEF Typed, BudgetsTyped
    <2>2. QED
      BY <2>1 DEF Loaded, LoadedRow
  <1>2. QED
    BY <1>1

LEMMA ReadRowsIs ==
    ASSUME Typed, NEW a \in Actors, ReadRows(a)
    PROVE  \E q \in Work, b \in actor[a].todo :
             /\ actor' = [actor EXCEPT ![a] = q] /\ actor[a].at = "read"
             /\ q.at = "write" /\ q.cur = b.id /\ q.todo = actor[a].todo \ {b}
             /\ q.total = Total(b.row) /\ q.task = actor[a].task /\ q.failed = actor[a].failed
             /\ excused' = excused \ {b.id}
  <1>1. PICK r : r = actor[a]
    OBVIOUS
  <1>2. PICK b \in r.todo :
          /\ actor' = [actor EXCEPT ![a].at = "write", ![a].cur = b.id,
                                    ![a].total = Total(b.row), ![a].todo = @ \ {b}]
          /\ excused' = excused \ {b.id}
    BY <1>1 DEF ReadRows
  <1>3. PICK q : q = [r EXCEPT !.at = "write", !.cur = b.id, !.total = Total(b.row), !.todo = @ \ {b}]
    OBVIOUS
  <1>4. r \in Work /\ b.id \in Nat
    BY <1>1, WorkIs
  <1>5. Total(b.row) \in Int
    BY TotalIsInt DEF Typed
  <1>6. /\ q \in Work /\ q.at = "write" /\ q.cur = b.id /\ q.todo = r.todo \ {b}
        /\ q.total = Total(b.row) /\ q.task = r.task /\ q.failed = r.failed
    BY <1>3, <1>4, <1>5 DEF Work
  <1>7. actor' = [actor EXCEPT ![a] = q]
    BY <1>1, <1>2, <1>3 DEF Typed, ActorsTyped, Work
  <1>8. r.at = "read"
    BY <1>1 DEF ReadRows
  <1>9. QED
    BY <1>1, <1>2, <1>6, <1>7, <1>8

LEMMA ReadRowsTyped ==
    ASSUME Typed, NEW a \in Actors, ReadRows(a)
    PROVE  Typed'
  <1>1. PICK q \in Work, b \in actor[a].todo :
          /\ actor' = [actor EXCEPT ![a] = q]
          /\ q.at = "write" /\ q.cur = b.id /\ q.todo = actor[a].todo \ {b}
          /\ excused' = excused \ {b.id}
    BY ReadRowsIs
  <1>2. Refers(actor[a])
    BY WorkIs
  <1>3. /\ budgets' = budgets /\ collected' = collected /\ queue' = queue
        /\ UNCHANGED <<rows, today, requests, faults>>
    BY DEF ReadRows
  <1>4. b.id \in DOMAIN budgets /\ b.id # NoBudget
    BY <1>2, LenProperties DEF Refers, Typed, BudgetsTyped, NoBudget
  <1>5. BudgetsTyped'
    <2>1. excused' \subseteq DOMAIN budgets
      BY <1>1 DEF Typed, BudgetsTyped
    <2>2. QED
      BY <1>3, <2>1, BudgetsSame DEF Typed
  <1>6. ActorsTyped'
    <2>1. \A x \in q.todo : x.id \in DOMAIN budgets' /\ Dated(x.row)
      BY <1>1, <1>2, <1>3 DEF Refers
    <2>2. QED
      BY <1>1, <1>3, <1>4, <2>1, ActorsStay DEF Typed
  <1>7. QueueTyped' /\ CountersTyped'
    BY <1>3, QueueSame, CountersSame DEF Typed
  <1>8. QED
    BY <1>5, <1>6, <1>7 DEF Typed

\* A goroutine drops what it has in hand, or goes on to nothing new.
LEMMA DropsTyped ==
    ASSUME Typed, NEW a \in Actors, NEW q \in Work,
           actor' = [actor EXCEPT ![a] = q], budgets' = budgets,
           q.todo \subseteq actor[a].todo, q.cur = NoBudget,
           ~(q.at \in {"write", "archive"})
    PROVE  ActorsTyped'
  <1>1. \A x \in q.todo : x.id \in DOMAIN budgets' /\ Dated(x.row)
    BY WorkIs DEF Refers
  <1>2. QED
    BY <1>1, ActorsStay DEF Typed

LEMMA UpdateCollectedAmountIs ==
    ASSUME Typed, NEW a \in Actors, UpdateCollectedAmount(a)
    PROVE  \E q \in Work :
             /\ actor' = [actor EXCEPT ![a] = q] /\ actor[a].at = "write"
             /\ q.at = "read" /\ q.cur = NoBudget /\ q.todo = actor[a].todo
             /\ q.task = actor[a].task /\ q.failed = actor[a].failed
  <1>1. PICK r : r = actor[a]
    OBVIOUS
  <1>2. r \in Work /\ r.at = "write"
    BY <1>1, WorkIs DEF UpdateCollectedAmount
  <1>3. PICK q : q = [r EXCEPT !.at = "read", !.cur = NoBudget, !.total = 0]
    OBVIOUS
  <1>4. q = [at |-> "read", task |-> r.task, todo |-> r.todo, cur |-> NoBudget,
             total |-> 0, failed |-> r.failed]
    BY <1>2, <1>3 DEF Work
  <1>5. q \in Work
    <2>1. NoBudget \in Nat
      BY DEF NoBudget
    <2>2. r.task \in Task \cup {NoTask} /\ r.todo \in SUBSET LoadedRow /\ r.failed \in BOOLEAN
      BY <1>2 DEF Work
    <2>3. QED
      BY <1>4, <2>1, <2>2 DEF Work
  <1>6. actor' = [actor EXCEPT ![a] = q]
    BY <1>1, <1>3 DEF Typed, ActorsTyped, Work, UpdateCollectedAmount
  <1>7. /\ q.at = "read" /\ q.cur = NoBudget /\ q.todo = r.todo
        /\ q.task = r.task /\ q.failed = r.failed
    BY <1>4
  <1>8. QED
    BY <1>1, <1>2, <1>5, <1>6, <1>7

LEMMA UpdateCollectedAmountTyped ==
    ASSUME Typed, NEW a \in Actors, UpdateCollectedAmount(a)
    PROVE  Typed'
  <1>1. PICK q \in Work :
          /\ actor' = [actor EXCEPT ![a] = q] /\ actor[a].at = "write"
          /\ q.at = "read" /\ q.cur = NoBudget /\ q.todo = actor[a].todo
    BY UpdateCollectedAmountIs
  <1>2. PICK i, n \in Int : i = actor[a].cur /\ n = actor[a].total
    BY WorkIs
  <1>3. /\ budgets' = budgets /\ collected' = [collected EXCEPT ![i] = n]
        /\ queue' = queue /\ excused' = excused /\ UNCHANGED <<rows, today, requests, faults>>
    BY <1>2 DEF UpdateCollectedAmount
  <1>4. BudgetsTyped'
    <2>1. collected' \in Seq(Int) /\ Len(collected') = Len(collected)
      <3>1. collected \in Seq(Int) /\ i \in DOMAIN collected
        BY <1>1, <1>2, WorkIs, LenProperties DEF Typed, BudgetsTyped, Refers
      <3>2. QED
        BY <1>3, <3>1, ExceptSeq
    <2>2. QED
      BY <1>3, <2>1 DEF Typed, BudgetsTyped
  <1>5. ActorsTyped'
    BY <1>1, <1>3, DropsTyped
  <1>6. QueueTyped' /\ CountersTyped'
    BY <1>3, QueueSame, CountersSame DEF Typed
  <1>7. QED
    BY <1>4, <1>5, <1>6 DEF Typed

\* What a failed statement leaves of the work.
LEMMA RecalculateFailsIs ==
    ASSUME Typed, NEW a \in Actors, RecalculateFails(a)
    PROVE  \E q \in Work, i \in DOMAIN budgets :
                 /\ actor' = [actor EXCEPT ![a] = q]
                 /\ q.at = "read" /\ q.failed /\ q.task = actor[a].task
                 /\ \/ /\ actor[a].at = "read" /\ q.cur = actor[a].cur
                       /\ \E b \in actor[a].todo : b.id = i /\ q.todo = actor[a].todo \ {b}
                    \/ /\ actor[a].at = "write" /\ q.cur = NoBudget
                       /\ actor[a].cur = i /\ q.todo = actor[a].todo
                 /\ excused' = IF actor[a].task = NoTask THEN excused \cup {i} ELSE excused
  <1>1. PICK r : r = actor[a]
    OBVIOUS
  <1>2. r \in Work /\ Refers(r)
    BY <1>1, WorkIs
  <1>3. CASE r.at = "read"
    <2>1. PICK b \in r.todo :
             /\ actor' = [actor EXCEPT ![a].todo = @ \ {b}, ![a].failed = TRUE]
             /\ IF r.task = NoTask THEN Excuse({b.id}) ELSE UNCHANGED excused
      BY <1>1, <1>3 DEF RecalculateFails
    <2>2. PICK q : q = [r EXCEPT !.todo = @ \ {b}, !.failed = TRUE]
      OBVIOUS
    <2>3. /\ q \in Work /\ q.at = "read" /\ q.cur = r.cur /\ q.todo = r.todo \ {b}
          /\ q.failed /\ q.task = r.task
      BY <1>2, <1>3, <2>2 DEF Work
    <2>4. actor' = [actor EXCEPT ![a] = q]
      BY <1>1, <2>1, <2>2 DEF Typed, ActorsTyped, Work
    <2>5. PICK i \in DOMAIN budgets : i = b.id
      BY <1>2 DEF Refers
    <2>6. excused' = IF r.task = NoTask THEN excused \cup {i} ELSE excused
      BY <2>1, <2>5 DEF Excuse
    <2>7. QED
      BY <1>1, <1>3, <2>3, <2>4, <2>5, <2>6
  <1>4. CASE r.at = "write"
    <2>1. /\ actor' = [actor EXCEPT ![a].at = "read", ![a].cur = NoBudget,
                                    ![a].total = 0, ![a].failed = TRUE]
          /\ IF r.task = NoTask THEN Excuse({r.cur}) ELSE UNCHANGED excused
      BY <1>1, <1>4 DEF RecalculateFails
    <2>2. PICK q : q = [r EXCEPT !.at = "read", !.cur = NoBudget, !.total = 0, !.failed = TRUE]
      OBVIOUS
    <2>3. /\ q \in Work /\ q.at = "read" /\ q.cur = NoBudget /\ q.todo = r.todo
          /\ q.failed /\ q.task = r.task
      <3>1. NoBudget \in Nat
        BY DEF NoBudget
      <3>2. q = [at |-> "read", task |-> r.task, todo |-> r.todo, cur |-> NoBudget,
                 total |-> 0, failed |-> TRUE]
        BY <1>2, <2>2 DEF Work
      <3>3. r.task \in Task \cup {NoTask} /\ r.todo \in SUBSET LoadedRow
        BY <1>2 DEF Work
      <3>4. QED
        BY <3>1, <3>2, <3>3 DEF Work
    <2>4. actor' = [actor EXCEPT ![a] = q]
      BY <1>1, <2>1, <2>2 DEF Typed, ActorsTyped, Work
    <2>5. PICK i \in DOMAIN budgets : i = r.cur
      BY <1>2, <1>4 DEF Refers
    <2>6. excused' = IF r.task = NoTask THEN excused \cup {i} ELSE excused
      BY <2>1, <2>5 DEF Excuse
    <2>7. QED
      BY <1>1, <1>4, <2>3, <2>4, <2>5, <2>6
  <1>5. QED
    BY <1>1, <1>3, <1>4 DEF RecalculateFails

LEMMA RecalculateFailsTyped ==
    ASSUME Typed, NEW a \in Actors, RecalculateFails(a)
    PROVE  Typed'
  <1>1. PICK q \in Work, i \in DOMAIN budgets :
           /\ actor' = [actor EXCEPT ![a] = q] /\ q.at = "read"
           /\ \/ /\ q.cur = actor[a].cur
                 /\ \E b \in actor[a].todo : q.todo = actor[a].todo \ {b}
              \/ q.cur = NoBudget /\ q.todo = actor[a].todo
           /\ excused' = IF actor[a].task = NoTask THEN excused \cup {i} ELSE excused
    BY RecalculateFailsIs
  <1>2. /\ budgets' = budgets /\ collected' = collected /\ queue' = queue
        /\ UNCHANGED <<rows, today, requests>> /\ Fault
    BY DEF RecalculateFails
  <1>3. BudgetsTyped'
    <2>1. excused' \subseteq DOMAIN budgets
      BY <1>1 DEF Typed, BudgetsTyped
    <2>2. QED
      BY <1>2, <2>1, BudgetsSame DEF Typed
  <1>4. ActorsTyped'
    <2>1. Refers(actor[a])
      BY WorkIs
    <2>2. q.todo \subseteq actor[a].todo /\ q.cur \in DOMAIN budgets \cup {NoBudget}
      BY <1>1, <2>1 DEF Refers
    <2>3. \A x \in q.todo : x.id \in DOMAIN budgets' /\ Dated(x.row)
      BY <1>2, <2>1, <2>2 DEF Refers
    <2>4. QED
      BY <1>1, <1>2, <2>2, <2>3, ActorsStay DEF Typed
  <1>5. QueueTyped' /\ CountersTyped'
    BY <1>2, QueueSame, CountersSame DEF Typed
  <1>6. QED
    BY <1>3, <1>4, <1>5 DEF Typed

LEMMA IdleIs ==
    /\ Idle \in Work /\ Idle.todo = {} /\ Idle.cur = NoBudget /\ Idle.at = "idle"
    /\ Idle.task = NoTask /\ Idle.failed = FALSE
  BY DEF Idle, Work, NoBudget

LEMMA GivenUpIs ==
    ASSUME NEW t
    PROVE  GivenUp(t) \subseteq DOMAIN budgets
  BY DEF GivenUp, ActiveOf

LEMMA ReturnTyped ==
    ASSUME Typed, NEW a \in Actors, Return(a)
    PROVE  Typed'
  <1>1. PICK t : t = actor[a].task
    OBVIOUS
  <1>2. /\ actor' = [actor EXCEPT ![a] = Idle] /\ budgets' = budgets /\ collected' = collected
        /\ UNCHANGED <<rows, today, requests, faults>>
        /\ IF actor[a].failed /\ t # NoTask
           THEN queue' = queue (+) Requeue(t) /\ excused' = excused \cup GivenUp(t)
           ELSE queue' = queue /\ excused' = excused
    BY <1>1 DEF Return, Excuse
  <1>3. BudgetsTyped'
    <2>1. excused' \subseteq DOMAIN budgets
      BY <1>2, GivenUpIs DEF Typed, BudgetsTyped
    <2>2. QED
      BY <1>2, <2>1, BudgetsSame DEF Typed
  <1>4. ActorsTyped'
    BY <1>2, IdleIs, DropsTyped
  <1>5. QueueTyped'
    <2>1. CASE actor[a].failed /\ t # NoTask
      <3>1. t \in Task
        BY <1>1, <2>1, WorkIs
      <3>2. /\ IsABag(queue) /\ BagToSet(queue) \subseteq Task
            /\ IsABag(Requeue(t)) /\ BagToSet(Requeue(t)) \subseteq Task
        BY <3>1, RequeueIs DEF Typed, QueueTyped
      <3>3. queue' = queue (+) Requeue(t)
        BY <1>2, <2>1
      <3>4. IsABag(queue') /\ BagToSet(queue') = BagToSet(queue) \cup BagToSet(Requeue(t))
        BY <3>2, <3>3, BagSum
      <3>5. QED
        BY <3>2, <3>4 DEF QueueTyped
    <2>2. CASE ~(actor[a].failed /\ t # NoTask)
      BY <1>2, <2>2, QueueSame DEF Typed
    <2>3. QED
      BY <2>1, <2>2
  <1>6. CountersTyped'
    BY <1>2, CountersSame DEF Typed
  <1>7. QED
    BY <1>3, <1>4, <1>5, <1>6 DEF Typed

\* A worker that takes a task starts with the budgets it loads, or fails at once.
LEMMA RecalculateIs ==
    ASSUME Typed, NEW a \in Actors, NEW t \in BagToSet(queue), RecalculateCollectedAmounts(a, t)
    PROVE  \E q \in Work :
             /\ actor' = [actor EXCEPT ![a] = q]
             /\ q.at = "read" /\ q.task = t /\ q.cur = NoBudget
             /\ \/ q.todo = {Loaded(i) : i \in ActiveOf(t.user)} /\ ~q.failed
                \/ q.todo = {} /\ q.failed
  <1>1. t \in Task \cup {NoTask}
    BY DEF Typed, QueueTyped
  <1>2. PICK S : S = {Loaded(i) : i \in ActiveOf(t.user)}
    OBVIOUS
  <1>3. S \in SUBSET LoadedRow
    <2>1. ActiveOf(t.user) \subseteq DOMAIN budgets
      BY DEF ActiveOf
    <2>2. QED
      BY <1>2, <2>1, LoadedIs
  <1>4. CASE actor' = [actor EXCEPT ![a] = Recalculating(t, S)]
    <2>1. PICK q : q = Recalculating(t, S)
      OBVIOUS
    <2>2. /\ q = [at |-> "read", task |-> t, todo |-> S, cur |-> NoBudget, total |-> 0, failed |-> FALSE]
          /\ q \in Work
      BY <1>1, <1>3, <2>1, RecalculatingIs
    <2>3. q.at = "read" /\ q.task = t /\ q.cur = NoBudget /\ q.todo = S /\ ~q.failed
      BY <2>2
    <2>4. actor' = [actor EXCEPT ![a] = q]
      BY <1>4, <2>1
    <2>5. QED
      BY <1>2, <2>2, <2>3, <2>4
  <1>5. CASE actor' = [actor EXCEPT ![a] = [Recalculating(t, {}) EXCEPT !.failed = TRUE]]
    <2>1. PICK q : q = [Recalculating(t, {}) EXCEPT !.failed = TRUE]
      OBVIOUS
    <2>2. PICK p : p = Recalculating(t, {})
      OBVIOUS
    <2>3. {} \in SUBSET LoadedRow
      OBVIOUS
    <2>4. /\ p = [at |-> "read", task |-> t, todo |-> {}, cur |-> NoBudget, total |-> 0, failed |-> FALSE]
          /\ q \in Work
      BY <1>1, <2>1, <2>2, <2>3, RecalculatingIs
    <2>5. q.at = "read" /\ q.task = t /\ q.cur = NoBudget /\ q.todo = {} /\ q.failed
      BY <2>1, <2>2, <2>4
    <2>6. actor' = [actor EXCEPT ![a] = q]
      BY <1>5, <2>1
    <2>7. QED
      BY <2>4, <2>5, <2>6
  <1>6. QED
    BY <1>2, <1>4, <1>5 DEF RecalculateCollectedAmounts

LEMMA RecalculateTyped ==
    ASSUME Typed, NEW a \in Actors, NEW t \in BagToSet(queue), RecalculateCollectedAmounts(a, t)
    PROVE  Typed'
  <1>1. PICK q \in Work :
             /\ actor' = [actor EXCEPT ![a] = q]
             /\ q.at = "read" /\ q.cur = NoBudget
             /\ q.todo = {Loaded(i) : i \in ActiveOf(t.user)} \/ q.todo = {}
    BY RecalculateIs
  <1>2. /\ budgets' = budgets /\ collected' = collected /\ excused' = excused
        /\ queue' = queue (-) SetToBag({t})
        /\ UNCHANGED <<rows, today, requests>> /\ (faults' = faults \/ Fault)
    BY DEF RecalculateCollectedAmounts
  <1>3. ActorsTyped'
    <2>1. ActiveOf(t.user) \subseteq DOMAIN budgets
      BY DEF ActiveOf
    <2>2. \A x \in q.todo : x.id \in DOMAIN budgets' /\ Dated(x.row)
      BY <1>1, <1>2, <2>1, LoadedIs
    <2>3. q.cur \in DOMAIN budgets' \cup {NoBudget} /\ ~(q.at \in {"write", "archive"})
      BY <1>1
    <2>4. QED
      BY <1>1, <1>2, <2>2, <2>3, ActorsStay DEF Typed
  <1>4. QueueTyped'
    BY <1>2, Dequeued DEF Typed
  <1>5. BudgetsTyped' /\ CountersTyped'
    <2>1. excused' \subseteq DOMAIN budgets
      BY <1>2 DEF Typed, BudgetsTyped
    <2>2. QED
      BY <1>2, <2>1, BudgetsSame, CountersSame DEF Typed
  <1>6. QED
    BY <1>3, <1>4, <1>5 DEF Typed

\* So does a run of the daily processing.
LEMMA DailyIs ==
    ASSUME Typed, NEW a \in Actors, NEW t \in BagToSet(queue) \cup {NoTask}, DailyProcessing(a, t)
    PROVE  \E q \in Work :
             /\ actor' = [actor EXCEPT ![a] = q]
             /\ q.at = "copy" /\ q.task = t /\ q.cur = NoBudget
             /\ q.todo = {Loaded(i) : i \in GetOutdatedBudgets} \/ q.todo = {}
  <1>1. t \in Task \cup {NoTask}
    BY DEF Typed, QueueTyped
  <1>2. PICK S : S = {Loaded(i) : i \in GetOutdatedBudgets}
    OBVIOUS
  <1>3. S \in SUBSET LoadedRow
    <2>1. GetOutdatedBudgets \subseteq DOMAIN budgets
      BY DEF GetOutdatedBudgets
    <2>2. QED
      BY <1>2, <2>1, LoadedIs
  <1>4. NoBudget \in Nat
    BY DEF NoBudget
  <1>5. CASE actor' = [actor EXCEPT ![a] = [Idle EXCEPT !.at = "copy", !.task = t, !.todo = S]]
    <2>1. PICK q : q = [Idle EXCEPT !.at = "copy", !.task = t, !.todo = S]
      OBVIOUS
    <2>2. q = [at |-> "copy", task |-> t, todo |-> S, cur |-> NoBudget, total |-> 0, failed |-> FALSE]
      BY <2>1 DEF Idle
    <2>3. q \in Work
      BY <1>1, <1>3, <1>4, <2>2 DEF Work
    <2>4. q.at = "copy" /\ q.task = t /\ q.cur = NoBudget /\ q.todo = S
      BY <2>2
    <2>5. actor' = [actor EXCEPT ![a] = q]
      BY <1>5, <2>1
    <2>6. QED
      BY <1>2, <2>3, <2>4, <2>5
  <1>6. CASE actor' = [actor EXCEPT ![a] = [Idle EXCEPT !.at = "copy", !.task = t, !.failed = TRUE]]
    <2>1. PICK q : q = [Idle EXCEPT !.at = "copy", !.task = t, !.failed = TRUE]
      OBVIOUS
    <2>2. q = [at |-> "copy", task |-> t, todo |-> {}, cur |-> NoBudget, total |-> 0, failed |-> TRUE]
      BY <2>1 DEF Idle
    <2>3. q \in Work
      BY <1>1, <1>4, <2>2 DEF Work
    <2>4. q.at = "copy" /\ q.task = t /\ q.cur = NoBudget /\ q.todo = {}
      BY <2>2
    <2>5. actor' = [actor EXCEPT ![a] = q]
      BY <1>6, <2>1
    <2>6. QED
      BY <2>3, <2>4, <2>5
  <1>7. QED
    BY <1>2, <1>5, <1>6 DEF DailyProcessing

LEMMA DailyTyped ==
    ASSUME Typed, NEW a \in Actors, NEW t \in BagToSet(queue) \cup {NoTask}, DailyProcessing(a, t)
    PROVE  Typed'
  <1>1. PICK q \in Work :
             /\ actor' = [actor EXCEPT ![a] = q]
             /\ q.at = "copy" /\ q.cur = NoBudget
             /\ q.todo = {Loaded(i) : i \in GetOutdatedBudgets} \/ q.todo = {}
    BY DailyIs
  <1>2. /\ budgets' = budgets /\ collected' = collected /\ excused' = excused
        /\ UNCHANGED <<rows, today, requests>> /\ (faults' = faults \/ Fault)
    BY DEF DailyProcessing
  <1>3. ActorsTyped'
    <2>1. GetOutdatedBudgets \subseteq DOMAIN budgets
      BY DEF GetOutdatedBudgets
    <2>2. \A x \in q.todo : x.id \in DOMAIN budgets' /\ Dated(x.row)
      BY <1>1, <1>2, <2>1, LoadedIs
    <2>3. q.cur \in DOMAIN budgets' \cup {NoBudget} /\ ~(q.at \in {"write", "archive"})
      BY <1>1
    <2>4. QED
      BY <1>1, <1>2, <2>2, <2>3, ActorsStay DEF Typed
  <1>4. QueueTyped'
    <2>1. CASE queue' = queue
      BY <2>1, QueueSame DEF Typed
    <2>2. CASE t \in BagToSet(queue) /\ queue' = queue (-) SetToBag({t})
      BY <2>2, Dequeued DEF Typed
    <2>3. QED
      BY <2>1, <2>2 DEF DailyProcessing, BagIn, BagToSet
  <1>5. BudgetsTyped' /\ CountersTyped'
    <2>1. excused' \subseteq DOMAIN budgets
      BY <1>2 DEF Typed, BudgetsTyped
    <2>2. QED
      BY <1>2, <2>1, BudgetsSame, CountersSame DEF Typed
  <1>6. QED
    BY <1>3, <1>4, <1>5 DEF Typed

\* The dates of a copy.
LEMMA NewDates ==
    ASSUME NEW b \in Row, Dated(b), NEW d, d = CalculateNewDates(b)
    PROVE  /\ b.period = "DAILY" => d = <<AddDate(b.start, 0, 0, 1), AddDate(b.end, 0, 0, 1)>>
           /\ b.period = "WEEKLY" => d = <<AddDate(b.start, 0, 0, 7), AddDate(b.end, 0, 0, 7)>>
           /\ b.period = "MONTHLY" => d = <<AddDate(b.start, 0, 1, 0), AddDate(b.end, 0, 1, 0)>>
           /\ b.period = "YEARLY" => d = <<AddDate(b.start, 1, 0, 0), AddDate(b.end, 1, 0, 0)>>
           /\ b.period = "CUSTOM" => d = <<b.end, b.end + (b.end - b.start)>>
           /\ d[1] \in Int /\ d[2] \in Int
           /\ b.period # "CUSTOM" => d[1] \in Nat /\ d[2] \in Nat
  <1>1. b.period \in Periods /\ b.start \in Int /\ b.end \in Int
    BY DEF Row
  <1>2. CASE b.period = "CUSTOM"
    <2>1. d = <<b.end, b.end + (b.end - b.start)>>
      BY <1>2 DEF CalculateNewDates
    <2>2. QED
      BY <1>1, <1>2, <2>1
  <1>3. CASE b.period = "DAILY"
    <2>1. d = <<AddDate(b.start, 0, 0, 1), AddDate(b.end, 0, 0, 1)>>
      BY <1>3 DEF CalculateNewDates
    <2>2. AddDate(b.start, 0, 0, 1) \in Nat /\ AddDate(b.end, 0, 0, 1) \in Nat
      <3>1. b.start \in Nat /\ b.end \in Nat
        BY <1>3 DEF Dated
      <3>2. AddDate(b.start, 0, 0, 1) = b.start + 1 /\ AddDate(b.end, 0, 0, 1) = b.end + 1
        BY <3>1, AddDays, SMTT(30)
      <3>3. QED
        BY <3>1, <3>2
    <2>3. QED
      BY <1>3, <2>1, <2>2
  <1>4. CASE b.period = "WEEKLY"
    <2>1. d = <<AddDate(b.start, 0, 0, 7), AddDate(b.end, 0, 0, 7)>>
      BY <1>4 DEF CalculateNewDates
    <2>2. AddDate(b.start, 0, 0, 7) \in Nat /\ AddDate(b.end, 0, 0, 7) \in Nat
      <3>1. b.start \in Nat /\ b.end \in Nat
        BY <1>4 DEF Dated
      <3>2. AddDate(b.start, 0, 0, 7) = b.start + 7 /\ AddDate(b.end, 0, 0, 7) = b.end + 7
        BY <3>1, AddDays, SMTT(30)
      <3>3. QED
        BY <3>1, <3>2
    <2>3. QED
      BY <1>4, <2>1, <2>2
  <1>5. CASE b.period = "MONTHLY"
    <2>1. d = <<AddDate(b.start, 0, 1, 0), AddDate(b.end, 0, 1, 0)>>
      BY <1>5 DEF CalculateNewDates
    <2>2. AddDate(b.start, 0, 1, 0) \in Nat /\ AddDate(b.end, 0, 1, 0) \in Nat
      BY <1>5, AddMonth DEF Dated
    <2>3. QED
      BY <1>5, <2>1, <2>2
  <1>6. CASE b.period = "YEARLY"
    <2>1. d = <<AddDate(b.start, 1, 0, 0), AddDate(b.end, 1, 0, 0)>>
      BY <1>6 DEF CalculateNewDates
    <2>2. AddDate(b.start, 1, 0, 0) \in Nat /\ AddDate(b.end, 1, 0, 0) \in Nat
      BY <1>6, AddYear DEF Dated
    <2>3. QED
      BY <1>6, <2>1, <2>2
  <1>7. QED
    BY <1>1, <1>2, <1>3, <1>4, <1>5, <1>6 DEF Periods

\* A copy is made of a loaded budget that repeats.
Copy(b, id) == [b EXCEPT !.start = CalculateNewDates(b)[1], !.end = CalculateNewDates(b)[2],
                         !.archived = FALSE, !.deleted = FALSE, !.origin = id]

LEMMA CopyIs ==
    ASSUME NEW b \in Row, Dated(b), NEW id \in Nat
    PROVE  LET c == Copy(b, id)
           IN  /\ c \in Row /\ Dated(c) /\ c.origin = id /\ c.user = b.user /\ c.period = b.period
               /\ c.start = CalculateNewDates(b)[1] /\ c.end = CalculateNewDates(b)[2]
               /\ ~c.archived
  <1>1. PICK d : d = CalculateNewDates(b)
    OBVIOUS
  <1>2. PICK c : c = Copy(b, id)
    OBVIOUS
  <1>3. d[1] \in Int /\ d[2] \in Int /\ (b.period # "CUSTOM" => d[1] \in Nat /\ d[2] \in Nat)
    BY <1>1, NewDates
  <1>4. c = [user |-> b.user, start |-> d[1], end |-> d[2], categories |-> b.categories,
             period |-> b.period, repeat |-> b.repeat, archived |-> FALSE, deleted |-> FALSE,
             origin |-> id]
    BY <1>1, <1>2 DEF Copy, Row
  <1>5. /\ b.user \in Users /\ b.categories \in {x.categories : x \in Bodies}
        /\ b.period \in Periods /\ b.repeat \in BOOLEAN
    BY DEF Row
  <1>6. c \in Row /\ Dated(c)
    BY <1>3, <1>4, <1>5 DEF Row, Dated
  <1>7. QED
    BY <1>1, <1>2, <1>4, <1>6

\* What the copying of a loaded budget does.
LEMMA CreateCopyIs ==
    ASSUME Typed, NEW a \in Actors, CreateCopy(a)
    PROVE  /\ actor[a].at = "copy"
           /\ \E q \in Work, b \in actor[a].todo :
                 /\ actor' = [actor EXCEPT ![a] = q]
                 /\ q.at = "archive" /\ q.cur = b.id /\ q.todo = actor[a].todo \ {b}
                 /\ q.task = actor[a].task
                 /\ \/ /\ budgets' = Append(budgets, Copy(b.row, b.id))
                       /\ collected' = Append(collected, 0)
                       /\ excused' = excused \cup {Len(budgets) + 1}
                    \/ budgets' = budgets /\ collected' = collected /\ excused' = excused
  <1>1. PICK r : r = actor[a]
    OBVIOUS
  <1>2. r \in Work /\ Refers(r) /\ r.at = "copy"
    BY <1>1, WorkIs DEF CreateCopy
  <1>3. PICK b \in r.todo :
          /\ actor' = [actor EXCEPT ![a].at = "archive", ![a].cur = b.id, ![a].todo = @ \ {b}]
          /\ IF b.row.repeat
             THEN /\ budgets' = Append(budgets, Copy(b.row, b.id))
                  /\ collected' = Append(collected, 0)
                  /\ Excuse({Len(budgets) + 1})
             ELSE UNCHANGED <<budgets, collected, excused>>
    BY <1>1 DEF CreateCopy, Copy
  <1>4. PICK q : q = [r EXCEPT !.at = "archive", !.cur = b.id, !.todo = @ \ {b}]
    OBVIOUS
  <1>5. b.id \in Nat
    BY <1>1, WorkIs
  <1>6. q = [at |-> "archive", task |-> r.task, todo |-> r.todo \ {b}, cur |-> b.id,
             total |-> r.total, failed |-> r.failed]
    BY <1>2, <1>4 DEF Work
  <1>7. /\ r.task \in Task \cup {NoTask} /\ r.todo \in SUBSET LoadedRow
        /\ r.total \in Int /\ r.failed \in BOOLEAN
    BY <1>2 DEF Work
  <1>8. q \in Work
    BY <1>5, <1>6, <1>7 DEF Work
  <1>9. actor' = [actor EXCEPT ![a] = q]
    BY <1>1, <1>3, <1>4 DEF Typed, ActorsTyped, Work
  <1>10. q.at = "archive" /\ q.cur = b.id /\ q.todo = r.todo \ {b} /\ q.task = r.task
    BY <1>6
  <1>11. \/ /\ budgets' = Append(budgets, Copy(b.row, b.id))
            /\ collected' = Append(collected, 0)
            /\ excused' = excused \cup {Len(budgets) + 1}
         \/ budgets' = budgets /\ collected' = collected /\ excused' = excused
    BY <1>3 DEF Excuse
  <1>12. QED
    BY <1>1, <1>2, <1>8, <1>9, <1>10, <1>11

LEMMA CreateCopyTyped ==
    ASSUME Typed, NEW a \in Actors, CreateCopy(a)
    PROVE  Typed'
  <1>1. PICK q \in Work, b \in actor[a].todo :
          /\ actor' = [actor EXCEPT ![a] = q]
          /\ q.at = "archive" /\ q.cur = b.id /\ q.todo = actor[a].todo \ {b}
          /\ \/ /\ budgets' = Append(budgets, Copy(b.row, b.id))
                /\ collected' = Append(collected, 0)
                /\ excused' = excused \cup {Len(budgets) + 1}
             \/ budgets' = budgets /\ collected' = collected /\ excused' = excused
    BY CreateCopyIs
  <1>2. /\ Refers(actor[a]) /\ b.row \in Row /\ b.id \in Nat
        /\ b.id \in DOMAIN budgets /\ Dated(b.row)
    BY WorkIs DEF Refers
  <1>3. BudgetsTyped /\ ActorsTyped /\ Len(budgets) \in Nat /\ DOMAIN budgets = 1..Len(budgets)
    BY LenProperties DEF Typed, BudgetsTyped
  <1>4. BudgetsTyped' /\ DOMAIN budgets \subseteq DOMAIN budgets'
    <2>1. CASE /\ budgets' = Append(budgets, Copy(b.row, b.id))
               /\ collected' = Append(collected, 0)
               /\ excused' = excused \cup {Len(budgets) + 1}
      <3>1. PICK c : c = Copy(b.row, b.id)
        OBVIOUS
      <3>2. c \in Row /\ Dated(c) /\ c.origin = b.id
        BY <1>2, <3>1, CopyIs
      <3>3. DOMAIN budgets' = 1..(Len(budgets) + 1)
        BY <1>3, <2>1, <3>1, <3>2, AppendProperties DEF BudgetsTyped
      <3>4. c.origin <= Len(budgets) /\ excused' \subseteq DOMAIN budgets'
        BY <1>2, <1>3, <2>1, <3>2, <3>3 DEF BudgetsTyped
      <3>5. QED
        BY <1>3, <2>1, <3>1, <3>2, <3>4, RowAdded
    <2>2. CASE budgets' = budgets /\ collected' = collected /\ excused' = excused
      BY <1>3, <2>2, BudgetsSame DEF BudgetsTyped
    <2>3. QED
      BY <1>1, <2>1, <2>2
  <1>5. ActorsTyped'
    <2>1. \A x \in q.todo : x.id \in DOMAIN budgets' /\ Dated(x.row)
      BY <1>1, <1>2, <1>4 DEF Refers
    <2>2. b.id \in DOMAIN budgets' /\ b.id # NoBudget
      BY <1>2, <1>3, <1>4 DEF NoBudget
    <2>3. QED
      BY <1>1, <1>3, <1>4, <2>1, <2>2, ActorsStay
  <1>6. QueueTyped' /\ CountersTyped'
    <2>1. queue' = queue /\ UNCHANGED <<rows, today, requests, faults>>
      BY DEF CreateCopy
    <2>2. QED
      BY <2>1, QueueSame, CountersSame DEF Typed
  <1>7. QED
    BY <1>4, <1>5, <1>6 DEF Typed

\* The loaded budget is archived, or its archiving or copying fails: the next one.
LEMMA GoesOnCopying ==
    ASSUME Typed, NEW a \in Actors, ArchiveOutdated(a) \/ ProcessingFails(a)
    PROVE  \E q \in Work :
             /\ actor' = [actor EXCEPT ![a] = q]
             /\ q.at = "copy" /\ q.task = actor[a].task
             /\ \/ actor[a].at = "archive" /\ q.todo = actor[a].todo /\ q.cur = NoBudget
                \/ /\ actor[a].at = "copy" /\ q.cur = actor[a].cur
                   /\ ProcessingFails(a) /\ \E b \in actor[a].todo : q.todo = actor[a].todo \ {b}
  <1>1. PICK r : r = actor[a]
    OBVIOUS
  <1>2. r \in Work /\ NoBudget \in Nat
    BY <1>1, WorkIs DEF NoBudget
  <1>3. CASE /\ r.at = "archive"
             /\ actor' = [actor EXCEPT ![a].at = "copy", ![a].cur = NoBudget]
    <2>1. PICK q : q = [r EXCEPT !.at = "copy", !.cur = NoBudget]
      OBVIOUS
    <2>2. q = [at |-> "copy", task |-> r.task, todo |-> r.todo, cur |-> NoBudget,
               total |-> r.total, failed |-> r.failed]
      BY <1>2, <2>1 DEF Work
    <2>3. /\ r.task \in Task \cup {NoTask} /\ r.todo \in SUBSET LoadedRow
          /\ r.total \in Int /\ r.failed \in BOOLEAN
      BY <1>2 DEF Work
    <2>4. q \in Work
      BY <1>2, <2>2, <2>3 DEF Work
    <2>5. actor' = [actor EXCEPT ![a] = q]
      BY <1>1, <1>3, <2>1 DEF Typed, ActorsTyped, Work
    <2>6. q.at = "copy" /\ q.task = r.task /\ q.todo = r.todo /\ q.cur = NoBudget
      BY <2>2
    <2>7. QED
      BY <1>1, <1>3, <2>4, <2>5, <2>6
  <1>4. ASSUME r.at = "copy", ProcessingFails(a), NEW b \in r.todo,
               actor' = [actor EXCEPT ![a].todo = @ \ {b}]
        PROVE  \E q \in Work :
                 /\ actor' = [actor EXCEPT ![a] = q] /\ q.at = "copy" /\ q.task = r.task
                 /\ q.cur = r.cur /\ q.todo = r.todo \ {b}
    <2>1. PICK q : q = [r EXCEPT !.todo = @ \ {b}]
      OBVIOUS
    <2>2. q \in Work /\ q.at = "copy" /\ q.task = r.task /\ q.cur = r.cur /\ q.todo = r.todo \ {b}
      BY <1>2, <1>4, <2>1 DEF Work
    <2>3. actor' = [actor EXCEPT ![a] = q]
      BY <1>1, <1>4, <2>1 DEF Typed, ActorsTyped, Work
    <2>4. QED
      BY <2>2, <2>3
  <1>5. CASE ArchiveOutdated(a)
    BY <1>1, <1>3, <1>5 DEF ArchiveOutdated
  <1>6. CASE ProcessingFails(a)
    <2>1. CASE /\ r.at = "archive"
               /\ actor' = [actor EXCEPT ![a].at = "copy", ![a].cur = NoBudget]
      BY <1>3, <2>1
    <2>2. CASE r.at = "copy" /\ \E b \in r.todo : actor' = [actor EXCEPT ![a].todo = @ \ {b}]
      <3>1. PICK b \in r.todo : actor' = [actor EXCEPT ![a].todo = @ \ {b}]
        BY <2>2
      <3>2. PICK q \in Work :
                 /\ actor' = [actor EXCEPT ![a] = q] /\ q.at = "copy" /\ q.task = r.task
                 /\ q.cur = r.cur /\ q.todo = r.todo \ {b}
        BY <1>4, <1>6, <2>2, <3>1
      <3>3. QED
        BY <1>1, <1>6, <2>2, <3>1, <3>2
    <2>3. QED
      BY <1>1, <1>6, <2>1, <2>2 DEF ProcessingFails
  <1>7. QED
    BY <1>5, <1>6

LEMMA ProcessingTyped ==
    ASSUME Typed, NEW a \in Actors, ArchiveOutdated(a) \/ ProcessingFails(a)
    PROVE  Typed'
  <1>1. PICK q \in Work :
             /\ actor' = [actor EXCEPT ![a] = q] /\ q.at = "copy"
             /\ q.cur \in {NoBudget, actor[a].cur} /\ q.todo \subseteq actor[a].todo
    BY GoesOnCopying
  <1>2. Refers(actor[a])
    BY WorkIs
  <1>3. /\ queue' = queue /\ excused' = excused /\ collected' = collected
        /\ UNCHANGED <<rows, today, requests>> /\ (faults' = faults \/ Fault)
    BY DEF ArchiveOutdated, ProcessingFails
  <1>4. BudgetsTyped' /\ DOMAIN budgets' = DOMAIN budgets
    <2>1. CASE ArchiveOutdated(a)
      <3>1. PICK i \in DOMAIN budgets : i = actor[a].cur
        BY <1>2, <2>1 DEF ArchiveOutdated, Refers
      <3>2. PICK b : b = [budgets[i] EXCEPT !.archived = TRUE]
        OBVIOUS
      <3>3. budgets' = [budgets EXCEPT ![i] = b]
        BY <2>1, <3>1, <3>2 DEF ArchiveOutdated
      <3>4. QED
        BY <1>3, <3>2, <3>3, FlagTyped
    <2>2. CASE ProcessingFails(a)
      <3>1. budgets' = budgets /\ excused' \subseteq DOMAIN budgets
        BY <1>3, <2>2 DEF ProcessingFails, Typed, BudgetsTyped
      <3>2. QED
        BY <1>3, <3>1, BudgetsSame DEF Typed
    <2>3. QED
      BY <2>1, <2>2
  <1>5. ActorsTyped'
    <2>1. \A x \in q.todo : x.id \in DOMAIN budgets' /\ Dated(x.row)
      BY <1>1, <1>2, <1>4 DEF Refers
    <2>2. q.cur \in DOMAIN budgets' \cup {NoBudget} /\ ~(q.at \in {"write", "archive"})
      BY <1>1, <1>2, <1>4 DEF Refers
    <2>3. QED
      BY <1>1, <1>4, <2>1, <2>2, ActorsStay DEF Typed
  <1>6. QueueTyped' /\ CountersTyped'
    BY <1>3, QueueSame, CountersSame DEF Typed
  <1>7. QED
    BY <1>4, <1>5, <1>6 DEF Typed

\* The tasks a dying process leaves to the queue.
Lost == {a \in Actors : actor[a].task # NoTask}

Back == UNION {BagToSet(Requeue(actor[a].task)) : a \in Lost}

LEMMA CrashQueue ==
    ASSUME Typed, Crash
    PROVE  QueueTyped' /\ BagToSet(queue') = BagToSet(queue) \cup Back
  <1>1. PICK n : n = [t \in Back |-> Cardinality({a \in Lost : BagIn(t, Requeue(actor[a].task))})]
    OBVIOUS
  <1>2. queue' = queue (+) n
    BY <1>1 DEF Crash, Back, Lost
  <1>3. ASSUME NEW a \in Lost PROVE actor[a].task \in Task
    BY WorkIs DEF Lost
  <1>4. Back \subseteq Task
    BY <1>3, RequeueIs DEF Back
  <1>5. ASSUME NEW t \in Back PROVE n[t] \in Nat /\ n[t] > 0
    <2>1. PICK S : S = {a \in Lost : BagIn(t, Requeue(actor[a].task))}
      OBVIOUS
    <2>2. IsFiniteSet(S)
      <3>1. S \subseteq Actors
        BY <2>1 DEF Lost
      <3>2. QED
        BY <3>1, BudgetsAssumption, FS_Subset DEF BudgetsAssumption
    <2>3. S # {}
      BY <2>1 DEF Back, BagIn, BagToSet
    <2>4. Cardinality(S) \in Nat /\ Cardinality(S) # 0
      BY <2>2, <2>3, FS_CardinalityType, FS_EmptySet
    <2>5. QED
      BY <1>1, <2>1, <2>4
  <1>6. IsABag(n) /\ BagToSet(n) = Back
    BY <1>1, <1>5 DEF IsABag, BagToSet
  <1>7. IsABag(queue') /\ BagToSet(queue') = BagToSet(queue) \cup Back
    BY <1>2, <1>6, BagSum DEF Typed, QueueTyped
  <1>8. QED
    BY <1>4, <1>7 DEF Typed, QueueTyped

LEMMA CrashTyped ==
    ASSUME Typed, Crash
    PROVE  Typed'
  <1>1. QueueTyped'
    BY CrashQueue
  <1>2. /\ budgets' = budgets /\ collected' = collected /\ UNCHANGED <<rows, today, requests>>
        /\ Fault /\ actor' = [a \in Actors |-> Idle]
    BY DEF Crash
  <1>3. ActorsTyped'
    <2>1. actor' \in [Actors -> Work] /\ \A a \in Actors : actor'[a] = Idle
      BY <1>2, IdleIs
    <2>2. QED
      BY <2>1, IdleIs DEF ActorsTyped, Refers
  <1>4. BudgetsTyped'
    <2>1. ASSUME NEW a \in Actors
          PROVE  {b.id : b \in actor[a].todo} \cup ({actor[a].cur} \ {NoBudget}) \subseteq DOMAIN budgets
      BY WorkIs DEF Refers
    <2>2. PICK asking : /\ asking \subseteq Actors
                        /\ excused' = excused \cup ((UNION {GivenUp(actor[a].task) : a \in Lost})
                             \cup (UNION {{b.id : b \in actor[a].todo} \cup ({actor[a].cur} \ {NoBudget}) : a \in asking}))
      BY DEF Crash, Lost, Excuse
    <2>3. UNION {GivenUp(actor[a].task) : a \in Lost} \subseteq DOMAIN budgets
      BY GivenUpIs
    <2>4. UNION {{b.id : b \in actor[a].todo} \cup ({actor[a].cur} \ {NoBudget}) : a \in asking}
            \subseteq DOMAIN budgets
      BY <2>1, <2>2, Zenon
    <2>5. excused \subseteq DOMAIN budgets
      BY DEF Typed, BudgetsTyped
    <2>6. excused' \subseteq DOMAIN budgets
      BY <2>2, <2>3, <2>4, <2>5, Zenon
    <2>7. QED
      BY <1>2, <2>6, BudgetsSame DEF Typed
  <1>5. CountersTyped'
    BY <1>2, CountersSame DEF Typed
  <1>6. QED
    BY <1>1, <1>3, <1>4, <1>5 DEF Typed

LEMMA ClockTyped ==
    ASSUME Typed, Schedule \/ Tick
    PROVE  Typed'
  <1>1. /\ budgets' = budgets /\ collected' = collected /\ excused' = excused /\ actor' = actor
        /\ UNCHANGED <<rows, requests, faults>>
    BY DEF Schedule, Tick
  <1>2. BudgetsTyped' /\ ActorsTyped'
    <2>1. excused' \subseteq DOMAIN budgets /\ DOMAIN budgets \subseteq DOMAIN budgets'
      BY <1>1 DEF Typed, BudgetsTyped
    <2>2. QED
      BY <1>1, <2>1, BudgetsSame, ActorsSame DEF Typed
  <1>3. QueueTyped'
    <2>1. CASE Schedule
      <3>1. PICK t \in Task : t = [type |-> TypeBudgetProcessing, user |-> NoUser, retried |-> 0]
        BY NewTask
      <3>2. queue' = queue (+) SetToBag({t})
        BY <2>1, <3>1 DEF Schedule, Enqueue
      <3>3. QED
        BY <3>2, Enqueued DEF Typed
    <2>2. CASE Tick
      BY <2>2, QueueSame DEF Typed, Tick
    <2>3. QED
      BY <2>1, <2>2
  <1>4. CountersTyped'
    <2>1. today' \in Days
      BY DEF Schedule, Tick, Typed, CountersTyped
    <2>2. QED
      BY <1>1, <2>1, CountersStep DEF Typed, CountersTyped
  <1>5. QED
    BY <1>2, <1>3, <1>4 DEF Typed

\* The actions, one by one.
LEMMA NextIs ==
    ASSUME Next
    PROVE  \/ \E u \in Users, s \in Slots, e \in Expenses \cup {NoExpense} : WriteTransaction(u, s, e)
           \/ \E u \in Users, a \in Actors, body \in Bodies : Create(a, u, body)
           \/ \E u \in Users, a \in Actors, body \in Bodies, i \in DOMAIN budgets : Update(a, u, i, body)
           \/ \E u \in Users, i \in DOMAIN budgets : Delete(u, i) \/ Archive(u, i)
           \/ \E a \in Actors, t \in BagToSet(queue) : RecalculateCollectedAmounts(a, t)
           \/ \E a \in Actors, t \in BagToSet(queue) \cup {NoTask} : DailyProcessing(a, t)
           \/ \E a \in Actors : ReadRows(a)
           \/ \E a \in Actors : UpdateCollectedAmount(a)
           \/ \E a \in Actors : CreateCopy(a)
           \/ \E a \in Actors : ArchiveOutdated(a) \/ ProcessingFails(a)
           \/ \E a \in Actors : Return(a)
           \/ \E a \in Actors : RecalculateFails(a)
           \/ Crash
           \/ Schedule \/ Tick
  <1>1. CASE Request
    BY <1>1 DEF Request
  <1>2. ASSUME NEW a \in Actors,
               \/ Start(a) \/ DailyProcessing(a, NoTask)
               \/ Step(a) \/ RecalculateFails(a) \/ ProcessingFails(a)
        PROVE  \/ \E t \in BagToSet(queue) : RecalculateCollectedAmounts(a, t)
               \/ \E t \in BagToSet(queue) \cup {NoTask} : DailyProcessing(a, t)
               \/ ReadRows(a) \/ UpdateCollectedAmount(a) \/ CreateCopy(a)
               \/ ArchiveOutdated(a) \/ ProcessingFails(a) \/ Return(a) \/ RecalculateFails(a)
    BY <1>2 DEF Start, Step
  <1>3. QED
    BY <1>1, <1>2 DEF Next

LEMMA StepTyped ==
    ASSUME Typed, [Next]_vars
    PROVE  Typed'
  <1>1. CASE UNCHANGED vars
    <2>1. BudgetsTyped' /\ QueueTyped' /\ CountersTyped'
      BY <1>1 DEF Typed, BudgetsTyped, QueueTyped, CountersTyped, vars
    <2>2. ActorsTyped'
      BY <1>1 DEF Typed, ActorsTyped, Refers, vars
    <2>3. QED
      BY <2>1, <2>2 DEF Typed
  <1>2. CASE Next
    BY <1>2, NextIs, WriteTransactionTyped, CreateTyped, UpdateTyped, FlagActionsTyped, RecalculateTyped,
       DailyTyped, ReadRowsTyped, UpdateCollectedAmountTyped, CreateCopyTyped, ProcessingTyped,
       ReturnTyped, RecalculateFailsTyped, CrashTyped, ClockTyped
  <1>3. QED
    BY <1>1, <1>2

\* The types are invariant, for any number of goroutines.
THEOREM BudgetsInvariant == Spec => []Typed
  <1>1. Typed /\ [Next]_vars => Typed'
    BY StepTyped
  <1>2. QED
    BY <1>1, InitTyped, PTL DEF Spec

\* Every row, task and goroutine keeps its type: the origin of a copy is an older
\* budget, and what a goroutine has in hand are budgets that exist (GetOutdatedBudgets,
\* recalculateBudget).
THEOREM BudgetsTypes == Spec => []TypeOK
  <1>1. Typed => TypeOK
    <2> SUFFICES ASSUME Typed PROVE TypeOK
      OBVIOUS
    <2>1. ASSUME NEW i \in DOMAIN budgets
          PROVE  /\ budgets[i].user \in Users
                 /\ budgets[i].start \in Int /\ budgets[i].end \in Int
                 /\ budgets[i].period \in Periods
                 /\ budgets[i].origin \in 0..(i - 1)
      <3>1. budgets[i] \in Row /\ i \in Nat /\ budgets[i].origin < i
        BY ElementOfSeq DEF Typed, BudgetsTyped
      <3>2. PICK b \in Row : b = budgets[i]
        BY <3>1
      <3>3. b.user \in Users /\ b.start \in Int /\ b.end \in Int /\ b.period \in Periods /\ b.origin \in Nat
        BY DEF Row
      <3>4. QED
        BY <3>1, <3>2, <3>3
    <2>2. collected \in Seq(Int) /\ DOMAIN collected = DOMAIN budgets /\ excused \subseteq DOMAIN budgets
      BY LenProperties DEF Typed, BudgetsTyped
    <2>3. ASSUME NEW a \in Actors
          PROVE  /\ actor[a].at \in {"idle", "read", "write", "copy", "archive"}
                 /\ actor[a].task \in Task \cup {NoTask}
                 /\ \A b \in actor[a].todo : b.id \in DOMAIN budgets
                 /\ actor[a].cur \in DOMAIN budgets \cup {NoBudget}
      BY WorkIs DEF Refers, Work
    <2>4. QED
      BY <2>1, <2>2, <2>3 DEF TypeOK, Typed, QueueTyped, CountersTyped
  <1>2. QED
    BY <1>1, BudgetsInvariant, PTL

-----------------------------------------------------------------------------
(* One goroutine at a time: what it has loaded stays as it was loaded.      *)

\* No step but a request of update changes more of a row than its flags.
WindowsKept == \A i \in DOMAIN budgets : i \in DOMAIN budgets' /\ Window(budgets'[i]) = Window(budgets[i])

LEMMA WindowIs ==
    ASSUME NEW b, NEW c, Window(b) = Window(c)
    PROVE  /\ b.user = c.user /\ b.start = c.start /\ b.end = c.end
           /\ b.categories = c.categories /\ b.period = c.period /\ b.origin = c.origin
  BY DEF Window

LEMMA StaysLoaded ==
    ASSUME Typed, WindowsKept, NEW r, Refers(r), AsLoaded(r), ForUser(r)
    PROVE  AsLoaded(r)' /\ ForUser(r)'
  <1>1. \A i \in DOMAIN budgets : budgets'[i].user = budgets[i].user
    BY WindowIs DEF WindowsKept
  <1>2. AsLoaded(r)'
    BY DEF AsLoaded, WindowsKept, Refers
  <1>3. ForUser(r)'
    BY <1>1 DEF ForUser, Refers
  <1>4. QED
    BY <1>2, <1>3

\* A step of the only goroutine, or of none.
LEMMA OneByOneStep ==
    ASSUME Sequential, Typed, WindowsKept, NEW a \in Actors, NEW q \in Work,
           actor' = [actor EXCEPT ![a] = q], Refers(q), AsLoaded(q), ForUser(q)
    PROVE  OneByOne'
  <1>1. AsLoaded(q)' /\ ForUser(q)'
    BY StaysLoaded
  <1>2. \A c \in Actors : c = a /\ actor'[c] = q
    BY DEF Sequential, Typed, ActorsTyped
  <1>3. QED
    BY <1>1, <1>2 DEF OneByOne, AsLoaded, ForUser

LEMMA OneByOneSame ==
    ASSUME Typed, OneByOne, WindowsKept, actor' = actor
    PROVE  OneByOne'
  <1>1. ASSUME NEW a \in Actors PROVE AsLoaded(actor[a])' /\ ForUser(actor[a])'
    <2>1. PICK r : r = actor[a]
      OBVIOUS
    <2>2. Refers(r) /\ AsLoaded(r) /\ ForUser(r)
      BY <2>1, WorkIs DEF OneByOne
    <2>3. AsLoaded(r)' /\ ForUser(r)'
      BY <2>2, StaysLoaded
    <2>4. actor'[a] = r
      BY <2>1
    <2>5. QED
      BY <2>3, <2>4 DEF AsLoaded, ForUser
  <1>2. QED
    BY <1>1 DEF OneByOne

\* Loading gives each budget once.
LEMMA LoadedOnce ==
    ASSUME Typed, NEW S, S \subseteq DOMAIN budgets, NEW b, NEW c,
           b \in {Loaded(i) : i \in S}, c \in {Loaded(i) : i \in S}, b.id = c.id
    PROVE  b = c
  BY DEF Loaded

LEMMA StartsAsLoaded ==
    ASSUME Typed, NEW S, S \subseteq DOMAIN budgets, NEW q \in Work,
           q.todo = {Loaded(i) : i \in S} \/ q.todo = {},
           q.cur = NoBudget, q.at \in {"read", "copy"}
    PROVE  Refers(q) /\ AsLoaded(q)
             /\ \A b \in q.todo : b.id \in S /\ b.row = budgets[b.id]
  <1>1. \A b \in q.todo : b.id \in S /\ b.row = budgets[b.id] /\ Dated(b.row)
    BY LoadedIs
  <1>2. \A b, c \in q.todo : b.id = c.id => b = c
    BY LoadedOnce
  <1>3. NoBudget \notin DOMAIN budgets
    BY LenProperties DEF Typed, BudgetsTyped, NoBudget
  <1>4. QED
    BY <1>1, <1>2, <1>3 DEF Refers, AsLoaded

LEMMA SameBudgets ==
    ASSUME budgets' = budgets
    PROVE  WindowsKept
  BY DEF WindowsKept

LEMMA FlagKeepsWindows ==
    ASSUME Typed, NEW i \in DOMAIN budgets, NEW b,
           b = [budgets[i] EXCEPT !.deleted = TRUE] \/ b = [budgets[i] EXCEPT !.archived = TRUE],
           budgets' = [budgets EXCEPT ![i] = b], UNCHANGED <<collected, excused>>
    PROVE  WindowsKept
  BY FlagTyped DEF WindowsKept

LEMMA CreateKeepsWindows ==
    ASSUME Typed, NEW b, b \in Row, budgets' = Append(budgets, b)
    PROVE  /\ WindowsKept
           /\ DOMAIN budgets' = DOMAIN budgets \cup {Len(budgets) + 1}
           /\ budgets'[Len(budgets) + 1] = b /\ Len(budgets) + 1 \notin DOMAIN budgets
           /\ \A i \in DOMAIN budgets : budgets'[i] = budgets[i]
  <1>1. budgets \in Seq(Row)
    BY DEF Typed, BudgetsTyped
  <1>2. /\ budgets' \in Seq(Row) /\ Len(budgets') = Len(budgets) + 1
        /\ \A i \in 1..Len(budgets) : budgets'[i] = budgets[i]
        /\ budgets'[Len(budgets) + 1] = b
    BY <1>1, AppendProperties
  <1>3. DOMAIN budgets = 1..Len(budgets) /\ DOMAIN budgets' = 1..(Len(budgets) + 1) /\ Len(budgets) \in Nat
    BY <1>1, <1>2, LenProperties
  <1>4. DOMAIN budgets' = DOMAIN budgets \cup {Len(budgets) + 1} /\ Len(budgets) + 1 \notin DOMAIN budgets
    BY <1>3
  <1>5. QED
    BY <1>2, <1>3, <1>4 DEF WindowsKept

\* The goroutine of a request goes on with the row it has just written.
LEMMA RequestLoads ==
    ASSUME Sequential, Typed, NEW a \in Actors, NEW i \in DOMAIN budgets', i # NoBudget, NEW b,
           budgets'[i] = b, actor' = [actor EXCEPT ![a] = Recalculating(NoTask, {[id |-> i, row |-> b]})]
    PROVE  OneByOne' /\ \A c \in Actors : Has(actor'[c], i) /\ actor'[c].at = "read"
  <1>1. PICK q : q = Recalculating(NoTask, {[id |-> i, row |-> b]})
    OBVIOUS
  <1>2. q = [at |-> "read", task |-> NoTask, todo |-> {[id |-> i, row |-> b]}, cur |-> NoBudget,
             total |-> 0, failed |-> FALSE]
    BY <1>1 DEF Recalculating, Idle
  <1>3. \A c \in Actors : actor'[c] = q
    BY <1>1 DEF Sequential, Typed, ActorsTyped
  <1>4. /\ q.at = "read" /\ q.task = NoTask /\ q.cur = NoBudget
        /\ \A x \in q.todo : x.id = i /\ x.row = b
        /\ \A x, y \in q.todo : x = y
        /\ Has(q, i)
    <2>1. PICK x : x = [id |-> i, row |-> b]
      OBVIOUS
    <2>2. x.id = i /\ x.row = b
      BY <2>1
    <2>3. q.at = "read" /\ q.task = NoTask /\ q.cur = NoBudget /\ q.todo = {x}
      BY <1>2, <2>1
    <2>4. QED
      BY <2>2, <2>3 DEF Has
  <1>5. AsLoaded(q)' /\ ForUser(q)'
    BY <1>4 DEF AsLoaded, ForUser
  <1>6. QED
    BY <1>3, <1>4, <1>5 DEF OneByOne, AsLoaded, ForUser

LEMMA OneByOneCreate ==
    ASSUME Sequential, Typed, NEW a \in Actors, NEW u \in Users, NEW body \in Bodies, Create(a, u, body)
    PROVE  /\ OneByOne' /\ WindowsKept
           /\ \A c \in Actors : Has(actor'[c], Len(budgets) + 1) /\ actor'[c].at = "read"
  <1>1. PICK b : b = Created(u, body)
    OBVIOUS
  <1>2. b \in Row
    BY <1>1, ColumnsIs DEF Created
  <1>3. PICK i : i = Len(budgets) + 1
    OBVIOUS
  <1>4. /\ budgets' = Append(budgets, b)
        /\ actor' = [actor EXCEPT ![a] = Recalculating(NoTask, {[id |-> i, row |-> b]})]
    BY <1>1, <1>3 DEF Create, Created
  <1>5. WindowsKept /\ i \in DOMAIN budgets' /\ budgets'[i] = b
    BY <1>2, <1>3, <1>4, CreateKeepsWindows
  <1>6. i # NoBudget
    BY <1>3, LenProperties DEF NoBudget, Typed, BudgetsTyped
  <1>7. QED
    BY <1>3, <1>4, <1>5, <1>6, RequestLoads

LEMMA OneByOneUpdate ==
    ASSUME Sequential, Typed, NEW a \in Actors, NEW u \in Users, NEW i \in DOMAIN budgets,
           NEW body \in Bodies, Update(a, u, i, body)
    PROVE  OneByOne' /\ \A c \in Actors : Has(actor'[c], i) /\ actor'[c].at = "read"
  <1>1. PICK b : b = Columns(body, budgets[i])
    OBVIOUS
  <1>2. /\ budgets' = [budgets EXCEPT ![i] = b]
        /\ actor' = [actor EXCEPT ![a] = Recalculating(NoTask, {[id |-> i, row |-> b]})]
    BY <1>1 DEF Update
  <1>3. i \in DOMAIN budgets' /\ budgets'[i] = b
    BY <1>2
  <1>4. i # NoBudget
    BY LenProperties DEF NoBudget, Typed, BudgetsTyped
  <1>5. QED
    BY <1>2, <1>3, <1>4, RequestLoads

LEMMA OneByOneRecalculate ==
    ASSUME Sequential, Typed, NEW a \in Actors, NEW t \in BagToSet(queue),
           RecalculateCollectedAmounts(a, t)
    PROVE  OneByOne'
  <1>1. PICK q \in Work :
             /\ actor' = [actor EXCEPT ![a] = q]
             /\ q.at = "read" /\ q.task = t /\ q.cur = NoBudget
             /\ q.todo = {Loaded(i) : i \in ActiveOf(t.user)} \/ q.todo = {}
    BY RecalculateIs
  <1>2. ActiveOf(t.user) \subseteq DOMAIN budgets /\ \A i \in ActiveOf(t.user) : budgets[i].user = t.user
    BY DEF ActiveOf
  <1>3. Refers(q) /\ AsLoaded(q) /\ \A b \in q.todo : b.row.user = t.user
    BY <1>1, <1>2, StartsAsLoaded, ZenonT(30)
  <1>4. t.type = TypeBudgetUserUpdate /\ budgets' = budgets
    BY DEF RecalculateCollectedAmounts
  <1>5. ForUser(q)
    BY <1>1, <1>3, <1>4 DEF ForUser
  <1>6. QED
    BY <1>1, <1>3, <1>4, <1>5, SameBudgets, OneByOneStep

LEMMA OneByOneDaily ==
    ASSUME Sequential, Typed, NEW a \in Actors, NEW t \in BagToSet(queue) \cup {NoTask},
           DailyProcessing(a, t)
    PROVE  OneByOne'
  <1>1. PICK q \in Work :
             /\ actor' = [actor EXCEPT ![a] = q]
             /\ q.at = "copy" /\ q.task = t /\ q.cur = NoBudget
             /\ q.todo = {Loaded(i) : i \in GetOutdatedBudgets} \/ q.todo = {}
    BY ONLY Typed, DailyProcessing(a, t), DailyIs
  <1>2. GetOutdatedBudgets \subseteq DOMAIN budgets
    BY DEF GetOutdatedBudgets
  <1>3. Refers(q) /\ AsLoaded(q)
    BY <1>1, <1>2, StartsAsLoaded
  <1>4. t.type # TypeBudgetUserUpdate /\ budgets' = budgets
    BY TaskTypes DEF DailyProcessing
  <1>5. ForUser(q)
    BY <1>1, <1>4 DEF ForUser
  <1>6. QED
    BY <1>1, <1>3, <1>4, <1>5, SameBudgets, OneByOneStep

LEMMA OneByOneReadRows ==
    ASSUME Sequential, Typed, OneByOne, NEW a \in Actors, ReadRows(a)
    PROVE  OneByOne'
  <1>1. PICK q \in Work, b \in actor[a].todo :
             /\ actor' = [actor EXCEPT ![a] = q] /\ actor[a].at = "read"
             /\ q.at = "write" /\ q.cur = b.id /\ q.todo = actor[a].todo \ {b}
             /\ q.task = actor[a].task
    BY ReadRowsIs
  <1>2. Refers(actor[a]) /\ AsLoaded(actor[a]) /\ ForUser(actor[a])
    BY WorkIs DEF OneByOne
  <1>3. b.id \in DOMAIN budgets /\ b.id # NoBudget
    BY <1>2, LenProperties DEF Refers, NoBudget, Typed, BudgetsTyped
  <1>4. Refers(q)
    BY <1>1, <1>2, <1>3 DEF Refers
  <1>5. AsLoaded(q)
    BY <1>1, <1>2 DEF AsLoaded
  <1>6. ForUser(q)
    <2>1. b.row.user = budgets[b.id].user
      BY <1>2, WindowIs DEF AsLoaded
    <2>2. QED
      BY <1>1, <1>2, <2>1 DEF ForUser
  <1>7. budgets' = budgets
    BY DEF ReadRows
  <1>8. QED
    BY <1>1, <1>4, <1>5, <1>6, <1>7, SameBudgets, OneByOneStep

\* A goroutine that keeps its task and what it has left to do.
LEMMA KeepsLoaded ==
    ASSUME Typed, OneByOne, NEW a \in Actors, NEW q \in Work,
           q.task = actor[a].task, q.todo \subseteq actor[a].todo, q.cur = NoBudget,
           \/ q.at = "read" /\ actor[a].at \in {"read", "write"}
           \/ q.at = "copy" /\ actor[a].at \in {"copy", "archive"}
    PROVE  Refers(q) /\ AsLoaded(q) /\ ForUser(q)
  <1>1. Refers(actor[a]) /\ AsLoaded(actor[a]) /\ ForUser(actor[a])
    BY WorkIs DEF OneByOne
  <1>2. NoBudget \notin DOMAIN budgets
    BY LenProperties DEF Typed, BudgetsTyped, NoBudget
  <1>3. Refers(q)
    BY <1>1 DEF Refers
  <1>4. AsLoaded(q)
    BY <1>1, <1>2, <1>3 DEF AsLoaded, Refers
  <1>5. ForUser(q)
    BY <1>1 DEF ForUser
  <1>6. QED
    BY <1>3, <1>4, <1>5

LEMMA OneByOneUpdateCollectedAmount ==
    ASSUME Sequential, Typed, OneByOne, NEW a \in Actors, UpdateCollectedAmount(a)
    PROVE  OneByOne'
  <1>1. PICK q \in Work :
             /\ actor' = [actor EXCEPT ![a] = q] /\ actor[a].at = "write"
             /\ q.at = "read" /\ q.cur = NoBudget /\ q.todo = actor[a].todo
             /\ q.task = actor[a].task
    BY UpdateCollectedAmountIs
  <1>2. Refers(q) /\ AsLoaded(q) /\ ForUser(q)
    BY <1>1, KeepsLoaded
  <1>3. budgets' = budgets
    BY DEF UpdateCollectedAmount
  <1>4. QED
    BY <1>1, <1>2, <1>3, SameBudgets, OneByOneStep

LEMMA OneByOneRecalculateFails ==
    ASSUME Sequential, Typed, OneByOne, NEW a \in Actors, RecalculateFails(a)
    PROVE  OneByOne'
  <1>1. PICK q \in Work :
             /\ actor' = [actor EXCEPT ![a] = q]
             /\ q.at = "read" /\ q.task = actor[a].task
             /\ \/ actor[a].at = "read" /\ q.cur = actor[a].cur
                \/ actor[a].at = "write" /\ q.cur = NoBudget
             /\ q.todo \subseteq actor[a].todo
    BY RecalculateFailsIs
  <1>2. q.cur = NoBudget /\ actor[a].at \in {"read", "write"}
    BY <1>1 DEF OneByOne, AsLoaded
  <1>3. Refers(q) /\ AsLoaded(q) /\ ForUser(q)
    BY <1>1, <1>2, KeepsLoaded
  <1>4. budgets' = budgets
    BY DEF RecalculateFails
  <1>5. QED
    BY <1>1, <1>3, <1>4, SameBudgets, OneByOneStep

LEMMA OneByOneCreateCopy ==
    ASSUME Sequential, Typed, OneByOne, NEW a \in Actors, CreateCopy(a)
    PROVE  OneByOne' /\ WindowsKept
  <1>1. PICK q \in Work, b \in actor[a].todo :
             /\ actor' = [actor EXCEPT ![a] = q]
             /\ q.at = "archive" /\ q.cur = b.id /\ q.todo = actor[a].todo \ {b}
             /\ q.task = actor[a].task
             /\ budgets' = Append(budgets, Copy(b.row, b.id)) \/ budgets' = budgets
    BY CreateCopyIs
  <1>2. /\ Refers(actor[a]) /\ AsLoaded(actor[a]) /\ ForUser(actor[a]) /\ actor[a].at = "copy"
        /\ b.row \in Row /\ b.id \in Nat
    BY WorkIs, CreateCopyIs DEF OneByOne
  <1>3. b.id \in DOMAIN budgets /\ b.id # NoBudget /\ Dated(b.row)
    BY <1>2, LenProperties DEF Refers, NoBudget, Typed, BudgetsTyped
  <1>4. Refers(q)
    BY <1>1, <1>2, <1>3 DEF Refers
  <1>5. AsLoaded(q)
    BY <1>1, <1>2 DEF AsLoaded
  <1>6. ForUser(q)
    BY <1>1, <1>2 DEF ForUser
  <1>7. WindowsKept
    <2>1. PICK c : c = Copy(b.row, b.id)
      OBVIOUS
    <2>2. c \in Row
      BY <1>2, <1>3, <2>1, CopyIs
    <2>3. CASE budgets' = Append(budgets, c)
      BY <2>2, <2>3, CreateKeepsWindows
    <2>4. CASE budgets' = budgets
      BY <2>4, SameBudgets
    <2>5. QED
      BY <1>1, <2>1, <2>3, <2>4
  <1>8. QED
    BY <1>1, <1>4, <1>5, <1>6, <1>7, OneByOneStep

\* Archiving sets a flag of the budget in hand.
LEMMA ArchivingIs ==
    ASSUME Typed, NEW a \in Actors, ArchiveOutdated(a)
    PROVE  \E i \in DOMAIN budgets, b \in Row :
             /\ i = actor[a].cur /\ b = [budgets[i] EXCEPT !.archived = TRUE] /\ b.archived
             /\ budgets' = [budgets EXCEPT ![i] = b] /\ UNCHANGED <<collected, excused>>
             /\ b.origin = budgets[i].origin
  <1>1. PICK i \in DOMAIN budgets : i = actor[a].cur
    BY WorkIs DEF ArchiveOutdated, Refers
  <1>2. PICK c \in Row : c = budgets[i]
    BY ElementOfSeq DEF Typed, BudgetsTyped
  <1>3. PICK b : b = [c EXCEPT !.archived = TRUE]
    OBVIOUS
  <1>4. b \in Row /\ b.archived /\ b.origin = c.origin
    BY <1>3 DEF Row
  <1>5. budgets' = [budgets EXCEPT ![i] = b]
    BY <1>1, <1>2, <1>3 DEF ArchiveOutdated
  <1>6. UNCHANGED <<collected, excused>>
    BY DEF ArchiveOutdated
  <1>7. QED
    BY <1>1, <1>2, <1>3, <1>4, <1>5, <1>6

LEMMA OneByOneProcessing ==
    ASSUME Sequential, Typed, OneByOne, NEW a \in Actors, ArchiveOutdated(a) \/ ProcessingFails(a)
    PROVE  OneByOne' /\ WindowsKept
  <1>1. PICK q \in Work :
             /\ actor' = [actor EXCEPT ![a] = q]
             /\ q.at = "copy" /\ q.task = actor[a].task
             /\ \/ actor[a].at = "archive" /\ q.cur = NoBudget
                \/ actor[a].at = "copy" /\ q.cur = actor[a].cur
             /\ q.todo \subseteq actor[a].todo
    BY GoesOnCopying
  <1>2. q.cur = NoBudget /\ actor[a].at \in {"copy", "archive"}
    BY <1>1 DEF OneByOne, AsLoaded
  <1>3. Refers(q) /\ AsLoaded(q) /\ ForUser(q)
    BY <1>1, <1>2, KeepsLoaded
  <1>4. WindowsKept
    <2>1. CASE ArchiveOutdated(a)
      <3>1. PICK i \in DOMAIN budgets, b \in Row :
             /\ b = [budgets[i] EXCEPT !.archived = TRUE]
             /\ budgets' = [budgets EXCEPT ![i] = b] /\ UNCHANGED <<collected, excused>>
        BY <2>1, ArchivingIs
      <3>2. QED
        BY <3>1, FlagKeepsWindows
    <2>2. CASE ProcessingFails(a)
      BY <2>2, SameBudgets DEF ProcessingFails
    <2>3. QED
      BY <2>1, <2>2
  <1>5. QED
    BY <1>1, <1>3, <1>4, OneByOneStep

\* A goroutine that has nothing to do.
LEMMA AllIdle ==
    ASSUME \A c \in Actors : actor'[c] = Idle
    PROVE  OneByOne'
  <1>1. AsLoaded(Idle)' /\ ForUser(Idle)'
    BY IdleIs DEF AsLoaded, ForUser
  <1>2. QED
    BY <1>1 DEF OneByOne, AsLoaded, ForUser

LEMMA OneByOneFlags ==
    ASSUME Typed, OneByOne, NEW u \in Users, NEW i \in DOMAIN budgets, Delete(u, i) \/ Archive(u, i)
    PROVE  OneByOne' /\ WindowsKept
  <1>1. PICK b : /\ b = [budgets[i] EXCEPT !.deleted = TRUE] \/ b = [budgets[i] EXCEPT !.archived = TRUE]
                 /\ budgets' = [budgets EXCEPT ![i] = b]
    BY DEF Delete, Archive
  <1>2. UNCHANGED <<collected, excused>> /\ actor' = actor
    BY DEF Delete, Archive
  <1>3. WindowsKept
    BY <1>1, <1>2, FlagKeepsWindows
  <1>4. QED
    BY <1>2, <1>3, OneByOneSame

LEMMA StepOneByOne ==
    ASSUME Sequential, Typed, OneByOne, [Next]_vars
    PROVE  OneByOne'
  <1>1. ASSUME budgets' = budgets, actor' = actor PROVE OneByOne'
    BY <1>1, SameBudgets, OneByOneSame
  <1>2. ASSUME NEW a \in Actors, Return(a) PROVE OneByOne'
    <2>1. actor' = [actor EXCEPT ![a] = Idle]
      BY <1>2 DEF Return
    <2>2. \A c \in Actors : actor'[c] = Idle
      BY <2>1 DEF Sequential, Typed, ActorsTyped
    <2>3. QED
      BY <2>2, AllIdle
  <1>3. ASSUME Crash PROVE OneByOne'
    <2>1. \A c \in Actors : actor'[c] = Idle
      BY <1>3 DEF Crash
    <2>2. QED
      BY <2>1, AllIdle
  <1>4. CASE UNCHANGED vars
    BY <1>1, <1>4 DEF vars
  <1>5. ASSUME NEW u \in Users, NEW s \in Slots, NEW e \in Expenses \cup {NoExpense},
               WriteTransaction(u, s, e)
        PROVE  OneByOne'
    BY <1>1, <1>5 DEF WriteTransaction
  <1>6. ASSUME Schedule \/ Tick PROVE OneByOne'
    BY <1>1, <1>6 DEF Schedule, Tick
  <1>7. CASE Next
    BY <1>2, <1>3, <1>5, <1>6, <1>7, NextIs, OneByOneCreate, OneByOneUpdate, OneByOneFlags,
       OneByOneRecalculate, OneByOneDaily, OneByOneReadRows, OneByOneUpdateCollectedAmount,
       OneByOneCreateCopy, OneByOneProcessing, OneByOneRecalculateFails
  <1>8. QED
    BY <1>4, <1>7

LEMMA InitOneByOne == Init => OneByOne
  BY IdleIs DEF Init, OneByOne, AsLoaded, ForUser

-----------------------------------------------------------------------------
(* A copy continues its budget.                                             *)

\* The copy of a budget of a number of days.
LEMMA CopyOfDays ==
    ASSUME NEW b \in Row, Dated(b), NEW id \in Nat, NEW c, c = Copy(b, id), NEW k \in 1..7,
           \/ b.period = "DAILY" /\ k = 1
           \/ b.period = "WEEKLY" /\ k = 7,
           b.end = AddDate(b.start, 0, 0, k)
    PROVE  c.start = b.end /\ OnePeriod(c) /\ c.end > c.start
  <1>1. PICK d : d = CalculateNewDates(b)
    OBVIOUS
  <1>2. c.start = d[1] /\ c.end = d[2] /\ c.period = b.period
    BY <1>1, CopyIs
  <1>3. d = <<AddDate(b.start, 0, 0, k), AddDate(b.end, 0, 0, k)>>
    BY <1>1, NewDates
  <1>4. c.start = b.end /\ c.end = AddDate(c.start, 0, 0, k)
    BY <1>2, <1>3
  <1>5. c.end = c.start + k
    <2>1. b.end \in Nat
      BY DEF Dated
    <2>2. AddDate(b.end, 0, 0, k) = b.end + k
      BY <2>1, AddDays
    <2>3. QED
      BY <1>4, <2>2
  <1>6. PeriodEnd(c.period, c.start) = AddDate(c.start, 0, 0, k)
    BY <1>2 DEF PeriodEnd
  <1>7. c.end > c.start
    BY <1>4, <1>5 DEF Row
  <1>8. OnePeriod(c)
    BY <1>2, <1>4, <1>6 DEF OnePeriod
  <1>9. QED
    BY <1>4, <1>7, <1>8

\* The copy of a budget of one period is one of the next period.
LEMMA CopyOfOnePeriod ==
    ASSUME NEW b \in Row, Dated(b), OnePeriod(b), NEW id \in Nat, NEW c, c = Copy(b, id)
    PROVE  c.start = b.end /\ OnePeriod(c) /\ c.end > c.start
  <1> DEFINE Follows == c.start = b.end /\ OnePeriod(c) /\ c.end > c.start
  <1>1. PICK d : d = CalculateNewDates(b)
    OBVIOUS
  <1>2. c.start = d[1] /\ c.end = d[2] /\ c.period = b.period
    BY <1>1, CopyIs
  <1>3. b.period \in Periods /\ b.start \in Int /\ b.end \in Int
    BY DEF Row
  <1>4. CASE b.period = "CUSTOM"
    <2>1. b.start < b.end
      BY <1>4 DEF OnePeriod
    <2>2. d = <<b.end, b.end + (b.end - b.start)>>
      BY <1>1, <1>4, NewDates
    <2>3. c.start = b.end /\ c.end = b.end + (b.end - b.start)
      BY <1>2, <2>2
    <2>4. QED
      BY <1>2, <1>3, <1>4, <2>1, <2>3 DEF OnePeriod
  <1>5. ASSUME b.period # "CUSTOM"
        PROVE  /\ b.start \in Nat /\ b.end \in Nat /\ b.end = PeriodEnd(b.period, b.start)
               /\ b.period \in {"MONTHLY", "YEARLY"} => DayOfMonth(b.start) <= 28
    BY <1>5 DEF Dated, OnePeriod
  <1>7. CASE b.period = "MONTHLY"
    <2>1. PeriodEnd(b.period, b.start) = AddDate(b.start, 0, 1, 0)
      BY <1>7 DEF PeriodEnd
    <2>2. d = <<AddDate(b.start, 0, 1, 0), AddDate(b.end, 0, 1, 0)>>
      BY <1>1, <1>7, NewDates
    <2>3. c.start = b.end /\ c.end = AddDate(b.end, 0, 1, 0)
      BY <1>2, <1>5, <1>7, <2>1, <2>2
    <2>4. c.end > c.start /\ DayOfMonth(c.start) <= 28
      <3>1. b.start \in Nat /\ b.end \in Nat /\ DayOfMonth(b.start) <= 28 /\ b.end = AddDate(b.start, 0, 1, 0)
        BY <1>5, <1>7, <2>1
      <3>2. DayOfMonth(b.end) = DayOfMonth(b.start)
        BY <3>1, AddMonth
      <3>3. AddDate(b.end, 0, 1, 0) > b.end
        BY <3>1, AddMonth
      <3>4. QED
        BY <2>3, <3>1, <3>2, <3>3
    <2>5. PeriodEnd(c.period, c.start) = AddDate(c.start, 0, 1, 0)
      BY <1>2, <1>7 DEF PeriodEnd
    <2>6. QED
      BY <1>2, <1>7, <2>3, <2>4, <2>5 DEF OnePeriod
  <1>8. CASE b.period = "YEARLY"
    <2>1. PeriodEnd(b.period, b.start) = AddDate(b.start, 1, 0, 0)
      BY <1>8 DEF PeriodEnd
    <2>2. d = <<AddDate(b.start, 1, 0, 0), AddDate(b.end, 1, 0, 0)>>
      BY <1>1, <1>8, NewDates
    <2>3. c.start = b.end /\ c.end = AddDate(b.end, 1, 0, 0)
      BY <1>2, <1>5, <1>8, <2>1, <2>2
    <2>4. c.end > c.start /\ DayOfMonth(c.start) <= 28
      <3>1. b.start \in Nat /\ b.end \in Nat /\ DayOfMonth(b.start) <= 28 /\ b.end = AddDate(b.start, 1, 0, 0)
        BY <1>5, <1>8, <2>1
      <3>2. DayOfMonth(b.end) = DayOfMonth(b.start)
        BY <3>1, AddYear
      <3>3. AddDate(b.end, 1, 0, 0) > b.end
        BY <3>1, AddYear
      <3>4. QED
        BY <2>3, <3>1, <3>2, <3>3
    <2>5. PeriodEnd(c.period, c.start) = AddDate(c.start, 1, 0, 0)
      BY <1>2, <1>8 DEF PeriodEnd
    <2>6. QED
      BY <1>2, <1>8, <2>3, <2>4, <2>5 DEF OnePeriod
  <1>9. CASE b.period = "DAILY"
    <2>1. b.end = AddDate(b.start, 0, 0, 1)
      BY <1>5, <1>9 DEF PeriodEnd
    <2>2. 1 \in 1..7
      OBVIOUS
    <2>3. QED
      BY <1>9, <2>1, <2>2, CopyOfDays
  <1>10. CASE b.period = "WEEKLY"
    <2>1. b.end = AddDate(b.start, 0, 0, 7)
      BY <1>5, <1>10 DEF PeriodEnd
    <2>2. 7 \in 1..7
      OBVIOUS
    <2>3. QED
      BY <1>10, <2>1, <2>2, CopyOfDays
  <1>11. QED
    BY <1>3, <1>4, <1>7, <1>8, <1>9, <1>10 DEF Periods

\* Only these steps add a row.
LEMMA OnlyTwoAdd ==
    ASSUME Typed, [Next]_vars
    PROVE  \/ \E u \in Users, a \in Actors, body \in Bodies : Create(a, u, body)
           \/ \E a \in Actors : CreateCopy(a)
           \/ DOMAIN budgets' = DOMAIN budgets
  <1>1. ASSUME NEW a \in Actors, ArchiveOutdated(a) \/ ProcessingFails(a)
        PROVE  DOMAIN budgets' = DOMAIN budgets
    BY <1>1 DEF ArchiveOutdated, ProcessingFails
  <1>2. ASSUME NEW u \in Users, NEW i \in DOMAIN budgets, Delete(u, i) \/ Archive(u, i)
        PROVE  DOMAIN budgets' = DOMAIN budgets
    BY <1>2 DEF Delete, Archive
  <1>3. ASSUME NEW u \in Users, NEW a \in Actors, NEW body \in Bodies, NEW i \in DOMAIN budgets,
               Update(a, u, i, body)
        PROVE  DOMAIN budgets' = DOMAIN budgets
    BY <1>3 DEF Update
  <1>4. ASSUME NEW u \in Users, NEW s \in Slots, NEW e \in Expenses \cup {NoExpense},
               WriteTransaction(u, s, e)
        PROVE  DOMAIN budgets' = DOMAIN budgets
    BY <1>4 DEF WriteTransaction
  <1>5. ASSUME NEW a \in Actors, NEW t,
               RecalculateCollectedAmounts(a, t) \/ DailyProcessing(a, t)
        PROVE  DOMAIN budgets' = DOMAIN budgets
    BY <1>5 DEF RecalculateCollectedAmounts, DailyProcessing
  <1>6. ASSUME NEW a \in Actors,
               ReadRows(a) \/ UpdateCollectedAmount(a) \/ Return(a) \/ RecalculateFails(a)
        PROVE  DOMAIN budgets' = DOMAIN budgets
    BY <1>6 DEF ReadRows, UpdateCollectedAmount, Return, RecalculateFails
  <1>7. ASSUME Crash \/ Schedule \/ Tick \/ UNCHANGED vars
        PROVE  DOMAIN budgets' = DOMAIN budgets
    BY <1>7 DEF Crash, Schedule, Tick, vars
  <1>8. CASE Next
    BY <1>1, <1>2, <1>3, <1>4, <1>5, <1>6, <1>7, <1>8, NextIs
  <1>9. QED
    BY <1>7, <1>8

\* The copy of a budget that is one period long starts where it ends and is one period
\* long (calculateNewDates, services/budgets/service.go), for every date of the calendar,
\* if no request changes the budget between its loading and its copying.
THEOREM BudgetsCopyContinues ==
    ASSUME Sequential
    PROVE  Spec => CopyContinues
  <1> DEFINE Continues ==
        \A j \in DOMAIN budgets' \ DOMAIN budgets :
          LET i == budgets'[j].origin
          IN  i # NoBudget /\ OnePeriod(budgets[i]) =>
                 /\ budgets'[j].start = budgets[i].end
                 /\ OnePeriod(budgets'[j])
                 /\ budgets'[j].end > budgets'[j].start
  <1>1. Typed /\ OneByOne /\ [Next]_vars => OneByOne'
    BY StepOneByOne
  <1>2. ASSUME Typed, OneByOne, [Next]_vars PROVE Continues
    <2>1. CASE \E u \in Users, a \in Actors, body \in Bodies : Create(a, u, body)
      <3>1. PICK u \in Users, a \in Actors, body \in Bodies : Create(a, u, body)
        BY <2>1
      <3>2. PICK b : b = Created(u, body)
        OBVIOUS
      <3>3. b \in Row /\ b.origin = NoBudget
        BY <3>2, ColumnsIs DEF Created, NewBudget
      <3>4. budgets' = Append(budgets, b)
        BY <3>1, <3>2 DEF Create, Created
      <3>5. \A j \in DOMAIN budgets' \ DOMAIN budgets : budgets'[j] = b
        BY <1>2, <3>3, <3>4, CreateKeepsWindows
      <3>6. QED
        BY <3>3, <3>5
    <2>2. CASE \E a \in Actors : CreateCopy(a)
      <3>1. PICK a \in Actors : CreateCopy(a)
        BY <2>2
      <3>2. PICK b \in actor[a].todo : budgets' = Append(budgets, Copy(b.row, b.id)) \/ budgets' = budgets
        BY <1>2, <3>1, CreateCopyIs
      <3>3. /\ b.row \in Row /\ Dated(b.row) /\ b.id \in Nat
            /\ Window(b.row) = Window(budgets[b.id])
        BY <1>2, WorkIs DEF Refers, OneByOne, AsLoaded
      <3>4. PICK c : c = Copy(b.row, b.id)
        OBVIOUS
      <3>5. c \in Row /\ c.origin = b.id
        BY <3>3, <3>4, CopyIs
      <3>6. CASE budgets' = Append(budgets, c)
        <4>1. \A j \in DOMAIN budgets' \ DOMAIN budgets : budgets'[j] = c
          BY <1>2, <3>5, <3>6, CreateKeepsWindows
        <4>2. ASSUME OnePeriod(budgets[b.id])
              PROVE  c.start = budgets[b.id].end /\ OnePeriod(c) /\ c.end > c.start
          <5>1. b.row.start = budgets[b.id].start /\ b.row.end = budgets[b.id].end
                /\ b.row.period = budgets[b.id].period
            BY <3>3, WindowIs
          <5>2. OnePeriod(b.row)
            BY <4>2, <5>1 DEF OnePeriod
          <5>3. QED
            BY <3>3, <3>4, <5>1, <5>2, CopyOfOnePeriod
        <4>3. QED
          BY <3>5, <4>1, <4>2
      <3>7. CASE budgets' = budgets
        BY <3>7
      <3>8. QED
        BY <3>2, <3>4, <3>6, <3>7
    <2>3. CASE DOMAIN budgets' = DOMAIN budgets
      BY <2>3
    <2>4. QED
      BY <1>2, <2>1, <2>2, <2>3, OnlyTwoAdd
  <1>3. Typed /\ OneByOne /\ [Next]_vars => [Continues]_vars
    BY <1>2
  <1>4. QED
    BY <1>1, <1>3, InitTyped, InitOneByOne, StepTyped, PTL DEF Spec, CopyContinues

-----------------------------------------------------------------------------
(* A budget is copied once.                                                 *)

\* No step but those that add a row changes the origins, or takes a row out of the archive.
RowsStay ==
    /\ DOMAIN budgets' = DOMAIN budgets
    /\ \A i \in DOMAIN budgets : /\ budgets'[i].origin = budgets[i].origin
                                 /\ budgets[i].archived => budgets'[i].archived

LEMMA CopiesAreCounted ==
    ASSUME Typed, NEW i
    PROVE  /\ IsFiniteSet(Copies(i)) /\ Cardinality(Copies(i)) \in Nat
           /\ DOMAIN budgets = 1..Len(budgets) /\ Len(budgets) \in Nat
           /\ Copies(i) \subseteq DOMAIN budgets
  <1>1. DOMAIN budgets = 1..Len(budgets) /\ Len(budgets) \in Nat
    BY LenProperties DEF Typed, BudgetsTyped
  <1>2. IsFiniteSet(1..Len(budgets))
    BY <1>1, FS_Interval
  <1>3. Copies(i) \subseteq DOMAIN budgets
    BY DEF Copies
  <1>4. IsFiniteSet(Copies(i))
    BY <1>1, <1>2, <1>3, FS_Subset
  <1>5. QED
    BY <1>1, <1>3, <1>4, FS_CardinalityType

LEMMA FaultsGrow ==
    ASSUME Typed, faults' = faults \/ Fault
    PROVE  faults \in Nat /\ faults' \in Nat /\ faults <= faults'
  BY FaultTyped, BudgetsAssumption DEF Typed, CountersTyped, BudgetsAssumption

\* A step that adds no copy, and lets no budget be copied again.
LEMMA CopiedOnceKept ==
    ASSUME Typed, AllCopiedOnce, RowsStay, faults' = faults \/ Fault,
           \A i \in DOMAIN budgets : Copiable(i)' => Copiable(i)
    PROVE  AllCopiedOnce'
  <1>1. ASSUME NEW i \in DOMAIN budgets PROVE CopiedOnce(i)'
    <2>1. Copies(i)' = Copies(i)
      BY DEF Copies, RowsStay
    <2>2. CopiedOnce(i) /\ (Copiable(i)' => Copiable(i))
      BY DEF AllCopiedOnce
    <2>3. faults \in Nat /\ faults' \in Nat /\ faults <= faults' /\ Cardinality(Copies(i)) \in Nat
      BY FaultsGrow, CopiesAreCounted
    <2>4. QED
      BY <2>1, <2>2, <2>3 DEF CopiedOnce
  <1>2. QED
    BY <1>1 DEF AllCopiedOnce, RowsStay

\* After a failure a budget may be copied once more.
LEMMA CopiedOnceAfterFault ==
    ASSUME Typed, AllCopiedOnce, budgets' = budgets, Fault
    PROVE  AllCopiedOnce'
  <1>1. ASSUME NEW i \in DOMAIN budgets PROVE CopiedOnce(i)'
    <2>1. Copies(i)' = Copies(i)
      BY DEF Copies
    <2>2. Cardinality(Copies(i)) <= 1 + faults
      BY DEF AllCopiedOnce, CopiedOnce
    <2>3. faults \in Nat /\ faults' = faults + 1 /\ Cardinality(Copies(i)) \in Nat
      BY FaultTyped, CopiesAreCounted DEF Typed
    <2>4. QED
      BY <2>1, <2>2, <2>3 DEF CopiedOnce
  <1>2. QED
    BY <1>1 DEF AllCopiedOnce

\* Neither before nor after the step does a run of the daily processing have a copied
\* budget in hand.
LEMMA NotCopying ==
    ASSUME Typed, AllCopiedOnce, RowsStay, faults' = faults \/ Fault,
           \A c \in Actors : actor[c].at # "archive" /\ actor'[c].at \notin {"copy", "archive"}
    PROVE  AllCopiedOnce'
  <1>1. ASSUME NEW i \in DOMAIN budgets, Copiable(i)' PROVE Copiable(i)
    <2>1. ~ToCopy(i)' /\ ~ToArchive(i)
      BY DEF ToCopy, ToArchive
    <2>2. ~budgets'[i].archived
      BY <1>1, <2>1 DEF Copiable
    <2>3. ~budgets[i].archived
      BY <2>2 DEF RowsStay
    <2>4. QED
      BY <2>1, <2>3 DEF Copiable
  <1>2. QED
    BY <1>1, CopiedOnceKept

\* The goroutines go on as they were.
LEMMA CopiedOnceSame ==
    ASSUME Typed, AllCopiedOnce, RowsStay, faults' = faults \/ Fault, actor' = actor
    PROVE  AllCopiedOnce'
  <1>1. ASSUME NEW i \in DOMAIN budgets, Copiable(i)' PROVE Copiable(i)
    <2>1. ToCopy(i)' = ToCopy(i) /\ ToArchive(i)' = ToArchive(i)
      BY DEF ToCopy, ToArchive, Has
    <2>2. QED
      BY <1>1, <2>1 DEF Copiable, RowsStay
  <1>2. QED
    BY <1>1, CopiedOnceKept

\* The copies of each budget after a row more.
LEMMA CopiesOfMore ==
    ASSUME Typed, NEW b \in Row, b.origin \in DOMAIN budgets \cup {NoBudget},
           budgets' = Append(budgets, b)
    PROVE  /\ DOMAIN budgets' = DOMAIN budgets \cup {Len(budgets) + 1}
           /\ \A i \in DOMAIN budgets : budgets'[i] = budgets[i]
           /\ \A n \in DOMAIN budgets' \ DOMAIN budgets : Cardinality(Copies(n)') = 0
           /\ \A i \in DOMAIN budgets :
                Cardinality(Copies(i)') = Cardinality(Copies(i)) + (IF b.origin = i THEN 1 ELSE 0)
  <1>1. PICK n : n = Len(budgets) + 1
    OBVIOUS
  <1>2. /\ DOMAIN budgets' = DOMAIN budgets \cup {n} /\ budgets'[n] = b /\ n \notin DOMAIN budgets
        /\ \A i \in DOMAIN budgets : budgets'[i] = budgets[i]
    BY <1>1, CreateKeepsWindows
  <1>3. DOMAIN budgets = 1..Len(budgets) /\ Len(budgets) \in Nat
    BY CopiesAreCounted
  <1>4. Copies(n)' = {}
    <2>1. \A j \in DOMAIN budgets : budgets[j].origin \in Nat /\ budgets[j].origin < j
      <3> TAKE j \in DOMAIN budgets
      <3>1. budgets[j] \in Row
        BY ElementOfSeq DEF Typed, BudgetsTyped
      <3>2. QED
        BY <3>1 DEF Typed, BudgetsTyped, Row
    <2>2. \A j \in DOMAIN budgets : budgets[j].origin # n
      BY <1>1, <1>3, <2>1
    <2>3. b.origin # n
      BY <1>1, <1>3 DEF NoBudget
    <2>4. QED
      BY <1>2, <2>2, <2>3 DEF Copies
  <1>5. ASSUME NEW i \in DOMAIN budgets
        PROVE  Cardinality(Copies(i)') = Cardinality(Copies(i)) + (IF b.origin = i THEN 1 ELSE 0)
    <2>1. IsFiniteSet(Copies(i)) /\ Cardinality(Copies(i)) \in Nat /\ n \notin Copies(i)
      BY <1>2, CopiesAreCounted
    <2>2. CASE b.origin = i
      <3>1. Copies(i)' = Copies(i) \cup {n}
        BY <1>2, <2>2 DEF Copies
      <3>2. Cardinality(Copies(i) \cup {n}) = Cardinality(Copies(i)) + 1
        BY <2>1, FS_AddElement
      <3>3. QED
        BY <2>2, <3>1, <3>2
    <2>3. CASE b.origin # i
      <3>1. Copies(i)' = Copies(i)
        BY <1>2, <2>3 DEF Copies
      <3>2. QED
        BY <2>1, <2>3, <3>1
    <2>4. QED
      BY <2>2, <2>3
  <1>6. QED
    BY <1>1, <1>2, <1>4, <1>5, FS_EmptySet

LEMMA CopiedOnceCreate ==
    ASSUME Sequential, Typed, AllCopiedOnce, NEW a \in Actors, NEW u \in Users, NEW body \in Bodies,
           Create(a, u, body)
    PROVE  AllCopiedOnce'
  <1>1. PICK b : b = Created(u, body)
    OBVIOUS
  <1>2. b \in Row /\ b.origin = NoBudget
    BY <1>1, ColumnsIs DEF Created, NewBudget
  <1>3. budgets' = Append(budgets, b) /\ faults' = faults
    BY <1>1 DEF Create, Created
  <1>4. /\ DOMAIN budgets' = DOMAIN budgets \cup {Len(budgets) + 1}
        /\ \A i \in DOMAIN budgets : budgets'[i] = budgets[i]
        /\ \A n \in DOMAIN budgets' \ DOMAIN budgets : Cardinality(Copies(n)') = 0
        /\ \A i \in DOMAIN budgets :
             Cardinality(Copies(i)') = Cardinality(Copies(i)) + (IF b.origin = i THEN 1 ELSE 0)
    BY <1>2, <1>3, CopiesOfMore
  <1>5. faults \in Nat
    BY FaultsGrow, <1>3
  <1>6. \A c \in Actors : actor[c] = Idle /\ actor'[c].at = "read"
    BY OneByOneCreate DEF Sequential, Create
  <1>7. ASSUME NEW i \in DOMAIN budgets PROVE CopiedOnce(i)'
    <2>1. b.origin # i
      BY <1>2, CopiesAreCounted DEF NoBudget
    <2>2. Cardinality(Copies(i)') = Cardinality(Copies(i)) /\ budgets'[i] = budgets[i]
      BY <1>4, <2>1, CopiesAreCounted
    <2>3. ~ToCopy(i)' /\ ~ToArchive(i)
      BY <1>6, IdleIs DEF ToCopy, ToArchive
    <2>4. Copiable(i)' => Copiable(i)
      BY <2>2, <2>3 DEF Copiable
    <2>5. QED
      BY <1>3, <2>2, <2>4 DEF CopiedOnce, AllCopiedOnce
  <1>8. ASSUME NEW n \in DOMAIN budgets' \ DOMAIN budgets PROVE CopiedOnce(n)'
    BY <1>3, <1>4, <1>5, <1>8 DEF CopiedOnce
  <1>9. QED
    BY <1>7, <1>8 DEF AllCopiedOnce

\* The budget that is copied waits to be archived, and is not copied again.
LEMMA CopiedOnceCreateCopy ==
    ASSUME Sequential, Typed, OneByOne, AllCopiedOnce, NEW a \in Actors, CreateCopy(a)
    PROVE  AllCopiedOnce'
  <1>1. PICK q \in Work, b \in actor[a].todo :
             /\ actor' = [actor EXCEPT ![a] = q]
             /\ q.at = "archive" /\ q.cur = b.id /\ q.todo = actor[a].todo \ {b}
             /\ budgets' = Append(budgets, Copy(b.row, b.id)) \/ budgets' = budgets
    BY CreateCopyIs
  <1>2. /\ actor[a].at = "copy" /\ AsLoaded(actor[a])
        /\ b.row \in Row /\ Dated(b.row) /\ b.id \in DOMAIN budgets /\ b.id \in Nat
    BY WorkIs, CreateCopyIs DEF Refers, OneByOne
  <1>3. \A c \in Actors : c = a /\ actor'[c] = q
    BY <1>1 DEF Sequential, Typed, ActorsTyped
  <1>4. faults \in Nat /\ faults' = faults
    BY FaultsGrow DEF CreateCopy
  <1>5. ToCopy(b.id) /\ \A i : ~ToArchive(i)
    BY <1>2, <1>3 DEF ToCopy, ToArchive, Has
  <1>6. \A i : ToCopy(i)' => ToCopy(i) /\ i # b.id
    <2> TAKE i
    <2> HAVE ToCopy(i)'
    <2>1. PICK x \in q.todo : x.id = i
      BY <1>1, <1>3 DEF ToCopy, Has
    <2>2. x \in actor[a].todo /\ x # b
      BY <1>1, <2>1
    <2>3. x.id # b.id
      BY <1>2, <2>2 DEF AsLoaded
    <2>4. QED
      BY <1>2, <2>1, <2>2, <2>3 DEF ToCopy, Has
  <1>7. PICK k \in DOMAIN budgets : k = b.id
    BY <1>2
  <1>8. ToArchive(k)'
    BY <1>1, <1>3, <1>7 DEF ToArchive
  <1>9. Cardinality(Copies(k)) <= faults
    BY <1>5, <1>7 DEF AllCopiedOnce, CopiedOnce, Copiable
  <1>10. ASSUME NEW i \in DOMAIN budgets, budgets'[i] = budgets[i]
         PROVE  (Copiable(i)' => Copiable(i)) /\ ~Copiable(k)'
    BY <1>5, <1>6, <1>7, <1>8, <1>10 DEF Copiable
  <1>11. CASE budgets' = budgets
    <2>1. RowsStay
      BY <1>11 DEF RowsStay
    <2>2. \A i \in DOMAIN budgets : Copiable(i)' => Copiable(i)
      BY <1>10, <1>11
    <2>3. QED
      BY <1>4, <2>1, <2>2, CopiedOnceKept
  <1>12. CASE budgets' = Append(budgets, Copy(b.row, b.id))
    <2>1. PICK c \in Row : c = Copy(b.row, b.id) /\ c.origin = k
      BY <1>2, <1>7, CopyIs
    <2>2. /\ \A i \in DOMAIN budgets : budgets'[i] = budgets[i]
          /\ \A n \in DOMAIN budgets' \ DOMAIN budgets : Cardinality(Copies(n)') = 0
          /\ \A i \in DOMAIN budgets :
               Cardinality(Copies(i)') = Cardinality(Copies(i)) + (IF k = i THEN 1 ELSE 0)
      BY <1>12, <2>1, CopiesOfMore
    <2>3. ASSUME NEW i \in DOMAIN budgets PROVE CopiedOnce(i)'
      <3>1. Cardinality(Copies(i)) \in Nat /\ CopiedOnce(i)
        BY CopiesAreCounted DEF AllCopiedOnce
      <3>2. CASE i = k
        <4>1. Cardinality(Copies(i)') = Cardinality(Copies(i)) + 1
          BY <2>2, <3>2
        <4>2. ~Copiable(i)'
          BY <1>10, <2>2, <3>2
        <4>3. QED
          BY <1>4, <1>9, <3>1, <3>2, <4>1, <4>2 DEF CopiedOnce
      <3>3. CASE i # k
        <4>1. Cardinality(Copies(i)') = Cardinality(Copies(i))
          BY <2>2, <3>1, <3>3
        <4>2. Copiable(i)' => Copiable(i)
          BY <1>10, <2>2
        <4>3. QED
          BY <1>4, <3>1, <4>1, <4>2 DEF CopiedOnce
      <3>4. QED
        BY <3>2, <3>3
    <2>4. ASSUME NEW n \in DOMAIN budgets' \ DOMAIN budgets PROVE CopiedOnce(n)'
      BY <1>4, <2>2, <2>4 DEF CopiedOnce
    <2>5. QED
      BY <2>3, <2>4 DEF AllCopiedOnce
  <1>13. QED
    BY <1>1, <1>11, <1>12

\* The daily processing loads budgets that are not archived, and archives those it copied.
LEMMA CopiedOnceDaily ==
    ASSUME Sequential, Typed, AllCopiedOnce, NEW a \in Actors,
           NEW t \in BagToSet(queue) \cup {NoTask}, DailyProcessing(a, t)
    PROVE  AllCopiedOnce'
  <1>1. PICK q \in Work :
             /\ actor' = [actor EXCEPT ![a] = q]
             /\ q.at = "copy" /\ q.task = t /\ q.cur = NoBudget
             /\ q.todo = {Loaded(i) : i \in GetOutdatedBudgets} \/ q.todo = {}
    BY DailyIs
  <1>2. \A c \in Actors : actor[c] = Idle /\ actor'[c] = q
    BY <1>1 DEF Sequential, Typed, ActorsTyped, DailyProcessing
  <1>3. \A b \in q.todo : b.id \in GetOutdatedBudgets
    BY <1>1, LoadedIs DEF GetOutdatedBudgets
  <1>4. budgets' = budgets /\ (faults' = faults \/ Fault)
    BY DEF DailyProcessing
  <1>5. ASSUME NEW i \in DOMAIN budgets, Copiable(i)' PROVE Copiable(i)
    <2>1. ~ToArchive(i)
      BY <1>2, IdleIs DEF ToArchive
    <2>2. ToCopy(i)' => ~budgets[i].archived
      BY <1>2, <1>3 DEF ToCopy, Has, GetOutdatedBudgets
    <2>3. QED
      BY <1>4, <1>5, <2>1, <2>2 DEF Copiable
  <1>6. QED
    BY <1>4, <1>5, CopiedOnceKept DEF RowsStay

LEMMA CopiedOnceArchive ==
    ASSUME Sequential, Typed, OneByOne, AllCopiedOnce, NEW a \in Actors,
           ArchiveOutdated(a) \/ ProcessingFails(a)
    PROVE  AllCopiedOnce'
  <1>1. CASE ProcessingFails(a)
    BY <1>1, CopiedOnceAfterFault DEF ProcessingFails
  <1>2. CASE ArchiveOutdated(a)
    <2>1. PICK k \in DOMAIN budgets, b \in Row :
             /\ k = actor[a].cur /\ b = [budgets[k] EXCEPT !.archived = TRUE] /\ b.archived
             /\ budgets' = [budgets EXCEPT ![k] = b] /\ b.origin = budgets[k].origin
      BY <1>2, ArchivingIs
    <2>2. PICK q \in Work :
             /\ actor' = [actor EXCEPT ![a] = q] /\ q.at = "copy"
             /\ q.todo = actor[a].todo \/ actor[a].at = "copy"
      BY <1>2, GoesOnCopying
    <2>3. actor[a].at = "archive" /\ faults' = faults /\ AsLoaded(actor[a])
      BY <1>2 DEF ArchiveOutdated, OneByOne
    <2>4. \A c \in Actors : c = a /\ actor'[c] = q
      BY <2>2 DEF Sequential, Typed, ActorsTyped
    <2>5. DOMAIN budgets' = DOMAIN budgets /\ \A i \in DOMAIN budgets : budgets'[i] = IF i = k THEN b ELSE budgets[i]
      BY <2>1
    <2>6. RowsStay
      BY <2>1, <2>5 DEF RowsStay
    <2>7. ASSUME NEW i \in DOMAIN budgets, Copiable(i)' PROVE Copiable(i)
      <3>1. ToCopy(i)' => ToCopy(i) /\ i # k
        BY <2>1, <2>2, <2>3, <2>4 DEF ToCopy, Has, AsLoaded
      <3>2. ToArchive(i) => i = k
        BY <2>1, <2>4 DEF ToArchive
      <3>3. i = k => budgets'[i].archived
        BY <2>1, <2>5
      <3>4. i # k => budgets'[i] = budgets[i]
        BY <2>5
      <3>5. QED
        BY <2>7, <3>1, <3>2, <3>3, <3>4 DEF Copiable
    <2>8. QED
      BY <2>3, <2>6, <2>7, CopiedOnceKept
  <1>3. QED
    BY <1>1, <1>2

\* The steps of requests and recalculations.
LEMMA CopiedOnceRequests ==
    ASSUME Typed, AllCopiedOnce, NEW u \in Users,
           \/ \E s \in Slots, e \in Expenses \cup {NoExpense} : WriteTransaction(u, s, e)
           \/ \E i \in DOMAIN budgets : Delete(u, i) \/ Archive(u, i)
    PROVE  AllCopiedOnce'
  <1>1. ASSUME NEW s \in Slots, NEW e \in Expenses \cup {NoExpense}, WriteTransaction(u, s, e)
        PROVE  AllCopiedOnce'
    BY <1>1, CopiedOnceSame DEF WriteTransaction, RowsStay
  <1>2. ASSUME NEW i \in DOMAIN budgets, Delete(u, i) \/ Archive(u, i)
        PROVE  AllCopiedOnce'
    <2>1. PICK b : /\ b = [budgets[i] EXCEPT !.deleted = TRUE] \/ b = [budgets[i] EXCEPT !.archived = TRUE]
                   /\ budgets' = [budgets EXCEPT ![i] = b]
      BY <1>2 DEF Delete, Archive
    <2>2. UNCHANGED <<collected, excused, actor, faults>>
      BY <1>2 DEF Delete, Archive
    <2>3. /\ DOMAIN budgets' = DOMAIN budgets /\ b.origin = budgets[i].origin
          /\ \A j \in DOMAIN budgets : budgets'[j] = IF j = i THEN b ELSE budgets[j]
          /\ budgets[i].archived => b.archived
      BY <2>1, <2>2, FlagTyped
    <2>4. RowsStay
      BY <2>3 DEF RowsStay
    <2>5. QED
      BY <2>2, <2>4, CopiedOnceSame
  <1>3. QED
    BY <1>1, <1>2

LEMMA CopiedOnceRecalculation ==
    ASSUME Sequential, Typed, AllCopiedOnce, NEW a \in Actors,
           \/ \E u \in Users, i \in DOMAIN budgets, body \in Bodies : Update(a, u, i, body)
           \/ \E t \in BagToSet(queue) : RecalculateCollectedAmounts(a, t)
           \/ ReadRows(a) \/ UpdateCollectedAmount(a) \/ Return(a)
    PROVE  AllCopiedOnce'
  <1>1. \A c \in Actors : c = a
    BY DEF Sequential
  <1>2. ASSUME NEW u \in Users, NEW i \in DOMAIN budgets, NEW body \in Bodies, Update(a, u, i, body)
        PROVE  AllCopiedOnce'
    <2>1. PICK b : b = Columns(body, budgets[i])
      OBVIOUS
    <2>2. budgets[i] \in Row
      BY ElementOfSeq DEF Typed, BudgetsTyped
    <2>3. b.origin = budgets[i].origin /\ b.archived = budgets[i].archived
      BY <2>1, <2>2, ColumnsIs
    <2>4. budgets' = [budgets EXCEPT ![i] = b] /\ faults' = faults /\ actor[a] = Idle
      BY <1>2, <2>1 DEF Update
    <2>5. RowsStay
      BY <2>3, <2>4 DEF RowsStay
    <2>6. actor'[a].at = "read"
      BY <1>2, OneByOneUpdate
    <2>7. QED
      BY <1>1, <2>4, <2>5, <2>6, IdleIs, NotCopying
  <1>3. ASSUME NEW t \in BagToSet(queue), RecalculateCollectedAmounts(a, t) PROVE AllCopiedOnce'
    <2>1. actor[a] = Idle /\ budgets' = budgets /\ (faults' = faults \/ Fault)
      BY <1>3 DEF RecalculateCollectedAmounts
    <2>2. actor'[a].at = "read"
      BY <1>3, RecalculateIs DEF Typed, ActorsTyped
    <2>3. QED
      BY <1>1, <2>1, <2>2, IdleIs, NotCopying DEF RowsStay
  <1>4. CASE ReadRows(a)
    <2>1. actor[a].at = "read" /\ actor'[a].at = "write"
      BY <1>4, ReadRowsIs DEF Typed, ActorsTyped
    <2>2. budgets' = budgets /\ faults' = faults
      BY <1>4 DEF ReadRows
    <2>3. QED
      BY <1>1, <2>1, <2>2, NotCopying DEF RowsStay
  <1>5. CASE UpdateCollectedAmount(a)
    <2>1. actor[a].at = "write" /\ actor'[a].at = "read"
      BY <1>5, UpdateCollectedAmountIs DEF Typed, ActorsTyped
    <2>2. budgets' = budgets /\ faults' = faults
      BY <1>5 DEF UpdateCollectedAmount
    <2>3. QED
      BY <1>1, <2>1, <2>2, NotCopying DEF RowsStay
  <1>6. CASE Return(a)
    <2>1. actor[a].at \in {"read", "copy"} /\ actor'[a] = Idle /\ budgets' = budgets /\ faults' = faults
      BY <1>6 DEF Return, Typed, ActorsTyped
    <2>2. QED
      BY <1>1, <2>1, IdleIs, NotCopying DEF RowsStay
  <1>7. QED
    BY <1>2, <1>3, <1>4, <1>5, <1>6

LEMMA StepCopiedOnce ==
    ASSUME Sequential, Typed, OneByOne, AllCopiedOnce, [Next]_vars
    PROVE  AllCopiedOnce'
  <1>1. ASSUME NEW a \in Actors, RecalculateFails(a) PROVE AllCopiedOnce'
    BY <1>1, CopiedOnceAfterFault DEF RecalculateFails
  <1>2. CASE Crash
    BY <1>2, CopiedOnceAfterFault DEF Crash
  <1>3. CASE Schedule \/ Tick \/ UNCHANGED vars
    <2>1. budgets' = budgets /\ faults' = faults /\ actor' = actor
      BY <1>3 DEF Schedule, Tick, vars
    <2>2. QED
      BY <2>1, CopiedOnceSame DEF RowsStay
  <1>4. CASE Next
    BY <1>1, <1>2, <1>3, <1>4, NextIs, CopiedOnceCreate, CopiedOnceCreateCopy, CopiedOnceDaily,
       CopiedOnceArchive, CopiedOnceRequests, CopiedOnceRecalculation
  <1>5. QED
    BY <1>3, <1>4

LEMMA InitCopiedOnce == Init => AllCopiedOnce
  BY DEF Init, AllCopiedOnce

\* A budget whose time is over has one copy, and one more for each failure at most
\* (DailyProcessing, services/budgets/service.go, copies before it archives),
\* whatever the users do with it and however often the day's run is repeated.
THEOREM BudgetsSingleCopy ==
    ASSUME Sequential
    PROVE  Spec => []SingleCopy
  <1>1. Typed /\ OneByOne /\ [Next]_vars => OneByOne'
    BY StepOneByOne
  <1>2. Typed /\ OneByOne /\ AllCopiedOnce /\ [Next]_vars => AllCopiedOnce'
    BY StepCopiedOnce
  <1>3. AllCopiedOnce => SingleCopy
    BY DEF AllCopiedOnce, CopiedOnce, SingleCopy
  <1>4. QED
    BY <1>1, <1>2, <1>3, InitTyped, InitOneByOne, InitCopiedOnce, StepTyped, PTL DEF Spec

-----------------------------------------------------------------------------
(* Amounts are fresh when nothing runs.                                     *)

\* A sum depends on the rows and on what the goroutine has loaded of the budget.
LEMMA SameTotal ==
    ASSUME NEW b, NEW c, Window(b) = Window(c)
    PROVE  Total(b) = Total(c)
  <1>1. \A e : Matches(e, b) <=> Matches(e, c)
    BY WindowIs DEF Matches
  <1>2. {x \in Slots : Matches(rows[x], b)} = {x \in Slots : Matches(rows[x], c)}
    BY <1>1
  <1>3. QED
    BY <1>2 DEF Total

LEMMA TotalStays ==
    ASSUME NEW b, \A x \in Slots : \/ rows'[x] = rows[x]
                                   \/ ~Matches(rows[x], b) /\ ~Matches(rows'[x], b)
    PROVE  Total(b)' = Total(b)
  <1>1. PICK S : S = {x \in Slots : Matches(rows[x], b)}
    OBVIOUS
  <1>2. S = {x \in Slots : Matches(rows'[x], b)}
    BY <1>1
  <1>3. Total(b) = SumFunction([x \in S |-> rows[x].amount])
    BY <1>1 DEF Total
  <1>4. Total(b)' = SumFunction([x \in S |-> rows'[x].amount])
    BY <1>2 DEF Total, Matches
  <1>5. [x \in S |-> rows'[x].amount] = [x \in S |-> rows[x].amount]
    BY <1>1, <1>2
  <1>6. QED
    BY <1>3, <1>4, <1>5

LEMMA FreshStays ==
    ASSUME rows' = rows, NEW i, budgets'[i] = budgets[i]
    PROVE  /\ Total(budgets[i])' = Total(budgets[i])
           /\ collected'[i] = collected[i] => (Fresh(i) => Fresh(i)')
  <1>1. PICK b : b = budgets[i]
    OBVIOUS
  <1>2. Total(b)' = Total(b)
    BY TotalStays
  <1>3. Total(budgets[i])' = Total(b)'
    BY <1>1
  <1>4. Total(budgets[i])' = Total(budgets[i])
    BY <1>1, <1>2, <1>3
  <1>5. QED
    BY <1>4 DEF Fresh

\* What is left to show of a step that writes nothing of budget i.
LEMMA HealingStep ==
    ASSUME NEW u \in Users, NEW i, Healing(u, i),
           Known(u, i) => Known(u, i)',
           Fresh(i) => Fresh(i)',
           \A c \in Actors : Recalculates(actor[c], u, i) =>
               Known(u, i)' \/ Fresh(i)' \/ Recalculates(actor'[c], u, i),
           \A c \in Actors : actor'[c].at = "write" => actor'[c].cur # i
    PROVE  Healing(u, i)'
  <1>1. Known(u, i)' \/ Fresh(i)' \/ \E c \in Actors : Recalculates(actor'[c], u, i)
    BY DEF Healing
  <1>2. QED
    BY <1>1 DEF Healing, Recalculates, Has

LEMMA KnownStays ==
    ASSUME NEW u, NEW i, BagToSet(queue) \subseteq BagToSet(queue'), excused \subseteq excused'
    PROVE  Known(u, i) => Known(u, i)'
  BY DEF Known, Queued

LEMMA NoneRecalculates ==
    ASSUME NEW u, NEW i, NEW r, r.at \notin {"read", "write"}
    PROVE  ~Recalculates(r, u, i)
  BY DEF Recalculates

LEMMA ShownIs ==
    ASSUME Typed, NEW u, NEW i \in Shown(u)
    PROVE  /\ i \in DOMAIN budgets /\ budgets[i] \in Row /\ i \in Nat /\ i # NoBudget
           /\ budgets[i].user = u /\ i \in ActiveOf(u)
  <1>1. i \in DOMAIN budgets /\ budgets[i].user = u /\ i \in ActiveOf(u)
    BY DEF Shown, ActiveOf
  <1>2. budgets[i] \in Row
    BY <1>1, ElementOfSeq DEF Typed, BudgetsTyped
  <1>3. QED
    BY <1>1, <1>2, CopiesAreCounted DEF NoBudget

LEMMA CollectedMore ==
    ASSUME Typed, collected' = Append(collected, 0)
    PROVE  \A i \in DOMAIN budgets : collected'[i] = collected[i]
  <1>1. collected \in Seq(Int) /\ 0 \in Int /\ Len(collected) = Len(budgets) /\ DOMAIN budgets = 1..Len(budgets)
    BY CopiesAreCounted DEF Typed, BudgetsTyped
  <1>2. \A i \in 1..Len(collected) : collected'[i] = collected[i]
    BY <1>1, AppendProperties
  <1>3. QED
    BY <1>1, <1>2

\* A request that writes a row has the budgets of its user recalculated.
LEMMA HealingWriteTransaction ==
    ASSUME Typed, AllHealing, NEW v \in Users, NEW s \in Slots, NEW e \in Expenses \cup {NoExpense},
           WriteTransaction(v, s, e)
    PROVE  AllHealing'
  <1>1. /\ rows' = [rows EXCEPT ![s] = e]
        /\ \A x \in {e, rows[s]} : x # NoExpense => x.user = v
        /\ budgets' = budgets /\ collected' = collected /\ actor' = actor
    BY DEF WriteTransaction
  <1>2. /\ BagToSet(queue) \subseteq BagToSet(queue') /\ excused \subseteq excused'
        /\ Queued(v)' \/ ActiveOf(v) \subseteq excused'
    <2>1. CASE Enqueue(TypeBudgetUserUpdate, v) /\ excused' = excused
      <3>1. PICK t : t = [type |-> TypeBudgetUserUpdate, user |-> v, retried |-> 0]
        OBVIOUS
      <3>2. t \in Task /\ t.type = TypeBudgetUserUpdate /\ t.user = v
        BY <3>1, NewTask
      <3>3. queue' = queue (+) SetToBag({t})
        BY <2>1, <3>1 DEF Enqueue
      <3>4. BagToSet(queue') = BagToSet(queue) \cup {t}
        BY <3>2, <3>3, Enqueued DEF Typed
      <3>5. QED
        BY <2>1, <3>2, <3>4 DEF Queued
    <2>2. CASE Excuse(ActiveOf(v)) /\ queue' = queue
      BY <2>2 DEF Excuse
    <2>3. QED
      BY <2>1, <2>2 DEF WriteTransaction
  <1>3. ASSUME NEW u \in Users, NEW i \in Shown(u)
        PROVE  Healing(u, i)'
    <2>1. i \in ActiveOf(u) /\ budgets[i].user = u
      BY ShownIs
    <2>2. CASE u = v
      <3>1. Known(u, i)'
        BY <1>2, <2>1, <2>2 DEF Known
      <3>2. QED
        BY <3>1 DEF Healing
    <2>3. CASE u # v
      <3>1. PICK b : b = budgets[i]
        OBVIOUS
      <3>2. \A x \in Slots : \/ rows'[x] = rows[x]
                             \/ ~Matches(rows[x], b) /\ ~Matches(rows'[x], b)
        BY <1>1, <2>1, <2>3, <3>1 DEF Matches, Typed, CountersTyped
      <3>3. Total(b)' = Total(b)
        BY <3>2, TotalStays
      <3>4. Total(budgets[i])' = Total(budgets[i])
        <4>1. budgets'[i] = b
          BY <1>1, <3>1
        <4>2. QED
          BY <3>1, <3>3, <4>1
      <3>5. Known(u, i) => Known(u, i)'
        BY <1>2, KnownStays
      <3>6. Fresh(i) => Fresh(i)'
        BY <1>1, <3>4 DEF Fresh
      <3>7. Healing(u, i)
        BY DEF AllHealing
      <3>8. \A c \in Actors : Recalculates(actor'[c], u, i) <=> Recalculates(actor[c], u, i)
        BY <1>1
      <3>9. QED
        BY <1>1, <3>4, <3>5, <3>6, <3>7, <3>8 DEF Healing
    <2>4. QED
      BY <2>2, <2>3
  <1>4. \A u \in Users : Shown(u)' = Shown(u)
    BY <1>1 DEF Shown, Live
  <1>5. QED
    BY <1>3, <1>4 DEF AllHealing

\* The amount of a budget no goroutine works on, before and after the step.
LEMMA HealingAsBefore ==
    ASSUME Typed, AllHealing, NEW u \in Users, NEW i \in Shown(u),
           rows' = rows, budgets'[i] = budgets[i], collected'[i] = collected[i],
           Known(u, i) => Known(u, i)',
           \A c \in Actors : ~Recalculates(actor[c], u, i) /\ actor'[c].at # "write"
    PROVE  Healing(u, i)'
  <1>1. Healing(u, i)
    BY DEF AllHealing
  <1>2. Fresh(i) => Fresh(i)'
    BY FreshStays
  <1>3. QED
    BY <1>1, <1>2, HealingStep

LEMMA HealingCreate ==
    ASSUME Sequential, Typed, AllHealing, NEW a \in Actors, NEW v \in Users, NEW body \in Bodies,
           Create(a, v, body)
    PROVE  AllHealing'
  <1>1. PICK b : b = Created(v, body)
    OBVIOUS
  <1>2. b \in Row
    BY <1>1, ColumnsIs DEF Created
  <1>3. /\ budgets' = Append(budgets, b) /\ collected' = Append(collected, 0)
        /\ UNCHANGED <<rows, queue, excused>>
    BY <1>1 DEF Create, Created
  <1>4. PICK n : n = Len(budgets) + 1
    OBVIOUS
  <1>5. /\ DOMAIN budgets' = DOMAIN budgets \cup {n}
        /\ \A i \in DOMAIN budgets : budgets'[i] = budgets[i] /\ collected'[i] = collected[i]
    BY <1>2, <1>3, <1>4, CreateKeepsWindows, CollectedMore
  <1>6. \A c \in Actors : /\ actor[c] = Idle
                          /\ Has(actor'[c], n) /\ actor'[c].at = "read"
    BY <1>4, OneByOneCreate DEF Sequential, Create
  <1>7. ASSUME NEW u \in Users, NEW i \in Shown(u)'
        PROVE  Healing(u, i)'
    <2>1. i \in DOMAIN budgets \cup {n}
      BY <1>5 DEF Shown
    <2>2. CASE i = n
      <3>1. Recalculates(actor'[a], u, i)
        BY <1>6, <2>2 DEF Recalculates
      <3>2. QED
        BY <1>6, <3>1 DEF Healing, Recalculates, Has
    <2>3. CASE i \in DOMAIN budgets
      <3>1. i \in Shown(u)
        BY <1>5, <2>3 DEF Shown, Live
      <3>2. Known(u, i) => Known(u, i)'
        BY <1>3, KnownStays
      <3>3. \A c \in Actors : ~Recalculates(actor[c], u, i)
        BY <1>6, IdleIs, NoneRecalculates
      <3>4. QED
        BY <1>3, <1>5, <1>6, <2>3, <3>1, <3>2, <3>3, HealingAsBefore
    <2>4. QED
      BY <2>1, <2>2, <2>3
  <1>8. QED
    BY <1>7 DEF AllHealing

LEMMA HealingUpdate ==
    ASSUME Sequential, Typed, AllHealing, NEW a \in Actors, NEW v \in Users, NEW k \in DOMAIN budgets,
           NEW body \in Bodies, Update(a, v, k, body)
    PROVE  AllHealing'
  <1>1. PICK b : b = Columns(body, budgets[k])
    OBVIOUS
  <1>2. /\ budgets' = [budgets EXCEPT ![k] = b] /\ collected' = collected
        /\ UNCHANGED <<rows, queue, excused>>
    BY <1>1 DEF Update
  <1>3. \A c \in Actors : /\ actor[c] = Idle
                          /\ Has(actor'[c], k) /\ actor'[c].at = "read"
    BY OneByOneUpdate DEF Sequential, Update
  <1>4. ASSUME NEW u \in Users, NEW i \in Shown(u)'
        PROVE  Healing(u, i)'
    <2>1. CASE i = k
      <3>1. Recalculates(actor'[a], u, i)
        BY <1>3, <2>1 DEF Recalculates
      <3>2. QED
        BY <1>3, <3>1 DEF Healing, Recalculates, Has
    <2>2. CASE i # k
      <3>1. i \in Shown(u) /\ budgets'[i] = budgets[i]
        BY <1>2, <2>2 DEF Shown, Live
      <3>2. Known(u, i) => Known(u, i)'
        BY <1>2, KnownStays
      <3>3. \A c \in Actors : ~Recalculates(actor[c], u, i)
        BY <1>3, IdleIs, NoneRecalculates
      <3>4. QED
        BY <1>2, <1>3, <3>1, <3>2, <3>3, HealingAsBefore
    <2>3. QED
      BY <2>1, <2>2
  <1>5. QED
    BY <1>4 DEF AllHealing

\* A worker that takes a task recalculates the budgets of its user, or tries again.
LEMMA HealingRecalculate ==
    ASSUME Sequential, Typed, AllHealing, NEW a \in Actors, NEW t \in BagToSet(queue),
           RecalculateCollectedAmounts(a, t)
    PROVE  AllHealing'
  <1>1. PICK q \in Work :
             /\ actor' = [actor EXCEPT ![a] = q]
             /\ q.at = "read" /\ q.task = t /\ q.cur = NoBudget
             /\ \/ q.todo = {Loaded(i) : i \in ActiveOf(t.user)} /\ ~q.failed
                \/ q.todo = {} /\ q.failed
    BY RecalculateIs
  <1>2. /\ queue' = queue (-) SetToBag({t}) /\ t.type = TypeBudgetUserUpdate
        /\ UNCHANGED <<rows, budgets, collected, excused>>
    BY DEF RecalculateCollectedAmounts
  <1>3. \A c \in Actors : actor[c] = Idle /\ actor'[c] = q
    BY <1>1 DEF Sequential, Typed, ActorsTyped, RecalculateCollectedAmounts
  <1>4. \A v \in BagToSet(queue) \ {t} : v \in BagToSet(queue')
    BY <1>2, Dequeued DEF Typed
  <1>5. ASSUME NEW u \in Users, NEW i \in Shown(u)
        PROVE  Healing(u, i)'
    <2>1. CASE u = t.user
      <3>1. CASE q.todo = {Loaded(j) : j \in ActiveOf(u)}
        <4>1. Loaded(i) \in q.todo /\ Loaded(i).id = i
          BY <3>1, ShownIs DEF Loaded
        <4>2. Recalculates(q, u, i)
          BY <1>1, <4>1 DEF Recalculates, Has
        <4>3. QED
          BY <1>1, <1>3, <4>2 DEF Healing, Recalculates, Has
      <3>2. CASE q.failed
        <4>1. Recalculates(q, u, i)
          BY <1>1, <1>2, <2>1, <3>2 DEF Recalculates
        <4>2. QED
          BY <1>1, <1>3, <4>1 DEF Healing, Recalculates, Has
      <3>3. QED
        BY <1>1, <2>1, <3>1, <3>2
    <2>2. CASE u # t.user
      <3>1. Known(u, i) => Known(u, i)'
        BY <1>2, <1>4, <2>2 DEF Known, Queued
      <3>2. \A c \in Actors : ~Recalculates(actor[c], u, i)
        BY <1>3, IdleIs, NoneRecalculates
      <3>3. QED
        BY <1>1, <1>2, <1>3, <3>1, <3>2, HealingAsBefore
    <2>3. QED
      BY <2>1, <2>2
  <1>6. \A u \in Users : Shown(u)' = Shown(u)
    BY <1>2 DEF Shown, Live
  <1>7. QED
    BY <1>5, <1>6 DEF AllHealing

\* The amount that is read is that of the rows; the one read before it is written.
LEMMA HealingReadRows ==
    ASSUME Sequential, Typed, OneByOne, AllHealing, NEW a \in Actors, ReadRows(a)
    PROVE  AllHealing'
  <1>1. PICK q \in Work, b \in actor[a].todo :
             /\ actor' = [actor EXCEPT ![a] = q] /\ actor[a].at = "read"
             /\ q.at = "write" /\ q.cur = b.id /\ q.todo = actor[a].todo \ {b}
             /\ q.total = Total(b.row) /\ q.task = actor[a].task /\ q.failed = actor[a].failed
             /\ excused' = excused \ {b.id}
    BY ReadRowsIs
  <1>2. UNCHANGED <<rows, budgets, collected, queue>>
    BY DEF ReadRows
  <1>3. \A c \in Actors : c = a /\ actor'[c] = q
    BY <1>1 DEF Sequential, Typed, ActorsTyped
  <1>4. AsLoaded(actor[a])
    BY DEF OneByOne
  <1>5. ASSUME NEW u \in Users, NEW i \in Shown(u)
        PROVE  Healing(u, i)'
    <2>1. CASE i = b.id
      <3>1. Recalculates(q, u, i)
        BY <1>1, <2>1 DEF Recalculates
      <3>2. q.total = Total(budgets[i])
        <4>1. Window(b.row) = Window(budgets[i])
          BY <1>4, <2>1 DEF AsLoaded
        <4>2. QED
          BY <1>1, <4>1, SameTotal
      <3>3. Total(budgets[i])' = Total(budgets[i])
        BY <1>2, FreshStays
      <3>4. QED
        BY <1>3, <3>1, <3>2, <3>3 DEF Healing, Recalculates, Has
    <2>2. CASE i # b.id
      <3>1. Healing(u, i)
        BY DEF AllHealing
      <3>2. Known(u, i) => Known(u, i)'
        BY <1>1, <1>2, <2>2 DEF Known, Queued
      <3>3. Fresh(i) => Fresh(i)'
        BY <1>2, FreshStays
      <3>4. Recalculates(actor[a], u, i) => Recalculates(q, u, i)
        <4>1. Has(actor[a], i) => Has(q, i)
          BY <1>1, <2>2 DEF Has
        <4>2. QED
          BY <1>1, <4>1 DEF Recalculates
      <3>5. QED
        BY <1>1, <1>3, <2>2, <3>1, <3>2, <3>3, <3>4, HealingStep
    <2>3. QED
      BY <2>1, <2>2
  <1>6. \A u \in Users : Shown(u)' = Shown(u)
    BY <1>2 DEF Shown, Live
  <1>7. QED
    BY <1>5, <1>6 DEF AllHealing

LEMMA HealingUpdateCollectedAmount ==
    ASSUME Sequential, Typed, AllHealing, NEW a \in Actors, UpdateCollectedAmount(a)
    PROVE  AllHealing'
  <1>1. PICK q \in Work :
             /\ actor' = [actor EXCEPT ![a] = q] /\ actor[a].at = "write"
             /\ q.at = "read" /\ q.cur = NoBudget /\ q.todo = actor[a].todo
             /\ q.task = actor[a].task /\ q.failed = actor[a].failed
    BY UpdateCollectedAmountIs
  <1>2. /\ collected' = [collected EXCEPT ![actor[a].cur] = actor[a].total]
        /\ UNCHANGED <<rows, budgets, queue, excused>>
    BY DEF UpdateCollectedAmount
  <1>3. \A c \in Actors : c = a /\ actor'[c] = q
    BY <1>1 DEF Sequential, Typed, ActorsTyped
  <1>4. ASSUME NEW u \in Users, NEW i \in Shown(u)
        PROVE  Healing(u, i)'
    <2>1. Healing(u, i)
      BY DEF AllHealing
    <2>2. Known(u, i) => Known(u, i)'
      BY <1>2, KnownStays
    <2>3. Total(budgets[i])' = Total(budgets[i])
      BY <1>2, FreshStays
    <2>4. i \in DOMAIN collected
      BY ShownIs, LenProperties DEF Typed, BudgetsTyped
    <2>5. CASE i = actor[a].cur
      <3>1. Known(u, i) \/ actor[a].total = Total(budgets[i])
        BY <1>1, <2>1, <2>5 DEF Healing
      <3>2. collected'[i] = actor[a].total
        BY <1>2, <2>4, <2>5
      <3>3. Known(u, i)' \/ Fresh(i)'
        BY <2>2, <2>3, <3>1, <3>2 DEF Fresh
      <3>4. QED
        BY <1>1, <1>3, <3>3 DEF Healing
    <2>6. CASE i # actor[a].cur
      <3>1. Fresh(i) => Fresh(i)'
        BY <1>2, <2>3, <2>6 DEF Fresh
      <3>2. Recalculates(actor[a], u, i) => Recalculates(q, u, i)
        BY <1>1, <2>6 DEF Recalculates, Has
      <3>3. QED
        BY <1>1, <1>3, <2>1, <2>2, <3>1, <3>2, HealingStep
    <2>7. QED
      BY <2>5, <2>6
  <1>5. \A u \in Users : Shown(u)' = Shown(u)
    BY <1>2 DEF Shown, Live
  <1>6. QED
    BY <1>4, <1>5 DEF AllHealing

\* A failed task comes back, or is given up and its budgets are known to be out of date.
LEMMA HealingReturn ==
    ASSUME Sequential, Typed, AllHealing, NEW a \in Actors, Return(a)
    PROVE  AllHealing'
  <1>1. PICK t : t = actor[a].task
    OBVIOUS
  <1>2. /\ actor[a].at \in {"read", "copy"} /\ actor[a].todo = {}
        /\ UNCHANGED <<rows, budgets, collected>>
    BY DEF Return
  <1>3. \A c \in Actors : c = a /\ actor'[c] = Idle
    BY DEF Sequential, Typed, ActorsTyped, Return
  <1>4. t \in Task \cup {NoTask} /\ IsABag(queue)
    BY <1>1, WorkIs DEF Typed, QueueTyped
  <1>5. CASE actor[a].failed /\ t # NoTask
    <2>1. queue' = queue (+) Requeue(t) /\ excused' = excused \cup GivenUp(t)
      BY <1>1, <1>5 DEF Return, Excuse
    <2>2. BagToSet(queue') = BagToSet(queue) \cup BagToSet(Requeue(t))
      BY <1>4, <1>5, <2>1, RequeueIs, BagSum
    <2>3. ASSUME NEW u \in Users, NEW i \in Shown(u)
          PROVE  Healing(u, i)'
      <3>1. Healing(u, i)
        BY DEF AllHealing
      <3>2. Known(u, i) => Known(u, i)'
        BY <2>1, <2>2, KnownStays
      <3>3. Fresh(i) => Fresh(i)'
        BY <1>2, FreshStays
      <3>4. Recalculates(actor[a], u, i) => Known(u, i)'
        <4> HAVE Recalculates(actor[a], u, i)
        <4>1. t.type = TypeBudgetUserUpdate /\ t.user = u
          BY <1>1, <1>2 DEF Recalculates, Has
        <4>2. CASE t.retried < MaxRetry
          <5>1. PICK v \in BagToSet(Requeue(t)) : v.type = t.type /\ v.user = t.user
            BY <1>4, <1>5, <4>2, RequeueIs
          <5>2. QED
            BY <2>2, <4>1, <5>1 DEF Known, Queued
        <4>3. CASE ~(t.retried < MaxRetry)
          <5>1. t.retried >= MaxRetry
            BY <1>4, <1>5, <4>3, TaskTypes, BudgetsAssumption DEF BudgetsAssumption
          <5>2. i \in GivenUp(t)
            BY <4>1, <5>1, ShownIs DEF GivenUp
          <5>3. QED
            BY <2>1, <5>2 DEF Known
        <4>4. QED
          BY <4>2, <4>3
      <3>5. QED
        BY <1>3, <3>1, <3>2, <3>3, <3>4, IdleIs, HealingStep
    <2>4. \A u \in Users : Shown(u)' = Shown(u)
      BY <1>2 DEF Shown, Live
    <2>5. QED
      BY <2>3, <2>4 DEF AllHealing
  <1>6. CASE ~(actor[a].failed /\ t # NoTask)
    <2>1. queue' = queue /\ excused' = excused
      BY <1>1, <1>6 DEF Return
    <2>2. ASSUME NEW u \in Users, NEW i \in Shown(u)
          PROVE  Healing(u, i)'
      <3>1. Known(u, i) => Known(u, i)'
        BY <2>1, KnownStays
      <3>2. ~Recalculates(actor[a], u, i)
        BY <1>1, <1>2, <1>6, TaskTypes DEF Recalculates, Has
      <3>3. QED
        BY <1>2, <1>3, <3>1, <3>2, IdleIs, HealingAsBefore
    <2>3. \A u \in Users : Shown(u)' = Shown(u)
      BY <1>2 DEF Shown, Live
    <2>4. QED
      BY <2>2, <2>3 DEF AllHealing
  <1>7. QED
    BY <1>5, <1>6

\* A budget whose recalculation fails is that of a request, or its task is tried again.
LEMMA HealingRecalculateFails ==
    ASSUME Sequential, Typed, OneByOne, AllHealing, NEW a \in Actors, RecalculateFails(a)
    PROVE  AllHealing'
  <1>1. PICK q \in Work, k \in DOMAIN budgets :
                 /\ actor' = [actor EXCEPT ![a] = q]
                 /\ q.at = "read" /\ q.failed /\ q.task = actor[a].task
                 /\ \/ /\ actor[a].at = "read" /\ q.cur = actor[a].cur
                       /\ \E b \in actor[a].todo : b.id = k /\ q.todo = actor[a].todo \ {b}
                    \/ /\ actor[a].at = "write" /\ q.cur = NoBudget
                       /\ actor[a].cur = k /\ q.todo = actor[a].todo
                 /\ excused' = IF actor[a].task = NoTask THEN excused \cup {k} ELSE excused
    BY RecalculateFailsIs
  <1>2. UNCHANGED <<rows, budgets, collected, queue>>
    BY DEF RecalculateFails
  <1>3. \A c \in Actors : c = a /\ actor'[c] = q
    BY <1>1 DEF Sequential, Typed, ActorsTyped
  <1>4. AsLoaded(actor[a]) /\ ForUser(actor[a])
    BY DEF OneByOne
  <1>5. k # NoBudget
    BY CopiesAreCounted DEF NoBudget
  <1>6. ASSUME actor[a].task # NoTask
        PROVE  q.task.type = TypeBudgetUserUpdate /\ q.task.user = budgets[k].user
    <2>1. actor[a].task.type = TypeBudgetUserUpdate
      BY <1>1, <1>4, <1>6 DEF ForUser
    <2>2. CASE actor[a].at = "read"
      <3>1. PICK b \in actor[a].todo : b.id = k
        BY <1>1, <2>2
      <3>2. b.row.user = actor[a].task.user /\ Window(b.row) = Window(budgets[k])
        BY <1>4, <1>6, <2>2, <3>1 DEF ForUser, AsLoaded
      <3>3. QED
        BY <1>1, <2>1, <3>2, WindowIs
    <2>3. CASE actor[a].at = "write"
      BY <1>1, <1>4, <1>5, <1>6, <2>1, <2>3 DEF ForUser
    <2>4. QED
      BY <1>1, <2>2, <2>3
  <1>7. ASSUME NEW u \in Users, NEW i \in Shown(u)
        PROVE  Healing(u, i)'
    <2>1. Healing(u, i) /\ budgets[i].user = u
      BY ShownIs DEF AllHealing
    <2>2. Known(u, i) => Known(u, i)'
      BY <1>1, <1>2, KnownStays
    <2>3. Fresh(i) => Fresh(i)'
      BY <1>2, FreshStays
    <2>4. Recalculates(actor[a], u, i) => Known(u, i)' \/ Recalculates(q, u, i)
      <3> HAVE Recalculates(actor[a], u, i)
      <3>1. CASE i = k
        <4>1. CASE actor[a].task = NoTask
          BY <1>1, <3>1, <4>1 DEF Known
        <4>2. CASE actor[a].task # NoTask
          BY <1>1, <1>6, <2>1, <3>1, <4>2 DEF Recalculates
        <4>3. QED
          BY <4>1, <4>2
      <3>2. CASE i # k
        <4>1. Has(actor[a], i) => Has(q, i)
          BY <1>1, <3>2 DEF Has
        <4>2. QED
          BY <1>1, <3>2, <4>1 DEF Recalculates
      <3>3. QED
        BY <3>1, <3>2
    <2>5. QED
      BY <1>1, <1>3, <2>1, <2>2, <2>3, <2>4, HealingStep
  <1>8. \A u \in Users : Shown(u)' = Shown(u)
    BY <1>2 DEF Shown, Live
  <1>9. QED
    BY <1>7, <1>8 DEF AllHealing

\* Nothing is recalculated before or after the step, and what is shown was shown before.
LEMMA HealingElsewhere ==
    ASSUME Typed, AllHealing, rows' = rows, excused \subseteq excused',
           \A u \in Users : Queued(u) => Queued(u)',
           \A c \in Actors : /\ actor[c].at \notin {"read", "write"}
                             /\ actor'[c].at # "write",
           \A u \in Users : \A i \in Shown(u)' : \/ i \in excused'
                                                 \/ /\ i \in Shown(u) /\ budgets'[i] = budgets[i]
                                                    /\ collected'[i] = collected[i]
    PROVE  AllHealing'
  <1>1. ASSUME NEW u \in Users, NEW i \in Shown(u)'
        PROVE  Healing(u, i)'
    <2>1. CASE i \in excused'
      BY <2>1 DEF Healing, Known
    <2>2. CASE i \in Shown(u) /\ budgets'[i] = budgets[i] /\ collected'[i] = collected[i]
      <3>1. Known(u, i) => Known(u, i)'
        BY DEF Known
      <3>2. \A c \in Actors : ~Recalculates(actor[c], u, i)
        BY NoneRecalculates
      <3>3. QED
        BY <2>2, <3>1, <3>2, HealingAsBefore
    <2>3. QED
      BY <2>1, <2>2
  <1>2. QED
    BY <1>1 DEF AllHealing

LEMMA HealingDaily ==
    ASSUME Sequential, Typed, AllHealing, NEW a \in Actors,
           NEW t \in BagToSet(queue) \cup {NoTask}, DailyProcessing(a, t)
    PROVE  AllHealing'
  <1>1. actor[a] = Idle /\ actor'[a].at = "copy"
    <2>1. PICK q \in Work : actor' = [actor EXCEPT ![a] = q] /\ q.at = "copy"
      BY DailyIs
    <2>2. QED
      BY <2>1 DEF Typed, ActorsTyped, DailyProcessing
  <1>2. UNCHANGED <<rows, budgets, collected, excused>>
    BY DEF DailyProcessing
  <1>3. \A u \in Users : Queued(u) => Queued(u)'
    <2>1. CASE queue' = queue
      BY <2>1 DEF Queued
    <2>2. CASE t \in BagToSet(queue) /\ queue' = queue (-) SetToBag({t}) /\ t.type = TypeBudgetProcessing
      <3>1. \A v \in BagToSet(queue) \ {t} : v \in BagToSet(queue')
        BY <2>2, Dequeued DEF Typed
      <3>2. QED
        BY <2>2, <3>1, TaskTypes DEF Queued
    <2>3. QED
      BY <2>1, <2>2 DEF DailyProcessing, BagIn, BagToSet
  <1>4. \A u \in Users : \A i \in Shown(u)' : i \in Shown(u)
    BY <1>2 DEF Shown, Live
  <1>5. QED
    BY <1>1, <1>2, <1>3, <1>4, IdleIs, HealingElsewhere DEF Sequential

\* A copy starts with nothing collected, and is not recalculated.
LEMMA HealingCreateCopy ==
    ASSUME Sequential, Typed, AllHealing, NEW a \in Actors, CreateCopy(a)
    PROVE  AllHealing'
  <1>1. PICK q \in Work, b \in actor[a].todo :
          /\ actor' = [actor EXCEPT ![a] = q]
          /\ q.at = "archive"
          /\ \/ /\ budgets' = Append(budgets, Copy(b.row, b.id))
                /\ collected' = Append(collected, 0)
                /\ excused' = excused \cup {Len(budgets) + 1}
             \/ budgets' = budgets /\ collected' = collected /\ excused' = excused
    BY CreateCopyIs
  <1>2. \A c \in Actors : c = a /\ actor'[c] = q /\ actor[c].at = "copy"
    BY <1>1 DEF Sequential, Typed, ActorsTyped, CreateCopy
  <1>3. rows' = rows /\ queue' = queue
    BY DEF CreateCopy
  <1>4. \A u \in Users : \A i \in Shown(u)' : \/ i \in excused'
                                              \/ /\ i \in Shown(u) /\ budgets'[i] = budgets[i]
                                                 /\ collected'[i] = collected[i]
    <2>1. CASE budgets' = Append(budgets, Copy(b.row, b.id))
      <3>1. /\ collected' = Append(collected, 0)
            /\ excused' = excused \cup {Len(budgets) + 1}
        <4>1. CASE budgets' = budgets
          <5>1. b.row \in Row /\ b.id \in Nat /\ Dated(b.row)
            BY WorkIs DEF Refers
          <5>2. Copy(b.row, b.id) \in Row
            BY <5>1, CopyIs
          <5>3. QED
            BY <2>1, <4>1, <5>2, CreateKeepsWindows
        <4>2. QED
          BY <1>1, <4>1
      <3>2. b.row \in Row /\ b.id \in Nat /\ Dated(b.row)
        BY WorkIs DEF Refers
      <3>3. PICK c : c = Copy(b.row, b.id)
        OBVIOUS
      <3>4. c \in Row
        BY <3>2, <3>3, CopyIs
      <3>5. /\ DOMAIN budgets' = DOMAIN budgets \cup {Len(budgets) + 1}
            /\ \A i \in DOMAIN budgets : budgets'[i] = budgets[i] /\ collected'[i] = collected[i]
        BY <2>1, <3>1, <3>3, <3>4, CreateKeepsWindows, CollectedMore
      <3>6. QED
        BY <3>1, <3>5 DEF Shown, Live
    <2>2. CASE budgets' = budgets /\ collected' = collected
      BY <2>2 DEF Shown, Live
    <2>3. QED
      BY <1>1, <2>1, <2>2
  <1>5. \A u \in Users : Queued(u) => Queued(u)'
    BY <1>3 DEF Queued
  <1>6. \A c \in Actors : /\ actor[c].at \notin {"read", "write"}
                          /\ actor'[c].at # "write"
    BY <1>1, <1>2
  <1>7. excused \subseteq excused'
    BY <1>1
  <1>8. QED
    BY <1>3, <1>4, <1>5, <1>6, <1>7, HealingElsewhere

LEMMA HealingProcessing ==
    ASSUME Sequential, Typed, AllHealing, NEW a \in Actors, ArchiveOutdated(a) \/ ProcessingFails(a)
    PROVE  AllHealing'
  <1>1. PICK q \in Work :
             /\ actor' = [actor EXCEPT ![a] = q] /\ q.at = "copy"
             /\ actor[a].at \in {"copy", "archive"}
    BY GoesOnCopying
  <1>2. \A c \in Actors : /\ actor[c].at \notin {"read", "write"}
                          /\ actor'[c].at # "write"
    BY <1>1 DEF Sequential, Typed, ActorsTyped
  <1>3. UNCHANGED <<rows, collected, queue, excused>>
    BY DEF ArchiveOutdated, ProcessingFails
  <1>4. \A u \in Users : \A i \in Shown(u)' : i \in Shown(u) /\ budgets'[i] = budgets[i]
    <2>1. CASE ProcessingFails(a)
      BY <2>1 DEF ProcessingFails, Shown, Live
    <2>2. CASE ArchiveOutdated(a)
      <3>1. PICK k \in DOMAIN budgets, b \in Row :
             /\ b.archived /\ budgets' = [budgets EXCEPT ![k] = b]
        BY <2>2, ArchivingIs
      <3>2. QED
        BY <3>1 DEF Shown, Live
    <2>3. QED
      BY <2>1, <2>2
  <1>5. \A u \in Users : Queued(u) => Queued(u)'
    BY <1>3 DEF Queued
  <1>6. QED
    BY <1>2, <1>3, <1>4, <1>5, HealingElsewhere

\* The process dies: tasks come back or are given up, and requests are lost.
LEMMA HealingCrash ==
    ASSUME Typed, OneByOne, AllHealing, Crash
    PROVE  AllHealing'
  <1>1. UNCHANGED <<rows, budgets, collected>> /\ actor' = [c \in Actors |-> Idle]
    BY DEF Crash
  <1>2. BagToSet(queue') = BagToSet(queue) \cup Back
    BY CrashQueue
  <1>3. /\ excused \subseteq excused'
        /\ \A c \in Actors : actor[c].task # NoTask => GivenUp(actor[c].task) \subseteq excused'
        /\ \A c \in Actors : actor[c].task = NoTask /\ actor[c].at \in {"read", "write"} =>
              /\ \A b \in actor[c].todo : b.id \in excused'
              /\ actor[c].cur # NoBudget => actor[c].cur \in excused'
    BY DEF Crash, Excuse
  <1>4. ASSUME NEW u \in Users, NEW i \in Shown(u), NEW c \in Actors, Recalculates(actor[c], u, i)
        PROVE  Known(u, i)'
    <2>1. PICK r \in Work : r = actor[c]
      BY WorkIs
    <2>2. AsLoaded(r) /\ ForUser(r) /\ r.at \in {"read", "write"} /\ i # NoBudget /\ budgets[i].user = u
      BY <1>4, <2>1, ShownIs DEF OneByOne, Recalculates
    <2>3. CASE r.task = NoTask
      <3>1. Has(r, i) \/ r.cur = i
        BY <1>4, <2>1, <2>3, TaskTypes DEF Recalculates
      <3>2. QED
        BY <1>3, <2>1, <2>2, <2>3, <3>1 DEF Has, Known
    <2>4. CASE r.task # NoTask
      <3>1. PICK t \in Task : t = r.task
        BY <2>1, <2>4, WorkIs
      <3>2. t.type = TypeBudgetUserUpdate /\ t.user = u
        <4>1. CASE Has(r, i)
          <5>1. PICK b \in r.todo : b.id = i
            BY <4>1 DEF Has
          <5>2. b.row.user = t.user /\ t.type = TypeBudgetUserUpdate /\ Window(b.row) = Window(budgets[i])
            BY <2>2, <2>4, <3>1, <5>1 DEF ForUser, AsLoaded
          <5>3. QED
            BY <2>2, <5>2, WindowIs
        <4>2. CASE r.cur = i
          BY <2>2, <2>4, <3>1, <4>2 DEF ForUser
        <4>3. QED
          BY <1>4, <2>1, <3>1, <4>1, <4>2 DEF Recalculates
      <3>3. CASE t.retried < MaxRetry
        <4>1. PICK v \in BagToSet(Requeue(t)) : v.type = t.type /\ v.user = t.user
          BY <3>3, RequeueIs
        <4>2. v \in Back
          BY <2>1, <2>4, <3>1, <4>1 DEF Back, Lost
        <4>3. QED
          BY <1>2, <3>2, <4>1, <4>2 DEF Known, Queued
      <3>4. CASE ~(t.retried < MaxRetry)
        <4>1. t.retried >= MaxRetry
          BY <3>4, TaskTypes, BudgetsAssumption DEF BudgetsAssumption
        <4>2. i \in GivenUp(t)
          BY <3>2, <4>1, ShownIs DEF GivenUp
        <4>3. QED
          BY <1>3, <2>1, <2>4, <3>1, <4>2 DEF Known
      <3>5. QED
        BY <3>3, <3>4
    <2>5. QED
      BY <2>3, <2>4
  <1>5. ASSUME NEW u \in Users, NEW i \in Shown(u)
        PROVE  Healing(u, i)'
    <2>1. Healing(u, i)
      BY DEF AllHealing
    <2>2. Known(u, i) => Known(u, i)'
      BY <1>2, <1>3, KnownStays
    <2>3. Fresh(i) => Fresh(i)'
      BY <1>1, FreshStays
    <2>4. \A c \in Actors : actor'[c].at # "write"
      BY <1>1, IdleIs
    <2>5. QED
      BY <1>4, <2>1, <2>2, <2>3, <2>4, HealingStep
  <1>6. \A u \in Users : Shown(u)' = Shown(u)
    BY <1>1 DEF Shown, Live
  <1>7. QED
    BY <1>5, <1>6 DEF AllHealing

\* The work goes on as it was.
LEMMA HealingSame ==
    ASSUME Typed, AllHealing, rows' = rows, collected' = collected, actor' = actor,
           excused' = excused, BagToSet(queue) \subseteq BagToSet(queue'),
           \A u \in Users : \A i \in Shown(u)' : i \in Shown(u) /\ budgets'[i] = budgets[i]
    PROVE  AllHealing'
  <1>1. ASSUME NEW u \in Users, NEW i \in Shown(u)'
        PROVE  Healing(u, i)'
    <2>1. i \in Shown(u) /\ budgets'[i] = budgets[i]
      OBVIOUS
    <2>2. Healing(u, i)
      BY <2>1 DEF AllHealing
    <2>3. Known(u, i) => Known(u, i)'
      BY KnownStays
    <2>4. Total(budgets[i])' = Total(budgets[i]) /\ (Fresh(i) => Fresh(i)')
      BY <2>1, FreshStays
    <2>5. \A c \in Actors : Recalculates(actor'[c], u, i) <=> Recalculates(actor[c], u, i)
      OBVIOUS
    <2>6. QED
      BY <2>2, <2>3, <2>4, <2>5 DEF Healing
  <1>2. QED
    BY <1>1 DEF AllHealing

LEMMA HealingFlags ==
    ASSUME Typed, AllHealing, NEW u \in Users, NEW k \in DOMAIN budgets, Delete(u, k) \/ Archive(u, k)
    PROVE  AllHealing'
  <1>1. UNCHANGED <<rows, collected, queue, actor, excused>>
    BY DEF Delete, Archive
  <1>2. PICK b : /\ budgets' = [budgets EXCEPT ![k] = b]
                 /\ b = [budgets[k] EXCEPT !.deleted = TRUE] \/ b = [budgets[k] EXCEPT !.archived = TRUE]
    BY DEF Delete, Archive
  <1>3. b.deleted \/ b.archived
    <2>1. PICK c \in Row : c = budgets[k]
      BY ElementOfSeq DEF Typed, BudgetsTyped
    <2>2. b = [c EXCEPT !.deleted = TRUE] \/ b = [c EXCEPT !.archived = TRUE]
      BY <1>2, <2>1
    <2>3. QED
      BY <2>1, <2>2 DEF Row
  <1>4. \A v \in Users : \A i \in Shown(v)' : i \in Shown(v) /\ budgets'[i] = budgets[i]
    BY <1>2, <1>3 DEF Shown, Live
  <1>5. QED
    BY <1>1, <1>4, HealingSame

LEMMA HealingClock ==
    ASSUME Typed, AllHealing, Schedule \/ Tick \/ UNCHANGED vars
    PROVE  AllHealing'
  <1>1. UNCHANGED <<rows, budgets, collected, actor, excused>>
    BY DEF Schedule, Tick, vars
  <1>2. BagToSet(queue) \subseteq BagToSet(queue')
    <2>1. CASE Schedule
      <3>1. PICK t : t = [type |-> TypeBudgetProcessing, user |-> NoUser, retried |-> 0]
        OBVIOUS
      <3>2. t \in Task /\ queue' = queue (+) SetToBag({t})
        BY <2>1, <3>1, NewTask DEF Schedule, Enqueue
      <3>3. QED
        BY <3>2, Enqueued DEF Typed
    <2>2. CASE Tick \/ UNCHANGED vars
      BY <2>2 DEF Tick, vars
    <2>3. QED
      BY <2>1, <2>2
  <1>3. \A u \in Users : \A i \in Shown(u)' : i \in Shown(u)
    BY <1>1 DEF Shown, Live
  <1>4. QED
    BY <1>1, <1>2, <1>3, HealingSame

LEMMA StepHealing ==
    ASSUME Sequential, Typed, OneByOne, AllHealing, [Next]_vars
    PROVE  AllHealing'
  <1>1. CASE Next
    BY <1>1, NextIs, HealingWriteTransaction, HealingCreate, HealingUpdate, HealingFlags,
       HealingRecalculate, HealingDaily, HealingReadRows, HealingUpdateCollectedAmount,
       HealingCreateCopy, HealingProcessing, HealingReturn, HealingRecalculateFails,
       HealingCrash, HealingClock
  <1>2. QED
    BY <1>1, HealingClock

LEMMA InitHealing == Init => AllHealing
  BY DEF Init, AllHealing, Shown

\* When no request and no task runs, the collected amount of each budget on show is the
\* sum of the rows it counts, a recalculation of its user waits, or a failure the code
\* logs or a copy since the last recalculation explains the difference
\* (recalculateBudget and enqueueBudgetUpdate): whatever has been retried, given up, or
\* lost with a process that died.
THEOREM BudgetsFreshWhenIdle ==
    ASSUME Sequential
    PROVE  Spec => []FreshWhenIdle
  <1>1. Typed /\ OneByOne /\ [Next]_vars => OneByOne'
    BY StepOneByOne
  <1>2. Typed /\ OneByOne /\ AllHealing /\ [Next]_vars => AllHealing'
    BY StepHealing
  <1>3. AllHealing => FreshWhenIdle
    <2> SUFFICES ASSUME AllHealing, \A a \in Actors : actor[a] = Idle,
                        NEW u \in Users, NEW i \in Shown(u)
                 PROVE  Queued(u) \/ Fresh(i) \/ i \in excused
      BY DEF FreshWhenIdle
    <2>1. \A a \in Actors : ~Recalculates(actor[a], u, i)
      BY IdleIs, NoneRecalculates
    <2>2. QED
      BY <2>1 DEF AllHealing, Healing, Known
  <1>4. QED
    BY <1>1, <1>2, <1>3, InitTyped, InitOneByOne, InitHealing, StepTyped, PTL DEF Spec

=============================================================================
