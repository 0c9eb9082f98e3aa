------------------------ MODULE LedgerRefinementProofs ------------------------
(***************************************************************************)
(* Proof that module LedgerSteps implements module Ledger as long as        *)
(* requests come one after the other and none fails half-way.               *)
(*                                                                          *)
(* What module Ledger makes of tables L is said of records (CreatedIn,      *)
(* UpdatedIn, DeletedIn, AdjustedIn); the statements a request has still to *)
(* execute lead to such tables F (Leads) when it starts and after each of   *)
(* them, in whatever order it replays accounts; when none is left, the      *)
(* tables are F.                                                            *)
(***************************************************************************)
EXTENDS LedgerStepsProofs

-----------------------------------------------------------------------------
(* Whole requests: what module Ledger makes of the tables L, as tables F.   *)

\* The lookups, rows and balances of module Ledger, of tables L instead of its variables.
VisibleIn(L, a) == L.acct[a].opened /\ ~L.acct[a].deleted

MayUseIn(L, u, a) == u \in ActiveUsers /\ a \in Accounts /\ VisibleIn(L, a) /\ Owner[a] = u

DateIn(L, in) == IF in.date = NoDate THEN L.now ELSE in.date

SourceRowIn(L, u, in) ==
    [user |-> u, account |-> in.account, amount |-> in.amount, date |-> DateIn(L, in),
     isIncome |-> in.isIncome, isTransfer |-> in.isTransfer,
     isAdjustment |-> in.isAdjustment, linked |-> NoTx, deleted |-> FALSE]

LinkedRowIn(L, u, in, source) ==
    [user |-> u, account |-> in.target, amount |-> TargetAmountOf(in), date |-> DateIn(L, in),
     isIncome |-> TRUE, isTransfer |-> TRUE, isAdjustment |-> FALSE,
     linked |-> source, deleted |-> FALSE]

SourceBalanceIn(L, u, in) == Apply(L.balance[in.account], SourceRowIn(L, u, in), in.amount)

TargetBalanceIn(L, in) == L.balance[in.target] + TargetAmountOf(in)

AdjustmentIn(L, a, from, to) ==
    [user |-> Owner[a], account |-> a,
     amount |-> IF to > from THEN to - from ELSE from - to,
     date |-> L.now, isIncome |-> to > from, isTransfer |-> FALSE,
     isAdjustment |-> TRUE, linked |-> NoTx, deleted |-> FALSE]

MayEditIn(L, u, id) == u \in ActiveUsers /\ ~L.txs[id].deleted /\ L.txs[id].user = u

HasLinkedIn(L, row) == row.isTransfer /\ row.linked # NoTx /\ ~L.txs[row.linked].deleted

GuardIn(L, u, id, in) == MayEditIn(L, u, id) /\ ~SelfTransfer(in) /\ MayUseIn(L, u, in.account)

EditedIn(L, id, in) ==
    [L.txs[id] EXCEPT !.account = in.account, !.amount = in.amount, !.date = DateIn(L, in),
                      !.isIncome = in.isIncome, !.isTransfer = in.isTransfer,
                      !.isAdjustment = in.isAdjustment]

TouchedIn(L, id, in) == {in.account, L.txs[id].account}

\* The new_balance a replay of rows T gives to row i.
ReplayedIn(L, T, N, i) ==
    LET a    == T[i].account
        rows == Chronological(T, a)
    IN  ReplayFrom(L.initial[a], T, N, rows)[CHOOSE k \in DOMAIN rows : rows[k] = i]

\* StoreAndReplay: rows T are stored, then the accounts S are replayed.
StoredIn(L, F, T, N, S) ==
    /\ F.txs = T
    /\ F.newBalance = [i \in DOMAIN T |->
          IF T[i].account \in S /\ VisibleIn(L, T[i].account) /\ ~T[i].deleted
          THEN ReplayedIn(L, T, N, i) ELSE N[i]]
    /\ F.balance = [a \in Accounts |->
          IF a \in S /\ VisibleIn(L, a) THEN Final(L.initial[a], T, N, a) ELSE L.balance[a]]

\* CreateTransaction.
CreatedIn(L, F, u, in) ==
    LET id     == Len(L.txs) + 1
        source == SourceBalanceIn(L, u, in)
        target == TargetBalanceIn(L, in)
    IN  /\ MayUseIn(L, u, in.account) /\ ~SelfTransfer(in)
        /\ \/ /\ ~HasTarget(in)
              /\ F.txs = Append(L.txs, SourceRowIn(L, u, in))
              /\ F.newBalance = Append(L.newBalance, source)
              /\ F.balance = [L.balance EXCEPT ![in.account] = source]
           \/ /\ HasTarget(in)
              /\ MayUseIn(L, u, in.target)
              /\ F.txs = L.txs \o << [SourceRowIn(L, u, in) EXCEPT !.linked = id + 1],
                                     LinkedRowIn(L, u, in, id) >>
              /\ F.newBalance = L.newBalance \o <<source, target>>
              /\ F.balance = [L.balance EXCEPT ![in.account] = source, ![in.target] = target]

\* UpdateAlone, UpdateUnlink, UpdateTransfer and UpdateLink.
UpdatedIn(L, F, u, id, in) ==
    LET row    == L.txs[id]
        link   == row.linked
        edited == EditedIn(L, id, in)
        cut    == [L.txs EXCEPT ![id] = [edited EXCEPT !.linked = NoTx]]
        target == IF in.target # NoAccount THEN in.target ELSE L.txs[link].account
        mirror == [L.txs[link] EXCEPT !.account = target, !.amount = TargetAmountOf(in),
                                      !.date = DateIn(L, in), !.isIncome = TRUE,
                                      !.isTransfer = TRUE]
    IN  /\ GuardIn(L, u, id, in)
        /\ \/ /\ \/ ~row.isTransfer /\ ~HasTarget(in)
                 \/ row.isTransfer /\ in.isTransfer /\ ~HasLinkedIn(L, row)
              /\ StoredIn(L, F, [L.txs EXCEPT ![id] = edited], L.newBalance, TouchedIn(L, id, in))
           \/ /\ row.isTransfer /\ ~in.isTransfer /\ HasLinkedIn(L, row)
              /\ StoredIn(L, F, [cut EXCEPT ![link].deleted = TRUE], L.newBalance,
                          TouchedIn(L, id, in) \cup {L.txs[link].account})
           \/ /\ row.isTransfer /\ ~in.isTransfer /\ ~HasLinkedIn(L, row)
              /\ StoredIn(L, F, cut, L.newBalance, TouchedIn(L, id, in))
           \/ /\ in.isTransfer /\ HasLinkedIn(L, row) /\ MayUseIn(L, u, target)
              /\ StoredIn(L, F, [L.txs EXCEPT ![link] = mirror, ![id] = edited], L.newBalance,
                          TouchedIn(L, id, in) \cup {target, L.txs[link].account})
           \/ /\ ~row.isTransfer /\ HasTarget(in) /\ MayUseIn(L, u, in.target)
              /\ StoredIn(L, F, Append([L.txs EXCEPT ![id] = [edited EXCEPT !.linked = Len(L.txs) + 1]],
                                       LinkedRowIn(L, u, in, id)),
                          Append(L.newBalance, TargetBalanceIn(L, in)),
                          TouchedIn(L, id, in) \cup {in.target})

\* DeleteTransaction.
DeletedIn(L, F, u, id) ==
    LET row  == L.txs[id]
        gone == {id} \cup {i \in DOMAIN L.txs : row.isTransfer /\ row.linked = i}
    IN  /\ MayEditIn(L, u, id)
        /\ StoredIn(L, F, [i \in DOMAIN L.txs |-> IF i \in gone THEN [L.txs[i] EXCEPT !.deleted = TRUE]
                                                  ELSE L.txs[i]],
                    L.newBalance,
                    {row.account} \cup IF HasLinkedIn(L, row) THEN {L.txs[row.linked].account} ELSE {})

\* AdjustBalance.
AdjustedIn(L, F, u, a, target) ==
    /\ MayUseIn(L, u, a)
    /\ target # L.balance[a]
    /\ F.txs = Append(L.txs, AdjustmentIn(L, a, L.balance[a], target))
    /\ F.newBalance = Append(L.newBalance, target)
    /\ F.balance = [L.balance EXCEPT ![a] = target]

\* A request of module Ledger that writes rows.
Requested(L, F) ==
    /\ F.acct = L.acct /\ F.initial = L.initial /\ F.now = L.now
    /\ \E u \in Users :
          \/ \E in \in Inputs : CreatedIn(L, F, u, in)
          \/ \E id \in DOMAIN L.txs, in \in Inputs : UpdatedIn(L, F, u, id, in)
          \/ \E id \in DOMAIN L.txs : DeletedIn(L, F, u, id)
          \/ \E a \in Accounts, b \in Balances : AdjustedIn(L, F, u, a, b)

\* The operators of the instance speak of the tables in `ledger'.
LEMMA WholeRows ==
    /\ \A a : Whole!Visible(a) <=> VisibleIn(ledger, a)
    /\ \A u, a : Whole!MayUse(u, a) <=> MayUseIn(ledger, u, a)
    /\ \A in : Whole!DateOf(in) = DateIn(ledger, in)
    /\ \A in : Whole!HasTarget(in) = HasTarget(in)
    /\ \A in : Whole!SelfTransfer(in) = SelfTransfer(in)
    /\ \A in : Whole!TargetAmountOf(in) = TargetAmountOf(in)
    /\ \A u, id : Whole!MayEdit(u, id) <=> MayEditIn(ledger, u, id)
    /\ \A row : Whole!HasLinked(row) <=> HasLinkedIn(ledger, row)
    /\ \A u, id, in : Whole!UpdateGuard(u, id, in) <=> GuardIn(ledger, u, id, in)
  <1>1. \A a : Whole!Visible(a) <=> VisibleIn(ledger, a)
    BY DEF Whole!Visible, VisibleIn
  <1>2. \A u, a : Whole!MayUse(u, a) <=> MayUseIn(ledger, u, a)
    BY <1>1 DEF Whole!MayUse, MayUseIn
  <1>3. \A in : Whole!DateOf(in) = DateIn(ledger, in)
    BY DEF Whole!DateOf, DateIn
  <1>4. \A in : Whole!HasTarget(in) = HasTarget(in)
    BY DEF Whole!HasTarget, HasTarget, Whole!NoAccount, NoAccount
  <1>5. \A in : Whole!SelfTransfer(in) = SelfTransfer(in)
    BY <1>4 DEF Whole!SelfTransfer, SelfTransfer
  <1>6. \A in : Whole!TargetAmountOf(in) = TargetAmountOf(in)
    BY DEF Whole!TargetAmountOf, TargetAmountOf
  <1>7. \A u, id : Whole!MayEdit(u, id) <=> MayEditIn(ledger, u, id)
    BY DEF Whole!MayEdit, MayEditIn
  <1>8. \A row : Whole!HasLinked(row) <=> HasLinkedIn(ledger, row)
    BY DEF Whole!HasLinked, HasLinkedIn, Whole!NoTx, NoTx
  <1>9. \A u, id, in : Whole!UpdateGuard(u, id, in) <=> GuardIn(ledger, u, id, in)
    BY <1>2, <1>5, <1>7 DEF Whole!UpdateGuard, GuardIn
  <1>10. QED
    BY <1>1, <1>2, <1>3, <1>4, <1>5, <1>6, <1>7, <1>8, <1>9

\* What it computes in a replay.
LEMMA WholeReplay ==
    /\ \A T, N, i : Whole!ReplayedBalance(T, N, i) = ReplayedIn(ledger, T, N, i)
    /\ \A T, N, a : Whole!RecalculateFromTransactions(T, N, a) = Final(ledger.initial[a], T, N, a)
  <1>1. \A S : Whole!Cardinality(S) = Cardinality(S)
    BY DEF Whole!Cardinality, Cardinality
  <1>2. \A T, a : Whole!LiveIn(T, a) = LiveIn(T, a)
    BY DEF Whole!LiveIn, LiveIn
  <1>4. \A b, r, t : Whole!Apply(b, r, t) = Apply(b, r, t)
    BY DEF Whole!Apply, Apply
  <1>5. ASSUME NEW T, NEW a PROVE Whole!Chronological(T, a) = Chronological(T, a)
    BY DEF Whole!Chronological, Chronological, Whole!LiveIn, LiveIn, Whole!Precedes, Precedes,
           Whole!Cardinality, Cardinality
  <1>6. ASSUME NEW T, NEW N, NEW a
        PROVE  Whole!Running(T, N, a) = ReplayFrom(ledger.initial[a], T, N, Chronological(T, a))
    BY <1>4, <1>5 DEF Whole!Running, ReplayFrom, Replays
  <1>7. ASSUME NEW T, NEW N, NEW i
        PROVE  Whole!ReplayedBalance(T, N, i) = ReplayedIn(ledger, T, N, i)
    BY <1>5, <1>6 DEF Whole!ReplayedBalance, ReplayedIn
  <1>8. ASSUME NEW T, NEW N, NEW a
        PROVE  Whole!RecalculateFromTransactions(T, N, a) = Final(ledger.initial[a], T, N, a)
    BY <1>1, <1>2, <1>6 DEF Whole!RecalculateFromTransactions, Final
  <1>9. QED
    BY <1>7, <1>8

\* The rows it writes.
LEMMA WholeWrites ==
    /\ \A u, in : Whole!SourceRow(u, in) = SourceRowIn(ledger, u, in)
    /\ \A u, in, source : Whole!LinkedRow(u, in, source) = LinkedRowIn(ledger, u, in, source)
    /\ \A u, in : Whole!SourceBalance(u, in) = SourceBalanceIn(ledger, u, in)
    /\ \A in : Whole!TargetBalance(in) = TargetBalanceIn(ledger, in)
    /\ \A a, from, to : Whole!AdjustmentRow(a, from, to) = AdjustmentIn(ledger, a, from, to)
    /\ \A id, in : Whole!Edited(id, in) = EditedIn(ledger, id, in)
    /\ \A id, in : Whole!TouchedBy(id, in) = TouchedIn(ledger, id, in)
  <1>1. \A u, in : Whole!SourceRow(u, in) = SourceRowIn(ledger, u, in)
    BY WholeRows DEF Whole!SourceRow, SourceRowIn, Whole!NoTx, NoTx
  <1>2. \A u, in, source : Whole!LinkedRow(u, in, source) = LinkedRowIn(ledger, u, in, source)
    BY WholeRows DEF Whole!LinkedRow, LinkedRowIn
  <1>3. \A u, in : Whole!SourceBalance(u, in) = SourceBalanceIn(ledger, u, in)
    BY <1>1 DEF Whole!SourceBalance, SourceBalanceIn, Whole!Apply, Apply
  <1>4. \A in : Whole!TargetBalance(in) = TargetBalanceIn(ledger, in)
    BY WholeRows DEF Whole!TargetBalance, TargetBalanceIn
  <1>5. \A a, from, to : Whole!AdjustmentRow(a, from, to) = AdjustmentIn(ledger, a, from, to)
    BY DEF Whole!AdjustmentRow, AdjustmentIn, Whole!NoTx, NoTx
  <1>6. \A id, in : Whole!Edited(id, in) = EditedIn(ledger, id, in)
    BY WholeRows DEF Whole!Edited, EditedIn
  <1>7. \A id, in : Whole!TouchedBy(id, in) = TouchedIn(ledger, id, in)
    BY DEF Whole!TouchedBy, TouchedIn
  <1>8. QED
    BY <1>1, <1>2, <1>3, <1>4, <1>5, <1>6, <1>7

\* The tables become F, within the bounds of the model.
Becomes(F) ==
    /\ ledger'.txs = F.txs /\ ledger'.newBalance = F.newBalance /\ ledger'.balance = F.balance
    /\ ledger'.acct = ledger.acct /\ ledger'.initial = ledger.initial /\ ledger'.now = ledger.now
    /\ Whole!Bounded'

\* The actions of the instance, from what a request makes of the tables.
LEMMA WholeStored ==
    ASSUME NEW F, Becomes(F), NEW T, NEW N, NEW S, StoredIn(ledger, F, T, N, S)
    PROVE  Whole!StoreAndReplay(T, N, S)
  BY WholeRows, WholeReplay DEF Becomes, StoredIn, Whole!StoreAndReplay

LEMMA WholeCreate ==
    ASSUME NEW F, Becomes(F), NEW u, NEW in, CreatedIn(ledger, F, u, in)
    PROVE  Whole!CreateTransaction(u, in)
  BY WholeRows, WholeWrites DEF Becomes, CreatedIn, Whole!CreateTransaction

LEMMA WholeUpdate ==
    ASSUME NEW F, Becomes(F), NEW u, NEW id, NEW in, UpdatedIn(ledger, F, u, id, in)
    PROVE  Whole!UpdateTransaction(u, id, in)
  BY WholeRows, WholeWrites, WholeStored
     DEF UpdatedIn, Whole!UpdateTransaction, Whole!UpdateAlone, Whole!UpdateUnlink,
         Whole!UpdateTransfer, Whole!UpdateLink, Whole!NoTx, NoTx, Whole!NoAccount, NoAccount

LEMMA WholeDelete ==
    ASSUME NEW F, Becomes(F), NEW u, NEW id, DeletedIn(ledger, F, u, id)
    PROVE  Whole!DeleteTransaction(u, id)
  BY WholeRows, WholeStored DEF DeletedIn, Whole!DeleteTransaction, Whole!DeletedWith

LEMMA WholeAdjust ==
    ASSUME NEW F, Becomes(F), NEW u, NEW a, NEW b, AdjustedIn(ledger, F, u, a, b)
    PROVE  Whole!AdjustBalance(u, a, b)
  BY WholeRows, WholeWrites DEF Becomes, AdjustedIn, Whole!AdjustBalance

\* Such a request is a step of module Ledger.
LEMMA WholeRequest ==
    ASSUME NEW F, Requested(ledger, F), Becomes(F)
    PROVE  Whole!Next
  <1>1. PICK u \in Users :
          \/ \E in \in Inputs : CreatedIn(ledger, F, u, in)
          \/ \E id \in DOMAIN ledger.txs, in \in Inputs : UpdatedIn(ledger, F, u, id, in)
          \/ \E id \in DOMAIN ledger.txs : DeletedIn(ledger, F, u, id)
          \/ \E a \in Accounts, b \in Balances : AdjustedIn(ledger, F, u, a, b)
    BY DEF Requested
  <1>2. Whole!TransactionRequest(u) \/ Whole!AccountRequest(u)
    BY <1>1, WholeCreate, WholeUpdate, WholeDelete, WholeAdjust
       DEF Whole!TransactionRequest, Whole!AccountRequest
  <1>3. QED
    BY <1>2 DEF Whole!Next

-----------------------------------------------------------------------------
(* What is left of an undisturbed request leads to the tables F.            *)

\* D has the columns of the tables and no others.
IsTables(D) == D = [acct |-> D.acct, initial |-> D.initial, balance |-> D.balance,
                    txs |-> D.txs, newBalance |-> D.newBalance, now |-> D.now]

\* What is still to come: a replay that will do something, or the writes of one.
Awaited(D, q, a) == VisibleIn(D, a) /\ Awaits(q, a)

RowComes(q, i) == \E k \in 1..Len(q) : q[k].op = "rowBalance" /\ q[k].id = i

BalanceComes(q, a) == \E k \in 1..Len(q) : q[k].op = "balance" /\ q[k].account = a

\* F has what a replay of account a computes from D.
Explains(D, F, a) ==
    LET rows == Chronological(D.txs, a)
        run  == ReplayFrom(D.initial[a], D.txs, D.newBalance, rows)
    IN  /\ \A k \in DOMAIN rows : F.newBalance[rows[k]] = run[k]
        /\ F.balance[a] = run[Len(rows)]

\* F differs from D in balances only.
SameOutside(D, F) ==
    /\ IsTables(F)
    /\ F.acct = D.acct /\ F.initial = D.initial /\ F.txs = D.txs /\ F.now = D.now
    /\ F.newBalance = [i \in DOMAIN D.txs |-> F.newBalance[i]]
    /\ F.balance = [a \in Accounts |-> F.balance[a]]

\* Only replays are left, and what they are still to write is what D lacks of F.
Finishing(D, q, F) ==
    /\ SameOutside(D, F)
    /\ \A i \in DOMAIN D.txs :
          \/ D.newBalance[i] = F.newBalance[i]
          \/ /\ Live(D, i) /\ ~D.txs[i].isAdjustment
             /\ Awaited(D, q, D.txs[i].account) \/ RowComes(q, i)
    /\ \A a \in Accounts :
          D.balance[a] = F.balance[a] \/ Awaited(D, q, a) \/ BalanceComes(q, a)
    /\ \A k \in 1..Len(q) :
          /\ q[k].op \in {"replay", "rowBalance", "balance"}
          /\ q[k].op = "rowBalance" => q[k].value = F.newBalance[q[k].id]
          /\ q[k].op = "balance" => q[k].value = F.balance[q[k].account]
    /\ \A a \in Accounts : Awaited(D, q, a) => Explains(D, F, a)

\* A replay computes the same from tables that differ in rows that are no adjustments.
LEMMA ExplainsSame ==
    ASSUME NEW D, TablesFit(D), NEW E, E.txs = D.txs, E.initial = D.initial,
           \A i \in DOMAIN D.txs : D.txs[i].isAdjustment => E.newBalance[i] = D.newBalance[i],
           NEW F, NEW a, Explains(D, F, a)
    PROVE  Explains(E, F, a)
  <1>1. PICK T, N, M, s, rows : /\ T = D.txs /\ N = D.newBalance /\ M = E.newBalance
                                /\ s = D.initial[a] /\ rows = Chronological(T, a)
    OBVIOUS
  <1>2. PICK n : n = Len(rows)
    OBVIOUS
  <1>3. n \in Nat /\ DOMAIN rows = 1..n /\ \A k \in 1..n : rows[k] \in LiveIn(T, a)
    BY <1>1, <1>2, TablesFacts, Visits
  <1>4. \A k \in 1..n : SameEffect(T[rows[k]], N[rows[k]], T[rows[k]], M[rows[k]])
    BY <1>1, <1>3 DEF LiveIn, SameEffect
  <1>5. PICK f, g : f = ReplayFrom(s, T, N, rows) /\ g = ReplayFrom(s, T, M, rows)
    OBVIOUS
  <1>6. Replays(f, s, T, N, rows) /\ Replays(g, s, T, M, rows)
    BY <1>2, <1>3, <1>5, ReplayExists
  <1>7. \A k \in 0..n : f[k] = g[k]
    BY <1>2, <1>3, <1>4, <1>6, SamePrefix
  <1>8. (\A k \in 1..n : F.newBalance[rows[k]] = f[k]) /\ F.balance[a] = f[n]
    BY <1>1, <1>2, <1>3, <1>5 DEF Explains
  <1>9. \A k \in 1..n : F.newBalance[rows[k]] = g[k]
    BY <1>3, <1>7, <1>8
  <1>10. F.balance[a] = g[n]
    BY <1>3, <1>7, <1>8
  <1>11. QED
    BY <1>1, <1>2, <1>3, <1>5, <1>9, <1>10 DEF Explains

\* The first statement goes.
LEMMA DropComes ==
    ASSUME NEW q, IsSequence(q), q # << >>
    PROVE  /\ \A i : RowComes(q, i) => RowComes(Tail(q), i) \/ (q[1].op = "rowBalance" /\ q[1].id = i)
           /\ \A a : BalanceComes(q, a) =>
                        BalanceComes(Tail(q), a) \/ (q[1].op = "balance" /\ q[1].account = a)
           /\ \A a : Awaits(q, a) => Awaits(Tail(q), a) \/ IsReplay(q[1], a)
           /\ \A a : Awaits(Tail(q), a) => Awaits(q, a)
           /\ \A P : (\A k \in 1..Len(q) : q[k] \in P) => \A k \in 1..Len(Tail(q)) : Tail(q)[k] \in P
  <1>1. PICK p : p = Tail(q)
    OBVIOUS
  <1>2. /\ Len(q) \in Nat /\ Len(q) >= 1 /\ Len(p) = Len(q) - 1
        /\ \A k \in 1..Len(p) : p[k] = q[k + 1]
    BY <1>1, TailOf
  <1>3. \A k \in 1..Len(p) : k + 1 \in 1..Len(q)
    BY <1>2
  <1>4. ASSUME NEW k \in 1..Len(q), k # 1 PROVE k - 1 \in 1..Len(p) /\ p[k - 1] = q[k]
    <2>1. k - 1 \in 1..Len(p) /\ (k - 1) + 1 = k
      BY <1>2, <1>4
    <2>2. QED
      BY <1>2, <2>1
  <1>5. ASSUME NEW i, RowComes(q, i)
        PROVE  RowComes(p, i) \/ (q[1].op = "rowBalance" /\ q[1].id = i)
    BY <1>4, <1>5 DEF RowComes
  <1>6. ASSUME NEW a, BalanceComes(q, a)
        PROVE  BalanceComes(p, a) \/ (q[1].op = "balance" /\ q[1].account = a)
    BY <1>4, <1>6 DEF BalanceComes
  <1>7. ASSUME NEW a, Awaits(q, a) PROVE Awaits(p, a) \/ IsReplay(q[1], a)
    BY <1>4, <1>7 DEF Awaits
  <1>8. ASSUME NEW a, Awaits(p, a) PROVE Awaits(q, a)
    BY <1>2, <1>3, <1>8 DEF Awaits
  <1>9. ASSUME NEW P, \A k \in 1..Len(q) : q[k] \in P PROVE \A k \in 1..Len(p) : p[k] \in P
    BY <1>2, <1>3, <1>9
  <1>10. QED
    BY <1>1, <1>5, <1>6, <1>7, <1>8, <1>9

\* A row is written by a replay.
LEMMA RowFinishing ==
    ASSUME NEW D, TablesFit(D), IsTables(D), NEW E, IsTables(E), E.now = D.now, NEW q,
           IsSequence(q), q # << >>, NEW made, Executes(D, E, q[1], made),
           q[1].op = "rowBalance", NEW F, Finishing(D, q, F)
    PROVE  Finishing(E, Tail(q), F)
  <1>1. PICK p, s : p = Tail(q) /\ s = q[1]
    OBVIOUS
  <1>2. /\ E.txs = D.txs /\ E.newBalance = [D.newBalance EXCEPT ![s.id] = s.value]
        /\ E.balance = D.balance /\ E.acct = D.acct /\ E.initial = D.initial
    BY <1>1 DEF Executes
  <1>3. /\ \A i : RowComes(q, i) => RowComes(p, i) \/ s.id = i
        /\ \A a : BalanceComes(q, a) => BalanceComes(p, a)
        /\ \A a : Awaits(q, a) <=> Awaits(p, a)
    BY <1>1, DropComes DEF IsReplay
  <1>4. /\ Len(q) \in Nat /\ Len(q) >= 1 /\ Len(p) = Len(q) - 1
        /\ \A k \in 1..Len(p) : p[k] = q[k + 1]
    BY <1>1, TailOf
  <1>5. s.value = F.newBalance[s.id]
    <2>1. 1 \in 1..Len(q)
      BY <1>4
    <2>2. QED
      BY <1>1, <2>1 DEF Finishing
  <1>6. \A i \in DOMAIN D.txs : E.newBalance[i] = IF i = s.id THEN F.newBalance[i] ELSE D.newBalance[i]
    <2>1. D.newBalance = [i \in DOMAIN D.txs |-> D.newBalance[i]]
      BY LenProperties, TablesFacts DEF TablesFit
    <2>2. QED
      BY <1>2, <1>5, <2>1
  <1>7. \A a : Awaited(D, q, a) <=> Awaited(E, p, a)
    BY <1>2, <1>3 DEF Awaited, VisibleIn
  <1>8. SameOutside(E, F)
    BY <1>2 DEF Finishing, SameOutside
  <1>9. ASSUME NEW i \in DOMAIN E.txs
        PROVE  \/ E.newBalance[i] = F.newBalance[i]
               \/ /\ Live(E, i) /\ ~E.txs[i].isAdjustment
                  /\ Awaited(E, p, E.txs[i].account) \/ RowComes(p, i)
    BY <1>2, <1>3, <1>6, <1>7 DEF Finishing, Live
  <1>10. \A a \in Accounts : E.balance[a] = F.balance[a] \/ Awaited(E, p, a) \/ BalanceComes(p, a)
    BY <1>2, <1>3, <1>7 DEF Finishing
  <1>11. ASSUME NEW k \in 1..Len(p)
         PROVE  /\ p[k].op \in {"replay", "rowBalance", "balance"}
                /\ p[k].op = "rowBalance" => p[k].value = F.newBalance[p[k].id]
                /\ p[k].op = "balance" => p[k].value = F.balance[p[k].account]
    <2>1. k + 1 \in 1..Len(q) /\ p[k] = q[k + 1]
      BY <1>4
    <2>2. QED
      BY <2>1 DEF Finishing
  <1>12. \A i \in DOMAIN D.txs : D.txs[i].isAdjustment => E.newBalance[i] = D.newBalance[i]
    BY <1>6 DEF Finishing
  <1>13. ASSUME NEW a \in Accounts, Awaited(E, p, a) PROVE Explains(E, F, a)
    <2>1. Explains(D, F, a)
      BY <1>7, <1>13 DEF Finishing
    <2>2. QED
      BY <1>2, <1>12, <2>1, ExplainsSame
  <1>14. QED
    BY <1>1, <1>8, <1>9, <1>10, <1>11, <1>13 DEF Finishing

\* The balance of an account is written by a replay, or one of an account nobody sees
\* ends.
LEMMA BalanceFinishing ==
    ASSUME NEW D, TablesFit(D), IsTables(D), NEW E, IsTables(E), E.now = D.now, NEW q,
           IsSequence(q), q # << >>, NEW made, Executes(D, E, q[1], made),
           \/ q[1].op = "balance"
           \/ q[1].op = "replay" /\ ~VisibleIn(D, q[1].account),
           NEW F, Finishing(D, q, F)
    PROVE  Finishing(E, Tail(q), F)
  <1>1. PICK p, s : p = Tail(q) /\ s = q[1]
    OBVIOUS
  <1>2. /\ E.txs = D.txs /\ E.newBalance = D.newBalance
        /\ E.balance = IF s.op = "balance" THEN [D.balance EXCEPT ![s.account] = s.value] ELSE D.balance
        /\ E.acct = D.acct /\ E.initial = D.initial
    BY <1>1 DEF Executes
  <1>3. /\ \A i : RowComes(q, i) => RowComes(p, i)
        /\ \A a : BalanceComes(q, a) => BalanceComes(p, a) \/ (s.op = "balance" /\ s.account = a)
        /\ \A a : Awaits(q, a) => Awaits(p, a) \/ IsReplay(s, a)
        /\ \A a : Awaits(p, a) => Awaits(q, a)
    BY <1>1, DropComes
  <1>4. /\ Len(q) \in Nat /\ Len(q) >= 1 /\ Len(p) = Len(q) - 1
        /\ \A k \in 1..Len(p) : p[k] = q[k + 1]
    BY <1>1, TailOf
  <1>5. s.op = "balance" => s.value = F.balance[s.account]
    <2>1. 1 \in 1..Len(q)
      BY <1>4
    <2>2. QED
      BY <1>1, <2>1 DEF Finishing
  <1>6. \A a \in Accounts : E.balance[a] = IF s.op = "balance" /\ a = s.account THEN F.balance[a]
                                           ELSE D.balance[a]
    <2>1. D.balance \in [Accounts -> Int]
      BY DEF TablesFit
    <2>2. QED
      BY <1>2, <1>5, <2>1
  <1>7. \A a : Awaited(D, q, a) <=> Awaited(E, p, a)
    BY <1>1, <1>2, <1>3 DEF Awaited, VisibleIn, IsReplay
  <1>8. SameOutside(E, F)
    BY <1>2 DEF Finishing, SameOutside
  <1>9. ASSUME NEW i \in DOMAIN E.txs
        PROVE  \/ E.newBalance[i] = F.newBalance[i]
               \/ /\ Live(E, i) /\ ~E.txs[i].isAdjustment
                  /\ Awaited(E, p, E.txs[i].account) \/ RowComes(p, i)
    BY <1>2, <1>3, <1>7 DEF Finishing, Live
  <1>10. \A a \in Accounts : E.balance[a] = F.balance[a] \/ Awaited(E, p, a) \/ BalanceComes(p, a)
    BY <1>3, <1>6, <1>7 DEF Finishing
  <1>11. ASSUME NEW k \in 1..Len(p)
         PROVE  /\ p[k].op \in {"replay", "rowBalance", "balance"}
                /\ p[k].op = "rowBalance" => p[k].value = F.newBalance[p[k].id]
                /\ p[k].op = "balance" => p[k].value = F.balance[p[k].account]
    <2>1. k + 1 \in 1..Len(q) /\ p[k] = q[k + 1]
      BY <1>4
    <2>2. QED
      BY <2>1 DEF Finishing
  <1>12. ASSUME NEW a \in Accounts, Awaited(E, p, a) PROVE Explains(E, F, a)
    <2>1. Explains(D, F, a)
      BY <1>7, <1>12 DEF Finishing
    <2>2. QED
      BY <1>2, <2>1, ExplainsSame
  <1>13. QED
    BY <1>1, <1>8, <1>9, <1>10, <1>11, <1>12 DEF Finishing

\* r are the statements of a replay of account a, one for each row and one for the account.
WritesAll(D, r, a) ==
    LET rows == Chronological(D.txs, a)
        run  == ReplayFrom(D.initial[a], D.txs, D.newBalance, rows)
    IN  /\ IsSequence(r) /\ Len(r) = Len(rows) + 1
        /\ \A k \in 1..Len(rows) : r[k] = RowBalance(rows[k], run[k])
        /\ r[Len(rows) + 1] = SetBalance(a, run[Len(rows)])

\* The statements of a replay, as their list says.
LEMMA WritesAllIs ==
    ASSUME NEW D, TablesFit(D), NEW a,
           NEW rows, rows = Chronological(D.txs, a),
           NEW run, run = ReplayFrom(D.initial[a], D.txs, D.newBalance, rows),
           NEW r, r = [k \in DOMAIN rows |-> RowBalance(rows[k], run[k])]
                      \o << SetBalance(a, run[Len(rows)]) >>
    PROVE  WritesAll(D, r, a)
  <1>1. PICK n : n = Len(rows)
    OBVIOUS
  <1>2. n \in Nat /\ DOMAIN rows = 1..n
    BY <1>1, TablesFacts, Visits
  <1>3. PICK p, b, o : /\ p = [k \in DOMAIN rows |-> RowBalance(rows[k], run[k])]
                       /\ b = SetBalance(a, run[n]) /\ o = << b >>
    OBVIOUS
  <1>4. IsSequence(p) /\ Len(p) = n /\ \A k \in 1..n : p[k] = RowBalance(rows[k], run[k])
    <2>1. p \in [1..n -> {p[k] : k \in 1..n}] /\ \A k \in 1..n : p[k] = RowBalance(rows[k], run[k])
      BY <1>2, <1>3
    <2>2. p \in Seq({p[k] : k \in 1..n})
      BY <1>2, <2>1, SeqDef
    <2>3. Len(p) = n
      BY <1>2, <2>1, <2>2, LenProperties
    <2>4. QED
      BY <2>1, <2>2, <2>3, SequenceOf
  <1>5. IsSequence(o) /\ Len(o) = 1 /\ o[1] = b
    <2>1. o \in Seq({b}) /\ Len(o) = 1 /\ o[1] = b
      BY <1>3
    <2>2. QED
      BY <2>1, SequenceOf
  <1>6. Joined(p, o, r)
    BY <1>1, <1>3, <1>4, <1>5, JoinOf
  <1>7. /\ IsSequence(r) /\ Len(r) = n + 1 /\ \A k \in 1..n : r[k] = p[k]
    BY <1>4, <1>5, <1>6 DEF Joined
  <1>8. r[n + 1] = b
    <2>1. \A i \in 1..Len(o) : r[Len(p) + i] = o[i]
      BY <1>6 DEF Joined
    <2>2. PICK i : i = 1
      OBVIOUS
    <2>3. i \in 1..Len(o)
      BY <1>5, <2>2
    <2>4. r[Len(p) + i] = o[i]
      BY <2>1, <2>3
    <2>5. QED
      BY <1>4, <1>5, <2>2, <2>4
  <1>9. \A k \in 1..n : r[k] = RowBalance(rows[k], run[k])
    BY <1>4, <1>7
  <1>10. QED
    BY <1>1, <1>3, <1>7, <1>8, <1>9 DEF WritesAll

\* The statements a replay puts first, when it has read the tables.
LEMMA WritesAllNow ==
    ASSUME TablesFit(Tables), NEW a
    PROVE  WritesAll(Tables, recalculateBalances(a), a)
  <1>1. PICK rows, run : rows = Chronological(txs, a) /\ run = Running(txs, newBalance, a)
    OBVIOUS
  <1>2. run = ReplayFrom(initial[a], txs, newBalance, rows)
    BY <1>1, RunningIs
  <1>3. Tables.txs = txs /\ Tables.newBalance = newBalance /\ Tables.initial = initial
    BY DEF Tables
  <1>4. recalculateBalances(a) = [k \in DOMAIN rows |-> RowBalance(rows[k], run[k])]
                                 \o << SetBalance(a, run[Len(rows)]) >>
    BY <1>1 DEF recalculateBalances
  <1>5. QED
    BY <1>1, <1>2, <1>3, <1>4, WritesAllIs

\* A replay begins.
LEMMA BeginFinishing ==
    ASSUME NEW D, TablesFit(D), NEW q, IsSequence(q), q # << >>, q[1].op = "replay",
           NEW a \in Accounts, a = q[1].account, VisibleIn(D, a),
           NEW r, WritesAll(D, r, a), NEW F, Finishing(D, q, F)
    PROVE  Finishing(D, r \o Tail(q), F)
  <1>1. PICK t, p, rows, run, n : /\ t = Tail(q) /\ p = r \o t
                                  /\ rows = Chronological(D.txs, a) /\ n = Len(rows)
                                  /\ run = ReplayFrom(D.initial[a], D.txs, D.newBalance, rows)
    OBVIOUS
  <1>2. /\ n \in Nat /\ DOMAIN rows = 1..n
        /\ \A i \in LiveIn(D.txs, a) : \E k \in 1..n : rows[k] = i
    BY <1>1, TablesFacts, Visits
  <1>3. /\ IsSequence(r) /\ Len(r) = n + 1
        /\ \A k \in 1..n : r[k] = RowBalance(rows[k], run[k])
        /\ r[n + 1] = SetBalance(a, run[n])
    BY <1>1 DEF WritesAll
  <1>4. /\ \A k \in 1..n : r[k].op = "rowBalance" /\ r[k].id = rows[k] /\ r[k].value = run[k]
        /\ r[n + 1].op = "balance" /\ r[n + 1].account = a /\ r[n + 1].value = run[n]
    <2>1. ASSUME NEW k \in 1..n
          PROVE  r[k].op = "rowBalance" /\ r[k].id = rows[k] /\ r[k].value = run[k]
      <3>1. r[k] = RowBalance(rows[k], run[k])
        BY <1>3
      <3>2. QED
        BY <3>1 DEF RowBalance
    <2>2. PICK s : s = r[n + 1]
      OBVIOUS
    <2>3. s = SetBalance(a, run[n])
      BY <1>3, <2>2
    <2>4. s.op = "balance" /\ s.account = a /\ s.value = run[n]
      BY <2>3 DEF SetBalance
    <2>5. QED
      BY <2>1, <2>2, <2>4
  <1>5. /\ \A i : RowComes(q, i) => RowComes(t, i)
        /\ \A b : BalanceComes(q, b) => BalanceComes(t, b)
        /\ \A b : Awaits(q, b) => Awaits(t, b) \/ b = a
        /\ \A b : Awaits(t, b) => Awaits(q, b)
    BY <1>1, DropComes DEF IsReplay
  <1>6. /\ IsSequence(t) /\ Len(q) \in Nat /\ Len(q) >= 1 /\ Len(t) = Len(q) - 1
        /\ \A k \in 1..Len(t) : t[k] = q[k + 1]
    BY <1>1, TailOf
  <1>7. Joined(r, t, p)
    BY <1>1, <1>3, <1>6, JoinOf
  <1>8. /\ Len(p) = (n + 1) + Len(t) /\ Len(t) \in Nat
        /\ \A k \in 1..(n + 1) : p[k] = r[k]
        /\ \A k \in 1..Len(t) : p[(n + 1) + k] = t[k]
        /\ \A k \in 1..Len(p) : IF k <= n + 1 THEN p[k] = r[k]
                                ELSE k - (n + 1) \in 1..Len(t) /\ p[k] = t[k - (n + 1)]
    BY <1>3, <1>7 DEF Joined
  <1>9. \A k \in 1..Len(t) : (n + 1) + k \in 1..Len(p)
    BY <1>2, <1>8
  <1>10. \A i : RowComes(t, i) => RowComes(p, i)
    BY <1>8, <1>9 DEF RowComes
  <1>11. \A b : BalanceComes(t, b) => BalanceComes(p, b)
    BY <1>8, <1>9 DEF BalanceComes
  <1>12. \A b : Awaits(t, b) => Awaits(p, b)
    BY <1>8, <1>9 DEF Awaits
  <1>13. ASSUME NEW i \in LiveIn(D.txs, a) PROVE RowComes(p, i)
    <2>1. PICK k \in 1..n : rows[k] = i
      BY <1>2
    <2>2. k \in 1..(n + 1) /\ k \in 1..Len(p)
      BY <1>2, <1>8
    <2>3. p[k].op = "rowBalance" /\ p[k].id = i
      BY <1>4, <1>8, <2>1, <2>2
    <2>4. QED
      BY <2>2, <2>3 DEF RowComes
  <1>14. BalanceComes(p, a)
    <2>1. n + 1 \in 1..(n + 1) /\ n + 1 \in 1..Len(p)
      BY <1>2, <1>8
    <2>2. p[n + 1].op = "balance" /\ p[n + 1].account = a
      BY <1>4, <1>8, <2>1
    <2>3. QED
      BY <2>1, <2>2 DEF BalanceComes
  <1>15. ASSUME NEW b, Awaits(p, b) PROVE Awaits(q, b)
    <2>1. PICK k \in 1..Len(p) : p[k].op = "replay" /\ p[k].account = b
      BY <1>15 DEF Awaits, IsReplay
    <2>2. CASE k <= n + 1
      <3>1. k \in 1..n \/ k = n + 1
        BY <1>2, <2>1, <2>2
      <3>2. p[k] = r[k]
        BY <1>8, <2>2
      <3>3. QED
        BY <1>4, <2>1, <3>1, <3>2
    <2>3. CASE ~(k <= n + 1)
      <3>1. k - (n + 1) \in 1..Len(t) /\ p[k] = t[k - (n + 1)]
        BY <1>8, <2>3
      <3>2. Awaits(t, b)
        BY <2>1, <3>1 DEF Awaits, IsReplay
      <3>3. QED
        BY <1>5, <3>2
    <2>4. QED
      BY <2>2, <2>3
  <1>16. Awaits(q, a)
    <2>1. 1 \in 1..Len(q)
      BY <1>6
    <2>2. QED
      BY <2>1 DEF Awaits, IsReplay
  <1>17. Explains(D, F, a)
    BY <1>16 DEF Finishing, Awaited
  <1>18. (\A k \in 1..n : F.newBalance[rows[k]] = run[k]) /\ F.balance[a] = run[n]
    BY <1>1, <1>2, <1>17 DEF Explains
  <1>19. ASSUME NEW k \in 1..Len(p)
         PROVE  /\ p[k].op \in {"replay", "rowBalance", "balance"}
                /\ p[k].op = "rowBalance" => p[k].value = F.newBalance[p[k].id]
                /\ p[k].op = "balance" => p[k].value = F.balance[p[k].account]
    <2>1. CASE k <= n + 1
      <3>1. k \in 1..n \/ k = n + 1
        BY <1>2, <2>1
      <3>2. p[k] = r[k]
        BY <1>8, <2>1
      <3>3. QED
        BY <1>4, <1>18, <3>1, <3>2
    <2>2. CASE ~(k <= n + 1)
      <3>1. k - (n + 1) \in 1..Len(t) /\ p[k] = t[k - (n + 1)]
        BY <1>8, <2>2
      <3>2. (k - (n + 1)) + 1 \in 1..Len(q) /\ p[k] = q[(k - (n + 1)) + 1]
        BY <1>6, <3>1
      <3>3. QED
        BY <3>2 DEF Finishing
    <2>3. QED
      BY <2>1, <2>2
  <1>20. ASSUME NEW i \in DOMAIN D.txs
         PROVE  \/ D.newBalance[i] = F.newBalance[i]
                \/ /\ Live(D, i) /\ ~D.txs[i].isAdjustment
                   /\ Awaited(D, p, D.txs[i].account) \/ RowComes(p, i)
    <2>1. SUFFICES ASSUME D.newBalance[i] # F.newBalance[i]
                   PROVE  /\ Live(D, i) /\ ~D.txs[i].isAdjustment
                          /\ Awaited(D, p, D.txs[i].account) \/ RowComes(p, i)
      OBVIOUS
    <2>2. /\ Live(D, i) /\ ~D.txs[i].isAdjustment
          /\ Awaited(D, q, D.txs[i].account) \/ RowComes(q, i)
      BY <2>1 DEF Finishing
    <2>3. D.txs[i].account = a => i \in LiveIn(D.txs, a)
      BY <2>2 DEF LiveIn, Live
    <2>4. QED
      BY <1>5, <1>10, <1>12, <1>13, <2>2, <2>3 DEF Awaited
  <1>21. \A b \in Accounts : D.balance[b] = F.balance[b] \/ Awaited(D, p, b) \/ BalanceComes(p, b)
    BY <1>5, <1>11, <1>12, <1>14 DEF Finishing, Awaited
  <1>22. \A b \in Accounts : Awaited(D, p, b) => Explains(D, F, b)
    BY <1>15 DEF Finishing, Awaited
  <1>23. Finishing(D, p, F)
    BY <1>19, <1>20, <1>21, <1>22 DEF Finishing
  <1>24. QED
    BY <1>1, <1>23

\* Nothing is left.
LEMMA NothingLeft ==
    ASSUME NEW D, TablesFit(D), IsTables(D), NEW F, Finishing(D, << >>, F)
    PROVE  D = F
  <1>1. PICK q : q = << >>
    OBVIOUS
  <1>2. 1..Len(q) = {}
    BY <1>1, EmptySeq
  <1>3. Finishing(D, q, F)
    BY <1>1
  <1>4. (\A i \in DOMAIN D.txs : D.newBalance[i] = F.newBalance[i])
        /\ \A a \in Accounts : D.balance[a] = F.balance[a]
    BY <1>2, <1>3 DEF Finishing, Awaited, Awaits, RowComes, BalanceComes
  <1>5. /\ F.newBalance = [i \in DOMAIN D.txs |-> F.newBalance[i]]
        /\ F.balance = [a \in Accounts |-> F.balance[a]]
        /\ F.acct = D.acct /\ F.initial = D.initial /\ F.txs = D.txs /\ F.now = D.now
        /\ IsTables(F)
    BY <1>3 DEF Finishing, SameOutside
  <1>6. D.newBalance = [i \in DOMAIN D.txs |-> D.newBalance[i]]
        /\ D.balance = [a \in Accounts |-> D.balance[a]]
    <2>1. D.newBalance \in Seq(Int) /\ Len(D.newBalance) = Len(D.txs) /\ D.balance \in [Accounts -> Int]
      BY DEF TablesFit
    <2>2. DOMAIN D.txs = 1..Len(D.txs)
      BY TablesFacts
    <2>3. D.newBalance = [i \in 1..Len(D.newBalance) |-> D.newBalance[i]]
      BY <2>1, LenProperties
    <2>4. QED
      BY <2>1, <2>2, <2>3
  <1>7. D.newBalance = F.newBalance /\ D.balance = F.balance
    BY <1>4, <1>5, <1>6
  <1>8. QED
    BY <1>5, <1>7 DEF IsTables

\* The tables after statement s.
Executed(D, s, made) ==
    [acct |-> D.acct, initial |-> D.initial,
     balance |-> IF s.op = "balance" THEN [D.balance EXCEPT ![s.account] = s.value] ELSE D.balance,
     txs |-> CASE s.op = "insert" -> Append(D.txs, StoredRow(s, made))
               [] s.op = "update" -> [D.txs EXCEPT ![s.id] =
                      [s.row EXCEPT !.linked = OwnedBy(made, @), !.deleted = D.txs[s.id].deleted]]
               [] s.op = "delete" -> [D.txs EXCEPT ![s.id].deleted = TRUE]
               [] s.op = "link"   -> [D.txs EXCEPT ![made[1]].linked = made[2]]
               [] OTHER           -> D.txs,
     newBalance |-> CASE s.op = "insert" -> Append(D.newBalance, s.value)
                      [] s.op \in {"update", "rowBalance"} ->
                             [D.newBalance EXCEPT ![s.id] = s.value]
                      [] OTHER -> D.newBalance,
     now |-> D.now]

\* Executing a statement, and nothing else, gives these tables.
LEMMA ExecutedDoes ==
    ASSUME NEW D, NEW s, NEW made, NEW E, E = Executed(D, s, made)
    PROVE  IsTables(E) /\ E.now = D.now /\ Executes(D, E, s, made)
  <1>1. PICK b, T, N :
          /\ b = IF s.op = "balance" THEN [D.balance EXCEPT ![s.account] = s.value] ELSE D.balance
          /\ T = CASE s.op = "insert" -> Append(D.txs, StoredRow(s, made))
                   [] s.op = "update" -> [D.txs EXCEPT ![s.id] =
                      [s.row EXCEPT !.linked = OwnedBy(made, @), !.deleted = D.txs[s.id].deleted]]
                   [] s.op = "delete" -> [D.txs EXCEPT ![s.id].deleted = TRUE]
                   [] s.op = "link"   -> [D.txs EXCEPT ![made[1]].linked = made[2]]
                   [] OTHER           -> D.txs
          /\ N = CASE s.op = "insert" -> Append(D.newBalance, s.value)
                   [] s.op \in {"update", "rowBalance"} -> [D.newBalance EXCEPT ![s.id] = s.value]
                   [] OTHER -> D.newBalance
    OBVIOUS
  <1>2. E = [acct |-> D.acct, initial |-> D.initial, balance |-> b, txs |-> T, newBalance |-> N,
             now |-> D.now]
    BY <1>1 DEF Executed
  <1>3. /\ E.acct = D.acct /\ E.initial = D.initial /\ E.balance = b /\ E.txs = T
        /\ E.newBalance = N /\ E.now = D.now /\ IsTables(E)
    BY <1>2 DEF IsTables
  <1>4. Executes(D, E, s, made)
    BY <1>1, <1>3 DEF Executes
  <1>5. QED
    BY <1>3, <1>4

\* Tables with the same columns are the same.
LEMMA SameTables ==
    ASSUME NEW D, IsTables(D), NEW E, IsTables(E),
           E.acct = D.acct, E.initial = D.initial, E.balance = D.balance, E.txs = D.txs,
           E.newBalance = D.newBalance, E.now = D.now
    PROVE  E = D
  BY DEF IsTables

LEMMA ExecutedIs ==
    ASSUME NEW D, NEW s, NEW made, NEW E, IsTables(E), E.now = D.now, Executes(D, E, s, made)
    PROVE  E = Executed(D, s, made)
  <1>1. PICK G : G = Executed(D, s, made)
    OBVIOUS
  <1>2. IsTables(G) /\ G.now = D.now /\ Executes(D, G, s, made)
    BY <1>1, ExecutedDoes
  <1>3. /\ E.acct = G.acct /\ E.initial = G.initial /\ E.balance = G.balance /\ E.txs = G.txs
        /\ E.newBalance = G.newBalance /\ E.now = G.now
    BY <1>2 DEF Executes
  <1>4. QED
    BY <1>1, <1>2, <1>3, SameTables

-----------------------------------------------------------------------------
(* At most five statements, then replays.                                   *)

\* No statement comes before the replays, or one does, or up to five do.
Ends(D, q, F) == (q = << >> /\ D = F) \/ Finishing(D, q, F)

WriteFirst(q) == q # << >> /\ q[1].op # "replay"

Ends1(D, q, made, F) == WriteFirst(q) /\ Ends(Executed(D, q[1], made), Tail(q), F)

Ends2(D, q, made, F) ==
    WriteFirst(q) /\ Ends1(Executed(D, q[1], made), Tail(q), MadeAfter(D, q[1], made), F)

Ends3(D, q, made, F) ==
    WriteFirst(q) /\ Ends2(Executed(D, q[1], made), Tail(q), MadeAfter(D, q[1], made), F)

Ends4(D, q, made, F) ==
    WriteFirst(q) /\ Ends3(Executed(D, q[1], made), Tail(q), MadeAfter(D, q[1], made), F)

Ends5(D, q, made, F) ==
    WriteFirst(q) /\ Ends4(Executed(D, q[1], made), Tail(q), MadeAfter(D, q[1], made), F)

\* Statements q, with rows `made', lead from tables D to tables F.
Leads(D, q, made, F) ==
    \/ Ends(D, q, F) \/ Ends1(D, q, made, F) \/ Ends2(D, q, made, F)
    \/ Ends3(D, q, made, F) \/ Ends4(D, q, made, F) \/ Ends5(D, q, made, F)

\* What is left of q after its first statement.
Rest(D, q, p) ==
    IF q[1].op = "replay" /\ VisibleIn(D, q[1].account)
    THEN \E r : WritesAll(D, r, q[1].account) /\ p = r \o Tail(q)
    ELSE p = Tail(q)

\* Finishing is kept by every statement of a replay.
LEMMA FinishingGoesOn ==
    ASSUME NEW D, TablesFit(D), IsTables(D), NEW E, IsTables(E), E.now = D.now,
           NEW q, IsSequence(q), q # << >>, NEW made, Executes(D, E, q[1], made),
           q[1].op = "replay" => q[1].account \in Accounts,
           NEW p, Rest(D, q, p), NEW F, Finishing(D, q, F)
    PROVE  Finishing(E, p, F)
  <1>1. q[1].op \in {"replay", "rowBalance", "balance"}
    <2>1. 1 \in 1..Len(q)
      BY TailOf
    <2>2. QED
      BY <2>1 DEF Finishing
  <1>2. CASE q[1].op = "rowBalance"
    <2>1. p = Tail(q)
      BY <1>2 DEF Rest
    <2>2. QED
      BY <1>2, <2>1, RowFinishing
  <1>3. CASE q[1].op = "balance" \/ (q[1].op = "replay" /\ ~VisibleIn(D, q[1].account))
    <2>1. p = Tail(q)
      BY <1>3 DEF Rest
    <2>2. QED
      BY <1>3, <2>1, BalanceFinishing
  <1>4. CASE q[1].op = "replay" /\ VisibleIn(D, q[1].account)
    <2>1. PICK r : WritesAll(D, r, q[1].account) /\ p = r \o Tail(q)
      BY <1>4 DEF Rest
    <2>2. /\ E.acct = D.acct /\ E.initial = D.initial /\ E.balance = D.balance /\ E.txs = D.txs
          /\ E.newBalance = D.newBalance
      BY <1>4 DEF Executes
    <2>3. E = D
      BY <2>2, SameTables
    <2>4. QED
      BY <1>4, <2>1, <2>3, BeginFinishing
  <1>5. QED
    BY <1>1, <1>2, <1>3, <1>4

\* Where the statements lead stays the same when the first of them is executed.
LEMMA LeadsOn ==
    ASSUME NEW D, TablesFit(D), IsTables(D), NEW E, IsTables(E), E.now = D.now,
           NEW q, IsSequence(q), q # << >>, NEW made, Executes(D, E, q[1], made),
           q[1].op = "replay" => q[1].account \in Accounts,
           NEW p, Rest(D, q, p), NEW F, Leads(D, q, made, F)
    PROVE  Leads(E, p, MadeAfter(D, q[1], made), F)
  <1>1. CASE Ends(D, q, F)
    <2>1. Finishing(E, p, F)
      BY <1>1, FinishingGoesOn DEF Ends
    <2>2. QED
      BY <2>1 DEF Leads, Ends
  <1>2. CASE ~Ends(D, q, F)
    <2>1. q[1].op # "replay"
      BY <1>2 DEF Leads, Ends1, Ends2, Ends3, Ends4, Ends5, WriteFirst
    <2>2. p = Tail(q) /\ E = Executed(D, q[1], made)
      BY <2>1, ExecutedIs DEF Rest
    <2>3. CASE Ends1(D, q, made, F)
      BY <2>2, <2>3 DEF Ends1, Leads
    <2>4. CASE Ends2(D, q, made, F)
      BY <2>2, <2>4 DEF Ends2, Leads
    <2>5. CASE Ends3(D, q, made, F)
      BY <2>2, <2>5 DEF Ends3, Leads
    <2>6. CASE Ends4(D, q, made, F)
      BY <2>2, <2>6 DEF Ends4, Leads
    <2>7. CASE Ends5(D, q, made, F)
      BY <2>2, <2>7 DEF Ends5, Leads
    <2>8. QED
      BY <1>2, <2>3, <2>4, <2>5, <2>6, <2>7 DEF Leads
  <1>3. QED
    BY <1>1, <1>2

\* When nothing is left, the tables are there.
LEMMA LedThere ==
    ASSUME NEW D, TablesFit(D), IsTables(D), NEW made, NEW F, Leads(D, << >>, made, F)
    PROVE  D = F
  <1>1. Ends(D, << >>, F)
    BY DEF Leads, Ends1, Ends2, Ends3, Ends4, Ends5, WriteFirst
  <1>2. QED
    BY <1>1, NothingLeft DEF Ends

-----------------------------------------------------------------------------
(* An edit: rows are stored, then replayed.                                 *)

\* The tables L with rows T and new_balance column N, and with accounts S replayed.
Stored(L, T, N, S) ==
    [acct |-> L.acct, initial |-> L.initial,
     balance |-> [a \in Accounts |->
          IF a \in S /\ VisibleIn(L, a) THEN Final(L.initial[a], T, N, a) ELSE L.balance[a]],
     txs |-> T,
     newBalance |-> [i \in DOMAIN T |->
          IF T[i].account \in S /\ VisibleIn(L, T[i].account) /\ ~T[i].deleted
          THEN ReplayedIn(L, T, N, i) ELSE N[i]],
     now |-> L.now]

\* D has these rows, and the rest of L.
RowsOf(D, L, T, N) ==
    /\ TablesFit(D) /\ IsTables(D) /\ D.txs = T /\ D.newBalance = N
    /\ D.acct = L.acct /\ D.initial = L.initial /\ D.balance = L.balance /\ D.now = L.now

\* When the rows are stored, the replays lead to what module Ledger stores.
LEMMA StoredFinishing ==
    ASSUME NEW D, NEW L, NEW T, NEW N, RowsOf(D, L, T, N), NEW S, S \subseteq Accounts,
           NEW r, ReplaysAll(r, S), NEW F, F = Stored(L, T, N, S)
    PROVE  StoredIn(L, F, T, N, S) /\ Finishing(D, r, F)
  <1>1. PICK M, b :
          /\ M = [i \in DOMAIN T |->
                    IF T[i].account \in S /\ VisibleIn(L, T[i].account) /\ ~T[i].deleted
                    THEN ReplayedIn(L, T, N, i) ELSE N[i]]
          /\ b = [a \in Accounts |->
                    IF a \in S /\ VisibleIn(L, a) THEN Final(L.initial[a], T, N, a) ELSE L.balance[a]]
    OBVIOUS
  <1>2. F = [acct |-> L.acct, initial |-> L.initial, balance |-> b, txs |-> T, newBalance |-> M,
             now |-> L.now]
    BY <1>1 DEF Stored
  <1>3. /\ F.acct = L.acct /\ F.initial = L.initial /\ F.balance = b /\ F.txs = T
        /\ F.newBalance = M /\ F.now = L.now /\ IsTables(F)
    BY <1>2 DEF IsTables
  <1>4. /\ D.txs = T /\ D.newBalance = N /\ D.acct = L.acct /\ D.initial = L.initial
        /\ D.balance = L.balance /\ D.now = L.now /\ TablesFit(D) /\ Table(T)
    BY TablesFacts DEF RowsOf
  <1>5. StoredIn(L, F, T, N, S)
    BY <1>1, <1>3 DEF StoredIn
  <1>6. SameOutside(D, F)
    <2>1. M = [i \in DOMAIN T |-> M[i]] /\ b = [a \in Accounts |-> b[a]]
      BY <1>1
    <2>2. QED
      BY <1>3, <1>4, <2>1 DEF SameOutside
  <1>7. \A a : VisibleIn(D, a) <=> VisibleIn(L, a)
    BY <1>4 DEF VisibleIn
  <1>8. \A a : Awaits(r, a) <=> a \in S
    <2>1. \A i \in 1..Len(r) : r[i].op = "replay" /\ r[i].account \in S
      BY DEF ReplaysAll
    <2>2. \A a \in S : \E i \in 1..Len(r) : IsReplay(r[i], a)
      BY DEF ReplaysAll
    <2>3. QED
      BY <2>1, <2>2 DEF Awaits, IsReplay
  <1>9. ASSUME NEW a \in S, VisibleIn(L, a),
               NEW rows, rows = Chronological(T, a),
               NEW run, run = ReplayFrom(L.initial[a], T, N, rows)
        PROVE  /\ \A k \in DOMAIN rows : M[rows[k]] = run[k]
               /\ b[a] = run[Len(rows)]
               /\ \A k \in DOMAIN rows : T[rows[k]].isAdjustment => run[k] = N[rows[k]]
               /\ \A i \in LiveIn(T, a) : \E k \in DOMAIN rows : rows[k] = i
    <2>1. PICK n : n = Cardinality(LiveIn(T, a))
      OBVIOUS
    <2>2. /\ n \in Nat /\ Len(rows) = n /\ DOMAIN rows = 1..n
          /\ \A k \in 1..n : rows[k] \in LiveIn(T, a) /\ Rank(T, a, rows[k]) = k - 1
          /\ \A i \in LiveIn(T, a) : \E k \in 1..n : rows[k] = i
      BY <1>4, <1>9, <2>1, Visits
    <2>3. Replays(run, L.initial[a], T, N, rows)
      BY <1>9, <2>2, ReplayExists
    <2>4. ASSUME NEW k \in 1..n PROVE (CHOOSE l \in DOMAIN rows : rows[l] = rows[k]) = k
      <3>1. PICK m : m = CHOOSE l \in DOMAIN rows : rows[l] = rows[k]
        OBVIOUS
      <3>2. k \in DOMAIN rows
        BY <2>2
      <3>3. m \in DOMAIN rows /\ rows[m] = rows[k]
        BY <3>1, <3>2
      <3>4. m \in 1..n /\ m - 1 = k - 1
        BY <2>2, <3>3
      <3>5. QED
        BY <2>2, <3>1, <3>4
    <2>5. ASSUME NEW k \in 1..n PROVE M[rows[k]] = run[k]
      <3>1. rows[k] \in DOMAIN T /\ T[rows[k]].account = a /\ ~T[rows[k]].deleted
        BY <2>2 DEF LiveIn
      <3>2. M[rows[k]] = ReplayedIn(L, T, N, rows[k])
        BY <1>1, <1>9, <3>1
      <3>3. ReplayedIn(L, T, N, rows[k]) = run[CHOOSE l \in DOMAIN rows : rows[l] = rows[k]]
        BY <1>9, <3>1 DEF ReplayedIn
      <3>4. QED
        BY <2>4, <3>2, <3>3
    <2>6. b[a] = run[n]
      BY <1>1, <1>9, <2>1 DEF Final
    <2>7. ASSUME NEW k \in 1..n, T[rows[k]].isAdjustment PROVE run[k] = N[rows[k]]
      <3>1. k \in 0..n /\ k # 0
        BY <2>2
      <3>2. run[k] = Apply(run[k - 1], T[rows[k]], N[rows[k]])
        BY <2>2, <2>3, <3>1 DEF Replays
      <3>3. QED
        BY <2>7, <3>2 DEF Apply
    <2>8. QED
      BY <2>2, <2>5, <2>6, <2>7
  <1>10. ASSUME NEW i \in DOMAIN D.txs
         PROVE  \/ D.newBalance[i] = F.newBalance[i]
                \/ /\ Live(D, i) /\ ~D.txs[i].isAdjustment
                   /\ Awaited(D, r, D.txs[i].account) \/ RowComes(r, i)
    <2>1. PICK a : a = T[i].account
      OBVIOUS
    <2>2. CASE ~(a \in S /\ VisibleIn(L, a) /\ ~T[i].deleted)
      BY <1>1, <1>3, <1>4, <2>1, <2>2
    <2>3. CASE a \in S /\ VisibleIn(L, a) /\ ~T[i].deleted
      <3>1. Live(D, i) /\ Awaited(D, r, a) /\ i \in LiveIn(T, a)
        BY <1>4, <1>7, <1>8, <2>1, <2>3 DEF Live, Awaited, LiveIn
      <3>2. PICK rows, run : /\ rows = Chronological(T, a)
                             /\ run = ReplayFrom(L.initial[a], T, N, rows)
        OBVIOUS
      <3>3. PICK k \in DOMAIN rows : rows[k] = i
        BY <1>9, <2>3, <3>1, <3>2
      <3>4. M[i] = run[k] /\ (T[i].isAdjustment => run[k] = N[i])
        BY <1>9, <2>3, <3>2, <3>3
      <3>5. QED
        BY <1>3, <1>4, <2>1, <3>1, <3>4
    <2>4. QED
      BY <2>2, <2>3
  <1>11. \A a \in Accounts : D.balance[a] = F.balance[a] \/ Awaited(D, r, a) \/ BalanceComes(r, a)
    BY <1>1, <1>3, <1>4, <1>7, <1>8 DEF Awaited
  <1>12. \A k \in 1..Len(r) : /\ r[k].op \in {"replay", "rowBalance", "balance"}
                              /\ r[k].op = "rowBalance" => r[k].value = F.newBalance[r[k].id]
                              /\ r[k].op = "balance" => r[k].value = F.balance[r[k].account]
    BY DEF ReplaysAll
  <1>13. ASSUME NEW a \in Accounts, Awaited(D, r, a) PROVE Explains(D, F, a)
    <2>1. a \in S /\ VisibleIn(L, a)
      BY <1>7, <1>8, <1>13 DEF Awaited
    <2>2. PICK rows, run : /\ rows = Chronological(T, a)
                           /\ run = ReplayFrom(L.initial[a], T, N, rows)
      OBVIOUS
    <2>3. (\A k \in DOMAIN rows : M[rows[k]] = run[k]) /\ b[a] = run[Len(rows)]
      BY <1>9, <2>1, <2>2
    <2>4. QED
      BY <1>3, <1>4, <2>2, <2>3 DEF Explains
  <1>14. QED
    BY <1>5, <1>6, <1>10, <1>11, <1>12, <1>13 DEF Finishing

\* Sequences with the same elements are the same.
LEMMA SameSequence ==
    ASSUME NEW p, IsSequence(p), NEW r, IsSequence(r), Len(p) = Len(r),
           \A i \in 1..Len(p) : p[i] = r[i]
    PROVE  p = r
  <1>1. PICK X, Y : p \in Seq(X) /\ r \in Seq(Y)
    BY DEF IsSequence
  <1>2. p = [i \in 1..Len(p) |-> p[i]] /\ r = [i \in 1..Len(r) |-> r[i]]
    BY <1>1, LenProperties
  <1>3. QED
    BY <1>2

\* A statement, or two, and then r.
LEMMA OneThenTail ==
    ASSUME NEW s, NEW r, IsSequence(r), NEW q, q = << s >> \o r
    PROVE  IsSequence(q) /\ q # << >> /\ q[1] = s /\ Tail(q) = r
  <1>1. PICK h : h = << s >>
    OBVIOUS
  <1>2. h \in Seq({s}) /\ Len(h) = 1 /\ h[1] = s
    BY <1>1
  <1>3. Joined(h, r, q)
    BY <1>1, <1>2, SequenceOf, JoinOf
  <1>4. /\ IsSequence(q) /\ Len(r) \in Nat /\ Len(q) = 1 + Len(r) /\ q[1] = s
        /\ \A i \in 1..Len(r) : q[1 + i] = r[i]
    BY <1>2, <1>3 DEF Joined
  <1>5. q # << >>
    BY <1>4, SequenceIs
  <1>6. PICK t : t = Tail(q)
    OBVIOUS
  <1>7. /\ IsSequence(t) /\ Len(t) = Len(q) - 1
        /\ \A i \in 1..Len(t) : t[i] = q[i + 1]
    BY <1>4, <1>5, <1>6, TailOf
  <1>8. Len(t) = Len(r)
    BY <1>4, <1>7
  <1>9. \A i \in 1..Len(t) : t[i] = r[i]
    <2>1. TAKE i \in 1..Len(t)
    <2>2. i \in 1..Len(r) /\ i + 1 = 1 + i
      BY <1>4, <1>8
    <2>3. QED
      BY <1>4, <1>7, <2>2
  <1>10. QED
    BY <1>4, <1>5, <1>6, <1>7, <1>8, <1>9, SameSequence

\* q is s, then t, then r.
TwoThen(q, s, t, r) ==
    /\ IsSequence(q) /\ q # << >> /\ q[1] = s
    /\ IsSequence(Tail(q)) /\ Tail(q) # << >> /\ Tail(q)[1] = t /\ Tail(Tail(q)) = r

LEMMA TwoThenTail ==
    ASSUME NEW s, NEW t, NEW h, Pair(h, s, t), NEW r, IsSequence(r), NEW q, q = h \o r
    PROVE  TwoThen(q, s, t, r)
  <1>1. PICK p : p = Tail(q)
    OBVIOUS
  <1>2. IsSequence(h) /\ Len(h) = 2 /\ h[1] = s /\ h[2] = t
    BY DEF Pair
  <1>3. Joined(h, r, q)
    BY <1>2, JoinOf
  <1>4. /\ IsSequence(q) /\ Len(r) \in Nat /\ Len(q) = 2 + Len(r)
        /\ \A i \in 1..2 : q[i] = h[i]
        /\ \A i \in 1..Len(r) : q[2 + i] = r[i]
    BY <1>2, <1>3 DEF Joined
  <1>5. q # << >> /\ q[1] = s /\ q[2] = t
    <2>1. q # << >>
      BY <1>4, SequenceIs
    <2>2. q[1] = h[1] /\ q[2] = h[2]
      BY <1>4
    <2>3. QED
      BY <1>2, <2>1, <2>2
  <1>6. /\ IsSequence(p) /\ Len(p) = Len(q) - 1
        /\ \A i \in 1..Len(p) : p[i] = q[i + 1]
    BY <1>1, <1>4, <1>5, TailOf
  <1>7. Len(p) = 1 + Len(r)
    BY <1>4, <1>6
  <1>8. p # << >> /\ p[1] = t
    <2>1. p # << >>
      <3>1. p = << >> <=> Len(p) = 0
        BY <1>6, SequenceIs
      <3>2. QED
        BY <1>4, <1>7, <3>1
    <2>2. 1 \in 1..Len(p)
      BY <1>4, <1>7
    <2>3. PICK i : i = 1
      OBVIOUS
    <2>4. p[i] = q[i + 1] /\ i + 1 = 2
      BY <1>6, <2>2, <2>3
    <2>5. QED
      BY <1>5, <2>1, <2>3, <2>4
  <1>9. PICK o : o = Tail(p)
    OBVIOUS
  <1>10. /\ IsSequence(o) /\ Len(o) = Len(p) - 1
         /\ \A i \in 1..Len(o) : o[i] = p[i + 1]
    BY <1>6, <1>8, <1>9, TailOf
  <1>11. Len(o) = Len(r)
    BY <1>4, <1>7, <1>10
  <1>12. \A i \in 1..Len(o) : o[i] = r[i]
    <2>1. TAKE i \in 1..Len(o)
    <2>2. i \in 1..Len(r) /\ i + 1 \in 1..Len(p) /\ (i + 1) + 1 = 2 + i
      BY <1>4, <1>7, <1>11
    <2>3. o[i] = p[i + 1] /\ p[i + 1] = q[(i + 1) + 1] /\ q[2 + i] = r[i]
      BY <1>4, <1>6, <1>10, <2>2
    <2>4. QED
      BY <2>2, <2>3
  <1>13. o = r
    BY <1>10, <1>11, <1>12, SameSequence
  <1>14. QED
    BY <1>1, <1>4, <1>5, <1>6, <1>8, <1>9, <1>13 DEF TwoThen

\* The tables a statement of an edit leaves.
LEMMA EditExecuted ==
    ASSUME NEW D, NEW s, NEW made, NEW A, CanDo(D, s, made, A), s.op \in EditOps,
           NEW E, E = Executed(D, s, made)
    PROVE  /\ TablesFit(E) /\ IsTables(E) /\ Grown(D, E)
           /\ s.op = "insert" => Len(E.txs) = Len(D.txs) + 1
           /\ E.acct = D.acct /\ E.initial = D.initial /\ E.balance = D.balance /\ E.now = D.now
  <1>1. IsTables(E) /\ E.now = D.now /\ Executes(D, E, s, made)
    BY ExecutedDoes
  <1>2. /\ TablesFit(E) /\ Effect(D, E, s)
        /\ Len(E.txs) = IF s.op = "insert" THEN Len(D.txs) + 1 ELSE Len(D.txs)
    BY <1>1, StatementEffect
  <1>3. Len(D.txs) \in Nat /\ Len(E.txs) \in Nat
    BY <1>2, TablesFacts DEF CanDo
  <1>4. Grown(D, E)
    BY <1>2, <1>3 DEF Effect, Grown
  <1>5. E.acct = D.acct /\ E.initial = D.initial /\ E.balance = D.balance
    BY <1>1 DEF Executes, EditOps
  <1>6. QED
    BY <1>1, <1>2, <1>4, <1>5

\* The accounts a request replays can be replayed.
Opened(D, A) == A \subseteq Accounts /\ \A a \in A : D.acct[a].opened

\* An edit of one statement, or of two, leads to what module Ledger stores.
LEMMA OneLeads ==
    ASSUME NEW D, TablesFit(D), NEW A, Opened(D, A),
           NEW s, s.op \in EditOps, Fits(D, s, A), ~NeedsMine(s),
           NEW r, ReplaysAll(r, A), NEW q, q = << s >> \o r,
           NEW E, E = Executed(D, s, << >>),
           NEW F, F = Stored(D, E.txs, E.newBalance, A)
    PROVE  StoredIn(D, F, E.txs, E.newBalance, A) /\ Leads(D, q, << >>, F)
  <1>1. PICK made : made = << >>
    OBVIOUS
  <1>2. made \in Seq(1..Len(D.txs))
    BY <1>1, EmptySeq
  <1>3. CanDo(D, s, made, A)
    BY <1>2 DEF CanDo, Opened, EditOps
  <1>4. RowsOf(E, D, E.txs, E.newBalance)
    BY <1>1, <1>3, EditExecuted DEF RowsOf
  <1>5. StoredIn(D, F, E.txs, E.newBalance, A) /\ Finishing(E, r, F)
    BY <1>4, StoredFinishing DEF Opened
  <1>6. q # << >> /\ q[1] = s /\ Tail(q) = r
    BY OneThenTail DEF ReplaysAll
  <1>7. Ends1(D, q, made, F)
    BY <1>1, <1>5, <1>6 DEF Ends1, Ends, WriteFirst, EditOps
  <1>8. QED
    BY <1>1, <1>5, <1>7 DEF Leads

LEMMA TwoLead ==
    ASSUME NEW D, TablesFit(D), NEW A, Opened(D, A),
           NEW s, s.op \in EditOps, Fits(D, s, A), ~NeedsMine(s),
           NEW t, t.op \in EditOps, Fits(D, t, A), NeedsMine(t) => s.op = "insert",
           NEW h, Pair(h, s, t), NEW r, ReplaysAll(r, A), NEW q, q = h \o r,
           NEW C, C = Executed(D, s, << >>),
           NEW m, m = MadeAfter(D, s, << >>),
           NEW E, E = Executed(C, t, m),
           NEW F, F = Stored(D, E.txs, E.newBalance, A)
    PROVE  StoredIn(D, F, E.txs, E.newBalance, A) /\ Leads(D, q, << >>, F)
  <1>1. PICK made : made = << >>
    OBVIOUS
  <1>2. made \in Seq(1..Len(D.txs))
    BY <1>1, EmptySeq
  <1>3. CanDo(D, s, made, A)
    BY <1>2 DEF CanDo, Opened, EditOps
  <1>4. /\ TablesFit(C) /\ IsTables(C) /\ Grown(D, C)
        /\ s.op = "insert" => Len(C.txs) = Len(D.txs) + 1
        /\ C.acct = D.acct /\ C.initial = D.initial /\ C.balance = D.balance /\ C.now = D.now
    BY <1>1, <1>3, EditExecuted
  <1>5. /\ m \in Seq(1..Len(C.txs))
        /\ s.op = "insert" => m # << >>
    <2>1. made \in Seq(1..Len(D.txs)) /\ m = MadeAfter(D, s, made)
      BY <1>1, <1>2
    <2>2. /\ m \in Seq(1..Len(C.txs)) /\ Len(made) \in Nat
          /\ Len(m) = IF s.op = "insert" THEN Len(made) + 1 ELSE Len(made)
          /\ m # << >> <=> Len(m) >= 1
      BY <1>4, <2>1, MadeRows
    <2>3. QED
      BY <2>2
  <1>6. CanDo(C, t, m, A)
    <2>1. Fits(C, t, A)
      BY <1>4, GrownFits
    <2>2. QED
      BY <1>4, <1>5, <2>1 DEF CanDo, Opened, EditOps
  <1>7. RowsOf(E, D, E.txs, E.newBalance)
    BY <1>4, <1>6, EditExecuted DEF RowsOf
  <1>8. StoredIn(D, F, E.txs, E.newBalance, A) /\ Finishing(E, r, F)
    BY <1>7, StoredFinishing DEF Opened
  <1>9. PICK p : p = Tail(q)
    OBVIOUS
  <1>10. q # << >> /\ q[1] = s /\ p # << >> /\ p[1] = t /\ Tail(p) = r
    <2>1. IsSequence(r)
      BY DEF ReplaysAll
    <2>2. TwoThen(q, s, t, r)
      BY <2>1, TwoThenTail
    <2>3. QED
      BY <1>9, <2>2 DEF TwoThen
  <1>11. Ends1(C, p, m, F)
    BY <1>8, <1>10 DEF Ends1, Ends, WriteFirst, EditOps
  <1>12. Ends2(D, q, made, F)
    BY <1>1, <1>9, <1>10, <1>11 DEF Ends2, WriteFirst, EditOps
  <1>13. QED
    BY <1>1, <1>8, <1>12 DEF Leads

-----------------------------------------------------------------------------
(* The requests as they read the tables.                                    *)

\* A request reads the tables as they are.
LEMMA ReadRows ==
    ASSUME NEW D, D = Tables
    PROVE  /\ \A a : Visible(a) <=> VisibleIn(D, a)
           /\ \A u, a : MayUse(u, a) <=> MayUseIn(D, u, a)
           /\ \A in : DateOf(in) = DateIn(D, in)
           /\ \A u, id : MayEdit(u, id) <=> MayEditIn(D, u, id)
           /\ \A row : HasLinked(row) <=> HasLinkedIn(D, row)
           /\ \A u, id, in : UpdateGuard(u, id, in) <=> GuardIn(D, u, id, in)
  <1>0. /\ D.acct = acct /\ D.initial = initial /\ D.balance = balance /\ D.txs = txs
        /\ D.newBalance = newBalance /\ D.now = now
    BY DEF Tables
  <1>1. \A a : Visible(a) <=> VisibleIn(D, a)
    BY <1>0 DEF Visible, VisibleIn
  <1>2. \A u, a : MayUse(u, a) <=> MayUseIn(D, u, a)
    BY <1>1 DEF MayUse, MayUseIn
  <1>3. \A in : DateOf(in) = DateIn(D, in)
    BY <1>0 DEF DateOf, DateIn
  <1>4. \A u, id : MayEdit(u, id) <=> MayEditIn(D, u, id)
    BY <1>0 DEF MayEdit, MayEditIn
  <1>5. \A row : HasLinked(row) <=> HasLinkedIn(D, row)
    BY <1>0 DEF HasLinked, HasLinkedIn
  <1>6. \A u, id, in : UpdateGuard(u, id, in) <=> GuardIn(D, u, id, in)
    BY <1>2, <1>4 DEF UpdateGuard, GuardIn
  <1>7. QED
    BY <1>1, <1>2, <1>3, <1>4, <1>5, <1>6

\* So are the rows it means to write.
LEMMA ReadWrites ==
    ASSUME NEW D, D = Tables
    PROVE  /\ \A u, in : SourceRow(u, in) = SourceRowIn(D, u, in)
           /\ \A u, in, source : LinkedRow(u, in, source) = LinkedRowIn(D, u, in, source)
           /\ \A u, in : SourceBalance(u, in) = SourceBalanceIn(D, u, in)
           /\ \A in : TargetBalance(in) = TargetBalanceIn(D, in)
           /\ \A a, from, to : AdjustmentRow(a, from, to) = AdjustmentIn(D, a, from, to)
           /\ \A id, in : Edited(id, in) = EditedIn(D, id, in)
           /\ \A id, in : TouchedBy(id, in) = TouchedIn(D, id, in)
  <1>0. /\ D.acct = acct /\ D.initial = initial /\ D.balance = balance /\ D.txs = txs
        /\ D.newBalance = newBalance /\ D.now = now
    BY DEF Tables
  <1>1. \A u, in : SourceRow(u, in) = SourceRowIn(D, u, in)
    BY ReadRows DEF SourceRow, SourceRowIn
  <1>2. \A u, in, source : LinkedRow(u, in, source) = LinkedRowIn(D, u, in, source)
    BY ReadRows DEF LinkedRow, LinkedRowIn
  <1>3. \A u, in : SourceBalance(u, in) = SourceBalanceIn(D, u, in)
    BY <1>0, <1>1 DEF SourceBalance, SourceBalanceIn
  <1>4. \A in : TargetBalance(in) = TargetBalanceIn(D, in)
    BY <1>0 DEF TargetBalance, TargetBalanceIn
  <1>5. \A a, from, to : AdjustmentRow(a, from, to) = AdjustmentIn(D, a, from, to)
    BY <1>0 DEF AdjustmentRow, AdjustmentIn
  <1>6. \A id, in : Edited(id, in) = EditedIn(D, id, in)
    BY <1>0, ReadRows DEF Edited, EditedIn
  <1>7. \A id, in : TouchedBy(id, in) = TouchedIn(D, id, in)
    BY <1>0 DEF TouchedBy, TouchedIn
  <1>8. QED
    BY <1>1, <1>2, <1>3, <1>4, <1>5, <1>6, <1>7

-----------------------------------------------------------------------------
(* The tables after the statements of a request.                            *)

\* Tables E are tables D with one row rewritten, marked as deleted or added.
Rewrote(D, E, id, row, value) ==
    /\ E.txs = [D.txs EXCEPT ![id] = [row EXCEPT !.deleted = D.txs[id].deleted]]
    /\ E.newBalance = [D.newBalance EXCEPT ![id] = value]

Marked(D, E, id) == E.txs = [D.txs EXCEPT ![id].deleted = TRUE] /\ E.newBalance = D.newBalance

Added(D, E, row, value) ==
    /\ E.txs = Append(D.txs, row) /\ E.newBalance = Append(D.newBalance, value)
    /\ E.balance = D.balance

\* A row is rewritten; its deletion mark stays, and so does its new_balance.
LEMMA UpdateExecuted ==
    ASSUME NEW D, NEW id, NEW row \in Row, row.linked # Mine,
           NEW s, s.op = "update", s.id = id, s.row = row,
           NEW made, NEW E, E = Executed(D, s, made)
    PROVE  Rewrote(D, E, id, row, s.value)
  <1>1. Executes(D, E, s, made)
    BY ExecutedDoes
  <1>2. E.txs = [D.txs EXCEPT ![id] = [row EXCEPT !.linked = OwnedBy(made, @),
                                                  !.deleted = D.txs[id].deleted]]
    BY <1>1 DEF Executes
  <1>3. OwnedBy(made, row.linked) = row.linked
    BY DEF OwnedBy
  <1>4. [row EXCEPT !.linked = OwnedBy(made, @), !.deleted = D.txs[id].deleted]
            = [row EXCEPT !.deleted = D.txs[id].deleted]
    <2>1. PICK o, d : o = OwnedBy(made, row.linked) /\ d = D.txs[id].deleted
      OBVIOUS
    <2>2. [row EXCEPT !.linked = o, !.deleted = d] = [row EXCEPT !.deleted = d]
      BY <1>3, <2>1 DEF Row
    <2>3. QED
      BY <2>1, <2>2
  <1>5. E.newBalance = [D.newBalance EXCEPT ![id] = s.value]
    BY <1>1 DEF Executes
  <1>6. QED
    BY <1>2, <1>4, <1>5 DEF Rewrote

LEMMA DeleteExecuted ==
    ASSUME NEW D, NEW id, NEW s, s.op = "delete", s.id = id, NEW made, NEW E, E = Executed(D, s, made)
    PROVE  Marked(D, E, id)
  <1>1. Executes(D, E, s, made)
    BY ExecutedDoes
  <1>2. QED
    BY <1>1 DEF Executes, Marked

LEMMA InsertExecuted ==
    ASSUME NEW D, NEW row \in Row, row.linked # Mine, NEW s, s.op = "insert", s.row = row,
           NEW made, NEW E, E = Executed(D, s, made)
    PROVE  Added(D, E, row, s.value)
  <1>1. Executes(D, E, s, made)
    BY ExecutedDoes
  <1>2. OwnedBy(made, row.linked) = row.linked
    BY DEF OwnedBy
  <1>3. StoredRow(s, made) = row
    <2>1. PICK o : o = OwnedBy(made, row.linked)
      OBVIOUS
    <2>2. [row EXCEPT !.linked = o] = row
      BY <1>2, <2>1 DEF Row
    <2>3. QED
      BY <2>1, <2>2 DEF StoredRow
  <1>4. QED
    BY <1>1, <1>3 DEF Executes, Added

\* Writing what is there.
LEMMA NothingNew ==
    ASSUME NEW D, TablesFit(D), NEW i \in 1..Len(D.txs), NEW value, value = D.newBalance[i],
           NEW M, M = [D.newBalance EXCEPT ![i] = value]
    PROVE  M = D.newBalance
  <1>1. PICK N, n : N = D.newBalance /\ n = Len(D.txs)
    OBVIOUS
  <1>2. N \in [1..n -> Int]
    BY <1>1, LenProperties DEF TablesFit
  <1>3. [N EXCEPT ![i] = N[i]] = N
    BY <1>1, <1>2
  <1>4. QED
    BY <1>1, <1>3

\* The statements of an edit, one by one.
LEMMA OneWritten ==
    ASSUME NEW D, NEW A, NEW s, WritesRows(D, << s >>, A)
    PROVE  s.op \in EditOps /\ Fits(D, s, A) /\ ~NeedsMine(s)
  <1>1. PICK h : h = << s >>
    OBVIOUS
  <1>2. Len(h) = 1 /\ h[1] = s
    BY <1>1
  <1>3. 1 \in 1..Len(h)
    BY <1>2
  <1>4. h[1].op \in EditOps /\ Fits(D, h[1], A) /\ ~NeedsMine(h[1])
    BY <1>1, <1>3 DEF WritesRows
  <1>5. QED
    BY <1>2, <1>4

LEMMA TwoWritten ==
    ASSUME NEW D, NEW A, NEW s, NEW t, NEW h, Pair(h, s, t), WritesRows(D, h, A)
    PROVE  /\ s.op \in EditOps /\ Fits(D, s, A) /\ ~NeedsMine(s)
           /\ t.op \in EditOps /\ Fits(D, t, A) /\ (NeedsMine(t) => s.op = "insert")
  <1>1. Len(h) = 2 /\ h[1] = s /\ h[2] = t
    BY DEF Pair
  <1>2. 1 \in 1..Len(h) /\ 2 \in 1..Len(h)
    BY <1>1
  <1>3. /\ h[1].op \in EditOps /\ Fits(D, h[1], A) /\ ~NeedsMine(h[1])
        /\ h[2].op \in EditOps /\ Fits(D, h[2], A) /\ (NeedsMine(h[2]) => h[1].op = "insert")
    BY <1>2 DEF WritesRows
  <1>4. QED
    BY <1>1, <1>3

\* An edit: the statements lead to tables F, if the rows they leave are those that
\* module Ledger stores.
EditLeads(D, q, T, N, A) ==
    \E F : /\ StoredIn(D, F, T, N, A) /\ Leads(D, q, << >>, F)
           /\ F.acct = D.acct /\ F.initial = D.initial /\ F.now = D.now

\* What an edit leaves alone, and where one of one or two statements leads.
LEMMA StoredRest ==
    ASSUME NEW L, NEW T, NEW N, NEW S, NEW F, F = Stored(L, T, N, S)
    PROVE  F.acct = L.acct /\ F.initial = L.initial /\ F.now = L.now
  BY DEF Stored

LEMMA OneEditLeads ==
    ASSUME NEW D, TablesFit(D), NEW A, Opened(D, A),
           NEW s, NEW h, h = << s >>, WritesRows(D, h, A),
           NEW r, ReplaysAll(r, A), NEW q, q = h \o r,
           NEW E, E = Executed(D, s, << >>)
    PROVE  EditLeads(D, q, E.txs, E.newBalance, A)
  <1>1. s.op \in EditOps /\ Fits(D, s, A) /\ ~NeedsMine(s)
    BY OneWritten
  <1>2. PICK F : F = Stored(D, E.txs, E.newBalance, A)
    OBVIOUS
  <1>3. StoredIn(D, F, E.txs, E.newBalance, A) /\ Leads(D, q, << >>, F)
    BY <1>1, <1>2, OneLeads
  <1>4. QED
    BY <1>2, <1>3, StoredRest DEF EditLeads

LEMMA TwoEditsLead ==
    ASSUME NEW D, TablesFit(D), NEW A, Opened(D, A), NEW s, NEW t, NEW h, Pair(h, s, t),
           WritesRows(D, h, A), NEW r, ReplaysAll(r, A), NEW q, q = h \o r,
           NEW C, C = Executed(D, s, << >>), NEW m, m = MadeAfter(D, s, << >>),
           NEW E, E = Executed(C, t, m)
    PROVE  EditLeads(D, q, E.txs, E.newBalance, A)
  <1>1. /\ s.op \in EditOps /\ Fits(D, s, A) /\ ~NeedsMine(s)
        /\ t.op \in EditOps /\ Fits(D, t, A) /\ (NeedsMine(t) => s.op = "insert")
    BY TwoWritten
  <1>2. PICK F : F = Stored(D, E.txs, E.newBalance, A)
    OBVIOUS
  <1>3. StoredIn(D, F, E.txs, E.newBalance, A) /\ Leads(D, q, << >>, F)
    BY <1>1, <1>2, TwoLead
  <1>4. QED
    BY <1>2, <1>3, StoredRest DEF EditLeads

-----------------------------------------------------------------------------
(* An update leads to the tables of module Ledger.                          *)

\* Statement s rewrites row id as x, and keeps the row's deletion mark and new_balance.
RewritesRow(D, s, id, x) ==
    /\ s.op = "update" /\ s.id = id /\ s.row = x /\ s.value = D.newBalance[id]
    /\ id \in 1..Len(D.txs) /\ x \in Row /\ x.linked # Mine /\ x.deleted = D.txs[id].deleted

\* Tables E are tables D with row id rewritten as x.
WroteRow(D, E, id, x) == E.txs = [D.txs EXCEPT ![id] = x] /\ E.newBalance = D.newBalance

\* Rewriting a row changes that row and nothing else.
LEMMA RowWritten ==
    ASSUME NEW D, TablesFit(D), NEW s, NEW id, NEW x, RewritesRow(D, s, id, x),
           NEW made, NEW E, E = Executed(D, s, made)
    PROVE  WroteRow(D, E, id, x)
  <1>0. /\ id \in 1..Len(D.txs) /\ x \in Row /\ x.linked # Mine /\ x.deleted = D.txs[id].deleted
        /\ s.op = "update" /\ s.id = id /\ s.row = x /\ s.value = D.newBalance[id]
    BY DEF RewritesRow
  <1>1. /\ E.txs = [D.txs EXCEPT ![id] = [x EXCEPT !.deleted = D.txs[id].deleted]]
        /\ E.newBalance = [D.newBalance EXCEPT ![id] = s.value]
    <2>1. Rewrote(D, E, id, x, s.value)
      BY <1>0, UpdateExecuted
    <2>2. QED
      BY <2>1 DEF Rewrote
  <1>2. PICK d : d = D.txs[id].deleted
    OBVIOUS
  <1>3. [x EXCEPT !.deleted = d] = x
    BY <1>0, <1>2 DEF Row
  <1>4. E.newBalance = D.newBalance
    BY <1>0, <1>1, NothingNew
  <1>5. QED
    BY <1>1, <1>2, <1>3, <1>4 DEF WroteRow

\* A deletion mark is set, and then a row rewritten, or the other way round.
SameMarked(T, U, id, link, x) ==
    [U EXCEPT ![id] = [x EXCEPT !.deleted = U[id].deleted]]
        = [[T EXCEPT ![id] = x] EXCEPT ![link].deleted = TRUE]

\* Both orders give the same rows.
LEMMA MarkAndWrite ==
    ASSUME NEW T \in Seq(Row), NEW id \in 1..Len(T), NEW link \in 1..Len(T), NEW x \in Row,
           x.deleted = T[id].deleted,
           NEW U, U = [T EXCEPT ![link].deleted = TRUE]
    PROVE  SameMarked(T, U, id, link, x)
  <1>1. PICK n : n = Len(T)
    OBVIOUS
  <1>2. T \in [1..n -> Row] /\ id \in 1..n /\ link \in 1..n
    BY <1>1, LenProperties
  <1>3. PICK d, y : /\ d = U[id].deleted /\ y = [x EXCEPT !.deleted = d]
    OBVIOUS
  <1>4. PICK V, W : V = [U EXCEPT ![id] = y] /\ W = [[T EXCEPT ![id] = x] EXCEPT ![link].deleted = TRUE]
    OBVIOUS
  <1>5. V = [i \in 1..n |-> IF i = id THEN y ELSE IF i = link THEN [T[i] EXCEPT !.deleted = TRUE] ELSE T[i]]
    BY <1>2, <1>4
  <1>6. W = [i \in 1..n |-> IF i = link THEN (IF i = id THEN [x EXCEPT !.deleted = TRUE]
                                                         ELSE [T[i] EXCEPT !.deleted = TRUE])
                            ELSE IF i = id THEN x ELSE T[i]]
    BY <1>2, <1>4
  <1>7. CASE link = id
    <2>1. d = TRUE
      BY <1>2, <1>3, <1>7 DEF Row
    <2>2. y = [x EXCEPT !.deleted = TRUE]
      BY <1>3, <2>1
    <2>3. V = W
      BY <1>5, <1>6, <1>7, <2>2
    <2>4. QED
      BY <1>3, <1>4, <2>3 DEF SameMarked
  <1>8. CASE link # id
    <2>1. d = x.deleted
      BY <1>2, <1>3, <1>8
    <2>2. y = x
      BY <1>3, <2>1 DEF Row
    <2>3. V = W
      BY <1>5, <1>6, <1>8, <2>2
    <2>4. QED
      BY <1>3, <1>4, <2>3 DEF SameMarked
  <1>9. QED
    BY <1>7, <1>8 DEF SameMarked

\* A row is appended, and then another rewritten, or the other way round.
SameAppended(T, id, x, z) ==
    /\ [Append(T, z) EXCEPT ![id] = x] = Append([T EXCEPT ![id] = x], z)
    /\ Append(T, z)[id] = T[id]

\* Both orders give the same rows.
LEMMA AppendAndWrite ==
    ASSUME NEW T \in Seq(Row), NEW id \in 1..Len(T), NEW x \in Row, NEW z \in Row
    PROVE  SameAppended(T, id, x, z)
  <1>1. PICK n : n = Len(T)
    OBVIOUS
  <1>2. n \in Nat /\ T \in [1..n -> Row] /\ id \in 1..n
    BY <1>1, LenProperties
  <1>3. PICK U, V, W : U = [T EXCEPT ![id] = x] /\ V = Append(T, z) /\ W = Append(U, z)
    OBVIOUS
  <1>4. U \in [1..n -> Row]
    BY <1>2, <1>3
  <1>5. U \in Seq(Row) /\ Len(U) = n
    BY <1>2, <1>4, SeqDef, LenProperties
  <1>6. /\ V \in Seq(Row) /\ Len(V) = n + 1 /\ (\A i \in 1..n : V[i] = T[i]) /\ V[n + 1] = z
        /\ W \in Seq(Row) /\ Len(W) = n + 1 /\ (\A i \in 1..n : W[i] = U[i]) /\ W[n + 1] = z
    BY <1>1, <1>3, <1>5, AppendProperties
  <1>7. V \in [1..(n + 1) -> Row] /\ W \in [1..(n + 1) -> Row]
    BY <1>6, LenProperties
  <1>8. [V EXCEPT ![id] = x] = W
    <2>1. PICK Y : Y = [V EXCEPT ![id] = x]
      OBVIOUS
    <2>2. Y \in [1..(n + 1) -> Row]
      BY <1>7, <2>1
    <2>3. ASSUME NEW i \in 1..(n + 1) PROVE Y[i] = W[i]
      <3>1. CASE i = id
        BY <1>2, <1>3, <1>6, <1>7, <2>1, <3>1
      <3>2. CASE i = n + 1
        BY <1>2, <1>6, <1>7, <2>1, <3>2
      <3>3. CASE i \in 1..n /\ i # id
        BY <1>2, <1>3, <1>6, <1>7, <2>1, <3>3
      <3>4. QED
        BY <1>2, <3>1, <3>2, <3>3
    <2>4. QED
      BY <1>7, <2>1, <2>2, <2>3
  <1>9. QED
    BY <1>2, <1>3, <1>6, <1>8 DEF SameAppended

\* Statements q write rows, h, and then replay accounts A.
EditPlan(D, A, h, q) ==
    /\ TablesFit(D) /\ Opened(D, A) /\ WritesRows(D, h, A)
    /\ \E r : ReplaysAll(r, A) /\ q = h \o r

\* An update that writes its own row only.
LEMMA RowLeads ==
    ASSUME NEW D, NEW A, NEW h, NEW q, EditPlan(D, A, h, q),
           NEW s, h = << s >>, NEW id, NEW x, RewritesRow(D, s, id, x),
           NEW T, T = [D.txs EXCEPT ![id] = x]
    PROVE  EditLeads(D, q, T, D.newBalance, A)
  <1>0. PICK r : ReplaysAll(r, A) /\ q = h \o r
    BY DEF EditPlan
  <1>1. PICK E : E = Executed(D, s, << >>)
    OBVIOUS
  <1>2. EditLeads(D, q, E.txs, E.newBalance, A)
    <2>1. TablesFit(D) /\ Opened(D, A) /\ WritesRows(D, h, A)
      BY DEF EditPlan
    <2>2. QED
      BY <1>0, <1>1, <2>1, OneEditLeads
  <1>3. E.txs = [D.txs EXCEPT ![id] = x] /\ E.newBalance = D.newBalance
    <2>1. PICK made : made = << >>
      OBVIOUS
    <2>2. E = Executed(D, s, made)
      BY <1>1, <2>1
    <2>3. WroteRow(D, E, id, x)
      BY <2>2, RowWritten DEF EditPlan
    <2>4. QED
      BY <2>3 DEF WroteRow
  <1>4. QED
    BY <1>2, <1>3

\* The second leg is deleted, and the row cut loose.
LEMMA CutLeads ==
    ASSUME NEW D, NEW A, NEW h, NEW q, EditPlan(D, A, h, q),
           NEW s, NEW t, Pair(h, s, t),
           NEW link \in 1..Len(D.txs), s.op = "delete", s.id = link,
           NEW id, NEW x, RewritesRow(D, t, id, x),
           NEW X, X = [[D.txs EXCEPT ![id] = x] EXCEPT ![link].deleted = TRUE]
    PROVE  EditLeads(D, q, X, D.newBalance, A)
  <1>0. /\ TablesFit(D) /\ id \in 1..Len(D.txs) /\ x \in Row /\ x.linked # Mine
        /\ x.deleted = D.txs[id].deleted
        /\ t.op = "update" /\ t.id = id /\ t.row = x /\ t.value = D.newBalance[id]
    BY DEF EditPlan, RewritesRow
  <1>1. PICK C, m : C = Executed(D, s, << >>) /\ m = MadeAfter(D, s, << >>)
    OBVIOUS
  <1>2. PICK E : E = Executed(C, t, m)
    OBVIOUS
  <1>3. EditLeads(D, q, E.txs, E.newBalance, A)
    <2>1. PICK r : ReplaysAll(r, A) /\ q = h \o r
      BY DEF EditPlan
    <2>2. TablesFit(D) /\ Opened(D, A) /\ WritesRows(D, h, A)
      BY DEF EditPlan
    <2>3. QED
      BY <1>1, <1>2, <2>1, <2>2, TwoEditsLead
  <1>4. C.txs = [D.txs EXCEPT ![link].deleted = TRUE] /\ C.newBalance = D.newBalance
    <2>1. Marked(D, C, link)
      BY <1>1, DeleteExecuted
    <2>2. QED
      BY <2>1 DEF Marked
  <1>5. /\ E.txs = [C.txs EXCEPT ![id] = [x EXCEPT !.deleted = C.txs[id].deleted]]
        /\ E.newBalance = [C.newBalance EXCEPT ![id] = t.value]
    <2>1. Rewrote(C, E, id, x, t.value)
      BY <1>0, <1>2, UpdateExecuted
    <2>2. QED
      BY <2>1 DEF Rewrote
  <1>6. E.newBalance = D.newBalance
    <2>1. t.value = D.newBalance[id] /\ E.newBalance = [D.newBalance EXCEPT ![id] = t.value]
      BY <1>0, <1>4, <1>5
    <2>2. QED
      BY <1>0, <2>1, NothingNew
  <1>7. PICK T, U : T = D.txs /\ U = C.txs
    OBVIOUS
  <1>8. E.txs = [[T EXCEPT ![id] = x] EXCEPT ![link].deleted = TRUE]
    <2>1. T \in Seq(Row) /\ U = [T EXCEPT ![link].deleted = TRUE] /\ x.deleted = T[id].deleted
          /\ id \in 1..Len(T) /\ link \in 1..Len(T)
      BY <1>0, <1>4, <1>7 DEF TablesFit
    <2>2. E.txs = [U EXCEPT ![id] = [x EXCEPT !.deleted = U[id].deleted]]
      BY <1>5, <1>7
    <2>3. SameMarked(T, U, id, link, x)
      BY <1>0, <2>1, MarkAndWrite
    <2>4. QED
      BY <2>2, <2>3 DEF SameMarked
  <1>9. QED
    BY <1>3, <1>6, <1>7, <1>8

\* Both legs are rewritten.
LEMMA LegsLead ==
    ASSUME NEW D, NEW A, NEW h, NEW q, EditPlan(D, A, h, q),
           NEW s, NEW t, Pair(h, s, t),
           NEW link, NEW y, RewritesRow(D, s, link, y),
           NEW id, NEW x, RewritesRow(D, t, id, x),
           NEW X, X = [D.txs EXCEPT ![link] = y, ![id] = x]
    PROVE  EditLeads(D, q, X, D.newBalance, A)
  <1>0. /\ TablesFit(D) /\ id \in 1..Len(D.txs) /\ x \in Row /\ x.linked # Mine
        /\ x.deleted = D.txs[id].deleted
        /\ t.op = "update" /\ t.id = id /\ t.row = x /\ t.value = D.newBalance[id]
    BY DEF EditPlan, RewritesRow
  <1>1. PICK C, m : C = Executed(D, s, << >>) /\ m = MadeAfter(D, s, << >>)
    OBVIOUS
  <1>2. PICK E : E = Executed(C, t, m)
    OBVIOUS
  <1>3. EditLeads(D, q, E.txs, E.newBalance, A)
    <2>1. PICK r : ReplaysAll(r, A) /\ q = h \o r
      BY DEF EditPlan
    <2>2. TablesFit(D) /\ Opened(D, A) /\ WritesRows(D, h, A)
      BY DEF EditPlan
    <2>3. QED
      BY <1>1, <1>2, <2>1, <2>2, TwoEditsLead
  <1>4. C.txs = [D.txs EXCEPT ![link] = y] /\ C.newBalance = D.newBalance
    <2>1. PICK made : made = << >>
      OBVIOUS
    <2>2. C = Executed(D, s, made)
      BY <1>1, <2>1
    <2>3. WroteRow(D, C, link, y)
      BY <1>0, <2>2, RowWritten
    <2>4. QED
      BY <2>3 DEF WroteRow
  <1>5. /\ E.txs = [C.txs EXCEPT ![id] = [x EXCEPT !.deleted = C.txs[id].deleted]]
        /\ E.newBalance = [C.newBalance EXCEPT ![id] = t.value]
    <2>1. Rewrote(C, E, id, x, t.value)
      BY <1>0, <1>2, UpdateExecuted
    <2>2. QED
      BY <2>1 DEF Rewrote
  <1>6. E.newBalance = D.newBalance
    <2>1. t.value = D.newBalance[id] /\ E.newBalance = [D.newBalance EXCEPT ![id] = t.value]
      BY <1>0, <1>4, <1>5
    <2>2. QED
      BY <1>0, <2>1, NothingNew
  <1>7. PICK T, n, d : T = D.txs /\ n = Len(D.txs) /\ d = C.txs[id].deleted
    OBVIOUS
  <1>8. T \in [1..n -> Row]
    BY <1>0, <1>7, LenProperties DEF TablesFit
  <1>9. d = x.deleted
    <2>1. C.txs[id] = IF id = link THEN y ELSE T[id]
      BY <1>0, <1>4, <1>7, <1>8
    <2>2. QED
      BY <1>0, <1>7, <2>1 DEF RewritesRow
  <1>10. [x EXCEPT !.deleted = d] = x
    BY <1>0, <1>9 DEF Row
  <1>11. QED
    BY <1>3, <1>4, <1>5, <1>6, <1>7, <1>10

\* A second leg is inserted, and linked to.
AddsRow(s, z, v) ==
    s.op = "insert" /\ s.row = z /\ s.value = v /\ z \in Row /\ z.linked # Mine /\ v \in Int

LinksRow(D, t, id, e) ==
    /\ t.op = "update" /\ t.id = id /\ t.row = [e EXCEPT !.linked = Mine]
    /\ t.value = D.newBalance[id]
    /\ id \in 1..Len(D.txs) /\ e \in Row /\ e.deleted = D.txs[id].deleted

LEMMA LegLeads ==
    ASSUME NEW D, NEW A, NEW h, NEW q, EditPlan(D, A, h, q),
           NEW s, NEW t, Pair(h, s, t),
           NEW z, NEW v, AddsRow(s, z, v), NEW id, NEW e, LinksRow(D, t, id, e),
           NEW X, X = Append([D.txs EXCEPT ![id] = [e EXCEPT !.linked = Len(D.txs) + 1]], z)
    PROVE  EditLeads(D, q, X, Append(D.newBalance, v), A)
  <1>0. PICK x :
        /\ x = [e EXCEPT !.linked = Mine]
        /\ z \in Row /\ z.linked # Mine /\ v \in Int
        /\ s.op = "insert" /\ s.row = z /\ s.value = v
        /\ id \in 1..Len(D.txs) /\ e \in Row /\ e.deleted = D.txs[id].deleted
        /\ t.op = "update" /\ t.id = id /\ t.row = x /\ t.value = D.newBalance[id]
    BY DEF AddsRow, LinksRow
  <1>1. PICK C, m : C = Executed(D, s, << >>) /\ m = MadeAfter(D, s, << >>)
    OBVIOUS
  <1>2. PICK E : E = Executed(C, t, m)
    OBVIOUS
  <1>3. EditLeads(D, q, E.txs, E.newBalance, A)
    <2>1. PICK r : ReplaysAll(r, A) /\ q = h \o r
      BY DEF EditPlan
    <2>2. TablesFit(D) /\ Opened(D, A) /\ WritesRows(D, h, A)
      BY DEF EditPlan
    <2>3. QED
      BY <1>1, <1>2, <2>1, <2>2, TwoEditsLead
  <1>4. C.txs = Append(D.txs, z) /\ C.newBalance = Append(D.newBalance, v)
    <2>1. Added(D, C, z, v)
      BY <1>0, <1>1, InsertExecuted
    <2>2. QED
      BY <2>1 DEF Added
  <1>5. PICK T, N, n : T = D.txs /\ N = D.newBalance /\ n = Len(D.txs)
    OBVIOUS
  <1>6. T \in Seq(Row) /\ N \in Seq(Int) /\ n \in Nat /\ Len(T) = n /\ Len(N) = n
    BY <1>5, LenProperties DEF TablesFit, EditPlan
  <1>7. m[1] = n + 1
    <2>1. PICK o, k : o = << >> /\ k = n + 1
      OBVIOUS
    <2>2. m = Append(o, k)
      BY <1>0, <1>1, <1>5, <2>1 DEF MadeAfter
    <2>3. o \in Seq({k}) /\ Len(o) = 0
      BY <2>1, EmptySeq
    <2>4. m[Len(o) + 1] = k
      BY <2>2, <2>3, AppendProperties
    <2>5. PICK i : i = Len(o) + 1
      OBVIOUS
    <2>6. m[i] = k /\ i = 1
      BY <2>3, <2>4, <2>5
    <2>7. QED
      BY <2>1, <2>6
  <1>8. Executes(C, E, t, m)
    BY <1>2, ExecutedDoes
  <1>9. /\ E.txs = [C.txs EXCEPT ![id] = [x EXCEPT !.linked = OwnedBy(m, @),
                                                   !.deleted = C.txs[id].deleted]]
        /\ E.newBalance = [C.newBalance EXCEPT ![id] = t.value]
    BY <1>0, <1>8 DEF Executes
  <1>10. PICK y : y = [e EXCEPT !.linked = n + 1]
    OBVIOUS
  <1>11. y \in Row
    <2>1. PICK k : k = n + 1
      OBVIOUS
    <2>2. k \in Nat
      BY <1>6, <2>1
    <2>3. [e EXCEPT !.linked = k] \in Row
      BY <1>0, <2>2 DEF Row
    <2>4. QED
      BY <1>10, <2>1, <2>3
  <1>12. C.txs[id] = T[id] /\ [C.txs EXCEPT ![id] = y] = Append([T EXCEPT ![id] = y], z)
    <2>1. id \in 1..Len(T)
      BY <1>0, <1>5
    <2>2. SameAppended(T, id, y, z)
      BY <1>0, <1>6, <1>11, <2>1, AppendAndWrite
    <2>3. QED
      BY <1>4, <1>5, <2>2 DEF SameAppended
  <1>13. [x EXCEPT !.linked = OwnedBy(m, @), !.deleted = C.txs[id].deleted] = y
    <2>1. PICK o, d : o = OwnedBy(m, x.linked) /\ d = C.txs[id].deleted
      OBVIOUS
    <2>2. x.linked = Mine /\ d = e.deleted
      BY <1>0, <1>5, <1>12, <2>1 DEF Row
    <2>3. o = n + 1
      BY <1>7, <2>1, <2>2 DEF OwnedBy
    <2>4. [x EXCEPT !.linked = o, !.deleted = d] = y
      BY <1>0, <1>10, <2>2, <2>3 DEF Row
    <2>5. QED
      BY <2>1, <2>4
  <1>14. E.newBalance = Append(N, v)
    <2>1. PICK M : M = Append(N, v)
      OBVIOUS
    <2>2. M \in Seq(Int) /\ Len(M) = n + 1 /\ \A i \in 1..n : M[i] = N[i]
      <3>1. v \in Int /\ N \in Seq(Int) /\ Len(N) = n
        BY <1>0, <1>6
      <3>2. QED
        BY <2>1, <3>1, AppendProperties
    <2>3. id \in 1..n /\ t.value = M[id]
      BY <1>0, <1>5, <2>2
    <2>4. M \in [1..(n + 1) -> Int] /\ id \in 1..(n + 1)
      BY <1>6, <2>2, <2>3, LenProperties
    <2>5. [M EXCEPT ![id] = M[id]] = M
      BY <2>4
    <2>6. QED
      BY <1>4, <1>5, <1>9, <2>1, <2>3, <2>5
  <1>15. E.txs = Append([T EXCEPT ![id] = y], z)
    BY <1>9, <1>12, <1>13
  <1>16. QED
    BY <1>3, <1>5, <1>10, <1>14, <1>15

\* The statements q of a request lead to the tables of module Ledger.
RequestLeads(D, q) == \E F : Requested(D, F) /\ Leads(D, q, << >>, F)

\* An update has led to tables of module Ledger.
LEMMA UpdateRequest ==
    ASSUME NEW D, NEW q, NEW T, NEW N, NEW A, EditLeads(D, q, T, N, A),
           NEW u \in Users, NEW id \in DOMAIN D.txs, NEW in \in Inputs,
           \A F : StoredIn(D, F, T, N, A) => UpdatedIn(D, F, u, id, in)
    PROVE  RequestLeads(D, q)
  <1>1. PICK F : /\ StoredIn(D, F, T, N, A) /\ Leads(D, q, << >>, F)
                 /\ F.acct = D.acct /\ F.initial = D.initial /\ F.now = D.now
    BY DEF EditLeads
  <1>2. UpdatedIn(D, F, u, id, in)
    BY <1>1
  <1>3. Requested(D, F)
    BY <1>1, <1>2 DEF Requested
  <1>4. QED
    BY <1>1, <1>3 DEF RequestLeads

\* What an update relies on, its tables being D and the accounts it replays A.
Updates(D, A, u, id, in) ==
    /\ D = Tables /\ A = Replayed(id, in)
    /\ TablesFit(D) /\ Opened(D, A) /\ id \in 1..Len(D.txs) /\ DOMAIN D.txs = 1..Len(D.txs)
    /\ GuardIn(D, u, id, in)
    /\ WritesRows(D, UpdateStatements(u, id, in), A)
    /\ D.txs[id] \in Row /\ EditedIn(D, id, in) \in Row
    /\ EditedIn(D, id, in).deleted = D.txs[id].deleted
    /\ EditedIn(D, id, in).linked = D.txs[id].linked
    /\ D.txs[id].linked \in 0..Len(D.txs)
    /\ D.txs[id].isTransfer \in BOOLEAN /\ in.isTransfer \in BOOLEAN

\* The target of an update is looked at when the update writes a second leg.
TargetChecked(u, id, in) ==
    LET writesLeg == in.isTransfer /\ (txs[id].isTransfer => HasLinked(txs[id]))
    IN  /\ writesLeg /\ in.target # NoAccount => MayUse(u, in.target)
        /\ writesLeg /\ in.target = NoAccount /\ HasLinked(txs[id]) =>
               MayUse(u, txs[txs[id].linked].account)

\* All of that holds when an update starts.
LEMMA UpdateReads ==
    ASSUME StepsInv, NEW u \in Users, NEW id \in DOMAIN txs, NEW in \in Inputs,
           UpdateGuard(u, id, in), TargetChecked(u, id, in),
           NEW D, D = Tables, NEW A, A = Replayed(id, in)
    PROVE  Updates(D, A, u, id, in)
  <1>1. LET writesLeg == in.isTransfer /\ (txs[id].isTransfer => HasLinked(txs[id]))
        IN  writesLeg /\ in.target # NoAccount => MayUse(u, in.target)
    BY DEF TargetChecked
  <1>2. /\ D.txs = txs /\ D.acct = acct /\ TablesFit(D) /\ id \in 1..Len(txs)
        /\ DOMAIN txs = 1..Len(txs) /\ txs[id] \in Row /\ txs[id].linked \in 0..Len(txs)
    BY TablesNow
  <1>3. A \subseteq Accounts /\ \A a \in A : acct[a].opened
    BY <1>1, UpdateFacts
  <1>4. WritesRows(D, UpdateStatements(u, id, in), A)
    BY <1>1, UpdateWrites
  <1>5. GuardIn(D, u, id, in)
    BY ReadRows
  <1>6. PICK e : e = Edited(id, in)
    OBVIOUS
  <1>7. e \in Row /\ e.deleted = txs[id].deleted /\ e.linked = txs[id].linked
    BY <1>2, <1>6, TablesNow, EditedRow
  <1>8. EditedIn(D, id, in) = e
    BY <1>6, ReadWrites
  <1>9. txs[id].isTransfer \in BOOLEAN /\ in.isTransfer \in BOOLEAN
    BY <1>2, TablesNow, InputFacts DEF Row
  <1>10. QED
    BY <1>2, <1>3, <1>4, <1>5, <1>7, <1>8, <1>9 DEF Updates, Opened

\* What the update statement of a row says.
LEMMA UpdateSays ==
    ASSUME NEW D, D = Tables, NEW id, NEW x, NEW s, s = Update(id, x)
    PROVE  s.op = "update" /\ s.id = id /\ s.row = x /\ s.value = D.newBalance[id]
  BY DEF Update, Tables

\* No link is made, dropped or followed.
LEMMA AloneLeads ==
    ASSUME NEW D, NEW A, NEW u \in Users, NEW id, NEW in \in Inputs, Updates(D, A, u, id, in),
           NEW row, row = D.txs[id],
           \/ ~row.isTransfer /\ ~HasTarget(in)
           \/ row.isTransfer /\ in.isTransfer /\ ~HasLinkedIn(D, row),
           NEW r, ReplaysAll(r, A), NEW q, q = UpdateStatements(u, id, in) \o r
    PROVE  RequestLeads(D, q)
  <1>1. PICK e, s : e = EditedIn(D, id, in) /\ s = Update(id, e)
    OBVIOUS
  <1>2. /\ D = Tables /\ TablesFit(D) /\ Opened(D, A) /\ id \in 1..Len(D.txs)
        /\ DOMAIN D.txs = 1..Len(D.txs) /\ e \in Row /\ e.deleted = D.txs[id].deleted
        /\ e.linked \in 0..Len(D.txs) /\ GuardIn(D, u, id, in)
    BY <1>1 DEF Updates
  <1>3. txs[id] = row /\ (HasLinked(row) <=> HasLinkedIn(D, row)) /\ Edited(id, in) = e
    BY <1>1, <1>2, ReadRows, ReadWrites DEF Tables
  <1>4. row.isTransfer \in BOOLEAN /\ in.isTransfer \in BOOLEAN
    BY DEF Updates
  <1>5. UpdateStatements(u, id, in) = << s >>
    BY <1>1, <1>3, <1>4 DEF UpdateStatements, HasTarget
  <1>6. WritesRows(D, << s >>, A) /\ q = << s >> \o r
    BY <1>5 DEF Updates
  <1>7. s.op = "update" /\ s.id = id /\ s.row = e /\ s.value = D.newBalance[id]
    BY <1>1, <1>2, UpdateSays
  <1>8. RewritesRow(D, s, id, e)
    <2>1. e.linked # Mine
      BY <1>2, TablesFacts DEF Mine
    <2>2. QED
      BY <1>2, <1>7, <2>1 DEF RewritesRow
  <1>9. PICK T, h : T = [D.txs EXCEPT ![id] = e] /\ h = << s >>
    OBVIOUS
  <1>11. EditLeads(D, q, T, D.newBalance, A)
    <2>1. EditPlan(D, A, h, q)
      BY <1>2, <1>6, <1>9 DEF EditPlan
    <2>2. QED
      BY <1>8, <1>9, <2>1, RowLeads
  <1>10. A = TouchedIn(D, id, in)
    <2>1. A = Replayed(id, in) /\ TouchedBy(id, in) = TouchedIn(D, id, in)
      BY <1>2, ReadWrites DEF Updates
    <2>2. ~HasLinked(row)
      BY <1>3 DEF HasLinked
    <2>3. ~(HasTarget(in) /\ (row.isTransfer => HasLinked(row)))
      BY <1>3, <2>2
    <2>4. Replayed(id, in) = TouchedBy(id, in)
      BY <1>3, <2>2, <2>3 DEF Replayed
    <2>5. QED
      BY <2>1, <2>4
  <1>12. ASSUME NEW F, StoredIn(D, F, T, D.newBalance, A) PROVE UpdatedIn(D, F, u, id, in)
    BY <1>1, <1>2, <1>9, <1>10, <1>12 DEF UpdatedIn
  <1>13. QED
    BY <1>2, <1>11, <1>12, UpdateRequest

\* A transfer becomes a regular row.
LEMMA UnlinkLeads ==
    ASSUME NEW D, NEW A, NEW u \in Users, NEW id, NEW in \in Inputs, Updates(D, A, u, id, in),
           NEW row, row = D.txs[id], row.isTransfer, ~in.isTransfer,
           NEW r, ReplaysAll(r, A), NEW q, q = UpdateStatements(u, id, in) \o r
    PROVE  RequestLeads(D, q)
  <1>1. PICK e, x, t, link, h : /\ e = EditedIn(D, id, in) /\ x = [e EXCEPT !.linked = NoTx]
                                /\ t = Update(id, x) /\ link = row.linked
                                /\ h = UpdateStatements(u, id, in)
    OBVIOUS
  <1>2. /\ D = Tables /\ TablesFit(D) /\ Opened(D, A) /\ id \in 1..Len(D.txs)
        /\ DOMAIN D.txs = 1..Len(D.txs) /\ e \in Row /\ e.deleted = D.txs[id].deleted
        /\ link \in 0..Len(D.txs) /\ GuardIn(D, u, id, in) /\ WritesRows(D, h, A)
        /\ A = Replayed(id, in)
    BY <1>1 DEF Updates
  <1>3. /\ txs[id] = row /\ (HasLinked(row) <=> HasLinkedIn(D, row)) /\ Edited(id, in) = e
        /\ TouchedBy(id, in) = TouchedIn(D, id, in) /\ D.txs = txs
    BY <1>1, <1>2, ReadRows, ReadWrites DEF Tables
  <1>4. h = (IF HasLinked(row) THEN << Delete(link, FALSE) >> ELSE << >>) \o << t >>
    BY <1>1, <1>3 DEF UpdateStatements
  <1>5. t.op = "update" /\ t.id = id /\ t.row = x /\ t.value = D.newBalance[id]
    BY <1>1, <1>2, UpdateSays
  <1>6. RewritesRow(D, t, id, x)
    <2>1. x \in Row /\ x.linked # Mine /\ x.deleted = D.txs[id].deleted
      BY <1>1, <1>2 DEF Row, NoTx, Mine
    <2>2. QED
      BY <1>2, <1>5, <2>1 DEF RewritesRow
  <1>7. EditPlan(D, A, h, q)
    BY <1>1, <1>2 DEF EditPlan
  <1>8. ~HasTarget(in)
    BY DEF HasTarget
  <1>9. CASE HasLinked(row)
    <2>1. PICK s, T : /\ s = Delete(link, FALSE)
                      /\ T = [[D.txs EXCEPT ![id] = x] EXCEPT ![link].deleted = TRUE]
      OBVIOUS
    <2>2. Pair(h, s, t)
      <3>1. h = << s >> \o << t >>
        BY <1>4, <1>9, <2>1
      <3>2. QED
        BY <3>1, PairJoined
    <2>3. link \in 1..Len(D.txs)
      BY <1>1, <1>2, <1>9, TablesFacts DEF HasLinked, NoTx
    <2>4. s.op = "delete" /\ s.id = link
      BY <2>1 DEF Delete
    <2>5. EditLeads(D, q, T, D.newBalance, A)
      BY <1>6, <1>7, <2>1, <2>2, <2>3, <2>4, CutLeads
    <2>6. A = TouchedIn(D, id, in) \cup {D.txs[link].account}
      BY <1>1, <1>2, <1>3, <1>8, <1>9 DEF Replayed
    <2>7. ASSUME NEW F, StoredIn(D, F, T, D.newBalance, A) PROVE UpdatedIn(D, F, u, id, in)
      BY <1>1, <1>2, <1>3, <1>9, <2>1, <2>6, <2>7 DEF UpdatedIn
    <2>8. QED
      BY <1>2, <2>5, <2>7, UpdateRequest
  <1>10. CASE ~HasLinked(row)
    <2>1. PICK T : T = [D.txs EXCEPT ![id] = x]
      OBVIOUS
    <2>2. h = << t >>
      BY <1>4, <1>10
    <2>3. EditLeads(D, q, T, D.newBalance, A)
      BY <1>6, <1>7, <2>1, <2>2, RowLeads
    <2>4. A = TouchedIn(D, id, in)
      BY <1>2, <1>3, <1>8, <1>10 DEF Replayed
    <2>5. ASSUME NEW F, StoredIn(D, F, T, D.newBalance, A) PROVE UpdatedIn(D, F, u, id, in)
      BY <1>1, <1>2, <1>3, <1>10, <2>1, <2>4, <2>5 DEF UpdatedIn
    <2>6. QED
      BY <1>2, <2>3, <2>5, UpdateRequest
  <1>11. QED
    BY <1>9, <1>10

\* A transfer is edited; the other leg becomes its mirror.
LEMMA TransferLeads ==
    ASSUME StepsInv,
           NEW D, NEW A, NEW u \in Users, NEW id, NEW in \in Inputs, Updates(D, A, u, id, in),
           TargetChecked(u, id, in),
           NEW row, row = D.txs[id], row.isTransfer, in.isTransfer, HasLinkedIn(D, row),
           NEW r, ReplaysAll(r, A), NEW q, q = UpdateStatements(u, id, in) \o r
    PROVE  RequestLeads(D, q)
  <1>1. PICK e, t, link, target, y, s, h :
          /\ e = EditedIn(D, id, in) /\ t = Update(id, e) /\ link = row.linked
          /\ target = IF in.target # NoAccount THEN in.target ELSE D.txs[link].account
          /\ y = [D.txs[link] EXCEPT !.account = target, !.amount = TargetAmountOf(in),
                                     !.date = DateIn(D, in), !.isIncome = TRUE,
                                     !.isTransfer = TRUE]
          /\ s = Update(link, y) /\ h = UpdateStatements(u, id, in)
    OBVIOUS
  <1>2. /\ D = Tables /\ TablesFit(D) /\ Opened(D, A) /\ id \in 1..Len(D.txs)
        /\ DOMAIN D.txs = 1..Len(D.txs) /\ e \in Row /\ e.deleted = D.txs[id].deleted
        /\ e.linked = link
        /\ link \in 0..Len(D.txs) /\ GuardIn(D, u, id, in) /\ WritesRows(D, h, A)
        /\ A = Replayed(id, in)
    BY <1>1 DEF Updates
  <1>3. /\ txs[id] = row /\ HasLinked(row) /\ Edited(id, in) = e
        /\ TouchedBy(id, in) = TouchedIn(D, id, in) /\ D.txs = txs /\ DateIn(D, in) = DateOf(in)
    BY <1>1, <1>2, ReadRows, ReadWrites DEF Tables
  <1>4. h = << s, t >>
    BY <1>1, <1>3 DEF UpdateStatements
  <1>5. /\ t.op = "update" /\ t.id = id /\ t.row = e /\ t.value = D.newBalance[id]
        /\ s.op = "update" /\ s.id = link /\ s.row = y /\ s.value = D.newBalance[link]
    <2>1. D = Tables /\ t = Update(id, e) /\ s = Update(link, y)
      BY <1>1, <1>2
    <2>2. t.op = "update" /\ t.id = id /\ t.row = e /\ t.value = D.newBalance[id]
      BY <2>1, UpdateSays
    <2>3. s.op = "update" /\ s.id = link /\ s.row = y /\ s.value = D.newBalance[link]
      BY <2>1, UpdateSays
    <2>4. QED
      BY <2>2, <2>3
  <1>6. link \in 1..Len(D.txs) /\ link # Mine
    BY <1>1, <1>2, <1>3, TablesFacts DEF HasLinked, NoTx, Mine
  <1>7. /\ TargetAmountOf(in) \in Int /\ DateIn(D, in) \in Int /\ in.target \in Accounts \cup {NoAccount}
        /\ D.txs[link] \in Row /\ D.txs[link].account \in Accounts
        /\ D.txs[link].linked \in 0..Len(D.txs)
    BY <1>3, <1>6, TablesNow, InputFacts
  <1>8. RewritesRow(D, t, id, e)
    BY <1>2, <1>5, <1>6 DEF RewritesRow
  <1>9. RewritesRow(D, s, link, y)
    <2>1. target \in Accounts
      BY <1>1, <1>7
    <2>2. y \in Row /\ y.deleted = D.txs[link].deleted /\ y.linked = D.txs[link].linked
      BY <1>1, <1>7, <2>1 DEF Row
    <2>3. y.linked # Mine
      BY <1>7, <2>2, <1>2, TablesFacts DEF Mine
    <2>4. QED
      BY <1>5, <1>6, <2>2, <2>3 DEF RewritesRow
  <1>10. PICK T : T = [D.txs EXCEPT ![link] = y, ![id] = e]
    OBVIOUS
  <1>11. EditLeads(D, q, T, D.newBalance, A)
    <2>1. EditPlan(D, A, h, q)
      BY <1>1, <1>2 DEF EditPlan
    <2>2. Pair(h, s, t)
      BY <1>4, PairOf
    <2>3. QED
      BY <1>8, <1>9, <1>10, <2>1, <2>2, LegsLead
  <1>12. A = TouchedIn(D, id, in) \cup {target, D.txs[link].account}
    <2>1. /\ A = Replayed(id, in) /\ txs[id] = row /\ HasLinked(row) /\ row.linked = link
          /\ TouchedBy(id, in) = TouchedIn(D, id, in) /\ D.txs = txs
      BY <1>1, <1>2, <1>3
    <2>2. A = TouchedIn(D, id, in) \cup {D.txs[link].account}
                  \cup IF HasTarget(in) THEN {in.target} ELSE {}
      BY <2>1 DEF Replayed
    <2>3. CASE in.target # NoAccount
      <3>1. HasTarget(in) /\ target = in.target
        BY <1>1, <2>3 DEF HasTarget
      <3>2. QED
        BY <2>2, <3>1
    <2>4. CASE in.target = NoAccount
      <3>1. ~HasTarget(in) /\ target = D.txs[link].account
        BY <1>1, <2>4 DEF HasTarget
      <3>2. QED
        BY <2>2, <3>1
    <2>5. QED
      BY <2>3, <2>4
  <1>13. MayUseIn(D, u, target)
    <2>1. MayUse(u, target)
      BY <1>1, <1>3 DEF TargetChecked
    <2>2. QED
      BY <1>2, <2>1, ReadRows
  <1>14. ASSUME NEW F, StoredIn(D, F, T, D.newBalance, A) PROVE UpdatedIn(D, F, u, id, in)
    BY <1>1, <1>2, <1>10, <1>12, <1>13, <1>14 DEF UpdatedIn
  <1>15. QED
    BY <1>2, <1>11, <1>14, UpdateRequest

\* A regular row becomes a transfer and gets a second leg.
LEMMA LinkLeads ==
    ASSUME StepsInv,
           NEW D, NEW A, NEW u \in Users, NEW id, NEW in \in Inputs, Updates(D, A, u, id, in),
           TargetChecked(u, id, in),
           NEW row, row = D.txs[id], ~row.isTransfer, HasTarget(in),
           NEW r, ReplaysAll(r, A), NEW q, q = UpdateStatements(u, id, in) \o r
    PROVE  RequestLeads(D, q)
  <1>1. PICK e, x, t, z, v, s, h :
          /\ e = EditedIn(D, id, in) /\ x = [e EXCEPT !.linked = Mine] /\ t = Update(id, x)
          /\ z = LinkedRowIn(D, u, in, id) /\ v = TargetBalanceIn(D, in)
          /\ s = Insert(z, v) /\ h = UpdateStatements(u, id, in)
    OBVIOUS
  <1>2. /\ D = Tables /\ TablesFit(D) /\ Opened(D, A) /\ id \in 1..Len(D.txs)
        /\ DOMAIN D.txs = 1..Len(D.txs) /\ e \in Row /\ e.deleted = D.txs[id].deleted
        /\ GuardIn(D, u, id, in) /\ WritesRows(D, h, A) /\ A = Replayed(id, in)
    BY <1>1 DEF Updates
  <1>3. /\ txs[id] = row /\ Edited(id, in) = e
        /\ TouchedBy(id, in) = TouchedIn(D, id, in) /\ D.txs = txs /\ D.balance = balance
        /\ DateIn(D, in) = DateOf(in)
        /\ LinkedRow(u, in, id) = z /\ TargetBalance(in) = v
    BY <1>1, <1>2, ReadRows, ReadWrites DEF Tables
  <1>4. h = << s, t >>
    BY <1>1, <1>3 DEF UpdateStatements
  <1>5. /\ t.op = "update" /\ t.id = id /\ t.row = x /\ t.value = D.newBalance[id]
        /\ s.op = "insert" /\ s.row = z /\ s.value = v
    BY <1>1, <1>2, UpdateSays DEF Insert
  <1>6. MayUseIn(D, u, in.target)
    <2>1. MayUse(u, in.target)
      BY <1>3 DEF TargetChecked, HasTarget
    <2>2. QED
      BY <1>2, <2>1, ReadRows
  <1>7. /\ TargetAmountOf(in) \in Int /\ DateIn(D, in) \in Int /\ in.target \in Accounts
        /\ balance[in.target] \in Int
    BY <1>3, <1>6, TablesNow, InputFacts DEF MayUseIn
  <1>8. z \in Row /\ z.linked # Mine /\ v \in Int
    <2>1. id \in Nat /\ id # Mine
      BY <1>2, TablesFacts DEF Mine
    <2>2. z \in Row /\ z.linked = id
      BY <1>1, <1>7, <2>1 DEF LinkedRowIn, Row
    <2>3. QED
      BY <1>1, <1>3, <1>7, <2>1, <2>2 DEF TargetBalanceIn
  <1>9. PICK T : T = Append([D.txs EXCEPT ![id] = [e EXCEPT !.linked = Len(D.txs) + 1]], z)
    OBVIOUS
  <1>10. EditLeads(D, q, T, Append(D.newBalance, v), A)
    <2>1. EditPlan(D, A, h, q)
      BY <1>1, <1>2 DEF EditPlan
    <2>2. Pair(h, s, t)
      BY <1>4, PairOf
    <2>3. /\ z \in Row /\ z.linked # Mine /\ v \in Int
          /\ s.op = "insert" /\ s.row = z /\ s.value = v
          /\ id \in 1..Len(D.txs) /\ e \in Row /\ e.deleted = D.txs[id].deleted
          /\ x = [e EXCEPT !.linked = Mine]
          /\ t.op = "update" /\ t.id = id /\ t.row = x /\ t.value = D.newBalance[id]
      BY <1>1, <1>2, <1>5, <1>8
    <2>4. AddsRow(s, z, v) /\ LinksRow(D, t, id, e)
      BY <2>3 DEF AddsRow, LinksRow
    <2>5. QED
      BY <1>9, <2>1, <2>2, <2>4, LegLeads
  <1>11. A = TouchedIn(D, id, in) \cup {in.target}
    BY <1>2, <1>3 DEF Replayed, HasLinked
  <1>12. PICK N : N = Append(D.newBalance, v)
    OBVIOUS
  <1>13. ASSUME NEW F, StoredIn(D, F, T, N, A) PROVE UpdatedIn(D, F, u, id, in)
    BY <1>1, <1>2, <1>6, <1>9, <1>11, <1>12, <1>13 DEF UpdatedIn
  <1>14. QED
    BY <1>2, <1>10, <1>12, <1>13, UpdateRequest

\* What an update writes and replays leads to the tables of module Ledger.
LEMMA UpdateLeads ==
    ASSUME StepsInv, NEW u \in Users, NEW id \in DOMAIN txs, NEW in \in Inputs,
           UpdateGuard(u, id, in), TargetChecked(u, id, in),
           NEW D, D = Tables, NEW r, ReplaysAll(r, Replayed(id, in)),
           NEW q, q = UpdateStatements(u, id, in) \o r
    PROVE  RequestLeads(D, q)
  <1>1. PICK A, row : A = Replayed(id, in) /\ row = D.txs[id]
    OBVIOUS
  <1>2. Updates(D, A, u, id, in) /\ ReplaysAll(r, A)
    BY <1>1, UpdateReads
  <1>3. row.isTransfer \in BOOLEAN /\ in.isTransfer \in BOOLEAN
    BY <1>1, <1>2 DEF Updates
  <1>4. CASE row.isTransfer /\ ~in.isTransfer
    BY <1>1, <1>2, <1>4, UnlinkLeads
  <1>5. CASE row.isTransfer /\ in.isTransfer /\ HasLinkedIn(D, row)
    BY <1>1, <1>2, <1>5, TransferLeads
  <1>6. CASE ~row.isTransfer /\ HasTarget(in)
    BY <1>1, <1>2, <1>6, LinkLeads
  <1>7. CASE \/ ~row.isTransfer /\ ~HasTarget(in)
             \/ row.isTransfer /\ in.isTransfer /\ ~HasLinkedIn(D, row)
    BY <1>1, <1>2, <1>7, AloneLeads
  <1>8. QED
    BY <1>3, <1>4, <1>5, <1>6, <1>7

-----------------------------------------------------------------------------
(* A deletion leads to the tables of module Ledger.                         *)

\* The rows T with those of a set marked as deleted.
RowsWithout(T, gone) ==
    [i \in DOMAIN T |-> IF i \in gone THEN [T[i] EXCEPT !.deleted = TRUE] ELSE T[i]]

\* Rows marked one by one are marked together.
LEMMA OneWithout ==
    ASSUME NEW T \in Seq(Row), NEW id \in 1..Len(T),
           NEW U, U = [T EXCEPT ![id].deleted = TRUE]
    PROVE  U = RowsWithout(T, {id})
  <1>1. PICK n : n = Len(T)
    OBVIOUS
  <1>2. T \in [1..n -> Row] /\ DOMAIN T = 1..n
    BY <1>1, LenProperties
  <1>3. U = [i \in 1..n |-> IF i = id THEN [T[i] EXCEPT !.deleted = TRUE] ELSE T[i]]
    BY <1>1, <1>2
  <1>4. QED
    BY <1>2, <1>3 DEF RowsWithout

LEMMA TwoWithout ==
    ASSUME NEW T \in Seq(Row), NEW id \in 1..Len(T), NEW link \in 1..Len(T),
           NEW U, U = [T EXCEPT ![id].deleted = TRUE],
           NEW V, V = [U EXCEPT ![link].deleted = TRUE]
    PROVE  V = RowsWithout(T, {id, link})
  <1>1. PICK n : n = Len(T)
    OBVIOUS
  <1>2. T \in [1..n -> Row] /\ DOMAIN T = 1..n
    BY <1>1, LenProperties
  <1>3. U = [i \in 1..n |-> IF i = id THEN [T[i] EXCEPT !.deleted = TRUE] ELSE T[i]]
    BY <1>1, <1>2
  <1>4. V = [i \in 1..n |-> IF i = link THEN [U[i] EXCEPT !.deleted = TRUE] ELSE U[i]]
    BY <1>1, <1>3
  <1>5. PICK W : W = RowsWithout(T, {id, link})
    OBVIOUS
  <1>6. W = [i \in 1..n |-> IF i \in {id, link} THEN [T[i] EXCEPT !.deleted = TRUE] ELSE T[i]]
    BY <1>2, <1>5 DEF RowsWithout
  <1>7. ASSUME NEW i \in 1..n PROVE V[i] = W[i]
    <2>1. CASE i = link /\ i = id
      <3>1. V[i] = [U[i] EXCEPT !.deleted = TRUE] /\ U[i] = [T[i] EXCEPT !.deleted = TRUE]
            /\ W[i] = [T[i] EXCEPT !.deleted = TRUE] /\ T[i] \in Row
        BY <1>2, <1>3, <1>4, <1>6, <2>1
      <3>2. PICK t : t = T[i]
        OBVIOUS
      <3>3. t \in Row
        BY <3>1, <3>2
      <3>4. [[t EXCEPT !.deleted = TRUE] EXCEPT !.deleted = TRUE] = [t EXCEPT !.deleted = TRUE]
        BY <3>3 DEF Row
      <3>5. QED
        BY <3>1, <3>2, <3>4
    <2>2. CASE i = link /\ i # id
      BY <1>3, <1>4, <1>6, <2>2
    <2>3. CASE i # link
      BY <1>3, <1>4, <1>6, <2>3
    <2>4. QED
      BY <2>1, <2>2, <2>3
  <1>8. V = [i \in 1..n |-> V[i]] /\ W = [i \in 1..n |-> W[i]]
    BY <1>4, <1>6
  <1>9. V = W
    BY <1>7, <1>8
  <1>10. QED
    BY <1>5, <1>9

\* A deletion has led to tables of module Ledger.
LEMMA DeleteRequest ==
    ASSUME NEW D, NEW q, NEW T, NEW A, EditLeads(D, q, T, D.newBalance, A),
           NEW u \in Users, NEW id \in DOMAIN D.txs,
           \A F : StoredIn(D, F, T, D.newBalance, A) => DeletedIn(D, F, u, id)
    PROVE  RequestLeads(D, q)
  <1>1. PICK F : /\ StoredIn(D, F, T, D.newBalance, A) /\ Leads(D, q, << >>, F)
                 /\ F.acct = D.acct /\ F.initial = D.initial /\ F.now = D.now
    BY DEF EditLeads
  <1>2. DeletedIn(D, F, u, id)
    BY <1>1
  <1>3. Requested(D, F)
    BY <1>1, <1>2 DEF Requested
  <1>4. QED
    BY <1>1, <1>3 DEF RequestLeads

\* What a deletion writes and replays leads to the tables of module Ledger.
LEMMA DeleteLeads ==
    ASSUME StepsInv, NEW u \in Users, NEW id \in DOMAIN txs, MayEdit(u, id),
           NEW A, A = {txs[id].account} \cup IF HasLinked(txs[id]) THEN {txs[txs[id].linked].account}
                                             ELSE {},
           NEW D, D = Tables, NEW r, ReplaysAll(r, A), NEW q, q = DeleteStatements(id) \o r
    PROVE  RequestLeads(D, q)
  <1>1. PICK row, link, h, s, T, n :
          /\ row = txs[id] /\ link = row.linked /\ h = DeleteStatements(id) /\ s = Delete(id, TRUE)
          /\ T = D.txs /\ n = Len(D.txs)
    OBVIOUS
  <1>2. /\ id \in 1..n /\ D.txs = txs /\ D.acct = acct /\ TablesFit(D) /\ T \in Seq(Row)
        /\ DOMAIN T = 1..n /\ link \in 0..n /\ n \in Nat
        /\ (link # NoTx => link \in 1..n)
    BY <1>1, TablesNow, DeleteFacts DEF TablesFit
  <1>3. MayEditIn(D, u, id) /\ (HasLinked(row) <=> HasLinkedIn(D, row))
    BY ReadRows
  <1>4. EditPlan(D, A, h, q)
    <2>1. A \subseteq Accounts /\ \A a \in A : acct[a].opened
      BY DeleteFacts
    <2>2. WritesRows(D, h, A)
      BY <1>1, DeletionWrites
    <2>3. QED
      BY <1>1, <1>2, <2>1, <2>2 DEF EditPlan, Opened
  <1>5. PICK C, m : C = Executed(D, s, << >>) /\ m = MadeAfter(D, s, << >>)
    OBVIOUS
  <1>6. C.txs = [T EXCEPT ![id].deleted = TRUE] /\ C.newBalance = D.newBalance
    <2>1. PICK made : made = << >>
      OBVIOUS
    <2>2. s.op = "delete" /\ s.id = id /\ C = Executed(D, s, made)
      BY <1>1, <1>5, <2>1 DEF Delete
    <2>3. Marked(D, C, id)
      BY <2>2, DeleteExecuted
    <2>4. QED
      BY <1>1, <2>3 DEF Marked
  <1>7. PICK r1 : ReplaysAll(r1, A) /\ q = h \o r1
    BY <1>4 DEF EditPlan
  <1>8. TablesFit(D) /\ Opened(D, A) /\ WritesRows(D, h, A)
    BY <1>4 DEF EditPlan
  <1>9. CASE row.isTransfer /\ link # NoTx
    <2>1. PICK t, E, X : t = Delete(link, FALSE) /\ E = Executed(C, t, m) /\ X = RowsWithout(T, {id, link})
      OBVIOUS
    <2>2. Pair(h, s, t)
      <3>1. h = << s >> \o << t >>
        BY <1>1, <1>9, <2>1 DEF DeleteStatements
      <3>2. QED
        BY <3>1, PairJoined
    <2>3. EditLeads(D, q, E.txs, E.newBalance, A)
      BY <1>5, <1>7, <1>8, <2>1, <2>2, TwoEditsLead
    <2>4. E.txs = [C.txs EXCEPT ![link].deleted = TRUE] /\ E.newBalance = D.newBalance
      <3>1. t.op = "delete" /\ t.id = link
        BY <2>1 DEF Delete
      <3>2. Marked(C, E, link)
        BY <2>1, <3>1, DeleteExecuted
      <3>3. QED
        BY <1>6, <3>2 DEF Marked
    <2>5. E.txs = X
      <3>1. PICK U, V : U = C.txs /\ V = E.txs
        OBVIOUS
      <3>2. U = [T EXCEPT ![id].deleted = TRUE] /\ V = [U EXCEPT ![link].deleted = TRUE]
            /\ id \in 1..Len(T) /\ link \in 1..Len(T)
        BY <1>1, <1>2, <1>6, <1>9, <2>4, <3>1
      <3>3. V = RowsWithout(T, {id, link})
        BY <1>2, <3>2, TwoWithout
      <3>4. QED
        BY <2>1, <3>1, <3>3
    <2>6. {id, link} = {id} \cup {i \in DOMAIN T : row.isTransfer /\ row.linked = i}
      BY <1>1, <1>2, <1>9
    <2>7. ASSUME NEW F, StoredIn(D, F, X, D.newBalance, A) PROVE DeletedIn(D, F, u, id)
      BY <1>1, <1>2, <1>3, <2>1, <2>6, <2>7 DEF DeletedIn, RowsWithout
    <2>8. QED
      BY <1>1, <1>2, <2>3, <2>4, <2>5, <2>7, DeleteRequest
  <1>10. CASE ~(row.isTransfer /\ link # NoTx)
    <2>1. PICK X : X = RowsWithout(T, {id})
      OBVIOUS
    <2>2. h = << s >>
      <3>1. h = << s >> \o << >>
        BY <1>1, <1>10 DEF DeleteStatements
      <3>2. << s >> \in Seq({s})
        OBVIOUS
      <3>3. QED
        BY <3>1, <3>2, ConcatEmptySeq
    <2>3. EditLeads(D, q, C.txs, C.newBalance, A)
      BY <1>5, <1>7, <1>8, <2>2, OneEditLeads
    <2>4. C.txs = X
      <3>1. PICK U : U = C.txs
        OBVIOUS
      <3>2. U = [T EXCEPT ![id].deleted = TRUE] /\ id \in 1..Len(T)
        BY <1>1, <1>2, <1>6, <3>1
      <3>3. QED
        BY <1>2, <2>1, <3>1, <3>2, OneWithout
    <2>5. {id} = {id} \cup {i \in DOMAIN T : row.isTransfer /\ row.linked = i}
      BY <1>1, <1>2, <1>10 DEF NoTx
    <2>6. ASSUME NEW F, StoredIn(D, F, X, D.newBalance, A) PROVE DeletedIn(D, F, u, id)
      BY <1>1, <1>2, <1>3, <2>1, <2>5, <2>6 DEF DeletedIn, RowsWithout
    <2>7. QED
      BY <1>1, <1>2, <1>6, <2>3, <2>4, <2>6, DeleteRequest
  <1>11. QED
    BY <1>9, <1>10

-----------------------------------------------------------------------------
(* A creation and an adjustment lead to the tables of module Ledger.        *)

\* Sequences of one to five elements (of two: Pair).
Lists1(q, a) == IsSequence(q) /\ Len(q) = 1 /\ q[1] = a
Lists3(q, a, b, c) == IsSequence(q) /\ Len(q) = 3 /\ q[1] = a /\ q[2] = b /\ q[3] = c
Lists4(q, a, b, c, d) ==
    IsSequence(q) /\ Len(q) = 4 /\ q[1] = a /\ q[2] = b /\ q[3] = c /\ q[4] = d
Lists5(q, a, b, c, d, e) ==
    IsSequence(q) /\ Len(q) = 5 /\ q[1] = a /\ q[2] = b /\ q[3] = c /\ q[4] = d /\ q[5] = e

\* p is q without its first element.
Shifted(q, p) ==
    /\ IsSequence(p) /\ Len(p) = Len(q) - 1
    /\ Len(p) >= 1 => p[1] = q[2]
    /\ Len(p) >= 2 => p[2] = q[3]
    /\ Len(p) >= 3 => p[3] = q[4]
    /\ Len(p) >= 4 => p[4] = q[5]

\* What is left without the first element, and then without the next.
LEMMA TailsOf ==
    ASSUME NEW q, IsSequence(q), q # << >>
    PROVE  Shifted(q, Tail(q))
  <1>1. PICK p : p = Tail(q)
    OBVIOUS
  <1>2. IsSequence(p) /\ Len(p) = Len(q) - 1 /\ Len(q) \in Nat
    BY <1>1, TailOf, SequenceIs
  <1>3. \A i \in 1..Len(p) : p[i] = q[i + 1]
    BY <1>1, TailOf
  <1>4. ASSUME NEW i \in Nat, NEW k \in Nat, 1 <= i, k = i + 1, k <= Len(q) PROVE p[i] = q[k]
    BY <1>2, <1>3, <1>4
  <1>5. Shifted(q, p)
    BY <1>2, <1>4 DEF Shifted
  <1>6. QED
    BY <1>1, <1>5

LEMMA OneOf ==
    ASSUME NEW q, NEW a, Lists1(q, a)
    PROVE  q # << >> /\ q[1] = a /\ Tail(q) = << >>
  <1>1. IsSequence(q) /\ Len(q) = 1 /\ q[1] = a
    BY DEF Lists1
  <1>2. q # << >>
    BY <1>1, SequenceIs
  <1>3. IsSequence(Tail(q)) /\ Len(Tail(q)) = 0
    BY <1>1, <1>2, TailsOf DEF Shifted
  <1>4. QED
    BY <1>1, <1>2, <1>3, SequenceIs

LEMMA TwoOf ==
    ASSUME NEW q, NEW a, NEW b, Pair(q, a, b)
    PROVE  q # << >> /\ q[1] = a /\ Lists1(Tail(q), b)
  <1>1. IsSequence(q) /\ Len(q) = 2 /\ q[1] = a /\ q[2] = b
    BY DEF Pair
  <1>2. q # << >>
    BY <1>1, SequenceIs
  <1>3. PICK p : p = Tail(q)
    OBVIOUS
  <1>4. Shifted(q, p)
    BY <1>1, <1>2, <1>3, TailsOf
  <1>6. QED
    BY <1>1, <1>2, <1>3, <1>4 DEF Shifted, Lists1

LEMMA ThreeOf ==
    ASSUME NEW q, NEW a, NEW b, NEW c, Lists3(q, a, b, c)
    PROVE  q # << >> /\ q[1] = a /\ Pair(Tail(q), b, c)
  <1>1. IsSequence(q) /\ Len(q) = 3 /\ q[1] = a /\ q[2] = b /\ q[3] = c
    BY DEF Lists3
  <1>2. q # << >>
    BY <1>1, SequenceIs
  <1>3. PICK p : p = Tail(q)
    OBVIOUS
  <1>4. Shifted(q, p)
    BY <1>1, <1>2, <1>3, TailsOf
  <1>5. IsSequence(p) /\ Len(p) = 2
    BY <1>1, <1>4 DEF Shifted
  <1>6. p[1] = q[2]
    BY <1>4, <1>5 DEF Shifted
  <1>7. p[2] = q[3]
    BY <1>4, <1>5 DEF Shifted
  <1>8. QED
    BY <1>1, <1>2, <1>3, <1>5, <1>6, <1>7 DEF Pair

LEMMA FourOf ==
    ASSUME NEW q, NEW a, NEW b, NEW c, NEW d, Lists4(q, a, b, c, d)
    PROVE  q # << >> /\ q[1] = a /\ Lists3(Tail(q), b, c, d)
  <1>1. IsSequence(q) /\ Len(q) = 4 /\ q[1] = a /\ q[2] = b /\ q[3] = c /\ q[4] = d
    BY DEF Lists4
  <1>2. q # << >>
    BY <1>1, SequenceIs
  <1>3. PICK p : p = Tail(q)
    OBVIOUS
  <1>4. Shifted(q, p)
    BY <1>1, <1>2, <1>3, TailsOf
  <1>5. IsSequence(p) /\ Len(p) = 3
    BY <1>1, <1>4 DEF Shifted
  <1>6. p[1] = q[2]
    BY <1>4, <1>5 DEF Shifted
  <1>7. p[2] = q[3]
    BY <1>4, <1>5 DEF Shifted
  <1>8. p[3] = q[4]
    <2>1. Len(p) >= 3 => p[3] = q[4]
      BY <1>4 DEF Shifted
    <2>2. Len(p) >= 3
      BY <1>5
    <2>3. QED
      BY <2>1, <2>2
  <1>9. QED
    BY <1>1, <1>2, <1>3, <1>5, <1>6, <1>7, <1>8 DEF Lists3

LEMMA FiveOf ==
    ASSUME NEW q, NEW a, NEW b, NEW c, NEW d, NEW e, Lists5(q, a, b, c, d, e)
    PROVE  q # << >> /\ q[1] = a /\ Lists4(Tail(q), b, c, d, e)
  <1>1. IsSequence(q) /\ Len(q) = 5 /\ q[1] = a /\ q[2] = b /\ q[3] = c /\ q[4] = d /\ q[5] = e
    BY DEF Lists5
  <1>2. q # << >>
    BY <1>1, SequenceIs
  <1>3. PICK p : p = Tail(q)
    OBVIOUS
  <1>4. Shifted(q, p)
    BY <1>1, <1>2, <1>3, TailsOf
  <1>5. IsSequence(p) /\ Len(p) = 4
    BY <1>1, <1>4 DEF Shifted
  <1>6. p[1] = q[2]
    BY <1>4, <1>5 DEF Shifted
  <1>7. p[2] = q[3]
    <2>1. Len(p) >= 2 => p[2] = q[3]
      BY <1>4 DEF Shifted
    <2>2. Len(p) >= 2
      BY <1>5
    <2>3. QED
      BY <2>1, <2>2
  <1>8. p[3] = q[4]
    <2>1. Len(p) >= 3 => p[3] = q[4]
      BY <1>4 DEF Shifted
    <2>2. Len(p) >= 3
      BY <1>5
    <2>3. QED
      BY <2>1, <2>2
  <1>9. p[4] = q[5]
    <2>1. Len(p) >= 4 => p[4] = q[5]
      BY <1>4 DEF Shifted
    <2>2. Len(p) >= 4
      BY <1>5
    <2>3. QED
      BY <2>1, <2>2
  <1>10. QED
    BY <1>1, <1>2, <1>3, <1>5, <1>6, <1>7, <1>8, <1>9 DEF Lists4

\* The statements of a creation, one after the other.
Done2(D, a, b, F) ==
    LET C == Executed(D, a, << >>)
    IN  F = Executed(C, b, MadeAfter(D, a, << >>))

\* Two statements lead to the tables after them.
LEMMA TwoStatements ==
    ASSUME NEW D, NEW q, NEW a, NEW b, Pair(q, a, b), a.op # "replay", b.op # "replay",
           NEW F, Done2(D, a, b, F)
    PROVE  Leads(D, q, << >>, F)
  <1>1. PICK made, C, m, p :
          made = << >> /\ C = Executed(D, a, made) /\ m = MadeAfter(D, a, made) /\ p = Tail(q)
    OBVIOUS
  <1>2. F = Executed(C, b, m)
    BY <1>1 DEF Done2
  <1>3. q # << >> /\ q[1] = a /\ Lists1(p, b)
    BY <1>1, TwoOf
  <1>4. p # << >> /\ p[1] = b /\ Tail(p) = << >>
    BY <1>3, OneOf
  <1>5. Ends1(C, p, m, F)
    BY <1>2, <1>4 DEF Ends1, Ends, WriteFirst
  <1>6. Ends2(D, q, made, F)
    BY <1>1, <1>3, <1>5 DEF Ends2, WriteFirst
  <1>7. QED
    BY <1>1, <1>6 DEF Leads

\* Five of them.
Done5(D, a, b, c, d, e, F) ==
    LET m1 == MadeAfter(D, a, << >>)
        D1 == Executed(D, a, << >>)
        m2 == MadeAfter(D1, b, m1)
        D2 == Executed(D1, b, m1)
        m3 == MadeAfter(D2, c, m2)
        D3 == Executed(D2, c, m2)
        m4 == MadeAfter(D3, d, m3)
        D4 == Executed(D3, d, m3)
    IN  F = Executed(D4, e, m4)

\* Five statements lead to the tables after them.
LEMMA FiveStatements ==
    ASSUME NEW D, NEW q, NEW a, NEW b, NEW c, NEW d, NEW e, Lists5(q, a, b, c, d, e),
           a.op # "replay", b.op # "replay", c.op # "replay", d.op # "replay", e.op # "replay",
           NEW F, Done5(D, a, b, c, d, e, F)
    PROVE  Leads(D, q, << >>, F)
  <1>1. PICK made, D1, m1, D2, m2, D3, m3, D4, m4 :
          /\ made = << >> /\ D1 = Executed(D, a, made) /\ m1 = MadeAfter(D, a, made)
          /\ D2 = Executed(D1, b, m1) /\ m2 = MadeAfter(D1, b, m1)
          /\ D3 = Executed(D2, c, m2) /\ m3 = MadeAfter(D2, c, m2)
          /\ D4 = Executed(D3, d, m3) /\ m4 = MadeAfter(D3, d, m3)
    OBVIOUS
  <1>2. F = Executed(D4, e, m4)
    BY <1>1 DEF Done5
  <1>3. PICK q1, q2, q3, q4 : q1 = Tail(q) /\ q2 = Tail(q1) /\ q3 = Tail(q2) /\ q4 = Tail(q3)
    OBVIOUS
  <1>4. q # << >> /\ q[1] = a /\ Lists4(q1, b, c, d, e)
    BY <1>3, FiveOf
  <1>5. q1 # << >> /\ q1[1] = b /\ Lists3(q2, c, d, e)
    BY <1>3, <1>4, FourOf
  <1>6. q2 # << >> /\ q2[1] = c /\ Pair(q3, d, e)
    BY <1>3, <1>5, ThreeOf
  <1>7. q3 # << >> /\ q3[1] = d /\ Lists1(q4, e)
    BY <1>3, <1>6, TwoOf
  <1>8. q4 # << >> /\ q4[1] = e /\ Tail(q4) = << >>
    BY <1>7, OneOf
  <1>9. Ends1(D4, q4, m4, F)
    BY <1>2, <1>8 DEF Ends1, Ends, WriteFirst
  <1>10. Ends2(D3, q3, m3, F)
    BY <1>1, <1>3, <1>7, <1>9 DEF Ends2, WriteFirst
  <1>11. Ends3(D2, q2, m2, F)
    BY <1>1, <1>3, <1>6, <1>10 DEF Ends3, WriteFirst
  <1>12. Ends4(D1, q1, m1, F)
    BY <1>1, <1>3, <1>5, <1>11 DEF Ends4, WriteFirst
  <1>13. Ends5(D, q, made, F)
    BY <1>1, <1>3, <1>4, <1>12 DEF Ends5, WriteFirst
  <1>14. QED
    BY <1>1, <1>13 DEF Leads

\* Tables E are tables D with the balance of account a written.
Balanced(D, E, a, v) ==
    E.txs = D.txs /\ E.newBalance = D.newBalance /\ E.balance = [D.balance EXCEPT ![a] = v]

\* The balance of an account is written.
LEMMA BalanceExecuted ==
    ASSUME NEW D, NEW a, NEW v, NEW s, s = SetBalance(a, v),
           NEW made, NEW E, E = Executed(D, s, made)
    PROVE  Balanced(D, E, a, v) /\ s.op = "balance" /\ MadeAfter(D, s, made) = made
  <1>1. s.op = "balance" /\ s.account = a /\ s.value = v
    BY DEF SetBalance
  <1>2. Executes(D, E, s, made)
    BY ExecutedDoes
  <1>3. QED
    BY <1>1, <1>2 DEF Executes, Balanced, MadeAfter

\* No statement changes an account's state, its initial balance or the clock.
LEMMA RestExecuted ==
    ASSUME NEW D, NEW s, NEW made, NEW E, E = Executed(D, s, made)
    PROVE  E.acct = D.acct /\ E.initial = D.initial /\ E.now = D.now
  <1>1. Executes(D, E, s, made) /\ E.now = D.now
    BY ExecutedDoes
  <1>2. QED
    BY <1>1 DEF Executes

\* A row is inserted, and the balance of its account written.
Entered(D, F, row, a, v) ==
    /\ F.txs = Append(D.txs, row) /\ F.newBalance = Append(D.newBalance, v)
    /\ F.balance = [D.balance EXCEPT ![a] = v]
    /\ F.acct = D.acct /\ F.initial = D.initial /\ F.now = D.now

\* A row and the balance of its account: an adjustment, or what is no transfer.
LEMMA EntryLeads ==
    ASSUME NEW D, NEW row \in Row, row.linked # Mine, NEW a, NEW v,
           NEW s, s = Insert(row, v), NEW b, b = SetBalance(a, v), NEW q, q = << s, b >>
    PROVE  \E F : Entered(D, F, row, a, v) /\ Leads(D, q, << >>, F)
  <1>1. PICK made, C : made = << >> /\ C = Executed(D, s, made)
    OBVIOUS
  <1>2. PICK m : m = MadeAfter(D, s, made)
    OBVIOUS
  <1>3. PICK F : F = Executed(C, b, m)
    OBVIOUS
  <1>4. s.op = "insert" /\ s.row = row /\ s.value = v
    BY DEF Insert
  <1>5. Added(D, C, row, v)
    BY <1>1, <1>4, InsertExecuted
  <1>6. Balanced(C, F, a, v) /\ b.op = "balance"
    BY <1>3, BalanceExecuted
  <1>7. C.acct = D.acct /\ C.initial = D.initial /\ C.now = D.now
    BY <1>1, RestExecuted
  <1>8. F.acct = C.acct /\ F.initial = C.initial /\ F.now = C.now
    BY <1>3, RestExecuted
  <1>9. Entered(D, F, row, a, v)
    BY <1>5, <1>6, <1>7, <1>8 DEF Added, Balanced, Entered
  <1>10. Pair(q, s, b)
    BY PairOf
  <1>11. Done2(D, s, b, F)
    BY <1>1, <1>2, <1>3 DEF Done2
  <1>12. Leads(D, q, << >>, F)
    BY <1>4, <1>6, <1>10, <1>11, TwoStatements
  <1>13. QED
    BY <1>9, <1>12

\* What an adjustment writes leads to the tables of module Ledger.
LEMMA AdjustLeads ==
    ASSUME StepsInv, NEW u \in Users, NEW a \in Accounts, MayUse(u, a),
           NEW value \in Balances, value # balance[a], NEW D, D = Tables,
           NEW q, q = << Insert(AdjustmentRow(a, balance[a], value), value), SetBalance(a, value) >>
    PROVE  RequestLeads(D, q)
  <1>1. PICK row, s, b : /\ row = AdjustmentRow(a, balance[a], value)
                         /\ s = Insert(row, value) /\ b = SetBalance(a, value)
    OBVIOUS
  <1>2. value \in Int
    BY LedgerAssumption
  <1>3. AdjustmentRow(a, balance[a], value).amount \in Int
    BY <1>2, TablesNow DEF AdjustmentRow
  <1>4. row \in Row /\ row.linked # Mine
    <2>1. row \in Row /\ row.linked = NoTx
      BY <1>1, <1>3, TablesNow, AdjustmentRowFacts
    <2>2. QED
      BY <2>1 DEF NoTx, Mine
  <1>5. q = << s, b >>
    BY <1>1
  <1>6. PICK F : Entered(D, F, row, a, value) /\ Leads(D, q, << >>, F)
    BY <1>1, <1>4, <1>5, EntryLeads
  <1>7. row = AdjustmentIn(D, a, D.balance[a], value) /\ D.balance = balance
    BY <1>1, ReadWrites DEF Tables
  <1>8. MayUseIn(D, u, a)
    BY ReadRows
  <1>9. AdjustedIn(D, F, u, a, value)
    BY <1>6, <1>7, <1>8 DEF Entered, AdjustedIn
  <1>10. Requested(D, F)
    BY <1>6, <1>9 DEF Entered, Requested
  <1>11. QED
    BY <1>6, <1>10 DEF RequestLeads

\* The rows a creation stores.
LEMMA CreateReads ==
    ASSUME StepsInv, NEW u \in Users, NEW in \in Inputs, MayUse(u, in.account),
           HasTarget(in) => MayUse(u, in.target), NEW D, D = Tables
    PROVE  /\ SourceRowIn(D, u, in) \in Row /\ SourceRowIn(D, u, in).linked # Mine
           /\ HasTarget(in) => /\ in.target \in Accounts
                               /\ TargetAmountOf(in) \in Int /\ DateIn(D, in) \in Int
  <1>1. /\ in.account \in Accounts /\ in.amount \in Int /\ in.isIncome \in BOOLEAN
        /\ in.isTransfer \in BOOLEAN /\ in.isAdjustment \in BOOLEAN
        /\ DateOf(in) \in Int /\ TargetAmountOf(in) \in Int
        /\ in.target \in Accounts \cup {NoAccount}
    BY TablesNow, InputFacts
  <1>2. SourceRow(u, in) \in Row /\ SourceRow(u, in).linked = NoTx
    BY <1>1 DEF SourceRow, Row, NoTx
  <1>3. SourceRow(u, in) = SourceRowIn(D, u, in) /\ DateOf(in) = DateIn(D, in)
    BY ReadWrites, ReadRows
  <1>4. HasTarget(in) => in.target \in Accounts
    BY <1>1 DEF HasTarget
  <1>5. QED
    BY <1>1, <1>2, <1>3, <1>4 DEF NoTx, Mine

\* The two rows of a transfer refer to each other.
TwoRows(T, S, L, n) == [Append(Append(T, S), L) EXCEPT ![n + 1].linked = n + 2]

\* The link is the number the second row was given.
RowsLinked(T, S, L, n) == TwoRows(T, S, L, n) = T \o << [S EXCEPT !.linked = n + 2], L >>

LEMMA TwoRowsAre ==
    ASSUME NEW T \in Seq(Row), NEW S \in Row, NEW L \in Row, NEW n, n = Len(T)
    PROVE  RowsLinked(T, S, L, n)
  <1>1. PICK k, j : k = n + 1 /\ j = n + 2
    OBVIOUS
  <1>2. n \in Nat /\ k \in Nat /\ j \in Nat /\ j = k + 1
    BY <1>1, LenProperties
  <1>3. PICK x : x = [S EXCEPT !.linked = j]
    OBVIOUS
  <1>4. x \in Row
    BY <1>2, <1>3 DEF Row
  <1>5. PICK A : A = Append(T, S)
    OBVIOUS
  <1>6. A \in Seq(Row) /\ Len(A) = k /\ A[k] = S /\ \A i \in 1..n : A[i] = T[i]
    BY <1>1, <1>5, AppendProperties
  <1>7. PICK B : B = Append(A, L)
    OBVIOUS
  <1>8. B \in Seq(Row) /\ Len(B) = j /\ B[j] = L /\ \A i \in 1..k : B[i] = A[i]
    BY <1>2, <1>6, <1>7, AppendProperties
  <1>9. PICK V : V = [B EXCEPT ![k].linked = j]
    OBVIOUS
  <1>10. B \in [1..j -> Row]
    BY <1>8, LenProperties
  <1>11. V = [i \in 1..j |-> IF i = k THEN [B[k] EXCEPT !.linked = j] ELSE B[i]]
    BY <1>9, <1>10
  <1>12. B[k] = S
    <2>1. k \in 1..k
      BY <1>1, <1>2
    <2>2. QED
      BY <1>6, <1>8, <2>1
  <1>13. V = [i \in 1..j |-> IF i = k THEN x ELSE IF i = j THEN L ELSE T[i]]
    <2>1. ASSUME NEW i \in 1..j, i # k, i # j PROVE B[i] = T[i]
      <3>1. i \in 1..k /\ i \in 1..n
        BY <1>1, <1>2, <2>1
      <3>2. QED
        BY <1>6, <1>8, <3>1
    <2>2. QED
      BY <1>3, <1>8, <1>11, <1>12, <2>1
  <1>14. PICK p, W : p = << x, L >> /\ W = T \o p
    OBVIOUS
  <1>15. p \in Seq(Row) /\ Len(p) = 2 /\ p[1] = x /\ p[2] = L
    BY <1>4, <1>14
  <1>16. /\ W \in Seq(Row) /\ Len(W) = j
         /\ \A i \in 1..n : W[i] = T[i]
         /\ \A i \in 1..2 : W[n + i] = p[i]
    <2>1. /\ W \in Seq(Row) /\ Len(W) = Len(T) + Len(p)
          /\ \A i \in 1..Len(T) : W[i] = T[i]
          /\ \A i \in 1..Len(p) : W[Len(T) + i] = p[i]
      BY <1>14, <1>15, ConcatProperties
    <2>2. QED
      BY <1>1, <1>15, <2>1
  <1>17. W[k] = x /\ W[j] = L
    <2>1. PICK a, b : a = 1 /\ b = 2
      OBVIOUS
    <2>2. W[n + a] = p[a] /\ W[n + b] = p[b]
      BY <1>16, <2>1
    <2>3. QED
      BY <1>1, <1>15, <2>1, <2>2
  <1>18. W = [i \in 1..j |-> W[i]]
    BY <1>16, LenProperties
  <1>19. ASSUME NEW i \in 1..j PROVE W[i] = IF i = k THEN x ELSE IF i = j THEN L ELSE T[i]
    <2>1. i = k \/ i = j \/ i \in 1..n
      BY <1>1, <1>2
    <2>2. QED
      BY <1>16, <1>17, <1>2, <1>1, <2>1
  <1>20. W = V
    BY <1>13, <1>18, <1>19
  <1>21. QED
    BY <1>1, <1>3, <1>5, <1>7, <1>9, <1>14, <1>20 DEF TwoRows, RowsLinked

-----------------------------------------------------------------------------
(* A transfer is created by five statements.                                *)

\* The statements, from the rows S and L and the balances they leave.
Transfers(q, S, a, v, L, b, w) ==
    Lists5(q, Insert(S, v), SetBalance(a, v), Insert(L, w), UpdateLinkedID, SetBalance(b, w))

\* The tables after them.
Transferred(D, F, S, a, v, L, b, w) ==
    LET n == Len(D.txs)
    IN  /\ F.txs = D.txs \o << [S EXCEPT !.linked = n + 2], [L EXCEPT !.linked = n + 1] >>
        /\ F.newBalance = Append(Append(D.newBalance, v), w)
        /\ F.balance = [[D.balance EXCEPT ![a] = v] EXCEPT ![b] = w]
        /\ F.acct = D.acct /\ F.initial = D.initial /\ F.now = D.now

\* A row made is numbered after the last one.
LEMMA MadeFirst ==
    ASSUME NEW k, NEW m, m = Append(<< >>, k)
    PROVE  m = << k >>
  OBVIOUS

\* The five statements lead there.
LEMMA TransferLeads5 ==
    ASSUME NEW D, TablesFit(D), NEW S \in Row, S.linked # Mine, NEW a, NEW v,
           NEW L, L.linked = Mine, \A k \in Nat : [L EXCEPT !.linked = k] \in Row,
           NEW b, NEW w, NEW q, Transfers(q, S, a, v, L, b, w)
    PROVE  \E F : Transferred(D, F, S, a, v, L, b, w) /\ Leads(D, q, << >>, F)
  <1>1. PICK s1, s2, s3, s4, s5 :
          /\ s1 = Insert(S, v) /\ s2 = SetBalance(a, v) /\ s3 = Insert(L, w)
          /\ s4 = UpdateLinkedID /\ s5 = SetBalance(b, w)
    OBVIOUS
  <1>2. Lists5(q, s1, s2, s3, s4, s5)
    BY <1>1 DEF Transfers
  <1>3. PICK m0, D1, m1 : m0 = << >> /\ D1 = Executed(D, s1, m0) /\ m1 = MadeAfter(D, s1, m0)
    OBVIOUS
  <1>4. PICK D2, m2 : D2 = Executed(D1, s2, m1) /\ m2 = MadeAfter(D1, s2, m1)
    OBVIOUS
  <1>5. PICK D3, m3 : D3 = Executed(D2, s3, m2) /\ m3 = MadeAfter(D2, s3, m2)
    OBVIOUS
  <1>6. PICK D4, m4 : D4 = Executed(D3, s4, m3) /\ m4 = MadeAfter(D3, s4, m3)
    OBVIOUS
  <1>7. PICK F : F = Executed(D4, s5, m4)
    OBVIOUS
  <1>8. PICK T, n, k, j : T = D.txs /\ n = Len(D.txs) /\ k = n + 1 /\ j = n + 2
    OBVIOUS
  <1>9. T \in Seq(Row) /\ n = Len(T) /\ n \in Nat /\ k \in Nat /\ j \in Nat /\ j = k + 1
    BY <1>8, LenProperties DEF TablesFit
  <1>10. s1.op = "insert" /\ s1.row = S /\ s1.value = v
    BY <1>1 DEF Insert
  <1>11. s3.op = "insert" /\ s3.row = L /\ s3.value = w
    BY <1>1 DEF Insert
  <1>12. s4.op = "link"
    BY <1>1 DEF UpdateLinkedID
  <1>13. Added(D, D1, S, v)
    BY <1>3, <1>10, InsertExecuted
  <1>14. Balanced(D1, D2, a, v) /\ s2.op = "balance" /\ m2 = m1
    BY <1>1, <1>4, BalanceExecuted
  <1>15. D2.txs = Append(T, S) /\ D2.newBalance = Append(D.newBalance, v)
         /\ D2.balance = [D.balance EXCEPT ![a] = v]
    BY <1>8, <1>13, <1>14 DEF Added, Balanced
  <1>16. m1 = << k >>
    <2>1. m1 = Append(m0, k)
      BY <1>3, <1>8, <1>10 DEF MadeAfter
    <2>2. QED
      BY <1>3, <2>1, MadeFirst
  <1>17. PICK y : y = [L EXCEPT !.linked = k]
    OBVIOUS
  <1>18. y \in Row
    BY <1>9, <1>17
  <1>19. StoredRow(s3, m2) = y
    <2>1. PICK o : o = OwnedBy(m2, L.linked)
      OBVIOUS
    <2>2. m2[1] = k
      BY <1>14, <1>16
    <2>3. o = k
      BY <2>1, <2>2 DEF OwnedBy
    <2>4. StoredRow(s3, m2) = [L EXCEPT !.linked = o]
      BY <1>11, <2>1 DEF StoredRow
    <2>5. QED
      BY <1>17, <2>3, <2>4
  <1>20. Executes(D2, D3, s3, m2)
    BY <1>5, ExecutedDoes
  <1>21. D3.txs = Append(Append(T, S), y) /\ D3.newBalance = Append(Append(D.newBalance, v), w)
         /\ D3.balance = [D.balance EXCEPT ![a] = v]
    BY <1>11, <1>15, <1>19, <1>20 DEF Executes
  <1>22. m3[1] = k /\ m3[2] = j
    <2>1. Len(D2.txs) = k
      BY <1>8, <1>9, <1>15, AppendProperties
    <2>2. m3 = Append(m2, j)
      BY <1>5, <1>9, <1>11, <2>1 DEF MadeAfter
    <2>3. m3 = Append(<< k >>, j)
      BY <1>14, <1>16, <2>2
    <2>4. QED
      BY <2>3
  <1>23. Executes(D3, D4, s4, m3)
    BY <1>6, ExecutedDoes
  <1>24. D4.txs = [D3.txs EXCEPT ![k].linked = j] /\ D4.newBalance = D3.newBalance
         /\ D4.balance = D3.balance
    BY <1>12, <1>22, <1>23 DEF Executes
  <1>25. D4.txs = TwoRows(T, S, y, n)
    BY <1>8, <1>21, <1>24 DEF TwoRows
  <1>26. RowsLinked(T, S, y, n)
    BY <1>9, <1>18, TwoRowsAre
  <1>27. Balanced(D4, F, b, w) /\ s5.op = "balance"
    BY <1>1, <1>7, BalanceExecuted
  <1>28. F.acct = D.acct /\ F.initial = D.initial /\ F.now = D.now
    <2>1. D1.acct = D.acct /\ D1.initial = D.initial /\ D1.now = D.now
      BY <1>3, RestExecuted
    <2>2. D2.acct = D1.acct /\ D2.initial = D1.initial /\ D2.now = D1.now
      BY <1>4, RestExecuted
    <2>3. D3.acct = D2.acct /\ D3.initial = D2.initial /\ D3.now = D2.now
      BY <1>5, RestExecuted
    <2>4. D4.acct = D3.acct /\ D4.initial = D3.initial /\ D4.now = D3.now
      BY <1>6, RestExecuted
    <2>5. F.acct = D4.acct /\ F.initial = D4.initial /\ F.now = D4.now
      BY <1>7, RestExecuted
    <2>6. QED
      BY <2>1, <2>2, <2>3, <2>4, <2>5
  <1>29. Transferred(D, F, S, a, v, L, b, w)
    <2>1. F.txs = T \o << [S EXCEPT !.linked = n + 2], [L EXCEPT !.linked = n + 1] >>
      BY <1>8, <1>17, <1>25, <1>26, <1>27 DEF Balanced, RowsLinked
    <2>2. F.newBalance = Append(Append(D.newBalance, v), w)
      BY <1>21, <1>24, <1>27 DEF Balanced
    <2>3. F.balance = [[D.balance EXCEPT ![a] = v] EXCEPT ![b] = w]
      BY <1>21, <1>24, <1>27 DEF Balanced
    <2>4. QED
      BY <1>8, <1>28, <2>1, <2>2, <2>3 DEF Transferred
  <1>30. Done5(D, s1, s2, s3, s4, s5, F)
    BY <1>3, <1>4, <1>5, <1>6, <1>7 DEF Done5
  <1>31. s1.op # "replay" /\ s2.op # "replay" /\ s3.op # "replay" /\ s4.op # "replay"
         /\ s5.op # "replay"
    BY <1>10, <1>11, <1>12, <1>14, <1>27
  <1>32. Leads(D, q, << >>, F)
    BY <1>2, <1>30, <1>31, FiveStatements
  <1>33. QED
    BY <1>29, <1>32

\* Two balances are appended one by one, or together.
BothAppended(N, v, w) == Append(Append(N, v), w) = N \o << v, w >>

LEMMA TwoInOrder ==
    ASSUME NEW N \in Seq(Int), NEW v \in Int, NEW w \in Int, NEW p, p = << v, w >>,
           NEW M, M = Append(Append(N, v), w)
    PROVE  M = N \o p
  <1>1. PICK n, A, W : n = Len(N) /\ A = Append(N, v) /\ W = N \o p
    OBVIOUS
  <1>2. PICK k, j : k = n + 1 /\ j = n + 2
    OBVIOUS
  <1>3. n \in Nat /\ k \in Nat /\ j \in Nat /\ j = k + 1
    BY <1>1, <1>2, LenProperties
  <1>4. A \in Seq(Int) /\ Len(A) = k /\ A[k] = v /\ \A i \in 1..n : A[i] = N[i]
    BY <1>1, <1>2, AppendProperties
  <1>5. M \in Seq(Int) /\ Len(M) = j /\ M[j] = w /\ \A i \in 1..k : M[i] = A[i]
    BY <1>1, <1>3, <1>4, AppendProperties
  <1>6. p \in Seq(Int) /\ Len(p) = 2 /\ p[1] = v /\ p[2] = w
    OBVIOUS
  <1>7. /\ W \in Seq(Int) /\ Len(W) = j
        /\ \A i \in 1..n : W[i] = N[i]
        /\ \A i \in 1..2 : W[n + i] = p[i]
    <2>1. /\ W \in Seq(Int) /\ Len(W) = Len(N) + Len(p)
          /\ \A i \in 1..Len(N) : W[i] = N[i]
          /\ \A i \in 1..Len(p) : W[Len(N) + i] = p[i]
      BY <1>1, <1>6, ConcatProperties
    <2>2. QED
      BY <1>1, <1>2, <1>6, <2>1
  <1>8. W[k] = v /\ W[j] = w
    <2>1. PICK a, b : a = 1 /\ b = 2
      OBVIOUS
    <2>2. W[n + a] = p[a] /\ W[n + b] = p[b]
      BY <1>7, <2>1
    <2>3. QED
      BY <1>2, <1>6, <2>1, <2>2
  <1>9. M = [i \in 1..j |-> M[i]] /\ W = [i \in 1..j |-> W[i]]
    BY <1>5, <1>7, LenProperties
  <1>10. ASSUME NEW i \in 1..j PROVE M[i] = W[i]
    <2>1. i = k \/ i = j \/ (i \in 1..n /\ i \in 1..k)
      BY <1>2, <1>3
    <2>2. k \in 1..k
      BY <1>2, <1>3
    <2>3. QED
      BY <1>4, <1>5, <1>7, <1>8, <2>1, <2>2
  <1>11. QED
    BY <1>1, <1>9, <1>10

LEMMA TwoAppended ==
    ASSUME NEW N \in Seq(Int), NEW v \in Int, NEW w \in Int
    PROVE  BothAppended(N, v, w)
  <1>1. PICK p, M : p = << v, w >> /\ M = Append(Append(N, v), w)
    OBVIOUS
  <1>2. M = N \o p
    BY <1>1, TwoInOrder
  <1>3. QED
    BY <1>1, <1>2 DEF BothAppended

\* Second legs that differ in their link.
LEMMA LinkedElsewhere ==
    ASSUME NEW D, NEW u, NEW in, NEW i, NEW k, NEW L, L = LinkedRowIn(D, u, in, i),
           NEW E, E = [L EXCEPT !.linked = k]
    PROVE  E = LinkedRowIn(D, u, in, k)
  BY DEF LinkedRowIn

\* What a creation writes leads to the tables of module Ledger.
LEMMA CreateLeads ==
    ASSUME StepsInv, NEW u \in Users, NEW in \in Inputs, MayUse(u, in.account),
           ~SelfTransfer(in), HasTarget(in) => MayUse(u, in.target),
           NEW D, D = Tables, NEW q, q = CreateStatements(u, in)
    PROVE  RequestLeads(D, q)
  <1>1. PICK S, v : S = SourceRowIn(D, u, in) /\ v = SourceBalanceIn(D, u, in)
    OBVIOUS
  <1>2. SourceRow(u, in) = S /\ SourceBalance(u, in) = v
    BY <1>1, ReadWrites
  <1>3. S \in Row /\ S.linked # Mine
    BY <1>1, CreateReads
  <1>4. MayUseIn(D, u, in.account) /\ (HasTarget(in) => MayUseIn(D, u, in.target))
    BY ReadRows
  <1>5. PICK a, b, p : /\ a = Insert(S, v) /\ b = SetBalance(in.account, v) /\ p = << a, b >>
    OBVIOUS
  <1>6. CASE ~HasTarget(in)
    <2>1. q = << a, b >>
      <3>1. q = p \o << >>
        BY <1>2, <1>5, <1>6 DEF CreateStatements
      <3>2. QED
        BY <1>5, <3>1
    <2>2. PICK F : Entered(D, F, S, in.account, v) /\ Leads(D, q, << >>, F)
      BY <1>3, <1>5, <2>1, EntryLeads
    <2>3. CreatedIn(D, F, u, in)
      BY <1>1, <1>4, <1>6, <2>2 DEF Entered, CreatedIn
    <2>4. Requested(D, F)
      BY <2>2, <2>3 DEF Entered, Requested
    <2>5. QED
      BY <2>2, <2>4 DEF RequestLeads
  <1>7. CASE HasTarget(in)
    <2>1. PICK L, w : L = LinkedRowIn(D, u, in, Mine) /\ w = TargetBalanceIn(D, in)
      OBVIOUS
    <2>2. LinkedRow(u, in, Mine) = L /\ TargetBalance(in) = w
      BY <2>1, ReadWrites
    <2>3. PICK c, d, e, o : /\ c = Insert(L, w) /\ d = UpdateLinkedID
                            /\ e = SetBalance(in.target, w) /\ o = << c, d, e >>
      OBVIOUS
    <2>4. q = p \o o
      BY <1>2, <1>5, <1>7, <2>2, <2>3 DEF CreateStatements
    <2>5. IsSequence(o) /\ Len(o) = 3 /\ o[1] = c /\ o[2] = d /\ o[3] = e
      <3>1. o \in Seq({c, d, e})
        BY <2>3
      <3>2. QED
        BY <2>3, <3>1, SequenceOf
    <2>6. IsSequence(p) /\ Len(p) = 2 /\ p[1] = a /\ p[2] = b
      BY <1>5, PairOf DEF Pair
    <2>7. Joined(p, o, q)
      BY <2>4, <2>5, <2>6, JoinOf
    <2>8. Lists5(q, a, b, c, d, e)
      <3>1. /\ IsSequence(q) /\ Len(q) = Len(p) + Len(o)
            /\ \A i \in 1..Len(p) : q[i] = p[i]
            /\ \A i \in 1..Len(o) : q[Len(p) + i] = o[i]
        BY <2>7 DEF Joined
      <3>2. q[1] = p[1] /\ q[2] = p[2]
        BY <2>6, <3>1
      <3>3. q[2 + 1] = o[1] /\ q[2 + 2] = o[2] /\ q[2 + 3] = o[3]
        BY <2>5, <2>6, <3>1
      <3>4. IsSequence(q) /\ Len(q) = 5
        BY <2>5, <2>6, <3>1
      <3>5. q[1] = a /\ q[2] = b
        BY <2>6, <3>2
      <3>6. q[3] = c /\ q[4] = d /\ q[5] = e
        BY <2>5, <3>3
      <3>7. QED
        BY <3>4, <3>5, <3>6 DEF Lists5
    <2>9. Transfers(q, S, in.account, v, L, in.target, w)
      BY <1>5, <2>3, <2>8 DEF Transfers
    <2>10. TablesFit(D)
      BY TablesNow
    <2>11. in.target \in Accounts /\ TargetAmountOf(in) \in Int /\ DateIn(D, in) \in Int
      BY <1>7, CreateReads
    <2>12. L.linked = Mine /\ \A k \in Nat : [L EXCEPT !.linked = k] \in Row
      BY <2>1, <2>11 DEF LinkedRowIn, Row
    <2>13. PICK F : Transferred(D, F, S, in.account, v, L, in.target, w) /\ Leads(D, q, << >>, F)
      BY <1>3, <2>9, <2>10, <2>12, TransferLeads5
    <2>14. PICK n : n = Len(D.txs)
      OBVIOUS
    <2>15. n \in Nat /\ D.newBalance \in Seq(Int)
      BY <2>10, <2>14, LenProperties DEF TablesFit
    <2>16. v \in Int /\ w \in Int
      <3>1. D.balance[in.account] \in Int /\ D.balance[in.target] \in Int
        <4>1. D.balance = balance
          BY DEF Tables
        <4>2. QED
          BY <1>4, <2>11, <4>1, TablesNow DEF MayUseIn
      <3>2. S.amount \in Int /\ in.amount \in Int
        BY TablesNow, InputFacts, <1>3 DEF Row
      <3>3. QED
        BY <1>1, <2>1, <2>11, <3>1, <3>2 DEF SourceBalanceIn, TargetBalanceIn, Apply, SourceRowIn
    <2>17. [L EXCEPT !.linked = n + 1] = LinkedRowIn(D, u, in, n + 1)
      <3>1. PICK k, E : k = n + 1 /\ E = [L EXCEPT !.linked = k]
        OBVIOUS
      <3>2. E = LinkedRowIn(D, u, in, k)
        BY <2>1, <3>1, LinkedElsewhere
      <3>3. QED
        BY <3>1, <3>2
    <2>18. F.txs = D.txs \o << [S EXCEPT !.linked = n + 2], LinkedRowIn(D, u, in, n + 1) >>
      BY <2>13, <2>14, <2>17 DEF Transferred
    <2>19. F.newBalance = D.newBalance \o << v, w >>
      <3>1. F.newBalance = Append(Append(D.newBalance, v), w)
        BY <2>13 DEF Transferred
      <3>2. BothAppended(D.newBalance, v, w)
        BY <2>15, <2>16, TwoAppended
      <3>3. QED
        BY <3>1, <3>2 DEF BothAppended
    <2>20. F.balance = [D.balance EXCEPT ![in.account] = v, ![in.target] = w]
      BY <2>13 DEF Transferred
    <2>21. CreatedIn(D, F, u, in)
      <3>1. (n + 1) + 1 = n + 2
        BY <2>15
      <3>2. F.txs = D.txs \o << [S EXCEPT !.linked = (n + 1) + 1], LinkedRowIn(D, u, in, n + 1) >>
        BY <2>18, <3>1
      <3>3. QED
        BY <1>1, <1>4, <1>7, <2>1, <2>14, <2>19, <2>20, <3>2 DEF CreatedIn
    <2>22. Requested(D, F)
      BY <2>13, <2>21 DEF Transferred, Requested
    <2>23. QED
      BY <2>13, <2>22 DEF RequestLeads
  <1>8. QED
    BY <1>6, <1>7

-----------------------------------------------------------------------------
(* Undisturbed requests come one after the other.                           *)

\* D are the tables, J the jobs, L the tables as the last request left them: nobody is at
\* work and L is D, or one worker is on its way from L to what module Ledger makes of it.
OneAtATime(L, D, J) ==
    \/ (\A w \in Workers : J[w].todo = << >>) /\ L = D
    \/ \E w \in Workers :
          /\ \A x \in Workers \ {w} : J[x].todo = << >>
          /\ J[w].todo # << >>
          /\ \E F : Requested(L, F) /\ Leads(D, J[w].todo, J[w].made, F)

\* The inductive invariant of the refinement.
WholeInv == disturbed \/ OneAtATime(ledger, Tables, job)

\* One request has begun.
LEMMA StartAlone ==
    ASSUME StepsInv, WholeInv, NEW w \in Workers, NEW kind, NEW A, NEW R, NEW q,
           Start(w, kind, A, R, q), RequestLeads(Tables, q)
    PROVE  WholeInv' /\ ledger' = ledger
  <1>1. PICK D, L, J, K : D = Tables /\ L = ledger /\ J = job /\ K = job'
    OBVIOUS
  <1>2. ledger' = L /\ Tables' = D
    BY <1>1 DEF Start, vars, Tables
  <1>3. /\ K[w].todo = q /\ K[w].made = << >>
        /\ \A x \in Workers \ {w} : K[x].todo = J[x].todo
    <2>1. K = [v \in Workers |->
             IF v = w THEN [kind |-> kind, accounts |-> A, replays |-> R,
                            todo |-> q, made |-> << >>,
                            calm |-> \A x \in Workers \ {w} : Reach(x) \cap A = {}]
             ELSE IF v \in {x \in Workers \ {w} : J[x].accounts \cap A # {}}
                  THEN [J[v] EXCEPT !.calm = FALSE] ELSE J[v]]
      BY <1>1 DEF Start
    <2>2. K[w].todo = q /\ K[w].made = << >>
      BY <2>1
    <2>3. ASSUME NEW x \in Workers \ {w} PROVE K[x].todo = J[x].todo
      <3>1. K[x] = J[x] \/ K[x] = [J[x] EXCEPT !.calm = FALSE]
        BY <2>1
      <3>2. JobFits(D, J[x])
        BY <1>1 DEF StepsInv, AllFit
      <3>3. [J[x] EXCEPT !.calm = FALSE].todo = J[x].todo
        BY <3>2 DEF JobFits, IsJob
      <3>4. QED
        BY <3>1, <3>3
    <2>4. QED
      BY <2>2, <2>3
  <1>4. CASE disturbed \/ \E v \in Workers : Working(v)
    BY <1>1, <1>2, <1>4 DEF Start, WholeInv
  <1>5. CASE ~disturbed /\ \A v \in Workers : ~Working(v)
    <2>1. \A x \in Workers : J[x].todo = << >>
      BY <1>1, <1>5 DEF Working
    <2>2. L = D
      BY <1>1, <1>5, <2>1 DEF WholeInv, OneAtATime
    <2>3. PICK F : Requested(L, F) /\ Leads(D, q, << >>, F)
      BY <1>1, <2>2 DEF RequestLeads
    <2>4. \A x \in Workers \ {w} : K[x].todo = << >>
      BY <1>3, <2>1
    <2>5. CASE q = << >>
      <3>1. \A x \in Workers : K[x].todo = << >>
        BY <1>3, <2>4, <2>5
      <3>2. OneAtATime(L, D, K)
        BY <2>2, <3>1 DEF OneAtATime
      <3>3. QED
        BY <1>1, <1>2, <3>2 DEF WholeInv
    <2>6. CASE q # << >>
      <3>1. Leads(D, K[w].todo, K[w].made, F)
        BY <1>3, <2>3
      <3>2. OneAtATime(L, D, K)
        BY <1>3, <2>3, <2>4, <2>6, <3>1 DEF OneAtATime
      <3>3. QED
        BY <1>1, <1>2, <3>2 DEF WholeInv
    <2>7. QED
      BY <2>5, <2>6
  <1>6. QED
    BY <1>4, <1>5, <1>2, <1>1

\* Requests begin when the tables are as the last one left them.
LEMMA StartCreateAlone ==
    ASSUME StepsInv, WholeInv, NEW w \in Workers, NEW u \in Users, NEW in \in Inputs,
           StartCreate(w, u, in)
    PROVE  WholeInv' /\ ledger' = ledger
  <1>1. PICK kind, A, R, q :
            /\ kind = "create" /\ R = {} /\ q = CreateStatements(u, in)
            /\ A = {in.account} \cup IF HasTarget(in) THEN {in.target} ELSE {}
    OBVIOUS
  <1>2. /\ Start(w, kind, A, R, q) /\ MayUse(u, in.account) /\ ~SelfTransfer(in)
        /\ (HasTarget(in) => MayUse(u, in.target))
    BY <1>1 DEF StartCreate
  <1>3. RequestLeads(Tables, q)
    BY <1>1, <1>2, CreateLeads
  <1>4. QED
    BY <1>2, <1>3, StartAlone

LEMMA StartAdjustAlone ==
    ASSUME StepsInv, WholeInv, NEW w \in Workers, NEW u \in Users, NEW a \in Accounts,
           NEW value \in Balances, StartAdjust(w, u, a, value)
    PROVE  WholeInv' /\ ledger' = ledger
  <1>1. PICK kind, A, R, q :
            /\ kind = "adjust" /\ A = {a} /\ R = {}
            /\ q = << Insert(AdjustmentRow(a, balance[a], value), value), SetBalance(a, value) >>
    OBVIOUS
  <1>2. Start(w, kind, A, R, q) /\ MayUse(u, a) /\ value # balance[a]
    BY <1>1 DEF StartAdjust
  <1>3. RequestLeads(Tables, q)
    BY <1>1, <1>2, AdjustLeads
  <1>4. QED
    BY <1>2, <1>3, StartAlone

LEMMA StartUpdateAlone ==
    ASSUME StepsInv, WholeInv, NEW w \in Workers, NEW u \in Users, NEW id \in DOMAIN txs,
           NEW in \in Inputs, StartUpdate(w, u, id, in)
    PROVE  WholeInv' /\ ledger' = ledger
  <1>1. UpdateGuard(u, id, in) /\ TargetChecked(u, id, in)
    BY DEF StartUpdate, TargetChecked
  <1>2. PICK A, h : A = Replayed(id, in) /\ h = UpdateStatements(u, id, in)
    OBVIOUS
  <1>3. IsFiniteSet(A)
    BY <1>1, <1>2, UpdateFacts DEF TargetChecked
  <1>4. PICK order \in SetToSeqs(A) :
            Start(w, "update", A, A, h \o [k \in DOMAIN order |-> Replay(order[k])])
    BY <1>2 DEF StartUpdate
  <1>5. PICK r, q : r = [k \in DOMAIN order |-> Replay(order[k])] /\ q = h \o r
    OBVIOUS
  <1>6. ReplaysAll(r, A)
    BY <1>3, <1>5, ListsSet, ReplaysOf
  <1>7. RequestLeads(Tables, q)
    BY <1>1, <1>2, <1>5, <1>6, UpdateLeads
  <1>8. Start(w, "update", A, A, q)
    BY <1>4, <1>5
  <1>9. QED
    BY <1>7, <1>8, StartAlone

LEMMA StartDeleteAlone ==
    ASSUME StepsInv, WholeInv, NEW w \in Workers, NEW u \in Users, NEW id \in DOMAIN txs,
           StartDelete(w, u, id)
    PROVE  WholeInv' /\ ledger' = ledger
  <1>1. PICK x, row, order, h, r, q, A :
            /\ row = txs[id] /\ x = txs[row.linked].account
            /\ order = << row.account >> \o IF HasLinked(row) THEN << x >> ELSE << >>
            /\ h = DeleteStatements(id)
            /\ r = [k \in DOMAIN order |-> Replay(order[k])]
            /\ q = h \o r /\ A = ToSet(order)
    OBVIOUS
  <1>2. Start(w, "delete", A, A, q) /\ MayEdit(u, id)
    BY <1>1 DEF StartDelete
  <1>3. IsSequence(order) /\ A = {row.account} \cup IF HasLinked(row) THEN {x} ELSE {}
    <2>1. Affected(row, x, order)
      BY <1>1 DEF Affected
    <2>2. QED
      BY <1>1, <2>1, DeleteOrder
  <1>4. ReplaysAll(r, A)
    BY <1>1, <1>3, ReplaysOf
  <1>5. RequestLeads(Tables, q)
    BY <1>1, <1>2, <1>3, <1>4, DeleteLeads DEF Tables
  <1>6. QED
    BY <1>2, <1>5, StartAlone

\* A worker executes a statement, as Leads has it.
Advances(D, E, j, k) ==
    /\ IsSequence(j.todo) /\ j.todo # << >>
    /\ Executes(D, E, j.todo[1], j.made) /\ IsTables(D) /\ IsTables(E) /\ E.now = D.now
    /\ j.todo[1].op = "replay" => j.todo[1].account \in Accounts
    /\ Rest(D, j.todo, k.todo) /\ k.made = MadeAfter(D, j.todo[1], j.made)

\* Every step of a worker is one.
LEMMA StepAdvances ==
    ASSUME StepsInv, NEW w \in Workers, Step(w)
    PROVE  Advances(Tables, Tables', job[w], job'[w]) /\ \A x \in Workers \ {w} : job'[x] = job[x]
  <1>1. PICK D, E, j, q, s, m, K : /\ D = Tables /\ E = Tables' /\ j = job[w] /\ q = j.todo
                                   /\ s = q[1] /\ m = MadeAfter(D, s, j.made) /\ K = job'
    OBVIOUS
  <1>2. /\ JobFits(D, j) /\ q # << >> /\ IsSequence(q) /\ job = [x \in Workers |-> job[x]]
    BY <1>1 DEF StepsInv, AllFit, Step, Working, JobFits, IsJob
  <1>3. Head(q) = s
    BY <1>1, <1>2, TailOf
  <1>4. PICK p : p = After(s, Tail(q))
    OBVIOUS
  <1>5. K = [[job EXCEPT ![w] = [j EXCEPT !.todo = p]] EXCEPT ![w] = [@ EXCEPT !.made = m]]
    <2>1. m = IF s.op = "insert" THEN Append(j.made, Len(txs) + 1) ELSE j.made
      BY <1>1 DEF MadeAfter, Tables
    <2>2. K = [job EXCEPT ![w].todo = p, ![w].made = m]
      BY <1>1, <1>3, <1>4, <2>1 DEF Step
    <2>3. QED
      BY <1>1, <2>2
  <1>6. K = [job EXCEPT ![w] = NextJob(j, p, m)]
    BY <1>2, <1>5 DEF NextJob
  <1>7. K[w] = NextJob(j, p, m) /\ \A x \in Workers \ {w} : K[x] = job[x]
    BY <1>2, <1>6
  <1>8. K[w].todo = p /\ K[w].made = m
    BY <1>2, <1>7 DEF NextJob, JobFits, IsJob
  <1>9. Execute(w, s)
    BY <1>1, <1>3 DEF Step
  <1>10. Executes(D, E, s, j.made) /\ E.now = D.now
    BY <1>1, <1>9 DEF Execute, Executes, Tables, OwnedBy, StoredRow, Own
  <1>11. IsTables(D) /\ IsTables(E)
    BY <1>1 DEF IsTables, Tables
  <1>12. s.op = "replay" => s.account \in Accounts
    BY <1>1, <1>2, FirstCan DEF StepsInv, CanDo, Fits
  <1>13. Visible(s.account) <=> VisibleIn(D, s.account)
    BY <1>1, ReadRows
  <1>14. Rest(D, q, p)
    <2>1. CASE s.op = "replay" /\ Visible(s.account)
      <3>1. PICK r : r = recalculateBalances(s.account)
        OBVIOUS
      <3>2. WritesAll(D, r, s.account)
        BY <1>1, <3>1, WritesAllNow DEF StepsInv
      <3>3. p = r \o Tail(q)
        BY <1>4, <2>1, <3>1 DEF After
      <3>4. QED
        BY <1>1, <1>13, <2>1, <3>2, <3>3 DEF Rest
    <2>2. CASE ~(s.op = "replay" /\ Visible(s.account))
      <3>1. p = Tail(q)
        BY <1>4, <2>2 DEF After
      <3>2. QED
        BY <1>1, <1>13, <2>2, <3>1 DEF Rest
    <2>3. QED
      BY <2>1, <2>2
  <1>15. Advances(D, E, j, K[w])
    BY <1>1, <1>2, <1>8, <1>10, <1>11, <1>12, <1>14 DEF Advances
  <1>16. QED
    BY <1>1, <1>7, <1>15

\* What a step is to module Ledger: one of its steps, or none.
WholeStep == [Whole!Next]_Whole!vars

\* The history variable is what module Ledger sees.
LEMMA NoWholeStep ==
    ASSUME ledger' = ledger
    PROVE  WholeStep
  BY DEF WholeStep, Whole!vars

\* A worker's last statement is the request of module Ledger, the others are nothing to it.
LEMMA StepAlone ==
    ASSUME StepsInv, StepsInv', WholeInv, Whole!Bounded', NEW w \in Workers, Step(w)
    PROVE  WholeInv' /\ WholeStep
  <1>1. PICK D, E, L, J, K : D = Tables /\ E = Tables' /\ L = ledger /\ J = job /\ K = job'
    OBVIOUS
  <1>2. Advances(D, E, J[w], K[w]) /\ \A x \in Workers \ {w} : K[x] = J[x]
    BY <1>1, StepAdvances
  <1>3. J[w].todo # << >>
    BY <1>2 DEF Advances
  <1>4. ledger' = IF disturbed \/ K[w].todo # << >> THEN L ELSE E
    BY <1>1 DEF Step
  <1>5. disturbed' <=> disturbed
    BY DEF Step
  <1>6. CASE disturbed
    <2>1. ledger' = ledger
      BY <1>1, <1>4, <1>6
    <2>2. QED
      BY <1>5, <1>6, <2>1, NoWholeStep DEF WholeInv
  <1>7. CASE ~disturbed
    <2>1. OneAtATime(L, D, J)
      BY <1>1, <1>7 DEF WholeInv
    <2>2. /\ \A x \in Workers \ {w} : J[x].todo = << >>
          /\ \E F : Requested(L, F) /\ Leads(D, J[w].todo, J[w].made, F)
      <3>1. PICK y \in Workers : /\ \A x \in Workers \ {y} : J[x].todo = << >>
                                 /\ \E F : Requested(L, F) /\ Leads(D, J[y].todo, J[y].made, F)
        BY <1>3, <2>1 DEF OneAtATime
      <3>2. y = w
        BY <1>3, <3>1
      <3>3. QED
        BY <3>1, <3>2
    <2>3. PICK F : Requested(L, F) /\ Leads(D, J[w].todo, J[w].made, F)
      BY <2>2
    <2>4. \A x \in Workers \ {w} : K[x].todo = << >>
      BY <1>2, <2>2
    <2>5. PICK q, made, p, m : q = J[w].todo /\ made = J[w].made /\ p = K[w].todo /\ m = K[w].made
      OBVIOUS
    <2>6. TablesFit(D) /\ TablesFit(E)
      BY <1>1 DEF StepsInv
    <2>7. Leads(E, p, m, F)
      <3>1. /\ IsTables(D) /\ IsTables(E) /\ E.now = D.now
            /\ IsSequence(q) /\ q # << >> /\ Executes(D, E, q[1], made)
            /\ q[1].op = "replay" => q[1].account \in Accounts
            /\ Rest(D, q, p) /\ m = MadeAfter(D, q[1], made) /\ Leads(D, q, made, F)
        BY <1>2, <2>3, <2>5 DEF Advances
      <3>2. Leads(E, p, MadeAfter(D, q[1], made), F)
        BY <2>6, <3>1, LeadsOn
      <3>3. QED
        BY <3>1, <3>2
    <2>8. CASE p # << >>
      <3>1. ledger' = L
        BY <1>4, <2>5, <2>8
      <3>2. OneAtATime(L, E, K)
        BY <2>3, <2>4, <2>5, <2>7, <2>8 DEF OneAtATime
      <3>3. QED
        BY <1>1, <3>1, <3>2, NoWholeStep DEF WholeInv
    <2>9. CASE p = << >>
      <3>1. ledger' = E
        BY <1>4, <1>7, <2>5, <2>9
      <3>2. E = F
        <4>1. Leads(E, << >>, m, F) /\ IsTables(E)
          BY <1>2, <2>7, <2>9 DEF Advances
        <4>2. QED
          BY <2>6, <4>1, LedThere
      <3>3. \A x \in Workers : K[x].todo = << >>
        BY <2>4, <2>5, <2>9
      <3>4. OneAtATime(E, E, K)
        BY <3>3 DEF OneAtATime
      <3>5. WholeInv'
        BY <1>1, <3>1, <3>4 DEF WholeInv
      <3>6. F.acct = L.acct /\ F.initial = L.initial /\ F.now = L.now
        BY <2>3 DEF Requested
      <3>7. Becomes(F)
        BY <1>1, <3>1, <3>2, <3>6 DEF Becomes
      <3>8. Whole!Next
        BY <1>1, <2>3, <3>7, WholeRequest
      <3>9. QED
        BY <3>5, <3>8 DEF WholeStep
    <2>10. QED
      BY <2>8, <2>9
  <1>8. QED
    BY <1>6, <1>7

\* Whoever has nothing to do does nothing to what the others do.
LEMMA RespondAlone ==
    ASSUME StepsInv, WholeInv, NEW w \in Workers, Respond(w)
    PROVE  WholeInv' /\ ledger' = ledger
  <1>1. PICK D, L, J, K : D = Tables /\ L = ledger /\ J = job /\ K = job'
    OBVIOUS
  <1>2. Tables' = D /\ ledger' = L /\ (disturbed' <=> disturbed)
    BY <1>1 DEF Respond, vars, Tables
  <1>3. J = [x \in Workers |-> J[x]] /\ K = [J EXCEPT ![w] = None] /\ J[w].todo = << >>
    BY <1>1 DEF Respond, Working, StepsInv, AllFit
  <1>4. K[w].todo = << >> /\ \A x \in Workers \ {w} : K[x] = J[x]
    BY <1>3 DEF None
  <1>5. CASE disturbed
    BY <1>1, <1>2, <1>5 DEF WholeInv
  <1>6. CASE ~disturbed
    <2>1. OneAtATime(L, D, J)
      BY <1>1, <1>6 DEF WholeInv
    <2>2. OneAtATime(L, D, K)
      <3>1. CASE (\A x \in Workers : J[x].todo = << >>) /\ L = D
        BY <1>4, <3>1 DEF OneAtATime
      <3>2. CASE \E y \in Workers :
                    /\ \A x \in Workers \ {y} : J[x].todo = << >>
                    /\ J[y].todo # << >>
                    /\ \E F : Requested(L, F) /\ Leads(D, J[y].todo, J[y].made, F)
        <4>1. PICK y \in Workers :
                    /\ \A x \in Workers \ {y} : J[x].todo = << >>
                    /\ J[y].todo # << >>
                    /\ \E F : Requested(L, F) /\ Leads(D, J[y].todo, J[y].made, F)
          BY <3>2
        <4>2. y # w /\ K[y] = J[y]
          BY <1>3, <1>4, <4>1
        <4>3. \A x \in Workers \ {y} : K[x].todo = << >>
          BY <1>4, <4>1
        <4>4. QED
          BY <4>1, <4>2, <4>3 DEF OneAtATime
      <3>3. QED
        BY <2>1, <3>1, <3>2 DEF OneAtATime
    <2>3. QED
      BY <1>1, <1>2, <2>2 DEF WholeInv
  <1>7. QED
    BY <1>1, <1>2, <1>5, <1>6

\* An account is opened or deleted between two requests.
LEMMA AccountAlone ==
    ASSUME StepsInv, WholeInv, NEW u \in Users, AccountStatement(u)
    PROVE  WholeInv' /\ WholeStep
  <1>1. PICK D, E, L, J : D = Tables /\ E = Tables' /\ L = ledger /\ J = job
    OBVIOUS
  <1>2. job' = J /\ (disturbed' <=> (disturbed \/ \E w \in Workers : Working(w)))
        /\ ledger' = IF disturbed' THEN L ELSE E
    BY <1>1 DEF AccountStatement
  <1>3. CASE disturbed'
    BY <1>1, <1>2, <1>3, NoWholeStep DEF WholeInv
  <1>4. CASE ~disturbed'
    <2>1. \A w \in Workers : J[w].todo = << >>
      BY <1>1, <1>2, <1>4 DEF Working
    <2>2. L = D
      BY <1>1, <1>2, <1>4, <2>1 DEF WholeInv, OneAtATime
    <2>3. ledger' = E
      BY <1>2, <1>4
    <2>4. WholeInv'
      BY <1>1, <1>2, <2>1, <2>3 DEF WholeInv, OneAtATime
    <2>5. /\ ledger.acct = acct /\ ledger.initial = initial /\ ledger.balance = balance
          /\ ledger.txs = txs /\ ledger.newBalance = newBalance /\ ledger.now = now
      BY <1>1, <2>2 DEF Tables
    <2>6. /\ ledger'.acct = acct' /\ ledger'.initial = initial' /\ ledger'.balance = balance'
          /\ ledger'.txs = txs' /\ ledger'.newBalance = newBalance' /\ ledger'.now = now'
      BY <1>1, <2>3 DEF Tables
    <2>7. ASSUME NEW a \in Accounts, NEW b \in Balances, NEW i \in Balances, CreateAccount(u, a, b, i)
          PROVE  Whole!CreateAccount(u, a, b, i)
      BY <2>5, <2>6, <2>7 DEF CreateAccount, Whole!CreateAccount
    <2>8. ASSUME NEW a \in Accounts, DeleteAccount(u, a) PROVE Whole!DeleteAccount(u, a)
      <3>1. MayUse(u, a)
        BY <2>8 DEF DeleteAccount
      <3>2. Whole!MayUse(u, a)
        BY <1>1, <2>2, <3>1, WholeRows, ReadRows
      <3>3. QED
        BY <2>5, <2>6, <2>8, <3>2 DEF DeleteAccount, Whole!DeleteAccount
    <2>9. Whole!AccountRequest(u)
      BY <2>7, <2>8 DEF AccountStatement, Whole!AccountRequest
    <2>10. QED
      BY <2>4, <2>9 DEF WholeStep, Whole!Next
  <1>5. QED
    BY <1>3, <1>4

\* The beginning, and every step.
LEMMA InitWhole == StepsInit => WholeInv /\ Whole!Init
  <1> SUFFICES ASSUME StepsInit PROVE WholeInv /\ Whole!Init
    OBVIOUS
  <1>1. ledger = Tables /\ job = [w \in Workers |-> None]
    BY DEF StepsInit
  <1>2. \A w \in Workers : job[w].todo = << >>
    BY <1>1 DEF None
  <1>3. WholeInv
    BY <1>1, <1>2 DEF WholeInv, OneAtATime
  <1>4. /\ ledger.acct = acct /\ ledger.initial = initial /\ ledger.balance = balance
        /\ ledger.txs = txs /\ ledger.newBalance = newBalance /\ ledger.now = now
    BY <1>1 DEF Tables
  <1>5. Whole!Init
    BY <1>4 DEF StepsInit, Init, Whole!Init
  <1>6. QED
    BY <1>3, <1>5

LEMMA NextWhole ==
    StepsInv /\ StepsInv' /\ WholeInv /\ Whole!Bounded' /\ [StepsNext]_<<vars, stepVars>>
        => WholeInv' /\ WholeStep
  <1> SUFFICES ASSUME StepsInv, StepsInv', WholeInv, Whole!Bounded', [StepsNext]_<<vars, stepVars>>
               PROVE  WholeInv' /\ WholeStep
    OBVIOUS
  <1>1. ASSUME NEW w \in Workers, NEW u \in Users, StartRequest(w, u) PROVE WholeInv' /\ WholeStep
    <2>1. WholeInv' /\ ledger' = ledger
      BY <1>1, StartCreateAlone, StartUpdateAlone, StartDeleteAlone, StartAdjustAlone
         DEF StartRequest
    <2>2. QED
      BY <2>1, NoWholeStep
  <1>2. ASSUME NEW w \in Workers, Step(w) PROVE WholeInv' /\ WholeStep
    BY <1>2, StepAlone
  <1>3. ASSUME NEW w \in Workers, Respond(w) PROVE WholeInv' /\ WholeStep
    BY <1>3, RespondAlone, NoWholeStep
  <1>4. ASSUME NEW u \in Users, AccountStatement(u) PROVE WholeInv' /\ WholeStep
    BY <1>4, AccountAlone
  <1>5. ASSUME Crash \/ \E w \in Workers : FailStatement(w) PROVE WholeInv' /\ WholeStep
    <2>1. disturbed' /\ ledger' = ledger
      BY <1>5 DEF Crash, FailStatement
    <2>2. QED
      BY <2>1, NoWholeStep DEF WholeInv
  <1>6. CASE UNCHANGED <<vars, stepVars>>
    <2>1. Tables' = Tables /\ ledger' = ledger /\ job' = job /\ disturbed' = disturbed
      BY <1>6 DEF vars, stepVars, Tables
    <2>2. QED
      BY <2>1, NoWholeStep DEF WholeInv
  <1>7. QED
    BY <1>1, <1>2, <1>3, <1>4, <1>5, <1>6 DEF StepsNext

\* As long as requests come one after the other and none fails half-way, the statements
\* of CreateTransaction, UpdateTransaction, DeleteTransaction and AdjustBalance, with the
\* replays of an update in any order, have the effect of the whole requests of module
\* Ledger, for any accounts, rows and request bodies.  Whole!Bounded is the bound of that
\* module, which its actions have in their guards; nothing in the code corresponds to it.
THEOREM LedgerStepsImplementLedger == StepsSpec /\ []Whole!Bounded => ImplementsLedger
  <1>1. StepsInit => WholeInv /\ Whole!Init
    BY InitWhole
  <1>2. StepsInv /\ StepsInv' /\ WholeInv /\ Whole!Bounded' /\ [StepsNext]_<<vars, stepVars>>
            => WholeInv' /\ [Whole!Next]_Whole!vars
    BY NextWhole DEF WholeStep
  <1>3. QED
    BY <1>1, <1>2, LedgerStepsInvariant, PTL DEF StepsSpec, ImplementsLedger, Whole!Spec

=============================================================================
