---------------------------- MODULE LedgerProofs ----------------------------
(***************************************************************************)
(* Proofs about module Ledger, for any number of users, accounts, rows and  *)
(* request bodies.  First its invariant, and what a request may write; that *)
(* what a replay writes is a number follows from Bounded.  Then which       *)
(* number it is: a replay visits the live rows of an account in the order   *)
(* of their dates, each once; it reads new_balance at adjustment rows only, *)
(* and writes back there what it read; without adjustments it adds up the   *)
(* rows, in whatever order.                                                 *)
(***************************************************************************)
EXTENDS LedgerProps, FiniteSums, SequenceTheorems

\* new_balance is a column of the same table.
ColumnsAligned == Len(newBalance) = Len(txs)

\* The inductive invariant.  Ownership needs the links (an edit writes the other
\* leg of the row it checked), and the links need the types.
IInv == TypeOK /\ ColumnsAligned /\ OwnershipInv /\ LinkSymmetry

-----------------------------------------------------------------------------
(* Facts about the building blocks.                                         *)

\* The columns of a request body.
LEMMA InputFacts ==
    ASSUME TypeOK, NEW in \in Inputs
    PROVE  /\ in.account \in Accounts
           /\ in.target \in Accounts \cup {NoAccount}
           /\ in.amount \in Int
           /\ in.isIncome \in BOOLEAN /\ in.isTransfer \in BOOLEAN
           /\ in.isAdjustment \in BOOLEAN
           /\ DateOf(in) \in Int
           /\ TargetAmountOf(in) \in Int
  BY LedgerAssumption DEF TypeOK, InputType, DateOf, TargetAmountOf

\* An edit keeps the user, the link and the deletion mark of its row.
LEMMA EditedRow ==
    ASSUME TypeOK, NEW in \in Inputs, NEW id \in DOMAIN txs
    PROVE  /\ Edited(id, in) \in Row
           /\ Edited(id, in).user = txs[id].user
           /\ Edited(id, in).account = in.account
           /\ Edited(id, in).date = DateOf(in)
           /\ Edited(id, in).isTransfer = in.isTransfer
           /\ Edited(id, in).linked = txs[id].linked
           /\ Edited(id, in).deleted = txs[id].deleted
  <1>1. txs[id] \in Row
    BY LenProperties, ElementOfSeq DEF TypeOK
  <1>2. Edited(id, in) \in Row
    BY <1>1, InputFacts DEF Edited, Row
  <1>3. QED
    BY <1>1, <1>2 DEF Edited, Row

\* Storing well-formed rows and replaying keeps the types.
LEMMA ReplayTypes ==
    ASSUME TypeOK, NEW T \in Seq(Row), NEW N, NEW S, StoreAndReplay(T, N, S)
    PROVE  TypeOK' /\ ColumnsAligned' /\ txs' = T
  <1>1. txs' = T
    BY DEF StoreAndReplay
  <1>2. balance' \in [Accounts -> Int]
    BY LedgerAssumption DEF StoreAndReplay, Bounded
  <1>3. DOMAIN newBalance' = 1..Len(T) /\ \A i \in 1..Len(T) : newBalance'[i] \in Int
    BY LenProperties, LedgerAssumption DEF StoreAndReplay, Bounded
  <1>4. newBalance' \in [1..Len(T) -> Int]
    BY <1>3, LenProperties DEF StoreAndReplay
  <1>5. newBalance' \in Seq(Int) /\ Len(newBalance') = Len(T)
    BY <1>4, LenProperties, SeqDef
  <1>6. QED
    BY <1>1, <1>2, <1>5 DEF StoreAndReplay, TypeOK, ColumnsAligned

-----------------------------------------------------------------------------
(* The invariant as a statement about a table of rows.                      *)

OwnedRows(T) == \A i \in 1..Len(T) : Owner[T[i].account] = T[i].user

\* Row i is live and claims row j as its other leg.
Claims(T, i, j) == ~T[i].deleted /\ T[i].linked # NoTx /\ T[i].linked = j

PairedRows(T) ==
    \A i \in 1..Len(T), j \in Nat : Claims(T, i, j) =>
        /\ j \in 1..Len(T) /\ j # i
        /\ Claims(T, j, i)
        /\ T[i].isTransfer /\ T[j].isTransfer
        /\ T[j].date = T[i].date
        /\ T[j].user = T[i].user

\* What the invariant says of the stored rows.
LEMMA RowFacts ==
    ASSUME IInv
    PROVE  /\ txs \in Seq(Row) /\ Len(txs) \in Nat /\ DOMAIN txs = 1..Len(txs)
           /\ \A i \in 1..Len(txs) : txs[i] \in Row
           /\ OwnedRows(txs)
           /\ PairedRows(txs)
  <1>1. txs \in Seq(Row) /\ Len(txs) \in Nat /\ DOMAIN txs = 1..Len(txs)
    BY LenProperties DEF IInv, TypeOK
  <1>2. \A i \in 1..Len(txs) : txs[i] \in Row
    BY <1>1, ElementOfSeq
  <1>3. OwnedRows(txs)
    BY <1>1 DEF IInv, OwnershipInv, OwnedRows
  <1>4. ASSUME NEW i \in 1..Len(txs), NEW j \in Nat, Claims(txs, i, j)
        PROVE  /\ j \in 1..Len(txs) /\ j # i
               /\ Claims(txs, j, i)
               /\ txs[i].isTransfer /\ txs[j].isTransfer
               /\ txs[j].date = txs[i].date
               /\ txs[j].user = txs[i].user
    BY <1>1, <1>4 DEF IInv, LinkSymmetry, Claims, NoTx
  <1>5. QED
    BY <1>1, <1>2, <1>3, <1>4 DEF PairedRows

\* Rows that are well formed, owned and paired may become the table.
LEMMA TableStep ==
    ASSUME TypeOK', ColumnsAligned', OwnedRows(txs'), PairedRows(txs')
    PROVE  IInv'
  <1>0. txs' \in Seq(Row)
    BY DEF TypeOK
  <1>1. Len(txs') \in Nat /\ DOMAIN txs' = 1..Len(txs')
        /\ \A i \in 1..Len(txs') : txs'[i] \in Row
    BY <1>0, LenProperties, ElementOfSeq
  <1>2. OwnershipInv'
    BY <1>1 DEF OwnershipInv, OwnedRows
  <1>3. LinkSymmetry'
    BY <1>1 DEF LinkSymmetry, PairedRows, Claims, Row
  <1>4. QED
    BY <1>2, <1>3 DEF IInv

LEMMA ReplayStep ==
    ASSUME IInv, NEW T \in Seq(Row), NEW N, NEW S, StoreAndReplay(T, N, S),
           OwnedRows(T), PairedRows(T)
    PROVE  IInv'
  BY ReplayTypes, TableStep DEF IInv

-----------------------------------------------------------------------------
(* Each kind of step preserves the invariant.                               *)

\* An edit that follows no link: the row is in no pair, before or after.
LEMMA UpdateAloneStep ==
    ASSUME IInv, NEW u \in Users, NEW in \in Inputs, NEW id \in 1..Len(txs),
           UpdateAlone(u, id, in)
    PROVE  IInv'
  <1>1. DEFINE T == [txs EXCEPT ![id] = Edited(id, in)]
  <1>2. T \in Seq(Row) /\ Len(T) = Len(txs)
        /\ \A j \in 1..Len(txs) : T[j] = IF j = id THEN Edited(id, in) ELSE txs[j]
    BY EditedRow, RowFacts, ExceptSeq DEF IInv
  <1>3. txs[id].linked = NoTx
    BY RowFacts DEF UpdateAlone, UpdateGuard, MayEdit, HasLinked, PairedRows, Claims, Row, NoTx
  <1>4. OwnedRows(T)
    BY <1>2, RowFacts, EditedRow
       DEF IInv, UpdateAlone, UpdateGuard, MayUse, MayEdit, OwnedRows
  <1>5. PairedRows(T)
    BY <1>2, <1>3, RowFacts, EditedRow DEF IInv, PairedRows, Claims, NoTx
  <1>6. StoreAndReplay(T, newBalance, TouchedBy(id, in))
    BY DEF UpdateAlone
  <1>7. QED
    BY <1>2, <1>4, <1>5, <1>6, ReplayStep


\* Scenario 4 takes both legs out of the pair: one dies, the other is cut.
LEMMA UpdateUnlinkStep ==
    ASSUME IInv, NEW u \in Users, NEW in \in Inputs, NEW id \in 1..Len(txs),
           UpdateUnlink(u, id, in)
    PROVE  IInv'
  <1>1. DEFINE link == txs[id].linked
               row  == [Edited(id, in) EXCEPT !.linked = NoTx]
               cut  == [txs EXCEPT ![id] = row]
  <1>2. /\ row \in Row
        /\ row.user = txs[id].user /\ row.account = in.account /\ row.linked = NoTx
    <2>1. Edited(id, in) \in Row /\ Edited(id, in).user = txs[id].user
          /\ Edited(id, in).account = in.account
      BY EditedRow DEF IInv
    <2>2. row \in Row /\ row.user = Edited(id, in).user
          /\ row.account = Edited(id, in).account /\ row.linked = NoTx
      BY <2>1 DEF Row, NoTx
    <2>3. QED
      BY <2>1, <2>2
  <1> HIDE DEF row
  <1>3. cut \in Seq(Row) /\ Len(cut) = Len(txs)
        /\ \A j \in 1..Len(txs) : cut[j] = IF j = id THEN row ELSE txs[j]
    BY <1>2, RowFacts, ExceptSeq
  <1> HIDE DEF cut
  <1>4. ~txs[id].deleted /\ txs[id].user = u /\ Owner[in.account] = u
    BY DEF UpdateUnlink, UpdateGuard, MayEdit, MayUse
  <1>5. CASE HasLinked(txs[id])
    <2>1. Claims(txs, id, link) /\ link \in 1..Len(txs) /\ link # id /\ Claims(txs, link, id)
      BY <1>4, <1>5, RowFacts DEF HasLinked, Claims, PairedRows, Row
    <2>2. DEFINE dead == [cut[link] EXCEPT !.deleted = TRUE]
                 T    == [cut EXCEPT ![link].deleted = TRUE]
    <2>3. dead \in Row /\ dead.user = txs[link].user /\ dead.account = txs[link].account
          /\ dead.deleted
      BY <1>3, <2>1, RowFacts DEF Row
    <2>4. T = [cut EXCEPT ![link] = dead]
      BY <1>3, <2>1 DEF dead
    <2> HIDE DEF dead, T
    <2>5. T \in Seq(Row) /\ Len(T) = Len(txs)
          /\ \A j \in 1..Len(txs) : T[j] = IF j = link THEN dead ELSE cut[j]
      BY <1>3, <2>1, <2>3, <2>4, ExceptSeq
    <2>6. OwnedRows(T)
      BY <1>2, <1>3, <1>4, <2>1, <2>3, <2>5, RowFacts DEF OwnedRows
    <2>7. PairedRows(T)
      BY <1>2, <1>3, <2>1, <2>3, <2>5, RowFacts, SMTT(30) DEF PairedRows, Claims
    <2>8. StoreAndReplay(T, newBalance, TouchedBy(id, in) \cup {txs[link].account})
      BY <1>5 DEF UpdateUnlink, T, cut, row
    <2>9. QED
      BY <2>5, <2>6, <2>7, <2>8, ReplayStep
  <1>6. CASE ~HasLinked(txs[id])
    <2>1. txs[id].linked = NoTx
      BY <1>4, <1>6, RowFacts DEF UpdateUnlink, HasLinked, Claims, PairedRows, Row
    <2>2. OwnedRows(cut)
      BY <1>2, <1>3, <1>4, RowFacts DEF OwnedRows
    <2>3. PairedRows(cut)
      BY <1>2, <1>3, <2>1, RowFacts DEF PairedRows, Claims
    <2>4. StoreAndReplay(cut, newBalance, TouchedBy(id, in))
      BY <1>6 DEF UpdateUnlink, cut, row
    <2>5. QED
      BY <1>3, <2>2, <2>3, <2>4, ReplayStep
  <1>7. QED
    BY <1>5, <1>6

\* Scenarios 1-3 rewrite both legs together.
LEMMA UpdateTransferStep ==
    ASSUME IInv, NEW u \in Users, NEW in \in Inputs, NEW id \in 1..Len(txs),
           UpdateTransfer(u, id, in)
    PROVE  IInv'
  <1>1. DEFINE link   == txs[id].linked
               target == IF in.target # NoAccount THEN in.target ELSE txs[link].account
               mirror == [txs[link] EXCEPT !.account = target, !.amount = TargetAmountOf(in),
                                           !.date = DateOf(in), !.isIncome = TRUE,
                                           !.isTransfer = TRUE]
               half   == [txs EXCEPT ![link] = mirror]
               T      == [half EXCEPT ![id] = Edited(id, in)]
  <1>2. /\ ~txs[id].deleted /\ txs[id].user = u /\ Owner[in.account] = u
        /\ in.isTransfer /\ HasLinked(txs[id])
        /\ target \in Accounts /\ Owner[target] = u
    <2>1. UpdateGuard(u, id, in) /\ in.isTransfer /\ HasLinked(txs[id]) /\ MayUse(u, target)
      BY DEF UpdateTransfer
    <2> HIDE DEF target
    <2>2. QED
      BY <2>1 DEF UpdateGuard, MayEdit, MayUse
  <1>3. /\ Claims(txs, id, link) /\ link \in 1..Len(txs) /\ link # id
        /\ Claims(txs, link, id) /\ txs[link].user = txs[id].user
    <2>1. txs[id].linked \in Nat
      BY RowFacts DEF Row
    <2>2. Claims(txs, id, link)
      BY <1>2 DEF HasLinked, Claims
    <2>3. QED
      BY <2>1, <2>2, RowFacts DEF PairedRows
  <1>4. /\ mirror \in Row
        /\ mirror.user = txs[link].user /\ mirror.account = target
        /\ mirror.linked = id /\ ~mirror.deleted
        /\ mirror.date = DateOf(in) /\ mirror.isTransfer
    <2> HIDE DEF target
    <2>1. txs[link] \in Row /\ txs[link].linked = id /\ ~txs[link].deleted
      BY <1>3, RowFacts DEF Claims
    <2>2. mirror \in Row
      BY <1>2, <2>1, InputFacts DEF IInv, Row
    <2>3. QED
      BY <2>1, <2>2 DEF Row
  <1> HIDE DEF mirror
  <1>5. half \in Seq(Row) /\ Len(half) = Len(txs)
        /\ \A j \in 1..Len(txs) : half[j] = IF j = link THEN mirror ELSE txs[j]
    BY <1>3, <1>4, RowFacts, ExceptSeq
  <1> HIDE DEF half
  <1>6. T \in Seq(Row) /\ Len(T) = Len(txs)
        /\ \A j \in 1..Len(txs) : T[j] = IF j = id THEN Edited(id, in) ELSE half[j]
    BY <1>5, RowFacts, EditedRow, ExceptSeq DEF IInv
  <1>7. StoreAndReplay(T, newBalance, TouchedBy(id, in) \cup {target, txs[link].account})
    BY DEF UpdateTransfer, T, half, mirror
  <1> HIDE DEF T, target, link
  <1>8. OwnedRows(T)
    BY <1>2, <1>3, <1>4, <1>5, <1>6, RowFacts, EditedRow DEF IInv, OwnedRows
  <1>9. PairedRows(T)
    <2>1. SUFFICES ASSUME NEW i \in 1..Len(txs), NEW j \in Nat, Claims(T, i, j)
                   PROVE  /\ j \in 1..Len(txs) /\ j # i
                          /\ Claims(T, j, i)
                          /\ T[i].isTransfer /\ T[j].isTransfer
                          /\ T[j].date = T[i].date
                          /\ T[j].user = T[i].user
      BY <1>6 DEF PairedRows
    <2>2. /\ T[id].linked = link /\ ~T[id].deleted /\ T[id].isTransfer
          /\ T[id].date = DateOf(in) /\ T[id].user = u
      BY <1>2, <1>3, <1>6, EditedRow DEF IInv, Claims
    <2>3. /\ T[link].linked = id /\ ~T[link].deleted /\ T[link].isTransfer
          /\ T[link].date = DateOf(in) /\ T[link].user = u
      BY <1>2, <1>3, <1>4, <1>5, <1>6
    <2>4. link # NoTx /\ id # NoTx
      BY <1>3 DEF Claims
    <2>5. CASE i \in {id, link}
      BY <1>3, <2>1, <2>2, <2>3, <2>4, <2>5 DEF Claims
    <2>6. CASE i \notin {id, link}
      <3>1. Claims(txs, i, j) /\ T[i] = txs[i]
        BY <1>5, <1>6, <2>1, <2>6 DEF Claims
      <3>2. /\ j \in 1..Len(txs) /\ j # i /\ Claims(txs, j, i)
            /\ txs[i].isTransfer /\ txs[j].isTransfer
            /\ txs[j].date = txs[i].date /\ txs[j].user = txs[i].user
        BY <3>1, RowFacts DEF PairedRows
      <3>3. j \notin {id, link}
        BY <1>3, <2>6, <3>2 DEF Claims
      <3>4. T[j] = txs[j]
        BY <1>5, <1>6, <3>2, <3>3
      <3>5. QED
        BY <3>1, <3>2, <3>4 DEF Claims
    <2>7. QED
      BY <2>5, <2>6
  <1>10. QED
    BY <1>6, <1>7, <1>8, <1>9, ReplayStep

\* The row a request describes, and the leg that answers it.
LEMMA NewRows ==
    ASSUME TypeOK, NEW u \in Users, NEW in \in Inputs, NEW n \in Nat
    PROVE  /\ SourceRow(u, in) \in Row
           /\ [SourceRow(u, in) EXCEPT !.linked = n] \in Row
           /\ in.target \in Accounts => LinkedRow(u, in, n) \in Row
  BY InputFacts DEF SourceRow, LinkedRow, Row, NoTx

\* Scenario 5 pairs a row that is in no pair with a new one.
LEMMA UpdateLinkStep ==
    ASSUME IInv, NEW u \in Users, NEW in \in Inputs, NEW id \in 1..Len(txs),
           UpdateLink(u, id, in)
    PROVE  IInv'
  <1>1. DEFINE n      == Len(txs) + 1
               source == [Edited(id, in) EXCEPT !.linked = Len(txs) + 1]
               half   == [txs EXCEPT ![id] = source]
               leg    == LinkedRow(u, in, id)
               T      == Append(half, leg)
  <1>2. /\ ~txs[id].deleted /\ txs[id].user = u /\ Owner[in.account] = u
        /\ ~txs[id].isTransfer /\ in.isTransfer
        /\ in.target \in Accounts /\ Owner[in.target] = u
    BY DEF UpdateLink, UpdateGuard, MayEdit, MayUse, HasTarget
  <1>3. txs[id].linked = NoTx
    <2>1. txs[id].linked \in Nat
      BY RowFacts DEF Row
    <2>2. QED
      BY <1>2, <2>1, RowFacts DEF PairedRows, Claims
  <1>4. /\ source \in Row
        /\ source.user = u /\ source.account = in.account /\ source.date = DateOf(in)
        /\ source.isTransfer /\ source.linked = n /\ ~source.deleted
    <2>1. DEFINE e == Edited(id, in)
    <2>2. /\ e \in Row /\ e.user = u /\ e.account = in.account /\ e.date = DateOf(in)
          /\ e.isTransfer /\ ~e.deleted /\ n \in Nat
      BY <1>2, RowFacts, EditedRow DEF IInv
    <2> HIDE DEF e, n
    <2>3. source = [e EXCEPT !.linked = n]
      BY DEF e, n
    <2> HIDE DEF source
    <2>4. QED
      BY <2>2, <2>3 DEF Row
  <1>5. /\ leg \in Row
        /\ leg.user = u /\ leg.account = in.target /\ leg.date = DateOf(in)
        /\ leg.isTransfer /\ leg.linked = id /\ ~leg.deleted
    <2>1. id \in Nat
      BY RowFacts
    <2>2. leg \in Row
      BY <1>2, <2>1, NewRows DEF IInv
    <2>3. QED
      BY <2>2 DEF LinkedRow
  <1> HIDE DEF source, leg
  <1>6. half \in Seq(Row) /\ Len(half) = Len(txs)
        /\ \A j \in 1..Len(txs) : half[j] = IF j = id THEN source ELSE txs[j]
    BY <1>4, RowFacts, ExceptSeq
  <1> HIDE DEF half
  <1>7. T \in Seq(Row) /\ Len(T) = n
        /\ \A j \in 1..Len(txs) : T[j] = half[j]
        /\ T[n] = leg
    BY <1>5, <1>6, AppendProperties
  <1>8. StoreAndReplay(T, Append(newBalance, TargetBalance(in)),
                       TouchedBy(id, in) \cup {in.target})
    BY DEF UpdateLink, T, half, source, leg
  <1> HIDE DEF T
  <1>9. OwnedRows(T)
    <2>1. \A i \in 1..n : i \in 1..Len(txs) \/ i = n
      BY RowFacts
    <2>2. \A i \in 1..Len(txs) : Owner[txs[i].account] = txs[i].user
      BY RowFacts DEF OwnedRows
    <2>3. Owner[source.account] = source.user /\ Owner[leg.account] = leg.user
      BY <1>2, <1>4, <1>5
    <2> HIDE DEF n
    <2>4. \A i \in 1..n : Owner[T[i].account] = T[i].user
      BY <1>6, <1>7, <2>1, <2>2, <2>3
    <2>5. QED
      BY <1>7, <2>4 DEF OwnedRows
  <1>10. PairedRows(T)
    <2>1. SUFFICES ASSUME NEW i \in 1..n, NEW j \in Nat, Claims(T, i, j)
                   PROVE  /\ j \in 1..n /\ j # i
                          /\ Claims(T, j, i)
                          /\ T[i].isTransfer /\ T[j].isTransfer
                          /\ T[j].date = T[i].date
                          /\ T[j].user = T[i].user
      BY <1>7 DEF PairedRows
    <2>2. n \in Nat /\ id \in 1..n /\ id # n /\ n \notin 1..Len(txs)
          /\ T[id] = source /\ T[n] = leg
          /\ \A k \in 1..n : k # id /\ k # n => k \in 1..Len(txs) /\ T[k] = txs[k]
      BY <1>6, <1>7, RowFacts
    <2> HIDE DEF n
    <2>3. CASE i \in {id, n}
      BY <1>4, <1>5, <2>1, <2>2, <2>3 DEF Claims, NoTx
    <2>4. CASE i \notin {id, n}
      <3>1. Claims(txs, i, j) /\ i \in 1..Len(txs)
        BY <2>1, <2>2, <2>4 DEF Claims
      <3>2. j \in 1..Len(txs) /\ j # i /\ Claims(txs, j, i) /\ j # id
            /\ txs[i].isTransfer /\ txs[j].isTransfer
            /\ txs[j].date = txs[i].date /\ txs[j].user = txs[i].user
        BY <1>3, <3>1, RowFacts DEF PairedRows, Claims
      <3>3. j \in 1..n /\ j # n
        BY <2>2, <3>2, RowFacts DEF n
      <3>4. QED
        BY <2>2, <2>4, <3>2, <3>3 DEF Claims
    <2>5. QED
      BY <2>3, <2>4
  <1>11. QED
    BY <1>7, <1>8, <1>9, <1>10, ReplayStep

\* Deleting a row deletes the row that claims it.
LEMMA DeleteStep ==
    ASSUME IInv, NEW u \in Users, NEW id \in 1..Len(txs), DeleteTransaction(u, id)
    PROVE  IInv'
  <1>1. DEFINE dead(i) == [txs[i] EXCEPT !.deleted = TRUE]
               T == [i \in DOMAIN txs |-> IF i \in DeletedWith(id)
                                          THEN dead(i) ELSE txs[i]]
  <1>2. \A i \in 1..Len(txs) :
           /\ dead(i) \in Row /\ dead(i).deleted
           /\ dead(i).user = txs[i].user /\ dead(i).account = txs[i].account
    BY RowFacts DEF Row
  <1> HIDE DEF dead
  <1>3. T \in [1..Len(txs) -> Row]
    BY <1>2, RowFacts
  <1>4. T \in Seq(Row) /\ Len(T) = Len(txs)
    BY <1>3, RowFacts, SeqDef, LenProperties
  <1>5. \A j \in 1..Len(txs) : T[j] = IF j \in DeletedWith(id) THEN dead(j) ELSE txs[j]
    BY RowFacts
  <1>6. \E S : StoreAndReplay(T, newBalance, S)
    BY DEF DeleteTransaction, T, dead
  <1> HIDE DEF T
  <1>7. OwnedRows(T)
    BY <1>2, <1>4, <1>5, RowFacts DEF OwnedRows
  <1>8. \A i, j \in 1..Len(txs) : Claims(txs, i, j) /\ j \in DeletedWith(id)
                                   => i \in DeletedWith(id)
    BY RowFacts DEF Claims, PairedRows, DeletedWith, DeleteTransaction, MayEdit
  <1>9. PairedRows(T)
    BY <1>2, <1>4, <1>5, <1>8, RowFacts DEF PairedRows, Claims
  <1>10. QED
    BY <1>4, <1>6, <1>7, <1>9, ReplayStep

\* Rows without a link may be appended.
LEMMA AppendStep ==
    ASSUME IInv, NEW R \in Seq(Row), NEW B \in Seq(Int), Len(R) = Len(B),
           txs' = txs \o R, newBalance' = newBalance \o B,
           \A k \in 1..Len(R) : R[k].linked = NoTx /\ Owner[R[k].account] = R[k].user,
           balance' \in [Accounts -> Int], UNCHANGED <<acct, initial, now>>
    PROVE  IInv'
  <1>1. /\ txs' \in Seq(Row) /\ Len(txs') = Len(txs) + Len(R)
        /\ \A i \in 1..Len(txs) + Len(R) :
              txs'[i] = IF i <= Len(txs) THEN txs[i] ELSE R[i - Len(txs)]
    <2>1. txs \in Seq(Row)
      BY RowFacts
    <2>2. /\ txs \o R \in Seq(Row) /\ Len(txs \o R) = Len(txs) + Len(R)
          /\ \A i \in 1..Len(txs) + Len(R) :
                (txs \o R)[i] = IF i <= Len(txs) THEN txs[i] ELSE R[i - Len(txs)]
      BY <2>1, ConcatProperties
    <2>3. QED
      BY <2>2
  <1>2. newBalance' \in Seq(Int) /\ Len(newBalance') = Len(txs) + Len(R)
    <2>1. newBalance \in Seq(Int) /\ Len(newBalance) = Len(txs)
      BY DEF IInv, TypeOK, ColumnsAligned
    <2>2. newBalance \o B \in Seq(Int) /\ Len(newBalance \o B) = Len(newBalance) + Len(B)
      BY <2>1, ConcatProperties
    <2>3. QED
      BY <2>1, <2>2
  <1>3. TypeOK' /\ ColumnsAligned'
    BY <1>1, <1>2 DEF IInv, TypeOK, ColumnsAligned
  <1>4. Len(txs) \in Nat /\ Len(R) \in Nat
    BY RowFacts, LenProperties
  <1>5. \A i \in 1..Len(txs') :
           \/ i \in 1..Len(txs) /\ txs'[i] = txs[i]
           \/ txs'[i].linked = NoTx /\ Owner[txs'[i].account] = txs'[i].user
    <2>1. TAKE i \in 1..Len(txs')
    <2>2. CASE i <= Len(txs)
      BY <1>1, <1>4, <2>2
    <2>3. CASE ~(i <= Len(txs))
      <3>1. i - Len(txs) \in 1..Len(R) /\ txs'[i] = R[i - Len(txs)]
        BY <1>1, <1>4, <2>3
      <3>2. QED
        BY <3>1
    <2>4. QED
      BY <2>2, <2>3
  <1>6. OwnedRows(txs')
    BY <1>5, RowFacts DEF OwnedRows
  <1>7. PairedRows(txs')
    <2>1. SUFFICES ASSUME NEW i \in 1..Len(txs'), NEW j \in Nat, Claims(txs', i, j)
                   PROVE  /\ j \in 1..Len(txs') /\ j # i
                          /\ Claims(txs', j, i)
                          /\ txs'[i].isTransfer /\ txs'[j].isTransfer
                          /\ txs'[j].date = txs'[i].date
                          /\ txs'[j].user = txs'[i].user
      BY DEF PairedRows
    <2>2. i \in 1..Len(txs) /\ txs'[i] = txs[i] /\ Claims(txs, i, j)
      BY <1>5, <2>1 DEF Claims
    <2>3. /\ j \in 1..Len(txs) /\ j # i
          /\ Claims(txs, j, i)
          /\ txs[i].isTransfer /\ txs[j].isTransfer
          /\ txs[j].date = txs[i].date
          /\ txs[j].user = txs[i].user
      BY <2>2, RowFacts DEF PairedRows
    <2>4. j \in 1..Len(txs') /\ txs'[j] = txs[j]
      BY <1>1, <1>4, <2>3
    <2>5. QED
      BY <2>2, <2>3, <2>4 DEF Claims
  <1>8. QED
    BY <1>3, <1>6, <1>7, TableStep

\* A row, alone or with the leg it is paired with, is created.
LEMMA CreateStep ==
    ASSUME IInv, NEW u \in Users, NEW in \in Inputs, CreateTransaction(u, in)
    PROVE  IInv'
  <1>1. DEFINE row == SourceRow(u, in)
               b   == SourceBalance(u, in)
               c   == TargetBalance(in)
  <1>2. /\ in.account \in Accounts /\ Owner[in.account] = u
        /\ UNCHANGED <<acct, initial, now>>
    BY DEF CreateTransaction, MayUse
  <1>3. row \in Row /\ row.user = u /\ row.account = in.account /\ row.linked = NoTx
    <2>1. 0 \in Nat
      OBVIOUS
    <2>2. row \in Row
      BY <2>1, NewRows DEF IInv
    <2>3. QED
      BY <2>2 DEF SourceRow
  <1>4. b \in Int
    BY <1>2, InputFacts DEF IInv, TypeOK, SourceBalance, SourceRow, Apply
  <1>5. CASE ~HasTarget(in)
    <2>1. /\ txs' = Append(txs, row) /\ newBalance' = Append(newBalance, b)
          /\ balance' = [balance EXCEPT ![in.account] = b]
      BY <1>5 DEF CreateTransaction
    <2> HIDE DEF row, b
    <2>2. txs' = txs \o <<row>> /\ newBalance' = newBalance \o <<b>>
      BY <1>3, <1>4, <2>1, AppendIsConcat, RowFacts DEF IInv, TypeOK
    <2>3. balance' \in [Accounts -> Int]
      BY <1>2, <1>4, <2>1 DEF IInv, TypeOK
    <2>4. <<row>> \in Seq(Row) /\ <<b>> \in Seq(Int)
          /\ Len(<<row>>) = 1 /\ Len(<<b>>) = 1 /\ <<row>>[1] = row
      BY <1>3, <1>4
    <2>5. \A k \in 1..Len(<<row>>) : /\ <<row>>[k].linked = NoTx
                                     /\ Owner[<<row>>[k].account] = <<row>>[k].user
      BY <1>2, <1>3, <2>4
    <2>6. QED
      BY <1>2, <2>2, <2>3, <2>4, <2>5, AppendStep
  <1>6. CASE HasTarget(in)
    <2>1. DEFINE n      == Len(txs)
                 source == [row EXCEPT !.linked = Len(txs) + 1 + 1]
                 leg    == LinkedRow(u, in, Len(txs) + 1)
                 R      == <<source, leg>>
                 B      == <<b, c>>
    <2>2. /\ txs' = txs \o R /\ newBalance' = newBalance \o B
          /\ balance' = [balance EXCEPT ![in.account] = b, ![in.target] = c]
          /\ in.target \in Accounts /\ Owner[in.target] = u /\ in.isTransfer
      BY <1>6 DEF CreateTransaction, MayUse, HasTarget
    <2>3. n \in Nat /\ n + 1 \in Nat /\ n + 2 \in Nat /\ Len(txs) + 1 + 1 = n + 2
      BY RowFacts
    <2>4. /\ source \in Row /\ source.user = u /\ source.account = in.account
          /\ source.linked = n + 2 /\ source.isTransfer /\ source.date = DateOf(in)
          /\ ~source.deleted
      <3>1. row \in Row /\ row.isTransfer /\ row.date = DateOf(in) /\ ~row.deleted
        BY <1>3, <2>2 DEF SourceRow
      <3>2. source = [row EXCEPT !.linked = n + 2]
        BY <2>3
      <3> HIDE DEF row, source, n
      <3>3. QED
        BY <1>3, <2>3, <3>1, <3>2 DEF Row
    <2>5. /\ leg \in Row /\ leg.user = u /\ leg.account = in.target
          /\ leg.linked = n + 1 /\ leg.isTransfer /\ leg.date = DateOf(in)
          /\ ~leg.deleted
      <3>1. leg \in Row
        BY <2>2, <2>3, NewRows DEF IInv
      <3>2. QED
        BY <3>1 DEF LinkedRow
    <2>6. c \in Int
      BY <2>2, InputFacts DEF IInv, TypeOK, TargetBalance
    <2> HIDE DEF row, b, c, source, leg
    <2>7. R \in Seq(Row) /\ Len(R) = 2 /\ R[1] = source /\ R[2] = leg
          /\ B \in Seq(Int) /\ Len(B) = 2
      BY <1>4, <2>4, <2>5, <2>6
    <2> HIDE DEF R, B
    <2>8. /\ txs' \in Seq(Row) /\ Len(txs') = n + 2
          /\ \A i \in 1..n : txs'[i] = txs[i]
          /\ txs'[n + 1] = source /\ txs'[n + 2] = leg
      <3>1. /\ txs \o R \in Seq(Row) /\ Len(txs \o R) = Len(txs) + Len(R)
            /\ \A i \in 1..Len(txs) + Len(R) :
                  (txs \o R)[i] = IF i <= Len(txs) THEN txs[i] ELSE R[i - Len(txs)]
        BY <2>7, RowFacts, ConcatProperties
      <3>2. QED
        BY <2>2, <2>3, <2>7, <3>1
    <2>9. newBalance' \in Seq(Int) /\ Len(newBalance') = n + 2
      <3>1. newBalance \in Seq(Int) /\ Len(newBalance) = Len(txs)
        BY DEF IInv, TypeOK, ColumnsAligned
      <3>2. newBalance \o B \in Seq(Int) /\ Len(newBalance \o B) = Len(newBalance) + Len(B)
        BY <2>7, <3>1, ConcatProperties
      <3>3. QED
        BY <2>2, <2>7, <3>1, <3>2
    <2>10. balance' \in [Accounts -> Int]
      BY <1>2, <1>4, <2>2, <2>6 DEF IInv, TypeOK
    <2>11. TypeOK' /\ ColumnsAligned'
      BY <1>2, <2>8, <2>9, <2>10 DEF IInv, TypeOK, ColumnsAligned
    <2>12. OwnedRows(txs')
      <3>1. \A i \in 1..n + 2 : i \in 1..n \/ i = n + 1 \/ i = n + 2
        BY <2>3
      <3>2. \A i \in 1..n : Owner[txs[i].account] = txs[i].user
        BY RowFacts DEF OwnedRows
      <3>3. Owner[source.account] = source.user /\ Owner[leg.account] = leg.user
        BY <1>2, <2>2, <2>4, <2>5
      <3>4. \A i \in 1..n + 2 : Owner[txs'[i].account] = txs'[i].user
        <4> HIDE DEF n
        <4>1. QED
          BY <2>8, <3>1, <3>2, <3>3
      <3>5. QED
        BY <2>8, <3>4 DEF OwnedRows
    <2>13. PairedRows(txs')
      BY <2>3, <2>4, <2>5, <2>8, RowFacts DEF PairedRows, Claims, NoTx
    <2>14. QED
      BY <2>11, <2>12, <2>13, TableStep
  <1>7. QED
    BY <1>5, <1>6

\* Both a manual adjustment and a compensating row stand alone.
LEMMA AdjustmentRowFacts ==
    ASSUME TypeOK, NEW a \in Accounts, NEW from, NEW to,
           AdjustmentRow(a, from, to).amount \in Int
    PROVE  /\ AdjustmentRow(a, from, to) \in Row
           /\ AdjustmentRow(a, from, to).linked = NoTx
           /\ AdjustmentRow(a, from, to).account = a
           /\ AdjustmentRow(a, from, to).user = Owner[a]
  <1>1. (to > from) \in BOOLEAN /\ Owner[a] \in Users
    BY LedgerAssumption
  <1>2. QED
    BY <1>1 DEF AdjustmentRow, Row, TypeOK, NoTx

LEMMA AdjustStep ==
    ASSUME IInv, NEW u \in Users, NEW a \in Accounts, NEW b \in Balances,
           AdjustBalance(u, a, b)
    PROVE  IInv'
  <1>1. DEFINE row == AdjustmentRow(a, balance[a], b)
  <1>2. b \in Int /\ balance[a] \in Int
    BY LedgerAssumption DEF IInv, TypeOK
  <1>3. row.amount \in Int
    BY <1>2 DEF AdjustmentRow
  <1>4. row \in Row /\ row.linked = NoTx /\ row.account = a /\ row.user = Owner[a]
    BY <1>3, AdjustmentRowFacts DEF IInv
  <1>5. /\ txs' = Append(txs, row) /\ newBalance' = Append(newBalance, b)
        /\ balance' = [balance EXCEPT ![a] = b] /\ UNCHANGED <<acct, initial, now>>
    BY DEF AdjustBalance
  <1> HIDE DEF row
  <1>6. txs' = txs \o <<row>> /\ newBalance' = newBalance \o <<b>>
    BY <1>2, <1>4, <1>5, AppendIsConcat, RowFacts DEF IInv, TypeOK
  <1>7. balance' \in [Accounts -> Int]
    BY <1>2, <1>5 DEF IInv, TypeOK
  <1>8. <<row>> \in Seq(Row) /\ <<b>> \in Seq(Int)
        /\ Len(<<row>>) = 1 /\ Len(<<b>>) = 1 /\ <<row>>[1] = row
    BY <1>2, <1>4
  <1>9. \A k \in 1..Len(<<row>>) : /\ <<row>>[k].linked = NoTx
                                   /\ Owner[<<row>>[k].account] = <<row>>[k].user
    BY <1>4, <1>8
  <1>10. QED
    BY <1>5, <1>6, <1>7, <1>8, <1>9, AppendStep

LEMMA ReconcileStep ==
    ASSUME IInv, NEW uid, NEW aid, Reconcile(uid, aid)
    PROVE  IInv'
  <1>1. DEFINE D == DetectDivergences(LoadAccounts(uid, aid))
               n == Cardinality(D)
               recalc(a) == RecalculateFromTransactions(txs, newBalance, a)
  <1>2. D \subseteq Accounts /\ n \in Nat
    BY LedgerAssumption, FS_Subset, FS_CardinalityType DEF DetectDivergences, LoadAccounts
  <1>3. PICK order \in [1..n -> D] :
          /\ txs' = txs \o [k \in 1..n |-> AdjustmentRow(order[k], recalc(order[k]),
                                                         balance[order[k]])]
          /\ newBalance' = newBalance \o [k \in 1..n |-> balance[order[k]]]
    BY DEF Reconcile
  <1>4. UNCHANGED <<acct, initial, balance, now>> /\ Bounded'
    BY DEF Reconcile
  <1>5. DEFINE row(k) == AdjustmentRow(order[k], recalc(order[k]), balance[order[k]])
               R == [k \in 1..n |-> row(k)]
               B == [k \in 1..n |-> balance[order[k]]]
               Rows == Row \cup {row(k) : k \in 1..n}
  <1> HIDE DEF D, n, recalc
  <1>6. \A k \in 1..n : order[k] \in Accounts
    BY <1>2
  <1>7. B \in Seq(Int) /\ Len(B) = n
    <2>1. B \in [1..n -> Int]
      BY <1>6 DEF IInv, TypeOK
    <2>2. QED
      BY <2>1, <1>2, SeqDef, LenProperties
  <1> HIDE DEF row
  <1>8. R \in Seq(Rows) /\ Len(R) = n /\ \A k \in 1..n : R[k] = row(k)
    <2>1. R \in [1..n -> Rows]
      OBVIOUS
    <2>2. QED
      BY <2>1, <1>2, SeqDef, LenProperties
  <1>9. txs' = txs \o R
    BY <1>3 DEF row
  <1> HIDE DEF R, Rows
  <1>10. \A k \in 1..n : row(k).amount \in Int
    <2>1. txs \in Seq(Rows)
      BY RowFacts, SeqMonotonic DEF Rows
    <2>2. /\ txs \o R \in Seq(Rows) /\ Len(txs \o R) = Len(txs) + Len(R)
          /\ \A i \in 1..Len(txs) + Len(R) :
                (txs \o R)[i] = IF i <= Len(txs) THEN txs[i] ELSE R[i - Len(txs)]
      BY <1>8, <2>1, ConcatProperties
    <2>3. DOMAIN (txs \o R) = 1..Len(txs) + n
      BY <1>8, <2>2, LenProperties
    <2>4. TAKE k \in 1..n
    <2>5. Len(txs) + k \in DOMAIN txs' /\ txs'[Len(txs) + k] = row(k)
      BY <1>2, <1>8, <1>9, <2>2, <2>3, RowFacts
    <2>6. QED
      BY <1>4, <2>5, LedgerAssumption DEF Bounded
  <1>11. \A k \in 1..n : /\ row(k) \in Row /\ row(k).linked = NoTx
                         /\ Owner[row(k).account] = row(k).user
    BY <1>6, <1>10, AdjustmentRowFacts DEF IInv, row
  <1>12. R \in Seq(Row)
    <2>1. R \in [1..n -> Row]
      BY <1>8, <1>11 DEF R
    <2>2. QED
      BY <2>1, <1>2, SeqDef
  <1>13. balance' \in [Accounts -> Int]
    BY <1>4 DEF IInv, TypeOK
  <1>14. newBalance' = newBalance \o B
    BY <1>3
  <1> HIDE DEF B
  <1>15. QED
    BY <1>4, <1>7, <1>8, <1>9, <1>11, <1>12, <1>13, <1>14, AppendStep

-----------------------------------------------------------------------------
(* The theorems.                                                            *)

LEMMA InitIInv == Init => IInv
  <1> SUFFICES ASSUME Init PROVE IInv
    OBVIOUS
  <1>2. txs = << >> /\ newBalance = << >>
    BY DEF Init
  <1>3. txs \in Seq(Row) /\ newBalance \in Seq(Int) /\ Len(txs) = 0 /\ Len(newBalance) = 0
        /\ DOMAIN txs = {}
    BY <1>2, EmptySeq
  <1>4. TypeOK /\ ColumnsAligned
    BY <1>3 DEF Init, TypeOK, AccountState, ColumnsAligned
  <1>5. QED
    BY <1>3, <1>4 DEF IInv, OwnershipInv, LinkSymmetry

\* Steps that leave the table of transactions alone.
LEMMA OtherStep ==
    ASSUME IInv, TypeOK', UNCHANGED <<txs, newBalance>>
    PROVE  IInv'
  BY DEF IInv, ColumnsAligned, OwnershipInv, LinkSymmetry

LEMMA AccountStep ==
    ASSUME IInv, NEW u \in Users, AccountRequest(u)
    PROVE  IInv'
  <1>1. PICK a \in Accounts :
          \/ \E b, i \in Balances : CreateAccount(u, a, b, i)
          \/ \E i \in Balances : UpdateAccount(u, a, i)
          \/ DeleteAccount(u, a)
          \/ \E flag \in ArchiveFlags : SetArchiveStatus(u, a, flag)
          \/ \E b \in Balances : AdjustBalance(u, a, b)
    BY DEF AccountRequest
  <1>2. acct[a] \in AccountState /\ TypeOK
    BY DEF IInv, TypeOK
  <1>3. CASE \E b, i \in Balances : CreateAccount(u, a, b, i)
    <2>1. TypeOK'
      <3>1. PICK b \in Balances, i \in Balances : CreateAccount(u, a, b, i)
        BY <1>3
      <3>2. b \in Int /\ i \in Int
        BY LedgerAssumption
      <3>3. [acct[a] EXCEPT !.opened = TRUE] \in AccountState
        BY <1>2 DEF AccountState
      <3>4. QED
        BY <1>2, <3>1, <3>2, <3>3 DEF CreateAccount, TypeOK
    <2>2. QED
      BY <1>3, <2>1, OtherStep DEF CreateAccount
  <1>4. CASE \E i \in Balances : UpdateAccount(u, a, i)
    <2>1. TypeOK'
      BY <1>2, <1>4, LedgerAssumption DEF UpdateAccount, TypeOK
    <2>2. QED
      BY <1>4, <2>1, OtherStep DEF UpdateAccount
  <1>5. CASE DeleteAccount(u, a)
    <2>1. TypeOK'
      BY <1>2, <1>5 DEF DeleteAccount, TypeOK, AccountState
    <2>2. QED
      BY <1>5, <2>1, OtherStep DEF DeleteAccount
  <1>6. CASE \E flag \in ArchiveFlags : SetArchiveStatus(u, a, flag)
    <2>1. TypeOK'
      <3>1. PICK flag \in ArchiveFlags : SetArchiveStatus(u, a, flag)
        BY <1>6
      <3>2. flag \in BOOLEAN
        BY LedgerAssumption
      <3>3. [acct[a] EXCEPT !.archived = flag] \in AccountState
        BY <1>2, <3>2 DEF AccountState
      <3>4. QED
        BY <1>2, <3>1, <3>3 DEF SetArchiveStatus, TypeOK
    <2>2. QED
      BY <1>6, <2>1, OtherStep DEF SetArchiveStatus
  <1>7. CASE \E b \in Balances : AdjustBalance(u, a, b)
    BY <1>7, AdjustStep
  <1>8. QED
    BY <1>1, <1>3, <1>4, <1>5, <1>6, <1>7

LEMMA TransactionStep ==
    ASSUME IInv, NEW u \in Users, TransactionRequest(u)
    PROVE  IInv'
  <1>1. CASE \E in \in Inputs : CreateTransaction(u, in)
    BY <1>1, CreateStep
  <1>2. CASE \E id \in DOMAIN txs, in \in Inputs : UpdateTransaction(u, id, in)
    BY <1>2, RowFacts, UpdateAloneStep, UpdateUnlinkStep, UpdateTransferStep, UpdateLinkStep
       DEF UpdateTransaction
  <1>3. CASE \E id \in DOMAIN txs : DeleteTransaction(u, id)
    BY <1>3, RowFacts, DeleteStep
  <1>4. QED
    BY <1>1, <1>2, <1>3 DEF TransactionRequest

LEMMA NextIInv == IInv /\ [Next]_vars => IInv'
  <1> SUFFICES ASSUME IInv, [Next]_vars PROVE IInv'
    OBVIOUS
  <1>2. CASE \E u \in Users : AccountRequest(u) \/ TransactionRequest(u)
    BY <1>2, AccountStep, TransactionStep
  <1>3. CASE RunCLI
    BY <1>3, ReconcileStep DEF RunCLI
  <1>4. CASE Tick
    <2>1. TypeOK'
      BY <1>4 DEF Tick, IInv, TypeOK
    <2>2. QED
      BY <1>4, <2>1, OtherStep DEF Tick
  <1>5. CASE UNCHANGED vars
    <2>1. TypeOK'
      BY <1>5 DEF vars, IInv, TypeOK
    <2>2. QED
      BY <1>5, <2>1, OtherStep DEF vars
  <1>6. QED
    BY <1>2, <1>3, <1>4, <1>5 DEF Next

\* The inductive invariant holds in every reachable state, for any constants.
THEOREM LedgerInvariant == Spec => []IInv
  BY InitIInv, NextIInv, PTL DEF Spec

\* Types: with the bounds on amounts, every column keeps its type.
THEOREM LedgerTypeCorrect == Spec => []TypeOK
  BY LedgerInvariant, PTL DEF IInv

\* Whatever sequence of requests, a row sits on an account of its user.
THEOREM LedgerOwnership == Spec => []OwnershipInv
  BY LedgerInvariant, PTL DEF IInv

\* The two legs of every live transfer stay paired.
THEOREM LedgerLinkSymmetry == Spec => []LinkSymmetry
  BY LedgerInvariant, PTL DEF IInv

-----------------------------------------------------------------------------
(* What a request may write: live rows and money of the user who sent it,   *)
(* although an edit follows links to rows nobody checked and replays their  *)
(* accounts.                                                                *)


\* The rows a step writes are live rows of user u.
WritesRowsOf(u) ==
    \A i \in DOMAIN txs : WritesRow(i) => txs[i].user = u /\ ~txs[i].deleted

\* The money a step writes is on accounts of user u.
WritesMoneyOnly(u) == \A a \in Accounts : WritesMoneyOf(a) => Owner[a] = u

\* A step of user u that writes nothing it must not.
WritesOwn(u) == WritesRowsOf(u) /\ WritesMoneyOnly(u)

KeepsRows == \A i \in DOMAIN txs : ~WritesRow(i)

\* The table T edits rows of user u that are live.
EditsOwn(u, T) ==
    \A i \in 1..Len(txs) :
        /\ i \in DOMAIN T
        /\ T[i].user = txs[i].user
        /\ T[i] # txs[i] => txs[i].user = u /\ ~txs[i].deleted

OwnAccounts(u, S) == \A a \in S : Owner[a] = u

-----------------------------------------------------------------------------
(* What storing, replaying and appending write.                             *)

\* A replay writes rows of the accounts it is about, and those are of one user.
LEMMA ReplayWritesOwn ==
    ASSUME IInv, IInv', NEW u \in Users, NEW T, NEW N, NEW S, StoreAndReplay(T, N, S),
           EditsOwn(u, T), OwnAccounts(u, S),
           \A i \in 1..Len(txs) : N[i] = newBalance[i]
    PROVE  WritesOwn(u)
  <1>1. txs' = T /\ UNCHANGED initial
    BY DEF StoreAndReplay
  <1>2. ASSUME NEW i \in 1..Len(txs), WritesRow(i)
        PROVE  txs[i].user = u /\ ~txs[i].deleted
    <2>1. i \in DOMAIN T /\ T[i].user = txs[i].user
          /\ (T[i] # txs[i] => txs[i].user = u /\ ~txs[i].deleted)
      BY DEF EditsOwn
    <2>2. CASE T[i] = txs[i]
      <3>1. newBalance'[i] # newBalance[i]
        BY <1>1, <1>2, <2>2 DEF WritesRow
      <3>2. T[i].account \in S /\ ~T[i].deleted
        BY <2>1, <3>1 DEF StoreAndReplay
      <3>3. Owner[T[i].account] = T[i].user
        BY <2>2, RowFacts DEF OwnedRows
      <3>4. QED
        BY <2>1, <2>2, <3>2, <3>3 DEF OwnAccounts
    <2>3. QED
      BY <2>1, <2>2
  <1>3. ASSUME NEW a \in Accounts, WritesMoneyOf(a)
        PROVE  Owner[a] = u
    BY <1>1, <1>3 DEF WritesMoneyOf, StoreAndReplay, OwnAccounts
  <1>4. QED
    BY <1>2, <1>3, RowFacts DEF WritesOwn, WritesRowsOf, WritesMoneyOnly

\* Appending changes nothing that was there.
LEMMA AppendKeeps ==
    ASSUME NEW X, NEW s \in Seq(X), NEW Y, NEW r \in Seq(Y)
    PROVE  \A i \in 1..Len(s) : (s \o r)[i] = s[i]
  <1>1. s \in Seq(X \cup Y) /\ r \in Seq(X \cup Y)
    BY SeqMonotonic
  <1>2. QED
    BY <1>1, ConcatProperties, LenProperties

LEMMA OneMoreKeeps ==
    ASSUME NEW X, NEW s \in Seq(X), NEW e
    PROVE  \A i \in 1..Len(s) : Append(s, e)[i] = s[i]
  <1>1. s \in Seq(X \cup {e}) /\ e \in X \cup {e}
    BY SeqMonotonic
  <1>2. QED
    BY <1>1, AppendProperties

\* The stored columns as sequences.
LEMMA Columns ==
    ASSUME IInv
    PROVE  /\ txs \in Seq(Row) /\ newBalance \in Seq(Int)
           /\ DOMAIN txs = 1..Len(txs) /\ Len(newBalance) = Len(txs)
  BY RowFacts DEF IInv, TypeOK, ColumnsAligned

LEMMA AppendedRows ==
    ASSUME IInv, NEW Y, NEW R \in Seq(Y), NEW Z, NEW B \in Seq(Z),
           txs' = txs \o R, newBalance' = newBalance \o B
    PROVE  KeepsRows
  BY Columns, AppendKeeps DEF KeepsRows, WritesRow

LEMMA AppendedRow ==
    ASSUME IInv, NEW row, NEW b, txs' = Append(txs, row), newBalance' = Append(newBalance, b)
    PROVE  KeepsRows
  BY Columns, OneMoreKeeps DEF KeepsRows, WritesRow

-----------------------------------------------------------------------------
(* Each edit writes rows and accounts of the user who asked for it.         *)

\* The row an edit names and the accounts every edit replays are the user's.
LEMMA GuardFacts ==
    ASSUME IInv, NEW u \in Users, NEW in \in Inputs, NEW id \in 1..Len(txs),
           UpdateGuard(u, id, in)
    PROVE  /\ ~txs[id].deleted /\ txs[id].user = u
           /\ OwnAccounts(u, TouchedBy(id, in))
           /\ Edited(id, in).user = u
  BY RowFacts, EditedRow DEF IInv, UpdateGuard, MayEdit, MayUse, OwnedRows, OwnAccounts, TouchedBy

\* So is the other leg, though nobody has checked it.
LEMMA LinkFacts ==
    ASSUME IInv, NEW u \in Users, NEW id \in 1..Len(txs), MayEdit(u, id), HasLinked(txs[id])
    PROVE  /\ txs[id].linked \in 1..Len(txs) /\ txs[id].linked # id
           /\ ~txs[txs[id].linked].deleted /\ txs[txs[id].linked].user = u
           /\ Owner[txs[txs[id].linked].account] = u
  <1>1. txs[id].linked \in Nat /\ Claims(txs, id, txs[id].linked) /\ txs[id].user = u
    BY RowFacts DEF Row, MayEdit, HasLinked, Claims
  <1>2. QED
    BY <1>1, RowFacts DEF PairedRows, OwnedRows, Claims

LEMMA UpdateAloneWrites ==
    ASSUME IInv, IInv', NEW u \in Users, NEW in \in Inputs, NEW id \in 1..Len(txs),
           UpdateAlone(u, id, in)
    PROVE  WritesOwn(u)
  <1>1. DEFINE T == [txs EXCEPT ![id] = Edited(id, in)]
  <1>2. StoreAndReplay(T, newBalance, TouchedBy(id, in)) /\ UpdateGuard(u, id, in)
    BY DEF UpdateAlone
  <1>3. EditsOwn(u, T)
    BY <1>2, RowFacts, GuardFacts DEF EditsOwn
  <1> HIDE DEF T
  <1>4. QED
    BY <1>2, <1>3, GuardFacts, ReplayWritesOwn

LEMMA UpdateUnlinkWrites ==
    ASSUME IInv, IInv', NEW u \in Users, NEW in \in Inputs, NEW id \in 1..Len(txs),
           UpdateUnlink(u, id, in)
    PROVE  WritesOwn(u)
  <1>1. DEFINE link == txs[id].linked
               row  == [Edited(id, in) EXCEPT !.linked = NoTx]
               cut  == [txs EXCEPT ![id] = row]
               both == [cut EXCEPT ![link].deleted = TRUE]
  <1>2. UpdateGuard(u, id, in) /\ MayEdit(u, id)
    BY DEF UpdateUnlink, UpdateGuard
  <1>3. row.user = u
    BY <1>2, GuardFacts, EditedRow DEF IInv, Row
  <1> HIDE DEF row
  <1>4. EditsOwn(u, cut)
    BY <1>2, <1>3, RowFacts, GuardFacts DEF EditsOwn
  <1>5. CASE HasLinked(txs[id])
    <2>1. StoreAndReplay(both, newBalance, TouchedBy(id, in) \cup {txs[link].account})
      BY <1>5 DEF UpdateUnlink, row
    <2>2. /\ link \in 1..Len(txs) /\ link # id
          /\ ~txs[link].deleted /\ txs[link].user = u /\ Owner[txs[link].account] = u
          /\ txs[link] \in Row
      BY <1>2, <1>5, LinkFacts, RowFacts
    <2>3. /\ DOMAIN both = 1..Len(txs) /\ both[link].user = txs[link].user
          /\ \A i \in 1..Len(txs) : i # link => both[i] = cut[i]
      BY <2>2, RowFacts DEF Row
    <2> HIDE DEF both, cut
    <2>4. EditsOwn(u, both)
      BY <1>4, <2>2, <2>3 DEF EditsOwn
    <2>5. OwnAccounts(u, TouchedBy(id, in) \cup {txs[link].account})
      BY <1>2, <2>2, GuardFacts DEF OwnAccounts
    <2>6. QED
      BY <2>1, <2>4, <2>5, ReplayWritesOwn
  <1>6. CASE ~HasLinked(txs[id])
    <2>1. StoreAndReplay(cut, newBalance, TouchedBy(id, in))
      BY <1>6 DEF UpdateUnlink, row
    <2> HIDE DEF cut
    <2>2. QED
      BY <1>2, <1>4, <2>1, GuardFacts, ReplayWritesOwn
  <1>7. QED
    BY <1>5, <1>6

LEMMA UpdateTransferWrites ==
    ASSUME IInv, IInv', NEW u \in Users, NEW in \in Inputs, NEW id \in 1..Len(txs),
           UpdateTransfer(u, id, in)
    PROVE  WritesOwn(u)
  <1>1. DEFINE link   == txs[id].linked
               target == IF in.target # NoAccount THEN in.target ELSE txs[link].account
               mirror == [txs[link] EXCEPT !.account = target, !.amount = TargetAmountOf(in),
                                           !.date = DateOf(in), !.isIncome = TRUE,
                                           !.isTransfer = TRUE]
               T == [txs EXCEPT ![link] = mirror, ![id] = Edited(id, in)]
               S == TouchedBy(id, in) \cup {target, txs[link].account}
  <1>2. /\ UpdateGuard(u, id, in) /\ MayEdit(u, id) /\ HasLinked(txs[id])
        /\ MayUse(u, target) /\ StoreAndReplay(T, newBalance, S)
    BY DEF UpdateTransfer, UpdateGuard
  <1>3. /\ link \in 1..Len(txs) /\ ~txs[link].deleted /\ txs[link].user = u
        /\ Owner[txs[link].account] = u /\ txs[link] \in Row
    BY <1>2, LinkFacts, RowFacts
  <1>4. mirror.user = txs[link].user
    BY <1>3 DEF Row
  <1>5. OwnAccounts(u, S)
    <2>1. Owner[target] = u
      BY <1>2 DEF MayUse
    <2> HIDE DEF target
    <2>2. QED
      BY <1>2, <1>3, <2>1, GuardFacts DEF OwnAccounts
  <1> HIDE DEF mirror, S
  <1>6. EditsOwn(u, T)
    BY <1>2, <1>3, <1>4, RowFacts, GuardFacts DEF EditsOwn
  <1> HIDE DEF T
  <1>7. QED
    BY <1>2, <1>5, <1>6, ReplayWritesOwn

LEMMA UpdateLinkWrites ==
    ASSUME IInv, IInv', NEW u \in Users, NEW in \in Inputs, NEW id \in 1..Len(txs),
           UpdateLink(u, id, in)
    PROVE  WritesOwn(u)
  <1>1. DEFINE source == [Edited(id, in) EXCEPT !.linked = Len(txs) + 1]
               half   == [txs EXCEPT ![id] = source]
               leg    == LinkedRow(u, in, id)
               T      == Append(half, leg)
               N      == Append(newBalance, TargetBalance(in))
               S      == TouchedBy(id, in) \cup {in.target}
  <1>2. UpdateGuard(u, id, in) /\ MayUse(u, in.target) /\ StoreAndReplay(T, N, S)
    BY DEF UpdateLink
  <1>3. source \in Row /\ source.user = u
    <2>1. Edited(id, in) \in Row /\ Edited(id, in).user = u /\ Len(txs) + 1 \in Nat
      BY <1>2, EditedRow, GuardFacts, RowFacts DEF IInv
    <2>2. QED
      BY <2>1 DEF Row
  <1> HIDE DEF source
  <1>4. half \in Seq(Row) /\ Len(half) = Len(txs)
        /\ \A i \in 1..Len(txs) : half[i] = IF i = id THEN source ELSE txs[i]
    BY <1>3, RowFacts, ExceptSeq
  <1> HIDE DEF half, leg
  <1>5. \A i \in 1..Len(txs) : i \in DOMAIN T /\ T[i] = half[i]
    <2>1. half \in Seq(Row \cup {leg}) /\ leg \in Row \cup {leg}
      BY <1>4, SeqMonotonic
    <2>2. T \in Seq(Row \cup {leg}) /\ Len(T) = Len(txs) + 1
          /\ \A i \in 1..Len(txs) : T[i] = half[i]
      BY <1>4, <2>1, AppendProperties
    <2>3. QED
      BY <2>2, LenProperties, RowFacts
  <1>6. \A i \in 1..Len(txs) : N[i] = newBalance[i]
    BY Columns, OneMoreKeeps
  <1>7. OwnAccounts(u, S)
    BY <1>2, GuardFacts DEF OwnAccounts, MayUse
  <1> HIDE DEF T, N, S
  <1>8. EditsOwn(u, T)
    BY <1>2, <1>3, <1>4, <1>5, GuardFacts DEF EditsOwn
  <1>9. QED
    BY <1>2, <1>6, <1>7, <1>8, ReplayWritesOwn

LEMMA DeleteWrites ==
    ASSUME IInv, IInv', NEW u \in Users, NEW id \in 1..Len(txs), DeleteTransaction(u, id)
    PROVE  WritesOwn(u)
  <1>1. DEFINE dead(i) == [txs[i] EXCEPT !.deleted = TRUE]
               T == [i \in DOMAIN txs |-> IF i \in DeletedWith(id) THEN dead(i) ELSE txs[i]]
               S == {txs[id].account}
                    \cup IF HasLinked(txs[id]) THEN {txs[txs[id].linked].account} ELSE {}
  <1>2. MayEdit(u, id) /\ StoreAndReplay(T, newBalance, S)
    BY DEF DeleteTransaction
  <1>3. \A i \in 1..Len(txs) : dead(i).user = txs[i].user
    BY RowFacts DEF Row
  <1> HIDE DEF dead
  <1>4. ASSUME NEW i \in DeletedWith(id) PROVE ~txs[i].deleted /\ txs[i].user = u
    <2>1. ~txs[id].deleted /\ txs[id].user = u
      BY <1>2 DEF MayEdit
    <2>2. CASE i # id
      <3>1. i \in 1..Len(txs) /\ i \in Nat /\ Claims(txs, id, i)
        BY <2>1, <2>2, RowFacts DEF DeletedWith, Claims, NoTx
      <3>2. QED
        BY <2>1, <3>1, RowFacts DEF PairedRows, Claims
    <2>3. QED
      BY <2>1, <2>2
  <1>5. EditsOwn(u, T)
    BY <1>3, <1>4, RowFacts DEF EditsOwn
  <1>6. OwnAccounts(u, S)
    BY <1>2, LinkFacts, RowFacts DEF OwnAccounts, OwnedRows, MayEdit
  <1> HIDE DEF T, S
  <1>7. QED
    BY <1>2, <1>5, <1>6, ReplayWritesOwn

-----------------------------------------------------------------------------
(* The other requests.                                                      *)

LEMMA CreateWrites ==
    ASSUME IInv, NEW u \in Users, NEW in \in Inputs, CreateTransaction(u, in)
    PROVE  KeepsRows /\ WritesOwn(u)
  <1>1. DEFINE row == SourceRow(u, in)
               b   == SourceBalance(u, in)
               c   == TargetBalance(in)
               R   == <<[row EXCEPT !.linked = Len(txs) + 1 + 1], LinkedRow(u, in, Len(txs) + 1)>>
  <1>2. MayUse(u, in.account) /\ UNCHANGED initial
    BY DEF CreateTransaction
  <1>3. CASE ~HasTarget(in)
    <2>1. /\ txs' = Append(txs, row) /\ newBalance' = Append(newBalance, b)
          /\ balance' = [balance EXCEPT ![in.account] = b]
      BY <1>3 DEF CreateTransaction
    <2> HIDE DEF row, b
    <2>2. KeepsRows
      BY <2>1, AppendedRow
    <2>3. QED
      BY <1>2, <2>1, <2>2
         DEF WritesOwn, WritesRowsOf, WritesMoneyOnly, WritesMoneyOf, KeepsRows, MayUse, IInv, TypeOK
  <1>4. CASE HasTarget(in)
    <2>1. /\ txs' = txs \o R /\ newBalance' = newBalance \o <<b, c>>
          /\ balance' = [balance EXCEPT ![in.account] = b, ![in.target] = c]
          /\ MayUse(u, in.target)
      BY <1>4 DEF CreateTransaction
    <2>2. R \in Seq({R[1], R[2]}) /\ <<b, c>> \in Seq({b, c})
      BY DEF R
    <2> HIDE DEF R, b, c
    <2>3. KeepsRows
      BY <2>1, <2>2, AppendedRows
    <2>4. QED
      BY <1>2, <2>1, <2>3
         DEF WritesOwn, WritesRowsOf, WritesMoneyOnly, WritesMoneyOf, KeepsRows, MayUse, IInv, TypeOK
  <1>5. QED
    BY <1>3, <1>4

LEMMA AccountWrites ==
    ASSUME IInv, NEW u \in Users, AccountRequest(u)
    PROVE  KeepsRows /\ WritesOwn(u)
  <1>1. PICK a \in Accounts :
          \/ \E b, i \in Balances : CreateAccount(u, a, b, i)
          \/ \E i \in Balances : UpdateAccount(u, a, i)
          \/ DeleteAccount(u, a)
          \/ \E flag \in ArchiveFlags : SetArchiveStatus(u, a, flag)
          \/ \E b \in Balances : AdjustBalance(u, a, b)
    BY DEF AccountRequest
  <1>2. Owner[a] = u
    BY <1>1 DEF CreateAccount, UpdateAccount, DeleteAccount, SetArchiveStatus, AdjustBalance, MayUse
  <1>3. \A b \in Accounts \ {a} : ~WritesMoneyOf(b)
    BY <1>1 DEF CreateAccount, UpdateAccount, DeleteAccount, SetArchiveStatus, AdjustBalance,
                WritesMoneyOf, IInv, TypeOK
  <1>4. KeepsRows
    <2>1. CASE \E b \in Balances : AdjustBalance(u, a, b)
      <3>1. PICK b \in Balances : AdjustBalance(u, a, b)
        BY <2>1
      <3>2. /\ txs' = Append(txs, AdjustmentRow(a, balance[a], b))
            /\ newBalance' = Append(newBalance, b)
        BY <3>1 DEF AdjustBalance
      <3>3. QED
        BY <3>2, AppendedRow
    <2>2. CASE ~\E b \in Balances : AdjustBalance(u, a, b)
      BY <1>1, <2>2 DEF CreateAccount, UpdateAccount, DeleteAccount, SetArchiveStatus,
                        KeepsRows, WritesRow
    <2>3. QED
      BY <2>1, <2>2
  <1>5. QED
    BY <1>2, <1>3, <1>4 DEF WritesOwn, WritesRowsOf, WritesMoneyOnly, KeepsRows

LEMMA TransactionWrites ==
    ASSUME IInv, IInv', NEW u \in Users, TransactionRequest(u)
    PROVE  WritesOwn(u)
  <1>1. CASE \E in \in Inputs : CreateTransaction(u, in)
    BY <1>1, CreateWrites
  <1>2. CASE \E id \in DOMAIN txs, in \in Inputs : UpdateTransaction(u, id, in)
    BY <1>2, RowFacts, UpdateAloneWrites, UpdateUnlinkWrites, UpdateTransferWrites,
       UpdateLinkWrites DEF UpdateTransaction
  <1>3. CASE \E id \in DOMAIN txs : DeleteTransaction(u, id)
    BY <1>3, RowFacts, DeleteWrites
  <1>4. QED
    BY <1>1, <1>2, <1>3 DEF TransactionRequest

\* The command only appends rows.
LEMMA ReconcileWrites ==
    ASSUME IInv, NEW uid, NEW aid, Reconcile(uid, aid)
    PROVE  KeepsRows
  <1>1. DEFINE D == DetectDivergences(LoadAccounts(uid, aid))
               n == Cardinality(D)
               recalc(a) == RecalculateFromTransactions(txs, newBalance, a)
  <1>2. n \in Nat
    BY LedgerAssumption, FS_Subset, FS_CardinalityType DEF DetectDivergences, LoadAccounts
  <1>3. PICK order \in [1..n -> D] :
          /\ txs' = txs \o [k \in 1..n |-> AdjustmentRow(order[k], recalc(order[k]),
                                                         balance[order[k]])]
          /\ newBalance' = newBalance \o [k \in 1..n |-> balance[order[k]]]
    BY DEF Reconcile
  <1>4. DEFINE row(k) == AdjustmentRow(order[k], recalc(order[k]), balance[order[k]])
               R == [k \in 1..n |-> row(k)]
               B == [k \in 1..n |-> balance[order[k]]]
               Y == {row(k) : k \in 1..n}
               Z == {balance[order[k]] : k \in 1..n}
  <1>5. txs' = txs \o R /\ newBalance' = newBalance \o B
    BY <1>3
  <1> HIDE DEF D, n, recalc, row
  <1>6. R \in [1..n -> Y] /\ B \in [1..n -> Z]
    OBVIOUS
  <1> HIDE DEF R, B, Y, Z
  <1>7. R \in Seq(Y) /\ B \in Seq(Z)
    BY <1>2, <1>6, SeqDef
  <1>8. QED
    BY <1>5, <1>7, AppendedRows

-----------------------------------------------------------------------------
(* The theorems.                                                            *)

\* No request of a user writes money or a row of another, whatever links its edits
\* follow (services/transactions/service.go:314 and :552).
THEOREM LedgerNoCrossUserWrite == Spec => NoCrossUserWrite
  <1>1. ASSUME IInv, IInv', NEW u \in Users, AccountRequest(u) \/ TransactionRequest(u)
        PROVE  WritesOwn(u)
    BY <1>1, AccountWrites, TransactionWrites
  <1>2. IInv /\ IInv' =>
          \A u \in Users :
              \/ \E a \in Accounts : Owner[a] # u /\ WritesMoneyOf(a)
              \/ \E i \in DOMAIN txs : txs[i].user # u /\ WritesRow(i)
              => ~(AccountRequest(u) \/ TransactionRequest(u))
    BY <1>1 DEF WritesOwn, WritesRowsOf, WritesMoneyOnly
  <1>3. QED
    BY <1>2, LedgerInvariant, PTL DEF NoCrossUserWrite

\* No step writes a row that was deleted, although updates write whole rows
\* (repositories/transaction.go:273).
THEOREM LedgerDeadRowsFrozen == Spec => DeadRowsFrozen
  <1>1. ASSUME IInv, IInv', [Next]_vars
        PROVE  \A i \in DOMAIN txs : WritesRow(i) => ~txs[i].deleted
    <2>1. ASSUME NEW u \in Users, AccountRequest(u) \/ TransactionRequest(u)
          PROVE  \A i \in DOMAIN txs : WritesRow(i) => ~txs[i].deleted
      BY <1>1, <2>1, AccountWrites, TransactionWrites DEF WritesOwn, WritesRowsOf
    <2>2. CASE RunCLI
      BY <1>1, <2>2, ReconcileWrites DEF RunCLI, KeepsRows
    <2>3. CASE Tick \/ UNCHANGED vars
      BY <2>3 DEF Tick, vars, WritesRow
    <2>4. QED
      BY <1>1, <2>1, <2>2, <2>3 DEF Next
  <1>2. IInv /\ IInv' /\ [Next]_vars =>
          \A i \in DOMAIN txs : txs[i].deleted =>
              txs'[i] = txs[i] /\ newBalance'[i] = newBalance[i]
    BY <1>1 DEF WritesRow
  <1>3. QED
    BY <1>2, LedgerInvariant, PTL DEF DeadRowsFrozen, Spec

-----------------------------------------------------------------------------
(* What a replay computes.                                                  *)

\* A table of rows, with ids 1..n.
Table(T) == \E n \in Nat : T \in [1..n -> Row]

\* How many live rows of account a come before row i.
Rank(T, a, i) == Cardinality({j \in LiveIn(T, a) : Precedes(T, j, i)})

\* run[k] is the balance after the first k of `rows', s before them.
Replays(run, s, T, N, rows) ==
    run = [k \in 0..Len(rows) |-> IF k = 0 THEN s
                                  ELSE Apply(run[k - 1], T[rows[k]], N[rows[k]])]

-----------------------------------------------------------------------------
(* The order of the rows.                                                   *)

\* Induction along 0..n, over a set G instead of an operator.
LEMMA UpTo ==
    ASSUME NEW n \in Nat, NEW G, 0 \in G, \A k \in 0..n : k \in G /\ k < n => k + 1 \in G
    PROVE  0..n \subseteq G
  <1> SUFFICES ASSUME ~(0..n \subseteq G) PROVE FALSE
    OBVIOUS
  <1>1. PICK Bad : Bad = (0..n) \ G
    OBVIOUS
  <1>2. Bad \subseteq 0..n /\ Bad # {} /\ IsFiniteSet(Bad)
    <2>1. IsFiniteSet(0..n)
      BY FS_Interval
    <2>2. Bad \subseteq 0..n /\ Bad # {}
      BY <1>1
    <2>3. QED
      BY <2>1, <2>2, FS_Subset
  <1>3. PICK L : L = {p \in (0..n) \X (0..n) : p[1] <= p[2]}
    OBVIOUS
  <1>4. \A x, y \in 0..n : <<x, y>> \in L <=> x <= y
    BY <1>3
  <1>5. PICK x \in Bad : \A y \in Bad : <<x, y>> \in L
    <2>1. \A x, y \in 0..n : x <= y \/ y <= x
      OBVIOUS
    <2>2. \A x, y, z \in 0..n : x <= y /\ y <= z => x <= z
      OBVIOUS
    <2>3. \A x, y \in Bad : <<x, y>> \in L \/ <<y, x>> \in L
      BY <1>2, <1>4, <2>1
    <2>4. \A x, y, z \in Bad : <<x, y>> \in L /\ <<y, z>> \in L => <<x, z>> \in L
      BY <1>2, <1>4, <2>2
    <2>5. QED
      BY <1>2, <2>3, <2>4, FirstOfAFiniteSet
  <1>6. x \in 0..n /\ x \notin G /\ x # 0
    BY <1>1, <1>2
  <1>7. x - 1 \in 0..n /\ x - 1 < n /\ (x - 1) + 1 = x /\ ~(x <= x - 1)
    BY <1>6
  <1>8. x - 1 \notin Bad
    BY <1>4, <1>5, <1>6, <1>7
  <1>9. x - 1 \in G
    BY <1>1, <1>7, <1>8
  <1>10. QED
    BY <1>6, <1>7, <1>9

\* The live rows of an account.
LEMMA LiveRows ==
    ASSUME NEW T, Table(T), NEW a
    PROVE  /\ LiveIn(T, a) \subseteq DOMAIN T /\ DOMAIN T \subseteq Nat
           /\ IsFiniteSet(DOMAIN T) /\ IsFiniteSet(LiveIn(T, a))
           /\ Cardinality(LiveIn(T, a)) \in Nat
           /\ \A i \in DOMAIN T : T[i] \in Row
  <1>1. PICK n \in Nat : T \in [1..n -> Row]
    BY DEF Table
  <1>2. IsFiniteSet(1..n)
    BY FS_Interval
  <1>3. LiveIn(T, a) \subseteq 1..n
    BY <1>1 DEF LiveIn
  <1>4. QED
    BY <1>1, <1>2, <1>3, FS_Subset, FS_CardinalityType

\* Dates and ids order the rows linearly.
LEMMA Linear ==
    ASSUME NEW T, Table(T)
    PROVE  /\ \A i \in DOMAIN T : ~Precedes(T, i, i)
           /\ \A i, j \in DOMAIN T : i # j => Precedes(T, i, j) \/ Precedes(T, j, i)
           /\ \A i, j, k \in DOMAIN T : Precedes(T, i, j) /\ Precedes(T, j, k) => Precedes(T, i, k)
  <1>1. \A i \in DOMAIN T : i \in Int /\ T[i].date \in Int
    BY LiveRows DEF Row
  <1>2. QED
    BY <1>1 DEF Precedes

\* Rows have ranks from 0 on, and a row that precedes another has a smaller one.
LEMMA Ranks ==
    ASSUME NEW T, Table(T), NEW a
    PROVE  /\ \A i \in LiveIn(T, a) : Rank(T, a, i) \in Nat
                                      /\ Rank(T, a, i) < Cardinality(LiveIn(T, a))
           /\ \A i, j \in LiveIn(T, a) : Precedes(T, i, j) <=> Rank(T, a, i) < Rank(T, a, j)
           /\ \A i, j \in LiveIn(T, a) : Rank(T, a, i) = Rank(T, a, j) => i = j
  <1> DEFINE L == LiveIn(T, a)
             Before(i) == {j \in L : Precedes(T, j, i)}
  <1>1. IsFiniteSet(L) /\ Cardinality(L) \in Nat /\ L \subseteq DOMAIN T
    BY LiveRows
  <1>2. ASSUME NEW i \in L
        PROVE  /\ Before(i) \subseteq L /\ i \notin Before(i) /\ IsFiniteSet(Before(i))
               /\ Rank(T, a, i) = Cardinality(Before(i)) /\ Rank(T, a, i) \in Nat
    <2>1. i \notin Before(i)
      BY <1>1, Linear
    <2>2. Before(i) \subseteq L
      OBVIOUS
    <2>3. IsFiniteSet(Before(i)) /\ Cardinality(Before(i)) \in Nat
      BY <1>1, <2>2, FS_Subset, FS_CardinalityType
    <2>4. QED
      BY <2>1, <2>2, <2>3 DEF Rank
  <1>3. ASSUME NEW i \in L, NEW S \in SUBSET L, Before(i) \subseteq S, i \in S
        PROVE  Rank(T, a, i) < Cardinality(S)
    <2>1. IsFiniteSet(S) /\ Cardinality(S) \in Nat
      BY <1>1, FS_Subset, FS_CardinalityType
    <2>2. Before(i) \cup {i} \subseteq S
      BY <1>3
    <2>3. /\ Cardinality(Before(i) \cup {i}) = Cardinality(Before(i)) + 1
          /\ Cardinality(Before(i) \cup {i}) <= Cardinality(S)
      BY <1>2, <2>1, <2>2, FS_AddElement, FS_Subset
    <2>4. QED
      BY <1>2, <2>1, <2>3
  <1>4. ASSUME NEW i \in L, NEW j \in L, Precedes(T, i, j)
        PROVE  Rank(T, a, i) < Rank(T, a, j)
    <2>1. Before(i) \subseteq Before(j) /\ i \in Before(j)
      BY <1>1, <1>4, Linear
    <2>2. QED
      BY <1>2, <1>3, <2>1
  <1>5. \A i \in L : Rank(T, a, i) < Cardinality(L)
    BY <1>2, <1>3
  <1>6. \A i, j \in L : i = j \/ Precedes(T, i, j) \/ Precedes(T, j, i)
    BY <1>1, Linear
  <1> HIDE DEF L, Before
  <1>7. \A i \in L : Rank(T, a, i) \in Nat
    BY <1>2
  <1>8. \A i, j \in L : Precedes(T, i, j) <=> Rank(T, a, i) < Rank(T, a, j)
    BY <1>1, <1>4, <1>6, <1>7, Linear
  <1>9. \A i, j \in L : Rank(T, a, i) = Rank(T, a, j) => i = j
    BY <1>4, <1>6, <1>7
  <1>10. QED
    BY <1>5, <1>7, <1>8, <1>9 DEF L

\* Chronological visits every live row of the account once, by rank.
LEMMA Visits ==
    ASSUME NEW T, Table(T), NEW a
    PROVE  LET rows == Chronological(T, a)
               n    == Cardinality(LiveIn(T, a))
           IN  /\ n \in Nat /\ Len(rows) = n /\ DOMAIN rows = 1..n
               /\ \A k \in 1..n : rows[k] \in LiveIn(T, a) /\ Rank(T, a, rows[k]) = k - 1
               /\ \A i \in LiveIn(T, a) : /\ Rank(T, a, i) + 1 \in 1..n
                                          /\ rows[Rank(T, a, i) + 1] = i
  <1> DEFINE L    == LiveIn(T, a)
             n    == Cardinality(L)
             rows == Chronological(T, a)
             f    == [i \in L |-> Rank(T, a, i) + 1]
  <1>1. n \in Nat /\ IsFiniteSet(L)
    BY LiveRows
  <1>2. rows = [k \in 1..n |-> CHOOSE i \in L : Rank(T, a, i) = k - 1]
    BY DEF Chronological, Rank
  <1>3. /\ \A i \in L : Rank(T, a, i) \in Nat /\ Rank(T, a, i) < n
        /\ \A i, j \in L : Rank(T, a, i) = Rank(T, a, j) => i = j
    BY Ranks
  <1> HIDE DEF L, n, rows
  <1>4. f \in Injection(L, 1..n)
    <2>1. \A i \in L : Rank(T, a, i) + 1 \in 1..n
      BY <1>1, <1>3
    <2>2. f \in [L -> 1..n]
      BY <2>1
    <2>3. ASSUME NEW i \in L, NEW j \in L, f[i] = f[j]
          PROVE  i = j
      <3>1. Rank(T, a, i) + 1 = Rank(T, a, j) + 1
        BY <2>3
      <3>2. Rank(T, a, i) = Rank(T, a, j)
        BY <1>3, <3>1
      <3>3. QED
        BY <1>3, <3>2
    <2> HIDE DEF f
    <2>4. QED
      BY <2>2, <2>3 DEF Injection, IsInjective
  <1>5. IsFiniteSet(1..n) /\ Cardinality(1..n) = n
    BY <1>1, FS_Interval
  <1>6. f \in Surjection(L, 1..n)
    <2> HIDE DEF f
    <2>1. Cardinality(L) = Cardinality(1..n)
      BY <1>5 DEF n
    <2>2. QED
      BY <1>4, <1>5, <2>1, FS_Injection
  <1>7. \A k \in 1..n : \E i \in L : f[i] = k
    BY <1>6 DEF Surjection
  <1>8. ASSUME NEW k \in 1..n
        PROVE  rows[k] \in L /\ Rank(T, a, rows[k]) = k - 1
    <2>1. PICK i \in L : Rank(T, a, i) + 1 = k
      BY <1>7
    <2>2. Rank(T, a, i) = k - 1
      BY <1>1, <1>3, <2>1
    <2>3. QED
      BY <1>2, <2>2
  <1>9. ASSUME NEW i \in L
        PROVE  Rank(T, a, i) + 1 \in 1..n /\ rows[Rank(T, a, i) + 1] = i
    <2>1. Rank(T, a, i) + 1 \in 1..n /\ (Rank(T, a, i) + 1) - 1 = Rank(T, a, i)
      BY <1>1, <1>3
    <2>2. QED
      BY <1>3, <1>8, <2>1
  <1>10. rows \in Seq(L)
    <2>1. rows \in [1..n -> L]
      BY <1>2, <1>8
    <2>2. QED
      BY <1>1, <2>1, SeqDef
  <1>11. DOMAIN rows = 1..n /\ Len(rows) = n
    BY <1>1, <1>2, <1>10, LenProperties
  <1>12. QED
    BY <1>1, <1>8, <1>9, <1>11 DEF L, n, rows

-----------------------------------------------------------------------------
(* The running balance.                                                     *)

ReplayFrom(s, T, N, rows) == CHOOSE run : Replays(run, s, T, N, rows)

\* The balance after all live rows of account a.
Final(s, T, N, a) == ReplayFrom(s, T, N, Chronological(T, a))[Cardinality(LiveIn(T, a))]

\* The recursive definition of a replay defines a function.
LEMMA ReplayExists ==
    ASSUME NEW s, NEW T, NEW N, NEW rows, Len(rows) \in Nat
    PROVE  Replays(ReplayFrom(s, T, N, rows), s, T, N, rows)
  <1> DEFINE n == Len(rows)
             step(run, k) == Apply(run[k - 1], T[rows[k]], N[rows[k]])
             Prefix(run, m) == run = [k \in 0..m |-> IF k = 0 THEN s ELSE step(run, k)]
             G == {m \in 0..n : \E run : Prefix(run, m)}
  <1>1. 0 \in G
    <2>1. PICK run : run = [k \in 0..0 |-> s]
      OBVIOUS
    <2>2. Prefix(run, 0)
      BY <2>1
    <2>3. QED
      BY <2>2
  <1>2. ASSUME NEW m \in 0..n, m \in G, m < n
        PROVE  m + 1 \in G
    <2>1. PICK run : Prefix(run, m)
      BY <1>2
    <2>2. PICK next : next = [k \in 0..(m + 1) |-> IF k <= m THEN run[k] ELSE step(run, k)]
      OBVIOUS
    <2>3. ASSUME NEW k \in 0..(m + 1)
          PROVE  next[k] = IF k = 0 THEN s ELSE step(next, k)
      <3>1. CASE k = 0
        BY <2>1, <2>2, <3>1
      <3>2. CASE k # 0
        <4>1. k - 1 \in 0..(m + 1) /\ k - 1 <= m
          BY <3>2
        <4>2. next[k - 1] = run[k - 1]
          BY <2>2, <4>1
        <4>3. next[k] = step(run, k)
          BY <2>1, <2>2, <3>2
        <4>4. QED
          BY <3>2, <4>2, <4>3
      <3>3. QED
        BY <3>1, <3>2
    <2> HIDE DEF step
    <2>4. Prefix(next, m + 1)
      BY <2>2, <2>3
    <2>5. QED
      BY <1>2, <2>4
  <1>3. 0..n \subseteq G
    <2> HIDE DEF G
    <2>1. QED
      BY <1>1, <1>2, UpTo
  <1>4. \E run : Replays(run, s, T, N, rows)
    BY <1>3 DEF Replays
  <1>5. QED
    BY <1>4 DEF ReplayFrom

LEMMA RunningIs ==
    ASSUME NEW T, NEW N, NEW a
    PROVE  Running(T, N, a) = ReplayFrom(initial[a], T, N, Chronological(T, a))
  BY DEF Running, ReplayFrom, Replays

LEMMA FinalIs ==
    ASSUME NEW T, NEW N, NEW a
    PROVE  RecalculateFromTransactions(T, N, a) = Final(initial[a], T, N, a)
  BY RunningIs DEF RecalculateFromTransactions, Final

\* An account agrees with its rows, before and after a step.
LEMMA SettledIs ==
    ASSUME NEW a
    PROVE  /\ Settled(a) <=> balance[a] = Final(initial[a], txs, newBalance, a)
           /\ Settled(a)' <=> balance'[a] = Final(initial'[a], txs', newBalance', a)
  BY FinalIs DEF Settled, RecalculateFromTransactions, Running, Final, ReplayFrom, Replays

\* Two rows, with their new_balance, that do the same to a balance.
SameEffect(r, x, q, y) ==
    /\ r.isAdjustment = q.isAdjustment
    /\ IF r.isAdjustment THEN x = y ELSE r.isIncome = q.isIncome /\ r.amount = q.amount

\* Replays that have the same effects up to row m agree up to there.
LEMMA SamePrefix ==
    ASSUME NEW f, NEW s, NEW T, NEW N, NEW rows, Replays(f, s, T, N, rows),
           NEW g, NEW U, NEW M, NEW cols, Replays(g, s, U, M, cols),
           Len(rows) \in Nat, Len(cols) \in Nat,
           NEW m \in Nat, m <= Len(rows), m <= Len(cols),
           \A k \in 1..m : SameEffect(T[rows[k]], N[rows[k]], U[cols[k]], M[cols[k]])
    PROVE  \A k \in 0..m : f[k] = g[k]
  <1> DEFINE G == {k \in 0..m : f[k] = g[k]}
  <1>1. 0 \in G
    BY DEF Replays
  <1>2. ASSUME NEW k \in 0..m, k \in G, k < m
        PROVE  k + 1 \in G
    <2>1. k + 1 \in 1..m /\ k + 1 \in 0..Len(rows) /\ k + 1 \in 0..Len(cols)
          /\ k + 1 # 0 /\ (k + 1) - 1 = k
      BY <1>2
    <2>2. f[k + 1] = Apply(f[k], T[rows[k + 1]], N[rows[k + 1]])
      BY <2>1 DEF Replays
    <2>3. g[k + 1] = Apply(g[k], U[cols[k + 1]], M[cols[k + 1]])
      BY <2>1 DEF Replays
    <2>4. f[k] = g[k]
      BY <1>2
    <2>5. f[k + 1] = g[k + 1]
      BY <2>1, <2>2, <2>3, <2>4 DEF SameEffect, Apply
    <2>6. QED
      BY <2>1, <2>5
  <1>3. 0..m \subseteq G
    <2> HIDE DEF G
    <2>1. QED
      BY <1>1, <1>2, UpTo
  <1>4. QED
    BY <1>3

\* The order depends on the live rows and their dates only.
LEMMA SameOrder ==
    ASSUME NEW T, Table(T), NEW U, Table(U), NEW a, LiveIn(T, a) = LiveIn(U, a),
           \A i \in LiveIn(T, a) : T[i].date = U[i].date
    PROVE  Chronological(T, a) = Chronological(U, a)
  <1>1. \A i \in LiveIn(T, a) : Rank(T, a, i) = Rank(U, a, i)
    <2> TAKE i \in LiveIn(T, a)
    <2>1. {j \in LiveIn(T, a) : Precedes(T, j, i)} = {j \in LiveIn(U, a) : Precedes(U, j, i)}
      BY DEF Precedes
    <2>2. QED
      BY <2>1 DEF Rank
  <1>2. PICK n : n = Cardinality(LiveIn(T, a))
    OBVIOUS
  <1>3. PICK f, g : f = Chronological(T, a) /\ g = Chronological(U, a)
    OBVIOUS
  <1>4. ASSUME NEW k \in 1..n PROVE f[k] = g[k]
    <2>1. f[k] \in LiveIn(T, a) /\ Rank(T, a, f[k]) = k - 1
      BY <1>2, <1>3, Visits
    <2>2. g[k] \in LiveIn(U, a) /\ Rank(U, a, g[k]) = k - 1
      BY <1>2, <1>3, Visits
    <2>3. Rank(T, a, f[k]) = Rank(T, a, g[k])
      BY <1>1, <2>1, <2>2
    <2>4. QED
      BY <2>1, <2>2, <2>3, Ranks
  <1>5. f = [k \in 1..n |-> f[k]] /\ g = [k \in 1..n |-> g[k]]
    <2> DEFINE row(R, k) == CHOOSE i \in LiveIn(R, a) :
                              Cardinality({j \in LiveIn(R, a) : Precedes(R, j, i)}) = k - 1
    <2>1. f = [k \in 1..n |-> row(T, k)] /\ g = [k \in 1..n |-> row(U, k)]
      BY <1>2, <1>3 DEF Chronological
    <2> HIDE DEF row
    <2>2. QED
      BY <2>1
  <1>6. QED
    BY <1>3, <1>4, <1>5

\* Two tables with the same live rows of account a, up to what a replay ignores.
SameRows(T, N, U, M, a) ==
    /\ LiveIn(T, a) = LiveIn(U, a)
    /\ \A i \in LiveIn(T, a) : T[i].date = U[i].date /\ SameEffect(T[i], N[i], U[i], M[i])

\* The balance after all rows depends on their dates and effects only.
LEMMA SameReplay ==
    ASSUME NEW T, Table(T), NEW N, NEW U, Table(U), NEW M, NEW a, SameRows(T, N, U, M, a), NEW s
    PROVE  Final(s, T, N, a) = Final(s, U, M, a)
  <1>1. PICK rows : rows = Chronological(T, a)
    OBVIOUS
  <1>2. PICK n : n = Cardinality(LiveIn(T, a))
    OBVIOUS
  <1>3. rows = Chronological(U, a) /\ LiveIn(T, a) = LiveIn(U, a)
    BY <1>1, SameOrder DEF SameRows
  <1>4. n \in Nat /\ Len(rows) = n /\ \A k \in 1..n : rows[k] \in LiveIn(T, a)
    BY <1>1, <1>2, Visits
  <1>5. \A k \in 1..n : SameEffect(T[rows[k]], N[rows[k]], U[rows[k]], M[rows[k]])
    BY <1>4 DEF SameRows
  <1>6. /\ Replays(ReplayFrom(s, T, N, rows), s, T, N, rows)
        /\ Replays(ReplayFrom(s, U, M, rows), s, U, M, rows)
    BY <1>4, ReplayExists
  <1>7. \A k \in 0..n : ReplayFrom(s, T, N, rows)[k] = ReplayFrom(s, U, M, rows)[k]
    BY <1>4, <1>5, <1>6, SamePrefix
  <1>8. n \in 0..n
    BY <1>4
  <1>9. QED
    BY <1>1, <1>2, <1>3, <1>7, <1>8 DEF Final

-----------------------------------------------------------------------------
(* Storing rows and replaying the accounts they are on.                     *)

\* A replay writes to an adjustment row the balance it has read there.
LEMMA WritesBack ==
    ASSUME NEW T, Table(T), NEW N, NEW i \in DOMAIN T, ~T[i].deleted, T[i].isAdjustment
    PROVE  ReplayedBalance(T, N, i) = N[i]
  <1>1. PICK a : a = T[i].account
    OBVIOUS
  <1>2. PICK rows, run : rows = Chronological(T, a) /\ run = Running(T, N, a)
    OBVIOUS
  <1>3. i \in LiveIn(T, a)
    BY <1>1 DEF LiveIn
  <1>4. Len(rows) \in Nat /\ DOMAIN rows = 1..Len(rows) /\ \E k \in DOMAIN rows : rows[k] = i
    BY <1>2, <1>3, Visits
  <1>5. PICK k : k = CHOOSE j \in DOMAIN rows : rows[j] = i
    OBVIOUS
  <1>6. k \in 1..Len(rows) /\ rows[k] = i
    BY <1>4, <1>5
  <1>7. Replays(run, initial[a], T, N, rows)
    BY <1>2, <1>4, RunningIs, ReplayExists
  <1>8. run[k] = Apply(run[k - 1], T[i], N[i])
    BY <1>4, <1>6, <1>7 DEF Replays
  <1>9. run[k] = N[i]
    BY <1>8 DEF Apply
  <1>10. QED
    BY <1>1, <1>2, <1>5, <1>9 DEF ReplayedBalance

\* A step that stores T and N and replays the accounts S keeps new_balance at
\* adjustment rows.
LEMMA KeepsTargets ==
    ASSUME NEW T, Table(T), NEW N, NEW S, StoreAndReplay(T, N, S),
           NEW i \in DOMAIN T, T[i].isAdjustment
    PROVE  newBalance'[i] = N[i]
  BY WritesBack DEF StoreAndReplay

\* The accounts it replays agree with their rows.
LEMMA Settles ==
    ASSUME NEW T, Table(T), NEW N, NEW S, StoreAndReplay(T, N, S),
           NEW a \in S, a \in Accounts, Visible(a)
    PROVE  Settled(a)'
  <1>1. txs' = T /\ initial' = initial
    BY DEF StoreAndReplay
  <1>2. balance'[a] = Final(initial[a], T, N, a)
    BY FinalIs DEF StoreAndReplay
  <1>3. ASSUME NEW i \in LiveIn(T, a) PROVE SameEffect(T[i], N[i], T[i], newBalance'[i])
    BY KeepsTargets DEF LiveIn, SameEffect
  <1>4. Final(initial[a], T, N, a) = Final(initial[a], T, newBalance', a)
    BY <1>3, SameReplay DEF SameRows
  <1>5. QED
    BY <1>1, <1>2, <1>4, SettledIs

\* What T does to the stored rows and what N does to their new_balance is about
\* the accounts S only.
Covers(T, N, S) ==
    /\ \A i \in 1..Len(txs) :
          /\ i \in DOMAIN T /\ N[i] = newBalance[i]
          /\ T[i] # txs[i] => {txs[i].account, T[i].account} \subseteq S
    /\ \A i \in DOMAIN T : i \notin 1..Len(txs) => T[i].account \in S

\* The other accounts stay as they are.
LEMMA Leaves ==
    ASSUME IInv, NEW T, Table(T), NEW N, NEW S, StoreAndReplay(T, N, S), Covers(T, N, S),
           NEW a \in Accounts, a \notin S, Settled(a)
    PROVE  Settled(a)'
  <1>1. txs' = T /\ initial' = initial /\ balance'[a] = balance[a]
    BY DEF StoreAndReplay
  <1>2. Table(txs)
    BY RowFacts, SeqDef DEF Table
  <1>3. LiveIn(txs, a) = LiveIn(T, a)
    BY RowFacts DEF LiveIn, Covers
  <1>4. ASSUME NEW i \in LiveIn(txs, a)
        PROVE  T[i] = txs[i] /\ newBalance'[i] = newBalance[i]
    <2>1. i \in 1..Len(txs) /\ txs[i].account = a
      BY RowFacts DEF LiveIn
    <2>2. i \in DOMAIN T /\ N[i] = newBalance[i] /\ T[i] = txs[i]
      BY <2>1 DEF Covers
    <2>3. QED
      BY <2>1, <2>2 DEF StoreAndReplay
  <1>5. \A i \in LiveIn(txs, a) :
           txs[i].date = T[i].date /\ SameEffect(txs[i], newBalance[i], T[i], newBalance'[i])
    BY <1>4 DEF SameEffect
  <1>6. Final(initial[a], txs, newBalance, a) = Final(initial[a], T, newBalance', a)
    <2>1. SameRows(txs, newBalance, T, newBalance', a)
      BY <1>3, <1>5 DEF SameRows
    <2>2. QED
      BY <1>2, <2>1, SameReplay
  <1>7. QED
    BY <1>1, <1>6, SettledIs

-----------------------------------------------------------------------------
(* Every edit and every deletion replays the accounts it touches.           *)

\* The step stores some rows and replays the accounts they are and were on.
Covered ==
    \E T, N, S : Table(T) /\ StoreAndReplay(T, N, S) /\ Covers(T, N, S)

LEMMA TableNow ==
    ASSUME IInv
    PROVE  Table(txs)
  BY RowFacts, SeqDef DEF Table

LEMMA TableNext ==
    ASSUME TypeOK'
    PROVE  Table(txs')
  <1>1. txs' \in Seq(Row)
    BY DEF TypeOK
  <1>2. QED
    BY <1>1, LenProperties, SeqDef DEF Table

\* It is enough to say what changes.
LEMMA CoveredBy ==
    ASSUME TypeOK', NEW T, NEW N, NEW S, StoreAndReplay(T, N, S), Covers(T, N, S)
    PROVE  Covered
  <1>1. Table(T)
    BY TableNext DEF StoreAndReplay
  <1>2. QED
    BY <1>1 DEF Covered

LEMMA UpdateAloneCovers ==
    ASSUME IInv, IInv', NEW u \in Users, NEW in \in Inputs, NEW id \in 1..Len(txs),
           UpdateAlone(u, id, in)
    PROVE  Covered
  <1> DEFINE T == [txs EXCEPT ![id] = Edited(id, in)]
  <1>1. StoreAndReplay(T, newBalance, TouchedBy(id, in))
    BY DEF UpdateAlone
  <1>2. Covers(T, newBalance, TouchedBy(id, in))
    BY RowFacts, EditedRow DEF IInv, Covers, TouchedBy
  <1> HIDE DEF T
  <1>3. QED
    BY <1>1, <1>2, CoveredBy DEF IInv

LEMMA UpdateUnlinkCovers ==
    ASSUME IInv, IInv', NEW u \in Users, NEW in \in Inputs, NEW id \in 1..Len(txs),
           UpdateUnlink(u, id, in)
    PROVE  Covered
  <1> DEFINE link == txs[id].linked
             row  == [Edited(id, in) EXCEPT !.linked = NoTx]
             cut  == [txs EXCEPT ![id] = row]
             both == [cut EXCEPT ![link].deleted = TRUE]
  <1>1. row.account = in.account
    BY EditedRow DEF IInv, Row
  <1> HIDE DEF row
  <1>2. CASE HasLinked(txs[id])
    <2>1. StoreAndReplay(both, newBalance, TouchedBy(id, in) \cup {txs[link].account})
      BY <1>2 DEF UpdateUnlink, row
    <2>2. link \in 1..Len(txs) /\ link # id /\ txs[link] \in Row
      BY <1>2, LinkFacts, RowFacts DEF UpdateUnlink, UpdateGuard
    <2>3. /\ DOMAIN both = 1..Len(txs) /\ both[link].account = txs[link].account
          /\ both[id] = row /\ \A i \in (1..Len(txs)) \ {id, link} : both[i] = txs[i]
      BY <2>2, RowFacts DEF Row
    <2> HIDE DEF both, cut
    <2>4. Covers(both, newBalance, TouchedBy(id, in) \cup {txs[link].account})
      BY <1>1, <2>3 DEF Covers, TouchedBy
    <2>5. QED
      BY <2>1, <2>4, CoveredBy DEF IInv
  <1>3. CASE ~HasLinked(txs[id])
    <2>1. StoreAndReplay(cut, newBalance, TouchedBy(id, in))
      BY <1>3 DEF UpdateUnlink, row
    <2>2. Covers(cut, newBalance, TouchedBy(id, in))
      BY <1>1, RowFacts DEF Covers, TouchedBy
    <2> HIDE DEF cut
    <2>3. QED
      BY <2>1, <2>2, CoveredBy DEF IInv
  <1>4. QED
    BY <1>2, <1>3

LEMMA UpdateTransferCovers ==
    ASSUME IInv, IInv', NEW u \in Users, NEW in \in Inputs, NEW id \in 1..Len(txs),
           UpdateTransfer(u, id, in)
    PROVE  Covered
  <1> DEFINE link   == txs[id].linked
             target == IF in.target # NoAccount THEN in.target ELSE txs[link].account
             mirror == [txs[link] EXCEPT !.account = target, !.amount = TargetAmountOf(in),
                                         !.date = DateOf(in), !.isIncome = TRUE,
                                         !.isTransfer = TRUE]
             T == [txs EXCEPT ![link] = mirror, ![id] = Edited(id, in)]
             S == TouchedBy(id, in) \cup {target, txs[link].account}
  <1>1. StoreAndReplay(T, newBalance, S) /\ MayEdit(u, id) /\ HasLinked(txs[id])
    BY DEF UpdateTransfer, UpdateGuard
  <1>2. link \in 1..Len(txs) /\ link # id /\ txs[link] \in Row
    BY <1>1, LinkFacts, RowFacts
  <1>3. mirror.account = target
    BY <1>2 DEF Row
  <1> HIDE DEF mirror, target
  <1>4. Covers(T, newBalance, S)
    BY <1>2, <1>3, RowFacts, EditedRow DEF IInv, Covers, TouchedBy
  <1> HIDE DEF T, S
  <1>5. QED
    BY <1>1, <1>4, CoveredBy DEF IInv

LEMMA UpdateLinkCovers ==
    ASSUME IInv, IInv', NEW u \in Users, NEW in \in Inputs, NEW id \in 1..Len(txs),
           UpdateLink(u, id, in)
    PROVE  Covered
  <1> DEFINE source == [Edited(id, in) EXCEPT !.linked = Len(txs) + 1]
             half   == [txs EXCEPT ![id] = source]
             leg    == LinkedRow(u, in, id)
             T      == Append(half, leg)
             N      == Append(newBalance, TargetBalance(in))
             S      == TouchedBy(id, in) \cup {in.target}
  <1>1. StoreAndReplay(T, N, S)
    BY DEF UpdateLink
  <1>2. source \in Row /\ source.account = in.account /\ leg.account = in.target
    <2>1. Edited(id, in) \in Row /\ Edited(id, in).account = in.account /\ Len(txs) + 1 \in Nat
      BY EditedRow, RowFacts DEF IInv
    <2>2. QED
      BY <2>1 DEF Row, LinkedRow
  <1> HIDE DEF source, leg
  <1>3. half \in Seq(Row) /\ Len(half) = Len(txs)
        /\ \A i \in 1..Len(txs) : half[i] = IF i = id THEN source ELSE txs[i]
    BY <1>2, RowFacts, ExceptSeq
  <1> HIDE DEF half
  <1>4. /\ DOMAIN T = 1..(Len(txs) + 1) /\ T[Len(txs) + 1] = leg
        /\ \A i \in 1..Len(txs) : T[i] = half[i]
    <2>1. half \in Seq(Row \cup {leg}) /\ leg \in Row \cup {leg}
      BY <1>3, SeqMonotonic
    <2>2. T \in Seq(Row \cup {leg}) /\ Len(T) = Len(txs) + 1 /\ T[Len(txs) + 1] = leg
          /\ \A i \in 1..Len(txs) : T[i] = half[i]
      BY <1>3, <2>1, AppendProperties
    <2>3. QED
      BY <2>2, LenProperties
  <1>5. \A i \in 1..Len(txs) : N[i] = newBalance[i]
    BY Columns, OneMoreKeeps
  <1> HIDE DEF T, N
  <1>6. Covers(T, N, S)
    <2>1. \A i \in DOMAIN T : i \notin 1..Len(txs) => i = Len(txs) + 1
      BY <1>4, RowFacts
    <2>2. \A i \in 1..Len(txs) : i \in DOMAIN T
      BY <1>4, RowFacts
    <2>3. QED
      BY <1>2, <1>3, <1>4, <1>5, <2>1, <2>2 DEF Covers, TouchedBy
  <1> HIDE DEF S
  <1>7. QED
    BY <1>1, <1>6, CoveredBy DEF IInv

LEMMA DeleteCovers ==
    ASSUME IInv, IInv', NEW u \in Users, NEW id \in 1..Len(txs), DeleteTransaction(u, id)
    PROVE  Covered
  <1> DEFINE dead(i) == [txs[i] EXCEPT !.deleted = TRUE]
             T == [i \in DOMAIN txs |-> IF i \in DeletedWith(id) THEN dead(i) ELSE txs[i]]
             S == {txs[id].account}
                  \cup IF HasLinked(txs[id]) THEN {txs[txs[id].linked].account} ELSE {}
  <1>1. StoreAndReplay(T, newBalance, S)
    BY DEF DeleteTransaction
  <1>2. \A i \in 1..Len(txs) : dead(i).account = txs[i].account
                               /\ (txs[i].deleted => dead(i) = txs[i])
    BY RowFacts DEF Row
  <1>3. ASSUME NEW i \in 1..Len(txs), T[i] # txs[i]
        PROVE  {txs[i].account, T[i].account} \subseteq S
    <2>1. i \in DeletedWith(id) /\ T[i] = dead(i) /\ ~txs[i].deleted
      BY <1>2, <1>3, RowFacts
    <2>2. i = id \/ (HasLinked(txs[id]) /\ txs[id].linked = i)
      <3> HIDE DEF T
      <3>1. i = id \/ (txs[id].isTransfer /\ txs[id].linked = i)
        <4>1. i \in DeletedWith(id)
          BY <2>1
        <4>2. QED
          BY <4>1 DEF DeletedWith
      <3>2. i # NoTx
        BY RowFacts DEF NoTx
      <3>3. QED
        BY <2>1, <3>1, <3>2 DEF HasLinked
    <2>3. QED
      BY <1>2, <2>1, <2>2
  <1> HIDE DEF dead
  <1>4. Covers(T, newBalance, S)
    BY <1>3, RowFacts DEF Covers
  <1> HIDE DEF T, S
  <1>5. QED
    BY <1>1, <1>4, CoveredBy DEF IInv

\* A request about a transaction adds rows or is covered.
LEMMA TransactionCovers ==
    ASSUME IInv, IInv', NEW u \in Users, TransactionRequest(u)
    PROVE  Covered \/ \E in \in Inputs : CreateTransaction(u, in)
  <1>1. CASE \E id \in DOMAIN txs, in \in Inputs : UpdateTransaction(u, id, in)
    BY <1>1, RowFacts, UpdateAloneCovers, UpdateUnlinkCovers, UpdateTransferCovers,
       UpdateLinkCovers DEF UpdateTransaction
  <1>2. CASE \E id \in DOMAIN txs : DeleteTransaction(u, id)
    BY <1>2, RowFacts, DeleteCovers
  <1>3. QED
    BY <1>1, <1>2 DEF TransactionRequest

\* Every step is covered or leaves the rows that are there as they are.
LEMMA CoveredOrKept ==
    ASSUME IInv, IInv', [Next]_vars
    PROVE  Covered \/ KeepsRows
  <1>1. ASSUME NEW u \in Users, AccountRequest(u) PROVE KeepsRows
    BY <1>1, AccountWrites
  <1>2. ASSUME NEW u \in Users, TransactionRequest(u) PROVE Covered \/ KeepsRows
    BY <1>2, TransactionCovers, CreateWrites
  <1>3. CASE RunCLI
    BY <1>3, ReconcileWrites DEF RunCLI
  <1>4. CASE Tick \/ UNCHANGED vars
    BY <1>4 DEF Tick, vars, KeepsRows, WritesRow
  <1>5. QED
    BY <1>1, <1>2, <1>3, <1>4 DEF Next

-----------------------------------------------------------------------------
(* Theorems about edits.                                                    *)

\* Whatever edits and deletions do to the rows of an account, its balance is what a
\* replay gives (services/transactions/service.go:356).
THEOREM LedgerSettledAfterEdit == Spec => SettledAfterEdit
  <1>1. ASSUME IInv, IInv', [Next]_vars,
               NEW i \in DOMAIN txs, txs'[i] # txs[i],
               NEW a \in {txs[i].account, txs'[i].account}, Visible(a)
        PROVE  Settled(a)'
    <2>1. Covered
      BY <1>1, CoveredOrKept DEF KeepsRows, WritesRow
    <2>2. PICK T, N, S : Table(T) /\ StoreAndReplay(T, N, S) /\ Covers(T, N, S)
      BY <2>1 DEF Covered
    <2>3. txs' = T /\ i \in 1..Len(txs) /\ i \in DOMAIN T
      BY <2>2, RowFacts DEF StoreAndReplay, Covers
    <2>4. a \in S
      BY <1>1, <2>2, <2>3 DEF Covers
    <2>5. a \in Accounts
      <3>1. txs[i] \in Row
        BY <1>1, RowFacts
      <3>2. T[i] \in Row
        BY <2>2, <2>3, LiveRows
      <3>3. txs[i].account \in Accounts /\ T[i].account \in Accounts
        BY <3>1, <3>2 DEF Row
      <3>4. QED
        BY <1>1, <2>3, <3>3
    <2>6. QED
      BY <1>1, <2>2, <2>4, <2>5, Settles
  <1>2. IInv /\ IInv' /\ [Next]_vars =>
          \A i \in DOMAIN txs : txs'[i] # txs[i] =>
              \A a \in {txs[i].account, txs'[i].account} : Visible(a) => Settled(a)'
    BY <1>1
  <1>3. QED
    BY <1>2, LedgerInvariant, PTL DEF SettledAfterEdit, Spec

\* Replays write new_balance of every live row, and give a live adjustment row the
\* target back that its user set (services/transactions/service.go:840).
THEOREM LedgerAdjustmentTargetFixed == Spec => AdjustmentTargetFixed
  <1>1. ASSUME IInv, IInv', [Next]_vars, NEW i \in DOMAIN txs, txs'[i].isAdjustment
        PROVE  newBalance'[i] = newBalance[i]
    <2>1. CASE KeepsRows
      BY <2>1 DEF KeepsRows, WritesRow
    <2>2. CASE Covered
      <3>1. PICK T, N, S : Table(T) /\ StoreAndReplay(T, N, S) /\ Covers(T, N, S)
        BY <2>2 DEF Covered
      <3>2. txs' = T /\ i \in DOMAIN T /\ N[i] = newBalance[i]
        BY <3>1, RowFacts DEF StoreAndReplay, Covers
      <3>3. QED
        BY <1>1, <3>1, <3>2, KeepsTargets
    <2>3. QED
      BY <1>1, <2>1, <2>2, CoveredOrKept
  <1>2. IInv /\ IInv' /\ [Next]_vars =>
          \A i \in DOMAIN txs :
              /\ txs[i].isAdjustment /\ ~txs[i].deleted
              /\ txs'[i].isAdjustment
              => newBalance'[i] = newBalance[i]
    BY <1>1
  <1>3. QED
    BY <1>2, LedgerInvariant, PTL DEF AdjustmentTargetFixed, Spec

-----------------------------------------------------------------------------
(* Without adjustments a replay adds up.                                    *)

Signed(row) == IF row.isIncome THEN row.amount ELSE -row.amount

Amounts(T, S) == [i \in S |-> Signed(T[i])]

\* The sum over one row more.
LEMMA OneRowMore ==
    ASSUME NEW T, Table(T), NEW S \in SUBSET DOMAIN T
    PROVE  /\ SumFunction(Amounts(T, S)) \in Int
           /\ S = {} => SumFunction(Amounts(T, S)) = 0
           /\ \A x \in (DOMAIN T) \ S :
                 SumFunction(Amounts(T, S \cup {x})) = SumFunction(Amounts(T, S)) + Signed(T[x])
  <1>1. ASSUME NEW U \in SUBSET DOMAIN T
        PROVE  Summable(Amounts(T, U)) /\ DOMAIN Amounts(T, U) = U
    <2>1. IsFiniteSet(U)
      BY LiveRows, FS_Subset
    <2>2. \A i \in U : Signed(T[i]) \in Int
      BY LiveRows DEF Signed, Row
    <2>3. QED
      BY <2>1, <2>2 DEF Summable, Amounts
  <1>2. SumFunction(Amounts(T, S)) \in Int /\ (S = {} => SumFunction(Amounts(T, S)) = 0)
    BY <1>1, SumIsInt
  <1>3. ASSUME NEW x \in (DOMAIN T) \ S
        PROVE  SumFunction(Amounts(T, S \cup {x})) = SumFunction(Amounts(T, S)) + Signed(T[x])
    <2>1. PICK f : f = Amounts(T, S \cup {x})
      OBVIOUS
    <2>2. Summable(f) /\ x \in DOMAIN f /\ f[x] = Signed(T[x])
      BY <1>1, <2>1 DEF Amounts
    <2>3. Without(f, x) = Amounts(T, S)
      BY <2>1 DEF Without, Amounts
    <2>4. SumFunction(f) = f[x] + SumFunction(Amounts(T, S))
      BY <2>2, <2>3, SumSplits
    <2>5. f[x] \in Int
      BY <2>2 DEF Summable
    <2>6. QED
      BY <1>2, <2>1, <2>2, <2>4, <2>5
  <1>4. QED
    BY <1>2, <1>3

\* The live rows of account a with ranks from m on, and from m up to k.
RankedFrom(T, a, m)   == {i \in LiveIn(T, a) : m <= Rank(T, a, i)}
Ranked(T, a, m, k) == {i \in LiveIn(T, a) : m <= Rank(T, a, i) /\ Rank(T, a, i) < k}

\* From rank m on a replay adds up the rows, if there is no adjustment among them.
LEMMA AddsUp ==
    ASSUME NEW T, Table(T), NEW N, NEW a, NEW s, NEW run,
           Replays(run, s, T, N, Chronological(T, a)),
           NEW m \in 0..Cardinality(LiveIn(T, a)), run[m] \in Int,
           \A i \in RankedFrom(T, a, m) : ~T[i].isAdjustment
    PROVE  run[Cardinality(LiveIn(T, a))]
               = run[m] + SumFunction(Amounts(T, RankedFrom(T, a, m)))
  <1>1. PICK n, L : L = LiveIn(T, a) /\ n = Cardinality(L)
    OBVIOUS
  <1>2. PICK rows : rows = Chronological(T, a)
    OBVIOUS
  <1>3. /\ n \in Nat /\ Len(rows) = n /\ m \in 0..n
        /\ \A k \in 1..n : rows[k] \in L /\ Rank(T, a, rows[k]) = k - 1
    BY <1>1, <1>2, Visits
  <1>4. L \subseteq DOMAIN T /\ \A i \in L : T[i] \in Row
    BY <1>1, LiveRows
  <1>5. /\ \A i \in L : Rank(T, a, i) \in Nat /\ Rank(T, a, i) < n
        /\ \A i, j \in L : Rank(T, a, i) = Rank(T, a, j) => i = j
    BY <1>1, Ranks
  <1> DEFINE sum(k) == SumFunction(Amounts(T, Ranked(T, a, m, k)))
             G == {k \in 0..n : IF k <= m THEN TRUE ELSE run[k] = run[m] + sum(k)}
  <1>6. \A k \in 0..n : Ranked(T, a, m, k) \in SUBSET DOMAIN T /\ sum(k) \in Int
    <2> TAKE k \in 0..n
    <2>1. Ranked(T, a, m, k) \in SUBSET DOMAIN T
      BY <1>1, <1>4 DEF Ranked
    <2>2. QED
      BY <2>1, OneRowMore
  <1>7. sum(m) = 0
    <2>1. Ranked(T, a, m, m) = {}
      BY <1>1, <1>3, <1>5 DEF Ranked
    <2>2. QED
      BY <1>3, <1>6, <2>1, OneRowMore
  <1>8. ASSUME NEW k \in 0..n, k < n, m <= k, run[k] = run[m] + sum(k)
        PROVE  run[k + 1] = run[m] + sum(k + 1)
    <2>1. k + 1 \in 1..n /\ k + 1 \in 0..n /\ k + 1 # 0 /\ (k + 1) - 1 = k /\ k \in Nat
      BY <1>3, <1>8
    <2>2. PICK x : x = rows[k + 1]
      OBVIOUS
    <2>3. x \in L /\ Rank(T, a, x) = k
      BY <1>3, <2>1, <2>2
    <2>4. Ranked(T, a, m, k + 1) = Ranked(T, a, m, k) \cup {x} /\ x \notin Ranked(T, a, m, k)
      <3>1. \A i \in L : Rank(T, a, i) < k + 1 <=> Rank(T, a, i) < k \/ i = x
        BY <1>5, <2>1, <2>3
      <3>2. QED
        BY <1>1, <1>3, <1>8, <2>1, <2>3, <3>1 DEF Ranked
    <2>5. sum(k + 1) = sum(k) + Signed(T[x])
      BY <1>4, <1>6, <2>3, <2>4, OneRowMore
    <2>6. ~T[x].isAdjustment
      BY <1>1, <1>8, <2>3 DEF RankedFrom
    <2>7. run[k + 1] = Apply(run[k], T[x], N[x])
      BY <1>2, <1>3, <2>1, <2>2 DEF Replays
    <2>8. sum(k) \in Int /\ T[x].amount \in Int /\ T[x] \in Row
      BY <1>4, <1>6, <2>3 DEF Row
    <2> HIDE DEF sum
    <2>9. QED
      BY <1>8, <2>5, <2>6, <2>7, <2>8 DEF Apply, Signed
  <1>9. 0 \in G
    BY <1>3
  <1>10. ASSUME NEW k \in 0..n, k \in G, k < n
         PROVE  k + 1 \in G
    <2> HIDE DEF sum
    <2>1. k + 1 \in 0..n /\ k \in Nat /\ m \in Nat
      BY <1>3, <1>10
    <2>2. CASE k + 1 <= m
      BY <2>1, <2>2
    <2>3. CASE m <= k
      <3>1. run[k] = run[m] + sum(k)
        <4>1. CASE k = m
          BY <1>7, <4>1
        <4>2. CASE k # m
          BY <1>10, <2>1, <2>3, <4>2
        <4>3. QED
          BY <4>1, <4>2
      <3>2. run[k + 1] = run[m] + sum(k + 1)
        BY <1>8, <1>10, <2>3, <3>1
      <3>3. QED
        BY <2>1, <3>2
    <2>4. QED
      BY <2>1, <2>2, <2>3
  <1>11. 0..n \subseteq G
    <2> HIDE DEF G
    <2>1. QED
      BY <1>3, <1>9, <1>10, UpTo
  <1>12. run[n] = run[m] + sum(n)
    <2> HIDE DEF sum
    <2>1. n \in G
      BY <1>3, <1>11
    <2>2. CASE n <= m
      <3>1. n = m
        BY <1>3, <2>2
      <3>2. QED
        BY <1>7, <3>1
    <2>3. QED
      BY <2>1, <2>2
  <1>13. Ranked(T, a, m, n) = RankedFrom(T, a, m)
    BY <1>1, <1>5 DEF Ranked, RankedFrom
  <1>14. QED
    BY <1>1, <1>12, <1>13

\* An account without adjustments.
LEMMA PlainReplay ==
    ASSUME NEW T, Table(T), NEW N, NEW a, NEW s \in Int,
           \A i \in LiveIn(T, a) : ~T[i].isAdjustment
    PROVE  Final(s, T, N, a) = s + SumFunction(Amounts(T, LiveIn(T, a)))
  <1>1. PICK rows, run : rows = Chronological(T, a) /\ run = ReplayFrom(s, T, N, rows)
    OBVIOUS
  <1>2. Len(rows) \in Nat /\ 0 \in 0..Cardinality(LiveIn(T, a))
    BY <1>1, Visits
  <1>3. Replays(run, s, T, N, rows)
    BY <1>1, <1>2, ReplayExists
  <1>4. run[0] = s
    BY <1>2, <1>3 DEF Replays
  <1>5. RankedFrom(T, a, 0) = LiveIn(T, a)
    BY Ranks DEF RankedFrom
  <1>6. run[Cardinality(LiveIn(T, a))] = s + SumFunction(Amounts(T, LiveIn(T, a)))
    BY <1>1, <1>2, <1>3, <1>4, <1>5, AddsUp
  <1>7. QED
    BY <1>1, <1>6 DEF Final

\* The last row of account a is the adjustment i.
EndsInAdjustment(T, a, i) ==
    /\ i \in LiveIn(T, a) /\ T[i].isAdjustment
    /\ \A j \in LiveIn(T, a) \ {i} : Precedes(T, j, i)

\* An adjustment that comes after all other rows decides.
LEMMA LastAdjusts ==
    ASSUME NEW T, Table(T), NEW N, NEW a, NEW s, NEW i, EndsInAdjustment(T, a, i)
    PROVE  Final(s, T, N, a) = N[i]
  <1>1. PICK L, n : L = LiveIn(T, a) /\ n = Cardinality(L)
    OBVIOUS
  <1>2. PICK rows, run : rows = Chronological(T, a) /\ run = ReplayFrom(s, T, N, rows)
    OBVIOUS
  <1>3. n \in Nat /\ IsFiniteSet(L) /\ L \subseteq DOMAIN T /\ i \in L
    BY <1>1, LiveRows DEF EndsInAdjustment
  <1>4. Rank(T, a, i) = n - 1
    <2>1. {j \in L : Precedes(T, j, i)} = L \ {i}
      BY <1>1, <1>3, Linear DEF EndsInAdjustment
    <2>2. Cardinality(L \ {i}) = n - 1
      BY <1>1, <1>3, FS_RemoveElement
    <2>3. QED
      BY <1>1, <2>1, <2>2 DEF Rank
  <1>5. Rank(T, a, i) + 1 = n /\ n \in 1..n /\ rows[n] = i /\ Len(rows) = n
    <2>1. Rank(T, a, i) + 1 = n
      BY <1>3, <1>4
    <2>2. QED
      BY <1>1, <1>2, <1>3, <2>1, Visits
  <1>6. Replays(run, s, T, N, rows)
    BY <1>2, <1>3, <1>5, ReplayExists
  <1>7. run[n] = Apply(run[n - 1], T[i], N[i])
    BY <1>5, <1>6 DEF Replays
  <1>8. QED
    BY <1>1, <1>2, <1>7 DEF Final, Apply, EndsInAdjustment

-----------------------------------------------------------------------------
(* Steps that add rows.                                                     *)

\* Rows are added after those that are there.
Adds == KeepsRows /\ Len(txs) <= Len(txs')

\* The rows of account a that a step adds.
AddedTo(a) == {i \in LiveIn(txs', a) : i > Len(txs)}

LEMMA AddedRows ==
    ASSUME IInv, IInv', Adds, NEW a
    PROVE  /\ LiveIn(txs', a) = LiveIn(txs, a) \cup AddedTo(a)
           /\ LiveIn(txs, a) \cap AddedTo(a) = {}
           /\ \A i \in LiveIn(txs, a) : i \in 1..Len(txs) /\ txs'[i] = txs[i]
                                        /\ newBalance'[i] = newBalance[i]
  <1>1. DOMAIN txs = 1..Len(txs) /\ Len(txs) \in Nat
    BY RowFacts
  <1>2. DOMAIN txs' = 1..Len(txs') /\ Len(txs') \in Nat
    BY LenProperties DEF IInv, TypeOK
  <1>3. \A i \in 1..Len(txs) : /\ i \in 1..Len(txs') /\ ~(i > Len(txs))
                               /\ txs'[i] = txs[i] /\ newBalance'[i] = newBalance[i]
    BY <1>1, <1>2 DEF Adds, KeepsRows, WritesRow
  <1>4. \A i \in 1..Len(txs') : i \in 1..Len(txs) \/ i > Len(txs)
    BY <1>1, <1>2
  <1>5. \A i \in LiveIn(txs, a) : i \in 1..Len(txs)
    BY <1>1 DEF LiveIn
  <1>6. LiveIn(txs', a) = LiveIn(txs, a) \cup AddedTo(a)
    BY <1>1, <1>2, <1>3, <1>4 DEF LiveIn, AddedTo
  <1>7. QED
    BY <1>3, <1>5, <1>6 DEF AddedTo

\* Nothing is added to account a, and its balances stay.
LEMMA Elsewhere ==
    ASSUME IInv, IInv', Adds, NEW a \in Accounts, AddedTo(a) = {},
           balance'[a] = balance[a], initial'[a] = initial[a], Settled(a)
    PROVE  Settled(a)'
  <1>1. SameRows(txs, newBalance, txs', newBalance', a)
    BY AddedRows DEF SameRows, SameEffect
  <1>2. Table(txs) /\ Table(txs')
    BY TableNow, TableNext DEF IInv
  <1>3. Final(initial[a], txs, newBalance, a) = Final(initial[a], txs', newBalance', a)
    BY <1>1, <1>2, SameReplay
  <1>4. QED
    BY <1>3, SettledIs

\* One row is added to account a, which has no adjustment, and its amount is added
\* to the balance.
LEMMA OneAdded ==
    ASSUME IInv, IInv', Adds, NEW a \in Accounts, NEW id, AddedTo(a) = {id},
           balance'[a] = balance[a] + Signed(txs'[id]), initial'[a] = initial[a],
           ~HasAdjustment(a)', Settled(a)
    PROVE  Settled(a)'
  <1>1. PICK T, U, N, M : T = txs /\ U = txs' /\ N = newBalance /\ M = newBalance'
    OBVIOUS
  <1>2. PICK s, L : s = initial[a] /\ L = LiveIn(T, a)
    OBVIOUS
  <1>3. Table(T) /\ Table(U) /\ s \in Int
    BY <1>1, <1>2, TableNow, TableNext DEF IInv, TypeOK
  <1>4. LiveIn(U, a) = L \cup {id} /\ id \notin L /\ \A i \in L : U[i] = T[i]
    BY <1>1, <1>2, AddedRows
  <1>5. \A i \in LiveIn(U, a) : ~U[i].isAdjustment
    BY <1>1 DEF HasAdjustment
  <1>6. \A i \in L : ~T[i].isAdjustment
    BY <1>4, <1>5
  <1>7. Final(s, T, N, a) = s + SumFunction(Amounts(T, L))
    BY <1>2, <1>3, <1>6, PlainReplay
  <1>8. Final(s, U, M, a) = s + SumFunction(Amounts(U, L \cup {id}))
    BY <1>3, <1>4, <1>5, PlainReplay
  <1>9. L \in SUBSET DOMAIN U /\ id \in DOMAIN U
    BY <1>3, <1>4, LiveRows
  <1>10. Amounts(U, L) = Amounts(T, L)
    BY <1>4 DEF Amounts
  <1>11. /\ SumFunction(Amounts(U, L \cup {id})) = SumFunction(Amounts(T, L)) + Signed(U[id])
         /\ SumFunction(Amounts(T, L)) \in Int
    BY <1>3, <1>4, <1>9, <1>10, OneRowMore
  <1>12. U[id] \in Row /\ Signed(U[id]) \in Int
    BY <1>3, <1>9, LiveRows DEF Signed, Row
  <1>13. Final(s, U, M, a) = Final(s, T, N, a) + Signed(U[id])
    BY <1>3, <1>7, <1>8, <1>11, <1>12
  <1>14. QED
    BY <1>1, <1>2, <1>13, SettledIs

\* Where appended rows are.
LEMMA RowsAppended ==
    ASSUME IInv, NEW Y, NEW R \in Seq(Y), NEW Z, NEW B \in Seq(Z), Len(B) = Len(R),
           txs' = txs \o R, newBalance' = newBalance \o B
    PROVE  /\ Adds /\ Len(txs') = Len(txs) + Len(R)
           /\ \A k \in 1..Len(R) : /\ txs'[Len(txs) + k] = R[k]
                                   /\ newBalance'[Len(txs) + k] = B[k]
  <1>1. Len(txs) \in Nat /\ Len(R) \in Nat
    BY Columns, LenProperties
  <1>2. ASSUME NEW X, NEW s \in Seq(X), NEW W, NEW r \in Seq(W), Len(s) = Len(txs),
               Len(r) = Len(R)
        PROVE  /\ Len(s \o r) = Len(txs) + Len(R)
               /\ \A k \in 1..Len(R) : (s \o r)[Len(txs) + k] = r[k]
    <2>1. s \in Seq(X \cup W) /\ r \in Seq(X \cup W)
      BY SeqMonotonic
    <2>2. \A k \in 1..Len(R) : /\ Len(txs) + k \in 1..(Len(s) + Len(r))
                               /\ ~(Len(txs) + k <= Len(s)) /\ (Len(txs) + k) - Len(s) = k
      BY <1>1, <1>2
    <2>3. /\ Len(s \o r) = Len(s) + Len(r)
          /\ \A i \in 1..(Len(s) + Len(r)) :
                (s \o r)[i] = IF i <= Len(s) THEN s[i] ELSE r[i - Len(s)]
      BY <2>1, ConcatProperties
    <2>4. QED
      BY <1>2, <2>2, <2>3
  <1>3. Len(txs') = Len(txs) + Len(R) /\ \A k \in 1..Len(R) : txs'[Len(txs) + k] = R[k]
    BY <1>2, Columns
  <1>4. \A k \in 1..Len(R) : newBalance'[Len(txs) + k] = B[k]
    BY <1>2, Columns
  <1>5. Len(txs) <= Len(txs')
    BY <1>1, <1>3
  <1>6. KeepsRows
    BY AppendedRows
  <1>7. QED
    BY <1>3, <1>4, <1>5, <1>6 DEF Adds

LEMMA RowAppended ==
    ASSUME IInv, NEW row, NEW b, txs' = Append(txs, row), newBalance' = Append(newBalance, b)
    PROVE  /\ Adds /\ Len(txs') = Len(txs) + 1
           /\ txs'[Len(txs) + 1] = row
  <1>1. txs \in Seq(Row \cup {row}) /\ row \in Row \cup {row} /\ Len(txs) \in Nat
    BY Columns, SeqMonotonic, LenProperties
  <1>2. Len(txs') = Len(txs) + 1 /\ txs'[Len(txs) + 1] = row
    BY <1>1, AppendProperties
  <1>3. KeepsRows
    BY AppendedRow
  <1>4. QED
    BY <1>1, <1>2, <1>3 DEF Adds

\* Creation adds to the stored balance what it adds to the rows.
LEMMA CreateSettles ==
    ASSUME IInv, IInv', NEW u \in Users, NEW in \in Inputs, CreateTransaction(u, in),
           NEW a \in Accounts, Settled(a), ~HasAdjustment(a)'
    PROVE  Settled(a)'
  <1> DEFINE n   == Len(txs)
             row == SourceRow(u, in)
             b   == SourceBalance(u, in)
             c   == TargetBalance(in)
             one == [row EXCEPT !.linked = n + 1 + 1]
             leg == LinkedRow(u, in, n + 1)
  <1>1. n \in Nat /\ UNCHANGED initial /\ in.account \in Accounts /\ balance \in [Accounts -> Int]
    BY RowFacts, InputFacts DEF CreateTransaction, IInv, TypeOK
  <1>2. \A i \in DOMAIN txs' : i \in 1..Len(txs')
    BY LenProperties DEF IInv, TypeOK
  <1>3. ASSUME NEW r, r \in {row, one}
        PROVE  /\ r.account = in.account /\ ~r.deleted
               /\ r.isAdjustment = in.isAdjustment
               /\ ~in.isAdjustment => b = balance[in.account] + Signed(r)
    <2>1. row.isIncome \in BOOLEAN /\ row.amount \in Int
      BY InputFacts DEF IInv, SourceRow
    <2>2. /\ r.account = row.account /\ r.deleted = row.deleted /\ r.amount = row.amount
          /\ r.isAdjustment = row.isAdjustment /\ r.isIncome = row.isIncome
      BY <1>3 DEF SourceRow
    <2>3. row.account = in.account /\ ~row.deleted /\ row.isAdjustment = in.isAdjustment
      BY DEF SourceRow
    <2> HIDE DEF row, one
    <2>4. ~in.isAdjustment => b = balance[in.account] + Signed(row)
      BY <1>1, <2>1, <2>3 DEF SourceBalance, Apply, Signed, row
    <2>5. Signed(r) = Signed(row)
      BY <2>2 DEF Signed
    <2>6. QED
      BY <2>2, <2>3, <2>4, <2>5
  <1>4. /\ leg.account = in.target /\ ~leg.deleted
        /\ c = balance[in.target] + Signed(leg)
    BY DEF LinkedRow, TargetBalance, Signed
  <1> HIDE DEF row, one, leg, b, c
  <1>5. CASE ~HasTarget(in)
    <2>1. /\ txs' = Append(txs, row) /\ newBalance' = Append(newBalance, b)
          /\ balance' = [balance EXCEPT ![in.account] = b]
      BY <1>5 DEF CreateTransaction, row, b
    <2>2. Adds /\ Len(txs') = n + 1 /\ txs'[n + 1] = row
      BY <2>1, RowAppended
    <2>3. \A i \in AddedTo(a) : i = n + 1
      BY <1>1, <1>2, <2>2 DEF AddedTo, LiveIn
    <2>4. CASE a = in.account
      <3>1. n + 1 \in AddedTo(a)
        <4>1. DOMAIN txs' = 1..(n + 1)
          BY <2>2, LenProperties DEF IInv, TypeOK
        <4>2. QED
          BY <1>1, <1>3, <2>2, <2>4, <4>1 DEF AddedTo, LiveIn
      <3>2. ~in.isAdjustment
        BY <1>3, <2>2, <3>1 DEF HasAdjustment, AddedTo
      <3>3. AddedTo(a) = {n + 1} /\ balance'[a] = balance[a] + Signed(txs'[n + 1])
        BY <1>1, <1>3, <2>1, <2>2, <2>3, <2>4, <3>1, <3>2
      <3>4. QED
        BY <1>1, <2>2, <3>3, OneAdded
    <2>5. CASE a # in.account
      <3>1. AddedTo(a) = {} /\ balance'[a] = balance[a]
        BY <1>1, <1>3, <2>1, <2>2, <2>3, <2>5 DEF AddedTo, LiveIn
      <3>2. QED
        BY <1>1, <2>2, <3>1, Elsewhere
    <2>6. QED
      BY <2>4, <2>5
  <1>6. CASE HasTarget(in)
    <2>1. /\ txs' = txs \o <<one, leg>> /\ newBalance' = newBalance \o <<b, c>>
          /\ balance' = [balance EXCEPT ![in.account] = b, ![in.target] = c]
      BY <1>6 DEF CreateTransaction, row, one, leg, b, c
    <2>2. in.target # in.account /\ in.target \in Accounts
      BY <1>6, InputFacts DEF CreateTransaction, SelfTransfer, HasTarget, IInv
    <2>3. Adds /\ Len(txs') = n + 2 /\ txs'[n + 1] = one /\ txs'[n + 2] = leg
      <3>1. <<one, leg>> \in Seq({one, leg}) /\ <<b, c>> \in Seq({b, c})
            /\ Len(<<one, leg>>) = 2 /\ Len(<<b, c>>) = 2
        OBVIOUS
      <3>2. PICK R, B : R = <<one, leg>> /\ B = <<b, c>>
        OBVIOUS
      <3>3. /\ Adds /\ Len(txs') = n + 2
            /\ \A k \in 1..2 : txs'[n + k] = R[k]
        BY <2>1, <3>1, <3>2, RowsAppended
      <3>4. QED
        BY <3>2, <3>3
    <2>4. \A i \in AddedTo(a) : i = n + 1 \/ i = n + 2
      BY <1>1, <1>2, <2>3 DEF AddedTo, LiveIn
    <2>5. n + 1 \in DOMAIN txs' /\ n + 2 \in DOMAIN txs' /\ n + 1 # n + 2
      BY <1>1, <2>3, LenProperties DEF IInv, TypeOK
    <2>6. CASE a = in.account
      <3>1. n + 1 \in AddedTo(a) /\ n + 2 \notin AddedTo(a)
        BY <1>1, <1>3, <1>4, <2>2, <2>3, <2>5, <2>6 DEF AddedTo, LiveIn
      <3>2. ~in.isAdjustment
        BY <1>3, <2>3, <3>1 DEF HasAdjustment, AddedTo
      <3>3. AddedTo(a) = {n + 1} /\ balance'[a] = balance[a] + Signed(txs'[n + 1])
        BY <1>1, <1>3, <2>1, <2>2, <2>3, <2>4, <2>6, <3>1, <3>2
      <3>4. QED
        BY <1>1, <2>3, <3>3, OneAdded
    <2>7. CASE a = in.target
      <3>1. n + 2 \in AddedTo(a) /\ n + 1 \notin AddedTo(a)
        BY <1>1, <1>3, <1>4, <2>2, <2>3, <2>5, <2>7 DEF AddedTo, LiveIn
      <3>2. AddedTo(a) = {n + 2} /\ balance'[a] = balance[a] + Signed(txs'[n + 2])
        BY <1>1, <1>4, <2>1, <2>2, <2>3, <2>4, <2>7, <3>1
      <3>3. QED
        BY <1>1, <2>3, <3>2, OneAdded
    <2>8. CASE a \notin {in.account, in.target}
      <3>1. AddedTo(a) = {} /\ balance'[a] = balance[a]
        BY <1>1, <1>3, <1>4, <2>1, <2>2, <2>3, <2>4, <2>8 DEF AddedTo, LiveIn
      <3>2. QED
        BY <1>1, <2>3, <3>1, Elsewhere
    <2>9. QED
      BY <2>6, <2>7, <2>8
  <1>7. QED
    BY <1>5, <1>6

\* A manual adjustment is a row of the account it is about; the other requests
\* about accounts leave every row alone.
LEMMA AccountSettles ==
    ASSUME IInv, IInv', NEW u \in Users, AccountRequest(u),
           NEW a \in Accounts, Visible(a), Settled(a), initial'[a] = initial[a],
           ~HasAdjustment(a)'
    PROVE  Settled(a)'
  <1>1. PICK b \in Accounts :
          \/ \E bal, init \in Balances : CreateAccount(u, b, bal, init)
          \/ \E init \in Balances : UpdateAccount(u, b, init)
          \/ DeleteAccount(u, b)
          \/ \E flag \in ArchiveFlags : SetArchiveStatus(u, b, flag)
          \/ \E bal \in Balances : AdjustBalance(u, b, bal)
    BY DEF AccountRequest
  <1>2. balance \in [Accounts -> Int]
    BY DEF IInv, TypeOK
  <1>3. CASE \E bal \in Balances : AdjustBalance(u, b, bal)
    <2>1. PICK bal \in Balances : AdjustBalance(u, b, bal)
      BY <1>3
    <2>2. PICK row : row = AdjustmentRow(b, balance[b], bal)
      OBVIOUS
    <2>3. row.account = b /\ row.isAdjustment /\ ~row.deleted
      BY <2>2 DEF AdjustmentRow
    <2>4. /\ txs' = Append(txs, row) /\ newBalance' = Append(newBalance, bal)
          /\ balance' = [balance EXCEPT ![b] = bal]
      BY <2>1, <2>2 DEF AdjustBalance
    <2>5. Adds /\ Len(txs') = Len(txs) + 1 /\ txs'[Len(txs) + 1] = row
      BY <2>4, RowAppended
    <2>6. Len(txs) \in Nat /\ DOMAIN txs' = 1..(Len(txs) + 1)
      BY <2>5, RowFacts, LenProperties DEF IInv, TypeOK
    <2>7. b # a
      <3>1. Len(txs) + 1 \in LiveIn(txs', b)
        BY <2>3, <2>5, <2>6 DEF LiveIn
      <3>2. QED
        BY <2>3, <2>5, <3>1 DEF HasAdjustment
    <2>8. AddedTo(a) = {}
      BY <2>3, <2>5, <2>6, <2>7 DEF AddedTo, LiveIn
    <2>9. balance'[a] = balance[a]
      BY <1>2, <2>4, <2>7
    <2>10. QED
      BY <2>5, <2>8, <2>9, Elsewhere
  <1>4. CASE ~\E bal \in Balances : AdjustBalance(u, b, bal)
    <2>1. UNCHANGED <<txs, newBalance>> /\ balance'[a] = balance[a]
      BY <1>1, <1>2, <1>4 DEF CreateAccount, UpdateAccount, DeleteAccount, SetArchiveStatus, Visible
    <2>2. QED
      BY <2>1, SettledIs
  <1>5. QED
    BY <1>3, <1>4

\* What a run of the command writes: one adjustment for each divergent account.
LEMMA ReconcileRows ==
    ASSUME IInv, NEW uid, NEW aid, Reconcile(uid, aid)
    PROVE  LET D == DetectDivergences(LoadAccounts(uid, aid))
               n == Cardinality(D)
           IN  /\ n \in Nat /\ D \subseteq Accounts
               /\ Adds /\ Len(txs') = Len(txs) + n /\ UNCHANGED <<initial, balance, now>>
               /\ \E order \in Bijection(1..n, D) : \A k \in 1..n :
                     /\ txs'[Len(txs) + k].account = order[k]
                     /\ txs'[Len(txs) + k].isAdjustment /\ ~txs'[Len(txs) + k].deleted
                     /\ txs'[Len(txs) + k].date = now
                     /\ newBalance'[Len(txs) + k] = balance[order[k]]
  <1> DEFINE D == DetectDivergences(LoadAccounts(uid, aid))
             n == Cardinality(D)
             recalc(a) == RecalculateFromTransactions(txs, newBalance, a)
  <1>1. D \subseteq Accounts /\ IsFiniteSet(D) /\ n \in Nat
    <2>1. D \subseteq Accounts
      BY DEF DetectDivergences, LoadAccounts
    <2>2. QED
      BY <2>1, LedgerAssumption, FS_Subset, FS_CardinalityType
  <1>2. PICK order \in [1..n -> D] :
          /\ \A j, k \in 1..n : j < k => order[j] < order[k]
          /\ txs' = txs \o [k \in 1..n |-> AdjustmentRow(order[k], recalc(order[k]),
                                                         balance[order[k]])]
          /\ newBalance' = newBalance \o [k \in 1..n |-> balance[order[k]]]
    BY DEF Reconcile
  <1> DEFINE row(k) == AdjustmentRow(order[k], recalc(order[k]), balance[order[k]])
             Y == {row(k) : k \in 1..n}
             Z == {balance[order[k]] : k \in 1..n}
  <1>3. \A k \in 1..n : /\ row(k).account = order[k] /\ row(k).isAdjustment
                        /\ ~row(k).deleted /\ row(k).date = now
    BY DEF AdjustmentRow
  <1>4. PICK R, B : R = [k \in 1..n |-> row(k)] /\ B = [k \in 1..n |-> balance[order[k]]]
    OBVIOUS
  <1>5. txs' = txs \o R /\ newBalance' = newBalance \o B
    BY <1>2, <1>4
  <1> HIDE DEF row, recalc, D, n
  <1>6. R \in [1..n -> Y] /\ B \in [1..n -> Z]
    BY <1>4
  <1> HIDE DEF Y, Z
  <1>7. R \in Seq(Y) /\ B \in Seq(Z) /\ Len(R) = n /\ Len(B) = n
    BY <1>1, <1>6, SeqDef, LenProperties
  <1>8. /\ Adds /\ Len(txs') = Len(txs) + n
        /\ \A k \in 1..n : txs'[Len(txs) + k] = R[k] /\ newBalance'[Len(txs) + k] = B[k]
    <2>1. R \in Seq(Y) /\ B \in Seq(Z) /\ Len(B) = Len(R)
      BY <1>7
    <2>2. /\ Adds /\ Len(txs') = Len(txs) + Len(R)
          /\ \A k \in 1..Len(R) : /\ txs'[Len(txs) + k] = R[k]
                                  /\ newBalance'[Len(txs) + k] = B[k]
      BY <1>5, <2>1, RowsAppended, ZenonT(60)
    <2>3. QED
      BY <1>7, <2>2
  <1>9. order \in Bijection(1..n, D)
    <2>1. \A j, k \in 1..n : order[j] = order[k] => j = k
      <3>1. \A k \in 1..n : order[k] \in Nat
        BY <1>1, LedgerAssumption
      <3>2. \A j, k \in 1..n : j < k \/ j = k \/ k < j
        BY <1>1
      <3>3. QED
        BY <1>2, <3>1, <3>2
    <2>2. order \in Injection(1..n, D)
      BY <2>1 DEF Injection, IsInjective
    <2>3. Cardinality(1..n) = Cardinality(D)
      BY <1>1, FS_Interval DEF n
    <2>4. order \in Surjection(1..n, D)
      BY <1>1, <2>2, <2>3, FS_Injection
    <2>5. QED
      BY <2>2, <2>4 DEF Bijection
  <1>10. UNCHANGED <<initial, balance, now>>
    BY DEF Reconcile
  <1>11. \A k \in 1..n :
            /\ txs'[Len(txs) + k].account = order[k]
            /\ txs'[Len(txs) + k].isAdjustment /\ ~txs'[Len(txs) + k].deleted
            /\ txs'[Len(txs) + k].date = now
            /\ newBalance'[Len(txs) + k] = balance[order[k]]
    BY <1>3, <1>4, <1>8
  <1>12. QED
    BY <1>1, <1>8, <1>9, <1>10, <1>11 DEF D, n

\* The accounts a run writes no row for stay as they are, and it writes a row for
\* every divergent one of its scope only.
LEMMA ReconcileElsewhere ==
    ASSUME IInv, IInv', NEW uid, NEW aid, Reconcile(uid, aid), NEW a \in Accounts, Settled(a)
    PROVE  Settled(a)'
  <1> DEFINE D == DetectDivergences(LoadAccounts(uid, aid))
             n == Cardinality(D)
  <1>1. /\ n \in Nat /\ Adds /\ Len(txs') = Len(txs) + n /\ UNCHANGED <<initial, balance, now>>
        /\ \E order \in Bijection(1..n, D) : \A k \in 1..n : txs'[Len(txs) + k].account = order[k]
    BY ReconcileRows
  <1>2. PICK order \in Bijection(1..n, D) : \A k \in 1..n : txs'[Len(txs) + k].account = order[k]
    BY <1>1
  <1>3. a \notin D
    BY DEF DetectDivergences
  <1> HIDE DEF D, n
  <1>4. AddedTo(a) = {}
    <2>1. SUFFICES ASSUME NEW i \in AddedTo(a) PROVE FALSE
      OBVIOUS
    <2>2. i \in 1..(Len(txs) + n) /\ i > Len(txs) /\ txs'[i].account = a /\ Len(txs) \in Nat
      BY <1>1, RowFacts, LenProperties DEF AddedTo, LiveIn, IInv, TypeOK
    <2>3. PICK k : k = i - Len(txs)
      OBVIOUS
    <2>4. k \in 1..n /\ Len(txs) + k = i
      BY <1>1, <2>2, <2>3
    <2>5. order[k] \in D
      BY <2>4 DEF Bijection, Injection
    <2>6. QED
      BY <1>2, <1>3, <2>2, <2>4, <2>5
  <1>5. QED
    BY <1>1, <1>4, Elsewhere

-----------------------------------------------------------------------------
(* Theorems about steps that do not replay.                                 *)

\* An account that agrees with its rows and has no adjustment keeps agreeing with
\* them, although creation adds to its balance without a replay, wherever the row is
\* dated (services/transactions/service.go:133).
THEOREM LedgerNoDrift == Spec => NoDriftWithoutAdjustment
  <1>1. ASSUME IInv, IInv', [Next]_vars,
               NEW a \in Accounts, Visible(a), Settled(a), initial'[a] = initial[a],
               ~HasAdjustment(a)'
        PROVE  Settled(a)'
    <2>1. CASE Covered
      <3>1. PICK T, N, S : Table(T) /\ StoreAndReplay(T, N, S) /\ Covers(T, N, S)
        BY <2>1 DEF Covered
      <3>2. CASE a \in S
        BY <1>1, <3>1, <3>2, Settles
      <3>3. CASE a \notin S
        BY <1>1, <3>1, <3>3, Leaves
      <3>4. QED
        BY <3>2, <3>3
    <2>2. ASSUME NEW u \in Users, AccountRequest(u) PROVE Settled(a)'
      BY <1>1, <2>2, AccountSettles
    <2>3. ASSUME NEW u \in Users, TransactionRequest(u) PROVE Settled(a)'
      <3>1. CASE \E in \in Inputs : CreateTransaction(u, in)
        BY <1>1, <3>1, CreateSettles
      <3>2. QED
        BY <1>1, <2>1, <2>3, <3>1, TransactionCovers
    <2>4. CASE RunCLI
      BY <1>1, <2>4, ReconcileElsewhere DEF RunCLI
    <2>5. CASE Tick \/ UNCHANGED vars
      <3>1. UNCHANGED <<balance, initial, txs, newBalance>>
        BY <2>5 DEF Tick, vars
      <3>2. QED
        BY <1>1, <3>1, SettledIs
    <2>6. QED
      BY <1>1, <2>2, <2>3, <2>4, <2>5 DEF Next
  <1>2. IInv /\ IInv' /\ [Next]_vars =>
          \A a \in Accounts :
              /\ Visible(a) /\ Settled(a)
              /\ initial'[a] = initial[a]
              /\ ~HasAdjustment(a)'
              => Settled(a)'
    BY <1>1
  <1>3. QED
    BY <1>2, LedgerInvariant, PTL DEF NoDriftWithoutAdjustment, Spec

\* A run of the command settles every account of its scope that has no row dated in
\* the future: the adjustment it adds is the last row of the account
\* (cmd/reconcile-balances/runner.go:240).
THEOREM LedgerReconcileSettles == Spec => ReconcileSettles
  <1>1. ASSUME IInv, IInv', NEW uid \in Users \cup {NoUser}, NEW aid \in Accounts \cup {NoAccount},
               Reconcile(uid, aid), NEW a \in LoadAccounts(uid, aid), NoFutureRow(a), ~Settled(a)
        PROVE  Settled(a)'
    <2> DEFINE D == DetectDivergences(LoadAccounts(uid, aid))
               n == Cardinality(D)
    <2>1. /\ n \in Nat /\ D \subseteq Accounts /\ Adds
          /\ Len(txs') = Len(txs) + n /\ UNCHANGED <<initial, balance, now>>
      BY <1>1, ReconcileRows
    <2>2. PICK order \in Bijection(1..n, D) : \A k \in 1..n :
             /\ txs'[Len(txs) + k].account = order[k]
             /\ txs'[Len(txs) + k].isAdjustment /\ ~txs'[Len(txs) + k].deleted
             /\ txs'[Len(txs) + k].date = now
             /\ newBalance'[Len(txs) + k] = balance[order[k]]
      BY <1>1, ReconcileRows
    <2>3. a \in D /\ a \in Accounts
      BY <1>1, <2>1 DEF DetectDivergences
    <2> HIDE DEF D, n
    <2>4. /\ \A j, k \in 1..n : order[j] = order[k] => j = k
          /\ \A d \in D : \E k \in 1..n : order[k] = d
      BY DEF Bijection, Injection, Surjection, IsInjective
    <2>5. PICK k \in 1..n : order[k] = a
      BY <2>3, <2>4
    <2>6. PICK T, N, i : T = txs' /\ N = newBalance' /\ i = Len(txs) + k
      OBVIOUS
    <2>7. Table(T) /\ Len(txs) \in Nat /\ DOMAIN T = 1..(Len(txs) + n)
      BY <1>1, <2>1, <2>6, TableNext, RowFacts, LenProperties DEF IInv, TypeOK
    <2>8. /\ i \in LiveIn(T, a) /\ i > Len(txs) /\ i \in Nat
          /\ T[i].isAdjustment /\ T[i].date = now /\ N[i] = balance[a]
      <3>1. i \in DOMAIN T /\ i > Len(txs) /\ i \in Nat
        BY <2>1, <2>6, <2>7
      <3>2. QED
        BY <2>2, <2>5, <2>6, <3>1 DEF LiveIn
    <2>9. ASSUME NEW j \in LiveIn(T, a) \ {i} PROVE Precedes(T, j, i)
      <3>1. CASE j \in LiveIn(txs, a)
        <4>1. j \in 1..Len(txs) /\ T[j] = txs[j] /\ T[j].date <= now
          BY <1>1, <2>1, <2>6, <3>1, AddedRows DEF NoFutureRow
        <4>2. T[j].date \in Int /\ now \in Int /\ j < i
          <5>1. txs[j] \in Row
            BY <1>1, <4>1, RowFacts
          <5>2. txs[j].date \in Int
            BY <5>1 DEF Row
          <5>3. now \in Int
            BY <1>1 DEF IInv, TypeOK
          <5>4. j < i
            BY <2>7, <2>8, <4>1
          <5>5. QED
            BY <4>1, <5>2, <5>3, <5>4
        <4>3. QED
          BY <2>8, <4>1, <4>2 DEF Precedes
      <3>2. CASE j \notin LiveIn(txs, a)
        <4>1. j \in 1..(Len(txs) + n) /\ j > Len(txs) /\ T[j].account = a
          BY <1>1, <2>1, <2>6, <2>7, <3>2, AddedRows DEF AddedTo, LiveIn
        <4>2. PICK l : l = j - Len(txs)
          OBVIOUS
        <4>3. l \in 1..n /\ j = Len(txs) + l
          BY <2>1, <2>7, <4>1, <4>2
        <4>4. order[l] = a
          BY <2>2, <2>6, <4>1, <4>3
        <4>5. l = k
          BY <2>4, <2>5, <4>3, <4>4
        <4>6. QED
          BY <2>6, <2>9, <4>3, <4>5
      <3>3. QED
        BY <3>1, <3>2
    <2>10. Final(initial[a], T, N, a) = N[i]
      <3>1. EndsInAdjustment(T, a, i)
        BY <2>8, <2>9 DEF EndsInAdjustment
      <3>2. QED
        BY <2>7, <3>1, LastAdjusts
    <2>11. QED
      BY <2>1, <2>6, <2>8, <2>10, SettledIs
  <1>2. ASSUME IInv, IInv', NEW uid \in Users \cup {NoUser}, NEW aid \in Accounts \cup {NoAccount},
               Reconcile(uid, aid), NEW a \in LoadAccounts(uid, aid), NoFutureRow(a)
        PROVE  Settled(a)'
    <2>1. a \in Accounts
      BY DEF LoadAccounts
    <2>2. CASE Settled(a)
      BY <1>2, <2>1, <2>2, ReconcileElsewhere
    <2>3. QED
      BY <1>1, <1>2, <2>2
  <1>3. IInv /\ IInv' =>
          \A uid \in Users \cup {NoUser}, aid \in Accounts \cup {NoAccount} :
             Reconcile(uid, aid) =>
                \A a \in LoadAccounts(uid, aid) : NoFutureRow(a) => Settled(a)'
    BY <1>2
  <1>4. QED
    BY <1>3, LedgerInvariant, PTL DEF ReconcileSettles

-----------------------------------------------------------------------------
(* The balance report.                                                      *)

\* A replay that starts with a number and reads numbers gives numbers.
LEMMA ReplayIsInt ==
    ASSUME NEW T, Table(T), NEW N, NEW a, \A i \in DOMAIN T : N[i] \in Int, NEW s \in Int,
           NEW run, Replays(run, s, T, N, Chronological(T, a))
    PROVE  \A k \in 0..Cardinality(LiveIn(T, a)) : run[k] \in Int
  <1>1. PICK n, rows : rows = Chronological(T, a) /\ n = Cardinality(LiveIn(T, a))
    OBVIOUS
  <1>2. n \in Nat /\ Len(rows) = n /\ \A k \in 1..n : rows[k] \in DOMAIN T
    BY <1>1, Visits, LiveRows
  <1> DEFINE G == {k \in 0..n : run[k] \in Int}
  <1>3. 0 \in G
    BY <1>1, <1>2 DEF Replays
  <1>4. ASSUME NEW k \in 0..n, k \in G, k < n
        PROVE  k + 1 \in G
    <2>1. k + 1 \in 1..n /\ k + 1 \in 0..n /\ k + 1 # 0 /\ (k + 1) - 1 = k
      BY <1>2, <1>4
    <2>2. PICK i : i = rows[k + 1]
      OBVIOUS
    <2>3. run[k + 1] = Apply(run[k], T[i], N[i])
      BY <1>1, <1>2, <2>1, <2>2 DEF Replays
    <2>4. i \in DOMAIN T
      BY <1>2, <2>1, <2>2
    <2>5. T[i].amount \in Int /\ N[i] \in Int
      BY <2>4, LiveRows DEF Row
    <2>6. run[k + 1] \in Int
      BY <1>4, <2>3, <2>5 DEF Apply
    <2>7. QED
      BY <2>1, <2>6
  <1>5. 0..n \subseteq G
    <2> HIDE DEF G
    <2>1. QED
      BY <1>2, <1>3, <1>4, UpTo
  <1>6. QED
    BY <1>1, <1>5

\* Row r of a table without the rows dated after d.
Hidden(r, d) == [r EXCEPT !.deleted = @ \/ r.date > d]

\* U is the table T without the rows dated after d.
HidesAfter(U, T, d) ==
    /\ DOMAIN U = DOMAIN T /\ U = [i \in DOMAIN U |-> U[i]]
    /\ \A i \in DOMAIN T : U[i] = Hidden(T[i], d)

\* The replay of account a over U is the first m rows of the one over T.
Begins(U, T, a, d, m) ==
    /\ RankedFrom(T, a, m) = {i \in LiveIn(T, a) : T[i].date > d}
    /\ \A k \in 1..m : Chronological(T, a)[k] = Chronological(U, a)[k]
    /\ \A i \in LiveIn(U, a) : \A x : SameEffect(T[i], x, U[i], x)

\* Hiding a row changes nothing else of it.
LEMMA HiddenRow ==
    ASSUME NEW r \in Row, NEW d \in Int, NEW q, q = Hidden(r, d)
    PROVE  /\ q \in Row /\ (q.deleted <=> r.deleted \/ r.date > d)
           /\ q.account = r.account /\ q.date = r.date
           /\ q.isAdjustment = r.isAdjustment
           /\ q.isIncome = r.isIncome /\ q.amount = r.amount
  BY DEF Row, Hidden

\* The replay without the rows dated after d.
LEMMA EarlierRows ==
    ASSUME NEW T, Table(T), NEW a, NEW d \in Int, NEW U, HidesAfter(U, T, d),
           NEW m, m = Cardinality(LiveIn(U, a))
    PROVE  Table(U) /\ m \in 0..Cardinality(LiveIn(T, a)) /\ Begins(U, T, a, d, m)
  <1>1. PICK L, K : L = LiveIn(T, a) /\ K = LiveIn(U, a) /\ m = Cardinality(K)
    OBVIOUS
  <1>2. \A i \in DOMAIN T :
           /\ T[i] \in Row /\ T[i].date \in Int
           /\ U[i] \in Row /\ (U[i].deleted <=> T[i].deleted \/ T[i].date > d)
           /\ U[i].account = T[i].account /\ U[i].date = T[i].date
           /\ U[i].isAdjustment = T[i].isAdjustment
           /\ U[i].isIncome = T[i].isIncome /\ U[i].amount = T[i].amount
    <2>1. \A i \in DOMAIN T : T[i] \in Row /\ T[i].date \in Int
      BY LiveRows DEF Row
    <2>2. QED
      BY <2>1, HiddenRow DEF HidesAfter
  <1>3. Table(U)
    <2>1. PICK n \in Nat : T \in [1..n -> Row]
      BY DEF Table
    <2>2. U \in [1..n -> Row]
      BY <1>2, <2>1 DEF HidesAfter
    <2>3. QED
      BY <2>2 DEF Table
  <1>4. K = {i \in L : ~(T[i].date > d)}
    BY <1>1, <1>2 DEF LiveIn, HidesAfter
  <1>5. L \subseteq DOMAIN T /\ IsFiniteSet(L) /\ Cardinality(L) \in Nat
    BY <1>1, LiveRows
  <1>6. K \in SUBSET L /\ IsFiniteSet(K) /\ m \in Nat /\ m <= Cardinality(L)
    BY <1>1, <1>4, <1>5, FS_Subset, FS_CardinalityType
  <1>7. ASSUME NEW i \in K PROVE Rank(U, a, i) = Rank(T, a, i)
    <2>1. ASSUME NEW j \in L
          PROVE  Precedes(T, j, i) <=> (j \in K /\ Precedes(U, j, i))
      <3>1. /\ T[i].date \in Int /\ T[j].date \in Int /\ ~(T[i].date > d)
            /\ U[i].date = T[i].date /\ U[j].date = T[j].date
        BY <1>2, <1>4, <1>5
      <3>2. Precedes(T, j, i) => ~(T[j].date > d)
        BY <3>1 DEF Precedes
      <3>3. QED
        BY <1>4, <3>1, <3>2 DEF Precedes
    <2>2. {j \in K : Precedes(U, j, i)} = {j \in L : Precedes(T, j, i)}
      BY <1>6, <2>1
    <2>3. QED
      BY <1>1, <2>2 DEF Rank
  <1>8. ASSUME NEW i \in K PROVE Rank(T, a, i) \in Nat /\ Rank(T, a, i) < m
    BY <1>1, <1>3, <1>7, Ranks
  <1>9. ASSUME NEW i \in L, i \notin K PROVE m <= Rank(T, a, i)
    <2>1. ASSUME NEW j \in K PROVE Precedes(T, j, i)
      <3>1. T[i].date \in Int /\ T[j].date \in Int /\ T[i].date > d /\ ~(T[j].date > d)
        BY <1>2, <1>4, <1>5, <1>9
      <3>2. QED
        BY <3>1 DEF Precedes
    <2>2. PICK S : S = {j \in L : Precedes(T, j, i)}
      OBVIOUS
    <2>3. K \in SUBSET S /\ IsFiniteSet(S)
      BY <1>5, <1>6, <2>1, <2>2, FS_Subset
    <2>4. m <= Cardinality(S)
      BY <1>1, <2>3, FS_Subset
    <2>5. QED
      BY <1>1, <2>2, <2>4 DEF Rank
  <1>10. RankedFrom(T, a, m) = {i \in L : T[i].date > d}
    <2>1. \A i \in L : m <= Rank(T, a, i) <=> i \notin K
      BY <1>6, <1>8, <1>9
    <2>2. QED
      BY <1>1, <1>4, <2>1 DEF RankedFrom
  <1>11. ASSUME NEW k \in 1..m PROVE Chronological(T, a)[k] = Chronological(U, a)[k]
    <2>1. PICK i, j : i = Chronological(T, a)[k] /\ j = Chronological(U, a)[k]
      OBVIOUS
    <2>2. k \in 1..Cardinality(L)
      BY <1>5, <1>6
    <2>3. i \in L /\ Rank(T, a, i) = k - 1
      BY <1>1, <2>1, <2>2, Visits
    <2>4. j \in K /\ Rank(U, a, j) = k - 1
      BY <1>1, <1>3, <2>1, Visits
    <2>5. j \in L /\ Rank(T, a, j) = Rank(T, a, i)
      BY <1>6, <1>7, <2>3, <2>4
    <2>6. QED
      BY <1>1, <2>1, <2>3, <2>5, Ranks
  <1>12. \A i \in K : \A x : SameEffect(T[i], x, U[i], x)
    BY <1>2, <1>5, <1>6 DEF SameEffect
  <1>13. m \in 0..Cardinality(LiveIn(T, a))
    BY <1>1, <1>5, <1>6
  <1>14. RankedFrom(T, a, m) = {i \in LiveIn(T, a) : T[i].date > d}
    BY <1>1, <1>10
  <1>15. \A i \in LiveIn(U, a) : \A x : SameEffect(T[i], x, U[i], x)
    BY <1>1, <1>12
  <1>16. QED
    BY <1>3, <1>11, <1>13, <1>14, <1>15 DEF Begins

\* Taking back from the stored balance what came after a day is the same as a replay up
\* to that day (BalanceReport, services/reports/service.go:256).
THEOREM LedgerBalanceReport == Spec => []BalanceReportReplays
  <1>1. ASSUME IInv, NEW a \in Accounts, NEW d \in 0..MaxNow, Settled(a),
               \A i \in DatedAfter(a, d) : ~txs[i].isAdjustment,
               NEW U, U = [i \in DOMAIN txs |-> [txs[i] EXCEPT !.deleted = @ \/ txs[i].date > d]]
        PROVE  BalanceReport(a, d) = RecalculateFromTransactions(U, newBalance, a)
    <2>1. PICK T, N, s : T = txs /\ N = newBalance /\ s = initial[a]
      OBVIOUS
    <2>2. /\ Table(T) /\ s \in Int /\ d \in Int /\ balance[a] \in Int
          /\ \A i \in DOMAIN T : N[i] \in Int
      <3>1. Table(T) /\ s \in Int /\ balance[a] \in Int
        BY <1>1, <2>1, TableNow DEF IInv, TypeOK
      <3>2. \A i \in DOMAIN T : N[i] \in Int
        BY <1>1, <2>1, Columns, ElementOfSeq
      <3>3. d \in Int
        BY LedgerAssumption
      <3>4. QED
        BY <3>1, <3>2, <3>3
    <2>3. PICK n, m : n = Cardinality(LiveIn(T, a)) /\ m = Cardinality(LiveIn(U, a))
      OBVIOUS
    <2>4. PICK rows, cols : rows = Chronological(T, a) /\ cols = Chronological(U, a)
      OBVIOUS
    <2>5. PICK run, early : run = ReplayFrom(s, T, N, rows) /\ early = ReplayFrom(s, U, N, cols)
      OBVIOUS
    <2>6. /\ Table(U) /\ m \in 0..n
          /\ RankedFrom(T, a, m) = {i \in LiveIn(T, a) : T[i].date > d}
          /\ \A k \in 1..m : rows[k] = cols[k]
          /\ \A i \in LiveIn(U, a) : \A x : SameEffect(T[i], x, U[i], x)
      <3>1. U = [i \in DOMAIN T |-> [T[i] EXCEPT !.deleted = @ \/ T[i].date > d]]
        BY <1>1, <2>1
      <3>2. HidesAfter(U, T, d)
        BY <3>1 DEF HidesAfter, Hidden
      <3>3. m = Cardinality(LiveIn(U, a)) /\ Table(T) /\ d \in Int
        BY <2>2, <2>3
      <3>4. Table(U) /\ m \in 0..Cardinality(LiveIn(T, a)) /\ Begins(U, T, a, d, m)
        BY <3>2, <3>3, EarlierRows
      <3>5. QED
        BY <2>3, <2>4, <3>4 DEF Begins
    <2>7. /\ n \in Nat /\ m \in Nat /\ Len(rows) = n /\ Len(cols) = m
          /\ \A k \in 1..m : cols[k] \in LiveIn(U, a)
      BY <2>2, <2>3, <2>4, <2>6, Visits
    <2>8. Replays(run, s, T, N, rows) /\ Replays(early, s, U, N, cols)
      BY <2>5, <2>7, ReplayExists
    <2>9. run[m] = early[m]
      <3>1. \A k \in 1..m : SameEffect(T[rows[k]], N[rows[k]], U[cols[k]], N[cols[k]])
        BY <2>6, <2>7
      <3>2. \A k \in 0..m : run[k] = early[k]
        BY <2>6, <2>7, <2>8, <3>1, SamePrefix
      <3>3. QED
        BY <2>7, <3>2
    <2>10. run[m] \in Int
      BY <2>2, <2>3, <2>4, <2>6, <2>8, ReplayIsInt
    <2>11. DatedAfter(a, d) = RankedFrom(T, a, m)
      <3>1. \A i \in LiveIn(T, a) : T[i].date \in Int
        BY <2>2, LiveRows DEF Row
      <3>2. \A i \in LiveIn(T, a) : T[i].date >= d + 1 <=> T[i].date > d
        BY <2>2, <3>1
      <3>3. QED
        BY <2>1, <2>6, <3>2 DEF DatedAfter
    <2>12. PICK total : total = SumFunction(Amounts(T, DatedAfter(a, d)))
      OBVIOUS
    <2>13. total \in Int
      <3>1. DatedAfter(a, d) \in SUBSET DOMAIN T
        BY <2>1 DEF DatedAfter, LiveIn
      <3>2. QED
        BY <2>2, <2>12, <3>1, OneRowMore
    <2>14. run[n] = run[m] + total
      <3>1. /\ Table(T) /\ Replays(run, s, T, N, Chronological(T, a))
            /\ m \in 0..Cardinality(LiveIn(T, a)) /\ run[m] \in Int
        BY <2>2, <2>3, <2>4, <2>6, <2>8, <2>10
      <3>2. \A i \in RankedFrom(T, a, m) : ~T[i].isAdjustment
        BY <1>1, <2>1, <2>11
      <3>3. run[Cardinality(LiveIn(T, a))]
                = run[m] + SumFunction(Amounts(T, RankedFrom(T, a, m)))
        BY <3>1, <3>2, AddsUp, ZenonT(60)
      <3>4. QED
        BY <2>3, <2>11, <2>12, <3>3
    <2>15. balance[a] = run[n]
      BY <1>1, <2>1, <2>3, <2>4, <2>5, SettledIs DEF Final
    <2>16. BalanceReport(a, d) = balance[a] - total
      BY <2>1, <2>12 DEF BalanceReport, Amounts, Signed
    <2>17. RecalculateFromTransactions(U, newBalance, a) = early[m]
      BY <2>1, <2>3, <2>4, <2>5, FinalIs DEF Final
    <2>18. QED
      BY <2>2, <2>9, <2>10, <2>13, <2>14, <2>15, <2>16, <2>17
  <1>2. IInv => BalanceReportReplays
    BY <1>1 DEF BalanceReportReplays
  <1>3. QED
    BY <1>2, LedgerInvariant, PTL

=============================================================================
