------------------------------- MODULE Ledger -------------------------------
(***************************************************************************)
(* The money ledger: accounts with a stored balance, and the rows of the    *)
(* transactions table that are supposed to explain it.                      *)
(*                                                                          *)
(* Code: services/transactions/service.go (create, update, delete, replay), *)
(* services/accounts/service.go (accounts, manual balance adjustment), the  *)
(* two repositories they write through, and cmd/reconcile-balances.         *)
(*                                                                          *)
(* One action is one whole request (or one run of the CLI).  A request the  *)
(* code refuses changes nothing and is a stutter.  Labels, notes,           *)
(* categories, templates and currencies do not influence any balance and    *)
(* are left out.                                                            *)
(***************************************************************************)
EXTENDS Integers, Sequences, FiniteSets, FiniteSetsExt

CONSTANTS
    Users,       \* everybody with an account in the program
    ActiveUsers, \* those whose is_active flag is set
    Accounts,    \* ids of accounts, positive integers
    Owner,       \* the user who will create each account id
    Balances,    \* amounts a request may give for a balance
    Inputs,      \* the request bodies of create and update
    ArchiveFlags, \* the flags a request may set is_archived to
    NoUser,      \* the CLI's "all users"
    NoAmount,    \* an absent target_amount
    NoDate,      \* an absent date_time: the server's clock is used
    MaxTx,       \* bound: rows ever inserted
    MaxBalance,  \* bound: balances, either way
    MaxNow       \* bound: the clock

NoAccount == 0   \* an absent target_account_id, and the CLI's "all accounts"
NoTx == 0        \* an absent linked_transaction_id

InputType ==
    [account : Accounts, target : Accounts \cup {NoAccount},
     amount : Int, targetAmount : Int \cup {NoAmount}, date : Int \cup {NoDate},
     isIncome : BOOLEAN, isTransfer : BOOLEAN, isAdjustment : BOOLEAN]

ASSUME LedgerAssumption ==
    /\ Accounts \subseteq Nat \ {0} /\ IsFiniteSet(Accounts)
    /\ ActiveUsers \subseteq Users
    /\ NoUser \notin Users
    /\ Owner \in [Accounts -> Users]
    /\ Balances \subseteq Int
    /\ Inputs \subseteq InputType
    /\ ArchiveFlags \subseteq BOOLEAN
    /\ MaxTx \in Nat
    /\ MaxBalance \in Nat
    /\ MaxNow \in Nat

VARIABLES
    acct,        \* per account: has it been created, deleted, archived
    initial,     \* accounts.initial_balance
    balance,     \* accounts.balance
    txs,         \* transactions, by id; all columns but new_balance
    newBalance,  \* transactions.new_balance, by id
    now          \* the server's clock

vars == <<acct, initial, balance, txs, newBalance, now>>

Row == [user : Users, account : Accounts, amount : Int, date : Int,
        isIncome : BOOLEAN, isTransfer : BOOLEAN, isAdjustment : BOOLEAN,
        linked : Nat, deleted : BOOLEAN]

AccountState == [opened : BOOLEAN, deleted : BOOLEAN, archived : BOOLEAN]

Init ==
    /\ acct = [a \in Accounts |-> [opened |-> FALSE, deleted |-> FALSE, archived |-> FALSE]]
    /\ initial = [a \in Accounts |-> 0]
    /\ balance = [a \in Accounts |-> 0]
    /\ txs = << >>
    /\ newBalance = << >>
    /\ now = 1

\* The bounds of the model: the columns are numeric, of any size.
Bounded ==
    /\ Len(txs) <= MaxTx
    /\ \A a \in Accounts : balance[a] \in -MaxBalance..MaxBalance
    /\ \A i \in DOMAIN newBalance : newBalance[i] \in -MaxBalance..MaxBalance
    /\ \A i \in DOMAIN txs : txs[i].amount \in -2 * MaxBalance..2 * MaxBalance

-----------------------------------------------------------------------------
(* Looking rows up: the repositories hide soft-deleted rows.                *)

Visible(a) == acct[a].opened /\ ~acct[a].deleted

\* Fault: ownership of the account is not checked.
MayUseAnyAccount(u, a) == u \in ActiveUsers /\ a \in Accounts /\ Visible(a)

\* The checks every account handler and every transaction handler starts with.
MayUse(u, a) == u \in ActiveUsers /\ a \in Accounts /\ Visible(a) /\ Owner[a] = u

LiveIn(T, a) == {i \in DOMAIN T : T[i].account = a /\ ~T[i].deleted}

\* ORDER BY date_time ASC, id ASC
Precedes(T, i, j) == T[i].date < T[j].date \/ (T[i].date = T[j].date /\ i < j)

Chronological(T, a) ==
    LET live == LiveIn(T, a)
    IN  [k \in 1..Cardinality(live) |->
            CHOOSE i \in live : Cardinality({j \in live : Precedes(T, j, i)}) = k - 1]

-----------------------------------------------------------------------------
(* Replaying an account: T are the rows, N their new_balance column.        *)

\* The effect of one row on the balance before it.
Apply(b, row, target) ==
    IF row.isAdjustment THEN target
    ELSE IF row.isIncome THEN b + row.amount ELSE b - row.amount

\* running[k] is the balance after the first k rows of account a.
Running(T, N, a) ==
    LET rows == Chronological(T, a)
        running[k \in 0..Len(rows)] ==
            IF k = 0 THEN initial[a]
            ELSE Apply(running[k - 1], T[rows[k]], N[rows[k]])
    IN  running

RecalculateFromTransactions(T, N, a) ==
    Running(T, N, a)[Cardinality(LiveIn(T, a))]

\* Fault: the replay writes the balance before the row.
ReplayedBalanceBefore(T, N, i) ==
    LET rows == Chronological(T, T[i].account)
    IN  Running(T, N, T[i].account)[(CHOOSE k \in DOMAIN rows : rows[k] = i) - 1]

\* The new_balance the replay writes to live row i.
ReplayedBalance(T, N, i) ==
    LET rows == Chronological(T, T[i].account)
    IN  Running(T, N, T[i].account)[CHOOSE k \in DOMAIN rows : rows[k] = i]

\* Store the rows T (with new_balance column N), then replay the accounts S.
\* The replay of an account the repository no longer shows fails and is logged.
StoreAndReplay(T, N, S) ==
    /\ txs' = T
    /\ newBalance' = [i \in DOMAIN T |->
                        IF T[i].account \in S /\ Visible(T[i].account) /\ ~T[i].deleted
                        THEN ReplayedBalance(T, N, i) ELSE N[i]]
    /\ balance' = [a \in Accounts |->
                     IF a \in S /\ Visible(a) THEN RecalculateFromTransactions(T, N, a)
                     ELSE balance[a]]
    /\ Bounded'
    /\ UNCHANGED <<acct, initial, now>>

Settled(a) == balance[a] = RecalculateFromTransactions(txs, newBalance, a)

-----------------------------------------------------------------------------
(* services/accounts                                                        *)

CreateAccount(u, a, bal, init) ==
    /\ u \in ActiveUsers
    /\ Owner[a] = u
    /\ ~acct[a].opened
    /\ acct' = [acct EXCEPT ![a].opened = TRUE]
    /\ initial' = [initial EXCEPT ![a] = init]
    /\ balance' = [balance EXCEPT ![a] = bal]
    /\ UNCHANGED <<txs, newBalance, now>>

\* The stored balance is preserved on purpose.
UpdateAccount(u, a, init) ==
    /\ MayUse(u, a)
    /\ initial' = [initial EXCEPT ![a] = init]
    /\ UNCHANGED <<acct, balance, txs, newBalance, now>>

DeleteAccount(u, a) ==
    /\ MayUse(u, a)
    /\ acct' = [acct EXCEPT ![a].deleted = TRUE]
    /\ UNCHANGED <<initial, balance, txs, newBalance, now>>

SetArchiveStatus(u, a, isArchived) ==
    /\ MayUse(u, a)
    /\ acct' = [acct EXCEPT ![a].archived = isArchived]
    /\ UNCHANGED <<initial, balance, txs, newBalance, now>>

\* Fault: the adjustment is dated at the start of the day.
AdjustmentRowMidnight(a, from, to) ==
    [user |-> Owner[a], account |-> a,
     amount |-> IF to > from THEN to - from ELSE from - to,
     date |-> now - 1, isIncome |-> to > from, isTransfer |-> FALSE,
     isAdjustment |-> TRUE, linked |-> NoTx, deleted |-> FALSE]

\* The row that brings account a from the balance `from' to the balance `to'.
AdjustmentRow(a, from, to) ==
    [user |-> Owner[a], account |-> a,
     amount |-> IF to > from THEN to - from ELSE from - to,
     date |-> now, isIncome |-> to > from, isTransfer |-> FALSE,
     isAdjustment |-> TRUE, linked |-> NoTx, deleted |-> FALSE]

AdjustBalance(u, a, target) ==
    /\ MayUse(u, a)
    /\ target # balance[a]
    /\ txs' = Append(txs, AdjustmentRow(a, balance[a], target))
    /\ newBalance' = Append(newBalance, target)
    /\ balance' = [balance EXCEPT ![a] = target]
    /\ Bounded'
    /\ UNCHANGED <<acct, initial, now>>

-----------------------------------------------------------------------------
(* services/transactions                                                    *)

\* Fault: the default of an absent date_time is forgotten.
DateAsGiven(in) == in.date

DateOf(in) == IF in.date = NoDate THEN now ELSE in.date

TargetAmountOf(in) == IF in.targetAmount = NoAmount THEN in.amount ELSE in.targetAmount

HasTarget(in) == in.isTransfer /\ in.target # NoAccount

SelfTransfer(in) == HasTarget(in) /\ in.target = in.account

\* The row a request describes, before it is linked to anything.
SourceRow(u, in) ==
    [user |-> u, account |-> in.account, amount |-> in.amount, date |-> DateOf(in),
     isIncome |-> in.isIncome, isTransfer |-> in.isTransfer,
     isAdjustment |-> in.isAdjustment, linked |-> NoTx, deleted |-> FALSE]

\* The second leg of a transfer, always incoming.
LinkedRow(u, in, source) ==
    [user |-> u, account |-> in.target, amount |-> TargetAmountOf(in), date |-> DateOf(in),
     isIncome |-> TRUE, isTransfer |-> TRUE, isAdjustment |-> FALSE,
     linked |-> source, deleted |-> FALSE]

\* The balances the two legs are given come from the accounts as first read.
SourceBalance(u, in) == Apply(balance[in.account], SourceRow(u, in), in.amount)

\* Fault: the converted amount of the second leg is ignored.
TargetBalanceUnconverted(in) == balance[in.target] + in.amount

TargetBalance(in) == balance[in.target] + TargetAmountOf(in)

CreateTransaction(u, in) ==
    LET id     == Len(txs) + 1
        source == SourceBalance(u, in)
        target == TargetBalance(in)
    IN  /\ MayUse(u, in.account)
        /\ ~SelfTransfer(in)
        /\ \/ /\ ~HasTarget(in)
              /\ txs' = Append(txs, SourceRow(u, in))
              /\ newBalance' = Append(newBalance, source)
              /\ balance' = [balance EXCEPT ![in.account] = source]
           \/ /\ HasTarget(in)
              /\ MayUse(u, in.target)
              /\ txs' = txs \o << [SourceRow(u, in) EXCEPT !.linked = id + 1],
                                  LinkedRow(u, in, id) >>
              /\ newBalance' = newBalance \o <<source, target>>
              /\ balance' = [balance EXCEPT ![in.account] = source, ![in.target] = target]
        /\ Bounded'
        /\ UNCHANGED <<acct, initial, now>>

\* Faults: the row's user, or that it was deleted, is not checked.
MayEditAnyRow(u, id) == u \in ActiveUsers /\ ~txs[id].deleted
MayEditDeleted(u, id) == u \in ActiveUsers /\ txs[id].user = u

\* A row the user may edit or delete; the row's account may be deleted.
MayEdit(u, id) == u \in ActiveUsers /\ ~txs[id].deleted /\ txs[id].user = u

\* The other leg, when the repository finds it.
HasLinked(row) == row.isTransfer /\ row.linked # NoTx /\ ~txs[row.linked].deleted

\* Every update starts like this ...
UpdateGuard(u, id, in) == MayEdit(u, id) /\ ~SelfTransfer(in) /\ MayUse(u, in.account)

\* ... and rewrites the row's own columns, new_balance and the link excepted.
Edited(id, in) ==
    [txs[id] EXCEPT !.account = in.account, !.amount = in.amount, !.date = DateOf(in),
                    !.isIncome = in.isIncome, !.isTransfer = in.isTransfer,
                    !.isAdjustment = in.isAdjustment]

\* Fault: the account the row leaves is not replayed.
TouchedByNewOnly(id, in) == {in.account}

\* The accounts every update replays.
TouchedBy(id, in) == {in.account, txs[id].account}

\* No link is made, dropped or followed: a regular row stays regular, or a
\* transfer without a second leg stays (or becomes) one.
UpdateAlone(u, id, in) ==
    /\ UpdateGuard(u, id, in)
    /\ \/ ~txs[id].isTransfer /\ ~HasTarget(in)
       \/ txs[id].isTransfer /\ in.isTransfer /\ ~HasLinked(txs[id])
    /\ StoreAndReplay([txs EXCEPT ![id] = Edited(id, in)], newBalance, TouchedBy(id, in))

\* Scenario 4: a transfer becomes a regular row, its second leg is deleted.
UpdateUnlink(u, id, in) ==
    LET row  == txs[id]
        link == row.linked
        cut  == [txs EXCEPT ![id] = [Edited(id, in) EXCEPT !.linked = NoTx]]
    IN  /\ UpdateGuard(u, id, in)
        /\ row.isTransfer /\ ~in.isTransfer
        /\ IF HasLinked(row)
           THEN StoreAndReplay([cut EXCEPT ![link].deleted = TRUE], newBalance,
                               TouchedBy(id, in) \cup {txs[link].account})
           ELSE StoreAndReplay(cut, newBalance, TouchedBy(id, in))

\* Scenarios 1-3: a transfer is edited; the other leg becomes its mirror.
UpdateTransfer(u, id, in) ==
    LET link   == txs[id].linked
        target == IF in.target # NoAccount THEN in.target ELSE txs[link].account
        mirror == [txs[link] EXCEPT !.account = target, !.amount = TargetAmountOf(in),
                                    !.date = DateOf(in), !.isIncome = TRUE,
                                    !.isTransfer = TRUE]
    IN  /\ UpdateGuard(u, id, in)
        /\ in.isTransfer
        /\ HasLinked(txs[id])
        /\ MayUse(u, target)
        /\ StoreAndReplay([txs EXCEPT ![link] = mirror, ![id] = Edited(id, in)], newBalance,
                          TouchedBy(id, in) \cup {target, txs[link].account})

\* Scenario 5: a regular row becomes a transfer and gets a second leg.
UpdateLink(u, id, in) ==
    LET source == [Edited(id, in) EXCEPT !.linked = Len(txs) + 1]
    IN  /\ UpdateGuard(u, id, in)
        /\ ~txs[id].isTransfer
        /\ HasTarget(in)
        /\ MayUse(u, in.target)
        /\ StoreAndReplay(Append([txs EXCEPT ![id] = source], LinkedRow(u, in, id)),
                          Append(newBalance, TargetBalance(in)),
                          TouchedBy(id, in) \cup {in.target})

UpdateTransaction(u, id, in) ==
    \/ UpdateAlone(u, id, in)
    \/ UpdateUnlink(u, id, in)
    \/ UpdateTransfer(u, id, in)
    \/ UpdateLink(u, id, in)

\* Fault: the second leg of a transfer survives.
DeletedAlone(id) == {id}

\* The rows that go when row id is deleted: both legs of a transfer.
DeletedWith(id) == {id} \cup {i \in DOMAIN txs : txs[id].isTransfer /\ txs[id].linked = i}

\* The second account is replayed if the second leg was found.
DeleteTransaction(u, id) ==
    LET row == txs[id]
        T   == [i \in DOMAIN txs |-> IF i \in DeletedWith(id)
                                     THEN [txs[i] EXCEPT !.deleted = TRUE] ELSE txs[i]]
    IN  /\ MayEdit(u, id)
        /\ StoreAndReplay(T, newBalance,
               {row.account} \cup IF HasLinked(row) THEN {txs[row.linked].account} ELSE {})

-----------------------------------------------------------------------------
(* cmd/reconcile-balances                                                   *)

\* The accounts a run looks at; naming another user's account is an error.
LoadAccounts(uid, aid) ==
    {a \in Accounts : /\ Visible(a) /\ ~acct[a].archived
                      /\ uid \in {NoUser, Owner[a]}
                      /\ aid \in {NoAccount, a}}

DetectDivergences(S) == {a \in S : ~Settled(a)}

\* Every divergent account gets a row that declares the stored balance true.
\* The accounts are visited in the order of their ids.
Reconcile(uid, aid) ==
    LET D == DetectDivergences(LoadAccounts(uid, aid))
    IN  /\ \E order \in [1..Cardinality(D) -> D] :
              /\ \A j, k \in DOMAIN order : j < k => order[j] < order[k]
              /\ txs' = txs \o [k \in 1..Cardinality(D) |->
                    AdjustmentRow(order[k],
                        RecalculateFromTransactions(txs, newBalance, order[k]),
                        balance[order[k]])]
              /\ newBalance' = newBalance \o [k \in 1..Cardinality(D) |-> balance[order[k]]]
        /\ UNCHANGED <<acct, initial, balance, now>>
        /\ Bounded'

-----------------------------------------------------------------------------
(* services/reports: the balance of a day is the stored one with all that   *)
(* came after that day taken back.                                          *)

\* Fault: what happened on the day itself is taken back as well.
FromTheDay(a, d) == {i \in LiveIn(txs, a) : txs[i].date >= d}

DatedAfter(a, d) == {i \in LiveIn(txs, a) : txs[i].date >= d + 1}

BalanceReport(a, d) ==
    balance[a] - SumFunction([i \in DatedAfter(a, d) |->
                                 IF txs[i].isIncome THEN txs[i].amount ELSE -txs[i].amount])

-----------------------------------------------------------------------------
Tick == now < MaxNow /\ now' = now + 1
        /\ UNCHANGED <<acct, initial, balance, txs, newBalance>>

AccountRequest(u) ==
    \E a \in Accounts :
        \/ \E b, i \in Balances : CreateAccount(u, a, b, i)
        \/ \E i \in Balances : UpdateAccount(u, a, i)
        \/ DeleteAccount(u, a)
        \/ \E flag \in ArchiveFlags : SetArchiveStatus(u, a, flag)
        \/ \E b \in Balances : AdjustBalance(u, a, b)

TransactionRequest(u) ==
    \/ \E in \in Inputs : CreateTransaction(u, in)
    \/ \E id \in DOMAIN txs, in \in Inputs : UpdateTransaction(u, id, in)
    \/ \E id \in DOMAIN txs : DeleteTransaction(u, id)

RunCLI == \E uid \in Users \cup {NoUser}, aid \in Accounts \cup {NoAccount} :
              Reconcile(uid, aid)

Next ==
    \/ \E u \in Users : AccountRequest(u) \/ TransactionRequest(u)
    \/ RunCLI
    \/ Tick

Spec == Init /\ [][Next]_vars

=============================================================================
