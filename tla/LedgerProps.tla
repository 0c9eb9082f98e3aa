---------------------------- MODULE LedgerProps ----------------------------
(***************************************************************************)
(* What makes the ledger of module Ledger correct.                          *)
(***************************************************************************)
EXTENDS Ledger

\* Every variable holds a value of its column's type (models/models.go).
TypeOK ==
    /\ acct \in [Accounts -> AccountState]
    /\ initial \in [Accounts -> Int]
    /\ balance \in [Accounts -> Int]
    /\ txs \in Seq(Row)
    /\ newBalance \in Seq(Int)
    /\ now \in Nat

-----------------------------------------------------------------------------
(* Who owns what.                                                           *)

\* A row always sits on an account of the user it belongs to, whatever
\* accounts a sequence of edits names: the handlers check the source account
\* and the target account of every request, but trust the user of stored rows.
OwnershipInv == \A i \in DOMAIN txs : Owner[txs[i].account] = txs[i].user

\* What the step changes: stored money, or a row that existed before it.
WritesMoneyOf(a) == balance'[a] # balance[a] \/ initial'[a] # initial[a]
WritesRow(i) == txs'[i] # txs[i] \/ newBalance'[i] # newBalance[i]

\* A request writes balances, initial balances and existing rows of the user who
\* sent it only, although an edit follows links to rows it did not check.
NoCrossUserWrite ==
    [][\A u \in Users :
          \/ \E a \in Accounts : Owner[a] # u /\ WritesMoneyOf(a)
          \/ \E i \in DOMAIN txs : txs[i].user # u /\ WritesRow(i)
          => ~(AccountRequest(u) \/ TransactionRequest(u))]_vars

-----------------------------------------------------------------------------
(* The two legs of a transfer.                                              *)

\* The second leg of a live linked row is live, links back, and was dated
\* together with it: no sequence of create, edit, unlink and delete leaves half
\* a transfer or a leg that two rows claim.
LinkSymmetry ==
    \A i \in DOMAIN txs :
        ~txs[i].deleted /\ txs[i].linked # NoTx =>
            LET other == txs[i].linked
            IN  /\ other \in DOMAIN txs \ {i}
                /\ ~txs[other].deleted
                /\ txs[other].linked = i
                /\ txs[i].isTransfer /\ txs[other].isTransfer
                /\ txs[other].date = txs[i].date
                /\ txs[other].user = txs[i].user

\* Money that leaves an account arrives at another one.  "Source and target
\* accounts must be different" (handlers/transactions/handler.go:282).
NoSelfTransfer ==
    \A i \in DOMAIN txs :
        ~txs[i].deleted /\ txs[i].linked # NoTx =>
            txs[txs[i].linked].account # txs[i].account

\* A soft-deleted row is never written again, although an update writes every
\* column of the rows it reads.
DeadRowsFrozen ==
    [][\A i \in DOMAIN txs : txs[i].deleted =>
            txs'[i] = txs[i] /\ newBalance'[i] = newBalance[i]]_vars

-----------------------------------------------------------------------------
(* Stored balances and the rows that explain them.                          *)

\* Whatever an edit or a deletion does to an existing row, the accounts the row
\* was on and is now on end up with the balance a replay gives.
SettledAfterEdit ==
    [][\A i \in DOMAIN txs : txs'[i] # txs[i] =>
          \A a \in {txs[i].account, txs'[i].account} : Visible(a) => Settled(a)']_vars

HasAdjustment(a) == \E i \in LiveIn(txs, a) : txs[i].isAdjustment

\* An account whose balance agrees with its rows keeps doing so, unless a step
\* edits its initial balance or it has an adjustment row: creation adds to the
\* stored balance without a replay, which is right wherever the row is dated.
NoDriftWithoutAdjustment ==
    [][\A a \in Accounts :
          /\ Visible(a) /\ Settled(a)
          /\ initial'[a] = initial[a]
          /\ ~HasAdjustment(a)'
          => Settled(a)']_vars

\* The new_balance of a live adjustment row is a target the user set; replays
\* read it and never overwrite it with anything else.
AdjustmentTargetFixed ==
    [][\A i \in DOMAIN txs :
          /\ txs[i].isAdjustment /\ ~txs[i].deleted
          /\ txs'[i].isAdjustment
          => newBalance'[i] = newBalance[i]]_vars

\* The balance report of a day tells what a replay of the rows up to that day gives,
\* for an account that agrees with its rows and was not adjusted since: taking back
\* from the stored balance is the same as replaying from the initial one, whatever
\* was back-dated or adjusted before. (BalanceReport, services/reports/service.go:256.)
BalanceReportReplays ==
    \A a \in Accounts, d \in 0..MaxNow :
        LET upTo == [i \in DOMAIN txs |-> [txs[i] EXCEPT !.deleted = @ \/ txs[i].date > d]]
        IN  /\ Visible(a) /\ Settled(a)
            /\ \A i \in DatedAfter(a, d) : ~txs[i].isAdjustment
            => BalanceReport(a, d) = RecalculateFromTransactions(upTo, newBalance, a)

\* No live row of the account is dated after the present.
NoFutureRow(a) == \A i \in LiveIn(txs, a) : txs[i].date <= now

\* A run of the CLI settles every account in its scope that has no row dated
\* in the future, and changes no stored balance while doing so.
ReconcileSettles ==
    [][\A uid \in Users \cup {NoUser}, aid \in Accounts \cup {NoAccount} :
          Reconcile(uid, aid) =>
             \A a \in LoadAccounts(uid, aid) : NoFutureRow(a) => Settled(a)']_vars

\* "Run is idempotent: a second invocation immediately after a successful first
\* one inserts zero rows" (cmd/reconcile-balances/runner.go:240), that is, a run
\* leaves no account of its scope divergent.
ReconcileIdempotent ==
    [][\A uid \in Users \cup {NoUser}, aid \in Accounts \cup {NoAccount} :
          Reconcile(uid, aid) => \A a \in LoadAccounts(uid, aid) : Settled(a)']_vars

=============================================================================
