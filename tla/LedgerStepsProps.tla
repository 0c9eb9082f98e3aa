--------------------------- MODULE LedgerStepsProps ---------------------------
(***************************************************************************)
(* What is left of the ledger's promises when its requests are statements.  *)
(***************************************************************************)
EXTENDS LedgerSteps

Whole == INSTANCE Ledger WITH
    acct <- ledger.acct, initial <- ledger.initial, balance <- ledger.balance,
    txs <- ledger.txs, newBalance <- ledger.newBalance, now <- ledger.now

\* As long as requests come one after the other and none fails half-way, their
\* statements have the effect of the whole requests of module Ledger, in whatever
\* order an update replays its accounts: what holds of Ledger holds of the code then.
\* (services/transactions/service.go: CreateTransaction, UpdateTransaction,
\* DeleteTransaction; services/accounts/service.go: AdjustBalance.)
ImplementsLedger == Whole!Spec

\* Whatever overlapping requests, failed statements and crashes have made of rows and
\* balances (lost updates, half a transfer), an update or a deletion that runs through
\* while no other request works on the same accounts, or is still to write a row that
\* has been moved to them, leaves every account it replays with the balance its rows
\* explain, though others work on other accounts meanwhile.
\* (recalculateBalances, services/transactions/service.go:796.)
EditRepairs ==
    \A w \in Workers :
        job[w].kind \in {"update", "delete"} /\ ~Working(w) /\ job[w].calm =>
            \A a \in job[w].replays : Visible(a) => Settled(a)

=============================================================================
