------------------------------ MODULE MCLedger ------------------------------
(* Instances of Ledger for TLC.                                             *)
EXTENDS LedgerProps

CONSTANTS alice, bob, carol

MCUsers == {alice, bob, carol}
MCActive == {alice, carol}
\* Account 3 is bob's, who is not active; the others are alice's.
MCOwner == [a \in Accounts |-> IF a = 3 THEN bob ELSE alice]

Body == [account |-> 1, target |-> NoAccount, amount |-> 1, targetAmount |-> NoAmount,
         date |-> NoDate, isIncome |-> FALSE, isTransfer |-> FALSE, isAdjustment |-> FALSE]

\* Regular rows of past and present, transfers with and without conversion, and
\* one to somebody else's account.
TransferInputs ==
    {[Body EXCEPT !.date = 0],
     [Body EXCEPT !.account = 2, !.isTransfer = TRUE],
     [Body EXCEPT !.account = 2, !.isTransfer = TRUE, !.target = 1],
     [Body EXCEPT !.isTransfer = TRUE, !.target = 1],
     [Body EXCEPT !.isTransfer = TRUE, !.target = 3],
     [Body EXCEPT !.isTransfer = TRUE, !.target = 2, !.targetAmount = 2, !.date = 0]}

\* Rows of one account before, at and after the present, and a back-dated adjustment.
AdjustmentInputs ==
    {Body, [Body EXCEPT !.date = 0, !.isIncome = TRUE], [Body EXCEPT !.date = 2],
     [Body EXCEPT !.date = 0, !.isAdjustment = TRUE]}
=============================================================================
