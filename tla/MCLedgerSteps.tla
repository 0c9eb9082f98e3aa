----------------------------- MODULE MCLedgerSteps -----------------------------
(* An instance of LedgerSteps for TLC.                                      *)
EXTENDS LedgerStepsProps

CONSTANTS alice, v, w

MCOwner == [a \in Accounts |-> alice]

Body == [account |-> 1, target |-> NoAccount, amount |-> 1, targetAmount |-> NoAmount,
         date |-> NoDate, isIncome |-> FALSE, isTransfer |-> FALSE, isAdjustment |-> FALSE]

\* A row on the second account, a transfer to it, and one that names no target.
MCInputs == {[Body EXCEPT !.account = 2, !.isIncome = TRUE],
             [Body EXCEPT !.isTransfer = TRUE, !.target = 2, !.targetAmount = 2, !.date = 0],
             [Body EXCEPT !.isTransfer = TRUE]}

Alone == Cardinality({x \in Workers : Working(x)}) <= 1

\* Bounds: accounts are created before the first request; the second one may be
\* deleted, between the last two requests and in a behaviour without faults. In a
\* behaviour with a fault the last request, which may repair what the others left, has
\* the server to itself.
MCNext ==
    /\ StepsNext
    /\ requests' > 0 => \A a \in Accounts : acct[a].opened
    /\ \A a \in Accounts : acct'[a].deleted =>
          a = 2 /\ faults' = 0 /\ (acct[a].deleted \/ requests = MaxRequests - 1)
    /\ faults' > 0 /\ requests' = MaxRequests => Alone /\ Alone'

MCSpec == StepsInit /\ [][MCNext]_<<vars, stepVars>>

Symmetry == Permutations(Workers)
=============================================================================
