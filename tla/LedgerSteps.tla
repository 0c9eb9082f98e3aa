----------------------------- MODULE LedgerSteps -----------------------------
(***************************************************************************)
(* The requests of module Ledger as the sequences of statements they are:   *)
(* no database transaction holds them together, so that requests of one     *)
(* user (two tabs, a double click) run into each other, a statement may     *)
(* fail when the ones before it are done, and the process may die between   *)
(* any two.                                                                 *)
(*                                                                          *)
(* A request reads first (that is one step here) and then has statements to *)
(* do, with the values it read: `todo'.  The requests that are one          *)
(* statement are taken from Ledger as they are; the CLI is left out.        *)
(***************************************************************************)
EXTENDS Ledger, SequencesExt

CONSTANTS
    Workers,     \* requests the server works on at a time
    MaxRequests, \* bound: requests that change rows
    MaxFaults    \* bound: statements that fail and crashes

ASSUME StepsAssumption == MaxRequests \in Nat /\ MaxFaults \in Nat

VARIABLES
    job,         \* per worker, the request it works on
    requests,    \* bound: how many have been made
    faults,      \* bound: how many there have been
    ledger,      \* history: the tables as the last undisturbed request left them
    disturbed    \* history: have requests overlapped, or failed half-way?

stepVars == <<job, requests, faults, ledger, disturbed>>

None == [kind |-> "none", accounts |-> {}, replays |-> {}, todo |-> << >>,
         made |-> << >>, calm |-> TRUE]

Tables == [acct |-> acct, initial |-> initial, balance |-> balance,
           txs |-> txs, newBalance |-> newBalance, now |-> now]

StepsInit ==
    /\ Init
    /\ job = [w \in Workers |-> None]
    /\ requests = 0 /\ faults = 0
    /\ ledger = Tables
    /\ disturbed = FALSE

-----------------------------------------------------------------------------
(* Statements.  `must': the request is given up when the statement fails;   *)
(* other failures are logged.  A row number of Mine is the row the request  *)
(* has inserted itself.  An update writes all columns as they were read, but *)
(* is_deleted.                                                              *)

Mine == -1

Insert(row, value)  == [op |-> "insert", row |-> row, value |-> value, must |-> TRUE]
SetBalance(a, value)== [op |-> "balance", account |-> a, value |-> value, must |-> TRUE]
Update(id, row)     == [op |-> "update", id |-> id, row |-> row, value |-> newBalance[id], must |-> TRUE]
Delete(id, must)    == [op |-> "delete", id |-> id, must |-> must]
UpdateLinkedID      == [op |-> "link", must |-> FALSE]
Replay(a)           == [op |-> "replay", account |-> a, must |-> FALSE]
RowBalance(id, value) == [op |-> "rowBalance", id |-> id, value |-> value, must |-> FALSE]

\* Rows and account are read; then one statement a row, and one for the account.
recalculateBalances(a) ==
    LET rows  == Chronological(txs, a)
        after == Running(txs, newBalance, a)
    IN  [k \in DOMAIN rows |-> RowBalance(rows[k], after[k])]
        \o << SetBalance(a, after[Len(rows)]) >>

-----------------------------------------------------------------------------
(* What a request has to do, as it has just read the tables.                *)

CreateStatements(u, in) ==
    << Insert(SourceRow(u, in), SourceBalance(u, in)),
       SetBalance(in.account, SourceBalance(u, in)) >>
    \o IF ~HasTarget(in) THEN << >>
       ELSE << Insert(LinkedRow(u, in, Mine), TargetBalance(in)), UpdateLinkedID,
               SetBalance(in.target, TargetBalance(in)) >>

\* Scenarios 1 to 5 of an update, and what does not concern any link.
UpdateStatements(u, id, in) ==
    LET row    == txs[id]
        link   == row.linked
        target == IF in.target # NoAccount THEN in.target ELSE txs[link].account
        mirror == [txs[link] EXCEPT !.account = target, !.amount = TargetAmountOf(in),
                                    !.date = DateOf(in), !.isIncome = TRUE,
                                    !.isTransfer = TRUE]
        edited == Edited(id, in)
    IN  CASE row.isTransfer /\ ~in.isTransfer ->
               (IF HasLinked(row) THEN << Delete(link, FALSE) >> ELSE << >>)
               \o << Update(id, [edited EXCEPT !.linked = NoTx]) >>
          [] row.isTransfer /\ in.isTransfer /\ HasLinked(row) ->
               << Update(link, mirror), Update(id, edited) >>
          [] ~row.isTransfer /\ HasTarget(in) ->
               << Insert(LinkedRow(u, in, id), TargetBalance(in)),
                  Update(id, [edited EXCEPT !.linked = Mine]) >>
          [] OTHER -> << Update(id, edited) >>

\* Fault: the account the second leg leaves is not replayed.
WithoutOldTarget(id, in) == TouchedBy(id, in) \cup IF HasTarget(in) THEN {in.target} ELSE {}

\* The accounts an update replays, in any order.
Replayed(id, in) ==
    TouchedBy(id, in)
    \cup (IF HasLinked(txs[id]) THEN {txs[txs[id].linked].account} ELSE {})
    \cup (IF HasTarget(in) /\ (txs[id].isTransfer => HasLinked(txs[id])) THEN {in.target} ELSE {})

\* Fault: the second leg of a transfer stays.
OneLegOnly(id) == << Delete(id, TRUE) >>

DeleteStatements(id) ==
    << Delete(id, TRUE) >>
    \o IF txs[id].isTransfer /\ txs[id].linked # NoTx THEN << Delete(txs[id].linked, FALSE) >>
       ELSE << >>

-----------------------------------------------------------------------------
(* Starting: requests on common accounts that overlap disturb each other.   *)

Working(w) == job[w].todo # << >>

\* History: the live rows worker w is still going to write.
Writes(w) ==
    LET ids == {s.id : s \in {t \in ToSet(job[w].todo) : t.op \in {"update", "delete", "rowBalance"}}}
    IN  {i \in ids : ~txs[i].deleted}

\* History: the accounts it works on, and those its rows have been moved to by now.
Reach(w) == IF Working(w) THEN job[w].accounts \cup {txs[i].account : i \in Writes(w)} ELSE {}

Start(w, kind, accounts, replays, todo) ==
    LET met == {v \in Workers \ {w} : job[v].accounts \cap accounts # {}}
    IN  /\ job[w] = None
        /\ requests < MaxRequests
        /\ requests' = requests + 1
        /\ job' = [v \in Workers |->
             IF v = w THEN [kind |-> kind, accounts |-> accounts, replays |-> replays,
                            todo |-> todo, made |-> << >>,
                            calm |-> \A x \in Workers \ {w} : Reach(x) \cap accounts = {}]
             ELSE IF v \in met THEN [job[v] EXCEPT !.calm = FALSE] ELSE job[v]]
        /\ disturbed' = (disturbed \/ \E v \in Workers : Working(v))
        /\ UNCHANGED <<vars, faults, ledger>>

StartCreate(w, u, in) ==
    /\ MayUse(u, in.account)
    /\ ~SelfTransfer(in)
    /\ HasTarget(in) => MayUse(u, in.target)
    /\ Start(w, "create", {in.account} \cup IF HasTarget(in) THEN {in.target} ELSE {}, {},
             CreateStatements(u, in))

\* The target is looked at when the update writes a second leg.
StartUpdate(w, u, id, in) ==
    LET writesLeg == in.isTransfer /\ (txs[id].isTransfer => HasLinked(txs[id]))
    IN  /\ UpdateGuard(u, id, in)
        /\ writesLeg /\ in.target # NoAccount => MayUse(u, in.target)
        /\ writesLeg /\ in.target = NoAccount /\ HasLinked(txs[id]) =>
               MayUse(u, txs[txs[id].linked].account)
        /\ \E order \in SetToSeqs(Replayed(id, in)) :
              Start(w, "update", Replayed(id, in), Replayed(id, in),
                    UpdateStatements(u, id, in) \o [k \in DOMAIN order |-> Replay(order[k])])

\* The account of a second leg is replayed if the leg was found.
StartDelete(w, u, id) ==
    LET row   == txs[id]
        other == IF HasLinked(row) THEN << txs[row.linked].account >> ELSE << >>
        order == << row.account >> \o other
    IN  /\ MayEdit(u, id)
        /\ Start(w, "delete", ToSet(order), ToSet(order),
                 DeleteStatements(id) \o [k \in DOMAIN order |-> Replay(order[k])])

StartAdjust(w, u, a, target) ==
    /\ MayUse(u, a)
    /\ target # balance[a]
    /\ Start(w, "adjust", {a}, {},
             << Insert(AdjustmentRow(a, balance[a], target), target), SetBalance(a, target) >>)

-----------------------------------------------------------------------------
(* Working.                                                                 *)

Own(w, id) == IF id = Mine THEN job[w].made[1] ELSE id

\* The tables after statement s of worker w.
Execute(w, s) ==
    /\ txs' = CASE s.op = "insert" -> Append(txs, [s.row EXCEPT !.linked = Own(w, @)])
                [] s.op = "update" -> [txs EXCEPT ![s.id] =
                        [s.row EXCEPT !.linked = Own(w, @), !.deleted = txs[s.id].deleted]]
                [] s.op = "delete" -> [txs EXCEPT ![s.id].deleted = TRUE]
                [] s.op = "link"   -> [txs EXCEPT ![job[w].made[1]].linked = job[w].made[2]]
                [] OTHER           -> txs
    /\ newBalance' = CASE s.op = "insert"     -> Append(newBalance, s.value)
                       [] s.op \in {"update", "rowBalance"} -> [newBalance EXCEPT ![s.id] = s.value]
                       [] OTHER               -> newBalance
    /\ balance' = IF s.op = "balance" THEN [balance EXCEPT ![s.account] = s.value] ELSE balance
    /\ UNCHANGED <<acct, initial, now>>

\* A replay is its reads, and puts its writes before what is left to do; the replay of
\* an account the repository does not show ends with them.
After(s, rest) ==
    IF s.op # "replay" THEN rest
    ELSE IF Visible(s.account) THEN recalculateBalances(s.account) \o rest ELSE rest

Step(w) ==
    LET s    == Head(job[w].todo)
        made == IF s.op = "insert" THEN Append(job[w].made, Len(txs) + 1) ELSE job[w].made
    IN  /\ Working(w)
        /\ Execute(w, s)
        /\ job' = [job EXCEPT ![w].todo = After(s, Tail(@)), ![w].made = made]
        /\ UNCHANGED <<requests, faults, disturbed>>
        /\ ledger' = IF disturbed \/ job'[w].todo # << >> THEN ledger ELSE Tables'

\* What is left when statement s fails: the replays not yet begun, which come last, or
\* nothing, or all.
Abandoned(s, rest) ==
    LET replays == {i \in DOMAIN rest : rest[i].op = "replay"}
    IN  IF s.op \in {"rowBalance", "balance"}
        THEN SubSeq(rest, Min(replays \cup {Len(rest) + 1}), Len(rest))
        ELSE IF s.must THEN << >> ELSE rest

FailStatement(w) ==
    LET s == Head(job[w].todo)
    IN  /\ Working(w)
        /\ faults < MaxFaults
        /\ job' = [job EXCEPT ![w].todo = Abandoned(s, Tail(@)), ![w].calm = FALSE]
        /\ faults' = faults + 1
        /\ disturbed' = TRUE
        /\ UNCHANGED <<vars, requests, ledger>>

Respond(w) ==
    /\ job[w] # None /\ ~Working(w)
    /\ job' = [job EXCEPT ![w] = None]
    /\ UNCHANGED <<vars, requests, faults, ledger, disturbed>>

\* Whatever the server worked on is gone.
Crash ==
    /\ faults < MaxFaults
    /\ \E w \in Workers : Working(w)
    /\ job' = [w \in Workers |-> None]
    /\ faults' = faults + 1
    /\ disturbed' = TRUE
    /\ UNCHANGED <<vars, requests, ledger>>

\* Accounts: single statements.
AccountStatement(u) ==
    /\ \/ \E a \in Accounts, b, i \in Balances : CreateAccount(u, a, b, i)
       \/ \E a \in Accounts : DeleteAccount(u, a)
    /\ disturbed' = (disturbed \/ \E w \in Workers : Working(w))
    /\ ledger' = IF disturbed' THEN ledger ELSE Tables'
    /\ UNCHANGED <<job, requests, faults>>

StartRequest(w, u) ==
    \/ \E in \in Inputs : StartCreate(w, u, in)
    \/ \E id \in DOMAIN txs, in \in Inputs : StartUpdate(w, u, id, in)
    \/ \E id \in DOMAIN txs : StartDelete(w, u, id)
    \/ \E a \in Accounts, b \in Balances : StartAdjust(w, u, a, b)

StepsNext ==
    \/ \E w \in Workers, u \in Users : StartRequest(w, u)
    \/ \E w \in Workers : Step(w) \/ FailStatement(w) \/ Respond(w)
    \/ \E u \in Users : AccountStatement(u)
    \/ Crash

StepsSpec == StepsInit /\ [][StepsNext]_<<vars, stepVars>>

=============================================================================
