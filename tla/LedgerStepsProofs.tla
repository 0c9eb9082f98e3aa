-------------------------- MODULE LedgerStepsProofs --------------------------
(***************************************************************************)
(* Proofs about module LedgerSteps, for any number of workers, accounts,    *)
(* rows, requests and faults: an edit that runs through undisturbed settles *)
(* the accounts it replays, whatever others do to other accounts meanwhile  *)
(* and whatever was done to these before.                                   *)
(*                                                                          *)
(* The predicates take the tables, as the record LedgerSteps keeps a copy   *)
(* of, so that a step is about the tables D before it and E after it.       *)
(***************************************************************************)
EXTENDS LedgerStepsProps, LedgerProofs

-----------------------------------------------------------------------------
(* The invariant: what every statement still to come relies on.             *)

IsSequence(q) == q \in Seq({q[i] : i \in DOMAIN q})

EditOps == {"insert", "update", "delete"}  \* what comes before the replays of an edit
RowOps == {"update", "delete", "rowBalance"}  \* statements about a stored row
Ops == EditOps \cup {"rowBalance", "balance", "replay", "link"}

\* The columns of the tables, and that rows are on opened accounts.
TablesFit(D) ==
    /\ D.acct \in [Accounts -> AccountState]
    /\ D.initial \in [Accounts -> Int] /\ D.balance \in [Accounts -> Int]
    /\ D.txs \in Seq(Row) /\ D.newBalance \in Seq(Int)
    /\ Len(D.newBalance) = Len(D.txs)
    /\ \A i \in 1..Len(D.txs) :
          D.acct[D.txs[i].account].opened /\ D.txs[i].linked \in 0..Len(D.txs)

\* A row as a request writes it: the link may be to the row the request inserts.
RowRead(D, row) ==
    /\ row.linked \in (0..Len(D.txs)) \cup {Mine}
    /\ \A n \in Nat : [row EXCEPT !.linked = n] \in Row

\* What statement s of a request on some accounts relies on.
Fits(D, s, accounts) ==
    /\ s.op \in Ops
    /\ s.op \in {"insert", "update"} => RowRead(D, s.row) /\ s.row.account \in accounts
    /\ s.op \in {"insert", "update", "rowBalance", "balance"} => s.value \in Int
    /\ s.op \in RowOps => s.id \in 1..Len(D.txs)
    /\ s.op \in {"balance", "replay"} => s.account \in accounts
    /\ s.op = "insert" => s.must

NeedsMine(s) == s.op \in {"insert", "update"} /\ s.row.linked = Mine

\* The rows a request refers to as its own have been inserted by then.
MadeBefore(q, made) ==
    \A i \in 1..Len(q) :
        /\ NeedsMine(q[i]) => made # << >> \/ (i > 1 /\ q[1].op = "insert")
        /\ q[i].op = "link" =>
              \/ Len(made) >= 2
              \/ i > 1 /\ q[i - 1].op = "insert" /\ NeedsMine(q[i - 1])

ReplaysLast(q) ==
    \A i, k \in 1..Len(q) : i < k /\ q[i].op = "replay" => q[k].op = "replay"

IsJob(D, j) ==
    /\ j = [kind |-> j.kind, accounts |-> j.accounts, replays |-> j.replays,
            todo |-> j.todo, made |-> j.made, calm |-> j.calm]
    /\ j.calm \in BOOLEAN
    /\ j.accounts \subseteq Accounts /\ j.replays \subseteq j.accounts
    /\ IsSequence(j.todo) /\ j.made \in Seq(1..Len(D.txs))

TodoFits(D, j) ==
    /\ \A i \in 1..Len(j.todo) : Fits(D, j.todo[i], j.accounts)
    /\ MadeBefore(j.todo, j.made)
    /\ ReplaysLast(j.todo)

JobFits(D, j) ==
    /\ IsJob(D, j)
    /\ \A a \in j.accounts : D.acct[a].opened
    /\ TodoFits(D, j)

-----------------------------------------------------------------------------
(* The invariant: undisturbed edits.                                        *)

CalmEdit(j) == j.kind \in {"update", "delete"} /\ j.calm

IsReplay(s, a) == s.op = "replay" /\ s.account = a

Live(D, i) == ~D.txs[i].deleted

Recalculated(D, a) == Final(D.initial[a], D.txs, D.newBalance, a)

SettledIn(D, a) == D.acct[a].opened /\ ~D.acct[a].deleted => D.balance[a] = Recalculated(D, a)

\* Statement s of a replay of account a: it writes nothing else, and keeps what an
\* adjustment row says.
RowWrite(D, s, a) ==
    /\ s.op = "rowBalance"
    /\ Live(D, s.id) => /\ D.txs[s.id].account = a
                        /\ D.txs[s.id].isAdjustment => s.value = D.newBalance[s.id]

\* The replay of account a has begun, and will end with statement k.
WritingTo(D, q, a, k) ==
    /\ q[k].op = "balance" /\ q[k].account = a /\ q[k].value = Recalculated(D, a)
    /\ \A i \in 1..(k - 1) : RowWrite(D, q[i], a)

Writing(D, q, a) == \E k \in 1..Len(q) : WritingTo(D, q, a, k)

Awaits(q, a) == \E i \in 1..Len(q) : IsReplay(q[i], a)

\* Account a is going to be replayed, is being replayed, or has been.
Repaired(D, q, a) == Awaits(q, a) \/ Writing(D, q, a) \/ SettledIn(D, a)

\* The rows are written first, then the accounts are replayed, one by one.
Ordered(q, replays) ==
    \A i \in 1..Len(q) :
        /\ q[i].op # "link"
        /\ q[i].op \in EditOps =>
              /\ \A a \in replays : \E k \in (i + 1)..Len(q) : IsReplay(q[k], a)
              /\ \A k \in (i + 1)..Len(q) : q[k].op \in EditOps \cup {"replay"}
        /\ q[i].op = "balance" => \A k \in (i + 1)..Len(q) : q[k].op = "replay"
        /\ q[i].op = "replay" => q[i].account \in replays

\* What a replay writes first is part of a replay.
Begun(D, q, replays) ==
    q # << >> /\ q[1].op \in {"rowBalance", "balance"} => \E a \in replays : Writing(D, q, a)

\* The live rows an edit is going to write are on its accounts.
AtHome(D, j) ==
    \A i \in 1..Len(j.todo) :
        j.todo[i].op \in RowOps /\ Live(D, j.todo[i].id) =>
            D.txs[j.todo[i].id].account \in j.accounts

\* Request j does not work on the accounts, or write rows that are on them.
Apart(D, j, accounts) ==
    j.todo # << >> =>
        /\ j.accounts \cap accounts = {}
        /\ \A i \in 1..Len(j.todo) :
              j.todo[i].op \in RowOps /\ Live(D, j.todo[i].id) =>
                  D.txs[j.todo[i].id].account \notin accounts

Repairs(D, j) ==
    /\ Ordered(j.todo, j.replays)
    /\ Begun(D, j.todo, j.replays)
    /\ AtHome(D, j)
    /\ \A a \in j.replays : Repaired(D, j.todo, a)

AllFit(D, J) ==
    /\ J = [x \in Workers |-> J[x]]
    /\ \A x \in Workers : JobFits(D, J[x])

EditsRepair(D, J) ==
    \A w \in Workers : CalmEdit(J[w]) =>
        /\ Repairs(D, J[w])
        /\ \A x \in Workers \ {w} : Apart(D, J[x], J[w].accounts)

\* The inductive invariant.
StepsInv == TypeOK /\ TablesFit(Tables) /\ AllFit(Tables, job) /\ EditsRepair(Tables, job)

-----------------------------------------------------------------------------
(* Sequences of statements.                                                 *)

\* A sequence of anything is one of its elements.
LEMMA SequenceOf ==
    ASSUME NEW X, NEW q \in Seq(X)
    PROVE  /\ IsSequence(q) /\ Len(q) \in Nat /\ DOMAIN q = 1..Len(q)
           /\ q = << >> <=> Len(q) = 0
  <1>1. /\ Len(q) \in Nat /\ q \in [1..Len(q) -> X] /\ DOMAIN q = 1..Len(q)
    BY LenProperties
  <1>2. q \in [1..Len(q) -> {q[i] : i \in DOMAIN q}]
    BY <1>1
  <1>3. IsSequence(q)
    BY <1>1, <1>2, SeqDef DEF IsSequence
  <1>4. q = << >> <=> Len(q) = 0
    BY <1>1, EmptySeq
  <1>5. QED
    BY <1>1, <1>3, <1>4

LEMMA SequenceIs ==
    ASSUME NEW q, IsSequence(q)
    PROVE  /\ Len(q) \in Nat /\ DOMAIN q = 1..Len(q)
           /\ q = << >> <=> Len(q) = 0
  <1>1. PICK X : q \in Seq(X)
    BY DEF IsSequence
  <1>2. QED
    BY <1>1, SequenceOf

\* The statements after the first one.
LEMMA TailOf ==
    ASSUME NEW q, IsSequence(q), q # << >>
    PROVE  /\ IsSequence(Tail(q)) /\ Len(q) \in Nat /\ Len(q) >= 1 /\ Head(q) = q[1]
           /\ Len(Tail(q)) = Len(q) - 1
           /\ \A i \in 1..Len(Tail(q)) : Tail(q)[i] = q[i + 1]
  <1>1. PICK X : q \in Seq(X)
    BY DEF IsSequence
  <1>2. Tail(q) \in Seq(X) /\ Len(Tail(q)) = Len(q) - 1
        /\ \A i \in 1..Len(Tail(q)) : Tail(q)[i] = q[i + 1]
    BY <1>1, HeadTailProperties
  <1>3. Len(q) \in Nat /\ Len(q) # 0
    BY <1>1, SequenceOf
  <1>4. Head(q) = q[1]
    BY <1>1
  <1>5. IsSequence(Tail(q))
    BY <1>2, SequenceOf
  <1>6. QED
    BY <1>2, <1>3, <1>4, <1>5

\* r is p, then q.
Joined(p, q, r) ==
    /\ IsSequence(r) /\ Len(p) \in Nat /\ Len(q) \in Nat /\ Len(r) = Len(p) + Len(q)
    /\ \A i \in 1..Len(p) : r[i] = p[i]
    /\ \A i \in 1..Len(q) : r[Len(p) + i] = q[i]
    /\ \A i \in 1..Len(r) : IF i <= Len(p) THEN r[i] = p[i]
                             ELSE i - Len(p) \in 1..Len(q) /\ r[i] = q[i - Len(p)]

LEMMA JoinOf ==
    ASSUME NEW p, IsSequence(p), NEW q, IsSequence(q), NEW r, r = p \o q
    PROVE  Joined(p, q, r)
  <1>1. PICK X, Y : p \in Seq(X) /\ q \in Seq(Y)
    BY DEF IsSequence
  <1>2. p \in Seq(X \cup Y) /\ q \in Seq(X \cup Y)
    BY <1>1, SeqMonotonic
  <1>3. Len(p) \in Nat /\ Len(q) \in Nat
    BY <1>1, LenProperties
  <1>4. /\ r \in Seq(X \cup Y) /\ Len(r) = Len(p) + Len(q)
        /\ \A i \in 1..(Len(p) + Len(q)) :
              r[i] = IF i <= Len(p) THEN p[i] ELSE q[i - Len(p)]
    BY <1>2, ConcatProperties
  <1>5. \A i \in 1..Len(p) : r[i] = p[i]
    BY <1>3, <1>4
  <1>6. \A i \in 1..Len(q) : r[Len(p) + i] = q[i]
    <2>1. TAKE i \in 1..Len(q)
    <2>2. /\ Len(p) + i \in 1..(Len(p) + Len(q)) /\ ~(Len(p) + i <= Len(p))
          /\ (Len(p) + i) - Len(p) = i
      BY <1>3
    <2>3. QED
      BY <1>4, <2>2
  <1>7. \A i \in 1..Len(r) : IF i <= Len(p) THEN r[i] = p[i]
                             ELSE i - Len(p) \in 1..Len(q) /\ r[i] = q[i - Len(p)]
    <2>1. TAKE i \in 1..Len(r)
    <2>2. ~(i <= Len(p)) => i - Len(p) \in 1..Len(q)
      BY <1>3, <1>4
    <2>3. QED
      BY <1>4, <2>2
  <1>8. QED
    BY <1>3, <1>4, <1>5, <1>6, <1>7, SequenceOf DEF Joined

\* r are the statements of q from the n-th one on.
Suffix(q, n, r) == n \in 1..(Len(q) + 1) /\ r = SubSeq(q, n, Len(q))

LEMMA SuffixOf ==
    ASSUME NEW q, IsSequence(q), NEW n, NEW r, Suffix(q, n, r)
    PROVE  /\ IsSequence(r) /\ Len(q) \in Nat /\ Len(r) = Len(q) - n + 1
           /\ \A i \in 1..Len(r) : n + i - 1 \in n..Len(q) /\ r[i] = q[n + i - 1]
  <1>1. PICK X : q \in Seq(X)
    BY DEF IsSequence
  <1>2. Len(q) \in Nat /\ \A i \in 1..Len(q) : q[i] \in X
    BY <1>1, LenProperties, ElementOfSeq
  <1>3. n \in Int /\ Len(q) \in Int /\ n \in 1..(Len(q) + 1)
        /\ \A i \in n..Len(q) : q[i] \in X
    BY <1>2 DEF Suffix
  <1>4. /\ r \in Seq(X) /\ Len(r) = (IF n <= Len(q) THEN Len(q) - n + 1 ELSE 0)
        /\ \A i \in 1..(Len(q) - n + 1) : r[i] = q[n + i - 1]
    BY <1>3, SubSeqProperties DEF Suffix
  <1>5. Len(r) = Len(q) - n + 1
    BY <1>2, <1>3, <1>4
  <1>6. \A i \in 1..Len(r) : n + i - 1 \in n..Len(q) /\ r[i] = q[n + i - 1]
    BY <1>2, <1>3, <1>4, <1>5
  <1>7. IsSequence(r)
    BY <1>4, SequenceOf
  <1>8. QED
    BY <1>2, <1>5, <1>6, <1>7

-----------------------------------------------------------------------------
(* What is left of a request that fits, fits.                               *)

\* Every statement of q has been one of p, in the same order.
Within(q, p, n) ==
    /\ IsSequence(q) /\ IsSequence(p) /\ n \in Nat
    /\ Len(q) = Len(p) - n
    /\ \A i \in 1..Len(q) : i + n \in 1..Len(p) /\ q[i] = p[i + n]

LEMMA TailWithin ==
    ASSUME NEW q, IsSequence(q), q # << >>
    PROVE  Within(Tail(q), q, 1)
  <1>1. PICK r : r = Tail(q)
    OBVIOUS
  <1>2. /\ IsSequence(r) /\ Len(q) \in Nat /\ Len(q) >= 1 /\ Len(r) = Len(q) - 1
        /\ \A i \in 1..Len(r) : r[i] = q[i + 1]
    BY <1>1, TailOf
  <1>3. \A i \in 1..Len(r) : i + 1 \in 1..Len(q)
    BY <1>2
  <1>4. QED
    BY <1>1, <1>2, <1>3 DEF Within

LEMMA WithinFits ==
    ASSUME NEW p, NEW q, NEW n, Within(q, p, n)
    PROVE  /\ \A D, A : (\A i \in 1..Len(p) : Fits(D, p[i], A)) => \A i \in 1..Len(q) : Fits(D, q[i], A)
           /\ ReplaysLast(p) => ReplaysLast(q)
           /\ \A R : Ordered(p, R) => Ordered(q, R)
  <1>1. Len(q) \in Nat /\ Len(p) \in Nat /\ n \in Nat
    BY SequenceIs DEF Within
  <1>2. ASSUME NEW D, NEW A, \A i \in 1..Len(p) : Fits(D, p[i], A), NEW i \in 1..Len(q)
        PROVE  Fits(D, q[i], A)
    BY <1>2 DEF Within
  <1>3. ASSUME ReplaysLast(p) PROVE ReplaysLast(q)
    <2>1. SUFFICES ASSUME NEW i \in 1..Len(q), NEW k \in 1..Len(q), i < k, q[i].op = "replay"
                   PROVE  q[k].op = "replay"
      BY DEF ReplaysLast
    <2>2. i + n < k + n /\ i + n \in 1..Len(p) /\ k + n \in 1..Len(p)
          /\ q[i] = p[i + n] /\ q[k] = p[k + n]
      BY <1>1, <2>1 DEF Within
    <2>3. QED
      BY <1>3, <2>1, <2>2 DEF ReplaysLast
  <1>4. ASSUME NEW R, Ordered(p, R) PROVE Ordered(q, R)
    <2>1. SUFFICES ASSUME NEW i \in 1..Len(q)
                   PROVE  /\ q[i].op # "link"
                          /\ q[i].op \in EditOps =>
                                /\ \A a \in R : \E k \in (i + 1)..Len(q) : IsReplay(q[k], a)
                                /\ \A k \in (i + 1)..Len(q) : q[k].op \in EditOps \cup {"replay"}
                          /\ q[i].op = "balance" => \A k \in (i + 1)..Len(q) : q[k].op = "replay"
                          /\ q[i].op = "replay" => q[i].account \in R
      BY DEF Ordered
    <2>2. i + n \in 1..Len(p) /\ q[i] = p[i + n]
      BY DEF Within
    <2>3. \A k \in (i + 1)..Len(q) : k + n \in ((i + n) + 1)..Len(p) /\ q[k] = p[k + n]
      BY <1>1 DEF Within
    <2>4. ASSUME NEW k \in ((i + n) + 1)..Len(p)
          PROVE  k - n \in (i + 1)..Len(q) /\ q[k - n] = p[k]
      <3>1. Len(q) = Len(p) - n
        BY DEF Within
      <3>2. k - n \in (i + 1)..Len(q) /\ k - n \in 1..Len(q) /\ (k - n) + n = k
        BY <1>1, <3>1
      <3>3. QED
        BY <3>2 DEF Within
    <2>5. q[i].op # "link"
      BY <1>4, <2>2 DEF Ordered
    <2>6. ASSUME q[i].op \in EditOps
          PROVE  /\ \A a \in R : \E k \in (i + 1)..Len(q) : IsReplay(q[k], a)
                 /\ \A k \in (i + 1)..Len(q) : q[k].op \in EditOps \cup {"replay"}
      <3>1. \A a \in R : \E k \in ((i + n) + 1)..Len(p) : IsReplay(p[k], a)
        BY <1>4, <2>2, <2>6 DEF Ordered
      <3>2. \A k \in ((i + n) + 1)..Len(p) : p[k].op \in EditOps \cup {"replay"}
        BY <1>4, <2>2, <2>6 DEF Ordered
      <3>3. ASSUME NEW a \in R PROVE \E k \in (i + 1)..Len(q) : IsReplay(q[k], a)
        <4>1. PICK k \in ((i + n) + 1)..Len(p) : IsReplay(p[k], a)
          BY <3>1
        <4>2. QED
          BY <2>4, <4>1
      <3>4. QED
        BY <2>3, <3>2, <3>3
    <2>7. q[i].op = "balance" => \A k \in (i + 1)..Len(q) : q[k].op = "replay"
      <3>1. q[i].op = "balance" => \A k \in ((i + n) + 1)..Len(p) : p[k].op = "replay"
        BY <1>4, <2>2 DEF Ordered
      <3>2. QED
        BY <2>3, <3>1
    <2>8. q[i].op = "replay" => q[i].account \in R
      BY <1>4, <2>2 DEF Ordered
    <2>9. QED
      BY <2>5, <2>6, <2>7, <2>8
  <1>5. QED
    BY <1>2, <1>3, <1>4

\* Statements that others are still waiting for stay.
LEMMA WithinAwaits ==
    ASSUME NEW p, NEW q, NEW n, Within(q, p, n), NEW a,
           NEW k \in (n + 1)..Len(p), IsReplay(p[k], a)
    PROVE  Awaits(q, a)
  <1>1. Len(q) \in Nat /\ Len(p) \in Nat /\ n \in Nat /\ Len(q) = Len(p) - n
    BY SequenceIs DEF Within
  <1>2. k - n \in 1..Len(q) /\ (k - n) + n = k
    BY <1>1
  <1>3. QED
    BY <1>2 DEF Within, Awaits

-----------------------------------------------------------------------------
(* What a statement does to the tables.                                     *)

\* Facts about tables that fit.
LEMMA TablesFacts ==
    ASSUME NEW D, TablesFit(D)
    PROVE  /\ Len(D.txs) \in Nat /\ DOMAIN D.txs = 1..Len(D.txs) /\ DOMAIN D.newBalance = 1..Len(D.txs)
           /\ Table(D.txs)
           /\ \A i \in 1..Len(D.txs) :
                 /\ D.txs[i] \in Row /\ D.newBalance[i] \in Int
                 /\ D.txs[i].account \in Accounts /\ D.txs[i].deleted \in BOOLEAN
                 /\ D.txs[i].isAdjustment \in BOOLEAN
  <1>1. /\ D.txs \in Seq(Row) /\ D.newBalance \in Seq(Int) /\ Len(D.newBalance) = Len(D.txs)
    BY DEF TablesFit
  <1>2. /\ Len(D.txs) \in Nat /\ D.txs \in [1..Len(D.txs) -> Row]
        /\ D.newBalance \in [1..Len(D.txs) -> Int]
    BY <1>1, LenProperties
  <1>3. Table(D.txs)
    BY <1>2 DEF Table
  <1>4. ASSUME NEW i \in 1..Len(D.txs)
        PROVE  /\ D.txs[i] \in Row /\ D.newBalance[i] \in Int
               /\ D.txs[i].account \in Accounts /\ D.txs[i].deleted \in BOOLEAN
               /\ D.txs[i].isAdjustment \in BOOLEAN
    <2>1. D.txs[i] \in Row /\ D.newBalance[i] \in Int
      BY <1>2
    <2>2. QED
      BY <2>1 DEF Row
  <1>5. QED
    BY <1>2, <1>3, <1>4

\* Row i does to balances what it did.
KeptRow(D, E, i) ==
    /\ Live(E, i) <=> Live(D, i)
    /\ E.txs[i].account = D.txs[i].account /\ E.txs[i].date = D.txs[i].date
    /\ SameEffect(D.txs[i], D.newBalance[i], E.txs[i], E.newBalance[i])

\* What all statements have in common, and what each one writes.
Effect(D, E, s) ==
    /\ E.acct = D.acct /\ E.initial = D.initial /\ Len(D.txs) <= Len(E.txs)
    /\ \A i \in 1..Len(D.txs) :
          /\ Live(E, i) => Live(D, i)
          /\ KeptRow(D, E, i) \/ (s.op \in RowOps /\ s.id = i)
    /\ s.op = "update" => E.txs[s.id].account = s.row.account
    /\ s.op = "delete" => ~Live(E, s.id)
    /\ s.op = "rowBalance" => E.txs = D.txs /\ E.newBalance[s.id] = s.value
    /\ s.op \in {"balance", "replay"} => E.txs = D.txs /\ E.newBalance = D.newBalance
    /\ \A i \in (Len(D.txs) + 1)..Len(E.txs) :
          s.op = "insert" /\ E.txs[i].account = s.row.account
    /\ \A a \in Accounts :
          E.balance[a] = IF s.op = "balance" /\ s.account = a THEN s.value ELSE D.balance[a]

\* What a statement of a request on some accounts, with the rows it has made, relies on.
CanDo(D, s, made, accounts) ==
    /\ TablesFit(D) /\ Fits(D, s, accounts)
    /\ accounts \subseteq Accounts /\ \A a \in accounts : D.acct[a].opened
    /\ made \in Seq(1..Len(D.txs))
    /\ NeedsMine(s) => made # << >>
    /\ s.op = "link" => Len(made) >= 2

\* One row is added; nothing else happens.
LEMMA Insertion ==
    ASSUME NEW D, TablesFit(D), NEW E, NEW row \in Row, NEW b \in Int,
           E.acct = D.acct, E.initial = D.initial, E.balance = D.balance,
           E.txs = Append(D.txs, row), E.newBalance = Append(D.newBalance, b),
           D.acct[row.account].opened, row.linked \in 0..Len(D.txs)
    PROVE  /\ TablesFit(E) /\ Len(E.txs) = Len(D.txs) + 1
           /\ \A i \in 1..Len(D.txs) : E.txs[i] = D.txs[i] /\ E.newBalance[i] = D.newBalance[i]
           /\ E.txs[Len(D.txs) + 1] = row
  <1>1. PICK n, T, N : n = Len(D.txs) /\ T = D.txs /\ N = D.newBalance
    OBVIOUS
  <1>2. n \in Nat /\ T \in Seq(Row) /\ N \in Seq(Int) /\ Len(N) = n /\ Len(T) = n
    BY <1>1, TablesFacts DEF TablesFit
  <1>3. PICK U, M : U = Append(T, row) /\ M = Append(N, b)
    OBVIOUS
  <1>4. /\ U \in Seq(Row) /\ Len(U) = n + 1 /\ \A i \in 1..n : U[i] = T[i]
        /\ U[n + 1] = row
    <2>1. T \in Seq(Row) /\ U = Append(T, row)
      BY <1>2, <1>3
    <2>2. /\ U \in Seq(Row) /\ Len(U) = Len(T) + 1 /\ U[Len(T) + 1] = row
          /\ \A i \in 1..Len(T) : U[i] = T[i]
      BY <2>1, AppendProperties
    <2>3. QED
      BY <1>2, <2>2
  <1>5. M \in Seq(Int) /\ Len(M) = n + 1 /\ \A i \in 1..n : M[i] = N[i]
    <2>1. N \in Seq(Int) /\ M = Append(N, b)
      BY <1>2, <1>3
    <2>2. M \in Seq(Int) /\ Len(M) = Len(N) + 1 /\ \A i \in 1..Len(N) : M[i] = N[i]
      BY <2>1, AppendProperties
    <2>3. QED
      BY <1>2, <2>2
  <1>6. E.txs = U /\ E.newBalance = M
    BY <1>1, <1>3
  <1>7. ASSUME NEW i \in 1..(n + 1)
        PROVE  E.acct[U[i].account].opened /\ U[i].linked \in 0..(n + 1)
    <2>1. CASE i = n + 1
      BY <1>1, <1>2, <1>4, <2>1
    <2>2. CASE i \in 1..n
      <3>1. U[i] = T[i] /\ D.acct[T[i].account].opened /\ T[i].linked \in 0..n
        BY <1>1, <1>4, <2>2 DEF TablesFit
      <3>2. QED
        BY <1>2, <3>1
    <2>3. QED
      BY <1>2, <2>1, <2>2
  <1>8. TablesFit(E)
    BY <1>4, <1>5, <1>6, <1>7 DEF TablesFit
  <1>9. QED
    BY <1>1, <1>4, <1>5, <1>6, <1>8

LEMMA RewrittenSame ==
    ASSUME NEW D, TablesFit(D), NEW k \in 1..Len(D.txs)
    PROVE  /\ D.txs = [D.txs EXCEPT ![k] = D.txs[k]]
           /\ D.newBalance = [D.newBalance EXCEPT ![k] = D.newBalance[k]]
  <1>1. D.txs \in [1..Len(D.txs) -> Row] /\ D.newBalance \in [1..Len(D.txs) -> Int]
    BY LenProperties DEF TablesFit
  <1>2. QED
    BY <1>1

\* One row is written, and perhaps its new_balance; nothing else happens.
Rewrites(D, E, k, row, b) ==
    /\ TablesFit(D) /\ k \in 1..Len(D.txs) /\ row \in Row /\ b \in Int
    /\ E.acct = D.acct /\ E.initial = D.initial /\ E.balance = D.balance
    /\ E.txs = [D.txs EXCEPT ![k] = row]
    /\ E.newBalance = [D.newBalance EXCEPT ![k] = b]
    /\ D.acct[row.account].opened /\ row.linked \in 0..Len(D.txs)

LEMMA Rewriting ==
    ASSUME NEW D, NEW E, NEW k, NEW row, NEW b, Rewrites(D, E, k, row, b)
    PROVE  /\ TablesFit(E) /\ Len(E.txs) = Len(D.txs)
           /\ E.txs[k] = row /\ E.newBalance[k] = b
           /\ \A i \in 1..Len(D.txs) :
                 i # k => E.txs[i] = D.txs[i] /\ E.newBalance[i] = D.newBalance[i]
  <1>1. PICK n, T, N : n = Len(D.txs) /\ T = D.txs /\ N = D.newBalance
    OBVIOUS
  <1>2. /\ n \in Nat /\ T \in Seq(Row) /\ N \in Seq(Int) /\ Len(N) = n /\ Len(T) = n
        /\ k \in 1..n /\ row \in Row /\ b \in Int
    BY <1>1, TablesFacts DEF TablesFit, Rewrites
  <1>3. PICK U, M : U = [T EXCEPT ![k] = row] /\ M = [N EXCEPT ![k] = b]
    OBVIOUS
  <1>4. U \in Seq(Row) /\ Len(U) = n /\ \A i \in 1..n : U[i] = IF i = k THEN row ELSE T[i]
    BY <1>2, <1>3, ExceptSeq
  <1>5. M \in Seq(Int) /\ Len(M) = n /\ \A i \in 1..n : M[i] = IF i = k THEN b ELSE N[i]
    BY <1>2, <1>3, ExceptSeq
  <1>6. E.txs = U /\ E.newBalance = M /\ E.acct = D.acct
    BY <1>1, <1>3 DEF Rewrites
  <1>7. ASSUME NEW i \in 1..n
        PROVE  E.acct[U[i].account].opened /\ U[i].linked \in 0..n
    <2>1. D.acct[T[i].account].opened /\ T[i].linked \in 0..n
      BY <1>1 DEF TablesFit, Rewrites
    <2>2. QED
      BY <1>1, <1>4, <1>6, <2>1 DEF Rewrites
  <1>8. TablesFit(E)
    BY <1>4, <1>5, <1>6, <1>7 DEF TablesFit, Rewrites
  <1>9. QED
    BY <1>1, <1>2, <1>4, <1>5, <1>6, <1>8

\* The row a request refers to, and the row a statement stores.
OwnedBy(made, id) == IF id = Mine THEN made[1] ELSE id
StoredRow(s, made) == [s.row EXCEPT !.linked = OwnedBy(made, @)]

\* Statement s, as Execute has it.
Executes(D, E, s, made) ==
    /\ E.txs = CASE s.op = "insert" -> Append(D.txs, StoredRow(s, made))
                 [] s.op = "update" -> [D.txs EXCEPT ![s.id] =
                        [s.row EXCEPT !.linked = OwnedBy(made, @), !.deleted = D.txs[s.id].deleted]]
                 [] s.op = "delete" -> [D.txs EXCEPT ![s.id].deleted = TRUE]
                 [] s.op = "link"   -> [D.txs EXCEPT ![made[1]].linked = made[2]]
                 [] OTHER           -> D.txs
    /\ E.newBalance = CASE s.op = "insert" -> Append(D.newBalance, s.value)
                        [] s.op \in {"update", "rowBalance"} ->
                               [D.newBalance EXCEPT ![s.id] = s.value]
                        [] OTHER -> D.newBalance
    /\ E.balance = IF s.op = "balance" THEN [D.balance EXCEPT ![s.account] = s.value]
                   ELSE D.balance
    /\ E.acct = D.acct /\ E.initial = D.initial

\* The link of a row that is stored is a row.
LEMMA StoredRows ==
    ASSUME NEW D, NEW s, NEW made, NEW A, CanDo(D, s, made, A), s.op \in {"insert", "update"}
    PROVE  /\ OwnedBy(made, s.row.linked) \in 0..Len(D.txs)
           /\ StoredRow(s, made) \in Row
           /\ StoredRow(s, made) = [s.row EXCEPT !.linked = OwnedBy(made, s.row.linked)]
           /\ StoredRow(s, made).account = s.row.account
           /\ StoredRow(s, made).linked = OwnedBy(made, s.row.linked)
           /\ s.row.account \in A /\ s.value \in Int
  <1>1. RowRead(D, s.row) /\ s.row.account \in A /\ s.value \in Int
    BY DEF CanDo, Fits
  <1>2. Len(D.txs) \in Nat
    BY TablesFacts DEF CanDo
  <1>3. PICK n : n = OwnedBy(made, s.row.linked)
    OBVIOUS
  <1>4. n \in 0..Len(D.txs)
    <2>1. CASE s.row.linked = Mine
      <3>1. made # << >> /\ made \in Seq(1..Len(D.txs))
        BY <2>1 DEF CanDo, NeedsMine
      <3>2. made[1] \in 1..Len(D.txs)
        <4>1. Len(made) \in Nat \ {0}
          BY <3>1, EmptySeq
        <4>2. QED
          BY <3>1, <4>1, ElementOfSeq
      <3>3. QED
        BY <1>2, <1>3, <2>1, <3>2 DEF OwnedBy
    <2>2. CASE s.row.linked # Mine
      BY <1>1, <1>3, <2>2 DEF OwnedBy, RowRead
    <2>3. QED
      BY <2>1, <2>2
  <1>5. PICK row : row = [s.row EXCEPT !.linked = n]
    OBVIOUS
  <1>6. row \in Row
    BY <1>1, <1>2, <1>4, <1>5 DEF RowRead
  <1>7. row = StoredRow(s, made)
    BY <1>3, <1>5 DEF StoredRow
  <1>8. row.account = s.row.account /\ row.linked = n
    <2>1. PICK r : r = s.row
      OBVIOUS
    <2>2. row = [r EXCEPT !.linked = n] /\ row \in Row
      BY <1>5, <1>6, <2>1
    <2>3. [r EXCEPT !.linked = 0] \in Row
      BY <1>1, <2>1 DEF RowRead
    <2>4. "linked" \in DOMAIN r
      BY <2>3, <2>2 DEF Row
    <2>5. QED
      BY <2>1, <2>2, <2>4
  <1>9. QED
    BY <1>1, <1>3, <1>4, <1>5, <1>6, <1>7, <1>8

LEMMA InsertEffect ==
    ASSUME NEW D, NEW E, NEW s, NEW made, NEW A, CanDo(D, s, made, A),
           Executes(D, E, s, made), s.op = "insert"
    PROVE  TablesFit(E) /\ Effect(D, E, s) /\ Len(E.txs) = Len(D.txs) + 1
  <1>1. PICK row : row = StoredRow(s, made)
    OBVIOUS
  <1>2. /\ row \in Row /\ row.account = s.row.account /\ row.account \in A
        /\ row.linked \in 0..Len(D.txs) /\ s.value \in Int
    BY <1>1, StoredRows
  <1>3. /\ E.txs = Append(D.txs, row) /\ E.newBalance = Append(D.newBalance, s.value)
        /\ E.balance = D.balance /\ E.acct = D.acct /\ E.initial = D.initial
    BY <1>1 DEF Executes
  <1>4. D.acct[row.account].opened /\ TablesFit(D)
    BY <1>2 DEF CanDo
  <1>5. /\ TablesFit(E) /\ Len(E.txs) = Len(D.txs) + 1
        /\ \A i \in 1..Len(D.txs) : E.txs[i] = D.txs[i] /\ E.newBalance[i] = D.newBalance[i]
        /\ E.txs[Len(D.txs) + 1] = row
    BY <1>2, <1>3, <1>4, Insertion
  <1>6. Len(D.txs) \in Nat
    BY <1>4, TablesFacts
  <1>7. \A i \in 1..Len(D.txs) : KeptRow(D, E, i) /\ (Live(E, i) => Live(D, i))
    BY <1>5 DEF KeptRow, Live, SameEffect
  <1>8. \A i \in (Len(D.txs) + 1)..Len(E.txs) : E.txs[i].account = s.row.account
    BY <1>2, <1>5, <1>6
  <1>9. Len(D.txs) <= Len(E.txs)
    BY <1>5, <1>6
  <1>10. QED
    BY <1>3, <1>5, <1>7, <1>8, <1>9 DEF Effect

\* What a rewritten row does not say about the others.
LEMMA RewrittenEffect ==
    ASSUME NEW D, TablesFit(D), NEW E, NEW s, NEW k \in 1..Len(D.txs),
           E.acct = D.acct, E.initial = D.initial, E.balance = D.balance,
           s.op \notin {"balance", "insert", "replay"},
           Len(E.txs) = Len(D.txs), Live(E, k) => Live(D, k),
           KeptRow(D, E, k) \/ (s.op \in RowOps /\ s.id = k),
           \A i \in 1..Len(D.txs) :
                 i # k => E.txs[i] = D.txs[i] /\ E.newBalance[i] = D.newBalance[i],
           s.op = "update" => E.txs[s.id].account = s.row.account,
           s.op = "delete" => ~Live(E, s.id),
           s.op = "rowBalance" => E.txs = D.txs /\ E.newBalance[s.id] = s.value
    PROVE  Effect(D, E, s)
  <1>1. Len(D.txs) \in Nat
    BY TablesFacts
  <1>2. \A i \in 1..Len(D.txs) : i # k => KeptRow(D, E, i) /\ (Live(E, i) => Live(D, i))
    BY DEF KeptRow, Live, SameEffect
  <1>3. \A i \in 1..Len(D.txs) : /\ Live(E, i) => Live(D, i)
                                 /\ KeptRow(D, E, i) \/ (s.op \in RowOps /\ s.id = i)
    BY <1>2
  <1>4. (Len(D.txs) + 1)..Len(E.txs) = {}
    BY <1>1
  <1>5. \A a \in Accounts :
          E.balance[a] = IF s.op = "balance" /\ s.account = a THEN s.value ELSE D.balance[a]
    OBVIOUS
  <1>6. QED
    BY <1>1, <1>3, <1>4, <1>5 DEF Effect

LEMMA UpdateEffect ==
    ASSUME NEW D, NEW E, NEW s, NEW made, NEW A, CanDo(D, s, made, A),
           Executes(D, E, s, made), s.op = "update"
    PROVE  TablesFit(E) /\ Effect(D, E, s) /\ Len(E.txs) = Len(D.txs)
  <1>1. PICK k, old, new : /\ k = s.id /\ old = D.txs[k]
                           /\ new = StoredRow(s, made)
    OBVIOUS
  <1>2. /\ new \in Row /\ new.account = s.row.account /\ new.account \in A
        /\ new.linked \in 0..Len(D.txs) /\ s.value \in Int
        /\ new = [s.row EXCEPT !.linked = OwnedBy(made, s.row.linked)]
    BY <1>1, StoredRows
  <1>3. TablesFit(D) /\ k \in 1..Len(D.txs) /\ D.acct[new.account].opened
    BY <1>1, <1>2 DEF CanDo, Fits, RowOps
  <1>4. old \in Row /\ old.deleted \in BOOLEAN
    BY <1>1, <1>3, TablesFacts
  <1>5. PICK row : row = [new EXCEPT !.deleted = old.deleted]
    OBVIOUS
  <1>6. row \in Row /\ row.account = new.account /\ row.linked = new.linked /\ row.deleted = old.deleted
    BY <1>2, <1>4, <1>5 DEF Row
  <1>7. row = [s.row EXCEPT !.linked = OwnedBy(made, @), !.deleted = D.txs[s.id].deleted]
    BY <1>1, <1>2, <1>5
  <1>8. /\ E.txs = [D.txs EXCEPT ![k] = row] /\ E.newBalance = [D.newBalance EXCEPT ![k] = s.value]
        /\ E.balance = D.balance /\ E.acct = D.acct /\ E.initial = D.initial
    BY <1>1, <1>7 DEF Executes
  <1>9. /\ TablesFit(E) /\ Len(E.txs) = Len(D.txs)
        /\ E.txs[k] = row
        /\ \A i \in 1..Len(D.txs) :
                 i # k => E.txs[i] = D.txs[i] /\ E.newBalance[i] = D.newBalance[i]
    <2>1. Rewrites(D, E, k, row, s.value)
      BY <1>2, <1>3, <1>6, <1>8 DEF Rewrites
    <2>2. QED
      BY <2>1, Rewriting
  <1>10. /\ Live(E, k) => Live(D, k)
         /\ s.op \in RowOps /\ s.id = k /\ E.txs[s.id].account = s.row.account
    BY <1>1, <1>2, <1>6, <1>9 DEF Live, RowOps
  <1>11. Effect(D, E, s)
    BY <1>3, <1>8, <1>9, <1>10, RewrittenEffect
  <1>12. QED
    BY <1>9, <1>11

LEMMA DeleteEffect ==
    ASSUME NEW D, NEW E, NEW s, NEW made, NEW A, CanDo(D, s, made, A),
           Executes(D, E, s, made), s.op = "delete"
    PROVE  TablesFit(E) /\ Effect(D, E, s) /\ Len(E.txs) = Len(D.txs)
  <1>1. PICK k, old : k = s.id /\ old = D.txs[k]
    OBVIOUS
  <1>2. TablesFit(D) /\ k \in 1..Len(D.txs)
    BY <1>1 DEF CanDo, Fits, RowOps
  <1>3. /\ old \in Row /\ D.acct[old.account].opened /\ old.linked \in 0..Len(D.txs)
        /\ D.newBalance[k] \in Int
    BY <1>1, <1>2, TablesFacts DEF TablesFit
  <1>4. PICK row : row = [old EXCEPT !.deleted = TRUE]
    OBVIOUS
  <1>5. row \in Row /\ row.account = old.account /\ row.linked = old.linked /\ row.deleted
    BY <1>3, <1>4 DEF Row
  <1>6. /\ E.txs = [D.txs EXCEPT ![k] = row]
        /\ E.balance = D.balance /\ E.acct = D.acct /\ E.initial = D.initial
    BY <1>1, <1>4 DEF Executes
  <1>7. PICK was : was = D.newBalance[k]
    OBVIOUS
  <1>8. /\ was \in Int /\ E.newBalance = [D.newBalance EXCEPT ![k] = was]
        /\ D.acct[row.account].opened
    <2>1. E.newBalance = D.newBalance
      BY DEF Executes
    <2>2. QED
      BY <1>2, <1>3, <1>5, <1>7, <2>1, RewrittenSame
  <1>9. /\ TablesFit(E) /\ Len(E.txs) = Len(D.txs)
        /\ E.txs[k] = row
        /\ \A i \in 1..Len(D.txs) :
                 i # k => E.txs[i] = D.txs[i] /\ E.newBalance[i] = D.newBalance[i]
    <2>1. Rewrites(D, E, k, row, was)
      BY <1>2, <1>3, <1>5, <1>6, <1>8 DEF Rewrites
    <2>2. QED
      BY <2>1, Rewriting
  <1>10. ~Live(E, k) /\ s.op \in RowOps /\ s.id = k
    BY <1>1, <1>5, <1>9 DEF Live, RowOps
  <1>11. Effect(D, E, s)
    BY <1>2, <1>6, <1>9, <1>10, RewrittenEffect
  <1>12. QED
    BY <1>9, <1>11

LEMMA LinkEffect ==
    ASSUME NEW D, NEW E, NEW s, NEW made, NEW A, CanDo(D, s, made, A),
           Executes(D, E, s, made), s.op = "link"
    PROVE  TablesFit(E) /\ Effect(D, E, s) /\ Len(E.txs) = Len(D.txs)
  <1>1. PICK k, old : k = made[1] /\ old = D.txs[k]
    OBVIOUS
  <1>2. TablesFit(D) /\ k \in 1..Len(D.txs) /\ made[2] \in 1..Len(D.txs)
    <2>1. made \in Seq(1..Len(D.txs)) /\ Len(made) >= 2 /\ TablesFit(D)
      BY DEF CanDo
    <2>2. 1 \in 1..Len(made) /\ 2 \in 1..Len(made)
      BY <2>1, LenProperties
    <2>3. QED
      BY <1>1, <2>1, <2>2, ElementOfSeq
  <1>3. /\ old \in Row /\ D.acct[old.account].opened /\ Len(D.txs) \in Nat
        /\ D.newBalance[k] \in Int
    BY <1>1, <1>2, TablesFacts DEF TablesFit
  <1>4. PICK row : row = [old EXCEPT !.linked = made[2]]
    OBVIOUS
  <1>5. /\ row \in Row /\ row.linked \in 0..Len(D.txs) /\ row.account = old.account
        /\ row.date = old.date /\ row.deleted = old.deleted /\ row.isAdjustment = old.isAdjustment
        /\ row.isIncome = old.isIncome /\ row.amount = old.amount
    BY <1>2, <1>3, <1>4 DEF Row
  <1>6. /\ E.txs = [D.txs EXCEPT ![k] = row]
        /\ E.balance = D.balance /\ E.acct = D.acct /\ E.initial = D.initial
    BY <1>1, <1>4 DEF Executes
  <1>7. PICK was : was = D.newBalance[k]
    OBVIOUS
  <1>8. /\ was \in Int /\ E.newBalance = [D.newBalance EXCEPT ![k] = was]
        /\ D.acct[row.account].opened
    <2>1. E.newBalance = D.newBalance
      BY DEF Executes
    <2>2. QED
      BY <1>2, <1>3, <1>5, <1>7, <2>1, RewrittenSame
  <1>9. /\ TablesFit(E) /\ Len(E.txs) = Len(D.txs)
        /\ E.txs[k] = row
        /\ \A i \in 1..Len(D.txs) :
                 i # k => E.txs[i] = D.txs[i] /\ E.newBalance[i] = D.newBalance[i]
    <2>1. Rewrites(D, E, k, row, was)
      BY <1>2, <1>3, <1>5, <1>6, <1>8 DEF Rewrites
    <2>2. QED
      BY <2>1, Rewriting
  <1>10. KeptRow(D, E, k) /\ (Live(E, k) => Live(D, k))
    <2>1. E.newBalance = D.newBalance
      BY DEF Executes
    <2>2. QED
      BY <1>1, <1>5, <1>9, <2>1 DEF Live, KeptRow, SameEffect
  <1>11. Effect(D, E, s)
    BY <1>2, <1>6, <1>9, <1>10, RewrittenEffect
  <1>12. QED
    BY <1>9, <1>11

LEMMA RowBalanceEffect ==
    ASSUME NEW D, NEW E, NEW s, NEW made, NEW A, CanDo(D, s, made, A),
           Executes(D, E, s, made), s.op = "rowBalance"
    PROVE  TablesFit(E) /\ Effect(D, E, s) /\ Len(E.txs) = Len(D.txs)
  <1>1. PICK k, row : k = s.id /\ row = D.txs[k]
    OBVIOUS
  <1>2. TablesFit(D) /\ k \in 1..Len(D.txs) /\ s.value \in Int
    BY <1>1 DEF CanDo, Fits, RowOps
  <1>3. /\ row \in Row /\ D.acct[row.account].opened /\ row.linked \in 0..Len(D.txs)
    BY <1>1, <1>2, TablesFacts DEF TablesFit
  <1>4. /\ E.txs = D.txs
        /\ E.newBalance = [D.newBalance EXCEPT ![k] = s.value]
        /\ E.balance = D.balance /\ E.acct = D.acct /\ E.initial = D.initial
    BY <1>1 DEF Executes
  <1>5. E.txs = [D.txs EXCEPT ![k] = row]
    BY <1>1, <1>2, <1>4, RewrittenSame
  <1>6. /\ TablesFit(E) /\ Len(E.txs) = Len(D.txs)
        /\ E.newBalance[k] = s.value
        /\ \A i \in 1..Len(D.txs) :
                 i # k => E.txs[i] = D.txs[i] /\ E.newBalance[i] = D.newBalance[i]
    <2>1. Rewrites(D, E, k, row, s.value)
      BY <1>2, <1>3, <1>4, <1>5 DEF Rewrites
    <2>2. QED
      BY <2>1, Rewriting
  <1>7. s.op \in RowOps /\ s.id = k /\ (Live(E, k) => Live(D, k))
    BY <1>1, <1>4 DEF RowOps, Live
  <1>8. Effect(D, E, s)
    BY <1>1, <1>2, <1>4, <1>6, <1>7, RewrittenEffect
  <1>9. QED
    BY <1>6, <1>8

LEMMA BalanceEffect ==
    ASSUME NEW D, NEW E, NEW s, NEW made, NEW A, CanDo(D, s, made, A),
           Executes(D, E, s, made), s.op \in {"balance", "replay"}
    PROVE  TablesFit(E) /\ Effect(D, E, s) /\ Len(E.txs) = Len(D.txs)
  <1>1. /\ E.txs = D.txs /\ E.newBalance = D.newBalance
        /\ E.acct = D.acct /\ E.initial = D.initial
        /\ E.balance = IF s.op = "balance" THEN [D.balance EXCEPT ![s.account] = s.value]
                       ELSE D.balance
    BY DEF Executes
  <1>2. TablesFit(D) /\ s.account \in Accounts /\ (s.op = "balance" => s.value \in Int)
    BY DEF CanDo, Fits
  <1>3. D.balance \in [Accounts -> Int]
    BY <1>2 DEF TablesFit
  <1>4. E.balance \in [Accounts -> Int]
    BY <1>1, <1>2, <1>3
  <1>5. \A a \in Accounts :
          E.balance[a] = IF s.op = "balance" /\ s.account = a THEN s.value ELSE D.balance[a]
    BY <1>1, <1>2, <1>3
  <1>6. TablesFit(E)
    BY <1>1, <1>2, <1>4 DEF TablesFit
  <1>7. Len(D.txs) \in Nat
    BY <1>2, TablesFacts
  <1>8. \A i \in 1..Len(D.txs) : KeptRow(D, E, i) /\ (Live(E, i) => Live(D, i))
    BY <1>1 DEF KeptRow, Live, SameEffect
  <1>9. Len(D.txs) <= Len(E.txs) /\ (Len(D.txs) + 1)..Len(E.txs) = {} /\ Len(E.txs) = Len(D.txs)
    BY <1>1, <1>7
  <1>10. QED
    BY <1>1, <1>5, <1>6, <1>8, <1>9 DEF Effect

\* Every statement keeps the tables in shape and does what it says.
LEMMA StatementEffect ==
    ASSUME NEW D, NEW E, NEW s, NEW made, NEW A, CanDo(D, s, made, A), Executes(D, E, s, made)
    PROVE  /\ TablesFit(E) /\ Effect(D, E, s)
           /\ Len(E.txs) = IF s.op = "insert" THEN Len(D.txs) + 1 ELSE Len(D.txs)
  <1>1. s.op \in {"insert", "update", "delete", "link", "rowBalance", "balance", "replay"}
    BY DEF CanDo, Fits, Ops, EditOps
  <1>2. QED
    BY <1>1, InsertEffect, UpdateEffect, DeleteEffect, LinkEffect, RowBalanceEffect, BalanceEffect

-----------------------------------------------------------------------------
(* A step that is about other accounts than A.                              *)

LeavesAlone(D, E, A) ==
    /\ Len(D.txs) <= Len(E.txs)
    /\ \A i \in 1..Len(D.txs) :
          /\ Live(E, i) => Live(D, i)
          /\ Live(D, i) => \/ KeptRow(D, E, i)
                           \/ D.txs[i].account \notin A /\ (Live(E, i) => E.txs[i].account \notin A)
    /\ \A i \in (Len(D.txs) + 1)..Len(E.txs) : E.txs[i].account \notin A
    /\ \A a \in A : /\ E.balance[a] = D.balance[a] /\ E.initial[a] = D.initial[a]
                    /\ E.acct[a].opened /\ ~E.acct[a].deleted =>
                           D.acct[a].opened /\ ~D.acct[a].deleted

\* It keeps what a replay of any account of A computes.
LEMMA AloneRecalculated ==
    ASSUME NEW D, TablesFit(D), NEW E, TablesFit(E), NEW A, LeavesAlone(D, E, A), NEW a \in A
    PROVE  Recalculated(E, a) = Recalculated(D, a)
  <1>1. PICK n, m, T, U : n = Len(D.txs) /\ m = Len(E.txs) /\ T = D.txs /\ U = E.txs
    OBVIOUS
  <1>2. n \in Nat /\ m \in Nat /\ DOMAIN T = 1..n /\ DOMAIN U = 1..m /\ Table(T) /\ Table(U)
    BY <1>1, TablesFacts
  <1>3. n <= m
    BY <1>1 DEF LeavesAlone
  <1>4. \A i \in 1..n : /\ ~U[i].deleted => ~T[i].deleted
                        /\ ~T[i].deleted => \/ KeptRow(D, E, i)
                                            \/ T[i].account # a /\ (~U[i].deleted => U[i].account # a)
    BY <1>1 DEF LeavesAlone, Live
  <1>5. \A i \in (n + 1)..m : U[i].account # a
    BY <1>1 DEF LeavesAlone
  <1>6. \A i \in 1..n : KeptRow(D, E, i) =>
          /\ (~U[i].deleted <=> ~T[i].deleted) /\ U[i].account = T[i].account
          /\ T[i].date = U[i].date /\ SameEffect(T[i], D.newBalance[i], U[i], E.newBalance[i])
    BY <1>1 DEF KeptRow, Live
  <1>7. LiveIn(T, a) = LiveIn(U, a)
    <2>1. ASSUME NEW i \in 1..n PROVE i \in LiveIn(T, a) <=> i \in LiveIn(U, a)
      <3>1. i \in 1..m
        BY <1>2, <1>3
      <3>2. i \in LiveIn(T, a) <=> T[i].account = a /\ ~T[i].deleted
        BY <1>2 DEF LiveIn
      <3>3. i \in LiveIn(U, a) <=> U[i].account = a /\ ~U[i].deleted
        BY <1>2, <3>1 DEF LiveIn
      <3>4. QED
        BY <1>4, <1>6, <3>2, <3>3
    <2>2. ASSUME NEW i \in 1..m, i \notin 1..n PROVE i \notin LiveIn(U, a)
      <3>1. i \in (n + 1)..m
        BY <1>2, <2>2
      <3>2. QED
        BY <1>5, <3>1 DEF LiveIn
    <2>3. LiveIn(T, a) \subseteq 1..n /\ LiveIn(U, a) \subseteq 1..m
      BY <1>2 DEF LiveIn
    <2>4. QED
      BY <2>1, <2>2, <2>3
  <1>8. ASSUME NEW i \in LiveIn(T, a)
        PROVE  T[i].date = U[i].date /\ SameEffect(T[i], D.newBalance[i], U[i], E.newBalance[i])
    <2>1. i \in 1..n /\ T[i].account = a /\ ~T[i].deleted
      BY <1>2 DEF LiveIn
    <2>2. QED
      BY <1>4, <1>6, <2>1
  <1>9. SameRows(T, D.newBalance, U, E.newBalance, a)
    BY <1>7, <1>8 DEF SameRows
  <1>10. \A s : Final(s, T, D.newBalance, a) = Final(s, U, E.newBalance, a)
    BY <1>2, <1>9, SameReplay
  <1>11. E.initial[a] = D.initial[a]
    BY DEF LeavesAlone
  <1>12. QED
    BY <1>1, <1>10, <1>11 DEF Recalculated

\* A row that is being written by a replay of an account of A is not touched.
LEMMA AloneWrites ==
    ASSUME NEW D, NEW E, NEW A, LeavesAlone(D, E, A), NEW a \in A,
           NEW s, RowWrite(D, s, a), s.id \in 1..Len(D.txs)
    PROVE  RowWrite(E, s, a)
  <1>1. s.op = "rowBalance"
    BY DEF RowWrite
  <1>2. ASSUME Live(E, s.id)
        PROVE  /\ E.txs[s.id].account = a
               /\ E.txs[s.id].isAdjustment => s.value = E.newBalance[s.id]
    <2>1. Live(D, s.id)
      BY <1>2 DEF LeavesAlone
    <2>2. /\ D.txs[s.id].account = a
          /\ D.txs[s.id].isAdjustment => s.value = D.newBalance[s.id]
      BY <2>1 DEF RowWrite
    <2>3. KeptRow(D, E, s.id)
      BY <2>1, <2>2 DEF LeavesAlone
    <2>4. QED
      BY <2>2, <2>3 DEF KeptRow, SameEffect
  <1>3. QED
    BY <1>1, <1>2 DEF RowWrite

LEMMA AloneWriting ==
    ASSUME NEW D, TablesFit(D), NEW E, TablesFit(E), NEW A, LeavesAlone(D, E, A), NEW a \in A,
           NEW q, \A i \in 1..Len(q) : q[i].op \in RowOps => q[i].id \in 1..Len(D.txs),
           Len(q) \in Nat, Writing(D, q, a)
    PROVE  Writing(E, q, a)
  <1>1. PICK k \in 1..Len(q) : WritingTo(D, q, a, k)
    BY DEF Writing
  <1>2. q[k].op = "balance" /\ q[k].account = a /\ q[k].value = Recalculated(E, a)
    BY <1>1, AloneRecalculated DEF WritingTo
  <1>3. ASSUME NEW i \in 1..(k - 1) PROVE RowWrite(E, q[i], a)
    <2>1. i \in 1..Len(q) /\ RowWrite(D, q[i], a)
      BY <1>1 DEF WritingTo
    <2>2. q[i].id \in 1..Len(D.txs)
      BY <2>1 DEF RowWrite, RowOps
    <2>3. QED
      BY <2>1, <2>2, AloneWrites
  <1>4. QED
    BY <1>2, <1>3 DEF Writing, WritingTo

LEMMA AloneSettled ==
    ASSUME NEW D, TablesFit(D), NEW E, TablesFit(E), NEW A, LeavesAlone(D, E, A), NEW a \in A,
           SettledIn(D, a)
    PROVE  SettledIn(E, a)
  <1>1. Recalculated(E, a) = Recalculated(D, a)
    BY AloneRecalculated
  <1>2. QED
    BY <1>1 DEF LeavesAlone, SettledIn

\* Whatever an undisturbed edit on accounts of A relies on stays.
LEMMA AloneRepairs ==
    ASSUME NEW D, TablesFit(D), NEW E, TablesFit(E), NEW j, JobFits(D, j),
           LeavesAlone(D, E, j.accounts), Repairs(D, j)
    PROVE  Repairs(E, j)
  <1>1. PICK q, A, R : q = j.todo /\ A = j.accounts /\ R = j.replays
    OBVIOUS
  <1>2. /\ R \subseteq A /\ IsSequence(q) /\ LeavesAlone(D, E, A)
        /\ \A i \in 1..Len(q) : q[i].op \in RowOps => q[i].id \in 1..Len(D.txs)
    BY <1>1 DEF JobFits, IsJob, TodoFits, Fits
  <1>3. Len(q) \in Nat
    BY <1>2, SequenceIs
  <1>4. \A a \in R : Writing(D, q, a) => Writing(E, q, a)
    BY <1>2, <1>3, AloneWriting
  <1>5. \A a \in R : SettledIn(D, a) => SettledIn(E, a)
    BY <1>2, AloneSettled
  <1>6. \A a \in R : Repaired(D, q, a) => Repaired(E, q, a)
    BY <1>4, <1>5 DEF Repaired
  <1>7. Begun(D, q, R) => Begun(E, q, R)
    BY <1>4 DEF Begun
  <1>8. AtHome(E, j)
    <2>1. SUFFICES ASSUME NEW i \in 1..Len(q), q[i].op \in RowOps, Live(E, q[i].id)
                   PROVE  E.txs[q[i].id].account \in A
      BY <1>1 DEF AtHome
    <2>2. q[i].id \in 1..Len(D.txs)
      BY <1>2, <2>1
    <2>3. Live(D, q[i].id)
      BY <1>2, <2>1, <2>2 DEF LeavesAlone
    <2>4. D.txs[q[i].id].account \in A
      BY <1>1, <2>1, <2>3 DEF Repairs, AtHome
    <2>5. KeptRow(D, E, q[i].id)
      BY <1>2, <2>2, <2>3, <2>4 DEF LeavesAlone
    <2>6. QED
      BY <2>4, <2>5 DEF KeptRow
  <1>9. QED
    BY <1>1, <1>6, <1>7, <1>8 DEF Repairs

\* And nobody comes to write its rows.
LEMMA AloneApart ==
    ASSUME NEW D, NEW E, NEW A, LeavesAlone(D, E, A), NEW j, JobFits(D, j), Apart(D, j, A)
    PROVE  Apart(E, j, A)
  <1>1. SUFFICES ASSUME j.todo # << >>, NEW i \in 1..Len(j.todo),
                        j.todo[i].op \in RowOps, Live(E, j.todo[i].id)
                 PROVE  E.txs[j.todo[i].id].account \notin A
    BY DEF Apart
  <1>2. PICK n : n = j.todo[i].id
    OBVIOUS
  <1>3. n \in 1..Len(D.txs)
    BY <1>1, <1>2 DEF JobFits, TodoFits, Fits
  <1>4. Live(D, n)
    BY <1>1, <1>2, <1>3 DEF LeavesAlone
  <1>5. D.txs[n].account \notin A
    BY <1>1, <1>2, <1>4 DEF Apart
  <1>6. KeptRow(D, E, n) \/ (Live(E, n) => E.txs[n].account \notin A)
    BY <1>3, <1>4 DEF LeavesAlone
  <1>7. QED
    BY <1>1, <1>2, <1>5, <1>6 DEF KeptRow

\* The statement of a request that works elsewhere leaves the accounts alone.
LEMMA ElsewhereAlone ==
    ASSUME NEW D, NEW E, NEW s, Effect(D, E, s), NEW A, A \subseteq Accounts,
           NEW B, Fits(D, s, B), B \cap A = {},
           s.op \in RowOps /\ Live(D, s.id) => D.txs[s.id].account \notin A
    PROVE  LeavesAlone(D, E, A)
  <1>1. /\ E.acct = D.acct /\ E.initial = D.initial /\ Len(D.txs) <= Len(E.txs)
        /\ \A i \in 1..Len(D.txs) :
              /\ Live(E, i) => Live(D, i)
              /\ KeptRow(D, E, i) \/ (s.op \in RowOps /\ s.id = i)
    BY DEF Effect
  <1>2. s.op \in {"insert", "update"} => s.row.account \notin A
    BY DEF Fits
  <1>3. s.op \in RowOps => s.op = "update" \/ s.op = "delete" \/ s.op = "rowBalance"
    BY DEF RowOps
  <1>4. ASSUME s.op \in RowOps, Live(D, s.id), Live(E, s.id) PROVE E.txs[s.id].account \notin A
    <2>1. s.op = "update" => E.txs[s.id].account = s.row.account
      BY DEF Effect
    <2>2. s.op # "delete"
      BY <1>4 DEF Effect
    <2>3. s.op = "rowBalance" => E.txs[s.id] = D.txs[s.id]
      BY DEF Effect
    <2>4. QED
      BY <1>2, <1>3, <1>4, <2>1, <2>2, <2>3
  <1>5. ASSUME NEW i \in 1..Len(D.txs), Live(D, i)
        PROVE  \/ KeptRow(D, E, i)
               \/ D.txs[i].account \notin A /\ (Live(E, i) => E.txs[i].account \notin A)
    BY <1>1, <1>4, <1>5
  <1>6. \A i \in (Len(D.txs) + 1)..Len(E.txs) : E.txs[i].account \notin A
    BY <1>2 DEF Effect
  <1>7. \A a \in A : E.balance[a] = D.balance[a]
    <2>1. s.op = "balance" => s.account \notin A
      BY DEF Fits
    <2>2. QED
      BY <2>1 DEF Effect
  <1>8. QED
    BY <1>1, <1>5, <1>6, <1>7 DEF LeavesAlone

-----------------------------------------------------------------------------
(* What the worker itself does to its request.                              *)

\* Request j with statements q to do and rows `made'.
NextJob(j, q, made) == [j EXCEPT !.todo = q, !.made = made]

IsNext(k, j, q, made) ==
    /\ k.kind = j.kind /\ k.accounts = j.accounts /\ k.replays = j.replays
    /\ k.todo = q /\ k.made = made /\ k.calm = j.calm
    /\ k = [kind |-> k.kind, accounts |-> k.accounts, replays |-> k.replays,
            todo |-> k.todo, made |-> k.made, calm |-> k.calm]

LEMMA NextJobIs ==
    ASSUME NEW D, NEW j, IsJob(D, j), NEW q, NEW made
    PROVE  IsNext(NextJob(j, q, made), j, q, made)
  <1>1. PICK r : r = [kind |-> j.kind, accounts |-> j.accounts, replays |-> j.replays,
                      todo |-> j.todo, made |-> j.made, calm |-> j.calm]
    OBVIOUS
  <1>2. j = r
    BY <1>1 DEF IsJob
  <1>3. [r EXCEPT !.todo = q, !.made = made] =
            [kind |-> j.kind, accounts |-> j.accounts, replays |-> j.replays,
             todo |-> q, made |-> made, calm |-> j.calm]
    <2>1. PICK f : f = [r EXCEPT !.todo = q]
      OBVIOUS
    <2>2. f = [kind |-> j.kind, accounts |-> j.accounts, replays |-> j.replays,
               todo |-> q, made |-> j.made, calm |-> j.calm]
      BY <1>1, <2>1
    <2>3. [f EXCEPT !.made = made] =
              [kind |-> j.kind, accounts |-> j.accounts, replays |-> j.replays,
               todo |-> q, made |-> made, calm |-> j.calm]
      BY <2>2
    <2>4. QED
      BY <2>1, <2>3
  <1>4. NextJob(j, q, made) = [kind |-> j.kind, accounts |-> j.accounts, replays |-> j.replays,
                               todo |-> q, made |-> made, calm |-> j.calm]
    BY <1>2, <1>3 DEF NextJob
  <1>5. QED
    BY <1>4 DEF IsNext

\* What fits some tables fits tables with more rows.
Grown(D, E) == E.acct = D.acct /\ Len(D.txs) \in Nat /\ Len(E.txs) \in Nat /\ Len(D.txs) <= Len(E.txs)

LEMMA GrownFits ==
    ASSUME NEW D, NEW E, Grown(D, E), NEW s, NEW A, Fits(D, s, A)
    PROVE  Fits(E, s, A)
  <1>1. 1..Len(D.txs) \subseteq 1..Len(E.txs) /\ 0..Len(D.txs) \subseteq 0..Len(E.txs)
    BY DEF Grown
  <1>2. RowRead(D, s.row) => RowRead(E, s.row)
    BY <1>1 DEF RowRead
  <1>3. s.op \in RowOps => s.id \in 1..Len(E.txs)
    BY <1>1 DEF Fits
  <1>4. QED
    BY <1>2, <1>3 DEF Fits

LEMMA GrownJob ==
    ASSUME NEW D, NEW E, Grown(D, E), NEW j, JobFits(D, j)
    PROVE  JobFits(E, j)
  <1>1. 1..Len(D.txs) \subseteq 1..Len(E.txs) /\ E.acct = D.acct
    BY DEF Grown
  <1>2. j.made \in Seq(1..Len(E.txs))
    BY <1>1, SeqMonotonic DEF JobFits, IsJob
  <1>3. IsJob(E, j)
    BY <1>2 DEF JobFits, IsJob
  <1>4. TodoFits(E, j)
    BY GrownFits DEF JobFits, TodoFits
  <1>5. QED
    BY <1>1, <1>3, <1>4 DEF JobFits

\* The rows a request has made, after statement s.
MadeAfter(D, s, made) == IF s.op = "insert" THEN Append(made, Len(D.txs) + 1) ELSE made

LEMMA MadeRows ==
    ASSUME NEW D, NEW E, Grown(D, E), NEW s, NEW made \in Seq(1..Len(D.txs)),
           s.op = "insert" => Len(E.txs) = Len(D.txs) + 1
    PROVE  /\ MadeAfter(D, s, made) \in Seq(1..Len(E.txs))
           /\ Len(made) \in Nat
           /\ Len(MadeAfter(D, s, made)) = IF s.op = "insert" THEN Len(made) + 1 ELSE Len(made)
           /\ made # << >> <=> Len(made) >= 1
           /\ MadeAfter(D, s, made) # << >> <=> Len(MadeAfter(D, s, made)) >= 1
  <1>1. 1..Len(D.txs) \subseteq 1..Len(E.txs) /\ (s.op = "insert" => Len(D.txs) + 1 \in 1..Len(E.txs))
    BY DEF Grown
  <1>2. made \in Seq(1..Len(E.txs))
    BY <1>1, SeqMonotonic
  <1>3. Len(made) \in Nat /\ (made = << >> <=> Len(made) = 0)
    BY SequenceOf
  <1>4. PICK m : m = MadeAfter(D, s, made)
    OBVIOUS
  <1>5. /\ m \in Seq(1..Len(E.txs))
        /\ Len(m) = IF s.op = "insert" THEN Len(made) + 1 ELSE Len(made)
    <2>1. CASE s.op = "insert"
      BY <1>1, <1>2, <1>4, <2>1, AppendProperties DEF MadeAfter
    <2>2. CASE s.op # "insert"
      BY <1>2, <1>4, <2>2 DEF MadeAfter
    <2>3. QED
      BY <2>1, <2>2
  <1>6. Len(m) \in Nat /\ (m = << >> <=> Len(m) = 0)
    BY <1>5, SequenceOf
  <1>7. QED
    BY <1>3, <1>4, <1>5, <1>6

\* The statements that follow may still rely on the rows it has made.
LEMMA TailMade ==
    ASSUME NEW D, NEW E, Grown(D, E), NEW q, IsSequence(q), q # << >>,
           NEW made \in Seq(1..Len(D.txs)), MadeBefore(q, made),
           q[1].op = "insert" => Len(E.txs) = Len(D.txs) + 1
    PROVE  MadeBefore(Tail(q), MadeAfter(D, q[1], made))
  <1>1. PICK p, m, s : p = Tail(q) /\ m = MadeAfter(D, q[1], made) /\ s = q[1]
    OBVIOUS
  <1>2. /\ Len(q) \in Nat /\ Len(q) >= 1 /\ Len(p) = Len(q) - 1
        /\ \A i \in 1..Len(p) : p[i] = q[i + 1]
    BY <1>1, TailOf
  <1>3. /\ Len(made) \in Nat /\ Len(m) = IF s.op = "insert" THEN Len(made) + 1 ELSE Len(made)
        /\ made # << >> <=> Len(made) >= 1
        /\ m # << >> <=> Len(m) >= 1
    BY <1>1, MadeRows
  <1>4. SUFFICES ASSUME NEW i \in 1..Len(p)
                 PROVE  /\ NeedsMine(p[i]) => m # << >> \/ (i > 1 /\ p[1].op = "insert")
                        /\ p[i].op = "link" =>
                              \/ Len(m) >= 2
                              \/ i > 1 /\ p[i - 1].op = "insert" /\ NeedsMine(p[i - 1])
    BY <1>1 DEF MadeBefore
  <1>5. i + 1 \in 1..Len(q) /\ p[i] = q[i + 1] /\ (i + 1) - 1 = i /\ 1 \in 1..Len(q)
    BY <1>2
  <1>6. NeedsMine(p[i]) => m # << >>
    <2>1. NeedsMine(q[i + 1]) => made # << >> \/ q[1].op = "insert"
      BY <1>5 DEF MadeBefore
    <2>2. QED
      BY <1>1, <1>3, <1>5, <2>1
  <1>7. ASSUME p[i].op = "link"
        PROVE  Len(m) >= 2 \/ (i > 1 /\ p[i - 1].op = "insert" /\ NeedsMine(p[i - 1]))
    <2>1. Len(made) >= 2 \/ (q[i].op = "insert" /\ NeedsMine(q[i]))
      BY <1>5, <1>7 DEF MadeBefore
    <2>2. CASE Len(made) >= 2
      BY <1>3, <2>2
    <2>3. CASE q[i].op = "insert" /\ NeedsMine(q[i]) /\ i = 1
      <3>1. made # << >>
        BY <1>5, <2>3 DEF MadeBefore
      <3>2. QED
        BY <1>1, <1>3, <2>3, <3>1
    <2>4. CASE q[i].op = "insert" /\ NeedsMine(q[i]) /\ i # 1
      <3>1. i > 1 /\ i - 1 \in 1..Len(p) /\ (i - 1) + 1 = i
        BY <1>2, <2>4
      <3>2. p[i - 1] = q[i]
        BY <1>2, <3>1
      <3>3. QED
        BY <2>4, <3>1, <3>2
    <2>5. QED
      BY <2>1, <2>2, <2>3, <2>4
  <1>8. QED
    BY <1>6, <1>7

\* After a statement the request fits the tables it has left, if nothing is replayed.
LEMMA TailFits ==
    ASSUME NEW D, NEW E, Grown(D, E), NEW j, JobFits(D, j), j.todo # << >>,
           j.todo[1].op = "insert" => Len(E.txs) = Len(D.txs) + 1
    PROVE  JobFits(E, NextJob(j, Tail(j.todo), MadeAfter(D, j.todo[1], j.made)))
  <1>1. PICK q, p, m, k : /\ q = j.todo /\ p = Tail(q) /\ m = MadeAfter(D, q[1], j.made)
                          /\ k = NextJob(j, p, m)
    OBVIOUS
  <1>2. /\ IsJob(D, j) /\ IsSequence(q) /\ j.made \in Seq(1..Len(D.txs)) /\ MadeBefore(q, j.made)
        /\ ReplaysLast(q) /\ \A i \in 1..Len(q) : Fits(D, q[i], j.accounts)
    BY <1>1 DEF JobFits, IsJob, TodoFits
  <1>3. IsNext(k, j, p, m)
    BY <1>1, <1>2, NextJobIs
  <1>4. Within(p, q, 1)
    BY <1>1, <1>2, TailWithin
  <1>5. ReplaysLast(p) /\ \A i \in 1..Len(p) : Fits(D, p[i], j.accounts)
    BY <1>2, <1>4, WithinFits
  <1>6. \A i \in 1..Len(p) : Fits(E, p[i], j.accounts)
    BY <1>5, GrownFits
  <1>7. MadeBefore(p, m)
    BY <1>1, <1>2, TailMade
  <1>8. m \in Seq(1..Len(E.txs))
    BY <1>1, <1>2, MadeRows
  <1>9. IsSequence(p)
    BY <1>4 DEF Within
  <1>10. IsJob(E, k)
    BY <1>2, <1>3, <1>8, <1>9 DEF IsJob, IsNext
  <1>11. TodoFits(E, k)
    BY <1>3, <1>5, <1>6, <1>7 DEF TodoFits, IsNext
  <1>12. \A a \in k.accounts : E.acct[a].opened
    BY <1>3 DEF JobFits, Grown, IsNext
  <1>13. QED
    BY <1>1, <1>10, <1>11, <1>12 DEF JobFits

-----------------------------------------------------------------------------
(* What a replay has to write.                                              *)

\* r are the statements of a replay of account a.
IsReplayOf(D, r, a) ==
    /\ IsSequence(r) /\ Len(r) \in Nat /\ Len(r) >= 1
    /\ \A k \in 1..(Len(r) - 1) :
          /\ r[k].op = "rowBalance" /\ r[k].id \in 1..Len(D.txs) /\ r[k].value \in Int
          /\ D.txs[r[k].id].account = a
          /\ D.txs[r[k].id].isAdjustment => r[k].value = D.newBalance[r[k].id]
    /\ r[Len(r)].op = "balance" /\ r[Len(r)].account = a /\ r[Len(r)].value \in Int
    /\ r[Len(r)].value = Recalculated(D, a)

\* They are what the code computes.
LEMMA ReplayIs ==
    ASSUME NEW D, TablesFit(D), NEW a \in Accounts,
           NEW rows, rows = Chronological(D.txs, a),
           NEW after, after = ReplayFrom(D.initial[a], D.txs, D.newBalance, rows)
    PROVE  IsReplayOf(D, [k \in DOMAIN rows |-> RowBalance(rows[k], after[k])]
                         \o << SetBalance(a, after[Len(rows)]) >>, a)
  <1>1. PICK T, N, n, s : /\ T = D.txs /\ N = D.newBalance /\ n = Cardinality(LiveIn(D.txs, a))
                          /\ s = D.initial[a]
    OBVIOUS
  <1>2. /\ Table(T) /\ s \in Int /\ DOMAIN T = 1..Len(T)
        /\ \A i \in DOMAIN T : N[i] \in Int /\ T[i].isAdjustment \in BOOLEAN
    BY <1>1, TablesFacts DEF TablesFit
  <1>3. /\ n \in Nat /\ Len(rows) = n /\ DOMAIN rows = 1..n
        /\ \A k \in 1..n : rows[k] \in LiveIn(T, a)
    BY <1>1, <1>2, Visits
  <1>4. Replays(after, s, T, N, rows)
    BY <1>1, <1>3, ReplayExists
  <1>5. \A k \in 0..n : after[k] \in Int
    <2>1. \A k \in 0..Cardinality(LiveIn(T, a)) : after[k] \in Int
      BY <1>1, <1>2, <1>4, ReplayIsInt
    <2>2. QED
      BY <1>1, <2>1
  <1>6. PICK p : p = [k \in DOMAIN rows |-> RowBalance(rows[k], after[k])]
    OBVIOUS
  <1>7. IsSequence(p) /\ Len(p) = n /\ \A k \in 1..n : p[k] = RowBalance(rows[k], after[k])
    <2>1. p \in [1..n -> {p[k] : k \in 1..n}] /\ \A k \in 1..n : p[k] = RowBalance(rows[k], after[k])
      BY <1>3, <1>6
    <2>2. p \in Seq({p[k] : k \in 1..n})
      BY <1>3, <2>1, SeqDef
    <2>3. Len(p) = n
      BY <1>3, <2>1, <2>2, LenProperties
    <2>4. QED
      BY <2>1, <2>2, <2>3, SequenceOf
  <1>8. PICK b : b = SetBalance(a, after[n])
    OBVIOUS
  <1>9. IsSequence(<< b >>) /\ Len(<< b >>) = 1 /\ << b >>[1] = b
    <2>1. << b >> \in Seq({b})
      OBVIOUS
    <2>2. QED
      BY <2>1, SequenceOf
  <1>10. PICK r : r = p \o << b >>
    OBVIOUS
  <1>11. /\ IsSequence(r) /\ Len(r) = n + 1
         /\ \A k \in 1..n : r[k] = p[k]
         /\ r[n + 1] = b
    <2>1. PICK o : o = << b >>
      OBVIOUS
    <2>2. IsSequence(o) /\ Len(o) = 1 /\ o[1] = b /\ r = p \o o
      BY <1>9, <1>10, <2>1
    <2>3. /\ IsSequence(r) /\ Len(r) = Len(p) + Len(o)
          /\ \A k \in 1..Len(p) : r[k] = p[k]
          /\ \A k \in 1..Len(o) : r[Len(p) + k] = o[k]
      <3>1. Joined(p, o, r)
        BY <1>7, <2>2, JoinOf
      <3>2. QED
        BY <3>1 DEF Joined
    <2>4. r[Len(p) + 1] = b
      BY <2>2, <2>3
    <2>5. QED
      BY <1>7, <2>2, <2>3, <2>4
  <1>12. ASSUME NEW k \in 1..n
         PROVE  /\ r[k].op = "rowBalance" /\ r[k].id \in 1..Len(T) /\ r[k].value \in Int
                /\ T[r[k].id].account = a
                /\ T[r[k].id].isAdjustment => r[k].value = N[r[k].id]
    <2>1. r[k].op = "rowBalance" /\ r[k].id = rows[k] /\ r[k].value = after[k]
      BY <1>7, <1>11 DEF RowBalance
    <2>2. rows[k] \in DOMAIN T /\ T[rows[k]].account = a
      BY <1>3 DEF LiveIn
    <2>3. k \in 0..n /\ k # 0
      BY <1>3
    <2>4. after[k] \in Int
      BY <1>5, <2>3
    <2>5. after[k] = Apply(after[k - 1], T[rows[k]], N[rows[k]])
      BY <1>3, <1>4, <2>3 DEF Replays
    <2>6. T[rows[k]].isAdjustment => after[k] = N[rows[k]]
      BY <2>5 DEF Apply
    <2>7. QED
      BY <1>2, <2>1, <2>2, <2>4, <2>6
  <1>13. b.op = "balance" /\ b.account = a /\ b.value = after[n] /\ after[n] \in Int
    BY <1>3, <1>5, <1>8 DEF SetBalance
  <1>14. after[n] = Recalculated(D, a)
    BY <1>1 DEF Recalculated, Final
  <1>15. IsReplayOf(D, r, a)
    BY <1>1, <1>3, <1>11, <1>12, <1>13, <1>14 DEF IsReplayOf
  <1>16. QED
    BY <1>3, <1>6, <1>8, <1>10, <1>15

LEMMA ReplayStatements ==
    ASSUME TablesFit(Tables), NEW a \in Accounts
    PROVE  IsReplayOf(Tables, recalculateBalances(a), a)
  <1>1. PICK D, rows, after : /\ D = Tables /\ rows = Chronological(txs, a)
                              /\ after = Running(txs, newBalance, a)
    OBVIOUS
  <1>2. after = ReplayFrom(initial[a], txs, newBalance, rows)
    BY <1>1, RunningIs
  <1>3. D.txs = txs /\ D.newBalance = newBalance /\ D.initial = initial
    BY <1>1 DEF Tables
  <1>4. IsReplayOf(D, [k \in DOMAIN rows |-> RowBalance(rows[k], after[k])]
                      \o << SetBalance(a, after[Len(rows)]) >>, a)
    BY <1>1, <1>2, <1>3, ReplayIs
  <1>5. QED
    BY <1>1, <1>4 DEF recalculateBalances

\* A replay that begins: the request fits, and an undisturbed edit repairs.
LEMMA BeginFits ==
    ASSUME NEW D, NEW j, JobFits(D, j), j.todo # << >>, j.todo[1].op = "replay",
           NEW r, IsReplayOf(D, r, j.todo[1].account)
    PROVE  JobFits(D, NextJob(j, r \o Tail(j.todo), j.made))
  <1>1. PICK q, p, u, m, k, A, n : /\ q = j.todo /\ p = Tail(q) /\ u = r \o p /\ A = j.accounts
                                   /\ m = j.made /\ k = NextJob(j, u, m) /\ n = Len(r)
    OBVIOUS
  <1>2. /\ IsJob(D, j) /\ IsSequence(q) /\ ReplaysLast(q)
        /\ \A i \in 1..Len(q) : Fits(D, q[i], A)
    BY <1>1 DEF JobFits, IsJob, TodoFits
  <1>3. /\ IsSequence(p) /\ Len(q) \in Nat /\ Len(q) >= 1 /\ Len(p) = Len(q) - 1
        /\ \A i \in 1..Len(p) : p[i] = q[i + 1]
    BY <1>1, <1>2, TailOf
  <1>4. /\ IsSequence(u) /\ n \in Nat /\ n >= 1 /\ Len(u) = n + Len(p)
        /\ \A i \in 1..Len(u) : IF i <= n THEN u[i] = r[i]
                                ELSE i - n \in 1..Len(p) /\ u[i] = p[i - n]
    <2>1. IsSequence(r) /\ n \in Nat /\ n >= 1
      BY <1>1 DEF IsReplayOf
    <2>2. QED
      <3>1. Joined(r, p, u)
        BY <1>1, <1>3, <2>1, JoinOf
      <3>2. QED
        BY <1>1, <2>1, <3>1 DEF Joined
  <1>5. ASSUME NEW i \in 1..Len(p)
        PROVE  p[i].op = "replay" /\ Fits(D, p[i], A)
    <2>1. i + 1 \in 1..Len(q) /\ 1 \in 1..Len(q) /\ 1 < i + 1 /\ p[i] = q[i + 1]
      BY <1>3
    <2>2. QED
      BY <1>1, <1>2, <2>1 DEF ReplaysLast
  <1>6. q[1].account \in A
    BY <1>1, <1>2, <1>3 DEF Fits
  <1>7. ASSUME NEW i \in 1..n
        PROVE  r[i].op \in {"rowBalance", "balance"} /\ Fits(D, r[i], A)
    <2>1. CASE i = n
      <3>1. r[i].op = "balance" /\ r[i].account \in A /\ r[i].value \in Int
        BY <1>1, <1>6, <2>1 DEF IsReplayOf
      <3>2. QED
        BY <3>1 DEF Fits, Ops, EditOps, RowOps
    <2>2. CASE i # n
      <3>1. i \in 1..(Len(r) - 1)
        BY <1>1, <1>4, <2>2
      <3>2. r[i].op = "rowBalance" /\ r[i].id \in 1..Len(D.txs) /\ r[i].value \in Int
        BY <3>1 DEF IsReplayOf
      <3>3. QED
        BY <3>2 DEF Fits, Ops, EditOps, RowOps
    <2>3. QED
      BY <2>1, <2>2
  <1>8. ASSUME NEW i \in 1..Len(u)
        PROVE  /\ Fits(D, u[i], A)
               /\ IF i <= n THEN u[i].op \in {"rowBalance", "balance"} ELSE u[i].op = "replay"
    <2>1. CASE i <= n
      <3>1. i \in 1..n /\ u[i] = r[i]
        BY <1>4, <2>1
      <3>2. QED
        BY <1>7, <2>1, <3>1
    <2>2. CASE ~(i <= n)
      <3>1. i - n \in 1..Len(p) /\ u[i] = p[i - n]
        BY <1>4, <2>2
      <3>2. QED
        BY <1>5, <2>2, <3>1
    <2>3. QED
      BY <2>1, <2>2
  <1>9. MadeBefore(u, j.made)
    <2>1. \A i \in 1..Len(u) : ~NeedsMine(u[i]) /\ u[i].op # "link"
      BY <1>8 DEF NeedsMine
    <2>2. QED
      BY <2>1 DEF MadeBefore
  <1>10. ReplaysLast(u)
    <2>1. SUFFICES ASSUME NEW i \in 1..Len(u), NEW l \in 1..Len(u), i < l, u[i].op = "replay"
                   PROVE  u[l].op = "replay"
      BY DEF ReplaysLast
    <2>2. ~(i <= n)
      BY <1>8, <2>1
    <2>3. ~(l <= n)
      BY <1>4, <2>1, <2>2
    <2>4. QED
      BY <1>8, <2>3
  <1>11. IsNext(k, j, u, m)
    BY <1>1, <1>2, NextJobIs
  <1>12. IsJob(D, k)
    BY <1>1, <1>2, <1>4, <1>11 DEF IsJob, IsNext
  <1>13. TodoFits(D, k)
    BY <1>1, <1>8, <1>9, <1>10, <1>11 DEF TodoFits, IsNext
  <1>14. QED
    BY <1>1, <1>11, <1>12, <1>13 DEF JobFits, IsNext

-----------------------------------------------------------------------------
(* An undisturbed edit repairs, statement by statement.                     *)

\* The statements of a replay that are left when the first one is done.
LEMMA DropWriting ==
    ASSUME NEW D, NEW q, IsSequence(q), q # << >>, NEW a, Writing(D, q, a), q[1].op # "balance"
    PROVE  Writing(D, Tail(q), a)
  <1>1. PICK p : p = Tail(q)
    OBVIOUS
  <1>2. /\ Len(q) \in Nat /\ Len(p) = Len(q) - 1 /\ \A i \in 1..Len(p) : p[i] = q[i + 1]
    BY <1>1, TailOf
  <1>3. PICK k \in 1..Len(q) : WritingTo(D, q, a, k)
    BY DEF Writing
  <1>4. k # 1
    BY <1>3 DEF WritingTo
  <1>5. k - 1 \in 1..Len(p) /\ p[k - 1] = q[k]
    <2>1. k - 1 \in 1..Len(p) /\ (k - 1) + 1 = k
      BY <1>2, <1>4
    <2>2. QED
      BY <1>2, <2>1
  <1>6. ASSUME NEW i \in 1..((k - 1) - 1) PROVE RowWrite(D, p[i], a)
    <2>1. i \in 1..Len(p) /\ i + 1 \in 1..(k - 1)
      BY <1>2, <1>4
    <2>2. QED
      BY <1>2, <1>3, <2>1 DEF WritingTo
  <1>7. WritingTo(D, p, a, k - 1)
    BY <1>3, <1>5, <1>6 DEF WritingTo
  <1>8. QED
    BY <1>1, <1>5, <1>7 DEF Writing

LEMMA DropAwaits ==
    ASSUME NEW q, IsSequence(q), q # << >>, NEW a, Awaits(q, a), ~IsReplay(q[1], a)
    PROVE  Awaits(Tail(q), a)
  <1>1. PICK i \in 1..Len(q) : IsReplay(q[i], a)
    BY DEF Awaits
  <1>2. i \in (1 + 1)..Len(q)
    <2>1. i # 1 /\ Len(q) \in Nat
      BY <1>1, SequenceIs
    <2>2. QED
      BY <2>1
  <1>3. QED
    BY <1>1, <1>2, TailWithin, WithinAwaits

\* What a replay is writing begins with it.
LEMMA WritingFirst ==
    ASSUME NEW D, NEW q, NEW a, Writing(D, q, a), Len(q) \in Nat
    PROVE  q[1].op = "rowBalance" \/ (q[1].op = "balance" /\ WritingTo(D, q, a, 1))
  <1>1. PICK k \in 1..Len(q) : WritingTo(D, q, a, k)
    BY DEF Writing
  <1>2. CASE k = 1
    BY <1>1, <1>2 DEF WritingTo
  <1>3. CASE k # 1
    <2>1. 1 \in 1..(k - 1)
      BY <1>3
    <2>2. QED
      BY <1>1, <2>1 DEF WritingTo, RowWrite
  <1>4. QED
    BY <1>2, <1>3

\* Its own statements keep the rows of an edit on its accounts.
LEMMA TailHome ==
    ASSUME NEW D, NEW E, NEW j, JobFits(D, j), j.todo # << >>, Effect(D, E, j.todo[1]),
           AtHome(D, j), NEW k, k.todo = Tail(j.todo), k.accounts = j.accounts
    PROVE  AtHome(E, k)
  <1>1. PICK q, p, s, A : q = j.todo /\ p = Tail(q) /\ s = q[1] /\ A = j.accounts
    OBVIOUS
  <1>2. /\ IsSequence(q) /\ \A i \in 1..Len(q) : Fits(D, q[i], A)
    BY <1>1 DEF JobFits, IsJob, TodoFits
  <1>3. /\ Len(q) \in Nat /\ Len(q) >= 1 /\ Len(p) = Len(q) - 1
        /\ \A i \in 1..Len(p) : p[i] = q[i + 1]
    BY <1>1, <1>2, TailOf
  <1>4. SUFFICES ASSUME NEW i \in 1..Len(p), p[i].op \in RowOps, Live(E, p[i].id)
                 PROVE  E.txs[p[i].id].account \in A
    BY <1>1 DEF AtHome
  <1>5. i + 1 \in 1..Len(q) /\ p[i] = q[i + 1] /\ 1 \in 1..Len(q)
    BY <1>3
  <1>6. PICK n : n = p[i].id
    OBVIOUS
  <1>7. n \in 1..Len(D.txs)
    BY <1>2, <1>4, <1>5, <1>6 DEF Fits
  <1>8. Live(D, n) /\ (KeptRow(D, E, n) \/ (s.op \in RowOps /\ s.id = n))
    BY <1>1, <1>4, <1>6, <1>7 DEF Effect
  <1>9. D.txs[n].account \in A
    BY <1>1, <1>4, <1>5, <1>6, <1>8 DEF AtHome
  <1>10. CASE KeptRow(D, E, n)
    BY <1>6, <1>9, <1>10 DEF KeptRow
  <1>11. CASE s.op \in RowOps /\ s.id = n
    <2>1. s.op \in {"update", "delete", "rowBalance"}
      BY <1>11 DEF RowOps
    <2>2. s.op = "update" => E.txs[n].account \in A
      BY <1>1, <1>2, <1>5, <1>11 DEF Effect, Fits
    <2>3. s.op # "delete"
      BY <1>1, <1>4, <1>6, <1>11 DEF Effect
    <2>4. s.op = "rowBalance" => E.txs[n].account \in A
      BY <1>1, <1>9 DEF Effect
    <2>5. QED
      BY <1>6, <2>1, <2>2, <2>3, <2>4
  <1>12. QED
    BY <1>8, <1>10, <1>11

\* A row is written: all replays are still to come.
LEMMA EditRepairing ==
    ASSUME NEW D, NEW E, NEW j, JobFits(D, j), j.todo # << >>, Effect(D, E, j.todo[1]),
           j.todo[1].op \in EditOps, Repairs(D, j),
           NEW k, k.todo = Tail(j.todo), k.accounts = j.accounts, k.replays = j.replays
    PROVE  Repairs(E, k)
  <1>1. PICK q, p, R : q = j.todo /\ p = Tail(q) /\ R = j.replays
    OBVIOUS
  <1>2. IsSequence(q) /\ Ordered(q, R)
    BY <1>1 DEF JobFits, IsJob, Repairs
  <1>3. /\ Len(q) \in Nat /\ Len(q) >= 1 /\ Len(p) = Len(q) - 1 /\ IsSequence(p)
        /\ \A i \in 1..Len(p) : p[i] = q[i + 1]
    BY <1>1, <1>2, TailOf
  <1>4. Within(p, q, 1)
    BY <1>1, <1>2, TailWithin
  <1>5. Ordered(p, R)
    BY <1>2, <1>4, WithinFits
  <1>6. 1 \in 1..Len(q)
    BY <1>3
  <1>7. /\ \A a \in R : \E i \in (1 + 1)..Len(q) : IsReplay(q[i], a)
        /\ \A i \in (1 + 1)..Len(q) : q[i].op \in EditOps \cup {"replay"}
    BY <1>1, <1>2, <1>6 DEF Ordered
  <1>8. \A a \in R : Awaits(p, a)
    BY <1>4, <1>7, WithinAwaits
  <1>9. Begun(E, p, R)
    <2>1. CASE p = << >>
      BY <2>1 DEF Begun
    <2>2. CASE p # << >>
      <3>1. 1 \in 1..Len(p)
        BY <1>3, <2>2, SequenceIs
      <3>2. p[1] = q[1 + 1] /\ 1 + 1 \in (1 + 1)..Len(q)
        BY <1>3, <3>1
      <3>3. p[1].op \in EditOps \cup {"replay"}
        BY <1>7, <3>2
      <3>4. QED
        BY <3>3 DEF Begun, EditOps
    <2>3. QED
      BY <2>1, <2>2
  <1>10. AtHome(E, k)
    BY TailHome DEF Repairs
  <1>11. QED
    BY <1>1, <1>5, <1>8, <1>9, <1>10 DEF Repairs, Repaired

\* The balance of a row is written: the replay it is part of goes on.
LEMMA RowBalanceRepairing ==
    ASSUME NEW D, TablesFit(D), NEW E, TablesFit(E), NEW j, JobFits(D, j), j.todo # << >>,
           Effect(D, E, j.todo[1]), j.todo[1].op = "rowBalance", Repairs(D, j),
           NEW k, k.todo = Tail(j.todo), k.accounts = j.accounts, k.replays = j.replays
    PROVE  Repairs(E, k)
  <1>1. PICK q, p, R, s : q = j.todo /\ p = Tail(q) /\ R = j.replays /\ s = q[1]
    OBVIOUS
  <1>2. IsSequence(q) /\ Ordered(q, R) /\ j.accounts \subseteq Accounts
    BY <1>1 DEF JobFits, IsJob, Repairs
  <1>3. /\ Len(q) \in Nat /\ Len(q) >= 1
    BY <1>1, <1>2, TailOf
  <1>4. PICK b \in R : Writing(D, q, b)
    BY <1>1 DEF Repairs, Begun
  <1>5. RowWrite(D, s, b)
    <2>1. PICK n \in 1..Len(q) : WritingTo(D, q, b, n)
      BY <1>4 DEF Writing
    <2>2. n # 1
      BY <1>1, <2>1 DEF WritingTo
    <2>3. 1 \in 1..(n - 1)
      BY <1>3, <2>2
    <2>4. QED
      BY <1>1, <2>1, <2>3 DEF WritingTo
  <1>6. LeavesAlone(D, E, j.accounts)
    <2>1. /\ E.acct = D.acct /\ E.initial = D.initial /\ Len(D.txs) <= Len(E.txs)
          /\ E.txs = D.txs /\ E.newBalance[s.id] = s.value /\ s.op = "rowBalance"
          /\ \A i \in 1..Len(D.txs) : KeptRow(D, E, i) \/ s.id = i
      BY <1>1 DEF Effect
    <2>2. ASSUME NEW i \in 1..Len(D.txs), Live(D, i) PROVE KeptRow(D, E, i)
      <3>1. CASE s.id = i
        <4>1. D.txs[i].isAdjustment => s.value = D.newBalance[i]
          BY <1>5, <2>2, <3>1 DEF RowWrite
        <4>2. QED
          BY <2>1, <3>1, <4>1 DEF KeptRow, SameEffect, Live
      <3>2. QED
        BY <2>1, <3>1
    <2>3. (Len(D.txs) + 1)..Len(E.txs) = {}
      BY <2>1, TablesFacts
    <2>4. \A a \in j.accounts : E.balance[a] = D.balance[a]
      BY <1>2, <2>1, <1>1 DEF Effect
    <2>5. \A i \in 1..Len(D.txs) : Live(E, i) => Live(D, i)
      BY <2>1 DEF Live
    <2>6. QED
      BY <2>1, <2>2, <2>3, <2>4, <2>5 DEF LeavesAlone
  <1>7. Repairs(E, j)
    BY <1>6, AloneRepairs
  <1>8. Within(p, q, 1)
    BY <1>1, <1>2, TailWithin
  <1>9. Ordered(p, R)
    BY <1>2, <1>8, WithinFits
  <1>10. \A a : Writing(E, q, a) => Writing(E, p, a)
    BY <1>1, <1>2, DropWriting
  <1>11. \A a : Awaits(q, a) => Awaits(p, a)
    BY <1>1, <1>2, DropAwaits DEF IsReplay
  <1>12. \A a \in R : Repaired(E, p, a)
    BY <1>1, <1>7, <1>10, <1>11 DEF Repairs, Repaired
  <1>13. Begun(E, p, R)
    <2>1. \E a \in R : Writing(E, q, a)
      BY <1>1, <1>7 DEF Repairs, Begun
    <2>2. QED
      BY <1>10, <2>1 DEF Begun
  <1>14. AtHome(E, k)
    BY TailHome DEF Repairs
  <1>15. QED
    BY <1>1, <1>9, <1>12, <1>13, <1>14 DEF Repairs

\* The balance of an account is written: the account is settled.
LEMMA BalanceRepairing ==
    ASSUME NEW D, TablesFit(D), NEW E, TablesFit(E), NEW j, JobFits(D, j), j.todo # << >>,
           Effect(D, E, j.todo[1]), j.todo[1].op = "balance", Repairs(D, j),
           NEW k, k.todo = Tail(j.todo), k.accounts = j.accounts, k.replays = j.replays
    PROVE  Repairs(E, k)
  <1>1. PICK q, p, R, s : q = j.todo /\ p = Tail(q) /\ R = j.replays /\ s = q[1]
    OBVIOUS
  <1>2. IsSequence(q) /\ Ordered(q, R) /\ R \subseteq Accounts
    BY <1>1 DEF JobFits, IsJob, Repairs
  <1>3. /\ Len(q) \in Nat /\ Len(q) >= 1 /\ Len(p) = Len(q) - 1 /\ IsSequence(p)
        /\ \A i \in 1..Len(p) : p[i] = q[i + 1]
    BY <1>1, <1>2, TailOf
  <1>4. /\ E.acct = D.acct /\ E.initial = D.initial /\ E.txs = D.txs
        /\ E.newBalance = D.newBalance
        /\ \A a \in Accounts : E.balance[a] = IF s.account = a THEN s.value ELSE D.balance[a]
    BY <1>1 DEF Effect
  <1>5. \A a : Recalculated(E, a) = Recalculated(D, a)
    BY <1>4 DEF Recalculated
  <1>6. ASSUME NEW a, Writing(D, q, a) PROVE s.account = a /\ s.value = Recalculated(D, a)
    <2>1. WritingTo(D, q, a, 1)
      BY <1>1, <1>3, <1>6, WritingFirst
    <2>2. QED
      BY <1>1, <2>1 DEF WritingTo
  <1>7. PICK b \in R : Writing(D, q, b)
    BY <1>1 DEF Repairs, Begun
  <1>8. SettledIn(E, b)
    BY <1>2, <1>4, <1>5, <1>6, <1>7 DEF SettledIn
  <1>9. \A a : Awaits(q, a) => Awaits(p, a)
    BY <1>1, <1>2, DropAwaits DEF IsReplay
  <1>10. ASSUME NEW a \in R PROVE Repaired(E, p, a)
    <2>1. CASE a = b
      BY <1>8, <2>1 DEF Repaired
    <2>2. CASE a # b
      <3>1. s.account # a /\ ~Writing(D, q, a)
        BY <1>6, <1>7, <2>2
      <3>2. SettledIn(D, a) => SettledIn(E, a)
        BY <1>2, <1>4, <1>5, <3>1 DEF SettledIn
      <3>3. QED
        BY <1>1, <1>9, <3>1, <3>2 DEF Repairs, Repaired
    <2>3. QED
      BY <2>1, <2>2
  <1>11. Within(p, q, 1)
    BY <1>1, <1>2, TailWithin
  <1>12. Ordered(p, R)
    BY <1>2, <1>11, WithinFits
  <1>13. Begun(E, p, R)
    <2>1. CASE p = << >>
      BY <2>1 DEF Begun
    <2>2. CASE p # << >>
      <3>1. 1 \in 1..Len(p) /\ 1 \in 1..Len(q)
        BY <1>3, <2>2, SequenceIs
      <3>2. p[1] = q[1 + 1] /\ 1 + 1 \in (1 + 1)..Len(q)
        BY <1>3, <3>1
      <3>3. p[1].op = "replay"
        BY <1>1, <1>2, <3>1, <3>2 DEF Ordered
      <3>4. QED
        BY <3>3 DEF Begun
    <2>3. QED
      BY <2>1, <2>2
  <1>14. AtHome(E, k)
    BY TailHome DEF Repairs
  <1>15. QED
    BY <1>1, <1>10, <1>12, <1>13, <1>14 DEF Repairs

\* The replay of an account nobody sees ends when it begins.
LEMMA HiddenRepairing ==
    ASSUME NEW D, NEW j, JobFits(D, j), j.todo # << >>, j.todo[1].op = "replay",
           D.acct[j.todo[1].account].opened => D.acct[j.todo[1].account].deleted, Repairs(D, j),
           NEW k, k.todo = Tail(j.todo), k.accounts = j.accounts, k.replays = j.replays
    PROVE  Repairs(D, k)
  <1>1. PICK q, p, R, b : q = j.todo /\ p = Tail(q) /\ R = j.replays /\ b = q[1].account
    OBVIOUS
  <1>2. IsSequence(q) /\ Ordered(q, R) /\ ReplaysLast(q)
    BY <1>1 DEF JobFits, IsJob, Repairs, TodoFits
  <1>3. /\ Len(q) \in Nat /\ Len(q) >= 1 /\ Len(p) = Len(q) - 1 /\ IsSequence(p)
        /\ \A i \in 1..Len(p) : p[i] = q[i + 1]
    BY <1>1, <1>2, TailOf
  <1>4. \A i \in 1..Len(p) : p[i].op = "replay"
    <2>1. TAKE i \in 1..Len(p)
    <2>2. 1 \in 1..Len(q) /\ i + 1 \in 1..Len(q) /\ 1 < i + 1
      BY <1>3
    <2>3. QED
      BY <1>1, <1>2, <1>3, <2>2 DEF ReplaysLast
  <1>5. SettledIn(D, b)
    BY <1>1 DEF SettledIn
  <1>6. \A a : ~Writing(D, q, a)
    BY <1>1, <1>3, WritingFirst
  <1>7. \A a : a # b /\ Awaits(q, a) => Awaits(p, a)
    BY <1>1, <1>2, DropAwaits DEF IsReplay
  <1>8. \A a \in R : Repaired(D, p, a)
    BY <1>1, <1>5, <1>6, <1>7 DEF Repairs, Repaired
  <1>9. Within(p, q, 1)
    BY <1>1, <1>2, TailWithin
  <1>10. Ordered(p, R)
    BY <1>2, <1>9, WithinFits
  <1>11. Begun(D, p, R)
    <2>1. p # << >> => 1 \in 1..Len(p)
      BY <1>3, SequenceIs
    <2>2. QED
      BY <1>4, <2>1 DEF Begun
  <1>12. AtHome(D, k)
    BY <1>1, <1>4 DEF AtHome, RowOps
  <1>13. QED
    BY <1>1, <1>8, <1>10, <1>11, <1>12 DEF Repairs

\* A replay puts its writes first.
LEMMA BeginRepairing ==
    ASSUME NEW D, NEW j, JobFits(D, j), j.todo # << >>, j.todo[1].op = "replay", Repairs(D, j),
           NEW r, IsReplayOf(D, r, j.todo[1].account),
           NEW k, k.todo = r \o Tail(j.todo), k.accounts = j.accounts, k.replays = j.replays
    PROVE  Repairs(D, k)
  <1>1. PICK q, p, u, R, b, n : /\ q = j.todo /\ p = Tail(q) /\ u = r \o p /\ R = j.replays
                                /\ b = q[1].account /\ n = Len(r)
    OBVIOUS
  <1>2. IsSequence(q) /\ Ordered(q, R) /\ ReplaysLast(q) /\ R \subseteq j.accounts
    BY <1>1 DEF JobFits, IsJob, Repairs, TodoFits
  <1>3. /\ Len(q) \in Nat /\ Len(q) >= 1 /\ Len(p) = Len(q) - 1 /\ IsSequence(p)
        /\ \A i \in 1..Len(p) : p[i] = q[i + 1]
    BY <1>1, <1>2, TailOf
  <1>4. IsSequence(r) /\ n \in Nat /\ n >= 1
    BY <1>1 DEF IsReplayOf
  <1>5. Joined(r, p, u)
    BY <1>1, <1>3, <1>4, JoinOf
  <1>6. /\ IsSequence(u) /\ Len(u) = n + Len(p) /\ Len(p) \in Nat
        /\ \A i \in 1..n : u[i] = r[i]
        /\ \A i \in 1..Len(p) : u[n + i] = p[i]
        /\ \A i \in 1..Len(u) : IF i <= n THEN u[i] = r[i]
                                ELSE i - n \in 1..Len(p) /\ u[i] = p[i - n]
    BY <1>1, <1>5 DEF Joined
  <1>7. ASSUME NEW i \in 1..Len(p) PROVE p[i].op = "replay" /\ p[i].account \in R
    <2>1. 1 \in 1..Len(q) /\ i + 1 \in 1..Len(q) /\ 1 < i + 1 /\ p[i] = q[i + 1]
      BY <1>3
    <2>2. q[i + 1].op = "replay"
      BY <1>1, <1>2, <2>1 DEF ReplaysLast
    <2>3. QED
      BY <1>2, <2>1, <2>2 DEF Ordered
  <1>8. b \in R
    <2>1. PICK i : i = 1
      OBVIOUS
    <2>2. i \in 1..Len(q) /\ q[i].op = "replay" /\ q[i].account = b
      BY <1>1, <1>3, <2>1
    <2>3. QED
      BY <1>2, <2>2 DEF Ordered
  <1>9. ASSUME NEW i \in 1..Len(u)
        PROVE  IF i < n THEN /\ u[i].op = "rowBalance" /\ u[i].id \in 1..Len(D.txs)
                             /\ D.txs[u[i].id].account = b
                             /\ D.txs[u[i].id].isAdjustment => u[i].value = D.newBalance[u[i].id]
               ELSE IF i = n THEN u[i].op = "balance" /\ u[i].account = b
                                  /\ u[i].value = Recalculated(D, b)
               ELSE u[i].op = "replay" /\ u[i].account \in R
    <2>1. CASE i < n
      <3>1. i \in 1..(Len(r) - 1) /\ u[i] = r[i]
        BY <1>1, <1>4, <1>6, <2>1
      <3>2. PICK w, a : w = r[i] /\ a = b /\ IsReplayOf(D, r, a)
        BY <1>1
      <3>3. /\ w.op = "rowBalance" /\ w.id \in 1..Len(D.txs) /\ D.txs[w.id].account = a
            /\ D.txs[w.id].isAdjustment => w.value = D.newBalance[w.id]
        BY <3>1, <3>2 DEF IsReplayOf
      <3>4. QED
        BY <2>1, <3>1, <3>2, <3>3
    <2>2. CASE i = n
      <3>1. u[n] = r[n]
        BY <1>4, <1>6
      <3>2. QED
        BY <1>1, <2>2, <3>1 DEF IsReplayOf
    <2>3. CASE i > n
      <3>1. i - n \in 1..Len(p) /\ u[i] = p[i - n]
        BY <1>4, <1>6, <2>3
      <3>2. QED
        BY <1>4, <1>7, <2>3, <3>1
    <2>4. QED
      BY <1>4, <2>1, <2>2, <2>3
  <1>10. n \in 1..Len(u)
    BY <1>4, <1>6
  <1>11. Writing(D, u, b)
    <2>1. \A i \in 1..(n - 1) : RowWrite(D, u[i], b)
      <3>1. TAKE i \in 1..(n - 1)
      <3>2. i \in 1..Len(u) /\ i < n
        BY <1>4, <1>6
      <3>3. QED
        BY <1>9, <3>2 DEF RowWrite
    <2>2. WritingTo(D, u, b, n)
      BY <1>4, <1>9, <1>10, <2>1 DEF WritingTo
    <2>3. QED
      BY <1>10, <2>2 DEF Writing
  <1>12. ASSUME NEW a \in R PROVE Repaired(D, u, a)
    <2>1. CASE a = b
      BY <1>11, <2>1 DEF Repaired
    <2>2. ASSUME a # b, Awaits(q, a) PROVE Awaits(u, a)
      <3>1. Awaits(p, a)
        BY <1>1, <1>2, <2>2, DropAwaits DEF IsReplay
      <3>2. PICK i \in 1..Len(p) : IsReplay(p[i], a)
        BY <3>1 DEF Awaits
      <3>3. n + i \in 1..Len(u) /\ u[n + i] = p[i]
        BY <1>4, <1>6
      <3>4. QED
        BY <3>2, <3>3 DEF Awaits
    <2>3. ~Writing(D, q, a)
      BY <1>1, <1>3, WritingFirst
    <2>4. QED
      BY <1>1, <2>1, <2>2, <2>3 DEF Repairs, Repaired
  <1>13. Ordered(u, R)
    <2>1. SUFFICES ASSUME NEW i \in 1..Len(u)
                   PROVE  /\ u[i].op # "link" /\ u[i].op \notin EditOps
                          /\ u[i].op = "balance" => \A l \in (i + 1)..Len(u) : u[l].op = "replay"
                          /\ u[i].op = "replay" => u[i].account \in R
      BY DEF Ordered
    <2>2. u[i].op # "link" /\ u[i].op \notin EditOps /\ (u[i].op = "replay" => u[i].account \in R)
      BY <1>4, <1>9 DEF EditOps
    <2>3. ASSUME u[i].op = "balance", NEW l \in (i + 1)..Len(u) PROVE u[l].op = "replay"
      <3>1. i = n
        BY <1>4, <1>9, <2>3
      <3>2. l \in 1..Len(u) /\ ~(l < n) /\ l # n
        BY <1>4, <3>1
      <3>3. QED
        BY <1>9, <3>2
    <2>4. QED
      BY <2>2, <2>3
  <1>14. AtHome(D, k)
    <2>1. \A i \in 1..Len(u) : u[i].op \in RowOps => D.txs[u[i].id].account \in j.accounts
      BY <1>2, <1>4, <1>8, <1>9 DEF RowOps
    <2>2. QED
      BY <1>1, <2>1 DEF AtHome
  <1>15. Begun(D, u, R)
    BY <1>8, <1>11 DEF Begun
  <1>16. QED
    BY <1>1, <1>12, <1>13, <1>14, <1>15 DEF Repairs

-----------------------------------------------------------------------------
(* A statement of one request, and all requests.                            *)

\* Request j does its first statement and becomes k.
DoesStatement(D, E, j, k) ==
    /\ j.todo # << >>
    /\ Executes(D, E, j.todo[1], j.made)
    /\ j.todo[1].op = "replay" =>
           (D.acct[j.todo[1].account].opened => D.acct[j.todo[1].account].deleted)
    /\ k = NextJob(j, Tail(j.todo), MadeAfter(D, j.todo[1], j.made))

\* Request j begins a replay and becomes k.
BeginsReplay(D, E, j, k) ==
    /\ j.todo # << >> /\ j.todo[1].op = "replay"
    /\ E = D
    /\ \E r : /\ IsReplayOf(D, r, j.todo[1].account)
              /\ k = NextJob(j, r \o Tail(j.todo), j.made)

\* What a request that fits says of its first statement.
LEMMA FirstCan ==
    ASSUME NEW D, TablesFit(D), NEW j, JobFits(D, j), j.todo # << >>
    PROVE  /\ CanDo(D, j.todo[1], j.made, j.accounts)
           /\ Len(j.todo) \in Nat /\ 1 \in 1..Len(j.todo)
  <1>1. /\ IsSequence(j.todo) /\ j.made \in Seq(1..Len(D.txs)) /\ MadeBefore(j.todo, j.made)
        /\ j.accounts \subseteq Accounts /\ \A a \in j.accounts : D.acct[a].opened
        /\ \A i \in 1..Len(j.todo) : Fits(D, j.todo[i], j.accounts)
    BY DEF JobFits, IsJob, TodoFits
  <1>2. Len(j.todo) \in Nat /\ 1 \in 1..Len(j.todo)
    BY <1>1, TailOf
  <1>3. /\ NeedsMine(j.todo[1]) => j.made # << >>
        /\ j.todo[1].op = "link" => Len(j.made) >= 2
    BY <1>1, <1>2 DEF MadeBefore
  <1>4. QED
    BY <1>1, <1>2, <1>3 DEF CanDo

\* The tables after it.
LEMMA AfterStatement ==
    ASSUME NEW D, TablesFit(D), NEW E, NEW j, JobFits(D, j), NEW k, DoesStatement(D, E, j, k)
    PROVE  /\ TablesFit(E) /\ Effect(D, E, j.todo[1]) /\ Grown(D, E)
           /\ j.todo[1].op = "insert" => Len(E.txs) = Len(D.txs) + 1
  <1>1. CanDo(D, j.todo[1], j.made, j.accounts) /\ Executes(D, E, j.todo[1], j.made)
    BY FirstCan DEF DoesStatement
  <1>2. /\ TablesFit(E) /\ Effect(D, E, j.todo[1])
        /\ Len(E.txs) = IF j.todo[1].op = "insert" THEN Len(D.txs) + 1 ELSE Len(D.txs)
    BY <1>1, StatementEffect
  <1>3. Len(D.txs) \in Nat /\ Len(E.txs) \in Nat
    BY <1>2, TablesFacts
  <1>4. Grown(D, E)
    BY <1>2, <1>3 DEF Effect, Grown
  <1>5. QED
    BY <1>2, <1>4

\* The request goes on with the statements that are left.
LEMMA StatementFits ==
    ASSUME NEW D, TablesFit(D), NEW E, NEW j, JobFits(D, j), NEW k, DoesStatement(D, E, j, k)
    PROVE  JobFits(E, k) /\ IsNext(k, j, Tail(j.todo), MadeAfter(D, j.todo[1], j.made))
  <1>1. j.todo # << >> /\ k = NextJob(j, Tail(j.todo), MadeAfter(D, j.todo[1], j.made))
    BY DEF DoesStatement
  <1>2. Grown(D, E) /\ (j.todo[1].op = "insert" => Len(E.txs) = Len(D.txs) + 1)
    BY AfterStatement
  <1>3. JobFits(E, NextJob(j, Tail(j.todo), MadeAfter(D, j.todo[1], j.made)))
    BY <1>1, <1>2, TailFits
  <1>4. IsJob(D, j)
    BY DEF JobFits
  <1>5. IsNext(NextJob(j, Tail(j.todo), MadeAfter(D, j.todo[1], j.made)), j, Tail(j.todo),
               MadeAfter(D, j.todo[1], j.made))
    BY <1>4, NextJobIs
  <1>6. QED
    BY <1>1, <1>3, <1>5

\* A replay that is given up writes nothing.
LEMMA NothingWritten ==
    ASSUME NEW D, TablesFit(D), NEW E, NEW s, Effect(D, E, s), s.op = "replay",
           NEW A, A \subseteq Accounts
    PROVE  LeavesAlone(D, E, A)
  <1>1. /\ E.acct = D.acct /\ E.initial = D.initial /\ E.txs = D.txs
        /\ E.newBalance = D.newBalance /\ \A a \in Accounts : E.balance[a] = D.balance[a]
        /\ Len(D.txs) <= Len(E.txs)
    BY DEF Effect
  <1>2. (Len(D.txs) + 1)..Len(E.txs) = {}
    BY <1>1, TablesFacts
  <1>3. \A i \in 1..Len(D.txs) : KeptRow(D, E, i) /\ (Live(E, i) => Live(D, i))
    BY <1>1 DEF KeptRow, Live, SameEffect
  <1>4. QED
    BY <1>1, <1>2, <1>3 DEF LeavesAlone

\* An undisturbed edit repairs, whichever statement it does.
LEMMA StatementRepairs ==
    ASSUME NEW D, TablesFit(D), NEW E, NEW j, JobFits(D, j), NEW k, DoesStatement(D, E, j, k),
           Repairs(D, j)
    PROVE  Repairs(E, k)
  <1>1. /\ TablesFit(E) /\ Effect(D, E, j.todo[1]) /\ j.todo # << >>
    BY AfterStatement DEF DoesStatement
  <1>2. k.todo = Tail(j.todo) /\ k.accounts = j.accounts /\ k.replays = j.replays
    BY StatementFits DEF IsNext
  <1>3. j.todo[1].op # "link"
    BY FirstCan, <1>1 DEF Repairs, Ordered
  <1>4. j.todo[1].op \in EditOps \cup {"rowBalance", "balance", "replay"}
    BY FirstCan, <1>1, <1>3 DEF CanDo, Fits, Ops
  <1>5. CASE j.todo[1].op \in EditOps
    BY <1>1, <1>2, <1>5, EditRepairing
  <1>6. CASE j.todo[1].op = "rowBalance"
    BY <1>1, <1>2, <1>6, RowBalanceRepairing
  <1>7. CASE j.todo[1].op = "balance"
    BY <1>1, <1>2, <1>7, BalanceRepairing
  <1>8. CASE j.todo[1].op = "replay"
    <2>1. Repairs(D, k)
      BY <1>1, <1>2, <1>8, HiddenRepairing DEF DoesStatement
    <2>2. JobFits(E, k)
      BY StatementFits
    <2>3. Grown(E, D)
      BY <1>1, <1>8, TablesFacts DEF Grown, Effect
    <2>4. JobFits(D, k)
      BY <2>2, <2>3, GrownJob
    <2>5. LeavesAlone(D, E, k.accounts)
      <3>1. k.accounts \subseteq Accounts
        BY <2>4 DEF JobFits, IsJob
      <3>2. QED
        BY <1>1, <1>8, <3>1, NothingWritten
    <2>6. QED
      BY <1>1, <2>1, <2>4, <2>5, AloneRepairs
  <1>9. QED
    BY <1>4, <1>5, <1>6, <1>7, <1>8

LEMMA ReplayBegins ==
    ASSUME NEW D, NEW E, NEW j, JobFits(D, j), NEW k, BeginsReplay(D, E, j, k)
    PROVE  /\ E = D /\ JobFits(E, k) /\ (Repairs(D, j) => Repairs(E, k))
           /\ \E r : IsReplayOf(D, r, j.todo[1].account) /\ IsNext(k, j, r \o Tail(j.todo), j.made)
  <1>1. PICK r : IsReplayOf(D, r, j.todo[1].account) /\ k = NextJob(j, r \o Tail(j.todo), j.made)
    BY DEF BeginsReplay
  <1>2. j.todo # << >> /\ j.todo[1].op = "replay" /\ E = D /\ IsJob(D, j)
    BY DEF BeginsReplay, JobFits
  <1>3. JobFits(D, k)
    BY <1>1, <1>2, BeginFits
  <1>4. IsNext(NextJob(j, r \o Tail(j.todo), j.made), j, r \o Tail(j.todo), j.made)
    BY <1>2, NextJobIs
  <1>5. IsNext(k, j, r \o Tail(j.todo), j.made)
    BY <1>1, <1>4
  <1>6. k.todo = r \o Tail(j.todo) /\ k.accounts = j.accounts /\ k.replays = j.replays
    BY <1>5 DEF IsNext
  <1>7. Repairs(D, j) => Repairs(D, k)
    BY <1>1, <1>2, <1>6, BeginRepairing
  <1>8. QED
    BY <1>1, <1>2, <1>3, <1>5, <1>7

\* A request that is apart from some accounts leaves them alone, and stays apart.
LEMMA StatementApart ==
    ASSUME NEW D, TablesFit(D), NEW E, NEW j, JobFits(D, j), NEW k, DoesStatement(D, E, j, k),
           NEW A, A \subseteq Accounts, Apart(D, j, A)
    PROVE  LeavesAlone(D, E, A) /\ Apart(E, k, A)
  <1>1. /\ Effect(D, E, j.todo[1]) /\ j.todo # << >>
    BY AfterStatement DEF DoesStatement
  <1>2. /\ Fits(D, j.todo[1], j.accounts) /\ j.accounts \cap A = {}
        /\ j.todo[1].op \in RowOps /\ Live(D, j.todo[1].id) => D.txs[j.todo[1].id].account \notin A
    BY <1>1, FirstCan DEF CanDo, Apart
  <1>3. LeavesAlone(D, E, A)
    BY <1>1, <1>2, ElsewhereAlone
  <1>4. Apart(E, j, A)
    BY <1>3, AloneApart
  <1>5. k.todo = Tail(j.todo) /\ k.accounts = j.accounts
    BY StatementFits DEF IsNext
  <1>6. IsSequence(j.todo)
    BY DEF JobFits, IsJob
  <1>7. PICK p : p = Tail(j.todo)
    OBVIOUS
  <1>8. /\ Len(p) = Len(j.todo) - 1 /\ Len(j.todo) \in Nat
        /\ \A i \in 1..Len(p) : p[i] = j.todo[i + 1]
    BY <1>1, <1>6, <1>7, TailOf
  <1>9. \A i \in 1..Len(p) : p[i].op \in RowOps /\ Live(E, p[i].id) => E.txs[p[i].id].account \notin A
    <2>1. TAKE i \in 1..Len(p)
    <2>2. i + 1 \in 1..Len(j.todo) /\ p[i] = j.todo[i + 1]
      BY <1>8
    <2>3. QED
      BY <1>1, <1>4, <2>2 DEF Apart
  <1>10. Apart(E, k, A)
    BY <1>2, <1>5, <1>7, <1>9 DEF Apart
  <1>11. QED
    BY <1>3, <1>10

\* What a replay is going to write is on the account it replays.
LEMMA ReplayApart ==
    ASSUME NEW D, NEW E, NEW j, JobFits(D, j), NEW k, BeginsReplay(D, E, j, k),
           NEW A, Apart(D, j, A)
    PROVE  Apart(E, k, A)
  <1>1. PICK r : IsReplayOf(D, r, j.todo[1].account) /\ IsNext(k, j, r \o Tail(j.todo), j.made)
    BY ReplayBegins
  <1>2. PICK q, p, u, n : q = j.todo /\ p = Tail(q) /\ u = r \o p /\ n = Len(r)
    OBVIOUS
  <1>3. /\ E = D /\ q # << >> /\ q[1].op = "replay" /\ IsSequence(q)
        /\ \A i \in 1..Len(q) : Fits(D, q[i], j.accounts)
    BY <1>2 DEF BeginsReplay, JobFits, IsJob, TodoFits
  <1>4. /\ Len(q) \in Nat /\ 1 \in 1..Len(q) /\ IsSequence(p) /\ Len(p) = Len(q) - 1
        /\ \A i \in 1..Len(p) : p[i] = q[i + 1]
    BY <1>2, <1>3, TailOf
  <1>5. j.accounts \cap A = {} /\ q[1].account \in j.accounts
    BY <1>2, <1>3, <1>4 DEF Apart, Fits
  <1>6. Joined(r, p, u)
    BY <1>1, <1>2, <1>4, JoinOf DEF IsReplayOf
  <1>7. \A i \in 1..Len(u) : IF i <= n THEN u[i] = r[i]
                             ELSE i - n \in 1..Len(p) /\ u[i] = p[i - n]
    BY <1>2, <1>6 DEF Joined
  <1>8. n \in Nat
    BY <1>1, <1>2 DEF IsReplayOf
  <1>9. SUFFICES ASSUME NEW i \in 1..Len(u), u[i].op \in RowOps, Live(D, u[i].id)
                 PROVE  D.txs[u[i].id].account \notin A
    BY <1>1, <1>2, <1>3, <1>5 DEF Apart, IsNext
  <1>10. CASE i <= n
    <2>1. i \in 1..n /\ u[i] = r[i]
      BY <1>7, <1>8, <1>10
    <2>2. i # n
      BY <1>1, <1>2, <1>9, <2>1 DEF IsReplayOf, RowOps
    <2>3. i \in 1..(Len(r) - 1)
      BY <1>2, <1>8, <2>1, <2>2
    <2>4. D.txs[r[i].id].account = q[1].account
      BY <1>1, <1>2, <2>3 DEF IsReplayOf
    <2>5. QED
      BY <1>5, <2>1, <2>4
  <1>11. CASE ~(i <= n)
    <2>1. i - n \in 1..Len(p) /\ u[i] = p[i - n]
      BY <1>7, <1>11
    <2>2. (i - n) + 1 \in 1..Len(q) /\ u[i] = q[(i - n) + 1]
      BY <1>4, <2>1
    <2>3. QED
      BY <1>2, <1>3, <1>9, <2>2 DEF Apart
  <1>12. QED
    BY <1>10, <1>11

\* The statement of an edit moves no row of another request to the accounts of the edit.
LEMMA StatementKeepsApart ==
    ASSUME NEW D, TablesFit(D), NEW E, NEW j, JobFits(D, j), NEW k, DoesStatement(D, E, j, k),
           AtHome(D, j), NEW other, JobFits(D, other), Apart(D, other, j.accounts)
    PROVE  Apart(E, other, j.accounts)
  <1>1. PICK q, A, s : q = other.todo /\ A = j.accounts /\ s = j.todo[1]
    OBVIOUS
  <1>2. Effect(D, E, s) /\ j.todo # << >>
    BY <1>1, AfterStatement DEF DoesStatement
  <1>3. s.op \in RowOps /\ Live(D, s.id) => D.txs[s.id].account \in A
    BY <1>1, <1>2, FirstCan DEF AtHome
  <1>4. SUFFICES ASSUME q # << >>, NEW i \in 1..Len(q), q[i].op \in RowOps, Live(E, q[i].id)
                 PROVE  E.txs[q[i].id].account \notin A
    BY <1>1 DEF Apart
  <1>5. PICK n : n = q[i].id
    OBVIOUS
  <1>6. n \in 1..Len(D.txs)
    BY <1>1, <1>4, <1>5 DEF JobFits, TodoFits, Fits
  <1>7. Live(D, n) /\ (KeptRow(D, E, n) \/ (s.op \in RowOps /\ s.id = n))
    BY <1>2, <1>4, <1>5, <1>6 DEF Effect
  <1>8. D.txs[n].account \notin A
    BY <1>1, <1>4, <1>5, <1>7 DEF Apart
  <1>9. KeptRow(D, E, n)
    BY <1>3, <1>7, <1>8
  <1>10. QED
    BY <1>5, <1>8, <1>9 DEF KeptRow

\* Requests that are calm edits stay on course when worker w goes on.
LEMMA WorkerFits ==
    ASSUME NEW D, TablesFit(D), NEW E, NEW J, AllFit(D, J), NEW w \in Workers,
           NEW K, K = [x \in Workers |-> K[x]], \A x \in Workers \ {w} : K[x] = J[x],
           DoesStatement(D, E, J[w], K[w]) \/ BeginsReplay(D, E, J[w], K[w])
    PROVE  TablesFit(E) /\ AllFit(E, K)
  <1>1. JobFits(D, J[w])
    BY DEF AllFit
  <1>2. CASE DoesStatement(D, E, J[w], K[w])
    <2>1. TablesFit(E) /\ Grown(D, E)
      BY <1>1, <1>2, AfterStatement
    <2>2. JobFits(E, K[w])
      BY <1>1, <1>2, StatementFits
    <2>3. \A x \in Workers \ {w} : JobFits(E, K[x])
      BY <2>1, GrownJob DEF AllFit
    <2>4. QED
      BY <2>1, <2>2, <2>3 DEF AllFit
  <1>3. CASE BeginsReplay(D, E, J[w], K[w])
    <2>1. E = D /\ JobFits(E, K[w])
      BY <1>1, <1>3, ReplayBegins
    <2>2. QED
      BY <2>1 DEF AllFit
  <1>4. QED
    BY <1>2, <1>3

LEMMA WorkerRepairs ==
    ASSUME NEW D, TablesFit(D), NEW E, NEW J, AllFit(D, J), EditsRepair(D, J), NEW w \in Workers,
           NEW K, \A x \in Workers \ {w} : K[x] = J[x],
           DoesStatement(D, E, J[w], K[w]) \/ BeginsReplay(D, E, J[w], K[w])
    PROVE  EditsRepair(E, K)
  <1>1. \A x \in Workers : JobFits(D, J[x]) /\ J[x].accounts \subseteq Accounts
    BY DEF AllFit, JobFits, IsJob
  <1>2. K[w].kind = J[w].kind /\ K[w].calm = J[w].calm /\ K[w].accounts = J[w].accounts
    <2>1. PICK q, m : IsNext(K[w], J[w], q, m)
      <3>1. CASE DoesStatement(D, E, J[w], K[w])
        BY <1>1, <3>1, StatementFits
      <3>2. CASE BeginsReplay(D, E, J[w], K[w])
        BY <1>1, <3>2, ReplayBegins
      <3>3. QED
        BY <3>1, <3>2
    <2>2. QED
      BY <2>1 DEF IsNext
  <1>3. SUFFICES ASSUME NEW v \in Workers, CalmEdit(K[v])
                 PROVE  /\ Repairs(E, K[v])
                        /\ \A x \in Workers \ {v} : Apart(E, K[x], K[v].accounts)
    BY DEF EditsRepair
  <1>4. CalmEdit(J[v]) /\ K[v].accounts = J[v].accounts
    BY <1>2, <1>3 DEF CalmEdit
  <1>5. Repairs(D, J[v]) /\ \A x \in Workers \ {v} : Apart(D, J[x], J[v].accounts)
    BY <1>4 DEF EditsRepair
  <1>6. CASE v = w
    <2>1. Repairs(E, K[w])
      BY <1>1, <1>5, <1>6, StatementRepairs, ReplayBegins
    <2>2. AtHome(D, J[w])
      BY <1>5, <1>6 DEF Repairs
    <2>3. ASSUME NEW x \in Workers \ {w} PROVE Apart(E, J[x], J[w].accounts)
      <3>1. JobFits(D, J[x]) /\ Apart(D, J[x], J[w].accounts)
        BY <1>1, <1>5, <1>6
      <3>2. CASE DoesStatement(D, E, J[w], K[w])
        BY <1>1, <2>2, <3>1, <3>2, StatementKeepsApart
      <3>3. CASE BeginsReplay(D, E, J[w], K[w])
        BY <3>1, <3>3 DEF BeginsReplay
      <3>4. QED
        BY <3>2, <3>3
    <2>4. QED
      BY <1>4, <1>6, <2>1, <2>3
  <1>7. CASE v # w
    <2>1. Apart(D, J[w], J[v].accounts) /\ JobFits(D, J[w]) /\ J[v].accounts \subseteq Accounts
      BY <1>1, <1>5, <1>7
    <2>2. CASE DoesStatement(D, E, J[w], K[w])
      <3>1. TablesFit(E) /\ LeavesAlone(D, E, J[v].accounts) /\ Apart(E, K[w], J[v].accounts)
        BY <2>1, <2>2, AfterStatement, StatementApart
      <3>2. Repairs(E, J[v])
        BY <1>1, <1>5, <3>1, AloneRepairs
      <3>3. \A x \in Workers \ {v, w} : Apart(E, J[x], J[v].accounts)
        BY <1>1, <1>5, <3>1, AloneApart
      <3>4. QED
        BY <1>4, <1>7, <3>1, <3>2, <3>3
    <2>3. CASE BeginsReplay(D, E, J[w], K[w])
      <3>1. E = D /\ Apart(E, K[w], J[v].accounts)
        BY <2>1, <2>3, ReplayApart DEF BeginsReplay
      <3>2. QED
        BY <1>4, <1>5, <1>7, <3>1
    <2>4. QED
      BY <2>2, <2>3
  <1>8. QED
    BY <1>6, <1>7

-----------------------------------------------------------------------------
(* The steps of the specification.                                          *)

\* What the operators say is what Step does.
LEMMA StepIs ==
    ASSUME StepsInv, NEW w \in Workers, Step(w)
    PROVE  /\ job' = [x \in Workers |-> job'[x]] /\ \A x \in Workers \ {w} : job'[x] = job[x]
           /\ \/ DoesStatement(Tables, Tables', job[w], job'[w])
              \/ BeginsReplay(Tables, Tables', job[w], job'[w])
           /\ now' = now
  <1>1. PICK j, q, s, m, K : /\ j = job[w] /\ q = j.todo /\ s = q[1]
                             /\ m = MadeAfter(Tables, s, j.made) /\ K = job'
    OBVIOUS
  <1>2. /\ JobFits(Tables, j) /\ q # << >> /\ IsSequence(q) /\ job = [x \in Workers |-> job[x]]
    BY <1>1 DEF StepsInv, AllFit, Step, Working, JobFits, IsJob
  <1>3. Head(q) = s
    BY <1>1, <1>2, TailOf
  <1>4. PICK p : p = After(s, Tail(q))
    OBVIOUS
  <1>5. K = [[job EXCEPT ![w] = [j EXCEPT !.todo = p]] EXCEPT ![w] = [@ EXCEPT !.made = m]]
    <2>1. m = IF s.op = "insert" THEN Append(j.made, Len(txs) + 1) ELSE j.made
      BY <1>1 DEF MadeAfter, Tables
    <2>2. K = [job EXCEPT ![w].todo = p, ![w].made = m]
      BY <1>1, <1>3, <1>4, <2>1 DEF Step
    <2>3. QED
      BY <1>1, <2>2
  <1>6. K = [job EXCEPT ![w] = NextJob(j, p, m)]
    BY <1>2, <1>5 DEF NextJob
  <1>7. /\ K = [x \in Workers |-> K[x]] /\ K[w] = NextJob(j, p, m)
        /\ \A x \in Workers \ {w} : K[x] = job[x]
    BY <1>2, <1>6
  <1>8. Execute(w, s)
    BY <1>1, <1>3 DEF Step
  <1>9. Executes(Tables, Tables', s, j.made) /\ now' = now
    BY <1>1, <1>8 DEF Execute, Executes, Tables, OwnedBy, StoredRow, Own
  <1>10. CASE s.op = "replay" /\ Visible(s.account)
    <2>1. Tables' = Tables
      BY <1>8, <1>10 DEF Execute, Tables
    <2>2. s.account \in Accounts
      BY <1>1, <1>2, <1>10, FirstCan DEF StepsInv, CanDo, Fits
    <2>3. PICK r : r = recalculateBalances(s.account)
      OBVIOUS
    <2>4. IsReplayOf(Tables, r, s.account)
      BY <2>2, <2>3, ReplayStatements DEF StepsInv
    <2>5. p = r \o Tail(q) /\ m = j.made
      BY <1>1, <1>4, <1>10, <2>3 DEF After, MadeAfter
    <2>6. BeginsReplay(Tables, Tables', j, K[w])
      BY <1>1, <1>2, <1>7, <1>10, <2>1, <2>4, <2>5 DEF BeginsReplay
    <2>7. QED
      BY <1>1, <1>7, <1>9, <2>6
  <1>11. CASE ~(s.op = "replay" /\ Visible(s.account))
    <2>1. p = Tail(q)
      BY <1>4, <1>11 DEF After
    <2>2. s.op = "replay" => (Tables.acct[s.account].opened => Tables.acct[s.account].deleted)
      BY <1>11 DEF Visible, Tables
    <2>3. DoesStatement(Tables, Tables', j, K[w])
      BY <1>1, <1>2, <1>7, <1>9, <2>1, <2>2 DEF DoesStatement
    <2>4. QED
      BY <1>1, <1>7, <1>9, <2>3
  <1>12. QED
    BY <1>10, <1>11

\* The types of the columns are part of the tables' shape.
LEMMA TypesOf ==
    ASSUME TypeOK, TablesFit(Tables)', now' = now
    PROVE  TypeOK'
  BY DEF TypeOK, TablesFit, Tables

LEMMA StepKeeps ==
    ASSUME StepsInv, NEW w \in Workers, Step(w)
    PROVE  StepsInv'
  <1>1. PICK D, E, J, K : D = Tables /\ E = Tables' /\ J = job /\ K = job'
    OBVIOUS
  <1>2. /\ TablesFit(D) /\ AllFit(D, J) /\ EditsRepair(D, J)
        /\ K = [x \in Workers |-> K[x]] /\ \A x \in Workers \ {w} : K[x] = J[x]
        /\ DoesStatement(D, E, J[w], K[w]) \/ BeginsReplay(D, E, J[w], K[w])
        /\ now' = now
    BY <1>1, StepIs DEF StepsInv
  <1>3. TablesFit(E) /\ AllFit(E, K)
    BY <1>2, WorkerFits
  <1>4. EditsRepair(E, K)
    BY <1>2, WorkerRepairs
  <1>5. QED
    BY <1>1, <1>2, <1>3, <1>4, TypesOf DEF StepsInv

\* The smallest of some positions.
LEMMA SmallestOf ==
    ASSUME NEW n \in Nat, NEW S, S \subseteq 1..n, S # {}
    PROVE  Min(S) \in S /\ \A y \in S : Min(S) <= y
  <1>1. IsFiniteSet(S)
    <2>1. IsFiniteSet(1..n)
      BY FS_Interval
    <2>2. QED
      BY <2>1, FS_Subset
  <1>2. PICK L : L = {p \in (1..n) \X (1..n) : p[1] <= p[2]}
    OBVIOUS
  <1>3. \A x, y \in 1..n : <<x, y>> \in L <=> x <= y
    BY <1>2
  <1>4. \A x, y \in S : <<x, y>> \in L \/ <<y, x>> \in L
    <2>1. \A x, y \in 1..n : x <= y \/ y <= x
      OBVIOUS
    <2>2. QED
      BY <1>3, <2>1
  <1>5. \A x, y, z \in S : <<x, y>> \in L /\ <<y, z>> \in L => <<x, z>> \in L
    <2>1. \A x, y, z \in 1..n : x <= y /\ y <= z => x <= z
      OBVIOUS
    <2>2. QED
      BY <1>3, <2>1
  <1>6. PICK x \in S : \A y \in S : <<x, y>> \in L
    BY <1>1, <1>4, <1>5, FirstOfAFiniteSet
  <1>7. \A y \in S : x <= y
    BY <1>3, <1>6
  <1>8. QED
    BY <1>7 DEF Min

\* What is left when a statement fails has been to come, and still fits.
LEMMA AbandonedFits ==
    ASSUME NEW D, NEW j, JobFits(D, j), j.todo # << >>,
           NEW q, q = Abandoned(j.todo[1], Tail(j.todo))
    PROVE  /\ \E n \in Nat : Within(q, j.todo, n)
           /\ MadeBefore(q, j.made)
  <1>1. PICK p, rest, s, l : p = j.todo /\ rest = Tail(p) /\ s = p[1] /\ l = Len(rest)
    OBVIOUS
  <1>2. /\ IsSequence(p) /\ j.made \in Seq(1..Len(D.txs)) /\ MadeBefore(p, j.made)
        /\ ReplaysLast(p) /\ \A i \in 1..Len(p) : Fits(D, p[i], j.accounts)
    BY <1>1 DEF JobFits, IsJob, TodoFits
  <1>3. /\ IsSequence(rest) /\ Len(p) \in Nat /\ Len(p) >= 1 /\ l = Len(p) - 1
        /\ \A i \in 1..l : rest[i] = p[i + 1]
    BY <1>1, <1>2, TailOf
  <1>4. CASE s.op \in {"rowBalance", "balance"}
    <2>1. PICK replays : replays = {i \in DOMAIN rest : rest[i].op = "replay"}
      OBVIOUS
    <2>2. DOMAIN rest = 1..l /\ l \in Nat
      BY <1>1, <1>3, SequenceIs
    <2>3. PICK m : m = Min(replays \cup {l + 1})
      OBVIOUS
    <2>4. m \in replays \cup {l + 1} /\ m \in 1..(l + 1)
      <3>1. l + 1 \in Nat /\ replays \cup {l + 1} \subseteq 1..(l + 1)
        BY <2>1, <2>2
      <3>2. m \in replays \cup {l + 1}
        BY <2>3, <3>1, SmallestOf
      <3>3. QED
        BY <3>1, <3>2
    <2>5. q = SubSeq(rest, m, Len(rest))
      BY <1>1, <1>4, <2>1, <2>3 DEF Abandoned
    <2>6. /\ IsSequence(q) /\ Len(q) = l - m + 1
          /\ \A i \in 1..Len(q) : m + i - 1 \in m..l /\ q[i] = rest[m + i - 1]
      <3>1. IsSequence(rest) /\ m \in 1..(Len(rest) + 1) /\ l = Len(rest)
        BY <1>1, <1>3, <2>4
      <3>2. /\ IsSequence(q) /\ Len(q) = Len(rest) - m + 1
            /\ \A i \in 1..Len(q) : m + i - 1 \in m..Len(rest) /\ q[i] = rest[m + i - 1]
        <4>1. Suffix(rest, m, q)
          BY <2>5, <3>1 DEF Suffix
        <4>2. QED
          BY <3>1, <4>1, SuffixOf
      <3>3. QED
        BY <3>1, <3>2
    <2>7. \A i \in 1..Len(q) : i + m \in 1..Len(p) /\ q[i] = p[i + m]
      <3>1. TAKE i \in 1..Len(q)
      <3>2. m + i - 1 \in 1..l /\ (m + i - 1) + 1 = i + m /\ i + m \in 1..Len(p)
        BY <1>3, <2>2, <2>4, <2>6
      <3>3. QED
        BY <1>3, <2>6, <3>2
    <2>8. Within(q, p, m)
      <3>1. Len(q) = Len(p) - m /\ m \in Nat
        <4>1. Len(q) = l - m + 1 /\ l = Len(p) - 1
          BY <1>3, <2>6
        <4>2. m \in Nat /\ Len(p) \in Nat
          BY <1>3, <2>2, <2>4
        <4>3. QED
          BY <4>1, <4>2
      <3>2. QED
        BY <1>2, <2>6, <2>7, <3>1 DEF Within
    <2>9. ASSUME NEW i \in 1..Len(q) PROVE q[i].op = "replay"
      <3>1. m \in replays
        BY <2>2, <2>4, <2>6
      <3>2. m \in 1..l /\ p[m + 1].op = "replay" /\ m + 1 \in 1..Len(p)
        BY <1>3, <2>1, <2>2, <3>1
      <3>3. i = 1 \/ m + 1 < i + m
        BY <2>4
      <3>4. CASE i = 1
        BY <2>4, <2>7, <3>2, <3>4
      <3>5. CASE m + 1 < i + m
        BY <1>2, <2>7, <3>2, <3>5 DEF ReplaysLast
      <3>6. QED
        BY <3>3, <3>4, <3>5
    <2>10. MadeBefore(q, j.made)
      BY <2>9 DEF MadeBefore, NeedsMine
    <2>11. m \in Nat
      BY <2>2, <2>4
    <2>12. QED
      BY <1>1, <2>8, <2>10, <2>11
  <1>5. CASE s.op \notin {"rowBalance", "balance"} /\ s.must
    <2>1. q = << >>
      BY <1>1, <1>5 DEF Abandoned
    <2>2. IsSequence(q) /\ Len(q) = 0
      <3>1. q \in Seq({0})
        BY <2>1, EmptySeq
      <3>2. QED
        BY <2>1, <3>1, SequenceOf
    <2>3. Within(q, p, Len(p)) /\ MadeBefore(q, j.made)
      BY <1>2, <1>3, <2>2 DEF Within, MadeBefore
    <2>4. QED
      BY <1>1, <1>3, <2>3
  <1>6. CASE s.op \notin {"rowBalance", "balance"} /\ ~s.must
    <2>1. q = rest
      BY <1>1, <1>6 DEF Abandoned
    <2>2. Within(q, p, 1)
      BY <1>1, <1>2, <2>1, TailWithin
    <2>3. s.op # "insert"
      BY <1>1, <1>2, <1>3, <1>6 DEF Fits
    <2>4. PICK n : n = Len(D.txs)
      OBVIOUS
    <2>5. ASSUME NEW i \in 1..Len(q)
          PROVE  /\ NeedsMine(q[i]) => j.made # << >> \/ (i > 1 /\ q[1].op = "insert")
                 /\ q[i].op = "link" =>
                       \/ Len(j.made) >= 2
                       \/ i > 1 /\ q[i - 1].op = "insert" /\ NeedsMine(q[i - 1])
      <3>1. i + 1 \in 1..Len(p) /\ q[i] = p[i + 1] /\ (i + 1) - 1 = i /\ i \in Nat /\ i >= 1
        BY <1>1, <1>3, <2>1
      <3>2. NeedsMine(q[i]) => j.made # << >>
        BY <1>1, <1>2, <2>3, <3>1 DEF MadeBefore
      <3>3. q[i].op = "link" => Len(j.made) >= 2 \/ (p[i].op = "insert" /\ NeedsMine(p[i]))
        BY <1>2, <3>1 DEF MadeBefore
      <3>4. i # 1 => i - 1 \in 1..Len(q) /\ q[i - 1] = p[i]
        <4>1. i # 1 => i - 1 \in 1..l /\ (i - 1) + 1 = i
          BY <1>1, <1>3, <2>1
        <4>2. QED
          BY <1>1, <1>3, <2>1, <4>1
      <3>5. i = 1 => p[i].op # "insert"
        BY <1>1, <2>3
      <3>6. QED
        BY <3>1, <3>2, <3>3, <3>4, <3>5
    <2>6. MadeBefore(q, j.made)
      BY <2>5 DEF MadeBefore
    <2>7. QED
      BY <1>1, <2>2, <2>6
  <1>7. QED
    BY <1>4, <1>5, <1>6

\* The request after a statement that failed.
GivenUp(j, q) == [j EXCEPT !.todo = q, !.calm = FALSE]

LEMMA GivenUpIs ==
    ASSUME NEW D, NEW j, IsJob(D, j), NEW q, NEW k, k = GivenUp(j, q)
    PROVE  k = [kind |-> j.kind, accounts |-> j.accounts, replays |-> j.replays,
                todo |-> q, made |-> j.made, calm |-> FALSE]
  <1>1. PICK r : r = [kind |-> j.kind, accounts |-> j.accounts, replays |-> j.replays,
                      todo |-> j.todo, made |-> j.made, calm |-> j.calm]
    OBVIOUS
  <1>2. j = r
    BY <1>1 DEF IsJob
  <1>3. PICK f : f = [r EXCEPT !.todo = q]
    OBVIOUS
  <1>4. f = [kind |-> j.kind, accounts |-> j.accounts, replays |-> j.replays,
             todo |-> q, made |-> j.made, calm |-> j.calm]
    BY <1>1, <1>3
  <1>5. [f EXCEPT !.calm = FALSE] = [kind |-> j.kind, accounts |-> j.accounts,
             replays |-> j.replays, todo |-> q, made |-> j.made, calm |-> FALSE]
    <2>1. PICK c : c = FALSE
      OBVIOUS
    <2>2. [f EXCEPT !.calm = c] = [kind |-> j.kind, accounts |-> j.accounts,
               replays |-> j.replays, todo |-> q, made |-> j.made, calm |-> c]
      BY <1>4
    <2>3. QED
      BY <2>1, <2>2
  <1>6. k = [f EXCEPT !.calm = FALSE]
    BY <1>2, <1>3 DEF GivenUp
  <1>7. QED
    BY <1>5, <1>6

\* It fits, and is apart from whatever it was apart from.
LEMMA GivenUpFits ==
    ASSUME NEW D, NEW j, JobFits(D, j), NEW q, NEW n \in Nat, Within(q, j.todo, n),
           MadeBefore(q, j.made), NEW k, k = GivenUp(j, q)
    PROVE  /\ JobFits(D, k) /\ k.accounts = j.accounts /\ ~k.calm
           /\ \A A : Apart(D, j, A) => Apart(D, k, A)
  <1>1. k = [kind |-> j.kind, accounts |-> j.accounts, replays |-> j.replays,
             todo |-> q, made |-> j.made, calm |-> FALSE]
    BY GivenUpIs DEF JobFits
  <1>2. /\ IsJob(D, j) /\ ReplaysLast(j.todo)
        /\ \A i \in 1..Len(j.todo) : Fits(D, j.todo[i], j.accounts)
    BY DEF JobFits, TodoFits
  <1>3. ReplaysLast(q) /\ \A i \in 1..Len(q) : Fits(D, q[i], j.accounts)
    BY <1>2, WithinFits
  <1>4. IsSequence(q)
    BY DEF Within
  <1>5. JobFits(D, k)
    BY <1>1, <1>2, <1>3, <1>4 DEF JobFits, IsJob, TodoFits
  <1>6. ASSUME NEW A, Apart(D, j, A) PROVE Apart(D, k, A)
    <2>1. SUFFICES ASSUME q # << >>
                   PROVE  /\ j.accounts \cap A = {}
                          /\ \A i \in 1..Len(q) : q[i].op \in RowOps /\ Live(D, q[i].id) =>
                                D.txs[q[i].id].account \notin A
      BY <1>1 DEF Apart
    <2>2. Len(q) \in Nat /\ Len(q) # 0
      BY <1>4, <2>1, SequenceIs
    <2>3. j.todo # << >>
      <3>1. IsSequence(j.todo) /\ Len(j.todo) \in Nat /\ Len(q) = Len(j.todo) - n
        BY SequenceIs DEF Within
      <3>2. Len(j.todo) # 0
        BY <2>2, <3>1
      <3>3. QED
        BY <3>1, <3>2, SequenceIs
    <2>4. \A i \in 1..Len(q) : i + n \in 1..Len(j.todo) /\ q[i] = j.todo[i + n]
      BY DEF Within
    <2>5. QED
      BY <1>6, <2>3, <2>4 DEF Apart
  <1>7. k.accounts = j.accounts /\ ~k.calm
    BY <1>1
  <1>8. QED
    BY <1>5, <1>6, <1>7

\* One request becomes one that repairs nothing and comes near no other one.
LEMMA OneDropsOut ==
    ASSUME NEW D, NEW J, AllFit(D, J), EditsRepair(D, J), NEW w \in Workers,
           NEW K, K = [x \in Workers |-> K[x]], \A x \in Workers \ {w} : K[x] = J[x],
           JobFits(D, K[w]), ~CalmEdit(K[w]), \A A : Apart(D, J[w], A) => Apart(D, K[w], A)
    PROVE  AllFit(D, K) /\ EditsRepair(D, K)
  <1>1. AllFit(D, K)
    BY DEF AllFit
  <1>2. SUFFICES ASSUME NEW v \in Workers, CalmEdit(K[v])
                 PROVE  /\ Repairs(D, K[v])
                        /\ \A x \in Workers \ {v} : Apart(D, K[x], K[v].accounts)
    BY <1>1 DEF EditsRepair
  <1>3. v # w /\ K[v] = J[v]
    BY <1>2
  <1>4. Repairs(D, J[v]) /\ \A x \in Workers \ {v} : Apart(D, J[x], J[v].accounts)
    BY <1>2, <1>3 DEF EditsRepair
  <1>5. QED
    BY <1>3, <1>4

\* A worker without a request.
LEMMA NoneFits ==
    ASSUME NEW D
    PROVE  /\ JobFits(D, None) /\ ~CalmEdit(None) /\ \A A : Apart(D, None, A)
  <1>1. PICK q : q = << >>
    OBVIOUS
  <1>2. q \in Seq({0}) /\ q \in Seq(1..Len(D.txs))
    BY <1>1, EmptySeq
  <1>3. IsSequence(q) /\ Len(q) = 0
    BY <1>1, <1>2, SequenceOf
  <1>4. PICK n : n = None
    OBVIOUS
  <1>5. n = [kind |-> "none", accounts |-> {}, replays |-> {}, todo |-> q, made |-> q, calm |-> TRUE]
    BY <1>1, <1>4 DEF None
  <1>6. IsJob(D, n)
    <2>1. n.calm \in BOOLEAN
      BY <1>5
    <2>2. n = [kind |-> n.kind, accounts |-> n.accounts, replays |-> n.replays,
               todo |-> n.todo, made |-> n.made, calm |-> n.calm]
      BY <1>5
    <2>3. QED
      BY <1>2, <1>3, <1>5, <2>1, <2>2 DEF IsJob
  <1>7. TodoFits(D, n)
    BY <1>3, <1>5 DEF TodoFits, MadeBefore, ReplaysLast
  <1>8. JobFits(D, n)
    BY <1>5, <1>6, <1>7 DEF JobFits
  <1>9. ~CalmEdit(n) /\ \A A : Apart(D, n, A)
    BY <1>1, <1>5 DEF CalmEdit, Apart
  <1>10. QED
    BY <1>4, <1>8, <1>9

\* Steps that leave the tables as they are.
LEMMA TablesKept ==
    ASSUME StepsInv, UNCHANGED vars, AllFit(Tables, job'), EditsRepair(Tables, job')
    PROVE  StepsInv'
  <1>1. PICK D, E, K : D = Tables /\ E = Tables' /\ K = job'
    OBVIOUS
  <1>2. E = D
    BY <1>1 DEF vars, Tables
  <1>3. TablesFit(E) /\ AllFit(E, K) /\ EditsRepair(E, K)
    BY <1>1, <1>2 DEF StepsInv
  <1>4. TypeOK'
    BY <1>1, <1>3, TypesOf DEF StepsInv, vars
  <1>5. QED
    BY <1>1, <1>3, <1>4 DEF StepsInv

LEMMA FailKeeps ==
    ASSUME StepsInv, NEW w \in Workers, FailStatement(w)
    PROVE  StepsInv'
  <1>1. PICK D, J, K, j, q : /\ D = Tables /\ J = job /\ K = job' /\ j = J[w]
                             /\ q = Abandoned(j.todo[1], Tail(j.todo))
    OBVIOUS
  <1>2. /\ AllFit(D, J) /\ EditsRepair(D, J) /\ JobFits(D, j) /\ j.todo # << >>
        /\ J = [x \in Workers |-> J[x]]
    BY <1>1 DEF StepsInv, AllFit, FailStatement, Working
  <1>3. Head(j.todo) = j.todo[1]
    BY <1>2, TailOf DEF JobFits, IsJob
  <1>4. K = [[J EXCEPT ![w] = [j EXCEPT !.todo = q]] EXCEPT ![w] = [@ EXCEPT !.calm = FALSE]]
    <2>1. K = [J EXCEPT ![w].todo = q, ![w].calm = FALSE]
      BY <1>1, <1>3 DEF FailStatement
    <2>2. QED
      BY <1>1, <2>1
  <1>5. K = [J EXCEPT ![w] = GivenUp(j, q)]
    BY <1>2, <1>4 DEF GivenUp
  <1>6. K = [x \in Workers |-> K[x]] /\ K[w] = GivenUp(j, q) /\ \A x \in Workers \ {w} : K[x] = J[x]
    BY <1>2, <1>5
  <1>7. PICK n \in Nat : Within(q, j.todo, n)
    BY <1>1, <1>2, AbandonedFits
  <1>8. MadeBefore(q, j.made)
    BY <1>1, <1>2, AbandonedFits
  <1>9. JobFits(D, K[w]) /\ ~K[w].calm /\ \A A : Apart(D, j, A) => Apart(D, K[w], A)
    BY <1>2, <1>6, <1>7, <1>8, GivenUpFits
  <1>10. AllFit(D, K) /\ EditsRepair(D, K)
    BY <1>1, <1>2, <1>6, <1>9, OneDropsOut DEF CalmEdit
  <1>11. QED
    BY <1>1, <1>10, TablesKept DEF FailStatement

LEMMA RespondKeeps ==
    ASSUME StepsInv, NEW w \in Workers, Respond(w)
    PROVE  StepsInv'
  <1>1. PICK D, J, K : D = Tables /\ J = job /\ K = job'
    OBVIOUS
  <1>2. AllFit(D, J) /\ EditsRepair(D, J) /\ J = [x \in Workers |-> J[x]]
    BY <1>1 DEF StepsInv, AllFit
  <1>3. K = [J EXCEPT ![w] = None]
    BY <1>1 DEF Respond
  <1>4. K = [x \in Workers |-> K[x]] /\ K[w] = None /\ \A x \in Workers \ {w} : K[x] = J[x]
    BY <1>2, <1>3
  <1>5. AllFit(D, K) /\ EditsRepair(D, K)
    BY <1>2, <1>4, NoneFits, OneDropsOut
  <1>6. QED
    BY <1>1, <1>5, TablesKept DEF Respond

LEMMA CrashKeeps ==
    ASSUME StepsInv, Crash
    PROVE  StepsInv'
  <1>1. PICK K : K = job'
    OBVIOUS
  <1>2. K = [w \in Workers |-> None]
    BY <1>1 DEF Crash
  <1>3. AllFit(Tables, K) /\ EditsRepair(Tables, K)
    BY <1>2, NoneFits DEF AllFit, EditsRepair
  <1>4. QED
    BY <1>1, <1>3, TablesKept DEF Crash

-----------------------------------------------------------------------------
(* Accounts come and go.                                                    *)

\* No row is written, and what an account holds stays once it has been opened.
AccountsChange(D, E) ==
    /\ E.txs = D.txs /\ E.newBalance = D.newBalance
    /\ \A a \in Accounts : D.acct[a].opened =>
          /\ E.acct[a].opened /\ E.initial[a] = D.initial[a] /\ E.balance[a] = D.balance[a]
          /\ D.acct[a].deleted => E.acct[a].deleted

AccountColumns(D) ==
    /\ D.acct \in [Accounts -> AccountState]
    /\ D.initial \in [Accounts -> Int] /\ D.balance \in [Accounts -> Int]

\* Account a is opened, with some balances.
Opens(D, E, a, b, i) ==
    /\ a \in Accounts /\ ~D.acct[a].opened /\ b \in Int /\ i \in Int
    /\ E.acct = [D.acct EXCEPT ![a].opened = TRUE]
    /\ E.initial = [D.initial EXCEPT ![a] = i] /\ E.balance = [D.balance EXCEPT ![a] = b]

LEMMA AccountOpens ==
    ASSUME NEW D, AccountColumns(D), NEW E, E.txs = D.txs, E.newBalance = D.newBalance,
           NEW a, NEW b, NEW i, Opens(D, E, a, b, i)
    PROVE  AccountColumns(E) /\ AccountsChange(D, E)
  <1>1. AccountColumns(E)
    <2>1. PICK state : state = [D.acct[a] EXCEPT !.opened = TRUE]
      OBVIOUS
    <2>2. state \in AccountState /\ a \in Accounts
      <3>1. a \in Accounts /\ D.acct[a] \in AccountState
        BY DEF AccountColumns, Opens
      <3>2. QED
        BY <2>1, <3>1 DEF AccountState
    <2>3. E.acct = [D.acct EXCEPT ![a] = state]
      BY <2>1 DEF Opens
    <2>4. E.initial \in [Accounts -> Int] /\ E.balance \in [Accounts -> Int]
      BY <2>2 DEF AccountColumns, Opens
    <2>5. QED
      BY <2>2, <2>3, <2>4 DEF AccountColumns
  <1>2. ASSUME NEW x \in Accounts, D.acct[x].opened
        PROVE  /\ E.acct[x] = D.acct[x] /\ E.initial[x] = D.initial[x]
               /\ E.balance[x] = D.balance[x]
    BY <1>2 DEF AccountColumns, Opens
  <1>3. QED
    BY <1>1, <1>2 DEF AccountsChange

\* Account a is deleted.
LEMMA AccountGoes ==
    ASSUME NEW D, AccountColumns(D), NEW a \in Accounts,
           NEW E, E.txs = D.txs, E.newBalance = D.newBalance,
           E.acct = [D.acct EXCEPT ![a].deleted = TRUE],
           E.initial = D.initial, E.balance = D.balance
    PROVE  AccountColumns(E) /\ AccountsChange(D, E)
  <1>1. AccountColumns(E)
    <2>1. PICK state : state = [D.acct[a] EXCEPT !.deleted = TRUE]
      OBVIOUS
    <2>2. state \in AccountState
      <3>1. D.acct[a] \in AccountState
        BY DEF AccountColumns
      <3>2. QED
        BY <2>1, <3>1 DEF AccountState
    <2>3. E.acct = [D.acct EXCEPT ![a] = state]
      BY <2>1
    <2>4. QED
      BY <2>2, <2>3 DEF AccountColumns
  <1>2. ASSUME NEW x \in Accounts, D.acct[x].opened
        PROVE  E.acct[x].opened /\ (D.acct[x].deleted => E.acct[x].deleted)
    BY <1>2 DEF AccountColumns, AccountState
  <1>3. QED
    BY <1>1, <1>2 DEF AccountsChange

LEMMA AccountTables ==
    ASSUME StepsInv, NEW u \in Users, AccountStatement(u)
    PROVE  TablesFit(Tables)' /\ AccountsChange(Tables, Tables') /\ now' = now /\ job' = job
  <1>1. PICK D, E : D = Tables /\ E = Tables'
    OBVIOUS
  <1>2. /\ D.acct = acct /\ D.initial = initial /\ D.balance = balance
        /\ D.txs = txs /\ D.newBalance = newBalance
        /\ E.acct = acct' /\ E.initial = initial' /\ E.balance = balance'
        /\ E.txs = txs' /\ E.newBalance = newBalance'
    BY <1>1 DEF Tables
  <1>3. TablesFit(D) /\ AccountColumns(D)
    BY <1>1 DEF StepsInv, TablesFit, AccountColumns
  <1>4. E.txs = D.txs /\ E.newBalance = D.newBalance /\ now' = now /\ job' = job
    BY <1>2 DEF AccountStatement, CreateAccount, DeleteAccount
  <1>5. AccountColumns(E) /\ AccountsChange(D, E)
    <2>1. ASSUME NEW a \in Accounts, NEW b \in Balances, NEW i \in Balances, CreateAccount(u, a, b, i)
          PROVE  AccountColumns(E) /\ AccountsChange(D, E)
      <3>1. b \in Int /\ i \in Int
        BY LedgerAssumption
      <3>2. /\ ~D.acct[a].opened /\ E.acct = [D.acct EXCEPT ![a].opened = TRUE]
            /\ E.initial = [D.initial EXCEPT ![a] = i] /\ E.balance = [D.balance EXCEPT ![a] = b]
        BY <1>2, <2>1 DEF CreateAccount
      <3>3. Opens(D, E, a, b, i)
        BY <3>1, <3>2 DEF Opens
      <3>4. QED
        BY <1>3, <1>4, <3>3, AccountOpens
    <2>2. ASSUME NEW a \in Accounts, DeleteAccount(u, a)
          PROVE  AccountColumns(E) /\ AccountsChange(D, E)
      <3>1. /\ E.acct = [D.acct EXCEPT ![a].deleted = TRUE]
            /\ E.initial = D.initial /\ E.balance = D.balance
        BY <1>2, <2>2 DEF DeleteAccount
      <3>2. QED
        BY <1>3, <1>4, <3>1, AccountGoes
    <2>3. QED
      BY <2>1, <2>2 DEF AccountStatement
  <1>6. TablesFit(E)
    <2>1. \A i \in 1..Len(D.txs) : D.acct[D.txs[i].account].opened /\ D.txs[i].account \in Accounts
      BY <1>3, TablesFacts DEF TablesFit
    <2>2. \A i \in 1..Len(D.txs) : E.acct[D.txs[i].account].opened
      BY <1>5, <2>1 DEF AccountsChange
    <2>3. QED
      BY <1>3, <1>4, <1>5, <2>2 DEF TablesFit, AccountColumns
  <1>7. QED
    BY <1>1, <1>4, <1>5, <1>6

\* What fits goes on fitting.
LEMMA AccountsChangeFits ==
    ASSUME NEW D, TablesFit(D), NEW E, AccountsChange(D, E), NEW j, JobFits(D, j)
    PROVE  JobFits(E, j) /\ LeavesAlone(D, E, j.accounts)
  <1>1. E.txs = D.txs /\ E.newBalance = D.newBalance
    BY DEF AccountsChange
  <1>2. IsJob(E, j) /\ j.accounts \subseteq Accounts
    BY <1>1 DEF JobFits, IsJob
  <1>3. TodoFits(E, j)
    <2>1. \A row : RowRead(D, row) => RowRead(E, row)
      BY <1>1 DEF RowRead
    <2>2. \A s : Fits(D, s, j.accounts) => Fits(E, s, j.accounts)
      BY <1>1, <2>1 DEF Fits
    <2>3. QED
      BY <2>2 DEF JobFits, TodoFits
  <1>4. \A a \in j.accounts :
          /\ D.acct[a].opened /\ E.acct[a].opened /\ (D.acct[a].deleted => E.acct[a].deleted)
          /\ E.initial[a] = D.initial[a] /\ E.balance[a] = D.balance[a]
    BY <1>2 DEF JobFits, AccountsChange
  <1>5. \A i \in 1..Len(D.txs) : KeptRow(D, E, i) /\ (Live(E, i) => Live(D, i))
    BY <1>1 DEF KeptRow, Live, SameEffect
  <1>6. Len(D.txs) <= Len(E.txs) /\ (Len(D.txs) + 1)..Len(E.txs) = {}
    BY <1>1, TablesFacts
  <1>7. LeavesAlone(D, E, j.accounts)
    BY <1>4, <1>5, <1>6 DEF LeavesAlone
  <1>8. JobFits(E, j)
    BY <1>2, <1>3, <1>4 DEF JobFits
  <1>9. QED
    BY <1>7, <1>8

LEMMA AccountKeeps ==
    ASSUME StepsInv, NEW u \in Users, AccountStatement(u)
    PROVE  StepsInv'
  <1>1. PICK D, E, J : D = Tables /\ E = Tables' /\ J = job
    OBVIOUS
  <1>2. /\ TablesFit(D) /\ AllFit(D, J) /\ EditsRepair(D, J)
        /\ TablesFit(E) /\ AccountsChange(D, E) /\ now' = now /\ job' = J
    BY <1>1, AccountTables DEF StepsInv
  <1>3. AllFit(E, J)
    BY <1>2, AccountsChangeFits DEF AllFit
  <1>4. ASSUME NEW w \in Workers, CalmEdit(J[w])
        PROVE  /\ Repairs(E, J[w])
               /\ \A x \in Workers \ {w} : Apart(E, J[x], J[w].accounts)
    <2>1. JobFits(D, J[w]) /\ \A x \in Workers : JobFits(D, J[x])
      BY <1>2 DEF AllFit
    <2>2. Repairs(D, J[w]) /\ \A x \in Workers \ {w} : Apart(D, J[x], J[w].accounts)
      BY <1>2, <1>4 DEF EditsRepair
    <2>3. LeavesAlone(D, E, J[w].accounts)
      BY <1>2, <2>1, AccountsChangeFits
    <2>4. Repairs(E, J[w])
      BY <1>2, <2>1, <2>2, <2>3, AloneRepairs
    <2>5. \A x \in Workers \ {w} : Apart(E, J[x], J[w].accounts)
      BY <2>1, <2>2, <2>3, AloneApart
    <2>6. QED
      BY <2>4, <2>5
  <1>5. EditsRepair(E, J)
    BY <1>4 DEF EditsRepair
  <1>6. QED
    BY <1>1, <1>2, <1>3, <1>5, TypesOf DEF StepsInv

-----------------------------------------------------------------------------
(* Requests start.                                                          *)

\* What a request on accounts A is going to do when it starts ...
Planned(D, A, R, q) ==
    /\ A \subseteq Accounts /\ R \subseteq A /\ \A a \in A : D.acct[a].opened
    /\ IsSequence(q) /\ \A i \in 1..Len(q) : Fits(D, q[i], A)
    /\ MadeBefore(q, << >>) /\ ReplaysLast(q)
    /\ \A i \in 1..Len(q) :
          q[i].op \in RowOps /\ Live(D, q[i].id) => D.txs[q[i].id].account \in A

\* ... and what an edit is going to do besides.
PlannedEdit(R, q) ==
    /\ Ordered(q, R)
    /\ \A a \in R : Awaits(q, a)
    /\ q # << >> => q[1].op \notin {"rowBalance", "balance"}

\* The request that starts.
NewJob(kind, A, R, q, calm) ==
    [kind |-> kind, accounts |-> A, replays |-> R, todo |-> q, made |-> << >>, calm |-> calm]

LEMMA NewJobFits ==
    ASSUME NEW D, NEW A, NEW R, NEW q, Planned(D, A, R, q), NEW kind, NEW calm \in BOOLEAN,
           kind \in {"update", "delete"} => PlannedEdit(R, q),
           NEW n, n = NewJob(kind, A, R, q, calm)
    PROVE  /\ JobFits(D, n) /\ AtHome(D, n) /\ n.accounts = A /\ (n.calm <=> calm)
           /\ CalmEdit(n) => Repairs(D, n)
  <1>1. PICK m : m = << >>
    OBVIOUS
  <1>2. n = [kind |-> kind, accounts |-> A, replays |-> R, todo |-> q, made |-> m, calm |-> calm]
    BY <1>1 DEF NewJob
  <1>3. m \in Seq(1..Len(D.txs))
    BY <1>1, EmptySeq
  <1>4. n = [kind |-> n.kind, accounts |-> n.accounts, replays |-> n.replays,
             todo |-> n.todo, made |-> n.made, calm |-> n.calm]
    BY <1>2
  <1>5. IsJob(D, n)
    BY <1>2, <1>3, <1>4 DEF IsJob, Planned
  <1>6. TodoFits(D, n)
    BY <1>1, <1>2 DEF TodoFits, Planned
  <1>7. JobFits(D, n)
    BY <1>2, <1>5, <1>6 DEF JobFits, Planned
  <1>8. AtHome(D, n)
    BY <1>2 DEF AtHome, Planned
  <1>9. ASSUME CalmEdit(n) PROVE Repairs(D, n)
    <2>1. PlannedEdit(R, q)
      BY <1>2, <1>9 DEF CalmEdit
    <2>2. QED
      BY <1>2, <1>8, <2>1 DEF PlannedEdit, Repairs, Begun, Repaired
  <1>10. QED
    BY <1>2, <1>7, <1>8, <1>9

\* A request that another one disturbs.
LEMMA DisturbedFits ==
    ASSUME NEW D, NEW j, JobFits(D, j), NEW k, k = [j EXCEPT !.calm = FALSE]
    PROVE  /\ JobFits(D, k) /\ k.accounts = j.accounts /\ ~k.calm
           /\ \A A : Apart(D, j, A) => Apart(D, k, A)
  <1>1. PICK r, c : /\ r = [kind |-> j.kind, accounts |-> j.accounts, replays |-> j.replays,
                            todo |-> j.todo, made |-> j.made, calm |-> j.calm]
                    /\ c = FALSE
    OBVIOUS
  <1>2. j = r
    BY <1>1 DEF JobFits, IsJob
  <1>3. [r EXCEPT !.calm = c] = [kind |-> j.kind, accounts |-> j.accounts,
             replays |-> j.replays, todo |-> j.todo, made |-> j.made, calm |-> c]
    BY <1>1
  <1>4. k = [kind |-> j.kind, accounts |-> j.accounts, replays |-> j.replays,
             todo |-> j.todo, made |-> j.made, calm |-> c]
    BY <1>1, <1>2, <1>3
  <1>5. JobFits(D, k)
    BY <1>1, <1>4 DEF JobFits, IsJob, TodoFits
  <1>6. \A A : Apart(D, j, A) => Apart(D, k, A)
    BY <1>4 DEF Apart
  <1>7. QED
    BY <1>1, <1>4, <1>5, <1>6

\* Request n of worker w starts, and disturbs those that work on its accounts.
Starts(J, K, w, n) ==
    K = [v \in Workers |->
            IF v = w THEN n
            ELSE IF J[v].accounts \cap n.accounts # {} THEN [J[v] EXCEPT !.calm = FALSE]
            ELSE J[v]]

LEMMA StartsRepairs ==
    ASSUME NEW D, NEW J, AllFit(D, J), EditsRepair(D, J), NEW w \in Workers,
           NEW n, JobFits(D, n), AtHome(D, n), CalmEdit(n) => Repairs(D, n),
           n.calm => \A x \in Workers \ {w} : Apart(D, J[x], n.accounts),
           NEW K, Starts(J, K, w, n)
    PROVE  AllFit(D, K) /\ EditsRepair(D, K)
  <1>1. K = [x \in Workers |-> K[x]] /\ K[w] = n
    BY DEF Starts
  <1>2. ASSUME NEW x \in Workers \ {w}
        PROVE  \/ K[x] = J[x] /\ J[x].accounts \cap n.accounts = {}
               \/ K[x] = [J[x] EXCEPT !.calm = FALSE]
    BY DEF Starts
  <1>3. ASSUME NEW x \in Workers \ {w}
        PROVE  /\ JobFits(D, K[x]) /\ K[x].accounts = J[x].accounts
               /\ \A A : Apart(D, J[x], A) => Apart(D, K[x], A)
               /\ K[x].calm => K[x] = J[x] /\ J[x].accounts \cap n.accounts = {}
    BY <1>2, DisturbedFits DEF AllFit
  <1>4. AllFit(D, K)
    BY <1>1, <1>3 DEF AllFit
  <1>5. SUFFICES ASSUME NEW v \in Workers, CalmEdit(K[v])
                 PROVE  /\ Repairs(D, K[v])
                        /\ \A x \in Workers \ {v} : Apart(D, K[x], K[v].accounts)
    BY <1>4 DEF EditsRepair
  <1>6. CASE v = w
    <2>1. n.calm /\ Repairs(D, n)
      BY <1>1, <1>5, <1>6 DEF CalmEdit
    <2>2. \A x \in Workers \ {w} : Apart(D, K[x], n.accounts)
      BY <1>3, <2>1
    <2>3. QED
      BY <1>1, <1>6, <2>1, <2>2
  <1>7. CASE v # w
    <2>1. K[v] = J[v] /\ J[v].accounts \cap n.accounts = {} /\ CalmEdit(J[v])
      BY <1>3, <1>5, <1>7 DEF CalmEdit
    <2>2. Repairs(D, J[v]) /\ \A x \in Workers \ {v} : Apart(D, J[x], J[v].accounts)
      BY <2>1 DEF EditsRepair
    <2>3. Apart(D, n, J[v].accounts)
      BY <2>1 DEF Apart, AtHome
    <2>4. \A x \in Workers \ {v, w} : Apart(D, K[x], J[v].accounts)
      BY <1>3, <2>2
    <2>5. QED
      BY <1>1, <1>7, <2>1, <2>2, <2>3, <2>4
  <1>8. QED
    BY <1>6, <1>7

\* What Reach is for.
LEMMA ReachApart ==
    ASSUME StepsInv, NEW x \in Workers, NEW A, Reach(x) \cap A = {}
    PROVE  Apart(Tables, job[x], A)
  <1>1. PICK j, q : j = job[x] /\ q = j.todo
    OBVIOUS
  <1>2. IsSequence(q)
    BY <1>1 DEF StepsInv, AllFit, JobFits, IsJob
  <1>3. Len(q) \in Nat /\ DOMAIN q = 1..Len(q)
    BY <1>2, SequenceIs
  <1>4. SUFFICES ASSUME q # << >>
                 PROVE  /\ j.accounts \cap A = {}
                        /\ \A i \in 1..Len(q) : q[i].op \in RowOps /\ Live(Tables, q[i].id) =>
                              Tables.txs[q[i].id].account \notin A
    BY <1>1 DEF Apart
  <1>5. Reach(x) = j.accounts \cup {txs[i].account : i \in Writes(x)}
    BY <1>1, <1>4 DEF Reach, Working
  <1>6. ASSUME NEW i \in 1..Len(q), q[i].op \in RowOps, Live(Tables, q[i].id)
        PROVE  q[i].id \in Writes(x)
    <2>1. q[i] \in {s \in ToSet(q) : s.op \in {"update", "delete", "rowBalance"}}
      BY <1>3, <1>6 DEF ToSet, RowOps
    <2>2. ~txs[q[i].id].deleted
      BY <1>6 DEF Live, Tables
    <2>3. QED
      BY <1>1, <2>1, <2>2 DEF Writes
  <1>7. \A i \in 1..Len(q) : q[i].op \in RowOps /\ Live(Tables, q[i].id) =>
            txs[q[i].id].account \in Reach(x)
    BY <1>5, <1>6
  <1>8. QED
    BY <1>5, <1>7 DEF Tables

LEMMA StartKeeps ==
    ASSUME StepsInv, NEW w \in Workers, NEW kind, NEW A, NEW R, NEW q, Start(w, kind, A, R, q),
           Planned(Tables, A, R, q), kind \in {"update", "delete"} => PlannedEdit(R, q)
    PROVE  StepsInv'
  <1>1. PICK D, J, K : D = Tables /\ J = job /\ K = job'
    OBVIOUS
  <1>2. PICK calm \in BOOLEAN : calm = \A x \in Workers \ {w} : Reach(x) \cap A = {}
    OBVIOUS
  <1>3. PICK n : n = NewJob(kind, A, R, q, calm)
    OBVIOUS
  <1>4. /\ JobFits(D, n) /\ AtHome(D, n) /\ n.accounts = A /\ (n.calm <=> calm)
        /\ CalmEdit(n) => Repairs(D, n)
    BY <1>1, <1>3, NewJobFits
  <1>5. Starts(J, K, w, n)
    BY <1>1, <1>2, <1>3, <1>4 DEF Start, Starts, NewJob
  <1>6. n.calm => \A x \in Workers \ {w} : Apart(D, J[x], n.accounts)
    BY <1>1, <1>2, <1>4, ReachApart
  <1>7. AllFit(D, K) /\ EditsRepair(D, K)
    BY <1>1, <1>4, <1>5, <1>6, StartsRepairs DEF StepsInv
  <1>8. QED
    BY <1>1, <1>7, TablesKept DEF Start

-----------------------------------------------------------------------------
(* What an edit is going to do.                                             *)

\* Statements h write rows of accounts A.
WritesRows(D, h, A) ==
    /\ IsSequence(h)
    /\ \A i \in 1..Len(h) :
          /\ h[i].op \in EditOps /\ Fits(D, h[i], A)
          /\ NeedsMine(h[i]) => i > 1 /\ h[1].op = "insert"
          /\ h[i].op \in RowOps /\ Live(D, h[i].id) => D.txs[h[i].id].account \in A

\* Statements r replay accounts A.
ReplaysAll(r, A) ==
    /\ IsSequence(r)
    /\ \A i \in 1..Len(r) : r[i].op = "replay" /\ r[i].account \in A
    /\ \A a \in A : \E i \in 1..Len(r) : IsReplay(r[i], a)

LEMMA EditPlanned ==
    ASSUME NEW D, NEW A, A \subseteq Accounts, \A a \in A : D.acct[a].opened,
           NEW h, WritesRows(D, h, A), NEW r, ReplaysAll(r, A), NEW q, q = h \o r
    PROVE  Planned(D, A, A, q) /\ PlannedEdit(A, q)
  <1>1. PICK n : n = Len(h)
    OBVIOUS
  <1>2. Joined(h, r, q)
    BY JoinOf DEF WritesRows, ReplaysAll
  <1>3. /\ IsSequence(q) /\ n \in Nat /\ Len(r) \in Nat /\ Len(q) = n + Len(r)
        /\ \A i \in 1..n : q[i] = h[i]
        /\ \A i \in 1..Len(r) : q[n + i] = r[i]
        /\ \A i \in 1..Len(q) : IF i <= n THEN q[i] = h[i]
                                 ELSE i - n \in 1..Len(r) /\ q[i] = r[i - n]
    BY <1>1, <1>2 DEF Joined
  <1>4. ASSUME NEW i \in 1..Len(q), i <= n
        PROVE  /\ q[i].op \in EditOps /\ Fits(D, q[i], A)
               /\ NeedsMine(q[i]) => i > 1 /\ q[1].op = "insert"
               /\ q[i].op \in RowOps /\ Live(D, q[i].id) => D.txs[q[i].id].account \in A
    <2>1. i \in 1..n /\ q[i] = h[i] /\ 1 \in 1..n /\ q[1] = h[1]
      BY <1>3, <1>4
    <2>2. QED
      BY <1>1, <2>1 DEF WritesRows
  <1>5. ASSUME NEW i \in 1..Len(q), ~(i <= n)
        PROVE  q[i].op = "replay" /\ q[i].account \in A /\ Fits(D, q[i], A) /\ ~NeedsMine(q[i])
    <2>1. i - n \in 1..Len(r) /\ q[i] = r[i - n]
      BY <1>3, <1>5
    <2>2. q[i].op = "replay" /\ q[i].account \in A
      BY <2>1 DEF ReplaysAll
    <2>3. QED
      BY <2>2 DEF Fits, Ops, EditOps, RowOps, NeedsMine
  <1>6. \A i \in 1..Len(q) : Fits(D, q[i], A)
    BY <1>4, <1>5
  <1>7. MadeBefore(q, << >>)
    <2>1. ASSUME NEW i \in 1..Len(q)
          PROVE  /\ NeedsMine(q[i]) => i > 1 /\ q[1].op = "insert"
                 /\ q[i].op # "link"
      BY <1>4, <1>5 DEF EditOps
    <2>2. QED
      BY <2>1 DEF MadeBefore
  <1>8. ReplaysLast(q)
    <2>1. SUFFICES ASSUME NEW i \in 1..Len(q), NEW k \in 1..Len(q), i < k, q[i].op = "replay"
                   PROVE  q[k].op = "replay"
      BY DEF ReplaysLast
    <2>2. ~(i <= n)
      BY <1>4, <2>1 DEF EditOps
    <2>3. ~(k <= n)
      BY <1>3, <2>1, <2>2
    <2>4. QED
      BY <1>5, <2>3
  <1>9. \A i \in 1..Len(q) :
          q[i].op \in RowOps /\ Live(D, q[i].id) => D.txs[q[i].id].account \in A
    BY <1>4, <1>5 DEF RowOps
  <1>10. Planned(D, A, A, q)
    BY <1>3, <1>6, <1>7, <1>8, <1>9 DEF Planned
  <1>11. ASSUME NEW a \in A
         PROVE  \E k \in 1..Len(q) : ~(k <= n) /\ IsReplay(q[k], a)
    <2>1. PICK i \in 1..Len(r) : IsReplay(r[i], a)
      BY DEF ReplaysAll
    <2>2. n + i \in 1..Len(q) /\ ~(n + i <= n) /\ q[n + i] = r[i]
      BY <1>3
    <2>3. QED
      BY <2>1, <2>2
  <1>12. Ordered(q, A)
    <2>1. SUFFICES ASSUME NEW i \in 1..Len(q)
                   PROVE  /\ q[i].op # "link" /\ q[i].op # "balance"
                          /\ q[i].op \in EditOps =>
                                /\ \A a \in A : \E k \in (i + 1)..Len(q) : IsReplay(q[k], a)
                                /\ \A k \in (i + 1)..Len(q) : q[k].op \in EditOps \cup {"replay"}
                          /\ q[i].op = "replay" => q[i].account \in A
      BY DEF Ordered
    <2>2. /\ q[i].op # "link" /\ q[i].op # "balance"
          /\ q[i].op = "replay" => q[i].account \in A
      BY <1>4, <1>5 DEF EditOps
    <2>3. ASSUME q[i].op \in EditOps, NEW a \in A
          PROVE  \E k \in (i + 1)..Len(q) : IsReplay(q[k], a)
      <3>1. i <= n
        BY <1>5, <2>3 DEF EditOps
      <3>2. PICK k \in 1..Len(q) : ~(k <= n) /\ IsReplay(q[k], a)
        BY <1>11
      <3>3. k \in (i + 1)..Len(q)
        BY <1>3, <3>1, <3>2
      <3>4. QED
        BY <3>2, <3>3
    <2>4. \A k \in (i + 1)..Len(q) : q[k].op \in EditOps \cup {"replay"}
      <3>1. TAKE k \in (i + 1)..Len(q)
      <3>2. k \in 1..Len(q)
        BY <1>3
      <3>3. QED
        BY <1>4, <1>5, <3>2
    <2>5. QED
      BY <2>2, <2>3, <2>4
  <1>13. \A a \in A : Awaits(q, a)
    BY <1>11 DEF Awaits
  <1>14. q # << >> => q[1].op \notin {"rowBalance", "balance"}
    <2>1. q # << >> => 1 \in 1..Len(q)
      BY <1>3, SequenceIs
    <2>2. QED
      BY <1>4, <1>5, <2>1 DEF EditOps
  <1>15. QED
    BY <1>10, <1>12, <1>13, <1>14 DEF PlannedEdit

\* One replay for every element of a sequence of accounts.
LEMMA ReplaysOf ==
    ASSUME NEW order, IsSequence(order),
           NEW r, r = [k \in DOMAIN order |-> Replay(order[k])]
    PROVE  ReplaysAll(r, ToSet(order))
  <1>1. PICK n : n = Len(order)
    OBVIOUS
  <1>2. n \in Nat /\ DOMAIN order = 1..n
    BY <1>1, SequenceIs
  <1>3. r \in [1..n -> {Replay(order[k]) : k \in 1..n}]
        /\ \A k \in 1..n : r[k] = Replay(order[k])
    BY <1>2
  <1>4. r \in Seq({Replay(order[k]) : k \in 1..n})
    BY <1>2, <1>3, SeqDef
  <1>5. IsSequence(r) /\ Len(r) = n
    BY <1>2, <1>3, <1>4, SequenceOf, LenProperties
  <1>6. \A k \in 1..n : r[k].op = "replay" /\ r[k].account = order[k] /\ order[k] \in ToSet(order)
    BY <1>2, <1>3 DEF Replay, ToSet
  <1>7. ASSUME NEW a \in ToSet(order) PROVE \E k \in 1..n : IsReplay(r[k], a)
    <2>1. PICK k \in 1..n : a = order[k]
      BY <1>2 DEF ToSet
    <2>2. QED
      BY <1>6, <2>1 DEF IsReplay
  <1>8. QED
    BY <1>5, <1>6, <1>7 DEF ReplaysAll

\* A list of a set has the elements of the set.
LEMMA ListsSet ==
    ASSUME NEW S, IsFiniteSet(S), NEW order \in SetToSeqs(S)
    PROVE  IsSequence(order) /\ ToSet(order) = S
  <1>1. PICK n : n = Cardinality(S)
    OBVIOUS
  <1>2. n \in Nat
    BY <1>1, FS_CardinalityType
  <1>3. order \in [1..n -> S] /\ \A i, k \in 1..n : i # k => order[i] # order[k]
    BY <1>1 DEF SetToSeqs
  <1>4. order \in Seq(S) /\ DOMAIN order = 1..n
    BY <1>2, <1>3, SeqDef
  <1>5. order \in Injection(1..n, S)
    BY <1>3 DEF Injection, IsInjective
  <1>6. Cardinality(1..n) = n
    BY <1>2, FS_Interval
  <1>7. order \in Surjection(1..n, S)
    BY <1>1, <1>5, <1>6, FS_Injection
  <1>8. \A a \in S : \E i \in 1..n : order[i] = a
    BY <1>7 DEF Surjection
  <1>9. ToSet(order) = S
    BY <1>3, <1>4, <1>8 DEF ToSet
  <1>10. QED
    BY <1>4, <1>9, SequenceOf

-----------------------------------------------------------------------------
(* The statements of the requests.                                          *)

LEMMA RowsRead ==
    ASSUME NEW D, NEW row \in Row, row.linked \in (0..Len(D.txs)) \cup {Mine}
    PROVE  RowRead(D, row)
  BY DEF RowRead, Row

LEMMA InsertFits ==
    ASSUME NEW D, NEW row, RowRead(D, row), NEW A, row.account \in A, NEW value \in Int,
           NEW s, s = Insert(row, value)
    PROVE  /\ Fits(D, s, A) /\ s.op = "insert" /\ (NeedsMine(s) <=> row.linked = Mine)
  <1>1. s.op = "insert" /\ s.row = row /\ s.value = value /\ s.must
    BY DEF Insert
  <1>2. QED
    BY <1>1 DEF Fits, Ops, EditOps, RowOps, NeedsMine

LEMMA UpdateFits ==
    ASSUME TablesFit(Tables), NEW id \in 1..Len(txs), NEW row, RowRead(Tables, row),
           NEW A, row.account \in A, NEW s, s = Update(id, row)
    PROVE  /\ Fits(Tables, s, A) /\ s.op = "update" /\ s.id = id
           /\ NeedsMine(s) <=> row.linked = Mine
  <1>1. s.op = "update" /\ s.row = row /\ s.value = newBalance[id] /\ s.id = id
    BY DEF Update
  <1>2. newBalance[id] \in Int /\ Len(Tables.txs) = Len(txs)
    <2>1. Tables.txs = txs /\ Tables.newBalance = newBalance
      BY DEF Tables
    <2>2. QED
      BY <2>1, TablesFacts
  <1>3. QED
    BY <1>1, <1>2 DEF Fits, Ops, EditOps, RowOps, NeedsMine

Deletes(s, id) == s = Delete(id, TRUE) \/ s = Delete(id, FALSE)

LEMMA DeleteFits ==
    ASSUME NEW D, NEW id \in 1..Len(D.txs), NEW A, NEW s, Deletes(s, id)
    PROVE  Fits(D, s, A) /\ s.op = "delete" /\ s.id = id /\ ~NeedsMine(s)
  <1>1. s.op = "delete" /\ s.id = id
    BY DEF Deletes, Delete
  <1>2. QED
    BY <1>1 DEF Fits, Ops, EditOps, RowOps, NeedsMine

LEMMA SetBalanceFits ==
    ASSUME NEW D, NEW A, NEW a \in A, NEW value \in Int, NEW s, s = SetBalance(a, value)
    PROVE  Fits(D, s, A) /\ s.op = "balance" /\ ~NeedsMine(s)
  <1>1. s.op = "balance" /\ s.account = a /\ s.value = value
    BY DEF SetBalance
  <1>2. QED
    BY <1>1 DEF Fits, Ops, EditOps, RowOps, NeedsMine

LEMMA LinkFits ==
    ASSUME NEW D, NEW A, NEW s, s = UpdateLinkedID
    PROVE  Fits(D, s, A) /\ s.op = "link" /\ ~NeedsMine(s)
  <1>1. s.op = "link"
    BY DEF UpdateLinkedID
  <1>2. QED
    BY <1>1 DEF Fits, Ops, EditOps, RowOps, NeedsMine

\* What the tables are to the lemmas of LedgerProofs.
LEMMA TablesNow ==
    ASSUME StepsInv
    PROVE  /\ TypeOK /\ TablesFit(Tables) /\ Len(txs) \in Nat /\ DOMAIN txs = 1..Len(txs)
           /\ Tables.txs = txs /\ Tables.acct = acct
           /\ \A i \in 1..Len(txs) :
                 /\ txs[i] \in Row /\ txs[i].account \in Accounts /\ acct[txs[i].account].opened
                 /\ txs[i].linked \in 0..Len(txs)
           /\ \A a \in Accounts : balance[a] \in Int
  <1>1. Tables.txs = txs /\ Tables.acct = acct /\ Tables.balance = balance
    BY DEF Tables
  <1>2. TypeOK /\ TablesFit(Tables)
    BY DEF StepsInv
  <1>3. QED
    BY <1>1, <1>2, TablesFacts DEF TablesFit

\* Two rows are inserted, and linked; or one.
LEMMA CreatePlanned ==
    ASSUME StepsInv, NEW u \in Users, NEW in \in Inputs, MayUse(u, in.account),
           HasTarget(in) => MayUse(u, in.target),
           NEW A, A = {in.account} \cup IF HasTarget(in) THEN {in.target} ELSE {}
    PROVE  Planned(Tables, A, {}, CreateStatements(u, in))
  <1>1. PICK D, a, b, p : /\ D = Tables
                          /\ a = Insert(SourceRow(u, in), SourceBalance(u, in))
                          /\ b = SetBalance(in.account, SourceBalance(u, in))
                          /\ p = << a, b >>
    OBVIOUS
  <1>2. /\ in.account \in Accounts /\ in.amount \in Int /\ in.isIncome \in BOOLEAN
        /\ in.isTransfer \in BOOLEAN /\ in.isAdjustment \in BOOLEAN
        /\ DateOf(in) \in Int /\ TargetAmountOf(in) \in Int
        /\ in.target \in Accounts \cup {NoAccount}
    BY TablesNow, InputFacts
  <1>3. HasTarget(in) => in.target \in Accounts
    BY <1>2 DEF HasTarget
  <1>4. A \subseteq Accounts /\ (\A x \in A : acct[x].opened) /\ in.account \in A
    BY <1>2, <1>3 DEF MayUse, Visible
  <1>5. SourceRow(u, in) \in Row /\ SourceRow(u, in).linked = NoTx
        /\ SourceRow(u, in).account = in.account
    BY <1>2 DEF SourceRow, Row, NoTx
  <1>6. SourceBalance(u, in) \in Int
    <2>1. balance[in.account] \in Int
      BY <1>2, TablesNow
    <2>2. QED
      BY <1>2, <2>1 DEF SourceBalance, Apply, SourceRow
  <1>7. Fits(D, a, A) /\ a.op = "insert" /\ ~NeedsMine(a)
    <2>1. SourceRow(u, in).linked \in 0..Len(D.txs) /\ SourceRow(u, in).linked # Mine
      BY <1>1, <1>5, TablesNow DEF NoTx, Mine
    <2>2. RowRead(D, SourceRow(u, in))
      BY <1>5, <2>1, RowsRead
    <2>3. QED
      BY <1>1, <1>4, <1>5, <1>6, <2>1, <2>2, InsertFits
  <1>8. Fits(D, b, A) /\ b.op = "balance" /\ ~NeedsMine(b)
    BY <1>1, <1>4, <1>6, SetBalanceFits
  <1>9. IsSequence(p) /\ Len(p) = 2 /\ p[1] = a /\ p[2] = b
    <2>1. p \in Seq({a, b})
      BY <1>1
    <2>2. QED
      BY <1>1, <2>1, SequenceOf
  <1>10. CASE ~HasTarget(in)
    <2>1. CreateStatements(u, in) = p
      BY <1>1, <1>10 DEF CreateStatements
    <2>2. \A i \in 1..Len(p) : /\ Fits(D, p[i], A) /\ ~NeedsMine(p[i])
                               /\ p[i].op \in {"insert", "balance"}
      <3>1. \A i \in 1..Len(p) : i = 1 \/ i = 2
        BY <1>9
      <3>2. QED
        BY <1>7, <1>8, <1>9, <3>1
    <2>3. MadeBefore(p, << >>)
      BY <2>2 DEF MadeBefore
    <2>4. ReplaysLast(p)
      BY <2>2 DEF ReplaysLast
    <2>5. Planned(D, A, {}, p)
      BY <1>1, <1>4, <1>9, <2>2, <2>3, <2>4, TablesNow DEF Planned, RowOps
    <2>6. QED
      BY <1>1, <2>1, <2>5
  <1>11. CASE HasTarget(in)
    <2>1. PICK c, d, e, o, q : /\ c = Insert(LinkedRow(u, in, Mine), TargetBalance(in))
                               /\ d = UpdateLinkedID /\ e = SetBalance(in.target, TargetBalance(in))
                               /\ o = << c, d, e >> /\ q = p \o o
      OBVIOUS
    <2>2. CreateStatements(u, in) = q
      BY <1>1, <1>11, <2>1 DEF CreateStatements
    <2>3. TargetBalance(in) \in Int
      <3>1. balance[in.target] \in Int
        BY <1>3, <1>11, TablesNow
      <3>2. QED
        BY <1>2, <3>1 DEF TargetBalance
    <2>4. Fits(D, c, A) /\ c.op = "insert"
      <3>1. /\ LinkedRow(u, in, Mine).linked = Mine /\ LinkedRow(u, in, Mine).account = in.target
            /\ \A n \in Nat : [LinkedRow(u, in, Mine) EXCEPT !.linked = n] \in Row
        BY <1>2, <1>3, <1>11 DEF LinkedRow, Row
      <3>2. RowRead(D, LinkedRow(u, in, Mine))
        BY <3>1 DEF RowRead
      <3>3. in.target \in A
        BY <1>11
      <3>4. QED
        BY <2>1, <2>3, <3>1, <3>2, <3>3, InsertFits
    <2>5. NeedsMine(c)
      BY <2>1 DEF NeedsMine, Insert, LinkedRow
    <2>6. Fits(D, d, A) /\ d.op = "link" /\ ~NeedsMine(d)
      BY <2>1, LinkFits
    <2>7. Fits(D, e, A) /\ e.op = "balance" /\ ~NeedsMine(e)
      <3>1. in.target \in A
        BY <1>11
      <3>2. QED
        BY <2>1, <2>3, <3>1, SetBalanceFits
    <2>8. IsSequence(o) /\ Len(o) = 3 /\ o[1] = c /\ o[2] = d /\ o[3] = e
      <3>1. o \in Seq({c, d, e})
        BY <2>1
      <3>2. QED
        BY <2>1, <3>1, SequenceOf
    <2>9. Joined(p, o, q)
      BY <1>9, <2>1, <2>8, JoinOf
    <2>10. /\ IsSequence(q) /\ Len(q) = 5 /\ q[1] = a /\ q[2] = b /\ q[3] = c /\ q[4] = d /\ q[5] = e
      <3>1. /\ IsSequence(q) /\ Len(q) = Len(p) + Len(o)
            /\ \A i \in 1..Len(p) : q[i] = p[i]
            /\ \A i \in 1..Len(o) : q[Len(p) + i] = o[i]
        BY <2>9 DEF Joined
      <3>2. q[1] = p[1] /\ q[2] = p[2]
        BY <1>9, <3>1
      <3>3. q[2 + 1] = o[1] /\ q[2 + 2] = o[2] /\ q[2 + 3] = o[3]
        BY <1>9, <2>8, <3>1
      <3>4. QED
        BY <1>9, <2>8, <3>1, <3>2, <3>3
    <2>11. \A i \in 1..Len(q) : i \in {1, 2, 3, 4, 5}
      BY <2>10
    <2>12. \A i \in 1..Len(q) : Fits(D, q[i], A) /\ q[i].op \in {"insert", "balance", "link"}
      BY <1>7, <1>8, <2>4, <2>6, <2>7, <2>10, <2>11
    <2>13. \A i \in 1..Len(q) : NeedsMine(q[i]) => i = 3
      BY <1>7, <1>8, <2>6, <2>7, <2>10, <2>11
    <2>14. \A i \in 1..Len(q) : q[i].op = "link" => i = 4
      BY <1>7, <1>8, <2>4, <2>7, <2>10, <2>11
    <2>15. MadeBefore(q, << >>)
      BY <1>7, <2>4, <2>5, <2>10, <2>13, <2>14 DEF MadeBefore
    <2>16. ReplaysLast(q)
      BY <2>12 DEF ReplaysLast
    <2>17. Planned(D, A, {}, q)
      BY <1>1, <1>4, <2>10, <2>12, <2>15, <2>16, TablesNow DEF Planned, RowOps
    <2>18. QED
      BY <1>1, <2>2, <2>17
  <1>12. QED
    BY <1>10, <1>11

LEMMA AdjustPlanned ==
    ASSUME StepsInv, NEW u \in Users, NEW a \in Accounts, MayUse(u, a), NEW value \in Int,
           NEW q, q = << Insert(AdjustmentRow(a, balance[a], value), value), SetBalance(a, value) >>
    PROVE  Planned(Tables, {a}, {}, q)
  <1>1. PICK D, row, s, b : /\ D = Tables /\ row = AdjustmentRow(a, balance[a], value)
                            /\ s = Insert(row, value) /\ b = SetBalance(a, value)
    OBVIOUS
  <1>2. AdjustmentRow(a, balance[a], value).amount \in Int
    BY TablesNow DEF AdjustmentRow
  <1>3. row \in Row /\ row.linked = NoTx /\ row.account = a
    BY <1>1, <1>2, TablesNow, AdjustmentRowFacts
  <1>4. row.linked \in 0..Len(D.txs) /\ row.linked # Mine
    BY <1>1, <1>3, TablesNow DEF NoTx, Mine
  <1>5. RowRead(D, row)
    BY <1>3, <1>4, RowsRead
  <1>6. Fits(D, s, {a}) /\ s.op = "insert" /\ ~NeedsMine(s)
    BY <1>1, <1>3, <1>4, <1>5, InsertFits
  <1>7. Fits(D, b, {a}) /\ b.op = "balance" /\ ~NeedsMine(b)
    BY <1>1, SetBalanceFits
  <1>8. IsSequence(q) /\ Len(q) = 2 /\ q[1] = s /\ q[2] = b
    <2>1. q = << s, b >>
      BY <1>1
    <2>2. q \in Seq({s, b}) /\ Len(q) = 2 /\ q[1] = s /\ q[2] = b
      BY <2>1
    <2>3. QED
      BY <2>2, SequenceOf
  <1>9. \A i \in 1..Len(q) : i = 1 \/ i = 2
    BY <1>8
  <1>10. \A i \in 1..Len(q) : /\ Fits(D, q[i], {a}) /\ ~NeedsMine(q[i])
                              /\ q[i].op \in {"insert", "balance"}
    BY <1>6, <1>7, <1>8, <1>9
  <1>11. MadeBefore(q, << >>) /\ ReplaysLast(q)
    BY <1>10 DEF MadeBefore, ReplaysLast
  <1>12. D.acct[a].opened
    BY <1>1, TablesNow DEF MayUse, Visible
  <1>13. QED
    BY <1>1, <1>8, <1>10, <1>11, <1>12 DEF Planned, RowOps

\* One or two statements.
LEMMA OneWrites ==
    ASSUME NEW D, NEW A, NEW s, s.op \in EditOps, Fits(D, s, A), ~NeedsMine(s),
           s.op \in RowOps /\ Live(D, s.id) => D.txs[s.id].account \in A,
           NEW h, h = << s >>
    PROVE  WritesRows(D, h, A)
  <1>1. h \in Seq({s}) /\ Len(h) = 1 /\ h[1] = s
    OBVIOUS
  <1>2. IsSequence(h)
    BY <1>1, SequenceOf
  <1>3. \A i \in 1..Len(h) : i = 1
    BY <1>1
  <1>4. QED
    BY <1>1, <1>2, <1>3 DEF WritesRows

\* h is statement s and then statement t.
Pair(h, s, t) == IsSequence(h) /\ Len(h) = 2 /\ h[1] = s /\ h[2] = t

LEMMA PairOf ==
    ASSUME NEW s, NEW t, NEW h, h = << s, t >>
    PROVE  Pair(h, s, t)
  <1>1. h \in Seq({s, t}) /\ Len(h) = 2 /\ h[1] = s /\ h[2] = t
    OBVIOUS
  <1>2. QED
    BY <1>1, SequenceOf DEF Pair

LEMMA PairJoined ==
    ASSUME NEW s, NEW t, NEW h, h = << s >> \o << t >>
    PROVE  Pair(h, s, t)
  <1>1. PICK p, q : p = << s >> /\ q = << t >>
    OBVIOUS
  <1>2. p \in Seq({s}) /\ Len(p) = 1 /\ p[1] = s /\ q \in Seq({t}) /\ Len(q) = 1 /\ q[1] = t
    BY <1>1
  <1>3. IsSequence(p) /\ IsSequence(q)
    BY <1>2, SequenceOf
  <1>4. Joined(p, q, h)
    BY <1>1, <1>3, JoinOf
  <1>5. IsSequence(h) /\ Len(h) = Len(p) + Len(q) /\ (\A i \in 1..Len(p) : h[i] = p[i])
        /\ \A i \in 1..Len(q) : h[Len(p) + i] = q[i]
    BY <1>4 DEF Joined
  <1>6. Len(h) = 2 /\ h[1] = s /\ h[2] = t
    BY <1>2, <1>5
  <1>7. QED
    BY <1>5, <1>6 DEF Pair

LEMMA TwoWrite ==
    ASSUME NEW D, NEW A, NEW s, s.op \in EditOps, Fits(D, s, A), ~NeedsMine(s),
           s.op \in RowOps /\ Live(D, s.id) => D.txs[s.id].account \in A,
           NEW t, t.op \in EditOps, Fits(D, t, A), NeedsMine(t) => s.op = "insert",
           t.op \in RowOps /\ Live(D, t.id) => D.txs[t.id].account \in A,
           NEW h, Pair(h, s, t)
    PROVE  WritesRows(D, h, A)
  <1>1. IsSequence(h) /\ Len(h) = 2 /\ h[1] = s /\ h[2] = t
    BY DEF Pair
  <1>2. \A i \in 1..Len(h) : i = 1 \/ i = 2
    BY <1>1
  <1>3. QED
    BY <1>1, <1>2 DEF WritesRows

\* What an update may count on.
LEMMA UpdateFacts ==
    ASSUME StepsInv, NEW u \in Users, NEW id \in DOMAIN txs, NEW in \in Inputs,
           UpdateGuard(u, id, in),
           LET writesLeg == in.isTransfer /\ (txs[id].isTransfer => HasLinked(txs[id]))
           IN  writesLeg /\ in.target # NoAccount => MayUse(u, in.target)
    PROVE  /\ id \in 1..Len(txs)
           /\ Replayed(id, in) \subseteq Accounts /\ IsFiniteSet(Replayed(id, in))
           /\ \A a \in Replayed(id, in) : acct[a].opened
           /\ {in.account, txs[id].account} \subseteq Replayed(id, in)
           /\ HasLinked(txs[id]) => /\ txs[id].linked \in 1..Len(txs)
                                    /\ txs[txs[id].linked].account \in Replayed(id, in)
           /\ HasTarget(in) /\ (txs[id].isTransfer => HasLinked(txs[id])) =>
                 in.target \in Replayed(id, in)
  <1>1. id \in 1..Len(txs) /\ txs[id].account \in Accounts /\ acct[txs[id].account].opened
        /\ txs[id].linked \in 0..Len(txs)
    BY TablesNow
  <1>2. in.account \in Accounts /\ acct[in.account].opened
    BY DEF UpdateGuard, MayUse, Visible
  <1>3. HasLinked(txs[id]) => /\ txs[id].linked \in 1..Len(txs)
                              /\ txs[txs[id].linked].account \in Accounts
                              /\ acct[txs[txs[id].linked].account].opened
    <2>1. HasLinked(txs[id]) => txs[id].linked # 0
      BY DEF HasLinked, NoTx
    <2>2. HasLinked(txs[id]) => txs[id].linked \in 1..Len(txs)
      BY <1>1, <2>1, TablesNow
    <2>3. QED
      BY <2>2, TablesNow
  <1>4. HasTarget(in) /\ (txs[id].isTransfer => HasLinked(txs[id])) =>
            in.target \in Accounts /\ acct[in.target].opened
    BY DEF HasTarget, MayUse, Visible
  <1>5. \A a \in Replayed(id, in) : a \in Accounts /\ acct[a].opened
    BY <1>1, <1>2, <1>3, <1>4 DEF Replayed, TouchedBy
  <1>6. IsFiniteSet(Replayed(id, in))
    BY <1>5, LedgerAssumption, FS_Subset
  <1>7. QED
    BY <1>1, <1>3, <1>5, <1>6 DEF Replayed, TouchedBy

\* The edited row, with another link.
Relinked(row, id, in, link) ==
    /\ link \in {txs[id].linked, NoTx, Mine}
    /\ row = [Edited(id, in) EXCEPT !.linked = link]

LEMMA EditedRead ==
    ASSUME StepsInv, NEW in \in Inputs, NEW id \in 1..Len(txs), NEW link,
           NEW row, Relinked(row, id, in, link)
    PROVE  RowRead(Tables, row) /\ row.account = in.account /\ row.linked = link
  <1>1. PICK e : e = Edited(id, in)
    OBVIOUS
  <1>2. e \in Row /\ e.account = in.account
    BY <1>1, TablesNow, EditedRow
  <1>3. row = [e EXCEPT !.linked = link] /\ link \in {txs[id].linked, NoTx, Mine}
    BY <1>1 DEF Relinked
  <1>4. row.account = in.account /\ row.linked = link /\ \A n \in Nat : [row EXCEPT !.linked = n] \in Row
    BY <1>2, <1>3 DEF Row
  <1>5. link \in (0..Len(txs)) \cup {Mine}
    BY <1>3, TablesNow DEF NoTx
  <1>6. QED
    BY <1>4, <1>5, TablesNow DEF RowRead

LEMMA EditedAsItIs ==
    ASSUME StepsInv, NEW in \in Inputs, NEW id \in 1..Len(txs)
    PROVE  /\ RowRead(Tables, Edited(id, in)) /\ Edited(id, in).account = in.account
           /\ Edited(id, in).linked # Mine
  <1>1. PICK e : e = Edited(id, in)
    OBVIOUS
  <1>2. e \in Row /\ e.account = in.account /\ e.linked = txs[id].linked
    BY <1>1, TablesNow, EditedRow
  <1>3. e.linked \in 0..Len(Tables.txs) /\ e.linked # Mine
    BY <1>2, TablesNow DEF Mine
  <1>4. RowRead(Tables, e)
    BY <1>2, <1>3, RowsRead
  <1>5. QED
    BY <1>1, <1>2, <1>3, <1>4

\* What an update writes before it replays.
LEMMA UpdateWrites ==
    ASSUME StepsInv, NEW u \in Users, NEW id \in DOMAIN txs, NEW in \in Inputs,
           UpdateGuard(u, id, in),
           LET writesLeg == in.isTransfer /\ (txs[id].isTransfer => HasLinked(txs[id]))
           IN  writesLeg /\ in.target # NoAccount => MayUse(u, in.target)
    PROVE  WritesRows(Tables, UpdateStatements(u, id, in), Replayed(id, in))
  <1>1. PICK D, A, row, link, e : /\ D = Tables /\ A = Replayed(id, in) /\ row = txs[id]
                                  /\ link = row.linked /\ e = Edited(id, in)
    OBVIOUS
  <1>2. /\ id \in 1..Len(txs) /\ {in.account, row.account} \subseteq A /\ A \subseteq Accounts
        /\ HasLinked(row) => link \in 1..Len(txs) /\ txs[link].account \in A
        /\ HasTarget(in) /\ (row.isTransfer => HasLinked(row)) => in.target \in A
    BY <1>1, UpdateFacts
  <1>3. /\ D.txs = txs /\ TablesFit(D) /\ TypeOK
        /\ row.isTransfer \in BOOLEAN /\ in.isTransfer \in BOOLEAN
    BY <1>1, <1>2, TablesNow, InputFacts DEF Row
  <1>4. ASSUME NEW r, RowRead(D, r), r.account \in A, NEW s, s = Update(id, r)
        PROVE  /\ s.op \in EditOps /\ Fits(D, s, A) /\ (NeedsMine(s) <=> r.linked = Mine)
               /\ s.op \in RowOps /\ Live(D, s.id) => D.txs[s.id].account \in A
    <2>1. /\ Fits(D, s, A) /\ s.op = "update" /\ s.id = id
          /\ NeedsMine(s) <=> r.linked = Mine
      BY <1>1, <1>2, <1>3, <1>4, UpdateFits
    <2>2. QED
      BY <1>1, <1>2, <1>3, <2>1 DEF EditOps
  <1>5. CASE row.isTransfer /\ ~in.isTransfer
    <2>1. PICK r, t : r = [e EXCEPT !.linked = NoTx] /\ t = Update(id, r)
      OBVIOUS
    <2>2. RowRead(D, r) /\ r.account \in A /\ r.linked # Mine
      <3>1. PICK none : none = NoTx
        OBVIOUS
      <3>2. Relinked(r, id, in, none)
        BY <1>1, <2>1, <3>1 DEF Relinked
      <3>3. RowRead(Tables, r) /\ r.account = in.account /\ r.linked = none
        BY <1>2, <3>2, EditedRead
      <3>4. QED
        BY <1>1, <1>2, <3>1, <3>3 DEF NoTx, Mine
    <2>3. /\ t.op \in EditOps /\ Fits(D, t, A) /\ ~NeedsMine(t)
          /\ t.op \in RowOps /\ Live(D, t.id) => D.txs[t.id].account \in A
      BY <1>4, <2>1, <2>2
    <2>4. UpdateStatements(u, id, in) =
              (IF HasLinked(row) THEN << Delete(link, FALSE) >> ELSE << >>) \o << t >>
      BY <1>1, <1>5, <2>1 DEF UpdateStatements
    <2>5. CASE HasLinked(row)
      <3>1. PICK s : s = Delete(link, FALSE)
        OBVIOUS
      <3>2. Fits(D, s, A) /\ s.op = "delete" /\ s.id = link /\ ~NeedsMine(s)
        <4>1. link \in 1..Len(D.txs) /\ Deletes(s, link)
          BY <1>2, <1>3, <2>5, <3>1 DEF Deletes
        <4>2. QED
          BY <4>1, DeleteFits
      <3>3. D.txs[s.id].account \in A /\ s.op \in EditOps
        BY <1>2, <1>3, <2>5, <3>2 DEF EditOps
      <3>4. PICK h : h = << s >> \o << t >>
        OBVIOUS
      <3>5. UpdateStatements(u, id, in) = h /\ Pair(h, s, t)
        BY <2>4, <2>5, <3>1, <3>4, PairJoined
      <3>6. WritesRows(D, h, A)
        BY <2>3, <3>2, <3>3, <3>5, TwoWrite
      <3>7. QED
        BY <1>1, <3>5, <3>6
    <2>6. CASE ~HasLinked(row)
      <3>1. UpdateStatements(u, id, in) = << t >>
        BY <2>4, <2>6
      <3>2. WritesRows(D, << t >>, A)
        BY <2>3, OneWrites
      <3>3. QED
        BY <1>1, <3>1, <3>2
    <2>7. QED
      BY <2>5, <2>6
  <1>6. PICK t : t = Update(id, e)
    OBVIOUS
  <1>7. /\ t.op \in EditOps /\ Fits(D, t, A) /\ ~NeedsMine(t)
        /\ t.op \in RowOps /\ Live(D, t.id) => D.txs[t.id].account \in A
    <2>1. RowRead(D, e) /\ e.account \in A /\ e.linked # Mine
      BY <1>1, <1>2, EditedAsItIs
    <2>2. QED
      BY <1>4, <1>6, <2>1
  <1>8. CASE row.isTransfer /\ in.isTransfer /\ HasLinked(row)
    <2>1. PICK target, m, s :
              /\ target = IF in.target # NoAccount THEN in.target ELSE txs[link].account
              /\ m = [txs[link] EXCEPT !.account = target, !.amount = TargetAmountOf(in),
                                       !.date = DateOf(in), !.isIncome = TRUE,
                                       !.isTransfer = TRUE]
              /\ s = Update(link, m)
      OBVIOUS
    <2>2. target \in A /\ target \in Accounts
      BY <1>2, <1>8, <2>1 DEF HasTarget
    <2>3. link \in 1..Len(txs) /\ txs[link] \in Row /\ txs[link].linked \in 0..Len(txs)
      BY <1>2, <1>8, TablesNow
    <2>4. m \in Row /\ m.account = target /\ m.linked = txs[link].linked
      <3>1. TargetAmountOf(in) \in Int /\ DateOf(in) \in Int
        BY <1>3, InputFacts
      <3>2. QED
        BY <2>1, <2>2, <2>3, <3>1 DEF Row
    <2>5. RowRead(D, m) /\ m.linked # Mine
      BY <1>3, <2>3, <2>4, RowsRead DEF Mine
    <2>6. Fits(D, s, A) /\ s.op = "update" /\ s.id = link /\ ~NeedsMine(s)
      <3>1. RowRead(Tables, m) /\ m.account \in A /\ TablesFit(Tables)
        BY <1>1, <1>3, <2>2, <2>4, <2>5
      <3>2. s = Update(link, m) /\ link \in 1..Len(txs)
        BY <2>1, <2>3
      <3>3. /\ Fits(Tables, s, A) /\ s.op = "update" /\ s.id = link
            /\ NeedsMine(s) <=> m.linked = Mine
        BY <3>1, <3>2, UpdateFits
      <3>4. QED
        BY <1>1, <2>5, <3>3
    <2>7. D.txs[s.id].account \in A /\ s.op \in EditOps
      BY <1>2, <1>3, <1>8, <2>6 DEF EditOps
    <2>8. PICK h : h = << s, t >>
      OBVIOUS
    <2>9. UpdateStatements(u, id, in) = h /\ Pair(h, s, t)
      <3>1. UpdateStatements(u, id, in) = << s, t >>
        BY <1>1, <1>6, <1>8, <2>1 DEF UpdateStatements
      <3>2. QED
        BY <2>8, <3>1, PairOf
    <2>10. WritesRows(D, h, A)
      BY <1>7, <2>6, <2>7, <2>9, TwoWrite
    <2>11. QED
      BY <1>1, <2>9, <2>10
  <1>9. CASE ~row.isTransfer /\ HasTarget(in)
    <2>1. PICK s, r, v : /\ s = Insert(LinkedRow(u, in, id), TargetBalance(in))
                         /\ r = [e EXCEPT !.linked = Mine] /\ v = Update(id, r)
      OBVIOUS
    <2>2. in.target \in A /\ in.target \in Accounts
      BY <1>2, <1>9
    <2>3. TargetBalance(in) \in Int
      <3>1. balance[in.target] \in Int /\ TargetAmountOf(in) \in Int
        BY <1>3, <2>2, TablesNow, InputFacts
      <3>2. QED
        BY <3>1 DEF TargetBalance
    <2>4. /\ LinkedRow(u, in, id) \in Row /\ LinkedRow(u, in, id).account = in.target
          /\ LinkedRow(u, in, id).linked = id
      <3>1. id \in Nat
        BY <1>2, TablesNow
      <3>2. QED
        BY <1>3, <2>2, <3>1, InputFacts DEF LinkedRow, Row
    <2>5. id \in 0..Len(D.txs) /\ id # Mine
      BY <1>2, <1>3, TablesNow DEF Mine
    <2>6. RowRead(D, LinkedRow(u, in, id))
      BY <2>4, <2>5, RowsRead
    <2>7. Fits(D, s, A) /\ s.op = "insert" /\ ~NeedsMine(s)
      BY <2>1, <2>2, <2>3, <2>4, <2>5, <2>6, InsertFits
    <2>8. RowRead(D, r) /\ r.account \in A
      <3>1. Relinked(r, id, in, Mine)
        BY <1>1, <2>1 DEF Relinked
      <3>2. RowRead(Tables, r) /\ r.account = in.account
        BY <1>2, <3>1, EditedRead
      <3>3. QED
        BY <1>1, <1>2, <3>2
    <2>9. /\ v.op \in EditOps /\ Fits(D, v, A)
          /\ v.op \in RowOps /\ Live(D, v.id) => D.txs[v.id].account \in A
      BY <1>4, <2>1, <2>8
    <2>10. PICK h : h = << s, v >>
      OBVIOUS
    <2>11. UpdateStatements(u, id, in) = h /\ Pair(h, s, v)
      <3>1. UpdateStatements(u, id, in) = << s, v >>
        BY <1>1, <1>9, <2>1 DEF UpdateStatements
      <3>2. QED
        BY <2>10, <3>1, PairOf
    <2>12. s.op \in EditOps /\ s.op \notin RowOps
      BY <2>7 DEF EditOps, RowOps
    <2>13. WritesRows(D, h, A)
      BY <2>7, <2>9, <2>11, <2>12, TwoWrite
    <2>14. QED
      BY <1>1, <2>11, <2>13
  <1>10. CASE /\ ~(row.isTransfer /\ ~in.isTransfer)
              /\ ~(row.isTransfer /\ in.isTransfer /\ HasLinked(row))
              /\ ~(~row.isTransfer /\ HasTarget(in))
    <2>1. UpdateStatements(u, id, in) = << t >>
      BY <1>1, <1>6, <1>10 DEF UpdateStatements
    <2>2. WritesRows(D, << t >>, A)
      BY <1>7, OneWrites
    <2>3. QED
      BY <1>1, <2>1, <2>2
  <1>11. QED
    BY <1>5, <1>8, <1>9, <1>10

LEMMA StartUpdateKeeps ==
    ASSUME StepsInv, NEW w \in Workers, NEW u \in Users, NEW id \in DOMAIN txs, NEW in \in Inputs,
           StartUpdate(w, u, id, in)
    PROVE  StepsInv'
  <1>1. /\ UpdateGuard(u, id, in)
        /\ LET writesLeg == in.isTransfer /\ (txs[id].isTransfer => HasLinked(txs[id]))
           IN  writesLeg /\ in.target # NoAccount => MayUse(u, in.target)
    BY DEF StartUpdate
  <1>2. PICK A, h : A = Replayed(id, in) /\ h = UpdateStatements(u, id, in)
    OBVIOUS
  <1>3. A \subseteq Accounts /\ IsFiniteSet(A) /\ \A a \in A : acct[a].opened
    BY <1>1, <1>2, UpdateFacts
  <1>4. WritesRows(Tables, h, A)
    BY <1>1, <1>2, UpdateWrites
  <1>5. PICK order \in SetToSeqs(A) :
            Start(w, "update", A, A, h \o [k \in DOMAIN order |-> Replay(order[k])])
    BY <1>2 DEF StartUpdate
  <1>6. PICK r, q : r = [k \in DOMAIN order |-> Replay(order[k])] /\ q = h \o r
    OBVIOUS
  <1>7. ReplaysAll(r, A)
    BY <1>3, <1>6, ListsSet, ReplaysOf
  <1>8. Planned(Tables, A, A, q) /\ PlannedEdit(A, q)
    BY <1>3, <1>4, <1>6, <1>7, TablesNow, EditPlanned
  <1>9. Start(w, "update", A, A, q)
    BY <1>5, <1>6
  <1>10. QED
    BY <1>8, <1>9, StartKeeps

-----------------------------------------------------------------------------
(* A deletion starts.                                                       *)

\* What a deletion may count on.
LEMMA DeleteFacts ==
    ASSUME StepsInv, NEW id \in DOMAIN txs
    PROVE  /\ id \in 1..Len(txs) /\ txs[id].account \in Accounts /\ acct[txs[id].account].opened
           /\ txs[id].linked # NoTx => txs[id].linked \in 1..Len(txs)
           /\ HasLinked(txs[id]) => /\ txs[id].linked \in 1..Len(txs)
                                    /\ txs[txs[id].linked].account \in Accounts
                                    /\ acct[txs[txs[id].linked].account].opened
  <1>1. /\ id \in 1..Len(txs) /\ txs[id].account \in Accounts /\ acct[txs[id].account].opened
        /\ txs[id].linked \in 0..Len(txs) /\ Len(txs) \in Nat
    BY TablesNow
  <1>2. PICK link : link = txs[id].linked
    OBVIOUS
  <1>3. link # NoTx => link \in 1..Len(txs)
    BY <1>1, <1>2 DEF NoTx
  <1>4. HasLinked(txs[id]) => link # NoTx
    BY <1>2 DEF HasLinked
  <1>5. HasLinked(txs[id]) => link \in 1..Len(txs) /\ txs[link].account \in Accounts
                              /\ acct[txs[link].account].opened
    BY <1>3, <1>4, TablesNow
  <1>6. QED
    BY <1>1, <1>2, <1>3, <1>5

\* The accounts a deletion of a row replays, the other leg being on account x.
Affected(row, x, order) ==
    order = << row.account >> \o IF HasLinked(row) THEN << x >> ELSE << >>

LEMMA DeleteOrder ==
    ASSUME NEW x, NEW row, NEW order, Affected(row, x, order)
    PROVE  /\ IsSequence(order) /\ row.account \in ToSet(order)
           /\ ToSet(order) = {row.account} \cup IF HasLinked(row) THEN {x} ELSE {}
  <1>1. PICK p, other : /\ p = << row.account >>
                        /\ other = IF HasLinked(row) THEN << x >> ELSE << >>
    OBVIOUS
  <1>2. p \in Seq({row.account}) /\ Len(p) = 1 /\ p[1] = row.account
    BY <1>1
  <1>3. other \in Seq({x}) /\ (HasLinked(row) => Len(other) = 1 /\ other[1] = x)
        /\ (~HasLinked(row) => Len(other) = 0)
    <2>1. << x >> \in Seq({x}) /\ Len(<< x >>) = 1 /\ << x >>[1] = x
      OBVIOUS
    <2>2. << >> \in Seq({x}) /\ Len(<< >>) = 0
      BY EmptySeq
    <2>3. CASE HasLinked(row)
      <3>1. other = << x >>
        BY <1>1, <2>3
      <3>2. QED
        BY <2>1, <2>3, <3>1
    <2>4. CASE ~HasLinked(row)
      <3>1. other = << >>
        BY <1>1, <2>4
      <3>2. QED
        BY <2>2, <2>4, <3>1
    <2>5. QED
      BY <2>3, <2>4
  <1>4. IsSequence(p) /\ IsSequence(other)
    BY <1>2, <1>3, SequenceOf
  <1>5. Joined(p, other, order)
    BY <1>1, <1>4, JoinOf DEF Affected
  <1>6. /\ IsSequence(order) /\ Len(order) = Len(p) + Len(other)
        /\ \A i \in 1..Len(p) : order[i] = p[i]
        /\ \A i \in 1..Len(other) : order[Len(p) + i] = other[i]
    BY <1>5 DEF Joined
  <1>7. DOMAIN order = 1..Len(order)
    BY <1>6, SequenceIs
  <1>8. CASE HasLinked(row)
    <2>1. Len(order) = 2 /\ order[1] = row.account /\ order[2] = x
      <3>1. Len(p) = 1 /\ Len(other) = 1 /\ p[1] = row.account /\ other[1] = x
        BY <1>2, <1>3, <1>8
      <3>2. order[1] = p[1] /\ order[Len(p) + 1] = other[1]
        BY <1>6, <3>1
      <3>3. QED
        BY <1>6, <3>1, <3>2
    <2>2. DOMAIN order = {1, 2}
      BY <1>7, <2>1
    <2>3. QED
      BY <1>6, <1>8, <2>1, <2>2 DEF ToSet
  <1>9. CASE ~HasLinked(row)
    <2>1. Len(order) = 1 /\ order[1] = row.account
      BY <1>2, <1>3, <1>6, <1>9
    <2>2. DOMAIN order = {1}
      BY <1>7, <2>1
    <2>3. QED
      BY <1>6, <1>9, <2>1, <2>2 DEF ToSet
  <1>10. QED
    BY <1>8, <1>9

\* What a deletion writes before it replays.
LEMMA DeletionWrites ==
    ASSUME StepsInv, NEW id \in DOMAIN txs, NEW A, txs[id].account \in A,
           HasLinked(txs[id]) => txs[txs[id].linked].account \in A
    PROVE  WritesRows(Tables, DeleteStatements(id), A)
  <1>1. PICK D, row, link : D = Tables /\ row = txs[id] /\ link = row.linked
    OBVIOUS
  <1>2. /\ id \in 1..Len(D.txs) /\ D.txs = txs /\ row.account \in A
        /\ link # NoTx => link \in 1..Len(D.txs)
        /\ row.isTransfer /\ link # NoTx /\ ~txs[link].deleted => txs[link].account \in A
    BY <1>1, DeleteFacts, TablesNow DEF HasLinked
  <1>3. PICK s, t : s = Delete(id, TRUE) /\ t = Delete(link, FALSE)
    OBVIOUS
  <1>4. /\ s.op \in EditOps /\ Fits(D, s, A) /\ ~NeedsMine(s)
        /\ s.op \in RowOps /\ Live(D, s.id) => D.txs[s.id].account \in A
    <2>1. Fits(D, s, A) /\ s.op = "delete" /\ s.id = id /\ ~NeedsMine(s)
      <3>1. id \in 1..Len(D.txs) /\ Deletes(s, id)
        BY <1>2, <1>3 DEF Deletes
      <3>2. QED
        BY <3>1, DeleteFits
    <2>2. QED
      BY <1>1, <1>2, <2>1 DEF EditOps
  <1>5. CASE row.isTransfer /\ link # NoTx
    <2>1. Fits(D, t, A) /\ t.op = "delete" /\ t.id = link /\ ~NeedsMine(t)
      <3>1. link \in 1..Len(D.txs) /\ Deletes(t, link)
        BY <1>2, <1>3, <1>5 DEF Deletes
      <3>2. QED
        BY <3>1, DeleteFits
    <2>2. /\ t.op \in EditOps
          /\ t.op \in RowOps /\ Live(D, t.id) => D.txs[t.id].account \in A
      BY <1>2, <1>5, <2>1 DEF EditOps, Live
    <2>3. PICK h : h = << s >> \o << t >>
      OBVIOUS
    <2>4. DeleteStatements(id) = h /\ Pair(h, s, t)
      <3>1. DeleteStatements(id) = << s >> \o << t >>
        BY <1>1, <1>3, <1>5 DEF DeleteStatements
      <3>2. QED
        BY <2>3, <3>1, PairJoined
    <2>5. WritesRows(D, h, A)
      BY <1>4, <2>1, <2>2, <2>4, TwoWrite
    <2>6. QED
      BY <1>1, <2>4, <2>5
  <1>6. CASE ~(row.isTransfer /\ link # NoTx)
    <2>1. DeleteStatements(id) = << s >>
      <3>1. DeleteStatements(id) = << s >> \o << >>
        BY <1>1, <1>3, <1>6 DEF DeleteStatements
      <3>2. << s >> \in Seq({s})
        OBVIOUS
      <3>3. QED
        BY <3>1, <3>2, ConcatEmptySeq
    <2>2. PICK h : h = << s >>
      OBVIOUS
    <2>3. WritesRows(D, h, A)
      BY <1>4, <2>2, OneWrites
    <2>4. QED
      BY <1>1, <2>1, <2>2, <2>3
  <1>7. QED
    BY <1>5, <1>6

LEMMA StartDeleteKeeps ==
    ASSUME StepsInv, NEW w \in Workers, NEW u \in Users, NEW id \in DOMAIN txs,
           StartDelete(w, u, id)
    PROVE  StepsInv'
  <1>1. PICK x, row, order, h, r, q, A :
            /\ row = txs[id] /\ x = txs[row.linked].account
            /\ order = << row.account >> \o IF HasLinked(row) THEN << x >> ELSE << >>
            /\ h = DeleteStatements(id)
            /\ r = [k \in DOMAIN order |-> Replay(order[k])]
            /\ q = h \o r /\ A = ToSet(order)
    OBVIOUS
  <1>2. Start(w, "delete", A, A, q)
    BY <1>1 DEF StartDelete
  <1>3. IsSequence(order) /\ A = {row.account} \cup IF HasLinked(row) THEN {x} ELSE {}
    <2>1. Affected(row, x, order)
      BY <1>1 DEF Affected
    <2>2. QED
      BY <1>1, <2>1, DeleteOrder
  <1>4. ReplaysAll(r, A)
    BY <1>1, <1>3, ReplaysOf
  <1>5. A \subseteq Accounts /\ \A a \in A : acct[a].opened
    BY <1>1, <1>3, DeleteFacts
  <1>6. WritesRows(Tables, h, A)
    <2>1. txs[id].account \in A /\ (HasLinked(txs[id]) => txs[txs[id].linked].account \in A)
      BY <1>1, <1>3
    <2>2. WritesRows(Tables, DeleteStatements(id), A)
      BY <2>1, DeletionWrites
    <2>3. QED
      BY <1>1, <2>2
  <1>7. Planned(Tables, A, A, q) /\ PlannedEdit(A, q)
    BY <1>1, <1>4, <1>5, <1>6, TablesNow, EditPlanned
  <1>8. QED
    BY <1>2, <1>7, StartKeeps

-----------------------------------------------------------------------------
(* A creation or an adjustment starts.                                      *)

LEMMA StartCreateKeeps ==
    ASSUME StepsInv, NEW w \in Workers, NEW u \in Users, NEW in \in Inputs, StartCreate(w, u, in)
    PROVE  StepsInv'
  <1>1. PICK kind, A, R, q :
            /\ kind = "create" /\ R = {} /\ q = CreateStatements(u, in)
            /\ A = {in.account} \cup IF HasTarget(in) THEN {in.target} ELSE {}
    OBVIOUS
  <1>2. /\ Start(w, kind, A, R, q)
        /\ MayUse(u, in.account) /\ (HasTarget(in) => MayUse(u, in.target))
    BY <1>1 DEF StartCreate
  <1>3. Planned(Tables, A, R, q)
    BY <1>1, <1>2, CreatePlanned
  <1>4. kind \notin {"update", "delete"}
    BY <1>1
  <1>5. QED
    BY <1>2, <1>3, <1>4, StartKeeps

LEMMA StartAdjustKeeps ==
    ASSUME StepsInv, NEW w \in Workers, NEW u \in Users, NEW a \in Accounts, NEW value \in Balances,
           StartAdjust(w, u, a, value)
    PROVE  StepsInv'
  <1>1. PICK kind, A, R, q :
            /\ kind = "adjust" /\ A = {a} /\ R = {}
            /\ q = << Insert(AdjustmentRow(a, balance[a], value), value), SetBalance(a, value) >>
    OBVIOUS
  <1>2. Start(w, kind, A, R, q) /\ MayUse(u, a)
    BY <1>1 DEF StartAdjust
  <1>3. value \in Int
    BY LedgerAssumption
  <1>4. Planned(Tables, A, R, q)
    BY <1>1, <1>2, <1>3, AdjustPlanned
  <1>5. kind \notin {"update", "delete"}
    BY <1>1
  <1>6. QED
    BY <1>2, <1>4, <1>5, StartKeeps

-----------------------------------------------------------------------------
(* The theorems.                                                            *)

LEMMA InitStepsInv == StepsInit => StepsInv
  <1> SUFFICES ASSUME StepsInit PROVE StepsInv
    OBVIOUS
  <1>1. TypeOK /\ ColumnsAligned /\ txs = << >>
    BY InitIInv DEF StepsInit, IInv, Init
  <1>2. Len(txs) = 0 /\ Len(newBalance) = 0
    BY <1>1, EmptySeq DEF StepsInit, Init
  <1>3. TablesFit(Tables)
    <2>1. /\ Tables.acct = acct /\ Tables.initial = initial /\ Tables.balance = balance
          /\ Tables.txs = txs /\ Tables.newBalance = newBalance
      BY DEF Tables
    <2>2. QED
      BY <1>1, <1>2, <2>1 DEF TablesFit, TypeOK
  <1>4. job = [w \in Workers |-> None]
    BY DEF StepsInit
  <1>5. PICK D, J : D = Tables /\ J = job
    OBVIOUS
  <1>6. AllFit(D, J) /\ EditsRepair(D, J)
    BY <1>4, <1>5, NoneFits DEF AllFit, EditsRepair
  <1>7. QED
    BY <1>1, <1>3, <1>5, <1>6 DEF StepsInv

LEMMA NextStepsInv == StepsInv /\ [StepsNext]_<<vars, stepVars>> => StepsInv'
  <1> SUFFICES ASSUME StepsInv, [StepsNext]_<<vars, stepVars>> PROVE StepsInv'
    OBVIOUS
  <1>1. ASSUME NEW w \in Workers, NEW u \in Users, StartRequest(w, u) PROVE StepsInv'
    BY <1>1, StartCreateKeeps, StartUpdateKeeps, StartDeleteKeeps, StartAdjustKeeps
       DEF StartRequest
  <1>2. ASSUME NEW w \in Workers, Step(w) \/ FailStatement(w) \/ Respond(w) PROVE StepsInv'
    BY <1>2, StepKeeps, FailKeeps, RespondKeeps
  <1>3. ASSUME NEW u \in Users, AccountStatement(u) PROVE StepsInv'
    BY <1>3, AccountKeeps
  <1>4. CASE Crash
    BY <1>4, CrashKeeps
  <1>5. CASE UNCHANGED <<vars, stepVars>>
    <2>1. UNCHANGED vars /\ job' = job
      BY <1>5 DEF stepVars
    <2>2. AllFit(Tables, job') /\ EditsRepair(Tables, job')
      BY <2>1 DEF StepsInv
    <2>3. QED
      BY <2>1, <2>2, TablesKept
  <1>6. QED
    BY <1>1, <1>2, <1>3, <1>4, <1>5 DEF StepsNext

\* However requests, faults and crashes are interleaved, every statement still to come
\* is about rows that exist and accounts that have been opened, and the rest of an
\* undisturbed edit still settles what it replays.
THEOREM LedgerStepsInvariant == StepsSpec => []StepsInv
  BY InitStepsInv, NextStepsInv, PTL DEF StepsSpec

\* Rows and balances stay of their types under all interleavings.
THEOREM LedgerStepsTypeCorrect == StepsSpec => []TypeOK
  <1>1. StepsInv => TypeOK
    BY DEF StepsInv
  <1>2. QED
    BY <1>1, LedgerStepsInvariant, PTL

LEMMA RepairedEdits == StepsInv => EditRepairs
  <1> SUFFICES ASSUME StepsInv, NEW w \in Workers, job[w].kind \in {"update", "delete"},
                      ~Working(w), job[w].calm, NEW a \in job[w].replays, Visible(a)
               PROVE  Settled(a)
    BY DEF EditRepairs
  <1>1. PICK D, j : D = Tables /\ j = job[w]
    OBVIOUS
  <1>2. JobFits(D, j) /\ Repairs(D, j) /\ j.todo = << >> /\ a \in j.replays
    BY <1>1 DEF StepsInv, AllFit, EditsRepair, CalmEdit, Working
  <1>3. Repaired(D, j.todo, a) /\ IsSequence(j.todo) /\ a \in Accounts
    BY <1>2 DEF Repairs, JobFits, IsJob
  <1>4. 1..Len(j.todo) = {}
    BY <1>2, EmptySeq
  <1>5. SettledIn(D, a)
    BY <1>3, <1>4 DEF Repaired, Awaits, Writing
  <1>6. /\ D.acct = acct /\ D.balance = balance /\ D.txs = txs /\ D.newBalance = newBalance
        /\ D.initial = initial
    BY <1>1 DEF Tables
  <1>7. balance[a] = Final(initial[a], txs, newBalance, a)
    BY <1>5, <1>6 DEF SettledIn, Recalculated, Visible
  <1>8. QED
    BY <1>7, FinalIs DEF Settled

\* An update or a deletion that runs through undisturbed leaves every account it replays
\* with the balance its rows explain (services/transactions/service.go:796), for any
\* number of requests, other requests and faults before and beside it.
THEOREM LedgerEditRepairs == StepsSpec => []EditRepairs
  BY RepairedEdits, LedgerStepsInvariant, PTL

=============================================================================
