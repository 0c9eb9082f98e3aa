-------------------------------- MODULE Rates --------------------------------
(***************************************************************************)
(* The exchange rates: one table of rates per day, fetched from an external *)
(* service by a daily task and by range imports, and what the currency      *)
(* service makes of them.                                                   *)
(*                                                                          *)
(* Code: services/exchange_rates, its repository and task, and              *)
(* services/currency (conversion, cache of one request).                    *)
(*                                                                          *)
(* A table is a function from the currencies it quotes to rates relative to *)
(* the dollar.  Amounts are chosen so that divisions are exact; the columns *)
(* are decimals.                                                            *)
(***************************************************************************)
EXTENDS Integers, FiniteSets

CONSTANTS
    RateDays,    \* the days rates are imported for, consecutive day numbers
    Importers,   \* goroutines that run range imports, and the daily task
    Tables,      \* tables the service may answer
    NoTable,     \* no table: nothing stored, nothing fetched, nothing cached
    NoExchangeRates, RateMissing, \* the errors of a conversion
    MaxImports   \* bound: imports ever started

ASSUME RatesAssumption ==
    /\ RateDays \subseteq Int /\ IsFiniteSet(RateDays)
    /\ \A d, e \in RateDays : d..e \subseteq RateDays
    /\ NoTable \notin Tables
    /\ \A table \in Tables : \A c \in DOMAIN table : table[c] \in Nat
    /\ MaxImports \in Nat

VARIABLES
    rates,       \* exchange_rates: the table of each day, or NoTable
    import,      \* the days each importer has left, and the table it has fetched
    imports      \* bound: how many imports have been started

rateVars == <<rates, import, imports>>

NoImport == [next |-> 1, last |-> 0, got |-> NoTable]

InitRates ==
    /\ rates = [d \in RateDays |-> NoTable]
    /\ import = [i \in Importers |-> NoImport]
    /\ imports = 0

-----------------------------------------------------------------------------
(* What is stored, seen from a day: the nearest table of the past, else the *)
(* nearest one of the future, else none.                                    *)

Stored == {d \in RateDays : rates[d] # NoTable}

getAllRatesWithFallback(d) ==
    LET past   == {e \in Stored : e <= d}
        future == {e \in Stored : e >= d}
    IN  IF past # {} THEN rates[CHOOSE e \in past : \A f \in past : f <= e]
        ELSE IF future # {} THEN rates[CHOOSE e \in future : \A f \in future : e <= f]
        ELSE NoTable

-----------------------------------------------------------------------------
(* Conversion with a table: an amount, or one of the two errors, of which   *)
(* only NoExchangeRates is fatal to a report.                               *)

IsAmount(x)     == x \notin {NoExchangeRates, RateMissing}

Quotes(table, c) == c \in DOMAIN table /\ table[c] # 0

ConvertToBaseCurrency(amount, source, base, table) ==
    IF source = base THEN amount
    ELSE IF table = NoTable \/ DOMAIN table = {} THEN NoExchangeRates
    ELSE IF Quotes(table, source) /\ Quotes(table, base)
         THEN (amount * table[base]) \div table[source]
    ELSE RateMissing

\* The export's conversion never fails: in doubt the amount is left as it is.
\* (A rate of zero is taken for the currency converted to.)
ConvertAmount(amount, source, base, d) ==
    LET table == getAllRatesWithFallback(d)
    IN  IF /\ source # base /\ table # NoTable
           /\ Quotes(table, source) /\ base \in DOMAIN table
        THEN (amount * table[base]) \div table[source]
        ELSE amount

-----------------------------------------------------------------------------
(* Imports.  Two of them may save tables of the same day.                   *)

FetchAndSaveRatesRange(i, first, last) ==
    /\ import[i] = NoImport
    /\ first <= last          \* and at most 365 days
    /\ imports < MaxImports
    /\ imports' = imports + 1
    /\ import' = [import EXCEPT ![i] = [next |-> first, last |-> last, got |-> NoTable]]
    /\ UNCHANGED rates

\* The daily task imports one day.  Its retries are further imports.
FetchAndSaveRates(i, d) == FetchAndSaveRatesRange(i, d, d)

Importing(i) == import[i].next <= import[i].last

fetchFromAPI(i, table) ==
    /\ Importing(i)
    /\ import[i].got = NoTable
    /\ import' = [import EXCEPT ![i].got = table]
    /\ UNCHANGED <<rates, imports>>

\* Fault: one day too many.
onePastTheEnd(i) ==
    LET job == import[i]
    IN  /\ job.got # NoTable
        /\ rates' = [rates EXCEPT ![job.next] = job.got]
        /\ import' = [import EXCEPT ![i] =
                         IF job.next > job.last THEN NoImport
                         ELSE [job EXCEPT !.next = @ + 1, !.got = NoTable]]
        /\ UNCHANGED imports

\* Whatever was stored for that day is overwritten.
saveRates(i) ==
    LET job == import[i]
    IN  /\ job.got # NoTable
        /\ rates' = [rates EXCEPT ![job.next] = job.got]
        /\ import' = [import EXCEPT ![i] =
                         IF job.next = job.last THEN NoImport
                         ELSE [job EXCEPT !.next = @ + 1, !.got = NoTable]]
        /\ UNCHANGED imports

\* The service or the database fails, or the process stops: the days before stay.
ImportFails(i) ==
    /\ Importing(i)
    /\ import' = [import EXCEPT ![i] = NoImport]
    /\ UNCHANGED <<rates, imports>>

RatesNext ==
    \E i \in Importers :
        \/ \E first, last \in RateDays : FetchAndSaveRatesRange(i, first, last)
        \/ \E d \in RateDays : FetchAndSaveRates(i, d)
        \/ \E table \in Tables : fetchFromAPI(i, table)
        \/ saveRates(i)
        \/ ImportFails(i)

=============================================================================
