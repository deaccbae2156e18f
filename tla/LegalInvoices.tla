---------------------------- MODULE LegalInvoices ----------------------------
(***************************************************************************)
(* The official invoices of legal_invoices                                 *)
(* (app/domain/accounting/verifactu_service.py): issue_legal_invoice       *)
(* chooses the next number of a series and links the invoice to the last   *)
(* one, verify_chain_integrity audits a fiscal year.                       *)
(*                                                                         *)
(* An invoice is issued in one legal_write_transaction that calls nothing  *)
(* outside the database: it is one step.  What is not simple is which      *)
(* invoice is the last one: the code orders by created_at, the clock of    *)
(* the machine to the second, and then by the text of the number, padded   *)
(* to four digits.                                                         *)
(***************************************************************************)
EXTENDS HashChain, FiniteSets

CONSTANTS
    Tenants,    \* each tenant has a database file of its own
    Series,     \* series asked for; the endpoint always asks for "F2026"
    Base,       \* digits of a number: 10 ...
    Width,      \* ... padded to 4 of them
    MaxRows,    \* bound: invoices of a tenant
    MaxClock,   \* bound: seconds
    NewYear,    \* the second at which the second year starts
    MaxBack     \* bound: times the clock is set back

ASSUME InvoicesAssumption ==
    /\ Base \in Nat \ {0, 1} /\ Width \in Nat \ {0}
    /\ MaxRows \in Nat /\ MaxClock \in Nat /\ NewYear \in Nat /\ MaxBack \in Nat

VARIABLES
    rows,    \* rows[tn]: the rows of legal_invoices, in the order of insertion
    clock,   \* CURRENT_TIMESTAMP
    back     \* times the clock was set back so far

vars == <<rows, clock, back>>

Year(time) == IF time < NewYear THEN 1 ELSE 2

\* A row of series s.  Its digest covers the number, the date and the rest.
Row(s, n, prev, time) ==
    [series |-> s, number |-> n, prev |-> prev, hash |-> Digest(<<s, n>>, prev),
     at |-> time, year |-> Year(time)]

Init ==
    /\ rows = [tn \in Tenants |-> <<>>]
    /\ clock = 0
    /\ back = 0
-----------------------------------------------------------------------------
(***************************************************************************)
(* The order of numbers as texts: f"{series}-{number:04d}".                *)
(***************************************************************************)

\* The length of the text of n.
Digits(n) ==
    LET k == CHOOSE d \in 1..(n + 1) : Base^(d - 1) <= n /\ n < Base^d
    IN  IF k < Width THEN Width ELSE k

\* The text of m is below the text of n: a shorter text is compared with as
\* many digits of the longer one.
TextBelow(m, n) ==
    \/ Digits(m) = Digits(n) /\ m < n
    \/ Digits(m) < Digits(n) /\ m <= n \div Base^(Digits(n) - Digits(m))
    \/ Digits(m) > Digits(n) /\ m \div Base^(Digits(m) - Digits(n)) < n

OfSeries(tn, s) == {i \in DOMAIN rows[tn] : rows[tn][i].series = s}

\* Mutant: the oldest row.
NewerReversed(a, b) == a.at < b.at \/ (a.at = b.at /\ TextBelow(a.number, b.number))

\* ORDER BY created_at DESC, invoice_number DESC: a comes before b.
Newer(a, b) == a.at > b.at \/ (a.at = b.at /\ TextBelow(b.number, a.number))

LastRecord(tn, s) ==
    rows[tn][CHOOSE i \in OfSeries(tn, s) :
                \A j \in OfSeries(tn, s) \ {i} : Newer(rows[tn][i], rows[tn][j])]

\* next_seq and previous_hash.
NextSeq(tn, s) == IF OfSeries(tn, s) = {} THEN 1 ELSE LastRecord(tn, s).number + 1

\* Mutant: the chain of the table, not of the series.
PreviousHashOfTable(tn, s) == LastHash(rows[tn])

\* Mutant: the wrong column of the last row.
PreviousHashOfLast(tn, s) ==
    IF OfSeries(tn, s) = {} THEN Genesis ELSE LastRecord(tn, s).prev

PreviousHash(tn, s) ==
    IF OfSeries(tn, s) = {} THEN Genesis ELSE LastRecord(tn, s).hash

\* Mutant: no UNIQUE constraint.
NumberUsedNever(tn, s, n) == FALSE

\* invoice_number TEXT NOT NULL UNIQUE.
NumberUsed(tn, s, n) == \E i \in OfSeries(tn, s) : rows[tn][i].number = n

\* issue_legal_invoice.  A number in use violates UNIQUE, and the transaction
\* is rolled back.
Issue(tn, s) ==
    /\ Len(rows[tn]) < MaxRows
    /\ ~NumberUsed(tn, s, NextSeq(tn, s))
    /\ rows' = [rows EXCEPT ![tn] =
                   Append(@, Row(s, NextSeq(tn, s), PreviousHash(tn, s), clock))]
    /\ UNCHANGED <<clock, back>>

Tick ==
    /\ clock < MaxClock
    /\ clock' = clock + 1
    /\ UNCHANGED <<rows, back>>

\* The clock of the machine is set back.
SetBack ==
    /\ back < MaxBack /\ clock > 0
    /\ clock' = clock - 1
    /\ back' = back + 1
    /\ UNCHANGED rows

Next ==
    \/ \E tn \in Tenants, s \in Series : Issue(tn, s)
    \/ Tick
    \/ SetBack

Spec == Init /\ [][Next]_vars
-----------------------------------------------------------------------------
RowSet == [series : Series, number : Nat \ {0}, prev : Seq(Series \X Nat),
           hash : Seq(Series \X Nat), at : 0..MaxClock, year : {1, 2}]

\* Every variable has its type.
TypeOK ==
    /\ rows \in [Tenants -> Seq(RowSet)]
    /\ clock \in 0..MaxClock
    /\ back \in 0..MaxBack

(***************************************************************************)
(* The numbers of a series are 1, 2, ... in the order in which the         *)
(* invoices were issued, with no gap and no number twice: whatever the     *)
(* clock does, an invoice that is not the next one is refused.             *)
(***************************************************************************)
Correlative ==
    \A tn \in Tenants, s \in Series : \A i \in OfSeries(tn, s) :
        rows[tn][i].number = Cardinality({j \in OfSeries(tn, s) : j <= i})

(***************************************************************************)
(* The rows of each series, in the order of their numbers, are an          *)
(* append-only log of linked records: whichever row the code finds last,   *)
(* an invoice is issued with the number after that of the newest one of    *)
(* its series, linked to it, and nothing is ever rewritten.                *)
(***************************************************************************)
LogRecord(row) ==
    [inv |-> <<row.series, row.number>>, prev |-> row.prev, hash |-> row.hash]

SeriesLog(tn, s) ==
    LET ids == OfSeries(tn, s)
    IN  [n \in 1..Cardinality(ids) |->
            LogRecord(rows[tn][CHOOSE i \in ids : rows[tn][i].number = n])]

Log == INSTANCE ChainLog WITH
           Owners <- Tenants \X Series, Documents <- Series \X (1..MaxRows),
           log <- [o \in Tenants \X Series |-> SeriesLog(o[1], o[2])]

ImplementsLog == Log!Spec

(***************************************************************************)
(* While the clock has not been set back and the numbers fit their         *)
(* padding, the next number of a series is free and an invoice can be      *)
(* issued.  Without either, the code may find an older invoice last, and   *)
(* refuse every request until the clock has gone on.                       *)
(***************************************************************************)
Padded(tn, s) == \A i \in OfSeries(tn, s) : rows[tn][i].number < Base^Width

NextIsFree ==
    back = 0 => \A tn \in Tenants, s \in Series :
                    Padded(tn, s) => ~NumberUsed(tn, s, NextSeq(tn, s))

(***************************************************************************)
(* verify_chain_integrity(tenant_id, fiscal_year), for one series: the     *)
(* rows of a year in the order of their numbers, from an empty digest.     *)
(***************************************************************************)
OfYear(tn, y) == {i \in DOMAIN rows[tn] : rows[tn][i].year = y}

YearVerified(tn, y) ==
    \A i \in OfYear(tn, y) :
        LET row == rows[tn][i]
            below == {j \in OfYear(tn, y) :
                         TextBelow(rows[tn][j].number, row.number)}
        IN  row.prev = IF below = {} THEN Genesis
                       ELSE rows[tn][CHOOSE j \in below : \A k \in below \ {j} :
                                TextBelow(rows[tn][k].number,
                                          rows[tn][j].number)].hash

(***************************************************************************)
(* The audit accepts the rows of a tenant nobody has touched, as long as   *)
(* they are of one series and of one year and the numbers fit their        *)
(* padding: the text order of the audit is then the order in which issue   *)
(* linked them, whatever the clock did.  Each condition is needed: the     *)
(* chain of a series goes on over the end of the year and the audit does   *)
(* not, and two series are audited as one chain.                           *)
(***************************************************************************)
OneYearVerified ==
    \A tn \in Tenants, s \in Series, y \in {1, 2} :
        OfSeries(tn, s) = DOMAIN rows[tn] /\ OfYear(tn, y) = DOMAIN rows[tn]
            /\ Padded(tn, s) => YearVerified(tn, y)
=============================================================================
