-------------------------------- MODULE Books ---------------------------------
(***************************************************************************)
(* The journal of the accounting core and those who write to it:           *)
(*   - the approval of received invoices                                   *)
(*     (app/domain/services/received_invoice_accounting_service.py), in    *)
(*     threads of the pool;                                                *)
(*   - on the event loop, one at a time: the reconciliation of bank        *)
(*     movements (bank_reconciliation_engine.py), the depreciation of      *)
(*     assets (asset_depreciation_engine.py) and the closing of a year     *)
(*     (fiscal_year_closing_service.py).                                   *)
(* record_entry is in app/domain/accounting/services.py.                   *)
(*                                                                         *)
(* A transaction of one tenant excludes every other (tenant lock, BEGIN    *)
(* IMMEDIATE): a step is a transaction, or what is read between two.  An   *)
(* operation may fail between any two of its steps; the stop of the        *)
(* process is such a failure of all that are under way.                    *)
(*                                                                         *)
(* The accounts are those the closing treats in different ways, groups 0,  *)
(* 8 and 9, which it ignores, among them: a line may be of any account     *)
(* (JournalLineDTO), and the caller of an approval or a reconciliation may *)
(* choose it.  An amount, in cents, is what is debited, less what is       *)
(* credited.  Tables are created on the way if they are missing, which is  *)
(* left out.                                                               *)
(***************************************************************************)
EXTENDS Integers, FiniteSets, SequencesExt

CONSTANTS
    Threads,      \* threads of the pool
    Proposals,    \* proposals for received invoices
    Movements,    \* movements of a bank account
    Document,     \* Document[d]: year and lines of a proposal or a movement
    LastYear,     \* bound: the years 1..LastYear may be closed
    Quota,        \* the depreciation of a year
    Rates,        \* rates of the corporate tax that clients send, in 1/10000
    MaxApprovals, \* bound: approvals ever asked for
    MaxTorn,      \* bound: reconciliations that fail between their commits
    None

Years == 1..LastYear
\* Groups 6 and 7 (630: corporate tax), the balance accounts (groups 1 to 5,
\* of which 129, the result, and 4752, the tax due), and the other groups.
Accounts == {"6", "630", "7", "1-5", "129", "4752", "others"}
Documents == Proposals \cup Movements
Lines == [Accounts -> Int]

Total(lines) == lines["6"] + lines["630"] + lines["7"]
                    + lines["1-5"] + lines["129"] + lines["4752"]
                    + lines["others"]

ASSUME BooksAssumption ==
    /\ LastYear \in Nat /\ Quota \in Nat /\ Rates \subseteq Int
    /\ MaxApprovals \in Nat /\ MaxTorn \in Nat
    /\ Document \in [Documents -> [year : Years, lines : Lines]]
    /\ \A m \in Movements : Total(Document[m].lines) = 0
    /\ IsFiniteSet(Threads)
    /\ None \notin Threads \cup Documents /\ None \notin Nat
    /\ Proposals \cap Movements = {}
    /\ {"depreciation", "tax", "regularization", "closing", "opening"}
           \cap Documents = {}

VARIABLES
    journal,   \* journal[y]: the entries of year y, in the order of insertion
    closed,    \* legal_fiscal_years: the years with is_closed = 1
    leftOut,   \* the years whose closing left something out of its entries: a
               \*   tax below zero, groups 0, 8 and 9 (no variable of the code)
    status,    \* status[p]: of a proposal
    entryOf,   \* entryOf[p]: the number of the entry of a proposal, or None
    invoices,  \* invoices[p]: the rows with status RECEIVED in invoices
    linked,    \* the movements with reconciliation_status RECONCILED
    torn,      \* torn[m]: reconciliations booked and then failed (no variable
               \*   of the code)
    task,      \* task[t]: the approval a thread is at, or None
    loop       \* what the event loop is at, between two transactions, or None

documents == <<status, entryOf, invoices, linked, torn>>
vars == <<journal, closed, leftOut, documents, task, loop>>

Init ==
    /\ journal = [y \in 1..(LastYear + 1) |-> <<>>]
    /\ closed = {}
    /\ leftOut = {}
    /\ status = [p \in Proposals |-> "PENDING_APPROVAL"]
    /\ entryOf = [p \in Proposals |-> None]
    /\ invoices = [p \in Proposals |-> 0]
    /\ linked = {}
    /\ torn = [m \in Movements |-> 0]
    /\ task = [t \in Threads |-> None]
    /\ loop = None
-----------------------------------------------------------------------------
(***************************************************************************)
(* The journal.                                                            *)
(***************************************************************************)

Entry(number, source, lines) ==
    [number |-> number, source |-> source, lines |-> lines]

\* MAX(entry_number) + 1.
NextNumber(y) ==
    IF journal[y] = <<>> THEN 1 ELSE Last(journal[y]).number + 1

Insert(y, source, lines) ==
    journal' = [journal EXCEPT ![y] =
                    Append(@, Entry(NextNumber(y), source, lines))]

Of(source, y) == {i \in DOMAIN journal[y] : journal[y][i].source = source}

\* An account 630 is in the journal of the year, whatever its balance.
Taxed(y) == \E i \in DOMAIN journal[y] : journal[y][i].lines["630"] # 0

\* What the entries debit to an account, less what they credit.
SumOf(entries, a) ==
    LET sum[n \in 0..Len(entries)] ==
            IF n = 0 THEN 0 ELSE sum[n - 1] + entries[n].lines[a]
    IN  sum[Len(entries)]

Balance(y) == [a \in Accounts |-> SumOf(journal[y], a)]

\* What record_entry tests before its transaction.
Accepts(d) == Document[d].year \notin closed /\ Total(Document[d].lines) = 0
-----------------------------------------------------------------------------
(***************************************************************************)
(* Received invoices: approve_and_record_proposal and reject_proposal.     *)
(***************************************************************************)

Goto(t, p, step, number) ==
    task' = [task EXCEPT ![t] = [proposal |-> p, at |-> step, number |-> number]]

At(t, step) == task[t] # None /\ task[t].at = step

Approvals == FoldLeft(LAMBDA sum, p : sum + invoices[p], 0,
                      SetToSeq(Proposals))

\* Mutant: what goes wrong with the row is swallowed.
ApproveSwallowed(t, p) ==
    /\ task[t] = None
    /\ Approvals < MaxApprovals
    /\ invoices' \in {invoices, [invoices EXCEPT ![p] = @ + 1]}
    /\ Goto(t, p, "test", None)
    /\ UNCHANGED <<journal, closed, leftOut, status, entryOf, linked, torn,
                   loop>>

\* The status of the proposal is not looked at.  A row goes into invoices.
Approve(t, p) ==
    /\ task[t] = None
    /\ Approvals < MaxApprovals
    /\ invoices' = [invoices EXCEPT ![p] = @ + 1]
    /\ Goto(t, p, "test", None)
    /\ UNCHANGED <<journal, closed, leftOut, status, entryOf, linked, torn,
                   loop>>

\* Mutant: an entry refused does not end the approval.
TestSwallowed(t) ==
    /\ At(t, "test")
    /\ LET p == task[t].proposal
           number == NextNumber(Document[p].year)
       IN  Goto(t, p, IF Accepts(p) THEN "record" ELSE "settle", number)
    /\ UNCHANGED <<journal, closed, leftOut, documents, loop>>

\* record_entry tests and raises...
Test(t) ==
    /\ At(t, "test")
    /\ LET p == task[t].proposal
       IN  IF Accepts(p) THEN Goto(t, p, "record", NextNumber(Document[p].year))
                         ELSE task' = [task EXCEPT ![t] = None]
    /\ UNCHANGED <<journal, closed, leftOut, documents, loop>>

\* Mutant: the number is read before the transaction.
RecordStale(t) ==
    /\ At(t, "record")
    /\ LET p == task[t].proposal  y == Document[p].year
       IN  /\ journal' = [journal EXCEPT ![y] = Append(@,
                              Entry(task[t].number, p, Document[p].lines))]
           /\ Goto(t, p, "settle", task[t].number)
    /\ UNCHANGED <<closed, leftOut, documents, loop>>

\* ... and writes, whatever has been closed since.
Record(t) ==
    /\ At(t, "record")
    /\ LET p == task[t].proposal  y == Document[p].year
       IN  /\ Insert(y, p, Document[p].lines)
           /\ Goto(t, p, "settle", NextNumber(y))
    /\ UNCHANGED <<closed, leftOut, documents, loop>>

\* update_proposal_status: of a proposal rejected meanwhile as well.
Settle(t) ==
    /\ At(t, "settle")
    /\ LET p == task[t].proposal
       IN  /\ status' = [status EXCEPT ![p] = "APPROVED"]
           /\ entryOf' = [entryOf EXCEPT ![p] = task[t].number]
    /\ task' = [task EXCEPT ![t] = None]
    /\ UNCHANGED <<journal, closed, leftOut, invoices, linked, torn, loop>>

\* The approval raises, or the process stops.
Abort(t) ==
    /\ task[t] # None
    /\ task' = [task EXCEPT ![t] = None]
    /\ UNCHANGED <<journal, closed, leftOut, documents, loop>>

\* Mutant: a rejection leaves the entry of the proposal.
RejectKeeps(p) ==
    /\ status' = [status EXCEPT ![p] = "REJECTED"]
    /\ UNCHANGED <<journal, closed, leftOut, entryOf, invoices, linked, torn,
                   task, loop>>

\* The status is not looked at, and the link to the entry is removed.
Reject(p) ==
    /\ status' = [status EXCEPT ![p] = "REJECTED"]
    /\ entryOf' = [entryOf EXCEPT ![p] = None]
    /\ UNCHANGED <<journal, closed, leftOut, invoices, linked, torn, task,
                   loop>>
-----------------------------------------------------------------------------
(***************************************************************************)
(* On the event loop.                                                      *)
(***************************************************************************)

\* Mutant: whether the movement is reconciled is not looked at.
ReconcileAgain(m) ==
    /\ loop = None
    /\ Accepts(m)
    /\ Insert(Document[m].year, m, Document[m].lines)
    /\ linked' = linked \cup {m}
    /\ UNCHANGED <<closed, leftOut, status, entryOf, invoices, torn, task, loop>>

\* apply_reconciliation holds the lock to its end, but record_entry commits,
\* and the movement is updated after that.
Reconcile(m) ==
    /\ loop = None
    /\ m \notin linked
    /\ Accepts(m)
    /\ Insert(Document[m].year, m, Document[m].lines)
    /\ \/ linked' = linked \cup {m} /\ UNCHANGED torn
       \/ /\ torn[m] < MaxTorn
          /\ torn' = [torn EXCEPT ![m] = @ + 1]
          /\ UNCHANGED linked
    /\ UNCHANGED <<closed, leftOut, status, entryOf, invoices, task, loop>>

\* record_depreciation_entries looks for the entry of the year...
Depreciate(y) ==
    /\ loop = None
    /\ Quota > 0 /\ Of("depreciation", y) = {}
    /\ loop' = [year |-> y, balance |-> None, taxed |-> FALSE, rate |-> 0]
    /\ UNCHANGED <<journal, closed, leftOut, documents, task>>

\* ... and writes it, be the year closed or not.
RecordDepreciation ==
    /\ loop # None /\ loop.balance = None
    /\ Insert(loop.year, "depreciation",
              [a \in Accounts |-> CASE a = "6" -> Quota [] a = "1-5" -> -Quota
                                    [] OTHER -> 0])
    /\ loop' = None
    /\ UNCHANGED <<closed, leftOut, documents, task>>

\* execute_year_end_closing reads the balance of an open year; the rate is what
\* the client sends, of any size and sign...
Simulate(y, rate) ==
    /\ loop = None
    /\ y \notin closed
    /\ loop' = [year |-> y, balance |-> Balance(y), taxed |-> Taxed(y),
                rate |-> rate]
    /\ UNCHANGED <<journal, closed, leftOut, documents, task>>

\* The share of the profit, rounded half up (by size), unless there is tax
\* already.
TaxOn(balance, taxed, rate) ==
    LET profit == -(balance["7"] + balance["6"] + balance["630"])
        Rounded(n) == (n + 5000) \div 10000
    IN  IF taxed \/ profit <= 0 THEN 0
        ELSE IF rate < 0 THEN -Rounded(profit * (-rate))
                         ELSE Rounded(profit * rate)

\* A tax below zero counts in the result, and has no lines of its own.
Due(tax) == IF tax > 0 THEN tax ELSE 0

TaxLines(tax) ==
    [a \in Accounts |-> CASE a = "630" -> tax [] a = "4752" -> -tax
                          [] OTHER -> 0]

\* Mutant: the result before tax goes to 129.
RegularizationLinesGross(balance, tax) ==
    [a \in Accounts |->
        CASE a \in {"6", "7"} -> -balance[a]
          [] a = "630" -> -balance[a] - Due(tax)
          [] a = "129" -> balance["7"] + balance["6"] + balance["630"]
          [] OTHER -> 0]

\* Groups 6 and 7 to zero, against 129.
RegularizationLines(balance, tax) ==
    [a \in Accounts |->
        CASE a \in {"6", "7"} -> -balance[a]
          [] a = "630" -> -balance[a] - Due(tax)
          [] a = "129" -> balance["7"] + balance["6"] + balance["630"] + tax
          [] OTHER -> 0]

\* Mutant: the tax due is not part of what is closed.
ClosingLinesNoTax(balance, tax) ==
    [a \in Accounts |->
        CASE a \in {"1-5", "4752"} -> -balance[a]
          [] a = "129" -> -balance[a] - balance["7"] - balance["6"]
                              - balance["630"] - tax
          [] OTHER -> 0]

\* The balance accounts to zero.
ClosingLines(balance, tax) ==
    [a \in Accounts |->
        CASE a = "1-5" -> -balance[a]
          [] a = "4752" -> -balance[a] + Due(tax)
          [] a = "129" -> -balance[a] - balance["7"] - balance["6"]
                              - balance["630"] - tax
          [] OTHER -> 0]

Reversed(lines) == [a \in Accounts |-> -lines[a]]

\* ... and closes it, in one transaction, with what it has read: the next year
\* is opened, be it closed or not.
CloseYear ==
    /\ loop # None /\ loop.balance # None
    /\ LET y == loop.year
           tax == TaxOn(loop.balance, loop.taxed, loop.rate)
           n == NextNumber(y) + (IF tax > 0 THEN 1 ELSE 0)
           closing == ClosingLines(loop.balance, tax)
           taxEntry == Entry(NextNumber(y), "tax", TaxLines(tax))
           entries == <<Entry(n, "regularization",
                              RegularizationLines(loop.balance, tax)),
                        Entry(n + 1, "closing", closing)>>
           misses == tax < 0 \/ loop.balance["others"] # 0
       IN  /\ journal' = [journal EXCEPT
                  ![y] = @ \o (IF tax > 0 THEN <<taxEntry>> ELSE <<>>)
                           \o entries,
                  ![y + 1] = Append(@, Entry(NextNumber(y + 1), "opening",
                                             Reversed(closing)))]
           /\ closed' = closed \cup {y}
           /\ leftOut' = IF misses THEN leftOut \cup {y} ELSE leftOut
    /\ loop' = None
    /\ UNCHANGED <<documents, task>>

LoopAbort ==
    /\ loop # None
    /\ loop' = None
    /\ UNCHANGED <<journal, closed, leftOut, documents, task>>
-----------------------------------------------------------------------------
Next ==
    \/ \E t \in Threads, p \in Proposals : Approve(t, p)
    \/ \E t \in Threads : Test(t) \/ Record(t) \/ Settle(t) \/ Abort(t)
    \/ \E p \in Proposals : Reject(p)
    \/ \E m \in Movements : Reconcile(m)
    \/ \E y \in Years : Depreciate(y) \/ \E rate \in Rates : Simulate(y, rate)
    \/ RecordDepreciation
    \/ CloseYear
    \/ LoopAbort

Spec == Init /\ [][Next]_vars
-----------------------------------------------------------------------------
Statuses == {"PENDING_APPROVAL", "APPROVED", "REJECTED"}
Sources == Documents \cup
    {"depreciation", "tax", "regularization", "closing", "opening"}

\* Every variable has its type; a proposal has an entry if it is approved.
TypeOK ==
    /\ journal \in [1..(LastYear + 1) ->
                       Seq([number : Nat, source : Sources, lines : Lines])]
    /\ closed \subseteq Years /\ leftOut \subseteq closed
    /\ status \in [Proposals -> Statuses]
    /\ entryOf \in [Proposals -> Nat \cup {None}]
    /\ \A p \in Proposals : entryOf[p] # None <=> status[p] = "APPROVED"
    /\ invoices \in [Proposals -> Nat]
    /\ linked \subseteq Movements
    /\ torn \in [Movements -> 0..MaxTorn]
    /\ task \in [Threads -> {None} \cup
                    [proposal : Proposals, at : {"test", "record", "settle"},
                     number : Nat \cup {None}]]
    /\ loop \in {None} \cup [year : Years, balance : Lines \cup {None},
                           taxed : BOOLEAN, rate : Int]

(***************************************************************************)
(* The entries of a year are numbered 1, 2, 3... without gaps, whoever     *)
(* writes them and in whatever order; the table has no UNIQUE for it.      *)
(***************************************************************************)
Correlative ==
    \A y \in DOMAIN journal : \A i \in DOMAIN journal[y] :
        journal[y][i].number = i

(***************************************************************************)
(* Every entry balances: those of record_entry, which are tested, those of *)
(* the depreciation and the tax, and those of the closing, which are not   *)
(* tested, as well, although entries may come in after the balances were   *)
(* read.  The exception is what the closing leaves out of its entries: it  *)
(* unbalances them, and the closings of later years in turn.               *)
(***************************************************************************)
DoubleEntry ==
    \A y \in DOMAIN journal : \A i \in DOMAIN journal[y] :
        \/ Total(journal[y][i].lines) = 0
        \/ /\ journal[y][i].source \in {"regularization", "closing", "opening"}
           /\ \E z \in leftOut : z <= y

(***************************************************************************)
(* A proposal approved has an invoice, and an entry with its lines under   *)
(* the number kept with it, through retries, failures and rejections.      *)
(***************************************************************************)
ApprovedIsBooked ==
    \A p \in Proposals :
        status[p] = "APPROVED" =>
            /\ invoices[p] > 0
            /\ \E i \in Of(p, Document[p].year) :
                   journal[Document[p].year][i].number = entryOf[p]

\* No expense is in the journal without a row of its own in invoices: a
\* failure half way leaves an invoice without its entry, never the reverse.
BookedIsInvoiced ==
    \A p \in Proposals :
        Cardinality(Of(p, Document[p].year)) <= invoices[p]

(***************************************************************************)
(* A movement is booked once, when it is reconciled, and once more for     *)
(* every failure between the two commits: "actualiza estados de forma      *)
(* atómica" (apply_reconciliation) is true of nothing else.                *)
(***************************************************************************)
BookedOnceButFailures ==
    \A m \in Movements :
        Cardinality(Of(m, Document[m].year))
            = torn[m] + (IF m \in linked THEN 1 ELSE 0)

(***************************************************************************)
(* A closing that nobody came in between leaves groups 1 to 7 of the year  *)
(* at zero, whatever the rate of the tax; the next year has what the       *)
(* balance accounts had and, unless the rate is below zero, the result in  *)
(* 129 and 4752.  Groups 0, 8 and 9 stay as they were, with "todas las     *)
(* cuentas patrimoniales a cero" (execute_year_end_closing): they are      *)
(* neither closed nor carried over.                                        *)
(***************************************************************************)
ClosingCarriesOver ==
    [][\A y \in closed' \ closed :
           loop.balance = Balance(y) =>
               LET opened == [a \in Accounts |-> Balance(y + 1)'[a]
                                                     - Balance(y + 1)[a]]
                   result == Balance(y)["6"] + Balance(y)["630"]
                                 + Balance(y)["7"]
               IN  /\ \A a \in Accounts \ {"others"} : Balance(y)'[a] = 0
                   /\ Balance(y)'["others"] = Balance(y)["others"]
                   /\ \A a \in {"6", "630", "7", "others"} : opened[a] = 0
                   /\ opened["1-5"] = Balance(y)["1-5"]
                   /\ loop.rate >= 0 =>
                          opened["129"] + opened["4752"]
                              = Balance(y)["129"] + Balance(y)["4752"] + result
      ]_vars

(***************************************************************************)
(* "Garantiza la partida doble, cuadre obligatorio e inmutabilidad tras el *)
(* cierre contable" (accounting/services.py): nothing is written into a    *)
(* closed year.  It does not hold: an approval tests the year before its   *)
(* transaction, the depreciation does not test it, and the closing of the  *)
(* year before opens it.                                                   *)
(***************************************************************************)
ClosedIsFrozen ==
    [][\A y \in closed : journal'[y] = journal[y]]_vars
=============================================================================
