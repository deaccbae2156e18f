----------------------------- MODULE InvoiceTools -----------------------------
(***************************************************************************)
(* The invoice tools of the assistant (app/tools/server/billing_tools.py:  *)
(* generate_invoice_pdf, cancel_invoice, create_rectificativa_invoice and  *)
(* register_payment), over the table invoices                              *)
(* (app/infrastructure/database/repositories/invoice_repository.py), the   *)
(* register of Veri*Factu, the event bus (app/core/events.py) and the      *)
(* ledger (app/domain/services/ledger_service.py).                         *)
(*                                                                         *)
(* The tools are coroutines of one event loop, and the one place where     *)
(* they let another run is the wait for the user's approval, up to 180 s   *)
(* (module Approval).  Each is one step up to that wait and one step after *)
(* it, of several transactions: the step may fail between any two of them. *)
(* The number of an invoice stands for its text in upper case, the amount  *)
(* for all the fields an invoice needs to be complete, 0 for one that is   *)
(* missing or not positive; that of a rectification has a sign.  Files,    *)
(* items and stock are left out.  Veri*Factu is switched on, the default.  *)
(***************************************************************************)
EXTENDS Integers, Sequences, FiniteSets

CONSTANTS
    Calls,      \* bound: the coroutines that may run at a time
    Given,      \* the numbers callers give, besides none at all
    Limit,      \* bound: Limit[p], the numbers of the sequence of prefix p
    MaxRows,    \* bound: the rows ever inserted into invoices
    MaxAmount,  \* bound: the size of an amount
    MaxPaid,    \* bound: the numbers that payments are made under
    Sums,       \* bound: Sums[n], what is paid under number n in all
    Corrections, \* the amounts callers give for a rectification, or None
    Issuers,    \* the NIFs that the issuer's profile has had, None if it had none
    None

Prefixes == {"F-", "BORRADOR-", "R-", "R-BORRADOR-"}
Numbers == UNION {[prefix : {p}, n : 1..Limit[p]] : p \in Prefixes}
Amounts == -MaxAmount..MaxAmount

ASSUME InvoiceToolsAssumption ==
    /\ Given \subseteq Numbers
    /\ Limit \in [Prefixes -> Nat]
    /\ MaxRows \in Nat /\ MaxAmount \in Nat /\ MaxPaid \in Nat
    /\ Sums \in [Numbers -> SUBSET Int]
    /\ Corrections \subseteq Amounts \cup {None}
    /\ None \notin Numbers /\ None \notin Int

VARIABLES
    call,        \* call[c]: what the coroutine holds while it waits, or None
    last,        \* invoice_sequences: the last value of each prefix, 0 if none
    registered,  \* the numbers registered by VerifactuService
    rows,        \* invoices: a function of the ids in use
    nextRow,     \* the id of the next row (AUTOINCREMENT)
    paid,        \* payments: the sum of those made under each number
    queue,       \* the InvoiceCreated events of the bus, in memory
    posted,      \* posted[n]: the entries of invoice n in the ledger
    year,        \* the fiscal year: "open", closed in the "books" only, or in
                 \*   fiscal_year_status as well: "closed"
    lost         \* the events that were dropped (no variable of the code)

tables == <<last, registered, rows, nextRow, paid, posted, year>>
vars == <<call, queue, lost, tables>>

Tools == {"generate", "rectify", "cancel"}
Statuses == {"borrador", "firmada", "cobrada"}
Rows == [number : Numbers, status : Statuses, amount : Amounts,
         issuer : Issuers, rectifies : BOOLEAN]
CallRecords == [tool : Tools, id : Numbers \cup {None},
                row : Nat \cup {None}, amount : Amounts]

Init ==
    /\ call = [c \in Calls |-> None]
    /\ last = [p \in Prefixes |-> 0]
    /\ registered = {}
    /\ rows = <<>>
    /\ nextRow = 1
    /\ paid = [n \in Numbers |-> 0]
    /\ queue = <<>>
    /\ posted = [n \in Numbers |-> 0]
    /\ year = "open"
    /\ lost = {}
-----------------------------------------------------------------------------
(***************************************************************************)
(* InvoiceRepository.                                                      *)
(***************************************************************************)

With(number) == {r \in DOMAIN rows : rows[r].number = number}

\* find_existing_invoice_data and find_invoice_by_id: the first row, or none.
Found(number, row) ==
    \/ row = None /\ With(number) = {}
    \/ row \in With(number) /\ \A r \in With(number) : row <= r

\* _get_next_sequence_value: the value after the last one, which is at first
\* the largest in the table.
NextValue(prefix, n) ==
    IF last[prefix] > 0
    THEN n = last[prefix] + 1
    ELSE LET used == {rows[r].number.n :
                         r \in {q \in DOMAIN rows :
                                    rows[q].number.prefix = prefix}}
         IN  (\A m \in used : m < n) /\ (n = 1 \/ n - 1 \in used)

\* generate_unique_invoice_id: a draft keeps the number of a draft, and an
\* invoice any other; generate_unique_rectificativa_id takes always a new one.
Keeps(tool, firm, id) ==
    tool = "generate" /\ id # None /\ (firm <=> id.prefix # "BORRADOR-")

NewPrefix(tool, firm) ==
    IF tool = "generate" THEN IF firm THEN "F-" ELSE "BORRADOR-"
                         ELSE IF firm THEN "R-" ELSE "R-BORRADOR-"

\* The sequence moves on in a transaction of its own.
TakeNumber(tool, firm, id, number) ==
    IF Keeps(tool, firm, id)
    THEN number = id /\ UNCHANGED last
    ELSE /\ number.prefix = NewPrefix(tool, firm)
         /\ NextValue(number.prefix, number.n)
         /\ last' = [last EXCEPT ![number.prefix] = number.n]

\* Mutant: a registration that raises is logged, and the work goes on.
RegisterSwallowed(firm, number) ==
    \/ firm /\ registered' = registered \cup {number}
    \/ UNCHANGED registered

\* Mutant: a number may be registered again.
RegisterAgain(firm, number) ==
    registered' = IF firm THEN registered \cup {number} ELSE registered

\* VerifactuService.register_invoice raises for a number registered before.
Register(firm, number) ==
    IF firm THEN /\ number \notin registered
                 /\ registered' = registered \cup {number}
            ELSE UNCHANGED registered

\* The blind index is a digest of number and issuer, and of nothing if there is
\* no issuer, when nothing is tested.
Duplicate(data) ==
    /\ data.issuer # None
    /\ \E r \in With(data.number) : rows[r].issuer = data.issuer

Put(r, data) ==
    rows' = [q \in DOMAIN rows \cup {r} |-> IF q = r THEN data ELSE rows[q]]

\* Mutant: an update leaves an invoice that was collected as it was.
SaveCollected(row, data) ==
    /\ year # "closed"
    /\ \/ /\ row = None /\ ~Duplicate(data) /\ nextRow <= MaxRows
          /\ Put(nextRow, data) /\ nextRow' = nextRow + 1
       \/ /\ row # None /\ row \in DOMAIN rows
          /\ Put(row, [data EXCEPT !.status = IF rows[row].status = "cobrada"
                                              THEN "cobrada" ELSE @])
          /\ UNCHANGED nextRow
       \/ row # None /\ row \notin DOMAIN rows /\ UNCHANGED <<rows, nextRow>>

\* Mutant: the id of a row is used for the next.
SaveReused(row, data) ==
    /\ year # "closed"
    /\ \/ /\ row = None /\ ~Duplicate(data)
          /\ Put(nextRow, data) /\ UNCHANGED nextRow
       \/ /\ row # None /\ row \in DOMAIN rows
          /\ Put(row, data) /\ UNCHANGED nextRow
       \/ row # None /\ row \notin DOMAIN rows /\ UNCHANGED <<rows, nextRow>>

\* save: an update of the row found before the wait, whatever its number and
\* status are by now, and of no row if it is gone.  A row is inserted only if
\* it is no duplicate.  A closed year raises.
Save(row, data) ==
    /\ year # "closed"
    /\ \/ /\ row = None /\ ~Duplicate(data) /\ nextRow <= MaxRows
          /\ Put(nextRow, data) /\ nextRow' = nextRow + 1
       \/ /\ row # None /\ row \in DOMAIN rows
          /\ Put(row, data) /\ UNCHANGED nextRow
       \/ row # None /\ row \notin DOMAIN rows /\ UNCHANGED <<rows, nextRow>>
-----------------------------------------------------------------------------
(***************************************************************************)
(* The tools.                                                              *)
(***************************************************************************)

Wait(c, tool, id, row, amount) ==
    /\ call' = [call EXCEPT ![c] = [tool |-> tool, id |-> id, row |-> row,
                                    amount |-> amount]]
    /\ UNCHANGED <<queue, lost, tables>>

Return(c) == call' = [call EXCEPT ![c] = None]

Post(number) == posted' = [posted EXCEPT ![number] = @ + 1]

\* Mutant: `publish` is called and not awaited.
SavedNotAwaited(tool, firm, number) ==
    \/ tool = "rectify" /\ firm /\ year = "open"
       /\ Post(number) /\ UNCHANGED queue
    \/ UNCHANGED <<queue, posted>>

\* What follows a row saved: a firm invoice is published, a rectification is
\* booked at once, and whatever that raises is swallowed.
Saved(tool, firm, number) ==
    \/ tool = "generate" /\ firm
       /\ queue' = Append(queue, number) /\ UNCHANGED posted
    \/ tool = "rectify" /\ firm /\ year = "open"
       /\ Post(number) /\ UNCHANGED queue
    \/ ~(tool = "generate" /\ firm) /\ UNCHANGED <<queue, posted>>

\* The row of an invoice; a rectification has the opposite of the amount.
Invoice(tool, firm, number, issuer, amount) ==
    [number |-> number, issuer |-> issuer,
     amount |-> IF tool = "rectify" THEN -amount ELSE amount,
     status |-> IF firm THEN "firmada" ELSE "borrador",
     rectifies |-> tool = "rectify"]

\* Mutant: the event goes out with the number, before the row is saved.
IssueEarly(tool, firm, k) ==
    \E number \in Numbers, issuer \in Issuers :
        LET data == Invoice(tool, firm, number, issuer, k.amount)
        IN  /\ firm => issuer # None
            /\ TakeNumber(tool, firm, k.id, number)
            /\ Saved(tool, firm, number)
            /\ \/ UNCHANGED <<registered, rows, nextRow>>
               \/ /\ Register(firm, number)
                  /\ Save(k.row, data) \/ UNCHANGED <<rows, nextRow>>

(***************************************************************************)
(* From the number to the row, in this order: the number, the register,    *)
(* the file, the row and the event.  An exception after any of them leaves *)
(* what is committed; a firm invoice without an issuer ends after the      *)
(* number, as such an exception does.                                      *)
(***************************************************************************)
Issue(tool, firm, k) ==
    \E number \in Numbers, issuer \in Issuers :
        LET data == Invoice(tool, firm, number, issuer, k.amount)
        IN  /\ firm => issuer # None
            /\ TakeNumber(tool, firm, k.id, number)
            /\ \/ UNCHANGED <<registered, rows, nextRow, queue, posted>>
               \/ /\ Register(firm, number)
                  /\ \/ UNCHANGED <<rows, nextRow, queue, posted>>
                     \/ Save(k.row, data) /\ Saved(tool, firm, number)

\* The amount given, or that of the row if only that one is positive.
Amount(row, amount) ==
    IF amount = 0 /\ row # None /\ rows[row].amount > 0
    THEN rows[row].amount ELSE amount

\* generate_invoice_pdf with all its data asks for the approval...
Generate(c, id, amount) ==
    /\ call[c] = None
    /\ \E row \in DOMAIN rows \cup {None} :
           /\ IF id = None THEN row = None ELSE Found(id, row)
           /\ Amount(row, amount) > 0
           /\ Wait(c, "generate", id, row, Amount(row, amount))

\* ... and without them saves a draft at once.
GenerateDraft(id, amount) ==
    /\ \E row \in DOMAIN rows \cup {None} :
           /\ IF id = None THEN row = None ELSE Found(id, row)
           /\ Amount(row, amount) = 0
           /\ Issue("generate", FALSE, [id |-> id, row |-> row, amount |-> 0])
    /\ UNCHANGED <<call, paid, year, lost>>

\* create_rectificativa_invoice: of the invoice that has the number now, with
\* its amount or the one given, whatever its sign.
Rectify(c, id, amount) ==
    /\ call[c] = None
    /\ \E row \in With(id) :
           /\ Found(id, row)
           /\ Wait(c, "rectify", None, None,
                   IF amount = None THEN rows[row].amount ELSE amount)

\* The approval is granted: the invoice is firm.  It is refused, or nobody
\* answers: a draft.
Resume(c) ==
    /\ call[c] # None
    /\ call[c].tool \in {"generate", "rectify"}
    /\ \E firm \in BOOLEAN : Issue(call[c].tool, firm, call[c])
    /\ Return(c)
    /\ UNCHANGED <<paid, year, lost>>

\* An exception before the number is taken, or a cancellation refused.
Fail(c) ==
    /\ call[c] # None
    /\ Return(c)
    /\ UNCHANGED <<queue, lost, tables>>

\* cancel_invoice looks at the status before it asks...
Cancel(c, id) ==
    /\ call[c] = None
    /\ \E row \in With(id) :
           /\ Found(id, row)
           /\ rows[row].status = "borrador"
           /\ Wait(c, "cancel", None, row, 0)

\* ... and deletes the row after the answer.
Delete(c) ==
    /\ call[c] # None
    /\ call[c].tool = "cancel"
    /\ rows' = [r \in DOMAIN rows \ {call[c].row} |-> rows[r]]
    /\ Return(c)
    /\ UNCHANGED <<last, registered, nextRow, paid, posted, year, queue, lost>>

\* register_payment, in one step: of drafts and rectifications as well, and of
\* any amount up to what is pending, which may be zero or negative.
RegisterPayment(number, amount) ==
    /\ \E row \in With(number) :
           /\ Found(number, row)
           /\ paid[number] < rows[row].amount
           /\ paid[number] + amount <= rows[row].amount
           /\ paid[number] + amount \in Sums[number]
           /\ Cardinality({n \in Numbers : paid[n] # 0} \cup {number}) <= MaxPaid
           /\ rows' = IF paid[number] + amount = rows[row].amount
                      THEN [rows EXCEPT ![row].status = "cobrada"] ELSE rows
    /\ paid' = [paid EXCEPT ![number] = @ + amount]
    /\ UNCHANGED <<call, last, registered, nextRow, posted, year, queue, lost>>
-----------------------------------------------------------------------------
(***************************************************************************)
(* The event bus, the closing of the year and the process.                 *)
(***************************************************************************)

\* Mutant: an event whose booking fails half way stays in the queue.
HandleAgain ==
    /\ queue # <<>>
    /\ \/ /\ year = "open" /\ Post(Head(queue))
          /\ queue' = Tail(queue) \/ UNCHANGED queue
          /\ UNCHANGED lost
       \/ lost' = lost \cup {Head(queue)} /\ queue' = Tail(queue) /\ UNCHANGED posted
    /\ UNCHANGED <<call, last, registered, rows, nextRow, paid, year>>

\* The worker takes the first event and calls handle_invoice_created, which
\* books the invoice.  Whatever that raises, and in a closed year it does, is
\* logged, and the event is gone.
Handle ==
    /\ queue # <<>>
    /\ \/ year = "open" /\ Post(Head(queue)) /\ UNCHANGED lost
       \/ lost' = lost \cup {Head(queue)} /\ UNCHANGED posted
    /\ queue' = Tail(queue)
    /\ UNCHANGED <<call, last, registered, rows, nextRow, paid, year>>

\* close_fiscal_year_tool: whatever is raised after the closing of the books
\* is swallowed, and fiscal_year_status is not written.
CloseYear ==
    /\ year = "open"
    /\ year' \in {"books", "closed"}
    /\ UNCHANGED <<call, last, registered, rows, nextRow, paid, posted, queue,
                   lost>>

\* The process stops, anywhere, and starts again: coroutines and events are
\* gone.
Crash ==
    /\ lost' = lost \cup {queue[i] : i \in DOMAIN queue}
    /\ call' = [c \in Calls |-> None]
    /\ queue' = <<>>
    /\ UNCHANGED tables
-----------------------------------------------------------------------------
Next ==
    \/ \E c \in Calls, id \in Given \cup {None}, amount \in 0..MaxAmount :
           Generate(c, id, amount)
    \/ \E id \in Given \cup {None} : GenerateDraft(id, 0)
    \/ \E c \in Calls, id \in Given, amount \in Corrections :
           Rectify(c, id, amount)
    \/ \E c \in Calls, id \in Given : Cancel(c, id)
    \/ \E c \in Calls : Resume(c) \/ Fail(c) \/ Delete(c)
    \/ \E number \in Given, amount \in Amounts : RegisterPayment(number, amount)
    \/ Handle
    \/ CloseYear
    \/ Crash

Spec == Init /\ [][Next]_vars
-----------------------------------------------------------------------------
\* Every variable has its type, and no id of a row is used again.
TypeOK ==
    /\ call \in [Calls -> CallRecords \cup {None}]
    /\ last \in [Prefixes -> Nat]
    /\ registered \subseteq Numbers
    /\ nextRow \in 1..(MaxRows + 1)
    /\ DOMAIN rows \subseteq 1..(nextRow - 1)
    /\ rows \in [DOMAIN rows -> Rows]
    /\ paid \in [Numbers -> Int]
    /\ queue \in Seq(Numbers)
    /\ posted \in [Numbers -> Nat]
    /\ year \in {"open", "books", "closed"}
    /\ lost \subseteq Numbers

(***************************************************************************)
(* An invoice that the books show as issued, by its status or by the       *)
(* series of its number, is registered with the tax agency: no race of two *)
(* confirmations, no failure half way, no draft given the number of an     *)
(* invoice gets one past the register.                                     *)
(***************************************************************************)
IssuedIsRegistered ==
    \A r \in DOMAIN rows :
        rows[r].status = "firmada" \/ rows[r].number.prefix \in {"F-", "R-"}
            => rows[r].number \in registered

(***************************************************************************)
(* Two rows never carry one registered number.  The table has no UNIQUE    *)
(* for it and updates are not tested: the register keeps them apart, but   *)
(* for an R-BORRADOR number that a caller had registered before the        *)
(* sequence came to it, when the profile had another NIF, or has none.     *)
(***************************************************************************)
RegisteredOnce ==
    \A r, q \in DOMAIN rows :
        rows[r].number = rows[q].number /\ rows[r].number \in registered
            => \/ r = q
               \/ /\ rows[r].number.prefix = "R-BORRADOR-"
                  /\ rows[r].issuer # rows[q].issuer

(***************************************************************************)
(* An invoice is booked at most once, by way of the bus or directly, and   *)
(* only if it is registered, whatever the tools are called with.           *)
(***************************************************************************)
PostedOnce ==
    \A n \in Numbers :
        /\ posted[n] <= 1
        /\ posted[n] = 1 => n \in registered

(***************************************************************************)
(* An issued invoice shown as collected has been paid in full under the    *)
(* number it has now: confirming, renumbering or editing it takes the mark *)
(* away, and a collected invoice takes no payment, nor a negative one.     *)
(* Two rows may carry the number of a draft, with one sum of payments.     *)
(***************************************************************************)
CollectedIsPaid ==
    \A r \in DOMAIN rows :
        rows[r].status = "cobrada" /\ rows[r].number.prefix \in {"F-", "R-"}
            => paid[rows[r].number] >= rows[r].amount

(***************************************************************************)
(* "Si está EMITIDA: Bloquea la eliminación (inmutabilidad VeriFactu)",    *)
(* the docstring of cancel_invoice: an invoice that is registered is not   *)
(* deleted.  It does not hold: the draft may be issued while the           *)
(* cancellation waits for the user's answer.                               *)
(***************************************************************************)
EmittedNotDeleted ==
    [][\A r \in DOMAIN rows :
           rows[r].number \in registered => r \in DOMAIN rows']_vars

(***************************************************************************)
(* An issued invoice is booked, or its event is in the queue, or was lost  *)
(* by a crash or a booking that failed: renumbering drafts, deleting them  *)
(* or confirming them twice loses no booking.                              *)
(***************************************************************************)
IssuedIsBooked ==
    \A r \in DOMAIN rows :
        rows[r].status = "firmada" /\ ~rows[r].rectifies =>
            \/ posted[rows[r].number] = 1
            \/ rows[r].number \in lost
            \/ \E i \in DOMAIN queue : queue[i] = rows[r].number
=============================================================================
