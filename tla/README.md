# Formal verification of the billing core of AI_manager

TLA+ specifications of the parts of AI_manager where several threads, a
database, a file system, a user and a tax authority have to agree: the
Veri*Factu register, the issue of official invoices, their numbering, the
assistant's invoice tools with their event bus, the journal and its closing, and
the approval of critical actions.  TLC checks them on small instances, and TLAPS
proves central properties for instances of every size.

- [The system](#the-system): its components, with state, operations,
  interactions, difficulties and correctness.
- [The modules](#the-modules): what models what, and how it corresponds to the
  code.
- [The runs](#the-runs): what TLC checks, with which bounds, and what it shows.
- [Fairness](#fairness)
- [The proofs](#the-proofs)
- [Where code and documents disagree](#where-code-and-documents-disagree)
- [What is not modelled](#what-is-not-modelled)
- [The plan](#the-plan)

To check a configuration or a proof:

    tlc -workers 2 -config MCVerifactuService_faults.cfg MCVerifactuService
    tlapm VerifactuService_proofs.tla

## The system

AI_manager is a FastAPI server (one uvicorn process, `Dockerfile:57`) that acts
for the owners of small companies: it issues and receives invoices, keeps the
books, files taxes and runs tools a language model asks for.  Each tenant has an
SQLite file of its own.  Coroutines run on one event loop; blocking tools run in
threads; two further threads resend fiscal records.  Paths below are relative to
`src/app/`.

### Billing, books and approval (modelled)

**Veri*Factu register** (`domain/services/verifactu_service.py`, class
`VerifactuService`).
*State*: the table `verifactu_invoices` of each tenant (number, digest of the
previous row, own digest, `status`, `delivery_status`, `retry_count`), one
directory of XML files for all tenants, the class attribute `_lock`, and what
the AEAT holds.
*Operations*: `register_invoice` (decorated with `@retry_on_db_lock`),
`cancel_invoice`, `process_pending_deliveries`, `start_background_worker`.
*Interactions*: called by the invoice tools in request threads, by a daemon
thread every 30 s (36-52) and by an APScheduler job (`main.py:173`).
*Difficulties*: each operation is a sequence of separate effects (read the last
digest, commit an INSERT, write a file, exchange with the AEAT, commit an
UPDATE); the process may die between any two; a locked database makes the
decorator run the operation again from its first line; two workers scan one
table; an invoice may be cancelled between a failed delivery and its resend.
*Correct when*: the chain of each tenant is linear; nothing is sent that has no
row; a cancellation and its invoice are paired; no record is in two exchanges; a
settled delivery status is final; accepted means held by the AEAT; what is
pending is settled in the end.

**Issue of official invoices** (same file: `emitir_factura_legal`,
`reintentar_facturas_incidencia`, `verificar_integridad_cadena`; with
`infrastructure/database/legal_connection.py` and
`domain/services/verifactu_soap_client.py`).
*State*: the same table, with a series, a number and other status values; the
lock of the tenant and the transaction `BEGIN IMMEDIATE` behind
`legal_write_transaction`.
*Interactions*: `POST /invoices/issue` (`api/v1/billing_router.py:310-322`); the
retry has no caller but tests.
*Difficulties*: the exchange with the AEAT is inside the transaction, so that a
rollback undoes the row and not the exchange; a batch of resends commits once,
or not at all; the number is chosen by the client.
*Correct when*: each series is a chain its audit accepts; delivered means held;
what is held is registered; only incidents change their status; requests end and
incidents are settled.

**Both writers together.**  They share the table, SQLite's write lock and the
AEAT, and not `_lock`.  *Correct when*: a number is used once, and neither
rewrites the rows of the other.

**Official invoices of the accounting core**
(`domain/accounting/verifactu_service.py`, `POST /invoices/legal/issue`).
*State*: the table `legal_invoices`.  *Operations*: `issue_legal_invoice`, which
finds the last invoice by clock and by the text of its number, and
`verify_chain_integrity`.  *Difficulties*: clocks set back, numbers longer than
their padding, the end of a year.  *Correct when*: numbers are correlative and
linked, the next number can be issued, audits accept what was issued.

**Approval of critical actions** (`domain/services/approval_service.py`,
`infrastructure/adapters/alfonso_bridge.py`, `api/routes.py:136-163`).  *State*:
the futures of pending approvals, the futures of pending commands, the
dictionary of WebSocket clients by `client_id`.  *Operations*:
`request_approval`, `send_command`, `resolve_approval` and the endpoints that
call it, `handler`, `register`, `unregister`.  *Interactions*: tools ask before
they issue, cancel or delete; the client replies over its WebSocket, the user
answers over REST.  *Difficulties*: a request waits first for the client's reply
(60 s) and then for the user's answer (120 s), and the answer may come during
the first wait; clients are lost and replaced while commands wait, and
`register` awaits the close of the connection it replaces.  *Correct when*: only
the user's consent grants an action, a dead connection does not stay registered,
a request ends, and the answer given to the user is the one that counts.

**Transactions and locks** (`infrastructure/database/connection_manager.py`,
`concurrency.py`, `legal_connection.py`).  *State*: one reentrant lock per
tenant, one cached connection per thread and tenant.  Modelled as the users see
it: mutual exclusion, all-or-nothing commits, a lock error at any commit.

**Invoice tools** (`tools/server/billing_tools.py`: `generate_invoice_pdf`,
`create_rectificativa_invoice`, `cancel_invoice`, `register_payment`; with
`infrastructure/database/repositories/invoice_repository.py`, `core/events.py`
and `domain/services/ledger_service.py`).  *State*: the tables `invoices`,
`invoice_sequences`, `payments`, the register, the ledger, the queue of the
event bus in memory, the closed year.  *Operations*: the tools, the worker of the
bus with the listener that books invoices, `close_fiscal_year_tool`.
*Interactions*: a tool asks for approval, takes a number, registers it, writes a
file and a row, and publishes an event.  *Difficulties*: what was read before a
wait of up to 180 s is used after it; the effects have no common transaction;
any of them may fail; events are in memory only; the table refuses a duplicate
number only on insertion, and by a test of its own.  *Correct when*: what the
books show as issued is registered, no two rows carry one registered number, an
invoice is booked at most once and no booking is lost without a failure, what is
shown as collected is paid, what is issued is not deleted.

**Journal and closing** (`domain/accounting/services.py`,
`domain/services/fiscal_year_closing_service.py`,
`received_invoice_accounting_service.py`, `bank_reconciliation_engine.py`,
`asset_depreciation_engine.py`).  *State*: the entries of each year, the closed
years, proposals with status and entry, invoices received, reconciled movements.
*Operations*: `record_entry`, `approve_and_record_proposal`, `reject_proposal`,
`apply_reconciliation`, `record_depreciation_entries`,
`execute_year_end_closing`.  *Interactions*: approvals run in threads of the
pool, the rest on the event loop; all write one journal.  *Difficulties*: tests
and balances are read in one connection and used in the next transaction; an
approval is three transactions and a reconciliation two.  The rate of the
corporate tax is what the client sends; an account may be of any group, and the
closing knows groups 1 to 7.  *Correct when*: entries balance and are numbered
without gaps, an approved proposal has its invoice and its entry, a movement is
booked once, a closing leaves the accounts at zero and carries them over, a
closed year does not change.

### The rest (not modelled)

| Component | State and operations | What is hard | Correct when |
|---|---|---|---|
| Subscriptions (`api/v1/subscriptions_router.py`, `domain/services/tenant_provisioner.py`) | file of processed Stripe events, tenants | the event is recorded before the tenant is provisioned | a paid tenant is provisioned once |
| Circuit breakers (`infrastructure/resilience/`, `infrastructure/ai_gateway/`) | CLOSED, OPEN, HALF_OPEN, counters | calls that end in a later state than they began | one probe at a time, late results do not reopen |
| Migrations (`infrastructure/database/migrations.py`) | `schema_migrations` | DDL committed before its row | a migration is applied once |
| Audit ledger, SIF event log (`domain/services/audit_ledger.py`, `sif_audit_logger.py`) | chains of events | the last digest is read over one connection, the event inserted over another | the chain of each client verifies |
| WebSocket manager, tasks, monitor, backups, sessions | connections, status columns | little: no guards on transitions | events in order |
| Planner, agents, OCR, tax, payroll, BOE files, mail, calendar, desktop client | text, arithmetic and I/O | little control of their own | unit tests reach it |

## The modules

| Module | Models | Extends / instantiates |
|---|---|---|
| `HashChain` | digests, last digest, linked tables | |
| `ChainLog` | abstract: an append-only log of linked records per owner | `HashChain` |
| `VerifactuService` | the register of one process | `HashChain`; implements `ChainLog` |
| `VerifactuService_proofs`, `VerifactuDelivery_proofs` | theorems about the chain; about cancellations and deliveries | `VerifactuService` |
| `LegalEmission` | the issue of invoices and the retry of incidents | `HashChain`; implements `ChainLog` per series |
| `VerifactuWriters` | register and issue over one table | extends `VerifactuService`, instantiates `LegalEmission` |
| `LegalInvoices` | the accounting core's numbering and audit | `HashChain`; implements `ChainLog` per series |
| `Approval` | requests for approval, the bridge and its connections | |
| `InvoiceTools` | the invoice tools, the event bus, the closing of a year as they see it | |
| `Books` | the journal, received invoices, reconciliation, depreciation, closing | |
| `LegalEmission_proofs`, `VerifactuWriters_proofs`, `LegalInvoices_proofs`, `InvoiceTools_proofs`, `Books_proofs`, `Approval_proofs` | theorems about each | the module they are named after |
| `MC*` | constants and symmetry for TLC | the module they are named after |

**Digests.**  A SHA-256 digest is the sequence of the invoice numbers it covers,
so that it is injective, which is what the code relies on.  The digest of a
cancellation drops the suffix `_ANUL`, as the code does.

**`VerifactuService`.**  `pc[t]` names the next effect of a thread.  A request is
`Request`, `Enter` (`with cls._lock`), `Prepare` (tests, last digest, XML,
signature) or `Refuse`, `Insert`, `WriteFile`, `SendNew`, `Update`.  A worker is
`Scan`, then for each row `Resend` and `RecordRetry`, or `SkipMissing`, then
`EndScan`.  `InsertLocked` and `UpdateLocked` are "database is locked" (the
decorator runs `register_invoice` again, `cancel_invoice` has none),
`DeliveryRaises` and `RetryFails` are exceptions, `Crash` is the death and
restart of the process.  `files` has no tenant because the directory has none.
`AnswerFor` says what the parser may conclude: only an acceptance tells what
happened.  A rejection may be that of a duplicate or of an answer without a clear
state, an ERROR comes of an answer that is empty or not readable, an incident of
none at all: any of them leaves open whether the AEAT stored the record.  The
variable `writer` is the write lock held by somebody else: always free in this
module, driven by emission in `VerifactuWriters`.

**`LegalEmission`.**  A transaction holds `writer[tn]` from `Begin` or
`BeginRetry` to `Leave`, exchanges included.  The UPDATEs of a batch collect in
`patch[t]` and reach `rows` at `Commit`; `Raises`, `BatchRaises` and `Crash` drop
them and keep what the AEAT stored.  `Latest` is `ORDER BY number DESC`.
`InOrder` is an assumption about the clients, switched by a constant: the code
does not choose numbers.  A series is a natural number, ordered as the names
are; names with a hyphen, which the code splits wrongly, are left out.

**`VerifactuWriters`.**  The rows of both writers have all the columns: a row of
the register has the tenant, series and number that migration 027 gives by
default, a row of emission has `delivery_status` PENDIENTE.  `Issued` tells them
apart, by their status.

**`LegalInvoices`.**  The whole issue is one transaction without calls outside
the database, hence one step.  `TextBelow` compares numbers as the texts
`f"{number:04d}"`; digits are in base `Base` and padded to `Width`.

**`Approval`.**  A step is the code between two awaits.  `state[a]` is where
`request_approval` stands: `sending` (in `await target_ws.send`), `bridge` (waits
for the client's reply), `answer` (waits for the user), `granted` or `refused`.
`End` is the return with both `finally` clauses.  `handler[ws]` is the coroutine
of a connection: `new`, a `client_id` while `register` awaits the close of the
old connection (`CloseOld`, then `Replace`), `loop`, `gone`.  `live` is the set
of open connections: the network may close one at any time (`Drop`), its handler
notices later (`Unregister`).  A timeout may fire although the result has just
been set: `asyncio.wait_for` of Python 3.12 then drops the result.

**`InvoiceTools`.**  A tool is one step up to its wait for the approval
(`Generate`, `Rectify`, `Cancel`, which leave in `call[c]` what the coroutine
holds) and one step after it (`Resume`, `Delete`, or `Fail`): between two awaits
nothing else runs on the event loop.  `Issue` is the sequence of transactions
after the answer, cut short after any of them.  `Save` writes the row found
before the wait.  An amount is the total of an invoice: 0 stands for one that is
missing or not positive, which makes a draft, and a rectification has the
opposite of what it rectifies, or of the amount the caller gives.  A row keeps
the NIF its issuer's profile has when it is written, and `Duplicate` is the test
of an INSERT: by number and NIF, and none at all without a NIF.
`RegisterPayment` takes what the code takes, any amount up to what is pending,
zero and below it included, of drafts and rectifications as well.  `Handle` is
the worker of the bus with its listener, `Crash` the stop of the process.  A
number is a prefix and a natural number; the text of a number is taken to be
canonical (the code compares numbers case-insensitively and keeps them as given).
`lost` is no variable of the code: it says which events were dropped.

**`Books`.**  `task[t]` is where an approval stands (`Approve` writes the row of
the invoice, `Test` is the test of `record_entry`, `Record` its transaction,
`Settle` the status), `loop` what the event loop has read for a depreciation
(`Depreciate`, `RecordDepreciation`) or a closing (`Simulate`, `CloseYear`).
`Reconcile` is one step because `apply_reconciliation` holds the lock of the
tenant to its end; its failure between the two commits is its second disjunct.
Accounts are of the six kinds the closing tells apart and of a seventh,
`"others"`: groups 0, 8 and 9, which the journal accepts and the closing ignores.
An amount is debit less credit.  The rate of the tax comes with `Simulate`, in
ten-thousandths and of either sign (`TaxOn`); a tax below zero counts in the
result and has no lines (`Due`).  Two variables are none of the code: `torn`
counts the failures between the commits of a reconciliation, and `leftOut` the
years whose closing left something out of its entries, a tax below zero or a
balance of `"others"`.

## The runs

Twelve, each for a question of its own.  Eight pass:

| Run | Question and answer |
|---|---|
| `register_faults` | Two requests and a worker on two invoices, with a crash, an exception or a locked database at any step and the retries of the decorator: the lock keeps the chain linear (`ChainInv`), what the AEAT holds is registered (`SentIsRegistered`), cancellations are paired (`CancelPaired`), the rows are an append-only log (`ImplementsLog`). |
| `register_retries` | Two workers, two requests, a fault: no record is in two exchanges (`InFlightIsOpen`), a settled status is final (`SettledIsFinal`), accepted is held except for cancelled invoices (`StandingAcceptedIsHeld`); every pending row with a file is settled or uses up its retries (`WaitingDrains`), and requests end (`RequestsEnd`). |
| `emission` | Two emitters and two retriers, three invoices of two series, a fault anywhere: every series passes its audit (`SeriesAudited`) and is an append-only log (`ImplementsLog`); a rollback leaves no delivered row the AEAT does not hold (`DeliveredIsHeld`), and without a fault what is held is registered (`HeldIsRegistered`); nobody rewrites a settled row (`OnlyIncidentsChange`); requests end (`EmissionEnds`); incidents are settled while somebody calls the retry (`IncidentsDrain`). |
| `writers_safety` | Register, worker, emitter and retrier compete for one number: it is used once (`NumbersUnique`), neither writer rewrites the rows of the other (`RowsKept`). |
| `invoices_clock` | Clocks set back and numbers beyond their padding: still correlative (`Correlative`) and an append-only log of linked invoices (`ImplementsLog`), at the price of refusals; without either, the next number is free (`NextIsFree`); the audit accepts a series of one year (`OneYearVerified`). |
| `approval_requests` | A request, three connections of two clients, timeouts and losses in any order: only the user's consent, on a request the client acknowledged, grants an action (`GrantedByUser`), no dead connection stays registered (`GoneUnregistered`), the request ends (`ApprovalsEnd`). |
| `invoice_tools` | Two coroutines over two rows, a failure after any transaction, a crash, a payment and the closing of the year in any order: an issued invoice is registered (`IssuedIsRegistered`), no two rows carry one registered number (`RegisteredOnce`, with one exception, [26](#where-code-and-documents-disagree)), it is booked at most once (`PostedOnce`) and unless an event was dropped at least once (`IssuedIsBooked`), an issued one shown as collected is paid (`CollectedIsPaid`). |
| `books` | Two approvals in threads against a reconciliation, a depreciation and the closing of two years, with failures between transactions: entries are numbered without gaps (`Correlative`) and balance, but for what a closing leaves out (`DoubleEntry`, [28, 29](#where-code-and-documents-disagree)), an approved proposal has its invoice and its entry (`ApprovedIsBooked`), an entry its invoice (`BookedIsInvoiced`), a movement is booked once but for failures (`BookedOnceButFailures`), and a closing nobody came in between leaves groups 1 to 7 at zero and carries the balances over, at a rate above and below zero (`ClosingCarriesOver`). |

Four state what a document or an answer to the user promises and end in a
counterexample: `cancelled_before_delivery`, `confirmed_then_refused`,
`emitted_deleted` and `closed_year`; see
[below](#where-code-and-documents-disagree).

**Bounds.**  Two threads of a kind show every race between two of them; a third
only waits for the same lock.  One invoice is enough to register, cancel, resend
and retry it; two are there so that a row has a predecessor and a link can go
wrong.  `MaxRetries` stands for 10, `MaxAttempts` for the attempts of the
decorator, `Limit` for `LIMIT 50`: one or two rounds reach the last one and the
one before.  `MaxFaults = 1` puts a fault at every point of every behaviour.
`Invs`, `MaxRows`, `MaxClock`, `MaxAmount` and `MaxApprovals` bound what may
grow.  In `LegalInvoices`, base 2 and two digits stand for base 10 and four: a
number outgrows its padding after three invoices instead of 9,999, and one second
set back is enough for a later invoice to have an earlier time.  Symmetry is used
in two runs of safety properties, over request threads and invoices, and over
coroutines; no property tells them apart.

In `Approval` a request and three connections are enough for the races of
`register` (one that is replaced, two that replace it); requests read the
dictionary and do not change it, so that a second one adds nothing.

In `InvoiceTools` two coroutines hold the same row, or two rows one number; the
numbers callers give are a draft's and an invoice's.  `Limit` allows no
R-BORRADOR number in the run: a draft of a rectification is a row with a number
of its own, which the run reaches with BORRADOR numbers as well, and leaving it
out halves the states.  Payments are made under one number (`MaxPaid`), and come
to less than nothing only for an invoice (`Sums`); the issuer has one NIF
(`Issuers`), and a rectification takes the amount of its invoice (`Corrections`);
the proofs have no such bounds.  In `Books` the second of two approvals is the
one of the same proposal, of one whose entry is refused, or the one a closing
comes in between; two years are enough for the order of closings.  A proposal has
a line in `"others"`, and the tax is 25 % or -25 %, one rate for each side of
zero.

**Deadlock** is checked, but in `LegalInvoices`, where a clock at its bound and a
refused number may leave nothing to do, in `Approval`, where every connection is
opened once and the request is answered once, and in `InvoiceTools` and `Books`,
which need not be called.

## Fairness

- A thread inside an operation goes on (`WF` of its steps): exchanges have a
  timeout of 15 s and no step waits for another, except for a lock.
- A thread that waits for a lock gets it (`SF` of `Enter`, `Scan`, `Begin`,
  `BeginRetry`).  `threading.Lock` promises no order; but the worker sleeps
  30 s between two scans, so that the lock is free nearly always.
- `Scan` is fair because the daemon and the scheduler call it for ever.
- `BeginRetry` is fair by assumption only: nothing but tests calls
  `reintentar_facturas_incidencia`.  `IncidentsDrain` says what a caller would
  get; without one it is false.
- `AnswersComeBack` is about the AEAT: an invoice sent again and again is
  answered once.  `WaitingDrains` does without it, because retries are counted.
- In `Approval` the event loop resumes whoever may go on and fires its timers
  (`WF` of `RequestStep` and `HandlerStep`; the close of a connection that
  `register` awaits has a timeout of its own).  A command is smaller than the
  buffer of a socket, so that `send` does not wait for the client.
- No request is forced to be made, or to be invalid, and no fault to happen.

## The proofs

Eight modules, each from the named `ASSUME` of the module it is about (which TLC
evaluates in every run) and otherwise for any number of threads, tenants,
invoices, connections, retries and faults.  What the table puts before a colon is
a hypothesis of the theorem.

| Module | Theorem | States |
|---|---|---|
| `VerifactuService_proofs` | `TypeInvariant`, `TypeCorrect` | `[]TypeInv`, `[]TypeOK` |
| | `ChainInvariant`, `ChainAlwaysLinked` | `[]ChainInv`, `[]ChainLinked` |
| | `ServiceImplementsLog` | `Spec => ImplementsLog` |
| `VerifactuDelivery_proofs` | `AlwaysPaired` | `[]CancelPaired` |
| | `AlwaysRegistered` | `[]SentIsRegistered` |
| | `AlwaysOpen`, `AlwaysFinal` | `[]InFlightIsOpen`, `SettledIsFinal` |
| | `AlwaysStandingHeld` | one tenant: `[]StandingAcceptedIsHeld` |
| `LegalEmission_proofs` | `EmissionInvariant`, `EmissionTyped` | `[]IInv`, `[]TypeOK` |
| | `AlwaysHeld`, `AlwaysOnlyIncidents` | `[]DeliveredIsHeld`, `OnlyIncidentsChange` |
| | `OrderInvariant`, `AlwaysAudited`, `AlwaysRegistered` | clients in order: `[]OrderInv`, `[]SeriesAudited`, `[]HeldIsRegistered` |
| | `EmissionImplementsLog` | clients in order: `Spec => ImplementsLog` |
| `VerifactuWriters_proofs` | `BaseInvariant`, `AlwaysUnique` | `[]BaseInv`, `[]NumbersUnique` |
| | `KnownInvariant`, `AlwaysKept` | `[]KnownInv`; one tenant: `RowsKept` |
| `LegalInvoices_proofs` | `TextsAreOrdered` | `Powers`: the texts of numbers are in a strict total order |
| | `TypeCorrect`, `AlwaysCorrelative`, `AlwaysLinked` | `Powers`: `[]TypeOK`, `[]Correlative`, every row linked to its predecessor |
| | `InvoicesImplementLog` | `Powers`: `Spec => ImplementsLog` |
| | `AlwaysFree`, `AlwaysVerified` | `Powers`: `[]NextIsFree`, `[]OneYearVerified` |
| `InvoiceTools_proofs` | `ToolsInvariant`, `ToolsTyped` | `[]IInv`, `[]TypeOK` |
| | `AlwaysRegistered`, `AlwaysOneRow` | `[]IssuedIsRegistered`, `[]RegisteredOnce` |
| | `AlwaysPostedOnce`, `AlwaysPaid`, `AlwaysBooked` | `[]PostedOnce`, `[]CollectedIsPaid`, `[]IssuedIsBooked` |
| `Books_proofs` | `BooksInvariant` | `[]IInv` |
| | `AlwaysCorrelative`, `AlwaysBooked` | `[]Correlative`, `[]ApprovedIsBooked` |
| | `LedgerInvariant`, `TypeCorrect` | `[]LInv`, `[]TypeOK` |
| | `AlwaysDoubleEntry`, `AlwaysCarriesOver` | `[]DoubleEntry`, `ClosingCarriesOver` |
| | `AlwaysInvoiced`, `AlwaysOnce` | `[]BookedIsInvoiced`, `[]BookedOnceButFailures` |
| `Approval_proofs` | `ApprovalInvariant` | `[]IInv` |
| | `AlwaysGrantedByUser`, `AlwaysUnregistered` | `[]GrantedByUser`, `[]GoneUnregistered` |

**The register.**  `ChainLinked` is not inductive: from a state in which a thread
at its INSERT holds an old digest, the next step breaks the chain.  `PrevFresh`
says that the digest a thread holds at its INSERT is the last one, and `LockHeld`
that whoever is past `Enter` holds `_lock`, so that nobody else can append in
between.  The conjunction `ChainInv`, with the types, is inductive.  Two lemmas
about tables carry it: `AppendLinked` (a row with the last digest keeps a table
linked) and `SameLinksLinked` (updates of status, delivery and retries change no
link).  The refinement follows: under `PrevFresh` an INSERT is `AppendRecord`,
and any other step leaves the log of every tenant as it is.

**Its deliveries.**  Under the same lock, what a thread knows stays true until it
leaves: that the invoice it cancels has a row (`CancelKnown`), that what it has
sent has one (`InHand`), that its list is the table as it is (`TodoIsTable`),
what its answer meant (`AnswerKnown`).  A file must be known to have a row
(`FilesRegistered`), because the worker sends files, not rows.
`StandingAcceptedIsHeld` assumes one tenant: tenants share the directory, and the
XML of one may be sent for the row of another
([8](#where-code-and-documents-disagree)).

**Emission.**  From `Begin` to `Leave` a thread is the only writer of its tenant
(`Exclusive`), so that the rows of a batch are still incidents when it commits
(`Collected`) and what it commits as delivered is held (`Known`).  The code does
not look at the number a client gives, so that the audit, and the refinement,
assume clients that use the numbers of a series in order.  Then the number of a
request is above those of its series and no other thread is asked for one
(`Turn`), the digest a thread holds is the newest (`PrevFresh`), and every row is
linked to the one before it in the order of the audit (`Chained`).  For the
refinement that order must be the order of the rows (`Ascending`); a log is a
sequence of ranks, which `RankExists` and `LogAppend` take apart.

**Both writers.**  They have no lock in common: nothing a thread has read is
still true at its next step except what neither writer ever undoes, that a row
stays with its number, its kind and its writer.  That is enough: an UPDATE of
the register finds its row by number, a number has one row, and the worker
passes over an issued invoice because a file of its number would have a row of
the register (`FilesKnown`).  The last fact needs one tenant, as above.

**The numbers of `legal_invoices`.**  That a number is free does not say that it
is the next one.  `Numbered` adds that a series of *n* rows holds every number of
1..*n* once: the row found last has a number *k* of them, *k* + 1 is free, hence
*k* = *n*.  The clock does not matter to it; the order of the texts does, in that
there must be a last row.  Texts are compared by dividing by powers of ten, and
the provers know nothing of `^`: the theorems say in `Powers` what a power is
(`Base^0 = 1`, `Base^(d + 1) = Base * Base^d`, the definition of the module
`Integers`), and `TextsAreOrdered` follows by two inductions, each by the least
counterexample (`LeastNat`).  As a series of *n* rows holds each number once, the
row with number *k* is the *k*th record of its log (`LogHolds`), and an issue
appends to it (`LogAppend`, `LogLast`): the refinement.  `AlwaysFree` adds
`Clocked`: while the clock has not been set back no row is later than it, and
later rows have later times; so the row read by time and text is the one with the
largest number.  `AlwaysVerified` rests on padded texts being in the order of
their numbers, so that the chain is walked in the order it was written.

**The invoice tools.**  A call holds what it read before its wait, while others
change the rows.  `KnownRow` says what is still true of it: a draft that is being
confirmed has not lost its number to another row.  `QueueFresh` says that a
number is in the queue once and not booked yet.  The run leaves out the numbers
of drafts of rectifications; the proofs cover them.  `OneRow` says of every
number but that of a plain draft that it has one row, or is an R-BORRADOR number
registered for one row while the other has another issuer; `DraftsNumbered` why
no other such pair comes about: the draft of a rectification has a number the
sequence has passed.  `CollectedIsPaid` is kept by negative payments as well,
because a row that is collected has nothing pending and no issued row shares its
number.

**The books.**  What a thread in the middle of an approval knows (`TasksKnow`)
outlives the steps of the other writers, because the journal only grows and is
numbered inside the transaction that writes.  `LInv` adds what the entries say.
*The amounts*: a balance is a sum over a journal of any length; what a sum is
follows by induction on the entries (`SumIs`, `SumAppend`).  An entry balances
(`TotalAdds`, `TotalOfSums`): one of a document because it passed the test, those
of a closing because their lines are balances, which sum to what all the entries
sum to, nothing, unless the closing leaves a part of that sum out.  Then its
entries need not balance, nor those of a later year, whose balances they are in:
`Unbroken(y, leftOut)` says that this has not happened up to year *y*, and
`Tested` that the balances read for a closing sum to nothing as long as it has
not.  `ClosingCarriesOver` is then read off the entries a closing writes
(`CloseYearIs`), account by account.  *The documents*: that an invoice has no
more entries than copies is not inductive, as a thread writes the invoice first
and the entry later.  `Invoiced` counts the entries of a document and the threads
on their way to write one (`Writing`) against its invoices; the entries of a
closing are of no document.

**Approval.**  `GrantedByUser` is about the last step of a request, and its first
wait has to be remembered until then (`Acknowledged`).  `GoneUnregistered` needs
a dictionary with one entry per connection (`OneEntry`): `unregister` removes
one, and a second would stay.

Every safety invariant, action property and refinement a passing run checks is
stated by a theorem.  Model-checked only: the liveness properties
(`WaitingDrains`, `RequestsEnd`, `EmissionEnds`, `IncidentsDrain`,
`ApprovalsEnd`), as fairness and `ENABLED` are beyond TLAPS 1.4.5.  Two
hypotheses of the table are about the use of the code and cannot be dropped: with
two tenants `StandingAcceptedIsHeld` is false of it, and so is the audit with
clients that skip numbers.  `Powers` is about `^` alone.

## Where code and documents disagree

With a run that shows it:

1. *An invoice cancelled before its delivery counts as accepted*
   (`cancelled_before_delivery`).  The worker takes the kind of the XML from the
   status of the row (1091): a cancelled invoice whose own delivery is pending
   has the XML of its cancellation sent in its place, and gets that answer.
2. *A confirmed action is refused* (`confirmed_then_refused`).  The endpoint
   answers "Acción confirmada y en ejecución" while `request_approval` still
   waits for the client's reply; an error or 60 s without one refuse the action.
   The agent of the repository always replies with an error: it has no handler
   for `approval_required` (`src/client/alfonso_agent.py:798`).
3. *An issued invoice is deleted* (`emitted_deleted`).  `cancel_invoice` looks at
   the status, waits for the user and deletes by row id; a draft issued during
   the wait keeps its id.
4. *A closed year is written into* (`closed_year`).  `record_entry` tests the
   year before its transaction; the year may be closed in between.

Found while modelling, described here only.  In the register and the issue of
invoices (`domain/services/verifactu_service.py`, where no file is named):

5. A row without its file is pending for ever: the row is committed before the
   file is written (597-602); a resend passes over rows without a file and counts
   no retry (1099).
6. A number used twice reaches the AEAT twice: emission sends first and inserts
   afterwards, UNIQUE rolls the row back, and nothing of the exchange is kept.
7. The second year fails its audit: series `F2026` and its chain go on from year
   to year, the audit of a year starts from an empty digest
   (`domain/accounting/verifactu_service.py:154`).
8. Two tenants with the same invoice number overwrite each other's XML file
   (1095), and the worker resends the wrong one.
9. The worker has no tenant: pending rows of any tenant but the default one are
   never resent (1079).
10. The audit without a series carries the expected digest from one series into
    the next (1145), and fails on untouched rows.
11. Number 2 before number 1 of a series is accepted, and the audit of the series
    then fails (199).
12. The event NETWORK_OUTAGE of emission is never written (239): its transaction
    cannot begin inside the one of the invoice, and the exception is swallowed.
13. Nobody calls `reintentar_facturas_incidencia` (335).
14. `register_invoice` links to the last row of the table (74), emission to the
    last of its series (199): the table is not one chain.
15. A record whose answer was lost is rejected as a duplicate when it is sent
    again; `es_duplicado` (890) is computed and not used.

In the tools and the books:

16. A draft confirmed twice in parallel has two numbers registered and one row:
    the second write takes the place of the first (`billing_tools.py:1389`).
17. A failure after the registration leaves a registered number without a row,
    and a call with the same number is then refused by the register (1155).
18. An event whose booking raises is logged and gone, and so is what is in the
    queue when the process stops (`core/events.py:24`).
19. Invoice endpoints pass `confirmed_by_user`, which the tools do not take
    (`billing_router.py:152`, `accounting_router.py:37`): they raise a TypeError.
20. A number R-BORRADOR confirmed through `generate_invoice_pdf` stays the number
    of the firm invoice.
21. The status of a proposal is not looked at: it may be booked twice, rejected
    after it was booked, or approved after it was rejected
    (`received_invoice_accounting_service.py:126`).
22. `ApproveInvoiceProposalCommand.tenant_id` is "default_tenant" by default
    (`domain/schemas.py:973`): the entry may go to another tenant than the
    invoice.
23. The journal has no UNIQUE for numbers: `init_all_schemas`
    (`connection_manager.py:109`) makes the table before
    `domain/accounting/services.py:73`, whose statement has it.
24. The depreciation of a year does not test that the year is open, and a year
    closed before the one before it is opened by that closing.
25. `apply_reconciliation` commits the entry before the link: a failure between
    them books the movement again at the next attempt
    (`bank_reconciliation_engine.py:395`); it fails on the invoices of the tools,
    whose total is encrypted.
26. An R-BORRADOR number that a caller registers before the sequence comes to it
    is given to the draft of a rectification as well; the test for duplicates
    keeps the two apart unless the issuer's NIF has changed in between
    (`invoice_repository.py:22`, `:40`).
27. A payment may be of zero or less (`billing_tools.py:1750`).
28. *Groups 0, 8 and 9 are neither closed nor carried over.*  A line may be of
    any account (`domain/accounting/ports.py:44`), and the accounts of an
    approval or a reconciliation are the client's to choose
    (`domain/schemas.py:977-979`, 1109-1112); the closing collects groups 6 and 7
    (`fiscal_year_closing_service.py:87-98`) and 1 to 5 (149).  A balance in
    another group stays in its year, against "todas las cuentas patrimoniales a
    cero" (220), and the entry of the closing and the opening do not balance by
    as much, against "cuadre obligatorio" (`domain/accounting/services.py:3`).
29. *A tax below zero unbalances the closing.*  `corporate_tax_rate` is any float
    (`domain/schemas.py:757`, `api/v1/financial_statements_router.py:205`).  With
    a negative rate the tax counts in the result
    (`fiscal_year_closing_service.py:106`) and is written nowhere: its lines
    (128, 159) and its entry (255) are for amounts above zero.

Elsewhere:

30. `verify_ledger_integrity` without a client expects one chain over all clients
    (`audit_ledger.py:146`); `log_audit_event` keeps one per client.
31. Two connections with one `client_id` may both wait for the close of a third
    (`alfonso_bridge.py:110-115`): the first of them to register stays open and
    is in the dictionary no more, a ghost of the kind the comment at 109 is
    about.
32. A Stripe event is recorded as processed before its tenant is provisioned
    (`subscriptions_router.py:153`): after a failure every redelivery is ignored.

## What is not modelled

Of the modelled components: the contents of XML documents, signatures,
certificates and digests beyond what they cover; the text of answers beyond what
the parser concludes; pragmas, savepoints and the cache of connections; several
processes over one database (the server has one); quotes, clients, products,
items, stock, mail and PDF files of the invoice tools, and the entry and event of
a payment; the column `invoices.status` that a reconciliation sets; the
suggestions and scores of the reconciliation; OCR and
`create_proposal_from_metadata`, which nothing calls;
`LedgerService.close_fiscal_year`, `reopen` and
`AccountingService.close_fiscal_year`, which only tests call.

Of the rest: subscriptions, migrations and circuit breakers have states worth a
model of their own, and are left out of this project so far; their hazards are
listed in `PROJECT.json`.  The audit ledger and the SIF event log are chains
written by one event loop, the shape `ChainLog` has without the difficulties.
Tasks, monitor, sessions and backups have no guard on a transition that could be
broken.  The planner and the agents dispatch on text; tax, payroll and BOE files
are sequential arithmetic over legal tables; mail, calendar, browser tools and
the desktop client are input and output.

## The plan

1. `Provisioning`: processed events, provisioning, migrations, crash and
   redelivery; abstract: each paid event is provisioned exactly once.
2. `CircuitBreaker`: both breakers, late results, probes.
