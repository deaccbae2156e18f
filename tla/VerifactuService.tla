--------------------------- MODULE VerifactuService ---------------------------
(***************************************************************************)
(* The Veri*Factu register of one server process                           *)
(* (app/domain/services/verifactu_service.py): register_invoice,           *)
(* cancel_invoice and process_pending_deliveries.                          *)
(*                                                                         *)
(* Request threads register and cancel invoices; worker threads (the       *)
(* daemon started by start_background_worker and the hourly APScheduler    *)
(* job) send again what was not delivered.  All of them hold the class     *)
(* attribute _lock for a whole operation, but the operation itself is a    *)
(* sequence of separate effects: a read of the last digest, a committed    *)
(* INSERT, a file, a SOAP exchange and a committed UPDATE.  The process    *)
(* may die between any two of them, and SQLite may answer "database is     *)
(* locked" to any commit, which makes @retry_on_db_lock run                *)
(* register_invoice again from its first line.                             *)
(***************************************************************************)
EXTENDS HashChain, Naturals, FiniteSets

CONSTANTS
    Callers,        \* request threads: register_invoice and cancel_invoice
    Workers,        \* threads that run process_pending_deliveries
    Tenants,        \* each tenant has a database file of its own
    DefaultTenant,  \* the tenant_context of a thread nobody set it for
    Invoices,       \* invoice numbers
    Answers,        \* the delivery statuses the AEAT exchange may end with
    MaxRetries,     \* retry_count < 10 in process_pending_deliveries
    MaxAttempts,    \* attempts of @retry_on_db_lock
    MaxFaults,      \* bound: crashes, failed file writes and locked commits
    None

Threads == Callers \cup Workers

\* delivery_status, by what the register does with a row that has it.
Accepted  == {"ACEPTADO", "ACEPTADO_CON_ERRORES"}
Refused   == {"RECHAZADO", "ERROR_AUTH"}
Retryable == {"PENDIENTE", "INCIDENCIA_RED", "ERROR"}
Delivery  == Accepted \cup Refused \cup Retryable

ASSUME ConstantsAssumption ==
    /\ Callers \cap Workers = {}
    /\ None \notin Threads \cup Tenants \cup Invoices \cup Delivery
    /\ DefaultTenant \in Tenants
    /\ Answers \subseteq Delivery \ {"PENDIENTE"}
    /\ MaxRetries \in Nat /\ MaxAttempts \in Nat /\ MaxFaults \in Nat

VARIABLES
    rows,    \* rows[tn]: the committed rows of verifactu_invoices, by id
    files,   \* files[inv, kind]: the record in data/xml_invoices, or None
    aeat,    \* the records the AEAT holds
    lock,    \* the thread that holds VerifactuService._lock, or None
    writer,  \* writer[tn]: the foreign transaction that has the write lock
    pc,      \* pc[t]: the next effect of thread t
    call,    \* call[t]: the arguments and local variables of a request
    todo,    \* todo[w]: the rows a worker has selected and not yet handled
    answer,  \* answer[t]: the delivery status the last exchange ended with
    faults   \* faults so far

vars == <<rows, files, aeat, lock, writer, pc, call, todo, answer, faults>>

Kinds == {"alta", "anulacion"}

\* A signed XML record.  Its Huella element is the digest it is linked to.
Xml(tn, inv, kind, prev) ==
    [tenant |-> tn, inv |-> inv, kind |-> kind, prev |-> prev]

\* A new row.  invoice_number is inv, or inv with "_ANUL" for a cancellation.
Row(inv, kind, prev) ==
    [inv |-> inv, kind |-> kind, prev |-> prev, hash |-> Digest(inv, prev),
     status |-> IF kind = "alta" THEN "ALTA" ELSE "ANULADA",
     delivery |-> "PENDIENTE", retries |-> 0]

RowXml(tn, row) == Xml(tn, row.inv, row.kind, row.prev)

Has(table, inv, kind) ==
    \E i \in DOMAIN table : table[i].inv = inv /\ table[i].kind = kind

NoCall == [tenant |-> DefaultTenant, inv |-> None, kind |-> "alta",
           prev |-> Genesis, attempt |-> 0]

Init ==
    /\ rows = [tn \in Tenants |-> <<>>]
    /\ files = [name \in Invoices \X Kinds |-> None]
    /\ aeat = {}
    /\ lock = None
    /\ writer = [tn \in Tenants |-> None]
    /\ pc = [t \in Threads |-> "idle"]
    /\ call = [t \in Threads |-> NoCall]
    /\ todo = [w \in Threads |-> <<>>]
    /\ answer = [t \in Threads |-> None]
    /\ faults = 0
-----------------------------------------------------------------------------
(***************************************************************************)
(* Control.                                                                *)
(***************************************************************************)

Goto(t, step) == pc' = [pc EXCEPT ![t] = step]

\* The operation of t ends, with a result or an exception: `with cls._lock`.
Leave(t) ==
    /\ lock' = None
    /\ pc' = [pc EXCEPT ![t] = "idle"]
    /\ call' = [call EXCEPT ![t] = NoCall]
    /\ answer' = [answer EXCEPT ![t] = None]
    /\ todo' = [todo EXCEPT ![t] = <<>>]

\* One more fault of the environment.
Fault == faults < MaxFaults /\ faults' = faults + 1

(***************************************************************************)
(* "database is locked": @retry_on_db_lock runs register_invoice again; it *)
(* does not decorate cancel_invoice.  Either way _lock is released by the  *)
(* exception.                                                              *)
(***************************************************************************)
Locked(t) ==
    /\ Fault
    /\ IF call[t].kind = "alta" /\ call[t].attempt < MaxAttempts
       THEN /\ lock' = None
            /\ Goto(t, "enter")
            /\ call' = [call EXCEPT ![t].attempt = @ + 1, ![t].prev = Genesis]
            /\ answer' = [answer EXCEPT ![t] = None]
            /\ UNCHANGED todo
       ELSE Leave(t)

\* Mutant: the class lock is not taken.
EnterUnlocked(t) == TRUE

\* threading.Lock: a thread enters when nobody is inside.
CanEnter(t) == lock = None

\* Mutant: HTTP 200 is taken for the acceptance of the record.
AnswerByHttpCode(status, stored) == TRUE

\* What parse_aeat_soap_response may conclude from an exchange after which
\* the AEAT, which is external, has, or has not, stored the record.  Only an
\* answer that says so counts as an acceptance.  Any other says nothing of what
\* is stored: an incident, an answer that is empty or cannot be read (ERROR),
\* one without a clear state, or a duplicate's rejection (RECHAZADO).
AnswerFor(status, stored) == status \in Accepted => stored

\* send_to_aeat_sif.
Send(t, xml) ==
    \E status \in Answers, stored \in BOOLEAN :
        /\ AnswerFor(status, stored)
        /\ aeat' = IF stored THEN aeat \cup {xml} ELSE aeat
        /\ answer' = [answer EXCEPT ![t] = status]
-----------------------------------------------------------------------------
(***************************************************************************)
(* register_invoice (kind "alta") and cancel_invoice (kind "anulacion").   *)
(***************************************************************************)

Request(t, tn, inv, kind) ==
    /\ pc[t] = "idle"
    /\ Goto(t, "enter")
    /\ call' = [call EXCEPT ![t] = [tenant |-> tn, inv |-> inv, kind |-> kind,
                                    prev |-> Genesis, attempt |-> 1]]
    /\ UNCHANGED <<rows, files, aeat, lock, writer, todo, answer, faults>>

Enter(t) ==
    /\ pc[t] = "enter"
    /\ CanEnter(t)
    /\ lock' = t
    /\ Goto(t, "read")
    /\ UNCHANGED <<rows, files, aeat, writer, call, todo, answer, faults>>

\* cancel_invoice needs the row of the invoice with status 'ALTA'.
Cancellable(table, inv) ==
    \E i \in DOMAIN table :
        table[i].inv = inv /\ table[i].kind = "alta" /\ table[i].status = "ALTA"

\* Mutant: the last invoice that is not cancelled.
ReadPrevStanding(t) ==
    LET Standing(row) == row.status = "ALTA"
    IN  LastHash(SelectSeq(rows[call[t].tenant], Standing))

\* get_last_invoice_hash, then the digest, the XML and the signature.
ReadPrev(t) == LastHash(rows[call[t].tenant])

Prepare(t) ==
    /\ pc[t] = "read"
    /\ call[t].kind = "anulacion" =>
           Cancellable(rows[call[t].tenant], call[t].inv)
    /\ call' = [call EXCEPT ![t].prev = ReadPrev(t)]
    /\ Goto(t, "insert")
    /\ UNCHANGED <<rows, files, aeat, lock, writer, todo, answer, faults>>

\* Fiscal validation, certificate, issuer identity or XSD fail, or there is
\* nothing to cancel.
Refuse(t) ==
    /\ pc[t] = "read"
    /\ Leave(t)
    /\ UNCHANGED <<rows, files, aeat, writer, faults>>

\* Mutants: the original keeps its status, or is deleted.
CancelledNot(table, inv) == table

CancelledDeleted(table, inv) ==
    LET Other(row) == row.inv # inv IN SelectSeq(table, Other)

\* The row of the original becomes 'ANULADA' in the transaction that inserts
\* the row of its cancellation.
Cancelled(table, inv) ==
    [i \in DOMAIN table |->
        IF table[i].inv = inv /\ table[i].kind = "alta"
        THEN [table[i] EXCEPT !.status = "ANULADA"] ELSE table[i]]

Inserted(table, c) ==
    Append(IF c.kind = "anulacion" THEN Cancelled(table, c.inv) ELSE table,
           Row(c.inv, c.kind, c.prev))

\* Mutant: INSERT OR IGNORE, a repeated number goes on to the exchange.
InsertOrIgnore(t) ==
    /\ pc[t] = "insert"
    /\ writer[call[t].tenant] = None
    /\ LET c == call[t] IN
       IF Has(rows[c.tenant], c.inv, c.kind)
       THEN rows' = rows
       ELSE rows' = [rows EXCEPT ![c.tenant] = Inserted(@, c)]
    /\ Goto(t, "file")
    /\ UNCHANGED <<files, aeat, lock, writer, call, todo, answer, faults>>

\* The INSERT: the committed row, or the UNIQUE violation that ends the call.
Insert(t) ==
    /\ pc[t] = "insert"
    /\ writer[call[t].tenant] = None
    /\ LET c == call[t] IN
       IF Has(rows[c.tenant], c.inv, c.kind)
       THEN Leave(t) /\ UNCHANGED <<rows, files, aeat, writer, faults>>
       ELSE /\ rows' = [rows EXCEPT ![c.tenant] = Inserted(@, c)]
            /\ Goto(t, "file")
            /\ UNCHANGED <<files, aeat, lock, writer, call, todo, answer,
                           faults>>

InsertLocked(t) ==
    /\ pc[t] = "insert"
    /\ Locked(t)
    /\ UNCHANGED <<rows, files, aeat, writer>>

\* {invoice_number}_verifactu.xml or {invoice_number}_anulacion_verifactu.xml:
\* the directory is the same for every tenant.
WriteFile(t) ==
    /\ pc[t] = "file"
    /\ LET c == call[t] IN
       files' = [files EXCEPT ![<<c.inv, c.kind>>] =
                     Xml(c.tenant, c.inv, c.kind, c.prev)]
    /\ Goto(t, "send")
    /\ UNCHANGED <<rows, aeat, lock, writer, call, todo, answer, faults>>

\* The file cannot be written, or send_to_aeat_sif raises (production and no
\* certificate): the row stays as it was inserted.
DeliveryRaises(t) ==
    /\ pc[t] \in {"file", "send"}
    /\ Fault
    /\ Leave(t)
    /\ UNCHANGED <<rows, files, aeat, writer>>

SendNew(t) ==
    /\ pc[t] = "send"
    /\ LET c == call[t] IN Send(t, Xml(c.tenant, c.inv, c.kind, c.prev))
    /\ Goto(t, "update")
    /\ UNCHANGED <<rows, files, lock, writer, call, todo, faults>>

\* UPDATE ... SET delivery_status WHERE invoice_number = ?
Answered(table, inv, kind, status) ==
    [i \in DOMAIN table |->
        IF table[i].inv = inv /\ table[i].kind = kind
        THEN [table[i] EXCEPT !.delivery = status] ELSE table[i]]

Update(t) ==
    /\ pc[t] = "update"
    /\ writer[call[t].tenant] = None
    /\ LET c == call[t] IN
       rows' = [rows EXCEPT ![c.tenant] =
                    Answered(@, c.inv, c.kind, answer[t])]
    /\ Leave(t)
    /\ UNCHANGED <<files, aeat, writer, faults>>

UpdateLocked(t) ==
    /\ pc[t] = "update"
    /\ Locked(t)
    /\ UNCHANGED <<rows, files, aeat, writer>>
-----------------------------------------------------------------------------
(***************************************************************************)
(* process_pending_deliveries, in a thread with the default tenant.        *)
(***************************************************************************)

\* Mutants: the SELECT without its bound on retry_count, and without its list
\* of delivery statuses.
PendingUnbounded(row) == row.delivery \in Retryable

PendingAny(row) == row.retries < MaxRetries

\* The WHERE clause of its SELECT.
Pending(row) == row.delivery \in Retryable /\ row.retries < MaxRetries

\* A selected row: what the loop uses of it.  is_anulacion is decided by
\* the status of the row, retry_count is the value read by the SELECT.
Item(row) ==
    [inv |-> row.inv, retries |-> row.retries,
     xmlKind |-> IF row.status = "ANULADA" THEN "anulacion" ELSE "alta"]

Selected(table) ==
    [id \in {i \in DOMAIN table : Pending(table[i])} |-> Item(table[id])]

Scan(w) ==
    /\ pc[w] = "idle"
    /\ CanEnter(w)
    /\ lock' = w
    /\ todo' = [todo EXCEPT ![w] = Selected(rows[DefaultTenant])]
    /\ Goto(w, "next")
    /\ UNCHANGED <<rows, files, aeat, writer, call, answer, faults>>

\* The row the loop is at: the rows are handled in the order of their ids.
IsNext(w, id) ==
    id \in DOMAIN todo[w] /\ \A j \in DOMAIN todo[w] : id <= j

FileOf(item) == files[<<item.inv, item.xmlKind>>]

\* Mutant: the row is not taken off the list.
NextItemSame(w, id) == UNCHANGED todo

\* The loop goes on with the row after id.
NextItem(w, id) ==
    todo' = [todo EXCEPT ![w] = [j \in DOMAIN todo[w] \ {id} |-> todo[w][j]]]

Resend(w, id) ==
    /\ pc[w] = "next"
    /\ FileOf(todo[w][id]) # None
    /\ Send(w, FileOf(todo[w][id]))
    /\ Goto(w, "record")
    /\ UNCHANGED <<rows, files, lock, writer, call, todo, faults>>

\* No XML on disk: the row is passed over and its retry_count kept.
SkipMissing(w, id) ==
    /\ pc[w] = "next"
    /\ FileOf(todo[w][id]) = None
    /\ NextItem(w, id)
    /\ UNCHANGED <<rows, files, aeat, lock, writer, pc, call, answer, faults>>

\* Mutant: retry_count is not updated.
RetriedUncounted(row, status, count) == [row EXCEPT !.delivery = status]

Retried(row, status, count) ==
    [row EXCEPT !.delivery = status, !.retries = count]

RecordRetry(w, id) ==
    /\ pc[w] = "record"
    /\ writer[DefaultTenant] = None
    /\ rows' = [rows EXCEPT ![DefaultTenant][id] =
                    Retried(@, answer[w], todo[w][id].retries + 1)]
    /\ NextItem(w, id)
    /\ answer' = [answer EXCEPT ![w] = None]
    /\ Goto(w, "next")
    /\ UNCHANGED <<files, aeat, lock, writer, call, faults>>

\* "No se pudo procesar el reenvio": the file, the exchange or the UPDATE
\* raised; logged, and on to the next row.
RetryFails(w, id) ==
    /\ pc[w] = "record" \/ (pc[w] = "next" /\ FileOf(todo[w][id]) # None)
    /\ Fault
    /\ NextItem(w, id)
    /\ answer' = [answer EXCEPT ![w] = None]
    /\ Goto(w, "next")
    /\ UNCHANGED <<rows, files, aeat, lock, writer, call>>

EndScan(w) ==
    /\ pc[w] = "next"
    /\ DOMAIN todo[w] = {}
    /\ Leave(w)
    /\ UNCHANGED <<rows, files, aeat, writer, faults>>
-----------------------------------------------------------------------------
\* The process dies and is started again: the tables, the files and the AEAT
\* keep what they have.
Crash ==
    /\ Fault
    /\ lock' = None
    /\ pc' = [t \in Threads |-> "idle"]
    /\ call' = [t \in Threads |-> NoCall]
    /\ todo' = [t \in Threads |-> <<>>]
    /\ answer' = [t \in Threads |-> None]
    /\ UNCHANGED <<rows, files, aeat, writer>>

\* The steps of a request after its call, and those of a worker.
CallerStep(t) ==
    \/ Enter(t) \/ Prepare(t) \/ Refuse(t) \/ Insert(t) \/ InsertLocked(t)
    \/ WriteFile(t) \/ DeliveryRaises(t) \/ SendNew(t) \/ Update(t)
    \/ UpdateLocked(t)

WorkerStep(w) ==
    \/ Scan(w)
    \/ \E id \in DOMAIN todo[w] :
           /\ IsNext(w, id)
           /\ \/ Resend(w, id) \/ SkipMissing(w, id)
              \/ RecordRetry(w, id) \/ RetryFails(w, id)
    \/ EndScan(w)

Next ==
    \/ \E t \in Callers, tn \in Tenants, inv \in Invoices, kind \in Kinds :
           Request(t, tn, inv, kind)
    \/ \E t \in Callers : CallerStep(t)
    \/ \E w \in Workers : WorkerStep(w)
    \/ Crash

Spec == Init /\ [][Next]_vars

(***************************************************************************)
(* Fairness.  A thread that can go on does; threading.Lock makes no        *)
(* promise about order, so that a thread that finds the lock free again    *)
(* and again is assumed to get it in the end.  Nobody is forced to issue a *)
(* request, and no fault is forced to happen.                              *)
(***************************************************************************)
Fairness ==
    /\ \A t \in Callers : WF_vars(CallerStep(t)) /\ SF_vars(Enter(t))
    /\ \A w \in Workers : WF_vars(WorkerStep(w)) /\ SF_vars(Scan(w))

FairSpec == Spec /\ Fairness
-----------------------------------------------------------------------------
(***************************************************************************)
(* Invariants.                                                             *)
(***************************************************************************)

CallerSteps == {"enter", "read", "insert", "file", "send", "update"}
WorkerSteps == {"next", "record"}

XmlSet == [tenant : Tenants, inv : Invoices, kind : Kinds, prev : Seq(Invoices)]

RowSet == [inv : Invoices, kind : Kinds, prev : Seq(Invoices),
           hash : Seq(Invoices), status : {"ALTA", "ANULADA"},
           delivery : Delivery, retries : 0..MaxRetries]

ItemSet == [inv : Invoices, retries : 0..MaxRetries, xmlKind : Kinds]

TodoOK(w) ==
    /\ DOMAIN todo[w] \subseteq DOMAIN rows[DefaultTenant]
    /\ \A id \in DOMAIN todo[w] : /\ todo[w][id] \in ItemSet
                                  /\ todo[w][id].retries < MaxRetries

\* Every variable has its type, and the rows a worker still has to handle
\* are rows of the table.
TypeOK ==
    /\ rows \in [Tenants -> Seq(RowSet)]
    /\ files \in [Invoices \X Kinds -> XmlSet \cup {None}]
    /\ aeat \subseteq XmlSet
    /\ lock \in Threads \cup {None}
    /\ writer \in [Tenants -> {None}]
    /\ pc \in [Threads -> {"idle"} \cup CallerSteps \cup WorkerSteps]
    /\ call \in [Threads -> [tenant : Tenants, inv : Invoices \cup {None},
                             kind : Kinds, prev : Seq(Invoices), attempt : Nat]]
    /\ DOMAIN todo = Threads /\ \A w \in Threads : TodoOK(w)
    /\ answer \in [Threads -> Answers \cup {None}]
    /\ faults \in 0..MaxFaults

(***************************************************************************)
(* The chain of every tenant is linear: each row is linked to the row with *)
(* the previous id, whatever requests, resends, retries and crashes        *)
(* interleave.  get_last_invoice_hash reads outside the transaction of the *)
(* INSERT, so that only _lock keeps two requests from linking to one row.  *)
(***************************************************************************)
ChainLinked == \A tn \in Tenants : Linked(rows[tn])

(***************************************************************************)
(* Why the chain is linear, as an inductive invariant: a thread past       *)
(* "enter" holds _lock, alone; so the digest that register_invoice or      *)
(* cancel_invoice read is still the last one when its INSERT commits.      *)
(***************************************************************************)
Inside(t) == pc[t] \notin {"idle", "enter"}

LocalsOK ==
    /\ \A t \in Callers : pc[t] # "idle" => call[t].inv # None
    /\ \A t \in Threads : pc[t] \in {"update", "record"} => answer[t] # None

LockHeld == \A t \in Threads : Inside(t) => lock = t

PrevFresh ==
    \A t \in Callers :
        pc[t] = "insert" => call[t].prev = LastHash(rows[call[t].tenant])

TypeInv == TypeOK /\ LocalsOK

ChainInv == LockHeld /\ PrevFresh /\ ChainLinked

(***************************************************************************)
(* Whatever the AEAT holds has a committed row with the same link: the     *)
(* INSERT comes before the SOAP exchange, and a call that ends in a UNIQUE *)
(* violation sends nothing.                                                *)
(***************************************************************************)
SentIsRegistered ==
    \A xml \in aeat :
        \E i \in DOMAIN rows[xml.tenant] :
            RowXml(xml.tenant, rows[xml.tenant][i]) = xml

(***************************************************************************)
(* An invoice is marked 'ANULADA' exactly when the chain holds the record  *)
(* of its cancellation, once and after the record of the invoice.          *)
(***************************************************************************)
CancelPaired ==
    \A tn \in Tenants : LET table == rows[tn] IN
        \A i \in DOMAIN table :
            /\ table[i].kind = "alta" =>
                  (table[i].status = "ANULADA" <=>
                       \E j \in DOMAIN table :
                           j > i /\ table[j].inv = table[i].inv
                                 /\ table[j].kind = "anulacion")
            /\ table[i].kind = "anulacion" =>
                  \E j \in 1..(i - 1) :
                      table[j].inv = table[i].inv /\ table[j].kind = "alta"
            /\ \A j \in DOMAIN table :
                  table[j].inv = table[i].inv /\ table[j].kind = table[i].kind
                      => i = j

(***************************************************************************)
(* While a record is on its way, or on the list of a worker, its row is    *)
(* still the row the thread read: not settled by another thread, with the  *)
(* same retry_count.  So no record is in two exchanges at once, and none   *)
(* is resent more than MaxRetries times.                                   *)
(***************************************************************************)
InFlightIsOpen ==
    /\ \A t \in Callers : pc[t] \in {"send", "update"} =>
           \A i \in DOMAIN rows[call[t].tenant] :
               LET row == rows[call[t].tenant][i] IN
               row.inv = call[t].inv /\ row.kind = call[t].kind =>
                   row.delivery = "PENDIENTE" /\ row.retries = 0
    /\ \A w \in Workers : \A id \in DOMAIN todo[w] :
           LET row == rows[DefaultTenant][id] IN
           Pending(row) /\ row.retries = todo[w][id].retries

(***************************************************************************)
(* A row shown as accepted is a record the AEAT holds, for every record    *)
(* but the invoices cancelled since (AcceptedIsHeld says it of those too,  *)
(* and is refuted).                                                        *)
(***************************************************************************)
StandingAcceptedIsHeld ==
    \A tn \in Tenants : \A i \in DOMAIN rows[tn] :
        LET row == rows[tn][i] IN
        /\ row.delivery \in Accepted
        /\ row.kind = "alta" => row.status = "ALTA"
        => RowXml(tn, row) \in aeat

(***************************************************************************)
(* The same of every row, as parse_aeat_soap_response promises it          *)
(* ("Distingue rigurosamente entre aceptacion fiscal y rechazo").  It does *)
(* not hold: once an invoice that is still to be resent is cancelled, the  *)
(* worker takes is_anulacion from the status of its row and sends the XML  *)
(* of the cancellation in its place.                                       *)
(***************************************************************************)
AcceptedIsHeld ==
    \A tn \in Tenants : \A i \in DOMAIN rows[tn] :
        rows[tn][i].delivery \in Accepted => RowXml(tn, rows[tn][i]) \in aeat

(***************************************************************************)
(* Action properties.                                                      *)
(***************************************************************************)

\* A delivery status the AEAT has settled never changes again: no resend,
\* late UPDATE or repeated call overwrites it, and retry_count never drops.
SettledIsFinal ==
    [][\A tn \in Tenants : \A i \in DOMAIN rows[tn] :
           /\ rows'[tn][i].retries >= rows[tn][i].retries
           /\ rows[tn][i].delivery \notin Retryable =>
                  rows'[tn][i].delivery = rows[tn][i].delivery]_rows

(***************************************************************************)
(* Refinement: the columns that make the chain implement ChainLog.         *)
(***************************************************************************)

Chain == [tn \in Tenants |->
              [i \in DOMAIN rows[tn] |-> [inv |-> rows[tn][i].inv,
                                          prev |-> rows[tn][i].prev,
                                          hash |-> rows[tn][i].hash]]]

Log == INSTANCE ChainLog WITH Owners <- Tenants, Documents <- Invoices,
                              log <- Chain

\* Every step appends one linked record to the log of a tenant or leaves all
\* the logs alone: cancellations, resends and retries alter no record.
ImplementsLog == Log!Spec

(***************************************************************************)
(* Liveness.                                                               *)
(***************************************************************************)

\* A pending row of the default tenant whose XML the worker can find.
Waiting(inv, kind) ==
    \E i \in DOMAIN rows[DefaultTenant] :
        LET row == rows[DefaultTenant][i] IN
        /\ row.inv = inv /\ row.kind = kind /\ Pending(row)
        /\ files[<<inv, Item(row).xmlKind>>] # None

\* Such a row is settled or uses up its retries.
WaitingDrains ==
    \A inv \in Invoices, kind \in Kinds :
        Waiting(inv, kind) ~> ~Waiting(inv, kind)

\* Every request ends, however resends and other requests hold the lock.
RequestsEnd == \A t \in Callers : (pc[t] = "enter") ~> (pc[t] = "idle")
=============================================================================
