---------------------------- MODULE LegalEmission ----------------------------
(***************************************************************************)
(* The issue of official invoices (app/domain/services/                    *)
(* verifactu_service.py): emitir_factura_legal and                         *)
(* reintentar_facturas_incidencia, with legal_write_transaction around     *)
(* them and the SOAP client they call.                                     *)
(*                                                                         *)
(* Both hold the lock of the tenant and a BEGIN IMMEDIATE transaction for  *)
(* as long as they run, the exchanges with the AEAT included.  What they   *)
(* write is visible only at the commit; what the AEAT has stored stays     *)
(* stored when the transaction is rolled back.                             *)
(*                                                                         *)
(* The number of an invoice comes with the request: the code does not      *)
(* choose it.  InOrder says whether clients ask for the numbers of a       *)
(* series one after the other.                                             *)
(***************************************************************************)
EXTENDS HashChain, FiniteSets

CONSTANTS
    Emitters,       \* threads that run emitir_factura_legal
    Retriers,       \* threads that run reintentar_facturas_incidencia
    Tenants,        \* each tenant has a database file of its own
    Series,         \* series of invoices, ordered as the natural numbers are
    DefaultTenant,  \* tenant_id and series of a row that was inserted by
    DefaultSeries,  \*   register_invoice: the defaults of migration 027
    Invs,           \* the invoices asked for: a series and a number each
    InOrder,        \* clients use the numbers of a series in order
    Limit,          \* LIMIT 50 in reintentar_facturas_incidencia
    MaxFaults,      \* bound: crashes and exceptions inside a transaction
    None

Threads == Emitters \cup Retriers

ASSUME EmissionAssumption ==
    /\ Emitters \cap Retriers = {}
    /\ None \notin Threads \cup Tenants
    /\ Series \subseteq Nat /\ DefaultSeries \in Series
    /\ DefaultTenant \in Tenants
    /\ Invs \subseteq Series \X (Nat \ {0}) /\ IsFiniteSet(Invs)
    /\ Limit \in Nat \ {0} /\ MaxFaults \in Nat
    /\ InOrder \in BOOLEAN

VARIABLES
    rows,    \* rows[tn]: the committed rows of verifactu_invoices, by id
    aeat,    \* the records the AEAT holds
    writer,  \* writer[tn]: the thread inside legal_write_transaction, or None
    pc,      \* pc[t]: the next step of thread t
    cmd,     \* cmd[t]: its command and local variables
    found,   \* found[t]: the ids a retry has selected and not yet handled
    patch,   \* patch[t]: the statuses its open transaction will commit, by id
    faults   \* faults so far

vars == <<rows, aeat, writer, pc, cmd, found, patch, faults>>

\* VerifactuDeliveryStatus, the values emission uses.
Status == {"LOCAL_RECORDED", "DELIVERED_AEAT", "INCIDENCIA_RED", "REJECTED_AEAT"}

\* The XML record of an invoice, as the AEAT receives it.
Xml(tn, inv, prev) == [tenant |-> tn, inv |-> inv, kind |-> "alta", prev |-> prev]

\* A row as emission inserts it: delivery_status and retry_count keep the
\* defaults of the table.
Row(inv, prev, status) ==
    [inv |-> inv, kind |-> "alta", prev |-> prev, hash |-> Digest(inv, prev),
     status |-> status, delivery |-> "PENDIENTE", retries |-> 0]

\* The columns tenant_id, series and number of a row of the table of tn.  The
\* rows of register_invoice and cancel_invoice have the defaults of the table.
Issued(row) == row.status \in Status

OwnerOf(row, tn) == IF Issued(row) THEN tn ELSE DefaultTenant
SeriesOf(row) == IF Issued(row) THEN row.inv[1] ELSE DefaultSeries
NumberOf(row) == IF Issued(row) THEN row.inv[2] ELSE 1

NoCmd == [tenant |-> None, inv |-> None, verifactu |-> FALSE, prev |-> Genesis,
          status |-> "LOCAL_RECORDED"]

Init ==
    /\ rows = [tn \in Tenants |-> <<>>]
    /\ aeat = {}
    /\ writer = [tn \in Tenants |-> None]
    /\ pc = [t \in Threads |-> "idle"]
    /\ cmd = [t \in Threads |-> NoCmd]
    /\ found = [t \in Threads |-> {}]
    /\ patch = [t \in Threads |-> <<>>]
    /\ faults = 0
-----------------------------------------------------------------------------
(***************************************************************************)
(* legal_write_transaction and the AEAT.                                   *)
(***************************************************************************)

Goto(t, step) == pc' = [pc EXCEPT ![t] = step]

\* Mutant: no lock and no BEGIN IMMEDIATE.
CanBeginDeferred(tn) == TRUE

\* tenant_locks and BEGIN IMMEDIATE let one thread in.
CanBegin(tn) == writer[tn] = None

\* Mutant: the lock is not released.
LeaveLocked(t) ==
    /\ pc' = [pc EXCEPT ![t] = "idle"]
    /\ cmd' = [cmd EXCEPT ![t] = NoCmd]
    /\ found' = [found EXCEPT ![t] = {}]
    /\ patch' = [patch EXCEPT ![t] = <<>>]
    /\ UNCHANGED writer

\* COMMIT or ROLLBACK, and the end of the call.
Leave(t) ==
    /\ writer' = [tn \in Tenants |-> IF writer[tn] = t THEN None ELSE writer[tn]]
    /\ pc' = [pc EXCEPT ![t] = "idle"]
    /\ cmd' = [cmd EXCEPT ![t] = NoCmd]
    /\ found' = [found EXCEPT ![t] = {}]
    /\ patch' = [patch EXCEPT ![t] = <<>>]

Fault == faults < MaxFaults /\ faults' = faults + 1

\* Mutants: the names of the other service, and an exchange without an answer
\* that counts as delivered.
StatusOldNames(outcome) ==
    CASE outcome = "success"  -> "ACEPTADO"
      [] outcome = "timeout"  -> "INCIDENCIA_RED"
      [] outcome = "rejected" -> "RECHAZADO"

StatusOptimistic(outcome) ==
    CASE outcome = "rejected" -> "REJECTED_AEAT" [] OTHER -> "DELIVERED_AEAT"

\* The status of an invoice after an exchange.
StatusAfter(outcome) ==
    CASE outcome = "success"  -> "DELIVERED_AEAT"
      [] outcome = "timeout"  -> "INCIDENCIA_RED"
      [] outcome = "rejected" -> "REJECTED_AEAT"

Outcomes == {"success", "timeout", "rejected"}

(***************************************************************************)
(* enviar_registro_factura: what the client concludes, and whether the     *)
(* AEAT has stored the record.  "Correcto" means it has.  Anything else    *)
(* the client can parse, or cannot, is a rejection; an AEAT that accepts   *)
(* with errors answers "ParcialmenteCorrecto" and has stored it.  After a  *)
(* transport error nobody knows.                                           *)
(***************************************************************************)
Exchange(outcome, xml) ==
    \E stored \in BOOLEAN :
        /\ outcome = "success" => stored
        /\ aeat' = IF stored THEN aeat \cup {xml} ELSE aeat

-----------------------------------------------------------------------------
(***************************************************************************)
(* emitir_factura_legal.                                                   *)
(***************************************************************************)

\* WHERE tenant_id = ? and WHERE tenant_id = ? AND series = ?
OfTenant(tn) == {i \in DOMAIN rows[tn] : OwnerOf(rows[tn][i], tn) = tn}

InSeries(tn, s) == {i \in OfTenant(tn) : SeriesOf(rows[tn][i]) = s}

\* The clients of a tenant, when they ask for numbers in order: one request
\* of a series at a time, and a number above those of the register.
NextInOrder(tn, s, n) ==
    /\ \A t \in Emitters : cmd[t].tenant = tn => cmd[t].inv[1] # s
    /\ \A i \in InSeries(tn, s) : NumberOf(rows[tn][i]) < n

Request(t, tn, inv, verifactu) ==
    /\ pc[t] = "idle"
    /\ InOrder => NextInOrder(tn, inv[1], inv[2])
    /\ cmd' = [cmd EXCEPT ![t] = [NoCmd EXCEPT !.tenant = tn, !.inv = inv,
                                               !.verifactu = verifactu]]
    /\ Goto(t, "begin")
    /\ UNCHANGED <<rows, aeat, writer, found, patch, faults>>

\* ORDER BY number DESC LIMIT 1; of rows with the same number, the last id.
Latest(tn, s) ==
    LET Above(i, j) ==
            \/ NumberOf(rows[tn][i]) > NumberOf(rows[tn][j])
            \/ NumberOf(rows[tn][i]) = NumberOf(rows[tn][j]) /\ i >= j
    IN  {i \in InSeries(tn, s) : \A j \in InSeries(tn, s) : Above(i, j)}

\* Mutant: the last digest of the table, whatever its series.
SeriesHashByTable(tn, s) == LastHash(rows[tn])

\* The digest a new invoice of series s is linked to.
SeriesHash(tn, s) ==
    IF InSeries(tn, s) = {} THEN Genesis
    ELSE rows[tn][CHOOSE i \in Latest(tn, s) : TRUE].hash

Begin(t) ==
    /\ pc[t] = "begin"
    /\ LET c == cmd[t] IN
       /\ CanBegin(c.tenant)
       /\ writer' = [writer EXCEPT ![c.tenant] = t]
       /\ cmd' = [cmd EXCEPT ![t].prev = SeriesHash(c.tenant, c.inv[1])]
       /\ Goto(t, IF c.verifactu THEN "send" ELSE "insert")
    /\ UNCHANGED <<rows, aeat, found, patch, faults>>

\* The XML does not validate, before the transaction or inside it: nothing has
\* been sent or written.
Invalid(t) ==
    /\ pc[t] = "begin"
    /\ Leave(t)
    /\ UNCHANGED <<rows, aeat, faults>>

\* Mutant: the XML is the one validated before the previous digest was known.
SendUnlinked(t) ==
    /\ pc[t] = "send"
    /\ LET c == cmd[t] IN
       \E outcome \in Outcomes :
           /\ Exchange(outcome, Xml(c.tenant, c.inv, Genesis))
           /\ cmd' = [cmd EXCEPT ![t].status = StatusAfter(outcome)]
    /\ Goto(t, "insert")
    /\ UNCHANGED <<rows, writer, found, patch, faults>>

\* The exchange.  Its NETWORK_OUTAGE event is never written: registrar_evento
\* begins a transaction in a thread that is inside one, BEGIN IMMEDIATE
\* raises, and the exception is swallowed.
Send(t) ==
    /\ pc[t] = "send"
    /\ LET c == cmd[t] IN
       \E outcome \in Outcomes :
           /\ Exchange(outcome, Xml(c.tenant, c.inv, c.prev))
           /\ cmd' = [cmd EXCEPT ![t].status = StatusAfter(outcome)]
    /\ Goto(t, "insert")
    /\ UNCHANGED <<rows, writer, found, patch, faults>>

\* Mutant: UNIQUE over the columns emission fills, not over invoice_number.
NumberUsedIssued(table, inv) ==
    \E i \in DOMAIN table : table[i].inv = inv /\ Issued(table[i])

\* invoice_number is UNIQUE in the table of a tenant.
NumberUsed(table, inv) ==
    \E i \in DOMAIN table : table[i].inv = inv /\ table[i].kind = "alta"

\* The INSERT and the COMMIT, or the UNIQUE violation and the ROLLBACK.
Insert(t) ==
    /\ pc[t] = "insert"
    /\ LET c == cmd[t] IN
       rows' = IF NumberUsed(rows[c.tenant], c.inv) THEN rows
               ELSE [rows EXCEPT ![c.tenant] =
                        Append(@, Row(c.inv, c.prev, c.status))]
    /\ Leave(t)
    /\ UNCHANGED <<aeat, faults>>

\* An exception the SOAP client does not catch (a broken answer), or one of
\* the database: ROLLBACK.
Raises(t) ==
    /\ pc[t] \in {"send", "insert"}
    /\ Fault
    /\ Leave(t)
    /\ IF pc[t] = "send"
       THEN \E outcome \in Outcomes :
                Exchange(outcome, Xml(cmd[t].tenant, cmd[t].inv, cmd[t].prev))
       ELSE UNCHANGED aeat
    /\ UNCHANGED rows
-----------------------------------------------------------------------------
(***************************************************************************)
(* reintentar_facturas_incidencia(tenant_id).                              *)
(***************************************************************************)

\* Mutant: the column of the other writer.
IncidentByDelivery(row) == row.delivery = "INCIDENCIA_RED"

Incident(row) == row.status = "INCIDENCIA_RED"

\* The rows of the SELECT: the first ones by id, Limit of them at most.
Selected(table) ==
    LET incidents == {i \in DOMAIN table : Incident(table[i])}
    IN  {i \in incidents :
            Cardinality({j \in incidents : j <= i}) <= Limit}

BeginRetry(t, tn) ==
    /\ pc[t] = "idle"
    /\ CanBegin(tn)
    /\ writer' = [writer EXCEPT ![tn] = t]
    /\ cmd' = [cmd EXCEPT ![t].tenant = tn]
    /\ found' = [found EXCEPT ![t] = Selected(rows[tn])]
    /\ Goto(t, "resend")
    /\ UNCHANGED <<rows, aeat, patch, faults>>

\* ORDER BY id ASC.
First(ids) == CHOOSE i \in ids : \A j \in ids : i <= j

\* One more UPDATE in the open transaction.
With(p, id, status) ==
    [i \in DOMAIN p \cup {id} |-> IF i = id THEN status ELSE p[i]]

\* The next selected row is sent again; an exchange without an answer leaves
\* its status as it is.
Resend(t) ==
    /\ pc[t] = "resend"
    /\ found[t] # {}
    /\ LET tn == cmd[t].tenant
           id == First(found[t])
           row == rows[tn][id]
       IN  /\ \E outcome \in Outcomes :
                 /\ Exchange(outcome, Xml(tn, row.inv, row.prev))
                 /\ patch' = IF outcome = "timeout" THEN patch
                             ELSE [patch EXCEPT ![t] =
                                      With(@, id, StatusAfter(outcome))]
           /\ found' = [found EXCEPT ![t] = @ \ {id}]
    /\ UNCHANGED <<rows, writer, pc, cmd, faults>>

\* Mutants: the updates are not committed; a rejected invoice is deleted.
PatchedNot(table, p) == table

PatchedPurged(table, p) ==
    LET Kept(row) == row.status # "REJECTED_AEAT"
    IN  SelectSeq([i \in DOMAIN table |->
                      IF i \in DOMAIN p THEN [table[i] EXCEPT !.status = p[i]]
                      ELSE table[i]], Kept)

\* A table with the updates of a transaction applied.
Patched(table, p) ==
    [i \in DOMAIN table |->
        IF i \in DOMAIN p THEN [table[i] EXCEPT !.status = p[i]] ELSE table[i]]

Commit(t) ==
    /\ pc[t] = "resend"
    /\ found[t] = {}
    /\ rows' = [rows EXCEPT ![cmd[t].tenant] = Patched(@, patch[t])]
    /\ Leave(t)
    /\ UNCHANGED <<aeat, faults>>

\* One exchange of the batch raises: every update of the batch is rolled
\* back, what the AEAT stored is not.
BatchRaises(t) ==
    /\ pc[t] = "resend"
    /\ found[t] # {}
    /\ Fault
    /\ LET row == rows[cmd[t].tenant][First(found[t])] IN
       \E outcome \in Outcomes :
           Exchange(outcome, Xml(cmd[t].tenant, row.inv, row.prev))
    /\ Leave(t)
    /\ UNCHANGED rows
-----------------------------------------------------------------------------
\* The process dies and is started again: SQLite rolls back what was open.
Crash ==
    /\ Fault
    /\ writer' = [tn \in Tenants |-> None]
    /\ pc' = [t \in Threads |-> "idle"]
    /\ cmd' = [t \in Threads |-> NoCmd]
    /\ found' = [t \in Threads |-> {}]
    /\ patch' = [t \in Threads |-> <<>>]
    /\ UNCHANGED <<rows, aeat>>

EmitterStep(t) == Begin(t) \/ Invalid(t) \/ Send(t) \/ Insert(t) \/ Raises(t)

RetrierStep(t) ==
    \/ \E tn \in Tenants : BeginRetry(t, tn)
    \/ Resend(t) \/ Commit(t) \/ BatchRaises(t)

Next ==
    \/ \E t \in Emitters, tn \in Tenants, inv \in Invs, verifactu \in BOOLEAN :
          Request(t, tn, inv, verifactu)
    \/ \E t \in Emitters : EmitterStep(t)
    \/ \E t \in Retriers : RetrierStep(t)
    \/ Crash

Spec == Init /\ [][Next]_vars

(***************************************************************************)
(* Fairness.  A thread that can go on does, and gets the lock of a tenant  *)
(* in the end: whoever holds it lets go.  No XML is forced to be invalid.  *)
(* AnswersComeBack is about the AEAT: an invoice sent to it again and      *)
(* again is answered once.                                                 *)
(***************************************************************************)
Fairness ==
    /\ \A t \in Emitters : WF_vars(Send(t) \/ Insert(t)) /\ SF_vars(Begin(t))
    /\ \A t \in Retriers :
           /\ WF_vars(RetrierStep(t))
           /\ \A tn \in Tenants : SF_vars(BeginRetry(t, tn))

ResendAnswered(tn, id) ==
    \E t \in Retriers :
        /\ Resend(t)
        /\ cmd[t].tenant = tn /\ id \in DOMAIN patch'[t] \ DOMAIN patch[t]

AnswersComeBack ==
    \A tn \in Tenants, id \in 1..Cardinality(Invs) :
        SF_vars(ResendAnswered(tn, id))

FairSpec == Spec /\ Fairness

AnsweredSpec == FairSpec /\ AnswersComeBack
-----------------------------------------------------------------------------
(***************************************************************************)
(* Invariants.                                                             *)
(***************************************************************************)

Steps == {"idle", "begin", "send", "insert", "resend"}

XmlSet == [tenant : Tenants, inv : Invs, kind : {"alta"}, prev : Seq(Invs)]

RowSet == [inv : Invs, kind : {"alta"}, prev : Seq(Invs), hash : Seq(Invs),
           status : Status, delivery : {"PENDIENTE"}, retries : {0}]

CmdSet == [tenant : Tenants \cup {None}, inv : Invs \cup {None},
           verifactu : BOOLEAN, prev : Seq(Invs), status : Status]

\* Every variable has its type, and a batch handles rows of its table.
TypeOK ==
    /\ rows \in [Tenants -> Seq(RowSet)]
    /\ aeat \subseteq XmlSet
    /\ writer \in [Tenants -> Threads \cup {None}]
    /\ pc \in [Threads -> Steps]
    /\ cmd \in [Threads -> CmdSet]
    /\ \A t \in Threads :
          /\ pc[t] \in {"begin", "send", "insert"} =>
                 cmd[t].tenant \in Tenants /\ cmd[t].inv \in Invs
          /\ pc[t] = "resend" =>
                 /\ cmd[t].tenant \in Tenants
                 /\ found[t] \cup DOMAIN patch[t] \subseteq
                        DOMAIN rows[cmd[t].tenant]
    /\ faults \in 0..MaxFaults

(***************************************************************************)
(* verificar_integridad_cadena(tenant_id, serie) on the rows with these    *)
(* ids: each is linked to the one before it in the order of series, number *)
(* and id, and carries the digest of its own data.                         *)
(***************************************************************************)
AuditBefore(table, j, i) ==
    \/ SeriesOf(table[j]) < SeriesOf(table[i])
    \/ SeriesOf(table[j]) = SeriesOf(table[i])
       /\ \/ NumberOf(table[j]) < NumberOf(table[i])
          \/ NumberOf(table[j]) = NumberOf(table[i]) /\ j < i

ExpectedHash(table, ids, i) ==
    LET before == {j \in ids : AuditBefore(table, j, i)}
    IN  IF before = {} THEN Genesis
        ELSE table[CHOOSE j \in before :
                      \A k \in before \ {j} : AuditBefore(table, k, j)].hash

Audited(table, ids) ==
    \A i \in ids :
        /\ table[i].prev = ExpectedHash(table, ids, i)
        /\ table[i].hash = Digest(table[i].inv, table[i].prev)

(***************************************************************************)
(* The audit of a series accepts what emission wrote.  The code does not   *)
(* look at the number it is given, so that this needs clients that use the *)
(* numbers of a series in order.                                           *)
(***************************************************************************)
SeriesAudited ==
    \A tn \in Tenants, s \in Series : Audited(rows[tn], InSeries(tn, s))

\* A row shown as delivered is a record the AEAT holds, with the same link.
DeliveredIsHeld ==
    \A tn \in Tenants : \A i \in DOMAIN rows[tn] :
        rows[tn][i].status = "DELIVERED_AEAT" =>
            Xml(tn, rows[tn][i].inv, rows[tn][i].prev) \in aeat

(***************************************************************************)
(* What the AEAT holds has a row with the same link, or is about to: its   *)
(* thread is at the INSERT.  The exchange comes before the INSERT, so that *)
(* this needs no crash, and no number used twice.                          *)
(***************************************************************************)
HeldIsRegistered ==
    faults = 0 => \A xml \in aeat :
        \/ \E i \in DOMAIN rows[xml.tenant] :
               LET row == rows[xml.tenant][i] IN
               Xml(xml.tenant, row.inv, row.prev) = xml
        \/ \E t \in Emitters :
               /\ pc[t] = "insert"
               /\ Xml(cmd[t].tenant, cmd[t].inv, cmd[t].prev) = xml

(***************************************************************************)
(* Action properties.                                                      *)
(***************************************************************************)

(***************************************************************************)
(* An issued row is never deleted or rewritten, and its status changes     *)
(* only while it is INCIDENCIA_RED: a batch that selected a row earlier    *)
(* never overwrites what another thread concluded since.                   *)
(***************************************************************************)
OnlyIncidentsChange ==
    [][\A tn \in Tenants : \A i \in DOMAIN rows[tn] :
           /\ i \in DOMAIN rows'[tn]
           /\ rows'[tn][i] = [rows[tn][i] EXCEPT !.status = rows'[tn][i].status]
           /\ ~Incident(rows[tn][i]) => rows'[tn][i] = rows[tn][i]]_rows

(***************************************************************************)
(* Refinement: the rows of each series of each tenant are a log of linked  *)
(* records.                                                                *)
(***************************************************************************)
Nth(ids, k) == CHOOSE i \in ids : Cardinality({j \in ids : j <= i}) = k

LogRecord(row) == [inv |-> row.inv, prev |-> row.prev, hash |-> row.hash]

SeriesLog(tn, s) ==
    LET ids == InSeries(tn, s)
    IN  [k \in 1..Cardinality(ids) |-> LogRecord(rows[tn][Nth(ids, k)])]

Log == INSTANCE ChainLog WITH
           Owners <- Tenants \X Series, Documents <- Invs,
           log <- [o \in Tenants \X Series |-> SeriesLog(o[1], o[2])]

ImplementsLog == Log!Spec

(***************************************************************************)
(* Liveness.                                                               *)
(***************************************************************************)

\* Every request to issue an invoice ends, though a batch of resends may hold
\* the lock of the tenant for many exchanges.
EmissionEnds == \A t \in Emitters : (pc[t] = "begin") ~> (pc[t] = "idle")

\* An invoice left in INCIDENCIA_RED is settled, if somebody calls the retry
\* again and again (in the code only tests do) and the AEAT answers at last.
IncidentsDrain ==
    \A tn \in Tenants, inv \in Invs :
        (\E i \in DOMAIN rows[tn] : rows[tn][i].inv = inv /\ Incident(rows[tn][i]))
            ~> (\E i \in DOMAIN rows[tn] :
                   rows[tn][i].inv = inv /\ ~Incident(rows[tn][i]))
=============================================================================
