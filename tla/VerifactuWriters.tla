--------------------------- MODULE VerifactuWriters ---------------------------
(***************************************************************************)
(* The two writers of verifactu_invoices in one process: the register      *)
(* (VerifactuService: register_invoice, cancel_invoice and their worker)   *)
(* and the issue of official invoices (LegalEmission: POST                 *)
(* /invoices/issue and the retry of incidents).                            *)
(*                                                                         *)
(* They share the table, the AEAT and SQLite's write lock.  They do not    *)
(* share VerifactuService._lock: emission holds the lock of the tenant     *)
(* and a BEGIN IMMEDIATE transaction instead, and links an invoice to the  *)
(* last one of its series, where the register links to the last row.       *)
(*                                                                         *)
(* Crashes and exceptions are checked in the two modules on their own.     *)
(***************************************************************************)
EXTENDS VerifactuService

CONSTANTS Emitters, Retriers, Series, DefaultSeries, InOrder, Limit

VARIABLES epc, cmd, found, patch

\* The invoice numbers of both writers are texts like F2026-0001.
ASSUME NumbersAssumption == Invoices \subseteq Series \X (Nat \ {0})

E == INSTANCE LegalEmission WITH pc <- epc, Invs <- Invoices

registerVars == <<files, lock, pc, call, todo, answer>>
emissionVars == <<epc, cmd, found, patch>>
allVars == <<rows, aeat, writer, faults, registerVars, emissionVars>>

WritersInit == Init /\ E!Init

RegisterStep ==
    /\ \/ \E t \in Callers, tn \in Tenants, inv \in Invoices, kind \in Kinds :
              Request(t, tn, inv, kind)
       \/ \E t \in Callers : CallerStep(t)
       \/ \E w \in Workers : WorkerStep(w)
    /\ UNCHANGED emissionVars

EmissionStep ==
    /\ \/ \E t \in Emitters, tn \in Tenants, inv \in Invoices,
             verifactu \in BOOLEAN : E!Request(t, tn, inv, verifactu)
       \/ \E t \in Emitters : E!EmitterStep(t)
       \/ \E t \in Retriers : E!RetrierStep(t)
    /\ UNCHANGED registerVars

WritersNext == RegisterStep \/ EmissionStep

WritersSpec == WritersInit /\ [][WritersNext]_allVars
-----------------------------------------------------------------------------
(***************************************************************************)
(* A number is in the register of a tenant once, whichever writer used it: *)
(* the UNIQUE constraint is all that the two have in common, and both look *)
(* at the number only in their INSERT.                                     *)
(***************************************************************************)
NumbersUnique ==
    \A tn \in Tenants : \A i, j \in DOMAIN rows[tn] :
        /\ rows[tn][i].inv = rows[tn][j].inv
        /\ rows[tn][i].kind = rows[tn][j].kind
        => i = j

(***************************************************************************)
(* Each writer leaves the rows of the other alone, though both find theirs *)
(* in one table, by the columns status and delivery_status: the worker     *)
(* finds every issued invoice 'PENDIENTE' and has to pass it over, a batch *)
(* of resends must not take a registered invoice for an incident.          *)
(***************************************************************************)
RowsKept ==
    [][\A tn \in Tenants : \A i \in DOMAIN rows[tn] :
           /\ RegisterStep /\ E!Issued(rows[tn][i]) =>
                  rows'[tn][i] = rows[tn][i]
           /\ EmissionStep /\ ~E!Issued(rows[tn][i]) =>
                  rows'[tn][i] = rows[tn][i]]_allVars
=============================================================================
