------------------------------- MODULE ChainLog -------------------------------
(***************************************************************************)
(* What the billing register of a tenant promises: an append-only log of   *)
(* records, each linked to the one before it.  "Garantiza el               *)
(* encadenamiento criptografico inalterable de facturas emitidas"          *)
(* (verifactu_service.py, VerifactuService).                               *)
(*                                                                         *)
(* One step appends one record to the log of one owner; nothing else ever  *)
(* changes.  VerifactuService, LegalEmission and LegalInvoices are shown   *)
(* to implement this specification, the last two with an owner per tenant  *)
(* and series.                                                             *)
(***************************************************************************)
EXTENDS HashChain

CONSTANTS Owners,    \* the tenants, each with a log of its own
          Documents  \* the invoice numbers

VARIABLE log         \* log[o]: the records of owner o, oldest first

Record(inv, prev) == [inv |-> inv, prev |-> prev, hash |-> Digest(inv, prev)]

Init == log = [o \in Owners |-> <<>>]

AppendRecord(o, inv) ==
    log' = [log EXCEPT ![o] = Append(@, Record(inv, LastHash(@)))]

Next == \E o \in Owners, inv \in Documents : AppendRecord(o, inv)

Spec == Init /\ [][Next]_log
=============================================================================
