---------------------------- MODULE MCInvoiceTools ----------------------------
(***************************************************************************)
(* InvoiceTools on small instances.                                        *)
(***************************************************************************)
EXTENDS InvoiceTools, TLC

FirstNumbers == {[prefix |-> p, n |-> 1] : p \in {"BORRADOR-", "F-"}}

Limits == [p \in Prefixes |-> CASE p = "F-" -> 2 [] p = "R-BORRADOR-" -> 0 [] OTHER -> 1]

\* Of an invoice more may be paid back than was paid for it.
SumsDef == [n \in Numbers |-> IF n.prefix = "F-" THEN -1..1 ELSE 0..1]

CallsAlike == Permutations(Calls)
=============================================================================
