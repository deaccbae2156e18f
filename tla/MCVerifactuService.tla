------------------------- MODULE MCVerifactuService -------------------------
(***************************************************************************)
(* VerifactuService on small instances.                                    *)
(***************************************************************************)
EXTENDS VerifactuService, TLC

\* Request threads and invoice numbers are interchangeable.
Symmetry == Permutations(Callers) \cup Permutations(Invoices)
=============================================================================
