-------------------------- MODULE MCVerifactuWriters --------------------------
(***************************************************************************)
(* VerifactuWriters on small instances.                                    *)
(***************************************************************************)
EXTENDS VerifactuWriters

MCInvoices == Series \X {1}
=============================================================================
