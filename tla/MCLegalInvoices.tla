--------------------------- MODULE MCLegalInvoices ---------------------------
(***************************************************************************)
(* LegalInvoices on small instances: texts of two digits in base 2 stand   *)
(* for texts of four digits in base 10, so that numbers outgrow their      *)
(* padding after three invoices.                                           *)
(***************************************************************************)
EXTENDS LegalInvoices
===============================================================================
