--------------------------- MODULE MCLegalEmission ---------------------------
(***************************************************************************)
(* LegalEmission on a small instance: two numbers of one series and one of *)
(* another.                                                                *)
(***************************************************************************)
EXTENDS LegalEmission

ThreeInvoices == {<<1, 1>>, <<1, 2>>, <<2, 1>>}
=============================================================================
