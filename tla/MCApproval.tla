------------------------------ MODULE MCApproval ------------------------------
(***************************************************************************)
(* Approval on small instances.                                            *)
(***************************************************************************)
EXTENDS Approval
=============================================================================
