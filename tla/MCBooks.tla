------------------------------- MODULE MCBooks --------------------------------
(***************************************************************************)
(* Books on small instances: an expense of which a part goes to an account *)
(* of groups 0, 8 and 9, another whose amounts do not add up, and a        *)
(* payment of a customer, with a fee, that is booked as income; a quarter  *)
(* of tax, and less than none.                                             *)
(***************************************************************************)
EXTENDS Books

CONSTANTS expense, wrong, sale

LinesOf(six, seven, others, ignored) ==
    [a \in Accounts |-> CASE a = "6" -> six [] a = "7" -> seven
                          [] a = "1-5" -> others [] a = "others" -> ignored
                          [] OTHER -> 0]

DocumentDef ==
    [d \in Documents |->
        [year |-> 1,
         lines |-> CASE d = expense -> LinesOf(1, 0, -2, 1)
                     [] d = wrong -> LinesOf(2, 0, -1, 0)
                     [] d = sale -> LinesOf(1, -8, 7, 0)]]

RatesDef == {-2500, 2500}
=============================================================================
