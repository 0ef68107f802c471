--------------------------- MODULE MCObjectOrders ---------------------------
(***************************************************************************)
(* An object with two fields.  Orders name the second, or none of them,    *)
(* and then mean the first.                                                *)
(***************************************************************************)
EXTENDS ObjectOrders

TwoFields == <<"a", "b">>
=============================================================================
