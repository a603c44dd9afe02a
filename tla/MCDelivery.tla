------------------------------ MODULE MCDelivery ------------------------------
(***************************************************************************)
(* Two models share the flush; everything else is per model.                *)
(***************************************************************************)
EXTENDS Delivery

OneModel  == {"m"}
TwoModels == {"m", "n"}
=============================================================================
