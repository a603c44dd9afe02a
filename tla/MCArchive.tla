------------------------------ MODULE MCArchive ------------------------------
(***************************************************************************)
(* One or two models; every directive they may have.                       *)
(***************************************************************************)
EXTENDS Archive

OneModel  == {"m"}
TwoModels == {"m", "n"}

EitherWay == BOOLEAN
Enabled   == {TRUE}
=============================================================================
