---------------------------- MODULE MCModelRecord ----------------------------
(***************************************************************************)
(* One model is enough for the interleavings of its records, flushes and    *)
(* prunes; two share the buffer and the restart.                            *)
(***************************************************************************)
EXTENDS ModelRecord

OneModel  == {"m"}
TwoModels == {"m", "n"}
=============================================================================
