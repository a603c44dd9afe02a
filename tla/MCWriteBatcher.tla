--------------------------- MODULE MCWriteBatcher ----------------------------
(***************************************************************************)
(* Two models, so that batches mix them, and up to four results.           *)
(***************************************************************************)
EXTENDS WriteBatcher

MCModels == {"m", "n"}
=============================================================================
