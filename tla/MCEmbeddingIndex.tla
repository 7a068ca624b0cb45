-------------------------- MODULE MCEmbeddingIndex --------------------------
(***************************************************************************)
(* Three models, two of them equally wide.                                 *)
(***************************************************************************)
EXTENDS EmbeddingIndex, TLC

MCDims == "q8" :> 2 @@ "fp32" :> 2 @@ "small" :> 1
=============================================================================
