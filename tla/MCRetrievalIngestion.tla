------------------------ MODULE MCRetrievalIngestion ------------------------
(* Small instances of RetrievalIngestion for TLC. *)
EXTENDS RetrievalIngestion, TLC

CONSTANTS b1, b2

MCOneChunk == (b1 :> 1) @@ (b2 :> 1)
MCChunks   == (b1 :> 1) @@ (b2 :> 2)
=============================================================================
