--------------------------- MODULE MCChunkDelivery ---------------------------
(* A small instance of ChunkDelivery.                                       *)
EXTENDS ChunkDelivery, TLC

CONSTANTS p1, p2

MCPaths2 == {p1, p2}
MCRefs == {}
=============================================================================
