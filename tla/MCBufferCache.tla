--------------------------- MODULE MCBufferCache ----------------------------
(* Two processes that hold up to two buffers each, two buffers and three   *)
(* blocks, among them the block 0 that every buffer starts with.           *)
EXTENDS BufferCache

CONSTANTS p1, p2
MCProcs == {p1, p2}
=============================================================================
