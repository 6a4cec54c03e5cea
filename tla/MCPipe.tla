------------------------------- MODULE MCPipe -------------------------------
(* Two writers and one reader on a ring of two bytes; requests smaller and *)
(* larger than the ring.                                                   *)
EXTENDS Pipe

CONSTANTS w1, w2, r1
MCWriters == {w1, w2}
MCReaders == {r1}
MCReadCounts == {1, 3}
MCWriteCounts == {3}
=============================================================================
