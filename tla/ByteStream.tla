----------------------------- MODULE ByteStream -----------------------------
(***************************************************************************)
(* What a pipe promises its users: a bounded FIFO of bytes with two ends   *)
(* that are closed once and for all.                                       *)
(***************************************************************************)
EXTENDS Naturals, Sequences

CONSTANTS Bytes, Capacity

VARIABLES stream, readable, writable

Init == stream = <<>> /\ readable = TRUE /\ writable = TRUE

Put == /\ writable
       /\ Len(stream) < Capacity
       /\ \E b \in Bytes : stream' = Append(stream, b)
       /\ UNCHANGED <<readable, writable>>

Get == /\ readable
       /\ stream # <<>>
       /\ stream' = Tail(stream)
       /\ UNCHANGED <<readable, writable>>

CloseRead == readable /\ readable' = FALSE /\ UNCHANGED <<stream, writable>>
CloseWrite == writable /\ writable' = FALSE /\ UNCHANGED <<stream, readable>>

Next == Put \/ Get \/ CloseRead \/ CloseWrite
Spec == Init /\ [][Next]_<<stream, readable, writable>>
=============================================================================
