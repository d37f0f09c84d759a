-------------------------------- MODULE Fifo --------------------------------
(***************************************************************************)
(* What a pipe promises: a queue of at most Size bytes, out in the order   *)
(* they went in, each once; a byte goes in only while the read end is open *)
(* and the ends close once.                                                *)
(***************************************************************************)
EXTENDS Naturals, Sequences

CONSTANTS Bytes, Size

VARIABLES q, readopen, writeopen

vars == <<q, readopen, writeopen>>

Init == q = <<>> /\ readopen = TRUE /\ writeopen = TRUE

Put == /\ readopen /\ writeopen /\ Len(q) < Size
       /\ \E b \in Bytes : q' = Append(q, b)
       /\ UNCHANGED <<readopen, writeopen>>

Get == /\ readopen /\ q # <<>>
       /\ q' = Tail(q)
       /\ UNCHANGED <<readopen, writeopen>>

CloseRead == readopen /\ readopen' = FALSE /\ UNCHANGED <<q, writeopen>>
CloseWrite == writeopen /\ writeopen' = FALSE /\ UNCHANGED <<q, readopen>>

Next == Put \/ Get \/ CloseRead \/ CloseWrite

Spec == Init /\ [][Next]_vars
=============================================================================
