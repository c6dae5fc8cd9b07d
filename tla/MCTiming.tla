------------------------------ MODULE MCTiming ------------------------------
(* Timing with a counter of three bytes of three values each.              *)
EXTENDS Timing

MCWeight == [i \in 0 .. NumBytes |-> ByteValues ^ i]
=============================================================================
