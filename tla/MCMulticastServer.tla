-------------------------- MODULE MCMulticastServer --------------------------
(* Instances of MulticastServer for TLC. *)
EXTENDS MulticastServer, TLC

TwoIfs == 1..2
ThreeFds == 0..2
ThreadSymmetry == Permutations(Threads)
=============================================================================
