---------------------------- MODULE MCEventLoop ----------------------------
(* Instances of EventLoop for TLC. *)
EXTENDS EventLoop, TLC

CONSTANTS f1, f2, a1, a2

InOnly == {<<f1, "in">>, <<f2, "in">>}
OneBoth == {<<f1, "in">>, <<f1, "out">>}
NodeSymmetry == Permutations(Nodes)
=============================================================================
