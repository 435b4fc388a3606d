------------------------------ MODULE MCNetlink ------------------------------
(* Instances of Netlink for TLC: an ethernet adapter and the loopback. *)
EXTENDS Netlink

EthernetAndLoopback == 1..2
Ethernet == {1}
=============================================================================
