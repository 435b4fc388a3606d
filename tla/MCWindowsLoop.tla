---------------------------- MODULE MCWindowsLoop ----------------------------
(* WindowsLoop for TLC. *)
EXTENDS WindowsLoop
=============================================================================
