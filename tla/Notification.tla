---------------------------- MODULE Notification ----------------------------
(***************************************************************************)
(* What a notifier promises (include/hbm/sys/notifier.h): notified n times *)
(* the callback is executed n times.  The only way out is a callback that  *)
(* throws, which may take calls with it that have not been made yet, and   *)
(* the end of the notifier.  When the event loop is stopped, calls may     *)
(* wait for the next notification even if the loop is run again.           *)
(***************************************************************************)
EXTENDS Naturals

VARIABLES
  notified, \* calls that have been asked for
  pending,  \* those of them that have not been made
  called,   \* calls that have been made
  open,     \* the notifier has not been destroyed
  stalled   \* the calls wait for the next notification

vars == <<notified, pending, called, open, stalled>>

Init == notified = 0 /\ pending = 0 /\ called = 0 /\ open = TRUE /\ stalled = FALSE

Notify ==
  /\ open
  /\ notified' = notified + 1
  /\ pending' = pending + 1
  /\ stalled' = FALSE
  /\ UNCHANGED <<called, open>>

Call ==
  /\ open /\ pending > 0 /\ ~stalled
  /\ pending' = pending - 1
  /\ called' = called + 1
  /\ UNCHANGED <<notified, open, stalled>>

CallThrows ==
  /\ open /\ pending > 0 /\ ~stalled
  /\ pending' \in 0..pending - 1
  /\ called' = called + 1
  /\ UNCHANGED <<notified, open, stalled>>

(* The event loop is stopped. *)
Stall ==
  /\ open /\ pending > 0
  /\ stalled' = TRUE
  /\ UNCHANGED <<notified, pending, called, open>>

(* The calls that have not been made are gone with the notifier. *)
Close ==
  /\ open
  /\ open' = FALSE
  /\ pending' = 0
  /\ stalled' = FALSE
  /\ UNCHANGED <<notified, called>>

Next == Notify \/ Call \/ CallThrows \/ Stall \/ Close

Spec == Init /\ [][Next]_vars

(* With an event loop that runs, every call is made that is not stalled. *)
LiveSpec == Spec /\ WF_vars(Call \/ CallThrows)
=============================================================================
