---------------------------- MODULE ResendTimer -----------------------------
(***************************************************************************)
(* What a Resender promises to the rest of a DtlsTransport: flights arm it *)
(* whenever it is not armed, it calls onHandshakeFailed at most once in its*)
(* life and only while it is armed, and it is not destroyed before it is   *)
(* disarmed, so that nothing is called on a transport that is gone.        *)
(* Whether every flight gets its retransmissions is not promised.          *)
(***************************************************************************)
EXTENDS Naturals

VARIABLES
  timer,    \* none, armed, fired, done, destroyed
  reports   \* number of calls of onHandshakeFailed

Init == timer = "none" /\ reports = 0

Arm     == timer \in {"none", "done"} /\ timer' = "armed" /\ UNCHANGED reports
Cancel  == timer = "armed" /\ timer' = "done" /\ UNCHANGED reports
Fire    == timer = "armed" /\ reports = 0 /\ timer' = "fired" /\ reports' = 1
Finish  == timer = "fired" /\ timer' = "done" /\ UNCHANGED reports
Destroy == timer \in {"none", "done"} /\ timer' = "destroyed" /\ UNCHANGED reports

Next == Arm \/ Cancel \/ Fire \/ Finish \/ Destroy
Spec == Init /\ [][Next]_<<timer, reports>>
=============================================================================
