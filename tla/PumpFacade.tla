----------------------------- MODULE PumpFacade -----------------------------
(***************************************************************************)
(* What the native module promises to the VPN extension: a data socket     *)
(* that is connected or not, and a pump that is off, runs or has failed.   *)
(* VpnExtension takes its data and pump from here.                         *)
(***************************************************************************)
VARIABLES data, pump

vars == <<data, pump>>

Init == data = FALSE /\ pump = "off"

\* connectData succeeds; what it finds it has stopped before.
Connect == ~data /\ pump = "off" /\ data' = TRUE /\ UNCHANGED pump

\* startPacketPump: only on a connected socket that carries no pump yet.
Start == data /\ pump = "off" /\ pump' = "running" /\ UNCHANGED data

\* A pump fails on its own, and never recovers on its own.
Fail == pump = "running" /\ pump' = "failed" /\ UNCHANGED data

\* stopPacketPump, and connectData before it connects: nothing is left of socket
\* and pump.
Stop == data' = FALSE /\ pump' = "off"

Next == Connect \/ Start \/ Fail \/ Stop

Spec == Init /\ [][Next]_vars
=============================================================================
