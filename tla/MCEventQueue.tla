---------------------------- MODULE MCEventQueue ----------------------------
(***************************************************************************)
(* The instance of EventQueue for TLC.  The client runs one or two         *)
(* producers (the WebSocket and the HTTP thread) and one consumer (the     *)
(* writer); the queue's interface allows a second one.                     *)
(***************************************************************************)
EXTENDS EventQueue

CONSTANTS p1, p2, c1, c2, e1, e2

TwoProducers == {p1, p2}
TwoConsumers == {c1, c2}
TwoEvents    == {e1, e2}
=============================================================================
