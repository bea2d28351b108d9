------------------------- MODULE MCClientLifecycle -------------------------
(***************************************************************************)
(* Instances of ClientLifecycle for TLC: all three modes, a queue of two   *)
(* slots and messages of up to three events, so that a message overflows   *)
(* the queue and a shutdown finds a producer in the middle of one.         *)
(***************************************************************************)
EXTENDS ClientLifecycle

AllModes == {"ws", "http", "dual"}
OnlyWs   == {"ws"}
=============================================================================
