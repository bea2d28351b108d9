------------------------- MODULE MCWebsocketClient -------------------------
(***************************************************************************)
(* Instances of WebsocketClient for TLC.  The state space is finite by     *)
(* itself.  The type of the backoff is narrowed to 16 bits.  In the first  *)
(* configuration its values are large enough for the doubling to wrap      *)
(* first and to reach the maximum later (32771, 6, 12, 24, ..., 24576,     *)
(* 33000); in the second one they are small (1, 2, 4, ..., 512, 1000).     *)
(***************************************************************************)
EXTENDS WebsocketClient
=============================================================================
