-------------------------- MODULE WebsocketReceive --------------------------
(***************************************************************************)
(* What ws_callback (src/websocket_client.c) does with the notifications   *)
(* of its subscription.  The connection itself is in WebsocketClient.      *)
(*                                                                         *)
(* The RPC node sends one notification per entry, with the slot in the     *)
(* context and without a program.  What it sends while there is no         *)
(* connection is gone, and so is a message that libwebsockets delivers in  *)
(* pieces, since each piece is parsed as a whole message.                  *)
(***************************************************************************)
EXTENDS Parser

VARIABLES
    log, confirmed, \* as in HttpPoller
    wsRunning,      \* client->running
    wsSeen,         \* the last entry that was notified
    wsTodo          \* its events that have not been pushed yet

WsInit ==
    /\ wsRunning = TRUE
    /\ wsSeen = 0
    /\ wsTodo = {}

\* The client of a new process: it hears of new entries only.
WsRestarted ==
    /\ wsRunning' = TRUE
    /\ wsSeen' = confirmed
    /\ wsTodo' = {}

Notification(i) ==
    [shape |-> "notification",
     context |-> log[i].slot,
     values |-> [k \in {i} |->
                    [log[i] EXCEPT !.slot = NoSlot, !.programId = Null]]]

\* The entries between the last one and i have been missed.
Receive(i) ==
    /\ wsRunning /\ wsTodo = {}
    /\ i > wsSeen
    /\ wsSeen' = i
    /\ wsTodo' = EventsOf(Notification(i))
    /\ UNCHANGED <<wsRunning, queueVars>>

WsPush ==
    /\ \E e \in wsTodo :
          /\ IsNext(wsTodo, e)
          /\ wsTodo' = wsTodo \ {e}
          /\ PushAccepted("ws", e) \/ PushRefused("ws")
    /\ UNCHANGED <<wsRunning, wsSeen>>

\* yurei_ws_client_stop, up to the join.
StopWs ==
    /\ wsRunning' = FALSE
    /\ UNCHANGED <<wsSeen, wsTodo>>

WsJoined == ~wsRunning /\ wsTodo = {}

WsType ==
    /\ wsRunning \in BOOLEAN
    /\ wsSeen \in Nat
    /\ wsTodo \in SUBSET Event
=============================================================================
