--------------------------- MODULE WebsocketClient ---------------------------
(***************************************************************************)
(* The connection kept by ws_thread (src/websocket_client.c): its loop,    *)
(* the reconnect backoff and the callbacks that libwebsockets makes from   *)
(* lws_service.  Loop and callbacks run in one thread; what interleaves    *)
(* with them is the network, and main's stop.  The creation of the context *)
(* before the loop and what is done with received messages are in          *)
(* ClientLifecycle.                                                        *)
(*                                                                         *)
(* libwebsockets is external: `connecting' and `open' count the client     *)
(* connections it holds, whatever the client's own flags say of them.      *)
(***************************************************************************)
EXTENDS Integers

CONSTANTS
    BackoffMin,     \* YUREI_WS_BACKOFF_MS
    BackoffMax,     \* YUREI_WS_BACKOFF_MAX_MS
    UIntValues      \* number of values of uint32_t

\* Any two values of the type: the configuration neither orders them nor
\* keeps the doubling from wrapping.
ASSUME BackoffAssumption ==
    /\ UIntValues \in Nat \ {0}
    /\ {BackoffMin, BackoffMax} \subseteq 0 .. UIntValues - 1

VARIABLES
    loop,           \* where ws_thread is: "top", "service" or "ended"
    running,        \* client->running
    wsi,            \* client->wsi # NULL
    connected,      \* client->connected
    backoff,        \* client->backoff_ms
    sendPending,    \* session->send_pending of the open connection
    writableAsked,  \* lws_callback_on_writable asked for WRITEABLE on it
    connecting,     \* connections that libwebsockets is setting up
    open,           \* connections that are established
    subscribed,     \* logsSubscribe requests given to lws_write on it
    rested          \* history: slept since the last attempt (or no attempt)

session == <<sendPending, writableAsked, subscribed>>
vars == <<loop, running, wsi, connected, backoff, session, connecting, open,
          rested>>

\* What yurei_ws_client_start sets up, at the first pass of the loop.
Init ==
    /\ loop = "top"
    /\ running = TRUE
    /\ wsi = FALSE
    /\ connected = FALSE
    /\ backoff = BackoffMin
    /\ sendPending = FALSE
    /\ writableAsked = FALSE
    /\ connecting = 0
    /\ open = 0
    /\ subscribed = 0
    /\ rested = TRUE

Links == connecting + open
-----------------------------------------------------------------------------
(* The top of the loop.                                                    *)
BugNeedsConnection == ~connected

NeedsConnection == ~wsi /\ ~connected

BugNextBackoff(b) == IF b < BackoffMax THEN (b * 2) % UIntValues ELSE b

NextBackoff(b) ==
    IF b < BackoffMax
    THEN LET twice == (b * 2) % UIntValues
         IN  IF twice > BackoffMax THEN BackoffMax ELSE twice
    ELSE b

\* lws_client_connect_via_info takes the request and sets client->wsi.
ConnectBegins ==
    /\ loop = "top" /\ running /\ NeedsConnection
    /\ wsi' = TRUE
    /\ connecting' = connecting + 1
    /\ rested' = FALSE
    /\ loop' = "service"
    /\ UNCHANGED <<running, connected, backoff, session, open>>

\* It, or the parsing of the endpoint, fails at once: usleep and doubling.
ConnectFails ==
    /\ loop = "top" /\ running /\ NeedsConnection
    /\ wsi' = FALSE
    /\ backoff' = NextBackoff(backoff)
    /\ rested' = TRUE
    /\ loop' = "service"
    /\ UNCHANGED <<running, connected, session, connecting, open>>

KeepConnection ==
    /\ loop = "top" /\ running /\ ~NeedsConnection
    /\ loop' = "service"
    /\ UNCHANGED <<running, wsi, connected, backoff, session, connecting, open,
                   rested>>

BugDisconnected == connected' = FALSE /\ UNCHANGED wsi

Disconnected == connected' = FALSE /\ wsi' = FALSE

\* The session goes with its connection, and what was asked for on it.
SessionGone ==
    /\ sendPending' = FALSE
    /\ writableAsked' = FALSE
    /\ subscribed' = 0

\* lws_context_destroy closes what is open, with the same callbacks.
LeaveLoop ==
    /\ loop = "top" /\ ~running
    /\ loop' = "ended"
    /\ IF Links > 0 THEN Disconnected ELSE UNCHANGED <<wsi, connected>>
    /\ connecting' = 0 /\ open' = 0
    /\ SessionGone
    /\ UNCHANGED <<running, backoff, rested>>
-----------------------------------------------------------------------------
(* lws_service: some callbacks, then back to the top.                      *)
InService == loop = "service" /\ loop' \in {"service", "top"}

Idle ==
    /\ loop = "service" /\ loop' = "top"
    /\ UNCHANGED <<running, wsi, connected, backoff, session, connecting, open,
                   rested>>

ScheduleSubscription == sendPending' = TRUE

BugNotAsked == UNCHANGED writableAsked

\* lws_callback_on_writable
AskWritable == writableAsked' = TRUE

Established ==
    /\ InService
    /\ connecting > 0
    /\ connecting' = connecting - 1
    /\ open' = open + 1
    /\ connected' = TRUE
    /\ backoff' = BackoffMin
    /\ ScheduleSubscription
    /\ AskWritable
    /\ UNCHANGED <<running, wsi, subscribed, rested>>

ConnectionError ==
    /\ InService
    /\ connecting > 0
    /\ connecting' = connecting - 1
    /\ Disconnected
    /\ UNCHANGED <<running, backoff, session, open, rested>>

Closed ==
    /\ InService
    /\ open > 0
    /\ open' = open - 1
    /\ Disconnected
    /\ SessionGone
    /\ UNCHANGED <<running, backoff, connecting, rested>>

BugSent == UNCHANGED sendPending

Sent == sendPending' = FALSE

\* libwebsockets makes this callback once for a request, when it finds the
\* socket writable; it may make it unasked as well.
Writeable ==
    /\ InService
    /\ open > 0
    /\ writableAsked' = FALSE
    /\ \/ sendPending /\ subscribed' = subscribed + 1 /\ Sent
       \/ ~sendPending /\ UNCHANGED <<subscribed, sendPending>>
    /\ UNCHANGED <<running, wsi, connected, backoff, connecting, open, rested>>

\* main, in yurei_ws_client_stop.
Stop ==
    /\ running' = FALSE
    /\ UNCHANGED <<loop, wsi, connected, backoff, session, connecting, open,
                   rested>>

LoopTop  == ConnectBegins \/ ConnectFails \/ KeepConnection \/ LeaveLoop
Callback == Established \/ ConnectionError \/ Closed \/ Writeable

Next == LoopTop \/ Idle \/ Callback \/ Stop

Spec == Init /\ [][Next]_vars

(***************************************************************************)
(* ws_thread runs, and lws_service comes back to it after 100 ms at most.  *)
(* An attempt ends in a connection or, by the timeout of libwebsockets, in *)
(* an error; a valid endpoint is not refused at once for ever; and a       *)
(* healthy socket becomes writable, of which libwebsockets tells whoever   *)
(* asked for it, and only them.  lws_service is called over and over, so   *)
(* the callbacks are enabled again and again rather than all the time:     *)
(* strong fairness.                                                        *)
(***************************************************************************)
FairSpec ==
    /\ Spec
    /\ WF_vars(LoopTop)
    /\ WF_vars(Idle)
    /\ SF_vars(ConnectBegins)
    /\ SF_vars(Established \/ ConnectionError)
    /\ SF_vars(writableAsked /\ Writeable)
-----------------------------------------------------------------------------
BackoffCeiling == IF BackoffMin > BackoffMax THEN BackoffMin ELSE BackoffMax

\* Under this condition on the configured values the doubling cannot wrap.
NoWrap == 2 * BackoffMax <= UIntValues

\* The types of the state; the backoff stays below its ceiling through wraps
\* of the doubling, and above its minimum where none can happen.
TypeOK ==
    /\ loop \in {"top", "service", "ended"}
    /\ running \in BOOLEAN
    /\ wsi \in BOOLEAN
    /\ connected \in BOOLEAN
    /\ backoff \in 0 .. BackoffCeiling
    /\ NoWrap => backoff >= BackoffMin
    /\ sendPending \in BOOLEAN
    /\ writableAsked \in BOOLEAN
    /\ connecting \in Nat
    /\ open \in Nat
    /\ subscribed \in Nat
    /\ rested \in BOOLEAN

\* The client's two flags follow what libwebsockets holds through every
\* order of callbacks: wsi while there is a connection in any state,
\* connected while it is established.
FlagsFollowLinks ==
    /\ wsi <=> Links > 0
    /\ connected <=> open > 0

\* The loop never opens a second connection beside one that is open or
\* still being set up; its events would be received twice.
OneConnection == Links <= 1

\* The subscription is written exactly once on every connection: it is still
\* waiting for a writable socket, or it has been given to lws_write.  (The
\* code ignores the result of that call.)
SubscribedOnce ==
    open > 0 => subscribed = IF sendPending THEN 0 ELSE 1

\* A client without a connection makes a new attempt, however the last one
\* ended, unless it is stopped.
Reconnects == Links = 0 ~> Links > 0 \/ ~running

\* A connection that stays open gets subscribed: the request made when it
\* was established is answered, and nothing but it need ever be.
GetsSubscribed == open > 0 ~> subscribed > 0 \/ open = 0

\* .env.example:24, "WebSocket reconnection backoff (milliseconds)": after
\* an attempt the client waits before it makes the next one.
BacksOffBetweenAttempts == [][connecting' > connecting => rested]_vars
-----------------------------------------------------------------------------
\* What makes the invariants inductive.
NoSessionWithoutLink == open = 0 => subscribed = 0 /\ ~sendPending

\* A subscription that waits to be written has its callback ahead of it: no
\* earlier WRITEABLE, asked for or not, has used the request up.
PendingIsAsked == sendPending => writableAsked

SafeConnection ==
    /\ TypeOK
    /\ FlagsFollowLinks
    /\ OneConnection
    /\ SubscribedOnce
    /\ NoSessionWithoutLink
    /\ PendingIsAsked
=============================================================================
