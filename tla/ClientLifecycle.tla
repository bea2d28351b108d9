--------------------------- MODULE ClientLifecycle ---------------------------
(***************************************************************************)
(* The threads of yurei-jsonrpc-client and how main() starts and stops     *)
(* them: main itself, the WebSocket thread and the HTTP poller (producers  *)
(* of the event queue), and the database writer (its consumer).            *)
(*                                                                         *)
(* The queue is the abstract one of BoundedFifo, which EventQueue is shown *)
(* to implement: a push on a full open queue and a pop on an empty open    *)
(* one wait.  A step of a thread is what it does up to its next look at a  *)
(* variable another thread writes (a `running' flag, client->context, the  *)
(* queue) or its next wait for a peer.  What is in an event, how a         *)
(* connection is made and what a poll asks for are left to other modules.  *)
(***************************************************************************)
EXTENDS Integers, Sequences

CONSTANTS
    Modes,          \* values of YUREI_RPC_MODE considered
    Capacity,       \* slots of the queue
    MaxBatch        \* bound: "Program data:" lines in one message

ASSUME LifecycleAssumption ==
    /\ Modes \subseteq {"ws", "http", "dual"}
    /\ Capacity \in Nat \ {0}
    /\ MaxBatch \in Nat \ {0}

VARIABLES
    pc,             \* the statement main() is at
    signalled,      \* g_should_exit
    useWs, useHttp, \* main's use_ws and use_http
    alive,          \* which of main's queue and rate limiter are initialised
    wsPc,           \* where ws_thread is
    wsRunning,      \* ws_client.running
    wsTodo,         \* events of the current message still to be pushed
    ctxSet,         \* ws_client.context # NULL
    ctxAlive,       \* the libwebsockets context exists
    httpPc, httpRunning, httpTodo,      \* likewise for poller_thread
    wrPc, wrRunning,                    \* likewise for writer_thread
    items, closed, pushRet, popRet      \* the queue, see BoundedFifo

mainVars  == <<signalled, useWs, useHttp, alive>>
wsVars    == <<wsPc, wsRunning, wsTodo, ctxSet, ctxAlive>>
httpVars  == <<httpPc, httpRunning, httpTodo>>
wrVars    == <<wrPc, wrRunning>>
queueVars == <<items, closed, pushRet, popRet>>
vars == <<pc, mainVars, wsVars, httpVars, wrVars, queueVars>>

Producers == {"ws", "http"}
Resources == {"queue", "limiter"}

\* An event is told apart by the thread it came from.
Queue == INSTANCE BoundedFifo
            WITH Consumers <- {"writer"}, Events <- Producers,
                 NoEvent <- "none"

Init ==
    /\ pc = "init"
    /\ signalled = FALSE
    /\ \E mode \in Modes : /\ useWs = (mode # "http")
                           /\ useHttp = (mode \in {"http", "dual"})
    /\ alive = {}
    /\ wsPc = "off" /\ wsRunning = FALSE /\ wsTodo = 0
    /\ ctxSet = FALSE /\ ctxAlive = FALSE
    /\ httpPc = "off" /\ httpRunning = FALSE /\ httpTodo = 0
    /\ wrPc = "off" /\ wrRunning = FALSE
    /\ Queue!Init
-----------------------------------------------------------------------------
(* main(): initialisation.  Any step of it may fail.                       *)
InitResources ==
    /\ pc = "init"
    /\ \/ pc' = "exit" /\ alive' = {}
       \/ pc' = "start_writer" /\ alive' = Resources
    /\ UNCHANGED <<signalled, useWs, useHttp, wsVars, httpVars, wrVars,
                   queueVars>>

WriterStarted == wrPc' = "connect" /\ wrRunning' = TRUE

StartWriter ==
    /\ pc = "start_writer"
    /\ \/ /\ pc' = "start_ws"
          /\ WriterStarted
          /\ UNCHANGED alive
       \/ /\ pc' = "exit"
          /\ alive' = {}
          /\ UNCHANGED wrVars
    /\ UNCHANGED <<signalled, useWs, useHttp, wsVars, httpVars, queueVars>>

WsStarted ==
    /\ wsPc' = "create"
    /\ wsRunning' = TRUE
    /\ UNCHANGED <<useWs, useHttp, wsTodo, ctxSet, ctxAlive>>

\* yurei_ws_client_start returned -1: no thread, but the flag stays set.
WsNotStarted ==
    /\ wsRunning' = TRUE
    /\ UNCHANGED <<wsPc, wsTodo, ctxSet, ctxAlive>>

BugNoWsFallback == WsNotStarted /\ useHttp' = TRUE /\ UNCHANGED useWs

\* "falling back to HTTP"
WsFallback == WsNotStarted /\ useHttp' = TRUE /\ useWs' = FALSE

StartWs ==
    /\ pc = "start_ws"
    /\ pc' = "start_http"
    /\ \/ useWs /\ (WsStarted \/ WsFallback)
       \/ ~useWs /\ UNCHANGED <<useWs, useHttp, wsVars>>
    /\ UNCHANGED <<signalled, alive, httpVars, wrVars, queueVars>>

HttpStarted == httpPc' = "create" /\ httpRunning' = TRUE

\* A failed start is logged and leaves poller.running FALSE.
StartHttp ==
    /\ pc = "start_http"
    /\ pc' = "loop"
    /\ \/ useHttp /\ HttpStarted
       \/ UNCHANGED <<httpPc, httpRunning>>
    /\ UNCHANGED <<mainVars, httpTodo, wsVars, wrVars, queueVars>>

\* SIGINT or SIGTERM after install_signal_handlers().
Signal ==
    /\ pc = "loop"
    /\ signalled' = TRUE
    /\ UNCHANGED <<pc, useWs, useHttp, alive, wsVars, httpVars, wrVars,
                   queueVars>>
-----------------------------------------------------------------------------
(* main(): shutdown.                                                       *)
LeaveLoop ==
    /\ pc = "loop" /\ signalled
    /\ pc' = "stop_ws"
    /\ UNCHANGED <<mainVars, wsVars, httpVars, wrVars, queueVars>>

StopWs ==
    /\ pc = "stop_ws"
    /\ pc' = IF useWs THEN "check_ctx" ELSE "stop_http"
    /\ wsRunning' = (wsRunning /\ ~useWs)
    /\ UNCHANGED <<mainVars, wsPc, wsTodo, ctxSet, ctxAlive, httpVars, wrVars,
                   queueVars>>

\* `if (client->context)': the thread may clear it right afterwards.
CheckContext ==
    /\ pc = "check_ctx"
    /\ pc' = IF ctxSet THEN "cancel" ELSE "join_ws"
    /\ UNCHANGED <<mainVars, wsVars, httpVars, wrVars, queueVars>>

\* lws_cancel_service only cuts lws_service short.
CancelService ==
    /\ pc = "cancel"
    /\ pc' = "join_ws"
    /\ UNCHANGED <<mainVars, wsVars, httpVars, wrVars, queueVars>>

JoinWs ==
    /\ pc = "join_ws" /\ wsPc = "ended"
    /\ pc' = "stop_http"
    /\ UNCHANGED <<mainVars, wsVars, httpVars, wrVars, queueVars>>

HttpToStop == useHttp /\ httpRunning

StopHttp ==
    /\ pc = "stop_http"
    /\ pc' = IF HttpToStop THEN "join_http" ELSE "close"
    /\ httpRunning' = FALSE
    /\ UNCHANGED <<mainVars, httpPc, httpTodo, wsVars, wrVars, queueVars>>

BugJoinHttpDetached ==
    /\ pc = "join_http"
    /\ pc' = "close"
    /\ UNCHANGED <<mainVars, wsVars, httpVars, wrVars, queueVars>>

JoinHttp ==
    /\ pc = "join_http" /\ httpPc = "ended"
    /\ pc' = "close"
    /\ UNCHANGED <<mainVars, wsVars, httpVars, wrVars, queueVars>>

BugNoClose ==
    /\ pc = "close"
    /\ pc' = "stop_writer"
    /\ UNCHANGED <<mainVars, wsVars, httpVars, wrVars, queueVars>>

CloseQueue ==
    /\ pc = "close"
    /\ pc' = "stop_writer"
    /\ Queue!Close
    /\ UNCHANGED <<mainVars, wsVars, httpVars, wrVars>>

StopWriter ==
    /\ pc = "stop_writer"
    /\ pc' = "join_writer"
    /\ wrRunning' = FALSE
    /\ UNCHANGED <<mainVars, wrPc, wsVars, httpVars, queueVars>>

BugJoinWriterDetached ==
    /\ pc = "join_writer"
    /\ pc' = "destroy"
    /\ UNCHANGED <<mainVars, wsVars, httpVars, wrVars, queueVars>>

JoinWriter ==
    /\ pc = "join_writer" /\ wrPc = "ended"
    /\ pc' = "destroy"
    /\ UNCHANGED <<mainVars, wsVars, httpVars, wrVars, queueVars>>

\* yurei_queue_destroy and yurei_rate_limiter_destroy, then return 0.
Destroy ==
    /\ pc = "destroy"
    /\ pc' = "exit"
    /\ alive' = {}
    /\ UNCHANGED <<signalled, useWs, useHttp, wsVars, httpVars, wrVars,
                   queueVars>>

Startup == InitResources \/ StartWriter \/ StartWs \/ StartHttp
Shutdown ==
    \/ LeaveLoop
    \/ StopWs \/ CheckContext \/ CancelService \/ JoinWs
    \/ StopHttp \/ JoinHttp
    \/ CloseQueue \/ StopWriter \/ JoinWriter \/ Destroy
Main == Startup \/ Shutdown
-----------------------------------------------------------------------------
(* What a producer does with the events of one message: yurei_parser_      *)
(* handle_message pushes them one by one and only counts a refusal out.    *)
BugAfterPush(todo) == IF todo = 0 THEN "loop" ELSE "push"

AfterPush(todo) == IF todo = 1 THEN "loop" ELSE "push"

PushOne(p) == Queue!Accept(p, p) \/ Queue!Refuse(p)

(* ws_thread.                                                              *)
WsCreateContext ==
    /\ wsPc = "create"
    /\ \/ /\ ctxSet' = TRUE /\ ctxAlive' = TRUE
          /\ wsPc' = "loop"
          /\ UNCHANGED wsRunning
       \/ /\ wsRunning' = FALSE
          /\ wsPc' = "ended"
          /\ UNCHANGED <<ctxSet, ctxAlive>>
    /\ UNCHANGED <<pc, mainVars, wsTodo, httpVars, wrVars, queueVars>>

\* One round of the loop: (re)connect if need be, and lws_service, which
\* comes back within 100 ms with at most one message (of todo events).
WsService ==
    /\ wsPc = "loop" /\ wsRunning
    /\ wsTodo' \in 0 .. MaxBatch
    /\ wsPc' = IF wsTodo' = 0 THEN "loop" ELSE "push"
    /\ UNCHANGED <<pc, mainVars, wsRunning, ctxSet, ctxAlive, httpVars, wrVars,
                   queueVars>>

WsPush ==
    /\ wsPc = "push"
    /\ PushOne("ws")
    /\ wsTodo' = wsTodo - 1
    /\ wsPc' = AfterPush(wsTodo)
    /\ UNCHANGED <<pc, mainVars, wsRunning, ctxSet, ctxAlive, httpVars,
                   wrVars>>

\* lws_context_destroy, and then the assignment of NULL.
WsDestroyContext ==
    /\ wsPc = "loop" /\ ~wsRunning
    /\ wsPc' = "clear"
    /\ ctxAlive' = FALSE
    /\ UNCHANGED <<pc, mainVars, wsRunning, wsTodo, ctxSet, httpVars, wrVars,
                   queueVars>>

WsClearContext ==
    /\ wsPc = "clear"
    /\ wsPc' = "ended"
    /\ ctxSet' = FALSE
    /\ UNCHANGED <<pc, mainVars, wsRunning, wsTodo, ctxAlive, httpVars, wrVars,
                   queueVars>>
-----------------------------------------------------------------------------
(* poller_thread.                                                          *)
HttpCreateCurl ==
    /\ httpPc = "create"
    /\ \/ httpPc' = "loop" /\ UNCHANGED httpRunning
       \/ httpPc' = "ended" /\ httpRunning' = FALSE
    /\ UNCHANGED <<pc, mainVars, httpTodo, wsVars, wrVars, queueVars>>

\* The loop condition; a new round waits for the rate limiter and sends.
HttpLoop ==
    /\ httpPc = "loop"
    /\ httpPc' = IF httpRunning THEN "request" ELSE "ended"
    /\ UNCHANGED <<pc, mainVars, httpRunning, httpTodo, wsVars, wrVars,
                   queueVars>>

\* curl_easy_perform returns: a body of httpTodo events, or nothing usable.
HttpAnswer ==
    /\ httpPc = "request"
    /\ httpTodo' \in 0 .. MaxBatch
    /\ httpPc' = IF httpTodo' = 0 THEN "loop" ELSE "push"
    /\ UNCHANGED <<pc, mainVars, httpRunning, wsVars, wrVars, queueVars>>

HttpPush ==
    /\ httpPc = "push"
    /\ PushOne("http")
    /\ httpTodo' = httpTodo - 1
    /\ httpPc' = AfterPush(httpTodo)
    /\ UNCHANGED <<pc, mainVars, httpRunning, wsVars, wrVars>>
-----------------------------------------------------------------------------
(* writer_thread.                                                          *)
\* wait_for_connection: one PQconnectdb after the other until PostgreSQL
\* accepts, whatever `running' is.
WriterConnect ==
    /\ wrPc = "connect"
    /\ wrPc' \in {"loop", "retry"}
    /\ UNCHANGED <<pc, mainVars, wrRunning, wsVars, httpVars, queueVars>>

\* The end of its usleep.
WriterRetry ==
    /\ wrPc = "retry"
    /\ wrPc' = "connect"
    /\ UNCHANGED <<pc, mainVars, wrRunning, wsVars, httpVars, queueVars>>

WriterLoop ==
    /\ wrPc = "loop"
    /\ wrPc' = IF wrRunning THEN "pop" ELSE "ended"
    /\ UNCHANGED <<pc, mainVars, wrRunning, wsVars, httpVars, queueVars>>

WriterPop ==
    /\ wrPc = "pop"
    /\ \/ Queue!Deliver("writer") /\ wrPc' = "insert"
       \/ Queue!Exhausted("writer") /\ wrPc' = "ended"
    /\ UNCHANGED <<pc, mainVars, wrRunning, wsVars, httpVars>>

BugGiveUpAfterInsert == {"loop", "ended"}

\* A failed insert drops its event and reconnects.
AfterInsert == {"loop", "connect"}

WriterInsert ==
    /\ wrPc = "insert"
    /\ wrPc' \in AfterInsert
    /\ UNCHANGED <<pc, mainVars, wrRunning, wsVars, httpVars, queueVars>>
-----------------------------------------------------------------------------
Ws     == WsCreateContext \/ WsService \/ WsPush \/ WsDestroyContext
                          \/ WsClearContext
Http   == HttpCreateCurl \/ HttpLoop \/ HttpAnswer \/ HttpPush
Writer == WriterConnect \/ WriterRetry \/ WriterLoop \/ WriterPop
                        \/ WriterInsert

\* The process has exited.
Done == pc = "exit" /\ UNCHANGED vars

Next == Main \/ Signal \/ Ws \/ Http \/ Writer \/ Done

Spec == Init /\ [][Next]_vars

(***************************************************************************)
(* The scheduler runs every thread.  Nothing makes a signal or a WebSocket *)
(* message arrive; nothing makes the RPC endpoint answer (the poller sets  *)
(* no CURLOPT_TIMEOUT) or PostgreSQL accept a connection or finish an      *)
(* INSERT (no timeout either).  A blocked push needs strong fairness when  *)
(* both producers run: the other one may take a freed slot, but it pauses  *)
(* between messages (poll_interval_ms, the 100 ms of lws_service) and the  *)
(* condition variable hands later slots to the thread that sleeps on it.   *)
(***************************************************************************)
ThreadFairness ==
    /\ WF_vars(Main)
    /\ WF_vars(WsCreateContext \/ WsDestroyContext \/ WsClearContext)
    /\ SF_vars(WsPush)
    /\ WF_vars(HttpCreateCurl \/ HttpLoop)
    /\ SF_vars(HttpPush)
    /\ WF_vars(WriterRetry \/ WriterLoop \/ WriterPop)

ThreadSpec == Spec /\ ThreadFairness
-----------------------------------------------------------------------------
MainPcs == {"init", "start_writer", "start_ws", "start_http", "loop",
            "stop_ws", "check_ctx", "cancel", "join_ws", "stop_http",
            "join_http", "close", "stop_writer", "join_writer", "destroy",
            "exit"}

WsActive   == wsPc \notin {"off", "ended"}
HttpActive == httpPc \notin {"off", "ended"}
WrActive   == wrPc \notin {"off", "ended"}

\* The types of the state; the queue never holds more than its capacity and
\* a message is never pushed past its last event.
TypeOK ==
    /\ pc \in MainPcs
    /\ {signalled, useWs, useHttp, wsRunning, ctxSet, ctxAlive,
        httpRunning, wrRunning, closed} \subseteq BOOLEAN
    /\ alive \in SUBSET Resources
    /\ wsPc \in {"off", "create", "loop", "push", "clear", "ended"}
    /\ wsTodo \in 0 .. MaxBatch
    /\ httpPc \in {"off", "create", "loop", "request", "push", "ended"}
    /\ httpTodo \in 0 .. MaxBatch
    /\ wrPc \in {"off", "connect", "retry", "loop", "pop", "insert", "ended"}
    /\ items \in Seq(Producers)
    /\ Len(items) <= Capacity
    /\ pushRet \in [Producers -> {0, -1}]
    /\ popRet \in [{"writer"} -> Producers \cup {"none"}]

(***************************************************************************)
(* How far main and each thread can be apart: the inductive invariant      *)
(* behind the four safety properties below.                                *)
(***************************************************************************)
WsSpan   == {"start_http", "loop", "stop_ws", "check_ctx", "cancel", "join_ws"}
HttpSpan == (WsSpan \ {"start_http"}) \cup {"stop_http", "join_http"}

WsPhase ==
    /\ pc \in {"init", "start_writer", "start_ws"} => wsPc = "off"
    /\ pc \in WsSpan => (useWs <=> wsPc # "off")
    /\ pc \in {"check_ctx", "cancel", "join_ws"} => useWs
    /\ WsActive => pc \in WsSpan
    /\ wsPc = "push" => wsTodo # 0

HttpPhase ==
    /\ pc \in {"init", "start_writer", "start_ws", "start_http"} =>
          httpPc = "off"
    /\ HttpActive => pc \in HttpSpan
    /\ HttpActive /\ pc # "join_http" => useHttp /\ httpRunning
    /\ httpRunning \/ pc = "join_http" => httpPc # "off"
    /\ httpPc = "push" => httpTodo # 0

WriterPhase ==
    /\ pc \in {"init", "start_writer"} => wrPc = "off"
    /\ pc \notin {"init", "start_writer", "exit"} => wrPc # "off"
    /\ WrActive => pc \notin {"destroy", "exit"}
    /\ WrActive /\ pc # "join_writer" => wrRunning
    /\ wrPc = "ended" => closed

QueuePhase ==
    /\ closed => pc \in {"stop_writer", "join_writer", "destroy", "exit"}
    /\ pc \in {"stop_writer", "join_writer", "destroy"} => closed
    /\ alive = IF pc \in {"init", "exit"} THEN {} ELSE Resources

\* main closes the queue only when both network threads are gone, so no
\* event a producer has parsed is ever turned away by a closed queue,
\* wherever in a message the shutdown catches the producer.
PushNeverRefused == \A p \in Producers : pushRet[p] = 0

\* While a network thread lives, so does the writer that makes room for it:
\* a producer blocked on a full queue is never left without a consumer,
\* whatever fails or is stopped first.
WriterOutlivesProducers == WsActive \/ HttpActive => WrActive

\* The queue and the rate limiter exist as long as any thread may touch
\* them, also on the paths where a thread could not be started or ended by
\* itself, and they are released when the process exits.
ResourcesOutliveThreads ==
    /\ WsActive \/ HttpActive \/ WrActive => alive = Resources
    /\ pc = "exit" => alive = {}

\* main never waits for a thread that was not created: use_ws and
\* http_poller.running still tell at shutdown what happened at start.
JoinsOnlyStarted ==
    /\ pc \in {"check_ctx", "cancel", "join_ws"} => wsPc # "off"
    /\ pc = "join_http" => httpPc # "off"
    /\ pc = "join_writer" => wrPc # "off"

\* The four together with what makes them inductive.
SafeLifecycle ==
    /\ TypeOK
    /\ WsPhase
    /\ HttpPhase
    /\ WriterPhase
    /\ QueuePhase
    /\ PushNeverRefused

\* What only PostgreSQL can end: wait_for_connection, attempts and pauses (it
\* does not look at `running'), or an INSERT.
Connecting         == {"connect", "retry"}
WriterWaitsForPeer == wrPc \in Connecting \cup {"insert"}

\* A signalled process exits, unless its writer waits for PostgreSQL for ever
\* or its poller for the answer to a request: no join waits for a thread that
\* waits for main, and nothing else inside the process can hold it up.
ShutdownHeldUpOnlyByPeers ==
    <>signalled => \/ <>(pc = "exit")
                   \/ <>[]WriterWaitsForPeer
                   \/ <>[](httpPc = "request")

\* A network thread caught by backpressure gets its message into the queue
\* and goes on, shutdown or not, unless PostgreSQL stays away for ever.
BackpressureRelieved ==
    <>[](wsPc = "push") \/ <>[](httpPc = "push") => <>[]WriterWaitsForPeer

\* The claim of main.c:119, "Failed to start WebSocket client; falling back
\* to HTTP": when the WebSocket client turned out unable to run, the poller
\* has been started (or tried) in its place.
HttpTakesOver == pc = "loop" /\ wsPc = "ended" => useHttp
=============================================================================
