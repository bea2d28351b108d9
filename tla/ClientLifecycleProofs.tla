------------------------ MODULE ClientLifecycleProofs ------------------------
(***************************************************************************)
(* Proofs about ClientLifecycle for any queue capacity, any message size   *)
(* and any set of modes: the order in which main starts and stops its      *)
(* threads keeps the queue open, the writer alive and the shared objects   *)
(* in existence for as long as a network thread may need them.             *)
(***************************************************************************)
EXTENDS ClientLifecycle, SequenceTheorems, TLAPS

\* Before main's first statement no thread exists.
LEMMA InitSafe == Init => SafeLifecycle
<1> SUFFICES ASSUME Init PROVE SafeLifecycle
  OBVIOUS
<1> USE LifecycleAssumption DEF Init, Queue!Init
<1>1. TypeOK
  <2>1. useWs \in BOOLEAN /\ useHttp \in BOOLEAN
    OBVIOUS
  <2>2. items \in Seq(Producers) /\ Len(items) <= Capacity
    OBVIOUS
  <2>3. /\ pushRet \in [Producers -> {0, -1}]
        /\ popRet \in [{"writer"} -> Producers \cup {"none"}]
    OBVIOUS
  <2>4. pc \in MainPcs /\ alive \in SUBSET Resources
    BY DEF MainPcs
  <2>5. {signalled, useWs, useHttp, wsRunning, ctxSet, ctxAlive,
         httpRunning, wrRunning, closed} \subseteq BOOLEAN
    BY <2>1
  <2> QED
    BY <2>2, <2>3, <2>4, <2>5 DEF TypeOK
<1>2. WsPhase /\ HttpPhase /\ WriterPhase /\ QueuePhase
  BY DEF WsPhase, HttpPhase, WriterPhase, QueuePhase, WsSpan, HttpSpan,
         WsActive, HttpActive, WrActive
<1>3. PushNeverRefused
  BY DEF PushNeverRefused, Producers
<1> QED
  BY <1>1, <1>2, <1>3 DEF SafeLifecycle
-----------------------------------------------------------------------------
(* The queue: what each of its operations does to the types.               *)

\* An accepted push appends one event and refuses nobody.
LEMMA AcceptKeepsQueue ==
    ASSUME TypeOK, PushNeverRefused, NEW p \in Producers, Queue!Accept(p, p)
    PROVE  /\ items' \in Seq(Producers) /\ Len(items') <= Capacity
           /\ pushRet' \in [Producers -> {0, -1}]
           /\ popRet' \in [{"writer"} -> Producers \cup {"none"}]
           /\ PushNeverRefused'
           /\ closed' = closed
BY LifecycleAssumption DEF TypeOK, PushNeverRefused, Queue!Accept

\* A pop that delivers shortens the queue.
LEMMA DeliverKeepsQueue ==
    ASSUME TypeOK, Queue!Deliver("writer")
    PROVE  /\ items' \in Seq(Producers) /\ Len(items') <= Capacity
           /\ pushRet' = pushRet
           /\ popRet' \in [{"writer"} -> Producers \cup {"none"}]
           /\ closed' = closed
<1>1. items \in Seq(Producers) /\ items # <<>> /\ Len(items) <= Capacity
  BY DEF TypeOK, Queue!Deliver
<1>2. Head(items) \in Producers /\ Tail(items) \in Seq(Producers)
      /\ Len(Tail(items)) = Len(items) - 1 /\ Len(items) \in Nat
  BY <1>1
<1> QED
  BY <1>1, <1>2, LifecycleAssumption DEF TypeOK, Queue!Deliver
-----------------------------------------------------------------------------
(* main.                                                                   *)

\* main up to its loop: threads come into being in their phase.
LEMMA StartupStep ==
    ASSUME SafeLifecycle, Startup
    PROVE  SafeLifecycle'
<1> USE LifecycleAssumption
    DEF SafeLifecycle, TypeOK, WsPhase, HttpPhase, WriterPhase, QueuePhase,
        PushNeverRefused, MainPcs, Resources, WsSpan, HttpSpan, WsActive,
        HttpActive, WrActive, mainVars, wsVars, httpVars, wrVars, queueVars
<1>1. CASE InitResources
  BY <1>1 DEF InitResources
<1>2. CASE StartWriter
  BY <1>2 DEF StartWriter, WriterStarted
<1>3. CASE StartWs
  <2> USE <1>3 DEF StartWs
  <2>1. CASE useWs /\ WsStarted
    BY <2>1 DEF WsStarted
  <2>2. CASE useWs /\ WsFallback
    BY <2>2 DEF WsFallback, WsNotStarted
  <2>3. CASE ~useWs /\ UNCHANGED <<useWs, useHttp, wsVars>>
    BY <2>3
  <2> QED
    BY <2>1, <2>2, <2>3
<1>4. CASE StartHttp
  <2> USE <1>4 DEF StartHttp
  <2>1. CASE useHttp /\ HttpStarted
    BY <2>1 DEF HttpStarted
  <2>2. CASE UNCHANGED <<httpPc, httpRunning>>
    BY <2>2
  <2> QED
    BY <2>1, <2>2
<1> QED
  BY <1>1, <1>2, <1>3, <1>4 DEF Startup

\* main from the loop to the exit: each join precedes the next stop.
LEMMA ShutdownStep ==
    ASSUME SafeLifecycle, Shutdown
    PROVE  SafeLifecycle'
<1> USE LifecycleAssumption
    DEF SafeLifecycle, TypeOK, WsPhase, HttpPhase, WriterPhase, QueuePhase,
        PushNeverRefused, MainPcs, Resources, WsSpan, HttpSpan, WsActive,
        HttpActive, WrActive, mainVars, wsVars, httpVars, wrVars, queueVars
<1>1. CASE LeaveLoop
  BY <1>1 DEF LeaveLoop
<1>2. CASE StopWs
  BY <1>2 DEF StopWs
<1>3. CASE CheckContext
  BY <1>3 DEF CheckContext
<1>4. CASE CancelService
  BY <1>4 DEF CancelService
<1>5. CASE JoinWs
  BY <1>5 DEF JoinWs
<1>6. CASE StopHttp
  BY <1>6 DEF StopHttp, HttpToStop
<1>7. CASE JoinHttp
  BY <1>7 DEF JoinHttp
<1>8. CASE CloseQueue
  BY <1>8 DEF CloseQueue, Queue!Close
<1>9. CASE StopWriter
  BY <1>9 DEF StopWriter
<1>10. CASE JoinWriter
  BY <1>10 DEF JoinWriter
<1>11. CASE Destroy
  BY <1>11 DEF Destroy
<1> QED
  BY <1>1, <1>2, <1>3, <1>4, <1>5, <1>6, <1>7, <1>8, <1>9, <1>10, <1>11
  DEF Shutdown

\* A signal only sets the flag that main's loop reads.
LEMMA SignalStep ==
    ASSUME SafeLifecycle, Signal
    PROVE  SafeLifecycle'
BY DEF Signal, SafeLifecycle, TypeOK, WsPhase, HttpPhase, WriterPhase,
       QueuePhase, PushNeverRefused, WsActive, HttpActive, WrActive,
       mainVars, wsVars, httpVars, wrVars, queueVars
-----------------------------------------------------------------------------
(* The network threads.  The queue is open while they live, so PushOne is  *)
(* an accepted push.                                                       *)

\* The WebSocket thread moves within its span of main.
LEMMA WsStep ==
    ASSUME SafeLifecycle, Ws
    PROVE  SafeLifecycle'
<1> USE LifecycleAssumption
    DEF SafeLifecycle, WsPhase, HttpPhase, WriterPhase, QueuePhase,
        WsSpan, WsActive, HttpActive, WrActive, mainVars, httpVars, wrVars
<1>1. CASE WsCreateContext
  <2>1. CASE /\ wsPc' = "ended" /\ wsRunning' = FALSE
             /\ UNCHANGED <<ctxSet, ctxAlive>>
    BY <1>1, <2>1 DEF WsCreateContext, TypeOK, PushNeverRefused, queueVars
  <2>2. CASE wsPc' = "loop" /\ wsRunning' = wsRunning
    BY <1>1, <2>2 DEF WsCreateContext, TypeOK, PushNeverRefused, queueVars
  <2> QED
    BY <1>1, <2>1, <2>2 DEF WsCreateContext
<1>2. CASE WsService
  BY <1>2 DEF WsService, TypeOK, PushNeverRefused, queueVars
<1>3. CASE WsPush
  <2>1. "ws" \in Producers /\ ~closed
    BY <1>3 DEF WsPush, Producers
  <2>2. Queue!Accept("ws", "ws")
    BY <1>3, <2>1 DEF WsPush, PushOne, Queue!Refuse
  <2>3. wsTodo' \in 0 .. MaxBatch /\ (wsPc' = "push" => wsTodo' # 0)
    BY <1>3 DEF WsPush, AfterPush, TypeOK
  <2> QED
    BY <1>3, <2>1, <2>2, <2>3, AcceptKeepsQueue DEF WsPush, AfterPush, TypeOK
<1>4. CASE WsDestroyContext
  BY <1>4 DEF WsDestroyContext, TypeOK, PushNeverRefused, queueVars
<1>5. CASE WsClearContext
  BY <1>5 DEF WsClearContext, TypeOK, PushNeverRefused, queueVars
<1> QED
  BY <1>1, <1>2, <1>3, <1>4, <1>5 DEF Ws

\* Likewise the poller.
LEMMA HttpStep ==
    ASSUME SafeLifecycle, Http
    PROVE  SafeLifecycle'
<1> USE LifecycleAssumption
    DEF SafeLifecycle, WsPhase, HttpPhase, WriterPhase, QueuePhase,
        WsSpan, HttpSpan, WsActive, HttpActive, WrActive, mainVars, wsVars,
        wrVars
<1>1. CASE HttpCreateCurl
  <2>1. CASE httpPc' = "loop" /\ UNCHANGED httpRunning
    BY <1>1, <2>1 DEF HttpCreateCurl, TypeOK, PushNeverRefused, queueVars
  <2>2. CASE httpPc' = "ended" /\ httpRunning' = FALSE
    BY <1>1, <2>2 DEF HttpCreateCurl, TypeOK, PushNeverRefused, queueVars
  <2> QED
    BY <1>1, <2>1, <2>2 DEF HttpCreateCurl
<1>2. CASE HttpLoop
  BY <1>2 DEF HttpLoop, TypeOK, PushNeverRefused, queueVars
<1>3. CASE HttpAnswer
  BY <1>3 DEF HttpAnswer, TypeOK, PushNeverRefused, queueVars
<1>4. CASE HttpPush
  <2>1. "http" \in Producers /\ ~closed
    BY <1>4 DEF HttpPush, Producers
  <2>2. Queue!Accept("http", "http")
    BY <1>4, <2>1 DEF HttpPush, PushOne, Queue!Refuse
  <2>3. httpTodo' \in 0 .. MaxBatch /\ (httpPc' = "push" => httpTodo' # 0)
    BY <1>4 DEF HttpPush, AfterPush, TypeOK
  <2> QED
    BY <1>4, <2>1, <2>2, <2>3, AcceptKeepsQueue
    DEF HttpPush, AfterPush, TypeOK
<1> QED
  BY <1>1, <1>2, <1>3, <1>4 DEF Http
-----------------------------------------------------------------------------
(* The writer.                                                             *)

\* The writer ends only when main has told it to or the queue is closed.
LEMMA WriterStep ==
    ASSUME SafeLifecycle, Writer
    PROVE  SafeLifecycle'
<1> USE LifecycleAssumption
    DEF SafeLifecycle, WsPhase, HttpPhase, WriterPhase, QueuePhase,
        WsActive, HttpActive, WrActive, mainVars, wsVars, httpVars
<1>1. CASE WriterConnect
  BY <1>1 DEF WriterConnect, TypeOK, PushNeverRefused, queueVars
<1>2. CASE WriterRetry
  BY <1>2 DEF WriterRetry, TypeOK, PushNeverRefused, queueVars
<1>3. CASE WriterLoop
  BY <1>3 DEF WriterLoop, TypeOK, PushNeverRefused, queueVars
<1>4. CASE WriterPop
  <2>1. CASE Queue!Deliver("writer") /\ wrPc' = "insert"
    BY <1>4, <2>1, DeliverKeepsQueue DEF WriterPop, TypeOK, PushNeverRefused
  <2>2. CASE Queue!Exhausted("writer") /\ wrPc' = "ended"
    BY <1>4, <2>2 DEF WriterPop, Queue!Exhausted, TypeOK, PushNeverRefused
  <2> QED
    BY <1>4, <2>1, <2>2 DEF WriterPop
<1>5. CASE WriterInsert
  BY <1>5 DEF WriterInsert, AfterInsert, TypeOK, PushNeverRefused, queueVars
<1> QED
  BY <1>1, <1>2, <1>3, <1>4, <1>5 DEF Writer
-----------------------------------------------------------------------------
(* Every reachable state is safe: types, and how far main can be ahead of  *)
(* each thread.                                                            *)
THEOREM LifecycleSafe == Spec => []SafeLifecycle
<1>1. SafeLifecycle /\ [Next]_vars => SafeLifecycle'
  <2> SUFFICES ASSUME SafeLifecycle, [Next]_vars PROVE SafeLifecycle'
    OBVIOUS
  <2>1. CASE UNCHANGED vars
    BY <2>1 DEF vars, SafeLifecycle, TypeOK, WsPhase, HttpPhase, WriterPhase,
                QueuePhase, PushNeverRefused, WsActive, HttpActive, WrActive,
                mainVars, wsVars, httpVars, wrVars, queueVars
  <2>2. CASE Next
    BY <2>1, <2>2, StartupStep, ShutdownStep, SignalStep, WsStep, HttpStep,
       WriterStep DEF Next, Main, Done
  <2> QED
    BY <2>1, <2>2
<1> QED
  BY InitSafe, <1>1, PTL DEF Spec

\* Every variable of the model, the queue's included, keeps to its type.
THEOREM LifecycleTypes == Spec => []TypeOK
<1>1. SafeLifecycle => TypeOK
  BY DEF SafeLifecycle
<1> QED
  BY <1>1, LifecycleSafe, PTL

\* No push of the program is ever refused: yurei_queue_close happens after
\* both network threads have been joined, or never ran.
THEOREM QueueOpenForProducers == Spec => []PushNeverRefused
<1>1. SafeLifecycle => PushNeverRefused
  BY DEF SafeLifecycle
<1> QED
  BY <1>1, LifecycleSafe, PTL

\* A live network thread always has a live writer behind the queue.
THEOREM WriterStays == Spec => []WriterOutlivesProducers
<1>1. SafeLifecycle => WriterOutlivesProducers
  BY DEF SafeLifecycle, WriterOutlivesProducers, WsPhase, HttpPhase,
         WriterPhase, QueuePhase, WsSpan, HttpSpan, WrActive
<1> QED
  BY <1>1, LifecycleSafe, PTL

\* Queue and rate limiter are destroyed only when no thread is left.
THEOREM ResourcesStay == Spec => []ResourcesOutliveThreads
<1>1. SafeLifecycle => ResourcesOutliveThreads
  BY DEF SafeLifecycle, ResourcesOutliveThreads, WsPhase, HttpPhase,
         WriterPhase, QueuePhase, WsSpan, HttpSpan, WrActive
<1> QED
  BY <1>1, LifecycleSafe, PTL

\* Every pthread_join is of a thread that was created.
THEOREM JoinsMatchStarts == Spec => []JoinsOnlyStarted
<1>1. SafeLifecycle => JoinsOnlyStarted
  BY DEF SafeLifecycle, JoinsOnlyStarted, WsPhase, HttpPhase, WriterPhase,
         WsSpan
<1> QED
  BY <1>1, LifecycleSafe, PTL
-----------------------------------------------------------------------------
(***************************************************************************)
(* How long a join can last.  A thread main waits for has been told to     *)
(* stop, and from then on its steps count down: no run of messages or of   *)
(* events keeps it going.  The exception is wait_for_connection, which     *)
(* does not look at `running' and goes round for as long as PostgreSQL     *)
(* refuses.  What is left to liveness (ShutdownHeldUpOnlyByPeers) is that  *)
(* the next step is taken at all; a step may itself be a wait, for the     *)
(* rate limiter, the endpoint or PostgreSQL.                               *)
(***************************************************************************)

\* A thread main waits for, or has waited for, finds its running flag
\* cleared; the writer finds the queue closed as well, so that its pop comes
\* back.
JoinedAreTold ==
    /\ pc \in {"check_ctx", "cancel", "join_ws"} => ~wsRunning
    /\ pc = "join_http" => ~httpRunning
    /\ pc \in {"join_writer", "destroy"} => ~wrRunning /\ closed

\* The most steps a thread that was told to stop still has ahead of it; the
\* rounds of wait_for_connection that fail are not counted.
WsLeft ==
    IF wsPc = "push" THEN 2 + wsTodo
    ELSE IF wsPc = "create" THEN 3
    ELSE IF wsPc = "loop" THEN 2
    ELSE IF wsPc = "clear" THEN 1 ELSE 0

HttpLeft ==
    IF httpPc = "request" THEN 2 + MaxBatch
    ELSE IF httpPc = "push" THEN 1 + httpTodo
    ELSE IF httpPc = "create" THEN 2
    ELSE IF httpPc = "loop" THEN 1 ELSE 0

WriterLeft ==
    IF wrPc = "pop" THEN 4
    ELSE IF wrPc = "insert" THEN 3
    ELSE IF wrPc \in Connecting THEN 2
    ELSE IF wrPc = "loop" THEN 1 ELSE 0

\* main clears a flag before it joins, and nothing sets the flag again.
LEMMA ToldStep ==
    ASSUME SafeLifecycle, JoinedAreTold, Next
    PROVE  JoinedAreTold'
<1> USE DEF JoinedAreTold, mainVars, wsVars, httpVars, wrVars, queueVars
<1>1. CASE Startup
  <2>1. pc' \in {"exit", "start_writer", "start_ws", "start_http", "loop"}
    BY <1>1 DEF Startup, InitResources, StartWriter, StartWs, StartHttp
  <2> QED
    BY <2>1
<1>2. CASE Shutdown
  <2>1. CASE LeaveLoop
    BY <2>1 DEF LeaveLoop
  <2>2. CASE StopWs
    BY <2>2 DEF StopWs, SafeLifecycle, TypeOK
  <2>3. CASE CheckContext
    BY <2>3 DEF CheckContext
  <2>4. CASE CancelService
    BY <2>4 DEF CancelService
  <2>5. CASE JoinWs
    BY <2>5 DEF JoinWs
  <2>6. CASE StopHttp
    BY <2>6 DEF StopHttp
  <2>7. CASE JoinHttp
    BY <2>7 DEF JoinHttp
  <2>8. CASE CloseQueue
    BY <2>8 DEF CloseQueue
  <2>9. CASE StopWriter
    BY <2>9 DEF StopWriter, SafeLifecycle, QueuePhase
  <2>10. CASE JoinWriter
    BY <2>10 DEF JoinWriter
  <2>11. CASE Destroy
    BY <2>11 DEF Destroy
  <2> QED
    BY <1>2, <2>1, <2>2, <2>3, <2>4, <2>5, <2>6, <2>7, <2>8, <2>9, <2>10,
       <2>11 DEF Shutdown
<1>3. CASE Signal
  BY <1>3 DEF Signal
<1>4. CASE Ws
  <2>1. /\ pc' = pc /\ closed' = closed
        /\ wsRunning' = wsRunning \/ wsRunning' = FALSE
        /\ httpRunning' = httpRunning /\ wrRunning' = wrRunning
    BY <1>4 DEF Ws, WsCreateContext, WsService, WsPush, WsDestroyContext,
         WsClearContext, PushOne, Queue!Accept, Queue!Refuse
  <2> QED
    BY <2>1
<1>5. CASE Http
  <2>1. /\ pc' = pc /\ closed' = closed
        /\ httpRunning' = httpRunning \/ httpRunning' = FALSE
        /\ wsRunning' = wsRunning /\ wrRunning' = wrRunning
    BY <1>5 DEF Http, HttpCreateCurl, HttpLoop, HttpAnswer, HttpPush, PushOne,
         Queue!Accept, Queue!Refuse
  <2> QED
    BY <2>1
<1>6. CASE Writer
  <2>1. /\ pc' = pc /\ closed' = closed
        /\ wsRunning' = wsRunning /\ httpRunning' = httpRunning
        /\ wrRunning' = wrRunning
    BY <1>6 DEF Writer, WriterConnect, WriterRetry, WriterLoop, WriterPop,
         WriterInsert, Queue!Deliver, Queue!Exhausted
  <2> QED
    BY <2>1
<1>7. CASE Done
  BY <1>7 DEF Done, vars
<1> QED
  BY <1>1, <1>2, <1>3, <1>4, <1>5, <1>6, <1>7 DEF Next, Main

\* pthread_join is only ever called on a thread whose running flag is clear:
\* no join waits for a thread that would go on for its own sake.
THEOREM JoinedHaveBeenTold == Spec => []JoinedAreTold
<1>1. Init => JoinedAreTold
  BY DEF Init, JoinedAreTold
<1>2. SafeLifecycle /\ JoinedAreTold /\ [Next]_vars => JoinedAreTold'
  <2> SUFFICES ASSUME SafeLifecycle, JoinedAreTold, UNCHANGED vars
               PROVE  JoinedAreTold'
    BY ToldStep
  <2> QED
    BY DEF JoinedAreTold, vars, mainVars, wsVars, httpVars, wrVars, queueVars
<1> QED
  BY <1>1, <1>2, LifecycleSafe, PTL DEF Spec

\* The WebSocket thread: finish the message at hand, destroy, clear, return.
LEMMA WsWindsUp ==
    ASSUME SafeLifecycle, ~wsRunning, Ws
    PROVE  WsLeft' < WsLeft
<1> USE DEF WsLeft
<1>1. wsTodo \in Nat
  BY LifecycleAssumption DEF SafeLifecycle, TypeOK
<1>2. CASE WsCreateContext
  BY <1>2 DEF WsCreateContext
<1>3. CASE WsService
  BY <1>3 DEF WsService
<1>4. CASE WsPush
  <2>1. /\ wsPc = "push" /\ wsTodo' = wsTodo - 1 /\ wsTodo # 0
        /\ wsPc' = IF wsTodo = 1 THEN "loop" ELSE "push"
    BY <1>4 DEF WsPush, AfterPush, SafeLifecycle, WsPhase
  <2> QED
    BY <1>1, <2>1
<1>5. CASE WsDestroyContext
  BY <1>5 DEF WsDestroyContext
<1>6. CASE WsClearContext
  BY <1>6 DEF WsClearContext
<1> QED
  BY <1>2, <1>3, <1>4, <1>5, <1>6 DEF Ws

\* The poller: finish the request and the answer at hand, return.
LEMMA HttpWindsUp ==
    ASSUME SafeLifecycle, ~httpRunning, Http
    PROVE  HttpLeft' < HttpLeft
<1> USE DEF HttpLeft
<1>1. httpTodo \in Nat /\ MaxBatch \in Nat
  BY LifecycleAssumption DEF SafeLifecycle, TypeOK
<1>2. CASE HttpCreateCurl
  BY <1>2 DEF HttpCreateCurl
<1>3. CASE HttpLoop
  BY <1>3 DEF HttpLoop
<1>4. CASE HttpAnswer
  <2>1. /\ httpPc = "request" /\ httpTodo' \in 0 .. MaxBatch
        /\ httpPc' = IF httpTodo' = 0 THEN "loop" ELSE "push"
    BY <1>4 DEF HttpAnswer
  <2>2. PICK todo \in 0 .. MaxBatch : httpTodo' = todo
    BY <2>1
  <2>3. HttpLeft = 2 + MaxBatch
    BY <2>1
  <2>4. HttpLeft' = IF todo = 0 THEN 1 ELSE 1 + todo
    BY <2>1, <2>2
  <2> HIDE DEF HttpLeft
  <2> QED
    BY <1>1, <2>3, <2>4
<1>5. CASE HttpPush
  <2>1. /\ httpPc = "push" /\ httpTodo' = httpTodo - 1 /\ httpTodo # 0
        /\ httpPc' = IF httpTodo = 1 THEN "loop" ELSE "push"
    BY <1>5 DEF HttpPush, AfterPush, SafeLifecycle, HttpPhase
  <2> QED
    BY <1>1, <2>1
<1> QED
  BY <1>2, <1>3, <1>4, <1>5 DEF Http

\* A round of wait_for_connection that leads to another one.
AnotherAttempt == wrPc \in Connecting /\ wrPc' \in Connecting

\* The writer: at most one more event; a failed INSERT reconnects first, for
\* as long as it takes.
LEMMA WriterWindsUp ==
    ASSUME ~wrRunning, Writer
    PROVE  WriterLeft' < WriterLeft \/ AnotherAttempt
<1> USE DEF WriterLeft, AnotherAttempt, Connecting
<1>1. CASE WriterConnect
  BY <1>1 DEF WriterConnect
<1>2. CASE WriterRetry
  BY <1>2 DEF WriterRetry
<1>3. CASE WriterLoop
  BY <1>3 DEF WriterLoop
<1>4. CASE WriterPop
  <2>1. wrPc = "pop" /\ wrPc' \in {"insert", "ended"}
    BY <1>4 DEF WriterPop
  <2> QED
    BY <2>1
<1>5. CASE WriterInsert
  BY <1>5 DEF WriterInsert, AfterInsert
<1> QED
  BY <1>1, <1>2, <1>3, <1>4, <1>5 DEF Writer

\* The three counts are natural numbers, and small: the longest join is that
\* of a thread with a whole message before it.
LEMMA LeftIsBounded ==
    ASSUME SafeLifecycle
    PROVE  /\ WsLeft \in 0 .. MaxBatch + 2
           /\ HttpLeft \in 0 .. MaxBatch + 2
           /\ WriterLeft \in 0 .. 4
<1>1. /\ wsTodo \in 0 .. MaxBatch /\ httpTodo \in 0 .. MaxBatch
      /\ MaxBatch \in Nat \ {0}
  BY LifecycleAssumption DEF SafeLifecycle, TypeOK
<1> QED
  BY <1>1 DEF WsLeft, HttpLeft, WriterLeft

\* While main waits in a join, every step of the network thread it waits for
\* brings that thread nearer to its end, and so does every step of the writer
\* that is not one more round of wait_for_connection.  The queue's backlog
\* does not count: the writer leaves what is still queued.
JoinedComeNearer ==
    /\ pc = "join_ws" =>
          \/ UNCHANGED <<wsPc, wsTodo>>
          \/ WsLeft' < WsLeft
    /\ pc = "join_http" =>
          \/ UNCHANGED <<httpPc, httpTodo>>
          \/ HttpLeft' < HttpLeft
    /\ pc = "join_writer" =>
          \/ UNCHANGED wrPc
          \/ WriterLeft' < WriterLeft
          \/ AnotherAttempt

LEMMA JoinStep ==
    ASSUME SafeLifecycle, JoinedAreTold, Next
    PROVE  JoinedComeNearer
<1> USE DEF mainVars, wsVars, httpVars, wrVars, queueVars
<1>1. CASE Ws
  <2>1. UNCHANGED <<httpPc, httpTodo, wrPc>>
    BY <1>1 DEF Ws, WsCreateContext, WsService, WsPush, WsDestroyContext,
         WsClearContext
  <2> QED
    BY <1>1, <2>1, WsWindsUp DEF JoinedAreTold, JoinedComeNearer
<1>2. CASE Http
  <2>1. UNCHANGED <<wsPc, wsTodo, wrPc>>
    BY <1>2 DEF Http, HttpCreateCurl, HttpLoop, HttpAnswer, HttpPush
  <2> QED
    BY <1>2, <2>1, HttpWindsUp DEF JoinedAreTold, JoinedComeNearer
<1>3. CASE Writer
  <2>1. UNCHANGED <<wsPc, wsTodo, httpPc, httpTodo>>
    BY <1>3 DEF Writer, WriterConnect, WriterRetry, WriterLoop, WriterPop,
         WriterInsert
  <2> QED
    BY <1>3, <2>1, WriterWindsUp DEF JoinedAreTold, JoinedComeNearer
<1>4. CASE Startup
  <2>1. pc \in {"init", "start_writer", "start_ws", "start_http"}
    BY <1>4 DEF Startup, InitResources, StartWriter, StartWs, StartHttp
  <2> QED
    BY <2>1 DEF JoinedComeNearer
<1>5. CASE Shutdown \/ Signal \/ Done
  <2>1. UNCHANGED <<wsPc, wsTodo, httpPc, httpTodo, wrPc>>
    BY <1>5 DEF Signal, Done, vars, Shutdown, LeaveLoop, StopWs, CheckContext,
         CancelService, JoinWs, StopHttp, JoinHttp, CloseQueue, StopWriter,
         JoinWriter, Destroy
  <2> QED
    BY <2>1 DEF JoinedComeNearer
<1> QED
  BY <1>1, <1>2, <1>3, <1>4, <1>5 DEF Next, Main

\* A joined network thread has at most MaxBatch + 2 steps left, whatever the
\* other threads and the endpoint do meanwhile.  A joined writer has at most
\* 4, beside the rounds of wait_for_connection, which nothing bounds.
THEOREM JoinsCountDown ==
    Spec => /\ [][JoinedComeNearer]_vars
            /\ [](/\ WsLeft \in 0 .. MaxBatch + 2
                  /\ HttpLeft \in 0 .. MaxBatch + 2
                  /\ WriterLeft \in 0 .. 4)
<1>1. SafeLifecycle /\ JoinedAreTold /\ [Next]_vars => [JoinedComeNearer]_vars
  BY JoinStep
<1> QED
  BY <1>1, LeftIsBounded, LifecycleSafe, JoinedHaveBeenTold, PTL DEF Spec

\* A writer in pthread_cond_wait: nothing to pop and nobody closed the queue.
WriterSleeps == wrPc = "pop" /\ items = <<>> /\ ~closed

\* Nobody waits in a circle.  A producer in front of a full queue has a
\* writer that is alive, has not been told to stop and does not itself wait
\* for an event; a writer that does is not one that main waits for.
NoCircularWait ==
    /\ (wsPc = "push" \/ httpPc = "push") /\ Len(items) = Capacity =>
          WrActive /\ wrRunning /\ ~WriterSleeps
    /\ WriterSleeps => pc # "join_writer"

\* Of main, the two producers and the writer, whichever wait for another one,
\* the last in the row can go on, or waits for the endpoint, for PostgreSQL
\* or for a signal: the queue's two waits and the three joins make no cycle.
THEOREM WaitsMakeNoCircle == Spec => []NoCircularWait
<1>1. SafeLifecycle => NoCircularWait
  <2> SUFFICES ASSUME SafeLifecycle PROVE NoCircularWait
    OBVIOUS
  <2>1. ASSUME Len(items) = Capacity
        PROVE  items # <<>>
    BY <2>1, LifecycleAssumption
  <2>2. pc = "join_writer" => closed
    BY DEF SafeLifecycle, QueuePhase
  <2>3. ASSUME WsActive \/ HttpActive
        PROVE  WrActive /\ wrRunning
    BY <2>3 DEF SafeLifecycle, WsPhase, HttpPhase, WriterPhase, QueuePhase,
       WsSpan, HttpSpan, WrActive
  <2> QED
    BY <2>1, <2>2, <2>3
    DEF NoCircularWait, WriterSleeps, WsActive, HttpActive
<1> QED
  BY <1>1, LifecycleSafe, PTL
=============================================================================
