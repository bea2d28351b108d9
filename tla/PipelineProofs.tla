--------------------------- MODULE PipelineProofs ---------------------------
(***************************************************************************)
(* Proofs about Pipeline for any log of the chain, any queue capacity, any *)
(* length of an answer and any number of failures and kills: the poller    *)
(* skips nothing, nothing that the queue has accepted vanishes, and the    *)
(* process is the store of true rows that EventStore describes.            *)
(***************************************************************************)
EXTENDS Pipeline, SequenceTheorems, TLAPS

(* The log of the chain.                                                   *)

\* What the assumption on the logs says of an entry and of two.
LEMMA LogTypes ==
    ASSUME log \in Logs
    PROVE  /\ log \in Seq(Entry) /\ Len(log) \in Nat
           /\ DOMAIN log = 1 .. Len(log)
           /\ \A i \in 1 .. Len(log) :
                 /\ log[i] \in Entry
                 /\ log[i].slot \in Nat /\ log[i].slot > 0
                 /\ log[i].slot # NoSlot
                 /\ log[i].signature \in STRING
                 /\ DOMAIN log[i].logs \subseteq Nat
           /\ \A i, j \in 1 .. Len(log) :
                 i <= j => log[i].slot <= log[j].slot
<1>1. log \in Seq(Entry) /\ Len(log) \in Nat /\ DOMAIN log = 1 .. Len(log)
  BY PipelineAssumption
<1>2. ASSUME NEW i \in 1 .. Len(log)
      PROVE  /\ log[i] \in Entry
             /\ log[i].slot \in Nat /\ log[i].slot > 0
             /\ log[i].slot # NoSlot
             /\ log[i].signature \in STRING
             /\ DOMAIN log[i].logs \subseteq Nat
  <2>1. log[i] \in Entry
    BY <1>1, ElementOfSeq
  <2>2. log[i].slot \in Nat \ {0} /\ log[i].signature \in STRING
    BY <2>1 DEF Entry
  <2>3. log[i].logs \in Seq({"data", "refused", "other"})
    BY <2>1 DEF Entry
  <2>4. DOMAIN log[i].logs = 1 .. Len(log[i].logs)
    BY <2>3
  <2> QED
    BY <2>1, <2>2, <2>4 DEF NoSlot
<1>3. \A i, j \in 1 .. Len(log) : i <= j => log[i].slot <= log[j].slot
  BY <1>1, PipelineAssumption
<1> QED
  BY <1>1, <1>2, <1>3

\* A data line, as a pair of numbers.
LEMMA DataLine ==
    ASSUME log \in Logs, NEW n \in 0 .. Len(log), NEW at
    PROVE  at \in DataLines(n) <=>
              /\ at \in Nat \X Nat
              /\ at[1] \in 1 .. n
              /\ at[2] \in DOMAIN log[at[1]].logs
              /\ log[at[1]].logs[at[2]] = "data"
<1> DEFINE L(i) == {l \in DOMAIN log[i].logs : log[i].logs[l] = "data"}
<1>1. at \in DataLines(n) <=> \E i \in 1 .. n : at \in {i} \X L(i)
  BY DEF DataLines
<1>2. ASSUME NEW i \in 1 .. n, at \in {i} \X L(i)
      PROVE  /\ at \in Nat \X Nat /\ at[1] = i /\ at[2] \in L(i)
  <2>1. L(i) \subseteq Nat
    BY LogTypes
  <2> QED
    BY <1>2, <2>1
<1>3. ASSUME at \in Nat \X Nat, at[1] \in 1 .. n, at[2] \in L(at[1])
      PROVE  at \in {at[1]} \X L(at[1])
  BY <1>3
<1> QED
  BY <1>1, <1>2, <1>3
-----------------------------------------------------------------------------
(* What the messages of the RPC node hold.                                 *)

\* The window of an answer lies among the confirmed entries.
LEMMA WindowConfirmed ==
    \A i \in Http!Window(lastSlot) : i \in 1 .. confirmed
BY DEF Http!Window, Http!Visible

\* The events of an answer tell the truth about the entries of its window.
LEMMA AnswerTells ==
    ASSUME log \in Logs, confirmed \in 0 .. Len(log), NEW shape,
           NEW e \in Http!EventsOf(Http!Answer(shape))
    PROVE  /\ e \in Event /\ TellsTruth(e)
           /\ e.data[1] \in Http!Window(lastSlot)
           /\ shape \in {"array", "object", "notification"}
<1> DEFINE msg == Http!Answer(shape)
           W == Http!Window(lastSlot)
<1>1. /\ msg.shape = shape /\ DOMAIN msg.values = W
      /\ \A i \in W : msg.values[i] = log[i]
  BY DEF Http!Answer
<1>2. PICK at \in Http!Lines(msg) :
         /\ msg.values[at[1]].logs[at[2]] = "data"
         /\ e = Http!EventAt(msg, at[1], at[2])
  BY DEF Http!EventsOf
<1>3. /\ shape \in {"array", "object", "notification"}
      /\ \E i \in W : at \in {i} \X DOMAIN log[i].logs
  BY <1>1, <1>2 DEF Http!Lines
<1>4. PICK i \in W : at \in {i} \X DOMAIN log[i].logs
  BY <1>3
<1>5. i \in 1 .. confirmed /\ i \in 1 .. Len(log)
  BY <1>4, WindowConfirmed
<1>6. at[1] = i /\ at[2] \in DOMAIN log[i].logs /\ at = <<i, at[2]>>
  BY <1>4
<1>7. at \in DataLines(confirmed) /\ at \in Nat \X Nat
  <2>1. at[2] \in Nat /\ log[i].logs[at[2]] = "data"
    BY <1>1, <1>2, <1>5, <1>6, LogTypes
  <2> QED
    BY <2>1, <1>5, <1>6, DataLine
<1>8. e = [slot |-> log[i].slot, signature |-> log[i].signature,
           kind |-> Http!KindOf(log[i].programId), data |-> at]
  BY <1>1, <1>2, <1>5, <1>6, LogTypes DEF Http!EventAt, Http!SlotOf,
     Http!NoSlot, NoSlot
<1>9. /\ Http!KindOf(log[i].programId) = KindOf(log[i].programId)
      /\ KindOf(log[i].programId) \in Kinds
  BY DEF Http!KindOf, KindOf, Http!Null, Null, Kinds
<1> QED
  BY <1>3, <1>5, <1>6, <1>7, <1>8, <1>9, LogTypes DEF Event, TellsTruth

\* An answer that can be read holds every data line of its window.
LEMMA AnswerComplete ==
    ASSUME log \in Logs, confirmed \in 0 .. Len(log),
           NEW shape \in {"array", "object", "notification"},
           NEW at \in DataLines(confirmed), at[1] \in Http!Window(lastSlot)
    PROVE  \E e \in Http!EventsOf(Http!Answer(shape)) : e.data = at
<1> DEFINE msg == Http!Answer(shape)
           W == Http!Window(lastSlot)
<1>1. /\ msg.shape = shape /\ DOMAIN msg.values = W
      /\ \A i \in W : msg.values[i] = log[i]
  BY DEF Http!Answer
<1>2. /\ at \in Nat \X Nat /\ at[2] \in DOMAIN log[at[1]].logs
      /\ log[at[1]].logs[at[2]] = "data"
  BY DataLine
<1>3. at \in {at[1]} \X DOMAIN msg.values[at[1]].logs
  BY <1>1, <1>2
<1>4. at \in Http!Lines(msg)
  BY <1>1, <1>3 DEF Http!Lines
<1>5. Http!EventAt(msg, at[1], at[2]) \in Http!EventsOf(msg)
  BY <1>1, <1>2, <1>4 DEF Http!EventsOf
<1>6. Http!EventAt(msg, at[1], at[2]).data = at
  BY <1>2 DEF Http!EventAt
<1> QED
  BY <1>5, <1>6

\* The entries of an answer are the first ones of the visible: with an entry
\* it holds all earlier ones from the start slot on.
LEMMA WindowIsPrefix ==
    ASSUME log \in Logs, confirmed \in 0 .. Len(log), lastSlot \in Nat,
           NEW i \in Http!Window(lastSlot), NEW j \in 1 .. confirmed,
           j <= i, lastSlot <= log[j].slot
    PROVE  j \in Http!Window(lastSlot)
<1>1. i \in 1 .. confirmed /\ i - Limit \notin Http!Visible(lastSlot)
  BY WindowConfirmed DEF Http!Window
<1>2. j \in Http!Visible(lastSlot)
  BY LogTypes DEF Http!Visible
<1>3. ASSUME j - Limit \in Http!Visible(lastSlot)
      PROVE  FALSE
  <2>1. /\ j - Limit \in 1 .. confirmed
        /\ log[j - Limit].slot >= lastSlot
    BY <1>3 DEF Http!Visible
  <2>2. i - Limit \in 1 .. confirmed /\ j - Limit <= i - Limit
    BY <1>1, <2>1, PipelineAssumption
  <2>3. log[j - Limit].slot <= log[i - Limit].slot
    BY <2>1, <2>2, LogTypes
  <2>4. i - Limit \in Http!Visible(lastSlot)
    BY <2>1, <2>2, <2>3, LogTypes DEF Http!Visible
  <2> QED
    BY <1>1, <2>4
<1> QED
  BY <1>2, <1>3 DEF Http!Window

\* The events of a notification tell the truth but for the program, which it
\* does not name.
LEMMA NotificationTells ==
    ASSUME log \in Logs, confirmed \in 0 .. Len(log),
           NEW i \in 1 .. confirmed,
           NEW e \in Ws!EventsOf(Ws!Notification(i))
    PROVE  e \in Event /\ TellsTruth(e)
<1> DEFINE msg == Ws!Notification(i)
<1>1. /\ msg.shape = "notification" /\ DOMAIN msg.values = {i}
      /\ msg.context = log[i].slot
      /\ msg.values[i] =
            [log[i] EXCEPT !.slot = Ws!NoSlot, !.programId = Ws!Null]
  BY DEF Ws!Notification
<1>2. log[i] \in Entry
  BY LogTypes
<1>3. /\ msg.values[i].slot = Ws!NoSlot
      /\ msg.values[i].programId = Ws!Null
      /\ msg.values[i].signature = log[i].signature
      /\ msg.values[i].logs = log[i].logs
  BY <1>1, <1>2 DEF Entry
<1>4. PICK at \in Ws!Lines(msg) :
         /\ msg.values[at[1]].logs[at[2]] = "data"
         /\ e = Ws!EventAt(msg, at[1], at[2])
  BY DEF Ws!EventsOf
<1>5. at \in {i} \X DOMAIN log[i].logs
  <2>1. PICK k \in DOMAIN msg.values :
           at \in {k} \X DOMAIN msg.values[k].logs
    BY <1>1, <1>4 DEF Ws!Lines
  <2>2. k = i
    BY <1>1, <2>1
  <2> HIDE DEF msg
  <2> QED
    BY <1>3, <2>1, <2>2
<1>6. at[1] = i /\ at[2] \in DOMAIN log[i].logs /\ at = <<i, at[2]>>
  BY <1>5
<1>7. at \in DataLines(confirmed) /\ at \in Nat \X Nat
  <2>1. at[2] \in Nat /\ log[i].logs[at[2]] = "data"
    BY <1>3, <1>4, <1>6, LogTypes
  <2> QED
    BY <2>1, <1>6, DataLine
<1>8. e = [slot |-> log[i].slot, signature |-> log[i].signature,
           kind |-> Ws!KindOf(Ws!Null), data |-> at]
  BY <1>1, <1>3, <1>4, <1>6 DEF Ws!EventAt, Ws!SlotOf, Ws!Fallback
<1>9. Ws!KindOf(Ws!Null) = KindOf(Null) /\ KindOf(Null) \in Kinds
  BY DEF Ws!KindOf, KindOf, Ws!Null, Null, Kinds
<1> QED
  BY <1>6, <1>7, <1>8, <1>9, LogTypes DEF Event, TellsTruth
-----------------------------------------------------------------------------
(* The operations of the queue, as its three users call them.              *)

\* Both network threads use the one queue.
LEMMA OneQueue ==
    ASSUME NEW p, NEW e
    PROVE  /\ Http!PushAccepted(p, e) <=> PushAccepted(p, e)
           /\ Ws!PushAccepted(p, e) <=> PushAccepted(p, e)
           /\ Http!PushRefused(p) <=> PushRefused(p)
           /\ Ws!PushRefused(p) <=> PushRefused(p)
BY DEF Http!PushAccepted, Ws!PushAccepted, PushAccepted,
       Http!PushRefused, Ws!PushRefused, PushRefused,
       Http!Queue!Accept, Ws!Queue!Accept, Queue!Accept,
       Http!Queue!Refuse, Ws!Queue!Refuse, Queue!Refuse

\* An accepted push leaves the event at the end of the queue and in the
\* history of its thread.
LEMMA AcceptedPush ==
    ASSUME QueueType, NEW p \in Producers, NEW e \in Event,
           PushAccepted(p, e)
    PROVE  /\ QueueType' /\ ~closed
           /\ UNCHANGED <<closed, popRet>>
           /\ items' = Append(items, e) /\ items' \in Seq(Event)
           /\ DOMAIN items \subseteq DOMAIN items'
           /\ \A k \in DOMAIN items : items'[k] = items[k]
           /\ \A k \in DOMAIN items' \ DOMAIN items : items'[k] = e
           /\ \E k \in DOMAIN items' : items'[k] = e
           /\ accepted'[p] = accepted[p] \cup {e}
           /\ \A q \in Producers \ {p} : accepted'[q] = accepted[q]
<1> USE DEF QueueType, PushAccepted, Queue!Accept
<1>1. /\ items \in Seq(Event) /\ items' = Append(items, e) /\ ~closed
      /\ UNCHANGED <<closed, popRet>>
  OBVIOUS
<1>2. /\ items' \in Seq(Event) /\ Len(items') = Len(items) + 1
      /\ Len(items') <= Capacity
      /\ items'[Len(items) + 1] = e
      /\ \A k \in 1 .. Len(items) : items'[k] = items[k]
  BY <1>1, PipelineAssumption
<1>3. /\ DOMAIN items = 1 .. Len(items) /\ Len(items) \in Nat
      /\ DOMAIN items' = 1 .. Len(items) + 1
  BY <1>1, <1>2
<1>4. /\ accepted' \in [Producers -> SUBSET Event]
      /\ accepted'[p] = accepted[p] \cup {e}
      /\ \A q \in Producers \ {p} : accepted'[q] = accepted[q]
  OBVIOUS
<1>5. pushRet' \in [Producers -> {0, -1}]
  OBVIOUS
<1>6. QueueType'
  BY <1>1, <1>2, <1>4, <1>5
<1> QED
  BY <1>1, <1>2, <1>3, <1>4, <1>6

\* A refused push leaves everything but its result.
LEMMA RefusedPush ==
    ASSUME QueueType, NEW p \in Producers, PushRefused(p)
    PROVE  /\ QueueType' /\ closed
           /\ UNCHANGED <<items, closed, popRet, accepted>>
BY DEF QueueType, PushRefused, Queue!Refuse
\* A pop takes the oldest event out of the queue.
LEMMA DeliveredPop ==
    ASSUME QueueType, Writer!Queue!Deliver("writer"), UNCHANGED accepted
    PROVE  /\ QueueType' /\ UNCHANGED <<closed, accepted>>
           /\ Len(items) \in Nat \ {0} /\ DOMAIN items = 1 .. Len(items)
           /\ Writer!hand' = items[1] /\ Writer!hand' \in Event
           /\ DOMAIN items' = 1 .. Len(items) - 1
           /\ \A k \in DOMAIN items' : items'[k] = items[k + 1]
<1> USE DEF QueueType, Writer!Queue!Deliver, Writer!hand
<1>1. /\ items \in Seq(Event) /\ items # <<>> /\ items' = Tail(items)
      /\ popRet' = [popRet EXCEPT !["writer"] = Head(items)]
      /\ UNCHANGED <<closed, pushRet, accepted>>
  OBVIOUS
<1>2. Len(items) \in Nat \ {0} /\ DOMAIN items = 1 .. Len(items)
  BY <1>1, EmptySeq
<1>3. Head(items) = items[1] /\ items[1] \in Event
  BY <1>1, <1>2, ElementOfSeq
<1>4. /\ items' \in Seq(Event) /\ Len(items') = Len(items) - 1
      /\ DOMAIN items' = 1 .. Len(items) - 1
      /\ \A k \in DOMAIN items' : items'[k] = items[k + 1]
  BY <1>1, <1>2
<1>5. /\ popRet' \in [{"writer"} -> Event \cup {NoEvent}]
      /\ Writer!hand' = items[1]
  BY <1>1, <1>3
<1>6. QueueType'
  BY <1>1, <1>2, <1>4, <1>5, PipelineAssumption
<1> QED
  BY <1>1, <1>2, <1>3, <1>4, <1>5, <1>6

\* The writer has no event any more.
LEMMA EmptyHand ==
    ASSUME QueueType, popRet' = [popRet EXCEPT !["writer"] = NoEvent]
    PROVE  /\ popRet' \in [{"writer"} -> Event \cup {NoEvent}]
           /\ Writer!hand' = NoEvent
BY DEF QueueType, Writer!hand
-----------------------------------------------------------------------------
(* Types.                                                                  *)

\* A kind without a table is "unknown" or one whose table is not configured.
LEMMA Tables ==
    ASSUME NEW kind \in Kinds
    PROVE  /\ kind = "pumpfun" => Writer!TableOf(kind) = PumpfunTable
           /\ kind = "raydium" => Writer!TableOf(kind) = RaydiumTable
           /\ kind = "unknown" => Writer!TableOf(kind) = ""
<1>1. CASE kind = "pumpfun"
  BY <1>1 DEF Writer!TableOf
<1>2. CASE kind = "raydium"
  BY <1>2 DEF Writer!TableOf
<1>3. CASE kind = "unknown"
  BY <1>3 DEF Writer!TableOf
<1> QED
  BY <1>1, <1>2, <1>3 DEF Kinds

\* What an INSERT adds is a row.
LEMMA RowTypes ==
    ASSUME NEW e \in Event, Writer!TableOf(e.kind) # ""
    PROVE  Writer!RowOf(e) \in Writer!Row
<1>1. /\ e.kind \in Kinds /\ e.slot \in Nat /\ e.signature \in STRING
      /\ e.data \in Nat \X Nat
  BY DEF Event
<1>2. Writer!TableOf(e.kind) \in {PumpfunTable, RaydiumTable}
  BY <1>1, Tables DEF Kinds
<1> QED
  BY <1>1, <1>2 DEF Writer!RowOf, Writer!Row

\* The client starts on an empty chain with empty tables.
LEMMA InitTypes == Init => TypeOK
<1> SUFFICES ASSUME Init PROVE TypeOK
  OBVIOUS
<1> USE PipelineAssumption DEF Init
<1>1. QueueType
  <2> USE DEF QueueInit, Queue!Init
  <2>1. items \in Seq(Event) /\ Len(items) <= Capacity
    OBVIOUS
  <2>2. /\ pushRet \in [Producers -> {0, -1}]
        /\ popRet \in [{"writer"} -> Event \cup {NoEvent}]
        /\ accepted \in [Producers -> SUBSET Event]
    OBVIOUS
  <2> QED
    BY <2>1, <2>2 DEF QueueType
<1>2. log \in Logs /\ confirmed \in 0 .. Len(log)
  BY LogTypes
<1>3. Http!HttpType
  BY DEF Http!HttpType, Http!HttpInit
<1>4. Ws!WsType /\ wsSeen <= confirmed
  BY DEF Ws!WsType, Ws!WsInit
<1>5. Writer!WriterType
  BY DEF Writer!WriterType, Writer!WriterInit, Writer!hand, QueueInit,
         Queue!Init
<1> QED
  BY <1>1, <1>2, <1>3, <1>4, <1>5 DEF TypeOK

\* A round of the poller keeps the types.
LEMMA PollerTypes == TypeOK /\ PollerStep => TypeOK'
<1> SUFFICES ASSUME TypeOK, PollerStep PROVE TypeOK'
  OBVIOUS
<1>1. UNCHANGED <<world, mainPc, wsVars, wrVars>>
  BY DEF PollerStep
<1>2. QueueType' /\ UNCHANGED popRet
  <2>1. CASE Poll \/ Http!FinishPoll
    BY <2>1 DEF Poll, Http!Poll, Http!FinishPoll, Http!queueVars, TypeOK,
       QueueType
  <2>2. CASE Http!HttpPush
    <3>1. PICK e \in httpTodo : PushAccepted("http", e) \/ PushRefused("http")
      BY <2>2, OneQueue DEF Http!HttpPush
    <3>2. e \in Event /\ QueueType /\ "http" \in Producers
      BY DEF TypeOK, Http!HttpType, Http!Event, Event, Http!Kinds, Kinds,
         Producers
    <3> QED
      BY <3>1, <3>2, AcceptedPush, RefusedPush
  <2> QED
    BY <2>1, <2>2 DEF PollerStep
<1>3. Http!HttpType'
  <2> USE DEF TypeOK, Http!HttpType
  <2>1. ASSUME NEW shape, Http!Poll(shape)
        PROVE  Http!HttpType'
    <3>1. httpTodo' \subseteq Event
      BY <2>1, AnswerTells DEF Http!Poll
    <3> QED
      BY <2>1, <3>1 DEF Http!Poll, Http!Event, Event, Http!Kinds, Kinds
  <2>2. ASSUME Http!HttpPush
        PROVE  Http!HttpType'
    <3>1. PICK e \in httpTodo :
             /\ httpTodo' = httpTodo \ {e}
             /\ \/ /\ processed' = TRUE
                   /\ highest' = IF e.slot > highest THEN e.slot ELSE highest
                \/ UNCHANGED <<processed, highest>>
      BY <2>2 DEF Http!HttpPush
    <3>2. e.slot \in Nat
      BY DEF Http!Event
    <3> QED
      BY <2>2, <3>1, <3>2 DEF Http!HttpPush
  <2>3. ASSUME Http!FinishPoll
        PROVE  Http!HttpType'
    BY <2>3 DEF Http!FinishPoll, Http!NextStart
  <2> QED
    BY <2>1, <2>2, <2>3 DEF PollerStep, Poll
<1>4. UNCHANGED <<log, confirmed, kills, mainPc, wsRunning, wsSeen, wsTodo,
                  wrPc, wrRunning, rows, lost, failures>>
  BY <1>1 DEF world, wsVars, wrVars
<1> QED
  BY <1>2, <1>3, <1>4 DEF TypeOK, Ws!WsType, Writer!WriterType, Writer!hand

\* So does the WebSocket thread.
LEMMA ReceiverTypes == TypeOK /\ ReceiverStep => TypeOK'
<1> SUFFICES ASSUME TypeOK, ReceiverStep PROVE TypeOK'
  OBVIOUS
<1>1. UNCHANGED <<log, confirmed, kills, mainPc, httpRunning, polling,
                  httpTodo, processed, highest, lastSlot,
                  wrPc, wrRunning, rows, lost, failures>>
  BY DEF ReceiverStep, world, httpVars, wrVars
<1>2. /\ QueueType' /\ UNCHANGED popRet
      /\ Ws!WsType' /\ wsSeen' <= confirmed
  <2> USE DEF TypeOK, Ws!WsType
  <2>1. ASSUME Ws!WsPush
        PROVE  /\ QueueType' /\ UNCHANGED popRet
               /\ Ws!WsType' /\ wsSeen' <= confirmed
    <3>1. PICK e \in wsTodo :
             /\ wsTodo' = wsTodo \ {e}
             /\ PushAccepted("ws", e) \/ PushRefused("ws")
      BY <2>1, OneQueue DEF Ws!WsPush
    <3>2. e \in Event /\ QueueType /\ "ws" \in Producers
      BY DEF Ws!Event, Event, Ws!Kinds, Kinds, Producers
    <3>3. QueueType' /\ UNCHANGED popRet
      BY <3>1, <3>2, AcceptedPush, RefusedPush
    <3> QED
      BY <2>1, <3>1, <3>3 DEF Ws!WsPush
  <2>2. ASSUME NEW i \in 1 .. confirmed, Ws!Receive(i)
        PROVE  /\ QueueType' /\ UNCHANGED popRet
               /\ Ws!WsType' /\ wsSeen' <= confirmed
    <3>1. wsTodo' \subseteq Event
      BY <2>2, NotificationTells DEF Ws!Receive
    <3>2. wsTodo' \subseteq Ws!Event
      BY <3>1 DEF Ws!Event, Event, Ws!Kinds, Kinds
    <3> QED
      BY <2>2, <3>2 DEF Ws!Receive, Ws!queueVars, QueueType
  <2> QED
    BY <2>1, <2>2 DEF ReceiverStep
<1> QED
  BY <1>1, <1>2 DEF TypeOK, Http!HttpType, Writer!WriterType, Writer!hand

\* One event through the writer's loop keeps the types.
LEMMA WriterTypes == TypeOK /\ WriterStep => TypeOK'
<1> SUFFICES ASSUME TypeOK, WriterStep PROVE TypeOK'
  OBVIOUS
<1>1. UNCHANGED <<log, confirmed, kills, mainPc, httpRunning, polling,
                  httpTodo, processed, highest, lastSlot, wsRunning, wsSeen,
                  wsTodo>>
  BY DEF WriterStep, world, httpVars, wsVars
<1>2. QueueType /\ Writer!WriterType
  BY DEF TypeOK
<1> SUFFICES QueueType' /\ Writer!WriterType'
  BY <1>1 DEF TypeOK, Http!HttpType, Ws!WsType
<1>3. CASE Writer!Connect \/ Writer!WriterLoop
  BY <1>2, <1>3 DEF Writer!Connect, Writer!WriterLoop, Writer!WriterType,
     Writer!queueVars, Writer!hand, QueueType
<1>4. CASE Writer!WriterPop
  <2>1. ASSUME Writer!Queue!Deliver("writer"), wrPc' = "insert"
        PROVE  QueueType' /\ Writer!WriterType'
    <3>1. QueueType' /\ Writer!hand' \in Event
      BY <1>2, <1>4, <2>1, DeliveredPop DEF Writer!WriterPop
    <3>2. Writer!hand' # NoEvent
      BY <3>1, PipelineAssumption
    <3> QED
      BY <1>2, <1>4, <2>1, <3>1, <3>2 DEF Writer!WriterPop,
         Writer!WriterType
  <2>2. ASSUME Writer!Queue!Exhausted("writer"), wrPc' = "ended"
        PROVE  QueueType' /\ Writer!WriterType'
    <3>1. /\ popRet' \in [{"writer"} -> Event \cup {NoEvent}]
          /\ Writer!hand' = NoEvent
      BY <1>2, <2>2, EmptyHand DEF Writer!Queue!Exhausted
    <3>2. QueueType'
      BY <1>2, <1>4, <2>2, <3>1 DEF Writer!Queue!Exhausted, Writer!WriterPop,
         QueueType
    <3> QED
      BY <1>2, <1>4, <2>2, <3>1, <3>2 DEF Writer!WriterPop,
         Writer!WriterType
  <2> QED
    BY <1>4, <2>1, <2>2 DEF Writer!WriterPop
<1>5. ASSUME Writer!DropEvent
      PROVE  QueueType' /\ Writer!hand' = NoEvent
  BY <1>2, <1>5, EmptyHand DEF Writer!DropEvent, QueueType
<1>6. ASSUME wrPc = "insert"
      PROVE  /\ Writer!hand \in Event
             /\ Writer!TableOf(Writer!hand.kind) # "" =>
                   Writer!Inserted(Writer!hand) \subseteq Writer!Row
  <2>1. Writer!hand \in Event
    BY <1>2, <1>6 DEF QueueType, Writer!WriterType, Writer!hand
  <2> QED
    BY <1>2, <2>1, RowTypes DEF Writer!WriterType, Writer!Inserted
<1>7. CASE Writer!InsertDone
  <2>1. rows' \subseteq Writer!Row
    BY <1>2, <1>6, <1>7 DEF Writer!InsertDone, Writer!WriterType
  <2> QED
    BY <1>2, <1>5, <1>7, <2>1 DEF Writer!InsertDone, Writer!WriterType
<1>8. CASE Writer!InsertFails
  <2>1. rows' \subseteq Writer!Row
    BY <1>2, <1>6, <1>8 DEF Writer!InsertFails, Writer!WriterType
  <2>2. lost' \subseteq Event
    BY <1>2, <1>6, <1>8 DEF Writer!InsertFails, Writer!WriterType,
       Writer!Event, Event, Writer!Kinds, Kinds
  <2>3. failures' \in 0 .. MaxFailures
    <3>1. failures \in 0 .. MaxFailures
      BY <1>2 DEF Writer!WriterType
    <3>2. failures < MaxFailures /\ failures' = failures + 1
      BY <1>8 DEF Writer!InsertFails
    <3> QED
      BY <3>1, <3>2, PipelineAssumption
  <2> QED
    BY <1>2, <1>5, <1>8, <2>1, <2>2, <2>3 DEF Writer!InsertFails,
       Writer!WriterType, Writer!Event, Event, Writer!Kinds, Kinds,
       Writer!AfterFailure
<1> QED
  BY <1>3, <1>4, <1>7, <1>8 DEF WriterStep

\* So do main's steps of the shutdown.
LEMMA ShutdownTypes == TypeOK /\ Shutdown => TypeOK'
<1> SUFFICES ASSUME TypeOK, Shutdown PROVE TypeOK'
  OBVIOUS
<1> USE DEF TypeOK
<1>1. CASE StopWs
  BY <1>1 DEF StopWs, Ws!StopWs, world, queueVars, httpVars, wrVars,
     QueueType, Http!HttpType, Ws!WsType, Writer!WriterType, Writer!hand
<1>2. CASE StopPoller
  BY <1>2 DEF StopPoller, Http!StopPoller, world, queueVars, wsVars, wrVars,
     QueueType, Http!HttpType, Ws!WsType, Writer!WriterType, Writer!hand
<1>3. CASE CloseQueue
  BY <1>3 DEF CloseQueue, Queue!Close, world, httpVars, wsVars, wrVars,
     QueueType, Http!HttpType, Ws!WsType, Writer!WriterType, Writer!hand
<1>4. CASE StopWriter
  BY <1>4 DEF StopWriter, Writer!StopWriter, world, queueVars, httpVars,
     wsVars, QueueType, Http!HttpType, Ws!WsType, Writer!WriterType,
     Writer!hand
<1>5. CASE UNCHANGED vars
  BY <1>5 DEF vars, world, queueVars, httpVars, wsVars, wrVars, QueueType,
     Http!HttpType, Ws!WsType, Writer!WriterType, Writer!hand
<1> QED
  BY <1>1, <1>2, <1>3, <1>4, <1>5 DEF Shutdown

\* So do the chain, a new process, and nothing at all.
LEMMA OtherTypes ==
    TypeOK /\ (Confirm \/ NewProcess \/ UNCHANGED vars) => TypeOK'
<1> SUFFICES ASSUME TypeOK, Confirm \/ NewProcess \/ UNCHANGED vars
             PROVE  TypeOK'
  OBVIOUS
<1> USE DEF TypeOK
<1>1. CASE Confirm
  <2>1. confirmed' \in 0 .. Len(log) /\ wsSeen <= confirmed'
    BY <1>1, LogTypes DEF Confirm, Ws!WsType
  <2> QED
    BY <1>1, <2>1 DEF Confirm, queueVars, httpVars, wsVars, wrVars,
       QueueType, Http!HttpType, Ws!WsType, Writer!WriterType, Writer!hand
<1>2. CASE NewProcess
  <2>1. /\ popRet' \in [{"writer"} -> Event \cup {NoEvent}]
        /\ Writer!hand' = NoEvent
    BY <1>2, EmptyHand DEF NewProcess, Writer!WriterRestarted
  <2>2. QueueType'
    <3>1. items' \in Seq(Event) /\ Len(items') <= Capacity
      BY <1>2, PipelineAssumption DEF NewProcess
    <3>2. /\ pushRet' \in [Producers -> {0, -1}]
          /\ accepted' \in [Producers -> SUBSET Event]
      BY <1>2 DEF NewProcess
    <3>3. closed' \in BOOLEAN
      BY <1>2 DEF NewProcess
    <3> QED
      BY <2>1, <3>1, <3>2, <3>3 DEF QueueType
  <2>3. Http!HttpType' /\ Ws!WsType' /\ wsSeen' <= confirmed'
    <3>1. Http!HttpType'
      BY <1>2 DEF NewProcess, Http!HttpRestarted, Http!HttpType
    <3>2. confirmed \in Nat /\ confirmed' = confirmed
      BY <1>2, LogTypes DEF NewProcess
    <3>3. wsRunning' = TRUE /\ wsSeen' = confirmed /\ wsTodo' = {}
      BY <1>2 DEF NewProcess, Ws!WsRestarted
    <3> QED
      BY <3>1, <3>2, <3>3 DEF Ws!WsType
  <2>4. Writer!WriterType'
    BY <1>2, <2>1 DEF NewProcess, Writer!WriterRestarted, Writer!WriterType
  <2>5. /\ UNCHANGED <<log, confirmed>> /\ mainPc' = "loop"
        /\ kills' \in 0 .. MaxKills
    BY <1>2, PipelineAssumption DEF NewProcess
  <2> QED
    BY <2>2, <2>3, <2>4, <2>5
<1>3. CASE UNCHANGED vars
  BY <1>3 DEF vars, world, queueVars, httpVars, wsVars, wrVars, QueueType,
     Http!HttpType, Ws!WsType, Writer!WriterType, Writer!hand
<1> QED
  BY <1>1, <1>2, <1>3

\* The types are kept by every step.
LEMMA NextTypes == TypeOK /\ [Next]_vars => TypeOK'
BY PollerTypes, ReceiverTypes, WriterTypes, ShutdownTypes, OtherTypes
   DEF Next
-----------------------------------------------------------------------------
(* Nothing that the queue has accepted vanishes.                           *)

\* What is settled stays settled as long as no row is removed.
LEMMA SettledStays ==
    ASSUME NEW e, Settled(e), rows \subseteq rows', lost \subseteq lost'
    PROVE  Settled(e)'
BY DEF Settled

\* An INSERT settles its event, whether it adds a row or finds one.
LEMMA InsertedSettles ==
    ASSUME NEW e, rows' = Writer!Inserted(e)
    PROVE  Settled(e)' /\ rows \subseteq rows'
<1>1. CASE Writer!Conflict(e)
  BY <1>1 DEF Writer!Inserted, Writer!Conflict, Settled
<1>2. CASE ~Writer!Conflict(e)
  <2>1. rows' = rows \cup {Writer!RowOf(e)}
    BY <1>2 DEF Writer!Inserted
  <2>2. /\ Writer!RowOf(e).table = Writer!TableOf(e.kind)
        /\ Writer!RowOf(e).signature = e.signature
    BY DEF Writer!RowOf
  <2> QED
    BY <2>1, <2>2 DEF Settled
<1> QED
  BY <1>1, <1>2

\* A push adds its event to the queue.
LEMMA PushKeepsAll ==
    ASSUME TypeOK, NothingVanishes, UNCHANGED wrVars,
           NEW p \in Producers, NEW e \in Event,
           PushAccepted(p, e) \/ PushRefused(p)
    PROVE  NothingVanishes'
<1>1. QueueType /\ rows' = rows /\ lost' = lost
  BY DEF TypeOK, wrVars
<1>2. CASE PushAccepted(p, e)
  <2> SUFFICES ASSUME NEW q \in Producers, NEW f \in accepted'[q]
               PROVE  \/ Settled(f)' \/ f = Writer!hand'
                      \/ \E k \in DOMAIN items' : items'[k] = f
    BY DEF NothingVanishes
  <2>1. f \in accepted[q] \/ f = e
    BY <1>1, <1>2, AcceptedPush
  <2>2. CASE f = e
    BY <1>1, <1>2, <2>2, AcceptedPush
  <2>3. CASE f \in accepted[q]
    <3>1. Settled(f) \/ f = Writer!hand \/ \E k \in DOMAIN items : items[k] = f
      BY <2>3 DEF NothingVanishes
    <3>2. Writer!hand' = Writer!hand
      BY <1>1, <1>2, AcceptedPush DEF Writer!hand
    <3> QED
      BY <1>1, <1>2, <3>1, <3>2, AcceptedPush, SettledStays
  <2> QED
    BY <2>1, <2>2, <2>3
<1>3. CASE PushRefused(p)
  <2>1. UNCHANGED <<items, accepted>> /\ Writer!hand' = Writer!hand
    BY <1>1, <1>3, RefusedPush DEF Writer!hand
  <2> QED
    BY <1>1, <2>1 DEF NothingVanishes, Settled
<1> QED
  BY <1>2, <1>3

\* What the network threads do adds to the queue at most.
LEMMA NetworkKeepsAll ==
    TypeOK /\ NothingVanishes /\ (PollerStep \/ ReceiverStep)
        => NothingVanishes'
<1> SUFFICES ASSUME TypeOK, NothingVanishes, PollerStep \/ ReceiverStep
             PROVE  NothingVanishes'
  OBVIOUS
<1>1. UNCHANGED wrVars
  BY DEF PollerStep, ReceiverStep
<1>2. httpTodo \subseteq Event /\ wsTodo \subseteq Event
  BY DEF TypeOK, Http!HttpType, Ws!WsType, Http!Event, Ws!Event, Event,
     Http!Kinds, Ws!Kinds, Kinds
<1>3. CASE Http!HttpPush \/ Ws!WsPush
  <2>1. \E p \in Producers : \E e \in Event :
           PushAccepted(p, e) \/ PushRefused(p)
    BY <1>2, <1>3, OneQueue DEF Http!HttpPush, Ws!WsPush, Producers
  <2> QED
    BY <1>1, <2>1, PushKeepsAll
<1>4. CASE UNCHANGED queueVars
  BY <1>1, <1>4 DEF NothingVanishes, Settled, queueVars, wrVars, Writer!hand
<1> QED
  BY <1>3, <1>4 DEF PollerStep, ReceiverStep, Poll, Http!Poll,
     Http!FinishPoll, Ws!Receive, Http!queueVars, Ws!queueVars, queueVars

\* The writer takes the oldest event and lets go of it when it is settled.
LEMMA WriterKeepsAll ==
    TypeOK /\ NothingVanishes /\ WriterStep => NothingVanishes'
<1> SUFFICES ASSUME TypeOK, NothingVanishes, WriterStep,
                    NEW p \in Producers, NEW e \in accepted'[p]
             PROVE  \/ Settled(e)' \/ e = Writer!hand'
                    \/ \E k \in DOMAIN items' : items'[k] = e
  BY DEF NothingVanishes
<1>1. QueueType /\ Writer!WriterType
  BY DEF TypeOK
<1>2. accepted' = accepted
  BY DEF WriterStep, Writer!Connect, Writer!WriterLoop, Writer!WriterPop,
     Writer!InsertDone, Writer!InsertFails, Writer!DropEvent,
     Writer!queueVars
<1>3. e \in Event /\ e # NoEvent
  BY <1>1, <1>2, PipelineAssumption DEF QueueType
<1>4. Settled(e) \/ e = Writer!hand \/ \E k \in DOMAIN items : items[k] = e
  BY <1>2 DEF NothingVanishes
<1>5. CASE Writer!Connect \/ Writer!WriterLoop
  BY <1>4, <1>5 DEF Writer!Connect, Writer!WriterLoop, Writer!queueVars,
     Writer!hand, Settled
<1>6. CASE Writer!WriterPop
  <2>1. e # Writer!hand
    BY <1>1, <1>3, <1>6 DEF Writer!WriterPop, Writer!WriterType
  <2>2. UNCHANGED <<rows, lost>>
    BY <1>6 DEF Writer!WriterPop
  <2>3. CASE Settled(e)
    BY <2>2, <2>3, SettledStays
  <2>4. CASE \E k \in DOMAIN items : items[k] = e
    <3>1. PICK k \in DOMAIN items : items[k] = e
      BY <2>4
    <3>2. Writer!Queue!Deliver("writer")
      BY <1>6, <3>1 DEF Writer!WriterPop, Writer!Queue!Exhausted
    <3>3. CASE k = 1
      BY <1>1, <1>2, <3>1, <3>2, <3>3, DeliveredPop
    <3>4. CASE k # 1
      <4>1. k - 1 \in DOMAIN items' /\ items'[k - 1] = items[k]
        BY <1>1, <1>2, <3>1, <3>2, <3>4, DeliveredPop
      <4> QED
        BY <3>1, <4>1
    <3> QED
      BY <3>3, <3>4
  <2> QED
    BY <1>4, <2>1, <2>3, <2>4
<1>7. CASE Writer!InsertDone \/ Writer!InsertFails
  <2>1. items' = items
    BY <1>7 DEF Writer!InsertDone, Writer!InsertFails, Writer!DropEvent
  <2>2. PICK h : h = Writer!hand
    OBVIOUS
  <2>3. Settled(h)' /\ rows \subseteq rows' /\ lost \subseteq lost'
    <3>1. CASE Writer!InsertDone /\ Writer!TableOf(h.kind) = ""
      BY <2>2, <3>1 DEF Writer!InsertDone, Settled
    <3>2. CASE Writer!InsertDone /\ Writer!TableOf(h.kind) # ""
      BY <2>2, <3>2, InsertedSettles DEF Writer!InsertDone
    <3>3. CASE Writer!InsertFails
      BY <2>2, <3>3, InsertedSettles DEF Writer!InsertFails, Settled
    <3> QED
      BY <1>7, <3>1, <3>2, <3>3
  <2> QED
    BY <1>4, <2>1, <2>2, <2>3, SettledStays
<1> QED
  BY <1>5, <1>6, <1>7 DEF WriterStep

\* Every step keeps all that the queue has accepted.
LEMMA NextKeepsAll ==
    TypeOK /\ NothingVanishes /\ [Next]_vars => NothingVanishes'
<1> SUFFICES ASSUME TypeOK, NothingVanishes,
                    Confirm \/ Shutdown \/ NewProcess \/ UNCHANGED vars
             PROVE  NothingVanishes'
  BY NetworkKeepsAll, WriterKeepsAll DEF Next
<1>1. CASE NewProcess
  BY <1>1 DEF NewProcess, NothingVanishes
<1>2. CASE Confirm \/ Shutdown \/ UNCHANGED vars
  <2>1. UNCHANGED <<items, accepted, popRet, rows, lost>>
    BY <1>2 DEF Confirm, Shutdown, StopWs, StopPoller, CloseQueue,
       StopWriter, Ws!StopWs, Http!StopPoller, Queue!Close,
       Writer!StopWriter, vars, queueVars, wrVars
  <2> QED
    BY <2>1 DEF NothingVanishes, Settled, Writer!hand
<1> QED
  BY <1>1, <1>2
-----------------------------------------------------------------------------
(* Nothing but the truth.                                                  *)

\* A true row is that of a data line and a table.
LEMMA TrueRows ==
    \A r : r \in Truths <=>
        \E at \in DataLines(confirmed) : \E t \in TablesFor(at[1]) :
            r = [table |-> t, signature |-> log[at[1]].signature,
                 slot |-> log[at[1]].slot, data |-> at]
<1> DEFINE R(at) ==
        {[table |-> t, signature |-> log[at[1]].signature,
          slot |-> log[at[1]].slot, data |-> at] : t \in TablesFor(at[1])}
<1>1. Truths = UNION {R(at) : at \in DataLines(confirmed)}
  BY DEF Truths
<1>2. \A r : r \in Truths <=> \E at \in DataLines(confirmed) : r \in R(at)
  <2> HIDE DEF R
  <2> QED
    BY <1>1
<1> QED
  BY <1>2

\* The chain only grows, and with it what may be told.
LEMMA TruthGrows ==
    ASSUME log \in Logs, log' = log, confirmed \in 0 .. Len(log),
           confirmed' \in confirmed .. Len(log)
    PROVE  /\ DataLines(confirmed) \subseteq DataLines(confirmed)'
           /\ \A e : TellsTruth(e) => TellsTruth(e)'
           /\ Truths \subseteq Truths'
<1>1. DataLines(confirmed) \subseteq DataLines(confirmed)'
  <2>1. 1 .. confirmed \subseteq 1 .. confirmed'
    BY LogTypes
  <2> QED
    BY <2>1 DEF DataLines
<1>2. \A e : TellsTruth(e) => TellsTruth(e)'
  BY <1>1 DEF TellsTruth
<1>3. Truths \subseteq Truths'
  <2>1. \A i : TablesFor(i)' = TablesFor(i)
    BY DEF TablesFor
  <2>2. (\A r : r \in Truths <=>
            \E at \in DataLines(confirmed) : \E t \in TablesFor(at[1]) :
               r = [table |-> t, signature |-> log[at[1]].signature,
                    slot |-> log[at[1]].slot, data |-> at])'
    BY TrueRows, PTL
  <2> QED
    BY <1>1, <2>1, <2>2, TrueRows
<1> QED
  BY <1>1, <1>2, <1>3

\* The row of an event that tells the truth is a true one: a Raydium event
\* comes from a Raydium program, and all others go to PumpFun's table.
LEMMA RowIsTrue ==
    ASSUME NEW e \in Event, TellsTruth(e), Writer!TableOf(e.kind) # ""
    PROVE  Writer!RowOf(e) \in Truths
<1> DEFINE at == e.data
           i == e.data[1]
<1>1. /\ at \in DataLines(confirmed) /\ e.slot = log[i].slot
      /\ e.signature = log[i].signature
      /\ e.kind \in {KindOf(log[i].programId), KindOf(Null)}
  BY DEF TellsTruth
<1>2. Writer!TableOf(e.kind) \in TablesFor(i)
  <2>1. CASE e.kind = "pumpfun"
    BY <2>1, Tables DEF TablesFor, Kinds
  <2>2. CASE e.kind = "raydium"
    <3>1. KindOf(Null) # "raydium"
      BY DEF KindOf
    <3>2. log[i].programId = RaydiumProgram
      BY <1>1, <2>2, <3>1 DEF KindOf
    <3> QED
      BY <2>2, <3>2, Tables DEF TablesFor, Kinds
  <2>3. CASE e.kind = "unknown"
    BY <2>3, Tables DEF Kinds
  <2> QED
    BY <2>1, <2>2, <2>3 DEF Event, Kinds
<1>3. Writer!RowOf(e) =
         [table |-> Writer!TableOf(e.kind), signature |-> log[at[1]].signature,
          slot |-> log[at[1]].slot, data |-> at]
  BY <1>1 DEF Writer!RowOf
<1> QED
  BY <1>1, <1>2, <1>3, TrueRows

\* The steps during which the chain and the tables stand still.
LEMMA TruthStays ==
    ASSUME UNCHANGED <<log, confirmed>>
    PROVE  Truths' = Truths /\ \A e : TellsTruth(e)' <=> TellsTruth(e)
<1>1. DataLines(confirmed)' = DataLines(confirmed)
  BY DEF DataLines
<1> QED
  BY <1>1 DEF Truths, TablesFor, TellsTruth

\* The network threads put nothing into the queue but what they were told.
LEMMA NetworkTellsTruth ==
    TypeOK /\ OnlyTruths /\ (PollerStep \/ ReceiverStep) => OnlyTruths'
<1> SUFFICES ASSUME TypeOK, OnlyTruths, PollerStep \/ ReceiverStep
             PROVE  OnlyTruths'
  OBVIOUS
<1>1. /\ UNCHANGED <<log, confirmed, rows>>
      /\ log \in Logs /\ confirmed \in 0 .. Len(log) /\ QueueType
  BY DEF PollerStep, ReceiverStep, world, wrVars, TypeOK
<1>2. Truths' = Truths /\ \A e : TellsTruth(e)' <=> TellsTruth(e)
  BY <1>1, TruthStays
<1>3. /\ \A e \in httpTodo \cup wsTodo : e \in Event /\ TellsTruth(e)
      /\ \A k \in DOMAIN items : TellsTruth(items[k])
      /\ Writer!hand # NoEvent => TellsTruth(Writer!hand)
      /\ rows \subseteq Truths
  BY DEF OnlyTruths, TypeOK, Http!HttpType, Ws!WsType, Http!Event, Ws!Event,
     Event, Http!Kinds, Ws!Kinds, Kinds
<1>4. \A e \in httpTodo' \cup wsTodo' : TellsTruth(e)
  <2>1. ASSUME NEW shape, Http!Poll(shape)
        PROVE  \A e \in httpTodo' : TellsTruth(e)
    BY <1>1, <2>1, AnswerTells DEF Http!Poll
  <2>2. ASSUME NEW i \in 1 .. confirmed, Ws!Receive(i)
        PROVE  \A e \in wsTodo' : TellsTruth(e)
    BY <1>1, <2>2, NotificationTells DEF Ws!Receive
  <2>3. CASE PollerStep
    <3>1. UNCHANGED wsTodo
      BY <2>3 DEF PollerStep, wsVars
    <3> QED
      BY <1>3, <2>1, <2>3, <3>1 DEF PollerStep, Poll, Http!HttpPush,
         Http!FinishPoll
  <2>4. CASE ReceiverStep
    <3>1. UNCHANGED httpTodo
      BY <2>4 DEF ReceiverStep, httpVars
    <3> QED
      BY <1>3, <2>2, <2>4, <3>1 DEF ReceiverStep, Ws!WsPush
  <2> QED
    BY <2>3, <2>4
<1>5. /\ \A k \in DOMAIN items' : TellsTruth(items'[k])
      /\ UNCHANGED popRet
  <2>1. CASE UNCHANGED queueVars
    BY <1>3, <2>1 DEF queueVars
  <2>2. CASE Http!HttpPush \/ Ws!WsPush
    <3>1. PICK p \in Producers, e \in httpTodo \cup wsTodo :
             PushAccepted(p, e) \/ PushRefused(p)
      BY <2>2, OneQueue DEF Http!HttpPush, Ws!WsPush, Producers
    <3>2. e \in Event /\ TellsTruth(e)
      BY <1>3
    <3>3. CASE PushAccepted(p, e)
      <4>1. ASSUME NEW k \in DOMAIN items'
            PROVE  TellsTruth(items'[k])
        <5>1. CASE k \in DOMAIN items
          BY <1>1, <1>3, <3>2, <3>3, <5>1, AcceptedPush
        <5>2. CASE k \notin DOMAIN items
          BY <1>1, <3>2, <3>3, <5>2, AcceptedPush
        <5> QED
          BY <5>1, <5>2
      <4> QED
        BY <1>1, <3>2, <3>3, <4>1, AcceptedPush
    <3>4. CASE PushRefused(p)
      BY <1>1, <1>3, <3>4, RefusedPush
    <3> QED
      BY <3>1, <3>3, <3>4
  <2> QED
    BY <2>1, <2>2 DEF PollerStep, ReceiverStep, Poll, Http!Poll,
       Http!FinishPoll, Ws!Receive, Http!queueVars, Ws!queueVars, queueVars
<1> QED
  BY <1>1, <1>2, <1>3, <1>4, <1>5 DEF OnlyTruths, Writer!hand

\* The writer's step adds a true row whose signature is new to its table, or
\* leaves the tables as they are.
LEMMA WriterStores ==
    TypeOK /\ OnlyTruths /\ WriterStep =>
        /\ Store!Stored \/ UNCHANGED <<Truths, rows>>
        /\ OnlyTruths'
<1> SUFFICES ASSUME TypeOK, OnlyTruths, WriterStep
             PROVE  /\ Store!Stored \/ UNCHANGED <<Truths, rows>>
                    /\ OnlyTruths'
  OBVIOUS
<1>1. /\ UNCHANGED <<log, confirmed, httpTodo, wsTodo>>
      /\ QueueType /\ Writer!WriterType
  BY DEF WriterStep, world, httpVars, wsVars, TypeOK
<1>2. Truths' = Truths /\ \A e : TellsTruth(e)' <=> TellsTruth(e)
  BY <1>1, TruthStays
<1>3. CASE Writer!Connect \/ Writer!WriterLoop
  BY <1>1, <1>2, <1>3 DEF Writer!Connect, Writer!WriterLoop,
     Writer!queueVars, Writer!hand, OnlyTruths
<1>4. CASE Writer!WriterPop
  <2>1. rows' = rows
    BY <1>4 DEF Writer!WriterPop
  <2>2. CASE Writer!Queue!Deliver("writer")
    <3>1. /\ \A k \in DOMAIN items' : TellsTruth(items'[k])
          /\ TellsTruth(Writer!hand')
      BY <1>1, <1>4, <2>2, DeliveredPop DEF Writer!WriterPop, OnlyTruths
    <3> QED
      BY <1>1, <1>2, <2>1, <3>1 DEF OnlyTruths
  <2>3. CASE Writer!Queue!Exhausted("writer")
    <3>1. items' = items /\ Writer!hand' = NoEvent
      BY <1>1, <2>3, EmptyHand DEF Writer!Queue!Exhausted
    <3> QED
      BY <1>1, <1>2, <2>1, <3>1 DEF OnlyTruths
  <2> QED
    BY <1>4, <2>2, <2>3 DEF Writer!WriterPop
<1>5. CASE Writer!InsertDone \/ Writer!InsertFails
  <2>1. items' = items /\ Writer!hand' = NoEvent
    BY <1>1, <1>5, EmptyHand DEF Writer!InsertDone, Writer!InsertFails,
       Writer!DropEvent
  <2>2. PICK h : h = Writer!hand
    OBVIOUS
  <2>3. h \in Event /\ TellsTruth(h)
    <3>1. wrPc = "insert"
      BY <1>5 DEF Writer!InsertDone, Writer!InsertFails
    <3> QED
      BY <1>1, <2>2, <3>1 DEF OnlyTruths, QueueType, Writer!WriterType,
         Writer!hand
  <2>4. \/ rows' = rows
        \/ Writer!TableOf(h.kind) # "" /\ rows' = Writer!Inserted(h)
    BY <1>5, <2>2 DEF Writer!InsertDone, Writer!InsertFails
  <2>5. \/ rows' = rows
        \/ /\ Writer!RowOf(h) \in Truths /\ ~Writer!Conflict(h)
           /\ rows' = rows \cup {Writer!RowOf(h)}
    BY <2>3, <2>4, RowIsTrue DEF Writer!Inserted
  <2>6. ASSUME ~Writer!Conflict(h)
        PROVE  /\ Writer!RowOf(h) \notin rows
               /\ \A s \in rows : \/ s.table # Writer!RowOf(h).table
                                  \/ s.signature # Writer!RowOf(h).signature
    BY <2>6 DEF Writer!Conflict, Writer!RowOf
  <2>7. Store!Stored \/ UNCHANGED <<Truths, rows>>
    BY <1>2, <2>5, <2>6 DEF Store!Stored
  <2>8. rows' \subseteq Truths
    BY <2>5 DEF OnlyTruths
  <2> QED
    BY <1>1, <1>2, <2>1, <2>7, <2>8 DEF OnlyTruths
<1> QED
  BY <1>3, <1>4, <1>5 DEF WriterStep

\* Every step tells the truth.
LEMMA NextTellsTruth == TypeOK /\ OnlyTruths /\ [Next]_vars => OnlyTruths'
<1> SUFFICES ASSUME TypeOK, OnlyTruths,
                    Confirm \/ Shutdown \/ NewProcess \/ UNCHANGED vars
             PROVE  OnlyTruths'
  BY NetworkTellsTruth, WriterStores DEF Next
<1>1. CASE Confirm
  <2>1. confirmed' \in confirmed .. Len(log)
    BY <1>1, LogTypes DEF Confirm, TypeOK
  <2> QED
    BY <1>1, <2>1, TruthGrows DEF Confirm, TypeOK, OnlyTruths, queueVars,
       httpVars, wsVars, wrVars, Writer!hand
<1>2. CASE NewProcess
  <2>1. /\ UNCHANGED <<log, confirmed, rows>>
        /\ items' = <<>> /\ httpTodo' = {} /\ wsTodo' = {}
    BY <1>2 DEF NewProcess, Http!HttpRestarted, Ws!WsRestarted,
       Writer!WriterRestarted
  <2>2. Writer!hand' = NoEvent
    BY <1>2, EmptyHand DEF NewProcess, Writer!WriterRestarted, TypeOK
  <2> QED
    BY <2>1, <2>2, TruthStays DEF OnlyTruths
<1>3. CASE Shutdown \/ UNCHANGED vars
  <2>1. UNCHANGED <<log, confirmed, httpTodo, wsTodo, items, popRet, rows>>
    BY <1>3 DEF Shutdown, StopWs, StopPoller, CloseQueue,
       StopWriter, Ws!StopWs, Http!StopPoller, Queue!Close,
       Writer!StopWriter, vars, world, queueVars, httpVars, wsVars, wrVars
  <2> QED
    BY <2>1, TruthStays DEF OnlyTruths, Writer!hand
<1> QED
  BY <1>1, <1>2, <1>3
-----------------------------------------------------------------------------
(* The poller skips nothing.                                               *)

\* When the queue is closed, the poller has ended and stays so.
LEMMA NextOutlives ==
    TypeOK /\ QueueOutlivesPoller /\ [Next]_vars => QueueOutlivesPoller'
<1> SUFFICES ASSUME TypeOK, QueueOutlivesPoller, [Next]_vars
             PROVE  QueueOutlivesPoller'
  OBVIOUS
<1> USE DEF QueueOutlivesPoller, Http!HttpJoined
<1>1. CASE PollerStep
  <2>1. closed' = closed /\ mainPc' = mainPc /\ ~(~httpRunning /\ ~polling)
    BY <1>1, OneQueue DEF PollerStep, Poll, Http!Poll, Http!HttpPush,
       Http!FinishPoll, Http!queueVars, PushAccepted, PushRefused,
       Queue!Accept, Queue!Refuse
  <2> QED
    BY <2>1
<1>2. CASE ReceiverStep \/ WriterStep
  <2>1. UNCHANGED <<mainPc, httpRunning, polling>>
    BY <1>2 DEF ReceiverStep, WriterStep, httpVars
  <2>2. closed' = closed
    BY <1>2, OneQueue DEF ReceiverStep, Ws!WsPush, Ws!Receive, Ws!queueVars,
       PushAccepted, PushRefused, Queue!Accept, Queue!Refuse, WriterStep,
       Writer!Connect, Writer!WriterLoop, Writer!WriterPop,
       Writer!InsertDone, Writer!InsertFails, Writer!DropEvent,
       Writer!queueVars, Writer!Queue!Deliver, Writer!Queue!Exhausted
  <2> QED
    BY <2>1, <2>2
<1>3. CASE Confirm \/ UNCHANGED vars
  BY <1>3 DEF Confirm, vars, queueVars, httpVars
<1>4. CASE StopWs \/ StopPoller \/ CloseQueue \/ StopWriter
  BY <1>4 DEF StopWs, StopPoller, CloseQueue, StopWriter, Http!StopPoller,
     Queue!Close, queueVars, httpVars
<1>5. CASE NewProcess
  BY <1>5 DEF NewProcess
<1> QED
  BY <1>1, <1>2, <1>3, <1>4, <1>5 DEF Next, Shutdown

\* What the poller has left to do, and what it has done, apart from its own
\* steps, the chain's and a new process's.
LEMMA OthersLeavePoller ==
    TypeOK /\ [Next]_vars =>
        \/ PollerStep \/ Confirm \/ NewProcess
        \/ UNCHANGED <<log, confirmed, polling, httpTodo, processed, highest,
                       lastSlot, accepted["http"]>>
<1> SUFFICES ASSUME TypeOK,
                    ReceiverStep \/ WriterStep \/ Shutdown \/ UNCHANGED vars
             PROVE  UNCHANGED <<log, confirmed, polling, httpTodo, processed,
                                highest, lastSlot, accepted["http"]>>
  BY DEF Next
<1>1. CASE ReceiverStep
  <2>1. accepted'["http"] = accepted["http"]
    <3>1. CASE Ws!WsPush
      <4>1. PICK e \in wsTodo : PushAccepted("ws", e) \/ PushRefused("ws")
        BY <3>1, OneQueue DEF Ws!WsPush
      <4> QED
        BY <4>1 DEF PushAccepted, PushRefused, TypeOK, QueueType, Producers
    <3>2. CASE ~Ws!WsPush
      BY <1>1, <3>2 DEF ReceiverStep, Ws!Receive, Ws!queueVars
    <3> QED
      BY <3>1, <3>2
  <2> QED
    BY <1>1, <2>1 DEF ReceiverStep, world, httpVars
<1>2. CASE WriterStep
  <2>1. accepted' = accepted
    BY <1>2 DEF WriterStep, Writer!Connect, Writer!WriterLoop,
       Writer!WriterPop, Writer!InsertDone, Writer!InsertFails,
       Writer!DropEvent, Writer!queueVars
  <2> QED
    BY <1>2, <2>1 DEF WriterStep, world, httpVars
<1>3. CASE Shutdown \/ UNCHANGED vars
  BY <1>3 DEF Shutdown, StopWs, StopPoller, CloseQueue, StopWriter,
     Http!StopPoller, vars, world, queueVars, httpVars
<1> QED
  BY <1>1, <1>2, <1>3

\* One push of the poller: the queue is open, so it is accepted.
LEMMA PollerPushes ==
    ASSUME TypeOK, OnlyTruths, QueueOutlivesPoller, PollerStep,
           Http!HttpPush
    PROVE  \E e \in httpTodo :
              /\ TellsTruth(e) /\ e \in Event
              /\ httpTodo' = httpTodo \ {e}
              /\ accepted'["http"] = accepted["http"] \cup {e}
              /\ highest' = IF e.slot > highest THEN e.slot ELSE highest
              /\ UNCHANGED <<log, confirmed, lastSlot>> /\ polling
<1>1. PICK e \in httpTodo :
         /\ httpTodo' = httpTodo \ {e}
         /\ \/ /\ PushAccepted("http", e)
               /\ highest' = IF e.slot > highest THEN e.slot ELSE highest
            \/ PushRefused("http")
  BY OneQueue DEF Http!HttpPush
<1>2. e \in Event /\ TellsTruth(e) /\ QueueType /\ "http" \in Producers
  BY DEF OnlyTruths, TypeOK, Http!HttpType, Http!Event, Event, Http!Kinds,
     Kinds, Producers
<1>3. polling /\ UNCHANGED <<log, confirmed, lastSlot>>
  BY DEF Http!HttpPush, PollerStep, world
<1>4. ~PushRefused("http")
  BY <1>2, <1>3, RefusedPush DEF QueueOutlivesPoller, Http!HttpJoined
<1>5. accepted'["http"] = accepted["http"] \cup {e}
  BY <1>1, <1>2, <1>4, AcceptedPush
<1> QED
  BY <1>1, <1>2, <1>3, <1>4, <1>5

\* The slot of an event that tells the truth is not later than any entry that
\* is still to be confirmed.
LEMMA EventNotLater ==
    ASSUME TypeOK, NEW e \in Event, TellsTruth(e),
           NEW i \in DOMAIN log, i > confirmed
    PROVE  e.slot <= log[i].slot
<1>1. log \in Logs /\ confirmed \in 0 .. Len(log)
  BY DEF TypeOK
<1>2. e.data[1] \in 1 .. confirmed /\ e.slot = log[e.data[1]].slot
  BY <1>1, DataLine DEF TellsTruth
<1> QED
  BY <1>1, <1>2, LogTypes

\* So neither is what the poller has learnt from them.
LEMMA NextLater ==
    TypeOK /\ OnlyTruths /\ QueueOutlivesPoller /\ LateIsLater
        /\ [Next]_vars => LateIsLater'
<1> SUFFICES ASSUME TypeOK, OnlyTruths, QueueOutlivesPoller, LateIsLater,
                    [Next]_vars,
                    NEW i \in DOMAIN log', i > confirmed'
             PROVE  lastSlot' <= log'[i].slot /\ highest' <= log'[i].slot
  BY DEF LateIsLater
<1>1. log \in Logs /\ confirmed \in Nat /\ highest \in Nat /\ lastSlot \in Nat
  BY LogTypes DEF TypeOK, Http!HttpType
<1>2. CASE Confirm
  BY <1>1, <1>2, LogTypes DEF Confirm, httpVars, LateIsLater
<1>3. CASE NewProcess
  BY <1>1, <1>3, LogTypes DEF NewProcess, Http!HttpRestarted
<1>4. CASE PollerStep
  <2>1. UNCHANGED <<log, confirmed>>
    BY <1>4 DEF PollerStep, world
  <2>2. lastSlot <= log[i].slot /\ highest <= log[i].slot
    BY <2>1 DEF LateIsLater
  <2>3. CASE Http!HttpPush
    <3>1. PICK e \in httpTodo :
             /\ TellsTruth(e) /\ e \in Event
             /\ highest' = IF e.slot > highest THEN e.slot ELSE highest
             /\ UNCHANGED lastSlot
      BY <1>4, <2>3, PollerPushes
    <3>2. e.slot <= log[i].slot
      BY <2>1, <3>1, EventNotLater
    <3> QED
      BY <2>1, <2>2, <3>1, <3>2
  <2>4. CASE Poll
    BY <2>1, <2>2, <2>4 DEF Poll, Http!Poll
  <2>5. CASE Http!FinishPoll
    <3>1. log[i].slot \in Nat
      BY <1>1, <2>1, LogTypes
    <3> QED
      BY <2>1, <2>2, <2>5, <3>1 DEF Http!FinishPoll, Http!NextStart
  <2> QED
    BY <1>4, <2>3, <2>4, <2>5 DEF PollerStep
<1> QED
  BY <1>2, <1>3, <1>4, OthersLeavePoller DEF LateIsLater

\* A data line that has been confirmed just now is of the entry after the
\* last one.
LEMMA NewLine ==
    ASSUME TypeOK, Confirm, NEW at \in DataLines(confirmed)',
           at \notin DataLines(confirmed)
    PROVE  at[1] = confirmed + 1 /\ at[1] \in DOMAIN log
<1>1. log \in Logs /\ confirmed \in 0 .. Len(log) /\ Len(log) \in Nat
  BY LogTypes DEF TypeOK
<1>2. confirmed' = confirmed + 1 /\ confirmed < Len(log) /\ log' = log
  BY DEF Confirm
<1>3. at \in DataLines(confirmed + 1)
  BY <1>2 DEF DataLines
<1>4. at[1] \in 1 .. confirmed + 1 /\ at[1] \notin 1 .. confirmed
  BY <1>1, <1>2, <1>3, DataLine
<1> QED
  BY <1>1, <1>2, <1>4, LogTypes

\* The poller moves on past nothing that it has not delivered.
LEMMA NextSkipsNothing ==
    TypeOK /\ OnlyTruths /\ QueueOutlivesPoller /\ LateIsLater
        /\ RoundComplete /\ NothingSkipped /\ [Next]_vars
        => NothingSkipped'
<1> SUFFICES ASSUME TypeOK, OnlyTruths, QueueOutlivesPoller, LateIsLater,
                    RoundComplete, NothingSkipped, [Next]_vars,
                    NEW at \in DataLines(confirmed)',
                    log'[at[1]].slot < lastSlot'
             PROVE  at \in Polled'
  BY DEF NothingSkipped
<1>1. CASE Confirm
  <2>1. at \in DataLines(confirmed)
    <3>1. UNCHANGED <<log, lastSlot>>
      BY <1>1 DEF Confirm, httpVars
    <3>2. ASSUME NEW i \in DOMAIN log, i > confirmed
          PROVE  ~(log[i].slot < lastSlot)
      BY <3>2, LogTypes DEF LateIsLater, TypeOK, Http!HttpType
    <3>3. confirmed + 1 > confirmed
      BY LogTypes DEF TypeOK
    <3> QED
      BY <1>1, <3>1, <3>2, <3>3, NewLine
  <2> QED
    BY <1>1, <2>1 DEF Confirm, httpVars, queueVars, NothingSkipped, Polled
<1>2. CASE NewProcess
  <2>1. lastSlot' = 0 /\ at[1] \in 1 .. Len(log) /\ log' = log
    BY <1>2, DataLine DEF NewProcess, Http!HttpRestarted, TypeOK, DataLines
  <2> QED
    BY <2>1, LogTypes DEF TypeOK
<1>3. CASE PollerStep
  <2>1. UNCHANGED <<log, confirmed>> /\ at \in DataLines(confirmed)
    BY <1>3 DEF PollerStep, world, DataLines
  <2>2. CASE Http!HttpPush
    <3>1. lastSlot' = lastSlot /\ accepted["http"] \subseteq accepted'["http"]
      BY <1>3, <2>2, PollerPushes
    <3> QED
      BY <2>1, <3>1 DEF NothingSkipped, Polled
  <2>3. CASE Poll
    BY <2>1, <2>3 DEF Poll, Http!Poll, Http!queueVars, NothingSkipped, Polled
  <2>4. CASE Http!FinishPoll
    <3>1. /\ polling /\ httpTodo = {} /\ accepted' = accepted
          /\ lastSlot' \in {highest, lastSlot}
      BY <2>4 DEF Http!FinishPoll, Http!NextStart, Http!queueVars
    <3>2. log[at[1]].slot < highest => at \in Polled
      BY <2>1, <3>1 DEF RoundComplete, Passes
    <3> QED
      BY <2>1, <3>1, <3>2 DEF NothingSkipped, Polled
  <2> QED
    BY <1>3, <2>2, <2>3, <2>4 DEF PollerStep
<1>4. CASE UNCHANGED <<log, confirmed, lastSlot, accepted["http"]>>
  <2>1. at \in DataLines(confirmed)
    BY <1>4 DEF DataLines
  <2> QED
    BY <1>4, <2>1 DEF NothingSkipped, Polled
<1> QED
  BY <1>1, <1>2, <1>3, <1>4, OthersLeavePoller

\* An answer brings everything that its events are later than, unless it has
\* been accepted before.
LEMMA AnswerCoversRound ==
    ASSUME TypeOK, NothingSkipped, NEW shape,
           NEW at \in DataLines(confirmed),
           NEW e \in Http!EventsOf(Http!Answer(shape)),
           log[at[1]].slot < e.slot
    PROVE  \/ at \in Polled
           \/ \E f \in Http!EventsOf(Http!Answer(shape)) : f.data = at
<1>1. log \in Logs /\ confirmed \in 0 .. Len(log) /\ lastSlot \in Nat
  BY DEF TypeOK, Http!HttpType
<1>2. CASE log[at[1]].slot < lastSlot
  BY <1>2 DEF NothingSkipped
<1>3. CASE ~(log[at[1]].slot < lastSlot)
  <2>1. /\ TellsTruth(e) /\ e.data[1] \in Http!Window(lastSlot)
        /\ shape \in {"array", "object", "notification"}
    BY <1>1, AnswerTells
  <2>2. e.data[1] \in 1 .. confirmed /\ e.slot = log[e.data[1]].slot
    BY <1>1, <2>1, DataLine DEF TellsTruth
  <2>3. at[1] \in 1 .. confirmed
    BY <1>1, DataLine
  <2>4. at[1] <= e.data[1]
    BY <1>1, <2>2, <2>3, LogTypes
  <2>5. at[1] \in Http!Window(lastSlot)
    <3>1. lastSlot <= log[at[1]].slot
      BY <1>1, <1>3, <2>3, LogTypes
    <3> QED
      BY <1>1, <2>1, <2>3, <2>4, <3>1, WindowIsPrefix
  <2> QED
    BY <1>1, <2>1, <2>5, AnswerComplete
<1> QED
  BY <1>2, <1>3

\* What the round passes is delivered or still to come.
LEMMA NextCompletes ==
    TypeOK /\ OnlyTruths /\ QueueOutlivesPoller /\ LateIsLater
        /\ RoundComplete /\ NothingSkipped /\ [Next]_vars
        => RoundComplete'
<1> SUFFICES ASSUME TypeOK, OnlyTruths, QueueOutlivesPoller, LateIsLater,
                    RoundComplete, NothingSkipped, [Next]_vars, polling',
                    NEW at \in DataLines(confirmed)', Passes(at[1])'
             PROVE  at \in Polled' \/ \E e \in httpTodo' : e.data = at
  BY DEF RoundComplete
<1>1. CASE Confirm
  <2>1. /\ polling /\ UNCHANGED <<httpTodo, accepted>> /\ Passes(at[1])
        /\ Polled' = Polled
    BY <1>1 DEF Confirm, httpVars, queueVars, Passes, Polled
  <2>2. at \in DataLines(confirmed)
    <3>1. ASSUME NEW i \in DOMAIN log, i > confirmed
          PROVE  ~Passes(i)
      <4>1. \A e \in httpTodo : e \in Event /\ TellsTruth(e)
        BY DEF OnlyTruths, TypeOK, Http!HttpType, Http!Event, Event,
           Http!Kinds, Kinds
      <4>2. \A e \in httpTodo : e.slot <= log[i].slot /\ e.slot \in Nat
        BY <3>1, <4>1, EventNotLater DEF Event
      <4>3. highest <= log[i].slot /\ highest \in Nat /\ log[i].slot \in Nat
        BY <3>1, LogTypes DEF LateIsLater, TypeOK, Http!HttpType
      <4> QED
        BY <4>2, <4>3 DEF Passes
    <3>2. confirmed + 1 > confirmed
      BY LogTypes DEF TypeOK
    <3> QED
      BY <1>1, <2>1, <3>1, <3>2, NewLine
  <2> QED
    BY <2>1, <2>2 DEF RoundComplete
<1>2. CASE NewProcess
  BY <1>2 DEF NewProcess, Http!HttpRestarted
<1>3. CASE PollerStep
  <2>1. UNCHANGED <<log, confirmed>> /\ at \in DataLines(confirmed)
    BY <1>3 DEF PollerStep, world, DataLines
  <2>2. ASSUME NEW shape, Http!Poll(shape)
        PROVE  at \in Polled' \/ \E e \in httpTodo' : e.data = at
    <3>1. /\ httpTodo' = Http!EventsOf(Http!Answer(shape))
          /\ highest' = lastSlot /\ accepted' = accepted
      BY <2>2 DEF Http!Poll, Http!queueVars
    <3>2. CASE log[at[1]].slot < lastSlot
      BY <2>1, <3>1, <3>2 DEF NothingSkipped, Polled
    <3>3. CASE \E e \in httpTodo' : log[at[1]].slot < e.slot
      BY <2>1, <3>1, <3>3, AnswerCoversRound DEF Polled
    <3> QED
      BY <2>1, <3>1, <3>2, <3>3 DEF Passes
  <2>3. CASE Http!HttpPush
    <3>1. PICK e \in httpTodo :
             /\ httpTodo' = httpTodo \ {e}
             /\ accepted'["http"] = accepted["http"] \cup {e}
             /\ highest' = IF e.slot > highest THEN e.slot ELSE highest
             /\ polling
      BY <1>3, <2>3, PollerPushes
    <3>2. Passes(at[1])
      BY <2>1, <3>1 DEF Passes
    <3>3. at \in Polled \/ \E f \in httpTodo : f.data = at
      BY <2>1, <3>1, <3>2 DEF RoundComplete
    <3>4. e.data \in Polled' /\ Polled \subseteq Polled'
      BY <3>1 DEF Polled
    <3> QED
      BY <3>1, <3>3, <3>4
  <2>4. CASE Http!FinishPoll
    BY <2>4 DEF Http!FinishPoll
  <2> QED
    BY <1>3, <2>2, <2>3, <2>4 DEF PollerStep, Poll
<1>4. CASE UNCHANGED <<log, confirmed, polling, httpTodo, highest,
                       accepted["http"]>>
  <2>1. at \in DataLines(confirmed) /\ Passes(at[1]) /\ Polled' = Polled
    BY <1>4 DEF DataLines, Passes, Polled
  <2> QED
    BY <1>4, <2>1 DEF RoundComplete
<1> QED
  BY <1>1, <1>2, <1>3, <1>4, OthersLeavePoller
-----------------------------------------------------------------------------
(* The invariant and the refinement.                                       *)

\* A new client has nothing to tell, to skip or to lose.
LEMMA InitSafe == Init => SafePipeline
<1> SUFFICES ASSUME Init PROVE SafePipeline
  OBVIOUS
<1>1. TypeOK
  BY InitTypes
<1>2. DataLines(confirmed) = {} /\ Truths = {}
  BY TrueRows DEF Init, DataLines
<1>3. /\ httpTodo = {} /\ wsTodo = {} /\ items = <<>> /\ rows = {}
      /\ Writer!hand = NoEvent /\ closed = FALSE /\ mainPc = "loop"
      /\ accepted = [p \in Producers |-> {}] /\ highest = 0 /\ lastSlot = 0
  BY DEF Init, QueueInit, Queue!Init, Http!HttpInit, Ws!WsInit,
     Writer!WriterInit, Writer!hand
<1>4. OnlyTruths
  BY <1>3 DEF OnlyTruths
<1>5. QueueOutlivesPoller
  BY <1>3 DEF QueueOutlivesPoller
<1>6. LateIsLater
  BY <1>1, <1>3, LogTypes DEF LateIsLater, TypeOK
<1>7. RoundComplete /\ NothingSkipped
  BY <1>2 DEF RoundComplete, NothingSkipped
<1>8. NothingVanishes
  BY <1>3 DEF NothingVanishes
<1> QED
  BY <1>1, <1>4, <1>5, <1>6, <1>7, <1>8 DEF SafePipeline

\* SafePipeline is inductive.
LEMMA NextSafe == SafePipeline /\ [Next]_vars => SafePipeline'
BY NextTypes, NextTellsTruth, NextOutlives, NextLater, NextCompletes,
   NextSkipsNothing, NextKeepsAll DEF SafePipeline

\* The state of the pipeline is always safe.
THEOREM PipelineSafe == Spec => []SafePipeline
<1>1. Init => SafePipeline
  BY InitSafe
<1>2. SafePipeline /\ [Next]_vars => SafePipeline'
  BY NextSafe
<1> QED
  BY <1>1, <1>2, PTL DEF Spec

\* The types of the state.
THEOREM PipelineTypes == Spec => []TypeOK
<1>1. SafePipeline => TypeOK
  BY DEF SafePipeline
<1> QED
  BY <1>1, PipelineSafe, PTL

\* The poller never moves its slot past an event that the queue has not
\* accepted, for any log, any length of an answer and any shutdown.
THEOREM PollerSkipsNothing == Spec => []NothingSkipped
<1>1. SafePipeline => NothingSkipped
  BY DEF SafePipeline
<1> QED
  BY <1>1, PipelineSafe, PTL

\* An accepted event stays in the process until it is settled.
THEOREM AcceptedNeverVanishes == Spec => []NothingVanishes
<1>1. SafePipeline => NothingVanishes
  BY DEF SafePipeline
<1> QED
  BY <1>1, PipelineSafe, PTL

\* The chain's steps are those of the store's truths, the writer's are those
\* of its rows, and all others, kills included, are not visible in it.
LEMMA NextImplements ==
    SafePipeline /\ [Next]_vars => [Store!Next]_<<Truths, rows>>
<1> SUFFICES ASSUME SafePipeline, [Next]_vars
             PROVE  [Store!Next]_<<Truths, rows>>
  OBVIOUS
<1>1. TypeOK /\ OnlyTruths
  BY DEF SafePipeline
<1>2. CASE Confirm
  <2>1. Truths \subseteq Truths'
    <3>1. confirmed' \in confirmed .. Len(log) /\ log' = log
      BY <1>1, <1>2, LogTypes DEF Confirm, TypeOK
    <3> QED
      BY <1>1, <3>1, TruthGrows DEF TypeOK
  <2> QED
    BY <1>2, <2>1 DEF Confirm, wrVars, Store!Confirmed, Store!Next
<1>3. CASE WriterStep
  BY <1>1, <1>3, WriterStores DEF Store!Next
<1>4. CASE UNCHANGED <<log, confirmed, rows>>
  BY <1>4, TruthStays
<1>5. CASE PollerStep \/ ReceiverStep \/ Shutdown \/ NewProcess
           \/ UNCHANGED vars
  <2>1. UNCHANGED <<log, confirmed, rows>>
    BY <1>5 DEF PollerStep, ReceiverStep, Shutdown, StopWs, StopPoller,
       CloseQueue, StopWriter, Writer!StopWriter, NewProcess,
       Writer!WriterRestarted, vars, world, wrVars
  <2> QED
    BY <1>4, <2>1
<1> QED
  BY <1>2, <1>3, <1>5 DEF Next

\* The process, whatever happens to it, is a store of true rows, one for each
\* signature and table, that never changes a row.
THEOREM PipelineImplementsEventStore == Spec => ImplementsEventStore
<1>1. Init => Store!Init
  BY InitSafe, TrueRows DEF Init, Store!Init, Writer!WriterInit, DataLines
<1>2. SafePipeline /\ [Next]_vars => [Store!Next]_<<Truths, rows>>
  BY NextImplements
<1> QED
  BY <1>1, <1>2, PipelineSafe, PTL
     DEF Spec, ImplementsEventStore, Store!Spec
\* What a reader of the tables may rely on, and needs no view of the chain or
\* of the queue for: a signature is in a table once.
OneRowEach ==
    \A r, s \in rows :
        r.table = s.table /\ r.signature = s.signature => r = s

\* A step of the pipeline adds at most one row, of a signature that its table
\* did not have, and takes none away.
LEMMA NextAddsRows ==
    SafePipeline /\ [Next]_vars =>
        /\ rows \subseteq rows'
        /\ OneRowEach => OneRowEach'
<1> SUFFICES ASSUME SafePipeline, [Next]_vars
             PROVE  /\ rows \subseteq rows'
                    /\ OneRowEach => OneRowEach'
  OBVIOUS
<1>1. CASE rows' = rows
  BY <1>1 DEF OneRowEach
<1>2. CASE \E r \in Truths \ rows :
              /\ \A s \in rows :
                    s.table # r.table \/ s.signature # r.signature
              /\ rows' = rows \cup {r}
  BY <1>2 DEF OneRowEach
<1> QED
  BY <1>1, <1>2, NextImplements DEF Store!Next, Store!Confirmed, Store!Stored

\* Polled again, pushed by both network threads, inserted again after a
\* failure whose INSERT had been committed, or seen by the next process: a
\* signature makes at most one row in a table, and a row that was
\* stored stays as it is.
THEOREM TablesOnlyGrow == Spec => /\ []OneRowEach
                                  /\ [][rows \subseteq rows']_vars
<1>1. Init => OneRowEach
  BY DEF Init, Writer!WriterInit, OneRowEach
<1>2. /\ SafePipeline /\ OneRowEach /\ [Next]_vars => OneRowEach'
      /\ SafePipeline /\ [Next]_vars => [rows \subseteq rows']_vars
  BY NextAddsRows
<1> QED
  BY <1>1, <1>2, PipelineSafe, PTL DEF Spec
=============================================================================
