-------------------------- MODULE PollerReachProofs --------------------------
(***************************************************************************)
(* Proofs about Pipeline: how far the poller reaches.  NothingSkipped says *)
(* that it leaves nothing behind the slot it asks for; here is what it     *)
(* never gets to.  An answer holds at most Limit entries, and the next     *)
(* request starts at the last slot that had an event, that slot included.  *)
(* When a whole answer lies before the next such slot, every further       *)
(* request gets the same answer, whatever the chain adds.                  *)
(***************************************************************************)
EXTENDS PipelineProofs, FiniteSetTheorems

\* The round never leaves its window: its events are of it, and the slot it
\* has got to is the one it started from or that of an event of the window.
RoundInWindow ==
    polling =>
        /\ \A e \in httpTodo : e.data[1] \in Http!Window(lastSlot)
        /\ \/ highest = lastSlot
           \/ \E at \in DataLines(confirmed) :
                 /\ at[1] \in Http!Window(lastSlot)
                 /\ log[at[1]].slot = highest

\* A full answer without an event of a later slot than it was asked for.
Stuck ==
    /\ Cardinality(Http!Window(lastSlot)) = Limit
    /\ \A at \in DataLines(confirmed) :
          at[1] \in Http!Window(lastSlot) => log[at[1]].slot = lastSlot

\* OutOfReach is: the poller is stuck before the entry.
LEMMA ReachOfStuck ==
    ASSUME NEW i
    PROVE  OutOfReach(i) <=> Stuck /\ \A k \in Http!Window(lastSlot) : k < i
BY DEF OutOfReach, Stuck
-----------------------------------------------------------------------------
(* The window of an answer as the chain grows.                             *)

\* A confirmed entry stays in the window, and only the next entry can come
\* in.
LEMMA WindowGrows ==
    ASSUME TypeOK, LateIsLater, Confirm
    PROVE  /\ Http!Window(lastSlot) \subseteq Http!Window(lastSlot)'
           /\ Http!Window(lastSlot)'
                 \subseteq Http!Window(lastSlot) \cup {confirmed + 1}
           /\ confirmed + 1 \in Http!Window(lastSlot)' =>
                 (confirmed + 1) - Limit \notin Http!Visible(lastSlot)
<1>1. /\ log \in Logs /\ confirmed \in Nat /\ confirmed < Len(log)
      /\ lastSlot \in Nat /\ Limit \in Nat /\ Limit > 0
  BY LogTypes, PipelineAssumption DEF Confirm, TypeOK, Http!HttpType
<1>2. confirmed' = confirmed + 1 /\ log' = log /\ lastSlot' = lastSlot
  BY DEF Confirm, httpVars
<1>3. \A i \in 1 .. confirmed + 1 :
         i \in 1 .. confirmed \/ i = confirmed + 1
  BY <1>1
<1>4. confirmed + 1 \in 1 .. confirmed + 1
      /\ 1 .. confirmed \subseteq 1 .. confirmed + 1
  BY <1>1
<1>5. /\ Http!Visible(lastSlot) \subseteq Http!Visible(lastSlot)'
      /\ Http!Visible(lastSlot)'
            \subseteq Http!Visible(lastSlot) \cup {confirmed + 1}
      /\ Http!Visible(lastSlot) \subseteq 1 .. confirmed
  BY <1>2, <1>3, <1>4 DEF Http!Visible
<1>6. \A i \in 1 .. confirmed + 1 :
         i - Limit \in Http!Visible(lastSlot)' =>
             i - Limit \in Http!Visible(lastSlot)
  <2>1. \A i \in 1 .. confirmed + 1 : i - Limit # confirmed + 1
    BY <1>1
  <2> QED
    BY <1>5, <2>1
<1>7. \A i : /\ i \in Http!Window(lastSlot) <=>
                  /\ i \in Http!Visible(lastSlot)
                  /\ i - Limit \notin Http!Visible(lastSlot)
             /\ i \in Http!Window(lastSlot)' <=>
                  /\ i \in Http!Visible(lastSlot)'
                  /\ i - Limit \notin Http!Visible(lastSlot)'
  BY DEF Http!Window
<1>8. ASSUME NEW i \in 1 .. confirmed + 1
      PROVE  i - Limit \in Http!Visible(lastSlot)' <=>
                i - Limit \in Http!Visible(lastSlot)
  BY <1>5, <1>6
<1>9. ASSUME NEW i \in Http!Window(lastSlot)
      PROVE  i \in Http!Window(lastSlot)'
  <2>1. i \in Http!Visible(lastSlot) /\ i \in 1 .. confirmed + 1
    BY <1>4, <1>5, <1>7
  <2> QED
    BY <1>5, <1>7, <1>8, <2>1
<1>10. ASSUME NEW i \in Http!Window(lastSlot)'
       PROVE  /\ i - Limit \notin Http!Visible(lastSlot)
              /\ i \in Http!Window(lastSlot) \cup {confirmed + 1}
  <2>1. i \in Http!Visible(lastSlot) \cup {confirmed + 1}
    BY <1>5, <1>7
  <2>2. i \in 1 .. confirmed + 1
    BY <1>4, <1>5, <2>1
  <2> QED
    BY <1>7, <1>8, <2>1, <2>2
<1>11. /\ Http!Window(lastSlot) \subseteq Http!Window(lastSlot)'
       /\ Http!Window(lastSlot)'
             \subseteq Http!Window(lastSlot) \cup {confirmed + 1}
  BY <1>9, <1>10
<1>12. confirmed + 1 \in Http!Window(lastSlot)' =>
          (confirmed + 1) - Limit \notin Http!Visible(lastSlot)
  BY <1>10
<1> QED
  BY <1>11, <1>12

\* The visible entries follow each other without a gap, up to the last
\* confirmed one: a window that has room for the next one holds less than
\* Limit.
LEMMA FullWindow ==
    ASSUME TypeOK,
           (confirmed + 1) - Limit \notin Http!Visible(lastSlot)
    PROVE  Cardinality(Http!Window(lastSlot)) # Limit
<1>1. /\ log \in Logs /\ confirmed \in Nat /\ confirmed <= Len(log)
      /\ lastSlot \in Nat /\ Limit \in Nat /\ Limit > 0
  BY LogTypes, PipelineAssumption DEF TypeOK, Http!HttpType
<1> DEFINE first == confirmed + 2 - Limit
<1>2. ASSUME NEW i \in Http!Window(lastSlot)
      PROVE  i \in first .. confirmed
  <2>1. i \in 1 .. confirmed /\ log[i].slot >= lastSlot
    BY DEF Http!Window, Http!Visible
  <2>2. ASSUME i <= (confirmed + 1) - Limit
        PROVE  FALSE
    <3>1. (confirmed + 1) - Limit \in 1 .. confirmed
      BY <1>1, <2>1, <2>2
    <3>2. log[i].slot <= log[(confirmed + 1) - Limit].slot
      BY <1>1, <2>1, <2>2, <3>1, LogTypes
    <3>3. log[(confirmed + 1) - Limit].slot >= lastSlot
      BY <1>1, <2>1, <3>1, <3>2, LogTypes
    <3> QED
      BY <3>1, <3>3 DEF Http!Visible
  <2> QED
    BY <1>1, <2>1, <2>2
<1>3. first \in Int /\ confirmed \in Int
  BY <1>1
<1>4. /\ IsFiniteSet(first .. confirmed)
      /\ Cardinality(first .. confirmed) =
            IF first > confirmed THEN 0 ELSE confirmed - first + 1
  BY <1>3, FS_Interval
<1>5. Cardinality(first .. confirmed) \in Nat
      /\ Cardinality(first .. confirmed) < Limit
  BY <1>1, <1>4
<1>6. /\ IsFiniteSet(Http!Window(lastSlot))
      /\ Cardinality(Http!Window(lastSlot)) <=
            Cardinality(first .. confirmed)
  <2>1. Http!Window(lastSlot) \in SUBSET (first .. confirmed)
    BY <1>2
  <2> HIDE DEF first
  <2> QED
    BY <1>4, <2>1, FS_Subset
<1>7. Cardinality(Http!Window(lastSlot)) \in Nat
  BY <1>6, FS_CardinalityType
<1> HIDE DEF first
<1> QED
  BY <1>1, <1>5, <1>6, <1>7

\* So a full window does not change when the chain grows.
LEMMA FullWindowStays ==
    ASSUME TypeOK, LateIsLater, Confirm,
           Cardinality(Http!Window(lastSlot)) = Limit
    PROVE  Http!Window(lastSlot)' = Http!Window(lastSlot)
BY WindowGrows, FullWindow
-----------------------------------------------------------------------------
(* The round.                                                              *)

\* RoundInWindow is kept by every step of a safe pipeline.
LEMMA NextInWindow ==
    SafePipeline /\ RoundInWindow /\ [Next]_vars => RoundInWindow'
<1> SUFFICES ASSUME SafePipeline, RoundInWindow, [Next]_vars, polling'
             PROVE  RoundInWindow'
  BY DEF RoundInWindow
<1>1. /\ TypeOK /\ OnlyTruths /\ QueueOutlivesPoller /\ LateIsLater
      /\ log \in Logs /\ confirmed \in 0 .. Len(log)
  BY DEF SafePipeline, TypeOK
<1>2. CASE Confirm
  <2>1. UNCHANGED <<log, polling, httpTodo, highest, lastSlot>>
    BY <1>2 DEF Confirm, httpVars
  <2>2. Http!Window(lastSlot) \subseteq Http!Window(lastSlot)'
    BY <1>1, <1>2, WindowGrows
  <2>3. DataLines(confirmed) \subseteq DataLines(confirmed)'
    <3>1. confirmed' = confirmed + 1 /\ confirmed \in Nat
      BY <1>1, <1>2, LogTypes DEF Confirm
    <3>2. 1 .. confirmed \subseteq 1 .. confirmed'
      BY <3>1
    <3> QED
      BY <2>1, <3>2 DEF DataLines
  <2> QED
    BY <2>1, <2>2, <2>3 DEF RoundInWindow
<1>3. CASE NewProcess
  BY <1>3 DEF NewProcess, Http!HttpRestarted
<1>4. CASE PollerStep
  <2>1. UNCHANGED <<log, confirmed>>
    BY <1>4 DEF PollerStep, world
  <2>2. ASSUME NEW shape, Http!Poll(shape)
        PROVE  RoundInWindow'
    <3>1. /\ httpTodo' = Http!EventsOf(Http!Answer(shape))
          /\ highest' = lastSlot /\ lastSlot' = lastSlot
      BY <2>2 DEF Http!Poll
    <3>2. Http!Window(lastSlot)' = Http!Window(lastSlot)
      BY <2>1, <3>1 DEF Http!Window, Http!Visible
    <3> QED
      BY <1>1, <3>1, <3>2, AnswerTells DEF RoundInWindow
  <2>3. CASE Http!HttpPush
    <3>1. PICK e \in httpTodo :
             /\ TellsTruth(e)
             /\ httpTodo' = httpTodo \ {e}
             /\ highest' = IF e.slot > highest THEN e.slot ELSE highest
             /\ UNCHANGED lastSlot /\ polling
      BY <1>1, <1>4, <2>3, PollerPushes
    <3>2. /\ Http!Window(lastSlot)' = Http!Window(lastSlot)
          /\ DataLines(confirmed)' = DataLines(confirmed)
      BY <2>1, <3>1 DEF Http!Window, Http!Visible, DataLines
    <3>3. /\ e.data \in DataLines(confirmed)
          /\ e.data[1] \in Http!Window(lastSlot)
          /\ e.slot = log[e.data[1]].slot
      BY <3>1 DEF TellsTruth, RoundInWindow
    <3> QED
      BY <2>1, <3>1, <3>2, <3>3 DEF RoundInWindow
  <2>4. CASE Http!FinishPoll
    BY <2>4 DEF Http!FinishPoll
  <2> QED
    BY <1>4, <2>2, <2>3, <2>4 DEF PollerStep, Poll
<1>5. CASE UNCHANGED <<log, confirmed, polling, httpTodo, highest, lastSlot>>
  <2>1. /\ Http!Window(lastSlot)' = Http!Window(lastSlot)
        /\ DataLines(confirmed)' = DataLines(confirmed)
    BY <1>5 DEF Http!Window, Http!Visible, DataLines
  <2> QED
    BY <1>5, <2>1 DEF RoundInWindow
<1> QED
  BY <1>1, <1>2, <1>3, <1>4, <1>5, OthersLeavePoller

\* Whatever the poller has at hand is of the window it asked for.
THEOREM RoundStaysInWindow == Spec => []RoundInWindow
<1>1. Init => RoundInWindow
  BY DEF Init, Http!HttpInit, RoundInWindow
<1> QED
  BY <1>1, NextInWindow, PipelineSafe, PTL DEF Spec
-----------------------------------------------------------------------------
(* Losses are for good.                                                    *)

\* As long as the process lives, a stuck poller keeps its slot and its
\* window.
LEMMA StuckStays ==
    ASSUME SafePipeline, RoundInWindow, Stuck, [Next]_vars, ~NewProcess
    PROVE  /\ Stuck'
           /\ Http!Window(lastSlot)' = Http!Window(lastSlot)
<1>1. /\ TypeOK /\ OnlyTruths /\ QueueOutlivesPoller /\ LateIsLater
      /\ log \in Logs /\ confirmed \in 0 .. Len(log)
  BY DEF SafePipeline, TypeOK
<1>2. CASE Confirm
  <2>1. UNCHANGED <<log, lastSlot>>
    BY <1>2 DEF Confirm, httpVars
  <2>2. Http!Window(lastSlot)' = Http!Window(lastSlot)
    BY <1>1, <1>2, FullWindowStays DEF Stuck
  <2>3. ASSUME NEW at \in DataLines(confirmed)',
               at[1] \in Http!Window(lastSlot)
        PROVE  at \in DataLines(confirmed)
    <3>1. at[1] \in 1 .. confirmed
      BY <2>3, WindowConfirmed
    <3>2. at[1] # confirmed + 1
      BY <1>1, <3>1
    <3> QED
      BY <1>1, <1>2, <3>2, NewLine
  <2> QED
    BY <2>1, <2>2, <2>3 DEF Stuck
<1>3. CASE UNCHANGED <<log, confirmed, lastSlot>>
  <2>1. /\ Http!Window(lastSlot)' = Http!Window(lastSlot)
        /\ DataLines(confirmed)' = DataLines(confirmed)
    BY <1>3 DEF Http!Window, Http!Visible, DataLines
  <2> QED
    BY <1>3, <2>1 DEF Stuck
<1>4. CASE PollerStep
  <2>1. UNCHANGED <<log, confirmed>>
    BY <1>4 DEF PollerStep, world
  <2>2. lastSlot' = lastSlot
    <3>1. CASE Poll
      BY <3>1 DEF Poll, Http!Poll
    <3>2. CASE Http!HttpPush
      BY <3>2 DEF Http!HttpPush
    <3>3. CASE Http!FinishPoll
      <4>1. polling /\ lastSlot' \in {highest, lastSlot}
        BY <3>3 DEF Http!FinishPoll, Http!NextStart
      <4>2. highest = lastSlot
        BY <4>1 DEF RoundInWindow, Stuck
      <4> QED
        BY <4>1, <4>2
    <3> QED
      BY <1>4, <3>1, <3>2, <3>3 DEF PollerStep
  <2> QED
    BY <1>3, <2>1, <2>2
<1> QED
  BY <1>1, <1>2, <1>3, <1>4, OthersLeavePoller

\* A push of the poller is of the window, so it delivers nothing beyond.
LEMMA PolledInWindow ==
    ASSUME SafePipeline, RoundInWindow, [Next]_vars,
           NEW at \in Polled', at \notin Polled
    PROVE  at[1] \in Http!Window(lastSlot)
<1>1. TypeOK /\ OnlyTruths /\ QueueOutlivesPoller
  BY DEF SafePipeline
<1>2. CASE accepted'["http"] = accepted["http"]
  BY <1>2 DEF Polled
<1>3. CASE Http!HttpPush /\ PollerStep
  <2>1. PICK e \in httpTodo :
           /\ accepted'["http"] = accepted["http"] \cup {e}
           /\ polling
    BY <1>1, <1>3, PollerPushes
  <2>2. at = e.data
    BY <2>1 DEF Polled
  <2> QED
    BY <2>1, <2>2 DEF RoundInWindow
<1>4. CASE PollerStep /\ ~Http!HttpPush
  <2>1. accepted' = accepted
    BY <1>4 DEF PollerStep, Poll, Http!Poll, Http!FinishPoll, Http!queueVars
  <2> QED
    BY <1>2, <2>1
<1>5. CASE Confirm
  <2>1. accepted' = accepted
    BY <1>5 DEF Confirm, queueVars
  <2> QED
    BY <1>2, <2>1
<1>6. CASE NewProcess
  BY <1>6 DEF NewProcess, Polled, Producers
<1> QED
  BY <1>1, <1>2, <1>3, <1>4, <1>5, <1>6, OthersLeavePoller

\* An event is lost to the poller of this process.
LostToPoller(at) == OutOfReach(at[1]) /\ at \notin Polled

\* One step of that.
LEMMA LostStep ==
    ASSUME SafePipeline, RoundInWindow, [Next]_vars, ~NewProcess,
           NEW at, LostToPoller(at)
    PROVE  LostToPoller(at)'
<1>1. Stuck /\ \A k \in Http!Window(lastSlot) : k < at[1]
  BY ReachOfStuck DEF LostToPoller
<1>2. Stuck' /\ Http!Window(lastSlot)' = Http!Window(lastSlot)
  BY <1>1, StuckStays
<1>3. OutOfReach(at[1])' <=>
         Stuck' /\ \A k \in Http!Window(lastSlot)' : k < at[1]
  BY DEF OutOfReach, Stuck
<1>4. at[1] \notin Http!Window(lastSlot)
  <2>1. ASSUME at[1] \in Http!Window(lastSlot)
        PROVE  FALSE
    <3>1. at[1] \in 1 .. confirmed /\ at[1] < at[1]
      BY <1>1, <2>1, WindowConfirmed
    <3> QED
      BY <3>1
  <2> QED
    BY <2>1
<1>5. at \notin Polled'
  BY <1>4, PolledInWindow DEF LostToPoller
<1> QED
  BY <1>1, <1>2, <1>3, <1>5 DEF LostToPoller

\* A process is told from the next by the number of kills.
LEMMA ProcessStep ==
    ASSUME TypeOK, [Next]_vars
    PROVE  /\ kills \in Nat
           /\ kills' = kills \/ kills' = kills + 1
           /\ NewProcess <=> kills' # kills
<1>1. kills \in Nat
  BY PipelineAssumption DEF TypeOK
<1>2. NewProcess \/ kills' = kills
  BY DEF Next, Confirm, PollerStep, ReceiverStep, WriterStep, Shutdown,
     StopWs, StopPoller, CloseQueue, StopWriter, vars, world
<1> QED
  BY <1>1, <1>2 DEF NewProcess

\* What lies behind a full answer without a later event is never polled by
\* this process, however long it runs and whatever is confirmed: only a new
\* process, which starts from slot 0 again, could get it, or the WebSocket.
THEOREM LostForGood ==
    ASSUME NEW CONSTANT at, NEW CONSTANT n \in Nat
    PROVE  Spec => [](LostToPoller(at) /\ kills = n
                         => [](LostToPoller(at) \/ kills > n))
<1> DEFINE Lost == kills \in Nat /\ (kills = n => LostToPoller(at))
                   /\ kills >= n
<1>1. /\ SafePipeline => kills \in Nat
      /\ LostToPoller(at) /\ kills = n /\ SafePipeline => Lost
  BY PipelineAssumption DEF SafePipeline, TypeOK
<1>2. SafePipeline /\ RoundInWindow /\ [Next]_vars /\ Lost => Lost'
  <2> SUFFICES ASSUME SafePipeline, RoundInWindow, [Next]_vars, Lost
               PROVE  Lost'
    OBVIOUS
  <2>1. /\ kills \in Nat
        /\ kills' = kills \/ kills' = kills + 1
        /\ NewProcess <=> kills' # kills
    BY ProcessStep DEF SafePipeline
  <2>2. CASE kills' = n
    <3>1. kills = n /\ ~NewProcess
      BY <2>1, <2>2
    <3>2. LostToPoller(at)'
      BY <3>1, LostStep
    <3> QED
      BY <2>2, <3>2
  <2>3. CASE kills' # n
    BY <2>1, <2>3
  <2> QED
    BY <2>2, <2>3
<1>3. Lost => LostToPoller(at) \/ kills > n
  OBVIOUS
<1> HIDE DEF Lost
<1> QED
  BY <1>1, <1>2, <1>3, PipelineSafe, RoundStaysInWindow, PTL DEF Spec
=============================================================================
