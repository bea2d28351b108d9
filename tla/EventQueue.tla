----------------------------- MODULE EventQueue -----------------------------
(***************************************************************************)
(* src/event_queue.c: the ring of YureiEvent slots between the network     *)
(* threads (producers) and the database writer (consumer), protected by    *)
(* one mutex and two condition variables.                                  *)
(*                                                                         *)
(* A step is what a thread does between acquiring the mutex and releasing  *)
(* it, either by unlocking or inside pthread_cond_wait: every access to    *)
(* the fields is made under the mutex, so nothing finer can be observed.   *)
(* A thread inside a call is either asleep on a condition variable (a      *)
(* member of waitPush or waitPop) or awake and queueing for the mutex.     *)
(* POSIX lets a wait end without a signal: SpuriousWake.                   *)
(***************************************************************************)
EXTENDS Integers, FiniteSets, Sequences

CONSTANTS
    Producers,      \* threads that call yurei_queue_push
    Consumers,      \* threads that call yurei_queue_pop
    Events,         \* YureiEvent values
    NoEvent,        \* content of a slot or variable nobody has filled
    Capacity        \* number of slots: YUREI_QUEUE_CAPACITY

ASSUME QueueAssumption ==
    /\ IsFiniteSet(Producers)
    /\ IsFiniteSet(Consumers)
    /\ NoEvent \notin Events
    /\ Capacity \in Nat \ {0}       \* yurei_queue_init refuses 0

VARIABLES
    buffer,         \* the slots; a popped slot keeps its old content
    head, tail,     \* slot of the oldest event, slot of the next push
    size,           \* slots in use
    closed,
    pushing,        \* pushing[p]: the event of p's push in progress
    waitPush,       \* producers asleep on cond_push
    popping,        \* consumers inside yurei_queue_pop
    waitPop,        \* consumers asleep on cond_pop
    pushRet,        \* pushRet[p]: result of p's last push
    popRet          \* popRet[c]: the event c's last pop gave, NoEvent if -1

ring == <<buffer, head, tail, size>>
vars == <<ring, closed, pushing, waitPush, popping, waitPop, pushRet, popRet>>

Slots == 0 .. Capacity - 1

Init ==
    /\ buffer = [i \in Slots |-> NoEvent]
    /\ head = 0
    /\ tail = 0
    /\ size = 0
    /\ closed = FALSE
    /\ pushing = [p \in Producers |-> NoEvent]
    /\ waitPush = {}
    /\ popping = {}
    /\ waitPop = {}
    /\ pushRet = [p \in Producers |-> 0]
    /\ popRet = [c \in Consumers |-> NoEvent]
-----------------------------------------------------------------------------
(* pthread_cond_signal wakes one sleeper if there is one.  The definitions  *)
(* named Bug... are slips of the implementation; no action uses them.       *)
BugNoSignal(waiters) == {waiters}

AfterSignal(waiters) ==
    IF waiters = {} THEN {{}} ELSE {waiters \ {t} : t \in waiters}

BugAdvancePastEnd(i) == (i + 1) % (Capacity + 1)

Advance(i) == (i + 1) % Capacity
-----------------------------------------------------------------------------
(* yurei_queue_push.  p holds the mutex for e: it has just called, or it   *)
(* was woken and re-evaluates the loop condition.                          *)
PushTurn(p, e) ==
    /\ p \notin waitPush
    /\ pushing[p] \in {NoEvent, e}

PushBlocks(p, e) ==
    /\ PushTurn(p, e)
    /\ size = Capacity /\ ~closed
    /\ pushing' = [pushing EXCEPT ![p] = e]
    /\ waitPush' = waitPush \cup {p}
    /\ UNCHANGED <<ring, closed, popping, waitPop, pushRet, popRet>>

PushRefused(p, e) ==
    /\ PushTurn(p, e)
    /\ closed
    /\ pushing' = [pushing EXCEPT ![p] = NoEvent]
    /\ pushRet' = [pushRet EXCEPT ![p] = -1]
    /\ UNCHANGED <<ring, closed, waitPush, popping, waitPop, popRet>>

StoreEvent(p, e) ==
    /\ buffer' = [buffer EXCEPT ![tail] = e]
    /\ tail' = Advance(tail)
    /\ size' = size + 1
    /\ waitPop' \in AfterSignal(waitPop)
    /\ pushing' = [pushing EXCEPT ![p] = NoEvent]
    /\ pushRet' = [pushRet EXCEPT ![p] = 0]
    /\ UNCHANGED <<head, closed, waitPush, popping, popRet>>

\* A push that looks only at the size, not at `closed`, after its wait.
BugPushIntoClosed(p, e) ==
    /\ PushTurn(p, e)
    /\ size # Capacity
    /\ StoreEvent(p, e)

PushAccepted(p, e) ==
    /\ PushTurn(p, e)
    /\ size # Capacity /\ ~closed
    /\ StoreEvent(p, e)

Push(p, e) == PushBlocks(p, e) \/ PushRefused(p, e) \/ PushAccepted(p, e)
-----------------------------------------------------------------------------
(* yurei_queue_pop.                                                        *)
PopTurn(c) == c \notin waitPop

PopBlocks(c) ==
    /\ PopTurn(c)
    /\ size = 0 /\ ~closed
    /\ popping' = popping \cup {c}
    /\ waitPop' = waitPop \cup {c}
    /\ UNCHANGED <<ring, closed, pushing, waitPush, pushRet, popRet>>

PopExhausted(c) ==
    /\ PopTurn(c)
    /\ size = 0 /\ closed
    /\ popping' = popping \ {c}
    /\ popRet' = [popRet EXCEPT ![c] = NoEvent]
    /\ UNCHANGED <<ring, closed, pushing, waitPush, waitPop, pushRet>>

PopTakes(c) ==
    /\ PopTurn(c)
    /\ size # 0
    /\ popRet' = [popRet EXCEPT ![c] = buffer[head]]
    /\ head' = Advance(head)
    /\ size' = size - 1
    /\ waitPush' \in AfterSignal(waitPush)
    /\ popping' = popping \ {c}
    /\ UNCHANGED <<buffer, tail, closed, pushing, waitPop, pushRet>>

Pop(c) == PopBlocks(c) \/ PopExhausted(c) \/ PopTakes(c)
-----------------------------------------------------------------------------
(* yurei_queue_close wakes everybody with two broadcasts.                  *)
BugCloseSignals ==
    /\ closed' = TRUE
    /\ waitPop' \in AfterSignal(waitPop)
    /\ waitPush' \in AfterSignal(waitPush)
    /\ UNCHANGED <<ring, pushing, popping, pushRet, popRet>>

Close ==
    /\ closed' = TRUE
    /\ waitPop' = {}
    /\ waitPush' = {}
    /\ UNCHANGED <<ring, pushing, popping, pushRet, popRet>>

SpuriousWake ==
    /\ \/ \E p \in waitPush : waitPush' = waitPush \ {p} /\ UNCHANGED waitPop
       \/ \E c \in waitPop : waitPop' = waitPop \ {c} /\ UNCHANGED waitPush
    /\ UNCHANGED <<ring, closed, pushing, popping, pushRet, popRet>>

Next ==
    \/ \E p \in Producers, e \in Events : Push(p, e)
    \/ \E c \in Consumers : Pop(c)
    \/ Close
    \/ SpuriousWake

Spec == Init /\ [][Next]_vars

(***************************************************************************)
(* A thread queueing for the mutex gets it: the mutex is held only for the *)
(* length of one step.  The consumer's thread (writer_thread) calls pop    *)
(* again and again; producers call push when the network brings something, *)
(* so no fairness makes them call.                                         *)
(***************************************************************************)
Fairness ==
    /\ \A p \in Producers :
          WF_vars(\E e \in Events : pushing[p] = e /\ Push(p, e))
    /\ \A c \in Consumers : WF_vars(Pop(c))

FairSpec == Spec /\ Fairness
-----------------------------------------------------------------------------
(* Threads inside a call and not asleep.                                   *)
AwakePushers == {p \in Producers : pushing[p] # NoEvent} \ waitPush
AwakePoppers == popping \ waitPop

\* The types of the state: the indices stay inside the ring, and only threads
\* that are inside a call sleep in it.
TypeOK ==
    /\ buffer \in [Slots -> Events \cup {NoEvent}]
    /\ head \in Slots
    /\ tail \in Slots
    /\ size \in 0 .. Capacity
    /\ closed \in BOOLEAN
    /\ pushing \in [Producers -> Events \cup {NoEvent}]
    /\ waitPush \in SUBSET {p \in Producers : pushing[p] # NoEvent}
    /\ popping \in SUBSET Consumers
    /\ waitPop \in SUBSET popping
    /\ pushRet \in [Producers -> {0, -1}]
    /\ popRet \in [Consumers -> Events \cup {NoEvent}]

\* The three indices agree after any mix of pushes and pops, wrap-around
\* included: the slot the next push overwrites is the one just behind the
\* `size` slots still to be read.
RingConsistent == tail = (head + size) % Capacity

\* No lost wakeup for the writer: while a consumer sleeps in yurei_queue_pop,
\* every stored event has an awake consumer coming for it.  A push signals
\* once per event, so this must survive consumers that overtake a woken one
\* and wakeups that were not asked for.
EveryEventHasAwakeConsumer ==
    waitPop # {} => Cardinality(AwakePoppers) >= size

\* No lost wakeup for the network threads: while a producer sleeps in
\* yurei_queue_push, every free slot has an awake producer coming for it.
EverySlotHasAwakeProducer ==
    waitPush # {} => Cardinality(AwakePushers) >= Capacity - size

\* After yurei_queue_close nobody is asleep in the queue and nobody goes to
\* sleep there again; main's joins depend on it.
NobodySleepsInClosedQueue == closed => waitPush = {} /\ waitPop = {}

(***************************************************************************)
(* The slots in use, oldest first: the abstract queue this ring stands for *)
(***************************************************************************)
Items == [i \in 1 .. size |-> buffer[(head + i - 1) % Capacity]]

Fifo == INSTANCE BoundedFifo WITH items <- Items

\* The ring with its mutex and condition variables behaves as the bounded
\* closable queue of BoundedFifo: nothing is lost, duplicated or reordered,
\* nothing enters after the close, and -1 from pop means drained for good.
ImplementsFifo == Fifo!Spec

\* A consumer stays in yurei_queue_pop for ever only if other consumers keep
\* taking events; the writer, which is alone, is handed its event.
PopReturns ==
    \A c \in Consumers :
        <>[](c \in popping) /\ []<>(size > 0) => []<><<size' < size>>_vars

\* A producer stays in yurei_queue_push for ever only if other producers keep
\* getting events in: backpressure never ends in a standstill while the
\* writer pops.
PushReturns ==
    \A p \in Producers :
        <>[](pushing[p] # NoEvent) => []<><<size' > size>>_vars

\* Closing the queue lets every blocked call return.
CloseReleases ==
    /\ \A p \in Producers :
          (closed /\ pushing[p] # NoEvent) ~> pushing[p] = NoEvent
    /\ \A c \in Consumers : (closed /\ c \in popping) ~> c \notin popping
=============================================================================
