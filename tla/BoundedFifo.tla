---------------------------- MODULE BoundedFifo ----------------------------
(***************************************************************************)
(* What yurei_queue_push, yurei_queue_pop and yurei_queue_close promise    *)
(* their callers (include/event_queue.h): a bounded first-in first-out     *)
(* queue that can be closed.  An event is accepted only while the queue is *)
(* open and has room, a consumer is handed the oldest accepted event, and  *)
(* a consumer is told to stop only when the queue is closed AND drained.   *)
(* Blocking, waking and the ring of slots belong to EventQueue, which is   *)
(* shown to implement this module; ClientLifecycle is built on this one.   *)
(***************************************************************************)
EXTENDS Integers, Sequences

CONSTANTS
    Producers,      \* threads that call yurei_queue_push
    Consumers,      \* threads that call yurei_queue_pop
    Events,         \* YureiEvent values
    NoEvent,        \* content of an event variable nobody has filled
    Capacity        \* number of slots of the queue

VARIABLES
    items,          \* accepted events nobody has taken yet, oldest first
    closed,         \* queue->closed
    pushRet,        \* pushRet[p]: what p's last push returned (0 or -1)
    popRet          \* popRet[c]: the event c's last pop filled in

fifoVars == <<items, closed, pushRet, popRet>>

Init ==
    /\ items = <<>>
    /\ closed = FALSE
    /\ pushRet = [p \in Producers |-> 0]
    /\ popRet = [c \in Consumers |-> NoEvent]

\* A push that stores e and returns 0.
Accept(p, e) ==
    /\ ~closed
    /\ Len(items) < Capacity
    /\ items' = Append(items, e)
    /\ pushRet' = [pushRet EXCEPT ![p] = 0]
    /\ UNCHANGED <<closed, popRet>>

\* A push that finds the queue closed and returns -1.
Refuse(p) ==
    /\ closed
    /\ pushRet' = [pushRet EXCEPT ![p] = -1]
    /\ UNCHANGED <<items, closed, popRet>>

\* A pop that returns 0 with the oldest event.
Deliver(c) ==
    /\ items # <<>>
    /\ popRet' = [popRet EXCEPT ![c] = Head(items)]
    /\ items' = Tail(items)
    /\ UNCHANGED <<closed, pushRet>>

\* A pop that returns -1: nothing is left and nothing can come any more.
Exhausted(c) ==
    /\ closed
    /\ items = <<>>
    /\ popRet' = [popRet EXCEPT ![c] = NoEvent]
    /\ UNCHANGED <<items, closed, pushRet>>

Close ==
    /\ closed' = TRUE
    /\ UNCHANGED <<items, pushRet, popRet>>

Next ==
    \/ \E p \in Producers : Refuse(p) \/ \E e \in Events : Accept(p, e)
    \/ \E c \in Consumers : Deliver(c) \/ Exhausted(c)
    \/ Close

Spec == Init /\ [][Next]_fifoVars
=============================================================================
