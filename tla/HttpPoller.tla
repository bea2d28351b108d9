----------------------------- MODULE HttpPoller -----------------------------
(***************************************************************************)
(* poller_thread of src/http_poller.c: it reads the log of the chain from  *)
(* a slot on, one answer of at most Limit entries at a time, and moves the *)
(* slot to the highest one it has pushed an event of.                      *)
(*                                                                         *)
(* The RPC node is external.  It lists the confirmed entries from          *)
(* `startSlot' on, oldest first, and gives each its slot and program.  A   *)
(* request of a poller whose slot is 0 names no startSlot: it is taken to  *)
(* be answered from the first entry on.  Request and answer are one step,  *)
(* since the poller only waits between them.  A failed request changes     *)
(* nothing here; it is counted in Metrics.                                 *)
(***************************************************************************)
EXTENDS Parser

CONSTANT Limit      \* entries of one answer, 50

VARIABLES
    log,            \* the entries of the chain, as values of a message
    confirmed,      \* how many of them the RPC node shows
    httpRunning,    \* poller->running
    polling,        \* an answer is being worked on
    httpTodo,       \* its events that have not been pushed yet
    processed,      \* whether one of its events has been accepted
    highest,        \* highest_slot
    lastSlot        \* poller->last_slot

HttpInit ==
    /\ httpRunning = TRUE
    /\ polling = FALSE
    /\ httpTodo = {}
    /\ processed = FALSE
    /\ highest = 0
    /\ lastSlot = 0

\* The poller of a new process: the slot is kept in memory only.
HttpRestarted ==
    /\ httpRunning' = TRUE
    /\ polling' = FALSE
    /\ httpTodo' = {}
    /\ processed' = FALSE
    /\ highest' = 0
    /\ lastSlot' = 0
-----------------------------------------------------------------------------
BugVisible(start) == {i \in 1 .. confirmed : log[i].slot > start}

\* Entries from the start slot on, that slot included; all without one.
Visible(start) == {i \in 1 .. confirmed : log[i].slot >= start}

\* The first Limit of them; they follow each other without a gap.
Window(start) == {i \in Visible(start) : i - Limit \notin Visible(start)}

Answer(shape) ==
    [shape |-> shape,
     context |-> IF confirmed = 0 THEN 0 ELSE log[confirmed].slot,
     values |-> [i \in Window(lastSlot) |-> log[i]]]

\* A request and its answer: a list, a list with its context, or something
\* unusable.
Poll(shape) ==
    /\ httpRunning /\ ~polling
    /\ polling' = TRUE
    /\ httpTodo' = EventsOf(Answer(shape))
    /\ highest' = lastSlot
    /\ processed' = FALSE
    /\ UNCHANGED <<httpRunning, lastSlot, queueVars>>

HttpPush ==
    /\ polling
    /\ \E e \in httpTodo :
          /\ IsNext(httpTodo, e)
          /\ httpTodo' = httpTodo \ {e}
          /\ \/ /\ PushAccepted("http", e)
                /\ processed' = TRUE
                /\ highest' = IF e.slot > highest THEN e.slot ELSE highest
             \/ /\ PushRefused("http")
                /\ UNCHANGED <<processed, highest>>
    /\ UNCHANGED <<httpRunning, polling, lastSlot>>

\* After the last slot seen, as if no answer were ever cut off inside one.
BugNextStart ==
    IF processed /\ highest > lastSlot THEN highest + 1 ELSE lastSlot

NextStart == IF processed /\ highest > lastSlot THEN highest ELSE lastSlot

\* After the last event; the locals of the round are gone.
FinishPoll ==
    /\ polling /\ httpTodo = {}
    /\ polling' = FALSE
    /\ lastSlot' = NextStart
    /\ processed' = FALSE
    /\ highest' = 0
    /\ UNCHANGED <<httpRunning, httpTodo, queueVars>>

\* yurei_http_poller_stop, up to the join.
StopPoller ==
    /\ httpRunning' = FALSE
    /\ UNCHANGED <<polling, httpTodo, processed, highest, lastSlot>>

HttpJoined == ~httpRunning /\ ~polling

HttpType ==
    /\ {httpRunning, polling, processed} \subseteq BOOLEAN
    /\ httpTodo \in SUBSET Event
    /\ highest \in Nat
    /\ lastSlot \in Nat
=============================================================================
