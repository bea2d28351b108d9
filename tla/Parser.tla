------------------------------- MODULE Parser -------------------------------
(***************************************************************************)
(* src/parser.c above the decoder: which events a message of the RPC node  *)
(* holds, and how a network thread puts them into the queue.               *)
(*                                                                         *)
(* A message is a record [shape, context, values].  Its values are indexed *)
(* by the position of their transaction in the log of the chain, and come  *)
(* in that order; a value is a record [slot, signature, programId, logs],  *)
(* where an absent item is NoSlot, "" or Null.  A line of its logs is      *)
(* "data" (`Program data:' and a text that decodes), "refused" (a text     *)
(* that decode_base64 refuses) or "other" (no text, no string).            *)
(*                                                                         *)
(* The payload of an event is the pair <<transaction, line>> it came from. *)
(* Names that strcasecmp takes for equal are one string here.  The copy of *)
(* the program's name in the event is left out: nobody reads it.           *)
(***************************************************************************)
EXTENDS Integers, Sequences

CONSTANTS
    PumpfunProgram, RaydiumProgram,     \* of the configuration, "" if unset
    Capacity,                           \* slots of the queue
    NoEvent                             \* not an event

VARIABLES
    items, closed, pushRet, popRet,     \* the queue, see BoundedFifo
    accepted        \* history: accepted[p]: events of p the queue has taken

NoSlot == -1
Null   == "null"

Producers == {"http", "ws"}
Kinds     == {"pumpfun", "raydium", "unknown"}
Event     == [slot : Nat, signature : STRING, kind : Kinds, data : Nat \X Nat]

queueVars == <<items, closed, pushRet, popRet, accepted>>

Queue == INSTANCE BoundedFifo WITH
            Consumers <- {"writer"}, Events <- Event
-----------------------------------------------------------------------------
\* program_to_kind, given what enqueue_event passes for an absent name.  A
\* program that is not configured has no events of its own.
KindOf(programId) ==
    LET name == IF programId = Null THEN PumpfunProgram ELSE programId
    IN  IF name # "" /\ name = PumpfunProgram THEN "pumpfun"
        ELSE IF name # "" /\ name = RaydiumProgram THEN "raydium"
        ELSE "unknown"

\* The slot of a value that has none of its own: the context's (0 without
\* one), but 0 for the values of a bare array.
Fallback(msg) == IF msg.shape = "array" THEN 0 ELSE msg.context

BugSlotOf(msg, i) == msg.values[i].slot

SlotOf(msg, i) ==
    IF msg.values[i].slot = NoSlot THEN Fallback(msg) ELSE msg.values[i].slot

\* The lines the parser walks over; broken JSON and anything that is neither
\* an answer nor a notification has none.
Lines(msg) ==
    IF msg.shape \in {"object", "array", "notification"}
    THEN UNION {{i} \X DOMAIN msg.values[i].logs : i \in DOMAIN msg.values}
    ELSE {}

EventAt(msg, i, l) ==
    [slot      |-> SlotOf(msg, i),
     signature |-> msg.values[i].signature,
     kind      |-> KindOf(msg.values[i].programId),
     data      |-> <<i, l>>]

\* What yurei_parser_handle_message pushes, up to the queue's answers.
EventsOf(msg) ==
    {EventAt(msg, at[1], at[2]) :
        at \in {a \in Lines(msg) : msg.values[a[1]].logs[a[2]] = "data"}}
-----------------------------------------------------------------------------
\* The events of a message are pushed in the order of their lines.
Before(e, f) ==
    \/ e.data[1] < f.data[1]
    \/ e.data[1] = f.data[1] /\ e.data[2] < f.data[2]

IsNext(todo, e) == e \in todo /\ \A f \in todo \ {e} : Before(e, f)

\* The push of enqueue_event.  A full open queue makes the thread wait.
PushAccepted(p, e) ==
    /\ Queue!Accept(p, e)
    /\ accepted' = [accepted EXCEPT ![p] = @ \cup {e}]

PushRefused(p) == Queue!Refuse(p) /\ UNCHANGED accepted

QueueInit == Queue!Init /\ accepted = [p \in Producers |-> {}]

QueueType ==
    /\ items \in Seq(Event) /\ Len(items) <= Capacity
    /\ closed \in BOOLEAN
    /\ pushRet \in [Producers -> {0, -1}]
    /\ popRet \in [{"writer"} -> Event \cup {NoEvent}]
    /\ accepted \in [Producers -> SUBSET Event]
=============================================================================
