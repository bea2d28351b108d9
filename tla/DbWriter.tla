------------------------------ MODULE DbWriter ------------------------------
(***************************************************************************)
(* writer_thread of src/db_writer.c and the tables of schema.sql.          *)
(*                                                                         *)
(* PostgreSQL is external: the signature is the primary key of each table, *)
(* and an INSERT that fails for the client may have been committed (the    *)
(* connection broke before the result arrived).                            *)
(***************************************************************************)
EXTENDS Parser

CONSTANTS
    PumpfunTable, RaydiumTable,     \* of the configuration, "" if unset
    MaxFailures                     \* bound on failed INSERTs

VARIABLES
    wrPc,       \* "connect", "loop", "pop", "insert" or "ended"
    wrRunning,  \* writer->running
    rows,       \* all rows of the tables
    lost,       \* history: events whose INSERT failed
    failures    \* history: how many INSERTs have failed

\* The writer's local variable `event'.
hand == popRet["writer"]

WriterInit ==
    /\ wrPc = "connect"
    /\ wrRunning = TRUE
    /\ rows = {}
    /\ lost = {}
    /\ failures = 0

\* The writer of a new process: the tables stay as they are.
WriterRestarted ==
    /\ wrPc' = "connect"
    /\ wrRunning' = TRUE
    /\ popRet' = [popRet EXCEPT !["writer"] = NoEvent]
    /\ lost' = {}
    /\ UNCHANGED <<rows, failures>>
-----------------------------------------------------------------------------
TableOf(kind) ==
    CASE kind = "pumpfun" -> PumpfunTable
      [] kind = "raydium" -> RaydiumTable
      [] kind = "unknown" -> ""

RowOf(e) ==
    [table |-> TableOf(e.kind), signature |-> e.signature,
     slot |-> e.slot, data |-> e.data]

BugConflict(e) == \E r \in rows : r.signature = e.signature

Conflict(e) ==
    \E r \in rows : r.table = TableOf(e.kind) /\ r.signature = e.signature

BugInserted(e) ==
    {r \in rows : r.table # TableOf(e.kind) \/ r.signature # e.signature}
        \cup {RowOf(e)}

\* INSERT ... ON CONFLICT DO NOTHING.
Inserted(e) == IF Conflict(e) THEN rows ELSE rows \cup {RowOf(e)}
-----------------------------------------------------------------------------
\* wait_for_connection, tried again and again.
Connect ==
    /\ wrPc = "connect"
    /\ wrPc' = "loop"
    /\ UNCHANGED <<wrRunning, rows, lost, failures, queueVars>>

WriterLoop ==
    /\ wrPc = "loop"
    /\ wrPc' = IF wrRunning THEN "pop" ELSE "ended"
    /\ UNCHANGED <<wrRunning, rows, lost, failures, queueVars>>

WriterPop ==
    /\ wrPc = "pop"
    /\ \/ Queue!Deliver("writer") /\ wrPc' = "insert"
       \/ Queue!Exhausted("writer") /\ wrPc' = "ended"
    /\ UNCHANGED <<wrRunning, rows, lost, failures, accepted>>

\* The event goes out of scope.
DropEvent ==
    /\ popRet' = [popRet EXCEPT !["writer"] = NoEvent]
    /\ UNCHANGED <<items, closed, pushRet, accepted>>

InsertDone ==
    /\ wrPc = "insert"
    /\ wrPc' = "loop"
    /\ rows' = IF TableOf(hand.kind) = "" THEN rows ELSE Inserted(hand)
    /\ DropEvent
    /\ UNCHANGED <<wrRunning, lost, failures>>

BugAfterFailure == "ended"

AfterFailure == "connect"

\* The failed event is not tried again.
InsertFails ==
    /\ wrPc = "insert" /\ TableOf(hand.kind) # ""
    /\ failures < MaxFailures
    /\ failures' = failures + 1
    /\ rows' \in {rows, Inserted(hand)}
    /\ lost' = lost \cup {hand}
    /\ wrPc' = AfterFailure
    /\ DropEvent
    /\ UNCHANGED wrRunning

\* yurei_db_writer_stop, up to the join.
StopWriter ==
    /\ wrRunning' = FALSE
    /\ UNCHANGED <<wrPc, rows, lost, failures>>

Row == [table : {PumpfunTable, RaydiumTable}, signature : STRING,
        slot : Nat, data : Nat \X Nat]

WriterType ==
    /\ wrPc \in {"connect", "loop", "pop", "insert", "ended"}
    /\ wrRunning \in BOOLEAN
    /\ rows \in SUBSET Row
    /\ lost \in SUBSET Event
    /\ failures \in 0 .. MaxFailures
    /\ wrPc = "insert" <=> hand # NoEvent
=============================================================================
