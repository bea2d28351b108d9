------------------------------ MODULE Pipeline ------------------------------
(***************************************************************************)
(* The way of an event from the chain to a row: the log of the RPC node,   *)
(* the poller and the WebSocket thread, the queue, the writer and the      *)
(* tables, in mode "dual", with main's shutdown and with kills.            *)
(*                                                                         *)
(* The queue is the abstract one, which EventQueue implements; the starts  *)
(* and stops that can fail are in ClientLifecycle.                         *)
(***************************************************************************)
EXTENDS Parser, FiniteSets

CONSTANTS
    Logs,           \* what the log of the chain may be
    Limit,          \* entries of one answer
    PumpfunTable, RaydiumTable,
    MaxFailures,    \* bound on failed INSERTs
    MaxKills        \* bound on kills of the process

Entry == [slot : Nat \ {0}, signature : STRING, programId : STRING,
          logs : Seq({"data", "refused", "other"})]

ASSUME PipelineAssumption ==
    /\ Capacity \in Nat \ {0}
    /\ Limit \in Nat \ {0}
    /\ MaxFailures \in Nat
    /\ MaxKills \in Nat
    /\ Logs \subseteq Seq(Entry)
    /\ \A log \in Logs : \A i, j \in DOMAIN log :
          i <= j => log[i].slot <= log[j].slot
    /\ {PumpfunTable, RaydiumTable} \subseteq STRING
    /\ NoEvent \notin Event

VARIABLES
    log, confirmed,
    httpRunning, polling, httpTodo, processed, highest, lastSlot,
    wsRunning, wsSeen, wsTodo,
    wrPc, wrRunning, rows, lost, failures,
    mainPc,         \* main's next step of the shutdown
    kills           \* history: how often the process was killed

Http   == INSTANCE HttpPoller
Ws     == INSTANCE WebsocketReceive
Writer == INSTANCE DbWriter

world    == <<log, confirmed, kills>>
httpVars == <<httpRunning, polling, httpTodo, processed, highest, lastSlot>>
wsVars   == <<wsRunning, wsSeen, wsTodo>>
wrVars   == <<wrPc, wrRunning, rows, lost, failures>>
vars     == <<world, mainPc, queueVars, httpVars, wsVars, wrVars>>

Init ==
    /\ log \in Logs
    /\ confirmed = 0
    /\ QueueInit
    /\ Http!HttpInit
    /\ Ws!WsInit
    /\ Writer!WriterInit
    /\ mainPc = "loop"
    /\ kills = 0
-----------------------------------------------------------------------------
Confirm ==
    /\ confirmed < Len(log)
    /\ confirmed' = confirmed + 1
    /\ UNCHANGED <<log, kills, mainPc, queueVars, httpVars, wsVars,
                   wrVars>>

Poll == \E shape \in {"array", "object", "broken"} : Http!Poll(shape)

PollerStep ==
    /\ Poll \/ Http!HttpPush \/ Http!FinishPoll
    /\ UNCHANGED <<world, mainPc, wsVars, wrVars>>

ReceiverStep ==
    /\ Ws!WsPush \/ \E i \in 1 .. confirmed : Ws!Receive(i)
    /\ UNCHANGED <<world, mainPc, httpVars, wrVars>>

WriterStep ==
    /\ \/ Writer!Connect \/ Writer!WriterLoop \/ Writer!WriterPop
       \/ Writer!InsertDone \/ Writer!InsertFails
    /\ UNCHANGED <<world, mainPc, httpVars, wsVars>>
-----------------------------------------------------------------------------
(* main, from the signal on.                                               *)
StopWs ==
    /\ mainPc = "loop" /\ mainPc' = "join_ws"
    /\ Ws!StopWs
    /\ UNCHANGED <<world, queueVars, httpVars, wrVars>>

StopPoller ==
    /\ mainPc = "join_ws" /\ Ws!WsJoined /\ mainPc' = "join_http"
    /\ Http!StopPoller
    /\ UNCHANGED <<world, queueVars, wsVars, wrVars>>

CloseQueue ==
    /\ mainPc = "join_http" /\ Http!HttpJoined /\ mainPc' = "stop_writer"
    /\ Queue!Close
    /\ UNCHANGED <<world, accepted, httpVars, wsVars, wrVars>>

StopWriter ==
    /\ mainPc = "stop_writer" /\ mainPc' = "join_writer"
    /\ Writer!StopWriter
    /\ UNCHANGED <<world, queueVars, httpVars, wsVars>>

Exited == mainPc = "join_writer" /\ wrPc = "ended"

Shutdown ==
    \/ StopWs \/ StopPoller \/ CloseQueue \/ StopWriter
    \/ Exited /\ UNCHANGED vars

\* The process has exited, or is killed anywhere, and is started again: only
\* the tables are left of its state.
NewProcess ==
    /\ kills < MaxKills
    /\ kills' = kills + 1
    /\ mainPc' = "loop"
    /\ items' = <<>> /\ closed' = FALSE
    /\ pushRet' = [p \in Producers |-> 0]
    /\ accepted' = [p \in Producers |-> {}]
    /\ Http!HttpRestarted /\ Ws!WsRestarted /\ Writer!WriterRestarted
    /\ UNCHANGED <<log, confirmed>>

Next ==
    \/ Confirm \/ PollerStep \/ ReceiverStep \/ WriterStep \/ Shutdown
    \/ NewProcess

Spec == Init /\ [][Next]_vars

(***************************************************************************)
(* The endpoint answers requests again and again and PostgreSQL accepts    *)
(* connections and answers; the threads run.  Strong fairness for a push,  *)
(* as in ClientLifecycle.  No notification ever has to come.               *)
(***************************************************************************)
FairSpec ==
    /\ Spec
    /\ \A shape \in {"array", "object"} : SF_vars(
          Http!Poll(shape)
          /\ UNCHANGED <<world, mainPc, wsVars, wrVars>>)
    /\ SF_vars(polling /\ PollerStep)
    /\ SF_vars(wsTodo # {} /\ ReceiverStep)
    /\ WF_vars(WriterStep)
-----------------------------------------------------------------------------
\* The types of the state.
TypeOK ==
    /\ QueueType
    /\ log \in Logs
    /\ confirmed \in 0 .. Len(log)
    /\ Http!HttpType
    /\ Ws!WsType
    /\ wsSeen <= confirmed
    /\ Writer!WriterType
    /\ mainPc \in {"loop", "join_ws", "join_http", "stop_writer",
                   "join_writer"}
    /\ kills \in 0 .. MaxKills

\* The lines of the log that hold an event, up to the n-th entry.
DataLines(n) ==
    UNION {{i} \X {l \in DOMAIN log[i].logs : log[i].logs[l] = "data"} :
              i \in 1 .. n}

Polled == {e.data : e \in accepted["http"]}

\* The poller leaves nothing behind: of every confirmed entry before the
\* slot it would ask for next, all events have been accepted by the queue,
\* although answers are cut off, an entry of a slot can be confirmed after
\* another one of that slot has been polled, and a shutdown can come between.
NothingSkipped ==
    \A at \in DataLines(confirmed) :
        log[at[1]].slot < lastSlot => at \in Polled

\* An event is settled when nothing more will be done for it: its table has
\* a row with its signature (its own or an earlier one's), its INSERT has
\* failed, or it has no table.
Settled(e) ==
    LET table == Writer!TableOf(e.kind)
    IN  \/ table = ""
        \/ \E r \in rows : r.table = table /\ r.signature = e.signature
        \/ e \in lost

\* An event that the queue has accepted is queued, in the writer's hands or
\* settled: those are all the ways in which one can be missing from the
\* tables as long as the process is not killed.
NothingVanishes ==
    \A p \in Producers : \A e \in accepted[p] :
        Settled(e) \/ e = Writer!hand \/ \E k \in DOMAIN items : items[k] = e

\* The rows that tell the truth: slot, signature and payload of one log line,
\* in the table of its program, or in PumpFun's, where everything goes that
\* the WebSocket brings, which does not name the program.
TablesFor(i) ==
    ({PumpfunTable} \ {""}) \cup
    {t \in {RaydiumTable} \ {""} : log[i].programId = RaydiumProgram}

Truths ==
    UNION {{[table |-> t, signature |-> log[at[1]].signature,
             slot |-> log[at[1]].slot, data |-> at] : t \in TablesFor(at[1])} :
              at \in DataLines(confirmed)}

\* An event tells of a confirmed line; its kind is that of the line's program
\* or the one that the WebSocket gives to every line.
TellsTruth(e) ==
    LET i == e.data[1]
    IN  /\ e.data \in DataLines(confirmed)
        /\ e.slot = log[i].slot
        /\ e.signature = log[i].signature
        /\ e.kind \in {KindOf(log[i].programId), KindOf(Null)}

\* Whatever is on its way to the tables tells the truth, and so do they.
OnlyTruths ==
    /\ \A e \in httpTodo \cup wsTodo : TellsTruth(e)
    /\ \A k \in DOMAIN items : TellsTruth(items[k])
    /\ Writer!hand # NoEvent => TellsTruth(Writer!hand)
    /\ rows \subseteq Truths

\* The round has an event of a later slot than entry i's, pushed or not.
Passes(i) ==
    log[i].slot < highest \/ \E e \in httpTodo : log[i].slot < e.slot

\* main closes the queue when the poller's thread has ended.
QueueOutlivesPoller ==
    /\ closed <=> mainPc \in {"stop_writer", "join_writer"}
    /\ closed => Http!HttpJoined

\* What is still to be confirmed is not older than what the poller knows.
LateIsLater ==
    \A i \in DOMAIN log : i > confirmed =>
        lastSlot <= log[i].slot /\ highest <= log[i].slot

\* What the round passes has been accepted or is still to be pushed.
RoundComplete ==
    polling => \A at \in DataLines(confirmed) :
        Passes(at[1]) => at \in Polled \/ \E e \in httpTodo : e.data = at

\* The inductive invariant behind the three invariants and the refinement.
SafePipeline ==
    /\ TypeOK
    /\ OnlyTruths
    /\ QueueOutlivesPoller
    /\ LateIsLater
    /\ RoundComplete
    /\ NothingSkipped
    /\ NothingVanishes

Store == INSTANCE EventStore WITH truths <- Truths

\* The process, its restarts included, is a store of true rows, one for each
\* signature and table, that never changes one: repeated polls, both network
\* threads reporting the same line, and INSERTs of unknown outcome add
\* nothing twice, and nothing of a Raydium program is ever amiss in its table.
ImplementsEventStore == Store!Spec

Stopping == mainPc # "loop"

\* Entries that no poll will ever reach: they follow a full answer that holds
\* no event of a later slot than it was asked for.
OutOfReach(i) ==
    LET window == Http!Window(lastSlot)
    IN  /\ Cardinality(window) = Limit
        /\ \A k \in window : k < i
        /\ \A at \in DataLines(confirmed) :
              at[1] \in window => log[at[1]].slot = lastSlot

\* A running poller delivers every event of the chain, also after kills and
\* of entries confirmed late, except what lies out of its reach.
EverythingPolled ==
    []<>(Stopping \/ \A at \in DataLines(confirmed) :
                        at \in Polled \/ OutOfReach(at[1]))

\* While the process runs, every accepted event is settled in the end: none
\* stays in the queue or in the writer's hands for good.
AcceptedSettles ==
    []<>(Stopping \/ \A p \in Producers : \A e \in accepted[p] : Settled(e))
=============================================================================
