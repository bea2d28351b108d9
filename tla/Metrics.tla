------------------------------ MODULE Metrics ------------------------------
(***************************************************************************)
(* src/metrics.c: counters that updaters change without a lock, one atomic *)
(* operation after the other, while main reads them, also one by one, for  *)
(* a line of the log.  The program has one updater, the poller; the        *)
(* interface allows any number.                                            *)
(*                                                                         *)
(* An updater reports every request with its latency, and after a good one *)
(* the bytes of the answer and each event that was accepted.  Nobody ever  *)
(* reports a WebSocket reconnect: that counter stays 0 and is left out.    *)
(* An answer counts for one in "bytes".  The sums stay below 2^64.         *)
(***************************************************************************)
EXTENDS Integers, FiniteSets, Sequences

CONSTANTS
    Updaters,
    Reports,        \* what may be reported: [ok, latency, events]
    Unset,          \* UINT64_MAX
    MaxRequests,    \* bound on the requests of each updater
    MaxEvents       \* bound on the events of one answer

Latencies == {r.latency : r \in Reports}

ASSUME MetricsAssumption ==
    /\ IsFiniteSet(Updaters)
    /\ MaxRequests \in [Updaters -> Nat]
    /\ MaxEvents \in Nat
    /\ Reports \subseteq
          [ok : BOOLEAN, latency : Nat, events : 0 .. MaxEvents]
    /\ \A r \in Reports : r.ok \/ r.events = 0
    /\ Unset \in Nat
    /\ \A latency \in Latencies : latency < Unset

VARIABLES
    metrics,    \* the fields of YureiMetrics
    pc,         \* pc[u]: the next operation of updater u
    report,     \* report[u]: what u still reports
    current,    \* current[u]: its current_min, then its current_max
    requests,   \* history: requests[u]: how many u has begun
    ended,      \* history: the latencies whose extremes are updated
    logPc,      \* the position of main in Reads, 0 if it does not log
    line        \* what main has read for the line

vars == <<metrics, pc, report, current, requests, ended, logPc, line>>

Sums   == {"total", "success", "failed", "sum", "count", "bytes", "events"}
Fields == Sums \cup {"minimum", "maximum"}

BugReads ==
    <<"total", "success", "failed", "events", "bytes", "sum", "count",
      "minimum">>

\* yurei_metrics_log and yurei_metrics_avg_latency_us read in this order; the
\* maximum comes last and is left out of the line.
Reads ==
    <<"total", "success", "failed", "events", "bytes", "count", "sum",
      "minimum">>

NoReport == [ok |-> FALSE, latency |-> 0, events |-> 0]

EmptyLine == [f \in Fields |-> 0]

\* yurei_metrics_init.
Init ==
    /\ metrics = [[f \in Fields |-> 0] EXCEPT !["minimum"] = Unset]
    /\ pc = [u \in Updaters |-> "idle"]
    /\ report = [u \in Updaters |-> NoReport]
    /\ current = [u \in Updaters |-> 0]
    /\ requests = [u \in Updaters |-> 0]
    /\ ended = {}
    /\ logPc = 0
    /\ line = EmptyLine
-----------------------------------------------------------------------------
Goto(u, from, to) == pc[u] = from /\ pc' = [pc EXCEPT ![u] = to]

\* atomic_fetch_add.
Add(u, field, n) ==
    /\ metrics' = [metrics EXCEPT ![field] = @ + n]
    /\ UNCHANGED <<current, requests, ended, logPc, line>>

\* The poller has an answer, or none; what it will report is settled here.
Request(u) ==
    /\ requests[u] < MaxRequests[u]
    /\ requests' = [requests EXCEPT ![u] = @ + 1]
    /\ Goto(u, "idle", "total")
    /\ \E r \in Reports : report' = [report EXCEPT ![u] = r]
    /\ UNCHANGED <<metrics, current, ended, logPc, line>>

Outcome(u) == IF report[u].ok THEN "success" ELSE "failed"

AddRequest(u) ==
    /\ \/ Goto(u, "total", "outcome") /\ Add(u, "total", 1)
       \/ Goto(u, "outcome", "sum") /\ Add(u, Outcome(u), 1)
       \/ Goto(u, "sum", "count") /\ Add(u, "sum", report[u].latency)
       \/ Goto(u, "count", "load_min") /\ Add(u, "count", 1)
    /\ UNCHANGED report

BugMoreEvents(n) == n >= 0

\* The poller's loop over the events it has counted.
MoreEvents(n) == n > 0

\* yurei_metrics_bytes.
AddBytes(u) ==
    /\ Goto(u, "bytes", IF MoreEvents(report[u].events) THEN "events"
                        ELSE "idle")
    /\ Add(u, "bytes", 1)
    /\ UNCHANGED report

\* yurei_metrics_event.
AddEvent(u) ==
    /\ Goto(u, "events", IF MoreEvents(report[u].events - 1) THEN "events"
                         ELSE "idle")
    /\ Add(u, "events", 1)
    /\ report' = [report EXCEPT ![u].events = @ - 1]
-----------------------------------------------------------------------------
(* The loops for the extremes: one for the minimum, one for the maximum.   *)
Better(u, field, value) ==
    IF field = "minimum" THEN report[u].latency < value
    ELSE report[u].latency > value

BugReread(u, field, swap, next) == UNCHANGED <<pc, current>>

\* The field is read and compared, by the load or by a failed exchange.
Reread(u, field, swap, next) ==
    /\ current' = [current EXCEPT ![u] = metrics[field]]
    /\ pc' = [pc EXCEPT ![u] =
                 IF Better(u, field, metrics[field]) THEN swap ELSE next]

Load(u, field, load, swap, next) ==
    /\ pc[u] = load
    /\ Reread(u, field, swap, next)
    /\ UNCHANGED <<metrics, report, requests, ended, logPc, line>>

BugIsCurrent(u, field) == TRUE

IsCurrent(u, field) == metrics[field] = current[u]

\* atomic_compare_exchange_weak, which may fail without a reason.
Swapped(u, field, swap, next) ==
    /\ Goto(u, swap, next)
    /\ IsCurrent(u, field)
    /\ metrics' = [metrics EXCEPT ![field] = report[u].latency]
    /\ UNCHANGED <<report, current, requests, ended, logPc, line>>

SwapFails(u, field, swap, next) ==
    /\ pc[u] = swap
    /\ Reread(u, field, swap, next)
    /\ UNCHANGED <<metrics, report, requests, ended, logPc, line>>

SwapSucceeds(u) ==
    \/ Swapped(u, "minimum", "swap_min", "load_max")
    \/ Swapped(u, "maximum", "swap_max", "return")

UpdateExtreme(u) ==
    \/ Load(u, "minimum", "load_min", "swap_min", "load_max")
    \/ SwapFails(u, "minimum", "swap_min", "load_max")
    \/ Load(u, "maximum", "load_max", "swap_max", "return")
    \/ SwapFails(u, "maximum", "swap_max", "return")
    \/ SwapSucceeds(u)

\* Back in the poller, which has nothing else to report of a failed request,
\* and only bytes and events of a good one.
Return(u) ==
    /\ Goto(u, "return", IF report[u].ok THEN "bytes" ELSE "idle")
    /\ ended' = ended \cup {report[u].latency}
    /\ report' = [report EXCEPT ![u] =
                     [NoReport EXCEPT !.events = report[u].events]]
    /\ current' = [current EXCEPT ![u] = 0]
    /\ UNCHANGED <<metrics, requests, logPc, line>>

Reporting(u) ==
    \/ AddRequest(u) \/ UpdateExtreme(u) \/ Return(u)
    \/ AddBytes(u) \/ AddEvent(u)
-----------------------------------------------------------------------------
ReadNext ==
    /\ logPc < Len(Reads)
    /\ logPc' = logPc + 1
    /\ line' = [line EXCEPT ![Reads[logPc']] = metrics[Reads[logPc']]]
    /\ UNCHANGED <<metrics, pc, report, current, requests, ended>>

Printed == logPc = Len(Reads)

\* The line goes out; the next one starts later.
PrintLine ==
    /\ Printed
    /\ logPc' = 0
    /\ line' = EmptyLine
    /\ UNCHANGED <<metrics, pc, report, current, requests, ended>>

Next ==
    \/ \E u \in Updaters : Request(u) \/ Reporting(u)
    \/ ReadNext \/ PrintLine

Spec == Init /\ [][Next]_vars

(***************************************************************************)
(* The updaters run, and an exchange that could succeed again and again    *)
(* does not fail for ever.                                                 *)
(***************************************************************************)
FairSpec ==
    /\ Spec
    /\ \A u \in Updaters : WF_vars(Reporting(u)) /\ SF_vars(SwapSucceeds(u))
-----------------------------------------------------------------------------
\* The types of the state.
TypeOK ==
    /\ metrics \in [Fields -> Nat]
    /\ pc \in [Updaters -> {"idle", "total", "outcome", "sum", "count",
                            "load_min", "swap_min", "load_max", "swap_max",
                            "return", "bytes", "events"}]
    /\ report \in [Updaters -> [ok : BOOLEAN, latency : Nat,
                                 events : 0 .. MaxEvents]]
    /\ current \in [Updaters -> Nat]
    /\ requests \in [Updaters -> Nat]
    /\ ended \in SUBSET Latencies
    /\ logPc \in 0 .. Len(Reads)
    /\ line \in [Fields -> Nat]

\* No updater's extreme is lost to another one's: the minimum and the maximum
\* bound every latency whose report is over, and are latencies themselves.
NoLostExtreme ==
    /\ \A latency \in ended : /\ metrics["minimum"] <= latency
                              /\ latency <= metrics["maximum"]
    /\ metrics["minimum"] \in Latencies \cup {Unset}
    /\ metrics["maximum"] \in Latencies \cup {0}

Measuring == {"total", "outcome", "sum", "count", "load_min", "swap_min",
              "load_max", "swap_max", "return"}

\* What is still to be reported is at hand.
ReportAtHand(u) ==
    /\ pc[u] \in Measuring => report[u].latency \in Latencies
    /\ pc[u] = "events" => report[u].events > 0

\* An updater swaps only for the better, and leaves a loop only when the
\* extreme is as good as its latency.
LoopsKeepTheirPromise(u) ==
    /\ pc[u] = "swap_min" => report[u].latency < current[u]
    /\ pc[u] = "swap_max" => report[u].latency > current[u]
    /\ pc[u] \in {"load_max", "swap_max", "return"} =>
          metrics["minimum"] <= report[u].latency
    /\ pc[u] = "return" => report[u].latency <= metrics["maximum"]

\* NoLostExtreme with what makes it inductive.
SafeMetrics ==
    /\ TypeOK
    /\ NoLostExtreme
    /\ \A u \in Updaters : ReportAtHand(u) /\ LoopsKeepTheirPromise(u)

PrintedAverage ==
    IF line["count"] = 0 THEN 0 ELSE line["sum"] \div line["count"]

\* What the log may say although no field is read at the time of another:
\* only the requests in flight can be missing from the outcomes, the average
\* is not below every latency there can be, only answers counted in the bytes
\* have events, and only requests in flight can lack a minimum.
LineMakesSense ==
    Printed =>
        /\ line["total"] - line["success"] - line["failed"]
              <= Cardinality(Updaters)
        /\ line["count"] > 0 => \E l \in Latencies : PrintedAverage >= l
        /\ line["events"] <= MaxEvents * line["bytes"]
        /\ line["minimum"] = Unset => line["count"] <= Cardinality(Updaters)

\* The updaters whose next operation is one of these.
At(steps) == {u \in Updaters : pc[u] \in steps}

OutcomeDue == {"outcome"}
CountDue   == {"count"}
MinimumDue == {"load_min", "swap_min"}

\* The events that have been reported for their answer but not counted yet.
Pending == UNION {{u} \X (1 .. report[u].events) : u \in At({"events"})}

LeastLatency(l) == l \in Latencies /\ \A k \in Latencies : l <= k

\* What the sums owe to the updaters between two additions: an outcome,
\* events, a latency that is not in the count yet, a minimum.
OutcomesAgree ==
    metrics["total"] = metrics["success"] + metrics["failed"]
                          + Cardinality(At(OutcomeDue))

EventsAgree ==
    metrics["events"] + Cardinality(Pending) <= MaxEvents * metrics["bytes"]

LatenciesAgree ==
    \A l \in Latencies : LeastLatency(l) =>
        l * (metrics["count"] + Cardinality(At(CountDue))) <= metrics["sum"]

MinimumAgrees ==
    metrics["minimum"] = Unset =>
        metrics["count"] <= Cardinality(At(MinimumDue))

SumsAgree ==
    OutcomesAgree /\ EventsAgree /\ LatenciesAgree /\ MinimumAgrees

\* What the part of the line that has been read says, and what the fields
\* that are still to be read cannot contradict.
LineSoFar ==
    /\ logPc = 1 => line["total"] <= metrics["success"] + metrics["failed"]
                                        + Cardinality(Updaters)
    /\ logPc = 2 => line["total"] <= line["success"] + metrics["failed"]
                                        + Cardinality(Updaters)
    /\ logPc >= 3 => line["total"] <= line["success"] + line["failed"]
                                        + Cardinality(Updaters)
    /\ logPc = 4 => line["events"] <= MaxEvents * metrics["bytes"]
    /\ logPc >= 5 => line["events"] <= MaxEvents * line["bytes"]
    /\ logPc >= 6 => line["count"] <= metrics["count"]
    /\ \A l \in Latencies : LeastLatency(l) =>
          /\ logPc = 6 => l * line["count"] <= metrics["sum"]
          /\ logPc >= 7 => l * line["count"] <= line["sum"]
    /\ logPc = 8 /\ line["minimum"] = Unset =>
          line["count"] <= Cardinality(Updaters)

\* Nothing is counted unless there is something to report.
CountsReports == metrics["count"] > 0 => Latencies # {}

\* LineMakesSense with what makes it inductive.
SafeLine == SafeMetrics /\ SumsAgree /\ CountsReports /\ LineSoFar

\* Every report comes to its end, also among others that keep changing the
\* extremes.
ReportsEnd ==
    \A u \in Updaters : pc[u] # "idle" ~> pc[u] = "idle"
=============================================================================
