--------------------------- MODULE MetricsProofs ---------------------------
(***************************************************************************)
(* Proofs about Metrics for any updaters and any reports: the loops of     *)
(* weak exchanges lose no minimum and no maximum, however the updaters     *)
(* overtake each other and whenever an exchange fails.                     *)
(***************************************************************************)
EXTENDS Metrics, FiniteSetTheorems, WellFoundedInduction, TLAPS

\* Every value of a report is of its type.
LEMMA ReportTypes ==
    /\ Latencies \subseteq Nat
    /\ \A r \in Reports : /\ r \in [ok : BOOLEAN, latency : Nat,
                                    events : 0 .. MaxEvents]
                          /\ r.latency \in Latencies
BY MetricsAssumption DEF Latencies

\* yurei_metrics_log reads only fields of the structure.
LEMMA ReadsAreFields ==
    /\ Len(Reads) \in Nat
    /\ \A k \in 1 .. Len(Reads) : Reads[k] \in Fields
<1>1. Len(Reads) = 8
  BY DEF Reads
<1>2. \A k \in 1 .. 8 : Reads[k] \in Fields
  BY DEF Reads, Fields, Sums
<1> QED
  BY <1>1, <1>2

\* yurei_metrics_init leaves nothing to be lost.
LEMMA InitSafe == Init => SafeMetrics
<1> SUFFICES ASSUME Init PROVE SafeMetrics
  OBVIOUS
<1> USE DEF Init
<1>1. TypeOK
  <2>1. metrics \in [Fields -> Nat] /\ line \in [Fields -> Nat]
    BY MetricsAssumption DEF EmptyLine, Fields, Sums
  <2>2. NoReport \in [ok : BOOLEAN, latency : Nat, events : 0 .. MaxEvents]
    BY MetricsAssumption DEF NoReport
  <2> QED
    BY <2>1, <2>2, ReadsAreFields DEF TypeOK
<1>2. NoLostExtreme
  BY DEF NoLostExtreme, Fields, Sums
<1>3. \A u \in Updaters : ReportAtHand(u) /\ LoopsKeepTheirPromise(u)
  BY DEF ReportAtHand, LoopsKeepTheirPromise, Measuring
<1> QED
  BY <1>1, <1>2, <1>3 DEF SafeMetrics

\* What a step of an updater may do to the extremes.
ExtremesImprove ==
    /\ metrics'["minimum"] <= metrics["minimum"]
    /\ metrics'["maximum"] >= metrics["maximum"]
    /\ metrics'["minimum"] \in Latencies \cup {Unset}
    /\ metrics'["maximum"] \in Latencies \cup {0}

\* Invariants of an updater that a step of another one leaves alone.
LEMMA OthersKeepTheirs ==
    ASSUME SafeMetrics, ExtremesImprove, metrics' \in [Fields -> Nat],
           NEW v \in Updaters,
           pc'[v] = pc[v], report'[v] = report[v], current'[v] = current[v]
    PROVE  ReportAtHand(v)' /\ LoopsKeepTheirPromise(v)'
<1>1. ReportAtHand(v) /\ LoopsKeepTheirPromise(v)
  BY DEF SafeMetrics
<1>2. ReportAtHand(v)'
  BY <1>1 DEF ReportAtHand
<1>3. /\ report[v].latency \in Nat
      /\ metrics["minimum"] \in Nat /\ metrics'["minimum"] \in Nat
      /\ metrics["maximum"] \in Nat /\ metrics'["maximum"] \in Nat
  BY DEF SafeMetrics, TypeOK, Fields, Sums
<1>4. LoopsKeepTheirPromise(v)'
  BY <1>1, <1>3 DEF LoopsKeepTheirPromise, ExtremesImprove
<1> QED
  BY <1>2, <1>4

\* What is left to show of a step of updater u.
StepOf(u) ==
    /\ TypeOK'
    /\ ExtremesImprove
    /\ ReportAtHand(u)' /\ LoopsKeepTheirPromise(u)'
    /\ \A v \in Updaters \ {u} : /\ pc'[v] = pc[v]
                                 /\ report'[v] = report[v]
                                 /\ current'[v] = current[v]
    /\ \A l \in ended' : l \in ended \/ /\ metrics'["minimum"] <= l
                                        /\ l <= metrics'["maximum"]

\* That much is enough.
LEMMA StepSuffices ==
    ASSUME SafeMetrics, NEW u \in Updaters, StepOf(u)
    PROVE  SafeMetrics'
<1> USE DEF StepOf
<1>1. metrics' \in [Fields -> Nat]
  BY DEF TypeOK
<1>2. \A v \in Updaters : ReportAtHand(v)' /\ LoopsKeepTheirPromise(v)'
  <2> SUFFICES ASSUME NEW v \in Updaters
               PROVE  ReportAtHand(v)' /\ LoopsKeepTheirPromise(v)'
    OBVIOUS
  <2> QED
    BY <1>1, OthersKeepTheirs
<1>3. NoLostExtreme'
  <2>1. /\ metrics["minimum"] \in Nat /\ metrics'["minimum"] \in Nat
        /\ metrics["maximum"] \in Nat /\ metrics'["maximum"] \in Nat
        /\ ended \subseteq Nat /\ ended' \subseteq Nat
    BY <1>1, ReportTypes DEF SafeMetrics, TypeOK, Fields, Sums
  <2>2. \A l \in ended : /\ metrics["minimum"] <= l
                         /\ l <= metrics["maximum"]
    BY DEF SafeMetrics, NoLostExtreme
  <2>3. ASSUME NEW l \in ended'
        PROVE  metrics'["minimum"] <= l /\ l <= metrics'["maximum"]
    BY <2>1, <2>2 DEF ExtremesImprove
  <2> QED
    BY <2>3 DEF NoLostExtreme, ExtremesImprove
<1> QED
  BY <1>2, <1>3 DEF SafeMetrics

\* The state of one updater, and the extremes, as numbers.
LEMMA StateOf ==
    ASSUME SafeMetrics, NEW u \in Updaters
    PROVE  /\ report[u] \in [ok : BOOLEAN, latency : Nat,
                             events : 0 .. MaxEvents]
           /\ current[u] \in Nat
           /\ metrics \in [Fields -> Nat]
           /\ metrics["minimum"] \in Nat /\ metrics["maximum"] \in Nat
           /\ metrics["minimum"] \in Latencies \cup {Unset}
           /\ metrics["maximum"] \in Latencies \cup {0}
           /\ ReportAtHand(u) /\ LoopsKeepTheirPromise(u)
BY DEF SafeMetrics, TypeOK, NoLostExtreme, Fields, Sums

\* A new request: its latency is one there can be.
LEMMA RequestSafe ==
    ASSUME SafeMetrics, NEW u \in Updaters, Request(u)
    PROVE  StepOf(u)
<1> USE DEF Request, Goto
<1>1. PICK r \in Reports : report' = [report EXCEPT ![u] = r]
  OBVIOUS
<1>2. TypeOK'
  <2>1. requests' \in [Updaters -> Nat]
    BY DEF SafeMetrics, TypeOK
  <2>2. report' \in [Updaters -> [ok : BOOLEAN, latency : Nat,
                                  events : 0 .. MaxEvents]]
    BY <1>1, ReportTypes DEF SafeMetrics, TypeOK
  <2> QED
    BY <2>1, <2>2 DEF SafeMetrics, TypeOK
<1>3. pc'[u] = "total" /\ report'[u] = r
  BY <1>1 DEF SafeMetrics, TypeOK
<1>4. ReportAtHand(u)' /\ LoopsKeepTheirPromise(u)'
  BY <1>3, ReportTypes DEF ReportAtHand, LoopsKeepTheirPromise
<1>5. ExtremesImprove
  BY StateOf DEF ExtremesImprove
<1> QED
  BY <1>1, <1>2, <1>4, <1>5 DEF StepOf, SafeMetrics, TypeOK

\* An atomic addition to a sum leaves the extremes alone.
LEMMA AddSafe ==
    ASSUME SafeMetrics, NEW u \in Updaters, NEW f \in Sums, NEW n \in Nat,
           Add(u, f, n)
    PROVE  metrics' \in [Fields -> Nat] /\ ExtremesImprove
<1>1. metrics' = [metrics EXCEPT ![f] = @ + n]
  BY DEF Add
<1>2. f \in Fields /\ f # "minimum" /\ f # "maximum"
  BY DEF Fields, Sums
<1>3. metrics \in [Fields -> Nat]
  BY StateOf
<1>4. metrics' \in [Fields -> Nat]
  BY <1>1, <1>2, <1>3
<1>5. metrics'["minimum"] = metrics["minimum"]
      /\ metrics'["maximum"] = metrics["maximum"]
  BY <1>1, <1>2, <1>3 DEF Fields
<1> QED
  BY <1>4, <1>5, StateOf DEF ExtremesImprove

\* An addition on the way from one operation to the next one before the loops,
\* or behind them.
LEMMA AddAndGoOn ==
    ASSUME SafeMetrics, NEW u \in Updaters, NEW f \in Sums, NEW n \in Nat,
           Add(u, f, n), NEW from, NEW to,
           to \in {"outcome", "sum", "count", "load_min", "events", "idle"},
           from \in Measuring \/ to \in {"events", "idle"},
           Goto(u, from, to),
           report' \in [Updaters -> [ok : BOOLEAN, latency : Nat,
                                     events : 0 .. MaxEvents]],
           \A v \in Updaters \ {u} : report'[v] = report[v],
           report'[u].latency = report[u].latency,
           to = "events" => report'[u].events > 0
    PROVE  StepOf(u)
<1> USE DEF Goto
<1>1. metrics' \in [Fields -> Nat] /\ ExtremesImprove
  BY AddSafe
<1>2. pc[u] = from /\ pc'[u] = to /\ pc' = [pc EXCEPT ![u] = to]
  BY DEF SafeMetrics, TypeOK
<1>3. TypeOK'
  BY <1>1, <1>2 DEF SafeMetrics, TypeOK, Add
<1>4. ReportAtHand(u)' /\ LoopsKeepTheirPromise(u)'
  BY <1>2, StateOf DEF ReportAtHand, LoopsKeepTheirPromise, Measuring
<1>5. \A v \in Updaters \ {u} : pc'[v] = pc[v] /\ current'[v] = current[v]
  BY <1>2 DEF SafeMetrics, TypeOK, Add
<1> QED
  BY <1>1, <1>3, <1>4, <1>5 DEF StepOf, Add

\* The four counts of yurei_metrics_request.
LEMMA AddRequestSafe ==
    ASSUME SafeMetrics, NEW u \in Updaters, AddRequest(u)
    PROVE  StepOf(u)
<1>1. /\ report' \in [Updaters -> [ok : BOOLEAN, latency : Nat,
                                   events : 0 .. MaxEvents]]
      /\ \A v \in Updaters \ {u} : report'[v] = report[v]
      /\ report'[u].latency = report[u].latency
      /\ report[u].latency \in Nat
  BY StateOf DEF SafeMetrics, TypeOK, AddRequest
<1>2. CASE Goto(u, "total", "outcome") /\ Add(u, "total", 1)
  BY <1>1, <1>2, AddAndGoOn DEF Measuring, Sums
<1>3. CASE Goto(u, "outcome", "sum") /\ Add(u, Outcome(u), 1)
  <2>1. Outcome(u) \in Sums
    BY DEF Outcome, Sums
  <2> QED
    BY <1>1, <1>3, <2>1, AddAndGoOn DEF Measuring
<1>4. CASE Goto(u, "sum", "count") /\ Add(u, "sum", report[u].latency)
  BY <1>1, <1>4, AddAndGoOn DEF Measuring, Sums
<1>5. CASE Goto(u, "count", "load_min") /\ Add(u, "count", 1)
  BY <1>1, <1>5, AddAndGoOn DEF Measuring, Sums
<1> QED
  BY <1>2, <1>3, <1>4, <1>5 DEF AddRequest

\* yurei_metrics_bytes.
LEMMA AddBytesSafe ==
    ASSUME SafeMetrics, NEW u \in Updaters, AddBytes(u)
    PROVE  StepOf(u)
<1>1. /\ report' \in [Updaters -> [ok : BOOLEAN, latency : Nat,
                                   events : 0 .. MaxEvents]]
      /\ \A v \in Updaters \ {u} : report'[v] = report[v]
      /\ report'[u] = report[u]
  BY DEF SafeMetrics, TypeOK, AddBytes
<1>2. CASE MoreEvents(report[u].events)
  <2>1. Goto(u, "bytes", "events") /\ Add(u, "bytes", 1)
    BY <1>2 DEF AddBytes
  <2>2. report'[u].events > 0
    BY <1>1, <1>2 DEF MoreEvents
  <2> QED
    BY <1>1, <2>1, <2>2, AddAndGoOn DEF Sums
<1>3. CASE ~MoreEvents(report[u].events)
  <2>1. Goto(u, "bytes", "idle") /\ Add(u, "bytes", 1)
    BY <1>3 DEF AddBytes
  <2> QED
    BY <1>1, <2>1, AddAndGoOn DEF Sums
<1> QED
  BY <1>2, <1>3

\* yurei_metrics_event: there is one to count whenever it is called.
LEMMA AddEventSafe ==
    ASSUME SafeMetrics, NEW u \in Updaters, AddEvent(u)
    PROVE  StepOf(u)
<1>1. /\ report[u].events \in 0 .. MaxEvents /\ report[u].events > 0
      /\ report[u] \in [ok : BOOLEAN, latency : Nat, events : 0 .. MaxEvents]
  BY StateOf DEF AddEvent, Goto, ReportAtHand
<1>2. report[u].events - 1 \in 0 .. MaxEvents
  BY <1>1, MetricsAssumption
<1>3. report' = [report EXCEPT ![u].events = report[u].events - 1]
  BY DEF AddEvent
<1>4. /\ report' \in [Updaters -> [ok : BOOLEAN, latency : Nat,
                                   events : 0 .. MaxEvents]]
      /\ \A v \in Updaters \ {u} : report'[v] = report[v]
      /\ report'[u].latency = report[u].latency
      /\ report'[u].events = report[u].events - 1
  BY <1>1, <1>2, <1>3 DEF SafeMetrics, TypeOK
<1>5. CASE MoreEvents(report[u].events - 1)
  <2>1. Goto(u, "events", "events") /\ Add(u, "events", 1)
    BY <1>5 DEF AddEvent
  <2>2. report'[u].events > 0
    BY <1>4, <1>5 DEF MoreEvents
  <2> QED
    BY <1>4, <2>1, <2>2, AddAndGoOn DEF Sums
<1>6. CASE ~MoreEvents(report[u].events - 1)
  <2>1. Goto(u, "events", "idle") /\ Add(u, "events", 1)
    BY <1>6 DEF AddEvent
  <2> QED
    BY <1>4, <2>1, AddAndGoOn DEF Sums
<1> QED
  BY <1>5, <1>6

\* A load or a failed exchange: the updater swaps, or goes on past the loop.
LEMMA RereadSafe ==
    ASSUME SafeMetrics, NEW u \in Updaters, pc[u] \in Measuring,
           UNCHANGED <<metrics, report, requests, ended, logPc, line>>,
           \/ /\ Reread(u, "minimum", "swap_min", "load_max")
           \/ /\ Reread(u, "maximum", "swap_max", "return")
              /\ metrics["minimum"] <= report[u].latency
    PROVE  StepOf(u)
<1>1. /\ report[u].latency \in Nat /\ report[u].latency \in Latencies
      /\ metrics["minimum"] \in Nat /\ metrics["maximum"] \in Nat
  BY StateOf DEF ReportAtHand
<1>2. /\ \E step \in {"swap_min", "load_max", "swap_max", "return"} :
            pc' = [pc EXCEPT ![u] = step]
      /\ \E n \in Nat : current' = [current EXCEPT ![u] = n]
      /\ \A v \in Updaters \ {u} : pc'[v] = pc[v] /\ current'[v] = current[v]
  BY <1>1 DEF SafeMetrics, TypeOK, Reread
<1>3. TypeOK'
  BY <1>1, <1>2 DEF SafeMetrics, TypeOK, Reread
<1>4. ExtremesImprove
  BY StateOf DEF ExtremesImprove
<1>5. CASE Reread(u, "minimum", "swap_min", "load_max")
  <2>1. /\ current'[u] = metrics["minimum"]
        /\ pc'[u] = IF report[u].latency < metrics["minimum"]
                    THEN "swap_min" ELSE "load_max"
    BY <1>5 DEF Reread, Better, SafeMetrics, TypeOK
  <2>2. ReportAtHand(u)' /\ LoopsKeepTheirPromise(u)'
    BY <1>1, <2>1 DEF ReportAtHand, LoopsKeepTheirPromise
  <2> QED
    BY <1>2, <1>3, <1>4, <2>2 DEF StepOf
<1>6. CASE /\ Reread(u, "maximum", "swap_max", "return")
           /\ metrics["minimum"] <= report[u].latency
  <2>1. /\ current'[u] = metrics["maximum"]
        /\ pc'[u] = IF report[u].latency > metrics["maximum"]
                    THEN "swap_max" ELSE "return"
    BY <1>6 DEF Reread, Better, SafeMetrics, TypeOK
  <2>2. ReportAtHand(u)' /\ LoopsKeepTheirPromise(u)'
    BY <1>1, <1>6, <2>1 DEF ReportAtHand, LoopsKeepTheirPromise
  <2> QED
    BY <1>2, <1>3, <1>4, <2>2 DEF StepOf
<1> QED
  BY <1>5, <1>6

\* A successful exchange: the value it replaces is the one that was compared,
\* so the extreme only gets better.
LEMMA SwapSafe ==
    ASSUME SafeMetrics, NEW u \in Updaters, SwapSucceeds(u)
    PROVE  StepOf(u)
<1> DEFINE l == report[u].latency
<1>1. /\ pc[u] \in {"swap_min", "swap_max"}
      /\ l \in Nat /\ l \in Latencies
      /\ metrics["minimum"] \in Nat /\ metrics["maximum"] \in Nat
      /\ metrics \in [Fields -> Nat]
  BY StateOf DEF SwapSucceeds, Swapped, Goto, ReportAtHand, Measuring
<1>2. CASE Swapped(u, "minimum", "swap_min", "load_max")
  <2>1. metrics["minimum"] = current[u] /\ l < current[u]
    BY <1>2, StateOf DEF Swapped, IsCurrent, Goto, LoopsKeepTheirPromise
  <2>2. /\ metrics' = [metrics EXCEPT !["minimum"] = l]
        /\ pc' = [pc EXCEPT ![u] = "load_max"]
        /\ UNCHANGED <<report, current, requests, ended, logPc, line>>
    BY <1>2 DEF Swapped, Goto
  <2>3. /\ metrics'["minimum"] = l
        /\ metrics'["maximum"] = metrics["maximum"]
        /\ metrics' \in [Fields -> Nat]
    BY <1>1, <2>2 DEF Fields
  <2>4. ExtremesImprove
    BY <1>1, <2>1, <2>3, StateOf DEF ExtremesImprove
  <2>5. pc'[u] = "load_max"
        /\ \A v \in Updaters \ {u} : pc'[v] = pc[v]
    BY <2>2 DEF SafeMetrics, TypeOK
  <2>6. TypeOK'
    BY <2>2, <2>3 DEF SafeMetrics, TypeOK
  <2>7. ReportAtHand(u)' /\ LoopsKeepTheirPromise(u)'
    BY <1>1, <2>2, <2>3, <2>5 DEF ReportAtHand, LoopsKeepTheirPromise
  <2> QED
    BY <2>2, <2>4, <2>5, <2>6, <2>7 DEF StepOf
<1>3. CASE Swapped(u, "maximum", "swap_max", "return")
  <2>1. /\ metrics["maximum"] = current[u] /\ l > current[u]
        /\ metrics["minimum"] <= l
    BY <1>3, StateOf DEF Swapped, IsCurrent, Goto, LoopsKeepTheirPromise
  <2>2. /\ metrics' = [metrics EXCEPT !["maximum"] = l]
        /\ pc' = [pc EXCEPT ![u] = "return"]
        /\ UNCHANGED <<report, current, requests, ended, logPc, line>>
    BY <1>3 DEF Swapped, Goto
  <2>3. /\ metrics'["maximum"] = l
        /\ metrics'["minimum"] = metrics["minimum"]
        /\ metrics' \in [Fields -> Nat]
    BY <1>1, <2>2 DEF Fields
  <2>4. ExtremesImprove
    BY <1>1, <2>1, <2>3, StateOf DEF ExtremesImprove
  <2>5. pc'[u] = "return"
        /\ \A v \in Updaters \ {u} : pc'[v] = pc[v]
    BY <2>2 DEF SafeMetrics, TypeOK
  <2>6. TypeOK'
    BY <2>2, <2>3 DEF SafeMetrics, TypeOK
  <2>7. ReportAtHand(u)' /\ LoopsKeepTheirPromise(u)'
    BY <1>1, <2>1, <2>2, <2>3, <2>5 DEF ReportAtHand, LoopsKeepTheirPromise
  <2> QED
    BY <2>2, <2>4, <2>5, <2>6, <2>7 DEF StepOf
<1> QED
  BY <1>2, <1>3 DEF SwapSucceeds

\* Both loops.
LEMMA UpdateExtremeSafe ==
    ASSUME SafeMetrics, NEW u \in Updaters, UpdateExtreme(u)
    PROVE  StepOf(u)
<1>1. CASE Load(u, "minimum", "load_min", "swap_min", "load_max")
  BY <1>1, RereadSafe DEF Load, Measuring
<1>2. CASE SwapFails(u, "minimum", "swap_min", "load_max")
  BY <1>2, RereadSafe DEF SwapFails, Measuring
<1>3. CASE Load(u, "maximum", "load_max", "swap_max", "return")
  <2>1. metrics["minimum"] <= report[u].latency
    BY <1>3, StateOf DEF Load, LoopsKeepTheirPromise
  <2> QED
    BY <1>3, <2>1, RereadSafe DEF Load, Measuring
<1>4. CASE SwapFails(u, "maximum", "swap_max", "return")
  <2>1. metrics["minimum"] <= report[u].latency
    BY <1>4, StateOf DEF SwapFails, LoopsKeepTheirPromise
  <2> QED
    BY <1>4, <2>1, RereadSafe DEF SwapFails, Measuring
<1>5. CASE SwapSucceeds(u)
  BY <1>5, SwapSafe
<1> QED
  BY <1>1, <1>2, <1>3, <1>4, <1>5 DEF UpdateExtreme

\* The end of yurei_metrics_request: both loops have kept their promise.
LEMMA ReturnSafe ==
    ASSUME SafeMetrics, NEW u \in Updaters, Return(u)
    PROVE  StepOf(u)
<1> DEFINE rest == [NoReport EXCEPT !.events = report[u].events]
<1>1. /\ report[u].latency \in Latencies
      /\ metrics["minimum"] <= report[u].latency
      /\ report[u].latency <= metrics["maximum"]
      /\ report[u].events \in 0 .. MaxEvents
  BY StateOf DEF Return, Goto, ReportAtHand, LoopsKeepTheirPromise, Measuring
<1>2. rest \in [ok : BOOLEAN, latency : Nat, events : 0 .. MaxEvents]
  BY <1>1 DEF NoReport
<1>3. /\ pc' = [pc EXCEPT ![u] = IF report[u].ok THEN "bytes" ELSE "idle"]
      /\ report' = [report EXCEPT ![u] = rest]
      /\ current' = [current EXCEPT ![u] = 0]
      /\ ended' = ended \cup {report[u].latency}
      /\ UNCHANGED <<metrics, requests, logPc, line>>
  BY DEF Return, Goto
<1>4. pc'[u] \in {"bytes", "idle"}
  BY <1>3 DEF SafeMetrics, TypeOK
<1>5. TypeOK'
  BY <1>1, <1>2, <1>3 DEF SafeMetrics, TypeOK
<1>6. ReportAtHand(u)' /\ LoopsKeepTheirPromise(u)'
  BY <1>4 DEF ReportAtHand, LoopsKeepTheirPromise, Measuring
<1>7. ExtremesImprove
  BY <1>3, StateOf DEF ExtremesImprove
<1>8. \A v \in Updaters \ {u} : /\ pc'[v] = pc[v]
                                /\ report'[v] = report[v]
                                /\ current'[v] = current[v]
  BY <1>3 DEF SafeMetrics, TypeOK
<1> QED
  BY <1>1, <1>3, <1>5, <1>6, <1>7, <1>8 DEF StepOf

\* main only reads.
LEMMA LogSafe ==
    ASSUME SafeMetrics, ReadNext \/ PrintLine
    PROVE  SafeMetrics'
<1>1. UNCHANGED <<metrics, pc, report, current, requests, ended>>
  BY DEF ReadNext, PrintLine
<1>2. TypeOK'
  <2>1. CASE ReadNext
    <3>1. logPc' \in 1 .. Len(Reads)
      BY <2>1, ReadsAreFields DEF SafeMetrics, TypeOK, ReadNext
    <3>2. Reads[logPc'] \in Fields
      BY <3>1, ReadsAreFields
    <3>3. line' \in [Fields -> Nat]
      BY <2>1, <3>2 DEF SafeMetrics, TypeOK, ReadNext
    <3> QED
      BY <1>1, <3>1, <3>3 DEF SafeMetrics, TypeOK
  <2>2. CASE PrintLine
    BY <1>1, <2>2, ReadsAreFields
       DEF SafeMetrics, TypeOK, PrintLine, EmptyLine
  <2> QED
    BY <2>1, <2>2
<1>3. NoLostExtreme'
  BY <1>1 DEF SafeMetrics, NoLostExtreme
<1>4. \A u \in Updaters : ReportAtHand(u)' /\ LoopsKeepTheirPromise(u)'
  BY <1>1 DEF SafeMetrics, ReportAtHand, LoopsKeepTheirPromise
<1> QED
  BY <1>2, <1>3, <1>4 DEF SafeMetrics

\* Every step keeps the invariant.
LEMMA NextSafe == SafeMetrics /\ [Next]_vars => SafeMetrics'
<1> SUFFICES ASSUME SafeMetrics, [Next]_vars PROVE SafeMetrics'
  OBVIOUS
<1>1. ASSUME NEW u \in Updaters, Request(u) PROVE SafeMetrics'
  BY <1>1, RequestSafe, StepSuffices
<1>2. ASSUME NEW u \in Updaters, Reporting(u) PROVE SafeMetrics'
  <2>1. StepOf(u)
    BY <1>2, AddRequestSafe, UpdateExtremeSafe, ReturnSafe, AddBytesSafe,
       AddEventSafe DEF Reporting
  <2> QED
    BY <2>1, StepSuffices
<1>3. CASE ReadNext \/ PrintLine
  BY <1>3, LogSafe
<1>4. CASE UNCHANGED vars
  BY <1>4 DEF vars, SafeMetrics, TypeOK, NoLostExtreme, ReportAtHand,
              LoopsKeepTheirPromise
<1> QED
  BY <1>1, <1>2, <1>3, <1>4 DEF Next

\* The inductive invariant of the loops, for any number of updaters.
THEOREM MetricsSafe == Spec => []SafeMetrics
BY InitSafe, NextSafe, PTL DEF Spec

\* The fields and the locals of all threads keep their types.
THEOREM MetricsTypes == Spec => []TypeOK
<1>1. SafeMetrics => TypeOK
  BY DEF SafeMetrics
<1> QED
  BY <1>1, MetricsSafe, PTL

\* No minimum and no maximum that has been reported is ever lost, for any
\* number of updaters that overtake each other anywhere in their loops.
THEOREM ExtremesStay == Spec => []NoLostExtreme
<1>1. SafeMetrics => NoLostExtreme
  BY DEF SafeMetrics
<1> QED
  BY <1>1, MetricsSafe, PTL
-----------------------------------------------------------------------------
(* What the sums owe to the updaters.                                      *)

\* There are finitely many updaters at any set of operations.
LEMMA AtIsFinite ==
    /\ Cardinality(Updaters) \in Nat
    /\ \A S : /\ IsFiniteSet(At(S))
              /\ Cardinality(At(S)) \in Nat
              /\ Cardinality(At(S)) <= Cardinality(Updaters)
<1>1. IsFiniteSet(Updaters)
  BY MetricsAssumption
<1>2. \A S : At(S) \in SUBSET Updaters
  BY DEF At
<1> QED
  BY <1>1, <1>2, FS_Subset, FS_CardinalityType

\* How many there are after one of them has moved on.
LEMMA AtMoves ==
    ASSUME SafeMetrics, NEW u \in Updaters, NEW to,
           pc' = [pc EXCEPT ![u] = to], NEW S
    PROVE  /\ pc[u] \notin S /\ to \in S =>
                 Cardinality(At(S))' = Cardinality(At(S)) + 1
           /\ pc[u] \in S /\ to \notin S =>
                 Cardinality(At(S))' = Cardinality(At(S)) - 1
           /\ (pc[u] \in S <=> to \in S) =>
                 Cardinality(At(S))' = Cardinality(At(S))
<1>1. pc'[u] = to /\ \A v \in Updaters \ {u} : pc'[v] = pc[v]
  BY DEF SafeMetrics, TypeOK
<1>2. CASE pc[u] \notin S /\ to \in S
  <2>1. At(S)' = At(S) \cup {u} /\ u \notin At(S)
    BY <1>1, <1>2 DEF At
  <2> QED
    BY <1>2, <2>1, AtIsFinite, FS_AddElement
<1>3. CASE pc[u] \in S /\ to \notin S
  <2>1. At(S)' = At(S) \ {u} /\ u \in At(S)
    BY <1>1, <1>3 DEF At
  <2> QED
    BY <1>3, <2>1, AtIsFinite, FS_RemoveElement
<1>4. CASE pc[u] \in S <=> to \in S
  <2>1. At(S)' = At(S)
    BY <1>1, <1>4 DEF At
  <2> QED
    BY <1>4, <2>1
<1> QED
  BY <1>2, <1>3, <1>4

\* What is pending, as a set of pairs, and that it is finite.
LEMMA PendingIsFinite ==
    ASSUME SafeMetrics
    PROVE  /\ \A v, k : <<v, k>> \in Pending <=>
                 /\ v \in Updaters /\ pc[v] = "events"
                 /\ k \in 1 .. report[v].events
           /\ Pending \in SUBSET (Updaters \X (1 .. MaxEvents))
           /\ IsFiniteSet(Pending) /\ Cardinality(Pending) \in Nat
<1>1. \A x : x \in Pending <=>
         \E v \in Updaters : /\ pc[v] = "events"
                             /\ x \in {v} \X (1 .. report[v].events)
  <2> DEFINE P(v) == {v} \X (1 .. report[v].events)
  <2>1. \A x : x \in Pending <=> \E v \in At({"events"}) : x \in P(v)
    <3> HIDE DEF P
    <3> QED
      BY DEF Pending, P
  <2> QED
    BY <2>1 DEF At
<1>2. \A v \in Updaters : report[v].events \in 0 .. MaxEvents
  <2> SUFFICES ASSUME NEW v \in Updaters
               PROVE  report[v].events \in 0 .. MaxEvents
    OBVIOUS
  <2> QED
    BY StateOf
<1>3. Pending \in SUBSET (Updaters \X (1 .. MaxEvents))
  <2> SUFFICES ASSUME NEW x \in Pending
               PROVE  x \in Updaters \X (1 .. MaxEvents)
    OBVIOUS
  <2>1. PICK v \in Updaters : x \in {v} \X (1 .. report[v].events)
    BY <1>1
  <2>2. 1 .. report[v].events \subseteq 1 .. MaxEvents
    BY <1>2, MetricsAssumption
  <2> QED
    BY <2>1, <2>2
<1>4. IsFiniteSet(Updaters \X (1 .. MaxEvents))
  <2>1. IsFiniteSet(1 .. MaxEvents) /\ IsFiniteSet(Updaters)
    BY FS_Interval, MetricsAssumption
  <2> QED
    BY <2>1, FS_Product
<1>5. IsFiniteSet(Pending) /\ Cardinality(Pending) \in Nat
  BY <1>3, <1>4, FS_Subset, FS_CardinalityType
<1> QED
  BY <1>1, <1>3, <1>5

\* An updater that does not count events has nothing pending.
LEMMA PendingStays ==
    ASSUME SafeMetrics, NEW u \in Updaters, NEW to,
           pc' = [pc EXCEPT ![u] = to],
           pc[u] # "events", to # "events",
           \A v \in Updaters \ {u} : report'[v] = report[v]
    PROVE  Pending' = Pending
<1>1. /\ pc'[u] = to
      /\ \A v \in Updaters \ {u} : pc'[v] = pc[v]
  BY DEF SafeMetrics, TypeOK
<1>2. /\ At({"events"})' = At({"events"}) /\ u \notin At({"events"})
      /\ At({"events"}) \subseteq Updaters
  BY <1>1 DEF At
<1>3. \A v \in At({"events"}) : report'[v] = report[v]
  BY <1>2
<1> QED
  BY <1>2, <1>3 DEF Pending

\* Products of natural numbers.
LEMMA Scale ==
    ASSUME NEW l \in Nat, NEW a \in Nat
    PROVE  /\ l * a \in Nat
           /\ l * (a + 1) = l * a + l
           /\ \A b \in Nat : a <= b => l * a <= l * b
<1>1. l * a \in Nat /\ l * (a + 1) = l * a + l
  OBVIOUS
<1>2. ASSUME NEW b \in Nat, a <= b
      PROVE  l * a <= l * b
  <2>1. PICK d \in Nat : b = a + d
    BY <1>2
  <2>2. l * b = l * a + l * d /\ l * d \in Nat
    BY <2>1
  <2> QED
    BY <1>1, <2>2
<1> QED
  BY <1>1, <1>2

\* What main can rely on between two of its reads.
SumsGrow == \A f \in Sums : metrics[f] <= metrics'[f]

\* An addition changes one field.
LEMMA AddNumbers ==
    ASSUME SafeMetrics, NEW u, NEW f \in Sums, NEW n \in Nat, Add(u, f, n)
    PROVE  /\ metrics'[f] = metrics[f] + n
           /\ \A g \in Fields \ {f} : metrics'[g] = metrics[g]
           /\ \A g \in Fields : metrics[g] \in Nat /\ metrics'[g] \in Nat
           /\ SumsGrow
           /\ metrics'["minimum"] = metrics["minimum"]
<1>1. /\ metrics \in [Fields -> Nat]
      /\ metrics' = [metrics EXCEPT ![f] = @ + n]
      /\ f \in Fields /\ f # "minimum" /\ "minimum" \in Fields
  BY DEF SafeMetrics, TypeOK, Add, Fields, Sums
<1>2. /\ metrics'[f] = metrics[f] + n
      /\ \A g \in Fields \ {f} : metrics'[g] = metrics[g]
  BY <1>1
<1>3. \A g \in Fields : metrics[g] \in Nat /\ metrics'[g] \in Nat
  BY <1>1, <1>2
<1>4. SumsGrow
  BY <1>2, <1>3 DEF SumsGrow, Fields
<1> QED
  BY <1>1, <1>2, <1>3, <1>4

\* The outcome is one of them.
LEMMA AddOutcome ==
    ASSUME SafeMetrics, NEW u, Add(u, Outcome(u), 1)
    PROVE  /\ Outcome(u) \in {"success", "failed"}
           /\ metrics'[Outcome(u)] = metrics[Outcome(u)] + 1
           /\ \A g \in Fields \ {Outcome(u)} : metrics'[g] = metrics[g]
           /\ \A g \in Fields : metrics[g] \in Nat
           /\ SumsGrow
<1>1. /\ Outcome(u) \in {"success", "failed"} /\ Outcome(u) \in Sums
      /\ 1 \in Nat
  BY DEF Outcome, Sums
<1> HIDE DEF Outcome
<1> QED
  BY <1>1, AddNumbers

\* The four counts of yurei_metrics_request keep the sums in agreement.
LEMMA AddRequestAgrees ==
    ASSUME SafeMetrics, SumsAgree, NEW u \in Updaters, AddRequest(u)
    PROVE  SumsAgree' /\ SumsGrow
<1> USE DEF Fields, Sums
<1> DEFINE out == Cardinality(At(OutcomeDue))
           cnt == Cardinality(At(CountDue))
           min == Cardinality(At(MinimumDue))
<1>1. /\ report' = report
      /\ \A v \in Updaters \ {u} : report'[v] = report[v]
      /\ report[u].latency \in Nat
      /\ out \in Nat /\ cnt \in Nat /\ min \in Nat
      /\ Latencies \subseteq Nat
  BY StateOf, AtIsFinite, ReportTypes DEF AddRequest
<1> HIDE DEF out, cnt, min
<1>2. CASE Goto(u, "total", "outcome") /\ Add(u, "total", 1)
  <2>1. /\ metrics'["total"] = metrics["total"] + 1
        /\ \A g \in Fields \ {"total"} : metrics'[g] = metrics[g]
        /\ \A g \in Fields : metrics[g] \in Nat
        /\ SumsGrow
    BY <1>2, AddNumbers
  <2>2. pc[u] = "total" /\ pc' = [pc EXCEPT ![u] = "outcome"]
    BY <1>2 DEF Goto
  <2>3. out' = out + 1 /\ cnt' = cnt /\ min' = min
    <3>1. /\ pc[u] \notin OutcomeDue /\ "outcome" \in OutcomeDue
          /\ pc[u] \notin CountDue /\ "outcome" \notin CountDue
          /\ pc[u] \notin MinimumDue /\ "outcome" \notin MinimumDue
      BY <2>2 DEF OutcomeDue, CountDue, MinimumDue
    <3> QED
      BY <2>2, <3>1, AtMoves DEF out, cnt, min
  <2>4. Pending' = Pending
    BY <1>1, <2>2, PendingStays
  <2>5. OutcomesAgree'
    <3>1. /\ metrics'["success"] = metrics["success"]
          /\ metrics'["failed"] = metrics["failed"]
          /\ metrics["success"] \in Nat /\ metrics["failed"] \in Nat
      BY <2>1
    <3>2. metrics["total"] = metrics["success"] + metrics["failed"] + out
      BY DEF SumsAgree, OutcomesAgree, out
    <3> HIDE DEF Fields, Sums
    <3>3. metrics'["total"] =
             metrics'["success"] + metrics'["failed"] + out'
      BY <1>1, <2>1, <2>3, <3>1, <3>2
    <3> QED
      BY <3>3 DEF OutcomesAgree, out
  <2>6. EventsAgree' /\ LatenciesAgree' /\ MinimumAgrees'
    BY <2>1, <2>3, <2>4
       DEF SumsAgree, EventsAgree, LatenciesAgree, MinimumAgrees, cnt, min
  <2> QED
    BY <2>1, <2>5, <2>6 DEF SumsAgree
<1>3. CASE Goto(u, "outcome", "sum") /\ Add(u, Outcome(u), 1)
  <2>1. /\ Outcome(u) \in {"success", "failed"}
        /\ metrics'[Outcome(u)] = metrics[Outcome(u)] + 1
        /\ \A g \in Fields \ {Outcome(u)} : metrics'[g] = metrics[g]
        /\ \A g \in Fields : metrics[g] \in Nat
        /\ SumsGrow
    <3>1. Add(u, Outcome(u), 1)
      BY <1>3
    <3> QED
      BY <3>1, AddOutcome, Zenon
  <2>2. pc[u] = "outcome" /\ pc' = [pc EXCEPT ![u] = "sum"]
    BY <1>3 DEF Goto
  <2>3. out' = out - 1 /\ cnt' = cnt /\ min' = min
    <3>1. /\ pc[u] \in OutcomeDue /\ "sum" \notin OutcomeDue
          /\ pc[u] \notin CountDue /\ "sum" \notin CountDue
          /\ pc[u] \notin MinimumDue /\ "sum" \notin MinimumDue
      BY <2>2 DEF OutcomeDue, CountDue, MinimumDue
    <3> QED
      BY <2>2, <3>1, AtMoves DEF out, cnt, min
  <2>4. Pending' = Pending
    BY <1>1, <2>2, PendingStays
  <2>5. OutcomesAgree'
    BY <1>1, <2>1, <2>3 DEF SumsAgree, OutcomesAgree, out
  <2>6. EventsAgree' /\ LatenciesAgree' /\ MinimumAgrees'
    BY <2>1, <2>3, <2>4
       DEF SumsAgree, EventsAgree, LatenciesAgree, MinimumAgrees, cnt, min
  <2> QED
    BY <2>1, <2>5, <2>6 DEF SumsAgree
<1>4. CASE Goto(u, "sum", "count") /\ Add(u, "sum", report[u].latency)
  <2>1. /\ metrics'["sum"] = metrics["sum"] + report[u].latency
        /\ \A g \in Fields \ {"sum"} : metrics'[g] = metrics[g]
        /\ \A g \in Fields : metrics[g] \in Nat
        /\ SumsGrow
    <3>1. /\ "sum" \in Sums /\ report[u].latency \in Nat
          /\ Add(u, "sum", report[u].latency)
      BY <1>1, <1>4
    <3> QED
      BY <3>1, AddNumbers, Zenon
  <2>2. pc[u] = "sum" /\ pc' = [pc EXCEPT ![u] = "count"]
    BY <1>4 DEF Goto
  <2>3. out' = out /\ cnt' = cnt + 1 /\ min' = min
    <3>1. /\ pc[u] \notin OutcomeDue /\ "count" \notin OutcomeDue
          /\ pc[u] \notin CountDue /\ "count" \in CountDue
          /\ pc[u] \notin MinimumDue /\ "count" \notin MinimumDue
      BY <2>2 DEF OutcomeDue, CountDue, MinimumDue
    <3> QED
      BY <2>2, <3>1, AtMoves DEF out, cnt, min
  <2>4. Pending' = Pending
    BY <1>1, <2>2, PendingStays
  <2>5. LatenciesAgree'
    <3> SUFFICES ASSUME NEW l \in Latencies, LeastLatency(l)
                 PROVE  l * (metrics'["count"] + cnt') <= metrics'["sum"]
      BY DEF LatenciesAgree, LeastLatency, cnt
    <3>1. l <= report[u].latency
      BY <2>2, StateOf DEF ReportAtHand, Measuring, LeastLatency
    <3>2. l * (metrics["count"] + cnt) <= metrics["sum"]
      BY DEF SumsAgree, LatenciesAgree, cnt
    <3>3. /\ metrics["count"] + cnt \in Nat /\ l \in Nat
          /\ metrics'["count"] + cnt' = (metrics["count"] + cnt) + 1
      BY <1>1, <2>1, <2>3
    <3>4. /\ l * (metrics["count"] + cnt + 1)
                = l * (metrics["count"] + cnt) + l
          /\ l * (metrics["count"] + cnt) \in Nat
      BY <3>3, Scale
    <3>5. metrics["sum"] \in Nat
      BY <2>1
    <3> QED
      BY <1>1, <2>1, <3>1, <3>2, <3>3, <3>4, <3>5
  <2>6. OutcomesAgree' /\ EventsAgree' /\ MinimumAgrees'
    BY <2>1, <2>3, <2>4
       DEF SumsAgree, OutcomesAgree, EventsAgree, MinimumAgrees, out, min
  <2> QED
    BY <2>1, <2>5, <2>6 DEF SumsAgree
<1>5. CASE Goto(u, "count", "load_min") /\ Add(u, "count", 1)
  <2>1. /\ metrics'["count"] = metrics["count"] + 1
        /\ \A g \in Fields \ {"count"} : metrics'[g] = metrics[g]
        /\ \A g \in Fields : metrics[g] \in Nat
        /\ SumsGrow
    BY <1>5, AddNumbers
  <2>2. pc[u] = "count" /\ pc' = [pc EXCEPT ![u] = "load_min"]
    BY <1>5 DEF Goto
  <2>3. out' = out /\ cnt' = cnt - 1 /\ min' = min + 1
    <3>1. /\ pc[u] \notin OutcomeDue /\ "load_min" \notin OutcomeDue
          /\ pc[u] \in CountDue /\ "load_min" \notin CountDue
          /\ pc[u] \notin MinimumDue /\ "load_min" \in MinimumDue
      BY <2>2 DEF OutcomeDue, CountDue, MinimumDue
    <3> QED
      BY <2>2, <3>1, AtMoves DEF out, cnt, min
  <2>4. Pending' = Pending
    BY <1>1, <2>2, PendingStays
  <2>5. metrics'["count"] + cnt' = metrics["count"] + cnt
    BY <1>1, <2>1, <2>3
  <2>6. LatenciesAgree'
    BY <2>1, <2>5 DEF SumsAgree, LatenciesAgree, LeastLatency, cnt
  <2>7. MinimumAgrees'
    BY <1>1, <2>1, <2>3 DEF SumsAgree, MinimumAgrees, min
  <2>8. OutcomesAgree' /\ EventsAgree'
    BY <2>1, <2>3, <2>4 DEF SumsAgree, OutcomesAgree, EventsAgree, out
  <2> QED
    BY <2>1, <2>6, <2>7, <2>8 DEF SumsAgree
<1> QED
  BY <1>2, <1>3, <1>4, <1>5 DEF AddRequest

\* A step that changes no sum, no outcome or count that is due, and nothing
\* that is pending.
LEMMA QuietAgrees ==
    ASSUME SafeMetrics, SumsAgree, NEW u \in Updaters, NEW to,
           pc' = [pc EXCEPT ![u] = to],
           \A f \in Sums : metrics'[f] = metrics[f],
           pc[u] \notin {"outcome", "count", "events"},
           to \notin {"outcome", "count", "events"},
           \A v \in Updaters \ {u} : report'[v] = report[v],
           MinimumAgrees'
    PROVE  SumsAgree' /\ SumsGrow
<1>1. /\ pc[u] \notin OutcomeDue /\ to \notin OutcomeDue
      /\ pc[u] \notin CountDue /\ to \notin CountDue
  BY DEF OutcomeDue, CountDue
<1>2. /\ Cardinality(At(OutcomeDue))' = Cardinality(At(OutcomeDue))
      /\ Cardinality(At(CountDue))' = Cardinality(At(CountDue))
  BY <1>1, AtMoves
<1>3. Pending' = Pending
  BY PendingStays
<1>4. OutcomesAgree' /\ EventsAgree' /\ LatenciesAgree'
  BY <1>2, <1>3 DEF SumsAgree, OutcomesAgree, EventsAgree, LatenciesAgree,
     Sums
<1>5. SumsGrow
  <2>1. \A f \in Sums : metrics[f] \in Nat
    BY DEF SafeMetrics, TypeOK, Fields
  <2> QED
    BY <2>1 DEF SumsGrow
<1> QED
  BY <1>4, <1>5 DEF SumsAgree

\* While there is no minimum, nobody leaves the loop for it.
LEMMA UpdateExtremeAgrees ==
    ASSUME SafeMetrics, SumsAgree, NEW u \in Updaters, UpdateExtreme(u)
    PROVE  SumsAgree' /\ SumsGrow
<1> DEFINE min == Cardinality(At(MinimumDue))
<1>1. /\ report[u].latency \in Nat /\ report[u].latency \in Latencies
      /\ report[u].latency < Unset
      /\ metrics \in [Fields -> Nat]
      /\ "count" \in Fields /\ "minimum" \in Fields /\ "maximum" \in Fields
  <2>1. pc[u] \in Measuring
    BY DEF UpdateExtreme, Load, SwapFails, SwapSucceeds, Swapped, Goto,
       Measuring
  <2> QED
    BY <2>1, StateOf, MetricsAssumption DEF ReportAtHand, Fields, Sums
<1>2. UNCHANGED report
  BY DEF UpdateExtreme, Load, SwapFails, SwapSucceeds, Swapped
<1>3. CASE /\ pc[u] \in {"load_min", "swap_min"} /\ metrics' = metrics
           /\ Reread(u, "minimum", "swap_min", "load_max")
  <2>1. PICK to \in {"swap_min", "load_max"} :
           /\ pc' = [pc EXCEPT ![u] = to]
           /\ to = "load_max" => ~Better(u, "minimum", metrics["minimum"])
    BY <1>3 DEF Reread
  <2>2. CASE metrics["minimum"] = Unset
    <3>1. to = "swap_min"
      BY <1>1, <2>1, <2>2 DEF Better
    <3>2. pc[u] \in MinimumDue /\ to \in MinimumDue
      BY <1>3, <3>1 DEF MinimumDue
    <3>3. min' = min
      BY <2>1, <3>2, AtMoves
    <3>4. MinimumAgrees'
      BY <1>3, <3>3 DEF SumsAgree, MinimumAgrees
    <3> QED
      BY <1>2, <1>3, <2>1, <3>4, QuietAgrees
  <2>3. CASE metrics["minimum"] # Unset
    <3>1. MinimumAgrees'
      BY <1>3, <2>3 DEF MinimumAgrees
    <3> QED
      BY <1>2, <1>3, <2>1, <3>1, QuietAgrees
  <2> QED
    BY <2>2, <2>3
<1>4. CASE Swapped(u, "minimum", "swap_min", "load_max")
  <2>1. /\ metrics' = [metrics EXCEPT !["minimum"] = report[u].latency]
        /\ pc[u] = "swap_min" /\ pc' = [pc EXCEPT ![u] = "load_max"]
    BY <1>4 DEF Swapped, Goto
  <2>2. /\ \A f \in Sums : metrics'[f] = metrics[f]
        /\ metrics'["minimum"] # Unset
    BY <1>1, <2>1, MetricsAssumption DEF Fields, Sums
  <2>3. MinimumAgrees'
    BY <2>2 DEF MinimumAgrees
  <2> QED
    BY <1>2, <2>1, <2>2, <2>3, QuietAgrees
<1>5. ASSUME NEW to \in {"swap_max", "return"},
             pc[u] \in {"load_max", "swap_max"},
             pc' = [pc EXCEPT ![u] = to],
             \A f \in Sums : metrics'[f] = metrics[f],
             metrics'["minimum"] = metrics["minimum"]
      PROVE  SumsAgree' /\ SumsGrow
  <2>1. pc[u] \notin MinimumDue /\ to \notin MinimumDue
    BY <1>5 DEF MinimumDue
  <2>2. min' = min
    BY <1>5, <2>1, AtMoves
  <2>3. MinimumAgrees'
    BY <1>5, <2>2 DEF SumsAgree, MinimumAgrees, Sums
  <2> QED
    BY <1>2, <1>5, <2>3, QuietAgrees
<1>6. CASE /\ pc[u] \in {"load_max", "swap_max"} /\ metrics' = metrics
           /\ Reread(u, "maximum", "swap_max", "return")
  <2>1. \E to \in {"swap_max", "return"} : pc' = [pc EXCEPT ![u] = to]
    BY <1>6 DEF Reread
  <2> QED
    BY <1>5, <1>6, <2>1
<1>7. CASE Swapped(u, "maximum", "swap_max", "return")
  <2>1. /\ metrics' = [metrics EXCEPT !["maximum"] = report[u].latency]
        /\ pc[u] = "swap_max" /\ pc' = [pc EXCEPT ![u] = "return"]
    BY <1>7 DEF Swapped, Goto
  <2>2. /\ \A f \in Sums : metrics'[f] = metrics[f]
        /\ metrics'["minimum"] = metrics["minimum"]
    BY <1>1, <2>1 DEF Fields, Sums
  <2> QED
    BY <1>5, <2>1, <2>2
<1> QED
  BY <1>3, <1>4, <1>6, <1>7
     DEF UpdateExtreme, Load, SwapFails, SwapSucceeds

\* A new request owes nothing yet, and a reported one not any more.
LEMMA EndsAgree ==
    ASSUME SafeMetrics, SumsAgree, NEW u \in Updaters,
           Request(u) \/ Return(u)
    PROVE  SumsAgree' /\ SumsGrow
<1>1. PICK to \in {"total", "bytes", "idle"} :
         /\ pc[u] \in {"idle", "return"}
         /\ pc' = [pc EXCEPT ![u] = to]
         /\ metrics' = metrics
         /\ \A v \in Updaters \ {u} : report'[v] = report[v]
  <2>1. CASE Request(u)
    <3>1. \E r \in Reports : report' = [report EXCEPT ![u] = r]
      BY <2>1 DEF Request
    <3>2. \A v \in Updaters \ {u} : report'[v] = report[v]
      BY <3>1 DEF SafeMetrics, TypeOK
    <3> QED
      BY <2>1, <3>2 DEF Request, Goto
  <2>2. CASE Return(u)
    <3>1. \A v \in Updaters \ {u} : report'[v] = report[v]
      BY <2>2 DEF Return, SafeMetrics, TypeOK
    <3> QED
      BY <2>2, <3>1 DEF Return, Goto
  <2> QED
    BY <2>1, <2>2
<1>2. pc[u] \notin MinimumDue /\ to \notin MinimumDue
  BY <1>1 DEF MinimumDue
<1>3. Cardinality(At(MinimumDue))' = Cardinality(At(MinimumDue))
  BY <1>1, <1>2, AtMoves
<1>4. MinimumAgrees'
  BY <1>1, <1>3 DEF SumsAgree, MinimumAgrees
<1> QED
  BY <1>1, <1>4, QuietAgrees

\* Bytes and events leave what is due for the request alone.
LEMMA AnswerAgrees ==
    ASSUME SafeMetrics, SumsAgree, NEW u \in Updaters, NEW to,
           NEW f \in {"bytes", "events"}, Goto(u, f, to), Add(u, f, 1),
           to \in {"events", "idle"},
           EventsAgree'
    PROVE  SumsAgree' /\ SumsGrow
<1>1. /\ pc[u] \notin OutcomeDue /\ to \notin OutcomeDue
      /\ pc[u] \notin CountDue /\ to \notin CountDue
      /\ pc[u] \notin MinimumDue /\ to \notin MinimumDue
      /\ pc' = [pc EXCEPT ![u] = to]
  BY DEF Goto, OutcomeDue, CountDue, MinimumDue
<1>2. /\ Cardinality(At(OutcomeDue))' = Cardinality(At(OutcomeDue))
      /\ Cardinality(At(CountDue))' = Cardinality(At(CountDue))
      /\ Cardinality(At(MinimumDue))' = Cardinality(At(MinimumDue))
  BY <1>1, AtMoves
<1>3. /\ \A g \in Fields \ {f} : metrics'[g] = metrics[g]
      /\ SumsGrow
  BY AddNumbers DEF Sums
<1>4. OutcomesAgree' /\ LatenciesAgree' /\ MinimumAgrees'
  BY <1>2, <1>3 DEF SumsAgree, OutcomesAgree, LatenciesAgree, MinimumAgrees,
     Fields, Sums
<1> QED
  BY <1>3, <1>4 DEF SumsAgree

\* An answer brings room for all the events it can have.
LEMMA AddBytesAgrees ==
    ASSUME SafeMetrics, SumsAgree, NEW u \in Updaters, AddBytes(u)
    PROVE  SumsAgree' /\ SumsGrow
<1> DEFINE n == report[u].events
           new == {u} \X (1 .. n)
<1>1. /\ n \in 0 .. MaxEvents /\ MaxEvents \in Nat
      /\ pc[u] = "bytes" /\ Add(u, "bytes", 1) /\ report' = report
  BY StateOf, MetricsAssumption DEF AddBytes, Goto
<1>2. PICK to \in {"events", "idle"} :
         Goto(u, "bytes", to) /\ (to = "events" => n > 0)
  BY DEF AddBytes, MoreEvents
<1>3. pc'[u] = to /\ \A v \in Updaters \ {u} : pc'[v] = pc[v]
  BY <1>2 DEF Goto, SafeMetrics, TypeOK
<1>4. /\ IsFiniteSet(new) /\ Cardinality(new) = n
      /\ IsFiniteSet(Pending) /\ Cardinality(Pending) \in Nat
  <2>1. IsFiniteSet(1 .. n) /\ Cardinality(1 .. n) = n
    <3>1. 1 \in Int /\ n \in Int /\ n >= 0
      BY <1>1
    <3> HIDE DEF n
    <3>2. /\ IsFiniteSet(1 .. n)
          /\ Cardinality(1 .. n) = IF 1 > n THEN 0 ELSE n - 1 + 1
      BY <3>1, FS_Interval
    <3> QED
      BY <3>1, <3>2
  <2>2. IsFiniteSet({u}) /\ Cardinality({u}) = 1
    BY FS_Singleton
  <2>3. IsFiniteSet(new) /\ Cardinality(new) = 1 * n
    <3> HIDE DEF n
    <3>1. /\ IsFiniteSet({u} \X (1 .. n))
          /\ Cardinality({u} \X (1 .. n))
                = Cardinality({u}) * Cardinality(1 .. n)
      BY <2>1, <2>2, FS_Product, Zenon
    <3> QED
      BY <2>1, <2>2, <3>1, Zenon
  <2> QED
    BY <1>1, <2>3, PendingIsFinite
<1>5. Pending' \subseteq Pending \cup new
  <2> DEFINE P(v) == {v} \X (1 .. report[v].events)
  <2>1. \A x : x \in Pending <=> \E v \in At({"events"}) : x \in P(v)
    <3> HIDE DEF P
    <3> QED
      BY DEF Pending, P
  <2>2. \A x : x \in Pending' <=> \E v \in At({"events"})' : x \in P(v)
    <3>1. Pending' = UNION {P(v) : v \in At({"events"})'}
      BY <1>1 DEF Pending
    <3> HIDE DEF P
    <3> QED
      BY <3>1
  <2>3. At({"events"})' \subseteq At({"events"}) \cup {u}
    BY <1>3 DEF At
  <2>4. P(u) = new
    OBVIOUS
  <2> HIDE DEF P, new
  <2> QED
    BY <2>1, <2>2, <2>3, <2>4
<1>6. Cardinality(Pending)' <= Cardinality(Pending) + n
      /\ Cardinality(Pending)' \in Nat
  <2> HIDE DEF new, n
  <2>1. /\ IsFiniteSet(Pending \cup new)
        /\ Cardinality(Pending \cup new) =
              Cardinality(Pending) + n - Cardinality(Pending \cap new)
    BY <1>4, FS_Union
  <2>2. /\ Cardinality(Pending \cap new) \in Nat
        /\ Cardinality(Pending \cup new) \in Nat
    BY <1>4, <2>1, FS_Subset, FS_CardinalityType
  <2>3. /\ IsFiniteSet(Pending')
        /\ Cardinality(Pending') <= Cardinality(Pending \cup new)
    BY <1>5, <2>1, FS_Subset
  <2>4. Cardinality(Pending') \in Nat
    BY <2>3, FS_CardinalityType
  <2> QED
    BY <1>1, <1>4, <2>1, <2>2, <2>3, <2>4 DEF n
<1>7. EventsAgree'
  <2>1. /\ metrics'["bytes"] = metrics["bytes"] + 1
        /\ metrics'["events"] = metrics["events"]
        /\ metrics["bytes"] \in Nat /\ metrics["events"] \in Nat
    <3>1. /\ "bytes" \in Sums /\ 1 \in Nat /\ Add(u, "bytes", 1)
          /\ {"bytes", "events"} \subseteq Fields
          /\ "events" \in Fields \ {"bytes"}
      BY <1>1 DEF Fields, Sums
    <3> QED
      BY <3>1, AddNumbers
  <2>2. metrics["events"] + Cardinality(Pending)
           <= MaxEvents * metrics["bytes"]
    BY DEF SumsAgree, EventsAgree
  <2>3. /\ MaxEvents * (metrics["bytes"] + 1)
              = MaxEvents * metrics["bytes"] + MaxEvents
        /\ MaxEvents * metrics["bytes"] \in Nat
    BY <1>1, <2>1, Scale
  <2> HIDE DEF n
  <2>4. n \in Nat /\ n <= MaxEvents
    BY <1>1
  <2> QED
    BY <1>1, <1>4, <1>6, <2>1, <2>2, <2>3, <2>4 DEF EventsAgree
<1> QED
  BY <1>1, <1>2, <1>7, AnswerAgrees

\* An event that is counted was pending.
LEMMA AddEventAgrees ==
    ASSUME SafeMetrics, SumsAgree, NEW u \in Updaters, AddEvent(u)
    PROVE  SumsAgree' /\ SumsGrow
<1> DEFINE n == report[u].events
<1>1. /\ n \in Nat /\ n > 0
      /\ pc[u] = "events" /\ Add(u, "events", 1)
  BY StateOf, MetricsAssumption DEF AddEvent, Goto, ReportAtHand
<1>2. PICK to \in {"events", "idle"} :
         Goto(u, "events", to) /\ (to = "idle" => n - 1 = 0)
  BY <1>1 DEF AddEvent, MoreEvents
<1>3. /\ pc'[u] = to /\ \A v \in Updaters \ {u} : pc'[v] = pc[v]
      /\ report'[u].events = n - 1
      /\ \A v \in Updaters \ {u} : report'[v] = report[v]
  BY <1>2 DEF AddEvent, Goto, SafeMetrics, TypeOK
<1>4. <<u, n>> \in Pending /\ IsFiniteSet(Pending)
  BY <1>1, PendingIsFinite
<1>5. Pending' = Pending \ {<<u, n>>}
  <2> DEFINE P(v) == {v} \X (1 .. report[v].events)
             Q(v) == {v} \X (1 .. report'[v].events)
  <2>1. \A x : x \in Pending <=> \E v \in At({"events"}) : x \in P(v)
    <3> HIDE DEF P
    <3> QED
      BY DEF Pending, P
  <2>2. \A x : x \in Pending' <=> \E v \in At({"events"})' : x \in Q(v)
    <3>1. Pending' = UNION {Q(v) : v \in At({"events"})'}
      BY DEF Pending
    <3> HIDE DEF Q
    <3> QED
      BY <3>1
  <2>3. \A v \in Updaters \ {u} : Q(v) = P(v)
    BY <1>3
  <2>4. \A v \in Updaters : \A x \in P(v) : x[1] = v
    OBVIOUS
  <2>5. Q(u) = P(u) \ {<<u, n>>}
    <3> HIDE DEF n
    <3>1. 1 .. n - 1 = (1 .. n) \ {n}
      BY <1>1
    <3> QED
      BY <1>3, <3>1 DEF n
  <2>6. /\ At({"events"})' \ {u} = At({"events"}) \ {u}
        /\ u \in At({"events"}) /\ At({"events"}) \subseteq Updaters
        /\ u \notin At({"events"})' => Q(u) = {}
    BY <1>1, <1>2, <1>3 DEF At
  <2>7. <<u, n>>[1] = u
    OBVIOUS
  <2> HIDE DEF P, Q, n
  <2> QED
    BY <2>1, <2>2, <2>3, <2>4, <2>5, <2>6, <2>7
<1>6. /\ Cardinality(Pending)' = Cardinality(Pending) - 1
      /\ Cardinality(Pending) \in Nat
  BY <1>4, <1>5, FS_RemoveElement, FS_CardinalityType
<1>7. EventsAgree'
  <2>1. /\ metrics'["bytes"] = metrics["bytes"]
        /\ metrics'["events"] = metrics["events"] + 1
        /\ metrics["bytes"] \in Nat /\ metrics["events"] \in Nat
    <3>1. /\ "events" \in Sums /\ 1 \in Nat /\ Add(u, "events", 1)
          /\ {"bytes", "events"} \subseteq Fields
          /\ "bytes" \in Fields \ {"events"}
      BY <1>1 DEF Fields, Sums
    <3> QED
      BY <3>1, AddNumbers
  <2>2. metrics["events"] + Cardinality(Pending)
           <= MaxEvents * metrics["bytes"]
    BY DEF SumsAgree, EventsAgree
  <2>3. metrics'["events"] + Cardinality(Pending)'
           = metrics["events"] + Cardinality(Pending)
    BY <1>6, <2>1
  <2> QED
    BY <2>1, <2>2, <2>3 DEF EventsAgree
<1> QED
  BY <1>1, <1>2, <1>7, AnswerAgrees

\* yurei_metrics_init owes nothing.
LEMMA InitAgrees == Init => SumsAgree
<1> SUFFICES ASSUME Init PROVE SumsAgree
  OBVIOUS
<1>1. /\ \A f \in Sums : metrics[f] = 0
      /\ \A u \in Updaters : pc[u] = "idle"
  BY DEF Init, Fields, Sums
<1>2. /\ At(OutcomeDue) = {} /\ At(CountDue) = {} /\ At({"events"}) = {}
      /\ Pending = {}
  BY <1>1 DEF At, OutcomeDue, CountDue, Pending
<1>3. /\ Cardinality({}) = 0 /\ MaxEvents \in Nat /\ Latencies \subseteq Nat
      /\ Cardinality(At(MinimumDue)) \in Nat
  BY FS_EmptySet, MetricsAssumption, ReportTypes, AtIsFinite
<1>4. OutcomesAgree /\ EventsAgree /\ MinimumAgrees
  BY <1>1, <1>2, <1>3 DEF OutcomesAgree, EventsAgree, MinimumAgrees, Sums
<1>5. LatenciesAgree
  <2> SUFFICES ASSUME NEW l \in Latencies
               PROVE  l * (metrics["count"] + Cardinality(At(CountDue)))
                         <= metrics["sum"]
    BY DEF LatenciesAgree
  <2>1. metrics["count"] + Cardinality(At(CountDue)) = 0
    BY <1>1, <1>2, <1>3 DEF Sums
  <2>2. l * 0 = 0 /\ metrics["sum"] = 0
    BY <1>1, <1>3 DEF Sums
  <2> QED
    BY <2>1, <2>2
<1> QED
  BY <1>4, <1>5 DEF SumsAgree

\* Every step of an updater keeps the agreement.
LEMMA UpdaterAgrees ==
    ASSUME SafeMetrics, SumsAgree, NEW u \in Updaters,
           Request(u) \/ Reporting(u)
    PROVE  SumsAgree' /\ SumsGrow
BY AddRequestAgrees, UpdateExtremeAgrees, EndsAgree, AddBytesAgrees,
   AddEventAgrees DEF Reporting

\* main's steps change nothing of it.
LEMMA OtherAgrees ==
    ASSUME SafeMetrics, SumsAgree, UNCHANGED <<metrics, pc, report>>
    PROVE  SumsAgree' /\ SumsGrow
<1>1. At(OutcomeDue)' = At(OutcomeDue) /\ At(CountDue)' = At(CountDue)
      /\ At(MinimumDue)' = At(MinimumDue) /\ Pending' = Pending
  BY DEF At, Pending
<1>2. SumsAgree'
  BY <1>1 DEF SumsAgree, OutcomesAgree, EventsAgree, LatenciesAgree,
     MinimumAgrees
<1>3. \A f \in Sums : metrics[f] \in Nat
  BY DEF SafeMetrics, TypeOK, Fields
<1> QED
  BY <1>2, <1>3 DEF SumsGrow
-----------------------------------------------------------------------------
(* The line of the log.                                                    *)

\* What has been read of the line stays true while the sums grow.
LEMMA LineStays ==
    ASSUME SafeMetrics, LineSoFar, SumsGrow, metrics' \in [Fields -> Nat],
           UNCHANGED <<logPc, line>>
    PROVE  LineSoFar'
<1> DEFINE all == Cardinality(Updaters)
<1>1. /\ \A f \in Sums : /\ metrics[f] \in Nat /\ metrics'[f] \in Nat
                         /\ line[f] \in Nat /\ metrics[f] <= metrics'[f]
      /\ logPc \in Nat /\ all \in Nat
      /\ MaxEvents \in Nat /\ Latencies \subseteq Nat
  BY AtIsFinite, MetricsAssumption, ReportTypes, ReadsAreFields
     DEF SafeMetrics, TypeOK, SumsGrow, Fields
<1> HIDE DEF all
<1>2. /\ MaxEvents * metrics["bytes"] <= MaxEvents * metrics'["bytes"]
      /\ MaxEvents * metrics["bytes"] \in Nat
      /\ MaxEvents * metrics'["bytes"] \in Nat
  <2>1. /\ metrics["bytes"] \in Nat /\ metrics'["bytes"] \in Nat
        /\ metrics["bytes"] <= metrics'["bytes"]
    BY <1>1 DEF Sums
  <2> QED
    BY <1>1, <2>1, Scale
<1>3. \A l \in Latencies : l * line["count"] \in Nat
  BY <1>1 DEF Sums
<1>4. /\ logPc = 1 => line["total"] <= metrics'["success"]
                                          + metrics'["failed"] + all
      /\ logPc = 2 => line["total"] <= line["success"]
                                          + metrics'["failed"] + all
  BY <1>1 DEF LineSoFar, Sums, all
<1>5. logPc = 4 => line["events"] <= MaxEvents * metrics'["bytes"]
  BY <1>1, <1>2 DEF LineSoFar, Sums
<1>6. logPc >= 6 => line["count"] <= metrics'["count"]
  BY <1>1 DEF LineSoFar, Sums
<1>7. ASSUME NEW l \in Latencies, LeastLatency(l), logPc = 6
      PROVE  l * line["count"] <= metrics'["sum"]
  <2>1. l * line["count"] <= metrics["sum"]
    BY <1>7 DEF LineSoFar
  <2> QED
    BY <1>1, <1>3, <2>1 DEF Sums
<1> QED
  BY <1>4, <1>5, <1>6, <1>7 DEF LineSoFar, LeastLatency, all

\* The next field of the line: what has been read before it can only have
\* been less, and what is owed for it is at most one per updater.
LEMMA ReadKeepsLine ==
    ASSUME SafeMetrics, SumsAgree, LineSoFar, ReadNext
    PROVE  LineSoFar'
<1> DEFINE all == Cardinality(Updaters)
           out == Cardinality(At(OutcomeDue))
           min == Cardinality(At(MinimumDue))
           pend == Cardinality(Pending)
<1>1. /\ \A f \in Fields : metrics[f] \in Nat /\ line[f] \in Nat
      /\ logPc \in 0 .. 8 /\ logPc < 8 /\ logPc' = logPc + 1
      /\ all \in Nat /\ out \in Nat /\ min \in Nat /\ pend \in Nat
      /\ out <= all /\ min <= all
      /\ MaxEvents \in Nat /\ Latencies \subseteq Nat
      /\ metrics' = metrics
  <2>1. Len(Reads) = 8
    BY DEF Reads
  <2> QED
    BY <2>1, AtIsFinite, PendingIsFinite, MetricsAssumption, ReportTypes
       DEF SafeMetrics, TypeOK, ReadNext
<1>2. \A f \in Fields :
         line'[f] = IF f = Reads[logPc'] THEN metrics[f] ELSE line[f]
  BY DEF ReadNext, SafeMetrics, TypeOK
<1>3. /\ {"total", "success", "failed", "events", "bytes", "count", "sum",
          "minimum"} \subseteq Fields
      /\ Reads[1] = "total" /\ Reads[2] = "success" /\ Reads[3] = "failed"
      /\ Reads[4] = "events" /\ Reads[5] = "bytes" /\ Reads[6] = "count"
      /\ Reads[7] = "sum" /\ Reads[8] = "minimum"
  BY DEF Reads, Fields, Sums
<1>4. \A f \in Fields : metrics[f] \in Nat /\ line[f] \in Nat
                        /\ line'[f] \in Nat
  BY <1>1, <1>2
<1> HIDE DEF all, out, min, pend
<1>5. /\ logPc' = 1 => line'["total"] <= metrics["success"]
                                            + metrics["failed"] + all
      /\ logPc' = 2 => line'["total"] <= line'["success"]
                                            + metrics["failed"] + all
      /\ logPc' >= 3 => line'["total"] <= line'["success"]
                                            + line'["failed"] + all
  <2>1. CASE logPc = 0
    <3>1. metrics["total"] = metrics["success"] + metrics["failed"] + out
      BY DEF SumsAgree, OutcomesAgree, out
    <3>2. line'["total"] = metrics["total"]
      BY <1>1, <1>2, <1>3, <2>1
    <3> QED
      BY <1>1, <1>3, <1>4, <2>1, <3>1, <3>2
  <2>2. CASE logPc = 1
    <3>1. line["total"] <= metrics["success"] + metrics["failed"] + all
      BY <2>2 DEF LineSoFar, all
    <3>2. line'["total"] = line["total"]
          /\ line'["success"] = metrics["success"]
      BY <1>1, <1>2, <1>3, <2>2
    <3> QED
      BY <1>1, <2>2, <3>1, <3>2
  <2>3. CASE logPc = 2
    <3>1. line["total"] <= line["success"] + metrics["failed"] + all
      BY <2>3 DEF LineSoFar, all
    <3>2. line'["total"] = line["total"]
          /\ line'["success"] = line["success"]
          /\ line'["failed"] = metrics["failed"]
      BY <1>1, <1>2, <1>3, <2>3
    <3> QED
      BY <1>1, <2>3, <3>1, <3>2
  <2>4. CASE logPc >= 3
    <3>1. line["total"] <= line["success"] + line["failed"] + all
      BY <2>4 DEF LineSoFar, all
    <3>2. Reads[logPc'] \in {"events", "bytes", "count", "sum", "minimum"}
      <4>1. logPc' \in {4, 5, 6, 7, 8}
        BY <1>1, <2>4
      <4> QED
        BY <1>3, <4>1
    <3>3. line'["total"] = line["total"]
          /\ line'["success"] = line["success"]
          /\ line'["failed"] = line["failed"]
      BY <1>2, <1>3, <3>2
    <3> QED
      BY <1>1, <2>4, <3>1, <3>3
  <2> QED
    BY <1>1, <2>1, <2>2, <2>3, <2>4
<1>6. /\ logPc' = 4 => line'["events"] <= MaxEvents * metrics["bytes"]
      /\ logPc' >= 5 => line'["events"] <= MaxEvents * line'["bytes"]
  <2> DEFINE room == MaxEvents * metrics["bytes"]
  <2>1. CASE logPc = 3
    <3>1. metrics["events"] + pend <= room
      BY DEF SumsAgree, EventsAgree, pend
    <3>2. line'["events"] = metrics["events"]
      BY <1>1, <1>2, <1>3, <2>1
    <3>3. room \in Nat
      BY <1>1, <1>3, Scale
    <3> HIDE DEF room
    <3>4. line'["events"] <= room
      BY <1>1, <1>3, <3>1, <3>2, <3>3
    <3> QED
      BY <1>1, <2>1, <3>4 DEF room
  <2>2. CASE logPc = 4
    <3>1. line["events"] <= MaxEvents * metrics["bytes"]
      BY <2>2 DEF LineSoFar
    <3>2. line'["events"] = line["events"]
          /\ line'["bytes"] = metrics["bytes"]
      BY <1>1, <1>2, <1>3, <2>2
    <3> QED
      BY <1>1, <2>2, <3>1, <3>2
  <2>3. CASE logPc >= 5
    <3>1. line["events"] <= MaxEvents * line["bytes"]
      BY <2>3 DEF LineSoFar
    <3>2. Reads[logPc'] \in {"count", "sum", "minimum"}
      <4>1. logPc' \in {6, 7, 8}
        BY <1>1, <2>3
      <4> QED
        BY <1>3, <4>1
    <3>3. line'["events"] = line["events"] /\ line'["bytes"] = line["bytes"]
      BY <1>2, <1>3, <3>2
    <3> QED
      BY <1>1, <2>3, <3>1, <3>3
  <2>4. CASE logPc < 3
    BY <1>1, <2>4
  <2> QED
    BY <1>1, <2>1, <2>2, <2>3, <2>4
<1>7. logPc' >= 6 => line'["count"] <= metrics["count"]
  <2>1. CASE logPc = 5
    BY <1>1, <1>2, <1>3, <2>1
  <2>2. CASE logPc >= 6
    <3>1. line["count"] <= metrics["count"]
      BY <2>2 DEF LineSoFar
    <3>2. Reads[logPc'] \in {"sum", "minimum"}
      <4>1. logPc' \in {7, 8}
        BY <1>1, <2>2
      <4> QED
        BY <1>3, <4>1
    <3> QED
      BY <1>2, <1>3, <3>1, <3>2
  <2> QED
    BY <1>1, <2>1, <2>2
<1>8. ASSUME NEW l \in Latencies, LeastLatency(l)
      PROVE  /\ logPc' = 6 => l * line'["count"] <= metrics["sum"]
             /\ logPc' >= 7 => l * line'["count"] <= line'["sum"]
  <2>1. CASE logPc = 5
    <3> DEFINE cnt == Cardinality(At(CountDue))
               owed == metrics["count"] + cnt
    <3>1. l * owed <= metrics["sum"]
      BY <1>8 DEF SumsAgree, LatenciesAgree
    <3>2. line'["count"] = metrics["count"]
      BY <1>1, <1>2, <1>3, <2>1
    <3>3. /\ owed \in Nat /\ metrics["count"] <= owed
          /\ l \in Nat /\ metrics["count"] \in Nat /\ metrics["sum"] \in Nat
      <4>1. cnt \in Nat
        BY AtIsFinite
      <4> HIDE DEF cnt
      <4> QED
        BY <1>1, <1>3, <4>1
    <3> HIDE DEF owed
    <3>4. /\ l * metrics["count"] <= l * owed
          /\ l * metrics["count"] \in Nat /\ l * owed \in Nat
      BY <3>3, Scale
    <3>5. l * metrics["count"] <= metrics["sum"]
      BY <3>1, <3>3, <3>4
    <3> QED
      BY <1>1, <2>1, <3>2, <3>5
  <2>2. CASE logPc = 6
    <3>1. l * line["count"] <= metrics["sum"]
      BY <1>8, <2>2 DEF LineSoFar
    <3>2. line'["count"] = line["count"] /\ line'["sum"] = metrics["sum"]
      BY <1>1, <1>2, <1>3, <2>2
    <3> QED
      BY <1>1, <2>2, <3>1, <3>2
  <2>3. CASE logPc >= 7
    <3>1. l * line["count"] <= line["sum"]
      BY <1>8, <2>3 DEF LineSoFar
    <3>2. line'["count"] = line["count"] /\ line'["sum"] = line["sum"]
      <4>1. logPc' = 8
        BY <1>1, <2>3
      <4> QED
        BY <1>2, <1>3, <4>1
    <3> QED
      BY <1>1, <2>3, <3>1, <3>2
  <2>4. CASE logPc < 5
    BY <1>1, <2>4
  <2> QED
    BY <1>1, <2>1, <2>2, <2>3, <2>4
<1>9. logPc' = 8 /\ line'["minimum"] = Unset => line'["count"] <= all
  <2> SUFFICES ASSUME logPc' = 8, line'["minimum"] = Unset
               PROVE  line'["count"] <= all
    OBVIOUS
  <2>1. logPc = 7
    BY <1>1
  <2>2. line["count"] <= metrics["count"]
    BY <2>1 DEF LineSoFar
  <2>3. /\ line'["minimum"] = metrics["minimum"]
        /\ line'["count"] = line["count"]
    BY <1>2, <1>3
  <2>4. metrics["count"] <= min
    BY <2>3 DEF SumsAgree, MinimumAgrees, min
  <2>5. /\ metrics["count"] \in Nat /\ line["count"] \in Nat
        /\ min \in Nat /\ all \in Nat /\ min <= all
    BY <1>1, <1>3
  <2> QED
    BY <2>2, <2>3, <2>4, <2>5
<1> QED
  BY <1>1, <1>5, <1>6, <1>7, <1>8, <1>9 DEF LineSoFar, LeastLatency, all

\* Counting needs a report, and there can be no report without a latency.
LEMMA CountsOnlyReports ==
    ASSUME SafeMetrics, CountsReports, [Next]_vars
    PROVE  CountsReports'
<1> SUFFICES ASSUME Latencies = {} PROVE metrics'["count"] = metrics["count"]
  BY DEF CountsReports
<1>1. Reports = {}
  BY DEF Latencies
<1>2. \A u \in Updaters : pc[u] \notin Measuring
  BY StateOf DEF ReportAtHand
<1>3. ASSUME NEW u \in Updaters, Request(u) \/ Reporting(u)
      PROVE  metrics'["count"] = metrics["count"]
  <2>1. ~Request(u) /\ ~AddRequest(u) /\ ~UpdateExtreme(u) /\ ~Return(u)
    BY <1>1, <1>2 DEF Request, AddRequest, UpdateExtreme, Load, SwapFails,
       SwapSucceeds, Swapped, Return, Goto, Measuring
  <2>2. PICK f \in {"bytes", "events"} : Add(u, f, 1)
    BY <1>3, <2>1 DEF Reporting, AddBytes, AddEvent
  <2> QED
    BY <2>2, AddNumbers DEF Fields, Sums
<1>4. CASE ReadNext \/ PrintLine \/ UNCHANGED vars
  BY <1>4 DEF ReadNext, PrintLine, vars
<1> QED
  BY <1>3, <1>4 DEF Next

\* Main starts without a line, and so does every line.
LEMMA EmptyLineSays ==
    ASSUME logPc = 0
    PROVE  LineSoFar
BY DEF LineSoFar

\* Every step keeps the invariant.
LEMMA NextSafeLine == SafeLine /\ [Next]_vars => SafeLine'
<1> SUFFICES ASSUME SafeLine, [Next]_vars PROVE SafeLine'
  OBVIOUS
<1>1. SafeMetrics /\ SumsAgree /\ CountsReports /\ LineSoFar
  BY DEF SafeLine
<1>2. SafeMetrics' /\ CountsReports'
  BY <1>1, NextSafe, CountsOnlyReports
<1>3. metrics' \in [Fields -> Nat]
  BY <1>2 DEF SafeMetrics, TypeOK
<1>4. ASSUME NEW u \in Updaters, Request(u) \/ Reporting(u)
      PROVE  SumsAgree' /\ LineSoFar'
  <2>1. SumsAgree' /\ SumsGrow
    BY <1>1, <1>4, UpdaterAgrees
  <2>2. UNCHANGED <<logPc, line>>
    BY <1>4 DEF Request, Reporting, AddRequest, Add, UpdateExtreme, Load,
       SwapFails, SwapSucceeds, Swapped, Return, AddBytes, AddEvent
  <2> QED
    BY <1>1, <1>3, <2>1, <2>2, LineStays
<1>5. CASE ReadNext
  <2>1. SumsAgree'
    BY <1>1, <1>5, OtherAgrees DEF ReadNext
  <2> QED
    BY <1>1, <1>2, <1>5, <2>1, ReadKeepsLine DEF SafeLine
<1>6. CASE PrintLine
  <2>1. SumsAgree'
    BY <1>1, <1>6, OtherAgrees DEF PrintLine
  <2>2. logPc' = 0
    BY <1>6 DEF PrintLine
  <2>3. LineSoFar'
    BY <2>2 DEF LineSoFar
  <2> QED
    BY <1>2, <2>1, <2>3 DEF SafeLine
<1>7. CASE UNCHANGED vars
  <2>1. UNCHANGED <<metrics, pc, report, logPc, line>>
    BY <1>7 DEF vars
  <2>2. SumsAgree' /\ SumsGrow
    BY <1>1, <2>1, OtherAgrees
  <2> QED
    BY <1>1, <1>2, <1>3, <2>1, <2>2, LineStays DEF SafeLine
<1> QED
  BY <1>2, <1>4, <1>5, <1>6, <1>7 DEF Next, SafeLine

\* The inductive invariant of the log: what the updaters owe to the sums, and
\* what main has seen of them, at every point of both.
THEOREM LineSafe == Spec => []SafeLine
<1>1. Init => SafeLine
  <2> SUFFICES ASSUME Init PROVE SafeLine
    OBVIOUS
  <2>1. logPc = 0 /\ metrics["count"] = 0
    BY DEF Init, Fields, Sums
  <2>2. CountsReports
    BY <2>1 DEF CountsReports
  <2> QED
    BY <2>1, <2>2, InitSafe, InitAgrees, EmptyLineSays DEF SafeLine
<1> QED
  BY <1>1, NextSafeLine, PTL DEF Spec

\* Every set of natural numbers that is not empty has a least element.
LEMMA LeastNat ==
    ASSUME NEW S, S \subseteq Nat, S # {}
    PROVE  \E n \in S : \A m \in S : n <= m
<1>1. PICK n \in S : \A m \in S : ~ (<<m, n>> \in OpToRel(<, Nat))
  BY WFMin, NatLessThanWellFounded, Zenon
<1>2. \A m \in S : ~ (m < n)
  BY <1>1, Zenon DEF OpToRel
<1> QED
  BY <1>2

\* Dividing a sum of at least l for each of c.
LEMMA AverageOfAtLeast ==
    ASSUME NEW l \in Nat, NEW c \in Nat, NEW s \in Nat, c > 0, l * c <= s
    PROVE  s \div c >= l
<1> DEFINE q == s \div c
<1>1. /\ q \in Nat /\ s < c * (q + 1)
  OBVIOUS
<1> HIDE DEF q
<1>2. SUFFICES ASSUME q + 1 <= l PROVE FALSE
  BY <1>1 DEF q
<1>3. c * (q + 1) <= c * l
  <2>1. c \in Nat /\ q + 1 \in Nat /\ l \in Nat
    BY <1>1
  <2> QED
    BY <1>2, <2>1, Scale
<1>4. c * l = l * c /\ c * l \in Nat
  OBVIOUS
<1>5. c * (q + 1) \in Nat
  BY <1>1, Scale
<1> QED
  BY <1>1, <1>3, <1>4, <1>5

\* The line of the log makes sense although each of its fields is read at
\* another time, for any number of updaters: the outcomes lack at most one
\* request of each, the average is not below every latency, the events have
\* an answer each, and a missing minimum means that all that was counted is
\* still on its way to the loop.
THEOREM LogMakesSense == Spec => []LineMakesSense
<1>1. SafeLine => LineMakesSense
  <2> SUFFICES ASSUME SafeLine, Printed PROVE LineMakesSense
    BY DEF LineMakesSense
  <2>1. SafeMetrics /\ CountsReports /\ LineSoFar /\ logPc = 8
    <3>1. Len(Reads) = 8
      BY DEF Reads
    <3> QED
      BY <3>1 DEF SafeLine, Printed
  <2>2. /\ \A f \in Fields : line[f] \in Nat /\ metrics[f] \in Nat
        /\ Cardinality(Updaters) \in Nat
        /\ Latencies \subseteq Nat
        /\ {"total", "success", "failed", "events", "bytes", "count", "sum",
            "minimum"} \subseteq Fields
    BY <2>1, AtIsFinite, ReportTypes DEF SafeMetrics, TypeOK, Fields, Sums
  <2>3. line["total"] - line["success"] - line["failed"]
           <= Cardinality(Updaters)
    <3>1. line["total"] <= line["success"] + line["failed"]
                              + Cardinality(Updaters)
      BY <2>1 DEF LineSoFar
    <3> QED
      BY <2>2, <3>1
  <2>4. ASSUME line["count"] > 0
        PROVE  \E l \in Latencies : PrintedAverage >= l
    <3>1. line["count"] <= metrics["count"]
      BY <2>1 DEF LineSoFar
    <3>2. Latencies # {}
      BY <2>1, <2>2, <2>4, <3>1 DEF CountsReports
    <3>3. PICK l \in Latencies : \A k \in Latencies : l <= k
      BY <2>2, <3>2, LeastNat
    <3>4. l * line["count"] <= line["sum"]
      BY <2>1, <3>3 DEF LineSoFar, LeastLatency
    <3>5. line["sum"] \div line["count"] >= l
      <4>1. l \in Nat /\ line["count"] \in Nat /\ line["sum"] \in Nat
        BY <2>2
      <4> QED
        BY <2>4, <3>4, <4>1, AverageOfAtLeast
    <3>6. line["count"] # 0
      BY <2>2, <2>4
    <3> QED
      BY <3>5, <3>6 DEF PrintedAverage
  <2>5. line["events"] <= MaxEvents * line["bytes"]
    BY <2>1 DEF LineSoFar
  <2>6. line["minimum"] = Unset => line["count"] <= Cardinality(Updaters)
    BY <2>1 DEF LineSoFar
  <2> QED
    BY <2>3, <2>4, <2>5, <2>6 DEF LineMakesSense
<1> QED
  BY <1>1, LineSafe, PTL
-----------------------------------------------------------------------------
(* How often the loops can go round.                                       *)

\* The value that an updater is about to replace has been the extreme, and
\* the extreme has only got better since: a value that is equal again has
\* never been another one.
ComparedWasExtreme(u) ==
    /\ pc[u] = "swap_min" => /\ current[u] \in Latencies \cup {Unset}
                             /\ metrics["minimum"] <= current[u]
    /\ pc[u] = "swap_max" => /\ current[u] \in Latencies \cup {0}
                             /\ current[u] <= metrics["maximum"]

SafeLoops == \A u \in Updaters : ComparedWasExtreme(u)

\* A load or a failed exchange remembers the extreme of the moment.
LEMMA RereadCompares ==
    ASSUME SafeMetrics, NEW u \in Updaters, UNCHANGED metrics,
           \/ Reread(u, "minimum", "swap_min", "load_max")
           \/ Reread(u, "maximum", "swap_max", "return")
    PROVE  ComparedWasExtreme(u)'
<1>1. /\ metrics["minimum"] \in Nat /\ metrics["maximum"] \in Nat
      /\ metrics["minimum"] \in Latencies \cup {Unset}
      /\ metrics["maximum"] \in Latencies \cup {0}
  BY StateOf
<1>2. CASE Reread(u, "minimum", "swap_min", "load_max")
  <2>1. /\ current'[u] = metrics["minimum"]
        /\ pc'[u] \in {"swap_min", "load_max"}
    BY <1>2 DEF Reread, SafeMetrics, TypeOK
  <2> QED
    BY <1>1, <2>1 DEF ComparedWasExtreme
<1>3. CASE Reread(u, "maximum", "swap_max", "return")
  <2>1. /\ current'[u] = metrics["maximum"]
        /\ pc'[u] \in {"swap_max", "return"}
    BY <1>3 DEF Reread, SafeMetrics, TypeOK
  <2> QED
    BY <1>1, <2>1 DEF ComparedWasExtreme
<1> QED
  BY <1>2, <1>3

\* An updater comes to an exchange only by a load or a failed exchange.
LEMMA OwnCompare ==
    ASSUME SafeMetrics, NEW u \in Updaters, Request(u) \/ Reporting(u)
    PROVE  ComparedWasExtreme(u)'
<1>1. DOMAIN pc = Updaters
  BY DEF SafeMetrics, TypeOK
<1>2. CASE Load(u, "minimum", "load_min", "swap_min", "load_max")
           \/ SwapFails(u, "minimum", "swap_min", "load_max")
           \/ Load(u, "maximum", "load_max", "swap_max", "return")
           \/ SwapFails(u, "maximum", "swap_max", "return")
  BY <1>2, RereadCompares DEF Load, SwapFails
<1>3. CASE Request(u) \/ AddRequest(u) \/ SwapSucceeds(u) \/ Return(u)
           \/ AddBytes(u) \/ AddEvent(u)
  <2>1. \A to : pc' = [pc EXCEPT ![u] = to] => pc'[u] = to
    BY <1>1
  <2>2. pc'[u] \notin {"swap_min", "swap_max"}
    BY <1>3, <2>1 DEF Request, AddRequest, SwapSucceeds, Swapped, Return,
         AddBytes, AddEvent, Goto
  <2> QED
    BY <2>2 DEF ComparedWasExtreme
<1> QED
  BY <1>2, <1>3 DEF Reporting, UpdateExtreme

\* What another updater does to the extremes is what the comparison allows
\* for.
LEMMA OthersCompare ==
    ASSUME SafeMetrics, SafeLoops, ExtremesImprove,
           metrics' \in [Fields -> Nat], NEW v \in Updaters,
           pc'[v] = pc[v], current'[v] = current[v]
    PROVE  ComparedWasExtreme(v)'
<1>1. /\ current[v] \in Nat
      /\ metrics["minimum"] \in Nat /\ metrics["maximum"] \in Nat
  BY StateOf
<1>2. metrics'["minimum"] \in Nat /\ metrics'["maximum"] \in Nat
  BY DEF Fields
<1>3. ComparedWasExtreme(v)
  BY DEF SafeLoops
<1> QED
  BY <1>1, <1>2, <1>3 DEF ComparedWasExtreme, ExtremesImprove

\* SafeLoops is inductive together with SafeMetrics.
LEMMA NextSafeLoops == SafeMetrics /\ SafeLoops /\ [Next]_vars => SafeLoops'
<1> SUFFICES ASSUME SafeMetrics, SafeLoops, [Next]_vars PROVE SafeLoops'
  OBVIOUS
<1>1. ASSUME NEW u \in Updaters, Request(u) \/ Reporting(u)
      PROVE  SafeLoops'
  <2>1. StepOf(u)
    BY <1>1, RequestSafe, AddRequestSafe, UpdateExtremeSafe, ReturnSafe,
       AddBytesSafe, AddEventSafe DEF Reporting
  <2>2. ExtremesImprove /\ metrics' \in [Fields -> Nat]
    BY <2>1 DEF StepOf, TypeOK
  <2>3. ASSUME NEW v \in Updaters, v # u
        PROVE  ComparedWasExtreme(v)'
    BY <2>1, <2>2, <2>3, OthersCompare DEF StepOf
  <2>4. ComparedWasExtreme(u)'
    BY <1>1, OwnCompare
  <2> QED
    BY <2>3, <2>4 DEF SafeLoops
<1>2. CASE ReadNext \/ PrintLine \/ UNCHANGED vars
  <2>1. UNCHANGED <<metrics, pc, current>>
    BY <1>2 DEF ReadNext, PrintLine, vars
  <2> QED
    BY <2>1 DEF SafeLoops, ComparedWasExtreme
<1> QED
  BY <1>1, <1>2 DEF Next

\* One more round of a loop: either the exchange failed for no reason, or the
\* updater has come strictly nearer to the bound of all latencies.
RoundsComeNearer ==
    \A u \in Updaters :
        /\ SwapFails(u, "minimum", "swap_min", "load_max") =>
              \/ IsCurrent(u, "minimum") /\ current'[u] = current[u]
              \/ current'[u] < current[u]
        /\ SwapFails(u, "maximum", "swap_max", "return") =>
              \/ IsCurrent(u, "maximum") /\ current'[u] = current[u]
              \/ current'[u] > current[u]

\* By what the comparison says.
LEMMA FailedSwap ==
    ASSUME SafeMetrics, SafeLoops
    PROVE  RoundsComeNearer
<1> SUFFICES ASSUME NEW u \in Updaters
             PROVE  /\ SwapFails(u, "minimum", "swap_min", "load_max") =>
                          \/ /\ IsCurrent(u, "minimum")
                             /\ current'[u] = current[u]
                          \/ current'[u] < current[u]
                    /\ SwapFails(u, "maximum", "swap_max", "return") =>
                          \/ /\ IsCurrent(u, "maximum")
                             /\ current'[u] = current[u]
                          \/ current'[u] > current[u]
  BY DEF RoundsComeNearer
<1>1. /\ current[u] \in Nat
      /\ metrics["minimum"] \in Nat /\ metrics["maximum"] \in Nat
      /\ ComparedWasExtreme(u)
  BY StateOf DEF SafeLoops
<1>2. ASSUME SwapFails(u, "minimum", "swap_min", "load_max")
      PROVE  /\ current'[u] = metrics["minimum"]
             /\ metrics["minimum"] <= current[u]
  BY <1>1, <1>2 DEF SwapFails, Reread, ComparedWasExtreme, SafeMetrics, TypeOK
<1>3. ASSUME SwapFails(u, "maximum", "swap_max", "return")
      PROVE  /\ current'[u] = metrics["maximum"]
             /\ current[u] <= metrics["maximum"]
  BY <1>1, <1>3 DEF SwapFails, Reread, ComparedWasExtreme, SafeMetrics, TypeOK
<1> QED
  BY <1>1, <1>2, <1>3 DEF IsCurrent

\* The part of ReportsEnd that does not rest on fairness.  A round that the
\* updater owes to another one takes the value it compares a step down (up,
\* for the maximum) among the latencies there can be; so it owes the others
\* at most one round for each latency, however many they are, and all further
\* ones to an exchange that fails without a reason.
THEOREM RetriesAreBounded == Spec => /\ []SafeLoops
                                     /\ [][RoundsComeNearer]_vars
<1>1. Init => SafeLoops
  BY DEF Init, SafeLoops, ComparedWasExtreme
<1>2. /\ SafeMetrics /\ SafeLoops /\ [Next]_vars => SafeLoops'
      /\ SafeMetrics /\ SafeLoops /\ [Next]_vars => [RoundsComeNearer]_vars
  BY NextSafeLoops, FailedSwap
<1> QED
  BY <1>1, <1>2, MetricsSafe, PTL DEF Spec
=============================================================================
