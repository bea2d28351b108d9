----------------------------- MODULE MCMetrics -----------------------------
(***************************************************************************)
(* The instance of Metrics for TLC: two updaters, where the program has    *)
(* one, with three requests between them.                                  *)
(***************************************************************************)
EXTENDS Metrics

TwoAndOne == [u \in Updaters |-> IF u = "u1" THEN 2 ELSE 1]

TwoReports ==
    {[ok |-> TRUE, latency |-> 2, events |-> 1],
     [ok |-> FALSE, latency |-> 3, events |-> 0]}
=============================================================================
