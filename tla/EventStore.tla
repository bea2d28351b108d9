----------------------------- MODULE EventStore -----------------------------
(***************************************************************************)
(* What the client promises the readers of its tables: every row tells of  *)
(* a log line that the chain has confirmed, a row is never changed or      *)
(* removed, and no table has two rows with one signature.  How lines are   *)
(* received, queued, lost or received again, and how often the process is  *)
(* started anew, is not visible here.                                      *)
(***************************************************************************)
VARIABLES
    truths,     \* the rows that the confirmed log lines allow
    rows        \* the rows of all tables

Init == truths = {} /\ rows = {}

Confirmed ==
    /\ truths \subseteq truths'
    /\ UNCHANGED rows

Stored ==
    /\ \E r \in truths \ rows :
          /\ \A s \in rows : s.table # r.table \/ s.signature # r.signature
          /\ rows' = rows \cup {r}
    /\ UNCHANGED truths

Next == Confirmed \/ Stored

Spec == Init /\ [][Next]_<<truths, rows>>
=============================================================================
