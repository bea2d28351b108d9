----------------------------- MODULE MCPipeline -----------------------------
(***************************************************************************)
(* The instance of Pipeline for TLC: four logs, answers of two entries     *)
(* (instead of 50), a queue of one slot.                                   *)
(***************************************************************************)
EXTENDS Pipeline

E(slot, signature, programId, logs) ==
    [slot |-> slot, signature |-> signature, programId |-> programId,
     logs |-> logs]

\* The first answer is cut off between two slots, and its events move the
\* cursor to where the second answer begins.  Three programs, and lines that
\* are no events.
CutBetween ==
    <<E(1, "s1", "pump", <<"other">>),
      E(2, "s2", "ray", <<"other", "data">>),
      E(3, "s3", "else", <<"refused", "data">>)>>

\* The first answer is cut off inside a slot, of which the second answer has
\* to begin with what was already read.  Two events of one transaction.
CutInside ==
    <<E(1, "s1", "else", <<>>),
      E(2, "s2", "ray", <<"data", "data">>),
      E(2, "s3", "pump", <<"data">>)>>

\* Transactions without a signature.
Unsigned == <<E(1, "", "ray", <<"data">>), E(2, "", "pump", <<"data">>)>>

\* A slot with as many entries as an answer holds: the later one is out of
\* reach.
Crowded ==
    <<E(1, "s1", "ray", <<"data">>),
      E(1, "s2", "pump", <<"data">>),
      E(2, "s3", "ray", <<"data">>)>>

AllLogs == {CutBetween, CutInside, Unsigned, Crowded}
=============================================================================
