---------------------------- MODULE Base64Table ----------------------------
(***************************************************************************)
(* The static table of decode_base64 (src/parser.c), which the first call  *)
(* fills in without a lock, used by the network threads of mode "dual".    *)
(* Every access to the table or to its flag is a step.  They are taken to  *)
(* happen in program order; a build that moves the flag before the entries *)
(* only adds behaviours.                                                   *)
(*                                                                         *)
(* How the values become bytes is in Base64.                               *)
(***************************************************************************)
EXTENDS Integers, Sequences

CONSTANTS
    Threads,    \* the network threads
    Alphabet,   \* the characters with a value, in the order of their values
    Pad,        \* '='
    Texts       \* what may be decoded: sequences over the alphabet

VARIABLES
    table,          \* base64_table
    initialized,    \* base64_table_initialized
    pc,             \* pc[t]: the next step of thread t
    i,              \* i[t]: its loop variable
    text,           \* text[t]: its input
    read            \* read[t]: the values it has taken from the table

vars == <<table, initialized, pc, i, text, read>>

Chars == {Alphabet[k] : k \in DOMAIN Alphabet} \cup {Pad}

\* The bytes of the table in the order of the loop that resets them: '=' has
\* a smaller code than the letters of the instance.
Entries == <<Pad>> \o Alphabet

Init ==
    /\ table = [ch \in Chars |-> 0]
    /\ initialized = FALSE
    /\ pc = [t \in Threads |-> "idle"]
    /\ i = [t \in Threads |-> 1]
    /\ text = [t \in Threads |-> <<>>]
    /\ read = [t \in Threads |-> <<>>]

Goto(t, step) ==
    /\ pc' = [pc EXCEPT ![t] = step]
    /\ i' = [i EXCEPT ![t] = 1]

\* A loop: on to the next index, or to the step after the loop.
Advance(t, last, next) ==
    IF i[t] < last
    THEN i' = [i EXCEPT ![t] = @ + 1] /\ UNCHANGED pc
    ELSE Goto(t, next)

\* decode_base64 is called, and the flag is looked at.
Call(t) ==
    /\ pc[t] = "idle"
    /\ text' \in {[text EXCEPT ![t] = x] : x \in Texts}
    /\ read' = [read EXCEPT ![t] = <<>>]
    /\ Goto(t, IF initialized THEN "decode" ELSE "reset")
    /\ UNCHANGED <<table, initialized>>

Reset(t) ==
    /\ pc[t] = "reset"
    /\ table' = [table EXCEPT ![Entries[i[t]]] = -1]
    /\ Advance(t, Len(Entries), "fill")
    /\ UNCHANGED <<initialized, text, read>>

Fill(t) ==
    /\ pc[t] = "fill"
    /\ table' = [table EXCEPT ![Alphabet[i[t]]] = i[t] - 1]
    /\ Advance(t, Len(Alphabet), "fill_pad")
    /\ UNCHANGED <<initialized, text, read>>

FillPad(t) ==
    /\ pc[t] = "fill_pad"
    /\ table' = [table EXCEPT ![Pad] = 0]
    /\ Goto(t, "flag")
    /\ UNCHANGED <<initialized, text, read>>

SetFlag(t) ==
    /\ pc[t] = "flag"
    /\ initialized' = TRUE
    /\ Goto(t, "decode")
    /\ UNCHANGED <<table, text, read>>

\* A character without a value ends the text.
Decode(t) ==
    /\ pc[t] = "decode"
    /\ LET value == table[text[t][i[t]]]
       IN  IF value = -1
           THEN Goto(t, "done") /\ UNCHANGED read
           ELSE /\ read' = [read EXCEPT ![t] = Append(@, value)]
                /\ Advance(t, Len(text[t]), "done")
    /\ UNCHANGED <<table, initialized, text>>

Return(t) ==
    /\ pc[t] = "done"
    /\ Goto(t, "idle")
    /\ UNCHANGED <<table, initialized, text, read>>

Next ==
    \E t \in Threads :
        \/ Call(t) \/ Reset(t) \/ Fill(t) \/ FillPad(t) \/ SetFlag(t)
        \/ Decode(t) \/ Return(t)

Spec == Init /\ [][Next]_vars
-----------------------------------------------------------------------------
\* README.md:14, "Base64 decoding of `Program data:` payloads", in a mode that
\* keeps both threads active (README.md:106): a call that has returned has
\* read the value of every character.
WholeTextDecoded ==
    \A t \in Threads : pc[t] = "done" =>
        /\ Len(read[t]) = Len(text[t])
        /\ \A k \in DOMAIN text[t] : Alphabet[read[t][k] + 1] = text[t][k]
=============================================================================
