-------------------------- MODULE EventQueueProofs --------------------------
(***************************************************************************)
(* Proofs about EventQueue for any finite sets of threads, any events and  *)
(* any capacity: types, the arithmetic of the ring, the close and the two  *)
(* no-lost-wakeup invariants, and the refinement of BoundedFifo.           *)
(***************************************************************************)
EXTENDS EventQueue, FiniteSetTheorems, SequenceTheorems, TLAPS

\* A signal only ever shrinks the set of sleepers, by one thread if any.
LEMMA SignalEffect ==
    ASSUME NEW W, NEW V \in AfterSignal(W)
    PROVE  \/ W = {} /\ V = {}
           \/ \E t \in W : V = W \ {t}
  BY DEF AfterSignal
-----------------------------------------------------------------------------
(* Types.                                                                  *)

\* A push keeps the types, whether it waits, is refused or stores.
LEMMA PushType ==
    ASSUME TypeOK, NEW p \in Producers, NEW e \in Events, Push(p, e)
    PROVE  TypeOK'
<1> USE QueueAssumption DEF TypeOK, ring, Slots
<1>1. CASE PushBlocks(p, e)
  BY <1>1 DEF PushBlocks, PushTurn
<1>2. CASE PushRefused(p, e)
  BY <1>2 DEF PushRefused, PushTurn
<1>3. CASE PushAccepted(p, e)
  <2> USE <1>3 DEF PushAccepted, StoreEvent, PushTurn
  <2>1. tail' \in Slots /\ size' \in 0 .. Capacity
    BY DEF Advance
  <2>2. waitPop' \in SUBSET popping'
    BY SignalEffect
  <2>3. waitPush' \in SUBSET {q \in Producers : pushing'[q] # NoEvent}
    OBVIOUS
  <2> QED
    BY <2>1, <2>2, <2>3
<1> QED
  BY <1>1, <1>2, <1>3 DEF Push

\* So does a pop.
LEMMA PopType ==
    ASSUME TypeOK, NEW c \in Consumers, Pop(c)
    PROVE  TypeOK'
<1> USE QueueAssumption DEF TypeOK, ring, Slots
<1>1. CASE PopBlocks(c)
  BY <1>1 DEF PopBlocks, PopTurn
<1>2. CASE PopExhausted(c)
  BY <1>2 DEF PopExhausted, PopTurn
<1>3. CASE PopTakes(c)
  <2> USE <1>3 DEF PopTakes, PopTurn
  <2>1. head' \in Slots /\ size' \in 0 .. Capacity
    BY DEF Advance
  <2>2. waitPush' \in SUBSET {q \in Producers : pushing'[q] # NoEvent}
    BY SignalEffect
  <2>3. waitPop' \in SUBSET popping'
    OBVIOUS
  <2>4. buffer[head] \in Events \cup {NoEvent}
    OBVIOUS
  <2> QED
    BY <2>1, <2>2, <2>3, <2>4
<1> QED
  BY <1>1, <1>2, <1>3 DEF Pop

\* TypeOK is inductive: in particular size never passes the capacity and both
\* indices stay inside the buffer.
THEOREM TypeCorrect == Spec => []TypeOK
<1>1. Init => TypeOK
  <2> SUFFICES ASSUME Init PROVE TypeOK
    OBVIOUS
  <2>1. 0 \in Slots /\ size \in 0 .. Capacity
    BY QueueAssumption DEF Init, Slots
  <2>2. pushRet \in [Producers -> {0, -1}]
    BY DEF Init
  <2> QED
    BY <2>1, <2>2 DEF Init, TypeOK
<1>2. TypeOK /\ [Next]_vars => TypeOK'
  <2> SUFFICES ASSUME TypeOK, [Next]_vars PROVE TypeOK'
    OBVIOUS
  <2>1. ASSUME NEW p \in Producers, NEW e \in Events, Push(p, e) PROVE TypeOK'
    BY <2>1, PushType
  <2>2. ASSUME NEW c \in Consumers, Pop(c) PROVE TypeOK'
    BY <2>2, PopType
  <2>3. CASE Close
    BY <2>3 DEF Close, TypeOK, ring, Slots
  <2>4. CASE SpuriousWake
    BY <2>4 DEF SpuriousWake, TypeOK, ring, Slots
  <2>5. CASE UNCHANGED vars
    BY <2>5 DEF vars, TypeOK, ring, Slots
  <2> QED
    BY <2>1, <2>2, <2>3, <2>4, <2>5 DEF Next
<1> QED
  BY <1>1, <1>2, PTL DEF Spec
-----------------------------------------------------------------------------
(* The arithmetic of the ring.                                             *)

\* Positions are at most one lap ahead of a slot, where the remainder is a
\* case distinction.
LEMMA LapArithmetic ==
    ASSUME NEW a \in Nat, a < 2 * Capacity
    PROVE  a % Capacity = IF a < Capacity THEN a ELSE a - Capacity
<1>1. CASE a < Capacity
  BY <1>1, QueueAssumption
<1>2. CASE a >= Capacity
  BY <1>2, QueueAssumption
<1> QED
  BY <1>1, <1>2, QueueAssumption

\* One step around the ring, as a number.
LEMMA AdvanceValue ==
    ASSUME NEW i \in Slots
    PROVE  Advance(i) = IF i = Capacity - 1 THEN 0 ELSE i + 1
  BY LapArithmetic, QueueAssumption DEF Advance, Slots

\* Whatever the interleaving, `tail` is `size` slots ahead of `head`.
THEOREM RingStaysConsistent == Spec => []RingConsistent
<1> USE QueueAssumption
<1>1. Init => RingConsistent
  BY LapArithmetic DEF Init, RingConsistent
<1>2. TypeOK /\ RingConsistent /\ [Next]_vars => RingConsistent'
  <2> SUFFICES ASSUME TypeOK, RingConsistent, [Next]_vars
               PROVE  RingConsistent'
    OBVIOUS
  <2> USE DEF RingConsistent
  <2>0. head \in Slots /\ tail \in Slots /\ size \in 0 .. Capacity
    BY DEF TypeOK
  <2>1. ASSUME NEW p \in Producers, NEW e \in Events, PushAccepted(p, e)
        PROVE  RingConsistent'
    <3>1. size < Capacity /\ size' = size + 1 /\ head' = head
          /\ tail' = Advance(tail)
      BY <2>0, <2>1 DEF PushAccepted, StoreEvent
    <3>2. head + size \in Nat /\ head + size + 1 < 2 * Capacity
      BY <3>1, <2>0 DEF Slots
    <3>3. (head + size) % Capacity =
            IF head + size < Capacity THEN head + size
                                      ELSE head + size - Capacity
      BY <3>2, <2>0, LapArithmetic DEF Slots
    <3>4. (head + size + 1) % Capacity =
            IF head + size + 1 < Capacity THEN head + size + 1
                                          ELSE head + size + 1 - Capacity
      BY <3>2, <2>0, LapArithmetic DEF Slots
    <3>5. tail' = IF tail = Capacity - 1 THEN 0 ELSE tail + 1
      BY <3>1, <2>0, AdvanceValue
    <3>6. tail' = (head + size + 1) % Capacity
      BY <3>3, <3>4, <3>5, <2>0 DEF Slots
    <3>7. head + size + 1 = head' + size'
      BY <3>1, <2>0 DEF Slots
    <3> QED
      BY <3>6, <3>7
  <2>2. ASSUME NEW c \in Consumers, PopTakes(c)
        PROVE  RingConsistent'
    <3>1. size > 0 /\ size' = size - 1 /\ tail' = tail
          /\ head' = Advance(head)
      BY <2>0, <2>2 DEF PopTakes
    <3>2. head' = IF head = Capacity - 1 THEN 0 ELSE head + 1
      BY <3>1, <2>0, AdvanceValue
    <3>3. /\ head + size \in Nat /\ head + size < 2 * Capacity
          /\ head' + size' \in Nat /\ head' + size' < 2 * Capacity
      BY <3>1, <3>2, <2>0 DEF Slots
    <3>4. (head + size) % Capacity =
            IF head + size < Capacity THEN head + size
                                      ELSE head + size - Capacity
      BY <2>0, <3>1, <3>2, <3>3, LapArithmetic DEF Slots
    <3>5. (head' + size') % Capacity =
            IF head' + size' < Capacity THEN head' + size'
                                        ELSE head' + size' - Capacity
      BY <2>0, <3>1, <3>2, <3>3, LapArithmetic DEF Slots
    <3> QED
      BY <3>1, <3>2, <3>4, <3>5, <2>0 DEF Slots
  <2>3. CASE UNCHANGED ring
    BY <2>3 DEF ring
  <2> QED
    BY <2>1, <2>2, <2>3
    DEF Next, Push, Pop, PushBlocks, PushRefused, PopBlocks, PopExhausted,
        Close, SpuriousWake, vars
<1> QED
  BY <1>1, <1>2, TypeCorrect, PTL DEF Spec
-----------------------------------------------------------------------------
(* Wakeups.                                                                *)

\* After the close nobody sleeps on either condition variable: the loop
\* conditions of push and pop both test `closed` before they wait.
THEOREM CloseWakesEverybody == Spec => []NobodySleepsInClosedQueue
<1> USE DEF NobodySleepsInClosedQueue
<1>1. Init => NobodySleepsInClosedQueue
  BY DEF Init
<1>2. NobodySleepsInClosedQueue /\ [Next]_vars => NobodySleepsInClosedQueue'
  <2> SUFFICES ASSUME NobodySleepsInClosedQueue, [Next]_vars
               PROVE  NobodySleepsInClosedQueue'
    OBVIOUS
  <2>1. ASSUME NEW p \in Producers, NEW e \in Events, Push(p, e)
        PROVE  NobodySleepsInClosedQueue'
    BY <2>1, SignalEffect
    DEF Push, PushBlocks, PushRefused, PushAccepted, StoreEvent
  <2>2. ASSUME NEW c \in Consumers, Pop(c)
        PROVE  NobodySleepsInClosedQueue'
    BY <2>2, SignalEffect DEF Pop, PopBlocks, PopExhausted, PopTakes
  <2>3. CASE Close
    BY <2>3 DEF Close
  <2>4. CASE SpuriousWake
    BY <2>4 DEF SpuriousWake
  <2>5. CASE UNCHANGED vars
    BY <2>5 DEF vars
  <2> QED
    BY <2>1, <2>2, <2>3, <2>4, <2>5 DEF Next
<1> QED
  BY <1>1, <1>2, PTL DEF Spec

\* The sets of threads the wakeup counts are about are finite.
LEMMA ThreadSetsFinite ==
    ASSUME NEW S, S \in SUBSET Consumers \/ S \in SUBSET Producers
    PROVE  IsFiniteSet(S) /\ Cardinality(S) \in Nat
  BY FS_Subset, FS_CardinalityType, QueueAssumption

\* Cardinality of a set without one of its elements.
LEMMA RemoveOneCard ==
    ASSUME NEW S, IsFiniteSet(S), Cardinality(S) \in Nat, NEW x
    PROVE  Cardinality(S \ {x}) >= Cardinality(S) - 1
<1>1. Cardinality(S \ {x}) = IF x \in S THEN Cardinality(S) - 1
                                        ELSE Cardinality(S)
  BY FS_RemoveElement
<1> QED
  BY <1>1

\* No lost wakeup for the consumers.  A push wakes one sleeper for its event;
\* a consumer that leaves with an event takes one away; the others matter to
\* neither side of the inequality.
THEOREM NoLostPopWakeup == Spec => []EveryEventHasAwakeConsumer
<1> USE DEF EveryEventHasAwakeConsumer
<1>1. Init => EveryEventHasAwakeConsumer
  BY DEF Init
<1>2. TypeOK /\ TypeOK' /\ EveryEventHasAwakeConsumer /\ [Next]_vars
        => EveryEventHasAwakeConsumer'
  <2> SUFFICES ASSUME TypeOK, TypeOK', EveryEventHasAwakeConsumer,
                      [Next]_vars, waitPop' # {}
               PROVE  Cardinality(AwakePoppers') >= size'
    OBVIOUS
  <2>0. /\ size \in Nat /\ size' \in Nat
        /\ waitPop \in SUBSET popping
        /\ IsFiniteSet(AwakePoppers) /\ Cardinality(AwakePoppers) \in Nat
        /\ Cardinality(AwakePoppers') \in Nat
    <3>1. /\ AwakePoppers \in SUBSET Consumers
          /\ AwakePoppers' \in SUBSET Consumers
      BY DEF TypeOK, AwakePoppers
    <3>2. size \in Nat /\ size' \in Nat /\ waitPop \in SUBSET popping
      BY QueueAssumption DEF TypeOK
    <3> QED
      BY <3>1, <3>2, ThreadSetsFinite
  <2>1. ASSUME NEW p \in Producers, NEW e \in Events, PushAccepted(p, e)
        PROVE  Cardinality(AwakePoppers') >= size'
    <3>1. PICK t \in waitPop : waitPop' = waitPop \ {t}
      BY <2>1, SignalEffect DEF PushAccepted, StoreEvent
    <3>2. AwakePoppers' = AwakePoppers \cup {t} /\ t \notin AwakePoppers
      BY <3>1, <2>0, <2>1 DEF PushAccepted, StoreEvent, AwakePoppers
    <3>3. Cardinality(AwakePoppers') = Cardinality(AwakePoppers) + 1
      BY <3>2, <2>0, FS_AddElement
    <3> QED
      BY <3>1, <3>3, <2>0, <2>1 DEF PushAccepted, StoreEvent
  <2>2. ASSUME NEW c \in Consumers, PopTakes(c)
        PROVE  Cardinality(AwakePoppers') >= size'
    <3>1. AwakePoppers' = AwakePoppers \ {c} /\ waitPop # {}
      BY <2>2 DEF PopTakes, PopTurn, AwakePoppers
    <3>2. Cardinality(AwakePoppers') >= Cardinality(AwakePoppers) - 1
      BY <3>1, <2>0, RemoveOneCard
    <3> QED
      BY <3>1, <3>2, <2>0, <2>2 DEF PopTakes
  <2>3. ASSUME NEW c \in Consumers, PopBlocks(c) \/ PopExhausted(c)
        PROVE  Cardinality(AwakePoppers') >= size'
    BY <2>3, <2>0 DEF PopBlocks, PopExhausted, ring
  <2>4. CASE SpuriousWake
    <3>1. CASE waitPop' = waitPop
      BY <3>1, <2>0, <2>4 DEF SpuriousWake, AwakePoppers, ring
    <3>2. CASE waitPop' # waitPop
      <4>1. PICK t \in waitPop : waitPop' = waitPop \ {t}
        BY <3>2, <2>4 DEF SpuriousWake
      <4>2. AwakePoppers' = AwakePoppers \cup {t} /\ t \notin AwakePoppers
        BY <4>1, <2>0, <2>4 DEF SpuriousWake, AwakePoppers
      <4>3. Cardinality(AwakePoppers') = Cardinality(AwakePoppers) + 1
        BY <4>2, <2>0, FS_AddElement
      <4> QED
        BY <4>1, <4>3, <2>0, <2>4 DEF SpuriousWake, ring
    <3> QED
      BY <3>1, <3>2
  <2>5. CASE UNCHANGED <<size, popping, waitPop>>
    BY <2>5 DEF AwakePoppers
  <2> QED
    BY <2>1, <2>2, <2>3, <2>4, <2>5
    DEF Next, Push, Pop, PushBlocks, PushRefused, Close, vars, ring
<1> QED
  BY <1>1, <1>2, TypeCorrect, PTL DEF Spec

\* No lost wakeup for the producers, by the same count on free slots.  A
\* refused push leaves without taking a slot, but then the queue is closed
\* and nobody is asleep.
THEOREM NoLostPushWakeup == Spec => []EverySlotHasAwakeProducer
<1> USE DEF EverySlotHasAwakeProducer
<1>1. Init => EverySlotHasAwakeProducer
  BY DEF Init
<1>2. TypeOK /\ TypeOK' /\ NobodySleepsInClosedQueue
      /\ EverySlotHasAwakeProducer /\ [Next]_vars
        => EverySlotHasAwakeProducer'
  <2> SUFFICES ASSUME TypeOK, TypeOK', NobodySleepsInClosedQueue,
                      EverySlotHasAwakeProducer, [Next]_vars, waitPush' # {}
               PROVE  Cardinality(AwakePushers') >= Capacity - size'
    OBVIOUS
  <2>0. /\ size \in 0 .. Capacity /\ size' \in 0 .. Capacity
        /\ Capacity \in Nat
        /\ waitPush \in SUBSET {q \in Producers : pushing[q] # NoEvent}
        /\ pushing \in [Producers -> Events \cup {NoEvent}]
        /\ IsFiniteSet(AwakePushers) /\ Cardinality(AwakePushers) \in Nat
        /\ Cardinality(AwakePushers') \in Nat
    <3>1. /\ AwakePushers \in SUBSET Producers
          /\ AwakePushers' \in SUBSET Producers
      BY DEF AwakePushers
    <3>2. /\ IsFiniteSet(AwakePushers) /\ Cardinality(AwakePushers) \in Nat
          /\ Cardinality(AwakePushers') \in Nat
      BY <3>1, ThreadSetsFinite
    <3> QED
      BY <3>2, QueueAssumption DEF TypeOK
  <2>1. ASSUME NEW p \in Producers, NEW e \in Events, PushAccepted(p, e)
        PROVE  Cardinality(AwakePushers') >= Capacity - size'
    <3>1. AwakePushers' = AwakePushers \ {p} /\ waitPush # {}
      BY <2>0, <2>1 DEF PushAccepted, StoreEvent, PushTurn, AwakePushers
    <3>2. Cardinality(AwakePushers') >= Cardinality(AwakePushers) - 1
      BY <3>1, <2>0, RemoveOneCard
    <3> QED
      BY <3>1, <3>2, <2>0, <2>1 DEF PushAccepted, StoreEvent
  <2>2. ASSUME NEW p \in Producers, NEW e \in Events, PushBlocks(p, e)
        PROVE  Cardinality(AwakePushers') >= Capacity - size'
    BY <2>0, <2>2 DEF PushBlocks, ring
  <2>3. ASSUME NEW p \in Producers, NEW e \in Events, PushRefused(p, e)
        PROVE  FALSE
    BY <2>3 DEF PushRefused, NobodySleepsInClosedQueue
  <2>4. ASSUME NEW c \in Consumers, PopTakes(c)
        PROVE  Cardinality(AwakePushers') >= Capacity - size'
    <3>1. PICK t \in waitPush : waitPush' = waitPush \ {t}
      BY <2>4, SignalEffect DEF PopTakes
    <3>2. AwakePushers' = AwakePushers \cup {t} /\ t \notin AwakePushers
      BY <3>1, <2>0, <2>4 DEF PopTakes, AwakePushers
    <3>3. Cardinality(AwakePushers') = Cardinality(AwakePushers) + 1
      BY <3>2, <2>0, FS_AddElement
    <3> QED
      BY <3>1, <3>3, <2>0, <2>4 DEF PopTakes
  <2>5. CASE SpuriousWake
    <3>1. CASE waitPush' = waitPush
      BY <3>1, <2>0, <2>5 DEF SpuriousWake, AwakePushers, ring
    <3>2. CASE waitPush' # waitPush
      <4>1. PICK t \in waitPush : waitPush' = waitPush \ {t}
        BY <3>2, <2>5 DEF SpuriousWake
      <4>2. AwakePushers' = AwakePushers \cup {t} /\ t \notin AwakePushers
        BY <4>1, <2>0, <2>5 DEF SpuriousWake, AwakePushers
      <4>3. Cardinality(AwakePushers') = Cardinality(AwakePushers) + 1
        BY <4>2, <2>0, FS_AddElement
      <4> QED
        BY <4>1, <4>3, <2>0, <2>5 DEF SpuriousWake, ring
    <3> QED
      BY <3>1, <3>2
  <2>6. CASE UNCHANGED <<size, pushing, waitPush>>
    BY <2>6 DEF AwakePushers
  <2> QED
    BY <2>1, <2>2, <2>3, <2>4, <2>5, <2>6
    DEF Next, Push, Pop, PopBlocks, PopExhausted, Close, vars, ring
<1> QED
  BY <1>1, <1>2, TypeCorrect, CloseWakesEverybody, PTL DEF Spec
-----------------------------------------------------------------------------
(* The ring implements the bounded closable queue.                         *)

SlotOf(i) == (head + i - 1) % Capacity

\* The slot of an offset from the head, as a number.
LEMMA SlotOfValue ==
    ASSUME TypeOK, NEW i \in 1 .. Capacity
    PROVE  SlotOf(i) = IF head + i - 1 < Capacity THEN head + i - 1
                                                  ELSE head + i - 1 - Capacity
<1>1. head \in 0 .. Capacity - 1
  BY DEF TypeOK, Slots
<1>2. head + i - 1 \in Nat /\ head + i - 1 < 2 * Capacity
  BY <1>1, QueueAssumption
<1> QED
  BY <1>1, <1>2, LapArithmetic, QueueAssumption DEF SlotOf

\* The ring's events form a sequence of `size' events.
LEMMA ItemsShape ==
    ASSUME TypeOK
    PROVE  /\ Items \in Seq(Events \cup {NoEvent})
           /\ Len(Items) = size
           /\ \A i \in 1 .. size : Items[i] = buffer[SlotOf(i)]
<1>1. size \in Nat /\ size <= Capacity
  BY QueueAssumption DEF TypeOK
<1>2. ASSUME NEW i \in 1 .. size
      PROVE  buffer[SlotOf(i)] \in Events \cup {NoEvent}
  <2>1. i \in 1 .. Capacity
    BY <1>1, QueueAssumption
  <2>2. SlotOf(i) \in Slots
    BY <2>1, SlotOfValue, QueueAssumption DEF TypeOK, Slots
  <2> QED
    BY <2>2 DEF TypeOK
<1>3. Items = [i \in 1 .. size |-> buffer[SlotOf(i)]]
  BY DEF Items, SlotOf
<1>4. Items \in [1 .. size -> Events \cup {NoEvent}]
  BY <1>2, <1>3
<1>5. Items \in Seq(Events \cup {NoEvent})
  BY <1>1, <1>4, SeqDef
<1>6. Len(Items) = size
  BY <1>1, <1>4, <1>5, LenProperties
<1> QED
  BY <1>3, <1>5, <1>6

\* The slot that a push fills is none of the slots in use, so the events in
\* use stay where they are.
LEMMA PushAppends ==
    ASSUME TypeOK, TypeOK', RingConsistent,
           NEW p \in Producers, NEW e \in Events, PushAccepted(p, e)
    PROVE  Items' = Append(Items, e)
<1>1. /\ size \in Nat /\ size < Capacity /\ size' = size + 1
      /\ head \in 0 .. Capacity - 1 /\ head' = head
      /\ buffer' = [buffer EXCEPT ![tail] = e]
      /\ tail \in Slots /\ buffer \in [Slots -> Events \cup {NoEvent}]
  BY QueueAssumption DEF PushAccepted, StoreEvent, TypeOK, Slots
<1>2. tail = SlotOf(size + 1)
  BY <1>1, QueueAssumption DEF RingConsistent, SlotOf
<1>3. Items' = [i \in 1 .. size + 1 |-> buffer'[SlotOf(i)]]
  BY <1>1 DEF Items, SlotOf
<1>4. ASSUME NEW i \in 1 .. size + 1
      PROVE  buffer'[SlotOf(i)] = IF i = size + 1 THEN e ELSE Items[i]
  <2>1. i \in 1 .. Capacity /\ size + 1 \in 1 .. Capacity
    BY <1>1, QueueAssumption
  <2>2. SlotOf(i) \in Slots
    BY <1>1, <2>1, SlotOfValue, QueueAssumption DEF Slots
  <2>3. CASE i = size + 1
    BY <1>1, <1>2, <2>3
  <2>4. CASE i # size + 1
    <3>1. SlotOf(i) # tail
      BY <1>1, <1>2, <2>1, <2>4, SlotOfValue, QueueAssumption
    <3>2. i \in 1 .. size
      BY <1>1, <2>4
    <3> QED
      BY <1>1, <2>2, <2>4, <3>1, <3>2, ItemsShape
  <2> QED
    BY <2>3, <2>4
<1>5. Append(Items, e) = [i \in 1 .. size + 1 |->
                              IF i = size + 1 THEN e ELSE Items[i]]
  <2>1. Append(Items, e) \in Seq(Events \cup {NoEvent})
        /\ Len(Append(Items, e)) = size + 1
        /\ \A i \in 1 .. size : Append(Items, e)[i] = Items[i]
        /\ Append(Items, e)[size + 1] = e
    BY ItemsShape, AppendProperties
  <2>2. Append(Items, e) \in [1 .. size + 1 -> Events \cup {NoEvent}]
    BY <2>1, LenProperties
  <2>3. ASSUME NEW i \in 1 .. size + 1
        PROVE  Append(Items, e)[i] = IF i = size + 1 THEN e ELSE Items[i]
    <3>1. i = size + 1 \/ i \in 1 .. size
      BY <1>1
    <3> QED
      BY <1>1, <2>1, <3>1
  <2> QED
    BY <2>2, <2>3
<1> QED
  BY <1>3, <1>4, <1>5

\* Taking the head leaves the rest of the events, one position earlier.
LEMMA PopBeheads ==
    ASSUME TypeOK, TypeOK', NEW c \in Consumers, PopTakes(c)
    PROVE  /\ Items # <<>>
           /\ Head(Items) = buffer[head]
           /\ Items' = Tail(Items)
<1>1. /\ size \in Nat /\ size > 0 /\ size <= Capacity /\ size' = size - 1
      /\ head \in 0 .. Capacity - 1 /\ head' = Advance(head)
      /\ buffer' = buffer
  BY QueueAssumption DEF PopTakes, TypeOK, Slots
<1>2. Items \in Seq(Events \cup {NoEvent}) /\ Len(Items) = size
  BY ItemsShape
<1>3. Items # <<>> /\ Head(Items) = Items[1]
  BY <1>1, <1>2
<1>4. SlotOf(1) = head
  BY <1>1, SlotOfValue, QueueAssumption
<1>5. Head(Items) = buffer[head]
  BY <1>1, <1>3, <1>4, ItemsShape
<1>6. ASSUME NEW i \in 1 .. size - 1
      PROVE  (head' + i - 1) % Capacity = SlotOf(i + 1)
  <2>1. head' = IF head = Capacity - 1 THEN 0 ELSE head + 1
    BY <1>1, AdvanceValue DEF Slots
  <2>2. i + 1 \in 1 .. Capacity
    BY <1>1, QueueAssumption
  <2>3. head' + i - 1 \in Nat /\ head' + i - 1 < 2 * Capacity
    BY <1>1, <2>1, QueueAssumption
  <2>4. (head' + i - 1) % Capacity =
          IF head' + i - 1 < Capacity THEN head' + i - 1
                                      ELSE head' + i - 1 - Capacity
    BY <1>1, <2>1, <2>3, LapArithmetic, QueueAssumption
  <2> QED
    BY <1>1, <2>1, <2>2, <2>4, SlotOfValue, QueueAssumption
<1>7. Items' = [i \in 1 .. size - 1 |-> buffer[(head' + i - 1) % Capacity]]
  BY <1>1 DEF Items
<1>8. Items' = [i \in 1 .. size - 1 |-> Items[i + 1]]
  <2>1. ASSUME NEW i \in 1 .. size - 1
        PROVE  Items[i + 1] = buffer[SlotOf(i + 1)]
    <3>1. i + 1 \in 1 .. size
      BY <1>1
    <3> QED
      BY <3>1, ItemsShape
  <2> QED
    BY <1>6, <1>7, <2>1
<1>9. Tail(Items) = [i \in 1 .. size - 1 |-> Items[i + 1]]
  <2>1. Tail(Items) \in Seq(Events \cup {NoEvent})
        /\ Len(Tail(Items)) = size - 1
        /\ \A i \in 1 .. size - 1 : Tail(Items)[i] = Items[i + 1]
    BY <1>1, <1>2, <1>3, HeadTailProperties
  <2>2. Tail(Items) \in [1 .. size - 1 -> Events \cup {NoEvent}]
    BY <2>1, LenProperties
  <2> QED
    BY <2>1, <2>2
<1> QED
  BY <1>3, <1>5, <1>8, <1>9

\* Every step of the ring is a step of the abstract queue or leaves it alone:
\* blocking, waking and sleeping are invisible to the callers.
THEOREM RingImplementsFifo == Spec => ImplementsFifo
<1>1. Init => Fifo!Init
  <2> SUFFICES ASSUME Init PROVE Items = <<>>
    BY DEF Init, Fifo!Init
  <2> QED
    BY DEF Init, Items
<1>2. TypeOK /\ TypeOK' /\ RingConsistent /\ [Next]_vars
        => [Fifo!Next]_Fifo!fifoVars
  <2> SUFFICES ASSUME TypeOK, TypeOK', RingConsistent, [Next]_vars
               PROVE  [Fifo!Next]_Fifo!fifoVars
    OBVIOUS
  <2> USE DEF Fifo!Next, Fifo!fifoVars
  <2>1. ASSUME NEW p \in Producers, NEW e \in Events, PushAccepted(p, e)
        PROVE  Fifo!Accept(p, e)
    <3>1. Len(Items) < Capacity
      BY <2>1, ItemsShape, QueueAssumption DEF PushAccepted, StoreEvent, TypeOK
    <3> QED
      BY <2>1, <3>1, PushAppends DEF PushAccepted, StoreEvent, Fifo!Accept
  <2>2. ASSUME NEW p \in Producers, NEW e \in Events, PushRefused(p, e)
        PROVE  Fifo!Refuse(p)
    BY <2>2 DEF PushRefused, Fifo!Refuse, ring, Items
  <2>3. ASSUME NEW c \in Consumers, PopTakes(c)
        PROVE  Fifo!Deliver(c)
    BY <2>3, PopBeheads DEF PopTakes, Fifo!Deliver
  <2>4. ASSUME NEW c \in Consumers, PopExhausted(c)
        PROVE  Fifo!Exhausted(c)
    <3>1. Items = <<>>
      BY <2>4, ItemsShape, EmptySeq DEF PopExhausted
    <3> QED
      BY <2>4, <3>1 DEF PopExhausted, Fifo!Exhausted, ring, Items
  <2>5. CASE Close
    BY <2>5 DEF Close, Fifo!Close, ring, Items
  <2>6. CASE UNCHANGED <<ring, closed, pushRet, popRet>>
    BY <2>6 DEF ring, Items
  <2> QED
    BY <2>1, <2>2, <2>3, <2>4, <2>5, <2>6
    DEF Next, Push, Pop, PushBlocks, PopBlocks, SpuriousWake, vars
<1> QED
  BY <1>1, <1>2, TypeCorrect, RingStaysConsistent, PTL
  DEF Spec, ImplementsFifo, Fifo!Spec
=============================================================================
