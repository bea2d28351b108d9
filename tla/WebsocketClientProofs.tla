------------------------ MODULE WebsocketClientProofs ------------------------
(***************************************************************************)
(* Proofs about WebsocketClient for any backoff values: through every      *)
(* order of callbacks the client's flags agree with the connections of     *)
(* libwebsockets, there is at most one, and its subscription is written    *)
(* once, its callback asked for until then.                                *)
(***************************************************************************)
EXTENDS WebsocketClient, TLAPS

\* Wrapping or not, the doubling never exceeds the ceiling.
LEMMA BackoffBelowCeiling ==
    ASSUME NEW b \in 0 .. BackoffCeiling
    PROVE  NextBackoff(b) \in 0 .. BackoffCeiling
<1> USE BackoffAssumption DEF BackoffCeiling
<1>1. BackoffMin \in Nat /\ BackoffMax \in Nat
  OBVIOUS
<1>2. CASE b < BackoffMax
  <2>1. (b * 2) % UIntValues \in Nat
    BY <1>1
  <2>2. PICK twice \in Nat : (b * 2) % UIntValues = twice
    BY <2>1
  <2>3. NextBackoff(b) = IF twice > BackoffMax THEN BackoffMax ELSE twice
    BY <1>2, <2>2 DEF NextBackoff
  <2> QED
    BY <1>1, <2>3
<1>3. CASE ~(b < BackoffMax)
  BY <1>3 DEF NextBackoff
<1> QED
  BY <1>2, <1>3

\* Where it cannot wrap it never falls below the minimum.
LEMMA BackoffAboveMinimum ==
    ASSUME NoWrap, NEW b \in 0 .. BackoffCeiling, b >= BackoffMin
    PROVE  NextBackoff(b) >= BackoffMin
<1> USE BackoffAssumption DEF BackoffCeiling
<1>1. CASE b < BackoffMax
  <2>1. b \in Nat /\ 2 * b \in Nat /\ 2 * b < UIntValues
    BY <1>1 DEF NoWrap
  <2>2. (b * 2) % UIntValues = b * 2
    BY <2>1
  <2>3. NextBackoff(b) = IF b * 2 > BackoffMax THEN BackoffMax ELSE b * 2
    BY <1>1, <2>2 DEF NextBackoff
  <2> QED
    BY <1>1, <2>1, <2>3
<1>2. CASE ~(b < BackoffMax)
  BY <1>2 DEF NextBackoff
<1> QED
  BY <1>1, <1>2

\* yurei_ws_client_start leaves a client without a connection.
LEMMA InitSafe == Init => SafeConnection
<1> SUFFICES ASSUME Init PROVE SafeConnection
  OBVIOUS
<1> USE DEF Init
<1>1. TypeOK
  <2>1. backoff \in 0 .. BackoffCeiling /\ backoff >= BackoffMin
    BY BackoffAssumption DEF BackoffCeiling
  <2>2. /\ wsi \in BOOLEAN /\ connected \in BOOLEAN
        /\ sendPending \in BOOLEAN /\ writableAsked \in BOOLEAN
    OBVIOUS
  <2>3. running \in BOOLEAN /\ rested \in BOOLEAN
    OBVIOUS
  <2> QED
    BY <2>1, <2>2, <2>3 DEF TypeOK
<1>2. FlagsFollowLinks /\ OneConnection
  BY DEF FlagsFollowLinks, OneConnection, Links
<1>3. SubscribedOnce /\ NoSessionWithoutLink /\ PendingIsAsked
  BY DEF SubscribedOnce, NoSessionWithoutLink, PendingIsAsked
<1> QED
  BY <1>1, <1>2, <1>3 DEF SafeConnection

\* Every step keeps the types.
LEMMA TypesKept == ASSUME TypeOK, [Next]_vars PROVE TypeOK'
<1> USE DEF TypeOK, Next, LoopTop, Callback, vars, ConnectBegins,
            ConnectFails, KeepConnection, LeaveLoop, Idle, Established,
            ConnectionError, Closed, Writeable, Stop, InService,
            Disconnected, SessionGone, ScheduleSubscription, AskWritable,
            Sent, session
<1>1. (loop \in {"top", "service", "ended"})'
  OBVIOUS
<1>2. (running \in BOOLEAN /\ rested \in BOOLEAN)'
  OBVIOUS
<1>3. (wsi \in BOOLEAN /\ connected \in BOOLEAN)'
  OBVIOUS
<1>4. (sendPending \in BOOLEAN /\ writableAsked \in BOOLEAN)'
  OBVIOUS
<1>5. (backoff \in 0 .. BackoffCeiling /\ (NoWrap => backoff >= BackoffMin))'
  <2>1. \/ backoff' = backoff
        \/ backoff' = BackoffMin
        \/ backoff' = NextBackoff(backoff)
    OBVIOUS
  <2>2. BackoffMin \in 0 .. BackoffCeiling /\ BackoffMin >= BackoffMin
    BY BackoffAssumption DEF BackoffCeiling
  <2>3. NoWrap' = NoWrap /\ (0 .. BackoffCeiling)' = 0 .. BackoffCeiling
    BY DEF NoWrap, BackoffCeiling
  <2> QED
    BY <2>1, <2>2, <2>3, BackoffBelowCeiling, BackoffAboveMinimum
<1>6. (connecting \in Nat /\ open \in Nat /\ subscribed \in Nat)'
  OBVIOUS
<1> QED
  BY <1>1, <1>2, <1>3, <1>4, <1>5, <1>6
-----------------------------------------------------------------------------
(* The other conjuncts, action by action.                                  *)
Agreement == /\ FlagsFollowLinks
             /\ OneConnection
             /\ SubscribedOnce
             /\ NoSessionWithoutLink
             /\ PendingIsAsked

\* Without a connection there is nothing that could disagree.
LEMMA NothingLeft ==
    ASSUME connecting' = 0, open' = 0, ~wsi', ~connected',
           subscribed' = 0, ~sendPending'
    PROVE  Agreement'
BY DEF Agreement, FlagsFollowLinks, OneConnection, SubscribedOnce,
       NoSessionWithoutLink, PendingIsAsked, Links

\* The loop connects only when there is no connection at all.
LEMMA ConnectBeginsAgrees ==
    ASSUME SafeConnection, ConnectBegins PROVE Agreement'
<1>1. connecting = 0 /\ open = 0
  BY DEF SafeConnection, TypeOK, FlagsFollowLinks, Links, ConnectBegins,
         NeedsConnection
<1>2. connecting' = 1 /\ open' = 0 /\ wsi' /\ ~connected'
  BY <1>1 DEF ConnectBegins, NeedsConnection
<1>3. subscribed' = 0 /\ ~sendPending'
  BY <1>1 DEF SafeConnection, NoSessionWithoutLink, ConnectBegins, session
<1> QED
  BY <1>2, <1>3 DEF Agreement, FlagsFollowLinks, OneConnection, Links,
                    SubscribedOnce, NoSessionWithoutLink, PendingIsAsked

\* An attempt refused at once leaves nothing behind.
LEMMA ConnectFailsAgrees ==
    ASSUME SafeConnection, ConnectFails PROVE Agreement'
<1>1. connecting = 0 /\ open = 0
  BY DEF SafeConnection, TypeOK, FlagsFollowLinks, Links, ConnectFails,
         NeedsConnection
<1>2. subscribed' = 0 /\ ~sendPending'
  BY <1>1 DEF SafeConnection, NoSessionWithoutLink, ConnectFails, session
<1> QED
  BY <1>1, <1>2, NothingLeft DEF ConnectFails, NeedsConnection

\* The end of the context is the end of its connections.
LEMMA LeaveLoopAgrees ==
    ASSUME SafeConnection, LeaveLoop PROVE Agreement'
<1>1. ~wsi' /\ ~connected'
  BY DEF SafeConnection, TypeOK, FlagsFollowLinks, Links, LeaveLoop,
         Disconnected
<1> QED
  BY <1>1, NothingLeft DEF LeaveLoop, SessionGone

\* The connection being set up becomes the open one, unsubscribed.
LEMMA EstablishedAgrees ==
    ASSUME SafeConnection, Established PROVE Agreement'
<1>1. connecting = 1 /\ open = 0
  BY DEF SafeConnection, TypeOK, OneConnection, Links, Established
<1>2. /\ connecting' = 0 /\ open' = 1
      /\ subscribed' = 0 /\ sendPending' /\ writableAsked'
  BY <1>1 DEF SafeConnection, NoSessionWithoutLink, Established,
              ScheduleSubscription, AskWritable
<1>3. wsi' /\ connected'
  BY <1>1 DEF SafeConnection, FlagsFollowLinks, Links, Established
<1> QED
  BY <1>2, <1>3 DEF Agreement, FlagsFollowLinks, OneConnection, Links,
                    SubscribedOnce, NoSessionWithoutLink, PendingIsAsked

\* The failed attempt was the only connection.
LEMMA ConnectionErrorAgrees ==
    ASSUME SafeConnection, ConnectionError PROVE Agreement'
<1>1. connecting = 1 /\ open = 0
  BY DEF SafeConnection, TypeOK, OneConnection, Links, ConnectionError
<1>2. ~wsi' /\ ~connected' /\ connecting' = 0 /\ open' = 0
  BY <1>1 DEF ConnectionError, Disconnected
<1>3. subscribed' = 0 /\ ~sendPending'
  BY <1>1 DEF SafeConnection, NoSessionWithoutLink, ConnectionError,
              session
<1> QED
  BY <1>2, <1>3, NothingLeft

\* The closed connection was the only one, and its session goes with it.
LEMMA ClosedAgrees == ASSUME SafeConnection, Closed PROVE Agreement'
<1>1. connecting = 0 /\ open = 1
  BY DEF SafeConnection, TypeOK, OneConnection, Links, Closed
<1>2. ~wsi' /\ ~connected' /\ connecting' = 0 /\ open' = 0
  BY <1>1 DEF Closed, Disconnected
<1> QED
  BY <1>2, NothingLeft DEF Closed, SessionGone

\* The subscription is pending or written, never both or neither.
LEMMA WriteableAgrees == ASSUME SafeConnection, Writeable PROVE Agreement'
<1>1. FlagsFollowLinks' /\ OneConnection'
  BY DEF SafeConnection, FlagsFollowLinks, OneConnection, Links, Writeable
<1>2. SubscribedOnce'
  <2>1. open' = open /\ open > 0
    BY DEF Writeable
  <2>2. CASE sendPending
    BY <2>1, <2>2 DEF SafeConnection, SubscribedOnce, Writeable, Sent
  <2>3. CASE ~sendPending
    BY <2>1, <2>3 DEF SafeConnection, SubscribedOnce, Writeable, Sent
  <2> QED
    BY <2>2, <2>3
<1>3. NoSessionWithoutLink'
  BY DEF SafeConnection, TypeOK, NoSessionWithoutLink, Writeable
<1>4. PendingIsAsked'
  <2>1. ~sendPending'
    BY DEF Writeable, Sent
  <2> QED
    BY <2>1 DEF PendingIsAsked
<1> QED
  BY <1>1, <1>2, <1>3, <1>4 DEF Agreement

\* The steps that touch neither flags nor connections.
LEMMA OtherStepsAgree ==
    ASSUME SafeConnection, KeepConnection \/ Idle \/ Stop \/ UNCHANGED vars
    PROVE  Agreement'
<1> USE DEF SafeConnection, KeepConnection, Idle, Stop, vars, session
<1>1. FlagsFollowLinks' /\ OneConnection'
  BY DEF FlagsFollowLinks, OneConnection, Links
<1>2. SubscribedOnce' /\ NoSessionWithoutLink' /\ PendingIsAsked'
  BY DEF SubscribedOnce, NoSessionWithoutLink, PendingIsAsked
<1> QED
  BY <1>1, <1>2 DEF Agreement
-----------------------------------------------------------------------------
\* The inductive invariant: flags, connections and session agree.
THEOREM ConnectionSafe == Spec => []SafeConnection
<1>1. SafeConnection /\ [Next]_vars => SafeConnection'
  <2> SUFFICES ASSUME SafeConnection, [Next]_vars PROVE SafeConnection'
    OBVIOUS
  <2>1. TypeOK'
    BY TypesKept DEF SafeConnection
  <2>2. CASE LoopTop
    <3>1. Agreement'
      BY <2>2, ConnectBeginsAgrees, ConnectFailsAgrees, LeaveLoopAgrees,
         OtherStepsAgree DEF LoopTop
    <3> QED
      BY <2>1, <3>1 DEF SafeConnection, Agreement
  <2>3. CASE Callback
    <3>1. Agreement'
      BY <2>3, EstablishedAgrees, ConnectionErrorAgrees, ClosedAgrees,
         WriteableAgrees DEF Callback
    <3> QED
      BY <2>1, <3>1 DEF SafeConnection, Agreement
  <2>4. CASE Idle \/ Stop \/ UNCHANGED vars
    <3>1. Agreement'
      BY <2>4, OtherStepsAgree
    <3> QED
      BY <2>1, <3>1 DEF SafeConnection, Agreement
  <2> QED
    BY <2>2, <2>3, <2>4 DEF Next
<1> QED
  BY <1>1, InitSafe, PTL DEF Spec

\* Types, and the backoff (ws_thread): never above its ceiling, whatever the
\* two configured values are and however often the doubling wraps, and never
\* below its minimum if 2 * BackoffMax fits the type.
THEOREM ConnectionTypes == Spec => []TypeOK
BY ConnectionSafe, PTL DEF SafeConnection

\* client->wsi and client->connected never go stale (ws_callback).
THEOREM FlagsAgree == Spec => []FlagsFollowLinks
BY ConnectionSafe, PTL DEF SafeConnection

\* There is never a second connection (the check at the top of ws_thread).
THEOREM SingleConnection == Spec => []OneConnection
BY ConnectionSafe, PTL DEF SafeConnection

\* One logsSubscribe for each connection (the WRITEABLE callback).
THEOREM SubscriptionOnce == Spec => []SubscribedOnce
BY ConnectionSafe, PTL DEF SafeConnection

\* The callback of a subscription not yet written is still to come: none of
\* the reconnects and callbacks loses what lws_callback_on_writable asked.
THEOREM SubscriptionIsAsked == Spec => []PendingIsAsked
BY ConnectionSafe, PTL DEF SafeConnection
=============================================================================
