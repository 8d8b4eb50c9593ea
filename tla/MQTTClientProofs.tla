-------------------------- MODULE MQTTClientProofs --------------------------
(***************************************************************************)
(* Proofs about MQTTClient for every value of the constants.              *)
(***************************************************************************)
EXTENDS MQTTClient, TLAPS

(* The idle queue after _on_message queues the handlers of one pattern. *)
LEMMA QueueHandlers ==
    ASSUME NEW q \in Seq(IdleEntry), NEW hs \in Seq(Handlers),
           NEW t \in Topics, NEW d \in Decoded
    PROVE  q \o [i \in 1..Len(hs) |-> MsgEntry(hs[i], t, d)] \in Seq(IdleEntry)
<1>1. [i \in 1..Len(hs) |-> MsgEntry(hs[i], t, d)] \in Seq(IdleEntry)
  BY DEF MsgEntry, IdleEntry
<1>2. QED
  BY <1>1

(* The lifecycle entries are idle-queue entries. *)
LEMMA LifecycleEntries == ConnEntry \in IdleEntry /\ DiscEntry \in IdleEntry
BY DEF ConnEntry, DiscEntry, IdleEntry

(* Decode yields a decoded payload or DecodeError. *)
LEMMA DecodeType ==
    ASSUME NEW k \in Payloads, Decode(k) # DecodeError
    PROVE  Decode(k) \in Decoded
BY DEF Decode, Payloads, Decoded, DecodeError

-----------------------------------------------------------------------------
(* TypeOK is an inductive invariant of the client. *)

LEMMA InitTypeOK == Init => TypeOK
<1> SUFFICES ASSUME Init PROVE TypeOK
  OBVIOUS
<1>1. (CHOOSE t \in Topics : TRUE) \in Topics
  BY ClientAssumption
<1>2. cur \in [topic : Topics, payload : Decoded]
  BY <1>1 DEF Init, Decoded
<1>3. mh \in [Patterns -> Seq(Handlers)]
  BY DEF Init
<1>4. order \in Seq(Patterns) /\ idle \in Seq(IdleEntry)
  BY DEF Init
<1>5. pending \subseteq Patterns \X Handlers /\ brokerSubs \subseteq Patterns
  BY DEF Init
<1>6. connected \in BOOLEAN /\ uiConnected \in BOOLEAN
  BY Zenon DEF Init
<1>7. /\ loop \in {"none", "running", "stopped"}
      /\ link \in {"down", "connecting", "up"}
      /\ netPc \in {"wait", "onconnect", "onmessage", "dead"}
      /\ itSize \in Nat /\ itPos \in Nat \ {0}
      /\ want \subseteq Handlers /\ issued \subseteq Handlers /\ got \subseteq Handlers
      /\ subs \in Nat /\ msgs \in Nat /\ conns \in Nat
  BY DEF Init
<1>8. QED
  BY <1>2, <1>3, <1>4, <1>5, <1>6, <1>7 DEF TypeOK

LEMMA NextTypeOK == TypeOK /\ [Next]_vars => TypeOK'
<1> SUFFICES ASSUME TypeOK, [Next]_vars PROVE TypeOK'
  OBVIOUS
<1>1. CASE Connect
  BY <1>1 DEF Connect, LabelBuilt, TypeOK
<1>2. ASSUME NEW p \in Patterns, NEW h \in Handlers, Subscribe(p, h)
      PROVE  TypeOK'
  <2>1. CASE p \in Keys
    <3>1. mh' = [mh EXCEPT ![p] = Append(mh[p], h)]
      BY <1>2, <2>1 DEF Subscribe
    <3>2. mh' \in [Patterns -> Seq(Handlers)]
      BY <3>1 DEF TypeOK
    <3>3. QED
      BY <1>2, <2>1, <3>2 DEF Subscribe, TypeOK
  <2>2. CASE p \notin Keys
    <3>1. order' = Append(order, p) /\ mh' = [mh EXCEPT ![p] = <<>>]
          /\ brokerSubs' = BrokerSubscribe(p) /\ pending' = {<<p, h>>}
      BY <1>2, <2>2 DEF Subscribe
    <3>2. order' \in Seq(Patterns) /\ mh' \in [Patterns -> Seq(Handlers)]
      BY <3>1 DEF TypeOK
    <3>3. brokerSubs' \subseteq Patterns /\ pending' \subseteq Patterns \X Handlers
      BY <3>1 DEF TypeOK, BrokerSubscribe
    <3>4. QED
      BY <1>2, <2>2, <3>2, <3>3 DEF Subscribe, TypeOK
  <2>3. QED
    BY <2>1, <2>2
<1>3. CASE SubscribeAppend
  <2>1. PICK pr \in pending : mh' = [mh EXCEPT ![pr[1]] = Append(@, pr[2])]
                              /\ pending' = {}
    BY <1>3 DEF SubscribeAppend
  <2>2. pr[1] \in Patterns /\ pr[2] \in Handlers
    BY DEF TypeOK
  <2>3. mh' \in [Patterns -> Seq(Handlers)]
    BY <2>1, <2>2 DEF TypeOK
  <2>4. QED
    BY <1>3, <2>1, <2>3 DEF SubscribeAppend, TypeOK
<1>4. CASE Disconnect
  <2>1. Append(idle, DiscEntry) \in Seq(IdleEntry)
    BY LifecycleEntries DEF TypeOK
  <2>2. QED
    BY <1>4, <2>1 DEF Disconnect, OnDisconnect, TypeOK
<1>5. CASE RunIdle
  <2>1. idle' = Tail(idle) /\ idle # <<>>
    BY <1>5 DEF RunIdle
  <2>2. idle' \in Seq(IdleEntry)
    BY <2>1 DEF TypeOK
  <2>3. uiConnected' \in BOOLEAN
    BY <1>5 DEF RunIdle, TypeOK
  <2>4. QED
    BY <1>5, <2>2, <2>3 DEF RunIdle, TypeOK
<1>6. CASE NetConnAckOk
  BY <1>6 DEF NetConnAckOk, TypeOK
<1>7. CASE NetConnectStep
  <2>1. CASE Len(order) # itSize
    BY <1>7, <2>1 DEF NetConnectStep, TypeOK
  <2>2. CASE Len(order) = itSize /\ itPos <= itSize
    BY <1>7, <2>2 DEF NetConnectStep, TypeOK, BrokerSubscribe
  <2>3. CASE Len(order) = itSize /\ ~(itPos <= itSize)
    <3>1. Append(idle, ConnEntry) \in Seq(IdleEntry)
      BY LifecycleEntries DEF TypeOK
    <3>2. QED
      BY <1>7, <2>3, <3>1 DEF NetConnectStep, TypeOK
  <2>4. QED
    BY <2>1, <2>2, <2>3
<1>8. CASE NetConnRefused
  <2>1. Append(idle, DiscEntry) \in Seq(IdleEntry)
    BY LifecycleEntries DEF TypeOK
  <2>2. QED
    BY <1>8, <2>1 DEF NetConnRefused, OnDisconnect, TypeOK
<1>9. CASE NetLost
  <2>1. Append(idle, DiscEntry) \in Seq(IdleEntry)
    BY LifecycleEntries DEF TypeOK
  <2>2. QED
    BY <1>9, <2>1 DEF NetLost, OnDisconnect, TypeOK
<1>10. CASE NetReconnect
  BY <1>10 DEF NetReconnect, TypeOK
<1>11. ASSUME NEW t \in Topics, NEW k \in Payloads, NetMessage(t, k)
       PROVE  TypeOK'
  <2>1. CASE Decode(k) = DecodeError
    BY <1>11, <2>1 DEF NetMessage, TypeOK
  <2>2. CASE Decode(k) # DecodeError
    <3>1. Decode(k) \in Decoded
      BY <2>2, DecodeType
    <3>2. RegisteredFor(t) \subseteq Handlers /\ IssuedFor(t) \subseteq Handlers
      BY DEF TypeOK, RegisteredFor, IssuedFor
    <3>3. QED
      BY <1>11, <2>2, <3>1, <3>2 DEF NetMessage, TypeOK
  <2>3. QED
    BY <2>1, <2>2
<1>12. CASE NetMessageStep
  <2>1. CASE Len(order) # itSize \/ itPos > itSize
    BY <1>12, <2>1 DEF NetMessageStep, TypeOK
  <2>2. CASE ~(Len(order) # itSize \/ itPos > itSize)
    <3> DEFINE p == order[itPos]
    <3>1. p \in Patterns
      BY <2>2 DEF TypeOK
    <3>2. mh[p] \in Seq(Handlers) /\ cur.topic \in Topics /\ cur.payload \in Decoded
      BY <3>1 DEF TypeOK
    <3>3. idle \o [i \in 1..Len(mh[p]) |-> MsgEntry(mh[p][i], cur.topic, cur.payload)]
            \in Seq(IdleEntry)
      BY <3>2, QueueHandlers DEF TypeOK
    <3>4. Elems(mh[p]) \subseteq Handlers
      BY <3>2 DEF Elems
    <3>5. itPos' = itPos + 1
      BY <1>12, <2>2 DEF NetMessageStep
    <3>6. CASE TopicMatches(cur.topic, p)
      <4>1. idle' = idle \o [i \in 1..Len(mh[p]) |->
                               MsgEntry(mh[p][i], cur.topic, cur.payload)]
            /\ got' = got \cup Elems(mh[p])
        BY <1>12, <2>2, <3>6 DEF NetMessageStep
      <4>2. QED
        BY <1>12, <2>2, <3>3, <3>4, <3>5, <4>1 DEF NetMessageStep, TypeOK
    <3>7. CASE ~TopicMatches(cur.topic, p)
      <4>1. idle' = idle /\ got' = got
        BY <1>12, <2>2, <3>7 DEF NetMessageStep
      <4>2. QED
        BY <1>12, <2>2, <3>5, <4>1 DEF NetMessageStep, TypeOK
    <3>8. QED
      BY <3>6, <3>7
  <2>3. QED
    BY <2>1, <2>2
<1>13. CASE UNCHANGED vars
  BY <1>13 DEF vars, TypeOK
<1>14. QED
  BY <1>1, <1>2, <1>3, <1>4, <1>5, <1>6, <1>7, <1>8, <1>9, <1>10, <1>11,
     <1>12, <1>13 DEF Next

(* The client's state keeps its types in every reachable state. *)
THEOREM TypeCorrect == Spec => []TypeOK
BY InitTypeOK, NextTypeOK, PTL DEF Spec

-----------------------------------------------------------------------------
(***************************************************************************)
(* SubscribedWhenConnected.  It is not inductive by itself: while         *)
(* _on_connect is resubscribing, the keys it has already passed are       *)
(* subscribed (ResubscribedPrefix), and while _on_message runs the link   *)
(* stays up and every key stays subscribed (DispatchingSubscribed).       *)
(***************************************************************************)
NotStarted == loop = "none" => netPc = "wait"

ResubscribedPrefix ==
    netPc = "onconnect" =>
        /\ link = "up"
        /\ \A i \in 1..Len(order) : i < itPos => order[i] \in brokerSubs

DispatchingSubscribed ==
    netPc = "onmessage" => link = "up" /\ Keys \subseteq brokerSubs

IInv ==
    /\ TypeOK
    /\ NotStarted
    /\ SubscribedWhenConnected
    /\ ResubscribedPrefix
    /\ DispatchingSubscribed

(* The part of IInv beyond TypeOK. *)
Sub == NotStarted /\ SubscribedWhenConnected /\ ResubscribedPrefix
       /\ DispatchingSubscribed

(* A broker SUBSCRIBE never removes a filter, and on a live link adds it. *)
LEMMA BrokerSubscribeGrows ==
    ASSUME NEW p
    PROVE  /\ brokerSubs \subseteq BrokerSubscribe(p)
           /\ link = "up" => p \in BrokerSubscribe(p)
BY DEF BrokerSubscribe

(* Appending a new pattern to the key order adds exactly that key. *)
LEMMA AppendKey ==
    ASSUME NEW p \in Patterns, order \in Seq(Patterns)
    PROVE  /\ {Append(order, p)[i] : i \in 1..Len(Append(order, p))} = Keys \cup {p}
           /\ \A i \in 1..Len(order) : Append(order, p)[i] = order[i]
BY DEF Keys

LEMMA InitIInv == Init => IInv
<1> SUFFICES ASSUME Init PROVE IInv
  OBVIOUS
<1>1. TypeOK
  BY InitTypeOK
<1>2. Sub
  BY DEF Init, Sub, NotStarted, SubscribedWhenConnected, ResubscribedPrefix,
         DispatchingSubscribed
<1>3. QED
  BY <1>1, <1>2 DEF IInv, Sub

LEMMA NextIInv == IInv /\ [Next]_vars => IInv'
<1> SUFFICES ASSUME IInv, [Next]_vars PROVE IInv'
  OBVIOUS
<1> USE DEF IInv
<1>0. TypeOK'
  BY NextTypeOK
<1> SUFFICES Sub'
  BY <1>0 DEF Sub
<1>1. CASE Connect
  BY <1>1 DEF Connect, MainFree, Sub, NotStarted, SubscribedWhenConnected,
             ResubscribedPrefix, DispatchingSubscribed, Keys
<1>2. ASSUME NEW p \in Patterns, NEW h \in Handlers, Subscribe(p, h)
      PROVE  Sub'
  <2>1. CASE p \in Keys
    BY <1>2, <2>1 DEF Subscribe, Sub, NotStarted, SubscribedWhenConnected,
                      ResubscribedPrefix, DispatchingSubscribed, Keys
  <2>2. CASE p \notin Keys
    <3>1. /\ order' = Append(order, p)
          /\ brokerSubs' = BrokerSubscribe(p)
          /\ UNCHANGED <<loop, link, netPc, itPos>>
      BY <1>2, <2>2 DEF Subscribe
    <3>2. Keys' = Keys \cup {p}
          /\ \A i \in 1..Len(order) : order'[i] = order[i]
      BY <3>1, AppendKey DEF TypeOK, Keys
    <3>3. brokerSubs \subseteq brokerSubs' /\ (link = "up" => p \in brokerSubs')
      BY <3>1, BrokerSubscribeGrows
    <3>4. NotStarted'
      BY <3>1 DEF NotStarted
    <3>5. SubscribedWhenConnected' /\ DispatchingSubscribed'
      BY <3>1, <3>2, <3>3 DEF SubscribedWhenConnected, DispatchingSubscribed
    <3>6. ResubscribedPrefix'
      <4> SUFFICES ASSUME netPc' = "onconnect"
                   PROVE  /\ link' = "up"
                          /\ \A i \in 1..Len(order') : i < itPos' => order'[i] \in brokerSubs'
        BY DEF ResubscribedPrefix
      <4>1. link = "up" /\ \A i \in 1..Len(order) : i < itPos => order[i] \in brokerSubs
        BY <3>1 DEF ResubscribedPrefix
      <4>2. Len(order') = Len(order) + 1
        BY <3>1 DEF TypeOK
      <4>3. QED
        BY <3>1, <3>2, <3>3, <4>1, <4>2 DEF TypeOK
    <3>7. QED
      BY <3>4, <3>5, <3>6 DEF Sub
  <2>3. QED
    BY <2>1, <2>2
<1>3. CASE SubscribeAppend
  BY <1>3 DEF SubscribeAppend, Sub, NotStarted, SubscribedWhenConnected,
              ResubscribedPrefix, DispatchingSubscribed, Keys
<1>4. CASE Disconnect
  <2>1. link' = "down" /\ UNCHANGED netPc /\ netPc \in {"wait", "dead"}
    BY <1>4 DEF Disconnect, TypeOK
  <2>2. QED
    BY <1>4, <2>1 DEF Disconnect, Sub, NotStarted, SubscribedWhenConnected,
                      ResubscribedPrefix, DispatchingSubscribed
<1>5. CASE RunIdle
  BY <1>5 DEF RunIdle, Sub, NotStarted, SubscribedWhenConnected,
              ResubscribedPrefix, DispatchingSubscribed, Keys
<1>6. CASE NetConnAckOk
  BY <1>6 DEF NetConnAckOk, NetIdle, Sub, NotStarted, SubscribedWhenConnected,
              ResubscribedPrefix, DispatchingSubscribed
<1>7. CASE NetConnectStep
  <2>1. CASE Len(order) # itSize
    BY <1>7, <2>1 DEF NetConnectStep, Sub, NotStarted, SubscribedWhenConnected,
                      ResubscribedPrefix, DispatchingSubscribed
  <2>2. CASE Len(order) = itSize /\ itPos <= itSize
    <3>1. /\ brokerSubs' = BrokerSubscribe(order[itPos])
          /\ itPos' = itPos + 1
          /\ UNCHANGED <<order, loop, link, netPc>>
      BY <1>7, <2>2 DEF NetConnectStep
    <3>2. link = "up" /\ \A i \in 1..Len(order) : i < itPos => order[i] \in brokerSubs
      BY <1>7 DEF NetConnectStep, ResubscribedPrefix
    <3>3. brokerSubs \subseteq brokerSubs' /\ order[itPos] \in brokerSubs'
      BY <3>1, <3>2, BrokerSubscribeGrows
    <3>4. ResubscribedPrefix'
      BY <2>2, <3>1, <3>2, <3>3 DEF ResubscribedPrefix, TypeOK
    <3>5. QED
      BY <1>7, <3>1, <3>4 DEF NetConnectStep, Sub, NotStarted,
                              SubscribedWhenConnected, DispatchingSubscribed
  <2>3. CASE Len(order) = itSize /\ ~(itPos <= itSize)
    <3>1. netPc' = "wait" /\ UNCHANGED <<order, link, brokerSubs, loop>>
      BY <1>7, <2>3 DEF NetConnectStep
    <3>2. link = "up" /\ \A i \in 1..Len(order) : i < itPos => order[i] \in brokerSubs
      BY <1>7 DEF NetConnectStep, ResubscribedPrefix
    <3>3. Keys \subseteq brokerSubs
      BY <2>3, <3>2 DEF Keys, TypeOK
    <3>4. QED
      BY <1>7, <3>1, <3>3 DEF Sub, NotStarted, SubscribedWhenConnected,
                              ResubscribedPrefix, DispatchingSubscribed, Keys
  <2>4. QED
    BY <2>1, <2>2, <2>3
<1>8. CASE NetConnRefused
  BY <1>8 DEF NetConnRefused, NetIdle, Sub, NotStarted, SubscribedWhenConnected,
              ResubscribedPrefix, DispatchingSubscribed
<1>9. CASE NetLost
  BY <1>9 DEF NetLost, NetIdle, Sub, NotStarted, SubscribedWhenConnected,
              ResubscribedPrefix, DispatchingSubscribed
<1>10. CASE NetReconnect
  BY <1>10 DEF NetReconnect, NetIdle, Sub, NotStarted, SubscribedWhenConnected,
               ResubscribedPrefix, DispatchingSubscribed
<1>11. ASSUME NEW t \in Topics, NEW k \in Payloads, NetMessage(t, k)
       PROVE  Sub'
  BY <1>11 DEF NetMessage, NetIdle, Sub, NotStarted, SubscribedWhenConnected,
               ResubscribedPrefix, DispatchingSubscribed, Keys
<1>12. CASE NetMessageStep
  BY <1>12 DEF NetMessageStep, Sub, NotStarted, SubscribedWhenConnected,
               ResubscribedPrefix, DispatchingSubscribed, Keys
<1>13. CASE UNCHANGED vars
  BY <1>13 DEF vars, Sub, NotStarted, SubscribedWhenConnected,
               ResubscribedPrefix, DispatchingSubscribed, Keys
<1>14. QED
  BY <1>1, <1>2, <1>3, <1>4, <1>5, <1>6, <1>7, <1>8, <1>9, <1>10, <1>11,
     <1>12, <1>13 DEF Next

(* Reconnect resubscribes everything (_on_connect, client.py): whenever    *)
(* the network thread is idle on an established connection, every pattern  *)
(* in message_handlers is subscribed in the broker's current session.      *)
THEOREM ResubscribeComplete == Spec => []SubscribedWhenConnected
<1>1. IInv => SubscribedWhenConnected
  BY DEF IInv
<1>2. QED
  BY InitIInv, NextIInv, <1>1, PTL DEF Spec

-----------------------------------------------------------------------------
(***************************************************************************)
(* RegistryRefined.  The refinement mapping counts the handler of a       *)
(* half-done subscribe() as registered.  It needs: at most one subscribe() *)
(* is half done (the main thread is serial), its pattern is already a key, *)
(* and a pattern that is not a key has an empty handler list.             *)
(***************************************************************************)
PendingSingle == \A a, b \in pending : a = b
PendingKey == \A pr \in pending : pr[1] \in Keys
EmptyUnlessKey == \A p \in Patterns : p \notin Keys => mh[p] = <<>>

RInv == TypeOK /\ PendingSingle /\ PendingKey /\ EmptyUnlessKey

(* The steps that leave the registry alone. *)
Untouching ==
    \/ Connect \/ Disconnect \/ RunIdle \/ NetConnAckOk \/ NetConnectStep
    \/ NetConnRefused \/ NetLost \/ NetReconnect
    \/ (\E t \in Topics, k \in Payloads : NetMessage(t, k))
    \/ NetMessageStep \/ UNCHANGED vars

LEMMA UntouchingFrame ==
    ASSUME Untouching PROVE UNCHANGED <<order, mh, pending>>
<1>1. CASE Connect \/ Disconnect \/ RunIdle \/ NetConnAckOk
  BY <1>1 DEF Connect, Disconnect, RunIdle, NetConnAckOk
<1>2. CASE NetConnectStep \/ NetConnRefused \/ NetLost \/ NetReconnect
  BY <1>2 DEF NetConnectStep, NetConnRefused, NetLost, NetReconnect
<1>3. CASE \E t \in Topics, k \in Payloads : NetMessage(t, k)
  BY <1>3 DEF NetMessage
<1>4. CASE NetMessageStep \/ UNCHANGED vars
  BY <1>4 DEF NetMessageStep, vars
<1>5. QED
  BY <1>1, <1>2, <1>3, <1>4 DEF Untouching

LEMMA NextCases ==
    [Next]_vars <=> \/ \E p \in Patterns, h \in Handlers : Subscribe(p, h)
                    \/ SubscribeAppend
                    \/ Untouching
BY DEF Next, Untouching

LEMMA InitRInv == Init => RInv
<1> SUFFICES ASSUME Init PROVE RInv
  OBVIOUS
<1>1. TypeOK
  BY InitTypeOK
<1>2. PendingSingle /\ PendingKey /\ EmptyUnlessKey
  BY DEF Init, PendingSingle, PendingKey, EmptyUnlessKey
<1>3. QED
  BY <1>1, <1>2 DEF RInv

LEMMA NextRInv == RInv /\ [Next]_vars => RInv'
<1> SUFFICES ASSUME RInv, [Next]_vars PROVE RInv'
  OBVIOUS
<1> USE DEF RInv
<1>0. TypeOK'
  BY NextTypeOK
<1> SUFFICES PendingSingle' /\ PendingKey' /\ EmptyUnlessKey'
  BY <1>0
<1>1. ASSUME NEW p \in Patterns, NEW h \in Handlers, Subscribe(p, h)
      PROVE  PendingSingle' /\ PendingKey' /\ EmptyUnlessKey'
  <2>1. CASE p \in Keys
    <3>1. UNCHANGED <<order, pending>> /\ mh' = [mh EXCEPT ![p] = Append(@, h)]
      BY <1>1, <2>1 DEF Subscribe
    <3>2. QED
      BY <2>1, <3>1 DEF PendingSingle, PendingKey, EmptyUnlessKey, Keys, TypeOK
  <2>2. CASE p \notin Keys
    <3>1. /\ order' = Append(order, p) /\ mh' = [mh EXCEPT ![p] = <<>>]
          /\ pending' = {<<p, h>>}
      BY <1>1, <2>2 DEF Subscribe
    <3>2. order \in Seq(Patterns)
      BY DEF TypeOK
    <3>3. Keys' = Keys \cup {p}
      BY <3>1, <3>2, AppendKey DEF Keys
    <3>4. QED
      BY <3>1, <3>3 DEF PendingSingle, PendingKey, EmptyUnlessKey, TypeOK
  <2>3. QED
    BY <2>1, <2>2
<1>2. CASE SubscribeAppend
  <2>1. PICK pr \in pending : mh' = [mh EXCEPT ![pr[1]] = Append(@, pr[2])]
                              /\ pending' = {} /\ UNCHANGED order
    BY <1>2 DEF SubscribeAppend
  <2>2. pr[1] \in Keys
    BY DEF PendingKey
  <2>3. QED
    BY <2>1, <2>2 DEF PendingSingle, PendingKey, EmptyUnlessKey, Keys, TypeOK
<1>3. CASE Untouching
  BY <1>3, UntouchingFrame DEF PendingSingle, PendingKey, EmptyUnlessKey, Keys
<1>4. QED
  BY <1>1, <1>2, <1>3, NextCases

(* The second component of a pair. *)
LEMMA PairSecond ==
    ASSUME NEW a, NEW b, NEW c, c = <<a, b>> PROVE c[2] = b
OBVIOUS

(* With no subscribe() half done, the mapped registry is message_handlers. *)
LEMMA RegViewIdle ==
    ASSUME TypeOK, pending = {} PROVE RegView = mh
BY DEF RegView, TypeOK

LEMMA InitRefines == Init => Registry!RegInit
<1> SUFFICES ASSUME Init PROVE Registry!RegInit
  OBVIOUS
<1>1. TypeOK
  BY InitTypeOK
<1>2. RegView = mh
  BY <1>1, RegViewIdle DEF Init
<1>3. QED
  BY <1>2 DEF Init, Registry!RegInit

LEMMA NextRefines == RInv /\ [Next]_vars => [Registry!RegNext]_Registry!regVars
<1> SUFFICES ASSUME RInv, [Next]_vars PROVE [Registry!RegNext]_Registry!regVars
  OBVIOUS
<1> USE DEF RInv
<1>1. ASSUME NEW p \in Patterns, NEW h \in Handlers, Subscribe(p, h)
      PROVE  Registry!Register(p, h)
  <2>1. pending = {}
    BY <1>1 DEF Subscribe, MainFree
  <2>2. RegView = mh
    BY <2>1, RegViewIdle
  <2>3. (\E i \in 1..Len(order) : order[i] = p) <=> p \in Keys
    BY DEF Keys
  <2>4. CASE p \in Keys
    <3>1. UNCHANGED <<order, pending>> /\ mh' = [mh EXCEPT ![p] = Append(@, h)]
      BY <1>1, <2>4 DEF Subscribe
    <3>2. TypeOK'
      BY NextTypeOK
    <3>3. RegView' = mh'
      BY <2>1, <3>1, <3>2 DEF RegView, TypeOK
    <3>4. QED
      BY <2>2, <2>3, <2>4, <3>1, <3>3 DEF Registry!Register
  <2>5. CASE p \notin Keys
    <3>1. /\ order' = Append(order, p) /\ mh' = [mh EXCEPT ![p] = <<>>]
          /\ pending' = {<<p, h>>}
      BY <1>1, <2>5 DEF Subscribe
    <3>2. mh[p] = <<>>
      BY <2>5 DEF EmptyUnlessKey
    <3>3. \A q \in Patterns : (\E pr \in pending' : pr[1] = q) <=> q = p
      BY <3>1
    <3> DEFINE chosen == CHOOSE pr \in pending' : pr[1] = p
    <3>4. chosen = <<p, h>>
      BY <3>1
    <3>5. RegView' = [q \in Patterns |-> IF q = p THEN Append(mh'[p], h) ELSE mh'[q]]
      <4>1. ASSUME NEW q \in Patterns
            PROVE  RegView'[q] = IF q = p THEN Append(mh'[p], h) ELSE mh'[q]
        <5>1. CASE q = p
          <6>1. RegView'[p] = Append(mh'[p], chosen[2])
            BY <3>3 DEF RegView
          <6>2. chosen[2] = h
            BY <3>4, PairSecond
          <6>3. RegView'[p] = Append(mh'[p], h)
            BY <6>1, <6>2
          <6>4. QED
            BY <5>1, <6>3
        <5>2. CASE q # p
          BY <3>3, <5>2 DEF RegView
        <5>3. QED
          BY <5>1, <5>2
      <4>2. QED
        BY <4>1 DEF RegView
    <3>6. RegView' = [mh EXCEPT ![p] = Append(@, h)]
      BY <3>1, <3>2, <3>5 DEF TypeOK
    <3>7. QED
      BY <2>2, <2>3, <2>5, <3>1, <3>6 DEF Registry!Register
  <2>6. QED
    BY <2>4, <2>5
<1>2. CASE SubscribeAppend
  <2>1. PICK pr0 \in pending : mh' = [mh EXCEPT ![pr0[1]] = Append(@, pr0[2])]
                               /\ pending' = {} /\ UNCHANGED order
    BY <1>2 DEF SubscribeAppend
  <2>2. pending = {pr0}
    BY DEF PendingSingle
  <2>3. pr0[1] \in Patterns /\ pr0[2] \in Handlers
    BY DEF TypeOK
  <2>4. \A q \in Patterns : (\E pr \in pending : pr[1] = q) <=> q = pr0[1]
    BY <2>2
  <2>5. (CHOOSE pr \in pending : pr[1] = pr0[1]) = pr0
    BY <2>2
  <2>6. RegView = [mh EXCEPT ![pr0[1]] = Append(@, pr0[2])]
    BY <2>3, <2>4, <2>5 DEF RegView, TypeOK
  <2>7. TypeOK'
    BY NextTypeOK
  <2>8. RegView' = mh'
    BY <2>1, <2>7 DEF RegView, TypeOK
  <2>9. QED
    BY <2>1, <2>6, <2>8 DEF Registry!regVars
<1>3. CASE Untouching
  <2>1. UNCHANGED <<order, mh, pending>>
    BY <1>3, UntouchingFrame
  <2>2. RegView' = RegView
    BY <2>1 DEF RegView
  <2>3. QED
    BY <2>1, <2>2 DEF Registry!regVars
<1>4. QED
  BY <1>1, <1>2, <1>3, NextCases DEF Registry!RegNext

(* subscribe(), split in two by the append at line 81 with the network     *)
(* thread running in between, implements the atomic register() of the     *)
(* handler registry (spec 4.2), for every set of patterns and handlers.   *)
THEOREM RegistryRefinement == Spec => RegistryRefined
<1>1. Spec => []RInv
  BY InitRInv, NextRInv, PTL DEF Spec
<1>2. Spec => Registry!RegInit /\ [][Registry!RegNext]_Registry!regVars
  BY <1>1, InitRefines, NextRefines, PTL DEF Spec
<1>3. QED
  BY <1>2 DEF RegistryRefined, Registry!RegSpec
=============================================================================
