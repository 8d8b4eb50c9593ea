---------------------------- MODULE LabelProofs -----------------------------
(***************************************************************************)
(* LabelSettled for every value of the constants.  The status label is    *)
(* only written by the idle callbacks _on_mqtt_connected and               *)
(* _on_mqtt_disconnected (app.py) and by _build_main_window, so what it     *)
(* will read once the queue has drained is the last lifecycle entry of     *)
(* the queue, or its present value when the queue holds none.              *)
(***************************************************************************)
EXTENDS MQTTClientProofs

(* Draining queue q from label u leaves the label reading b. *)
SettlesTo(q, u, b) ==
    \/ \E i \in 1..Len(q) :
          /\ q[i].kind # "msg"
          /\ (q[i].kind = "conn") = b
          /\ \A j \in (i + 1)..Len(q) : q[j].kind = "msg"
    \/ /\ \A i \in 1..Len(q) : q[i].kind = "msg"
       /\ u = b

(* The label the queue settles to agrees with the socket: a closed socket *)
(* has its disconnect callback queued (or the label was never connected), *)
(* and an up link with the thread idle or dispatching has had its connect *)
(* callback queued at the end of _on_connect.                              *)
LabelTrack ==
    /\ loop = "none" => link = "down" /\ netPc = "wait"
    /\ link = "down" => ~connected /\ SettlesTo(idle, uiConnected, FALSE)
    /\ link = "connecting" => ~connected
    /\ netPc = "onconnect" => link = "up" /\ connected
    /\ netPc = "onmessage" => link = "up"
    /\ (link = "up" /\ netPc \in {"wait", "onmessage"})
          => connected /\ SettlesTo(idle, uiConnected, TRUE)

LInv == TypeOK /\ LabelTrack

-----------------------------------------------------------------------------
(* How the queue operations of the model move SettlesTo. *)

(* Queuing the connect callback settles the label to Connected. *)
LEMMA SettleConn ==
    ASSUME NEW q \in Seq(IdleEntry), NEW u
    PROVE  SettlesTo(Append(q, ConnEntry), u, TRUE)
<1>1. /\ Append(q, ConnEntry)[Len(q) + 1].kind = "conn"
      /\ Len(Append(q, ConnEntry)) = Len(q) + 1
  BY DEF ConnEntry
<1>2. QED
  BY <1>1 DEF SettlesTo

(* Queuing the disconnect callback settles the label to Disconnected. *)
LEMMA SettleDisc ==
    ASSUME NEW q \in Seq(IdleEntry), NEW u
    PROVE  SettlesTo(Append(q, DiscEntry), u, FALSE)
<1>1. /\ Append(q, DiscEntry)[Len(q) + 1].kind = "disc"
      /\ Len(Append(q, DiscEntry)) = Len(q) + 1
  BY DEF DiscEntry
<1>2. QED
  BY <1>1 DEF SettlesTo

(* Handler calls queued by _on_message leave the settled label alone. *)
LEMMA SettleMsgs ==
    ASSUME NEW q \in Seq(IdleEntry), NEW hs \in Seq(Handlers),
           NEW t \in Topics, NEW d \in Decoded, NEW u, NEW b,
           SettlesTo(q, u, b)
    PROVE  SettlesTo(q \o [i \in 1..Len(hs) |-> MsgEntry(hs[i], t, d)], u, b)
<1> DEFINE ms == [i \in 1..Len(hs) |-> MsgEntry(hs[i], t, d)]
           r  == q \o ms
<1>1. /\ Len(r) = Len(q) + Len(hs)
      /\ \A i \in 1..Len(q) : r[i] = q[i]
      /\ \A i \in (Len(q) + 1)..Len(r) : r[i].kind = "msg"
  BY DEF MsgEntry
<1>2. CASE \E i \in 1..Len(q) :
              /\ q[i].kind # "msg"
              /\ (q[i].kind = "conn") = b
              /\ \A j \in (i + 1)..Len(q) : q[j].kind = "msg"
  <2>1. PICK i \in 1..Len(q) :
              /\ q[i].kind # "msg"
              /\ (q[i].kind = "conn") = b
              /\ \A j \in (i + 1)..Len(q) : q[j].kind = "msg"
    BY <1>2
  <2>2. /\ i \in 1..Len(r)
        /\ r[i].kind # "msg"
        /\ (r[i].kind = "conn") = b
        /\ \A j \in (i + 1)..Len(r) : r[j].kind = "msg"
    BY <2>1, <1>1
  <2>3. QED
    BY <2>2 DEF SettlesTo
<1>3. CASE /\ \A i \in 1..Len(q) : q[i].kind = "msg"
           /\ u = b
  <2>1. \A i \in 1..Len(r) : r[i].kind = "msg"
    BY <1>3, <1>1
  <2>2. QED
    BY <1>3, <2>1 DEF SettlesTo
<1>4. QED
  BY <1>2, <1>3 DEF SettlesTo

(* Running the oldest callback keeps what the label settles to. *)
LEMMA SettleTail ==
    ASSUME NEW q \in Seq(IdleEntry), q # <<>>, NEW u, NEW b,
           SettlesTo(q, u, b)
    PROVE  SettlesTo(Tail(q), CASE Head(q).kind = "conn" -> TRUE
                                [] Head(q).kind = "disc" -> FALSE
                                [] OTHER                 -> u, b)
<1> DEFINE v == CASE Head(q).kind = "conn" -> TRUE
                  [] Head(q).kind = "disc" -> FALSE
                  [] OTHER                 -> u
<1>1. /\ Len(Tail(q)) = Len(q) - 1
      /\ \A i \in 1..(Len(q) - 1) : Tail(q)[i] = q[i + 1]
      /\ Head(q) = q[1]
      /\ Len(q) >= 1
  OBVIOUS
<1>2. \A i \in 1..Len(q) : q[i].kind \in {"msg", "conn", "disc"}
  BY DEF IdleEntry
<1>3. CASE \E i \in 1..Len(q) :
              /\ q[i].kind # "msg"
              /\ (q[i].kind = "conn") = b
              /\ \A j \in (i + 1)..Len(q) : q[j].kind = "msg"
  <2>1. PICK i \in 1..Len(q) :
              /\ q[i].kind # "msg"
              /\ (q[i].kind = "conn") = b
              /\ \A j \in (i + 1)..Len(q) : q[j].kind = "msg"
    BY <1>3
  <2>2. CASE i = 1
    <3>1. v = b
      BY <2>1, <2>2, <1>1, <1>2
    <3>2. \A j \in 1..Len(Tail(q)) : Tail(q)[j].kind = "msg"
      BY <2>1, <2>2, <1>1
    <3>3. QED
      BY <3>1, <3>2 DEF SettlesTo
  <2>3. CASE i > 1
    <3>1. /\ i - 1 \in 1..Len(Tail(q))
          /\ Tail(q)[i - 1].kind # "msg"
          /\ (Tail(q)[i - 1].kind = "conn") = b
          /\ \A j \in i..Len(Tail(q)) : Tail(q)[j].kind = "msg"
      BY <2>1, <2>3, <1>1
    <3>4. \A j \in ((i - 1) + 1)..Len(Tail(q)) : Tail(q)[j].kind = "msg"
      BY <3>1
    <3>2. \E k \in 1..Len(Tail(q)) :
              /\ Tail(q)[k].kind # "msg"
              /\ (Tail(q)[k].kind = "conn") = b
              /\ \A j \in (k + 1)..Len(Tail(q)) : Tail(q)[j].kind = "msg"
      BY <3>1, <3>4, Zenon
    <3>3. QED
      BY <3>2 DEF SettlesTo
  <2>5. i = 1 \/ i > 1
    BY <2>1
  <2>4. QED
    BY <2>5, <2>2, <2>3, Zenon
<1>4. CASE /\ \A i \in 1..Len(q) : q[i].kind = "msg"
           /\ u = b
  <2>0. Head(q).kind = "msg"
    BY <1>4, <1>1
  <2>1. v = u
    BY <2>0
  <2>2. \A j \in 1..Len(Tail(q)) : Tail(q)[j].kind = "msg"
    BY <1>4, <1>1
  <2>3. QED
    BY <1>4, <2>1, <2>2 DEF SettlesTo
<1>5. QED
  BY <1>3, <1>4 DEF SettlesTo

(* An empty queue settles the label to what it reads. *)
LEMMA SettleEmpty ==
    ASSUME NEW u, NEW b, SettlesTo(<<>>, u, b)
    PROVE  u = b
BY DEF SettlesTo
-----------------------------------------------------------------------------
LEMMA InitLInv == Init => LInv
<1> SUFFICES ASSUME Init PROVE LInv
  OBVIOUS
<1>1. TypeOK
  BY InitTypeOK
<1>2. SettlesTo(idle, uiConnected, FALSE)
  BY DEF Init, SettlesTo
<1>3. QED
  BY <1>1, <1>2 DEF Init, LInv, LabelTrack

LEMMA NextLInv == LInv /\ [Next]_vars => LInv'
<1> SUFFICES ASSUME LInv, [Next]_vars PROVE LInv'
  OBVIOUS
<1> USE DEF LInv
<1>0. TypeOK'
  BY NextTypeOK
<1> SUFFICES LabelTrack'
  BY <1>0
<1>1. CASE Connect
  BY <1>1 DEF Connect, LabelBuilt, MainFree, LabelTrack
<1>2. ASSUME NEW p \in Patterns, NEW h \in Handlers, Subscribe(p, h)
      PROVE  LabelTrack'
  BY <1>2 DEF Subscribe, LabelTrack
<1>3. CASE SubscribeAppend
  BY <1>3 DEF SubscribeAppend, LabelTrack
<1>4. CASE Disconnect
  <2>1. CASE link \in {"connecting", "up"}
    <3>1. SettlesTo(idle', uiConnected', FALSE)
      BY <1>4, <2>1, SettleDisc DEF Disconnect, OnDisconnect, TypeOK
    <3>2. QED
      BY <1>4, <2>1, <3>1 DEF Disconnect, OnDisconnect, LabelTrack
  <2>4. CASE link \notin {"connecting", "up"}
    BY <1>4, <2>4 DEF Disconnect, LabelTrack, TypeOK
  <2>5. QED
    BY <2>1, <2>4
<1>5. CASE RunIdle
  <2>1. /\ idle # <<>>
        /\ idle' = Tail(idle)
        /\ uiConnected' = CASE Head(idle).kind = "conn" -> TRUE
                             [] Head(idle).kind = "disc" -> FALSE
                             [] OTHER                    -> uiConnected
        /\ UNCHANGED <<connected, loop, link, netPc>>
    BY <1>5 DEF RunIdle
  <2>2. idle \in Seq(IdleEntry)
    BY DEF TypeOK
  <2>3. \A b \in BOOLEAN : SettlesTo(idle, uiConnected, b)
                          => SettlesTo(idle', uiConnected', b)
    BY <2>1, <2>2, SettleTail
  <2>4. QED
    BY <2>1, <2>3 DEF LabelTrack
<1>6. CASE NetConnAckOk
  BY <1>6 DEF NetConnAckOk, NetIdle, LabelTrack
<1>7. CASE NetConnectStep
  <2>1. /\ netPc = "onconnect" /\ link = "up" /\ connected
        /\ UNCHANGED <<connected, uiConnected, loop, link>>
    BY <1>7 DEF NetConnectStep, LabelTrack
  <2>2. CASE Len(order) # itSize
    BY <1>7, <2>1, <2>2 DEF NetConnectStep, LabelTrack
  <2>3. CASE Len(order) = itSize /\ itPos <= itSize
    BY <1>7, <2>1, <2>3 DEF NetConnectStep, LabelTrack
  <2>4. CASE Len(order) = itSize /\ ~(itPos <= itSize)
    <3>1. idle' = Append(idle, ConnEntry) /\ netPc' = "wait"
      BY <1>7, <2>4 DEF NetConnectStep
    <3>2. SettlesTo(idle', uiConnected', TRUE)
      BY <2>1, <3>1, SettleConn DEF TypeOK
    <3>3. QED
      BY <2>1, <3>1, <3>2 DEF LabelTrack
  <2>5. QED
    BY <2>2, <2>3, <2>4
<1>8. CASE NetConnRefused
  <2>1. SettlesTo(idle', uiConnected', FALSE)
    BY <1>8, SettleDisc DEF NetConnRefused, OnDisconnect, TypeOK
  <2>2. QED
    BY <1>8, <2>1 DEF NetConnRefused, OnDisconnect, NetIdle, LabelTrack
<1>9. CASE NetLost
  <2>1. SettlesTo(idle', uiConnected', FALSE)
    BY <1>9, SettleDisc DEF NetLost, OnDisconnect, TypeOK
  <2>2. QED
    BY <1>9, <2>1 DEF NetLost, OnDisconnect, NetIdle, LabelTrack
<1>10. CASE NetReconnect
  BY <1>10 DEF NetReconnect, NetIdle, LabelTrack
<1>11. ASSUME NEW t \in Topics, NEW k \in Payloads, NetMessage(t, k)
       PROVE  LabelTrack'
  BY <1>11 DEF NetMessage, NetIdle, LabelTrack
<1>12. CASE NetMessageStep
  <2>1. /\ netPc = "onmessage" /\ link = "up" /\ connected
        /\ SettlesTo(idle, uiConnected, TRUE)
        /\ UNCHANGED <<connected, uiConnected, loop, link>>
        /\ netPc' \in {"wait", "onmessage"}
    BY <1>12 DEF NetMessageStep, LabelTrack
  <2>2. CASE Len(order) # itSize \/ itPos > itSize
    <3>1. idle' = idle /\ netPc' = "wait"
      BY <1>12, <2>2 DEF NetMessageStep
    <3>2. SettlesTo(idle', uiConnected', TRUE)
      BY <2>1, <3>1
    <3>3. QED
      BY <2>1, <3>1, <3>2 DEF LabelTrack
  <2>3. CASE ~(Len(order) # itSize \/ itPos > itSize)
    <3> DEFINE p == order[itPos]
    <3>1. p \in Patterns
      BY <2>3 DEF TypeOK
    <3>2. CASE TopicMatches(cur.topic, p)
      <4>1. idle' = idle \o [i \in 1..Len(mh[p]) |->
                               MsgEntry(mh[p][i], cur.topic, cur.payload)]
        BY <1>12, <2>3, <3>2 DEF NetMessageStep
      <4>2. /\ mh[p] \in Seq(Handlers) /\ idle \in Seq(IdleEntry)
            /\ cur.topic \in Topics /\ cur.payload \in Decoded
        BY <3>1 DEF TypeOK
      <4>3. SettlesTo(idle', uiConnected', TRUE)
        BY <2>1, <4>1, <4>2, SettleMsgs
      <4>4. QED
        BY <2>1, <4>3 DEF LabelTrack
    <3>3. CASE ~TopicMatches(cur.topic, p)
      <4>1. idle' = idle /\ netPc' = "onmessage"
        BY <1>12, <2>3, <3>3 DEF NetMessageStep
      <4>2. SettlesTo(idle', uiConnected', TRUE)
        BY <2>1, <4>1
      <4>3. QED
        BY <2>1, <4>1, <4>2 DEF LabelTrack
    <3>4. QED
      BY <3>2, <3>3
  <2>4. QED
    BY <2>2, <2>3
<1>13. CASE UNCHANGED vars
  BY <1>13 DEF vars, LabelTrack
<1>14. QED
  BY <1>1, <1>2, <1>3, <1>4, <1>5, <1>6, <1>7, <1>8, <1>9, <1>10, <1>11,
     <1>12, <1>13 DEF Next

(* LInv gives LabelSettled: with the queue drained the label is what the  *)
(* last lifecycle callback set, and LabelTrack ties that to the socket.    *)
LEMMA LInvSettled == LInv => LabelSettled
<1> SUFFICES ASSUME LInv, idle = <<>>, netPc = "wait", link # "connecting"
             PROVE  uiConnected = connected
  BY DEF LabelSettled
<1>1. link \in {"down", "up"}
  BY DEF LInv, TypeOK
<1>2. CASE link = "down"
  BY <1>2, SettleEmpty DEF LInv, LabelTrack, TypeOK
<1>3. CASE link = "up"
  BY <1>3, SettleEmpty DEF LInv, LabelTrack, TypeOK
<1>4. QED
  BY <1>1, <1>2, <1>3

(* The status label settles on the client's state (app.py                 *)
(* _on_mqtt_connected / _on_mqtt_disconnected, run through GLib.idle_add  *)
(* from _on_connect and _on_disconnect): whenever the idle queue is       *)
(* empty, the network thread is idle and no CONNECT is outstanding, the    *)
(* label reads Connected exactly when the client is connected.            *)
THEOREM LabelSettledHolds == Spec => []LabelSettled
BY InitLInv, NextLInv, LInvSettled, PTL DEF Spec
=============================================================================
