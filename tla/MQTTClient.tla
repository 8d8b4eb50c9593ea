----------------------------- MODULE MQTTClient -----------------------------
(***************************************************************************)
(* BigSkiesMQTTClient (mqtt/client.py) with the two threads that run it:  *)
(*   - the GTK main thread: connect(), subscribe(), disconnect() and the   *)
(*     GLib main loop running the callbacks queued with GLib.idle_add;     *)
(*   - the paho network thread started by loop_start(): _on_connect,       *)
(*     _on_disconnect and _on_message, and paho's reconnect loop.          *)
(* The broker is the environment: it acknowledges or refuses a connection, *)
(* drops it, and delivers messages on topics matching a filter subscribed  *)
(* in the current (clean) session.                                         *)
(*                                                                         *)
(* Both callbacks that iterate message_handlers do so one next() per step, *)
(* because the main thread may insert a key in between: CPython's dict     *)
(* iterator then raises RuntimeError at its next next().                   *)
(***************************************************************************)
EXTENDS Naturals, Sequences, TopicMatch

CONSTANTS Patterns,   \* the patterns subscribe() is called with
          Topics,     \* the topics the broker publishes on
          Handlers,   \* the handler callables (model values)
          MaxSubs,    \* bound on subscribe() calls
          MaxMsgs,    \* bound on messages delivered by the broker
          MaxConns    \* bound on connection attempts (connect + reconnects)

ASSUME ClientAssumption ==
    /\ Patterns \subseteq Seq(STRING)
    /\ Topics \subseteq Seq(STRING) /\ Topics # {}
    /\ Handlers # {}
    /\ MaxSubs \in Nat /\ MaxMsgs \in Nat /\ MaxConns \in Nat

(* What msg.payload can be; _on_message decodes it (utf-8, then JSON). *)
Payloads == {"object", "empty", "scalar", "badjson", "badutf8"}
(* A decoded payload: a dict ({} for an empty payload) or another JSON value. *)
Decoded == {"object", "scalar"}
DecodeError == "error"

(* Mutant: an undecodable payload is passed on undecoded. *)
DecodeLenient(k) ==
    CASE k \in {"object", "empty"} -> "object"
      [] OTHER                     -> k

Decode(k) ==
    CASE k \in {"object", "empty"} -> "object"
      [] k = "scalar"              -> "scalar"
      [] OTHER                     -> DecodeError

(* An entry of the GLib idle queue: a message handler call, or the        *)
(* application's connect / disconnect callback.                           *)
IdleEntry == [kind : {"msg"}, handler : Handlers, topic : Topics, payload : Decoded]
             \cup [kind : {"conn", "disc"}]
ConnEntry == [kind |-> "conn"]
DiscEntry == [kind |-> "disc"]
MsgEntry(h, t, d) == [kind |-> "msg", handler |-> h, topic |-> t, payload |-> d]

VARIABLES
    order,        \* message_handlers keys, in insertion order
    mh,           \* message_handlers: pattern -> handler list (<<>> if absent)
    connected,    \* self.connected
    idle,         \* the GLib idle queue of the main loop
    uiConnected,  \* what the last lifecycle callback told the application
    pending,      \* the subscribe() call between its dict insert and its append
    loop,         \* the paho network loop: "none", "running", "stopped"
    link,         \* the broker connection: "down", "connecting", "up"
    brokerSubs,   \* filters subscribed at the broker in the current session
    netPc,        \* network thread: "wait", "onconnect", "onmessage", "dead"
    itSize,       \* len(message_handlers) when the running iteration began
    itPos,        \* position of the next key the iteration yields
    cur,          \* the message _on_message is dispatching
    want,         \* history: handlers registered on a matching pattern when it began
    issued,       \* history: those, and the handler of a subscribe() whose
                  \*   broker SUBSCRIBE was sent but which is not appended yet
    got,          \* history: handlers scheduled for it so far
    subs, msgs, conns  \* counters for the bounds

vars == <<order, mh, connected, idle, uiConnected, pending, loop, link,
          brokerSubs, netPc, itSize, itPos, cur, want, issued, got,
          subs, msgs, conns>>

(* message_handlers.keys() *)
Keys == {order[i] : i \in 1..Len(order)}

(* The handlers _on_message would schedule for topic t if it ran alone. *)
RegisteredFor(t) ==
    {h \in Handlers : \E i \in 1..Len(order) :
        TopicMatches(t, order[i]) /\ h \in Elems(mh[order[i]])}

IssuedFor(t) ==
    RegisteredFor(t) \cup {pr[2] : pr \in {pr \in pending : TopicMatches(t, pr[1])}}

(* client.subscribe(topic): a SUBSCRIBE reaches the broker only on an open *)
(* socket; otherwise paho returns MQTT_ERR_NO_CONN, which is ignored.      *)
BrokerSubscribe(p) ==
    IF link \in {"connecting", "up"} THEN brokerSubs \cup {p} ELSE brokerSubs

(* BigSkiesApp._build_main_window: the status label is created reading    *)
(* "Connected" (app.py), as soon as connect() has returned True.          *)
LabelBuilt == uiConnected' = TRUE

(* Mutant: _on_disconnect forgets 'self.connected = False'. *)
OnDisconnectKeepsConnected ==
    /\ idle' = Append(idle, DiscEntry)
    /\ UNCHANGED connected

(* _on_disconnect: clears connected and queues the application's          *)
(* disconnect callback with GLib.idle_add.                                 *)
OnDisconnect ==
    /\ connected' = FALSE
    /\ idle' = Append(idle, DiscEntry)

TypeOK ==
    /\ order \in Seq(Patterns)
    /\ mh \in [Patterns -> Seq(Handlers)]
    /\ connected \in BOOLEAN
    /\ idle \in Seq(IdleEntry)
    /\ uiConnected \in BOOLEAN
    /\ pending \subseteq Patterns \X Handlers
    /\ loop \in {"none", "running", "stopped"}
    /\ link \in {"down", "connecting", "up"}
    /\ brokerSubs \subseteq Patterns
    /\ netPc \in {"wait", "onconnect", "onmessage", "dead"}
    /\ itSize \in Nat /\ itPos \in Nat \ {0}
    /\ cur \in [topic : Topics, payload : Decoded]
    /\ want \subseteq Handlers /\ issued \subseteq Handlers /\ got \subseteq Handlers
    /\ subs \in Nat /\ msgs \in Nat /\ conns \in Nat

(* __init__: no handlers, not connected, the network loop not started. *)
Init ==
    /\ order = <<>>
    /\ mh = [p \in Patterns |-> <<>>]
    /\ connected = FALSE
    /\ idle = <<>>
    /\ uiConnected = FALSE
    /\ pending = {}
    /\ loop = "none"
    /\ link = "down"
    /\ brokerSubs = {}
    /\ netPc = "wait"
    /\ itSize = 0 /\ itPos = 1
    /\ cur = [topic |-> CHOOSE t \in Topics : TRUE, payload |-> "object"]
    /\ want = {} /\ issued = {} /\ got = {}
    /\ subs = 0 /\ msgs = 0 /\ conns = 0

-----------------------------------------------------------------------------
(* Main thread.  It runs one call at a time: nothing else while a          *)
(* subscribe() is between its two halves; nothing at all once             *)
(* do_shutdown has stopped the loop.                                       *)

MainFree == pending = {} /\ loop # "stopped"

(* BigSkiesApp._show_login: connect(), where client.connect() opens the    *)
(* socket and sends CONNECT and loop_start() starts the network thread;    *)
(* on True the main window is built with its status label reading         *)
(* "Connected".  (When client.connect raises, connect() returns False and  *)
(* the application quits: no further behaviour.)                           *)
Connect ==
    /\ MainFree
    /\ loop = "none"
    /\ conns < MaxConns
    /\ link' = "connecting"
    /\ loop' = "running"
    /\ conns' = conns + 1
    /\ LabelBuilt
    /\ UNCHANGED <<order, mh, connected, idle, pending, brokerSubs,
                   netPc, itSize, itPos, cur, want, issued, got, subs, msgs>>

(* Mutant: no 'if topic not in self.message_handlers' guard; a known      *)
(* pattern gets a fresh empty list.                                       *)
SubscribeNoGuard(p, h) ==
    /\ MainFree
    /\ subs < MaxSubs
    /\ subs' = subs + 1
    /\ order' = IF p \in Keys THEN order ELSE Append(order, p)
    /\ mh' = [mh EXCEPT ![p] = <<>>]
    /\ brokerSubs' = BrokerSubscribe(p)
    /\ pending' = {<<p, h>>}
    /\ UNCHANGED <<connected, idle, uiConnected, loop, link, netPc, itSize,
                   itPos, cur, want, issued, got, msgs, conns>>

(* subscribe(topic, callback), first half: a new pattern gets an empty     *)
(* handler list and a broker SUBSCRIBE; a known one gets the callback      *)
(* appended at once.                                                       *)
Subscribe(p, h) ==
    /\ MainFree
    /\ subs < MaxSubs
    /\ subs' = subs + 1
    /\ IF p \in Keys
       THEN /\ mh' = [mh EXCEPT ![p] = Append(@, h)]
            /\ UNCHANGED <<order, brokerSubs, pending>>
       ELSE /\ order' = Append(order, p)
            /\ mh' = [mh EXCEPT ![p] = <<>>]
            /\ brokerSubs' = BrokerSubscribe(p)
            /\ pending' = {<<p, h>>}
    /\ UNCHANGED <<connected, idle, uiConnected, loop, link, netPc, itSize,
                   itPos, cur, want, issued, got, msgs, conns>>

(* subscribe(), second half: self.message_handlers[topic].append(callback). *)
SubscribeAppend ==
    /\ loop # "stopped"
    /\ \E pr \in pending :
         /\ mh' = [mh EXCEPT ![pr[1]] = Append(@, pr[2])]
         /\ pending' = {}
    /\ UNCHANGED <<order, connected, idle, uiConnected, loop, link, brokerSubs,
                   netPc, itSize, itPos, cur, want, issued, got, subs, msgs, conns>>

(* disconnect() from do_shutdown: loop_stop() joins the network thread     *)
(* (after the callback it is running); client.disconnect() then sends     *)
(* DISCONNECT on an open socket, and paho calls _on_disconnect on this     *)
(* thread.  The main loop has already quit.                                *)
Disconnect ==
    /\ MainFree
    /\ loop = "running"
    /\ netPc \in {"wait", "dead"}
    /\ loop' = "stopped"
    /\ IF link \in {"connecting", "up"}
       THEN /\ OnDisconnect
            /\ link' = "down"
            /\ brokerSubs' = {}
       ELSE UNCHANGED <<connected, idle, link, brokerSubs>>
    /\ UNCHANGED <<order, mh, uiConnected, pending, netPc, itSize, itPos, cur,
                   want, issued, got, subs, msgs, conns>>

(* Mutant: _on_mqtt_disconnected sets the label's "Connected" markup, as   *)
(* _on_mqtt_connected does.                                                 *)
RunIdleDiscConnected ==
    /\ MainFree
    /\ idle # <<>>
    /\ idle' = Tail(idle)
    /\ uiConnected' = CASE Head(idle).kind \in {"conn", "disc"} -> TRUE
                        [] OTHER                              -> uiConnected
    /\ UNCHANGED <<order, mh, connected, pending, loop, link, brokerSubs, netPc,
                   itSize, itPos, cur, want, issued, got, subs, msgs, conns>>

(* The GLib main loop runs the oldest idle callback: a message handler, or *)
(* the application's _on_mqtt_connected / _on_mqtt_disconnected.           *)
RunIdle ==
    /\ MainFree
    /\ idle # <<>>
    /\ idle' = Tail(idle)
    /\ uiConnected' = CASE Head(idle).kind = "conn" -> TRUE
                        [] Head(idle).kind = "disc" -> FALSE
                        [] OTHER                    -> uiConnected
    /\ UNCHANGED <<order, mh, connected, pending, loop, link, brokerSubs, netPc,
                   itSize, itPos, cur, want, issued, got, subs, msgs, conns>>

-----------------------------------------------------------------------------
(* Network thread.  It runs while the loop is "running". *)

NetIdle == loop = "running" /\ netPc = "wait"

(* CONNACK with rc == 0: _on_connect sets connected and starts iterating   *)
(* message_handlers.keys() to resubscribe.                                 *)
NetConnAckOk ==
    /\ NetIdle
    /\ link = "connecting"
    /\ link' = "up"
    /\ connected' = TRUE
    /\ netPc' = "onconnect"
    /\ itSize' = Len(order)
    /\ itPos' = 1
    /\ UNCHANGED <<order, mh, idle, uiConnected, pending, loop, brokerSubs, cur,
                   want, issued, got, subs, msgs, conns>>

(* Mutant: _on_connect walks the keys but never calls client.subscribe. *)
NetConnectStepNoResubscribe ==
    /\ loop = "running"
    /\ netPc = "onconnect"
    /\ IF Len(order) # itSize
       THEN /\ netPc' = "dead"
            /\ UNCHANGED <<idle, itPos>>
       ELSE IF itPos <= itSize
       THEN /\ itPos' = itPos + 1
            /\ UNCHANGED <<idle, netPc>>
       ELSE /\ idle' = Append(idle, ConnEntry)
            /\ netPc' = "wait"
            /\ UNCHANGED itPos
    /\ UNCHANGED <<order, mh, connected, uiConnected, pending, loop, link, itSize,
                   brokerSubs, cur, want, issued, got, subs, msgs, conns>>

(* One next() of the resubscribe loop.  A key inserted since the loop      *)
(* began makes it raise RuntimeError, which escapes _on_connect; paho      *)
(* (suppress_exceptions False) re-raises it and the network thread ends.   *)
(* At the end, the connect callback is queued for the main loop.           *)
NetConnectStep ==
    /\ loop = "running"
    /\ netPc = "onconnect"
    /\ IF Len(order) # itSize
       THEN /\ netPc' = "dead"
            /\ UNCHANGED <<brokerSubs, idle, itPos>>
       ELSE IF itPos <= itSize
       THEN /\ brokerSubs' = BrokerSubscribe(order[itPos])
            /\ itPos' = itPos + 1
            /\ UNCHANGED <<idle, netPc>>
       ELSE /\ idle' = Append(idle, ConnEntry)
            /\ netPc' = "wait"
            /\ UNCHANGED <<brokerSubs, itPos>>
    /\ UNCHANGED <<order, mh, connected, uiConnected, pending, loop, link, itSize,
                   cur, want, issued, got, subs, msgs, conns>>

(* The broker ends the session: CONNACK with rc != 0 (_on_connect only     *)
(* logs it and paho closes the socket) or a drop before CONNACK            *)
(* (NetConnRefused), or the loss of an established connection (NetLost).  *)
(* Either way paho calls _on_disconnect, which clears connected and queues *)
(* the disconnect callback.  The clean session loses its subscriptions.    *)
NetConnRefused ==
    /\ NetIdle
    /\ link = "connecting"
    /\ link' = "down"
    /\ brokerSubs' = {}
    /\ OnDisconnect
    /\ UNCHANGED <<order, mh, uiConnected, pending, loop, netPc, itSize, itPos,
                   cur, want, issued, got, subs, msgs, conns>>


NetLost ==
    /\ NetIdle
    /\ link = "up"
    /\ link' = "down"
    /\ brokerSubs' = {}
    /\ OnDisconnect
    /\ UNCHANGED <<order, mh, uiConnected, pending, loop, netPc, itSize, itPos,
                   cur, want, issued, got, subs, msgs, conns>>

(* paho's loop_forever reconnects after a drop. *)
NetReconnect ==
    /\ NetIdle
    /\ link = "down"
    /\ conns < MaxConns
    /\ link' = "connecting"
    /\ conns' = conns + 1
    /\ UNCHANGED <<order, mh, connected, idle, uiConnected, pending, loop,
                   brokerSubs, netPc, itSize, itPos, cur, want, issued, got,
                   subs, msgs>>

(* The broker delivers a message on topic t, which matches a filter of the *)
(* session (for a well-formed filter the broker's match is TopicMatches,   *)
(* run MatcherMC).  _on_message decodes it; a decode error is logged and   *)
(* the message dropped; otherwise the iteration over the handlers begins.  *)
NetMessage(t, k) ==
    /\ NetIdle
    /\ link = "up"
    /\ msgs < MaxMsgs
    /\ \E f \in brokerSubs : WellFormed(f) /\ TopicMatches(t, f)
    /\ msgs' = msgs + 1
    /\ IF Decode(k) = DecodeError
       THEN UNCHANGED <<netPc, itSize, itPos, cur, want, issued, got>>
       ELSE /\ netPc' = "onmessage"
            /\ cur' = [topic |-> t, payload |-> Decode(k)]
            /\ itSize' = Len(order)
            /\ itPos' = 1
            /\ want' = RegisteredFor(t)
            /\ issued' = IssuedFor(t)
            /\ got' = {}
    /\ UNCHANGED <<order, mh, connected, idle, uiConnected, pending, loop, link,
                   brokerSubs, subs, conns>>

(* Mutant: the loop stops one key early (off by one in its end test). *)
NetMessageStepSkipLast ==
    /\ loop = "running"
    /\ netPc = "onmessage"
    /\ IF Len(order) # itSize \/ itPos >= itSize
       THEN /\ netPc' = "wait"
            /\ UNCHANGED <<idle, itPos, got>>
       ELSE LET p == order[itPos]
            IN  /\ itPos' = itPos + 1
                /\ IF TopicMatches(cur.topic, p)
                   THEN /\ idle' = idle \o [i \in 1..Len(mh[p]) |->
                                      MsgEntry(mh[p][i], cur.topic, cur.payload)]
                        /\ got' = got \cup Elems(mh[p])
                   ELSE UNCHANGED <<idle, got>>
                /\ UNCHANGED netPc
    /\ UNCHANGED <<order, mh, connected, uiConnected, pending, loop, link,
                   brokerSubs, itSize, cur, want, issued, subs, msgs, conns>>

(* One next() of the loop over message_handlers.items(): a matching        *)
(* pattern has each of its handlers queued with GLib.idle_add.  A          *)
(* RuntimeError from a key inserted meanwhile is caught and logged, and    *)
(* the rest of the message is dropped.                                     *)
NetMessageStep ==
    /\ loop = "running"
    /\ netPc = "onmessage"
    /\ IF Len(order) # itSize \/ itPos > itSize
       THEN /\ netPc' = "wait"
            /\ UNCHANGED <<idle, itPos, got>>
       ELSE LET p == order[itPos]
            IN  /\ itPos' = itPos + 1
                /\ IF TopicMatches(cur.topic, p)
                   THEN /\ idle' = idle \o [i \in 1..Len(mh[p]) |->
                                      MsgEntry(mh[p][i], cur.topic, cur.payload)]
                        /\ got' = got \cup Elems(mh[p])
                   ELSE UNCHANGED <<idle, got>>
                /\ UNCHANGED netPc
    /\ UNCHANGED <<order, mh, connected, uiConnected, pending, loop, link,
                   brokerSubs, itSize, cur, want, issued, subs, msgs, conns>>

-----------------------------------------------------------------------------
Next ==
    \/ Connect
    \/ \E p \in Patterns, h \in Handlers : Subscribe(p, h)
    \/ SubscribeAppend
    \/ Disconnect
    \/ RunIdle
    \/ NetConnAckOk
    \/ NetConnectStep
    \/ NetConnRefused
    \/ NetLost
    \/ NetReconnect
    \/ \E t \in Topics, k \in Payloads : NetMessage(t, k)
    \/ NetMessageStep

(* A thread that has begun a call finishes it, and the main loop runs its  *)
(* queued callbacks; the broker and the user owe nothing.                  *)
Fairness ==
    /\ WF_vars(SubscribeAppend)
    /\ WF_vars(RunIdle)
    /\ WF_vars(NetConnectStep)
    /\ WF_vars(NetMessageStep)

Spec == Init /\ [][Next]_vars /\ Fairness

-----------------------------------------------------------------------------
(* Properties *)

(* Reconnect resubscribes everything: once _on_connect has finished and   *)
(* the connection is up, every pattern in message_handlers is subscribed   *)
(* in the broker's current clean session, whatever subscribe() calls ran   *)
(* on the main thread while the session was down, connecting or being     *)
(* resubscribed.                                                          *)
SubscribedWhenConnected ==
    (netPc = "wait" /\ link = "up") => Keys \subseteq brokerSubs

(* The status label shows the connection state the client holds once    *)
(* the lifecycle callbacks queued through GLib.idle_add have run: when no  *)
(* callback is running on the network thread, the idle queue is empty and  *)
(* the transport is not between CONNECT and CONNACK, the label agrees     *)
(* with connected.                                                         *)
LabelSettled ==
    (idle = <<>> /\ netPc = "wait" /\ link # "connecting") => uiConnected = connected

(* The status label says "Connected" only when the client is connected    *)
(* (spec 4.3: Connected is entered when the transport reports success),    *)
(* whenever the callbacks have caught up.                                  *)
LabelMatchesState ==
    (idle = <<>> /\ netPc = "wait") => uiConnected = connected

(* The registry as subscribe()'s callers see it: a subscribe() whose      *)
(* SUBSCRIBE has gone out counts its handler as registered, though line 81 *)
(* has not appended it yet.                                                *)
RegView ==
    [p \in Patterns |->
        IF \E pr \in pending : pr[1] = p
        THEN Append(mh[p], (CHOOSE pr \in pending : pr[1] = p)[2])
        ELSE mh[p]]

Registry == INSTANCE HandlerRegistry WITH keys <- order, handlers <- RegView

(* subscribe(), though split in two steps with the network thread running  *)
(* in between, implements the atomic register() of spec 4.2: every step   *)
(* of the client is a registration or leaves the registry as it was.      *)
RegistryRefined == Registry!RegSpec

(* _on_message schedules every handler that was registered on a matching  *)
(* pattern when the message arrived (spec 4.4).                           *)
DispatchComplete ==
    [][(netPc = "onmessage" /\ netPc' = "wait") => want \subseteq got]_vars

(* A message the broker delivers on a pattern because subscribe(pattern,   *)
(* h) sent the SUBSCRIBE (a retained message, typically) reaches h.        *)
FirstDeliveryReachesSubscriber ==
    [][(netPc = "onmessage" /\ netPc' = "wait") => issued \subseteq got]_vars

(* No exception escapes a paho callback, so the network thread keeps       *)
(* running (spec 7: the core logs and continues).                         *)
DeliveryThreadSurvives == netPc # "dead"

(* Every registered pattern is well formed: subscribe() rejects a '#' that *)
(* is not the last segment (spec 3, InvalidPattern).                      *)
RegistryWellFormed == \A p \in Keys : WellFormed(p)
=============================================================================
