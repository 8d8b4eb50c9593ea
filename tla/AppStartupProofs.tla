------------------------- MODULE AppStartupProofs -------------------------
(***************************************************************************)
(* Proofs about the application's startup script (AppStartup) for every  *)
(* value of the constants.  Every step of the application is a step of    *)
(* the client, so the client's typing carries over; the dispatch theorem  *)
(* rests on the registry being frozen once _build_main_window returned.   *)
(***************************************************************************)
EXTENDS AppStartup, LabelProofs, TLAPS

(* The handlers the first n keys of message_handlers give topic t: what   *)
(* _on_message has scheduled after n next() calls of its loop.            *)
Scheduled(t, n) ==
    {h \in Handlers : \E i \in 1..n :
        TopicMatches(t, order[i]) /\ h \in Elems(mh[order[i]])}

(* Once the window is built and its last subscribe() has appended, no     *)
(* subscribe() is half done; while a message that arrived then is being    *)
(* dispatched, the keys have not changed since it arrived, what it will    *)
(* schedule is what was registered then, and what it has scheduled is the *)
(* handlers of the keys its loop has passed.                              *)
Frozen == mainPc = WindowBuilt /\ pending = {}

LateDispatch ==
    (netPc = "onmessage" /\ late) =>
        /\ Frozen
        /\ itSize = Len(order)
        /\ itPos \in 1..itSize + 1
        /\ want = RegisteredFor(cur.topic)
        /\ got = Scheduled(cur.topic, itPos - 1)

DInv == AppTypeOK /\ LateDispatch

-----------------------------------------------------------------------------
(* Every step of the application is a step of the client. *)

(* The constructors' subscribe() calls have patterns and handlers of the   *)
(* client's sets.                                                          *)
LEMMA StartupCallsType ==
    ASSUME NEW i \in 1..Len(StartupCalls)
    PROVE  StartupCalls[i][1] \in Patterns /\ StartupCalls[i][2] \in Handlers
<1>1. i \in {1, 2, 3, 4, 5}
  BY DEF StartupCalls
<1>2. QED
  BY <1>1, AppAssumption DEF StartupCalls

(* A step of the application is one of the client's Next. *)
LEMMA AppNextIsNext == AppNext => Next
<1> SUFFICES ASSUME AppNext PROVE Next
  OBVIOUS
<1>1. CASE AppSubscribe
  <2>1. StartupCalls[mainPc][1] \in Patterns /\ StartupCalls[mainPc][2] \in Handlers
    BY <1>1, StartupCallsType DEF AppSubscribe
  <2>2. QED
    BY <1>1, <2>1 DEF AppSubscribe, Next
<1>2. CASE AppNet
  BY <1>2, Zenon DEF AppNet, Next
<1>3. QED
  BY <1>1, <1>2 DEF AppNext, AppConnect, AppSubscribeAppend, AppRunIdle,
                    AppShutdown, AppNetMessage, Next

(* A stutter of the application is a stutter of the client. *)
LEMMA AppStutter == UNCHANGED allVars => UNCHANGED vars
BY DEF allVars, vars

-----------------------------------------------------------------------------
(* AppTypeOK is an inductive invariant. *)

LEMMA InitAppTypeOK == AppInit => AppTypeOK
<1> SUFFICES ASSUME AppInit PROVE AppTypeOK
  OBVIOUS
<1>1. TypeOK
  BY InitTypeOK DEF AppInit
<1>2. mainPc \in 0..WindowBuilt
  BY DEF AppInit, WindowBuilt, StartupCalls
<1>3. late \in BOOLEAN
  BY Zenon DEF AppInit
<1>4. QED
  BY <1>1, <1>2, <1>3 DEF AppTypeOK

(* Every step of the application keeps AppTypeOK. *)
LEMMA NextAppTypeOK == AppTypeOK /\ [AppNext]_allVars => AppTypeOK'
<1> SUFFICES ASSUME AppTypeOK, [AppNext]_allVars PROVE AppTypeOK'
  OBVIOUS
<1>1. TypeOK'
  <2>1. [Next]_vars
    BY AppNextIsNext, AppStutter
  <2>2. QED
    BY <2>1, NextTypeOK DEF AppTypeOK
<1>2. mainPc' \in 0..WindowBuilt
  BY DEF AppTypeOK, AppNext, AppConnect, AppSubscribe, AppSubscribeAppend,
         AppRunIdle, AppShutdown, AppNetMessage, AppNet, allVars, appVars,
         WindowBuilt
<1>3. late' \in BOOLEAN
  BY Zenon DEF AppTypeOK, AppNext, AppConnect, AppSubscribe, AppSubscribeAppend,
         AppRunIdle, AppShutdown, AppNetMessage, AppNet, allVars, appVars
<1>4. QED
  BY <1>1, <1>2, <1>3 DEF AppTypeOK

(* Every reachable state of the application is well typed. *)
THEOREM AppTypeCorrect == AppSpec => []AppTypeOK
BY InitAppTypeOK, NextAppTypeOK, PTL DEF AppSpec


-----------------------------------------------------------------------------
(* The loop of _on_message: one more key passed adds that key's handlers   *)
(* when it matches, and all keys passed give what is registered.           *)

LEMMA ScheduledNone ==
    ASSUME NEW t
    PROVE  Scheduled(t, 0) = {}
BY DEF Scheduled

(* Passing key n adds that key's handlers exactly when it matches. *)
LEMMA ScheduledStep ==
    ASSUME TypeOK, NEW t, NEW n \in 1..Len(order)
    PROVE  Scheduled(t, n) =
               IF TopicMatches(t, order[n])
               THEN Scheduled(t, n - 1) \cup Elems(mh[order[n]])
               ELSE Scheduled(t, n - 1)
<1>1. order[n] \in Patterns
  BY DEF TypeOK
<1>2. Elems(mh[order[n]]) \subseteq Handlers
  BY <1>1 DEF TypeOK, Elems
<1>3. CASE TopicMatches(t, order[n])
  BY <1>2, <1>3 DEF Scheduled
<1>4. CASE ~TopicMatches(t, order[n])
  BY <1>4 DEF Scheduled
<1>5. QED
  BY <1>3, <1>4

(* Passing every key schedules what RegisteredFor says is registered. *)
LEMMA ScheduledAll ==
    ASSUME NEW t
    PROVE  Scheduled(t, Len(order)) = RegisteredFor(t)
BY DEF Scheduled, RegisteredFor


-----------------------------------------------------------------------------
(* DInv is an inductive invariant. *)

LEMMA InitDInv == AppInit => DInv
<1> SUFFICES ASSUME AppInit PROVE DInv
  OBVIOUS
<1>1. AppTypeOK
  BY InitAppTypeOK
<1>2. LateDispatch
  BY DEF AppInit, Init, LateDispatch
<1>3. QED
  BY <1>1, <1>2 DEF DInv

(* A step of the main thread that leaves the network thread and the       *)
(* history alone, taken before the registry froze or changing nothing      *)
(* LateDispatch reads, keeps LateDispatch.                                 *)
LEMMA MainStepDInv ==
    ASSUME LateDispatch,
           UNCHANGED <<netPc, late>>,
           (~Frozen \/ UNCHANGED <<mainPc, pending, order, mh, itSize, itPos,
                                  cur, want, got>>)
    PROVE  LateDispatch'
<1>1. CASE ~Frozen
  BY <1>1, Zenon DEF LateDispatch
<1>2. CASE UNCHANGED <<mainPc, pending, order, mh, itSize, itPos, cur, want, got>>
  BY <1>2 DEF LateDispatch, Frozen, RegisteredFor, Scheduled
<1>3. QED
  BY <1>1, <1>2

(* Every step of the application keeps DInv. *)
LEMMA NextDInv == DInv /\ [AppNext]_allVars => DInv'
<1> SUFFICES ASSUME DInv, [AppNext]_allVars PROVE DInv'
  OBVIOUS
<1>0. AppTypeOK'
  BY NextAppTypeOK DEF DInv
<1> SUFFICES LateDispatch'
  BY <1>0 DEF DInv
<1> USE DEF DInv
<1>1. CASE AppConnect
  <2>1. ~Frozen
    BY <1>1 DEF AppConnect, Frozen, WindowBuilt, StartupCalls
  <2>2. UNCHANGED <<netPc, late>>
    BY <1>1 DEF AppConnect, Connect
  <2>3. QED
    BY <2>1, <2>2, MainStepDInv
<1>2. CASE AppSubscribe
  <2>1. ~Frozen
    BY <1>2 DEF AppSubscribe, Frozen, WindowBuilt, StartupCalls
  <2>2. UNCHANGED <<netPc, late>>
    BY <1>2 DEF AppSubscribe, Subscribe
  <2>3. QED
    BY <2>1, <2>2, MainStepDInv
<1>3. CASE AppSubscribeAppend
  <2>1. ~Frozen
    BY <1>3 DEF AppSubscribeAppend, SubscribeAppend, Frozen
  <2>2. UNCHANGED <<netPc, late>>
    BY <1>3 DEF AppSubscribeAppend, SubscribeAppend, appVars
  <2>3. QED
    BY <2>1, <2>2, MainStepDInv
<1>4. CASE AppRunIdle
  <2>1. UNCHANGED <<netPc, late, mainPc, pending, order, mh, itSize, itPos, cur,
                    want, got>>
    BY <1>4 DEF AppRunIdle, RunIdle, appVars
  <2>2. QED
    BY <2>1, MainStepDInv
<1>5. CASE AppShutdown
  <2>1. netPc \in {"wait", "dead"} /\ UNCHANGED <<netPc, late>>
    BY <1>5 DEF AppShutdown, Disconnect, appVars
  <2>2. QED
    BY <2>1 DEF LateDispatch
<1>6. ASSUME NEW t \in Topics, NEW k \in Payloads, AppNetMessage(t, k)
      PROVE  LateDispatch'
  <2>1. late' = Frozen
    BY <1>6, Zenon DEF AppNetMessage, Frozen
  <2>2. UNCHANGED <<mainPc, pending, order, mh>>
    BY <1>6 DEF AppNetMessage, NetMessage
  <2>3. CASE Decode(k) = DecodeError
    <3>1. netPc' = "wait"
      BY <1>6, <2>3 DEF AppNetMessage, NetMessage, NetIdle
    <3>2. QED
      BY <3>1 DEF LateDispatch
  <2>4. CASE Decode(k) # DecodeError
    <3>1. /\ netPc' = "onmessage" /\ cur'.topic = t
          /\ itSize' = Len(order) /\ itPos' = 1
          /\ want' = RegisteredFor(t) /\ got' = {}
      BY <1>6, <2>4 DEF AppNetMessage, NetMessage
    <3>2. late' => Frozen'
      BY <2>1, <2>2 DEF Frozen
    <3>3. itSize' = Len(order') /\ itPos' \in 1..itSize' + 1
      BY <2>2, <3>1 DEF AppTypeOK, TypeOK
    <3>4. want' = RegisteredFor(cur.topic)'
      BY <2>2, <3>1 DEF RegisteredFor
    <3>5. got' = Scheduled(cur.topic, itPos - 1)'
      BY <3>1 DEF Scheduled
    <3>6. QED
      BY <3>2, <3>3, <3>4, <3>5, Zenon DEF LateDispatch
  <2>5. QED
    BY <2>3, <2>4
<1>7. CASE AppNet
  <2>1. UNCHANGED <<mainPc, late>>
    BY <1>7 DEF AppNet, appVars
  <2>2. CASE NetMessageStep
    <3>1. UNCHANGED <<order, mh, pending, itSize, cur, want>>
      BY <2>2 DEF NetMessageStep
    <3>2. CASE ~late
      BY <2>1, <3>2 DEF LateDispatch
    <3>3. CASE late
      <4>1. netPc = "onmessage"
        BY <2>2 DEF NetMessageStep
      <4>2. /\ Frozen
            /\ itSize = Len(order)
            /\ itPos \in 1..itSize + 1
            /\ want = RegisteredFor(cur.topic)
            /\ got = Scheduled(cur.topic, itPos - 1)
        BY <3>3, <4>1 DEF LateDispatch
      <4>3. CASE itPos > itSize
        <5>1. netPc' = "wait"
          BY <2>2, <4>3 DEF NetMessageStep
        <5>2. QED
          BY <5>1 DEF LateDispatch
      <4>4. CASE itPos <= itSize
        <5> DEFINE p == order[itPos]
        <5>1. itPos' = itPos + 1 /\ netPc' = "onmessage"
          BY <2>2, <4>2, <4>4 DEF NetMessageStep
        <5>2. itPos \in 1..Len(order)
          BY <4>2, <4>4
        <5>3. got' = Scheduled(cur.topic, itPos)
          <6>1. CASE TopicMatches(cur.topic, p)
            <7>1. got' = got \cup Elems(mh[p])
              BY <2>2, <4>2, <4>4, <6>1 DEF NetMessageStep
            <7>2. Scheduled(cur.topic, itPos) =
                      Scheduled(cur.topic, itPos - 1) \cup Elems(mh[p])
              BY <5>2, <6>1, ScheduledStep DEF AppTypeOK
            <7>3. QED
              BY <4>2, <7>1, <7>2
          <6>2. CASE ~TopicMatches(cur.topic, p)
            <7>1. got' = got
              BY <2>2, <4>2, <4>4, <6>2 DEF NetMessageStep
            <7>2. Scheduled(cur.topic, itPos) = Scheduled(cur.topic, itPos - 1)
              BY <5>2, <6>2, ScheduledStep DEF AppTypeOK
            <7>3. QED
              BY <4>2, <7>1, <7>2
          <6>3. QED
            BY <6>1, <6>2
        <5>4. got' = Scheduled(cur.topic, itPos - 1)'
          <6>1. cur' = cur /\ order' = order /\ mh' = mh /\ itPos' - 1 = itPos
            BY <3>1, <5>1, <5>2
          <6>2. QED
            BY <6>1, <5>3 DEF Scheduled
        <5>5. want' = RegisteredFor(cur.topic)'
          BY <3>1, <4>2 DEF RegisteredFor
        <5>6. Frozen' /\ itSize' = Len(order') /\ itPos' \in 1..itSize' + 1
          BY <2>1, <3>1, <4>2, <4>4, <5>1 DEF Frozen
        <5>7. QED
          BY <5>1, <5>4, <5>5, <5>6, Zenon DEF LateDispatch
      <4>5. QED
        BY <4>2, <4>3, <4>4
    <3>7. QED
      BY <3>2, <3>3
  <2>3. CASE ~NetMessageStep
    <3>1. netPc' # "onmessage"
      BY <1>7, <2>3, Zenon DEF AppNet, NetConnAckOk, NetConnectStep, NetConnRefused,
                              NetLost, NetReconnect, NetIdle
    <3>2. QED
      BY <3>1 DEF LateDispatch
  <2>4. QED
    BY <2>2, <2>3
<1>8. CASE UNCHANGED allVars
  BY <1>8 DEF allVars, vars, appVars, LateDispatch, Frozen, RegisteredFor, Scheduled
<1>9. QED
  BY <1>1, <1>2, <1>3, <1>4, <1>5, <1>6, <1>7, <1>8 DEF AppNext


(* DInv holds in every reachable state. *)
THEOREM DInvHolds == AppSpec => []DInv
BY InitDInv, NextDInv, PTL DEF AppSpec

-----------------------------------------------------------------------------
(* The step that ends _on_message's dispatch of a late message schedules   *)
(* every handler registered when it arrived.                               *)

(* Only the last next() of _on_message's loop takes the network thread    *)
(* from "onmessage" back to "wait".                                       *)
LEMMA DispatchEnd ==
    ASSUME AppTypeOK, [AppNext]_allVars, netPc = "onmessage", netPc' = "wait"
    PROVE  NetMessageStep
<1>1. CASE AppNet
  BY <1>1, Zenon DEF AppNet, NetConnAckOk, NetConnectStep, NetConnRefused,
                     NetLost, NetReconnect, NetIdle
<1>2. CASE \E t \in Topics, k \in Payloads : AppNetMessage(t, k)
  BY <1>2 DEF AppNetMessage, NetMessage, NetIdle
<1>3. CASE AppConnect \/ AppSubscribe \/ AppSubscribeAppend \/ AppRunIdle
           \/ AppShutdown
  BY <1>3 DEF AppConnect, Connect, AppSubscribe, Subscribe, AppSubscribeAppend,
              SubscribeAppend, AppRunIdle, RunIdle, AppShutdown, Disconnect
<1>4. CASE UNCHANGED allVars
  BY <1>4 DEF allVars, vars
<1>5. QED
  BY <1>1, <1>2, <1>3, <1>4 DEF AppNext

(* Every step keeps the action of DispatchCompleteAfterStartup, given DInv. *)
LEMMA DispatchStep ==
    DInv /\ [AppNext]_allVars =>
        [(netPc = "onmessage" /\ netPc' = "wait" /\ late) => want \subseteq got]_allVars
<1> SUFFICES ASSUME DInv, [AppNext]_allVars,
                    netPc = "onmessage", netPc' = "wait", late
             PROVE  want \subseteq got
  OBVIOUS
<1>1. /\ itSize = Len(order)
      /\ itPos \in 1..itSize + 1
      /\ want = RegisteredFor(cur.topic)
      /\ got = Scheduled(cur.topic, itPos - 1)
  BY DEF DInv, LateDispatch
<1>2. NetMessageStep
  BY DispatchEnd DEF DInv
<1>3. ~(itPos <= itSize)
  BY <1>1, <1>2 DEF NetMessageStep
<1>4. got = Scheduled(cur.topic, Len(order))
  BY <1>1, <1>3
<1>5. QED
  BY <1>1, <1>4, ScheduledAll

(* DispatchCompleteAfterStartup, for every set of patterns, topics and     *)
(* handlers and every bound: once _build_main_window has returned and its  *)
(* last subscribe() has appended, _on_message schedules every handler that *)
(* was registered on a pattern matching the message when it arrived; the   *)
(* RuntimeError of client.py:134 cannot cut a late dispatch short, because *)
(* the registry no longer changes.                                         *)
THEOREM DispatchCompleteProved == AppSpec => DispatchCompleteAfterStartup
BY DInvHolds, DispatchStep, PTL DEF AppSpec, DispatchCompleteAfterStartup


-----------------------------------------------------------------------------
(***************************************************************************)
(* The application drives the client only through the client's own         *)
(* operations: _show_login calls connect(), the constructors call          *)
(* subscribe(), the GLib loop runs the idle queue and shutdown calls       *)
(* disconnect().  So every behaviour of AppStartup is one of the client's  *)
(* safety specification, and the client's invariants hold in the          *)
(* application too.                                                        *)
(***************************************************************************)
ClientSafety == Init /\ [][Next]_vars

(* Each behaviour of the application, seen on the client's variables, is  *)
(* a behaviour of the client: its initial state is Init and each of its   *)
(* steps is a client step or leaves the client alone.                     *)
THEOREM AppImplementsClient == AppSpec => ClientSafety
<1>1. AppInit => Init
  BY DEF AppInit
<1>2. [AppNext]_allVars => [Next]_vars
  BY AppNextIsNext, AppStutter
<1>3. QED
  BY <1>1, <1>2, PTL DEF AppSpec, ClientSafety

(* In the application too, whenever the network thread is idle on an     *)
(* established connection every pattern the panels subscribed is          *)
(* subscribed at the broker: _on_connect's loop restores them after a     *)
(* drop, whatever the order of the startup subscribe() calls and the      *)
(* connection's events.                                                    *)
THEOREM AppResubscribeComplete == AppSpec => []SubscribedWhenConnected
<1>1. ClientSafety => []IInv
  BY InitIInv, NextIInv, PTL DEF ClientSafety
<1>2. IInv => SubscribedWhenConnected
  BY DEF IInv
<1>3. QED
  BY <1>1, <1>2, AppImplementsClient, PTL

(* In the application too, the status label of _build_main_window        *)
(* settles on the client's connection state once the idle queue drains.  *)
THEOREM AppLabelSettled == AppSpec => []LabelSettled
<1>1. ClientSafety => []LInv
  BY InitLInv, NextLInv, PTL DEF ClientSafety
<1>2. QED
  BY <1>1, LInvSettled, AppImplementsClient, PTL

(* In the application too, the panels' subscribe() calls, each split by   *)
(* the network thread, implement the atomic handler registry of spec 4.2. *)
THEOREM AppRegistryRefinement == AppSpec => RegistryRefined
<1>1. ClientSafety => []RInv
  BY InitRInv, NextRInv, PTL DEF ClientSafety
<1>2. ClientSafety => Registry!RegInit /\ [][Registry!RegNext]_Registry!regVars
  BY <1>1, InitRefines, NextRefines, PTL DEF ClientSafety
<1>3. QED
  BY <1>2, AppImplementsClient, PTL DEF RegistryRefined, Registry!RegSpec

=============================================================================
