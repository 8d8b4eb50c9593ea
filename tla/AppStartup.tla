----------------------------- MODULE AppStartup -----------------------------
(***************************************************************************)
(* The client as BigSkiesApp drives it (app.py).  _show_login calls        *)
(* connect(); on True, _build_main_window builds the status label and      *)
(* creates HealthPanel, ControlPanel and TelescopePreview, whose           *)
(* constructors call subscribe() five times in a fixed order while the     *)
(* paho thread already runs.  Only when _build_main_window has returned    *)
(* does the GLib main loop run idle callbacks; do_shutdown runs after the  *)
(* loop has quit.  The main thread makes no other subscribe() call.        *)
(***************************************************************************)
EXTENDS MQTTClient

CONSTANTS HealthH,     \* HealthPanel._on_health_message
          CtlStateH,   \* ControlPanel._on_telescope_state
          CtlRespH,    \* ControlPanel._on_config_response
          CtlEventH,   \* ControlPanel._on_config_event
          PrvStateH    \* TelescopePreview._on_telescope_state

(* ControlPanel.plugin_id *)
PluginId == "f7e8d9c6-b5a4-3210-9876-543210fedcba"

HealthPat == <<"bigskies", "coordinator", "+", "health", "status">>
StatePat  == <<"bigskies", "telescope", "0", "state", "#">>
RespPat   == <<"bigskies", "plugin", PluginId, "config", "response">>
EventPat  == <<"bigskies", "plugin", PluginId, "config", "event">>

(* The constructors subscribe these patterns with these handlers.        *)
ASSUME AppAssumption ==
    /\ {HealthPat, StatePat, RespPat, EventPat} \subseteq Patterns
    /\ {HealthH, CtlStateH, CtlRespH, CtlEventH, PrvStateH} \subseteq Handlers

(* The subscribe() calls of the three constructors, in the order           *)
(* _build_main_window creates the panels.  (ControlPanel's config-list     *)
(* request after its third call is a publish(): no client state.)         *)
StartupCalls ==
    << <<HealthPat, HealthH>>,
       <<StatePat, CtlStateH>>,
       <<RespPat, CtlRespH>>,
       <<EventPat, CtlEventH>>,
       <<StatePat, PrvStateH>> >>

(* mainPc = 0: login; 1..Len(StartupCalls): the next constructor call;    *)
(* WindowBuilt: _build_main_window has returned, the main loop runs.      *)
WindowBuilt == Len(StartupCalls) + 1

VARIABLES
    mainPc,      \* where the main thread is in the startup script
    late         \* history: the message being dispatched arrived once the
                 \*   window was built and its last subscribe() had finished

appVars == <<mainPc, late>>
allVars == <<vars, appVars>>

AppTypeOK ==
    /\ TypeOK
    /\ mainPc \in 0..WindowBuilt
    /\ late \in BOOLEAN

AppInit == Init /\ mainPc = 0 /\ late = FALSE

(* _show_login: connect(), then the label of _build_main_window. *)
AppConnect ==
    /\ mainPc = 0
    /\ Connect
    /\ mainPc' = 1
    /\ UNCHANGED late

(* The next subscribe() of a panel constructor. *)
AppSubscribe ==
    /\ mainPc \in 1..Len(StartupCalls)
    /\ Subscribe(StartupCalls[mainPc][1], StartupCalls[mainPc][2])
    /\ mainPc' = mainPc + 1
    /\ UNCHANGED late

AppSubscribeAppend == SubscribeAppend /\ UNCHANGED appVars

(* The GLib main loop, once the window is built. *)
AppRunIdle == mainPc = WindowBuilt /\ RunIdle /\ UNCHANGED appVars

(* do_shutdown, after the main loop has quit. *)
AppShutdown == mainPc = WindowBuilt /\ Disconnect /\ UNCHANGED appVars

AppNetMessage(t, k) ==
    /\ NetMessage(t, k)
    /\ late' = (mainPc = WindowBuilt /\ pending = {})
    /\ UNCHANGED mainPc

AppNet ==
    /\ \/ NetConnAckOk \/ NetConnectStep \/ NetConnRefused \/ NetLost
       \/ NetReconnect \/ NetMessageStep
    /\ UNCHANGED appVars

AppNext ==
    \/ AppConnect
    \/ AppSubscribe
    \/ AppSubscribeAppend
    \/ AppRunIdle
    \/ AppShutdown
    \/ \E t \in Topics, k \in Payloads : AppNetMessage(t, k)
    \/ AppNet

(* The main thread runs its constructors to the end and then its loop; a  *)
(* started callback of the paho thread runs to its end.  The user (login, *)
(* quit) and the broker owe nothing.                                       *)
AppFairness ==
    /\ WF_allVars(AppSubscribe)
    /\ WF_allVars(AppSubscribeAppend)
    /\ WF_allVars(AppRunIdle)
    /\ WF_allVars(NetConnectStep /\ UNCHANGED appVars)
    /\ WF_allVars(NetMessageStep /\ UNCHANGED appVars)

AppSpec == AppInit /\ [][AppNext]_allVars /\ AppFairness

-----------------------------------------------------------------------------
(* Properties *)

(* A lost connection reaches the status label: while the main loop runs   *)
(* and the socket stays down after a drop or refusal, the label           *)
(* eventually reads Disconnected (_on_disconnect's idle_add of            *)
(* _on_mqtt_disconnected, run by the main loop after the startup          *)
(* constructors and the callbacks queued before it).                       *)
LabelFollowsDrop ==
    (loop = "running" /\ link = "down")
        ~> (~uiConnected \/ link # "down" \/ loop # "running")

(* Once the window is built the registry no longer changes, so a message  *)
(* that arrives after startup is scheduled for every handler registered    *)
(* on a matching pattern (spec 4.4).                                       *)
DispatchCompleteAfterStartup ==
    [][(netPc = "onmessage" /\ netPc' = "wait" /\ late) => want \subseteq got]_allVars
=============================================================================
