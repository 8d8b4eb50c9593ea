------------------------------- MODULE Panels -------------------------------
(***************************************************************************)
(* The handlers of the three panels (widgets/), run one at a time on the   *)
(* GTK main thread: user clicks and combo selections, and the MQTT         *)
(* handlers the client schedules with GLib.idle_add.  The ASCOM plugin and *)
(* other BigSkies GUIs are the environment: every GUI subscribes the same  *)
(* plugin config/response topic, so this panel also receives the answers  *)
(* to requests it never made.                                              *)
(*                                                                         *)
(* A Gtk.ComboBox emits "changed" synchronously whenever its active item   *)
(* changes (remove_all on an active combo, set_active, a user pick); both  *)
(* combos run ControlPanel._on_selection_changed inside the call.          *)
(***************************************************************************)
EXTENDS Naturals, Sequences

CONSTANTS Models,        \* model ids the plugin may list
          Mounts,        \* mount-type ids the plugin may list
          ModelLists,    \* the model sequences a config list may carry
          MountLists,    \* the mount-type sequences a config list may carry
          Coordinators,  \* HealthPanel.COORDINATORS ids (coordinator segment)
          OtherCoords,   \* coordinator segments HealthPanel has no row for
          Statuses,      \* status.lower() values health messages carry
          MaxReqs,       \* bound on this panel's requests
          MaxResps,      \* bound on config responses delivered
          MaxHealth      \* bound on health messages delivered

(* get_active_id() of a placeholder appended with append_text, or of a     *)
(* combo with no active item: None.                                        *)
NoId == "none"

(* the statuses _draw_indicator tells apart (any other one is grey) *)
HealthStatus == {"healthy", "warning", "unhealthy", "unknown"}

ASSUME PanelsAssumption ==
    /\ NoId \notin Models \cup Mounts
    /\ ModelLists \subseteq Seq(Models) /\ MountLists \subseteq Seq(Mounts)
    /\ Coordinators \cap OtherCoords = {}
    /\ Statuses \subseteq HealthStatus
    /\ MaxReqs \in Nat /\ MaxResps \in Nat /\ MaxHealth \in Nat

VARIABLES
    mItems, mActive,   \* model_combo: item ids, active position (0: none)
    tItems, tActive,   \* mount_combo
    sel,               \* [model, mount]: selected_model, selected_mount_type
    loadOn,            \* load_button sensitivity
    slew,              \* slew_label: "idle", "slewing" or "loaded" ...
    shown,             \*   ... the <<model, mount>> of "Config loaded: m/t"
    ctlConn,           \* ControlPanel.connected
    prvConn, prvSlew,  \* TelescopePreview.connected, .slewing
    lists, loads,      \* this panel's unanswered list / load requests
    asked,             \* history: every load this panel requested
    health, draws,     \* HealthPanel: status, and the draw handlers' statuses
    telConn, telSlew,  \* history: the connected / slewing value last published
                       \*   on the telescope's state topics
    reqs, resps, hmsgs \* counters for the bounds

panelVars == <<mItems, mActive, tItems, tActive, sel, loadOn, slew, shown, ctlConn,
               prvConn, prvSlew, lists, loads, asked, health, draws,
               telConn, telSlew, reqs, resps, hmsgs>>

(* get_active_id() *)
ActiveId(items, a) == IF a = 0 THEN NoId ELSE items[a]

Selection == [model : Models \cup {NoId}, mount : Mounts \cup {NoId}]

PanelsTypeOK ==
    /\ mItems \in Seq(Models \cup {NoId}) /\ mActive \in 0..Len(mItems)
    /\ tItems \in Seq(Mounts \cup {NoId}) /\ tActive \in 0..Len(tItems)
    /\ sel \in Selection
    /\ loadOn \in BOOLEAN
    /\ slew \in {"idle", "slewing", "loaded"}
    /\ shown \in (Models \X Mounts) \cup {<<NoId, NoId>>}
    /\ ctlConn \in BOOLEAN /\ prvConn \in BOOLEAN /\ prvSlew \in BOOLEAN
    /\ telConn \in BOOLEAN /\ telSlew \in BOOLEAN
    /\ lists \in Nat /\ loads \subseteq Models \X Mounts
    /\ asked \subseteq Models \X Mounts
    /\ health \in [Coordinators -> HealthStatus]
    /\ draws \in [Coordinators -> Seq(HealthStatus)]
    /\ reqs \in Nat /\ resps \in Nat /\ hmsgs \in Nat

(* ControlPanel.__init__: nothing selected, not connected, and the        *)
(* startup config-list request sent (_request_configurations).             *)
ControlPanelInit ==
    /\ sel = [model |-> NoId, mount |-> NoId]
    /\ ctlConn = FALSE
    /\ lists = 1 /\ loads = {} /\ asked = {}
    /\ reqs = 1 /\ resps = 0

(* _build_configuration_section: each combo holds its placeholder, made   *)
(* active before "changed" is connected; Load is insensitive.              *)
ConfigSectionInit ==
    /\ mItems = <<NoId>> /\ mActive = 1
    /\ tItems = <<NoId>> /\ tActive = 1
    /\ loadOn = FALSE

(* _build_slew_section: slew_label reads Idle. *)
SlewSectionInit == slew = "idle" /\ shown = <<NoId, NoId>>

(* TelescopePreview.__init__ *)
PreviewInit == prvConn = FALSE /\ prvSlew = FALSE

(* HealthPanel.__init__ and _create_health_row: one row per coordinator,   *)
(* its indicator with one draw handler for "unknown".                      *)
HealthInit ==
    /\ health = [c \in Coordinators |-> "unknown"]
    /\ draws = [c \in Coordinators |-> <<"unknown">>]
    /\ hmsgs = 0

PanelsInit ==
    ControlPanelInit /\ ConfigSectionInit /\ SlewSectionInit /\ PreviewInit
    /\ HealthInit
    /\ telConn = FALSE /\ telSlew = FALSE

-----------------------------------------------------------------------------
(* ControlPanel configuration section *)

(* Mutant: the else branch is missing; the button stays sensitive. *)
SelectionChangedKeepsButton(s, mid, tid) ==
    IF mid # NoId /\ tid # NoId
    THEN [model |-> mid, mount |-> tid, on |-> TRUE]
    ELSE s

(* _on_selection_changed, given the two active ids, on the state           *)
(* s = [model, mount, on] of selected_model, selected_mount_type and the  *)
(* button: both ids set select them and enable Load; otherwise Load is    *)
(* disabled and the old selection stays.                                   *)
SelectionChanged(s, mid, tid) ==
    IF mid # NoId /\ tid # NoId
    THEN [model |-> mid, mount |-> tid, on |-> TRUE]
    ELSE [s EXCEPT !.on = FALSE]

SelState == [model |-> sel.model, mount |-> sel.mount, on |-> loadOn]
SetSel(s) == sel' = [model |-> s.model, mount |-> s.mount] /\ loadOn' = s.on

(* The user picks item i of model_combo (a change of the active item). *)
PickModel(i) ==
    /\ i \in 1..Len(mItems) /\ i # mActive
    /\ mActive' = i
    /\ SetSel(SelectionChanged(SelState, mItems[i], ActiveId(tItems, tActive)))
    /\ UNCHANGED <<mItems, tItems, tActive, slew, shown, ctlConn, prvConn, prvSlew,
                   lists, loads, asked, health, draws, reqs, resps, hmsgs,
                   telConn, telSlew>>

PickMount(i) ==
    /\ i \in 1..Len(tItems) /\ i # tActive
    /\ tActive' = i
    /\ SetSel(SelectionChanged(SelState, ActiveId(mItems, mActive), tItems[i]))
    /\ UNCHANGED <<mItems, mActive, tItems, slew, shown, ctlConn, prvConn, prvSlew,
                   lists, loads, asked, health, draws, reqs, resps, hmsgs,
                   telConn, telSlew>>

(* _on_load_config_clicked: GTK delivers the click only to a sensitive    *)
(* button; the handler publishes load_config for the selection.           *)
OnLoadConfigClicked ==
    /\ loadOn
    /\ reqs < MaxReqs
    /\ sel.model # NoId /\ sel.mount # NoId
    /\ loads' = loads \cup {<<sel.model, sel.mount>>}
    /\ asked' = asked \cup {<<sel.model, sel.mount>>}
    /\ reqs' = reqs + 1
    /\ UNCHANGED <<mItems, mActive, tItems, tActive, sel, loadOn, slew, shown, ctlConn,
                   prvConn, prvSlew, lists, health, draws, resps, hmsgs,
                   telConn, telSlew>>

(* The Refresh button: _request_configurations publishes list_configs. *)
RequestConfigurations ==
    /\ reqs < MaxReqs
    /\ lists' = lists + 1
    /\ reqs' = reqs + 1
    /\ UNCHANGED <<mItems, mActive, tItems, tActive, sel, loadOn, slew, shown, ctlConn,
                   prvConn, prvSlew, loads, asked, health, draws, resps, hmsgs,
                   telConn, telSlew>>

(* One more config/response message delivered. *)
Respond == resps < MaxResps /\ resps' = resps + 1

(* _handle_config_list with a well-formed list: model_combo.remove_all(),  *)
(* placeholder and models appended, mount_combo likewise, then both        *)
(* set_active(0).  Each remove_all of an active combo and each set_active  *)
(* from none emits "changed"; at every emission one combo is on its       *)
(* placeholder or has no active item.                                      *)
HandleConfigList(ms, ts) ==
    LET s1 == IF mActive # 0
              THEN SelectionChanged(SelState, NoId, ActiveId(tItems, tActive))
              ELSE SelState
        s2 == IF tActive # 0 THEN SelectionChanged(s1, NoId, NoId) ELSE s1
        s3 == SelectionChanged(s2, NoId, NoId)
        s4 == SelectionChanged(s3, NoId, NoId)
    IN  /\ mItems' = <<NoId>> \o ms /\ mActive' = 1
        /\ tItems' = <<NoId>> \o ts /\ tActive' = 1
        /\ SetSel(s4)

(* Mutant: the broken list leaves model_combo's active position alone. *)
HandleConfigListBrokenKeepsActive(ms, k) ==
    LET s1 == IF mActive # 0
              THEN SelectionChanged(SelState, NoId, ActiveId(tItems, tActive))
              ELSE SelState
    IN  /\ mItems' = <<NoId>> \o SubSeq(ms, 1, k - 1)
        /\ UNCHANGED <<mActive, tItems, tActive>>
        /\ SetSel(s1)

(* _handle_config_list with an entry lacking "model": config["model"]      *)
(* raises KeyError after remove_all and the k - 1 entries before it; the   *)
(* exception ends the idle callback, mount_combo is untouched and          *)
(* model_combo has no active item.                                         *)
HandleConfigListBroken(ms, k) ==
    LET s1 == IF mActive # 0
              THEN SelectionChanged(SelState, NoId, ActiveId(tItems, tActive))
              ELSE SelState
    IN  /\ mItems' = <<NoId>> \o SubSeq(ms, 1, k - 1) /\ mActive' = 0
        /\ UNCHANGED <<tItems, tActive>>
        /\ SetSel(s1)

(* _on_config_response with success and command list_configs: ours when  *)
(* it answers a list request of ours, another GUI's otherwise; the        *)
(* handler does not look at request_id and cannot tell.  (A failure       *)
(* response, or a payload whose data is not a dict, changes nothing.)     *)
ConfigListResponse ==
    /\ Respond
    /\ \E own \in BOOLEAN :
         /\ own => lists > 0
         /\ lists' = IF own THEN lists - 1 ELSE lists
    /\ \E ms \in ModelLists, ts \in MountLists :
         \/ HandleConfigList(ms, ts)
         \/ \E k \in 1..Len(ms) : HandleConfigListBroken(ms, k)
    /\ UNCHANGED <<slew, shown, ctlConn, prvConn, prvSlew, loads, asked, health, draws,
                   reqs, hmsgs, telConn, telSlew>>

(* _on_config_response with success and command load_config:             *)
(* _handle_config_loaded shows the loaded model and mount in slew_label,   *)
(* for an answer to our load request or to another GUI's.                  *)
HandleConfigLoaded ==
    /\ Respond
    /\ \E m \in Models, t \in Mounts :
         /\ slew' = "loaded" /\ shown' = <<m, t>>
         /\ \/ <<m, t>> \in loads /\ loads' = loads \ {<<m, t>>}
            \/ UNCHANGED loads
    /\ UNCHANGED <<mItems, mActive, tItems, tActive, sel, loadOn, ctlConn,
                   prvConn, prvSlew, lists, asked, health, draws, reqs, hmsgs,
                   telConn, telSlew>>

-----------------------------------------------------------------------------
(* Telescope state.  The telescope publishes on                         *)
(* bigskies/telescope/0/state/<type>; both panels subscribe               *)
(* bigskies/telescope/0/state/#, and the message reaches ControlPanel,     *)
(* then TelescopePreview (registration order).  A message without "value" *)
(* reads False.                                                            *)

(* The topic of state type kind, as topic.split('/'). *)
StateTopic(kind) == <<"bigskies", "telescope", "0", "state", kind>>

(* parts = topic.split('/'); state_type = parts[3] when len(parts) >= 4   *)
(* (parts[3] is the fourth segment).                                       *)
StateType(parts) == IF Len(parts) >= 4 THEN parts[4] ELSE NoId

(* ControlPanel._on_telescope_state: on "connected" the connect button's  *)
(* label, on "slewing" slew_label SLEWING / Idle; other types are labels  *)
(* left out.                                                               *)
CtlTelescopeState(parts, v) ==
    /\ ctlConn' = IF StateType(parts) = "connected" THEN v ELSE ctlConn
    /\ slew' = IF StateType(parts) = "slewing"
               THEN IF v THEN "slewing" ELSE "idle"
               ELSE slew

(* TelescopePreview._on_telescope_state *)
PrvTelescopeState(parts, v) ==
    /\ prvConn' = IF StateType(parts) = "connected" THEN v ELSE prvConn
    /\ prvSlew' = IF StateType(parts) = "slewing" THEN v ELSE prvSlew

(* The telescope publishes value v for kind; both handlers run on it. *)
OnTelescopeState(kind, v) ==
    /\ telConn' = IF kind = "connected" THEN v ELSE telConn
    /\ telSlew' = IF kind = "slewing" THEN v ELSE telSlew
    /\ CtlTelescopeState(StateTopic(kind), v)
    /\ PrvTelescopeState(StateTopic(kind), v)
    /\ UNCHANGED <<mItems, mActive, tItems, tActive, sel, loadOn, shown, lists,
                   loads, asked, health, draws, reqs, resps, hmsgs>>

-----------------------------------------------------------------------------
(* HealthPanel *)

(* _on_health_message for coordinator segment c with status st: a known   *)
(* coordinator's row takes the status and its indicator gets one more     *)
(* "draw" handler bound to st; an unknown one is ignored.                  *)
OnHealthMessage(c, st) ==
    /\ hmsgs < MaxHealth
    /\ hmsgs' = hmsgs + 1
    /\ IF c \in Coordinators
       THEN /\ health' = [health EXCEPT ![c] = st]
            /\ draws' = [draws EXCEPT ![c] = Append(@, st)]
       ELSE UNCHANGED <<health, draws>>
    /\ UNCHANGED <<mItems, mActive, tItems, tActive, sel, loadOn, slew, shown, ctlConn,
                   prvConn, prvSlew, lists, loads, asked, reqs, resps,
                   telConn, telSlew>>

-----------------------------------------------------------------------------
PanelsNext ==
    \/ \E i \in 1..Len(mItems) : PickModel(i)
    \/ \E i \in 1..Len(tItems) : PickMount(i)
    \/ OnLoadConfigClicked
    \/ RequestConfigurations
    \/ ConfigListResponse
    \/ HandleConfigLoaded
    \/ \E kind \in {"connected", "slewing"}, v \in BOOLEAN : OnTelescopeState(kind, v)
    \/ \E c \in Coordinators \cup OtherCoords, st \in Statuses :
         OnHealthMessage(c, st)

PanelsSpec == PanelsInit /\ [][PanelsNext]_panelVars

-----------------------------------------------------------------------------
(* Properties *)

(* Load Configuration is clickable only while both combos show a real     *)
(* item and the selection it would send is exactly what they show: the     *)
(* "changed" emissions inside remove_all / set_active of a config list,    *)
(* a list that breaks off with KeyError, and the user's picks all keep     *)
(* _on_load_config_clicked from sending a model or mount not on screen.    *)
LoadEnabledMatchesSelection ==
    loadOn => /\ sel.model # NoId /\ sel.mount # NoId
              /\ ActiveId(mItems, mActive) = sel.model
              /\ ActiveId(tItems, tActive) = sel.mount

(* "Config loaded: m/t" in the status frame names a configuration this    *)
(* panel asked to load (_on_load_config_clicked then                      *)
(* _handle_config_loaded).                                                 *)
LoadedLabelIsOwnLoad ==
    slew = "loaded" => shown \in asked

(* Both panels show the telescope state last published on its state      *)
(* topics: the "connected" and "slewing" branches of the two               *)
(* _on_telescope_state handlers set connected / slewing from the message  *)
(* (control_panel.py, telescope_preview.py).                               *)
TelescopeStateShown ==
    /\ ctlConn = telConn
    /\ prvConn = telConn
    /\ prvSlew = telSlew

=============================================================================
