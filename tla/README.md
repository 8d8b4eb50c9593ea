# TLA+ models of the BigSkies GTK client

This directory holds TLA+ models of the BigSkies desktop UI,
`src/ui/python-gtk/bigskies_gtk/`: its pub/sub client core, the application
that drives it, and the three panels' handlers. It also models the ASCOM
simulator's configuration generator,
`src/plugins/examples/ascom-alpaca-simulator/configs/generate_configs.py`.
It has TLC configurations that check the models on small instances, and
TLAPS proofs that hold for every instance.

## The system

The UI is a GTK application that talks to the BigSkies backend only through an
MQTT broker. Its one component with state and concurrency is
`BigSkiesMQTTClient` (`mqtt/client.py`):

| part (spec.md) | code | state |
|---|---|---|
| Pattern matcher | `_topic_matches` | none (pure) |
| Handler registry | `subscribe`, `message_handlers` | dict pattern -> handler list, insertion ordered |
| Connection lifecycle | `connect`, `disconnect`, `_on_connect`, `_on_disconnect` | `connected`, paho's socket and loop thread |
| Dispatcher | `_on_message` | none: schedules handlers with `GLib.idle_add` |

Two threads run it:

* **The GTK main thread** runs `BigSkiesApp` (`app.py`). `_show_login`
  calls `connect()`, which runs `client.connect()` and then `loop_start()`.
  If that returns True, `_build_main_window` builds the status label reading
  "Connected" and creates the three panels. Their constructors call
  `subscribe()` five times, on four distinct patterns, and ControlPanel
  publishes a config-list request. After that, the GLib main loop runs the
  callbacks queued with `GLib.idle_add` in FIFO order. `do_shutdown` calls
  `disconnect()`.
* **The paho network thread** (paho-mqtt 1.x, `loop_start`) runs
  `_on_connect`, `_on_disconnect` and `_on_message`, and reconnects after a
  drop.

The dangerous detail is that both network-thread callbacks iterate
`message_handlers` while the main thread may insert into it:

* **`_on_connect`** iterates the dict to resubscribe. paho 1.x re-raises an
  exception from a callback, so a `RuntimeError` there ends the network
  thread.
* **`_on_message`** iterates it to dispatch. The `RuntimeError` is caught and
  logged at line 142, and the rest of the message is dropped.

The broker runs clean sessions, so every subscription is lost on a drop and
must be restored by `_on_connect`.

## Modules

| module | models | source |
|---|---|---|
| `TopicMatch` | `_topic_matches` as `TopicMatches(topic, pattern)` over segment sequences; `WellFormed` | client.py 157-178 |
| `MatcherMC` | checks `TopicMatches` against a recursive MQTT reference matcher `RefMatch` on all small inputs | (reference from MQTT semantics, spec 4.1) |
| `MQTTClient` | the client, both threads, the idle queue, the broker and the app's status label | client.py 26-143, app.py 68-94, 210-220, 248-253 |
| `MQTTClientMC` | model values and small pattern/topic sets for TLC | |
| `HandlerRegistry` | abstract spec of the registry (spec 4.2): `Register(p, h)` is one atomic step | spec.md 4.2 |
| `AppStartup` | `MQTTClient` driven by the application: login and connect, the panels' five `subscribe` calls in `_build_main_window`'s order, the main loop only after the window is built, shutdown | app.py 43-128, 248-253; the three panel constructors |
| `AppStartupMC` | the panels' real patterns, three real topics, five handler model values | |
| `MQTTClientProofs` | TLAPS proofs of `TypeOK`, `SubscribedWhenConnected` and the registry refinement | |
| `LabelProofs` | TLAPS proof of `LabelSettled` | |
| `Panels` | the panels' handlers on the main thread: ControlPanel's combos, Load and Refresh, config responses, and the telescope state of ControlPanel and TelescopePreview; HealthPanel's rows and draw handlers | control_panel.py 16-113, 211-222, 257-400; health_panel.py 26-156; telescope_preview.py 16-53 |
| `PanelsMC` | two models, two mount types, one known and one unknown coordinator | |
| `PanelsProofs` | TLAPS proofs of the two `Panels` invariants | |
| `ConfigGen` | `generate_configs.py`: the tables, the templates as records, and `main()`'s write loop | generate_configs.py 11-761 |
| `ConfigGenMC` | start file systems: directories made or not, earlier files or none | |
| `AppStartupProofs` | TLAPS proofs of `AppTypeOK`, `DispatchCompleteAfterStartup`, and that the application implements the client, so the client's invariants and registry refinement hold in it | |
| `ConfigGenProofs` | TLAPS proof of `SuccessMeansComplete` | |
| `TopicMatchProofs` | TLAPS proofs of the matcher laws of spec section 8 and of MQTT 3.1.1 section 4.7 matching, for all inputs | |

### MQTTClient: state and actions

A topic or pattern is a sequence of segments; splitting on `/` is a bijection
because no segment contains the delimiter. A payload is one of five kinds:

* an object;
* empty, which decodes to `{}`;
* a JSON scalar;
* invalid JSON;
* invalid UTF-8.

`Decode` maps them as lines 128-129 and 140-143 do.

| variable | code |
|---|---|
| `order`, `mh` | `message_handlers`: insertion order of keys, and each key's list |
| `connected` | `self.connected` |
| `idle` | the GLib idle queue (message handler calls, connect/disconnect callbacks) |
| `uiConnected` | `mqtt_status_label`: Connected / Disconnected |
| `pending` | a `subscribe()` of a new pattern between its line 78 and its line 81 |
| `loop`, `link`, `brokerSubs` | paho's loop thread; the socket (down/connecting/up); the filters of the broker session |
| `netPc`, `itSize`, `itPos`, `cur` | where the network thread is: idle, inside `_on_connect`'s loop, inside `_on_message`'s loop, or dead; the dict size when the loop began; the next position; the message being dispatched |
| `want`, `issued`, `got` | history variables for the dispatch properties |
| `subs`, `msgs`, `conns` | counters bounding the run |

Main-thread actions:

* `Connect`: `connect()` followed by `LabelBuilt`.
* `Subscribe(p, h)`: lines 76-79.
* `SubscribeAppend`: line 81.
* `Disconnect`: `loop_stop` joins the network thread, then `disconnect` and
  `_on_disconnect` run on the caller's thread.
* `RunIdle`: one idle callback.

`MainFree` makes the main thread serial.

Network-thread actions:

* `NetConnAckOk` and `NetConnectStep`: `_on_connect` with rc 0, one `next()`
  per step.
* `NetConnRefused`: rc != 0, or a drop before CONNACK.
* `NetLost`: a drop.
* `NetReconnect`: paho's reconnect.
* `NetMessage(t, k)` and `NetMessageStep`: `_on_message`, one `next()` per
  step.

`NetConnRefused`, `NetLost` and `Disconnect` all run `OnDisconnect`, which is
the body of `_on_disconnect`.

Each `next()` of a dict iteration is a separate step, and the main thread may
run between any two. This over-approximates CPython's thread switches: the GIL
is released during `client.subscribe`'s socket write and at the interpreter's
switch interval. When the dict has grown since the iteration began, the next
`next()` raises. This matches CPython's check, which compares the size when
the iterator was made with the size now.

### AppStartup

`mainPc` is the main thread's place in the startup script:

* 0: the login dialog.
* 1-5: the next constructor `subscribe()` of `StartupCalls`:
  * HealthPanel: `coordinator/+/health/status`;
  * ControlPanel: `telescope/0/state/#`, the plugin's `config/response` and
    `config/event`;
  * TelescopePreview: `telescope/0/state/#` again.
* `WindowBuilt`: `_build_main_window` has returned.

The actions are:

* `AppConnect`: `_show_login`, which calls `Connect`.
* `AppSubscribe`: the next `Subscribe` of the script.
* `AppRunIdle`: `RunIdle`, only once the window is built, because the GLib
  loop does not run during `_build_main_window`.
* `AppShutdown`: `Disconnect`, only once the window is built.
* All network-thread actions, unchanged.

No other `subscribe()` call exists in the application. The history variable
`late` records whether the message being dispatched arrived after startup,
with no `subscribe()` half done. ControlPanel's config-list `publish()` is left
out because it changes no client state.

### Panels

Every panel handler runs on the main thread, one at a time. The MQTT handlers
come through the idle queue, and the user's clicks come from GTK. `Panels`
therefore makes each handler one action. The client that delivers the
messages is abstracted away: `AppStartup` already covers which handlers get
which message. The plugin and other GUIs are the environment.

* **ControlPanel's combos.** `mItems`/`mActive` and `tItems`/`tActive` hold
  the item ids and the active position of each combo. The placeholder's id is
  `NoId` (None). A `Gtk.ComboBox` emits "changed" synchronously, so the model
  threads the state of `_on_selection_changed` (`SelectionChanged`) through
  every emission inside a handler:
  * `remove_all` on an active combo;
  * `set_active(0)` from no active item;
  * a user pick (`PickModel`, `PickMount`).

  `HandleConfigList` is the whole refill: four emissions in the code's order.
  `HandleConfigListBroken` is the refill ending with a `KeyError` at entry
  `k`: `model_combo` is partly refilled with no active item, and
  `mount_combo` is untouched.
* **Requests and responses.** `lists` and `loads` are this panel's
  unanswered requests. `asked` records every load it requested.
  `ConfigListResponse` and `HandleConfigLoaded` take an answer either to one
  of ours or to another GUI's. The code cannot tell them apart, because every
  GUI subscribes the same response topic and `request_id` is never read.
  A failure response, or a payload that is not a dict, raises or returns
  before any change, so it is a stutter.
* **Telescope state.** `OnTelescopeState(kind, v)` is the telescope
  publishing `v` on `bigskies/telescope/0/state/<kind>`, for the state types
  both panels keep (connected and slewing). The history variables `telConn`
  and `telSlew` record the last published values. `CtlTelescopeState` and
  `PrvTelescopeState` then run on the split topic, in registration order.
  Like the code, they take the state type from `parts[3]` (`StateType`),
  the fourth segment. That segment is always `state`, so neither handler
  changes anything. The run `telescope_state_shown` shows the effect.
* **HealthPanel.** `health[c]` is the row's status. `draws[c]` is the
  sequence of statuses bound to the indicator's draw handlers, in connection
  order. GTK runs them in that order, so the last one paints on top.

### ConfigGen

`generate_configs.py` is a sequential script. `FileAt(i)` is the i-th file of
`main()`'s three nested loops: model, then mount type, then the five with-open
blocks. `WriteFile` is one `open(path, 'w')`:

* in an existing directory it writes `Render(path)`, the record of the values
  the template fills in;
* otherwise it raises `FileNotFoundError` and the script ends (`crashed`).

`Finish` prints the success message. The XML around the filled values is
identical in every file and is left out. Numbers are kept as the text `str()`
writes for them. The start states (`Layouts`) are the file systems the script
may meet:

* the directories made beforehand, with or without an earlier run's files;
* one device directory missing, which ends the run partway.

`SEESTAR_SPECS` is written as a function over the three model names, with a
CASE per model, rather than with TLC's `:>` and `@@`. The values are the same,
and the provers can expand this form.

### Fairness

`Spec` has weak fairness on four actions:

* `SubscribeAppend`, because a started `subscribe()` finishes.
* `RunIdle`, because the GLib loop runs queued callbacks.
* `NetConnectStep` and `NetMessageStep`, because a started callback runs to
  its end.

The broker, the user and paho's reconnect get no fairness. `PanelsSpec` has
none, and neither has `ConfigGenSpec`: all of their properties are safety
properties. `AppSpec` adds
weak fairness on `AppSubscribe`: the constructors run to the end without
waiting for anything. `LabelFollowsDrop` is checked under this fairness.

## Runs

| run | cfg | result | what it shows |
|---|---|---|---|
| matcher | `Matcher.cfg` | pass, 6 045 states | `TopicMatches` equals MQTT matching for every well-formed pattern and topic of 1-3 segments over {a, b, empty} with + and # |
| client_core | `MQTTClient.cfg` | pass, about 420 000 states | `TypeOK`; `SubscribedWhenConnected`: after every (re)connect every key is subscribed in the new session; `LabelSettled`: once the callbacks have run and no CONNECT is outstanding, the label equals `connected`; `RegistryRefined`: under the mapping `keys <- order, handlers <- RegView`, the client implements `HandlerRegistry!RegSpec`. `RegView` is `message_handlers`, with the handler of a `subscribe()` that has sent its SUBSCRIBE but not yet appended counted as registered. A subscribe() of a new pattern maps to `Register`, the append at line 81 to a stutter, and every network-thread step to a stutter |
| app_startup | `AppStartup.cfg` | pass, 63 066 states | with the real startup script: `AppTypeOK`; the client's `SubscribedWhenConnected`, `LabelSettled` and `RegistryRefined`, now with the application driving the client; `LabelFollowsDrop`, the liveness property that while the loop runs and the socket stays down, the label eventually reads Disconnected; `DispatchCompleteAfterStartup`, that once the window is built every message is scheduled for every matching handler, so the dict race is confined to startup |
| dispatch_complete | `AppStartup_DispatchComplete.cfg` | violation | a health message arriving while ControlPanel subscribes is never scheduled for HealthPanel |
| first_delivery | `MQTTClient_FirstDeliveryReachesSubscriber.cfg` | violation | a (retained) message caused by `subscribe`'s SUBSCRIBE reaches no handler |
| thread_survives | `AppStartup_DeliveryThreadSurvives.cfg` | violation | a CONNACK whose `_on_connect` loop is still iterating the keys when a panel's `subscribe()` inserts one kills the network thread; in the shortest trace (4 steps) the CONNACK comes before the first subscribe |
| registry_wellformed | `MQTTClient_RegistryWellFormed.cfg` | violation | `a/#/b`-style patterns are registered, not rejected |
| label_matches_state | `MQTTClient_LabelMatchesState.cfg` | violation | the label reads Connected before any CONNACK |
| panels | `Panels.cfg` | pass, 490 468 states | `PanelsTypeOK`; `LoadEnabledMatchesSelection`: Load is sensitive only when both combos show real items equal to `selected_model`/`selected_mount_type`, through refills, broken lists and picks |
| loaded_label_own | `Panels_LoadedLabelIsOwnLoad.cfg` | violation | another GUI's load answer shows "Config loaded" here (2 steps) |
| telescope_state_shown | `Panels_TelescopeStateShown.cfg` | violation | `TelescopeStateShown`: one `state/connected` message from the telescope leaves both panels showing the old state, because both handlers read `parts[3]`, which is always `state` (1 step) |
| config_gen | `ConfigGen.cfg` | pass, 108 states | `SuccessMeansComplete`: after the success message, every model and mount has five fresh files with five distinct UniqueIDs |

PROJECT.json lists these as findings:

* three code bugs:
  * the two dict races, both shown on the application's real startup order;
  * the telescope-state handlers that read the wrong topic segment;
* three divergences from spec.md;
* a gap in spec.md: config responses on the shared topic are not
  matched to their requests.

Two one-step observations made while modelling are not runs:

* **Draw handlers pile up.** `_on_health_message` connects a new draw
  handler for every message (health_panel.py:152) and never disconnects
  one. The colour painted is right only because GTK runs the handlers in
  connection order. No property covers this.
* **A second handler on a pattern gets no retained state.**
  TelescopePreview subscribes `state/#` after ControlPanel, so no SUBSCRIBE
  is sent for it, and a state message dispatched before its append reaches
  ControlPanel only. Today that has no visible effect, because both handlers
  ignore every state message.
* **The generator never creates its directories.** `generate_configs.py`
  has no `os.makedirs`. On a fresh `/tmp` the first `open()` raises
  `FileNotFoundError`, and nothing is generated.

### Bounds and why they suffice

The client runs use two handlers (with symmetry), two patterns and two topics.
The patterns are `a/+` and `a/#`, and the topics are `a/b` and `a`. Both
patterns match `a/b`; only `a/#` matches `a`.

* **MaxSubs = 3.** Two new keys plus one append to a known key. A new key can
  therefore be inserted during either iteration, and a known one appended
  without any insert.
* **MaxMsgs = 2.** A message can arrive before and after a reconnect.
* **MaxConns = 2.** One connect plus one reconnect: a session is lost and a
  new one resubscribed.

The app runs use the real patterns and three topics: a coordinator's health,
`telescope/0/state/connected` and a plugin config event. The config event
matches the last key of the dict. MaxSubs is 5, exactly the script.

Each violation is found within 12 steps. The passing run reaches depth 27.

The panels run has:

* **Catalogues.** Two models (`s30`, `s50`) and two mount types. The lists
  the plugin may send are `<<s30, s50>>` and `<<s50>>` for models, and both
  mount types. A refill can therefore shrink the combo under an active
  position, and a broken list can stop after zero or one entry.
* **MaxReqs = 3.** The startup list request plus two clicks: a load and a
  refresh, or two loads.
* **MaxResps = 2.** A foreign list can arrive between our list and our load.
* **Health.** One known coordinator, one unknown, two statuses, and
  MaxHealth = 2: a row can change status twice.

The generator run uses the script's real tables: 3 models, 3 mounts and 5
devices, 45 files.

The matcher run covers every case of `_topic_matches`:

* exact equality;
* `+` at every position;
* `#` at every position;
* topics shorter, equal and longer than the pattern;
* the empty segment.

## Proofs (TLAPS)

`MQTTClientProofs` proves, for every value of the constants satisfying
`ClientAssumption`:

* **`TypeCorrect`: `Spec => []TypeOK`.** `TypeOK` is inductive as it stands.
  `NextTypeOK` has one step per action, split on each action's IF branches.
  Boolean conjuncts are proved with Zenon and the rest with SMT.
* **`ResubscribeComplete`: `Spec => []SubscribedWhenConnected`.** The property
  is not inductive: a step of `_on_connect`'s loop, or the end of
  `_on_message`, can reach the guarded state. The inductive invariant `IInv`
  adds:
  * `ResubscribedPrefix`: inside `_on_connect` the link is up, and every key
    the loop has already passed is subscribed.
  * `DispatchingSubscribed`: inside `_on_message` the link is up and every key
    is subscribed, because a message is only taken when the thread is idle on
    an up link.
  * `NotStarted`: before `connect` the network thread is idle.

  TLC checked `IInv` on the client model before the proof was written. The
  key steps are:
  * `Subscribe` of a new key: on an up link its SUBSCRIBE reaches the broker,
    and the key is appended after the prefix.
  * The last `next()` of `_on_connect`: when `itPos > itSize = Len(order)`,
    the prefix is all of `order`.

* **`RegistryRefinement`: `Spec => RegistryRefined`.** Its inductive
  invariant `RInv` is `TypeOK` plus three facts:
  * at most one `subscribe()` is half done, because the main thread is serial;
  * that subscribe's pattern is already a key;
  * a pattern that is not a key has an empty list.

  `InitRefines` shows that the initial states map to `RegInit`. `NextRefines`
  shows that each step maps to `Register` or a stutter:
  * `Subscribe` maps to `Register`, since `MainFree` means nothing is pending;
  * `SubscribeAppend` maps to a stutter, since the pending handler moves from
    `pending` into `mh`;
  * every other action maps to a stutter, because it leaves `order`, `mh` and
    `pending` alone (`UntouchingFrame`).

`LabelProofs` proves:

* **`LabelSettledHolds`: `Spec => []LabelSettled`.** The property only
  speaks of an empty queue, so it cannot be inductive. `SettlesTo(q, u, b)`
  says that draining queue `q` from label `u` leaves the label reading `b`.
  That is the kind of the last lifecycle entry of `q`, or `u` if `q` holds
  none. The inductive invariant `LInv` adds `LabelTrack`:
  * a closed socket means not connected, and the queue settles to
    Disconnected;
  * an up link, with the thread idle or dispatching, means connected, and the
    queue settles to Connected;
  * `connecting` means not connected;
  * `_on_connect` and `_on_message` run only on an up link.

  Four lemmas move `SettlesTo` through the queue operations:
  * `SettleConn` and `SettleDisc`: appending a lifecycle entry;
  * `SettleMsgs`: appending handler calls;
  * `SettleTail`: running the oldest callback.

  TLC checked `LInv` on the client model first.

`PanelsProofs` proves `PanelsTypeCorrect` and `LoadEnabledHolds`, for every
value of the constants satisfying `PanelsAssumption`. The two invariants
together (`PInv`) are inductive.

* `LoadEnabledMatchesSelection` needs the types. Its key fact is that a
  config list always leaves Load disabled (lemma `ConfigListPInv`):
  * Every emission in the whole refill sees `NoId` on at least one side.
  * In the broken refill, the one emission (`remove_all` of an active model
    combo) does the same.
  * If the model combo had no active item, the invariant itself says Load was
    already off.
* Lemmas `SelectionChangedFacts` and `SelectionChangedNone` state what
  `_on_selection_changed` returns, and every case cites them.
* `PanelsTypeOK` is split into its Booleans (`BoolsOK`, proved with Zenon) and
  the rest (`RestOK`, proved with SMT).

TLC checked each invariant on the panels model first.

`AppStartupProofs` proves, for every value of the constants satisfying
`ClientAssumption` and `AppAssumption`:

* **`AppTypeCorrect`: `AppSpec => []AppTypeOK`.** `AppTypeOK` is inductive
  as it stands.
* **`DispatchCompleteProved`: `AppSpec => DispatchCompleteAfterStartup`.**
  This is an action property. It is proved from the inductive invariant
  `DInv`, which is `AppTypeOK` plus `LateDispatch`. `LateDispatch` says that
  while a late message is being dispatched:
  * the startup script is over (`Frozen`: the window is built and nothing is
    pending);
  * the loop walks all of `order`, with a snapshot size equal to its length;
  * `want` is the set of handlers registered for the topic;
  * `got` is `Scheduled(topic, itPos - 1)`, the handlers of the patterns the
    loop has passed.

  `LateDispatch` is needed because the property speaks only of the loop's
  last step. That step is correct only if every earlier step scheduled the
  right handlers and the registry has not changed since the message arrived.
  Once `Frozen` holds, no main-thread action changes `order`, `mh` or
  `pending` (lemma `MainStepDInv`). The lemmas `ScheduledStep` and
  `ScheduledAll` carry `Scheduled` through one loop step and to the end of
  `order`. TLC checked `DInv` on the startup model before the proof was
  written.

  `AppAssumption` says that the five constructor calls use patterns and
  handlers from the constant sets. `AppStartupMC` satisfies it, and every run
  of `AppStartup` evaluates it.

* **`AppImplementsClient`: `AppSpec => Init /\ [][Next]_vars`.** The
  application touches the client only through `connect()`, `subscribe()`,
  the idle queue and `disconnect()`. So its initial state is the client's
  `Init`, and each of its steps is a client step or a stutter on the
  client's variables (lemmas `AppNextIsNext` and `AppStutter`).
* **`AppResubscribeComplete`, `AppLabelSettled` and
  `AppRegistryRefinement`.** From `AppImplementsClient`, the client's
  inductive invariants `IInv`, `LInv` and `RInv` hold in the application.
  Their step lemmas are stated for `[Next]_vars` and not for `Spec`, so the
  three client results carry over unchanged: `SubscribedWhenConnected`,
  `LabelSettled` and the refinement of the registry. The run `app_startup`
  checks the same three properties on the startup model.

`ConfigGenProofs` proves, for every family of start file systems satisfying
`ConfigGenAssumption` (every path absent or holding an older file):

* **`SuccessComplete`: `ConfigGenSpec => []SuccessMeansComplete`.** The
  inductive invariant `GInv` is the types, `WrittenBefore` (every file before
  `pc` is `new`) and `DoneAtEnd` (success only at `pc = NFiles + 1`). It is
  needed because the property speaks only of the final state, which must
  inherit what each loop step wrote. Lemma `FileAtCovers` says that every
  `<<model, mount, device>>` triple is `FileAt` of an index in `1..NFiles`.
  Lemma `DistinctIDs` computes that the five `UniqueID`s of each model are
  distinct, from the literal table. TLC checked `GInv` first.

`TopicMatchProofs` proves laws of `TopicMatches` for every topic and pattern
of strings, of any length. These are the laws that the run `matcher`
checks only on inputs of up to three segments:

* `LiteralMatchIsEquality`: a pattern without wildcards matches exactly the
  equal topic (spec section 8).
* `HashMatchesAll`: `#` matches every topic (spec section 8).
* `PlusOneLevel`: a pattern without `#` matches only topics of its own
  length, so `+` binds exactly one level.
* `HashPrefixMatch`: a well-formed pattern ending in `#` matches exactly the
  topics that have at least its levels before the `#` and agree with them.

* `MatcherMeetsMQTT`: for every topic name (no wildcard levels) and every
  well-formed filter, `TopicMatches` is equivalent to `MQTTFilterMatch`.
  `MQTTFilterMatch` states MQTT 3.1.1 section 4.7 level by level, without
  the code's fast path, `index` or list cut. It has two cases: a filter
  with one level per topic level, each `+` or equal to it, or a filter
  ending in `#` whose earlier levels are matched that way, with any number
  of topic levels after them, none included.

Lemma `FirstHashLast` shows that `pattern_parts.index('#')` is the last
position of a well-formed pattern.

Only model-checked, and beyond TLAPS here:

* **`MatcherAgrees`.** It compares the matcher with the RECURSIVE reference
  `RefMatch`. That needs induction over sequences, and a module that reaches
  a RECURSIVE operator loses the SMT backend. `MatcherMeetsMQTT` proves
  the same agreement for all lengths against the non-recursive statement
  `MQTTFilterMatch`. That `RefMatch` and `MQTTFilterMatch` agree is
  checked by TLC only, through `MatcherAgrees`.
* **All liveness**, including `LabelFollowsDrop`. The provers do not handle
  fairness or ENABLED.
* **The violation runs.** They are counterexamples found by TLC, not
  theorems.

## Not modelled

* **Drawing, layout and logging.** They change no state a property is about.
* **`publish()`.** It changes no client state. paho's outgoing queue and QoS
  1 retransmission are paho internals, outside this repository.
* **The login dialog and `main.py`.** They are input capture and process
  start-up.
* **The constant XML of `generate_configs.py`, and its print statements.**
  They are the same in every file and every run.
* **ControlPanel's coordinate labels, `_on_connect_clicked` and
  `_on_config_event`.** The labels are text set from the payload. The other
  two are a publish and a log line: no panel state.
* **paho and broker internals beyond their observable effects.** Those effects
  are: connect, CONNACK, refusal, drop, reconnect, delivery on a subscribed
  filter, and clean-session loss of subscriptions.

## Plan for the following work

1. **`PubSub`, an abstract dispatch spec.** It extends `HandlerRegistry`. A
   message is delivered atomically to every handler registered on a matching
   pattern. Check `MQTTClient` against it with a refinement mapping: the idle
   queue maps to the abstract delivery queue, and the dict race shows as the
   refinement failing. Also check a dispatcher that takes a snapshot of the
   dict.
2. **Compose `Panels` with `AppStartup`.** Drive the panel handlers from the
   client's idle queue. Once the handlers read the right segment, that
   gives a statement about what the two panels display when the preview's
   handler is appended after the retained state was delivered.
3. **More proofs.**
   * The composed panels-and-client model of item 2, once it exists.
   * A refinement proof for `PubSub`, once it exists.
