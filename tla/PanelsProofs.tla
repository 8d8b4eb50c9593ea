---------------------------- MODULE PanelsProofs ----------------------------
(***************************************************************************)
(* Proofs about the panels for every value of the constants: the type      *)
(* invariant and the Load button's agreement with the combos.              *)
(***************************************************************************)
EXTENDS Panels, TLAPS

(* The two invariants together are inductive: the Load button's agreement *)
(* needs the types.                                                        *)
PInv == PanelsTypeOK /\ LoadEnabledMatchesSelection

(* _on_selection_changed keeps its state a selection record, and enables   *)
(* Load only with the two ids it was given, both real.                     *)
LEMMA SelectionChangedFacts ==
    ASSUME NEW s \in [model : Models \cup {NoId}, mount : Mounts \cup {NoId},
                      on : BOOLEAN],
           NEW mid \in Models \cup {NoId}, NEW tid \in Mounts \cup {NoId}
    PROVE  LET r == SelectionChanged(s, mid, tid)
           IN  /\ r \in [model : Models \cup {NoId}, mount : Mounts \cup {NoId},
                         on : BOOLEAN]
               /\ r.on => r.model = mid /\ r.mount = tid
                          /\ mid # NoId /\ tid # NoId
BY DEF SelectionChanged

(* With both ids NoId, _on_selection_changed disables Load. *)
LEMMA SelectionChangedNone ==
    ASSUME NEW s \in [model : Models \cup {NoId}, mount : Mounts \cup {NoId},
                      on : BOOLEAN],
           NEW tid
    PROVE  SelectionChanged(s, NoId, tid).on = FALSE
BY DEF SelectionChanged

(* get_active_id() of a well-typed combo. *)
LEMMA ActiveIdType ==
    ASSUME NEW S, NEW items \in Seq(S \cup {NoId}), NEW a \in 0..Len(items)
    PROVE  ActiveId(items, a) \in S \cup {NoId}
BY DEF ActiveId

-----------------------------------------------------------------------------
LEMMA InitPInv == PanelsInit => PInv
<1> SUFFICES ASSUME PanelsInit PROVE PInv
  OBVIOUS
<1>1. PanelsTypeOK
  <2>1. /\ mItems \in Seq(Models \cup {NoId}) /\ mActive \in 0..Len(mItems)
        /\ tItems \in Seq(Mounts \cup {NoId}) /\ tActive \in 0..Len(tItems)
        /\ sel \in Selection
    BY DEF PanelsInit, ControlPanelInit, ConfigSectionInit, SlewSectionInit, PreviewInit, HealthInit, Selection
  <2>2. loadOn \in BOOLEAN /\ ctlConn \in BOOLEAN /\ prvConn \in BOOLEAN
        /\ prvSlew \in BOOLEAN /\ telConn \in BOOLEAN /\ telSlew \in BOOLEAN
    BY Zenon DEF PanelsInit, ControlPanelInit, ConfigSectionInit, SlewSectionInit, PreviewInit, HealthInit
  <2>3. /\ slew \in {"idle", "slewing", "loaded"}
        /\ shown \in (Models \X Mounts) \cup {<<NoId, NoId>>}
        /\ lists \in Nat /\ loads \subseteq Models \X Mounts
        /\ asked \subseteq Models \X Mounts
        /\ reqs \in Nat /\ resps \in Nat /\ hmsgs \in Nat
    BY DEF PanelsInit, ControlPanelInit, ConfigSectionInit, SlewSectionInit, PreviewInit, HealthInit
  <2>4. health \in [Coordinators -> HealthStatus]
        /\ draws \in [Coordinators -> Seq(HealthStatus)]
    BY DEF PanelsInit, ControlPanelInit, ConfigSectionInit, SlewSectionInit, PreviewInit, HealthInit, HealthStatus
  <2>5. QED
    BY <2>1, <2>2, <2>3, <2>4 DEF PanelsTypeOK
<1>2. LoadEnabledMatchesSelection
  BY DEF PanelsInit, ControlPanelInit, ConfigSectionInit, SlewSectionInit, PreviewInit, HealthInit, LoadEnabledMatchesSelection
<1>3. QED
  BY <1>1, <1>2 DEF PInv

(* A step that keeps the types and leaves the combos, the selection, the   *)
(* button alone keeps PInv.                                                 *)
LEMMA ConfigFrame ==
    ASSUME PInv, PanelsTypeOK',
           UNCHANGED <<mItems, mActive, tItems, tActive, sel, loadOn>>
    PROVE  PInv'
BY DEF PInv, LoadEnabledMatchesSelection

(* The Boolean variables keep their type when a step keeps them or sets    *)
(* them to Booleans.                                                        *)
BoolsOK == loadOn \in BOOLEAN /\ ctlConn \in BOOLEAN /\ prvConn \in BOOLEAN
           /\ prvSlew \in BOOLEAN /\ telConn \in BOOLEAN /\ telSlew \in BOOLEAN

LEMMA BoolsFrame ==
    ASSUME PanelsTypeOK,
           UNCHANGED <<loadOn, ctlConn, prvConn, prvSlew, telConn, telSlew>>
    PROVE  BoolsOK'
BY Zenon DEF PanelsTypeOK, BoolsOK

(* PanelsTypeOK without its Booleans. *)
RestOK ==
    /\ mItems \in Seq(Models \cup {NoId}) /\ mActive \in 0..Len(mItems)
    /\ tItems \in Seq(Mounts \cup {NoId}) /\ tActive \in 0..Len(tItems)
    /\ sel \in Selection
    /\ slew \in {"idle", "slewing", "loaded"}
    /\ shown \in (Models \X Mounts) \cup {<<NoId, NoId>>}
    /\ lists \in Nat /\ loads \subseteq Models \X Mounts
    /\ asked \subseteq Models \X Mounts
    /\ health \in [Coordinators -> HealthStatus]
    /\ draws \in [Coordinators -> Seq(HealthStatus)]
    /\ reqs \in Nat /\ resps \in Nat /\ hmsgs \in Nat

LEMMA TypeSplit == PanelsTypeOK <=> BoolsOK /\ RestOK
BY Zenon DEF PanelsTypeOK, BoolsOK, RestOK

(* The steps that leave the configuration section alone. *)
LEMMA OtherStepsPInv ==
    ASSUME PInv,
           \/ OnLoadConfigClicked \/ RequestConfigurations \/ HandleConfigLoaded
           \/ \E kind \in {"connected", "slewing"}, v \in BOOLEAN :
                OnTelescopeState(kind, v)
           \/ UNCHANGED panelVars
    PROVE  PInv'
<1>0. PanelsTypeOK /\ RestOK
  BY TypeSplit DEF PInv
<1>1. CASE OnLoadConfigClicked
  <2>1. BoolsOK'
    BY <1>0, <1>1, BoolsFrame DEF OnLoadConfigClicked
  <2>2. RestOK'
    BY <1>0, <1>1 DEF OnLoadConfigClicked, RestOK, Selection
  <2>3. PanelsTypeOK'
    BY <2>1, <2>2, Zenon DEF PanelsTypeOK, BoolsOK, RestOK
  <2>4. QED
    BY <1>1, <2>3, ConfigFrame DEF OnLoadConfigClicked
<1>2. CASE RequestConfigurations
  <2>1. BoolsOK'
    BY <1>0, <1>2, BoolsFrame DEF RequestConfigurations
  <2>2. RestOK'
    BY <1>0, <1>2 DEF RequestConfigurations, RestOK
  <2>3. PanelsTypeOK'
    BY <2>1, <2>2, Zenon DEF PanelsTypeOK, BoolsOK, RestOK
  <2>4. QED
    BY <1>2, <2>3, ConfigFrame DEF RequestConfigurations
<1>3. CASE HandleConfigLoaded
  <2>1. BoolsOK'
    BY <1>0, <1>3, BoolsFrame DEF HandleConfigLoaded
  <2>2. RestOK'
    BY <1>0, <1>3 DEF HandleConfigLoaded, Respond, RestOK
  <2>3. PanelsTypeOK'
    BY <2>1, <2>2, Zenon DEF PanelsTypeOK, BoolsOK, RestOK
  <2>4. QED
    BY <1>3, <2>3, ConfigFrame DEF HandleConfigLoaded
<1>4. ASSUME NEW kind \in {"connected", "slewing"}, NEW v \in BOOLEAN,
             OnTelescopeState(kind, v)
      PROVE  PInv'
  <2>1. BoolsOK'
    BY <1>0, <1>4, Zenon DEF OnTelescopeState, CtlTelescopeState, PrvTelescopeState, BoolsOK, PanelsTypeOK
  <2>2. RestOK'
    BY <1>0, <1>4 DEF OnTelescopeState, CtlTelescopeState, PrvTelescopeState, RestOK
  <2>3. PanelsTypeOK'
    BY <2>1, <2>2, Zenon DEF PanelsTypeOK, BoolsOK, RestOK
  <2>4. QED
    BY <1>4, <2>3, ConfigFrame DEF OnTelescopeState, CtlTelescopeState, PrvTelescopeState
<1>5. CASE UNCHANGED panelVars
  <2>1. BoolsOK'
    BY <1>0, <1>5, BoolsFrame DEF panelVars
  <2>2. RestOK'
    BY <1>0, <1>5 DEF panelVars, RestOK
  <2>3. PanelsTypeOK'
    BY <2>1, <2>2, Zenon DEF PanelsTypeOK, BoolsOK, RestOK
  <2>4. QED
    BY <1>5, <2>3, ConfigFrame DEF panelVars
<1>6. QED
  BY <1>1, <1>2, <1>3, <1>4, <1>5

SelRec == [model : Models \cup {NoId}, mount : Mounts \cup {NoId}, on : BOOLEAN]

(* SelState reads a well-typed selection and button. *)
LEMMA SelStateType == PanelsTypeOK => SelState \in SelRec
BY DEF PanelsTypeOK, SelState, SelRec, Selection

(* SetSel of a selection record keeps the selection and button typed. *)
LEMMA SetSelType ==
    ASSUME NEW r \in SelRec, SetSel(r)
    PROVE  sel' \in Selection /\ loadOn' \in BOOLEAN /\ loadOn' = r.on
           /\ sel'.model = r.model /\ sel'.mount = r.mount
BY DEF SetSel, SelRec, Selection

(* A user pick on model_combo. *)
LEMMA PickModelPInv ==
    ASSUME PInv, NEW i \in 1..Len(mItems), PickModel(i)
    PROVE  PInv'
<1> DEFINE r == SelectionChanged(SelState, mItems[i], ActiveId(tItems, tActive))
<1>0. PanelsTypeOK
  BY DEF PInv
<1>1. SelState \in SelRec
  BY <1>0, SelStateType
<1>2. mItems[i] \in Models \cup {NoId} /\ ActiveId(tItems, tActive) \in Mounts \cup {NoId}
  BY <1>0, ActiveIdType DEF PanelsTypeOK
<1>3. r \in SelRec /\ (r.on => r.model = mItems[i] /\ r.mount = ActiveId(tItems, tActive)
                                /\ mItems[i] # NoId /\ ActiveId(tItems, tActive) # NoId)
  BY <1>1, <1>2, SelectionChangedFacts DEF SelRec
<1>4. SetSel(r) /\ mActive' = i
      /\ UNCHANGED <<mItems, tItems, tActive, slew, shown, ctlConn, prvConn, prvSlew,
                     lists, loads, asked, health, draws, reqs, resps, hmsgs,
                     telConn, telSlew>>
  BY DEF PickModel
<1>5. sel' \in Selection /\ loadOn' \in BOOLEAN /\ loadOn' = r.on
      /\ sel'.model = r.model /\ sel'.mount = r.mount
  BY <1>3, <1>4, SetSelType
<1>6. BoolsOK'
  BY <1>0, <1>4, <1>5, Zenon DEF PanelsTypeOK, BoolsOK
<1>7. RestOK'
  BY <1>0, <1>4, <1>5 DEF PanelsTypeOK, RestOK
<1>8. PanelsTypeOK'
  BY <1>6, <1>7, Zenon DEF PanelsTypeOK, BoolsOK, RestOK
<1>9. LoadEnabledMatchesSelection'
  <2>1. SUFFICES ASSUME loadOn' PROVE LoadEnabledMatchesSelection'
    BY Zenon DEF LoadEnabledMatchesSelection
  <2>2. r.on
    BY <2>1, <1>5, Zenon
  <2>3. ActiveId(mItems, mActive)' = mItems[i]
    BY <1>4 DEF ActiveId
  <2>4. QED
    BY <1>3, <1>4, <1>5, <2>1, <2>2, <2>3 DEF LoadEnabledMatchesSelection
<1>10. QED
  BY <1>8, <1>9 DEF PInv
(* A user pick on mount_combo. *)
LEMMA PickMountPInv ==
    ASSUME PInv, NEW i \in 1..Len(tItems), PickMount(i)
    PROVE  PInv'
<1> DEFINE r == SelectionChanged(SelState, ActiveId(mItems, mActive), tItems[i])
<1>0. PanelsTypeOK
  BY DEF PInv
<1>1. SelState \in SelRec
  BY <1>0, SelStateType
<1>2. ActiveId(mItems, mActive) \in Models \cup {NoId} /\ tItems[i] \in Mounts \cup {NoId}
  BY <1>0, ActiveIdType DEF PanelsTypeOK
<1>3. r \in SelRec /\ (r.on => r.model = ActiveId(mItems, mActive) /\ r.mount = tItems[i]
                                /\ ActiveId(mItems, mActive) # NoId /\ tItems[i] # NoId)
  BY <1>1, <1>2, SelectionChangedFacts DEF SelRec
<1>4. SetSel(r) /\ tActive' = i
      /\ UNCHANGED <<mItems, mActive, tItems, slew, shown, ctlConn, prvConn, prvSlew,
                     lists, loads, asked, health, draws, reqs, resps, hmsgs,
                     telConn, telSlew>>
  BY DEF PickMount
<1>5. sel' \in Selection /\ loadOn' \in BOOLEAN /\ loadOn' = r.on
      /\ sel'.model = r.model /\ sel'.mount = r.mount
  BY <1>3, <1>4, SetSelType
<1>6. BoolsOK'
  BY <1>0, <1>4, <1>5, Zenon DEF PanelsTypeOK, BoolsOK
<1>7. RestOK'
  BY <1>0, <1>4, <1>5 DEF PanelsTypeOK, RestOK
<1>8. PanelsTypeOK'
  BY <1>6, <1>7, Zenon DEF PanelsTypeOK, BoolsOK, RestOK
<1>9. LoadEnabledMatchesSelection'
  <2>1. SUFFICES ASSUME loadOn' PROVE LoadEnabledMatchesSelection'
    BY Zenon DEF LoadEnabledMatchesSelection
  <2>2. r.on
    BY <2>1, <1>5, Zenon
  <2>3. ActiveId(tItems, tActive)' = tItems[i]
    BY <1>4 DEF ActiveId
  <2>4. QED
    BY <1>3, <1>4, <1>5, <2>1, <2>2, <2>3 DEF LoadEnabledMatchesSelection
<1>10. QED
  BY <1>8, <1>9 DEF PInv

(* A config list, whole or broken off, leaves Load disabled: each         *)
(* "changed" emission inside it sees a placeholder or no active item.     *)
LEMMA ConfigListPInv ==
    ASSUME PInv, ConfigListResponse
    PROVE  PInv'
<1>0. PanelsTypeOK /\ SelState \in SelRec
  BY SelStateType DEF PInv
<1>1. /\ resps' \in Nat /\ lists' \in Nat
      /\ UNCHANGED <<slew, shown, ctlConn, prvConn, prvSlew, loads, asked,
                     health, draws, reqs, hmsgs, telConn, telSlew>>
  BY <1>0 DEF ConfigListResponse, Respond, PanelsTypeOK
<1>2. PICK ms \in ModelLists, ts \in MountLists :
        \/ HandleConfigList(ms, ts)
        \/ \E k \in 1..Len(ms) : HandleConfigListBroken(ms, k)
  BY DEF ConfigListResponse
<1>3. ms \in Seq(Models) /\ ts \in Seq(Mounts)
  BY PanelsAssumption
<1>4. ActiveId(tItems, tActive) \in Mounts \cup {NoId}
  BY <1>0, ActiveIdType DEF PanelsTypeOK
<1> DEFINE s1 == IF mActive # 0
                 THEN SelectionChanged(SelState, NoId, ActiveId(tItems, tActive))
                 ELSE SelState
<1>5. s1 \in SelRec /\ s1.on = FALSE
  <2>1. CASE mActive # 0
    BY <1>0, <1>4, <2>1, SelectionChangedFacts, SelectionChangedNone DEF SelRec
  <2>2. CASE mActive = 0
    <3>1. ~loadOn
      BY <2>2 DEF PInv, LoadEnabledMatchesSelection, ActiveId
    <3>2. QED
      BY <1>0, <2>2, <3>1 DEF SelState, SelRec
  <2>3. QED
    BY <2>1, <2>2
<1>6. /\ mItems' \in Seq(Models \cup {NoId}) /\ mActive' \in 0..Len(mItems')
      /\ tItems' \in Seq(Mounts \cup {NoId}) /\ tActive' \in 0..Len(tItems')
      /\ SetSel(SelectionChanged(
           SelectionChanged(IF tActive # 0 THEN SelectionChanged(s1, NoId, NoId) ELSE s1,
                            NoId, NoId), NoId, NoId))
         \/ SetSel(s1)
  <2>1. CASE HandleConfigList(ms, ts)
    <3>1. mItems' = <<NoId>> \o ms /\ tItems' = <<NoId>> \o ts
          /\ mActive' = 1 /\ tActive' = 1
      BY <2>1 DEF HandleConfigList
    <3>2. QED
      BY <1>3, <2>1, <3>1 DEF HandleConfigList
  <2>2. ASSUME NEW k \in 1..Len(ms), HandleConfigListBroken(ms, k)
        PROVE  <1>6!1 /\ <1>6!2 /\ <1>6!3
    <3>1. SubSeq(ms, 1, k - 1) \in Seq(Models)
      BY <1>3
    <3>2. QED
      BY <1>0, <2>2, <3>1 DEF HandleConfigListBroken, PanelsTypeOK
  <2>3. QED
    BY <1>2, <2>1, <2>2
<1>7. sel' \in Selection /\ loadOn' = FALSE
  <2>1. \A r \in SelRec : SelectionChanged(r, NoId, NoId) \in SelRec
    BY SelectionChangedFacts DEF SelRec
  <2>2. \A r \in SelRec : SelectionChanged(r, NoId, NoId).on = FALSE
    BY SelectionChangedNone DEF SelRec
  <2>3. (IF tActive # 0 THEN SelectionChanged(s1, NoId, NoId) ELSE s1) \in SelRec
    BY <1>5, <2>1
  <2>4. QED
    BY <1>5, <1>6, <2>1, <2>2, <2>3, SetSelType
<1>8. PanelsTypeOK'
  <2>1. BoolsOK'
    BY <1>0, <1>1, <1>7, Zenon DEF PanelsTypeOK, BoolsOK
  <2>2. RestOK'
    BY <1>0, <1>1, <1>6, <1>7 DEF PanelsTypeOK, RestOK
  <2>3. QED
    BY <2>1, <2>2, Zenon DEF PanelsTypeOK, BoolsOK, RestOK
<1>9. LoadEnabledMatchesSelection'
  BY <1>7 DEF LoadEnabledMatchesSelection
<1>10. QED
  BY <1>8, <1>9 DEF PInv
(* A health message changes only the health rows and the counter. *)
LEMMA HealthPInv ==
    ASSUME PInv, NEW c \in Coordinators \cup OtherCoords, NEW st \in Statuses,
           OnHealthMessage(c, st)
    PROVE  PInv'
<1>0. PanelsTypeOK /\ st \in HealthStatus
  BY PanelsAssumption DEF PInv
<1>1. UNCHANGED <<mItems, mActive, tItems, tActive, sel, loadOn, slew, shown,
                  ctlConn, prvConn, prvSlew, lists, loads, asked, reqs, resps,
                  telConn, telSlew>>
      /\ hmsgs' \in Nat
  BY <1>0 DEF OnHealthMessage, PanelsTypeOK
<1>2. /\ health' \in [Coordinators -> HealthStatus]
      /\ draws' \in [Coordinators -> Seq(HealthStatus)]
  <2>1. CASE c \in Coordinators
    <3>1. health' = [health EXCEPT ![c] = st]
          /\ draws' = [draws EXCEPT ![c] = Append(@, st)]
      BY <2>1 DEF OnHealthMessage
    <3>2. QED
      BY <1>0, <2>1, <3>1 DEF PanelsTypeOK
  <2>2. CASE c \notin Coordinators
    BY <1>0, <2>2 DEF OnHealthMessage, PanelsTypeOK
  <2>3. QED
    BY <2>1, <2>2
<1>3. PanelsTypeOK'
  <2>1. BoolsOK'
    BY <1>0, <1>1, BoolsFrame
  <2>2. RestOK'
    BY <1>0, <1>1, <1>2 DEF PanelsTypeOK, RestOK
  <2>3. QED
    BY <2>1, <2>2, Zenon DEF PanelsTypeOK, BoolsOK, RestOK
<1>4. QED
  BY <1>1, <1>3, ConfigFrame

LEMMA NextPInv == PInv /\ [PanelsNext]_panelVars => PInv'
<1> SUFFICES ASSUME PInv, [PanelsNext]_panelVars PROVE PInv'
  OBVIOUS
<1>1. CASE \E i \in 1..Len(mItems) : PickModel(i)
  BY <1>1, PickModelPInv
<1>2. CASE \E i \in 1..Len(tItems) : PickMount(i)
  BY <1>2, PickMountPInv
<1>3. CASE ConfigListResponse
  BY <1>3, ConfigListPInv
<1>4. CASE \E c \in Coordinators \cup OtherCoords, st \in Statuses :
             OnHealthMessage(c, st)
  BY <1>4, HealthPInv
<1>5. QED
  BY <1>1, <1>2, <1>3, <1>4, OtherStepsPInv DEF PanelsNext

LEMMA PInvHolds == PanelsSpec => []PInv
BY InitPInv, NextPInv, PTL DEF PanelsSpec

-----------------------------------------------------------------------------
(* The panel state stays well typed under every sequence of handlers. *)
THEOREM PanelsTypeCorrect == PanelsSpec => []PanelsTypeOK
BY PInvHolds, PTL DEF PInv

(* ControlPanel's Load Configuration button is sensitive only while the    *)
(* two combos show real items equal to selected_model and                  *)
(* selected_mount_type, whatever config lists (whole, or broken off by a   *)
(* KeyError), picks and responses from other GUIs arrive: the "changed"    *)
(* emissions of remove_all and set_active in _handle_config_list always    *)
(* disable it.                                                              *)
THEOREM LoadEnabledHolds == PanelsSpec => []LoadEnabledMatchesSelection
BY PInvHolds, PTL DEF PInv
=============================================================================
