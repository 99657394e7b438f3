-------------------------- MODULE ParametersProofs --------------------------
(***************************************************************************)
(* The copies of a parameter agree with the data base but for those that  *)
(* strayed, and the widgets of a page with the copies but for those that  *)
(* missed a change, for any number of parameter objects and any revisions. *)
(***************************************************************************)
EXTENDS Parameters, TLAPS

-----------------------------------------------------------------------------
(* Where a thread is, and what its access to a parameter refers to. *)

Stores(t)     == access[t].kind \in {"store", "restore"}
Pending(t, p) == Stores(t) /\ access[t].param = p

PlaceInv ==
    /\ pcG \in {"from_gui", "read", "edited"} => cur \in Editable
    /\ pcG \in {"shown", "updated"} => cur \in Shown

AccessInv ==
    \A t \in ThreadId :
        /\ access[t].kind = "fetch" => access[t].rev >= 0 /\ access[t].rev <= entry.revision
        /\ t = "exp" /\ access[t].kind = "fetch" => access[t].param \in ExpReads

IInv == TypeOK /\ PlaceInv /\ AccessInv

\* The fields an access has.
LEMMA AccessFields ==
    ASSUME TypeOK, NEW t \in ThreadId
    PROVE  /\ access[t].kind \in {"none", "fetch", "store", "restore"}
           /\ access[t].kind = "fetch" => access[t].param \in Param /\ access[t].rev \in Int
           /\ Stores(t) => access[t].param \in Param /\ access[t].v \in Values
<1>1. access[t] \in Access
  BY DEF TypeOK
<1> QED
  BY <1>1 DEF Access, None, Stores

LEMMA UnusedType ==
    ASSUME ParametersAssumption
    PROVE  Unused \in Values
BY DEF ParametersAssumption, Unused

\* Storing a value gives the entry a value and never an older revision.
LEMMA UpdatePairType ==
    ASSUME ParametersAssumption, TypeOK, NEW v \in Values
    PROVE  /\ UpdatePair(v) \in [value : Values, revision : Nat]
           /\ UpdatePair(v).revision >= entry.revision
BY DEF ParametersAssumption, TypeOK, UpdatePair

\* Comparing the revisions starts an access or does nothing.
LEMMA GetRevisionIInv ==
    ASSUME IInv, NEW t \in ThreadId, NEW p \in Param, t = "exp" => p \in ExpReads, GetRevision(t, p)
    PROVE  /\ access' \in [ThreadId -> Access] /\ strayed' \subseteq Param
           /\ AccessInv'
<1>0. strayed' \subseteq Param
  BY DEF GetRevision, IInv, TypeOK
<1>1. CASE entry.revision > revision[p]
  <2> DEFINE a == [kind |-> "fetch", param |-> p, rev |-> entry.revision]
  <2>1. a \in Access /\ entry.revision \in Nat
    BY DEF Access, IInv, TypeOK
  <2>2. access' = [access EXCEPT ![t] = a] /\ entry' = entry
    BY <1>1 DEF GetRevision
  <2>3. access' \in [ThreadId -> Access]
    BY <2>1, <2>2 DEF IInv, TypeOK
  <2>4. \A u \in ThreadId : access'[u] = IF u = t THEN a ELSE access[u]
    BY <2>2 DEF IInv, TypeOK
  <2> QED
    BY <1>0, <2>1, <2>2, <2>3, <2>4 DEF IInv, AccessInv
<1>2. CASE ~(entry.revision > revision[p])
  BY <1>0, <1>2 DEF GetRevision, IInv, TypeOK, AccessInv
<1> QED
  BY <1>1, <1>2

\* Setting a value starts an access or does nothing.
LEMMA SetValueIInv ==
    ASSUME IInv, NEW t \in ThreadId, NEW p \in Param, NEW v \in Values,
           NEW k \in {"store", "restore"}, SetValue(t, p, v, k)
    PROVE  /\ entry' = entry /\ strayed' \subseteq Param
           /\ value' \in [Param -> Values] /\ revision' \in [Param -> Int]
           /\ access' \in [ThreadId -> Access]
           /\ AccessInv'
<1>0. strayed' \subseteq Param
  BY DEF SetValue, IInv, TypeOK
<1>1. CASE value[p] = v
  BY <1>0, <1>1 DEF SetValue, IInv, TypeOK, AccessInv
<1>2. CASE value[p] # v
  <2> DEFINE a == [kind |-> k, param |-> p, v |-> v]
  <2>1. a \in Access
    BY DEF Access
  <2>2. /\ access' = [access EXCEPT ![t] = a] /\ entry' = entry
        /\ value' = [value EXCEPT ![p] = v]
        /\ revision' = [revision EXCEPT ![p] = @ + 1]
    BY <1>2 DEF SetValue
  <2>3. access' \in [ThreadId -> Access]
    BY <2>1, <2>2 DEF IInv, TypeOK
  <2>4. \A u \in ThreadId : access'[u] = IF u = t THEN a ELSE access[u]
    BY <2>2 DEF IInv, TypeOK
  <2>5. AccessInv'
    BY <2>1, <2>2, <2>3, <2>4 DEF IInv, AccessInv
  <2>6. value' \in [Param -> Values] /\ revision' \in [Param -> Int]
    BY <2>2 DEF IInv, TypeOK
  <2> QED
    BY <1>0, <2>2, <2>3, <2>5, <2>6
<1> QED
  BY <1>1, <1>2

\* The initial state.
LEMMA InitIInv ==
    ASSUME ParametersAssumption, Init
    PROVE  IInv
<1>1. entry \in [value : Values, revision : Nat]
  BY DEF Init
<1>2. access \in [ThreadId -> Access]
  BY DEF Init, Access
<1>3. gui_revision \in [Param -> Int] /\ widget \in [Shown -> Values] /\ val \in Values
  BY <1>1, UnusedType DEF Init
<1>4. TypeOK
  <2>1. value \in [Param -> Values] /\ revision \in [Param -> Int] /\ lead \in Int
    BY <1>1 DEF Init
  <2>2. m_bSettingText \in BOOLEAN
    BY Zenon DEF Init
  <2>3. /\ page_lock \in {"free", "gui", "exp"} /\ pcG \in Places
        /\ cur \in Param \cup {NoParam} /\ outer \in Shown \cup {NoParam}
        /\ toShow \subseteq Shown /\ posted \subseteq Shown \cup {"data"}
    BY DEF Init, Places
  <2>4. strayed \subseteq Param /\ missed \subseteq Param
    BY DEF Init
  <2> QED
    BY <1>1, <1>2, <1>3, <2>1, <2>2, <2>3, <2>4 DEF TypeOK
<1>5. PlaceInv /\ AccessInv
  BY DEF Init, PlaceInv, AccessInv, None, Stores
<1> QED
  BY <1>4, <1>5 DEF IInv

\* The rest of UpdateValueFromBackend.
LEMMA FetchIInv ==
    ASSUME ParametersAssumption, IInv, NEW t \in ThreadId, Fetch(t)
    PROVE  IInv'
<1>1. access[t].param \in Param /\ access[t].rev \in Int /\ entry.value \in Values
  BY AccessFields DEF IInv, Fetch, TypeOK
<1>2. access' \in [ThreadId -> Access] /\ \A u \in ThreadId : access'[u] = IF u = t THEN None ELSE access[u]
  BY DEF Fetch, IInv, TypeOK, Access
<1>3. TypeOK'
  <2>1. value' \in [Param -> Values] /\ revision' \in [Param -> Int] /\ val' \in Values
    BY <1>1 DEF Fetch, IInv, TypeOK
  <2>2. strayed' \subseteq Param /\ missed' \subseteq Param
    BY <1>1 DEF Fetch, IInv, TypeOK
  <2> QED
    BY <1>2, <2>1, <2>2 DEF Fetch, IInv, TypeOK, page
<1>4. PlaceInv' /\ AccessInv'
  BY <1>2 DEF Fetch, IInv, PlaceInv, AccessInv, None, page
<1> QED
  BY <1>3, <1>4 DEF IInv

\* UpdatePair.
LEMMA StoreIInv ==
    ASSUME ParametersAssumption, IInv, NEW t \in ThreadId, Store(t)
    PROVE  IInv'
<1>1. access[t].param \in Param /\ access[t].v \in Values
  BY AccessFields DEF IInv, Store, Stores
<1>2. /\ entry' \in [value : Values, revision : Nat] /\ entry'.revision >= entry.revision
      /\ entry.revision \in Nat
  BY <1>1, UpdatePairType DEF IInv, Store, TypeOK
<1>3. access' \in [ThreadId -> Access] /\ \A u \in ThreadId : access'[u] = IF u = t THEN None ELSE access[u]
  BY DEF Store, IInv, TypeOK, Access
<1>4. revision' \in [Param -> Int] /\ gui_revision' \in [Param -> Int]
  BY <1>1 DEF Store, IInv, TypeOK
<1>5. posted' \subseteq Shown \cup {"data"} /\ strayed' \subseteq Param /\ missed' \subseteq Param
  BY <1>1 DEF Store, IInv, TypeOK, PostsUpdateGUI
<1>6. TypeOK'
  BY <1>2, <1>3, <1>4, <1>5 DEF Store, IInv, TypeOK, page
<1>7. PlaceInv'
  BY DEF Store, IInv, PlaceInv, page
<1>8. AccessInv'
  <2> SUFFICES ASSUME NEW u \in ThreadId, access'[u].kind = "fetch"
               PROVE  /\ access'[u].rev >= 0 /\ access'[u].rev <= entry'.revision
                      /\ u = "exp" => access'[u].param \in ExpReads
    BY DEF AccessInv
  <2>1. u # t /\ access'[u] = access[u]
    BY <1>3 DEF None
  <2>2. access[u].rev \in Int
    BY <2>1, AccessFields DEF IInv
  <2> QED
    BY <2>1, <2>2, <1>2 DEF IInv, AccessInv
<1> QED
  BY <1>6, <1>7, <1>8 DEF IInv

\* The steps of the GUI thread that access a parameter.
LEMMA GuiAccessIInv ==
    ASSUME ParametersAssumption, IInv,
           UpdateFromGUI \/ Recalculate \/ UpdateNext \/ UpdatePosted
    PROVE  IInv'
<1> USE DEF ThreadId
<1>1. CASE UpdateFromGUI
  <2>1. CASE gui_revision[cur] > revision[cur]
    <3>1. cur \in Editable /\ cur \in Param /\ widget[cur] \in Values
      BY <1>1 DEF UpdateFromGUI, IInv, PlaceInv, TypeOK, ParametersAssumption, Editable
    <3>2. SetValue("gui", cur, widget[cur], "store") /\ pcG' = "read"
      BY <1>1, <2>1 DEF UpdateFromGUI
    <3>3. /\ entry' = entry /\ strayed' \subseteq Param
          /\ value' \in [Param -> Values] /\ revision' \in [Param -> Int]
          /\ access' \in [ThreadId -> Access]
          /\ AccessInv'
      BY <3>1, <3>2, SetValueIInv
    <3> QED
      BY <1>1, <3>1, <3>2, <3>3 DEF UpdateFromGUI, IInv, TypeOK, PlaceInv, page, shows, Places
  <2>2. CASE ~(gui_revision[cur] > revision[cur])
    BY <1>1, <2>2 DEF UpdateFromGUI, AfterUpdateFromGUI, IInv, TypeOK, PlaceInv, AccessInv, page, shows, data, Places
  <2> QED
    BY <2>1, <2>2
<1>2. CASE Recalculate
  <2>1. CASE \E p \in Param : GetRevision("gui", p) /\ UNCHANGED lead
    <3>1. PICK p \in Param : GetRevision("gui", p) /\ UNCHANGED lead
      BY <2>1
    <3>2. access' \in [ThreadId -> Access] /\ strayed' \subseteq Param /\ AccessInv'
      BY <3>1, GetRevisionIInv
    <3> QED
      BY <1>2, <3>1, <3>2 DEF Recalculate, GetRevision, IInv, TypeOK, PlaceInv, shows
  <2>2. CASE \E p \in PageSets, v \in Values :
                Bounded(p) /\ SetValue("gui", p, v, "store") /\ UNCHANGED lead
    <3>1. PICK p \in PageSets, v \in Values : SetValue("gui", p, v, "store") /\ UNCHANGED lead
      BY <2>2
    <3>2. p \in Param
      BY DEF ParametersAssumption
    <3>3. /\ entry' = entry /\ strayed' \subseteq Param
          /\ value' \in [Param -> Values] /\ revision' \in [Param -> Int]
          /\ access' \in [ThreadId -> Access]
          /\ AccessInv'
      BY <3>1, <3>2, SetValueIInv
    <3> QED
      BY <1>2, <3>1, <3>3 DEF Recalculate, IInv, TypeOK, PlaceInv, shows
  <2>3. CASE lead > -MaxRecalculations /\ lead' = lead - 1 /\ UNCHANGED data
    BY <1>2, <2>3 DEF Recalculate, IInv, TypeOK, PlaceInv, AccessInv, data, shows
  <2> QED
    BY <1>2, <2>1, <2>2, <2>3 DEF Recalculate
<1>3. CASE UpdateNext
  <2>1. PICK p \in toShow : UpdateGUI(p) /\ toShow' = toShow \ {p}
    BY <1>3 DEF UpdateNext
  <2>2. p \in Shown /\ p \in Param /\ GetRevision("gui", p)
    BY <2>1 DEF IInv, TypeOK, ParametersAssumption, UpdateGUI
  <2>3. access' \in [ThreadId -> Access] /\ strayed' \subseteq Param /\ AccessInv'
    BY <2>2, GetRevisionIInv
  <2> QED
    BY <1>3, <2>1, <2>2, <2>3 DEF UpdateNext, UpdateGUI, GetRevision, IInv, TypeOK, PlaceInv, Places, shows
<1>4. CASE UpdatePosted
  <2>1. PICK p \in posted \cap Shown : UpdateGUI(p) /\ outer' = p /\ posted' = posted \ {p}
    BY <1>4 DEF UpdatePosted
  <2>2. p \in Shown /\ p \in Param /\ GetRevision("gui", p)
    BY <2>1 DEF IInv, TypeOK, ParametersAssumption, UpdateGUI
  <2>3. access' \in [ThreadId -> Access] /\ strayed' \subseteq Param /\ AccessInv'
    BY <2>2, GetRevisionIInv
  <2> QED
    BY <1>4, <2>1, <2>2, <2>3 DEF UpdatePosted, UpdateGUI, GetRevision, IInv, TypeOK, PlaceInv, Places, shows
<1> QED
  BY <1>1, <1>2, <1>3, <1>4

\* The other steps of the GUI thread.
LEMMA GuiPlainIInv ==
    ASSUME ParametersAssumption, IInv,
           \/ \E p \in Editable, v \in Values : UserEdit(p, v)
           \/ ReadFromGUI \/ OnEditChange \/ UpdateData \/ SetDialogContents \/ ContentsAreSet
           \/ UpdateGUI_Value \/ Updated
    PROVE  IInv'
<1>1. CASE \E p \in Editable, v \in Values : UserEdit(p, v)
  <2>1. PICK p \in Editable, v \in Values : UserEdit(p, v)
    BY <1>1
  <2>2. p \in Shown /\ p \in Param
    BY DEF Editable, ParametersAssumption
  <2> QED
    BY <2>1, <2>2 DEF UserEdit, GUI_value_change, IInv, TypeOK, PlaceInv, AccessInv,
                      data, page, shows, Places
<1>2. CASE ReadFromGUI
  <2>1. cur \in Editable /\ cur \in Param
    BY <1>2 DEF ReadFromGUI, IInv, PlaceInv, Editable, ParametersAssumption
  <2> QED
    BY <1>2, <2>1 DEF ReadFromGUI, AfterUpdateFromGUI, IInv, TypeOK, PlaceInv, AccessInv,
                      data, page, shows, Places
<1>3. CASE OnEditChange
  BY <1>3 DEF OnEditChange, IInv, TypeOK, PlaceInv, AccessInv, Editable, data, shows, Places
<1>4. CASE UpdateData
  BY <1>4 DEF UpdateData, IInv, TypeOK, PlaceInv, AccessInv, data, shows, Places
<1>5. CASE SetDialogContents \/ ContentsAreSet
  <2>1. gui_revision' \in [Param -> Int] /\ outer' \in Shown \cup {NoParam}
    <3>1. outer # NoParam => outer \in Param
      BY DEF IInv, TypeOK, ParametersAssumption
    <3> QED
      BY <1>5, <3>1 DEF SetDialogContents, ContentsAreSet, LeaveUpdateData, IInv, TypeOK
  <2>2. UNCHANGED <<entry, value, revision, access, strayed, widget, missed, val, posted>> /\ cur' \in Param \cup {NoParam}
    BY <1>5 DEF IInv, TypeOK, SetDialogContents, ContentsAreSet, LeaveUpdateData, data, shows
  <2>3. pcG' \in {"idle", "contents"} /\ page_lock' \in {"free", "gui", "exp"}
    BY <1>5 DEF SetDialogContents, ContentsAreSet, LeaveUpdateData, IInv, TypeOK
  <2>4. toShow' \subseteq Shown /\ lead' \in Int
    BY <1>5 DEF SetDialogContents, ContentsAreSet, IInv, TypeOK
  <2>5. m_bSettingText' \in BOOLEAN
    BY <1>5, Zenon DEF SetDialogContents, ContentsAreSet, IInv, TypeOK
  <2>6. TypeOK'
    <3>1. pcG' \in Places
      BY <2>3 DEF Places
    <3> QED
      BY <2>1, <2>2, <2>3, <2>4, <2>5, <3>1, Zenon DEF IInv, TypeOK
  <2>7. PlaceInv'
    BY <2>3 DEF PlaceInv
  <2>8. AccessInv'
    BY <2>2 DEF IInv, AccessInv
  <2> QED
    BY <2>6, <2>7, <2>8 DEF IInv
<1>6. CASE UpdateGUI_Value
  <2>1. cur \in Shown /\ cur \in Param /\ Displayed[val] \in Values
    BY <1>6 DEF UpdateGUI_Value, IInv, PlaceInv, TypeOK, ParametersAssumption
  <2>2. /\ widget' \in [Shown -> Values] /\ gui_revision' \in [Param -> Int]
        /\ cur' = cur /\ pcG' \in Places
        /\ pcG' = "updated" \/ (pcG' = "from_gui" /\ cur \in Editable)
    BY <1>6, <2>1 DEF UpdateGUI_Value, GUI_value_change, IInv, TypeOK, Places
  <2>3. missed' \subseteq Param
    BY <1>6 DEF UpdateGUI_Value, IInv, TypeOK
  <2> QED
    BY <1>6, <2>1, <2>2, <2>3, UnusedType DEF UpdateGUI_Value, IInv, TypeOK, PlaceInv, AccessInv, data, page
<1>7. CASE Updated
  <2>1. cur \in Param
    BY <1>7 DEF Updated, IInv, PlaceInv, ParametersAssumption
  <2> QED
    BY <1>7, <2>1 DEF Updated, IInv, TypeOK, PlaceInv, AccessInv, data, page, shows, Places
<1> QED
  BY <1>1, <1>2, <1>3, <1>4, <1>5, <1>6, <1>7

\* The steps of the scheduler thread.
LEMMA ExpIInv ==
    ASSUME ParametersAssumption, IInv, ExpStep
    PROVE  IInv'
<1> USE DEF ThreadId
<1>1. CASE \E p \in Param : ExpValue(p)
  <2>1. PICK p \in Param : ExpValue(p)
    BY <1>1
  <2>2. GetRevision("exp", p) /\ p \in ExpReads
    BY <2>1 DEF ExpValue
  <2>3. access' \in [ThreadId -> Access] /\ strayed' \subseteq Param /\ AccessInv'
    BY <2>2, GetRevisionIInv
  <2> QED
    BY <2>1, <2>2, <2>3 DEF ExpValue, GetRevision, gui, IInv, TypeOK, PlaceInv
<1>2. CASE \E p \in Param, v \in Values : ExpSetValue(p, v) \/ setDefaultValue(p, v)
  <2>1. PICK p \in Param, v \in Values : ExpSetValue(p, v) \/ setDefaultValue(p, v)
    BY <1>2
  <2>2. CASE \E k \in {"store", "restore"} : ByExp(p, v, k)
    <3>1. PICK k \in {"store", "restore"} : ByExp(p, v, k)
      BY <2>2
    <3>2. /\ entry' = entry /\ strayed' \subseteq Param
          /\ value' \in [Param -> Values] /\ revision' \in [Param -> Int]
          /\ access' \in [ThreadId -> Access]
          /\ AccessInv'
      BY <3>1, SetValueIInv DEF ByExp
    <3>3. posted' \subseteq Shown \cup {"data"} /\ missed' \subseteq Param
      BY <2>1, <3>1 DEF ExpSetValue, setDefaultValue, ByExp, PostsUpdateGUI, IInv, TypeOK
    <3> QED
      BY <3>1, <3>2, <3>3 DEF ByExp, gui, IInv, TypeOK, PlaceInv
  <2>3. CASE setDefaultValue(p, v) /\ value[p] = v
    <3>1. /\ UNCHANGED <<entry, value, access, widget, val, page, pcG, cur, posted>>
          /\ revision' = [revision EXCEPT ![p] = -1]
          /\ gui_revision' = [gui_revision EXCEPT ![p] = -2]
          /\ strayed' \subseteq Param /\ missed' \subseteq Param
      BY <2>3 DEF setDefaultValue, IInv, TypeOK
    <3> QED
      BY <3>1 DEF page, IInv, TypeOK, PlaceInv, AccessInv
  <2> QED
    BY <2>1, <2>2, <2>3 DEF ExpSetValue, setDefaultValue
<1>3. CASE PostUpdateData \/ (\E p \in Shown : PostUpdateGUI(p)) \/ ExpLock \/ ExpUnlock
  <2>1. posted' \subseteq Shown \cup {"data"} /\ page_lock' \in {"free", "gui", "exp"}
    BY <1>3 DEF PostUpdateData, PostUpdateGUI, ExpLock, ExpUnlock, IInv, TypeOK
  <2>2. UNCHANGED <<data, gui, missed>>
    BY <1>3 DEF PostUpdateData, PostUpdateGUI, ExpLock, ExpUnlock
  <2> QED
    BY <2>1, <2>2 DEF data, gui, IInv, TypeOK, PlaceInv, AccessInv
<1> QED
  BY <1>1, <1>2, <1>3 DEF ExpStep

\* Every step.
LEMMA NextIInv ==
    ASSUME ParametersAssumption, IInv, [Next]_vars
    PROVE  IInv'
<1>1. CASE GuiStep
  BY <1>1, GuiAccessIInv, GuiPlainIInv DEF GuiStep
<1>2. CASE ExpStep
  BY <1>2, ExpIInv
<1>3. CASE \E t \in ThreadId : Fetch(t) \/ Store(t)
  BY <1>3, FetchIInv, StoreIInv
<1>4. CASE UNCHANGED vars
  BY <1>4 DEF vars, data, page, shows, IInv, TypeOK, PlaceInv, AccessInv
<1> QED
  BY <1>1, <1>2, <1>3, <1>4 DEF Next

THEOREM SpecIInv == Spec => []IInv
<1> QED
  BY ParametersAssumption, InitIInv, NextIInv, PTL DEF Spec

\* Type correctness.
THEOREM TypeCorrect == Spec => []TypeOK
<1>1. IInv => TypeOK
  BY DEF IInv
<1> QED
  BY <1>1, SpecIInv, PTL


-----------------------------------------------------------------------------
(* The copies and the data base. *)

\* A copy that has not strayed and that nobody is storing is not newer than the entry, and if
\* it is as new the text of both is the same.  One that is being stored is what is stored and
\* at most one ahead.
CopyOK(p) ==
    /\ (\A t \in ThreadId : ~Pending(t, p)) =>
          /\ revision[p] <= entry.revision
          /\ revision[p] = entry.revision => Written[value[p]] = entry.value
    /\ \A t \in ThreadId : Pending(t, p) =>
          revision[p] <= entry.revision + 1 /\ value[p] = access[t].v

\* An object one thread changes while the other is accessing it has strayed.
OverlapInv == \A t, u \in ThreadId, p \in Param :
                  t # u /\ Pending(t, p) /\ access[u].param = p => p \in strayed
CopyInv ==
    /\ Written[entry.value] = entry.value
    /\ OverlapInv
    /\ \A p \in Param \ strayed : CopyOK(p)

\* There are two threads.
LEMMA TwoThreads ==
    ASSUME NEW t \in ThreadId
    PROVE  /\ Other(t) \in ThreadId /\ Other(t) # t
           /\ \A u \in ThreadId : u = t \/ u = Other(t)
<1>1. Other(t) \in ThreadId /\ Other(t) # t
  BY DEF Other, ThreadId
<1> QED
  BY <1>1 DEF ThreadId

\* setDefaultValue when the copy has the value already.
Forget(p) ==
    /\ Idle("exp")
    /\ revision' = [revision EXCEPT ![p] = -1]
    /\ strayed' = IF Changes("gui", p) THEN strayed ELSE strayed \ {p}
    /\ UNCHANGED <<entry, value, access>>

\* Only these steps change the entry, a copy or an access.
LEMMA DataSteps ==
    ASSUME ParametersAssumption, IInv, [Next]_vars
    PROVE  \/ UNCHANGED data
           \/ \E p \in Param : Forget(p)
           \/ \E t \in ThreadId :
                 \/ Fetch(t) \/ Store(t)
                 \/ \E p \in Param : GetRevision(t, p)
                 \/ \E p \in Param, v \in Values, k \in {"store", "restore"} : SetValue(t, p, v, k)
<1> USE DEF ThreadId
<1>1. CASE \/ \E p \in Editable, v \in Values : UserEdit(p, v)
           \/ ReadFromGUI \/ OnEditChange \/ UpdateData \/ SetDialogContents \/ ContentsAreSet
           \/ UpdateGUI_Value \/ Updated
  BY <1>1 DEF UserEdit, ReadFromGUI, OnEditChange, UpdateData, SetDialogContents, ContentsAreSet,
              UpdateGUI_Value, Updated
<1>2. CASE UpdateFromGUI
  <2>1. cur \in Param /\ widget[cur] \in Values
    BY <1>2 DEF UpdateFromGUI, IInv, PlaceInv, TypeOK, ParametersAssumption, Editable
  <2>2. SetValue("gui", cur, widget[cur], "store") \/ UNCHANGED data
    BY <1>2 DEF UpdateFromGUI
  <2> QED
    BY <2>1, <2>2
<1>3. CASE Recalculate
  <2>1. PageSets \subseteq Param
    BY DEF ParametersAssumption
  <2> QED
    BY <1>3, <2>1 DEF Recalculate
<1>4. CASE UpdateNext \/ UpdatePosted
  <2>1. \E p \in Param : GetRevision("gui", p)
    BY <1>4 DEF UpdateNext, UpdatePosted, UpdateGUI, IInv, TypeOK, ParametersAssumption
  <2> QED
    BY <2>1
<1>5. CASE ExpStep
  <2>1. \A p \in Param : ExpValue(p) => GetRevision("exp", p)
    BY DEF ExpValue
  <2>2. \A p \in Param, v \in Values : ExpSetValue(p, v) \/ setDefaultValue(p, v) =>
           Forget(p) \/ \E k \in {"store", "restore"} : SetValue("exp", p, v, k)
    BY DEF ExpSetValue, setDefaultValue, ByExp, Forget
  <2>3. PostUpdateData \/ (\E p \in Shown : PostUpdateGUI(p)) \/ ExpLock \/ ExpUnlock => UNCHANGED data
    BY DEF PostUpdateData, PostUpdateGUI, ExpLock, ExpUnlock
  <2> QED
    BY <1>5, <2>1, <2>2, <2>3 DEF ExpStep
<1>6. CASE \E t \in ThreadId : Fetch(t) \/ Store(t)
  BY <1>6
<1>7. CASE UNCHANGED vars
  BY <1>7 DEF vars
<1> QED
  BY <1>1, <1>2, <1>3, <1>4, <1>5, <1>6, <1>7 DEF Next, GuiStep

\* Comparing the revisions changes no copy, and notes if the other thread is changing this one.
LEMMA GetRevisionCopy ==
    ASSUME IInv, CopyInv, NEW t \in ThreadId, NEW q \in Param, GetRevision(t, q)
    PROVE  CopyInv'
<1>1. UNCHANGED <<entry, value, revision>> /\ strayed \subseteq strayed'
  BY DEF GetRevision
<1>2. \A u \in ThreadId, p \in Param :
         (Pending(u, p)' <=> Pending(u, p)) /\ (Pending(u, p) => access'[u] = access[u])
  BY DEF GetRevision, IInv, TypeOK, Pending, Stores, Idle
<1>3. OverlapInv'
  <2> SUFFICES ASSUME NEW u \in ThreadId, NEW w \in ThreadId, NEW p \in Param,
                      u # w, Pending(u, p), access'[w].param = p
               PROVE  p \in strayed'
    BY <1>2 DEF OverlapInv
  <2>1. CASE access'[w] = access[w]
    BY <1>1, <2>1 DEF CopyInv, OverlapInv
  <2>2. CASE access'[w] # access[w]
    <3>1. w = t /\ access'[w].param = q /\ Other(t) = u /\ entry.revision > revision[q]
      BY <2>2, TwoThreads DEF GetRevision, IInv, TypeOK
    <3> QED
      BY <3>1 DEF GetRevision, Pending, Stores, Changes
  <2> QED
    BY <2>1, <2>2
<1> QED
  BY <1>1, <1>2, <1>3 DEF CopyInv, CopyOK

\* Fetching makes the copy what the entry was when its revision was read, or newer.
LEMMA FetchCopy ==
    ASSUME IInv, CopyInv, NEW t \in ThreadId, Fetch(t)
    PROVE  CopyInv'
<1>0. PICK q \in Param : q = access[t].param
  BY AccessFields DEF IInv, Fetch
<1>1. /\ access[t].rev \in Int /\ access[t].rev <= entry.revision /\ entry.revision \in Nat
  BY AccessFields DEF IInv, Fetch, AccessInv, TypeOK
<1>2. /\ entry' = entry
      /\ \A p \in Param : value'[p] = IF p = q THEN entry.value ELSE value[p]
      /\ \A p \in Param : revision'[p] = IF p = q THEN access[t].rev ELSE revision[p]
  BY <1>0 DEF Fetch, IInv, TypeOK
<1>3. \A u \in ThreadId, p \in Param :
         (Pending(u, p)' <=> Pending(u, p)) /\ (Pending(u, p) => access'[u] = access[u])
  BY DEF Fetch, IInv, TypeOK, Pending, Stores, None
<1>4. /\ \A p \in Param : p # q => (p \in strayed' <=> p \in strayed)
      /\ q \notin strayed' => \A u \in ThreadId : ~Pending(u, q)
  <2>1. strayed' = IF Changes(Other(t), q) THEN strayed ELSE strayed \ {q}
    BY <1>0 DEF Fetch
  <2>2. Changes(Other(t), q) => q \in strayed
    BY <1>0, TwoThreads DEF Changes, CopyInv, OverlapInv, Pending, Stores
  <2>3. ~Pending(t, q)
    BY DEF Fetch, Pending, Stores
  <2> QED
    BY <2>1, <2>2, <2>3, TwoThreads DEF Changes, Pending, Stores
<1>5. OverlapInv'
  <2> SUFFICES ASSUME NEW u \in ThreadId, NEW w \in ThreadId, NEW p \in Param,
                      u # w, Pending(u, p), access'[w].param = p
               PROVE  p \in strayed'
    BY <1>3 DEF OverlapInv
  <2>1. CASE w = t
    <3>1. access'[w] = None
      BY <2>1 DEF Fetch, IInv, TypeOK
    <3> QED
      BY <3>1, <1>4, ParametersAssumption DEF None, ParametersAssumption
  <2>2. CASE w # t
    <3>1. access'[w] = access[w]
      BY <2>2 DEF Fetch, IInv, TypeOK
    <3>2. p \in strayed
      BY <3>1 DEF CopyInv, OverlapInv
    <3> QED
      BY <3>2, <1>4
  <2> QED
    BY <2>1, <2>2
<1>6. ASSUME NEW p \in Param \ strayed' PROVE CopyOK(p)'
  <2>1. CASE p = q
    BY <1>1, <1>2, <1>3, <1>4, <2>1 DEF CopyInv, CopyOK
  <2>2. CASE p # q
    <3>1. CopyOK(p)
      BY <1>4, <1>6, <2>2 DEF CopyInv
    <3> QED
      BY <3>1, <1>2, <1>3, <2>2 DEF CopyOK
  <2> QED
    BY <2>1, <2>2
<1> QED
  BY <1>2, <1>5, <1>6 DEF CopyInv

\* Setting a value: the copy is one ahead of the entry until the value is stored.
LEMMA SetValueCopy ==
    ASSUME ParametersAssumption, IInv, CopyInv, NEW t \in ThreadId, NEW q \in Param,
           NEW v \in Values, NEW k \in {"store", "restore"}, SetValue(t, q, v, k)
    PROVE  CopyInv'
<1>1. CASE value[q] = v
  BY <1>1 DEF SetValue, CopyInv, OverlapInv, CopyOK, Pending, Stores
<1>2. CASE value[q] # v
  <2> DEFINE a == [kind |-> k, param |-> q, v |-> v]
  <2>1. entry.revision \in Nat /\ revision[q] \in Int
    BY DEF IInv, TypeOK
  <2>2. /\ entry' = entry
        /\ \A p \in Param : value'[p] = IF p = q THEN v ELSE value[p]
        /\ \A p \in Param : revision'[p] = IF p = q THEN revision[p] + 1 ELSE revision[p]
        /\ \A u \in ThreadId : access'[u] = IF u = t THEN a ELSE access[u]
        /\ strayed' = IF access[Other(t)].param = q THEN strayed \cup {q} ELSE strayed
    BY <1>2 DEF SetValue, IInv, TypeOK, Meets
  <2>3. access[t].kind = "none"
    BY DEF SetValue, Idle
  <2>4. \A u \in ThreadId, p \in Param : Pending(u, p)' <=> (u = t /\ p = q) \/ (u # t /\ Pending(u, p))
    BY <2>2 DEF Pending, Stores
  <2>5. OverlapInv'
    <3> SUFFICES ASSUME NEW u \in ThreadId, NEW w \in ThreadId, NEW p \in Param,
                        u # w, Pending(u, p)', access'[w].param = p
                 PROVE  p \in strayed'
      BY DEF OverlapInv
    <3>1. CASE u = t
      BY <3>1, <2>2, <2>4, TwoThreads
    <3>2. CASE w = t
      BY <3>2, <2>2, <2>4, TwoThreads DEF Pending
    <3>3. CASE u # t /\ w # t
      BY <3>3, TwoThreads
    <3> QED
      BY <3>1, <3>2, <3>3
  <2>6. ASSUME NEW p \in Param \ strayed' PROVE CopyOK(p)'
    <3>1. CopyOK(p)
      BY <2>2, <2>6 DEF CopyInv
    <3>2. CASE p = q
      <4>1. \A u \in ThreadId : ~Pending(u, q)
        BY <2>2, <2>3, <2>6, <3>2, TwoThreads DEF Pending, Stores
      <4>2. revision[q] <= entry.revision
        BY <3>1, <3>2, <4>1 DEF CopyOK
      <4>3. \A u \in ThreadId : Pending(u, q)' <=> u = t
        BY <2>4, <4>1
      <4>4. revision'[q] <= entry'.revision + 1 /\ value'[q] = access'[t].v
        BY <2>1, <2>2, <4>2
      <4> QED
        BY <3>2, <4>3, <4>4 DEF CopyOK
    <3>3. CASE p # q
      <4>1. \A u \in ThreadId : (Pending(u, p)' <=> Pending(u, p)) /\ (Pending(u, p) => access'[u] = access[u])
        BY <2>2, <2>3, <2>4, <3>3 DEF Pending, Stores
      <4> QED
        BY <3>1, <3>3, <4>1, <2>2 DEF CopyOK
    <3> QED
      BY <3>2, <3>3
  <2> QED
    BY <2>2, <2>5, <2>6 DEF CopyInv
<1> QED
  BY <1>1, <1>2

\* Storing: the entry becomes what the copy is, or it is newer than the copy.
LEMMA StoreCopy ==
    ASSUME ParametersAssumption, IInv, CopyInv, NEW t \in ThreadId, Store(t)
    PROVE  CopyInv'
<1>0. PICK q \in Param, w \in Values : access[t].param = q /\ access[t].v = w
  BY AccessFields DEF IInv, Store, Stores
<1>1. Pending(t, q)
  BY <1>0 DEF Store, Stores, Pending
<1>2. entry.revision \in Nat /\ revision \in [Param -> Int] /\ Written[Written[w]] = Written[w]
  BY DEF IInv, TypeOK, ParametersAssumption
<1>3. \/ entry' = entry /\ Written[w] = entry.value
      \/ entry'.value = Written[w] /\ entry'.revision = entry.revision + 1
  BY <1>0 DEF Store, UpdatePair
<1>4. /\ value' = value
      /\ \A p \in Param : p # q => revision'[p] = revision[p]
      /\ \A u \in ThreadId : access'[u] = IF u = t THEN None ELSE access[u]
  BY <1>0 DEF Store, IInv, TypeOK
<1>5. \A p \in Param : p # q => (p \in strayed' <=> p \in strayed)
  BY <1>0 DEF Store
<1>6. q \notin strayed' => /\ \A u \in ThreadId : u # t => ~Pending(u, q)
                           /\ revision'[q] <= entry'.revision
                           /\ revision'[q] = entry'.revision => Written[value'[q]] = entry'.value
  <2> SUFFICES ASSUME q \notin strayed'
               PROVE  /\ \A u \in ThreadId : u # t => ~Pending(u, q)
                      /\ revision'[q] <= entry'.revision
                      /\ revision'[q] = entry'.revision => Written[value'[q]] = entry'.value
    OBVIOUS
  <2>1. Changes(Other(t), q) => q \in strayed
    BY <1>0, TwoThreads DEF Changes, CopyInv, OverlapInv, Pending, Stores
  <2>2. CASE access[t].kind = "restore"
    <3>1. revision'[q] = -1 /\ strayed' = IF Changes(Other(t), q) THEN strayed ELSE strayed \ {q}
      BY <1>0, <1>2, <2>2 DEF Store
    <3>2. ~Changes(Other(t), q)
      BY <2>1, <3>1
    <3>3. entry'.revision \in Nat
      BY <1>2, <1>3
    <3> QED
      BY <3>1, <3>2, <3>3, TwoThreads DEF Changes, Pending, Stores
  <2>3. CASE access[t].kind # "restore"
    <3>1. /\ revision' = revision /\ q \notin strayed
          /\ ~(entry' = entry /\ revision[q] > entry.revision)
      BY <1>0, <2>3 DEF Store
    <3>2. \A u \in ThreadId : u # t => ~Pending(u, q)
      BY <2>1, <3>1, TwoThreads DEF Changes, Pending, Stores
    <3>3. revision[q] <= entry.revision + 1 /\ value[q] = w
      BY <1>0, <1>1, <3>1 DEF CopyInv, CopyOK
    <3>4. revision[q] \in Int
      BY <1>2
    <3> QED
      BY <1>2, <1>3, <1>4, <3>1, <3>2, <3>3, <3>4
  <2> QED
    BY <2>2, <2>3
<1>7. \A u \in ThreadId, p \in Param : Pending(u, p)' => u # t /\ Pending(u, p) /\ access'[u] = access[u]
  BY <1>4 DEF Pending, Stores, None
<1>8. OverlapInv'
  <2> SUFFICES ASSUME NEW u \in ThreadId, NEW z \in ThreadId, NEW p \in Param,
                      u # z, Pending(u, p)', access'[z].param = p
               PROVE  p \in strayed'
    BY DEF OverlapInv
  <2>1. u # t /\ Pending(u, p)
    BY <1>7
  <2>2. z # t
    BY <1>4 DEF None, ParametersAssumption
  <2> QED
    BY <2>1, <2>2, TwoThreads
<1>9. ASSUME NEW p \in Param \ strayed' PROVE CopyOK(p)'
  <2>1. CASE p = q
    <3>1. \A u \in ThreadId : ~Pending(u, q)'
      BY <1>6, <1>7, <1>9, <2>1
    <3> QED
      BY <1>6, <1>9, <2>1, <3>1 DEF CopyOK
  <2>2. CASE p # q
    <3>1. \A u \in ThreadId : Pending(u, p)' <=> Pending(u, p)
      BY <1>0, <1>4, <2>2 DEF Pending, Stores, None
    <3>2. \A u \in ThreadId : Pending(u, p) => access'[u] = access[u]
      BY <3>1, <1>7
    <3>3. revision'[p] = revision[p] /\ value'[p] = value[p] /\ revision[p] \in Int
      BY <1>2, <1>4, <2>2
    <3>4. CopyOK(p)
      BY <1>5, <1>9, <2>2 DEF CopyInv
    <3>5. CASE entry' = entry
      BY <3>1, <3>2, <3>3, <3>4, <3>5 DEF CopyOK
    <3>6. CASE entry'.revision = entry.revision + 1
      BY <3>1, <3>2, <3>3, <3>4, <3>6, <1>2 DEF CopyOK
    <3> QED
      BY <3>5, <3>6, <1>3
  <2> QED
    BY <2>1, <2>2
<1>10. Written[entry'.value] = entry'.value
  BY <1>2, <1>3 DEF CopyInv
<1> QED
  BY <1>8, <1>9, <1>10 DEF CopyInv

\* A copy whose revision is reset is fetched again before it is used.
LEMMA ForgetCopy ==
    ASSUME IInv, CopyInv, NEW q \in Param, Forget(q)
    PROVE  CopyInv'
<1>1. /\ UNCHANGED <<entry, value, access>> /\ entry.revision \in Nat
      /\ \A p \in Param : revision'[p] = IF p = q THEN -1 ELSE revision[p]
      /\ \A p \in Param : p # q => (p \in strayed' <=> p \in strayed)
  BY DEF Forget, IInv, TypeOK
<1>2. \A u \in ThreadId, p \in Param : Pending(u, p)' <=> Pending(u, p)
  BY <1>1 DEF Pending, Stores
<1>3. ~Pending("exp", q)
  BY DEF Forget, Idle, Pending, Stores
<1>4. q \notin strayed' => q \notin strayed \/ \A u \in ThreadId : ~Pending(u, q)
  BY <1>3 DEF Forget, Changes, Pending, Stores, ThreadId
<1>5. OverlapInv'
  <2> SUFFICES ASSUME NEW u \in ThreadId, NEW w \in ThreadId, NEW p \in Param,
                      u # w, Pending(u, p), access[w].param = p
               PROVE  p \in strayed'
    BY <1>1, <1>2 DEF OverlapInv
  <2>1. p \in strayed
    BY DEF CopyInv, OverlapInv
  <2>2. p = q => Pending("gui", q)
    BY <1>3 DEF ThreadId
  <2> QED
    BY <1>1, <2>1, <2>2 DEF Forget, Changes, Pending, Stores
<1>6. ASSUME NEW p \in Param \ strayed' PROVE CopyOK(p)'
  <2>1. CASE p = q
    <3>1. revision'[q] <= entry'.revision /\ revision'[q] # entry'.revision /\ revision'[q] <= entry'.revision + 1
      BY <1>1
    <3>2. \A u \in ThreadId : Pending(u, q) => value[q] = access[u].v
      BY <1>4, <1>6, <2>1 DEF CopyInv, CopyOK
    <3> QED
      BY <2>1, <3>1, <3>2, <1>1, <1>2 DEF CopyOK
  <2>2. CASE p # q
    <3>1. CopyOK(p)
      BY <1>1, <1>6, <2>2 DEF CopyInv
    <3> QED
      BY <3>1, <2>2, <1>1, <1>2 DEF CopyOK
  <2> QED
    BY <2>1, <2>2
<1> QED
  BY <1>1, <1>5, <1>6 DEF CopyInv

\* A copy that is taken for new enough is what the data base holds or is about to hold, unless
\* the object strayed.
THEOREM CopiesAreCoherent == Spec => []Coherent
<1> USE ParametersAssumption
<1>1. Init => CopyInv
  <2> SUFFICES ASSUME Init PROVE CopyInv
    OBVIOUS
  <2>1. \A t \in ThreadId, p \in Param : ~Pending(t, p)
    BY DEF Init, Pending, Stores, None
  <2>2. entry.revision = 0 /\ Written[entry.value] = entry.value
    BY DEF Init
  <2>3. \A p \in Param : revision[p] = 0 /\ value[p] = entry.value
    BY DEF Init
  <2> QED
    BY <2>1, <2>2, <2>3 DEF CopyInv, OverlapInv, CopyOK
<1>2. IInv /\ CopyInv /\ [Next]_vars => CopyInv'
  <2> SUFFICES ASSUME IInv, CopyInv, [Next]_vars PROVE CopyInv'
    OBVIOUS
  <2>1. CASE UNCHANGED data
    BY <2>1 DEF data, CopyInv, OverlapInv, CopyOK, Pending, Stores
  <2>2. CASE \E p \in Param : Forget(p)
    BY <2>2, ForgetCopy
  <2>3. CASE \E t \in ThreadId :
                 \/ Fetch(t) \/ Store(t)
                 \/ \E p \in Param : GetRevision(t, p)
                 \/ \E p \in Param, v \in Values, k \in {"store", "restore"} : SetValue(t, p, v, k)
    BY <2>3, FetchCopy, StoreCopy, GetRevisionCopy, SetValueCopy
  <2> QED
    BY <2>1, <2>2, <2>3, DataSteps
<1>3. IInv /\ CopyInv => Coherent
  <2> SUFFICES ASSUME IInv, CopyInv, NEW p \in Param \ strayed, revision[p] >= entry.revision
               PROVE  \/ Written[value[p]] = entry.value
                      \/ \E t \in ThreadId : Pending(t, p) /\ access[t].v = value[p]
    BY DEF Coherent, Changes, Pending, Stores
  <2>1. CopyOK(p) /\ entry.revision \in Nat /\ revision[p] \in Int
    BY DEF CopyInv, IInv, TypeOK
  <2> QED
    BY <2>1 DEF CopyOK
<1> QED
  BY <1>1, <1>2, <1>3, SpecIInv, PTL DEF Spec

-----------------------------------------------------------------------------
(* The widgets and the copies. *)

\* Who holds the page, and which flags are set, by where the GUI thread is.
LockInv ==
    /\ pcG = "idle" => outer = NoParam /\ ~m_bSettingText
    /\ pcG \in {"idle", "shown", "edited", "updated"} /\ ~m_bSettingText => page_lock # "gui"
    /\ pcG = "recalc" => page_lock = "gui" /\ ~m_bSettingText
    /\ pcG = "contents" => m_bSettingText
    /\ m_bSettingText => page_lock = "gui" /\ lead <= 0
    /\ ~m_bSettingText => toShow = {}
    /\ outer # NoParam /\ page_lock = "gui" => lead <= 0

\* What the threads access, by where the GUI thread is; a fetch of the GUI thread will make the
\* copy newer than its widget.
ReachInv ==
    /\ access["gui"].kind \in {"none", "fetch", "store"}
    /\ access["gui"].kind = "fetch" => pcG \in {"recalc", "shown"}
    /\ access["gui"].kind = "store" => pcG \in {"recalc", "read"}
    /\ pcG = "shown" /\ access["gui"].kind = "fetch" => access["gui"].param = cur
    /\ pcG = "shown" /\ access["gui"].kind = "none" /\ cur \notin missed => val = value[cur]
    /\ access["gui"].kind = "fetch" /\ access["gui"].param \in Shown \ missed =>
          access["gui"].rev > gui_revision[access["gui"].param]
    /\ access["exp"].kind = "restore" => access["exp"].param \in Scanned

\* A widget shows values that are rounded already.
ShowInv == \A p \in Shown : Displayed[widget[p]] = widget[p]

\* Shown and known to be shown; or at least known not to be, if it is not.
Agrees(p) == gui_revision[p] = revision[p] /\ widget[p] = Displayed[value[p]]
Behind(p) == gui_revision[p] <= revision[p] /\ (gui_revision[p] = revision[p] => Agrees(p))
Ahead(p)  == gui_revision[p] >= revision[p] /\ (gui_revision[p] = revision[p] => Agrees(p))

\* A widget that missed nothing agrees with its parameter or is known not to, but for the one
\* the GUI thread is working on.
Looks(p) ==
    IF p = cur /\ pcG = "from_gui" THEN Ahead(p)
    ELSE IF p = cur /\ pcG = "read" THEN widget[p] = Displayed[value[p]]
    ELSE IF p = cur /\ pcG \in {"edited", "updated"} THEN Agrees(p)
    ELSE IF p = outer /\ m_bSettingText /\ p \notin toShow /\ ~(p = cur /\ pcG = "shown") THEN Agrees(p)
    ELSE Behind(p)

\* Why a widget that is known not to agree will be redrawn.
Reason(p) ==
    gui_revision[p] < revision[p] /\ p \notin Scanned \cup ExpReads =>
        \/ lead > 0 \/ p \in posted \/ Changes("exp", p)
        \/ page_lock = "gui" /\ ~m_bSettingText
        \/ p \in toShow \/ (p = cur /\ pcG = "shown")

WidgetInv == \A p \in Shown \ missed : Looks(p) /\ Reason(p)

WInv == IInv /\ LockInv /\ ReachInv /\ ShowInv /\ WidgetInv

\* The lock and the flags.
LEMMA NextLock ==
    ASSUME ParametersAssumption, WInv, [Next]_vars
    PROVE  LockInv'
<1> USE DEF ThreadId, WInv
<1>1. CASE \E p \in Editable, v \in Values : UserEdit(p, v)
  BY <1>1 DEF UserEdit, GUI_value_change, LockInv, page
<1>2. CASE UpdateFromGUI \/ ReadFromGUI
  BY <1>2 DEF UpdateFromGUI, ReadFromGUI, AfterUpdateFromGUI, LockInv, page, IInv, TypeOK
<1>3. CASE OnEditChange
  BY <1>3 DEF OnEditChange, LockInv, IInv, TypeOK
<1>4. CASE UpdateData
  BY <1>4 DEF UpdateData, LockInv
<1>5. CASE Recalculate
  BY <1>5 DEF Recalculate, LockInv, IInv, TypeOK
<1>6. CASE SetDialogContents
  BY <1>6 DEF SetDialogContents, LeaveUpdateData, LockInv, IInv, TypeOK
<1>7. CASE ContentsAreSet
  BY <1>7 DEF ContentsAreSet, LeaveUpdateData, LockInv
<1>8. CASE UpdateNext
  BY <1>8 DEF UpdateNext, UpdateGUI, LockInv
<1>9. CASE UpdatePosted
  BY <1>9 DEF UpdatePosted, UpdateGUI, LockInv
<1>10. CASE UpdateGUI_Value
  BY <1>10 DEF UpdateGUI_Value, GUI_value_change, LockInv, page
<1>11. CASE Updated
  BY <1>11 DEF Updated, LockInv
<1>12. CASE ExpStep
  <2>1. UNCHANGED <<lead, m_bSettingText, outer, toShow, pcG>>
    BY <1>12 DEF ExpStep, ExpValue, ExpSetValue, setDefaultValue, ByExp, PostUpdateData,
                 PostUpdateGUI, ExpLock, ExpUnlock, gui, page
  <2>2. \/ page_lock' = page_lock
        \/ page_lock' = "exp" /\ page_lock = "free"
        \/ page_lock' = "free" /\ page_lock = "exp"
    BY <1>12 DEF ExpStep, ExpValue, ExpSetValue, setDefaultValue, ByExp, PostUpdateData,
                 PostUpdateGUI, ExpLock, ExpUnlock, page
  <2> QED
    BY <2>1, <2>2 DEF LockInv
<1>13. CASE \E t \in ThreadId : Fetch(t) \/ Store(t)
  BY <1>13 DEF Fetch, Store, LockInv, page
<1>14. CASE UNCHANGED vars
  BY <1>14 DEF vars, page, LockInv
<1> QED
  BY <1>1, <1>2, <1>3, <1>4, <1>5, <1>6, <1>7, <1>8, <1>9, <1>10, <1>11, <1>12, <1>13, <1>14
     DEF Next, GuiStep

\* What widgets show.
LEMMA NextShow ==
    ASSUME ParametersAssumption, WInv, [Next]_vars
    PROVE  ShowInv'
<1> USE DEF ThreadId, WInv
<1>1. CASE \E p \in Editable, v \in Values : UserEdit(p, v)
  BY <1>1 DEF UserEdit, ShowInv, IInv, TypeOK
<1>2. CASE UpdateGUI_Value
  <2>1. \/ widget' = widget
        \/ widget' = [widget EXCEPT ![cur] = Displayed[val]]
    BY <1>2 DEF UpdateGUI_Value
  <2>2. Displayed[Displayed[val]] = Displayed[val]
    BY DEF IInv, TypeOK, ParametersAssumption
  <2> QED
    BY <2>1, <2>2 DEF ShowInv, IInv, TypeOK
<1>3. CASE UNCHANGED widget
  BY <1>3 DEF ShowInv
<1>4. UpdateFromGUI \/ ReadFromGUI \/ OnEditChange \/ UpdateData \/ Recalculate \/ SetDialogContents
      \/ ContentsAreSet \/ UpdateNext \/ UpdatePosted \/ Updated => UNCHANGED widget
  BY DEF UpdateFromGUI, ReadFromGUI, OnEditChange, UpdateData, Recalculate, SetDialogContents,
         ContentsAreSet, UpdateNext, UpdatePosted, UpdateGUI, Updated, shows
<1>5. ExpStep \/ (\E t \in ThreadId : Fetch(t) \/ Store(t)) \/ UNCHANGED vars => UNCHANGED widget
  BY DEF ExpStep, ExpValue, ExpSetValue, setDefaultValue, ByExp, PostUpdateData, PostUpdateGUI,
         ExpLock, ExpUnlock, gui, Fetch, Store, vars, shows
<1> QED
  BY <1>1, <1>2, <1>3, <1>4, <1>5 DEF Next, GuiStep

\* What the scheduler thread does to an object whose widget it leaves informed: nothing, or it
\* leaves the widget behind while the GUI thread is not at it.
Informed(p) ==
    \/ UNCHANGED <<value[p], revision[p], gui_revision[p]>>
    \/ /\ ~Updating(p) /\ gui_revision'[p] < revision'[p]
       /\ gui_revision'[p] \in {gui_revision[p], -2}
       /\ p \in Scanned \cup ExpReads \/ Changes("exp", p)'
LEMMA ExpInforms ==
    ASSUME ParametersAssumption, WInv, ExpStep \/ Fetch("exp") \/ Store("exp")
    PROVE  /\ UNCHANGED <<widget, val, pcG, cur, outer, toShow, m_bSettingText, lead, access["gui"]>>
           /\ missed \subseteq missed' /\ posted \subseteq posted'
           /\ page_lock = "gui" <=> page_lock' = "gui"
           /\ access'["exp"].kind = "restore" => access'["exp"].param \in Scanned
           /\ \A p \in Shown \ missed' :
                 /\ Informed(p)
                 /\ Changes("exp", p) /\ p \notin Scanned => p \in posted' \/ Changes("exp", p)'
<1> USE DEF ThreadId, WInv
<1>0. /\ access \in [ThreadId -> Access] /\ gui_revision \in [Param -> Int]
      /\ revision \in [Param -> Int] /\ value \in [Param -> Values] /\ Shown \subseteq Param
  BY DEF IInv, TypeOK, ParametersAssumption
<1>1. ASSUME NEW p \in Shown \ missed, ~Updating(p)
      PROVE  gui_revision[p] <= revision[p]
  <2>1. Looks(p)
    BY <1>1 DEF WidgetInv
  <2> QED
    BY <1>1, <2>1 DEF Looks, Updating, Behind
<1>2. CASE \E q \in Param : ExpValue(q)
  <2>1. PICK q \in Param : GetRevision("exp", q) /\ UNCHANGED <<gui, missed, page_lock, posted>>
    BY <1>2 DEF ExpValue
  <2> QED
    BY <1>0, <2>1 DEF GetRevision, gui, Informed, Idle, Changes, ReachInv
<1>3. CASE \E q \in Param, v \in Values, k \in {"store", "restore"} :
              ByExp(q, v, k) /\ (k = "restore" => q \in Scanned) /\ posted \subseteq posted'
  <2>1. PICK q \in Param, v \in Values, k \in {"store", "restore"} :
              ByExp(q, v, k) /\ (k = "restore" => q \in Scanned) /\ posted \subseteq posted'
    BY <1>3
  <2>2. SetValue("exp", q, v, k) /\ UNCHANGED <<gui, page_lock>>
        /\ missed' = IF value[q] # v /\ Updating(q) THEN missed \cup {q} ELSE missed
    BY <2>1 DEF ByExp
  <2>3. CASE value[q] = v
    BY <1>0, <2>1, <2>2, <2>3 DEF SetValue, gui, Informed, Idle, Changes, ReachInv
  <2>4. CASE value[q] # v
    <3> DEFINE a == [kind |-> k, param |-> q, v |-> v]
    <3>1. /\ access["exp"].kind = "none" /\ access'["exp"] = a /\ access'["gui"] = access["gui"]
          /\ revision' = [revision EXCEPT ![q] = @ + 1] /\ value' = [value EXCEPT ![q] = v]
      BY <1>0, <2>2, <2>4 DEF SetValue, Idle
    <3>2. ASSUME NEW p \in Shown \ missed' PROVE Informed(p)
      <4>1. p \in Param /\ p \notin missed
        BY <1>0, <2>2, <3>2
      <4>2. CASE p # q
        BY <1>0, <2>2, <3>1, <4>1, <4>2 DEF Informed, gui
      <4>3. CASE p = q
        <5>1. ~Updating(p)
          BY <2>2, <2>4, <3>2, <4>3
        <5>2. gui_revision[p] <= revision[p] /\ revision'[p] = revision[p] + 1 /\ gui_revision' = gui_revision
          BY <1>0, <1>1, <2>2, <3>1, <4>1, <4>3, <5>1 DEF gui
        <5>3. Changes("exp", p)'
          BY <3>1, <4>3 DEF Changes
        <5> QED
          BY <1>0, <4>1, <5>1, <5>2, <5>3 DEF Informed
      <4> QED
        BY <4>2, <4>3
    <3>3. a.kind = k /\ a.param = q
      OBVIOUS
    <3> HIDE DEF a
    <3>4. ASSUME NEW p \in Shown \ missed' PROVE ~Changes("exp", p)
      BY <3>1 DEF Changes
    <3>5. missed \subseteq missed' /\ UNCHANGED <<widget, val, pcG, cur, outer, toShow, m_bSettingText, lead>>
      BY <2>2 DEF gui
    <3> QED
      BY <2>1, <2>2, <3>1, <3>2, <3>3, <3>4, <3>5
  <2> QED
    BY <2>3, <2>4
<1>4. CASE \E q \in Param, v \in Values : setDefaultValue(q, v) /\ value[q] = v
  <2>1. PICK q \in Param : /\ Idle("exp") /\ q \in Scanned
                           /\ revision' = [revision EXCEPT ![q] = -1]
                           /\ gui_revision' = [gui_revision EXCEPT ![q] = -2]
                           /\ missed' = IF Updating(q) THEN missed \cup {q} ELSE missed
                           /\ UNCHANGED <<value, access, widget, val, page, pcG, cur, posted>>
    BY <1>4 DEF setDefaultValue
  <2>2. ASSUME NEW p \in Shown \ missed' PROVE Informed(p)
    BY <1>0, <2>1, <2>2 DEF Informed
  <2> QED
    BY <2>1, <2>2 DEF page, Idle, Changes, ReachInv
<1>5. CASE PostUpdateData \/ (\E p \in Shown : PostUpdateGUI(p)) \/ ExpLock \/ ExpUnlock
  BY <1>5 DEF PostUpdateData, PostUpdateGUI, ExpLock, ExpUnlock, data, gui, Informed, Idle, Changes, ReachInv
<1>6. CASE Fetch("exp")
  <2>1. PICK q \in Param, r \in Int : q = access["exp"].param /\ r = access["exp"].rev
    BY <1>6, AccessFields DEF Fetch, IInv
  <2>2. /\ q \in ExpReads /\ access["exp"].kind = "fetch" /\ access'["exp"] = None
        /\ access'["gui"] = access["gui"]
        /\ value' = [value EXCEPT ![q] = entry.value] /\ revision' = [revision EXCEPT ![q] = r]
        /\ missed' = IF Updating(q) \/ r <= gui_revision[q] THEN missed \cup {q} ELSE missed
        /\ UNCHANGED <<gui_revision, widget, val, page, pcG, cur, posted>>
    BY <1>0, <1>6, <2>1 DEF Fetch, IInv, AccessInv
  <2>3. ASSUME NEW p \in Shown \ missed' PROVE Informed(p)
    <3>1. CASE p # q
      BY <1>0, <2>2, <3>1 DEF Informed
    <3>2. CASE p = q
      <4>1. ~Updating(p) /\ ~(r <= gui_revision[p]) /\ revision'[p] = r /\ gui_revision[p] \in Int
        BY <1>0, <2>2, <2>3, <3>2
      <4> QED
        BY <2>2, <3>2, <4>1 DEF Informed
    <3> QED
      BY <3>1, <3>2
  <2> QED
    BY <2>2, <2>3 DEF page, None, Changes
<1>7. CASE Store("exp")
  <2>1. PICK q \in Param : q = access["exp"].param
    BY <1>7, AccessFields DEF Store, Stores, IInv
  <2>2. /\ access["exp"].kind \in {"store", "restore"} /\ access'["exp"] = None
        /\ access'["gui"] = access["gui"]
        /\ access["exp"].kind = "restore" => q \in Scanned
        /\ posted' = IF q \in Shown \ Scanned THEN posted \cup {q} ELSE posted
        /\ UNCHANGED <<value, widget, val, page, pcG, cur>>
    BY <1>0, <1>7, <2>1 DEF Store, PostsUpdateGUI, ReachInv
  <2>3. CASE access["exp"].kind = "restore"
    <3>1. /\ revision' = [revision EXCEPT ![q] = -1]
          /\ gui_revision' = [gui_revision EXCEPT ![q] = -2]
          /\ missed' = IF Updating(q) THEN missed \cup {q} ELSE missed
      BY <1>7, <2>1, <2>3 DEF Store
    <3>2. ASSUME NEW p \in Shown \ missed' PROVE Informed(p)
      BY <1>0, <2>2, <2>3, <3>1, <3>2 DEF Informed
    <3> QED
      BY <2>1, <2>2, <2>3, <3>1, <3>2 DEF page, None, Changes
  <2>4. CASE access["exp"].kind = "store"
    <3>1. UNCHANGED <<revision, gui_revision, missed>>
      BY <1>7, <2>4 DEF Store
    <3> QED
      BY <2>1, <2>2, <3>1 DEF page, None, Changes, Informed
  <2> QED
    BY <2>2, <2>3, <2>4
<1>8. ExpStep => \/ \E q \in Param : ExpValue(q)
                 \/ \E q \in Param, v \in Values, k \in {"store", "restore"} :
                       ByExp(q, v, k) /\ (k = "restore" => q \in Scanned) /\ posted \subseteq posted'
                 \/ \E q \in Param, v \in Values : setDefaultValue(q, v) /\ value[q] = v
                 \/ PostUpdateData \/ (\E p \in Shown : PostUpdateGUI(p)) \/ ExpLock \/ ExpUnlock
  <2>1. \A q \in Param, v \in Values : ExpSetValue(q, v) => ByExp(q, v, "store") /\ posted \subseteq posted'
    BY DEF ExpSetValue
  <2>2. \A q \in Param, v \in Values : setDefaultValue(q, v) =>
           \/ value[q] = v
           \/ ByExp(q, v, "restore") /\ q \in Scanned /\ posted \subseteq posted'
    BY DEF setDefaultValue
  <2> QED
    BY <2>1, <2>2 DEF ExpStep
<1> QED
  BY <1>2, <1>3, <1>4, <1>5, <1>6, <1>7, <1>8

\* The accesses.
LEMMA NextReach ==
    ASSUME ParametersAssumption, WInv, [Next]_vars
    PROVE  ReachInv'
<1> USE DEF ThreadId, WInv
<1>0. /\ access \in [ThreadId -> Access] /\ gui_revision \in [Param -> Int]
      /\ revision \in [Param -> Int] /\ value \in [Param -> Values] /\ Shown \subseteq Param
      /\ entry.revision \in Nat
  BY DEF IInv, TypeOK, ParametersAssumption
<1>1. CASE \E p \in Editable, v \in Values : UserEdit(p, v)
  BY <1>1 DEF UserEdit, GUI_value_change, ReachInv, data, page
<1>2. CASE UpdateFromGUI
  <2>1. CASE gui_revision[cur] > revision[cur]
    <3>1. /\ SetValue("gui", cur, widget[cur], "store") /\ pcG' = "read"
          /\ UNCHANGED <<gui_revision, missed, cur, val>> /\ pcG = "from_gui"
      BY <1>2, <2>1 DEF UpdateFromGUI, page, shows
    <3> QED
      BY <1>0, <3>1 DEF SetValue, Idle, ReachInv
  <2>2. CASE ~(gui_revision[cur] > revision[cur])
    BY <1>2, <2>2 DEF UpdateFromGUI, AfterUpdateFromGUI, ReachInv, data, page, shows
  <2> QED
    BY <2>1, <2>2
<1>3. CASE ReadFromGUI
  BY <1>3 DEF ReadFromGUI, AfterUpdateFromGUI, Idle, ReachInv, data, page
<1>4. CASE OnEditChange
  BY <1>4 DEF OnEditChange, ReachInv, data
<1>5. CASE UpdateData
  BY <1>5 DEF UpdateData, ReachInv, data
<1>6. CASE Recalculate
  <2>0. /\ pcG = "recalc" /\ access["gui"].kind = "none" /\ ~m_bSettingText
        /\ UNCHANGED <<gui_revision, missed, pcG, cur, val>>
    BY <1>6 DEF Recalculate, Idle, LockInv, shows
  <2>1. CASE \E p \in Param : GetRevision("gui", p) /\ UNCHANGED lead
    <3>1. PICK p \in Param : GetRevision("gui", p)
      BY <2>1
    <3>2. CASE entry.revision > revision[p]
      <4>1. access'["gui"] = [kind |-> "fetch", param |-> p, rev |-> entry.revision]
            /\ access'["exp"] = access["exp"]
        BY <1>0, <3>1, <3>2 DEF GetRevision
      <4>2. p \in Shown \ missed => gui_revision[p] <= revision[p]
        BY <2>0 DEF WidgetInv, Looks, Behind
      <4>3. p \in Shown \ missed => entry.revision > gui_revision[p]
        BY <1>0, <3>2, <4>2
      <4> QED
        BY <2>0, <4>1, <4>3 DEF ReachInv
    <3>3. CASE ~(entry.revision > revision[p])
      BY <2>0, <3>1, <3>3 DEF GetRevision, ReachInv
    <3> QED
      BY <3>2, <3>3
  <2>2. CASE \E p \in PageSets, v \in Values :
                Bounded(p) /\ SetValue("gui", p, v, "store") /\ UNCHANGED lead
    <3>1. PICK p \in PageSets, v \in Values : SetValue("gui", p, v, "store")
      BY <2>2
    <3> QED
      BY <1>0, <2>0, <3>1 DEF SetValue, ReachInv
  <2>3. CASE lead > -MaxRecalculations /\ lead' = lead - 1 /\ UNCHANGED data
    BY <2>0, <2>3 DEF data, ReachInv
  <2> QED
    BY <1>6, <2>1, <2>2, <2>3 DEF Recalculate
<1>7. CASE SetDialogContents \/ ContentsAreSet
  <2>1. pcG' \in {"idle", "contents"} /\ UNCHANGED <<access, missed, val>> /\ access["gui"].kind = "none"
    BY <1>7 DEF SetDialogContents, ContentsAreSet, LeaveUpdateData, Idle, data, shows, ReachInv
  <2> QED
    BY <2>1 DEF ReachInv
<1>8. CASE UpdateNext \/ UpdatePosted
  <2>1. PICK p \in Shown : UpdateGUI(p) /\ (pcG = "idle" \/ (pcG = "contents" /\ p \in toShow))
    BY <1>8 DEF UpdateNext, UpdatePosted, IInv, TypeOK
  <2>2. /\ GetRevision("gui", p) /\ cur' = p /\ val' = value[p] /\ pcG' = "shown"
        /\ UNCHANGED <<gui_revision, missed>> /\ access["gui"].kind = "none"
    BY <2>1 DEF UpdateGUI, GetRevision, Idle, shows
  <2>3. CASE entry.revision > revision[p]
    <3>1. access'["gui"] = [kind |-> "fetch", param |-> p, rev |-> entry.revision]
          /\ access'["exp"] = access["exp"]
      BY <1>0, <2>2, <2>3 DEF GetRevision
    <3>2. p \notin missed => gui_revision[p] <= revision[p]
      BY <2>1 DEF WidgetInv, Looks, Behind, LockInv
    <3>3. p \notin missed => entry.revision > gui_revision[p]
      BY <1>0, <2>3, <3>2
    <3> QED
      BY <2>2, <3>1, <3>3 DEF ReachInv
  <2>4. CASE ~(entry.revision > revision[p])
    BY <2>2, <2>4 DEF GetRevision, ReachInv
  <2> QED
    BY <2>3, <2>4
<1>9. CASE UpdateGUI_Value
  <2>1. access["gui"].kind = "none" /\ UNCHANGED access /\ pcG' \in {"from_gui", "updated"}
    BY <1>9 DEF UpdateGUI_Value, GUI_value_change, Idle, data
  <2> QED
    BY <2>1 DEF ReachInv
<1>10. CASE Updated
  <2>1. access["gui"].kind = "none" /\ UNCHANGED access /\ pcG' \in {"idle", "contents"}
    BY <1>10 DEF Updated, data, ReachInv
  <2> QED
    BY <2>1 DEF ReachInv
<1>11. CASE ExpStep \/ Fetch("exp") \/ Store("exp")
  <2> DEFINE a == access["gui"]
  <2>1. /\ UNCHANGED <<val, pcG, cur, access["gui"]>> /\ missed \subseteq missed'
        /\ access'["exp"].kind = "restore" => access'["exp"].param \in Scanned
        /\ \A p \in Shown \ missed' : Informed(p)
    BY <1>11, ExpInforms
  <2>2. pcG = "shown" => cur \in Shown
    BY DEF IInv, PlaceInv
  <2>3. pcG = "shown" /\ cur \notin missed' => value'[cur] = value[cur]
    BY <2>1, <2>2 DEF Informed, Updating
  <2>4. ASSUME a.kind = "fetch", a.param \in Shown \ missed'
        PROVE  a.rev > gui_revision'[a.param]
    <3>1. a.rev >= 0 /\ a.rev \in Int
      BY <2>4, AccessFields DEF IInv, AccessInv
    <3>2. a.rev > gui_revision[a.param]
      BY <2>1, <2>4 DEF ReachInv
    <3>3. gui_revision'[a.param] \in {gui_revision[a.param], -2}
      BY <2>1, <2>4 DEF Informed
    <3> QED
      BY <3>1, <3>2, <3>3
  <2> QED
    BY <2>1, <2>3, <2>4 DEF ReachInv
<1>12. CASE Fetch("gui")
  <2>1. /\ access'["gui"] = None /\ access'["exp"] = access["exp"]
        /\ UNCHANGED <<pcG, cur, gui_revision>> /\ missed' = missed
        /\ access["gui"].kind = "fetch"
        /\ pcG = "shown" => val' = entry.value
        /\ value' = [value EXCEPT ![access["gui"].param] = entry.value]
    BY <1>0, <1>12 DEF Fetch
  <2>2. pcG = "shown" => cur \in Param /\ access["gui"].param = cur
    BY <2>1 DEF IInv, PlaceInv, ReachInv, ParametersAssumption
  <2>3. pcG = "shown" => val' = value'[cur]
    BY <1>0, <2>1, <2>2
  <2> QED
    BY <2>1, <2>3 DEF ReachInv, None
<1>13. CASE Store("gui")
  <2>1. /\ access'["gui"] = None /\ access'["exp"] = access["exp"]
        /\ UNCHANGED <<pcG, cur, val, value>> /\ access["gui"].kind = "store"
    BY <1>0, <1>13 DEF Store, ReachInv
  <2> QED
    BY <2>1 DEF ReachInv, None
<1>14. CASE UNCHANGED vars
  BY <1>14 DEF vars, data, page, shows, ReachInv
<1> QED
  BY <1>1, <1>2, <1>3, <1>4, <1>5, <1>6, <1>7, <1>8, <1>9, <1>10, <1>11, <1>12, <1>13, <1>14
     DEF Next, GuiStep

\* The widgets, step by step of the GUI thread.
Same(p) == UNCHANGED <<widget[p], value[p], revision[p], gui_revision[p]>>

LEMMA Ranges ==
    ASSUME ParametersAssumption, WInv, NEW p \in Shown
    PROVE  /\ p \in Param /\ p # NoParam /\ p # "data"
           /\ gui_revision[p] \in Int /\ revision[p] \in Int /\ value[p] \in Values
           /\ Displayed[widget[p]] = widget[p]
BY DEF ParametersAssumption, WInv, IInv, TypeOK, ShowInv

LEMMA EditWidget ==
    ASSUME ParametersAssumption, WInv, \E q \in Editable, v \in Values : UserEdit(q, v)
    PROVE  WidgetInv'
<1> USE DEF WInv
<1>1. PICK q \in Editable, v \in Values : UserEdit(q, v)
  OBVIOUS
<1>2. /\ pcG = "idle" /\ pcG' = "from_gui" /\ cur' = q /\ outer = NoParam /\ ~m_bSettingText
      /\ UNCHANGED <<data, page, posted>>
      /\ widget' = [widget EXCEPT ![q] = v]
      /\ gui_revision' = [gui_revision EXCEPT ![q] = gui_revision[q] + 1]
      /\ missed' = IF gui_revision[q] < revision[q] THEN missed \cup {q} ELSE missed
  BY <1>1 DEF UserEdit, GUI_value_change, LockInv
<1> SUFFICES ASSUME NEW p \in Shown \ missed' PROVE (Looks(p) /\ Reason(p))'
  BY DEF WidgetInv
<1>3. p \in Param /\ p # NoParam /\ gui_revision[p] \in Int /\ revision[p] \in Int
  BY Ranges
<1>4. Behind(p) /\ Reason(p)
  BY <1>2, <1>3 DEF WidgetInv, Looks
<1>5. CASE p = q
  <2>1. gui_revision'[p] = gui_revision[p] + 1 /\ ~(gui_revision[p] < revision[p]) /\ revision' = revision
    BY <1>2, <1>3, <1>5 DEF IInv, TypeOK, data
  <2>2. gui_revision'[p] > revision'[p] /\ gui_revision'[p] \in Int
    BY <1>3, <2>1
  <2> QED
    BY <1>2, <1>3, <1>5, <2>1, <2>2 DEF Looks, Ahead, Reason
<1>6. CASE p # q
  <2>1. Same(p)
    BY <1>2, <1>3, <1>6 DEF Same, data, IInv, TypeOK
  <2> QED
    BY <1>2, <1>3, <1>4, <1>6, <2>1 DEF Same, Looks, Behind, Agrees, Reason, data, page, Changes
<1> QED
  BY <1>5, <1>6

LEMMA FromGUIWidget ==
    ASSUME ParametersAssumption, WInv, UpdateFromGUI \/ ReadFromGUI
    PROVE  WidgetInv'
<1> USE DEF WInv
<1>0. /\ access \in [ThreadId -> Access] /\ value \in [Param -> Values] /\ revision \in [Param -> Int]
      /\ gui_revision \in [Param -> Int] /\ "gui" \in ThreadId /\ "exp" \in ThreadId /\ "gui" # "exp"
  BY DEF IInv, TypeOK, ThreadId
<1>1. UNCHANGED <<shows, page, cur, posted>> /\ cur \in Shown
  BY DEF UpdateFromGUI, ReadFromGUI, IInv, PlaceInv, Editable
<1>2. pcG' = "recalc" => ~m_bSettingText
  BY DEF UpdateFromGUI, ReadFromGUI, AfterUpdateFromGUI
<1>3. pcG \in {"from_gui", "read"} /\ pcG' \in {"read", "edited", "recalc"}
  BY DEF UpdateFromGUI, ReadFromGUI, AfterUpdateFromGUI
<1>4. /\ \A p \in Shown : p # cur => Same(p)
      /\ \A p \in Param : Changes("exp", p)' <=> Changes("exp", p)
  <2>1. CASE UpdateFromGUI /\ gui_revision[cur] > revision[cur]
    <3>1. SetValue("gui", cur, widget[cur], "store") /\ UNCHANGED gui_revision
      BY <2>1 DEF UpdateFromGUI
    <3>2. \A p \in Param : p # cur => value'[p] = value[p] /\ revision'[p] = revision[p]
      BY <1>0, <3>1 DEF SetValue
    <3>3. access'["exp"] = access["exp"]
      BY <1>0, <3>1 DEF SetValue
    <3> QED
      BY <1>1, <3>1, <3>2, <3>3 DEF Same, shows, ParametersAssumption, Changes
  <2>2. CASE UpdateFromGUI /\ ~(gui_revision[cur] > revision[cur])
    BY <1>1, <2>2 DEF UpdateFromGUI, Same, data, shows, Changes
  <2>3. CASE ReadFromGUI
    BY <1>0, <1>1, <2>3 DEF ReadFromGUI, Same, data, shows, Changes, ParametersAssumption
  <2> QED
    BY <2>1, <2>2, <2>3
<1> SUFFICES ASSUME NEW p \in Shown \ missed' PROVE (Looks(p) /\ Reason(p))'
  BY DEF WidgetInv
<1>5. /\ p \in Param /\ gui_revision[p] \in Int /\ revision[p] \in Int
      /\ Displayed[widget[p]] = widget[p]
  BY Ranges
<1>6. Looks(p) /\ Reason(p)
  BY <1>1 DEF WidgetInv, shows
<1>7. CASE p # cur
  <2>1. Same(p)
    BY <1>4, <1>7
  <2>2. Looks(p)'
    BY <1>1, <1>6, <1>7, <2>1 DEF Looks, Same, Behind, Agrees, page
  <2>3. Reason(p)'
    BY <1>1, <1>4, <1>5, <1>6, <1>7, <2>1 DEF Reason, Same, page
  <2> QED
    BY <2>2, <2>3
<1>8. CASE p = cur
  <2>1. CASE UpdateFromGUI /\ gui_revision[cur] > revision[cur]
    <3>1. SetValue("gui", cur, widget[cur], "store") /\ UNCHANGED gui_revision /\ pcG' = "read"
      BY <2>1 DEF UpdateFromGUI
    <3>2. value'[p] = widget[p]
      BY <1>0, <1>5, <1>8, <3>1 DEF SetValue
    <3>3. revision'[p] \in {revision[p], revision[p] + 1}
      BY <1>0, <1>5, <1>8, <3>1 DEF SetValue
    <3>4. ~(gui_revision'[p] < revision'[p])
      BY <1>5, <1>8, <2>1, <3>1, <3>3
    <3> QED
      BY <1>1, <1>5, <1>8, <3>1, <3>2, <3>4 DEF Looks, Reason, shows
  <2>2. CASE UpdateFromGUI /\ ~(gui_revision[cur] > revision[cur])
    <3>1. UNCHANGED <<data, gui_revision, widget>> /\ pcG' \in {"edited", "recalc"} /\ pcG = "from_gui"
      BY <2>2 DEF UpdateFromGUI, AfterUpdateFromGUI, shows
    <3>2. Agrees(p)
      BY <1>5, <1>6, <1>8, <2>2, <3>1 DEF Looks, Ahead
    <3>3. Agrees(p)' /\ Behind(p)'
      BY <1>5, <3>1, <3>2 DEF Agrees, Behind, data
    <3>4. ~(gui_revision'[p] < revision'[p])
      BY <1>5, <3>1, <3>3 DEF Agrees, data
    <3> QED
      BY <1>1, <1>2, <1>8, <3>1, <3>3, <3>4 DEF Looks, Reason, page
  <2>3. CASE ReadFromGUI
    <3>1. /\ UNCHANGED <<data, widget>> /\ pcG = "read" /\ pcG' \in {"edited", "recalc"}
          /\ gui_revision' = [gui_revision EXCEPT ![cur] = revision[cur]]
      BY <2>3 DEF ReadFromGUI, AfterUpdateFromGUI, shows
    <3>2. gui_revision'[p] = revision'[p] /\ revision'[p] \in Int /\ widget'[p] = Displayed[value'[p]]
      BY <1>0, <1>5, <1>6, <1>8, <3>1 DEF Looks, data
    <3>3. Agrees(p)' /\ Behind(p)'
      BY <3>2 DEF Agrees, Behind
    <3>4. ~(gui_revision'[p] < revision'[p])
      BY <3>2
    <3> QED
      BY <1>1, <1>2, <1>8, <3>1, <3>3, <3>4 DEF Looks, Reason, page
  <2> QED
    BY <2>1, <2>2, <2>3
<1> QED
  BY <1>7, <1>8

LEMMA ChangedWidget ==
    ASSUME ParametersAssumption, WInv, OnEditChange \/ UpdateData
    PROVE  WidgetInv'
<1> USE DEF WInv
<1> SUFFICES ASSUME NEW p \in Shown \ missed' PROVE (Looks(p) /\ Reason(p))'
  BY DEF WidgetInv
<1>1. UNCHANGED <<data, gui_revision, shows, m_bSettingText, outer, toShow>>
  BY DEF OnEditChange, UpdateData
<1>2. p \in Param /\ p # NoParam /\ p # "data" /\ gui_revision[p] \in Int /\ revision[p] \in Int
  BY Ranges
<1>3. Looks(p) /\ Reason(p)
  BY <1>1 DEF WidgetInv, shows
<1>4. (Agrees(p)' <=> Agrees(p)) /\ (Behind(p)' <=> Behind(p)) /\ (Ahead(p)' <=> Ahead(p))
  BY <1>1 DEF Agrees, Behind, Ahead, data, shows
<1>5. Agrees(p) => Behind(p) /\ Ahead(p)
  BY <1>2 DEF Agrees, Behind, Ahead
<1>6. CASE OnEditChange
  <2>1. pcG = "edited" /\ pcG' \in {"from_gui", "updated", "idle"} /\ cur' \in {cur, NoParam} /\ posted' = posted
        /\ (pcG' = "idle" => ~m_bSettingText) /\ (pcG' # "idle" => cur' = cur)
    BY <1>6 DEF OnEditChange
  <2>2. Looks(p)'
    BY <1>1, <1>2, <1>3, <1>4, <1>5, <2>1 DEF Looks
  <2>3. \/ page_lock' = "gui" /\ ~m_bSettingText
        \/ page_lock' = page_lock /\ (lead > 0 => lead' > 0)
    BY <1>6 DEF OnEditChange, IInv, TypeOK
  <2> QED
    BY <1>1, <1>3, <2>1, <2>2, <2>3 DEF Reason, data, Changes
<1>7. CASE UpdateData
  <2>1. /\ pcG = "idle" /\ pcG' = "recalc" /\ page_lock' = "gui" /\ ~m_bSettingText
    BY <1>7 DEF UpdateData, LockInv
  <2> QED
    BY <1>1, <1>2, <1>3, <1>4, <1>5, <2>1 DEF Looks, Reason
<1> QED
  BY <1>6, <1>7

LEMMA RecalculateWidget ==
    ASSUME ParametersAssumption, WInv, Recalculate
    PROVE  WidgetInv'
<1> USE DEF WInv
<1>0. /\ value \in [Param -> Values] /\ revision \in [Param -> Int]
      /\ pcG = "recalc" /\ page_lock = "gui" /\ ~m_bSettingText
      /\ UNCHANGED <<gui_revision, shows, m_bSettingText, page_lock, outer, toShow, pcG, cur>>
  BY DEF IInv, TypeOK, LockInv, Recalculate
<1> SUFFICES ASSUME NEW p \in Shown \ missed' PROVE (Looks(p) /\ Reason(p))'
  BY DEF WidgetInv
<1>1. p \in Param /\ gui_revision[p] \in Int /\ revision[p] \in Int
  BY Ranges
<1>2. Behind(p)
  BY <1>0 DEF WidgetInv, Looks, shows
<1>3. \/ value'[p] = value[p] /\ revision'[p] = revision[p]
      \/ revision'[p] = revision[p] + 1
  <2>1. CASE UNCHANGED <<value, revision>>
    BY <2>1
  <2>2. CASE \E q \in PageSets, v \in Values : SetValue("gui", q, v, "store")
    BY <1>0, <1>1, <2>2 DEF SetValue
  <2> QED
    BY <2>1, <2>2 DEF Recalculate, GetRevision, data
<1>4. Behind(p)'
  BY <1>0, <1>1, <1>2, <1>3 DEF Behind, Agrees, shows
<1> QED
  BY <1>0, <1>4 DEF Looks, Reason

LEMMA ContentsWidget ==
    ASSUME ParametersAssumption, WInv, SetDialogContents \/ ContentsAreSet
    PROVE  WidgetInv'
<1> USE DEF WInv
<1> SUFFICES ASSUME NEW p \in Shown \ missed' PROVE (Looks(p) /\ Reason(p))'
  BY DEF WidgetInv
<1>1. UNCHANGED <<data, shows, posted>>
  BY DEF SetDialogContents, ContentsAreSet
<1>2. p \in Param /\ p # NoParam /\ gui_revision[p] \in Int /\ revision[p] \in Int
  BY Ranges
<1>3. Looks(p) /\ Reason(p)
  BY <1>1 DEF WidgetInv, shows
<1>4. Agrees(p) => Behind(p)
  BY <1>2 DEF Agrees, Behind
<1>5. Behind(p)
  BY <1>3, <1>4 DEF SetDialogContents, ContentsAreSet, Looks
<1>6. gui_revision'[p] = gui_revision[p]
  <2>1. CASE SetDialogContents /\ ~(lead > 0)
    BY <2>1 DEF SetDialogContents
  <2>2. CASE SetDialogContents /\ lead > 0
    <3>1. outer = NoParam
      BY <2>2 DEF SetDialogContents, LockInv, IInv, TypeOK
    <3> QED
      BY <2>2, <3>1 DEF SetDialogContents, LeaveUpdateData
  <2>3. CASE ContentsAreSet
    <3>1. p = outer => Agrees(p)
      BY <1>3, <2>3 DEF ContentsAreSet, Looks, LockInv
    <3>2. /\ gui_revision' = IF outer = NoParam THEN gui_revision
                             ELSE [gui_revision EXCEPT ![outer] = revision[outer]]
          /\ gui_revision \in [Param -> Int]
      BY <2>3 DEF ContentsAreSet, LeaveUpdateData, IInv, TypeOK
    <3> QED
      BY <1>2, <3>1, <3>2 DEF Agrees
  <2> QED
    BY <2>1, <2>2, <2>3
<1>7. Behind(p)'
  BY <1>1, <1>5, <1>6 DEF Behind, Agrees, data, shows
<1>8. CASE SetDialogContents /\ ~(lead > 0)
  <2>1. pcG' = "contents" /\ toShow' = Shown
    BY <1>8 DEF SetDialogContents
  <2> QED
    BY <1>7, <2>1 DEF Looks, Reason
<1>9. CASE SetDialogContents /\ lead > 0
  <2>1. pcG' = "idle" /\ outer' = NoParam /\ lead' = lead
    BY <1>9 DEF SetDialogContents, LeaveUpdateData
  <2> QED
    BY <1>2, <1>7, <1>9, <2>1 DEF Looks, Reason
<1>10. CASE ContentsAreSet
  <2>1. pcG = "contents" /\ pcG' = "idle" /\ outer' = NoParam /\ toShow = {} /\ m_bSettingText /\ ~(lead > 0)
    BY <1>10 DEF ContentsAreSet, LeaveUpdateData, LockInv, IInv, TypeOK
  <2>2. Looks(p)'
    BY <1>2, <1>7, <2>1 DEF Looks
  <2>3. Reason(p)'
    BY <1>1, <1>3, <1>6, <2>1 DEF Reason, data, Changes
  <2> QED
    BY <2>2, <2>3
<1> QED
  BY <1>8, <1>9, <1>10

LEMMA ShownWidget ==
    ASSUME ParametersAssumption, WInv, UpdateNext \/ UpdatePosted
    PROVE  WidgetInv'
<1> USE DEF WInv
<1>0. access \in [ThreadId -> Access] /\ "exp" \in ThreadId
  BY DEF IInv, TypeOK, ThreadId
<1>1. PICK q \in Shown : UpdateGUI(q) /\ \/ /\ pcG = "contents" /\ q \in toShow /\ toShow' = toShow \ {q}
                                          /\ UNCHANGED <<outer, posted>>
                                         \/ /\ pcG = "idle" /\ outer' = q /\ posted' = posted \ {q}
                                            /\ toShow' = toShow
  BY DEF UpdateNext, UpdatePosted, IInv, TypeOK
<1>2. /\ UNCHANGED <<value, revision, gui_revision, shows, lead, m_bSettingText, page_lock>>
      /\ cur' = q /\ pcG' = "shown"
      /\ \A p \in Param : Changes("exp", p)' <=> Changes("exp", p)
  BY <1>0, <1>1 DEF UpdateGUI, GetRevision, Changes, ThreadId
<1> SUFFICES ASSUME NEW p \in Shown \ missed' PROVE (Looks(p) /\ Reason(p))'
  BY DEF WidgetInv
<1>3. p \in Param /\ p # NoParam /\ Looks(p) /\ Reason(p)
  BY <1>2, Ranges DEF WidgetInv, shows
<1>4. (Agrees(p)' <=> Agrees(p)) /\ (Behind(p)' <=> Behind(p))
  BY <1>2 DEF Agrees, Behind, shows
<1>5. CASE p = q
  <2>1. Behind(p)
    BY <1>1, <1>3, <1>5 DEF Looks, LockInv
  <2> QED
    BY <1>2, <1>4, <1>5, <2>1 DEF Looks, Reason
<1>6. CASE p # q
  <2>1. /\ p \in toShow' <=> p \in toShow
        /\ p \in posted' <=> p \in posted
        /\ pcG \in {"idle", "contents"} /\ (p = outer' => p = outer)
    BY <1>1, <1>6
  <2>2. Looks(p)'
    BY <1>1, <1>2, <1>3, <1>4, <1>6, <2>1 DEF Looks, LockInv
  <2>3. Reason(p)'
    BY <1>2, <1>3, <1>6, <2>1 DEF Reason
  <2> QED
    BY <2>2, <2>3
<1> QED
  BY <1>5, <1>6

LEMMA ValueWidget ==
    ASSUME ParametersAssumption, WInv, UpdateGUI_Value
    PROVE  WidgetInv'
<1> USE DEF WInv
<1>0. /\ cur \in Shown /\ pcG = "shown" /\ access["gui"].kind = "none"
      /\ UNCHANGED <<data, page, posted, cur>> /\ pcG' \in {"updated", "from_gui"}
      /\ Displayed[Displayed[val]] = Displayed[val]
      /\ widget \in [Shown -> Values] /\ gui_revision \in [Param -> Int]
  BY DEF UpdateGUI_Value, GUI_value_change, Idle, IInv, PlaceInv, TypeOK, ParametersAssumption
<1> SUFFICES ASSUME NEW p \in Shown \ missed' PROVE (Looks(p) /\ Reason(p))'
  BY DEF WidgetInv
<1>1. /\ p \in Param /\ gui_revision[p] \in Int /\ revision[p] \in Int
      /\ Displayed[widget[p]] = widget[p]
  BY Ranges
<1>2. CASE p # cur
  <2>1. Same(p) /\ p \notin missed
    BY <1>0, <1>1, <1>2 DEF UpdateGUI_Value, GUI_value_change, Same, data
  <2>2. Looks(p) /\ Reason(p)
    BY <2>1 DEF WidgetInv
  <2>3. Looks(p)'
    BY <1>0, <1>2, <2>1, <2>2 DEF Looks, Same, Behind, Agrees, page
  <2>4. Reason(p)'
    BY <1>0, <1>2, <2>1, <2>2 DEF Reason, Same, page, data, Changes
  <2> QED
    BY <2>3, <2>4
<1>3. CASE p = cur
  <2> DEFINE behind  == gui_revision[cur] < revision[cur]
             differs == val # widget[cur] /\ Displayed[val] # widget[cur]
  <2>1. val = value[cur]
    <3>1. CASE cur \in missed
      BY <1>3, <3>1 DEF UpdateGUI_Value
    <3>2. CASE cur \notin missed
      BY <1>0, <3>2 DEF ReachInv
    <3> QED
      BY <3>1, <3>2
  <2>2. CASE behind /\ differs /\ cur \in Editable
    <3>1. /\ widget' = [widget EXCEPT ![cur] = Displayed[val]] /\ pcG' = "from_gui"
          /\ gui_revision' = [gui_revision EXCEPT ![cur] = revision[cur] + 1]
      BY <2>2 DEF UpdateGUI_Value, GUI_value_change
    <3>2. gui_revision'[p] = revision[p] + 1 /\ revision' = revision
      BY <1>0, <1>1, <1>3, <3>1 DEF data
    <3>3. gui_revision'[p] > revision'[p] /\ gui_revision'[p] # revision'[p] /\ ~(gui_revision'[p] < revision'[p])
          /\ gui_revision'[p] >= revision'[p]
      BY <1>1, <3>2
    <3> QED
      BY <1>0, <1>3, <3>1, <3>3 DEF Looks, Ahead, Reason
  <2>3. CASE behind /\ differs /\ cur \notin Editable
    <3>1. /\ widget' = [widget EXCEPT ![cur] = Displayed[val]] /\ pcG' = "updated"
          /\ gui_revision' = [gui_revision EXCEPT ![cur] = revision[cur]]
      BY <2>3 DEF UpdateGUI_Value
    <3>2. gui_revision'[p] = revision'[p] /\ widget'[p] = Displayed[value'[p]] /\ revision'[p] \in Int
      BY <1>0, <1>1, <1>3, <2>1, <3>1 DEF data
    <3> QED
      BY <1>0, <1>3, <3>1, <3>2 DEF Looks, Agrees, Reason
  <2>4. CASE ~(behind /\ differs)
    <3>1. /\ widget' = widget /\ pcG' = "updated"
          /\ gui_revision' = IF behind THEN [gui_revision EXCEPT ![cur] = revision[cur]] ELSE gui_revision
      BY <2>4 DEF UpdateGUI_Value
    <3>2. gui_revision'[p] = revision'[p] /\ widget'[p] = Displayed[value'[p]] /\ revision'[p] \in Int
      <4>1. CASE behind
        <5>1. Displayed[val] = widget[cur]
          BY <1>1, <1>3, <2>4, <4>1
        <5> QED
          BY <1>0, <1>1, <1>3, <2>1, <3>1, <4>1, <5>1 DEF data
      <4>2. CASE ~behind
        <5>1. p \notin missed
          BY <4>2, <1>3 DEF UpdateGUI_Value
        <5>2. Behind(p)
          BY <1>0, <1>3, <5>1 DEF WidgetInv, Looks
        <5> QED
          BY <1>0, <1>1, <1>3, <3>1, <4>2, <5>2 DEF Behind, Agrees, data
      <4> QED
        BY <4>1, <4>2
    <3> QED
      BY <1>0, <1>3, <3>1, <3>2 DEF Looks, Agrees, Reason
  <2> QED
    BY <2>2, <2>3, <2>4
<1> QED
  BY <1>2, <1>3

LEMMA UpdatedWidget ==
    ASSUME ParametersAssumption, WInv, Updated
    PROVE  WidgetInv'
<1> USE DEF WInv
<1>0. /\ cur \in Shown /\ cur' = NoParam /\ pcG = "updated"
      /\ UNCHANGED <<data, shows, lead, m_bSettingText, page_lock, toShow, posted>>
      /\ pcG' \in {"contents", "idle"}
      /\ (m_bSettingText => outer' = outer) /\ (~m_bSettingText => outer' = NoParam)
      /\ gui_revision' = [gui_revision EXCEPT ![cur] = revision[cur]]
      /\ gui_revision \in [Param -> Int]
  BY DEF Updated, IInv, PlaceInv, TypeOK
<1> SUFFICES ASSUME NEW p \in Shown \ missed' PROVE (Looks(p) /\ Reason(p))'
  BY DEF WidgetInv
<1>1. p \in Param /\ p # NoParam /\ gui_revision[p] \in Int /\ revision[p] \in Int
  BY Ranges
<1>2. Looks(p) /\ Reason(p)
  BY <1>0 DEF WidgetInv, shows
<1>3. gui_revision'[p] = gui_revision[p]
  BY <1>0, <1>1, <1>2 DEF Looks, Agrees
<1>4. (Agrees(p)' <=> Agrees(p)) /\ (Behind(p)' <=> Behind(p)) /\ (Agrees(p) => Behind(p))
  BY <1>0, <1>1, <1>3 DEF Agrees, Behind, data, shows
<1>5. Looks(p)'
  BY <1>0, <1>1, <1>2, <1>4 DEF Looks
<1>6. Reason(p)'
  BY <1>0, <1>2, <1>3 DEF Reason, data, Changes
<1> QED
  BY <1>5, <1>6

LEMMA AccessWidget ==
    ASSUME ParametersAssumption, WInv, Fetch("gui") \/ Store("gui")
    PROVE  WidgetInv'
<1> USE DEF WInv
<1>0. access \in [ThreadId -> Access] /\ "gui" \in ThreadId /\ "exp" \in ThreadId /\ "gui" # "exp"
  BY DEF IInv, TypeOK, ThreadId
<1>1. CASE Fetch("gui")
  <2>1. PICK q \in Param, r \in Int : q = access["gui"].param /\ r = access["gui"].rev
    BY <1>0, <1>1, AccessFields DEF Fetch, IInv
  <2>2. /\ value' = [value EXCEPT ![q] = entry.value] /\ revision' = [revision EXCEPT ![q] = r]
        /\ UNCHANGED <<gui_revision, shows, page, pcG, cur, posted>>
        /\ access'["exp"] = access["exp"] /\ access["gui"].kind = "fetch"
    BY <1>0, <1>1, <2>1 DEF Fetch, shows
  <2>3. /\ pcG \in {"recalc", "shown"} /\ (pcG = "shown" => q = cur)
        /\ (pcG = "recalc" => page_lock = "gui" /\ ~m_bSettingText)
        /\ q \in Shown \ missed => r > gui_revision[q]
    BY <2>1, <2>2 DEF ReachInv, LockInv
  <2> SUFFICES ASSUME NEW p \in Shown \ missed' PROVE (Looks(p) /\ Reason(p))'
    BY DEF WidgetInv
  <2>4. p \in Param /\ gui_revision[p] \in Int /\ Looks(p) /\ Reason(p)
    BY <2>2, Ranges DEF WidgetInv, shows
  <2>5. CASE p = q
    <3>1. revision'[p] = r /\ gui_revision'[p] = gui_revision[p] /\ r > gui_revision[p]
      BY <2>2, <2>3, <2>4, <2>5 DEF IInv, TypeOK, shows
    <3>2. Behind(p)'
      BY <2>4, <3>1 DEF Behind
    <3> QED
      BY <2>2, <2>3, <2>5, <3>2 DEF Looks, Reason, page
  <2>6. CASE p # q
    <3>1. Same(p)
      BY <2>2, <2>4, <2>6 DEF Same, shows, IInv, TypeOK
    <3>2. Looks(p)'
      BY <2>2, <2>3, <2>4, <3>1 DEF Looks, Same, Behind, Agrees, page
    <3>3. Reason(p)'
      BY <2>2, <2>4, <3>1 DEF Reason, Same, page, Changes
    <3> QED
      BY <3>2, <3>3
  <2> QED
    BY <2>5, <2>6
<1>2. CASE Store("gui")
  <2>1. /\ UNCHANGED <<value, revision, gui_revision, shows, page, pcG, cur, posted>>
        /\ access'["exp"] = access["exp"]
    BY <1>0, <1>2 DEF Store, ReachInv, PostsUpdateGUI, shows
  <2> QED
    BY <2>1 DEF WidgetInv, Looks, Reason, Behind, Ahead, Agrees, shows, page, Changes
<1> QED
  BY <1>1, <1>2

LEMMA ExpWidget ==
    ASSUME ParametersAssumption, WInv, ExpStep \/ Fetch("exp") \/ Store("exp")
    PROVE  WidgetInv'
<1> USE DEF WInv
<1>1. /\ UNCHANGED <<widget, pcG, cur, outer, toShow, m_bSettingText, lead>>
      /\ missed \subseteq missed' /\ posted \subseteq posted'
      /\ page_lock = "gui" <=> page_lock' = "gui"
  BY ExpInforms
<1> SUFFICES ASSUME NEW p \in Shown \ missed' PROVE (Looks(p) /\ Reason(p))'
  BY DEF WidgetInv
<1>2. /\ Informed(p)
      /\ Changes("exp", p) /\ p \notin Scanned => p \in posted' \/ Changes("exp", p)'
  BY ExpInforms
<1>3. Looks(p) /\ Reason(p) /\ p # NoParam /\ gui_revision[p] \in Int /\ revision[p] \in Int
  BY <1>1, Ranges DEF WidgetInv
<1>4. CASE UNCHANGED <<value[p], revision[p], gui_revision[p]>>
  <2>1. Looks(p)'
    BY <1>1, <1>3, <1>4 DEF Looks, Ahead, Behind, Agrees
  <2>2. Reason(p)'
    BY <1>1, <1>2, <1>3, <1>4 DEF Reason
  <2> QED
    BY <2>1, <2>2
<1>5. CASE /\ ~Updating(p) /\ gui_revision'[p] < revision'[p]
           /\ gui_revision'[p] \in {gui_revision[p], -2}
           /\ p \in Scanned \cup ExpReads \/ Changes("exp", p)'
  <2>1. p # outer /\ ~(p = cur /\ pcG \in {"from_gui", "read", "edited", "shown", "updated"})
    BY <1>5 DEF Updating
  <2>2. revision'[p] \in Int /\ gui_revision'[p] \in Int
    BY <1>3, NextIInv, Ranges DEF Next, ThreadId, IInv, TypeOK
  <2>3. Behind(p)'
    BY <1>5, <2>2 DEF Behind
  <2> QED
    BY <1>1, <1>5, <2>1, <2>3 DEF Looks, Reason
<1> QED
  BY <1>2, <1>4, <1>5 DEF Informed

LEMMA NextWidget ==
    ASSUME ParametersAssumption, WInv, [Next]_vars
    PROVE  WidgetInv'
<1>1. CASE GuiStep
  BY <1>1, EditWidget, FromGUIWidget, ChangedWidget, RecalculateWidget, ContentsWidget, ShownWidget,
     ValueWidget, UpdatedWidget DEF GuiStep
<1>2. CASE ExpStep \/ \E t \in ThreadId : Fetch(t) \/ Store(t)
  BY <1>2, ExpWidget, AccessWidget DEF ThreadId
<1>3. CASE UNCHANGED vars
  <2>1. UNCHANGED <<data, gui_revision, shows, page, pcG, cur, posted>>
    BY <1>3 DEF vars
  <2> SUFFICES ASSUME NEW p \in Shown \ missed' PROVE (Looks(p) /\ Reason(p))'
    BY DEF WidgetInv
  <2>2. Looks(p) /\ Reason(p)
    BY <2>1 DEF WInv, WidgetInv, shows
  <2>3. Looks(p)'
    BY <2>1, <2>2 DEF Looks, Behind, Ahead, Agrees, data, shows, page
  <2>4. Reason(p)'
    BY <2>1, <2>2 DEF Reason, Changes, data, page
  <2> QED
    BY <2>3, <2>4
<1> QED
  BY <1>1, <1>2, <1>3 DEF Next

\* When everything has been handled, every widget that missed no change shows its parameter, or
\* is known not to and will be redrawn when what the user entered is taken over, unless scans
\* or experiments that only read are the cause.
THEOREM PageShowsCopies == Spec => []WidgetsAgree
<1> USE ParametersAssumption
<1>1. Init => WInv
  <2> SUFFICES ASSUME Init PROVE LockInv /\ ReachInv /\ ShowInv /\ WidgetInv
    BY InitIInv DEF WInv
  <2>1. LockInv
    <3>1. lead <= 0
      BY DEF Init
    <3> QED
      BY <3>1, Zenon DEF Init, LockInv
  <2>2. ReachInv
    BY DEF Init, ReachInv, None, ThreadId
  <2>3. ShowInv /\ WidgetInv
    <3> SUFFICES ASSUME NEW p \in Shown
                 PROVE  Displayed[widget[p]] = widget[p] /\ Looks(p) /\ Reason(p)
      BY DEF ShowInv, WidgetInv
    <3>1. p \in Param
      BY DEF ParametersAssumption
    <3>2. widget[p] = entry.value /\ value[p] = entry.value /\ Displayed[entry.value] = entry.value
      BY <3>1 DEF Init
    <3>3. gui_revision[p] = 0 /\ revision[p] = 0 /\ pcG = "idle" /\ outer = NoParam /\ p # NoParam
      BY <3>1 DEF Init, ParametersAssumption
    <3> QED
      BY <3>2, <3>3 DEF Looks, Reason, Behind, Agrees
  <2> QED
    BY <2>1, <2>2, <2>3
<1>2. WInv /\ [Next]_vars => WInv'
  <2> SUFFICES ASSUME WInv, [Next]_vars PROVE WInv'
    OBVIOUS
  <2>1. IInv'
    BY NextIInv DEF WInv
  <2> QED
    BY <2>1, NextLock, NextReach, NextShow, NextWidget DEF WInv
<1>3. WInv => WidgetsAgree
  <2> SUFFICES ASSUME WInv, Settled, NEW p \in Shown \ missed
               PROVE  \/ widget[p] = Displayed[value[p]]
                      \/ gui_revision[p] < revision[p] /\ (lead > 0 \/ p \in Scanned \cup ExpReads)
    BY DEF WidgetsAgree
  <2>1. /\ pcG = "idle" /\ page_lock = "free" /\ posted = {} /\ outer = NoParam /\ ~m_bSettingText
        /\ toShow = {} /\ ~Changes("exp", p)
    BY DEF Settled, WInv, LockInv, Idle, ThreadId, Changes
  <2>2. p # NoParam /\ gui_revision[p] \in Int /\ revision[p] \in Int
    BY Ranges
  <2>3. Behind(p) /\ Reason(p)
    BY <2>1, <2>2 DEF WInv, WidgetInv, Looks
  <2> QED
    BY <2>1, <2>2, <2>3 DEF Behind, Agrees, Reason
<1> QED
  BY <1>1, <1>2, <1>3, PTL DEF Spec
=============================================================================
