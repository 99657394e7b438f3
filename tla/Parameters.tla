----------------------------- MODULE Parameters -----------------------------
(***************************************************************************)
(* One entry of the parameter data base (InputParameters), the parameter  *)
(* objects linked to it, and a page that shows some of them in widgets    *)
(* (InputParametersGUI.h, ParameterGUI_Base, TxtParametersGUI).           *)
(*                                                                         *)
(* Each object caches the value and says by its revision how new the copy *)
(* is; gui_revision says the same of the widget.  The GUI thread lets the *)
(* user edit, recalculates and redraws; the scheduler thread lets         *)
(* experiments read and set parameters, through objects of their own or   *)
(* those of the page.  The mutex of the data base protects one access;    *)
(* reading and setting a parameter take two.                              *)
(***************************************************************************)
EXTENDS Integers

CONSTANTS
    Param,       \* the parameter objects
    Shown,       \* those that have a widget on the page
    ReadOnly,    \* those of them with RP_FLAG_READ_ONLY
    PageSets,    \* those RecalculateParameters of the page sets
    ExpReads,    \* those experiments read
    ExpSets,     \* those experiments set
    Scanned,     \* those of them a ScanSource sets and restores
    Values,
    Written,     \* a value after it was written as text and read again
    Displayed,   \* a value as the widget shows it, rounded to its decimals
    SignalsMeetLock, \* may a widget change while an experiment holds the page lock?
    NoParam,
    MaxRevision, \* bound of the revisions
    MaxLead,     \* bound of changes the page has not taken over
    MaxRecalculations \* bound of the repetitions in UpdateData, 9 in the code

ThreadId == {"gui", "exp"}
Editable == Shown \ ReadOnly
\* The objects whose SetValue a thread calls: a widget calls it for every change it signals.
Sets(t)  == IF t = "gui" THEN Editable \cup PageSets ELSE ExpSets

ASSUME ParametersAssumption ==
    /\ ReadOnly \subseteq Shown /\ Shown \subseteq Param /\ PageSets \subseteq Param
    /\ ExpReads \subseteq Param /\ ExpSets \subseteq Param /\ Scanned \subseteq ExpSets
    /\ Written \in [Values -> Values] /\ \A v \in Values : Written[Written[v]] = Written[v]
    /\ Displayed \in [Values -> Values]
    /\ \A v \in Values : Displayed[Displayed[v]] = Displayed[v]
    /\ SignalsMeetLock \in BOOLEAN /\ NoParam \notin Param /\ "data" \notin Param
    /\ Values # {}
    /\ MaxRevision \in Nat /\ MaxLead \in Nat /\ MaxRecalculations \in Nat

VARIABLES
    entry,         \* ip_data: value and revision in the data base
    value, revision, gui_revision,  \* of each object
    widget,        \* what each widget shows
    access,        \* per thread: the access to a parameter between its two halves
    val,           \* the local of UpdateGUI_Value
    lead,          \* GUI_Revision - DataRevision of the page
    m_bSettingText, page_lock,
    pcG,           \* where the GUI thread is
    cur,           \* the object it is at, if any
    outer,         \* the object of a queued UpdateGUI
    toShow,        \* what SetDialogContents has still to show
    posted,        \* queued UpdateGUI of an object, or UpdateData
    \* history
    strayed,       \* objects whose revision may not tell any more how new their copy is
    missed         \* objects that changed behind the back of their widget

data == <<entry, value, revision, access, strayed>>
shows == <<widget, missed>>
page == <<lead, m_bSettingText, page_lock, outer, toShow>>
vars == <<data, gui_revision, shows, val, page, pcG, cur, posted>>

Unused == CHOOSE v \in Values : TRUE  \* val outside of UpdateGUI_Value

None == [kind |-> "none", param |-> NoParam, rev |-> 0]
Access ==
    {None}
      \cup [kind : {"fetch"}, param : Param, rev : Int]
      \cup [kind : {"store", "restore"}, param : Param, v : Values]
Places == {"idle", "from_gui", "read", "edited", "recalc", "contents", "shown", "updated"}

TypeOK ==
    /\ entry \in [value : Values, revision : Nat]
    /\ value \in [Param -> Values] /\ revision \in [Param -> Int]
    /\ gui_revision \in [Param -> Int] /\ widget \in [Shown -> Values]
    /\ access \in [ThreadId -> Access] /\ val \in Values
    /\ lead \in Int /\ m_bSettingText \in BOOLEAN /\ page_lock \in {"free", "gui", "exp"}
    /\ pcG \in Places /\ cur \in Param \cup {NoParam} /\ outer \in Shown \cup {NoParam}
    /\ toShow \subseteq Shown /\ posted \subseteq Shown \cup {"data"}
    /\ strayed \subseteq Param /\ missed \subseteq Param

\* The window has been built and InitWindow has shown every parameter.
Init ==
    /\ entry \in [value : {v \in Values : Written[v] = v /\ Displayed[v] = v}, revision : {0}]
    /\ value = [p \in Param |-> entry.value] /\ revision = [p \in Param |-> 0]
    /\ gui_revision = revision /\ widget = [p \in Shown |-> entry.value]
    /\ access = [t \in ThreadId |-> None] /\ val = Unused
    /\ lead = 0 /\ m_bSettingText = FALSE /\ page_lock = "free"
    /\ pcG = "idle" /\ cur = NoParam /\ outer = NoParam /\ toShow = {} /\ posted = {}
    /\ strayed = {} /\ missed = {}

------------------------------------------------------------------------------
(* Accesses to a parameter. *)

Idle(t)    == access[t].kind = "none"
Bounded(p) == entry.revision < MaxRevision /\ revision[p] < MaxRevision

\* The other thread is between the halves of an access to p, or of a change of it.
Other(t)       == CHOOSE u \in ThreadId : u # t
Meets(t, p)    == access[Other(t)].param = p
Changes(t, p)  == access[t].kind \in {"store", "restore"} /\ access[t].param = p

\* Value() compares the revisions; it is done if the copy is new enough.
GetRevision(t, p) ==
    /\ Idle(t)
    /\ IF entry.revision > revision[p]
         THEN /\ access' = [access EXCEPT ![t] = [kind |-> "fetch", param |-> p, rev |-> entry.revision]]
              /\ strayed' = IF Changes(Other(t), p) THEN strayed \cup {p} ELSE strayed
         ELSE UNCHANGED <<access, strayed>>
    /\ UNCHANGED <<entry, value, revision>>

\* The GUI thread is updating the widget of p, and will take it for up to date.
Updating(p) == p = outer \/ (p = cur /\ pcG \in {"from_gui", "read", "edited", "shown", "updated"})

\* The rest of UpdateValueFromBackend, with the revision read before.
Fetch(t) ==
    LET p == access[t].param IN
    /\ access[t].kind = "fetch"
    /\ value' = [value EXCEPT ![p] = entry.value]
    /\ revision' = [revision EXCEPT ![p] = access[t].rev]
    /\ access' = [access EXCEPT ![t] = None]
    /\ strayed' = IF Changes(Other(t), p) THEN strayed ELSE strayed \ {p}
    /\ val' = IF t = "gui" /\ pcG = "shown" THEN entry.value ELSE val
    /\ missed' = IF t = "exp" /\ (Updating(p) \/ access[t].rev <= gui_revision[p])
                   THEN missed \cup {p} ELSE missed
    /\ UNCHANGED <<entry, gui_revision, widget, page, pcG, cur, posted>>

\* SetValue compares with the copy and changes it; the entry follows in Store.
SetValue(t, p, v, kind) ==
    /\ Idle(t)
    /\ IF value[p] = v
         THEN UNCHANGED <<value, revision, access, strayed>>
         ELSE /\ value' = [value EXCEPT ![p] = v]
              /\ revision' = [revision EXCEPT ![p] = @ + 1]
              /\ access' = [access EXCEPT ![t] = [kind |-> kind, param |-> p, v |-> v]]
              /\ strayed' = IF Meets(t, p) THEN strayed \cup {p} ELSE strayed
    /\ UNCHANGED entry

\* UpdatePair with new_revision = -1.
UpdatePair(v) ==
    IF Written[v] = entry.value THEN entry
    ELSE [value |-> Written[v], revision |-> entry.revision + 1]

\* Experiments have the widget updated when they have set a parameter, but for scans.
PostsUpdateGUI(t, p) == t = "exp" /\ p \in Shown \ Scanned

Store_OwnRevision(t) ==
    LET p == access[t].param IN
    /\ access[t].kind \in {"store", "restore"}
    /\ entry' = [value |-> Written[access[t].v], revision |-> revision[p]]
    /\ access' = [access EXCEPT ![t] = None]
    /\ UNCHANGED <<value, revision, strayed, gui_revision, shows, val, page, pcG, cur, posted>>

\* UpdatePair, and what the caller does next: PostUpdateGUI, or the end of setDefaultValue.
Store(t) ==
    LET p == access[t].param IN
    /\ access[t].kind \in {"store", "restore"}
    /\ entry' = UpdatePair(access[t].v)
    /\ access' = [access EXCEPT ![t] = None]
    /\ IF access[t].kind = "restore"
         THEN /\ revision' = [revision EXCEPT ![p] = -1]
              /\ gui_revision' = [gui_revision EXCEPT ![p] = -2]
              /\ strayed' = IF Changes(Other(t), p) THEN strayed ELSE strayed \ {p}
              /\ missed' = IF Updating(p) THEN missed \cup {p} ELSE missed
         ELSE /\ strayed' = IF entry' = entry /\ revision[p] > entry.revision
                              THEN strayed \cup {p} ELSE strayed
              /\ UNCHANGED <<revision, gui_revision, missed>>
    /\ posted' = IF PostsUpdateGUI(t, p) THEN posted \cup {p} ELSE posted
    /\ UNCHANGED <<value, widget, val, page, pcG, cur>>

------------------------------------------------------------------------------
(* The GUI thread: GUI_value_change. *)

GUI_value_change_NotCounted(p, g) ==
    /\ gui_revision' = [gui_revision EXCEPT ![p] = g]
    /\ cur' = p /\ pcG' = "from_gui"

\* GUI_value_change, called by a widget that has changed.
GUI_value_change(p, g) ==
    /\ gui_revision' = [gui_revision EXCEPT ![p] = g + 1]
    /\ cur' = p /\ pcG' = "from_gui"

UserEdit(p, v) ==
    /\ pcG = "idle" /\ p \in Editable /\ v # widget[p] /\ Displayed[v] = v
    /\ SignalsMeetLock \/ page_lock = "free"
    /\ lead < MaxLead /\ Bounded(p)
    /\ widget' = [widget EXCEPT ![p] = v]
    /\ missed' = IF gui_revision[p] < revision[p] THEN missed \cup {p} ELSE missed
    /\ GUI_value_change(p, gui_revision[p])
    /\ UNCHANGED <<data, val, page, posted>>

\* In GetDialogContents the page is locked and UpdateFromGUI comes a second time.
AfterUpdateFromGUI ==
    IF page_lock = "gui" /\ ~m_bSettingText THEN "recalc" ELSE "edited"

UpdateFromGUI ==
    /\ pcG = "from_gui"
    /\ IF gui_revision[cur] > revision[cur]
         THEN SetValue("gui", cur, widget[cur], "store") /\ pcG' = "read"
         ELSE UNCHANGED data /\ pcG' = AfterUpdateFromGUI
    /\ UNCHANGED <<gui_revision, shows, val, page, cur, posted>>

ReadFromGUI ==
    /\ pcG = "read" /\ Idle("gui")
    /\ gui_revision' = [gui_revision EXCEPT ![cur] = revision[cur]]
    /\ pcG' = AfterUpdateFromGUI
    /\ UNCHANGED <<data, shows, val, page, cur, posted>>

\* OnEditChange and GetDialogContents, which gives up if the page is locked.
OnEditChange ==
    LET InUpdateGUI == m_bSettingText \/ outer # NoParam IN
    /\ pcG = "edited"
    /\ IF ~m_bSettingText /\ lead >= 0 /\ page_lock = "free"
         THEN page_lock' = "gui" /\ lead' = 0 /\ pcG' = "from_gui"
         ELSE /\ lead' = IF ~m_bSettingText /\ lead >= 0 THEN lead + 1 ELSE lead
              /\ pcG' = IF InUpdateGUI THEN "updated" ELSE "idle"
              /\ UNCHANGED page_lock
    /\ cur' = IF pcG' = "idle" THEN NoParam ELSE cur
    /\ UNCHANGED <<data, gui_revision, shows, val, m_bSettingText, outer, toShow, posted>>

------------------------------------------------------------------------------
(* The GUI thread: UpdateData, SetDialogContents, UpdateGUI. *)

UpdateData ==
    /\ pcG = "idle" /\ "data" \in posted /\ page_lock = "free"
    /\ posted' = posted \ {"data"} /\ page_lock' = "gui" /\ pcG' = "recalc"
    /\ UNCHANGED <<data, gui_revision, shows, val, lead, m_bSettingText, outer, toShow, cur>>

\* RecalculateParameters may read and set parameters; if it says that something
\* changed the data get a new revision and it is called again.
Recalculate ==
    /\ pcG = "recalc" /\ Idle("gui")
    /\ \/ \E p \in Param : GetRevision("gui", p) /\ UNCHANGED lead
       \/ \E p \in PageSets, v \in Values :
             Bounded(p) /\ SetValue("gui", p, v, "store") /\ UNCHANGED lead
       \/ lead > -MaxRecalculations /\ lead' = lead - 1 /\ UNCHANGED data
    /\ UNCHANGED <<gui_revision, shows, val, m_bSettingText, page_lock, outer, toShow,
                   pcG, cur, posted>>

\* The end of UpdateData, and of a queued UpdateGUI it was called from.
LeaveUpdateData ==
    /\ page_lock' = "free" /\ pcG' = "idle" /\ outer' = NoParam /\ cur' = NoParam
    /\ gui_revision' = IF outer = NoParam THEN gui_revision
                       ELSE [gui_revision EXCEPT ![outer] = revision[outer]]

SetDialogContents ==
    /\ pcG = "recalc" /\ Idle("gui")
    /\ IF lead > 0
         THEN LeaveUpdateData /\ UNCHANGED <<m_bSettingText, toShow>>
         ELSE /\ m_bSettingText' = TRUE /\ toShow' = Shown /\ pcG' = "contents"
              /\ UNCHANGED <<gui_revision, page_lock, outer, cur>>
    /\ UNCHANGED <<data, shows, val, lead, posted>>

ContentsAreSet ==
    /\ pcG = "contents" /\ toShow = {}
    /\ m_bSettingText' = FALSE /\ lead' = 0
    /\ LeaveUpdateData
    /\ UNCHANGED <<data, shows, val, toShow, posted>>

\* UpdateGUI of a parameter up to the value that Value() returns.
UpdateGUI(p) ==
    /\ GetRevision("gui", p)
    /\ cur' = p /\ val' = value[p] /\ pcG' = "shown"
    /\ UNCHANGED <<gui_revision, shows, lead, m_bSettingText, page_lock>>

UpdateNext ==
    /\ pcG = "contents"
    /\ \E p \in toShow : UpdateGUI(p) /\ toShow' = toShow \ {p}
    /\ UNCHANGED <<outer, posted>>

UpdatePosted ==
    /\ pcG = "idle" /\ (SignalsMeetLock \/ page_lock = "free")
    /\ \E p \in posted \cap Shown : UpdateGUI(p) /\ outer' = p /\ posted' = posted \ {p}
    /\ UNCHANGED toShow

\* The rest of UpdateGUI_Value.  A widget that changes signals it like an edit.
UpdateGUI_Value ==
    /\ pcG = "shown" /\ Idle("gui")
    /\ IF gui_revision[cur] < revision[cur] /\ val # widget[cur] /\ Displayed[val] # widget[cur]
         THEN /\ widget' = [widget EXCEPT ![cur] = Displayed[val]]
              /\ IF cur \in Editable
                   THEN GUI_value_change(cur, revision[cur])
                   ELSE /\ gui_revision' = [gui_revision EXCEPT ![cur] = revision[cur]]
                        /\ pcG' = "updated" /\ UNCHANGED cur
         ELSE /\ gui_revision' = IF gui_revision[cur] < revision[cur]
                                   THEN [gui_revision EXCEPT ![cur] = revision[cur]] ELSE gui_revision
              /\ pcG' = "updated" /\ UNCHANGED <<widget, cur>>
    /\ missed' = IF gui_revision[cur] < revision[cur] /\ val = value[cur] THEN missed \ {cur} ELSE missed
    /\ val' = Unused
    /\ UNCHANGED <<data, page, posted>>

\* The last line of UpdateGUI.
Updated ==
    /\ pcG = "updated"
    /\ gui_revision' = [gui_revision EXCEPT ![cur] = revision[cur]]
    /\ pcG' = IF m_bSettingText THEN "contents" ELSE "idle"
    /\ outer' = IF m_bSettingText THEN outer ELSE NoParam
    /\ cur' = NoParam
    /\ UNCHANGED <<data, shows, val, lead, m_bSettingText, page_lock, toShow, posted>>

------------------------------------------------------------------------------
(* The scheduler thread. *)

gui == <<gui_revision, widget, val, lead, m_bSettingText, outer, toShow, pcG, cur>>

ExpValue(p) == p \in ExpReads /\ GetRevision("exp", p) /\ UNCHANGED <<gui, missed, page_lock, posted>>

\* SetValue of an experiment.
ByExp(p, v, kind) ==
    /\ Bounded(p)
    /\ SetValue("exp", p, v, kind)
    /\ missed' = IF value[p] # v /\ Updating(p) THEN missed \cup {p} ELSE missed
    /\ UNCHANGED <<gui, page_lock>>

\* This includes SetScanOutput of a ScanSource.
ExpSetValue(p, v) ==
    /\ p \in ExpSets /\ ByExp(p, v, "store")
    /\ posted' = IF value[p] = v /\ PostsUpdateGUI("exp", p) THEN posted \cup {p} ELSE posted

\* setDefaultValue of a ScanSource; if the value changes, Store completes it.
setDefaultValue(p, v) ==
    /\ p \in Scanned
    /\ \/ value[p] # v /\ ByExp(p, v, "restore")
       \/ /\ value[p] = v /\ Idle("exp")
          /\ revision' = [revision EXCEPT ![p] = -1]
          /\ gui_revision' = [gui_revision EXCEPT ![p] = -2]
          /\ strayed' = IF Changes("gui", p) THEN strayed ELSE strayed \ {p}
          /\ missed' = IF Updating(p) THEN missed \cup {p} ELSE missed
          /\ UNCHANGED <<entry, value, access, widget, val, page, pcG, cur>>
    /\ UNCHANGED posted

PostUpdateData ==
    Idle("exp") /\ posted' = posted \cup {"data"} /\ UNCHANGED <<data, gui, missed, page_lock>>

PostUpdateGUI(p) ==
    Idle("exp") /\ posted' = posted \cup {p} /\ UNCHANGED <<data, gui, missed, page_lock>>

\* InitExperimentStart, FinishRun, DoCalibration hold the page lock for a while.
ExpLock ==
    /\ page_lock = "free" /\ (SignalsMeetLock \/ pcG = "idle")
    /\ page_lock' = "exp" /\ UNCHANGED <<data, gui, missed, posted>>
ExpUnlock == Idle("exp") /\ page_lock = "exp" /\ page_lock' = "free" /\ UNCHANGED <<data, gui, missed, posted>>

------------------------------------------------------------------------------
GuiStep ==
    \/ \E p \in Editable, v \in Values : UserEdit(p, v)
    \/ UpdateFromGUI \/ ReadFromGUI \/ OnEditChange
    \/ UpdateData \/ Recalculate \/ SetDialogContents \/ ContentsAreSet
    \/ UpdateNext \/ UpdatePosted \/ UpdateGUI_Value \/ Updated

ExpStep ==
    \/ \E p \in Param : ExpValue(p)
    \/ \E p \in Param, v \in Values : ExpSetValue(p, v) \/ setDefaultValue(p, v)
    \/ PostUpdateData \/ \E p \in Shown : PostUpdateGUI(p)
    \/ ExpLock \/ ExpUnlock

Next == GuiStep \/ ExpStep \/ \E t \in ThreadId : Fetch(t) \/ Store(t)

Spec == Init /\ [][Next]_vars

------------------------------------------------------------------------------
(* What should hold. *)

\* If Value() takes the copy of an object for new enough, the copy is what the data base
\* holds, as far as the text keeps it, or what a thread is about to store there.  This fails
\* only for an object that strayed, until its next undisturbed fetch: both threads were in
\* the middle of accesses to it and one of them changed it, as a ScanSource does with the
\* object the user edits; or a change that the text does not show raised its revision above
\* that of the entry, and the next change by another object stays unnoticed.
\* Code: the revisions in Parameter::SetValue, UpdateValueFromBackend and UpdatePair.
Coherent ==
    \A p \in Param \ strayed : revision[p] >= entry.revision =>
        \/ Written[value[p]] = entry.value
        \/ \E t \in ThreadId : Changes(t, p) /\ access[t].v = value[p]

\* When both threads have nothing left to do, every widget shows its parameter, or its
\* revision says that it does not, so that the next UpdateGUI redraws it; the latter only
\* for what is scanned or read by experiments, which post no UpdateGUI, or while the page
\* has not taken over an edit.  The widget is wrong and nobody knows only for an object
\* missed: an experiment changed it while the GUI thread was updating its widget, or had
\* fetched it for longer than the page took to show it, or the user edited it before the
\* page had shown the change.
\* Code: gui_revision in GUI_value_change, UpdateFromGUI, UpdateGUI_Value and UpdateGUI.
Settled ==
    /\ pcG = "idle" /\ page_lock = "free" /\ posted = {}
    /\ \A t \in ThreadId : Idle(t)
WidgetsAgree ==
    Settled => \A p \in Shown \ missed :
        \/ widget[p] = Displayed[value[p]]
        \/ gui_revision[p] < revision[p] /\ (lead > 0 \/ p \in Scanned \cup ExpReads)
=============================================================================
