---------------------------- MODULE Calibrations ----------------------------
(***************************************************************************)
(* Calibrations.  A page that wants lines or motors calibrated keeps a     *)
(* list of items and has a calibration page (an ExpSCAN) measure them one  *)
(* by one.  A transition page (MgPage, Al3P1Page) does it inside its own   *)
(* time slices, with a run object it owns; an alignment page starts the    *)
(* calibration page like the user would and is started again when that has *)
(* finished.  DoCalibration waits for the GUI thread to recalculate the    *)
(* page; the end of a calibration calls the GUI thread under the lock of   *)
(* the calibration page, and under the scheduler's lock after a STOP.      *)
(*                                                                         *)
(* The scheduler picks any listed object; ScanScheduler says which.  A     *)
(* pointer to the first item of a list means whatever item is there:       *)
(* clear() and push_back() leave the storage where it was.                 *)
(***************************************************************************)
EXTENDS Naturals, Sequences, FiniteSets, Functions

CONSTANTS
    Trans, Align,   \* the pages that ask for calibrations
    Cal,            \* the calibration page, and its run object in the scheduler's list
    Owned,          \* the run object of the calibration page that Trans owns
    Items,          \* Items[p]: what page p has calibrated after RUN
    Nil,
    UserMay,        \* what the user does while a calibration is under way: "stop",
                    \* "select" its tab, "recalibrate", "share" the calibration page
    MaxClicks       \* bound: clicks of the user

Pages  == {Trans, Align, Cal}
RunObj == {Trans, Align, Cal, Owned}
Item   == Range(Items[Trans]) \cup Range(Items[Align])

ASSUME CalibrationsAssumption ==
    /\ Trans # Align /\ Cal \notin {Trans, Align} /\ Owned \notin {Trans, Align, Cal}
    /\ Nil \notin {Trans, Align, Cal, Owned} \cup Item
    /\ Items[Trans] \in Seq(Item) /\ Items[Align] \in Seq(Item)
    /\ UserMay \subseteq {"stop", "select", "recalibrate", "share"}
    /\ MaxClicks \in Nat

VARIABLES
    \* the lists, and the calibration page
    queue,       \* calibrations of Trans, cal of Align
    cci,         \* the page whose first item cci points to
    params,      \* the item the parameters of the page are set for
    scan,        \* the item pScan measures
    \* run objects
    listed,      \* interleaved_experiments
    owned,       \* Trans's object owns Owned
    pRunObject,  \* of the calibration page
    fresh,       \* num_time_slices is 0
    finished,    \* IsFinished()
    \* the scheduler thread
    pcS, cur,
    obj,         \* Cal or Owned, when the code of the calibration page runs
    dying,       \* in the destructor of cur
    schedLock,   \* csChangeInterleavedExperiments
    pageLock,    \* page_lock of the calibration page, held by FinishRun
    mutexPU,     \* held by DoCalibration
    woken,       \* page_updated has been signalled
    \* the GUI thread
    pcG, page,
    events,      \* its queue: UpdateData of the calibration page, blocking calls
    clicks,
    stopped      \* history: the user pressed STOP

listVars == <<queue, cci, params, scan>>
objVars  == <<listed, owned, pRunObject, fresh, finished>>
lockVars == <<schedLock, pageLock, mutexPU, woken>>
guiVars  == <<pcG, page, clicks, stopped>>
vars == <<listVars, objVars, pcS, cur, obj, dying, lockVars, guiVars, events>>

Suffixes(s) == {SubSeq(s, i, Len(s)) : i \in 1 .. Len(s) + 1}
IsWaiting   == pcS \in {"dc_wait", "target", "plots", "report"}

TypeOK ==
    /\ queue[Trans] \in Suffixes(Items[Trans]) \cup {<<i>> : i \in Range(Items[Trans])}
    /\ queue[Align] \in Suffixes(Items[Align])
    /\ cci \in {Nil, Trans, Align} /\ params \in Item \cup {Nil} /\ scan \in Item \cup {Nil}
    /\ listed \subseteq Pages /\ owned \in BOOLEAN /\ pRunObject \in {Cal, Owned}
    /\ fresh \cup finished \subseteq listed \cup {cur} \cup (IF owned THEN {Owned} ELSE {})
    /\ pcS \in {"pick", "init", "loop", "dc_set", "dc_post", "dc_wait", "target", "plots",
                "calrun", "over", "finish", "report", "gone"}
    /\ cur \in Pages \cup {Nil} /\ obj \in {Cal, Owned, Nil} /\ dying \in BOOLEAN
    /\ schedLock \in BOOLEAN /\ pageLock \in BOOLEAN /\ mutexPU \in BOOLEAN
    /\ woken \in BOOLEAN
    /\ pcG \in {"idle", "start", "buttons", "update"} /\ page \in Pages \cup {Nil}
    /\ events \in Seq({"update", "call"}) /\ Len(events) <= 5
    /\ clicks \in 0 .. MaxClicks /\ stopped \in BOOLEAN

Init ==
    /\ queue = [p \in {Trans, Align} |-> <<>>] /\ cci = Nil /\ params = Nil /\ scan = Nil
    /\ listed = {} /\ owned = FALSE /\ pRunObject = Cal /\ fresh = {} /\ finished = {}
    /\ pcS = "pick" /\ cur = Nil /\ obj = Nil /\ dying = FALSE
    /\ schedLock = FALSE /\ pageLock = FALSE /\ mutexPU = FALSE /\ woken = FALSE
    /\ pcG = "idle" /\ page = Nil /\ events = <<>> /\ clicks = 0 /\ stopped = FALSE

-----------------------------------------------------------------------------
(* A definition whose name ends in _Something is a plausible slip in the      *)
(* definition that follows it.                                                *)

Post(e) == events' = Append(events, e)

\* A blocking queued call returns when the GUI thread has served it.
Returned == "call" \notin Range(events)

\* MgPage::InitExperimentStart, Al3P1Page::InitExperimentStart
FillList_Appends == queue' = [queue EXCEPT ![Trans] = @ \o Items[Trans]]
FillList ==
    queue' = [queue EXCEPT ![Trans] = IF @ = <<>> THEN Items[Trans] ELSE @]

\* StartExperiments of one page, which the scheduler ignores if it is listed.
Start(p) ==
    IF p \in listed
      THEN UNCHANGED <<listed, fresh, finished, pRunObject>>
      ELSE /\ listed' = listed \cup {p}
           /\ fresh' = fresh \cup {p} /\ finished' = finished \ {p}
           /\ pRunObject' = IF p = Cal THEN Cal ELSE pRunObject

-----------------------------------------------------------------------------
(* The scheduler thread: one turn of its loop. *)

Pick(r) ==
    /\ pcS = "pick" /\ r \in listed
    /\ cur' = r /\ pcS' = IF r \in fresh THEN "init" ELSE "loop"
    /\ UNCHANGED <<listVars, objVars, obj, dying, lockVars, guiVars, events>>

\* InitExperimentStart of the current page, in its first slice or in the destructor of
\* an object that had none.
InitExperimentStart ==
    /\ pcS = "init"
    /\ \/ /\ cur = Trans
          /\ FillList
          /\ pcS' = IF dying THEN "gone" ELSE "loop"
          /\ UNCHANGED <<obj, events>>
       \/ /\ cur = Align
          /\ pcS' = IF queue[Align] # <<>> THEN "dc_set" ELSE IF dying THEN "gone" ELSE "loop"
          /\ UNCHANGED <<queue, obj, events>>
       \/ /\ cur = Cal
          /\ pcS' = "plots" /\ obj' = Cal /\ Post("call")
          /\ UNCHANGED queue
    /\ UNCHANGED <<cci, params, scan, objVars, cur, dying, lockVars, guiVars>>

\* signal_setup_plots has returned: CreateScan takes the parameters as they are.  A
\* destructor goes on with FinishRun.
CreateScan ==
    /\ pcS = "plots" /\ Returned
    /\ scan' = params
    /\ pcS' = IF dying \/ (obj = Owned /\ Owned \notin fresh) THEN "finish"
              ELSE IF obj = Owned THEN "calrun" ELSE "loop"
    /\ UNCHANGED <<queue, cci, params, objVars, cur, obj, dying, lockVars, guiVars, events>>

\* The loop of RunTimeSlice.  A transition page runs the object it owns without looking
\* at the time, and deletes it when it has finished.
LoopOver ==
    /\ pcS = "loop"
    /\ cur \in finished \/ cur = Cal
    /\ pcS' = "over"
    /\ UNCHANGED <<listVars, objVars, cur, obj, dying, lockVars, guiVars, events>>

RunCal ==
    /\ pcS = "loop" /\ cur = Cal /\ cur \notin finished
    /\ pcS' = "calrun" /\ obj' = Cal
    /\ UNCHANGED <<listVars, objVars, cur, dying, lockVars, guiVars, events>>

RunAlign ==
    /\ pcS = "loop" /\ cur = Align /\ cur \notin finished
    /\ fresh' = fresh \ {cur} /\ finished' = finished \cup {cur}
    /\ UNCHANGED <<listVars, listed, owned, pRunObject, pcS, cur, obj, dying, lockVars,
                   guiVars, events>>

\* The object it owns has its time slice, or is deleted when it has finished; either way
\* it is initialized first if it had no slice yet.
RunOwned ==
    /\ pcS = "loop" /\ cur = Trans /\ cur \notin finished /\ owned
    /\ obj' = Owned
    /\ fresh' = IF Owned \in finished THEN fresh \ {cur, Owned} ELSE fresh \ {cur}
    /\ IF Owned \in fresh          THEN pcS' = "plots" /\ Post("call")
       ELSE IF Owned \in finished  THEN pcS' = "finish" /\ UNCHANGED events
       ELSE pcS' = "calrun" /\ UNCHANGED events
    /\ UNCHANGED <<listVars, listed, owned, pRunObject, finished, cur, dying, lockVars,
                   guiVars>>

\* TransitionPage::Run
RunTrans ==
    /\ pcS = "loop" /\ cur = Trans /\ cur \notin finished /\ ~owned
    /\ fresh' = fresh \ {cur}
    /\ IF queue[Trans] = <<>>
         THEN finished' = finished \cup {cur} /\ UNCHANGED <<pcS, events>>
         ELSE /\ events' = events \o <<"update", "call">>
              /\ pcS' = "target" /\ UNCHANGED finished
    /\ UNCHANGED <<listVars, listed, owned, pRunObject, cur, obj, dying, lockVars, guiVars>>

\* sigSelectScanTarget has returned.
TargetSelected ==
    /\ pcS = "target" /\ Returned
    /\ pcS' = "dc_set"
    /\ UNCHANGED <<listVars, objVars, cur, obj, dying, lockVars, guiVars, events>>

\* One call of Run() of the scan; the page of an owned object stops when its owner does.
ScanPoint ==
    /\ pcS = "calrun"
    /\ IF obj \in finished \/ cur \in finished
         THEN UNCHANGED <<fresh, finished>>
         ELSE fresh' = fresh \ {obj} /\ finished' \in {finished, finished \cup {obj}}
    /\ pcS' = "loop" /\ obj' = Nil
    /\ UNCHANGED <<listVars, listed, owned, pRunObject, cur, dying, lockVars, guiVars, events>>

-----------------------------------------------------------------------------
(* ExpSCAN::DoCalibration *)

SetCurrentScan_OnlyOnce ==
    /\ pcS = "dc_set"
    /\ cci' = cur /\ params' = IF params = Nil THEN Head(queue[cur]) ELSE params
    /\ pcS' = "dc_post"
    /\ UNCHANGED <<queue, scan, objVars, cur, obj, dying, lockVars, guiVars, events>>

SetCurrentScan ==
    /\ pcS = "dc_set"
    /\ cci' = cur /\ params' = Head(queue[cur])
    /\ pcS' = "dc_post"
    /\ UNCHANGED <<queue, scan, objVars, cur, obj, dying, lockVars, guiVars, events>>

\* mutexPU is locked before the update is posted, so that its wakeAll comes after wait.
LockAndPost ==
    /\ pcS = "dc_post"
    /\ mutexPU' = TRUE /\ Post("update")
    /\ pcS' = "dc_wait"
    /\ UNCHANGED <<listVars, objVars, cur, obj, dying, schedLock, pageLock, woken, guiVars>>

\* page_updated.wait(&mutexPU) gives mutexPU back and waits in one step.
Wait ==
    /\ pcS = "dc_wait" /\ mutexPU
    /\ mutexPU' = FALSE /\ woken' = FALSE
    /\ UNCHANGED <<listVars, objVars, pcS, cur, obj, dying, schedLock, pageLock, guiVars,
                   events>>

\* RunOwnedThread, or RunExperiment.
StartCalibration ==
    /\ pcS = "dc_wait" /\ ~mutexPU /\ woken
    /\ woken' = FALSE
    /\ \/ /\ cur = Trans
          /\ owned' = TRUE /\ pRunObject' = Owned
          /\ fresh' = fresh \cup {Owned} /\ finished' = finished \ {Owned}
          /\ pcS' \in {"loop", "over"}
          /\ UNCHANGED listed
       \/ /\ cur = Align
          /\ Start(Cal)
          /\ pcS' = IF dying THEN "gone" ELSE "loop"
          /\ UNCHANGED owned
    /\ UNCHANGED <<listVars, cur, obj, dying, schedLock, pageLock, mutexPU, guiVars, events>>

-----------------------------------------------------------------------------
(* The end of a slice, and the destructors. *)

SliceOver ==
    /\ pcS = "over" /\ cur \notin finished
    /\ pcS' = "pick" /\ cur' = Nil /\ obj' = Nil
    /\ UNCHANGED <<listVars, objVars, dying, lockVars, guiVars, events>>

\* StopExperiment erases the object and deletes it under the scheduler's lock.  Objects
\* that had no slice are initialized first, the object that is owned goes next.
StopExperiment ==
    /\ pcS = "over" /\ cur \in finished
    /\ schedLock' = TRUE /\ dying' = TRUE
    /\ listed' = listed \ {cur}
    /\ IF cur \in fresh THEN pcS' = "init" /\ UNCHANGED <<obj, events>>
       ELSE IF cur = Cal THEN pcS' = "finish" /\ obj' = Cal /\ UNCHANGED events
       ELSE IF cur = Trans /\ owned
         THEN /\ obj' = Owned
              /\ IF Owned \in fresh THEN pcS' = "plots" /\ Post("call")
                                    ELSE pcS' = "finish" /\ UNCHANGED events
       ELSE pcS' = "gone" /\ UNCHANGED <<obj, events>>
    /\ UNCHANGED <<listVars, owned, pRunObject, fresh, finished, cur, pageLock, mutexPU,
                   woken, guiVars>>

\* ExpSCAN::FinishRun, up to DidCalibration.  That of a transition page calls the GUI.
FinishRun ==
    /\ pcS = "finish"
    /\ pageLock' = TRUE /\ pcS' = "report"
    /\ IF cci = Trans THEN Post("call") ELSE UNCHANGED events
    /\ UNCHANGED <<listVars, objVars, cur, obj, dying, schedLock, mutexPU, woken, guiVars>>

\* DidCalibration: the item is done.
DidCalibration ==
    IF cci = Nil
      THEN UNCHANGED <<queue, listed, fresh, finished, pRunObject>>
      ELSE /\ queue' = [queue EXCEPT ![cci] = Tail(@)]
           /\ IF cci = Align /\ Tail(queue[Align]) # <<>>
                THEN Start(Align)
                ELSE UNCHANGED <<listed, fresh, finished, pRunObject>>

\* The rest of FinishRun, which posts an update.
Report ==
    /\ pcS = "report" /\ Returned
    /\ DidCalibration
    /\ cci' = Nil
    /\ pageLock' = FALSE /\ Post("update")
    /\ pcS' = "gone"
    /\ UNCHANGED <<params, scan, owned, cur, obj, dying, schedLock, mutexPU, woken, guiVars>>

\* The destructor returns.  After an object that was owned its owner goes on, or goes too.
Gone ==
    /\ pcS = "gone"
    /\ IF obj = Owned
         THEN /\ owned' = FALSE /\ obj' = Nil
              /\ fresh' = fresh \ {Owned} /\ finished' = finished \ {Owned}
              /\ pcS' = IF dying THEN "gone" ELSE "loop"
              /\ UNCHANGED <<cur, dying, schedLock>>
         ELSE /\ dying' = FALSE /\ schedLock' = FALSE
              /\ fresh' = fresh \ ({cur} \ listed) /\ finished' = finished \ ({cur} \ listed)
              /\ cur' = Nil /\ obj' = Nil /\ pcS' = "pick"
              /\ UNCHANGED owned
    /\ UNCHANGED <<listVars, listed, pRunObject, pageLock, mutexPU, woken, guiVars, events>>

SchedulerStep ==
    \/ \E r \in Pages : Pick(r)
    \/ InitExperimentStart \/ CreateScan \/ LoopOver \/ RunCal \/ RunAlign \/ RunOwned
    \/ RunTrans \/ TargetSelected \/ ScanPoint \/ SetCurrentScan \/ LockAndPost \/ Wait
    \/ StartCalibration \/ SliceOver \/ StopExperiment \/ FinishRun \/ Report \/ Gone

-----------------------------------------------------------------------------
(* The GUI thread. *)

\* Nobody but p uses the calibration page.
Unused(p) == listed \subseteq {p} /\ ~owned /\ cci = Nil

Click == pcG = "idle" /\ clicks < MaxClicks /\ clicks' = clicks + 1

\* RUN.  An alignment page with an empty list fills it first.
ClickRun(p) ==
    /\ Click /\ p \notin listed
    /\ "share" \in UserMay \/ Unused(p)
    /\ queue' = IF p = Align /\ queue[Align] = <<>>
                  THEN [queue EXCEPT ![Align] = Items[Align]] ELSE queue
    /\ pcG' = "start" /\ page' = p
    /\ UNCHANGED <<cci, params, scan, objVars, pcS, cur, obj, dying, lockVars, events, stopped>>

\* slot_cal_t, slot_cal_f: the list is replaced, and RUN.
Recalibrate(i) ==
    /\ Click /\ ("recalibrate" \in UserMay \/ (listed = {} /\ Unused(Trans)))
    /\ queue' = [queue EXCEPT ![Trans] = <<i>>]
    /\ pcG' = "start" /\ page' = Trans
    /\ UNCHANGED <<cci, params, scan, objVars, pcS, cur, obj, dying, lockVars, events, stopped>>

GuiStart ==
    /\ pcG = "start" /\ ~schedLock
    /\ Start(page)
    /\ pcG' = "buttons"
    /\ UNCHANGED <<listVars, owned, pcS, cur, obj, dying, lockVars, page, events, clicks, stopped>>

\* STOP reaches the object pRunObject points to.
ClickStop(p) ==
    /\ Click /\ "stop" \in UserMay /\ p \in listed
    /\ LET r == IF p = Cal THEN pRunObject ELSE p
       IN  finished' = IF r = Owned /\ ~owned THEN finished ELSE finished \cup {r}
    /\ pcG' = "buttons" /\ page' = p /\ stopped' = TRUE
    /\ UNCHANGED <<listVars, listed, owned, pRunObject, fresh, pcS, cur, obj, dying, lockVars,
                   events>>

\* The tab of the calibration page is selected, unless an update is due anyway.
SelectPage ==
    /\ Click /\ ("select" \in UserMay \/ Unused(Cal)) /\ "update" \notin Range(events)
    /\ Post("update") /\ pcG' = "buttons"
    /\ UNCHANGED <<listVars, objVars, pcS, cur, obj, dying, lockVars, page, stopped>>

\* IsRunning, for the RUN or STOP button.
UpdateButtons ==
    /\ pcG = "buttons" /\ ~schedLock
    /\ pcG' = "idle" /\ page' = Nil
    /\ UNCHANGED <<listVars, objVars, pcS, cur, obj, dying, lockVars, events, clicks, stopped>>

\* The event loop.
NextEvent ==
    /\ pcG = "idle" /\ events # <<>>
    /\ events' = Tail(events)
    /\ pcG' = IF Head(events) = "update" THEN "update" ELSE "idle"
    /\ UNCHANGED <<listVars, objVars, pcS, cur, obj, dying, lockVars, page, clicks, stopped>>

UpdateData_Unlocked ==
    /\ pcG = "update" /\ ~pageLock
    /\ woken' = (pcS = "dc_wait")
    /\ pcG' = "idle"
    /\ UNCHANGED <<listVars, objVars, pcS, cur, obj, dying, schedLock, pageLock, mutexPU,
                   page, events, clicks, stopped>>

\* TxtParametersGUI::UpdateData takes page_lock and mutexPU before it wakes the waiter.
UpdateData ==
    /\ pcG = "update" /\ ~pageLock /\ ~mutexPU
    /\ woken' = (pcS = "dc_wait")
    /\ pcG' = "idle"
    /\ UNCHANGED <<listVars, objVars, pcS, cur, obj, dying, schedLock, pageLock, mutexPU,
                   page, events, clicks, stopped>>

GuiStep  == GuiStart \/ UpdateButtons \/ NextEvent \/ UpdateData
UserStep ==
    \/ \E p \in Pages : ClickRun(p) \/ ClickStop(p)
    \/ \E i \in Range(Items[Trans]) : Recalibrate(i)
    \/ SelectPage

\* Nothing is listed and nothing posted: the program waits for the user.
Idle == pcS = "pick" /\ listed = {} /\ pcG = "idle" /\ events = <<>> /\ UNCHANGED vars

Next == SchedulerStep \/ GuiStep \/ UserStep \/ Idle

Spec == Init /\ [][Next]_vars

\* Both threads run, every listed object is picked again and again, and a scan ends.
FairSpec ==
    /\ Spec
    /\ WF_vars(SchedulerStep) /\ WF_vars(GuiStep)
    /\ \A r \in Pages : SF_vars(Pick(r))
    /\ SF_vars(ScanPoint /\ finished' # finished) /\ SF_vars(RunCal)

-----------------------------------------------------------------------------
(* Properties. *)

\* The result of a scan is reported to the page that asked for it, as the result of the
\* item that was measured.
\* Code: cci and the parameters set by DoCalibration, read again in FinishRun.
ReportIsOwn ==
    pcS = "report" /\ cci # Nil => queue[cci] # <<>> /\ Head(queue[cci]) = scan

\* The threads never wait for each other.
\* Code: the blocking sigSelectScanTarget under page_lock and under the scheduler's lock.
NoHang ==
    ~(/\ IsWaiting
      /\ \/ pcG \in {"start", "buttons"} /\ schedLock
         \/ pcG = "update" /\ pageLock)

\* The calibration page is not started while it is running.
\* Code: RunOwnedThread, which does not ask IsRunning.
StartsOnce == ~(Cal \in listed \ fresh /\ owned /\ Owned \notin fresh)

\* A page that asks for calibrations gets all of them, unless the user presses STOP.
\* That needs the update DoCalibration waits for: its wakeAll must not be lost.
\* Code: the list, DidCalibration, the loop of RunTimeSlice with an owned object, mutexPU
\* and page_updated in DoCalibration and UpdateData.
CalibrationsEnd ==
    /\ Trans \in listed ~> stopped \/ (Trans \notin listed /\ queue[Trans] = <<>>)
    /\ queue[Align] # <<>> ~> stopped \/ queue[Align] = <<>>
=============================================================================
