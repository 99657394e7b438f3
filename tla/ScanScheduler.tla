--------------------------- MODULE ScanScheduler ---------------------------
(***************************************************************************)
(* The experiment scheduler of the host program: the thread that runs      *)
(* ScanScheduler::run(), the GUI thread that starts and stops experiments, *)
(* the RunObjects both of them touch, and the lock                         *)
(* csChangeInterleavedExperiments.                                         *)
(*                                                                         *)
(* A RunObject is named by its address.  The allocator may hand out an     *)
(* address again once the object there was deleted, and                    *)
(* ExperimentBase::pRunObject keeps pointing to it.                        *)
(*                                                                         *)
(* Time advances by one unit for every call of ExperimentBase::Run().      *)
(* The sections the GUI thread runs under the lock never wait for anything *)
(* else and are single steps, so only the scheduler thread is ever seen    *)
(* holding the lock.  Run objects that own another one (calibrations       *)
(* launched by a TransitionPage) are not part of this module.              *)
(***************************************************************************)
EXTENDS Integers, Sequences, FiniteSets, SchedulerList

CONSTANTS
    Exp,          \* experiment pages
    RunObj,       \* addresses a RunObject can be allocated at
    Nil,          \* the null pointer
    Priority,     \* getPriority() of each experiment; small runs more often
    WaitsForGui,  \* experiments whose InitExperimentStart waits for the GUI thread
    MayThrow,     \* experiments whose callbacks may throw
    Launches,     \* Launches[e][c]: experiments that callback c of e may start
    NeedsMore,    \* experiments whose Run() may return NEED_MORE_DATA: run() and
                  \* RunTimeSlice handle it, although no page returns it today
    TimeSlice,    \* time_slice, in calls of Run()
    MaxSlice,     \* bound: calls of Run() in a slice prolonged by NEED_MORE_DATA
    MaxLaunches,  \* bound: launches asked for in one behaviour
    Never         \* t - tLastRan of an object that never ran (tLastRan = 0)

Callbacks == {"init", "run", "finish"}

ASSUME SchedulerAssumption ==
    /\ Nil \notin RunObj /\ Nil \notin Exp
    /\ Priority \in [Exp -> Nat]
    /\ WaitsForGui \subseteq Exp
    /\ MayThrow \subseteq Exp
    /\ NeedsMore \subseteq Exp
    /\ Launches \in [Exp -> [Callbacks -> SUBSET Exp]]
    /\ \A e \in Exp, c \in Callbacks : e \notin Launches[e][c]
    /\ TimeSlice \in Nat \ {0} /\ MaxSlice \in Nat /\ TimeSlice <= MaxSlice
    /\ MaxLaunches \in Nat
    /\ Never \in Nat /\ Never > MaxSlice

VARIABLES
    \* the scheduler, shared by both threads
    list,       \* interleaved_experiments
    locked,     \* the scheduler thread holds csChangeInterleavedExperiments
    bStopLoop,
    \* the scheduler thread
    pcS,        \* where ScanScheduler::run() is
    cur,        \* pCurrentExp
    needInit,   \* bNeedInit
    doomed,     \* the object whose destructor is running
    leftLoop,   \* the while loop of run() is over
    sized,      \* the size of the vector priorities, 0 outside GetNextExperiment
    \* the memory of the run objects
    live,       \* addresses that hold an object
    exp,        \* RunObject::exp
    pRunObject, \* ExperimentBase::pRunObject
    \* their state
    finished,   \* bIsFinished (Stop() sets it together with bStopNow)
    started,    \* num_time_slices > 0
    inits,      \* history: calls of InitExperimentStart for the object
    dt,         \* t - tLastRan
    dirty,      \* objects that used the apparatus since their DefaultExperimentState
    \* the GUI thread and the events queued for it
    pcG,        \* what the event loop is doing
    page,       \* current_page
    action,     \* the run or stop entry of vActions
    posted,     \* a queued call of UpdateButtons
    call,       \* a blocking queued call made by the scheduler thread
    launches    \* launches asked for so far

loopVars   == <<cur, needInit, doomed, leftLoop, sized>>
memVars    == <<live, exp, pRunObject>>
objVars    == <<finished, started, inits, dt>>
guiVars    == <<pcG, page, action>>
vars == <<list, locked, bStopLoop, pcS, loopVars, memVars, objVars, dirty, guiVars,
          posted, call, launches>>

TypeOK ==
    /\ list \in Seq(RunObj)
    /\ locked \in BOOLEAN /\ bStopLoop \in BOOLEAN
    /\ pcS \in {"head", "init", "initBody", "slice", "done", "stop", "dinit", "dinitBody",
                "default", "finishRun", "next", "choose", "exit", "deleteBack",
                "popBack", "stopped", "crashed"}
    /\ cur \in RunObj \cup {Nil} /\ doomed \in RunObj \cup {Nil}
    /\ needInit \in BOOLEAN /\ leftLoop \in BOOLEAN
    /\ sized \in 0 .. Len(list)
    /\ live \in SUBSET RunObj
    /\ exp \in [RunObj -> Exp \cup {Nil}]
    /\ pRunObject \in [Exp -> RunObj \cup {Nil}]
    /\ launches \in 0 .. MaxLaunches
    /\ finished \in [RunObj -> BOOLEAN] /\ started \in [RunObj -> BOOLEAN]
    /\ dt \in [RunObj -> Nat]
    /\ dirty \in SUBSET RunObj
    /\ inits \in [RunObj -> Nat]
    /\ pcG \in {"idle", "start", "finish", "update", "wait", "quit"}
    /\ page \in Exp /\ action \in {"RUN", "STOP"}
    /\ posted \in BOOLEAN /\ call \in {"none", "pending", "done"}

\* The program has started: no experiment runs and InitPages has shown a page.
Init ==
    /\ list = <<>> /\ locked = FALSE /\ bStopLoop = FALSE
    /\ pcS = "head" /\ cur = Nil /\ needInit = TRUE /\ doomed = Nil /\ leftLoop = FALSE
    /\ sized = 0
    /\ live = {} /\ exp = [r \in RunObj |-> Nil]
    /\ pRunObject = [e \in Exp |-> Nil] /\ launches = 0
    /\ finished = [r \in RunObj |-> FALSE] /\ started = [r \in RunObj |-> FALSE]
    /\ dt = [r \in RunObj |-> 0]
    /\ dirty = {} /\ inits = [r \in RunObj |-> 0]
    /\ pcG = "idle" /\ page \in Exp /\ action = "RUN"
    /\ posted = FALSE /\ call = "none"

-----------------------------------------------------------------------------
(* Operations both threads use. *)

GoTo(pc)   == pcS' = pc
Finish(r)  == finished' = [finished EXCEPT ![r] = TRUE]

\* IsRunning, FindExperiment(e) # 0
IsRunning(e) == \E i \in DOMAIN list : exp[list[i]] = e

\* PreemptOK, which no experiment overrides.
PreemptOK(e) == TRUE

\* PostUpdateActions, as PostInitialize and PostFinish call it.
PostUpdateActions_Dropped == UNCHANGED posted
PostUpdateActions == posted' = (posted \/ ~bStopLoop)

\* StartExperiments for one experiment: `new RunObject`, whose constructor
\* redirects exp->pRunObject; push_back; PostInitialize.
Launch(e) ==
    /\ \E r \in RunObj \ live :
         /\ live' = live \cup {r}
         /\ exp' = [exp EXCEPT ![r] = e]
         /\ pRunObject' = [pRunObject EXCEPT ![e] = r]
         /\ finished' = [finished EXCEPT ![r] = FALSE]
         /\ started' = [started EXCEPT ![r] = FALSE]
         /\ dt' = [dt EXCEPT ![r] = Never]
         /\ inits' = [inits EXCEPT ![r] = 0]
         /\ list' = Append(list, r)
    /\ PostUpdateActions

\* Launches are counted where they are decided, so that the bound never holds up a
\* thread that is already on its way.
CountLaunch == launches < MaxLaunches /\ launches' = launches + 1

-----------------------------------------------------------------------------
(* The scheduler thread.  A definition whose name ends in _Something is a      *)
(* plausible slip in the definition that follows it; the runs show that the    *)
(* properties notice it.                                                       *)

\* DefaultExperimentState of an object: the apparatus is given back.
DefaultExperimentState_Skipped(r) == UNCHANGED dirty
DefaultExperimentState(r) == dirty' = dirty \ {r}

\* One unit of time for every object that has run.
TimePasses_Backwards == dt' = [r \in RunObj |-> IF r = cur THEN -1 ELSE dt[r]]
TimePasses ==
    dt' = [r \in RunObj |-> IF r \in live /\ dt[r] # Never THEN dt[r] + 1 ELSE dt[r]]

\* The head of the loop.  RunTimeSlice of a started object sets tLastRan; without a
\* current experiment the thread sleeps.
LoopHead ==
    /\ pcS = "head"
    /\ \/ bStopLoop /\ GoTo("exit") /\ UNCHANGED dt
       \/ ~bStopLoop /\ cur = Nil /\ GoTo("next") /\ UNCHANGED dt
       \/ ~bStopLoop /\ cur # Nil /\ ~started[cur] /\ GoTo("init") /\ UNCHANGED dt
       \/ ~bStopLoop /\ cur # Nil /\ started[cur] /\ GoTo("slice")
          /\ dt' = [dt EXCEPT ![cur] = 0]
    /\ UNCHANGED <<list, locked, bStopLoop, loopVars, memVars, finished, started, inits,
                   dirty, guiVars, posted, call, launches>>

\* InitExperimentStart is entered, from RunTimeSlice or from the destructor.  It may
\* hand work to the GUI thread and wait for it.
EnterInit(r, from, to) ==
    /\ pcS = from
    /\ GoTo(to)
    /\ inits' = [inits EXCEPT ![r] = @ + 1]
    /\ call' = IF exp[r] \in WaitsForGui THEN "pending" ELSE "done"
    /\ UNCHANGED <<list, locked, bStopLoop, loopVars, memVars, finished, started, dt,
                   dirty, guiVars, posted, launches>>

InitInSlice      == EnterInit(cur, "init", "initBody")
InitInDestructor == EnterInit(doomed, "dinit", "dinitBody")

\* InitExperimentStart returns to RunTimeSlice, which sets tLastRan, or throws.
LeaveInit ==
    /\ pcS = "initBody" /\ call = "done"
    /\ call' = "none"
    /\ \/ /\ GoTo("slice")
          /\ needInit' = TRUE
          /\ dt' = [dt EXCEPT ![cur] = 0]
          /\ UNCHANGED finished
       \/ /\ exp[cur] \in MayThrow
          /\ GoTo("done")
          /\ Finish(cur)
          /\ UNCHANGED <<needInit, dt>>
    /\ UNCHANGED <<list, locked, bStopLoop, cur, doomed, leftLoop, sized, memVars, started,
                   inits, dirty, guiVars, posted, launches>>

\* InitExperimentStart returns to the destructor.  An exception there leaves run()
\* and ends the program.
LeaveInitInDestructor ==
    /\ pcS = "dinitBody" /\ call = "done"
    /\ call' = "none"
    /\ \/ GoTo("default")
       \/ exp[doomed] \in MayThrow /\ GoTo("crashed")
    /\ UNCHANGED <<list, locked, bStopLoop, loopVars, memVars, objVars, dirty, guiVars,
                   posted, launches>>

\* A callback running in the scheduler thread starts another experiment: a
\* calibration from InitExperimentStart, the list of ExpList::Run, the next item
\* from the DidCalibration that FinishRun calls.  The lock is recursive.
CallbackLaunches(e) ==
    /\ \/ pcS = "initBody"  /\ call = "done" /\ e \in Launches[exp[cur]]["init"]
       \/ pcS = "dinitBody" /\ call = "done" /\ e \in Launches[exp[doomed]]["init"]
       \/ pcS = "slice"     /\ ~finished[cur] /\ e \in Launches[exp[cur]]["run"]
       \/ pcS = "finishRun" /\ e \in Launches[exp[doomed]]["finish"]
    /\ ~IsRunning(e)
    /\ CountLaunch
    /\ Launch(e)
    /\ UNCHANGED <<locked, bStopLoop, pcS, loopVars, dirty, guiVars, call>>

\* One iteration of the loop of RunTimeSlice: InitExperimentSwitch if needed, then
\* Run(), which returns OK, NEED_MORE_DATA, IDLE or FINISHED, or throws.
RunOnce ==
    /\ pcS = "slice" /\ ~finished[cur]
    /\ started' = [started EXCEPT ![cur] = TRUE]
    /\ needInit' = FALSE
    /\ dirty' = dirty \cup {cur}
    /\ TimePasses
    /\ \/ /\ GoTo(IF dt[cur] + 1 < TimeSlice THEN "slice" ELSE "done")    \* OK
          /\ UNCHANGED finished
       \/ /\ exp[cur] \in NeedsMore /\ dt[cur] + 1 < MaxSlice            \* NEED_MORE_DATA
          /\ UNCHANGED <<pcS, finished>>
       \/ GoTo("done") /\ UNCHANGED finished                            \* IDLE
       \/ GoTo("done") /\ Finish(cur)                                   \* FINISHED, exception
    /\ UNCHANGED <<list, locked, bStopLoop, cur, doomed, leftLoop, sized, memVars, inits,
                   guiVars, posted, call, launches>>

\* The loop of RunTimeSlice ends because the object was stopped.
SliceStopped ==
    /\ pcS = "slice" /\ finished[cur]
    /\ GoTo("done")
    /\ UNCHANGED <<list, locked, bStopLoop, loopVars, memVars, objVars, dirty, guiVars,
                   posted, call, launches>>

AfterSlice_IgnoresFinished ==
    /\ pcS = "done"
    /\ GoTo("next")
    /\ UNCHANGED <<list, locked, bStopLoop, loopVars, memVars, objVars, dirty, guiVars,
                   posted, call, launches>>

\* "if the experiment is done remove it from the list"
AfterSlice ==
    /\ pcS = "done"
    /\ GoTo(IF finished[cur] THEN "stop" ELSE "next")
    /\ UNCHANGED <<list, locked, bStopLoop, loopVars, memVars, objVars, dirty, guiVars,
                   posted, call, launches>>

\* `find`, and `erase` of what was found.
EraseCurrent_Forgotten == UNCHANGED list
EraseCurrent == \E i \in DOMAIN list : IsFirst(list, cur, i) /\ list' = Erase(list, i)

\* StopExperiment takes the lock, erases the object from the list and deletes it.
\* The destructor first calls InitExperimentStart for an object that never ran.
StopExperiment ==
    /\ pcS = "stop"
    /\ locked' = TRUE
    /\ EraseCurrent
    /\ doomed' = cur
    /\ GoTo(IF started[cur] THEN "default" ELSE "dinit")
    /\ UNCHANGED <<bStopLoop, cur, needInit, leftLoop, sized, memVars, objVars, dirty,
                   guiVars, posted, call, launches>>

\* The destructor calls DefaultExperimentState and enters FinishRun.
EnterFinishRun ==
    /\ pcS = "default"
    /\ DefaultExperimentState(doomed)
    /\ GoTo("finishRun")
    /\ UNCHANGED <<list, locked, bStopLoop, loopVars, memVars, objVars, guiVars, posted,
                   call, launches>>

\* StopExperiment returns, and `pCurrentExp = 0`.
StopReturns_KeepsCurrent == GoTo("next") /\ locked' = FALSE /\ UNCHANGED cur
StopReturns == GoTo("next") /\ locked' = FALSE /\ cur' = Nil

\* FinishRun returns; PostFinish; the address is free again (what it held is
\* forgotten).  The delete in StopExperiment returns to the loop, the one in the last
\* lines of run() to pop_back.
LeaveDestructor ==
    /\ pcS = "finishRun"
    /\ PostUpdateActions
    /\ live' = live \ {doomed}
    /\ exp' = [exp EXCEPT ![doomed] = Nil]
    /\ finished' = [finished EXCEPT ![doomed] = FALSE]
    /\ started' = [started EXCEPT ![doomed] = FALSE]
    /\ inits' = [inits EXCEPT ![doomed] = 0]
    /\ dt' = [dt EXCEPT ![doomed] = 0]
    /\ doomed' = Nil
    /\ \/ leftLoop /\ GoTo("popBack") /\ UNCHANGED <<locked, cur>>
       \/ ~leftLoop /\ StopReturns
    /\ UNCHANGED <<list, bStopLoop, needInit, leftLoop, sized, pRunObject, dirty, guiVars,
                   call, launches>>

\* The end of the loop body, from the choice of the next experiment on.
Switch(next) ==
    /\ needInit' = (next # Nil /\ next # cur)
    /\ IF needInit' THEN cur' = next /\ DefaultExperimentState(cur)
                    ELSE UNCHANGED <<cur, dirty>>

\* GetNextExperiment does not take the lock.  Its first tests: an empty list, an
\* experiment that must not be preempted.  Otherwise `priorities` gets the size the list
\* has now.
NextExperiment ==
    /\ pcS = "next"
    /\ \/ bStopLoop /\ GoTo("head") /\ UNCHANGED <<cur, needInit, dirty, sized>>
       \/ /\ ~bStopLoop /\ (list = <<>> \/ (cur # Nil /\ ~PreemptOK(exp[cur])))
          /\ GoTo("head")
          /\ Switch(IF list = <<>> THEN Nil ELSE cur)
          /\ UNCHANGED sized
       \/ /\ ~bStopLoop /\ list # <<>> /\ (cur = Nil \/ PreemptOK(exp[cur]))
          /\ GoTo("choose")
          /\ sized' = Len(list)
          /\ UNCHANGED <<cur, needInit, dirty>>
    /\ UNCHANGED <<list, locked, bStopLoop, doomed, leftLoop, memVars, objVars, guiVars,
                   posted, call, launches>>

\* The loop over the list fills `priorities` and reads the size of the list again each
\* time.  If the GUI thread appended an object meanwhile, the loop may write past the
\* vector, or have ended before.
ChooseNext ==
    /\ pcS = "choose"
    /\ sized' = 0
    /\ \/ /\ GoTo("head")
          /\ \E i \in 1 .. sized :
               /\ IsMaxElement(SubSeq(list, 1, sized), dt,
                               [x \in Elems(list) |-> Priority[exp[x]]], i)
               /\ Switch(list[i])
       \/ /\ Len(list) > sized
          /\ GoTo("crashed")
          /\ UNCHANGED <<cur, needInit, dirty>>
    /\ UNCHANGED <<list, locked, bStopLoop, doomed, leftLoop, memVars, objVars, guiVars,
                   posted, call, launches>>

\* The loop is left: under the lock every object is deleted, the last one first.
ExitLoop ==
    /\ pcS = "exit"
    /\ locked' = TRUE
    /\ leftLoop' = TRUE
    /\ DefaultExperimentState(cur)
    /\ GoTo("deleteBack")
    /\ UNCHANGED <<list, bStopLoop, cur, needInit, doomed, sized, memVars, objVars, guiVars,
                   posted, call, launches>>

\* `delete interleaved_experiments.back()`.  Deleting an address that holds no
\* object is undefined; here the program ends.
DeleteBack ==
    /\ pcS = "deleteBack" /\ list # <<>>
    /\ doomed' = list[Len(list)]
    /\ GoTo(IF doomed' \notin live THEN "crashed"
            ELSE IF started[doomed'] THEN "default" ELSE "dinit")
    /\ UNCHANGED <<list, locked, bStopLoop, cur, needInit, leftLoop, sized, memVars, objVars,
                   dirty, guiVars, posted, call, launches>>

PopBack_Forgotten ==
    /\ pcS = "popBack"
    /\ GoTo("deleteBack")
    /\ UNCHANGED <<list, locked, bStopLoop, loopVars, memVars, objVars, dirty, guiVars,
                   posted, call, launches>>

\* `pop_back`, whatever the destructor may have appended.
PopBack ==
    /\ pcS = "popBack"
    /\ list' = Erase(list, Len(list))
    /\ GoTo("deleteBack")
    /\ UNCHANGED <<locked, bStopLoop, loopVars, memVars, objVars, dirty, guiVars, posted,
                   call, launches>>

\* run() returns.
ThreadEnds ==
    /\ pcS = "deleteBack" /\ list = <<>>
    /\ GoTo("stopped")
    /\ locked' = FALSE
    /\ UNCHANGED <<list, bStopLoop, loopVars, memVars, objVars, dirty, guiVars, posted,
                   call, launches>>

SchedulerStep ==
    \/ LoopHead \/ InitInSlice \/ LeaveInit \/ RunOnce \/ SliceStopped \/ AfterSlice
    \/ StopExperiment \/ InitInDestructor \/ LeaveInitInDestructor \/ EnterFinishRun
    \/ LeaveDestructor \/ NextExperiment \/ ChooseNext \/ ExitLoop \/ DeleteBack \/ PopBack
    \/ ThreadEnds

-----------------------------------------------------------------------------
(* The GUI thread.  Events that other threads queued are delivered before the *)
(* user's next click.                                                         *)

schedState == <<locked, pcS, loopVars, dirty>>

UserMayAct == pcG = "idle" /\ ~posted /\ call # "pending" /\ pcS # "crashed"

\* The RUN button.
ClickRun ==
    /\ UserMayAct /\ action = "RUN"
    /\ CountLaunch
    /\ pcG' = "start"
    /\ UNCHANGED <<schedState, list, bStopLoop, memVars, objVars, page, action, posted, call>>

GuiStart_Unchecked ==
    /\ pcG = "start" /\ ~locked /\ pcS # "crashed"
    /\ Launch(page)
    /\ pcG' = "update"
    /\ UNCHANGED <<schedState, bStopLoop, page, action, call, launches>>

\* StartExperiment, once the lock is free; on_action then calls UpdateButtons.
GuiStart ==
    /\ pcG = "start" /\ ~locked /\ pcS # "crashed"
    /\ IF IsRunning(page) THEN UNCHANGED <<list, memVars, objVars, posted>> ELSE Launch(page)
    /\ pcG' = "update"
    /\ UNCHANGED <<schedState, bStopLoop, page, action, call, launches>>

\* The STOP button: OnStop() precedes FinishExperiment.
ClickStop ==
    /\ UserMayAct /\ action = "STOP"
    /\ pcG' = "finish"
    /\ UNCHANGED <<schedState, list, bStopLoop, memVars, objVars, page, action, posted,
                   call, launches>>

\* FinishExperiment stops exp->pRunObject without the lock, whatever is at that
\* address now.  Writing to a free address has no effect here.
GuiFinish ==
    /\ pcG = "finish" /\ pcS # "crashed"
    /\ IF pRunObject[page] \in live THEN Finish(pRunObject[page]) ELSE UNCHANGED finished
    /\ pcG' = "update"
    /\ UNCHANGED <<schedState, list, bStopLoop, memVars, started, inits, dt, page, action,
                   posted, call, launches>>

\* The user selects a page.
SelectPage(e) ==
    /\ UserMayAct /\ e # page
    /\ page' = e
    /\ pcG' = "update"
    /\ UNCHANGED <<schedState, list, bStopLoop, memVars, objVars, action, posted, call,
                   launches>>

\* A queued UpdateButtons is delivered.
DeliverPosted ==
    /\ pcG = "idle" /\ posted /\ pcS # "crashed"
    /\ posted' = FALSE
    /\ pcG' = "update"
    /\ UNCHANGED <<schedState, list, bStopLoop, memVars, objVars, page, action, call, launches>>

\* UpdateButtons asks IsRunning, which takes the lock, for RUN or STOP.
UpdateButtons ==
    /\ pcG = "update" /\ ~locked /\ pcS # "crashed"
    /\ action' = IF IsRunning(page) THEN "STOP" ELSE "RUN"
    /\ pcG' = "idle"
    /\ UNCHANGED <<schedState, list, bStopLoop, memVars, objVars, page, posted, call, launches>>

\* The event loop executes the slot of a blocking queued call.
ServeCall ==
    /\ pcG = "idle" /\ call = "pending" /\ pcS # "crashed"
    /\ call' = "done"
    /\ UNCHANGED <<schedState, list, bStopLoop, memVars, objVars, guiVars, posted, launches>>

\* closeEvent calls Stop(), which sets bStopLoop and waits for the thread.
CloseWindow ==
    /\ UserMayAct
    /\ bStopLoop' = TRUE
    /\ pcG' = "wait"
    /\ UNCHANGED <<schedState, list, memVars, objVars, page, action, posted, call, launches>>

Quit ==
    /\ pcG = "wait" /\ pcS = "stopped"
    /\ pcG' = "quit"
    /\ UNCHANGED <<schedState, list, bStopLoop, memVars, objVars, page, action, posted,
                   call, launches>>

UserStep == ClickRun \/ ClickStop \/ CloseWindow \/ \E e \in Exp : SelectPage(e)
GuiStep  == GuiStart \/ GuiFinish \/ DeliverPosted \/ UpdateButtons \/ ServeCall \/ Quit

\* The two threads wait for each other: the scheduler thread for the slot of a queued
\* call, the GUI thread for the end of the scheduler thread or for the lock it holds.
Hung == call = "pending" /\ (pcG = "wait" \/ (locked /\ pcG \in {"start", "update"}))

\* The program is over, or stands still.
Halted == pcS = "crashed" \/ Hung
Over == (pcG = "quit" \/ Halted) /\ UNCHANGED vars

Next == SchedulerStep \/ (\E e \in Exp : CallbackLaunches(e)) \/ UserStep \/ GuiStep \/ Over

Spec == Init /\ [][Next]_vars

\* Both threads keep running; the user need not do anything, and a callback need not
\* start another experiment.
FairSpec == Spec /\ WF_vars(SchedulerStep) /\ WF_vars(GuiStep)

-----------------------------------------------------------------------------
(* Properties. *)

\* While the loop runs, every listed object is allocated and listed once.
\* Code: interleaved_experiments holds raw pointers that run() dereferences after
\* the GUI thread appended to the vector and objects were deleted.
ListedAreLive == ~leftLoop => NoDup(list) /\ Elems(list) \subseteq live \ {doomed}

\* An experiment is listed at most once, and pRunObject leads to the listed object.
\* Code: the IsRunning test of StartExperiments and `exp->pRunObject = this`.
OneRunPerExperiment ==
    ~leftLoop => \A i, j \in DOMAIN list :
                    /\ exp[list[i]] = exp[list[j]] => i = j
                    /\ pRunObject[exp[list[i]]] = list[i]

\* pCurrentExp is never dangling where the loop dereferences it, and StopExperiment finds
\* the object it is to remove.
\* Code: run() dereferences pCurrentExp after sections without the lock; the assertion of
\* StopExperiment.
CurrentIsListed ==
    /\ pcS \in {"head", "init", "initBody", "slice", "done", "next", "choose", "exit"} =>
          cur = Nil \/ cur \in Elems(list)
    /\ pcS = "stop" => cur \in Elems(list)

\* The apparatus is handed over: only the current experiment has used it since it was
\* last put back into the default state, and Run() is never called after a switch
\* without InitExperimentSwitch.
\* Code: bNeedInit, and the DefaultExperimentState calls of run() and ~RunObject.
ApparatusHandedOver ==
    /\ dirty \subseteq {cur}
    /\ pcS = "slice" /\ ~needInit => dirty = {cur}

\* When the queue of the GUI thread is empty the page shows STOP exactly if its
\* experiment is running.
\* Code: PostUpdateActions in PostInitialize and PostFinish, UpdateButtons.
ButtonsAreCurrent ==
    pcG = "idle" /\ ~posted /\ ~locked /\ ~bStopLoop => (action = "STOP" <=> IsRunning(page))

\* Priority aging bounds the time an experiment waits once it has run.  While one of
\* priority p waits for (1 + p) t, each of the other objects launched so far begins at most
\* one slice in the last t, as it is only chosen if its own quotient is not smaller; so t
\* cannot exceed (launches - 1) slices, and the choice after that is the waiting one.
\* Code: the quotient dt / (1 + p) in GetNextExperiment.
WaitBound(p) == (1 + p) * ((launches - 1) * MaxSlice + 1) + MaxSlice
BoundedWait ==
    ~leftLoop => \A r \in Elems(list) : dt[r] # Never => dt[r] < WaitBound(Priority[exp[r]])

\* A stopped object is eventually removed from the list and deleted, unless the program
\* has crashed or the two threads wait for each other.
\* Code: the IsFinished tests of RunTimeSlice and run(), StopExperiment.
StopIsHonoured == \A r \in RunObj :
    (r \in Elems(list) /\ finished[r]) ~> (r \notin live \/ Halted)

\* Every listed experiment gets a time slice, unless the program is closed, has crashed
\* or the two threads wait for each other.
\* Code: the choice of GetNextExperiment.
EveryoneRuns == \A e \in Exp :
    IsRunning(e) ~> ((cur # Nil /\ exp[cur] = e) \/ bStopLoop \/ Halted)

\* ScanScheduler::Stop() ends the scheduler thread or never returns: in the second case
\* the thread is in an InitExperimentStart that waits for the GUI thread, which waits for
\* it (Hung); it stays so.  Deleting the objects does not crash if no FinishRun starts
\* another experiment; the crash left is that of GetNextExperiment (ChooseNext).
\* Code: Stop() in ExperimentsSheet::closeEvent, signal_setup_plots in ExpSCAN.cpp.
StopEndsThread ==
    bStopLoop ~> (pcS = "stopped" \/ (pcS = "crashed" /\ doomed = Nil) \/ []Hung)

\* Experiment.h: FinishRun is "called once when the experiment has finished".  Deleting
\* an object again calls it again.
DeletedOnce == ~(pcS = "crashed" /\ doomed # Nil /\ doomed \notin live)

\* The scheduler implements the contract of ExperimentContract for each object, which
\* stands for one run of an experiment.  It is active while it has used the apparatus
\* without returning it to the default state.
Phase(r) ==
    IF r \notin live       THEN "idle"
    ELSE IF r \in dirty    THEN "active"
    ELSE IF started[r]     THEN "paused"
    ELSE IF inits[r] = 0   THEN "queued"
    ELSE IF inits[r] = 1   THEN "started"
    ELSE "again"

Contract == INSTANCE ExperimentContract
              WITH Exp <- RunObj, phase <- [r \in RunObj |-> Phase(r)]

\* Every behaviour of the two threads is one the comments of Experiment.h allow, but for
\* the one callback that is repeated: InitExperimentStart is "called once when the
\* experiment is first started" (Contract!Strict), and a second time by the destructor of
\* an object that was initialized and did not run, as the last thing before it is retired
\* (Contract!InitializeAgain); never a third time, and never for one that ran.
\* Code: the DefaultExperimentState, InitExperimentSwitch and InitExperimentStart calls of
\* run(), RunTimeSlice and ~RunObject.
ImplementsContract == Contract!Spec
=============================================================================
