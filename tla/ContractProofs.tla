--------------------------- MODULE ContractProofs ---------------------------
(***************************************************************************)
(* The scheduler implements ExperimentContract, for any number of          *)
(* experiments and addresses, whatever the callbacks launch, throw or wait *)
(* for, and while the program shuts down as well.                          *)
(***************************************************************************)
EXTENDS ScanSchedulerProofs

-----------------------------------------------------------------------------
(* The inductive invariant: how often an object was initialized, by where the  *)
(* scheduler thread is.                                                        *)

\* Only objects that ran use the apparatus.
ObjectsInv == \A r \in dirty : r \in live /\ started[r]

\* Destructors run on an object.
DoomedInv == pcS \in DestructorPcs => doomed \in live

\* Places at which the current object may be initialized and not have run, and places at
\* which the one being destroyed may be.
InitializedPcs == {"initBody", "slice", "done", "stop"}
DestroyedPcs   == DestructorPcs \cup {"crashed"}

\* An object that did not run was not initialized, but for those two.
NotYetInv ==
    \A r \in live : ~started[r] =>
        \/ inits[r] = 0
        \/ r = cur /\ inits[r] = 1 /\ pcS \in InitializedPcs
        \/ r = doomed /\ inits[r] \in {1, 2} /\ pcS \in DestroyedPcs

\* What is needed of each of the two on the way.
InitsInv ==
    /\ pcS = "init"     => ~started[cur]
    /\ pcS = "initBody" => ~started[cur] /\ inits[cur] = 1
    /\ pcS = "slice"    => started[cur] \/ inits[cur] = 1
    /\ pcS = "dinit"    => ~started[doomed] /\ inits[doomed] \in {0, 1}
    /\ pcS = "dinitBody" => ~started[doomed] /\ inits[doomed] \in {1, 2}
    /\ pcS \in {"default", "finishRun"} => started[doomed] \/ inits[doomed] \in {1, 2}

CInv == ObjectsInv /\ DoomedInv /\ NotYetInv /\ InitsInv

-----------------------------------------------------------------------------
(* It holds initially and every step preserves it. *)

\* Nothing is allocated when the program starts.
LEMMA InitCInv == Init => CInv
  BY DEF Init, CInv, ObjectsInv, DoomedInv, NotYetInv, InitsInv, DestructorPcs

\* A new object was not initialized.
LEMMA LaunchCInv ==
    ASSUME IInv, CInv, NEW e \in Exp, Launch(e), UNCHANGED <<pcS, loopVars, dirty>>
    PROVE  CInv'
<1>1. PICK r \in RunObj \ live :
        /\ live' = live \cup {r}
        /\ started' = [started EXCEPT ![r] = FALSE]
        /\ inits' = [inits EXCEPT ![r] = 0]
  BY DEF Launch
<1>2. /\ started \in [RunObj -> BOOLEAN] /\ inits \in [RunObj -> Nat] /\ live \subseteq RunObj
      /\ UNCHANGED <<pcS, cur, doomed, dirty>>
  BY DEF IInv, TypeOK, loopVars
<1>3. /\ pcS \in SlicePcs => cur \in live
      /\ pcS \in DestructorPcs => doomed \in live
  BY DEF IInv, ListInv, PcInv, SlicePcs, LoopPcs, CInv, DoomedInv
<1>4. \A x \in live : started'[x] = started[x] /\ inits'[x] = inits[x]
  BY <1>1, <1>2
<1>5. ObjectsInv' /\ DoomedInv'
  BY <1>1, <1>2, <1>4 DEF CInv, ObjectsInv, DoomedInv
<1>6. NotYetInv'
  BY <1>1, <1>2, <1>4 DEF CInv, NotYetInv
<1>7. InitsInv'
  BY <1>2, <1>3, <1>4 DEF CInv, InitsInv, SlicePcs, DestructorPcs
<1> QED
  BY <1>5, <1>6, <1>7 DEF CInv

\* Every step of the two threads preserves the invariant.
LEMMA NextCInv == IInv /\ CInv /\ [Next]_vars => CInv'
<1> SUFFICES ASSUME IInv, CInv, [Next]_vars PROVE CInv'
  OBVIOUS
<1> USE DEF GoTo, loopVars, memVars, objVars
<1>0. /\ started \in [RunObj -> BOOLEAN] /\ inits \in [RunObj -> Nat] /\ live \subseteq RunObj
      /\ Nil \notin live
  BY SchedulerAssumption DEF IInv, TypeOK
<1>1. CASE GuiFinish \/ ClickRun \/ ClickStop \/ CloseWindow \/ DeliverPosted
         \/ UpdateButtons \/ ServeCall \/ Quit \/ (\E e \in Exp : SelectPage(e))
         \/ UNCHANGED vars
  <2>1. UNCHANGED <<live, started, inits, dirty, pcS, cur, doomed>>
    BY <1>1 DEF GuiFinish, ClickRun, ClickStop, CloseWindow, DeliverPosted, UpdateButtons,
         ServeCall, Quit, SelectPage, schedState, vars
  <2> QED
    BY <2>1 DEF CInv, ObjectsInv, DoomedInv, NotYetInv, InitsInv
<1>2. CASE LoopHead \/ SliceStopped \/ ThreadEnds \/ PopBack \/ NextExperiment \/ ChooseNext
         \/ ExitLoop
  <2>1. /\ UNCHANGED <<live, started, inits, doomed>> /\ dirty' \subseteq dirty
        /\ cur' = cur \/ pcS \in {"next", "choose"}
        /\ pcS \in {"head", "slice", "deleteBack", "popBack", "next", "choose", "exit"}
        /\ pcS' \notin {"initBody", "stop"} \cup DestructorPcs
        /\ pcS = "slice" => pcS' = "done"
        /\ pcS' = "done" => pcS = "slice"
        /\ pcS' = "init" => ~started[cur] /\ pcS = "head"
        /\ pcS' = "slice" => started[cur] /\ pcS = "head"
    BY <1>2 DEF LoopHead, SliceStopped, ThreadEnds, PopBack, NextExperiment, ChooseNext, Switch,
         ExitLoop, DefaultExperimentState, DestructorPcs
  <2>2. NotYetInv'
    <3> SUFFICES ASSUME NEW x \in live, ~started[x]
                 PROVE  \/ inits[x] = 0
                        \/ x = cur' /\ inits[x] = 1 /\ pcS' \in InitializedPcs
                        \/ x = doomed /\ inits[x] \in {1, 2} /\ pcS' \in DestroyedPcs
      BY <2>1 DEF NotYetInv
    <3>1. CASE x = doomed /\ inits[x] \in {1, 2} /\ pcS \in DestroyedPcs
      BY <2>1, <3>1 DEF DestroyedPcs, DestructorPcs
    <3>2. CASE x = cur /\ inits[x] = 1 /\ pcS \in InitializedPcs
      BY <2>1, <3>2 DEF InitializedPcs
    <3> QED
      BY <3>1, <3>2 DEF CInv, NotYetInv
  <2> QED
    BY <2>1, <2>2 DEF CInv, ObjectsInv, DoomedInv, InitsInv, DestructorPcs
<1>3. CASE InitInSlice
  <2>1. /\ UNCHANGED <<live, started, dirty, cur, doomed>> /\ pcS = "init" /\ pcS' = "initBody"
        /\ inits' = [inits EXCEPT ![cur] = @ + 1]
    BY <1>3 DEF InitInSlice, EnterInit
  <2>2. cur \in live /\ ~started[cur] /\ inits[cur] = 0
    BY <2>1 DEF IInv, ListInv, PcInv, LoopPcs, SlicePcs, CInv, InitsInv, NotYetInv,
                InitializedPcs, DestroyedPcs, DestructorPcs
  <2>3. inits'[cur] = 1 /\ \A x \in live \ {cur} : inits'[x] = inits[x]
    BY <1>0, <2>1, <2>2
  <2> QED
    BY <2>1, <2>2, <2>3 DEF CInv, ObjectsInv, DoomedInv, NotYetInv, InitsInv, InitializedPcs,
                            DestroyedPcs, DestructorPcs
<1>4. CASE InitInDestructor
  <2>1. /\ UNCHANGED <<live, started, dirty, cur, doomed>> /\ pcS = "dinit" /\ pcS' = "dinitBody"
        /\ inits' = [inits EXCEPT ![doomed] = @ + 1]
    BY <1>4 DEF InitInDestructor, EnterInit
  <2>2. doomed \in live /\ ~started[doomed] /\ inits[doomed] \in {0, 1}
    BY <2>1 DEF CInv, InitsInv, DoomedInv, DestructorPcs
  <2>3. inits'[doomed] \in {1, 2} /\ \A x \in live \ {doomed} : inits'[x] = inits[x]
    BY <1>0, <2>1, <2>2
  <2> QED
    BY <2>1, <2>2, <2>3 DEF CInv, ObjectsInv, DoomedInv, NotYetInv, InitsInv, InitializedPcs,
                            DestroyedPcs, DestructorPcs
<1>5. CASE LeaveInit \/ LeaveInitInDestructor \/ EnterFinishRun
  <2>1. /\ UNCHANGED <<live, started, inits, cur, doomed>> /\ dirty' \subseteq dirty
        /\ \/ pcS = "initBody" /\ pcS' \in {"slice", "done"}
           \/ pcS = "dinitBody" /\ pcS' \in {"default", "crashed"}
           \/ pcS = "default" /\ pcS' = "finishRun"
    BY <1>5 DEF LeaveInit, LeaveInitInDestructor, EnterFinishRun, DefaultExperimentState
  <2> QED
    BY <2>1 DEF CInv, ObjectsInv, DoomedInv, NotYetInv, InitsInv, InitializedPcs,
                DestroyedPcs, DestructorPcs
<1>6. CASE RunOnce
  <2>1. /\ UNCHANGED <<live, inits, cur, doomed>> /\ pcS = "slice" /\ pcS' \in {"slice", "done"}
        /\ started' = [started EXCEPT ![cur] = TRUE] /\ dirty' = dirty \cup {cur}
    BY <1>6 DEF RunOnce
  <2>2. cur \in live
    BY <2>1 DEF IInv, ListInv, PcInv, LoopPcs, SlicePcs
  <2>3. started'[cur] /\ \A x \in live \ {cur} : started'[x] = started[x]
    BY <1>0, <2>1, <2>2
  <2> QED
    BY <2>1, <2>2, <2>3 DEF CInv, ObjectsInv, DoomedInv, NotYetInv, InitsInv, InitializedPcs,
                            DestroyedPcs, DestructorPcs
<1>7. CASE AfterSlice
  <2>1. /\ UNCHANGED <<live, started, inits, dirty, cur, doomed>>
        /\ pcS = "done" /\ pcS' = IF finished[cur] THEN "stop" ELSE "next"
    BY <1>7 DEF AfterSlice
  <2>2. pcS' = "next" => started[cur]
    BY <2>1 DEF IInv, ApparatusInv, CInv, ObjectsInv
  <2> QED
    BY <2>1, <2>2 DEF CInv, ObjectsInv, DoomedInv, NotYetInv, InitsInv, InitializedPcs,
                      DestroyedPcs, DestructorPcs
<1>8. CASE StopExperiment
  <2>1. /\ UNCHANGED <<live, started, inits, dirty, cur>> /\ doomed' = cur
        /\ pcS = "stop" /\ pcS' = IF started[cur] THEN "default" ELSE "dinit"
    BY <1>8 DEF StopExperiment
  <2>2. cur \in live
    BY <2>1 DEF IInv, ListInv, PcInv, LoopPcs, SlicePcs
  <2> QED
    BY <2>1, <2>2 DEF CInv, ObjectsInv, DoomedInv, NotYetInv, InitsInv, InitializedPcs,
                      DestroyedPcs, DestructorPcs
<1>9. CASE DeleteBack
  <2>1. /\ UNCHANGED <<live, started, inits, dirty, cur>>
        /\ pcS = "deleteBack"
        /\ \/ pcS' = "crashed"
           \/ doomed' \in live /\ pcS' = IF started[doomed'] THEN "default" ELSE "dinit"
    BY <1>9 DEF DeleteBack
  <2> QED
    BY <2>1 DEF CInv, ObjectsInv, DoomedInv, NotYetInv, InitsInv, InitializedPcs,
                DestroyedPcs, DestructorPcs
<1>10. CASE LeaveDestructor
  <2>1. /\ live' = live \ {doomed}
        /\ started' = [started EXCEPT ![doomed] = FALSE]
        /\ inits' = [inits EXCEPT ![doomed] = 0]
        /\ UNCHANGED dirty
        /\ pcS = "finishRun" /\ pcS' \in {"popBack", "next"}
    BY <1>10 DEF LeaveDestructor, StopReturns
  <2>2. dirty = {}
    BY <2>1 DEF IInv, ApparatusInv
  <2>3. \A x \in live' : started'[x] = started[x] /\ inits'[x] = inits[x] /\ x # doomed
    BY <1>0, <2>1
  <2> QED
    BY <2>1, <2>2, <2>3 DEF CInv, ObjectsInv, DoomedInv, NotYetInv, InitsInv, InitializedPcs,
                            DestroyedPcs, DestructorPcs
<1>11. ASSUME NEW e \in Exp, CallbackLaunches(e)
       PROVE  CInv'
  BY <1>11, LaunchCInv DEF CallbackLaunches
<1>12. CASE GuiStart
  <2>1. CASE IsRunning(page)
    <3>1. UNCHANGED <<live, started, inits, dirty, pcS, cur, doomed>>
      BY <1>12, <2>1 DEF GuiStart, schedState
    <3> QED
      BY <3>1 DEF CInv, ObjectsInv, DoomedInv, NotYetInv, InitsInv
  <2>2. CASE ~IsRunning(page)
    BY <1>12, <2>2, LaunchCInv DEF GuiStart, schedState, IInv, TypeOK
  <2> QED
    BY <2>1, <2>2
<1> QED
  BY <1>1, <1>2, <1>3, <1>4, <1>5, <1>6, <1>7, <1>8, <1>9, <1>10, <1>11, <1>12
     DEF Next, SchedulerStep, UserStep, GuiStep, Over

-----------------------------------------------------------------------------
(* Every step is a step of the contract. *)

\* The phases of all objects, as Contract maps them.
Phases == [r \in RunObj |-> Phase(r)]

\* Steps that touch no object leave every phase alone.
LEMMA SamePhases ==
    ASSUME UNCHANGED <<live, started, inits, dirty>>
    PROVE  Phases' = Phases
  BY DEF Phase, Phases

\* A step that touches one object changes its phase only.
LEMMA OnePhase ==
    ASSUME NEW r \in RunObj,
           \A x \in RunObj \ {r} :
              /\ x \in live' <=> x \in live
              /\ x \in dirty' <=> x \in dirty
              /\ started'[x] = started[x] /\ inits'[x] = inits[x]
    PROVE  Phases[r] = Phase(r) /\ Phases' = [Phases EXCEPT ![r] = Phase(r)']
<1>1. \A x \in RunObj \ {r} : Phase(x)' = Phase(x)
  BY DEF Phase
<1> QED
  BY <1>1 DEF Phases

\* A launch takes a run from idle to queued.
LEMMA LaunchContract ==
    ASSUME IInv, CInv, NEW e \in Exp, Launch(e), UNCHANGED dirty
    PROVE  [Contract!Next]_Phases
<1>1. PICK r \in RunObj \ live :
        /\ live' = live \cup {r}
        /\ started' = [started EXCEPT ![r] = FALSE]
        /\ inits' = [inits EXCEPT ![r] = 0]
  BY DEF Launch
<1>2. /\ started \in [RunObj -> BOOLEAN] /\ inits \in [RunObj -> Nat]
      /\ r \notin dirty /\ dirty' = dirty
  BY <1>1 DEF IInv, TypeOK, CInv, ObjectsInv
<1>3. Phases[r] = Phase(r) /\ Phases' = [Phases EXCEPT ![r] = Phase(r)']
  BY <1>1, <1>2, OnePhase
<1>4. Phase(r) = "idle" /\ Phase(r)' = "queued"
  BY <1>1, <1>2 DEF Phase
<1> QED
  BY <1>3, <1>4 DEF Contract!Next, Contract!Promised, Contract!Launch, Contract!Move, Phases

\* RunTimeSlice initializes what is queued.
LEMMA InitContract == IInv /\ CInv /\ InitInSlice => [Contract!Next]_Phases
<1> SUFFICES ASSUME IInv, CInv, InitInSlice PROVE [Contract!Next]_Phases
  OBVIOUS
<1>1. pcS = "init" /\ cur \in live /\ ~started[cur] /\ inits[cur] = 0 /\ cur \notin dirty
  BY DEF InitInSlice, EnterInit, IInv, ListInv, PcInv, LoopPcs, SlicePcs, CInv, ObjectsInv,
         InitsInv, NotYetInv, InitializedPcs, DestroyedPcs, DestructorPcs
<1>2. inits \in [RunObj -> Nat] /\ live \subseteq RunObj
  BY DEF IInv, TypeOK
<1>3. PICK r \in RunObj : r = cur
  BY <1>1, <1>2
<1>4. UNCHANGED <<live, started, dirty>> /\ inits' = [inits EXCEPT ![r] = @ + 1]
  BY <1>3 DEF InitInSlice, EnterInit, memVars
<1>5. /\ \A x \in RunObj \ {r} : inits'[x] = inits[x]
      /\ inits'[r] = 1
  BY <1>1, <1>2, <1>3, <1>4
<1>6. Phases[r] = Phase(r) /\ Phases' = [Phases EXCEPT ![r] = Phase(r)']
  BY <1>4, <1>5, OnePhase
<1>7. Phase(r) = "queued" /\ Phase(r)' = "started"
  BY <1>1, <1>3, <1>4, <1>5 DEF Phase
<1> QED
  BY <1>6, <1>7 DEF Contract!Next, Contract!Promised, Contract!Initialize, Contract!Move, Phases

\* The destructor initializes what is queued, and initializes again what did not run.
LEMMA InitAgainContract == IInv /\ CInv /\ InitInDestructor => [Contract!Next]_Phases
<1> SUFFICES ASSUME IInv, CInv, InitInDestructor PROVE [Contract!Next]_Phases
  OBVIOUS
<1>1. /\ doomed \in live /\ ~started[doomed] /\ doomed \notin dirty
      /\ inits[doomed] \in {0, 1}
  BY DEF InitInDestructor, EnterInit, CInv, ObjectsInv, DoomedInv, InitsInv, DestructorPcs
<1>2. inits \in [RunObj -> Nat] /\ live \subseteq RunObj
  BY DEF IInv, TypeOK
<1>3. PICK r \in RunObj : r = doomed
  BY <1>1, <1>2
<1>4. UNCHANGED <<live, started, dirty>> /\ inits' = [inits EXCEPT ![r] = @ + 1]
  BY <1>3 DEF InitInDestructor, EnterInit, memVars
<1>5. /\ \A x \in RunObj \ {r} : inits'[x] = inits[x]
      /\ inits'[r] = inits[r] + 1
  BY <1>2, <1>4
<1>6. Phases[r] = Phase(r) /\ Phases' = [Phases EXCEPT ![r] = Phase(r)']
  BY <1>4, <1>5, OnePhase
<1>7. \/ Phase(r) = "queued" /\ Phase(r)' = "started"
      \/ Phase(r) = "started" /\ Phase(r)' = "again"
  <2>1. CASE inits[r] = 0
    BY <2>1, <1>1, <1>3, <1>4, <1>5 DEF Phase
  <2>2. CASE inits[r] = 1
    BY <2>2, <1>1, <1>3, <1>4, <1>5 DEF Phase
  <2> QED
    BY <2>1, <2>2, <1>1, <1>3
<1> QED
  BY <1>6, <1>7 DEF Contract!Next, Contract!Promised, Contract!Initialize,
                    Contract!InitializeAgain, Contract!Move, Phases

\* Run() makes its experiment the active one, if it was not.
LEMMA RunContract == IInv /\ CInv /\ RunOnce => [Contract!Next]_Phases
<1> SUFFICES ASSUME IInv, CInv, RunOnce PROVE [Contract!Next]_Phases
  OBVIOUS
<1>1. cur \in live /\ dirty \subseteq {cur} /\ (started[cur] \/ inits[cur] = 1)
  BY DEF RunOnce, IInv, PcInv, ListInv, ApparatusInv, LoopPcs, SlicePcs, CInv, InitsInv
<1>2. started \in [RunObj -> BOOLEAN] /\ live \subseteq RunObj
  BY DEF IInv, TypeOK
<1>3. PICK r \in RunObj : r = cur
  BY <1>1, <1>2
<1>4. /\ UNCHANGED <<live, inits>>
      /\ dirty' = dirty \cup {r} /\ started' = [started EXCEPT ![r] = TRUE]
  BY <1>3 DEF RunOnce, memVars
<1>5. /\ \A x \in RunObj \ {r} : started'[x] = started[x] /\ (x \in dirty' <=> x \in dirty)
      /\ r \in dirty'
  BY <1>2, <1>4
<1>6. Phases[r] = Phase(r) /\ Phases' = [Phases EXCEPT ![r] = Phase(r)']
  BY <1>4, <1>5, OnePhase
<1>7. Phase(r)' = "active"
  BY <1>1, <1>3, <1>4, <1>5 DEF Phase
<1>8. CASE r \in dirty
  <2>1. Phase(r) = "active"
    BY <1>1, <1>3, <1>8 DEF Phase
  <2>2. Phases' = Phases
    BY <1>6, <1>7, <2>1 DEF Phases
  <2> QED
    BY <2>2
<1>9. CASE r \notin dirty
  <2>1. dirty = {}
    BY <1>1, <1>3, <1>9
  <2>2. Phase(r) \in {"started", "paused"}
    BY <1>1, <1>3, <2>1 DEF Phase
  <2>3. \A x \in RunObj : Phases[x] # "active"
    BY <2>1 DEF Phase, Phases
  <2> QED
    BY <1>6, <1>7, <2>2, <2>3 DEF Contract!Next, Contract!Promised, Contract!Activate,
                                  Contract!Move, Phases
<1> QED
  BY <1>8, <1>9

\* DefaultExperimentState pauses the active experiment.
LEMMA PauseContract ==
    ASSUME IInv, CInv, UNCHANGED <<live, started, inits>>, dirty' = dirty \/ dirty' = {}
    PROVE  [Contract!Next]_Phases
<1>1. CASE dirty' = dirty
  BY <1>1, SamePhases
<1>2. CASE dirty' = {} /\ dirty # {}
  <2>1. dirty = {cur} /\ cur \in live /\ started[cur] /\ live \subseteq RunObj
    BY <1>2 DEF CInv, ObjectsInv, IInv, TypeOK, ApparatusInv
  <2>2. PICK r \in RunObj : r = cur
    BY <2>1
  <2>3. \A x \in RunObj \ {r} : x \notin dirty /\ x \notin dirty'
    BY <1>2, <2>1, <2>2
  <2>4. Phases[r] = Phase(r) /\ Phases' = [Phases EXCEPT ![r] = Phase(r)']
    BY <2>3, OnePhase
  <2>5. Phase(r) = "active" /\ Phase(r)' = "paused"
    BY <1>2, <2>1, <2>2 DEF Phase
  <2> QED
    BY <2>4, <2>5 DEF Contract!Next, Contract!Promised, Contract!Pause, Contract!Move, Phases
<1> QED
  BY <1>1, <1>2

\* Deleting an object retires the run.
LEMMA RetireContract == IInv /\ CInv /\ LeaveDestructor => [Contract!Next]_Phases
<1> SUFFICES ASSUME IInv, CInv, LeaveDestructor PROVE [Contract!Next]_Phases
  OBVIOUS
<1>1. dirty = {} /\ doomed \in live /\ (started[doomed] \/ inits[doomed] \in {1, 2})
  BY DEF LeaveDestructor, IInv, ApparatusInv, CInv, DoomedInv, InitsInv, DestructorPcs
<1>2. /\ started \in [RunObj -> BOOLEAN] /\ inits \in [RunObj -> Nat] /\ live \subseteq RunObj
  BY DEF IInv, TypeOK
<1>3. PICK r \in RunObj : r = doomed
  BY <1>1, <1>2
<1>4. /\ live' = live \ {r} /\ UNCHANGED dirty
      /\ started' = [started EXCEPT ![r] = FALSE]
      /\ inits' = [inits EXCEPT ![r] = 0]
  BY <1>3 DEF LeaveDestructor
<1>5. \A x \in RunObj \ {r} : /\ started'[x] = started[x] /\ inits'[x] = inits[x]
                              /\ x \in live' <=> x \in live
  BY <1>2, <1>4
<1>6. Phases[r] = Phase(r) /\ Phases' = [Phases EXCEPT ![r] = Phase(r)']
  BY <1>4, <1>5, OnePhase
<1>7. Phase(r) \in {"started", "again", "paused"} /\ Phase(r)' = "idle"
  BY <1>1, <1>3, <1>4 DEF Phase
<1> QED
  BY <1>6, <1>7 DEF Contract!Next, Contract!Promised, Contract!Retire, Contract!Move, Phases

\* Every step of the two threads is a step of the contract or leaves it alone.
LEMMA NextContract == IInv /\ CInv /\ [Next]_vars => [Contract!Next]_Phases
<1> SUFFICES ASSUME IInv, CInv, [Next]_vars PROVE [Contract!Next]_Phases
  OBVIOUS
<1> USE DEF loopVars, memVars, objVars
<1>1. CASE LoopHead \/ LeaveInit \/ SliceStopped \/ AfterSlice \/ LeaveInitInDestructor
         \/ StopExperiment \/ DeleteBack \/ PopBack \/ ThreadEnds \/ NextExperiment
  <2>1. UNCHANGED <<live, started, inits>>
    BY <1>1 DEF LoopHead, LeaveInit, LeaveInitInDestructor, SliceStopped, AfterSlice,
         StopExperiment, DeleteBack, PopBack, ThreadEnds, NextExperiment
  <2>2. UNCHANGED dirty
    BY <1>1 DEF LoopHead, LeaveInit, LeaveInitInDestructor, SliceStopped, AfterSlice,
         StopExperiment, DeleteBack, PopBack, ThreadEnds, NextExperiment, Switch, IInv, PcInv,
         LoopPcs, Elems
  <2> QED
    BY <2>1, <2>2, PauseContract
<1>2. CASE GuiFinish \/ ClickRun \/ ClickStop \/ CloseWindow \/ DeliverPosted
         \/ UpdateButtons \/ ServeCall \/ Quit \/ (\E e \in Exp : SelectPage(e))
         \/ UNCHANGED vars
  <2>1. UNCHANGED <<live, started, inits, dirty>>
    BY <1>2 DEF GuiFinish, ClickRun, ClickStop, CloseWindow, DeliverPosted, UpdateButtons,
         ServeCall, Quit, SelectPage, schedState, vars
  <2> QED
    BY <2>1, PauseContract
<1>3. CASE ChooseNext \/ ExitLoop \/ EnterFinishRun
  <2>1. UNCHANGED <<live, started, inits>>
    BY <1>3 DEF ChooseNext, ExitLoop, EnterFinishRun
  <2>2. \/ dirty' = dirty \/ dirty' = dirty \ {cur}
        \/ pcS = "default" /\ dirty' = dirty \ {doomed}
    BY <1>3 DEF ChooseNext, Switch, ExitLoop, EnterFinishRun, DefaultExperimentState
  <2>3. dirty \subseteq {cur} /\ (pcS = "default" => dirty = {} \/ doomed = cur)
    BY DEF IInv, ApparatusInv, PcInv, DestructorPcs
  <2>4. dirty' = dirty \/ dirty' = {}
    BY <2>2, <2>3
  <2> QED
    BY <2>1, <2>4, PauseContract
<1>4. ASSUME NEW e \in Exp, CallbackLaunches(e)
      PROVE  [Contract!Next]_Phases
  BY <1>4, LaunchContract DEF CallbackLaunches
<1>5. CASE GuiStart
  <2>1. CASE IsRunning(page)
    <3>1. UNCHANGED <<live, started, inits, dirty>>
      BY <1>5, <2>1 DEF GuiStart, schedState
    <3> QED
      BY <3>1, PauseContract
  <2>2. CASE ~IsRunning(page)
    BY <1>5, <2>2, LaunchContract DEF GuiStart, schedState, IInv, TypeOK
  <2> QED
    BY <2>1, <2>2
<1> QED
  BY <1>1, <1>2, <1>3, <1>4, <1>5, InitContract, InitAgainContract, RunContract, RetireContract
     DEF Next, SchedulerStep, UserStep, GuiStep, Over

\* Every behaviour of the scheduler and the GUI thread is one that Experiment.h promises,
\* but for InitializeAgain: runs become active one at a time, are initialized before that
\* and never after it, and are retired only after they gave the apparatus back, also when
\* a destructor starts experiments and when the program ends.
\* Code: run(), RunTimeSlice, StopExperiment, ~RunObject.
THEOREM SchedulerImplementsContract == Spec => ImplementsContract
<1>0. Init => Contract!Init
  BY DEF Init, Contract!Init, Phase
<1>1. Init => IInv /\ CInv /\ Contract!Init
  BY <1>0, InitIInv, InitCInv
<1>2. IInv /\ CInv /\ [Next]_vars => IInv' /\ CInv'
  BY NextIInv, NextCInv
<1>3. IInv /\ CInv /\ [Next]_vars => [Contract!Next]_Phases
  BY NextContract
<1> QED
  BY <1>1, <1>2, <1>3, PTL DEF Spec, ImplementsContract, Contract!Spec, Phases
=============================================================================
