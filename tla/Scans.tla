------------------------------- MODULE Scans -------------------------------
(***************************************************************************)
(* Scans of a parameter: SourceScan visits a list of points, LockInScan    *)
(* modulates the parameter around a center and servoes the center.  Both   *)
(* borrow the parameter through a ScanSource, in the scheduler thread,     *)
(* while the user edits it in the GUI thread.                              *)
(*                                                                         *)
(* The scheduler is represented by its contract: the experiments are       *)
(* launched, activated, paused and retired as ExperimentContract allows.   *)
(* Setting the parameter takes two steps, the bookkeeping of ScanSource    *)
(* and SetValue; the user's edit may come between them.                    *)
(*                                                                         *)
(* Points, centers and counts are data: a correction of a servo moves the  *)
(* center to any of Centers.                                               *)
(***************************************************************************)
EXTENDS Integers, FiniteSets, Sequences

CONSTANTS
    Scan,             \* pages that run a SourceScan
    Lock,             \* pages that run a LockInScan
    Points,           \* the scanned values: Start + Step * i
    Centers,          \* values a servo may find
    Modulation,       \* GetModulation
    UserValues,       \* values the user enters
    ScanCounts,       \* values the user enters for NumScans
    NumMeasurements,  \* GetNumToTake
    Nobody,           \* no experiment
    EditsAnyTime,     \* the user also edits the parameter while it is being put back
    MaxLaunches       \* bound: launches in a behaviour

Exp     == Scan \cup Lock
Indices == DOMAIN Points
Sides   == 0 .. 2                            \* Left, Right, Center
Values  == UserValues \cup Centers \cup {Points[i] : i \in Indices}
             \cup {c - Modulation : c \in Centers \cup UserValues}
             \cup {c + Modulation : c \in Centers \cup UserValues}

ASSUME ScansAssumption ==
    /\ Scan \cap Lock = {} /\ Nobody \notin Scan \cup Lock
    /\ IsFiniteSet(Indices) /\ Indices # {}
    /\ Points \in [0 .. Cardinality(Indices) - 1 -> Int]
    /\ Centers \subseteq Int /\ UserValues \subseteq Int /\ UserValues # {}
    /\ Modulation \in Int /\ 0 \notin Values
    /\ ScanCounts \subseteq Nat \ {0} /\ ScanCounts # {}
    /\ NumMeasurements \in Nat \ {0}
    /\ EditsAnyTime \in BOOLEAN
    /\ MaxLaunches \in Nat

VARIABLES
    \* the parameter and its ScanSource
    value,          \* GetOutput()
    bHasNonScanningOutput,
    nonScanningOutput,
    \* the run objects, as the scheduler sees them
    phase,
    stopped,        \* ShouldStop() or IsFinished()
    launches,
    \* the scan objects
    default_state,  \* of the scan_variable
    indeces, current_index, scans_completed,
    iCurrentPoint, measured, num_new_points, runStatus,
    NumScans,       \* of the page, edited by the user
    \* the scheduler thread
    who,            \* the experiment whose code it runs
    pc,             \* where it is there
    then,           \* where it goes on when the parameter is set
    out,            \* the value being set
    \* history
    taken,          \* how often each point of the current scan was measured
    uses,           \* how many corrections used a measurement
    found,          \* the value at the beginning of the slice of a scan, 0 once the user edited it;
                    \* kept for ScanLeavesAsFound, unless EditsAnyTime
    clashed         \* a new normal value was remembered while an old one was noted elsewhere

sourceVars == <<value, bHasNonScanningOutput, nonScanningOutput>>
runVars    == <<phase, stopped, launches>>
pointVars  == <<indeces, current_index, scans_completed, taken>>
servoVars  == <<iCurrentPoint, measured, num_new_points, runStatus, uses>>
threadVars == <<who, pc, then, out>>
vars == <<sourceVars, runVars, default_state, pointVars, servoVars, NumScans, threadVars,
          found, clashed>>

NumPoints == Cardinality(Indices)
Contract  == INSTANCE ExperimentContract

\* The phases of an experiment that was initialized and not yet retired.
Begun == {"started", "again", "active", "paused"}

TypeOK ==
    /\ value \in Values /\ nonScanningOutput \in Values \cup {0}
    /\ out \in Values \cup {0} /\ found \in Values \cup {0}
    /\ bHasNonScanningOutput \in BOOLEAN /\ clashed \in BOOLEAN
    /\ phase \in [Exp -> {"idle", "queued"} \cup Begun]
    /\ stopped \in [Exp -> BOOLEAN] /\ launches \in 0 .. MaxLaunches
    /\ default_state \in [Exp -> Values \cup {0}]
    /\ indeces \in [Scan -> [Indices -> Indices]]
    /\ current_index \in [Scan -> 0 .. NumPoints]
    /\ scans_completed \in [Scan -> Nat] /\ NumScans \in ScanCounts
    /\ iCurrentPoint \in [Lock -> Sides] /\ measured \in [Lock -> SUBSET Sides]
    /\ num_new_points \in [Lock -> 0 .. NumMeasurements - 1]
    /\ runStatus \in [Lock -> {"OK", "IDLE", "NEED_MORE_DATA"}]
    /\ who \in Exp \cup {Nobody}
    /\ pc \in {"off", "run", "slice", "point", "set", "acquire", "next", "idle",
               "finished", "restore", "paused", "retire"}
    /\ then \in Seq({"acquire", "next", "restore", "finished", "paused", "retire"})
    /\ taken \in [Scan -> [Indices -> 0 .. 2]] /\ uses \in [Lock -> [Sides -> Nat]]

Init ==
    /\ value \in UserValues /\ bHasNonScanningOutput = TRUE /\ nonScanningOutput = 0
    /\ phase = [e \in Exp |-> "idle"] /\ stopped = [e \in Exp |-> FALSE] /\ launches = 0
    /\ default_state = [e \in Exp |-> 0]
    /\ indeces = [e \in Scan |-> [i \in Indices |-> i]]
    /\ current_index = [e \in Scan |-> 0] /\ scans_completed = [e \in Scan |-> 0]
    /\ iCurrentPoint = [e \in Lock |-> 0] /\ measured = [e \in Lock |-> {}]
    /\ num_new_points = [e \in Lock |-> 0] /\ runStatus = [e \in Lock |-> "OK"]
    /\ NumScans \in ScanCounts
    /\ who = Nobody /\ pc = "off" /\ then = <<>> /\ out = 0
    /\ taken = [e \in Scan |-> [i \in Indices |-> 0]]
    /\ uses = [e \in Lock |-> [i \in Sides |-> 0]]
    /\ found = 0 /\ clashed = FALSE

-----------------------------------------------------------------------------
(* The parameter.  A definition whose name ends in _Something is a plausible  *)
(* slip in the definition that follows it.                                    *)

GoTo(place) == pc' = place /\ UNCHANGED then

\* ScanSource::SetScanOutput, before the subclass sets the parameter: the normal value
\* is remembered when it is about to be overwritten.
SetScanOutput_AlwaysRemembers(d, places) ==
    /\ nonScanningOutput' = value
    /\ bHasNonScanningOutput' = (nonScanningOutput' = d)
    /\ out' = d /\ pc' = "set" /\ then' = places
    /\ UNCHANGED value

SetScanOutput(d, places) ==
    /\ nonScanningOutput' = IF bHasNonScanningOutput THEN value ELSE nonScanningOutput
    /\ bHasNonScanningOutput' = (nonScanningOutput' = d)
    /\ out' = d /\ pc' = "set" /\ then' = places
    /\ UNCHANGED value

\* setNonScanningValue(d), which source_scan_variable::set_default_state calls.
SetNonScanningValue_NotRemembered(d, places) == SetScanOutput(d, places)
SetNonScanningValue(d, places) ==
    /\ nonScanningOutput' = d
    /\ bHasNonScanningOutput' = TRUE
    /\ out' = d /\ pc' = "set" /\ then' = places
    /\ UNCHANGED value

\* getNonScanningValue(), which the GUI thread calls without a lock.
NonScanningValue == IF bHasNonScanningOutput THEN value ELSE nonScanningOutput

\* scan_variable::default_state is a second note of the normal value: a servo keeps one
\* until it is retired, setDefaultValue has one in its hands.
NotedElsewhere(e) == pc = "restore" \/ \E l \in Lock \ {e} : phase[l] \in Begun

\* DoubleScanSource::SetScanOutput: pDouble->SetValue(d), and SendParam to the FPGA.
SetValue ==
    /\ pc = "set"
    /\ value' = out /\ out' = 0
    /\ pc' = Head(then) /\ then' = Tail(then)
    /\ UNCHANGED <<bHasNonScanningOutput, nonScanningOutput, runVars, default_state,
                   pointVars, servoVars, NumScans, who, found, clashed>>

-----------------------------------------------------------------------------
(* The life of a scan object. *)

IsFinished(e) == stopped[e] \/ (e \in Scan /\ scans_completed[e] >= NumScans)

\* StartScan, with the points in any order if ScatterScan is set.
StartScan(e) ==
    /\ \E order \in [Indices -> Indices] :
         /\ \A i, j \in Indices : order[i] = order[j] => i = j
         /\ indeces' = [indeces EXCEPT ![e] = order]
    /\ current_index' = [current_index EXCEPT ![e] = 0]

\* InitExperimentStart: CreateScan and InitializeScan.
InitExperimentStart(e) ==
    /\ default_state' = [default_state EXCEPT ![e] = value]
    /\ \/ /\ e \in Scan
          /\ StartScan(e)
          /\ scans_completed' = [scans_completed EXCEPT ![e] = 0]
          /\ taken' = [taken EXCEPT ![e] = [i \in Indices |-> 0]]
          /\ UNCHANGED servoVars
       \/ /\ e \in Lock
          /\ iCurrentPoint' = [iCurrentPoint EXCEPT ![e] = 0]
          /\ measured' = [measured EXCEPT ![e] = {}]
          /\ uses' = [uses EXCEPT ![e] = [i \in Sides |-> 0]]
          /\ num_new_points' = [num_new_points EXCEPT ![e] = 0]
          /\ runStatus' = [runStatus EXCEPT ![e] = "OK"]
          /\ UNCHANGED pointVars

\* InitExperimentSwitch of a scan: only counters for display.
InitExperimentSwitch_StartsOver(e) ==
    /\ IF e \in Scan THEN StartScan(e) ELSE UNCHANGED <<indeces, current_index>>
    /\ iCurrentPoint' = [l \in Lock |-> IF l = e THEN 0 ELSE iCurrentPoint[l]]
    /\ UNCHANGED <<default_state, scans_completed, taken, measured, num_new_points, runStatus,
                   uses>>
InitExperimentSwitch(e) == UNCHANGED <<default_state, pointVars, servoVars>>

\* DefaultExperimentState: a servo goes to its center, a scan to its default state and
\* then to the non-scanning value.
DefaultExperimentState_NoRestore(e, places) == SetScanOutput(default_state[e], places)
DefaultExperimentState(e, places) ==
    SetScanOutput(default_state[e], IF e \in Scan THEN <<"restore">> \o places ELSE places)

\* ScanSource::setDefaultValue
Restore ==
    /\ pc = "restore"
    /\ SetScanOutput(nonScanningOutput, then)
    /\ UNCHANGED <<runVars, default_state, pointVars, servoVars, NumScans, who, found,
                   clashed>>

-----------------------------------------------------------------------------
(* The scheduler calls the experiments. *)

\* Between two experiments.  RunTimeSlice goes on with the one it initialized.
Free(e) == who = Nobody /\ \A f \in Exp \ {e} : phase[f] # "started"

\* The first slice calls InitExperimentStart.
Initialize(e) ==
    /\ Free(e) /\ ~stopped[e]
    /\ Contract!Initialize(e)
    /\ InitExperimentStart(e)
    /\ UNCHANGED <<sourceVars, stopped, launches, NumScans, threadVars, found, clashed>>

\* Every slice after another experiment calls InitExperimentSwitch.
Activate(e) ==
    /\ Free(e) /\ ~stopped[e]
    /\ Contract!Activate(e)
    /\ who' = e /\ GoTo("run")
    /\ InitExperimentSwitch(e)
    /\ found' = IF e \in Scan /\ ~EditsAnyTime THEN value ELSE 0
    /\ UNCHANGED <<sourceVars, stopped, launches, NumScans, out, clashed>>

Run_NotCounted(e) ==
    /\ who = e
    /\ pc = "run" \/ (pc = "slice" /\ ~stopped[e])
    /\ GoTo("point")
    /\ IF e \in Scan /\ current_index[e] = NumPoints
         THEN StartScan(e) /\ taken' = [taken EXCEPT ![e] = [i \in Indices |-> 0]]
         ELSE UNCHANGED <<indeces, current_index, taken>>
    /\ UNCHANGED <<sourceVars, runVars, default_state, scans_completed, servoVars, NumScans, who,
                   out, found, clashed>>

\* Run() of a SourceScan enters Scan_Fittable::DataPoint, which starts the next scan
\* when the last one is complete.
Run(e) ==
    /\ who = e
    /\ pc = "run" \/ (pc = "slice" /\ ~stopped[e])
    /\ GoTo("point")
    /\ IF e \in Scan /\ current_index[e] = NumPoints
         THEN /\ scans_completed' = [scans_completed EXCEPT ![e] = @ + 1]
              /\ taken' = [taken EXCEPT ![e] = [i \in Indices |-> 0]]
              /\ IF stopped[e] \/ scans_completed'[e] >= NumScans
                   THEN UNCHANGED <<indeces, current_index>>
                   ELSE StartScan(e)
         ELSE UNCHANGED pointVars
    /\ UNCHANGED <<sourceVars, runVars, default_state, servoVars, NumScans, who, out, found,
                   clashed>>

\* The end of DataPoint: SetFinished() and DefaultExperimentState(), FINISHED.
FinishScan(e) ==
    /\ stopped' = [stopped EXCEPT ![e] = TRUE]
    /\ DefaultExperimentState(e, <<"finished">>)

\* Scan_Base::DataPoint, up to the measurement.  indeces.at(current_index) throws when
\* NumScans was raised after Run looked at it: RunTimeSlice is left and the object
\* finished.
DataPoint(e) ==
    /\ who = e /\ pc = "point"
    /\ \/ IsFinished(e) /\ FinishScan(e) /\ UNCHANGED runStatus
       \/ /\ ~IsFinished(e) /\ e \in Scan /\ current_index[e] < NumPoints
          /\ SetScanOutput(Points[indeces[e][current_index[e]]], <<"acquire">>)
          /\ UNCHANGED <<stopped, runStatus>>
       \/ /\ ~IsFinished(e) /\ e \in Scan /\ current_index[e] = NumPoints
          /\ stopped' = [stopped EXCEPT ![e] = TRUE]
          /\ GoTo("finished")
          /\ UNCHANGED <<sourceVars, out, runStatus>>
       \/ /\ ~IsFinished(e) /\ e \in Lock /\ runStatus[e] = "IDLE"
          /\ runStatus' = [runStatus EXCEPT ![e] = "OK"]
          /\ GoTo("idle")
          /\ UNCHANGED <<sourceVars, out, stopped>>
       \/ /\ ~IsFinished(e) /\ e \in Lock /\ runStatus[e] # "IDLE"
          /\ SetScanOutput(default_state[e] + (<<-Modulation, Modulation, 0>>)[iCurrentPoint[e] + 1],
                           <<"acquire">>)
          /\ UNCHANGED <<stopped, runStatus>>
    /\ UNCHANGED <<phase, launches, default_state, pointVars, iCurrentPoint, measured,
                   num_new_points, uses, NumScans, who, found, clashed>>

\* GenericExperiment and UseValidData of a SourceScan.
AcquirePoint(e) ==
    /\ e \in Scan
    /\ taken' = [taken EXCEPT ![e][indeces[e][current_index[e]]] = @ + 1]
    /\ GoTo("next")
    /\ UNCHANGED <<sourceVars, default_state, out, measured, uses, clashed>>

\* Does LockInParams::RespondToMeasurements correct the center now?
Responds(e, all) == iCurrentPoint[e] \in {0, 1} /\ all = Sides

\* The same of a LockInScan.  SetCenter does nothing if the center stays.
AcquireSide(e) ==
    /\ e \in Lock
    /\ LET i   == iCurrentPoint[e]
           all == measured[e] \cup {i}
           u   == [uses[e] EXCEPT ![i] = 0]
       IN  /\ measured' = [measured EXCEPT ![e] = all]
           /\ IF Responds(e, all)
                THEN /\ uses' = [uses EXCEPT ![e] = [u EXCEPT ![0] = @ + 1, ![1] = @ + 1]]
                     /\ \/ GoTo("next") /\ UNCHANGED <<sourceVars, default_state, out, clashed>>
                        \/ \E c \in Centers \ {default_state[e]} :
                             /\ default_state' = [default_state EXCEPT ![e] = c]
                             /\ SetNonScanningValue(c, <<"next">>)
                             /\ clashed' = (clashed \/ NotedElsewhere(e))
                ELSE /\ uses' = [uses EXCEPT ![e] = u]
                     /\ GoTo("next")
                     /\ UNCHANGED <<sourceVars, default_state, out, clashed>>
    /\ UNCHANGED taken

Acquire(e) ==
    /\ who = e /\ pc = "acquire"
    /\ AcquirePoint(e) \/ AcquireSide(e)
    /\ UNCHANGED <<runVars, indeces, current_index, scans_completed, iCurrentPoint,
                   num_new_points, runStatus, NumScans, who, found>>

\* The end of UseValidData of a servo: IDLE after every NumMeasurements points.
CountMeasurement(e) ==
    LET full == num_new_points[e] + 1 = NumMeasurements
    IN  /\ num_new_points' = [num_new_points EXCEPT ![e] = IF full THEN 0 ELSE @ + 1]
        /\ runStatus' = [runStatus EXCEPT ![e] = IF full THEN "IDLE" ELSE "NEED_MORE_DATA"]

\* NextDataPoint, and the end of DataPoint.
NextDataPoint_NoWrap(e) ==
    /\ e \in Lock /\ CountMeasurement(e)
    /\ iCurrentPoint' = [iCurrentPoint EXCEPT ![e] = @ + 1]
    /\ UNCHANGED current_index
NextDataPoint(e) ==
    \/ /\ e \in Scan
       /\ current_index' = [current_index EXCEPT ![e] = @ + 1]
       /\ UNCHANGED <<iCurrentPoint, num_new_points, runStatus>>
    \/ /\ e \in Lock
       /\ CountMeasurement(e)
       /\ iCurrentPoint' = [iCurrentPoint EXCEPT ![e] = (@ + 1) % 3]
       /\ UNCHANGED current_index

EndDataPoint(e) ==
    /\ who = e /\ pc = "next"
    /\ NextDataPoint(e)
    /\ \/ IsFinished(e) /\ FinishScan(e)
       \/ ~IsFinished(e) /\ GoTo("slice") /\ UNCHANGED <<sourceVars, out, stopped>>
    /\ UNCHANGED <<phase, launches, default_state, indeces, scans_completed, taken, measured,
                   uses, NumScans, who, found, clashed>>

\* After IDLE the scheduler may choose the same experiment again.
Continue(e) ==
    /\ who = e /\ pc = "idle"
    /\ GoTo("slice")
    /\ UNCHANGED <<sourceVars, runVars, default_state, pointVars, servoVars, NumScans, who,
                   out, found, clashed>>

\* The slice is over and another experiment is next.
Preempt(e) ==
    /\ who = e /\ pc \in {"slice", "idle"}
    /\ DefaultExperimentState(e, <<"paused">>)
    /\ UNCHANGED <<runVars, default_state, pointVars, servoVars, NumScans, who, found,
                   clashed>>

\* A stopped object is destroyed when it is current; one that never ran is initialized
\* first.
Destroy(e) ==
    /\ stopped[e]
    /\ \/ /\ who = e /\ pc \in {"slice", "idle", "finished"}
          /\ DefaultExperimentState(e, <<"paused", "retire">>)
          /\ UNCHANGED <<phase, default_state, pointVars, servoVars>>
       \/ /\ Free(e) /\ phase[e] = "paused"
          /\ DefaultExperimentState(e, <<"retire">>)
          /\ UNCHANGED <<phase, default_state, pointVars, servoVars>>
       \/ /\ Free(e)
          /\ Contract!Initialize(e) \/ Contract!InitializeAgain(e)
          /\ InitExperimentStart(e)
          /\ SetScanOutput(value, IF e \in Scan THEN <<"restore", "retire">> ELSE <<"retire">>)
    /\ who' = e
    /\ UNCHANGED <<stopped, launches, NumScans, found, clashed>>

\* The parameter is returned.  A clash is over if no servo is left with a note of its own.
ClashEnds ==
    clashed' = (clashed /\ ~(/\ bHasNonScanningOutput
                            /\ \A l \in Lock : phase'[l] \notin Begun))

\* DefaultExperimentState has returned.
Pause(e) ==
    /\ who = e /\ pc = "paused"
    /\ Contract!Pause(e)
    /\ found' = 0
    /\ IF then = <<>>
         THEN who' = Nobody /\ GoTo("off") /\ ClashEnds
         ELSE pc' = Head(then) /\ then' = Tail(then) /\ UNCHANGED <<who, clashed>>
    /\ UNCHANGED <<sourceVars, stopped, launches, default_state, pointVars, servoVars,
                   NumScans, out>>

\* FinishRun: the fit changes nothing here.  Nothing reads the scan object any more, which
\* InitExperimentStart will replace; its state is forgotten.
Retire(e) ==
    /\ who = e /\ pc = "retire"
    /\ Contract!Retire(e)
    /\ who' = Nobody /\ GoTo("off") /\ ClashEnds
    /\ default_state' = [default_state EXCEPT ![e] = 0]
    /\ indeces' = [s \in Scan |-> IF s = e THEN [i \in Indices |-> i] ELSE indeces[s]]
    /\ current_index' = [s \in Scan |-> IF s = e THEN 0 ELSE current_index[s]]
    /\ scans_completed' = [s \in Scan |-> IF s = e THEN 0 ELSE scans_completed[s]]
    /\ taken' = [s \in Scan |-> IF s = e THEN [i \in Indices |-> 0] ELSE taken[s]]
    /\ iCurrentPoint' = [l \in Lock |-> IF l = e THEN 0 ELSE iCurrentPoint[l]]
    /\ measured' = [l \in Lock |-> IF l = e THEN {} ELSE measured[l]]
    /\ uses' = [l \in Lock |-> IF l = e THEN [i \in Sides |-> 0] ELSE uses[l]]
    /\ num_new_points' = [l \in Lock |-> IF l = e THEN 0 ELSE num_new_points[l]]
    /\ runStatus' = [l \in Lock |-> IF l = e THEN "OK" ELSE runStatus[l]]
    /\ UNCHANGED <<sourceVars, stopped, launches, NumScans, out, found>>

-----------------------------------------------------------------------------
(* The user. *)

Launch(e) ==
    /\ launches < MaxLaunches /\ launches' = launches + 1
    /\ Contract!Launch(e)
    /\ stopped' = [stopped EXCEPT ![e] = FALSE]
    /\ UNCHANGED <<sourceVars, default_state, pointVars, servoVars, NumScans, threadVars,
                   found, clashed>>

Stop(e) ==
    /\ phase[e] # "idle" /\ ~stopped[e]
    /\ stopped' = [stopped EXCEPT ![e] = TRUE]
    /\ UNCHANGED <<sourceVars, phase, launches, default_state, pointVars, servoVars, NumScans,
                   threadVars, found, clashed>>

\* DefaultExperimentState is putting the parameter back.
Restoring ==
    pc \in {"set", "restore"} /\ \A i \in DOMAIN then : then[i] \notin {"acquire", "next"}

\* An edit of the parameter.  The source takes it for the new normal value unless it has
\* put an old one aside or is about to overwrite the parameter.
Edit(v) ==
    /\ v # value
    /\ EditsAnyTime \/ ~Restoring
    /\ value' = v
    /\ found' = 0
    /\ clashed' = (clashed \/ (bHasNonScanningOutput /\ pc # "set" /\ NotedElsewhere(Nobody)))
    /\ UNCHANGED <<bHasNonScanningOutput, nonScanningOutput, runVars, default_state,
                   pointVars, servoVars, NumScans, who, pc, then, out>>

EditNumScans(n) ==
    /\ n # NumScans /\ NumScans' = n
    /\ UNCHANGED <<sourceVars, runVars, default_state, pointVars, servoVars, threadVars,
                   found, clashed>>

ThreadStep(e) ==
    \/ Run(e) \/ DataPoint(e) \/ Acquire(e) \/ EndDataPoint(e) \/ Continue(e) \/ Pause(e)
    \/ Retire(e)
ScanStep == SetValue \/ Restore \/ \E e \in Exp : ThreadStep(e)
Choose(e)   == Initialize(e) \/ Activate(e) \/ Destroy(e)
Schedule(e) == Choose(e) \/ Preempt(e)
UserStep ==
    \/ \E e \in Exp : Launch(e) \/ Stop(e)
    \/ \E v \in UserValues : Edit(v)
    \/ \E n \in ScanCounts : EditNumScans(n)

Next == ScanStep \/ (\E e \in Exp : Schedule(e)) \/ UserStep

Spec == Init /\ [][Next]_vars

\* The scheduler thread runs; the scheduler chooses every listed experiment again and again,
\* a stopped one to remove it, and does not stay with one for ever (EveryoneRuns and
\* StopIsHonoured of ScanScheduler).  Nothing is assumed of the user.
FairSpec ==
    /\ Spec
    /\ WF_vars(ScanStep)
    /\ SF_vars(\E e \in Exp : Preempt(e))
    /\ \A e \in Exp : SF_vars(Choose(e))

-----------------------------------------------------------------------------
(* Properties. *)

\* A scan is counted as completed only when each of its points was measured exactly
\* once, however often it was preempted and in whatever order the points come.
\* Code: current_index, indeces and scans_completed of Scan_Fittable.
CompleteScans ==
    [][\A e \in Scan : scans_completed'[e] > scans_completed[e] =>
            \A i \in Indices : taken[e][i] = 1]_vars

\* No measurement of a servo is used for more than two corrections, the one of its own
\* side and the next one of the other side: a preemption does not restart the cycle.
\* Code: iCurrentPoint and measurements of LockInScan survive InitExperimentSwitch.
MeasurementsAreFresh == \A l \in Lock : \A i \in Sides : uses[l][i] <= 2

\* A slice of a scan leaves the parameter as it found it, unless the user edited it.
\* Code: ScanSource.h, "the state can be returned to 'normal' when this experiment is
\* over or on hold".
ScanLeavesAsFound == [][\A e \in Scan : Pause(e) /\ found # 0 => value = found]_vars

\* A scan with a finite number of repetitions ends, also when the user raises NumScans.
\* Code: scans_completed, IsFinished and SetFinished.
ScanEnds == \A e \in Scan : phase[e] = "active" ~> phase[e] = "idle"

\* A servo returns IDLE again and again, so that its page lets others run.
\* Code: num_new_points, setRunStatus, the first lines of DataPoint.
ServoIdles == \A l \in Lock : phase[l] = "active" ~> stopped[l] \/ (who = l /\ pc = "idle")

\* Whatever is measured gives way to other experiments in the end.
MeasurementsGiveWay == ScanEnds /\ ServoIdles

\* The scans borrow the parameter as ParameterLoan demands, whenever the user edits it: the
\* normal value is kept whatever a scan does, and the parameter has it when it is returned,
\* unless an edit or another servo clashed with a note of the old value.  What
\* getNonScanningValue() tells may be wrong only while the parameter is being written.
\* Code: ScanSource, "Doesn't this clash with scan_variable::default_state ?"
Normal   == IF bHasNonScanningOutput /\ pc # "set" THEN value ELSE nonScanningOutput
Borrower == IF who \in Scan THEN "scan" ELSE IF who \in Lock THEN "servo" ELSE "nobody"
Loan == INSTANCE ParameterLoan
            WITH normal <- Normal, told <- NonScanningValue, lent <- Borrower,
                 writing <- (pc = "set")
ImplementsLoan == Loan!Spec
=============================================================================
