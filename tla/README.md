# A TLA+ model of Ionizer/Aluminizer

Ionizer controls an ion-trap clock experiment. A Qt program on a PC (`src/aluminizer`)
schedules experiments, scans parameters, fits and plots results; a PowerPC inside an
FPGA (`src/aluminizerFPGA`) runs the pulse sequences on custom hardware
(`src/FPGA/customIP2`); `src/aluminizerSIM` replaces the FPGA in tests on a PC. This
directory holds TLA+ modules translated from that code, TLC configurations that
check them on small instances, and TLAPS proofs.

## Inventory

Paths are relative to `src/`.

| Part | State | Operations | Interacts with | Hard behaviour | What makes it correct |
|---|---|---|---|---|---|
| **Experiment scheduler** `aluminizer/ScanScheduler`, `RunObject`, `Experiment.h`, `ExperimentPage`, `ExperimentsSheet` | vector `interleaved_experiments`, `pCurrentExp`, `bNeedInit`, the lock, per object `bIsFinished`, `num_time_slices`, `tLastRan`; per page `pRunObject` | `run`, `StartExperiments`, `FinishExperiment`, `StopExperiment`, `GetNextExperiment`, `RunTimeSlice`, `~RunObject`; the buttons and the close event | GUI thread shares the vector and the objects; callbacks (`InitExperimentStart`, `Run`, `FinishRun`) start experiments and wait for the GUI thread; `UpdateButtons` is a queued call | two threads, raw pointers, callbacks under a lock, exceptions, closing at any moment | no dangling or duplicate entry, one run per page, apparatus handed over, no starvation, stop and close take effect, buttons agree |
| **Link between host and FPGA** `aluminizer/FPGA_connection`, `FPGA_TCP`, `GbE_msg`; `aluminizerFPGA/host_interface`, `ProcessMessage`, `MessageLoop`, `GbE_msg`, `ionizer_app` | `fpga_lock`, `msg_id`, the byte streams, `num_messages`, `bDebugPulses`, TTL masks | `rfc`, `SendParams`, `GenericExperiment`, `SetLogicState`, `DispatchMsg`; `process_message`, `sendInfoMsg`, `sendDebugMsg`, `updateGUI_param` | every page calls it from the GUI thread, the running experiment from the scheduler thread | messages of the FPGA inside a call, exceptions, lost connection, restart of either side | each call executed once and answered by its own reply; acknowledgements in step; calls return |
| **Calibrations** `aluminizer/TransitionPage`, `AlignmentPage`, `CalibrationPage`, `DopplerTempCalibration`, `ExpListAl` | lists of pending calibrations, owned run objects, `page_updated` condition | `slot_cal_t`, `DidCalibration`, `DoCalibration`, `AddCalibration` | scheduler (owned run objects run inside their owner's slice), GUI thread | lists changed by two threads, lost wakeup in `DoCalibration`, an owner that never gets back its slice, blocking calls under locks | each requested calibration is measured, reported to the page that asked for it, and ends |
| **Parameter pages** `aluminizer/TxtParametersGUI`, `ParameterGUI_Base`, `FPGA_GUI`, `InputParameters` | `revision`/`gui_revision` of each parameter, `page_lock`, `bUpdateNeeded` | user edit, `UpdateData`, `RecalculateParameters`, value update from the FPGA | link (`SendParam`), scheduler (callbacks set values) | accesses in two halves, `tryLockForWrite` drops work, at most ten recalculations, queued updates | a copy that counts as current is current; widget and value agree once everything is quiet |
| **Scans** `aluminizer/ScanObject`, `LockScan`, `scan_variable`, `ScanSource`, `ExpSCAN` | point index, lock-in cycle, averages, default values of scanned variables | `StartScan`, `DataPoint`, `NextDataPoint`, `InitExperimentSwitch`, `DefaultExperimentState` | scheduler, link | preemption between two points of a lock-in cycle, scanned values to be restored while the user edits them | every point measured once per scan; no measurement used more often than it may be; the parameter put back; scans end |
| **Experiments on the FPGA** `aluminizerFPGA/experiments`, `exp_results`, `exp_recover`, `detection_stats`, `FluorescenceChecker`, `remote_params`, `Al/*` | channels, result message, probabilities of the ions' states, `clock_state`, `mFg_current`, `probe_order` | `run`, `run_exp`, `get_clock_state`, `prepAndCheck`, `recover_ion`, `checked_pulse` | link, pulse controller; experiments share the ions and `clock_state` | states that can only be inferred, a state carried from one experiment to the next, retries, overtime, results to be collected in the order pulses were queued | the inferred state is the true one unless photons mislead; transitions reported are those the ions made; every probe of a list is made; runs and recovery end |
| **Pulse controller** `FPGA/customIP2/.../pulse_controller.c`, its Verilog, `aluminizerSIM/sim_*` | instruction FIFO, result FIFO, timing flags, DDS registers | `pulse`, `set_dds_freq`, `get_PMT`, `enable/disable_timing_check` | FPGA experiments | bounded FIFOs, underflow, stale timing flag | a read returns the photons since the last read; no result is lost or misread; an underflow is reported |
| **Voltages** `aluminizerFPGA/dacI`, `voltagesI`, `aluminizer/Voltages2` | DAC words, ramp tables | `rampTo`, `updateVoltages` | link, recovery | ramp interrupted by an update | ramps end at the requested settings |
| **Ovens and motors** `aluminizer/Ovens`, `MotorsPage`, `aluminizerFPGA/motors` | output words, shutters | `RunOvens::Run`, `set_output` | scheduler, link | STOP at any moment | outputs are off when the page is not running |
| **LaserBrothers** `LaserBrothers/src` | lock state of two cavities | acquire, lock, hill-climb | own program | search versus manual control | returns to acquire on loss of lock |
| Fits, plots, signal processing, atomic physics `aluminizer/Fit*`, `plotlib`, `GSC`, `correlate`, `shared/src`, `aluminizerFPGA/exp_LMS`, `exp_correlate`, `shared/src/HFS*` | numerical | pure computations over reals | | floating point | out of TLC's reach |
| Drivers `aluminizer/RS232`, comedi; generated FPGA projects, `deploy`, `thirdparty`, `www` | | | | | I/O, generated or not the program's own |

## Modules

| Module | Content |
|---|---|
| `SchedulerList` | the vector operations of the scheduler as operators on sequences |
| `ScanScheduler` | scheduler thread, GUI thread, run objects, lock |
| `ExperimentContract` | what `Experiment.h` promises the author of an experiment; abstract |
| `Scans` | scans and servos of a parameter; uses `ExperimentContract` as its scheduler |
| `ParameterLoan` | what `ScanSource.h` promises about a scanned parameter; abstract |
| `Calibrations` | a page's list of calibrations, owned run objects, `DoCalibration`, the GUI thread |
| `Parameters` | an entry of the data base, parameter objects, widgets of a page, two threads |
| `HostLink` | calling threads, TCP streams, the FPGA's message loop, faults |
| `RemoteCall` | what "remote function call" promises a thread; abstract |
| `PulseController` | driver, instruction and result FIFO, state machine, PMT counter, timing check, `checked_pulse` |
| `PhotonCounter` | what reading the photomultiplier promises an experiment; abstract |
| `ClockLock` | clock experiments of the FPGA: inference of ion states, preparation, probe list and overtime |
| `ScanSchedulerProofs`, `CalibrationsProofs`, `ScansProofs`, `ParametersProofs`, `HostLinkProofs`, `PulseControllerProofs`, `ClockLockProofs` | theorems about the module of that name |
| `ContractProofs` | `ScanScheduler` implements `ExperimentContract` |
| `MCScanScheduler`, `MCScans`, `MCCalibrations`, `MCParameters`, `MCHostLink`, `MCPulseController`, `MCClockLock` | instances for TLC |

The modules meet at abstract specifications. `ScanScheduler` implements `ExperimentContract`, and
`Scans` lets its scheduler do what that contract allows, so each is checked without the other's
states; the fairness `Scans` assumes of its scheduler is what run `live` shows of `ScanScheduler`.
`Scans` implements `ParameterLoan`. Where the program does not keep a promise entirely, the abstract
module says so in an action or variable of its own: `InitializeAgain` of `ExperimentContract`, which
`Strict` excludes, and `clashed` and `writing` of `ParameterLoan`; see Findings.

A definition whose name ends in `_Something` (for instance `EraseCurrent_Forgotten`) is a
plausible slip in the definition that follows it. Nothing uses it in the specification; it is
there to show that the property named in `PROJECT.json` notices that slip.

### ScanScheduler

The scheduler thread has a program counter `pcS` for the places of `ScanScheduler::run`,
`RunTimeSlice`, `StopExperiment` and `~RunObject` where it can be interrupted; the GUI thread
has `pcG`. An address of a run object is a model value: the allocator may return any address
that is free, and `pRunObject` keeps an address after its object was deleted, as in the code.

* `LoopHead` .. `ChooseNext` are one turn of the loop of `run` (lines 73 to 187). `NextExperiment`
  and `ChooseNext` are `GetNextExperiment`, which takes no lock: `sized` is the size `priorities` got, and if the
  GUI thread has appended an object since, the loop over the list may write past that vector, which
  ends the program here ("crashed"), or have ended before. `Switch` is the end of the loop body.
* `InitInSlice`, `LeaveInit`, `RunOnce`, `SliceStopped` are `RunTimeSlice`. `RunOnce` joins
  `InitExperimentSwitch` and the call of `Run` that follows it, because nothing of what is
  modelled lies between them.
* `StopExperiment`, `InitInDestructor`, `LeaveInitInDestructor`, `EnterFinishRun`,
  `LeaveDestructor` are the removal of an object, under the lock. `ExitLoop`, `DeleteBack`,
  `PopBack`, `ThreadEnds` are the last lines of `run`, which delete all objects.
* `CallbackLaunches` is `StartExperiments` called from a callback. The constant `Launches` says
  which callback of which experiment may start which other one: the alignment page starts a
  calibration from `InitExperimentStart`, an experiment list starts others from `Run`, the
  `DidCalibration` of an alignment page, called from `FinishRun` of the calibration, starts
  the alignment page again.
* `call` is a blocking queued call (`signal_setup_plots`) of a callback to the GUI thread.
* `posted` is a queued `UpdateButtons`.
* `Hung` says that the two threads wait for each other: the scheduler thread for the slot of a queued call,
  the GUI thread for the end of the scheduler thread or for the lock it holds. `Halted` is that or a crash.
* `inits` is history: the calls of `InitExperimentStart` for an object. `ExperimentContract` speaks of one
  run of an experiment, which is one object (`Phase`).

Abstractions. Time is counted in calls of `Run`, of equal length. Sections that the GUI thread
runs under the lock are single steps. `Stop` sets `bStopNow` and `bIsFinished` in one step. A
list handed to `StartExperiments` is started one by one, so the lock may be free between two
of them; the code keeps it, so the model has more behaviours. Objects that own another object
(`RunObject::SetOwner`, calibrations of a transition page) are in `Calibrations`. The result
`NEED_MORE_DATA`, which prolongs a slice, is in the model because `RunTimeSlice` handles it,
although no `Run` of the program returns it at present.

### Scans

An experiment is a `SourceScan` (a list of points, `indeces` in any order if the page scatters
them) or a `LockInScan` (left, right and center of a line). `Activate`, `Preempt`, `Destroy`,
`Pause`, `Retire` are the scheduler's calls, each constrained by `ExperimentContract`. `Run`,
`DataPoint`, `Acquire`, `EndDataPoint`, `Continue` are one call of `Run` of the page, in the order
of `Scan_Base::DataPoint`: output, measurement, `NextDataPoint`, the test for the end.
`SetScanOutput`, `SetNonScanningValue`, `Restore` are the bookkeeping of `ScanSource`; `SetValue`
is the assignment to the parameter that follows it. `pc` "set" lies between the two, and there
the user may edit the parameter (`Edit`), as `DoubleScanSource` takes no lock.

Abstractions. What is measured is not modelled: a servo's correction may move the center to any
of `Centers` or leave it. `taken` and `uses` are history: how often each point was measured in the
current scan, and how many corrections used a measurement. `found` is the parameter's value at the
beginning of a slice, 0 after an edit and where `EditsAnyTime` (only `clash` needs it).

The normal value of the parameter is noted in up to three places: `nonScanningOutput`, the
`default_state` of a servo, and the hands of `setDefaultValue`. `clashed` is history: a new normal value, of the
user or of a servo, was remembered while an older one was noted elsewhere (`NotedElsewhere`).
`Normal`, the refinement mapping to `ParameterLoan`, is the normal value; `NonScanningValue` is what
`getNonScanningValue()` returns to the GUI thread, at any moment and without a lock: the value at hand, even if
that is the scan point that `SetValue` is about to replace. `EditsAnyTime` says whether the user also
edits the parameter while `DefaultExperimentState` puts it back; he does in the passing run, and `clash` needs no
such edit. The user may raise and lower `NumScans` at any time, also between the end of a scan and the
next point, where `indeces.at` then throws.

`NumMeasurements` is a constant. In the code the user edits it (`ExpSCAN.cpp:1163`), and a servo whose count is
above the new number no longer returns `IDLE`, as `LockScan.cpp:132` compares with `==`.

### Calibrations

One transition page, one alignment page, one calibration page, and the run object of the
calibration page the transition page may own. The scheduler thread has a program counter `pcS` for
the places where it can be interrupted or waits: `dc_set`, `dc_post`, `dc_wait` are `DoCalibration`,
`plots` is `signal_setup_plots` inside `InitExperimentStart`, `target` is `sigSelectScanTarget`,
`calrun` is a call of `Run` of the scan, `finish` and `report` are `FinishRun` with `DidCalibration`,
`over` and `gone` the end of a slice and of a destructor. `events` is the queue of the GUI
thread: an `UpdateData` or a blocking call.

Which listed object is next is left open (`Pick`); `ScanScheduler` says which, and that all are.
A slice of an ordinary page is one call of `Run`, because only that calls can be interrupted matters
here; a transition page with an owned object stays in its slice, as in `RunTimeSlice`. `cci`, a
pointer to the first item of a list, means whatever item is there: `clear()` and `push_back()` leave
the storage in place. An owned object that is stopped before its first slice is initialised by its
destructor, like any other (`RunOwned` after a STOP). `UserMay` says what the user does while a calibration is under way: "stop",
"select" the tab of the calibration page, "recalibrate" from the menu of the page, "share" the
calibration page by running it himself.

### Parameters

One entry of the data base (`InputParameters`), several parameter objects linked
to it by name, and a page that shows some of them. An object has a copy of the value, the revision
of that copy, and `gui_revision` of its widget. `GetRevision` and `Fetch` are `Value()`, `SetValue`
and `Store` are `SetValue()`: each takes the mutex of the data base twice, and `access` is what a
thread remembers between the two. `UserEdit`, `UpdateFromGUI`, `ReadFromGUI`, `OnEditChange` are what
happens when a widget signals a change; `UpdateData`, `Recalculate`, `SetDialogContents`,
`UpdateNext`, `UpdateGUI_Value`, `Updated`, `ContentsAreSet` are the recalculation and redrawing of
a page; `UpdatePosted` is a queued `UpdateGUI`. A widget that is redrawn signals its change like one the
user has edited, which leads from `UpdateGUI_Value` back to `UpdateFromGUI`. The scheduler thread
reads and sets parameters, posts updates and holds `page_lock` for a while. `lead` is the
difference of `GUI_Revision` and `DataRevision`, which is all the code looks at.

Abstractions. Values are numbers; `Written` and `Displayed` say what becomes of a value that is
written as text into the data base and of one that is rounded for a widget. What
`RecalculateParameters` computes is left open: it may read any object of the page, set any
of `PageSets` to any value, and say or not say that something changed. The constants say which
objects are in whose hands, so one specification has pages that show what experiments
set (`Shown` and `ExpSets` meet), pages that do not, and scans that set and restore the very object the page shows
(`Scanned`): `DoubleScanSource` uses the page's own object, from the scheduler thread and without `UpdateGUI`.
`SignalsMeetLock` says whether a widget may signal a change while an experiment holds `page_lock`.

Two history variables name what goes wrong. `strayed` are the objects whose copy and revision may have
parted: both threads were in the middle of an access to the object and one changed it, or a changed value has
the text of the old one, so that the copy got a revision which the entry did not; they are in order again after
the next undisturbed fetch. `missed` are the objects whose widget is wrong without its revision
telling: an experiment changed the object while the GUI thread was updating its widget, or fetched
it later than its revision says, or the user edited the widget before it showed the last change, and
`UpdateFromGUI` dropped his edit; they are in order again after they were shown.

### HostLink

`StartCall`, `SetLogicState` and `Close` are what a thread may want; `TakeLock`, `Send`,
`Receive`, `Acknowledge`, `Return` are `doXferWaitForAck` with the slot of the TCP thread it
waits for. `Accept`, `Rcv`, `Greet`, `ServeCall`, `ServeGetTTL`, `ServeSetTTL`,
`StartExperiment`, `SendNested`, `RcvAck`, `FlushDebugText`, `FinishExperiment`, `Reply`,
`Spin` are the FPGA's thread. `HostKilled`, `LinkLost`, `Closed`, `HostStarts`, `FpgaReset` end
and begin connections. The queues hold whole messages, as TCP delivers a stream in order and
messages have a fixed length; after the death of the host the FPGA still reads what was sent.
`executions`, `overtaken` and `unfinished` are history variables: how often the FPGA executed
the call in progress, which threads were overtaken between `GetTTL` and `SetTTL`, and whether an exception
has ended a debug experiment since the last experiment started. `bDebugPulses` is left set then, and whatever makes
pulses next sends debug text, a plain call as well: `SendNested` asks only for the flag. The host's
`assert(pScan)` is `AssertionFails`, and `Aborts` is its end.
An experiment that fails before its first shot is answered like a plain call (`ServeCall`).
The ids the FPGA gives to its own messages are read by nobody and are left out. Requests are
represented by six kinds: a plain call, the two halves of `SetLogicState`, an experiment, an
experiment with `EXP_FLAG_DEBUG`, and `C2S_QUIT`.

### PulseController

`iFIFO` and `rFIFO` are the two FIFOs, `ins` is the instruction the state machine of
`timing_controller.v` executes. The processor calls one function of the driver at a time; `pc` is
where that call is. A call writes the instructions in `todo` one by one (`ShortPulse`, preceded by
`EnsureVacancy` when the driver's own count of free places is 0) and goes on at `after`.

* `Pulse`, `Split`, `Divide` are `PULSE_CONTROLLER_pulse`, which divides what is too long for the timer: the
  outputs of `TTL_pulse` and `DDS_long_pulse`. `DDSPulse` is the output of `DDS_pulse` and the padding of
  `detection_pulse`, `CountingPulse` its counting pulse; both go to `short_pulse` as a whole (`Whole`), however long
  they are. The DDS settings around them are calls of their own.
* `GetPMT`, `PopPMT`, `GetFreq`, `PopCheck`, `PopReinit` queue a request and wait for its result.
* `BeginTimingCheck`, `Padding`, `EnableTimingCheck`, `EndTimingCheck`, `TimingOk` are a checked
  section, as `experiment::run` puts it around `run_exp`.
* `CheckedPulse`, `CheckedTurn`, `CheckedReturns` are the loop of `checked_pulse`, with the lengths of its
  intervals: `NextTime` is `std::min(check_interval, tRemaining)`, undivided and unguarded.
* `Fetch`, `Starve` and `Execute...` are the state machine with `PMT_counter` and `dds_controller`.

`unread`, `counted`, `gap` and `pending` are history: the photons counted and the checked intervals
executed since the controller last executed a read, whether the open section has had a gap, and
the number of counting pulses since the last read.

Abstractions. Cycles are not counted: an instruction ends some time after it was fetched, and what
the photomultiplier counts while the gate stays open after the end of a counting pulse is taken as
part of that pulse. The DDS boards are alike; one is modelled, its reset standing for frequency 0.
`ReadBackAgrees` compares frequencies, not phases. False alarms of the timing check are possible and
not excluded by a property: the last pulse of a section is marked as well, so the FIFO may run empty
behind it before the status is read. `exp_3P0_corr::makeRamseyPulse` (`exp_Al3P0.cpp:482-494`), which clears
the check in the middle of a section, is not modelled, and a check interval of 0, with which `checked_pulse` would
loop for ever, is excluded by `PulseAssumption`.

### ClockLock

`excited` and `zeeman` are the ions, which no code can read. `Start` is `init_exp_sequence` with `reshuffle`
and `prep_ions`; `Detect` is one turn of the loop of `get_clock_state` and `Answer` its return, either to
`prepAndCheck` (`Prepared`) or to `run` (`Record`); `Pump` is the body of the loop of `prepAndCheck`;
`Probe` is `makeClockPulse`; `NextProbe` is the end of the loop of `exp_3P0_lock::run`, `Finish` the end of a
run, `SetIonXtal` the message that other ions have been loaded. `numAl` starts with the crystal the host
names first. `misled` and `silent` count the detections of a call of `get_clock_state` that spoke for a
wrong state or for none; `flips` and `excess` compare the transitions counted with those the ions
made; `blind` holds the frequencies with a probe before or after which the state was not known.
For a lock with two ions that comparison is not made, see Findings.

Abstractions. A detection speaks for or against a state by one unit, or not at all, instead of multiplying
its probability by that of a histogram; `penalty` is the distance from the likeliest state. An ion in the
wrong Zeeman state looks like an excited one (`Shown`). Ions decay only during the pulses of a
preparation. `nSigmaPump` is 0, its default, so the preparation pulses of a detection do not pump;
`alt_xfer_sb` is not 0; `num_exp` is above 10; `min_prob` is between 0 and 1. Histograms, servo signals,
directions, detunings and Ramsey pulses are left out, as is `recover_ion`, which changes no
variable of this module.

## Runs

| Run | Instance | Shows |
|---|---|---|
| `callbacks` | alignment page, its calibration and a third page, priorities 0, 1, 3: callbacks launch, wait for the GUI thread, throw, prolong a slice | list and pointers consistent, one run per page, apparatus handed over, bounded waiting, buttons right, refinement of `ExperimentContract` with `InitializeAgain`; a list that grows while the next experiment is chosen may end the program |
| `live` | an experiment list that launches another page and whose `InitExperimentStart` waits for the GUI thread, as every scan page's does | a stop is honoured, everyone is served, and `Stop()` ends the scheduler thread, unless the program has crashed or the two threads wait for each other |
| `scans` | a scan of two points and a servo of the same parameter, which the user edits at any moment | points measured once, measurements fresh, scans end, servo gives way, refinement of `ParameterLoan` |
| `calibrations` | two items on each of two pages, one requester at a time, STOP at any time, a page started again once it is done | reports reach the right page, calibrations end, the wakeup is not lost |
| `parameters` | an object `g` of the page that a scan varies and restores while the user edits it, and a read-only one `s` that the page recalculates and an experiment sets; widgets signal whenever they like, text and widgets lose digits | copies coherent but for the strayed, widgets right but for the missed |
| `calls` | GUI thread and scheduler thread, two connections, one fault of either side | replies match, the assertion on debug text fails only after an unfinished debug experiment, exactly-once execution, termination without faults |
| `pulses` | FIFOs of two and one words, a counter that wraps, one DDS | nothing lost or misread, only undivided pulses too long and only last intervals too short, gaps reported, calls return, refinement of `PhotonCounter` |
| `clock` | a lock of three frequencies and two probes, a single-probe scan, a preparation; one or two ions | inference right, transitions right, list and overtime complete, runs end |
| `delete`, `clash`, `hang`, `checked` | as the passing run of their module, `delete` without callbacks that wait or throw, `clash` with one value and one launch more | what the code does against its comments, see Findings |

Bounds. In `ScanScheduler` `MaxLaunches` counts the launches in a behaviour, and thus how often an
experiment is started again: three are enough for an address to be reused, for an alignment page to
be launched by its own calibration and for a launch to meet the closing loop. `MaxSlice` bounds
a slice prolonged by `NEED_MORE_DATA`, to keep waiting times finite, and the bound `BoundedWait` counts in
such slices; with `TimeSlice` 1 and `MaxSlice` 2
(`callbacks`) or both 2 (`live`) a slice can end by time, by `IDLE`, by the bound and by `FINISHED`.
`Never` stands for the time since 1970 that an object with `tLastRan` 0 appears to have waited; it is longer than any slice.
In `Scans` the two points 2 and 3, one center 5 and the user's value 3 (3 and 5 in `clash`) make a user's
value coincide with a point and, in `clash`, with a center, which is where `bHasNonScanningOutput` is decided;
`ScanCounts` {1, 2} lets the user raise and lower the number; `NumMeasurements` 2 is not the length of the
cycle, so `IDLE` comes at every side in turn; two launches (three in `clash`) let both experiments run and
meet. In `Calibrations` two items per page give a first and a last one, six clicks start both pages,
the calibration page, and stop them; the queue of the GUI thread needs no bound, as it never holds more
than five events (`TypeOK`, and a theorem).
In `Parameters` the values are 0, 1 and 2, and neither the text nor a widget can tell 1 from 0: 0 and 1 make the
cases of rounding and of equal texts, 0 and 2 those of a plain change. `MaxRevision` 1 lets the
entry and each object change once; since a restored object starts again at -1 and a change without a new text leaves
the entry as it is, longer histories occur all the same. `MaxLead` 1 and
`MaxRecalculations` 1 give the page one change more than it takes over. That is 4.5 million states; the theorems have no bounds.
In `HostLink` `MaxNested` is
the number of messages the FPGA may send inside one request besides the greeting and the final
debug text, so three nested messages may follow each other; `MaxSessions` 2 gives one restart;
`MaxFaults` 1; `IdRange` 3 lets ids wrap within one call.
In `PulseController` a write FIFO of two words makes the processor wait inside a divided pulse, and
a read FIFO of one word would overflow as soon as two results are under way. `TMax` 8, `TBig` 5
and `MinTime` 4 keep the relation of 0x1FFFFF, 0x1FFFF0 and 4 that matters: `TMax - TBig + 1` is not
less than `MinTime`. A pulse of length 17 has three parts if it is divided, and is too long for the timer if it is not.
A check interval of 9 is itself too long, and a checked pulse of 10 leaves one cycle for the last interval; one of 4
has one interval. `Modulus` 3 lets the counter wrap; `MaxCounted` bounds the photons between two reads, `MaxBad`
the number of bad sections.
In `ClockLock` two units of evidence settle a state and four detections are the limit, so a state of one ion
can be found in spite of one misleading detection and one of two ions needs all four; one retry of the preparation
gives success and failure; two probes at the two frequencies with gain give a first and a last one in overtime.
`CheckPrep` is {TRUE}, the default; a preparation that fails leaves ions in the wrong Zeeman state.

Fairness. The two threads of the scheduler, the thread that owns the link and the FPGA keep
running: they are threads of a preemptive operating system that wait only for what their
guards say. In `PulseController` a call
that has begun goes on, as interrupts are short, and the state machine is clocked; a new call need
never come. In `Scans` the thread runs (weak fairness of `ScanStep`), and the scheduler chooses every listed
experiment again and again, a stopped one to remove it (strong fairness of `Choose`), and does not stay with one
for ever (strong fairness of `Preempt`): `EveryoneRuns` and `StopIsHonoured` of `ScanScheduler`. In `Calibrations`
both threads run, `Pick` takes every listed page again and again for the same reason, and a scan
that is run again and again ends, which is `ScanEnds` of `Scans`. In `ClockLock` a run that has begun
goes on (weak fairness of `RunStep`): it is one call in one thread. Nothing is assumed of the user, of
the callbacks (they may or may not launch or throw), of the faults, or of who gets a lock next:
`CallReturns` speaks of the thread that has the lock, as `QReadWriteLock` does not promise that a
waiting thread gets it. `CalibrationsEnd` holds as long as the user does not
press STOP, and with it that the wake-up of `DoCalibration` is not lost; after a STOP the threads may
wait for each other, which is what `hang` shows.

Deadlock is checked in all passing runs but `calibrations`, where the threads may wait for each other after a STOP
(`hang`). Where a system may stop an action `Over` says when: in `ScanScheduler` when the program has ended,
crashed or hangs (`Hung`), in `HostLink` when both sides wait after a fault.

## Findings

Each is shown by a run that ends in a violation.

1. `delete`: the closing loop of `run` pairs `delete back()` with `pop_back()`, although a destructor
   may append an object; the deleted one is then deleted again.
2. `hang`: the scheduler thread makes blocking calls to the GUI thread inside destructors, under the
   scheduler's lock, and inside `FinishRun`, under `page_lock`; the GUI thread that has just served a
   STOP waits for those locks. The call in the destructor is also a second `InitExperimentStart` of one run,
   which `Experiment.h:32` says is "called once when the experiment is first started".
3. `clash`: `ScanSource` and `scan_variable` both keep the normal value of a scanned parameter. After
   an edit during a lock-in scan they disagree, and a later scan puts an old value back. A comment of
   `ScanSource.h` suspects it.
4. `checked`: on the board `checked_pulse` reads the counter behind the interval it has just queued, so
   its first check sees two intervals and its last none, and the pulse is not continuous. The
   simulator answers each read with the result of one pulse, as the comment assumes.

Met while modelling, without a run of their own:

* `~RunObject` calls `InitExperimentStart` for an object that never ran, also when `RunTimeSlice` has called it
  before: TLC finds `Contract!Strict` violated by a STOP in between. That is why `ImplementsContract` is about
  `Contract!Spec`, with `InitializeAgain`. If that call is what threw, it throws again where nothing
  catches it (`pcS` "crashed" in `ScanScheduler`).
* Closing the window while a callback waits for the GUI thread, or right after RUN, so that the closing loop makes
  such a callback, hangs both threads: `closeEvent` waits in `Stop()` (`ExperimentsSheet.cpp:70`) for the scheduler
  thread, and that for a slot (`ExpSCAN.cpp:285`). `ScanScheduler.h:18` says that `Stop()` returns. TLC finds a state
  with `Hung` and `pcG` "wait" in the instance of run `live`, where `StopEndsThread` allows nothing else.
* An exception leaves `bDebugPulses` set (`experiments.cpp:106` is not reached); a call that makes pulses, as
  `C2S_RAMP_VOLTAGES` does when it cools the ions (`voltagesAl.cpp:224-225, 275-283`, `exp_recover.cpp:159-176`,
  `remote_params.h:324`), then sends debug text to a thread without a scan, and `assert(pScan)` fails
  (`FPGA_connection.cpp:447`): TLC finds `AssertionFails`. `MessagesInStep` says that there is no other way to it.
* The last interval of `checked_pulse` may have one to three cycles (`remote_params.cpp:82`); the timer, for which the
  "minimum pulse time is 4 cycles" (`timing_controller.v:225`), then wraps and the pulse takes about 0.17 s. TLC
  finds such an instruction in the instance of run `pulses`.
* `FinishExperiment` follows `pRunObject`, which may by then be the address of another page's object:
  STOP can hit the wrong page.
* `GetNextExperiment` takes no lock and may write past `priorities` (`ScanScheduler.cpp:219-228`): see `ChooseNext`.
* `getNonScanningValue()` tells the GUI thread the scan point while a restore is under way (`ExpSCAN.cpp:868-892`):
  `writing` of `ParameterLoan`.
* An edit made while an experiment holds `page_lock` leaves `DataRevision` behind (`TxtParametersGUI.cpp:205`):
  `GetDialogContents` gives up, nothing tries again, and `SetDialogContents` returns at its first line, so
  the page is not redrawn until the next edit: `lead > 0` in `WidgetsAgree`.
* An edit of a widget that is behind its object is dropped by the test `gui_revision > revision` of `UpdateFromGUI`,
  and so is one made after `setDefaultValue` if the scan changed the object since; `gui_revision = revision` at the
  end of `UpdateGUI` (`ParameterGUI_Base.cpp:179`) absorbs a change that came in between; a redraw may write
  an old value back, as the value is read before its revision. These are the objects `missed`.
* `ScanSource` sets the page's own object from the scheduler thread (`ScanSource.cpp:58-63`, `ScanSource.h:110`). Two
  threads that set one object can leave its copy and its revision apart, and a set whose text equals the stored one
  (`%.15g`, `string_func.cpp:83`) leaves the revision one ahead, so that the next change by another object is not
  noticed. These are the objects `strayed`.
* `DDS_pulse` and `detection_pulse` do not divide what is longer than `t_max`, although `pulse_controller.c:433` says
  "FPGA can only handle pulse lengths up to t_max"; as the timer has 24 bits there is some room above it.
  A check interval of 0 keeps `checked_pulse` in its loop for ever.
* `prepAndCheck` prepares the ions anew and `setIonXtal` announces other ions, but both leave `clock_state` as it
  was, although transition_info_Al.h:101 says 'negative means indeterminate'; the next probe counts
  its transitions from the old state. `prepAndCheck` sets `mFg_current` after "failure!" too, so the
  next experiment does not check again.
* `get_clock_state` returns the number of a state, bit by bit, although exp_Al3P0.cpp:305 says 'returns number of
  excited Al+ ions'. `exp_3P0_lock::run` takes the difference of two such numbers for the number of
  transitions, which is wrong for two ions (from one excited ion to the other it is 1 instead of 2).
* `nMax = num_exp-10` of `get_clock_state` wraps below ten and writes to an empty vector at ten;
  `(*num_detections) <= nMax` always holds, so uncertain answers update the histograms as well.
* A host that dies without `C2S_QUIT` leaves the FPGA in an endless `read` loop (`Spin` in `HostLink`).
* With "share" in `UserMay` the calibration page is started while it is running (`StartsOnce`): an
  owned run object and a listed one use one `pScan`. With "recalibrate" a result is reported for
  another item (`ReportIsOwn`), and a request made while the page is finishing is lost.

## Proofs

`ScanSchedulerProofs` proves, for any number of experiments and addresses, any priorities and any launching
relation, the invariants `TypeOK`, `ListedAreLive`, `OneRunPerExperiment`, `CurrentIsListed`,
`ApparatusHandedOver`, `ButtonsAreCurrent` and `BoundedWait`. None of them is inductive: that the object to be
erased is listed depends on where the thread is, that a new address is not in the list depends
on every listed object being allocated, and so on. The inductive invariant `IInv` has four parts:

* `TypeOK`;
* `ListInv`: entries are distinct, allocated, not the object being destroyed, and `pRunObject` of
  each entry's experiment leads back to it, while the loop runs;
* `PcInv`: what `cur`, `doomed`, `locked` and `leftLoop` are at each place of the thread;
* `ApparatusInv`: only `cur` can be dirty, and is when the slice goes on without a switch.

The proof has one step per action, and lemmas on the vector operations (`EraseType`, `EraseElems`,
`AppendElems`) carry the list arguments. The only assumption is `SchedulerAssumption`, which TLC
evaluates in every run; it says that `Never` is longer than a slice and that no callback starts its own experiment.

For `ButtonsAreCurrent` one fact is missing: the loop is left only after `bStopLoop` was set (`LeftWhenStopped`). Then
everything that changes what runs posts an update, holds the lock until it has, or comes after
`bStopLoop`.

`BoundedWait` says that an experiment of priority p waits less than (1 + p)((launches - 1) `MaxSlice` + 1) +
`MaxSlice`, where `launches` counts the launches so far, its own included. The argument is about the last t units of
time, for every t such that an object r has waited (1 + p) t:

* `ServedInv`: but for the slice under way when it began, each slice of that time belongs to another object, one
  that is listed and has not waited for t (`RanWithin`) or one that was removed (`Removed`). It is inductive
  because an object that is chosen instead of r has the larger quotient, so it has waited for t itself
  and was not among those yet (`ChosenHasWaited`, `BeginSlice`);
* `SizedInv`: what was appended to the list since `priorities` was sized has never run, so that nobody who waits
  is left out of the comparison;
* `ChosenInv` carries that comparison from `GetNextExperiment` to the beginning of the slice, across
  `InitExperimentStart`;
* `DueInv`: when another object is chosen, r is not yet `Due`: else t could be the number of slices that
  all the others account for, plus one (`ChooseWait`).

`ContractProofs` proves `ImplementsContract` from the same assumption: every step of the two threads moves
one object of `ExperimentContract`, or none, also at the end of the program, where an object that a
destructor appends is popped from the list instead of the deleted one. That needs more than `IInv`: how often an
object was initialized, by where the thread is. `CInv` has these parts:

* `ObjectsInv`: only objects that ran use the apparatus, and they are allocated;
* `DoomedInv`: destructors run on an object;
* `NotYetInv`: an object that did not run was not initialized, but for two: the current one at the places
  behind its `InitExperimentStart`, and the one being destroyed;
* `InitsInv`: what is needed of each of the two on the way: once for the first, at most once before and
  twice after the call in the destructor for the second.

`PulseControllerProofs` proves, for FIFOs of any depth, a counter of any width, pulses of any length
and any number of counting pulses, the invariants `TypeOK`, `VacancyIsSafe`, `PartsAreTimeable`,
`ResultIsAwaited` and `ReadBackAgrees`, the action property `GapIsReported`, and `ImplementsPhotonCounter`. The assumptions are `PulseAssumption`, whose part about `TMax`, `TBig` and `MinTime`
is what makes the remainder of a divided pulse long enough (`PartsAreTimeable` names the two kinds of instruction
for which nothing does: those handed over as a whole and the last interval of a checked pulse), and `NothingIsNone`, that the value for 'nothing'
is neither an instruction nor a number; TLC evaluates both.
`ResultIsAwaited` is not inductive: that a result meets the right `pop_result` depends on where the
request was before. Nor is `TypeOK`, as `reinit_DDS` takes the word it pops for a frequency. The
inductive invariant `IInv` consists of `TypeOK`, `VacancyIsSafe`, `PartsAreTimeable` and

* `TodoInv`: what a call has still to write at each of its places: a request only as the last
  instruction, and only if the call then waits for its result;
* `ReadInv`: when nobody waits there is no request under way, and else there is one, in one place:
  last in the write FIFO, being executed, or answered;
* `ResultInv`: results are values of the counter or frequencies, by their kind.

The lemmas on sequences (`AppendIs`, `TailIs`, `SplitIs`, ...) say what writing, fetching and dividing do
to a FIFO without requests and to one that ends in a request; then type correctness and the order
of requests are proved action by action, separately for the processor and the controller.

What a result is worth depends on everything that is still queued in front of its request. `StreamInv` adds to
`IInv`

* `CounterInv`: the counter is what was read last, or what was read and not yet popped, plus the photons counted
  since, modulo its width;
* `FreqInv`: what is under way to the DDS leaves it at the frequency the driver remembers, and an answer not yet
  popped is that frequency;
* `GapInv`: once a checked section has had a gap the underflow is marked, and nothing that would clear the mark is
  under way.

With them each step of driver and controller is a step of `PhotonCounter` or leaves its variables alone
(`ReadsArePhotons`).

`HostLinkProofs` proves, for any number of threads, connections and faults and any range of ids, `TypeOK`,
`MessagesInStep`, `ImplementsRemoteCall` and `SwitchesOneOutput`, from `LinkAssumption`. None of the last three
follows from its own shape: that the next message is a reply to this request depends on where everything else is. The invariant `InStep` consists of

* `Typed`: `TypeOK` and what it needs to know of the places (`Placed`);
* `OwnerSpeaks`: only the thread that holds `fpga_lock` is in an exchange;
* `Unread` and `Reads`: a stream holds at most one message, of the kind its reader expects, also on connections
  that were given up or are not accepted yet;
* `Conversation`: while the program runs, its exchange is at one of eight places, from `NoCall` (both streams
  empty, the FPGA in `message_loop`) over `Asked`, `Served`, `Told`, `Heard`, `Acking`, `Acked` back to
  `NoCall`, or the FPGA was reset and will not answer (`Lost`);
* `Marked`: `bDebugPulses` is set only in an experiment or after an unfinished one.

For the refinement `Counted` adds how often the request was executed at each place; then every action is a step of
`RemoteCall` or leaves `phase` alone. For `SwitchesOneOutput` `MasksInv` follows the masks from `GetTTL` to `SetTTL`: who
is about to switch and was not overtaken knows the other outputs (`WritersKnow`), and the masks on their way in
either direction are the right ones.

`ParametersProofs` proves, for any objects, values and bounds, any division of the objects
between page and experiments, any loss in text and widgets, and widgets that signal whenever they like,
`TypeOK`, `Coherent` and `WidgetsAgree`. The exceptions are in the properties themselves, by name. The inductive
invariants are

* `IInv`: `TypeOK`, `PlaceInv` (what `cur`, `outer`, `m_bSettingText`, `toShow` and `page_lock` are at each
  place of the GUI thread) and `AccessInv` (a thread fetches a revision that exists and stores only into
  objects it may set);
* `CopyInv`: an object that one thread changes while the other accesses it has strayed (`OverlapInv`); the copy of
  any other is not newer than the entry by more than the store under way, and has the entry's text where the revisions
  say so (`CopyOK`);
* `WInv`: `LockInv` and `ReachInv` relate the lock, `lead`, the places and the accesses under way, `ShowInv` says that
  widgets show rounded values, and `WidgetInv` says of each widget that missed nothing that it shows its object or
  its revision tells, unless the GUI thread is at it (`Looks`), and that what is known to be behind will
  be redrawn or is excused (`Reason`).

`ClockLockProofs` proves, for any number of frequencies, any list of probes, any number of units of evidence, and
whatever ions and photons do, `TypeOK`, `PlanIsKept`, `AnswerIsTrue` and `CountsAreFlips`, from `ClockAssumption`.
The invariant `ClockInv` has these parts:

* `IonType`: the ranges, and which of them hold where;
* `PlanInv`: how many probes were made at each frequency where the loop is: on the way up those before `iProbe`
  (`Before`), on the way back all of them and those behind `iProbe` once more (`After`); the lemmas `BeforeNext`,
  `AfterPrevious` and `CountsAtEnds` are about counting in a list;
* `EvidenceInv`: the evidence about two ions adds up, and every detection counts: a true one moves the lead of its
  ion up, a misleading one down, and only an ion that is not settled is asked;
* `PriorInv`: while `clock_state` is known to be right it is what a detection would show, and during a probe what it
  would have shown before the ions made their transitions.

`ScansProofs` proves, for any number of scans, servos, points, values and counts, from `ScansAssumption`, `TypeOK`,
`MeasurementsAreFresh`, `CompleteScans` and `ImplementsLoan`, with edits at any moment: as long as no new normal value
clashed with an older note of it, the parameter is returned as it was found. That this is so depends on everything
the thread still has to do, so the invariant `IInv` has these parts:

* `PlaceInv` and `PhaseType`: the lists of places in `then` are the few that the calls of `SetScanOutput` write, and
  the scheduler thread is in an experiment that is launched;
* `SourceInv` and `DefaultInv`: `nonScanningOutput` and the default states are values that somebody wanted the
  parameter to have (`Normals`), never values of a scan; out of slices the parameter has such a value;
* `ScanInv`: `indeces` is one-to-one, and of the points exactly those before the current one were measured, once
  (`Counted`), unless the last repetition is over (`Spent`). A scan is `Spent` when the user raises `NumScans`
  at the worst moment, and then measures nothing more. That a one-to-one order reaches all points is a
  fact about finite sets (`OrderIsOnto`);
* `ServoInv`: which sides of the line may have been used twice follows from the place in the cycle (`Late`).

For the refinement `LoanInv` adds that, as long as nothing has clashed, every note of the normal value is right
(`Agreed`): that of `ScanSource`, the center of a servo that was initialized, and what `setDefaultValue` is about to write.

`CalibrationsProofs` proves, for any lists of items, `TypeOK` whatever the user does, and `ReportIsOwn` and
`StartsOnce` if he at most presses STOP and selects tabs while a calibration is under way
(`UserMay` \subseteq {"stop", "select"}), from `CalibrationsAssumption`. With "share" `StartsOnce` fails and with
"recalibrate" `ReportIsOwn`, see Findings, so the hypothesis is needed; the instance of run `calibrations` satisfies it.
The inductive invariant `IInv` has three parts, each of which needs the one before:

* `PlaceInv`: whose turn it is and which locks are held at each place (`TurnInv`), whose code of the calibration
  page runs (`ObjInv`), when the transition page owns an object (`OwnedInv`), and that only `DoCalibration` is
  woken (`WaitInv`);
* `QueueInv`: a page's list is a rest of what was to be calibrated, and not empty where its head is taken
  (`PendingInv`);
* `EventInv`: there is at most one blocking call, and at most five events. Updates are posted by `DoCalibration`,
  `FinishRun`, the selection of a target and of a tab; most of them by a thread that then waits for the
  GUI thread to serve everything before, and those of `FinishRun` by objects that were initialised, which
  took such a call (`EventBound`, `Ready`).

`ExclusionInv` and `MeasureInv` then say that one requester at a time uses the page, and that parameters, scan, `cci` and
the first item of the requester's list belong together from `SetCurrentScan` to `DidCalibration`, also in destructors.

All safety properties of the passing runs are thus proved, and the four refinements. Only model-checked are the liveness
properties (`EveryoneRuns`, `StopIsHonoured`, `StopEndsThread`, `MeasurementsGiveWay`, `CalibrationsEnd`,
`CallReturns`, `RunEnds`): liveness under fairness is out of reach of the prover.

## Not modelled, and what is left

* The rest of `aluminizerFPGA`: the recovery of ions, histograms, cooling, and experiments other than those
  of `ClockLock` are sequential code of one processor without a state they share. `HostLink` has the start, the exceptions and
  the reply of an experiment, `PulseController` the timing check around it and `checked_pulse`.
  Results go into a message of fixed size; that they fit depends on numbers the user enters.
* Voltages, LaserBrothers, fits and plots compute in floating point, which TLC has not; where
  they have state it is a handful of flags in one thread.
* `MotorsPage` and `Ovens` switch outputs in `Run` and `FinishRun`; their use of the link is in `HostLink`.
* Experiment lists (`ExpListAl`) appear as the `Launches` of an experiment in `ScanScheduler`.
* Drivers, generated FPGA projects, deployment scripts and vendored code.

Worth doing next: a module that joins `PulseController` with exceptions between `begin_timing_check` and
`end_timing_check`; step lemmas for liveness (what a step of each thread makes smaller), which leave to TLC only the
temporal part.
