-------------------------- MODULE PulseController --------------------------
(***************************************************************************)
(* The pulse controller of the FPGA and its driver.  The processor writes  *)
(* instructions into the write FIFO (iFIFO) and reads results from the     *)
(* read FIFO (rFIFO); the state machine of timing_controller.v executes    *)
(* the instructions at its own pace.                                       *)
(*                                                                         *)
(* The processor may call any function of the driver whenever the previous *)
(* call has returned, in the combinations the experiments use: a checked   *)
(* section (begin_timing_check .. end_timing_check) is not nested, and     *)
(* results are collected outside of it, except by checked_pulse.  Cycles   *)
(* are not counted: an instruction ends some time after it was fetched.    *)
(* The DDS boards are alike and independent; one is modelled.              *)
(***************************************************************************)
EXTENDS Integers, Sequences

CONSTANTS
    WriteDepth,    \* C_WRFIFO_DEPTH
    ReadDepth,     \* C_RDFIFO_DEPTH
    Modulus,       \* 2^32, the PMT counter is 32 bits wide
    TMax, TBig,    \* t_max and t_big of PULSE_CONTROLLER_pulse
    MinTime,       \* shortest pulse the state machine can time
    Nothing,       \* no instruction, no answer
    Times,         \* lengths of pulses experiments ask for
    CheckInterval, \* fc->get_check_interval()
    CheckedTimes,  \* lengths of checked pulses
    Photons,       \* what the PMT may count in one counting pulse
    Freqs,         \* frequencies of a DDS
    MaxCounted,    \* bound: counting pulses between two reads
    MaxBad         \* bound: sections with timing failures in one behaviour

ASSUME PulseAssumption ==
    /\ WriteDepth \in Nat \ {0} /\ ReadDepth \in Nat \ {0} /\ Modulus \in Nat \ {0}
    /\ MinTime \in 1 .. 5 /\ TBig \in Nat /\ TMax \in Nat
    /\ MinTime <= TBig /\ TBig + MinTime <= TMax + 1 /\ 5 <= TMax
    /\ Times \subseteq {t \in Nat : t > 4}
    /\ CheckInterval \in Nat \ {0} /\ CheckedTimes \subseteq Nat \ {0} /\ Photons \subseteq Nat
    /\ Freqs \subseteq Nat /\ 0 \in Freqs
    /\ MaxCounted \in Nat /\ MaxBad \in Nat

VARIABLES
    \* the processor
    pc,           \* "ready", or where the call in progress is
    todo,         \* instructions the call has still to write
    after,        \* where it goes on then
    vacancy,      \* PULSE_CONTROLLER_vacancy
    extra_flags,  \* ENABLE_TIMING_CHECK is set
    last,         \* last_PMT_value
    ddsFTW,       \* the driver's copy of the DDS frequency
    tBad,         \* exp_results::tBad
    left,         \* checked_pulse: tRemaining
    nPulses,      \* checked_pulse: intervals queued
    nChecks,      \* checked_pulse: results collected
    \* the controller
    iFIFO, rFIFO,
    ins,          \* instruction being executed, or Nothing
    counter,      \* PMT counter
    dds,          \* frequency register of the DDS
    timing_check, underflow, overflow,
    \* history
    pending,      \* counting pulses queued since the last read
    unread,       \* photons counted since the controller last executed a read
    counted,      \* checked intervals among them
    gap           \* the section that is open has had a gap

cpuVars  == <<pc, todo, after, vacancy, extra_flags, last, ddsFTW, tBad>>
loopVars == <<left, nPulses, nChecks>>
hwVars   == <<ins, counter, dds, timing_check, underflow, overflow, unread, counted>>
vars == <<cpuVars, loopVars, iFIFO, rFIFO, hwVars, pending, gap>>

-----------------------------------------------------------------------------
(* Instructions and results. *)

Instruction == [op : {"out", "set", "get", "pmt", "clear"}, t : Nat, count : BOOLEAN,
                check : BOOLEAN, freq : Freqs, interval : Nat, whole : BOOLEAN, final : BOOLEAN]

Control(op, freq) == [op |-> op, t |-> MinTime, count |-> FALSE, check |-> FALSE,
                      freq |-> freq, interval |-> 0, whole |-> FALSE, final |-> FALSE]

\* A timed output of PULSE_CONTROLLER_pulse.
Output(t) == [Control("out", 0) EXCEPT !.t = t]

\* A timed output that its caller hands to short_pulse as a whole, however long it is.
Whole(t, count) == [Output(t) EXCEPT !.count = count, !.whole = TRUE]

\* Interval k of a checked pulse.
Interval(t, k, final) == [Whole(t, TRUE) EXCEPT !.interval = k, !.final = final]

Word == [kind : {"pmt", "dds"}, value : Nat, intervals : SUBSET Nat]

ASSUME NothingIsNone == Nothing \notin Instruction /\ Nothing \notin Nat

Instructions == Seq(Instruction)

Words == Seq(Word)

Places == {"ready", "split", "write", "pad", "enable", "status", "popPMT", "popCheck",
           "popReinit", "loop"}

TypeOK ==
    /\ pc \in Places /\ after \in Places
    /\ todo \in Instructions /\ iFIFO \in Instructions /\ rFIFO \in Words
    /\ vacancy \in 0 .. WriteDepth
    /\ extra_flags \in BOOLEAN
    /\ last \in 0 .. Modulus - 1 /\ counter \in 0 .. Modulus - 1
    /\ ddsFTW \in Freqs /\ dds \in Freqs
    /\ tBad \in Nat /\ pending \in Nat /\ unread \in Nat
    /\ left \in Nat /\ nPulses \in Nat /\ nChecks \in Nat
    /\ ins \in Instruction \cup {Nothing}
    /\ timing_check \in BOOLEAN /\ underflow \in BOOLEAN /\ overflow \in BOOLEAN
    /\ counted \in SUBSET Nat /\ gap \in BOOLEAN

\* PULSE_CONTROLLER_init has returned: its last call was get_PMT.
Init ==
    /\ pc = "ready" /\ todo = <<>> /\ after = "ready"
    /\ vacancy \in 0 .. WriteDepth
    /\ extra_flags = FALSE /\ ddsFTW = 0 /\ dds = 0 /\ tBad = 0
    /\ left = 0 /\ nPulses = 0 /\ nChecks = 0
    /\ iFIFO = <<>> /\ rFIFO = <<>> /\ ins = Nothing
    /\ counter \in 0 .. Modulus - 1 /\ last = counter
    /\ timing_check = FALSE /\ underflow = FALSE /\ overflow = FALSE
    /\ pending = 0 /\ unread = 0 /\ counted = {} /\ gap = FALSE

-----------------------------------------------------------------------------
(* The processor.  A definition whose name ends in _Something is a plausible    *)
(* slip in the definition that follows it.                                      *)

\* The instructions a call writes before it goes on at `place`.
Write(instructions, place) == pc' = "write" /\ todo' = instructions /\ after' = place

\* TTL_pulse and the output of DDS_long_pulse: PULSE_CONTROLLER_pulse divides what is too
\* long for the timer.
Pulse(t) ==
    /\ pc = "ready"
    /\ pc' = "split" /\ todo' = <<Output(t)>> /\ after' = "ready"
    /\ UNCHANGED <<vacancy, extra_flags, last, ddsFTW, tBad, loopVars, iFIFO, rFIFO, hwVars,
                   pending, gap>>

\* The output of DDS_pulse and the padding of detection_pulse; SetFreq stands for the
\* frequencies set before and after it.
DDSPulse(t) ==
    /\ pc = "ready"
    /\ Write(<<Whole(t, FALSE)>>, "ready")
    /\ UNCHANGED <<vacancy, extra_flags, last, ddsFTW, tBad, loopVars, iFIFO, rFIFO, hwVars,
                   pending, gap>>

\* The counting pulse of detection_pulse, at least 5 cycles long.
CountingPulse(t) ==
    /\ pc = "ready" /\ pending < MaxCounted
    /\ Write(<<Whole(t, TRUE)>>, "ready")
    /\ pending' = pending + 1
    /\ UNCHANGED <<vacancy, extra_flags, last, ddsFTW, tBad, loopVars, iFIFO, rFIFO, hwVars, gap>>

\* The last instruction of s becomes a and b.
ReplaceLast(s, a, b) == SubSeq(s, 1, Len(s) - 1) \o <<a, b>>

Divide_WholeRange(t) == <<TMax, t - TMax>>

\* One turn of the loop that divides long pulses.
Divide(t) == <<TBig, t - TBig>>

Split ==
    /\ pc = "split"
    /\ LET rest == todo[Len(todo)]
       IN  IF rest.t > TMax
             THEN /\ todo' = ReplaceLast(todo, [rest EXCEPT !.t = Divide(rest.t)[1]],
                                               [rest EXCEPT !.t = Divide(rest.t)[2]])
                  /\ UNCHANGED pc
             ELSE pc' = "write" /\ UNCHANGED todo
    /\ UNCHANGED <<after, vacancy, extra_flags, last, ddsFTW, tBad, loopVars, iFIFO, rFIFO,
                   hwVars, pending, gap>>

SetFreq_NoCopy(f) ==
    /\ pc = "ready"
    /\ Write(<<Control("set", f)>>, "ready")
    /\ UNCHANGED <<vacancy, extra_flags, last, ddsFTW, tBad, loopVars, iFIFO, rFIFO, hwVars,
                   pending, gap>>

\* PULSE_CONTROLLER_set_dds_freq; f = 0 also stands for PULSE_CONTROLLER_dds_reset.
SetFreq(f) ==
    /\ pc = "ready"
    /\ Write(<<Control("set", f)>>, "ready")
    /\ ddsFTW' = f
    /\ UNCHANGED <<vacancy, extra_flags, last, tBad, loopVars, iFIFO, rFIFO, hwVars, pending, gap>>

\* PULSE_CONTROLLER_check_dds and reinit_DDS begin with reading the frequency back.
GetFreq(place) ==
    /\ pc = "ready" /\ ~extra_flags
    /\ Write(<<Control("get", 0)>>, place)
    /\ UNCHANGED <<vacancy, extra_flags, last, ddsFTW, tBad, loopVars, iFIFO, rFIFO, hwVars,
                   pending, gap>>

\* exp_results::get_new_data.
GetPMT ==
    /\ pc = "ready" /\ ~extra_flags
    /\ Write(<<Control("pmt", 0)>>, "popPMT")
    /\ UNCHANGED <<vacancy, extra_flags, last, ddsFTW, tBad, loopVars, iFIFO, rFIFO, hwVars,
                   pending, gap>>

\* exp_results::begin_timing_check clears old failures, ...
BeginTimingCheck ==
    /\ pc = "ready" /\ ~extra_flags /\ tBad < MaxBad
    /\ Write(<<Control("clear", 0)>>, "pad")
    /\ gap' = FALSE
    /\ UNCHANGED <<vacancy, extra_flags, last, ddsFTW, tBad, loopVars, iFIFO, rFIFO, hwVars,
                   pending>>

\* ... makes a padding pulse, which TTL_pulse drops if it is too short, ...
Padding(t) ==
    /\ pc = "pad"
    /\ \/ pc' = "split" /\ todo' = <<Output(t)>> /\ after' = "enable"
       \/ pc' = "enable" /\ UNCHANGED <<todo, after>>
    /\ UNCHANGED <<vacancy, extra_flags, last, ddsFTW, tBad, loopVars, iFIFO, rFIFO, hwVars,
                   pending, gap>>

\* ... and marks all pulses from here on.
EnableTimingCheck ==
    /\ pc = "enable"
    /\ extra_flags' = TRUE
    /\ pc' = "ready"
    /\ UNCHANGED <<todo, after, vacancy, last, ddsFTW, tBad, loopVars, iFIFO, rFIFO, hwVars,
                   pending, gap>>

\* exp_results::end_timing_check stops the check, enables interrupts ...
EndTimingCheck ==
    /\ pc = "ready" /\ extra_flags
    /\ extra_flags' = FALSE
    /\ pc' = "status"
    /\ UNCHANGED <<todo, after, vacancy, last, ddsFTW, tBad, loopVars, iFIFO, rFIFO, hwVars,
                   pending, gap>>

\* ... and reads the status register.
TimingOk ==
    /\ pc = "status"
    /\ tBad' = IF underflow THEN tBad + 1 ELSE tBad
    /\ pc' = "ready"
    /\ UNCHANGED <<todo, after, vacancy, extra_flags, last, ddsFTW, loopVars, iFIFO, rFIFO,
                   hwVars, pending, gap>>

EnsureVacancy_Stale ==
    /\ pc = "write" /\ vacancy = 0
    /\ vacancy' = WriteDepth
    /\ UNCHANGED <<pc, todo, after, extra_flags, last, ddsFTW, tBad, loopVars, iFIFO, rFIFO,
                   hwVars, pending, gap>>

\* PULSE_CONTROLLER_ensure_vacancy polls the FIFO until there is room.
EnsureVacancy ==
    /\ pc = "write" /\ vacancy = 0
    /\ Len(iFIFO) < WriteDepth
    /\ vacancy' = WriteDepth - Len(iFIFO)
    /\ UNCHANGED <<pc, todo, after, extra_flags, last, ddsFTW, tBad, loopVars, iFIFO, rFIFO,
                   hwVars, pending, gap>>

\* PULSE_CONTROLLER_short_pulse.
ShortPulse ==
    /\ pc = "write" /\ vacancy > 0
    /\ iFIFO' = Append(iFIFO, [Head(todo) EXCEPT !.check = extra_flags])
    /\ vacancy' = vacancy - 1
    /\ todo' = Tail(todo)
    /\ pc' = IF Len(todo) = 1 THEN after ELSE pc
    /\ UNCHANGED <<after, extra_flags, last, ddsFTW, tBad, loopVars, rFIFO, hwVars, pending, gap>>

\* PULSE_CONTROLLER_pop_result returns to get_PMT ...
PopPMT_KeepsLast ==
    /\ pc = "popPMT" /\ rFIFO # <<>>
    /\ rFIFO' = Tail(rFIFO)
    /\ pending' = 0
    /\ \/ nPulses = 0 /\ pc' = "ready" /\ UNCHANGED <<left, nChecks>>
       \/ nPulses > 0 /\ pc' = "loop" /\ nChecks' = nChecks + 1 /\ left' \in {left, 0}
    /\ UNCHANGED <<todo, after, vacancy, extra_flags, last, ddsFTW, tBad, nPulses, iFIFO, hwVars,
                   gap>>

PopPMT_NotCounted ==
    /\ pc = "popPMT" /\ rFIFO # <<>>
    /\ rFIFO' = Tail(rFIFO)
    /\ last' = Head(rFIFO).value
    /\ pending' = 0
    /\ \/ nPulses = 0 /\ pc' = "ready" /\ UNCHANGED left
       \/ nPulses > 0 /\ pc' = "loop" /\ left' \in {left, 0}
    /\ UNCHANGED <<todo, after, vacancy, extra_flags, ddsFTW, tBad, nPulses, nChecks, iFIFO, hwVars,
                   gap>>

\* (checked_pulse may find the ions dark, and then queues no further interval) ...
PopPMT ==
    /\ pc = "popPMT" /\ rFIFO # <<>>
    /\ rFIFO' = Tail(rFIFO)
    /\ last' = Head(rFIFO).value
    /\ pending' = 0
    /\ \/ nPulses = 0 /\ pc' = "ready" /\ UNCHANGED <<left, nChecks>>
       \/ nPulses > 0 /\ pc' = "loop" /\ nChecks' = nChecks + 1 /\ left' \in {left, 0}
    /\ UNCHANGED <<todo, after, vacancy, extra_flags, ddsFTW, tBad, nPulses, iFIFO, hwVars, gap>>

PopCheck_Peeks ==
    /\ pc = "popCheck" /\ rFIFO # <<>>
    /\ pc' = "ready"
    /\ UNCHANGED <<todo, after, vacancy, extra_flags, last, ddsFTW, tBad, loopVars, iFIFO, rFIFO,
                   hwVars, pending, gap>>

\* ... to check_dds ...
PopCheck ==
    /\ pc = "popCheck" /\ rFIFO # <<>>
    /\ rFIFO' = Tail(rFIFO)
    /\ pc' = "ready"
    /\ UNCHANGED <<todo, after, vacancy, extra_flags, last, ddsFTW, tBad, loopVars, iFIFO,
                   hwVars, pending, gap>>

\* ... or to reinit_DDS: dds_reset, set_dds_freq, and at the end get_PMT.
PopReinit ==
    /\ pc = "popReinit" /\ rFIFO # <<>>
    /\ rFIFO' = Tail(rFIFO)
    /\ LET ftw == Head(rFIFO).value IN
         /\ Write(<<Control("set", 0), Control("set", ftw), Control("pmt", 0)>>, "popPMT")
         /\ ddsFTW' = ftw
    /\ UNCHANGED <<vacancy, extra_flags, last, tBad, loopVars, iFIFO, hwVars, pending, gap>>

\* Al3P0_pulse::checked_pulse of t cycles is entered.
CheckedPulse(t) ==
    /\ pc = "ready" /\ extra_flags
    /\ left' = t /\ nPulses' = 0 /\ nChecks' = 0
    /\ pc' = "loop"
    /\ UNCHANGED <<todo, after, vacancy, extra_flags, last, ddsFTW, tBad, iFIFO, rFIFO, hwVars,
                   pending, gap>>

\* std::min(fc->get_check_interval(), tRemaining)
NextTime == IF CheckInterval < left THEN CheckInterval ELSE left

\* One turn of its loop: an interval is queued, if time remains; a result is
\* collected, unless this was the first of several intervals.
CheckedTurn ==
    /\ pc = "loop" /\ (left > 0 \/ nPulses > nChecks)
    /\ LET more == NextTime > 0
           n    == IF more THEN nPulses + 1 ELSE nPulses
           rest == left - NextTime
           read == n > 1 \/ rest = 0
       IN  /\ Write((IF more THEN <<Interval(NextTime, n, rest = 0)>> ELSE <<>>)
                        \o (IF read THEN <<Control("pmt", 0)>> ELSE <<>>),
                    IF read THEN "popPMT" ELSE "loop")
           /\ left' = rest /\ nPulses' = n
           /\ pending' = IF more THEN pending + 1 ELSE pending
    /\ UNCHANGED <<vacancy, extra_flags, last, ddsFTW, tBad, nChecks, iFIFO, rFIFO, hwVars, gap>>

CheckedReturns ==
    /\ pc = "loop" /\ left = 0 /\ nPulses = nChecks
    /\ pc' = "ready"
    /\ nPulses' = 0 /\ nChecks' = 0
    /\ UNCHANGED <<todo, after, vacancy, extra_flags, last, ddsFTW, tBad, left, iFIFO, rFIFO,
                   hwVars, pending, gap>>

\* A new call of the driver, and the continuation of the one in progress.
Call ==
    \/ \E t \in Times : Pulse(t) \/ DDSPulse(t)
    \/ \E t \in Times \cup {5} : CountingPulse(t)
    \/ \E f \in Freqs : SetFreq(f)
    \/ GetFreq("popCheck") \/ GetFreq("popReinit") \/ GetPMT
    \/ BeginTimingCheck \/ EndTimingCheck
    \/ \E t \in CheckedTimes : CheckedPulse(t)

Continue ==
    \/ Split \/ EnsureVacancy \/ ShortPulse
    \/ (\E t \in Times : Padding(t)) \/ EnableTimingCheck \/ TimingOk
    \/ PopPMT \/ PopCheck \/ PopReinit \/ CheckedTurn \/ CheckedReturns

-----------------------------------------------------------------------------
(* The controller. *)

Fetch_ClearsUnderflow ==
    /\ ins = Nothing /\ iFIFO # <<>> /\ ~overflow
    /\ ins' = Head(iFIFO)
    /\ iFIFO' = Tail(iFIFO)
    /\ timing_check' = Head(iFIFO).check
    /\ underflow' = FALSE
    /\ UNCHANGED <<cpuVars, loopVars, rFIFO, counter, dds, overflow, unread, counted, pending, gap>>

\* States 1 to 3 of the state machine: an instruction is fetched, unless a result was
\* lost before.
Fetch ==
    /\ ins = Nothing /\ iFIFO # <<>> /\ ~overflow
    /\ ins' = Head(iFIFO)
    /\ iFIFO' = Tail(iFIFO)
    /\ timing_check' = Head(iFIFO).check
    /\ UNCHANGED <<cpuVars, loopVars, rFIFO, counter, dds, underflow, overflow, unread,
                   counted, pending, gap>>

\* State 1 with an empty FIFO after a pulse that was marked.
Starve ==
    /\ ins = Nothing /\ iFIFO = <<>>
    /\ timing_check /\ (underflow => extra_flags /\ ~gap)
    /\ underflow' = TRUE
    /\ gap' = (gap \/ extra_flags)
    /\ UNCHANGED <<cpuVars, loopVars, iFIFO, rFIFO, ins, counter, dds, timing_check, overflow,
                   unread, counted, pending>>

Done == ins' = Nothing

ExecuteOutput_NoWrap ==
    /\ ins # Nothing /\ ins.op = "out"
    /\ \E n \in IF ins.count THEN Photons ELSE {0} :
            counter' = counter + n /\ unread' = unread + n
    /\ counted' = IF ins.interval = 0 THEN counted ELSE counted \cup {ins.interval}
    /\ Done
    /\ UNCHANGED <<cpuVars, loopVars, iFIFO, rFIFO, dds, timing_check, underflow, overflow,
                   pending, gap>>

\* The PMT counts only during pulses with the count flag.
ExecuteOutput ==
    /\ ins # Nothing /\ ins.op = "out"
    /\ \E n \in IF ins.count THEN Photons ELSE {0} :
            counter' = (counter + n) % Modulus /\ unread' = unread + n
    /\ counted' = IF ins.interval = 0 THEN counted ELSE counted \cup {ins.interval}
    /\ Done
    /\ UNCHANGED <<cpuVars, loopVars, iFIFO, rFIFO, dds, timing_check, underflow, overflow,
                   pending, gap>>

ExecuteSet ==
    /\ ins # Nothing /\ ins.op = "set"
    /\ dds' = ins.freq
    /\ Done
    /\ UNCHANGED <<cpuVars, loopVars, iFIFO, rFIFO, counter, timing_check, underflow, overflow,
                   unread, counted, pending, gap>>

ExecuteClear ==
    /\ ins # Nothing /\ ins.op = "clear"
    /\ underflow' = FALSE
    /\ Done
    /\ UNCHANGED <<cpuVars, loopVars, iFIFO, rFIFO, counter, dds, timing_check, overflow,
                   unread, counted, pending, gap>>

\* A result for a full read FIFO stops the controller until it is reset.
PutResult(kind, value) ==
    LET word == [kind |-> kind, value |-> value, intervals |-> counted]
    IN  IF Len(rFIFO) < ReadDepth THEN rFIFO' = Append(rFIFO, word) /\ UNCHANGED overflow
                                  ELSE overflow' = TRUE /\ UNCHANGED rFIFO

ExecuteGet ==
    /\ ins # Nothing /\ ins.op = "get"
    /\ PutResult("dds", dds)
    /\ Done
    /\ UNCHANGED <<cpuVars, loopVars, iFIFO, counter, dds, timing_check, underflow, unread,
                   counted, pending, gap>>

ExecutePMT ==
    /\ ins # Nothing /\ ins.op = "pmt"
    /\ PutResult("pmt", counter)
    /\ unread' = 0 /\ counted' = {}
    /\ Done
    /\ UNCHANGED <<cpuVars, loopVars, iFIFO, counter, dds, timing_check, underflow, pending, gap>>

Controller ==
    \/ Fetch \/ Starve \/ ExecuteOutput \/ ExecuteSet \/ ExecuteClear \/ ExecuteGet \/ ExecutePMT

Next == Call \/ Continue \/ Controller

Spec == Init /\ [][Next]_vars

\* A call goes on and the controller runs; nobody need make a new call.
FairSpec == Spec /\ WF_vars(Continue) /\ WF_vars(Controller)

-----------------------------------------------------------------------------
(* Properties. *)

\* short_pulse never writes into a full FIFO although it polls the FIFO only when its
\* own count of free places has reached 0.
\* Code: PULSE_CONTROLLER_vacancy in short_pulse, unsafe_pulse and ensure_vacancy.
VacancyIsSafe == vacancy + Len(iFIFO) <= WriteDepth

\* A result that can be popped is the one the caller of pop_result waits for, and the
\* controller never stops on a full read FIFO, of whatever depth.
\* Code: the pairing of requests and pop_result in the driver.
ResultIsAwaited ==
    /\ ~overflow
    /\ rFIFO # <<>> =>
          /\ Len(rFIFO) = 1
          /\ pc \in IF rFIFO[1].kind = "pmt" THEN {"popPMT"} ELSE {"popCheck", "popReinit"}

\* PULSE_CONTROLLER_check_dds finds no error: the driver's copy of a frequency is what
\* the DDS holds once the instructions before are executed.
\* Code: ddsFTW in set_dds_freq, dds_reset and reinit_DDS.
ReadBackAgrees == pc = "popCheck" /\ rFIFO # <<>> => rFIFO[1].value = ddsFTW

\* An instruction in the FIFO is neither shorter than the state machine can time nor longer
\* than the t_max of the driver, with two exceptions: an output that its caller handed over
\* as a whole may be too long (the 24 bits of the timer leave some room above t_max), and the
\* last interval of a checked pulse, what the others left of it, may be too short, so that
\* the timer wraps.  A check interval within the limits leaves only that last interval.
\* Code: t_max and t_big in PULSE_CONTROLLER_pulse, std::min in checked_pulse, "minimum
\* pulse time is 4 cycles".
PartsAreTimeable ==
    \A i \in DOMAIN iFIFO :
        LET o == iFIFO[i] IN
          /\ o.t > TMax => o.whole /\ (o.interval > 0 => CheckInterval > TMax)
          /\ o.t < MinTime => o.interval > 0 /\ (o.final \/ CheckInterval < MinTime)

\* A gap between pulses of a checked section is counted when the section ends.
\* Code: underflow in timing_controller.v, begin_timing_check, end_timing_check.
GapIsReported == [][pc = "status" /\ gap => tBad' # tBad \/ UNCHANGED pc]_vars

\* remote_params.cpp: "the checking calculations for the previous interval take place
\* while the current interval runs": the result checked_pulse collects after it queued
\* interval n is that of interval n - 1.
CheckSeesPreviousInterval ==
    pc = "popPMT" /\ rFIFO # <<>> /\ nPulses > 1 /\ nChecks = nPulses - 2 =>
        rFIFO[1].intervals = {nPulses - 1}

\* Every call of the driver returns: the FIFOs never lock the two sides up.
CallReturns == pc # "ready" ~> pc = "ready"

\* The controller and the driver implement PhotonCounter.
Reader == INSTANCE PhotonCounter
            WITH photons <- unread,
                 answer  <- IF rFIFO # <<>> /\ rFIFO[1].kind = "pmt"
                              THEN (rFIFO[1].value - last) % Modulus ELSE Nothing

\* A read returns the photons since the previous read, although the counter is never
\* reset and wraps.
\* Code: last_PMT_value in PULSE_CONTROLLER_get_PMT, counter in PMT_counter.v.
ImplementsPhotonCounter == Reader!Spec
=============================================================================
