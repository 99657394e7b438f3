----------------------------- MODULE ClockLock -----------------------------
(***************************************************************************)
(* The clock experiments of the FPGA program: exp_3P0 makes one probe of   *)
(* the 1S0 - 3P0 transition, exp_3P0_lock a shuffled sequence of them, and *)
(* exp_3P1 only shares the preparation of the ions.  The state of an Al+   *)
(* ion cannot be read: it is inferred from photon counts of the Mg+ ion,   *)
(* with a Bayesian update after every detection, and the inferred state    *)
(* of one probe is the initial state of the next one.                      *)
(*                                                                         *)
(* A state is the set of the ions in 3P0.  The code writes it as a number, *)
(* ion 0 (the outer one) being its lowest bit; Code gives the number.      *)
(*                                                                         *)
(* Abstractions: photon counts speak for or against a state by one unit or *)
(* say nothing, instead of multiplying its probability; penalty[s] is how  *)
(* much less likely s is than the likeliest state.  An ion decays from 3P0 *)
(* only during the thousands of pulses of a preparation.                   *)
(***************************************************************************)
EXTENDS Integers, FiniteSets

CONSTANTS
    Lock,          \* experiments of class exp_3P0_lock
    Shot,          \* of class exp_3P0
    Other,         \* of class exp_3P1
    GroundState,   \* exp_pulse_gs of each experiment, doubled: -5 or 5
    NumAl,         \* numbers of Al+ ions of the crystals in use
    MinProb,       \* units of evidence that make min_prob
    MaxDetections, \* num_exp - 10, the limit of get_clock_state
    MaxTries,      \* the limit of prepAndCheck
    CheckPrep,     \* values the user gives checkPrep
    nProbeFreqs, lineWidths, gainPoints, xtraPoints

Exp      == Lock \cup Shot \cup Other
Probing  == Lock \cup Shot
Freqs    == 0 .. nProbeFreqs - 1
Plan     == 0 .. gainPoints + xtraPoints - 1      \* indices of probe_order
NoEffect == [f \in Freqs |-> 0]

ASSUME ClockAssumption ==
    /\ Lock \cap Shot = {} /\ Probing \cap Other = {} /\ Exp # {}
    /\ GroundState \in [Exp -> {-5, 5}]
    /\ NumAl \subseteq {1, 2} /\ NumAl # {}
    /\ MinProb \in Nat \ {0} /\ MaxDetections \in Nat \ {0} /\ MaxTries \in Nat
    /\ CheckPrep \subseteq BOOLEAN /\ CheckPrep # {}
    /\ nProbeFreqs \in Nat \ {0, 1} /\ lineWidths \in Nat
    /\ gainPoints \in Nat /\ xtraPoints \in Nat /\ Plan # {}

VARIABLES
    \* the ions, which no code can look at
    excited,       \* the ions in 3P0
    zeeman,        \* for each ion, the Zeeman state (doubled) of its 1S0 and its 3P0 level
    \* shared by all experiments
    numAl,
    clock_state, mFg_current,
    \* the experiment being run
    pc, exp,
    force1S0,
    probe_order, iProbe, bOvertime,
    rcNumProbes,
    excess,        \* num_clock_transitions, less the transitions the ions made
    nTries,
    \* get_clock_state
    penalty, num_detections,
    then,          \* what its result is for
    \* history
    misled, silent,  \* detections of this call that spoke for a wrong state, or not at all
    flips,         \* transitions of the ions during the present probe
    blind,         \* frequencies with a probe for which excess cannot be said
    knownFor       \* the ground state for which clock_state is right, 0 if it is not

ionVars     == <<excited, zeeman, numAl>>
recordVars  == <<clock_state, knownFor>>
sequenceVars == <<force1S0, probe_order, iProbe, bOvertime>>
resultVars  == <<rcNumProbes, excess, flips, blind>>
countVars   == <<penalty, num_detections, misled, silent>>
vars == <<ionVars, recordVars, mFg_current, pc, exp, sequenceVars, resultVars, nTries, then, countVars>>

Al     == 0 .. numAl - 1
States == SUBSET Al
Target == GroundState[exp]
Code(s) == (IF 0 \in s THEN 1 ELSE 0) + (IF 1 \in s THEN 2 ELSE 0)
Distance(a, b) == IF a < b THEN b - a ELSE a - b
Changed(s, t) == (s \ t) \cup (t \ s)

\* What a measurement can show: an ion in the wrong Zeeman state looks like one in 3P0,
\* as the pulse that transfers its state to the motion does not reach it.
Shown == {i \in Al : i \in excited \/ zeeman[i] # Target}

TypeOK ==
    /\ numAl \in NumAl /\ excited \subseteq Al /\ zeeman \in [Al -> {-5, 5}]
    /\ clock_state \subseteq {0, 1} /\ mFg_current \in {-5, 0, 5} /\ knownFor \in {-5, 0, 5}
    /\ pc \in {"idle", "detect", "answer", "pump", "probe", "finish"}
    /\ exp \in Exp /\ force1S0 \in BOOLEAN /\ bOvertime \in BOOLEAN
    /\ probe_order \in [Plan -> Freqs] /\ iProbe \in -1 .. gainPoints + xtraPoints
    /\ pc = "probe" => iProbe \in Plan
    /\ rcNumProbes \in [Freqs -> Nat]
    /\ nTries \in 0 .. MaxTries
    /\ penalty \in [States -> Nat] /\ num_detections \in 0 .. MaxDetections
    /\ then \in {"prepare", "record"}
    /\ misled \in Nat /\ silent \in Nat
    /\ flips \in Nat /\ excess \in [Freqs -> Int] /\ blind \subseteq Freqs

-----------------------------------------------------------------------------
(* The plan of a lock.  A definition whose name ends in _Something is a       *)
(* plausible slip in the definition that follows it.                          *)

\* Frequencies in units of FWHM / (2 * (nProbeFreqs - 1)).
centerIndex == (nProbeFreqs - 1) \div 2
getFreq(i)  == 2 * lineWidths * (i - centerIndex)
FromLow(i)  == Distance(1 - nProbeFreqs, getFreq(i))

lowIndex ==
    LET rises == {i \in Freqs \ {0} : FromLow(i) > FromLow(i - 1)}
    IN  IF rises = {} THEN 0 ELSE (CHOOSE i \in rises : \A j \in rises : i <= j) - 1
highIndex == 2 * centerIndex - lowIndex

getGain(i) == IF i = lowIndex THEN -1 ELSE IF i = highIndex THEN 1 ELSE 0

ProbesAt(order, f) == Cardinality({j \in Plan : order[j] = f})

\* What reshuffle may put into probe_order.
Orders == {order \in [Plan -> Freqs] :
             \A f \in Freqs : getGain(f) # 0 => ProbesAt(order, f) = gainPoints \div 2}

-----------------------------------------------------------------------------
(* Inference of the state: get_clock_state.                                   *)

Unknown == [s \in States |-> 0]

BeginCheck(purpose) == pc' = "detect" /\ then' = purpose

\* Two likeliest states in descending order; std::sort may put equal ones in any order.
LikeliestTwo ==
    {two \in States \X States :
        /\ two[1] # two[2] /\ penalty[two[1]] <= penalty[two[2]]
        /\ \A s \in States \ {two[1], two[2]} : penalty[two[2]] <= penalty[s]}

Likeliest == {p \in States : \A s \in States : penalty[p] <= penalty[s]}

\* A pulse of type i tells whether ion i is in 1S0.
decide_next_pulse_type_OuterOnly(p, q) == 0
decide_next_pulse_type(p, q) ==
    IF numAl = 1 \/ 0 \in Changed(p, q) THEN 0 ELSE 1

\* One detection says that ion i is seen in 3P0, or not.
Evidence(i, seen) == [s \in States |-> penalty[s] + IF (i \in s) = seen THEN 0 ELSE 1]
Normalized(p) == [s \in States |-> p[s] - (CHOOSE n \in {p[t] : t \in States} :
                                              \A t \in States : n <= p[t])]
IsCertain(p) == \E s \in States : \A t \in States \ {s} : p[t] >= p[s] + MinProb

Detect ==
    /\ pc = "detect"
    /\ \E i \in {decide_next_pulse_type(two[1], two[2]) : two \in LikeliestTwo} :
         \/ /\ penalty' = Normalized(Evidence(i, i \in Shown))
            /\ UNCHANGED <<misled, silent>>
         \/ /\ penalty' = Normalized(Evidence(i, i \notin Shown))
            /\ misled' = misled + 1 /\ UNCHANGED silent
         \/ /\ silent' = silent + 1 /\ UNCHANGED <<penalty, misled>>
    /\ num_detections' = num_detections + 1
    /\ pc' = IF IsCertain(penalty') \/ num_detections' = MaxDetections
             THEN "answer" ELSE "detect"
    /\ UNCHANGED <<ionVars, recordVars, mFg_current, exp, sequenceVars, resultVars, nTries, then>>

-----------------------------------------------------------------------------
(* One call of run: init_exp_sequence with prep_ions, the probes, the results. *)

Begin(check) ==
    IF check /\ mFg_current # GroundState[exp']
    THEN BeginCheck("prepare")
    ELSE /\ pc' = IF exp' \in Other THEN "idle" ELSE "probe"
         /\ UNCHANGED then

Start(e) ==
    /\ pc = "idle"
    /\ exp' = e
    /\ IF e \in Lock
       THEN force1S0' \in BOOLEAN /\ probe_order' \in Orders
       ELSE UNCHANGED <<force1S0, probe_order>>
    /\ \E checkPrep \in CheckPrep : Begin(checkPrep)
    /\ UNCHANGED <<ionVars, recordVars, mFg_current, iProbe, bOvertime, resultVars, nTries,
                   countVars>>

\* prepAndCheck with the result of get_clock_state: too many tries end the loop as well.
Prepared(state) ==
    IF Code(state) > 0 /\ nTries < MaxTries
    THEN pc' = "pump" /\ UNCHANGED <<mFg_current, nTries>>
    ELSE /\ mFg_current' = Target /\ nTries' = 0
         /\ pc' = IF exp \in Other THEN "idle" ELSE "probe"

Pump_NotCounted ==
    /\ pc = "pump"
    /\ excited' \in SUBSET excited
    /\ \E moved \in SUBSET (Al \ excited') :
         zeeman' = [i \in Al |-> IF i \in moved THEN Target ELSE zeeman[i]]
    /\ knownFor' = IF excited' = excited /\ zeeman' = zeeman THEN knownFor ELSE 0
    /\ BeginCheck("prepare")
    /\ UNCHANGED <<numAl, clock_state, mFg_current, exp, sequenceVars, resultVars, nTries, countVars>>

\* A hundred rounds of cooling and of prepState.  Ions may decay, and those in 1S0
\* are moved to the Zeeman state wanted, or some of them are not.
Pump ==
    /\ pc = "pump"
    /\ excited' \in SUBSET excited
    /\ \E moved \in SUBSET (Al \ excited') :
         zeeman' = [i \in Al |-> IF i \in moved THEN Target ELSE zeeman[i]]
    /\ knownFor' = IF excited' = excited /\ zeeman' = zeeman THEN knownFor ELSE 0
    /\ nTries' = nTries + 1
    /\ BeginCheck("prepare")
    /\ UNCHANGED <<numAl, clock_state, mFg_current, exp, sequenceVars, resultVars, countVars>>

\* The frequency of the current probe; exp_3P0 has one probe and no list.
Freq == IF exp \in Lock THEN probe_order[iProbe] ELSE 0

\* makeClockPulse: ions in another Zeeman state are out of resonance.
Probe ==
    /\ pc = "probe"
    /\ \E flipped \in SUBSET {i \in Al : zeeman[i] = Target} :
         /\ excited' = Changed(excited, flipped)
         /\ flips' = Cardinality(flipped)
    /\ BeginCheck("record")
    /\ UNCHANGED <<zeeman, numAl, recordVars, mFg_current, exp, sequenceVars, rcNumProbes,
                   excess, blind, nTries, countVars>>

setClockState_WhenExcited(state) == clock_state' = IF state = {} THEN clock_state ELSE state
setClockState(state) == clock_state' = state

\* A lock takes the difference of the two numbers, exp_3P0 the number of changed bits.
Transitions(state) ==
    IF exp \in Lock THEN Distance(Code(state), Code(clock_state))
    ELSE Cardinality(Changed(state, clock_state) \cap Al)

NextIndex(over) == IF over THEN iProbe - 1 ELSE iProbe + 1

TurnBack_TooEarly(i) == i - 2
TurnBack_Stays(i)    == i
TurnBack(i) == i - 1

\* The end of the loop of exp_3P0_lock::run: after the last probe a lock that is to end
\* in 1S0 goes back through the list until the ions are there.
NextProbe(state) ==
    LET next  == NextIndex(bOvertime)
        atEnd == next = gainPoints + xtraPoints
        over  == bOvertime \/ (atEnd /\ force1S0)
        index == IF atEnd /\ force1S0 THEN TurnBack(next) ELSE next
        stops == (atEnd /\ ~force1S0) \/ (over /\ (index < 0 \/ Code(state) = 0))
    IN  /\ iProbe' = index /\ bOvertime' = over
        /\ pc' = IF stops THEN "finish" ELSE "probe"

Record(state) ==
    /\ setClockState(state)
    /\ IF knownFor = Target /\ state = Shown /\ (exp \in Lock => numAl = 1)
       THEN /\ excess' = [excess EXCEPT ![Freq] = @ + Transitions(state) - flips]
            /\ UNCHANGED blind
       ELSE blind' = blind \cup {Freq} /\ UNCHANGED excess
    /\ flips' = 0
    /\ knownFor' = IF state = Shown THEN Target ELSE 0
    /\ IF exp \in Lock
       THEN /\ rcNumProbes' = [rcNumProbes EXCEPT ![Freq] = @ + 1]
            /\ NextProbe(state)
       ELSE pc' = "finish" /\ UNCHANGED <<rcNumProbes, iProbe, bOvertime>>

\* get_clock_state returns the likeliest state to whoever asked.
Answer ==
    /\ pc = "answer"
    /\ \E state \in Likeliest :
         \/ /\ then = "prepare" /\ Prepared(state)
            /\ UNCHANGED <<recordVars, iProbe, bOvertime, rcNumProbes,
                           flips, excess, blind>>
         \/ /\ then = "record" /\ Record(state)
            /\ UNCHANGED <<mFg_current, nTries>>
    /\ penalty' = Unknown /\ num_detections' = 0 /\ misled' = 0 /\ silent' = 0
    /\ then' = "prepare"
    /\ UNCHANGED <<ionVars, exp, force1S0, probe_order>>

\* finish_exp_sequence hands over the results.  What belongs to one call of run is cleared
\* here; the code clears it, or shuffles it, when the next one begins.
Finish ==
    /\ pc = "finish" /\ pc' = "idle"
    /\ force1S0' = FALSE /\ probe_order' = [j \in Plan |-> 0] /\ iProbe' = 0 /\ bOvertime' = FALSE
    /\ rcNumProbes' = NoEffect /\ excess' = NoEffect /\ flips' = 0 /\ blind' = {}
    /\ UNCHANGED <<ionVars, recordVars, mFg_current, exp, nTries, then, countVars>>

\* setIonXtal: the program is told that other ions have been loaded.
SetIonXtal(n) ==
    /\ pc = "idle"
    /\ numAl' = n /\ excited' = {} /\ zeeman' \in [0 .. n - 1 -> {-5, 5}]
    /\ knownFor' = 0
    /\ penalty' = [s \in SUBSET (0 .. n - 1) |-> 0]
    /\ UNCHANGED <<clock_state, mFg_current, pc, exp, sequenceVars, resultVars, nTries,
                   then, num_detections, misled, silent>>

-----------------------------------------------------------------------------
Init ==
    /\ numAl \in NumAl /\ excited = {} /\ zeeman \in [Al -> {-5, 5}]
    /\ clock_state = {} /\ mFg_current = 0 /\ knownFor = 0
    /\ pc = "idle" /\ exp \in Exp /\ nTries = 0
    /\ force1S0 = FALSE /\ probe_order = [j \in Plan |-> 0] /\ iProbe = 0 /\ bOvertime = FALSE
    /\ rcNumProbes = NoEffect /\ excess = NoEffect /\ flips = 0 /\ blind = {}
    /\ penalty = Unknown /\ num_detections = 0 /\ then = "prepare" /\ misled = 0 /\ silent = 0

RunStep == Detect \/ Answer \/ Pump \/ Probe \/ Finish

Next ==
    \/ RunStep
    \/ \E e \in Exp : Start(e)
    \/ \E n \in NumAl : SetIonXtal(n)

Spec     == Init /\ [][Next]_vars
FairSpec == Spec /\ WF_vars(RunStep)

-----------------------------------------------------------------------------
(* Properties.                                                                *)

\* The choice of the pulse type wastes no detection: MinProb detections per ion, two
\* more for each misleading one and one more for each silent one, settle the state, and
\* fewer than MinProb misleading ones cannot make get_clock_state return another state
\* than the one that is shown (decide_next_pulse_type, the loop of get_clock_state).
AnswerIsTrue ==
    (/\ pc = "answer"
     /\ misled < MinProb
     /\ numAl * MinProb + 2 * misled + silent <= MaxDetections)
        => Likeliest = {Shown}

\* A run reports as many transitions at a frequency as the ions made there, over all
\* probes of the sequence and of the overtime, unless the state before or after one of
\* them was not known.  exp_3P0 does so for any number of ions, a lock for one
\* (clock_state carried from one probe, and from one run, to the next).
CountsAreFlips ==
    pc = "finish" => \A f \in Freqs \ blind : excess[f] = 0

\* A lock makes every probe of its list once.  If it has to end in 1S0 it then goes back
\* through the list, and stops only in 1S0 or when every probe was made twice (the loop
\* of exp_3P0_lock::run).
PlanIsKept ==
    pc = "finish" /\ exp \in Lock =>
        /\ \A f \in Freqs :
             /\ rcNumProbes[f] >= ProbesAt(probe_order, f)
             /\ rcNumProbes[f] <= (IF force1S0 THEN 2 ELSE 1) * ProbesAt(probe_order, f)
        /\ force1S0 => \/ clock_state = {}
                       \/ \A f \in Freqs : rcNumProbes[f] = 2 * ProbesAt(probe_order, f)

\* Every run ends, whatever the ions do: the preparation, the inference and the overtime
\* give up after a while (prepAndCheck, get_clock_state, exp_3P0_lock::run).
RunEnds == pc # "idle" ~> pc = "idle"
=============================================================================
