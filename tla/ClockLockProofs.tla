-------------------------- MODULE ClockLockProofs --------------------------
(***************************************************************************)
(* What holds of the clock experiments for any list of probes, any         *)
(* frequencies, evidence and limits.  The loop of exp_3P0_lock::run keeps  *)
(* its plan (PlanInv); get_clock_state asks for the ion whose state is     *)
(* still open, so its answer is the state that is shown (EvidenceInv); and *)
(* the state carried from probe to probe makes the reported transitions    *)
(* those of the ions (PriorInv).                                           *)
(***************************************************************************)
EXTENDS ClockLock, FiniteSetTheorems, TLAPS

-----------------------------------------------------------------------------
(* Where the loop is, said with the number of probes made so far. *)

NumProbes == gainPoints + xtraPoints

\* Probes at f before index a, and behind index a, of the list.
Before(order, a, f) == Cardinality({j \in Plan : j < a /\ order[j] = f})
After(order, a, f)  == Cardinality({j \in Plan : j > a /\ order[j] = f})

Preparing == then = "prepare" /\ pc \in {"detect", "answer", "pump"}
Measuring == pc = "probe" \/ (then = "record" /\ pc \in {"detect", "answer"})

NotBegun == ~bOvertime /\ iProbe = 0 /\ rcNumProbes = NoEffect

\* On the way up the probes before iProbe were made, on the way back all of them and
\* those behind iProbe a second time.
UnderWay ==
    /\ iProbe \in Plan
    /\ ~bOvertime => \A f \in Freqs : rcNumProbes[f] = Before(probe_order, iProbe, f)
    /\ bOvertime =>
         /\ force1S0
         /\ \A f \in Freqs :
              rcNumProbes[f] = ProbesAt(probe_order, f) + After(probe_order, iProbe, f)

PlanInv ==
    /\ numAl \in NumAl /\ exp \in Exp
    /\ probe_order \in [Plan -> Freqs] /\ rcNumProbes \in [Freqs -> Nat]
    /\ pc \in {"idle", "finish"} \/ Preparing \/ Measuring
    /\ pc = "idle" \/ Preparing \/ exp \notin Lock => NotBegun
    /\ Measuring /\ exp \in Lock => UnderWay
    /\ pc = "idle" \/ pc = "probe" \/ pc = "finish" => then = "prepare"
    /\ PlanIsKept

-----------------------------------------------------------------------------
(* Counting the probes of a list. *)

LEMMA PlanIs ==
    /\ NumProbes \in Nat \ {0} /\ Plan = 0 .. NumProbes - 1
    /\ IsFiniteSet(Plan) /\ 0 \in Plan /\ NumProbes - 1 \in Plan
<1>1. NumProbes \in Nat \ {0}
  BY ClockAssumption DEF NumProbes, Plan
<1>2. Plan = 0 .. NumProbes - 1
  <2>1. gainPoints + xtraPoints - 1 = NumProbes - 1
    BY ClockAssumption DEF NumProbes
  <2> QED
    BY <2>1 DEF Plan
<1>3. IsFiniteSet(Plan)
  <2>1. NumProbes - 1 \in Int
    BY <1>1
  <2> QED
    BY <1>2, <2>1, FS_Interval
<1>4. 0 \in 0 .. NumProbes - 1 /\ NumProbes - 1 \in 0 .. NumProbes - 1
  BY <1>1
<1> QED
  BY <1>1, <1>2, <1>3, <1>4

\* A part of a list is a finite set.
LEMMA PartIs ==
    ASSUME NEW S \in SUBSET Plan
    PROVE  IsFiniteSet(S) /\ Cardinality(S) \in Nat
BY PlanIs, FS_Subset, FS_CardinalityType

LEMMA CountsAre ==
    ASSUME NEW order \in [Plan -> Freqs], NEW f \in Freqs, NEW a
    PROVE  /\ ProbesAt(order, f) \in Nat
           /\ Before(order, a, f) \in Nat
           /\ After(order, a, f) \in Nat
           /\ After(order, a, f) <= ProbesAt(order, f)
<1> DEFINE All  == {j \in Plan : order[j] = f}
           Low  == {j \in Plan : j < a /\ order[j] = f}
           High == {j \in Plan : j > a /\ order[j] = f}
<1>1. All \in SUBSET Plan /\ Low \in SUBSET Plan /\ High \in SUBSET Plan /\ High \in SUBSET All
  OBVIOUS
<1>2. IsFiniteSet(All) /\ Cardinality(All) \in Nat /\ Cardinality(Low) \in Nat /\ Cardinality(High) \in Nat
  BY <1>1, PartIs
<1>3. Cardinality(High) <= Cardinality(All)
  BY <1>1, <1>2, FS_Subset
<1> QED
  BY <1>2, <1>3 DEF ProbesAt, Before, After

\* One more probe has been made on the way up.
LEMMA BeforeNext ==
    ASSUME NEW order \in [Plan -> Freqs], NEW f \in Freqs, NEW i \in Plan
    PROVE  Before(order, i + 1, f) = Before(order, i, f) + (IF order[i] = f THEN 1 ELSE 0)
<1> DEFINE Low(a) == {j \in Plan : j < a /\ order[j] = f}
<1>1. IsFiniteSet(Low(i)) /\ Cardinality(Low(i)) \in Nat
  BY PartIs
<1>2. CASE order[i] = f
  <2>1. Low(i + 1) = Low(i) \cup {i}
    BY <1>2, PlanIs
  <2>2. i \notin Low(i)
    BY PlanIs
  <2>3. Cardinality(Low(i) \cup {i}) = Cardinality(Low(i)) + 1
    BY <1>1, <2>2, FS_AddElement
  <2> QED
    BY <1>2, <2>1, <2>3 DEF Before
<1>3. CASE order[i] # f
  <2>1. Low(i + 1) = Low(i)
    BY <1>3, PlanIs
  <2> QED
    BY <1>1, <1>3, <2>1 DEF Before
<1> QED
  BY <1>2, <1>3

\* One more probe has been made on the way back.
LEMMA AfterPrevious ==
    ASSUME NEW order \in [Plan -> Freqs], NEW f \in Freqs, NEW i \in Plan
    PROVE  After(order, i - 1, f) = After(order, i, f) + (IF order[i] = f THEN 1 ELSE 0)
<1> DEFINE High(a) == {j \in Plan : j > a /\ order[j] = f}
<1>1. IsFiniteSet(High(i)) /\ Cardinality(High(i)) \in Nat
  BY PartIs
<1>2. CASE order[i] = f
  <2>1. High(i - 1) = High(i) \cup {i}
    BY <1>2, PlanIs
  <2>2. i \notin High(i)
    BY PlanIs
  <2>3. Cardinality(High(i) \cup {i}) = Cardinality(High(i)) + 1
    BY <1>1, <2>2, FS_AddElement
  <2> QED
    BY <1>2, <2>1, <2>3 DEF After
<1>3. CASE order[i] # f
  <2>1. High(i - 1) = High(i)
    BY <1>3, PlanIs
  <2> QED
    BY <1>1, <1>3, <2>1 DEF After
<1> QED
  BY <1>2, <1>3

\* The counts at the ends of the list.
LEMMA CountsAtEnds ==
    ASSUME NEW order \in [Plan -> Freqs], NEW f \in Freqs
    PROVE  /\ Before(order, 0, f) = 0
           /\ Before(order, NumProbes, f) = ProbesAt(order, f)
           /\ After(order, NumProbes - 1, f) = 0
           /\ After(order, -1, f) = ProbesAt(order, f)
<1>1. {j \in Plan : j < 0 /\ order[j] = f} = {}
  BY PlanIs
<1>2. {j \in Plan : j < NumProbes /\ order[j] = f} = {j \in Plan : order[j] = f}
  BY PlanIs
<1>3. {j \in Plan : j > NumProbes - 1 /\ order[j] = f} = {}
  BY PlanIs
<1>4. {j \in Plan : j > -1 /\ order[j] = f} = {j \in Plan : order[j] = f}
  BY PlanIs
<1> QED
  BY <1>1, <1>2, <1>3, <1>4, FS_EmptySet DEF Before, After, ProbesAt

-----------------------------------------------------------------------------
(* The invariant. *)

\* A state is excited ions of a crystal of at most two.
LEMMA CodeOfNone ==
    ASSUME numAl \in NumAl, NEW s \in States
    PROVE  Code(s) = 0 => s = {}
<1>1. Al \subseteq {0, 1}
  BY ClockAssumption DEF Al
<1>2. CASE 0 \in s
  BY <1>2, SMT DEF Code
<1>3. CASE 0 \notin s /\ 1 \in s
  BY <1>3 DEF Code
<1>4. CASE 0 \notin s /\ 1 \notin s
  BY <1>1, <1>4 DEF States
<1> QED
  BY <1>2, <1>3, <1>4

LEMMA InitPlan == Init => PlanInv
<1> SUFFICES ASSUME Init PROVE PlanInv
  OBVIOUS
<1>1. 0 \in Freqs
  BY ClockAssumption DEF Freqs
<1>2. NoEffect \in [Freqs -> Nat]
  BY DEF NoEffect
<1> QED
  BY <1>1, <1>2 DEF Init, PlanInv, NotBegun, Preparing, Measuring, PlanIsKept

\* The variables the invariant is about.
planVars == <<numAl, exp, probe_order, rcNumProbes, iProbe, bOvertime, force1S0, clock_state>>

LEMMA SamePlan ==
    ASSUME UNCHANGED planVars
    PROVE  /\ NotBegun' = NotBegun
           /\ UnderWay' = UnderWay
BY DEF planVars, NotBegun, UnderWay, Before, After, ProbesAt

\* Steps that only move pc and then inside a preparation or a measurement.
LEMMA MovingKeeps ==
    ASSUME PlanInv, UNCHANGED planVars, pc' # "finish",
           pc' = "idle" \/ Preparing' \/ Measuring',
           pc' = "idle" \/ Preparing' => NotBegun,
           Measuring' /\ exp \in Lock => UnderWay,
           exp \notin Lock => NotBegun,
           pc' = "idle" \/ pc' = "probe" => then' = "prepare"
    PROVE  PlanInv'
<1>1. NotBegun' = NotBegun /\ UnderWay' = UnderWay
  BY SamePlan
<1>2. PlanIsKept'
  BY DEF PlanIsKept
<1> QED
  BY <1>1, <1>2 DEF PlanInv, planVars

\* A list that has not been begun is under way at its first probe.
LEMMA BeginsAtFirst ==
    ASSUME PlanInv, NotBegun
    PROVE  UnderWay
<1>1. iProbe \in Plan
  BY PlanIs DEF NotBegun
<1>2. \A f \in Freqs : rcNumProbes[f] = Before(probe_order, iProbe, f)
  <2> TAKE f \in Freqs
  <2>1. Before(probe_order, 0, f) = 0
    BY CountsAtEnds DEF PlanInv
  <2> QED
    BY <2>1 DEF NotBegun, NoEffect
<1> QED
  BY <1>1, <1>2 DEF NotBegun, UnderWay

LEMMA DetectKeeps == PlanInv /\ Detect => PlanInv'
<1> SUFFICES ASSUME PlanInv, Detect PROVE PlanInv'
  OBVIOUS
<1>1. UNCHANGED planVars /\ then' = then /\ pc = "detect" /\ pc' \in {"detect", "answer"}
  BY DEF Detect, planVars, ionVars, recordVars, sequenceVars, resultVars
<1> QED
  BY <1>1, MovingKeeps DEF PlanInv, Preparing, Measuring

LEMMA PumpKeeps == PlanInv /\ Pump => PlanInv'
<1> SUFFICES ASSUME PlanInv, Pump PROVE PlanInv'
  OBVIOUS
<1>1. UNCHANGED planVars /\ then' = "prepare" /\ pc = "pump" /\ pc' = "detect"
  BY DEF Pump, BeginCheck, planVars, sequenceVars, resultVars
<1> QED
  BY <1>1, MovingKeeps DEF PlanInv, Preparing, Measuring

LEMMA ProbeKeeps == PlanInv /\ Probe => PlanInv'
<1> SUFFICES ASSUME PlanInv, Probe PROVE PlanInv'
  OBVIOUS
<1>1. UNCHANGED planVars /\ then' = "record" /\ pc = "probe" /\ pc' = "detect"
  BY DEF Probe, BeginCheck, planVars, recordVars, sequenceVars
<1> QED
  BY <1>1, MovingKeeps DEF PlanInv, Preparing, Measuring

LEMMA StartKeeps == ASSUME PlanInv, NEW e \in Exp, Start(e) PROVE PlanInv'
<1>1. /\ pc = "idle" /\ then = "prepare" /\ NotBegun /\ exp' = e
      /\ UNCHANGED <<numAl, iProbe, bOvertime, rcNumProbes, clock_state>>
  BY DEF Start, PlanInv, ionVars, recordVars, resultVars
<1>2. probe_order' \in [Plan -> Freqs]
  BY DEF Start, Orders, PlanInv
<1>3. \/ pc' = "detect" /\ then' = "prepare"
      \/ pc' = "idle" /\ then' = then
      \/ pc' = "probe" /\ then' = then
  BY DEF Start, Begin, BeginCheck
<1>4. NotBegun'
  BY <1>1 DEF NotBegun
<1>5. Measuring' => UnderWay'
  <2>1. iProbe' \in Plan /\ ~bOvertime'
    BY <1>4, PlanIs DEF NotBegun
  <2>2. \A f \in Freqs : rcNumProbes'[f] = Before(probe_order', iProbe', f)
    <3> TAKE f \in Freqs
    <3>1. Before(probe_order', 0, f) = 0
      BY <1>2, CountsAtEnds
    <3> QED
      BY <1>4, <3>1 DEF NotBegun, NoEffect
  <2> QED
    BY <2>1, <2>2 DEF UnderWay
<1>6. PlanIsKept'
  BY <1>3 DEF PlanIsKept
<1> QED
  BY <1>1, <1>2, <1>3, <1>4, <1>5, <1>6 DEF PlanInv, Preparing, Measuring

LEMMA FinishKeeps == PlanInv /\ Finish => PlanInv'
<1> SUFFICES ASSUME PlanInv, Finish PROVE PlanInv'
  OBVIOUS
<1>1. /\ pc = "finish" /\ pc' = "idle" /\ then' = then
      /\ UNCHANGED <<numAl, exp>>
  BY DEF Finish, ionVars
<1>2. NotBegun' /\ probe_order' = [j \in Plan |-> 0]
  BY DEF Finish, NotBegun
<1>3. 0 \in Freqs /\ NoEffect \in [Freqs -> Nat]
  BY ClockAssumption DEF Freqs, NoEffect
<1> QED
  BY <1>1, <1>2, <1>3 DEF PlanInv, NotBegun, Preparing, Measuring, PlanIsKept

LEMMA SetIonXtalKeeps == ASSUME PlanInv, NEW n \in NumAl, SetIonXtal(n) PROVE PlanInv'
<1>1. /\ pc = "idle" /\ pc' = "idle" /\ then' = then /\ numAl' = n
      /\ UNCHANGED <<exp, probe_order, rcNumProbes, iProbe, bOvertime>>
  BY DEF SetIonXtal, sequenceVars, resultVars
<1> QED
  BY <1>1 DEF PlanInv, NotBegun, Preparing, Measuring, PlanIsKept

\* The facts about a step that records the state found after a probe of a lock.
Recorded(state) ==
    /\ PlanInv /\ exp \in Lock /\ state \in States /\ clock_state' = state
    /\ rcNumProbes' \in [Freqs -> Nat] /\ then' = "prepare"
    /\ UNCHANGED <<numAl, exp, force1S0, probe_order>>

\* On the way back: another probe follows, or the ions are in 1S0, or the list is done.
LEMMA GoingBackKeeps ==
    ASSUME NEW state, Recorded(state), force1S0, bOvertime', iProbe' \in Int,
           iProbe' >= 0 => iProbe' \in Plan, iProbe' >= -1,
           \A f \in Freqs :
              rcNumProbes'[f] = ProbesAt(probe_order, f) + After(probe_order, iProbe', f),
           pc' = IF iProbe' < 0 \/ Code(state) = 0 THEN "finish" ELSE "probe"
    PROVE  PlanInv'
<1> USE DEF Recorded
<1>1. CASE pc' = "probe"
  <2>1. UnderWay'
    BY <1>1 DEF UnderWay, After, ProbesAt
  <2> QED
    BY <1>1, <2>1 DEF PlanInv, Preparing, Measuring, PlanIsKept
<1>2. CASE pc' = "finish"
  <2>1. ASSUME NEW f \in Freqs
        PROVE  /\ rcNumProbes'[f] >= ProbesAt(probe_order, f)
               /\ rcNumProbes'[f] <= 2 * ProbesAt(probe_order, f)
               /\ iProbe' < 0 => rcNumProbes'[f] = 2 * ProbesAt(probe_order, f)
    <3>1. /\ ProbesAt(probe_order, f) \in Nat
          /\ After(probe_order, iProbe', f) \in Nat
          /\ After(probe_order, iProbe', f) <= ProbesAt(probe_order, f)
      BY CountsAre DEF PlanInv
    <3>2. iProbe' < 0 => iProbe' = -1
      OBVIOUS
    <3>3. After(probe_order, -1, f) = ProbesAt(probe_order, f)
      BY CountsAtEnds DEF PlanInv
    <3> QED
      BY <3>1, <3>2, <3>3
  <2>2. Code(state) = 0 => clock_state' = {}
    BY CodeOfNone DEF PlanInv
  <2>3. PlanIsKept'
    BY <1>2, <2>1, <2>2 DEF PlanIsKept
  <2> QED
    BY <1>2, <2>3 DEF PlanInv, Preparing, Measuring
<1> QED
  BY <1>1, <1>2

LEMMA RecordKeeps ==
    ASSUME PlanInv, exp \in Lock, pc = "answer", then = "record",
           NEW state \in States, Record(state), then' = "prepare",
           UNCHANGED <<numAl, exp, force1S0, probe_order>>
    PROVE  PlanInv'
<1>1. UnderWay /\ iProbe \in Plan /\ iProbe \in Int
  BY PlanIs DEF PlanInv, Measuring, UnderWay
<1>2. probe_order[iProbe] \in Freqs
  BY <1>1 DEF PlanInv
<1>3. /\ rcNumProbes' = [rcNumProbes EXCEPT ![probe_order[iProbe]] = @ + 1]
      /\ NextProbe(state) /\ clock_state' = state
  BY DEF Record, setClockState, Freq
<1>4. rcNumProbes' \in [Freqs -> Nat]
  BY <1>2, <1>3 DEF PlanInv
<1>5. \A f \in Freqs : rcNumProbes'[f] = rcNumProbes[f] + (IF probe_order[iProbe] = f THEN 1 ELSE 0)
  BY <1>2, <1>3 DEF PlanInv
<1>6. Recorded(state)
  BY <1>3, <1>4 DEF Recorded
<1>7. CASE ~bOvertime
  <2>1. \A f \in Freqs : rcNumProbes'[f] = Before(probe_order, iProbe + 1, f)
    <3> TAKE f \in Freqs
    <3>1. Before(probe_order, iProbe + 1, f)
            = Before(probe_order, iProbe, f) + (IF probe_order[iProbe] = f THEN 1 ELSE 0)
      BY <1>1, BeforeNext DEF PlanInv
    <3> QED
      BY <1>1, <1>5, <1>7, <3>1 DEF UnderWay
  <2>2. CASE iProbe + 1 # NumProbes
    <3>1. iProbe' = iProbe + 1 /\ ~bOvertime' /\ pc' = "probe"
      BY <1>3, <1>7, <2>2 DEF NextProbe, NextIndex, NumProbes
    <3>2. iProbe' \in Plan
      BY <1>1, <2>2, <3>1, PlanIs
    <3>3. UnderWay'
      BY <2>1, <3>1, <3>2 DEF UnderWay, Before, After, ProbesAt
    <3> QED
      BY <1>6, <3>1, <3>3 DEF Recorded, PlanInv, Preparing, Measuring, PlanIsKept
  <2>3. CASE iProbe + 1 = NumProbes /\ ~force1S0
    <3>1. pc' = "finish"
      BY <1>3, <1>7, <2>3 DEF NextProbe, NextIndex, NumProbes
    <3>2. \A f \in Freqs : ProbesAt(probe_order, f) \in Nat /\ rcNumProbes'[f] = ProbesAt(probe_order, f)
      BY <2>1, <2>3, CountsAtEnds, CountsAre DEF PlanInv
    <3>3. PlanIsKept'
      BY <1>6, <2>3, <3>1, <3>2 DEF Recorded, PlanIsKept
    <3> QED
      BY <1>6, <3>1, <3>3 DEF Recorded, PlanInv, Preparing, Measuring
  <2>4. CASE iProbe + 1 = NumProbes /\ force1S0
    <3>1. /\ iProbe' = NumProbes - 1 /\ bOvertime'
          /\ pc' = IF iProbe' < 0 \/ Code(state) = 0 THEN "finish" ELSE "probe"
      BY <1>1, <1>3, <1>7, <2>4 DEF NextProbe, NextIndex, TurnBack, NumProbes
    <3>2. iProbe' \in Int /\ iProbe' \in Plan /\ iProbe' >= -1
      BY <3>1, PlanIs
    <3>3. \A f \in Freqs :
             rcNumProbes'[f] = ProbesAt(probe_order, f) + After(probe_order, iProbe', f)
      <4> TAKE f \in Freqs
      <4>1. rcNumProbes'[f] = ProbesAt(probe_order, f) /\ ProbesAt(probe_order, f) \in Nat
        BY <2>1, <2>4, CountsAtEnds, CountsAre DEF PlanInv
      <4>2. After(probe_order, iProbe', f) = 0
        BY <3>1, CountsAtEnds DEF PlanInv
      <4> QED
        BY <4>1, <4>2
    <3> QED
      BY <1>6, <2>4, <3>1, <3>2, <3>3, GoingBackKeeps
  <2> QED
    BY <2>2, <2>3, <2>4
<1>8. CASE bOvertime
  <2>1. iProbe - 1 # NumProbes /\ force1S0
    BY <1>1, <1>8, PlanIs DEF UnderWay
  <2>2. /\ iProbe' = iProbe - 1 /\ bOvertime'
        /\ pc' = IF iProbe' < 0 \/ Code(state) = 0 THEN "finish" ELSE "probe"
    BY <1>3, <1>8, <2>1 DEF NextProbe, NextIndex, NumProbes
  <2>3. iProbe' \in Int /\ iProbe' >= -1 /\ (iProbe' >= 0 => iProbe' \in Plan)
    BY <1>1, <2>2, PlanIs
  <2>4. \A f \in Freqs :
           rcNumProbes'[f] = ProbesAt(probe_order, f) + After(probe_order, iProbe', f)
    <3> TAKE f \in Freqs
    <3>1. After(probe_order, iProbe - 1, f)
            = After(probe_order, iProbe, f) + (IF probe_order[iProbe] = f THEN 1 ELSE 0)
      BY <1>1, AfterPrevious DEF PlanInv
    <3>2. rcNumProbes[f] = ProbesAt(probe_order, f) + After(probe_order, iProbe, f)
      BY <1>1, <1>8 DEF UnderWay
    <3>3. ProbesAt(probe_order, f) \in Nat /\ After(probe_order, iProbe, f) \in Nat
      BY CountsAre DEF PlanInv
    <3> QED
      BY <1>5, <2>2, <3>1, <3>2, <3>3
  <2> QED
    BY <1>6, <2>1, <2>2, <2>3, <2>4, GoingBackKeeps
<1> QED
  BY <1>7, <1>8

LEMMA AnswerKeeps == PlanInv /\ Answer => PlanInv'
<1> SUFFICES ASSUME PlanInv, Answer PROVE PlanInv'
  OBVIOUS
<1>1. /\ pc = "answer" /\ then' = "prepare"
      /\ UNCHANGED <<numAl, exp, force1S0, probe_order>>
  BY DEF Answer, ionVars
<1>2. PICK state \in Likeliest :
        \/ /\ then = "prepare" /\ Prepared(state)
           /\ UNCHANGED <<recordVars, iProbe, bOvertime, rcNumProbes>>
        \/ then = "record" /\ Record(state)
  BY DEF Answer
<1>3. state \in States
  BY <1>2 DEF Likeliest
<1>4. CASE then = "prepare"
  <2>1. UNCHANGED planVars /\ pc' \in {"idle", "probe", "pump"} /\ NotBegun
    BY <1>1, <1>2, <1>4 DEF planVars, recordVars, Prepared, PlanInv, Preparing
  <2>2. UnderWay
    BY <2>1, BeginsAtFirst
  <2> QED
    BY <1>1, <2>1, <2>2, MovingKeeps DEF Preparing, Measuring
<1>5. CASE then = "record" /\ exp \in Lock
  BY <1>1, <1>2, <1>3, <1>5, RecordKeeps
<1>6. CASE then = "record" /\ exp \notin Lock
  <2>1. pc' = "finish" /\ UNCHANGED <<rcNumProbes, iProbe, bOvertime>>
    BY <1>2, <1>6 DEF Record
  <2> QED
    BY <1>1, <1>6, <2>1 DEF PlanInv, NotBegun, Preparing, Measuring, PlanIsKept
<1> QED
  BY <1>1, <1>2, <1>4, <1>5, <1>6 DEF PlanInv, Preparing, Measuring

LEMMA StepKeeps == PlanInv /\ [Next]_vars => PlanInv'
<1> SUFFICES ASSUME PlanInv, [Next]_vars PROVE PlanInv'
  OBVIOUS
<1>1. CASE RunStep
  BY <1>1, DetectKeeps, AnswerKeeps, PumpKeeps, ProbeKeeps, FinishKeeps DEF RunStep
<1>2. CASE \E e \in Exp : Start(e)
  BY <1>2, StartKeeps
<1>3. CASE \E n \in NumAl : SetIonXtal(n)
  BY <1>3, SetIonXtalKeeps
<1>4. CASE UNCHANGED vars
  <2>1. UNCHANGED <<planVars, pc, then>>
    BY <1>4 DEF vars, planVars, ionVars, recordVars, sequenceVars, resultVars
  <2>2. NotBegun' = NotBegun /\ UnderWay' = UnderWay
    BY <2>1, SamePlan
  <2> QED
    BY <2>1, <2>2 DEF PlanInv, planVars, Preparing, Measuring, PlanIsKept, ProbesAt
<1> QED
  BY <1>1, <1>2, <1>3, <1>4 DEF Next

-----------------------------------------------------------------------------
(* What is inferred from the photons. *)

Counting  == pc \in {"detect", "answer"}
Recording == then = "record" /\ Counting

\* How much less likely than the state that is shown the state is that differs in the
\* ions of a.
Lead(a) == penalty[Changed(Shown, a)] - penalty[Shown]

\* The evidence about the two ions adds up, and every detection counts: a true one moves
\* the lead of its ion up, a misleading one down, a silent one nowhere.  Only an ion whose
\* lead is below MinProb is asked.
EvidenceInv ==
    /\ penalty \in [States -> Nat] /\ num_detections \in 0 .. MaxDetections
    /\ misled \in Nat /\ silent \in Nat
    /\ numAl = 2 => Lead({0, 1}) = Lead({0}) + Lead({1})
    /\ \A i \in Al : -misled <= Lead({i}) /\ Lead({i}) <= MinProb
    /\ num_detections = 2 * misled + silent
                          + (IF numAl = 2 THEN Lead({0}) + Lead({1}) ELSE Lead({0}))
    /\ pc = "detect" => ~IsCertain(penalty) /\ num_detections < MaxDetections
    /\ pc = "answer" => IsCertain(penalty) \/ num_detections = MaxDetections
    /\ ~Counting => penalty = Unknown /\ num_detections = 0 /\ misled = 0 /\ silent = 0

\* The types of the rest; the preparation gives up after MaxTries.
IonType ==
    /\ numAl \in NumAl /\ excited \subseteq Al /\ zeeman \in [Al -> {-5, 5}]
    /\ clock_state \subseteq {0, 1} /\ mFg_current \in {-5, 0, 5} /\ knownFor \in {-5, 0, 5}
    /\ pc \in {"idle", "detect", "answer", "pump", "probe", "finish"}
    /\ exp \in Exp /\ force1S0 \in BOOLEAN /\ bOvertime \in BOOLEAN
    /\ then \in {"prepare", "record"} /\ (then = "record" => Counting)
    /\ iProbe \in -1 .. NumProbes
    /\ nTries \in 0 .. MaxTries /\ (pc = "pump" => nTries < MaxTries)
    /\ flips \in Nat /\ blind \subseteq Freqs

\* What a measurement for ground state g would show now.
ShownFor(g) == {i \in Al : i \in excited \/ zeeman[i] # g}

\* When clock_state is known to be right it is what would be shown, and during a probe
\* what would have been shown before the ions made their transitions.
PriorInv ==
    /\ excess = NoEffect
    /\ ~Recording /\ knownFor # 0 => clock_state = ShownFor(knownFor)
    /\ Recording => \E flipped \in SUBSET {i \in Al : zeeman[i] = Target} :
                       /\ flips = Cardinality(flipped)
                       /\ knownFor = Target => clock_state = Changed(Shown, flipped)

\* The crystals.
LEMMA Crystals ==
    ASSUME IonType
    PROVE  /\ numAl = 1 => Al = {0} /\ States = {{}, {0}}
           /\ numAl = 2 => Al = {0, 1} /\ States = {{}, {0}, {1}, {0, 1}}
           /\ numAl = 1 \/ numAl = 2
           /\ Shown \in States /\ Al \subseteq {0, 1} /\ Target \in {-5, 5}
<1>1. numAl = 1 \/ numAl = 2
  BY ClockAssumption DEF IonType
<1>2. CASE numAl = 1
  <2>1. Al = {0}
    BY <1>2 DEF Al
  <2>2. SUBSET {0} = {{}, {0}}
    <3>1. \A s \in SUBSET {0} : s = {} \/ s = {0}
      OBVIOUS
    <3> QED
      BY <3>1
  <2> QED
    BY <1>2, <2>1, <2>2, ClockAssumption DEF States, Shown, Target, IonType
<1>3. CASE numAl = 2
  <2>1. Al = {0, 1}
    BY <1>3 DEF Al
  <2>2. SUBSET {0, 1} = {{}, {0}, {1}, {0, 1}}
    <3>1. \A s \in SUBSET {0, 1} : s = {} \/ s = {0} \/ s = {1} \/ s = {0, 1}
      <4> TAKE s \in SUBSET {0, 1}
      <4>1. CASE 0 \in s /\ 1 \in s
        BY <4>1
      <4>2. CASE 0 \in s /\ 1 \notin s
        BY <4>2
      <4>3. CASE 0 \notin s /\ 1 \in s
        BY <4>3
      <4>4. CASE 0 \notin s /\ 1 \notin s
        BY <4>4
      <4> QED
        BY <4>1, <4>2, <4>3, <4>4
    <3> QED
      BY <3>1
  <2> QED
    BY <1>3, <2>1, <2>2, ClockAssumption DEF States, Shown, Target, IonType
<1> QED
  BY <1>1, <1>2, <1>3

\* The states seen from the one that is shown.
LEMMA OneIon ==
    ASSUME IonType, numAl = 1
    PROVE  LET a == Shown
               b == Changed(a, {0})
           IN  /\ States = {a, b} /\ a # b /\ Changed(a, {}) = a
               /\ 0 \in a <=> 0 \notin b
<1>1. States = {{}, {0}} /\ Shown \in {{}, {0}}
  BY Crystals
<1>2. CASE Shown = {}
  BY <1>1, <1>2 DEF Changed
<1>3. CASE Shown = {0}
  <2>1. Changed({0}, {0}) = {}
    BY DEF Changed
  <2> QED
    BY <1>1, <1>3, <2>1 DEF Changed
<1> QED
  BY <1>1, <1>2, <1>3

LEMMA TwoIons ==
    ASSUME IonType, numAl = 2
    PROVE  LET a == Shown
               b == Changed(a, {0})
               c == Changed(a, {1})
               d == Changed(a, {0, 1})
           IN  /\ States = {a, b, c, d} /\ a # b /\ a # c /\ a # d /\ b # c /\ b # d /\ c # d
               /\ 0 \in a <=> 0 \notin b
               /\ 0 \in a <=> 0 \in c
               /\ 0 \in a <=> 0 \notin d
               /\ 1 \in a <=> 1 \in b
               /\ 1 \in a <=> 1 \notin c
               /\ 1 \in a <=> 1 \notin d
<1>1. States = {{}, {0}, {1}, {0, 1}} /\ Shown \in States
  BY Crystals
<1>2. CASE Shown = {}
  <2> DEFINE b == Changed(Shown, {0})
             c == Changed(Shown, {1})
             d == Changed(Shown, {0, 1})
  <2>1. b = {0} /\ c = {1} /\ d = {0, 1}
    BY <1>2 DEF Changed
  <2> HIDE DEF b, c, d
  <2>2. States = {Shown, b, c, d}
    BY <1>1, <1>2, <2>1
  <2>3. /\ 0 \notin Shown /\ 0 \in b /\ 0 \notin c /\ 0 \in d
        /\ 1 \notin Shown /\ 1 \notin b /\ 1 \in c /\ 1 \in d
    BY <1>2, <2>1
  <2>4. /\ Shown # b /\ Shown # c /\ Shown # d /\ b # c /\ b # d /\ c # d
    BY <2>3
  <2> QED
    BY <2>2, <2>3, <2>4 DEF b, c, d
<1>3. CASE Shown = {0}
  <2>1. Changed({0}, {0}) = {} /\ Changed({0}, {1}) = {0, 1} /\ Changed({0}, {0, 1}) = {1}
    BY DEF Changed
  <2> QED
    BY <1>1, <1>3, <2>1
<1>4. CASE Shown = {1}
  <2>1. Changed({1}, {0}) = {0, 1} /\ Changed({1}, {1}) = {} /\ Changed({1}, {0, 1}) = {0}
    BY DEF Changed
  <2> QED
    BY <1>1, <1>4, <2>1
<1>5. CASE Shown = {0, 1}
  <2>1. /\ Changed({0, 1}, {0}) = {1} /\ Changed({0, 1}, {1}) = {0}
        /\ Changed({0, 1}, {0, 1}) = {}
    BY DEF Changed
  <2> QED
    BY <1>1, <1>5, <2>1
<1> QED
  BY <1>1, <1>2, <1>3, <1>4, <1>5

\* There is a smallest penalty.
LEMMA SmallestPenalty ==
    ASSUME IonType, NEW p \in [States -> Nat]
    PROVE  \E s \in States : \A t \in States : p[s] <= p[t]
<1>1. CASE numAl = 1
  <2> DEFINE a == {}
             b == {0}
  <2>1. States = {a, b}
    BY <1>1, Crystals
  <2> HIDE DEF a, b
  <2>2. p[a] \in Nat /\ p[b] \in Nat
    BY <2>1
  <2>3. \E s \in {a, b} : p[s] <= p[a] /\ p[s] <= p[b]
    BY <2>2
  <2> QED
    BY <2>1, <2>3
<1>2. CASE numAl = 2
  <2> DEFINE a == {}
             b == {0}
             c == {1}
             d == {0, 1}
  <2>1. States = {a, b, c, d}
    BY <1>2, Crystals
  <2> HIDE DEF a, b, c, d
  <2>2. p[a] \in Nat /\ p[b] \in Nat /\ p[c] \in Nat /\ p[d] \in Nat
    BY <2>1
  <2>3. \E s \in {a, b, c, d} : p[s] <= p[a] /\ p[s] <= p[b] /\ p[s] <= p[c] /\ p[s] <= p[d]
    BY <2>2
  <2> QED
    BY <2>1, <2>3
<1> QED
  BY <1>1, <1>2, Crystals

\* Normalizing subtracts the same from every penalty.
LEMMA NormalizedIs ==
    ASSUME IonType, NEW p \in [States -> Nat]
    PROVE  /\ Normalized(p) \in [States -> Nat]
           /\ \E n \in Nat : \A s \in States : Normalized(p)[s] = p[s] - n
<1> DEFINE n == CHOOSE m \in {p[t] : t \in States} : \A t \in States : m <= p[t]
<1>1. PICK s \in States : \A t \in States : p[s] <= p[t]
  BY SmallestPenalty
<1>2. \E m \in {p[t] : t \in States} : \A t \in States : m <= p[t]
  BY <1>1
<1>3. n \in {p[t] : t \in States} /\ \A t \in States : n <= p[t]
  BY <1>2
<1>4. Normalized(p) = [t \in States |-> p[t] - n]
  BY DEF Normalized
<1> HIDE DEF n
<1>5. n \in Nat /\ \A t \in States : p[t] \in Nat /\ p[t] - n \in Nat
  BY <1>3
<1> QED
  BY <1>4, <1>5

\* One detection moves the lead of every state that differs in the ion that was asked,
\* up if it spoke for the state that is shown, and down otherwise.
LEMMA EvidenceMoves ==
    ASSUME IonType, penalty \in [States -> Nat], NEW i \in Al, NEW seen \in BOOLEAN,
           NEW x \in States
    PROVE  LET p == Normalized(Evidence(i, seen))
           IN  /\ p \in [States -> Nat]
               /\ p[Changed(Shown, x)] - p[Shown]
                    = Lead(x) + (IF i \notin x THEN 0 ELSE IF seen = (i \in Shown) THEN 1 ELSE -1)
<1> DEFINE e == Evidence(i, seen)
           p == Normalized(e)
           y == Changed(Shown, x)
<1>1. Shown \in States /\ y \in States
  BY Crystals DEF States, Changed
<1>2. i \in y <=> (i \in Shown /\ i \notin x) \/ (i \notin Shown /\ i \in x)
  BY DEF Changed
<1>3. e \in [States -> Nat]
  BY DEF Evidence
<1>4. /\ e[Shown] = penalty[Shown] + IF (i \in Shown) = seen THEN 0 ELSE 1
      /\ e[y] = penalty[y] + IF (i \in y) = seen THEN 0 ELSE 1
  BY <1>1 DEF Evidence
<1> HIDE DEF e
<1>5. p \in [States -> Nat]
  BY <1>3, NormalizedIs
<1>6. PICK n \in Nat : \A s \in States : p[s] = e[s] - n
  BY <1>3, NormalizedIs
<1>7. p[y] - p[Shown] = e[y] - e[Shown]
  <2>1. e[y] \in Nat /\ e[Shown] \in Nat
    BY <1>1, <1>3
  <2>2. p[y] = e[y] - n /\ p[Shown] = e[Shown] - n
    BY <1>1, <1>6
  <2> HIDE DEF p
  <2> QED
    BY <2>1, <2>2
<1>8. Lead(x) = penalty[y] - penalty[Shown] /\ penalty[y] \in Nat /\ penalty[Shown] \in Nat
  BY <1>1 DEF Lead
<1>9. e[y] - e[Shown]
        = Lead(x) + (IF i \notin x THEN 0 ELSE IF seen = (i \in Shown) THEN 1 ELSE -1)
  <2> DEFINE inY == i \in y
             inX == i \in x
             inS == i \in Shown
  <2>1. inY \in BOOLEAN /\ inX \in BOOLEAN /\ inS \in BOOLEAN
    OBVIOUS
  <2>2. inY <=> (inS /\ ~inX) \/ (~inS /\ inX)
    BY <1>2
  <2>3. e[Shown] = penalty[Shown] + IF inS = seen THEN 0 ELSE 1
    BY <1>4
  <2>4. e[y] = penalty[y] + IF inY = seen THEN 0 ELSE 1
    BY <1>4
  <2>5. e[y] - e[Shown]
          = Lead(x) + (IF ~inX THEN 0 ELSE IF seen = inS THEN 1 ELSE -1)
    <3> HIDE DEF inX, inY, inS, y
    <3>1. CASE ~inX
      <4>1. inY = inS
        BY <3>1, <2>1, <2>2
      <4> QED
        BY <3>1, <4>1, <2>3, <2>4, <1>8
    <3>2. CASE inX /\ inS = seen
      <4>1. inY # seen
        BY <3>2, <2>1, <2>2
      <4>2. e[y] = penalty[y] + 1 /\ e[Shown] = penalty[Shown]
        BY <3>2, <4>1, <2>3, <2>4, <1>8
      <4>3. (IF ~inX THEN 0 ELSE IF seen = inS THEN 1 ELSE -1) = 1
        BY <3>2
      <4> QED
        BY <4>2, <4>3, <1>8
    <3>3. CASE inX /\ inS # seen
      <4>1. inY = seen
        BY <3>3, <2>1, <2>2
      <4>2. e[y] = penalty[y] /\ e[Shown] = penalty[Shown] + 1
        BY <3>3, <4>1, <2>3, <2>4, <1>8
      <4>3. (IF ~inX THEN 0 ELSE IF seen = inS THEN 1 ELSE -1) = -1
        BY <3>3
      <4> QED
        BY <4>2, <4>3, <1>8
    <3> QED
      BY <3>1, <3>2, <3>3, <2>1
  <2> QED
    BY <2>5
<1> QED
  BY <1>5, <1>7, <1>9 DEF e

\* Only an ion whose state is not settled is asked: of the two likeliest states one would
\* be certain otherwise.
LEMMA AskedIsOpen ==
    ASSUME IonType, EvidenceInv, pc = "detect", NEW two \in LikeliestTwo
    PROVE  LET i == decide_next_pulse_type(two[1], two[2])
           IN  i \in Al /\ Lead({i}) < MinProb
<1> DEFINE u == two[1]
           v == two[2]
           a == Shown
           b == Changed(Shown, {0})
<1>1. /\ u \in States /\ v \in States /\ u # v /\ penalty[u] <= penalty[v]
      /\ \A s \in States \ {u, v} : penalty[v] <= penalty[s]
  BY DEF LikeliestTwo
<1>2. penalty \in [States -> Nat] /\ MinProb \in Nat \ {0}
  BY ClockAssumption DEF EvidenceInv
<1>3. ASSUME NEW s \in States
      PROVE  \E t \in States \ {s} : ~(penalty[t] >= penalty[s] + MinProb)
  BY DEF EvidenceInv, IsCertain
<1> HIDE DEF u, v
<1>4. CASE numAl = 1
  <2>1. States = {a, b} /\ a # b
    BY <1>4, OneIon
  <2> HIDE DEF a, b
  <2>2. \E t \in {b} : ~(penalty[t] >= penalty[a] + MinProb)
    BY <1>3, <2>1
  <2>3. penalty[b] \in Nat /\ penalty[a] \in Nat
    BY <1>2, <2>1
  <2>4. penalty[b] - penalty[a] < MinProb
    BY <1>2, <2>2, <2>3
  <2> QED
    BY <1>4, <2>4, Crystals DEF decide_next_pulse_type, Lead, a, b
<1>5. CASE numAl = 2
  <2> DEFINE c == Changed(Shown, {1})
             d == Changed(Shown, {0, 1})
  <2>1. /\ States = {a, b, c, d} /\ a # b /\ a # c /\ a # d /\ b # c /\ b # d /\ c # d
        /\ 0 \in a <=> 0 \notin b
        /\ 0 \in a <=> 0 \in c
        /\ 0 \in a <=> 0 \notin d
    BY <1>5, TwoIons
  <2>2. 0 \in Changed(u, v) <=> (0 \in u /\ 0 \notin v) \/ (0 \notin u /\ 0 \in v)
    BY DEF Changed
  <2>3. /\ Lead({0}) = penalty[b] - penalty[a]
        /\ Lead({1}) = penalty[c] - penalty[a]
        /\ Lead({0, 1}) = penalty[d] - penalty[a]
        /\ Lead({0, 1}) = Lead({0}) + Lead({1})
    BY <1>5 DEF Lead, EvidenceInv
  <2> HIDE DEF a, b, c, d
  <2> DEFINE pa == penalty[a]
             pb == penalty[b]
             pc1 == penalty[c]
             pd == penalty[d]
  <2>4. pa \in Nat /\ pb \in Nat /\ pc1 \in Nat /\ pd \in Nat
    BY <1>2, <2>1
  <2>5. pd - pa = (pb - pa) + (pc1 - pa)
    BY <2>3
  <2>6. /\ pb < pa + MinProb \/ pc1 < pa + MinProb \/ pd < pa + MinProb
        /\ pa < pb + MinProb \/ pc1 < pb + MinProb \/ pd < pb + MinProb
        /\ pa < pc1 + MinProb \/ pb < pc1 + MinProb \/ pd < pc1 + MinProb
        /\ pa < pd + MinProb \/ pb < pd + MinProb \/ pc1 < pd + MinProb
    <3>1. \E t \in {b, c, d} : ~(penalty[t] >= penalty[a] + MinProb)
      BY <1>3, <2>1
    <3>2. \E t \in {a, c, d} : ~(penalty[t] >= penalty[b] + MinProb)
      BY <1>3, <2>1
    <3>3. \E t \in {a, b, d} : ~(penalty[t] >= penalty[c] + MinProb)
      BY <1>3, <2>1
    <3>4. \E t \in {a, b, c} : ~(penalty[t] >= penalty[d] + MinProb)
      BY <1>3, <2>1
    <3> QED
      BY <1>2, <2>4, <3>1, <3>2, <3>3, <3>4
  <2>7. ASSUME NEW x \in {a, b, c, d}, NEW y \in {a, b, c, d}, u = x, v = y, x # y
        PROVE  /\ penalty[x] <= penalty[y]
               /\ a \notin {x, y} => penalty[y] <= pa
               /\ b \notin {x, y} => penalty[y] <= pb
               /\ c \notin {x, y} => penalty[y] <= pc1
               /\ d \notin {x, y} => penalty[y] <= pd
    BY <1>1, <2>1, <2>7
  <2>8. (u \in {a, c} /\ v \in {b, d}) \/ (u \in {b, d} /\ v \in {a, c}) => pb - pa < MinProb
    <3>1. ASSUME u = a, v = b PROVE pb - pa < MinProb
      <4>1. pb <= pc1 /\ pb <= pd
        BY <2>1, <2>7, <3>1
      <4> HIDE DEF pa, pb, pc1, pd
      <4> QED
        BY <1>2, <2>4, <2>5, <2>6, <4>1
    <3>2. ASSUME u = a, v = d PROVE pb - pa < MinProb
      <4>1. pa <= pd /\ pd <= pc1 /\ pd <= pb
        BY <2>1, <2>7, <3>2
      <4> HIDE DEF pa, pb, pc1, pd
      <4> QED
        BY <1>2, <2>4, <2>5, <2>6, <4>1
    <3>3. ASSUME u = c, v = b PROVE pb - pa < MinProb
      <4>1. pc1 <= pb /\ pb <= pa /\ pb <= pd
        BY <2>1, <2>7, <3>3
      <4> HIDE DEF pa, pb, pc1, pd
      <4> QED
        BY <1>2, <2>4, <2>5, <2>6, <4>1
    <3>4. ASSUME u = c, v = d PROVE pb - pa < MinProb
      <4>1. pc1 <= pd /\ pd <= pa /\ pd <= pb
        BY <2>1, <2>7, <3>4
      <4> HIDE DEF pa, pb, pc1, pd
      <4> QED
        BY <1>2, <2>4, <2>5, <2>6, <4>1
    <3>5. ASSUME u \in {b, d}, v \in {a, c} PROVE pb - pa < MinProb
      <4>1. \/ pb <= pa
            \/ pb <= pc1 /\ pc1 <= pa
            \/ pd <= pa /\ pa <= pc1
            \/ pd <= pc1
        BY <2>1, <2>7, <3>5
      <4> HIDE DEF pa, pb, pc1, pd
      <4> QED
        BY <1>2, <2>4, <2>5, <4>1
    <3> QED
      BY <3>1, <3>2, <3>3, <3>4, <3>5
  <2>9. (u \in {a, c} /\ v \in {a, c}) \/ (u \in {b, d} /\ v \in {b, d}) => pc1 - pa < MinProb
    <3>1. ASSUME u = a, v = c PROVE pc1 - pa < MinProb
      <4>1. pc1 <= pb /\ pc1 <= pd
        BY <2>1, <2>7, <3>1
      <4> HIDE DEF pa, pb, pc1, pd
      <4> QED
        BY <1>2, <2>4, <2>5, <2>6, <4>1
    <3>2. ASSUME u = b, v = d PROVE pc1 - pa < MinProb
      <4>1. pd <= pa /\ pd <= pc1
        BY <2>1, <2>7, <3>2
      <4> HIDE DEF pa, pb, pc1, pd
      <4> QED
        BY <1>2, <2>4, <2>5, <2>6, <4>1
    <3>3. ASSUME (u = c /\ v = a) \/ (u = d /\ v = b) PROVE pc1 - pa < MinProb
      <4>1. pc1 <= pa \/ pd <= pb
        BY <2>1, <2>7, <3>3
      <4> HIDE DEF pa, pb, pc1, pd
      <4> QED
        BY <1>2, <2>4, <2>5, <4>1
    <3>4. ASSUME (u \in {a, c} /\ v \in {a, c}) \/ (u \in {b, d} /\ v \in {b, d})
          PROVE  \/ u = a /\ v = c
                 \/ u = b /\ v = d
                 \/ (u = c /\ v = a) \/ (u = d /\ v = b)
      BY <1>1, <3>4
    <3> HIDE DEF pa, pc1
    <3> QED
      BY <3>1, <3>2, <3>3, <3>4
  <2>10. CASE 0 \in Changed(u, v)
    <3>1. (u \in {a, c} /\ v \in {b, d}) \/ (u \in {b, d} /\ v \in {a, c})
      BY <1>1, <2>1, <2>2, <2>10
    <3>2. decide_next_pulse_type(u, v) = 0 /\ 0 \in Al
      BY <1>5, <2>10, Crystals DEF decide_next_pulse_type
    <3> QED
      BY <2>3, <2>8, <3>1, <3>2 DEF u, v
  <2>11. CASE 0 \notin Changed(u, v)
    <3>1. (u \in {a, c} /\ v \in {a, c}) \/ (u \in {b, d} /\ v \in {b, d})
      BY <1>1, <2>1, <2>2, <2>11
    <3>2. decide_next_pulse_type(u, v) = 1 /\ 1 \in Al
      BY <1>5, <2>11, Crystals DEF decide_next_pulse_type
    <3> QED
      BY <2>3, <2>9, <3>1, <3>2 DEF u, v
  <2> QED
    BY <2>10, <2>11
<1> QED
  BY <1>4, <1>5, Crystals

\* The state in which get_clock_state begins, and which it leaves behind.
Fresh ==
    /\ IonType /\ penalty = Unknown /\ num_detections = 0 /\ misled = 0 /\ silent = 0
    /\ pc # "answer"

LEMMA FreshHolds == Fresh => EvidenceInv
<1> SUFFICES ASSUME Fresh PROVE EvidenceInv
  OBVIOUS
<1>1. IonType /\ penalty = Unknown /\ Shown \in States /\ MinProb \in Nat \ {0} /\ MaxDetections \in Nat \ {0}
  BY Crystals, ClockAssumption DEF Fresh
<1>2. ASSUME NEW s \in States PROVE penalty[s] = 0
  BY <1>1 DEF Unknown
<1>3. ASSUME NEW x \in States PROVE Lead(x) = 0
  <2>1. Changed(Shown, x) \in States
    BY <1>1 DEF Changed, States
  <2> QED
    BY <1>1, <1>2, <2>1 DEF Lead
<1>4. \A i \in Al : Lead({i}) = 0
  BY <1>3 DEF States
<1>5. 0 \in Al /\ (numAl = 2 => Lead({0, 1}) = 0 /\ Lead({1}) = 0)
  BY <1>1, <1>3, <1>4, Crystals
<1>6. ~IsCertain(penalty)
  <2> SUFFICES ASSUME NEW s \in States
               PROVE  \E t \in States \ {s} : ~(penalty[t] >= penalty[s] + MinProb)
    BY DEF IsCertain
  <2>1. PICK t \in States \ {s} : TRUE
    <3>1. {} \in States /\ {0} \in States /\ {} # {0}
      BY <1>1, Crystals
    <3> QED
      BY <3>1
  <2> QED
    BY <1>1, <1>2, <2>1
<1>7. penalty \in [States -> Nat]
  BY <1>1 DEF Unknown
<1>8. Lead({0}) = 0
  BY <1>4, <1>5
<1> QED
  BY <1>1, <1>4, <1>5, <1>6, <1>7, <1>8 DEF Fresh, EvidenceInv, Counting

LEMMA FreshNext == Fresh' => EvidenceInv'
BY FreshHolds, PTL

LEMMA DetectKeepsEvidence == IonType /\ EvidenceInv /\ Detect => EvidenceInv'
<1> SUFFICES ASSUME IonType, EvidenceInv, Detect PROVE EvidenceInv'
  OBVIOUS
<1>1. /\ pc = "detect" /\ UNCHANGED <<excited, zeeman, numAl, exp>>
      /\ num_detections' = num_detections + 1
      /\ pc' = IF IsCertain(penalty') \/ num_detections' = MaxDetections
               THEN "answer" ELSE "detect"
  BY DEF Detect, ionVars
<1>2. Al' = Al /\ States' = States /\ Shown' = Shown
  BY <1>1 DEF Al, States, Shown, Target
<1>3. PICK two \in LikeliestTwo :
        LET i == decide_next_pulse_type(two[1], two[2])
        IN  \/ /\ penalty' = Normalized(Evidence(i, i \in Shown))
               /\ UNCHANGED <<misled, silent>>
            \/ /\ penalty' = Normalized(Evidence(i, i \notin Shown))
               /\ misled' = misled + 1 /\ UNCHANGED silent
            \/ /\ silent' = silent + 1 /\ UNCHANGED <<penalty, misled>>
  BY DEF Detect
<1> DEFINE i == decide_next_pulse_type(two[1], two[2])
<1>4. i \in Al /\ Lead({i}) < MinProb
  BY <1>1, AskedIsOpen
<1> HIDE DEF i
<1>5. /\ penalty \in [States -> Nat] /\ misled \in Nat /\ silent \in Nat
      /\ num_detections \in Nat /\ num_detections < MaxDetections /\ MaxDetections \in Nat
      /\ MinProb \in Nat
  BY <1>1, ClockAssumption DEF EvidenceInv
<1> DEFINE NextOf(x) == penalty'[Changed(Shown, x)] - penalty'[Shown]
<1>6. ASSUME NEW x \in States
      PROVE  Lead(x) \in Int
  <2>1. Changed(Shown, x) \in States /\ Shown \in States
    BY Crystals DEF Changed, States
  <2> QED
    BY <1>5, <2>1 DEF Lead
<1>7. \/ /\ penalty' \in [States -> Nat] /\ misled' = misled /\ silent' = silent
         /\ \A x \in States : NextOf(x) = Lead(x) + (IF i \notin x THEN 0 ELSE 1)
      \/ /\ penalty' \in [States -> Nat] /\ misled' = misled + 1 /\ silent' = silent
         /\ \A x \in States : NextOf(x) = Lead(x) + (IF i \notin x THEN 0 ELSE -1)
      \/ /\ penalty' \in [States -> Nat] /\ misled' = misled /\ silent' = silent + 1
         /\ \A x \in States : NextOf(x) = Lead(x)
  <2>1. CASE penalty' = Normalized(Evidence(i, i \in Shown)) /\ UNCHANGED <<misled, silent>>
    <3> DEFINE seen == i \in Shown
    <3>1. seen \in BOOLEAN /\ seen = (i \in Shown)
      OBVIOUS
    <3>2. penalty' = Normalized(Evidence(i, seen))
      BY <2>1
    <3> HIDE DEF seen
    <3>3. ASSUME NEW x \in States
          PROVE  /\ penalty' \in [States -> Nat]
                 /\ NextOf(x) = Lead(x) + (IF i \notin x THEN 0 ELSE 1)
      BY <1>4, <1>5, <3>1, <3>2, EvidenceMoves
    <3> QED
      BY <2>1, <3>3, Crystals
  <2>2. CASE penalty' = Normalized(Evidence(i, i \notin Shown)) /\ misled' = misled + 1 /\ UNCHANGED silent
    <3>1. (i \notin Shown) # (i \in Shown)
      OBVIOUS
    <3>2. ASSUME NEW x \in States
          PROVE  /\ penalty' \in [States -> Nat]
                 /\ NextOf(x) = Lead(x) + (IF i \notin x THEN 0 ELSE -1)
      BY <1>4, <1>5, <2>2, <3>1, EvidenceMoves
    <3> QED
      BY <2>2, <3>2, Crystals
  <2>3. CASE silent' = silent + 1 /\ UNCHANGED <<penalty, misled>>
    BY <1>5, <2>3 DEF Lead
  <2> QED
    BY <1>3, <2>1, <2>2, <2>3 DEF i
<1>8. \A x : Lead(x)' = NextOf(x)
  BY <1>2 DEF Lead, Changed
<1> HIDE DEF NextOf
<1>9. misled' \in Nat /\ silent' \in Nat /\ num_detections' \in 0 .. MaxDetections
  BY <1>1, <1>5, <1>7
<1>10. \A j \in Al : -misled' <= NextOf({j}) /\ NextOf({j}) <= MinProb
  <2> TAKE j \in Al
  <2>1. {j} \in States /\ Lead({j}) \in Int /\ -misled <= Lead({j}) /\ Lead({j}) <= MinProb
    BY <1>6 DEF States, EvidenceInv
  <2>2. CASE j = i
    BY <1>4, <1>5, <1>7, <2>1, <2>2
  <2>3. CASE j # i
    <3>1. NextOf({j}) = Lead({j}) /\ misled' >= misled
      BY <1>5, <1>7, <2>1, <2>3
    <3> QED
      BY <1>5, <1>9, <2>1, <3>1
  <2> QED
    BY <2>2, <2>3
<1>11. numAl = 2 => NextOf({0, 1}) = NextOf({0}) + NextOf({1})
  <2> SUFFICES ASSUME numAl = 2 PROVE NextOf({0, 1}) = NextOf({0}) + NextOf({1})
    OBVIOUS
  <2>1. /\ {0, 1} \in States /\ {0} \in States /\ {1} \in States /\ i \in {0, 1}
    BY <1>4, Crystals
  <2>2. /\ Lead({0, 1}) = Lead({0}) + Lead({1})
        /\ Lead({0, 1}) \in Int /\ Lead({0}) \in Int /\ Lead({1}) \in Int
    BY <1>6, <2>1 DEF EvidenceInv
  <2> QED
    BY <1>7, <2>1, <2>2
<1>12. num_detections' = 2 * misled' + silent'
                         + (IF numAl = 2 THEN NextOf({0}) + NextOf({1}) ELSE NextOf({0}))
  <2>1. num_detections = 2 * misled + silent
                          + (IF numAl = 2 THEN Lead({0}) + Lead({1}) ELSE Lead({0}))
    BY DEF EvidenceInv
  <2>2. CASE numAl = 2
    <3>1. {0} \in States /\ {1} \in States /\ i \in {0, 1}
      BY <1>4, <2>2, Crystals
    <3>2. Lead({0}) \in Int /\ Lead({1}) \in Int
      BY <1>6, <3>1
    <3> QED
      BY <1>1, <1>5, <1>7, <2>1, <2>2, <3>1, <3>2
  <2>3. CASE numAl # 2
    <3>1. {0} \in States /\ i = 0
      BY <1>4, <2>3, Crystals
    <3>2. Lead({0}) \in Int
      BY <1>6, <3>1
    <3> QED
      BY <1>1, <1>5, <1>7, <2>1, <2>3, <3>1, <3>2
  <2> QED
    BY <2>2, <2>3
<1>13. /\ pc' = "detect" => ~IsCertain(penalty)' /\ num_detections' < MaxDetections
       /\ pc' = "answer" => IsCertain(penalty)' \/ num_detections' = MaxDetections
       /\ Counting'
  <2>1. IsCertain(penalty)' = IsCertain(penalty')
    BY <1>2 DEF IsCertain
  <2> QED
    BY <1>1, <1>5, <1>9, <2>1 DEF Counting
<1>14. penalty' \in [States' -> Nat]
  BY <1>2, <1>7
<1> QED
  BY <1>1, <1>2, <1>8, <1>9, <1>10, <1>11, <1>12, <1>13, <1>14 DEF EvidenceInv

-----------------------------------------------------------------------------
(* The types. *)

LEMMA InitIons == Init => IonType /\ EvidenceInv /\ PriorInv
<1> SUFFICES ASSUME Init PROVE IonType /\ EvidenceInv /\ PriorInv
  OBVIOUS
<1>1. IonType
  <2>1. 0 \in -1 .. NumProbes /\ 0 \in 0 .. MaxTries
    BY PlanIs, ClockAssumption
  <2> QED
    BY <2>1 DEF Init, IonType, Counting
<1>2. EvidenceInv
  BY <1>1, FreshHolds DEF Init, Fresh
<1> QED
  BY <1>1, <1>2 DEF Init, PriorInv, Recording, Counting

LEMMA FreqIs ==
    ASSUME PlanInv, Measuring
    PROVE  Freq \in Freqs
<1>1. CASE exp \in Lock
  BY <1>1 DEF PlanInv, UnderWay, Freq
<1>2. CASE exp \notin Lock
  BY <1>2, ClockAssumption DEF Freq, Freqs
<1> QED
  BY <1>1, <1>2

LEMMA ProbeKeepsTypes == IonType /\ Probe => IonType'
<1> SUFFICES ASSUME IonType, Probe PROVE IonType'
  OBVIOUS
<1>1. /\ pc = "probe" /\ pc' = "detect" /\ then' = "record"
      /\ UNCHANGED <<zeeman, numAl, clock_state, knownFor, mFg_current, exp, force1S0,
                     probe_order, iProbe, bOvertime, blind, nTries>>
  BY DEF Probe, BeginCheck, recordVars, sequenceVars
<1>2. PICK flipped \in SUBSET Al : excited' = Changed(excited, flipped) /\ flips' = Cardinality(flipped)
  BY DEF Probe
<1>3. excited' \subseteq Al
  BY <1>2 DEF IonType, Changed
<1>4. flips' \in Nat
  <2>1. IsFiniteSet(Al)
    <3>1. numAl - 1 \in Int
      BY ClockAssumption DEF IonType
    <3> QED
      BY <3>1, FS_Interval DEF Al
  <2> QED
    BY <1>2, <2>1, FS_Subset, FS_CardinalityType
<1>5. Al' = Al
  BY <1>1 DEF Al
<1> QED
  BY <1>1, <1>3, <1>4, <1>5 DEF IonType, Counting

LEMMA AnswerKeepsTypes == PlanInv /\ IonType /\ Answer => IonType'
<1> SUFFICES ASSUME PlanInv, IonType, Answer PROVE IonType'
  OBVIOUS
<1>1. /\ pc = "answer" /\ then' = "prepare"
      /\ UNCHANGED <<excited, zeeman, numAl, exp, force1S0, probe_order>>
  BY DEF Answer, ionVars
<1>2. PICK state \in Likeliest :
        \/ /\ then = "prepare" /\ Prepared(state)
           /\ UNCHANGED <<recordVars, iProbe, bOvertime, rcNumProbes, flips, excess, blind>>
        \/ /\ then = "record" /\ Record(state)
           /\ UNCHANGED <<mFg_current, nTries>>
  BY DEF Answer
<1>3. state \subseteq {0, 1} /\ Target \in {-5, 5}
  BY <1>2, Crystals DEF Likeliest, States
<1>4. Al' = Al /\ MaxTries \in Nat
  BY <1>1, ClockAssumption DEF Al
<1>5. CASE then = "prepare"
  <2>1. /\ pc' \in {"pump", "idle", "probe"} /\ mFg_current' \in {-5, 0, 5}
        /\ nTries' \in 0 .. MaxTries /\ (pc' = "pump" => nTries' < MaxTries)
    BY <1>2, <1>3, <1>4, <1>5 DEF Prepared, IonType
  <2> QED
    BY <1>1, <1>2, <1>4, <1>5, <2>1 DEF IonType, Counting, recordVars
<1>6. CASE then = "record"
  <2>1. Measuring
    BY <1>1, <1>6 DEF Measuring
  <2>2. /\ Record(state) /\ UNCHANGED <<mFg_current, nTries>>
    BY <1>2, <1>6
  <2>3. clock_state' \subseteq {0, 1} /\ knownFor' \in {-5, 0, 5} /\ flips' = 0
    BY <1>3, <2>2 DEF Record, setClockState
  <2>4. blind' \subseteq Freqs
    BY <2>1, <2>2, FreqIs DEF Record, IonType
  <2>5. pc' \in {"finish", "probe"} /\ iProbe' \in -1 .. NumProbes /\ bOvertime' \in BOOLEAN
    <3>1. CASE exp \in Lock
      <4>1. NextProbe(state) /\ iProbe \in Plan
        BY <2>1, <2>2, <3>1 DEF Record, PlanInv, UnderWay
      <4>2. pc' \in {"finish", "probe"} /\ bOvertime' \in BOOLEAN
        BY <4>1 DEF NextProbe, IonType
      <4>3. iProbe' \in -1 .. NumProbes
        <5> DEFINE next == NextIndex(bOvertime)
        <5>1. next \in -1 .. NumProbes /\ NumProbes \in Nat \ {0}
          BY <4>1, PlanIs DEF NextIndex
        <5>2. iProbe' = IF next = NumProbes /\ force1S0 THEN next - 1 ELSE next
          BY <4>1 DEF NextProbe, TurnBack, NumProbes
        <5> HIDE DEF next
        <5> QED
          BY <5>1, <5>2
      <4> QED
        BY <4>2, <4>3
    <3>2. CASE exp \notin Lock
      BY <2>2, <3>2 DEF Record, IonType
    <3> QED
      BY <3>1, <3>2
  <2>6. pc # "pump" /\ pc' # "pump"
    BY <1>1, <2>5
  <2> QED
    BY <1>1, <1>4, <2>2, <2>3, <2>4, <2>5, <2>6 DEF IonType, Counting
<1> QED
  BY <1>2, <1>5, <1>6

LEMMA TypesKept == PlanInv /\ IonType /\ [Next]_vars => IonType'
<1> SUFFICES ASSUME PlanInv, IonType, [Next]_vars PROVE IonType'
  OBVIOUS
<1> USE DEF ionVars, recordVars, sequenceVars, resultVars, countVars
<1>1. CASE Detect
  <2>1. /\ pc = "detect" /\ pc' \in {"answer", "detect"}
        /\ UNCHANGED <<excited, zeeman, numAl, clock_state, knownFor, mFg_current, exp, force1S0,
                       iProbe, bOvertime, flips, blind, nTries, then>>
    BY <1>1 DEF Detect
  <2> QED
    BY <2>1 DEF IonType, Al, Counting
<1>2. CASE Pump
  <2>1. /\ pc = "pump" /\ pc' = "detect" /\ then' = "prepare" /\ nTries' = nTries + 1
        /\ UNCHANGED <<numAl, clock_state, mFg_current, exp, force1S0,
                       iProbe, bOvertime, flips, blind>>
    BY <1>2 DEF Pump, BeginCheck
  <2>2. Al' = Al /\ Target \in {-5, 5} /\ MaxTries \in Nat
    BY <2>1, Crystals, ClockAssumption DEF Al
  <2>3. excited' \subseteq Al /\ zeeman' \in [Al -> {-5, 5}] /\ knownFor' \in {-5, 0, 5}
    <3>1. PICK moved \in SUBSET (Al \ excited') :
             zeeman' = [i \in Al |-> IF i \in moved THEN Target ELSE zeeman[i]]
      BY <1>2 DEF Pump
    <3>2. zeeman' \in [Al -> {-5, 5}]
      BY <2>2, <3>1 DEF IonType
    <3> QED
      BY <1>2, <3>2 DEF Pump, IonType
  <2>4. nTries' \in 0 .. MaxTries
    BY <2>1, <2>2 DEF IonType
  <2> QED
    BY <2>1, <2>2, <2>3, <2>4 DEF IonType, Counting
<1>3. CASE Finish
  <2>1. /\ pc' = "idle" /\ pc = "finish" /\ iProbe' = 0 /\ flips' = 0 /\ blind' = {}
        /\ force1S0' = FALSE /\ bOvertime' = FALSE
        /\ UNCHANGED <<excited, zeeman, numAl, clock_state, knownFor, mFg_current, exp, nTries, then>>
    BY <1>3 DEF Finish
  <2>2. 0 \in -1 .. NumProbes
    BY PlanIs
  <2> QED
    BY <2>1, <2>2 DEF IonType, Al, Counting
<1>4. ASSUME NEW e \in Exp, Start(e) PROVE IonType'
  <2>1. /\ pc = "idle" /\ exp' = e /\ force1S0' \in BOOLEAN
        /\ UNCHANGED <<excited, zeeman, numAl, clock_state, knownFor, mFg_current,
                       iProbe, bOvertime, flips, blind, nTries>>
    BY <1>4 DEF Start, IonType
  <2>2. \/ pc' = "detect" /\ then' = "prepare"
        \/ pc' \in {"idle", "probe"} /\ then' = then
    BY <1>4 DEF Start, Begin, BeginCheck
  <2> QED
    BY <2>1, <2>2 DEF IonType, Al, Counting
<1>5. ASSUME NEW n \in NumAl, SetIonXtal(n) PROVE IonType'
  <2>1. /\ numAl' = n /\ excited' = {} /\ zeeman' \in [0 .. n - 1 -> {-5, 5}] /\ knownFor' = 0
        /\ UNCHANGED <<clock_state, mFg_current, pc, exp, force1S0, iProbe, bOvertime,
                       flips, blind, nTries, then>>
    BY <1>5 DEF SetIonXtal
  <2> QED
    BY <2>1 DEF IonType, Al, Counting
<1>6. CASE UNCHANGED vars
  BY <1>6 DEF vars, IonType, Al, Counting
<1> QED
  BY <1>1, <1>2, <1>3, <1>4, <1>5, <1>6, ProbeKeepsTypes, AnswerKeepsTypes DEF Next, RunStep

LEMMA EvidenceKept == IonType /\ EvidenceInv /\ [Next]_vars /\ IonType' => EvidenceInv'
<1> SUFFICES ASSUME IonType, EvidenceInv, [Next]_vars, IonType' PROVE EvidenceInv'
  OBVIOUS
<1> USE DEF ionVars, recordVars, sequenceVars, resultVars, countVars
<1>1. CASE Answer
  <2>1. /\ penalty' = Unknown /\ num_detections' = 0 /\ misled' = 0 /\ silent' = 0 /\ numAl' = numAl
    BY <1>1 DEF Answer
  <2>2. pc' # "answer"
    BY <1>1 DEF Answer, Prepared, Record, NextProbe
  <2>3. Unknown' = Unknown
    BY <2>1 DEF Unknown, States, Al
  <2> QED
    BY <2>1, <2>2, <2>3, FreshNext DEF Fresh
<1>2. CASE Pump \/ Probe \/ Finish \/ \E e \in Exp : Start(e)
  <2>1. pc \notin {"detect", "answer"} /\ pc' # "answer" /\ UNCHANGED <<numAl, countVars>>
    BY <1>2 DEF Pump, Probe, Finish, Start, Begin, BeginCheck
  <2>2. penalty = Unknown /\ num_detections = 0 /\ misled = 0 /\ silent = 0 /\ Unknown' = Unknown
    BY <2>1 DEF EvidenceInv, Counting, Unknown, States, Al
  <2> QED
    BY <2>1, <2>2, FreshNext DEF Fresh
<1>3. ASSUME NEW n \in NumAl, SetIonXtal(n) PROVE EvidenceInv'
  <2>1. /\ pc = "idle" /\ pc' = pc /\ UNCHANGED <<num_detections, misled, silent>>
        /\ numAl' = n /\ penalty' = [s \in SUBSET (0 .. n - 1) |-> 0]
    BY <1>3 DEF SetIonXtal
  <2>2. penalty' = Unknown'
    BY <2>1 DEF Unknown, States, Al
  <2> QED
    BY <2>1, <2>2, FreshNext DEF Fresh, EvidenceInv, Counting
<1>4. CASE UNCHANGED vars
  <2>1. UNCHANGED <<excited, zeeman, numAl, exp, pc, countVars>>
    BY <1>4 DEF vars
  <2>2. Al' = Al /\ States' = States /\ Shown' = Shown /\ Unknown' = Unknown
    BY <2>1 DEF Al, States, Shown, Target, Unknown
  <2>3. \A x : Lead(x)' = Lead(x)
    BY <2>1, <2>2 DEF Lead, Changed
  <2>4. IsCertain(penalty)' = IsCertain(penalty)
    BY <2>1, <2>2 DEF IsCertain
  <2> QED
    BY <2>1, <2>2, <2>3, <2>4 DEF EvidenceInv, Counting
<1> QED
  BY <1>1, <1>2, <1>3, <1>4, DetectKeepsEvidence DEF Next, RunStep

-----------------------------------------------------------------------------
(* The state before a probe, and what is reported. *)

LEMMA CodesAre ==
    /\ Code({}) = 0 /\ Code({0}) = 1
BY DEF Code

\* What is reported of a probe is what the ions did, if its two states are right.
LEMMA TransitionsAre ==
    ASSUME IonType, NEW flipped \in SUBSET Al, exp \in Lock => numAl = 1,
           clock_state = Changed(Shown, flipped)
    PROVE  Transitions(Shown) = Cardinality(flipped)
<1>1. Shown \in SUBSET Al
  BY DEF Shown
<1>2. CASE exp \in Lock
  <2>1. Al = {0}
    BY <1>2, Crystals
  <2>2. (Shown = {} \/ Shown = {0}) /\ (flipped = {} \/ flipped = {0})
    <3>1. \A s \in SUBSET {0} : s = {} \/ s = {0}
      OBVIOUS
    <3> QED
      BY <1>1, <2>1, <3>1
  <2>3. Cardinality({}) = 0 /\ Cardinality({0}) = 1
    BY FS_EmptySet, FS_Singleton
  <2>4. /\ Changed({}, {}) = {} /\ Changed({}, {0}) = {0}
        /\ Changed({0}, {}) = {0} /\ Changed({0}, {0}) = {}
    BY DEF Changed
  <2>5. Transitions(Shown) = Distance(Code(Shown), Code(clock_state))
    BY <1>2 DEF Transitions
  <2> QED
    BY <2>2, <2>3, <2>4, <2>5, CodesAre DEF Distance
<1>3. CASE exp \notin Lock
  <2>1. Changed(Shown, Changed(Shown, flipped)) \cap Al = flipped
    BY <1>1 DEF Changed
  <2> QED
    BY <1>3, <2>1 DEF Transitions
<1> QED
  BY <1>2, <1>3

LEMMA ShownIs == Shown = ShownFor(Target)
BY DEF Shown, ShownFor

LEMMA RecordKeepsPrior ==
    ASSUME PlanInv, IonType, PriorInv, pc = "answer", then = "record", then' = "prepare",
           NEW state \in States, Record(state), UNCHANGED <<excited, zeeman, numAl, exp>>
    PROVE  PriorInv'
<1>1. PICK flipped \in SUBSET {i \in Al : zeeman[i] = Target} :
        /\ flips = Cardinality(flipped)
        /\ knownFor = Target => clock_state = Changed(Shown, flipped)
  BY DEF PriorInv, Recording, Counting
<1>2. Freq \in Freqs
  BY FreqIs DEF Measuring
<1>3. excess' = NoEffect
  <2>1. CASE knownFor = Target /\ state = Shown /\ (exp \in Lock => numAl = 1)
    <3>1. Transitions(state) = flips
      BY <1>1, <2>1, TransitionsAre
    <3>2. excess' = [excess EXCEPT ![Freq] = @ + Transitions(state) - flips]
      BY <2>1 DEF Record
    <3>3. excess[Freq] = 0 /\ flips \in Nat
      BY <1>2 DEF PriorInv, NoEffect, IonType
    <3>4. excess[Freq] + Transitions(state) - flips = 0
      BY <3>1, <3>3
    <3> QED
      BY <1>2, <3>2, <3>4 DEF PriorInv, NoEffect
  <2>2. CASE ~(knownFor = Target /\ state = Shown /\ (exp \in Lock => numAl = 1))
    BY <2>2 DEF Record, PriorInv
  <2> QED
    BY <2>1, <2>2
<1>4. Al' = Al /\ Target' = Target
  BY DEF Al, Target
<1>5. knownFor' # 0 => clock_state' = ShownFor(knownFor)'
  <2>1. knownFor' # 0 => state = Shown /\ knownFor' = Target
    BY DEF Record
  <2>2. clock_state' = state
    BY DEF Record, setClockState
  <2> QED
    BY <1>4, <2>1, <2>2, ShownIs DEF ShownFor
<1> QED
  BY <1>3, <1>5 DEF PriorInv, Recording

LEMMA ProbeKeepsPrior == IonType /\ PriorInv /\ Probe => PriorInv'
<1> SUFFICES ASSUME IonType, PriorInv, Probe PROVE PriorInv'
  OBVIOUS
<1>1. /\ pc = "probe" /\ pc' = "detect" /\ then' = "record"
      /\ UNCHANGED <<zeeman, numAl, clock_state, knownFor, exp, excess>>
  BY DEF Probe, BeginCheck, recordVars
<1>2. PICK flipped \in SUBSET {i \in Al : zeeman[i] = Target} :
         excited' = Changed(excited, flipped) /\ flips' = Cardinality(flipped)
  BY DEF Probe
<1>3. Al' = Al /\ Target' = Target /\ Target # 0
  BY <1>1, Crystals DEF Al, Target
<1>4. Changed(Shown', flipped) = Shown
  <2>1. Shown' = {i \in Al : i \in Changed(excited, flipped) \/ zeeman[i] # Target}
    BY <1>1, <1>2, <1>3 DEF Shown
  <2>2. ASSUME NEW i
        PROVE  i \in Changed(Shown', flipped) <=> i \in Shown
    <3>1. CASE i \in flipped
      BY <1>2, <2>1, <3>1 DEF Changed, Shown
    <3>2. CASE i \notin flipped
      BY <2>1, <3>2 DEF Changed, Shown
    <3> QED
      BY <3>1, <3>2
  <2> QED
    BY <2>2
<1>5. knownFor = Target => clock_state = Shown
  BY <1>1, <1>3, ShownIs DEF PriorInv, Recording, Counting
<1>6. \E f \in SUBSET {i \in Al' : zeeman'[i] = Target'} :
         /\ flips' = Cardinality(f)
         /\ knownFor' = Target' => clock_state' = Changed(Shown', f)
  BY <1>1, <1>2, <1>3, <1>4, <1>5
<1> QED
  BY <1>1, <1>6 DEF PriorInv, Recording, Counting, Changed

\* Steps that leave the ions and what is known of them alone.
LEMMA SamePrior ==
    ASSUME PriorInv, UNCHANGED <<excited, zeeman, numAl, clock_state, knownFor, excess>>,
           \/ ~Recording /\ ~Recording'
           \/ Recording' = Recording /\ UNCHANGED <<exp, flips>>
    PROVE  PriorInv'
<1>1. \A g : ShownFor(g)' = ShownFor(g)
  BY DEF ShownFor, Al
<1>2. ShownFor(knownFor)' = ShownFor(knownFor)
  BY DEF ShownFor, Al
<1>3. CASE ~Recording /\ ~Recording'
  BY <1>2, <1>3 DEF PriorInv
<1>4. CASE Recording' = Recording /\ UNCHANGED <<exp, flips>>
  <2>1. Al' = Al /\ Target' = Target /\ Shown' = Shown
    BY <1>4 DEF Al, Target, Shown
  <2> QED
    BY <1>2, <1>4, <2>1 DEF PriorInv, Changed
<1> QED
  BY <1>3, <1>4

LEMMA PriorKept == PlanInv /\ IonType /\ PriorInv /\ [Next]_vars => PriorInv'
<1> SUFFICES ASSUME PlanInv, IonType, PriorInv, [Next]_vars PROVE PriorInv'
  OBVIOUS
<1> USE DEF ionVars, recordVars, sequenceVars, resultVars
<1>1. CASE Detect
  <2>1. /\ UNCHANGED <<excited, zeeman, numAl, clock_state, knownFor, excess, exp, flips>>
        /\ Recording' = Recording
    BY <1>1 DEF Detect, Recording, Counting
  <2> QED
    BY <2>1, SamePrior
<1>2. CASE Answer
  <2>1. /\ pc = "answer" /\ then' = "prepare"
        /\ UNCHANGED <<excited, zeeman, numAl, exp>>
    BY <1>2 DEF Answer
  <2>2. PICK state \in Likeliest :
          \/ then = "prepare" /\ UNCHANGED <<recordVars, flips, excess>>
          \/ then = "record" /\ Record(state)
    BY <1>2 DEF Answer
  <2>3. CASE then = "prepare"
    <3>1. UNCHANGED <<clock_state, knownFor, excess>> /\ ~Recording /\ ~Recording'
      BY <2>1, <2>2, <2>3 DEF Recording
    <3> QED
      BY <2>1, <3>1, SamePrior
  <2>4. CASE then = "record"
    BY <2>1, <2>2, <2>4, RecordKeepsPrior DEF Likeliest
  <2> QED
    BY <2>2, <2>3, <2>4
<1>3. CASE Pump
  <2>1. /\ pc = "pump" /\ then' = "prepare" /\ UNCHANGED <<numAl, clock_state, excess>>
        /\ knownFor' = IF excited' = excited /\ zeeman' = zeeman THEN knownFor ELSE 0
    BY <1>3 DEF Pump, BeginCheck
  <2>2. ~Recording /\ ~Recording'
    BY <2>1 DEF Recording, Counting
  <2>3. CASE excited' = excited /\ zeeman' = zeeman
    BY <2>1, <2>2, <2>3, SamePrior
  <2>4. CASE ~(excited' = excited /\ zeeman' = zeeman)
    BY <2>1, <2>2, <2>4 DEF PriorInv
  <2> QED
    BY <2>3, <2>4
<1>4. CASE Finish
  <2>1. /\ pc = "finish" /\ pc' = "idle" /\ excess' = NoEffect
        /\ UNCHANGED <<excited, zeeman, numAl, clock_state, knownFor>>
    BY <1>4 DEF Finish
  <2>2. UNCHANGED excess
    BY <2>1 DEF PriorInv
  <2> QED
    BY <2>1, <2>2, SamePrior DEF Recording, Counting
<1>5. ASSUME NEW e \in Exp, Start(e) PROVE PriorInv'
  <2>1. /\ pc = "idle"
        /\ UNCHANGED <<excited, zeeman, numAl, clock_state, knownFor, excess>>
        /\ then' = "prepare" \/ pc' \in {"idle", "probe"}
    BY <1>5 DEF Start, Begin, BeginCheck
  <2> QED
    BY <2>1, SamePrior DEF Recording, Counting
<1>6. ASSUME NEW n \in NumAl, SetIonXtal(n) PROVE PriorInv'
  <2>1. pc' = "idle" /\ knownFor' = 0 /\ excess' = excess
    BY <1>6 DEF SetIonXtal
  <2> QED
    BY <2>1 DEF PriorInv, Recording, Counting
<1>7. CASE UNCHANGED vars
  <2>1. /\ UNCHANGED <<excited, zeeman, numAl, clock_state, knownFor, excess, exp, flips>>
        /\ Recording' = Recording
    BY <1>7 DEF vars, Recording, Counting
  <2> QED
    BY <2>1, SamePrior
<1> QED
  BY <1>1, <1>2, <1>3, <1>4, <1>5, <1>6, <1>7, ProbeKeepsPrior DEF Next, RunStep

-----------------------------------------------------------------------------
(* The answer. *)

\* A state is one of those told apart by what is shown, and so the likeliest one.
LEMMA LeadersWin ==
    ASSUME IonType, EvidenceInv, \A i \in Al : Lead({i}) > 0
    PROVE  Likeliest = {Shown}
<1>1. \A s \in States \ {Shown} : penalty[s] > penalty[Shown]
  <2>1. CASE numAl = 1
    <3> DEFINE b == Changed(Shown, {0})
    <3>1. States = {Shown, b} /\ 0 \in Al
      BY <2>1, OneIon, Crystals
    <3>2. penalty[b] - penalty[Shown] > 0
      BY <3>1 DEF Lead
    <3> HIDE DEF b
    <3>3. penalty[b] \in Nat /\ penalty[Shown] \in Nat
      BY <3>1 DEF EvidenceInv
    <3>4. penalty[b] > penalty[Shown]
      BY <3>2, <3>3
    <3> QED
      BY <3>1, <3>4
  <2>2. CASE numAl = 2
    <3> DEFINE b == Changed(Shown, {0})
               c == Changed(Shown, {1})
               d == Changed(Shown, {0, 1})
    <3>1. States = {Shown, b, c, d} /\ 0 \in Al /\ 1 \in Al
      BY <2>2, TwoIons, Crystals
    <3>2. /\ penalty[b] - penalty[Shown] > 0 /\ penalty[c] - penalty[Shown] > 0
          /\ penalty[d] - penalty[Shown]
               = (penalty[b] - penalty[Shown]) + (penalty[c] - penalty[Shown])
      BY <2>2, <3>1 DEF Lead, EvidenceInv
    <3> HIDE DEF b, c, d
    <3>3. penalty[b] \in Nat /\ penalty[c] \in Nat /\ penalty[d] \in Nat /\ penalty[Shown] \in Nat
      BY <3>1 DEF EvidenceInv
    <3>4. penalty[b] > penalty[Shown] /\ penalty[c] > penalty[Shown] /\ penalty[d] > penalty[Shown]
      BY <3>2, <3>3
    <3> QED
      BY <3>1, <3>4
  <2> QED
    BY <2>1, <2>2, Crystals
<1>2. Shown \in States /\ \A s \in States : penalty[s] \in Nat
  BY Crystals DEF EvidenceInv
<1>3. \A s \in States : penalty[Shown] <= penalty[s]
  BY <1>1, <1>2
<1>4. \A s \in Likeliest : s = Shown
  BY <1>1, <1>2 DEF Likeliest
<1> QED
  BY <1>2, <1>3, <1>4 DEF Likeliest

LEMMA TypeFollows == PlanInv /\ IonType /\ EvidenceInv /\ PriorInv => TypeOK
<1> SUFFICES ASSUME PlanInv, IonType, EvidenceInv, PriorInv PROVE TypeOK
  OBVIOUS
<1>1. pc = "probe" => iProbe \in Plan
  <2>1. CASE exp \in Lock
    BY <2>1 DEF PlanInv, Measuring, UnderWay
  <2>2. CASE exp \notin Lock
    BY <2>2, PlanIs DEF PlanInv, NotBegun
  <2> QED
    BY <2>1, <2>2
<1>2. excess \in [Freqs -> Int]
  BY DEF PriorInv, NoEffect
<1> QED
  BY <1>1, <1>2 DEF TypeOK, PlanInv, IonType, EvidenceInv, NumProbes

LEMMA CountsFollow == PriorInv => CountsAreFlips
BY DEF PriorInv, CountsAreFlips, NoEffect

LEMMA AnswerFollows == IonType /\ EvidenceInv => AnswerIsTrue
<1> SUFFICES ASSUME IonType, EvidenceInv, pc = "answer", misled < MinProb,
                    numAl * MinProb + 2 * misled + silent <= MaxDetections
             PROVE  Likeliest = {Shown}
  BY DEF AnswerIsTrue
<1>1. /\ MinProb \in Nat \ {0} /\ MaxDetections \in Nat /\ misled \in Nat /\ silent \in Nat
      /\ penalty \in [States -> Nat]
  BY ClockAssumption DEF EvidenceInv
<1>2. ASSUME NEW i \in Al PROVE Lead({i}) \in Int
  <2>1. Changed(Shown, {i}) \in States /\ Shown \in States
    BY Crystals DEF Changed, States
  <2> QED
    BY <1>1, <2>1 DEF Lead
<1>3. ASSUME NEW i \in Al PROVE Lead({i}) >= -misled /\ Lead({i}) <= MinProb
  BY DEF EvidenceInv
\* All detections were used: they are enough for each ion.
<1>4. CASE num_detections = MaxDetections
  <2>1. CASE numAl = 1
    <3>1. Al = {0} /\ Lead({0}) \in Int
      BY <2>1, <1>2, Crystals
    <3>2. MaxDetections = 2 * misled + silent + Lead({0})
      BY <1>4, <2>1 DEF EvidenceInv
    <3>3. MinProb + 2 * misled + silent <= MaxDetections
      BY <1>1, <2>1
    <3>4. Lead({0}) > 0
      BY <1>1, <3>1, <3>2, <3>3
    <3> QED
      BY <3>1, <3>4, LeadersWin
  <2>2. CASE numAl = 2
    <3>1. Al = {0, 1} /\ Lead({0}) \in Int /\ Lead({1}) \in Int
      BY <2>2, <1>2, Crystals
    <3>2. MaxDetections = 2 * misled + silent + (Lead({0}) + Lead({1}))
      BY <1>4, <2>2 DEF EvidenceInv
    <3>3. MinProb + MinProb + 2 * misled + silent <= MaxDetections
      BY <1>1, <2>2
    <3>4. Lead({0}) <= MinProb /\ Lead({1}) <= MinProb
      BY <1>3, <3>1
    <3>5. Lead({0}) > 0 /\ Lead({1}) > 0
      BY <1>1, <3>1, <3>2, <3>3, <3>4
    <3> QED
      BY <3>1, <3>5, LeadersWin
  <2> QED
    BY <2>1, <2>2, Crystals
\* A state is certain: it can only be the one that is shown.
<1>5. CASE IsCertain(penalty)
  <2>1. PICK s \in States : \A t \in States \ {s} : penalty[t] >= penalty[s] + MinProb
    BY <1>5 DEF IsCertain
  <2>2. s = Shown
    <3>1. CASE numAl = 1
      <4> DEFINE b == Changed(Shown, {0})
      <4>1. States = {Shown, b} /\ Shown # b /\ Al = {0}
        BY <3>1, OneIon, Crystals
      <4>2. penalty[b] - penalty[Shown] >= -misled
        BY <1>3, <4>1 DEF Lead
      <4> HIDE DEF b
      <4>3. penalty[b] \in Nat /\ penalty[Shown] \in Nat
        BY <1>1, <4>1
      <4>4. s = b => penalty[Shown] >= penalty[b] + MinProb
        BY <2>1, <4>1
      <4> QED
        BY <1>1, <4>1, <4>2, <4>3, <4>4
    <3>2. CASE numAl = 2
      <4> DEFINE b == Changed(Shown, {0})
                 c == Changed(Shown, {1})
                 d == Changed(Shown, {0, 1})
      <4>1. /\ States = {Shown, b, c, d} /\ Al = {0, 1} /\ Shown # b /\ Shown # c
            /\ Shown # d /\ b # d
        BY <3>2, TwoIons, Crystals
      <4>2. /\ penalty[b] - penalty[Shown] >= -misled /\ penalty[c] - penalty[Shown] >= -misled
            /\ penalty[d] - penalty[Shown]
                 = (penalty[b] - penalty[Shown]) + (penalty[c] - penalty[Shown])
        BY <3>2, <1>3, <4>1 DEF Lead, EvidenceInv
      <4> HIDE DEF b, c, d
      <4>3. penalty[b] \in Nat /\ penalty[c] \in Nat /\ penalty[d] \in Nat /\ penalty[Shown] \in Nat
        BY <1>1, <4>1
      <4>4. /\ s = b => penalty[Shown] >= penalty[b] + MinProb
            /\ s = c => penalty[Shown] >= penalty[c] + MinProb
            /\ s = d => penalty[b] >= penalty[d] + MinProb
        BY <2>1, <4>1
      <4>5. s # b /\ s # c /\ s # d
        BY <1>1, <4>2, <4>3, <4>4
      <4> QED
        BY <4>1, <4>5
    <3> QED
      BY <3>1, <3>2, Crystals
  <2>3. ASSUME NEW i \in Al PROVE Lead({i}) > 0
    <3> DEFINE x == Changed(Shown, {i})
    <3>1. x \in States /\ Shown \in States /\ Shown # x
      BY Crystals DEF Changed, States
    <3>2. Lead({i}) = penalty[x] - penalty[Shown]
      BY DEF Lead
    <3> HIDE DEF x
    <3>3. penalty[x] \in Nat /\ penalty[Shown] \in Nat
      BY <1>1, <3>1
    <3>4. penalty[x] >= penalty[Shown] + MinProb
      BY <2>1, <2>2, <3>1
    <3> QED
      BY <1>1, <3>2, <3>3, <3>4
  <2> QED
    BY <2>3, LeadersWin
<1> QED
  BY <1>4, <1>5 DEF EvidenceInv

-----------------------------------------------------------------------------
(* The theorems. *)

ClockInv == PlanInv /\ IonType /\ EvidenceInv /\ PriorInv

LEMMA ClockInvHolds == Spec => []ClockInv
<1>1. Init => ClockInv
  BY InitPlan, InitIons DEF ClockInv
<1>2. ClockInv /\ [Next]_vars => ClockInv'
  BY StepKeeps, TypesKept, EvidenceKept, PriorKept DEF ClockInv
<1> QED
  BY <1>1, <1>2, PTL DEF Spec

\* A lock makes every probe of its list, and in overtime repeats them backwards until the
\* ions are in 1S0 or the list is through (exp_3P0_lock::run), whatever the list, the
\* photons and the ions are.
THEOREM LockKeepsPlan == Spec => []PlanIsKept
<1>1. ClockInv => PlanIsKept
  BY DEF ClockInv, PlanInv
<1> QED
  BY <1>1, ClockInvHolds, PTL

\* The indices of probe_order, the tries of prepAndCheck and the detections of
\* get_clock_state stay within their bounds, and a probe is always one of the list.
THEOREM TypeCorrect == Spec => []TypeOK
<1>1. ClockInv => TypeOK
  BY TypeFollows DEF ClockInv
<1> QED
  BY <1>1, ClockInvHolds, PTL

\* get_clock_state returns the state that is shown unless it was misled MinProb times,
\* or ran out of detections: decide_next_pulse_type asks only for an ion whose state is
\* still open, so no detection is wasted, for any MinProb and any limit.
THEOREM AnswersAreTrue == Spec => []AnswerIsTrue
<1>1. ClockInv => AnswerIsTrue
  BY AnswerFollows DEF ClockInv
<1> QED
  BY <1>1, ClockInvHolds, PTL

\* What a run reports as transitions is what the ions did, at every frequency for which
\* the states before and after all probes were right: clock_state is carried over from
\* probe to probe, from run to run and from one experiment to another.
THEOREM CountsMatch == Spec => []CountsAreFlips
<1>1. ClockInv => CountsAreFlips
  BY CountsFollow DEF ClockInv
<1> QED
  BY <1>1, ClockInvHolds, PTL
=============================================================================
