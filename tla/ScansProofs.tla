---------------------------- MODULE ScansProofs ----------------------------
(***************************************************************************)
(* Scans and servos, for any number of pages, points and counts, in any    *)
(* order the scheduler's contract allows.                                  *)
(***************************************************************************)
EXTENDS Scans, FiniteSetTheorems, SequenceTheorems, TLAPS

-----------------------------------------------------------------------------
(* The inductive invariant. *)

\* The values the parameter has when nobody varies it.
Normals == UserValues \cup Centers

\* What is left to do when the parameter is back at its normal value.
Ends   == {<<"finished">>, <<"paused">>, <<"paused", "retire">>, <<"retire">>}
Begins == {<<"restore">> \o s : s \in Ends}
AfterPause == {<<>>, <<"retire">>}
Places == {<<"acquire">>, <<"next">>} \cup Ends \cup Begins

\* Where the scheduler thread is and what it does next.
PlaceInv ==
    /\ pc = "set" => then \in Places
    /\ pc = "restore" => then \in Ends
    /\ pc = "paused" => then \in AfterPause
    /\ pc \notin {"set", "restore", "paused"} => then = <<>>
    /\ who = Nobody <=> pc = "off"
    /\ pc = "set" /\ Head(then) = "next" => who \in Lock
    /\ who # Nobody => phase[who] \in Begun

\* The thread is about to come to one of these places.
Reaches(places) == pc \in places \/ (pc = "set" /\ Head(then) \in places)

\* The parameter: a scan sets anything, but a normal value is kept.
SourceInv ==
    /\ value \in Values /\ bHasNonScanningOutput \in BOOLEAN
    /\ out \in Values \cup {0} /\ (out = 0 <=> pc # "set")
    /\ found \in Values \cup {0}
    /\ nonScanningOutput \in Normals \cup {0}
    /\ nonScanningOutput = 0 => bHasNonScanningOutput /\ pc \notin {"set", "restore"}
    /\ pc # "set" /\ bHasNonScanningOutput => value \in Normals
    /\ pc = "set" /\ bHasNonScanningOutput => out = nonScanningOutput
    /\ pc \in {"off", "paused", "retire"} => value \in Normals
    /\ pc = "set" /\ Head(then) \in {"paused", "retire"} => out \in Normals

\* The default state of a scan_variable is a normal value.
DefaultInv ==
    /\ default_state \in [Exp -> Normals \cup {0}]
    /\ \A e \in Exp : phase[e] \in Begun => default_state[e] # 0

\* The types of the rest.
PhaseType ==
    /\ phase \in [Exp -> {"idle", "queued"} \cup Begun]
    /\ stopped \in [Exp -> BOOLEAN] /\ launches \in 0 .. MaxLaunches
    /\ NumScans \in ScanCounts
    /\ who \in Exp \cup {Nobody}
    /\ pc \in {"off", "run", "slice", "point", "set", "acquire", "next", "idle",
               "finished", "restore", "paused", "retire"}

\* The order of the points is a permutation, and each point before the current one was
\* measured once, the others not yet.
Counted(e, k) ==
    \A j \in Indices : taken[e][indeces[e][j]] = IF j < k THEN 1 ELSE 0

\* A scan whose last repetition is over.  If the user raises NumScans now, DataPoint
\* throws before anything is measured.
Spent(e) ==
    /\ current_index[e] = NumPoints
    /\ \A i \in Indices : taken[e][i] = 0
    /\ phase[e] # "idle"
    /\ \/ who = e /\ pc = "point"
       \/ stopped[e] /\ (who = e => ~Reaches({"run", "acquire", "next"}))

Measured(e) == IF who = e /\ pc = "next" THEN current_index[e] + 1 ELSE current_index[e]

ScanInv ==
    /\ indeces \in [Scan -> [Indices -> Indices]]
    /\ \A e \in Scan : \A i, j \in Indices : indeces[e][i] = indeces[e][j] => i = j
    /\ current_index \in [Scan -> 0 .. NumPoints]
    /\ scans_completed \in [Scan -> Nat]
    /\ taken \in [Scan -> [Indices -> 0 .. 2]]
    /\ who \in Scan /\ Reaches({"acquire", "next"}) => current_index[who] < NumPoints
    /\ \A e \in Scan : Counted(e, Measured(e)) \/ Spent(e)

\* The measurement of side l was already used.
UsedNow(l) == who = l /\ Reaches({"next"})

\* The left side was measured last but one, the right side before it.
Late(l) == iCurrentPoint[l] = (IF UsedNow(l) THEN 0 ELSE 1)

ServoInv ==
    /\ iCurrentPoint \in [Lock -> Sides] /\ measured \in [Lock -> SUBSET Sides]
    /\ num_new_points \in [Lock -> 0 .. NumMeasurements - 1]
    /\ runStatus \in [Lock -> {"OK", "IDLE", "NEED_MORE_DATA"}]
    /\ uses \in [Lock -> [Sides -> Nat]]
    /\ \A l \in Lock :
         /\ uses[l][0] <= (IF Late(l) THEN 1 ELSE 2)
         /\ uses[l][1] <= (IF Late(l) THEN 2 ELSE 1)
         /\ uses[l][2] = 0

IInv == PlaceInv /\ PhaseType /\ SourceInv /\ DefaultInv /\ ScanInv /\ ServoInv

-----------------------------------------------------------------------------
(* The loan: as long as nothing clashed, every note of the normal value is right, and  *)
(* so is the parameter once it is put back.                                            *)

Agreed ==
    /\ pc \in {"off", "paused", "retire"} => bHasNonScanningOutput
    /\ pc = "restore" /\ bHasNonScanningOutput => value = nonScanningOutput
    /\ pc = "set" /\ Head(then) \in {"paused", "retire"} =>
          bHasNonScanningOutput /\ out = nonScanningOutput
    /\ \A l \in Lock : phase[l] \in Begun => default_state[l] = Normal

LoanInv == clashed \in BOOLEAN /\ (~clashed => Agreed)

-----------------------------------------------------------------------------
(* The constants and the places. *)

\* Ranges of the constants.
LEMMA Constants ==
    /\ NumPoints \in Nat \ {0} /\ Indices = 0 .. NumPoints - 1
    /\ Normals \subseteq Values /\ Values \subseteq Int /\ 0 \notin Values
    /\ \A i \in Indices : Points[i] \in Values
    /\ \A d \in Normals, i \in Sides : d + (<<-Modulation, Modulation, 0>>)[i + 1] \in Values
    /\ Nobody \notin Exp
<1> USE ScansAssumption
<1>1. NumPoints \in Nat \ {0}
  BY FS_CardinalityType, FS_EmptySet DEF NumPoints
<1>2. Indices = 0 .. NumPoints - 1
  BY DEF NumPoints, Indices
<1>3. \A i \in Indices : Points[i] \in Int
  BY <1>2 DEF NumPoints
<1>4. Normals \subseteq Values /\ Values \subseteq Int /\ \A i \in Indices : Points[i] \in Values
  <2>1. Normals \subseteq Values /\ \A i \in Indices : Points[i] \in Values
    BY DEF Values, Normals
  <2>2. \A c \in Centers \cup UserValues : c - Modulation \in Int /\ c + Modulation \in Int
    OBVIOUS
  <2>3. Values \subseteq Int
    BY <1>3, <2>2 DEF Values
  <2> QED
    BY <2>1, <2>3
<1>5. ASSUME NEW d \in Normals, NEW i \in Sides
      PROVE  d + (<<-Modulation, Modulation, 0>>)[i + 1] \in Values
  <2>1. d \in Int /\ d \in Values /\ d - Modulation \in Values /\ d + Modulation \in Values
    BY DEF Normals, Values
  <2>2. i = 0 \/ i = 1 \/ i = 2
    BY DEF Sides
  <2>3. d + (-Modulation) = d - Modulation /\ d + 0 = d
    BY <2>1
  <2> QED
    BY <2>1, <2>2, <2>3
<1> QED
  BY <1>1, <1>2, <1>4, <1>5 DEF Exp

\* What is put in front of a sequence is its head.
LEMMA ConsIs ==
    ASSUME NEW S, NEW x \in S, NEW s \in Seq(S)
    PROVE  Head(<<x>> \o s) = x /\ Tail(<<x>> \o s) = s
<1> DEFINE t == <<x>>
           u == t \o s
<1>1. t \in Seq(S) /\ Len(t) = 1 /\ t[1] = x
  OBVIOUS
<1>2. /\ u \in Seq(S) /\ Len(u) = 1 + Len(s)
      /\ \A i \in 1 .. 1 + Len(s) : u[i] = IF i <= 1 THEN t[i] ELSE s[i - 1]
  BY <1>1, ConcatProperties
<1> HIDE DEF u
<1>3. Len(s) \in Nat /\ u # <<>>
  BY <1>2
<1>4. Head(u) = x
  BY <1>1, <1>2, <1>3
<1>5. /\ Tail(u) \in Seq(S) /\ Len(Tail(u)) = Len(s)
      /\ \A i \in 1 .. Len(s) : Tail(u)[i] = s[i]
  BY <1>2, <1>3
<1>6. Tail(u) = s
  BY <1>5, SeqEqual
<1> QED
  BY <1>4, <1>6 DEF u

\* Where a sequence of places leads.
LEMMA Successors ==
    /\ \A s \in Places :
         /\ Head(s) \in {"acquire", "next", "finished", "paused", "retire", "restore"}
         /\ Head(s) = "restore" => Tail(s) \in Ends
         /\ Head(s) = "paused" => Tail(s) \in AfterPause
         /\ Head(s) \notin {"restore", "paused"} => Tail(s) = <<>>
    /\ \A s \in Ends : /\ s \in Places /\ <<"restore">> \o s \in Places
                       /\ Head(s) \in {"finished", "paused", "retire"}
                       /\ Head(<<"restore">> \o s) = "restore"
    /\ <<"acquire">> \in Places /\ Head(<<"acquire">>) = "acquire"
    /\ <<"next">> \in Places /\ Head(<<"next">>) = "next"
    /\ <<"finished">> \in Ends /\ <<"paused">> \in Ends /\ <<"paused", "retire">> \in Ends
    /\ <<"retire">> \in Ends
    /\ <<"restore", "retire">> \in Places /\ Head(<<"restore", "retire">>) = "restore"
    /\ \A s \in AfterPause : s # <<>> => Head(s) = "retire" /\ Tail(s) = <<>>
<1> DEFINE Spots == {"acquire", "next", "restore", "finished", "paused", "retire"}
<1>1. /\ Head(<<"acquire">>) = "acquire" /\ Tail(<<"acquire">>) = <<>>
      /\ <<"acquire">> \in Seq(Spots)
  OBVIOUS
<1>2. Head(<<"next">>) = "next" /\ Tail(<<"next">>) = <<>> /\ <<"next">> \in Seq(Spots)
  OBVIOUS
<1>3. /\ Head(<<"finished">>) = "finished" /\ Tail(<<"finished">>) = <<>>
      /\ <<"finished">> \in Seq(Spots)
  OBVIOUS
<1>4. Head(<<"paused">>) = "paused" /\ Tail(<<"paused">>) = <<>> /\ <<"paused">> \in Seq(Spots)
  OBVIOUS
<1>5. Head(<<"retire">>) = "retire" /\ Tail(<<"retire">>) = <<>> /\ <<"retire">> \in Seq(Spots)
  OBVIOUS
<1>6. /\ Head(<<"paused", "retire">>) = "paused" /\ Tail(<<"paused", "retire">>) = <<"retire">>
      /\ <<"paused", "retire">> \in Seq(Spots)
  OBVIOUS
<1>7. \A s \in Ends :
        /\ s \in Seq(Spots)
        /\ Head(s) \in {"finished", "paused", "retire"}
        /\ Head(s) = "paused" => Tail(s) \in AfterPause
        /\ Head(s) # "paused" => Tail(s) = <<>>
  BY <1>3, <1>4, <1>5, <1>6 DEF Ends, AfterPause
<1>8. \A s \in Ends : /\ Head(<<"restore">> \o s) = "restore" /\ Tail(<<"restore">> \o s) = s
                      /\ <<"restore">> \o s \in Seq(Spots)
  <2> TAKE s \in Ends
  <2>1. "restore" \in Spots /\ <<"restore">> \in Seq(Spots) /\ s \in Seq(Spots)
    BY <1>7
  <2> QED
    BY <2>1, ConsIs, ConcatProperties
<1> HIDE DEF Spots
<1>9. \A s \in Places : \/ s = <<"acquire">> \/ s = <<"next">> \/ s \in Ends
                        \/ \E t \in Ends : s = <<"restore">> \o t
  BY DEF Places, Begins
<1>10. \A s \in Ends : s \in Places /\ <<"restore">> \o s \in Places
  BY DEF Places, Begins
<1>11. ASSUME NEW s \in Places
       PROVE  /\ Head(s) \in {"acquire", "next", "finished", "paused", "retire", "restore"}
              /\ Head(s) = "restore" => Tail(s) \in Ends
              /\ Head(s) = "paused" => Tail(s) \in AfterPause
              /\ Head(s) \notin {"restore", "paused"} => Tail(s) = <<>>
  <2>1. CASE s \in Ends
    BY <1>1, <1>2, <1>7, <2>1
  <2>2. CASE \E t \in Ends : s = <<"restore">> \o t
    BY <1>1, <1>2, <1>8, <2>2
  <2> QED
    BY <1>1, <1>2, <1>9, <2>1, <2>2
<1>12. /\ <<"acquire">> \in Places /\ <<"next">> \in Places
       /\ <<"finished">> \in Ends /\ <<"paused">> \in Ends /\ <<"paused", "retire">> \in Ends
       /\ <<"retire">> \in Ends
  BY DEF Places, Ends
<1>13. <<"restore", "retire">> \in Places /\ Head(<<"restore", "retire">>) = "restore"
  <2> DEFINE r == <<"restore", "retire">>
             t == <<"retire">>
  <2>1. r = <<"restore">> \o t /\ Head(r) = "restore"
    OBVIOUS
  <2>2. t \in Ends
    BY <1>12
  <2> HIDE DEF r, t
  <2>3. r \in Places
    BY <1>10, <2>1, <2>2
  <2> QED
    BY <2>1, <2>3 DEF r
<1>14. \A s \in AfterPause : s # <<>> => Head(s) = "retire" /\ Tail(s) = <<>>
  BY <1>5 DEF AfterPause
<1> QED
  BY <1>1, <1>2, <1>7, <1>8, <1>10, <1>11, <1>12, <1>13, <1>14

-----------------------------------------------------------------------------
(* The places and the types of the scheduler's state. *)

\* DefaultExperimentState sets the parameter, and goes on where it was asked to.
LEMMA DefaultGoes ==
    ASSUME NEW e \in Exp, NEW s \in Ends, DefaultExperimentState(e, s)
    PROVE  /\ pc' = "set" /\ then' \in Places
           /\ Head(then') \in {"finished", "paused", "retire", "restore"}
<1> DEFINE r == <<"restore">> \o s
<1>1. pc' = "set" /\ (then' = s \/ then' = r)
  BY DEF DefaultExperimentState, SetScanOutput
<1>2. /\ s \in Places /\ Head(s) \in {"finished", "paused", "retire"}
      /\ r \in Places /\ Head(r) = "restore"
  BY Successors
<1> HIDE DEF r
<1> QED
  BY <1>1, <1>2

\* Every step goes to a place that exists.
LEMMA NextPlace == PlaceInv /\ PhaseType /\ [Next]_vars => PlaceInv' /\ PhaseType'
<1> SUFFICES ASSUME PlaceInv, PhaseType, [Next]_vars PROVE PlaceInv' /\ PhaseType'
  OBVIOUS
<1>n. Nobody \notin Exp
  BY Constants
<1> USE DEF GoTo
<1>1. CASE SetValue
  <2>1. /\ pc = "set" /\ pc' = Head(then) /\ then' = Tail(then)
        /\ UNCHANGED <<runVars, NumScans, who>>
    BY <1>1 DEF SetValue
  <2>2. then \in Places
    BY <2>1 DEF PlaceInv
  <2> QED
    BY <2>1, <2>2, Successors DEF PlaceInv, PhaseType, runVars
<1>2. CASE Restore
  <2>1. pc = "restore" /\ pc' = "set" /\ then' = then /\ UNCHANGED <<runVars, NumScans, who>>
    BY <1>2 DEF Restore, SetScanOutput
  <2>2. then \in Ends /\ then \in Places /\ Head(then) # "next"
    BY <2>1, Successors DEF PlaceInv
  <2> QED
    BY <2>1, <2>2 DEF PlaceInv, PhaseType, runVars
<1>3. ASSUME NEW e \in Exp, Run(e) \/ Continue(e) \/ Acquire(e)
      PROVE  PlaceInv' /\ PhaseType'
  <2>1. /\ who = e /\ UNCHANGED <<runVars, NumScans, who>>
        /\ pc \in {"run", "slice", "idle", "acquire"}
        /\ \/ pc' \in {"point", "slice", "next"} /\ then' = then
           \/ pc' = "set" /\ then' \in Places /\ who \in Lock
    BY <1>3, Successors DEF Run, Continue, Acquire, AcquirePoint, AcquireSide, SetNonScanningValue
  <2> QED
    BY <2>1 DEF PlaceInv, PhaseType, runVars
<1>4. ASSUME NEW e \in Exp, DataPoint(e) \/ EndDataPoint(e)
      PROVE  PlaceInv' /\ PhaseType'
  <2>1. /\ who = e /\ pc \in {"point", "next"}
        /\ UNCHANGED <<phase, launches, NumScans, who>>
    BY <1>4 DEF DataPoint, EndDataPoint
  <2>2. stopped' = [stopped EXCEPT ![e] = TRUE] \/ UNCHANGED stopped
    BY <1>4 DEF DataPoint, EndDataPoint, FinishScan
  <2>3. \/ pc' \in {"finished", "idle", "slice"} /\ then' = then
        \/ DefaultExperimentState(e, <<"finished">>)
        \/ pc' = "set" /\ then' = <<"acquire">>
    BY <1>4 DEF DataPoint, EndDataPoint, FinishScan, SetScanOutput
  <2>4. \/ pc' \in {"finished", "idle", "slice"} /\ then' = <<>>
        \/ pc' = "set" /\ then' \in Places /\ Head(then') # "next"
    <3>1. CASE pc' \in {"finished", "idle", "slice"} /\ then' = then
      BY <2>1, <3>1 DEF PlaceInv
    <3>2. CASE DefaultExperimentState(e, <<"finished">>)
      <4>1. <<"finished">> \in Ends
        BY Successors
      <4> QED
        BY <3>2, <4>1, DefaultGoes
    <3>3. CASE pc' = "set" /\ then' = <<"acquire">>
      BY <3>3, Successors
    <3> QED
      BY <2>3, <3>1, <3>2, <3>3
  <2>5. stopped' \in [Exp -> BOOLEAN]
    BY <2>2 DEF PhaseType
  <2>6. PlaceInv'
    BY <2>1, <2>4 DEF PlaceInv
  <2>7. PhaseType'
    BY <2>1, <2>4, <2>5 DEF PhaseType
  <2> QED
    BY <2>6, <2>7
<1>5. ASSUME NEW e \in Exp, Preempt(e) \/ Destroy(e)
      PROVE  PlaceInv' /\ PhaseType'
  <2>1. /\ who' = e /\ UNCHANGED <<stopped, launches, NumScans>>
        /\ \/ phase' = phase /\ (who = e \/ phase[e] = "paused")
           \/ phase' = [phase EXCEPT ![e] = "started"]
           \/ phase' = [phase EXCEPT ![e] = "again"]
    BY <1>5 DEF Preempt, Destroy, runVars, Contract!Initialize, Contract!InitializeAgain,
         Contract!Move
  <2>2. pc' = "set" /\ then' \in Places /\ Head(then') # "next"
    <3> USE Successors
    <3>1. CASE \E s \in Ends : DefaultExperimentState(e, s)
      BY <3>1, DefaultGoes
    <3>2. CASE SetScanOutput(value, IF e \in Scan THEN <<"restore", "retire">> ELSE <<"retire">>)
      <4> DEFINE r == <<"restore", "retire">>
                 t == <<"retire">>
      <4>1. /\ r \in Places /\ Head(r) # "next"
            /\ t \in Places /\ Head(t) # "next"
        OBVIOUS
      <4>2. pc' = "set" /\ (then' = r \/ then' = t)
        BY <3>2 DEF SetScanOutput
      <4> HIDE DEF r, t
      <4> QED
        BY <4>1, <4>2
    <3> QED
      BY <1>5, <3>1, <3>2 DEF Preempt, Destroy
  <2> QED
    BY <2>1, <2>2, <1>n DEF PlaceInv, PhaseType, Begun
<1>6. ASSUME NEW e \in Exp, Pause(e)
      PROVE  PlaceInv' /\ PhaseType'
  <2>1. /\ who = e /\ pc = "paused" /\ then \in AfterPause
        /\ phase' = [phase EXCEPT ![e] = "paused"] /\ UNCHANGED <<stopped, launches, NumScans>>
    BY <1>6 DEF Pause, Contract!Pause, Contract!Move, PlaceInv
  <2>2. \/ who' = Nobody /\ pc' = "off" /\ then' = <<>>
        \/ who' = e /\ pc' = "retire" /\ then' = <<>>
    BY <1>6, <2>1, Successors DEF Pause
  <2> QED
    BY <2>1, <2>2, <1>n DEF PlaceInv, PhaseType, Begun
<1>7. ASSUME NEW e \in Exp, Retire(e)
      PROVE  PlaceInv' /\ PhaseType'
  <2>1. /\ pc = "retire" /\ who' = Nobody /\ pc' = "off" /\ then' = then
        /\ phase' = [phase EXCEPT ![e] = "idle"] /\ UNCHANGED <<stopped, launches, NumScans>>
    BY <1>7 DEF Retire, Contract!Retire, Contract!Move
  <2> QED
    BY <2>1, <1>n DEF PlaceInv, PhaseType
<1>8. ASSUME NEW e \in Exp, Activate(e)
      PROVE  PlaceInv' /\ PhaseType'
  <2>1. /\ who = Nobody /\ who' = e /\ pc' = "run" /\ then' = then
        /\ phase' = [phase EXCEPT ![e] = "active"] /\ UNCHANGED <<stopped, launches, NumScans>>
    BY <1>8 DEF Activate, Free, Contract!Activate, Contract!Move
  <2> QED
    BY <2>1, <1>n DEF PlaceInv, PhaseType, Begun
<1>9. ASSUME NEW e \in Exp, Launch(e)
      PROVE  PlaceInv' /\ PhaseType'
  <2>1. /\ phase[e] = "idle" /\ phase' = [phase EXCEPT ![e] = "queued"]
        /\ stopped' = [stopped EXCEPT ![e] = FALSE] /\ UNCHANGED <<who, pc, then, NumScans>>
        /\ launches < MaxLaunches /\ launches' = launches + 1
    BY <1>9 DEF Launch, Contract!Launch, Contract!Move, threadVars
  <2>2. launches' \in 0 .. MaxLaunches
    BY <2>1, ScansAssumption DEF PhaseType
  <2> QED
    BY <2>1, <2>2, <1>n DEF PlaceInv, PhaseType, Begun
<1>10. ASSUME NEW e \in Exp, Stop(e)
       PROVE  PlaceInv' /\ PhaseType'
  BY <1>10 DEF Stop, PlaceInv, PhaseType, threadVars
<1>11. CASE \E v \in UserValues : Edit(v)
  BY <1>11 DEF Edit, PlaceInv, PhaseType, runVars
<1>12. CASE \E n \in ScanCounts : EditNumScans(n)
  BY <1>12 DEF EditNumScans, PlaceInv, PhaseType, runVars, threadVars
<1>13. ASSUME NEW e \in Exp, Initialize(e)
       PROVE  PlaceInv' /\ PhaseType'
  <2>1. /\ who = Nobody /\ UNCHANGED <<who, pc, then, stopped, launches, NumScans>>
        /\ phase' = [phase EXCEPT ![e] = "started"]
    BY <1>13 DEF Initialize, Free, threadVars, Contract!Initialize, Contract!Move
  <2> QED
    BY <2>1, <1>n DEF PlaceInv, PhaseType, Begun
<1>14. CASE UNCHANGED vars
  BY <1>14 DEF vars, PlaceInv, PhaseType, runVars, threadVars
<1> QED
  BY <1>1, <1>2, <1>3, <1>4, <1>5, <1>6, <1>7, <1>8, <1>9, <1>10, <1>11, <1>12, <1>13, <1>14
     DEF Next, ScanStep, ThreadStep, Schedule, Choose, UserStep

-----------------------------------------------------------------------------
(* The values. *)

\* Setting the parameter keeps its normal value.
LEMMA SetSource ==
    ASSUME SourceInv, pc # "set", NEW d \in Values, NEW places \in Places,
           SetScanOutput(d, places),
           Head(places) \in {"paused", "retire"} => d \in Normals,
           found' \in Values \cup {0}
    PROVE  SourceInv'
<1> QED
  BY Constants DEF SourceInv, SetScanOutput

\* DefaultExperimentState sets it to a normal value.
LEMMA DefaultSource ==
    ASSUME SourceInv, pc # "set", NEW e \in Exp, NEW s \in Ends, DefaultExperimentState(e, s),
           default_state[e] \in Normals, UNCHANGED found
    PROVE  SourceInv'
<1> DEFINE d == default_state[e]
           r == <<"restore">> \o s
<1>1. d \in Values /\ d \in Normals
  BY Constants
<1>2. /\ s \in Places /\ Head(s) \in {"finished", "paused", "retire"}
      /\ r \in Places /\ Head(r) = "restore"
  BY Successors
<1>3. SetScanOutput(d, s) \/ SetScanOutput(d, r)
  BY DEF DefaultExperimentState
<1>4. found' \in Values \cup {0}
  BY DEF SourceInv
<1> HIDE DEF d, r
<1> QED
  BY <1>1, <1>2, <1>3, <1>4, SetSource

\* Steps that do not set it.
LEMMA KeepSource ==
    ASSUME SourceInv, UNCHANGED <<sourceVars, out>>, pc # "set", pc' \notin {"set", "restore"},
           pc' \in {"off", "paused", "retire"} => pc \in {"off", "paused", "retire"},
           found' \in Values \cup {0}
    PROVE  SourceInv'
<1> QED
  BY DEF SourceInv, sourceVars

\* Every step keeps a normal value.
LEMMA NextSource ==
    PlaceInv /\ PhaseType /\ SourceInv /\ DefaultInv /\ ScanInv /\ ServoInv /\ [Next]_vars => SourceInv'
<1> SUFFICES ASSUME PlaceInv, PhaseType, SourceInv, DefaultInv, ScanInv, ServoInv, [Next]_vars
             PROVE  SourceInv'
  OBVIOUS
<1> USE DEF GoTo
<1>f. /\ value \in Values /\ found \in Values \cup {0}
      /\ Normals \subseteq Values /\ 0 \notin Values
  BY Constants DEF SourceInv
<1>d. \A e \in Exp : phase[e] \in Begun => default_state[e] \in Normals
  BY DEF DefaultInv
<1>1. CASE SetValue
  <2>1. /\ pc = "set" /\ pc' = Head(then) /\ then' = Tail(then)
        /\ value' = out /\ out' = 0
        /\ UNCHANGED <<bHasNonScanningOutput, nonScanningOutput, found>>
    BY <1>1 DEF SetValue
  <2>2. Head(then) \in {"acquire", "next", "finished", "paused", "retire", "restore"}
    BY <2>1, Successors DEF PlaceInv
  <2>3. out \in Values /\ nonScanningOutput \in Normals
    BY <2>1 DEF SourceInv
  <2> QED
    BY <2>1, <2>2, <2>3 DEF SourceInv
<1>2. CASE Restore
  <2>1. /\ pc = "restore" /\ then \in Places /\ SetScanOutput(nonScanningOutput, then)
        /\ found' = found
    BY <1>2, Successors DEF Restore, PlaceInv
  <2>2. nonScanningOutput \in Normals /\ nonScanningOutput \in Values
    BY <2>1, <1>f DEF SourceInv
  <2> QED
    BY <2>1, <2>2, <1>f, SetSource
<1>3. ASSUME NEW e \in Exp, Run(e) \/ Continue(e)
      PROVE  SourceInv'
  <2>1. /\ UNCHANGED <<sourceVars, out, found>> /\ pc \in {"run", "slice", "idle"}
        /\ pc' \in {"point", "slice"}
    BY <1>3 DEF Run, Continue
  <2> QED
    BY <2>1, <1>f, KeepSource
<1>4. ASSUME NEW e \in Exp, Acquire(e)
      PROVE  SourceInv'
  <2>1. pc = "acquire" /\ found' = found
    BY <1>4 DEF Acquire
  <2>2. CASE UNCHANGED <<sourceVars, out>> /\ pc' = "next"
    BY <2>1, <2>2, <1>f, KeepSource
  <2>3. CASE \E c \in Centers : SetNonScanningValue(c, <<"next">>)
    <3>1. PICK c \in Centers : /\ nonScanningOutput' = c /\ bHasNonScanningOutput' = TRUE
                               /\ out' = c /\ pc' = "set" /\ then' = <<"next">>
                               /\ UNCHANGED value
      BY <2>3 DEF SetNonScanningValue
    <3>2. c \in Normals /\ c \in Values /\ c # 0
      BY <1>f DEF Normals
    <3>3. Head(then') = "next"
      BY <3>1, Successors
    <3> QED
      BY <2>1, <3>1, <3>2, <3>3, <1>f DEF SourceInv
  <2> QED
    BY <1>4, <2>2, <2>3 DEF Acquire, AcquirePoint, AcquireSide
<1>5. ASSUME NEW e \in Exp, DataPoint(e) \/ EndDataPoint(e)
      PROVE  SourceInv'
  <2>1. who = e /\ pc \in {"point", "next"} /\ found' = found
    BY <1>5 DEF DataPoint, EndDataPoint
  <2>0. phase[e] \in Begun
    BY <2>1, Constants DEF PlaceInv
  <2>2. CASE UNCHANGED <<sourceVars, out>> /\ pc' \in {"finished", "idle", "slice"}
    BY <2>1, <2>2, <1>f, KeepSource
  <2>3. CASE DefaultExperimentState(e, <<"finished">>)
    <3>1. <<"finished">> \in Ends
      BY Successors
    <3> QED
      BY <2>0, <2>1, <2>3, <3>1, <1>d, DefaultSource
  <2>4. CASE /\ e \in Scan /\ current_index[e] < NumPoints
             /\ SetScanOutput(Points[indeces[e][current_index[e]]], <<"acquire">>)
    <3> DEFINE d == Points[indeces[e][current_index[e]]]
               s == <<"acquire">>
    <3>1. current_index[e] \in Indices
      BY <2>4, Constants DEF ScanInv
    <3>2. indeces[e][current_index[e]] \in Indices
      BY <2>4, <3>1 DEF ScanInv
    <3>3. d \in Values
      BY <3>2, Constants
    <3>4. s \in Places /\ Head(s) = "acquire" /\ SetScanOutput(d, s)
      BY <2>4, Successors
    <3> HIDE DEF d, s
    <3> QED
      BY <2>1, <3>3, <3>4, <1>f, SetSource
  <2>5. CASE e \in Lock /\ SetScanOutput(default_state[e]
                 + (<<-Modulation, Modulation, 0>>)[iCurrentPoint[e] + 1], <<"acquire">>)
    <3> DEFINE d == default_state[e] + (<<-Modulation, Modulation, 0>>)[iCurrentPoint[e] + 1]
               s == <<"acquire">>
    <3>1. iCurrentPoint[e] \in Sides /\ default_state[e] \in Normals
      BY <2>0, <2>1, <2>5, <1>d DEF ServoInv
    <3>2. d \in Values
      BY <3>1, Constants
    <3>3. s \in Places /\ Head(s) = "acquire" /\ SetScanOutput(d, s)
      BY <2>5, Successors
    <3> HIDE DEF d, s
    <3> QED
      BY <2>1, <3>2, <3>3, <1>f, SetSource
  <2> QED
    BY <1>5, <2>2, <2>3, <2>4, <2>5 DEF DataPoint, EndDataPoint, FinishScan
<1>6. ASSUME NEW e \in Exp, Preempt(e) \/ Destroy(e)
      PROVE  SourceInv'
  <2>1. found' = found /\ pc # "set"
    BY <1>6 DEF Preempt, Destroy, Free, PlaceInv
  <2>2. CASE /\ who = e \/ phase[e] = "paused"
             /\ \E s \in Ends : DefaultExperimentState(e, s)
    <3>1. phase[e] \in Begun
      BY <2>2, Constants DEF PlaceInv, Begun
    <3> QED
      BY <2>1, <2>2, <3>1, <1>d, DefaultSource
  <2>3. CASE /\ who = Nobody
             /\ SetScanOutput(value, IF e \in Scan THEN <<"restore", "retire">> ELSE <<"retire">>)
    <3> DEFINE r == <<"restore", "retire">>
               t == <<"retire">>
    <3>1. value \in Normals
      BY <2>3 DEF PlaceInv, SourceInv
    <3>2. r \in Places /\ t \in Places /\ (SetScanOutput(value, r) \/ SetScanOutput(value, t))
      BY <2>3, Successors
    <3> HIDE DEF r, t
    <3> QED
      BY <2>1, <3>1, <3>2, <1>f, SetSource
  <2> QED
    BY <1>6, <2>2, <2>3, Successors DEF Preempt, Destroy, Free
<1>7. ASSUME NEW e \in Exp, Pause(e) \/ Retire(e) \/ Activate(e)
      PROVE  SourceInv'
  <2>1. /\ UNCHANGED <<sourceVars, out>> /\ pc \in {"paused", "retire", "off"}
        /\ found' \in {0, found, value}
    BY <1>7 DEF Pause, Retire, Activate, Free, PlaceInv
  <2>2. pc' \in {"off", "retire", "run"}
    BY <1>7, Successors DEF Pause, Retire, Activate, PlaceInv
  <2> QED
    BY <2>1, <2>2, <1>f, KeepSource
<1>8. CASE \E v \in UserValues : Edit(v)
  <2>1. PICK v \in UserValues : Edit(v)
    BY <1>8
  <2>2. v \in Normals /\ v \in Values
    BY <1>f DEF Normals
  <2> QED
    BY <2>1, <2>2, <1>f DEF Edit, SourceInv
<1>9. CASE \/ \E e \in Exp : Launch(e) \/ Stop(e) \/ Initialize(e)
           \/ \E n \in ScanCounts : EditNumScans(n)
           \/ UNCHANGED vars
  BY <1>9 DEF Launch, Stop, Initialize, EditNumScans, vars, sourceVars, threadVars, SourceInv
<1> QED
  BY <1>1, <1>2, <1>3, <1>4, <1>5, <1>6, <1>7, <1>8, <1>9
     DEF Next, ScanStep, ThreadStep, Schedule, Choose, UserStep

\* Every step keeps the default states.
LEMMA NextDefault ==
    PlaceInv /\ PhaseType /\ SourceInv /\ DefaultInv /\ [Next]_vars => DefaultInv'
<1> SUFFICES ASSUME PlaceInv, PhaseType, SourceInv, DefaultInv, [Next]_vars PROVE DefaultInv'
  OBVIOUS
<1>n. 0 \notin Normals /\ Nobody \notin Exp
  BY Constants
<1>1. CASE UNCHANGED <<default_state, phase, who>>
  BY <1>1 DEF DefaultInv
<1>2. CASE SetValue \/ Restore \/ \E v \in UserValues : Edit(v)
  BY <1>1, <1>2 DEF SetValue, Restore, Edit, runVars
<1>3. ASSUME NEW e \in Exp, Run(e) \/ DataPoint(e) \/ EndDataPoint(e) \/ Continue(e) \/ Stop(e)
      PROVE  DefaultInv'
  BY <1>1, <1>3 DEF Run, DataPoint, EndDataPoint, Continue, Stop, runVars, threadVars
<1>4. ASSUME NEW e \in Exp, Acquire(e)
      PROVE  DefaultInv'
  <2>1. /\ UNCHANGED <<phase, who>>
        /\ \/ UNCHANGED default_state
           \/ \E c \in Centers : default_state' = [default_state EXCEPT ![e] = c]
    BY <1>4 DEF Acquire, AcquirePoint, AcquireSide, runVars
  <2>2. Centers \subseteq Normals
    BY DEF Normals
  <2> QED
    BY <2>1, <2>2, <1>n DEF DefaultInv
<1>5. ASSUME NEW e \in Exp, Preempt(e)
      PROVE  DefaultInv'
  BY <1>1, <1>5 DEF Preempt, runVars
<1>6. ASSUME NEW e \in Exp, who = Nobody, InitExperimentStart(e)
      PROVE  default_state' = [default_state EXCEPT ![e] = value] /\ value \in Normals
  BY <1>6 DEF InitExperimentStart, PlaceInv, SourceInv
<1>7. ASSUME NEW e \in Exp, Destroy(e) \/ Initialize(e)
      PROVE  DefaultInv'
  <2>1. \/ UNCHANGED <<default_state, phase>>
        \/ /\ who = Nobody /\ InitExperimentStart(e)
           /\ \/ phase' = [phase EXCEPT ![e] = "started"]
              \/ phase' = [phase EXCEPT ![e] = "again"]
    BY <1>7 DEF Destroy, Initialize, Free, Contract!Initialize, Contract!InitializeAgain,
         Contract!Move
  <2>2. CASE UNCHANGED <<default_state, phase>>
    BY <2>2 DEF DefaultInv
  <2>3. CASE who = Nobody /\ InitExperimentStart(e)
    BY <2>1, <2>3, <1>6, <1>n DEF DefaultInv, PhaseType
  <2> QED
    BY <2>1, <2>2, <2>3
<1>8. ASSUME NEW e \in Exp, Activate(e)
      PROVE  DefaultInv'
  <2>1. /\ phase' = [phase EXCEPT ![e] = "active"] /\ phase[e] \in {"started", "paused"}
        /\ UNCHANGED default_state
    BY <1>8 DEF Activate, Contract!Activate, Contract!Move, InitExperimentSwitch
  <2> QED
    BY <2>1 DEF DefaultInv, PhaseType, Begun
<1>9. ASSUME NEW e \in Exp, Pause(e)
      PROVE  DefaultInv'
  <2>1. /\ phase[e] = "active" /\ phase' = [phase EXCEPT ![e] = "paused"]
        /\ UNCHANGED default_state
    BY <1>9 DEF Pause, Contract!Pause, Contract!Move
  <2> QED
    BY <2>1, <1>n DEF DefaultInv, PhaseType, Begun
<1>10. ASSUME NEW e \in Exp, Retire(e)
       PROVE  DefaultInv'
  <2>1. /\ who' = Nobody /\ phase' = [phase EXCEPT ![e] = "idle"]
        /\ default_state' = [default_state EXCEPT ![e] = 0]
    BY <1>10 DEF Retire, Contract!Retire, Contract!Move
  <2> QED
    BY <2>1, <1>n DEF DefaultInv, PhaseType, Begun
<1>11. ASSUME NEW e \in Exp, Launch(e)
       PROVE  DefaultInv'
  <2>1. /\ phase' = [phase EXCEPT ![e] = "queued"] /\ UNCHANGED <<default_state, who>>
    BY <1>11 DEF Launch, Contract!Launch, Contract!Move, threadVars
  <2> QED
    BY <2>1 DEF DefaultInv, PhaseType, Begun
<1>12. CASE (\E n \in ScanCounts : EditNumScans(n)) \/ UNCHANGED vars
  BY <1>1, <1>12 DEF EditNumScans, vars, runVars, threadVars
<1> QED
  BY <1>2, <1>3, <1>4, <1>5, <1>7, <1>8, <1>9, <1>10, <1>11, <1>12
     DEF Next, ScanStep, ThreadStep, Schedule, Choose, UserStep

-----------------------------------------------------------------------------
(* The measurements of a servo. *)

\* Steps that neither measure nor go on to the next point.
LEMMA KeepServo ==
    ASSUME ServoInv, UNCHANGED servoVars, \A l \in Lock : UsedNow(l)' <=> UsedNow(l)
    PROVE  ServoInv'
<1> QED
  BY DEF ServoInv, servoVars, Late

\* InitExperimentStart forgets the measurements.
LEMMA StartServo ==
    ASSUME ServoInv, NEW e \in Exp, InitExperimentStart(e),
           \A l \in Lock : ~UsedNow(l) /\ ~UsedNow(l)'
    PROVE  ServoInv'
<1>1. CASE UNCHANGED servoVars
  BY <1>1, KeepServo
<1>2. CASE /\ e \in Lock
           /\ iCurrentPoint' = [iCurrentPoint EXCEPT ![e] = 0]
           /\ measured' = [measured EXCEPT ![e] = {}]
           /\ uses' = [uses EXCEPT ![e] = [i \in Sides |-> 0]]
           /\ num_new_points' = [num_new_points EXCEPT ![e] = 0]
           /\ runStatus' = [runStatus EXCEPT ![e] = "OK"]
  <2>1. /\ 0 \in Sides /\ 1 \in Sides /\ 2 \in Sides /\ 0 \in 0 .. NumMeasurements - 1
        /\ [i \in Sides |-> 0] \in [Sides -> Nat]
    BY ScansAssumption DEF Sides
  <2>2. /\ iCurrentPoint' \in [Lock -> Sides] /\ measured' \in [Lock -> SUBSET Sides]
        /\ num_new_points' \in [Lock -> 0 .. NumMeasurements - 1]
        /\ runStatus' \in [Lock -> {"OK", "IDLE", "NEED_MORE_DATA"}]
        /\ uses' \in [Lock -> [Sides -> Nat]]
    BY <1>2, <2>1 DEF ServoInv
  <2>3. uses'[e][0] = 0 /\ uses'[e][1] = 0 /\ uses'[e][2] = 0
    BY <1>2, <2>1 DEF ServoInv
  <2>4. ASSUME NEW l \in Lock \ {e}
        PROVE  uses'[l] = uses[l] /\ iCurrentPoint'[l] = iCurrentPoint[l]
    BY <1>2 DEF ServoInv
  <2>5. \A l \in Lock : /\ uses'[l][0] <= (IF Late(l)' THEN 1 ELSE 2)
                        /\ uses'[l][1] <= (IF Late(l)' THEN 2 ELSE 1)
                        /\ uses'[l][2] = 0
    BY <2>3, <2>4 DEF ServoInv, Late
  <2> QED
    BY <2>2, <2>5 DEF ServoInv
<1> QED
  BY <1>1, <1>2 DEF InitExperimentStart

\* A measurement is used at most twice: for the correction it completes and for the next.
LEMMA AcquireServo ==
    ASSUME PlaceInv, ServoInv, NEW e \in Exp, Acquire(e)
    PROVE  ServoInv'
<1>1. who = e /\ who' = e /\ pc = "acquire" /\ UNCHANGED <<iCurrentPoint, num_new_points, runStatus>>
  BY DEF Acquire
<1>2. CASE AcquirePoint(e)
  <2>1. e \notin Lock
    BY <1>2, ScansAssumption DEF AcquirePoint
  <2>2. UNCHANGED servoVars
    BY <1>1, <1>2 DEF AcquirePoint, servoVars
  <2> QED
    BY <1>1, <2>1, <2>2, KeepServo DEF UsedNow
<1>3. CASE AcquireSide(e)
  <2> DEFINE i == iCurrentPoint[e]
             all == measured[e] \cup {i}
             u == [uses[e] EXCEPT ![i] = 0]
             v == [u EXCEPT ![0] = @ + 1, ![1] = @ + 1]
  <2>1. /\ e \in Lock /\ i \in Sides /\ uses[e] \in [Sides -> Nat]
        /\ 0 \in Sides /\ 1 \in Sides /\ 2 \in Sides
    BY <1>3 DEF AcquireSide, ServoInv, Sides
  <2>2. pc' = "next" \/ (pc' = "set" /\ then' = <<"next">>)
    BY <1>3 DEF AcquireSide, SetNonScanningValue, GoTo
  <2>3. UsedNow(e)' /\ ~UsedNow(e)
    BY <1>1, <2>2, Successors DEF UsedNow, Reaches
  <2>4. \A l \in Lock \ {e} : ~UsedNow(l)' /\ ~UsedNow(l)
    BY <1>1 DEF UsedNow
  <2>5. /\ uses' = [uses EXCEPT ![e] = u] \/ (i \in {0, 1} /\ uses' = [uses EXCEPT ![e] = v])
        /\ measured' = [measured EXCEPT ![e] = all]
    BY <1>3 DEF AcquireSide, Responds
  <2>6. u \in [Sides -> Nat] /\ v \in [Sides -> Nat]
    BY <2>1 DEF Sides
  <2>7. uses' \in [Lock -> [Sides -> Nat]] /\ measured' \in [Lock -> SUBSET Sides]
    <3>1. measured[e] \in SUBSET Sides /\ all \in SUBSET Sides
      BY <2>1 DEF ServoInv
    <3>2. uses \in [Lock -> [Sides -> Nat]] /\ measured \in [Lock -> SUBSET Sides]
      BY DEF ServoInv
    <3> HIDE DEF u, v, all, i
    <3> QED
      BY <2>1, <2>5, <2>6, <3>1, <3>2
  <2>8. /\ uses[e][0] <= (IF i = 1 THEN 1 ELSE 2)
        /\ uses[e][1] <= (IF i = 1 THEN 2 ELSE 1)
        /\ uses[e][2] = 0
    BY <2>1, <2>3 DEF ServoInv, Late
  <2>9. i = 0 \/ i = 1 \/ i = 2
    BY <2>1 DEF Sides
  <2>10. /\ u[0] = (IF i = 0 THEN 0 ELSE uses[e][0]) /\ u[1] = (IF i = 1 THEN 0 ELSE uses[e][1])
         /\ u[2] = 0
         /\ v[0] = u[0] + 1 /\ v[1] = u[1] + 1 /\ v[2] = 0
    BY <2>1, <2>6, <2>8 DEF Sides
  <2>11. /\ uses'[e] = u \/ (i \in {0, 1} /\ uses'[e] = v)
         /\ \A l \in Lock \ {e} : uses'[l] = uses[l]
    BY <2>1, <2>5 DEF ServoInv
  <2>12. uses[e][0] \in Nat /\ uses[e][1] \in Nat
    BY <2>1
  <2> HIDE DEF i, u, v, all
  <2>13. /\ uses'[e][0] <= (IF i = 0 THEN 1 ELSE 2)
         /\ uses'[e][1] <= (IF i = 0 THEN 2 ELSE 1)
         /\ uses'[e][2] = 0
    BY <2>8, <2>9, <2>10, <2>11, <2>12
  <2>14. iCurrentPoint' = iCurrentPoint /\ i = iCurrentPoint[e]
    BY <1>1 DEF i
  <2>15. \A l \in Lock : /\ uses'[l][0] <= (IF Late(l)' THEN 1 ELSE 2)
                         /\ uses'[l][1] <= (IF Late(l)' THEN 2 ELSE 1)
                         /\ uses'[l][2] = 0
    <3> TAKE l \in Lock
    <3>1. CASE l = e
      BY <2>3, <2>13, <2>14, <3>1 DEF Late
    <3>2. CASE l # e
      BY <2>4, <2>11, <2>14, <3>2 DEF Late, ServoInv
    <3> QED
      BY <3>1, <3>2
  <2> QED
    BY <1>1, <2>7, <2>15 DEF ServoInv
<1> QED
  BY <1>2, <1>3 DEF Acquire

\* The next point follows in a fixed cycle.
LEMMA EndServo ==
    ASSUME PlaceInv, ServoInv, NEW e \in Exp, EndDataPoint(e)
    PROVE  ServoInv'
<1>1. who = e /\ who' = e /\ pc = "next" /\ UNCHANGED <<measured, uses>>
  BY DEF EndDataPoint
<1>2. ~UsedNow(e)' /\ UsedNow(e)
  <2>1. pc' = "slice" \/ DefaultExperimentState(e, <<"finished">>)
    BY DEF EndDataPoint, FinishScan, GoTo
  <2>2. <<"finished">> \in Ends
    BY Successors
  <2>3. pc' = "slice" \/ (pc' = "set" /\ Head(then') # "next")
    BY <2>1, <2>2, DefaultGoes
  <2> QED
    BY <1>1, <2>3 DEF UsedNow, Reaches
<1>3. \A l \in Lock \ {e} : ~UsedNow(l)' /\ ~UsedNow(l)
  BY <1>1 DEF UsedNow
<1>4. CASE e \in Lock
  <2>1. /\ iCurrentPoint' = [iCurrentPoint EXCEPT ![e] = (@ + 1) % 3]
        /\ CountMeasurement(e)
    BY <1>4, ScansAssumption DEF EndDataPoint, NextDataPoint
  <2>2. iCurrentPoint[e] \in {0, 1, 2} /\ num_new_points[e] \in 0 .. NumMeasurements - 1
    BY <1>4 DEF ServoInv, Sides
  <2>3. (iCurrentPoint[e] + 1) % 3 \in Sides /\ ((iCurrentPoint[e] + 1) % 3 = 1 <=> iCurrentPoint[e] = 0)
    BY <2>2 DEF Sides
  <2>4. /\ num_new_points' \in [Lock -> 0 .. NumMeasurements - 1]
        /\ runStatus' \in [Lock -> {"OK", "IDLE", "NEED_MORE_DATA"}]
    <3>1. (IF num_new_points[e] + 1 = NumMeasurements THEN 0 ELSE num_new_points[e] + 1)
            \in 0 .. NumMeasurements - 1
      BY <2>2, ScansAssumption
    <3> QED
      BY <1>4, <2>1, <3>1 DEF CountMeasurement, ServoInv
  <2>5. /\ iCurrentPoint' \in [Lock -> Sides]
        /\ iCurrentPoint'[e] = 1 <=> iCurrentPoint[e] = 0
        /\ \A l \in Lock \ {e} : iCurrentPoint'[l] = iCurrentPoint[l]
    BY <1>4, <2>1, <2>3 DEF ServoInv
  <2>6. \A l \in Lock : Late(l)' <=> Late(l)
    BY <1>2, <1>3, <2>5 DEF Late
  <2> QED
    BY <1>1, <2>4, <2>5, <2>6 DEF ServoInv
<1>5. CASE e \notin Lock
  <2>1. UNCHANGED servoVars
    BY <1>1, <1>5 DEF EndDataPoint, NextDataPoint, servoVars
  <2> QED
    BY <1>3, <1>5, <2>1, KeepServo
<1> QED
  BY <1>4, <1>5

\* Every step keeps the measurements in order.
LEMMA NextServo ==
    PlaceInv /\ PhaseType /\ ServoInv /\ [Next]_vars => ServoInv'
<1> SUFFICES ASSUME PlaceInv, PhaseType, ServoInv, [Next]_vars PROVE ServoInv'
  OBVIOUS
<1> USE DEF GoTo
<1>1. CASE SetValue
  <2>1. /\ pc = "set" /\ pc' = Head(then) /\ UNCHANGED <<who, servoVars>>
    BY <1>1 DEF SetValue
  <2>2. Head(then) # "set"
    BY <2>1, Successors DEF PlaceInv
  <2>3. \A l \in Lock : UsedNow(l)' <=> UsedNow(l)
    BY <2>1, <2>2 DEF UsedNow, Reaches
  <2> QED
    BY <2>1, <2>3, KeepServo
<1>2. CASE Restore
  <2>1. /\ pc = "restore" /\ pc' = "set" /\ then' = then /\ UNCHANGED <<who, servoVars>>
    BY <1>2 DEF Restore, SetScanOutput
  <2>2. Head(then) # "next"
    BY <2>1, Successors DEF PlaceInv
  <2>3. \A l \in Lock : ~UsedNow(l)' /\ ~UsedNow(l)
    BY <2>1, <2>2 DEF UsedNow, Reaches
  <2> QED
    BY <2>1, <2>3, KeepServo
<1>3. ASSUME NEW e \in Exp, Run(e) \/ Continue(e) \/ Pause(e)
      PROVE  ServoInv'
  <2>1. UNCHANGED servoVars /\ pc \in {"run", "slice", "idle", "paused"}
    BY <1>3 DEF Run, Continue, Pause
  <2>2. pc' \in {"point", "slice", "off", "retire"}
    BY <1>3, Successors DEF Run, Continue, Pause, PlaceInv
  <2>3. \A l \in Lock : ~UsedNow(l)' /\ ~UsedNow(l)
    BY <2>1, <2>2 DEF UsedNow, Reaches
  <2> QED
    BY <2>1, <2>3, KeepServo
<1>4. ASSUME NEW e \in Exp, DataPoint(e)
      PROVE  ServoInv'
  <2>1. /\ pc = "point" /\ UNCHANGED <<iCurrentPoint, measured, num_new_points, uses>>
        /\ UNCHANGED runStatus \/ (e \in Lock /\ runStatus' = [runStatus EXCEPT ![e] = "OK"])
    BY <1>4 DEF DataPoint
  <2>2. \/ pc' \in {"finished", "idle"} \/ DefaultExperimentState(e, <<"finished">>)
        \/ pc' = "set" /\ then' = <<"acquire">>
    BY <1>4 DEF DataPoint, FinishScan, SetScanOutput
  <2>3. pc' \in {"finished", "idle"} \/ (pc' = "set" /\ Head(then') # "next")
    <3>1. <<"finished">> \in Ends /\ Head(<<"acquire">>) = "acquire"
      BY Successors
    <3>2. CASE DefaultExperimentState(e, <<"finished">>)
      BY <3>1, <3>2, DefaultGoes
    <3>3. CASE pc' = "set" /\ then' = <<"acquire">>
      BY <3>1, <3>3
    <3> QED
      BY <2>2, <3>2, <3>3
  <2>4. \A l \in Lock : ~UsedNow(l)' /\ ~UsedNow(l)
    BY <2>1, <2>3 DEF UsedNow, Reaches
  <2> QED
    BY <2>1, <2>4 DEF ServoInv, Late
<1>5. ASSUME NEW e \in Exp, Preempt(e) \/ Destroy(e) \/ Activate(e) \/ Initialize(e)
      PROVE  ServoInv'
  <2>1. /\ pc \in {"slice", "idle", "finished", "off"}
        /\ UNCHANGED servoVars \/ InitExperimentStart(e)
    BY <1>5 DEF Preempt, Destroy, Activate, Initialize, Free, InitExperimentSwitch, PlaceInv
  <2>2. \/ pc' \in {"run", "off"} \/ \E s \in Ends : DefaultExperimentState(e, s)
        \/ SetScanOutput(value, IF e \in Scan THEN <<"restore", "retire">> ELSE <<"retire">>)
    BY <1>5, Successors DEF Preempt, Destroy, Activate, Initialize, Free, threadVars, PlaceInv
  <2>3. pc' \in {"run", "off"} \/ (pc' = "set" /\ Head(then') # "next")
    <3>1. CASE \E s \in Ends : DefaultExperimentState(e, s)
      BY <3>1, DefaultGoes
    <3>2. CASE SetScanOutput(value, IF e \in Scan THEN <<"restore", "retire">> ELSE <<"retire">>)
      <4> DEFINE r == <<"restore", "retire">>
                 t == <<"retire">>
      <4>1. Head(r) # "next" /\ Head(t) # "next"
        BY Successors
      <4>2. pc' = "set" /\ (then' = r \/ then' = t)
        BY <3>2 DEF SetScanOutput
      <4> HIDE DEF r, t
      <4> QED
        BY <4>1, <4>2
    <3> QED
      BY <2>2, <3>1, <3>2
  <2>4. \A l \in Lock : ~UsedNow(l)' /\ ~UsedNow(l)
    BY <2>1, <2>3 DEF UsedNow, Reaches
  <2> QED
    BY <2>1, <2>4, KeepServo, StartServo
<1>6. ASSUME NEW e \in Exp, Retire(e)
      PROVE  ServoInv'
  <2>1. /\ pc = "retire" /\ pc' = "off"
        /\ iCurrentPoint' = [l \in Lock |-> IF l = e THEN 0 ELSE iCurrentPoint[l]]
        /\ measured' = [l \in Lock |-> IF l = e THEN {} ELSE measured[l]]
        /\ uses' = [l \in Lock |-> IF l = e THEN [i \in Sides |-> 0] ELSE uses[l]]
        /\ num_new_points' = [l \in Lock |-> IF l = e THEN 0 ELSE num_new_points[l]]
        /\ runStatus' = [l \in Lock |-> IF l = e THEN "OK" ELSE runStatus[l]]
    BY <1>6 DEF Retire
  <2>2. \A l \in Lock : ~UsedNow(l)' /\ ~UsedNow(l)
    BY <2>1 DEF UsedNow, Reaches
  <2>3. /\ 0 \in Sides /\ 1 \in Sides /\ 2 \in Sides /\ 0 \in 0 .. NumMeasurements - 1
        /\ [i \in Sides |-> 0] \in [Sides -> Nat]
    BY ScansAssumption DEF Sides
  <2>4. /\ iCurrentPoint' \in [Lock -> Sides] /\ measured' \in [Lock -> SUBSET Sides]
        /\ num_new_points' \in [Lock -> 0 .. NumMeasurements - 1]
        /\ runStatus' \in [Lock -> {"OK", "IDLE", "NEED_MORE_DATA"}]
        /\ uses' \in [Lock -> [Sides -> Nat]]
    BY <2>1, <2>3 DEF ServoInv
  <2>5. \A l \in Lock : /\ uses'[l][0] <= (IF Late(l)' THEN 1 ELSE 2)
                        /\ uses'[l][1] <= (IF Late(l)' THEN 2 ELSE 1)
                        /\ uses'[l][2] = 0
    <3> TAKE l \in Lock
    <3>1. CASE l = e
      BY <2>1, <2>3, <3>1
    <3>2. CASE l # e
      BY <2>1, <2>2, <3>2 DEF ServoInv, Late
    <3> QED
      BY <3>1, <3>2
  <2> QED
    BY <2>4, <2>5 DEF ServoInv
<1>7. CASE \/ \E e \in Exp : Launch(e) \/ Stop(e)
           \/ \E v \in UserValues : Edit(v)
           \/ \E n \in ScanCounts : EditNumScans(n)
           \/ UNCHANGED vars
  <2>1. UNCHANGED <<servoVars, who, pc, then>>
    BY <1>7 DEF Launch, Stop, Edit, EditNumScans, vars, threadVars
  <2> QED
    BY <2>1, KeepServo DEF UsedNow, Reaches
<1> QED
  BY <1>1, <1>2, <1>3, <1>4, <1>5, <1>6, <1>7, AcquireServo, EndServo
     DEF Next, ScanStep, ThreadStep, Schedule, Choose, UserStep

-----------------------------------------------------------------------------
(* The points of a scan. *)

\* An order without repetition visits every point.
LEMMA OrderIsOnto ==
    ASSUME NEW order \in [Indices -> Indices],
           \A i, j \in Indices : order[i] = order[j] => i = j
    PROVE  \A i \in Indices : \E j \in Indices : order[j] = i
<1>1. order \in Injection(Indices, Indices)
  BY DEF Injection, IsInjective
<1>2. order \in Surjection(Indices, Indices)
  BY <1>1, FS_Injection, ScansAssumption
<1> QED
  BY <1>2 DEF Surjection

\* A new scan has measured nothing.
LEMMA NewScan ==
    ASSUME ScanInv, NEW e \in Scan, NEW order \in [Indices -> Indices],
           \A i, j \in Indices : order[i] = order[j] => i = j,
           indeces' = [indeces EXCEPT ![e] = order],
           current_index' = [current_index EXCEPT ![e] = 0],
           taken' = [taken EXCEPT ![e] = [i \in Indices |-> 0]],
           scans_completed' \in [Scan -> Nat],
           ~(who' = e /\ Reaches({"acquire", "next"})'),
           \A f \in Scan \ {e} : /\ ~(who = f /\ Reaches({"acquire", "next"}))
                                 /\ ~(who' = f /\ Reaches({"acquire", "next"})')
                                 /\ Spent(f) => Spent(f)'
    PROVE  ScanInv'
<1>1. /\ NumPoints \in Nat \ {0} /\ Indices = 0 .. NumPoints - 1 /\ Nobody \notin Exp
      /\ [i \in Indices |-> 0] \in [Indices -> 0 .. 2]
  BY Constants
<1>2. /\ indeces' \in [Scan -> [Indices -> Indices]]
      /\ current_index' \in [Scan -> 0 .. NumPoints]
      /\ taken' \in [Scan -> [Indices -> 0 .. 2]]
  <2> DEFINE zero == [i \in Indices |-> 0]
  <2>1. 0 \in 0 .. NumPoints /\ zero \in [Indices -> 0 .. 2]
    BY <1>1
  <2>2. taken' = [taken EXCEPT ![e] = zero]
    OBVIOUS
  <2> HIDE DEF zero
  <2>3. indeces' \in [Scan -> [Indices -> Indices]]
    BY DEF ScanInv
  <2>4. current_index' \in [Scan -> 0 .. NumPoints]
    BY <2>1 DEF ScanInv
  <2>5. taken' \in [Scan -> [Indices -> 0 .. 2]]
    BY <2>1, <2>2 DEF ScanInv
  <2> QED
    BY <2>3, <2>4, <2>5
<1>3. /\ indeces'[e] = order /\ current_index'[e] = 0
      /\ \A i \in Indices : taken'[e][i] = 0
      /\ \A f \in Scan \ {e} : /\ indeces'[f] = indeces[f]
                               /\ current_index'[f] = current_index[f] /\ taken'[f] = taken[f]
  BY DEF ScanInv
<1>4. \A f \in Scan : \A i, j \in Indices : indeces'[f][i] = indeces'[f][j] => i = j
  BY <1>3 DEF ScanInv
<1>5. \A f \in Scan \ {e} : Measured(f) = current_index[f] /\ Measured(f)' = current_index[f]
  BY <1>3 DEF Measured, Reaches
<1>6. \A f \in Scan : Counted(f, Measured(f))' \/ Spent(f)'
  <2> TAKE f \in Scan
  <2>1. CASE f = e
    <3>1. Measured(e)' = 0
      BY <1>3 DEF Measured, Reaches
    <3>2. \A j \in Indices : order[j] \in Indices /\ ~(j < 0)
      BY <1>1
    <3> QED
      BY <1>3, <2>1, <3>1, <3>2 DEF Counted
  <2>2. CASE f # e
    BY <1>3, <1>5, <2>2 DEF Counted, ScanInv
  <2> QED
    BY <2>1, <2>2
<1>7. who' \in Scan /\ Reaches({"acquire", "next"})' => current_index'[who'] < NumPoints
  OBVIOUS
<1> QED
  BY <1>2, <1>4, <1>6, <1>7 DEF ScanInv

\* InitExperimentStart starts one.
LEMMA StartScanInv ==
    ASSUME PlaceInv, PhaseType, ScanInv, NEW e \in Exp, InitExperimentStart(e), who = Nobody,
           who' \in {e, Nobody}, ~Reaches({"acquire", "next"})',
           \A f \in Exp \ {e} : phase'[f] = phase[f] /\ stopped'[f] = stopped[f]
    PROVE  ScanInv'
<1>n. Nobody \notin Exp /\ Scan \subseteq Exp
  BY Constants DEF Exp
<1>1. \A f \in Scan \ {e} : Spent(f) /\ UNCHANGED <<current_index[f], taken[f]>> => Spent(f)'
  BY <1>n DEF Spent
<1>2. CASE e \in Lock
  <2>1. e \notin Scan /\ UNCHANGED pointVars
    BY <1>2, ScansAssumption DEF InitExperimentStart
  <2>2. \A f \in Scan : Measured(f)' = Measured(f) /\ (Spent(f) => Spent(f)')
    BY <1>n, <1>1, <2>1 DEF Measured, pointVars
  <2> QED
    BY <2>1, <2>2 DEF ScanInv, Counted, pointVars
<1>3. CASE e \in Scan
  <2>1. /\ StartScan(e) /\ scans_completed' = [scans_completed EXCEPT ![e] = 0]
        /\ taken' = [taken EXCEPT ![e] = [i \in Indices |-> 0]]
    BY <1>3, ScansAssumption DEF InitExperimentStart
  <2>2. PICK order \in [Indices -> Indices] :
          /\ \A i, j \in Indices : order[i] = order[j] => i = j
          /\ indeces' = [indeces EXCEPT ![e] = order]
          /\ current_index' = [current_index EXCEPT ![e] = 0]
    BY <2>1 DEF StartScan
  <2>3. \A f \in Scan \ {e} : UNCHANGED <<current_index[f], taken[f]>>
    BY <2>1, <2>2 DEF ScanInv
  <2>4. scans_completed' \in [Scan -> Nat]
    BY <2>1 DEF ScanInv
  <2>5. \A f \in Scan \ {e} : who # f /\ who' # f /\ (Spent(f) => Spent(f)')
    BY <1>n, <1>1, <2>3
  <2> QED
    BY <1>3, <2>1, <2>2, <2>4, <2>5, NewScan
<1> QED
  BY <1>2, <1>3 DEF Exp

\* Steps that do not touch the points.
LEMMA KeepScan ==
    ASSUME ScanInv, UNCHANGED pointVars,
           who' \in Scan /\ Reaches({"acquire", "next"})' => current_index[who'] < NumPoints,
           \A e \in Scan : Measured(e)' = Measured(e) /\ (Spent(e) => Spent(e)')
    PROVE  ScanInv'
<1> QED
  BY DEF ScanInv, Counted, pointVars

\* The thread leaves a measurement alone.
Elsewhere == ~Reaches({"run", "acquire", "next"})

\* Steps of a thread that measures nothing.
LEMMA ElsewhereScan ==
    ASSUME ScanInv, UNCHANGED pointVars, Elsewhere', who = Nobody \/ pc # "next" \/ who \notin Scan,
           \A f \in Scan : Spent(f) =>
              /\ phase'[f] # "idle" /\ (stopped[f] => stopped'[f])
              /\ who = f /\ pc = "point" => stopped'[f] \/ (who' = f /\ pc' = "point")
    PROVE  ScanInv'
<1>1. ~Reaches({"acquire", "next"})' /\ pc' # "next"
  BY DEF Elsewhere, Reaches
<1>2. \A f \in Scan : Measured(f)' = Measured(f)
  BY <1>1, Constants DEF Measured, pointVars, Exp
<1>3. ASSUME NEW f \in Scan, Spent(f) PROVE Spent(f)'
  BY <1>3 DEF Spent, Elsewhere, pointVars
<1> QED
  BY <1>1, <1>2, <1>3, KeepScan

\* DefaultExperimentState takes the thread elsewhere.
LEMMA DefaultElsewhere ==
    ASSUME NEW e \in Exp, NEW s \in Ends, DefaultExperimentState(e, s)
    PROVE  Elsewhere'
<1> QED
  BY DefaultGoes DEF Elsewhere, Reaches

\* Run starts the next scan, or leaves the last one spent.
LEMMA RunScan ==
    ASSUME PlaceInv, PhaseType, ScanInv, NEW e \in Exp, Run(e)
    PROVE  /\ ScanInv'
           /\ e \in Scan /\ current_index[e] = NumPoints => Counted(e, NumPoints)
<1>1. /\ who = e /\ who' = e /\ pc' = "point" /\ then' = then /\ phase' = phase
      /\ stopped' = stopped
      /\ pc = "run" \/ (pc = "slice" /\ ~stopped[e])
      /\ e # Nobody /\ phase[e] # "idle"
  BY Constants DEF Run, GoTo, runVars, PlaceInv, Begun
<1>2. Elsewhere' /\ ~Spent(e)
  BY <1>1 DEF Elsewhere, Reaches, Spent
<1>3. CASE e \in Scan /\ current_index[e] = NumPoints
  <2>1. Counted(e, NumPoints)
    BY <1>1, <1>2, <1>3 DEF ScanInv, Measured
  <2>2. /\ scans_completed' = [scans_completed EXCEPT ![e] = @ + 1]
        /\ taken' = [taken EXCEPT ![e] = [i \in Indices |-> 0]]
        /\ UNCHANGED <<indeces, current_index>> \/ StartScan(e)
    BY <1>3 DEF Run
  <2>3. scans_completed' \in [Scan -> Nat]
    BY <1>3, <2>2 DEF ScanInv
  <2>4. ASSUME NEW f \in Scan \ {e}
        PROVE  who # f /\ who' # f /\ taken'[f] = taken[f]
    BY <1>1, <2>2 DEF ScanInv
  <2>5. CASE UNCHANGED <<indeces, current_index>>
    <3> DEFINE zero == [i \in Indices |-> 0]
    <3>1. zero \in [Indices -> 0 .. 2] /\ \A i \in Indices : zero[i] = 0
      OBVIOUS
    <3>2. taken' = [taken EXCEPT ![e] = zero]
      BY <2>2
    <3> HIDE DEF zero
    <3>3. taken' \in [Scan -> [Indices -> 0 .. 2]] /\ taken'[e] = zero
      BY <1>3, <3>1, <3>2 DEF ScanInv
    <3>4. Spent(e)'
      BY <1>1, <1>3, <2>5, <3>1, <3>3 DEF Spent
    <3>5. \A f \in Scan \ {e} : Counted(f, Measured(f))' \/ Spent(f)'
      <4> TAKE f \in Scan \ {e}
      <4>1. Measured(f)' = Measured(f)
        BY <2>4, <2>5 DEF Measured
      <4>2. CASE Counted(f, Measured(f))
        BY <2>4, <2>5, <4>1, <4>2 DEF Counted
      <4>3. CASE Spent(f)
        BY <1>1, <2>4, <2>5, <4>3 DEF Spent
      <4> QED
        BY <4>2, <4>3 DEF ScanInv
    <3> QED
      <4>1. ~Reaches({"acquire", "next"})'
        BY <1>2 DEF Elsewhere, Reaches
      <4>2. \A f \in Scan : Counted(f, Measured(f))' \/ Spent(f)'
        BY <3>4, <3>5
      <4>3. /\ indeces' \in [Scan -> [Indices -> Indices]]
            /\ current_index' \in [Scan -> 0 .. NumPoints]
            /\ \A f \in Scan : \A i, j \in Indices : indeces'[f][i] = indeces'[f][j] => i = j
        BY <2>5 DEF ScanInv
      <4> QED
        BY <2>1, <2>3, <3>3, <4>1, <4>2, <4>3 DEF ScanInv
  <2>6. CASE StartScan(e)
    <3>1. PICK order \in [Indices -> Indices] :
            /\ \A i, j \in Indices : order[i] = order[j] => i = j
            /\ indeces' = [indeces EXCEPT ![e] = order]
            /\ current_index' = [current_index EXCEPT ![e] = 0]
      BY <2>6 DEF StartScan
    <3>2. ASSUME NEW f \in Scan \ {e}, Spent(f) PROVE Spent(f)'
      <4>1. current_index'[f] = current_index[f]
        BY <3>1 DEF ScanInv
      <4> QED
        BY <1>1, <2>4, <3>2, <4>1 DEF Spent
    <3>3. ~Reaches({"acquire", "next"})'
      BY <1>2 DEF Elsewhere, Reaches
    <3> QED
      <4>1. \A f \in Scan \ {e} : who # f /\ who' # f /\ (Spent(f) => Spent(f)')
        BY <2>4, <3>2
      <4>2. ~(who' = e /\ Reaches({"acquire", "next"})')
        BY <3>3
      <4>3. e \in Scan /\ taken' = [taken EXCEPT ![e] = [i \in Indices |-> 0]]
        BY <1>3, <2>2
      <4> QED
        BY <2>1, <2>3, <3>1, <4>1, <4>2, <4>3, NewScan
  <2> QED
    BY <2>1, <2>2, <2>5, <2>6
<1>4. CASE ~(e \in Scan /\ current_index[e] = NumPoints)
  <2>1. UNCHANGED pointVars
    BY <1>4 DEF Run
  <2> QED
    <3>1. pc # "next" /\ pc # "point"
      BY <1>1
    <3>2. \A f \in Scan : Spent(f) => phase'[f] # "idle" /\ (stopped[f] => stopped'[f])
      BY <1>1 DEF Spent
    <3> QED
      BY <1>2, <1>4, <2>1, <3>1, <3>2, ElsewhereScan
<1> QED
  BY <1>3, <1>4

\* A measurement counts the current point.
LEMMA AcquireScan ==
    ASSUME PlaceInv, PhaseType, ScanInv, NEW e \in Exp, Acquire(e)
    PROVE  ScanInv'
<1>1. /\ who = e /\ who' = e /\ pc = "acquire" /\ e # Nobody
      /\ UNCHANGED <<phase, stopped, indeces, current_index, scans_completed>>
  BY Constants DEF Acquire, runVars
<1>2. ASSUME NEW f \in Scan \ {e}, Spent(f), taken'[f] = taken[f] PROVE Spent(f)'
  BY <1>1, <1>2 DEF Spent
<1>3. CASE AcquirePoint(e)
  <2> DEFINE c == current_index[e]
             p == indeces[e][c]
             t == [taken[e] EXCEPT ![p] = @ + 1]
  <2>1. e \in Scan /\ c \in Nat /\ c < NumPoints
    BY <1>1, <1>3, Constants DEF AcquirePoint, ScanInv, Reaches
  <2>2. c \in Indices /\ p \in Indices
    BY <2>1, Constants DEF ScanInv
  <2>3. ~Spent(e) /\ Measured(e) = c
    BY <1>1, <2>1, Constants DEF Spent, Measured
  <2>4. Counted(e, c)
    BY <2>1, <2>3 DEF ScanInv
  <2>5. taken[e] \in [Indices -> 0 .. 2] /\ taken[e][p] = 0
    BY <2>1, <2>2, <2>4 DEF Counted, ScanInv
  <2>6. /\ t \in [Indices -> 0 .. 2] /\ t[p] = 1
        /\ \A i \in Indices \ {p} : t[i] = taken[e][i]
    BY <2>2, <2>5
  <2>7. /\ taken' = [taken EXCEPT ![e] = t] /\ pc' = "next"
    BY <1>3 DEF AcquirePoint, GoTo
  <2>8. \A j \in Indices : indeces[e][j] \in Indices /\ (indeces[e][j] = p => j = c)
    BY <2>1, <2>2 DEF ScanInv
  <2> HIDE DEF t, p
  <2>9. /\ taken' \in [Scan -> [Indices -> 0 .. 2]] /\ taken'[e] = t
        /\ \A f \in Scan \ {e} : taken'[f] = taken[f]
    BY <2>1, <2>6, <2>7 DEF ScanInv
  <2>10. \A j \in Indices : t[indeces[e][j]] = IF j < c + 1 THEN 1 ELSE 0
    <3> TAKE j \in Indices
    <3>1. j \in Nat /\ taken[e][indeces[e][j]] = IF j < c THEN 1 ELSE 0
      BY <2>4, Constants DEF Counted
    <3>2. CASE j = c
      BY <2>1, <2>6, <3>2 DEF p
    <3>3. CASE j # c
      <4>1. t[indeces[e][j]] = taken[e][indeces[e][j]]
        BY <2>6, <2>8, <3>3
      <4>2. j < c + 1 <=> j < c
        BY <2>1, <3>1, <3>3
      <4> QED
        BY <3>1, <4>1, <4>2
    <3> QED
      BY <3>2, <3>3
  <2>11. Measured(e)' = c + 1
    BY <1>1, <2>7 DEF Measured
  <2>12. Counted(e, Measured(e))'
    BY <1>1, <2>9, <2>10, <2>11 DEF Counted
  <2>13. \A f \in Scan \ {e} : Counted(f, Measured(f))' \/ Spent(f)'
    <3> TAKE f \in Scan \ {e}
    <3>1. Measured(f)' = Measured(f) /\ taken'[f] = taken[f]
      BY <1>1, <2>9 DEF Measured
    <3>2. CASE Counted(f, Measured(f))
      BY <1>1, <3>1, <3>2 DEF Counted
    <3> QED
      BY <1>2, <3>1, <3>2 DEF ScanInv
  <2>14. \A f \in Scan : Counted(f, Measured(f))' \/ Spent(f)'
    BY <2>12, <2>13
  <2>15. /\ indeces' \in [Scan -> [Indices -> Indices]]
         /\ current_index' \in [Scan -> 0 .. NumPoints]
         /\ scans_completed' \in [Scan -> Nat]
         /\ \A f \in Scan : \A i, j \in Indices : indeces'[f][i] = indeces'[f][j] => i = j
    BY <1>1 DEF ScanInv
  <2>16. current_index'[who'] < NumPoints
    BY <1>1, <2>1
  <2> QED
    BY <2>9, <2>14, <2>15, <2>16 DEF ScanInv
<1>4. CASE AcquireSide(e)
  <2>1. e \notin Scan /\ UNCHANGED pointVars
    BY <1>1, <1>4, ScansAssumption DEF AcquireSide, pointVars
  <2>2. \A f \in Scan : Measured(f)' = Measured(f)
    BY <1>1, <2>1 DEF Measured, pointVars
  <2>3. \A f \in Scan : Spent(f) => Spent(f)'
    BY <1>2, <2>1 DEF pointVars
  <2> QED
    BY <1>1, <2>1, <2>2, <2>3, KeepScan
<1> QED
  BY <1>3, <1>4 DEF Acquire

\* The next point is the one after the measured one.
LEMMA EndScan ==
    ASSUME PlaceInv, PhaseType, ScanInv, NEW e \in Exp, EndDataPoint(e)
    PROVE  ScanInv'
<1>1. /\ who = e /\ who' = e /\ pc = "next" /\ e # Nobody
      /\ UNCHANGED <<phase, indeces, scans_completed, taken>>
      /\ \A f \in Exp : stopped[f] => stopped'[f]
  BY Constants DEF EndDataPoint, FinishScan, PhaseType
<1>2. Elsewhere'
  <2>1. pc' = "slice" \/ DefaultExperimentState(e, <<"finished">>)
    BY DEF EndDataPoint, FinishScan, GoTo
  <2>2. <<"finished">> \in Ends
    BY Successors
  <2>3. CASE pc' = "slice"
    BY <2>3 DEF Elsewhere, Reaches
  <2> QED
    BY <2>1, <2>2, <2>3, DefaultElsewhere
<1>3. ~Reaches({"acquire", "next"})' /\ pc' # "next"
  BY <1>2 DEF Elsewhere, Reaches
<1>4. CASE e \in Scan
  <2> DEFINE c == current_index[e]
  <2>1. c \in Nat /\ c < NumPoints /\ NumPoints \in Nat
    BY <1>1, <1>4, Constants DEF ScanInv, Reaches
  <2>2. Counted(e, c + 1)
    BY <1>1, <1>4, <2>1 DEF ScanInv, Spent, Measured
  <2>3. current_index' = [current_index EXCEPT ![e] = c + 1]
    BY <1>4, ScansAssumption DEF EndDataPoint, NextDataPoint
  <2>4. c + 1 \in 0 .. NumPoints
    BY <2>1
  <2> HIDE DEF c
  <2>5. /\ current_index' \in [Scan -> 0 .. NumPoints] /\ current_index'[e] = c + 1
        /\ \A f \in Scan \ {e} : current_index'[f] = current_index[f]
    BY <1>4, <2>3, <2>4 DEF ScanInv
  <2>6. Counted(e, Measured(e))'
    BY <1>1, <1>3, <2>2, <2>5 DEF Counted, Measured
  <2>7. \A f \in Scan \ {e} : Counted(f, Measured(f))' \/ Spent(f)'
    <3> TAKE f \in Scan \ {e}
    <3>1. Measured(f)' = Measured(f)
      BY <1>1, <2>5 DEF Measured
    <3>2. CASE Counted(f, Measured(f))
      BY <1>1, <3>1, <3>2 DEF Counted
    <3>3. CASE Spent(f)
      BY <1>1, <2>5, <3>3 DEF Spent, Exp
    <3> QED
      BY <3>2, <3>3 DEF ScanInv
  <2>8. \A f \in Scan : Counted(f, Measured(f))' \/ Spent(f)'
    BY <2>6, <2>7
  <2>9. /\ indeces' \in [Scan -> [Indices -> Indices]] /\ scans_completed' \in [Scan -> Nat]
        /\ taken' \in [Scan -> [Indices -> 0 .. 2]]
        /\ \A f \in Scan : \A i, j \in Indices : indeces'[f][i] = indeces'[f][j] => i = j
    BY <1>1 DEF ScanInv
  <2> QED
    BY <1>3, <2>5, <2>8, <2>9 DEF ScanInv
<1>5. CASE e \notin Scan
  <2>1. UNCHANGED pointVars
    BY <1>1, <1>5 DEF EndDataPoint, NextDataPoint, pointVars
  <2>2. \A f \in Scan : Spent(f) => phase'[f] # "idle" /\ (stopped[f] => stopped'[f])
    BY <1>1 DEF Spent, Exp
  <2> QED
    BY <1>1, <1>2, <1>5, <2>1, <2>2, ElsewhereScan
<1> QED
  BY <1>4, <1>5

\* Retire forgets the points.
LEMMA RetireScan ==
    ASSUME PlaceInv, PhaseType, ScanInv, NEW e \in Exp, Retire(e)
    PROVE  ScanInv'
<1>1. /\ who = e /\ who' = Nobody /\ pc' = "off" /\ Nobody \notin Exp /\ Scan \subseteq Exp
      /\ stopped' = stopped /\ phase' = [phase EXCEPT ![e] = "idle"]
  BY Constants DEF Retire, GoTo, Contract!Retire, Contract!Move, Exp
<1>2. /\ indeces' = [s \in Scan |-> IF s = e THEN [i \in Indices |-> i] ELSE indeces[s]]
      /\ current_index' = [s \in Scan |-> IF s = e THEN 0 ELSE current_index[s]]
      /\ scans_completed' = [s \in Scan |-> IF s = e THEN 0 ELSE scans_completed[s]]
      /\ taken' = [s \in Scan |-> IF s = e THEN [i \in Indices |-> 0] ELSE taken[s]]
  BY DEF Retire
<1> DEFINE zero == [i \in Indices |-> 0]
           same == [i \in Indices |-> i]
<1>3. /\ NumPoints \in Nat /\ 0 \in 0 .. NumPoints
      /\ zero \in [Indices -> 0 .. 2] /\ \A i \in Indices : zero[i] = 0
      /\ same \in [Indices -> Indices] /\ \A i \in Indices : same[i] = i
  BY Constants
<1>4. \A f \in Scan : /\ indeces'[f] = IF f = e THEN same ELSE indeces[f]
                      /\ current_index'[f] = IF f = e THEN 0 ELSE current_index[f]
                      /\ taken'[f] = IF f = e THEN zero ELSE taken[f]
  BY <1>2
<1>5. /\ indeces' \in [Scan -> [Indices -> Indices]]
      /\ current_index' \in [Scan -> 0 .. NumPoints]
      /\ taken' \in [Scan -> [Indices -> 0 .. 2]]
      /\ scans_completed' \in [Scan -> Nat]
  <2> HIDE DEF zero, same
  <2>1. indeces' \in [Scan -> [Indices -> Indices]]
    BY <1>2, <1>3 DEF ScanInv, same
  <2>2. current_index' \in [Scan -> 0 .. NumPoints] /\ scans_completed' \in [Scan -> Nat]
    BY <1>2, <1>3 DEF ScanInv
  <2>3. taken' \in [Scan -> [Indices -> 0 .. 2]]
    BY <1>2, <1>3 DEF ScanInv, zero
  <2> QED
    BY <2>1, <2>2, <2>3
<1> HIDE DEF zero, same
<1>6. \A f \in Scan : \A i, j \in Indices : indeces'[f][i] = indeces'[f][j] => i = j
  <2> TAKE f \in Scan
  <2>1. CASE f = e
    BY <1>3, <1>4, <2>1
  <2>2. CASE f # e
    BY <1>4, <2>2 DEF ScanInv
  <2> QED
    BY <2>1, <2>2
<1>7. \A f \in Scan : Measured(f)' = current_index'[f]
  BY <1>1 DEF Measured
<1>8. \A f \in Scan : Counted(f, Measured(f))' \/ Spent(f)'
  <2> TAKE f \in Scan
  <2>1. CASE f = e
    <3>1. \A j \in Indices : ~(j < 0) /\ zero[same[j]] = 0
      BY <1>3, Constants
    <3> QED
      BY <1>4, <1>7, <2>1, <3>1 DEF Counted
  <2>2. CASE f # e
    <3>1. Measured(f) = current_index[f]
      BY <1>1, <2>2 DEF Measured
    <3>2. CASE Counted(f, Measured(f))
      BY <1>4, <1>7, <2>2, <3>1, <3>2 DEF Counted
    <3>3. CASE Spent(f)
      BY <1>1, <1>4, <2>2, <3>3 DEF Spent, PhaseType
    <3> QED
      BY <3>2, <3>3 DEF ScanInv
  <2> QED
    BY <2>1, <2>2
<1>9. who' \notin Scan
  BY <1>1
<1> QED
  BY <1>5, <1>6, <1>8, <1>9 DEF ScanInv

\* Every step keeps the points counted.
LEMMA NextScan == PlaceInv /\ PhaseType /\ ScanInv /\ [Next]_vars => ScanInv'
<1> SUFFICES ASSUME PlaceInv, PhaseType, ScanInv, [Next]_vars PROVE ScanInv'
  OBVIOUS
<1> USE DEF GoTo
<1>n. Nobody \notin Exp /\ Scan \subseteq Exp
  BY Constants DEF Exp
<1>s. \A f \in Scan : Spent(f) => /\ phase[f] # "idle"
                                  /\ (who = f /\ pc = "point") \/ stopped[f]
  BY DEF Spent
<1>1. CASE SetValue
  <2>1. /\ pc = "set" /\ pc' = Head(then) /\ UNCHANGED <<who, runVars, pointVars>>
        /\ then \in Places
    BY <1>1 DEF SetValue, PlaceInv
  <2>2. Head(then) # "set" /\ Head(then) # "point" /\ (Head(then) = "next" => who \in Lock)
    BY <2>1, Successors DEF PlaceInv
  <2>3. who \in Lock => who \notin Scan
    BY ScansAssumption
  <2>4. \A f \in Scan : Measured(f)' = Measured(f)
    BY <2>1, <2>2, <2>3 DEF Measured, pointVars
  <2>5. ASSUME NEW f \in Scan, Spent(f) PROVE Spent(f)'
    BY <2>1, <2>2, <2>5 DEF Spent, Reaches, pointVars, runVars
  <2>6. who' \in Scan /\ Reaches({"acquire", "next"})' => current_index[who'] < NumPoints
    BY <2>1, <2>2 DEF ScanInv, Reaches
  <2> QED
    BY <2>1, <2>4, <2>5, <2>6, KeepScan
<1>2. CASE Restore
  <2>1. /\ pc = "restore" /\ pc' = "set" /\ then' = then /\ UNCHANGED <<who, runVars, pointVars>>
    BY <1>2 DEF Restore, SetScanOutput
  <2>2. Elsewhere'
    BY <2>1, Successors DEF PlaceInv, Elsewhere, Reaches
  <2> QED
    BY <1>s, <2>1, <2>2, ElsewhereScan DEF runVars
<1>3. ASSUME NEW e \in Exp, Run(e) \/ Acquire(e) \/ EndDataPoint(e) \/ Retire(e)
      PROVE  ScanInv'
  BY <1>3, RunScan, AcquireScan, EndScan, RetireScan
<1>4. ASSUME NEW e \in Exp, DataPoint(e)
      PROVE  ScanInv'
  <2>1. /\ who = e /\ who' = e /\ pc = "point" /\ UNCHANGED <<phase, pointVars>>
        /\ \A f \in Exp : stopped[f] => stopped'[f]
    BY <1>4 DEF DataPoint, FinishScan, PhaseType
  <2>2. CASE /\ stopped' = [stopped EXCEPT ![e] = TRUE]
             /\ DefaultExperimentState(e, <<"finished">>) \/ pc' = "finished"
    <3>1. <<"finished">> \in Ends
      BY Successors
    <3>2. ASSUME pc' = "finished" PROVE Elsewhere'
      BY <3>2 DEF Elsewhere, Reaches
    <3>3. Elsewhere'
      BY <2>2, <3>1, <3>2, DefaultElsewhere
    <3>4. stopped'[e]
      BY <2>2 DEF PhaseType
    <3> QED
      BY <1>n, <1>s, <2>1, <3>3, <3>4, ElsewhereScan
  <2>3. CASE e \in Scan /\ current_index[e] < NumPoints /\ stopped' = stopped
    <3>1. ~Spent(e) /\ pc' # "next"
      BY <1>4, <2>3, Constants DEF Spent, DataPoint, ScanInv, FinishScan, DefaultExperimentState,
            SetScanOutput
    <3>2. \A f \in Scan : Measured(f)' = Measured(f)
      BY <2>1, <3>1 DEF Measured, pointVars
    <3>3. ASSUME NEW f \in Scan, Spent(f) PROVE Spent(f)'
      BY <2>1, <2>3, <3>1, <3>3 DEF Spent, pointVars
    <3> QED
      BY <2>1, <2>3, <3>2, <3>3, KeepScan
  <2>4. CASE e \in Lock /\ stopped' = stopped
    <3>1. e \notin Scan
      BY <2>4, ScansAssumption
    <3>2. \A f \in Scan : Measured(f)' = Measured(f)
      BY <2>1, <3>1 DEF Measured, pointVars
    <3>3. ASSUME NEW f \in Scan, Spent(f) PROVE Spent(f)'
      BY <2>1, <2>4, <3>1, <3>3 DEF Spent, pointVars
    <3> QED
      BY <2>1, <3>1, <3>2, <3>3, KeepScan
  <2> QED
    BY <1>4, <2>2, <2>3, <2>4 DEF DataPoint, FinishScan
<1>5. ASSUME NEW e \in Exp, Continue(e) \/ Preempt(e) \/ Pause(e)
      PROVE  ScanInv'
  <2>1. /\ who = e /\ pc \in {"idle", "slice", "paused"} /\ UNCHANGED <<stopped, pointVars>>
        /\ phase' = phase \/ phase' = [phase EXCEPT ![e] = "paused"]
    BY <1>5 DEF Continue, Preempt, Pause, runVars, Contract!Pause, Contract!Move
  <2>2. ASSUME pc' \in {"slice", "off", "retire"} PROVE Elsewhere'
    BY <2>2 DEF Elsewhere, Reaches
  <2>3. ASSUME DefaultExperimentState(e, <<"paused">>) PROVE Elsewhere'
    <3>1. <<"paused">> \in Ends
      BY Successors
    <3> QED
      BY <2>3, <3>1, DefaultElsewhere
  <2>4. Elsewhere'
    BY <1>5, <2>1, <2>2, <2>3, Successors DEF Continue, Preempt, Pause, PlaceInv
  <2>5. \A f \in Scan : Spent(f) => phase'[f] # "idle"
    BY <1>n, <1>s, <2>1 DEF PhaseType
  <2> QED
    BY <2>1, <2>4, <2>5, ElsewhereScan
<1>6. ASSUME NEW e \in Exp, Activate(e)
      PROVE  ScanInv'
  <2>1. /\ who = Nobody /\ who' = e /\ pc' = "run" /\ stopped' = stopped /\ ~stopped[e]
        /\ phase' = [phase EXCEPT ![e] = "active"] /\ UNCHANGED pointVars
    BY <1>6 DEF Activate, Free, Contract!Activate, Contract!Move, InitExperimentSwitch
  <2>2. ~Reaches({"acquire", "next"})'
    BY <2>1 DEF Reaches
  <2>3. \A f \in Exp \ {e} : phase'[f] = phase[f] /\ stopped'[f] = stopped[f]
    BY <2>1 DEF PhaseType
  <2>4. \A f \in Scan : Measured(f)' = Measured(f)
    BY <1>n, <2>1 DEF Measured, pointVars
  <2>5. ASSUME NEW f \in Scan, Spent(f) PROVE Spent(f)'
    <3>1. f # e /\ who # f /\ who' # f
      BY <1>n, <2>1, <2>5 DEF Spent
    <3> QED
      BY <1>n, <2>1, <2>3, <2>5, <3>1 DEF Spent, pointVars
  <2> QED
    BY <2>1, <2>2, <2>4, <2>5, KeepScan
<1>7. ASSUME NEW e \in Exp, Destroy(e)
      PROVE  ScanInv'
  <2>1. who' = e /\ UNCHANGED stopped
    BY <1>7 DEF Destroy
  <2>2. CASE /\ pc \in {"slice", "idle", "finished"} \/ who = Nobody
             /\ \E s \in Ends : DefaultExperimentState(e, s)
             /\ UNCHANGED <<phase, pointVars>>
    <3>1. Elsewhere' /\ pc # "point"
      BY <2>2, DefaultElsewhere DEF PlaceInv
    <3>2. who = Nobody \/ pc # "next"
      BY <2>2
    <3> QED
      BY <1>s, <2>1, <2>2, <3>1, <3>2, ElsewhereScan
  <2>3. CASE /\ who = Nobody /\ InitExperimentStart(e)
             /\ Contract!Initialize(e) \/ Contract!InitializeAgain(e)
             /\ SetScanOutput(value, IF e \in Scan THEN <<"restore", "retire">> ELSE <<"retire">>)
    <3> DEFINE r == <<"restore", "retire">>
               t == <<"retire">>
    <3>0. \A f \in Exp \ {e} : phase'[f] = phase[f]
      BY <2>3 DEF Contract!Initialize, Contract!InitializeAgain, Contract!Move, PhaseType
    <3>1. Head(r) = "restore" /\ Head(t) = "retire"
      BY Successors
    <3>2. pc' = "set" /\ (then' = r \/ then' = t)
      BY <2>3 DEF SetScanOutput
    <3> HIDE DEF r, t
    <3>3. ~Reaches({"acquire", "next"})'
      BY <3>1, <3>2 DEF Reaches
    <3> QED
      BY <2>1, <2>3, <3>0, <3>3, StartScanInv
  <2> QED
    BY <1>7, <2>2, <2>3, Successors DEF Destroy, Free
<1>8. ASSUME NEW e \in Exp, Launch(e)
      PROVE  ScanInv'
  <2>1. /\ phase[e] = "idle" /\ phase' = [phase EXCEPT ![e] = "queued"]
        /\ stopped' = [stopped EXCEPT ![e] = FALSE] /\ UNCHANGED <<who, pc, then, pointVars>>
    BY <1>8 DEF Launch, Contract!Launch, Contract!Move, threadVars
  <2>2. \A f \in Scan : Measured(f)' = Measured(f)
    BY <2>1 DEF Measured, pointVars
  <2>3. ASSUME NEW f \in Scan, Spent(f) PROVE Spent(f)'
    <3>1. f # e
      BY <2>1, <2>3 DEF Spent
    <3>2. phase'[f] = phase[f] /\ stopped'[f] = stopped[f]
      BY <1>n, <2>1, <3>1 DEF PhaseType
    <3> QED
      BY <2>1, <2>3, <3>2 DEF Spent, Reaches, pointVars
  <2>4. who' \in Scan /\ Reaches({"acquire", "next"})' => current_index[who'] < NumPoints
    BY <2>1 DEF ScanInv, Reaches
  <2> QED
    BY <2>1, <2>2, <2>3, <2>4, KeepScan
<1>9. CASE \/ \E e \in Exp : Stop(e)
           \/ \E v \in UserValues : Edit(v)
           \/ \E n \in ScanCounts : EditNumScans(n)
           \/ UNCHANGED vars
  <2>1. /\ UNCHANGED <<phase, who, pc, then, pointVars>>
        /\ \A f \in Exp : stopped[f] => stopped'[f]
    BY <1>9 DEF Stop, Edit, EditNumScans, vars, threadVars, runVars, PhaseType
  <2>2. \A f \in Scan : Measured(f)' = Measured(f)
    BY <2>1 DEF Measured, pointVars
  <2>3. ASSUME NEW f \in Scan, Spent(f) PROVE Spent(f)'
    BY <1>n, <2>1, <2>3 DEF Spent, Reaches, pointVars
  <2>4. who' \in Scan /\ Reaches({"acquire", "next"})' => current_index[who'] < NumPoints
    BY <2>1 DEF ScanInv, Reaches
  <2> QED
    BY <2>1, <2>2, <2>3, <2>4, KeepScan
<1>10. ASSUME NEW e \in Exp, Initialize(e)
       PROVE  ScanInv'
  <2>1. /\ who = Nobody /\ UNCHANGED <<who, pc, stopped>> /\ InitExperimentStart(e)
        /\ \A f \in Exp \ {e} : phase'[f] = phase[f]
    BY <1>10 DEF Initialize, Free, threadVars, Contract!Initialize, Contract!Move, PhaseType
  <2>2. ~Reaches({"acquire", "next"})'
    BY <2>1 DEF PlaceInv, Reaches
  <2> QED
    BY <2>1, <2>2, StartScanInv
<1> QED
  BY <1>1, <1>2, <1>3, <1>4, <1>5, <1>6, <1>7, <1>8, <1>9, <1>10
     DEF Next, ScanStep, ThreadStep, Schedule, Choose, UserStep

-----------------------------------------------------------------------------
(* The theorems. *)

\* The program starts in the invariant.
LEMMA InitIInv == Init => IInv
<1> SUFFICES ASSUME Init PROVE IInv
  OBVIOUS
<1> USE DEF Init
<1>1. PlaceInv /\ PhaseType
  BY Constants, ScansAssumption DEF PlaceInv, PhaseType
<1>2. SourceInv
  BY Constants DEF SourceInv, Normals
<1>3. DefaultInv
  BY Constants DEF DefaultInv, Begun
<1>4. ScanInv
  <2>1. /\ NumPoints \in Nat \ {0} /\ Indices = 0 .. NumPoints - 1
        /\ Nobody \notin Scan
    BY Constants DEF Exp
  <2>2. [i \in Indices |-> i] \in [Indices -> Indices] /\ [i \in Indices |-> 0] \in [Indices -> 0 .. 2]
    OBVIOUS
  <2>3. indeces \in [Scan -> [Indices -> Indices]] /\ taken \in [Scan -> [Indices -> 0 .. 2]]
    BY <2>2
  <2>4. current_index \in [Scan -> 0 .. NumPoints] /\ scans_completed \in [Scan -> Nat]
    BY <2>1
  <2>5. \A e \in Scan : Counted(e, Measured(e))
    BY <2>1 DEF Counted, Measured
  <2> QED
    BY <2>1, <2>3, <2>4, <2>5 DEF ScanInv
<1>5. ServoInv
  <2>1. 0 \in Sides /\ 1 \in Sides /\ 2 \in Sides /\ 0 \in 0 .. NumMeasurements - 1
    BY ScansAssumption DEF Sides
  <2>2. [i \in Sides |-> 0] \in [Sides -> Nat]
    OBVIOUS
  <2> QED
    BY <2>1, <2>2 DEF ServoInv
<1> QED
  BY <1>1, <1>2, <1>3, <1>4, <1>5 DEF IInv

\* The inductive invariant.
LEMMA SpecIInv == Spec => []IInv
<1>1. IInv /\ [Next]_vars => IInv'
  BY NextPlace, NextSource, NextDefault, NextScan, NextServo DEF IInv
<1> QED
  BY <1>1, InitIInv, PTL DEF Spec

\* A list of places is a sequence of places.
LEMMA PlacesAreSequences ==
    Places \cup Ends \cup AfterPause
        \subseteq Seq({"acquire", "next", "restore", "finished", "paused", "retire"})
<1> DEFINE Spots == {"acquire", "next", "restore", "finished", "paused", "retire"}
<1>1. /\ <<"acquire">> \in Seq(Spots) /\ <<"next">> \in Seq(Spots)
      /\ <<"restore">> \in Seq(Spots) /\ <<>> \in Seq(Spots) /\ <<"retire">> \in Seq(Spots)
  OBVIOUS
<1>2. <<"finished">> \in Seq(Spots) /\ <<"paused">> \in Seq(Spots) /\ <<"paused", "retire">> \in Seq(Spots)
  OBVIOUS
<1> HIDE DEF Spots
<1>3. Ends \subseteq Seq(Spots) /\ AfterPause \subseteq Seq(Spots)
  BY <1>1, <1>2 DEF Ends, AfterPause
<1>4. \A s \in Ends : <<"restore">> \o s \in Seq(Spots)
  BY <1>1, <1>3, ConcatProperties
<1>5. Places \subseteq Seq(Spots)
  BY <1>1, <1>3, <1>4 DEF Places, Begins
<1> QED
  BY <1>3, <1>5 DEF Spots

\* No measurement of a servo is used for more than two corrections.  Code: the cycle of
\* iCurrentPoint and the measurements of LockInScan, which preemption leaves alone.
THEOREM FreshMeasurements == Spec => []MeasurementsAreFresh
<1>1. IInv => MeasurementsAreFresh
  <2> SUFFICES ASSUME IInv, NEW l \in Lock, NEW i \in Sides PROVE uses[l][i] <= 2
    BY DEF MeasurementsAreFresh
  <2>1. i = 0 \/ i = 1 \/ i = 2
    BY DEF Sides
  <2>2. 0 \in Sides /\ 1 \in Sides /\ uses[l] \in [Sides -> Nat]
    BY DEF IInv, ServoInv, Sides
  <2>3. uses[l][0] \in Nat /\ uses[l][1] \in Nat
    BY <2>2
  <2> QED
    BY <2>1, <2>3 DEF IInv, ServoInv
<1> QED
  BY <1>1, SpecIInv, PTL

\* A scan is counted only when each of its points was measured exactly once, in any
\* order, with any number of points and whatever preempts it.  Code: current_index and
\* indeces of Scan_Fittable.
THEOREM ScansComplete == Spec => CompleteScans
<1>1. IInv /\ [Next]_vars =>
        [\A e \in Scan : scans_completed'[e] > scans_completed[e] =>
             \A i \in Indices : taken[e][i] = 1]_vars
  <2> SUFFICES ASSUME IInv, Next, NEW e \in Scan, scans_completed'[e] > scans_completed[e],
                      NEW i \in Indices
               PROVE  taken[e][i] = 1
    OBVIOUS
  <2>1. PlaceInv /\ PhaseType /\ ScanInv /\ scans_completed[e] \in Nat /\ e \in Exp
    BY DEF IInv, ScanInv, Exp
  <2>2. scans_completed' # scans_completed /\ scans_completed'[e] # scans_completed[e]
        /\ scans_completed'[e] # 0
    BY <2>1
  <2>3. PICK f \in Exp : Run(f)
    <3>1. ASSUME NEW f \in Exp, InitExperimentStart(f) PROVE FALSE
      BY <2>1, <2>2, <3>1 DEF InitExperimentStart, pointVars, ScanInv
    <3>2. ASSUME NEW f \in Exp, Retire(f) PROVE FALSE
      BY <2>1, <2>2, <3>2 DEF Retire
    <3>3. ASSUME NEW f \in Exp, ThreadStep(f), ~Retire(f) PROVE Run(f)
      BY <2>2, <3>3 DEF ThreadStep, DataPoint, Acquire, EndDataPoint, Continue, Pause, pointVars
    <3>4. ASSUME NEW f \in Exp, Schedule(f) PROVE FALSE
      BY <2>2, <3>1, <3>4
         DEF Schedule, Choose, Initialize, Activate, Preempt, Destroy, InitExperimentSwitch, pointVars
    <3>5. ~SetValue /\ ~Restore /\ ~UserStep
      BY <2>2 DEF SetValue, Restore, UserStep, Launch, Stop, Edit, EditNumScans, pointVars
    <3> QED
      BY <3>2, <3>3, <3>4, <3>5 DEF Next, ScanStep
  <2>4. f = e /\ current_index[e] = NumPoints
    BY <2>1, <2>2, <2>3 DEF Run, pointVars, ScanInv
  <2>5. Counted(e, NumPoints)
    BY <2>1, <2>3, <2>4, RunScan
  <2>6. PICK j \in Indices : indeces[e][j] = i
    <3>1. indeces[e] \in [Indices -> Indices]
      BY <2>1 DEF ScanInv
    <3>2. \A k, j \in Indices : indeces[e][k] = indeces[e][j] => k = j
      BY <2>1 DEF ScanInv
    <3> QED
      BY <3>1, <3>2, OrderIsOnto
  <2>7. j < NumPoints
    BY <2>6, Constants
  <2> QED
    BY <2>5, <2>6, <2>7 DEF Counted
<1> QED
  BY <1>1, SpecIInv, PTL DEF Spec, CompleteScans

-----------------------------------------------------------------------------
(* The loan. *)

\* Who borrows the parameter.
LEMMA Borrows ==
    /\ who = Nobody => Borrower = "nobody"
    /\ who \in Exp => Borrower \in {"scan", "servo"}
    /\ who \in Lock => Borrower = "servo"
    /\ Nobody \notin Exp /\ Lock \subseteq Exp
<1> QED
  BY ScansAssumption DEF Borrower, Exp

\* What getNonScanningValue() tells is the normal value unless the parameter is being
\* written, and then it is that or the value at hand.
LEMMA ToldIsHonest ==
    /\ Loan!Honest(value, Normal, NonScanningValue, pc = "set")
    /\ Loan!Honest(value, Normal, NonScanningValue, pc = "set")'
  BY DEF Loan!Honest, Normal, NonScanningValue

\* Setting the parameter in two steps keeps the normal value.
LEMMA SetKeepsNormal ==
    ASSUME pc # "set", NEW d, NEW places, SetScanOutput(d, places)
    PROVE  /\ pc' = "set" /\ value' = value /\ Normal' = Normal
           /\ then' = places /\ out' = d
           /\ d = Normal => bHasNonScanningOutput' /\ out' = nonScanningOutput'
<1> QED
  BY DEF SetScanOutput, Normal

\* The servos' default states stay equal to the normal value.
LEMMA KeepCenters ==
    ASSUME Agreed, Normal' = Normal,
           \A l \in Lock : phase'[l] \in Begun =>
              \/ phase[l] \in Begun /\ default_state'[l] = default_state[l]
              \/ default_state'[l] = Normal
    PROVE  \A l \in Lock : phase'[l] \in Begun => default_state'[l] = Normal'
<1> QED
  BY DEF Agreed

\* DefaultExperimentState puts back the normal value.
LEMMA DefaultReturns ==
    ASSUME pc # "set", NEW e \in Exp, NEW s \in Ends, DefaultExperimentState(e, s),
           phase[e] \in Begun
    PROVE  /\ pc' = "set" /\ value' = value /\ Normal' = Normal
           /\ Agreed /\ Head(then') \in {"paused", "retire"} =>
                 bHasNonScanningOutput' /\ out' = nonScanningOutput'
<1>1. CASE e \in Scan
  <2> DEFINE r == <<"restore">> \o s
  <2>1. Head(r) = "restore"
    BY Successors
  <2>2. SetScanOutput(default_state[e], r)
    BY <1>1 DEF DefaultExperimentState
  <2> HIDE DEF r
  <2> QED
    BY <2>1, <2>2, SetKeepsNormal
<1>2. CASE e \in Lock
  <2>1. SetScanOutput(default_state[e], s)
    BY <1>2, ScansAssumption DEF DefaultExperimentState
  <2>2. Agreed => default_state[e] = Normal
    BY <1>2 DEF Agreed
  <2> QED
    BY <2>1, <2>2, SetKeepsNormal
<1> QED
  BY <1>1, <1>2 DEF Exp

\* Steps that leave the parameter and its borrower alone.
LEMMA LoanStutters ==
    ASSUME UNCHANGED <<value, who, clashed>>, Normal' = Normal, pc # "set", pc' # "set"
    PROVE  [Loan!Next]_(Loan!vars)
<1>1. NonScanningValue' = NonScanningValue
  BY DEF NonScanningValue, Normal
<1>2. Borrower' = Borrower
  BY DEF Borrower
<1>3. (pc = "set")' = (pc = "set")
  OBVIOUS
<1> QED
  BY <1>1, <1>2, <1>3 DEF Loan!vars

\* Steps that begin to set it.
LEMMA LoanAnnounces ==
    ASSUME UNCHANGED <<value, who, clashed>>, who \in Exp, Normal' = Normal, pc # "set",
           pc' = "set"
    PROVE  Loan!Next
<1>1. Borrower # "nobody" /\ Borrower' = Borrower
  BY Borrows DEF Borrower
<1>2. Loan!Announce
  BY <1>1 DEF Loan!Announce
<1> QED
  BY <1>2, ToldIsHonest DEF Loan!Next

\* Steps that give the apparatus to an experiment.
LEMMA LoanLends ==
    ASSUME who = Nobody, NEW e \in Exp, who' = e, UNCHANGED <<value, clashed>>, Normal' = Normal
    PROVE  Loan!Next
<1>1. Borrower = "nobody" /\ Borrower' \in {"scan", "servo"}
  BY ScansAssumption DEF Borrower, Exp
<1>2. \E k \in {"scan", "servo"} : Loan!Lend(k)
  BY <1>1 DEF Loan!Lend
<1> QED
  BY <1>2, ToldIsHonest DEF Loan!Next

\* Steps that take it back.
LEMMA LoanReturns ==
    ASSUME PhaseType, LoanInv, PlaceInv, pc \in {"paused", "retire"}, who' = Nobody, pc' = "off",
           UNCHANGED sourceVars, ClashEnds
    PROVE  Loan!Next
<1>1. Borrower' = "nobody" /\ Borrower # "nobody"
  BY ScansAssumption DEF Borrower, PhaseType, PlaceInv, Exp
<1>2. Normal' = Normal /\ value' = value
  BY DEF Normal, sourceVars
<1>3. clashed' \in {clashed, FALSE} /\ (value = Normal \/ clashed')
  BY DEF LoanInv, Agreed, Normal, ClashEnds
<1>4. Loan!Return
  BY <1>1, <1>2, <1>3 DEF Loan!Return
<1> QED
  BY <1>4, ToldIsHonest DEF Loan!Next

\* Steps that set nothing.
LEMMA NothingSet ==
    ASSUME LoanInv, UNCHANGED <<sourceVars, clashed>>, pc # "set", pc' \notin {"set", "restore"},
           pc' \in {"off", "paused", "retire"} => pc \in {"off", "paused", "retire"},
           \A l \in Lock : phase'[l] \in Begun =>
              \/ phase[l] \in Begun /\ default_state'[l] = default_state[l]
              \/ ~clashed /\ Agreed => default_state'[l] = Normal
    PROVE  LoanInv' /\ Normal' = Normal
<1>1. Normal' = Normal
  BY DEF Normal, sourceVars
<1>2. ASSUME ~clashed PROVE Agreed'
  <2>1. Agreed
    BY <1>2 DEF LoanInv
  <2>2. \A l \in Lock : phase'[l] \in Begun => default_state'[l] = Normal'
    BY <1>1, <1>2, <2>1, KeepCenters
  <2> QED
    BY <2>1, <2>2 DEF Agreed, sourceVars
<1> QED
  BY <1>1, <1>2 DEF LoanInv

\* Steps that begin to set the parameter.
LEMMA SomethingSet ==
    ASSUME LoanInv, clashed' = clashed, pc' = "set", Normal' = Normal,
           ~clashed /\ Agreed /\ Head(then') \in {"paused", "retire"} =>
              bHasNonScanningOutput' /\ out' = nonScanningOutput',
           \A l \in Lock : phase'[l] \in Begun =>
              \/ phase[l] \in Begun /\ default_state'[l] = default_state[l]
              \/ ~clashed /\ Agreed => default_state'[l] = Normal
    PROVE  LoanInv'
<1>1. ASSUME ~clashed PROVE Agreed'
  <2>1. Agreed
    BY <1>1 DEF LoanInv
  <2>2. \A l \in Lock : phase'[l] \in Begun => default_state'[l] = Normal'
    BY <1>1, <2>1, KeepCenters
  <2> QED
    BY <1>1, <2>1, <2>2 DEF Agreed
<1> QED
  BY <1>1 DEF LoanInv

\* Every step is one of the loan.
LEMMA NextLoan ==
    ASSUME IInv, LoanInv, [Next]_vars
    PROVE  LoanInv' /\ [Loan!Next]_(Loan!vars)
<1> USE DEF GoTo
<1>i. PlaceInv /\ PhaseType /\ SourceInv /\ DefaultInv
  BY DEF IInv
<1>n. Nobody \notin Exp /\ Lock \subseteq Exp
  BY Borrows
<1>1. CASE SetValue
  <2>1. /\ pc = "set" /\ pc' = Head(then) /\ value' = out /\ who \in Exp
        /\ UNCHANGED <<bHasNonScanningOutput, nonScanningOutput, who, phase, default_state,
                       clashed>>
    BY <1>1, <1>i DEF SetValue, PlaceInv, PhaseType, runVars
  <2>2. Head(then) \in {"acquire", "next", "finished", "paused", "retire", "restore"}
    BY <1>i, <2>1, Successors DEF PlaceInv
  <2>3. Normal' = Normal
    BY <1>i, <2>1, <2>2 DEF Normal, SourceInv
  <2>4. ASSUME ~clashed PROVE Agreed'
    <3>1. Agreed
      BY <2>4 DEF LoanInv
    <3>2. \A l \in Lock : phase'[l] \in Begun => default_state'[l] = Normal'
      BY <2>1, <2>3, <3>1, KeepCenters
    <3> QED
      BY <1>i, <2>1, <2>2, <3>1, <3>2 DEF Agreed, SourceInv
  <2>5. LoanInv'
    BY <2>1, <2>4 DEF LoanInv
  <2>6. out \in Values
    BY <1>i, <2>1 DEF SourceInv
  <2>7. Borrower' = Borrower
    BY <2>1 DEF Borrower
  <2>8. Loan!Write
    BY <2>1, <2>2, <2>3, <2>6, <2>7 DEF Loan!Write
  <2> QED
    BY <2>5, <2>8, ToldIsHonest DEF Loan!Next
<1>2. CASE Restore
  <2>1. /\ pc = "restore" /\ SetScanOutput(nonScanningOutput, then)
        /\ UNCHANGED <<who, phase, default_state, clashed>> /\ who \in Exp
    BY <1>2, <1>i DEF Restore, runVars, PlaceInv, PhaseType
  <2>2. Agreed => Normal = nonScanningOutput
    BY <2>1 DEF Agreed, Normal
  <2>3. /\ pc' = "set" /\ value' = value /\ Normal' = Normal
        /\ Agreed => bHasNonScanningOutput' /\ out' = nonScanningOutput'
    BY <2>1, <2>2, SetKeepsNormal
  <2>4. LoanInv'
    BY <2>1, <2>3, SomethingSet
  <2> QED
    BY <2>1, <2>3, <2>4, LoanAnnounces
<1>3. ASSUME NEW e \in Exp, Run(e) \/ Continue(e)
      PROVE  LoanInv' /\ [Loan!Next]_(Loan!vars)
  <2>1. /\ UNCHANGED sourceVars /\ UNCHANGED <<phase, default_state, who, clashed>>
        /\ pc \in {"run", "slice", "idle"} /\ pc' \in {"point", "slice"}
    BY <1>3 DEF Run, Continue, runVars
  <2>2. LoanInv' /\ Normal' = Normal
    BY <2>1, NothingSet
  <2> QED
    BY <2>1, <2>2, LoanStutters DEF sourceVars
<1>4. ASSUME NEW e \in Exp, DataPoint(e) \/ EndDataPoint(e)
      PROVE  LoanInv' /\ [Loan!Next]_(Loan!vars)
  <2>1. /\ who = e /\ pc \in {"point", "next"} /\ UNCHANGED <<phase, default_state, who, clashed>>
        /\ phase[e] \in Begun
    BY <1>4, <1>i, <1>n DEF DataPoint, EndDataPoint, PlaceInv
  <2>2. CASE UNCHANGED sourceVars /\ pc' \in {"finished", "idle", "slice"}
    <3>1. LoanInv' /\ Normal' = Normal
      BY <2>1, <2>2, NothingSet
    <3> QED
      BY <2>1, <2>2, <3>1, LoanStutters DEF sourceVars
  <2>3. ASSUME pc' = "set", value' = value, Normal' = Normal,
               Agreed /\ Head(then') \in {"paused", "retire"} =>
                  bHasNonScanningOutput' /\ out' = nonScanningOutput'
        PROVE  LoanInv' /\ [Loan!Next]_(Loan!vars)
    <3>1. LoanInv'
      BY <2>1, <2>3, SomethingSet
    <3> QED
      BY <2>1, <2>3, <3>1, LoanAnnounces
  <2>4. CASE DefaultExperimentState(e, <<"finished">>)
    <3>1. <<"finished">> \in Ends
      BY Successors
    <3> QED
      BY <2>1, <2>3, <2>4, <3>1, DefaultReturns
  <2>5. CASE \E d : SetScanOutput(d, <<"acquire">>)
    <3>1. PICK d : SetScanOutput(d, <<"acquire">>)
      BY <2>5
    <3>2. Head(<<"acquire">>) = "acquire"
      BY Successors
    <3>3. /\ pc' = "set" /\ value' = value /\ Normal' = Normal /\ then' = <<"acquire">>
      BY <2>1, <3>1, SetKeepsNormal
    <3> QED
      BY <2>3, <3>2, <3>3
  <2> QED
    BY <1>4, <2>2, <2>4, <2>5 DEF DataPoint, EndDataPoint, FinishScan, sourceVars
<1>5. ASSUME NEW e \in Exp, Acquire(e)
      PROVE  LoanInv' /\ [Loan!Next]_(Loan!vars)
  <2>1. who = e /\ pc = "acquire" /\ UNCHANGED <<phase, who>>
    BY <1>5 DEF Acquire, runVars
  <2>2. CASE UNCHANGED sourceVars /\ pc' = "next" /\ UNCHANGED <<default_state, clashed>>
    <3>1. LoanInv' /\ Normal' = Normal
      BY <2>1, <2>2, NothingSet
    <3> QED
      BY <2>1, <2>2, <3>1, LoanStutters DEF sourceVars
  <2>3. CASE e \in Lock /\ \E c \in Centers : /\ default_state' = [default_state EXCEPT ![e] = c]
                                             /\ SetNonScanningValue(c, <<"next">>)
                                             /\ clashed' = (clashed \/ NotedElsewhere(e))
    <3>1. PICK c \in Centers : /\ default_state' = [default_state EXCEPT ![e] = c]
                               /\ nonScanningOutput' = c /\ value' = value
                               /\ pc' = "set" /\ then' = <<"next">>
                               /\ clashed' = (clashed \/ NotedElsewhere(e))
      BY <2>3 DEF SetNonScanningValue
    <3>2. Normal' = c /\ Head(then') = "next"
      BY <3>1, Successors DEF Normal
    <3>3. default_state'[e] = c
      BY <1>i, <3>1 DEF DefaultInv
    <3>4. ~clashed' => \A l \in Lock \ {e} : phase'[l] \notin Begun
      BY <2>1, <3>1 DEF NotedElsewhere
    <3>5. ~clashed' => Agreed'
      BY <3>1, <3>2, <3>3, <3>4 DEF Agreed
    <3>6. clashed' \in {clashed, TRUE} /\ clashed' \in BOOLEAN
      BY <3>1 DEF LoanInv
    <3>7. Borrower = "servo" /\ Borrower' = Borrower
      BY <2>1, <2>3, Borrows DEF Borrower
    <3>8. c \in Values
      BY Constants DEF Normals
    <3>9. Loan!Shift
      BY <2>1, <3>1, <3>2, <3>6, <3>7, <3>8 DEF Loan!Shift
    <3> QED
      BY <3>5, <3>6, <3>9, ToldIsHonest DEF Loan!Next, LoanInv
  <2> QED
    BY <1>5, <2>2, <2>3 DEF Acquire, AcquirePoint, AcquireSide
<1>6. ASSUME NEW e \in Exp, InitExperimentStart(e), who = Nobody
      PROVE  /\ default_state'[e] = value
             /\ \A f \in Exp \ {e} : default_state'[f] = default_state[f]
             /\ Agreed => Normal = value
             /\ pc = "off"
  BY <1>6, <1>i DEF InitExperimentStart, DefaultInv, Normal, Agreed, PlaceInv
<1>7. ASSUME NEW e \in Exp, Preempt(e) \/ Destroy(e)
      PROVE  LoanInv' /\ [Loan!Next]_(Loan!vars)
  <2>1. /\ who' = e /\ pc # "set" /\ clashed' = clashed
        /\ who = e \/ who = Nobody
    BY <1>7, <1>i DEF Preempt, Destroy, Free, PlaceInv
  <2>2. ASSUME pc' = "set", value' = value, Normal' = Normal, LoanInv'
        PROVE  LoanInv' /\ [Loan!Next]_(Loan!vars)
    BY <2>1, <2>2, LoanAnnounces, LoanLends
  <2>3. CASE /\ who = e \/ phase[e] = "paused"
             /\ UNCHANGED <<phase, default_state>>
             /\ \E s \in Ends : DefaultExperimentState(e, s)
    <3>1. phase[e] \in Begun
      BY <1>i, <1>n, <2>3 DEF PlaceInv, Begun
    <3>2. /\ pc' = "set" /\ value' = value /\ Normal' = Normal
          /\ Agreed /\ Head(then') \in {"paused", "retire"} =>
                bHasNonScanningOutput' /\ out' = nonScanningOutput'
      BY <2>1, <2>3, <3>1, DefaultReturns
    <3>3. LoanInv'
      BY <2>1, <2>3, <3>2, SomethingSet
    <3> QED
      BY <2>2, <3>2, <3>3
  <2>4. CASE /\ who = Nobody /\ InitExperimentStart(e)
             /\ Contract!Initialize(e) \/ Contract!InitializeAgain(e)
             /\ SetScanOutput(value, IF e \in Scan THEN <<"restore", "retire">> ELSE <<"retire">>)
    <3> DEFINE r == IF e \in Scan THEN <<"restore", "retire">> ELSE <<"retire">>
    <3>1. SetScanOutput(value, r)
      BY <2>4
    <3> HIDE DEF r
    <3>2. /\ pc' = "set" /\ value' = value /\ Normal' = Normal
          /\ Agreed => bHasNonScanningOutput' /\ out' = nonScanningOutput'
      BY <1>6, <2>1, <2>4, <3>1, SetKeepsNormal
    <3>3. \A f \in Exp \ {e} : phase'[f] = phase[f]
      BY <1>i, <2>4 DEF Contract!Initialize, Contract!InitializeAgain, Contract!Move, PhaseType
    <3>4. \A l \in Lock : phase'[l] \in Begun =>
             \/ phase[l] \in Begun /\ default_state'[l] = default_state[l]
             \/ ~clashed /\ Agreed => default_state'[l] = Normal
      BY <1>6, <1>n, <2>4, <3>3
    <3>5. LoanInv'
      BY <2>1, <3>2, <3>4, SomethingSet
    <3> QED
      BY <2>2, <3>2, <3>5
  <2> QED
    BY <1>7, <2>3, <2>4, Successors DEF Preempt, Destroy, Free, runVars
<1>8. ASSUME NEW e \in Exp, Activate(e)
      PROVE  LoanInv' /\ [Loan!Next]_(Loan!vars)
  <2>1. /\ who = Nobody /\ who' = e /\ pc = "off" /\ pc' = "run"
        /\ UNCHANGED <<sourceVars, default_state, clashed>>
        /\ phase' = [phase EXCEPT ![e] = "active"] /\ phase[e] \in {"started", "paused"}
    BY <1>8, <1>i DEF Activate, Free, Contract!Activate, Contract!Move, InitExperimentSwitch,
         PlaceInv
  <2>2. \A l \in Lock : phase'[l] \in Begun => phase[l] \in Begun
    BY <1>i, <1>n, <2>1 DEF PhaseType, Begun
  <2>3. LoanInv' /\ Normal' = Normal
    BY <2>1, <2>2, NothingSet
  <2> QED
    BY <2>1, <2>3, LoanLends DEF sourceVars
<1>9. ASSUME NEW e \in Exp, Pause(e) \/ Retire(e)
      PROVE  LoanInv' /\ [Loan!Next]_(Loan!vars)
  <2>1. /\ who = e /\ pc \in {"paused", "retire"} /\ UNCHANGED sourceVars
        /\ \/ pc' = "off" /\ who' = Nobody /\ ClashEnds
           \/ pc' = "retire" /\ who' = e /\ clashed' = clashed
    BY <1>9, <1>i, Successors DEF Pause, Retire, PlaceInv
  <2>2. \/ /\ phase[e] = "active" /\ phase' = [phase EXCEPT ![e] = "paused"]
           /\ UNCHANGED default_state
        \/ /\ phase' = [phase EXCEPT ![e] = "idle"]
           /\ default_state' = [default_state EXCEPT ![e] = 0]
    BY <1>9 DEF Pause, Retire, Contract!Pause, Contract!Retire, Contract!Move
  <2>3. \A l \in Lock : phase'[l] \in Begun =>
             phase[l] \in Begun /\ default_state'[l] = default_state[l]
    BY <1>i, <1>n, <2>2 DEF PhaseType, DefaultInv, Begun
  <2>4. CASE clashed' = clashed
    <3>1. LoanInv' /\ Normal' = Normal
      BY <2>1, <2>3, <2>4, NothingSet
    <3> QED
      BY <1>i, <2>1, <2>4, <3>1, LoanReturns, LoanStutters DEF sourceVars
  <2>5. CASE clashed' # clashed
    <3>1. /\ pc' = "off" /\ who' = Nobody /\ ClashEnds /\ clashed' = FALSE
          /\ bHasNonScanningOutput /\ \A l \in Lock : phase'[l] \notin Begun
      BY <2>1, <2>5 DEF ClashEnds, LoanInv
    <3>2. LoanInv'
      BY <2>1, <3>1 DEF LoanInv, Agreed, sourceVars
    <3> QED
      BY <1>i, <2>1, <3>1, <3>2, LoanReturns
  <2> QED
    BY <2>4, <2>5
<1>10. ASSUME UNCHANGED <<sourceVars, who, pc, then, out, clashed>>,
              \A l \in Lock : phase'[l] \in Begun =>
                 \/ phase[l] \in Begun /\ default_state'[l] = default_state[l]
                 \/ ~clashed /\ Agreed => default_state'[l] = Normal
       PROVE  LoanInv' /\ [Loan!Next]_(Loan!vars)
  <2>1. Normal' = Normal /\ NonScanningValue' = NonScanningValue /\ Borrower' = Borrower
    BY <1>10 DEF Normal, NonScanningValue, Borrower, sourceVars
  <2>2. ASSUME ~clashed PROVE Agreed'
    <3>1. Agreed
      BY <2>2 DEF LoanInv
    <3>2. \A l \in Lock : phase'[l] \in Begun => default_state'[l] = Normal'
      BY <1>10, <2>1, <2>2, <3>1, KeepCenters
    <3> QED
      BY <1>10, <3>1, <3>2 DEF Agreed, sourceVars
  <2>3. (pc = "set")' = (pc = "set")
    BY <1>10
  <2> QED
    BY <1>10, <2>1, <2>2, <2>3 DEF LoanInv, Loan!vars, sourceVars
<1>11. ASSUME NEW e \in Exp, Launch(e)
       PROVE  LoanInv' /\ [Loan!Next]_(Loan!vars)
  <2>1. UNCHANGED <<sourceVars, default_state, who, pc, then, out, clashed>>
    BY <1>11 DEF Launch, threadVars
  <2>2. \A l \in Lock : phase'[l] \in Begun => phase[l] \in Begun
    BY <1>11, <1>i, <1>n DEF Launch, Contract!Launch, Contract!Move, PhaseType, Begun
  <2> QED
    BY <1>10, <2>1, <2>2
<1>12. CASE \/ \E e \in Exp : Stop(e)
            \/ \E n \in ScanCounts : EditNumScans(n)
            \/ UNCHANGED vars
  <2>1. /\ UNCHANGED <<sourceVars, default_state, who, pc, then, out, clashed>>
        /\ phase' = phase
    BY <1>12 DEF Stop, EditNumScans, vars, runVars, threadVars
  <2> QED
    BY <1>10, <2>1
<1>13. ASSUME NEW v \in UserValues, Edit(v)
       PROVE  LoanInv' /\ [Loan!Next]_(Loan!vars)
  <2>1. /\ value' = v
        /\ clashed' = (clashed \/ (bHasNonScanningOutput /\ pc # "set" /\ NotedElsewhere(Nobody)))
        /\ UNCHANGED <<bHasNonScanningOutput, nonScanningOutput, phase, default_state, who, pc,
                       then, out>>
    BY <1>13 DEF Edit, runVars
  <2>2. clashed' \in {clashed, TRUE} /\ clashed' \in BOOLEAN
    BY <2>1 DEF LoanInv
  <2>3. CASE bHasNonScanningOutput /\ pc # "set"
    <3>1. Normal' = v
      BY <2>1, <2>3 DEF Normal
    <3>2. ASSUME ~clashed' PROVE Agreed'
      <4>1. Agreed /\ pc # "restore" /\ \A l \in Lock : phase[l] \notin Begun
        BY <1>n, <2>1, <2>3, <3>2 DEF LoanInv, NotedElsewhere
      <4> QED
        BY <2>1, <2>3, <4>1 DEF Agreed
    <3>3. Borrower' = Borrower /\ v \in Values
      BY <2>1, Constants DEF Borrower, Normals
    <3>4. Loan!Edit(v)
      BY <2>1, <2>2, <3>1, <3>3 DEF Loan!Edit
    <3> QED
      BY <2>2, <3>2, <3>3, <3>4, ToldIsHonest DEF Loan!Next, LoanInv
  <2>4. CASE ~(bHasNonScanningOutput /\ pc # "set")
    <3>1. Normal' = Normal /\ clashed' = clashed
      BY <2>1, <2>2, <2>4 DEF Normal, LoanInv
    <3>2. ASSUME ~clashed PROVE Agreed' /\ pc # "off"
      BY <2>1, <2>4, <3>1, <3>2 DEF LoanInv, Agreed
    <3>3. Borrower' = Borrower /\ v \in Values
      BY <2>1, Constants DEF Borrower, Normals
    <3>4. pc # "off" => Borrower # "nobody"
      BY <1>i, <1>n, Borrows DEF PlaceInv, PhaseType
    <3>5. Loan!Edit(v)
      BY <2>1, <3>1, <3>2, <3>3, <3>4 DEF Loan!Edit
    <3> QED
      BY <2>2, <3>1, <3>2, <3>3, <3>5, ToldIsHonest DEF Loan!Next, LoanInv
  <2> QED
    BY <2>3, <2>4
<1>14. ASSUME NEW e \in Exp, Initialize(e)
       PROVE  LoanInv' /\ [Loan!Next]_(Loan!vars)
  <2>1. /\ UNCHANGED <<sourceVars, who, pc, then, out, clashed>> /\ who = Nobody
        /\ InitExperimentStart(e) /\ \A f \in Exp \ {e} : phase'[f] = phase[f]
    BY <1>14, <1>i DEF Initialize, Free, threadVars, Contract!Initialize, Contract!Move, PhaseType
  <2>2. \A l \in Lock : phase'[l] \in Begun =>
           \/ phase[l] \in Begun /\ default_state'[l] = default_state[l]
           \/ ~clashed /\ Agreed => default_state'[l] = Normal
    BY <1>6, <1>n, <2>1
  <2> QED
    BY <1>10, <2>1, <2>2
<1> QED
  BY <1>1, <1>2, <1>3, <1>4, <1>5, <1>7, <1>8, <1>9, <1>11, <1>12, <1>13, <1>14
     DEF Next, ScanStep, ThreadStep, Schedule, Choose, UserStep

\* The program starts in both invariants and never leaves them.
LEMMA LoanSteps ==
    /\ Init => IInv /\ LoanInv /\ Loan!Init
    /\ IInv /\ LoanInv /\ [Next]_vars => IInv' /\ LoanInv' /\ [Loan!Next]_(Loan!vars)
<1>1. Init => IInv /\ LoanInv /\ Loan!Init
  <2> SUFFICES ASSUME Init PROVE IInv /\ LoanInv /\ Loan!Init
    OBVIOUS
  <2>1. /\ NonScanningValue = value /\ Normal = value /\ Borrower = "nobody" /\ value \in Values
        /\ pc # "set" /\ clashed = FALSE
    BY Constants, Borrows DEF Init, NonScanningValue, Normal, Normals
  <2>2. LoanInv
    BY Borrows DEF Init, LoanInv, Agreed, Begun
  <2> QED
    BY <2>1, <2>2, InitIInv DEF Loan!Init
<1>2. IInv /\ LoanInv /\ [Next]_vars => IInv' /\ LoanInv' /\ [Loan!Next]_(Loan!vars)
  BY NextLoan, NextPlace, NextSource, NextDefault, NextScan, NextServo DEF IInv
<1> QED
  BY <1>1, <1>2

\* The scans borrow the parameter as ScanSource.h promises, whatever the scheduler does, for
\* any number of scans and servos, whenever the user edits it: the value it has when nobody
\* scans it is never lost to a scan, and is there again when the parameter is returned,
\* unless an edit or a correction clashed with another note of it (ParameterLoan).
\* Code: SetScanOutput, setNonScanningValue, setDefaultValue and getNonScanningValue of
\* ScanSource, and the calls of DefaultExperimentState.
THEOREM LoanIsReturned == Spec => ImplementsLoan
  BY LoanSteps, PTL DEF Spec, ImplementsLoan, Loan!Spec

\* Type correctness.  Code: the parameter's values and the places of the scheduler
\* thread; a servo or a scan never sets a value that is not one of the program.
THEOREM TypeCorrect == Spec => []TypeOK
<1>1. IInv /\ LoanInv => TypeOK
  <2> SUFFICES ASSUME IInv, LoanInv PROVE TypeOK
    OBVIOUS
  <2> USE DEF IInv, LoanInv
  <2>1. then \in Places \cup Ends \cup AfterPause
    BY DEF PlaceInv, AfterPause
  <2>2. then \in Seq({"acquire", "next", "restore", "finished", "paused", "retire"})
    BY <2>1, PlacesAreSequences
  <2>3. /\ value \in Values /\ nonScanningOutput \in Values \cup {0}
        /\ out \in Values \cup {0} /\ found \in Values \cup {0}
        /\ bHasNonScanningOutput \in BOOLEAN
    BY Constants DEF SourceInv
  <2>4. default_state \in [Exp -> Values \cup {0}]
    BY Constants DEF DefaultInv, Normals
  <2> QED
    BY <2>2, <2>3, <2>4 DEF TypeOK, PhaseType, ScanInv, ServoInv, Begun
<1> QED
  BY <1>1, LoanSteps, PTL DEF Spec
=============================================================================
