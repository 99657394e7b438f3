------------------------ MODULE ScanSchedulerProofs ------------------------
(***************************************************************************)
(* The scheduler keeps its list, its current pointer and the apparatus in  *)
(* order, for any number of experiments and addresses, whatever the        *)
(* callbacks launch, throw or wait for.                                    *)
(***************************************************************************)
EXTENDS ScanScheduler, FiniteSetTheorems, TLAPS

-----------------------------------------------------------------------------
(* The vector operations. *)

\* Erase: the result is a sequence, one shorter.
LEMMA EraseType ==
    ASSUME NEW S, NEW s \in Seq(S), NEW i \in DOMAIN s
    PROVE  Erase(s, i) \in Seq(S) /\ Len(Erase(s, i)) = Len(s) - 1
<1>1. Len(s) \in Nat /\ Len(s) - 1 \in Nat /\ DOMAIN s = 1 .. Len(s)
  OBVIOUS
<1>2. \A j \in 1 .. Len(s) - 1 : (IF j < i THEN s[j] ELSE s[j + 1]) \in S
  BY <1>1
<1>3. Erase(s, i) \in [1 .. Len(s) - 1 -> S]
  BY <1>2 DEF Erase
<1>4. Erase(s, i) \in Seq(S)
  BY <1>1, <1>3
<1>5. Len(Erase(s, i)) = Len(s) - 1
  <2> DEFINE m == Len(Erase(s, i))
             n == Len(s) - 1
  <2>1. m \in Nat /\ n \in Nat
    BY <1>1, <1>4
  <2>2. \A j : j \in 1 .. m <=> j \in 1 .. n
    BY <1>3, <1>4
  <2> HIDE DEF m, n
  <2>3. m \in 1 .. m => m \in 1 .. n
    BY <2>2
  <2>4. n \in 1 .. n => n \in 1 .. m
    BY <2>2
  <2>5. m = n
    BY <2>1, <2>3, <2>4
  <2> QED
    BY <2>5 DEF m, n
<1> QED
  BY <1>4, <1>5

\* Erase takes away one occurrence: from a list without duplicates, the object itself.
LEMMA EraseElems ==
    ASSUME NEW S, NEW s \in Seq(S), NEW i \in DOMAIN s, NoDup(s)
    PROVE  NoDup(Erase(s, i)) /\ Elems(Erase(s, i)) = Elems(s) \ {s[i]}
<1> DEFINE t == Erase(s, i)
<1>1. DOMAIN s = 1 .. Len(s) /\ DOMAIN t = 1 .. Len(s) - 1 /\ Len(s) \in Nat /\ i \in 1 .. Len(s)
  BY EraseType DEF Erase
<1>2. \A j \in DOMAIN t : t[j] = IF j < i THEN s[j] ELSE s[j + 1]
  BY <1>1 DEF Erase
<1>3. \A j \in DOMAIN t : (IF j < i THEN j ELSE j + 1) \in (DOMAIN s) \ {i}
  BY <1>1
<1>4. NoDup(t)
  <2> SUFFICES ASSUME NEW j \in DOMAIN t, NEW k \in DOMAIN t, t[j] = t[k]
               PROVE  j = k
    BY DEF NoDup
  <2>1. (IF j < i THEN j ELSE j + 1) = (IF k < i THEN k ELSE k + 1)
    BY <1>1, <1>2, <1>3 DEF NoDup
  <2> QED
    BY <2>1, <1>1
<1>5. Elems(t) \subseteq Elems(s) \ {s[i]}
  <2> SUFFICES ASSUME NEW j \in DOMAIN t
               PROVE  t[j] \in Elems(s) \ {s[i]}
    BY DEF Elems
  <2> QED
    BY <1>1, <1>2, <1>3 DEF Elems, NoDup
<1>6. Elems(s) \ {s[i]} \subseteq Elems(t)
  <2> SUFFICES ASSUME NEW k \in DOMAIN s, s[k] # s[i]
               PROVE  s[k] \in Elems(t)
    BY DEF Elems
  <2>1. CASE k < i
    <3>1. k \in DOMAIN t /\ t[k] = s[k]
      BY <2>1, <1>1, <1>2
    <3> QED
      BY <3>1 DEF Elems
  <2>2. CASE k > i
    <3>1. k - 1 \in DOMAIN t /\ t[k - 1] = s[k]
      BY <2>2, <1>1, <1>2
    <3> QED
      BY <3>1 DEF Elems
  <2> QED
    BY <2>1, <2>2, <1>1
<1> QED
  BY <1>4, <1>5, <1>6

\* push_back adds one object.
LEMMA AppendElems ==
    ASSUME NEW S, NEW s \in Seq(S), NEW x \in S
    PROVE  /\ Append(s, x) \in Seq(S)
           /\ Elems(Append(s, x)) = Elems(s) \cup {x}
           /\ NoDup(s) /\ x \notin Elems(s) => NoDup(Append(s, x))
<1> DEFINE t == Append(s, x)
<1>1. /\ t \in Seq(S) /\ Len(s) \in Nat /\ DOMAIN s = 1 .. Len(s)
      /\ DOMAIN t = 1 .. Len(s) + 1
      /\ \A j \in DOMAIN s : t[j] = s[j]
      /\ t[Len(s) + 1] = x
  OBVIOUS
<1>2. Elems(t) = Elems(s) \cup {x}
  BY <1>1 DEF Elems
<1>3. NoDup(s) /\ x \notin Elems(s) => NoDup(t)
  BY <1>1 DEF Elems, NoDup
<1> QED
  BY <1>1, <1>2, <1>3

-----------------------------------------------------------------------------
(* The inductive invariant. *)

LoopPcs == {"head", "init", "initBody", "slice", "done", "stop", "next", "choose", "exit"}
SlicePcs == {"init", "initBody", "slice", "done", "stop"}
DestructorPcs == {"dinit", "dinitBody", "default", "finishRun"}

\* The list: its objects are distinct, allocated, not being destroyed, and each is the
\* one its experiment points to.
ListInv ==
    ~leftLoop =>
        /\ NoDup(list)
        /\ Elems(list) \subseteq live
        /\ doomed \notin Elems(list)
        /\ doomed # Nil => doomed \in live
        /\ \A r \in Elems(list) : exp[r] \in Exp /\ pRunObject[exp[r]] = r

\* The pointers of the scheduler thread, by where it is.
PcInv ==
    /\ pcS \in LoopPcs => ~leftLoop /\ doomed = Nil /\ (cur = Nil \/ cur \in Elems(list))
    /\ pcS \in SlicePcs => cur # Nil
    /\ pcS \in DestructorPcs => doomed \in RunObj /\ (~leftLoop => doomed = cur)
    /\ pcS \in {"deleteBack", "popBack", "stopped"} => leftLoop
    /\ IF pcS = "choose" THEN sized >= 1 ELSE sized = 0
    /\ leftLoop /\ pcS \in DestructorPcs \cup {"popBack"} => Len(list) > 0

\* The apparatus: who used it, by where the scheduler thread is.
ApparatusInv ==
    /\ dirty \subseteq {cur}
    /\ leftLoop => dirty = {}
    /\ pcS = "finishRun" => dirty = {}
    /\ pcS = "slice" /\ ~needInit => dirty = {cur}
    /\ pcS = "done" /\ ~finished[cur] => dirty = {cur}
    /\ pcS \in {"next", "choose"} /\ cur # Nil => dirty = {cur}
    /\ pcS = "head" /\ cur # Nil /\ ~needInit => dirty = {cur}

IInv == TypeOK /\ ListInv /\ PcInv /\ ApparatusInv

-----------------------------------------------------------------------------
(* It holds initially and every step preserves it. *)

\* The program starts in a good state.
LEMMA InitIInv == Init => IInv
<1> SUFFICES ASSUME Init PROVE IInv
  OBVIOUS
<1> USE SchedulerAssumption DEF Init
<1>1. TypeOK
  <2>1. list \in Seq(RunObj) /\ page \in Exp
    OBVIOUS
  <2>2. exp \in [RunObj -> Exp \cup {Nil}] /\ pRunObject \in [Exp -> RunObj \cup {Nil}]
    OBVIOUS
  <2>3. /\ finished \in [RunObj -> BOOLEAN] /\ started \in [RunObj -> BOOLEAN]
        /\ dt \in [RunObj -> Nat] /\ inits \in [RunObj -> Nat]
        /\ sized \in 0 .. Len(list)
    OBVIOUS
  <2>4. launches \in 0 .. MaxLaunches
    OBVIOUS
  <2> QED
    BY <2>1, <2>2, <2>3, <2>4 DEF TypeOK
<1>2. ListInv
  BY DEF ListInv, NoDup, Elems
<1>3. PcInv /\ ApparatusInv
  BY DEF PcInv, ApparatusInv, LoopPcs, SlicePcs, DestructorPcs
<1> QED
  BY <1>1, <1>2, <1>3 DEF IInv

\* new RunObject and push_back of an experiment that is not running.
LEMMA LaunchIInv ==
    ASSUME IInv, NEW e \in Exp, Launch(e), ~IsRunning(e), launches' \in 0 .. MaxLaunches,
           UNCHANGED <<locked, bStopLoop, pcS, loopVars, dirty, page, action, call>>,
           pcG' \in {"idle", "start", "finish", "update", "wait", "quit"},
           doomed # Nil => doomed \in live \/ leftLoop
    PROVE  IInv'
<1> USE SchedulerAssumption DEF loopVars
<1>1. PICK r \in RunObj \ live :
        /\ live' = live \cup {r}
        /\ exp' = [exp EXCEPT ![r] = e]
        /\ pRunObject' = [pRunObject EXCEPT ![e] = r]
        /\ finished' = [finished EXCEPT ![r] = FALSE]
        /\ started' = [started EXCEPT ![r] = FALSE]
        /\ dt' = [dt EXCEPT ![r] = Never]
        /\ inits' = [inits EXCEPT ![r] = 0]
        /\ list' = Append(list, r)
  BY DEF Launch
<1>2. posted' \in BOOLEAN
  BY DEF Launch, PostUpdateActions, IInv, TypeOK
<1>3. /\ list' \in Seq(RunObj)
      /\ Elems(list') = Elems(list) \cup {r}
      /\ NoDup(list) /\ r \notin Elems(list) => NoDup(list')
  BY <1>1, AppendElems DEF IInv, TypeOK
<1>4. TypeOK'
  BY <1>1, <1>2, <1>3 DEF IInv, TypeOK
<1>5. \A x \in Elems(list) : exp[x] # e
  BY DEF IsRunning, Elems
<1>6. ListInv'
  BY <1>1, <1>3, <1>5 DEF IInv, TypeOK, ListInv
<1>7. PcInv'
  BY <1>1, <1>3 DEF IInv, PcInv, LoopPcs, SlicePcs, DestructorPcs
<1>8. ApparatusInv'
  BY <1>1 DEF IInv, TypeOK, ListInv, PcInv, ApparatusInv, LoopPcs, SlicePcs
<1> QED
  BY <1>4, <1>6, <1>7, <1>8 DEF IInv

\* Every step of the two threads preserves the invariant.
LEMMA NextIInv == IInv /\ [Next]_vars => IInv'
<1> SUFFICES ASSUME IInv, [Next]_vars PROVE IInv'
  OBVIOUS
<1> USE DEF GoTo, loopVars, memVars, objVars, guiVars
<1>1. CASE LoopHead
  <2> USE <1>1 DEF LoopHead
  <2>5. dt' = dt \/ dt' = [dt EXCEPT ![cur] = 0]
    OBVIOUS
  <2>0. dt' \in [RunObj -> Nat]
    BY <2>5 DEF IInv, TypeOK
  <2>1. TypeOK'
    BY <2>0 DEF IInv, TypeOK, PcInv, SlicePcs
  <2>2. ListInv'
    BY DEF IInv, TypeOK, ListInv, PcInv, LoopPcs, DestructorPcs
  <2>3. PcInv'
    BY DEF IInv, TypeOK, ListInv, PcInv, LoopPcs, SlicePcs, DestructorPcs
  <2>4. ApparatusInv'
    BY DEF IInv, TypeOK, PcInv, ApparatusInv, LoopPcs, SlicePcs, DestructorPcs
  <2> QED
    BY <2>1, <2>2, <2>3, <2>4 DEF IInv
<1>2. CASE InitInSlice
  <2> USE <1>2 DEF InitInSlice, EnterInit
  <2>1. TypeOK'
    BY DEF IInv, TypeOK, PcInv, SlicePcs, DestructorPcs
  <2>2. ListInv'
    BY DEF IInv, TypeOK, ListInv, PcInv, LoopPcs, DestructorPcs
  <2>3. PcInv'
    BY DEF IInv, TypeOK, ListInv, PcInv, LoopPcs, SlicePcs, DestructorPcs
  <2>4. ApparatusInv'
    BY DEF IInv, TypeOK, PcInv, ApparatusInv, LoopPcs, SlicePcs, DestructorPcs
  <2> QED
    BY <2>1, <2>2, <2>3, <2>4 DEF IInv
<1>3. CASE LeaveInit
  <2> USE <1>3 DEF LeaveInit, Finish
  <2>c. dt' = dt \/ dt' = [dt EXCEPT ![cur] = 0]
    OBVIOUS
  <2>0. dt' \in [RunObj -> Nat]
    BY <2>c DEF IInv, TypeOK
  <2>a. finished' \in [RunObj -> BOOLEAN]
    BY DEF IInv, TypeOK
  <2>b. /\ needInit' \in BOOLEAN /\ call' \in {"none", "pending", "done"}
        /\ pcS' \in {"slice", "done"}
    BY DEF IInv, TypeOK
  <2>1. TypeOK'
    BY <2>0, <2>a, <2>b DEF IInv, TypeOK
  <2>2. ListInv'
    BY DEF IInv, TypeOK, ListInv, PcInv, LoopPcs, DestructorPcs
  <2>3. PcInv'
    BY DEF IInv, TypeOK, ListInv, PcInv, LoopPcs, SlicePcs, DestructorPcs
  <2>4. ApparatusInv'
    BY DEF IInv, TypeOK, PcInv, ApparatusInv, LoopPcs, SlicePcs, DestructorPcs
  <2> QED
    BY <2>1, <2>2, <2>3, <2>4 DEF IInv
<1>4. CASE RunOnce
  <2> USE <1>4 DEF RunOnce, TimePasses, Finish
  <2>0. dt' \in [RunObj -> Nat]
    BY DEF IInv, TypeOK
  <2>a. finished' \in [RunObj -> BOOLEAN]
    BY DEF IInv, TypeOK
  <2>b. /\ needInit' \in BOOLEAN /\ call' \in {"none", "pending", "done"}
        /\ pcS' \in {"slice", "done"}
    BY DEF IInv, TypeOK
  <2>c. dirty' \in SUBSET RunObj /\ started' \in [RunObj -> BOOLEAN]
    BY DEF IInv, TypeOK, PcInv, SlicePcs
  <2>1. TypeOK'
    BY <2>0, <2>a, <2>b, <2>c DEF IInv, TypeOK
  <2>2. ListInv'
    BY DEF IInv, TypeOK, ListInv, PcInv, LoopPcs, DestructorPcs
  <2>3. PcInv'
    BY DEF IInv, TypeOK, ListInv, PcInv, LoopPcs, SlicePcs, DestructorPcs
  <2>4. ApparatusInv'
    BY DEF IInv, TypeOK, PcInv, ApparatusInv, LoopPcs, SlicePcs, DestructorPcs
  <2> QED
    BY <2>1, <2>2, <2>3, <2>4 DEF IInv
<1>5. CASE SliceStopped
  <2> USE <1>5 DEF SliceStopped
  <2>1. TypeOK'
    BY DEF IInv, TypeOK, PcInv, SlicePcs, DestructorPcs
  <2>2. ListInv'
    BY DEF IInv, TypeOK, ListInv, PcInv, LoopPcs, DestructorPcs
  <2>3. PcInv'
    BY DEF IInv, TypeOK, ListInv, PcInv, LoopPcs, SlicePcs, DestructorPcs
  <2>4. ApparatusInv'
    BY DEF IInv, TypeOK, PcInv, ApparatusInv, LoopPcs, SlicePcs, DestructorPcs
  <2> QED
    BY <2>1, <2>2, <2>3, <2>4 DEF IInv
<1>6. CASE AfterSlice
  <2> USE <1>6 DEF AfterSlice
  <2>1. TypeOK'
    BY DEF IInv, TypeOK, PcInv, SlicePcs, DestructorPcs
  <2>2. ListInv'
    BY DEF IInv, TypeOK, ListInv, PcInv, LoopPcs, DestructorPcs
  <2>3. PcInv'
    BY DEF IInv, TypeOK, ListInv, PcInv, LoopPcs, SlicePcs, DestructorPcs
  <2>4. ApparatusInv'
    BY DEF IInv, TypeOK, PcInv, ApparatusInv, LoopPcs, SlicePcs, DestructorPcs
  <2> QED
    BY <2>1, <2>2, <2>3, <2>4 DEF IInv
<1>7. CASE InitInDestructor
  <2> USE <1>7 DEF InitInDestructor, EnterInit
  <2>1. TypeOK'
    BY DEF IInv, TypeOK, PcInv, SlicePcs, DestructorPcs
  <2>2. ListInv'
    BY DEF IInv, TypeOK, ListInv, PcInv, LoopPcs, DestructorPcs
  <2>3. PcInv'
    BY DEF IInv, TypeOK, ListInv, PcInv, LoopPcs, SlicePcs, DestructorPcs
  <2>4. ApparatusInv'
    BY DEF IInv, TypeOK, PcInv, ApparatusInv, LoopPcs, SlicePcs, DestructorPcs
  <2> QED
    BY <2>1, <2>2, <2>3, <2>4 DEF IInv
<1>8. CASE LeaveInitInDestructor
  <2> USE <1>8 DEF LeaveInitInDestructor
  <2>1. TypeOK'
    BY DEF IInv, TypeOK, PcInv, SlicePcs, DestructorPcs
  <2>2. ListInv'
    BY DEF IInv, TypeOK, ListInv, PcInv, LoopPcs, DestructorPcs
  <2>3. PcInv'
    BY DEF IInv, TypeOK, ListInv, PcInv, LoopPcs, SlicePcs, DestructorPcs
  <2>4. ApparatusInv'
    BY DEF IInv, TypeOK, PcInv, ApparatusInv, LoopPcs, SlicePcs, DestructorPcs
  <2> QED
    BY <2>1, <2>2, <2>3, <2>4 DEF IInv
<1>9. CASE EnterFinishRun
  <2> USE <1>9 DEF EnterFinishRun, DefaultExperimentState
  <2>1. TypeOK'
    BY DEF IInv, TypeOK, PcInv, SlicePcs, DestructorPcs
  <2>2. ListInv'
    BY DEF IInv, TypeOK, ListInv, PcInv, LoopPcs, DestructorPcs
  <2>3. PcInv'
    BY DEF IInv, TypeOK, ListInv, PcInv, LoopPcs, SlicePcs, DestructorPcs
  <2>4. ApparatusInv'
    BY DEF IInv, TypeOK, PcInv, ApparatusInv, LoopPcs, SlicePcs, DestructorPcs
  <2> QED
    BY <2>1, <2>2, <2>3, <2>4 DEF IInv
<1>10. CASE LeaveDestructor
  <2> USE <1>10 DEF LeaveDestructor, StopReturns, PostUpdateActions
  <2>1. TypeOK'
    BY DEF IInv, TypeOK, PcInv, SlicePcs, DestructorPcs
  <2>2. ListInv'
    <3> SUFFICES ASSUME ~leftLoop PROVE ListInv'
      BY DEF ListInv
    <3>1. /\ NoDup(list) /\ Elems(list) \subseteq live \ {doomed}
          /\ \A r \in Elems(list) : exp[r] \in Exp /\ pRunObject[exp[r]] = r
      BY DEF IInv, ListInv
    <3>2. \A r \in Elems(list) : exp'[r] = exp[r]
      BY <3>1 DEF IInv, TypeOK
    <3>3. doomed' = Nil /\ Nil \notin Elems(list)
      BY <3>1, SchedulerAssumption DEF IInv, TypeOK
    <3>4. list' = list /\ live' = live \ {doomed} /\ pRunObject' = pRunObject
      OBVIOUS
    <3> QED
      BY <3>1, <3>2, <3>3, <3>4 DEF ListInv, NoDup, Elems
  <2>3. PcInv'
    BY DEF IInv, TypeOK, ListInv, PcInv, LoopPcs, SlicePcs, DestructorPcs
  <2>4. ApparatusInv'
    BY DEF IInv, TypeOK, PcInv, ApparatusInv, LoopPcs, SlicePcs, DestructorPcs
  <2> QED
    BY <2>1, <2>2, <2>3, <2>4 DEF IInv
<1>11. CASE NextExperiment
  <2>1. /\ pcS = "next" /\ pcS' \in {"head", "choose"}
        /\ UNCHANGED <<list, locked, bStopLoop, doomed, leftLoop, memVars, objVars, guiVars,
                       posted, call, launches>>
    BY <1>11 DEF NextExperiment
  <2>2. list = <<>> => cur = Nil
    BY <2>1 DEF IInv, PcInv, LoopPcs, Elems
  <2>3. /\ UNCHANGED <<cur, dirty>> /\ (needInit' = needInit \/ needInit' = FALSE)
        /\ IF pcS' = "choose" THEN sized' = Len(list) /\ list # <<>> ELSE sized' = sized
    BY <1>11, <2>2 DEF NextExperiment, Switch
  <2>4. sized' \in 0 .. Len(list) /\ (pcS' = "choose" => sized' >= 1)
    BY <2>3 DEF IInv, TypeOK
  <2>a. needInit' \in BOOLEAN /\ sized' \in 0 .. Len(list')
    BY <2>1, <2>3, <2>4 DEF IInv, TypeOK
  <2>5. TypeOK'
    BY <2>1, <2>3, <2>a DEF IInv, TypeOK
  <2>6. ListInv'
    BY <2>1 DEF IInv, ListInv
  <2>7. PcInv'
    BY <2>1, <2>3, <2>4 DEF IInv, PcInv, LoopPcs, SlicePcs, DestructorPcs
  <2>8. ApparatusInv'
    BY <2>1, <2>3 DEF IInv, PcInv, ApparatusInv, LoopPcs
  <2> QED
    BY <2>5, <2>6, <2>7, <2>8 DEF IInv
<1>22. CASE ChooseNext
  <2>1. /\ pcS = "choose" /\ pcS' \in {"head", "crashed"} /\ sized' = 0
        /\ UNCHANGED <<list, locked, bStopLoop, doomed, leftLoop, memVars, objVars, guiVars,
                       posted, call, launches>>
    BY <1>22 DEF ChooseNext
  <2>2. \A i \in 1 .. sized : list[i] \in Elems(list) /\ list[i] # Nil
    BY SchedulerAssumption DEF IInv, TypeOK, Elems
  <2>3. \/ UNCHANGED <<cur, dirty>> /\ (needInit' = needInit \/ needInit' = FALSE)
        \/ cur' \in Elems(list) /\ needInit' = TRUE /\ dirty' = dirty \ {cur}
    BY <1>22, <2>2 DEF ChooseNext, Switch, DefaultExperimentState
  <2>4. cur' \in RunObj \cup {Nil}
    BY <2>3 DEF IInv, TypeOK, Elems
  <2>a. needInit' \in BOOLEAN
    BY <2>3 DEF IInv, TypeOK
  <2>b. sized' \in 0 .. Len(list') /\ dirty' \in SUBSET RunObj
    BY <2>1, <2>3 DEF IInv, TypeOK
  <2>5. TypeOK'
    BY <2>1, <2>4, <2>a, <2>b DEF IInv, TypeOK
  <2>6. ListInv'
    BY <2>1 DEF IInv, ListInv
  <2>7. PcInv'
    BY <2>1, <2>3 DEF IInv, PcInv, LoopPcs, SlicePcs, DestructorPcs
  <2>8. ApparatusInv'
    BY <2>1, <2>3 DEF IInv, PcInv, ApparatusInv, LoopPcs
  <2> QED
    BY <2>5, <2>6, <2>7, <2>8 DEF IInv
<1>12. CASE ExitLoop
  <2> USE <1>12 DEF ExitLoop, DefaultExperimentState
  <2>1. TypeOK'
    BY DEF IInv, TypeOK, PcInv, SlicePcs, DestructorPcs
  <2>2. ListInv'
    BY DEF IInv, TypeOK, ListInv, PcInv, LoopPcs, DestructorPcs
  <2>3. PcInv'
    BY DEF IInv, TypeOK, ListInv, PcInv, LoopPcs, SlicePcs, DestructorPcs
  <2>4. ApparatusInv'
    BY DEF IInv, TypeOK, PcInv, ApparatusInv, LoopPcs, SlicePcs, DestructorPcs
  <2> QED
    BY <2>1, <2>2, <2>3, <2>4 DEF IInv
<1>13. CASE DeleteBack
  <2> USE <1>13 DEF DeleteBack
  <2>1. TypeOK'
    BY DEF IInv, TypeOK, PcInv, SlicePcs, DestructorPcs
  <2>2. ListInv'
    BY DEF IInv, TypeOK, ListInv, PcInv, LoopPcs, DestructorPcs
  <2>3. PcInv'
    BY DEF IInv, TypeOK, ListInv, PcInv, LoopPcs, SlicePcs, DestructorPcs
  <2>4. ApparatusInv'
    BY DEF IInv, TypeOK, PcInv, ApparatusInv, LoopPcs, SlicePcs, DestructorPcs
  <2> QED
    BY <2>1, <2>2, <2>3, <2>4 DEF IInv
<1>14. CASE ThreadEnds
  <2> USE <1>14 DEF ThreadEnds
  <2>1. TypeOK'
    BY DEF IInv, TypeOK, PcInv, SlicePcs, DestructorPcs
  <2>2. ListInv'
    BY DEF IInv, TypeOK, ListInv, PcInv, LoopPcs, DestructorPcs
  <2>3. PcInv'
    BY DEF IInv, TypeOK, ListInv, PcInv, LoopPcs, SlicePcs, DestructorPcs
  <2>4. ApparatusInv'
    BY DEF IInv, TypeOK, PcInv, ApparatusInv, LoopPcs, SlicePcs, DestructorPcs
  <2> QED
    BY <2>1, <2>2, <2>3, <2>4 DEF IInv
<1>15. CASE StopExperiment
  <2> USE <1>15 DEF StopExperiment
  <2>1. PICK i \in DOMAIN list : list[i] = cur /\ list' = Erase(list, i)
    BY DEF EraseCurrent, IsFirst
  <2>2. list' \in Seq(RunObj)
    BY <2>1, EraseType DEF IInv, TypeOK
  <2>3. NoDup(list') /\ Elems(list') = Elems(list) \ {cur}
    BY <2>1, EraseElems DEF IInv, TypeOK, ListInv, PcInv, LoopPcs
  <2>a. sized' \in 0 .. Len(list')
    BY <2>2 DEF IInv, PcInv
  <2>4. TypeOK'
    BY <2>2, <2>a DEF IInv, TypeOK
  <2>5. ListInv'
    BY <2>3 DEF IInv, TypeOK, ListInv, PcInv, LoopPcs, SlicePcs
  <2>6. PcInv'
    BY <2>3 DEF IInv, TypeOK, ListInv, PcInv, LoopPcs, SlicePcs, DestructorPcs
  <2>7. ApparatusInv'
    BY DEF IInv, PcInv, ApparatusInv, LoopPcs
  <2> QED
    BY <2>4, <2>5, <2>6, <2>7 DEF IInv
<1>16. CASE PopBack
  <2> USE <1>16 DEF PopBack
  <2>0. Len(list) \in DOMAIN list
    BY DEF IInv, TypeOK, PcInv
  <2>a. list' \in Seq(RunObj)
    BY <2>0, EraseType DEF IInv, TypeOK
  <2>b. sized' \in 0 .. Len(list')
    BY <2>a DEF IInv, PcInv
  <2>1. TypeOK'
    BY <2>a, <2>b DEF IInv, TypeOK
  <2>2. ListInv' /\ PcInv' /\ ApparatusInv'
    BY DEF IInv, ListInv, PcInv, ApparatusInv, LoopPcs, SlicePcs, DestructorPcs
  <2> QED
    BY <2>1, <2>2 DEF IInv
<1>17. ASSUME NEW e \in Exp, CallbackLaunches(e)
      PROVE  IInv'
  <2>1. /\ Launch(e) /\ ~IsRunning(e)
        /\ UNCHANGED <<locked, bStopLoop, pcS, loopVars, dirty, guiVars, call>>
    BY <1>17 DEF CallbackLaunches
  <2>2. launches' \in 0 .. MaxLaunches
    BY <1>17, SchedulerAssumption DEF CallbackLaunches, CountLaunch, IInv, TypeOK
  <2>3. doomed # Nil => doomed \in live \/ leftLoop
    BY DEF IInv, ListInv
  <2>4. pcG' \in {"idle", "start", "finish", "update", "wait", "quit"}
    BY <2>1 DEF IInv, TypeOK
  <2> QED
    BY <2>1, <2>2, <2>3, <2>4, LaunchIInv
<1>18. CASE GuiStart
  <2>1. CASE IsRunning(page)
    BY <1>18, <2>1 DEF GuiStart, schedState, IInv, TypeOK, ListInv, PcInv, ApparatusInv,
                      LoopPcs, SlicePcs, DestructorPcs
  <2>2. CASE ~IsRunning(page)
    BY <1>18, <2>2, LaunchIInv DEF GuiStart, schedState, IInv, TypeOK, ListInv
  <2> QED
    BY <2>1, <2>2
<1>19. CASE GuiFinish
  <2> USE <1>19 DEF GuiFinish, Finish, schedState
  <2>0. finished' \in [RunObj -> BOOLEAN]
    BY DEF IInv, TypeOK
  <2>1. TypeOK'
    BY <2>0 DEF IInv, TypeOK
  <2>2. ListInv'
    BY DEF IInv, TypeOK, ListInv, PcInv, LoopPcs, DestructorPcs
  <2>3. PcInv'
    BY DEF IInv, TypeOK, ListInv, PcInv, LoopPcs, SlicePcs, DestructorPcs
  <2>4. ApparatusInv'
    BY DEF IInv, TypeOK, PcInv, ApparatusInv, LoopPcs, SlicePcs, DestructorPcs
  <2> QED
    BY <2>1, <2>2, <2>3, <2>4 DEF IInv
<1>20. CASE ClickRun \/ ClickStop \/ CloseWindow \/ DeliverPosted \/ UpdateButtons
         \/ ServeCall \/ Quit \/ \E e \in Exp : SelectPage(e)
  <2>1. UNCHANGED <<schedState, list, memVars, objVars>>
    BY <1>20 DEF ClickRun, ClickStop, CloseWindow, DeliverPosted, UpdateButtons, ServeCall,
                Quit, SelectPage
  <2>2. /\ bStopLoop' \in BOOLEAN /\ posted' \in BOOLEAN
        /\ call' \in {"none", "pending", "done"} /\ page' \in Exp
        /\ action' \in {"RUN", "STOP"}
        /\ pcG' \in {"idle", "start", "finish", "update", "wait", "quit"}
    BY <1>20 DEF ClickRun, ClickStop, CloseWindow, DeliverPosted, UpdateButtons, ServeCall,
                Quit, SelectPage, IInv, TypeOK
  <2>3. launches' \in 0 .. MaxLaunches
    BY <1>20, SchedulerAssumption
       DEF ClickRun, ClickStop, CloseWindow, DeliverPosted, UpdateButtons, ServeCall,
           Quit, SelectPage, CountLaunch, IInv, TypeOK
  <2> QED
    BY <2>1, <2>2, <2>3 DEF schedState, IInv, TypeOK, ListInv, PcInv, ApparatusInv, LoopPcs,
                            SlicePcs, DestructorPcs
<1>21. CASE UNCHANGED vars
  BY <1>21 DEF vars, IInv, TypeOK, ListInv, PcInv, ApparatusInv, LoopPcs, SlicePcs,
              DestructorPcs
<1> QED
  BY <1>1, <1>2, <1>3, <1>4, <1>5, <1>6, <1>7, <1>8, <1>9, <1>10, <1>11, <1>12, <1>13, <1>14, <1>15, <1>16, <1>17, <1>18, <1>19, <1>20, <1>21,
     <1>22
     DEF Next, SchedulerStep, UserStep, GuiStep, Over

\* The invariant holds in every behaviour.
THEOREM SpecIInv == Spec => []IInv
<1> QED
  BY InitIInv, NextIInv, PTL DEF Spec

\* Type correctness.
THEOREM TypeCorrect == Spec => []TypeOK
<1>1. IInv => TypeOK
  BY DEF IInv
<1> QED
  BY <1>1, SpecIInv, PTL

\* The list never holds a dangling pointer while the loop runs.
THEOREM ListedLive == Spec => []ListedAreLive
<1>1. IInv => ListedAreLive
  BY DEF IInv, ListInv, ListedAreLive
<1> QED
  BY <1>1, SpecIInv, PTL

\* An experiment never runs twice at the same time, and STOP reaches the running one.
THEOREM OneRun == Spec => []OneRunPerExperiment
<1>1. IInv => OneRunPerExperiment
  BY DEF IInv, ListInv, NoDup, Elems, OneRunPerExperiment
<1> QED
  BY <1>1, SpecIInv, PTL

\* pCurrentExp is never dereferenced after its object was deleted, and the assertion of
\* StopExperiment cannot fail.
THEOREM CurrentValid == Spec => []CurrentIsListed
<1>1. IInv => CurrentIsListed
  BY DEF IInv, PcInv, LoopPcs, SlicePcs, CurrentIsListed
<1> QED
  BY <1>1, SpecIInv, PTL

\* No experiment runs on an apparatus another one left in its own state.
THEOREM HandedOver == Spec => []ApparatusHandedOver
<1>1. IInv => ApparatusHandedOver
  BY DEF IInv, ApparatusInv, ApparatusHandedOver
<1> QED
  BY <1>1, SpecIInv, PTL
-----------------------------------------------------------------------------
(* The RUN and STOP buttons.  Everything that changes what runs posts an       *)
(* update, holds the lock until it has, or happens after bStopLoop was set;    *)
(* that the loop is only left then is the part the property does not say.      *)

LeftWhenStopped == leftLoop \/ pcS = "exit" => bStopLoop

ButtonInv == LeftWhenStopped /\ ButtonsAreCurrent

\* Launch posts an update unless the program is closing.
LEMMA LaunchPosts ==
    ASSUME NEW e, Launch(e), ButtonInv, UNCHANGED <<bStopLoop, pcS, leftLoop>>, posted \in BOOLEAN
    PROVE  ButtonInv'
  BY DEF Launch, PostUpdateActions, ButtonInv, LeftWhenStopped, ButtonsAreCurrent

\* A step that leaves the list and what the buttons show alone.
LEMMA ButtonsUntouched ==
    ASSUME ButtonsAreCurrent, locked' \/ ~locked, bStopLoop' \/ ~bStopLoop,
           UNCHANGED <<list, exp, pcG, posted, action, page>>
    PROVE  ButtonsAreCurrent'
  BY DEF ButtonsAreCurrent, IsRunning

\* Every step preserves it.
LEMMA ButtonStep == IInv /\ ButtonInv /\ [Next]_vars => ButtonInv'
<1> SUFFICES ASSUME IInv, ButtonInv, [Next]_vars PROVE ButtonInv'
  OBVIOUS
<1> USE DEF GoTo, loopVars, memVars, objVars, guiVars
<1>0. posted \in BOOLEAN /\ bStopLoop \in BOOLEAN /\ locked \in BOOLEAN
  BY DEF IInv, TypeOK
<1>1. CASE \/ LoopHead \/ InitInSlice \/ LeaveInit \/ RunOnce \/ SliceStopped \/ AfterSlice
           \/ InitInDestructor \/ LeaveInitInDestructor \/ EnterFinishRun \/ NextExperiment
           \/ ChooseNext \/ ExitLoop \/ DeleteBack
  <2>1. /\ UNCHANGED <<list, exp, pcG, posted, action, page, bStopLoop>>
        /\ locked' \/ ~locked
    BY <1>1, <1>0
       DEF LoopHead, InitInSlice, EnterInit, LeaveInit, RunOnce, SliceStopped, AfterSlice,
           InitInDestructor, LeaveInitInDestructor, EnterFinishRun, NextExperiment,
           ChooseNext, ExitLoop, DeleteBack
  <2>2. leftLoop' \/ pcS' = "exit" => bStopLoop
    BY <1>1
       DEF LoopHead, InitInSlice, EnterInit, LeaveInit, RunOnce, SliceStopped, AfterSlice,
           InitInDestructor, LeaveInitInDestructor, EnterFinishRun, NextExperiment,
           ChooseNext, ExitLoop, DeleteBack, ButtonInv, LeftWhenStopped
  <2> QED
    BY <1>0, <2>1, <2>2, ButtonsUntouched DEF ButtonInv, LeftWhenStopped
<1>2. CASE StopExperiment
  BY <1>2 DEF StopExperiment, ButtonInv, LeftWhenStopped, ButtonsAreCurrent
<1>3. CASE LeaveDestructor
  BY <1>3, <1>0 DEF LeaveDestructor, StopReturns, PostUpdateActions, ButtonInv, LeftWhenStopped,
                    ButtonsAreCurrent
<1>4. CASE PopBack \/ ThreadEnds
  <2>1. leftLoop /\ UNCHANGED <<leftLoop, bStopLoop>>
    BY <1>4 DEF PopBack, ThreadEnds, IInv, PcInv
  <2> QED
    BY <2>1 DEF ButtonInv, LeftWhenStopped, ButtonsAreCurrent
<1>5. CASE \E e \in Exp : CallbackLaunches(e)
  BY <1>0, <1>5, LaunchPosts DEF CallbackLaunches
<1>6. CASE GuiStart \/ UpdateButtons
  BY <1>6 DEF GuiStart, UpdateButtons, schedState, ButtonInv, LeftWhenStopped,
              ButtonsAreCurrent, IsRunning
<1>7. CASE GuiFinish \/ DeliverPosted \/ ClickRun \/ ClickStop \/ CloseWindow
           \/ \E e \in Exp : SelectPage(e)
  BY <1>7 DEF GuiFinish, DeliverPosted, ClickRun, ClickStop, CloseWindow, SelectPage,
              schedState, ButtonInv, LeftWhenStopped, ButtonsAreCurrent
<1>8. CASE ServeCall \/ Quit
  BY <1>8 DEF ServeCall, Quit, schedState, ButtonInv, LeftWhenStopped, ButtonsAreCurrent,
              IsRunning
<1>9. CASE UNCHANGED vars
  BY <1>9 DEF vars, ButtonInv, LeftWhenStopped, ButtonsAreCurrent, IsRunning
<1> QED
  BY <1>1, <1>2, <1>3, <1>4, <1>5, <1>6, <1>7, <1>8, <1>9
     DEF Next, SchedulerStep, UserStep, GuiStep, Over

\* An idle user interface shows STOP exactly while the experiment of its page runs.
THEOREM ButtonsTellTheTruth == Spec => []ButtonsAreCurrent
<1>1. Init => ButtonInv
  BY DEF Init, ButtonInv, LeftWhenStopped, ButtonsAreCurrent, IsRunning
<1>2. ButtonInv => ButtonsAreCurrent
  BY DEF ButtonInv
<1> QED
  BY <1>1, <1>2, SpecIInv, ButtonStep, PTL DEF Spec

-----------------------------------------------------------------------------
(* Waiting.  What bounds it is a counting argument about the last t units of   *)
(* time, for every t for which an object r with quotient at least t waits: an  *)
(* object that is chosen meanwhile has not run for t itself, so each slice of  *)
(* that time belongs to another object, listed (RanWithin) or already removed  *)
(* (Removed), but for the one that was under way when it began.                *)

\* A click of RUN that has been counted and not yet executed.
Asked == IF pcG = "start" THEN 1 ELSE 0

\* Objects that were launched and are not listed any more, or that never will be.
Removed == launches - Asked - Cardinality(Elems(list))

Weight(r) == 1 + Priority[exp[r]]

\* Other objects that began a slice in the last t.
RanWithin(r, t) == {q \in Elems(list) \ {r} : dt[q] < t}

\* What the slice under way may still take, if it is one of those.
RestOfSlice(r, t) ==
    IF pcS = "slice" /\ r # cur /\ dt[cur] < t THEN MaxSlice - dt[cur] ELSE 0

\* The current object was chosen and has not yet begun its slice.
Chosen == cur # Nil /\ (pcS \in {"init", "initBody"} \/ (pcS = "head" /\ ~bStopLoop))

CountInv == ~leftLoop => IsFiniteSet(Elems(list)) /\ Removed \in Nat
SliceInv == pcS = "slice" => dt[cur] < MaxSlice

\* Each slice of the last t was another object's.
ServedInv ==
    ~leftLoop => \A r \in Elems(list), t \in Nat :
        dt[r] # Never /\ Weight(r) * t <= dt[r]
            => t + RestOfSlice(r, t)
                   <= MaxSlice * (Cardinality(RanWithin(r, t)) + Removed + 1)

\* What was appended to the list since priorities was sized never ran.
SizedInv ==
    pcS = "choose" => \A i \in DOMAIN list : i > sized => dt[list[i]] = Never

\* The quotient of the chosen object is the largest.
ChosenInv ==
    Chosen => \A r \in Elems(list) \ {cur} :
                 dt[r] # Never => dt[r] * Weight(cur) <= dt[cur] * Weight(r)

\* An object for which another one was chosen has waited for less than Due, and since then
\* only for that slice.
Due(r) == Weight(r) * ((launches - 1) * MaxSlice + 1)
SinceChoice(r) ==
    IF r # cur /\ Chosen THEN 0
    ELSE IF r # cur /\ pcS = "slice" THEN dt[cur]
    ELSE MaxSlice
DueInv ==
    ~leftLoop => \A r \in Elems(list) : dt[r] # Never => dt[r] < Due(r) + SinceChoice(r)

WaitInv == CountInv /\ SliceInv /\ ServedInv /\ ChosenInv /\ DueInv

\* Multiplication is monotonic.
LEMMA Monotonic ==
    ASSUME NEW a \in Int, NEW b \in Int, NEW c \in Nat, a <= b
    PROVE  c * a <= c * b /\ a * c <= b * c
<1>1. PICK d \in Nat : b = a + d
  <2>1. b - a \in Nat /\ b = a + (b - a)
    OBVIOUS
  <2> QED
    BY <2>1
<1>2. c * b = c * a + c * d /\ c * d \in Nat
  BY <1>1
<1>3. c * a <= c * b
  BY <1>2
<1> QED
  BY <1>3

\* A quotient that is not smaller belongs to an object that has not run for t.
LEMMA ChosenHasWaited ==
    ASSUME NEW w \in Nat, NEW v \in Nat, w >= 1, v >= 1, NEW d \in Nat, NEW c \in Nat,
           NEW t \in Nat, w * t <= d, d * v <= c * w
    PROVE  t <= c
<1>1. d <= d * v
  BY Monotonic
<1>2. w * t <= c * w
  BY <1>1
<1>3. SUFFICES ASSUME t >= c + 1 PROVE FALSE
  OBVIOUS
<1>4. w * (c + 1) <= w * t
  BY <1>3, Monotonic
<1>5. w * (c + 1) = c * w + w
  OBVIOUS
<1> QED
  BY <1>2, <1>4, <1>5

\* What the other conjuncts say of a listed object.
LEMMA WaitTypes ==
    ASSUME IInv, CountInv, ~leftLoop, NEW r \in Elems(list), NEW t \in Nat
    PROVE  /\ r \in RunObj /\ r \in live /\ dt[r] \in Nat /\ launches \in Nat
           /\ Weight(r) \in Nat /\ Weight(r) >= 1
           /\ IsFiniteSet(RanWithin(r, t)) /\ Cardinality(RanWithin(r, t)) \in Nat
           /\ IsFiniteSet(Elems(list)) /\ Cardinality(Elems(list)) \in Nat
           /\ Removed \in Nat /\ MaxSlice \in Nat /\ MaxSlice >= 1
<1>1. r \in RunObj /\ exp[r] \in Exp /\ dt[r] \in Nat /\ r \in live
  BY DEF IInv, TypeOK, ListInv, Elems
<1>2. Weight(r) \in Nat /\ Weight(r) >= 1
  BY <1>1, SchedulerAssumption DEF Weight
<1>3. IsFiniteSet(Elems(list)) /\ Removed \in Nat
  BY DEF CountInv
<1>4. RanWithin(r, t) \in SUBSET Elems(list)
  BY DEF RanWithin
<1>5. IsFiniteSet(RanWithin(r, t))
  BY <1>3, <1>4, FS_Subset
<1>6. launches \in Nat
  BY SchedulerAssumption DEF IInv, TypeOK
<1>7. MaxSlice \in Nat /\ MaxSlice >= 1
  BY SchedulerAssumption
<1> QED
  BY <1>1, <1>2, <1>3, <1>5, <1>6, <1>7, FS_CardinalityType

\* More slices to be accounted for, the more there are objects to account for them.
LEMMA MoreAllowed ==
    ASSUME NEW c \in Nat, NEW d \in Nat, NEW g \in Nat, NEW h \in Nat, c + g <= d + h
    PROVE  /\ MaxSlice * (c + g + 1) <= MaxSlice * (d + h + 1)
           /\ MaxSlice * (d + h + 1) \in Nat
           /\ MaxSlice <= MaxSlice * (d + h + 1)
<1>1. MaxSlice \in Nat
  BY SchedulerAssumption
<1>2. MaxSlice * (c + g + 1) <= MaxSlice * (d + h + 1)
  BY <1>1, Monotonic
<1>3. MaxSlice * 1 <= MaxSlice * (d + h + 1)
  BY <1>1, Monotonic
<1> QED
  BY <1>1, <1>2, <1>3

\* Due grows with the launches.
LEMMA DueGrows ==
    ASSUME NEW w \in Nat, NEW m \in Nat, NEW n \in Nat, m <= n
    PROVE  /\ w * ((m - 1) * MaxSlice + 1) <= w * ((n - 1) * MaxSlice + 1)
           /\ w * ((m - 1) * MaxSlice + 1) \in Int
<1>1. MaxSlice \in Nat
  BY SchedulerAssumption
<1>2. (m - 1) * MaxSlice <= (n - 1) * MaxSlice /\ (m - 1) * MaxSlice \in Int /\ (n - 1) * MaxSlice \in Int
  BY <1>1, Monotonic
<1> QED
  BY <1>2, Monotonic

\* A step that runs, starts and removes nothing.
LEMMA QuietStep ==
    ASSUME IInv, WaitInv,
           ~leftLoop' => ~leftLoop /\ list' = list,
           \A r \in Elems(list) : dt'[r] = dt[r] /\ exp'[r] = exp[r],
           launches' \in Nat, launches' >= launches, launches' - Asked' >= launches - Asked,
           pcS' = "slice" => pcS = "slice" /\ cur' = cur,
           Chosen' => Chosen /\ cur' = cur /\ ~leftLoop'
    PROVE  WaitInv'
<1>0. pcS = "slice" => cur \in Elems(list) /\ ~leftLoop
  BY DEF IInv, PcInv, LoopPcs, SlicePcs
<1>a. SliceInv'
  BY <1>0 DEF SliceInv, WaitInv
<1>1. CASE leftLoop'
  BY <1>1, <1>a DEF WaitInv, CountInv, ServedInv, ChosenInv, DueInv
<1>2. CASE ~leftLoop'
  <2>0. ~leftLoop /\ Elems(list') = Elems(list)
    BY <1>2 DEF Elems
  <2>1. Cardinality(Elems(list)) \in Nat /\ launches \in Nat /\ Asked \in Nat /\ Asked' \in Nat
    BY <2>0, FS_CardinalityType, SchedulerAssumption
       DEF WaitInv, CountInv, IInv, TypeOK, Asked
  <2>2. CountInv' /\ Removed' \in Nat /\ Removed' >= Removed /\ Removed \in Nat
    BY <2>0, <2>1 DEF WaitInv, CountInv, Removed
  <2>3. \A r \in Elems(list) : Weight(r)' = Weight(r)
    BY DEF Weight
  <2>4. ServedInv'
    <3> SUFFICES ASSUME NEW r \in Elems(list), NEW t \in Nat,
                        dt[r] # Never, Weight(r) * t <= dt[r]
                 PROVE  t + RestOfSlice(r, t)'
                          <= MaxSlice * (Cardinality(RanWithin(r, t)') + Removed' + 1)
      BY <2>0, <2>3 DEF ServedInv
    <3>1. t + RestOfSlice(r, t) <= MaxSlice * (Cardinality(RanWithin(r, t)) + Removed + 1)
      BY <2>0 DEF WaitInv, ServedInv
    <3>2. RanWithin(r, t)' = RanWithin(r, t) /\ Cardinality(RanWithin(r, t)) \in Nat
      BY <2>0, WaitTypes DEF WaitInv, RanWithin
    <3>3. RestOfSlice(r, t)' <= RestOfSlice(r, t) /\ RestOfSlice(r, t)' \in Int
          /\ RestOfSlice(r, t) \in Int
      <4>1. pcS = "slice" => dt[cur] \in Nat /\ dt[cur] < MaxSlice /\ dt'[cur] = dt[cur]
        BY <1>0, <2>0, WaitTypes DEF WaitInv, SliceInv
      <4>2. MaxSlice \in Nat
        BY SchedulerAssumption
      <4> QED
        BY <4>1, <4>2 DEF RestOfSlice
    <3> DEFINE c == Cardinality(RanWithin(r, t))
               g == Removed
               h == Removed'
    <3>4. MaxSlice * (c + g + 1) <= MaxSlice * (c + h + 1) /\ MaxSlice * (c + h + 1) \in Nat
          /\ MaxSlice * (c + g + 1) \in Nat
      <4>1. c \in Nat /\ g \in Nat /\ h \in Nat /\ g <= h
        BY <3>2, <2>2
      <4> HIDE DEF c, g, h
      <4>2. c + g <= c + g /\ c + g <= c + h
        BY <4>1
      <4>3. MaxSlice * (c + g + 1) \in Nat
        BY <4>1, <4>2, MoreAllowed
      <4>4. MaxSlice * (c + g + 1) <= MaxSlice * (c + h + 1) /\ MaxSlice * (c + h + 1) \in Nat
        BY <4>1, <4>2, MoreAllowed
      <4> QED
        BY <4>3, <4>4
    <3> DEFINE a == MaxSlice * (c + g + 1)
               b == MaxSlice * (c + h + 1)
               x == RestOfSlice(r, t)
               y == RestOfSlice(r, t)'
    <3>5. t + x <= a /\ y <= x /\ a <= b /\ a \in Int /\ b \in Int /\ x \in Int /\ y \in Int
      BY <3>1, <3>3, <3>4
    <3>6. t + y <= b
      <4> HIDE DEF a, b, x, y
      <4> QED
        BY <3>5
    <3> QED
      BY <3>2, <3>6
  <2>5. ChosenInv'
    <3> SUFFICES ASSUME Chosen', NEW r \in Elems(list) \ {cur}, dt[r] # Never
                 PROVE  dt[r] * Weight(cur) <= dt[cur] * Weight(r)
      <4>1. Chosen' => cur \in Elems(list)
        BY DEF IInv, PcInv, LoopPcs, Chosen
      <4>2. Chosen' => cur' = cur
        OBVIOUS
      <4> QED
        BY <2>0, <2>3, <4>1, <4>2 DEF ChosenInv
    <3> QED
      BY DEF WaitInv, ChosenInv
  <2>6. DueInv'
    <3> SUFFICES ASSUME NEW r \in Elems(list), dt[r] # Never
                 PROVE  dt[r] < Due(r)' + SinceChoice(r)'
      BY <2>0 DEF DueInv
    <3>1. dt[r] < Due(r) + SinceChoice(r)
      BY <2>0 DEF WaitInv, DueInv
    <3>2. Due(r) <= Due(r)' /\ Due(r) \in Int /\ Due(r)' \in Int
      <4>1. Weight(r) \in Nat
        BY <2>0, WaitTypes DEF WaitInv
      <4>2. launches \in Nat /\ launches' \in Nat /\ launches <= launches'
        BY <2>1
      <4> DEFINE w == Weight(r)
                 m == launches
                 n == launches'
      <4>3. /\ w * ((m - 1) * MaxSlice + 1) <= w * ((n - 1) * MaxSlice + 1)
            /\ w * ((m - 1) * MaxSlice + 1) \in Int
            /\ w * ((n - 1) * MaxSlice + 1) \in Int
        <5>1. w \in Nat /\ m \in Nat /\ n \in Nat /\ m <= n
          BY <4>1, <4>2
        <5> HIDE DEF w, m, n
        <5> QED
          BY <5>1, DueGrows
      <4> QED
        BY <4>3, <2>3 DEF Due
    <3>3. SinceChoice(r) <= SinceChoice(r)' /\ SinceChoice(r) \in Int /\ SinceChoice(r)' \in Int
      <4>1. pcS = "slice" => dt[cur] \in Nat /\ dt[cur] < MaxSlice /\ dt'[cur] = dt[cur]
        BY <1>0, <2>0, WaitTypes DEF WaitInv, SliceInv
      <4>2. MaxSlice \in Nat
        BY SchedulerAssumption
      <4> QED
        BY <4>1, <4>2 DEF SinceChoice, Chosen
    <3>4. dt[r] \in Nat
      BY <2>0, WaitTypes DEF WaitInv
    <3> QED
      BY <3>1, <3>2, <3>3, <3>4
  <2> QED
    BY <1>a, <2>2, <2>4, <2>5, <2>6 DEF WaitInv
<1> QED
  BY <1>1, <1>2

\* A list and the launches grow together.
LEMMA SameDifference ==
    \A a, b, c, d, k \in Int : c - d = a - b + 1 => c - d - (k + 1) = a - b - k
  OBVIOUS

\* A launch: the new object never ran, and takes the place of the request for it.
LEMMA LaunchWait ==
    ASSUME IInv, WaitInv, NEW e \in Exp, Launch(e),
           launches' \in Nat, launches' >= launches, launches' - Asked' = launches - Asked + 1,
           UNCHANGED <<bStopLoop, pcS, cur, leftLoop>>
    PROVE  WaitInv'
<1>m. MaxSlice \in Nat /\ MaxSlice >= 1 /\ Never \in Nat /\ launches \in Nat
  BY SchedulerAssumption DEF IInv, TypeOK
<1> USE <1>m
<1>0. /\ pcS \in {"slice", "init", "initBody", "head"} => ~leftLoop
      /\ pcS = "slice" \/ Chosen => cur \in Elems(list)
  BY DEF IInv, PcInv, LoopPcs, SlicePcs, Chosen
<1>1. CASE leftLoop
  BY <1>0, <1>1 DEF WaitInv, CountInv, SliceInv, ServedInv, ChosenInv, DueInv, Chosen
<1>2. CASE ~leftLoop
  <2> USE <1>2
  <2>1. PICK n \in RunObj \ live :
          /\ exp' = [exp EXCEPT ![n] = e]
          /\ dt' = [dt EXCEPT ![n] = Never]
          /\ list' = Append(list, n)
    BY DEF Launch
  <2>2. n \notin Elems(list) /\ Elems(list') = Elems(list) \cup {n}
    <3>1. list \in Seq(RunObj) /\ n \in RunObj
      BY DEF IInv, TypeOK
    <3> QED
      BY <2>1, <3>1, AppendElems DEF IInv, ListInv
  <2>3. /\ \A r \in Elems(list) : dt'[r] = dt[r] /\ exp'[r] = exp[r] /\ r \in RunObj
        /\ dt'[n] = Never
    <3>1. \A r \in Elems(list) : r \in RunObj /\ r # n
      BY <2>2 DEF IInv, TypeOK, Elems
    <3>2. dt \in [RunObj -> Nat] /\ exp \in [RunObj -> Exp \cup {Nil}] /\ n \in RunObj
      BY <2>1 DEF IInv, TypeOK
    <3> QED
      BY <2>1, <3>1, <3>2
  <2>4. \A r \in Elems(list) : Weight(r)' = Weight(r)
    BY <2>3 DEF Weight
  <2>5. SliceInv'
    BY <1>0, <2>3 DEF WaitInv, SliceInv
  <2>6. /\ IsFiniteSet(Elems(list')) /\ Removed' = Removed /\ Removed \in Nat
        /\ Elems(list)' = Elems(list')
    <3>1. IsFiniteSet(Elems(list)) /\ Removed \in Nat
      BY DEF WaitInv, CountInv
    <3>2. /\ IsFiniteSet(Elems(list')) /\ Cardinality(Elems(list')) = Cardinality(Elems(list)) + 1
          /\ Cardinality(Elems(list)) \in Nat
      BY <2>2, <3>1, FS_AddElement, FS_CardinalityType
    <3>3. launches \in Nat /\ Asked \in Nat /\ Asked' \in Nat
      BY DEF IInv, TypeOK, Asked
    <3> DEFINE k == Cardinality(Elems(list))
    <3>4. Removed = launches - Asked - k /\ Removed' = launches' - Asked' - (k + 1)
      BY <3>2 DEF Removed
    <3>5. Removed' = Removed
      <4> DEFINE a == launches
                 b == Asked
                 c == launches'
                 d == Asked'
      <4>1. a \in Int /\ b \in Int /\ c \in Int /\ d \in Int /\ k \in Int
        BY <3>2, <3>3
      <4>2. c - d = a - b + 1
        OBVIOUS
      <4>3. Removed = a - b - k /\ Removed' = c - d - (k + 1)
        BY <3>4
      <4> HIDE DEF a, b, c, d, k
      <4>4. c - d - (k + 1) = a - b - k
        BY <4>1, <4>2, SameDifference
      <4> QED
        BY <4>3, <4>4
    <3> QED
      BY <3>1, <3>2, <3>5
  <2>7. CountInv'
    BY <2>6 DEF CountInv
  <2>8. ServedInv'
    <3> SUFFICES ASSUME NEW r \in Elems(list'), NEW t \in Nat,
                        dt'[r] # Never, Weight(r)' * t <= dt'[r]
                 PROVE  t + RestOfSlice(r, t)'
                          <= MaxSlice * (Cardinality(RanWithin(r, t)') + Removed + 1)
      BY <2>6 DEF ServedInv
    <3>1. r \in Elems(list) /\ dt[r] # Never /\ Weight(r) * t <= dt[r]
      BY <2>2, <2>3, <2>4
    <3>2. t + RestOfSlice(r, t) <= MaxSlice * (Cardinality(RanWithin(r, t)) + Removed + 1)
      BY <3>1 DEF WaitInv, ServedInv
    <3>3. RestOfSlice(r, t)' = RestOfSlice(r, t) /\ RestOfSlice(r, t) \in Int
      <4>1. pcS = "slice" => dt'[cur] = dt[cur] /\ dt[cur] \in Nat
        BY <1>0, <2>3, WaitTypes DEF WaitInv
      <4> QED
        BY <4>1 DEF RestOfSlice
    <3>4. RanWithin(r, t) \subseteq RanWithin(r, t)' /\ RanWithin(r, t)' \in SUBSET Elems(list')
      BY <2>2, <2>3 DEF RanWithin
    <3> DEFINE c == Cardinality(RanWithin(r, t))
               d == Cardinality(RanWithin(r, t)')
               g == Removed
               x == RestOfSlice(r, t)
    <3>5. c \in Nat /\ d \in Nat /\ g \in Nat /\ c <= d
      <4>1. IsFiniteSet(RanWithin(r, t)')
        BY <2>6, <3>4, FS_Subset
      <4> QED
        BY <2>6, <3>4, <4>1, FS_Subset, FS_CardinalityType, WaitTypes, <3>1
    <3>6. MaxSlice * (c + g + 1) <= MaxSlice * (d + g + 1) /\ MaxSlice * (d + g + 1) \in Int
          /\ MaxSlice * (c + g + 1) \in Int
      <4> HIDE DEF c, d, g
      <4>1. c + g <= d + g
        BY <3>5
      <4>2. MaxSlice * (c + g + 1) <= MaxSlice * (d + g + 1) /\ MaxSlice * (d + g + 1) \in Nat
        BY <3>5, <4>1, MoreAllowed
      <4>3. MaxSlice * (c + g + 1) \in Int
        BY <3>5
      <4> QED
        BY <4>2, <4>3
    <3>7. t + x <= MaxSlice * (c + g + 1) /\ x \in Int
      BY <3>2, <3>3
    <3> DEFINE a == MaxSlice * (c + g + 1)
               b == MaxSlice * (d + g + 1)
    <3>8. t + x <= b
      <4>1. t + x <= a /\ a <= b /\ a \in Int /\ b \in Int /\ x \in Int
        BY <3>6, <3>7
      <4> HIDE DEF a, b, x
      <4> QED
        BY <4>1
    <3> QED
      BY <3>3, <3>8
  <2>9. ChosenInv'
    <3>0. Chosen' = Chosen
      BY DEF Chosen
    <3> SUFFICES ASSUME Chosen, NEW r \in Elems(list') \ {cur}, dt'[r] # Never
                 PROVE  dt'[r] * Weight(cur)' <= dt'[cur] * Weight(r)'
      <4>1. Chosen => Weight(cur)' = 1 + Priority[exp[cur]]'
        BY DEF Weight
      <4> QED
        BY <3>0, <2>6 DEF ChosenInv, Weight
    <3>1. r \in Elems(list) /\ cur \in Elems(list)
      BY <1>0, <2>2, <2>3
    <3> QED
      BY <3>1, <2>3, <2>4 DEF WaitInv, ChosenInv
  <2>10. DueInv'
    <3> SUFFICES ASSUME NEW r \in Elems(list'), dt'[r] # Never
                 PROVE  dt'[r] < Due(r)' + SinceChoice(r)'
      BY <2>6 DEF DueInv
    <3>1. r \in Elems(list) /\ dt'[r] = dt[r] /\ Weight(r)' = Weight(r)
      BY <2>2, <2>3, <2>4
    <3>2. dt[r] < Due(r) + SinceChoice(r)
      BY <3>1 DEF WaitInv, DueInv
    <3>3. SinceChoice(r)' = SinceChoice(r) /\ SinceChoice(r) \in Int
      <4>1. pcS = "slice" => dt'[cur] = dt[cur] /\ dt[cur] \in Nat
        BY <1>0, <2>3, WaitTypes DEF WaitInv
      <4> QED
        BY <4>1 DEF SinceChoice, Chosen
    <3>4. Due(r) <= Due(r)' /\ Due(r) \in Int /\ Due(r)' \in Int
      <4> DEFINE w == Weight(r)
                 m == launches
                 k == launches'
      <4>1. w \in Nat /\ m \in Nat /\ k \in Nat /\ m <= k
        BY <3>1, WaitTypes DEF WaitInv, IInv, TypeOK
      <4>2. /\ w * ((m - 1) * MaxSlice + 1) <= w * ((k - 1) * MaxSlice + 1)
            /\ w * ((m - 1) * MaxSlice + 1) \in Int
            /\ w * ((k - 1) * MaxSlice + 1) \in Int
        <5> HIDE DEF w, m, k
        <5> QED
          BY <4>1, DueGrows
      <4> QED
        BY <3>1, <4>2 DEF Due
    <3>5. dt[r] \in Nat
      BY <3>1, WaitTypes DEF WaitInv
    <3> QED
      BY <3>1, <3>2, <3>3, <3>4, <3>5
  <2> QED
    BY <2>5, <2>7, <2>8, <2>9, <2>10 DEF WaitInv
<1> QED
  BY <1>1, <1>2

\* A listed object was launched, so Due is positive.
LEMMA DuePositive ==
    ASSUME IInv, CountInv, ~leftLoop, NEW r \in Elems(list)
    PROVE  Due(r) \in Nat /\ Due(r) >= 1
<1> DEFINE k == launches
           w == Weight(r)
<1>1. k \in Nat /\ k >= 1 /\ w \in Nat /\ w >= 1
  <2>1. Cardinality(Elems(list)) \in Nat /\ Cardinality(Elems(list)) # 0
    BY FS_EmptySet, FS_CardinalityType DEF CountInv
  <2>2. Removed \in Nat /\ launches \in Nat /\ Asked \in Nat
    BY SchedulerAssumption DEF CountInv, IInv, TypeOK, Asked
  <2>3. launches = Removed + Asked + Cardinality(Elems(list))
    BY <2>1, <2>2 DEF Removed
  <2>4. launches >= 1
    <3> DEFINE n == Cardinality(Elems(list))
    <3>1. n \in Nat /\ n # 0 /\ launches = Removed + Asked + n
      BY <2>1, <2>3
    <3> HIDE DEF n
    <3> QED
      BY <3>1, <2>2
  <2> QED
    BY <2>2, <2>4, WaitTypes
<1>2. (k - 1) * MaxSlice + 1 \in Nat /\ (k - 1) * MaxSlice + 1 >= 1
  <2>1. k - 1 \in Nat /\ MaxSlice \in Nat
    BY <1>1, SchedulerAssumption
  <2> HIDE DEF k
  <2>2. (k - 1) * MaxSlice \in Nat
    BY <2>1
  <2> QED
    BY <2>2
<1> DEFINE b == (k - 1) * MaxSlice + 1
<1>3. w * b \in Nat /\ w * b >= 1
  <2>1. w \in Nat /\ w >= 1 /\ b \in Nat /\ b >= 1
    BY <1>1, <1>2
  <2> HIDE DEF w, b
  <2>2. w * 1 <= w * b
    BY <2>1, Monotonic
  <2> QED
    BY <2>1, <2>2
<1> QED
  BY <1>3 DEF Due

\* The chosen object begins its slice.  Whatever t another one waits for with quotient at
\* least t, this one has waited for t as well, so it is one more that accounts for a slice.
LEMMA BeginSlice ==
    ASSUME IInv, WaitInv, Chosen, pcS' = "slice", dt' = [dt EXCEPT ![cur] = 0],
           UNCHANGED <<list, exp, launches, pcG, cur, leftLoop>>
    PROVE  WaitInv'
<1>m. MaxSlice \in Nat /\ MaxSlice >= 1 /\ Never \in Nat /\ launches \in Nat
  BY SchedulerAssumption DEF IInv, TypeOK
<1> USE <1>m
<1>1. ~leftLoop /\ cur \in Elems(list) /\ cur # Nil /\ pcS # "slice"
  BY DEF IInv, PcInv, LoopPcs, Chosen
<1>2. /\ dt'[cur] = 0 /\ \A r \in Elems(list) \ {cur} : dt'[r] = dt[r]
      /\ cur \in RunObj
  BY <1>1 DEF IInv, TypeOK, Elems
<1>3. Removed' = Removed /\ CountInv' /\ Removed \in Nat
  BY <1>1 DEF Removed, Asked, WaitInv, CountInv
<1>4. SliceInv'
  BY <1>2 DEF SliceInv
<1>5. ChosenInv'
  BY DEF ChosenInv, Chosen
<1>6. \A r : Weight(r)' = Weight(r)
  BY DEF Weight
<1>7. ServedInv'
  <2> SUFFICES ASSUME NEW r \in Elems(list), NEW t \in Nat,
                      dt'[r] # Never, Weight(r) * t <= dt'[r]
               PROVE  t + RestOfSlice(r, t)'
                        <= MaxSlice * (Cardinality(RanWithin(r, t)') + Removed + 1)
    BY <1>3, <1>6 DEF ServedInv
  <2>0. Weight(r) \in Nat /\ Weight(r) >= 1 /\ RanWithin(r, t)' \in SUBSET Elems(list)
    BY <1>1, WaitTypes DEF WaitInv, RanWithin
  <2>1. IsFiniteSet(RanWithin(r, t)') /\ Cardinality(RanWithin(r, t)') \in Nat
    BY <1>1, <2>0, FS_Subset, FS_CardinalityType DEF WaitInv, CountInv
  <2> DEFINE d == Cardinality(RanWithin(r, t)')
             g == Removed
  <2>2. MaxSlice * (d + g + 1) \in Nat
    BY <2>1, <1>3
  <2>3. CASE t = 0
    <3>1. RestOfSlice(r, t)' = 0
      BY <1>2, <2>3 DEF RestOfSlice
    <3> QED
      BY <2>2, <2>3, <3>1
  <2>4. CASE r = cur
    <3>1. t = 0
      <4>1. Weight(r) * t <= 0
        BY <1>2, <2>4
      <4>2. t <= Weight(r) * t
        <5>1. 1 * t <= Weight(r) * t
          BY <2>0, Monotonic
        <5> QED
          BY <5>1, <2>0
      <4> QED
        BY <4>1, <4>2, <2>0
    <3> QED
      BY <3>1, <2>3
  <2>5. CASE r # cur /\ t # 0
    <3>1. dt[r] # Never /\ Weight(r) * t <= dt[r] /\ dt[r] \in Nat /\ dt[cur] \in Nat
          /\ Weight(cur) \in Nat /\ Weight(cur) >= 1
      BY <1>1, <1>2, <2>5, WaitTypes DEF WaitInv
    <3>2. dt[r] * Weight(cur) <= dt[cur] * Weight(r)
      BY <2>5, <3>1 DEF WaitInv, ChosenInv
    <3>3. t <= dt[cur]
      <4> DEFINE w == Weight(r)
                 v == Weight(cur)
                 p == dt[r]
                 q == dt[cur]
      <4>1. w \in Nat /\ v \in Nat /\ w >= 1 /\ v >= 1 /\ p \in Nat /\ q \in Nat
            /\ w * t <= p /\ p * v <= q * w
        BY <2>0, <3>1, <3>2
      <4>2. t <= q
        <5> HIDE DEF w, v, p, q
        <5> QED
          BY <4>1, ChosenHasWaited
      <4> QED
        BY <4>2
    <3>4. RanWithin(r, t)' = RanWithin(r, t) \cup {cur} /\ cur \notin RanWithin(r, t)
      BY <1>1, <1>2, <2>5, <3>1, <3>3 DEF RanWithin
    <3> DEFINE c == Cardinality(RanWithin(r, t))
    <3>5. d = c + 1 /\ c \in Nat
      BY <1>1, <3>4, WaitTypes, FS_AddElement DEF WaitInv
    <3>6. t <= MaxSlice * (c + g + 1)
      BY <1>1, <3>1 DEF WaitInv, ServedInv, RestOfSlice
    <3>7. RestOfSlice(r, t)' = MaxSlice
      BY <1>2, <2>5 DEF RestOfSlice
    <3>8. t + MaxSlice <= MaxSlice * (d + g + 1)
      <4>1. c \in Nat /\ g \in Nat
        BY <3>5, <1>3
      <4>2. MaxSlice * (c + 1 + g + 1) = MaxSlice * (c + g + 1) + MaxSlice
        <5> HIDE DEF c, g
        <5> QED
          BY <4>1
      <4>3. MaxSlice * (c + g + 1) \in Int
        BY <4>1
      <4> DEFINE a == MaxSlice * (c + g + 1)
      <4>4. t <= a /\ a \in Int /\ MaxSlice * (d + g + 1) = a + MaxSlice
        BY <3>5, <3>6, <4>2, <4>3
      <4> HIDE DEF a, d, g
      <4> QED
        BY <4>4
    <3> QED
      BY <3>7, <3>8
  <2> QED
    BY <2>3, <2>4, <2>5
<1>8. DueInv'
  <2> SUFFICES ASSUME NEW r \in Elems(list), dt'[r] # Never
               PROVE  dt'[r] < Due(r) + SinceChoice(r)'
    BY <1>6 DEF DueInv, Due
  <2>0. Due(r) \in Nat /\ Due(r) >= 1
    BY <1>1, DuePositive DEF WaitInv
  <2>1. CASE r = cur
    BY <2>0, <2>1, <1>2 DEF SinceChoice
  <2>2. CASE r # cur
    <3>1. dt[r] < Due(r) + SinceChoice(r) /\ dt'[r] = dt[r]
      BY <1>1, <1>2, <2>2 DEF WaitInv, DueInv
    <3>2. SinceChoice(r) = 0 /\ SinceChoice(r)' = 0
      BY <1>2, <2>2 DEF SinceChoice, Chosen
    <3> QED
      BY <3>1, <3>2
  <2> QED
    BY <2>1, <2>2
<1> QED
  BY <1>3, <1>4, <1>5, <1>7, <1>8 DEF WaitInv

\* A call of Run(): a unit of time passes, in the slice of cur.
LEMMA TimeStep ==
    ASSUME IInv, WaitInv, RunOnce
    PROVE  WaitInv'
<1>m. MaxSlice \in Nat /\ MaxSlice >= 1 /\ Never > MaxSlice /\ launches \in Nat /\ Never \in Nat
      /\ TimeSlice \in Nat /\ TimeSlice <= MaxSlice
  BY SchedulerAssumption DEF IInv, TypeOK
<1> USE <1>m
<1>1. ~leftLoop /\ cur \in Elems(list) /\ cur # Nil /\ pcS = "slice"
  BY DEF RunOnce, IInv, PcInv, LoopPcs, SlicePcs
<1>2. /\ UNCHANGED <<list, exp, launches, pcG, cur, leftLoop, bStopLoop>>
      /\ pcS' \in {"slice", "done"}
      /\ pcS' = "slice" => dt[cur] + 1 < MaxSlice
  <2>1. UNCHANGED <<list, exp, launches, pcG, cur, leftLoop, bStopLoop>>
    BY DEF RunOnce, memVars, guiVars
  <2>2. pcS' \in {"slice", "done"}
    BY <1>1 DEF RunOnce, GoTo
  <2>3. dt[cur] \in Nat
    BY <1>1, WaitTypes DEF WaitInv
  <2>4. pcS' = "slice" => dt[cur] + 1 < TimeSlice \/ dt[cur] + 1 < MaxSlice
    BY DEF RunOnce, GoTo
  <2> QED
    BY <2>1, <2>2, <2>3, <2>4
<1>3. \A r \in Elems(list) : dt[r] \in Nat /\ dt'[r] = IF dt[r] # Never THEN dt[r] + 1 ELSE dt[r]
  <2>1. \A r \in Elems(list) : r \in RunObj /\ r \in live /\ dt[r] \in Nat
    BY <1>1, WaitTypes DEF WaitInv
  <2> QED
    BY <2>1 DEF RunOnce, TimePasses
<1>4. dt[cur] < MaxSlice /\ dt'[cur] = dt[cur] + 1 /\ dt'[cur] \in Nat /\ dt'[cur] <= MaxSlice
      /\ dt[cur] \in Nat
  BY <1>1, <1>3 DEF WaitInv, SliceInv
<1>5. Removed' = Removed /\ CountInv' /\ Removed \in Nat
  BY <1>1, <1>2 DEF Removed, Asked, WaitInv, CountInv
<1>6. SliceInv'
  BY <1>2, <1>4 DEF SliceInv
<1>7. ChosenInv'
  BY <1>2 DEF ChosenInv, Chosen
<1>8. \A r : Weight(r)' = Weight(r)
  BY <1>2 DEF Weight
<1>9. ServedInv'
  <2> SUFFICES ASSUME NEW r \in Elems(list), NEW t \in Nat,
                      dt'[r] # Never, Weight(r) * t <= dt'[r]
               PROVE  t + RestOfSlice(r, t)'
                        <= MaxSlice * (Cardinality(RanWithin(r, t)') + Removed + 1)
    BY <1>2, <1>5, <1>8 DEF ServedInv
  <2>0. Weight(r) \in Nat /\ Weight(r) >= 1 /\ RanWithin(r, t)' \in SUBSET Elems(list)
    BY <1>1, <1>2, WaitTypes DEF WaitInv, RanWithin
  <2>1. IsFiniteSet(RanWithin(r, t)') /\ Cardinality(RanWithin(r, t)') \in Nat
    BY <1>1, <2>0, FS_Subset, FS_CardinalityType DEF WaitInv, CountInv
  <2> DEFINE d == Cardinality(RanWithin(r, t)')
             g == Removed
             b == MaxSlice * (d + g + 1)
  <2>2. b \in Nat /\ MaxSlice <= b
    <3>1. d \in Nat /\ g \in Nat
      BY <2>1, <1>5
    <3> HIDE DEF d, g
    <3>2. d + g <= d + g
      BY <3>1
    <3> QED
      BY <3>1, <3>2, MoreAllowed
  <2>3. CASE t = 0
    <3>1. RestOfSlice(r, t)' = 0
      BY <1>2, <1>4, <2>3 DEF RestOfSlice
    <3> HIDE DEF b
    <3>2. t + RestOfSlice(r, t)' <= b
      BY <2>2, <2>3, <3>1
    <3> QED
      BY <3>2 DEF b
  <2>4. CASE r = cur
    <3>1. t <= MaxSlice
      <4>1. 1 * t <= Weight(r) * t /\ Weight(r) * t \in Nat
        BY <2>0, Monotonic
      <4> QED
        BY <4>1, <1>4, <2>4
    <3>2. RestOfSlice(r, t)' = 0
      BY <1>2, <2>4 DEF RestOfSlice
    <3> HIDE DEF b
    <3>3. t + RestOfSlice(r, t)' <= b
      BY <2>2, <3>1, <3>2
    <3> QED
      BY <3>3 DEF b
  <2>5. CASE r # cur /\ t # 0
    <3> DEFINE s == t - 1
    <3>1. s \in Nat /\ t = s + 1 /\ dt[r] # Never /\ dt'[r] = dt[r] + 1 /\ dt[r] \in Nat
      BY <1>3, <2>5
    <3>2. Weight(r) * s <= dt[r]
      <4> DEFINE w == Weight(r)
      <4>1. w \in Nat /\ w >= 1 /\ w * (s + 1) <= dt[r] + 1
        BY <2>0, <3>1
      <4> HIDE DEF w, s
      <4>2. w * (s + 1) = w * s + w /\ w * s \in Nat
        BY <3>1, <4>1
      <4>3. w * s <= dt[r]
        BY <3>1, <4>1, <4>2
      <4> QED
        BY <4>3 DEF w
    <3> DEFINE c == Cardinality(RanWithin(r, s))
               a == MaxSlice * (c + g + 1)
    <3>3. s + RestOfSlice(r, s) <= a
      BY <1>1, <3>1, <3>2 DEF WaitInv, ServedInv
    <3>4. a \in Nat /\ a <= b
      <4>1. RanWithin(r, s) \subseteq RanWithin(r, t)'
        BY <1>2, <1>3, <3>1 DEF RanWithin
      <4>2. c \in Nat /\ c <= d
        BY <1>1, <2>1, <3>1, <4>1, WaitTypes, FS_Subset DEF WaitInv
      <4>3. d \in Nat /\ g \in Nat
        BY <2>1, <1>5
      <4> HIDE DEF c, d, g
      <4>4. c + g <= d + g
        BY <4>2, <4>3
      <4> QED
        BY <4>2, <4>3, <4>4, MoreAllowed
    <3>5. CASE dt[cur] < s
      <4>1. RestOfSlice(r, s) = MaxSlice - dt[cur]
        BY <1>1, <2>5, <3>5 DEF RestOfSlice
      <4>2. RestOfSlice(r, t)' \in {0, MaxSlice - (dt[cur] + 1)}
        BY <1>2, <1>4 DEF RestOfSlice
      <4> HIDE DEF a, b, s
      <4>3. t + RestOfSlice(r, t)' <= b
        BY <1>4, <2>2, <3>1, <3>3, <3>4, <4>1, <4>2
      <4> QED
        BY <4>3 DEF b
    <3>6. CASE ~(dt[cur] < s)
      <4>1. RestOfSlice(r, t)' = 0 /\ t <= dt'[cur]
        BY <1>2, <1>4, <3>1, <3>6 DEF RestOfSlice
      <4> HIDE DEF b
      <4>2. t + RestOfSlice(r, t)' <= b
        BY <1>4, <2>2, <4>1
      <4> QED
        BY <4>2 DEF b
    <3> QED
      BY <3>5, <3>6
  <2> QED
    BY <2>3, <2>4, <2>5
<1>10. DueInv'
  <2> SUFFICES ASSUME NEW r \in Elems(list), dt'[r] # Never
               PROVE  dt'[r] < Due(r) + SinceChoice(r)'
    BY <1>2, <1>8 DEF DueInv, Due
  <2>0. Due(r) \in Nat /\ Due(r) >= 1
    BY <1>1, DuePositive DEF WaitInv
  <2>1. CASE r = cur
    BY <2>0, <2>1, <1>2, <1>4 DEF SinceChoice
  <2>2. CASE r # cur
    <3>1. dt[r] < Due(r) + SinceChoice(r) /\ dt'[r] = dt[r] + 1 /\ dt[r] \in Nat
      BY <1>1, <1>3, <2>2 DEF WaitInv, DueInv
    <3>2. SinceChoice(r) = dt[cur] /\ SinceChoice(r)' \in {dt'[cur], MaxSlice}
      BY <1>1, <1>2, <2>2 DEF SinceChoice, Chosen
    <3> QED
      BY <1>4, <2>0, <3>1, <3>2
  <2> QED
    BY <2>1, <2>2
<1> QED
  BY <1>5, <1>6, <1>7, <1>9, <1>10 DEF WaitInv

\* An object that is removed from the list goes on to account for its slice.
LEMMA RemoveWait ==
    ASSUME IInv, WaitInv, StopExperiment
    PROVE  WaitInv'
<1>1. ~leftLoop /\ cur \in Elems(list) /\ pcS = "stop" /\ list \in Seq(RunObj) /\ NoDup(list)
  BY DEF StopExperiment, IInv, TypeOK, ListInv, PcInv, LoopPcs, SlicePcs
<1>2. UNCHANGED <<exp, dt, launches, pcG, cur, leftLoop, bStopLoop>> /\ pcS' \in {"default", "dinit"}
  BY DEF StopExperiment, GoTo, memVars, objVars, guiVars
<1>3. Elems(list') = Elems(list) \ {cur}
  <2>1. PICK i \in DOMAIN list : IsFirst(list, cur, i) /\ list' = Erase(list, i)
    BY DEF StopExperiment, EraseCurrent
  <2> QED
    BY <1>1, <2>1, EraseElems DEF IsFirst
<1>4. /\ IsFiniteSet(Elems(list')) /\ Removed' = Removed + 1 /\ Removed \in Nat
  <2>1. IsFiniteSet(Elems(list)) /\ Removed \in Nat
    BY <1>1 DEF WaitInv, CountInv
  <2> DEFINE k == Cardinality(Elems(list))
             m == Cardinality(Elems(list'))
  <2>2. IsFiniteSet(Elems(list')) /\ m = k - 1 /\ k \in Nat
    BY <1>1, <1>3, <2>1, FS_RemoveElement, FS_CardinalityType
  <2>3. launches \in Nat /\ Asked \in Nat /\ Asked' = Asked
    BY <1>2, SchedulerAssumption DEF IInv, TypeOK, Asked
  <2>4. Removed = launches - Asked - k /\ Removed' = launches - Asked - m
    BY <1>2, <2>3 DEF Removed
  <2>5. Removed' = Removed + 1
    <3> HIDE DEF k, m
    <3> QED
      BY <2>2, <2>3, <2>4
  <2> QED
    BY <2>1, <2>2, <2>5
<1>5. CountInv' /\ SliceInv' /\ ChosenInv'
  BY <1>2, <1>4 DEF CountInv, SliceInv, ChosenInv, Chosen
<1>6. \A r : Weight(r)' = Weight(r)
  BY <1>2 DEF Weight
<1>7. ServedInv'
  <2> SUFFICES ASSUME NEW r \in Elems(list) \ {cur}, NEW t \in Nat,
                      dt[r] # Never, Weight(r) * t <= dt[r]
               PROVE  t + RestOfSlice(r, t)'
                        <= MaxSlice * (Cardinality(RanWithin(r, t)') + Removed' + 1)
    BY <1>2, <1>3, <1>6 DEF ServedInv
  <2> DEFINE c == Cardinality(RanWithin(r, t))
             d == Cardinality(RanWithin(r, t)')
             g == Removed
             h == Removed'
             a == MaxSlice * (c + g + 1)
             b == MaxSlice * (d + h + 1)
  <2>1. RestOfSlice(r, t) = 0 /\ RestOfSlice(r, t)' = 0
    BY <1>1, <1>2 DEF RestOfSlice
  <2>2. t + RestOfSlice(r, t) <= a
    BY <1>1 DEF WaitInv, ServedInv
  <2>3. RanWithin(r, t)' = RanWithin(r, t) \ {cur}
    BY <1>2, <1>3 DEF RanWithin
  <2>4. IsFiniteSet(RanWithin(r, t)) /\ c \in Nat
    BY <1>1, WaitTypes DEF WaitInv
  <2>5. d \in Nat /\ d >= c - 1
    <3>1. /\ IsFiniteSet(RanWithin(r, t) \ {cur})
          /\ Cardinality(RanWithin(r, t) \ {cur})
               = IF cur \in RanWithin(r, t) THEN c - 1 ELSE c
      BY <2>4, FS_RemoveElement
    <3>2. d \in Nat /\ (d = c - 1 \/ d = c)
      BY <2>3, <3>1, FS_CardinalityType
    <3> HIDE DEF c, d
    <3> QED
      BY <2>4, <3>2
  <2>6. a <= b /\ a \in Int /\ b \in Int
    <3>1. c \in Nat /\ d \in Nat /\ g \in Nat /\ h \in Nat /\ c + g <= d + h
      BY <1>4, <2>4, <2>5
    <3> HIDE DEF c, d, g, h
    <3>2. a <= b
      BY <3>1, MoreAllowed
    <3>3. a \in Int /\ b \in Int
      BY <3>1, SchedulerAssumption
    <3> QED
      BY <3>2, <3>3
  <2>7. t + RestOfSlice(r, t)' <= b
    <3> HIDE DEF a, b
    <3> QED
      BY <2>1, <2>2, <2>6
  <2> QED
    BY <2>7
<1>8. DueInv'
  <2> SUFFICES ASSUME NEW r \in Elems(list), dt[r] # Never
               PROVE  dt[r] < Due(r) + SinceChoice(r)'
    BY <1>2, <1>3, <1>6 DEF DueInv, Due
  <2>1. dt[r] < Due(r) + SinceChoice(r)
    BY <1>1 DEF WaitInv, DueInv
  <2>2. SinceChoice(r) = MaxSlice /\ SinceChoice(r)' = MaxSlice
    BY <1>1, <1>2 DEF SinceChoice, Chosen
  <2> QED
    BY <2>1, <2>2
<1> QED
  BY <1>5, <1>7, <1>8 DEF WaitInv

\* Every step keeps what is said of the objects that were appended since.
LEMMA SizedStep == IInv /\ SizedInv /\ [Next]_vars => SizedInv'
<1> SUFFICES ASSUME IInv, SizedInv, [Next]_vars, pcS' = "choose" PROVE SizedInv'
  BY DEF SizedInv
<1> USE DEF GoTo, loopVars, memVars, objVars, schedState
<1>1. CASE NextExperiment
  <2>1. sized' = Len(list) /\ list' = list /\ list \in Seq(RunObj)
    BY <1>1 DEF NextExperiment, IInv, TypeOK
  <2> QED
    BY <2>1 DEF SizedInv
<1>2. CASE GuiStart
  <2>1. CASE IsRunning(page)
    BY <1>2, <2>1 DEF GuiStart, SizedInv
  <2>2. CASE ~IsRunning(page)
    <3>1. PICK n \in RunObj \ live :
            dt' = [dt EXCEPT ![n] = Never] /\ list' = Append(list, n)
      BY <1>2, <2>2 DEF GuiStart, Launch
    <3>2. pcS = "choose" /\ sized' = sized /\ list \in Seq(RunObj) /\ dt \in [RunObj -> Nat]
      BY <1>2 DEF GuiStart, IInv, TypeOK
    <3>3. SUFFICES ASSUME NEW i \in DOMAIN list', i > sized PROVE dt'[list'[i]] = Never
      BY <3>2 DEF SizedInv
    <3>4. CASE i \in DOMAIN list
      BY <3>1, <3>2, <3>3, <3>4 DEF SizedInv
    <3>5. CASE i = Len(list) + 1
      BY <3>1, <3>2, <3>5
    <3> QED
      BY <3>1, <3>2, <3>3, <3>4, <3>5
  <2> QED
    BY <2>1, <2>2
<1>3. CASE UserStep \/ GuiFinish \/ DeliverPosted \/ UpdateButtons \/ ServeCall \/ Quit
           \/ UNCHANGED vars
  <2>1. UNCHANGED <<list, dt, pcS, sized>>
    BY <1>3 DEF UserStep, ClickRun, ClickStop, CloseWindow, SelectPage, GuiFinish,
                DeliverPosted, UpdateButtons, ServeCall, Quit, vars
  <2> QED
    BY <2>1 DEF SizedInv
<1>4. CASE SchedulerStep /\ ~NextExperiment
  BY <1>4 DEF SchedulerStep, LoopHead, InitInSlice, InitInDestructor, EnterInit, LeaveInit,
       RunOnce, SliceStopped, AfterSlice, StopExperiment, LeaveInitInDestructor,
       EnterFinishRun, LeaveDestructor, StopReturns, ChooseNext, ExitLoop, DeleteBack, PopBack,
       ThreadEnds
<1>5. CASE \E e \in Exp : CallbackLaunches(e)
  BY <1>5 DEF CallbackLaunches
<1> QED
  BY <1>1, <1>2, <1>3, <1>4, <1>5 DEF Next, GuiStep, Over

\* The first of the largest quotients among the objects priorities was sized for.
LEMMA FirstPart ==
    ASSUME NEW S, NEW s \in Seq(S), NEW n \in 0 .. Len(s)
    PROVE  /\ SubSeq(s, 1, n) \in Seq(S) /\ DOMAIN SubSeq(s, 1, n) = 1 .. n
           /\ \A i \in 1 .. n : SubSeq(s, 1, n)[i] = s[i]
  OBVIOUS

\* What GetNextExperiment does before its loop changes nothing that waits are about.
LEMMA SizeWait ==
    ASSUME IInv, WaitInv, NextExperiment
    PROVE  WaitInv'
<1>1. ~leftLoop /\ pcS = "next" /\ pcS' \in {"head", "choose"} /\ (list = <<>> => cur = Nil)
  BY DEF NextExperiment, GoTo, IInv, PcInv, LoopPcs, Elems
<1>2. UNCHANGED <<list, exp, dt, launches, pcG, leftLoop, bStopLoop>>
  BY DEF NextExperiment, memVars, objVars, guiVars
<1>3. cur' = cur
  BY <1>1 DEF NextExperiment, Switch
<1>4. ~Chosen'
  <2>1. pcS' = "head" => bStopLoop \/ list = <<>>
    BY DEF NextExperiment, GoTo, PreemptOK
  <2> QED
    BY <1>1, <1>2, <1>3, <2>1 DEF Chosen
<1>5. launches \in Nat /\ Asked \in Nat /\ Asked' = Asked
  BY <1>2, SchedulerAssumption DEF IInv, TypeOK, Asked
<1> QED
  BY <1>1, <1>2, <1>4, <1>5, QuietStep

\* GetNextExperiment: an object that is not chosen although it is Due would have a quotient
\* of more slices than there are objects to account for.
LEMMA ChooseWait ==
    ASSUME IInv, SizedInv, WaitInv, ChooseNext
    PROVE  WaitInv'
<1>1. /\ ~leftLoop /\ pcS = "choose" /\ pcS' \in {"head", "crashed"}
      /\ cur = Nil \/ cur \in Elems(list)
  BY DEF ChooseNext, GoTo, IInv, PcInv, LoopPcs
<1>2. UNCHANGED <<list, exp, dt, launches, pcG, leftLoop, bStopLoop>>
  BY DEF ChooseNext, memVars, objVars, guiVars
<1>3. Removed' = Removed /\ CountInv' /\ SliceInv' /\ Removed \in Nat
  BY <1>1, <1>2 DEF WaitInv, CountInv, SliceInv, Removed, Asked
<1>4. \A r : Weight(r)' = Weight(r)
  BY <1>2 DEF Weight
<1>5. ServedInv'
  <2> SUFFICES ASSUME NEW r \in Elems(list), NEW t \in Nat,
                      dt[r] # Never, Weight(r) * t <= dt[r]
               PROVE  t + RestOfSlice(r, t)'
                        <= MaxSlice * (Cardinality(RanWithin(r, t)') + Removed + 1)
    BY <1>2, <1>3, <1>4 DEF ServedInv
  <2>1. RestOfSlice(r, t) = 0 /\ RestOfSlice(r, t)' = 0 /\ RanWithin(r, t)' = RanWithin(r, t)
    BY <1>1, <1>2 DEF RestOfSlice, RanWithin
  <2> QED
    BY <1>1, <2>1 DEF WaitInv, ServedInv
<1>6. CASE bStopLoop \/ pcS' = "crashed"
  <2>1. ~Chosen'
    BY <1>1, <1>2, <1>6 DEF Chosen
  <2>2. ChosenInv'
    BY <2>1 DEF ChosenInv
  <2>3. DueInv'
    <3> SUFFICES ASSUME NEW r \in Elems(list), dt[r] # Never
                 PROVE  dt[r] < Due(r) + SinceChoice(r)'
      BY <1>2, <1>4 DEF DueInv, Due
    <3>1. dt[r] < Due(r) + SinceChoice(r)
      BY <1>1 DEF WaitInv, DueInv
    <3>2. SinceChoice(r) = MaxSlice /\ SinceChoice(r)' = MaxSlice
      BY <1>1, <1>2, <2>1 DEF SinceChoice, Chosen
    <3> QED
      BY <3>1, <3>2
  <2> QED
    BY <1>3, <1>5, <2>2, <2>3 DEF WaitInv
<1>7. CASE ~bStopLoop /\ pcS' = "head"
  <2>0. sized \in 0 .. Len(list) /\ list \in Seq(RunObj)
    BY DEF IInv, TypeOK
  <2>1. PICK i \in 1 .. sized :
          /\ IsMaxElement(SubSeq(list, 1, sized), dt, [x \in Elems(list) |-> Priority[exp[x]]], i)
          /\ cur' = list[i]
    <3>1. PICK i \in 1 .. sized :
            /\ IsMaxElement(SubSeq(list, 1, sized), dt,
                            [x \in Elems(list) |-> Priority[exp[x]]], i)
            /\ Switch(list[i])
      BY <1>7 DEF ChooseNext, GoTo
    <3>2. list[i] # Nil
      BY <2>0, SchedulerAssumption
    <3> QED
      BY <3>1, <3>2 DEF Switch
  <2>2. cur' \in Elems(list) /\ cur' # Nil
    BY <2>0, <2>1, SchedulerAssumption DEF Elems
  <2>3. \A r \in Elems(list) : dt[r] # Never => dt[r] * Weight(cur') <= dt[cur'] * Weight(r)
    <3> SUFFICES ASSUME NEW j \in DOMAIN list, dt[list[j]] # Never
                 PROVE  dt[list[j]] * Weight(list[i]) <= dt[list[i]] * Weight(list[j])
      BY <2>1 DEF Elems
    <3>0. i \in DOMAIN list /\ j \in 1 .. sized
      BY <1>1, <2>0 DEF SizedInv
    <3>1. /\ list[i] \in Elems(list) /\ list[j] \in Elems(list)
          /\ dt[list[i]] \in Nat /\ Weight(list[j]) \in Nat
          /\ dt[list[j]] \in Nat /\ Weight(list[i]) \in Nat
      BY <1>1, <3>0, WaitTypes DEF Elems, WaitInv
    <3> DEFINE mine   == dt[list[i]] * Weight(list[j])
               theirs == dt[list[j]] * Weight(list[i])
    <3>2. IF j < i THEN mine > theirs ELSE mine >= theirs
      <4> DEFINE t == SubSeq(list, 1, sized)
      <4>1. DOMAIN t = 1 .. sized /\ t[i] = list[i] /\ t[j] = list[j]
        BY <2>0, <3>0, FirstPart
      <4> HIDE DEF t
      <4>2. IsMaxElement(t, dt, [x \in Elems(list) |-> Priority[exp[x]]], i)
        BY <2>1 DEF t
      <4> QED
        BY <3>0, <3>1, <4>1, <4>2 DEF IsMaxElement, Weight
    <3>3. mine \in Nat /\ theirs \in Nat
      BY <3>1
    <3>4. theirs <= mine
      <4> HIDE DEF mine, theirs
      <4> QED
        BY <3>2, <3>3
    <3> QED
      BY <3>4
  <2>4. ChosenInv'
    <3> SUFFICES ASSUME NEW r \in Elems(list), dt[r] # Never
                 PROVE  dt[r] * Weight(cur') <= dt[cur'] * Weight(r)
      BY <1>2, <1>4 DEF ChosenInv, Weight
    <3> QED
      BY <2>3
  <2>5. DueInv'
    <3> SUFFICES ASSUME NEW r \in Elems(list), dt[r] # Never
                 PROVE  dt[r] < Due(r) + SinceChoice(r)'
      BY <1>2, <1>4 DEF DueInv, Due
    <3>0. /\ Weight(r) \in Nat /\ Weight(r) >= 1 /\ dt[r] \in Nat
          /\ Due(r) \in Nat /\ Due(r) >= 1
          /\ Weight(cur') \in Nat /\ Weight(cur') >= 1 /\ dt[cur'] \in Nat
          /\ launches \in Nat /\ MaxSlice \in Nat
      BY <1>1, <2>2, WaitTypes, DuePositive DEF WaitInv
    <3>1. CASE r = cur'
      <4>1. dt[r] < Due(r) + SinceChoice(r)
        BY <1>1 DEF WaitInv, DueInv
      <4>2. SinceChoice(r) = MaxSlice /\ SinceChoice(r)' = MaxSlice
        BY <1>1, <3>1 DEF SinceChoice, Chosen
      <4> QED
        BY <4>1, <4>2
    <3>2. CASE r # cur'
      <4>1. SinceChoice(r)' = 0
        BY <1>1, <1>2, <1>7, <2>2, <3>2 DEF SinceChoice, Chosen
      <4> SUFFICES ASSUME Due(r) <= dt[r] PROVE FALSE
        BY <3>0, <4>1
      <4> DEFINE t == (launches - 1) * MaxSlice + 1
                 k == Cardinality(Elems(list))
                 c == Cardinality(RanWithin(r, t))
      <4>2. k \in Nat /\ IsFiniteSet(Elems(list)) /\ launches = Removed + Asked + k
            /\ Asked \in Nat /\ Removed \in Nat
        <5>1. IsFiniteSet(Elems(list)) /\ Removed \in Nat
          BY <1>1, <1>3 DEF WaitInv, CountInv
        <5>2. k \in Nat /\ Asked \in Nat
          BY <5>1, FS_CardinalityType DEF Asked
        <5> QED
          BY <3>0, <5>1, <5>2 DEF Removed
      <4>3. k >= 1
        BY <2>2, <4>2, FS_EmptySet
      <4>4. t \in Nat /\ Weight(r) * t <= dt[r]
        <5>1. launches - 1 \in Nat
          <6> HIDE DEF k
          <6> QED
            BY <4>2, <4>3
        <5>2. (launches - 1) * MaxSlice \in Nat
          BY <3>0, <5>1
        <5> QED
          BY <5>2 DEF Due
      <4>5. t <= MaxSlice * (c + Removed + 1)
        <5>1. RestOfSlice(r, t) = 0
          BY <1>1 DEF RestOfSlice
        <5>2. t + RestOfSlice(r, t) <= MaxSlice * (c + Removed + 1)
          <6> HIDE DEF t
          <6> QED
            BY <1>1, <4>4 DEF WaitInv, ServedInv
        <5> QED
          BY <4>4, <5>1, <5>2
      <4>6. t <= dt[cur']
        <5> DEFINE w == Weight(r)
                   v == Weight(cur')
                   p == dt[r]
                   q == dt[cur']
        <5>1. w \in Nat /\ v \in Nat /\ w >= 1 /\ v >= 1 /\ p \in Nat /\ q \in Nat /\ t \in Nat
              /\ w * t <= p /\ p * v <= q * w
          BY <2>3, <3>0, <4>4
        <5> HIDE DEF w, v, p, q, t
        <5>2. t <= q
          BY <5>1, ChosenHasWaited
        <5> QED
          BY <5>2 DEF q
      <4>7. c \in Nat /\ c <= k - 2
        <5>1. RanWithin(r, t) \in SUBSET ((Elems(list) \ {r}) \ {cur'})
          <6> HIDE DEF t
          <6> QED
            BY <3>0, <4>4, <4>6 DEF RanWithin
        <5>2. /\ IsFiniteSet((Elems(list) \ {r}) \ {cur'})
              /\ Cardinality((Elems(list) \ {r}) \ {cur'}) = k - 2
          <6>1. IsFiniteSet(Elems(list) \ {r}) /\ Cardinality(Elems(list) \ {r}) = k - 1
            BY <4>2, FS_RemoveElement
          <6>2. IsFiniteSet((Elems(list) \ {r}) \ {cur'})
                /\ Cardinality((Elems(list) \ {r}) \ {cur'}) = (k - 1) - 1
            BY <2>2, <3>2, <6>1, FS_RemoveElement
          <6> HIDE DEF k
          <6> QED
            BY <4>2, <6>2
        <5> HIDE DEF t
        <5> QED
          BY <5>1, <5>2, FS_Subset, FS_CardinalityType
      <4>8. MaxSlice * (c + Removed + 1) <= MaxSlice * (launches - 1)
        <5> HIDE DEF c, k
        <5>1. c + Removed + 1 <= launches - 1 /\ c + Removed + 1 \in Int /\ launches - 1 \in Int
          BY <3>0, <4>2, <4>7
        <5> QED
          BY <3>0, <5>1, Monotonic
      <4>9. MaxSlice * (launches - 1) = (launches - 1) * MaxSlice
            /\ (launches - 1) * MaxSlice \in Int
        BY <3>0
      <4>10. MaxSlice * (c + Removed + 1) \in Int
        <5> HIDE DEF c
        <5> QED
          BY <3>0, <4>2, <4>7
      <4> DEFINE a == MaxSlice * (c + Removed + 1)
                 b == (launches - 1) * MaxSlice
      <4>11. b + 1 <= a /\ a <= b /\ a \in Int /\ b \in Int
        BY <4>5, <4>8, <4>9, <4>10
      <4> HIDE DEF a, b
      <4> QED
        BY <4>11
    <3> QED
      BY <3>1, <3>2
  <2> QED
    BY <1>3, <1>5, <2>4, <2>5 DEF WaitInv
<1>8. pcS' = "crashed" \/ pcS' = "head"
  BY <1>1
<1> QED
  BY <1>6, <1>7, <1>8

\* Every step of the two threads preserves it.
LEMMA WaitStep == IInv /\ SizedInv /\ WaitInv /\ [Next]_vars => WaitInv'
<1> SUFFICES ASSUME IInv, SizedInv, WaitInv, [Next]_vars PROVE WaitInv'
  OBVIOUS
<1> USE DEF GoTo, loopVars, memVars, objVars, guiVars, schedState
<1>0. launches \in Nat /\ Asked \in {0, 1}
  BY SchedulerAssumption DEF IInv, TypeOK, Asked
<1>1. CASE InitInSlice \/ SliceStopped \/ AfterSlice \/ InitInDestructor \/ EnterFinishRun
           \/ LeaveInitInDestructor
  <2>1. UNCHANGED <<list, dt, exp, launches, pcG, cur, leftLoop, bStopLoop>>
    BY <1>1 DEF InitInSlice, EnterInit, SliceStopped, AfterSlice, InitInDestructor,
                EnterFinishRun, LeaveInitInDestructor
  <2>2. pcS' # "slice" /\ (Chosen' => Chosen /\ ~leftLoop)
    BY <1>1, <2>1 DEF InitInSlice, EnterInit, SliceStopped, AfterSlice, InitInDestructor,
                EnterFinishRun, LeaveInitInDestructor, Chosen, IInv, PcInv, LoopPcs
  <2> QED
    BY <1>0, <2>1, <2>2, QuietStep DEF Asked
<1>2. CASE ExitLoop \/ DeleteBack \/ PopBack \/ ThreadEnds
  <2>1. UNCHANGED <<dt, exp, launches, pcG>> /\ leftLoop'
    BY <1>2 DEF ExitLoop, DeleteBack, PopBack, ThreadEnds, IInv, PcInv
  <2>2. pcS' # "slice" /\ ~Chosen'
    BY <1>2 DEF ExitLoop, DeleteBack, PopBack, ThreadEnds, Chosen
  <2> QED
    BY <1>0, <2>1, <2>2, QuietStep DEF Asked
<1>3. CASE LeaveDestructor
  <2>1. /\ UNCHANGED <<list, launches, pcG, leftLoop>> /\ pcS' \in {"popBack", "next"}
        /\ \A r \in RunObj \ {doomed} : dt'[r] = dt[r] /\ exp'[r] = exp[r]
    BY <1>3 DEF LeaveDestructor, StopReturns, IInv, TypeOK
  <2>2. CASE leftLoop
    BY <2>1, <2>2 DEF WaitInv, CountInv, SliceInv, ServedInv, ChosenInv, DueInv, Chosen
  <2>3. CASE ~leftLoop
    <3>1. \A r \in Elems(list) : dt'[r] = dt[r] /\ exp'[r] = exp[r]
      BY <2>1, <2>3 DEF IInv, TypeOK, ListInv, Elems
    <3>2. pcS' # "slice" /\ ~Chosen'
      BY <2>1 DEF Chosen
    <3> QED
      BY <1>0, <2>1, <2>3, <3>1, <3>2, QuietStep DEF Asked
  <2> QED
    BY <2>2, <2>3
<1>4. CASE LoopHead
  <2>1. UNCHANGED <<list, exp, launches, pcG, cur, leftLoop, bStopLoop>>
        /\ pcS = "head" /\ ~leftLoop
    BY <1>4 DEF LoopHead, IInv, PcInv, LoopPcs
  <2>2. CASE dt' = dt /\ pcS' # "slice"
    <3>1. Chosen' => Chosen
      BY <1>4, <2>1, <2>2 DEF LoopHead, Chosen
    <3> QED
      BY <1>0, <2>1, <2>2, <3>1, QuietStep DEF Asked
  <2>3. CASE ~(dt' = dt /\ pcS' # "slice")
    <3>1. Chosen /\ pcS' = "slice" /\ dt' = [dt EXCEPT ![cur] = 0]
      BY <1>4, <2>3 DEF LoopHead, Chosen
    <3> QED
      BY <2>1, <3>1, BeginSlice
  <2> QED
    BY <2>2, <2>3
<1>5. CASE LeaveInit
  <2>1. UNCHANGED <<list, exp, launches, pcG, cur, leftLoop, bStopLoop>>
        /\ pcS = "initBody" /\ ~leftLoop
    BY <1>5 DEF LeaveInit, IInv, PcInv, LoopPcs
  <2>2. CASE pcS' = "slice"
    <3>1. Chosen /\ dt' = [dt EXCEPT ![cur] = 0]
      BY <1>5, <2>2 DEF LeaveInit, Chosen, IInv, PcInv, SlicePcs
    <3> QED
      BY <2>1, <2>2, <3>1, BeginSlice
  <2>3. CASE pcS' # "slice"
    <3>1. dt' = dt /\ ~Chosen'
      BY <1>5, <2>3 DEF LeaveInit, Chosen
    <3> QED
      BY <1>0, <2>1, <2>3, <3>1, QuietStep DEF Asked
  <2> QED
    BY <2>2, <2>3
<1>6. CASE \E e \in Exp : CallbackLaunches(e)
  <2>1. PICK e \in Exp : CallbackLaunches(e)
    BY <1>6
  <2>2. Launch(e) /\ launches' = launches + 1 /\ UNCHANGED <<bStopLoop, pcS, cur, leftLoop, pcG>>
    BY <2>1 DEF CallbackLaunches, CountLaunch
  <2>3. launches' \in Nat /\ launches' >= launches /\ launches' - Asked' = launches - Asked + 1
    BY <1>0, <2>2 DEF Asked
  <2> QED
    BY <2>2, <2>3, LaunchWait
<1>7. CASE GuiStart
  <2>1. /\ UNCHANGED <<bStopLoop, pcS, cur, leftLoop, launches>> /\ Asked = 1 /\ Asked' = 0
        /\ page \in Exp
    BY <1>7 DEF GuiStart, Asked, IInv, TypeOK
  <2>2. CASE IsRunning(page)
    <3>1. UNCHANGED <<list, dt, exp>> /\ Chosen' = Chosen
      BY <1>7, <2>1, <2>2 DEF GuiStart, Chosen
    <3>2. Chosen => ~leftLoop
      BY DEF Chosen, IInv, PcInv, LoopPcs
    <3> QED
      BY <1>0, <2>1, <3>1, <3>2, QuietStep
  <2>3. CASE ~IsRunning(page)
    <3>1. Launch(page)
      BY <1>7, <2>3 DEF GuiStart
    <3>2. launches' \in Nat /\ launches' >= launches /\ launches' - Asked' = launches - Asked + 1
      BY <1>0, <2>1
    <3> QED
      BY <2>1, <3>1, <3>2, LaunchWait
  <2> QED
    BY <2>2, <2>3
<1>8. CASE ClickRun \/ ClickStop \/ CloseWindow \/ (\E e \in Exp : SelectPage(e)) \/ GuiFinish
           \/ DeliverPosted \/ UpdateButtons \/ ServeCall \/ Quit \/ UNCHANGED vars
  <2>1. UNCHANGED <<list, dt, exp, pcS, cur, leftLoop>> /\ (bStopLoop' = bStopLoop \/ bStopLoop')
    BY <1>8 DEF ClickRun, ClickStop, CloseWindow, SelectPage, GuiFinish, DeliverPosted,
                UpdateButtons, ServeCall, Quit, vars
  <2>2. Chosen' => Chosen /\ ~leftLoop
    BY <2>1 DEF Chosen, IInv, PcInv, LoopPcs
  <2>3. launches' \in Nat /\ launches' >= launches /\ launches' - Asked' >= launches - Asked
    <3>1. CASE ClickRun
      <4>1. launches' = launches + 1 /\ Asked' = 1 /\ Asked = 0
        BY <3>1 DEF ClickRun, CountLaunch, UserMayAct, Asked
      <4> QED
        BY <1>0, <4>1
    <3>2. CASE ~ClickRun
      <4>1. launches' = launches /\ (Asked' = Asked \/ Asked' = 0)
        BY <1>8, <3>2 DEF ClickStop, CloseWindow, SelectPage, GuiFinish, DeliverPosted,
                UpdateButtons, ServeCall, Quit, vars, Asked
      <4> QED
        BY <1>0, <4>1
    <3> QED
      BY <3>1, <3>2
  <2> QED
    BY <2>1, <2>2, <2>3, QuietStep
<1> QED
  BY <1>1, <1>2, <1>3, <1>4, <1>5, <1>6, <1>7, <1>8, TimeStep, RemoveWait, SizeWait, ChooseWait
     DEF Next, SchedulerStep, UserStep, GuiStep, Over

\* An object that has run waits for a bounded time, for any priorities and any number of
\* launches (GetNextExperiment).
THEOREM WaitsAreBounded == Spec => []BoundedWait
<1>1. Init => SizedInv /\ WaitInv
  <2> SUFFICES ASSUME Init PROVE SizedInv /\ WaitInv
    OBVIOUS
  <2>1. Elems(list) = {} /\ launches = 0 /\ Asked = 0 /\ pcS = "head" /\ cur = Nil
    BY DEF Init, Elems, Asked
  <2>2. CountInv
    BY <2>1, FS_EmptySet DEF CountInv, Removed
  <2> QED
    BY <2>1, <2>2 DEF SizedInv, WaitInv, SliceInv, ServedInv, ChosenInv, DueInv, Chosen
<1>2. IInv /\ WaitInv => BoundedWait
  <2> SUFFICES ASSUME IInv, WaitInv, ~leftLoop, NEW r \in Elems(list), dt[r] # Never
               PROVE  dt[r] < WaitBound(Priority[exp[r]])
    BY DEF BoundedWait
  <2>1. dt[r] < Due(r) + SinceChoice(r) /\ Due(r) \in Nat /\ dt[r] \in Nat
    BY WaitTypes, DuePositive DEF WaitInv, DueInv
  <2>2. SinceChoice(r) <= MaxSlice /\ SinceChoice(r) \in Int /\ MaxSlice \in Nat
    <3>1. pcS = "slice" => dt[cur] \in Nat /\ dt[cur] < MaxSlice
      BY WaitTypes DEF WaitInv, SliceInv, IInv, PcInv, LoopPcs, SlicePcs
    <3> QED
      BY <3>1, SchedulerAssumption DEF SinceChoice
  <2>3. WaitBound(Priority[exp[r]]) = Due(r) + MaxSlice
    BY DEF WaitBound, Due, Weight
  <2> QED
    BY <2>1, <2>2, <2>3
<1> QED
  BY <1>1, <1>2, SpecIInv, SizedStep, WaitStep, PTL DEF Spec
=============================================================================
