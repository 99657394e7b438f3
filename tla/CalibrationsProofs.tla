------------------------ MODULE CalibrationsProofs ------------------------
(***************************************************************************)
(* What the event queue of the GUI thread holds while pages have their     *)
(* lines calibrated, and which scan a report is about, for any lists of    *)
(* items and any number of clicks.                                         *)
(***************************************************************************)
EXTENDS Calibrations, TLAPS

\* Five different names.
LEMMA Names ==
    /\ Trans # Align /\ Trans # Cal /\ Trans # Owned /\ Trans # Nil /\ Align # Cal
    /\ Align # Owned /\ Align # Nil /\ Cal # Owned /\ Cal # Nil /\ Owned # Nil
    /\ MaxClicks \in Nat /\ 0 \in 0 .. MaxClicks
  BY CalibrationsAssumption

-----------------------------------------------------------------------------
(* The lists of items. *)

\* The list a page starts with, the empty list, and the rest of a list that is left are
\* ends of it.
LEMMA SuffixWhole == ASSUME NEW S, NEW s \in Seq(S) PROVE s \in Suffixes(s)
<1>1. SubSeq(s, 1, Len(s)) = s
  OBVIOUS
<1> QED
  BY <1>1 DEF Suffixes

LEMMA SuffixEmpty == ASSUME NEW S, NEW s \in Seq(S) PROVE <<>> \in Suffixes(s)
<1>1. SubSeq(s, Len(s) + 1, Len(s)) = <<>>
  OBVIOUS
<1> QED
  BY <1>1 DEF Suffixes

LEMMA SuffixTail ==
    ASSUME NEW S, NEW s \in Seq(S), NEW t \in Suffixes(s), t # <<>>
    PROVE  Tail(t) \in Suffixes(s)
<1>1. PICK i \in 1 .. Len(s) + 1 : t = SubSeq(s, i, Len(s))
  BY DEF Suffixes
<1>2. i + 1 \in 1 .. Len(s) + 1
  BY <1>1
<1>3. Tail(SubSeq(s, i, Len(s))) = SubSeq(s, i + 1, Len(s))
  BY <1>1, <1>2
<1> QED
  BY <1>1, <1>2, <1>3 DEF Suffixes

\* The items of an end of a list are items of the list.
LEMMA SuffixItems ==
    ASSUME NEW S, NEW s \in Seq(S), NEW t \in Suffixes(s)
    PROVE  t \in Seq(S)
<1>1. PICK i \in 1 .. Len(s) + 1 : t = SubSeq(s, i, Len(s))
  BY DEF Suffixes
<1> QED
  BY <1>1

-----------------------------------------------------------------------------
(* The event queue.  At most one blocking call is under way, and at most one   *)
(* update can be queued behind it.                                             *)

Event == {"update", "call"}

Pending(ev) == \E i \in DOMAIN ev : ev[i] = "call"

OneCall(ev) ==
    /\ \A i, j \in DOMAIN ev : ev[i] = "call" /\ ev[j] = "call" => i = j
    /\ \A i \in DOMAIN ev : ev[i] = "call" => i >= Len(ev) - 1

LEMMA ReturnedMeans == Returned <=> ~Pending(events)
  BY DEF Returned, Pending, Range

\* Queuing an event.
LEMMA Queued ==
    ASSUME NEW ev \in Seq(Event), NEW x \in Event
    PROVE  /\ Append(ev, x) \in Seq(Event)
           /\ Len(ev) \in Nat /\ Len(Append(ev, x)) = Len(ev) + 1
           /\ DOMAIN ev = 1 .. Len(ev) /\ DOMAIN Append(ev, x) = 1 .. Len(ev) + 1
           /\ \A i \in 1 .. Len(ev) : Append(ev, x)[i] = ev[i]
           /\ Append(ev, x)[Len(ev) + 1] = x
  OBVIOUS

\* Nothing but updates was queued before.
LEMMA QueuedFirst ==
    ASSUME NEW ev \in Seq(Event), ~Pending(ev)
    PROVE  /\ OneCall(ev)
           /\ ~Pending(Append(ev, "update")) /\ OneCall(Append(ev, "update"))
           /\ Pending(Append(ev, "call")) /\ OneCall(Append(ev, "call"))
<1>1. OneCall(ev)
  BY DEF OneCall, Pending
<1>2. ~Pending(Append(ev, "update"))
  <2> DEFINE t == Append(ev, "update")
  <2>1. DOMAIN ev = 1 .. Len(ev) /\ DOMAIN t = 1 .. Len(ev) + 1 /\ Len(ev) \in Nat
        /\ (\A i \in 1 .. Len(ev) : t[i] = ev[i]) /\ t[Len(ev) + 1] = "update"
    BY Queued DEF Event
  <2> HIDE DEF t
  <2>2. ~Pending(t)
    BY <2>1 DEF Pending
  <2> QED
    BY <2>2 DEF t
<1>3. OneCall(Append(ev, "update"))
  BY <1>2 DEF OneCall, Pending
<1>4. Pending(Append(ev, "call")) /\ OneCall(Append(ev, "call"))
  <2> DEFINE t == Append(ev, "call")
  <2>1. DOMAIN ev = 1 .. Len(ev) /\ DOMAIN t = 1 .. Len(ev) + 1 /\ Len(ev) \in Nat
        /\ (\A i \in 1 .. Len(ev) : t[i] = ev[i]) /\ t[Len(ev) + 1] = "call"
        /\ Len(t) = Len(ev) + 1
    BY Queued DEF Event
  <2> HIDE DEF t
  <2>2. Pending(t) /\ OneCall(t)
    BY <2>1 DEF Pending, OneCall
  <2> QED
    BY <2>2 DEF t
<1> QED
  BY <1>1, <1>2, <1>3, <1>4

\* An update that is queued although a call is under way: the call was alone.
LEMMA QueuedBehind ==
    ASSUME NEW ev \in Seq(Event), OneCall(ev), \A i \in DOMAIN ev : ev[i] # "update"
    PROVE  /\ Len(ev) <= 1 /\ (~Pending(ev) => ev = <<>>)
           /\ OneCall(Append(ev, "update"))
           /\ Pending(Append(ev, "update")) <=> Pending(ev)
<1> DEFINE t == Append(ev, "update")
<1>1. DOMAIN ev = 1 .. Len(ev) /\ DOMAIN t = 1 .. Len(ev) + 1 /\ Len(ev) \in Nat
      /\ (\A i \in 1 .. Len(ev) : t[i] = ev[i]) /\ t[Len(ev) + 1] = "update"
      /\ Len(t) = Len(ev) + 1
  BY Queued DEF Event
<1>2. \A i \in DOMAIN ev : ev[i] = "call"
  BY DEF Event
<1>3. Len(ev) <= 1
  <2> SUFFICES ASSUME Len(ev) > 1 PROVE FALSE
    BY <1>1
  <2>1. 1 \in DOMAIN ev /\ 2 \in DOMAIN ev
    BY <1>1
  <2> QED
    BY <2>1, <1>2 DEF OneCall
<1>4. ~Pending(ev) => ev = <<>>
  <2> SUFFICES ASSUME ~Pending(ev) PROVE ev = <<>>
    OBVIOUS
  <2>1. DOMAIN ev = {}
    BY <1>2 DEF Pending
  <2>2. Len(ev) = 0
    BY <2>1, <1>1
  <2> QED
    BY <2>2
<1> HIDE DEF t
<1>5. OneCall(t)
  BY <1>1, <1>3 DEF OneCall
<1>6. Pending(t) <=> Pending(ev)
  BY <1>1 DEF Pending
<1> QED
  BY <1>3, <1>4, <1>5, <1>6 DEF t

\* Taking the first event.
LEMMA Taken ==
    ASSUME NEW ev \in Seq(Event), ev # <<>>, OneCall(ev)
    PROVE  /\ Tail(ev) \in Seq(Event) /\ Len(Tail(ev)) = Len(ev) - 1 /\ Head(ev) \in Event
           /\ OneCall(Tail(ev))
           /\ Head(ev) = "update" => (Pending(Tail(ev)) <=> Pending(ev))
           /\ Head(ev) = "call" => ~Pending(Tail(ev)) /\ Pending(ev) /\ Len(Tail(ev)) <= 1
<1> DEFINE t == Tail(ev)
<1>1. /\ DOMAIN ev = 1 .. Len(ev) /\ Len(ev) \in Nat /\ Len(ev) > 0 /\ t \in Seq(Event)
      /\ Len(t) = Len(ev) - 1 /\ DOMAIN t = 1 .. Len(ev) - 1
      /\ \A i \in 1 .. Len(ev) - 1 : t[i] = ev[i + 1]
      /\ Head(ev) = ev[1] /\ ev[1] \in Event
  OBVIOUS
<1> HIDE DEF t
<1>2. OneCall(t)
  <2>1. \A i \in DOMAIN t : i + 1 \in DOMAIN ev /\ t[i] = ev[i + 1]
    BY <1>1
  <2>2. \A i, j \in DOMAIN t : t[i] = "call" /\ t[j] = "call" => i = j
    <3> SUFFICES ASSUME NEW i \in DOMAIN t, NEW j \in DOMAIN t, t[i] = "call", t[j] = "call"
                 PROVE  i = j
      OBVIOUS
    <3>1. i + 1 = j + 1
      BY <2>1 DEF OneCall
    <3> QED
      BY <3>1, <1>1
  <2>3. \A i \in DOMAIN t : t[i] = "call" => i >= Len(t) - 1
    BY <1>1, <2>1 DEF OneCall
  <2> QED
    BY <2>2, <2>3 DEF OneCall
<1>3. Head(ev) = "update" => (Pending(t) <=> Pending(ev))
  <2> SUFFICES ASSUME ev[1] = "update" PROVE Pending(t) <=> Pending(ev)
    BY <1>1
  <2>1. ASSUME Pending(t) PROVE Pending(ev)
    <3>1. PICK i \in DOMAIN t : t[i] = "call"
      BY <2>1 DEF Pending
    <3>2. i + 1 \in DOMAIN ev /\ ev[i + 1] = "call"
      BY <3>1, <1>1
    <3> QED
      BY <3>2 DEF Pending
  <2>2. ASSUME Pending(ev) PROVE Pending(t)
    <3>1. PICK i \in DOMAIN ev : ev[i] = "call"
      BY <2>2 DEF Pending
    <3>2. i # 1
      BY <3>1
    <3>3. i - 1 \in DOMAIN t /\ t[i - 1] = "call"
      BY <3>1, <3>2, <1>1
    <3> QED
      BY <3>3 DEF Pending
  <2> QED
    BY <2>1, <2>2
<1>4. Head(ev) = "call" => ~Pending(t) /\ Pending(ev) /\ Len(t) <= 1
  <2> SUFFICES ASSUME ev[1] = "call" PROVE ~Pending(t) /\ Pending(ev) /\ Len(t) <= 1
    BY <1>1
  <2>1. Pending(ev) /\ Len(t) <= 1
    BY <1>1 DEF Pending, OneCall
  <2>2. ASSUME NEW i \in DOMAIN t, t[i] = "call" PROVE FALSE
    <3>1. i + 1 \in DOMAIN ev /\ ev[i + 1] = "call" /\ 1 \in DOMAIN ev /\ i + 1 # 1
      BY <2>2, <1>1
    <3> QED
      BY <3>1 DEF OneCall
  <2> QED
    BY <2>1, <2>2 DEF Pending
<1> QED
  BY <1>1, <1>2, <1>3, <1>4 DEF t

\* The two events of TransitionPage::Run.
LEMMA QueuedTwo ==
    ASSUME NEW ev \in Seq(Event)
    PROVE  ev \o <<"update", "call">> = Append(Append(ev, "update"), "call")
  BY DEF Event

-----------------------------------------------------------------------------
(* Where the scheduler thread is.                                              *)

CalPcs  == {"dc_set", "dc_post", "dc_wait"}
ScanPcs == {"plots", "calrun", "finish", "report"}

\* The part of TypeOK that is not about lists of items or events.
ControlOK ==
    /\ cci \in {Nil, Trans, Align}
    /\ listed \subseteq Pages /\ owned \in BOOLEAN /\ pRunObject \in {Cal, Owned}
    /\ fresh \cup finished \subseteq listed \cup {cur} \cup (IF owned THEN {Owned} ELSE {})
    /\ pcS \in {"pick", "init", "loop", "dc_set", "dc_post", "dc_wait", "target", "plots",
                "calrun", "over", "finish", "report", "gone"}
    /\ cur \in Pages \cup {Nil} /\ obj \in {Cal, Owned, Nil} /\ dying \in BOOLEAN
    /\ schedLock \in BOOLEAN /\ pageLock \in BOOLEAN /\ mutexPU \in BOOLEAN
    /\ woken \in BOOLEAN
    /\ pcG \in {"idle", "start", "buttons", "update"} /\ page \in Pages \cup {Nil}
    /\ clicks \in 0 .. MaxClicks /\ stopped \in BOOLEAN

\* Whose turn it is: a listed object, or one being destroyed under the lock.
TurnInv ==
    /\ pcS = "pick" <=> cur = Nil
    /\ cur = Nil => ~dying
    /\ cur # Nil => (cur \in listed <=> ~dying)
    /\ dying <=> schedLock
    /\ pcS \in {"loop", "over", "target", "calrun"} => ~dying
    /\ pcS = "init" => cur \in fresh
    /\ pcS = "target" => cur = Trans
    /\ pcS \in CalPcs => cur = Align \/ (cur = Trans /\ ~dying)
    /\ pcS \in {"finish", "report", "gone"} => dying \/ obj = Owned
    /\ pcG = "start" => page \in Pages
    /\ fresh \cup finished \subseteq RunObj

\* Whose code of the calibration page runs, and who is initialized when it does.
ScanTurn == (obj = Cal /\ cur = Cal) \/ (obj = Owned /\ cur = Trans /\ owned)
ObjInv ==
    /\ pcS \in {"pick", "target"} \cup CalPcs => obj = Nil
    /\ pcS \in {"init", "loop", "over"} => obj = Nil \/ (obj = Cal /\ cur = Cal)
    /\ pcS \in ScanPcs => ScanTurn
    /\ pcS = "gone" => obj = Nil \/ ScanTurn
    /\ pcS = "loop" /\ cur = Cal => Cal \notin fresh \/ obj = Cal \/ Cal \in finished

\* An owned object has an owner, which has had a slice.
OwnedInv ==
    /\ owned => Trans \notin fresh /\ (Trans \in listed \/ cur = Trans)
    /\ cur = Trans /\ pcS \in {"target"} \cup CalPcs => ~owned /\ Trans \notin fresh
    /\ cur = Trans /\ pcS = "gone" => (owned <=> obj = Owned)

\* DoCalibration waits with page_updated, and is woken only there.
WaitInv ==
    /\ mutexPU => pcS = "dc_wait"
    /\ woken => pcS = "dc_wait" /\ ~mutexPU

PlaceInv == ControlOK /\ TurnInv /\ ObjInv /\ OwnedInv /\ WaitInv

\* A step that leaves the control of the scheduler thread alone.
LEMMA PlaceKept ==
    ASSUME PlaceInv,
           UNCHANGED <<cci, objVars, pcS, cur, obj, dying, schedLock, pageLock, mutexPU>>,
           pcG' \in {"idle", "start", "buttons", "update"}, page' \in Pages \cup {Nil},
           pcG' = "start" => page' \in Pages,
           clicks' \in 0 .. MaxClicks, stopped' \in BOOLEAN, woken' \in BOOLEAN,
           woken' => pcS = "dc_wait" /\ ~mutexPU
    PROVE  PlaceInv'
  BY DEF PlaceInv, ControlOK, TurnInv, ObjInv, OwnedInv, WaitInv, ScanTurn, objVars, CalPcs,
         ScanPcs

\* Init.
LEMMA PlaceInit == Init => PlaceInv
<1> SUFFICES ASSUME Init PROVE PlaceInv
  OBVIOUS
<1> USE Names DEF Init, Pages
<1>1. ControlOK
  BY DEF ControlOK
<1>2. TurnInv /\ ObjInv /\ OwnedInv /\ WaitInv
  BY DEF TurnInv, ObjInv, OwnedInv, WaitInv, CalPcs, ScanPcs
<1> QED
  BY <1>1, <1>2 DEF PlaceInv

\* Every step preserves it.
LEMMA PlaceStep == PlaceInv /\ [Next]_vars => PlaceInv'
<1> SUFFICES ASSUME PlaceInv, [Next]_vars PROVE PlaceInv'
  OBVIOUS
<1> USE Names DEF listVars, objVars, lockVars, guiVars, Pages, RunObj
<1>1. CASE \E r \in Pages : Pick(r)
  <2> USE <1>1 DEF Pick
  <2>0. (fresh \cup finished \subseteq listed \cup {cur} \cup (IF owned THEN {Owned} ELSE {}))'
    BY DEF PlaceInv, ControlOK, TurnInv, ObjInv, OwnedInv, ScanTurn, CalPcs, ScanPcs
  <2>1. ControlOK'
    BY <2>0 DEF PlaceInv, ControlOK, ObjInv, TurnInv, ScanTurn, ScanPcs
  <2>2. TurnInv'
    BY DEF PlaceInv, ControlOK, TurnInv, ObjInv, OwnedInv, WaitInv, ScanTurn, CalPcs, ScanPcs
  <2>3. ObjInv'
    BY DEF PlaceInv, ControlOK, TurnInv, ObjInv, OwnedInv, WaitInv, ScanTurn, CalPcs, ScanPcs
  <2>4. OwnedInv'
    BY DEF PlaceInv, ControlOK, TurnInv, ObjInv, OwnedInv, WaitInv, ScanTurn, CalPcs, ScanPcs
  <2>5. WaitInv'
    BY DEF PlaceInv, ControlOK, TurnInv, ObjInv, OwnedInv, WaitInv, ScanTurn, CalPcs, ScanPcs
  <2> QED
    BY <2>1, <2>2, <2>3, <2>4, <2>5 DEF PlaceInv
<1>2. CASE InitExperimentStart
  <2> USE <1>2 DEF InitExperimentStart
  <2>1. ControlOK'
    BY DEF PlaceInv, ControlOK, TurnInv, ObjInv, OwnedInv, WaitInv, ScanTurn, CalPcs, ScanPcs
  <2>2. TurnInv'
    BY DEF PlaceInv, ControlOK, TurnInv, ObjInv, OwnedInv, WaitInv, ScanTurn, CalPcs, ScanPcs
  <2>3. ObjInv'
    BY DEF PlaceInv, ControlOK, TurnInv, ObjInv, OwnedInv, WaitInv, ScanTurn, CalPcs, ScanPcs
  <2>4. OwnedInv'
    BY DEF PlaceInv, ControlOK, TurnInv, ObjInv, OwnedInv, WaitInv, ScanTurn, CalPcs, ScanPcs
  <2>5. WaitInv'
    BY DEF PlaceInv, ControlOK, TurnInv, ObjInv, OwnedInv, WaitInv, ScanTurn, CalPcs, ScanPcs
  <2> QED
    BY <2>1, <2>2, <2>3, <2>4, <2>5 DEF PlaceInv
<1>3. CASE CreateScan
  <2> USE <1>3 DEF CreateScan
  <2>1. ControlOK'
    BY DEF PlaceInv, ControlOK, TurnInv, ObjInv, OwnedInv, WaitInv, ScanTurn, CalPcs, ScanPcs
  <2>2. TurnInv'
    BY DEF PlaceInv, ControlOK, TurnInv, ObjInv, OwnedInv, WaitInv, ScanTurn, CalPcs, ScanPcs
  <2>3. ObjInv'
    BY DEF PlaceInv, ControlOK, TurnInv, ObjInv, OwnedInv, WaitInv, ScanTurn, CalPcs, ScanPcs
  <2>4. OwnedInv'
    BY DEF PlaceInv, ControlOK, TurnInv, ObjInv, OwnedInv, WaitInv, ScanTurn, CalPcs, ScanPcs
  <2>5. WaitInv'
    BY DEF PlaceInv, ControlOK, TurnInv, ObjInv, OwnedInv, WaitInv, ScanTurn, CalPcs, ScanPcs
  <2> QED
    BY <2>1, <2>2, <2>3, <2>4, <2>5 DEF PlaceInv
<1>4. CASE LoopOver
  <2> USE <1>4 DEF LoopOver
  <2>1. ControlOK'
    BY DEF PlaceInv, ControlOK, TurnInv, ObjInv, OwnedInv, WaitInv, ScanTurn, CalPcs, ScanPcs
  <2>2. TurnInv'
    BY DEF PlaceInv, ControlOK, TurnInv, ObjInv, OwnedInv, WaitInv, ScanTurn, CalPcs, ScanPcs
  <2>3. ObjInv'
    BY DEF PlaceInv, ControlOK, TurnInv, ObjInv, OwnedInv, WaitInv, ScanTurn, CalPcs, ScanPcs
  <2>4. OwnedInv'
    BY DEF PlaceInv, ControlOK, TurnInv, ObjInv, OwnedInv, WaitInv, ScanTurn, CalPcs, ScanPcs
  <2>5. WaitInv'
    BY DEF PlaceInv, ControlOK, TurnInv, ObjInv, OwnedInv, WaitInv, ScanTurn, CalPcs, ScanPcs
  <2> QED
    BY <2>1, <2>2, <2>3, <2>4, <2>5 DEF PlaceInv
<1>5. CASE RunCal
  <2> USE <1>5 DEF RunCal
  <2>1. ControlOK'
    BY DEF PlaceInv, ControlOK, TurnInv, ObjInv, OwnedInv, WaitInv, ScanTurn, CalPcs, ScanPcs
  <2>2. TurnInv'
    BY DEF PlaceInv, ControlOK, TurnInv, ObjInv, OwnedInv, WaitInv, ScanTurn, CalPcs, ScanPcs
  <2>3. ObjInv'
    BY DEF PlaceInv, ControlOK, TurnInv, ObjInv, OwnedInv, WaitInv, ScanTurn, CalPcs, ScanPcs
  <2>4. OwnedInv'
    BY DEF PlaceInv, ControlOK, TurnInv, ObjInv, OwnedInv, WaitInv, ScanTurn, CalPcs, ScanPcs
  <2>5. WaitInv'
    BY DEF PlaceInv, ControlOK, TurnInv, ObjInv, OwnedInv, WaitInv, ScanTurn, CalPcs, ScanPcs
  <2> QED
    BY <2>1, <2>2, <2>3, <2>4, <2>5 DEF PlaceInv
<1>6. CASE RunAlign
  <2> USE <1>6 DEF RunAlign
  <2>1. ControlOK'
    BY DEF PlaceInv, ControlOK, TurnInv, ObjInv, OwnedInv, WaitInv, ScanTurn, CalPcs, ScanPcs
  <2>2. TurnInv'
    BY DEF PlaceInv, ControlOK, TurnInv, ObjInv, OwnedInv, WaitInv, ScanTurn, CalPcs, ScanPcs
  <2>3. ObjInv'
    BY DEF PlaceInv, ControlOK, TurnInv, ObjInv, OwnedInv, WaitInv, ScanTurn, CalPcs, ScanPcs
  <2>4. OwnedInv'
    BY DEF PlaceInv, ControlOK, TurnInv, ObjInv, OwnedInv, WaitInv, ScanTurn, CalPcs, ScanPcs
  <2>5. WaitInv'
    BY DEF PlaceInv, ControlOK, TurnInv, ObjInv, OwnedInv, WaitInv, ScanTurn, CalPcs, ScanPcs
  <2> QED
    BY <2>1, <2>2, <2>3, <2>4, <2>5 DEF PlaceInv
<1>7. CASE RunOwned
  <2> USE <1>7 DEF RunOwned
  <2>1. ControlOK'
    BY DEF PlaceInv, ControlOK, TurnInv, ObjInv, OwnedInv, WaitInv, ScanTurn, CalPcs, ScanPcs
  <2>2. TurnInv'
    BY DEF PlaceInv, ControlOK, TurnInv, ObjInv, OwnedInv, WaitInv, ScanTurn, CalPcs, ScanPcs
  <2>3. ObjInv'
    BY DEF PlaceInv, ControlOK, TurnInv, ObjInv, OwnedInv, WaitInv, ScanTurn, CalPcs, ScanPcs
  <2>4. OwnedInv'
    BY DEF PlaceInv, ControlOK, TurnInv, ObjInv, OwnedInv, WaitInv, ScanTurn, CalPcs, ScanPcs
  <2>5. WaitInv'
    BY DEF PlaceInv, ControlOK, TurnInv, ObjInv, OwnedInv, WaitInv, ScanTurn, CalPcs, ScanPcs
  <2> QED
    BY <2>1, <2>2, <2>3, <2>4, <2>5 DEF PlaceInv
<1>8. CASE RunTrans
  <2> USE <1>8 DEF RunTrans
  <2>1. ControlOK'
    BY DEF PlaceInv, ControlOK, TurnInv, ObjInv, OwnedInv, WaitInv, ScanTurn, CalPcs, ScanPcs
  <2>2. TurnInv'
    BY DEF PlaceInv, ControlOK, TurnInv, ObjInv, OwnedInv, WaitInv, ScanTurn, CalPcs, ScanPcs
  <2>3. ObjInv'
    BY DEF PlaceInv, ControlOK, TurnInv, ObjInv, OwnedInv, WaitInv, ScanTurn, CalPcs, ScanPcs
  <2>4. OwnedInv'
    BY DEF PlaceInv, ControlOK, TurnInv, ObjInv, OwnedInv, WaitInv, ScanTurn, CalPcs, ScanPcs
  <2>5. WaitInv'
    BY DEF PlaceInv, ControlOK, TurnInv, ObjInv, OwnedInv, WaitInv, ScanTurn, CalPcs, ScanPcs
  <2> QED
    BY <2>1, <2>2, <2>3, <2>4, <2>5 DEF PlaceInv
<1>9. CASE TargetSelected
  <2> USE <1>9 DEF TargetSelected
  <2>1. ControlOK'
    BY DEF PlaceInv, ControlOK, TurnInv, ObjInv, OwnedInv, WaitInv, ScanTurn, CalPcs, ScanPcs
  <2>2. TurnInv'
    BY DEF PlaceInv, ControlOK, TurnInv, ObjInv, OwnedInv, WaitInv, ScanTurn, CalPcs, ScanPcs
  <2>3. ObjInv'
    BY DEF PlaceInv, ControlOK, TurnInv, ObjInv, OwnedInv, WaitInv, ScanTurn, CalPcs, ScanPcs
  <2>4. OwnedInv'
    BY DEF PlaceInv, ControlOK, TurnInv, ObjInv, OwnedInv, WaitInv, ScanTurn, CalPcs, ScanPcs
  <2>5. WaitInv'
    BY DEF PlaceInv, ControlOK, TurnInv, ObjInv, OwnedInv, WaitInv, ScanTurn, CalPcs, ScanPcs
  <2> QED
    BY <2>1, <2>2, <2>3, <2>4, <2>5 DEF PlaceInv
<1>10. CASE ScanPoint
  <2> USE <1>10 DEF ScanPoint
  <2>1. ControlOK'
    BY DEF PlaceInv, ControlOK, TurnInv, ObjInv, OwnedInv, WaitInv, ScanTurn, CalPcs, ScanPcs
  <2>2. TurnInv'
    BY DEF PlaceInv, ControlOK, TurnInv, ObjInv, OwnedInv, WaitInv, ScanTurn, CalPcs, ScanPcs
  <2>3. ObjInv'
    BY DEF PlaceInv, ControlOK, TurnInv, ObjInv, OwnedInv, WaitInv, ScanTurn, CalPcs, ScanPcs
  <2>4. OwnedInv'
    BY DEF PlaceInv, ControlOK, TurnInv, ObjInv, OwnedInv, WaitInv, ScanTurn, CalPcs, ScanPcs
  <2>5. WaitInv'
    BY DEF PlaceInv, ControlOK, TurnInv, ObjInv, OwnedInv, WaitInv, ScanTurn, CalPcs, ScanPcs
  <2> QED
    BY <2>1, <2>2, <2>3, <2>4, <2>5 DEF PlaceInv
<1>11. CASE SetCurrentScan
  <2> USE <1>11 DEF SetCurrentScan
  <2>1. ControlOK'
    BY DEF PlaceInv, ControlOK, TurnInv, ObjInv, OwnedInv, WaitInv, ScanTurn, CalPcs, ScanPcs
  <2>2. TurnInv'
    BY DEF PlaceInv, ControlOK, TurnInv, ObjInv, OwnedInv, WaitInv, ScanTurn, CalPcs, ScanPcs
  <2>3. ObjInv'
    BY DEF PlaceInv, ControlOK, TurnInv, ObjInv, OwnedInv, WaitInv, ScanTurn, CalPcs, ScanPcs
  <2>4. OwnedInv'
    BY DEF PlaceInv, ControlOK, TurnInv, ObjInv, OwnedInv, WaitInv, ScanTurn, CalPcs, ScanPcs
  <2>5. WaitInv'
    BY DEF PlaceInv, ControlOK, TurnInv, ObjInv, OwnedInv, WaitInv, ScanTurn, CalPcs, ScanPcs
  <2> QED
    BY <2>1, <2>2, <2>3, <2>4, <2>5 DEF PlaceInv
<1>12. CASE LockAndPost
  <2> USE <1>12 DEF LockAndPost
  <2>1. ControlOK'
    BY DEF PlaceInv, ControlOK, TurnInv, ObjInv, OwnedInv, WaitInv, ScanTurn, CalPcs, ScanPcs
  <2>2. TurnInv'
    BY DEF PlaceInv, ControlOK, TurnInv, ObjInv, OwnedInv, WaitInv, ScanTurn, CalPcs, ScanPcs
  <2>3. ObjInv'
    BY DEF PlaceInv, ControlOK, TurnInv, ObjInv, OwnedInv, WaitInv, ScanTurn, CalPcs, ScanPcs
  <2>4. OwnedInv'
    BY DEF PlaceInv, ControlOK, TurnInv, ObjInv, OwnedInv, WaitInv, ScanTurn, CalPcs, ScanPcs
  <2>5. WaitInv'
    BY DEF PlaceInv, ControlOK, TurnInv, ObjInv, OwnedInv, WaitInv, ScanTurn, CalPcs, ScanPcs
  <2> QED
    BY <2>1, <2>2, <2>3, <2>4, <2>5 DEF PlaceInv
<1>13. CASE Wait
  <2> USE <1>13 DEF Wait
  <2>0. (fresh \cup finished \subseteq listed \cup {cur} \cup (IF owned THEN {Owned} ELSE {}))'
    BY DEF PlaceInv, ControlOK, TurnInv, ObjInv, OwnedInv, ScanTurn, CalPcs, ScanPcs
  <2>a. (/\ cci \in {Nil, Trans, Align} /\ listed \subseteq Pages /\ owned \in BOOLEAN
         /\ pRunObject \in {Cal, Owned} /\ clicks \in 0 .. MaxClicks /\ stopped \in BOOLEAN)'
    BY DEF PlaceInv, ControlOK
  <2>b. (/\ pageLock \in BOOLEAN /\ mutexPU \in BOOLEAN /\ woken \in BOOLEAN
         /\ pcG \in {"idle", "start", "buttons", "update"} /\ page \in Pages \cup {Nil})'
    BY DEF PlaceInv, ControlOK
  <2>c. (cur \in Pages \cup {Nil} /\ obj \in {Cal, Owned, Nil} /\ dying \in BOOLEAN
         /\ schedLock \in BOOLEAN)'
    BY DEF PlaceInv, ControlOK
  <2>d. pcS' \in {"pick", "init", "loop", "dc_set", "dc_post", "dc_wait", "target", "plots",
                  "calrun", "over", "finish", "report", "gone"}
    BY DEF PlaceInv, ControlOK
  <2>1. ControlOK'
    BY <2>0, <2>a, <2>b, <2>c, <2>d DEF ControlOK
  <2>2. TurnInv'
    BY DEF PlaceInv, ControlOK, TurnInv, ObjInv, OwnedInv, WaitInv, ScanTurn, CalPcs, ScanPcs
  <2>3. ObjInv'
    BY DEF PlaceInv, ControlOK, TurnInv, ObjInv, OwnedInv, WaitInv, ScanTurn, CalPcs, ScanPcs
  <2>4. OwnedInv'
    BY DEF PlaceInv, ControlOK, TurnInv, ObjInv, OwnedInv, WaitInv, ScanTurn, CalPcs, ScanPcs
  <2>5. WaitInv'
    BY DEF PlaceInv, ControlOK, TurnInv, ObjInv, OwnedInv, WaitInv, ScanTurn, CalPcs, ScanPcs
  <2> QED
    BY <2>1, <2>2, <2>3, <2>4, <2>5 DEF PlaceInv
<1>14. CASE StartCalibration
  <2> USE <1>14 DEF StartCalibration, Start
  <2>0. (fresh \cup finished \subseteq listed \cup {cur} \cup (IF owned THEN {Owned} ELSE {}))'
    BY DEF PlaceInv, ControlOK, TurnInv, ObjInv, OwnedInv, ScanTurn, CalPcs, ScanPcs
  <2>a. (/\ cci \in {Nil, Trans, Align} /\ listed \subseteq Pages /\ owned \in BOOLEAN
         /\ pRunObject \in {Cal, Owned} /\ clicks \in 0 .. MaxClicks /\ stopped \in BOOLEAN)'
    BY DEF PlaceInv, ControlOK
  <2>b. (/\ pageLock \in BOOLEAN /\ mutexPU \in BOOLEAN /\ woken \in BOOLEAN
         /\ pcG \in {"idle", "start", "buttons", "update"} /\ page \in Pages \cup {Nil})'
    BY DEF PlaceInv, ControlOK
  <2>c. (cur \in Pages \cup {Nil} /\ obj \in {Cal, Owned, Nil} /\ dying \in BOOLEAN
         /\ schedLock \in BOOLEAN)'
    BY DEF PlaceInv, ControlOK
  <2>d. pcS' \in {"pick", "init", "loop", "dc_set", "dc_post", "dc_wait", "target", "plots",
                  "calrun", "over", "finish", "report", "gone"}
    BY DEF PlaceInv, ControlOK
  <2>1. ControlOK'
    BY <2>0, <2>a, <2>b, <2>c, <2>d DEF ControlOK
  <2>2. TurnInv'
    BY DEF PlaceInv, ControlOK, TurnInv, ObjInv, OwnedInv, WaitInv, ScanTurn, CalPcs, ScanPcs
  <2>3. ObjInv'
    BY DEF PlaceInv, ControlOK, TurnInv, ObjInv, OwnedInv, WaitInv, ScanTurn, CalPcs, ScanPcs
  <2>4. OwnedInv'
    BY DEF PlaceInv, ControlOK, TurnInv, ObjInv, OwnedInv, WaitInv, ScanTurn, CalPcs, ScanPcs
  <2>5. WaitInv'
    BY DEF PlaceInv, ControlOK, TurnInv, ObjInv, OwnedInv, WaitInv, ScanTurn, CalPcs, ScanPcs
  <2> QED
    BY <2>1, <2>2, <2>3, <2>4, <2>5 DEF PlaceInv
<1>15. CASE SliceOver
  <2> USE <1>15 DEF SliceOver
  <2>1. ControlOK'
    BY DEF PlaceInv, ControlOK, TurnInv, ObjInv, OwnedInv, WaitInv, ScanTurn, CalPcs, ScanPcs
  <2>2. TurnInv'
    BY DEF PlaceInv, ControlOK, TurnInv, ObjInv, OwnedInv, WaitInv, ScanTurn, CalPcs, ScanPcs
  <2>3. ObjInv'
    BY DEF PlaceInv, ControlOK, TurnInv, ObjInv, OwnedInv, WaitInv, ScanTurn, CalPcs, ScanPcs
  <2>4. OwnedInv'
    BY DEF PlaceInv, ControlOK, TurnInv, ObjInv, OwnedInv, WaitInv, ScanTurn, CalPcs, ScanPcs
  <2>5. WaitInv'
    BY DEF PlaceInv, ControlOK, TurnInv, ObjInv, OwnedInv, WaitInv, ScanTurn, CalPcs, ScanPcs
  <2> QED
    BY <2>1, <2>2, <2>3, <2>4, <2>5 DEF PlaceInv
<1>16. CASE StopExperiment
  <2> USE <1>16 DEF StopExperiment
  <2>1. ControlOK'
    BY DEF PlaceInv, ControlOK, TurnInv, ObjInv, OwnedInv, WaitInv, ScanTurn, CalPcs, ScanPcs
  <2>2. TurnInv'
    BY DEF PlaceInv, ControlOK, TurnInv, ObjInv, OwnedInv, WaitInv, ScanTurn, CalPcs, ScanPcs
  <2>3. ObjInv'
    BY DEF PlaceInv, ControlOK, TurnInv, ObjInv, OwnedInv, WaitInv, ScanTurn, CalPcs, ScanPcs
  <2>4. OwnedInv'
    BY DEF PlaceInv, ControlOK, TurnInv, ObjInv, OwnedInv, WaitInv, ScanTurn, CalPcs, ScanPcs
  <2>5. WaitInv'
    BY DEF PlaceInv, ControlOK, TurnInv, ObjInv, OwnedInv, WaitInv, ScanTurn, CalPcs, ScanPcs
  <2> QED
    BY <2>1, <2>2, <2>3, <2>4, <2>5 DEF PlaceInv
<1>17. CASE FinishRun
  <2> USE <1>17 DEF FinishRun
  <2>1. ControlOK'
    BY DEF PlaceInv, ControlOK, TurnInv, ObjInv, OwnedInv, WaitInv, ScanTurn, CalPcs, ScanPcs
  <2>2. TurnInv'
    BY DEF PlaceInv, ControlOK, TurnInv, ObjInv, OwnedInv, WaitInv, ScanTurn, CalPcs, ScanPcs
  <2>3. ObjInv'
    BY DEF PlaceInv, ControlOK, TurnInv, ObjInv, OwnedInv, WaitInv, ScanTurn, CalPcs, ScanPcs
  <2>4. OwnedInv'
    BY DEF PlaceInv, ControlOK, TurnInv, ObjInv, OwnedInv, WaitInv, ScanTurn, CalPcs, ScanPcs
  <2>5. WaitInv'
    BY DEF PlaceInv, ControlOK, TurnInv, ObjInv, OwnedInv, WaitInv, ScanTurn, CalPcs, ScanPcs
  <2> QED
    BY <2>1, <2>2, <2>3, <2>4, <2>5 DEF PlaceInv
<1>18. CASE Report
  <2> USE <1>18 DEF Report, DidCalibration, Start
  <2>1. (fresh \cup finished \subseteq listed \cup {cur} \cup (IF owned THEN {Owned} ELSE {}))'
    BY DEF PlaceInv, ControlOK, TurnInv, ObjInv, OwnedInv, ScanTurn, CalPcs, ScanPcs
  <2>2. listed' \subseteq Pages /\ pRunObject' \in {Cal, Owned}
    BY DEF PlaceInv, ControlOK
  <2>3. /\ cci' = Nil /\ pcS' = "gone" /\ pageLock' = FALSE
        /\ UNCHANGED <<owned, cur, obj, dying, schedLock, mutexPU, woken, pcG, page>>
        /\ UNCHANGED <<clicks, stopped>>
    BY DEF guiVars, Post
  <2>4. ControlOK'
    <3> USE DEF PlaceInv, ControlOK
    <3>1. /\ cci' \in {Nil, Trans, Align} /\ owned' \in BOOLEAN
          /\ cur' \in Pages \cup {Nil} /\ obj' \in {Cal, Owned, Nil} /\ dying' \in BOOLEAN
      BY <2>3
    <3>2. /\ schedLock' \in BOOLEAN /\ pageLock' \in BOOLEAN /\ mutexPU' \in BOOLEAN
          /\ woken' \in BOOLEAN
          /\ pcG' \in {"idle", "start", "buttons", "update"} /\ page' \in Pages \cup {Nil}
          /\ clicks' \in 0 .. MaxClicks /\ stopped' \in BOOLEAN
      BY <2>3
    <3> QED
      BY <2>1, <2>2, <2>3, <3>1, <3>2
  <2>5. TurnInv'
    BY DEF PlaceInv, ControlOK, TurnInv, ObjInv, OwnedInv, WaitInv, ScanTurn, CalPcs, ScanPcs
  <2>6. ObjInv'
    BY DEF PlaceInv, ControlOK, TurnInv, ObjInv, OwnedInv, WaitInv, ScanTurn, CalPcs, ScanPcs
  <2>7. OwnedInv'
    BY DEF PlaceInv, ControlOK, TurnInv, ObjInv, OwnedInv, WaitInv, ScanTurn, CalPcs, ScanPcs
  <2>8. WaitInv'
    BY DEF PlaceInv, ControlOK, TurnInv, ObjInv, OwnedInv, WaitInv, ScanTurn, CalPcs, ScanPcs
  <2> QED
    BY <2>4, <2>5, <2>6, <2>7, <2>8 DEF PlaceInv
<1>19. CASE Gone
  <2> USE <1>19 DEF Gone
  <2>0. (fresh \cup finished \subseteq listed \cup {cur} \cup (IF owned THEN {Owned} ELSE {}))'
    BY DEF PlaceInv, ControlOK, TurnInv, ObjInv, OwnedInv, ScanTurn, CalPcs, ScanPcs
  <2>a. (/\ cci \in {Nil, Trans, Align} /\ listed \subseteq Pages /\ owned \in BOOLEAN
         /\ pRunObject \in {Cal, Owned} /\ clicks \in 0 .. MaxClicks /\ stopped \in BOOLEAN)'
    BY DEF PlaceInv, ControlOK
  <2>b. (/\ pageLock \in BOOLEAN /\ mutexPU \in BOOLEAN /\ woken \in BOOLEAN
         /\ pcG \in {"idle", "start", "buttons", "update"} /\ page \in Pages \cup {Nil})'
    BY DEF PlaceInv, ControlOK
  <2>c. (cur \in Pages \cup {Nil} /\ obj \in {Cal, Owned, Nil} /\ dying \in BOOLEAN
         /\ schedLock \in BOOLEAN)'
    BY DEF PlaceInv, ControlOK
  <2>d. pcS' \in {"pick", "init", "loop", "dc_set", "dc_post", "dc_wait", "target", "plots",
                  "calrun", "over", "finish", "report", "gone"}
    BY DEF PlaceInv, ControlOK
  <2>1. ControlOK'
    BY <2>0, <2>a, <2>b, <2>c, <2>d DEF ControlOK
  <2>2. TurnInv'
    BY DEF PlaceInv, ControlOK, TurnInv, ObjInv, OwnedInv, WaitInv, ScanTurn, CalPcs, ScanPcs
  <2>3. ObjInv'
    BY DEF PlaceInv, ControlOK, TurnInv, ObjInv, OwnedInv, WaitInv, ScanTurn, CalPcs, ScanPcs
  <2>4. OwnedInv'
    BY DEF PlaceInv, ControlOK, TurnInv, ObjInv, OwnedInv, WaitInv, ScanTurn, CalPcs, ScanPcs
  <2>5. WaitInv'
    BY DEF PlaceInv, ControlOK, TurnInv, ObjInv, OwnedInv, WaitInv, ScanTurn, CalPcs, ScanPcs
  <2> QED
    BY <2>1, <2>2, <2>3, <2>4, <2>5 DEF PlaceInv
<1>20. CASE GuiStart
  <2> USE <1>20 DEF GuiStart, Start
  <2>1. ControlOK'
    BY DEF PlaceInv, ControlOK, TurnInv, ObjInv, OwnedInv, WaitInv, ScanTurn, CalPcs, ScanPcs
  <2>2. TurnInv'
    BY DEF PlaceInv, ControlOK, TurnInv, ObjInv, OwnedInv, WaitInv, ScanTurn, CalPcs, ScanPcs
  <2>3. ObjInv'
    BY DEF PlaceInv, ControlOK, TurnInv, ObjInv, OwnedInv, WaitInv, ScanTurn, CalPcs, ScanPcs
  <2>4. OwnedInv'
    BY DEF PlaceInv, ControlOK, TurnInv, ObjInv, OwnedInv, WaitInv, ScanTurn, CalPcs, ScanPcs
  <2>5. WaitInv'
    BY DEF PlaceInv, ControlOK, TurnInv, ObjInv, OwnedInv, WaitInv, ScanTurn, CalPcs, ScanPcs
  <2> QED
    BY <2>1, <2>2, <2>3, <2>4, <2>5 DEF PlaceInv
<1>21. CASE \E p \in Pages : ClickRun(p)
  BY <1>21, PlaceKept DEF ClickRun, Click, PlaceInv, ControlOK, WaitInv
<1>22. CASE \E i \in Range(Items[Trans]) : Recalibrate(i)
  BY <1>22, PlaceKept DEF Recalibrate, Click, PlaceInv, ControlOK, WaitInv
<1>23. CASE \E p \in Pages : ClickStop(p)
  <2> USE <1>23 DEF ClickStop, Click
  <2>1. ControlOK'
    BY DEF PlaceInv, ControlOK, TurnInv, ObjInv, OwnedInv, WaitInv, ScanTurn, CalPcs, ScanPcs
  <2>2. TurnInv'
    BY DEF PlaceInv, ControlOK, TurnInv, ObjInv, OwnedInv, WaitInv, ScanTurn, CalPcs, ScanPcs
  <2>3. ObjInv'
    BY DEF PlaceInv, ControlOK, TurnInv, ObjInv, OwnedInv, WaitInv, ScanTurn, CalPcs, ScanPcs
  <2>4. OwnedInv'
    BY DEF PlaceInv, ControlOK, TurnInv, ObjInv, OwnedInv, WaitInv, ScanTurn, CalPcs, ScanPcs
  <2>5. WaitInv'
    BY DEF PlaceInv, ControlOK, TurnInv, ObjInv, OwnedInv, WaitInv, ScanTurn, CalPcs, ScanPcs
  <2> QED
    BY <2>1, <2>2, <2>3, <2>4, <2>5 DEF PlaceInv
<1>24. CASE SelectPage \/ UpdateButtons \/ NextEvent \/ UpdateData
  <2>1. UNCHANGED <<cci, objVars, pcS, cur, obj, dying, schedLock, pageLock, mutexPU, stopped>>
    BY <1>24 DEF SelectPage, UpdateButtons, NextEvent, UpdateData
  <2>2. /\ pcG' \in {"idle", "buttons", "update"} /\ page' \in Pages \cup {Nil}
        /\ clicks' \in 0 .. MaxClicks /\ stopped' \in BOOLEAN
    BY <1>24 DEF SelectPage, UpdateButtons, NextEvent, UpdateData, Click, PlaceInv, ControlOK
  <2>3. woken' \in BOOLEAN /\ (woken' => pcS = "dc_wait" /\ ~mutexPU)
    <3>1. CASE SelectPage \/ UpdateButtons \/ NextEvent
      BY <1>24, <3>1 DEF SelectPage, UpdateButtons, NextEvent, PlaceInv, ControlOK, WaitInv
    <3>2. CASE UpdateData
      BY <3>2 DEF UpdateData
    <3> QED
      BY <1>24, <3>1, <3>2
  <2> QED
    BY <2>1, <2>2, <2>3, PlaceKept
<1>25. CASE UNCHANGED vars
  BY <1>25, PlaceKept DEF vars, PlaceInv, ControlOK, TurnInv, WaitInv
<1> QED
  BY <1>1, <1>2, <1>3, <1>4, <1>5, <1>6, <1>7, <1>8, <1>9, <1>10, <1>11, <1>12, <1>13, <1>14, <1>15, <1>16, <1>17, <1>18, <1>19, <1>20, <1>21, <1>22, <1>23, <1>24, <1>25
     DEF Next, SchedulerStep, GuiStep, UserStep, Idle

-----------------------------------------------------------------------------
(* The lists of pending calibrations.                                          *)

TransLists == Suffixes(Items[Trans]) \cup {<<i>> : i \in Range(Items[Trans])}
AlignLists == Suffixes(Items[Align])

LEMMA ItemSequences == Items[Trans] \in Seq(Item) /\ Items[Align] \in Seq(Item)
  BY CalibrationsAssumption

\* A page's list is one of these: it starts with all items or one, and loses the first.
LEMMA ListsOfTrans ==
    /\ TransLists \subseteq Seq(Item)
    /\ <<>> \in TransLists /\ Items[Trans] \in TransLists
    /\ \A i \in Range(Items[Trans]) : <<i>> \in TransLists
    /\ \A t \in TransLists : t # <<>> => Tail(t) \in TransLists /\ Head(t) \in Item
<1>1. Items[Trans] \in Seq(Item) /\ Range(Items[Trans]) \subseteq Item
  BY ItemSequences DEF Item
<1>2. \A i \in Range(Items[Trans]) : <<i>> \in Seq(Item) /\ Tail(<<i>>) = <<>>
  BY <1>1
<1>3. <<>> \in Suffixes(Items[Trans]) /\ Items[Trans] \in Suffixes(Items[Trans])
  BY <1>1, SuffixEmpty, SuffixWhole
<1>4. TransLists \subseteq Seq(Item)
  BY <1>1, <1>2, SuffixItems DEF TransLists
<1>5. \A t \in TransLists : t # <<>> => Tail(t) \in TransLists
  BY <1>1, <1>2, <1>3, SuffixTail DEF TransLists
<1>6. \A t \in Seq(Item) : t # <<>> => Head(t) \in Item
  OBVIOUS
<1> QED
  BY <1>3, <1>4, <1>5, <1>6 DEF TransLists

LEMMA ListsOfAlign ==
    /\ AlignLists \subseteq Seq(Item)
    /\ <<>> \in AlignLists /\ Items[Align] \in AlignLists
    /\ \A t \in AlignLists : t # <<>> => Tail(t) \in AlignLists /\ Head(t) \in Item
<1>1. Items[Align] \in Seq(Item)
  BY ItemSequences
<1>2. \A t \in Seq(Item) : t # <<>> => Head(t) \in Item
  OBVIOUS
<1> QED
  BY <1>1, <1>2, SuffixEmpty, SuffixWhole, SuffixItems, SuffixTail DEF AlignLists

\* The part of TypeOK about the lists and the calibration page.
QueueOK ==
    /\ DOMAIN queue = {Trans, Align} /\ queue = [p \in {Trans, Align} |-> queue[p]]
    /\ queue[Trans] \in TransLists /\ queue[Align] \in AlignLists
    /\ params \in Item \cup {Nil} /\ scan \in Item \cup {Nil}

\* The item that is being calibrated is still in its list.
PendingInv ==
    /\ cci # Nil => queue[cci] # <<>>
    /\ pcS \in {"target", "dc_set"} => queue[cur] # <<>>

QueueInv == QueueOK /\ PendingInv

\* A step that leaves the lists alone.
LEMMA QueueKept ==
    ASSUME QueueInv, UNCHANGED <<queue, cci, params>>, scan' \in {scan, params},
           pcS' \in {"target", "dc_set"} => queue[cur'] # <<>>
    PROVE  QueueInv'
  BY DEF QueueInv, QueueOK, PendingInv

LEMMA QueueInit == Init => QueueInv
  BY ListsOfTrans, ListsOfAlign DEF Init, QueueInv, QueueOK, PendingInv

\* Every step preserves it.
LEMMA QueueStep == PlaceInv /\ QueueInv /\ [Next]_vars => QueueInv'
<1> SUFFICES ASSUME PlaceInv, QueueInv, [Next]_vars PROVE QueueInv'
  OBVIOUS
<1> USE DEF listVars, objVars, lockVars, guiVars
<1>1. CASE \/ \E r \in Pages : Pick(r)
           \/ CreateScan \/ LoopOver \/ RunCal \/ RunAlign \/ RunOwned
           \/ ScanPoint \/ LockAndPost \/ Wait \/ StartCalibration \/ SliceOver
           \/ StopExperiment \/ FinishRun \/ Gone
  <2>1. UNCHANGED <<queue, cci, params>> /\ scan' \in {scan, params}
    BY <1>1 DEF Pick, CreateScan, LoopOver, RunCal, RunAlign, RunOwned, ScanPoint, LockAndPost,
                Wait, StartCalibration, SliceOver, StopExperiment, FinishRun, Gone
  <2>2. pcS' \notin {"target", "dc_set"}
    BY <1>1 DEF Pick, CreateScan, LoopOver, RunCal, RunAlign, RunOwned, ScanPoint, LockAndPost,
                Wait, StartCalibration, SliceOver, StopExperiment, FinishRun, Gone
  <2> QED
    BY <2>1, <2>2, QueueKept
<1>2. CASE \/ GuiStart \/ UpdateButtons \/ NextEvent \/ UpdateData \/ SelectPage
           \/ \E p \in Pages : ClickStop(p)
  BY <1>2, QueueKept DEF GuiStart, UpdateButtons, NextEvent, UpdateData, SelectPage, ClickStop,
     QueueInv, PendingInv
<1>3. CASE RunTrans \/ TargetSelected
  BY <1>3, QueueKept DEF RunTrans, TargetSelected, QueueInv, PendingInv
<1>4. CASE InitExperimentStart
  <2>1. CASE cur = Trans
    <3>1. queue' = [queue EXCEPT ![Trans] = IF @ = <<>> THEN Items[Trans] ELSE @]
      BY <1>4, <2>1, Names DEF InitExperimentStart, FillList
    <3>2. UNCHANGED <<cci, params, scan>> /\ pcS' \notin {"target", "dc_set"}
      BY <1>4, <2>1, Names DEF InitExperimentStart
    <3>3. QueueOK'
      BY <3>1, <3>2, ListsOfTrans, Names DEF QueueInv, QueueOK
    <3>4. PendingInv'
      BY <3>1, <3>2, Names DEF QueueInv, QueueOK, PendingInv, PlaceInv, ControlOK
    <3> QED
      BY <3>3, <3>4 DEF QueueInv
  <2>2. CASE cur # Trans
    <3>1. UNCHANGED <<queue, cci, params, scan, cur>>
      BY <1>4, <2>2 DEF InitExperimentStart
    <3>2. pcS' \in {"target", "dc_set"} => queue[cur'] # <<>>
      BY <1>4, <2>2 DEF InitExperimentStart
    <3> QED
      BY <3>1, <3>2, QueueKept
  <2> QED
    BY <2>1, <2>2
<1>5. CASE SetCurrentScan
  <2>1. cur \in {Trans, Align} /\ queue[cur] # <<>>
    BY <1>5 DEF SetCurrentScan, PlaceInv, TurnInv, CalPcs, QueueInv, PendingInv
  <2>2. Head(queue[cur]) \in Item
    BY <2>1, ListsOfTrans, ListsOfAlign DEF QueueInv, QueueOK
  <2> QED
    BY <1>5, <2>1, <2>2 DEF SetCurrentScan, QueueInv, QueueOK, PendingInv
<1>6. CASE Report
  <2>1. /\ queue' = IF cci = Nil THEN queue ELSE [queue EXCEPT ![cci] = Tail(@)]
        /\ cci' = Nil /\ UNCHANGED <<params, scan>> /\ pcS' = "gone"
    BY <1>6 DEF Report, DidCalibration
  <2>2. cci \in {Nil, Trans, Align} /\ (cci # Nil => queue[cci] # <<>>)
    BY DEF PlaceInv, ControlOK, QueueInv, PendingInv
  <2>3. queue'[Trans] \in TransLists /\ queue'[Align] \in AlignLists
    BY <2>1, <2>2, ListsOfTrans, ListsOfAlign, Names DEF QueueInv, QueueOK
  <2>4. DOMAIN queue' = {Trans, Align} /\ queue' = [p \in {Trans, Align} |-> queue'[p]]
    BY <2>1, <2>2 DEF QueueInv, QueueOK
  <2> QED
    BY <2>1, <2>3, <2>4 DEF QueueInv, QueueOK, PendingInv
<1>7. CASE \E p \in Pages : ClickRun(p)
  <2>1. /\ queue' \in {queue, [queue EXCEPT ![Align] = Items[Align]]}
        /\ queue' # queue => queue[Align] = <<>>
        /\ UNCHANGED <<cci, params, scan, pcS, cur>>
    BY <1>7 DEF ClickRun
  <2>2. CASE queue' = queue
    BY <2>1, <2>2, QueueKept DEF QueueInv, PendingInv
  <2>3. CASE queue' # queue
    <3>1. queue' = [queue EXCEPT ![Align] = Items[Align]] /\ queue[Align] = <<>>
      BY <2>1, <2>3
    <3>2. QueueOK'
      BY <2>1, <3>1, ListsOfAlign, Names DEF QueueInv, QueueOK
    <3>3. cci \in {Nil, Trans} /\ (pcS \in {"target", "dc_set"} => cur = Trans)
      BY <3>1 DEF QueueInv, PendingInv, PlaceInv, ControlOK, TurnInv, CalPcs
    <3>4. PendingInv'
      BY <2>1, <3>1, <3>3, Names DEF QueueInv, QueueOK, PendingInv
    <3> QED
      BY <3>2, <3>4 DEF QueueInv
  <2> QED
    BY <2>2, <2>3
<1>8. ASSUME NEW i \in Range(Items[Trans]), Recalibrate(i)
      PROVE  QueueInv'
  <2>1. queue' = [queue EXCEPT ![Trans] = <<i>>] /\ UNCHANGED <<cci, params, scan, pcS, cur>>
    BY <1>8 DEF Recalibrate
  <2>2. QueueOK'
    BY <2>1, ListsOfTrans, Names DEF QueueInv, QueueOK
  <2>3. PendingInv'
    BY <2>1, Names DEF QueueInv, QueueOK, PendingInv, PlaceInv, ControlOK, TurnInv, CalPcs
  <2> QED
    BY <2>2, <2>3 DEF QueueInv
<1>9. CASE UNCHANGED vars
  BY <1>9, QueueKept DEF vars, QueueInv, PendingInv
<1> QED
  BY <1>1, <1>2, <1>3, <1>4, <1>5, <1>6, <1>7, <1>8, <1>9
     DEF Next, SchedulerStep, GuiStep, UserStep, Idle

-----------------------------------------------------------------------------
(* Which run objects of the calibration page have a scan.  An object gets one  *)
(* when InitExperimentStart returns, after a call that the GUI thread answered *)
(* and so after everything queued before it; it posts one update, at its end.  *)

CalReady ==
    \/ Cal \in listed \ fresh
    \/ obj = Cal /\ pcS \in {"loop", "calrun", "finish", "report"}
OwnedReady ==
    \/ owned /\ Owned \notin fresh /\ ~(obj = Owned /\ pcS \in {"plots", "gone"})
    \/ obj = Owned /\ pcS \in {"calrun", "finish", "report"}

\* Only the end of InitExperimentStart makes an object ready.
LEMMA ReadyStep ==
    PlaceInv /\ [Next]_vars /\ ~CreateScan =>
        (CalReady' => CalReady) /\ (OwnedReady' => OwnedReady)
<1> SUFFICES ASSUME PlaceInv, [Next]_vars, ~CreateScan
             PROVE  (CalReady' => CalReady) /\ (OwnedReady' => OwnedReady)
  OBVIOUS
<1> USE Names DEF listVars, objVars, lockVars, guiVars
<1>1. CASE \E r \in Pages : Pick(r)
  BY <1>1 DEF Pick, CalReady, OwnedReady, PlaceInv, TurnInv, ObjInv, OwnedInv,
     ScanTurn, CalPcs, ScanPcs
<1>2. CASE InitExperimentStart
  BY <1>2 DEF InitExperimentStart, CalReady, OwnedReady, PlaceInv, TurnInv, ObjInv, OwnedInv,
     ScanTurn, CalPcs, ScanPcs
<1>3. CASE LoopOver
  BY <1>3 DEF LoopOver, CalReady, OwnedReady, PlaceInv, TurnInv, ObjInv, OwnedInv,
     ScanTurn, CalPcs, ScanPcs
<1>4. CASE RunCal
  BY <1>4 DEF RunCal, CalReady, OwnedReady, PlaceInv, TurnInv, ObjInv, OwnedInv,
     ScanTurn, CalPcs, ScanPcs
<1>5. CASE RunAlign
  BY <1>5 DEF RunAlign, CalReady, OwnedReady, PlaceInv, TurnInv, ObjInv, OwnedInv,
     ScanTurn, CalPcs, ScanPcs
<1>6. CASE RunOwned
  BY <1>6 DEF RunOwned, CalReady, OwnedReady, PlaceInv, TurnInv, ObjInv, OwnedInv,
     ScanTurn, CalPcs, ScanPcs
<1>7. CASE RunTrans
  BY <1>7 DEF RunTrans, CalReady, OwnedReady, PlaceInv, TurnInv, ObjInv, OwnedInv,
     ScanTurn, CalPcs, ScanPcs
<1>8. CASE TargetSelected
  BY <1>8 DEF TargetSelected, CalReady, OwnedReady, PlaceInv, TurnInv, ObjInv, OwnedInv,
     ScanTurn, CalPcs, ScanPcs
<1>9. CASE ScanPoint
  BY <1>9 DEF ScanPoint, CalReady, OwnedReady, PlaceInv, TurnInv, ObjInv, OwnedInv,
     ScanTurn, CalPcs, ScanPcs
<1>10. CASE SetCurrentScan
  BY <1>10 DEF SetCurrentScan, CalReady, OwnedReady, PlaceInv, TurnInv, ObjInv, OwnedInv,
     ScanTurn, CalPcs, ScanPcs
<1>11. CASE LockAndPost
  BY <1>11 DEF LockAndPost, CalReady, OwnedReady, PlaceInv, TurnInv, ObjInv, OwnedInv,
     ScanTurn, CalPcs, ScanPcs
<1>12. CASE Wait
  BY <1>12 DEF Wait, CalReady, OwnedReady, PlaceInv, TurnInv, ObjInv, OwnedInv,
     ScanTurn, CalPcs, ScanPcs
<1>13. CASE StartCalibration
  BY <1>13 DEF StartCalibration, Start, CalReady, OwnedReady, PlaceInv, TurnInv, ObjInv, OwnedInv,
     ScanTurn, CalPcs, ScanPcs
<1>14. CASE SliceOver
  BY <1>14 DEF SliceOver, CalReady, OwnedReady, PlaceInv, TurnInv, ObjInv, OwnedInv,
     ScanTurn, CalPcs, ScanPcs
<1>15. CASE StopExperiment
  BY <1>15 DEF StopExperiment, CalReady, OwnedReady, PlaceInv, TurnInv, ObjInv, OwnedInv,
     ScanTurn, CalPcs, ScanPcs
<1>16. CASE FinishRun
  BY <1>16 DEF FinishRun, CalReady, OwnedReady, PlaceInv, TurnInv, ObjInv, OwnedInv,
     ScanTurn, CalPcs, ScanPcs
<1>17. CASE Report
  BY <1>17 DEF Report, DidCalibration, Start, CalReady, OwnedReady, PlaceInv, TurnInv, ObjInv, OwnedInv,
     ScanTurn, CalPcs, ScanPcs
<1>18. CASE Gone
  <2>1. pcS = "gone" /\ listed' = listed /\ cur \in Pages \cup {Nil}
    BY <1>18 DEF Gone, PlaceInv, ControlOK
  <2>2. CASE obj = Owned
    <3>1. owned' = FALSE /\ obj' = Nil /\ fresh' = fresh \ {Owned}
      BY <1>18, <2>2 DEF Gone
    <3> QED
      BY <2>1, <3>1 DEF CalReady, OwnedReady
  <2>3. CASE obj # Owned
    <3>1. owned' = owned /\ obj' = Nil /\ fresh' = fresh \ ({cur} \ listed)
      BY <1>18, <2>3 DEF Gone
    <3>2. Cal \in listed \ fresh' => Cal \notin fresh
      BY <3>1
    <3>3. Owned \notin fresh' => Owned \notin fresh
      BY <2>1, <3>1 DEF Pages
    <3> QED
      BY <2>1, <2>3, <3>1, <3>2, <3>3 DEF CalReady, OwnedReady
  <2> QED
    BY <2>2, <2>3
<1>19. CASE GuiStart
  BY <1>19 DEF GuiStart, Start, CalReady, OwnedReady, PlaceInv, TurnInv, ObjInv, OwnedInv,
     ScanTurn, CalPcs, ScanPcs
<1>20. CASE \/ UpdateButtons \/ NextEvent \/ UpdateData \/ SelectPage \/ UNCHANGED vars
           \/ (\E p \in Pages : ClickStop(p) \/ ClickRun(p))
           \/ \E i \in Range(Items[Trans]) : Recalibrate(i)
  BY <1>20 DEF UpdateButtons, NextEvent, UpdateData, SelectPage, vars, ClickStop, ClickRun, Recalibrate,
     CalReady, OwnedReady
<1> QED
  BY <1>1, <1>2, <1>3, <1>4, <1>5, <1>6, <1>7, <1>8, <1>9, <1>10, <1>11, <1>12, <1>13, <1>14, <1>15, <1>16, <1>17, <1>18, <1>19, <1>20
     DEF Next, SchedulerStep, GuiStep, UserStep, Idle

\* A report is the end of the object that made it.
LEMMA ReportEnds ==
    PlaceInv /\ Report => (CalReady /\ ~CalReady') \/ (OwnedReady /\ ~OwnedReady')
  BY Names DEF Report, DidCalibration, Start, objVars, CalReady, OwnedReady, PlaceInv, TurnInv,
     ObjInv, ScanTurn, ScanPcs

-----------------------------------------------------------------------------
(* What is queued.  Updates nobody waits for: at most one that the user asked   *)
(* for after the last call, and one from every object that had its end since    *)
(* then; those that still have theirs before them are the ready ones.           *)

WaitPcs == {"target", "plots", "report"}

\* Updates the GUI thread has not finished, the one it is busy with included.
InFlight == Len(events) + (IF pcG = "update" THEN 1 ELSE 0)
Ready    == (IF CalReady THEN 1 ELSE 0) + (IF OwnedReady THEN 1 ELSE 0)
\* DoCalibration waits for the update it has posted.
Waiter   == IF pcS = "dc_wait" /\ ~woken THEN 1 ELSE 0

EventBound ==
    /\ Pending(events) => pcS \in WaitPcs /\ InFlight <= 5
    /\ ~Pending(events) => InFlight + Ready <= 3 + Waiter
    /\ ~Pending(events) /\ pcS \in {"target", "plots"} => InFlight <= 1

EventInv == events \in Seq(Event) /\ OneCall(events) /\ EventBound

LEMMA Counts == /\ Ready \in 0 .. 2 /\ Waiter \in 0 .. 1
                /\ events \in Seq(Event) => InFlight \in Nat /\ Len(events) \in Nat
                /\ events \in Seq(Event) => InFlight \in {Len(events), Len(events) + 1}
  BY DEF Ready, Waiter, InFlight

LEMMA CountsNext == /\ Ready' \in 0 .. 2 /\ Waiter' \in 0 .. 1
                    /\ events' \in Seq(Event) => InFlight' \in Nat /\ Len(events') \in Nat
                    /\ events' \in Seq(Event) => InFlight' \in {Len(events'), Len(events') + 1}
  BY DEF Ready, Waiter, InFlight

LEMMA ReadyFalls == PlaceInv /\ [Next]_vars /\ ~CreateScan => Ready' <= Ready
  BY ReadyStep DEF Ready

LEMMA ReadyEnds == PlaceInv /\ [Next]_vars /\ Report => Ready' <= Ready - 1
<1> SUFFICES ASSUME PlaceInv, [Next]_vars, Report PROVE Ready' <= Ready - 1
  OBVIOUS
<1>1. ~CreateScan
  BY DEF Report, CreateScan
<1> QED
  BY <1>1, ReadyStep, ReportEnds DEF Ready

\* The queue never has more than five events.
LEMMA QueueLimit == EventInv => Len(events) <= 5
<1> SUFFICES ASSUME EventInv PROVE Len(events) <= 5
  OBVIOUS
<1>1. InFlight <= 5
  BY Counts DEF EventInv, EventBound
<1> QED
  BY <1>1, Counts DEF EventInv

\* A step that leaves the queue alone.
LEMMA EventsKept ==
    ASSUME EventInv, events' = events, pcG' = "update" <=> pcG = "update",
           Ready' <= Ready, Waiter' >= Waiter, Pending(events) => pcS' \in WaitPcs,
           pcS' \in {"target", "plots"} => pcS' = pcS \/ Pending(events)
    PROVE  EventInv'
<1>1. InFlight' = InFlight
  BY DEF InFlight
<1>2. Pending(events') <=> Pending(events)
  OBVIOUS
<1>3. /\ Ready \in 0 .. 2 /\ Waiter \in 0 .. 1 /\ Ready' \in 0 .. 2 /\ Waiter' \in 0 .. 1
      /\ InFlight \in Nat
  BY Counts, CountsNext DEF EventInv
<1>4. InFlight + Ready <= 3 + Waiter => InFlight' + Ready' <= 3 + Waiter'
  <2> DEFINE f == InFlight
             r == Ready
             w == Waiter
             r1 == Ready'
             w1 == Waiter'
  <2>1. f \in Nat /\ r \in 0 .. 2 /\ w \in 0 .. 1 /\ r1 \in 0 .. 2 /\ w1 \in 0 .. 1
        /\ r1 <= r /\ w1 >= w
    BY <1>3
  <2> HIDE DEF f, r, w, r1, w1
  <2>2. f + r <= 3 + w => f + r1 <= 3 + w1
    BY <2>1
  <2> QED
    BY <1>1, <2>2 DEF f, r, w, r1, w1
<1>5. EventBound'
  BY <1>1, <1>2, <1>4 DEF EventInv, EventBound
<1> QED
  BY <1>5 DEF EventInv

\* A blocking call is queued.
LEMMA CallQueued ==
    ASSUME EventInv, events' = Append(events, "call"), pcG' = pcG,
           pcS \notin WaitPcs \cup {"dc_wait"}, pcS' \in WaitPcs
    PROVE  EventInv'
<1>1. ~Pending(events) /\ events \in Seq(Event) /\ Waiter = 0
  BY DEF EventInv, EventBound, Waiter
<1>2. events' \in Seq(Event) /\ Len(events') = Len(events) + 1 /\ Pending(events')
      /\ OneCall(events') /\ Len(events) \in Nat
  BY <1>1, Queued, QueuedFirst DEF Event
<1>3. InFlight' = InFlight + 1
  BY <1>2 DEF InFlight
<1>4. InFlight <= 3
  BY <1>1, Counts DEF EventInv, EventBound
<1>5. EventBound'
  BY <1>1, <1>2, <1>3, <1>4, Counts DEF EventBound
<1> QED
  BY <1>2, <1>5 DEF EventInv

\* An update is queued by the scheduler thread.
LEMMA UpdateQueued ==
    ASSUME EventInv, events' = Append(events, "update"), pcG' = pcG, ~Pending(events),
           pcS' \notin WaitPcs,
           \/ Ready' <= Ready /\ Waiter = 0 /\ Waiter' = 1
           \/ Ready' <= Ready - 1 /\ Waiter = 0 /\ Waiter' = 0
    PROVE  EventInv'
<1>1. events' \in Seq(Event) /\ Len(events') = Len(events) + 1 /\ ~Pending(events')
      /\ OneCall(events') /\ Len(events) \in Nat
  BY Queued, QueuedFirst DEF Event, EventInv
<1>2. InFlight' = InFlight + 1
  BY <1>1 DEF InFlight
<1>3. InFlight + Ready <= 3 + Waiter
  BY DEF EventInv, EventBound
<1>4. InFlight' + Ready' <= 3 + Waiter'
  <2> DEFINE f == InFlight
             r == Ready
             w == Waiter
             r1 == Ready'
             w1 == Waiter'
  <2>1. f \in Nat /\ r \in 0 .. 2 /\ w \in 0 .. 1 /\ r1 \in 0 .. 2 /\ w1 \in 0 .. 1
        /\ ((r1 <= r /\ w = 0 /\ w1 = 1) \/ (r1 <= r - 1 /\ w = 0 /\ w1 = 0))
        /\ f + r <= 3 + w
    BY <1>3, Counts, CountsNext DEF EventInv
  <2> HIDE DEF f, r, w, r1, w1
  <2>2. (f + 1) + r1 <= 3 + w1
    BY <2>1
  <2> QED
    BY <1>2, <2>2 DEF f, r, w, r1, w1
<1>5. EventBound'
  BY <1>1, <1>4 DEF EventBound, WaitPcs
<1> QED
  BY <1>1, <1>5 DEF EventInv

LEMMA EventInit == Init => EventInv
<1> SUFFICES ASSUME Init PROVE EventInv
  OBVIOUS
<1>1. events = <<>> /\ DOMAIN events = {} /\ Len(events) = 0 /\ events \in Seq(Event)
  BY DEF Init
<1>2. ~Pending(events) /\ OneCall(events)
  BY <1>1 DEF Pending, OneCall
<1>3. InFlight = 0 /\ pcS = "pick"
  BY <1>1 DEF InFlight, Init
<1>4. EventBound
  BY <1>2, <1>3, Counts DEF EventBound
<1> QED
  BY <1>1, <1>2, <1>4 DEF EventInv

\* Every step preserves it.
LEMMA EventStep == PlaceInv /\ EventInv /\ [Next]_vars => EventInv'
<1> SUFFICES ASSUME PlaceInv, EventInv, [Next]_vars PROVE EventInv'
  OBVIOUS
<1> USE DEF listVars, objVars, lockVars, guiVars
<1>a. Pending(events) => pcS \in WaitPcs
  BY DEF EventInv, EventBound
<1>b. ~CreateScan => Ready' <= Ready
  BY ReadyFalls
<1>c. Waiter = 0 => Waiter' >= Waiter
  BY CountsNext
<1>1. CASE \/ \E r \in Pages : Pick(r)
           \/ LoopOver \/ RunCal \/ RunAlign \/ ScanPoint \/ SetCurrentScan
           \/ SliceOver \/ Gone
  <2>1. UNCHANGED <<events, pcG>> /\ pcS \notin WaitPcs \cup {"dc_wait"} /\ pcS' \notin WaitPcs
        /\ ~CreateScan
    BY <1>1 DEF Pick, LoopOver, RunCal, RunAlign, ScanPoint, SetCurrentScan, SliceOver, Gone,
                WaitPcs, CreateScan
  <2>2. Waiter = 0
    BY <2>1 DEF Waiter
  <2> QED
    BY <2>1, <2>2, <1>a, <1>b, <1>c, EventsKept DEF WaitPcs
<1>2. CASE Wait \/ StartCalibration
  <2>1. /\ UNCHANGED <<events, pcG>> /\ pcS = "dc_wait" /\ pcS' \notin WaitPcs /\ ~CreateScan
        /\ Wait => pcS' = "dc_wait" /\ ~woken'
        /\ StartCalibration => woken
    BY <1>2 DEF Wait, StartCalibration, CreateScan, WaitPcs
  <2>2. Waiter' >= Waiter
    BY <1>2, <2>1, Counts, CountsNext DEF Waiter
  <2> QED
    BY <2>1, <2>2, <1>a, <1>b, EventsKept DEF WaitPcs
<1>3. CASE TargetSelected
  <2>1. UNCHANGED <<events, pcG>> /\ pcS = "target" /\ pcS' = "dc_set" /\ ~CreateScan
        /\ ~Pending(events)
    BY <1>3, ReturnedMeans DEF TargetSelected, CreateScan
  <2>2. Waiter = 0
    BY <2>1 DEF Waiter
  <2> QED
    BY <2>1, <2>2, <1>b, <1>c, EventsKept DEF WaitPcs
<1>4. CASE InitExperimentStart \/ RunOwned \/ StopExperiment \/ FinishRun
  <2>1. /\ pcS \notin WaitPcs \cup {"dc_wait"} /\ pcG' = pcG /\ ~CreateScan
        /\ \/ events' = Append(events, "call") /\ pcS' \in WaitPcs
           \/ events' = events /\ pcS' \notin {"target", "plots"}
    BY <1>4, Names DEF InitExperimentStart, RunOwned, StopExperiment, FinishRun, Post, WaitPcs, CreateScan
  <2>2. Waiter = 0
    BY <2>1 DEF Waiter
  <2> QED
    BY <2>1, <2>2, <1>a, <1>b, <1>c, EventsKept, CallQueued
<1>5. CASE RunTrans
  <2>1. pcS = "loop" /\ pcG' = pcG /\ ~CreateScan /\ Waiter = 0
    BY <1>5 DEF RunTrans, CreateScan, Waiter
  <2>2. CASE queue[Trans] = <<>>
    BY <1>5, <2>1, <2>2, <1>a, <1>b, <1>c, EventsKept DEF RunTrans, WaitPcs
  <2>3. CASE queue[Trans] # <<>>
    <3> DEFINE ev == Append(events, "update")
    <3>1. events' = Append(ev, "call") /\ pcS' = "target"
      BY <1>5, <2>3, QueuedTwo DEF RunTrans, EventInv
    <3>2. events \in Seq(Event) /\ ~Pending(events)
      BY <1>a, <2>1 DEF EventInv, WaitPcs
    <3>3. ev \in Seq(Event) /\ Len(ev) = Len(events) + 1 /\ ~Pending(ev)
      BY <3>2, Queued, QueuedFirst DEF Event
    <3>4. /\ events' \in Seq(Event) /\ Len(events') = Len(events) + 2 /\ Pending(events')
          /\ OneCall(events') /\ Len(events) \in Nat
      <4> HIDE DEF ev
      <4> QED
        BY <3>1, <3>2, <3>3, Queued, QueuedFirst DEF Event
    <3>5. InFlight' = InFlight + 2
      BY <2>1, <3>4 DEF InFlight
    <3>6. InFlight <= 3
      BY <2>1, <3>2, Counts DEF EventInv, EventBound
    <3>7. EventBound'
      BY <3>1, <3>2, <3>4, <3>5, <3>6, Counts DEF EventBound, WaitPcs
    <3> QED
      BY <3>4, <3>7 DEF EventInv
  <2> QED
    BY <2>2, <2>3
<1>6. CASE CreateScan
  <2>1. UNCHANGED <<events, pcG>> /\ pcS = "plots" /\ pcS' \notin WaitPcs /\ ~Pending(events)
    BY <1>6, ReturnedMeans DEF CreateScan, WaitPcs
  <2>2. InFlight' = InFlight /\ InFlight <= 1
    BY <2>1 DEF InFlight, EventInv, EventBound
  <2>3. EventBound'
    BY <2>1, <2>2, Counts, CountsNext DEF EventBound, EventInv, WaitPcs
  <2> QED
    BY <2>1, <2>3 DEF EventInv
<1>7. CASE LockAndPost
  <2>1. /\ events' = Append(events, "update") /\ pcG' = pcG /\ pcS = "dc_post"
        /\ pcS' = "dc_wait" /\ woken' = woken /\ ~CreateScan
    BY <1>7 DEF LockAndPost, Post, CreateScan
  <2>2. ~woken
    BY <2>1 DEF PlaceInv, WaitInv
  <2>3. Waiter = 0 /\ Waiter' = 1
    BY <2>1, <2>2 DEF Waiter
  <2> QED
    BY <2>1, <2>3, <1>a, <1>b, UpdateQueued DEF WaitPcs
<1>8. CASE Report
  <2>1. /\ events' = Append(events, "update") /\ pcG' = pcG /\ pcS = "report"
        /\ pcS' = "gone" /\ ~Pending(events)
    BY <1>8, ReturnedMeans DEF Report, Post
  <2>2. Waiter = 0 /\ Waiter' = 0
    BY <2>1 DEF Waiter
  <2>3. Ready' <= Ready - 1
    BY <1>8, ReadyEnds
  <2> QED
    BY <2>1, <2>2, <2>3, UpdateQueued DEF WaitPcs
<1>9. CASE SelectPage
  <2>1. /\ events' = Append(events, "update") /\ pcG = "idle" /\ pcG' = "buttons" /\ pcS' = pcS
        /\ woken' = woken /\ ~CreateScan
        /\ \A i \in DOMAIN events : events[i] # "update"
    BY <1>9 DEF SelectPage, Click, Post, CreateScan, Range
  <2>2. /\ events' \in Seq(Event) /\ Len(events') = Len(events) + 1 /\ Len(events) \in Nat
        /\ Len(events) <= 1 /\ (~Pending(events) => Len(events) = 0)
        /\ OneCall(events') /\ (Pending(events') <=> Pending(events))
    BY <2>1, Queued, QueuedBehind DEF EventInv, Event
  <2>3. InFlight' = Len(events')
    BY <2>1, <2>2 DEF InFlight
  <2>4. EventBound'
    BY <2>1, <2>2, <2>3, <1>a, CountsNext DEF EventBound
  <2> QED
    BY <2>2, <2>4 DEF EventInv
<1>10. CASE NextEvent
  <2>1. /\ pcG = "idle" /\ events # <<>> /\ events' = Tail(events)
        /\ pcG' = (IF Head(events) = "update" THEN "update" ELSE "idle")
        /\ UNCHANGED <<pcS, woken>> /\ ~CreateScan
    BY <1>10 DEF NextEvent, CreateScan
  <2>2. /\ events' \in Seq(Event) /\ Len(events') = Len(events) - 1 /\ Head(events) \in Event
        /\ OneCall(events') /\ Len(events) \in Nat /\ Len(events') \in Nat
        /\ Head(events) = "update" => (Pending(events') <=> Pending(events))
        /\ Head(events) = "call" => ~Pending(events') /\ Pending(events) /\ Len(events') <= 1
    BY <2>1, Taken DEF EventInv
  <2>3. Waiter' = Waiter /\ Ready' <= Ready
    BY <2>1, <1>b DEF Waiter
  <2>4. CASE Head(events) = "update"
    <3>1. InFlight' = InFlight
      BY <2>1, <2>2, <2>4 DEF InFlight
    <3>2. EventBound'
      BY <2>1, <2>2, <2>3, <2>4, <3>1, Counts, CountsNext DEF EventInv, EventBound
    <3> QED
      BY <2>2, <3>2 DEF EventInv
  <2>5. CASE Head(events) = "call"
    <3>0. pcG' = "idle"
      BY <2>1, <2>5
    <3>1. InFlight' = Len(events')
      BY <2>2, <3>0 DEF InFlight
    <3>2. EventBound'
      BY <2>1, <2>2, <2>5, <3>1, CountsNext DEF EventBound
    <3> QED
      BY <2>2, <3>2 DEF EventInv
  <2> QED
    BY <2>2, <2>4, <2>5 DEF Event
<1>11. CASE UpdateData
  <2>1. pcG = "update" /\ pcG' = "idle" /\ UNCHANGED <<events, pcS>> /\ ~CreateScan
    BY <1>11 DEF UpdateData, CreateScan
  <2>2. InFlight' = InFlight - 1 /\ InFlight \in Nat
    BY <2>1, Counts DEF InFlight, EventInv
  <2>3. Pending(events') <=> Pending(events)
    BY <2>1
  <2>4. InFlight + Ready <= 3 + Waiter => InFlight' + Ready' <= 3 + Waiter'
    <3> DEFINE f == InFlight
               r == Ready
               w == Waiter
               f1 == InFlight'
               r1 == Ready'
               w1 == Waiter'
    <3>1. f \in Nat /\ r \in 0 .. 2 /\ w \in 0 .. 1 /\ r1 \in 0 .. 2 /\ w1 \in 0 .. 1
          /\ r1 <= r /\ f1 = f - 1
      BY <2>1, <2>2, <1>b, Counts, CountsNext
    <3> HIDE DEF f, r, w, f1, r1, w1
    <3>2. f + r <= 3 + w => f1 + r1 <= 3 + w1
      BY <3>1
    <3> QED
      BY <3>2 DEF f, r, w, f1, r1, w1
  <2>5. EventBound'
    BY <2>1, <2>2, <2>3, <2>4 DEF EventInv, EventBound
  <2> QED
    BY <2>1, <2>5 DEF EventInv
<1>12. CASE \/ GuiStart \/ UpdateButtons \/ UNCHANGED vars
            \/ (\E p \in Pages : ClickStop(p) \/ ClickRun(p))
            \/ \E i \in Range(Items[Trans]) : Recalibrate(i)
  <2>1. UNCHANGED <<events, pcS, woken>>
    BY <1>12 DEF GuiStart, UpdateButtons, vars, ClickStop, ClickRun, Recalibrate
  <2>2. pcG' = "update" <=> pcG = "update"
    BY <1>12 DEF GuiStart, UpdateButtons, vars, ClickStop, ClickRun, Recalibrate, Click
  <2>4. ~CreateScan
    BY <2>1, Names DEF CreateScan
  <2>5. Waiter' = Waiter
    BY <2>1 DEF Waiter
  <2> QED
    BY <2>1, <2>2, <2>4, <2>5, <1>a, <1>b, Counts, EventsKept
<1> QED
  BY <1>1, <1>2, <1>3, <1>4, <1>5, <1>6, <1>7, <1>8, <1>9, <1>10, <1>11, <1>12
     DEF Next, SchedulerStep, GuiStep, UserStep, Idle

-----------------------------------------------------------------------------
(* Type correctness, for every choice of UserMay.                              *)

IInv == PlaceInv /\ QueueInv /\ EventInv

\* The invariant holds in every behaviour.
THEOREM SpecIInv == Spec => []IInv
<1>1. Init => IInv
  BY PlaceInit, QueueInit, EventInit DEF IInv
<1>2. IInv /\ [Next]_vars => IInv'
  BY PlaceStep, QueueStep, EventStep DEF IInv
<1> QED
  BY <1>1, <1>2, PTL DEF Spec

\* Type correctness; in particular a page's list is always a rest of what was to be
\* calibrated, and the GUI thread never has more than five events to catch up with.
THEOREM TypeCorrect == Spec => []TypeOK
<1>1. IInv => TypeOK
  <2> SUFFICES ASSUME IInv PROVE TypeOK
    OBVIOUS
  <2>1. events \in Seq({"update", "call"}) /\ Len(events) <= 5
    BY QueueLimit DEF IInv, EventInv, Event
  <2>2. ControlOK /\ QueueOK
    BY DEF IInv, PlaceInv, QueueInv
  <2> QED
    BY <2>1, <2>2 DEF TypeOK, ControlOK, QueueOK, TransLists, AlignLists
<1> QED
  BY <1>1, SpecIInv, PTL

-----------------------------------------------------------------------------
(* One requester at a time.  Unless the user runs the calibration page while    *)
(* another page needs it, or has a page recalibrate what it is calibrating, the *)
(* scan that a result is reported of is the scan of the item it is reported for.*)

OneRequester == UserMay \cap {"share", "recalibrate"} = {}

\* Who is listed, and for whom the calibration page works.  A start that is still to
\* come finds nothing listed; it may only be outrun by the DoCalibration in the
\* destructor of a stopped alignment page, which then waits for good.
ExclusionInv ==
    /\ pcG = "start" =>
          /\ listed = {} /\ ~owned /\ ~woken
          /\ cci = Nil \/ (cci = Align /\ cur = Align /\ dying /\ pcS \in {"dc_post", "dc_wait"})
    /\ Trans \in listed \cup {cur} =>
          listed \subseteq {Trans} /\ cur \in {Trans, Nil} /\ cci # Align
    /\ Align \in listed \cup {cur} => cci # Trans /\ (Cal \in listed => cci = Align)
    /\ cci = Trans => owned \/ (cur = Trans /\ pcS \in {"dc_post", "dc_wait"})
    /\ pcS = "gone" /\ obj = Owned => cci = Nil
    /\ pcS \in {"dc_post", "dc_wait"} => cci = cur

\* The scan of an object that is ready measures the item the calibration page was set to.
MeasureInv ==
    cci # Nil => /\ params = Head(queue[cci])
                 /\ CalReady \/ OwnedReady => scan = params

LEMMA ExclusionInit == Init => ExclusionInv /\ MeasureInv
<1> SUFFICES ASSUME Init PROVE ExclusionInv /\ MeasureInv
  OBVIOUS
<1> QED
  BY Names DEF Init, ExclusionInv, MeasureInv

\* A step that leaves what it is about alone.
LEMMA ExclusionKept ==
    ASSUME ExclusionInv, UNCHANGED <<listed, owned, cci>>, woken' => woken,
           pcG' = "start" => pcG = "start", cur' \in {cur, Nil} \cup (IF cur = Nil THEN listed ELSE {}),
           pcS' \in {"dc_post", "dc_wait"} => pcS \in {"dc_post", "dc_wait"} /\ cur' = cur /\ dying' = dying,
           pcS \in {"dc_post", "dc_wait"} => pcS' \in {"dc_post", "dc_wait"} \/ owned,
           pcS' = "gone" /\ obj' = Owned => pcS = "gone" /\ obj = Owned
    PROVE  ExclusionInv'
  BY Names DEF ExclusionInv

\* Every step preserves it.
LEMMA ExclusionStep ==
    OneRequester /\ PlaceInv /\ ExclusionInv /\ [Next]_vars => ExclusionInv'
<1> SUFFICES ASSUME OneRequester, PlaceInv, ExclusionInv, [Next]_vars PROVE ExclusionInv'
  OBVIOUS
<1> USE Names DEF listVars, objVars, lockVars, guiVars
<1>1. CASE \/ \E r \in Pages : Pick(r)
           \/ InitExperimentStart \/ CreateScan \/ LoopOver \/ RunCal \/ RunAlign \/ RunOwned
           \/ RunTrans \/ TargetSelected \/ ScanPoint \/ LockAndPost \/ Wait \/ SliceOver
           \/ FinishRun
  <2>1. UNCHANGED <<listed, owned, cci, pcG>> /\ (woken' => woken)
    BY <1>1 DEF Pick, InitExperimentStart, CreateScan, LoopOver, RunCal, RunAlign, RunOwned,
                RunTrans, TargetSelected, ScanPoint, LockAndPost, Wait, SliceOver, FinishRun
  <2>2. cur' \in {cur, Nil} \cup (IF cur = Nil THEN listed ELSE {})
    BY <1>1 DEF Pick, InitExperimentStart, CreateScan, LoopOver, RunCal, RunAlign, RunOwned,
                RunTrans, TargetSelected, ScanPoint, LockAndPost, Wait, SliceOver, FinishRun,
                PlaceInv, TurnInv
  <2>3. /\ pcS' \in {"dc_post", "dc_wait"} =>
              pcS \in {"dc_post", "dc_wait"} /\ cur' = cur /\ dying' = dying
        /\ pcS \in {"dc_post", "dc_wait"} => pcS' \in {"dc_post", "dc_wait"}
    BY <1>1 DEF Pick, InitExperimentStart, CreateScan, LoopOver, RunCal, RunAlign, RunOwned,
                RunTrans, TargetSelected, ScanPoint, LockAndPost, Wait, SliceOver, FinishRun
  <2>4. pcS' = "gone" /\ obj' = Owned => pcS = "gone" /\ obj = Owned
    BY <1>1 DEF Pick, InitExperimentStart, CreateScan, LoopOver, RunCal, RunAlign, RunOwned,
                RunTrans, TargetSelected, ScanPoint, LockAndPost, Wait, SliceOver, FinishRun,
                PlaceInv, ObjInv
  <2> QED
    BY <2>1, <2>2, <2>3, <2>4, ExclusionKept
<1>2. CASE SetCurrentScan
  <2>1. cur \in {Trans, Align} /\ obj = Nil
    BY <1>2 DEF SetCurrentScan, PlaceInv, TurnInv, ObjInv, CalPcs
  <2>2. pcG = "start" => cur = Align /\ dying
    BY <1>2 DEF SetCurrentScan, PlaceInv, TurnInv, CalPcs, ExclusionInv
  <2> QED
    BY <1>2, <2>1, <2>2 DEF SetCurrentScan, ExclusionInv
<1>3. CASE StartCalibration
  <2>1. /\ pcS = "dc_wait" /\ woken /\ ~woken' /\ UNCHANGED <<cci, cur, obj, pcG>>
        /\ pcS' \in {"loop", "over", "gone"} /\ obj = Nil
    BY <1>3 DEF StartCalibration, PlaceInv, ObjInv, CalPcs
  <2>2. pcG # "start" /\ cci = cur
    BY <2>1 DEF ExclusionInv
  <2>3. CASE cur = Trans
    <3>1. owned' /\ listed' = listed
      BY <1>3, <2>3 DEF StartCalibration
    <3> QED
      BY <2>1, <2>2, <2>3, <3>1 DEF ExclusionInv
  <2>4. CASE cur = Align
    <3>1. owned' = owned /\ listed' = listed \cup {Cal}
      BY <1>3, <2>4 DEF StartCalibration, Start
    <3> QED
      BY <2>1, <2>2, <2>4, <3>1 DEF ExclusionInv
  <2> QED
    BY <1>3, <2>3, <2>4 DEF StartCalibration
<1>4. CASE StopExperiment
  <2>1. /\ UNCHANGED <<owned, cci, cur, pcG, woken>> /\ listed' \subseteq listed
        /\ pcS = "over" /\ pcS' \in {"init", "finish", "plots", "gone"}
        /\ pcS' = "gone" => obj' = obj
    BY <1>4 DEF StopExperiment
  <2>2. pcS' = "gone" => obj' # Owned
    BY <2>1 DEF PlaceInv, ObjInv
  <2> QED
    BY <2>1, <2>2 DEF ExclusionInv
<1>5. CASE Report
  <2>1. /\ cci' = Nil /\ UNCHANGED <<owned, cur, woken, pcG>> /\ pcS = "report" /\ pcS' = "gone"
        /\ listed' = listed \/ (cci = Align /\ listed' = listed \cup {Align})
    BY <1>5 DEF Report, DidCalibration, Start
  <2>2. cur \in {Cal, Trans} /\ (cur = Cal => dying /\ Cal \notin listed)
    BY <2>1 DEF PlaceInv, ObjInv, ScanTurn, ScanPcs, TurnInv
  <2>3. pcG = "start" => listed' = {}
    BY <2>1, <2>2 DEF ExclusionInv
  <2>4. Align \in listed' => Cal \notin listed'
    BY <2>1, <2>2 DEF ExclusionInv
  <2>5. Trans \in listed' \cup {cur} => listed' \subseteq {Trans}
    BY <2>1, <2>2 DEF ExclusionInv
  <2> QED
    BY <2>1, <2>2, <2>3, <2>4, <2>5 DEF ExclusionInv
<1>6. CASE Gone
  <2>1. UNCHANGED <<cci, listed, pcG, woken>> /\ pcS = "gone" /\ pcS' \in {"gone", "loop", "pick"}
        /\ obj' = Nil /\ cur' \in {cur, Nil}
        /\ \/ obj = Owned /\ owned' = FALSE
           \/ owned' = owned
    BY <1>6 DEF Gone
  <2> QED
    BY <2>1 DEF ExclusionInv
<1>7. CASE \E p \in Pages : ClickRun(p)
  <2>1. PICK p \in Pages : ClickRun(p)
    BY <1>7
  <2>2. /\ listed = {} /\ ~owned /\ cci = Nil
        /\ UNCHANGED <<listed, owned, cci, cur, pcS, obj, dying, woken>>
    BY <2>1 DEF ClickRun, OneRequester, Unused
  <2>3. ~woken
    BY <2>2 DEF PlaceInv, WaitInv, ExclusionInv, TurnInv
  <2> QED
    BY <2>2, <2>3 DEF ExclusionInv
<1>8. CASE \E i \in Range(Items[Trans]) : Recalibrate(i)
  <2>1. /\ listed = {} /\ ~owned /\ cci = Nil
        /\ UNCHANGED <<listed, owned, cci, cur, pcS, obj, dying, woken>>
    BY <1>8 DEF Recalibrate, OneRequester, Unused
  <2>2. ~woken
    BY <2>1 DEF PlaceInv, WaitInv, ExclusionInv, TurnInv
  <2> QED
    BY <2>1, <2>2 DEF ExclusionInv
<1>9. CASE GuiStart
  <2>1. /\ pcG = "start" /\ ~schedLock /\ pcG' = "buttons" /\ page \in Pages
        /\ UNCHANGED <<owned, cci, cur, pcS, obj>>
        /\ listed' = listed \cup {page}
    BY <1>9 DEF GuiStart, Start, PlaceInv, TurnInv
  <2>2. ~dying /\ cur = Nil /\ listed = {} /\ cci = Nil /\ pcS = "pick" /\ ~owned
    BY <2>1 DEF PlaceInv, TurnInv, ExclusionInv
  <2> QED
    BY <2>1, <2>2 DEF ExclusionInv, Pages
<1>10. CASE (\E p \in Pages : ClickStop(p)) \/ SelectPage \/ UpdateButtons \/ NextEvent
  BY <1>10, ExclusionKept DEF ClickStop, SelectPage, UpdateButtons, NextEvent
<1>11. CASE UpdateData
  <2>1. pcG' = "idle" /\ UNCHANGED <<listed, owned, cci, cur, pcS, obj, dying>>
    BY <1>11 DEF UpdateData
  <2> QED
    BY <2>1 DEF ExclusionInv
<1>12. CASE UNCHANGED vars
  BY <1>12 DEF vars, ExclusionInv
<1> QED
  BY <1>1, <1>2, <1>3, <1>4, <1>5, <1>6, <1>7, <1>8, <1>9, <1>10, <1>11, <1>12
     DEF Next, SchedulerStep, GuiStep, UserStep, Idle

\* A step that leaves the item and its scan alone.
LEMMA MeasureKept ==
    ASSUME MeasureInv, UNCHANGED <<cci, params, scan>>, cci # Nil => queue'[cci] = queue[cci],
           CalReady' => CalReady, OwnedReady' => OwnedReady
    PROVE  MeasureInv'
  BY DEF MeasureInv

\* Every step preserves it.
LEMMA MeasureStep ==
    /\ OneRequester /\ PlaceInv /\ QueueInv /\ ExclusionInv /\ MeasureInv /\ [Next]_vars
    => MeasureInv'
<1> SUFFICES ASSUME OneRequester, PlaceInv, QueueInv, ExclusionInv, MeasureInv, [Next]_vars
             PROVE  MeasureInv'
  OBVIOUS
<1> USE Names DEF listVars, objVars, lockVars, guiVars
<1>a. ~CreateScan => (CalReady' => CalReady) /\ (OwnedReady' => OwnedReady)
  BY ReadyStep
<1>1. CASE \/ \E r \in Pages : Pick(r)
           \/ LoopOver \/ RunCal \/ RunAlign \/ RunOwned
           \/ RunTrans \/ TargetSelected \/ ScanPoint \/ LockAndPost \/ Wait \/ SliceOver
           \/ FinishRun \/ StartCalibration \/ StopExperiment \/ Gone
  <2>1. UNCHANGED <<queue, cci, params, scan>>
    BY <1>1 DEF Pick, LoopOver, RunCal, RunAlign, RunOwned, RunTrans, TargetSelected, ScanPoint,
                LockAndPost, Wait, SliceOver, FinishRun, StartCalibration, StopExperiment, Gone
  <2>2. ~CreateScan
    BY <1>1 DEF Pick, LoopOver, RunCal, RunAlign, RunOwned, RunTrans, TargetSelected, ScanPoint,
                LockAndPost, Wait, SliceOver, FinishRun, StartCalibration, StopExperiment, Gone,
                CreateScan
  <2> QED
    BY <2>1, <2>2, <1>a, MeasureKept
<1>2. CASE InitExperimentStart
  <2>1. UNCHANGED <<cci, params, scan>> /\ ~CreateScan
    BY <1>2 DEF InitExperimentStart, CreateScan
  <2>2. \/ queue' = queue
        \/ queue' = [queue EXCEPT ![Trans] = IF @ = <<>> THEN Items[Trans] ELSE @]
    BY <1>2 DEF InitExperimentStart, FillList
  <2>3. cci # Nil => queue'[cci] = queue[cci]
    BY <2>2 DEF QueueInv, QueueOK, PendingInv, PlaceInv, ControlOK
  <2> QED
    BY <2>1, <2>3, <1>a, MeasureKept
<1>3. CASE CreateScan
  BY <1>3 DEF CreateScan, MeasureInv
<1>4. CASE SetCurrentScan
  <2>1. /\ cur \in {Trans, Align} /\ obj = Nil /\ pcS = "dc_set" /\ ~CreateScan
        /\ cci' = cur /\ params' = Head(queue[cur]) /\ UNCHANGED <<queue, scan>>
    BY <1>4 DEF SetCurrentScan, CreateScan, PlaceInv, TurnInv, ObjInv, CalPcs
  <2>2. CASE cur = Trans
    <3>1. ~CalReady /\ ~OwnedReady
      BY <2>1, <2>2 DEF CalReady, OwnedReady, PlaceInv, OwnedInv, CalPcs, ExclusionInv
    <3> QED
      BY <2>1, <3>1, <1>a DEF MeasureInv
  <2>3. CASE cur = Align
    <3>1. ~OwnedReady
      BY <2>1, <2>3 DEF OwnedReady, PlaceInv, OwnedInv, ExclusionInv
    <3>2. CalReady => cci = Align
      BY <2>1, <2>3 DEF CalReady, ExclusionInv
    <3>3. CalReady => scan = params'
      BY <2>1, <2>3, <3>2 DEF MeasureInv
    <3> QED
      BY <2>1, <2>3, <3>1, <3>3, <1>a DEF MeasureInv
  <2> QED
    BY <2>1, <2>2, <2>3
<1>5. CASE Report
  BY <1>5 DEF Report, MeasureInv
<1>6. CASE \E p \in Pages : ClickRun(p)
  <2>1. /\ UNCHANGED <<cci, params, scan>> /\ cci = Nil
    BY <1>6 DEF ClickRun, OneRequester, Unused
  <2> QED
    BY <2>1 DEF MeasureInv
<1>7. CASE \E i \in Range(Items[Trans]) : Recalibrate(i)
  <2>1. /\ UNCHANGED <<cci, params, scan>> /\ cci = Nil
    BY <1>7 DEF Recalibrate, OneRequester, Unused
  <2> QED
    BY <2>1 DEF MeasureInv
<1>8. CASE \/ GuiStart \/ UpdateButtons \/ NextEvent \/ UpdateData \/ SelectPage
           \/ UNCHANGED vars \/ \E p \in Pages : ClickStop(p)
  <2>1. UNCHANGED <<queue, cci, params, scan, pcS>>
    BY <1>8 DEF GuiStart, UpdateButtons, NextEvent, UpdateData, SelectPage, vars, ClickStop
  <2>2. ~CreateScan
    BY <2>1 DEF CreateScan
  <2> QED
    BY <2>1, <2>2, <1>a, MeasureKept
<1> QED
  BY <1>1, <1>2, <1>3, <1>4, <1>5, <1>6, <1>7, <1>8
     DEF Next, SchedulerStep, GuiStep, UserStep, Idle

\* The invariant of one requester holds in every behaviour.
LEMMA SpecExclusion == OneRequester /\ Spec => [](IInv /\ ExclusionInv /\ MeasureInv)
<1> SUFFICES ASSUME OneRequester PROVE Spec => [](IInv /\ ExclusionInv /\ MeasureInv)
  OBVIOUS
<1>1. Init => ExclusionInv /\ MeasureInv
  BY ExclusionInit
<1>2. IInv /\ ExclusionInv /\ MeasureInv /\ [Next]_vars => (ExclusionInv /\ MeasureInv)'
  BY ExclusionStep, MeasureStep DEF IInv
<1> QED
  BY <1>1, <1>2, SpecIInv, PTL DEF Spec

\* A result is reported to the page that asked for it, as the result of the item that
\* was measured, whatever the user stops and whichever tab is selected meanwhile.
THEOREM ReportsAreOwn ==
    ASSUME UserMay \subseteq {"stop", "select"}
    PROVE  Spec => []ReportIsOwn
<1>1. OneRequester
  BY DEF OneRequester
<1>2. IInv /\ ExclusionInv /\ MeasureInv => ReportIsOwn
  <2> SUFFICES ASSUME IInv, MeasureInv, pcS = "report", cci # Nil
               PROVE  queue[cci] # <<>> /\ Head(queue[cci]) = scan
    BY DEF ReportIsOwn
  <2>1. CalReady \/ OwnedReady
    BY DEF IInv, PlaceInv, ObjInv, ScanTurn, ScanPcs, CalReady, OwnedReady
  <2> QED
    BY <2>1 DEF IInv, QueueInv, PendingInv, MeasureInv
<1> QED
  BY <1>1, <1>2, SpecExclusion, PTL

\* The calibration page is never run by the scheduler while a page that owns a run object
\* of it has that one measure.
THEOREM NeverTwice ==
    ASSUME UserMay \subseteq {"stop", "select"}
    PROVE  Spec => []StartsOnce
<1>1. OneRequester
  BY DEF OneRequester
<1>2. IInv /\ ExclusionInv /\ MeasureInv => StartsOnce
  BY Names DEF IInv, PlaceInv, OwnedInv, ExclusionInv, StartsOnce
<1> QED
  BY <1>1, <1>2, SpecExclusion, PTL
=============================================================================
