----------------------- MODULE PulseControllerProofs -----------------------
(***************************************************************************)
(* The driver and the controller stay in step, for FIFOs of any depth, a   *)
(* counter of any width and pulses of any length.                          *)
(***************************************************************************)
EXTENDS PulseController, SequenceTheorems, TLAPS

-----------------------------------------------------------------------------
(* The inductive invariant. *)

Awaiting == {"popPMT", "popCheck", "popReinit"}

IsRead(i) == i.op \in {"get", "pmt"}

\* Instruction i is the request whose result `place` waits for.
Requests(i, place) == i.op = IF place = "popPMT" THEN "pmt" ELSE "get"

NoRead(s) == \A i \in DOMAIN s : ~IsRead(s[i])

\* The last instruction of s, and no other, is the request of `place`.
ReadLast(s, place) ==
    /\ s # <<>>
    /\ \A i \in 1 .. Len(s) - 1 : ~IsRead(s[i])
    /\ Requests(s[Len(s)], place)

\* What PartsAreTimeable says of instruction o.
Timeable(o) ==
    /\ o.t > TMax => o.whole /\ (o.interval > 0 => CheckInterval > TMax)
    /\ o.t < MinTime => o.interval > 0 /\ (o.final \/ CheckInterval < MinTime)

\* What a call has still to write, by the place of the call.
TodoInv ==
    /\ pc \notin {"split", "write"} => todo = <<>>
    /\ pc \in {"split", "write"} => todo # <<>>
    /\ pc = "split" =>
          /\ after \in {"ready", "enable"}
          /\ NoRead(todo)
          /\ \A i \in 1 .. Len(todo) - 1 : Timeable(todo[i])
          /\ todo[Len(todo)].t >= MinTime
    /\ pc = "write" =>
          /\ after \in Awaiting \cup {"ready", "pad", "enable", "loop"}
          /\ IF after \in Awaiting THEN ReadLast(todo, after) ELSE NoRead(todo)
          /\ \A i \in DOMAIN todo : Timeable(todo[i])

\* No request is under way.
Quiet ==
    /\ ~overflow /\ rFIFO = <<>>
    /\ NoRead(iFIFO) /\ (ins # Nothing => ~IsRead(ins))

\* A request is in one place at most: in the write FIFO, at the end of it; being
\* executed; or answered.
ReadInv ==
    /\ ~overflow
    /\ pc \notin Awaiting => Quiet
    /\ pc \in Awaiting =>
          \/ rFIFO = <<>> /\ ReadLast(iFIFO, pc) /\ (ins # Nothing => ~IsRead(ins))
          \/ rFIFO = <<>> /\ iFIFO = <<>> /\ ins # Nothing /\ Requests(ins, pc)
          \/ /\ Len(rFIFO) = 1 /\ iFIFO = <<>> /\ ins = Nothing
             /\ rFIFO[1].kind = IF pc = "popPMT" THEN "pmt" ELSE "dds"

\* Results are what the two sources can write.
ResultInv ==
    \A i \in DOMAIN rFIFO : rFIFO[i].value \in IF rFIFO[i].kind = "pmt" THEN 0 .. Modulus - 1
                                                                        ELSE Freqs

IInv == TypeOK /\ VacancyIsSafe /\ PartsAreTimeable /\ TodoInv /\ ReadInv /\ ResultInv

-----------------------------------------------------------------------------
(* Instructions. *)

\* Control: a well-formed instruction that the state machine can time.
LEMMA ControlIs ==
    ASSUME NEW op \in {"set", "get", "pmt", "clear"}, NEW f \in Freqs
    PROVE  /\ Control(op, f) \in Instruction
           /\ Control(op, f).op = op /\ Control(op, f).freq = f
           /\ Timeable(Control(op, f))
<1>1. MinTime \in Nat /\ TMax \in Nat /\ MinTime <= TMax /\ 0 \in Freqs
  BY PulseAssumption
<1>2. Control(op, f).t = MinTime
  BY DEF Control
<1>3. Timeable(Control(op, f))
  BY <1>1, <1>2 DEF Timeable
<1> QED
  BY <1>1, <1>3 DEF Control, Instruction

\* Output: a well-formed instruction of the given length.
LEMMA OutputIs ==
    ASSUME NEW t \in Nat
    PROVE  Output(t) \in Instruction /\ Output(t).op = "out" /\ Output(t).t = t
BY PulseAssumption DEF Output, Control, Instruction

\* Whole: an instruction that may be too long, not too short.
LEMMA WholeIs ==
    ASSUME NEW t \in Nat, NEW count \in BOOLEAN
    PROVE  /\ Whole(t, count) \in Instruction /\ Whole(t, count).op = "out"
           /\ t >= MinTime => Timeable(Whole(t, count))
<1> DEFINE o == Whole(t, count)
<1>1. MinTime \in Nat /\ TMax \in Nat /\ 0 \in Freqs
  BY PulseAssumption
<1>2. /\ o \in Instruction /\ o.op = "out" /\ o.t = t /\ o.interval = 0 /\ o.whole = TRUE
  BY <1>1 DEF Whole, Output, Control, Instruction
<1> HIDE DEF o
<1>3. t >= MinTime => Timeable(o)
  BY <1>1, <1>2 DEF Timeable
<1> QED
  BY <1>2, <1>3 DEF o

\* Interval: the next interval of a checked pulse is the check interval, or what is left,
\* and then the last one.
LEMMA IntervalIs ==
    ASSUME left \in Nat, NEW k \in Nat, k > 0
    PROVE  LET o == Interval(NextTime, k, left - NextTime = 0)
           IN  /\ o \in Instruction /\ o.op = "out" /\ Timeable(o)
               /\ left - NextTime \in Nat /\ NextTime \in Nat
<1> DEFINE e == (left - NextTime = 0)
           o == Interval(NextTime, k, e)
<1>1. CheckInterval \in Nat \ {0} /\ MinTime \in Nat /\ TMax \in Nat /\ MinTime <= TMax /\ 0 \in Freqs
  BY PulseAssumption
<1>2. /\ NextTime \in Nat /\ left - NextTime \in Nat
      /\ NextTime <= CheckInterval /\ (NextTime # CheckInterval => left - NextTime = 0)
  BY <1>1 DEF NextTime
<1>3. /\ e \in BOOLEAN /\ NextTime \in Nat
      /\ NextTime > TMax => CheckInterval > TMax
      /\ NextTime < MinTime => e \/ CheckInterval < MinTime
  BY <1>1, <1>2
<1> HIDE DEF e, NextTime
<1>4. /\ o \in Instruction /\ o.op = "out" /\ o.t = NextTime /\ o.interval = k
      /\ o.whole = TRUE /\ o.final = e
  BY <1>1, <1>3 DEF Interval, Whole, Output, Control, Instruction
<1>5. Timeable(o)
  BY <1>3, <1>4 DEF Timeable
<1> QED
  BY <1>2, <1>4, <1>5 DEF e

\* short_pulse: adding extra_flags changes neither the kind of an instruction nor its length.
LEMMA MarkedIs ==
    ASSUME NEW i \in Instruction, NEW c \in BOOLEAN
    PROVE  /\ [i EXCEPT !.check = c] \in Instruction
           /\ \A place : Requests([i EXCEPT !.check = c], place) <=> Requests(i, place)
           /\ IsRead([i EXCEPT !.check = c]) <=> IsRead(i)
           /\ Timeable([i EXCEPT !.check = c]) <=> Timeable(i)
BY DEF Instruction, Requests, IsRead, Timeable

-----------------------------------------------------------------------------
(* The FIFOs. *)

\* Append adds at the end and leaves the rest alone.
LEMMA AppendIs ==
    ASSUME NEW S, NEW s \in Seq(S), NEW x \in S
    PROVE  /\ Append(s, x) \in Seq(S) /\ Len(Append(s, x)) = Len(s) + 1
           /\ \A i \in 1 .. Len(s) : Append(s, x)[i] = s[i]
           /\ Append(s, x)[Len(s) + 1] = x
           /\ DOMAIN Append(s, x) = 1 .. Len(s) + 1 /\ DOMAIN s = 1 .. Len(s) /\ Len(s) \in Nat
OBVIOUS

\* Tail takes away the first element.
LEMMA TailIs ==
    ASSUME NEW S, NEW s \in Seq(S), s # <<>>
    PROVE  /\ Tail(s) \in Seq(S) /\ Len(Tail(s)) = Len(s) - 1
           /\ \A i \in 1 .. Len(s) - 1 : Tail(s)[i] = s[i + 1]
           /\ Head(s) = s[1] /\ Head(s) \in S
           /\ DOMAIN Tail(s) = 1 .. Len(s) - 1 /\ DOMAIN s = 1 .. Len(s)
           /\ Len(s) \in Nat /\ Len(s) > 0
           /\ Tail(s) = <<>> <=> Len(s) = 1
<1>1. /\ Tail(s) \in Seq(S) /\ Len(Tail(s)) = Len(s) - 1
      /\ \A i \in 1 .. Len(s) - 1 : Tail(s)[i] = s[i + 1]
      /\ Head(s) = s[1] /\ Head(s) \in S
      /\ DOMAIN Tail(s) = 1 .. Len(s) - 1 /\ DOMAIN s = 1 .. Len(s)
      /\ Len(s) \in Nat /\ Len(s) > 0
  OBVIOUS
<1>2. ASSUME Len(s) = 1
      PROVE  Tail(s) = <<>>
  <2>1. <<>> \in Seq(S) /\ Len(<<>>) = 0
    BY EmptySeq
  <2>2. Len(Tail(s)) = Len(<<>>) /\ \A i \in 1 .. Len(Tail(s)) : Tail(s)[i] = <<>>[i]
    BY <1>1, <1>2, <2>1
  <2> QED
    BY <1>1, <2>1, <2>2, SeqEqual
<1>3. ASSUME Tail(s) = <<>>
      PROVE  Len(s) = 1
  <2> DEFINE n == Len(Tail(s))
  <2>1. n = Len(s) - 1 /\ Len(s) \in Nat
    BY <1>1
  <2>2. n = 0
    BY <1>3, EmptySeq, Zenon
  <2> HIDE DEF n
  <2> QED
    BY <2>1, <2>2
<1>4. Tail(s) = <<>> <=> Len(s) = 1
  BY <1>2, <1>3, Zenon
<1> QED
  BY <1>1, <1>4, Zenon

\* A FIFO without requests gets an instruction.
LEMMA AppendQuiet ==
    ASSUME NEW s \in Seq(Instruction), NEW x \in Instruction, NoRead(s)
    PROVE  /\ ~IsRead(x) => NoRead(Append(s, x))
           /\ \A place : Requests(x, place) => ReadLast(Append(s, x), place)
<1>1. \A i \in 1 .. Len(s) : ~IsRead(Append(s, x)[i])
  BY AppendIs DEF NoRead
<1>2. ASSUME ~IsRead(x)
      PROVE  NoRead(Append(s, x))
  BY <1>1, <1>2, AppendIs DEF NoRead
<1>3. Append(s, x) # <<>> /\ Len(Append(s, x)) - 1 = Len(s)
  BY AppendIs
<1>4. ASSUME NEW place, Requests(x, place)
      PROVE  ReadLast(Append(s, x), place)
  BY <1>1, <1>3, <1>4, AppendIs DEF ReadLast
<1> QED
  BY <1>2, <1>4

\* A FIFO without requests loses its first instruction.
LEMMA TailQuiet ==
    ASSUME NEW s \in Seq(Instruction), s # <<>>, NoRead(s)
    PROVE  NoRead(Tail(s)) /\ ~IsRead(Head(s))
BY TailIs DEF NoRead

\* A FIFO with a request at its end loses its first instruction.
LEMMA TailRequest ==
    ASSUME NEW s \in Seq(Instruction), NEW place, ReadLast(s, place)
    PROVE  /\ Len(s) = 1 => Requests(Head(s), place) /\ Tail(s) = <<>>
           /\ Len(s) # 1 => ReadLast(Tail(s), place) /\ ~IsRead(Head(s))
<1>1. s # <<>> /\ Requests(s[Len(s)], place) /\ \A i \in 1 .. Len(s) - 1 : ~IsRead(s[i])
  BY DEF ReadLast
<1>2. /\ Len(Tail(s)) = Len(s) - 1 /\ \A i \in 1 .. Len(s) - 1 : Tail(s)[i] = s[i + 1]
      /\ Head(s) = s[1] /\ Len(s) \in Nat /\ Len(s) > 0 /\ (Tail(s) = <<>> <=> Len(s) = 1)
  BY <1>1, TailIs
<1>3. CASE Len(s) = 1
  BY <1>1, <1>2, <1>3
<1>4. CASE Len(s) # 1
  <2>1. ~IsRead(Head(s)) /\ Tail(s)[Len(Tail(s))] = s[Len(s)] /\ Tail(s) # <<>>
    BY <1>1, <1>2, <1>4
  <2>2. \A i \in 1 .. Len(Tail(s)) - 1 : ~IsRead(Tail(s)[i])
    BY <1>1, <1>2
  <2> QED
    BY <2>1, <2>2, <1>1, <1>4 DEF ReadLast
<1> QED
  BY <1>3, <1>4


\* The first n elements.
LEMMA PrefixIs ==
    ASSUME NEW S, NEW s \in Seq(S), NEW n \in Nat, n <= Len(s)
    PROVE  /\ SubSeq(s, 1, n) \in Seq(S) /\ Len(SubSeq(s, 1, n)) = n
           /\ \A i \in 1 .. n : SubSeq(s, 1, n)[i] = s[i]
<1> DEFINE m == 1
<1>1. m \in Int /\ n \in Int /\ \A i \in m .. n : s[i] \in S
  OBVIOUS
<1> HIDE DEF m
<1>2. /\ SubSeq(s, m, n) \in Seq(S) /\ Len(SubSeq(s, m, n)) = IF m <= n THEN n - m + 1 ELSE 0
      /\ \A i \in 1 .. n - m + 1 : SubSeq(s, m, n)[i] = s[m + i - 1]
  BY <1>1, SubSeqProperties
<1>3. (IF m <= n THEN n - m + 1 ELSE 0) = n /\ n - m + 1 = n /\ \A i \in 1 .. n : m + i - 1 = i
  BY DEF m
<1>4. m = 1
  BY DEF m
<1> QED
  BY <1>2, <1>3, <1>4, Zenon

\* Two instructions after a sequence.
LEMMA PairIs ==
    ASSUME NEW S, NEW s \in Seq(S), NEW a \in S, NEW b \in S
    PROVE  /\ s \o <<a, b>> \in Seq(S) /\ Len(s \o <<a, b>>) = Len(s) + 2
           /\ \A i \in 1 .. Len(s) : (s \o <<a, b>>)[i] = s[i]
           /\ (s \o <<a, b>>)[Len(s) + 1] = a /\ (s \o <<a, b>>)[Len(s) + 2] = b
<1> DEFINE v == <<a, b>>
<1>1. v \in Seq(S) /\ Len(v) = 2 /\ v[1] = a /\ v[2] = b /\ Len(s) \in Nat
  OBVIOUS
<1> HIDE DEF v
<1>2. /\ s \o v \in Seq(S) /\ Len(s \o v) = Len(s) + Len(v)
      /\ \A i \in 1 .. Len(s) + Len(v) : (s \o v)[i] = IF i <= Len(s) THEN s[i] ELSE v[i - Len(s)]
  BY <1>1, ConcatProperties, Zenon
<1>3. /\ \A i \in 1 .. Len(s) : (s \o v)[i] = s[i]
      /\ (s \o v)[Len(s) + 1] = a /\ (s \o v)[Len(s) + 2] = b
  <2> DEFINE w == s \o v
             n == Len(s)
  <2>1. \A i \in 1 .. n + 2 : w[i] = IF i <= n THEN s[i] ELSE v[i - n]
    BY <1>1, <1>2
  <2>2. n \in Nat /\ v[1] = a /\ v[2] = b
    BY <1>1
  <2> HIDE DEF w, n
  <2>3. (\A i \in 1 .. n : w[i] = s[i]) /\ w[n + 1] = a /\ w[n + 2] = b
    BY <2>1, <2>2
  <2> QED
    BY <2>3 DEF w, n
<1> QED
  BY <1>1, <1>2, <1>3, Zenon DEF v

\* Split replaces the last instruction by two.
LEMMA SplitIs ==
    ASSUME NEW s \in Seq(Instruction), s # <<>>, NEW a \in Instruction, NEW b \in Instruction
    PROVE  /\ ReplaceLast(s, a, b) \in Seq(Instruction)
           /\ Len(ReplaceLast(s, a, b)) = Len(s) + 1 /\ Len(s) \in Nat /\ Len(s) > 0
           /\ \A i \in 1 .. Len(s) - 1 : ReplaceLast(s, a, b)[i] = s[i]
           /\ ReplaceLast(s, a, b)[Len(s)] = a /\ ReplaceLast(s, a, b)[Len(s) + 1] = b
<1> DEFINE n == Len(s) - 1
           u == SubSeq(s, 1, n)
           t == u \o <<a, b>>
<1>1. n \in Nat /\ n <= Len(s) /\ Len(s) = n + 1
  OBVIOUS
<1>2. ReplaceLast(s, a, b) = t
  BY DEF ReplaceLast
<1> HIDE DEF n
<1>3. u \in Seq(Instruction) /\ Len(u) = n /\ \A i \in 1 .. n : u[i] = s[i]
  BY <1>1, PrefixIs, Zenon
<1> HIDE DEF u
<1>4. /\ t \in Seq(Instruction) /\ Len(t) = Len(u) + 2
      /\ \A i \in 1 .. Len(u) : t[i] = u[i]
      /\ t[Len(u) + 1] = a /\ t[Len(u) + 2] = b
  BY <1>3, PairIs
<1> HIDE DEF t
<1>5. /\ t \in Seq(Instruction) /\ Len(t) = Len(s) + 1 /\ Len(s) \in Nat /\ Len(s) > 0
      /\ \A i \in 1 .. n : t[i] = s[i]
      /\ t[Len(s)] = a /\ t[Len(s) + 1] = b
  BY <1>1, <1>3, <1>4
<1> QED
  BY <1>2, <1>5, Zenon DEF n

\* One, two or three instructions.
LEMMA FewAre ==
    ASSUME NEW a \in Instruction, NEW b \in Instruction, NEW c \in Instruction
    PROVE  /\ <<a>> \in Instructions /\ <<a, b>> \in Instructions /\ <<a, b, c>> \in Instructions
           /\ <<a>> # <<>> /\ <<a, b>> # <<>> /\ <<a, b, c>> # <<>>
BY DEF Instructions

\* Concatenation of short sequences.
LEMMA JoinIs ==
    ASSUME NEW a, NEW b
    PROVE  <<a>> \o <<b>> = <<a, b>> /\ <<a>> \o <<>> = <<a>> /\ <<>> \o <<b>> = <<b>>
<1> DEFINE S == {a, b}
           u == <<a>>
           v == <<b>>
           w == <<a, b>>
<1>1. /\ u \in Seq(S) /\ v \in Seq(S) /\ w \in Seq(S) /\ Len(u) = 1 /\ Len(v) = 1 /\ Len(w) = 2
      /\ u[1] = a /\ v[1] = b /\ w[1] = a /\ w[2] = b
  OBVIOUS
<1> HIDE DEF S, u, v, w
<1>2. /\ u \o v \in Seq(S) /\ Len(u \o v) = Len(u) + Len(v)
      /\ \A i \in 1 .. Len(u) + Len(v) : (u \o v)[i] = IF i <= Len(u) THEN u[i] ELSE v[i - Len(u)]
  BY <1>1, ConcatProperties, Zenon
<1>3. u \o v = w
  <2> DEFINE x == u \o v
  <2>1. x \in Seq(S) /\ Len(x) = 2 /\ \A i \in 1 .. 2 : x[i] = IF i <= 1 THEN u[i] ELSE v[i - 1]
    BY <1>1, <1>2
  <2> HIDE DEF x
  <2>2. \A i \in 1 .. Len(x) : x[i] = w[i]
    BY <1>1, <2>1
  <2>3. x = w
    BY <1>1, <2>1, <2>2, SeqEqual
  <2> QED
    BY <2>3 DEF x
<1>4. u \o <<>> = u /\ <<>> \o v = v
  BY <1>1, ConcatEmptySeq, Zenon
<1> QED
  BY <1>3, <1>4, Zenon DEF u, v, w

-----------------------------------------------------------------------------
(* Type correctness. *)

\* The initial states satisfy the invariant.
LEMMA InitInv == Init => IInv
<1> SUFFICES ASSUME Init PROVE IInv
  OBVIOUS
<1>1. TypeOK
  BY PulseAssumption, EmptySeq DEF Init, TypeOK, Places, Instructions, Words
<1>2. VacancyIsSafe
  BY PulseAssumption DEF Init, VacancyIsSafe
<1>3. PartsAreTimeable /\ TodoInv /\ ReadInv /\ ResultInv
  BY DEF Init, PartsAreTimeable, TodoInv, ReadInv, Quiet, ResultInv, NoRead, Awaiting
<1> QED
  BY <1>1, <1>2, <1>3 DEF IInv

\* What a turn of checked_pulse writes.
LEMMA TurnIs ==
    ASSUME TypeOK, CheckedTurn
    PROVE  LET o == Interval(NextTime, nPulses + 1, left - NextTime = 0)
               r == Control("pmt", 0)
           IN  \/ todo' = <<o, r>> /\ after' = "popPMT"
               \/ todo' = <<o>> /\ after' = "loop"
               \/ todo' = <<r>> /\ after' = "popPMT"
<1> DEFINE o == Interval(NextTime, nPulses + 1, left - NextTime = 0)
           r == Control("pmt", 0)
<1>1. left \in Nat
  BY DEF TypeOK
<1>2. /\ <<o>> \o <<r>> = <<o, r>> /\ <<o>> \o <<>> = <<o>> /\ <<>> \o <<r>> = <<r>>
  BY JoinIs
<1> HIDE DEF o, r
<1>3. CASE NextTime > 0
  BY <1>2, <1>3 DEF CheckedTurn, Write, o, r
<1>4. CASE ~(NextTime > 0)
  <2>1. NextTime = 0 /\ (left = 0)
    BY <1>1, <1>4, PulseAssumption DEF NextTime
  <2>2. nPulses > 1 \/ left - NextTime = 0
    BY <1>1, <2>1
  <2> QED
    BY <1>2, <1>4, <2>2 DEF CheckedTurn, Write, o, r
<1>5. NextTime > 0 \/ ~(NextTime > 0)
  OBVIOUS
<1> QED
  BY <1>3, <1>4, <1>5, Zenon

\* The result that is popped comes from the source that was asked.
LEMMA ResultIs ==
    ASSUME IInv, pc \in Awaiting, rFIFO # <<>>
    PROVE  /\ Tail(rFIFO) = <<>> /\ iFIFO = <<>> /\ ins = Nothing
           /\ Head(rFIFO).value \in IF pc = "popPMT" THEN 0 .. Modulus - 1 ELSE Freqs
<1>1. rFIFO \in Seq(Word)
  BY DEF IInv, TypeOK, Words
<1>2. /\ Len(rFIFO) = 1 /\ iFIFO = <<>> /\ ins = Nothing
      /\ rFIFO[1].kind = IF pc = "popPMT" THEN "pmt" ELSE "dds"
  BY DEF IInv, ReadInv
<1>3. Head(rFIFO) = rFIFO[1] /\ 1 \in DOMAIN rFIFO /\ Tail(rFIFO) = <<>>
  BY <1>1, <1>2, TailIs
<1>4. rFIFO[1].value \in IF pc = "popPMT" THEN 0 .. Modulus - 1 ELSE Freqs
  BY <1>2, <1>3 DEF IInv, ResultInv
<1> QED
  BY <1>2, <1>3, <1>4

\* A call writes well-formed instructions.
LEMMA CallType == ASSUME IInv, Call PROVE TypeOK'
<1>1. ASSUME NEW t \in Times, Pulse(t) PROVE TypeOK'
  <2>1. <<Output(t)>> \in Instructions
    BY OutputIs, PulseAssumption, FewAre
  <2> QED
    BY <1>1, <2>1 DEF IInv, TypeOK, Pulse, Places, loopVars, hwVars
<1>2. ASSUME NEW t \in Times \cup {5}, DDSPulse(t) \/ CountingPulse(t) PROVE TypeOK'
  <2>1. <<Whole(t, FALSE)>> \in Instructions /\ <<Whole(t, TRUE)>> \in Instructions
    <3>1. t \in Nat
      BY PulseAssumption
    <3> QED
      BY <3>1, WholeIs, FewAre
  <2>2. CASE DDSPulse(t)
    BY <2>1, <2>2 DEF IInv, TypeOK, DDSPulse, Write, Places, loopVars, hwVars
  <2>3. CASE CountingPulse(t)
    BY <2>1, <2>3 DEF IInv, TypeOK, CountingPulse, Write, Places, loopVars, hwVars
  <2> QED
    BY <1>2, <2>2, <2>3
<1>3. ASSUME NEW f \in Freqs, SetFreq(f) PROVE TypeOK'
  <2>1. <<Control("set", f)>> \in Instructions
    BY ControlIs, FewAre
  <2> QED
    BY <1>3, <2>1 DEF IInv, TypeOK, SetFreq, Write, Places, loopVars, hwVars
<1>4. ASSUME NEW place \in {"popCheck", "popReinit"}, GetFreq(place) PROVE TypeOK'
  <2>1. <<Control("get", 0)>> \in Instructions
    BY ControlIs, PulseAssumption, FewAre
  <2> QED
    BY <1>4, <2>1 DEF IInv, TypeOK, GetFreq, Write, Places, loopVars, hwVars
<1>5. ASSUME GetPMT PROVE TypeOK'
  <2>1. <<Control("pmt", 0)>> \in Instructions
    BY ControlIs, PulseAssumption, FewAre
  <2> QED
    BY <1>5, <2>1 DEF IInv, TypeOK, GetPMT, Write, Places, loopVars, hwVars
<1>6. ASSUME BeginTimingCheck PROVE TypeOK'
  <2>1. <<Control("clear", 0)>> \in Instructions
    BY ControlIs, PulseAssumption, FewAre
  <2> QED
    BY <1>6, <2>1 DEF IInv, TypeOK, BeginTimingCheck, Write, Places, loopVars, hwVars
<1>7. ASSUME EndTimingCheck PROVE TypeOK'
  BY <1>7 DEF IInv, TypeOK, EndTimingCheck, Places, loopVars, hwVars
<1>8. ASSUME NEW n \in CheckedTimes, CheckedPulse(n) PROVE TypeOK'
  BY <1>8, PulseAssumption DEF IInv, TypeOK, CheckedPulse, Places, loopVars, hwVars
<1> QED
  BY <1>1, <1>2, <1>3, <1>4, <1>5, <1>6, <1>7, <1>8 DEF Call

\* So does its continuation; a result it reads back is a value of its kind.
LEMMA ContinueType == ASSUME IInv, Continue PROVE TypeOK'
<1>0. TypeOK
  BY DEF IInv
<1>1. ASSUME Split PROVE TypeOK'
  <2> DEFINE rest == todo[Len(todo)]
             a == [rest EXCEPT !.t = Divide(rest.t)[1]]
             b == [rest EXCEPT !.t = Divide(rest.t)[2]]
  <2>1. todo # <<>> /\ rest \in Instruction
    BY <1>0, <1>1 DEF IInv, TodoInv, Split, TypeOK, Instructions
  <2>2. CASE rest.t > TMax
    <3>1. rest.t \in Nat /\ TBig \in Nat /\ rest.t - TBig \in Nat
      BY <2>1, <2>2, PulseAssumption DEF Instruction
    <3>2. Divide(rest.t)[1] \in Nat /\ Divide(rest.t)[2] \in Nat
      BY <3>1 DEF Divide
    <3>3. a \in Instruction /\ b \in Instruction
      BY <2>1, <3>2 DEF Instruction
    <3>4. todo' = ReplaceLast(todo, a, b)
      BY <1>1, <2>2 DEF Split
    <3>5. todo \in Seq(Instruction)
      BY <1>0 DEF TypeOK, Instructions
    <3> HIDE DEF rest, a, b
    <3>6. todo' \in Instructions
      BY <2>1, <3>3, <3>4, <3>5, SplitIs DEF Instructions
    <3> QED
      BY <1>0, <1>1, <2>2, <3>6 DEF rest, TypeOK, Split, Places, loopVars, hwVars
  <2>3. CASE ~(rest.t > TMax)
    BY <1>0, <1>1, <2>3 DEF TypeOK, Split, Places, loopVars, hwVars
  <2> QED
    BY <2>2, <2>3
<1>2. ASSUME EnsureVacancy PROVE TypeOK'
  BY <1>0, <1>2, PulseAssumption DEF TypeOK, EnsureVacancy, Places, loopVars, hwVars
<1>3. ASSUME ShortPulse PROVE TypeOK'
  <2>1. todo # <<>>
    BY <1>3 DEF IInv, TodoInv, ShortPulse
  <2>2. todo' \in Instructions /\ Head(todo) \in Instruction
    BY <1>0, <1>3, <2>1, TailIs DEF Words, Instructions, TypeOK, ShortPulse
  <2>3. iFIFO' \in Instructions
    BY <1>0, <1>3, <2>2, MarkedIs, AppendIs DEF Instructions, TypeOK, ShortPulse
  <2>4. pc' \in Places /\ vacancy' \in 0 .. WriteDepth
    BY <1>0, <1>3, PulseAssumption DEF TypeOK, ShortPulse
  <2> QED
    BY <1>0, <1>3, <2>2, <2>3, <2>4 DEF TypeOK, ShortPulse, loopVars, hwVars
<1>4. ASSUME NEW t \in Times, Padding(t) PROVE TypeOK'
  <2>1. <<Output(t)>> \in Instructions
    BY OutputIs, PulseAssumption, FewAre
  <2> QED
    BY <1>0, <1>4, <2>1 DEF TypeOK, Padding, Places, loopVars, hwVars
<1>5. ASSUME EnableTimingCheck \/ TimingOk PROVE TypeOK'
  <2>1. ASSUME EnableTimingCheck PROVE TypeOK'
    BY <1>0, <2>1 DEF TypeOK, EnableTimingCheck, Places, loopVars, hwVars
  <2>2. ASSUME TimingOk PROVE TypeOK'
    BY <1>0, <2>2 DEF TypeOK, TimingOk, Places, loopVars, hwVars
  <2> QED
    BY <1>5, <2>1, <2>2
<1>6. ASSUME PopPMT PROVE TypeOK'
  <2>1. Head(rFIFO).value \in 0 .. Modulus - 1
    BY <1>6, ResultIs DEF PopPMT, Awaiting
  <2>2. rFIFO' \in Words
    BY <1>0, <1>6, TailIs DEF Words, Instructions, TypeOK, PopPMT
  <2> QED
    BY <1>0, <1>6, <2>1, <2>2 DEF TypeOK, PopPMT, Places, hwVars
<1>7. ASSUME PopCheck PROVE TypeOK'
  BY <1>0, <1>7, TailIs DEF Words, Instructions, TypeOK, PopCheck, Places, loopVars, hwVars
<1>8. ASSUME PopReinit PROVE TypeOK'
  <2>1. Head(rFIFO).value \in Freqs
    BY <1>8, ResultIs DEF PopReinit, Awaiting
  <2>2. rFIFO' \in Words
    BY <1>0, <1>8, TailIs DEF Words, Instructions, TypeOK, PopReinit
  <2>3. todo' \in Instructions
    <3> DEFINE a == Control("set", 0)
               b == Control("set", Head(rFIFO).value)
               c == Control("pmt", 0)
    <3>1. a \in Instruction /\ b \in Instruction /\ c \in Instruction
      BY <2>1, ControlIs, PulseAssumption
    <3>2. todo' = <<a, b, c>>
      BY <1>8 DEF PopReinit, Write
    <3> HIDE DEF a, b, c
    <3> QED
      BY <3>1, <3>2, FewAre
  <2> QED
    BY <1>0, <1>8, <2>1, <2>2, <2>3 DEF TypeOK, PopReinit, Write, Places, loopVars, hwVars
<1>9. ASSUME CheckedTurn PROVE TypeOK'
  <2>1. nPulses + 1 \in Nat /\ nPulses + 1 > 0 /\ left \in Nat
    BY <1>0 DEF TypeOK
  <2>2. /\ Interval(NextTime, nPulses + 1, left - NextTime = 0) \in Instruction
        /\ left - NextTime \in Nat /\ Control("pmt", 0) \in Instruction
    BY <2>1, IntervalIs, ControlIs, PulseAssumption
  <2>3. todo' \in Instructions
    <3>1. \/ todo' = <<Interval(NextTime, nPulses + 1, left - NextTime = 0), Control("pmt", 0)>>
          \/ todo' = <<Interval(NextTime, nPulses + 1, left - NextTime = 0)>>
          \/ todo' = <<Control("pmt", 0)>>
      BY <1>0, <1>9, TurnIs
    <3> QED
      BY <2>2, <3>1, FewAre
  <2> QED
    BY <1>0, <1>9, <2>2, <2>3 DEF TypeOK, CheckedTurn, Write, Places, hwVars
<1>10. ASSUME CheckedReturns PROVE TypeOK'
  BY <1>0, <1>10 DEF TypeOK, CheckedReturns, Places, hwVars
<1> QED
  BY <1>1, <1>2, <1>3, <1>4, <1>5, <1>6, <1>7, <1>8, <1>9, <1>10 DEF Continue

\* The controller executes well-formed instructions and writes well-formed results.
LEMMA ControllerType == ASSUME IInv, Controller PROVE TypeOK'
<1>0. TypeOK
  BY DEF IInv
<1>1. ASSUME Fetch PROVE TypeOK'
  <2>1. iFIFO' \in Instructions /\ Head(iFIFO) \in Instruction
    BY <1>0, <1>1, TailIs DEF TypeOK, Instructions, Fetch
  <2>2. ins' \in Instruction /\ timing_check' \in BOOLEAN
    BY <1>1, <2>1 DEF Fetch, Instruction
  <2> QED
    BY <1>0, <1>1, <2>1, <2>2 DEF TypeOK, Fetch, cpuVars, loopVars
<1>2. ASSUME Starve PROVE TypeOK'
  BY <1>0, <1>2 DEF TypeOK, Starve, cpuVars, loopVars
<1>3. ASSUME ExecuteOutput PROVE TypeOK'
  <2>1. PICK n \in IF ins.count THEN Photons ELSE {0} :
                counter' = (counter + n) % Modulus /\ unread' = unread + n
    BY <1>3 DEF ExecuteOutput
  <2>2. n \in Nat /\ counter \in Nat /\ unread \in Nat /\ Modulus \in Nat \ {0}
    BY <1>0, PulseAssumption DEF TypeOK
  <2>3. counter' \in 0 .. Modulus - 1 /\ unread' \in Nat
    BY <2>1, <2>2
  <2>4. counted' \in SUBSET Nat /\ ins' \in Instruction \cup {Nothing}
    BY <1>0, <1>3 DEF TypeOK, ExecuteOutput, Done, Instruction
  <2> QED
    BY <1>0, <1>3, <2>3, <2>4 DEF TypeOK, ExecuteOutput, cpuVars, loopVars
<1>4. ASSUME ExecuteSet PROVE TypeOK'
  <2>1. dds' \in Freqs
    BY <1>0, <1>4 DEF TypeOK, ExecuteSet, Instruction
  <2> QED
    BY <1>0, <1>4, <2>1 DEF TypeOK, ExecuteSet, Done, cpuVars, loopVars
<1>5. ASSUME ExecuteClear PROVE TypeOK'
  BY <1>0, <1>5 DEF TypeOK, ExecuteClear, Done, cpuVars, loopVars
<1>6. ASSUME NEW kind \in {"pmt", "dds"}, NEW value \in Nat, PutResult(kind, value)
      PROVE  rFIFO' \in Words /\ overflow' \in BOOLEAN
  <2>1. [kind |-> kind, value |-> value, intervals |-> counted] \in Word
    BY <1>0 DEF TypeOK, Word
  <2>2. rFIFO \in Seq(Word) /\ overflow \in BOOLEAN
    BY <1>0 DEF TypeOK, Words
  <2>3. CASE Len(rFIFO) < ReadDepth
    BY <1>6, <2>1, <2>2, <2>3, AppendIs DEF PutResult, Words
  <2>4. CASE ~(Len(rFIFO) < ReadDepth)
    BY <1>6, <2>2, <2>4 DEF PutResult, Words
  <2> QED
    BY <2>3, <2>4
<1>7. ASSUME ExecuteGet PROVE TypeOK'
  <2>1. rFIFO' \in Words /\ overflow' \in BOOLEAN
    BY <1>0, <1>6, <1>7, PulseAssumption DEF TypeOK, ExecuteGet
  <2> QED
    BY <1>0, <1>7, <2>1 DEF TypeOK, ExecuteGet, Done, cpuVars, loopVars
<1>8. ASSUME ExecutePMT PROVE TypeOK'
  <2>1. rFIFO' \in Words /\ overflow' \in BOOLEAN
    BY <1>0, <1>6, <1>8, PulseAssumption DEF TypeOK, ExecutePMT
  <2> QED
    BY <1>0, <1>8, <2>1 DEF TypeOK, ExecutePMT, Done, cpuVars, loopVars
<1> QED
  BY <1>1, <1>2, <1>3, <1>4, <1>5, <1>7, <1>8 DEF Controller

-----------------------------------------------------------------------------
(* The processor keeps the FIFOs in order. *)

\* What IInv says beyond types.
Order == VacancyIsSafe /\ PartsAreTimeable /\ TodoInv /\ ReadInv /\ ResultInv

\* A call that decides what to write, while no request is under way.
LEMMA WriteKeeps ==
    ASSUME IInv, Quiet', UNCHANGED <<iFIFO, vacancy>>,
           NEW s \in Instructions, s # <<>>, \A i \in DOMAIN s : Timeable(s[i]),
           NEW place \in Awaiting \cup {"ready", "pad", "enable", "loop"}, Write(s, place),
           IF place \in Awaiting THEN ReadLast(s, place) ELSE NoRead(s)
    PROVE  Order'
<1>1. pc' = "write" /\ todo' = s /\ after' = place
  BY DEF Write
<1>2. VacancyIsSafe' /\ PartsAreTimeable'
  BY DEF IInv, VacancyIsSafe, PartsAreTimeable
<1>3. TodoInv'
  BY <1>1 DEF TodoInv
<1>4. ReadInv' /\ ResultInv'
  BY <1>1 DEF ReadInv, ResultInv, Quiet, Awaiting
<1> QED
  BY <1>2, <1>3, <1>4 DEF Order

\* A call that has nothing to write goes on or returns.
LEMMA IdleKeeps ==
    ASSUME IInv, Quiet', UNCHANGED <<iFIFO, vacancy>>, todo' = <<>>,
           pc' \notin Awaiting \cup {"split", "write"}
    PROVE  Order'
<1>1. VacancyIsSafe' /\ PartsAreTimeable'
  BY DEF IInv, VacancyIsSafe, PartsAreTimeable
<1>2. TodoInv' /\ ReadInv' /\ ResultInv'
  BY DEF TodoInv, ReadInv, ResultInv, Quiet
<1> QED
  BY <1>1, <1>2 DEF Order

\* A pulse that may have to be divided is begun.
LEMMA SplitKeeps ==
    ASSUME IInv, Quiet', UNCHANGED <<iFIFO, vacancy>>, NEW t \in Times,
           pc' = "split", todo' = <<Output(t)>>, after' \in {"ready", "enable"}
    PROVE  Order'
<1>1. VacancyIsSafe' /\ PartsAreTimeable'
  BY DEF IInv, VacancyIsSafe, PartsAreTimeable
<1>2. t \in Nat /\ t >= MinTime
  BY PulseAssumption
<1>3. TodoInv'
  <2> DEFINE o == Output(t)
  <2>1. o.t = t /\ ~IsRead(o)
    BY <1>2, OutputIs DEF IsRead
  <2> HIDE DEF o
  <2>2. Len(<<o>>) = 1 /\ <<o>>[1] = o /\ DOMAIN <<o>> = {1} /\ <<o>> # <<>>
    OBVIOUS
  <2>3. todo' = <<o>>
    BY DEF o
  <2>4. NoRead(todo') /\ todo'[Len(todo')].t >= MinTime /\ todo' # <<>>
    BY <1>2, <2>1, <2>2, <2>3 DEF NoRead
  <2>5. \A i \in 1 .. Len(todo') - 1 : Timeable(todo'[i])
    BY <2>2, <2>3
  <2> QED
    BY <2>4, <2>5 DEF TodoInv
<1>4. ReadInv' /\ ResultInv'
  BY DEF ReadInv, ResultInv, Quiet, Awaiting
<1> QED
  BY <1>1, <1>3, <1>4 DEF Order

\* Every new call keeps the order.
LEMMA CallKeeps == ASSUME IInv, Call PROVE Order'
<1>0. /\ 0 \in Freqs /\ MinTime \in Nat
      /\ \A op \in {"set", "get", "pmt", "clear"}, f \in Freqs :
            /\ Control(op, f) \in Instruction /\ Timeable(Control(op, f)) /\ Control(op, f).op = op
  BY ControlIs, PulseAssumption
<1>1. ASSUME NEW i \in Instruction
      PROVE  /\ <<i>> \in Instructions /\ <<i>> # <<>>
             /\ ~IsRead(i) => NoRead(<<i>>)
             /\ \A place : Requests(i, place) => ReadLast(<<i>>, place)
             /\ Timeable(i) => \A k \in DOMAIN <<i>> : Timeable(<<i>>[k])
  <2>1. <<i>> \in Instructions /\ Len(<<i>>) = 1 /\ <<i>>[1] = i /\ DOMAIN <<i>> = {1} /\ <<i>> # <<>>
    BY DEF Instructions
  <2> QED
    BY <2>1 DEF NoRead, ReadLast
<1>2. ASSUME pc = "ready", UNCHANGED <<rFIFO, iFIFO, ins, overflow>> PROVE Quiet'
  BY <1>2 DEF IInv, ReadInv, Quiet, Awaiting
<1>3. ASSUME NEW t \in Times, Pulse(t) PROVE Order'
  BY <1>2, <1>3, SplitKeeps DEF Pulse, hwVars
<1>4. ASSUME NEW t \in Times \cup {5}, NEW count \in BOOLEAN,
             pc = "ready", Write(<<Whole(t, count)>>, "ready"),
             UNCHANGED <<iFIFO, vacancy, rFIFO, ins, overflow>>
      PROVE  Order'
  <2> DEFINE o == Whole(t, count)
  <2>1. t \in Nat /\ t >= MinTime
    BY PulseAssumption
  <2>2. o \in Instruction /\ ~IsRead(o) /\ Timeable(o)
    BY <2>1, WholeIs DEF IsRead
  <2>3. Quiet' /\ Write(<<o>>, "ready") /\ UNCHANGED <<iFIFO, vacancy>>
    BY <1>2, <1>4
  <2> HIDE DEF o
  <2> QED
    BY <1>1, <2>2, <2>3, WriteKeeps DEF Awaiting
<1>11. ASSUME NEW t \in Times \cup {5}, DDSPulse(t) \/ CountingPulse(t) PROVE Order'
  BY <1>4, <1>11 DEF DDSPulse, CountingPulse, hwVars
<1>5. ASSUME NEW f \in Freqs, SetFreq(f) PROVE Order'
  <2> DEFINE o == Control("set", f)
  <2>1. o \in Instruction /\ ~IsRead(o) /\ Timeable(o)
    BY <1>0 DEF IsRead
  <2>2. Quiet' /\ Write(<<o>>, "ready") /\ UNCHANGED <<iFIFO, vacancy>>
    BY <1>2, <1>5 DEF SetFreq, hwVars
  <2> HIDE DEF o
  <2> QED
    BY <1>1, <2>1, <2>2, WriteKeeps DEF Awaiting
<1>6. ASSUME NEW place \in {"popCheck", "popReinit"}, GetFreq(place) PROVE Order'
  <2> DEFINE o == Control("get", 0)
  <2>1. o \in Instruction /\ Requests(o, place) /\ Timeable(o)
    BY <1>0 DEF Requests
  <2>2. Quiet' /\ Write(<<o>>, place) /\ UNCHANGED <<iFIFO, vacancy>>
    BY <1>2, <1>6 DEF GetFreq, hwVars
  <2> HIDE DEF o
  <2> QED
    BY <1>1, <2>1, <2>2, WriteKeeps DEF Awaiting
<1>7. ASSUME GetPMT PROVE Order'
  <2> DEFINE o == Control("pmt", 0)
  <2>1. o \in Instruction /\ Requests(o, "popPMT") /\ Timeable(o)
    BY <1>0 DEF Requests
  <2>2. Quiet' /\ Write(<<o>>, "popPMT") /\ UNCHANGED <<iFIFO, vacancy>>
    BY <1>2, <1>7 DEF GetPMT, hwVars
  <2> HIDE DEF o
  <2> QED
    BY <1>1, <2>1, <2>2, WriteKeeps DEF Awaiting
<1>8. ASSUME BeginTimingCheck PROVE Order'
  <2> DEFINE o == Control("clear", 0)
  <2>1. o \in Instruction /\ ~IsRead(o) /\ Timeable(o)
    BY <1>0 DEF IsRead
  <2>2. Quiet' /\ Write(<<o>>, "pad") /\ UNCHANGED <<iFIFO, vacancy>>
    BY <1>2, <1>8 DEF BeginTimingCheck, hwVars
  <2> HIDE DEF o
  <2> QED
    BY <1>1, <2>1, <2>2, WriteKeeps DEF Awaiting
<1>9. ASSUME EndTimingCheck PROVE Order'
  <2>1. todo' = <<>> /\ Quiet' /\ UNCHANGED <<iFIFO, vacancy>>
    BY <1>2, <1>9 DEF IInv, TodoInv, EndTimingCheck, hwVars
  <2> QED
    BY <1>9, <2>1, IdleKeeps DEF EndTimingCheck, Awaiting
<1>10. ASSUME NEW n \in CheckedTimes, CheckedPulse(n) PROVE Order'
  <2>1. todo' = <<>> /\ Quiet' /\ UNCHANGED <<iFIFO, vacancy>>
    BY <1>2, <1>10 DEF IInv, TodoInv, CheckedPulse, hwVars
  <2> QED
    BY <1>10, <2>1, IdleKeeps DEF CheckedPulse, Awaiting
<1> QED
  BY <1>3, <1>5, <1>6, <1>7, <1>8, <1>9, <1>10, <1>11 DEF Call

\* The part of a long pulse that is cut off can be timed, and so can what remains.
LEMMA DivideIs ==
    ASSUME NEW t \in Nat, t > TMax
    PROVE  Divide(t)[1] \in MinTime .. TMax /\ Divide(t)[2] \in Nat /\ Divide(t)[2] >= MinTime
<1>1. TBig \in MinTime .. TMax /\ t - TBig \in Nat /\ t - TBig >= MinTime
  BY PulseAssumption
<1> QED
  BY <1>1 DEF Divide

\* One turn of the division.
LEMMA SplitStep == ASSUME IInv, Split PROVE Order'
<1> DEFINE n    == Len(todo)
           rest == todo[n]
           a    == [rest EXCEPT !.t = Divide(rest.t)[1]]
           b    == [rest EXCEPT !.t = Divide(rest.t)[2]]
<1>1. /\ pc = "split" /\ todo \in Seq(Instruction) /\ todo # <<>> /\ after \in {"ready", "enable"}
      /\ NoRead(todo) /\ rest.t >= MinTime /\ \A i \in 1 .. n - 1 : Timeable(todo[i])
  BY DEF IInv, TypeOK, Instructions, TodoInv, Split
<1>2. n \in Nat /\ n > 0 /\ DOMAIN todo = 1 .. n /\ rest \in Instruction
  BY <1>1
<1>3. rest.t \in Nat /\ rest.t >= MinTime /\ ~IsRead(rest)
  BY <1>1, <1>2 DEF Instruction, NoRead
<1>4. VacancyIsSafe' /\ PartsAreTimeable'
  BY DEF IInv, VacancyIsSafe, PartsAreTimeable, Split, hwVars
<1>5. Quiet' /\ after' = after
  BY <1>1 DEF IInv, ReadInv, Quiet, Awaiting, Split, hwVars
<1>6. TodoInv'
  <2>1. CASE rest.t > TMax
    <3>1. /\ Divide(rest.t)[1] \in MinTime .. TMax
          /\ Divide(rest.t)[2] \in Nat /\ Divide(rest.t)[2] >= MinTime
      BY <1>3, <2>1, DivideIs
    <3>2. /\ a \in Instruction /\ ~IsRead(a) /\ Timeable(a)
          /\ b \in Instruction /\ ~IsRead(b) /\ b.t >= MinTime
      <4>0. Divide(rest.t)[1] \in Nat
        BY <3>1, PulseAssumption
      <4>1. a \in Instruction /\ a.op = rest.op /\ a.t = Divide(rest.t)[1]
        BY <1>2, <4>0 DEF Instruction
      <4>2. b \in Instruction /\ b.op = rest.op /\ b.t = Divide(rest.t)[2]
        BY <1>2, <3>1 DEF Instruction
      <4> HIDE DEF rest, a, b
      <4>3. MinTime \in Nat /\ TMax \in Nat
        BY PulseAssumption
      <4>4. ASSUME NEW x \in MinTime .. TMax PROVE ~(x > TMax) /\ ~(x < MinTime)
        BY <4>3
      <4>5. ~(a.t > TMax) /\ ~(a.t < MinTime) /\ b.t >= MinTime
        BY <3>1, <4>1, <4>2, <4>4, Zenon
      <4> QED
        BY <1>3, <4>1, <4>2, <4>5 DEF IsRead, Timeable
    <3>3. todo' = ReplaceLast(todo, a, b) /\ pc' = "split"
      BY <1>1, <2>1 DEF Split
    <3> HIDE DEF rest, a, b
    <3>4. /\ todo' \in Seq(Instruction) /\ Len(todo') = n + 1
          /\ \A i \in 1 .. n - 1 : todo'[i] = todo[i]
          /\ todo'[n] = a /\ todo'[n + 1] = b
      <4>1. todo \in Seq(Instruction) /\ todo # <<>> /\ a \in Instruction /\ b \in Instruction
        BY <1>1, <3>2
      <4>2. /\ ReplaceLast(todo, a, b) \in Seq(Instruction)
            /\ Len(ReplaceLast(todo, a, b)) = Len(todo) + 1
            /\ \A i \in 1 .. Len(todo) - 1 : ReplaceLast(todo, a, b)[i] = todo[i]
            /\ ReplaceLast(todo, a, b)[Len(todo)] = a
            /\ ReplaceLast(todo, a, b)[Len(todo) + 1] = b
        BY <4>1, SplitIs
      <4> QED
        BY <3>3, <4>2, Zenon
    <3> HIDE DEF n
    <3>5. DOMAIN todo' = 1 .. n + 1 /\ todo' # <<>>
      BY <1>2, <3>4
    <3>6. \A i \in 1 .. n + 1 : ~IsRead(todo'[i])
      BY <1>1, <1>2, <3>2, <3>4 DEF NoRead
    <3>7. \A i \in 1 .. n : Timeable(todo'[i])
      BY <1>1, <1>2, <3>2, <3>4
    <3>8. NoRead(todo') /\ todo'[Len(todo')].t >= MinTime
      BY <1>2, <3>2, <3>4, <3>5, <3>6 DEF NoRead
    <3>9. \A i \in 1 .. Len(todo') - 1 : Timeable(todo'[i])
      BY <1>2, <3>4, <3>7
    <3> QED
      BY <1>1, <1>5, <3>3, <3>5, <3>8, <3>9 DEF TodoInv
  <2>2. CASE ~(rest.t > TMax)
    <3>1. pc' = "write" /\ todo' = todo
      BY <1>1, <2>2 DEF Split
    <3>2. Timeable(rest)
      BY <1>3, <2>2, PulseAssumption DEF Timeable
    <3>3. \A i \in DOMAIN todo : Timeable(todo[i])
      BY <1>1, <1>2, <3>2
    <3> QED
      BY <1>1, <1>5, <3>1, <3>3 DEF TodoInv, Awaiting
  <2> QED
    BY <2>1, <2>2
<1>7. pc' \in {"split", "write"}
  BY <1>1 DEF Split
<1>8. ReadInv' /\ ResultInv'
  BY <1>5, <1>7 DEF ReadInv, ResultInv, Quiet, Awaiting
<1> QED
  BY <1>4, <1>6, <1>8 DEF Order

\* One instruction is written, and the call goes on after the last one.
LEMMA ShortPulseStep == ASSUME IInv, ShortPulse PROVE Order'
<1> DEFINE x == [Head(todo) EXCEPT !.check = extra_flags]
<1>1. /\ pc = "write" /\ todo \in Seq(Instruction) /\ todo # <<>> /\ iFIFO \in Seq(Instruction)
      /\ extra_flags \in BOOLEAN /\ vacancy \in 0 .. WriteDepth /\ WriteDepth \in Nat
      /\ vacancy + Len(iFIFO) <= WriteDepth /\ vacancy > 0
  BY PulseAssumption DEF IInv, TypeOK, TodoInv, Instructions, VacancyIsSafe, ShortPulse
<1>2. /\ iFIFO' = Append(iFIFO, x) /\ todo' = Tail(todo) /\ vacancy' = vacancy - 1
      /\ pc' = (IF Len(todo) = 1 THEN after ELSE "write") /\ after' = after
      /\ rFIFO' = rFIFO /\ ins' = ins /\ overflow' = overflow
  BY <1>1 DEF ShortPulse, hwVars
<1>3. /\ after \in Awaiting \cup {"ready", "pad", "enable", "loop"}
      /\ IF after \in Awaiting THEN ReadLast(todo, after) ELSE NoRead(todo)
      /\ \A i \in DOMAIN todo : Timeable(todo[i])
  BY <1>1 DEF IInv, TodoInv
<1>4. Quiet
  BY <1>1 DEF IInv, ReadInv, Awaiting
<1>5. /\ Head(todo) \in Instruction /\ Timeable(Head(todo))
      /\ \A i \in DOMAIN Tail(todo) : Timeable(Tail(todo)[i])
      /\ Tail(todo) = <<>> <=> Len(todo) = 1
  <2>1. /\ \A i \in 1 .. Len(todo) - 1 : Tail(todo)[i] = todo[i + 1]
        /\ Head(todo) = todo[1] /\ Head(todo) \in Instruction
        /\ DOMAIN Tail(todo) = 1 .. Len(todo) - 1 /\ DOMAIN todo = 1 .. Len(todo)
        /\ Len(todo) \in Nat /\ Len(todo) > 0
        /\ Tail(todo) = <<>> <=> Len(todo) = 1
    BY <1>1, TailIs
  <2> QED
    BY <1>3, <2>1
<1>6. /\ x \in Instruction /\ Timeable(x) /\ (IsRead(x) <=> IsRead(Head(todo)))
      /\ \A place : Requests(x, place) <=> Requests(Head(todo), place)
  BY <1>1, <1>5, MarkedIs
<1> HIDE DEF x
<1>7. VacancyIsSafe'
  <2>1. Len(iFIFO') = Len(iFIFO) + 1 /\ Len(iFIFO) \in Nat
    BY <1>1, <1>2, <1>6, AppendIs
  <2> QED
    BY <1>1, <1>2, <2>1 DEF VacancyIsSafe
<1>8. PartsAreTimeable'
  <2>1. \A i \in DOMAIN iFIFO : Timeable(iFIFO[i])
    BY DEF IInv, PartsAreTimeable, Timeable
  <2>2. \A i \in DOMAIN iFIFO' : Timeable(iFIFO'[i])
    BY <1>1, <1>2, <1>6, <2>1, AppendIs
  <2> QED
    BY <2>2 DEF PartsAreTimeable, Timeable
<1>9. NoRead(iFIFO)
  BY <1>4 DEF Quiet
<1>10. CASE after \in Awaiting /\ Len(todo) = 1
  <2>1. Requests(x, after) /\ Tail(todo) = <<>>
    BY <1>1, <1>3, <1>6, <1>10, TailRequest
  <2>2. ReadLast(iFIFO', pc') /\ pc' = after
    BY <1>1, <1>2, <1>6, <1>9, <1>10, <2>1, AppendQuiet
  <2>3. TodoInv'
    BY <1>2, <1>10, <2>1, <2>2 DEF TodoInv, Awaiting
  <2>4. ReadInv' /\ ResultInv'
    BY <1>2, <1>4, <1>10, <2>2 DEF ReadInv, ResultInv, Quiet
  <2> QED
    BY <1>7, <1>8, <2>3, <2>4 DEF Order
<1>11. CASE after \in Awaiting /\ Len(todo) # 1
  <2>1. ~IsRead(x) /\ ReadLast(Tail(todo), after)
    BY <1>1, <1>3, <1>6, <1>11, TailRequest
  <2>2. NoRead(iFIFO') /\ pc' = "write"
    BY <1>1, <1>2, <1>6, <1>9, <1>11, <2>1, AppendQuiet
  <2>3. TodoInv'
    BY <1>2, <1>3, <1>5, <1>11, <2>1, <2>2 DEF TodoInv
  <2>4. ReadInv' /\ ResultInv'
    BY <1>2, <1>4, <2>2 DEF ReadInv, ResultInv, Quiet, Awaiting
  <2> QED
    BY <1>7, <1>8, <2>3, <2>4 DEF Order
<1>12. CASE after \notin Awaiting
  <2>1. ~IsRead(x) /\ NoRead(Tail(todo))
    BY <1>1, <1>3, <1>6, <1>12, TailQuiet
  <2>2. NoRead(iFIFO')
    BY <1>1, <1>2, <1>6, <1>9, <2>1, AppendQuiet
  <2>3. pc' \in {"write", "ready", "pad", "enable", "loop"}
    BY <1>2, <1>3, <1>12
  <2>4. TodoInv'
    BY <1>2, <1>3, <1>5, <1>12, <2>1, <2>3 DEF TodoInv, Awaiting
  <2>5. ReadInv' /\ ResultInv'
    BY <1>2, <1>4, <2>2, <2>3 DEF ReadInv, ResultInv, Quiet, Awaiting
  <2> QED
    BY <1>7, <1>8, <2>4, <2>5 DEF Order
<1> QED
  BY <1>10, <1>11, <1>12

\* The continuation of a call keeps the order.
LEMMA ContinueKeeps == ASSUME IInv, Continue PROVE Order'
<1>0. /\ 0 \in Freqs /\ MinTime \in Nat
      /\ \A op \in {"set", "get", "pmt", "clear"}, f \in Freqs :
            /\ Control(op, f) \in Instruction /\ Timeable(Control(op, f)) /\ Control(op, f).op = op
  BY ControlIs, PulseAssumption
<1>1. ASSUME Split PROVE Order'
  BY <1>1, SplitStep
<1>2. ASSUME EnsureVacancy PROVE Order'
  <2>1. VacancyIsSafe'
    <3>1. Len(iFIFO) \in Nat /\ WriteDepth \in Nat
      BY PulseAssumption DEF IInv, TypeOK, Instructions
    <3>2. vacancy' = WriteDepth - Len(iFIFO) /\ iFIFO' = iFIFO
      BY <1>2 DEF EnsureVacancy
    <3> QED
      BY <3>1, <3>2 DEF VacancyIsSafe
  <2>2. PartsAreTimeable' /\ TodoInv' /\ ReadInv' /\ ResultInv'
    BY <1>2 DEF EnsureVacancy, IInv, PartsAreTimeable, TodoInv, ReadInv, ResultInv, Quiet, hwVars
  <2> QED
    BY <2>1, <2>2 DEF Order
<1>3. ASSUME ShortPulse PROVE Order'
  BY <1>3, ShortPulseStep
<1>4. ASSUME pc \notin Awaiting, UNCHANGED <<rFIFO, iFIFO, ins, overflow>> PROVE Quiet'
  BY <1>4 DEF IInv, ReadInv, Quiet
<1>5. ASSUME NEW t \in Times, Padding(t) PROVE Order'
  <2>1. Quiet' /\ UNCHANGED <<iFIFO, vacancy>>
    BY <1>4, <1>5 DEF Padding, hwVars, Awaiting
  <2>2. CASE pc' = "split"
    BY <1>5, <2>1, <2>2, SplitKeeps DEF Padding
  <2>3. CASE pc' = "enable"
    <3>1. todo' = <<>>
      BY <1>5, <2>3 DEF Padding, IInv, TodoInv
    <3> QED
      BY <2>1, <2>3, <3>1, IdleKeeps DEF Awaiting
  <2> QED
    BY <1>5, <2>2, <2>3 DEF Padding
<1>6. ASSUME EnableTimingCheck \/ TimingOk \/ CheckedReturns PROVE Order'
  <2>1. /\ pc \in {"enable", "status", "loop"} /\ pc' = "ready"
        /\ UNCHANGED <<todo, rFIFO, iFIFO, ins, overflow, vacancy>>
    BY <1>6 DEF EnableTimingCheck, TimingOk, CheckedReturns, hwVars
  <2>2. todo' = <<>> /\ Quiet'
    BY <1>4, <2>1 DEF IInv, TodoInv, Awaiting
  <2> QED
    BY <2>1, <2>2, IdleKeeps DEF Awaiting
<1>7. ASSUME pc \in Awaiting, rFIFO # <<>>, rFIFO' = Tail(rFIFO), UNCHANGED <<iFIFO, ins, overflow>>
      PROVE  Quiet'
  <2>1. Tail(rFIFO) = <<>> /\ iFIFO = <<>> /\ ins = Nothing
    BY <1>7, ResultIs
  <2> QED
    BY <1>7, <2>1 DEF IInv, ReadInv, Quiet, NoRead
<1>8. ASSUME PopPMT \/ PopCheck PROVE Order'
  <2>1. /\ pc \in Awaiting /\ rFIFO # <<>> /\ rFIFO' = Tail(rFIFO) /\ pc' \in {"ready", "loop"}
        /\ UNCHANGED <<todo, iFIFO, ins, overflow, vacancy>>
    BY <1>8 DEF PopPMT, PopCheck, hwVars, Awaiting
  <2>2. todo' = <<>> /\ Quiet'
    BY <1>7, <2>1 DEF IInv, TodoInv, Awaiting
  <2> QED
    BY <2>1, <2>2, IdleKeeps DEF Awaiting
<1>9. ASSUME PopReinit PROVE Order'
  <2> DEFINE a == Control("set", 0)
             b == Control("set", Head(rFIFO).value)
             c == Control("pmt", 0)
             s == <<a, b, c>>
  <2>1. Head(rFIFO).value \in Freqs
    BY <1>9, ResultIs DEF PopReinit, Awaiting
  <2>2. /\ a \in Instruction /\ Timeable(a) /\ ~IsRead(a)
        /\ b \in Instruction /\ Timeable(b) /\ ~IsRead(b)
        /\ c \in Instruction /\ Timeable(c) /\ Requests(c, "popPMT")
    BY <1>0, <2>1 DEF IsRead, Requests
  <2>3. Write(s, "popPMT") /\ UNCHANGED <<iFIFO, ins, overflow, vacancy>>
    BY <1>9 DEF PopReinit, hwVars
  <2>4. Quiet'
    BY <1>7, <1>9 DEF PopReinit, hwVars, Awaiting
  <2> HIDE DEF a, b, c
  <2>5. s \in Instructions /\ s # <<>>
    BY <2>2, FewAre
  <2>6. Len(s) = 3 /\ s[1] = a /\ s[2] = b /\ s[3] = c /\ DOMAIN s = 1 .. 3
    OBVIOUS
  <2> HIDE DEF s
  <2>7. ReadLast(s, "popPMT") /\ \A i \in DOMAIN s : Timeable(s[i])
    BY <2>2, <2>5, <2>6 DEF ReadLast
  <2> QED
    BY <2>3, <2>4, <2>5, <2>7, WriteKeeps DEF Awaiting
<1>10. ASSUME CheckedTurn PROVE Order'
  <2> DEFINE o == Interval(NextTime, nPulses + 1, left - NextTime = 0)
             r == Control("pmt", 0)
  <2>1. nPulses + 1 \in Nat /\ nPulses + 1 > 0 /\ left \in Nat
    BY DEF IInv, TypeOK
  <2>2. /\ o \in Instruction /\ o.op = "out" /\ Timeable(o)
        /\ r \in Instruction /\ Timeable(r) /\ r.op = "pmt"
    BY <1>0, <2>1, IntervalIs
  <2>3. \/ todo' = <<o, r>> /\ after' = "popPMT"
        \/ todo' = <<o>> /\ after' = "loop"
        \/ todo' = <<r>> /\ after' = "popPMT"
    BY <1>10, TurnIs DEF IInv
  <2>4. Quiet' /\ pc' = "write" /\ UNCHANGED <<iFIFO, vacancy>>
    BY <1>4, <1>10 DEF CheckedTurn, Write, hwVars, Awaiting
  <2> HIDE DEF o, r
  <2>5. Timeable(o) /\ ~IsRead(o) /\ Requests(r, "popPMT")
    BY <2>2 DEF IsRead, Requests
  <2>6. CASE todo' = <<o, r>> /\ after' = "popPMT"
    <3> DEFINE s == <<o, r>>
    <3>1. s \in Instructions /\ s # <<>>
      BY <2>2, FewAre
    <3>2. Len(s) = 2 /\ s[1] = o /\ s[2] = r /\ DOMAIN s = 1 .. 2
      OBVIOUS
    <3>3. Write(s, "popPMT")
      BY <2>4, <2>6 DEF Write
    <3> HIDE DEF s
    <3>4. ReadLast(s, "popPMT") /\ \A i \in DOMAIN s : Timeable(s[i])
      BY <2>2, <2>5, <3>1, <3>2 DEF ReadLast
    <3> QED
      BY <2>4, <3>1, <3>3, <3>4, WriteKeeps DEF Awaiting
  <2>7. CASE todo' = <<o>> /\ after' = "loop"
    <3> DEFINE s == <<o>>
    <3>1. s \in Instructions /\ s # <<>>
      BY <2>2, FewAre
    <3>2. Len(s) = 1 /\ s[1] = o /\ DOMAIN s = 1 .. 1
      OBVIOUS
    <3>3. Write(s, "loop")
      BY <2>4, <2>7 DEF Write
    <3> HIDE DEF s
    <3>4. NoRead(s) /\ \A i \in DOMAIN s : Timeable(s[i])
      BY <2>5, <3>2 DEF NoRead
    <3> QED
      BY <2>4, <3>1, <3>3, <3>4, WriteKeeps DEF Awaiting
  <2>8. CASE todo' = <<r>> /\ after' = "popPMT"
    <3> DEFINE s == <<r>>
    <3>1. s \in Instructions /\ s # <<>>
      BY <2>2, FewAre
    <3>2. Len(s) = 1 /\ s[1] = r /\ DOMAIN s = 1 .. 1
      OBVIOUS
    <3>3. Write(s, "popPMT")
      BY <2>4, <2>8 DEF Write
    <3> HIDE DEF s
    <3>4. ReadLast(s, "popPMT") /\ \A i \in DOMAIN s : Timeable(s[i])
      BY <2>2, <2>5, <3>1, <3>2 DEF ReadLast
    <3> QED
      BY <2>4, <3>1, <3>3, <3>4, WriteKeeps DEF Awaiting
  <2> QED
    BY <2>3, <2>6, <2>7, <2>8
<1> QED
  BY <1>1, <1>2, <1>3, <1>5, <1>6, <1>8, <1>9, <1>10 DEF Continue

-----------------------------------------------------------------------------
(* The controller keeps the FIFOs in order. *)

\* Its steps leave the processor alone.
LEMMA ControllerKeeps == ASSUME IInv, Controller PROVE Order'
<1>0. /\ iFIFO \in Seq(Instruction) /\ rFIFO \in Seq(Word) /\ vacancy \in Nat
      /\ ins \in Instruction \cup {Nothing} /\ counter \in 0 .. Modulus - 1 /\ dds \in Freqs
      /\ vacancy + Len(iFIFO) <= WriteDepth
      /\ \A i \in DOMAIN iFIFO : Timeable(iFIFO[i])
  BY PulseAssumption
     DEF IInv, TypeOK, Instructions, Words, VacancyIsSafe, PartsAreTimeable, Timeable
<1>1. UNCHANGED <<pc, todo, after, vacancy>>
  BY DEF Controller, Fetch, Starve, ExecuteOutput, ExecuteSet, ExecuteClear, ExecuteGet, ExecutePMT,
         cpuVars
<1>2. TodoInv'
  BY <1>1 DEF IInv, TodoInv
<1>3. ASSUME Fetch PROVE Order'
  <2>1. /\ iFIFO # <<>> /\ iFIFO' = Tail(iFIFO) /\ ins' = Head(iFIFO) /\ ins = Nothing
        /\ UNCHANGED <<rFIFO, overflow>>
    BY <1>3 DEF Fetch
  <2>2. /\ \A i \in 1 .. Len(iFIFO) - 1 : Tail(iFIFO)[i] = iFIFO[i + 1]
        /\ DOMAIN Tail(iFIFO) = 1 .. Len(iFIFO) - 1 /\ DOMAIN iFIFO = 1 .. Len(iFIFO)
        /\ Len(Tail(iFIFO)) = Len(iFIFO) - 1 /\ Len(iFIFO) \in Nat
        /\ Tail(iFIFO) = <<>> <=> Len(iFIFO) = 1
    BY <1>0, <2>1, TailIs
  <2>3. VacancyIsSafe'
    <3> DEFINE n == Len(iFIFO')
    <3>1. n = Len(iFIFO) - 1
      BY <2>1, <2>2
    <3> HIDE DEF n
    <3>2. vacancy + n <= WriteDepth
      BY <1>0, <2>2, <3>1, PulseAssumption
    <3> QED
      BY <1>1, <3>2 DEF n, VacancyIsSafe
  <2>4. PartsAreTimeable'
    <3>1. \A i \in DOMAIN iFIFO' : Timeable(iFIFO'[i])
      BY <1>0, <2>1, <2>2
    <3> QED
      BY <3>1 DEF PartsAreTimeable, Timeable
  <2>5. ReadInv'
    <3>1. CASE pc \notin Awaiting
      <4>1. Quiet
        BY <3>1 DEF IInv, ReadInv
      <4>2. NoRead(Tail(iFIFO)) /\ ~IsRead(Head(iFIFO))
        BY <1>0, <2>1, <4>1, TailQuiet DEF Quiet
      <4> QED
        BY <1>1, <2>1, <3>1, <4>1, <4>2 DEF ReadInv, Quiet
    <3>2. CASE pc \in Awaiting
      <4>1. rFIFO = <<>> /\ ReadLast(iFIFO, pc) /\ ~overflow
        BY <2>1, <3>2 DEF IInv, ReadInv
      <4>2. CASE Len(iFIFO) = 1
        <5>1. Requests(Head(iFIFO), pc) /\ Tail(iFIFO) = <<>>
          BY <1>0, <4>1, <4>2, TailRequest
        <5>2. ins' # Nothing \/ ins' = Nothing
          OBVIOUS
        <5>3. ins' # Nothing
          BY <1>0, <2>1, TailIs, NothingIsNone
        <5> QED
          BY <1>1, <2>1, <3>2, <4>1, <5>1, <5>3 DEF ReadInv
      <4>3. CASE Len(iFIFO) # 1
        <5>1. ReadLast(Tail(iFIFO), pc) /\ ~IsRead(Head(iFIFO))
          BY <1>0, <4>1, <4>3, TailRequest
        <5> QED
          BY <1>1, <2>1, <3>2, <4>1, <5>1 DEF ReadInv
      <4> QED
        BY <4>2, <4>3
    <3> QED
      BY <3>1, <3>2
  <2>6. ResultInv'
    BY <2>1 DEF IInv, ResultInv
  <2> QED
    BY <1>2, <2>3, <2>4, <2>5, <2>6 DEF Order
<1>4. ASSUME UNCHANGED <<iFIFO, rFIFO, overflow>>,
             ins' = ins \/ (ins' = Nothing /\ ~IsRead(ins) /\ ins # Nothing)
      PROVE  Order'
  <2>1. VacancyIsSafe' /\ PartsAreTimeable' /\ ResultInv'
    BY <1>1, <1>4 DEF IInv, VacancyIsSafe, PartsAreTimeable, ResultInv
  <2>2. ReadInv'
    BY <1>1, <1>4 DEF IInv, ReadInv, Quiet, Requests, IsRead
  <2> QED
    BY <1>2, <2>1, <2>2 DEF Order
<1>5. ASSUME Starve PROVE Order'
  BY <1>4, <1>5 DEF Starve
<1>6. ASSUME ExecuteOutput \/ ExecuteSet \/ ExecuteClear PROVE Order'
  BY <1>4, <1>6 DEF ExecuteOutput, ExecuteSet, ExecuteClear, Done, IsRead
<1>7. ASSUME NEW kind \in {"pmt", "dds"}, ins # Nothing, ins.op = IF kind = "pmt" THEN "pmt" ELSE "get",
             NEW value \in IF kind = "pmt" THEN 0 .. Modulus - 1 ELSE Freqs,
             PutResult(kind, value), Done, UNCHANGED iFIFO
      PROVE  Order'
  <2> DEFINE w == [kind |-> kind, value |-> value, intervals |-> counted]
  <2>1. /\ pc \in Awaiting /\ rFIFO = <<>> /\ iFIFO = <<>> /\ ~overflow /\ Requests(ins, pc)
    BY <1>7 DEF IInv, ReadInv, Quiet, IsRead, Awaiting
  <2>2. kind = IF pc = "popPMT" THEN "pmt" ELSE "dds"
    BY <1>7, <2>1 DEF Requests
  <2>3. Len(rFIFO) < ReadDepth
    BY <2>1, PulseAssumption, EmptySeq
  <2>4. rFIFO' = Append(<<>>, w) /\ overflow' = overflow
    BY <1>7, <2>1, <2>3 DEF PutResult
  <2>5. w.kind = kind /\ w.value = value
    OBVIOUS
  <2> HIDE DEF w
  <2>6. rFIFO' = <<w>>
    BY <2>4
  <2>7. Len(<<w>>) = 1 /\ <<w>>[1] = w /\ DOMAIN <<w>> = {1}
    OBVIOUS
  <2>8. ReadInv'
    BY <1>1, <1>7, <2>1, <2>2, <2>4, <2>5, <2>6, <2>7 DEF ReadInv, Done
  <2>9. ResultInv'
    BY <1>7, <2>5, <2>6, <2>7 DEF ResultInv
  <2>10. VacancyIsSafe' /\ PartsAreTimeable'
    BY <1>1, <1>7 DEF IInv, VacancyIsSafe, PartsAreTimeable
  <2> QED
    BY <1>2, <2>8, <2>9, <2>10 DEF Order
<1>8. ASSUME ExecuteGet PROVE Order'
  BY <1>0, <1>7, <1>8 DEF ExecuteGet
<1>9. ASSUME ExecutePMT PROVE Order'
  BY <1>0, <1>7, <1>9 DEF ExecutePMT
<1> QED
  BY <1>3, <1>5, <1>6, <1>8, <1>9 DEF Controller

-----------------------------------------------------------------------------
(* Arithmetic of a counter that wraps. *)

\* Division with remainder.
LEMMA QuotientIs ==
    ASSUME NEW m \in Int, m > 0, NEW x \in Int
    PROVE  x = (x \div m) * m + (x % m)
BY Z3

LEMMA DivisionIs ==
    ASSUME NEW m \in Int, m > 0, NEW x \in Int
    PROVE  x % m \in 0 .. m - 1 /\ \E q \in Int : x = q * m + (x % m)
<1>1. x \div m \in Int
  OBVIOUS
<1>2. x = (x \div m) * m + (x % m)
  BY QuotientIs, Zenon
<1>3. x % m \in 0 .. m - 1
  OBVIOUS
<1> QED
  BY <1>1, <1>2, <1>3

\* The remainder is unique.
LEMMA RemainderIs ==
    ASSUME NEW m \in Int, m > 0, NEW x \in Int, NEW r \in 0 .. m - 1, NEW q \in Int, x = q * m + r
    PROVE  x % m = r
<1> DEFINE s == x % m
<1>1. PICK p \in Int : x = p * m + s
  BY DivisionIs
<1>2. s \in 0 .. m - 1
  BY DivisionIs
<1> HIDE DEF s
<1> DEFINE d == p - q
<1>3. d * m = r - s
  BY <1>1, <1>2
<1>4. d \in Int
  OBVIOUS
<1> HIDE DEF d
<1>5. d >= 1 => d * m >= m
  BY <1>4
<1>6. d <= -1 => d * m <= -m
  BY <1>4
<1>7. d = 0
  BY <1>2, <1>3, <1>4, <1>5, <1>6
<1>8. r = s
  BY <1>2, <1>3, <1>4, <1>7
<1> QED
  BY <1>8 DEF s

\* Counting on from a remainder, and back to where the counting began.
LEMMA RemainderAdds ==
    ASSUME NEW m \in Int, m > 0, NEW x \in Int, NEW y \in Int
    PROVE  /\ ((x % m) + y) % m = (x + y) % m
           /\ (((x + y) % m) - x) % m = y % m
<1> DEFINE a == x % m
           b == (x + y) % m
           c == y % m
<1>1. PICK p \in Int : x = p * m + a
  BY DivisionIs
<1>2. PICK q \in Int : x + y = q * m + b
  BY DivisionIs
<1>3. PICK k \in Int : y = k * m + c
  BY DivisionIs
<1>4. a \in Int /\ b \in 0 .. m - 1 /\ c \in 0 .. m - 1
  BY DivisionIs
<1> HIDE DEF a, b, c
<1>5. (q - p) * m = q * m - p * m /\ (k - q) * m = k * m - q * m
  OBVIOUS
<1>6. q * m \in Int /\ p * m \in Int /\ k * m \in Int
  OBVIOUS
<1>7. a + y = (q - p) * m + b
  BY <1>1, <1>2, <1>4, <1>5, <1>6
<1>8. b - x = (k - q) * m + c
  BY <1>2, <1>3, <1>4, <1>5, <1>6
<1>9. (a + y) % m = b
  <2> DEFINE e == a + y
             d == q - p
  <2>1. e \in Int /\ d \in Int /\ e = d * m + b
    BY <1>4, <1>7
  <2> HIDE DEF e, d
  <2>2. e % m = b
    BY <1>4, <2>1, RemainderIs
  <2> QED
    BY <2>2 DEF e
<1>10. (b - x) % m = c
  <2> DEFINE e == b - x
             d == k - q
  <2>1. e \in Int /\ d \in Int /\ e = d * m + c
    BY <1>4, <1>8
  <2> HIDE DEF e, d
  <2>2. e % m = c
    BY <1>4, <2>1, RemainderIs
  <2> QED
    BY <2>2 DEF e
<1> QED
  BY <1>9, <1>10 DEF a, b, c

-----------------------------------------------------------------------------
(* The counter and the reads. *)

\* A word read from the counter waits to be popped.
Answered == rFIFO # <<>> /\ rFIFO[1].kind = "pmt"

\* The photons since the last read are what the counter advanced since that read, or
\* since the word was read that waits.
CounterInv == counter = ((IF Answered THEN rFIFO[1].value ELSE last) + unread) % Modulus

\* What PhotonCounter is told of the answer.
PMTAnswer == IF Answered THEN (rFIFO[1].value - last) % Modulus ELSE Nothing

ReadVars == <<counter, rFIFO, last, unread>>

LEMMA ReadSteps ==
    ASSUME [Next]_vars
    PROVE  \/ UNCHANGED ReadVars
           \/ PopPMT \/ PopCheck \/ PopReinit \/ ExecuteOutput \/ ExecuteGet \/ ExecutePMT
<1> USE DEF ReadVars, hwVars, cpuVars
<1>1. CASE Call
  BY <1>1 DEF Call, Pulse, DDSPulse, CountingPulse, SetFreq, GetFreq, GetPMT, BeginTimingCheck,
              EndTimingCheck, CheckedPulse
<1>2. CASE Split \/ EnsureVacancy \/ ShortPulse \/ (\E t \in Times : Padding(t))
           \/ EnableTimingCheck \/ TimingOk \/ CheckedTurn \/ CheckedReturns
  BY <1>2 DEF Split, EnsureVacancy, ShortPulse, Padding, EnableTimingCheck, TimingOk,
              CheckedTurn, CheckedReturns
<1>3. CASE Fetch \/ Starve \/ ExecuteSet \/ ExecuteClear
  BY <1>3 DEF Fetch, Starve, ExecuteSet, ExecuteClear
<1>4. CASE UNCHANGED vars
  BY <1>4 DEF vars
<1> QED
  BY <1>1, <1>2, <1>3, <1>4 DEF Next, Continue, Controller

\* The word a request for a result leaves in the read FIFO, which was empty.
LEMMA WordPut ==
    ASSUME IInv, ins # Nothing, IsRead(ins), NEW kind, NEW value, PutResult(kind, value)
    PROVE  /\ pc \in Awaiting /\ rFIFO = <<>> /\ iFIFO = <<>>
           /\ rFIFO' # <<>> /\ rFIFO'[1].kind = kind /\ rFIFO'[1].value = value
<1> DEFINE w == [kind |-> kind, value |-> value, intervals |-> counted]
<1>1. pc \in Awaiting /\ rFIFO = <<>> /\ iFIFO = <<>>
  BY DEF IInv, ReadInv, Quiet
<1>2. Len(rFIFO) < ReadDepth
  BY <1>1, PulseAssumption, EmptySeq
<1>3. rFIFO' = Append(<<>>, w)
  BY <1>1, <1>2 DEF PutResult
<1>4. w.kind = kind /\ w.value = value
  OBVIOUS
<1> HIDE DEF w
<1>5. rFIFO' = <<w>> /\ <<w>> # <<>> /\ <<w>>[1] = w
  BY <1>3
<1> QED
  BY <1>1, <1>4, <1>5

LEMMA CounterKept ==
    ASSUME IInv, CounterInv, [Next]_vars
    PROVE  CounterInv' /\ [Reader!Next]_<<unread, PMTAnswer>>
<1>0. /\ Modulus \in Int /\ Modulus > 0 /\ counter \in 0 .. Modulus - 1 /\ last \in 0 .. Modulus - 1
      /\ unread \in Nat /\ Nothing \notin Nat
  BY PulseAssumption, NothingIsNone DEF IInv, TypeOK
<1>1. CASE UNCHANGED ReadVars
  BY <1>1 DEF ReadVars, CounterInv, Answered, PMTAnswer
<1>2. CASE PopPMT
  <2>1. /\ Tail(rFIFO) = <<>> /\ Head(rFIFO) = rFIFO[1] /\ rFIFO # <<>>
        /\ rFIFO[1].kind = "pmt" /\ rFIFO[1].value \in 0 .. Modulus - 1
    <3>1. pc = "popPMT" /\ rFIFO # <<>> /\ rFIFO \in Seq(Word)
      BY <1>2 DEF PopPMT, IInv, TypeOK, Words
    <3>2. rFIFO[1].kind = "pmt"
      BY <3>1 DEF IInv, ReadInv, Awaiting
    <3> QED
      BY <3>1, <3>2, ResultIs, TailIs DEF Awaiting
  <2>2. Answered /\ ~Answered' /\ last' = rFIFO[1].value /\ counter' = counter /\ unread' = unread
    BY <1>2, <2>1 DEF PopPMT, Answered, hwVars
  <2>3. CounterInv'
    BY <2>2 DEF CounterInv
  <2>4. PMTAnswer # Nothing /\ PMTAnswer' = Nothing
    <3>1. (rFIFO[1].value - last) % Modulus \in Nat
      BY <1>0, <2>1, DivisionIs
    <3> QED
      BY <1>0, <2>2, <3>1 DEF PMTAnswer
  <2>5. Reader!Return
    BY <2>2, <2>4 DEF Reader!Return, PMTAnswer, Answered
  <2> QED
    BY <2>3, <2>5 DEF Reader!Next
<1>3. CASE PopCheck \/ PopReinit
  <2>1. pc \in {"popCheck", "popReinit"} /\ rFIFO # <<>> /\ rFIFO' = Tail(rFIFO)
        /\ UNCHANGED <<last, counter, unread>>
    BY <1>3 DEF PopCheck, PopReinit, hwVars
  <2>2. Tail(rFIFO) = <<>> /\ ~Answered
    BY <2>1, ResultIs DEF IInv, ReadInv, Awaiting, Answered
  <2>3. ~Answered'
    BY <2>1, <2>2 DEF Answered
  <2> QED
    BY <2>1, <2>2, <2>3 DEF CounterInv, PMTAnswer
<1>4. CASE ExecuteOutput
  <2>1. PICK n \in IF ins.count THEN Photons ELSE {0} :
                counter' = (counter + n) % Modulus /\ unread' = unread + n
    BY <1>4 DEF ExecuteOutput
  <2>2. n \in Nat /\ UNCHANGED <<rFIFO, last>>
    BY <1>4, PulseAssumption DEF ExecuteOutput, cpuVars
  <2> DEFINE base == IF Answered THEN rFIFO[1].value ELSE last
  <2>3. base \in Int /\ base' = base
    <3>1. Answered => rFIFO[1].value \in 0 .. Modulus - 1
      <4>1. Answered => 1 \in DOMAIN rFIFO
        BY TailIs DEF Answered, IInv, TypeOK, Words
      <4> QED
        BY <4>1 DEF Answered, IInv, ResultInv
    <3> QED
      BY <1>0, <2>2, <3>1 DEF Answered
  <2> HIDE DEF base
  <2>4. counter = (base + unread) % Modulus
    BY DEF CounterInv, base
  <2>5. (((base + unread) % Modulus) + n) % Modulus = (base + unread + n) % Modulus
    <3>1. base + unread \in Int /\ n \in Int
      BY <1>0, <2>2, <2>3
    <3> QED
      BY <1>0, <3>1, RemainderAdds
  <2>6. base + unread + n = base + (unread + n)
    BY <1>0, <2>2, <2>3
  <2>7. counter' = (base' + unread') % Modulus
    BY <2>1, <2>3, <2>4, <2>5, <2>6
  <2>8. CounterInv'
    BY <2>7 DEF CounterInv, base
  <2>9. unread' \in Nat /\ unread' >= unread /\ PMTAnswer' = PMTAnswer
    BY <1>0, <2>1, <2>2 DEF PMTAnswer, Answered
  <2>10. Reader!Count
    BY <2>9 DEF Reader!Count, PMTAnswer, Answered
  <2> QED
    BY <2>8, <2>10 DEF Reader!Next
<1>5. CASE ExecuteGet
  <2>1. rFIFO = <<>> /\ rFIFO' # <<>> /\ rFIFO'[1].kind = "dds"
    BY <1>5, WordPut DEF ExecuteGet, IsRead
  <2>2. ~Answered /\ ~Answered' /\ UNCHANGED <<last, counter, unread>>
    BY <1>5, <2>1 DEF ExecuteGet, Answered, cpuVars
  <2> QED
    BY <2>2 DEF CounterInv, PMTAnswer
<1>6. CASE ExecutePMT
  <2>1. rFIFO = <<>> /\ rFIFO' # <<>> /\ rFIFO'[1].kind = "pmt" /\ rFIFO'[1].value = counter
    BY <1>6, WordPut DEF ExecutePMT, IsRead
  <2>2. ~Answered /\ Answered' /\ last' = last /\ counter' = counter /\ unread' = 0
    BY <1>6, <2>1 DEF ExecutePMT, Answered, cpuVars
  <2>3. CounterInv'
    <3>1. counter % Modulus = counter
      <4>1. counter = 0 * Modulus + counter
        BY <1>0
      <4> QED
        BY <1>0, <4>1, RemainderIs
    <3>2. counter + 0 = counter
      BY <1>0
    <3> QED
      BY <2>1, <2>2, <3>1, <3>2 DEF CounterInv
  <2>4. (counter - last) % Modulus = unread % Modulus
    <3>1. counter = (last + unread) % Modulus
      BY <2>2 DEF CounterInv
    <3>2. last \in Int /\ unread \in Int
      BY <1>0
    <3>3. (((last + unread) % Modulus) - last) % Modulus = unread % Modulus
      BY <1>0, <3>2, RemainderAdds
    <3> QED
      BY <3>1, <3>3
  <2>5. PMTAnswer = Nothing /\ PMTAnswer' = unread % Modulus
    BY <2>1, <2>2, <2>4 DEF PMTAnswer
  <2>6. Reader!Read
    BY <2>2, <2>5 DEF Reader!Read, PMTAnswer, Answered
  <2> QED
    BY <2>3, <2>6 DEF Reader!Next
<1> QED
  BY <1>1, <1>2, <1>3, <1>4, <1>5, <1>6, ReadSteps

-----------------------------------------------------------------------------
(* The copy of the frequency, and the gaps. *)

IsSet(i)   == i.op = "set"
NoSet(s)   == \A i \in DOMAIN s : ~IsSet(s[i])
NoClear(s) == \A i \in DOMAIN s : s[i].op # "clear"
Plain(s)   == \A i \in DOMAIN s : s[i].op \notin {"set", "clear"}

\* Instructions s leave a DDS at y that is at x before.
Leaves(s, x, y) ==
    \/ NoSet(s) /\ y = x
    \/ \E i \in DOMAIN s : /\ IsSet(s[i]) /\ s[i].freq = y
                           /\ \A j \in DOMAIN s : j > i => ~IsSet(s[j])

SoonInDDS == IF ins # Nothing /\ ins.op = "set" THEN ins.freq ELSE dds

\* What is under way to the DDS, in the FIFO and in the call, leaves it at the frequency
\* the driver remembers; a frequency that was read back was read after all that.
FreqInv ==
    /\ \E f \in Freqs : Leaves(iFIFO, SoonInDDS, f) /\ Leaves(todo, f, ddsFTW)
    /\ pc = "split" => Plain(todo)
    /\ rFIFO # <<>> /\ rFIFO[1].kind = "dds" => rFIFO[1].value = ddsFTW

\* Once a section has had a gap nothing that would clear the mark is under way.
GapInv ==
    /\ extra_flags => NoClear(todo)
    /\ gap => /\ underflow /\ NoClear(todo) /\ NoClear(iFIFO)
              /\ ins # Nothing => ins.op # "clear"

LEMMA LeavesSame ==
    ASSUME NEW s, NoSet(s), NEW x, NEW y
    PROVE  Leaves(s, x, y) <=> x = y
BY DEF Leaves, NoSet

LEMMA LeavesAppend ==
    ASSUME NEW s \in Seq(Instruction), NEW i \in Instruction, NEW x, NEW y, Leaves(s, x, y)
    PROVE  Leaves(Append(s, i), x, IF IsSet(i) THEN i.freq ELSE y)
<1> DEFINE t == Append(s, i)
           n == Len(s)
<1>1. /\ n \in Nat /\ DOMAIN s = 1 .. n /\ DOMAIN t = 1 .. n + 1
      /\ \A k \in 1 .. n : t[k] = s[k]
      /\ t[n + 1] = i
  BY AppendIs
<1> HIDE DEF t, n
<1>2. CASE IsSet(i)
  <2>1. n + 1 \in DOMAIN t /\ IsSet(t[n + 1]) /\ t[n + 1].freq = i.freq
    BY <1>1, <1>2
  <2>2. \A j \in DOMAIN t : ~(j > n + 1)
    BY <1>1
  <2> QED
    BY <1>2, <2>1, <2>2 DEF Leaves, t
<1>3. CASE ~IsSet(i) /\ NoSet(s) /\ y = x
  <2>1. NoSet(t)
    BY <1>1, <1>3 DEF NoSet
  <2> QED
    BY <1>3, <2>1 DEF Leaves, t
<1>4. ASSUME ~IsSet(i), NEW k \in DOMAIN s, IsSet(s[k]), s[k].freq = y,
             \A j \in DOMAIN s : j > k => ~IsSet(s[j])
      PROVE  Leaves(t, x, y)
  <2>1. k \in DOMAIN t /\ IsSet(t[k]) /\ t[k].freq = y
    BY <1>1, <1>4
  <2>2. \A j \in DOMAIN t : j > k => ~IsSet(t[j])
    BY <1>1, <1>4
  <2> QED
    BY <2>1, <2>2 DEF Leaves
<1> QED
  BY <1>2, <1>3, <1>4 DEF Leaves, t

LEMMA LeavesTail ==
    ASSUME NEW s \in Seq(Instruction), s # <<>>, NEW x, NEW y, Leaves(s, x, y)
    PROVE  Leaves(Tail(s), IF IsSet(Head(s)) THEN Head(s).freq ELSE x, y)
<1> DEFINE t == Tail(s)
           n == Len(s)
           h == Head(s)
           z == IF IsSet(h) THEN h.freq ELSE x
<1>1. /\ n \in Nat /\ n > 0 /\ DOMAIN s = 1 .. n /\ DOMAIN t = 1 .. n - 1 /\ h = s[1]
      /\ \A k \in 1 .. n - 1 : t[k] = s[k + 1]
  BY TailIs
<1> HIDE DEF t, n, h
<1>2. CASE NoSet(s) /\ y = x
  <2>1. NoSet(t) /\ ~IsSet(h)
    BY <1>1, <1>2 DEF NoSet
  <2> QED
    BY <1>2, <2>1 DEF Leaves, t, h
<1>3. ASSUME NEW k \in DOMAIN s, IsSet(s[k]), s[k].freq = y,
             \A j \in DOMAIN s : j > k => ~IsSet(s[j])
      PROVE  Leaves(t, z, y)
  <2>1. CASE k = 1
    <3>1. NoSet(t)
      <4> SUFFICES ASSUME NEW j \in DOMAIN t PROVE ~IsSet(t[j])
        BY DEF NoSet
      <4>1. j + 1 \in DOMAIN s /\ j + 1 > k /\ t[j] = s[j + 1]
        BY <1>1, <2>1
      <4> QED
        BY <1>3, <4>1
    <3> QED
      BY <1>1, <1>3, <2>1, <3>1 DEF Leaves
  <2>2. CASE k # 1
    <3>1. k - 1 \in DOMAIN t /\ t[k - 1] = s[k]
      BY <1>1, <2>2
    <3>2. ASSUME NEW j \in DOMAIN t, j > k - 1 PROVE ~IsSet(t[j])
      <4>1. j + 1 \in DOMAIN s /\ j + 1 > k /\ t[j] = s[j + 1]
        BY <1>1, <3>2
      <4> QED
        BY <1>3, <4>1
    <3> QED
      BY <1>3, <3>1, <3>2 DEF Leaves
  <2> QED
    BY <2>1, <2>2
<1> QED
  BY <1>2, <1>3 DEF Leaves, t, h

LEMMA OneIs ==
    ASSUME NEW i
    PROVE  /\ DOMAIN <<i>> = {1} /\ <<i>>[1] = i
           /\ i.op \notin {"set", "clear"} => Plain(<<i>>)
           /\ i.op # "clear" => NoClear(<<i>>)
           /\ \A x : IsSet(i) => Leaves(<<i>>, x, i.freq)
           /\ i.op # "set" => NoSet(<<i>>)
<1>1. DOMAIN <<i>> = {1} /\ <<i>>[1] = i
  OBVIOUS
<1> QED
  BY <1>1 DEF Plain, NoClear, Leaves, NoSet, IsSet

\* Neither set nor clear.
LEMMA PlainIs ==
    ASSUME NEW s, Plain(s)
    PROVE  NoSet(s) /\ NoClear(s)
BY DEF Plain, NoSet, NoClear, IsSet

\* A call that writes no such instruction.
LEMMA PlainKeeps ==
    ASSUME IInv, FreqInv, GapInv, pc \notin {"split", "write"}, Plain(todo'),
           UNCHANGED <<iFIFO, ins, dds, ddsFTW, underflow, gap>>, rFIFO' = rFIFO \/ rFIFO' = <<>>
    PROVE  FreqInv' /\ GapInv'
<1>1. NoSet(todo') /\ NoClear(todo')
  BY PlainIs
<1>2. todo = <<>> /\ ddsFTW \in Freqs
  BY DEF IInv, TodoInv, TypeOK
<1>3. NoSet(todo)
  BY <1>2 DEF NoSet
<1>4. Leaves(iFIFO, SoonInDDS, ddsFTW)
  BY <1>3, LeavesSame DEF FreqInv
<1>5. Leaves(todo', ddsFTW, ddsFTW)
  BY <1>1, LeavesSame
<1>6. \E f \in Freqs : Leaves(iFIFO', SoonInDDS', f) /\ Leaves(todo', f, ddsFTW')
  BY <1>2, <1>4, <1>5 DEF SoonInDDS
<1>7. rFIFO' # <<>> /\ rFIFO'[1].kind = "dds" => rFIFO'[1].value = ddsFTW'
  BY DEF FreqInv
<1>8. FreqInv'
  BY <1>6, <1>7 DEF FreqInv
<1>9. GapInv'
  BY <1>1 DEF GapInv
<1> QED
  BY <1>8, <1>9

LEMMA CallStream == ASSUME IInv, FreqInv, GapInv, Call PROVE FreqInv' /\ GapInv'
<1> USE DEF hwVars, loopVars
<1>0. pc = "ready" /\ todo = <<>> /\ rFIFO = <<>>
  <2>1. pc = "ready"
    BY DEF Call, Pulse, DDSPulse, CountingPulse, SetFreq, GetFreq, GetPMT, BeginTimingCheck,
           EndTimingCheck, CheckedPulse
  <2> QED
    BY <2>1 DEF IInv, TodoInv, ReadInv, Quiet, Awaiting
<1>1. ASSUME NEW o, o.op \notin {"set", "clear"}, todo' = <<o>>,
             UNCHANGED <<iFIFO, ins, dds, ddsFTW, underflow, gap, rFIFO>>
      PROVE  FreqInv' /\ GapInv'
  <2>1. Plain(todo')
    BY <1>1, OneIs
  <2> QED
    BY <1>0, <1>1, <2>1, PlainKeeps
<1>2. ASSUME NEW t \in Times, Pulse(t) PROVE FreqInv' /\ GapInv'
  <2>1. Output(t).op = "out"
    BY PulseAssumption, OutputIs
  <2> QED
    BY <1>1, <1>2, <2>1 DEF Pulse
<1>3. ASSUME NEW t \in Times \cup {5}, DDSPulse(t) \/ CountingPulse(t) PROVE FreqInv' /\ GapInv'
  <2>1. Whole(t, FALSE).op = "out" /\ Whole(t, TRUE).op = "out"
    <3>1. t \in Nat
      BY PulseAssumption
    <3> QED
      BY <3>1, WholeIs
  <2> QED
    BY <1>1, <1>3, <2>1 DEF DDSPulse, CountingPulse, Write
<1>4. ASSUME NEW f \in Freqs, SetFreq(f) PROVE FreqInv' /\ GapInv'
  <2> DEFINE o == Control("set", f)
  <2>1. IsSet(o) /\ o.freq = f /\ o.op # "clear"
    BY ControlIs DEF IsSet
  <2>2. /\ todo' = <<o>> /\ ddsFTW' = f /\ pc' = "write"
        /\ UNCHANGED <<iFIFO, ins, dds, underflow, gap, rFIFO>>
    BY <1>4 DEF SetFreq, Write
  <2> HIDE DEF o
  <2>3. NoClear(todo') /\ \A x : Leaves(todo', x, f)
    BY <2>1, <2>2, OneIs
  <2>4. PICK g \in Freqs : Leaves(iFIFO, SoonInDDS, g)
    BY DEF FreqInv
  <2>5. FreqInv'
    BY <1>0, <2>2, <2>3, <2>4 DEF FreqInv, SoonInDDS
  <2>6. GapInv'
    BY <2>2, <2>3 DEF GapInv
  <2> QED
    BY <2>5, <2>6
<1>5. ASSUME NEW place, GetFreq(place) PROVE FreqInv' /\ GapInv'
  <2>1. Control("get", 0).op = "get"
    BY ControlIs, PulseAssumption
  <2> QED
    BY <1>1, <1>5, <2>1 DEF GetFreq, Write
<1>6. ASSUME GetPMT PROVE FreqInv' /\ GapInv'
  <2>1. Control("pmt", 0).op = "pmt"
    BY ControlIs, PulseAssumption
  <2> QED
    BY <1>1, <1>6, <2>1 DEF GetPMT, Write
<1>7. ASSUME BeginTimingCheck PROVE FreqInv' /\ GapInv'
  <2> DEFINE o == Control("clear", 0)
  <2>1. o.op # "set"
    BY ControlIs, PulseAssumption
  <2>2. /\ todo' = <<o>> /\ pc' = "write" /\ gap' = FALSE /\ extra_flags' = FALSE
        /\ UNCHANGED <<iFIFO, ins, dds, ddsFTW, rFIFO>>
    BY <1>7 DEF BeginTimingCheck, Write, IInv, TypeOK
  <2> HIDE DEF o
  <2>3. NoSet(todo')
    BY <2>1, <2>2, OneIs
  <2>4. NoSet(todo)
    BY <1>0 DEF NoSet
  <2>5. PICK g \in Freqs : Leaves(iFIFO, SoonInDDS, g) /\ g = ddsFTW
    BY <2>4, LeavesSame DEF FreqInv
  <2>6. Leaves(todo', g, ddsFTW)
    BY <2>3, <2>5, LeavesSame
  <2>7. FreqInv'
    BY <1>0, <2>2, <2>5, <2>6 DEF FreqInv, SoonInDDS
  <2>8. GapInv'
    BY <2>2 DEF GapInv
  <2> QED
    BY <2>7, <2>8
<1>8. ASSUME EndTimingCheck \/ \E t \in CheckedTimes : CheckedPulse(t) PROVE FreqInv' /\ GapInv'
  <2>1. /\ todo' = <<>>
        /\ UNCHANGED <<iFIFO, ins, dds, ddsFTW, underflow, gap, rFIFO>>
    BY <1>0, <1>8 DEF EndTimingCheck, CheckedPulse
  <2>2. Plain(todo')
    BY <2>1 DEF Plain
  <2> QED
    BY <1>0, <2>1, <2>2, PlainKeeps
<1> QED
  BY <1>2, <1>3, <1>4, <1>5, <1>6, <1>7, <1>8 DEF Call

LEMMA SplitStream == ASSUME IInv, FreqInv, GapInv, Split PROVE FreqInv' /\ GapInv'
<1> DEFINE rest == todo[Len(todo)]
           a == [rest EXCEPT !.t = Divide(rest.t)[1]]
           b == [rest EXCEPT !.t = Divide(rest.t)[2]]
<1>1. /\ pc = "split" /\ todo \in Seq(Instruction) /\ todo # <<>> /\ Plain(todo) /\ rFIFO = <<>>
      /\ UNCHANGED <<iFIFO, ins, dds, ddsFTW, underflow, gap, rFIFO>>
  BY DEF Split, IInv, TypeOK, Instructions, TodoInv, ReadInv, Quiet, Awaiting, FreqInv, hwVars
<1>2. Plain(todo')
  <2>1. Len(todo) \in Nat /\ Len(todo) > 0 /\ DOMAIN todo = 1 .. Len(todo)
    BY <1>1, TailIs
  <2>2. CASE rest.t > TMax
    <3>1. rest \in Instruction /\ rest.op \notin {"set", "clear"}
      BY <1>1, <2>1 DEF Plain
    <3>2. rest.t \in Nat
      BY <3>1 DEF Instruction
    <3>3. Divide(rest.t)[1] \in Nat /\ Divide(rest.t)[2] \in Nat
      BY <2>2, <3>2, PulseAssumption DEF Divide
    <3>4. /\ a \in Instruction /\ a.op = rest.op
          /\ b \in Instruction /\ b.op = rest.op
      BY <3>1, <3>3 DEF Instruction
    <3>5. todo' = ReplaceLast(todo, a, b)
      BY <2>2 DEF Split
    <3> HIDE DEF a, b, rest
    <3> DEFINE s == ReplaceLast(todo, a, b)
    <3>6. /\ s \in Seq(Instruction) /\ Len(s) = Len(todo) + 1
          /\ \A i \in 1 .. Len(todo) - 1 : s[i] = todo[i]
          /\ s[Len(todo)] = a /\ s[Len(todo) + 1] = b
      BY <1>1, <3>4, SplitIs
    <3> HIDE DEF s
    <3>7. DOMAIN s = 1 .. Len(todo) + 1
      BY <3>6
    <3>8. ASSUME NEW i \in DOMAIN s PROVE s[i].op \notin {"set", "clear"}
      <4>1. CASE i \in 1 .. Len(todo) - 1
        BY <1>1, <2>1, <3>6, <4>1 DEF Plain
      <4>2. CASE i = Len(todo)
        BY <3>1, <3>4, <3>6, <4>2
      <4>3. CASE i = Len(todo) + 1
        BY <3>1, <3>4, <3>6, <4>3
      <4> QED
        BY <2>1, <3>7, <4>1, <4>2, <4>3
    <3> QED
      BY <3>5, <3>8 DEF Plain, s
  <2>3. CASE ~(rest.t > TMax)
    BY <1>1, <2>3 DEF Split
  <2> QED
    BY <2>2, <2>3
<1>3. NoSet(todo) /\ NoSet(todo') /\ NoClear(todo')
  BY <1>1, <1>2, PlainIs
<1>4. \E f \in Freqs : Leaves(iFIFO', SoonInDDS', f) /\ Leaves(todo', f, ddsFTW')
  BY <1>1, <1>3, LeavesSame DEF FreqInv, SoonInDDS
<1>5. FreqInv'
  BY <1>1, <1>2, <1>4 DEF FreqInv
<1> QED
  BY <1>1, <1>3, <1>5 DEF GapInv

LEMMA ShortPulseStream == ASSUME IInv, FreqInv, GapInv, ShortPulse PROVE FreqInv' /\ GapInv'
<1> DEFINE h == Head(todo)
           x == [h EXCEPT !.check = extra_flags]
<1>1. /\ pc = "write" /\ todo # <<>> /\ todo \in Seq(Instruction) /\ iFIFO \in Seq(Instruction)
      /\ extra_flags \in BOOLEAN /\ rFIFO = <<>> /\ pc' # "split"
  BY DEF ShortPulse, IInv, TypeOK, Instructions, TodoInv, ReadInv, Quiet, Awaiting
<1>2. /\ h \in Instruction /\ h = todo[1] /\ 1 \in DOMAIN todo
      /\ \A i \in DOMAIN Tail(todo) : i + 1 \in DOMAIN todo /\ Tail(todo)[i] = todo[i + 1]
  BY <1>1, TailIs
<1>3. x \in Instruction /\ x.op = h.op /\ x.freq = h.freq
  BY <1>1, <1>2 DEF Instruction
<1>4. /\ iFIFO' = Append(iFIFO, x) /\ todo' = Tail(todo)
      /\ UNCHANGED <<ins, dds, ddsFTW, underflow, gap, rFIFO, extra_flags>>
  BY DEF ShortPulse, hwVars
<1> HIDE DEF x, h
<1>5. PICK f \in Freqs : Leaves(iFIFO, SoonInDDS, f) /\ Leaves(todo, f, ddsFTW)
  BY DEF FreqInv
<1> DEFINE g == IF IsSet(h) THEN h.freq ELSE f
<1>6. g \in Freqs
  BY <1>2 DEF Instruction
<1>7. IsSet(x) <=> IsSet(h)
  BY <1>3 DEF IsSet
<1>8. Leaves(iFIFO', SoonInDDS', g)
  <2>1. Leaves(Append(iFIFO, x), SoonInDDS, IF IsSet(x) THEN x.freq ELSE f)
    BY <1>1, <1>3, <1>5, LeavesAppend
  <2>2. SoonInDDS' = SoonInDDS
    BY <1>4 DEF SoonInDDS
  <2> QED
    BY <1>3, <1>4, <1>7, <2>1, <2>2
<1>9. Leaves(todo', g, ddsFTW')
  BY <1>1, <1>4, <1>5, LeavesTail DEF h
<1>10. FreqInv'
  BY <1>1, <1>4, <1>6, <1>8, <1>9 DEF FreqInv
<1>11. NoClear(todo) => NoClear(todo')
  BY <1>2, <1>4 DEF NoClear
<1>12. NoClear(todo) /\ NoClear(iFIFO) => NoClear(iFIFO')
  <2>1. /\ \A i \in 1 .. Len(iFIFO) : iFIFO'[i] = iFIFO[i] /\ i \in DOMAIN iFIFO
        /\ iFIFO'[Len(iFIFO) + 1] = x
        /\ DOMAIN iFIFO' = 1 .. Len(iFIFO) + 1 /\ Len(iFIFO) \in Nat
    BY <1>1, <1>3, <1>4, AppendIs
  <2>2. NoClear(todo) => x.op # "clear"
    BY <1>2, <1>3 DEF NoClear
  <2> QED
    BY <2>1, <2>2 DEF NoClear
<1>13. GapInv'
  BY <1>4, <1>11, <1>12 DEF GapInv
<1> QED
  BY <1>10, <1>13

LEMMA ContinueStream == ASSUME IInv, FreqInv, GapInv, Continue PROVE FreqInv' /\ GapInv'
<1> USE DEF hwVars, loopVars
<1>1. ASSUME todo' = todo, UNCHANGED <<iFIFO, ins, dds, ddsFTW, underflow, gap>>,
             pc \notin {"split", "write"}, rFIFO' = rFIFO \/ rFIFO' = <<>>
      PROVE  FreqInv' /\ GapInv'
  <2>1. Plain(todo')
    BY <1>1 DEF IInv, TodoInv, Plain
  <2> QED
    BY <1>1, <2>1, PlainKeeps
<1>2. ASSUME EnsureVacancy PROVE FreqInv' /\ GapInv'
  <2>1. UNCHANGED <<pc, todo, extra_flags, iFIFO, ins, dds, ddsFTW, underflow, gap, rFIFO>>
    BY <1>2 DEF EnsureVacancy
  <2> QED
    BY <2>1 DEF FreqInv, GapInv, SoonInDDS
<1>3. ASSUME NEW t \in Times, Padding(t) PROVE FreqInv' /\ GapInv'
  <2>1. CASE todo' = todo
    BY <1>1, <1>3, <2>1 DEF Padding
  <2>2. CASE todo' = <<Output(t)>>
    <3> DEFINE o == Output(t)
    <3>1. o.op = "out"
      BY PulseAssumption, OutputIs
    <3> HIDE DEF o
    <3>2. Plain(todo')
      BY <2>2, <3>1, OneIs DEF o
    <3> QED
      BY <1>3, <3>2, PlainKeeps DEF Padding
  <2> QED
    BY <1>3, <2>1, <2>2 DEF Padding
<1>4. ASSUME EnableTimingCheck \/ TimingOk \/ CheckedReturns PROVE FreqInv' /\ GapInv'
  BY <1>1, <1>4 DEF EnableTimingCheck, TimingOk, CheckedReturns
<1>5. ASSUME PopPMT \/ PopCheck PROVE FreqInv' /\ GapInv'
  <2>1. /\ pc \in {"popPMT", "popCheck"} /\ rFIFO # <<>> /\ rFIFO' = Tail(rFIFO)
        /\ UNCHANGED <<todo, iFIFO, ins, dds, ddsFTW, underflow, gap>>
    BY <1>5 DEF PopPMT, PopCheck
  <2>2. rFIFO' = <<>>
    BY <2>1, ResultIs DEF Awaiting
  <2> QED
    BY <1>1, <2>1, <2>2
<1>6. ASSUME PopReinit PROVE FreqInv' /\ GapInv'
  <2> DEFINE ftw == Head(rFIFO).value
             a == Control("set", 0)
             b == Control("set", ftw)
             c == Control("pmt", 0)
  <2>1. /\ pc = "popReinit" /\ rFIFO # <<>> /\ rFIFO' = Tail(rFIFO) /\ pc' = "write"
        /\ todo' = <<a, b, c>> /\ ddsFTW' = ftw
        /\ UNCHANGED <<iFIFO, ins, dds, underflow, gap>>
    BY <1>6 DEF PopReinit, Write
  <2>2. rFIFO' = <<>> /\ ftw \in Freqs /\ iFIFO = <<>>
    BY <2>1, ResultIs DEF Awaiting
  <2>3. a.op = "set" /\ b.op = "set" /\ b.freq = ftw /\ c.op = "pmt"
    BY <2>2, PulseAssumption, ControlIs
  <2> HIDE DEF ftw, a, b, c
  <2>4. /\ DOMAIN todo' = 1 .. 3 /\ todo'[1] = a /\ todo'[2] = b /\ todo'[3] = c
    BY <2>1
  <2>5. NoClear(todo')
    BY <2>3, <2>4 DEF NoClear
  <2>6. \A x : Leaves(todo', x, ftw)
    BY <2>3, <2>4 DEF Leaves, IsSet
  <2>7. PICK g \in Freqs : Leaves(iFIFO, SoonInDDS, g)
    BY DEF FreqInv
  <2>8. FreqInv'
    BY <2>1, <2>2, <2>6, <2>7 DEF FreqInv, SoonInDDS
  <2>9. GapInv'
    BY <2>1, <2>5 DEF GapInv
  <2> QED
    BY <2>8, <2>9
<1>7. ASSUME CheckedTurn PROVE FreqInv' /\ GapInv'
  <2> DEFINE o == Interval(NextTime, nPulses + 1, left - NextTime = 0)
             r == Control("pmt", 0)
  <2>1. \/ todo' = <<o, r>> \/ todo' = <<o>> \/ todo' = <<r>>
    BY <1>7, TurnIs DEF IInv
  <2>2. o.op = "out" /\ r.op = "pmt"
    <3>1. nPulses + 1 \in Nat /\ nPulses + 1 > 0 /\ left \in Nat
      BY DEF IInv, TypeOK
    <3> QED
      BY <3>1, IntervalIs, PulseAssumption, ControlIs
  <2> HIDE DEF o, r
  <2>3. CASE todo' = <<o, r>>
    <3>1. DOMAIN todo' = 1 .. 2 /\ todo'[1] = o /\ todo'[2] = r
      BY <2>3
    <3> QED
      BY <1>7, <2>2, <3>1, PlainKeeps DEF CheckedTurn, Plain
  <2>4. CASE todo' = <<o>> \/ todo' = <<r>>
    <3>1. Plain(todo')
      BY <2>2, <2>4, OneIs
    <3> QED
      BY <1>7, <3>1, PlainKeeps DEF CheckedTurn
  <2> QED
    BY <2>1, <2>3, <2>4
<1> QED
  BY <1>2, <1>3, <1>4, <1>5, <1>6, <1>7, SplitStream, ShortPulseStream DEF Continue

LEMMA ControllerStream == ASSUME IInv, FreqInv, GapInv, Controller PROVE FreqInv' /\ GapInv'
<1>0. /\ iFIFO \in Seq(Instruction) /\ UNCHANGED <<pc, todo, extra_flags, ddsFTW>>
      /\ ins \in Instruction \cup {Nothing}
  BY DEF Controller, Fetch, Starve, ExecuteOutput, ExecuteSet, ExecuteClear, ExecuteGet, ExecutePMT,
         cpuVars, IInv, TypeOK, Instructions
<1>1. ASSUME Fetch PROVE FreqInv' /\ GapInv'
  <2> DEFINE h == Head(iFIFO)
  <2>1. /\ iFIFO # <<>> /\ iFIFO' = Tail(iFIFO) /\ ins = Nothing /\ ins' = h
        /\ UNCHANGED <<dds, underflow, gap, rFIFO>>
    BY <1>1 DEF Fetch
  <2>2. h \in Instruction /\ h # Nothing /\ h = iFIFO[1] /\ 1 \in DOMAIN iFIFO
        /\ \A i \in DOMAIN iFIFO' : i + 1 \in DOMAIN iFIFO /\ iFIFO'[i] = iFIFO[i + 1]
    BY <1>0, <2>1, TailIs, NothingIsNone
  <2>3. PICK f \in Freqs : Leaves(iFIFO, SoonInDDS, f) /\ Leaves(todo, f, ddsFTW)
    BY DEF FreqInv
  <2>4. SoonInDDS = dds
    BY <2>1 DEF SoonInDDS
  <2> HIDE DEF h
  <2>5. SoonInDDS' = IF IsSet(h) THEN h.freq ELSE dds
    BY <2>1, <2>2 DEF SoonInDDS, IsSet
  <2>6. Leaves(Tail(iFIFO), IF IsSet(h) THEN h.freq ELSE dds, f)
    BY <1>0, <2>1, <2>3, <2>4, LeavesTail DEF h
  <2>7. Leaves(iFIFO', SoonInDDS', f)
    BY <2>1, <2>5, <2>6
  <2>8. FreqInv'
    BY <1>0, <2>1, <2>3, <2>7 DEF FreqInv
  <2>9. NoClear(iFIFO) => NoClear(iFIFO') /\ h.op # "clear"
    BY <2>2 DEF NoClear
  <2>10. GapInv'
    BY <1>0, <2>1, <2>9 DEF GapInv
  <2> QED
    BY <2>8, <2>10
<1>2. ASSUME Starve PROVE FreqInv' /\ GapInv'
  <2>1. /\ ins = Nothing /\ iFIFO = <<>> /\ underflow' = TRUE /\ gap' = (gap \/ extra_flags)
        /\ UNCHANGED <<iFIFO, ins, dds, rFIFO>>
    BY <1>2 DEF Starve
  <2>2. NoClear(iFIFO)
    BY <2>1 DEF NoClear
  <2>3. FreqInv'
    BY <1>0, <2>1 DEF FreqInv, SoonInDDS
  <2>4. GapInv'
    BY <1>0, <2>1, <2>2 DEF GapInv
  <2> QED
    BY <2>3, <2>4
\* An instruction has been executed.
<1>3. ASSUME ins # Nothing, ins' = Nothing, UNCHANGED <<iFIFO, gap>>, dds' = SoonInDDS,
             underflow' = IF ins.op = "clear" THEN FALSE ELSE underflow,
             rFIFO' # <<>> /\ rFIFO'[1].kind = "dds" => rFIFO'[1].value = ddsFTW
      PROVE  FreqInv' /\ GapInv'
  <2>1. SoonInDDS' = SoonInDDS
    BY <1>3 DEF SoonInDDS
  <2>2. FreqInv'
    BY <1>0, <1>3, <2>1 DEF FreqInv
  <2>3. GapInv'
    BY <1>0, <1>3 DEF GapInv
  <2> QED
    BY <2>2, <2>3
<1>4. ASSUME ExecuteOutput \/ ExecuteSet \/ ExecuteClear PROVE FreqInv' /\ GapInv'
  <2>1. /\ ins # Nothing /\ ins' = Nothing /\ UNCHANGED <<iFIFO, gap, rFIFO>>
        /\ underflow' = IF ins.op = "clear" THEN FALSE ELSE underflow
        /\ dds' = SoonInDDS
    BY <1>4 DEF ExecuteOutput, ExecuteSet, ExecuteClear, Done, SoonInDDS
  <2>2. rFIFO' # <<>> /\ rFIFO'[1].kind = "dds" => rFIFO'[1].value = ddsFTW
    BY <2>1 DEF FreqInv
  <2> QED
    BY <1>3, <2>1, <2>2
<1>5. ASSUME ExecuteGet PROVE FreqInv' /\ GapInv'
  <2>1. /\ ins # Nothing /\ ins' = Nothing /\ UNCHANGED <<iFIFO, gap, underflow, dds>>
        /\ ins.op = "get" /\ PutResult("dds", dds)
    BY <1>5 DEF ExecuteGet, Done
  <2>2. pc \in Awaiting /\ iFIFO = <<>> /\ rFIFO' # <<>> /\ rFIFO'[1].value = dds
    BY <2>1, WordPut DEF IsRead
  <2>3. NoSet(iFIFO) /\ NoSet(todo)
    BY <2>2 DEF IInv, TodoInv, Awaiting, NoSet
  <2>4. SoonInDDS = dds
    BY <2>1 DEF SoonInDDS
  <2>5. dds = ddsFTW
    BY <2>3, <2>4, LeavesSame DEF FreqInv
  <2> QED
    BY <1>3, <2>1, <2>2, <2>4, <2>5
<1>6. ASSUME ExecutePMT PROVE FreqInv' /\ GapInv'
  <2>1. /\ ins # Nothing /\ ins' = Nothing /\ UNCHANGED <<iFIFO, gap, underflow, dds>>
        /\ ins.op = "pmt" /\ PutResult("pmt", counter)
    BY <1>6 DEF ExecutePMT, Done
  <2>2. rFIFO'[1].kind = "pmt" /\ SoonInDDS = dds
    BY <2>1, WordPut DEF IsRead, SoonInDDS
  <2> QED
    BY <1>3, <2>1, <2>2
<1> QED
  BY <1>1, <1>2, <1>4, <1>5, <1>6 DEF Controller

-----------------------------------------------------------------------------
(* Theorems. *)

\* The invariant is inductive.
LEMMA InvStep == ASSUME IInv, [Next]_vars PROVE IInv'
<1>1. CASE Call
  BY <1>1, CallType, CallKeeps DEF Order, IInv
<1>2. CASE Continue
  BY <1>2, ContinueType, ContinueKeeps DEF Order, IInv
<1>3. CASE Controller
  BY <1>3, ControllerType, ControllerKeeps DEF Order, IInv
<1>4. CASE UNCHANGED vars
  BY <1>4
     DEF vars, cpuVars, hwVars, loopVars, IInv, TypeOK, VacancyIsSafe, PartsAreTimeable, TodoInv,
         ReadInv, Quiet, ResultInv
<1> QED
  BY <1>1, <1>2, <1>3, <1>4 DEF Next

LEMMA Invariance == Spec => []IInv
<1>1. IInv /\ [Next]_vars => IInv'
  BY InvStep
<1> QED
  BY <1>1, InitInv, PTL DEF Spec

\* Type correctness: among others, the counter stays a word of the machine.
THEOREM TypeCorrect == Spec => []TypeOK
<1>1. IInv => TypeOK
  BY DEF IInv
<1> QED
  BY <1>1, Invariance, PTL

\* The driver's count of free places never makes it write into a full FIFO.
THEOREM NoInstructionIsLost == Spec => []VacancyIsSafe
<1>1. IInv => VacancyIsSafe
  BY DEF IInv
<1> QED
  BY <1>1, Invariance, PTL

\* A pulse of any length that goes through PULSE_CONTROLLER_pulse is divided into parts the
\* state machine can time; what cannot be timed is an output that its caller handed to
\* short_pulse as a whole, too short only as the last interval of a checked pulse.
THEOREM PulsesAreTimed == Spec => []PartsAreTimeable
<1>1. IInv => PartsAreTimeable
  BY DEF IInv
<1> QED
  BY <1>1, Invariance, PTL

\* Results and requests are paired: one word in the read FIFO at most, for the call that waits.
THEOREM ResultsArePaired == Spec => []ResultIsAwaited
<1>1. IInv => ResultIsAwaited
  <2> SUFFICES ASSUME IInv PROVE ResultIsAwaited
    OBVIOUS
  <2>1. ~overflow
    BY DEF IInv, ReadInv
  <2>2. ASSUME rFIFO # <<>>
        PROVE  /\ Len(rFIFO) = 1 /\ pc \in Awaiting
               /\ rFIFO[1].kind = IF pc = "popPMT" THEN "pmt" ELSE "dds"
    BY <2>2 DEF IInv, ReadInv, Quiet
  <2>3. ASSUME rFIFO # <<>>
        PROVE  pc \in IF rFIFO[1].kind = "pmt" THEN {"popPMT"} ELSE {"popCheck", "popReinit"}
    BY <2>2, <2>3 DEF Awaiting
  <2> QED
    BY <2>1, <2>2, <2>3 DEF ResultIsAwaited
<1> QED
  BY <1>1, Invariance, PTL

\* What holds besides IInv of the two streams, from the driver to the controller and back.
StreamInv == IInv /\ CounterInv /\ FreqInv /\ GapInv

LEMMA StreamStep == StreamInv /\ [Next]_vars => StreamInv'
<1> SUFFICES ASSUME StreamInv, [Next]_vars PROVE CounterInv' /\ FreqInv' /\ GapInv' /\ IInv'
  BY DEF StreamInv
<1>1. CASE UNCHANGED vars
  BY <1>1, InvStep, CounterKept
     DEF StreamInv, vars, cpuVars, hwVars, FreqInv, GapInv, SoonInDDS
<1> QED
  BY <1>1, InvStep, CounterKept, CallStream, ContinueStream, ControllerStream DEF StreamInv, Next

LEMMA StreamInvariance == Spec => []StreamInv
<1>1. Init => StreamInv
  <2> SUFFICES ASSUME Init PROVE CounterInv /\ FreqInv /\ GapInv
    BY InitInv DEF StreamInv
  <2>1. /\ Modulus \in Int /\ Modulus > 0 /\ counter \in 0 .. Modulus - 1 /\ last = counter
        /\ unread = 0 /\ rFIFO = <<>>
    BY PulseAssumption DEF Init
  <2>2. counter % Modulus = counter /\ counter + 0 = counter
    <3>1. counter = 0 * Modulus + counter
      BY <2>1
    <3> QED
      BY <2>1, <3>1, RemainderIs
  <2>3. CounterInv
    BY <2>1, <2>2 DEF CounterInv, Answered
  <2>4. NoSet(iFIFO) /\ NoSet(todo) /\ NoClear(todo) /\ SoonInDDS = 0 /\ ddsFTW = 0 /\ 0 \in Freqs
    BY PulseAssumption DEF Init, NoSet, NoClear, SoonInDDS
  <2>5. FreqInv
    BY <2>1, <2>4, LeavesSame DEF Init, FreqInv
  <2> QED
    BY <2>3, <2>4, <2>5 DEF Init, GapInv
<1> QED
  BY <1>1, StreamStep, PTL DEF Spec

\* PULSE_CONTROLLER_check_dds finds the frequency that the driver remembers, whatever was
\* set, reset or read back before and is still on its way.
THEOREM FrequenciesAgree == Spec => []ReadBackAgrees
<1>1. StreamInv => ReadBackAgrees
  <2> SUFFICES ASSUME StreamInv, pc = "popCheck", rFIFO # <<>> PROVE rFIFO[1].value = ddsFTW
    BY DEF ReadBackAgrees
  <2>1. rFIFO[1].kind = "dds"
    BY DEF StreamInv, IInv, ReadInv, Awaiting
  <2> QED
    BY <2>1 DEF StreamInv, FreqInv
<1> QED
  BY <1>1, StreamInvariance, PTL

\* A section with a gap is counted when it ends: no instruction that clears the mark can
\* be behind the pulses of the section (begin_timing_check, end_timing_check).
THEOREM GapsAreCounted == Spec => GapIsReported
<1>1. StreamInv /\ [Next]_vars => [pc = "status" /\ gap => tBad' # tBad \/ UNCHANGED pc]_vars
  <2> SUFFICES ASSUME StreamInv, [Next]_vars, pc = "status", gap, ~UNCHANGED vars
               PROVE  tBad' # tBad \/ UNCHANGED pc
    OBVIOUS
  <2>1. CASE Call
    BY <2>1 DEF Call, Pulse, DDSPulse, CountingPulse, SetFreq, GetFreq, GetPMT, BeginTimingCheck,
                EndTimingCheck, CheckedPulse
  <2>2. CASE Continue
    <3>1. TimingOk
      BY <2>2 DEF Continue, Split, EnsureVacancy, ShortPulse, Padding, EnableTimingCheck,
                  PopPMT, PopCheck, PopReinit, CheckedTurn, CheckedReturns
    <3>2. underflow /\ tBad \in Nat
      BY DEF StreamInv, GapInv, IInv, TypeOK
    <3> QED
      BY <3>1, <3>2 DEF TimingOk
  <2>3. CASE Controller
    BY <2>3 DEF Controller, Fetch, Starve, ExecuteOutput, ExecuteSet, ExecuteClear, ExecuteGet,
                ExecutePMT, cpuVars
  <2> QED
    BY <2>1, <2>2, <2>3 DEF Next
<1> QED
  BY <1>1, StreamInvariance, PTL DEF Spec, GapIsReported

\* The driver and the controller implement PhotonCounter: a read returns the photons since
\* the read before, for a counter of any width (PULSE_CONTROLLER_get_PMT, PMT_counter.v).
THEOREM ReadsArePhotons == Spec => ImplementsPhotonCounter
<1>1. Init => Reader!Init
  BY DEF Init, Reader!Init
<1>2. StreamInv /\ [Next]_vars => [Reader!Next]_<<unread, PMTAnswer>>
  BY CounterKept DEF StreamInv
<1>3. PMTAnswer = IF rFIFO # <<>> /\ rFIFO[1].kind = "pmt"
                    THEN (rFIFO[1].value - last) % Modulus ELSE Nothing
  BY DEF PMTAnswer, Answered
<1> QED
  BY <1>1, <1>2, <1>3, StreamInvariance, PTL
     DEF Spec, ImplementsPhotonCounter, Reader!Spec, PMTAnswer, Answered
=============================================================================
