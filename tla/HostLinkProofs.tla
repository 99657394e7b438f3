--------------------------- MODULE HostLinkProofs ---------------------------
(***************************************************************************)
(* Requests, messages of the FPGA, acknowledgements and replies stay in    *)
(* step, for any number of threads and connections, any range of ids and   *)
(* any faults.                                                             *)
(***************************************************************************)
EXTENDS HostLink, TLAPS

-----------------------------------------------------------------------------
(* Messages and streams. *)

LEMMA MasksExist == NoMasks \in Masks
BY LinkAssumption DEF NoMasks, Masks

LEMMA RequestIsMessage ==
    ASSUME NEW w \in Request \cup {"ack"}, NEW i \in 0 .. IdRange - 1, NEW m \in Masks
    PROVE  /\ Message(w, i, m) \in ToFpga
           /\ Message(w, i, m).what = w /\ Message(w, i, m).id = i
BY DEF Message, ToFpga

LEMMA ReplyIsMessage ==
    ASSUME NEW w \in Nested \cup Final, NEW i \in 0 .. IdRange - 1, NEW m \in Masks
    PROVE  /\ Message(w, i, m) \in ToHost
           /\ Message(w, i, m).what = w /\ Message(w, i, m).id = i
BY DEF Message, ToHost

LEMMA ZeroIsId == 0 \in 0 .. IdRange - 1
BY LinkAssumption

LEMMA NoneAreMessages == NoRequest \in ToFpga /\ NoReply \in ToHost /\ NoRequest.what = "rfc"
BY MasksExist, ZeroIsId, RequestIsMessage, ReplyIsMessage DEF NoRequest, NoReply, Request, Final

\* What a queue is after a message was put into it or taken from it.
LEMMA QueueIs ==
    ASSUME NEW T, NEW q \in Seq(T), NEW m \in T
    PROVE  /\ Append(q, m) \in Seq(T)
           /\ q # <<>> => Head(q) \in T /\ Tail(q) \in Seq(T)
           /\ q = <<>> => Append(q, m) = <<m>>
<1>1. Append(q, m) \in Seq(T) /\ (q # <<>> => Head(q) \in T /\ Tail(q) \in Seq(T))
  OBVIOUS
<1>2. q = <<>> => Append(q, m) = <<m>>
  OBVIOUS
<1> QED
  BY <1>1, <1>2

LEMMA OneMessage ==
    ASSUME NEW T, NEW m \in T
    PROVE  <<m>> # <<>> /\ Head(<<m>>) = m /\ Tail(<<m>>) = <<>> /\ <<>> \in Seq(T) /\ <<m>> \in Seq(T)
OBVIOUS

-----------------------------------------------------------------------------
(* Types. *)

\* Where the threads and the FPGA are, as far as types depend on it.
Placed ==
    /\ \A c \in Client : pcC[c] = "idle" <=> call[c] = "none"
    /\ serving \in {0, accepted} /\ accepted <= session
    /\ serving = 0 <=> pcF = "accept"
    /\ owner # Nil => pcC[owner] # "idle"
    /\ ~up => owner = Nil /\ \A c \in Client : pcC[c] = "idle"

Typed == TypeOK /\ Placed

LEMMA InitTyped == Init => Typed
<1> SUFFICES ASSUME Init PROVE Typed
  OBVIOUS
<1>1. up \in BOOLEAN /\ greeted \in BOOLEAN /\ bDebugPulses \in BOOLEAN
  BY DEF Init
<1>2. toFpga \in [Session -> Seq(ToFpga)] /\ toHost \in [Session -> Seq(ToHost)]
  BY OneMessage, NoneAreMessages DEF Init
<1>3. session \in Session /\ accepted \in 0 .. MaxSessions /\ serving \in 0 .. MaxSessions
      /\ nested \in 0 .. MaxNested /\ faults \in 0 .. MaxFaults /\ executions \in Nat
      /\ msgId \in 0 .. IdRange - 1 /\ requestId \in 0 .. IdRange - 1
  BY LinkAssumption, ZeroIsId DEF Init, Session
<1>4. /\ seen \in [Client -> Masks] /\ bit \in [Client -> Bit \cup {Nil}] /\ ttl \in Masks
      /\ call \in [Client -> Request \cup {"none"}]
      /\ pcC \in [Client -> {"idle", "lock", "post", "wait", "got"}]
  BY MasksExist DEF Init
<1>5. TypeOK
  BY <1>1, <1>2, <1>3, <1>4, NoneAreMessages DEF Init, TypeOK, Request, Final
<1>6. Placed
  BY LinkAssumption DEF Init, Placed, Session
<1> QED
  BY <1>5, <1>6 DEF Typed

LEMMA StartCallTyped == ASSUME Typed, NEW c \in Client, StartCall(c) PROVE Typed'
<1>1. TypeOK'
  BY DEF Typed, TypeOK, StartCall, Working, At, netVars, fpgaVars, Request
<1>2. Placed'
  BY DEF Typed, TypeOK, Placed, StartCall, Working, At, netVars, fpgaVars, Request
<1> QED
  BY <1>1, <1>2 DEF Typed

LEMMA SetLogicStateTyped == ASSUME Typed, NEW c \in Client, NEW b \in Switches[c], SetLogicState(c, b) PROVE Typed'
<1>0. b \in Bit
  BY LinkAssumption
<1>1. TypeOK'
  BY <1>0 DEF Typed, TypeOK, SetLogicState, Working, At, netVars, fpgaVars, Request
<1>2. Placed'
  BY DEF Typed, TypeOK, Placed, SetLogicState, Working, At, netVars, fpgaVars, Request
<1> QED
  BY <1>1, <1>2 DEF Typed

LEMMA CloseTyped == Typed /\ Close => Typed'
<1> SUFFICES ASSUME Typed, Close PROVE Typed'
  OBVIOUS
<1>1. TypeOK'
  BY LinkAssumption DEF Typed, TypeOK, Close, Working, At, netVars, fpgaVars, Request
<1>2. Placed'
  BY LinkAssumption DEF Typed, TypeOK, Placed, Close, Working, At, netVars, fpgaVars, Request
<1> QED
  BY <1>1, <1>2 DEF Typed

LEMMA TakeLockTyped == ASSUME Typed, NEW c \in Client, TakeLock(c) PROVE Typed'
<1>1. TypeOK'
  BY DEF Typed, TypeOK, Placed, TakeLock, At, netVars, fpgaVars, Request
<1>2. Placed'
  BY LinkAssumption DEF Typed, TypeOK, Placed, TakeLock, At, netVars, fpgaVars, Request
<1> QED
  BY <1>1, <1>2 DEF Typed

LEMMA SendTyped == ASSUME Typed, NEW c \in Client, Send(c) PROVE Typed'
<1>1. Message(out, msgId, seen[c]) \in ToFpga
  BY RequestIsMessage DEF Typed, TypeOK
<1>2. toFpga' \in [Session -> Seq(ToFpga)]
  BY <1>1, QueueIs DEF Typed, TypeOK, Send
<1>3. msgId' \in 0 .. IdRange - 1 /\ requestId' \in 0 .. IdRange - 1
  BY LinkAssumption DEF Typed, TypeOK, Send
<1>4. TypeOK'
  BY <1>2, <1>3 DEF Typed, TypeOK, Send, At, fpgaVars
<1>5. Placed'
  BY DEF Typed, TypeOK, Placed, Send, At, fpgaVars
<1> QED
  BY <1>4, <1>5 DEF Typed

LEMMA ReceiveTyped == ASSUME Typed, NEW c \in Client, Receive(c) PROVE Typed'
<1>1. in' \in ToHost /\ Tail(toHost[session]) \in Seq(ToHost)
  BY QueueIs DEF Typed, TypeOK, Receive
<1>2. toHost' \in [Session -> Seq(ToHost)]
  BY <1>1 DEF Typed, TypeOK, Receive
<1>3. TypeOK'
  BY <1>1, <1>2 DEF Typed, TypeOK, Receive, At, fpgaVars
<1>4. Placed'
  BY DEF Typed, TypeOK, Placed, Receive, At, fpgaVars
<1> QED
  BY <1>3, <1>4 DEF Typed

LEMMA AcknowledgeTyped == ASSUME Typed, NEW c \in Client, Acknowledge(c) PROVE Typed'
<1>1. TypeOK'
  BY DEF Typed, TypeOK, Acknowledge, At, netVars, fpgaVars
<1>2. Placed'
  BY DEF Typed, TypeOK, Placed, Acknowledge, At, netVars, fpgaVars
<1> QED
  BY <1>1, <1>2 DEF Typed

LEMMA ReturnTyped == ASSUME Typed, NEW c \in Client, Return(c) PROVE Typed'
<1>1. NewMasks(c) \subseteq Masks
  BY DEF NewMasks, Masks, Typed, TypeOK, ToHost
<1>2. seen' \in [Client -> Masks]
  BY <1>1, MasksExist DEF Typed, TypeOK, Return
<1>3. TypeOK'
  BY <1>2, NoneAreMessages, ZeroIsId DEF Typed, TypeOK, Return, At, netVars, fpgaVars, Request
<1>4. Placed'
  BY DEF Typed, TypeOK, Placed, Return, At, netVars, fpgaVars
<1> QED
  BY <1>3, <1>4 DEF Typed

LEMMA HostEndsTyped ==
    ASSUME Typed, HostEnds, faults' \in 0 .. MaxFaults
    PROVE  Typed'
<1>1. toHost' \in [Session -> Seq(ToHost)]
  BY OneMessage, NoneAreMessages DEF Typed, TypeOK, HostEnds
<1>2. seen' \in [Client -> Masks]
  BY MasksExist DEF HostEnds
<1>3. TypeOK'
  BY <1>1, <1>2, NoneAreMessages, ZeroIsId DEF Typed, TypeOK, HostEnds, fpgaVars, Request
<1>4. Placed'
  BY DEF Typed, TypeOK, Placed, HostEnds, fpgaVars
<1> QED
  BY <1>3, <1>4 DEF Typed

LEMMA HostStartsTyped == Typed /\ HostStarts => Typed'
<1> SUFFICES ASSUME Typed, HostStarts PROVE Typed'
  OBVIOUS
<1>1. session' \in Session /\ session <= session'
  BY LinkAssumption DEF Typed, TypeOK, HostStarts, Session
<1>2. TypeOK'
  BY <1>1 DEF Typed, TypeOK, HostStarts, netVars, fpgaVars
<1>3. Placed'
  BY <1>1, LinkAssumption DEF Typed, TypeOK, Placed, HostStarts, netVars, fpgaVars, Session
<1> QED
  BY <1>2, <1>3 DEF Typed

\* What the FPGA answers is a message.
LEMMA AnswerTyped ==
    ASSUME Typed, NEW w \in Nested \cup Final, NEW m \in Masks, NEW i \in 0 .. IdRange - 1,
           Answer(w, m, i)
    PROVE  toHost' \in [Session -> Seq(ToHost)]
<1>1. CASE PeerGone
  BY <1>1 DEF Answer, Typed, TypeOK
<1>2. CASE ~PeerGone
  <2>1. serving \in Session
    BY <1>2 DEF PeerGone, Typed, TypeOK
  <2>2. Message(w, i, m) \in ToHost
    BY ReplyIsMessage
  <2>3. Append(toHost[serving], Message(w, i, m)) \in Seq(ToHost)
    BY <2>1, <2>2, QueueIs DEF Typed, TypeOK
  <2>4. toHost' = [toHost EXCEPT ![serving] = Append(toHost[serving], Message(w, i, m))]
    BY <1>2 DEF Answer
  <2> QED
    BY <2>1, <2>3, <2>4 DEF Typed, TypeOK
<1> QED
  BY <1>1, <1>2

\* The FPGA has a connection while it is not waiting for one.
LEMMA ServingIsSession == Typed /\ pcF # "accept" => serving \in Session
BY DEF Typed, TypeOK, Placed, Session

LEMMA ReadTyped ==
    ASSUME Typed, pcF # "accept", Read
    PROVE  toFpga' \in [Session -> Seq(ToFpga)] /\ Head(toFpga[serving]) \in ToFpga
<1>1. serving \in Session
  BY ServingIsSession
<1>2. Head(toFpga[serving]) \in ToFpga /\ Tail(toFpga[serving]) \in Seq(ToFpga)
  BY <1>1, QueueIs DEF Typed, TypeOK, Read
<1> QED
  BY <1>1, <1>2 DEF Typed, TypeOK, Read

LEMMA ExecutedTyped ==
    ASSUME Typed, NEW r \in Final, Executed(r)
    PROVE  reply' \in Final /\ executions' \in Nat
<1>1. executions' = executions \/ executions' = executions + 1
  BY DEF Executed
<1> QED
  BY <1>1 DEF Executed, Typed, TypeOK

\* Nothing of the host and of the streams' types depends on what the FPGA does.
LEMMA FpgaTyped ==
    ASSUME Typed, UNCHANGED <<hostVars, accepted, serving, faults>>,
           toFpga' \in [Session -> Seq(ToFpga)], toHost' \in [Session -> Seq(ToHost)],
           pcF # "accept", pcF' \in {"rcv", "run", "exp", "ack", "reply", "spin"},
           resume' \in {"run", "exp"},
           req' \in ToFpga, reply' \in Final, nested' \in 0 .. MaxNested,
           greeted' \in BOOLEAN, bDebugPulses' \in BOOLEAN, ttl' \in Masks,
           executions' \in Nat, unfinished' \in BOOLEAN, overtaken' \in SUBSET Client
    PROVE  Typed'
<1>1. TypeOK'
  BY DEF Typed, TypeOK, hostVars
<1>2. Placed'
  BY DEF Typed, Placed, hostVars
<1> QED
  BY <1>1, <1>2 DEF Typed

LEMMA AcceptTyped == Typed /\ Accept => Typed'
<1> SUFFICES ASSUME Typed, Accept PROVE Typed'
  OBVIOUS
<1>1. accepted' \in 0 .. MaxSessions /\ serving' = accepted' /\ accepted' # 0 /\ accepted' <= session
  BY LinkAssumption DEF Typed, TypeOK, Accept, Session
<1>2. TypeOK'
  BY <1>1 DEF Typed, TypeOK, Accept, hostVars
<1>3. Placed'
  BY <1>1 DEF Typed, TypeOK, Placed, Accept, hostVars
<1> QED
  BY <1>2, <1>3 DEF Typed

LEMMA RcvTyped == Typed /\ Rcv => Typed'
<1> SUFFICES ASSUME Typed, Rcv PROVE Typed'
  OBVIOUS
<1>1. toFpga' \in [Session -> Seq(ToFpga)] /\ req' \in ToFpga
  BY ReadTyped DEF Rcv
<1>2. nested' \in 0 .. MaxNested
  BY LinkAssumption DEF Rcv
<1> QED
  BY <1>1, <1>2, FpgaTyped DEF Typed, TypeOK, Rcv

LEMMA RcvAckTyped == Typed /\ RcvAck => Typed'
<1> SUFFICES ASSUME Typed, RcvAck PROVE Typed'
  OBVIOUS
<1>1. toFpga' \in [Session -> Seq(ToFpga)]
  BY ReadTyped DEF RcvAck
<1> QED
  BY <1>1, FpgaTyped DEF Typed, TypeOK, RcvAck

LEMMA SpinTyped == Typed /\ Spin => Typed'
BY FpgaTyped DEF Typed, TypeOK, Spin, netVars

LEMMA GreetTyped == Typed /\ Greet => Typed'
<1> SUFFICES ASSUME Typed, Greet PROVE Typed'
  OBVIOUS
<1>1. toHost' \in [Session -> Seq(ToHost)]
  BY AnswerTyped, MasksExist, ZeroIsId DEF Greet, Nested
<1> QED
  BY <1>1, FpgaTyped DEF Typed, TypeOK, Greet

LEMMA ServeCallTyped == Typed /\ ServeCall => Typed'
<1> SUFFICES ASSUME Typed, ServeCall PROVE Typed'
  OBVIOUS
<1>1. PICK r \in Final : Executed(r)
  BY DEF ServeCall
<1>2. reply' \in Final /\ executions' \in Nat
  BY <1>1, ExecutedTyped
<1> QED
  BY <1>1, <1>2, FpgaTyped DEF Typed, TypeOK, ServeCall, Executed, Serves, netVars

LEMMA ServeGetTTLTyped == Typed /\ ServeGetTTL => Typed'
<1> SUFFICES ASSUME Typed, ServeGetTTL PROVE Typed'
  OBVIOUS
<1>1. reply' \in Final /\ executions' \in Nat
  BY ExecutedTyped DEF ServeGetTTL, Final
<1>2. overtaken' \in SUBSET Client
  BY DEF ServeGetTTL, Typed, TypeOK
<1> QED
  BY <1>1, <1>2, FpgaTyped DEF Typed, TypeOK, ServeGetTTL, Executed, Serves, netVars

LEMMA ServeSetTTLTyped == Typed /\ ServeSetTTL => Typed'
<1> SUFFICES ASSUME Typed, ServeSetTTL PROVE Typed'
  OBVIOUS
<1>1. reply' \in Final /\ executions' \in Nat
  BY ExecutedTyped DEF ServeSetTTL, Final
<1>2. overtaken' \in SUBSET Client
  BY DEF ServeSetTTL, Typed, TypeOK
<1>3. ttl' \in Masks
  BY DEF ServeSetTTL, Typed, TypeOK, ToFpga
<1> QED
  BY <1>1, <1>2, <1>3, FpgaTyped DEF Typed, TypeOK, ServeSetTTL, Executed, Serves, netVars

LEMMA StartExperimentTyped == Typed /\ StartExperiment => Typed'
<1> SUFFICES ASSUME Typed, StartExperiment PROVE Typed'
  OBVIOUS
<1>1. bDebugPulses' \in BOOLEAN
  BY DEF StartExperiment
<1> QED
  BY <1>1, FpgaTyped DEF Typed, TypeOK, StartExperiment, Serves, netVars

LEMMA SendNestedTyped == Typed /\ SendNested => Typed'
<1> SUFFICES ASSUME Typed, SendNested PROVE Typed'
  OBVIOUS
<1>1. PICK w \in Nested : Answer(w, NoMasks, 0)
  BY DEF SendNested
<1>2. toHost' \in [Session -> Seq(ToHost)]
  BY <1>1, AnswerTyped, MasksExist, ZeroIsId
<1>3. nested' \in 0 .. MaxNested
  BY LinkAssumption DEF SendNested, Typed, TypeOK
<1>4. pcF \in {"run", "exp"}
  BY DEF SendNested, Serves
<1> QED
  BY <1>2, <1>3, <1>4, FpgaTyped DEF Typed, TypeOK, SendNested

LEMMA FlushDebugTextTyped == Typed /\ FlushDebugText => Typed'
<1> SUFFICES ASSUME Typed, FlushDebugText PROVE Typed'
  OBVIOUS
<1>1. toHost' \in [Session -> Seq(ToHost)]
  BY AnswerTyped, MasksExist, ZeroIsId DEF FlushDebugText, Nested
<1> QED
  BY <1>1, FpgaTyped DEF Typed, TypeOK, FlushDebugText

LEMMA FinishExperimentTyped == Typed /\ FinishExperiment => Typed'
<1> SUFFICES ASSUME Typed, FinishExperiment PROVE Typed'
  OBVIOUS
<1>1. PICK r \in Final : Executed(r)
  BY DEF FinishExperiment, Final
<1>2. reply' \in Final /\ executions' \in Nat
  BY <1>1, ExecutedTyped
<1> QED
  BY <1>1, <1>2, FpgaTyped DEF Typed, TypeOK, FinishExperiment, Executed, netVars

LEMMA ReplyTyped == Typed /\ Reply => Typed'
<1> SUFFICES ASSUME Typed, Reply PROVE Typed'
  OBVIOUS
<1>1. toHost' \in [Session -> Seq(ToHost)]
  <2>1. (IF req.what = "read" THEN ttl ELSE NoMasks) \in Masks /\ req.id \in 0 .. IdRange - 1
        /\ reply \in Final
    BY MasksExist DEF Typed, TypeOK, ToFpga
  <2> QED
    BY <2>1, AnswerTyped DEF Reply
<1>2. /\ reply' \in Final /\ nested' \in 0 .. MaxNested /\ req' \in ToFpga
      /\ executions' \in Nat /\ overtaken' \in SUBSET Client
  BY NoneAreMessages, LinkAssumption DEF Reply, Final, Typed, TypeOK
<1>3. CASE req.what = "quit"
  <2>1. pcF' = "accept" /\ serving' = 0 /\ greeted' = FALSE
    BY <1>3 DEF Reply
  <2>2. TypeOK'
    <3>1. UNCHANGED <<hostVars, toFpga, accepted, resume, bDebugPulses, ttl, faults, unfinished>>
      BY DEF Reply
    <3>2. serving' \in 0 .. MaxSessions
      BY <2>1, LinkAssumption
    <3> QED
      BY <1>1, <1>2, <2>1, <3>1, <3>2 DEF Typed, TypeOK, hostVars
  <2>3. UNCHANGED <<hostVars, accepted>> /\ pcF = "reply"
    BY DEF Reply
  <2>4. Placed'
    BY <2>1, <2>3 DEF Typed, Placed, hostVars
  <2> QED
    BY <2>2, <2>4 DEF Typed
<1>4. CASE req.what # "quit"
  <2>1. pcF' = "rcv" /\ UNCHANGED <<serving, greeted>> /\ pcF = "reply"
    BY <1>4 DEF Reply
  <2>2. resume' \in {"run", "exp"} /\ ttl' \in Masks /\ toFpga' \in [Session -> Seq(ToFpga)]
    BY DEF Reply, Typed, TypeOK
  <2>3. greeted' \in BOOLEAN /\ bDebugPulses' \in BOOLEAN /\ unfinished' \in BOOLEAN
    BY <2>1 DEF Reply, Typed, TypeOK
  <2>4. UNCHANGED <<hostVars, accepted, serving, faults>>
    BY <2>1 DEF Reply
  <2> QED
    BY <1>1, <1>2, <2>1, <2>2, <2>3, <2>4, FpgaTyped
<1> QED
  BY <1>3, <1>4

LEMMA FpgaResetTyped == Typed /\ FpgaReset => Typed'
<1> SUFFICES ASSUME Typed, FpgaReset PROVE Typed'
  OBVIOUS
<1>1. toFpga' \in [Session -> Seq(ToFpga)]
  BY OneMessage, NoneAreMessages DEF FpgaReset
<1>2. /\ accepted' \in 0 .. MaxSessions /\ faults' \in 0 .. MaxFaults /\ nested' \in 0 .. MaxNested
      /\ req' \in ToFpga /\ ttl' \in Masks
  <2>1. req' \in ToFpga /\ ttl' \in Masks
    BY NoneAreMessages, MasksExist DEF FpgaReset
  <2>2. accepted' \in 0 .. MaxSessions
    BY LinkAssumption DEF FpgaReset, Typed, TypeOK, Session
  <2>3. faults' \in 0 .. MaxFaults /\ nested' \in 0 .. MaxNested
    BY LinkAssumption DEF FpgaReset, Typed, TypeOK
  <2> QED
    BY <2>1, <2>2, <2>3
<1>3. TypeOK'
  <2>1. /\ pcF' = "accept" /\ serving' = 0 /\ greeted' = FALSE /\ bDebugPulses' = FALSE
        /\ reply' = "OK" /\ resume' = "run" /\ overtaken' = Client
        /\ UNCHANGED <<hostVars, toHost, executions, unfinished>>
    BY DEF FpgaReset
  <2>2. serving' \in 0 .. MaxSessions
    BY <2>1, LinkAssumption
  <2> QED
    BY <1>1, <1>2, <2>1, <2>2 DEF Typed, TypeOK, hostVars, Final
<1>4. Placed'
  <2>1. pcF' = "accept" /\ serving' = 0 /\ accepted' = session /\ UNCHANGED hostVars
    BY DEF FpgaReset
  <2>2. session <= session
    BY LinkAssumption DEF Typed, TypeOK, Session
  <2> QED
    BY <2>1, <2>2 DEF Typed, Placed, hostVars
<1> QED
  BY <1>3, <1>4 DEF Typed

LEMMA StepTyped == Typed /\ [Next]_vars => Typed'
<1> SUFFICES ASSUME Typed, [Next]_vars PROVE Typed'
  OBVIOUS
<1>1. ASSUME NEW c \in Client, StartCall(c) \/ HostStep(c) PROVE Typed'
  <2>1. CASE Aborts(c)
    BY <2>1, HostEndsTyped DEF Aborts, Typed, TypeOK
  <2> QED
    BY <1>1, <2>1, StartCallTyped, TakeLockTyped, SendTyped, ReceiveTyped, AcknowledgeTyped,
       ReturnTyped DEF HostStep
<1>2. ASSUME NEW c \in Client, NEW b \in Switches[c], SetLogicState(c, b) PROVE Typed'
  BY <1>2, SetLogicStateTyped
<1>3. CASE Close
  BY <1>3, CloseTyped
<1>4. CASE Closed \/ LinkLost \/ HostKilled
  <2>1. HostEnds
    BY <1>4 DEF Closed, LinkLost, HostKilled
  <2>2. faults' \in 0 .. MaxFaults
    BY <1>4, LinkAssumption DEF Closed, LinkLost, HostKilled, Typed, TypeOK
  <2> QED
    BY <2>1, <2>2, HostEndsTyped
<1>5. CASE HostStarts
  BY <1>5, HostStartsTyped
<1>6. CASE FpgaStep
  BY <1>6, AcceptTyped, RcvTyped, RcvAckTyped, SpinTyped, GreetTyped, ServeCallTyped,
     ServeGetTTLTyped, ServeSetTTLTyped, StartExperimentTyped, SendNestedTyped,
     FlushDebugTextTyped, FinishExperimentTyped, ReplyTyped DEF FpgaStep
<1>7. CASE FpgaReset
  BY <1>7, FpgaResetTyped
<1>8. CASE UNCHANGED vars
  <2>1. TypeOK'
    BY <1>8 DEF Typed, TypeOK, vars, hostVars, netVars, fpgaVars
  <2>2. Placed'
    BY <1>8 DEF Typed, Placed, vars, hostVars, netVars, fpgaVars
  <2> QED
    BY <2>1, <2>2 DEF Typed
<1> QED
  BY <1>1, <1>2, <1>3, <1>4, <1>5, <1>6, <1>7, <1>8 DEF Next, Over

\* Every variable keeps its type, for any number of threads, connections, messages the
\* FPGA sends on its own, and faults.
\* Code: GbE_msg_exchange, doXferWaitForAck, message_loop.
THEOREM TypeCorrect == Spec => []TypeOK
<1>1. Typed => TypeOK
  BY DEF Typed
<1> QED
  BY <1>1, InitTyped, StepTyped, PTL DEF Spec

-----------------------------------------------------------------------------
(* The conversation of the running program with the FPGA: one of the two   *)
(* speaks at a time, so what arrives is what its receiver waits for.       *)

\* The FPGA reads from this program; it has yet to accept its connection.
Connected == serving = session
Pending   == accepted < session

Silent == toFpga[session] = <<>> /\ toHost[session] = <<>>
Waits  == owner # Nil /\ pcC[owner] = "wait"

\* Kind and number of the request of the owner.
Wanted(w, i) == w = call[owner] /\ i = requestId

\* What the thread may do with a message r of the FPGA.
Fits(r) ==
    /\ r.what \in Final => r.id = requestId
    /\ r.what = "debugText" => call[owner] \in {"exp", "debug"} \/ unfinished

\* The FPGA waits for an acknowledgement in the midst of the request.
Halted == pcF = "ack" /\ Wanted(req.what, req.id)

\* Where the FPGA is after it sent r.
SentBy(r) ==
    \/ Connected /\ r.what \in Nested /\ Halted
    \/ Connected /\ r.what \in Final /\ pcF = "rcv"
    \/ Broken

\* The places the conversation can be at.
NoCall ==
    /\ owner = Nil \/ (pcC[owner] = "post" /\ out # "ack")
    /\ Silent /\ (Connected => pcF = "rcv")
Asked ==
    /\ Waits /\ toHost[session] = <<>> /\ (Pending \/ (Connected /\ pcF = "rcv"))
    /\ \E m \in ToFpga : toFpga[session] = <<m>> /\ Wanted(m.what, m.id)
Served ==
    /\ Waits /\ Silent /\ Connected
    /\ pcF \in {"run", "exp", "reply"} /\ Wanted(req.what, req.id)
Told ==
    /\ Waits /\ toFpga[session] = <<>>
    /\ \E r \in ToHost : toHost[session] = <<r>> /\ Fits(r) /\ SentBy(r)
Heard ==
    /\ owner # Nil /\ pcC[owner] = "got" /\ Silent
    /\ Fits(in) /\ SentBy(in)
Acking ==
    /\ owner # Nil /\ pcC[owner] = "post" /\ out = "ack" /\ Silent
    /\ (Connected /\ Halted) \/ Broken
Acked ==
    /\ Waits /\ toHost[session] = <<>> /\ Connected /\ Halted
    /\ \E m \in ToFpga : toFpga[session] = <<m>> /\ m.what = "ack"
Lost == Waits /\ Silent /\ Broken

Conversation == up => NoCall \/ Asked \/ Served \/ Told \/ Heard \/ Acking \/ Acked \/ Lost

\* Only the owner of the lock is in an exchange.
OwnerSpeaks ==
    /\ \A c \in Client : pcC[c] \in {"post", "wait", "got"} <=> owner = c
    /\ owner # Nil => out \in {"ack", call[owner]}

\* A stream holds at most one message, of these kinds.
AtMostOne(kinds, q) == q = <<>> \/ \E m \in ToFpga : q = <<m>> /\ m.what \in kinds

\* The streams of connections to come are empty, nobody talks to a program that is
\* over, and a connection that is not accepted holds at most a request.
Unread ==
    /\ \A s \in Session : s > session => toFpga[s] = <<>>
    /\ \A s \in Session : s # session \/ ~up => toHost[s] = <<>>
    /\ \A s \in Session : s > accepted => AtMostOne(Request, toFpga[s])

\* What the FPGA reads next is what it takes it for.
Reads ==
    /\ serving # 0 =>
          /\ pcF = "rcv" => AtMostOne(Request, toFpga[serving])
          /\ pcF = "ack" => AtMostOne({"ack"}, toFpga[serving])
          /\ pcF \notin {"rcv", "ack"} => toFpga[serving] = <<>>
    /\ req.what \in Request
    /\ pcF = "exp" \/ (pcF = "ack" /\ resume = "exp") => req.what \in {"exp", "debug"}

InStep == Typed /\ OwnerSpeaks /\ Unread /\ Reads /\ Conversation

\* Outside of experiments bDebugPulses is set only where an exception has left it.
Marked ==
    bDebugPulses => unfinished \/ pcF \in {"exp", "spin"} \/ (pcF = "ack" /\ resume = "exp")

LEMMA InStepSuffices == InStep => MessagesInStep
<1> SUFFICES ASSUME InStep PROVE MessagesInStep
  OBVIOUS
<1>1. ASSUME NEW c \in Client, pcC[c] = "got" PROVE Fits(in) /\ owner = c
  <2>1. owner = c /\ up /\ c # Nil
    BY <1>1, LinkAssumption DEF InStep, OwnerSpeaks, Typed, Placed
  <2>2. Heard
    BY <1>1, <2>1 DEF InStep, Conversation, NoCall, Asked, Served, Told, Acking, Acked, Lost, Waits
  <2> QED
    BY <2>1, <2>2 DEF Heard
<1>2. ReplyIsOwn
  BY <1>1 DEF ReplyIsOwn, Fits
<1>3. DebugHasScan
  BY <1>1 DEF DebugHasScan, AssertionFails, Fits
<1>4. AcksInStep
  <2> SUFFICES ASSUME serving # 0, NEW i \in DOMAIN toFpga[serving]
               PROVE  /\ pcF = "rcv" => toFpga[serving][i].what # "ack"
                      /\ pcF = "ack" => toFpga[serving][i].what = "ack"
    BY DEF AcksInStep
  <2>1. ASSUME NEW kinds, AtMostOne(kinds, toFpga[serving])
        PROVE  toFpga[serving][i].what \in kinds
    <3>1. toFpga[serving] # <<>>
      OBVIOUS
    <3>2. PICK m \in ToFpga : toFpga[serving] = <<m>> /\ m.what \in kinds
      BY <2>1, <3>1 DEF AtMostOne
    <3>3. i = 1
      BY <3>2
    <3> QED
      BY <3>2, <3>3
  <2> QED
    BY <2>1 DEF InStep, Reads, Request
<1> QED
  BY <1>2, <1>3, <1>4 DEF MessagesInStep

LEMMA InitInStep == Init => InStep /\ Marked
<1> SUFFICES ASSUME Init PROVE InStep /\ Marked
  OBVIOUS
<1>1. session \in Session /\ up
  BY LinkAssumption DEF Init, Session
<1>2. Conversation
  BY <1>1, LinkAssumption DEF Init, Conversation, NoCall, Silent, Connected
<1>3. OwnerSpeaks
  BY LinkAssumption DEF Init, OwnerSpeaks
<1>4. Unread
  BY DEF Init, Unread, AtMostOne
<1>5. Reads
  BY NoneAreMessages DEF Init, Reads, Request
<1> QED
  BY <1>2, <1>3, <1>4, <1>5, InitTyped DEF InStep, Init, Marked

\* The conversation stays where it is when nothing of it changes.
LEMMA SameConversation ==
    ASSUME Conversation,
           UNCHANGED <<up, session, owner, out, in, requestId, netVars, pcF, serving, req,
                       unfinished>>,
           owner # Nil => pcC'[owner] = pcC[owner] /\ call'[owner] = call[owner]
    PROVE  Conversation'
<1>1. CASE owner = Nil
  BY <1>1 DEF Conversation, NoCall, Asked, Served, Told, Heard, Acking, Acked, Lost, Waits, Silent,
              Connected, netVars
<1>2. CASE owner # Nil
  <2>1. pcC'[owner] = pcC[owner] /\ call'[owner] = call[owner]
    BY <1>2
  <2> QED
    BY <2>1 DEF Conversation, NoCall, Asked, Served, Told, Heard, Acking, Acked, Lost, Waits, Silent,
                Connected, Pending, Broken, Wanted, Fits, Halted, SentBy, netVars
<1> QED
  BY <1>1, <1>2

\* A thread that begins a call does not disturb the others.
LEMMA CallBegins ==
    ASSUME InStep, NEW c \in Client, pcC[c] = "idle",
           pcC' = [pcC EXCEPT ![c] = "lock"],
           NEW k, call' = [call EXCEPT ![c] = k],
           UNCHANGED <<up, session, owner, out, in, requestId, netVars, fpgaVars, unfinished>>
    PROVE  OwnerSpeaks' /\ Unread' /\ Reads' /\ Conversation'
<1>1. owner # c /\ owner \in Client \cup {Nil}
  BY DEF InStep, OwnerSpeaks, Typed, TypeOK
<1>2. owner # Nil => pcC'[owner] = pcC[owner] /\ call'[owner] = call[owner]
  BY <1>1 DEF InStep, Typed, TypeOK
<1>3. Conversation'
  BY <1>2, SameConversation DEF InStep, fpgaVars
<1>4. OwnerSpeaks'
  BY <1>1, <1>2 DEF InStep, OwnerSpeaks, Typed, TypeOK
<1>5. Unread' /\ Reads'
  BY DEF InStep, Unread, Reads, AtMostOne, netVars, fpgaVars
<1> QED
  BY <1>3, <1>4, <1>5

LEMMA StartCallInStep == ASSUME InStep, NEW c \in Client, StartCall(c) PROVE InStep'
<1>1. PICK k : call' = [call EXCEPT ![c] = k]
  BY DEF StartCall
<1>2. pcC[c] = "idle" /\ pcC' = [pcC EXCEPT ![c] = "lock"]
  BY DEF StartCall, At
<1>3. UNCHANGED <<up, session, owner, out, in, requestId, netVars, fpgaVars, unfinished>>
  BY DEF StartCall
<1> QED
  BY <1>1, <1>2, <1>3, CallBegins, StartCallTyped DEF InStep

LEMMA SetLogicStateInStep ==
    ASSUME InStep, NEW c \in Client, NEW b \in Switches[c], SetLogicState(c, b) PROVE InStep'
<1>1. pcC[c] = "idle" /\ pcC' = [pcC EXCEPT ![c] = "lock"] /\ call' = [call EXCEPT ![c] = "read"]
  BY DEF SetLogicState, At
<1>2. UNCHANGED <<up, session, owner, out, in, requestId, netVars, fpgaVars, unfinished>>
  BY DEF SetLogicState
<1> QED
  BY <1>1, <1>2, CallBegins, SetLogicStateTyped DEF InStep

LEMMA CloseInStep == InStep /\ Close => InStep'
<1> SUFFICES ASSUME InStep, Close PROVE InStep'
  OBVIOUS
<1>1. /\ pcC[Quitter] = "idle" /\ pcC' = [pcC EXCEPT ![Quitter] = "lock"]
      /\ call' = [call EXCEPT ![Quitter] = "quit"]
  BY LinkAssumption DEF Close, At
<1>2. UNCHANGED <<up, session, owner, out, in, requestId, netVars, fpgaVars, unfinished>>
  BY DEF Close
<1> QED
  BY <1>1, <1>2, CallBegins, CloseTyped, LinkAssumption DEF InStep

LEMMA TakeLockInStep == ASSUME InStep, NEW c \in Client, TakeLock(c) PROVE InStep'
<1>1. /\ owner = Nil /\ owner' = c /\ c # Nil /\ pcC[c] = "lock" /\ pcC'[c] = "post"
      /\ out' = call[c] /\ call'[c] = call[c] /\ call[c] \in Request
  BY LinkAssumption DEF TakeLock, At, InStep, Typed, TypeOK, Placed
<1>2. UNCHANGED <<up, session, netVars, fpgaVars>>
  BY DEF TakeLock
<1>3. Conversation'
  <2>1. up => NoCall
    BY <1>1 DEF InStep, Conversation, Asked, Served, Told, Heard, Acking, Acked, Lost, Waits
  <2>2. out' # "ack"
    BY <1>1 DEF Request
  <2>3. up => Silent' /\ (Connected' => pcF' = "rcv")
    BY <1>2, <2>1 DEF NoCall, Silent, Connected, netVars, fpgaVars
  <2>4. up => NoCall'
    BY <1>1, <2>2, <2>3 DEF NoCall
  <2> QED
    BY <1>2, <2>4 DEF Conversation
<1>4. OwnerSpeaks'
  <2>1. \A d \in Client : pcC[d] \notin {"post", "wait", "got"}
    BY <1>1, LinkAssumption DEF InStep, OwnerSpeaks
  <2>2. \A d \in Client : pcC'[d] \in {"post", "wait", "got"} <=> owner' = d
    BY <1>1, <2>1 DEF TakeLock, At, InStep, Typed, TypeOK
  <2> QED
    BY <1>1, <2>2 DEF OwnerSpeaks
<1>5. Unread' /\ Reads'
  BY <1>2 DEF InStep, Unread, Reads, AtMostOne, netVars, fpgaVars
<1> QED
  BY <1>3, <1>4, <1>5, TakeLockTyped DEF InStep

\* The only thread in an exchange is the owner, and the program runs.
LEMMA InExchange ==
    ASSUME InStep, NEW c \in Client, pcC[c] \in {"post", "wait", "got"}
    PROVE  /\ owner = c /\ owner # Nil /\ up /\ session \in Session
           /\ call[c] \in Request /\ out \in {"ack", call[c]}
           /\ pcC[c] = "wait" <=> Waits
           /\ pcC[c] = "post" => NoCall \/ Acking
           /\ pcC[c] = "wait" => Asked \/ Served \/ Told \/ Acked \/ Lost
           /\ pcC[c] = "got" => Heard
<1>1. owner = c /\ owner # Nil /\ up
  BY LinkAssumption DEF InStep, OwnerSpeaks, Typed, Placed
<1>2. session \in Session /\ call[c] \in Request /\ out \in {"ack", call[c]}
  BY <1>1 DEF InStep, OwnerSpeaks, Typed, TypeOK, Placed
<1>3. NoCall \/ Asked \/ Served \/ Told \/ Heard \/ Acking \/ Acked \/ Lost
  BY <1>1 DEF InStep, Conversation
<1>4. pcC[c] = "wait" <=> Waits
  BY <1>1 DEF Waits
<1>5. /\ pcC[c] = "post" => NoCall \/ Acking
      /\ pcC[c] = "wait" => Asked \/ Served \/ Told \/ Acked \/ Lost
      /\ pcC[c] = "got" => Heard
  BY <1>1, <1>3, <1>4 DEF NoCall, Asked, Served, Told, Heard, Acking, Acked, Lost
<1> QED
  BY <1>1, <1>2, <1>4, <1>5

LEMMA AcknowledgeInStep == ASSUME InStep, NEW c \in Client, Acknowledge(c) PROVE InStep'
<1>1. /\ pcC[c] = "got" /\ pcC'[c] = "post" /\ out' = "ack" /\ in.what \in Nested
      /\ UNCHANGED <<up, session, owner, call, requestId, netVars, fpgaVars>>
  BY DEF Acknowledge, At, InStep, Typed, TypeOK
<1>2. owner = c /\ owner # Nil /\ Heard
  BY <1>1, InExchange
<1>3. Conversation'
  <2>1. Silent' /\ ((Connected /\ Halted) \/ Broken)
    BY <1>1, <1>2 DEF Heard, SentBy, Silent, Nested, Final, netVars
  <2>2. ((Connected /\ Halted) \/ Broken)'
    BY <1>1, <2>1 DEF Connected, Halted, Wanted, Broken, netVars, fpgaVars
  <2>3. Acking'
    BY <1>1, <1>2, <2>1, <2>2 DEF Acking
  <2> QED
    BY <2>3 DEF Conversation
<1>4. OwnerSpeaks'
  BY <1>1, <1>2 DEF Acknowledge, At, InStep, OwnerSpeaks, Typed, TypeOK
<1>5. Unread' /\ Reads'
  BY <1>1 DEF InStep, Unread, Reads, AtMostOne, netVars, fpgaVars
<1> QED
  BY <1>3, <1>4, <1>5, AcknowledgeTyped DEF InStep

LEMMA ReturnInStep == ASSUME InStep, NEW c \in Client, Return(c) PROVE InStep'
<1>1. /\ pcC[c] = "got" /\ in.what \in Final /\ owner' = Nil
      /\ UNCHANGED <<up, session, netVars, fpgaVars>>
  BY DEF Return
<1>2. owner = c /\ Heard
  BY <1>1, InExchange
<1>3. Conversation'
  <2>1. Silent /\ (Connected => pcF = "rcv")
    BY <1>1, <1>2 DEF Heard, SentBy, Connected, Broken, Nested, Final
  <2>2. NoCall'
    BY <1>1, <2>1 DEF NoCall, Silent, Connected, netVars, fpgaVars
  <2> QED
    BY <2>2 DEF Conversation
<1>4. OwnerSpeaks'
  <2>1. \E pc \in {"idle", "lock"} : pcC' = [pcC EXCEPT ![c] = pc]
    BY DEF Return, At
  <2> QED
    BY <1>1, <1>2, <2>1, LinkAssumption DEF InStep, OwnerSpeaks, Typed, TypeOK
<1>5. Unread' /\ Reads'
  BY <1>1 DEF InStep, Unread, Reads, AtMostOne, netVars, fpgaVars
<1> QED
  BY <1>3, <1>4, <1>5, ReturnTyped DEF InStep

LEMMA ReceiveInStep == ASSUME InStep, NEW c \in Client, Receive(c) PROVE InStep'
<1>1. /\ pcC[c] = "wait" /\ pcC'[c] = "got" /\ toHost[session] # <<>>
      /\ in' = Head(toHost[session])
      /\ UNCHANGED <<up, session, owner, call, requestId, toFpga, accepted, fpgaVars, unfinished>>
  BY DEF Receive, At, InStep, Typed, TypeOK
<1>2. owner = c /\ owner # Nil /\ session \in Session /\ up /\ Told
  BY <1>1, InExchange DEF Asked, Served, Told, Acked, Lost, Silent
<1>3. PICK r \in ToHost : toHost[session] = <<r>> /\ Fits(r) /\ SentBy(r)
  BY <1>2 DEF Told
<1>4. in' = r /\ Tail(toHost[session]) = <<>>
  BY <1>1, <1>3, OneMessage
<1>5. toHost' = [toHost EXCEPT ![session] = <<>>]
  BY <1>4 DEF Receive
<1>6. toHost'[session] = <<>> /\ toFpga[session] = <<>>
  BY <1>2, <1>5 DEF InStep, Typed, TypeOK, Told
<1>7. Conversation'
  <2>1. Silent'
    BY <1>1, <1>6 DEF Silent
  <2>2. Fits(r)' /\ SentBy(r)'
    BY <1>1, <1>3 DEF Fits, SentBy, Connected, Broken, Halted, Wanted, fpgaVars
  <2>3. Fits(in)' /\ SentBy(in)'
    BY <1>4, <2>2 DEF Fits, SentBy
  <2>4. Heard'
    BY <1>1, <1>2, <2>1, <2>3 DEF Heard
  <2> QED
    BY <2>4 DEF Conversation
<1>8. OwnerSpeaks'
  BY <1>1, <1>2 DEF Receive, At, InStep, OwnerSpeaks, Typed, TypeOK
<1>9. Unread'
  BY <1>1, <1>5 DEF InStep, Unread, AtMostOne, Typed, TypeOK
<1>10. Reads'
  BY <1>1 DEF InStep, Reads, AtMostOne, fpgaVars
<1> QED
  BY <1>7, <1>8, <1>9, <1>10, ReceiveTyped DEF InStep

LEMMA SendInStep == ASSUME InStep, NEW c \in Client, Send(c) PROVE InStep'
<1>1. /\ pcC[c] = "post" /\ pcC'[c] = "wait" /\ ~Broken
      /\ UNCHANGED <<up, session, owner, call, out, toHost, accepted, fpgaVars>>
  BY DEF Send, At, InStep, Typed, TypeOK
<1>2. owner = c /\ owner # Nil /\ session \in Session /\ up /\ (NoCall \/ Acking)
      /\ call[c] \in Request /\ out \in {"ack", call[c]}
  BY <1>1, InExchange
<1>3. PICK m \in ToFpga : m = Message(out, msgId, seen[c]) /\ m.what = out /\ m.id = msgId
  BY <1>2, RequestIsMessage DEF InStep, Typed, TypeOK
<1>4. toFpga' = [toFpga EXCEPT ![session] = <<m>>]
  <2>1. toFpga[session] = <<>> /\ toFpga[session] \in Seq(ToFpga)
    BY <1>2 DEF NoCall, Acking, Silent, InStep, Typed, TypeOK
  <2>2. Append(toFpga[session], m) = <<m>>
    BY <2>1, QueueIs
  <2>3. toFpga' = [toFpga EXCEPT ![session] = Append(toFpga[session], m)]
    BY <1>3 DEF Send
  <2> QED
    BY <2>2, <2>3
<1>5. toFpga'[session] = <<m>> /\ toHost'[session] = <<>> /\ Waits'
      /\ \A s \in Session : s # session => toFpga'[s] = toFpga[s]
  BY <1>1, <1>2, <1>4 DEF NoCall, Acking, Silent, Waits, InStep, Typed, TypeOK
<1>6. Connected \/ Pending
  BY <1>1, <1>2, LinkAssumption DEF Broken, Connected, Pending, InStep, Typed, TypeOK, Session
<1>7. Connected => ~Pending /\ session = accepted
  BY <1>2, LinkAssumption DEF Connected, Pending, InStep, Typed, TypeOK, Placed, Session
<1>8. ASSUME out = "ack" PROVE Conversation' /\ Unread' /\ Reads'
  <2>1. Acking /\ Connected /\ Halted /\ requestId' = requestId
    BY <1>1, <1>2, <1>8 DEF NoCall, Acking, Send
  <2>2. Connected' /\ Halted'
    BY <1>1, <2>1 DEF Connected, Halted, Wanted, fpgaVars
  <2>3. Acked'
    BY <1>1, <1>3, <1>5, <1>8, <2>2 DEF Acked
  <2>4. Unread'
    BY <1>1, <1>2, <1>5, <1>7, <2>1 DEF InStep, Unread, AtMostOne, Typed, TypeOK, Session
  <2>5. Reads'
    BY <1>1, <1>3, <1>5, <1>8, <2>1 DEF InStep, Reads, AtMostOne, Connected, Halted, fpgaVars
  <2> QED
    BY <2>3, <2>4, <2>5 DEF Conversation
<1>9. ASSUME out # "ack" PROVE Conversation' /\ Unread' /\ Reads'
  <2>1. NoCall /\ out = call[c] /\ requestId' = msgId
    BY <1>1, <1>2, <1>9 DEF NoCall, Acking, Send
  <2>2. (Pending \/ (Connected /\ pcF = "rcv"))'
    BY <1>1, <1>6, <2>1 DEF NoCall, Connected, Pending, fpgaVars
  <2>3. Wanted(m.what, m.id)'
    BY <1>1, <1>2, <1>3, <2>1 DEF Wanted
  <2>4. Asked'
    BY <1>1, <1>3, <1>5, <2>2, <2>3 DEF Asked
  <2>5. Unread'
    <3>1. \A s \in Session : s > session => toFpga'[s] = <<>>
      BY <1>2, <1>5, LinkAssumption DEF InStep, Unread, Session
    <3>2. \A s \in Session : s # session \/ ~up => toHost'[s] = <<>>
      BY <1>1 DEF InStep, Unread
    <3>3. m.what \in Request
      BY <1>2, <1>3, <2>1
    <3>4. \A s \in Session : s > accepted => AtMostOne(Request, toFpga'[s])
      BY <1>5, <3>3 DEF InStep, Unread, AtMostOne
    <3> QED
      BY <1>1, <3>1, <3>2, <3>4 DEF Unread, AtMostOne
  <2>6. Reads'
    <3>1. CASE Connected
      BY <1>1, <1>2, <1>3, <1>5, <2>1, <3>1 DEF InStep, Reads, AtMostOne, Connected, NoCall, fpgaVars
    <3>2. CASE ~Connected
      <4>1. serving # 0 => toFpga'[serving] = toFpga[serving]
        BY <1>5, <3>2 DEF Connected, InStep, Typed, TypeOK, Session
      <4> QED
        BY <1>1, <4>1 DEF InStep, Reads, AtMostOne, fpgaVars
    <3> QED
      BY <3>1, <3>2
  <2> QED
    BY <2>4, <2>5, <2>6 DEF Conversation
<1>10. OwnerSpeaks'
  BY <1>1, <1>2 DEF Send, At, InStep, OwnerSpeaks, Typed, TypeOK
<1> QED
  BY <1>8, <1>9, <1>10, SendTyped DEF InStep

LEMMA HostEndsInStep == ASSUME InStep, HostEnds, Typed' PROVE InStep'
<1>1. /\ ~up' /\ owner' = Nil /\ pcC' = [c \in Client |-> "idle"]
      /\ toHost' = [toHost EXCEPT ![session] = <<>>]
      /\ UNCHANGED <<session, toFpga, accepted, fpgaVars>>
  BY DEF HostEnds
<1>2. Conversation'
  BY <1>1 DEF Conversation
<1>3. OwnerSpeaks'
  BY <1>1, LinkAssumption DEF OwnerSpeaks
<1>4. Unread'
  BY <1>1 DEF InStep, Unread, AtMostOne, Typed, TypeOK
<1>5. Reads'
  BY <1>1 DEF InStep, Reads, AtMostOne, fpgaVars
<1> QED
  BY <1>2, <1>3, <1>4, <1>5 DEF InStep

LEMMA HostStartsInStep == InStep /\ HostStarts => InStep'
<1> SUFFICES ASSUME InStep, HostStarts PROVE InStep'
  OBVIOUS
<1>1. /\ ~up /\ session' = session + 1 /\ session' \in Session /\ session' > session
      /\ serving # session' /\ UNCHANGED <<owner, pcC, call, out, netVars, fpgaVars>>
  BY LinkAssumption DEF HostStarts, InStep, Typed, TypeOK, Placed, Session
<1>2. Conversation'
  <2>1. toFpga[session'] = <<>> /\ toHost[session'] = <<>>
    BY <1>1, LinkAssumption DEF InStep, Unread, Typed, TypeOK, Session
  <2>2. owner' = Nil
    BY <1>1 DEF InStep, Typed, Placed
  <2>3. Silent' /\ ~Connected'
    BY <1>1, <2>1 DEF Silent, Connected, netVars, fpgaVars
  <2>4. NoCall'
    BY <2>2, <2>3 DEF NoCall
  <2> QED
    BY <2>4 DEF Conversation
<1>3. OwnerSpeaks'
  BY <1>1 DEF InStep, OwnerSpeaks
<1>4. Unread'
  BY <1>1, LinkAssumption DEF InStep, Unread, AtMostOne, netVars, Typed, TypeOK, Session
<1>5. Reads'
  BY <1>1 DEF InStep, Reads, AtMostOne, netVars, fpgaVars
<1> QED
  BY <1>2, <1>3, <1>4, <1>5, HostStartsTyped DEF InStep

\* What the FPGA does on another connection, or for a program that is over, is no part
\* of the conversation.
LEMMA FpgaAside ==
    ASSUME InStep, ~(up /\ Connected), UNCHANGED <<hostVars, accepted, serving>>,
           toFpga'[session] = toFpga[session], toHost'[session] = toHost[session],
           unfinished' = unfinished \/ pcF # "accept"
    PROVE  Conversation'
<1>1. CASE ~up
  BY <1>1 DEF Conversation, hostVars
<1>2. CASE ~Connected
  <2>1. Broken => unfinished' = unfinished
    BY <1>2, LinkAssumption DEF Broken, Connected, InStep, Typed, TypeOK, Placed, Session
  <2> QED
    BY <1>2, <2>1 DEF InStep, Conversation, NoCall, Asked, Served, Told, Heard, Acking, Acked, Lost,
                      Waits, Silent, Connected, Pending, Broken, Wanted, Fits, SentBy, hostVars
<1> QED
  BY <1>1, <1>2

\* Where the conversation is when the FPGA has work.
LEMMA FpgaTurn ==
    ASSUME InStep, up, Connected
    PROVE  /\ session \in Session /\ accepted = session /\ serving # 0
           /\ pcF \in {"run", "exp", "reply"} => Served
           /\ pcF = "rcv" /\ toFpga[session] # <<>> => Asked
           /\ pcF = "ack" /\ toFpga[session] # <<>> => Acked
<1>1. session \in Session /\ accepted = session /\ serving # 0
  BY LinkAssumption DEF Connected, InStep, Typed, TypeOK, Placed, Session
<1>2. ~Broken /\ ~Pending
  BY <1>1, LinkAssumption DEF Broken, Pending, Connected, InStep, Typed, TypeOK, Session
<1>3. NoCall \/ Asked \/ Served \/ Told \/ Heard \/ Acking \/ Acked
  BY <1>2 DEF InStep, Conversation, Lost
<1>4. Told => pcF \in {"rcv", "ack"} /\ toFpga[session] = <<>>
  BY <1>2 DEF Told, SentBy, Halted
<1>5. Heard => pcF \in {"rcv", "ack"} /\ toFpga[session] = <<>>
  BY <1>2 DEF Heard, SentBy, Halted, Silent
<1>6. /\ NoCall => pcF = "rcv" /\ toFpga[session] = <<>>
      /\ Acking => pcF = "ack" /\ toFpga[session] = <<>>
      /\ Asked => pcF = "rcv"
      /\ Acked => pcF = "ack"
      /\ Served => pcF \in {"run", "exp", "reply"}
  BY <1>2 DEF NoCall, Acking, Asked, Acked, Served, Halted, Silent
<1> QED
  BY <1>1, <1>3, <1>4, <1>5, <1>6

\* The FPGA does not touch what belongs to the host.
LEMMA FpgaSilent == OwnerSpeaks /\ UNCHANGED hostVars => OwnerSpeaks'
<1> SUFFICES ASSUME OwnerSpeaks, UNCHANGED hostVars PROVE OwnerSpeaks'
  OBVIOUS
<1>1. UNCHANGED <<pcC, owner, out, call>>
  BY DEF hostVars
<1>2. \A c \in Client : pcC'[c] \in {"post", "wait", "got"} <=> owner' = c
  BY <1>1 DEF OwnerSpeaks
<1>3. owner' # Nil => out' \in {"ack", call'[owner']}
  BY <1>1 DEF OwnerSpeaks
<1> QED
  BY <1>2, <1>3 DEF OwnerSpeaks

\* Serving a request sends and receives nothing.
LEMMA Serving ==
    ASSUME InStep, pcF \in {"run", "exp"}, pcF' \in {"exp", "reply"},
           pcF' = "exp" => req.what \in {"exp", "debug"},
           UNCHANGED <<hostVars, netVars, serving, req>>
    PROVE  OwnerSpeaks' /\ Unread' /\ Reads' /\ Conversation'
<1>1. Conversation'
  <2>1. CASE up /\ Connected
    <3>1. Served
      BY <2>1, FpgaTurn
    <3>2. Served'
      BY <3>1 DEF Served, Waits, Silent, Connected, Wanted, hostVars, netVars
    <3> QED
      BY <3>2 DEF Conversation
  <2>2. CASE ~(up /\ Connected)
    BY <2>2, FpgaAside DEF netVars
  <2> QED
    BY <2>1, <2>2
<1>2. Unread'
  BY DEF InStep, Unread, AtMostOne, hostVars, netVars
<1>3. Reads'
  BY DEF InStep, Reads, netVars
<1> QED
  BY <1>1, <1>2, <1>3, FpgaSilent DEF InStep

LEMMA ServeInStep == InStep /\ (ServeCall \/ ServeGetTTL \/ ServeSetTTL) => InStep'
<1> SUFFICES ASSUME InStep, ServeCall \/ ServeGetTTL \/ ServeSetTTL PROVE InStep'
  OBVIOUS
<1>1. pcF = "run" /\ pcF' = "reply" /\ UNCHANGED <<hostVars, netVars, serving, req>>
  BY DEF ServeCall, ServeGetTTL, ServeSetTTL, Serves, Executed
<1> QED
  BY <1>1, Serving, ServeCallTyped, ServeGetTTLTyped, ServeSetTTLTyped DEF InStep

LEMMA StartExperimentInStep == InStep /\ StartExperiment => InStep'
<1> SUFFICES ASSUME InStep, StartExperiment PROVE InStep'
  OBVIOUS
<1>1. /\ pcF = "run" /\ pcF' = "exp" /\ req.what \in {"exp", "debug"}
      /\ UNCHANGED <<hostVars, netVars, serving, req>>
  BY DEF StartExperiment, Serves
<1> QED
  BY <1>1, Serving, StartExperimentTyped DEF InStep

LEMMA FinishExperimentInStep == InStep /\ FinishExperiment => InStep'
<1> SUFFICES ASSUME InStep, FinishExperiment PROVE InStep'
  OBVIOUS
<1>1. pcF = "exp" /\ pcF' = "reply" /\ UNCHANGED <<hostVars, netVars, serving, req>>
  BY DEF FinishExperiment, Executed
<1> QED
  BY <1>1, Serving, FinishExperimentTyped DEF InStep

\* What the FPGA sends reaches a program that listens.
LEMMA AnswerIs ==
    ASSUME InStep, NEW w \in Nested \cup Final, NEW m \in Masks, NEW i \in 0 .. IdRange - 1,
           Answer(w, m, i)
    PROVE  /\ up /\ Connected /\ toHost[session] = <<>> =>
                 \E r \in ToHost : r.what = w /\ r.id = i /\ r.masks = m
                                  /\ toHost' = [toHost EXCEPT ![session] = <<r>>]
           /\ ~(up /\ Connected) => toHost' = toHost
<1>1. ASSUME up, Connected, toHost[session] = <<>>
      PROVE  \E r \in ToHost : r.what = w /\ r.id = i /\ r.masks = m
                                /\ toHost' = [toHost EXCEPT ![session] = <<r>>]
  <2>0. Message(w, i, m).masks = m
    BY DEF Message
  <2>1. PICK r \in ToHost : r = Message(w, i, m) /\ r.what = w /\ r.id = i /\ r.masks = m
    BY <2>0, ReplyIsMessage
  <2>2. <<>> \in Seq(ToHost) /\ Append(<<>>, r) = <<r>>
    BY OneMessage, QueueIs
  <2>3. toHost' = [toHost EXCEPT ![session] = Append(toHost[session], r)]
    BY <1>1, <2>1 DEF Answer, PeerGone, Connected
  <2> QED
    BY <1>1, <2>1, <2>2, <2>3
<1>2. ~(up /\ Connected) => toHost' = toHost
  BY DEF Answer, PeerGone, Connected
<1> QED
  BY <1>1, <1>2

\* The FPGA sends a message of its own and waits for the acknowledgement.
LEMMA Halting ==
    ASSUME InStep, pcF \in {"run", "exp"}, pcF' = "ack", resume' = "exp" => pcF = "exp",
           NEW w \in Nested, Answer(w, NoMasks, 0), 
           w = "debugText" => req.what \in {"exp", "debug"} \/ unfinished,
           UNCHANGED <<hostVars, toFpga, accepted, serving, req, unfinished>>
    PROVE  OwnerSpeaks' /\ Unread' /\ Reads' /\ Conversation'
<1>1. Reads'
  BY DEF InStep, Reads, AtMostOne
<1>2. CASE up /\ Connected
  <2>1. Served /\ session \in Session
    BY <1>2, FpgaTurn
  <2>2. PICK r \in ToHost : r.what = w /\ toHost' = [toHost EXCEPT ![session] = <<r>>]
    BY <1>2, <2>1, AnswerIs, MasksExist, ZeroIsId DEF Served, Silent
  <2>3. toHost'[session] = <<r>> /\ \A s \in Session : s # session => toHost'[s] = toHost[s]
    BY <2>1, <2>2 DEF InStep, Typed, TypeOK
  <2>4. Unread'
    BY <1>2, <2>3 DEF InStep, Unread, AtMostOne, hostVars
  <2>5. Fits(r)' /\ SentBy(r)'
    BY <1>2, <2>1, <2>2 DEF Served, Wanted, Fits, SentBy, Halted, Connected, Nested, Final, hostVars
  <2>6. Told'
    BY <2>1, <2>3, <2>5 DEF Told, Served, Waits, Silent, hostVars
  <2> QED
    BY <1>1, <2>4, <2>6, FpgaSilent DEF InStep, Conversation
<1>3. CASE ~(up /\ Connected)
  <2>1. toHost' = toHost
    BY <1>3, AnswerIs, MasksExist, ZeroIsId
  <2>2. Unread'
    BY <2>1 DEF InStep, Unread, AtMostOne, hostVars
  <2>3. Conversation'
    BY <1>3, <2>1, FpgaAside
  <2> QED
    BY <1>1, <2>2, <2>3, FpgaSilent DEF InStep
<1> QED
  BY <1>2, <1>3

LEMMA HaltsInStep == InStep /\ Marked /\ (Greet \/ SendNested \/ FlushDebugText) => InStep'
<1>1. ASSUME InStep, Greet PROVE InStep'
  <2>1. /\ pcF = "run" /\ pcF' = "ack" /\ resume' = "run" /\ Answer("info", NoMasks, 0)
        /\ UNCHANGED <<hostVars, toFpga, accepted, serving, req, unfinished>>
    BY <1>1 DEF Greet
  <2> QED
    BY <1>1, <2>1, Halting, GreetTyped DEF InStep, Nested
<1>2. ASSUME InStep, Marked, SendNested PROVE InStep'
  <2>1. PICK w \in Nested : (w = "debugText" => bDebugPulses) /\ Answer(w, NoMasks, 0)
    BY <1>2 DEF SendNested
  <2>2. /\ pcF \in {"run", "exp"} /\ pcF' = "ack" /\ resume' = pcF
        /\ UNCHANGED <<hostVars, toFpga, accepted, serving, req, unfinished>>
    BY <1>2 DEF SendNested, Serves
  <2>3. w = "debugText" => req.what \in {"exp", "debug"} \/ unfinished
    BY <1>2, <2>1, <2>2 DEF Marked, InStep, Reads
  <2> QED
    BY <1>2, <2>1, <2>2, <2>3, Halting, SendNestedTyped DEF InStep
<1>3. ASSUME InStep, FlushDebugText PROVE InStep'
  <2>1. /\ pcF = "exp" /\ pcF' = "ack" /\ Answer("debugText", NoMasks, 0)
        /\ UNCHANGED <<hostVars, toFpga, accepted, serving, req, unfinished>>
    BY <1>3 DEF FlushDebugText
  <2>2. req.what \in {"exp", "debug"}
    BY <1>3, <2>1 DEF InStep, Reads
  <2> QED
    BY <1>3, <2>1, <2>2, Halting, FlushDebugTextTyped DEF InStep, Nested
<1> QED
  BY <1>1, <1>2, <1>3

\* A message is taken from a stream that holds just this one.
LEMMA ReadIs ==
    ASSUME InStep, pcF \in {"rcv", "ack"}, Read
    PROVE  /\ serving \in Session /\ serving # 0
           /\ \E m \in ToFpga :
                /\ toFpga[serving] = <<m>> /\ Head(toFpga[serving]) = m
                /\ pcF = "rcv" => m.what \in Request
                /\ toFpga' = [toFpga EXCEPT ![serving] = <<>>]
           /\ toFpga'[serving] = <<>> /\ toFpga[serving] # <<>>
           /\ \A s \in Session : s # serving => toFpga'[s] = toFpga[s]
<1>1. serving \in Session /\ serving # 0
  BY ServingIsSession DEF InStep, Session
<1>2. PICK m \in ToFpga : toFpga[serving] = <<m>> /\ (pcF = "rcv" => m.what \in Request)
  BY <1>1 DEF InStep, Reads, AtMostOne, Read
<1>3. Head(toFpga[serving]) = m /\ Tail(toFpga[serving]) = <<>>
  BY <1>2, OneMessage
<1>4. toFpga' = [toFpga EXCEPT ![serving] = <<>>] /\ toFpga[serving] # <<>>
  BY <1>3 DEF Read
<1>5. toFpga'[serving] = <<>> /\ \A s \in Session : s # serving => toFpga'[s] = toFpga[s]
  BY <1>1, <1>4 DEF InStep, Typed, TypeOK
<1> QED
  BY <1>1, <1>2, <1>3, <1>4, <1>5

\* Reading leaves nothing but what was sent to other connections.
LEMMA ReadKeepsUnread ==
    ASSUME InStep, pcF \in {"rcv", "ack"}, Read, UNCHANGED <<hostVars, toHost, accepted, serving>>
    PROVE  Unread'
<1>1. \A s \in Session : toFpga'[s] = <<>> \/ toFpga'[s] = toFpga[s]
  BY ReadIs
<1> QED
  BY <1>1 DEF InStep, Unread, AtMostOne, hostVars

LEMMA RcvInStep == InStep /\ Rcv => InStep'
<1> SUFFICES ASSUME InStep, Rcv PROVE InStep'
  OBVIOUS
<1>1. /\ pcF = "rcv" /\ pcF' = "run" /\ Read /\ req' = Head(toFpga[serving])
      /\ UNCHANGED <<hostVars, toHost, accepted, serving>>
  BY DEF Rcv
<1>2. PICK m \in ToFpga : toFpga[serving] = <<m>> /\ req' = m /\ m.what \in Request
  BY <1>1, ReadIs
<1>3. serving \in Session /\ serving # 0 /\ toFpga'[serving] = <<>> /\ toFpga[serving] # <<>>
      /\ \A s \in Session : s # serving => toFpga'[s] = toFpga[s]
  BY <1>1, ReadIs
<1>4. Reads'
  BY <1>1, <1>2, <1>3 DEF Reads
<1>5. CASE up /\ Connected
  <2>1. Asked
    BY <1>1, <1>3, <1>5, FpgaTurn DEF Connected
  <2>2. PICK n \in ToFpga : toFpga[session] = <<n>> /\ Wanted(n.what, n.id)
    BY <2>1 DEF Asked
  <2>3. m = n
    BY <1>2, <1>5, <2>2 DEF Connected
  <2>4. Served'
    BY <1>1, <1>2, <1>3, <1>5, <2>1, <2>2, <2>3
       DEF Asked, Served, Waits, Silent, Connected, Wanted, hostVars
  <2> QED
    BY <1>1, <1>4, <2>4, FpgaSilent, ReadKeepsUnread, RcvTyped DEF InStep, Conversation
<1>6. CASE ~(up /\ Connected)
  <2>1. CASE Connected
    BY <1>1, <1>4, <1>6, <2>1, FpgaSilent, ReadKeepsUnread, RcvTyped
       DEF InStep, Conversation, hostVars
  <2>2. CASE ~Connected
    <3>1. toFpga'[session] = toFpga[session]
      BY <1>3, <2>2 DEF Connected, InStep, Typed, TypeOK
    <3>2. Conversation'
      BY <1>1, <1>6, <3>1, FpgaAside
    <3> QED
      BY <1>1, <1>4, <3>2, FpgaSilent, ReadKeepsUnread, RcvTyped DEF InStep
  <2> QED
    BY <2>1, <2>2
<1> QED
  BY <1>5, <1>6

LEMMA RcvAckInStep == InStep /\ RcvAck => InStep'
<1> SUFFICES ASSUME InStep, RcvAck PROVE InStep'
  OBVIOUS
<1>1. /\ pcF = "ack" /\ pcF' = resume /\ pcF' \in {"run", "exp"} /\ Read
      /\ UNCHANGED <<hostVars, toHost, accepted, serving, req>>
  BY DEF RcvAck, InStep, Typed, TypeOK
<1>2. serving \in Session /\ serving # 0 /\ toFpga'[serving] = <<>> /\ toFpga[serving] # <<>>
      /\ \A s \in Session : s # serving => toFpga'[s] = toFpga[s]
  BY <1>1, ReadIs
<1>3. Reads'
  BY <1>1, <1>2 DEF InStep, Reads
<1>4. CASE up /\ Connected
  <2>1. Acked
    BY <1>1, <1>2, <1>4, FpgaTurn DEF Connected
  <2>2. Served'
    BY <1>1, <1>2, <1>4, <2>1 DEF Acked, Halted, Served, Waits, Silent, Connected, Wanted, hostVars
  <2> QED
    BY <1>1, <1>3, <2>2, FpgaSilent, ReadKeepsUnread, RcvAckTyped DEF InStep, Conversation
<1>5. CASE ~(up /\ Connected)
  <2>1. CASE Connected
    BY <1>1, <1>3, <1>5, <2>1, FpgaSilent, ReadKeepsUnread, RcvAckTyped
       DEF InStep, Conversation, hostVars
  <2>2. CASE ~Connected
    <3>1. toFpga'[session] = toFpga[session]
      BY <1>2, <2>2 DEF Connected, InStep, Typed, TypeOK
    <3>2. Conversation'
      BY <1>1, <1>5, <3>1, FpgaAside
    <3> QED
      BY <1>1, <1>3, <3>2, FpgaSilent, ReadKeepsUnread, RcvAckTyped DEF InStep
  <2> QED
    BY <2>1, <2>2
<1> QED
  BY <1>4, <1>5

LEMMA SpinInStep == InStep /\ Spin => InStep'
<1> SUFFICES ASSUME InStep, Spin PROVE InStep'
  OBVIOUS
<1>1. /\ pcF' = "spin" /\ toFpga[serving] = <<>>
      /\ UNCHANGED <<hostVars, netVars, serving, req, unfinished>>
  BY DEF Spin
<1>2. ~(up /\ Connected)
  BY DEF Spin, PeerGone, Connected
<1>3. Conversation'
  BY <1>1, <1>2, FpgaAside DEF netVars
<1>4. Unread'
  BY <1>1 DEF InStep, Unread, AtMostOne, hostVars, netVars
<1>5. Reads'
  BY <1>1 DEF InStep, Reads, netVars
<1> QED
  BY <1>1, <1>3, <1>4, <1>5, FpgaSilent, SpinTyped DEF InStep

LEMMA AcceptInStep == InStep /\ Accept => InStep'
<1> SUFFICES ASSUME InStep, Accept PROVE InStep'
  OBVIOUS
<1>1. /\ accepted' = accepted + 1 /\ serving' = accepted' /\ pcF' = "rcv" /\ accepted < session
      /\ accepted \in Nat /\ session \in Nat /\ serving' \in Session /\ serving \in {0, accepted}
      /\ UNCHANGED <<hostVars, toFpga, toHost, req>>
  BY LinkAssumption DEF Accept, InStep, Typed, TypeOK, Placed, Session
<1>2. pcF = "accept" /\ serving = 0
  BY DEF Accept, InStep, Typed, Placed
<1>3. Reads'
  <2>1. AtMostOne(Request, toFpga[serving'])
    BY <1>1 DEF InStep, Unread
  <2> QED
    BY <1>1, <2>1 DEF InStep, Reads, AtMostOne
<1>4. Unread'
  BY <1>1 DEF InStep, Unread, AtMostOne, hostVars, Session
<1>5. Conversation'
  <2>1. Pending /\ ~Connected /\ ~Broken
    BY <1>1, <1>2 DEF Pending, Connected, Broken, InStep, Typed, TypeOK, Session
  <2>2. up => NoCall \/ Asked
    BY <2>1 DEF InStep, Conversation, Served, Told, Heard, Acking, Acked, Lost, SentBy
  <2>3. Pending' \/ Connected'
    BY <1>1 DEF Pending, Connected, hostVars
  <2>4. NoCall => NoCall'
    BY <1>1 DEF NoCall, Silent, Connected, hostVars
  <2>5. Asked => Asked'
    BY <1>1, <2>3 DEF Asked, Waits, Wanted, hostVars
  <2> QED
    BY <1>1, <2>2, <2>4, <2>5 DEF Conversation, hostVars
<1> QED
  BY <1>1, <1>3, <1>4, <1>5, FpgaSilent, AcceptTyped DEF InStep

LEMMA ReplyInStep == InStep /\ Reply => InStep'
<1> SUFFICES ASSUME InStep, Reply PROVE InStep'
  OBVIOUS
<1>1. /\ pcF = "reply" /\ req' = NoRequest
      /\ \/ pcF' = "rcv" /\ serving' = serving
         \/ pcF' = "accept" /\ serving' = 0
      /\ UNCHANGED <<hostVars, toFpga, accepted, unfinished>>
  BY DEF Reply
<1>2. PICK m \in Masks : Answer(reply, m, req.id)
  BY MasksExist DEF Reply, InStep, Typed, TypeOK
<1>3. reply \in Final /\ req.id \in 0 .. IdRange - 1
  BY DEF InStep, Typed, TypeOK, ToFpga
<1>4. Reads'
  <2>1. serving # 0 => toFpga[serving] = <<>>
    BY <1>1 DEF InStep, Reads
  <2> QED
    BY <1>1, <2>1, NoneAreMessages DEF Reads, AtMostOne, Request
<1>5. CASE up /\ Connected
  <2>1. Served /\ session \in Session /\ accepted = session
    BY <1>1, <1>5, FpgaTurn
  <2>2. PICK r \in ToHost : /\ r.what = reply /\ r.id = req.id
                            /\ toHost' = [toHost EXCEPT ![session] = <<r>>]
    BY <1>2, <1>3, <1>5, <2>1, AnswerIs DEF Served, Silent
  <2>3. toHost'[session] = <<r>> /\ \A s \in Session : s # session => toHost'[s] = toHost[s]
    BY <2>1, <2>2 DEF InStep, Typed, TypeOK
  <2>4. Unread'
    BY <1>1, <1>5, <2>3 DEF InStep, Unread, AtMostOne, hostVars
  <2>5. Fits(r)'
    BY <1>1, <1>3, <2>1, <2>2 DEF Served, Wanted, Fits, Final, hostVars
  <2>6. SentBy(r)'
    <3>1. session' = session /\ session # 0 /\ session <= accepted'
      BY <1>1, <2>1, LinkAssumption DEF Session, hostVars
    <3>2. (Connected /\ pcF = "rcv")' \/ Broken'
      BY <1>1, <1>5, <3>1 DEF Connected, Broken
    <3> QED
      BY <1>3, <2>2, <3>2 DEF SentBy
  <2>7. Told'
    BY <1>1, <2>1, <2>3, <2>5, <2>6 DEF Told, Served, Waits, Silent, hostVars
  <2> QED
    BY <1>1, <1>4, <2>4, <2>7, FpgaSilent, ReplyTyped DEF InStep, Conversation
<1>6. CASE ~(up /\ Connected)
  <2>1. toHost' = toHost
    BY <1>2, <1>3, <1>6, AnswerIs
  <2>2. Unread'
    BY <1>1, <2>1 DEF InStep, Unread, AtMostOne, hostVars
  <2>3. Conversation'
    <3>1. CASE serving' = serving
      BY <1>1, <1>6, <2>1, <3>1, FpgaAside
    <3>2. CASE serving' = 0 /\ ~Connected
      <4>1. session # 0 /\ session' = session
        BY <1>1, LinkAssumption DEF InStep, Typed, TypeOK, Session, hostVars
      <4>2. ~Connected' /\ (Broken => Broken') /\ (Pending => Pending')
        BY <1>1, <3>2, <4>1 DEF Connected, Broken, Pending
      <4>3. /\ NoCall => NoCall'
            /\ Asked => Asked'
            /\ Lost => Lost'
        BY <1>1, <2>1, <3>2, <4>2 DEF NoCall, Asked, Lost, Waits, Silent, Wanted, hostVars
      <4>4. /\ Told => Told'
            /\ Heard => Heard'
            /\ Acking => Acking'
        BY <1>1, <2>1, <3>2, <4>2 DEF Told, Heard, Acking, Waits, Silent, Fits, SentBy, hostVars
      <4> QED
        BY <1>1, <3>2, <4>3, <4>4 DEF InStep, Conversation, Served, Acked, hostVars
    <3>3. CASE ~up
      BY <1>1, <3>3 DEF Conversation, hostVars
    <3> QED
      BY <1>1, <1>6, <3>1, <3>2, <3>3
  <2> QED
    BY <1>1, <1>4, <2>2, <2>3, FpgaSilent, ReplyTyped DEF InStep
<1> QED
  BY <1>5, <1>6

LEMMA FpgaResetInStep == InStep /\ FpgaReset => InStep'
<1> SUFFICES ASSUME InStep, FpgaReset PROVE InStep'
  OBVIOUS
<1>1. /\ pcF' = "accept" /\ serving' = 0 /\ accepted' = session /\ req' = NoRequest
      /\ session \in Session /\ session # 0 /\ session \in Nat
      /\ UNCHANGED <<hostVars, toHost, unfinished>>
  BY LinkAssumption DEF FpgaReset, InStep, Typed, TypeOK, Session
<1>2. \A s \in Session : toFpga'[s] = <<>>
  BY DEF FpgaReset
<1>3. Reads'
  BY <1>1, NoneAreMessages DEF Reads, Request
<1>4. Unread'
  BY <1>1, <1>2 DEF InStep, Unread, AtMostOne, hostVars
<1>5. Conversation'
  <2>1. ~Connected' /\ Broken' /\ session' = session
    BY <1>1 DEF Connected, Broken, hostVars
  <2>2. toFpga'[session] = <<>>
    BY <1>1, <1>2
  <2>3. /\ NoCall => NoCall'
        /\ Asked \/ Served \/ Acked \/ Lost => Lost'
        /\ Acking => Acking'
    BY <1>1, <2>1, <2>2
       DEF NoCall, Asked, Served, Acked, Lost, Acking, Waits, Silent, hostVars
  <2>4. /\ Told => Told'
        /\ Heard => Heard'
    BY <1>1, <2>1, <2>2 DEF Told, Heard, Waits, Silent, Fits, SentBy, hostVars
  <2> QED
    BY <1>1, <2>3, <2>4 DEF InStep, Conversation, hostVars
<1> QED
  BY <1>1, <1>3, <1>4, <1>5, FpgaSilent, FpgaResetTyped DEF InStep

LEMMA StepMarked == Marked /\ [Next]_vars => Marked'
<1> SUFFICES ASSUME Marked, [Next]_vars PROVE Marked'
  OBVIOUS
<1>1. CASE UNCHANGED <<fpgaVars, unfinished>>
  BY <1>1 DEF Marked, fpgaVars
<1>2. ASSUME NEW c \in Client,
             StartCall(c) \/ HostStep(c) \/ (\E b \in Switches[c] : SetLogicState(c, b))
      PROVE  UNCHANGED <<fpgaVars, unfinished>>
  BY <1>2 DEF StartCall, HostStep, TakeLock, Send, Receive, Acknowledge, Return, Aborts, HostEnds,
              SetLogicState
<1>3. CASE Close \/ Closed \/ LinkLost \/ HostKilled \/ HostStarts \/ UNCHANGED vars
  <2>1. UNCHANGED <<fpgaVars, unfinished>>
    BY <1>3 DEF Close, Closed, LinkLost, HostKilled, HostStarts, HostEnds, vars
  <2> QED
    BY <1>1, <2>1
<1>4. CASE FpgaStep
  <2>1. CASE Accept \/ Rcv \/ RcvAck \/ Spin \/ Greet \/ Reply
    BY <2>1 DEF Marked, Accept, Rcv, RcvAck, Spin, Greet, Reply
  <2>2. CASE ServeCall \/ ServeGetTTL \/ ServeSetTTL
    BY <2>2 DEF Marked, ServeCall, ServeGetTTL, ServeSetTTL, Serves, Executed
  <2>3. CASE StartExperiment \/ FlushDebugText
    BY <2>3 DEF Marked, StartExperiment, FlushDebugText
  <2>4. CASE SendNested
    BY <2>4 DEF Marked, SendNested, Serves
  <2>5. CASE FinishExperiment
    BY <2>5 DEF Marked, FinishExperiment, Executed
  <2> QED
    BY <1>4, <2>1, <2>2, <2>3, <2>4, <2>5 DEF FpgaStep
<1>5. CASE FpgaReset
  BY <1>5 DEF Marked, FpgaReset
<1> QED
  BY <1>1, <1>2, <1>3, <1>4, <1>5 DEF Next, Over

LEMMA StepInStep == InStep /\ Marked /\ [Next]_vars => InStep' /\ Marked'
<1> SUFFICES ASSUME InStep, Marked, [Next]_vars PROVE InStep'
  BY StepMarked
<1>1. ASSUME NEW c \in Client, StartCall(c) \/ HostStep(c) PROVE InStep'
  <2>1. CASE Aborts(c)
    BY <2>1, HostEndsInStep, StepTyped DEF Aborts, InStep
  <2> QED
    BY <1>1, <2>1, StartCallInStep, TakeLockInStep, SendInStep, ReceiveInStep, AcknowledgeInStep,
       ReturnInStep DEF HostStep
<1>2. ASSUME NEW c \in Client, NEW b \in Switches[c], SetLogicState(c, b) PROVE InStep'
  BY <1>2, SetLogicStateInStep
<1>3. CASE Close
  BY <1>3, CloseInStep
<1>4. CASE Closed \/ LinkLost \/ HostKilled
  <2>1. HostEnds
    BY <1>4 DEF Closed, LinkLost, HostKilled
  <2>2. Typed'
    BY StepTyped DEF InStep
  <2> QED
    BY <2>1, <2>2, HostEndsInStep
<1>5. CASE HostStarts
  BY <1>5, HostStartsInStep
<1>6. CASE FpgaStep
  BY <1>6, AcceptInStep, RcvInStep, RcvAckInStep, SpinInStep, HaltsInStep, ServeInStep,
     StartExperimentInStep, FinishExperimentInStep, ReplyInStep DEF FpgaStep
<1>7. CASE FpgaReset
  BY <1>7, FpgaResetInStep
<1>8. CASE UNCHANGED vars
  <2>1. UNCHANGED <<hostVars, netVars, fpgaVars, unfinished>>
    BY <1>8 DEF vars
  <2>2. Conversation'
    BY <2>1, SameConversation DEF InStep, hostVars, fpgaVars
  <2>3. Unread'
    BY <2>1 DEF InStep, Unread, AtMostOne, hostVars, netVars
  <2>4. Reads'
    BY <2>1 DEF InStep, Reads, AtMostOne, netVars, fpgaVars
  <2>5. Typed'
    BY StepTyped DEF InStep
  <2> QED
    BY <2>1, <2>2, <2>3, <2>4, <2>5, FpgaSilent DEF InStep
<1> QED
  BY <1>1, <1>2, <1>3, <1>4, <1>5, <1>6, <1>7, <1>8 DEF Next, Over

\* Whatever arrives is what its receiver takes it for: a reply answers the request of
\* the thread that gets it, the FPGA takes no acknowledgement for a request nor a request
\* for an acknowledgement, and debug text arrives at a thread that runs no experiment,
\* where an assertion ends the program, only after a debug experiment ended by an exception
\* and no other was started; for any number of threads and starts of the program, any range
\* of ids, however the program is killed and the FPGA reset.
\* Code: doXferWaitForAck, DispatchMsg, message_loop, host_interface::send_message, init_exp.
THEOREM MessagesMatch == Spec => []MessagesInStep
BY InitInStep, StepInStep, InStepSuffices, PTL DEF Spec

-----------------------------------------------------------------------------
(* The link implements remote function calls. *)

\* How often the request was executed when the FPGA sends r.
TimesTold(r) == IF r.what \in Final THEN 1 ELSE 0

\* How often the request of the owner was executed is told by where the conversation is.
Counted ==
    up /\ owner # Nil =>
      /\ pcC[owner] = "post" => executions = 0
      /\ pcC[owner] = "got" => executions = TimesTold(in)
      /\ pcC[owner] = "wait" =>
           /\ executions \in {0, 1}
           /\ toFpga[session] # <<>> => executions = 0
           /\ \A r \in ToHost : toHost[session] = <<r>> => executions = TimesTold(r)
           /\ Connected /\ Silent => executions = (IF pcF = "reply" THEN 1 ELSE 0)

\* What the threads know of their calls.
Phase == [c \in Client |-> PhaseOf(c)]

IInv == InStep /\ Marked /\ Counted

\* A step of the abstract specification, or none.
CallsStep == Calls!Next \/ UNCHANGED <<up, Phase>>

LEMMA InitCalls == Init => Counted /\ Calls!Init
<1> SUFFICES ASSUME Init PROVE Counted /\ Calls!Init
  OBVIOUS
<1>1. owner = Nil /\ up = TRUE
  BY DEF Init
<1>2. \A c \in Client : PhaseOf(c) = "idle"
  BY <1>1, LinkAssumption DEF PhaseOf
<1> QED
  BY <1>1, <1>2 DEF Counted, Calls!Init

LEMMA PhaseKept == UNCHANGED <<up, owner, executions>> => CallsStep
BY DEF CallsStep, Phase, PhaseOf

LEMMA CountedKept ==
    ASSUME Counted, UNCHANGED <<up, session, owner, in, executions, netVars, pcF, serving>>,
           owner # Nil => pcC'[owner] = pcC[owner]
    PROVE  Counted'
<1>1. CASE owner = Nil
  BY <1>1 DEF Counted
<1>2. CASE owner # Nil
  <2>1. pcC'[owner] = pcC[owner]
    BY <1>2
  <2> QED
    BY <2>1 DEF Counted, TimesTold, Connected, Silent, netVars
<1> QED
  BY <1>1, <1>2

LEMMA CallBeginsCounted ==
    ASSUME IInv, NEW c \in Client, pcC[c] = "idle", pcC' = [pcC EXCEPT ![c] = "lock"],
           UNCHANGED <<up, session, owner, in, executions, netVars, fpgaVars>>
    PROVE  Counted' /\ CallsStep
<1>1. owner # c
  BY DEF IInv, InStep, OwnerSpeaks
<1>2. owner # Nil => pcC'[owner] = pcC[owner]
  BY <1>1 DEF IInv, InStep, Typed, TypeOK
<1> QED
  BY <1>2, PhaseKept, CountedKept DEF IInv, fpgaVars

LEMMA TakeLockCounted == ASSUME IInv, NEW c \in Client, TakeLock(c) PROVE Counted' /\ CallsStep
<1>1. /\ owner = Nil /\ owner' = c /\ c # Nil /\ executions' = 0 /\ pcC'[c] = "post" /\ up' = up /\ up
  BY LinkAssumption DEF TakeLock, At, IInv, InStep, Typed, TypeOK, Placed
<1>2. Counted'
  BY <1>1 DEF Counted
<1>3. \A d \in Client : PhaseOf(d) = "idle"
  BY <1>1, LinkAssumption DEF PhaseOf
<1>4. \A d \in Client : PhaseOf(d)' = (IF d = c THEN "called" ELSE "idle")
  BY <1>1 DEF PhaseOf
<1>5. Calls!Call(c)
  BY <1>1, <1>3, <1>4 DEF Calls!Call, Calls!Move
<1> QED
  BY <1>2, <1>5 DEF CallsStep, Calls!Next

LEMMA SendCounted == ASSUME IInv, NEW c \in Client, Send(c) PROVE Counted' /\ CallsStep
<1>1. /\ pcC[c] = "post" /\ pcC'[c] = "wait"
      /\ UNCHANGED <<up, session, owner, executions, toHost>>
  BY DEF Send, At, IInv, InStep, Typed, TypeOK
<1>2. owner = c /\ owner # Nil /\ session \in Session /\ up /\ (NoCall \/ Acking)
  BY <1>1, InExchange DEF IInv
<1>3. executions = 0 /\ toHost[session] = <<>>
  BY <1>1, <1>2 DEF IInv, Counted, NoCall, Acking, Silent
<1>4. toFpga'[session] # <<>>
  <2>1. PICK m \in ToFpga : m = Message(out, msgId, seen[c])
    BY RequestIsMessage DEF IInv, InStep, Typed, TypeOK
  <2>2. toFpga[session] = <<>> /\ toFpga[session] \in Seq(ToFpga)
    BY <1>2 DEF NoCall, Acking, Silent, IInv, InStep, Typed, TypeOK
  <2>3. Append(toFpga[session], m) = <<m>> /\ <<m>> # <<>>
    BY <2>2, QueueIs, OneMessage
  <2> QED
    BY <1>2, <2>1, <2>3 DEF Send, IInv, InStep, Typed, TypeOK
<1>5. \A r \in ToHost : toHost'[session] # <<r>>
  BY <1>1, <1>3, OneMessage
<1>6. Counted'
  BY <1>1, <1>2, <1>3, <1>4, <1>5 DEF Counted, Silent
<1> QED
  BY <1>1, <1>6, PhaseKept

LEMMA ReceiveCounted == ASSUME IInv, NEW c \in Client, Receive(c) PROVE Counted' /\ CallsStep
<1>1. /\ pcC[c] = "wait" /\ pcC'[c] = "got" /\ toHost[session] # <<>> /\ in' = Head(toHost[session])
      /\ UNCHANGED <<up, session, owner, executions>>
  BY DEF Receive, At, IInv, InStep, Typed, TypeOK
<1>2. owner = c /\ owner # Nil /\ up /\ Told
  BY <1>1, InExchange DEF IInv, Asked, Served, Told, Acked, Lost, Silent
<1>3. PICK r \in ToHost : toHost[session] = <<r>>
  BY <1>2 DEF Told
<1>4. in' = r
  BY <1>1, <1>3, OneMessage
<1>5. executions = TimesTold(r)
  BY <1>1, <1>2, <1>3 DEF IInv, Counted
<1>6. Counted'
  BY <1>1, <1>2, <1>4, <1>5 DEF Counted, TimesTold
<1> QED
  BY <1>1, <1>6, PhaseKept

LEMMA AcknowledgeCounted == ASSUME IInv, NEW c \in Client, Acknowledge(c) PROVE Counted' /\ CallsStep
<1>1. /\ pcC[c] = "got" /\ pcC'[c] = "post" /\ in.what \in Nested
      /\ UNCHANGED <<up, owner, executions>>
  BY DEF Acknowledge, At, IInv, InStep, Typed, TypeOK
<1>2. owner = c /\ owner # Nil /\ up
  BY <1>1, InExchange DEF IInv
<1>3. executions = 0
  BY <1>1, <1>2 DEF IInv, Counted, TimesTold, Nested, Final
<1>4. Counted'
  BY <1>1, <1>2, <1>3 DEF Counted
<1> QED
  BY <1>1, <1>4, PhaseKept

LEMMA ReturnCounted == ASSUME IInv, NEW c \in Client, Return(c) PROVE Counted' /\ CallsStep
<1>1. pcC[c] = "got" /\ in.what \in Final /\ owner' = Nil /\ up' = up
  BY DEF Return
<1>2. owner = c /\ owner # Nil /\ up
  BY <1>1, InExchange DEF IInv
<1>3. executions = 1
  BY <1>1, <1>2 DEF IInv, Counted, TimesTold
<1>4. Counted'
  BY <1>1 DEF Counted
<1>5. \A d \in Client : PhaseOf(d) = (IF d = c THEN "executed" ELSE "idle")
  BY <1>2, <1>3 DEF PhaseOf
<1>6. \A d \in Client : PhaseOf(d)' = "idle"
  BY <1>1, LinkAssumption DEF PhaseOf
<1>7. Calls!Return(c)
  BY <1>1, <1>2, <1>5, <1>6 DEF Calls!Return, Calls!Move
<1> QED
  BY <1>4, <1>7 DEF CallsStep, Calls!Next

LEMMA HostEndsCounted == ASSUME up, HostEnds PROVE Counted' /\ CallsStep
<1>1. up' = FALSE /\ owner' = Nil
  BY DEF HostEnds
<1>2. Counted'
  BY <1>1 DEF Counted
<1>3. \A d \in Client : PhaseOf(d)' = "idle"
  BY <1>1, LinkAssumption DEF PhaseOf
<1>4. Calls!End
  BY <1>1, <1>3 DEF Calls!End
<1> QED
  BY <1>2, <1>4 DEF CallsStep, Calls!Next

LEMMA HostStartsCounted == IInv /\ HostStarts => Counted' /\ CallsStep
<1> SUFFICES ASSUME IInv, HostStarts PROVE Counted' /\ CallsStep
  OBVIOUS
<1>1. ~up /\ up' = TRUE /\ UNCHANGED <<owner, executions>>
  BY DEF HostStarts
<1>2. owner' = Nil
  BY <1>1 DEF IInv, InStep, Typed, Placed
<1>3. Calls!Start
  BY <1>1 DEF Calls!Start, PhaseOf
<1> QED
  BY <1>2, <1>3 DEF Counted, CallsStep, Calls!Next

\* What the FPGA does for others, or when it is reset, does not execute the request.
LEMMA CountedAside ==
    ASSUME IInv, UNCHANGED <<hostVars, executions>>,
           up => /\ ~Connected' /\ toHost'[session] = toHost[session]
                 /\ toFpga'[session] \in {<<>>, toFpga[session]}
    PROVE  Counted' /\ CallsStep
<1>1. UNCHANGED <<up, session, owner, pcC, in>>
  BY DEF hostVars
<1>2. CallsStep
  BY <1>1, PhaseKept
<1>3. CASE up
  BY <1>1, <1>2, <1>3 DEF IInv, Counted, TimesTold
<1>4. CASE ~up
  BY <1>1, <1>2, <1>4 DEF Counted
<1> QED
  BY <1>2, <1>3, <1>4

LEMMA AcceptCounted == IInv /\ Accept => Counted' /\ CallsStep
<1> SUFFICES ASSUME IInv, Accept PROVE Counted' /\ CallsStep
  OBVIOUS
<1>1. /\ accepted < session /\ accepted \in Nat /\ session \in Nat /\ session # 0 /\ serving = 0
      /\ UNCHANGED <<up, session, owner, pcC, in, toFpga, toHost, executions>>
  BY LinkAssumption DEF Accept, hostVars, IInv, InStep, Typed, TypeOK, Placed, Session
<1>2. ~Connected /\ ~Broken
  BY <1>1 DEF Connected, Broken
<1>3. up /\ owner # Nil /\ pcC[owner] = "wait" => toFpga[session] # <<>>
  <2>1. up /\ owner # Nil /\ pcC[owner] = "wait" => Asked
    BY <1>2 DEF IInv, InStep, Conversation, NoCall, Served, Told, Heard, Acking, Acked, Lost, SentBy
  <2> QED
    BY <2>1, OneMessage DEF Asked
<1>4. Counted'
  BY <1>1, <1>3 DEF IInv, Counted, TimesTold, Silent
<1> QED
  BY <1>1, <1>4, PhaseKept

LEMMA ReadCounted ==
    ASSUME IInv, Rcv \/ RcvAck
    PROVE  Counted' /\ CallsStep
<1>1. /\ pcF \in {"rcv", "ack"} /\ pcF' \in {"run", "exp"} /\ Read
      /\ UNCHANGED <<hostVars, toHost, accepted, serving, executions>>
  BY DEF Rcv, RcvAck, IInv, InStep, Typed, TypeOK
<1>2. serving \in Session /\ toFpga'[serving] = <<>> /\ toFpga[serving] # <<>>
      /\ \A s \in Session : s # serving => toFpga'[s] = toFpga[s]
  BY <1>1, ReadIs DEF IInv
<1>3. CASE up /\ Connected
  <2>1. Asked \/ Acked
    BY <1>1, <1>2, <1>3, FpgaTurn DEF IInv, Connected
  <2>2. owner # Nil /\ pcC[owner] = "wait" /\ toHost[session] = <<>> /\ executions = 0
    BY <1>2, <1>3, <2>1 DEF Asked, Acked, Waits, IInv, Counted, Connected
  <2>3. \A r \in ToHost : toHost[session] # <<r>>
    BY <2>2, OneMessage
  <2>4. Counted'
    BY <1>1, <1>2, <1>3, <2>2, <2>3 DEF Counted, Connected, hostVars
  <2> QED
    BY <1>1, <2>4, PhaseKept DEF hostVars
<1>4. CASE ~(up /\ Connected)
  <2>1. up => ~Connected' /\ toFpga'[session] = toFpga[session]
    BY <1>1, <1>2, <1>4 DEF Connected, hostVars, IInv, InStep, Typed, TypeOK
  <2> QED
    BY <1>1, <2>1, CountedAside
<1> QED
  BY <1>3, <1>4

LEMMA SpinCounted == IInv /\ Spin => Counted' /\ CallsStep
<1> SUFFICES ASSUME IInv, Spin PROVE Counted' /\ CallsStep
  OBVIOUS
<1>1. ~(up /\ Connected) /\ UNCHANGED <<hostVars, netVars, serving, executions>>
  BY DEF Spin, PeerGone, Connected
<1>2. up => ~Connected'
  BY <1>1 DEF Connected, hostVars
<1> QED
  BY <1>1, <1>2, CountedAside DEF netVars

\* The FPGA executes the request, or works on it.
LEMMA ServingCounted ==
    ASSUME IInv, pcF \in {"run", "exp"},
           \/ pcF' = "exp" /\ executions' = executions
           \/ pcF' = "reply" /\ executions' = (IF PeerGone THEN executions ELSE executions + 1),
           UNCHANGED <<hostVars, netVars, serving>>
    PROVE  Counted' /\ CallsStep
<1>1. CASE up /\ Connected
  <2>1. Served /\ owner # Nil /\ pcC[owner] = "wait" /\ Silent
    BY <1>1, FpgaTurn DEF IInv, Served, Waits
  <2>2. executions = 0 /\ owner \in Client
    BY <1>1, <2>1 DEF IInv, Counted, InStep, Typed, TypeOK
  <2>3. executions' = (IF pcF' = "reply" THEN 1 ELSE 0)
    BY <1>1, <2>2 DEF PeerGone, Connected
  <2>4. \A r \in ToHost : toHost[session] # <<r>>
    BY <2>1, OneMessage DEF Silent
  <2>5. Counted'
    BY <2>1, <2>3, <2>4 DEF Counted, Silent, hostVars, netVars
  <2>6. CASE pcF' = "exp"
    BY <2>2, <2>3, <2>5, <2>6, PhaseKept DEF hostVars
  <2>7. CASE pcF' = "reply"
    <3>1. executions' = 1 /\ UNCHANGED <<up, owner>>
      BY <2>3, <2>7 DEF hostVars
    <3>2. \A d \in Client : PhaseOf(d) = (IF d = owner THEN "called" ELSE "idle")
      BY <2>2 DEF PhaseOf
    <3>3. \A d \in Client : PhaseOf(d)' = (IF d = owner THEN "executed" ELSE "idle")
      BY <3>1 DEF PhaseOf
    <3>4. Calls!Execute(owner)
      BY <1>1, <2>2, <3>1, <3>2, <3>3 DEF Calls!Execute, Calls!Move
    <3> QED
      BY <2>2, <2>5, <3>4 DEF CallsStep, Calls!Next
  <2> QED
    BY <2>6, <2>7
<1>2. CASE ~(up /\ Connected)
  <2>1. executions' = executions /\ (up => ~Connected')
    BY <1>2 DEF PeerGone, Connected, hostVars
  <2> QED
    BY <2>1, CountedAside DEF netVars
<1> QED
  BY <1>1, <1>2

LEMMA ServeCounted ==
    ASSUME IInv, ServeCall \/ ServeGetTTL \/ ServeSetTTL \/ StartExperiment \/ FinishExperiment
    PROVE  Counted' /\ CallsStep
<1>1. pcF \in {"run", "exp"} /\ UNCHANGED <<hostVars, netVars, serving>>
  BY DEF ServeCall, ServeGetTTL, ServeSetTTL, StartExperiment, FinishExperiment, Serves
<1>2. \/ pcF' = "exp" /\ executions' = executions
      \/ pcF' = "reply" /\ executions' = (IF PeerGone THEN executions ELSE executions + 1)
  BY DEF ServeCall, ServeGetTTL, ServeSetTTL, StartExperiment, FinishExperiment, Executed
<1> QED
  BY <1>1, <1>2, ServingCounted

\* The FPGA sends a message of its own before, the reply after it executed the request.
LEMMA TellsCounted ==
    ASSUME IInv, pcF \in {"run", "exp", "reply"},
           NEW w \in Nested \cup Final, w \in Final <=> pcF = "reply",
           NEW m \in Masks, NEW i \in 0 .. IdRange - 1, Answer(w, m, i),
           ~Connected => ~Connected',
           UNCHANGED <<hostVars, toFpga, executions>>
    PROVE  Counted' /\ CallsStep
<1>1. CASE up /\ Connected
  <2>1. Served /\ session \in Session
    BY <1>1, FpgaTurn DEF IInv
  <2>2. owner # Nil /\ pcC[owner] = "wait" /\ Silent
    BY <2>1 DEF Served, Waits
  <2>3. PICK r \in ToHost : r.what = w /\ toHost' = [toHost EXCEPT ![session] = <<r>>]
    BY <1>1, <2>2, AnswerIs DEF IInv, Silent
  <2>4. toHost'[session] = <<r>> /\ executions = TimesTold(r)
    BY <1>1, <2>1, <2>2, <2>3 DEF TimesTold, IInv, Counted, InStep, Typed, TypeOK
  <2>5. \A q \in ToHost : toHost'[session] = <<q>> => q = r
    BY <2>4, OneMessage
  <2>6. <<r>> # <<>> /\ executions \in {0, 1}
    BY <2>4, OneMessage DEF TimesTold
  <2>7. Counted'
    BY <2>2, <2>4, <2>5, <2>6 DEF Counted, Silent, TimesTold, hostVars
  <2> QED
    BY <2>7, PhaseKept DEF hostVars
<1>2. CASE ~(up /\ Connected)
  <2>1. toHost' = toHost /\ (up => ~Connected')
    BY <1>2, AnswerIs DEF IInv
  <2> QED
    BY <2>1, CountedAside
<1> QED
  BY <1>1, <1>2

LEMMA SendNestedCounted ==
    ASSUME IInv, Greet \/ SendNested \/ FlushDebugText
    PROVE  Counted' /\ CallsStep
<1>1. PICK w \in Nested : Answer(w, NoMasks, 0)
  BY DEF Greet, SendNested, FlushDebugText, Nested
<1>2. pcF \in {"run", "exp"} /\ UNCHANGED <<hostVars, toFpga, serving, executions>>
  BY DEF Greet, SendNested, FlushDebugText, Serves
<1>3. ~Connected => ~Connected'
  BY <1>2 DEF Connected, hostVars
<1>4. w \in Nested \cup Final /\ w \notin Final
  BY DEF Nested, Final
<1> QED
  BY <1>1, <1>2, <1>3, <1>4, TellsCounted, MasksExist, ZeroIsId

LEMMA ReplyCounted == IInv /\ Reply => Counted' /\ CallsStep
<1> SUFFICES ASSUME IInv, Reply PROVE Counted' /\ CallsStep
  OBVIOUS
<1>1. pcF = "reply" /\ serving' \in {0, serving} /\ UNCHANGED <<hostVars, toFpga, executions>>
  BY DEF Reply
<1>2. PICK m \in Masks : Answer(reply, m, req.id)
  BY MasksExist DEF Reply, IInv, InStep, Typed, TypeOK
<1>3. reply \in Final /\ reply \in Nested \cup Final /\ req.id \in 0 .. IdRange - 1
  BY DEF IInv, InStep, Typed, TypeOK, ToFpga
<1>4. ~Connected => ~Connected'
  BY <1>1, LinkAssumption DEF Connected, hostVars, IInv, InStep, Typed, TypeOK, Session
<1> QED
  BY <1>1, <1>2, <1>3, <1>4, TellsCounted

LEMMA FpgaResetCounted == IInv /\ FpgaReset => Counted' /\ CallsStep
<1> SUFFICES ASSUME IInv, FpgaReset PROVE Counted' /\ CallsStep
  OBVIOUS
<1>1. serving' = 0 /\ session \in Session /\ session # 0 /\ UNCHANGED <<hostVars, toHost, executions>>
  BY LinkAssumption DEF FpgaReset, IInv, InStep, Typed, TypeOK, Session
<1>2. toFpga'[session] = <<>> /\ ~Connected'
  BY <1>1 DEF FpgaReset, Connected, hostVars
<1> QED
  BY <1>1, <1>2, CountedAside

LEMMA StepCalls == IInv /\ [Next]_vars => Counted' /\ CallsStep
<1> SUFFICES ASSUME IInv, [Next]_vars PROVE Counted' /\ CallsStep
  OBVIOUS
<1>1. ASSUME NEW c \in Client, StartCall(c) PROVE Counted' /\ CallsStep
  <2>1. /\ pcC[c] = "idle" /\ pcC' = [pcC EXCEPT ![c] = "lock"]
        /\ UNCHANGED <<up, session, owner, in, executions, netVars, fpgaVars>>
    BY <1>1 DEF StartCall, At
  <2> QED
    BY <2>1, CallBeginsCounted
<1>2. ASSUME NEW c \in Client, NEW b \in Switches[c], SetLogicState(c, b) PROVE Counted' /\ CallsStep
  <2>1. /\ pcC[c] = "idle" /\ pcC' = [pcC EXCEPT ![c] = "lock"]
        /\ UNCHANGED <<up, session, owner, in, executions, netVars, fpgaVars>>
    BY <1>2 DEF SetLogicState, At
  <2> QED
    BY <2>1, CallBeginsCounted
<1>3. CASE Close
  <2>1. /\ Quitter \in Client /\ pcC[Quitter] = "idle" /\ pcC' = [pcC EXCEPT ![Quitter] = "lock"]
        /\ UNCHANGED <<up, session, owner, in, executions, netVars, fpgaVars>>
    BY <1>3, LinkAssumption DEF Close, At
  <2> QED
    BY <2>1, CallBeginsCounted
<1>4. ASSUME NEW c \in Client, HostStep(c) PROVE Counted' /\ CallsStep
  <2>1. CASE Aborts(c)
    BY <2>1, HostEndsCounted, InExchange DEF Aborts, AssertionFails, IInv
  <2> QED
    BY <1>4, <2>1, TakeLockCounted, SendCounted, ReceiveCounted, AcknowledgeCounted, ReturnCounted
       DEF HostStep
<1>5. CASE Closed \/ LinkLost \/ HostKilled
  <2>1. HostEnds
    BY <1>5 DEF Closed, LinkLost, HostKilled
  <2>2. up
    BY <1>5, LinkAssumption DEF Closed, LinkLost, HostKilled, IInv, InStep, Typed, Placed
  <2> QED
    BY <2>1, <2>2, HostEndsCounted
<1>6. CASE HostStarts
  BY <1>6, HostStartsCounted
<1>7. CASE FpgaStep
  BY <1>7, AcceptCounted, ReadCounted, SpinCounted, ServeCounted, SendNestedCounted, ReplyCounted
     DEF FpgaStep
<1>8. CASE FpgaReset
  BY <1>8, FpgaResetCounted
<1>9. CASE UNCHANGED vars
  <2>1. UNCHANGED <<up, session, owner, pcC, in, executions, netVars, pcF, serving>>
    BY <1>9 DEF vars, hostVars, fpgaVars
  <2> QED
    BY <2>1, PhaseKept, CountedKept DEF IInv
<1> QED
  BY <1>1, <1>2, <1>3, <1>4, <1>5, <1>6, <1>7, <1>8, <1>9 DEF Next, Over

\* The link implements remote function calls: of all threads one is in a call, and the
\* FPGA executes it exactly once between its beginning and its return.
\* Code: fpga_lock, doXferWaitForAck, message_loop.
THEOREM LinkImplementsCalls == Spec => ImplementsRemoteCall
<1>1. Init => IInv /\ Calls!Init
  BY InitInStep, InitCalls DEF IInv
<1>2. IInv /\ [Next]_vars => IInv'
  BY StepInStep, StepCalls DEF IInv
<1>3. IInv /\ [Next]_vars => [Calls!Next]_<<up, Phase>>
  BY StepCalls DEF CallsStep
<1> QED
  BY <1>1, <1>2, <1>3, PTL DEF Spec, ImplementsRemoteCall, Calls!Spec, Phase

-----------------------------------------------------------------------------
(* The outputs. *)

\* The thread that ends the program is the last to call.
Quits ==
    \A c \in Client : call[c] = "quit" =>
        c = Quitter /\ \A d \in Client \ {c} : pcC[d] = "idle"

\* A thread that is about to switch and was not overtaken knows the other outputs.
WritersKnow ==
    \A c \in Client \ overtaken : call[c] = "write" =>
        Connected /\ \A b \in Bit \ {bit[c]} : seen[c][b] = ttl[b]

\* The masks of SetTTL on their way to the FPGA are those of the thread.
MasksSent ==
    owner # Nil /\ call[owner] = "write" =>
        /\ \A m \in ToFpga : toFpga[session] = <<m>> /\ m.what = "write" => m.masks = seen[owner]
        /\ Connected /\ pcF \in {"run", "exp", "ack", "reply"} => req.masks = seen[owner]

\* The masks of GetTTL on their way to the host are those of the outputs.
MasksReturned ==
    owner # Nil /\ call[owner] = "read" /\ owner \notin overtaken =>
        /\ \A r \in ToHost : toHost[session] = <<r>> /\ r.what \in Final => Connected /\ r.masks = ttl
        /\ pcC[owner] = "got" /\ in.what \in Final => Connected /\ in.masks = ttl

MasksInv == Quits /\ WritersKnow /\ MasksSent /\ MasksReturned

LEMMA InitMasks == Init => MasksInv
<1> SUFFICES ASSUME Init PROVE MasksInv
  OBVIOUS
<1>1. owner = Nil /\ \A c \in Client : call[c] = "none"
  BY DEF Init
<1> QED
  BY <1>1 DEF MasksInv, Quits, WritersKnow, MasksSent, MasksReturned

\* Without a call nothing is to be said.
LEMMA NoCallMasks ==
    ASSUME owner' = Nil, \A c \in Client : call'[c] = "none" PROVE MasksInv'
BY DEF MasksInv, Quits, WritersKnow, MasksSent, MasksReturned

LEMMA CallBeginsMasks ==
    ASSUME InStep, MasksInv, Working, NEW c \in Client, pcC[c] = "idle",
           \A d \in Client \ {c} : /\ pcC'[d] = pcC[d] /\ call'[d] = call[d]
                                   /\ bit'[d] = bit[d],
           call'[c] # "write",
           call'[c] = "quit" => c = Quitter /\ \A d \in Client : pcC[d] = "idle",
           UNCHANGED <<session, owner, in, seen, netVars, fpgaVars, overtaken>>
    PROVE  MasksInv'
<1>1. owner # c /\ owner \in Client \cup {Nil}
  BY DEF InStep, OwnerSpeaks, Typed, TypeOK
<1>2. owner # Nil => pcC'[owner] = pcC[owner] /\ call'[owner] = call[owner]
  BY <1>1
<1>3. Quits'
  <2> SUFFICES ASSUME NEW d \in Client, call'[d] = "quit"
               PROVE  d = Quitter /\ \A e \in Client \ {d} : pcC'[e] = "idle"
    BY DEF Quits
  <2>1. d = c
    BY DEF MasksInv, Quits, Working
  <2> QED
    BY <2>1
<1>4. WritersKnow'
  BY DEF MasksInv, WritersKnow, Connected, fpgaVars
<1>5. MasksSent'
  BY <1>2 DEF MasksInv, MasksSent, Connected, netVars, fpgaVars
<1>6. MasksReturned'
  BY <1>2 DEF MasksInv, MasksReturned, Connected, netVars, fpgaVars
<1> QED
  BY <1>3, <1>4, <1>5, <1>6 DEF MasksInv

\* A thread goes on with its call.
LEMMA QuitsKept ==
    ASSUME InStep, MasksInv, NEW c \in Client, pcC[c] # "idle", UNCHANGED call,
           \A d \in Client \ {c} : pcC'[d] = pcC[d]
    PROVE  Quits'
BY DEF MasksInv, Quits

LEMMA TakeLockMasks == ASSUME InStep, MasksInv, NEW c \in Client, TakeLock(c) PROVE MasksInv'
<1>1. /\ owner = Nil /\ owner' = c /\ pcC[c] = "lock" /\ pcC'[c] = "post" /\ up
      /\ \A d \in Client \ {c} : pcC'[d] = pcC[d]
      /\ UNCHANGED <<session, call, bit, seen, netVars, fpgaVars, overtaken>>
  BY LinkAssumption DEF TakeLock, At, InStep, Typed, TypeOK, Placed
<1>2. NoCall
  BY <1>1 DEF InStep, Conversation, Asked, Served, Told, Heard, Acking, Acked, Lost, Waits
<1>3. (\A m \in ToFpga : toFpga[session] # <<m>>) /\ (\A r \in ToHost : toHost[session] # <<r>>)
  BY <1>2, OneMessage DEF NoCall, Silent
<1>4. Quits'
  BY <1>1, QuitsKept
<1>5. WritersKnow'
  BY <1>1 DEF MasksInv, WritersKnow, Connected, fpgaVars
<1>6. MasksSent'
  BY <1>1, <1>2, <1>3 DEF MasksSent, NoCall, Connected, netVars, fpgaVars
<1>7. MasksReturned'
  BY <1>1, <1>3 DEF MasksReturned, netVars
<1> QED
  BY <1>4, <1>5, <1>6, <1>7 DEF MasksInv

LEMMA SendMasks == ASSUME InStep, MasksInv, NEW c \in Client, Send(c) PROVE MasksInv'
<1>1. /\ pcC[c] = "post" /\ pcC'[c] = "wait"
      /\ \A d \in Client \ {c} : pcC'[d] = pcC[d]
      /\ UNCHANGED <<session, owner, call, bit, seen, toHost, fpgaVars, overtaken>>
  BY DEF Send, At, InStep, Typed, TypeOK
<1>2. owner = c /\ session \in Session /\ (NoCall \/ Acking)
  BY <1>1, InExchange
<1>3. PICK m \in ToFpga : m = Message(out, msgId, seen[c]) /\ m.masks = seen[c]
  <2>1. Message(out, msgId, seen[c]) \in ToFpga
    BY RequestIsMessage DEF InStep, Typed, TypeOK
  <2>2. Message(out, msgId, seen[c]).masks = seen[c]
    BY DEF Message
  <2> QED
    BY <2>1, <2>2
<1>4. toFpga'[session] = <<m>>
  <2>1. toFpga[session] = <<>> /\ toFpga[session] \in Seq(ToFpga)
    BY <1>2 DEF NoCall, Acking, Silent, InStep, Typed, TypeOK
  <2>2. Append(toFpga[session], m) = <<m>>
    BY <2>1, QueueIs
  <2> QED
    BY <1>2, <1>3, <2>2 DEF Send, InStep, Typed, TypeOK
<1>5. \A n \in ToFpga : toFpga'[session] = <<n>> => n.masks = seen[c]
  BY <1>3, <1>4, OneMessage
<1>6. Quits'
  BY <1>1, QuitsKept
<1>7. WritersKnow'
  BY <1>1 DEF MasksInv, WritersKnow, Connected, fpgaVars
<1>8. MasksSent'
  BY <1>1, <1>2, <1>5 DEF MasksInv, MasksSent, Connected, fpgaVars
<1>9. MasksReturned'
  BY <1>1, <1>2 DEF MasksInv, MasksReturned, Connected, fpgaVars
<1> QED
  BY <1>6, <1>7, <1>8, <1>9 DEF MasksInv

LEMMA ReceiveMasks == ASSUME InStep, MasksInv, NEW c \in Client, Receive(c) PROVE MasksInv'
<1>1. /\ pcC[c] = "wait" /\ pcC'[c] = "got" /\ toHost[session] # <<>> /\ in' = Head(toHost[session])
      /\ \A d \in Client \ {c} : pcC'[d] = pcC[d]
      /\ UNCHANGED <<session, owner, call, bit, seen, toFpga, fpgaVars, overtaken>>
  BY DEF Receive, At, InStep, Typed, TypeOK
<1>2. owner = c /\ session \in Session /\ Told
  BY <1>1, InExchange DEF Asked, Served, Told, Acked, Lost, Silent
<1>3. PICK r \in ToHost : toHost[session] = <<r>>
  BY <1>2 DEF Told
<1>4. in' = r /\ Tail(toHost[session]) = <<>>
  BY <1>1, <1>3, OneMessage
<1>5. toHost'[session] = <<>>
  BY <1>2, <1>4 DEF Receive, InStep, Typed, TypeOK
<1>6. \A q \in ToHost : toHost'[session] # <<q>>
  BY <1>5, OneMessage
<1>7. Quits'
  BY <1>1, QuitsKept
<1>8. WritersKnow'
  BY <1>1 DEF MasksInv, WritersKnow, Connected, fpgaVars
<1>9. MasksSent'
  BY <1>1 DEF MasksInv, MasksSent, Connected, fpgaVars
<1>10. MasksReturned'
  BY <1>1, <1>3, <1>4, <1>6 DEF MasksInv, MasksReturned, Connected, fpgaVars
<1> QED
  BY <1>7, <1>8, <1>9, <1>10 DEF MasksInv

LEMMA AcknowledgeMasks == ASSUME InStep, MasksInv, NEW c \in Client, Acknowledge(c) PROVE MasksInv'
<1>1. /\ pcC[c] = "got" /\ pcC'[c] = "post"
      /\ \A d \in Client \ {c} : pcC'[d] = pcC[d]
      /\ UNCHANGED <<session, owner, call, bit, seen, in, netVars, fpgaVars, overtaken>>
  BY DEF Acknowledge, At, InStep, Typed, TypeOK
<1>2. owner = c
  BY <1>1, InExchange
<1>3. Quits'
  BY <1>1, QuitsKept
<1>4. WritersKnow'
  BY <1>1 DEF MasksInv, WritersKnow, Connected, fpgaVars
<1>5. MasksSent'
  BY <1>1 DEF MasksInv, MasksSent, Connected, netVars, fpgaVars
<1>6. MasksReturned'
  BY <1>1, <1>2 DEF MasksInv, MasksReturned, Connected, netVars, fpgaVars
<1> QED
  BY <1>3, <1>4, <1>5, <1>6 DEF MasksInv

LEMMA ReturnMasks == ASSUME InStep, MasksInv, NEW c \in Client, Return(c) PROVE MasksInv'
<1>1. /\ pcC[c] = "got" /\ in.what \in Final /\ call[c] # "quit" /\ owner' = Nil
      /\ UNCHANGED <<session, fpgaVars, overtaken>>
      /\ \A d \in Client \ {c} : /\ pcC'[d] = pcC[d] /\ call'[d] = call[d] /\ bit'[d] = bit[d]
                                 /\ seen'[d] = seen[d]
      /\ call'[c] # "quit"
  BY DEF Return, At, InStep, Typed, TypeOK
<1>2. owner = c /\ owner # Nil
  BY <1>1, InExchange
<1>3. Quits'
  <2>1. \A d \in Client : call[d] # "quit"
    BY <1>1 DEF MasksInv, Quits
  <2> QED
    BY <1>1, <2>1 DEF Quits
<1>4. WritersKnow'
  <2> SUFFICES ASSUME NEW d \in Client \ overtaken, call'[d] = "write"
               PROVE  Connected /\ \A b \in Bit \ {bit'[d]} : seen'[d][b] = ttl[b]
    BY <1>1 DEF WritersKnow, Connected, fpgaVars
  <2>1. CASE d # c
    BY <1>1, <2>1 DEF MasksInv, WritersKnow
  <2>2. CASE d = c
    <3>1. call[c] = "read" /\ bit' = bit
      BY <2>2 DEF Return, InStep, Typed, TypeOK
    <3>2. Connected /\ in.masks = ttl
      BY <1>1, <1>2, <2>2, <3>1 DEF MasksInv, MasksReturned
    <3>3. PICK m \in NewMasks(c) : seen' = [seen EXCEPT ![c] = m]
      BY <3>1 DEF Return
    <3>4. PICK v \in Level : m = [in.masks EXCEPT ![bit[c]] = v]
      BY <3>3 DEF NewMasks
    <3>5. in.masks \in [Bit -> Level]
      BY DEF InStep, Typed, TypeOK, ToHost, Masks
    <3>6. \A b \in Bit \ {bit[c]} : m[b] = ttl[b]
      BY <3>2, <3>4, <3>5
    <3>7. seen'[c] = m
      BY <3>3 DEF InStep, Typed, TypeOK
    <3> QED
      BY <2>2, <3>1, <3>2, <3>6, <3>7
  <2> QED
    BY <2>1, <2>2
<1>5. MasksSent' /\ MasksReturned'
  BY <1>1 DEF MasksSent, MasksReturned
<1> QED
  BY <1>3, <1>4, <1>5 DEF MasksInv

\* Who owns the link while the FPGA serves it.
LEMMA ServedIs ==
    ASSUME InStep, up, Connected, pcF \in {"run", "exp", "reply"}
    PROVE  /\ owner \in Client /\ owner # Nil /\ pcC[owner] = "wait" /\ Silent /\ req.what = call[owner]
           /\ \A m \in ToFpga : toFpga[session] # <<m>>
           /\ \A r \in ToHost : toHost[session] # <<r>>
<1>1. Served
  BY FpgaTurn
<1>2. owner \in Client /\ owner # Nil /\ pcC[owner] = "wait" /\ Silent /\ req.what = call[owner]
  BY <1>1 DEF Served, Waits, Wanted, InStep, Typed, TypeOK
<1> QED
  BY <1>2, OneMessage DEF Silent

\* A thread that owns the link calls something, and the program runs.
LEMMA CallsMeanUp ==
    ASSUME InStep PROVE /\ \A c \in Client : call[c] # "none" => up
                        /\ owner # Nil => owner \in Client /\ up
BY DEF InStep, Typed, TypeOK, Placed

\* The FPGA neither switches nor leaves the connection.
LEMMA FpgaMasks ==
    ASSUME InStep, MasksInv, UNCHANGED <<hostVars, serving, ttl, overtaken>>,
           toFpga'[session] \in {<<>>, toFpga[session]},
           pcF' \in {"run", "exp", "ack", "reply"} => pcF \in {"run", "exp", "ack", "reply"} /\ req' = req,
           owner # Nil =>
             \A r \in ToHost : toHost'[session] = <<r>> =>
                \/ toHost[session] = <<r>>
                \/ r.what \notin Final
                \/ Connected /\ (call[owner] = "read" => r.masks = ttl)
    PROVE  MasksInv'
<1>1. UNCHANGED <<up, session, owner, pcC, call, bit, seen, in>>
  BY DEF hostVars
<1>2. Quits'
  BY <1>1 DEF MasksInv, Quits
<1>3. WritersKnow'
  BY <1>1 DEF MasksInv, WritersKnow, Connected
<1>4. \A m \in ToFpga : toFpga'[session] = <<m>> => toFpga[session] = <<m>>
  BY OneMessage
<1>5. MasksSent'
  BY <1>1, <1>4 DEF MasksInv, MasksSent, Connected
<1>6. MasksReturned'
  BY <1>1 DEF MasksInv, MasksReturned, Connected
<1> QED
  BY <1>2, <1>3, <1>5, <1>6 DEF MasksInv

\* Switching and reading the outputs changes what the threads know.
LEMMA TTLMasks ==
    ASSUME InStep, MasksInv, ServeGetTTL \/ ServeSetTTL
    PROVE  MasksInv'
<1>1. /\ UNCHANGED <<up, session, owner, pcC, call, bit, seen, in, serving, req, toFpga, toHost>>
      /\ pcF = "run" /\ pcF' = "reply"
  BY DEF ServeGetTTL, ServeSetTTL, Serves, Executed, hostVars, netVars
<1>2. Quits'
  BY <1>1 DEF MasksInv, Quits
<1>3. MasksSent'
  BY <1>1 DEF MasksInv, MasksSent, Connected
<1>4. up /\ Connected => ~PeerGone /\ owner # Nil /\ pcC[owner] = "wait" /\ req.what = call[owner]
                       /\ \A r \in ToHost : toHost[session] # <<r>>
  BY <1>1, ServedIs DEF PeerGone, Connected
<1>5. ~(up /\ Connected) => PeerGone
  BY DEF PeerGone, Connected
<1>6. CASE ServeGetTTL
  <2>1. ttl' = ttl /\ overtaken' = overtaken \ {c \in Client : ~PeerGone /\ owner = c} /\ req.what = "read"
    BY <1>6 DEF ServeGetTTL, Serves
  <2>2. WritersKnow'
    <3> SUFFICES ASSUME NEW c \in Client \ overtaken', call[c] = "write"
                 PROVE  Connected /\ \A b \in Bit \ {bit[c]} : seen[c][b] = ttl[b]
      BY <1>1, <2>1 DEF WritersKnow, Connected
    <3>1. c \notin overtaken
      <4>1. CASE PeerGone
        BY <2>1, <4>1
      <4>2. CASE ~PeerGone
        <5>1. owner # c
          BY <1>4, <1>5, <2>1, <4>2
        <5> QED
          BY <2>1, <5>1
      <4> QED
        BY <4>1, <4>2
    <3> QED
      BY <3>1 DEF MasksInv, WritersKnow
  <2>3. MasksReturned'
    <3>1. CASE up /\ Connected
      BY <1>1, <1>4, <3>1 DEF MasksReturned
    <3>2. CASE ~(up /\ Connected)
      <4>1. overtaken' = overtaken
        BY <1>5, <2>1, <3>2
      <4> QED
        BY <1>1, <2>1, <4>1 DEF MasksInv, MasksReturned, Connected
    <3> QED
      BY <3>1, <3>2
  <2> QED
    BY <1>2, <1>3, <2>2, <2>3 DEF MasksInv
<1>7. CASE ServeSetTTL
  <2>1. /\ ttl' = req.masks /\ req.what = "write"
        /\ overtaken' = {c \in Client : call[c] \in {"read", "write"} /\ owner # c} \cup overtaken
    BY <1>7 DEF ServeSetTTL, Serves
  <2>2. WritersKnow'
    <3> SUFFICES ASSUME NEW c \in Client \ overtaken', call[c] = "write"
                 PROVE  Connected /\ \A b \in Bit \ {bit[c]} : seen[c][b] = ttl'[b]
      BY <1>1 DEF WritersKnow, Connected
    <3>1. owner = c /\ c \notin overtaken
      BY <2>1
    <3>2. up /\ Connected /\ c # Nil
      BY <3>1, CallsMeanUp, LinkAssumption DEF MasksInv, WritersKnow
    <3>3. ttl' = seen[c]
      BY <1>1, <2>1, <3>1, <3>2 DEF MasksInv, MasksSent
    <3> QED
      BY <3>2, <3>3
  <2>3. MasksReturned'
    <3> SUFFICES ASSUME owner # Nil, call[owner] = "read", owner \notin overtaken'
                 PROVE  /\ \A r \in ToHost : toHost[session] = <<r>> /\ r.what \in Final =>
                                               Connected /\ r.masks = ttl'
                        /\ pcC[owner] = "got" /\ in.what \in Final => Connected /\ in.masks = ttl'
      BY <1>1 DEF MasksReturned, Connected
    <3>1. up /\ owner \notin overtaken
      BY <2>1, CallsMeanUp
    <3>2. ~Connected
      BY <1>4, <2>1, <3>1
    <3> QED
      BY <3>1, <3>2 DEF MasksInv, MasksReturned
  <2> QED
    BY <1>2, <1>3, <2>2, <2>3 DEF MasksInv
<1> QED
  BY <1>6, <1>7

LEMMA AcceptMasks == InStep /\ MasksInv /\ Accept => MasksInv'
<1> SUFFICES ASSUME InStep, MasksInv, Accept PROVE MasksInv'
  OBVIOUS
<1>1. /\ UNCHANGED <<up, session, owner, pcC, call, bit, seen, in, toFpga, toHost, ttl, overtaken>>
      /\ pcF' = "rcv" /\ serving = 0 /\ session # 0
  BY LinkAssumption DEF Accept, hostVars, InStep, Typed, TypeOK, Placed, Session
<1>2. ~Connected
  BY <1>1 DEF Connected
<1>3. Quits'
  BY <1>1 DEF MasksInv, Quits
<1>4. WritersKnow'
  BY <1>1, <1>2 DEF MasksInv, WritersKnow
<1>5. MasksSent'
  BY <1>1 DEF MasksInv, MasksSent
<1>6. MasksReturned'
  BY <1>1, <1>2 DEF MasksInv, MasksReturned
<1> QED
  BY <1>3, <1>4, <1>5, <1>6 DEF MasksInv

LEMMA RcvMasks == InStep /\ MasksInv /\ Rcv => MasksInv'
<1> SUFFICES ASSUME InStep, MasksInv, Rcv PROVE MasksInv'
  OBVIOUS
<1>1. /\ UNCHANGED <<up, session, owner, pcC, call, bit, seen, in, serving, toHost, ttl, overtaken>>
      /\ pcF = "rcv" /\ Read /\ req' = Head(toFpga[serving])
  BY DEF Rcv, hostVars
<1>2. PICK m \in ToFpga : toFpga[serving] = <<m>> /\ req' = m
  BY <1>1, ReadIs
<1>3. /\ toFpga'[serving] = <<>> /\ toFpga[serving] # <<>>
      /\ \A s \in Session : s # serving => toFpga'[s] = toFpga[s]
  BY <1>1, ReadIs
<1>4. Quits'
  BY <1>1 DEF MasksInv, Quits
<1>5. WritersKnow'
  BY <1>1 DEF MasksInv, WritersKnow, Connected
<1>6. \A n \in ToFpga : toFpga'[session] = <<n>> => toFpga[session] = <<n>>
  BY <1>3, OneMessage DEF InStep, Typed, TypeOK
<1>7. ASSUME owner # Nil, call[owner] = "write", Connected PROVE req'.masks = seen[owner]
  <2>1. Asked
    BY <1>1, <1>3, <1>7, CallsMeanUp, FpgaTurn DEF Connected
  <2>2. PICK n \in ToFpga : toFpga[session] = <<n>> /\ n.what = call[owner]
    BY <2>1 DEF Asked, Wanted
  <2>3. n = m
    BY <1>2, <1>7, <2>2 DEF Connected
  <2> QED
    BY <1>2, <1>7, <2>2, <2>3 DEF MasksInv, MasksSent
<1>8. MasksSent'
  BY <1>1, <1>6, <1>7 DEF MasksInv, MasksSent, Connected
<1>9. MasksReturned'
  BY <1>1 DEF MasksInv, MasksReturned, Connected
<1> QED
  BY <1>4, <1>5, <1>8, <1>9 DEF MasksInv

LEMMA RcvAckMasks == InStep /\ MasksInv /\ RcvAck => MasksInv'
<1> SUFFICES ASSUME InStep, MasksInv, RcvAck PROVE MasksInv'
  OBVIOUS
<1>1. pcF = "ack" /\ Read /\ UNCHANGED <<hostVars, serving, ttl, overtaken, req, toHost>>
  BY DEF RcvAck
<1>2. toFpga'[session] \in {<<>>, toFpga[session]}
  BY <1>1, ReadIs DEF InStep, Typed, TypeOK
<1> QED
  BY <1>1, <1>2, FpgaMasks

LEMMA WorkMasks ==
    ASSUME InStep, MasksInv, Spin \/ ServeCall \/ StartExperiment \/ FinishExperiment
    PROVE  MasksInv'
<1>1. /\ UNCHANGED <<hostVars, serving, ttl, overtaken, req, toFpga, toHost>>
      /\ pcF' = "spin" \/ pcF \in {"run", "exp"}
  BY DEF Spin, ServeCall, StartExperiment, FinishExperiment, Serves, netVars
<1> QED
  BY <1>1, FpgaMasks

LEMMA HaltsMasks ==
    ASSUME InStep, MasksInv, Greet \/ SendNested \/ FlushDebugText
    PROVE  MasksInv'
<1>1. UNCHANGED <<hostVars, serving, ttl, overtaken, req, toFpga>> /\ pcF \in {"run", "exp"}
  BY DEF Greet, SendNested, FlushDebugText, Serves
<1>2. PICK w \in Nested : Answer(w, NoMasks, 0)
  BY DEF Greet, SendNested, FlushDebugText, Nested
<1>3. w \in Nested \cup Final /\ w \notin Final
  BY DEF Nested, Final
<1>4. \A r \in ToHost : toHost'[session] = <<r>> => toHost[session] = <<r>> \/ r.what \notin Final
  <2>1. CASE up /\ Connected
    <3>1. Silent /\ session \in Session
      BY <1>1, <2>1, ServedIs, FpgaTurn
    <3>2. PICK r \in ToHost : r.what = w /\ toHost' = [toHost EXCEPT ![session] = <<r>>]
      BY <1>2, <1>3, <2>1, <3>1, AnswerIs, MasksExist, ZeroIsId DEF Silent
    <3>3. toHost'[session] = <<r>>
      BY <3>1, <3>2 DEF InStep, Typed, TypeOK
    <3> QED
      BY <1>3, <3>2, <3>3, OneMessage
  <2>2. CASE ~(up /\ Connected)
    BY <1>2, <1>3, <2>2, AnswerIs, MasksExist, ZeroIsId
  <2> QED
    BY <2>1, <2>2
<1> QED
  BY <1>1, <1>4, FpgaMasks

LEMMA ReplyMasks == InStep /\ MasksInv /\ Reply => MasksInv'
<1> SUFFICES ASSUME InStep, MasksInv, Reply PROVE MasksInv'
  OBVIOUS
<1> DEFINE m == IF req.what = "read" THEN ttl ELSE NoMasks
<1>1. /\ UNCHANGED <<hostVars, ttl, overtaken, toFpga>> /\ pcF = "reply"
      /\ Answer(reply, m, req.id)
      /\ req.what = "quit" => pcF' = "accept" /\ serving' = 0
      /\ req.what # "quit" => pcF' = "rcv" /\ serving' = serving
  BY DEF Reply
<1>2. UNCHANGED <<up, session, owner, pcC, call, bit, seen, in>>
  BY <1>1 DEF hostVars
<1>3. /\ m \in Masks /\ reply \in Final /\ reply \in Nested \cup Final
      /\ req.id \in 0 .. IdRange - 1
  BY MasksExist DEF InStep, Typed, TypeOK, ToFpga
<1>4. ~(up /\ Connected) => toHost' = toHost
  BY <1>1, <1>3, AnswerIs
<1>5. CASE req.what # "quit"
  <2>1. ASSUME NEW r \in ToHost, toHost'[session] = <<r>>, owner # Nil
        PROVE  \/ toHost[session] = <<r>>
               \/ Connected /\ (call[owner] = "read" => r.masks = ttl)
    <3>1. CASE up /\ Connected
      <4>1. Silent /\ session \in Session /\ req.what = call[owner]
        BY <1>1, <3>1, ServedIs, FpgaTurn
      <4>2. PICK q \in ToHost : q.masks = m /\ toHost' = [toHost EXCEPT ![session] = <<q>>]
        BY <1>1, <1>3, <3>1, <4>1, AnswerIs DEF Silent
      <4>3. toHost'[session] = <<q>>
        BY <4>1, <4>2 DEF InStep, Typed, TypeOK
      <4>4. q = r
        BY <2>1, <4>3, OneMessage
      <4> QED
        BY <3>1, <4>1, <4>2, <4>4
    <3>2. CASE ~(up /\ Connected)
      BY <1>4, <2>1, <3>2
    <3> QED
      BY <3>1, <3>2
  <2> HIDE DEF m
  <2>2. serving' = serving /\ pcF' = "rcv"
    BY <1>1, <1>5
  <2> QED
    BY <1>1, <2>1, <2>2, FpgaMasks
<1>6. CASE req.what = "quit"
  <2>1. up /\ Connected => /\ owner \in Client /\ call[owner] = "quit"
                          /\ \A c \in Client : call[c] \in {"quit", "none"}
    <3> SUFFICES ASSUME up, Connected
                 PROVE  /\ owner \in Client /\ call[owner] = "quit"
                        /\ \A c \in Client : call[c] \in {"quit", "none"}
      OBVIOUS
    <3>1. owner \in Client /\ call[owner] = "quit"
      BY <1>1, <1>6, ServedIs
    <3>2. \A c \in Client \ {owner} : pcC[c] = "idle"
      BY <3>1 DEF MasksInv, Quits
    <3> QED
      BY <3>1, <3>2 DEF InStep, Typed, Placed
  <2>2. Quits'
    BY <1>2 DEF MasksInv, Quits
  <2>3. WritersKnow'
    <3>1. \A c \in Client \ overtaken : call[c] # "write"
      BY <2>1, CallsMeanUp DEF MasksInv, WritersKnow
    <3> QED
      BY <1>1, <1>2, <3>1 DEF WritersKnow
  <2>4. MasksSent'
    BY <1>1, <1>2, <1>6 DEF MasksInv, MasksSent
  <2>5. MasksReturned'
    <3> SUFFICES ASSUME owner # Nil, call[owner] = "read", owner \notin overtaken
                 PROVE  /\ \A r \in ToHost : ~(toHost'[session] = <<r>> /\ r.what \in Final)
                        /\ ~(pcC[owner] = "got" /\ in.what \in Final)
      BY <1>1, <1>2 DEF MasksReturned
    <3>1. ~Connected
      BY <2>1, CallsMeanUp
    <3>2. toHost' = toHost
      BY <1>4, <3>1
    <3> QED
      BY <3>1, <3>2 DEF MasksInv, MasksReturned
  <2> QED
    BY <2>2, <2>3, <2>4, <2>5 DEF MasksInv
<1> QED
  BY <1>5, <1>6

LEMMA FpgaResetMasks == InStep /\ MasksInv /\ FpgaReset => MasksInv'
<1> SUFFICES ASSUME InStep, MasksInv, FpgaReset PROVE MasksInv'
  OBVIOUS
<1>1. /\ UNCHANGED <<up, session, owner, pcC, call, bit, seen, in>>
      /\ overtaken' = Client /\ pcF' = "accept" /\ session \in Session
  BY DEF FpgaReset, hostVars, InStep, Typed, TypeOK
<1>2. \A m \in ToFpga : toFpga'[session] # <<m>>
  BY <1>1, OneMessage DEF FpgaReset
<1>3. owner # Nil => owner \in overtaken'
  BY <1>1, CallsMeanUp
<1>4. Quits'
  BY <1>1 DEF MasksInv, Quits
<1>5. WritersKnow'
  BY <1>1 DEF WritersKnow
<1>6. MasksSent'
  BY <1>1, <1>2 DEF MasksSent
<1>7. MasksReturned'
  BY <1>1, <1>3 DEF MasksReturned
<1> QED
  BY <1>4, <1>5, <1>6, <1>7 DEF MasksInv

LEMMA StepMasks == InStep /\ MasksInv /\ [Next]_vars => MasksInv'
<1> SUFFICES ASSUME InStep, MasksInv, [Next]_vars PROVE MasksInv'
  OBVIOUS
<1>1. ASSUME NEW c \in Client, StartCall(c) PROVE MasksInv'
  <2>1. /\ Working /\ pcC[c] = "idle"
        /\ \A d \in Client \ {c} : pcC'[d] = pcC[d] /\ call'[d] = call[d] /\ bit'[d] = bit[d]
        /\ call'[c] \in {"rfc", "exp", "debug"}
        /\ UNCHANGED <<session, owner, in, seen, netVars, fpgaVars, overtaken>>
    BY <1>1 DEF StartCall, At, InStep, Typed, TypeOK
  <2> QED
    BY <2>1, CallBeginsMasks
<1>2. ASSUME NEW c \in Client, NEW b \in Switches[c], SetLogicState(c, b) PROVE MasksInv'
  <2>1. /\ Working /\ pcC[c] = "idle" /\ call'[c] = "read"
        /\ \A d \in Client \ {c} : pcC'[d] = pcC[d] /\ call'[d] = call[d] /\ bit'[d] = bit[d]
        /\ UNCHANGED <<session, owner, in, seen, netVars, fpgaVars, overtaken>>
    BY <1>2 DEF SetLogicState, At, InStep, Typed, TypeOK
  <2> QED
    BY <2>1, CallBeginsMasks
<1>3. CASE Close
  <2>1. /\ Working /\ Quitter \in Client /\ call'[Quitter] = "quit"
        /\ \A d \in Client : pcC[d] = "idle"
        /\ \A d \in Client \ {Quitter} : pcC'[d] = pcC[d] /\ call'[d] = call[d] /\ bit'[d] = bit[d]
        /\ UNCHANGED <<session, owner, in, seen, netVars, fpgaVars, overtaken>>
    BY <1>3, LinkAssumption DEF Close, At, InStep, Typed, TypeOK
  <2> QED
    BY <2>1, CallBeginsMasks
<1>4. ASSUME NEW c \in Client, HostStep(c) PROVE MasksInv'
  <2>1. CASE Aborts(c)
    <3>1. owner' = Nil /\ \A d \in Client : call'[d] = "none"
      BY <2>1 DEF Aborts, HostEnds
    <3> QED
      BY <3>1, NoCallMasks
  <2> QED
    BY <1>4, <2>1, TakeLockMasks, SendMasks, ReceiveMasks, AcknowledgeMasks, ReturnMasks DEF HostStep
<1>5. CASE Closed \/ LinkLost \/ HostKilled
  <2>1. owner' = Nil /\ \A c \in Client : call'[c] = "none"
    BY <1>5 DEF Closed, LinkLost, HostKilled, HostEnds
  <2> QED
    BY <2>1, NoCallMasks
<1>6. CASE HostStarts
  <2>1. ~up /\ UNCHANGED <<owner, call>>
    BY <1>6 DEF HostStarts
  <2>2. owner' = Nil /\ \A c \in Client : call'[c] = "none"
    BY <2>1, CallsMeanUp
  <2> QED
    BY <2>2, NoCallMasks
<1>7. CASE FpgaStep
  BY <1>7, AcceptMasks, RcvMasks, RcvAckMasks, WorkMasks, HaltsMasks, TTLMasks, ReplyMasks
     DEF FpgaStep
<1>8. CASE FpgaReset
  BY <1>8, FpgaResetMasks
<1>9. CASE UNCHANGED vars
  <2>1. UNCHANGED <<hostVars, serving, ttl, overtaken, toFpga, toHost, req, pcF>>
    BY <1>9 DEF vars, netVars, fpgaVars
  <2> QED
    BY <2>1, FpgaMasks
<1> QED
  BY <1>1, <1>2, <1>3, <1>4, <1>5, <1>6, <1>7, <1>8, <1>9 DEF Next, Over

\* SetLogicState changes only its own output, unless another thread switched between its
\* GetTTL and its SetTTL.
\* Code: FPGA_connection::SetLogicState, ttl_get and ttl_set of the FPGA.
THEOREM SwitchingIsLocal == Spec => SwitchesOneOutput
<1>1. ASSUME InStep, MasksInv, ServeSetTTL, ~PeerGone, owner \notin overtaken
      PROVE  \A b \in Bit \ {bit[owner]} : ttl'[b] = ttl[b]
  <2>1. up /\ Connected /\ pcF = "run" /\ ttl' = req.masks /\ req.what = "write"
    BY <1>1 DEF ServeSetTTL, Serves, PeerGone, Connected
  <2>2. owner \in Client /\ owner # Nil /\ call[owner] = "write"
    BY <1>1, <2>1, ServedIs
  <2>3. ttl' = seen[owner]
    BY <1>1, <2>1, <2>2 DEF MasksInv, MasksSent
  <2> QED
    BY <1>1, <2>2, <2>3 DEF MasksInv, WritersKnow
<1>2. InStep /\ MasksInv /\ [Next]_vars =>
        [ServeSetTTL /\ ~PeerGone /\ owner \notin overtaken
         => \A b \in Bit \ {bit[owner]} : ttl'[b] = ttl[b]]_vars
  BY <1>1
<1> QED
  BY <1>2, InitInStep, StepInStep, InitMasks, StepMasks, PTL DEF Spec, SwitchesOneOutput

=============================================================================
