----------------------------- MODULE HostLink -----------------------------
(***************************************************************************)
(* The link between the host program and the FPGA: threads of the host     *)
(* call functions of the FPGA through FPGA_connection, one thread of the   *)
(* FPGA serves them in message_loop.  While it serves a request the FPGA   *)
(* may send messages of its own, which the calling thread acknowledges     *)
(* before the reply arrives.                                               *)
(*                                                                         *)
(* A connection is a number; its two byte streams are queues of messages   *)
(* of fixed length.  The program may be killed and started again, the FPGA *)
(* may be reset; each start of the program opens a new connection.         *)
(***************************************************************************)
EXTENDS Naturals, Sequences

CONSTANTS
    Client,       \* threads of the host that use the link
    Quitter,      \* the one that ends the program, the GUI thread
    Scanner,      \* those that run experiments, the scheduler thread
    Nil,
    Bit,          \* TTL outputs
    Level,        \* states of a TTL output: low, high, follow the pulses
    Switches,     \* Switches[c]: outputs thread c sets with SetLogicState
    IdRange,      \* 2^32, the range of msg_id
    MaxNested,    \* bound: messages the FPGA sends while it serves one request
    MaxSessions,  \* bound: starts of the host program
    Faults,       \* what may break: "host" (killed), "fpga" (reset)
    MaxFaults     \* bound: faults in one behaviour

Request == {"rfc", "read", "write", "exp", "debug", "quit"}
Nested  == {"info", "update", "debugText"}
Final   == {"OK", "ERROR"}
Session == 1 .. MaxSessions

ASSUME LinkAssumption ==
    /\ Quitter \in Client /\ Scanner \subseteq Client /\ Nil \notin Client
    /\ Switches \in [Client -> SUBSET Bit]
    /\ Level # {}
    /\ IdRange \in Nat \ {0} /\ MaxNested \in Nat /\ MaxSessions \in Nat \ {0}
    /\ Faults \subseteq {"host", "fpga"} /\ MaxFaults \in Nat

Masks == [Bit -> Level]
Message(w, i, m) == [what |-> w, id |-> i, masks |-> m]

VARIABLES
    \* the host program
    up,        \* it is running
    session,   \* number of its connection
    owner,     \* the thread that holds fpga_lock
    pcC,       \* where each thread is in doXferWaitForAck
    call,      \* the request each thread makes
    bit,       \* the output SetLogicState is about to change
    seen,      \* the masks it has read
    out,       \* msg_out.what of the exchange of the owner
    in,        \* its msg_in
    msgId,     \* FPGA_TCP_connection::msg_id
    requestId, \* the id the request of the owner was sent with
    \* the network
    toFpga, toHost,
    accepted,  \* the last connection the FPGA has accepted
    \* the FPGA
    pcF,       \* where message_loop is
    resume,    \* where it goes on after an acknowledgement
    serving,   \* the connection it reads from
    req,       \* msg_in
    reply,     \* msg_out.what
    nested,    \* messages it has sent while it serves req
    greeted,   \* num_messages > 0
    bDebugPulses,
    ttl,       \* the TTL outputs
    \* what happened
    faults,
    executions, \* requests executed since the call of the owner began
    unfinished, \* an exception ended a debug experiment, and none was started since
    overtaken   \* threads whose masks another thread changed after they read them

hostVars == <<up, session, owner, pcC, call, bit, seen, out, in, msgId, requestId>>
netVars  == <<toFpga, toHost, accepted>>
fpgaVars == <<pcF, resume, serving, req, reply, nested, greeted, bDebugPulses, ttl>>
vars     == <<hostVars, netVars, fpgaVars, faults, executions, unfinished, overtaken>>

NoMasks == [b \in Bit |-> CHOOSE v \in Level : TRUE]

ToFpga == [what : Request \cup {"ack"}, id : 0 .. IdRange - 1, masks : Masks]
ToHost == [what : Nested \cup Final, id : 0 .. IdRange - 1, masks : Masks]

TypeOK ==
    /\ up \in BOOLEAN /\ session \in Session
    /\ owner \in Client \cup {Nil}
    /\ pcC \in [Client -> {"idle", "lock", "post", "wait", "got"}]
    /\ call \in [Client -> Request \cup {"none"}]
    /\ bit \in [Client -> Bit \cup {Nil}] /\ seen \in [Client -> Masks]
    /\ out \in Request \cup {"ack"} /\ in \in ToHost
    /\ msgId \in 0 .. IdRange - 1 /\ requestId \in 0 .. IdRange - 1
    /\ toFpga \in [Session -> Seq(ToFpga)] /\ toHost \in [Session -> Seq(ToHost)]
    /\ accepted \in 0 .. MaxSessions
    /\ pcF \in {"accept", "rcv", "run", "exp", "ack", "reply", "spin"}
    /\ resume \in {"run", "exp"} /\ serving \in 0 .. MaxSessions
    /\ req \in ToFpga /\ reply \in Final /\ nested \in 0 .. MaxNested
    /\ greeted \in BOOLEAN /\ bDebugPulses \in BOOLEAN /\ ttl \in Masks
    /\ faults \in 0 .. MaxFaults /\ executions \in Nat
    /\ unfinished \in BOOLEAN /\ overtaken \in SUBSET Client

\* What locals hold before they are set; where a call of the code returns, its locals
\* are set to this again, so that what nobody reads does not tell states apart.
NoRequest == Message("rfc", 0, NoMasks)
NoReply   == Message("OK", 0, NoMasks)

\* The program has just started and connects to an FPGA that listens.
Init ==
    /\ up = TRUE /\ session = 1 /\ owner = Nil
    /\ pcC = [c \in Client |-> "idle"] /\ call = [c \in Client |-> "none"]
    /\ bit = [c \in Client |-> Nil] /\ seen = [c \in Client |-> NoMasks]
    /\ out = "rfc" /\ in = NoReply /\ msgId = 0 /\ requestId = 0
    /\ toFpga = [s \in Session |-> <<>>] /\ toHost = [s \in Session |-> <<>>]
    /\ accepted = 0
    /\ pcF = "accept" /\ resume = "run" /\ serving = 0
    /\ req = NoRequest /\ reply = "OK" /\ nested = 0
    /\ greeted = FALSE /\ bDebugPulses = FALSE /\ ttl = NoMasks
    /\ faults = 0 /\ executions = 0 /\ unfinished = FALSE /\ overtaken = {}

-----------------------------------------------------------------------------
(* The host. *)

At(c, pc) == pcC' = [pcC EXCEPT ![c] = pc]

\* The threads run and none of them is about to end the program.
Working == up /\ call[Quitter] # "quit"

\* A thread calls an rfc function or runs an experiment, with or without a record of
\* its pulses (EXP_FLAG_DEBUG).
StartCall(c) ==
    /\ Working /\ pcC[c] = "idle"
    /\ \E k \in {"rfc"} \cup (IF c \in Scanner THEN {"exp", "debug"} ELSE {}) :
          call' = [call EXCEPT ![c] = k]
    /\ At(c, "lock")
    /\ UNCHANGED <<up, session, owner, bit, seen, out, in, msgId, requestId,
                   netVars, fpgaVars, faults, executions, overtaken, unfinished>>

\* SetLogicState begins with GetTTL.
SetLogicState(c, b) ==
    /\ Working /\ pcC[c] = "idle"
    /\ call' = [call EXCEPT ![c] = "read"]
    /\ bit' = [bit EXCEPT ![c] = b]
    /\ At(c, "lock")
    /\ UNCHANGED <<up, session, owner, seen, out, in, msgId, requestId,
                   netVars, fpgaVars, faults, executions, overtaken, unfinished>>

\* ~FPGA_connection tells the FPGA that the program is shutting down; the other
\* threads have ended.
Close ==
    /\ Working /\ \A c \in Client : pcC[c] = "idle"
    /\ call' = [call EXCEPT ![Quitter] = "quit"]
    /\ At(Quitter, "lock")
    /\ UNCHANGED <<up, session, owner, bit, seen, out, in, msgId, requestId,
                   netVars, fpgaVars, faults, executions, overtaken, unfinished>>

TakeLock_Skipped(c) ==
    /\ pcC[c] = "lock"
    /\ owner' = c /\ out' = call[c] /\ executions' = 0
    /\ At(c, "post")
    /\ UNCHANGED <<up, session, call, bit, seen, in, msgId, requestId, netVars, fpgaVars,
                   faults, overtaken, unfinished>>

\* The constructor of GbE_msg_exchange locks fpga_lock; doXfer posts the message to
\* the TCP thread and waits for it.
TakeLock(c) ==
    /\ pcC[c] = "lock" /\ owner = Nil
    /\ owner' = c /\ out' = call[c] /\ executions' = 0
    /\ At(c, "post")
    /\ UNCHANGED <<up, session, call, bit, seen, in, msgId, requestId, netVars, fpgaVars,
                   faults, overtaken, unfinished>>

\* The FPGA was reset after it had accepted the connection.
Broken == session <= accepted /\ serving # session

Send_NoWrap(c) ==
    /\ pcC[c] = "post" /\ ~Broken
    /\ toFpga' = [toFpga EXCEPT ![session] = Append(@, Message(out, msgId, seen[c]))]
    /\ requestId' = IF out = "ack" THEN requestId ELSE msgId
    /\ msgId' = msgId + 1
    /\ At(c, "wait")
    /\ UNCHANGED <<up, session, owner, call, bit, seen, out, in, toHost, accepted, fpgaVars,
                   faults, executions, overtaken, unfinished>>

\* SendFPGAMessage numbers the message and sends it.
Send(c) ==
    /\ pcC[c] = "post" /\ ~Broken
    /\ toFpga' = [toFpga EXCEPT ![session] = Append(@, Message(out, msgId, seen[c]))]
    /\ requestId' = IF out = "ack" THEN requestId ELSE msgId
    /\ msgId' = (msgId + 1) % IdRange
    /\ At(c, "wait")
    /\ UNCHANGED <<up, session, owner, call, bit, seen, out, in, toHost, accepted, fpgaVars,
                   faults, executions, overtaken, unfinished>>

\* SendFPGAMessage has received a message of full length.
Receive(c) ==
    /\ pcC[c] = "wait" /\ toHost[session] # <<>>
    /\ in' = Head(toHost[session])
    /\ toHost' = [toHost EXCEPT ![session] = Tail(@)]
    /\ At(c, "got")
    /\ UNCHANGED <<up, session, owner, call, bit, seen, out, msgId, requestId, toFpga, accepted,
                   fpgaVars, faults, executions, overtaken, unfinished>>

\* The assertion `assert(pScan)` of DispatchMsg fails: debug text has arrived at a
\* thread that does not run an experiment.
AssertionFails(c) ==
    pcC[c] = "got" /\ in.what = "debugText" /\ call[c] \notin {"exp", "debug"}

Acknowledge_Forgotten(c) ==
    /\ pcC[c] = "got" /\ in.what \in Nested /\ ~AssertionFails(c)
    /\ At(c, "post")
    /\ UNCHANGED <<up, session, owner, call, bit, seen, out, in, msgId, requestId, netVars,
                   fpgaVars, faults, executions, overtaken, unfinished>>

\* DispatchMsg handles a message of the FPGA's own and answers C2S_ACK.
Acknowledge(c) ==
    /\ pcC[c] = "got" /\ in.what \in Nested /\ ~AssertionFails(c)
    /\ out' = "ack"
    /\ At(c, "post")
    /\ UNCHANGED <<up, session, owner, call, bit, seen, in, msgId, requestId, netVars,
                   fpgaVars, faults, executions, overtaken, unfinished>>

\* The masks SetTTL will send: those GetTTL returned, with one bit changed.
NewMasks_NotRead(c) == {[seen[c] EXCEPT ![bit[c]] = v] : v \in Level}
NewMasks(c) == {[in.masks EXCEPT ![bit[c]] = v] : v \in Level}

\* doXferWaitForAck returns, or throws at S2C_ERROR; the lock is released.
\* SetLogicState goes on with SetTTL.
Return(c) ==
    /\ pcC[c] = "got" /\ in.what \in Final /\ call[c] # "quit"
    /\ owner' = Nil /\ out' = "rfc" /\ in' = NoReply /\ requestId' = 0 /\ executions' = 0
    /\ \/ /\ call[c] = "read"
          /\ \E m \in NewMasks(c) : seen' = [seen EXCEPT ![c] = m]
          /\ call' = [call EXCEPT ![c] = "write"]
          /\ At(c, "lock")
          /\ UNCHANGED bit
       \/ /\ call[c] # "read"
          /\ seen' = [seen EXCEPT ![c] = NoMasks]
          /\ call' = [call EXCEPT ![c] = "none"]
          /\ bit' = [bit EXCEPT ![c] = Nil]
          /\ At(c, "idle")
    /\ UNCHANGED <<up, session, msgId, netVars, fpgaVars, faults, overtaken, unfinished>>

\* The program is over; what its threads were doing is forgotten.
HostEnds ==
    /\ up' = FALSE /\ owner' = Nil
    /\ pcC' = [c \in Client |-> "idle"] /\ call' = [c \in Client |-> "none"]
    /\ bit' = [c \in Client |-> Nil] /\ seen' = [c \in Client |-> NoMasks]
    /\ out' = "rfc" /\ in' = NoReply /\ requestId' = 0 /\ executions' = 0 /\ msgId' = 0
    /\ overtaken' = {}
    /\ toHost' = [toHost EXCEPT ![session] = <<>>]
    /\ UNCHANGED <<session, toFpga, accepted, fpgaVars, unfinished>>

\* The reply to C2S_QUIT.
Closed ==
    /\ pcC[Quitter] = "got" /\ call[Quitter] = "quit" /\ in.what \in Final
    /\ HostEnds
    /\ UNCHANGED faults

\* Sending to an FPGA that was reset breaks the connection: rcv throws in the TCP
\* thread, which nobody catches.
LinkLost ==
    /\ Broken /\ \E c \in Client : pcC[c] = "post"
    /\ HostEnds
    /\ UNCHANGED faults

\* abort().
Aborts(c) ==
    /\ AssertionFails(c)
    /\ HostEnds
    /\ UNCHANGED faults

HostKilled ==
    /\ "host" \in Faults /\ up /\ faults < MaxFaults
    /\ faults' = faults + 1
    /\ HostEnds

\* The program is started again.
HostStarts ==
    /\ ~up /\ session < MaxSessions
    /\ up' = TRUE /\ session' = session + 1
    /\ UNCHANGED <<owner, pcC, call, bit, seen, out, in, msgId, requestId, netVars, fpgaVars,
                   faults, executions, overtaken, unfinished>>

-----------------------------------------------------------------------------
(* The FPGA. *)

\* The program at the other end of the connection is gone.
PeerGone == ~up \/ serving # session

\* snd: a peer that is gone gets nothing.
Answer(w, masks, id) ==
    toHost' = IF PeerGone THEN toHost
              ELSE [toHost EXCEPT ![serving] = Append(@, Message(w, id, masks))]

\* lwip_accept returns the next connection.
Accept ==
    /\ pcF = "accept" /\ accepted < session
    /\ accepted' = accepted + 1 /\ serving' = accepted + 1
    /\ pcF' = "rcv"
    /\ UNCHANGED <<hostVars, toFpga, toHost, resume, req, reply, nested, greeted,
                   bDebugPulses, ttl, faults, executions, overtaken, unfinished>>

\* The next message on the connection is taken from its stream.
Read == /\ toFpga[serving] # <<>>
        /\ toFpga' = [toFpga EXCEPT ![serving] = Tail(@)]

\* message_loop receives a request.
Rcv ==
    /\ pcF = "rcv" /\ Read
    /\ req' = Head(toFpga[serving])
    /\ nested' = 0
    /\ pcF' = "run"
    /\ UNCHANGED <<hostVars, toHost, accepted, resume, serving, reply, greeted,
                   bDebugPulses, ttl, faults, executions, overtaken, unfinished>>

\* send_message receives the answer to a message of the FPGA's own, whatever it is.
RcvAck ==
    /\ pcF = "ack" /\ Read
    /\ pcF' = resume /\ resume' = "run"
    /\ UNCHANGED <<hostVars, toHost, accepted, serving, req, reply, nested, greeted,
                   bDebugPulses, ttl, faults, executions, overtaken, unfinished>>

\* rcv reads from a closed connection: read returns 0 for ever.
Spin ==
    /\ pcF \in {"rcv", "ack"} /\ PeerGone /\ toFpga[serving] = <<>>
    /\ pcF' = "spin"
    /\ UNCHANGED <<hostVars, netVars, resume, serving, req, reply, nested, greeted,
                   bDebugPulses, ttl, faults, executions, overtaken, unfinished>>

\* process_message welcomes the host before it serves its first request.
Greet ==
    /\ pcF = "run" /\ ~greeted
    /\ greeted' = TRUE
    /\ Answer("info", NoMasks, 0)
    /\ pcF' = "ack" /\ resume' = "run"
    /\ UNCHANGED <<hostVars, toFpga, accepted, serving, req, reply, nested, bDebugPulses, ttl,
                   faults, executions, overtaken, unfinished>>

Serves(kinds) == pcF = "run" /\ greeted /\ req.what \in kinds

\* A request has been executed.
Executed(r) ==
    /\ reply' = r
    /\ pcF' = "reply"
    /\ executions' = IF PeerGone THEN executions ELSE executions + 1

\* The other remote function calls, some of which make pulses: ramps of the voltages
\* cool the ions, as remote actions do.  S2C_OK, or S2C_ERROR for an unknown message and
\* a runtime_error, which may also end an experiment before its first shot.
ServeCall ==
    /\ Serves({"rfc", "ack", "exp", "debug", "quit"})
    /\ \E r \in Final :
         /\ req.what \in {"ack", "quit"} => r = "OK"
         /\ req.what \in {"exp", "debug"} => r = "ERROR"
         /\ Executed(r)
    /\ UNCHANGED <<hostVars, netVars, resume, serving, req, nested, greeted, bDebugPulses,
                   ttl, faults, unfinished, overtaken>>

\* ttl_get; the masks travel with the reply.
ServeGetTTL ==
    /\ Serves({"read"})
    /\ Executed("OK")
    /\ overtaken' = overtaken \ {c \in Client : ~PeerGone /\ owner = c}
    /\ UNCHANGED <<hostVars, netVars, resume, serving, req, nested, greeted, bDebugPulses,
                   ttl, faults, unfinished>>

\* ttl_set.  Threads between their GetTTL and their SetTTL are overtaken.
ServeSetTTL ==
    /\ Serves({"write"})
    /\ Executed("OK")
    /\ ttl' = req.masks
    /\ overtaken' = {c \in Client : call[c] \in {"read", "write"} /\ owner # c} \cup overtaken
    /\ UNCHANGED <<hostVars, netVars, resume, serving, req, nested, greeted, bDebugPulses,
                   faults, unfinished>>

\* run_exp: after init_exp_sequence init_exp decides whether pulses are reported.
StartExperiment ==
    /\ Serves({"exp", "debug"})
    /\ bDebugPulses' = (req.what = "debug") /\ unfinished' = FALSE
    /\ pcF' = "exp"
    /\ UNCHANGED <<hostVars, netVars, resume, serving, req, reply, nested, greeted, ttl,
                   faults, executions, overtaken>>

\* While it serves a request the FPGA reports a new value of a parameter or the state
\* of the ions; when bDebugPulses is set whoever makes pulses reports them.
SendNested ==
    /\ \/ Serves({"rfc", "exp", "debug"})
       \/ pcF = "exp"
    /\ nested < MaxNested
    /\ nested' = nested + 1
    /\ \E w \in Nested : (w = "debugText" => bDebugPulses) /\ Answer(w, NoMasks, 0)
    /\ resume' = pcF /\ pcF' = "ack"
    /\ UNCHANGED <<hostVars, toFpga, accepted, serving, req, reply, greeted, bDebugPulses, ttl,
                   faults, executions, overtaken, unfinished>>

FlushDebugText_NoReset ==
    /\ pcF = "exp" /\ bDebugPulses
    /\ Answer("debugText", NoMasks, 0)
    /\ resume' = "exp" /\ pcF' = "ack"
    /\ UNCHANGED <<hostVars, toFpga, accepted, serving, req, reply, nested, greeted, bDebugPulses,
                   ttl, faults, executions, overtaken, unfinished>>

\* At the end of the first shot the rest of the debug text is sent.
FlushDebugText ==
    /\ pcF = "exp" /\ bDebugPulses
    /\ bDebugPulses' = FALSE
    /\ Answer("debugText", NoMasks, 0)
    /\ resume' = "exp" /\ pcF' = "ack"
    /\ UNCHANGED <<hostVars, toFpga, accepted, serving, req, reply, nested, greeted, ttl,
                   faults, executions, overtaken, unfinished>>

FinishExperiment_NoReset ==
    /\ pcF = "exp"
    /\ \E r \in Final : Executed(r) /\ unfinished' = (r = "ERROR" /\ bDebugPulses)
    /\ UNCHANGED <<hostVars, netVars, resume, serving, req, nested, greeted, bDebugPulses, ttl,
                   faults, overtaken>>

\* The experiment is over, or an exception ends it; bDebugPulses then stays set.
FinishExperiment ==
    /\ pcF = "exp"
    /\ \/ ~bDebugPulses /\ Executed("OK") /\ UNCHANGED unfinished
       \/ Executed("ERROR") /\ unfinished' = bDebugPulses
    /\ UNCHANGED <<hostVars, netVars, resume, serving, req, nested, greeted, bDebugPulses, ttl,
                   faults, overtaken>>

\* message_loop sends the reply.  After C2S_QUIT it closes the connection, and the
\* next host is welcomed again.
Reply ==
    /\ pcF = "reply"
    /\ Answer(reply, IF req.what = "read" THEN ttl ELSE NoMasks, req.id)
    /\ IF req.what = "quit"
       THEN pcF' = "accept" /\ serving' = 0 /\ greeted' = FALSE
       ELSE pcF' = "rcv" /\ UNCHANGED <<serving, greeted>>
    /\ req' = NoRequest /\ reply' = "OK" /\ nested' = 0
    /\ UNCHANGED <<hostVars, toFpga, accepted, resume, bDebugPulses, ttl, faults, executions,
                   overtaken, unfinished>>

\* The FPGA is reset.  Connections it has not accepted yet are lost as well.
FpgaReset ==
    /\ "fpga" \in Faults /\ faults < MaxFaults
    /\ faults' = faults + 1
    /\ pcF' = "accept" /\ serving' = 0 /\ accepted' = session
    /\ greeted' = FALSE /\ bDebugPulses' = FALSE /\ ttl' = NoMasks
    /\ req' = NoRequest /\ reply' = "OK" /\ nested' = 0 /\ resume' = "run"
    /\ toFpga' = [s \in Session |-> <<>>]
    /\ overtaken' = Client
    /\ UNCHANGED <<hostVars, toHost, executions, unfinished>>

\* The program is over, or a failure has left one side waiting for the other.
Over == (~up \/ faults > 0 \/ pcF = "spin") /\ UNCHANGED vars

HostStep(c) ==
    TakeLock(c) \/ Send(c) \/ Receive(c) \/ Acknowledge(c) \/ Return(c) \/ Aborts(c)
FpgaStep ==
    \/ Accept \/ Rcv \/ RcvAck \/ Spin \/ Greet \/ ServeCall \/ ServeGetTTL \/ ServeSetTTL
    \/ StartExperiment \/ SendNested \/ FlushDebugText \/ FinishExperiment \/ Reply

Next ==
    \/ \E c \in Client : StartCall(c) \/ HostStep(c) \/ \E b \in Switches[c] : SetLogicState(c, b)
    \/ Close \/ Closed \/ LinkLost \/ HostKilled \/ HostStarts
    \/ FpgaStep \/ FpgaReset \/ Over

Spec == Init /\ [][Next]_vars

\* Threads on their way and the FPGA go on; that a thread gets the lock is not assumed.
FairSpec ==
    /\ Spec
    /\ WF_vars(FpgaStep)
    /\ \A c \in Client :
         WF_vars(Send(c) \/ Receive(c) \/ Acknowledge(c) \/ Return(c) \/ Aborts(c))
    /\ WF_vars(Closed)

-----------------------------------------------------------------------------
(* Properties. *)

\* The reply a thread gets answers the request it made, although messages of the
\* FPGA and their acknowledgements travel in between and no id is compared.
\* Code: "counts number of messages, to make sure none were lost.  Are we checking
\* this?" (messaging.h).
ReplyIsOwn == \A c \in Client : pcC[c] = "got" /\ in.what \in Final => in.id = requestId

\* The FPGA never serves an acknowledgement as a request and never takes a request for
\* an acknowledgement, although it does not look at what it receives in send_message.
\* Code: message_loop, host_interface::send_message, DispatchMsg.
AcksInStep ==
    serving # 0 => \A i \in DOMAIN toFpga[serving] :
        /\ pcF = "rcv" => toFpga[serving][i].what # "ack"
        /\ pcF = "ack" => toFpga[serving][i].what = "ack"

\* `assert(pScan)` of DispatchMsg can fail only after a debug experiment ended by an
\* exception and while no experiment was started since, which would clear bDebugPulses:
\* also then a call that makes pulses must be made.  Code: init_exp, experiment::run,
\* sendDebugMsg, GenericExperiment.
DebugHasScan == \A c \in Client : AssertionFails(c) => unfinished

\* Whatever arrives is what its receiver takes it for.
MessagesInStep == ReplyIsOwn /\ AcksInStep /\ DebugHasScan

\* SetLogicState changes only its own output, unless another thread switched between
\* its GetTTL and its SetTTL, which are two exchanges.
\* Code: FPGA_connection::SetLogicState, called by the ovens and the switch panel.
SwitchesOneOutput ==
    [][ServeSetTTL /\ ~PeerGone /\ owner \notin overtaken
       => \A b \in Bit \ {bit[owner]} : ttl'[b] = ttl[b]]_vars

\* A thread that has the link gets its reply and releases the link, unless one of the
\* two sides fails; a program that ends by its assertion leaves the FPGA spinning for the
\* next one.
CallReturns == \A c \in Client : owner = c ~> owner # c \/ faults > 0 \/ pcF = "spin"

\* The link implements remote function calls: they exclude each other, and each is
\* executed exactly once before it returns.
\* Code: fpga_lock, doXferWaitForAck, message_loop.
PhaseOf(c) ==
    IF owner # c           THEN "idle"
    ELSE IF executions = 0 THEN "called"
    ELSE IF executions = 1 THEN "executed"
    ELSE "twice"

Calls == INSTANCE RemoteCall WITH phase <- [c \in Client |-> PhaseOf(c)]

\* Every behaviour of the link is one of the abstract specification.
ImplementsRemoteCall == Calls!Spec
=============================================================================
