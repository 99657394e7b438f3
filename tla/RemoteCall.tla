---------------------------- MODULE RemoteCall ----------------------------
(***************************************************************************)
(* What FPGA_connection promises the threads of the host program: rfc =    *)
(* remote function call.  Calls exclude each other, and the FPGA executes  *)
(* a call exactly once between its beginning and its return.  When the     *)
(* program ends its calls are abandoned.                                   *)
(***************************************************************************)
CONSTANT Client
VARIABLES up,    \* the host program is running
          phase  \* what each thread knows of its call

Init == up = TRUE /\ phase = [c \in Client |-> "idle"]

Move(c, from, to) ==
    /\ up /\ phase[c] = from
    /\ phase' = [phase EXCEPT ![c] = to]
    /\ UNCHANGED up

Call(c)    == (\A d \in Client : phase[d] = "idle") /\ Move(c, "idle", "called")
Execute(c) == Move(c, "called", "executed")
Return(c)  == Move(c, "executed", "idle")

End   == up /\ up' = FALSE /\ phase' = [c \in Client |-> "idle"]
Start == ~up /\ up' = TRUE /\ UNCHANGED phase

Next == End \/ Start \/ \E c \in Client : Call(c) \/ Execute(c) \/ Return(c)

Spec == Init /\ [][Next]_<<up, phase>>
=============================================================================
