------------------------ MODULE ExperimentContract ------------------------
(***************************************************************************)
(* What Experiment.h promises the author of an experiment: experiments     *)
(* share one apparatus.  A run of an experiment is launched, initialized   *)
(* once, then becomes active and pauses any number of times, and is        *)
(* retired only after it gave the apparatus back.  Never are two active.   *)
(*                                                                         *)
(* Strict is the promise.  The program does not keep it entirely: see      *)
(* InitializeAgain, which Spec adds.                                       *)
(***************************************************************************)
CONSTANT Exp
VARIABLE phase

Init == phase = [e \in Exp |-> "idle"]

Move(e, from, to) == phase[e] \in from /\ phase' = [phase EXCEPT ![e] = to]

\* An experiment is started.
Launch(e) == Move(e, {"idle"}, "queued")

\* InitExperimentStart: "called once when the experiment is first started".
Initialize(e) == Move(e, {"queued"}, "started")

\* InitExperimentSwitch: "called every time before the experiment continues, after
\* another experiment was running".
Activate(e) ==
    /\ \A f \in Exp : phase[f] # "active"
    /\ Move(e, {"started", "paused"}, "active")

\* DefaultExperimentState: "called every time the experiment should pause.  put the
\* apparatus back into a useful state here so other experiments can run".
Pause(e) == Move(e, {"active"}, "paused")

\* FinishRun: "called once when the experiment has finished".
Retire(e) == Move(e, {"started", "again", "paused"}, "idle")

Promised(e) ==
    Launch(e) \/ Initialize(e) \/ Activate(e) \/ Pause(e) \/ Retire(e)

\* What "called once" forbids and the program does: InitExperimentStart is called a
\* second time for an experiment that did not become active after the first call.  It
\* never becomes active after the second.
InitializeAgain(e) == Move(e, {"started"}, "again")

Strict == Init /\ [][\E e \in Exp : Promised(e)]_phase

Next == \E e \in Exp : Promised(e) \/ InitializeAgain(e)
Spec == Init /\ [][Next]_phase
=============================================================================
