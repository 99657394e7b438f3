-------------------------- MODULE MCScanScheduler --------------------------
(* Small instances of ScanScheduler for TLC. *)
EXTENDS ScanScheduler, TLC

CONSTANTS e1, e2, e3

NoLaunches  == [e \in Exp |-> [c \in Callbacks |-> {}]]
\* e1 is an alignment page: its InitExperimentStart launches the calibration e2, whose
\* FinishRun launches e1 again for the next item.
Alignment   == [NoLaunches EXCEPT ![e1]["init"] = {e2}, ![e2]["finish"] = {e1}]
\* e1 is an experiment list.
StartsList  == [NoLaunches EXCEPT ![e1]["run"] = Exp \ {e1}]
EqualPrio   == [e \in Exp |-> 1]
MixedPrio   == [e \in Exp |-> IF e = e1 THEN 0 ELSE IF e = e2 THEN 1 ELSE 3]
Addresses   == Permutations(RunObj)
=============================================================================
