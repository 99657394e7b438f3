--------------------------- MODULE SchedulerList ---------------------------
(***************************************************************************)
(* The operations ScanScheduler performs on its vector                     *)
(* interleaved_experiments, as operators on sequences.  They are written   *)
(* as functions of an index so that they can be reasoned about without     *)
(* recursion.                                                              *)
(***************************************************************************)
EXTENDS Naturals, Sequences

\* The run objects a list mentions.
Elems(s) == {s[i] : i \in DOMAIN s}

\* No run object is in the list twice.
NoDup(s) == \A i, j \in DOMAIN s : s[i] = s[j] => i = j

\* The position std::find stops at.
IsFirst(s, x, i) == i \in DOMAIN s /\ s[i] = x /\ \A j \in 1 .. i - 1 : s[j] # x

\* vector::erase at position i.
Erase(s, i) == [j \in 1 .. Len(s) - 1 |-> IF j < i THEN s[j] ELSE s[j + 1]]

\* A slip: the waiting time is left out.
IsMaxElement_NoAging(s, dt, p, i) ==
    /\ i \in DOMAIN s
    /\ \A j \in DOMAIN s : IF j < i THEN p[s[j]] > p[s[i]] ELSE p[s[j]] >= p[s[i]]

\* ScanScheduler::GetNextExperiment: std::max_element of dt / (1 + priority)
\* returns the first of the largest.  The quotients are compared crosswise.
IsMaxElement(s, dt, p, i) ==
    /\ i \in DOMAIN s
    /\ \A j \in DOMAIN s :
          LET mine   == dt[s[i]] * (1 + p[s[j]])
              theirs == dt[s[j]] * (1 + p[s[i]])
          IN  IF j < i THEN mine > theirs ELSE mine >= theirs
=============================================================================
