------------------------------ MODULE MC_Group ------------------------------
(* Three goroutines and two sessions: enough for two fan-outs to overlap   *)
(* while a writer waits, and for an Add to race a Close.                   *)
EXTENDS Group, TLC

CONSTANTS p1, p2, p3, s1, s2

MCProcs == {p1, p2, p3}
MCSessions == {s1, s2}

\* Goroutines and sessions are interchangeable (safety runs only).
MCSymmetry == Permutations(MCProcs) \cup Permutations(MCSessions)
=============================================================================
