----------------------------- MODULE GroupSpec -----------------------------
(***************************************************************************)
(* What a Group promises (spec.md, section 4.1): a registry of session     *)
(* IDs with a status that goes from Working to Closed once and never back. *)
(* Each operation is one atomic step.  An operation that fails (Add, Leave *)
(* or LeaveAll on a closed group, Close of a closed group, a duplicate     *)
(* Add) changes nothing and is a stuttering step.  closes counts the Close *)
(* calls that succeeded.  Lookups and fan-outs change nothing either.     *)
(***************************************************************************)
EXTENDS Naturals

CONSTANT Sessions

VARIABLES status, members, closes

vars == <<status, members, closes>>

Init ==
    /\ status = "Working"
    /\ members = {}
    /\ closes = 0

\* Add inserts, unless the ID is already there (DuplicateMember).
Add(s) ==
    /\ status = "Working"
    /\ members' = members \cup {s}
    /\ UNCHANGED <<status, closes>>

\* Leave removes, present or not.
Leave(s) ==
    /\ status = "Working"
    /\ members' = members \ {s}
    /\ UNCHANGED <<status, closes>>

LeaveAll ==
    /\ status = "Working"
    /\ members' = {}
    /\ UNCHANGED <<status, closes>>

\* Close "atomically flips status and drops all session references"; on a
\* closed group it fails with AlreadyClosed.
Close ==
    /\ status = "Working"
    /\ status' = "Closed"
    /\ members' = {}
    /\ closes' = closes + 1

Next == LeaveAll \/ Close \/ \E s \in Sessions : Add(s) \/ Leave(s)

Spec == Init /\ [][Next]_vars
=============================================================================
