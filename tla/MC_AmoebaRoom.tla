----------------------------- MODULE MC_AmoebaRoom -----------------------------
(* Three sessions and three Room objects, so that each Join could make its *)
(* own room; sessions and rooms are interchangeable.                        *)
EXTENDS AmoebaRoom, TLC

CONSTANTS s1, s2, s3, r1, r2, r3

MCSess == {s1, s2, s3}
MCRoomIds == {r1, r2, r3}

MCSymmetry == Permutations(MCSess) \cup Permutations(MCRoomIds)
=============================================================================
