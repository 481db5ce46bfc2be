------------------------------- MODULE MC_Room -------------------------------
(* Three sessions and as many Room objects as sessions, so that every Join  *)
(* could make its own room.                                                 *)
EXTENDS Room, TLC

CONSTANTS s1, s2, s3, r1, r2, r3

MCSess == {s1, s2, s3}
MCRoomIds == {r1, r2, r3}
MCSymmetry == Permutations(MCSess) \cup Permutations(MCRoomIds)
=============================================================================
