--------------------------- MODULE MC_GroupUpdate ---------------------------
(* Three GameLoop objects and three startLoop goroutine ids: three         *)
(* SetOnUpdate calls in a row, each replacing the loop of the one before.  *)
EXTENDS GroupUpdate

CONSTANTS l1, l2, l3, g1, g2, g3, c1, c2

MCLoops == {l1, l2, l3}
MCGoroutines == {g1, g2, g3}
MCOneCaller == {c1}
MCTwoCallers == {c1, c2}
=============================================================================
