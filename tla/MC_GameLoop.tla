----------------------------- MODULE MC_GameLoop -----------------------------
(* One GameLoop object, one calling goroutine, and three startLoop         *)
(* goroutine ids: enough for Start, Stop, Start (or Restart) and a Stop    *)
(* that meets two startLoop goroutines on the same quit channel.           *)
EXTENDS GameLoop

CONSTANTS gl, c1, g1, g2, g3

MCLoops == {gl}
MCCallers == {c1}
MCGoroutines == {g1, g2, g3}
=============================================================================
