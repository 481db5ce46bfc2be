------------------------------- MODULE MC_Ticker -------------------------------
(* Two Ticker objects: a SetInterval and a SetTimeout, or two of either,  *)
(* so a user Clear, a done and a running interval can meet.               *)
EXTENDS Ticker

CONSTANTS t1, t2

MCTickers == {t1, t2}
=============================================================================
