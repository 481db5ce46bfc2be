----------------------------- MODULE TickerSpec -----------------------------
(***************************************************************************)
(* What a Ticker promises (spec.md, section 4.2).  SetTimeout schedules a *)
(* single invocation and clears itself once it has run.  SetInterval       *)
(* invokes its callback again and again until it is cancelled.  Clear,     *)
(* which the cancellation performs, ends the invocations, and clearing a   *)
(* cleared Ticker does nothing.  An invocation is a start (Invoke) and an  *)
(* end (Return); the time between ticks is not part of the promise.        *)
(***************************************************************************)
EXTENDS Naturals

CONSTANT Tickers

VARIABLES
    mode,    \* "unused", "timeout", "interval" or "cleared"
    inCall,  \* the Ticker's callback is running
    fired    \* invocations a timeout has made

vars == <<mode, inCall, fired>>

Init ==
    /\ mode = [t \in Tickers |-> "unused"]
    /\ inCall = [t \in Tickers |-> FALSE]
    /\ fired = [t \in Tickers |-> 0]

Schedule(t, k) ==
    /\ mode[t] = "unused"
    /\ mode' = [mode EXCEPT ![t] = k]
    /\ UNCHANGED <<inCall, fired>>

\* A live Ticker starts its callback; a timeout does so once.
Invoke(t) ==
    /\ mode[t] \in {"timeout", "interval"}
    /\ ~inCall[t]
    /\ mode[t] = "timeout" => fired[t] = 0
    /\ inCall' = [inCall EXCEPT ![t] = TRUE]
    /\ fired' = [fired EXCEPT ![t] = IF mode[t] = "timeout" THEN @ + 1 ELSE @]
    /\ UNCHANGED mode

\* The callback returns; a timeout is cleared with it.
Return(t) ==
    /\ inCall[t]
    /\ inCall' = [inCall EXCEPT ![t] = FALSE]
    /\ mode' = [mode EXCEPT ![t] = IF @ = "timeout" THEN "cleared" ELSE @]
    /\ UNCHANGED fired

Clear(t) ==
    /\ mode[t] \in {"interval", "cleared"}
    /\ mode' = [mode EXCEPT ![t] = "cleared"]
    /\ UNCHANGED <<inCall, fired>>

Next ==
    \E t \in Tickers :
        \/ Schedule(t, "timeout") \/ Schedule(t, "interval")
        \/ Invoke(t) \/ Return(t) \/ Clear(t)

Spec == Init /\ [][Next]_vars
=============================================================================
