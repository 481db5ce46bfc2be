------------------------------- MODULE Ticker -------------------------------
(***************************************************************************)
(* scheduler/ticker.go.  A Ticker wraps a time.Ticker (made by NewTicker  *)
(* with init = TRUE, as SetTimeout and SetInterval do), a Valid flag and  *)
(* DoneChan, a bool channel of capacity one.                               *)
(*                                                                         *)
(* SetInterval starts a goroutine that selects between a tick (run the    *)
(* callback) and the caller's done channel (Clear the ticker and return). *)
(* SetTimeout blocks its caller: it fills DoneChan, waits for one tick,   *)
(* runs the callback, calls Clear and returns.  Clear drains DoneChan if   *)
(* it is full, stops the time.Ticker and sets Valid to false.             *)
(*                                                                         *)
(* One user goroutine calls the API; its done channels are unbuffered and *)
(* it sends on each at most once (a second send would block it for good). *)
(* ticker.C has a buffer of one, and whether Stop discards a tick already *)
(* in it is the constant StopDrainsTicker (see GameLoop).  Callbacks run  *)
(* under safecall, which recovers a panic: a callback just returns.       *)
(***************************************************************************)
EXTENDS Naturals

CONSTANTS
    Tickers,          \* the Ticker objects the program makes
    StopDrainsTicker  \* time.Ticker.Stop discards a buffered tick

VARIABLES
    kind,      \* how each Ticker was made: "unused", "interval", "timeout"
    valid,     \* t.Valid
    doneLen,   \* len(t.DoneChan)
    tickerOn,  \* the embedded time.Ticker still ticks
    tickBuf,   \* a tick waits in t.C
    gpc,       \* the SetInterval goroutine: "none", "select", "callback",
               \* "clear", "exited"
    upc,       \* the user goroutine: "idle", "send_done", "timeout_wait",
               \* "timeout_callback"
    utk,       \* the Ticker the user is blocked on
    ran        \* ghost: callbacks a SetTimeout has run

vars == <<kind, valid, doneLen, tickerOn, tickBuf, gpc, upc, utk, ran>>

\* cap(t.DoneChan)
DoneCap == 1

Init ==
    /\ kind = [t \in Tickers |-> "unused"]
    /\ valid = [t \in Tickers |-> FALSE]
    /\ doneLen = [t \in Tickers |-> 0]
    /\ tickerOn = [t \in Tickers |-> FALSE]
    /\ tickBuf = [t \in Tickers |-> FALSE]
    /\ gpc = [t \in Tickers |-> "none"]
    /\ upc = "idle"
    /\ utk = CHOOSE t \in Tickers : TRUE
    /\ ran = [t \in Tickers |-> 0]

\* NewTicker(duration, true): Valid, an empty DoneChan, a running ticker.
NewTicker(t, k) ==
    /\ kind[t] = "unused"
    /\ kind' = [kind EXCEPT ![t] = k]
    /\ valid' = [valid EXCEPT ![t] = TRUE]
    /\ tickerOn' = [tickerOn EXCEPT ![t] = TRUE]

\* t.Clear(): if len(t.DoneChan) == cap(t.DoneChan) { <-t.DoneChan };
\* t.Stop(); t.Valid = false.
Clear(t) ==
    /\ doneLen' = [doneLen EXCEPT ![t] = IF @ = DoneCap THEN 0 ELSE @]
    /\ tickerOn' = [tickerOn EXCEPT ![t] = FALSE]
    /\ tickBuf' = [tickBuf EXCEPT ![t] = @ /\ ~StopDrainsTicker]
    /\ valid' = [valid EXCEPT ![t] = FALSE]

-----------------------------------------------------------------------------
(* The user goroutine                                                      *)

\* SetInterval: NewTicker(duration, true) and `go func() { for { select`.
SetInterval(t) ==
    /\ upc = "idle"
    /\ NewTicker(t, "interval")
    /\ gpc' = [gpc EXCEPT ![t] = "select"]
    /\ UNCHANGED <<doneLen, tickBuf, upc, utk, ran>>

\* SetTimeout: NewTicker(duration, true); ticker.DoneChan <- true; then
\* `for range ticker.C` blocks the caller until a tick.
SetTimeout(t) ==
    /\ upc = "idle"
    /\ NewTicker(t, "timeout")
    /\ doneLen' = [doneLen EXCEPT ![t] = 1]
    /\ upc' = "timeout_wait"
    /\ utk' = t
    /\ UNCHANGED <<tickBuf, gpc, ran>>

\* The range receives a tick; safecall(0, tickerFn) runs.
TimeoutTick ==
    /\ upc = "timeout_wait"
    /\ tickBuf[utk]
    /\ tickBuf' = [tickBuf EXCEPT ![utk] = FALSE]
    /\ upc' = "timeout_callback"
    /\ ran' = [ran EXCEPT ![utk] = @ + 1]
    /\ UNCHANGED <<kind, valid, doneLen, tickerOn, gpc, utk>>

\* Mutant: SetTimeout returns without clearing its ticker.
TimeoutReturnsNoClear ==
    /\ upc = "timeout_callback"
    /\ upc' = "idle"
    /\ UNCHANGED <<kind, valid, doneLen, tickerOn, tickBuf, gpc, utk, ran>>

\* The callback has returned: ticker.Clear(); return ticker.
TimeoutReturns ==
    /\ upc = "timeout_callback"
    /\ Clear(utk)
    /\ upc' = "idle"
    /\ UNCHANGED <<kind, gpc, utk, ran>>

\* done <- true on the channel given to SetInterval(t): the user blocks
\* until the interval goroutine receives it.
SendDone(t) ==
    /\ upc = "idle"
    /\ gpc[t] \in {"select", "callback"}
    /\ upc' = "send_done"
    /\ utk' = t
    /\ UNCHANGED <<kind, valid, doneLen, tickerOn, tickBuf, gpc, ran>>

\* The user calls t.Clear() on a Ticker it holds.
UserClear(t) ==
    /\ upc = "idle"
    /\ kind[t] # "unused"
    /\ Clear(t)
    /\ UNCHANGED <<kind, gpc, upc, utk, ran>>

-----------------------------------------------------------------------------
(* The time.Ticker and the SetInterval goroutine                          *)

\* The runtime delivers a tick; a full t.C drops it.
TickerFires(t) ==
    /\ tickerOn[t]
    /\ ~tickBuf[t]
    /\ tickBuf' = [tickBuf EXCEPT ![t] = TRUE]
    /\ UNCHANGED <<kind, valid, doneLen, tickerOn, gpc, upc, utk, ran>>

\* case <-ticker.C: safecall(0, tickerFn)
IntervalTick(t) ==
    /\ gpc[t] = "select"
    /\ tickBuf[t]
    /\ tickBuf' = [tickBuf EXCEPT ![t] = FALSE]
    /\ gpc' = [gpc EXCEPT ![t] = "callback"]
    /\ UNCHANGED <<kind, valid, doneLen, tickerOn, upc, utk, ran>>

IntervalCallbackReturns(t) ==
    /\ gpc[t] = "callback"
    /\ gpc' = [gpc EXCEPT ![t] = "select"]
    /\ UNCHANGED <<kind, valid, doneLen, tickerOn, tickBuf, upc, utk, ran>>

\* Mutant: the done case clears the ticker and goes round the loop again.
IntervalClearNoReturn(t) ==
    /\ gpc[t] = "clear"
    /\ Clear(t)
    /\ gpc' = [gpc EXCEPT ![t] = "select"]
    /\ UNCHANGED <<kind, upc, utk, ran>>

\* case <-done: the user's send completes.
IntervalDone(t) ==
    /\ gpc[t] = "select"
    /\ upc = "send_done"
    /\ utk = t
    /\ upc' = "idle"
    /\ gpc' = [gpc EXCEPT ![t] = "clear"]
    /\ UNCHANGED <<kind, valid, doneLen, tickerOn, tickBuf, utk, ran>>

\* ticker.Clear(); return
IntervalClear(t) ==
    /\ gpc[t] = "clear"
    /\ Clear(t)
    /\ gpc' = [gpc EXCEPT ![t] = "exited"]
    /\ UNCHANGED <<kind, upc, utk, ran>>

IntervalStep(t) ==
    \/ IntervalTick(t) \/ IntervalCallbackReturns(t)
    \/ IntervalDone(t) \/ IntervalClear(t)

UserStep ==
    \/ \E t \in Tickers :
          SetInterval(t) \/ SetTimeout(t) \/ SendDone(t) \/ UserClear(t)
    \/ TimeoutTick \/ TimeoutReturns

Next ==
    \/ UserStep
    \/ \E t \in Tickers : TickerFires(t) \/ IntervalStep(t)

(* Fairness.  A running time.Ticker keeps ticking as time passes: weak    *)
(* fairness for TickerFires.  The runtime runs every runnable goroutine:  *)
(* weak fairness for a callback returning (callbacks must not block), for *)
(* the Clear after done, and for the blocked SetTimeout's steps.  select  *)
(* picks uniformly among ready cases, so a done that is ready every time  *)
(* the goroutine is back at its select is received: strong fairness for   *)
(* IntervalDone.  New calls of the user need no fairness.                 *)
Fairness ==
    /\ WF_vars(TimeoutTick) /\ WF_vars(TimeoutReturns)
    /\ \A t \in Tickers :
          /\ WF_vars(TickerFires(t))
          /\ WF_vars(IntervalCallbackReturns(t))
          /\ WF_vars(IntervalClear(t))
          /\ SF_vars(IntervalDone(t))

Spec == Init /\ [][Next]_vars /\ Fairness

-----------------------------------------------------------------------------
(* Properties                                                              *)

TypeOK ==
    /\ kind \in [Tickers -> {"unused", "interval", "timeout"}]
    /\ valid \in [Tickers -> BOOLEAN]
    /\ doneLen \in [Tickers -> 0..DoneCap]
    /\ tickerOn \in [Tickers -> BOOLEAN]
    /\ tickBuf \in [Tickers -> BOOLEAN]
    /\ gpc \in [Tickers -> {"none", "select", "callback", "clear", "exited"}]
    /\ upc \in {"idle", "send_done", "timeout_wait", "timeout_callback"}
    /\ utk \in Tickers
    /\ ran \in [Tickers -> Nat]

\* Once a SetTimeout has returned, its callback has run exactly once and
\* its Ticker is spent: not Valid, DoneChan drained, the time.Ticker
\* stopped with no tick left in t.C.
TimeoutClearsTicker ==
    \A t \in Tickers :
        /\ kind[t] = "timeout"
        /\ ~(upc \in {"timeout_wait", "timeout_callback"} /\ utk = t)
        => /\ ran[t] = 1
           /\ ~valid[t] /\ doneLen[t] = 0
           /\ ~tickerOn[t] /\ ~tickBuf[t]

\* The refinement mapping: a Ticker is cleared once Valid is false, and
\* its callback runs while the SetTimeout caller or the SetInterval
\* goroutine is inside safecall.
AbsMode(t) ==
    IF kind[t] = "unused" THEN "unused"
    ELSE IF valid[t] THEN kind[t] ELSE "cleared"

InCallback(t) ==
    \/ kind[t] = "timeout" /\ upc = "timeout_callback" /\ utk = t
    \/ kind[t] = "interval" /\ gpc[t] = "callback"

TS == INSTANCE TickerSpec WITH
        mode <- [t \in Tickers |-> AbsMode(t)],
        inCall <- [t \in Tickers |-> InCallback(t)],
        fired <- ran

\* spec.md 4.2: the Tickers behave as TickerSpec says -- a SetTimeout runs
\* its callback once and is then cleared, and a Ticker that has been
\* cleared (by the program, or by SetInterval's goroutine on done) starts
\* no further callback, even with a tick already waiting in t.C.
ImplementsTickerSpec == TS!Spec

\* A done sent to SetInterval is received, and the goroutine clears the
\* Ticker and returns.
IntervalEndsOnDone ==
    \A t \in Tickers : (upc = "send_done" /\ utk = t) ~> gpc[t] = "exited"
====
