CONSTANTS
    t1 = t1
    t2 = t2
    Tickers <- MCTickers
    \* ticker.Stop of Go 1.23 and later: Stop also drops a tick already
    \* buffered in the channel.  Ticker_StaleClear.cfg runs the older Stop.
    StopDrainsTicker = TRUE

SPECIFICATION Spec

\* Once both Tickers are made and spent the program has nothing left to
\* call; a ticker the user cleared without a done keeps its goroutine
\* parked at the select.
CHECK_DEADLOCK FALSE

INVARIANT TimeoutClearsTicker
PROPERTY IntervalEndsOnDone
