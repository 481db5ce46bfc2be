CONSTANTS
    t1 = t1
    t2 = t2
    Tickers <- MCTickers
    \* ticker.Stop before Go 1.23: a tick already in the channel stays
    \* there after Stop (the repository has no go.mod naming a version).
    StopDrainsTicker = FALSE

SPECIFICATION Spec

\* Once both Tickers are made and spent the program has nothing left to
\* call.
CHECK_DEADLOCK FALSE

PROPERTY ImplementsTickerSpec
