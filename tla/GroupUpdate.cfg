CONSTANTS
    l1 = l1
    l2 = l2
    l3 = l3
    g1 = g1
    g2 = g2
    g3 = g3
    c1 = c1
    c2 = c2
    NoLoop = NoLoop
    Loops <- MCLoops
    Goroutines <- MCGoroutines
    Callers <- MCTwoCallers
    \* ticker.Stop of Go 1.23 and later, which also drops a buffered tick
    \* (the older Stop is the run of GameLoop_StaleTick.cfg).
    StopDrainsTicker = TRUE
    TickRates = {30}
    Fns = {"fn"}
    \* The callers' SetOnUpdate calls never overlap, as when both run on
    \* the single logic goroutine; GroupUpdate_Concurrent.cfg lets them.
    SerialCallers = TRUE

SPECIFICATION Spec

\* Once the three GameLoop objects are used up the callers have nothing
\* left to do; the last loop may keep ticking or be idle.
CHECK_DEADLOCK FALSE

INVARIANT AtMostOneLiveLoop
PROPERTY SetOnUpdateReturns
