CONSTANTS
    l1 = l1
    l2 = l2
    l3 = l3
    g1 = g1
    g2 = g2
    g3 = g3
    c1 = c1
    c2 = c2
    NoLoop = NoLoop
    Loops <- MCLoops
    Goroutines <- MCGoroutines
    Callers <- MCTwoCallers
    StopDrainsTicker = TRUE
    TickRates = {30}
    Fns = {"fn"}
    SerialCallers = FALSE

SPECIFICATION Spec

\* Once the three GameLoop objects are used up the callers have nothing
\* left to do; the last loop may keep ticking or be idle.
CHECK_DEADLOCK FALSE

INVARIANT AtMostOneLiveLoop
