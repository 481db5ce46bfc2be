CONSTANTS
    gl = gl
    c1 = c1
    g1 = g1
    g2 = g2
    g3 = g3
    NoLoop = NoLoop
    Loops <- MCLoops
    Callers <- MCCallers
    Goroutines <- MCGoroutines
    StopDrainsTicker = FALSE
    TickRates = {30}
    Fns = {"fn"}

SPECIFICATION Spec

\* With every goroutine id used and the loop stopped, nothing is left to do.
CHECK_DEADLOCK FALSE

INVARIANT ReceivedQuitIsFinal
