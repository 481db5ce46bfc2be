------------------------------ MODULE GameLoop ------------------------------
(***************************************************************************)
(* scheduler/gameloop.go.  A GameLoop object owns an unbuffered quit      *)
(* channel.  Start launches a goroutine running startLoop, which makes a   *)
(* time.Ticker and selects forever between a tick (run the callback) and  *)
(* a quit (stop the ticker -- and keep looping: startLoop never returns).  *)
(* Stop sends on quit and blocks until some startLoop goroutine of the     *)
(* object receives it; Restart is Stop then Start; SetTickRate stores the  *)
(* rate and restarts.                                                      *)
(*                                                                         *)
(* The ticker channel has a buffer of one: a tick that finds it full is    *)
(* dropped.  Whether ticker.Stop() also discards a tick already in that    *)
(* buffer depends on the Go toolchain (it does from Go 1.23 on, with the   *)
(* module's go directive >= 1.23): the constant StopDrainsTicker.         *)
(* Time and the delta passed to the callback are abstracted away: a tick  *)
(* may come at any moment while the ticker runs.  The tick rate is kept    *)
(* as the number it is, for the interval startLoop divides out of it, and  *)
(* the callback as "fn" or "nil".  A panic in a startLoop goroutine has no *)
(* recover above it and ends the process: the variable crashed.            *)
(***************************************************************************)
EXTENDS Naturals

CONSTANTS
    Loops,            \* GameLoop objects (NewGameLoop results)
    Goroutines,       \* ids for the startLoop goroutines ever launched
    Callers,          \* goroutines that call the GameLoop methods
    NoLoop,           \* marks a goroutine id not launched yet
    StopDrainsTicker, \* ticker.Stop() discards a buffered tick
    TickRates,        \* tick rates callers pass to NewGameLoop/SetTickRate
    Fns               \* callbacks they pass: "fn", or "nil" for a nil func

ASSUME /\ NoLoop \notin Loops /\ StopDrainsTicker \in BOOLEAN
       /\ TickRates \subseteq Nat /\ Fns \subseteq {"fn", "nil"}

\* time.Second, in the nanoseconds of a time.Duration.
Second == 1000000000

VARIABLES
    glOf,      \* the GameLoop whose startLoop each goroutine runs
    lpc,       \* where each startLoop goroutine is
    tickerOn,  \* its time.Ticker still ticks
    tickBuf,   \* a tick waits in its ticker.C
    quit,      \* quit[l]: callers blocked in gl.quit <- true
    taken,     \* callers whose quit value a startLoop has received
    quitSeen,  \* ghost: the goroutine has received a quit
    cpc,       \* where each caller of the methods is
    running,   \* ghost: the object is Running in the spec's life cycle
    stopped,   \* ghost: a Stop has returned and no Start came after it
    rateOf,    \* gl.tickRate of each object
    fnOf,      \* gl.onUpdate of each object
    crashed    \* a startLoop goroutine panicked: the process has exited

loopVars == <<glOf, lpc, tickerOn, tickBuf, quit, taken, quitSeen, crashed>>
apiVars  == <<cpc, running, stopped, rateOf, fnOf>>
vars == <<loopVars, apiVars>>

LPCs == {"unlaunched", "pending", "select", "callback"}

\* The goroutines and channels of objects just made by NewGameLoop.
LoopInit ==
    /\ glOf = [g \in Goroutines |-> NoLoop]
    /\ lpc = [g \in Goroutines |-> "unlaunched"]
    /\ tickerOn = [g \in Goroutines |-> FALSE]
    /\ tickBuf = [g \in Goroutines |-> FALSE]
    /\ quit = [l \in Loops |-> {}]
    /\ taken = {}
    /\ quitSeen = [g \in Goroutines |-> FALSE]
    /\ crashed = FALSE

\* NewGameLoop(tickRate, onUpdate) with the caller's arguments.
Init ==
    /\ LoopInit
    /\ rateOf \in [Loops -> TickRates]
    /\ fnOf \in [Loops -> Fns]
    /\ cpc = [c \in Callers |-> "idle"]
    /\ running = FALSE
    /\ stopped = FALSE

-----------------------------------------------------------------------------
(* Operators a caller of the methods uses.                                 *)

\* go gl.startLoop(): a fresh goroutine id is bound to the object.
Launch(l) ==
    \E g \in Goroutines :
        /\ lpc[g] = "unlaunched"
        /\ glOf' = [glOf EXCEPT ![g] = l]
        /\ lpc' = [lpc EXCEPT ![g] = "pending"]

CanLaunch == \E g \in Goroutines : lpc[g] = "unlaunched"

\* gl.quit <- true: the caller blocks until a receiver takes the value.
SendQuit(c, l) == quit' = [quit EXCEPT ![l] = @ \cup {c}]

QuitTaken(c) == c \in taken

\* The send has completed; the caller runs on.
EndSend(c) == taken' = taken \ {c}

-----------------------------------------------------------------------------
(* startLoop                                                               *)

\* tickInterval := time.Second / gl.tickRate panics on a zero rate, and
\* time.NewTicker panics on an interval that is not positive (a rate above
\* time.Second); otherwise the ticker starts and the for/select begins.
LoopBegin(g) ==
    /\ lpc[g] = "pending"
    /\ LET r == rateOf[glOf[g]] IN
       \/ /\ r = 0 \/ Second \div r <= 0
          /\ crashed' = TRUE
          /\ UNCHANGED <<lpc, tickerOn>>
       \/ /\ r # 0 /\ Second \div r > 0
          /\ lpc' = [lpc EXCEPT ![g] = "select"]
          /\ tickerOn' = [tickerOn EXCEPT ![g] = TRUE]
          /\ UNCHANGED crashed
    /\ UNCHANGED <<glOf, tickBuf, quit, taken, quitSeen>>

\* The runtime delivers a tick; a full ticker.C drops it.
TickerFires(g) ==
    /\ tickerOn[g]
    /\ ~tickBuf[g]
    /\ tickBuf' = [tickBuf EXCEPT ![g] = TRUE]
    /\ UNCHANGED <<glOf, lpc, tickerOn, quit, taken, quitSeen, crashed>>

\* case <-ticker.C: compute delta, call gl.onUpdate(delta).
ReceiveTick(g) ==
    /\ lpc[g] = "select"
    /\ tickBuf[g]
    /\ tickBuf' = [tickBuf EXCEPT ![g] = FALSE]
    /\ lpc' = [lpc EXCEPT ![g] = "callback"]
    /\ UNCHANGED <<glOf, tickerOn, quit, taken, quitSeen, crashed>>

\* gl.onUpdate(delta) returns and the loop is back at its select; a nil
\* onUpdate panics instead.
CallbackReturns(g) ==
    /\ lpc[g] = "callback"
    /\ \/ /\ fnOf[glOf[g]] = "fn"
          /\ lpc' = [lpc EXCEPT ![g] = "select"]
          /\ UNCHANGED crashed
       \/ /\ fnOf[glOf[g]] = "nil"
          /\ crashed' = TRUE
          /\ UNCHANGED lpc
    /\ UNCHANGED <<glOf, tickerOn, tickBuf, quit, taken, quitSeen>>

\* case <-gl.quit: ticker.Stop(), and the for loop goes round again.  When
\* both cases are ready, select picks either.
ReceiveQuit(g) ==
    /\ lpc[g] = "select"
    /\ \E c \in quit[glOf[g]] :
          /\ quit' = [quit EXCEPT ![glOf[g]] = @ \ {c}]
          /\ taken' = taken \cup {c}
    /\ tickerOn' = [tickerOn EXCEPT ![g] = FALSE]
    /\ tickBuf' = [tickBuf EXCEPT ![g] = @ /\ ~StopDrainsTicker]
    /\ quitSeen' = [quitSeen EXCEPT ![g] = TRUE]
    /\ UNCHANGED <<glOf, lpc, crashed>>

LoopStep(g) ==
    \/ LoopBegin(g) \/ TickerFires(g) \/ ReceiveTick(g)
    \/ CallbackReturns(g) \/ ReceiveQuit(g)

-----------------------------------------------------------------------------
(* The methods, called on one object by goroutines that follow the spec's *)
(* life cycle: Start when not Running, Stop and Restart when Running.      *)

TheLoop == CHOOSE l \in Loops : TRUE

\* func (gl *GameLoop) Start() { go gl.startLoop() }
Start(c) ==
    /\ cpc[c] = "idle"
    /\ ~running
    /\ CanLaunch
    /\ Launch(TheLoop)
    /\ running' = TRUE
    /\ stopped' = FALSE
    /\ UNCHANGED <<tickerOn, tickBuf, quit, taken, quitSeen, cpc>>

\* func (gl *GameLoop) Stop() { gl.quit <- true }
Stop(c) ==
    /\ cpc[c] = "idle"
    /\ running
    /\ SendQuit(c, TheLoop)
    /\ cpc' = [cpc EXCEPT ![c] = "stop"]
    /\ running' = FALSE
    /\ UNCHANGED <<glOf, lpc, tickerOn, tickBuf, taken, quitSeen, stopped>>

StopReturns(c) ==
    /\ cpc[c] = "stop"
    /\ QuitTaken(c)
    /\ EndSend(c)
    /\ cpc' = [cpc EXCEPT ![c] = "idle"]
    /\ stopped' = TRUE
    /\ UNCHANGED <<glOf, lpc, tickerOn, tickBuf, quit, quitSeen, running>>

\* Restart: gl.Stop(), then gl.Start().
Restart(c) ==
    /\ cpc[c] = "idle"
    /\ running
    /\ CanLaunch
    /\ SendQuit(c, TheLoop)
    /\ cpc' = [cpc EXCEPT ![c] = "restart"]
    /\ UNCHANGED <<glOf, lpc, tickerOn, tickBuf, taken, quitSeen, running,
                   stopped>>

\* gl.tickRate = tickRate (read by the next startLoop), then gl.Restart().
SetTickRate(c) ==
    /\ \E r \in TickRates : rateOf' = [rateOf EXCEPT ![TheLoop] = r]
    /\ Restart(c)

RestartStarts(c) ==
    /\ cpc[c] = "restart"
    /\ QuitTaken(c)
    /\ EndSend(c)
    /\ Launch(TheLoop)
    /\ cpc' = [cpc EXCEPT ![c] = "idle"]
    /\ UNCHANGED <<tickerOn, tickBuf, quit, quitSeen, running, stopped>>

CallerStep(c) ==
    /\ \/ /\ \/ Start(c) \/ Stop(c) \/ StopReturns(c)
             \/ Restart(c) \/ RestartStarts(c)
          /\ UNCHANGED rateOf
       \/ SetTickRate(c)
    /\ UNCHANGED <<fnOf, crashed>>

\* Nothing runs once the process has exited.
Next ==
    /\ ~crashed
    /\ \/ \E g \in Goroutines : LoopStep(g) /\ UNCHANGED apiVars
       \/ \E c \in Callers : CallerStep(c)

Spec == Init /\ [][Next]_vars

-----------------------------------------------------------------------------
(* Properties                                                              *)

TypeOK ==
    /\ glOf \in [Goroutines -> Loops \cup {NoLoop}]
    /\ lpc \in [Goroutines -> LPCs]
    /\ tickerOn \in [Goroutines -> BOOLEAN]
    /\ tickBuf \in [Goroutines -> BOOLEAN]
    /\ quit \in [Loops -> SUBSET Callers]
    /\ taken \subseteq Callers
    /\ quitSeen \in [Goroutines -> BOOLEAN]
    /\ cpc \in [Callers -> {"idle", "stop", "restart"}]
    /\ running \in BOOLEAN
    /\ stopped \in BOOLEAN
    /\ rateOf \in [Loops -> Nat]
    /\ fnOf \in [Loops -> {"fn", "nil"}]
    /\ crashed \in BOOLEAN

\* A startLoop goroutine that has received a quit runs no callback again:
\* ticker.Stop() leaves it nothing to receive on ticker.C.
ReceivedQuitIsFinal ==
    \A g \in Goroutines :
        quitSeen[g] => ~tickerOn[g] /\ ~tickBuf[g] /\ lpc[g] = "select"

\* Stopped is terminal until the next Start: once Stop has returned, no
\* goroutine of the object ticks or runs its callback.
StopQuiescesLoop ==
    stopped =>
        \A g \in Goroutines :
            glOf[g] = TheLoop =>
                ~tickerOn[g] /\ ~tickBuf[g] /\ lpc[g] # "callback"
=============================================================================
