----------------------------- MODULE GroupUpdate -----------------------------
(***************************************************************************)
(* Group.SetOnUpdate (group.go) driving the GameLoop of                    *)
(* scheduler/gameloop.go.  g.lifeCycles.OnUpdate points to the current     *)
(* GameLoop.  SetOnUpdate stops the loop it finds there, clears the field, *)
(* stores a new GameLoop and starts it with `go ...Start()`.  Nothing      *)
(* guards the field: callers that run SetOnUpdate at the same time each    *)
(* read and write it between the steps below.  Whether the callers of    *)
(* SetOnUpdate can overlap is the constant SerialCallers: the demos call  *)
(* it from Join handlers, which a single logic goroutine runs one at a     *)
(* time, or which run in parallel with one context per connection.        *)
(***************************************************************************)
EXTENDS FiniteSets, Naturals

CONSTANTS Loops, Goroutines, Callers, NoLoop, StopDrainsTicker,
          TickRates,      \* the tickRate arguments of SetOnUpdate
          Fns,            \* its fn arguments: "fn", or "nil"
          SerialCallers   \* SetOnUpdate calls never overlap

VARIABLES
    glOf, lpc, tickerOn, tickBuf, quit, taken, quitSeen,  \* see GameLoop
    rateOf, fnOf, crashed,                                \* see GameLoop
    onUpdate,   \* g.lifeCycles.OnUpdate (NoLoop for nil)
    created,    \* GameLoop objects NewGameLoop has returned
    upc         \* where each SetOnUpdate caller is

GL == INSTANCE GameLoop WITH cpc <- upc, running <- FALSE, stopped <- FALSE

loopVars == <<glOf, lpc, tickerOn, tickBuf, quit, taken, quitSeen, crashed>>
vars == <<loopVars, rateOf, fnOf, onUpdate, created, upc>>

UPCs == {"idle", "stop", "stop_wait", "clear", "install", "start",
         "panicked"}

Init ==
    /\ GL!LoopInit
    /\ rateOf = [l \in Loops |-> 0]
    /\ fnOf = [l \in Loops |-> "nil"]
    /\ onUpdate = NoLoop
    /\ created = {}
    /\ upc = [c \in Callers |-> "idle"]

SetPc(c, l) == upc' = [upc EXCEPT ![c] = l]

\* A SetOnUpdate call is under way.
Busy(c) == upc[c] \notin {"idle", "panicked"}

\* With a single logic goroutine a call starts only when none is under way.
MayCall(c) == ~SerialCallers \/ \A d \in Callers : ~Busy(d)

-----------------------------------------------------------------------------
(* func (g *Group) SetOnUpdate(fn func(delta float64), tickRate int64)     *)

\* Model bound: a new call starts only while every call under way can still
\* get a fresh GameLoop object and a fresh goroutine id.
CallBound ==
    LET toInstall == {d \in Callers : upc[d] \in {"stop", "stop_wait", "clear",
                                                  "install"}}
        inFlight  == {d \in Callers : upc[d] \notin {"idle", "panicked"}}
    IN  /\ Cardinality(created) + Cardinality(toInstall) < Cardinality(Loops)
        /\ Cardinality(inFlight)
              < Cardinality({g \in Goroutines : lpc[g] = "unlaunched"})

\* Mutant: the previous GameLoop is not stopped before the new one.
SetOnUpdateNoStop(c) ==
    /\ upc[c] = "idle"
    /\ MayCall(c)
    /\ CallBound
    /\ SetPc(c, "install")
    /\ UNCHANGED <<loopVars, rateOf, fnOf, onUpdate, created>>

\* if g.lifeCycles.OnUpdate != nil
SetOnUpdate(c) ==
    /\ upc[c] = "idle"
    /\ MayCall(c)
    /\ CallBound
    /\ SetPc(c, IF onUpdate # NoLoop THEN "stop" ELSE "install")
    /\ UNCHANGED <<loopVars, rateOf, fnOf, onUpdate, created>>

\* g.lifeCycles.OnUpdate.Stop(): the field is read again; on nil the
\* method call dereferences a nil *GameLoop and the goroutine panics.
SetOnUpdateStop(c) ==
    /\ upc[c] = "stop"
    /\ \/ /\ onUpdate = NoLoop
          /\ SetPc(c, "panicked")
          /\ UNCHANGED quit
       \/ /\ onUpdate # NoLoop
          /\ GL!SendQuit(c, onUpdate)
          /\ SetPc(c, "stop_wait")
    /\ UNCHANGED <<glOf, lpc, tickerOn, tickBuf, taken, quitSeen, crashed,
                   rateOf, fnOf, onUpdate, created>>

\* Stop returns once a startLoop goroutine has received the quit.
SetOnUpdateStopped(c) ==
    /\ upc[c] = "stop_wait"
    /\ GL!QuitTaken(c)
    /\ GL!EndSend(c)
    /\ SetPc(c, "clear")
    /\ UNCHANGED <<glOf, lpc, tickerOn, tickBuf, quit, quitSeen, crashed,
                   rateOf, fnOf, onUpdate, created>>

\* g.lifeCycles.OnUpdate = nil (with g.tickRate and g.onUpdate).
SetOnUpdateClear(c) ==
    /\ upc[c] = "clear"
    /\ onUpdate' = NoLoop
    /\ SetPc(c, "install")
    /\ UNCHANGED <<loopVars, rateOf, fnOf, created>>

\* g.tickRate = tickRate; g.onUpdate = fn; g.lifeCycles.OnUpdate =
\* scheduler.NewGameLoop(g.tickRate, g.onUpdate).
SetOnUpdateInstall(c) ==
    /\ upc[c] = "install"
    /\ \E l \in Loops \ created, r \in TickRates, f \in Fns :
          /\ created' = created \cup {l}
          /\ rateOf' = [rateOf EXCEPT ![l] = r]
          /\ fnOf' = [fnOf EXCEPT ![l] = f]
          /\ onUpdate' = l
    /\ SetPc(c, "start")
    /\ UNCHANGED loopVars

\* Mutant: the new GameLoop is stored but never started.
SetOnUpdateStartNoGo(c) ==
    /\ upc[c] = "start"
    /\ SetPc(c, "idle")
    /\ UNCHANGED <<loopVars, rateOf, fnOf, onUpdate, created>>

\* go g.lifeCycles.OnUpdate.Start(): the field is read by the caller, and
\* Start launches startLoop on whatever GameLoop it holds now; on nil,
\* startLoop reads gl.tickRate through a nil *GameLoop and the panic, with
\* no recover in that goroutine, ends the process.
SetOnUpdateStart(c) ==
    /\ upc[c] = "start"
    /\ SetPc(c, "idle")
    /\ \/ /\ onUpdate = NoLoop
          /\ crashed' = TRUE
          /\ UNCHANGED <<glOf, lpc>>
       \/ /\ onUpdate # NoLoop
          /\ GL!Launch(onUpdate)
          /\ UNCHANGED crashed
    /\ UNCHANGED <<tickerOn, tickBuf, quit, taken, quitSeen, rateOf, fnOf,
                   onUpdate, created>>

CallerStep(c) ==
    \/ SetOnUpdate(c) \/ SetOnUpdateStop(c) \/ SetOnUpdateStopped(c)
    \/ SetOnUpdateClear(c) \/ SetOnUpdateInstall(c) \/ SetOnUpdateStart(c)

LoopStep(g) ==
    GL!LoopStep(g) /\ UNCHANGED <<rateOf, fnOf, onUpdate, created, upc>>

\* Nothing runs once the process has exited.
Next ==
    /\ ~crashed
    /\ \/ \E g \in Goroutines : LoopStep(g)
       \/ \E c \in Callers : CallerStep(c)

(* Fairness.  The runtime runs every runnable goroutine: weak fairness for *)
(* starting a loop, returning from a callback (callbacks must not block)   *)
(* and a SetOnUpdate under way.  select chooses uniformly among ready      *)
(* cases, so a quit that is ready each time the loop comes back to its     *)
(* select is eventually taken: strong fairness for ReceiveQuit.  Ticks and *)
(* new SetOnUpdate calls need no fairness.                                 *)
Fairness ==
    /\ \A g \in Goroutines :
          /\ WF_vars(LoopStep(g) /\ lpc[g] \in {"pending", "callback"})
          /\ SF_vars(/\ GL!ReceiveQuit(g)
                     /\ UNCHANGED <<rateOf, fnOf, onUpdate, created, upc>>)
    /\ \A c \in Callers : WF_vars(Busy(c) /\ CallerStep(c))

Spec == Init /\ [][Next]_vars /\ Fairness

-----------------------------------------------------------------------------
(* Properties                                                              *)

TypeOK ==
    /\ glOf \in [Goroutines -> Loops \cup {NoLoop}]
    /\ lpc \in [Goroutines -> GL!LPCs]
    /\ tickerOn \in [Goroutines -> BOOLEAN]
    /\ tickBuf \in [Goroutines -> BOOLEAN]
    /\ quit \in [Loops -> SUBSET Callers]
    /\ taken \subseteq Callers
    /\ quitSeen \in [Goroutines -> BOOLEAN]
    /\ rateOf \in [Loops -> Nat]
    /\ fnOf \in [Loops -> {"fn", "nil"}]
    /\ crashed \in BOOLEAN
    /\ onUpdate \in Loops \cup {NoLoop}
    /\ created \subseteq Loops
    /\ upc \in [Callers -> UPCs]

\* A startLoop goroutine that still runs (or will run) the callback.
Live(g) ==
    \/ lpc[g] \in {"pending", "callback"}
    \/ tickerOn[g] \/ tickBuf[g]

\* SetOnUpdate stops the previous loop before it installs the next one, so
\* the group's callback is driven by at most one ticking goroutine: the
\* callback rate is the latest tick rate and callbacks never overlap.
AtMostOneLiveLoop == Cardinality({g \in Goroutines : Live(g)}) <= 1

\* Every SetOnUpdate returns (or panics on a nil GameLoop): the Stop it
\* sends on the previous loop's unbuffered quit is received by a startLoop
\* goroutine of that loop, even when callers race on the field.
SetOnUpdateReturns == \A c \in Callers : Busy(c) ~> ~Busy(c)

\* SetOnUpdate never takes the process down, whatever the arguments: the
\* teardown spec.md prescribes, SetOnUpdate(nil, 0), included.
NoProcessCrash == ~crashed
=============================================================================
