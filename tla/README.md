# TLA+ models of amoeba's session groups and scheduler

This directory holds TLA+ models of the concurrent core of the amoeba game-server framework in `../src`. It also holds the TLC configurations that check them. `PROJECT.json` records, for each module:
- which code its definitions translate (`map`);
- the runs and what each one checks;
- the mutants that show each checked property can fail;
- the findings;
- the hazards of the code, each with the properties that cover it.

## The system and its parts

| Part | Source | What it does | Concurrency |
|---|---|---|---|
| Group | `src/group.go` | A room. It maps session IDs to sessions. Its `status` (Working/Closed) is read with `atomic.LoadInt32`. A `sync.RWMutex` guards the map. | Session handlers call Add/Leave. Session-closed hooks call Leave. Game-loop callbacks call Broadcast/Multicast. |
| Group update loop | `src/group.go` `SetOnUpdate` | Stops the room's current GameLoop, clears the field `g.lifeCycles.OnUpdate`, stores a new GameLoop and starts it. | No lock guards the field. |
| GameLoop | `src/scheduler/gameloop.go` | `Start` runs `go startLoop()`. `startLoop` makes a `time.Ticker` and selects forever between a tick (call the callback) and `quit` (stop the ticker). `Stop` sends on the unbuffered `quit`. `Restart` is Stop then Start. | One goroutine per started loop, plus the callers of Stop. |
| Ticker | `src/scheduler/ticker.go` | `SetTimeout`, `SetInterval` (a goroutine selecting on ticks and a done channel), and `Clear`. | The interval goroutine and the callers of Clear. |
| Options | `src/options.go` | Setters of global configuration used at start-up. | None. |
| Crypt | `src/crypt` | Key padding, AES-GCM Encrypt/Decrypt, password hashing, CRC. | None (pure). |
| JWT | `src/auth/jwt.go` | Token generation and parsing. | None. |
| Examples | `src/examples`, `src/benchmark` | Rooms built on Group. | Join handlers call `SetOnUpdate`, `Broadcast` and `Add`. An `OnClosed` hook calls `Leave`. |

The session, the message pipeline and cluster routing are named by `spec.md`, but their code is not under `src/`. The models use only two of their results: `Session.Push` and `message.Serialize`. Each may succeed or fail, chosen nondeterministically.

How the parts interact:
- A room calls `SetOnUpdate`, which drives a GameLoop.
- On every tick, the GameLoop's goroutine calls the room's callback, which broadcasts to the Group.
- At the same time, session goroutines Add and Leave members.
- `Close` takes no lock, and it does not stop the loop.

## Modules

### `Group.tla` (MC: `MC_Group.tla`)

This module models every method of the Group: the mutating ones and the read-only lookups.

**Constants and state**
- Each element of `Procs` is a goroutine making one Group call at a time.
- A session is a model value in `Sessions`.
- `status` and `sessions` are the status and the key set of the map.
- `writer`, `readers` and `granted` are the RWMutex:
  - `Lock` takes the writer slot and blocks new readers.
  - The lock is then usable once the active readers leave (`CanWrite`).
  - `Unlock` admits the readers that blocked meanwhile, ahead of the next writer (`CanRead`).
- `pc`, `arg`, `todo` and `err` are each goroutine's position and locals. `Return` resets them.

**Actions follow the code's steps**
- `Add`/`Leave`/`LeaveAll`: the `isClosed()` check (`CheckOpen`), then the map work under the lock (`AddLocked`, `LeaveLocked`, `LeaveAllLocked`, which includes the deferred Unlock).
- `Broadcast`/`Multicast`:
  - the `isClosed()` check and the Serialize error (`FanoutCheck`);
  - `RLock`, which snapshots the map for the range loop (`RLockFanout`);
  - one push per step;
  - the return with the deferred `RUnlock` (`FanoutDone`).
- `Close`: the check; `atomic.StoreInt32` (`CloseStore`); the map swap with no lock (`CloseSwap`).
- Lookups: `Member`, `GetMember`, `MemberUUID`, `Members*` (`Member`), `Contains*` (`Contains`, through `Member`) and `Count` (`Count`) all take `RLock`, range over or measure the map, and return with the deferred `RUnlock`. They share `LookupRLock`, which snapshots the map, and `LookupDone`. A lookup has no result the model needs beyond the membership it saw.

**Ghost state for properties**
- `attempted`: the sessions pushed to by the current fan-out.
- `pushFailed`: some push of this Broadcast failed.
- `closers`: the goroutines whose Close stored Closed.

**Refinement to `GroupSpec.tla`**

`GroupSpec` is the registry `spec.md` §4.1 describes. Each operation is one atomic step; a failed one changes nothing. `Group` maps onto it through `INSTANCE GroupSpec WITH`:
- `status` is Closed once `isClosed` holds;
- `members` is the map, or `{}` while some Close is between its store and its swap (`Closing`), since the abstract Close empties the group at once;
- `closes` is the number of Closes that stored Closed (`closers`).

`ImplementsGroupSpec` states `GS!Spec` as a property.

### `GameLoop.tla` (MC: `MC_GameLoop.tla`)

This module models one GameLoop object and the goroutines of `startLoop` launched on it.

**Per-goroutine state (`Goroutines`)**
- `lpc`: pending, select or callback.
- `tickerOn`: the goroutine's ticker still runs.
- `tickBuf`: the one-slot `ticker.C` holds a tick.

**The quit channel**
- `quit[l]` holds the callers blocked on the unbuffered send.
- `taken` holds those whose value a receiver took.

**Time is abstracted away**
- While the ticker runs, a tick may arrive at any moment (`TickerFires`).
- A tick that finds the buffer full is dropped.

**The quit case (`ReceiveQuit`)**
- It stops the ticker and stays in the loop. `startLoop` has no `return`.
- `StopDrainsTicker` selects between two `time.Ticker.Stop` semantics: from Go 1.23 on, it discards a buffered tick; before, it does not.

**Callers**
- The callers follow the spec's life cycle: `Start` when not running, `Stop`/`Restart` when running.
- `SetTickRate` stores a rate from `TickRates` and restarts.

**Tick rate, callback and crash**
- `rateOf` and `fnOf` hold each object's rate and callback (`"fn"` or `"nil"`).
- `LoopBegin` computes `time.Second / rate` (`Second`). A rate of 0 divides by zero, and a rate above 1e9 gives a zero interval, on which `time.NewTicker` panics.
- `CallbackReturns` of a `"nil"` callback is the call of a nil func.
- These panics happen in a goroutine with no `recover`, so they end the process: `crashed` becomes TRUE and `Next` stops.

### `GroupUpdate.tla` (MC: `MC_GroupUpdate.tla`)

This module models `Group.SetOnUpdate` composed with `GameLoop` through `INSTANCE GameLoop WITH ...`.

**State**
- `onUpdate` is the field `g.lifeCycles.OnUpdate` (`NoLoop` for nil).
- `created` holds the GameLoop objects made so far.
- `upc` holds where each concurrent caller is.

**Steps, in the code's order** (`group.go:106-118`)
1. The nil check (`SetOnUpdate`).
2. `Stop` on the field as re-read (`SetOnUpdateStop`). If the field is nil, the call panics.
3. Waiting for the quit to be received (`SetOnUpdateStopped`).
4. Clearing the field (`SetOnUpdateClear`).
5. `NewGameLoop` and the store (`SetOnUpdateInstall`).
6. `go ...Start()` on the field as re-read (`SetOnUpdateStart`).

`SetOnUpdateInstall` takes the rate and callback from `TickRates` and `Fns`. `SetOnUpdateStart` on a nil field is the process crash of `go nil.Start()`.

`SerialCallers` chooses between callers whose calls never overlap (`MayCall`; the demos call `SetOnUpdate` from Join handlers, which one logic goroutine may run in turn) and concurrent callers.

`CallBound` is a model bound, not code: it admits a new call only while the bounded sets of loop objects and goroutine ids can serve every call in flight.

### `Room.tla` (MC: `MC_Room.tla`)

This module models the demo room of `examples/demo/chat2/main.go` and its client, `examples/demo/chat2/client/main.go`. The amoeba demo and its client have the same Join, hook, timer and client sequence.

**The client (`InitPomeloClient`), in the code's order**
1. `ClientInit`: `NewConnector`, the two handshake calls, `Connected(cb)` and `go Run` (lines 26-53).
2. `Connected`: Run's goroutine has connected and calls the callback, which sends `"room.join"` (lines 38-47). A closed connector does not connect.
3. `ClientOn`: the three `On` handlers (lines 54-63), registered after `go Run`.
4. `ClientClose`: the function returns and the deferred `Close` shuts the connection (line 64), so the server runs the OnClosed hooks.

`cpc` is where each client's main goroutine is, and `requested` says that its join request has been sent. The server's `JoinRead` starts only on a request.

**The Join handler, in the code's order**
1. `JoinRead` reads `mgr.rooms` (line 119).
2. `JoinCreate` makes the room and its `SetOnUpdate` loop (lines 120-145).
3. `JoinPublish` stores the room in `mgr.rooms` (line 146).
4. `JoinBind` does `s.Bind` and sets `ROOM_ID` (lines 149-157).
5. `JoinBroadcast` sends `onNewUser` (line 159).
6. `JoinAdd` adds the session (line 161).

**The transport and the loop**
- Besides the client's own Close, a connection may drop at any time (`CloseSession`). Session lifetime is not under `src/`, so this follows the spec.
- The `OnClosed` hook then runs (lines 100-106). If `ROOM_ID` is set, it calls `Leave`. `spec.md` §5 runs a session's handlers and hooks in the session's own context, one at a time and in arrival order. So the hook never runs inside the session's own Join, nor before a Join requested before the close (`SessionFree`). With a single logic goroutine it also waits for that goroutine (`MayStartJoin`), like a handler.
- `Message` (lines 169-175) broadcasts to the room of a session that has `ROOM_ID` set, and fails for one that has not.
- The minute timer `AfterInit` installs ranges over `mgr.rooms` and prints each room's `Count` (lines 107-112). `MinuteTimer` starts the range and `MinuteTimerDone` ends it. With a single logic goroutine the timer is one more task of it (`LogicIdle`), so it runs between handlers; otherwise it runs beside them.
- Each started loop may tick (`Tick`, lines 133-144). A tick broadcasts when `Count() > 0`.

**Group calls are single steps**
- Add, Leave, Count and Broadcast work under the Group's lock. `Group.cfg` checks that a fan-out sees a single membership.
- The example never calls `Close`.

**Handler scheduling**
- `SerialHandlers` chooses between two ways of running handlers: one logic goroutine, or one context per connection as `spec.md` §5 describes.
- The handler scheduler is not under `src/`, so both are checked.


### `TickerSpec.tla`

What a Ticker promises (`spec.md` §4.2): per Ticker a `mode` (unused, timeout, interval or cleared), whether its callback is running, and how often a timeout has fired. A timeout is invoked once and cleared when it returns; an interval is invoked until cleared; Clear of a cleared Ticker does nothing.

### `Ticker.tla` (MC: `MC_Ticker.tla`)

This module models `scheduler/ticker.go` for the Tickers that `SetTimeout` and `SetInterval` make.

**State, per Ticker**
- `kind`: unused, interval or timeout.
- `valid`: the `Valid` field.
- `doneLen`: `len(DoneChan)`. Its capacity is `DoneCap` = 1.
- `tickerOn` and `tickBuf`: the embedded `time.Ticker` and its one-slot `C`.
- `gpc`: the SetInterval goroutine.

One user goroutine (`upc`, blocked on `utk`) makes the calls.

**Actions**
- `SetTimeout` fills `DoneChan` and blocks. `TimeoutTick` runs the callback, and `TimeoutReturns` is `Clear` followed by the return.
- `SetInterval` starts the goroutine. `IntervalTick` and `IntervalCallbackReturns` handle a tick. `IntervalDone` is the rendezvous on the unbuffered `done`, and `IntervalClear` clears the Ticker and returns.
- `UserClear` is a `Clear` by the program. `Clear` drains a full `DoneChan`, stops the ticker and sets `Valid` to false.
- `safecall` recovers, so a callback always returns.

**Refinement to `TickerSpec.tla`:** `AbsMode` is `kind` while `Valid` holds and cleared after; `InCallback` is the user goroutine inside a timeout's callback or the interval goroutine at its callback; `fired` is `ran`. `ImplementsTickerSpec` states `TS!Spec` as a property: a cleared Ticker never starts a callback and a timeout never fires twice. It depends on the Go version, which the repository does not fix (there is no `go.mod`). With the older `Ticker.Stop` (`StopDrainsTicker = FALSE`), a tick buffered before Clear reaches the goroutine after it, and the refinement fails (`Ticker_StaleClear.cfg`). With the Go 1.23 Stop, Clear's own assignment drops that tick. `Ticker.cfg` uses the Go 1.23 Stop, and so does the `~tickBuf` clause of `TimeoutClearsTicker`.

### `Crypt.tla`

This module holds operators only. It models `crypt.New`'s key padding (32 bytes padded with `'0'`) and `Encrypt`/`Decrypt`.
- MD5 and AES-GCM are taken as ideal: a box opens only under the key and nonce it was sealed with.
- The byte layout is kept exactly: the 12-byte nonce goes in front of the sealed box (plaintext plus a 16-byte tag). `Decrypt` rejects input shorter than a nonce and splits at `NonceSize`.

### `AmoebaRoom.tla` (MC: `MC_AmoebaRoom.tla`)

This module models the amoeba demo (`examples/demo/amoeba/main.go` and its client).
- Its Join steps, `OnClosed` hook, minute timer and client sequence (`InitAmoebaClient`, client/main.go:47-89) are `Room`'s, reused through `INSTANCE Room`.
- Whether the client reads a document back (`ReadBack`) and what `Message` makes of a frame (`FrameDoc`) depend only on constants. They are defined at constant level, so TLC evaluates the cipher once.
- Every packet the server sends goes through `stats.outbound` (Encrypt). The client reads it with `DecryptPacket`: Decrypt, then a JSON object assertion that panics on `null`.
- Every frame received goes through `stats.inbound`, which replaces the data by its Decrypt, or by nil when that fails.
- `Message` broadcasts the unmarshalled `UserMessage`, which is nil (`"null"`) when the frame was not one.
- `Garbled` lets clients send frames that are not encrypted.
- The ghost `unreadable` records a client receiving a packet it cannot read.

## Runs

| Run (cfg) | Expect | Property | What it shows |
|---|---|---|---|
| `Group.cfg` | pass | `FanoutMatchesMembership`, `EveryCallReturns` | Under RLock, each Broadcast/Multicast that returns on a working group has pushed to exactly the current members, and each lookup has seen exactly them. No Group call waits forever on the RWMutex. |
| `Group_CloseRace.cfg` | violation | `ImplementsGroupSpec` | Close's `isClosed` check and its store are two steps with no lock: two concurrent Closes both succeed, where the spec's second Close fails with AlreadyClosed. The same gap lets an Add that passed its check insert into a closed, emptied group. |
| `Group_BroadcastErr.cfg` | violation | `BroadcastReportsFailure` | A failed push followed by a successful one makes Broadcast return nil. |
| `GameLoop_StaleTick.cfg` | violation | `ReceivedQuitIsFinal` | With the older `Ticker.Stop`, a tick buffered before the quit still runs the callback after Stop. |
| `GameLoop_Restart.cfg` | violation | `StopQuiescesLoop` | After Restart, the next Stop can be consumed by the old goroutine, which never exits, while the new loop keeps ticking. |
| `GroupUpdate.cfg` | pass | `AtMostOneLiveLoop`, `SetOnUpdateReturns` | Two callers whose SetOnUpdate calls never overlap, with the Go 1.23 `Ticker.Stop`. At most one loop ticks. Every call returns, because every Stop has a receiver. |
| `GroupUpdate_Concurrent.cfg` | violation | `AtMostOneLiveLoop` | Two concurrent SetOnUpdate calls leave two loops running. |
| `GroupUpdate_Teardown.cfg` | violation | `NoProcessCrash` | `SetOnUpdate(nil, 0)`, the spec's teardown, starts a loop whose `startLoop` divides `time.Second` by zero. The panic ends the process. |
| `AmoebaRoom.cfg` | pass | `ClientReadsEveryPush` | The demo with its clients, with handlers, hooks and timer callbacks run one at a time: the client reads every packet the server sends through the encrypting pipeline as the document the handler wrote. |
| `Room_ParallelJoin.cfg` | violation | `NoOrphanLoop` | With one handler context per connection, two Joins each create a room. The overwritten room's loop ticks for ever. |
| `Ticker.cfg` | pass | `TimeoutClearsTicker`, `IntervalEndsOnDone` | With the Go 1.23 `Ticker.Stop`: a returned SetTimeout's Ticker is stopped, drained and invalid, and a done always ends its SetInterval goroutine. |
| `Ticker_StaleClear.cfg` | violation | `ImplementsTickerSpec` | With the older `Ticker.Stop`, a tick buffered before Clear still starts the SetInterval callback of the cleared Ticker, which TickerSpec forbids. (With the Go 1.23 Stop, Clear drops that tick itself, so the refinement holds by Clear's own assignment and is not a pass run.) |

`GameLoop_StaleTick.cfg` and `GameLoop_Restart.cfg` fix `TickRates = {30}` and `Fns = {"fn"}`, so that no crash hides the race.

Each violation is a finding in `PROJECT.json`. Each property of a passing run has a mutant in its module, named `...No...`. Each mutant models a plausible slip in the code, and TLC finds it.

Each module also defines a `TypeOK`, as documentation of the state space. It is not a checked property, because no plausible change to the code breaks it.

## Bounds

**Group:** 3 goroutines and 2 sessions. This is enough for:
- a writer blocked between two readers;
- a Close racing an Add;
- a Broadcast with a failed push and then a successful one.

`Group.cfg` reaches 89,394 states. The violation runs use symmetry over goroutines and sessions. The liveness run does not, because symmetry is unsound for liveness.

**GameLoop:** 1 object, 1 caller and 3 goroutine ids. This is enough for Start, Restart and a second Restart, so that old goroutines sit beside a new one.

**Room:** 3 sessions and 3 room objects. This is enough for every Join to create its own room, with symmetry over both sets.

**GroupUpdate:** 3 loop objects and 3 goroutine ids. This allows three SetOnUpdate calls, and so two replacements. There are 2 callers, serial or concurrent. The teardown run uses 1 caller with rates {0, 30} and callbacks {fn, nil}. This covers both the zero rate and the nil callback.

**Ticker:** 2 Tickers. This is enough for one of each kind, or for two intervals, one of them cleared while the other runs.

**AmoebaRoom:** 3 sessions (each with its client) and 3 room objects, with symmetry over both; 11,060 states. This is enough for every client to close at each point of its sequence while the others join. There are 2 nonces, which is enough for a nonce cut in the wrong place to show.

## Fairness

**Group:** each goroutine that is inside a call is strongly fair.
- Go's `sync.Mutex` hands the lock to a waiter that has starved for 1 ms.
- `RWMutex.Unlock` admits the blocked readers before any new writer.
- So a goroutine that is enabled infinitely often does proceed.

Starting a call is not fair: callers may stop calling.

**GroupUpdate:**
- Weak fairness for starting a loop, for returning from a callback, and for a SetOnUpdate under way. Callbacks must not block (spec §4.2).
- Strong fairness for `ReceiveQuit`. `select` chooses uniformly among ready cases, so a quit that is ready each time the loop selects is eventually taken.
- Ticks need no fairness.

**Ticker:**
- Weak fairness for a running ticker firing, for a callback returning, for the Clear after done, and for the blocked SetTimeout.
- Strong fairness for `IntervalDone`, for the same `select` reason.

`GameLoop.tla`, `Room.tla` and `AmoebaRoom.tla` have no fairness. Their runs check only safety.

## Not modelled, and why

- **`GetMember`'s result.** `GetMember` (group.go:170-174) indexes the ID-keyed map by a UID and always returns `ErrMemberNotFound`. The model keeps its locking, which is all that interacts with other goroutines; the wrong result is a plain unit-testable bug.
- **`GameLoop.SetOnUpdate`'s unsynchronised callback write.** A data race, but no code in the repository calls it: `Group.SetOnUpdate` replaces the whole GameLoop.
- **`InitDriver` / `NewGroupWithDriver`.** They store database handles that no code uses.
- **`NewTicker(d, false)`**, whose Ticker has no `time.Ticker`, so its `Clear` would call Stop on nil. Nothing in the repository calls it.
- **A `Clear` of a SetInterval Ticker without a done.** This leaves its goroutine parked at the select for good. The spec makes `done` the cancellation, so this is a hazard with no property.
- **Options.** Each option assigns one field of the start-up configuration; `WithTimerPrecision` panics below 1 ms. No state machine.
- **JWT.** A wrapper of a JWT library, out of scope in `spec.md`. Note: `Generate` always signs HS256 while the key function demands the algorithm given to `NewJWT`, and every `NewJWT` overwrites the package-level key and algorithm. The demos use HS256, so neither shows.
- **The CRC generator.** CRC64 needs 64-bit arithmetic; TLC's integers are 32-bit.
- **The rest of crypt:** base64 `Encode`/`Decode` and the password hash. Outside crypt, nothing reaches them except logging.
- **The demos do not compile against `src/crypt`.** They call `crypt.New([]byte(""))`, but `New` takes a key and a generator polynomial. The models follow what the demos mean.
- **`safecall`** is not defined under `src/scheduler`. The spec says it recovers panics.
- **The garbled Message frame.** With `Garbled = TRUE`, `ClientReadsEveryPush` fails. `inbound` drops the Decrypt error, `Message` broadcasts `null`, and the client's type assertion panics. This is a hazard with no run slot, because no client in the repository sends a Message.
- **The tadpole world.** It embeds a Group and makes the same calls as the chat2 room (Add and Count on Enter; Leave, Broadcast and Count on close; Broadcast on Update and Message), which `Group` and `Room` already cover.
- **The minute timer with parallel handlers.** When handlers run in parallel (`SerialHandlers = FALSE`), a Join stores into `mgr.rooms` during the timer's range, which Go aborts as a concurrent map iteration and map write. TLC finds it within a few hundred states when checked by hand with a ghost flag set by `JoinPublish` during the range. It has no run of its own: the last run slot went to `Ticker_StaleClear`, and `Room_ParallelJoin` already shows the same unlocked map. Whether the framework's timer shares the handlers' goroutine is decided outside `src/`.
- **A hook inside its own session's Join.** It would leave a closed session a member of the room: `Leave` before `Add`. The framework that schedules the hooks is not under `src/`, and `spec.md` §5 serializes a session's work in its own context, so the model does not allow it.
- **The stats timers of the demos.** They print byte counters. The stats timer prints `outboundBytes` for both counters, and `outboundBytes += len` is itself a data race.
- **What the client's connector does beyond connect, request and close.** A `Run` that fails panics the client, and `handleClose` calls `Close` a second time on a connector the deferred `Close` already shut. Both depend on the connector library, which is not in `src/`. The deferred `Close` itself is modelled (`ClientClose`). A client may close before its join request is sent, and then never joins.
- **The cluster example.** Command-line wiring of services whose code is not in `src/`.
- **Session, pipeline, cluster routing.** Their code is not under `src/`.

## Plan for later work

1. The `Garbled` amoeba frame as a run of its own, should a run slot free up.
2. Group refining GroupSpec with Close's check and store made atomic, as a check of the fix.
