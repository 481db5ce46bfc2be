-------------------------------- MODULE Room --------------------------------
(***************************************************************************)
(* The room of examples/demo/chat2/main.go (the amoeba demo is built the   *)
(* same way): RoomManager.Join, the session-closed hook installed by        *)
(* AfterInit, and the per-tick callback that SetOnUpdate starts.            *)
(*                                                                         *)
(* The Group calls are single steps: Add, Leave, Count and Broadcast do   *)
(* their map work under the Group's lock (Group.tla checks that a fan-out  *)
(* sees one membership), and the example never calls Close, so the        *)
(* isClosed check before the lock has nothing to race with.  A room's     *)
(* SetOnUpdate runs on a Group no other goroutine knows yet and starts one *)
(* loop.  Every session runs one Join; its connection may close at any     *)
(* time, and the session's OnClosed hooks then run in that session's own *)
(* context, after its Join (spec.md section 5).  Whether                   *)
(* handlers of different sessions run one at a time (a single logic        *)
(* goroutine) or in parallel (one context per connection, as spec.md says) *)
(* is the constant SerialHandlers.                                         *)
(***************************************************************************)
EXTENDS FiniteSets

CONSTANTS
    Sess,            \* the sessions that send a Join
    RoomIds,         \* Room objects (each with its Group) Join may create
    NoRoom,          \* no room: mgr.rooms has no entry / the key is unset
    SerialHandlers   \* handlers of different sessions never overlap

ASSUME NoRoom \notin RoomIds /\ SerialHandlers \in BOOLEAN

VARIABLES
    entry,     \* mgr.rooms[testRoomID]
    created,   \* rooms Join has made
    members,   \* members[r]: the session IDs in room r's group
    ticking,   \* rooms whose update loop has been started
    jpc,       \* where each session's Join handler is
    room,      \* the local `room` of each Join
    key,       \* the session's ROOM_ID value
    open,      \* the connection is open
    hook,      \* the OnClosed hook of the session: "none", "run", "done"
    ranging,   \* the minute timer's callback is inside its range over mgr.rooms
    cpc,       \* where each client's InitPomeloClient is
    requested  \* the client's Connected callback has sent "room.join"

clientVars == <<cpc, requested>>

vars == <<entry, created, members, ticking, jpc, room, key, open, hook,
          ranging, clientVars>>

JPCs == {"new", "create", "publish", "bind", "broadcast", "add", "done"}

Init ==
    /\ entry = NoRoom
    /\ created = {}
    /\ members = [r \in RoomIds |-> {}]
    /\ ticking = {}
    /\ jpc = [s \in Sess |-> "new"]
    /\ room = [s \in Sess |-> NoRoom]
    /\ key = [s \in Sess |-> NoRoom]
    /\ open = [s \in Sess |-> TRUE]
    /\ hook = [s \in Sess |-> "none"]
    /\ ranging = FALSE
    /\ cpc = [s \in Sess |-> "init"]
    /\ requested = [s \in Sess |-> FALSE]

InJoin(s) == jpc[s] \notin {"new", "done"}

\* With a single logic goroutine a handler or a timer callback runs only
\* when no Join is under way.
LogicIdle == \A t \in Sess : ~InJoin(t)

\* ... and a handler, or a hook, starts only when the minute timer's
\* callback is not running either.
MayStartJoin(s) == ~SerialHandlers \/ (LogicIdle /\ ~ranging)

\* A session's own handlers and hooks run in its own context, one at a
\* time and in arrival order (spec.md section 5): its OnClosed hook runs
\* neither inside its Join nor before a Join it requested before closing.
SessionFree(s) == jpc[s] = "done" \/ ~requested[s]

JGoto(s, l) == jpc' = [jpc EXCEPT ![s] = l]

-----------------------------------------------------------------------------
(* func (mgr *RoomManager) Join(s *session.Session, msg []byte) error      *)

\* room, found := mgr.rooms[testRoomID], once the client's request is in
JoinRead(s) ==
    /\ jpc[s] = "new"
    /\ requested[s]
    /\ MayStartJoin(s)
    /\ \/ /\ entry # NoRoom
          /\ room' = [room EXCEPT ![s] = entry]
          /\ JGoto(s, "bind")
       \/ /\ entry = NoRoom
          /\ JGoto(s, "create")
          /\ UNCHANGED room
    /\ UNCHANGED <<entry, created, members, ticking, key, open, hook>>
    /\ UNCHANGED ranging
    /\ UNCHANGED clientVars

\* room = &Room{group: amoeba.NewGroup(...)}; room.group.SetOnUpdate(...,30)
JoinCreate(s) ==
    /\ jpc[s] = "create"
    /\ \E r \in RoomIds \ created :
          /\ created' = created \cup {r}
          /\ room' = [room EXCEPT ![s] = r]
          /\ ticking' = ticking \cup {r}
    /\ JGoto(s, "publish")
    /\ UNCHANGED <<entry, members, key, open, hook>>
    /\ UNCHANGED ranging
    /\ UNCHANGED clientVars

\* mgr.rooms[testRoomID] = room
JoinPublish(s) ==
    /\ jpc[s] = "publish"
    /\ entry' = room[s]
    /\ JGoto(s, "bind")
    /\ UNCHANGED <<created, members, ticking, room, key, open, hook,
                   ranging>>
    /\ UNCHANGED clientVars

\* s.Bind(fakeUID); s.Set(roomIDKey, room); s.Set(...); then the member
\* list is pushed to s alone.
JoinBind(s) ==
    /\ jpc[s] = "bind"
    /\ key' = [key EXCEPT ![s] = room[s]]
    /\ JGoto(s, "broadcast")
    /\ UNCHANGED <<entry, created, members, ticking, room, open, hook>>
    /\ UNCHANGED ranging
    /\ UNCHANGED clientVars

\* room.group.Broadcast("onNewUser", ...)
JoinBroadcast(s) ==
    /\ jpc[s] = "broadcast"
    /\ JGoto(s, "add")
    /\ UNCHANGED <<entry, created, members, ticking, room, key, open, hook>>
    /\ UNCHANGED ranging
    /\ UNCHANGED clientVars

\* room.group.Add(s); the response is sent.
JoinAdd(s) ==
    /\ jpc[s] = "add"
    /\ members' = [members EXCEPT ![room[s]] = @ \cup {s}]
    /\ JGoto(s, "done")
    /\ UNCHANGED <<entry, created, ticking, room, key, open, hook>>
    /\ UNCHANGED ranging
    /\ UNCHANGED clientVars

-----------------------------------------------------------------------------
(* The transport and the hooks                                             *)

\* The connection closes; session.Lifetime runs the OnClosed hooks.
CloseSession(s) ==
    /\ open[s]
    /\ open' = [open EXCEPT ![s] = FALSE]
    /\ hook' = [hook EXCEPT ![s] = "run"]
    /\ UNCHANGED <<entry, created, members, ticking, jpc, room, key>>
    /\ UNCHANGED ranging
    /\ UNCHANGED clientVars

\* if !s.HasKey(roomIDKey) { return }; room.group.Leave(s)
OnClosed(s) ==
    /\ hook[s] = "run"
    /\ SessionFree(s)
    /\ MayStartJoin(s)
    /\ hook' = [hook EXCEPT ![s] = "done"]
    /\ \/ /\ key[s] = NoRoom
          /\ UNCHANGED members
       \/ /\ key[s] # NoRoom
          /\ members' = [members EXCEPT ![key[s]] = @ \ {s}]
    /\ UNCHANGED <<entry, created, ticking, jpc, room, key, open>>
    /\ UNCHANGED ranging
    /\ UNCHANGED clientVars

\* roomOnUpdate: if room.group.Count() > 0 { room.group.Broadcast(...) }
Tick(r) ==
    /\ r \in ticking
    /\ members[r] # {}
    /\ UNCHANGED <<entry, created, members, ticking, jpc, room, key, open,
                   hook>>
    /\ UNCHANGED ranging
    /\ UNCHANGED clientVars

\* func (mgr *RoomManager) Message(s, msg *UserMessage): without ROOM_ID it
\* returns an error, otherwise room.group.Broadcast("onMessage", msg).  A
\* session's handlers run in order: not during its own Join.
Message(s) ==
    /\ open[s]
    /\ ~InJoin(s)
    /\ MayStartJoin(s)
    /\ key[s] # NoRoom
    /\ UNCHANGED <<entry, created, members, ticking, jpc, room, key, open,
                   hook>>
    /\ UNCHANGED ranging
    /\ UNCHANGED clientVars

-----------------------------------------------------------------------------
(* The minute timer AfterInit installs with scheduler.NewTimer:            *)
(*   for roomId, room := range mgr.rooms { println(... room.group.Count()) } *)
(* Count takes the Group's read lock and changes nothing.  The timer runs *)
(* on the framework's scheduler: with a single logic goroutine it is one  *)
(* more task of that goroutine, which Joins and hooks wait for; otherwise *)
(* it runs beside the handlers (and its range over mgr.rooms races the    *)
(* unlocked store of JoinPublish, which the README discusses).            *)

\* The timer fires and its callback starts ranging over mgr.rooms.
MinuteTimer ==
    /\ ~ranging
    /\ ~SerialHandlers \/ LogicIdle
    /\ ranging' = TRUE
    /\ UNCHANGED <<entry, created, members, ticking, jpc, room, key, open,
                   hook>>
    /\ UNCHANGED clientVars

\* The range has read every room's Count; the callback returns.
MinuteTimerDone ==
    /\ ranging
    /\ ranging' = FALSE
    /\ UNCHANGED <<entry, created, members, ticking, jpc, room, key, open,
                   hook>>
    /\ UNCHANGED clientVars

-----------------------------------------------------------------------------
(* The client, examples/demo/chat2/client/main.go InitPomeloClient (the    *)
(* amoeba client's InitAmoebaClient is the same sequence).  The main       *)
(* goroutine makes the connector, registers the Connected callback, starts *)
(* go Run, registers the On handlers and returns -- running the deferred  *)
(* Close.  Run's goroutine, once connected, calls the Connected callback,  *)
(* which sends the "room.join" request.                                    *)

\* NewConnector; InitReqHandshake; InitHandshakeACK; Connected(cb); go Run
ClientInit(s) ==
    /\ cpc[s] = "init"
    /\ cpc' = [cpc EXCEPT ![s] = "run"]
    /\ UNCHANGED <<entry, created, members, ticking, jpc, room, key, open,
                   hook, ranging, requested>>

\* Run has connected and calls the callback: Request("room.join", ...).
\* A connector already closed does not connect.
Connected(s) ==
    /\ cpc[s] # "init"
    /\ open[s]
    /\ ~requested[s]
    /\ requested' = [requested EXCEPT ![s] = TRUE]
    /\ UNCHANGED <<entry, created, members, ticking, jpc, room, key, open,
                   hook, ranging, cpc>>

\* On("onNewUser", ...); On("onMembers", ...); On("onMessage", ...)
ClientOn(s) ==
    /\ cpc[s] = "run"
    /\ cpc' = [cpc EXCEPT ![s] = "on"]
    /\ UNCHANGED <<entry, created, members, ticking, jpc, room, key, open,
                   hook, ranging, requested>>

\* InitPomeloClient returns: the deferred Close shuts the connection, and
\* the server runs the session's OnClosed hooks.
ClientClose(s) ==
    /\ cpc[s] = "on"
    /\ cpc' = [cpc EXCEPT ![s] = "closed"]
    /\ \/ /\ open[s]
          /\ open' = [open EXCEPT ![s] = FALSE]
          /\ hook' = [hook EXCEPT ![s] = "run"]
       \/ /\ ~open[s]
          /\ UNCHANGED <<open, hook>>
    /\ UNCHANGED <<entry, created, members, ticking, jpc, room, key,
                   ranging, requested>>

ClientStep(s) ==
    ClientInit(s) \/ Connected(s) \/ ClientOn(s) \/ ClientClose(s)

Next ==
    \/ MinuteTimer \/ MinuteTimerDone
    \/ \E s \in Sess :
          \/ JoinRead(s) \/ JoinCreate(s) \/ JoinPublish(s) \/ JoinBind(s)
          \/ JoinBroadcast(s) \/ JoinAdd(s) \/ CloseSession(s) \/ OnClosed(s)
          \/ Message(s) \/ ClientStep(s)
    \/ \E r \in RoomIds : Tick(r)

Spec == Init /\ [][Next]_vars

-----------------------------------------------------------------------------
(* Properties                                                              *)

TypeOK ==
    /\ entry \in RoomIds \cup {NoRoom}
    /\ created \subseteq RoomIds
    /\ members \in [RoomIds -> SUBSET Sess]
    /\ ticking \subseteq RoomIds
    /\ jpc \in [Sess -> JPCs]
    /\ room \in [Sess -> RoomIds \cup {NoRoom}]
    /\ key \in [Sess -> RoomIds \cup {NoRoom}]
    /\ open \in [Sess -> BOOLEAN]
    /\ hook \in [Sess -> {"none", "run", "done"}]
    /\ ranging \in BOOLEAN
    /\ cpc \in [Sess -> {"init", "run", "on", "closed"}]
    /\ requested \in [Sess -> BOOLEAN]

\* Every started update loop belongs to the room in mgr.rooms (or to the
\* room a Join is about to store there): no loop ticks for a room nobody
\* can reach, which would run, and leak, for the life of the process.
NoOrphanLoop ==
    \A r \in ticking :
        r = entry \/ \E s \in Sess : room[s] = r /\ jpc[s] = "publish"

=============================================================================
