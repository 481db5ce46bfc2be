----------------------------- MODULE AmoebaRoom -----------------------------
(***************************************************************************)
(* The room of examples/demo/amoeba/main.go, with its traffic pipeline    *)
(* and the client of examples/demo/amoeba/client/main.go.                 *)
(*                                                                         *)
(* Join and the session-closed hook are chat2's (Room.tla), step for step: *)
(* NewGroupWithDriver with the Firebase driver and isNew = false takes    *)
(* the process-wide driver and cannot fail, and SetOnUpdate gets rate 1.  *)
(* What this demo adds is the pipeline: every packet the server sends (a  *)
(* push, a broadcast, a response) goes through stats.outbound, which      *)
(* replaces the data by gsCrypt.Encrypt(data); every packet it receives   *)
(* goes through stats.inbound, which replaces it by gsCrypt.Decrypt(data) *)
(* -- nil when that fails, the error being dropped.  Both ends make their *)
(* Crypt with crypt.New([]byte("")).  The client reads a packet with       *)
(* DecryptPacket: Decrypt, json.Unmarshal, and an assertion that the value *)
(* is a JSON object.  JSON documents are names: "null" is the encoding of *)
(* a nil *UserMessage.                                                    *)
(***************************************************************************)
EXTENDS Naturals, Sequences

CONSTANTS Sess, RoomIds, NoRoom, SerialHandlers,
          Garbled   \* clients may send a Message frame that is not encrypted

VARIABLES entry, created, members, ticking, jpc, room, key, open, hook,
          ranging, cpc, requested,   \* see Room
          unreadable  \* ghost: a client got a packet DecryptPacket rejects

R == INSTANCE Room

roomVars == <<entry, created, members, ticking, jpc, room, key, open, hook,
              ranging, cpc, requested>>
vars == <<roomVars, unreadable>>

\* The JSON documents the server sends.
Payloads == {"members", "newUser", "joinResponse", "tick", "userMsg", "null"}

C == INSTANCE Crypt WITH Plaintexts <- Payloads, Err <- "error"

\* crypt.New([]byte("")) on both ends.
ServerKey == C!PadKey(<<>>)
ClientKey == C!PadKey(<<>>)

\* The nonces crypto/rand may draw (two are enough to tell them apart).
Nonces == {[i \in 1..C!NonceSize |-> b] : b \in {0, 255}}

\* The Message frames a client sends: a UserMessage encrypted as the
\* inbound step expects, or (with Garbled) bytes that are not.
Frames ==
    {C!Encrypt(ClientKey, "userMsg", n) : n \in Nonces}
    \cup (IF Garbled THEN {<<>>} ELSE {})

Init == R!Init /\ unreadable = FALSE

-----------------------------------------------------------------------------
(* The pipeline and the client                                             *)

\* stats.outbound: msg.Data, _ = gsCrypt.Encrypt(msg.Data).
Outbound(p, n) == C!Encrypt(ServerKey, p, n)

\* stats.inbound: msg.Data, _ = gsCrypt.Decrypt(msg.Data); nil on error.
Inbound(bytes) ==
    LET d == C!Decrypt(ServerKey, bytes) IN IF d = "error" THEN "nil" ELSE d

\* What Message's json.Unmarshal makes of each frame after inbound: the
\* UserMessage, or a nil *UserMessage.
FrameDoc ==
    [f \in Frames |-> IF Inbound(f) = "userMsg" THEN "userMsg" ELSE "null"]

\* DecryptPacket: c.Decrypt(msg), then json.Unmarshal and the assertion
\* data.(map[string]interface{}), which panics on a JSON null.
DecryptPacket(bytes) ==
    LET d == C!Decrypt(ClientKey, bytes)
    IN  CASE d = "error" -> "error"
          [] d = "null"  -> "panic"
          [] OTHER       -> d

\* The documents a client reads back as written, whatever nonce Encrypt
\* drew (constant-level, so TLC evaluates it once).
ReadBack ==
    {p \in Payloads : \A n \in Nonces : DecryptPacket(Outbound(p, n)) = p}

\* A packet with document p reaches clients through the pipeline.
Deliver(p) == unreadable' = (unreadable \/ p \notin ReadBack)

\* A broadcast on room r reaches its members, if it has any.
DeliverTo(r, p) ==
    IF members[r] = {} THEN UNCHANGED unreadable ELSE Deliver(p)

-----------------------------------------------------------------------------
(* func (mgr *RoomManager) Join(s *session.Session, msg []byte) error      *)
(* (the request carries no data: inbound's Decrypt of it fails, and Join  *)
(* does not read it)                                                       *)

JoinRead(s) == R!JoinRead(s) /\ UNCHANGED unreadable

JoinCreate(s) == R!JoinCreate(s) /\ UNCHANGED unreadable

JoinPublish(s) == R!JoinPublish(s) /\ UNCHANGED unreadable

\* s.Bind, s.Set(roomIDKey, room), and s.Push("onMembers", b).
JoinBind(s) == R!JoinBind(s) /\ Deliver("members")

\* room.group.Broadcast("onNewUser", b1)
JoinBroadcast(s) == R!JoinBroadcast(s) /\ DeliverTo(room[s], "newUser")

\* room.group.Add(s); s.Response(b2)
JoinAdd(s) == R!JoinAdd(s) /\ Deliver("joinResponse")

CloseSession(s) == R!CloseSession(s) /\ UNCHANGED unreadable

\* The OnClosed hook AfterInit installs.
OnClosed(s) == R!OnClosed(s) /\ UNCHANGED unreadable

\* roomOnUpdate: if room.group.Count() > 0, broadcast the tick message.
Tick(r) == R!Tick(r) /\ Deliver("tick")

\* func (mgr *RoomManager) Message(s, data): without ROOM_ID it returns an
\* error; otherwise json.Unmarshal(data, &msg) -- msg stays nil when the
\* data is not a UserMessage -- and msg is broadcast on every path (the
\* Decrypt of msg.Content is only logged).  Handlers of one session run in
\* order, so a Message comes before its Join starts or after it ends.
Message(s, f) ==
    /\ open[s]
    /\ jpc[s] \in {"new", "done"}
    /\ R!MayStartJoin(s)
    /\ key[s] # NoRoom
    /\ DeliverTo(key[s], FrameDoc[f])
    /\ UNCHANGED <<entry, created, members, ticking, jpc, room, key, open,
                   hook, ranging, cpc, requested>>

\* The minute timer AfterInit installs: it ranges over mgr.rooms, printing
\* each room's Count, as in chat2.
MinuteTimer == R!MinuteTimer /\ UNCHANGED unreadable

MinuteTimerDone == R!MinuteTimerDone /\ UNCHANGED unreadable

\* The client's InitAmoebaClient: the same sequence as chat2's client, with
\* DecryptPacket in the callbacks.
ClientInit(s) == R!ClientInit(s) /\ UNCHANGED unreadable

Connected(s) == R!Connected(s) /\ UNCHANGED unreadable

ClientOn(s) == R!ClientOn(s) /\ UNCHANGED unreadable

ClientClose(s) == R!ClientClose(s) /\ UNCHANGED unreadable

ClientStep(s) ==
    ClientInit(s) \/ Connected(s) \/ ClientOn(s) \/ ClientClose(s)

Next ==
    \/ MinuteTimer \/ MinuteTimerDone
    \/ \E s \in Sess :
          \/ JoinRead(s) \/ JoinCreate(s) \/ JoinPublish(s) \/ JoinBind(s)
          \/ JoinBroadcast(s) \/ JoinAdd(s) \/ CloseSession(s) \/ OnClosed(s)
          \/ \E f \in Frames : Message(s, f)
          \/ ClientStep(s)
    \/ \E r \in RoomIds : Tick(r)

Spec == Init /\ [][Next]_vars

-----------------------------------------------------------------------------
(* Properties                                                              *)

TypeOK == R!TypeOK /\ unreadable \in BOOLEAN

\* Every packet the server sends reaches the client as the document the
\* handler wrote: the client's Decrypt undoes outbound's Encrypt (same
\* padded key, nonce in front) and the document parses as an object.
ClientReadsEveryPush == ~unreadable

=============================================================================
