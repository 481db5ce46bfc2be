------------------------------- MODULE Group -------------------------------
(***************************************************************************)
(* The session group of group.go: a registry of sessions keyed by session  *)
(* ID, a status flag read with atomic.LoadInt32, and a sync.RWMutex.       *)
(* Every element of Procs is a goroutine (a session handler, a game-loop   *)
(* callback, a session-closed hook) that calls the Group's methods, one    *)
(* call at a time.  The interleaving points are the ones of the code:      *)
(*   - isClosed() is checked before the lock is taken;                     *)
(*   - Add, Leave and LeaveAll do their map work under the write lock;     *)
(*   - Broadcast and Multicast hold the read lock across the whole fan-out *)
(*     and push to one session per step;                                   *)
(*   - Close takes no lock: it stores the status and then swaps the map.   *)
(* A session is a model value (its ID); the payload and the route are      *)
(* abstracted away; serialisation and each push may fail.  The error a     *)
(* call returns is named in a comment where it returns.                    *)
(***************************************************************************)
EXTENDS FiniteSets, Naturals

CONSTANTS
    Procs,      \* goroutines that call the Group
    Sessions,   \* session IDs that may join the Group
    NoProc      \* no goroutine

ASSUME Procs # {} /\ Sessions # {} /\ NoProc \notin Procs

groupStatusWorking == 0
groupStatusClosed  == 1

VARIABLES
    status,     \* g.status
    sessions,   \* DOMAIN g.sessions: the IDs in the current map
    writer,     \* the goroutine that holds the writer slot of g.RWMutex
    readers,    \* goroutines holding g.RLock()
    granted,    \* readers blocked by a writer and let in by its Unlock
    pc,         \* where each goroutine is in its current call
    arg,        \* the session argument of Add / Leave
    todo,       \* members the running range loop has still to visit
    err,        \* the local err of Broadcast: the latest push result
    attempted,  \* ghost: members the current fan-out has visited
    pushFailed, \* ghost: some push of the current Broadcast failed
    closers     \* ghost: the goroutines whose Close stored Closed

lockVars  == <<writer, readers, granted>>
frameVars == <<pc, arg, todo, err, attempted, pushFailed>>
vars == <<status, closers, sessions, lockVars, frameVars>>

NoSession == CHOOSE s \in Sessions : TRUE

LockPCs  == {"add_lock", "leave_lock", "leaveall_lock"}
RLockPCs == {"bc_rlock", "mc_rlock", "read_rlock"}
PCs == {"idle", "bc_push", "mc_push", "read", "close_store", "close_swap"}
         \cup LockPCs \cup RLockPCs

isClosed == status = groupStatusClosed

Goto(p, l) ==
    /\ pc' = [pc EXCEPT ![p] = l]
    /\ UNCHANGED <<arg, todo, err, attempted, pushFailed>>

\* The call returns; its locals go out of scope.
Return(p) ==
    /\ pc' = [pc EXCEPT ![p] = "idle"]
    /\ arg' = [arg EXCEPT ![p] = NoSession]
    /\ todo' = [todo EXCEPT ![p] = {}]
    /\ err' = [err EXCEPT ![p] = "nil"]
    /\ attempted' = [attempted EXCEPT ![p] = {}]
    /\ pushFailed' = [pushFailed EXCEPT ![p] = FALSE]

Init ==
    /\ status = groupStatusWorking
    /\ closers = {}
    /\ sessions = {}
    /\ writer = NoProc
    /\ readers = {}
    /\ granted = {}
    /\ pc = [p \in Procs |-> "idle"]
    /\ arg = [p \in Procs |-> NoSession]
    /\ todo = [p \in Procs |-> {}]
    /\ err = [p \in Procs |-> "nil"]
    /\ attempted = [p \in Procs |-> {}]
    /\ pushFailed = [p \in Procs |-> FALSE]

-----------------------------------------------------------------------------
(* sync.RWMutex.  Lock takes the writer slot, from then on blocks new      *)
(* readers, and waits for the active readers to leave.  Unlock lets in     *)
(* every reader that blocked on RLock meanwhile, ahead of the next writer. *)

\* g.Lock() of Add, Leave and LeaveAll, taking the writer slot.
Lock(p) ==
    /\ pc[p] \in LockPCs
    /\ writer = NoProc
    /\ writer' = p
    /\ UNCHANGED <<status, closers, sessions, readers, granted, frameVars>>

CanWrite(p) == writer = p /\ readers = {} /\ granted = {}

\* The deferred g.Unlock().
Unlock ==
    /\ writer' = NoProc
    /\ granted' = granted \cup {q \in Procs : pc[q] \in RLockPCs}
    /\ UNCHANGED readers

\* Mutant: a reader also gets in while other readers hold the lock, even
\* with a writer waiting (a read lock without writer preference).
CanReadNoWriterPreference(p) ==
    writer = NoProc \/ p \in granted \/ readers # {}

CanRead(p) == writer = NoProc \/ p \in granted

-----------------------------------------------------------------------------
(* Add, Leave, LeaveAll: isClosed() outside the lock, the map under it.     *)

\* The isClosed() check that opens Add, Leave and LeaveAll.
CheckOpen(p, s, next) ==
    /\ pc[p] = "idle"
    /\ \/ /\ isClosed
          /\ Return(p)                      \* ErrClosedGroup
       \/ /\ ~isClosed
          /\ pc' = [pc EXCEPT ![p] = next]
          /\ arg' = [arg EXCEPT ![p] = s]
          /\ UNCHANGED <<todo, err, attempted, pushFailed>>
    /\ UNCHANGED <<status, closers, sessions, lockVars>>

Add(p, s) == CheckOpen(p, s, "add_lock")

AddLocked(p) ==
    /\ pc[p] = "add_lock"
    /\ CanWrite(p)
    /\ Unlock
    /\ \/ /\ arg[p] \in sessions            \* ErrSessionDuplication
          /\ UNCHANGED sessions
       \/ /\ arg[p] \notin sessions         \* nil
          /\ sessions' = sessions \cup {arg[p]}
    /\ Return(p)
    /\ UNCHANGED <<status, closers>>

Leave(p, s) == CheckOpen(p, s, "leave_lock")

LeaveLocked(p) ==
    /\ pc[p] = "leave_lock"
    /\ CanWrite(p)
    /\ Unlock
    /\ sessions' = sessions \ {arg[p]}      \* nil, present or not
    /\ Return(p)
    /\ UNCHANGED <<status, closers>>

LeaveAll(p) == CheckOpen(p, NoSession, "leaveall_lock")

LeaveAllLocked(p) ==
    /\ pc[p] = "leaveall_lock"
    /\ CanWrite(p)
    /\ Unlock
    /\ sessions' = {}                       \* a fresh map
    /\ Return(p)
    /\ UNCHANGED <<status, closers>>

-----------------------------------------------------------------------------
(* Broadcast and Multicast: isClosed() and message.Serialize, then the     *)
(* range loop over g.sessions under g.RLock().  The range visits the       *)
(* members in an arbitrary order; a failed s.Push is logged and the loop   *)
(* goes on.                                                                *)

FanoutCheck(p, next) ==
    /\ pc[p] = "idle"
    /\ \/ /\ isClosed
          /\ Return(p)                      \* ErrClosedGroup
       \/ /\ ~isClosed
          /\ Return(p)                      \* the Serialize error
       \/ /\ ~isClosed
          /\ Goto(p, next)
    /\ UNCHANGED <<status, closers, sessions, lockVars>>

\* Mutant: the range loop runs without g.RLock().
RLockFanoutNoRLock(p, next) ==
    /\ CanRead(p)
    /\ todo' = [todo EXCEPT ![p] = sessions]
    /\ pc' = [pc EXCEPT ![p] = next]
    /\ UNCHANGED <<status, closers, sessions, lockVars, arg, attempted>>

\* g.RLock(), and the range loop starts over the current map.
RLockFanout(p, next) ==
    /\ CanRead(p)
    /\ readers' = readers \cup {p}
    /\ granted' = granted \ {p}
    /\ todo' = [todo EXCEPT ![p] = sessions]
    /\ pc' = [pc EXCEPT ![p] = next]
    /\ UNCHANGED <<status, closers, sessions, writer, arg, attempted>>

\* The deferred g.RUnlock() once the loop is over.
FanoutDone(p) ==
    /\ todo[p] = {}
    /\ readers' = readers \ {p}
    /\ Return(p)
    /\ UNCHANGED <<status, closers, sessions, writer, granted>>

Broadcast(p) == FanoutCheck(p, "bc_rlock")

BroadcastRLock(p) ==
    /\ pc[p] = "bc_rlock"
    /\ RLockFanout(p, "bc_push")
    /\ UNCHANGED <<err, pushFailed>>

\* err = s.Push(route, data): err keeps the result of the latest push.
BroadcastPush(p) ==
    /\ pc[p] = "bc_push"
    /\ \E s \in todo[p], r \in {"nil", "ErrPush"} :
          /\ todo' = [todo EXCEPT ![p] = @ \ {s}]
          /\ attempted' = [attempted EXCEPT ![p] = @ \cup {s}]
          /\ err' = [err EXCEPT ![p] = r]
          /\ pushFailed' = [pushFailed EXCEPT ![p] = @ \/ r = "ErrPush"]
    /\ UNCHANGED <<status, closers, sessions, lockVars, pc, arg>>

\* return err
BroadcastDone(p) ==
    /\ pc[p] = "bc_push"
    /\ FanoutDone(p)

Multicast(p) == FanoutCheck(p, "mc_rlock")

MulticastRLock(p) ==
    /\ pc[p] = "mc_rlock"
    /\ RLockFanout(p, "mc_push")
    /\ UNCHANGED <<err, pushFailed>>

\* filter(s) skips the member or s.Push is called; its error is only logged.
MulticastPush(p) ==
    /\ pc[p] = "mc_push"
    /\ \E s \in todo[p] :
          /\ todo' = [todo EXCEPT ![p] = @ \ {s}]
          /\ attempted' = [attempted EXCEPT ![p] = @ \cup {s}]
    /\ UNCHANGED <<status, closers, sessions, lockVars, pc, arg, err, pushFailed>>

\* return nil
MulticastDone(p) ==
    /\ pc[p] = "mc_push"
    /\ FanoutDone(p)

-----------------------------------------------------------------------------
(* The lookups: g.RLock(), a read of g.sessions (a range over it, an index *)
(* or len), and the deferred g.RUnlock().  They do not check isClosed().   *)
(* What they return is abstracted to the map they read.                    *)

\* Member(uid) and MemberUUID(uuid) scan for the bound ID; GetMember indexes
\* the map with it; Members, MembersUUID, MembersShortUUID collect the IDs.
Member(p) ==
    /\ pc[p] = "idle"
    /\ Goto(p, "read_rlock")
    /\ UNCHANGED <<status, closers, sessions, lockVars>>

\* Contains and ContainsUUID: _, err := g.Member(uid); return err == nil
Contains(p) == Member(p)

\* Count: return len(g.sessions)
Count(p) == Member(p)

\* g.RLock(); the read happens under it, in the same critical section.
LookupRLock(p) ==
    /\ pc[p] = "read_rlock"
    /\ CanRead(p)
    /\ readers' = readers \cup {p}
    /\ granted' = granted \ {p}
    /\ attempted' = [attempted EXCEPT ![p] = sessions]
    /\ pc' = [pc EXCEPT ![p] = "read"]
    /\ UNCHANGED <<status, closers, sessions, writer, arg, todo, err,
                   pushFailed>>

\* return ...; the deferred g.RUnlock()
LookupDone(p) ==
    /\ pc[p] = "read"
    /\ FanoutDone(p)

-----------------------------------------------------------------------------
(* Close: isClosed(), atomic.StoreInt32 of the status, then g.sessions is  *)
(* replaced by an empty map -- without taking the lock.                    *)

Close(p) ==
    /\ pc[p] = "idle"
    /\ \/ /\ isClosed
          /\ Return(p)                      \* ErrCloseClosedGroup
       \/ /\ ~isClosed
          /\ Goto(p, "close_store")
    /\ UNCHANGED <<status, closers, sessions, lockVars>>

CloseStore(p) ==
    /\ pc[p] = "close_store"
    /\ status' = groupStatusClosed
    /\ closers' = closers \cup {p}
    /\ Goto(p, "close_swap")
    /\ UNCHANGED <<sessions, lockVars>>

CloseSwap(p) ==
    /\ pc[p] = "close_swap"
    /\ sessions' = {}
    /\ Return(p)                            \* nil
    /\ UNCHANGED <<status, closers, lockVars>>

-----------------------------------------------------------------------------
\* One step of one goroutine.
Step(p) ==
    \/ \E s \in Sessions : Add(p, s) \/ Leave(p, s)
    \/ LeaveAll(p) \/ Broadcast(p) \/ Multicast(p) \/ Close(p)
    \/ Lock(p) \/ AddLocked(p) \/ LeaveLocked(p) \/ LeaveAllLocked(p)
    \/ BroadcastRLock(p) \/ BroadcastPush(p) \/ BroadcastDone(p)
    \/ MulticastRLock(p) \/ MulticastPush(p) \/ MulticastDone(p)
    \/ CloseStore(p) \/ CloseSwap(p)
    \/ Member(p) \/ Contains(p) \/ Count(p) \/ LookupRLock(p) \/ LookupDone(p)

Next == \E p \in Procs : Step(p)

\* A call in progress is never abandoned.  A goroutine blocked on the lock
\* is enabled only between other goroutines' critical sections; sync.Mutex
\* hands the writer slot to a starving waiter and Unlock admits the blocked
\* readers, so a goroutine that can go on infinitely often does go on:
\* strong fairness per goroutine.  Starting a new call is up to the caller
\* and is not fair.
Busy(p) == pc[p] # "idle"

Fairness == \A p \in Procs : SF_vars(Busy(p) /\ Step(p))

Spec == Init /\ [][Next]_vars /\ Fairness

-----------------------------------------------------------------------------
(* Properties                                                              *)

TypeOK ==
    /\ status \in {groupStatusWorking, groupStatusClosed}
    /\ closers \subseteq Procs
    /\ sessions \subseteq Sessions
    /\ writer \in Procs \cup {NoProc}
    /\ readers \subseteq Procs
    /\ granted \subseteq Procs
    /\ pc \in [Procs -> PCs]
    /\ arg \in [Procs -> Sessions]
    /\ todo \in [Procs -> SUBSET Sessions]
    /\ err \in [Procs -> {"nil", "ErrPush"}]
    /\ attempted \in [Procs -> SUBSET Sessions]
    /\ pushFailed \in [Procs -> BOOLEAN]

\* Broadcast and Multicast hold the read lock across the fan-out, and the
\* lookups across their read, so that a concurrent Add/Leave/LeaveAll
\* cannot change the membership under them: when a fan-out or a lookup
\* returns on a working group, it has visited (read) exactly the sessions
\* that are members at that moment.
FanoutMatchesMembership ==
    [][\A p \in Procs :
         (pc[p] \in {"bc_push", "mc_push", "read"} /\ pc'[p] = "idle"
            /\ status' = groupStatusWorking)
            => attempted[p] = sessions']_vars

\* Every Group call that has started returns: RWMutex lets a waiting writer
\* in ahead of new readers and blocked readers in ahead of the next writer,
\* and no method waits for anything while it holds the lock.
EveryCallReturns == \A p \in Procs : Busy(p) ~> ~Busy(p)

\* Broadcast "returns the last per-session push error encountered": a
\* Broadcast in which some push failed does not return nil (it returns err).
BroadcastReportsFailure ==
    [][\A p \in Procs :
         (pc[p] = "bc_push" /\ pc'[p] = "idle" /\ pushFailed[p])
            => err[p] # "nil"]_vars

\* The refinement mapping.  The group is Closed from Close's StoreInt32 on,
\* and from then on its membership is the empty map Close is about to
\* install; closes counts the Close calls that got past isClosed() and
\* stored the status.
Closing == \E p \in Procs : pc[p] = "close_swap"

GS == INSTANCE GroupSpec WITH
        status <- IF isClosed THEN "Closed" ELSE "Working",
        members <- IF Closing THEN {} ELSE sessions,
        closes <- Cardinality(closers)

\* spec.md 4.1: the Group is the atomic registry of GroupSpec.  Above all,
\* Close flips the status once and leaves the group empty -- no Add lands
\* in a closed group -- and a second Close fails with AlreadyClosed.
ImplementsGroupSpec == GS!Spec
=============================================================================
