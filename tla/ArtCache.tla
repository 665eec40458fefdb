------------------------------ MODULE ArtCache ------------------------------
(* The art cache of the menu (src/src/texcache.c): covers are asked for by    *)
(* the GUI thread while it draws rows, read and decoded by an art worker, and *)
(* held in the slots of a cache that a theme owns.  Three threads touch it    *)
(* without a lock, only with short interrupts-off brackets on the queue.      *)
(*   - the GUI thread (priority 31): preempts the others, and is preempted by *)
(*     none of them, so that each of its operations is one step;              *)
(*   - the IO worker (32): cancels art before it frees what art refers to;    *)
(*   - the art worker (72): runs only while the IO worker is blocked.         *)
(* Epochs are kept as "still current": the comparison is all the code uses.   *)
(* gArtQueuedCount and gArtActiveCount change only inside the bracket that    *)
(* changes the queue or gArtCurrentReq, and are read off those two.           *)
EXTENDS Integers, Sequences, FiniteSets, SequencesExt

CONSTANTS
  Rows,        \* rows of the menu, each with a value of its own
  NoRow,
  NSlots,      \* cache->count
  NReqs,       \* bound: requests that can be allocated
  Sio2,        \* rows whose art is on the controller's bus
  Long,        \* rows whose value does not fit a slot's key
  Art,         \* rows whose art is on the device at the start
  Background,  \* this is the cache of the backgrounds
  IoOps,       \* what the IO worker may do: "apps", "theme"
  Quits,       \* bound: is the program taken down
  Events       \* bound: operations of the IO worker, rebuilt rows, dropped views,
               \* cancelled loads, memos given up, reads that fail, and steps of
               \* the GUI into a half-done clear or decrement

ASSUME ArtAssumption ==
  /\ NSlots \in Nat \ {0} /\ NReqs \in Nat \ {0} /\ NoRow \notin Rows
  /\ Sio2 \subseteq Rows /\ Long \subseteq Rows /\ Art \subseteq Rows
  /\ Background \in BOOLEAN
  /\ Quits \in BOOLEAN /\ Events \in Nat /\ IoOps \subseteq {"apps", "theme"}

VARIABLES
  slot,     \* cache->content: [qr, uid, used, key, tex, now]
  row,      \* a row's (cacheId, UID); a pair that matches no slot any more is NoSlot
  req,      \* the requests: [cache, row, slot, view, focus, now, abort, stamped]
  queue,    \* gArtReqList
  current,  \* gArtCurrentReq, 0 is NULL
  refs,     \* cache->activeRequests
  lost,     \* history: a decrement of it has undone what another thread did to it
  worker,   \* the art worker: [pc, req, found, loaded, store]
  io,       \* the IO worker: [pc, op, all, chain, keep, loaded, store]
  wake,     \* a wakeup is pending for the art worker
  nav,      \* gArtNavActive
  gui,      \* how far the GUI thread has taken the program down
  disk,     \* rows whose art is on the device now
  budget    \* what is left of Events

cacheVars == <<slot, row, refs, lost>>
queueVars == <<req, queue, current, wake>>
menuVars == <<nav, gui>>
vars == <<cacheVars, queueVars, worker, io, menuVars, disk, budget>>

Slots == 0 .. NSlots - 1
Reqs == 1 .. NReqs
NoSlot == -1
Absent == -2   \* asked and answered in this fail generation

(* lastUsed: -1, 0, a frame more than ART_CANCEL_STALE_FRAMES ago, a later    *)
(* one.                                                                       *)
NoTenant == [qr |-> 0, uid |-> 0, used |-> "free", key |-> NoRow, tex |-> NoRow, now |-> FALSE]

Gone == [cache |-> "gone", row |-> NoRow, slot |-> NoSlot, view |-> FALSE, focus |-> FALSE,
         now |-> FALSE, abort |-> FALSE, stamped |-> FALSE]

(* gArtRunning, gCacheLoadsCancelled, gArtTerminate, gArtShutdownAbandoned    *)
Running == worker.pc # "gone"
Cancelled == gui # "menu"
Terminate == gui \in {"joining", "joined", "abandoned", "over"}
Abandoned == gui \in {"abandoned", "over"}

Alive(q) == req[q].cache # "gone"
Entry(q) == slot[req[q].slot]
OnSio2(q) == req[q].row \in Sio2
InCache(q) == req[q].cache = "live"

IoIdle == [pc |-> "idle", op |-> "none", all |-> FALSE, chain |-> <<>>, keep |-> <<>>,
           loaded |-> 0, store |-> 0]

(* A pair (i, UID) is i while the slot has that UID.  UIDs are not used twice,*)
(* but 0 is what a cleared slot has: (i, 0) is kept as NSlots + i.            *)
Pair(r) == IF row[r] \in Slots THEN row[r]
           ELSE IF row[r] - NSlots \in Slots /\ slot[row[r] - NSlots].uid = 0
                  THEN row[r] - NSlots ELSE NoSlot
PairOf(i) == IF slot[i].uid = 0 THEN NSlots + i ELSE i

(* The UIDs of these slots change.                                            *)
Forget(S) == [r \in Rows |-> IF row[r] \in S THEN NoSlot ELSE row[r]]

Init ==
  /\ slot = [i \in Slots |-> NoTenant] /\ row = [r \in Rows |-> NoSlot]
  /\ req = [q \in Reqs |-> Gone] /\ queue = <<>> /\ current = 0 /\ refs = 0
  /\ lost = FALSE
  /\ worker = [pc |-> "asleep", req |-> 0, found |-> FALSE, loaded |-> 0, store |-> 0]
  /\ io = IoIdle
  /\ wake = FALSE /\ nav = FALSE /\ gui = "menu"
  /\ disk = Art
  /\ budget = Events

(* What a step takes of the bound                                             *)
Costs(n) == budget >= n /\ budget' = budget - n
Event == Costs(1)
Race(P) == IF P THEN 1 ELSE 0

(* Another thread is between the load and the store of activeRequests--, or   *)
(* inside cacheClearItem of slot i.                                           *)
HalfDecremented == worker.pc = "deref" \/ io.pc = "deref"
HalfCleared(i) ==
  \/ worker.pc = "clear" /\ req[worker.req].slot = i
  \/ io.pc = "clear" /\ req[Head(io.chain)].slot = i

-----------------------------------------------------------------------------
(* The queue.  Each operator is one DIntr bracket.                            *)

(* What is queued of Q, in the order of the queue.                            *)
InOrder(Q) ==
  LET K == ToSet(queue) \cap Q
      Before(p, q) == \E i, j \in DOMAIN queue : i < j /\ queue[i] = p /\ queue[j] = q
  IN {s \in [1 .. Cardinality(K) -> K] :
        /\ \A q \in K : \E i \in DOMAIN s : s[i] = q
        /\ \A i, j \in DOMAIN s : i < j => Before(s[i], s[j])}

(* artPromote: the request joins the head only if it is in this queue.        *)
artPromote(q) ==
  IF current # q /\ req[q].stamped /\ (queue = <<>> \/ Head(queue) # q)
    THEN {<<q>> \o others : others \in InOrder(Reqs \ {q})}
    ELSE {queue}

(* Mutant: the generation is not advanced.                                    *)
DetachKeepsStamp(r) == r

(* artDetachAll: the queue is swapped out, and its generation is over.        *)
artDetachAll(r) == [q \in Reqs |-> [r[q] EXCEPT !.stamped = FALSE]]

Flag(q) == [req EXCEPT ![q].abort = TRUE]

(* gArtCurrentReq->abortRequested = 1, for the current request if P.          *)
FlagCurrent(P) == IF current # 0 /\ P THEN Flag(current) ELSE req

(* Mutant: the slots of dropped requests are not released.                    *)
FreeRequestsOnly(r, Q) ==
  /\ req' = [q \in Reqs |-> IF q \in Q THEN Gone ELSE r[q]]
  /\ UNCHANGED cacheVars

(* artFreeChain on the GUI thread: nobody sees it half done.                  *)
FreeChain(r, Q) ==
  /\ req' = [q \in Reqs |-> IF q \in Q THEN Gone ELSE r[q]]
  /\ LET Cleared == {i \in Slots : \E q \in Q : InCache(q) /\ req[q].slot = i /\ slot[i].qr = q}
     IN /\ slot' = [i \in Slots |-> IF i \in Cleared THEN NoTenant ELSE slot[i]]
        /\ row' = Forget(Cleared)
  /\ LET n == Cardinality({q \in Q : InCache(q)})
     IN refs' = IF refs > n THEN refs - n ELSE IF refs > 0 THEN 0 ELSE refs
  /\ UNCHANGED lost

-----------------------------------------------------------------------------
(* The GUI thread: cacheGetTextureEx, for a row drawn with or without the     *)
(* highlight.  It draws under the GUI lock.                                   *)

Drawing == gui = "menu" /\ io.pc # "destroy"

Parked(i) == slot[i].qr = 0 /\ slot[i].used = "absent"

Own(r) == Pair(r) # NoSlot /\ ~(Parked(Pair(r)) /\ ~slot[Pair(r)].now)

(* Reunion by value: the first slot with this key.                            *)
Keyed(r) ==
  IF r \in Long \/ \A i \in Slots : slot[i].key # r THEN NoSlot
  ELSE CHOOSE i \in Slots : slot[i].key = r /\ \A j \in Slots : slot[j].key = r => i <= j

Found(r) == IF Own(r) THEN Pair(r) ELSE Keyed(r)

Loading(r) == Found(r) # NoSlot /\ slot[Found(r)].qr # 0
KnownAbsent(r) == Found(r) # NoSlot /\ Parked(Found(r)) /\ slot[Found(r)].now
Ready(r) == /\ Found(r) # NoSlot /\ slot[Found(r)].qr = 0 /\ slot[Found(r)].used # "absent"
            /\ Own(r) \/ slot[Found(r)].tex # NoRow

(* artUpdateFocus: a highlight that moved (to another list or value) ends the *)
(* generation of every request.                                               *)
Highlights == {"none", "same", "moved"}
Focused(light) ==
  IF light = "moved" THEN [q \in Reqs |-> [req[q] EXCEPT !.focus = FALSE]] ELSE req

DrawAbsent(r, light) ==
  /\ Drawing /\ row[r] = Absent
  /\ req' = Focused(light)
  /\ UNCHANGED <<cacheVars, queue, current, wake, worker, io, nav, gui, disk, budget>>

(* Still loading: stamp the slot as wanted, adopt the request, promote it.    *)
(* What is written to a request that was freed is left out.                   *)
DrawLoading(r, light) ==
  /\ Drawing /\ row[r] # Absent /\ Loading(r)
  /\ LET i == Found(r)
         q == slot[i].qr
     IN /\ slot' = [slot EXCEPT ![i].used = "recent"]
        /\ row' = [row EXCEPT ![r] = PairOf(i)]
        /\ req' = [Focused(light) EXCEPT ![q].focus = Alive(q)]
        /\ queue' \in IF light # "none" /\ ~(OnSio2(q) /\ nav) THEN artPromote(q) ELSE {queue}
  /\ UNCHANGED <<refs, lost, current, wake, worker, io, nav, gui, disk, budget>>

DrawPark(r, light) ==
  /\ Drawing /\ row[r] # Absent /\ KnownAbsent(r)
  /\ row' = [row EXCEPT ![r] = Absent]
  /\ req' = Focused(light)
  /\ UNCHANGED <<slot, refs, lost, queue, current, wake, worker, io, nav, gui, disk, budget>>

DrawReady(r, light) ==
  /\ Drawing /\ row[r] # Absent /\ Ready(r)
  /\ row' = [row EXCEPT ![r] = PairOf(Found(r))]
  /\ slot' = [slot EXCEPT ![Found(r)].used = "recent"]
  /\ req' = Focused(light)
  /\ UNCHANGED <<refs, lost, queue, current, wake, worker, io, nav, gui, disk, budget>>

(* The scan for the oldest slot: never one that is loading, none with a       *)
(* picture on the controller's bus while a direction is held.  Free slots go  *)
(* first, then parked ones, in order of index, then the picture drawn longest *)
(* ago, but none drawn in this very frame.  NoSlot: nothing to take.          *)
Victims(r) ==
  LET Idle(u) == {i \in Slots : slot[i].qr = 0 /\ slot[i].used = u}
      First(S) == {CHOOSE i \in S : \A j \in S : i <= j}
  IN IF Idle("free") # {} THEN First(Idle("free"))
     ELSE IF Idle("absent") # {} THEN First(Idle("absent"))
     ELSE IF r \in Sio2 /\ nav THEN {NoSlot}
     ELSE Idle("stale") \cup Idle("recent") \cup {NoSlot}

(* cacheAbortOtherBackgrounds                                                 *)
AbortOthers(r, requests) ==
  [q \in Reqs |-> [requests[q] EXCEPT !.abort = @ \/
     (Background /\ Alive(q)
        /\ \E i \in Slots : slot[i].qr = q /\ slot[i].key \notin {NoRow, r})]]

Missing(r) == row[r] # Absent /\ ~Loading(r) /\ ~KnownAbsent(r) /\ ~Ready(r)

(* Refused: SIO2 art before the pad is idle, no slot, no memory, no worker.   *)
DrawRefused(r, light) ==
  /\ Drawing /\ Missing(r)
  /\ row' = [row EXCEPT ![r] = NoSlot]
  /\ \/ r \in Sio2 /\ req' = Focused(light)
     \/ /\ NoSlot \in Victims(r) \/ \A q \in Reqs : Alive(q)
        /\ req' = AbortOthers(r, Focused(light))
  /\ UNCHANGED <<slot, refs, lost, queue, current, wake, worker, io, nav, gui, disk, budget>>

(* Mutant: the slot is counted from 1.                                        *)
NewRequestOffByOne(r, i) ==
  [cache |-> "live", row |-> r, slot |-> i + 1, view |-> TRUE, focus |-> TRUE, now |-> TRUE,
   abort |-> FALSE, stamped |-> TRUE]

NewRequest(r, i) ==
  [cache |-> "live", row |-> r, slot |-> i, view |-> TRUE, focus |-> TRUE, now |-> TRUE,
   abort |-> FALSE, stamped |-> TRUE]

(* Born wanted: the slot is stamped when it is claimed.                       *)
Claimed(r, q) ==
  [qr |-> q, uid |-> q, used |-> "recent", key |-> IF r \in Long THEN NoRow ELSE r,
   tex |-> NoRow, now |-> FALSE]

DrawMiss(r, light) ==
  /\ Drawing /\ Missing(r) /\ Running
  /\ \E i \in Victims(r) \ {NoSlot}, q \in Reqs :
       /\ ~Alive(q) /\ \A p \in Reqs : ~Alive(p) => q <= p
       /\ slot' = [slot EXCEPT ![i] = Claimed(r, q)]
       /\ Costs(Race(HalfDecremented \/ HalfCleared(i)))
       /\ row' = [Forget({i}) EXCEPT ![r] = i]
       /\ req' = [AbortOthers(r, Focused(light)) EXCEPT ![q] = NewRequest(r, i)]
       /\ queue' = IF light # "none" /\ ~(r \in Sio2 /\ nav) THEN <<q>> \o queue
                   ELSE Append(queue, q)
  /\ refs' = refs + 1 /\ wake' = TRUE
  /\ UNCHANGED <<lost, current, worker, io, nav, gui, disk>>

Draw(r, light) ==
  \/ DrawAbsent(r, light) \/ DrawLoading(r, light) \/ DrawPark(r, light)
  \/ DrawReady(r, light) \/ DrawRefused(r, light) \/ DrawMiss(r, light)

cacheLookupTexture(r) ==
  /\ Drawing /\ Pair(r) # NoSlot
  /\ slot[Pair(r)].qr = 0 /\ slot[Pair(r)].used # "absent" /\ slot[Pair(r)].tex # NoRow
  /\ slot' = [slot EXCEPT ![Pair(r)].used = "recent"]
  /\ UNCHANGED <<row, refs, lost, queueVars, worker, io, menuVars, disk, budget>>

(* Frames go by in which a row is not drawn: only the worker can tell.        *)
Age(i) ==
  /\ gui = "menu" /\ slot[i].qr # 0 /\ slot[i].used = "recent"
  /\ slot' = [slot EXCEPT ![i].used = "stale"]
  /\ UNCHANGED <<row, refs, lost, queueVars, worker, io, menuVars, disk, budget>>

-----------------------------------------------------------------------------
(* The GUI thread: the other operations.                                      *)

(* Mutant: the direction is sampled and nothing else.                         *)
TickNoNet(held) ==
  /\ gui = "menu" /\ nav' = held
  /\ UNCHANGED <<cacheVars, queueVars, worker, io, gui, disk, budget>>

(* Every frame: the held direction, and a net for lost wakeups.               *)
cacheTickArt(held) ==
  /\ gui = "menu" /\ nav' = held
  /\ wake' = (wake \/ (Running /\ queue # <<>> /\ current = 0))
  /\ UNCHANGED <<cacheVars, req, queue, current, worker, io, gui, disk, budget>>

(* The view these covers belong to is gone.                                   *)
cacheDropQueuedArt ==
  /\ gui = "menu" /\ Event
  /\ req' = [q \in Reqs |-> [req[q] EXCEPT !.view = FALSE]] /\ wake' = Running
  /\ UNCHANGED <<cacheVars, queue, current, worker, io, menuVars, disk>>

(* New art may have appeared: every "absent" answer is of an older generation.*)
(* Art that is copied to the device counts from here on.                      *)
cacheInvalidateFailMemo(r) ==
  /\ gui = "menu" /\ Event /\ disk' = disk \cup {r}
  /\ row' = [x \in Rows |-> IF row[x] = Absent THEN NoSlot ELSE row[x]]
  /\ slot' = [i \in Slots |-> [slot[i] EXCEPT !.now = FALSE]]
  /\ req' = [q \in Reqs |-> [req[q] EXCEPT !.now = FALSE]]
  /\ UNCHANGED <<refs, lost, queue, current, wake, worker, io, menuVars>>

(* A list rebuild: the row has no pair yet (cacheRowPairsReady).              *)
RowReborn(r) ==
  /\ gui = "menu" /\ Event /\ row[r] # NoSlot
  /\ row' = [row EXCEPT ![r] = NoSlot]
  /\ UNCHANGED <<slot, refs, lost, queueVars, worker, io, menuVars, disk>>

(* cacheCancelPendingImageLoadsTimed(0), before the menu reads a configuration*)
GuiCancel ==
  /\ gui = "menu" /\ Costs(1 + Race(HalfDecremented)) /\ Running
  /\ FreeChain(artDetachAll(FlagCurrent(TRUE)), ToSet(queue))
  /\ queue' = <<>> /\ wake' = TRUE
  /\ UNCHANGED <<current, worker, io, menuVars, disk>>

(* cacheAbortMmceImageLoadsTimed(0), the same for the controller's bus only   *)
GuiAbortSio2 ==
  /\ gui = "menu" /\ Costs(1 + Race(HalfDecremented)) /\ Running
  /\ LET Kept == {q \in ToSet(queue) : ~OnSio2(q)}
         r == artDetachAll(FlagCurrent(OnSio2(current)))
     IN /\ FreeChain([q \in Reqs |-> [r[q] EXCEPT !.stamped = q \in Kept]],
                     ToSet(queue) \ Kept)
        /\ queue' \in InOrder(Kept)
  /\ wake' = TRUE
  /\ UNCHANGED <<current, worker, io, menuVars, disk>>

cacheShutdownArtLoads ==
  /\ Quits /\ gui = "menu" /\ gui' = "closing" /\ Costs(Race(HalfDecremented))
  /\ FreeChain(artDetachAll(FlagCurrent(TRUE)), ToSet(queue))
  /\ queue' = <<>> /\ wake' = Running
  /\ UNCHANGED <<current, worker, io, nav, disk>>

(* cacheEnd: the loads are shut down again, then the worker is told to stop.  *)
CacheEndBegin ==
  /\ gui = "closing" /\ gui' = "joining" /\ Costs(Race(HalfDecremented))
  /\ FreeChain(artDetachAll(FlagCurrent(TRUE)), ToSet(queue))
  /\ queue' = <<>> /\ wake' = Running
  /\ UNCHANGED <<current, worker, io, nav, disk>>

(* The join ends with the worker, or with its budget.                         *)
CacheEndJoin ==
  /\ gui = "joining" /\ gui' = IF Running THEN "abandoned" ELSE "joined"
  /\ UNCHANGED <<cacheVars, queueVars, worker, io, nav, disk, budget>>

-----------------------------------------------------------------------------
(* cacheDestroyCache: its requests are waited for; when the wait runs out the *)
(* cache leaks.  What the next theme's cache looks like is its Init.          *)

(* Mutant: the cache is freed when the wait runs out.                         *)
FreeAnyway == "freed"

FreeOrLeak == IF refs > 0 THEN "leaked" ELSE "freed"

DestroyCache ==
  /\ req' = [q \in Reqs |-> IF InCache(q) THEN [req[q] EXCEPT !.cache = FreeOrLeak] ELSE req[q]]
  /\ slot' = [i \in Slots |-> NoTenant] /\ row' = [r \in Rows |-> NoSlot] /\ refs' = 0
  /\ UNCHANGED lost

(* thmEnd, when the program goes down                                         *)
GuiDestroy ==
  /\ gui \in {"joined", "abandoned"} /\ gui' = "over"
  /\ io.pc # "destroy"
  /\ DestroyCache
  /\ UNCHANGED <<queue, current, wake, worker, io, nav, disk, budget>>

-----------------------------------------------------------------------------
(* The art worker                                                             *)

WorkerMay == io.pc \in {"idle", "wait", "list", "destroy"}

Goto(pc) == worker' = [worker EXCEPT !.pc = pc]

(* Mutant: the worker's loops do not look at gArtTerminate.                   *)
NeverEnd(pc) == pc

OrEnd(pc) == IF Terminate THEN "end" ELSE pc

WorkerSleep ==
  /\ WorkerMay /\ worker.pc = "asleep" /\ wake
  /\ wake' = FALSE /\ Goto(OrEnd("pop"))
  /\ UNCHANGED <<cacheVars, req, queue, current, io, menuVars, disk, budget>>

(* The head waits while a direction is held, if it is on the pad's bus.       *)
Deferred == queue # <<>> => OnSio2(Head(queue)) /\ nav

artPopNone ==
  /\ WorkerMay /\ worker.pc = "pop" /\ Deferred
  /\ Goto(OrEnd("asleep"))
  /\ UNCHANGED <<cacheVars, queueVars, io, menuVars, disk, budget>>

artPop ==
  /\ WorkerMay /\ worker.pc = "pop" /\ ~Deferred
  /\ current' = Head(queue) /\ queue' = Tail(queue)
  /\ req' = [req EXCEPT ![Head(queue)].stamped = FALSE]
  /\ worker' = [worker EXCEPT !.pc = "check", !.req = Head(queue)]
  /\ UNCHANGED <<cacheVars, wake, io, menuVars, disk, budget>>

(* Mutant: a slot that changed hands is not noticed.                          *)
NotChecked(q) == FALSE

(* req->cacheUID # req->entry->UID                                            *)
Orphaned(q) == Entry(q).uid # q

Unwanted(q) == ~req[q].focus \/ Entry(q).used # "recent" \/ ~req[q].view \/ req[q].abort

(* cacheLoadImage up to the read.  The music's reserve may hold it back       *)
(* first.  A request into a leaked cache touches nothing that is left.        *)
WorkerCheck ==
  /\ WorkerMay /\ worker.pc = "check"
  /\ LET q == worker.req
         next == IF Cancelled \/ ~InCache(q) THEN "release"
                 ELSE IF Orphaned(q) THEN "release"
                 ELSE IF Unwanted(q) THEN "clear" ELSE "read"
     IN worker' = [worker EXCEPT !.pc = next, !.found = next = "read" /\ req[q].row \in disk,
                                 !.store = IF next = "clear" THEN 1 ELSE 0]
  /\ UNCHANGED <<cacheVars, queueVars, io, menuVars, disk, budget>>

SetEntry(q, e) == slot' = IF InCache(q) THEN [slot EXCEPT ![req[q].slot] = e] ELSE slot

(* The read came back after cacheEnd gave up on this thread.                  *)
WorkerAbandoned ==
  /\ WorkerMay /\ worker.pc = "read" /\ Abandoned
  /\ req' = [req EXCEPT ![worker.req] = Gone]
  /\ current' = 0
  /\ worker' = [worker EXCEPT !.pc = "end", !.req = 0, !.found = FALSE]
  /\ UNCHANGED <<cacheVars, queue, wake, io, menuVars, disk, budget>>

(* Mutant: an absence is of the generation that is current when it is found.  *)
LiveGeneration(q) == TRUE

(* entry->failEpoch = req->failEpoch                                          *)
ProbeGeneration(q) == req[q].now

(* A read that ended well fills the entry; an absence parks it.  qr is last.  *)
WorkerFill ==
  /\ WorkerMay /\ worker.pc = "read" /\ ~Abandoned
  /\ LET q == worker.req
     IN \/ /\ worker.found
           /\ SetEntry(q, [Entry(q) EXCEPT !.tex = req[q].row, !.used = "recent"])
        \/ /\ ~worker.found /\ ~req[q].abort
           /\ SetEntry(q, [Entry(q) EXCEPT !.used = "absent", !.now = ProbeGeneration(q)])
  /\ worker' = [worker EXCEPT !.pc = "handoff", !.found = FALSE]
  /\ UNCHANGED <<row, refs, lost, queueVars, io, menuVars, disk, budget>>

(* A read that was aborted, or that failed and is no answer.                  *)
WorkerFail ==
  /\ WorkerMay /\ worker.pc = "read" /\ ~Abandoned
  /\ \/ req[worker.req].abort /\ UNCHANGED budget
     \/ Event
  /\ worker' = [worker EXCEPT !.pc = "clear", !.found = FALSE, !.store = 1]
  /\ UNCHANGED <<cacheVars, queueVars, io, menuVars, disk>>

WorkerHandoff ==
  /\ WorkerMay /\ worker.pc = "handoff"
  /\ SetEntry(worker.req, [Entry(worker.req) EXCEPT !.qr = 0])
  /\ Goto("release")
  /\ UNCHANGED <<row, refs, lost, queueVars, io, menuVars, disk, budget>>

(* cacheClearItem off the GUI thread, store by store: memset, in the order of *)
(* the members, then qr, lastUsed and UID.  The GUI thread may draw, and claim*)
(* the slot, between any two of them.  (The texture goes with qr, failEpoch   *)
(* with the key: nobody looks at them in between.)                            *)
Stored(e, n) ==
  CASE n = 1 -> [e EXCEPT !.tex = NoRow, !.qr = 0]
    [] n = 2 -> [e EXCEPT !.used = "absent"]
    [] n = 3 -> [e EXCEPT !.uid = 0]
    [] n = 4 -> [e EXCEPT !.key = NoRow, !.now = FALSE]
    [] n = 5 -> [e EXCEPT !.qr = 0]
    [] n = 6 -> [e EXCEPT !.used = "free"]
    [] n = 7 -> [e EXCEPT !.uid = 0]
LastStore == 7

ClearStore(q, n) ==
  /\ SetEntry(q, Stored(Entry(q), n))
  /\ row' = IF InCache(q) /\ n \in {3, 7} THEN Forget({req[q].slot}) ELSE row

WorkerClear ==
  /\ WorkerMay /\ worker.pc = "clear"
  /\ ClearStore(worker.req, worker.store)
  /\ worker' = IF worker.store < LastStore THEN [worker EXCEPT !.store = @ + 1]
               ELSE [worker EXCEPT !.pc = "release", !.store = 0]
  /\ UNCHANGED <<refs, lost, queueVars, io, menuVars, disk, budget>>

(* artReleaseRequest: the bracket, then the reference, then the request, of   *)
(* which only the cache is looked at from here on.                            *)
WorkerRelease ==
  /\ WorkerMay /\ worker.pc = "release"
  /\ current' = 0
  /\ req' = [req EXCEPT ![worker.req] = [Gone EXCEPT !.cache = req[worker.req].cache]]
  /\ Goto("test")
  /\ UNCHANGED <<cacheVars, queue, wake, io, menuVars, disk, budget>>

(* activeRequests-- outside any bracket: a test, a load and a store.          *)
Referenced(q) == InCache(q) /\ refs > 0

Decremented(q, loaded) ==
  /\ refs' = IF InCache(q) THEN loaded - 1 ELSE refs
  /\ lost' = (lost \/ (InCache(q) /\ loaded # refs))

WorkerFrees ==
  /\ req' = [req EXCEPT ![worker.req] = Gone]
  /\ worker' = [worker EXCEPT !.pc = OrEnd("pop"), !.req = 0, !.loaded = 0]

WorkerTest ==
  /\ WorkerMay /\ worker.pc = "test"
  /\ IF Referenced(worker.req) THEN Goto("load") /\ UNCHANGED req ELSE WorkerFrees
  /\ UNCHANGED <<cacheVars, queue, current, wake, io, menuVars, disk, budget>>

WorkerLoad ==
  /\ WorkerMay /\ worker.pc = "load"
  /\ worker' = [worker EXCEPT !.pc = "deref", !.loaded = refs]
  /\ UNCHANGED <<cacheVars, queueVars, io, menuVars, disk, budget>>

WorkerDeref ==
  /\ WorkerMay /\ worker.pc = "deref"
  /\ Decremented(worker.req, worker.loaded)
  /\ WorkerFrees
  /\ UNCHANGED <<slot, row, queue, current, wake, io, menuVars, disk, budget>>

WorkerEnd ==
  /\ WorkerMay /\ worker.pc = "end" /\ Goto("gone")
  /\ UNCHANGED <<cacheVars, queueVars, io, menuVars, disk, budget>>

WorkerStep ==
  \/ WorkerSleep \/ artPopNone \/ artPop \/ WorkerCheck \/ WorkerAbandoned \/ WorkerFill
  \/ WorkerFail \/ WorkerHandoff \/ WorkerClear \/ WorkerRelease \/ WorkerTest
  \/ WorkerLoad \/ WorkerDeref \/ WorkerEnd

-----------------------------------------------------------------------------
(* The IO worker.  Before the list of the applications is rebuilt and before  *)
(* a theme is freed it aborts the art of the controller's bus, then cancels   *)
(* all art: `all' tells the two apart.                                        *)

IoGoto(pc) == io' = [io EXCEPT !.pc = pc]

(* The request under way is flagged and the queue detached.                   *)
IoDetach(op, all) ==
  /\ req' = artDetachAll(FlagCurrent(all \/ OnSio2(current)))
  /\ queue' = <<>>
  /\ io' = [IoIdle EXCEPT !.pc = "drop", !.op = op, !.all = all, !.chain = queue]

IoBegin(op) ==
  /\ io.pc = "idle" /\ gui = "menu"
  /\ Event
  /\ IoDetach(op, FALSE)
  /\ UNCHANGED <<cacheVars, current, wake, worker, menuVars, disk>>

Dropping == io.pc = "drop" /\ io.chain # <<>> /\ (io.all \/ OnSio2(Head(io.chain)))

IoKeep ==
  /\ io.pc = "drop" /\ io.chain # <<>> /\ ~Dropping
  /\ io' = [io EXCEPT !.chain = Tail(@), !.keep = Append(@, Head(io.chain))]
  /\ UNCHANGED <<cacheVars, queueVars, worker, menuVars, disk, budget>>

(* artFreeChain: a slot still waiting for this request is cleared.            *)
IoClear ==
  /\ Dropping
  /\ LET q == Head(io.chain)
     IN io' = IF InCache(q) /\ Entry(q).qr = q
                THEN [io EXCEPT !.pc = "clear", !.store = 1] ELSE [io EXCEPT !.pc = "test"]
  /\ UNCHANGED <<cacheVars, queueVars, worker, menuVars, disk, budget>>

IoCleared ==
  /\ io.pc = "clear"
  /\ ClearStore(Head(io.chain), io.store)
  /\ io' = IF io.store < LastStore THEN [io EXCEPT !.store = @ + 1]
           ELSE [io EXCEPT !.pc = "test", !.store = 0]
  /\ UNCHANGED <<refs, lost, queueVars, worker, menuVars, disk, budget>>

IoFrees ==
  /\ req' = [req EXCEPT ![Head(io.chain)] = Gone]
  /\ io' = [io EXCEPT !.pc = "drop", !.chain = Tail(@), !.loaded = 0]

IoTest ==
  /\ io.pc = "test"
  /\ IF Referenced(Head(io.chain)) THEN IoGoto("load") /\ UNCHANGED req ELSE IoFrees
  /\ UNCHANGED <<cacheVars, queue, current, wake, worker, menuVars, disk, budget>>

IoLoad ==
  /\ io.pc = "load" /\ io' = [io EXCEPT !.pc = "deref", !.loaded = refs]
  /\ UNCHANGED <<cacheVars, queueVars, worker, menuVars, disk, budget>>

IoDeref ==
  /\ io.pc = "deref"
  /\ Decremented(Head(io.chain), io.loaded)
  /\ IoFrees
  /\ UNCHANGED <<slot, row, queue, current, wake, worker, menuVars, disk, budget>>

(* artPush of what is kept                                                    *)
IoRepush ==
  /\ io.pc = "drop" /\ io.chain = <<>> /\ io.keep # <<>>
  /\ queue' = Append(queue, Head(io.keep))
  /\ req' = [req EXCEPT ![Head(io.keep)].stamped = TRUE]
  /\ io' = [io EXCEPT !.keep = Tail(@)]
  /\ UNCHANGED <<cacheVars, current, wake, worker, menuVars, disk, budget>>

IoWake ==
  /\ io.pc = "drop" /\ io.chain = <<>> /\ io.keep = <<>>
  /\ wake' = Running /\ IoGoto("wait")
  /\ UNCHANGED <<cacheVars, req, queue, current, worker, menuVars, disk, budget>>

Drained == IF io.all THEN queue = <<>> /\ current = 0 ELSE current = 0 \/ ~OnSio2(current)

(* The wait ends when the art is drained or its time is up.  A theme is kept  *)
(* unless both drains succeeded; the applications do not look at the answers. *)
IoWaited ==
  /\ io.pc = "wait"
  /\ CASE io.op = "theme" /\ ~Drained -> io' = IoIdle /\ UNCHANGED <<req, queue>>
       [] ~io.all -> IoDetach(io.op, TRUE)
       [] OTHER   -> /\ IoGoto(IF io.op = "apps" THEN "list" ELSE "lock")
                     /\ UNCHANGED <<req, queue>>
  /\ UNCHANGED <<cacheVars, current, wake, worker, menuVars, disk, budget>>

(* appFreeList and the scan that builds the next list                         *)
IoList ==
  /\ io.pc = "list" /\ io' = IoIdle
  /\ UNCHANGED <<cacheVars, queueVars, worker, menuVars, disk, budget>>

(* thmFree under the GUI lock, and cacheDestroyCache from it                  *)
IoLock ==
  /\ io.pc = "lock" /\ gui # "over" /\ IoGoto("destroy")
  /\ IF refs > 0
       THEN req' = FlagCurrent(InCache(current)) /\ wake' = Running
       ELSE UNCHANGED <<req, wake>>
  /\ UNCHANGED <<cacheVars, queue, current, worker, menuVars, disk, budget>>

IoDestroy ==
  /\ io.pc = "destroy" /\ io' = IoIdle
  /\ DestroyCache
  /\ UNCHANGED <<queue, current, wake, worker, menuVars, disk, budget>>

IoStep ==
  \/ IoKeep \/ IoClear \/ IoCleared \/ IoTest \/ IoLoad \/ IoDeref \/ IoRepush
  \/ IoWake \/ IoWaited \/ IoList \/ IoLock \/ IoDestroy

-----------------------------------------------------------------------------
GuiStep ==
  \/ \E r \in Rows : \/ \E light \in Highlights : Draw(r, light)
                     \/ cacheLookupTexture(r) \/ RowReborn(r)
  \/ \E i \in Slots : Age(i)
  \/ cacheDropQueuedArt \/ (\E r \in Rows : cacheInvalidateFailMemo(r))
  \/ GuiCancel \/ GuiAbortSio2
  \/ cacheShutdownArtLoads \/ CacheEndBegin \/ CacheEndJoin \/ GuiDestroy

Frame == \E held \in BOOLEAN : cacheTickArt(held)

Next == \/ GuiStep \/ Frame \/ WorkerStep \/ IoStep
        \/ \E op \in IoOps : IoBegin(op)

Spec == Init /\ [][Next]_vars

(* The GUI runs a frame every vertical blank, whatever the pad does, and      *)
(* sleeps until the next one; waits of the IO worker are bounded; a device    *)
(* read returns.                                                              *)
FairSpec == Spec /\ WF_vars(WorkerStep) /\ WF_vars(IoStep) /\ WF_vars(cacheTickArt(nav))

-----------------------------------------------------------------------------
(* Properties                                                                 *)

RowState == 0 .. 2 * NSlots - 1 \cup {NoSlot, Absent}
SlotState ==
  [qr : Reqs \cup {0}, uid : Reqs \cup {0}, used : {"free", "absent", "stale", "recent"},
   key : Rows \cup {NoRow}, tex : Rows \cup {NoRow}, now : BOOLEAN]
RequestState ==
  [cache : {"gone", "live", "leaked", "freed"}, row : Rows \cup {NoRow},
   slot : Slots \cup {NoSlot}, view : BOOLEAN, focus : BOOLEAN, now : BOOLEAN,
   abort : BOOLEAN, stamped : BOOLEAN]
WorkerState ==
  [pc : {"asleep", "pop", "check", "read", "handoff", "clear", "release", "test", "load",
         "deref", "end", "gone"},
   req : Reqs \cup {0}, found : BOOLEAN, loaded : Int, store : 0 .. LastStore]
IoState ==
  [pc : {"idle", "drop", "clear", "test", "load", "deref", "wait", "list", "lock", "destroy"},
   op : {"none", "apps", "theme"}, all : BOOLEAN, chain : Seq(Reqs), keep : Seq(Reqs),
   loaded : Int, store : 0 .. LastStore]

(* Every variable has its type.                                               *)
TypeOK ==
  /\ slot \in [Slots -> SlotState]
  /\ row \in [Rows -> RowState]
  /\ req \in [Reqs -> RequestState]
  /\ queue \in Seq(Reqs) /\ current \in Reqs \cup {0}
  /\ refs \in Int /\ lost \in BOOLEAN
  /\ worker \in WorkerState /\ io \in IoState
  /\ wake \in BOOLEAN /\ nav \in BOOLEAN
  /\ gui \in {"menu", "closing", "joining", "joined", "abandoned", "over"}
  /\ disk \subseteq Rows
  /\ budget \in 0 .. Events

(* While the menu draws, the request a slot points to has not been freed:     *)
(* cacheGetTextureEx and cacheAbortOtherBackgrounds write through qr.  The    *)
(* exception is a slot without a UID: one claimed between the last two stores *)
(* of cacheClearItem, whose request cacheLoadImage drops as an orphan, without*)
(* clearing qr.                                                               *)
QrLive ==
  gui = "menu" => \A i \in Slots : slot[i].qr # 0 /\ slot[i].uid # 0 =>
                    InCache(slot[i].qr) /\ req[slot[i].qr].slot = i

(* A request is in one place: the queue, a chain the IO worker detached, or   *)
(* the art worker's hands, and none of the three holds a freed one.           *)
OnePlace ==
  LET held == queue \o io.chain \o io.keep
  IN /\ IsInjective(held) /\ current \notin ToSet(held)
     /\ \A q \in ToSet(held) \cup ({current} \ {0}) : Alive(q)

(* A row is never shown the picture of another one, whichever way it finds    *)
(* its slot.                                                                  *)
RightPicture ==
  \A r \in Rows : Found(r) # NoSlot /\ slot[Found(r)].qr = 0 => slot[Found(r)].tex \in {r, NoRow}

(* cacheDestroyCache frees no cache that a request still points into, as long *)
(* as activeRequests is right: its decrement is not atomic, and one that met  *)
(* another update makes the count wrong for good.                             *)
SafeFree == ~lost => \A q \in Reqs : req[q].cache # "freed"

(* A row that no longer asks for its art has none on the device: no absence   *)
(* outlives the generation in which it was probed.                            *)
MemoHonest == \A r \in Rows : row[r] = Absent => r \notin disk

(* The worker overtakes: another request gets to the head of the queue.       *)
Overtake == queue # <<>> /\ queue' # <<>> /\ Head(queue') # Head(queue) /\ Len(queue') >= Len(queue)

(* No request waits for ever, unless a direction is held again and again, or  *)
(* highlighted covers keep overtaking.                                        *)
LoadsEnd ==
  \A q \in Reqs : []<>(~Alive(q)) \/ []<>nav \/ []<><<Overtake>>_vars

(* Once told to, the art worker ends.                                         *)
WorkerStops == Terminate ~> ~Running

(* appUpdateItemList: the art worker is not in appGetImage while the list of  *)
(* the applications is freed and rebuilt.                                     *)
AppListQuiet == ~(io.pc = "list" /\ worker.pc = "read")

=============================================================================
