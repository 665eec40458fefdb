------------------------------- MODULE IoMan -------------------------------
(* The I/O manager of the loader (src/src/ioman.c): a request list that the  *)
(* GUI thread and the worker's own handlers append to, one worker thread      *)
(* that drains it, the blocking flag with its drain, shutdown and restart,    *)
(* and the callers whose correctness rests on them (menusys.c, hddsupport.c,  *)
(* opl.c).                                                                    *)
(*                                                                            *)
(* A step is what a thread does between two points where the other may run.   *)
(* The EE has one core and the GUI outranks the worker; every interleaving is *)
(* allowed here, which contains the ones the priorities leave.  Appending     *)
(* (ioAppendLocked) is one step: the worker looks at the list without         *)
(* gEndSemaId, but cannot preempt the GUI thread in the middle of it.         *)
EXTENDS Integers, Sequences, FiniteSets

CONSTANTS MenuKinds,    \* data of IO_MENU_UPDATE_DEFFERED requests (list modes)
          ActionKinds,  \* data of IO_CUSTOM_SIMPLEACTION requests (functions)
          UnlessKinds,  \* requests only ever made by ioPutRequestUnlessWaiting
          MaxReqs,      \* bound: no put is begun once this many were accepted
          MaxHandlers   \* MAX_IO_HANDLERS

Kinds == MenuKinds \cup ActionKinds

ASSUME KindsAssumption ==
  /\ Kinds # {}
  /\ MenuKinds \cap ActionKinds = {}
  /\ UnlessKinds \subseteq Kinds
ASSUME BoundsAssumption == MaxReqs \in Nat /\ MaxHandlers \in Nat

Types == {"action", "menu"}
TypeOf(k) == IF k \in MenuKinds THEN "menu" ELSE "action"

Threads == {"gui", "worker"}

VARIABLES
  gReqList,     \* the nodes from the head on, a sequence of [id, kind]
  gReqEnd,      \* id of the node the tail pointer names, 0 for NULL
  gReqRunning,  \* id of the node being executed, 0 for NULL
  gIoPending,   \* counter per request type
  handlers,     \* types with a handler (gRequestHandlers)
  isIOBlocked, isIORunning, gIOTerminate,
  procSema,     \* holder of gProcSemaId: a thread or "free"
  endSema,      \* holder of gEndSemaId: a thread or "free"
  wakeups,      \* wakeup count the kernel keeps for the worker
  leaving,      \* a worker that cleared isIORunning has not left its stack yet
  phase,        \* "auto": autolaunch session, "menu": the menu session
  pc,           \* program counter of each thread
  op,           \* the put a thread is executing: [kind, unless, back]
  accepted,     \* history: number of requests linked so far (the last id)
  retired,      \* history: id of the last request that left the list
  owed          \* history: kinds whose caller was told IO_OK and not yet read

queueVars  == <<gReqList, gReqEnd, gReqRunning, gIoPending>>
flagVars   == <<handlers, isIOBlocked, isIORunning, gIOTerminate, phase>>
threadVars == <<procSema, endSema, wakeups, leaving>>
histVars   == <<accepted, retired, owed>>
vars == <<gReqList, gReqEnd, gReqRunning, gIoPending, handlers, isIOBlocked,
          isIORunning, gIOTerminate, procSema, endSema, wakeups, leaving,
          phase, pc, op, accepted, retired, owed>>

NoOp == [kind |-> CHOOSE k \in Kinds : TRUE, unless |-> FALSE, back |-> "idle"]

Goto(t, l) == pc' = [pc EXCEPT ![t] = l]

Init ==
  /\ gReqList = <<>> /\ gReqEnd = 0 /\ gReqRunning = 0
  /\ gIoPending = [t \in Types |-> 0]
  /\ handlers = {}
  /\ isIOBlocked = FALSE /\ isIORunning = FALSE /\ gIOTerminate = FALSE
  /\ procSema = "free" /\ endSema = "free"
  /\ wakeups = 0 /\ leaving = FALSE
  /\ phase \in {"auto", "menu"}
  /\ pc = [t \in Threads |-> IF t = "gui" THEN "init" ELSE "none"]
  /\ op = [t \in Threads |-> NoOp]
  /\ accepted = 0 /\ retired = 0 /\ owed = {}

-----------------------------------------------------------------------------
(* ioInit.  It waits, without a cap, until the previous worker has cleared   *)
(* isIORunning; gIoPending is not among the variables it resets.             *)
IoInit ==
  /\ pc["gui"] = "init"
  /\ ~isIORunning
  /\ isIOBlocked' = FALSE /\ gIOTerminate' = FALSE
  /\ gReqList' = <<>> /\ gReqEnd' = 0 /\ gReqRunning' = 0
  /\ handlers' = {"action"}
  /\ procSema' = "free" /\ endSema' = "free"
  /\ wakeups' = 0
  /\ isIORunning' = TRUE
  /\ pc' = [t \in Threads |-> IF t = "gui" THEN "idle" ELSE "top"]
  /\ UNCHANGED <<gIoPending, leaving, phase, op, histVars>>

(* ioRegisterHandler: the early returns (table full, duplicate type) release *)
(* gProcSemaId like the successful path does.                                 *)
RegisterWait ==
  /\ pc["gui"] = "idle" /\ phase = "menu"
  /\ procSema = "free"
  /\ procSema' = "gui"
  /\ Goto("gui", "register")
  /\ UNCHANGED <<queueVars, flagVars, endSema, wakeups, leaving, op, histVars>>

RegisterRefused == Cardinality(handlers) >= MaxHandlers \/ "menu" \in handlers

(* Mutant: the early returns keep gProcSemaId.                                *)
RegisterHandlerLeak ==
  /\ pc["gui"] = "register"
  /\ handlers' = IF RegisterRefused THEN handlers ELSE handlers \cup {"menu"}
  /\ procSema' = IF RegisterRefused THEN procSema ELSE "free"
  /\ Goto("gui", "idle")
  /\ UNCHANGED <<queueVars, isIOBlocked, isIORunning, gIOTerminate, phase,
                 endSema, wakeups, leaving, op, histVars>>

RegisterHandler ==
  /\ pc["gui"] = "register"
  /\ handlers' = IF RegisterRefused THEN handlers ELSE handlers \cup {"menu"}
  /\ procSema' = "free"
  /\ Goto("gui", "idle")
  /\ UNCHANGED <<queueVars, isIOBlocked, isIORunning, gIOTerminate, phase,
                 endSema, wakeups, leaving, op, histVars>>

-----------------------------------------------------------------------------
(* ioPutRequest and ioPutRequestUnlessWaiting, by the GUI thread (from the    *)
(* menu, or from a dialog opened inside an edit) or by a handler.  The calls  *)
(* that return an error at once change nothing and are not steps.             *)
PutCheck(t, k, u) ==
  /\ pc[t] \in IF t = "gui" THEN {"idle", "reopened"} ELSE {"handler"}
  /\ accepted < MaxReqs
  /\ k \in UnlessKinds => u
  /\ ~isIOBlocked
  /\ TypeOf(k) \in handlers
  /\ op' = [op EXCEPT ![t] = [kind |-> k, unless |-> u, back |-> pc[t]]]
  /\ Goto(t, "putLock")
  /\ UNCHANGED <<queueVars, flagVars, threadVars, histVars>>

(* Mutant: the scan and the append run without the semaphore.                 *)
PutLockOpen(t) ==
  /\ pc[t] = "putLock"
  /\ Goto(t, "putScan")
  /\ UNCHANGED <<queueVars, flagVars, threadVars, op, histVars>>

PutLock(t) ==
  /\ pc[t] = "putLock"
  /\ endSema = "free"
  /\ endSema' = t
  /\ Goto(t, "putScan")
  /\ UNCHANGED <<queueVars, flagVars, procSema, wakeups, leaving, op, histVars>>

(* The identical requests that the scan of ioPutRequestUnlessWaiting finds.   *)
Waiting(k) == {i \in DOMAIN gReqList : /\ gReqList[i].kind = k
                                       /\ gReqList[i].id # gReqRunning}

(* The list after linking node n at the tail pointer: a NULL tail makes n the *)
(* head, a tail that is not in the list leaves n unreachable.                 *)
(* Mutant: a new node goes behind the head, in front of older requests.       *)
LinkedEarly(n) ==
  IF gReqEnd = 0 \/ gReqList = <<>> THEN <<n>>
  ELSE <<gReqList[1], n>> \o Tail(gReqList)

Linked(n) ==
  IF gReqEnd = 0 THEN <<n>>
  ELSE IF gReqList # <<>> /\ gReqList[Len(gReqList)].id = gReqEnd
       THEN Append(gReqList, n)
       ELSE gReqList

PutFound(t) ==
  /\ pc[t] = "putScan"
  /\ op[t].unless /\ Waiting(op[t].kind) # {}
  /\ endSema' = "free"
  /\ owed' = owed \cup {op[t].kind}
  /\ Goto(t, op[t].back)
  /\ op' = [op EXCEPT ![t] = NoOp]
  /\ UNCHANGED <<queueVars, flagVars, procSema, wakeups, leaving,
                 accepted, retired>>

PutMissed(t) ==
  /\ pc[t] = "putScan"
  /\ op[t].unless => Waiting(op[t].kind) = {}
  /\ Goto(t, "putLink")
  /\ UNCHANGED <<queueVars, flagVars, threadVars, op, histVars>>

PutAppend(t) ==
  /\ pc[t] = "putLink"
  /\ gReqList' = Linked([id |-> accepted + 1, kind |-> op[t].kind])
  /\ gReqEnd' = accepted + 1
  /\ gIoPending' = [gIoPending EXCEPT ![TypeOf(op[t].kind)] = @ + 1]
  /\ accepted' = accepted + 1
  /\ owed' = owed \cup {op[t].kind}
  /\ endSema' = "free"
  /\ Goto(t, "putWake")
  /\ UNCHANGED <<gReqRunning, flagVars, procSema, wakeups, leaving, op,
                 retired>>

(* malloc fails: IO_ERR_TOO_MANY_REQUESTS with the semaphore released.        *)
PutNoMemory(t) ==
  /\ pc[t] = "putLink"
  /\ endSema' = "free"
  /\ Goto(t, op[t].back)
  /\ op' = [op EXCEPT ![t] = NoOp]
  /\ UNCHANGED <<queueVars, flagVars, procSema, wakeups, leaving, histVars>>

(* WakeupThread(gIOThreadId): an error, without effect, for the worker itself *)
(* and for a worker that is gone.                                             *)
(* Mutant: a wakeup sent to a worker that is not asleep yet is not counted.   *)
WakeupUncounted(t) ==
  wakeups' = IF t = "gui" /\ pc["worker"] = "sleep" THEN wakeups + 1 ELSE wakeups

Wakeup(t) == wakeups' = IF t = "gui" /\ pc["worker"] # "none"
                          THEN wakeups + 1 ELSE wakeups

PutWake(t) ==
  /\ pc[t] = "putWake"
  /\ Wakeup(t)
  /\ Goto(t, op[t].back)
  /\ op' = [op EXCEPT ![t] = NoOp]
  /\ UNCHANGED <<queueVars, flagVars, procSema, endSema, leaving, histVars>>

Put(t) == \/ \E k \in Kinds, u \in BOOLEAN : PutCheck(t, k, u)
          \/ PutLock(t) \/ PutFound(t) \/ PutMissed(t) \/ PutAppend(t)
          \/ PutNoMemory(t) \/ PutWake(t)

-----------------------------------------------------------------------------
(* ioWorkerThread                                                             *)
WorkerTop ==
  /\ pc["worker"] = "top"
  /\ Goto("worker", IF gIOTerminate THEN "exit" ELSE "sleep")
  /\ UNCHANGED <<queueVars, flagVars, threadVars, op, histVars>>

(* Mutant: SleepThread returns without a wakeup.                              *)
WorkerSleepless ==
  /\ pc["worker"] = "sleep"
  /\ wakeups' = wakeups - 1
  /\ Goto("worker", "woken")
  /\ UNCHANGED <<queueVars, flagVars, procSema, endSema, leaving, op, histVars>>

WorkerSleep ==
  /\ pc["worker"] = "sleep"
  /\ wakeups > 0
  /\ wakeups' = wakeups - 1
  /\ Goto("worker", "woken")
  /\ UNCHANGED <<queueVars, flagVars, procSema, endSema, leaving, op, histVars>>

WorkerWoken ==
  /\ pc["worker"] = "woken"
  /\ Goto("worker", IF gIOTerminate THEN "exit" ELSE "lockProc")
  /\ UNCHANGED <<queueVars, flagVars, threadVars, op, histVars>>

WorkerLockProc ==
  /\ pc["worker"] = "lockProc"
  /\ procSema = "free"
  /\ procSema' = "worker"
  /\ Goto("worker", "loop")
  /\ UNCHANGED <<queueVars, flagVars, endSema, wakeups, leaving, op, histVars>>

(* Mutant: the request being executed is not recorded in gReqRunning.         *)
WorkerTakeUnmarked ==
  /\ pc["worker"] = "loop"
  /\ gReqList # <<>> /\ ~gIOTerminate
  /\ Goto("worker", "start")
  /\ UNCHANGED <<queueVars, flagVars, threadVars, op, histVars>>

WorkerTake ==
  /\ pc["worker"] = "loop"
  /\ gReqList # <<>> /\ ~gIOTerminate
  /\ gReqRunning' = gReqList[1].id
  /\ Goto("worker", "start")
  /\ UNCHANGED <<gReqList, gReqEnd, gIoPending, flagVars, threadVars, op, histVars>>

(* ioProcessRequest: the handler is entered and reads its inputs.             *)
WorkerStart ==
  /\ pc["worker"] = "start"
  /\ owed' = owed \ {gReqList[1].kind}
  /\ Goto("worker", "handler")
  /\ UNCHANGED <<queueVars, flagVars, threadVars, op, accepted, retired>>

HandlerReturn ==
  /\ pc["worker"] = "handler"
  /\ Goto("worker", "finish")
  /\ UNCHANGED <<queueVars, flagVars, threadVars, op, histVars>>

WorkerLockEnd ==
  /\ pc["worker"] = "finish"
  /\ endSema = "free"
  /\ endSema' = "worker"
  /\ Goto("worker", "unlink")
  /\ UNCHANGED <<queueVars, flagVars, procSema, wakeups, leaving, op, histVars>>

(* The tail pointer after the head was unlinked and rest remains.             *)
(* Mutant: it is not reset when the list becomes empty.                       *)
TailKept(rest) == gReqEnd
TailAfter(rest) == IF rest = <<>> THEN 0 ELSE gReqEnd

WorkerUnlink ==
  /\ pc["worker"] = "unlink"
  /\ gReqRunning' = 0
  /\ gIoPending' = [gIoPending EXCEPT ![TypeOf(gReqList[1].kind)] =
                                        IF @ > 0 THEN @ - 1 ELSE @]
  /\ gReqList' = Tail(gReqList)
  /\ gReqEnd' = TailAfter(Tail(gReqList))
  /\ retired' = gReqList[1].id
  /\ endSema' = "free"
  /\ Goto("worker", "loop")
  /\ UNCHANGED <<flagVars, procSema, wakeups, leaving, op, accepted, owed>>

WorkerLoopExit ==
  /\ pc["worker"] = "loop"
  /\ gReqList = <<>> \/ gIOTerminate
  /\ Goto("worker", "unlockProc")
  /\ UNCHANGED <<queueVars, flagVars, threadVars, op, histVars>>

WorkerUnlockProc ==
  /\ pc["worker"] = "unlockProc"
  /\ procSema' = "free"
  /\ Goto("worker", "top")
  /\ UNCHANGED <<queueVars, flagVars, endSema, wakeups, leaving, op, histVars>>

(* After the outer loop: the remaining nodes are freed (gReqEnd and           *)
(* gIoPending keep what they held), the semaphores deleted, isIORunning       *)
(* cleared; only then ExitDeleteThread, a step of its own.                    *)
WorkerDrop ==
  /\ pc["worker"] = "exit"
  /\ gReqList' = <<>>
  /\ retired' = accepted
  /\ owed' = {}
  /\ Goto("worker", "cleared")
  /\ UNCHANGED <<gReqEnd, gReqRunning, gIoPending, flagVars, threadVars, op,
                 accepted>>

WorkerStopped ==
  /\ pc["worker"] = "cleared"
  /\ isIORunning' = FALSE
  /\ leaving' = TRUE
  /\ Goto("worker", "none")
  /\ UNCHANGED <<queueVars, handlers, isIOBlocked, gIOTerminate, phase,
                 procSema, endSema, wakeups, op, histVars>>

ExitDeleteThread ==
  /\ leaving
  /\ leaving' = FALSE
  /\ UNCHANGED <<queueVars, flagVars, procSema, endSema, wakeups, pc, op, histVars>>

WorkerStep ==
  \/ WorkerTop \/ WorkerSleep \/ WorkerWoken \/ WorkerLockProc
  \/ WorkerTake \/ WorkerStart \/ HandlerReturn \/ WorkerLockEnd
  \/ WorkerUnlink \/ WorkerLoopExit \/ WorkerUnlockProc
  \/ WorkerDrop \/ WorkerStopped \/ ExitDeleteThread

-----------------------------------------------------------------------------
(* ioBlockOpsTimed and its callers.  A caller is at "drain<Caller>" while it  *)
(* waits for the list to empty and at its own name once it believes it has    *)
(* the devices to itself.                                                     *)

(* ioBlockOpsTimed(1, ...): a queue that is already blocked is not drained.   *)
BlockOps(drain, after) ==
  /\ isIOBlocked' = TRUE
  /\ Goto("gui", IF isIOBlocked THEN after ELSE drain)
  /\ UNCHANGED <<queueVars, handlers, isIORunning, gIOTerminate, phase,
                 threadVars, op, histVars>>

(* ioBlockOps(0)                                                              *)
UnblockOps(next) ==
  /\ isIOBlocked' = FALSE
  /\ Goto("gui", next)
  /\ UNCHANGED <<queueVars, handlers, isIORunning, gIOTerminate, phase,
                 threadVars, op, histVars>>

GuiGoto(from, to) ==
  /\ pc["gui"] = from
  /\ Goto("gui", to)
  /\ UNCHANGED <<queueVars, flagVars, threadVars, op, histVars>>

(* Mutant: the request being executed does not count as pending.              *)
ioHasWaitingRequests == \E i \in DOMAIN gReqList : gReqList[i].id # gReqRunning
ioHasPendingRequests == gReqList # <<>>

(* HDD launch, rename and settings: an unbounded drain around the use of the  *)
(* shared mounts.  A launch that succeeds stays blocked and goes on to deinit.*)
HddBegin == /\ pc["gui"] = "idle" /\ phase = "menu"
            /\ BlockOps("drainHdd", "hdd")
HddDrained == ~ioHasPendingRequests /\ GuiGoto("drainHdd", "hdd")
HddEnd == pc["gui"] = "hdd" /\ UnblockOps("idle")

(* menuRowBeginEdit: a zero timeout, then frames until the list is empty; the *)
(* user may cancel, and the row may have changed.  menuRowEndEdit.            *)
EditBegin == /\ pc["gui"] = "idle" /\ phase = "menu"
             /\ BlockOps("drainEdit", "drainEdit")
EditDrained == ~ioHasPendingRequests /\ GuiGoto("drainEdit", "edit")
EditCancel == pc["gui"] = "drainEdit" /\ UnblockOps("idle")
EditEnd == pc["gui"] \in {"edit", "reopened"} /\ UnblockOps("idle")

(* hddRenameVcd reached through itemRename inside the edit: its own block is  *)
(* a no-op, its unblock opens the queue; what it does next (a message box,    *)
(* invalidating the list cache) runs with the queue open.                     *)
EditRenameBegin == pc["gui"] = "edit" /\ BlockOps("drainRename", "rename")
EditRenameEnd == pc["gui"] = "rename" /\ UnblockOps("reopened")

(* loadLwnbdSvr: a bounded drain, abandoned when requests remain.             *)
LwnbdBegin == /\ pc["gui"] = "idle" /\ phase = "menu"
              /\ BlockOps("drainLwnbd", "lwnbd")
LwnbdDrained == ~ioHasPendingRequests /\ GuiGoto("drainLwnbd", "lwnbd")
LwnbdGiveUp == /\ pc["gui"] = "drainLwnbd"
               /\ ioHasPendingRequests
               /\ UnblockOps("idle")
LwnbdEnd == pc["gui"] = "lwnbd" /\ UnblockOps("idle")

(* deinit, deinitEx and miniDeinit: a bounded drain, then ioEnd whatever is   *)
(* still running.  Only a refused autolaunch comes back, through init().      *)
DeinitBegin == pc["gui"] \in {"idle", "hdd"} /\ BlockOps("drainDeinit", "teardown")
DeinitDrained == GuiGoto("drainDeinit", "teardown")

IoEnd ==
  /\ pc["gui"] = "teardown"
  /\ gIOTerminate' = TRUE
  /\ Goto("gui", "ioEnd")
  /\ UNCHANGED <<queueVars, handlers, isIOBlocked, isIORunning, phase,
                 threadVars, op, histVars>>
(* Mutant: the worker is told to terminate but not woken.                     *)
IoEndSilent ==
  /\ pc["gui"] = "ioEnd"
  /\ Goto("gui", "ended")
  /\ UNCHANGED <<queueVars, flagVars, threadVars, op, histVars>>
IoEndWake ==
  /\ pc["gui"] = "ioEnd"
  /\ Wakeup("gui")
  /\ Goto("gui", "ended")
  /\ UNCHANGED <<queueVars, flagVars, procSema, endSema, leaving, op, histVars>>

Restart ==
  /\ pc["gui"] = "ended" /\ phase = "auto"
  /\ phase' = "menu"
  /\ Goto("gui", "init")
  /\ UNCHANGED <<queueVars, handlers, isIOBlocked, isIORunning, gIOTerminate,
                 threadVars, op, histVars>>

(* The loader has handed over: nothing of it runs any more.                   *)
Done == /\ pc["gui"] = "ended" /\ pc["worker"] = "none" /\ ~leaving
        /\ UNCHANGED vars

BlockStep ==
  \/ HddBegin \/ HddDrained \/ HddEnd
  \/ EditBegin \/ EditDrained \/ EditCancel \/ EditEnd
  \/ EditRenameBegin \/ EditRenameEnd
  \/ LwnbdBegin \/ LwnbdDrained \/ LwnbdGiveUp \/ LwnbdEnd
  \/ DeinitBegin \/ DeinitDrained
  \/ IoEnd \/ IoEndWake \/ Restart

Next == \/ IoInit \/ RegisterWait \/ RegisterHandler
        \/ \E t \in Threads : Put(t)
        \/ WorkerStep \/ BlockStep \/ Done

Spec == Init /\ [][Next]_vars
-----------------------------------------------------------------------------
(* Fairness.  A thread that can run does (the GUI sleeps in vsync or in       *)
(* delay() between its steps, so the lower worker gets the core); a thread    *)
(* queued on a semaphore is served in turn (strong fairness of the waits); a  *)
(* handler makes finitely many calls and returns.  Nothing obliges a user to  *)
(* make a request, to leave an edit or to quit.                               *)
PutStep(t) == \/ PutFound(t) \/ PutMissed(t) \/ PutAppend(t)
              \/ PutNoMemory(t) \/ PutWake(t)

Fairness ==
  /\ WF_vars(WorkerStep)
  /\ SF_vars(HandlerReturn) /\ SF_vars(WorkerLockProc) /\ SF_vars(WorkerLockEnd)
  /\ \A t \in Threads : SF_vars(PutLock(t)) /\ WF_vars(PutStep(t))
  /\ WF_vars(RegisterHandler) /\ WF_vars(IoInit)
  /\ WF_vars(HddDrained) /\ WF_vars(EditDrained \/ EditCancel)
  /\ WF_vars(LwnbdDrained \/ LwnbdGiveUp) /\ WF_vars(DeinitDrained)
  /\ WF_vars(IoEnd) /\ WF_vars(IoEndWake) /\ WF_vars(EditRenameEnd)

FairSpec == Spec /\ Fairness

-----------------------------------------------------------------------------
(* Properties                                                                 *)

GuiLabels == {"init", "idle", "register", "putLock", "putScan", "putLink", "putWake",
              "drainHdd", "hdd", "drainEdit", "edit", "drainRename", "rename",
              "reopened", "drainLwnbd", "lwnbd", "drainDeinit", "teardown",
              "ioEnd", "ended"}
WorkerLabels == {"none", "top", "sleep", "woken", "lockProc", "loop", "start",
                 "handler", "putLock", "putScan", "putLink", "putWake", "finish", "unlink",
                 "unlockProc", "exit", "cleared"}
Node == [id : Nat, kind : Kinds]
Op == [kind : Kinds, unless : BOOLEAN, back : {"idle", "reopened", "handler"}]

TypeOK ==
  /\ gReqList \in Seq(Node)
  /\ gReqEnd \in Nat /\ gReqRunning \in Nat
  /\ gIoPending \in [Types -> Nat]
  /\ handlers \in SUBSET Types
  /\ isIOBlocked \in BOOLEAN /\ isIORunning \in BOOLEAN
  /\ gIOTerminate \in BOOLEAN /\ leaving \in BOOLEAN
  /\ procSema \in Threads \cup {"free"} /\ endSema \in Threads \cup {"free"}
  /\ wakeups \in Nat
  /\ phase \in {"auto", "menu"}
  /\ pc \in [Threads -> GuiLabels \cup WorkerLabels]
  /\ pc["gui"] \in GuiLabels /\ pc["worker"] \in WorkerLabels
  /\ op \in [Threads -> Op]
  /\ accepted \in Nat /\ retired \in Nat
  /\ owed \in SUBSET Kinds

(* The worker holds the node at the head and is between taking and unlinking. *)
Executing == {"start", "handler", "putLock", "putScan", "putLink", "putWake", "finish",
              "unlink"}

(* The caller believes the queue is blocked and drained.                      *)
Exclusive == {"hdd", "edit", "rename", "lwnbd"}

(* ioWorkerThread sleeps only when WakeupThread is still to come: with        *)
(* requests in the list the sleeping worker has a wakeup counted, or the      *)
(* thread that linked the request has yet to call WakeupThread.               *)
NoLostWakeup ==
  (gReqList # <<>> /\ pc["worker"] = "sleep") =>
     wakeups > 0 \/ pc["gui"] \in {"putWake", "ioEnd"}

(* The list holds exactly the accepted requests that have not left it, oldest *)
(* first, and gReqEnd names its last node: no request is lost by linking it   *)
(* behind a stale tail, none is unlinked twice.                               *)
QueueExact ==
  pc["worker"] \notin {"none", "cleared"} =>
    /\ Len(gReqList) = accepted - retired
    /\ \A i \in 1..Len(gReqList) : gReqList[i].id = retired + i
    /\ gReqEnd = IF gReqList = <<>> THEN 0 ELSE gReqList[Len(gReqList)].id

(* A caller that waited for the drain (hddsupport.c, menuRowBeginEdit,        *)
(* loadLwnbdSvr) has the devices to itself: no request waits and no handler   *)
(* runs, although a handler that saw isIOBlocked clear may link another       *)
(* request after the flag was set.                                            *)
ExclusiveIsQuiet ==
  pc["gui"] \in Exclusive =>
    /\ gReqList = <<>>
    /\ pc["worker"] \notin Executing

(* Requests of kind k that the worker has not taken, and those whose handler  *)
(* has not been entered.                                                      *)
Entered == pc["worker"] \in Executing \ {"start"}
Untaken(k) == {i \in 1..Len(gReqList) :
                 gReqList[i].kind = k /\ (pc["worker"] \in Executing => i # 1)}
Unread(k) == {i \in 1..Len(gReqList) : gReqList[i].kind = k /\ (Entered => i # 1)}

(* ioPutRequestUnlessWaiting never leaves two identical requests waiting,     *)
(* also when the GUI thread and a handler ask at once.                        *)
OneWaiting == \A k \in UnlessKinds : \A i, j \in Untaken(k) : i = j

(* A caller of either put that was told IO_OK has its change seen: a request  *)
(* of that kind whose handler has not been entered is in the list.            *)
ChangeSeen == \A k \in owed : Unread(k) # {}

(* The module implements the promise of IoQueue.                              *)
StartedId == IF Entered THEN gReqList[1].id ELSE retired
Q == INSTANCE IoQueue WITH
       last    <- accepted,
       started <- StartedId,
       busy    <- Entered,
       quiet   <- pc["gui"] \in Exclusive
Implements == Q!Spec

(* Every accepted request leaves the list by being executed, unless the       *)
(* worker was told to terminate.                                              *)
Served == \A n \in 1..MaxReqs : (accepted >= n) ~> (retired >= n \/ gIOTerminate)

(* An unbounded drain ends (ioBlockOps(1)), and so does the uncapped wait of  *)
(* ioInit for the previous worker.                                            *)
DrainEnds == /\ (pc["gui"] = "drainHdd") ~> (pc["gui"] = "hdd")
             /\ (pc["gui"] = "init") ~> (pc["gui"] = "idle")

(* menusys.c: between menuRowBeginEdit and menuRowEndEdit the IO thread is    *)
(* paused and new IO work is refused.                                         *)
EditPaused == pc["gui"] \in {"edit", "rename", "reopened"} => isIOBlocked
=============================================================================
