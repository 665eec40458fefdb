---------------------------- MODULE IoManProofs ----------------------------
(* Proofs about the I/O manager, for every set of requests and every bound.   *)
(* The inductive invariant IInv adds to the checked properties what each      *)
(* thread knows at each of its labels: who holds gEndSemaId, that the node    *)
(* being executed is the head of the list, where isIOBlocked and gIOTerminate *)
(* are set, and who still owes the worker a wakeup.                           *)
EXTENDS IoMan, TLAPS

PutLabels == {"putLock", "putScan", "putLink", "putWake"}
DrainLabels == {"drainHdd", "drainEdit", "drainLwnbd", "drainDeinit", "teardown"}

(* gEndSemaId is held exactly while linking and unlinking; the worker exists  *)
(* while isIORunning is set; a put returns to the label it was called from.   *)
ThreadInv ==
  /\ \A t \in Threads : endSema = t <=> pc[t] \in {"putScan", "putLink", "unlink"}
  /\ isIORunning <=> pc["worker"] # "none"
  /\ pc["worker"] \in PutLabels => op["worker"].back = "handler"
  /\ pc["gui"] \in PutLabels => op["gui"].back \in {"idle", "reopened"}
  /\ \A t \in Threads : pc[t] \in PutLabels /\ op[t].kind \in UnlessKinds
                          => op[t].unless

(* The node being executed is the head; after the worker dropped the list it  *)
(* stays empty until the next ioInit.                                         *)
HeadInv ==
  /\ pc["worker"] \in Executing => /\ gReqList # <<>>
                                   /\ gReqRunning = gReqList[1].id
  /\ pc["worker"] \notin Executing => gReqRunning = 0
  /\ pc["worker"] \in {"none", "cleared"} => gReqList = <<>> /\ retired = accepted
  /\ retired <= accepted

(* The result of the scan stands until the append: only the holder of         *)
(* gEndSemaId links.                                                          *)
ScanInv == \A t \in Threads :
  pc[t] = "putLink" /\ op[t].unless => Untaken(op[t].kind) = {}

(* Where the GUI thread is, given the flags.                                  *)
FlagInv ==
  /\ pc["gui"] \in {"idle", "reopened", "register"} \cup PutLabels => ~isIOBlocked
  /\ pc["gui"] \in Exclusive \cup DrainLabels => isIOBlocked
  /\ pc["gui"] # "drainRename"
  /\ gIOTerminate => pc["gui"] \in {"ioEnd", "ended", "init"}
  /\ pc["gui"] \in {"ioEnd", "ended"} => gIOTerminate
  /\ pc["worker"] \in {"exit", "cleared"} => gIOTerminate
  /\ pc["worker"] = "none" => pc["gui"] \in {"init", "ioEnd", "ended"}

(* Nobody sleeps on work: the owed wakeup is counted or about to be sent.     *)
WakeInv ==
  /\ pc["worker"] = "sleep" /\ (gReqList # <<>> \/ gIOTerminate)
       => wakeups > 0 \/ pc["gui"] \in {"putWake", "ioEnd"}
  /\ pc["worker"] \in {"top", "unlockProc"} /\ gReqList # <<>> /\ ~gIOTerminate
       => wakeups > 0 \/ pc["gui"] = "putWake"

(* What is said of the list.                                                  *)
ListInv == HeadInv /\ QueueExact /\ ScanInv /\ OneWaiting /\ ChangeSeen

IInv == /\ TypeOK /\ ListInv
        /\ ThreadInv /\ FlagInv /\ WakeInv /\ ExclusiveIsQuiet

-----------------------------------------------------------------------------
LEMMA EmptyList == <<>> \in Seq(Node)
  OBVIOUS

LEMMA NoOpType == NoOp \in Op
  BY KindsAssumption DEF NoOp, Op

(* What the scan finds are the requests the worker has not taken: ids are     *)
(* consecutive and the node being executed, when there is one, is the head.   *)
LEMMA ScanFindsUntaken ==
  ASSUME TypeOK, HeadInv, QueueExact, NEW k,
         pc["worker"] \notin {"none", "cleared"}
  PROVE  Waiting(k) = Untaken(k)
<1>1. \A i \in 1..Len(gReqList) : gReqList[i].id = retired + i
  BY DEF QueueExact
<1>2. \A i \in 1..Len(gReqList) :
        gReqList[i].id = gReqRunning <=> pc["worker"] \in Executing /\ i = 1
  BY <1>1 DEF HeadInv, TypeOK
<1> QED BY <1>2 DEF Waiting, Untaken, TypeOK

(* The labels between which a step of the worker changes nothing about the   *)
(* list: resting, executing an entered handler, gone.                         *)
Resting == {"top", "sleep", "woken", "lockProc", "loop", "unlockProc", "exit"}
Inside == Executing \ {"start"}
Gone == {"cleared", "none"}
SameStage ==
  /\ \/ pc'["worker"] = pc["worker"]
     \/ \E S \in {Resting, Inside, Gone} : {pc["worker"], pc'["worker"]} \subseteq S
  /\ \A t \in Threads : pc'[t] = "putLink" => pc[t] = "putLink" /\ op'[t] = op[t]

LEMMA ListKept ==
  ASSUME IInv, SameStage,
         UNCHANGED <<gReqList, gReqEnd, gReqRunning, accepted, retired, owed>>
  PROVE  ListInv'
<1>1. HeadInv' /\ QueueExact'
  BY DEF IInv, ListInv, HeadInv, QueueExact, SameStage, Resting, Inside, Gone, Executing
<1>2. /\ pc["worker"] \in Executing <=> pc'["worker"] \in Executing
      /\ Entered' <=> Entered
  BY DEF SameStage, Resting, Inside, Gone, Executing, Entered
<1>3. \A k : Untaken(k)' = Untaken(k) /\ Unread(k)' = Unread(k)
  BY <1>2 DEF Untaken, Unread
<1>4. OneWaiting' /\ ChangeSeen'
  BY <1>3 DEF IInv, ListInv, OneWaiting, ChangeSeen
<1>5. ScanInv'
  BY <1>3 DEF IInv, ListInv, ScanInv, SameStage
<1> QED BY <1>1, <1>4, <1>5 DEF ListInv

LEMMA InitInv == Init => IInv
<1> SUFFICES ASSUME Init PROVE IInv
  OBVIOUS
<1>1. TypeOK
  <2>1. pc["gui"] = "init" /\ pc["worker"] = "none"
        /\ pc \in [Threads -> GuiLabels \cup WorkerLabels]
    BY DEF Init, Threads, GuiLabels, WorkerLabels
  <2>2. gReqList \in Seq(Node)
    BY EmptyList DEF Init
  <2>3. op \in [Threads -> Op] /\ gIoPending \in [Types -> Nat]
    BY NoOpType DEF Init
  <2> QED BY <2>1, <2>2, <2>3 DEF Init, TypeOK, GuiLabels, WorkerLabels
<1>2. QueueExact /\ ScanInv /\ OneWaiting /\ ChangeSeen
  BY DEF Init, QueueExact, ScanInv, OneWaiting, ChangeSeen, Untaken, Unread, Threads
<1>3. ThreadInv /\ HeadInv /\ FlagInv /\ WakeInv /\ ExclusiveIsQuiet
  BY DEF Init, ThreadInv, HeadInv, FlagInv, WakeInv, ExclusiveIsQuiet, Threads,
         PutLabels, DrainLabels, Executing, Exclusive
<1> QED BY <1>1, <1>2, <1>3 DEF IInv, ListInv

LEMMA IoInitInv == ASSUME IInv, IoInit PROVE IInv'
<1> USE DEF IoInit, histVars
<1>1. TypeOK'
  <2>1. pc' \in [Threads -> GuiLabels \cup WorkerLabels] /\ pc'["gui"] = "idle"
        /\ pc'["worker"] = "top"
    BY DEF Threads, GuiLabels, WorkerLabels
  <2>2. gReqList' \in Seq(Node)
    BY EmptyList
  <2> QED BY <2>1, <2>2 DEF IInv, ListInv, TypeOK, Types, GuiLabels, WorkerLabels
<1>2. accepted = retired
  BY DEF IInv, ListInv, ThreadInv, HeadInv
<1>3. QueueExact' /\ HeadInv' /\ OneWaiting' /\ ScanInv' /\ owed = {}
  BY <1>2 DEF IInv, ListInv, TypeOK, QueueExact, HeadInv, OneWaiting, ChangeSeen, ThreadInv,
              ScanInv, Untaken, Unread, Threads, Executing
<1>4. ThreadInv' /\ FlagInv' /\ WakeInv' /\ ExclusiveIsQuiet' /\ ChangeSeen'
  BY <1>3 DEF ThreadInv, FlagInv, WakeInv, ExclusiveIsQuiet, ChangeSeen, Threads,
              PutLabels, DrainLabels, Executing, Exclusive
<1> QED BY <1>1, <1>3, <1>4 DEF IInv, ListInv

LEMMA RegisterWaitInv == ASSUME IInv, RegisterWait PROVE IInv'
<1> USE DEF RegisterWait, Goto, queueVars, flagVars, threadVars, histVars
<1>1. ListInv'
  BY ListKept DEF IInv, ListInv, TypeOK, Threads, SameStage
<1>2. TypeOK'
  BY NoOpType DEF IInv, ListInv, TypeOK, Threads, Types, GuiLabels
<1>3. ThreadInv' /\ FlagInv' /\ WakeInv' /\ ExclusiveIsQuiet'
  BY DEF IInv, ListInv, TypeOK, ThreadInv, FlagInv, WakeInv, ExclusiveIsQuiet, Threads,
         PutLabels, DrainLabels, Executing, Exclusive
<1> QED BY <1>1, <1>2, <1>3 DEF IInv, ListInv

LEMMA RegisterHandlerInv == ASSUME IInv, RegisterHandler PROVE IInv'
<1> USE DEF RegisterHandler, Goto, queueVars, flagVars, threadVars, histVars
<1>1. ListInv'
  BY ListKept DEF IInv, ListInv, TypeOK, Threads, SameStage
<1>2. TypeOK'
  BY NoOpType DEF IInv, ListInv, TypeOK, Threads, Types, GuiLabels
<1>3. ThreadInv' /\ FlagInv' /\ WakeInv' /\ ExclusiveIsQuiet'
  BY DEF IInv, ListInv, TypeOK, ThreadInv, FlagInv, WakeInv, ExclusiveIsQuiet, Threads,
         PutLabels, DrainLabels, Executing, Exclusive
<1> QED BY <1>1, <1>2, <1>3 DEF IInv, ListInv

(* The GUI thread's blocking, unblocking and shutdown steps.                  *)
LEMMA BlockStepInv == ASSUME IInv, BlockStep PROVE IInv'
<1> USE DEF Goto, BlockOps, UnblockOps, GuiGoto, Wakeup, queueVars, flagVars,
            threadVars, histVars
<1>1. pc \in [Threads -> GuiLabels \cup WorkerLabels]
  BY DEF IInv, TypeOK
<1>2. /\ UNCHANGED <<gReqList, gReqEnd, gReqRunning, gIoPending, accepted, retired,
                     owed, op, handlers, isIORunning, procSema, endSema, leaving>>
      /\ pc["gui"] \notin PutLabels
  BY DEF BlockStep, HddBegin, HddDrained, HddEnd, EditBegin, EditDrained,
         EditCancel, EditEnd, EditRenameBegin, EditRenameEnd, LwnbdBegin,
         LwnbdDrained, LwnbdGiveUp, LwnbdEnd, DeinitBegin, DeinitDrained,
         IoEnd, IoEndWake, Restart, PutLabels
<1>3. PICK l \in GuiLabels \ PutLabels : pc' = [pc EXCEPT !["gui"] = l]
  BY DEF BlockStep, HddBegin, HddDrained, HddEnd, EditBegin, EditDrained,
         EditCancel, EditEnd, EditRenameBegin, EditRenameEnd, LwnbdBegin,
         LwnbdDrained, LwnbdGiveUp, LwnbdEnd, DeinitBegin, DeinitDrained,
         IoEnd, IoEndWake, Restart,
         GuiLabels, PutLabels
<1>4. /\ isIOBlocked' \in BOOLEAN /\ gIOTerminate' \in BOOLEAN
      /\ phase' \in {"auto", "menu"} /\ wakeups' \in Nat
  <2>1. /\ isIOBlocked \in BOOLEAN /\ gIOTerminate \in BOOLEAN
        /\ phase \in {"auto", "menu"} /\ wakeups \in Nat /\ wakeups + 1 \in Nat
    BY DEF IInv, TypeOK
  <2>2. isIOBlocked' \in {isIOBlocked, TRUE, FALSE}
    BY DEF BlockStep, HddBegin, HddDrained, HddEnd, EditBegin, EditDrained,
           EditCancel, EditEnd, EditRenameBegin, EditRenameEnd, LwnbdBegin,
           LwnbdDrained, LwnbdGiveUp, LwnbdEnd, DeinitBegin, DeinitDrained,
           IoEnd, IoEndWake, Restart
  <2>3. gIOTerminate' \in {gIOTerminate, TRUE, FALSE}
    BY DEF BlockStep, HddBegin, HddDrained, HddEnd, EditBegin, EditDrained,
           EditCancel, EditEnd, EditRenameBegin, EditRenameEnd, LwnbdBegin,
           LwnbdDrained, LwnbdGiveUp, LwnbdEnd, DeinitBegin, DeinitDrained,
           IoEnd, IoEndWake, Restart
  <2>4. phase' \in {phase, "auto", "menu"}
    BY DEF BlockStep, HddBegin, HddDrained, HddEnd, EditBegin, EditDrained,
           EditCancel, EditEnd, EditRenameBegin, EditRenameEnd, LwnbdBegin,
           LwnbdDrained, LwnbdGiveUp, LwnbdEnd, DeinitBegin, DeinitDrained,
           IoEnd, IoEndWake, Restart
  <2>5. wakeups' \in {wakeups, wakeups + 1}
    BY DEF BlockStep, HddBegin, HddDrained, HddEnd, EditBegin, EditDrained,
           EditCancel, EditEnd, EditRenameBegin, EditRenameEnd, LwnbdBegin,
           LwnbdDrained, LwnbdGiveUp, LwnbdEnd, DeinitBegin, DeinitDrained,
           IoEnd, IoEndWake, Restart
  <2> QED BY <2>1, <2>2, <2>3, <2>4, <2>5
<1>5. pc'["gui"] = l /\ pc'["worker"] = pc["worker"]
  BY <1>1, <1>3 DEF Threads
<1>6. ListInv'
  BY <1>2, <1>3, ListKept DEF IInv, ListInv, TypeOK, Threads, SameStage, PutLabels
<1>7. TypeOK'
  <2>1. TypeOK
    BY DEF IInv
  <2>2. pc' \in [Threads -> GuiLabels \cup WorkerLabels]
    BY <1>1, <1>3
  <2>3. pc'["gui"] \in GuiLabels /\ pc'["worker"] \in WorkerLabels
    BY <1>3, <1>5, <2>1 DEF TypeOK
  <2> QED BY <1>2, <1>4, <2>1, <2>2, <2>3 DEF TypeOK
<1>8. ThreadInv'
  <2>1. /\ pc["gui"] \notin PutLabels \cup {"unlink"}
        /\ l \notin PutLabels \cup {"unlink"}
    BY <1>2, <1>3 DEF IInv, TypeOK, GuiLabels
  <2> QED BY <1>2, <1>5, <2>1 DEF IInv, ThreadInv, Threads, PutLabels
<1> DEFINE Rest == FlagInv' /\ WakeInv' /\ ExclusiveIsQuiet'
<1> USE DEF IInv, FlagInv, WakeInv, ExclusiveIsQuiet, PutLabels, DrainLabels,
            Executing, Exclusive, Threads
<1>9. CASE HddBegin
  <2> Rest
    BY <1>9, <1>1, <1>2, <1>5 DEF HddBegin
  <2> QED BY <1>6, <1>7, <1>8
<1>10. CASE HddDrained
  <2> Rest
    BY <1>10, <1>1, <1>2, <1>5 DEF HddDrained, ioHasPendingRequests, HeadInv, ListInv
  <2> QED BY <1>6, <1>7, <1>8
<1>11. CASE HddEnd
  <2> Rest
    BY <1>11, <1>1, <1>2, <1>5 DEF HddEnd
  <2> QED BY <1>6, <1>7, <1>8
<1>12. CASE EditBegin
  <2> Rest
    BY <1>12, <1>1, <1>2, <1>5 DEF EditBegin
  <2> QED BY <1>6, <1>7, <1>8
<1>13. CASE EditDrained
  <2> Rest
    BY <1>13, <1>1, <1>2, <1>5 DEF EditDrained, ioHasPendingRequests, HeadInv, ListInv
  <2> QED BY <1>6, <1>7, <1>8
<1>14. CASE EditCancel
  <2> Rest
    BY <1>14, <1>1, <1>2, <1>5 DEF EditCancel
  <2> QED BY <1>6, <1>7, <1>8
<1>15. CASE EditEnd
  <2> Rest
    BY <1>15, <1>1, <1>2, <1>5 DEF EditEnd
  <2> QED BY <1>6, <1>7, <1>8
<1>16. CASE EditRenameBegin
  <2> Rest
    BY <1>16, <1>1, <1>2, <1>5 DEF EditRenameBegin
  <2> QED BY <1>6, <1>7, <1>8
<1>17. CASE EditRenameEnd
  <2> Rest
    BY <1>17, <1>1, <1>2, <1>5 DEF EditRenameEnd
  <2> QED BY <1>6, <1>7, <1>8
<1>18. CASE LwnbdBegin
  <2> Rest
    BY <1>18, <1>1, <1>2, <1>5 DEF LwnbdBegin
  <2> QED BY <1>6, <1>7, <1>8
<1>19. CASE LwnbdDrained
  <2> Rest
    BY <1>19, <1>1, <1>2, <1>5 DEF LwnbdDrained, ioHasPendingRequests, HeadInv, ListInv
  <2> QED BY <1>6, <1>7, <1>8
<1>20. CASE LwnbdGiveUp
  <2> Rest
    BY <1>20, <1>1, <1>2, <1>5 DEF LwnbdGiveUp
  <2> QED BY <1>6, <1>7, <1>8
<1>21. CASE LwnbdEnd
  <2> Rest
    BY <1>21, <1>1, <1>2, <1>5 DEF LwnbdEnd
  <2> QED BY <1>6, <1>7, <1>8
<1>22. CASE DeinitBegin
  <2> Rest
    BY <1>22, <1>1, <1>2, <1>5 DEF DeinitBegin
  <2> QED BY <1>6, <1>7, <1>8
<1>23. CASE DeinitDrained
  <2> Rest
    BY <1>23, <1>1, <1>2, <1>5 DEF DeinitDrained, ioHasPendingRequests, HeadInv, ListInv
  <2> QED BY <1>6, <1>7, <1>8
<1>24. CASE IoEnd
  <2> Rest
    BY <1>24, <1>1, <1>2, <1>5 DEF IoEnd
  <2> QED BY <1>6, <1>7, <1>8
<1>25. CASE IoEndWake
  <2> Rest
    BY <1>25, <1>1, <1>2, <1>5 DEF IoEndWake, TypeOK
  <2> QED BY <1>6, <1>7, <1>8
<1>26. CASE Restart
  <2> Rest
    BY <1>26, <1>1, <1>2, <1>5 DEF Restart
  <2> QED BY <1>6, <1>7, <1>8
<1> QED BY <1>9, <1>10, <1>11, <1>12, <1>13, <1>14, <1>15, <1>16, <1>17,
           <1>18, <1>19, <1>20, <1>21, <1>22, <1>23, <1>24, <1>25, <1>26 DEF BlockStep

-----------------------------------------------------------------------------
(* ioPutRequest and ioPutRequestUnlessWaiting                                 *)
LEMMA PutCheckInv == ASSUME IInv, NEW t \in Threads, NEW k \in Kinds, NEW u \in BOOLEAN,
         PutCheck(t, k, u) PROVE IInv'
<1> USE DEF PutCheck, Goto, queueVars, flagVars, threadVars, histVars
<1>1. SameStage
  BY DEF IInv, ListInv, TypeOK, ThreadInv, PutLabels, SameStage, Threads, Resting, Inside,
         Gone, Executing
<1>2. ListInv'
  BY <1>1, ListKept
<1>3. TypeOK'
  BY NoOpType DEF IInv, ListInv, TypeOK, ThreadInv, PutLabels, Threads, Op, GuiLabels,
                  WorkerLabels
<1>4. ThreadInv' /\ FlagInv' /\ WakeInv' /\ ExclusiveIsQuiet'
  BY DEF IInv, ListInv, TypeOK, ThreadInv, HeadInv, FlagInv, WakeInv, ExclusiveIsQuiet,
         Threads, PutLabels, DrainLabels, Executing, Exclusive
<1> QED BY <1>2, <1>3, <1>4 DEF IInv, ListInv

LEMMA PutLockInv == ASSUME IInv, NEW t \in Threads, PutLock(t) PROVE IInv'
<1> USE DEF PutLock, Goto, queueVars, flagVars, threadVars, histVars
<1>1. SameStage
  BY DEF IInv, ListInv, TypeOK, ThreadInv, PutLabels, SameStage, Threads, Resting, Inside,
         Gone, Executing
<1>2. ListInv'
  BY <1>1, ListKept
<1>3. TypeOK'
  BY NoOpType DEF IInv, ListInv, TypeOK, ThreadInv, PutLabels, Threads, Op, GuiLabels,
                  WorkerLabels
<1>4. ThreadInv' /\ FlagInv' /\ WakeInv' /\ ExclusiveIsQuiet'
  BY DEF IInv, ListInv, TypeOK, ThreadInv, HeadInv, FlagInv, WakeInv, ExclusiveIsQuiet,
         Threads, PutLabels, DrainLabels, Executing, Exclusive
<1> QED BY <1>2, <1>3, <1>4 DEF IInv, ListInv

LEMMA PutNoMemoryInv == ASSUME IInv, NEW t \in Threads, PutNoMemory(t) PROVE IInv'
<1> USE DEF PutNoMemory, Goto, queueVars, flagVars, threadVars, histVars
<1>1. SameStage
  BY DEF IInv, ListInv, TypeOK, ThreadInv, PutLabels, SameStage, Threads, Resting, Inside,
         Gone, Executing
<1>2. ListInv'
  BY <1>1, ListKept
<1>3. TypeOK'
  BY NoOpType DEF IInv, ListInv, TypeOK, ThreadInv, PutLabels, Threads, Op, GuiLabels,
                  WorkerLabels
<1>4. ThreadInv' /\ FlagInv' /\ WakeInv' /\ ExclusiveIsQuiet'
  BY DEF IInv, ListInv, TypeOK, ThreadInv, HeadInv, FlagInv, WakeInv, ExclusiveIsQuiet,
         Threads, PutLabels, DrainLabels, Executing, Exclusive
<1> QED BY <1>2, <1>3, <1>4 DEF IInv, ListInv

LEMMA PutWakeInv == ASSUME IInv, NEW t \in Threads, PutWake(t) PROVE IInv'
<1> USE DEF PutWake, Goto, queueVars, flagVars, threadVars, histVars, Wakeup
<1>1. SameStage
  BY DEF IInv, ListInv, TypeOK, ThreadInv, PutLabels, SameStage, Threads, Resting, Inside,
         Gone, Executing
<1>2. ListInv'
  BY <1>1, ListKept
<1>3. TypeOK'
  BY NoOpType DEF IInv, ListInv, TypeOK, ThreadInv, PutLabels, Threads, Op, GuiLabels,
                  WorkerLabels
<1>4. ThreadInv' /\ FlagInv' /\ WakeInv' /\ ExclusiveIsQuiet'
  BY DEF IInv, ListInv, TypeOK, ThreadInv, HeadInv, FlagInv, WakeInv, ExclusiveIsQuiet,
         Threads, PutLabels, DrainLabels, Executing, Exclusive
<1> QED BY <1>2, <1>3, <1>4 DEF IInv, ListInv


LEMMA PutFoundInv == ASSUME IInv, NEW t \in Threads, PutFound(t) PROVE IInv'
<1> USE DEF PutFound, Goto, queueVars, flagVars
<1>1. TypeOK'
  BY NoOpType DEF IInv, TypeOK, ThreadInv, PutLabels, Threads, Op, GuiLabels,
                  WorkerLabels
<1>2. ThreadInv' /\ FlagInv' /\ WakeInv' /\ ExclusiveIsQuiet'
  BY DEF IInv, ListInv, TypeOK, ThreadInv, HeadInv, FlagInv, WakeInv,
         ExclusiveIsQuiet, Threads, PutLabels, DrainLabels, Executing, Exclusive
<1>3. HeadInv' /\ QueueExact'
  BY DEF IInv, ListInv, TypeOK, ThreadInv, HeadInv, QueueExact, Threads, PutLabels,
         Executing
<1>4. pc["worker"] \notin {"none", "cleared"}
  BY DEF IInv, TypeOK, FlagInv, Threads
<1>5. /\ pc["worker"] \in Executing <=> pc'["worker"] \in Executing
      /\ Entered' <=> Entered
  BY DEF IInv, TypeOK, ThreadInv, Threads, PutLabels, Executing, Entered
<1>6. \A k : Untaken(k)' = Untaken(k) /\ Unread(k)' = Unread(k)
  BY <1>5 DEF Untaken, Unread
<1>7. Unread(op[t].kind) # {}
  <2>1. Untaken(op[t].kind) # {}
    BY <1>4, ScanFindsUntaken DEF IInv, ListInv
  <2> QED BY <2>1 DEF Untaken, Unread, Entered
<1>8. OneWaiting' /\ ChangeSeen'
  BY <1>6, <1>7 DEF IInv, ListInv, OneWaiting, ChangeSeen
<1>9. ScanInv'
  BY <1>6 DEF IInv, ListInv, ScanInv, ThreadInv, TypeOK, Threads, PutLabels
<1> QED BY <1>1, <1>2, <1>3, <1>8, <1>9 DEF IInv, ListInv

LEMMA PutMissedInv == ASSUME IInv, NEW t \in Threads, PutMissed(t) PROVE IInv'
<1> USE DEF PutMissed, Goto, queueVars, flagVars, threadVars, histVars
<1>1. TypeOK'
  BY DEF IInv, TypeOK, Threads, GuiLabels, WorkerLabels
<1>2. ThreadInv' /\ FlagInv' /\ WakeInv' /\ ExclusiveIsQuiet'
  BY DEF IInv, ListInv, TypeOK, ThreadInv, HeadInv, FlagInv, WakeInv,
         ExclusiveIsQuiet, Threads, PutLabels, DrainLabels, Executing, Exclusive
<1>3. HeadInv' /\ QueueExact'
  BY DEF IInv, ListInv, TypeOK, HeadInv, QueueExact, Threads, Executing
<1>4. pc["worker"] \notin {"none", "cleared"}
  BY DEF IInv, TypeOK, FlagInv, Threads
<1>5. /\ pc["worker"] \in Executing <=> pc'["worker"] \in Executing
      /\ Entered' <=> Entered
  BY DEF IInv, TypeOK, Threads, Executing, Entered
<1>6. \A k : Untaken(k)' = Untaken(k) /\ Unread(k)' = Unread(k)
  BY <1>5 DEF Untaken, Unread
<1>7. OneWaiting' /\ ChangeSeen'
  BY <1>6 DEF IInv, ListInv, OneWaiting, ChangeSeen
<1>8. op[t].unless => Untaken(op[t].kind) = {}
  BY <1>4, ScanFindsUntaken DEF IInv, ListInv
<1>9. ScanInv'
  BY <1>6, <1>8 DEF IInv, ListInv, ScanInv, TypeOK, Threads
<1> QED BY <1>1, <1>2, <1>3, <1>7, <1>9 DEF IInv, ListInv

LEMMA PutAppendInv == ASSUME IInv, NEW t \in Threads, PutAppend(t) PROVE IInv'
<1> USE DEF PutAppend, Goto, flagVars
<1> DEFINE n == [id |-> accepted + 1, kind |-> op[t].kind]
<1>1. n \in Node /\ n.id = accepted + 1 /\ n.kind = op[t].kind
  BY DEF IInv, ListInv, TypeOK, Op, Node, Threads
<1>2. pc["worker"] \notin {"none", "cleared"} /\ pc'["worker"] \notin {"none", "cleared"}
  BY DEF IInv, ListInv, TypeOK, FlagInv, Threads
<1>a. gReqList' = Linked(n)
  OBVIOUS
<1> HIDE DEF n
<1>3. gReqList' = Append(gReqList, n)
  <2>1. CASE gReqList = <<>>
    <3>1. gReqEnd = 0
      BY <2>1, <1>2 DEF IInv, ListInv, QueueExact
    <3> QED BY <2>1, <3>1, <1>a DEF Linked
  <2>2. CASE gReqList # <<>>
    <3>1. gReqEnd = gReqList[Len(gReqList)].id /\ gReqEnd # 0
      BY <2>2, <1>2 DEF IInv, ListInv, QueueExact, TypeOK
    <3> QED BY <2>2, <3>1, <1>a DEF Linked
  <2> QED BY <2>1, <2>2
<1>4. /\ Len(gReqList') = Len(gReqList) + 1
      /\ \A i \in 1..Len(gReqList) : gReqList'[i] = gReqList[i]
      /\ gReqList'[Len(gReqList) + 1] = n
  <2>1. gReqList \in Seq(Node)
    BY DEF IInv, TypeOK
  <2> HIDE DEF PutAppend
  <2> QED BY <2>1, <1>1, <1>3
<1>5. TypeOK'
  <2>1. gReqList' \in Seq(Node)
    <3>1. gReqList \in Seq(Node)
      BY DEF IInv, ListInv, TypeOK
    <3> HIDE DEF PutAppend
    <3> QED BY <3>1, <1>1, <1>3
  <2>2. gIoPending' \in [Types -> Nat]
    BY DEF IInv, ListInv, TypeOK, Types, TypeOf
  <2> QED BY <2>1, <2>2 DEF IInv, ListInv, TypeOK, Threads, Op, GuiLabels, WorkerLabels
<1>6. SameStage
  BY DEF IInv, ListInv, TypeOK, SameStage, Threads, Resting, Inside, Gone, Executing
<1>7. QueueExact'
  <2>1. Len(gReqList) = accepted - retired /\ Len(gReqList) \in Nat
    BY <1>2 DEF IInv, ListInv, TypeOK, QueueExact
  <2>2. Len(gReqList') = accepted' - retired'
    BY <1>4, <2>1 DEF IInv, ListInv, TypeOK
  <2>3. ASSUME NEW i \in 1..Len(gReqList') PROVE gReqList'[i].id = retired' + i
    <3>1. CASE i = Len(gReqList) + 1
      BY <3>1, <1>1, <1>4, <2>1 DEF IInv, ListInv, TypeOK
    <3>2. CASE i \in 1..Len(gReqList)
      BY <3>2, <1>2, <1>4 DEF IInv, ListInv, TypeOK, QueueExact
    <3> QED BY <3>1, <3>2, <1>4, <2>1
  <2>4. gReqList' # <<>> /\ gReqEnd' = gReqList'[Len(gReqList')].id
    BY <1>1, <1>4, <2>1
  <2> QED BY <2>2, <2>3, <2>4 DEF QueueExact
<1>8. HeadInv'
  BY <1>2, <1>4, <1>6 DEF IInv, ListInv, TypeOK, HeadInv, SameStage, Resting, Inside, Gone,
                          Executing
<1>9. ThreadInv' /\ FlagInv' /\ WakeInv' /\ ExclusiveIsQuiet'
  BY DEF IInv, ListInv, TypeOK, ThreadInv, HeadInv, FlagInv, WakeInv, ExclusiveIsQuiet,
         Threads, PutLabels, DrainLabels, Executing, Exclusive
<1>10. /\ pc["worker"] \in Executing <=> pc'["worker"] \in Executing
       /\ Entered' <=> Entered
  BY <1>6 DEF SameStage, Resting, Inside, Gone, Executing, Entered
<1>11. Len(gReqList) \in Nat /\ (pc["worker"] \in Executing => Len(gReqList) # 0)
  BY DEF IInv, ListInv, HeadInv, TypeOK
<1>12. \A k : /\ Untaken(k)' = Untaken(k) \cup
                               IF k = op[t].kind THEN {Len(gReqList) + 1} ELSE {}
              /\ Unread(k)' = Unread(k) \cup
                               IF k = op[t].kind THEN {Len(gReqList) + 1} ELSE {}
  <2>1. Entered => pc["worker"] \in Executing
    BY DEF Entered
  <2> HIDE DEF PutAppend
  <2> QED BY <1>1, <1>4, <1>10, <1>11, <2>1 DEF Untaken, Unread
<1>13. OneWaiting'
  <2> SUFFICES ASSUME NEW k \in UnlessKinds PROVE \A i, j \in Untaken(k)' : i = j
    BY DEF OneWaiting
  <2>1. k = op[t].kind => Untaken(k) = {}
    BY DEF IInv, ListInv, ThreadInv, PutLabels, ScanInv
  <2> QED BY <2>1, <1>12 DEF IInv, ListInv, OneWaiting
<1>14. ChangeSeen'
  BY <1>12 DEF IInv, ListInv, ChangeSeen
<1>15. ScanInv'
  BY DEF IInv, TypeOK, ThreadInv, ScanInv, Threads
<1> QED BY <1>5, <1>7, <1>8, <1>9, <1>13, <1>14, <1>15 DEF IInv, ListInv

-----------------------------------------------------------------------------
(* ioWorkerThread                                                             *)
LEMMA WorkerControlInv ==
  ASSUME IInv,
         \/ WorkerTop \/ WorkerSleep \/ WorkerWoken \/ WorkerLockProc \/ HandlerReturn
         \/ WorkerLockEnd \/ WorkerLoopExit \/ WorkerUnlockProc \/ WorkerStopped
  PROVE  IInv'
<1> USE DEF Goto, queueVars, flagVars, threadVars, histVars
<1>1. SameStage /\ UNCHANGED <<gReqList, gReqEnd, gReqRunning, accepted, retired, owed>>
  BY DEF IInv, ListInv, TypeOK, SameStage, Threads, Resting, Inside, Gone, Executing,
         WorkerTop, WorkerSleep, WorkerWoken, WorkerLockProc, HandlerReturn,
         WorkerLockEnd, WorkerLoopExit, WorkerUnlockProc, WorkerStopped
<1>2. ListInv'
  BY <1>1, ListKept
<1> DEFINE Rest == TypeOK' /\ ThreadInv' /\ FlagInv' /\ WakeInv' /\ ExclusiveIsQuiet'
<1> USE DEF IInv, ListInv, TypeOK, ThreadInv, HeadInv, FlagInv, WakeInv, ExclusiveIsQuiet,
            Threads, PutLabels, DrainLabels, Executing, Exclusive, WorkerLabels
<1>3. CASE WorkerTop
  <2> Rest
    BY <1>3 DEF WorkerTop
  <2> QED BY <1>2 DEF IInv, ListInv
<1>4. CASE WorkerSleep
  <2> Rest
    BY <1>4 DEF WorkerSleep
  <2> QED BY <1>2 DEF IInv, ListInv
<1>5. CASE WorkerWoken
  <2> Rest
    BY <1>5 DEF WorkerWoken
  <2> QED BY <1>2 DEF IInv, ListInv
<1>6. CASE WorkerLockProc
  <2> Rest
    BY <1>6 DEF WorkerLockProc
  <2> QED BY <1>2 DEF IInv, ListInv
<1>7. CASE HandlerReturn
  <2> Rest
    BY <1>7 DEF HandlerReturn
  <2> QED BY <1>2 DEF IInv, ListInv
<1>8. CASE WorkerLockEnd
  <2> Rest
    BY <1>8 DEF WorkerLockEnd
  <2> QED BY <1>2 DEF IInv, ListInv
<1>9. CASE WorkerLoopExit
  <2> Rest
    BY <1>9 DEF WorkerLoopExit
  <2> QED BY <1>2 DEF IInv, ListInv
<1>10. CASE WorkerUnlockProc
  <2> Rest
    BY <1>10 DEF WorkerUnlockProc
  <2> QED BY <1>2 DEF IInv, ListInv
<1>11. CASE WorkerStopped
  <2> Rest
    BY <1>11 DEF WorkerStopped
  <2> QED BY <1>2 DEF IInv, ListInv
<1> QED BY <1>3, <1>4, <1>5, <1>6, <1>7, <1>8, <1>9, <1>10, <1>11

LEMMA ExitDeleteThreadInv == ASSUME IInv, ExitDeleteThread PROVE IInv'
<1> USE DEF ExitDeleteThread, queueVars, flagVars, histVars
<1>1. ListInv'
  BY ListKept DEF SameStage
<1>2. leaving' \in BOOLEAN
  OBVIOUS
<1>3. TypeOK'
  BY <1>2 DEF IInv, TypeOK
<1>4. ThreadInv' /\ FlagInv' /\ WakeInv' /\ ExclusiveIsQuiet'
  BY DEF IInv, ThreadInv, FlagInv, WakeInv, ExclusiveIsQuiet
<1> QED BY <1>1, <1>3, <1>4 DEF IInv

LEMMA WorkerTakeInv == ASSUME IInv, WorkerTake PROVE IInv'
<1> USE DEF WorkerTake, Goto, flagVars, threadVars, histVars
<1>1. TypeOK'
  <2>1. gReqList[1] \in Node
    BY DEF IInv, ListInv, TypeOK
  <2>2. gReqRunning' \in Nat
    BY <2>1 DEF Node
  <2> QED BY <2>2 DEF IInv, ListInv, TypeOK, Threads, WorkerLabels
<1>2. HeadInv' /\ QueueExact'
  BY DEF IInv, ListInv, TypeOK, HeadInv, QueueExact, Threads, Executing
<1>3. ThreadInv' /\ FlagInv' /\ WakeInv' /\ ExclusiveIsQuiet'
  BY DEF IInv, ListInv, TypeOK, ThreadInv, FlagInv, WakeInv, ExclusiveIsQuiet,
         Threads, PutLabels, DrainLabels, Executing, Exclusive
<1>4. pc["worker"] = "loop" /\ pc'["worker"] = "start"
  BY DEF IInv, ListInv, TypeOK, Threads
<1>5. \A k : Untaken(k)' \subseteq Untaken(k) /\ Unread(k)' = Unread(k)
  BY <1>4 DEF Untaken, Unread, Entered, Executing
<1>6. OneWaiting' /\ ChangeSeen'
  BY <1>5 DEF IInv, ListInv, OneWaiting, ChangeSeen
<1>7. ScanInv'
  BY <1>4, <1>5 DEF IInv, ListInv, TypeOK, ScanInv, Threads
<1> QED BY <1>1, <1>2, <1>3, <1>6, <1>7 DEF IInv, ListInv

LEMMA WorkerStartInv == ASSUME IInv, WorkerStart PROVE IInv'
<1> USE DEF WorkerStart, Goto, queueVars, flagVars, threadVars
<1>1. TypeOK'
  BY DEF IInv, ListInv, TypeOK, Threads, WorkerLabels
<1>2. HeadInv' /\ QueueExact'
  BY DEF IInv, ListInv, TypeOK, HeadInv, QueueExact, Threads, Executing
<1>3. ThreadInv' /\ FlagInv' /\ WakeInv' /\ ExclusiveIsQuiet'
  BY DEF IInv, ListInv, TypeOK, ThreadInv, FlagInv, WakeInv, ExclusiveIsQuiet,
         Threads, PutLabels, DrainLabels, Executing, Exclusive
<1>4. pc["worker"] = "start" /\ pc'["worker"] = "handler"
  BY DEF IInv, TypeOK, Threads
<1>5. \A k : Untaken(k)' = Untaken(k) /\ Unread(k)' = Unread(k) \ {1}
  BY <1>4 DEF Untaken, Unread, Entered, Executing
<1>6. \A k : 1 \in Unread(k) => gReqList[1].kind = k
  BY DEF Unread
<1>7. OneWaiting' /\ ChangeSeen'
  BY <1>5, <1>6 DEF IInv, ListInv, OneWaiting, ChangeSeen
<1>8. ScanInv'
  BY <1>4, <1>5 DEF IInv, ListInv, TypeOK, ScanInv, Threads
<1> QED BY <1>1, <1>2, <1>3, <1>7, <1>8 DEF IInv, ListInv

LEMMA WorkerUnlinkInv == ASSUME IInv, WorkerUnlink PROVE IInv'
<1> USE DEF WorkerUnlink, Goto, flagVars
<1>1. pc["worker"] = "unlink" /\ pc'["worker"] = "loop"
  BY DEF IInv, ListInv, TypeOK, Threads
<1>2. gReqList \in Seq(Node) /\ gReqList # <<>> /\ gReqList' = Tail(gReqList)
  BY <1>1 DEF IInv, ListInv, TypeOK, HeadInv, Executing
<1>3. /\ gReqList' \in Seq(Node)
      /\ Len(gReqList') = Len(gReqList) - 1
      /\ Len(gReqList) \in Nat /\ Len(gReqList) > 0
      /\ \A i \in 1..Len(gReqList') : gReqList'[i] = gReqList[i + 1]
  <2> HIDE DEF WorkerUnlink
  <2> QED BY <1>2
<1>4. TypeOK'
  <2>1. gReqList[1] \in Node
    BY <1>2, <1>3
  <2>2. retired' \in Nat /\ gIoPending' \in [Types -> Nat]
    BY <2>1 DEF IInv, ListInv, TypeOK, Node, Types, TypeOf
  <2>3. gReqEnd' \in Nat
    BY DEF IInv, TypeOK, TailAfter
  <2> QED BY <1>3, <2>2, <2>3 DEF IInv, ListInv, TypeOK, Threads, WorkerLabels
<1>5. QueueExact' /\ retired' = retired + 1 /\ retired' <= accepted'
  <2>1. /\ Len(gReqList) = accepted - retired
        /\ \A i \in 1..Len(gReqList) : gReqList[i].id = retired + i
        /\ gReqEnd = gReqList[Len(gReqList)].id
    BY <1>1, <1>2 DEF IInv, ListInv, QueueExact
  <2>2. retired' = retired + 1
    BY <2>1, <1>3 DEF IInv, ListInv, TypeOK
  <2>3. Len(gReqList') = accepted' - retired'
    BY <1>3, <2>1, <2>2 DEF IInv, ListInv, TypeOK
  <2>4. \A i \in 1..Len(gReqList') : gReqList'[i].id = retired' + i
    BY <1>3, <2>1, <2>2 DEF IInv, ListInv, TypeOK
  <2>5. gReqList' # <<>> => gReqList'[Len(gReqList')] = gReqList[Len(gReqList)]
    BY <1>3
  <2>6. gReqEnd' = IF gReqList' = <<>> THEN 0 ELSE gReqList'[Len(gReqList')].id
    BY <2>1, <2>5, <1>2 DEF TailAfter
  <2>7. retired' <= accepted'
    BY <1>3, <2>3, <2>2 DEF IInv, ListInv, TypeOK
  <2> QED BY <2>2, <2>3, <2>4, <2>6, <2>7 DEF QueueExact
<1>6. HeadInv'
  BY <1>1, <1>5 DEF HeadInv, Executing
<1>7. ThreadInv' /\ FlagInv' /\ WakeInv' /\ ExclusiveIsQuiet'
  BY <1>2 DEF IInv, ListInv, TypeOK, ThreadInv, FlagInv, WakeInv, ExclusiveIsQuiet, HeadInv,
              Threads, PutLabels, DrainLabels, Executing, Exclusive
<1>8. \A k : /\ Untaken(k) \subseteq 2..Len(gReqList)
             /\ Untaken(k)' = {i \in 1..Len(gReqList') : i + 1 \in Untaken(k)}
             /\ Unread(k) = Untaken(k) /\ Unread(k)' = Untaken(k)'
  <2>1. \A k : Untaken(k) = {i \in 1..Len(gReqList) : gReqList[i].kind = k /\ i # 1}
    BY <1>1 DEF Untaken, Executing
  <2>2. \A k : Untaken(k)' = {i \in 1..Len(gReqList') : gReqList'[i].kind = k}
    BY <1>1 DEF Untaken, Executing
  <2>3. \A k : Unread(k) = Untaken(k) /\ Unread(k)' = Untaken(k)'
    BY <1>1 DEF Unread, Untaken, Entered, Executing
  <2> HIDE DEF WorkerUnlink
  <2> QED BY <2>1, <2>2, <2>3, <1>3
<1>9. \A k : \A i \in Untaken(k) : i - 1 \in Untaken(k)'
  <2> HIDE DEF WorkerUnlink
  <2> QED BY <1>3, <1>8
<1>10. OneWaiting'
  <2> SUFFICES ASSUME NEW k \in UnlessKinds, NEW i \in Untaken(k)', NEW j \in Untaken(k)'
               PROVE  i = j
    BY DEF OneWaiting
  <2>1. i \in Nat /\ j \in Nat /\ i + 1 \in Untaken(k) /\ j + 1 \in Untaken(k)
    BY <1>3, <1>8
  <2>2. i + 1 = j + 1
    BY <2>1 DEF IInv, ListInv, OneWaiting
  <2> QED BY <2>1, <2>2
<1>11. ChangeSeen'
  <2> SUFFICES ASSUME NEW k \in owed PROVE Unread(k)' # {}
    BY DEF ChangeSeen
  <2>1. PICK i : i \in Untaken(k)
    BY <1>8 DEF IInv, ListInv, ChangeSeen
  <2> QED BY <2>1, <1>8, <1>9
<1>12. ScanInv'
  BY <1>1 DEF IInv, TypeOK, ThreadInv, ScanInv, Threads
<1> QED BY <1>4, <1>5, <1>6, <1>7, <1>10, <1>11, <1>12 DEF IInv, ListInv

LEMMA WorkerDropInv == ASSUME IInv, WorkerDrop PROVE IInv'
<1> USE DEF WorkerDrop, Goto, flagVars, threadVars
<1>1. TypeOK'
  <2>1. gReqList' \in Seq(Node)
    BY EmptyList
  <2> QED BY <2>1 DEF IInv, ListInv, TypeOK, Threads, WorkerLabels
<1>2. ListInv'
  BY DEF IInv, ListInv, TypeOK, HeadInv, QueueExact, ScanInv, OneWaiting, ChangeSeen,
         Untaken, Unread, Threads, Executing
<1>3. ThreadInv' /\ FlagInv' /\ WakeInv' /\ ExclusiveIsQuiet'
  BY DEF IInv, ListInv, TypeOK, ThreadInv, FlagInv, WakeInv, ExclusiveIsQuiet,
         Threads, PutLabels, DrainLabels, Executing, Exclusive
<1> QED BY <1>1, <1>2, <1>3 DEF IInv, ListInv

-----------------------------------------------------------------------------
LEMMA StutterInv == ASSUME IInv, UNCHANGED vars PROVE IInv'
<1>1. ListInv'
  BY ListKept DEF vars, SameStage
<1>2. TypeOK' /\ ThreadInv' /\ FlagInv' /\ WakeInv' /\ ExclusiveIsQuiet'
  BY DEF vars, IInv, ListInv, TypeOK, ThreadInv, FlagInv, WakeInv, ExclusiveIsQuiet
<1> QED BY <1>1, <1>2 DEF IInv, ListInv

LEMMA NextInv == IInv /\ [Next]_vars => IInv'
<1> SUFFICES ASSUME IInv, [Next]_vars PROVE IInv'
  OBVIOUS
<1>1. CASE IoInit \/ RegisterWait \/ RegisterHandler
  BY <1>1, IoInitInv, RegisterWaitInv, RegisterHandlerInv
<1>2. CASE \E t \in Threads : Put(t)
  BY <1>2, PutCheckInv, PutLockInv, PutFoundInv, PutMissedInv, PutAppendInv,
     PutNoMemoryInv, PutWakeInv DEF Put
<1>3. CASE WorkerStep
  BY <1>3, WorkerControlInv, ExitDeleteThreadInv, WorkerTakeInv, WorkerStartInv, WorkerUnlinkInv,
     WorkerDropInv DEF WorkerStep
<1>4. CASE BlockStep
  BY <1>4, BlockStepInv
<1>5. CASE Done \/ UNCHANGED vars
  BY <1>5, StutterInv DEF Done
<1> QED BY <1>1, <1>2, <1>3, <1>4, <1>5 DEF Next

(* IInv holds in every reachable state of the I/O manager.                    *)
THEOREM Inductive == Spec => []IInv
  BY InitInv, NextInv, PTL DEF Spec

(* Every reachable state is well typed.                                       *)
THEOREM TypeCorrect == Spec => []TypeOK
  BY Inductive, PTL DEF IInv, ListInv

(* The worker never sleeps on a request nobody will wake it for: see          *)
(* WakeupThread in ioPutRequest and SleepThread in ioWorkerThread.            *)
THEOREM WakeupsAreNotLost == Spec => []NoLostWakeup
<1>1. IInv => NoLostWakeup
  BY DEF IInv, ListInv, WakeInv, NoLostWakeup
<1> QED BY <1>1, Inductive, PTL

(* The list holds the accepted requests that have not left it, in order, and  *)
(* gReqEnd names its last node.                                               *)
THEOREM QueueIsExact == Spec => []QueueExact
  BY Inductive, PTL DEF IInv, ListInv

(* A drained and blocked section of the GUI thread never overlaps a handler.  *)
THEOREM ExclusiveSections == Spec => []ExclusiveIsQuiet
  BY Inductive, PTL DEF IInv, ListInv

(* ioPutRequestUnlessWaiting leaves at most one waiting copy.                 *)
THEOREM UnlessWaiting == Spec => []OneWaiting
  BY Inductive, PTL DEF IInv, ListInv

(* A caller that was told IO_OK, its own request queued or an identical one   *)
(* found waiting, has its change read by a handler that starts later.         *)
THEOREM ChangesAreSeen == Spec => []ChangeSeen
  BY Inductive, PTL DEF IInv, ListInv

=============================================================================
