---------------------------- MODULE IoManRefines ---------------------------
(* The I/O manager implements IoQueue: every step of a thread is one step of  *)
(* the abstract queue, or leaves it unchanged.                                *)
EXTENDS IoManProofs

LEMMA InitRefines == Init => Q!Init
  BY DEF Init, Q!Init, StartedId, Entered, Executing, Exclusive, Threads

(* The GUI thread's steps change at most whether the queue is held quiet.     *)
LEMMA GuiRefines ==
  ASSUME IInv, pc'["worker"] = pc["worker"],
         UNCHANGED <<accepted, retired, gReqList>>,
         pc["gui"] \notin Exclusive /\ pc'["gui"] \in Exclusive => gReqList = <<>>
  PROVE  [Q!Next]_Q!vars
<1>1. UNCHANGED <<accepted, StartedId, Entered>>
  BY DEF StartedId, Entered
<1>2. gReqList = <<>> => ~Entered /\ StartedId = accepted
  BY DEF IInv, ListInv, HeadInv, QueueExact, TypeOK, Entered, StartedId, Executing
<1>3. CASE pc["gui"] \notin Exclusive /\ pc'["gui"] \in Exclusive
  BY <1>1, <1>2, <1>3 DEF Q!Next, Q!Quiesce
<1>4. CASE pc["gui"] \in Exclusive /\ pc'["gui"] \notin Exclusive
  BY <1>1, <1>4 DEF Q!Next, Q!Resume
<1>5. CASE pc["gui"] \in Exclusive <=> pc'["gui"] \in Exclusive
  BY <1>1, <1>5 DEF Q!vars
<1> QED BY <1>3, <1>4, <1>5

LEMMA BlockStepRefines == ASSUME IInv, BlockStep PROVE [Q!Next]_Q!vars
<1>1. /\ UNCHANGED <<gReqList, accepted, retired>>
      /\ \E l : pc' = [pc EXCEPT !["gui"] = l]
  BY DEF BlockStep, HddBegin, HddDrained, HddEnd, EditBegin, EditDrained,
         EditCancel, EditEnd, EditRenameBegin, EditRenameEnd, LwnbdBegin,
         LwnbdDrained, LwnbdGiveUp, LwnbdEnd, DeinitBegin, DeinitDrained,
         IoEnd, IoEndWake, Restart, BlockOps, UnblockOps, GuiGoto, Goto,
         queueVars, histVars
<1>2. pc'["worker"] = pc["worker"]
  BY <1>1 DEF IInv, ListInv, TypeOK, Threads
<1>3. pc["gui"] \notin Exclusive /\ pc'["gui"] \in Exclusive => gReqList = <<>>
  BY DEF IInv, ListInv, TypeOK, FlagInv, Threads, Exclusive, PutLabels, DrainLabels,
         BlockStep, HddBegin, HddDrained, HddEnd, EditBegin, EditDrained,
         EditCancel, EditEnd, EditRenameBegin, EditRenameEnd, LwnbdBegin,
         LwnbdDrained, LwnbdGiveUp, LwnbdEnd, DeinitBegin, DeinitDrained,
         IoEnd, IoEndWake, Restart, BlockOps, UnblockOps, GuiGoto, Goto,
         ioHasPendingRequests
<1> QED BY <1>1, <1>2, <1>3, GuiRefines

LEMMA AppendRefines == ASSUME IInv, NEW t \in Threads, PutAppend(t) PROVE Q!Accept
<1>1. pc["gui"] \notin Exclusive /\ pc'["gui"] \notin Exclusive
  BY DEF IInv, ListInv, TypeOK, ExclusiveIsQuiet, PutAppend, Goto, Threads, Exclusive, Executing
<1>2. Entered' = Entered /\ retired' = retired /\ accepted' = accepted + 1
  BY DEF IInv, ListInv, TypeOK, PutAppend, Goto, Threads, Entered, Executing
<1>3. Entered => gReqList'[1].id = gReqList[1].id
  BY PutAppendInv DEF IInv, ListInv, Entered, Executing, HeadInv, PutAppend, TypeOK, Threads, Goto
<1>4. StartedId' = StartedId
  BY <1>2, <1>3 DEF StartedId
<1> QED BY <1>1, <1>2, <1>4 DEF Q!Accept

LEMMA StartRefines == ASSUME IInv, WorkerStart PROVE Q!Start
<1> USE DEF WorkerStart, Goto, queueVars
<1>1. pc["gui"] \notin Exclusive /\ pc'["gui"] = pc["gui"]
  BY DEF IInv, ListInv, TypeOK, ExclusiveIsQuiet, Threads, Executing
<1>2. Entered = FALSE /\ Entered' = TRUE
  BY DEF IInv, ListInv, TypeOK, Threads, Entered, Executing
<1>3. gReqList[1].id = retired + 1 /\ retired < accepted
  <2>1. gReqList # <<>> /\ Len(gReqList) \in Nat
    BY DEF IInv, ListInv, HeadInv, TypeOK, Executing
  <2> QED BY <2>1 DEF IInv, ListInv, QueueExact, TypeOK
<1> QED BY <1>1, <1>2, <1>3 DEF Q!Start, StartedId

LEMMA UnlinkRefines == ASSUME IInv, WorkerUnlink PROVE Q!Finish
<1> USE DEF WorkerUnlink, Goto
<1>1. Entered = TRUE /\ Entered' = FALSE /\ pc'["gui"] = pc["gui"]
  BY DEF IInv, ListInv, TypeOK, Threads, Entered, Executing
<1> QED BY <1>1 DEF Q!Finish, StartedId

LEMMA DropRefines == ASSUME IInv, WorkerDrop PROVE Q!Discard
<1> USE DEF WorkerDrop, Goto
<1>1. Entered = FALSE /\ Entered' = FALSE /\ pc'["gui"] = pc["gui"]
  BY DEF IInv, ListInv, TypeOK, Threads, Entered, Executing
<1> QED BY <1>1 DEF Q!Discard, StartedId

(* The other steps of the worker and of a put leave the abstract queue alone. *)
LEMMA StutterRefines ==
  ASSUME IInv, UNCHANGED <<gReqList, accepted, retired>>, Entered' = Entered,
         pc["gui"] \notin Exclusive \/ pc'["gui"] = pc["gui"],
         pc'["gui"] \notin Exclusive \/ pc'["gui"] = pc["gui"]
  PROVE  UNCHANGED Q!vars
<1>1. StartedId' = StartedId
  BY DEF StartedId
<1> QED BY <1>1 DEF Q!vars

LEMMA PutRefines == ASSUME IInv, NEW t \in Threads, Put(t) PROVE [Q!Next]_Q!vars
<1>1. CASE PutAppend(t)
  BY <1>1, AppendRefines DEF Q!Next
<1>2. CASE ~PutAppend(t)
  <2> USE <1>2 DEF Put, PutCheck, PutLock, PutFound, PutMissed, PutNoMemory, PutWake, Goto,
                   queueVars, histVars
  <2>1. UNCHANGED <<gReqList, accepted, retired>>
    OBVIOUS
  <2>2. Entered' = Entered
    BY DEF IInv, ListInv, TypeOK, ThreadInv, PutLabels, Threads, Entered, Executing
  <2>3. /\ pc["gui"] \notin Exclusive \/ pc'["gui"] = pc["gui"]
        /\ pc'["gui"] \notin Exclusive \/ pc'["gui"] = pc["gui"]
    BY DEF IInv, ListInv, TypeOK, ThreadInv, PutLabels, Threads, Exclusive
  <2> QED BY <2>1, <2>2, <2>3, StutterRefines
<1> QED BY <1>1, <1>2

LEMMA WorkerRefines == ASSUME IInv, WorkerStep PROVE [Q!Next]_Q!vars
<1>1. CASE WorkerStart \/ WorkerUnlink \/ WorkerDrop
  BY <1>1, StartRefines, UnlinkRefines, DropRefines DEF Q!Next
<1>2. CASE \/ WorkerTop \/ WorkerSleep \/ WorkerWoken \/ WorkerLockProc \/ WorkerTake
           \/ HandlerReturn \/ WorkerLockEnd \/ WorkerLoopExit \/ WorkerUnlockProc
           \/ WorkerStopped \/ ExitDeleteThread
  <2> USE <1>2 DEF WorkerTop, WorkerSleep, WorkerWoken, WorkerLockProc, WorkerTake,
                   HandlerReturn, WorkerLockEnd, WorkerLoopExit, WorkerUnlockProc,
                   WorkerStopped, ExitDeleteThread, Goto, queueVars, histVars
  <2>1. UNCHANGED <<gReqList, accepted, retired>>
    OBVIOUS
  <2>2. Entered' = Entered /\ pc'["gui"] = pc["gui"]
    BY DEF IInv, ListInv, TypeOK, Threads, Entered, Executing
  <2> QED BY <2>1, <2>2, StutterRefines
<1> QED BY <1>1, <1>2 DEF WorkerStep

LEMMA InitStepRefines ==
  ASSUME IInv, IoInit \/ RegisterWait \/ RegisterHandler
  PROVE  [Q!Next]_Q!vars
<1>1. CASE IoInit
  <2>1. UNCHANGED <<gReqList, accepted, retired>> /\ Entered' = Entered
    BY <1>1 DEF IoInit, histVars, IInv, ListInv, HeadInv, ThreadInv, Entered, Executing, Threads
  <2>2. pc["gui"] \notin Exclusive /\ pc'["gui"] \notin Exclusive
    BY <1>1 DEF IoInit, Exclusive, Threads
  <2> QED BY <2>1, <2>2, StutterRefines
<1>2. CASE RegisterWait \/ RegisterHandler
  <2> USE <1>2 DEF RegisterWait, RegisterHandler, Goto, queueVars, histVars
  <2>1. UNCHANGED <<gReqList, accepted, retired>>
    OBVIOUS
  <2>2. Entered' = Entered /\ pc["gui"] \notin Exclusive /\ pc'["gui"] \notin Exclusive
    BY DEF IInv, ListInv, TypeOK, Threads, Entered, Executing, Exclusive
  <2> QED BY <2>1, <2>2, StutterRefines
<1> QED BY <1>1, <1>2

LEMMA NextRefines == IInv /\ [Next]_vars => [Q!Next]_Q!vars
<1> SUFFICES ASSUME IInv, [Next]_vars PROVE [Q!Next]_Q!vars
  OBVIOUS
<1>1. CASE Done \/ UNCHANGED vars
  <2>1. UNCHANGED <<gReqList, accepted, retired, pc>>
    BY <1>1 DEF Done, vars
  <2> QED BY <2>1, StutterRefines DEF Entered
<1>2. CASE \E t \in Threads : Put(t)
  BY <1>2, PutRefines
<1> QED BY <1>1, <1>2, InitStepRefines, WorkerRefines, BlockStepRefines DEF Next

(* The I/O manager implements the queue it promises: requests are executed    *)
(* one at a time, each once and in the order they were accepted, and none is  *)
(* accepted or started while a caller holds the queue blocked and drained.    *)
THEOREM ImplementsQueue == Spec => Implements
<1>1. Init => Q!Init
  BY InitRefines
<1>2. IInv /\ [Next]_vars => [Q!Next]_Q!vars
  BY NextRefines
<1> QED BY <1>1, <1>2, Inductive, PTL DEF Spec, Implements, Q!Spec
=============================================================================
