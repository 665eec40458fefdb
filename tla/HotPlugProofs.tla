--------------------------- MODULE HotPlugProofs ---------------------------
(* That no hot-plug event is lost on its way from bdm.c to the page, for any  *)
(* number of devices, table entries, units and file systems.                  *)
(*                                                                            *)
(* The inductive invariant follows an event through every place where it can  *)
(* be while a page has not looked yet: the event flag, the bits bdm_thread    *)
(* took from it, the packets of the SIF, the generation the hook has not      *)
(* seen, the request in the I/O queue and the poll that is about to open.     *)
EXTENDS HotPlug, FiniteSetTheorems, SequenceTheorems, TLAPS

(* bdm.c still owes the EE a packet, or one is on its way.                    *)
UnderWay ==
  \/ bdm_event \cap {"cbMount", "cbUmount"} # {}
  \/ "cbMount" \in thr.bits /\ thr.pc \in {"scan", "probe", "cbMount"}
  \/ "cbUmount" \in thr.bits /\ thr.pc # "wait"
  \/ sif # <<>>

(* The handler is installed before any driver: until then nothing happened.   *)
BootInv ==
  /\ armed => g_cb
  /\ ~armed => /\ plugged = {} /\ thr.dev = NoDev
               /\ \A i \in Table : g_mount[i].bd = NoDev
               /\ \A u \in Units : mass[u] = NoDev /\ page[u] = NewPage
               /\ ioq = <<>> /\ wk.pc = "idle" /\ BdmGeneration = 0
  /\ IF thr.pc = "probe" THEN thr.i \in Table ELSE thr.dev = NoDev

(* What a page remembers.  A page that is shown, scanned or to be rescanned   *)
(* has been identified.                                                       *)
PageInv(u) ==
  /\ page[u].tick <= BdmGeneration
  /\ page[u].visible \/ page[u].scanned \/ page[u].dirty => page[u].known
  /\ wk.unit = u /\ wk.pc = "scan" => page[u].known

PollOpens(u) == wk.pc = "open" /\ wk.unit = u
PollScans(u) == wk.pc = "scan" /\ wk.unit = u

(* What a page may be when it has looked in this generation and bdm.c has     *)
(* nothing more to tell: right, counting the misses of its device, or not     *)
(* published yet and without a rescan that could close its latch.             *)
Looked(u) ==
  \/ page[u].visible <=> mass[u] # NoDev
  \/ page[u].visible /\ page[u].miss > 0
  \/ ~page[u].visible /\ ~page[u].scanned /\ ~page[u].dirty /\ ~PollScans(u)

LatchInv(u) ==
  page[u].tick = BdmGeneration =>
    /\ PollOpens(u) => (page[u].dirty => page[u].visible)
    /\ ~PollOpens(u) /\ ~UnderWay => Looked(u)

(* No open has failed on a mounted device yet; SELECT was not pressed yet.    *)
NoStall == budget.stall = MaxStalls
NoRefresh == budget.refresh = MaxRefreshes

InQueue(u) == \E i \in 1 .. Len(ioq) : ioq[i] = u

(* A generation the hook has seen has reached every page or waits for it.     *)
RescanInv ==
  /\ lastSeenBdmGeneration <= BdmGeneration
  /\ NoRefresh => /\ \A u \in Units : ~page[u].dirty
                  /\ (BdmGeneration = lastSeenBdmGeneration /\ BdmGeneration # 0) =>
                        \A u \in Units : page[u].tick = BdmGeneration \/ InQueue(u)

Inv ==
  /\ TypeOK /\ BootInv /\ RescanInv
  /\ \A u \in Units : PageInv(u)
  /\ NoStall => \A u \in Units : LatchInv(u)

-----------------------------------------------------------------------------
(* Facts about the sequences of the model                                     *)

LEMMA EmptySif == <<>> \in Seq(0 .. MaxConnections)
  OBVIOUS

LEMMA EmptyIoq == <<>> \in Seq(Units)
  OBVIOUS

(* The requests the hook makes name exactly the units that were accepted.     *)
LEMMA RequestsType ==
  ASSUME NEW a \in SUBSET Units, NEW s \in Requests(a)
  PROVE  /\ s \in Seq(Units)
         /\ \A u \in a : \E i \in 1 .. Len(s) : s[i] = u
<1>1. IsFiniteSet(a)
  <2>1. IsFiniteSet(1 .. NumUnits)
    BY FS_Interval, BdmAssumption
  <2> QED
    BY <2>1, FS_Subset DEF Units
<1>2. Cardinality(a) \in Nat
  BY <1>1, FS_CardinalityType
<1>3. s \in [1 .. Cardinality(a) -> a] /\ \A u \in a : \E i \in DOMAIN s : s[i] = u
  BY DEF Requests
<1>4. s \in [1 .. Cardinality(a) -> Units]
  BY <1>3
<1>5. s \in Seq(Units) /\ Len(s) = Cardinality(a)
  BY <1>2, <1>4
<1> QED
  BY <1>3, <1>5

LEMMA CountType == unsupportedSectorCount \in 0 .. MaxConnections
<1> DEFINE R == {i \in Table : g_mount[i].bd \in BadDevices}
<1>1. IsFiniteSet(Table) /\ Cardinality(Table) = MaxConnections
  BY FS_Interval, BdmAssumption DEF Table
<1>2. Cardinality(R) <= Cardinality(Table) /\ IsFiniteSet(R)
  BY <1>1, FS_Subset
<1>3. Cardinality(R) \in Nat
  BY <1>2, FS_CardinalityType
<1> QED
  BY <1>1, <1>2, <1>3, BdmAssumption DEF unsupportedSectorCount

-----------------------------------------------------------------------------
LEMMA InitInv == Init => Inv
<1> SUFFICES ASSUME Init PROVE Inv
  OBVIOUS
<1>1. BdmTypeOK
  <2>1. [bd |-> NoDev, fs |-> 0, refused |-> FALSE] \in MountEntry
    BY BdmAssumption DEF MountEntry
  <2>2. Waiting \in ThreadState
    BY BdmAssumption DEF Waiting, ThreadState
  <2>3. plugs \in 0 .. MaxPlugs
    BY BdmAssumption DEF Init, BdmInit
  <2> QED
    BY <2>1, <2>2, <2>3, EmptySif DEF Init, BdmInit, BdmTypeOK
<1>2. TypeOK
  <2>1. Idle \in [pc : {"idle", "open", "scan"}, unit : Units]
    BY BdmAssumption DEF Units, Idle
  <2>2. 0 \in 0 .. HideMisses - 1 /\ 0 \in 0 .. MaxConnections
    BY BdmAssumption, HotPlugAssumption
  <2>3. NewPage \in PageState
    BY <2>2 DEF NewPage, PageState
  <2>4. budget \in [stall : 0 .. MaxStalls, refresh : 0 .. MaxRefreshes,
                    apply : 0 .. MaxApplies]
    BY HotPlugAssumption DEF Init
  <2> QED
    BY <1>1, <2>1, <2>2, <2>3, <2>4, EmptyIoq DEF Init, TypeOK
<1>3. BootInv
  BY DEF Init, BdmInit, BootInv, Waiting, Idle
<1>4. RescanInv
  BY DEF Init, RescanInv, NewPage
<1>5. \A u \in Units : PageInv(u) /\ LatchInv(u)
  BY DEF Init, PageInv, LatchInv, NewPage, Idle
<1> QED
  BY <1>2, <1>3, <1>4, <1>5 DEF Inv

(* A step of bdm.c: the pages stay as they are, and a unit changes only when  *)
(* a packet is then owed.                                                     *)
LEMMA BdmKeeps ==
  ASSUME Inv, UNCHANGED eeVars, BdmTypeOK', BootInv',
         armed /\ UnderWay => UnderWay', mass' = mass \/ UnderWay'
  PROVE  Inv'
<1> USE DEF eeVars
<1>1. TypeOK'
  BY DEF Inv, TypeOK
<1>2. RescanInv'
  BY DEF Inv, RescanInv, NoRefresh, InQueue
<1>3. \A u \in Units : PageInv(u)'
  BY DEF Inv, PageInv
<1>4. NoStall' => \A u \in Units : LatchInv(u)'
  <2>1. CASE armed
    BY <2>1 DEF Inv, NoStall, LatchInv, Looked, PollOpens, PollScans
  <2>2. CASE ~armed
    BY <2>2 DEF Inv, BootInv, NewPage, LatchInv
  <2> QED
    BY <2>1, <2>2
<1> QED
  BY <1>1, <1>2, <1>3, <1>4 DEF Inv

LEMMA RegisterCallbackInv ==
  ASSUME Inv, bdm_RegisterCallback, UNCHANGED eeVars PROVE Inv'
<1>1. BdmTypeOK'
  BY DEF Inv, TypeOK, BdmTypeOK, bdm_RegisterCallback, Bits
<1>2. BootInv'
  BY DEF Inv, BootInv, bdm_RegisterCallback, eeVars
<1>3. UnderWay => UnderWay'
  BY DEF UnderWay, bdm_RegisterCallback
<1> QED
  BY <1>1, <1>2, <1>3, BdmKeeps DEF bdm_RegisterCallback

LEMMA ConnectInv ==
  ASSUME Inv, NEW d \in Devices, DriversLoaded, bdm_connect_bd(d), UNCHANGED eeVars
  PROVE  Inv'
<1>1. BdmTypeOK'
  <2>0. BdmTypeOK
    BY DEF Inv, TypeOK
  <2>1. g_mount' \in [Table -> MountEntry]
    <3>1. \A e \in MountEntry : [e EXCEPT !.bd = d, !.refused = FALSE] \in MountEntry
      BY DEF MountEntry
    <3> DEFINE m == Min(FreeEntries)
    <3>2. CASE FreeEntries = {}
      BY <2>0, <3>2 DEF BdmTypeOK, bdm_connect_bd
    <3>3. CASE FreeEntries # {}
      <4>1. g_mount' = [g_mount EXCEPT ![m] = [@ EXCEPT !.bd = d, !.refused = FALSE]]
        BY <3>3, <2>0 DEF BdmTypeOK, bdm_connect_bd
      <4> HIDE DEF m
      <4> QED
        BY <4>1, <3>1, <2>0 DEF BdmTypeOK
    <3> QED
      BY <3>2, <3>3
  <2>2. plugs' \in 0 .. MaxPlugs
    BY <2>0, BdmAssumption DEF BdmTypeOK, bdm_connect_bd
  <2> QED
    BY <2>0, <2>1, <2>2 DEF BdmTypeOK, bdm_connect_bd, Bits
<1>2. BootInv'
  BY DEF Inv, BootInv, bdm_connect_bd, eeVars, DriversLoaded
<1>3. UnderWay => UnderWay'
  BY DEF UnderWay, bdm_connect_bd
<1> QED
  BY <1>1, <1>2, <1>3, BdmKeeps DEF bdm_connect_bd

LEMMA DisconnectInv ==
  ASSUME Inv, NEW d \in Devices, bdm_disconnect_bd(d), UNCHANGED eeVars
  PROVE  Inv'
<1>1. BdmTypeOK'
  <2>1. [bd |-> NoDev, fs |-> 0, refused |-> FALSE] \in MountEntry
    BY BdmAssumption DEF MountEntry
  <2>2. bdm_event' \in SUBSET Bits
    BY DEF Inv, TypeOK, BdmTypeOK, bdm_disconnect_bd, Notify, Bits
  <2> QED
    BY <2>1, <2>2 DEF Inv, TypeOK, BdmTypeOK, bdm_disconnect_bd
<1>2. BootInv'
  BY DEF Inv, BootInv, bdm_disconnect_bd, eeVars
<1>3. UnderWay => UnderWay'
  BY DEF UnderWay, bdm_disconnect_bd
<1>4. g_cb
  BY DEF Inv, BootInv, bdm_disconnect_bd
<1>5. mass' = mass \/ UnderWay'
  <2>1. CASE \E i \in Table : g_mount[i].bd = d
    BY <2>1, <1>4 DEF bdm_disconnect_bd, Notify, UnderWay
  <2>2. CASE ~ \E i \in Table : g_mount[i].bd = d
    BY <2>2 DEF bdm_disconnect_bd, Inv, TypeOK, BdmTypeOK
  <2> QED
    BY <2>1, <2>2
<1> QED
  BY <1>1, <1>2, <1>3, <1>5, BdmKeeps

(* What the steps of bdm_thread need of its own state.                        *)
LEMMA ScannedType ==
  ASSUME Inv, thr.i \in Table
  PROVE  Scanned(thr.i) \in ThreadState
<1>1. thr \in ThreadState
  BY DEF Inv, TypeOK, BdmTypeOK
<1>2. thr.i + 1 \in 1 .. MaxConnections + 1 /\ 1 \in 1 .. NumFs
  BY BdmAssumption DEF Table
<1> QED
  BY <1>1, <1>2 DEF Scanned, ThreadState

(* The thread goes on to the next entry: nothing it owes is forgotten.        *)
LEMMA ScannedUnderWay ==
  ASSUME Inv, thr.pc \in {"scan", "probe"}, thr' = Scanned(thr.i), sif' = sif,
         bdm_event \subseteq bdm_event'
  PROVE  UnderWay => UnderWay'
<1>1. thr'.bits = thr.bits /\ thr'.pc = "scan"
  BY DEF Inv, TypeOK, BdmTypeOK, ThreadState, Scanned
<1> QED
  BY <1>1 DEF UnderWay

LEMMA BdmWaitInv == ASSUME Inv, BdmWait, UNCHANGED eeVars PROVE Inv'
<1>1. /\ thr'.bits = bdm_event /\ thr'.dev = NoDev
      /\ thr'.pc = IF "mount" \in bdm_event THEN "scan" ELSE "cbMount"
  BY DEF BdmWait, Waiting
<1>2. BdmTypeOK'
  <2>1. Waiting \in ThreadState
    BY BdmAssumption DEF Waiting, ThreadState
  <2>2. thr' \in ThreadState
    BY <2>1 DEF BdmWait, Inv, TypeOK, BdmTypeOK, ThreadState
  <2> QED
    BY <2>2 DEF BdmWait, Inv, TypeOK, BdmTypeOK
<1>3. BootInv'
  BY <1>1 DEF Inv, BootInv, BdmWait, eeVars
<1>4. UnderWay => UnderWay'
  BY <1>1 DEF UnderWay, BdmWait
<1> QED
  BY <1>2, <1>3, <1>4, BdmKeeps DEF BdmWait

LEMMA BdmSkipInv == ASSUME Inv, BdmSkip, UNCHANGED eeVars PROVE Inv'
<1>1. BdmTypeOK'
  BY ScannedType DEF BdmSkip, Inv, TypeOK, BdmTypeOK
<1>2. BootInv'
  BY DEF Inv, BootInv, BdmSkip, Scanned, eeVars, TypeOK, BdmTypeOK, ThreadState
<1>3. UnderWay => UnderWay'
  BY ScannedUnderWay DEF BdmSkip
<1> QED
  BY <1>1, <1>2, <1>3, BdmKeeps DEF BdmSkip

LEMMA BdmRefuseInv == ASSUME Inv, BdmRefuse, UNCHANGED eeVars PROVE Inv'
<1>1. BdmTypeOK'
  <2>1. \A e \in MountEntry : [e EXCEPT !.refused = TRUE] \in MountEntry
    BY DEF MountEntry
  <2>2. g_mount' \in [Table -> MountEntry]
    BY <2>1 DEF BdmRefuse, Inv, TypeOK, BdmTypeOK
  <2>3. bdm_event' \in SUBSET Bits
    BY DEF BdmRefuse, Inv, TypeOK, BdmTypeOK, Notify, Bits
  <2> QED
    BY <2>2, <2>3, ScannedType DEF BdmRefuse, Inv, TypeOK, BdmTypeOK
<1>2. BootInv'
  BY DEF Inv, BootInv, BdmRefuse, NeedsMount, Scanned, eeVars, TypeOK, BdmTypeOK,
         ThreadState
<1>3. UnderWay => UnderWay'
  BY ScannedUnderWay DEF BdmRefuse
<1> QED
  BY <1>1, <1>2, <1>3, BdmKeeps DEF BdmRefuse

LEMMA BdmProbeInv == ASSUME Inv, BdmProbe, UNCHANGED eeVars PROVE Inv'
<1>1. g_mount[thr.i].bd \in Devices \cup {NoDev} /\ armed
  BY DEF Inv, BootInv, TypeOK, BdmTypeOK, MountEntry, BdmProbe, NeedsMount
<1>2. BdmTypeOK'
  <2>1. 1 \in 1 .. NumFs
    BY BdmAssumption
  <2>2. thr' \in ThreadState
    BY <2>1, <1>1 DEF BdmProbe, Inv, TypeOK, BdmTypeOK, ThreadState
  <2> QED
    BY <2>2 DEF BdmProbe, Inv, TypeOK, BdmTypeOK
<1>3. thr'.bits = thr.bits /\ thr'.pc = "probe" /\ thr'.i = thr.i
  BY DEF Inv, TypeOK, BdmTypeOK, ThreadState, BdmProbe
<1>4. BootInv'
  BY <1>1, <1>3 DEF Inv, BootInv, BdmProbe, eeVars
<1>5. UnderWay => UnderWay'
  BY <1>3 DEF UnderWay, BdmProbe
<1> QED
  BY <1>2, <1>4, <1>5, BdmKeeps DEF BdmProbe

LEMMA BdmProbeFailedInv ==
  ASSUME Inv, BdmProbeFailed, UNCHANGED eeVars PROVE Inv'
<1>0. thr.i \in Table
  BY DEF Inv, BootInv, BdmProbeFailed
<1>1. thr \in ThreadState /\ g_mount[thr.i] \in MountEntry
  BY <1>0 DEF Inv, TypeOK, BdmTypeOK
<1>2. g_mount[thr.i].bd \in Devices \cup {NoDev}
  BY <1>1 DEF MountEntry
<1>3. CASE thr.k < NumFs
  <2>0. thr' = [thr EXCEPT !.k = @ + 1, !.dev = g_mount[thr.i].bd]
    BY <1>3 DEF BdmProbeFailed
  <2>1. /\ thr' \in ThreadState /\ thr'.bits = thr.bits /\ thr'.pc = "probe"
        /\ thr'.dev = g_mount[thr.i].bd /\ thr'.i = thr.i
    <3>1. thr.k + 1 \in 1 .. NumFs
      BY <1>1, <1>3, BdmAssumption DEF ThreadState
    <3> QED
      BY <2>0, <3>1, <1>1, <1>2 DEF ThreadState, BdmProbeFailed
  <2>2. BdmTypeOK'
    BY <2>1 DEF BdmProbeFailed, Inv, TypeOK, BdmTypeOK
  <2>3. BootInv'
    BY <2>1, <1>0 DEF BdmProbeFailed, Inv, BootInv, eeVars
  <2>4. UnderWay => UnderWay'
    BY <2>1 DEF UnderWay, BdmProbeFailed
  <2> QED
    BY <2>2, <2>3, <2>4, BdmKeeps DEF BdmProbeFailed
<1>4. CASE ~(thr.k < NumFs)
  <2>1. BdmTypeOK'
    BY <1>0, <1>4, ScannedType DEF BdmProbeFailed, Inv, TypeOK, BdmTypeOK
  <2>2. BootInv'
    BY <1>1, <1>4 DEF BdmProbeFailed, Inv, BootInv, Scanned, eeVars, ThreadState
  <2>3. UnderWay => UnderWay'
    BY <1>4, ScannedUnderWay DEF BdmProbeFailed
  <2> QED
    BY <2>1, <2>2, <2>3, BdmKeeps DEF BdmProbeFailed
<1> QED
  BY <1>3, <1>4

LEMMA BdmMountedInv ==
  ASSUME Inv, BdmMounted, UNCHANGED eeVars PROVE Inv'
<1>0. thr.i \in Table
  BY DEF Inv, BootInv, BdmMounted
<1>1. thr \in ThreadState /\ g_mount \in [Table -> MountEntry]
  BY DEF Inv, TypeOK, BdmTypeOK
<1>2. armed /\ g_cb
  BY DEF Inv, BootInv, BdmMounted
<1>3. BdmTypeOK'
  <2>1. thr.k \in 0 .. NumFs /\ thr.dev \in Devices \cup {NoDev}
    BY <1>1, BdmAssumption DEF ThreadState
  <2>2. \A e \in MountEntry : [e EXCEPT !.fs = thr.k] \in MountEntry
    BY <2>1 DEF MountEntry
  <2>3. g_mount' \in [Table -> MountEntry]
    BY <1>1, <2>2 DEF BdmMounted
  <2>4. bdm_event' \in SUBSET Bits
    BY DEF BdmMounted, Inv, TypeOK, BdmTypeOK, Notify, Bits
  <2>5. mass' \in [Units -> Devices \cup {NoDev}]
    <3> DEFINE m == Min(FreeUnits)
    <3>1. mass' = [mass EXCEPT ![m] = thr.dev]
      BY DEF BdmMounted
    <3> HIDE DEF m
    <3> QED
      BY <3>1, <2>1 DEF Inv, TypeOK, BdmTypeOK
  <2> QED
    BY <1>0, <2>3, <2>4, <2>5, ScannedType DEF BdmMounted, Inv, TypeOK, BdmTypeOK
<1>4. BootInv'
  BY <1>1, <1>2 DEF BdmMounted, Inv, BootInv, Scanned, eeVars, ThreadState
<1>5. UnderWay'
  BY <1>2 DEF UnderWay, BdmMounted, Notify
<1> QED
  BY <1>3, <1>4, <1>5, BdmKeeps

LEMMA BdmScanEndInv == ASSUME Inv, BdmScanEnd, UNCHANGED eeVars PROVE Inv'
<1>1. thr' \in ThreadState /\ thr'.bits = thr.bits /\ thr'.pc = "cbMount"
      /\ thr'.dev = thr.dev
  BY DEF Inv, TypeOK, BdmTypeOK, ThreadState, BdmScanEnd
<1>2. BdmTypeOK'
  BY <1>1 DEF BdmScanEnd, Inv, TypeOK, BdmTypeOK
<1>3. BootInv'
  BY <1>1 DEF BdmScanEnd, Inv, BootInv, eeVars
<1>4. UnderWay => UnderWay'
  BY <1>1 DEF UnderWay, BdmScanEnd
<1> QED
  BY <1>2, <1>3, <1>4, BdmKeeps DEF BdmScanEnd

LEMMA CallbackInv ==
  ASSUME Inv, NEW bit \in {"cbMount", "cbUmount"}, NEW next \in ThreadState,
         next.dev = NoDev, next.pc # "probe",
         "cbUmount" \in thr.bits /\ bit = "cbMount" =>
            "cbUmount" \in next.bits /\ next.pc # "wait",
         Callback(bit, next), UNCHANGED eeVars
  PROVE  Inv'
<1>1. sif \in Seq(0 .. MaxConnections) /\ sif' \in Seq(0 .. MaxConnections)
  <2>1. sif \in Seq(0 .. MaxConnections)
    BY DEF Inv, TypeOK, BdmTypeOK
  <2>2. \A n \in 0 .. MaxConnections : Append(sif, n) \in Seq(0 .. MaxConnections)
    BY <2>1, AppendProperties
  <2>3. sif' = sif \/ sif' = Append(sif, unsupportedSectorCount)
    BY DEF Callback
  <2> QED
    BY <2>1, <2>2, <2>3, CountType
<1>2. BdmTypeOK'
  BY <1>1 DEF Callback, Inv, TypeOK, BdmTypeOK
<1>3. BootInv'
  BY DEF Callback, Inv, BootInv, eeVars
<1>4. armed /\ UnderWay => UnderWay'
  <2> SUFFICES ASSUME armed, UnderWay PROVE UnderWay'
    OBVIOUS
  <2>1. g_cb
    BY DEF Inv, BootInv
  <2>2. CASE bit \in thr.bits
    <3>1. sif' # <<>>
      BY <2>1, <2>2, <1>1, CountType DEF Callback
    <3> QED
      BY <3>1 DEF UnderWay
  <2>3. CASE bit \notin thr.bits
    BY <2>3 DEF UnderWay, Callback
  <2> QED
    BY <2>2, <2>3
<1> QED
  BY <1>2, <1>3, <1>4, BdmKeeps DEF Callback

LEMMA BdmCallbacksInv ==
  ASSUME Inv, BdmCallbackMount \/ BdmCallbackUmount, UNCHANGED eeVars PROVE Inv'
<1>1. CASE BdmCallbackMount
  <2> DEFINE next == [thr EXCEPT !.pc = "cbUmount"]
  <2>1. /\ next \in ThreadState /\ next.dev = thr.dev /\ next.pc = "cbUmount"
        /\ next.bits = thr.bits
    BY DEF Inv, TypeOK, BdmTypeOK, ThreadState
  <2>2. Callback("cbMount", next) /\ thr.pc = "cbMount"
    BY <1>1 DEF BdmCallbackMount, Callback
  <2>3. thr.dev = NoDev
    BY <2>2 DEF Inv, BootInv
  <2> HIDE DEF next
  <2> QED
    BY <2>1, <2>2, <2>3, CallbackInv
<1>2. CASE BdmCallbackUmount
  <2>1. Waiting \in ThreadState /\ Waiting.dev = NoDev /\ Waiting.pc = "wait"
    BY BdmAssumption DEF Waiting, ThreadState
  <2>2. Callback("cbUmount", Waiting)
    BY <1>2 DEF BdmCallbackUmount
  <2> QED
    BY <2>1, <2>2, CallbackInv
<1> QED
  BY <1>1, <1>2

LEMMA BdmThreadInv == ASSUME Inv, BdmThread, UNCHANGED eeVars PROVE Inv'
  BY BdmWaitInv, BdmSkipInv, BdmRefuseInv, BdmProbeInv, BdmProbeFailedInv,
     BdmMountedInv, BdmScanEndInv, BdmCallbacksInv DEF BdmThread

-----------------------------------------------------------------------------
(* The console: the handler of the packets and the GUI thread                 *)

LEMMA SifAddCmdHandlerInv == ASSUME Inv, SifAddCmdHandler PROVE Inv'
<1> USE DEF SifAddCmdHandler, bdmVars
<1>1. TypeOK'
  BY DEF Inv, TypeOK, BdmTypeOK
<1>2. BootInv'
  BY DEF Inv, BootInv
<1>3. RescanInv'
  BY DEF Inv, RescanInv, NoRefresh, InQueue
<1>4. \A u \in Units : PageInv(u)'
  BY DEF Inv, PageInv
<1>5. NoStall' => \A u \in Units : LatchInv(u)'
  BY DEF Inv, NoStall, LatchInv, Looked, PollOpens, PollScans, UnderWay
<1> QED
  BY <1>1, <1>2, <1>3, <1>4, <1>5 DEF Inv

(* A new generation opens the latch of every page.                            *)
LEMMA bdmEventHandlerInv == ASSUME Inv, bdmEventHandler PROVE Inv'
<1>0. /\ BdmGeneration \in Nat /\ lastSeenBdmGeneration \in Nat
      /\ sif \in Seq(0 .. MaxConnections) /\ sif # <<>>
  BY DEF Inv, TypeOK, BdmTypeOK, bdmEventHandler
<1>1. sif' \in Seq(0 .. MaxConnections) /\ Head(sif) \in 0 .. MaxConnections
  BY <1>0, HeadTailProperties DEF bdmEventHandler
<1>2. TypeOK'
  BY <1>0, <1>1 DEF Inv, TypeOK, BdmTypeOK, bdmEventHandler
<1>3. BootInv'
  BY DEF Inv, BootInv, bdmEventHandler
<1>4. CASE armed
  <2>1. BdmGeneration' = BdmGeneration + 1
    BY <1>4 DEF bdmEventHandler
  <2>2. \A u \in Units : page[u].tick \in Nat \cup {-1} /\ page[u].tick <= BdmGeneration
    BY DEF Inv, TypeOK, PageState, PageInv
  <2>3. RescanInv'
    BY <1>0, <2>1 DEF Inv, RescanInv, NoRefresh, bdmEventHandler
  <2>4. \A u \in Units : PageInv(u)'
    BY <1>0, <2>1, <2>2 DEF Inv, PageInv, bdmEventHandler
  <2>5. \A u \in Units : LatchInv(u)'
    BY <1>0, <2>1, <2>2 DEF LatchInv, bdmEventHandler
  <2> QED
    BY <1>2, <1>3, <2>3, <2>4, <2>5 DEF Inv
<1>5. CASE ~armed
  <2>1. UNCHANGED <<BdmGeneration, lastSeenBdmGeneration, page, budget, ioq, wk>>
    BY <1>5 DEF bdmEventHandler
  <2>2. RescanInv'
    BY <2>1 DEF Inv, RescanInv, NoRefresh, InQueue
  <2>3. \A u \in Units : PageInv(u)'
    BY <2>1 DEF Inv, PageInv
  <2>4. \A u \in Units : LatchInv(u)'
    BY <1>5, <2>1 DEF Inv, BootInv, LatchInv, NewPage
  <2> QED
    BY <1>2, <1>3, <2>2, <2>3, <2>4 DEF Inv
<1> QED
  BY <1>4, <1>5

(* The hook fills the queue; the generation it has seen is the one that every *)
(* page is asked about.                                                       *)
LEMMA HookInv ==
  ASSUME Inv, NEW a \in SUBSET Units, HookChanged(a) \/ HookIdle(a) PROVE Inv'
<1>1. /\ UNCHANGED <<bdmVars, armed, BdmGeneration, BdmUnsupportedSectorDrives,
                     BdmUnsupportedSectorReported, wk, page, budget>>
      /\ armed /\ ioq = <<>> /\ ioq' \in Requests(a)
      /\ lastSeenBdmGeneration' \in {lastSeenBdmGeneration, BdmGeneration}
  BY DEF HookChanged, HookIdle, QueueEmpty
<1>2. ioq' \in Seq(Units) /\ \A u \in a : \E i \in 1 .. Len(ioq') : ioq'[i] = u
  BY <1>1, RequestsType
<1>3. TypeOK'
  BY <1>1, <1>2 DEF Inv, TypeOK, BdmTypeOK, bdmVars
<1>4. BootInv'
  BY <1>1 DEF Inv, BootInv, bdmVars
<1>5. RescanInv'
  <2>1. lastSeenBdmGeneration' <= BdmGeneration' /\ BdmGeneration \in Nat
    BY <1>1 DEF Inv, RescanInv, TypeOK
  <2>2. ASSUME NoRefresh',
               BdmGeneration' = lastSeenBdmGeneration', BdmGeneration' # 0
        PROVE  \A u \in Units : page[u].tick = BdmGeneration \/ InQueue(u)'
    <3>1. CASE BdmGeneration = lastSeenBdmGeneration
      BY <3>1, <2>2, <1>1 DEF Inv, RescanInv, NoRefresh, InQueue
    <3>2. CASE BdmGeneration # lastSeenBdmGeneration
      <4>1. a = Units
        BY <3>2, <2>2, <1>1 DEF HookChanged, HookIdle
      <4> QED
        BY <4>1, <1>2 DEF InQueue
    <3> QED
      BY <3>1, <3>2
  <2> QED
    BY <2>1, <2>2, <1>1 DEF Inv, RescanInv, NoRefresh
<1>6. \A u \in Units : PageInv(u)'
  BY <1>1 DEF Inv, PageInv
<1>7. NoStall' => \A u \in Units : LatchInv(u)'
  BY <1>1 DEF Inv, NoStall, LatchInv, Looked, PollOpens, PollScans, UnderWay, bdmVars
<1> QED
  BY <1>3, <1>4, <1>5, <1>6, <1>7 DEF Inv

(* SELECT: a shown page is marked, and its request may be refused.            *)
LEMMA UserRefreshInv == ASSUME Inv, NEW v \in Units, UserRefresh(v) PROVE Inv'
<1>0. /\ page \in [Units -> PageState] /\ ioq \in Seq(Units)
      /\ budget \in [stall : 0 .. MaxStalls, refresh : 0 .. MaxRefreshes,
                      apply : 0 .. MaxApplies]
  BY DEF Inv, TypeOK
<1>1. page' \in [Units -> PageState]
  <2>1. \A p \in PageState : [p EXCEPT !.dirty = TRUE] \in PageState
    BY DEF PageState
  <2> QED
    BY <1>0, <2>1 DEF UserRefresh
<1>2. \A u \in Units : /\ page'[u].tick = page[u].tick
                       /\ page'[u].visible = page[u].visible
                       /\ page'[u].known = page[u].known
                       /\ page'[u].scanned = page[u].scanned
                       /\ page'[u].miss = page[u].miss
                       /\ page'[u].dirty = (u = v \/ page[u].dirty)
  BY <1>0 DEF UserRefresh, PageState
<1>3. /\ budget' \in [stall : 0 .. MaxStalls, refresh : 0 .. MaxRefreshes,
                       apply : 0 .. MaxApplies]
      /\ budget'.stall = budget.stall /\ ~NoRefresh'
  BY <1>0, HotPlugAssumption DEF UserRefresh, NoRefresh
<1>4. ioq' \in Seq(Units)
  <2>1. Append(ioq, v) \in Seq(Units)
    BY <1>0, AppendProperties
  <2> QED
    BY <1>0, <2>1 DEF UserRefresh
<1>5. TypeOK'
  BY <1>1, <1>3, <1>4 DEF Inv, TypeOK, BdmTypeOK, UserRefresh, bdmVars
<1>6. armed
  BY DEF Inv, BootInv, UserRefresh, NewPage
<1>7. BootInv'
  BY <1>6 DEF Inv, BootInv, UserRefresh, bdmVars
<1>8. RescanInv'
  BY <1>3 DEF Inv, RescanInv, UserRefresh
<1>9. \A u \in Units : PageInv(u)'
  BY <1>2 DEF Inv, PageInv, UserRefresh
<1>10. NoStall' => \A u \in Units : LatchInv(u)'
  BY <1>2, <1>3 DEF Inv, NoStall, LatchInv, Looked, PollOpens, PollScans, UnderWay,
                    UserRefresh, bdmVars
<1> QED
  BY <1>5, <1>7, <1>8, <1>9, <1>10 DEF Inv

(* Game Sources applied: the latches are opened.                              *)
LEMMA ApplySourcesInv == ASSUME Inv, ApplySources PROVE Inv'
<1>0. /\ page \in [Units -> PageState] /\ BdmGeneration \in Nat
      /\ budget \in [stall : 0 .. MaxStalls, refresh : 0 .. MaxRefreshes,
                      apply : 0 .. MaxApplies]
      /\ BdmGeneration' = BdmGeneration + 1 /\ armed
      /\ budget.apply > 0 /\ budget' = [budget EXCEPT !.apply = @ - 1]
      /\ UNCHANGED <<bdmVars, armed, BdmUnsupportedSectorDrives,
                     BdmUnsupportedSectorReported, lastSeenBdmGeneration, ioq, wk>>
  BY DEF Inv, TypeOK, ApplySources
<1>1. page' \in [Units -> PageState]
  <2>1. \A p \in PageState, b \in BOOLEAN :
          [p EXCEPT !.tick = -1, !.visible = b] \in PageState
    BY DEF PageState
  <2>2. \A u \in Units : (page[u].visible /\ bdmSlotIdentified(u)) \in BOOLEAN
    OBVIOUS
  <2>3. \A u \in Units : page'[u] =
          [page[u] EXCEPT !.tick = -1, !.visible = page[u].visible /\ bdmSlotIdentified(u)]
    BY <1>0 DEF ApplySources, PageState
  <2>4. page' = [u \in Units |-> page'[u]]
    BY DEF ApplySources
  <2>5. ASSUME NEW u \in Units PROVE page'[u] \in PageState
    <3>1. page[u] \in PageState
      BY <1>0
    <3> QED
      BY <3>1, <2>1, <2>2, <2>3
  <2> QED
    BY <2>4, <2>5
<1>2. \A u \in Units : /\ page'[u].tick = -1
                       /\ page'[u].visible = (page[u].visible /\ bdmSlotIdentified(u))
                       /\ page'[u].known = page[u].known
                       /\ page'[u].scanned = page[u].scanned
                       /\ page'[u].dirty = page[u].dirty
  BY <1>0 DEF ApplySources, PageState
<1>3. /\ budget' \in [stall : 0 .. MaxStalls, refresh : 0 .. MaxRefreshes,
                       apply : 0 .. MaxApplies]
      /\ budget'.refresh = budget.refresh
  BY <1>0, HotPlugAssumption
<1>4. TypeOK'
  <2>1. BdmGeneration' \in Nat
    BY <1>0
  <2>2. /\ armed' \in BOOLEAN /\ lastSeenBdmGeneration' \in Nat
        /\ BdmUnsupportedSectorDrives' \in 0 .. MaxConnections
        /\ BdmUnsupportedSectorReported' \in 0 .. MaxConnections
        /\ ioq' \in Seq(Units) /\ BdmTypeOK'
        /\ wk' \in [pc : {"idle", "open", "scan"}, unit : Units]
    BY <1>0 DEF Inv, TypeOK, BdmTypeOK, bdmVars
  <2> QED
    BY <1>1, <1>3, <2>1, <2>2 DEF TypeOK
<1>5. BootInv'
  BY <1>0 DEF Inv, BootInv, bdmVars
<1>6. RescanInv'
  <2>1. lastSeenBdmGeneration \in Nat /\ lastSeenBdmGeneration <= BdmGeneration
    BY DEF Inv, TypeOK, RescanInv
  <2>2. /\ lastSeenBdmGeneration' <= BdmGeneration'
        /\ lastSeenBdmGeneration' # BdmGeneration'
    BY <1>0, <2>1
  <2>3. NoRefresh' => \A u \in Units : ~page'[u].dirty
    BY <1>2, <1>3 DEF Inv, RescanInv, NoRefresh
  <2> QED
    BY <2>2, <2>3 DEF RescanInv
<1>7. \A u \in Units : PageInv(u)'
  <2>1. ASSUME NEW u \in Units PROVE PageInv(u)'
    <3>1. PageInv(u)
      BY DEF Inv
    <3>2. page'[u].tick <= BdmGeneration'
      BY <1>0, <1>2
    <3> QED
      BY <3>1, <3>2, <1>0, <1>2 DEF PageInv
  <2> QED
    BY <2>1
<1>8. \A u \in Units : LatchInv(u)'
  BY <1>0, <1>2 DEF LatchInv
<1> QED
  BY <1>4, <1>5, <1>6, <1>7, <1>8 DEF Inv

-----------------------------------------------------------------------------
(* The I/O worker                                                             *)

(* What a step of the worker on page v has to keep: the other pages stay as   *)
(* they are.                                                                  *)
LEMMA WorkerKeeps ==
  ASSUME Inv, NEW v \in Units, NEW p \in PageState,
         armed, wk' \in [pc : {"idle", "open", "scan"}, unit : Units],
         page' = [page EXCEPT ![v] = p], ioq' \in Seq(Units),
         wk'.pc # "idle" => wk'.unit = v, wk.pc # "idle" => wk.unit = v,
         budget' \in [stall : 0 .. MaxStalls, refresh : 0 .. MaxRefreshes,
                      apply : 0 .. MaxApplies],
         budget'.refresh = budget.refresh,
         NoStall' => NoStall,
         BdmUnsupportedSectorReported' \in 0 .. MaxConnections,
         UNCHANGED <<bdmVars, armed, BdmGeneration, BdmUnsupportedSectorDrives,
                     lastSeenBdmGeneration>>,
         p.dirty => page[v].dirty,
         p.tick \in {page[v].tick, BdmGeneration},
         \A u \in Units : InQueue(u) =>
            InQueue(u)' \/ (u = v /\ (p.tick = BdmGeneration \/ page[v].dirty)),
         PageInv(v)', NoStall' => LatchInv(v)'
  PROVE  Inv'
<1>0. page \in [Units -> PageState] /\ BdmGeneration \in Nat
  BY DEF Inv, TypeOK
<1>1. page' \in [Units -> PageState] /\ page'[v] = p
      /\ \A u \in Units \ {v} : page'[u] = page[u]
  BY <1>0
<1>2. TypeOK'
  BY <1>1 DEF Inv, TypeOK, BdmTypeOK, bdmVars
<1>3. BootInv'
  BY DEF Inv, BootInv, bdmVars
<1>4. RescanInv'
  <2>1. NoRefresh' => NoRefresh /\ \A u \in Units : ~page'[u].dirty
    BY <1>1 DEF NoRefresh, Inv, RescanInv
  <2>2. ASSUME NoRefresh, BdmGeneration = lastSeenBdmGeneration, BdmGeneration # 0,
               NEW u \in Units
        PROVE  page'[u].tick = BdmGeneration \/ InQueue(u)'
    <3>1. page[u].tick = BdmGeneration \/ InQueue(u)
      BY <2>2 DEF Inv, RescanInv
    <3>2. ~page[v].dirty
      BY <2>2 DEF Inv, RescanInv
    <3> QED
      BY <3>1, <3>2, <1>1
  <2>3. lastSeenBdmGeneration <= BdmGeneration
    BY DEF Inv, RescanInv
  <2> QED
    BY <2>1, <2>2, <2>3 DEF RescanInv
<1>5. \A u \in Units : PageInv(u)'
  BY <1>1 DEF Inv, PageInv
<1>6. NoStall' => \A u \in Units : LatchInv(u)'
  <2> SUFFICES ASSUME NoStall', NEW u \in Units, u # v PROVE LatchInv(u)'
    OBVIOUS
  <2>1. LatchInv(u) /\ page'[u] = page[u]
    BY <1>1 DEF Inv
  <2>2. PollOpens(u)' = FALSE /\ PollScans(u)' = FALSE /\ PollOpens(u) = FALSE
        /\ PollScans(u) = FALSE
    BY DEF PollOpens, PollScans
  <2>3. UnderWay' = UnderWay
    BY DEF UnderWay, bdmVars
  <2> QED
    BY <2>1, <2>2, <2>3 DEF LatchInv, Looked, bdmVars
<1> QED
  BY <1>2, <1>3, <1>4, <1>5, <1>6 DEF Inv

LEMMA PollStartInv == ASSUME Inv, PollStart PROVE Inv'
<1>0. /\ page \in [Units -> PageState] /\ ioq \in Seq(Units) /\ ioq # <<>>
      /\ BdmGeneration \in Nat /\ wk \in [pc : {"idle", "open", "scan"}, unit : Units]
      /\ ioq' = Tail(ioq) /\ wk.pc = "idle"
      /\ budget \in [stall : 0 .. MaxStalls, refresh : 0 .. MaxRefreshes,
                      apply : 0 .. MaxApplies]
      /\ BdmUnsupportedSectorReported' \in 0 .. MaxConnections
      /\ UNCHANGED <<bdmVars, armed, BdmGeneration, BdmUnsupportedSectorDrives,
                     lastSeenBdmGeneration, budget>>
  BY DEF Inv, TypeOK, PollStart
<1>1. armed
  BY <1>0 DEF Inv, BootInv
<1>2. Head(ioq) \in Units /\ ioq' \in Seq(Units)
  BY <1>0, HeadTailProperties
<1>v. PICK v \in Units : v = Head(ioq)
  BY <1>2
<1>3. ASSUME NEW u \in Units, InQueue(u), u # v PROVE InQueue(u)'
  <2>1. PICK i \in 1 .. Len(ioq) : ioq[i] = u
    BY <1>3 DEF InQueue
  <2>2. i # 1 /\ Len(ioq) \in Nat
    BY <2>1, <1>3, <1>0, <1>v
  <2>3. Len(ioq') = Len(ioq) - 1 /\ \A k \in 1 .. Len(ioq') : ioq'[k] = ioq[k + 1]
    BY <1>0, HeadTailProperties
  <2>4. i - 1 \in 1 .. Len(ioq') /\ ioq'[i - 1] = ioq[i]
    BY <2>2, <2>3
  <2> QED
    BY <2>1, <2>4 DEF InQueue
<1>4. UnderWay' = UnderWay /\ mass' = mass
  BY <1>0 DEF UnderWay, bdmVars
<1>5. PageInv(v) /\ (NoStall => LatchInv(v)) /\ page[v] \in PageState
  BY <1>0, <1>2 DEF Inv
<1>6. CASE page[v].dirty /\ page' = [page EXCEPT ![v].dirty = FALSE]
           /\ wk' = [pc |-> "scan", unit |-> v]
  <2> DEFINE p == [page[v] EXCEPT !.dirty = FALSE]
  <2>1. /\ p \in PageState /\ ~p.dirty /\ p.tick = page[v].tick
        /\ p.visible = page[v].visible /\ p.known = page[v].known
        /\ p.scanned = page[v].scanned /\ p.miss = page[v].miss
    BY <1>5 DEF PageState
  <2>2. page' = [page EXCEPT ![v] = p] /\ page'[v] = p
    BY <1>0, <1>2, <1>6
  <2> HIDE DEF p
  <2>3. PageInv(v)'
    BY <2>1, <2>2, <1>0, <1>5, <1>6 DEF PageInv
  <2>4. NoStall' => LatchInv(v)'
    BY <2>1, <2>2, <1>0, <1>4, <1>5, <1>6
       DEF LatchInv, Looked, PollOpens, PollScans, NoStall
  <2> QED
    BY <2>1, <2>2, <2>3, <2>4, <1>0, <1>1, <1>2, <1>3, <1>6, WorkerKeeps DEF NoStall
<1>7. CASE AlreadyPolled(v) /\ UNCHANGED <<page, wk>>
  <2>1. page[v].tick = BdmGeneration /\ page' = [page EXCEPT ![v] = page[v]]
    BY <1>0, <1>7 DEF AlreadyPolled
  <2>2. PageInv(v)'
    BY <1>0, <1>5, <1>7 DEF PageInv
  <2>3. NoStall' => LatchInv(v)'
    BY <1>0, <1>4, <1>5, <1>7 DEF LatchInv, Looked, PollOpens, PollScans, NoStall
  <2> QED
    BY <2>1, <2>2, <2>3, <1>0, <1>1, <1>2, <1>3, <1>5, <1>7, WorkerKeeps DEF NoStall
<1>8. CASE ~page[v].dirty /\ page' = [page EXCEPT ![v].tick = BdmGeneration]
           /\ wk' = [pc |-> "open", unit |-> v]
  <2> DEFINE p == [page[v] EXCEPT !.tick = BdmGeneration]
  <2>1. /\ p \in PageState /\ ~p.dirty /\ p.tick = BdmGeneration
        /\ p.visible = page[v].visible /\ p.known = page[v].known
        /\ p.scanned = page[v].scanned
    BY <1>0, <1>5, <1>8 DEF PageState
  <2>2. page' = [page EXCEPT ![v] = p] /\ page'[v] = p
    BY <1>0, <1>2, <1>8
  <2> HIDE DEF p
  <2>3. PageInv(v)'
    BY <2>1, <2>2, <1>0, <1>5, <1>8 DEF PageInv
  <2>4. LatchInv(v)'
    BY <2>1, <2>2, <1>8 DEF LatchInv, PollOpens
  <2> QED
    BY <2>1, <2>2, <2>3, <2>4, <1>0, <1>1, <1>2, <1>3, <1>8, WorkerKeeps DEF NoStall
<1> QED
  BY <1>v, <1>6, <1>7, <1>8 DEF PollStart

(* A poll spends nothing, or one of the opens that may fail.                  *)
Spends(v) ==
  budget' = budget \/ (Stalled(v) /\ (mass[v] = NoDev \/ budget.stall > 0))

(* The end of a poll, from what it leaves in its page.                        *)
LEMMA PollEndsInv ==
  ASSUME Inv, NEW v \in Units, NEW p \in PageState,
         NEW next \in {Idle, [pc |-> "scan", unit |-> v]},
         wk.pc # "idle", wk.unit = v, PollEnds(v, p, next),
         Spends(v),
         p.tick = page[v].tick, p.dirty = page[v].dirty,
         p.visible \/ p.scanned \/ p.dirty \/ next.pc = "scan" => p.known,
         (NoStall' /\ p.tick = BdmGeneration /\ ~UnderWay) =>
            \/ p.visible <=> mass[v] # NoDev
            \/ p.visible /\ p.miss > 0
            \/ ~p.visible /\ ~p.scanned /\ ~p.dirty /\ next = Idle
  PROVE  Inv'
<1>0. /\ page \in [Units -> PageState] /\ ioq \in Seq(Units)
      /\ BdmGeneration \in Nat /\ wk \in [pc : {"idle", "open", "scan"}, unit : Units]
      /\ budget \in [stall : 0 .. MaxStalls, refresh : 0 .. MaxRefreshes,
                      apply : 0 .. MaxApplies]
      /\ BdmUnsupportedSectorReported \in 0 .. MaxConnections
      /\ page' = [page EXCEPT ![v] = p] /\ wk' = next
      /\ UNCHANGED <<bdmVars, armed, BdmGeneration, BdmUnsupportedSectorDrives,
                 BdmUnsupportedSectorReported, lastSeenBdmGeneration, ioq>>
  BY DEF Inv, TypeOK, PollEnds
<1>1. armed
  BY DEF Inv, BootInv
<1>2. /\ next \in [pc : {"idle", "open", "scan"}, unit : Units]
      /\ next.pc \in {"idle", "scan"} /\ (next.pc # "idle" => next.unit = v)
      /\ (next = Idle => next.pc = "idle")
  BY BdmAssumption DEF Idle, Units
<1>3. /\ budget' \in [stall : 0 .. MaxStalls, refresh : 0 .. MaxRefreshes,
                       apply : 0 .. MaxApplies]
      /\ budget'.refresh = budget.refresh /\ budget'.stall <= budget.stall
  BY <1>0, HotPlugAssumption DEF Spends, Stalled
<1>4. NoStall' => NoStall
  BY <1>0, <1>3, HotPlugAssumption DEF NoStall
<1>5. UnderWay' = UnderWay /\ mass' = mass
  BY <1>0 DEF UnderWay, bdmVars
<1>6. PageInv(v) /\ page'[v] = p
  BY <1>0 DEF Inv
<1>7. PageInv(v)'
  BY <1>0, <1>2, <1>6 DEF PageInv
<1>8. NoStall' => LatchInv(v)'
  BY <1>0, <1>2, <1>5, <1>6 DEF LatchInv, Looked, PollOpens, PollScans
<1>9. \A u \in Units : InQueue(u) => InQueue(u)'
  BY <1>0 DEF InQueue
<1> QED
  BY <1>0, <1>1, <1>2, <1>3, <1>4, <1>6, <1>7, <1>8, <1>9, WorkerKeeps

LEMMA PollInv == ASSUME Inv, NEW v \in Units, Poll(v) PROVE Inv'
<1>0. /\ page[v] \in PageState /\ PageInv(v) /\ (NoStall => LatchInv(v))
      /\ HideMisses \in Nat \ {0} /\ budget.stall \in 0 .. MaxStalls
      /\ mass[v] \in Devices \cup {NoDev} /\ MaxStalls \in Nat
      /\ 0 \in 0 .. HideMisses - 1
  BY HotPlugAssumption DEF Inv, TypeOK, BdmTypeOK
<1>1. /\ page[v].miss \in 0 .. HideMisses - 1
      /\ page[v].visible \in BOOLEAN /\ page[v].known \in BOOLEAN
      /\ page[v].scanned \in BOOLEAN /\ page[v].dirty \in BOOLEAN
  BY <1>0 DEF PageState
<1>2. CASE PollPresent(v)
  <2> DEFINE p == [Present(v) EXCEPT !.visible = TRUE]
  <2>1. /\ p \in PageState /\ p.tick = page[v].tick /\ p.dirty = page[v].dirty
        /\ p.visible /\ p.known = page[v].known
    BY <1>0 DEF PageState, Present
  <2>2. PollEnds(v, p, Idle) /\ Spends(v) /\ budget' = budget /\ Opened(v) /\ page[v].known
    BY <1>2 DEF PollPresent, bdmSlotIdentified, Spends
  <2> HIDE DEF p
  <2> QED
    BY <2>1, <2>2, PollEndsInv DEF Opened
<1>3. CASE PollDeferred(v)
  <2> DEFINE p == Present(v)
  <2>1. /\ p \in PageState /\ p.tick = page[v].tick /\ p.dirty = page[v].dirty
        /\ p.visible = page[v].visible /\ p.known = page[v].known
        /\ p.scanned = page[v].scanned
    BY <1>0 DEF PageState, Present
  <2>2. PollEnds(v, p, Idle) /\ Spends(v) /\ budget' = budget /\ Opened(v) /\ FirstSight(v)
    BY <1>3 DEF PollDeferred, FirstSight, Spends
  <2>3. ~page[v].visible /\ ~page[v].scanned
    BY <2>2, <1>0, <1>1 DEF FirstSight, bdmSlotIdentified, PageInv
  <2>4. NoStall' /\ page[v].tick = BdmGeneration => ~page[v].dirty
    BY <2>2, <2>3, <1>0 DEF NoStall, LatchInv, PollOpens, Opened
  <2>5. Idle.pc = "idle"
    BY DEF Idle
  <2>6. p.visible \/ p.scanned \/ p.dirty \/ Idle.pc = "scan" => p.known
    BY <2>1, <2>5, <1>0 DEF PageInv
  <2> HIDE DEF p
  <2> QED
    BY <2>1, <2>2, <2>3, <2>4, <2>6, PollEndsInv DEF Opened
<1>4. CASE PollPublish(v)
  <2> DEFINE p == [Present(v) EXCEPT !.known = TRUE, !.visible = TRUE]
  <2>1. /\ p \in PageState /\ p.tick = page[v].tick /\ p.dirty = page[v].dirty
        /\ p.visible /\ p.known
    BY <1>0 DEF PageState, Present
  <2>2. /\ PollEnds(v, p, [pc |-> "scan", unit |-> v]) /\ Spends(v)
        /\ Opened(v)
    BY <1>4 DEF PollPublish, FirstSight, Spends
  <2> HIDE DEF p
  <2> QED
    BY <2>1, <2>2, PollEndsInv DEF Opened
<1>5. ASSUME Missed(v), Stalled(v)
      PROVE  /\ Spends(v)
             /\ wk.pc # "idle" /\ wk.unit = v
             /\ NoStall' => mass[v] = NoDev
  <2>1. mass[v] # NoDev => budget'.stall = budget.stall - 1
    BY <1>5 DEF Stalled, Inv, TypeOK
  <2> QED
    BY <2>1, <1>0, <1>5 DEF Missed, NoStall, Spends
<1>6. CASE PollMiss(v)
  <2> DEFINE p == [page[v] EXCEPT !.miss = @ + 1]
  <2>0. page[v].miss + 1 \in 0 .. HideMisses - 1 /\ page[v].miss + 1 > 0
    BY <1>0, <1>1, <1>6 DEF PollMiss
  <2>1. /\ p \in PageState /\ p.tick = page[v].tick /\ p.dirty = page[v].dirty
        /\ p.visible = page[v].visible /\ p.miss > 0 /\ p.known = page[v].known
    BY <1>0, <2>0 DEF PageState
  <2>2. PollEnds(v, p, Idle) /\ Missed(v) /\ Stalled(v) /\ page[v].visible
    BY <1>6 DEF PollMiss
  <2>3. page[v].known
    BY <2>2, <1>0 DEF PageInv
  <2> HIDE DEF p
  <2> QED
    BY <2>1, <2>2, <2>3, <1>5, PollEndsInv
<1>7. CASE PollHide(v)
  <2> DEFINE p == [page[v] EXCEPT !.visible = FALSE, !.miss = 0]
  <2>1. /\ p \in PageState /\ p.tick = page[v].tick /\ p.dirty = page[v].dirty
        /\ ~p.visible /\ p.known = page[v].known
    BY <1>0 DEF PageState
  <2>2. /\ PollEnds(v, p, [pc |-> "scan", unit |-> v])
        /\ Missed(v) /\ Stalled(v) /\ page[v].visible
    BY <1>7 DEF PollHide
  <2>3. page[v].known
    BY <2>2, <1>0 DEF PageInv
  <2> HIDE DEF p
  <2> QED
    BY <2>1, <2>2, <2>3, <1>5, PollEndsInv
<1>8. CASE PollAbsent(v)
  <2>1. /\ PollEnds(v, page[v], Idle)
        /\ Missed(v) /\ Stalled(v) /\ ~page[v].visible
    BY <1>8 DEF PollAbsent
  <2>2. Idle.pc = "idle"
    BY DEF Idle
  <2>3. page[v].visible \/ page[v].scanned \/ page[v].dirty \/ Idle.pc = "scan"
          => page[v].known
    BY <2>2, <1>0 DEF PageInv
  <2> QED
    BY <2>1, <2>3, <1>0, <1>5, PollEndsInv
<1>9. ASSUME PollScans(v)
      PROVE  /\ page[v].known /\ wk.pc # "idle" /\ wk.unit = v
             /\ (NoStall /\ page[v].tick = BdmGeneration /\ ~UnderWay) =>
                   \/ page[v].visible <=> mass[v] # NoDev
                   \/ page[v].visible /\ page[v].miss > 0
  BY <1>0, <1>9 DEF PageInv, LatchInv, Looked, PollOpens, PollScans
<1>10. CASE PollScan(v)
  <2> DEFINE p == [page[v] EXCEPT !.list = mass[v], !.scanned = TRUE]
  <2>1. /\ p \in PageState /\ p.tick = page[v].tick /\ p.dirty = page[v].dirty
        /\ p.visible = page[v].visible /\ p.known = page[v].known
        /\ p.miss = page[v].miss
    BY <1>0 DEF PageState
  <2>2. PollEnds(v, p, Idle) /\ Spends(v) /\ budget' = budget /\ PollScans(v)
    BY <1>10 DEF PollScan, PollScans, Spends
  <2> HIDE DEF p
  <2>3. NoStall' => NoStall
    BY <2>2 DEF NoStall
  <2> QED
    BY <2>1, <2>2, <2>3, <1>9, PollEndsInv
<1>11. CASE PollScanFailed(v)
  <2>1. PollEnds(v, page[v], Idle) /\ Spends(v) /\ budget' = budget /\ PollScans(v)
    BY <1>11 DEF PollScanFailed, PollScans, Spends
  <2>2. NoStall' => NoStall
    BY <2>1 DEF NoStall
  <2> QED
    BY <2>1, <2>2, <1>0, <1>9, PollEndsInv
<1> QED
  BY <1>2, <1>3, <1>4, <1>6, <1>7, <1>8, <1>10, <1>11 DEF Poll

-----------------------------------------------------------------------------
LEMMA StepInv == ASSUME Inv, [Next]_vars PROVE Inv'
<1>1. ASSUME (bdm_RegisterCallback \/ BdmThread) /\ UNCHANGED eeVars PROVE Inv'
  BY <1>1, RegisterCallbackInv, BdmThreadInv
<1>2. ASSUME Plug PROVE Inv'
  BY <1>2, ConnectInv, DisconnectInv DEF Plug
<1>3. ASSUME UNCHANGED vars PROVE Inv'
  <2>1. UNCHANGED <<g_mount, mass, g_cb, bdm_event, thr, sif, plugged, plugs, fresh>>
        /\ UNCHANGED eeVars
    BY <1>3 DEF vars, eeVars
  <2>2. BdmTypeOK' /\ BootInv'
    BY <2>1 DEF Inv, TypeOK, BdmTypeOK, BootInv, eeVars
  <2>3. UnderWay' = UnderWay
    BY <2>1 DEF UnderWay
  <2> QED
    BY <2>1, <2>2, <2>3, BdmKeeps
<1> QED
  BY <1>1, <1>2, <1>3, SifAddCmdHandlerInv, bdmEventHandlerInv, HookInv,
     UserRefreshInv, ApplySourcesInv, PollStartInv, PollInv DEF Next

LEMMA InvHolds == Spec => []Inv
<1>1. Inv /\ [Next]_vars => Inv'
  BY StepInv
<1> QED
  BY InitInv, <1>1, PTL DEF Spec

(* Every variable of the hot-plug path, from the event flag of bdm.c to the   *)
(* pages of bdmsupport.c, keeps its type, whatever the number of devices,     *)
(* table entries, units and file systems.                                     *)
THEOREM HotPlugTypes == Spec => []TypeOK
<1>1. Inv => TypeOK
  BY DEF Inv
<1> QED
  BY InvHolds, <1>1, PTL

(* No event is lost between bdm.c and the page: as long as every open of a    *)
(* mounted device has succeeded, a page whose latch is closed while nothing   *)
(* is under way shows what is mounted.                                        *)
THEOREM NothingIsMissed == Spec => [](budget.stall = MaxStalls => NothingMissed)
<1>1. ASSUME Inv, budget.stall = MaxStalls, Settled, NEW u \in Units, AlreadyPolled(u)
      PROVE  page[u].visible <=> mass[u] # NoDev
  <2>1. LatchInv(u) /\ page[u] \in PageState
    BY <1>1 DEF Inv, NoStall, TypeOK
  <2>2. ~UnderWay /\ ~PollOpens(u)
    BY <1>1 DEF Settled, UnderWay, PollOpens
  <2>3. Looked(u) /\ page[u].scanned /\ (page[u].visible => page[u].miss = 0)
    BY <1>1, <2>1, <2>2 DEF LatchInv, AlreadyPolled
  <2> QED
    BY <2>1, <2>3 DEF Looked, PageState
<1>2. Inv => (budget.stall = MaxStalls => NothingMissed)
  BY <1>1 DEF NothingMissed
<1> QED
  BY InvHolds, <1>2, PTL

(* A request the I/O queue refused does not eat the rescan of a hot-plug      *)
(* event: as long as SELECT was not pressed, every page has looked in the     *)
(* generation the hook of the menu counts as seen.                            *)
THEOREM RescansAreNotEaten == Spec => []RescanNotEaten
<1>1. ASSUME Inv, budget.refresh = MaxRefreshes, Settled, BdmGeneration # 0,
             NEW u \in Units
      PROVE  page[u].tick = BdmGeneration
  <2>1. ~InQueue(u)
    BY <1>1 DEF Settled, InQueue
  <2> QED
    BY <1>1, <2>1 DEF Inv, RescanInv, NoRefresh, Settled
<1>2. Inv => RescanNotEaten
  BY <1>1 DEF RescanNotEaten
<1> QED
  BY InvHolds, <1>2, PTL

-----------------------------------------------------------------------------
(* bdm_thread will come to entry i: it is to walk, or has not passed it.      *)
Owed(i) ==
  \/ "mount" \in bdm_event
  \/ thr.pc = "scan" /\ thr.i <= i
  \/ thr.pc = "probe" /\ thr.i < i

ForgetInv == \A i \in Table : NeedsMount(i) /\ g_mount[i].bd \in fresh => Owed(i)

(* Entries after the one that bdm_thread leaves are still to come.            *)
LEMMA ScannedOwed ==
  ASSUME thr.i \in Table, thr.pc \in {"scan", "probe"}, thr' = Scanned(thr.i),
         thr \in ThreadState, bdm_event \subseteq bdm_event',
         NEW j \in Table, j # thr.i, Owed(j)
  PROVE  Owed(j)'
<1>1. thr'.pc = "scan" /\ thr'.i = thr.i + 1
  BY DEF Scanned, ThreadState
<1>2. thr.i \in Int /\ j \in Int
  BY DEF Table
<1>3. CASE "mount" \in bdm_event
  BY <1>3 DEF Owed
<1>4. CASE thr.i <= j
  BY <1>1, <1>2, <1>4 DEF Owed
<1> QED
  BY <1>2, <1>3, <1>4 DEF Owed

LEMMA ThreadForgets ==
  ASSUME Inv, ForgetInv, BdmThread PROVE ForgetInv'
<1>0. /\ thr \in ThreadState /\ g_mount \in [Table -> MountEntry]
      /\ thr.pc = "probe" => thr.i \in Table
  BY DEF Inv, TypeOK, BdmTypeOK, BootInv
<1>1. CASE BdmWait
  <2>1. CASE "mount" \in bdm_event
    <3>1. thr'.pc = "scan" /\ thr'.i = 1
      BY <1>1, <2>1 DEF BdmWait, Waiting
    <3> QED
      BY <3>1 DEF ForgetInv, Owed, Table
  <2>2. CASE "mount" \notin bdm_event
    <3>1. \A i \in Table : NeedsMount(i) => g_mount[i].bd \notin fresh
      BY <1>1, <2>2 DEF BdmWait, ForgetInv, Owed
    <3> QED
      BY <1>1, <3>1 DEF BdmWait, ForgetInv, NeedsMount
  <2> QED
    BY <2>1, <2>2
<1>2. CASE BdmSkip
  <2>1. /\ thr.i \in Table /\ ~NeedsMount(thr.i) /\ thr.pc = "scan" /\ thr' = Scanned(thr.i)
        /\ bdm_event' = bdm_event /\ g_mount' = g_mount /\ fresh' = fresh
    BY <1>2 DEF BdmSkip
  <2>2. ASSUME NEW j \in Table, NeedsMount(j), g_mount[j].bd \in fresh PROVE Owed(j)'
    BY <2>1, <2>2, <1>0, ScannedOwed DEF ForgetInv
  <2> QED
    BY <2>1, <2>2 DEF ForgetInv, NeedsMount
<1>3. CASE BdmRefuse
  <2>1. /\ thr.i \in Table /\ thr.pc = "scan" /\ thr' = Scanned(thr.i)
        /\ bdm_event \subseteq bdm_event' /\ fresh' = fresh \ {g_mount[thr.i].bd}
        /\ \A j \in Table : g_mount'[j].bd = g_mount[j].bd /\ g_mount'[j].fs = g_mount[j].fs
    BY <1>3, <1>0 DEF BdmRefuse, MountEntry
  <2>2. ASSUME NEW j \in Table, NeedsMount(j)', g_mount'[j].bd \in fresh' PROVE Owed(j)'
    <3>1. NeedsMount(j) /\ g_mount[j].bd \in fresh /\ j # thr.i
      BY <2>1, <2>2 DEF NeedsMount
    <3> QED
      BY <2>1, <3>1, <1>0, ScannedOwed DEF ForgetInv
  <2> QED
    BY <2>2 DEF ForgetInv
<1>4. CASE BdmProbe
  <2>1. /\ thr.i \in Table /\ thr.pc = "scan" /\ thr'.pc = "probe" /\ thr'.i = thr.i
        /\ bdm_event' = bdm_event /\ g_mount' = g_mount
        /\ fresh' = fresh \ {g_mount[thr.i].bd}
    BY <1>4, <1>0 DEF BdmProbe, ThreadState
  <2>2. ASSUME NEW j \in Table, NeedsMount(j), g_mount[j].bd \in fresh' PROVE Owed(j)'
    <3>1. Owed(j) /\ j # thr.i
      BY <2>1, <2>2 DEF ForgetInv
    <3>2. thr.i \in Int /\ j \in Int
      BY <2>1 DEF Table
    <3> QED
      BY <2>1, <3>1, <3>2 DEF Owed
  <2> QED
    BY <2>1, <2>2 DEF ForgetInv, NeedsMount
<1>5. CASE BdmProbeFailed
  <2>1. /\ bdm_event' = bdm_event /\ g_mount' = g_mount /\ fresh' = fresh
        /\ thr.pc = "probe" /\ thr.i \in Table
    BY <1>5, <1>0 DEF BdmProbeFailed
  <2>2. CASE thr.k < NumFs
    <3>1. thr'.pc = thr.pc /\ thr'.i = thr.i
      BY <1>5, <2>2, <1>0 DEF BdmProbeFailed, ThreadState
    <3> QED
      BY <2>1, <3>1 DEF ForgetInv, Owed, NeedsMount
  <2>3. CASE ~(thr.k < NumFs)
    <3>1. thr' = Scanned(thr.i)
      BY <1>5, <2>3 DEF BdmProbeFailed
    <3>2. ASSUME NEW j \in Table, Owed(j) PROVE Owed(j)'
      <4>1. thr.i \in Int /\ j \in Int
        BY <2>1 DEF Table
      <4>2. CASE j = thr.i
        BY <2>1, <3>2, <4>1, <4>2 DEF Owed
      <4> QED
        BY <2>1, <3>1, <3>2, <4>2, <1>0, ScannedOwed
    <3> QED
      BY <2>1, <3>2 DEF ForgetInv, NeedsMount
  <2> QED
    BY <2>2, <2>3
<1>6. CASE BdmMounted
  <2>1. /\ thr.i \in Table /\ thr.pc = "probe" /\ thr' = Scanned(thr.i)
        /\ bdm_event \subseteq bdm_event' /\ fresh' = fresh
        /\ g_mount' = [g_mount EXCEPT ![thr.i].fs = thr.k]
    BY <1>6, <1>0 DEF BdmMounted
  <2>2. g_mount'[thr.i].fs # 0
    BY <2>1, <1>0, BdmAssumption DEF ThreadState, MountEntry
  <2>3. ASSUME NEW j \in Table, NeedsMount(j)', g_mount'[j].bd \in fresh' PROVE Owed(j)'
    <3>1. j # thr.i
      BY <2>2, <2>3 DEF NeedsMount
    <3>2. NeedsMount(j) /\ g_mount[j].bd \in fresh
      BY <2>1, <2>3, <3>1, <1>0 DEF NeedsMount
    <3> QED
      BY <2>1, <3>1, <3>2, <1>0, ScannedOwed DEF ForgetInv
  <2> QED
    BY <2>3 DEF ForgetInv
<1>7. CASE BdmScanEnd
  <2>1. /\ thr.pc = "scan" /\ thr.i \notin Table
        /\ bdm_event' = bdm_event /\ g_mount' = g_mount /\ fresh' = fresh
    BY <1>7 DEF BdmScanEnd
  <2>2. ASSUME NEW j \in Table, Owed(j) PROVE "mount" \in bdm_event
    BY <2>1, <2>2, <1>0, BdmAssumption DEF Owed, ThreadState, Table
  <2> QED
    BY <2>1, <2>2 DEF ForgetInv, NeedsMount, Owed
<1>8. CASE BdmCallbackMount \/ BdmCallbackUmount
  <2>1. /\ thr.pc \in {"cbMount", "cbUmount"}
        /\ bdm_event' = bdm_event /\ g_mount' = g_mount /\ fresh' = fresh
    BY <1>8 DEF BdmCallbackMount, BdmCallbackUmount, Callback
  <2> QED
    BY <2>1 DEF ForgetInv, NeedsMount, Owed
<1> QED
  BY <1>1, <1>2, <1>3, <1>4, <1>5, <1>6, <1>7, <1>8 DEF BdmThread

(* A driver that connects a device sets the bit; one that disconnects it takes*)
(* it from its entries.                                                       *)
LEMMA PlugForgets ==
  ASSUME Inv, ForgetInv, Plug PROVE ForgetInv'
<1>1. ASSUME NEW d \in Devices, bdm_connect_bd(d) PROVE ForgetInv'
  <2>1. CASE FreeEntries = {}
    BY <1>1, <2>1 DEF bdm_connect_bd, ForgetInv, NeedsMount, Owed
  <2>2. CASE FreeEntries # {}
    BY <1>1, <2>2 DEF bdm_connect_bd, ForgetInv, Owed
  <2> QED
    BY <2>1, <2>2
<1>2. ASSUME NEW d \in Devices, bdm_disconnect_bd(d) PROVE ForgetInv'
  <2>1. /\ bdm_event \subseteq bdm_event' /\ thr' = thr /\ fresh' \subseteq fresh
        /\ \A i \in Table : g_mount'[i] = g_mount[i] \/ g_mount'[i].bd = NoDev
    BY <1>2 DEF bdm_disconnect_bd
  <2>2. ASSUME NEW i \in Table, NeedsMount(i)', g_mount'[i].bd \in fresh' PROVE Owed(i)'
    <3>1. NeedsMount(i) /\ g_mount[i].bd \in fresh
      BY <2>1, <2>2 DEF NeedsMount
    <3> QED
      BY <2>1, <3>1 DEF ForgetInv, Owed
  <2> QED
    BY <2>2 DEF ForgetInv
<1> QED
  BY <1>1, <1>2 DEF Plug

LEMMA ForgetStep ==
  ASSUME Inv, ForgetInv, [Next]_vars PROVE ForgetInv'
<1>1. ASSUME UNCHANGED <<g_mount, bdm_event, thr, fresh>> PROVE ForgetInv'
  BY <1>1 DEF ForgetInv, NeedsMount, Owed
<1>2. CASE bdm_RegisterCallback
  BY <1>2 DEF bdm_RegisterCallback, ForgetInv, NeedsMount, Owed
<1>3. CASE SifAddCmdHandler \/ bdmEventHandler
  BY <1>3, <1>1 DEF SifAddCmdHandler, bdmEventHandler, bdmVars
<1>4. CASE \E a \in SUBSET Units : HookChanged(a) \/ HookIdle(a)
  BY <1>4, <1>1 DEF HookChanged, HookIdle, bdmVars
<1>5. CASE (\E u \in Units : UserRefresh(u)) \/ ApplySources
  BY <1>5, <1>1 DEF UserRefresh, ApplySources, bdmVars
<1>6. CASE PollStart \/ \E u \in Units : Poll(u)
  BY <1>6, <1>1 DEF PollStart, Poll, PollEnds, PollPresent, PollDeferred, PollPublish, PollMiss,
     PollHide, PollAbsent, PollScan, PollScanFailed, bdmVars
<1>7. CASE UNCHANGED vars
  BY <1>7, <1>1 DEF vars
<1> QED
  BY <1>2, <1>3, <1>4, <1>5, <1>6, <1>7, ThreadForgets, PlugForgets DEF Next

(* No device is forgotten: when bdm_thread goes to sleep, every device in an  *)
(* unmarked entry has been offered to a file system, or a connect has set the *)
(* bit that wakes it, wherever in the walk that connect came.                 *)
THEOREM NoneIsForgotten == Spec => []NoneForgotten
<1>1. Init => ForgetInv
  BY DEF Init, BdmInit, ForgetInv
<1>2. Inv /\ ForgetInv /\ [Next]_vars => ForgetInv'
  BY ForgetStep
<1>3. ForgetInv => NoneForgotten
  BY DEF ForgetInv, Owed, NoneForgotten
<1> QED
  BY InvHolds, <1>1, <1>2, <1>3, PTL DEF Spec
=============================================================================
