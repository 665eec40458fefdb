-------------------------------- MODULE Bdm --------------------------------
(* The block device manager on the IOP (src/modules/bdm/src/bdm.c) and the    *)
(* event module behind its callback (src/modules/bdmevent/main.c): drivers    *)
(* connect and disconnect devices from their own threads while bdm_thread,    *)
(* the lowest of them, walks the table, offers each device to the file        *)
(* systems in turn and reports.                                               *)
(*                                                                            *)
(* A driver call is one step: drivers outrank bdm_thread, which can lose the  *)
(* core anywhere, and does while a probe waits for the device.  Devices are   *)
(* whole volumes here: the drivers of partition tables are the file systems   *)
(* that fail on them.                                                         *)
EXTENDS Integers, Sequences, FiniteSets, FiniteSetsExt

CONSTANTS
  Devices,         \* block devices the drivers may offer
  BadDevices,      \* those with sectors of another size than 512 bytes
  NoDev,           \* NULL
  NumUnits,        \* massN: units of the FAT driver, one page each on the EE
  MaxConnections,  \* MAX_CONNECTIONS
  NumFs,           \* file systems registered; the last one is FatFs
  MaxPlugs         \* bound: calls of bdm_connect_bd

ASSUME BdmAssumption ==
  /\ BadDevices \subseteq Devices /\ NoDev \notin Devices
  /\ NumUnits \in Nat \ {0} /\ MaxConnections \in Nat \ {0} /\ NumFs \in Nat \ {0}
  /\ MaxPlugs \in Nat

Units == 1 .. NumUnits
Table == 1 .. MaxConnections
Bits == {"mount", "cbMount", "cbUmount"}

VARIABLES
  g_mount,    \* per table entry [bd, fs, refused]; fs 0 is NULL
  mass,       \* the device behind each massN: unit (state of FatFs)
  g_cb,       \* the callback is registered
  bdm_event,  \* bits of the event flag
  thr,        \* bdm_thread: [pc, bits, i, k, dev]
  sif,        \* packets on their way to the EE: unsupportedSectorCount of each
  plugged,    \* devices whose driver has connected them
  plugs,      \* calls of bdm_connect_bd so far
  fresh       \* history: devices in the table no file system was offered yet

bdmVars == <<g_mount, mass, g_cb, bdm_event, thr, sif, plugged, plugs, fresh>>

Waiting == [pc |-> "wait", bits |-> {}, i |-> 1, k |-> 1, dev |-> NoDev]

BdmInit ==
  /\ g_mount = [i \in Table |-> [bd |-> NoDev, fs |-> 0, refused |-> FALSE]]
  /\ mass = [u \in Units |-> NoDev]
  /\ g_cb = FALSE
  /\ bdm_event = {} /\ thr = Waiting
  /\ sif = <<>>
  /\ plugged = {} /\ plugs = 0 /\ fresh = {}

(* SetEventFlag for a callback bit: only when there is a callback.            *)
Notify(bit) == IF g_cb THEN {bit} ELSE {}

-----------------------------------------------------------------------------
(* Calls of the drivers and of bdmevent                                       *)

bdm_RegisterCallback ==
  /\ ~g_cb
  /\ g_cb' = TRUE
  /\ bdm_event' = IF \E i \in Table : /\ g_mount[i].bd # NoDev
                                      /\ g_mount[i].fs # 0 \/ g_mount[i].refused
                  THEN bdm_event \cup {"cbMount"} ELSE bdm_event
  /\ UNCHANGED <<g_mount, mass, thr, sif, plugged, plugs, fresh>>

FreeEntries == {i \in Table : g_mount[i].bd = NoDev}

(* A full table drops the device without a word; the fs member of the entry   *)
(* keeps what it held.                                                        *)
bdm_connect_bd(d) ==
  /\ d \notin plugged /\ plugs < MaxPlugs
  /\ plugged' = plugged \cup {d} /\ plugs' = plugs + 1
  /\ IF FreeEntries = {}
       THEN UNCHANGED <<g_mount, bdm_event, fresh>>
       ELSE /\ g_mount' = [g_mount EXCEPT ![Min(FreeEntries)].bd = d,
                                          ![Min(FreeEntries)].refused = FALSE]
            /\ bdm_event' = bdm_event \cup {"mount"}
            /\ fresh' = fresh \cup {d}
  /\ UNCHANGED <<mass, g_cb, thr, sif>>

(* Also while the device is being probed.                                     *)
bdm_disconnect_bd(d) ==
  LET entries == {i \in Table : g_mount[i].bd = d} IN
  /\ d \in plugged
  /\ plugged' = plugged \ {d}
  /\ mass' = [u \in Units |->
                IF mass[u] = d /\ \E i \in entries : g_mount[i].fs # 0
                THEN NoDev ELSE mass[u]]
  /\ g_mount' = [i \in Table |->
                   IF i \in entries
                   THEN [bd |-> NoDev, fs |-> 0, refused |-> FALSE]
                   ELSE g_mount[i]]
  /\ bdm_event' = IF entries = {} THEN bdm_event
                  ELSE bdm_event \cup Notify("cbUmount")
  /\ fresh' = fresh \ {d}
  /\ UNCHANGED <<g_cb, thr, sif, plugs>>

-----------------------------------------------------------------------------
(* bdm_thread                                                                 *)

(* WaitEventFlag(WEF_OR | WEF_CLEAR)                                          *)
BdmWait ==
  /\ thr.pc = "wait" /\ bdm_event # {}
  /\ thr' = [Waiting EXCEPT !.bits = bdm_event,
                            !.pc = IF "mount" \in bdm_event THEN "scan"
                                   ELSE "cbMount"]
  /\ bdm_event' = {}
  /\ UNCHANGED <<g_mount, mass, g_cb, sif, plugged, plugs, fresh>>

Scanned(i) == [thr EXCEPT !.pc = "scan", !.i = i + 1, !.k = 1, !.dev = NoDev]

NeedsMount(i) == g_mount[i].bd # NoDev /\ g_mount[i].fs = 0

BdmSkip ==
  /\ thr.pc = "scan" /\ thr.i \in Table /\ ~NeedsMount(thr.i)
  /\ thr' = Scanned(thr.i)
  /\ UNCHANGED <<g_mount, mass, g_cb, bdm_event, sif, plugged, plugs, fresh>>

(* bdm_try_mount on a device with unsupported sectors.                        *)
BdmRefuse ==
  /\ thr.pc = "scan" /\ thr.i \in Table /\ NeedsMount(thr.i)
  /\ g_mount[thr.i].bd \in BadDevices
  /\ g_mount' = [g_mount EXCEPT ![thr.i].refused = TRUE]
  /\ bdm_event' = IF g_mount[thr.i].refused THEN bdm_event
                  ELSE bdm_event \cup Notify("cbMount")
  /\ fresh' = fresh \ {g_mount[thr.i].bd}
  /\ thr' = Scanned(thr.i)
  /\ UNCHANGED <<mass, g_cb, sif, plugged, plugs>>

BdmProbe ==
  /\ thr.pc = "scan" /\ thr.i \in Table /\ NeedsMount(thr.i)
  /\ g_mount[thr.i].bd \notin BadDevices
  /\ thr' = [thr EXCEPT !.pc = "probe", !.k = 1, !.dev = g_mount[thr.i].bd]
  /\ fresh' = fresh \ {g_mount[thr.i].bd}
  /\ UNCHANGED <<g_mount, mass, g_cb, bdm_event, sif, plugged, plugs>>

(* connect_bd of file system k returns an error: the next one is offered      *)
(* whatever the table entry holds by then.                                    *)
BdmProbeFailed ==
  /\ thr.pc = "probe"
  /\ thr' = IF thr.k < NumFs
              THEN [thr EXCEPT !.k = @ + 1, !.dev = g_mount[thr.i].bd]
              ELSE Scanned(thr.i)
  /\ UNCHANGED <<g_mount, mass, g_cb, bdm_event, sif, plugged, plugs, fresh>>

FreeUnits == {u \in Units : mass[u] = NoDev}

(* FatFs takes the device: the entry is marked whatever it holds by then.     *)
BdmMounted ==
  /\ thr.pc = "probe" /\ thr.k = NumFs /\ thr.dev # NoDev
  /\ FreeUnits # {}
  /\ mass' = [mass EXCEPT ![Min(FreeUnits)] = thr.dev]
  /\ g_mount' = [g_mount EXCEPT ![thr.i].fs = thr.k]
  /\ bdm_event' = bdm_event \cup Notify("cbMount")
  /\ thr' = Scanned(thr.i)
  /\ UNCHANGED <<g_cb, sif, plugged, plugs, fresh>>

(* Mutant: what arrived during the walk is cleared at its end.                *)
BdmScanEndCleared ==
  /\ thr.pc = "scan" /\ thr.i \notin Table
  /\ thr' = [thr EXCEPT !.pc = "cbMount"]
  /\ bdm_event' = {}
  /\ UNCHANGED <<g_mount, mass, g_cb, sif, plugged, plugs, fresh>>

BdmScanEnd ==
  /\ thr.pc = "scan" /\ thr.i \notin Table
  /\ thr' = [thr EXCEPT !.pc = "cbMount"]
  /\ UNCHANGED <<g_mount, mass, g_cb, bdm_event, sif, plugged, plugs, fresh>>

(* bdm_diag_fill_snapshot: the refused devices in the table.                  *)
unsupportedSectorCount == Cardinality({i \in Table : g_mount[i].bd \in BadDevices})

(* bdm_callback, once for each of the two bits.                               *)
Callback(bit, next) ==
  /\ thr.pc = bit
  /\ sif' = IF bit \in thr.bits /\ g_cb THEN Append(sif, unsupportedSectorCount)
            ELSE sif
  /\ thr' = next
  /\ UNCHANGED <<g_mount, mass, g_cb, bdm_event, plugged, plugs, fresh>>

BdmCallbackMount == Callback("cbMount", [thr EXCEPT !.pc = "cbUmount"])
BdmCallbackUmount == Callback("cbUmount", Waiting)

BdmThread ==
  \/ BdmWait \/ BdmSkip \/ BdmRefuse \/ BdmProbe \/ BdmProbeFailed \/ BdmMounted
  \/ BdmScanEnd \/ BdmCallbackMount \/ BdmCallbackUmount

MountEntry == [bd : Devices \cup {NoDev}, fs : 0 .. NumFs, refused : BOOLEAN]
ThreadState == [pc : {"wait", "scan", "probe", "cbMount", "cbUmount"},
                bits : SUBSET Bits, i : 1 .. MaxConnections + 1, k : 1 .. NumFs,
                dev : Devices \cup {NoDev}]

BdmTypeOK ==
  /\ g_mount \in [Table -> MountEntry]
  /\ mass \in [Units -> Devices \cup {NoDev}]
  /\ g_cb \in BOOLEAN
  /\ bdm_event \in SUBSET Bits
  /\ thr \in ThreadState
  /\ sif \in Seq(0 .. MaxConnections)
  /\ plugged \in SUBSET Devices /\ plugs \in 0 .. MaxPlugs
  /\ fresh \in SUBSET Devices
=============================================================================
