------------------------------ MODULE HotPlug ------------------------------
(* How a device plugged into the console becomes a page of the menu: BDM on   *)
(* the IOP (module Bdm), its event packet, the generation counter on the EE,  *)
(* the menu's frame hook that turns a new generation into I/O requests        *)
(* (src/src/opl.c, menuUpdateHook) and the poll each request runs on the I/O  *)
(* worker (src/src/bdmsupport.c, bdmNeedsUpdate and bdmUpdateDeviceData).     *)
(* BDM start mode is Auto, the transports are enabled and the pages show      *)
(* their disc view.                                                           *)
EXTENDS Bdm

CONSTANTS HideMisses,   \* polls a page outlives its device (hideThreshold)
          MaxStalls,    \* bound: opens that fail although the device is mounted
          MaxRefreshes, \* bound: SELECT presses
          MaxApplies,   \* bound: Game Sources applied
          MaxPresses    \* bound: the two together

ASSUME HotPlugAssumption ==
  /\ HideMisses \in Nat \ {0}
  /\ MaxStalls \in Nat /\ MaxRefreshes \in Nat /\ MaxApplies \in Nat
  /\ MaxPresses \in Nat

VARIABLES
  armed,                       \* SifAddCmdHandler was called
  BdmGeneration,
  BdmUnsupportedSectorDrives, BdmUnsupportedSectorReported,
  lastSeenBdmGeneration,       \* of menuUpdateHook
  ioq,                         \* deferred updates in the I/O queue, by unit
  wk,                          \* the I/O worker: [pc, unit]
  page,                        \* per unit: the page and its bdm_device_data_t
  budget                       \* what is left of the bounds

eeVars == <<armed, BdmGeneration, BdmUnsupportedSectorDrives,
            BdmUnsupportedSectorReported, lastSeenBdmGeneration, ioq, wk, page,
            budget>>
vars == <<g_mount, mass, g_cb, bdm_event, thr, sif, plugged, plugs, fresh,
          armed, BdmGeneration, BdmUnsupportedSectorDrives,
          BdmUnsupportedSectorReported, lastSeenBdmGeneration, ioq, wk, page,
          budget>>

(* tick: bdmDeviceTick; known: root, driver and type are filled in; scanned:  *)
(* bdmULSizePrev is not -2; list: the device the published list was read      *)
(* from; dirty: libViewMarkDirty.                                             *)
NewPage == [tick |-> -1, visible |-> FALSE, known |-> FALSE, scanned |-> FALSE,
            miss |-> 0, list |-> NoDev, dirty |-> FALSE]

Idle == [pc |-> "idle", unit |-> 1]

Init ==
  /\ BdmInit
  /\ armed = FALSE
  /\ BdmGeneration = 0 /\ lastSeenBdmGeneration = 0
  /\ BdmUnsupportedSectorDrives = 0 /\ BdmUnsupportedSectorReported = 0
  /\ ioq = <<>> /\ wk = Idle
  /\ page = [u \in Units |-> NewPage]
  /\ budget = [stall |-> MaxStalls, refresh |-> MaxRefreshes, apply |-> MaxApplies]

bdmSlotIdentified(u) == page[u].known /\ page[u].scanned

-----------------------------------------------------------------------------
(* bdmLoadCoreModules loads bdmevent, which registers its callback, and then  *)
(* installs the handler: a packet that finds no handler is lost.              *)
SifAddCmdHandler ==
  /\ g_cb /\ ~armed
  /\ armed' = TRUE
  /\ UNCHANGED <<bdmVars, BdmGeneration, BdmUnsupportedSectorDrives,
                 BdmUnsupportedSectorReported, lastSeenBdmGeneration, ioq, wk,
                 page, budget>>

bdmEventHandler ==
  /\ sif # <<>>
  /\ sif' = Tail(sif)
  /\ IF armed THEN /\ BdmUnsupportedSectorDrives' = Head(sif)
                   /\ BdmGeneration' = BdmGeneration + 1
              ELSE UNCHANGED <<BdmUnsupportedSectorDrives, BdmGeneration>>
  /\ UNCHANGED <<g_mount, mass, g_cb, bdm_event, thr, plugged, plugs, fresh,
                 armed, BdmUnsupportedSectorReported, lastSeenBdmGeneration,
                 ioq, wk, page, budget>>

(* The drivers of block devices are loaded after the handler is installed.    *)
(* Mutant: before it.                                                         *)
DriversLoadedFirst == TRUE
DriversLoaded == armed

Plug ==
  /\ \/ \E d \in Devices : DriversLoaded /\ bdm_connect_bd(d)
     \/ \E d \in Devices : bdm_disconnect_bd(d)
  /\ UNCHANGED eeVars

-----------------------------------------------------------------------------
(* The GUI thread                                                             *)

QueueEmpty == armed /\ ioq = <<>> /\ wk.pc = "idle"

(* One deferred update for each of these units, in the order of their modes.  *)
Requests(accepted) ==
  {s \in [1 .. Cardinality(accepted) -> accepted] :
     /\ \A u \in accepted : \E i \in DOMAIN s : s[i] = u
     /\ \A i, j \in DOMAIN s : i < j => s[i] < s[j]}

(* menuUpdateHook finds a new generation: one request for every page, and the *)
(* generation counts as seen only when all of them were accepted.             *)
(* Mutant: it counts as seen in any case.                                     *)
HookChangedConsumed(accepted) ==
  /\ QueueEmpty /\ BdmGeneration # lastSeenBdmGeneration
  /\ ioq' \in Requests(accepted)
  /\ lastSeenBdmGeneration' = BdmGeneration
  /\ UNCHANGED <<bdmVars, armed, BdmGeneration, BdmUnsupportedSectorDrives,
                 BdmUnsupportedSectorReported, wk, page, budget>>

HookChanged(accepted) ==
  /\ QueueEmpty /\ BdmGeneration # lastSeenBdmGeneration
  /\ ioq' \in Requests(accepted)
  /\ lastSeenBdmGeneration' = IF accepted = Units THEN BdmGeneration
                              ELSE lastSeenBdmGeneration
  /\ UNCHANGED <<bdmVars, armed, BdmGeneration, BdmUnsupportedSectorDrives,
                 BdmUnsupportedSectorReported, wk, page, budget>>

(* The steady-state probes of an idle menu: how often a page gets one depends *)
(* on whether it ever had a device (bdmSlotEverConnected) and on throttles.   *)
HookIdle(accepted) ==
  /\ QueueEmpty /\ BdmGeneration = lastSeenBdmGeneration
  /\ ioq' \in Requests(accepted)
  /\ UNCHANGED <<bdmVars, armed, BdmGeneration, BdmUnsupportedSectorDrives,
                 BdmUnsupportedSectorReported, lastSeenBdmGeneration, wk, page,
                 budget>>

Presses == (MaxRefreshes - budget.refresh) + (MaxApplies - budget.apply)

(* SELECT on a page (itemExecRefresh).                                        *)
UserRefresh(u) ==
  /\ page[u].visible /\ budget.refresh > 0 /\ Presses < MaxPresses
  /\ page' = [page EXCEPT ![u].dirty = TRUE]
  /\ ioq' \in {ioq, Append(ioq, u)}
  /\ budget' = [budget EXCEPT !.refresh = @ - 1]
  /\ UNCHANGED <<bdmVars, armed, BdmGeneration, BdmUnsupportedSectorDrives,
                 BdmUnsupportedSectorReported, lastSeenBdmGeneration, wk>>

(* Game Sources applied: bdmForceDeviceRefresh, then bdmInitDevicesData.      *)
ApplySources ==
  /\ armed /\ budget.apply > 0 /\ Presses < MaxPresses
  /\ BdmGeneration' = BdmGeneration + 1
  /\ page' = [u \in Units |->
                [page[u] EXCEPT !.tick = -1,
                                !.visible = @ /\ bdmSlotIdentified(u)]]
  /\ budget' = [budget EXCEPT !.apply = @ - 1]
  /\ UNCHANGED <<bdmVars, armed, BdmUnsupportedSectorDrives,
                 BdmUnsupportedSectorReported, lastSeenBdmGeneration, ioq, wk>>

-----------------------------------------------------------------------------
(* The I/O worker: menuDeferredUpdate for one page                            *)

(* bdmNeedsUpdate up to the generation latch: the page is left alone, scanned *)
(* at once, or its device is looked at.                                       *)
(* Mutant: the grace window of a page that misses its device is forgotten.    *)
AlreadyPolledGrace(u) ==
  /\ page[u].tick = BdmGeneration /\ page[u].scanned

AlreadyPolled(u) ==
  /\ page[u].tick = BdmGeneration /\ page[u].scanned
  /\ page[u].visible => page[u].miss = 0

PollStart ==
  /\ wk.pc = "idle" /\ ioq # <<>>
  /\ LET u == Head(ioq) IN
     /\ ioq' = Tail(ioq)
     /\ \/ /\ page[u].dirty
           /\ page' = [page EXCEPT ![u].dirty = FALSE]
           /\ wk' = [pc |-> "scan", unit |-> u]
        \/ /\ ~page[u].dirty /\ AlreadyPolled(u)
           /\ UNCHANGED <<page, wk>>
        \/ /\ ~page[u].dirty /\ ~AlreadyPolled(u)
           /\ page' = [page EXCEPT ![u].tick = BdmGeneration]
           /\ wk' = [pc |-> "open", unit |-> u]
  /\ BdmUnsupportedSectorReported' = BdmUnsupportedSectorDrives
  /\ UNCHANGED <<bdmVars, armed, BdmGeneration, BdmUnsupportedSectorDrives,
                 lastSeenBdmGeneration, budget>>

(* Mutant: the latch closes when the poll ends.                               *)
PollEndsLatched(u, changes, next) ==
  /\ page' = [page EXCEPT ![u] = [changes EXCEPT !.tick = BdmGeneration]]
  /\ wk' = next
  /\ UNCHANGED <<bdmVars, armed, BdmGeneration, BdmUnsupportedSectorDrives,
                 BdmUnsupportedSectorReported, lastSeenBdmGeneration, ioq>>

PollEnds(u, changes, next) ==
  /\ page' = [page EXCEPT ![u] = changes]
  /\ wk' = next
  /\ UNCHANGED <<bdmVars, armed, BdmGeneration, BdmUnsupportedSectorDrives,
                 BdmUnsupportedSectorReported, lastSeenBdmGeneration, ioq>>

Opened(u) == wk.pc = "open" /\ wk.unit = u /\ mass[u] # NoDev
Missed(u) == wk.pc = "open" /\ wk.unit = u /\ (mass[u] = NoDev \/ budget.stall > 0)
Stalled(u) == budget' = IF mass[u] = NoDev THEN budget
                        ELSE [budget EXCEPT !.stall = @ - 1]
Present(u) == [page[u] EXCEPT !.miss = 0]

(* bdmUpdateDeviceData: the open succeeds on a page that needs nothing, or    *)
(* whose device is taken to be the one it knew (no rescan).                   *)
PollPresent(u) ==
  /\ Opened(u)
  /\ IF page[u].visible THEN page[u].known ELSE bdmSlotIdentified(u)
  /\ PollEnds(u, [Present(u) EXCEPT !.visible = TRUE], Idle)
  /\ UNCHANGED budget

FirstSight(u) ==
  /\ Opened(u)
  /\ IF page[u].visible THEN ~page[u].known ELSE ~bdmSlotIdentified(u)

(* First sight: the driver may not answer yet, and publication waits.         *)
PollDeferred(u) ==
  /\ FirstSight(u)
  /\ PollEnds(u, Present(u), Idle)
  /\ UNCHANGED budget

PollPublish(u) ==
  /\ FirstSight(u)
  /\ PollEnds(u, [Present(u) EXCEPT !.known = TRUE, !.visible = TRUE],
              [pc |-> "scan", unit |-> u])
  /\ UNCHANGED budget

(* The open fails on a visible page: it is kept for HideMisses - 1 polls.     *)
(* Mutant: for one more.                                                      *)
PollMissOnceMore(u) ==
  /\ Missed(u) /\ Stalled(u)
  /\ page[u].visible /\ page[u].miss + 1 <= HideMisses
  /\ PollEnds(u, [page[u] EXCEPT !.miss = @ + 1], Idle)

PollMiss(u) ==
  /\ Missed(u) /\ Stalled(u)
  /\ page[u].visible /\ page[u].miss + 1 < HideMisses
  /\ PollEnds(u, [page[u] EXCEPT !.miss = @ + 1], Idle)

PollHide(u) ==
  /\ Missed(u) /\ Stalled(u)
  /\ page[u].visible /\ page[u].miss + 1 >= HideMisses
  /\ PollEnds(u, [page[u] EXCEPT !.visible = FALSE, !.miss = 0],
              [pc |-> "scan", unit |-> u])

PollAbsent(u) ==
  /\ Missed(u) /\ Stalled(u)
  /\ ~page[u].visible
  /\ PollEnds(u, page[u], Idle)

(* sbReadList: a scan that reads nothing keeps the list it had.               *)
PollScan(u) ==
  /\ wk.pc = "scan" /\ wk.unit = u
  /\ mass[u] # NoDev
  /\ PollEnds(u, [page[u] EXCEPT !.list = mass[u], !.scanned = TRUE], Idle)
  /\ UNCHANGED budget
PollScanFailed(u) ==
  /\ wk.pc = "scan" /\ wk.unit = u
  /\ PollEnds(u, page[u], Idle)
  /\ UNCHANGED budget

Poll(u) ==
  \/ PollPresent(u) \/ PollDeferred(u) \/ PollPublish(u) \/ PollMiss(u)
  \/ PollHide(u) \/ PollAbsent(u) \/ PollScan(u) \/ PollScanFailed(u)

-----------------------------------------------------------------------------
Next ==
  \/ (bdm_RegisterCallback \/ BdmThread) /\ UNCHANGED eeVars
  \/ Plug
  \/ SifAddCmdHandler \/ bdmEventHandler
  \/ \E a \in SUBSET Units : HookChanged(a)
  \/ \E a \in SUBSET Units : HookIdle(a)
  \/ \E u \in Units : UserRefresh(u)
  \/ ApplySources
  \/ PollStart \/ \E u \in Units : Poll(u)

Spec == Init /\ [][Next]_vars

(* Fairness.  bdm_thread, the worker and the packets make progress; the boot  *)
(* completes; the menu is left alone often enough for the hook to run, and    *)
(* not every request it makes is refused; a mounted device answers the        *)
(* identity ioctl in the end.  Nobody has to plug, unplug or press anything.  *)
Fairness ==
  /\ WF_vars(BdmThread /\ UNCHANGED eeVars)
  /\ WF_vars(bdm_RegisterCallback /\ UNCHANGED eeVars) /\ WF_vars(SifAddCmdHandler)
  /\ WF_vars(bdmEventHandler)
  /\ WF_vars(PollStart)
  /\ SF_vars(HookChanged(Units)) /\ SF_vars(HookIdle(Units))
  /\ \A u \in Units : WF_vars(Poll(u)) /\ SF_vars(PollPublish(u))

FairSpec == Spec /\ Fairness

-----------------------------------------------------------------------------
(* Properties                                                                 *)

PageState == [tick : Nat \cup {-1}, visible : BOOLEAN, known : BOOLEAN,
              scanned : BOOLEAN, miss : 0 .. HideMisses - 1,
              list : Devices \cup {NoDev}, dirty : BOOLEAN]

TypeOK ==
  /\ BdmTypeOK
  /\ armed \in BOOLEAN
  /\ BdmGeneration \in Nat /\ lastSeenBdmGeneration \in Nat
  /\ BdmUnsupportedSectorDrives \in 0 .. MaxConnections
  /\ BdmUnsupportedSectorReported \in 0 .. MaxConnections
  /\ ioq \in Seq(Units)
  /\ wk \in [pc : {"idle", "open", "scan"}, unit : Units]
  /\ page \in [Units -> PageState]
  /\ budget \in [stall : 0 .. MaxStalls, refresh : 0 .. MaxRefreshes,
                 apply : 0 .. MaxApplies]

(* Nothing is under way between the driver's call and the page.               *)
Settled ==
  /\ armed /\ thr.pc = "wait" /\ bdm_event = {} /\ sif = <<>>
  /\ BdmGeneration = lastSeenBdmGeneration
  /\ ioq = <<>> /\ wk.pc = "idle"

(* No hot-plug event is lost on its way from bdm.c to the page: when nothing  *)
(* is under way, a page whose poll latch is closed (bdmNeedsUpdate would not  *)
(* look again) agrees with what is mounted.                                   *)
NothingMissed ==
  Settled => \A u \in Units :
    AlreadyPolled(u) => (page[u].visible <=> mass[u] # NoDev)

(* The one immediate rescan of a hot-plug event is not eaten by a request the *)
(* I/O queue refused (menuUpdateHook): once the hook counts the event as seen *)
(* and the queue is empty, every page has looked since, as long as SELECT was *)
(* never pressed (one whose own request was refused spends the page's next    *)
(* request on its rescan).                                                    *)
RescanNotEaten ==
  (Settled /\ BdmGeneration # 0 /\ budget.refresh = MaxRefreshes) =>
    \A u \in Units : page[u].tick = BdmGeneration

(* bdm.c: every device that a driver connects and that finds a place in the   *)
(* table is offered to the file systems (or refused).                         *)
EveryDeviceTried == \A d \in Devices : (d \in fresh) ~> (d \notin fresh)

(* bdm.c: bdm_thread does not go to sleep on a device that was connected while*)
(* it walked the table and never offered to a file system.  The devices that  *)
(* break EveryDeviceTried sit in an entry that was marked before they came.   *)
NoneForgotten ==
  thr.pc = "wait" /\ "mount" \notin bdm_event =>
    \A i \in Table : NeedsMount(i) => g_mount[i].bd \notin fresh

(* Once a unit stays as it is, its page is shown or hidden accordingly.       *)
PageFollowsDevice ==
  \A u \in Units :
    /\ <>[](mass[u] # NoDev) => <>[](page[u].visible)
    /\ <>[](mass[u] = NoDev) => <>[](~page[u].visible)

(* The number of refused drives the user is told about becomes the number of  *)
(* refused drives that are connected (bdmReportUnsupportedDrives), once       *)
(* bdm_try_mount has been called for each of them.                            *)
RefusedReported ==
  <>[](fresh \cap BadDevices = {} =>
         BdmUnsupportedSectorReported = unsupportedSectorCount)

(* bdmsupport.c: a page that is restored as it was shows the list of the      *)
(* device that is mounted.                                                    *)
ListIsDevices ==
  Settled => \A u \in Units :
    (page[u].visible /\ page[u].list # NoDev /\ mass[u] # NoDev)
      => page[u].list = mass[u]
=============================================================================
