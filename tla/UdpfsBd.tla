------------------------------ MODULE UdpfsBd ------------------------------
(* The UDPFS block device (src/modules/network/udpfs_bd/src/udpfs_bd.c) on    *)
(* top of UdpRdma: a watchdog finds the server, asks for the capacity and     *)
(* registers the device with the block device manager; the file systems above *)
(* read and write through it; when the session is down the watchdog withdraws *)
(* the device and starts over.                                                *)
(*                                                                            *)
(* One thread is inside the transport at a time: the file systems only call   *)
(* while the device is registered, the watchdog only while the session is     *)
(* down, and a session goes down at the very end of the call that loses it.   *)
EXTENDS UdpRdma

CONSTANT Requests  \* bound: requests of the file systems

ASSUME RequestsAssumption == Requests \in Nat

VARIABLES
  owner,       \* who is inside the transport: "none", "watchdog", "reader"
  registered,  \* g_udpfs_registered
  calls        \* requests of the file systems so far

bdVars == <<owner, registered, calls>>
vars == <<rdmaVars, bdVars>>

Init ==
  /\ RdmaInit
  /\ owner = "none" /\ registered = FALSE /\ calls = 0

(* udpfs_bd_watchdog: outside any callback                                    *)
WatchdogRelease ==
  /\ owner = "none" /\ state # "connected" /\ registered
  /\ registered' = FALSE
  /\ UNCHANGED <<rdmaVars, owner, calls>>

(* udpfs_bd_try_connect, also the one of udpfs_bd_init                        *)
TryConnect ==
  /\ owner = "none" /\ state # "connected" /\ ~registered
  /\ owner' = "watchdog"
  /\ DiscoverBegin
  /\ UNCHANGED <<registered, calls>>

(* udpfs_core_get_sector_count: one packet each way                           *)
GetSectorCount ==
  /\ owner = "watchdog" /\ pc = "ok" /\ job.id = 0
  /\ Request("getstat", 1, 1)
  /\ UNCHANGED bdVars

Return == /\ pc' = "idle" /\ owner' = "none"
          /\ tries' = 0 /\ job' = NoJob /\ heard' = {}
          /\ got' = IF rx.buffer = 0 THEN <<>> ELSE got
          /\ UNCHANGED <<state, tx, rx, bits, alarm, woke, wireVars, srv, budget, done,
                         session, fresh>>

(* bdm_connect_bd; an error of the server makes no device, and a reply that    *)
(* was never filled in (it is not initialized) or is another request's may     *)
(* look like either.                                                           *)
Connected ==
  /\ owner = "watchdog" /\ pc = "ok" /\ job.id # 0
  /\ registered' \in IF got # <<>> /\ got[1].id = job.id THEN {~got[1].error} ELSE BOOLEAN
  /\ Return /\ UNCHANGED calls

NotConnected ==
  /\ owner = "watchdog" /\ pc = "failed"
  /\ Return /\ UNCHANGED <<registered, calls>>

(* udpfs_bd_read: the sectors come as one answer; udpfs_bd_write: the sectors *)
(* go as chunks and WRITE_DONE comes back.                                    *)
Call(kind, chunks, packets) ==
  /\ owner = "none" /\ registered /\ calls < Requests
  /\ pc = "idle"
  /\ owner' = "reader" /\ calls' = calls + 1
  /\ Request(kind, chunks, packets)
  /\ UNCHANGED registered

BdRead == Call("bread", 1, MaxPackets)
BdWrite == Call("bwrite", MaxChunks, 1)

(* Sectors, a server error or -EIO: no teardown inside the callback           *)
CallReturns ==
  /\ owner = "reader" /\ pc \in {"ok", "failed"}
  /\ Return /\ UNCHANGED <<registered, calls>>

Watchdog == WatchdogRelease \/ TryConnect \/ GetSectorCount \/ Connected \/ NotConnected

Next == \/ Watchdog \/ BdRead \/ BdWrite \/ CallReturns
        \/ RdmaStep /\ UNCHANGED bdVars

Spec == Init /\ [][Next]_vars

(* The file systems need not call.                                            *)
FairSpec == Spec /\ RdmaFairness /\ WF_vars(Watchdog) /\ WF_vars(CallReturns)

-----------------------------------------------------------------------------
TypeOK == /\ RdmaTypeOK
          /\ owner \in {"none", "watchdog", "reader"}
          /\ registered \in BOOLEAN /\ calls \in 0 .. Requests


(* Every call of the transport ends, with an answer or with an error.         *)
CallsEnd == owner # "none" ~> owner = "none"

(* "keep the bound socket; the watchdog will retry": while there is no device *)
(* the watchdog goes on trying.                                               *)
WatchdogRetries == owner = "none" /\ ~registered ~> owner = "watchdog"
=============================================================================
