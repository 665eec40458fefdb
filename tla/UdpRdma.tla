------------------------------ MODULE UdpRdma ------------------------------
(* The UDPRDMA client of the IOP (src/modules/network/udpfs_shared/src/       *)
(* udprdma.c) and the UDPFS server of this repository (udpfs_server.py):      *)
(* discovery, stop-and-wait requests and a Go-Back-N answer over UDP.  The    *)
(* calling thread, the interrupt service (_ist) that takes packets off the    *)
(* wire and the alarm act on one socket; the server is one thread.  The wire  *)
(* loses, repeats and reorders.                                               *)
(*                                                                            *)
(* A request (udpfs_core.c) arms the receive buffer, sends its chunks one by  *)
(* one, each until acknowledged, and then receives the packets of the answer. *)
(* Payload is what a property must tell apart: which request, which part.     *)
EXTENDS Integers, Sequences, FiniteSets

CONSTANTS
  Mod,          \* sequence numbers, 4096 in the code
  MaxRetries,   \* UDPRDMA_MAX_RETRIES
  RxAckWindow,  \* UDPRDMA_RX_ACK_WINDOW
  SendWindow,   \* SEND_WINDOW of the server
  MaxWindowRetries,  \* MAX_WINDOW_RETRIES of the server
  MaxChunks,    \* packets of a long request
  MaxPackets,   \* packets of a long answer
  Faults,       \* bound: a lost packet counts one, a packet delivered twice or a
                \* timer that beats a packet counts two
  Errors        \* bound: requests the server answers with an error

ASSUME RdmaAssumption ==
  /\ Mod \in Nat /\ Mod % 2 = 0 /\ Mod > 2 * MaxPackets /\ Mod > 2 * MaxChunks
  /\ MaxRetries \in Nat \ {0} /\ RxAckWindow \in Nat \ {0}
  /\ SendWindow \in Nat \ {0} /\ RxAckWindow <= SendWindow
  /\ MaxWindowRetries \in Nat \ {0}
  /\ MaxChunks \in Nat \ {0} /\ MaxPackets \in Nat \ {0}
  /\ Faults \in Nat /\ Errors \in Nat

VARIABLES
  state,         \* of the socket
  tx,            \* [seq_nr, acked]: tx_seq_nr, tx_seq_nr_acked
  rx,            \* [buffer, size, expected, window, nacked]; buffer: whose, 0 is NULL
  got,           \* what _ist has put into the buffer
  bits,          \* the event flag
  alarm,         \* the alarm is set
  pc,            \* where the calling thread is
  woke,          \* the bits its last WaitEventFlag returned
  tries,         \* retries of the loop it is in
  job,           \* the request: [id, kind, chunks, packets, chunk]; id 0: discovery
  toServer, toClient,  \* packets under way
  srv,           \* the server, see NewServer
  budget,        \* what is left of Faults and Errors
  done,          \* history: requests answered
  session,       \* history: parity of the sessions
  fresh,         \* history: the session began clean, see StartsOver
  heard          \* history: chunks of this request the server took

sockVars == <<state, tx, rx, got>>
callVars == <<pc, woke, tries, job>>
wireVars == <<toServer, toClient>>
histVars == <<done, session, fresh, heard>>
rdmaVars == <<sockVars, bits, alarm, callVars, wireVars, srv, budget, histVars>>

Next1(n) == (n + 1) % Mod
Prev(n) == (n + Mod - 1) % Mod


(* Cumulative: the forward half of the ring covers the packet sent.           *)
udprdma_ack_covers(acknowledged, sent) == (acknowledged + Mod - sent) % Mod < Mod \div 2

NewTx == [seq_nr |-> 0, acked |-> Mod - 1]
NewRx == [buffer |-> 0, size |-> 0, expected |-> 0, window |-> 0, nacked |-> FALSE]
NoJob == [id |-> 0, kind |-> "none", chunks |-> 0, packets |-> 0, chunk |-> 0]

(* rx_seq_nr_expected; the answer in the making: the request and the sequence *)
(* number it answers, its first sequence number, how many packets it has and  *)
(* how many are sent; tx_seq_nr_acked; tx_buffer, as parts of that answer;    *)
(* write_received_chunks; which loop waits for acknowledgements ("main" is    *)
(* none), its attempts and the old_acked it compares with.                    *)
NewServer(readOnly) ==
  [readOnly |-> readOnly, expected |-> 0, id |-> 0, req |-> 0, error |-> FALSE,
   first |-> 0, packets |-> 0, sent |-> 0, acked |-> 0, buffer |-> {}, taken |-> 0,
   mode |-> "main", attempts |-> 0, old |-> 0]

(* udprdma_create                                                             *)
RdmaInit ==
  /\ state = "init" /\ tx = NewTx /\ rx = NewRx /\ got = <<>>
  /\ bits = {} /\ alarm = FALSE
  /\ pc = "idle" /\ woke = {} /\ tries = 0 /\ job = NoJob
  /\ toServer = {} /\ toClient = {}
  /\ srv \in {NewServer(readOnly) : readOnly \in BOOLEAN}
  /\ budget = [faults |-> Faults, errors |-> Errors]
  /\ done = 0 /\ session = 0 /\ fresh = FALSE /\ heard = {}

-----------------------------------------------------------------------------
(* Packets.  id is the request a packet belongs to: it is the payload of an   *)
(* answer, and tells how old a packet is.                                     *)
NewId == 2 * (done + 1) + session

Discovery == [type |-> "discovery", id |-> NewId]

Chunk == [type |-> "data", id |-> job.id, seq |-> tx.seq_nr, ack |-> Prev(rx.expected),
          kind |-> job.kind, chunk |-> job.chunk, chunks |-> job.chunks,
          packets |-> job.packets]

(* _send_ack: the last packet received, or (NACK) the one expected            *)
Ack == [type |-> "ack", id |-> job.id, ack |-> Prev(rx.expected)]
Nack == [type |-> "nack", id |-> job.id, ack |-> rx.expected]

Send(p) == toServer' = toServer \cup {p} /\ UNCHANGED toClient

Bit(set) == bits \cap set # {}

SessionDies == pc' = "failed" /\ state' = "disconnected"

-----------------------------------------------------------------------------
(* udprdma_discover                                                           *)

(* The watchdog has paused for a second: what was under way in the last       *)
(* session has arrived, and the server has given up waiting (half a second).  *)
Paused == toServer = {} /\ toClient = {} /\ srv.mode = "main"

DiscoverBegin ==
  /\ pc = "idle" /\ Paused
  /\ state' = "discovering" /\ pc' = "discover"
  /\ tries' = 0 /\ job' = NoJob
  /\ UNCHANGED <<tx, rx, got, bits, alarm, woke, wireVars, srv, budget, histVars>>

DiscoverSend ==
  /\ pc = "discover" /\ pc' = "discoverWait"
  /\ Send(Discovery) /\ alarm' = TRUE
  /\ UNCHANGED <<sockVars, bits, woke, tries, job, srv, budget, histVars>>

(* WEF_CLEAR empties the flag; the alarm runs on until it is cancelled.       *)
DiscoverWake ==
  /\ pc = "discoverWait" /\ pc' = "discoverWoken"
  /\ Bit({"info", "timeout"})
  /\ woke' = bits /\ bits' = {}
  /\ UNCHANGED <<sockVars, alarm, tries, job, wireVars, srv, budget, histVars>>


(* _reset_session                                                             *)
ResetSession == tx' = NewTx /\ rx' = NewRx

(* The server will take DATA 0 for what it is.  It cannot when it stands at 1 *)
(* (DATA 0 is a repeat of the one chunk it took) or at a 0 that is not the    *)
(* beginning (the numbers came round).                                        *)
StartsOver ==
  /\ srv.expected # 1
  /\ srv.expected = 0 => srv.first + srv.sent = 0 /\ srv.buffer = {}

DiscoverOk ==
  /\ pc = "discoverWoken" /\ "info" \in woke /\ woke' = {}
  /\ pc' = "ok" /\ alarm' = FALSE
  /\ ResetSession /\ state' = "connected"
  /\ session' = 1 - session /\ heard' = {}
  /\ fresh' = StartsOver
  /\ UNCHANGED <<got, bits, tries, job, wireVars, srv, budget, done>>

DiscoverRetry ==
  /\ pc = "discoverWoken" /\ "info" \notin woke /\ woke' = {}
  /\ alarm' = FALSE /\ tries' = tries + 1
  /\ IF tries + 1 < MaxRetries
       THEN pc' = "discover" /\ UNCHANGED state
       ELSE SessionDies
  /\ UNCHANGED <<tx, rx, got, bits, job, wireVars, srv, budget, histVars>>

-----------------------------------------------------------------------------
(* A request: udprdma_set_rx_buffer, then the loop of udprdma_send or         *)
(* udprdma_send_ll for each chunk, then udprdma_recv.                         *)

(* The wire does not hold a packet for longer than the request after its own. *)
Request(kind, chunks, packets) ==
  LET id == NewId IN
  /\ state = "connected"
  /\ pc' = "send" /\ tries' = 0
  /\ job' = [id |-> id, kind |-> kind, chunks |-> chunks, packets |-> packets, chunk |-> 1]
  /\ rx' = [rx EXCEPT !.buffer = id, !.size = packets, !.window = 0, !.nacked = FALSE]
  /\ got' = <<>> /\ heard' = {}
  /\ toServer' = {p \in toServer : p.id + 2 >= id}
  /\ toClient' = {p \in toClient : p.id + 2 >= id}
  /\ UNCHANGED <<state, tx, bits, alarm, woke, srv, budget, done, session, fresh>>

(* _send_data, _send_data_ll; a stale EF_RX_ACK is cleared before the first   *)
(* attempt.                                                                   *)
SendData ==
  /\ pc = "send" /\ pc' = "ackWait"
  /\ Send(Chunk) /\ alarm' = TRUE
  /\ bits' = IF tries = 0 THEN bits \ {"ack"} ELSE bits
  /\ tx' = [tx EXCEPT !.seq_nr = Next1(tx.seq_nr)]
  /\ UNCHANGED <<state, rx, got, woke, tries, job, srv, budget, histVars>>

(* _wait_ack: the wait clears nothing, EF_RX_FIN may be set already.          *)
AckWake ==
  /\ pc = "ackWait" /\ pc' = "ackWoken"
  /\ Bit({"ack", "timeout"})
  /\ woke' = bits
  /\ UNCHANGED <<sockVars, bits, alarm, tries, job, wireVars, srv, budget, histVars>>

Covered == "ack" \in woke /\ udprdma_ack_covers(tx.acked, Prev(tx.seq_nr))

AckStale ==
  /\ pc = "ackWoken" /\ ~Covered /\ "timeout" \notin woke /\ woke' = {}
  /\ pc' = "ackWait" /\ bits' = bits \ {"ack"}
  /\ UNCHANGED <<sockVars, alarm, tries, job, wireVars, srv, budget, histVars>>

(* The next chunk, or udprdma_recv with a new alarm                           *)
AckCovered ==
  /\ pc = "ackWoken" /\ Covered /\ woke' = {}
  /\ bits' = bits \ {"ack", "timeout"} /\ tries' = 0
  /\ IF job.chunk < job.chunks
       THEN /\ pc' = "send" /\ alarm' = FALSE
            /\ job' = [job EXCEPT !.chunk = @ + 1]
       ELSE pc' = "recvWait" /\ alarm' = TRUE /\ UNCHANGED job
  /\ UNCHANGED <<sockVars, wireVars, srv, budget, histVars>>

(* Mutant: the retries are not counted.                                       *)
AckTimeoutForever ==
  /\ pc = "ackWoken" /\ ~Covered /\ "timeout" \in woke /\ woke' = {}
  /\ alarm' = FALSE /\ bits' = bits \ {"ack", "timeout"}
  /\ tx' = [tx EXCEPT !.seq_nr = Prev(tx.seq_nr)]
  /\ pc' = "send"
  /\ UNCHANGED <<state, rx, got, tries, job, wireVars, srv, budget, histVars>>

(* The receive buffer stays armed when the send gives up.                     *)
AckTimeout ==
  /\ pc = "ackWoken" /\ ~Covered /\ "timeout" \in woke /\ woke' = {}
  /\ alarm' = FALSE /\ bits' = bits \ {"ack", "timeout"}
  /\ tx' = [tx EXCEPT !.seq_nr = Prev(tx.seq_nr)]
  /\ tries' = tries + 1
  /\ IF tries + 1 < MaxRetries
       THEN pc' = "send" /\ UNCHANGED state
       ELSE SessionDies
  /\ UNCHANGED <<rx, got, job, wireVars, srv, budget, histVars>>

RecvWake ==
  /\ pc = "recvWait" /\ pc' = "recvWoken"
  /\ Bit({"fin", "nack", "window", "timeout"})
  /\ woke' = bits /\ bits' = {}
  /\ UNCHANGED <<sockVars, alarm, tries, job, wireVars, srv, budget, histVars>>

RecvFin ==
  /\ pc = "recvWoken" /\ "fin" \in woke /\ woke' = {}
  /\ pc' = "ok" /\ alarm' = FALSE
  /\ Send(Ack) /\ rx' = [rx EXCEPT !.buffer = 0]
  /\ done' = done + 1
  /\ UNCHANGED <<state, tx, got, bits, tries, job, srv, budget, session, fresh,
                 heard>>

RecvNack ==
  /\ pc = "recvWoken" /\ "fin" \notin woke /\ "nack" \in woke /\ woke' = {}
  /\ pc' = "recvWait" /\ alarm' = TRUE
  /\ Send(Nack)
  /\ UNCHANGED <<sockVars, bits, tries, job, srv, budget, histVars>>

RecvWindow ==
  /\ pc = "recvWoken" /\ woke \cap {"fin", "nack"} = {} /\ "window" \in woke
  /\ woke' = {}
  /\ pc' = "recvWait" /\ alarm' = TRUE
  /\ Send(Ack)
  /\ UNCHANGED <<sockVars, bits, tries, job, srv, budget, histVars>>

RecvTimeout ==
  /\ pc = "recvWoken" /\ woke \cap {"fin", "nack", "window"} = {} /\ woke' = {}
  /\ SessionDies /\ alarm' = FALSE
  /\ rx' = [rx EXCEPT !.buffer = 0]
  /\ UNCHANGED <<tx, got, bits, tries, job, wireVars, srv, budget, histVars>>

CallStep ==
  \/ DiscoverSend \/ DiscoverWake \/ DiscoverOk \/ DiscoverRetry
  \/ SendData \/ AckWake \/ AckStale \/ AckCovered \/ AckTimeout
  \/ RecvWake \/ RecvFin \/ RecvNack \/ RecvWindow \/ RecvTimeout

-----------------------------------------------------------------------------
(* _ist: one packet off the wire                                              *)

(* A packet leaves the wire when it is delivered, unless it will come again.  *)
Left(wire, p, again) == IF again THEN wire ELSE wire \ {p}

Fault(n) == budget.faults >= n /\ budget' = [budget EXCEPT !.faults = @ - n]

NoFault == UNCHANGED budget

Delivered(again) == IF again THEN Fault(2) ELSE NoFault

IstInform(p) ==
  /\ p.type = "inform"
  /\ bits' = IF state = "connected" THEN bits ELSE bits \cup {"info"}
  /\ UNCHANGED <<tx, rx, got>>

(* Every other packet of the server carries an acknowledgement.               *)
Acknowledged(p) == tx' = [tx EXCEPT !.acked = p.ack]

IstAck(p) ==
  /\ p.type = "ack" /\ Acknowledged(p)
  /\ bits' = bits \cup {"ack"}
  /\ UNCHANGED <<rx, got>>

(* Nobody is receiving: the payload is dropped.                               *)
IstUnarmed(p) ==
  /\ p.type = "data" /\ rx.buffer = 0 /\ Acknowledged(p)
  /\ bits' = bits \cup {"ack"}
  /\ UNCHANGED <<rx, got>>

(* Mutant: the window is acknowledged one packet late.                        *)
WindowCountLate == (rx.window + 1) % (RxAckWindow + 1)

(* Packets since the last window acknowledgement, 0 when one is due           *)
WindowCount == (rx.window + 1) % RxAckWindow


(* Complete with FIN or when the buffer is full, which also clips what comes. *)
IstInOrder(p) ==
  LET complete == p.fin \/ Len(got) + 1 >= rx.size IN
  /\ p.type = "data" /\ rx.buffer # 0 /\ p.seq = rx.expected
  /\ got' = IF Len(got) < rx.size
              THEN Append(got, [id |-> p.id, part |-> p.part, error |-> p.error])
              ELSE got
  /\ rx' = [rx EXCEPT !.expected = Next1(p.seq), !.nacked = FALSE,
                      !.window = IF complete THEN @ ELSE WindowCount]
  /\ bits' = bits \cup {"ack"} \cup (IF complete THEN {"fin"}
                                     ELSE IF WindowCount = 0 THEN {"window"} ELSE {})
  /\ Acknowledged(p)

(* One NACK per missing sequence number                                       *)
IstOutOfOrder(p) ==
  /\ p.type = "data" /\ rx.buffer # 0 /\ p.seq # rx.expected
  /\ rx' = [rx EXCEPT !.nacked = TRUE]
  /\ bits' = bits \cup (IF rx.nacked THEN {"ack"} ELSE {"ack", "nack"})
  /\ Acknowledged(p)
  /\ UNCHANGED got

Ist(p, again) ==
  /\ p \in toClient /\ toClient' = Left(toClient, p, again)
  /\ Delivered(again)
  /\ \/ IstInform(p) \/ IstAck(p) \/ IstUnarmed(p) \/ IstInOrder(p) \/ IstOutOfOrder(p)
  /\ UNCHANGED <<state, alarm, callVars, toServer, srv, histVars>>

-----------------------------------------------------------------------------
(* The server: udpfs_server.py.  One thread; while it waits for the           *)
(* acknowledgement of an answer it reads the data socket only.                *)

(* Sequence numbers a and b are in the half ring that begins at b.            *)
From(a, b) == (a + Mod - b) % Mod < Mod \div 2

SeqOf(s, part) == (s.first + part - 1) % Mod

Part(s, part) == [type |-> "data", id |-> s.id, seq |-> SeqOf(s, part), ack |-> s.req,
                  part |-> part, fin |-> part = s.packets, error |-> s.error]

Parts(s, parts) == {Part(s, n) : n \in parts}

(* tx_seq_nr_acked, and the pruning of tx_buffer                              *)
Pruned(s, ack) ==
  [s EXCEPT !.acked = ack, !.buffer = {n \in @ : From(SeqOf(s, n), Next1(ack))}]

(* _retransmit_from                                                           *)
Retransmitted(s, from) == Parts(s, {n \in s.buffer : From(SeqOf(s, n), from)})

(* _in_flight                                                                 *)
InFlight(s) == (s.first + s.sent + 2 * Mod - s.acked - 1) % Mod

(* Packets until the window is full; then the wait for a window               *)
(* acknowledgement, or for the final one.                                     *)
SendMore(s) ==
  LET room == IF InFlight(s) < SendWindow THEN SendWindow - InFlight(s) ELSE 0
      sent == IF s.sent + room < s.packets THEN s.sent + room ELSE s.packets
  IN [s EXCEPT !.sent = sent, !.buffer = @ \cup (s.sent + 1 .. sent), !.old = s.acked,
               !.mode = IF sent = s.packets THEN "final" ELSE "window",
               !.attempts = IF sent = s.sent /\ sent # s.packets THEN @ ELSE 0]

(* _send_data, _send_raw_data_with_header: the first packet needs no window.  *)
Reply(s, p, packets, error) ==
  SendMore([s EXCEPT !.id = p.id, !.req = p.seq, !.error = error,
                     !.first = (s.first + s.sent) % Mod,
                     !.packets = packets, !.sent = 1, !.buffer = {1}, !.attempts = 0])

(* _wait_for_window_ack has returned.                                         *)
WindowReturned(s) ==
  IF s.acked # s.old THEN SendMore([s EXCEPT !.attempts = 0])
  ELSE IF s.attempts + 1 < MaxWindowRetries
    THEN SendMore([s EXCEPT !.attempts = @ + 1])
    ELSE [s EXCEPT !.mode = "main"]

(* _handle_getstat, _handle_bread, _handle_bwrite_req, _handle_write_data:    *)
(* what the server makes of a chunk that it took; error is the operating      *)
(* system's.                                                                  *)
Dispatch(s, p, error) ==
  LET taken == IF p.chunk = 1 THEN 0 ELSE s.taken IN
  IF p.kind = "getstat" \/ p.kind = "bread"
    THEN Reply(s, p, IF error THEN 1 ELSE p.packets, error)
  ELSE IF p.chunk = 1 /\ s.readOnly
    THEN Reply(s, p, 1, TRUE)
  ELSE IF p.chunk # taken + 1
    THEN s
  ELSE IF p.chunk < p.chunks
    THEN [s EXCEPT !.taken = p.chunk]
  ELSE Reply([s EXCEPT !.taken = p.chunk], p, 1, error)

SrvReceived(p, again) ==
  /\ p \in toServer /\ toServer' = Left(toServer, p, again)
  /\ UNCHANGED <<sockVars, bits, alarm, callVars, done, session, fresh>>

(* _handle_discovery: no state but the peer's address                         *)
SrvDiscovery(p, again) ==
  /\ p.type = "discovery" /\ srv.mode = "main"
  /\ SrvReceived(p, again) /\ Delivered(again)
  /\ toClient' = toClient \cup {[type |-> "inform", id |-> p.id]}
  /\ UNCHANGED <<srv, heard>>

AckFor(s, p) == [type |-> "ack", id |-> p.id, ack |-> Prev(s.expected)]

(* _handle_data: a chunk that is the next one, or a 0 that is neither next    *)
(* nor a repeat: the peer starts over.  It is acknowledged before it is       *)
(* looked at.                                                                 *)
Began(s) == [s EXCEPT !.expected = 0, !.first = 0, !.sent = 0, !.acked = 0, !.buffer = {}]

SrvTake(p, again, error) ==
  LET before == Pruned(srv, p.ack)
      begun == IF p.seq = srv.expected THEN before ELSE Began(before)
      took == [begun EXCEPT !.expected = Next1(p.seq)]
  IN
  /\ p.type = "data" /\ srv.mode = "main"
  /\ p.seq = srv.expected \/ (p.seq = 0 /\ srv.expected # 1)
  /\ SrvReceived(p, again)
  /\ IF error
       THEN /\ ~again /\ budget.errors > 0
            /\ Dispatch(took, p, TRUE) # Dispatch(took, p, FALSE)
            /\ budget' = [budget EXCEPT !.errors = @ - 1]
       ELSE Delivered(again)
  /\ srv' = Dispatch(took, p, error)
  /\ heard' = IF p.id = job.id THEN heard \cup {p.chunk} ELSE heard
  /\ toClient' = toClient \cup {AckFor(took, p)}
                   \cup (IF srv'.mode = "main" THEN {} ELSE Parts(srv', srv'.buffer))

(* A repeat of the last chunk: acknowledged again, and the answer with it.    *)
SrvRepeat(p, again) ==
  LET before == Pruned(srv, p.ack) IN
  /\ p.type = "data" /\ srv.mode = "main" /\ p.seq = Prev(srv.expected)
  /\ SrvReceived(p, again) /\ Delivered(again)
  /\ srv' = before
  /\ toClient' = toClient \cup {AckFor(before, p)} \cup Parts(before, before.buffer)
  /\ UNCHANGED heard

(* Any other number is refused with a NACK, which _ist takes without effect.  *)
SrvRefuse(p, again) ==
  /\ p.type = "data" /\ srv.mode = "main"
  /\ p.seq \notin {0, srv.expected, Prev(srv.expected)}
  /\ SrvReceived(p, again) /\ Delivered(again)
  /\ srv' = Pruned(srv, p.ack)
  /\ UNCHANGED <<toClient, heard>>

(* _wait_for_window_ack, _wait_for_ack: payload is not read.                  *)
SrvDrop(p, again) ==
  /\ p.type = "data" /\ srv.mode # "main"
  /\ SrvReceived(p, again) /\ Delivered(again)
  /\ UNCHANGED <<srv, toClient, heard>>

SrvAck(p, again) ==
  LET acked == Pruned(srv, p.ack) IN
  /\ p.type = "ack"
  /\ SrvReceived(p, again) /\ Delivered(again)
  /\ \/ srv.mode = "main" /\ srv' = acked
     \/ srv.mode = "window" /\ srv' = WindowReturned(acked)
     \/ /\ srv.mode = "final"
        /\ srv' = IF Next1(p.ack) = (srv.first + srv.sent) % Mod
                    THEN [acked EXCEPT !.buffer = {}, !.mode = "main"]
                    ELSE acked
  /\ toClient' = toClient \cup Parts(srv', srv.sent + 1 .. srv'.sent)
  /\ UNCHANGED heard

(* The wait for the final acknowledgement does not move tx_seq_nr_acked.      *)
SrvNack(p, again) ==
  /\ p.type = "nack"
  /\ SrvReceived(p, again) /\ Delivered(again)
  /\ srv' = IF srv.mode = "final" THEN srv ELSE [srv EXCEPT !.acked = Prev(p.ack)]
  /\ toClient' = toClient \cup Retransmitted(srv, p.ack)
  /\ UNCHANGED heard

SrvReceive(p, again) ==
  \/ SrvDiscovery(p, again) \/ SrvRepeat(p, again) \/ SrvRefuse(p, again)
  \/ SrvDrop(p, again) \/ SrvAck(p, again) \/ SrvNack(p, again)
  \/ \E error \in BOOLEAN : SrvTake(p, again, error)

(* WINDOW_ACK_TIMEOUT: everything that is left is sent again.                 *)
TimedOut ==
  /\ srv' = IF srv.mode = "window" THEN WindowReturned(srv)
            ELSE IF srv.buffer # {} /\ srv.attempts < MaxWindowRetries
              THEN [srv EXCEPT !.attempts = @ + 1]
            ELSE [srv EXCEPT !.mode = "main"]
  /\ toClient' = toClient \cup Parts(srv, srv.buffer)
                   \cup Parts(srv', srv.sent + 1 .. srv'.sent)
  /\ UNCHANGED <<sockVars, bits, alarm, callVars, toServer, histVars>>

-----------------------------------------------------------------------------
(* The wire and the alarm                                                     *)

Lose(p) ==
  /\ Fault(1) /\ p \in toServer \cup toClient
  /\ toServer' = toServer \ {p} /\ toClient' = toClient \ {p}
  /\ UNCHANGED <<sockVars, bits, alarm, callVars, srv, histVars>>

WaitsFor == [discoverWait |-> {"info", "timeout"}, ackWait |-> {"ack", "timeout"},
             recvWait |-> {"fin", "nack", "window", "timeout"}]

(* Nothing is under way to the data sockets, and the client waits or rests.   *)
Quiet ==
  /\ toClient = {} /\ \A p \in toServer : p.type = "discovery"
  /\ pc = "idle" \/ (pc \in DOMAIN WaitsFor /\ ~Bit(WaitsFor[pc]))

(* The server's timer (0.1 s) ends before the client's (0.5 s, 1.25 s, 5 s);  *)
(* when a timer beats a packet that is under way, that is a fault.            *)
InTime(quiet) == IF quiet THEN NoFault ELSE Fault(2)

SrvTimer == srv.mode # "main" /\ TimedOut /\ InTime(Quiet)

(* _timeout_cb, in time or too early: also between a wait and CancelAlarm     *)
Alarm ==
  /\ alarm /\ alarm' = FALSE
  /\ bits' = bits \cup {"timeout"}
  /\ InTime(Quiet /\ toServer = {} /\ srv.mode = "main")
  /\ UNCHANGED <<sockVars, callVars, wireVars, srv, histVars>>

Receive == \E again \in BOOLEAN : \/ \E p \in toClient : Ist(p, again)
                                  \/ \E p \in toServer : SrvReceive(p, again)

RdmaStep ==
  \/ CallStep \/ Receive \/ Alarm
  \/ SrvTimer
  \/ \E p \in toServer \cup toClient : Lose(p)

(* The caller, the timers and the server go on, and what stays on the wire    *)
(* arrives.                                                                   *)
RdmaFairness ==
  /\ WF_rdmaVars(CallStep) /\ WF_rdmaVars(Alarm) /\ WF_rdmaVars(SrvTimer)
  /\ WF_rdmaVars(\E p \in toClient : Ist(p, FALSE))
  /\ WF_rdmaVars(\E p \in toServer : SrvReceive(p, FALSE))

-----------------------------------------------------------------------------
RdmaTypeOK ==
  /\ state \in {"init", "discovering", "connected", "disconnected"}
  /\ tx \in [seq_nr : 0 .. Mod - 1, acked : 0 .. Mod - 1]
  /\ rx \in [buffer : Nat, size : 0 .. MaxPackets, expected : 0 .. Mod - 1,
             window : 0 .. RxAckWindow - 1, nacked : BOOLEAN]
  /\ Len(got) <= MaxPackets
  /\ bits \subseteq {"info", "ack", "nack", "fin", "window", "timeout"}
  /\ woke \subseteq {"info", "ack", "nack", "fin", "window", "timeout"}
  /\ alarm \in BOOLEAN /\ tries \in 0 .. MaxRetries /\ done \in Nat
  /\ srv.expected \in 0 .. Mod - 1 /\ srv.acked \in 0 .. Mod - 1
  /\ srv.attempts \in 0 .. MaxWindowRetries


=============================================================================
