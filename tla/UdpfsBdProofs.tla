--------------------------- MODULE UdpfsBdProofs ---------------------------
(* The UDPFS block device over UDPRDMA and its server, for any number of      *)
(* packets, faults and requests: whatever the wire delivers, the numbers of   *)
(* both sides stay on their ring and the counters within their limits.        *)
EXTENDS UdpfsBd, TLAPS

Ring == 0 .. Mod - 1
Bits == {"info", "ack", "nack", "fin", "window", "timeout"}
Kinds == {"none", "getstat", "bread", "bwrite"}

(* What the client and what the server put on the wire.                       *)
Hello == [type : {"discovery", "inform"}, id : Nat]
Acknowledgement == [type : {"ack", "nack"}, id : Nat, ack : Ring]
ChunkPacket == [type : {"data"}, id : Nat, seq : Ring, ack : Ring, kind : Kinds,
                chunk : Nat, chunks : 0 .. MaxChunks, packets : 0 .. MaxPackets]
AnswerPacket == [type : {"data"}, id : Nat, seq : Ring, ack : Ring, part : Int,
                 fin : BOOLEAN, error : BOOLEAN]

JobState == [id : Nat, kind : Kinds, chunks : 0 .. MaxChunks, packets : 0 .. MaxPackets,
             chunk : Nat]

(* The server.                                                                *)
ServerState ==
  [readOnly : BOOLEAN, expected : Ring, id : Nat, req : Ring, error : BOOLEAN,
   first : Ring, packets : 0 .. MaxPackets, sent : Int, acked : Ring, buffer : SUBSET Int,
   taken : Nat, mode : {"main", "window", "final"}, attempts : 0 .. MaxWindowRetries, old : Ring]

(* Where the caller counts its retries.                                       *)
Retrying == {"discover", "discoverWait", "discoverWoken", "send", "ackWait", "ackWoken"}

SockInv ==
  /\ state \in {"init", "discovering", "connected", "disconnected"}
  /\ tx \in [seq_nr : Ring, acked : Ring]
  /\ rx \in [buffer : Nat, size : 0 .. MaxPackets, expected : Ring,
             window : 0 .. RxAckWindow - 1, nacked : BOOLEAN]
  /\ got \in Seq([id : Nat, part : Int, error : BOOLEAN]) /\ Len(got) <= MaxPackets
  /\ bits \subseteq Bits /\ alarm \in BOOLEAN

CallInv ==
  /\ woke \subseteq Bits /\ tries \in 0 .. MaxRetries
  /\ pc \in Retrying => tries < MaxRetries
  /\ job \in JobState
  /\ done \in Nat /\ session \in {0, 1} /\ fresh \in BOOLEAN

WireInv ==
  /\ toServer \subseteq Hello \cup Acknowledgement \cup ChunkPacket
  /\ toClient \subseteq Hello \cup Acknowledgement \cup AnswerPacket
  /\ srv \in ServerState

BdInv ==
  /\ owner \in {"none", "watchdog", "reader"}
  /\ registered \in BOOLEAN /\ calls \in 0 .. Requests

TypeInv == SockInv /\ CallInv /\ WireInv /\ BdInv

LEMMA RingType == ASSUME NEW n \in Int PROVE n % Mod \in Ring
<1>1. Mod \in Nat /\ Mod > 0
  BY RdmaAssumption
<1> QED
  BY <1>1 DEF Ring

LEMMA Wraps ==
  ASSUME NEW n \in 0 .. 2 * Mod - 1 PROVE n % Mod = IF n < Mod THEN n ELSE n - Mod
<1>1. Mod \in Nat /\ Mod > 0
  BY RdmaAssumption
<1>2. CASE n < Mod
  BY <1>1, <1>2
<1>3. CASE n >= Mod
  BY <1>1, <1>3
<1> QED
  BY <1>1, <1>2, <1>3

LEMMA RingFacts ==
  ASSUME NEW n \in Ring
  PROVE  /\ Next1(n) \in Ring /\ Next1(n) = IF n = Mod - 1 THEN 0 ELSE n + 1
         /\ Prev(n) \in Ring /\ Prev(n) = IF n = 0 THEN Mod - 1 ELSE n - 1
<1>1. Mod \in Nat /\ Mod > 0
  BY RdmaAssumption
<1>2. (n + 1) % Mod = IF n + 1 < Mod THEN n + 1 ELSE n + 1 - Mod
  BY <1>1, Wraps DEF Ring
<1>3. (n + Mod - 1) % Mod = IF n + Mod - 1 < Mod THEN n + Mod - 1 ELSE n + Mod - 1 - Mod
  BY <1>1, Wraps DEF Ring
<1> QED
  BY <1>1, <1>2, <1>3 DEF Next1, Prev, Ring

LEMMA CoverFacts ==
  ASSUME NEW a \in Ring, NEW s \in Ring
  PROVE  udprdma_ack_covers(a, s) <=> IF a >= s THEN 2 * (a - s) < Mod ELSE 2 * (a + Mod - s) < Mod
<1>1. Mod \in Nat /\ Mod > 0 /\ Mod % 2 = 0
  BY RdmaAssumption
<1>2. (a + Mod - s) % Mod = IF a + Mod - s < Mod THEN a + Mod - s ELSE a + Mod - s - Mod
  BY <1>1, Wraps DEF Ring
<1>3. PICK h \in Nat : h = Mod \div 2 /\ Mod = 2 * h
  BY <1>1
<1> QED
  BY <1>1, <1>2, <1>3 DEF udprdma_ack_covers, Ring

LEMMA NewFacts ==
  /\ NewTx \in [seq_nr : Ring, acked : Ring]
  /\ NewRx \in [buffer : Nat, size : 0 .. MaxPackets, expected : Ring,
                window : 0 .. RxAckWindow - 1, nacked : BOOLEAN]
  /\ NoJob \in JobState
  /\ \A readOnly \in BOOLEAN : NewServer(readOnly) \in ServerState
  BY RdmaAssumption DEF NewTx, NewRx, NoJob, JobState, Kinds, NewServer, ServerState, Ring

LEMMA InitTypes == Init => TypeInv
<1> SUFFICES ASSUME Init PROVE TypeInv
  OBVIOUS
<1>b. alarm \in BOOLEAN /\ fresh \in BOOLEAN /\ registered \in BOOLEAN
  BY DEF Init, RdmaInit
<1>1. SockInv
  BY <1>b, NewFacts, RdmaAssumption DEF Init, RdmaInit, SockInv
<1>2. CallInv
  BY <1>b, NewFacts, RdmaAssumption DEF Init, RdmaInit, CallInv, Retrying
<1>3. WireInv
  BY NewFacts DEF Init, RdmaInit, WireInv
<1>4. BdInv
  BY <1>b, RequestsAssumption DEF Init, BdInv
<1> QED
  BY <1>1, <1>2, <1>3, <1>4 DEF TypeInv

(* A packet is of the kind its type says.                                     *)
LEMMA PacketKinds ==
  ASSUME TypeInv
  PROVE  /\ \A p \in toServer : /\ p.id \in Nat
                                /\ p.type = "data" => p \in ChunkPacket
                                /\ p.type \in {"ack", "nack"} => p \in Acknowledgement
         /\ \A p \in toClient : /\ p.id \in Nat
                                /\ p.type = "data" => p \in AnswerPacket
                                /\ p.type \in {"ack", "nack"} => p \in Acknowledgement
  BY DEF TypeInv, WireInv, Hello, Acknowledgement, ChunkPacket, AnswerPacket

(* Each step of the calling thread keeps the types.                           *)
LEMMA DiscoverSendTypes == ASSUME TypeInv, DiscoverSend PROVE SockInv' /\ CallInv' /\ WireInv'
<1>1. SockInv'
  BY NewFacts, RingFacts DEF TypeInv, SockInv, CallInv, DiscoverSend, sockVars, histVars,
       wireVars, Send, Discovery, NewId, Hello
<1>2. CallInv'
  BY NewFacts, RdmaAssumption DEF TypeInv, CallInv, DiscoverSend, Retrying, histVars, Send,
       Discovery, NewId, Hello
<1>3. WireInv'
  BY RingFacts DEF TypeInv, SockInv, CallInv, WireInv, DiscoverSend, wireVars, sockVars, Send,
       Discovery, NewId, Hello
<1> QED
  BY <1>1, <1>2, <1>3

LEMMA DiscoverWakeTypes == ASSUME TypeInv, DiscoverWake PROVE SockInv' /\ CallInv' /\ WireInv'
<1>1. SockInv'
  BY NewFacts, RingFacts DEF TypeInv, SockInv, CallInv, DiscoverWake, sockVars, histVars, wireVars
<1>2. CallInv'
  BY NewFacts, RdmaAssumption DEF TypeInv, SockInv, CallInv, DiscoverWake, Retrying, histVars
<1>3. WireInv'
  BY RingFacts DEF TypeInv, SockInv, CallInv, WireInv, DiscoverWake, wireVars, sockVars
<1> QED
  BY <1>1, <1>2, <1>3

LEMMA DiscoverOkTypes == ASSUME TypeInv, DiscoverOk PROVE SockInv' /\ CallInv' /\ WireInv'
<1>1. SockInv'
  BY NewFacts, RingFacts DEF TypeInv, SockInv, CallInv, DiscoverOk, sockVars, histVars,
       wireVars, ResetSession
<1>2. CallInv'
  <2>1. fresh' \in BOOLEAN
    BY DEF DiscoverOk, StartsOver
  <2> QED
    BY <2>1, NewFacts, RdmaAssumption DEF TypeInv, CallInv, DiscoverOk, Retrying, histVars
<1>3. WireInv'
  BY RingFacts DEF TypeInv, SockInv, CallInv, WireInv, DiscoverOk, wireVars, sockVars,
       ResetSession
<1> QED
  BY <1>1, <1>2, <1>3

LEMMA DiscoverRetryTypes == ASSUME TypeInv, DiscoverRetry PROVE SockInv' /\ CallInv' /\ WireInv'
<1>1. SockInv'
  BY NewFacts, RingFacts DEF TypeInv, SockInv, CallInv, DiscoverRetry, sockVars, histVars,
       wireVars, SessionDies
<1>2. CallInv'
  BY NewFacts, RdmaAssumption DEF TypeInv, CallInv, DiscoverRetry, Retrying, histVars, SessionDies
<1>3. WireInv'
  BY RingFacts DEF TypeInv, SockInv, CallInv, WireInv, DiscoverRetry, wireVars, sockVars,
       SessionDies
<1> QED
  BY <1>1, <1>2, <1>3

LEMMA SendDataTypes == ASSUME TypeInv, SendData PROVE SockInv' /\ CallInv' /\ WireInv'
<1>1. SockInv'
  BY NewFacts, RingFacts DEF TypeInv, SockInv, CallInv, SendData, sockVars, histVars, wireVars,
       Send, Chunk, ChunkPacket
<1>2. CallInv'
  BY NewFacts, RdmaAssumption DEF TypeInv, CallInv, SendData, Retrying, histVars, Send, Chunk,
       ChunkPacket
<1>3. WireInv'
  <2>1. Chunk \in ChunkPacket
    BY RingFacts DEF TypeInv, SockInv, CallInv, JobState, Chunk, ChunkPacket
  <2> QED
    BY <2>1 DEF TypeInv, WireInv, SendData, Send
<1> QED
  BY <1>1, <1>2, <1>3

LEMMA AckWakeTypes == ASSUME TypeInv, AckWake PROVE SockInv' /\ CallInv' /\ WireInv'
<1>1. SockInv'
  BY NewFacts, RingFacts DEF TypeInv, SockInv, CallInv, AckWake, sockVars, histVars, wireVars
<1>2. CallInv'
  BY NewFacts, RdmaAssumption DEF TypeInv, SockInv, CallInv, AckWake, Retrying, histVars
<1>3. WireInv'
  BY RingFacts DEF TypeInv, SockInv, CallInv, WireInv, AckWake, wireVars, sockVars
<1> QED
  BY <1>1, <1>2, <1>3

LEMMA AckStaleTypes == ASSUME TypeInv, AckStale PROVE SockInv' /\ CallInv' /\ WireInv'
<1>1. SockInv'
  BY NewFacts, RingFacts DEF TypeInv, SockInv, CallInv, AckStale, sockVars, histVars, wireVars
<1>2. CallInv'
  BY NewFacts, RdmaAssumption DEF TypeInv, CallInv, AckStale, Retrying, histVars
<1>3. WireInv'
  BY RingFacts DEF TypeInv, SockInv, CallInv, WireInv, AckStale, wireVars, sockVars
<1> QED
  BY <1>1, <1>2, <1>3

LEMMA AckCoveredTypes == ASSUME TypeInv, AckCovered PROVE SockInv' /\ CallInv' /\ WireInv'
<1>1. SockInv'
  BY NewFacts, RingFacts DEF TypeInv, SockInv, CallInv, AckCovered, sockVars, histVars, wireVars
<1>2. CallInv'
  BY NewFacts, RdmaAssumption DEF TypeInv, CallInv, JobState, AckCovered, Retrying, histVars
<1>3. WireInv'
  BY RingFacts DEF TypeInv, SockInv, CallInv, WireInv, AckCovered, wireVars, sockVars
<1> QED
  BY <1>1, <1>2, <1>3

LEMMA AckTimeoutTypes == ASSUME TypeInv, AckTimeout PROVE SockInv' /\ CallInv' /\ WireInv'
<1>1. SockInv'
  BY NewFacts, RingFacts DEF TypeInv, SockInv, CallInv, AckTimeout, sockVars, histVars,
       wireVars, SessionDies
<1>2. CallInv'
  BY NewFacts, RdmaAssumption DEF TypeInv, CallInv, AckTimeout, Retrying, histVars, SessionDies
<1>3. WireInv'
  BY RingFacts DEF TypeInv, SockInv, CallInv, WireInv, AckTimeout, wireVars, sockVars, SessionDies
<1> QED
  BY <1>1, <1>2, <1>3

LEMMA RecvWakeTypes == ASSUME TypeInv, RecvWake PROVE SockInv' /\ CallInv' /\ WireInv'
<1>1. SockInv'
  BY NewFacts, RingFacts DEF TypeInv, SockInv, CallInv, RecvWake, sockVars, histVars, wireVars
<1>2. CallInv'
  BY NewFacts, RdmaAssumption DEF TypeInv, SockInv, CallInv, RecvWake, Retrying, histVars
<1>3. WireInv'
  BY RingFacts DEF TypeInv, SockInv, CallInv, WireInv, RecvWake, wireVars, sockVars
<1> QED
  BY <1>1, <1>2, <1>3

LEMMA RecvFinTypes == ASSUME TypeInv, RecvFin PROVE SockInv' /\ CallInv' /\ WireInv'
<1>1. SockInv'
  BY NewFacts, RingFacts DEF TypeInv, SockInv, CallInv, RecvFin, sockVars, histVars, wireVars,
       Send, Ack, Acknowledgement
<1>2. CallInv'
  BY NewFacts, RdmaAssumption DEF TypeInv, CallInv, RecvFin, Retrying, histVars, Send, Ack,
       Acknowledgement
<1>3. WireInv'
  BY RingFacts DEF TypeInv, SockInv, CallInv, JobState, WireInv, RecvFin, wireVars, sockVars, Send, Ack,
       Acknowledgement
<1> QED
  BY <1>1, <1>2, <1>3

LEMMA RecvNackTypes == ASSUME TypeInv, RecvNack PROVE SockInv' /\ CallInv' /\ WireInv'
<1>1. SockInv'
  BY NewFacts, RingFacts DEF TypeInv, SockInv, CallInv, RecvNack, sockVars, histVars, wireVars,
       Send, Nack, Acknowledgement
<1>2. CallInv'
  BY NewFacts, RdmaAssumption DEF TypeInv, CallInv, RecvNack, Retrying, histVars, Send, Nack,
       Acknowledgement
<1>3. WireInv'
  BY RingFacts DEF TypeInv, SockInv, CallInv, JobState, WireInv, RecvNack, wireVars, sockVars, Send, Nack,
       Acknowledgement
<1> QED
  BY <1>1, <1>2, <1>3

LEMMA RecvWindowTypes == ASSUME TypeInv, RecvWindow PROVE SockInv' /\ CallInv' /\ WireInv'
<1>1. SockInv'
  BY NewFacts, RingFacts DEF TypeInv, SockInv, CallInv, RecvWindow, sockVars, histVars,
       wireVars, Send, Ack, Acknowledgement
<1>2. CallInv'
  BY NewFacts, RdmaAssumption DEF TypeInv, CallInv, RecvWindow, Retrying, histVars, Send, Ack,
       Acknowledgement
<1>3. WireInv'
  BY RingFacts DEF TypeInv, SockInv, CallInv, JobState, WireInv, RecvWindow, wireVars, sockVars, Send,
       Ack, Acknowledgement
<1> QED
  BY <1>1, <1>2, <1>3

LEMMA RecvTimeoutTypes == ASSUME TypeInv, RecvTimeout PROVE SockInv' /\ CallInv' /\ WireInv'
<1>1. SockInv'
  BY NewFacts, RingFacts DEF TypeInv, SockInv, CallInv, RecvTimeout, sockVars, histVars,
       wireVars, SessionDies
<1>2. CallInv'
  BY NewFacts, RdmaAssumption DEF TypeInv, CallInv, RecvTimeout, Retrying, histVars, SessionDies
<1>3. WireInv'
  BY RingFacts DEF TypeInv, SockInv, CallInv, WireInv, RecvTimeout, wireVars, sockVars,
       SessionDies
<1> QED
  BY <1>1, <1>2, <1>3


(* One packet taken off the wire.                                             *)
LEMMA LeftTypes ==
  ASSUME NEW wire, NEW p, NEW again
  PROVE  Left(wire, p, again) \subseteq wire
  BY DEF Left

LEMMA IstTypes ==
  ASSUME TypeInv, NEW p, NEW again \in BOOLEAN, Ist(p, again)
  PROVE  SockInv' /\ CallInv' /\ WireInv'
<1>1. /\ p \in toClient /\ UNCHANGED <<state, alarm, toServer, srv>> /\ toClient' \subseteq toClient
      /\ UNCHANGED <<pc, woke, tries, job, done, session, fresh>>
  BY LeftTypes DEF Ist, callVars, histVars
<1>2. CallInv' /\ WireInv'
  BY <1>1 DEF TypeInv, CallInv, WireInv
<1>3. SockInv'
  <2>1. CASE IstInform(p)
    BY <1>1, <2>1 DEF TypeInv, SockInv, IstInform, Bits
  <2>a. Acknowledged(p) /\ p.type \in {"ack", "data"} => tx' \in [seq_nr : Ring, acked : Ring]
    <3>1. p.type \in {"ack", "nack", "data"} => p.ack \in Ring
      BY <1>1, PacketKinds DEF Acknowledgement, AnswerPacket
    <3> QED
      BY <3>1 DEF Acknowledged, TypeInv, SockInv
  <2>2. CASE IstAck(p)
    BY <1>1, <2>a, <2>2 DEF TypeInv, SockInv, IstAck, Bits
  <2>3. CASE IstUnarmed(p)
    BY <1>1, <2>a, <2>3 DEF TypeInv, SockInv, IstUnarmed, Bits
  <2>4. CASE IstInOrder(p)
    <3>1. p \in AnswerPacket
      BY <1>1, <2>4, PacketKinds DEF IstInOrder
    <3>2. Next1(p.seq) \in Ring /\ [id |-> p.id, part |-> p.part, error |-> p.error]
                                     \in [id : Nat, part : Int, error : BOOLEAN]
      BY <3>1, RingFacts DEF AnswerPacket
    <3>3. WindowCount \in 0 .. RxAckWindow - 1
      BY RdmaAssumption DEF TypeInv, SockInv, WindowCount
    <3>4. got' \in Seq([id : Nat, part : Int, error : BOOLEAN]) /\ Len(got') <= MaxPackets
      <4> DEFINE Piece == [id : Nat, part : Int, error : BOOLEAN]
                 d == [id |-> p.id, part |-> p.part, error |-> p.error]
      <4>1. /\ got' = IF Len(got) < rx.size THEN Append(got, d) ELSE got
            /\ d \in Piece /\ got \in Seq(Piece)
            /\ Len(got) <= MaxPackets /\ rx.size \in 0 .. MaxPackets
        BY <2>4, <3>2 DEF TypeInv, SockInv, IstInOrder
      <4> HIDE DEF Piece, d
      <4>2. got' \in Seq(Piece) /\ Len(got') <= MaxPackets
        BY <4>1, RdmaAssumption
      <4> QED
        BY <4>2 DEF Piece
    <3>5. rx' \in [buffer : Nat, size : 0 .. MaxPackets, expected : Ring,
                   window : 0 .. RxAckWindow - 1, nacked : BOOLEAN]
      BY <2>4, <3>2, <3>3 DEF TypeInv, SockInv, IstInOrder
    <3>6. bits' \subseteq Bits /\ tx' \in [seq_nr : Ring, acked : Ring]
      BY <2>a, <2>4 DEF TypeInv, SockInv, IstInOrder, Bits
    <3> QED
      BY <1>1, <3>4, <3>5, <3>6 DEF TypeInv, SockInv
  <2>5. CASE IstOutOfOrder(p)
    BY <1>1, <2>a, <2>5 DEF TypeInv, SockInv, IstOutOfOrder, Bits
  <2> QED
    BY <2>1, <2>2, <2>3, <2>4, <2>5 DEF Ist
<1> QED
  BY <1>2, <1>3

(* The server's operators map a state of the server to another one.           *)
LEMMA PrunedType ==
  ASSUME NEW s \in ServerState, NEW ack \in Ring
  PROVE  Pruned(s, ack) \in ServerState
  BY DEF Pruned, ServerState

LEMMA PartType ==
  ASSUME NEW s \in ServerState, NEW n \in Int
  PROVE  SeqOf(s, n) \in Ring /\ Part(s, n) \in AnswerPacket
<1>1. SeqOf(s, n) \in Ring
  <2>1. s.first + n - 1 \in Int
    BY RdmaAssumption DEF ServerState, Ring
  <2> QED
    BY <2>1, RingType DEF SeqOf
<1> DEFINE f == n = s.packets
<1>2. f \in BOOLEAN /\ Part(s, n) = [type |-> "data", id |-> s.id, seq |-> SeqOf(s, n),
                                     ack |-> s.req, part |-> n, fin |-> f, error |-> s.error]
  BY DEF Part
<1> HIDE DEF f
<1> QED
  BY <1>1, <1>2 DEF AnswerPacket, ServerState

LEMMA PartsType ==
  ASSUME NEW s \in ServerState, NEW S \in SUBSET Int
  PROVE  Parts(s, S) \subseteq AnswerPacket
  BY PartType DEF Parts

LEMMA InFlightType == ASSUME NEW s \in ServerState PROVE InFlight(s) \in Nat
<1>1. PICK n \in Int : n = s.first + s.sent + 2 * Mod - s.acked - 1
  BY RdmaAssumption DEF ServerState, Ring
<1> QED
  BY <1>1, RingType DEF InFlight, Ring

LEMMA SendMoreType == ASSUME NEW s \in ServerState PROVE SendMore(s) \in ServerState
<1> DEFINE room == IF InFlight(s) < SendWindow THEN SendWindow - InFlight(s) ELSE 0
           sent == IF s.sent + room < s.packets THEN s.sent + room ELSE s.packets
           buffer == s.buffer \cup (s.sent + 1 .. sent)
           mode == IF sent = s.packets THEN "final" ELSE "window"
           attempts == IF sent = s.sent /\ sent # s.packets THEN s.attempts ELSE 0
<1>1. room \in Int
  BY InFlightType, RdmaAssumption
<1>2. sent \in Int
  BY <1>1 DEF ServerState
<1>3. buffer \in SUBSET Int
  BY <1>2 DEF ServerState
<1>4. mode \in {"window", "final"} /\ attempts \in 0 .. MaxWindowRetries
  BY RdmaAssumption DEF ServerState
<1>5. SendMore(s) = [s EXCEPT !.sent = sent, !.buffer = buffer, !.old = s.acked, !.mode = mode,
                              !.attempts = attempts]
  BY DEF SendMore, ServerState
<1> HIDE DEF room, sent, buffer, mode, attempts
<1> QED
  BY <1>2, <1>3, <1>4, <1>5 DEF ServerState

LEMMA ReplyType ==
  ASSUME NEW s \in ServerState, NEW p \in ChunkPacket, NEW packets \in 0 .. MaxPackets,
         NEW error \in BOOLEAN
  PROVE  Reply(s, p, packets, error) \in ServerState
<1> DEFINE t == [s EXCEPT !.id = p.id, !.req = p.seq, !.error = error,
                          !.first = (s.first + s.sent) % Mod,
                          !.packets = packets, !.sent = 1, !.buffer = {1}, !.attempts = 0]
<1>1. (s.first + s.sent) % Mod \in Ring
  <2>1. s.first + s.sent \in Int
    BY RdmaAssumption DEF ServerState, Ring
  <2> QED
    BY <2>1, RingType
<1>2. 0 \in 0 .. MaxWindowRetries /\ {1} \in SUBSET Int /\ 1 \in Int
  BY RdmaAssumption
<1>3. t \in ServerState
  BY <1>1, <1>2 DEF ServerState, ChunkPacket
<1>4. Reply(s, p, packets, error) = SendMore(t)
  BY DEF Reply
<1> HIDE DEF t
<1> QED
  BY <1>3, <1>4, SendMoreType

LEMMA WindowReturnedType == ASSUME NEW s \in ServerState PROVE WindowReturned(s) \in ServerState
<1>1. [s EXCEPT !.attempts = 0] \in ServerState
  BY RdmaAssumption DEF ServerState
<1>2. s.attempts + 1 < MaxWindowRetries => [s EXCEPT !.attempts = @ + 1] \in ServerState
  BY RdmaAssumption DEF ServerState
<1>3. [s EXCEPT !.mode = "main"] \in ServerState
  BY DEF ServerState
<1> QED
  BY <1>1, <1>2, <1>3, SendMoreType DEF WindowReturned

LEMMA DispatchType ==
  ASSUME NEW s \in ServerState, NEW p \in ChunkPacket, NEW error \in BOOLEAN
  PROVE  Dispatch(s, p, error) \in ServerState
<1>1. 1 \in 0 .. MaxPackets /\ p.packets \in 0 .. MaxPackets /\ TRUE \in BOOLEAN
  BY RdmaAssumption DEF ChunkPacket
<1>2. [s EXCEPT !.taken = p.chunk] \in ServerState
  BY DEF ServerState, ChunkPacket
<1>3. /\ \A e \in BOOLEAN : /\ Reply(s, p, 1, e) \in ServerState
                            /\ Reply(s, p, p.packets, e) \in ServerState
      /\ Reply([s EXCEPT !.taken = p.chunk], p, 1, error) \in ServerState
  BY <1>1, <1>2, ReplyType
<1> QED
  BY <1>1, <1>2, <1>3 DEF Dispatch

LEMMA BeganType == ASSUME NEW s \in ServerState PROVE Began(s) \in ServerState
<1>1. 0 \in Ring /\ {} \in SUBSET Int /\ 0 \in Int
  BY RdmaAssumption DEF Ring
<1> QED
  BY <1>1 DEF Began, ServerState

LEMMA AckForType ==
  ASSUME NEW s \in ServerState, NEW p \in ChunkPacket
  PROVE  AckFor(s, p) \in Acknowledgement
  BY RingFacts DEF AckFor, Acknowledgement, ServerState, ChunkPacket

(* A step of the server keeps the types if it puts on the wire what it may.   *)
LEMMA ServerTypes ==
  ASSUME TypeInv, UNCHANGED <<state, tx, rx, got, bits, alarm, pc, woke, tries, job, done>>,
         UNCHANGED <<session, fresh>>, srv' \in ServerState, toServer' \subseteq toServer,
         toClient' \subseteq toClient \cup Hello \cup Acknowledgement \cup AnswerPacket
  PROVE  SockInv' /\ CallInv' /\ WireInv'
  BY DEF TypeInv, SockInv, CallInv, WireInv

LEMMA SrvReceivedFacts ==
  ASSUME TypeInv, NEW p, NEW again \in BOOLEAN, SrvReceived(p, again)
  PROVE  /\ UNCHANGED <<state, tx, rx, got, bits, alarm, pc, woke, tries, job, done>>
         /\ UNCHANGED <<session, fresh>>
         /\ p \in toServer /\ toServer' \subseteq toServer
         /\ p.id \in Nat
         /\ p.type = "data" => p \in ChunkPacket /\ p.ack \in Ring
         /\ p.type \in {"ack", "nack"} => p.ack \in Ring
         /\ srv \in ServerState /\ srv.buffer \in SUBSET Int
<1>1. srv \in ServerState /\ srv.buffer \in SUBSET Int
  BY DEF TypeInv, WireInv, ServerState
<1>2. p \in toServer /\ toServer' \subseteq toServer
  BY LeftTypes DEF SrvReceived
<1>3. /\ p.id \in Nat
      /\ p.type = "data" => p \in ChunkPacket /\ p.ack \in Ring
      /\ p.type \in {"ack", "nack"} => p.ack \in Ring
  BY <1>2, PacketKinds DEF ChunkPacket, Acknowledgement
<1> QED
  BY <1>1, <1>2, <1>3 DEF SrvReceived, sockVars, callVars

LEMMA SrvTakeTypes ==
  ASSUME TypeInv, NEW p, NEW again \in BOOLEAN, NEW error \in BOOLEAN, SrvTake(p, again, error)
  PROVE  SockInv' /\ CallInv' /\ WireInv'
<1> DEFINE before == Pruned(srv, p.ack)
           begun == IF p.seq = srv.expected THEN before ELSE Began(before)
           took == [begun EXCEPT !.expected = Next1(p.seq)]
<1>1. SrvReceived(p, again) /\ p.type = "data"
  BY DEF SrvTake
<1>2. p \in ChunkPacket /\ srv \in ServerState /\ p.ack \in Ring
  BY <1>1, SrvReceivedFacts
<1>3. begun \in ServerState
  BY <1>2, PrunedType, BeganType
<1>4. Next1(p.seq) \in Ring
  BY <1>2, RingFacts DEF ChunkPacket
<1> HIDE DEF begun
<1>5. took \in ServerState
  BY <1>3, <1>4 DEF ServerState
<1>6. /\ srv' = Dispatch(took, p, error)
      /\ toClient' = toClient \cup {AckFor(took, p)}
                       \cup (IF srv'.mode = "main" THEN {} ELSE Parts(srv', srv'.buffer))
  BY DEF SrvTake, begun
<1> HIDE DEF took
<1>7. srv' \in ServerState /\ AckFor(took, p) \in Acknowledgement
  BY <1>2, <1>5, <1>6, DispatchType, AckForType
<1>8. Parts(srv', srv'.buffer) \subseteq AnswerPacket
  <2>1. srv'.buffer \in SUBSET Int
    BY <1>7 DEF ServerState
  <2> QED
    BY <1>7, <2>1, PartsType
<1> QED
  BY <1>1, <1>6, <1>7, <1>8, SrvReceivedFacts, ServerTypes

LEMMA SrvReceiveTypes ==
  ASSUME TypeInv, NEW p, NEW again \in BOOLEAN, SrvReceive(p, again)
  PROVE  SockInv' /\ CallInv' /\ WireInv'
<1>r. SrvReceived(p, again)
  BY DEF SrvReceive, SrvDiscovery, SrvRepeat, SrvRefuse, SrvDrop, SrvAck, SrvNack, SrvTake
<1> DEFINE before == Pruned(srv, p.ack)
<1>1. CASE SrvDiscovery(p, again)
  <2>1. [type |-> "inform", id |-> p.id] \in Hello
    BY <1>r, SrvReceivedFacts DEF Hello
  <2> QED
    BY <1>r, <1>1, <2>1, SrvReceivedFacts, ServerTypes DEF SrvDiscovery
<1>2. CASE SrvRepeat(p, again)
  <2>1. before \in ServerState /\ AckFor(before, p) \in Acknowledgement
    BY <1>r, <1>2, SrvReceivedFacts, PrunedType, AckForType DEF SrvRepeat
  <2>2. Parts(before, before.buffer) \subseteq AnswerPacket
    <3>1. before.buffer \in SUBSET Int
      BY <2>1 DEF ServerState
    <3> HIDE DEF before
    <3> QED
      BY <2>1, <3>1, PartsType
  <2>3. /\ srv' = before
        /\ toClient' = toClient \cup {AckFor(before, p)} \cup Parts(before, before.buffer)
    BY <1>2 DEF SrvRepeat
  <2> HIDE DEF before
  <2> QED
    BY <1>r, <2>1, <2>2, <2>3, SrvReceivedFacts, ServerTypes
<1>3. CASE SrvRefuse(p, again) \/ SrvDrop(p, again)
  BY <1>r, <1>3, SrvReceivedFacts, PrunedType, ServerTypes DEF SrvRefuse, SrvDrop
<1>4. CASE SrvAck(p, again)
  <2>1. before \in ServerState
    BY <1>r, <1>4, SrvReceivedFacts, PrunedType DEF SrvAck
  <2>2. [before EXCEPT !.buffer = {}, !.mode = "main"] \in ServerState
    BY <2>1 DEF ServerState
  <2>3. srv' \in ServerState
    BY <1>4, <2>1, <2>2, WindowReturnedType DEF SrvAck
  <2>4. srv.sent + 1 .. srv'.sent \in SUBSET Int
    BY <1>r, <2>3, SrvReceivedFacts DEF ServerState
  <2>5. Parts(srv', srv.sent + 1 .. srv'.sent) \subseteq AnswerPacket
    BY <2>3, <2>4, PartsType
  <2>6. toClient' = toClient \cup Parts(srv', srv.sent + 1 .. srv'.sent)
    BY <1>4 DEF SrvAck
  <2> QED
    BY <1>r, <2>3, <2>5, <2>6, SrvReceivedFacts, ServerTypes
<1>5. CASE SrvNack(p, again)
  <2>1. Prev(p.ack) \in Ring
    BY <1>r, <1>5, SrvReceivedFacts, RingFacts DEF SrvNack
  <2>2. srv' \in ServerState
    BY <1>r, <1>5, <2>1, SrvReceivedFacts DEF SrvNack, ServerState
  <2>3. Retransmitted(srv, p.ack) \subseteq AnswerPacket
    <3>1. {n \in srv.buffer : From(SeqOf(srv, n), p.ack)} \in SUBSET Int
      BY <1>r, SrvReceivedFacts
    <3> QED
      BY <1>r, <3>1, SrvReceivedFacts, PartsType DEF Retransmitted
  <2> QED
    BY <1>r, <1>5, <2>2, <2>3, SrvReceivedFacts, ServerTypes DEF SrvNack
<1> QED
  BY <1>1, <1>2, <1>3, <1>4, <1>5, SrvTakeTypes DEF SrvReceive

LEMMA SrvTimerTypes == ASSUME TypeInv, SrvTimer PROVE SockInv' /\ CallInv' /\ WireInv'
<1>1. /\ TimedOut
      /\ UNCHANGED <<state, tx, rx, got, bits, alarm, pc, woke, tries, job, done>>
      /\ UNCHANGED <<session, fresh, toServer>>
  BY DEF SrvTimer, TimedOut, sockVars, callVars, histVars
<1>2. srv \in ServerState /\ srv.buffer \in SUBSET Int /\ srv.sent \in Int
  BY DEF TypeInv, WireInv, ServerState
<1>3. srv' \in ServerState
  <2>1. [srv EXCEPT !.mode = "main"] \in ServerState
    BY <1>2 DEF ServerState
  <2>2. srv.attempts < MaxWindowRetries => [srv EXCEPT !.attempts = @ + 1] \in ServerState
    BY <1>2, RdmaAssumption DEF ServerState
  <2> QED
    BY <1>1, <1>2, <2>1, <2>2, WindowReturnedType DEF TimedOut
<1>4. srv.sent + 1 .. srv'.sent \in SUBSET Int
  BY <1>2, <1>3 DEF ServerState
<1>5. /\ Parts(srv', srv.sent + 1 .. srv'.sent) \subseteq AnswerPacket
      /\ Parts(srv, srv.buffer) \subseteq AnswerPacket
  BY <1>2, <1>3, <1>4, PartsType
<1>6. toClient' = toClient \cup Parts(srv, srv.buffer) \cup Parts(srv', srv.sent + 1 .. srv'.sent)
  BY <1>1 DEF TimedOut
<1> QED
  BY <1>1, <1>3, <1>5, <1>6, ServerTypes

LEMMA LoseTypes == ASSUME TypeInv, NEW p, Lose(p) PROVE SockInv' /\ CallInv' /\ WireInv'
  BY DEF Lose, sockVars, callVars, histVars, TypeInv, SockInv, CallInv, WireInv

LEMMA AlarmTypes == ASSUME TypeInv, Alarm PROVE SockInv' /\ CallInv' /\ WireInv'
<1>1. /\ UNCHANGED <<state, tx, rx, got, pc, woke, tries, job, done, session, fresh>>
      /\ UNCHANGED <<toServer, toClient, srv>>
      /\ alarm' = FALSE /\ bits' = bits \cup {"timeout"}
  BY DEF Alarm, sockVars, callVars, wireVars, histVars
<1>2. SockInv'
  BY <1>1 DEF TypeInv, SockInv, Bits
<1> QED
  BY <1>1, <1>2 DEF TypeInv, CallInv, WireInv

LEMMA RdmaTypes == ASSUME TypeInv, RdmaStep PROVE SockInv' /\ CallInv' /\ WireInv'
<1>1. CASE CallStep
  BY <1>1, DiscoverSendTypes, DiscoverWakeTypes, DiscoverOkTypes, DiscoverRetryTypes,
     SendDataTypes, AckWakeTypes, AckStaleTypes, AckCoveredTypes, AckTimeoutTypes,
     RecvWakeTypes, RecvFinTypes, RecvNackTypes, RecvWindowTypes, RecvTimeoutTypes
  DEF CallStep
<1>2. CASE Receive
  BY <1>2, IstTypes, SrvReceiveTypes DEF Receive
<1> QED
  BY <1>1, <1>2, AlarmTypes, SrvTimerTypes, LoseTypes DEF RdmaStep

-----------------------------------------------------------------------------
(* The watchdog and the file systems.                                         *)

LEMMA RequestTypes ==
  ASSUME TypeInv, NEW chunks \in 1 .. MaxChunks, NEW packets \in 1 .. MaxPackets,
         NEW kind \in Kinds, Request(kind, chunks, packets)
  PROVE  SockInv' /\ CallInv' /\ WireInv'
<1>1. NewId \in Nat
  BY DEF NewId, TypeInv, CallInv
<1> DEFINE id == NewId
<1>2. /\ pc' = "send" /\ tries' = 0 /\ got' = <<>>
      /\ job' = [id |-> id, kind |-> kind, chunks |-> chunks, packets |-> packets, chunk |-> 1]
      /\ rx' = [rx EXCEPT !.buffer = id, !.size = packets, !.window = 0, !.nacked = FALSE]
      /\ UNCHANGED <<state, tx, bits, alarm, woke, done, session, fresh>>
  BY DEF Request
<1>t. /\ id \in Nat /\ chunks \in 0 .. MaxChunks /\ packets \in 0 .. MaxPackets
      /\ 0 \in 0 .. RxAckWindow - 1 /\ MaxRetries \in Nat /\ 0 < MaxRetries
  BY <1>1, RdmaAssumption
<1> HIDE DEF id
<1>3. /\ rx' \in [buffer : Nat, size : 0 .. MaxPackets, expected : Ring,
                  window : 0 .. RxAckWindow - 1, nacked : BOOLEAN]
      /\ job' \in JobState
  BY <1>2, <1>t DEF TypeInv, SockInv, JobState
<1>5. SockInv'
  BY <1>2, <1>3, RdmaAssumption DEF TypeInv, SockInv
<1>6. CallInv'
  BY <1>2, <1>3, <1>t DEF TypeInv, CallInv, Retrying
<1>4. WireInv'
  BY DEF Request, TypeInv, WireInv
<1> QED
  BY <1>4, <1>5, <1>6

LEMMA ReturnTypes == ASSUME TypeInv, Return PROVE SockInv' /\ CallInv' /\ WireInv'
<1>1. SockInv'
  BY RdmaAssumption DEF Return, TypeInv, SockInv
<1>2. CallInv'
  BY NewFacts, RdmaAssumption DEF Return, TypeInv, CallInv, Retrying
<1>3. WireInv'
  BY DEF Return, TypeInv, WireInv, wireVars
<1> QED
  BY <1>1, <1>2, <1>3

LEMMA DiscoverBeginTypes == ASSUME TypeInv, DiscoverBegin PROVE SockInv' /\ CallInv' /\ WireInv'
<1>1. SockInv'
  BY DEF DiscoverBegin, TypeInv, SockInv
<1>2. CallInv'
  BY NewFacts, RdmaAssumption DEF DiscoverBegin, histVars, TypeInv, CallInv, Retrying
<1>3. WireInv'
  BY DEF DiscoverBegin, TypeInv, WireInv, wireVars
<1> QED
  BY <1>1, <1>2, <1>3

LEMMA StepTypes == ASSUME TypeInv, [Next]_vars PROVE TypeInv'
<1>o. {"getstat", "bread", "bwrite"} \subseteq Kinds /\ 1 \in 1 .. MaxChunks /\ 1 \in 1 .. MaxPackets
      /\ MaxChunks \in 1 .. MaxChunks /\ MaxPackets \in 1 .. MaxPackets
  BY RdmaAssumption DEF Kinds
<1>1. CASE WatchdogRelease
  BY <1>1 DEF WatchdogRelease, rdmaVars, sockVars, callVars, wireVars, histVars,
     TypeInv, SockInv, CallInv, WireInv, BdInv
<1>2. CASE TryConnect
  BY <1>2, DiscoverBeginTypes DEF TryConnect, TypeInv, BdInv
<1>3. CASE GetSectorCount
  BY <1>3, <1>o, RequestTypes DEF GetSectorCount, bdVars, TypeInv, BdInv
<1>4. CASE Connected
  <2>1. registered' \in BOOLEAN
    BY <1>4 DEF Connected
  <2> QED
    BY <1>4, <2>1, ReturnTypes DEF Connected, Return, TypeInv, BdInv
<1>5. CASE NotConnected
  BY <1>5, ReturnTypes DEF NotConnected, Return, TypeInv, BdInv
<1>6. CASE BdRead \/ BdWrite
  <2>1. BdInv'
    BY <1>6, RequestsAssumption DEF BdRead, BdWrite, Call, TypeInv, BdInv
  <2> QED
    BY <1>6, <1>o, <2>1, RequestTypes DEF BdRead, BdWrite, Call, TypeInv
<1>7. CASE CallReturns
  BY <1>7, ReturnTypes DEF CallReturns, Return, TypeInv, BdInv
<1>8. CASE RdmaStep /\ UNCHANGED bdVars
  BY <1>8, RdmaTypes DEF bdVars, TypeInv, BdInv
<1>9. CASE UNCHANGED vars
  BY <1>9 DEF vars, bdVars, rdmaVars, sockVars, callVars, wireVars, histVars,
     TypeInv, SockInv, CallInv, WireInv, BdInv
<1> QED
  BY <1>1, <1>2, <1>3, <1>4, <1>5, <1>6, <1>7, <1>8, <1>9 DEF Next, Watchdog

LEMMA TypesHold == Spec => []TypeInv
  BY InitTypes, StepTypes, PTL DEF Spec

(* The numbers of the transport stay on their ring, the retries within        *)
(* UDPRDMA_MAX_RETRIES, the receive buffer within its size, whatever the wire *)
(* delivers, for every number of packets, faults and requests.                *)
THEOREM TransportTypes == Spec => []TypeOK
<1>1. TypeInv => TypeOK
  BY DEF TypeInv, SockInv, CallInv, WireInv, BdInv, ServerState, TypeOK, RdmaTypeOK, Ring, Bits
<1> QED
  BY <1>1, TypesHold, PTL

=============================================================================
