------------------------------- MODULE UdpConn -------------------------------
(***************************************************************************)
(* One connection of the UDP interconnect (cdb/motion/ic_udp.c): the       *)
(* sending process, the receiving process with its two threads (the main   *)
(* thread that consumes packets and the background rx thread), and the     *)
(* network between them.                                                   *)
(*                                                                         *)
(* A data packet is identified by its sequence number: every copy of it on *)
(* the wire carries the header written once by prepareXmit, kept here in   *)
(* pktFlags.  The message 0 in dataNet is the header-only status query of  *)
(* sendStatusQueryMessage.  sndQueue and unackQueue are FIFO lists in the  *)
(* code; buffers enter both in increasing sequence order, so a set of      *)
(* sequence numbers determines the list.                                   *)
(*                                                                         *)
(* Timers are nondeterministic: a retransmission, a status query or a      *)
(* network-timeout error may happen at any point at which the code         *)
(* consults its clock.                                                     *)
(***************************************************************************)
EXTENDS Integers, Sequences, FiniteSets, FiniteSetsExt

CONSTANTS
    QueueDepth,      \* Gp_interconnect_queue_depth: receive slots
    SndQueueDepth,   \* Gp_interconnect_snd_queue_depth: send buffers
    FcMethod,        \* Gp_interconnect_fc_method
    MaxLostSeqs,     \* MAX_SEQS_IN_DISORDER_ACK
    MaxSeq,          \* bound: the stream has at most MaxSeq packets
    Lossy,           \* which network: see Post and Taken
    NetCap           \* bound: datagrams in flight when Lossy

ASSUME ConstAssumption ==
    /\ QueueDepth \in Nat \ {0}
    /\ SndQueueDepth \in Nat \ {0}
    /\ FcMethod \in {"CAPACITY", "LOSS"}
    /\ MaxLostSeqs \in Nat \ {0}
    /\ MaxSeq \in Nat \ {0}
    /\ Lossy \in BOOLEAN
    /\ NetCap \in Nat \ {0}

VARIABLES
    (* the sending MotionConn *)
    sphase,            \* where the sending process is, see below
    sndSeq,            \* conn_info.seq: number of the next packet
    sndFlags,          \* conn_info.flags, the bits STOP and EOS
    pktFlags,          \* flags in the header of each prepared packet
    sndQueue,          \* prepared, not sent yet
    unackQueue,        \* sent, not acknowledged
    capacity,          \* receiver slots the sender may still use
    sentSeq,           \* last packet sent
    receivedAckSeq,    \* last packet acknowledged at the queue's head
    consumedSeq,       \* last packet known to be consumed
    started,           \* state # mcsSetupOutgoingConnection
    sndStopRequested,  \* stopRequested
    (* the receiving MotionConn *)
    rcvSeq,            \* conn_info.seq: next packet expected in order
    extraSeq,          \* conn_info.extraSeq: last packet consumed
    rcvFlags,          \* conn_info.flags, the bits STOP and EOS
    pkt_q,             \* the ring of received packets, 0 is NULL
    pkt_q_head, pkt_q_tail, pkt_q_size,
    rcvActive,         \* stillActive
    rcvStopRequested,  \* stopRequested
    peerKnown,         \* conn->peer has been filled in
    pBuff,             \* packet the main thread is reading, 0 is NULL
    stopped,           \* MotionNodeEntry.stopped
    delivered,         \* packets handed to the executor, in order
    (* the network *)
    dataNet, ackNet

(***************************************************************************)
(* sphase follows the sending process through SendChunkUDP and SendEosUDP: *)
(*   "run"   outside the interconnect, filling the packet in curBuff;      *)
(*   "poll"  in the loop of SendChunkUDP, waiting for a send buffer;       *)
(*   "eos"   in the loop of SendEosUDP, waiting for the queues to drain;   *)
(*   "done"  stillActive is false;                                         *)
(*   "error" an interconnect error was raised.                             *)
(* curBuff is non-NULL exactly in "run".                                   *)
(***************************************************************************)
Phases == {"run", "poll", "eos", "done", "error"}

sndVars == <<sphase, sndSeq, sndFlags, pktFlags, sndQueue, unackQueue,
             capacity, sentSeq, receivedAckSeq, consumedSeq, started,
             sndStopRequested>>
ringVars == <<pkt_q, pkt_q_head, pkt_q_tail, pkt_q_size>>
rcvVars == <<rcvSeq, extraSeq, rcvFlags, ringVars, rcvActive,
             rcvStopRequested, peerKnown, pBuff, stopped, delivered>>
netVars == <<dataNet, ackNet>>
vars == <<sndVars, rcvVars, netVars>>

Query == 0
SeqNum == 0 .. MaxSeq
Slot == 0 .. (QueueDepth - 1)
SlotOf(s) == (s - 1) % QueueDepth
NextSlot(i) == (i + 1) % QueueDepth

(***************************************************************************)
(* The messages of the receiver.  Every acknowledgment the receiver sends  *)
(* is of one of three kinds: "ack" carries the flags ACK and CAPACITY,     *)
(* "dup" DUPLICATE, "disorder" DISORDER and the list of missing packets.   *)
(***************************************************************************)
AckMsg == [kind : {"ack", "dup", "disorder"}, stop : BOOLEAN,
           seq : SeqNum, extraSeq : SeqNum, lost : SUBSET SeqNum]

Ack(stop, seq, extra) ==
    [kind |-> "ack", stop |-> stop, seq |-> seq, extraSeq |-> extra,
     lost |-> {}]

RcvStopFlag == "STOP" \in rcvFlags

SndTypeOK ==
    /\ sphase \in Phases
    /\ sndSeq \in 1 .. (MaxSeq + 1)
    /\ sndFlags \in SUBSET {"STOP", "EOS"}
    /\ pktFlags \in [1 .. MaxSeq -> SUBSET {"STOP", "EOS"}]
    /\ sndQueue \in SUBSET (1 .. MaxSeq)
    /\ unackQueue \in SUBSET (1 .. MaxSeq)
    /\ capacity \in 0 .. QueueDepth
    /\ sentSeq \in SeqNum
    /\ receivedAckSeq \in SeqNum
    /\ consumedSeq \in SeqNum
    /\ started \in BOOLEAN
    /\ sndStopRequested \in BOOLEAN

RcvTypeOK ==
    /\ rcvSeq \in 1 .. (MaxSeq + 1)
    /\ extraSeq \in SeqNum
    /\ rcvFlags \in SUBSET {"STOP", "EOS"}
    /\ pkt_q \in [Slot -> SeqNum]
    /\ pkt_q_head \in Slot
    /\ pkt_q_tail \in Slot
    /\ pkt_q_size \in 0 .. QueueDepth
    /\ rcvActive \in BOOLEAN
    /\ rcvStopRequested \in BOOLEAN
    /\ peerKnown \in BOOLEAN
    /\ pBuff \in SeqNum
    /\ stopped \in BOOLEAN
    /\ delivered \in Seq(1 .. MaxSeq)

NetTypeOK == dataNet \subseteq SeqNum /\ ackNet \subseteq AckMsg

(***************************************************************************)
(* The types of all variables; the capacity is never negative and never    *)
(* above the depth of the receive queue.                                   *)
(***************************************************************************)
TypeOK == SndTypeOK /\ RcvTypeOK /\ NetTypeOK

Init ==
    /\ sphase = "run"
    /\ sndSeq = 1
    /\ sndFlags = {}
    /\ pktFlags = [s \in 1 .. MaxSeq |-> {}]
    /\ sndQueue = {}
    /\ unackQueue = {}
    /\ capacity = QueueDepth
    /\ sentSeq = 0
    /\ receivedAckSeq = 0
    /\ consumedSeq = 0
    /\ started = FALSE
    /\ sndStopRequested = FALSE
    /\ rcvSeq = 1
    /\ extraSeq = 0
    /\ rcvFlags = {}
    /\ pkt_q = [i \in Slot |-> 0]
    /\ pkt_q_head = 0
    /\ pkt_q_tail = 0
    /\ pkt_q_size = 0
    /\ rcvActive = TRUE
    /\ rcvStopRequested = FALSE
    /\ peerKnown = FALSE
    /\ pBuff = 0
    /\ stopped = FALSE
    /\ delivered = << >>
    /\ dataNet = {}
    /\ ackNet = {}

-----------------------------------------------------------------------------
(***************************************************************************)
(* The network (external: UDP sockets).  With Lossy = FALSE a datagram     *)
(* stays deliverable for ever: it may be delivered never, once or many     *)
(* times, in any order.  With Lossy = TRUE it is consumed by its delivery, *)
(* may vanish (Lose), and a datagram that finds NetCap others in flight is *)
(* dropped, as a full socket buffer does; the fairness of the lossy link   *)
(* is stated in LiveSpec.                                                  *)
(***************************************************************************)
Post(net, msgs) ==
    IF Lossy /\ Cardinality(net \cup msgs) > NetCap THEN net ELSE net \cup msgs

Taken(net, m) == IF Lossy THEN net \ {m} ELSE net

LoseData(p) ==
    /\ Lossy
    /\ p \in dataNet
    /\ dataNet' = dataNet \ {p}
    /\ UNCHANGED <<sndVars, rcvVars, ackNet>>

LoseAck(m) ==
    /\ Lossy
    /\ m \in ackNet
    /\ ackNet' = ackNet \ {m}
    /\ UNCHANGED <<sndVars, rcvVars, dataNet>>

Lose == (\E p \in dataNet : LoseData(p)) \/ (\E m \in ackNet : LoseAck(m))

-----------------------------------------------------------------------------
(* The sender *)

(***************************************************************************)
(* prepareXmit: the header is copied into the packet, the sequence number  *)
(* advances.                                                               *)
(***************************************************************************)
PrepareXmit(flags) ==
    /\ sndFlags' = flags
    /\ pktFlags' = [pktFlags EXCEPT ![sndSeq] = flags]
    /\ sndSeq' = sndSeq + 1

(***************************************************************************)
(* sendBuffers, run on the queues, capacity, state and network its caller  *)
(* left: buffers are popped and sent up to packet `last'.  The loop goes   *)
(* on until there is no capacity or nothing to send, but sends one packet  *)
(* at a time while the connection is being set up; with loss-based flow    *)
(* control it may stop at the shared congestion window, once the           *)
(* connection has an outstanding packet.                                   *)
(***************************************************************************)
SendBuffers(snd, unack, cap, isStarted, net) ==
    \E last \in {sentSeq} \cup snd :
        LET batch == {s \in snd : s <= last}
            count == last - sentSeq
        IN
        /\ count >= 0
        /\ count <= cap
        /\ ~isStarted => (batch = {} \/ (unack = {} /\ count = 1))
        /\ \/ count = cap
           \/ batch = snd
           \/ unack \cup batch # {} /\ (~isStarted \/ FcMethod = "LOSS")
        /\ sndQueue' = snd \ batch
        /\ unackQueue' = unack \cup batch
        /\ capacity' = cap - count
        /\ sentSeq' = last
        /\ dataNet' = Post(net, batch)

(***************************************************************************)
(* getSndBuffer: with one connection the pool and the per-connection limit *)
(* agree, except that the pool has a spare buffer when the depth is 1.     *)
(***************************************************************************)
SndBuffers ==
    IF FcMethod = "LOSS" /\ SndQueueDepth = 1 THEN 2 ELSE SndQueueDepth

BufferAvailable(snd, unack) ==
    Cardinality(snd) + Cardinality(unack) < SndBuffers

(***************************************************************************)
(* SendChunkUDP when the chunk does not fit: the full packet is queued and *)
(* sent; then a new buffer is taken, at once if there is one (with         *)
(* loss-based flow control the timer check may force a pass through the    *)
(* loop first).                                                            *)
(***************************************************************************)
SendChunk ==
    /\ sphase = "run"
    /\ sndSeq < MaxSeq
    /\ PrepareXmit(sndFlags)
    /\ SendBuffers(sndQueue \cup {sndSeq}, unackQueue, capacity, started,
                   dataNet)
    /\ sphase' \in (IF BufferAvailable(sndQueue', unackQueue')
                    THEN {"run"} \cup (IF FcMethod = "LOSS" THEN {"poll"} ELSE {})
                    ELSE {"poll"})
    /\ UNCHANGED <<receivedAckSeq, consumedSeq, started, sndStopRequested,
                   rcvVars, ackNet>>

(***************************************************************************)
(* The loop of SendChunkUDP ends with a new buffer; only then is a stop    *)
(* request handled.  handleStopMsgs prepares a last packet with EOS, and   *)
(* returns it with every queued buffer to the free list unsent.            *)
(***************************************************************************)
GetBuffer ==
    /\ sphase = "poll"
    /\ BufferAvailable(sndQueue, unackQueue)
    /\ ~sndStopRequested
    /\ sphase' = "run"
    /\ UNCHANGED <<sndSeq, sndFlags, pktFlags, sndQueue, unackQueue, capacity,
                   sentSeq, receivedAckSeq, consumedSeq, started,
                   sndStopRequested, rcvVars, netVars>>

HandleStopMsgs ==
    /\ sphase = "poll"
    /\ BufferAvailable(sndQueue, unackQueue)
    /\ sndStopRequested
    /\ PrepareXmit(sndFlags \cup {"EOS"})
    /\ sndQueue' = {}
    /\ unackQueue' = {}
    /\ sphase' = "done"
    /\ sndStopRequested' = FALSE
    /\ UNCHANGED <<capacity, sentSeq, receivedAckSeq, consumedSeq, started,
                   rcvVars, netVars>>

(***************************************************************************)
(* SendEosUDP: the packet in curBuff becomes the end of stream; the loop   *)
(* leaves when both queues are empty.  A stop request that arrives in this *)
(* loop is recorded but not handled.                                       *)
(***************************************************************************)
SendEos ==
    /\ sphase = "run"
    /\ sndSeq <= MaxSeq
    /\ PrepareXmit(sndFlags \cup {"EOS"})
    /\ SendBuffers(sndQueue \cup {sndSeq}, unackQueue, capacity, started,
                   dataNet)
    /\ sphase' = "eos"
    /\ UNCHANGED <<receivedAckSeq, consumedSeq, started, sndStopRequested,
                   rcvVars, ackNet>>

(* Mutant: SendEosUDP returns once all is sent, without waiting for acks. *)
EosDrainedUnacked ==
    /\ sphase = "eos"
    /\ sndQueue = {}
    /\ sphase' = "done"
    /\ UNCHANGED <<sndSeq, sndFlags, pktFlags, sndQueue, unackQueue, capacity,
                   sentSeq, receivedAckSeq, consumedSeq, started,
                   sndStopRequested, rcvVars, netVars>>

EosDrained ==
    /\ sphase = "eos"
    /\ sndQueue = {}
    /\ unackQueue = {}
    /\ sphase' = "done"
    /\ UNCHANGED <<sndSeq, sndFlags, pktFlags, sndQueue, unackQueue, capacity,
                   sentSeq, receivedAckSeq, consumedSeq, started,
                   sndStopRequested, rcvVars, netVars>>

-----------------------------------------------------------------------------
(* Acknowledgments, read in the loops of SendChunkUDP and SendEosUDP (for  *)
(* a finished connection, in the loop of another connection).              *)

Polling == sphase \in {"poll", "eos", "done"}

(***************************************************************************)
(* handleAckedPacket for each packet of acked, in increasing order:        *)
(* receivedAckSeq follows the packets that are at the head of the unack    *)
(* queue when they leave it.                                               *)
(***************************************************************************)
AckedHeads(acked) ==
    {s \in acked : \A t \in unackQueue \ acked : s < t}

NewReceivedAckSeq(acked) ==
    IF AckedHeads(acked) = {}
    THEN UNCHANGED receivedAckSeq
    ELSE /\ receivedAckSeq' \in AckedHeads(acked)
         /\ \A s \in AckedHeads(acked) : s <= receivedAckSeq'

(* Mutant: only new capacity makes the sender try to send. *)
AckedThenSendOnCapacityOnly(acked, cap, net) ==
    /\ NewReceivedAckSeq(acked)
    /\ started' = (started \/ 1 \in acked)
    /\ IF cap # capacity
       THEN SendBuffers(sndQueue, unackQueue \ acked, cap, started', net)
       ELSE /\ dataNet' = net
            /\ unackQueue' = unackQueue \ acked
            /\ UNCHANGED <<sndQueue, capacity, sentSeq>>

(***************************************************************************)
(* The end of handleAcks for one message: the acknowledged packets leave   *)
(* the unack queue and sendBuffers runs.  It is left out if nothing        *)
(* changed, unless a message read earlier in the same call of handleAcks   *)
(* changed something: shouldSendBuffers is not reset between messages.     *)
(***************************************************************************)
AckedThenSend(acked, cap, net) ==
    /\ NewReceivedAckSeq(acked)
    /\ started' = (started \/ 1 \in acked)
    /\ \/ SendBuffers(sndQueue, unackQueue \ acked, cap, started', net)
       \/ /\ acked = {}
          /\ cap = capacity
          /\ dataNet' = net
          /\ UNCHANGED <<sndQueue, unackQueue, capacity, sentSeq>>

(***************************************************************************)
(* handleAcks, a message with ACK and CAPACITY: consumption first, then    *)
(* stop, then the packets up to its seq; one older than receivedAckSeq     *)
(* only counts for its consumption.                                        *)
(***************************************************************************)
HandleAck(m) ==
    /\ Polling
    /\ m \in ackNet
    /\ m.kind = "ack"
    /\ ackNet' = Taken(ackNet, m)
    /\ consumedSeq' = IF m.extraSeq > consumedSeq THEN m.extraSeq
                                                  ELSE consumedSeq
    /\ LET stop == /\ m.stop
                   /\ m.seq >= receivedAckSeq
                   /\ ~sndStopRequested
                   /\ sphase # "done"
       IN  /\ sndStopRequested' = (sndStopRequested \/ stop)
           /\ sndFlags' = IF stop THEN sndFlags \cup {"STOP"} ELSE sndFlags
    /\ AckedThenSend(IF m.seq > receivedAckSeq
                     THEN {s \in unackQueue : s <= m.seq} ELSE {},
                     capacity + (consumedSeq' - consumedSeq), dataNet)
    /\ UNCHANGED <<sphase, sndSeq, pktFlags, rcvVars>>

(***************************************************************************)
(* handleAckForDuplicatePkt: everything up to extraSeq and the packet seq. *)
(***************************************************************************)
HandleDuplicateAck(m) ==
    /\ Polling
    /\ m \in ackNet
    /\ m.kind = "dup"
    /\ m.seq > m.extraSeq
    /\ ackNet' = Taken(ackNet, m)
    /\ AckedThenSend({s \in unackQueue : s <= m.extraSeq \/ s = m.seq},
                     capacity, dataNet)
    /\ UNCHANGED <<sphase, sndSeq, sndFlags, pktFlags, consumedSeq,
                   sndStopRequested, rcvVars>>

(* Mutant: a listed packet is dropped from the queue, not only sent again. *)
DisorderAckedAll(m) == {s \in unackQueue : s <= m.seq}

(***************************************************************************)
(* handleAckForDisorderPkt: the listed packets are sent again; those       *)
(* between them have been received.  The walk over the unack queue stops   *)
(* when the list is exhausted, so packet seq itself is only removed if a   *)
(* listed one after the last outstanding packet is left over.              *)
(***************************************************************************)
DisorderAcked(m) ==
    {s \in unackQueue :
        \/ s < m.seq /\ s \notin m.lost /\ \E l \in m.lost : s < l
        \/ s = m.seq /\ \E l \in m.lost :
                            \A t \in unackQueue : t < m.seq => t < l}

(***************************************************************************)
(* The static variables times and lastSeq that decide whether a disorder   *)
(* message is acted upon are shared by all connections of the process and  *)
(* survive its statements: seen from one connection the choice is free.    *)
(***************************************************************************)
HandleDisorderAck(m) ==
    /\ Polling
    /\ m \in ackNet
    /\ m.kind = "disorder"
    /\ ackNet' = Taken(ackNet, m)
    /\ \/ AckedThenSend(DisorderAcked(m), capacity,
                        Post(dataNet, unackQueue \cap m.lost))
       \/ AckedThenSend({}, capacity, dataNet)
    /\ UNCHANGED <<sphase, sndSeq, sndFlags, pktFlags, consumedSeq,
                   sndStopRequested, rcvVars>>

-----------------------------------------------------------------------------
(* Timers, consulted by checkExceptions in the same loops *)

(***************************************************************************)
(* checkExpirationCapacityFC resends the head of the unack queue;          *)
(* checkExpiration (loss-based flow control) any packet whose slot of the  *)
(* unack queue ring has expired.                                           *)
(***************************************************************************)
CheckExpiration(s) ==
    /\ sphase \in {"poll", "eos"}
    /\ s \in unackQueue
    /\ FcMethod = "CAPACITY" => s = Min(unackQueue)
    /\ dataNet' = Post(dataNet, {s})
    /\ UNCHANGED <<sndVars, rcvVars, ackNet>>

(***************************************************************************)
(* checkDeadlock: everything sent is acknowledged, yet there is no         *)
(* capacity to send what is queued.                                        *)
(***************************************************************************)
OutOfCapacity == unackQueue = {} /\ capacity = 0 /\ sndQueue # {}

(* Mutant: the status query is only sent while packets are outstanding. *)
CheckDeadlockOutstanding ==
    /\ sphase \in {"poll", "eos"}
    /\ unackQueue # {} /\ capacity = 0
    /\ dataNet' = Post(dataNet, {Query})
    /\ UNCHANGED <<sndVars, rcvVars, ackNet>>

CheckDeadlock ==
    /\ sphase \in {"poll", "eos"}
    /\ OutOfCapacity
    /\ dataNet' = Post(dataNet, {Query})
    /\ UNCHANGED <<sndVars, rcvVars, ackNet>>

(***************************************************************************)
(* checkNetworkTimeout, and the same test in checkDeadlock: the statement  *)
(* is aborted.                                                             *)
(***************************************************************************)
NetworkTimeout ==
    /\ sphase \in {"poll", "eos"}
    /\ unackQueue # {} \/ OutOfCapacity
    /\ sphase' = "error"
    /\ UNCHANGED <<sndSeq, sndFlags, pktFlags, sndQueue, unackQueue, capacity,
                   sentSeq, receivedAckSeq, consumedSeq, started,
                   sndStopRequested, rcvVars, netVars>>

-----------------------------------------------------------------------------
(***************************************************************************)
(* The rx thread: handleDataPacket, one action per branch.  A packet it    *)
(* drops without touching the connection needs no action.                  *)
(***************************************************************************)
IsEos(p) == "EOS" \in pktFlags[p]

HeadSeq == rcvSeq - pkt_q_size

(* The two branches that drop a packet: a stop that was not requested, and *)
(* a packet for which there is no room.                                    *)
UnrequestedStop(p) == ~rcvStopRequested /\ "STOP" \in pktFlags[p]
Overrun(p) == pkt_q_size = QueueDepth \/ p - HeadSeq >= QueueDepth

(* What every packet but a status query does first. *)
RxPacket(p) ==
    /\ p \in dataNet \ {Query}
    /\ ~UnrequestedStop(p)
    /\ peerKnown' = (peerKnown \/ p <= QueueDepth)
    /\ dataNet' = Taken(dataNet, p)
    /\ UNCHANGED <<sndVars, extraSeq, rcvStopRequested, pBuff, stopped, delivered>>

(* Mutants: a stopped receiver answers like any other; the answer reports  *)
(* received packets as consumed.                                           *)
RxStatusQueryIgnoresStop ==
    /\ Query \in dataNet
    /\ dataNet' = Taken(dataNet, Query)
    /\ ackNet' = Post(ackNet, {Ack(RcvStopFlag, rcvSeq - 1, extraSeq)})
    /\ UNCHANGED <<sndVars, rcvVars>>

RxStatusQueryOvergrants ==
    /\ Query \in dataNet
    /\ dataNet' = Taken(dataNet, Query)
    /\ ackNet' = Post(ackNet, {Ack(RcvStopFlag, rcvSeq - 1, rcvSeq - 1)})
    /\ UNCHANGED <<sndVars, rcvVars>>

RxStatusQuery ==
    /\ Query \in dataNet
    /\ dataNet' = Taken(dataNet, Query)
    /\ ackNet' = Post(ackNet, {Ack(RcvStopFlag, rcvSeq - 1,
                        IF rcvStopRequested THEN rcvSeq - 1 ELSE extraSeq)})
    /\ UNCHANGED <<sndVars, rcvVars>>

RxStopRequested(p) ==
    /\ RxPacket(p)
    /\ rcvStopRequested
    /\ rcvActive
    /\ rcvFlags' = IF IsEos(p) THEN rcvFlags \cup {"EOS"} ELSE rcvFlags
    /\ rcvSeq' = IF rcvSeq < p THEN p ELSE rcvSeq
    /\ rcvActive' = ~IsEos(p)
    /\ ackNet' = Post(ackNet, {Ack(TRUE, p, p)})
    /\ UNCHANGED ringVars

RxAlreadyReceived(p) ==
    /\ RxPacket(p)
    /\ ~(rcvStopRequested /\ rcvActive)
    /\ p < rcvSeq
    /\ ackNet' = Post(ackNet, {Ack(RcvStopFlag, rcvSeq - 1, extraSeq)})
    /\ UNCHANGED <<rcvSeq, rcvFlags, ringVars, rcvActive>>

RxInactive(p) ==
    /\ RxPacket(p)
    /\ p >= rcvSeq
    /\ ~rcvActive
    /\ rcvSeq' = p
    /\ ackNet' = Post(ackNet, {Ack(TRUE, p, p)})
    /\ UNCHANGED <<rcvFlags, ringVars, rcvActive>>

(* A packet the connection is waiting for and has room for. *)
RxExpected(p) ==
    /\ RxPacket(p)
    /\ rcvActive
    /\ ~rcvStopRequested
    /\ p >= rcvSeq
    /\ ~Overrun(p)
    /\ UNCHANGED rcvActive

(***************************************************************************)
(* The packet at the tail: the tail moves over it and over the packets     *)
(* that had arrived early, n in all.                                       *)
(***************************************************************************)
RxInOrder(p) ==
    /\ RxExpected(p)
    /\ pkt_q[SlotOf(p)] = 0
    /\ SlotOf(p) = pkt_q_tail
    /\ pkt_q' = [pkt_q EXCEPT ![pkt_q_tail] = p]
    /\ \E n \in 1 .. (QueueDepth - pkt_q_size) :
        LET At(i) == pkt_q'[(pkt_q_tail + i) % QueueDepth]
        IN  /\ \A i \in 0 .. (n - 1) : At(i) # 0
            /\ n = QueueDepth - pkt_q_size \/ At(n) = 0
            /\ pkt_q_size' = pkt_q_size + n
            /\ pkt_q_tail' = (pkt_q_tail + n) % QueueDepth
            /\ rcvSeq' = rcvSeq + n
            /\ rcvFlags' = IF IsEos(At(n - 1)) THEN rcvFlags \cup {"EOS"}
                                               ELSE rcvFlags
    /\ ackNet' = Post(ackNet, {Ack(RcvStopFlag, rcvSeq' - 1, extraSeq)})
    /\ UNCHANGED pkt_q_head

(***************************************************************************)
(* handleDisorderPacket: the first MaxLostSeqs empty slots between the     *)
(* tail and the packet.                                                    *)
(***************************************************************************)
Missing(p) == {s \in rcvSeq .. (p - 1) : pkt_q[SlotOf(s)] = 0}

(* Mutant: an early packet is put at the tail. *)
RxDisorderAtTail(p) ==
    /\ RxExpected(p)
    /\ pkt_q[SlotOf(p)] = 0
    /\ SlotOf(p) # pkt_q_tail
    /\ pkt_q' = [pkt_q EXCEPT ![pkt_q_tail] = p]
    /\ pkt_q_tail' = NextSlot(pkt_q_tail)
    /\ pkt_q_size' = pkt_q_size + 1
    /\ rcvSeq' = rcvSeq + 1
    /\ ackNet' = Post(ackNet, {Ack(RcvStopFlag, rcvSeq, extraSeq)})
    /\ UNCHANGED <<rcvFlags, pkt_q_head>>

RxDisorder(p) ==
    /\ RxExpected(p)
    /\ pkt_q[SlotOf(p)] = 0
    /\ SlotOf(p) # pkt_q_tail
    /\ pkt_q' = [pkt_q EXCEPT ![SlotOf(p)] = p]
    /\ ackNet' = Post(ackNet,
          {[kind |-> "disorder", stop |-> RcvStopFlag, seq |-> p,
            extraSeq |-> rcvSeq - 1,
            lost |-> {s \in Missing(p) :
                        Cardinality({t \in Missing(p) : t < s}) < MaxLostSeqs}]})
    /\ UNCHANGED <<rcvSeq, rcvFlags, pkt_q_head, pkt_q_tail, pkt_q_size>>

RxDuplicate(p) ==
    /\ RxExpected(p)
    /\ pkt_q[SlotOf(p)] # 0
    /\ ackNet' = Post(ackNet,
          {[kind |-> "dup", stop |-> RcvStopFlag, seq |-> p,
            extraSeq |-> rcvSeq - 1, lost |-> {}]})
    /\ UNCHANGED <<rcvSeq, rcvFlags, ringVars>>

HandleDataPacket(p) ==
    \/ RxStopRequested(p)
    \/ RxAlreadyReceived(p)
    \/ RxInactive(p)
    \/ RxInOrder(p)
    \/ RxDisorder(p)
    \/ RxDuplicate(p)

-----------------------------------------------------------------------------
(* The receiver's main thread *)

(***************************************************************************)
(* prepareRxConnForRead, reached from RecvTupleChunkFromAny and            *)
(* RecvTupleChunkFrom when there is a packet at the head.  A stopped       *)
(* motion node is not read any more.                                       *)
(***************************************************************************)
PrepareRxConnForRead ==
    /\ pBuff = 0
    /\ ~stopped
    /\ pkt_q_size > 0
    /\ pBuff' = pkt_q[pkt_q_head]
    /\ delivered' = Append(delivered, pkt_q[pkt_q_head])
    /\ UNCHANGED <<sndVars, rcvSeq, extraSeq, rcvFlags, ringVars, rcvActive,
                   rcvStopRequested, peerKnown, stopped, netVars>>

(* The end-of-stream chunk: addChunkToSorter deregisters the connection. *)
MarkConnInactive ==
    /\ pBuff # 0
    /\ IsEos(pBuff)
    /\ rcvActive
    /\ rcvActive' = FALSE
    /\ UNCHANGED <<sndVars, rcvSeq, extraSeq, rcvFlags, ringVars,
                   rcvStopRequested, peerKnown, pBuff, stopped, delivered,
                   netVars>>

AcksConsumption(s) == s % 2 = 0 \/ QueueDepth = 1

(* Mutant: the slot is not cleared. *)
PutRxBufferKeepsSlot ==
    /\ pBuff # 0
    /\ IsEos(pBuff) => ~rcvActive
    /\ pBuff' = 0
    /\ pkt_q_head' = NextSlot(pkt_q_head)
    /\ pkt_q_size' = pkt_q_size - 1
    /\ extraSeq' = pkt_q[pkt_q_head]
    /\ ackNet' = Post(ackNet, {Ack(RcvStopFlag, rcvSeq - 1, extraSeq')})
    /\ UNCHANGED <<sndVars, rcvSeq, rcvFlags, pkt_q, pkt_q_tail, rcvActive,
                   rcvStopRequested, peerKnown, stopped, delivered, dataNet>>

(* MlPutRxBuffer, putRxBufferAndSendAck *)
PutRxBuffer ==
    /\ pBuff # 0
    /\ IsEos(pBuff) => ~rcvActive
    /\ pBuff' = 0
    /\ pkt_q' = [pkt_q EXCEPT ![pkt_q_head] = 0]
    /\ pkt_q_head' = NextSlot(pkt_q_head)
    /\ pkt_q_size' = pkt_q_size - 1
    /\ extraSeq' = pkt_q[pkt_q_head]
    /\ ackNet' = IF AcksConsumption(extraSeq')
                 THEN Post(ackNet, {Ack(RcvStopFlag, rcvSeq - 1, extraSeq')})
                 ELSE ackNet
    /\ UNCHANGED <<sndVars, rcvSeq, rcvFlags, pkt_q_tail, rcvActive,
                   rcvStopRequested, peerKnown, stopped, delivered, dataNet>>

(***************************************************************************)
(* SendStopMessage, doSendStopMessageUDP.  If the end of stream is already *)
(* queued the ring is drained with putRxBufferAndSendAck; otherwise the    *)
(* sender is told, if its address is known.                                *)
(***************************************************************************)
StopQueuedEos ==
    /\ pBuff = 0
    /\ ~stopped
    /\ rcvActive
    /\ "EOS" \in rcvFlags
    /\ stopped' = TRUE
    /\ rcvActive' = FALSE
    /\ pkt_q' = [i \in Slot |-> IF pkt_q[i] \in HeadSeq .. (rcvSeq - 1)
                                THEN 0 ELSE pkt_q[i]]
    /\ pkt_q_head' = pkt_q_tail
    /\ pkt_q_size' = 0
    /\ extraSeq' = rcvSeq - 1
    /\ ackNet' = Post(ackNet, {Ack(RcvStopFlag, rcvSeq - 1, s) :
                        s \in {t \in HeadSeq .. (rcvSeq - 1) : AcksConsumption(t)}})
    /\ UNCHANGED <<sndVars, rcvSeq, rcvFlags, pkt_q_tail, rcvStopRequested,
                   peerKnown, pBuff, delivered, dataNet>>

StopSender ==
    /\ pBuff = 0
    /\ ~stopped
    /\ rcvActive
    /\ "EOS" \notin rcvFlags
    /\ stopped' = TRUE
    /\ rcvStopRequested' = TRUE
    /\ rcvFlags' = rcvFlags \cup {"STOP"}
    /\ ackNet' = IF peerKnown
                 THEN Post(ackNet, {Ack(TRUE, rcvSeq - 1, rcvSeq - 1)})
                 ELSE ackNet
    /\ UNCHANGED <<sndVars, rcvSeq, extraSeq, ringVars, rcvActive, peerKnown,
                   pBuff, delivered, dataNet>>

(* doSendStopMessageUDP leaves an inactive connection alone. *)
StopInactive ==
    /\ pBuff = 0
    /\ ~stopped
    /\ ~rcvActive
    /\ stopped' = TRUE
    /\ UNCHANGED <<sndVars, rcvSeq, extraSeq, rcvFlags, ringVars, rcvActive,
                   rcvStopRequested, peerKnown, pBuff, delivered, netVars>>

-----------------------------------------------------------------------------
SenderStep == SendChunk \/ GetBuffer \/ HandleStopMsgs \/ SendEos \/ EosDrained

HandleAcks ==
    \E m \in ackNet : HandleAck(m) \/ HandleDuplicateAck(m) \/ HandleDisorderAck(m)

TimerStep == (\E s \in unackQueue : CheckExpiration(s)) \/ CheckDeadlock

RxThread == RxStatusQuery \/ \E p \in dataNet : HandleDataPacket(p)

ReadStep == PrepareRxConnForRead \/ MarkConnInactive \/ PutRxBuffer

StopStep == StopQueuedEos \/ StopSender \/ StopInactive

Next ==
    \/ SenderStep
    \/ HandleAcks
    \/ TimerStep
    \/ NetworkTimeout
    \/ RxThread
    \/ ReadStep
    \/ StopStep
    \/ Lose

Spec == Init /\ [][Next]_vars

(***************************************************************************)
(* Fairness.  The sending process keeps producing and, in its loops, keeps *)
(* polling and consulting its timers; the rx thread runs; the receiving    *)
(* executor keeps reading until it stops.  The lossy link delivers a       *)
(* message that is sent again and again.  Nothing is assumed of            *)
(* NetworkTimeout, StopStep and Lose.                                      *)
(***************************************************************************)
HandleAckOf(s) == \E m \in ackNet : m.seq = s /\ HandleAck(m)

Fairness ==
    /\ WF_vars(SenderStep)
    /\ WF_vars(HandleAcks)
    /\ \A s \in 1 .. MaxSeq : SF_vars(CheckExpiration(s))
    /\ SF_vars(CheckDeadlock)
    /\ WF_vars(ReadStep)
    /\ SF_vars(RxStatusQuery)
    /\ \A p \in 1 .. MaxSeq : SF_vars(HandleDataPacket(p))
    /\ \A s \in SeqNum : SF_vars(HandleAckOf(s))

LiveSpec == Spec /\ Fairness

-----------------------------------------------------------------------------
(***************************************************************************)
(* Safety.                                                                 *)
(***************************************************************************)
Buffered == {pkt_q[i] : i \in Slot} \ {0}

(***************************************************************************)
(* The receiver's queue-full branch, which the code marks "This indicates  *)
(* a bug", is never taken: no packet on the wire, however old, finds the   *)
(* ring of a live connection full or lies outside its window.              *)
(***************************************************************************)
NoOverrun ==
    \A p \in dataNet \ {Query} :
        (rcvActive /\ ~rcvStopRequested /\ p >= rcvSeq) => ~Overrun(p)

(***************************************************************************)
(* The sender forgets a packet it has sent only if the receiver has it in  *)
(* its ring or has already consumed it, or does not want it any more.      *)
(***************************************************************************)
AckSoundness ==
    \A s \in 1 .. sentSeq :
        \/ s \in unackQueue
        \/ s < rcvSeq
        \/ s \in Buffered
        \/ rcvStopRequested

(***************************************************************************)
(* The sender's credit is exact: capacity is what is left of the ring if   *)
(* only the packets it knows to be consumed have left it, and it never     *)
(* believes more consumed than has been (a stopped receiver grants all).   *)
(***************************************************************************)
CapacityExact ==
    /\ capacity = consumedSeq + QueueDepth - sentSeq
    /\ consumedSeq <= IF rcvStopRequested THEN sentSeq ELSE extraSeq

(***************************************************************************)
(* The ring: packet s sits only in its slot and only while it is in the    *)
(* window; the slots from head to tail are full; head and tail are where   *)
(* extraSeq and rcvSeq say.  (A stopped connection gives up its ring.)     *)
(***************************************************************************)
RingFaithful ==
    ~rcvStopRequested =>
        /\ HeadSeq = extraSeq + 1
        /\ pkt_q_head = SlotOf(HeadSeq)
        /\ pkt_q_tail = SlotOf(rcvSeq)
        /\ \A s \in HeadSeq .. (rcvSeq - 1) : pkt_q[SlotOf(s)] = s
        /\ \A i \in Slot : pkt_q[i] # 0 =>
                /\ SlotOf(pkt_q[i]) = i
                /\ pkt_q[i] \in HeadSeq .. (extraSeq + QueueDepth)
                /\ pkt_q[i] # rcvSeq

(***************************************************************************)
(* The executor gets the packets of the stream in order, each once, and    *)
(* nothing after the end of stream.                                        *)
(***************************************************************************)
InOrderDelivery ==
    /\ \A i \in 1 .. Len(delivered) : delivered[i] = i
    /\ \A i \in 1 .. (Len(delivered) - 1) : ~IsEos(delivered[i])

(***************************************************************************)
(* A duplicate message always names a packet beyond its extraSeq: the      *)
(* branch "invalid duplicate message" of handleAckForDuplicatePkt, and the *)
(* branch of handleDataPacket that drops a stop that was not requested,    *)
(* are never taken.                                                        *)
(***************************************************************************)
NoInvalidMessage ==
    /\ \A m \in ackNet : m.kind = "dup" => m.seq > m.extraSeq
    /\ \A m \in ackNet : m.kind = "disorder" => m.lost # {}
    /\ \A p \in dataNet \ {Query} : ~UnrequestedStop(p)

(***************************************************************************)
(* "Here, we make assure that a connection can have at least one           *)
(* outstanding buffer" (sendBuffers): something queued and nothing         *)
(* outstanding means there is no capacity, the case checkDeadlock handles. *)
(***************************************************************************)
NoStall == sndQueue # {} /\ unackQueue = {} => capacity = 0

(***************************************************************************)
(* A sender that is done has had everything up to its end of stream        *)
(* accepted, unless the receiver asked it to stop.                         *)
(***************************************************************************)
DoneMeansAccepted ==
    sphase = "done" /\ ~rcvStopRequested =>
        /\ sentSeq = sndSeq - 1
        /\ rcvSeq = sndSeq
        /\ IsEos(sentSeq)

-----------------------------------------------------------------------------
(***************************************************************************)
(* The inductive invariant behind these properties, in parts.              *)
(***************************************************************************)
Received(s) == s < rcvSeq \/ s \in Buffered

(* The sender's bookkeeping. *)
SenderInv ==
    /\ receivedAckSeq <= sentSeq
    /\ sentSeq < sndSeq
    /\ consumedSeq <= sentSeq
    /\ capacity = consumedSeq + QueueDepth - sentSeq
    /\ \A s \in unackQueue : receivedAckSeq < s /\ s <= sentSeq
    /\ sphase # "done" => sndQueue = (sentSeq + 1) .. (sndSeq - 1)
    /\ sphase = "done" => sndQueue = {} /\ unackQueue = {}
    /\ sphase \in {"run", "poll"} => sndSeq <= MaxSeq
    /\ sndStopRequested => rcvStopRequested
    /\ NoStall

(* Only the last packet prepared carries EOS, and only after SendEosUDP or *)
(* handleStopMsgs; one of the latter is never sent.                        *)
EosInv ==
    /\ \A s \in 1 .. MaxSeq : s >= sndSeq => pktFlags[s] = {}
    /\ \A s \in 1 .. MaxSeq : IsEos(s) =>
            /\ s = sndSeq - 1
            /\ sphase \in {"eos", "done", "error"}
    /\ ~rcvStopRequested => \A s \in 1 .. MaxSeq : "STOP" \notin pktFlags[s]
    /\ "STOP" \in sndFlags => rcvStopRequested
    /\ "EOS" \in sndFlags <=> (sndSeq > 1 /\ IsEos(sndSeq - 1))
    /\ sphase = "eos" => "EOS" \in sndFlags

(* The receiver, while it wants packets. *)
ReceiverInv ==
    /\ rcvSeq <= sentSeq + 1
    /\ extraSeq <= sentSeq
    /\ pBuff # 0 => ~stopped /\ pkt_q_size > 0 /\ pBuff = extraSeq + 1
    /\ rcvStopRequested => stopped
    /\ "STOP" \in rcvFlags => rcvStopRequested
    /\ \A i \in Slot : pkt_q[i] <= sentSeq
    /\ ~rcvStopRequested =>
        /\ RingFaithful
        /\ ("EOS" \in rcvFlags \/ ~rcvActive) => rcvSeq > 1 /\ IsEos(rcvSeq - 1)

(* What a message under way still says about the receiver. *)
AckMsgInv(m) ==
    /\ m.seq <= sentSeq
    /\ m.extraSeq <= sentSeq
    /\ m.stop => rcvStopRequested
    /\ ~rcvStopRequested => Received(m.extraSeq)
    /\ ~rcvStopRequested => Received(m.seq)
    /\ m.kind = "ack" /\ ~rcvStopRequested =>
            m.extraSeq <= extraSeq /\ m.seq < rcvSeq
    /\ m.kind = "dup" => m.extraSeq < m.seq /\ (~rcvStopRequested => m.extraSeq < rcvSeq)
    /\ m.kind = "disorder" =>
            /\ m.lost # {}
            /\ ~rcvStopRequested =>
                 \A s \in 1 .. m.seq : \A l \in m.lost :
                    s < l /\ s \notin m.lost => Received(s)

NetInv ==
    /\ \A p \in dataNet : p <= sentSeq
    /\ \A m \in ackNet : AckMsgInv(m)

DeliveryInv ==
    /\ ~stopped => Len(delivered) = IF pBuff = 0 THEN extraSeq ELSE extraSeq + 1
    /\ Len(delivered) <= sentSeq
    /\ \A i \in 1 .. Len(delivered) : delivered[i] = i

(***************************************************************************)
(* Everything the safety properties rest on, in one formula every step of  *)
(* the connection preserves.                                               *)
(***************************************************************************)
IndInv ==
    /\ TypeOK
    /\ SenderInv
    /\ EosInv
    /\ ReceiverInv
    /\ NetInv
    /\ AckSoundness
    /\ ~rcvStopRequested => consumedSeq <= extraSeq
    /\ DoneMeansAccepted
    /\ DeliveryInv

-----------------------------------------------------------------------------
(***************************************************************************)
(* The connection implements the stream of UdpStream: what the receiver    *)
(* has in sequence is accepted, whatever acknowledgments are still under   *)
(* way; after a stop only what the executor already has.                   *)
(***************************************************************************)
Stream == INSTANCE UdpStream WITH
    sent <- sndSeq - 1,
    ended <- "EOS" \in sndFlags,
    accepted <- IF stopped THEN Len(delivered) ELSE rcvSeq - 1,
    sender <- CASE sphase = "done" -> "finished"
                [] sphase = "error" -> "failed"
                [] OTHER -> "open"

StreamSpec == Stream!Spec

-----------------------------------------------------------------------------
(***************************************************************************)
(* Liveness.                                                               *)
(***************************************************************************)
Failed == sphase = "error"

(***************************************************************************)
(* Whatever the network loses, the stream comes to an end: the sender's    *)
(* SendEosUDP returns and the executor has been given every packet, unless *)
(* the receiver stopped or the sender gave up with an error.               *)
(***************************************************************************)
StreamCompletes ==
    <>(Failed \/ stopped \/ (sphase = "done" /\ Len(delivered) = sentSeq))

(***************************************************************************)
(* A receiver that stops does not leave its sender waiting, even if its    *)
(* stop message is lost or could not be sent because the sender's address  *)
(* was not known yet.                                                      *)
(***************************************************************************)
StopHonoured == stopped ~> (sphase = "done" \/ Failed)
=============================================================================
