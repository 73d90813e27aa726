---------------------------- MODULE UdpConnProofs ----------------------------
(***************************************************************************)
(* Proofs about UdpConn, for every queue depth, stream length and network: *)
(* IndInv is inductive, hence the safety properties of one connection.     *)
(***************************************************************************)
EXTENDS UdpConn, RingArith, FiniteSetTheorems, TLAPS

-----------------------------------------------------------------------------
(* A connection as startOutgoingUDPConnections leaves it satisfies IndInv. *)
LEMMA InitInv == Init => IndInv
  <1> SUFFICES ASSUME Init PROVE IndInv
    OBVIOUS
  <1> USE ConstAssumption
  <1>1. TypeOK
    <2>1. SndTypeOK
      <3>1. pktFlags \in [1 .. MaxSeq -> SUBSET {"STOP", "EOS"}]
        BY DEF Init
      <3>2. sndFlags \in SUBSET {"STOP", "EOS"}
        BY DEF Init
      <3>3. sphase \in Phases
        BY DEF Init, Phases
      <3>4. /\ sndQueue \in SUBSET (1 .. MaxSeq)
            /\ unackQueue \in SUBSET (1 .. MaxSeq)
        BY DEF Init
      <3>5. /\ sndSeq \in 1 .. (MaxSeq + 1)
            /\ capacity \in 0 .. QueueDepth
            /\ sentSeq \in SeqNum
            /\ receivedAckSeq \in SeqNum
            /\ consumedSeq \in SeqNum
        BY DEF Init, SeqNum
      <3>6. started \in BOOLEAN /\ sndStopRequested \in BOOLEAN
        BY DEF Init
      <3> QED
        BY <3>1, <3>2, <3>3, <3>4, <3>5, <3>6 DEF SndTypeOK
    <2>2. RcvTypeOK
      BY DEF Init, RcvTypeOK, SeqNum, Slot
    <2>3. NetTypeOK
      BY DEF Init, NetTypeOK
    <2> QED
      BY <2>1, <2>2, <2>3 DEF TypeOK
  <1>2. SenderInv
    BY DEF Init, SenderInv, NoStall
  <1>3. EosInv
    BY DEF Init, EosInv, IsEos
  <1>4. ReceiverInv
    <2>1. SlotOf(1) = 0
      BY ModSmall DEF SlotOf
    <2>2. RingFaithful
      BY <2>1 DEF Init, RingFaithful, HeadSeq, Slot
    <2> QED
      BY <2>2 DEF Init, ReceiverInv, Slot
  <1>5. NetInv /\ AckSoundness /\ DoneMeansAccepted /\ DeliveryInv
    BY DEF Init, NetInv, AckSoundness, DoneMeansAccepted, DeliveryInv
  <1> QED
    BY <1>1, <1>2, <1>3, <1>4, <1>5 DEF IndInv, Init

-----------------------------------------------------------------------------
(* Packets prepared and not sent are packets of the stream. *)
LEMMA QueueRange ==
    ASSUME NEW s \in SeqNum, NEW e \in 1 .. (MaxSeq + 1)
    PROVE  (s + 1) .. (e - 1) \subseteq 1 .. MaxSeq
  BY ConstAssumption DEF SeqNum

(* Credit that is not negative is at most the depth of the ring. *)
LEMMA CreditRange ==
    ASSUME NEW consumed \in Int, NEW depth \in Int, NEW sent \in Int, NEW credit,
           credit = consumed + depth - sent, consumed <= sent, credit >= 0
    PROVE  credit \in 0 .. depth
  OBVIOUS

(* Posting adds at most the messages posted. *)
LEMMA PostSubset ==
    ASSUME NEW net, NEW msgs
    PROVE  Post(net, msgs) \subseteq net \cup msgs
  BY DEF Post

(* Receiving adds nothing to the network. *)
LEMMA TakenSubset ==
    ASSUME NEW net, NEW m
    PROVE  Taken(net, m) \subseteq net
  BY DEF Taken

(***************************************************************************)
(* What sendBuffers does to the queues of a connection that has packets    *)
(* sentSeq + 1 up to next - 1 in its send queue.                           *)
(***************************************************************************)
LEMMA SendBuffersFacts ==
    ASSUME sentSeq \in SeqNum,
           NEW next \in 1 .. (MaxSeq + 1), sentSeq < next,
           NEW snd, snd = (sentSeq + 1) .. (next - 1),
           NEW unack \in SUBSET (1 .. MaxSeq),
           NEW cap \in Nat,
           NEW isStarted,
           NEW net,
           SendBuffers(snd, unack, cap, isStarted, net)
    PROVE  /\ sentSeq' \in SeqNum
           /\ sentSeq <= sentSeq'
           /\ sentSeq' < next
           /\ sndQueue' = (sentSeq' + 1) .. (next - 1)
           /\ unackQueue' = unack \cup ((sentSeq + 1) .. sentSeq')
           /\ capacity' = cap - (sentSeq' - sentSeq)
           /\ capacity' \in 0 .. cap
           /\ dataNet' \subseteq net \cup ((sentSeq + 1) .. sentSeq')
           /\ NoStall'
  <1> USE ConstAssumption DEF SeqNum
  <1>1. PICK last \in {sentSeq} \cup snd :
            LET batch == {s \in snd : s <= last}
                count == last - sentSeq
            IN
            /\ count >= 0
            /\ count <= cap
            /\ \/ count = cap
               \/ batch = snd
               \/ unack \cup batch # {} /\ (~isStarted \/ FcMethod = "LOSS")
            /\ sndQueue' = snd \ batch
            /\ unackQueue' = unack \cup batch
            /\ capacity' = cap - count
            /\ sentSeq' = last
            /\ dataNet' = Post(net, batch)
    BY DEF SendBuffers
  <1> DEFINE batch == {s \in snd : s <= last}
  <1>2. last \in SeqNum /\ sentSeq <= last /\ last < next
    BY <1>1
  <1>3. batch = (sentSeq + 1) .. last
    BY <1>1, <1>2
  <1>4. snd \ batch = (last + 1) .. (next - 1)
    BY <1>2, <1>3
  <1>5. NoStall'
    <2>1. CASE last - sentSeq = cap
      BY <1>1, <1>2, <2>1 DEF NoStall
    <2>2. CASE batch = snd
      BY <1>1, <2>2 DEF NoStall
    <2>3. CASE unack \cup batch # {}
      BY <1>1, <2>3 DEF NoStall
    <2> QED
      BY <1>1, <2>1, <2>2, <2>3
  <1>6. dataNet' \subseteq net \cup batch
    BY <1>1, PostSubset
  <1> QED
    BY <1>1, <1>2, <1>3, <1>4, <1>5, <1>6

-----------------------------------------------------------------------------
(* Steps of the sender *)

(***************************************************************************)
(* A step that leaves the receiver alone, sends only packets up to         *)
(* sentSeq' and does not rewrite the header of a sent packet keeps the     *)
(* receiver's part of the invariant.                                       *)
(***************************************************************************)
LEMMA SenderFrame ==
    ASSUME IndInv,
           UNCHANGED rcvVars,
           sentSeq' \in SeqNum, sentSeq <= sentSeq',
           ackNet' \subseteq ackNet,
           dataNet' \subseteq 0 .. sentSeq',
           \A s \in 1 .. sentSeq : pktFlags'[s] = pktFlags[s]
    PROVE  /\ RcvTypeOK'
           /\ NetTypeOK'
           /\ ReceiverInv'
           /\ NetInv'
           /\ DeliveryInv'
  <1> USE ConstAssumption DEF SeqNum
  <1>1. RcvTypeOK'
    BY DEF IndInv, TypeOK, RcvTypeOK, rcvVars, ringVars, Slot
  <1>2. NetTypeOK'
    BY DEF IndInv, TypeOK, NetTypeOK
  <1>3. sentSeq \in 0 .. MaxSeq /\ rcvSeq \in 1 .. (MaxSeq + 1) /\ rcvSeq - 1 <= sentSeq
    BY DEF IndInv, TypeOK, SndTypeOK, RcvTypeOK, ReceiverInv
  <1>4. ReceiverInv'
    <2>1. \A i \in Slot : pkt_q'[i] <= sentSeq'
      BY <1>3 DEF IndInv, TypeOK, RcvTypeOK, ReceiverInv, rcvVars, ringVars, Slot
    <2>2. ~rcvStopRequested => RingFaithful'
      BY DEF IndInv, ReceiverInv, RingFaithful, HeadSeq, SlotOf, Slot, rcvVars, ringVars
    <2>3. ~rcvStopRequested /\ ("EOS" \in rcvFlags \/ ~rcvActive) =>
            rcvSeq > 1 /\ IsEos(rcvSeq - 1)'
      <3>1. rcvSeq > 1 => IsEos(rcvSeq - 1)' = IsEos(rcvSeq - 1)
        BY <1>3 DEF IsEos, rcvVars
      <3> QED
        BY <3>1 DEF IndInv, ReceiverInv
    <2>4. extraSeq \in 0 .. MaxSeq
      BY DEF IndInv, TypeOK, RcvTypeOK
    <2>5. rcvSeq' <= sentSeq' + 1 /\ extraSeq' <= sentSeq'
      BY <1>3, <2>4 DEF IndInv, ReceiverInv, rcvVars
    <2>6. pBuff' # 0 => ~stopped' /\ pkt_q_size' > 0 /\ pBuff' = extraSeq' + 1
      BY DEF IndInv, ReceiverInv, rcvVars, ringVars
    <2>7. /\ rcvStopRequested' => stopped'
          /\ "STOP" \in rcvFlags' => rcvStopRequested'
      BY DEF IndInv, ReceiverInv, rcvVars
    <2>8. ~rcvStopRequested' =>
            /\ RingFaithful'
            /\ ("EOS" \in rcvFlags' \/ ~rcvActive') => rcvSeq' > 1 /\ IsEos(rcvSeq - 1)'
      BY <2>2, <2>3 DEF rcvVars
    <2> QED
      BY <2>1, <2>5, <2>6, <2>7, <2>8 DEF ReceiverInv
  <1>5. NetInv'
    <2>1. \A p \in dataNet' : p <= sentSeq'
      OBVIOUS
    <2>2. ASSUME NEW m \in ackNet PROVE AckMsgInv(m)'
      <3>1. m \in AckMsg /\ AckMsgInv(m)
        BY DEF IndInv, TypeOK, NetTypeOK, NetInv
      <3>2. \A s : Received(s)' = Received(s)
        BY DEF Received, Buffered, Slot, rcvVars, ringVars
      <3>3. m.seq <= sentSeq' /\ m.extraSeq <= sentSeq'
        BY <1>3, <3>1 DEF AckMsgInv, AckMsg
      <3> QED
        BY <3>1, <3>2, <3>3 DEF AckMsgInv, rcvVars
    <2> QED
      BY <2>1, <2>2 DEF NetInv
  <1>6. DeliveryInv'
    <2>1. Len(delivered) \in Nat
      BY DEF IndInv, TypeOK, RcvTypeOK
    <2> QED
      BY <1>3, <2>1 DEF IndInv, DeliveryInv, rcvVars
  <1> QED
    BY <1>1, <1>2, <1>4, <1>5, <1>6

(* The sequence number the send queue ends before. *)
QueueEnd == IF sphase = "done" THEN sentSeq + 1 ELSE sndSeq

(***************************************************************************)
(* AckedThenSend: acknowledged packets leave, others may be sent.          *)
(***************************************************************************)
LEMMA AckedFacts ==
    ASSUME IndInv,
           NEW acked \in SUBSET unackQueue,
           NEW cap \in Nat,
           NEW net, net \subseteq 0 .. sentSeq,
           AckedThenSend(acked, cap, net)
    PROVE  /\ sentSeq' \in SeqNum
           /\ sentSeq <= sentSeq'
           /\ sentSeq' < QueueEnd
           /\ sndQueue' = (sentSeq' + 1) .. (QueueEnd - 1)
           /\ unackQueue' = (unackQueue \ acked) \cup ((sentSeq + 1) .. sentSeq')
           /\ capacity' = cap - (sentSeq' - sentSeq)
           /\ capacity' >= 0
           /\ dataNet' \subseteq 0 .. sentSeq'
           /\ receivedAckSeq' \in 0 .. sentSeq
           /\ \A s \in unackQueue' : receivedAckSeq' < s /\ s <= sentSeq'
           /\ started' \in BOOLEAN
           /\ NoStall'
  <1> USE ConstAssumption DEF SeqNum
  <1>1. /\ SndTypeOK
        /\ SenderInv
        /\ sentSeq \in SeqNum
        /\ receivedAckSeq \in 0 .. sentSeq
    BY DEF IndInv, TypeOK, SndTypeOK, SenderInv
  <1>2. /\ QueueEnd \in 1 .. (MaxSeq + 1)
        /\ sentSeq < QueueEnd
        /\ sndQueue = (sentSeq + 1) .. (QueueEnd - 1)
    <2>1. CASE sphase = "done"
      <3>1. (sentSeq + 1) .. (sentSeq + 1 - 1) = {}
        BY <1>1
      <3>2. QueueEnd = sentSeq + 1
        BY <2>1 DEF QueueEnd
      <3>3. sndQueue = {}
        BY <1>1, <2>1 DEF SenderInv
      <3> QED
        BY <1>1, <3>1, <3>2, <3>3
    <2>2. CASE sphase # "done"
      BY <1>1, <2>2 DEF SndTypeOK, SenderInv, QueueEnd
    <2> QED
      BY <2>1, <2>2
  <1>3. started' \in BOOLEAN
    BY DEF AckedThenSend
  <1>4. /\ sentSeq' \in SeqNum
        /\ sentSeq <= sentSeq'
        /\ sentSeq' < QueueEnd
        /\ sndQueue' = (sentSeq' + 1) .. (QueueEnd - 1)
        /\ unackQueue' = (unackQueue \ acked) \cup ((sentSeq + 1) .. sentSeq')
        /\ capacity' = cap - (sentSeq' - sentSeq)
        /\ capacity' >= 0
        /\ dataNet' \subseteq 0 .. sentSeq'
        /\ NoStall'
    <2>1. CASE SendBuffers(sndQueue, unackQueue \ acked, cap, started', net)
      <3>1. SendBuffers(sndQueue, unackQueue \ acked, cap, started', net)
        BY <2>1
      <3>2. unackQueue \ acked \in SUBSET (1 .. MaxSeq)
        BY <1>1 DEF SndTypeOK
      <3>3. dataNet' \subseteq net \cup ((sentSeq + 1) .. sentSeq')
        BY <1>1, <1>2, <1>3, <3>1, <3>2, SendBuffersFacts
      <3>4. /\ sentSeq' \in SeqNum
            /\ sentSeq <= sentSeq'
            /\ sentSeq' < QueueEnd
            /\ sndQueue' = (sentSeq' + 1) .. (QueueEnd - 1)
            /\ unackQueue' = (unackQueue \ acked) \cup ((sentSeq + 1) .. sentSeq')
            /\ capacity' = cap - (sentSeq' - sentSeq)
            /\ capacity' \in 0 .. cap
            /\ NoStall'
        BY <1>1, <1>2, <1>3, <3>1, <3>2, SendBuffersFacts
      <3>5. dataNet' \subseteq 0 .. sentSeq'
        <4>1. sentSeq \in Int /\ sentSeq' \in Int /\ 0 <= sentSeq /\ sentSeq <= sentSeq'
          BY <1>1, <3>4
        <4>2. 0 .. sentSeq \subseteq 0 .. sentSeq' /\ (sentSeq + 1) .. sentSeq' \subseteq 0 .. sentSeq'
          BY <4>1
        <4> QED
          BY <3>3, <4>2
      <3>6. capacity' >= 0
        BY <3>4
      <3> QED
        BY <3>4, <3>5, <3>6
    <2>2. CASE /\ acked = {}
               /\ cap = capacity
               /\ dataNet' = net
               /\ UNCHANGED <<sndQueue, unackQueue, capacity, sentSeq>>
      <3>1. /\ dataNet' = net
            /\ UNCHANGED <<sndQueue, unackQueue, capacity, sentSeq>>
        BY <2>2
      <3>2. NoStall'
        BY <1>1, <3>1 DEF SenderInv, NoStall
      <3>3. (sentSeq + 1) .. sentSeq = {}
        BY <1>1
      <3> QED
        BY <1>1, <1>2, <2>2, <3>1, <3>2, <3>3
    <2> QED
      BY <2>1, <2>2 DEF AckedThenSend
  <1>5. /\ receivedAckSeq' \in 0 .. sentSeq
        /\ \A s \in unackQueue \ acked : receivedAckSeq' < s /\ s <= sentSeq
    <2>1. NewReceivedAckSeq(acked)
      BY DEF AckedThenSend
    <2>2. CASE AckedHeads(acked) = {}
      BY <1>1, <2>1, <2>2 DEF NewReceivedAckSeq, SenderInv
    <2>3. CASE AckedHeads(acked) # {}
      <3>1. receivedAckSeq' \in AckedHeads(acked)
        BY <2>1, <2>3 DEF NewReceivedAckSeq
      <3> QED
        BY <1>1, <3>1 DEF AckedHeads, SenderInv, SndTypeOK
    <2> QED
      BY <2>2, <2>3
  <1>6. \A s \in unackQueue' : receivedAckSeq' < s /\ s <= sentSeq'
    <2>1. unackQueue \subseteq 1 .. MaxSeq
      BY <1>1 DEF SndTypeOK
    <2> QED
      BY <1>1, <1>4, <1>5, <2>1
  <1> QED
    BY <1>3, <1>4, <1>5, <1>6

(***************************************************************************)
(* A step of the sender that satisfies the frame conditions only has to    *)
(* establish the sender's part of the invariant.                           *)
(***************************************************************************)
LEMMA SenderAssemble ==
    ASSUME IndInv,
           UNCHANGED rcvVars,
           sentSeq <= sentSeq',
           ackNet' \subseteq ackNet,
           dataNet' \subseteq 0 .. sentSeq',
           \A s \in 1 .. sentSeq : pktFlags'[s] = pktFlags[s],
           SndTypeOK', SenderInv', EosInv', AckSoundness', DoneMeansAccepted',
           ~rcvStopRequested => consumedSeq' <= extraSeq
    PROVE  IndInv'
  <1>1. sentSeq' \in SeqNum
    BY DEF SndTypeOK
  <1>2. RcvTypeOK' /\ NetTypeOK' /\ ReceiverInv' /\ NetInv' /\ DeliveryInv'
    BY <1>1, SenderFrame
  <1>3. ~rcvStopRequested' => consumedSeq' <= extraSeq'
    BY DEF rcvVars
  <1> QED
    BY <1>2, <1>3 DEF IndInv, TypeOK

(***************************************************************************)
(* What the three kinds of acknowledgment have in common: the packets of   *)
(* acked, all received, leave the unack queue, and cap is the credit.      *)
(***************************************************************************)
AckOutcome(acked, cap, net) ==
    /\ AckedThenSend(acked, cap, net)
    /\ net \subseteq 0 .. sentSeq
    /\ UNCHANGED <<sphase, sndSeq, pktFlags, rcvVars>>
    /\ ackNet' \subseteq ackNet
    /\ consumedSeq' \in 0 .. sentSeq
    /\ cap = consumedSeq' + QueueDepth - sentSeq
    /\ ~rcvStopRequested => consumedSeq' <= extraSeq
    /\ \A s \in acked : rcvStopRequested \/ Received(s)
    /\ sndFlags' \in SUBSET {"STOP", "EOS"}
    /\ "STOP" \in sndFlags' => rcvStopRequested
    /\ "EOS" \in sndFlags' <=> "EOS" \in sndFlags
    /\ sndStopRequested' \in BOOLEAN
    /\ sndStopRequested' => rcvStopRequested

(* An acknowledgment with that outcome keeps IndInv. *)
LEMMA AcksStep ==
    ASSUME IndInv,
           NEW acked \in SUBSET unackQueue,
           NEW cap \in Nat,
           NEW net,
           AckOutcome(acked, cap, net)
    PROVE  IndInv'
  <1> USE ConstAssumption DEF SeqNum
  <1>0. AckedThenSend(acked, cap, net) /\ net \subseteq 0 .. sentSeq
    BY DEF AckOutcome
  <1>a. /\ UNCHANGED <<sphase, sndSeq, pktFlags, rcvVars>>
        /\ ackNet' \subseteq ackNet
        /\ ~rcvStopRequested => consumedSeq' <= extraSeq
    BY DEF AckOutcome
  <1>b. /\ consumedSeq' \in 0 .. sentSeq
        /\ cap = consumedSeq' + QueueDepth - sentSeq
    BY DEF AckOutcome
  <1>c. /\ sndFlags' \in SUBSET {"STOP", "EOS"}
        /\ "STOP" \in sndFlags' => rcvStopRequested
        /\ "EOS" \in sndFlags' <=> "EOS" \in sndFlags
        /\ sndStopRequested' \in BOOLEAN
        /\ sndStopRequested' => rcvStopRequested
    BY DEF AckOutcome
  <1>d. \A s \in acked : rcvStopRequested \/ Received(s)
    BY DEF AckOutcome
  <1>1. /\ SndTypeOK /\ SenderInv /\ EosInv /\ AckSoundness /\ DoneMeansAccepted
        /\ sentSeq \in SeqNum
        /\ sndSeq \in 1 .. (MaxSeq + 1)
        /\ sentSeq < sndSeq
        /\ unackQueue \subseteq 1 .. MaxSeq
    BY DEF IndInv, TypeOK, SndTypeOK, SenderInv
  <1>2. /\ sentSeq' \in SeqNum
        /\ sentSeq <= sentSeq'
        /\ sentSeq' < QueueEnd
        /\ sndQueue' = (sentSeq' + 1) .. (QueueEnd - 1)
        /\ unackQueue' = (unackQueue \ acked) \cup ((sentSeq + 1) .. sentSeq')
    BY <1>0, AckedFacts
  <1>3. /\ capacity' = cap - (sentSeq' - sentSeq)
        /\ capacity' >= 0
        /\ dataNet' \subseteq 0 .. sentSeq'
        /\ receivedAckSeq' \in 0 .. sentSeq
        /\ started' \in BOOLEAN
    BY <1>0, AckedFacts
  <1>4. /\ \A s \in unackQueue' : receivedAckSeq' < s /\ s <= sentSeq'
        /\ NoStall'
    BY <1>0, AckedFacts
  <1>5. QueueEnd \in 1 .. (MaxSeq + 1) /\ QueueEnd <= sndSeq
    BY <1>1 DEF QueueEnd
  <1>6. /\ UNCHANGED rcvVars
        /\ rcvStopRequested' = rcvStopRequested
    BY <1>a DEF rcvVars
  <1>7. SndTypeOK'
    <2>1. sphase' \in Phases /\ pktFlags' \in [1 .. MaxSeq -> SUBSET {"STOP", "EOS"}]
      BY <1>1, <1>a DEF SndTypeOK
    <2>2. /\ sndQueue' \in SUBSET (1 .. MaxSeq)
          /\ unackQueue' \in SUBSET (1 .. MaxSeq)
      <3>1. (sentSeq' + 1) .. (QueueEnd - 1) \subseteq 1 .. MaxSeq
        BY <1>2, <1>5, QueueRange, Zenon
      <3>2. (sentSeq + 1) .. sentSeq' \subseteq 1 .. MaxSeq
        BY <1>1, <1>2
      <3> QED
        BY <1>1, <1>2, <3>1, <3>2
    <2>3. capacity' \in 0 .. QueueDepth
      <3>1. sentSeq \in Int /\ sentSeq' \in Int /\ consumedSeq' \in Int /\ QueueDepth \in Int
        BY <1>1, <1>2, <1>b
      <3>2. sentSeq <= sentSeq' /\ consumedSeq' <= sentSeq
        BY <1>1, <1>2, <1>b
      <3>3. capacity' = consumedSeq' + QueueDepth - sentSeq'
        BY <1>b, <1>3, <3>1
      <3>4. capacity' >= 0
        BY <1>3
      <3> QED
        <4>1. consumedSeq' <= sentSeq'
          BY <3>1, <3>2
        <4> QED
          BY <3>1, <3>3, <3>4, <4>1, CreditRange, Zenon
    <2>4. /\ sndSeq' \in 1 .. (MaxSeq + 1)
          /\ receivedAckSeq' \in SeqNum
          /\ consumedSeq' \in SeqNum
      BY <1>1, <1>3, <1>a, <1>b
    <2> QED
      BY <2>1, <2>2, <2>3, <2>4, <1>2, <1>3, <1>c DEF SndTypeOK
  <1>8. SenderInv'
    <2>1. /\ receivedAckSeq' <= sentSeq'
          /\ sentSeq' < sndSeq'
          /\ consumedSeq' <= sentSeq'
          /\ capacity' = consumedSeq' + QueueDepth - sentSeq'
      BY <1>1, <1>2, <1>3, <1>5, <1>a, <1>b
    <2>2. sphase' # "done" => sndQueue' = (sentSeq' + 1) .. (sndSeq' - 1)
      BY <1>2, <1>a DEF QueueEnd
    <2>3. sphase' = "done" => sndQueue' = {} /\ unackQueue' = {}
      <3> SUFFICES ASSUME sphase = "done" PROVE sndQueue' = {} /\ unackQueue' = {}
        BY <1>a
      <3>1. unackQueue = {} /\ QueueEnd = sentSeq + 1
        BY <1>1 DEF SenderInv, QueueEnd
      <3>2. sentSeq' = sentSeq
        BY <1>1, <1>2, <3>1
      <3> QED
        BY <1>1, <1>2, <3>1, <3>2
    <2>4. sphase' \in {"run", "poll"} => sndSeq' <= MaxSeq
      BY <1>1, <1>a DEF SenderInv
    <2>5. sndStopRequested' => rcvStopRequested'
      BY <1>6, <1>c
    <2> QED
      BY <1>4, <2>1, <2>2, <2>3, <2>4, <2>5 DEF SenderInv
  <1>9. EosInv'
    <2>1. \A s : IsEos(s)' = IsEos(s)
      BY <1>a DEF IsEos
    <2>2. /\ \A s \in 1 .. MaxSeq : s >= sndSeq' => pktFlags'[s] = {}
          /\ \A s \in 1 .. MaxSeq : IsEos(s)' =>
                /\ s = sndSeq' - 1
                /\ sphase' \in {"eos", "done", "error"}
          /\ ~rcvStopRequested' => \A s \in 1 .. MaxSeq : "STOP" \notin pktFlags'[s]
      BY <1>1, <1>6, <1>a, <2>1 DEF EosInv
    <2>3. "STOP" \in sndFlags' => rcvStopRequested'
      BY <1>6, <1>c
    <2>4. "EOS" \in sndFlags' <=> (sndSeq' > 1 /\ IsEos(sndSeq - 1)')
      <3>1. IsEos(sndSeq - 1)' <=> IsEos(sndSeq - 1)
        BY <1>a DEF IsEos
      <3> QED
        BY <1>1, <1>a, <1>c, <3>1 DEF EosInv
    <2>5. sphase' = "eos" => "EOS" \in sndFlags'
      BY <1>1, <1>a, <1>c DEF EosInv
    <2> QED
      BY <2>2, <2>3, <2>4, <2>5 DEF EosInv
  <1>10. AckSoundness'
    <2> SUFFICES ASSUME NEW s \in 1 .. sentSeq', s \notin unackQueue', ~rcvStopRequested
                 PROVE  Received(s)
      BY <1>6 DEF AckSoundness, Received, Buffered, Slot, rcvVars, ringVars
    <2>1. s \in 1 .. sentSeq
      BY <1>1, <1>2
    <2>2. s \notin unackQueue \/ s \in acked
      BY <1>2
    <2> QED
      BY <1>1, <1>d, <2>1, <2>2 DEF AckSoundness, Received
  <1>11. DoneMeansAccepted'
    <2> SUFFICES ASSUME sphase = "done", ~rcvStopRequested
                 PROVE  sentSeq' = sndSeq' - 1 /\ rcvSeq' = sndSeq' /\ IsEos(sentSeq)'
      BY <1>6, <1>a DEF DoneMeansAccepted
    <2>1. QueueEnd = sentSeq + 1
      BY DEF QueueEnd
    <2>2. sentSeq' = sentSeq
      BY <1>1, <1>2, <2>1
    <2>3. sentSeq = sndSeq - 1 /\ rcvSeq = sndSeq /\ IsEos(sentSeq)
      BY <1>1 DEF DoneMeansAccepted
    <2> QED
      BY <1>a, <2>2, <2>3 DEF IsEos, rcvVars
  <1> QED
    BY <1>a, <1>2, <1>3, <1>7, <1>8, <1>9, <1>10, <1>11, SenderAssemble

(* Every datagram is a status query or a packet that was sent. *)
LEMMA DataNetRange ==
    ASSUME IndInv
    PROVE  /\ dataNet \subseteq 0 .. sentSeq
           /\ sentSeq \in 0 .. MaxSeq
  <1> USE ConstAssumption DEF SeqNum
  <1>1. sentSeq \in 0 .. MaxSeq
    BY DEF IndInv, TypeOK, SndTypeOK
  <1> QED
    BY <1>1 DEF IndInv, TypeOK, NetTypeOK, NetInv

(* handleAcks, a message with ACK and CAPACITY. *)
LEMMA HandleAckInv ==
    ASSUME IndInv, NEW m, HandleAck(m)
    PROVE  IndInv'
  <1> DEFINE acked == IF m.seq > receivedAckSeq
                      THEN {s \in unackQueue : s <= m.seq} ELSE {}
             cap == capacity + (consumedSeq' - consumedSeq)
  <1> USE ConstAssumption DEF SeqNum
  <1>1. /\ m \in AckMsg
        /\ AckMsgInv(m)
        /\ m.kind = "ack"
    BY DEF HandleAck, IndInv, TypeOK, NetTypeOK, NetInv
  <1>2. /\ m.seq \in 0 .. MaxSeq /\ m.extraSeq \in 0 .. MaxSeq
        /\ m.extraSeq <= sentSeq
        /\ m.stop => rcvStopRequested
        /\ ~rcvStopRequested => m.extraSeq <= extraSeq /\ m.seq < rcvSeq
    BY <1>1 DEF AckMsg, AckMsgInv
  <1>3. /\ sentSeq \in 0 .. MaxSeq
        /\ consumedSeq \in 0 .. MaxSeq
        /\ consumedSeq <= sentSeq
        /\ capacity \in 0 .. QueueDepth
        /\ capacity = consumedSeq + QueueDepth - sentSeq
        /\ rcvSeq \in 1 .. (MaxSeq + 1)
        /\ unackQueue \subseteq 1 .. MaxSeq
    BY DEF IndInv, TypeOK, SndTypeOK, RcvTypeOK, SenderInv
  <1>4. consumedSeq' = IF m.extraSeq > consumedSeq THEN m.extraSeq ELSE consumedSeq
    BY DEF HandleAck
  <1>5. consumedSeq' \in 0 .. sentSeq /\ consumedSeq <= consumedSeq'
    BY <1>2, <1>3, <1>4
  <1>6. /\ cap \in Nat
        /\ cap = consumedSeq' + QueueDepth - sentSeq
    <2>1. ASSUME NEW c \in Int, consumedSeq <= c
          PROVE  /\ capacity + (c - consumedSeq) \in Nat
                 /\ capacity + (c - consumedSeq) = c + QueueDepth - sentSeq
      BY <1>3, <2>1
    <2>2. consumedSeq' \in Int
      BY <1>3, <1>5
    <2> QED
      BY <1>5, <2>1, <2>2, Zenon
  <1>7. acked \in SUBSET unackQueue
    OBVIOUS
  <1>8. AckOutcome(acked, cap, dataNet)
    <2>1. AckedThenSend(acked, cap, dataNet)
      BY DEF HandleAck
    <2>2. UNCHANGED <<sphase, sndSeq, pktFlags, rcvVars>>
      BY DEF HandleAck
    <2>3. ackNet' \subseteq ackNet
      BY TakenSubset DEF HandleAck
    <2>4. ~rcvStopRequested => consumedSeq' <= extraSeq
      BY <1>2, <1>4 DEF IndInv
    <2>5. \A s \in acked : rcvStopRequested \/ Received(s)
      BY <1>2, <1>3 DEF Received
    <2>6. /\ sndFlags' \in SUBSET {"STOP", "EOS"}
          /\ "STOP" \in sndFlags' => rcvStopRequested
          /\ "EOS" \in sndFlags' <=> "EOS" \in sndFlags
      <3>1. /\ sndFlags \in SUBSET {"STOP", "EOS"}
            /\ "STOP" \in sndFlags => rcvStopRequested
        BY DEF IndInv, TypeOK, SndTypeOK, EosInv
      <3>2. sndFlags' = sndFlags \/ (m.stop /\ sndFlags' = sndFlags \cup {"STOP"})
        BY DEF HandleAck
      <3> QED
        BY <1>2, <3>1, <3>2
    <2>7. /\ sndStopRequested' \in BOOLEAN
          /\ sndStopRequested' => rcvStopRequested
      <3>1. sndStopRequested \in BOOLEAN /\ (sndStopRequested => rcvStopRequested)
        BY DEF IndInv, TypeOK, SndTypeOK, SenderInv
      <3>2. /\ sndStopRequested' \in BOOLEAN
            /\ sndStopRequested' => sndStopRequested \/ m.stop
        BY DEF HandleAck
      <3> QED
        BY <1>2, <3>1, <3>2
    <2>8. dataNet \subseteq 0 .. sentSeq
      BY DataNetRange
    <2> HIDE DEF acked, cap
    <2> QED
      BY <1>5, <1>6, <2>1, <2>2, <2>3, <2>4, <2>5, <2>6, <2>7, <2>8 DEF AckOutcome
  <1> HIDE DEF acked, cap
  <1> QED
    BY <1>6, <1>7, <1>8, AcksStep

(***************************************************************************)
(* The other two kinds leave consumption and the stop request alone.       *)
(***************************************************************************)
LEMMA PlainAcksStep ==
    ASSUME IndInv,
           NEW acked \in SUBSET unackQueue,
           NEW net \in SUBSET (0 .. sentSeq),
           AckedThenSend(acked, capacity, net),
           ackNet' \subseteq ackNet,
           UNCHANGED <<sphase, sndSeq, sndFlags, pktFlags, consumedSeq,
                       sndStopRequested, rcvVars>>,
           \A s \in acked : rcvStopRequested \/ Received(s)
    PROVE  IndInv'
  <1> USE ConstAssumption DEF SeqNum
  <1>1. /\ sentSeq \in 0 .. MaxSeq
        /\ consumedSeq \in 0 .. MaxSeq
        /\ consumedSeq <= sentSeq
        /\ capacity \in 0 .. QueueDepth
        /\ capacity = consumedSeq + QueueDepth - sentSeq
    BY DEF IndInv, TypeOK, SndTypeOK, SenderInv
  <1>2. AckOutcome(acked, capacity, net)
    <2>1. sndFlags' \in SUBSET {"STOP", "EOS"} /\ ("STOP" \in sndFlags' => rcvStopRequested)
      BY DEF IndInv, TypeOK, SndTypeOK, EosInv
    <2>2. /\ sndStopRequested' \in BOOLEAN
          /\ sndStopRequested' => rcvStopRequested
      BY DEF IndInv, TypeOK, SndTypeOK, SenderInv
    <2>3. ~rcvStopRequested => consumedSeq' <= extraSeq
      BY DEF IndInv
    <2>4. /\ consumedSeq' \in 0 .. sentSeq
          /\ capacity = consumedSeq' + QueueDepth - sentSeq
          /\ net \subseteq 0 .. sentSeq
      BY <1>1
    <2>5. UNCHANGED <<sphase, sndSeq, pktFlags, rcvVars>> /\ sndFlags' = sndFlags
      OBVIOUS
    <2> QED
      BY <2>1, <2>2, <2>3, <2>4, <2>5 DEF AckOutcome
  <1>3. capacity \in Nat
    BY <1>1
  <1> QED
    BY <1>2, <1>3, AcksStep

(* handleAckForDuplicatePkt. *)
LEMMA HandleDuplicateAckInv ==
    ASSUME IndInv, NEW m, HandleDuplicateAck(m)
    PROVE  IndInv'
  <1> DEFINE acked == {s \in unackQueue : s <= m.extraSeq \/ s = m.seq}
  <1> USE ConstAssumption DEF SeqNum
  <1>1. /\ m \in AckMsg
        /\ AckMsgInv(m)
        /\ m.kind = "dup"
    BY DEF HandleDuplicateAck, IndInv, TypeOK, NetTypeOK, NetInv
  <1>2. /\ m.extraSeq \in 0 .. MaxSeq
        /\ ~rcvStopRequested => m.extraSeq < rcvSeq /\ Received(m.seq)
    BY <1>1 DEF AckMsg, AckMsgInv
  <1>3. rcvSeq \in 1 .. (MaxSeq + 1) /\ unackQueue \subseteq 1 .. MaxSeq
    BY DEF IndInv, TypeOK, SndTypeOK, RcvTypeOK
  <1>4. \A s \in acked : rcvStopRequested \/ Received(s)
    BY <1>2, <1>3 DEF Received
  <1>5. AckedThenSend(acked, capacity, dataNet)
    BY DEF HandleDuplicateAck
  <1>6. ackNet' \subseteq ackNet
    BY TakenSubset DEF HandleDuplicateAck
  <1>7. UNCHANGED <<sphase, sndSeq, sndFlags, pktFlags, consumedSeq,
                    sndStopRequested, rcvVars>>
    BY DEF HandleDuplicateAck
  <1>8. acked \in SUBSET unackQueue
    OBVIOUS
  <1>9. dataNet \in SUBSET (0 .. sentSeq)
    BY DataNetRange
  <1> HIDE DEF acked
  <1> QED
    BY <1>4, <1>5, <1>6, <1>7, <1>8, <1>9, PlainAcksStep

(* handleAckForDisorderPkt. *)
LEMMA HandleDisorderAckInv ==
    ASSUME IndInv, NEW m, HandleDisorderAck(m)
    PROVE  IndInv'
  <1> USE ConstAssumption DEF SeqNum
  <1>1. /\ m \in AckMsg
        /\ AckMsgInv(m)
        /\ m.kind = "disorder"
    BY DEF HandleDisorderAck, IndInv, TypeOK, NetTypeOK, NetInv
  <1>2. /\ m.seq \in 0 .. MaxSeq
        /\ unackQueue \subseteq 1 .. MaxSeq
    BY <1>1 DEF AckMsg, IndInv, TypeOK, SndTypeOK
  <1>3. \A s \in DisorderAcked(m) : rcvStopRequested \/ Received(s)
    <2> SUFFICES ASSUME NEW s \in DisorderAcked(m), ~rcvStopRequested PROVE Received(s)
      OBVIOUS
    <2>1. s \in unackQueue
      BY DEF DisorderAcked
    <2>2. CASE s = m.seq
      BY <1>1, <2>2 DEF AckMsgInv
    <2>3. CASE s < m.seq /\ s \notin m.lost /\ \E l \in m.lost : s < l
      <3>1. PICK l \in m.lost : s < l
        BY <2>3
      <3>2. s \in 1 .. m.seq
        <4>1. s \in 1 .. MaxSeq
          BY <1>2, <2>1
        <4>2. s <= m.seq
          BY <1>2, <2>3, <4>1
        <4> QED
          BY <1>2, <4>1, <4>2
      <3> QED
        BY <1>1, <2>3, <3>1, <3>2 DEF AckMsgInv
    <2> QED
      BY <2>2, <2>3 DEF DisorderAcked
  <1>4. ackNet' \subseteq ackNet
    BY TakenSubset DEF HandleDisorderAck
  <1>5. UNCHANGED <<sphase, sndSeq, sndFlags, pktFlags, consumedSeq,
                    sndStopRequested, rcvVars>>
    BY DEF HandleDisorderAck
  <1>6. CASE AckedThenSend(DisorderAcked(m), capacity, Post(dataNet, unackQueue \cap m.lost))
    <2>1. DisorderAcked(m) \in SUBSET unackQueue
      BY DEF DisorderAcked
    <2>2. Post(dataNet, unackQueue \cap m.lost) \in SUBSET (0 .. sentSeq)
      <3>1. unackQueue \subseteq 0 .. sentSeq
        BY <1>2, DataNetRange DEF IndInv, SenderInv
      <3>2. Post(dataNet, unackQueue \cap m.lost) \subseteq dataNet \cup (unackQueue \cap m.lost)
        BY PostSubset
      <3>3. dataNet \subseteq 0 .. sentSeq
        BY DataNetRange
      <3> QED
        BY <3>1, <3>2, <3>3, Zenon
    <2> QED
      BY <1>3, <1>4, <1>5, <1>6, <2>1, <2>2, PlainAcksStep
  <1>7. CASE AckedThenSend({}, capacity, dataNet)
    <2>1. dataNet \in SUBSET (0 .. sentSeq)
      BY DataNetRange
    <2> QED
      BY <1>4, <1>5, <1>7, <2>1, PlainAcksStep
  <1> QED
    BY <1>6, <1>7 DEF HandleDisorderAck

(***************************************************************************)
(* SendChunk and SendEos: a packet is prepared, queued, and maybe sent.    *)
(***************************************************************************)
PreparedAndSent(flags) ==
    /\ sphase = "run"
    /\ sndSeq <= MaxSeq
    /\ PrepareXmit(flags)
    /\ SendBuffers(sndQueue \cup {sndSeq}, unackQueue, capacity, started, dataNet)
    /\ UNCHANGED <<receivedAckSeq, consumedSeq, started, sndStopRequested, rcvVars, ackNet>>
    /\ \/ flags = sndFlags /\ sphase' \in {"run", "poll"} /\ sndSeq < MaxSeq
       \/ flags = sndFlags \cup {"EOS"} /\ sphase' = "eos"

(* prepareXmit and sendBuffers, by SendChunkUDP or SendEosUDP. *)
LEMMA PreparedAndSentInv ==
    ASSUME IndInv, NEW flags, PreparedAndSent(flags)
    PROVE  IndInv'
  <1> USE ConstAssumption DEF SeqNum
  <1>1. /\ SndTypeOK /\ SenderInv /\ EosInv /\ AckSoundness
        /\ sentSeq \in 0 .. MaxSeq
        /\ sndSeq \in 1 .. MaxSeq
        /\ sentSeq < sndSeq
        /\ unackQueue \in SUBSET (1 .. MaxSeq)
        /\ capacity \in 0 .. QueueDepth
        /\ consumedSeq \in 0 .. MaxSeq
        /\ consumedSeq <= sentSeq
        /\ receivedAckSeq \in 0 .. sentSeq
    BY DEF IndInv, TypeOK, SndTypeOK, SenderInv, PreparedAndSent
  <1>2. /\ sphase = "run"
        /\ PrepareXmit(flags)
        /\ UNCHANGED <<receivedAckSeq, consumedSeq, started, sndStopRequested, rcvVars, ackNet>>
    BY DEF PreparedAndSent
  <1>3. \/ flags = sndFlags /\ sphase' \in {"run", "poll"} /\ sndSeq < MaxSeq
        \/ flags = sndFlags \cup {"EOS"} /\ sphase' = "eos"
    BY DEF PreparedAndSent
  <1> DEFINE next == sndSeq + 1
             snd == sndQueue \cup {sndSeq}
  <1>4. /\ next \in 1 .. (MaxSeq + 1)
        /\ sentSeq < next
        /\ snd = (sentSeq + 1) .. (next - 1)
    <2>1. sndQueue = (sentSeq + 1) .. (sndSeq - 1)
      BY <1>1, <1>2 DEF SenderInv
    <2> QED
      BY <1>1, <2>1
  <1>5. SendBuffers(snd, unackQueue, capacity, started, dataNet)
    BY DEF PreparedAndSent
  <1>6. capacity \in Nat
    BY <1>1
  <1> HIDE DEF next, snd
  <1>7. /\ sentSeq' \in SeqNum
        /\ sentSeq <= sentSeq'
        /\ sentSeq' < next
    BY <1>1, <1>4, <1>5, <1>6, SendBuffersFacts
  <1>8. /\ sndQueue' = (sentSeq' + 1) .. (next - 1)
        /\ unackQueue' = unackQueue \cup ((sentSeq + 1) .. sentSeq')
    BY <1>1, <1>4, <1>5, <1>6, SendBuffersFacts
  <1>9. /\ capacity' = capacity - (sentSeq' - sentSeq)
        /\ capacity' \in 0 .. capacity
        /\ NoStall'
    BY <1>1, <1>4, <1>5, <1>6, SendBuffersFacts
  <1>10. dataNet' \subseteq dataNet \cup ((sentSeq + 1) .. sentSeq')
    BY <1>1, <1>4, <1>5, <1>6, SendBuffersFacts
  <1>11. sndSeq' = next
    BY <1>2 DEF PrepareXmit, next
  <1>12. /\ "EOS" \notin sndFlags
         /\ \A s \in 1 .. MaxSeq : ~IsEos(s)
         /\ sndFlags \in SUBSET {"STOP", "EOS"}
         /\ pktFlags \in [1 .. MaxSeq -> SUBSET {"STOP", "EOS"}]
         /\ "STOP" \in sndFlags => rcvStopRequested
    <2>1. \A s \in 1 .. MaxSeq : ~IsEos(s)
      BY <1>1, <1>2 DEF EosInv
    <2>2. sndSeq > 1 => sndSeq - 1 \in 1 .. MaxSeq
      BY <1>1
    <2> QED
      BY <1>1, <2>1, <2>2 DEF EosInv, SndTypeOK
  <1>13. /\ sndFlags' = flags
         /\ flags \in SUBSET {"STOP", "EOS"}
         /\ "STOP" \in flags => rcvStopRequested
         /\ "EOS" \in flags <=> sphase' = "eos"
         /\ sphase' \in {"run", "poll", "eos"}
    BY <1>2, <1>3, <1>12 DEF PrepareXmit
  <1>14. /\ pktFlags' \in [1 .. MaxSeq -> SUBSET {"STOP", "EOS"}]
         /\ pktFlags'[sndSeq] = flags
         /\ \A s \in 1 .. MaxSeq : s # sndSeq => pktFlags'[s] = pktFlags[s]
    BY <1>1, <1>2, <1>12, <1>13 DEF PrepareXmit
  <1>15. \A s \in 1 .. sentSeq : pktFlags'[s] = pktFlags[s]
    BY <1>1, <1>14
  <1>16. dataNet' \subseteq 0 .. sentSeq'
    <2>1. sentSeq \in Int /\ sentSeq' \in Int /\ 0 <= sentSeq /\ sentSeq <= sentSeq'
      BY <1>1, <1>7
    <2>2. 0 .. sentSeq \subseteq 0 .. sentSeq' /\ (sentSeq + 1) .. sentSeq' \subseteq 0 .. sentSeq'
      BY <2>1
    <2> QED
      BY <1>10, <2>2, DataNetRange
  <1>17. UNCHANGED rcvVars /\ rcvStopRequested' = rcvStopRequested
    BY <1>2 DEF rcvVars
  <1>18. SndTypeOK'
    <2>1. sphase' \in Phases
      BY <1>13 DEF Phases
    <2>2. sndQueue' \in SUBSET (1 .. MaxSeq)
      BY <1>4, <1>7, <1>8, QueueRange
    <2>3. unackQueue' \in SUBSET (1 .. MaxSeq)
      <3>1. (sentSeq + 1) .. sentSeq' \subseteq 1 .. MaxSeq
        BY <1>1, <1>7
      <3> QED
        BY <1>1, <1>8, <3>1
    <2>4. capacity' \in 0 .. QueueDepth
      BY <1>1, <1>9
    <2>5. /\ receivedAckSeq' \in SeqNum
          /\ consumedSeq' \in SeqNum
          /\ sndSeq' \in 1 .. (MaxSeq + 1)
      BY <1>1, <1>2, <1>4, <1>11
    <2>6. started' \in BOOLEAN /\ sndStopRequested' \in BOOLEAN
      BY <1>1, <1>2 DEF SndTypeOK
    <2> QED
      BY <1>7, <1>13, <1>14, <2>1, <2>2, <2>3, <2>4, <2>5, <2>6 DEF SndTypeOK
  <1>19. SenderInv'
    <2>1. /\ receivedAckSeq' <= sentSeq'
          /\ sentSeq' < sndSeq'
          /\ consumedSeq' <= sentSeq'
      BY <1>1, <1>2, <1>7, <1>11
    <2>2. capacity' = consumedSeq' + QueueDepth - sentSeq'
      <3>1. capacity = consumedSeq + QueueDepth - sentSeq
        BY <1>1 DEF SenderInv
      <3>2. sentSeq' \in Int
        BY <1>7
      <3> QED
        BY <1>1, <1>2, <1>9, <3>1, <3>2
    <2>3. \A s \in unackQueue' : receivedAckSeq' < s /\ s <= sentSeq'
      BY <1>1, <1>2, <1>7, <1>8 DEF SenderInv
    <2>4. sndQueue' = (sentSeq' + 1) .. (sndSeq' - 1)
      BY <1>8, <1>11
    <2>5. sphase' # "done"
      BY <1>13
    <2>6. sphase' \in {"run", "poll"} => sndSeq' <= MaxSeq
      BY <1>1, <1>3, <1>11 DEF next
    <2>7. sndStopRequested' => rcvStopRequested'
      BY <1>1, <1>2, <1>17 DEF SenderInv
    <2> QED
      BY <1>9, <2>1, <2>2, <2>3, <2>4, <2>5, <2>6, <2>7 DEF SenderInv
  <1>20. EosInv'
    <2>1. \A s \in 1 .. MaxSeq : s >= sndSeq' => pktFlags'[s] = {}
      BY <1>1, <1>11, <1>14 DEF EosInv, next
    <2>2. \A s \in 1 .. MaxSeq : s # sndSeq => ~IsEos(s)'
      BY <1>12, <1>14 DEF IsEos
    <2>3. \A s \in 1 .. MaxSeq : IsEos(s)' =>
                /\ s = sndSeq' - 1
                /\ sphase' \in {"eos", "done", "error"}
      BY <1>1, <1>11, <1>13, <1>14, <2>2 DEF next, IsEos
    <2>4. ~rcvStopRequested' => \A s \in 1 .. MaxSeq : "STOP" \notin pktFlags'[s]
      BY <1>1, <1>13, <1>14, <1>17 DEF EosInv
    <2>5. "STOP" \in sndFlags' => rcvStopRequested'
      BY <1>13, <1>17
    <2>6. sndSeq' > 1 /\ pktFlags'[sndSeq' - 1] = flags
      BY <1>1, <1>11, <1>14 DEF next
    <2>7. sphase' = "eos" => "EOS" \in sndFlags'
      BY <1>13
    <2> QED
      BY <1>13, <2>1, <2>3, <2>4, <2>5, <2>6, <2>7 DEF EosInv, IsEos
  <1>21. AckSoundness'
    <2> SUFFICES ASSUME NEW s \in 1 .. sentSeq', s \notin unackQueue', ~rcvStopRequested
                 PROVE  Received(s)
      BY <1>17 DEF AckSoundness, Received, Buffered, Slot, rcvVars, ringVars
    <2>1. s \in 1 .. sentSeq /\ s \notin unackQueue
      BY <1>1, <1>7, <1>8
    <2> QED
      BY <1>1, <2>1 DEF AckSoundness, Received
  <1>22. DoneMeansAccepted'
    BY <1>13 DEF DoneMeansAccepted
  <1>23. ackNet' \subseteq ackNet /\ (~rcvStopRequested => consumedSeq' <= extraSeq)
    BY <1>2 DEF IndInv
  <1> QED
    BY <1>7, <1>15, <1>16, <1>17, <1>18, <1>19, <1>20, <1>21, <1>22, <1>23, SenderAssemble

(* SendChunkUDP up to its loop. *)
LEMMA SendChunkInv == IndInv /\ SendChunk => IndInv'
  <1> SUFFICES ASSUME IndInv, SendChunk PROVE IndInv'
    OBVIOUS
  <1>1. PreparedAndSent(sndFlags)
    <2>1. sndSeq < MaxSeq /\ sndSeq <= MaxSeq
      BY ConstAssumption DEF SendChunk, IndInv, TypeOK, SndTypeOK
    <2>2. sphase' \in {"run", "poll"}
      BY DEF SendChunk
    <2> QED
      BY <2>1, <2>2 DEF SendChunk, PreparedAndSent
  <1> QED
    BY <1>1, PreparedAndSentInv

(* SendEosUDP up to its loop. *)
LEMMA SendEosInv == IndInv /\ SendEos => IndInv'
  <1> SUFFICES ASSUME IndInv, SendEos PROVE IndInv'
    OBVIOUS
  <1>1. PreparedAndSent(sndFlags \cup {"EOS"})
    BY DEF SendEos, PreparedAndSent
  <1> QED
    BY <1>1, PreparedAndSentInv

(***************************************************************************)
(* Steps that only resend or lose messages.                                *)
(***************************************************************************)
LEMMA NetworkOnly ==
    ASSUME IndInv,
           UNCHANGED <<sndVars, rcvVars>>,
           ackNet' \subseteq ackNet,
           dataNet' \subseteq 0 .. sentSeq
    PROVE  IndInv'
  <1>1. UNCHANGED rcvVars
    OBVIOUS
  <1>2. SndTypeOK'
    BY DEF IndInv, TypeOK, SndTypeOK, sndVars
  <1>3. SenderInv'
    BY DEF IndInv, SenderInv, NoStall, sndVars, rcvVars
  <1>4. EosInv'
    BY DEF IndInv, EosInv, IsEos, sndVars, rcvVars
  <1>5. AckSoundness'
    BY DEF IndInv, AckSoundness, Buffered, Slot, sndVars, rcvVars, ringVars
  <1>6. DoneMeansAccepted'
    BY DEF IndInv, DoneMeansAccepted, IsEos, sndVars, rcvVars
  <1>7. ~rcvStopRequested => consumedSeq' <= extraSeq
    BY DEF IndInv, sndVars
  <1>8. sentSeq' = sentSeq /\ pktFlags' = pktFlags
    BY DEF sndVars
  <1>9. sentSeq <= sentSeq'
    BY <1>8, DataNetRange, ConstAssumption
  <1>10. dataNet' \subseteq 0 .. sentSeq'
    BY <1>8
  <1> QED
    BY <1>1, <1>2, <1>3, <1>4, <1>5, <1>6, <1>7, <1>8, <1>9, <1>10, SenderAssemble

(* A retransmission. *)
LEMMA CheckExpirationInv == ASSUME IndInv, NEW s, CheckExpiration(s) PROVE IndInv'
  <1>1. s \in 0 .. sentSeq
    <2>1. unackQueue \subseteq 1 .. MaxSeq /\ sentSeq \in 0 .. MaxSeq
      BY DataNetRange DEF IndInv, TypeOK, SndTypeOK
    <2> QED
      BY <2>1, ConstAssumption DEF CheckExpiration, IndInv, SenderInv
  <1>2. dataNet' \subseteq dataNet \cup {s}
    BY PostSubset DEF CheckExpiration
  <1>3. dataNet \subseteq 0 .. sentSeq
    BY DataNetRange
  <1>4. dataNet' \subseteq 0 .. sentSeq
    BY <1>1, <1>2, <1>3, Zenon
  <1> QED
    BY <1>4, NetworkOnly DEF CheckExpiration

(* A status query is sent. *)
LEMMA CheckDeadlockInv == ASSUME IndInv, CheckDeadlock PROVE IndInv'
  <1>1. 0 \in 0 .. sentSeq
    BY DataNetRange, ConstAssumption
  <1>2. dataNet' \subseteq dataNet \cup {0}
    BY PostSubset DEF CheckDeadlock, Query
  <1>3. dataNet \subseteq 0 .. sentSeq
    BY DataNetRange
  <1>4. dataNet' \subseteq 0 .. sentSeq
    BY <1>1, <1>2, <1>3, Zenon
  <1> QED
    BY <1>4, NetworkOnly DEF CheckDeadlock

(* The network loses a message. *)
LEMMA LoseInv == ASSUME IndInv, Lose PROVE IndInv'
  <1>1. dataNet \subseteq 0 .. sentSeq
    BY DataNetRange
  <1>2. ASSUME NEW p, LoseData(p) PROVE IndInv'
    <2>1. dataNet' \subseteq 0 .. sentSeq
      BY <1>1, <1>2, Zenon DEF LoseData
    <2> QED
      BY <1>2, <2>1, NetworkOnly DEF LoseData
  <1>3. ASSUME NEW m, LoseAck(m) PROVE IndInv'
    <2>1. UNCHANGED <<sndVars, rcvVars>> /\ ackNet' \subseteq ackNet /\ dataNet' = dataNet
      BY <1>3 DEF LoseAck
    <2> QED
      BY <1>1, <2>1, NetworkOnly
  <1> QED
    BY <1>2, <1>3 DEF Lose

(***************************************************************************)
(* Steps that only change the phase of the sender.                         *)
(***************************************************************************)
PhaseOnly ==
    UNCHANGED <<sndSeq, sndFlags, pktFlags, sndQueue, unackQueue, capacity,
                sentSeq, receivedAckSeq, consumedSeq, started,
                sndStopRequested, rcvVars, netVars>>

(* A step of the sender's control alone. *)
LEMMA PhaseOnlyInv ==
    ASSUME IndInv,
           PhaseOnly,
           SenderInv', EosInv', DoneMeansAccepted',
           sphase' \in Phases
    PROVE  IndInv'
  <1>1. UNCHANGED rcvVars
    BY DEF PhaseOnly
  <1>2. SndTypeOK'
    BY DEF IndInv, TypeOK, SndTypeOK, PhaseOnly
  <1>3. AckSoundness'
    BY DEF IndInv, AckSoundness, Buffered, Slot, PhaseOnly, rcvVars, ringVars
  <1>4. ~rcvStopRequested => consumedSeq' <= extraSeq
    BY DEF IndInv, PhaseOnly
  <1>5. sentSeq' = sentSeq /\ pktFlags' = pktFlags
    BY DEF PhaseOnly
  <1>6. sentSeq <= sentSeq'
    BY <1>5, DataNetRange, ConstAssumption
  <1>7. dataNet' \subseteq 0 .. sentSeq' /\ ackNet' \subseteq ackNet
    BY <1>5, DataNetRange DEF PhaseOnly, netVars
  <1> QED
    BY <1>1, <1>2, <1>3, <1>4, <1>5, <1>6, <1>7, SenderAssemble

(* SendChunkUDP gets a buffer. *)
LEMMA GetBufferInv == ASSUME IndInv, GetBuffer PROVE IndInv'
  <1>1. PhaseOnly /\ sphase = "poll" /\ sphase' = "run"
    BY DEF GetBuffer, PhaseOnly
  <1>2. SenderInv'
    BY <1>1 DEF IndInv, SenderInv, NoStall, PhaseOnly, rcvVars
  <1>3. EosInv'
    BY <1>1 DEF IndInv, EosInv, IsEos, PhaseOnly, rcvVars
  <1>4. DoneMeansAccepted' /\ sphase' \in Phases
    BY <1>1 DEF DoneMeansAccepted, Phases
  <1> QED
    BY <1>1, <1>2, <1>3, <1>4, PhaseOnlyInv

(* checkNetworkTimeout. *)
LEMMA NetworkTimeoutInv == ASSUME IndInv, NetworkTimeout PROVE IndInv'
  <1>1. PhaseOnly /\ sphase \in {"poll", "eos"} /\ sphase' = "error"
    BY DEF NetworkTimeout, PhaseOnly
  <1>2. SenderInv'
    BY <1>1 DEF IndInv, SenderInv, NoStall, PhaseOnly, rcvVars
  <1>3. EosInv'
    BY <1>1 DEF IndInv, EosInv, IsEos, PhaseOnly, rcvVars
  <1>4. DoneMeansAccepted' /\ sphase' \in Phases
    BY <1>1 DEF DoneMeansAccepted, Phases
  <1> QED
    BY <1>1, <1>2, <1>3, <1>4, PhaseOnlyInv

(***************************************************************************)
(* With both queues empty everything sent was received; the packet rcvSeq  *)
(* is not in the ring, so all of it was received in sequence.              *)
(***************************************************************************)
LEMMA EosDrainedInv == ASSUME IndInv, EosDrained PROVE IndInv'
  <1> USE ConstAssumption DEF SeqNum
  <1>1. /\ PhaseOnly
        /\ sphase = "eos" /\ sphase' = "done"
        /\ sndQueue = {} /\ unackQueue = {}
    BY DEF EosDrained, PhaseOnly
  <1>2. /\ sentSeq \in 0 .. MaxSeq
        /\ sndSeq \in 1 .. (MaxSeq + 1)
        /\ rcvSeq \in 1 .. (MaxSeq + 1)
        /\ sentSeq < sndSeq
        /\ rcvSeq <= sentSeq + 1
    BY DEF IndInv, TypeOK, SndTypeOK, RcvTypeOK, SenderInv, ReceiverInv
  <1>3. sentSeq = sndSeq - 1
    <2>1. (sentSeq + 1) .. (sndSeq - 1) = {}
      BY <1>1 DEF IndInv, SenderInv
    <2> QED
      BY <1>2, <2>1
  <1>4. SenderInv'
    BY <1>1 DEF IndInv, SenderInv, NoStall, PhaseOnly, rcvVars
  <1>5. EosInv'
    BY <1>1 DEF IndInv, EosInv, IsEos, PhaseOnly, rcvVars
  <1>6. DoneMeansAccepted'
    <2> SUFFICES ASSUME ~rcvStopRequested
                 PROVE  rcvSeq = sndSeq /\ IsEos(sentSeq)
      BY <1>1, <1>3 DEF DoneMeansAccepted, PhaseOnly, rcvVars, IsEos
    <2>1. IsEos(sentSeq)
      BY <1>1, <1>3 DEF IndInv, EosInv
    <2>2. rcvSeq \notin 1 .. sentSeq
      <3> SUFFICES ASSUME rcvSeq \in 1 .. sentSeq PROVE FALSE
        OBVIOUS
      <3>1. rcvSeq \in Buffered
        BY <1>1, <1>2 DEF IndInv, AckSoundness
      <3>2. PICK i \in Slot : pkt_q[i] = rcvSeq /\ pkt_q[i] # 0
        BY <3>1 DEF Buffered
      <3>3. RingFaithful
        BY DEF IndInv, ReceiverInv
      <3> QED
        BY <3>2, <3>3 DEF RingFaithful
    <2> QED
      BY <1>2, <1>3, <2>1, <2>2
  <1> QED
    BY <1>1, <1>4, <1>5, <1>6, PhaseOnlyInv DEF Phases

(* handleStopMsgs. *)
LEMMA HandleStopMsgsInv == ASSUME IndInv, HandleStopMsgs PROVE IndInv'
  <1> USE ConstAssumption DEF SeqNum
  <1>1. /\ SndTypeOK /\ SenderInv /\ EosInv
        /\ sentSeq \in 0 .. MaxSeq
        /\ sndSeq \in 1 .. MaxSeq
        /\ sentSeq < sndSeq
    BY DEF IndInv, TypeOK, SndTypeOK, SenderInv, HandleStopMsgs
  <1>2. /\ sphase = "poll" /\ sphase' = "done"
        /\ rcvStopRequested
        /\ sndSeq' = sndSeq + 1
        /\ sndFlags' = sndFlags \cup {"EOS"}
        /\ sndQueue' = {} /\ unackQueue' = {}
        /\ sndStopRequested' = FALSE
        /\ UNCHANGED <<capacity, sentSeq, receivedAckSeq, consumedSeq, started,
                       rcvVars, netVars>>
    BY <1>1 DEF HandleStopMsgs, PrepareXmit, SenderInv
  <1>3. rcvStopRequested'
    BY <1>2 DEF rcvVars
  <1>4. /\ pktFlags' \in [1 .. MaxSeq -> SUBSET {"STOP", "EOS"}]
        /\ sndFlags' \in SUBSET {"STOP", "EOS"}
        /\ "EOS" \in pktFlags'[sndSeq]
        /\ \A s \in 1 .. MaxSeq : s # sndSeq => pktFlags'[s] = pktFlags[s]
    BY <1>1 DEF HandleStopMsgs, PrepareXmit, SndTypeOK
  <1>5. SndTypeOK'
    <2>1. sndSeq' \in 1 .. (MaxSeq + 1)
      BY <1>1, <1>2
    <2> QED
      BY <1>1, <1>2, <1>4, <2>1 DEF SndTypeOK, Phases
  <1>6. SenderInv'
    <2>1. sentSeq' < sndSeq'
      BY <1>1, <1>2
    <2> QED
      BY <1>1, <1>2, <2>1 DEF SenderInv, NoStall
  <1>7. EosInv'
    <2>1. \A s \in 1 .. MaxSeq : s >= sndSeq' => pktFlags'[s] = {}
      BY <1>1, <1>2, <1>4 DEF EosInv
    <2>2. \A s \in 1 .. MaxSeq : s # sndSeq => ~IsEos(s)'
      BY <1>1, <1>2, <1>4 DEF EosInv, IsEos
    <2>3. \A s \in 1 .. MaxSeq : IsEos(s)' => s = sndSeq' - 1
      BY <1>1, <1>2, <2>2
    <2>4. sndSeq' > 1 /\ "EOS" \in pktFlags'[sndSeq' - 1]
      BY <1>1, <1>2, <1>4
    <2> QED
      BY <1>2, <1>3, <2>1, <2>3, <2>4 DEF EosInv, IsEos
  <1>8. AckSoundness' /\ DoneMeansAccepted'
    BY <1>3 DEF AckSoundness, DoneMeansAccepted
  <1>9. /\ \A s \in 1 .. sentSeq : pktFlags'[s] = pktFlags[s]
        /\ sentSeq <= sentSeq'
    BY <1>1, <1>2, <1>4
  <1>10. dataNet' \subseteq 0 .. sentSeq' /\ ackNet' \subseteq ackNet
    BY <1>2, DataNetRange DEF netVars
  <1> QED
    BY <1>2, <1>5, <1>6, <1>7, <1>8, <1>9, <1>10, SenderAssemble

-----------------------------------------------------------------------------
(* The ring *)

(* A packet's slot is one of the ring. *)
LEMMA SlotOfRange ==
    ASSUME NEW s \in Nat \ {0}
    PROVE  SlotOf(s) \in Slot
  <1>1. s - 1 \in Nat
    OBVIOUS
  <1> QED
    BY <1>1, ModRange, ConstAssumption DEF SlotOf, Slot

(* Packets less than a ring apart have different slots. *)
LEMMA SlotDistinct ==
    ASSUME NEW a \in Nat \ {0}, NEW b \in Nat \ {0}, a < b, b < a + QueueDepth
    PROVE  SlotOf(a) # SlotOf(b)
  <1>1. a - 1 \in Nat /\ b - 1 \in Nat /\ a - 1 < b - 1 /\ b - 1 < (a - 1) + QueueDepth
    BY ConstAssumption
  <1> QED
    BY <1>1, ModDistinct, ConstAssumption DEF SlotOf

(* Going on n slots is going on n packets. *)
LEMMA SlotPlus ==
    ASSUME NEW s \in Nat \ {0}, NEW n \in Nat
    PROVE  (SlotOf(s) + n) % QueueDepth = SlotOf(s + n)
  <1>1. s - 1 \in Nat /\ (s - 1) + n = (s + n) - 1
    OBVIOUS
  <1>2. QueueDepth \in Nat \ {0}
    BY ConstAssumption
  <1>3. (((s - 1) % QueueDepth) + n) % QueueDepth = ((s - 1) + n) % QueueDepth
    BY <1>1, <1>2, ModPlus, Zenon
  <1> QED
    BY <1>1, <1>3, Zenon DEF SlotOf

(***************************************************************************)
(* The window of a receiver that has not asked its sender to stop.         *)
(***************************************************************************)
LEMMA Window ==
    ASSUME IndInv, ~rcvStopRequested
    PROVE  /\ rcvSeq \in 1 .. (MaxSeq + 1)
           /\ extraSeq \in 0 .. MaxSeq
           /\ pkt_q_size \in 0 .. QueueDepth
           /\ HeadSeq = rcvSeq - pkt_q_size
           /\ HeadSeq = extraSeq + 1
           /\ extraSeq < rcvSeq
           /\ pkt_q_head = SlotOf(HeadSeq)
           /\ pkt_q_tail = SlotOf(rcvSeq)
  <1> USE ConstAssumption DEF SeqNum
  <1>1. /\ rcvSeq \in 1 .. (MaxSeq + 1)
        /\ extraSeq \in 0 .. MaxSeq
        /\ pkt_q_size \in 0 .. QueueDepth
    BY DEF IndInv, TypeOK, RcvTypeOK
  <1>2. RingFaithful
    BY DEF IndInv, ReceiverInv
  <1>3. HeadSeq = rcvSeq - pkt_q_size /\ HeadSeq = extraSeq + 1
    BY <1>2 DEF RingFaithful, HeadSeq
  <1>4. pkt_q_head = SlotOf(HeadSeq) /\ pkt_q_tail = SlotOf(rcvSeq)
    BY <1>2 DEF RingFaithful
  <1> QED
    BY <1>1, <1>3, <1>4

(* A slot that is not empty holds the packet of the window it stands for. *)
LEMMA SlotHolds ==
    ASSUME IndInv, ~rcvStopRequested,
           NEW s \in Int, HeadSeq <= s, s <= extraSeq + QueueDepth,
           pkt_q[SlotOf(s)] # 0
    PROVE  pkt_q[SlotOf(s)] = s
  <1> USE ConstAssumption
  <1>1. RingFaithful
    BY DEF IndInv, ReceiverInv
  <1>2. /\ extraSeq \in 0 .. MaxSeq
        /\ HeadSeq = extraSeq + 1
    BY Window
  <1>3. s \in Nat \ {0}
    BY <1>2
  <1>4. SlotOf(s) \in Slot
    BY <1>3, SlotOfRange
  <1> DEFINE q == pkt_q[SlotOf(s)]
  <1>5. /\ SlotOf(q) = SlotOf(s)
        /\ q \in HeadSeq .. (extraSeq + QueueDepth)
    BY <1>1, <1>4 DEF RingFaithful
  <1> HIDE DEF q
  <1>6. q \in Nat \ {0} /\ HeadSeq <= q /\ q <= extraSeq + QueueDepth
    BY <1>2, <1>5
  <1>7. ~(q < s)
    <2>1. q < s => s < q + QueueDepth
      BY <1>2, <1>3, <1>6
    <2> QED
      BY <1>3, <1>5, <1>6, <2>1, SlotDistinct
  <1>8. ~(s < q)
    <2>1. s < q => q < s + QueueDepth
      BY <1>2, <1>3, <1>6
    <2> QED
      BY <1>3, <1>5, <1>6, <2>1, SlotDistinct
  <1>9. q = s
    BY <1>3, <1>6, <1>7, <1>8
  <1> QED
    BY <1>9 DEF q

(* A data packet on the wire is one that was sent. *)
LEMMA PacketRange ==
    ASSUME IndInv, NEW p, p \in dataNet \ {Query}
    PROVE  p \in 1 .. MaxSeq /\ p <= sentSeq /\ sentSeq \in 0 .. MaxSeq
  <1>1. dataNet \subseteq 0 .. sentSeq /\ sentSeq \in 0 .. MaxSeq
    BY DataNetRange
  <1> QED
    BY <1>1, ConstAssumption DEF Query

-----------------------------------------------------------------------------
(* Steps of the receiver *)

(***************************************************************************)
(* A step of the receiver that only ever receives more, consumes more, and *)
(* sends messages that are true of it, keeps the sender's part.            *)
(***************************************************************************)
Progress ==
    /\ UNCHANGED sndVars
    /\ dataNet' \subseteq dataNet
    /\ rcvStopRequested => rcvStopRequested'
    /\ ~rcvStopRequested' =>
          /\ rcvSeq <= rcvSeq'
          /\ extraSeq <= extraSeq'
          /\ \A s \in SeqNum : Received(s) => Received(s)'

(* What a step of the receiver has to show for IndInv to hold after it. *)
LEMMA ReceiverAssemble ==
    ASSUME IndInv, Progress,
           NEW msgs, ackNet' \subseteq ackNet \cup msgs,
           \A m \in msgs : m \in AckMsg /\ AckMsgInv(m)',
           RcvTypeOK', ReceiverInv', DeliveryInv'
    PROVE  IndInv'
  <1> USE ConstAssumption DEF SeqNum
  <1>1. /\ UNCHANGED sndVars
        /\ dataNet' \subseteq dataNet
        /\ rcvStopRequested => rcvStopRequested'
    BY DEF Progress
  <1>2. /\ UNCHANGED <<sphase, sndSeq, sndFlags, pktFlags, sndQueue, unackQueue>>
        /\ UNCHANGED <<capacity, sentSeq, receivedAckSeq, consumedSeq, started, sndStopRequested>>
    BY <1>1 DEF sndVars
  <1>3. SndTypeOK'
    BY <1>2 DEF IndInv, TypeOK, SndTypeOK
  <1>4. SenderInv'
    BY <1>1, <1>2 DEF IndInv, SenderInv, NoStall
  <1>5. EosInv'
    BY <1>1, <1>2 DEF IndInv, EosInv, IsEos
  <1>6. /\ sentSeq \in 0 .. MaxSeq
        /\ sndSeq \in 1 .. (MaxSeq + 1)
        /\ rcvSeq \in 1 .. (MaxSeq + 1)
        /\ extraSeq \in 0 .. MaxSeq
        /\ consumedSeq \in 0 .. MaxSeq
    BY DEF IndInv, TypeOK, SndTypeOK, RcvTypeOK
  <1>7. rcvSeq' \in 1 .. (MaxSeq + 1) /\ extraSeq' \in 0 .. MaxSeq
    BY DEF RcvTypeOK
  <1>8. ASSUME ~rcvStopRequested'
        PROVE  /\ ~rcvStopRequested
               /\ rcvSeq <= rcvSeq'
               /\ extraSeq <= extraSeq'
               /\ \A s \in SeqNum : Received(s) => Received(s)'
    BY <1>8 DEF Progress
  <1>9. AckSoundness'
    <2> SUFFICES ASSUME NEW s \in 1 .. sentSeq, s \notin unackQueue, ~rcvStopRequested'
                 PROVE  Received(s)'
      BY <1>2 DEF AckSoundness, Received
    <2>1. Received(s)
      BY <1>8 DEF IndInv, AckSoundness, Received
    <2>2. s \in SeqNum
      BY <1>6
    <2> QED
      BY <1>8, <2>1, <2>2
  <1>10. ~rcvStopRequested' => consumedSeq' <= extraSeq'
    <2> SUFFICES ASSUME ~rcvStopRequested' PROVE consumedSeq <= extraSeq'
      BY <1>2
    <2>1. consumedSeq <= extraSeq /\ extraSeq <= extraSeq'
      BY <1>8 DEF IndInv
    <2> QED
      BY <1>6, <1>7, <2>1
  <1>11. DoneMeansAccepted'
    <2> SUFFICES ASSUME sphase = "done", ~rcvStopRequested'
                 PROVE  sentSeq = sndSeq - 1 /\ rcvSeq' = sndSeq /\ IsEos(sentSeq)
      BY <1>2 DEF DoneMeansAccepted, IsEos
    <2>1. sentSeq = sndSeq - 1 /\ rcvSeq = sndSeq /\ IsEos(sentSeq)
      BY <1>8 DEF IndInv, DoneMeansAccepted
    <2>2. rcvSeq <= rcvSeq' /\ rcvSeq' <= sentSeq + 1
      BY <1>2, <1>8 DEF ReceiverInv
    <2> QED
      BY <1>6, <1>7, <2>1, <2>2
  <1>12. NetTypeOK'
    <2>1. dataNet' \subseteq SeqNum
      BY <1>1 DEF IndInv, TypeOK, NetTypeOK
    <2>2. ackNet' \subseteq AckMsg
      BY DEF IndInv, TypeOK, NetTypeOK
    <2> QED
      BY <2>1, <2>2 DEF NetTypeOK
  <1>13. NetInv'
    <2>1. \A p \in dataNet' : p <= sentSeq'
      BY <1>1, <1>2 DEF IndInv, NetInv
    <2>2. ASSUME NEW m \in ackNet PROVE AckMsgInv(m)'
      <3>1. m \in AckMsg /\ AckMsgInv(m)
        BY DEF IndInv, TypeOK, NetTypeOK, NetInv
      <3>2. m.seq \in 0 .. MaxSeq /\ m.extraSeq \in 0 .. MaxSeq /\ m.lost \subseteq 0 .. MaxSeq
        BY <3>1 DEF AckMsg
      <3>3. CASE rcvStopRequested'
        BY <1>1, <1>2, <3>1, <3>3 DEF AckMsgInv
      <3>4. CASE ~rcvStopRequested'
        <4>1. /\ ~rcvStopRequested
              /\ rcvSeq <= rcvSeq'
              /\ extraSeq <= extraSeq'
          BY <1>8, <3>4
        <4>2. \A s \in 0 .. MaxSeq : Received(s) => Received(s)'
          BY <1>8, <3>4
        <4>3. Received(m.extraSeq)' /\ Received(m.seq)'
          BY <3>1, <3>2, <4>1, <4>2 DEF AckMsgInv
        <4>4. m.kind = "ack" => m.extraSeq <= extraSeq' /\ m.seq < rcvSeq'
          BY <1>6, <1>7, <3>1, <3>2, <4>1 DEF AckMsgInv
        <4>5. m.kind = "dup" => m.extraSeq < m.seq /\ m.extraSeq < rcvSeq'
          BY <1>6, <1>7, <3>1, <3>2, <4>1 DEF AckMsgInv
        <4>6. m.kind = "disorder" =>
                /\ m.lost # {}
                /\ \A s \in 1 .. m.seq : \A l \in m.lost :
                      s < l /\ s \notin m.lost => Received(s)'
          <5>1. \A s \in 1 .. m.seq : s \in 0 .. MaxSeq
            BY <3>2
          <5> QED
            BY <3>1, <4>1, <4>2, <5>1 DEF AckMsgInv
        <4>7. m.seq <= sentSeq' /\ m.extraSeq <= sentSeq' /\ ~m.stop
          BY <1>2, <3>1, <4>1 DEF AckMsgInv
        <4> QED
          BY <4>3, <4>4, <4>5, <4>6, <4>7 DEF AckMsgInv
      <3> QED
        BY <3>3, <3>4
    <2> QED
      BY <2>1, <2>2 DEF NetInv
  <1> QED
    BY <1>3, <1>4, <1>5, <1>9, <1>10, <1>11, <1>12, <1>13 DEF IndInv, TypeOK

(* A new message of kind "ack". *)
LEMMA NewAck ==
    ASSUME NEW m \in AckMsg, m.kind = "ack",
           m.seq <= sentSeq', m.extraSeq <= sentSeq',
           m.stop => rcvStopRequested',
           ~rcvStopRequested' => /\ m.extraSeq <= extraSeq'
                                 /\ m.extraSeq < rcvSeq'
                                 /\ m.seq < rcvSeq'
    PROVE  AckMsgInv(m)'
  BY DEF AckMsgInv, Received

(* The fields of an acknowledgment. *)
LEMMA AckFields ==
    ASSUME NEW stop \in BOOLEAN, NEW seq \in SeqNum, NEW extra \in SeqNum
    PROVE  /\ Ack(stop, seq, extra) \in AckMsg
           /\ Ack(stop, seq, extra).kind = "ack"
           /\ Ack(stop, seq, extra).stop = stop
           /\ Ack(stop, seq, extra).seq = seq
           /\ Ack(stop, seq, extra).extraSeq = extra
  <1>1. Ack(stop, seq, extra) \in AckMsg
    BY DEF Ack, AckMsg
  <1>2. /\ Ack(stop, seq, extra).kind = "ack"
        /\ Ack(stop, seq, extra).stop = stop
        /\ Ack(stop, seq, extra).seq = seq
        /\ Ack(stop, seq, extra).extraSeq = extra
    BY DEF Ack
  <1> QED
    BY <1>1, <1>2

(* The type of a disorder message. *)
LEMMA DisorderFields ==
    ASSUME NEW stop \in BOOLEAN, NEW seq \in SeqNum, NEW extra \in SeqNum,
           NEW lost \in SUBSET SeqNum
    PROVE  [kind |-> "disorder", stop |-> stop, seq |-> seq,
            extraSeq |-> extra, lost |-> lost] \in AckMsg
  BY DEF AckMsg

(* The fields of the acknowledgment that stops the sender. *)
LEMMA StopAckFields ==
    ASSUME NEW seq \in SeqNum
    PROVE  /\ Ack(TRUE, seq, seq) \in AckMsg
           /\ Ack(TRUE, seq, seq).kind = "ack"
           /\ Ack(TRUE, seq, seq).seq = seq
           /\ Ack(TRUE, seq, seq).extraSeq = seq
  <1>1. Ack(TRUE, seq, seq) \in AckMsg
    BY DEF Ack, AckMsg
  <1>2. /\ Ack(TRUE, seq, seq).kind = "ack"
        /\ Ack(TRUE, seq, seq).seq = seq
        /\ Ack(TRUE, seq, seq).extraSeq = seq
    BY DEF Ack
  <1> QED
    BY <1>1, <1>2

(***************************************************************************)
(* Steps that leave all of the receiver but peerKnown alone.               *)
(***************************************************************************)
AnswerOnly ==
    /\ UNCHANGED sndVars
    /\ UNCHANGED <<rcvSeq, extraSeq, rcvFlags, ringVars, rcvActive,
                   rcvStopRequested, pBuff, stopped, delivered>>
    /\ peerKnown' \in BOOLEAN
    /\ dataNet' \subseteq dataNet

(* A step that only sends a sound answer keeps IndInv. *)
LEMMA AnswerOnlyInv ==
    ASSUME IndInv, AnswerOnly,
           NEW msgs, ackNet' \subseteq ackNet \cup msgs,
           \A m \in msgs : m \in AckMsg /\ AckMsgInv(m)'
    PROVE  IndInv'
  <1> USE ConstAssumption DEF SeqNum
  <1>1. /\ UNCHANGED sndVars
        /\ sentSeq' = sentSeq /\ pktFlags' = pktFlags
        /\ dataNet' \subseteq dataNet
    BY DEF AnswerOnly, sndVars
  <1>2. /\ UNCHANGED <<rcvSeq, extraSeq, rcvFlags, rcvActive>>
        /\ UNCHANGED <<rcvStopRequested, pBuff, stopped, delivered>>
        /\ UNCHANGED <<pkt_q, pkt_q_head, pkt_q_tail, pkt_q_size>>
        /\ peerKnown' \in BOOLEAN
    BY DEF AnswerOnly, ringVars
  <1>3. RcvTypeOK'
    BY <1>2 DEF IndInv, TypeOK, RcvTypeOK
  <1>4. ReceiverInv'
    <2>1. RingFaithful' = RingFaithful
      BY <1>2 DEF RingFaithful, HeadSeq, SlotOf, Slot
    <2>2. IsEos(rcvSeq - 1)' = IsEos(rcvSeq - 1)
      BY <1>1, <1>2 DEF IsEos
    <2> QED
      BY <1>1, <1>2, <2>1, <2>2 DEF IndInv, ReceiverInv
  <1>5. DeliveryInv'
    BY <1>1, <1>2 DEF IndInv, DeliveryInv
  <1>6. Progress
    <2>1. \A s \in SeqNum : Received(s)' = Received(s)
      BY <1>2 DEF Received, Buffered, Slot
    <2>2. rcvSeq <= rcvSeq' /\ extraSeq <= extraSeq'
      BY <1>2 DEF IndInv, TypeOK, RcvTypeOK
    <2> QED
      BY <1>1, <1>2, <2>1, <2>2 DEF Progress
  <1> QED
    BY <1>3, <1>4, <1>5, <1>6, ReceiverAssemble

(* The ranges of the receiver's counters. *)
LEMMA RcvFacts ==
    ASSUME IndInv
    PROVE  /\ rcvSeq \in 1 .. (MaxSeq + 1)
           /\ rcvSeq - 1 \in SeqNum
           /\ extraSeq \in SeqNum
           /\ sentSeq \in SeqNum
           /\ rcvSeq - 1 <= sentSeq
           /\ extraSeq <= sentSeq
           /\ RcvStopFlag \in BOOLEAN
           /\ RcvStopFlag => rcvStopRequested
           /\ ~rcvStopRequested => extraSeq < rcvSeq
  <1> USE ConstAssumption DEF SeqNum
  <1>1. /\ rcvSeq \in 1 .. (MaxSeq + 1)
        /\ extraSeq \in SeqNum
        /\ sentSeq \in SeqNum
        /\ rcvSeq <= sentSeq + 1
        /\ extraSeq <= sentSeq
    BY DEF IndInv, TypeOK, SndTypeOK, RcvTypeOK, ReceiverInv
  <1>2. /\ RcvStopFlag \in BOOLEAN
        /\ RcvStopFlag => rcvStopRequested
    BY DEF RcvStopFlag, IndInv, ReceiverInv
  <1>3. ~rcvStopRequested => extraSeq < rcvSeq
    BY Window
  <1> QED
    BY <1>1, <1>2, <1>3

(* handleDataPacket, a status query. *)
LEMMA RxStatusQueryInv == ASSUME IndInv, RxStatusQuery PROVE IndInv'
  <1> DEFINE extra == IF rcvStopRequested THEN rcvSeq - 1 ELSE extraSeq
             msgs == {Ack(RcvStopFlag, rcvSeq - 1, extra)}
  <1> USE ConstAssumption DEF SeqNum
  <1>1. AnswerOnly
    <2>1. peerKnown' \in BOOLEAN
      BY DEF RxStatusQuery, rcvVars, IndInv, TypeOK, RcvTypeOK
    <2>2. dataNet' \subseteq dataNet
      BY TakenSubset DEF RxStatusQuery
    <2> QED
      BY <2>1, <2>2 DEF RxStatusQuery, AnswerOnly, rcvVars
  <1>2. ackNet' \subseteq ackNet \cup msgs
    BY PostSubset DEF RxStatusQuery
  <1>3. ASSUME NEW m \in msgs PROVE m \in AckMsg /\ AckMsgInv(m)'
    <2>1. /\ rcvSeq - 1 \in SeqNum /\ extra \in SeqNum
          /\ rcvSeq - 1 <= sentSeq /\ extra <= sentSeq
          /\ rcvSeq - 1 < rcvSeq
      BY RcvFacts
    <2>2. m \in AckMsg /\ m.kind = "ack" /\ m.stop = RcvStopFlag
          /\ m.seq = rcvSeq - 1 /\ m.extraSeq = extra
      BY <2>1, RcvFacts, AckFields
    <2>3. UNCHANGED <<sentSeq, rcvSeq, extraSeq, rcvStopRequested>>
      BY DEF RxStatusQuery, sndVars, rcvVars
    <2>4. ~rcvStopRequested => extra = extraSeq /\ extra <= extraSeq /\ extra < rcvSeq
      BY RcvFacts
    <2>5. m.stop => rcvStopRequested'
      BY <2>2, <2>3, RcvFacts
    <2> HIDE DEF extra
    <2> QED
      BY <2>1, <2>2, <2>3, <2>4, <2>5, NewAck
  <1> HIDE DEF msgs
  <1> QED
    BY <1>1, <1>2, <1>3, AnswerOnlyInv

(* handleDataPacket, an old packet. *)
LEMMA RxAlreadyReceivedInv == ASSUME IndInv, NEW p, RxAlreadyReceived(p) PROVE IndInv'
  <1> DEFINE msgs == {Ack(RcvStopFlag, rcvSeq - 1, extraSeq)}
  <1> USE ConstAssumption DEF SeqNum
  <1>1. AnswerOnly
    <2>1. peerKnown' \in BOOLEAN
      BY DEF RxAlreadyReceived, RxPacket
    <2>2. dataNet' \subseteq dataNet
      BY TakenSubset DEF RxAlreadyReceived, RxPacket
    <2> QED
      BY <2>1, <2>2 DEF RxAlreadyReceived, RxPacket, AnswerOnly
  <1>2. ackNet' \subseteq ackNet \cup msgs
    BY PostSubset DEF RxAlreadyReceived
  <1>3. ASSUME NEW m \in msgs PROVE m \in AckMsg /\ AckMsgInv(m)'
    <2>1. m \in AckMsg /\ m.kind = "ack" /\ m.stop = RcvStopFlag
          /\ m.seq = rcvSeq - 1 /\ m.extraSeq = extraSeq
      BY RcvFacts, AckFields
    <2>2. UNCHANGED <<sentSeq, rcvSeq, extraSeq, rcvStopRequested>>
      BY DEF RxAlreadyReceived, RxPacket, sndVars
    <2>3. m.stop => rcvStopRequested'
      BY <2>1, <2>2, RcvFacts
    <2>4. m.seq <= sentSeq /\ m.seq < rcvSeq /\ m.extraSeq <= sentSeq
          /\ m.extraSeq <= extraSeq
      BY <2>1, RcvFacts
    <2>5. ~rcvStopRequested => m.extraSeq < rcvSeq
      BY <2>1, RcvFacts
    <2> QED
      BY <2>1, <2>2, <2>3, <2>4, <2>5, NewAck
  <1> HIDE DEF msgs
  <1> QED
    BY <1>1, <1>2, <1>3, AnswerOnlyInv

(* handleDataPacket, a packet that is in the ring already. *)
LEMMA RxDuplicateInv == ASSUME IndInv, NEW p, RxDuplicate(p) PROVE IndInv'
  <1> DEFINE msgs == {[kind |-> "dup", stop |-> RcvStopFlag, seq |-> p,
                       extraSeq |-> rcvSeq - 1, lost |-> {}]}
  <1> USE ConstAssumption DEF SeqNum
  <1>1. AnswerOnly
    <2>1. peerKnown' \in BOOLEAN
      BY DEF RxDuplicate, RxExpected, RxPacket
    <2>2. dataNet' \subseteq dataNet
      BY TakenSubset DEF RxDuplicate, RxExpected, RxPacket
    <2> QED
      BY <2>1, <2>2 DEF RxDuplicate, RxExpected, RxPacket, AnswerOnly
  <1>2. ackNet' \subseteq ackNet \cup msgs
    BY PostSubset DEF RxDuplicate
  <1>3. /\ ~rcvStopRequested
        /\ p >= rcvSeq
        /\ p - HeadSeq < QueueDepth
        /\ pkt_q[SlotOf(p)] # 0
        /\ p \in dataNet \ {Query}
    <2>1. p \in 1 .. MaxSeq
      BY PacketRange DEF RxDuplicate, RxExpected, RxPacket
    <2>2. ~rcvStopRequested /\ p >= rcvSeq /\ ~Overrun(p) /\ pkt_q[SlotOf(p)] # 0
          /\ p \in dataNet \ {Query}
      BY DEF RxDuplicate, RxExpected, RxPacket
    <2>3. HeadSeq \in Int
      BY <2>2, Window
    <2> QED
      BY <2>1, <2>2, <2>3 DEF Overrun
  <1>4. p \in 1 .. MaxSeq /\ p <= sentSeq
    BY <1>3, PacketRange
  <1>5. pkt_q[SlotOf(p)] = p
    <2>1. /\ rcvSeq \in 1 .. (MaxSeq + 1) /\ extraSeq \in 0 .. MaxSeq
          /\ HeadSeq = extraSeq + 1 /\ extraSeq < rcvSeq
      BY <1>3, Window
    <2>2. p \in Int /\ HeadSeq <= p /\ p <= extraSeq + QueueDepth
      BY <1>3, <1>4, <2>1
    <2> QED
      BY <1>3, <2>2, SlotHolds
  <1>6. p \in Buffered
    <2>1. SlotOf(p) \in Slot
      BY <1>4, SlotOfRange
    <2> QED
      BY <1>4, <1>5, <2>1 DEF Buffered
  <1>7. ASSUME NEW m \in msgs PROVE m \in AckMsg /\ AckMsgInv(m)'
    <2>1. m \in AckMsg
      BY <1>4, RcvFacts DEF AckMsg
    <2>2. m.kind = "dup" /\ m.seq = p /\ m.extraSeq = rcvSeq - 1 /\ m.stop = RcvStopFlag
      OBVIOUS
    <2>3. /\ UNCHANGED <<sentSeq, rcvSeq, pkt_q, rcvStopRequested>>
      BY <1>1 DEF AnswerOnly, sndVars, ringVars
    <2>4. Received(m.seq)'
      BY <1>6, <2>2, <2>3 DEF Received, Buffered, Slot
    <2>5. Received(m.extraSeq)'
      BY <2>2, <2>3, RcvFacts DEF Received
    <2>6. m.seq <= sentSeq' /\ m.extraSeq <= sentSeq' /\ m.extraSeq < m.seq /\ m.extraSeq < rcvSeq'
      BY <1>3, <1>4, <2>2, <2>3, RcvFacts
    <2>7. ~m.stop
      BY <1>3, <2>2, RcvFacts
    <2> QED
      BY <2>1, <2>2, <2>4, <2>5, <2>6, <2>7 DEF AckMsgInv
  <1> HIDE DEF msgs
  <1> QED
    BY <1>1, <1>2, <1>7, AnswerOnlyInv

(***************************************************************************)
(* Packets that reach a receiver which wants no more.                      *)
(***************************************************************************)
StoppedAnswer(p) ==
    /\ rcvStopRequested
    /\ p \in dataNet \ {Query}
    /\ UNCHANGED <<sndVars, extraSeq, ringVars, rcvStopRequested, pBuff, stopped, delivered>>
    /\ dataNet' \subseteq dataNet
    /\ peerKnown' \in BOOLEAN
    /\ rcvActive' \in BOOLEAN
    /\ rcvFlags' \in SUBSET {"STOP", "EOS"}
    /\ rcvSeq' \in {rcvSeq, p}
    /\ ackNet' \subseteq ackNet \cup {Ack(TRUE, p, p)}

(* A step of a stopped receiver that answers with STOP keeps IndInv. *)
LEMMA StoppedAnswerInv == ASSUME IndInv, NEW p, StoppedAnswer(p) PROVE IndInv'
  <1> USE ConstAssumption DEF SeqNum
  <1>1. p \in 1 .. MaxSeq /\ p <= sentSeq /\ sentSeq \in 0 .. MaxSeq
    BY PacketRange DEF StoppedAnswer
  <1>2. /\ UNCHANGED <<sndVars, sentSeq, extraSeq, rcvStopRequested>>
        /\ UNCHANGED <<pkt_q, pkt_q_head, pkt_q_tail, pkt_q_size>>
        /\ UNCHANGED <<pBuff, stopped, delivered>>
        /\ dataNet' \subseteq dataNet
        /\ rcvStopRequested /\ rcvStopRequested'
    BY DEF StoppedAnswer, ringVars, sndVars
  <1>3. rcvSeq' \in {rcvSeq, p} /\ rcvFlags' \in SUBSET {"STOP", "EOS"}
        /\ rcvActive' \in BOOLEAN /\ peerKnown' \in BOOLEAN
    BY DEF StoppedAnswer
  <1>4. rcvSeq' \in 1 .. (MaxSeq + 1) /\ rcvSeq' <= sentSeq' + 1
    BY <1>1, <1>2, <1>3, RcvFacts
  <1>5. RcvTypeOK'
    BY <1>2, <1>3, <1>4 DEF IndInv, TypeOK, RcvTypeOK
  <1>6. ReceiverInv'
    BY <1>2, <1>4 DEF IndInv, ReceiverInv, Slot
  <1>7. DeliveryInv'
    BY <1>2 DEF IndInv, DeliveryInv
  <1>8. Progress
    BY <1>2 DEF Progress
  <1>9. ASSUME NEW m \in {Ack(TRUE, p, p)} PROVE m \in AckMsg /\ AckMsgInv(m)'
    <2>1. p \in SeqNum
      BY <1>1
    <2>2. m \in AckMsg /\ m.kind = "ack" /\ m.seq = p /\ m.extraSeq = p
      BY <2>1, StopAckFields
    <2> QED
      BY <1>1, <1>2, <2>2, NewAck
  <1>10. ackNet' \subseteq ackNet \cup {Ack(TRUE, p, p)}
    BY DEF StoppedAnswer
  <1> QED
    BY <1>5, <1>6, <1>7, <1>8, <1>9, <1>10, ReceiverAssemble

(* handleDataPacket after a stop was requested. *)
LEMMA RxStopRequestedInv == ASSUME IndInv, NEW p, RxStopRequested(p) PROVE IndInv'
  <1>1. ackNet' \subseteq ackNet \cup {Ack(TRUE, p, p)} /\ dataNet' \subseteq dataNet
    BY PostSubset, TakenSubset DEF RxStopRequested, RxPacket
  <1>2. rcvFlags' \in SUBSET {"STOP", "EOS"}
    BY DEF RxStopRequested, IndInv, TypeOK, RcvTypeOK
  <1>3. rcvSeq' \in {rcvSeq, p} /\ rcvActive' \in BOOLEAN /\ peerKnown' \in BOOLEAN
    BY DEF RxStopRequested, RxPacket
  <1>4. StoppedAnswer(p)
    BY <1>1, <1>2, <1>3 DEF RxStopRequested, RxPacket, StoppedAnswer
  <1> QED
    BY <1>4, StoppedAnswerInv

(***************************************************************************)
(* An inactive receiver that did not stop has everything up to the end of  *)
(* stream, so there is no packet from rcvSeq on.                           *)
(***************************************************************************)
LEMMA RxInactiveInv == ASSUME IndInv, NEW p, RxInactive(p) PROVE IndInv'
  <1> USE ConstAssumption DEF SeqNum
  <1>1. ackNet' \subseteq ackNet \cup {Ack(TRUE, p, p)} /\ dataNet' \subseteq dataNet
    BY PostSubset, TakenSubset DEF RxInactive, RxPacket
  <1>2. rcvFlags' \in SUBSET {"STOP", "EOS"} /\ rcvActive' \in BOOLEAN
    BY DEF RxInactive, IndInv, TypeOK, RcvTypeOK
  <1>3. rcvSeq' \in {rcvSeq, p} /\ peerKnown' \in BOOLEAN
    BY DEF RxInactive, RxPacket
  <1>4. rcvStopRequested
    <2> SUFFICES ASSUME ~rcvStopRequested PROVE FALSE
      OBVIOUS
    <2>1. rcvSeq > 1 /\ IsEos(rcvSeq - 1)
      BY DEF RxInactive, IndInv, ReceiverInv
    <2>2. p \in 1 .. MaxSeq /\ p <= sentSeq /\ sentSeq \in 0 .. MaxSeq /\ p >= rcvSeq
      BY PacketRange DEF RxInactive, RxPacket
    <2>3. rcvSeq - 1 \in 1 .. MaxSeq
      BY <2>1, RcvFacts
    <2>4. rcvSeq - 1 = sndSeq - 1
      BY <2>1, <2>3 DEF IndInv, EosInv
    <2>5. sentSeq < sndSeq /\ sndSeq \in 1 .. (MaxSeq + 1)
      BY DEF IndInv, SenderInv, TypeOK, SndTypeOK
    <2> QED
      BY <2>2, <2>3, <2>4, <2>5, RcvFacts
  <1>5. StoppedAnswer(p)
    BY <1>1, <1>2, <1>3, <1>4 DEF RxInactive, RxPacket, StoppedAnswer
  <1> QED
    BY <1>5, StoppedAnswerInv

(* doSendStopMessageUDP, the sender is told. *)
LEMMA StopSenderInv == ASSUME IndInv, StopSender PROVE IndInv'
  <1> DEFINE msgs == {Ack(TRUE, rcvSeq - 1, rcvSeq - 1)}
  <1> USE ConstAssumption DEF SeqNum
  <1>1. /\ UNCHANGED <<sndVars, sentSeq, rcvSeq, extraSeq, rcvActive, peerKnown, pBuff>>
        /\ UNCHANGED <<delivered, dataNet>>
        /\ UNCHANGED <<pkt_q, pkt_q_head, pkt_q_tail, pkt_q_size>>
        /\ pBuff = 0
        /\ stopped' = TRUE /\ rcvStopRequested' = TRUE
        /\ rcvFlags' = rcvFlags \cup {"STOP"}
    BY DEF StopSender, ringVars, sndVars
  <1>2. ackNet' \subseteq ackNet \cup msgs
    BY PostSubset DEF StopSender
  <1>3. RcvTypeOK'
    BY <1>1 DEF IndInv, TypeOK, RcvTypeOK
  <1>4. ReceiverInv'
    BY <1>1 DEF IndInv, ReceiverInv, Slot
  <1>5. DeliveryInv'
    BY <1>1 DEF IndInv, DeliveryInv
  <1>6. Progress
    BY <1>1 DEF Progress
  <1>7. ASSUME NEW m \in msgs PROVE m \in AckMsg /\ AckMsgInv(m)'
    <2>1. m \in AckMsg /\ m.kind = "ack" /\ m.seq = rcvSeq - 1 /\ m.extraSeq = rcvSeq - 1
      BY RcvFacts, StopAckFields
    <2> QED
      BY <1>1, <2>1, RcvFacts, NewAck
  <1> HIDE DEF msgs
  <1> QED
    BY <1>2, <1>3, <1>4, <1>5, <1>6, <1>7, ReceiverAssemble

(***************************************************************************)
(* Steps of the main thread that change neither ring nor counters.         *)
(***************************************************************************)
RingKept ==
    /\ UNCHANGED <<sndVars, rcvSeq, extraSeq, rcvFlags, ringVars,
                   rcvStopRequested, peerKnown, netVars>>

(* A step of the main thread that leaves the ring alone keeps IndInv. *)
LEMMA RingKeptInv ==
    ASSUME IndInv, RingKept,
           rcvActive' \in BOOLEAN, stopped' \in BOOLEAN, pBuff' \in SeqNum,
           delivered' \in Seq(1 .. MaxSeq),
           DeliveryInv',
           rcvStopRequested => stopped',
           pBuff' # 0 => ~stopped' /\ pkt_q_size > 0 /\ pBuff' = extraSeq + 1,
           ~rcvStopRequested /\ ~rcvActive' => rcvSeq > 1 /\ IsEos(rcvSeq - 1)
    PROVE  IndInv'
  <1> USE ConstAssumption DEF SeqNum
  <1>1. /\ UNCHANGED sndVars
        /\ sentSeq' = sentSeq /\ pktFlags' = pktFlags
        /\ UNCHANGED <<rcvSeq, extraSeq, rcvFlags, rcvStopRequested, peerKnown>>
        /\ UNCHANGED <<pkt_q, pkt_q_head, pkt_q_tail, pkt_q_size>>
        /\ dataNet' = dataNet /\ ackNet' = ackNet
    BY DEF RingKept, ringVars, sndVars, netVars
  <1>2. RcvTypeOK'
    BY <1>1 DEF IndInv, TypeOK, RcvTypeOK
  <1>3. ReceiverInv'
    <2>1. RingFaithful' = RingFaithful
      BY <1>1 DEF RingFaithful, HeadSeq, SlotOf, Slot
    <2>2. IsEos(rcvSeq - 1)' = IsEos(rcvSeq - 1)
      BY <1>1 DEF IsEos
    <2>3. /\ rcvSeq' <= sentSeq' + 1
          /\ extraSeq' <= sentSeq'
          /\ rcvStopRequested' => stopped'
          /\ "STOP" \in rcvFlags' => rcvStopRequested'
          /\ \A i \in Slot : pkt_q'[i] <= sentSeq'
      BY <1>1 DEF IndInv, ReceiverInv, Slot
    <2>4. pBuff' # 0 => ~stopped' /\ pkt_q_size' > 0 /\ pBuff' = extraSeq' + 1
      BY <1>1
    <2>5. ~rcvStopRequested' =>
            /\ RingFaithful'
            /\ ("EOS" \in rcvFlags' \/ ~rcvActive') => rcvSeq' > 1 /\ IsEos(rcvSeq - 1)'
      BY <1>1, <2>1, <2>2 DEF IndInv, ReceiverInv
    <2> QED
      BY <2>3, <2>4, <2>5 DEF ReceiverInv
  <1>4. Progress
    <2>1. \A s \in SeqNum : Received(s)' = Received(s)
      BY <1>1 DEF Received, Buffered, Slot
    <2>2. rcvSeq <= rcvSeq' /\ extraSeq <= extraSeq'
      BY <1>1, RcvFacts
    <2> QED
      BY <1>1, <2>1, <2>2 DEF Progress
  <1> DEFINE msgs == {}
  <1>5. ackNet' \subseteq ackNet \cup msgs /\ \A m \in msgs : m \in AckMsg /\ AckMsgInv(m)'
    BY <1>1
  <1> HIDE DEF msgs
  <1> QED
    BY <1>2, <1>3, <1>4, <1>5, ReceiverAssemble

(* SendStopMessage for an inactive connection. *)
LEMMA StopInactiveInv == ASSUME IndInv, StopInactive PROVE IndInv'
  <1>1. RingKept /\ pBuff = 0 /\ ~rcvActive /\ UNCHANGED <<rcvActive, pBuff, delivered>> /\ stopped' = TRUE
    BY DEF StopInactive, RingKept
  <1>2. rcvActive' \in BOOLEAN /\ stopped' \in BOOLEAN /\ pBuff' \in SeqNum
        /\ delivered' \in Seq(1 .. MaxSeq)
    BY <1>1 DEF IndInv, TypeOK, RcvTypeOK
  <1>3. DeliveryInv'
    BY <1>1 DEF IndInv, DeliveryInv, RingKept, sndVars
  <1>4. ~rcvStopRequested /\ ~rcvActive' => rcvSeq > 1 /\ IsEos(rcvSeq - 1)
    BY <1>1 DEF IndInv, ReceiverInv
  <1> QED
    BY <1>1, <1>2, <1>3, <1>4, RingKeptInv

(* What is being read is the head of the ring. *)
LEMMA ReadingHead ==
    ASSUME IndInv, pkt_q_size > 0, ~stopped
    PROVE  /\ ~rcvStopRequested
           /\ pkt_q[pkt_q_head] = extraSeq + 1
           /\ HeadSeq = extraSeq + 1
           /\ extraSeq + 1 \in 1 .. MaxSeq
           /\ extraSeq + 1 <= rcvSeq - 1
           /\ extraSeq + 1 <= sentSeq
  <1> USE ConstAssumption DEF SeqNum
  <1>1. ~rcvStopRequested
    BY DEF IndInv, ReceiverInv
  <1>2. /\ rcvSeq \in 1 .. (MaxSeq + 1) /\ extraSeq \in 0 .. MaxSeq
        /\ pkt_q_size \in 0 .. QueueDepth
        /\ HeadSeq = rcvSeq - pkt_q_size /\ HeadSeq = extraSeq + 1
        /\ pkt_q_head = SlotOf(HeadSeq)
    BY <1>1, Window
  <1>3. HeadSeq \in HeadSeq .. (rcvSeq - 1)
    BY <1>2
  <1>4. pkt_q[SlotOf(HeadSeq)] = HeadSeq
    BY <1>1, <1>3 DEF IndInv, ReceiverInv, RingFaithful
  <1> QED
    BY <1>1, <1>2, <1>3, <1>4, RcvFacts

(* prepareRxConnForRead. *)
LEMMA PrepareRxConnForReadInv == ASSUME IndInv, PrepareRxConnForRead PROVE IndInv'
  <1> USE ConstAssumption DEF SeqNum
  <1>1. /\ RingKept
        /\ UNCHANGED <<rcvActive, stopped, extraSeq, sentSeq>>
        /\ pBuff = 0 /\ ~stopped /\ pkt_q_size > 0
        /\ pBuff' = pkt_q[pkt_q_head]
        /\ delivered' = Append(delivered, pkt_q[pkt_q_head])
    BY DEF PrepareRxConnForRead, RingKept, sndVars
  <1>2. /\ pkt_q[pkt_q_head] = extraSeq + 1
        /\ extraSeq + 1 \in 1 .. MaxSeq
        /\ extraSeq + 1 <= sentSeq
        /\ ~rcvStopRequested
    BY <1>1, ReadingHead
  <1>3. /\ delivered \in Seq(1 .. MaxSeq)
        /\ Len(delivered) = extraSeq
        /\ \A i \in 1 .. Len(delivered) : delivered[i] = i
    BY <1>1 DEF IndInv, TypeOK, RcvTypeOK, DeliveryInv
  <1>4. /\ delivered' \in Seq(1 .. MaxSeq)
        /\ Len(delivered') = extraSeq + 1
        /\ \A i \in 1 .. (extraSeq + 1) : delivered'[i] = i
    BY <1>1, <1>2, <1>3, RcvFacts
  <1>5. DeliveryInv'
    BY <1>1, <1>2, <1>4 DEF DeliveryInv
  <1>6. rcvActive' \in BOOLEAN /\ stopped' \in BOOLEAN
    BY <1>1 DEF IndInv, TypeOK, RcvTypeOK
  <1>7. pBuff' \in SeqNum /\ pBuff' = extraSeq + 1
    BY <1>1, <1>2
  <1>8. ~rcvStopRequested /\ ~rcvActive' => rcvSeq > 1 /\ IsEos(rcvSeq - 1)
    BY <1>1 DEF IndInv, ReceiverInv
  <1> QED
    BY <1>1, <1>2, <1>4, <1>5, <1>6, <1>7, <1>8, RingKeptInv

(* markUDPConnInactive. *)
LEMMA MarkConnInactiveInv == ASSUME IndInv, MarkConnInactive PROVE IndInv'
  <1> USE ConstAssumption DEF SeqNum
  <1>1. /\ RingKept
        /\ UNCHANGED <<pBuff, stopped, delivered, extraSeq, sentSeq>>
        /\ pBuff # 0 /\ IsEos(pBuff) /\ rcvActive' = FALSE
    BY DEF MarkConnInactive, RingKept, sndVars
  <1>2. pBuff = extraSeq + 1 /\ ~stopped /\ pkt_q_size > 0
    BY <1>1 DEF IndInv, ReceiverInv
  <1>3. /\ ~rcvStopRequested
        /\ extraSeq + 1 \in 1 .. MaxSeq
        /\ extraSeq + 1 <= rcvSeq - 1
        /\ extraSeq \in Int
    BY <1>2, ReadingHead, RcvFacts
  <1>4. rcvSeq > 1 /\ IsEos(rcvSeq - 1)
    <2>1. pBuff = sndSeq - 1
      BY <1>1, <1>2, <1>3 DEF IndInv, EosInv
    <2>2. sentSeq < sndSeq /\ sndSeq \in 1 .. (MaxSeq + 1)
      BY DEF IndInv, SenderInv, TypeOK, SndTypeOK
    <2>3. rcvSeq - 1 = pBuff
      BY <1>2, <1>3, <2>1, <2>2, RcvFacts
    <2> QED
      BY <1>1, <1>3, <2>3, RcvFacts
  <1>5. DeliveryInv'
    BY <1>1 DEF IndInv, DeliveryInv
  <1>6. stopped' \in BOOLEAN /\ pBuff' \in SeqNum /\ delivered' \in Seq(1 .. MaxSeq)
        /\ rcvActive' \in BOOLEAN
    BY <1>1 DEF IndInv, TypeOK, RcvTypeOK
  <1> QED
    BY <1>1, <1>2, <1>3, <1>4, <1>5, <1>6, RingKeptInv

(***************************************************************************)
(* The head leaves the ring.                                               *)
(***************************************************************************)
LEMMA PutRxBufferInv == ASSUME IndInv, PutRxBuffer PROVE IndInv'
  <1> DEFINE e == extraSeq + 1
             msgs == {Ack(RcvStopFlag, rcvSeq - 1, e)}
  <1> USE ConstAssumption DEF SeqNum
  <1>1. pBuff # 0 /\ ~stopped /\ pkt_q_size > 0
    BY DEF PutRxBuffer, IndInv, ReceiverInv
  <1>2. /\ ~rcvStopRequested
        /\ pkt_q[pkt_q_head] = e
        /\ HeadSeq = e
        /\ e \in 1 .. MaxSeq
        /\ e <= rcvSeq - 1
        /\ e <= sentSeq
    BY <1>1, ReadingHead
  <1>3. /\ rcvSeq \in 1 .. (MaxSeq + 1)
        /\ extraSeq \in 0 .. MaxSeq
        /\ pkt_q_size \in 0 .. QueueDepth
        /\ HeadSeq = rcvSeq - pkt_q_size
        /\ pkt_q_head = SlotOf(e)
        /\ pkt_q_tail = SlotOf(rcvSeq)
    BY <1>2, Window
  <1>4. /\ UNCHANGED <<sndVars, sentSeq, pktFlags, rcvSeq, rcvFlags, pkt_q_tail>>
        /\ UNCHANGED <<rcvActive, rcvStopRequested, peerKnown, stopped, delivered, dataNet>>
        /\ pBuff' = 0
        /\ pkt_q' = [pkt_q EXCEPT ![pkt_q_head] = 0]
        /\ pkt_q_head' = NextSlot(pkt_q_head)
        /\ pkt_q_size' = pkt_q_size - 1
        /\ extraSeq' = e
    BY <1>2 DEF PutRxBuffer, sndVars
  <1>5. ackNet' \subseteq ackNet \cup msgs
    BY <1>4, PostSubset DEF PutRxBuffer
  <1>6. SlotOf(e) \in Slot
    BY <1>2, SlotOfRange
  <1>7. pkt_q_head' = SlotOf(e + 1) /\ SlotOf(e + 1) \in Slot
    <2>1. (SlotOf(e) + 1) % QueueDepth = SlotOf(e + 1)
      BY <1>2, SlotPlus
    <2>2. SlotOf(e + 1) \in Slot
      BY <1>2, SlotOfRange
    <2> QED
      BY <1>3, <1>4, <2>1, <2>2 DEF NextSlot
  <1>8. /\ pkt_q \in [Slot -> 0 .. MaxSeq]
        /\ pkt_q' \in [Slot -> 0 .. MaxSeq]
        /\ pkt_q'[SlotOf(e)] = 0
        /\ \A i \in Slot : i # SlotOf(e) => pkt_q'[i] = pkt_q[i]
    BY <1>3, <1>4, <1>6 DEF IndInv, TypeOK, RcvTypeOK
  <1>9. RcvTypeOK'
    <2>1. pkt_q_size' \in 0 .. QueueDepth /\ extraSeq' \in 0 .. MaxSeq
      BY <1>1, <1>2, <1>3, <1>4
    <2> QED
      BY <1>4, <1>7, <1>8, <2>1 DEF IndInv, TypeOK, RcvTypeOK
  <1>10. RingFaithful
    BY <1>2 DEF IndInv, ReceiverInv
  <1>11. HeadSeq' = e + 1
    BY <1>2, <1>3, <1>4 DEF HeadSeq
  <1>12. RingFaithful'
    <2>1. \A s \in (e + 1) .. (rcvSeq - 1) : pkt_q'[SlotOf(s)] = s
      <3> SUFFICES ASSUME NEW s \in (e + 1) .. (rcvSeq - 1) PROVE pkt_q'[SlotOf(s)] = s
        OBVIOUS
      <3>1. s \in Nat \ {0} /\ e \in Nat \ {0} /\ e < s /\ s < e + QueueDepth
        BY <1>2, <1>3
      <3>2. SlotOf(e) # SlotOf(s) /\ SlotOf(s) \in Slot
        BY <3>1, SlotDistinct, SlotOfRange
      <3>3. s \in HeadSeq .. (rcvSeq - 1)
        BY <1>2, <1>3, <3>1
      <3>4. pkt_q[SlotOf(s)] = s
        BY <1>2, <1>10, <3>3 DEF RingFaithful
      <3> QED
        BY <1>8, <3>2, <3>4
    <2>2. ASSUME NEW i \in Slot, pkt_q'[i] # 0
          PROVE  /\ SlotOf(pkt_q'[i]) = i
                 /\ pkt_q'[i] \in (e + 1) .. (e + QueueDepth)
                 /\ pkt_q'[i] # rcvSeq
      <3>1. i # SlotOf(e) /\ pkt_q'[i] = pkt_q[i]
        BY <1>8, <2>2
      <3>2. /\ SlotOf(pkt_q[i]) = i
            /\ pkt_q[i] \in HeadSeq .. (extraSeq + QueueDepth)
            /\ pkt_q[i] # rcvSeq
        BY <1>2, <1>10, <2>2, <3>1 DEF RingFaithful
      <3>3. pkt_q[i] # e
        BY <3>1, <3>2
      <3>4. pkt_q[i] \in (e + 1) .. (e + QueueDepth)
        BY <1>2, <1>3, <3>2, <3>3
      <3> QED
        BY <3>1, <3>2, <3>4
    <2> HIDE DEF e
    <2> QED
      BY <1>3, <1>4, <1>7, <1>11, <2>1, <2>2 DEF RingFaithful, SlotOf, Slot
  <1>13. ReceiverInv'
    <2>1. rcvSeq' <= sentSeq' + 1 /\ extraSeq' <= sentSeq'
      BY <1>2, <1>4, RcvFacts
    <2>2. \A i \in Slot : pkt_q'[i] <= sentSeq'
      BY <1>4, <1>8, RcvFacts DEF IndInv, ReceiverInv
    <2>3. ("EOS" \in rcvFlags' \/ ~rcvActive') => rcvSeq' > 1 /\ IsEos(rcvSeq - 1)'
      BY <1>2, <1>4 DEF IndInv, ReceiverInv, IsEos
    <2>4. (rcvStopRequested' => stopped') /\ ("STOP" \in rcvFlags' => rcvStopRequested')
      BY <1>4 DEF IndInv, ReceiverInv
    <2> QED
      BY <1>4, <1>12, <2>1, <2>2, <2>3, <2>4 DEF ReceiverInv
  <1>14. DeliveryInv'
    BY <1>1, <1>4, DataNetRange DEF IndInv, DeliveryInv, PutRxBuffer
  <1>15. Progress
    <2>1. rcvSeq <= rcvSeq' /\ extraSeq <= extraSeq'
      BY <1>3, <1>4
    <2>2. ASSUME NEW s \in SeqNum, Received(s) PROVE Received(s)'
      <3>1. CASE s < rcvSeq
        BY <1>4, <3>1 DEF Received
      <3>2. CASE s \in Buffered
        <4>1. PICK i \in Slot : pkt_q[i] = s /\ s # 0
          BY <3>2 DEF Buffered
        <4>2. CASE i = SlotOf(e)
          BY <1>2, <1>3, <1>4, <4>1, <4>2 DEF Received
        <4>3. CASE i # SlotOf(e)
          BY <1>8, <4>1, <4>3 DEF Received, Buffered, Slot
        <4> QED
          BY <4>2, <4>3
      <3> QED
        BY <2>2, <3>1, <3>2 DEF Received
    <2> QED
      BY <1>4, <2>1, <2>2 DEF Progress
  <1>16. ASSUME NEW m \in msgs PROVE m \in AckMsg /\ AckMsgInv(m)'
    <2>1. m \in AckMsg /\ m.kind = "ack" /\ m.stop = RcvStopFlag
          /\ m.seq = rcvSeq - 1 /\ m.extraSeq = e
      <3>1. e \in SeqNum
        BY <1>2
      <3> HIDE DEF e
      <3> QED
        BY <3>1, RcvFacts, AckFields
    <2>2. ~m.stop
      BY <1>2, <2>1, RcvFacts
    <2>3. m.seq <= sentSeq /\ m.seq < rcvSeq /\ m.extraSeq <= sentSeq
          /\ m.extraSeq < rcvSeq /\ m.extraSeq <= e
      BY <1>2, <1>3, <2>1, RcvFacts
    <2> HIDE DEF e
    <2> QED
      BY <1>4, <2>1, <2>2, <2>3, NewAck
  <1> HIDE DEF msgs
  <1> QED
    BY <1>5, <1>9, <1>13, <1>14, <1>15, <1>16, ReceiverAssemble

(***************************************************************************)
(* The queued packets leave the ring together.                             *)
(***************************************************************************)
LEMMA StopQueuedEosInv == ASSUME IndInv, StopQueuedEos PROVE IndInv'
  <1> DEFINE msgs == {Ack(RcvStopFlag, rcvSeq - 1, s) :
                        s \in {t \in HeadSeq .. (rcvSeq - 1) : AcksConsumption(t)}}
  <1> USE ConstAssumption DEF SeqNum
  <1>1. ~rcvStopRequested
    BY DEF StopQueuedEos, IndInv, ReceiverInv
  <1>2. /\ rcvSeq \in 1 .. (MaxSeq + 1)
        /\ extraSeq \in 0 .. MaxSeq
        /\ HeadSeq = extraSeq + 1
        /\ extraSeq < rcvSeq
        /\ pkt_q_tail = SlotOf(rcvSeq)
    BY <1>1, Window
  <1>3. /\ UNCHANGED <<sndVars, sentSeq, pktFlags, rcvSeq, rcvFlags, pkt_q_tail>>
        /\ UNCHANGED <<rcvStopRequested, peerKnown, pBuff, delivered, dataNet>>
        /\ pBuff = 0 /\ "EOS" \in rcvFlags
        /\ stopped' = TRUE /\ rcvActive' = FALSE
        /\ pkt_q_head' = pkt_q_tail
        /\ pkt_q_size' = 0
        /\ extraSeq' = rcvSeq - 1
    BY DEF StopQueuedEos, sndVars
  <1>4. pkt_q' = [i \in Slot |-> IF pkt_q[i] \in HeadSeq .. (rcvSeq - 1) THEN 0 ELSE pkt_q[i]]
    BY DEF StopQueuedEos
  <1>5. ackNet' \subseteq ackNet \cup msgs
    BY PostSubset DEF StopQueuedEos
  <1>6. pkt_q \in [Slot -> 0 .. MaxSeq] /\ pkt_q_tail \in Slot
    BY DEF IndInv, TypeOK, RcvTypeOK
  <1>7. RcvTypeOK'
    <2>1. pkt_q' \in [Slot -> 0 .. MaxSeq]
      BY <1>4, <1>6
    <2>2. extraSeq' \in 0 .. MaxSeq /\ pkt_q_size' \in 0 .. QueueDepth
      BY <1>2, <1>3
    <2> QED
      BY <1>3, <1>6, <2>1, <2>2 DEF IndInv, TypeOK, RcvTypeOK
  <1>8. RingFaithful
    BY <1>1 DEF IndInv, ReceiverInv
  <1>9. HeadSeq' = rcvSeq /\ extraSeq' + 1 = rcvSeq
    BY <1>2, <1>3 DEF HeadSeq
  <1>10. RingFaithful'
    <2>1. ASSUME NEW i \in Slot, pkt_q'[i] # 0
          PROVE  /\ SlotOf(pkt_q'[i]) = i
                 /\ pkt_q'[i] \in rcvSeq .. ((rcvSeq - 1) + QueueDepth)
                 /\ pkt_q'[i] # rcvSeq
      <3>1. pkt_q'[i] = pkt_q[i] /\ pkt_q[i] \notin HeadSeq .. (rcvSeq - 1)
        BY <1>4, <2>1
      <3>2. /\ SlotOf(pkt_q[i]) = i
            /\ pkt_q[i] \in HeadSeq .. (extraSeq + QueueDepth)
            /\ pkt_q[i] # rcvSeq
        BY <1>1, <1>8, <2>1, <3>1 DEF RingFaithful
      <3>3. pkt_q[i] \in rcvSeq .. ((rcvSeq - 1) + QueueDepth)
        BY <1>2, <3>1, <3>2
      <3> QED
        BY <3>1, <3>2, <3>3
    <2>2. rcvSeq .. (rcvSeq - 1) = {}
      BY <1>2
    <2> QED
      BY <1>2, <1>3, <1>9, <2>1, <2>2 DEF RingFaithful, SlotOf, Slot
  <1>11. ReceiverInv'
    <2>1. rcvSeq' <= sentSeq' + 1 /\ extraSeq' <= sentSeq'
      BY <1>3, RcvFacts
    <2>2. \A i \in Slot : pkt_q'[i] <= sentSeq'
      BY <1>3, <1>4, RcvFacts DEF IndInv, ReceiverInv
    <2>3. rcvSeq' > 1 /\ IsEos(rcvSeq - 1)'
      BY <1>1, <1>3 DEF IndInv, ReceiverInv, IsEos
    <2>4. (rcvStopRequested' => stopped') /\ ("STOP" \in rcvFlags' => rcvStopRequested')
      BY <1>3 DEF IndInv, ReceiverInv
    <2> QED
      BY <1>3, <1>10, <2>1, <2>2, <2>3, <2>4 DEF ReceiverInv
  <1>12. DeliveryInv'
    BY <1>3 DEF IndInv, DeliveryInv
  <1>13. Progress
    <2>1. rcvSeq <= rcvSeq' /\ extraSeq <= extraSeq'
      BY <1>2, <1>3
    <2>2. ASSUME NEW s \in SeqNum, Received(s) PROVE Received(s)'
      <3>1. CASE s < rcvSeq
        BY <1>3, <3>1 DEF Received
      <3>2. CASE s \in Buffered /\ ~(s < rcvSeq)
        <4>1. PICK i \in Slot : pkt_q[i] = s /\ s # 0
          BY <3>2 DEF Buffered
        <4>2. pkt_q'[i] = s
          BY <1>2, <1>4, <3>2, <4>1
        <4> QED
          BY <4>1, <4>2 DEF Received, Buffered, Slot
      <3> QED
        BY <2>2, <3>1, <3>2 DEF Received
    <2> QED
      BY <1>3, <2>1, <2>2 DEF Progress
  <1>14. ASSUME NEW m \in msgs PROVE m \in AckMsg /\ AckMsgInv(m)'
    <2>1. PICK s \in HeadSeq .. (rcvSeq - 1) : m = Ack(RcvStopFlag, rcvSeq - 1, s)
      OBVIOUS
    <2>2. s \in SeqNum /\ s <= rcvSeq - 1
      BY <1>2, <2>1
    <2>3. m \in AckMsg /\ m.kind = "ack" /\ m.stop = RcvStopFlag
          /\ m.seq = rcvSeq - 1 /\ m.extraSeq = s
      BY <2>1, <2>2, RcvFacts, AckFields
    <2>4. ~m.stop
      BY <1>1, <2>3, RcvFacts
    <2>5. m.seq <= sentSeq /\ m.seq < rcvSeq /\ m.extraSeq <= sentSeq
          /\ m.extraSeq < rcvSeq /\ m.extraSeq <= rcvSeq - 1
      BY <1>2, <2>2, <2>3, RcvFacts
    <2> QED
      BY <1>3, <2>3, <2>4, <2>5, NewAck
  <1> HIDE DEF msgs
  <1> QED
    BY <1>5, <1>7, <1>11, <1>12, <1>13, <1>14, ReceiverAssemble

(***************************************************************************)
(* A packet the receiver has room for lies in its window.                  *)
(***************************************************************************)
LEMMA ExpectedFacts ==
    ASSUME IndInv, NEW p, RxExpected(p)
    PROVE  /\ ~rcvStopRequested /\ rcvActive
           /\ p \in 1 .. MaxSeq
           /\ p <= sentSeq
           /\ rcvSeq <= p
           /\ p <= extraSeq + QueueDepth
           /\ pkt_q_size < QueueDepth
           /\ UNCHANGED <<sndVars, sentSeq, pktFlags, extraSeq, rcvStopRequested>>
           /\ UNCHANGED <<rcvActive, pBuff, stopped, delivered>>
           /\ dataNet' \subseteq dataNet
           /\ peerKnown' \in BOOLEAN
  <1> USE ConstAssumption DEF SeqNum
  <1>1. /\ ~rcvStopRequested /\ rcvActive /\ p >= rcvSeq /\ ~Overrun(p)
        /\ p \in dataNet \ {Query}
    BY DEF RxExpected, RxPacket
  <1>2. p \in 1 .. MaxSeq /\ p <= sentSeq
    BY <1>1, PacketRange
  <1>3. /\ rcvSeq \in 1 .. (MaxSeq + 1) /\ extraSeq \in 0 .. MaxSeq
        /\ pkt_q_size \in 0 .. QueueDepth
        /\ HeadSeq = extraSeq + 1
    BY <1>1, Window
  <1>4. p <= extraSeq + QueueDepth /\ pkt_q_size < QueueDepth /\ rcvSeq <= p
    BY <1>1, <1>2, <1>3 DEF Overrun
  <1>5. dataNet' \subseteq dataNet
    BY TakenSubset DEF RxExpected, RxPacket
  <1>6. /\ UNCHANGED <<sndVars, sentSeq, pktFlags, extraSeq, rcvStopRequested>>
        /\ UNCHANGED <<rcvActive, pBuff, stopped, delivered>>
        /\ peerKnown' \in BOOLEAN
    BY DEF RxExpected, RxPacket, sndVars
  <1> QED
    BY <1>1, <1>2, <1>4, <1>5, <1>6

(* The slot of the packet expected next is empty, if it is in the window. *)
LEMMA TailEmpty ==
    ASSUME IndInv, ~rcvStopRequested, rcvSeq <= extraSeq + QueueDepth
    PROVE  pkt_q[SlotOf(rcvSeq)] = 0
  <1> USE ConstAssumption
  <1> SUFFICES ASSUME pkt_q[SlotOf(rcvSeq)] # 0 PROVE FALSE
    OBVIOUS
  <1>1. /\ rcvSeq \in 1 .. (MaxSeq + 1) /\ extraSeq \in 0 .. MaxSeq
        /\ HeadSeq = extraSeq + 1 /\ extraSeq < rcvSeq
    BY Window
  <1>2. rcvSeq \in Int /\ HeadSeq <= rcvSeq
    BY <1>1
  <1>3. pkt_q[SlotOf(rcvSeq)] = rcvSeq
    BY <1>2, SlotHolds
  <1>4. SlotOf(rcvSeq) \in Slot
    BY <1>1, SlotOfRange
  <1> QED
    BY <1>3, <1>4 DEF IndInv, ReceiverInv, RingFaithful

(***************************************************************************)
(* A packet of the window, not the next one, goes into its empty slot.     *)
(***************************************************************************)
LEMMA RxDisorderInv == ASSUME IndInv, NEW p, RxDisorder(p) PROVE IndInv'
  <1> DEFINE lost == {s \in Missing(p) :
                        Cardinality({t \in Missing(p) : t < s}) < MaxLostSeqs}
             msgs == {[kind |-> "disorder", stop |-> RcvStopFlag, seq |-> p,
                       extraSeq |-> rcvSeq - 1, lost |-> lost]}
  <1> USE ConstAssumption DEF SeqNum
  <1>1. RxExpected(p)
    BY DEF RxDisorder
  <1>2. /\ ~rcvStopRequested /\ rcvActive
        /\ p \in 1 .. MaxSeq
        /\ p <= sentSeq
        /\ rcvSeq <= p
        /\ p <= extraSeq + QueueDepth
    BY <1>1, ExpectedFacts
  <1>3. /\ rcvSeq \in 1 .. (MaxSeq + 1)
        /\ extraSeq \in 0 .. MaxSeq
        /\ HeadSeq = extraSeq + 1
        /\ extraSeq < rcvSeq
        /\ pkt_q_tail = SlotOf(rcvSeq)
    BY <1>2, Window
  <1>4. /\ UNCHANGED <<sndVars, sentSeq, pktFlags, extraSeq, rcvStopRequested>>
        /\ UNCHANGED <<rcvActive, pBuff, stopped, delivered>>
        /\ dataNet' \subseteq dataNet
        /\ peerKnown' \in BOOLEAN
    BY <1>1, ExpectedFacts
  <1>5. /\ UNCHANGED <<rcvSeq, rcvFlags, pkt_q_head, pkt_q_tail, pkt_q_size>>
        /\ pkt_q[SlotOf(p)] = 0
        /\ SlotOf(p) # pkt_q_tail
        /\ pkt_q' = [pkt_q EXCEPT ![SlotOf(p)] = p]
    BY DEF RxDisorder
  <1>6. ackNet' \subseteq ackNet \cup msgs
    BY PostSubset DEF RxDisorder
  <1>7. rcvSeq < p
    BY <1>2, <1>3, <1>5
  <1>8. SlotOf(p) \in Slot
    BY <1>2, SlotOfRange
  <1>9. /\ pkt_q \in [Slot -> 0 .. MaxSeq]
        /\ pkt_q' \in [Slot -> 0 .. MaxSeq]
        /\ pkt_q'[SlotOf(p)] = p
        /\ \A i \in Slot : i # SlotOf(p) => pkt_q'[i] = pkt_q[i]
        /\ \A i \in Slot : pkt_q[i] # 0 => pkt_q'[i] = pkt_q[i]
    BY <1>2, <1>5, <1>8 DEF IndInv, TypeOK, RcvTypeOK
  <1>10. RcvTypeOK'
    BY <1>4, <1>5, <1>9 DEF IndInv, TypeOK, RcvTypeOK
  <1>11. RingFaithful
    BY <1>2 DEF IndInv, ReceiverInv
  <1>12. RingFaithful'
    <2>1. HeadSeq' = HeadSeq
      BY <1>5 DEF HeadSeq
    <2>2. \A s \in HeadSeq .. (rcvSeq - 1) : pkt_q'[SlotOf(s)] = s
      <3> SUFFICES ASSUME NEW s \in HeadSeq .. (rcvSeq - 1) PROVE pkt_q'[SlotOf(s)] = s
        OBVIOUS
      <3>1. pkt_q[SlotOf(s)] = s
        BY <1>2, <1>11 DEF RingFaithful
      <3>2. s \in Nat \ {0}
        BY <1>3
      <3>3. SlotOf(s) \in Slot
        BY <3>2, SlotOfRange
      <3> QED
        BY <1>9, <3>1, <3>2, <3>3
    <2>3. ASSUME NEW i \in Slot, pkt_q'[i] # 0
          PROVE  /\ SlotOf(pkt_q'[i]) = i
                 /\ pkt_q'[i] \in HeadSeq .. (extraSeq + QueueDepth)
                 /\ pkt_q'[i] # rcvSeq
      <3>1. CASE i = SlotOf(p)
        BY <1>2, <1>3, <1>7, <1>9, <3>1
      <3>2. CASE i # SlotOf(p)
        BY <1>2, <1>9, <1>11, <2>3, <3>2 DEF RingFaithful
      <3> QED
        BY <3>1, <3>2
    <2>4. extraSeq' = extraSeq /\ rcvSeq' = rcvSeq /\ pkt_q_head' = pkt_q_head
          /\ pkt_q_tail' = pkt_q_tail
      BY <1>4, <1>5
    <2>5. HeadSeq = extraSeq + 1 /\ pkt_q_head = SlotOf(HeadSeq) /\ pkt_q_tail = SlotOf(rcvSeq)
      BY <1>2, Window
    <2> QED
      BY <2>1, <2>2, <2>3, <2>4, <2>5 DEF RingFaithful, SlotOf, Slot
  <1>13. ReceiverInv'
    <2>1. rcvSeq' <= sentSeq' + 1 /\ extraSeq' <= sentSeq'
      BY <1>4, <1>5, RcvFacts
    <2>2. \A i \in Slot : pkt_q'[i] <= sentSeq'
      BY <1>2, <1>4, <1>9 DEF IndInv, ReceiverInv
    <2>3. ("EOS" \in rcvFlags' \/ ~rcvActive') => rcvSeq' > 1 /\ IsEos(rcvSeq - 1)'
      BY <1>2, <1>4, <1>5 DEF IndInv, ReceiverInv, IsEos
    <2>4. /\ (rcvStopRequested' => stopped') /\ ("STOP" \in rcvFlags' => rcvStopRequested')
          /\ pBuff' # 0 => ~stopped' /\ pkt_q_size' > 0 /\ pBuff' = extraSeq' + 1
      BY <1>4, <1>5 DEF IndInv, ReceiverInv
    <2> QED
      BY <1>5, <1>12, <2>1, <2>2, <2>3, <2>4 DEF ReceiverInv
  <1>14. DeliveryInv'
    BY <1>4 DEF IndInv, DeliveryInv
  <1>15. ASSUME NEW s \in SeqNum, Received(s) PROVE Received(s)'
    <2>1. CASE s < rcvSeq
      BY <1>5, <2>1 DEF Received
    <2>2. CASE s \in Buffered
      <3>1. PICK i \in Slot : pkt_q[i] = s /\ s # 0
        BY <2>2 DEF Buffered
      <3>2. pkt_q'[i] = s
        BY <1>9, <3>1
      <3> QED
        BY <3>1, <3>2 DEF Received, Buffered, Slot
    <2> QED
      BY <1>15, <2>1, <2>2 DEF Received
  <1>16. Progress
    <2>1. rcvSeq <= rcvSeq' /\ extraSeq <= extraSeq'
      BY <1>3, <1>4, <1>5
    <2> QED
      BY <1>4, <1>15, <2>1 DEF Progress
  <1>17. IsFiniteSet(Missing(p)) /\ Missing(p) \subseteq 1 .. MaxSeq
    <2>1. Missing(p) \subseteq rcvSeq .. (p - 1)
      BY DEF Missing
    <2>2. IsFiniteSet(rcvSeq .. (p - 1))
      BY <1>2, <1>3, FS_Interval
    <2>3. rcvSeq .. (p - 1) \subseteq 1 .. MaxSeq
      BY <1>2, <1>3
    <2>4. IsFiniteSet(Missing(p))
      BY <2>1, <2>2, FS_Subset
    <2> QED
      BY <2>1, <2>3, <2>4
  <1>18. rcvSeq \in lost
    <2>1. rcvSeq <= extraSeq + QueueDepth
      BY <1>2, <1>3
    <2>2. pkt_q[SlotOf(rcvSeq)] = 0
      BY <1>2, <2>1, TailEmpty
    <2>3. rcvSeq \in Missing(p)
      BY <1>2, <1>3, <1>7, <2>2 DEF Missing
    <2>4. {t \in Missing(p) : t < rcvSeq} = {}
      BY <1>2, <1>3 DEF Missing
    <2>5. Cardinality({}) = 0
      BY FS_EmptySet
    <2> QED
      BY <2>3, <2>4, <2>5
  <1>19. ASSUME NEW s \in 1 .. p, NEW l \in lost, s < l, s \notin lost
         PROVE  Received(s)
    <2>1. l \in Missing(p) /\ Cardinality({t \in Missing(p) : t < l}) < MaxLostSeqs
      OBVIOUS
    <2>2. l \in rcvSeq .. (p - 1)
      BY <2>1 DEF Missing
    <2>3. CASE s < rcvSeq
      BY <2>3 DEF Received
    <2>4. CASE s >= rcvSeq /\ pkt_q[SlotOf(s)] # 0
      <3>1. HeadSeq <= s /\ s <= extraSeq + QueueDepth /\ s \in Int /\ s \in Nat \ {0}
        BY <1>2, <1>3, <1>19, <2>2, <2>4
      <3>2. pkt_q[SlotOf(s)] = s
        BY <1>2, <2>4, <3>1, SlotHolds
      <3>3. SlotOf(s) \in Slot
        BY <3>1, SlotOfRange
      <3> QED
        BY <3>1, <3>2, <3>3 DEF Received, Buffered
    <2>5. CASE s >= rcvSeq /\ pkt_q[SlotOf(s)] = 0
      <3> DEFINE A == {t \in Missing(p) : t < s}
                 B == {t \in Missing(p) : t < l}
      <3>1. s \in Missing(p)
        BY <1>2, <1>3, <1>19, <2>2, <2>5 DEF Missing
      <3>2. IsFiniteSet(B)
        <4>1. B \subseteq Missing(p)
          OBVIOUS
        <4> QED
          BY <1>17, <4>1, FS_Subset
      <3>3. A \subseteq B
        BY <1>2, <1>3, <1>17, <1>19, <2>2
      <3>4. IsFiniteSet(A) /\ Cardinality(A) <= Cardinality(B)
        BY <3>2, <3>3, FS_Subset
      <3>5. Cardinality(A) \in Nat /\ Cardinality(B) \in Nat
        BY <3>2, <3>4, FS_CardinalityType
      <3>6. Cardinality(A) < MaxLostSeqs
        BY <2>1, <3>4, <3>5
      <3> QED
        BY <1>19, <3>1, <3>6
    <2> QED
      BY <1>3, <2>3, <2>4, <2>5
  <1>20. ASSUME NEW m \in msgs PROVE m \in AckMsg /\ AckMsgInv(m)'
    <2>1. lost \subseteq SeqNum
      BY <1>17
    <2> HIDE DEF lost
    <2>2. m \in AckMsg
      <3>1. p \in SeqNum /\ rcvSeq - 1 \in SeqNum /\ RcvStopFlag \in BOOLEAN
        BY <1>2, RcvFacts
      <3> QED
        BY <2>1, <3>1, DisorderFields
    <2>3. m.kind = "disorder" /\ m.seq = p /\ m.extraSeq = rcvSeq - 1 /\ m.stop = RcvStopFlag
          /\ m.lost = lost
      OBVIOUS
    <2>4. Received(m.seq)'
      BY <1>2, <1>8, <1>9, <2>3 DEF Received, Buffered, Slot
    <2>5. Received(m.extraSeq)'
      BY <1>5, <2>3, RcvFacts DEF Received
    <2>6. m.seq <= sentSeq' /\ m.extraSeq <= sentSeq'
      BY <1>2, <1>4, <2>3, RcvFacts
    <2>7. ~m.stop
      BY <1>2, <2>3, RcvFacts
    <2>8. m.lost # {}
      BY <1>18, <2>3
    <2>9. \A s \in 1 .. m.seq : \A k \in m.lost : s < k /\ s \notin m.lost => Received(s)'
      <3> SUFFICES ASSUME NEW s \in 1 .. p, NEW k \in lost, s < k, s \notin lost
                   PROVE  Received(s)'
        BY <2>3
      <3>1. s \in SeqNum
        BY <1>2
      <3> QED
        BY <1>15, <1>19, <3>1
    <2> QED
      BY <2>2, <2>3, <2>4, <2>5, <2>6, <2>7, <2>8, <2>9 DEF AckMsgInv
  <1> HIDE DEF msgs
  <1> QED
    BY <1>6, <1>10, <1>13, <1>14, <1>16, <1>20, ReceiverAssemble

(***************************************************************************)
(* The packet expected next: the tail passes it and the early ones.        *)
(***************************************************************************)
LEMMA RxInOrderInv == ASSUME IndInv, NEW p, RxInOrder(p) PROVE IndInv'
  <1> USE ConstAssumption DEF SeqNum
  <1>1. RxExpected(p)
    BY DEF RxInOrder
  <1>2. /\ ~rcvStopRequested /\ rcvActive
        /\ p \in 1 .. MaxSeq
        /\ p <= sentSeq
        /\ rcvSeq <= p
        /\ p <= extraSeq + QueueDepth
        /\ pkt_q_size < QueueDepth
    BY <1>1, ExpectedFacts
  <1>3. /\ rcvSeq \in 1 .. (MaxSeq + 1)
        /\ extraSeq \in 0 .. MaxSeq
        /\ pkt_q_size \in 0 .. QueueDepth
        /\ rcvSeq - pkt_q_size = extraSeq + 1
        /\ HeadSeq = extraSeq + 1
        /\ extraSeq < rcvSeq
        /\ pkt_q_head = SlotOf(extraSeq + 1)
        /\ pkt_q_tail = SlotOf(rcvSeq)
    BY <1>2, Window
  <1>4. /\ UNCHANGED <<sndVars, sentSeq, pktFlags, extraSeq, rcvStopRequested>>
        /\ UNCHANGED <<rcvActive, pBuff, stopped, delivered>>
        /\ dataNet' \subseteq dataNet
        /\ peerKnown' \in BOOLEAN
    BY <1>1, ExpectedFacts
  <1>5. /\ SlotOf(p) = pkt_q_tail
        /\ pkt_q[SlotOf(p)] = 0
        /\ pkt_q' = [pkt_q EXCEPT ![pkt_q_tail] = p]
        /\ pkt_q_head' = pkt_q_head
    BY DEF RxInOrder
  <1>6. p = rcvSeq
    <2>1. p \in Nat \ {0} /\ rcvSeq \in Nat \ {0} /\ p < rcvSeq + QueueDepth
      BY <1>2, <1>3
    <2>2. ~(rcvSeq < p)
      BY <1>3, <1>5, <2>1, SlotDistinct
    <2> QED
      BY <1>2, <2>1, <2>2
  <1>7. SlotOf(p) \in Slot
    BY <1>2, SlotOfRange
  <1>8. /\ pkt_q \in [Slot -> 0 .. MaxSeq]
        /\ pkt_q' \in [Slot -> 0 .. MaxSeq]
        /\ pkt_q'[SlotOf(p)] = p
        /\ \A i \in Slot : i # SlotOf(p) => pkt_q'[i] = pkt_q[i]
        /\ \A i \in Slot : pkt_q[i] # 0 => pkt_q'[i] = pkt_q[i]
    BY <1>2, <1>5, <1>7 DEF IndInv, TypeOK, RcvTypeOK
  <1>9. RingFaithful
    BY <1>2 DEF IndInv, ReceiverInv
  <1> DEFINE At(i) == pkt_q'[(pkt_q_tail + i) % QueueDepth]
  <1>10. PICK n \in 1 .. (QueueDepth - pkt_q_size) :
            /\ \A i \in 0 .. (n - 1) : At(i) # 0
            /\ n = QueueDepth - pkt_q_size \/ At(n) = 0
            /\ pkt_q_size' = pkt_q_size + n
            /\ pkt_q_tail' = (pkt_q_tail + n) % QueueDepth
            /\ rcvSeq' = rcvSeq + n
            /\ rcvFlags' = IF IsEos(At(n - 1)) THEN rcvFlags \cup {"EOS"} ELSE rcvFlags
    BY DEF RxInOrder
  <1>11. n \in Nat \ {0} /\ n <= QueueDepth - pkt_q_size
    BY <1>3, <1>10
  <1>12. ASSUME NEW i \in Nat
         PROVE  /\ At(i) = pkt_q'[SlotOf(rcvSeq + i)]
                /\ SlotOf(rcvSeq + i) \in Slot
    <2>1. (SlotOf(rcvSeq) + i) % QueueDepth = SlotOf(rcvSeq + i)
      BY <1>3, SlotPlus
    <2>2. rcvSeq + i \in Nat \ {0}
      BY <1>3
    <2>3. SlotOf(rcvSeq + i) \in Slot
      BY <2>2, SlotOfRange
    <2> QED
      BY <1>3, <2>1, <2>3
  <1>13. ASSUME NEW i \in 0 .. (n - 1)
         PROVE  pkt_q'[SlotOf(rcvSeq + i)] = rcvSeq + i
    <2>1. i \in Nat /\ i <= n - 1
      BY <1>11
    <2>2. pkt_q'[SlotOf(rcvSeq + i)] # 0 /\ SlotOf(rcvSeq + i) \in Slot
      BY <1>10, <1>12, <2>1
    <2>3. CASE SlotOf(rcvSeq + i) = SlotOf(p)
      <3>1. rcvSeq + i < rcvSeq + QueueDepth
        BY <1>3, <1>11, <2>1
      <3>2. ~(rcvSeq < rcvSeq + i)
        BY <1>3, <1>6, <2>1, <2>3, <3>1, SlotDistinct
      <3>3. i = 0
        BY <1>3, <2>1, <3>2
      <3> QED
        BY <1>3, <1>6, <1>8, <3>3
    <2>4. CASE SlotOf(rcvSeq + i) # SlotOf(p)
      <3>1. pkt_q[SlotOf(rcvSeq + i)] = pkt_q'[SlotOf(rcvSeq + i)]
        BY <1>8, <2>2, <2>4
      <3>2. /\ rcvSeq + i \in Int
            /\ HeadSeq <= rcvSeq + i
            /\ rcvSeq + i <= extraSeq + QueueDepth
        BY <1>3, <1>11, <2>1
      <3> QED
        BY <1>2, <2>2, <3>1, <3>2, SlotHolds
    <2> QED
      BY <2>3, <2>4
  <1>14. /\ At(n - 1) = rcvSeq + n - 1
         /\ rcvSeq + n - 1 <= sentSeq
         /\ rcvSeq + n - 1 \in 1 .. MaxSeq
    <2>1. n - 1 \in 0 .. (n - 1) /\ n - 1 \in Nat /\ rcvSeq + (n - 1) = rcvSeq + n - 1
      BY <1>3, <1>11
    <2>2. /\ At(n - 1) = pkt_q'[SlotOf(rcvSeq + (n - 1))]
          /\ SlotOf(rcvSeq + (n - 1)) \in Slot
      BY <1>12, <2>1
    <2>3. pkt_q'[SlotOf(rcvSeq + (n - 1))] = rcvSeq + (n - 1)
      BY <1>13, <2>1
    <2>4. \A i \in Slot : pkt_q'[i] <= sentSeq
      BY <1>2, <1>8 DEF IndInv, ReceiverInv
    <2>5. rcvSeq + (n - 1) <= sentSeq /\ rcvSeq + (n - 1) \in 0 .. MaxSeq
      <3>1. pkt_q'[SlotOf(rcvSeq + (n - 1))] \in 0 .. MaxSeq
        BY <1>8, <2>2
      <3> QED
        BY <2>2, <2>3, <2>4, <3>1
    <2> QED
      BY <1>3, <1>11, <2>1, <2>2, <2>3, <2>5
  <1>15. /\ pkt_q_size' = pkt_q_size + n
         /\ rcvSeq' = rcvSeq + n
         /\ pkt_q_tail' = SlotOf(rcvSeq + n)
         /\ pkt_q_tail' \in Slot
         /\ rcvFlags' = IF IsEos(rcvSeq + n - 1) THEN rcvFlags \cup {"EOS"} ELSE rcvFlags
    <2>1. (SlotOf(rcvSeq) + n) % QueueDepth = SlotOf(rcvSeq + n)
      BY <1>3, <1>11, SlotPlus
    <2>2. SlotOf(rcvSeq + n) \in Slot
      BY <1>11, <1>12
    <2>3. pkt_q_tail' = SlotOf(rcvSeq + n)
      BY <1>3, <1>10, <2>1
    <2>4. rcvFlags' = IF IsEos(rcvSeq + n - 1) THEN rcvFlags \cup {"EOS"} ELSE rcvFlags
      BY <1>10, <1>14, Zenon
    <2> QED
      BY <1>10, <2>2, <2>3, <2>4
  <1>16. n = QueueDepth - pkt_q_size \/ pkt_q'[SlotOf(rcvSeq + n)] = 0
    BY <1>10, <1>11, <1>12
  <1>17. RcvTypeOK'
    <2>1. rcvSeq' \in 1 .. (MaxSeq + 1) /\ pkt_q_size' \in 0 .. QueueDepth
      BY <1>3, <1>11, <1>14, <1>15
    <2>2. rcvFlags' \in SUBSET {"STOP", "EOS"}
      BY <1>15 DEF IndInv, TypeOK, RcvTypeOK
    <2> QED
      BY <1>4, <1>5, <1>8, <1>15, <2>1, <2>2 DEF IndInv, TypeOK, RcvTypeOK
  <1>18. HeadSeq' = extraSeq + 1
    BY <1>3, <1>11, <1>15 DEF HeadSeq
  <1>19. RingFaithful'
    <2>1. \A s \in (extraSeq + 1) .. (rcvSeq + n - 1) : pkt_q'[SlotOf(s)] = s
      <3> SUFFICES ASSUME NEW s \in (extraSeq + 1) .. (rcvSeq + n - 1)
                   PROVE  pkt_q'[SlotOf(s)] = s
        OBVIOUS
      <3>1. CASE s < rcvSeq
        <4>1. s \in HeadSeq .. (rcvSeq - 1) /\ s \in Nat \ {0}
          BY <1>3, <1>11, <3>1
        <4>2. pkt_q[SlotOf(s)] = s
          BY <1>2, <1>9, <4>1 DEF RingFaithful
        <4>3. SlotOf(s) \in Slot
          BY <4>1, SlotOfRange
        <4> QED
          BY <1>8, <4>1, <4>2, <4>3
      <3>2. CASE s >= rcvSeq
        <4>1. s - rcvSeq \in 0 .. (n - 1) /\ rcvSeq + (s - rcvSeq) = s
          BY <1>3, <1>11, <3>2
        <4> QED
          BY <1>13, <4>1
      <3> QED
        BY <1>3, <1>11, <3>1, <3>2
    <2>2. ASSUME NEW i \in Slot, pkt_q'[i] # 0
          PROVE  /\ SlotOf(pkt_q'[i]) = i
                 /\ pkt_q'[i] \in (extraSeq + 1) .. (extraSeq + QueueDepth)
                 /\ pkt_q'[i] # rcvSeq + n
      <3>1. SlotOf(pkt_q'[i]) = i /\ pkt_q'[i] \in (extraSeq + 1) .. (extraSeq + QueueDepth)
        <4>1. CASE i = SlotOf(p)
          BY <1>2, <1>3, <1>8, <4>1
        <4>2. CASE i # SlotOf(p)
          <5>1. pkt_q'[i] = pkt_q[i]
            BY <1>8, <4>2
          <5> QED
            BY <1>2, <1>3, <1>9, <2>2, <5>1 DEF RingFaithful
        <4> QED
          BY <4>1, <4>2
      <3>2. pkt_q'[i] # rcvSeq + n
        <4>1. CASE n = QueueDepth - pkt_q_size
          <5>1. rcvSeq + n = extraSeq + QueueDepth + 1
            BY <1>3, <1>11, <4>1
          <5>2. extraSeq + QueueDepth + 1 \notin (extraSeq + 1) .. (extraSeq + QueueDepth)
            BY <1>3
          <5> QED
            BY <3>1, <5>1, <5>2
        <4>2. CASE pkt_q'[SlotOf(rcvSeq + n)] = 0
          BY <2>2, <3>1, <4>2
        <4> QED
          BY <1>16, <4>1, <4>2
      <3> QED
        BY <3>1, <3>2
    <2>3. extraSeq' = extraSeq /\ pkt_q_head' = SlotOf(extraSeq + 1)
      BY <1>3, <1>4, <1>5
    <2> QED
      BY <1>3, <1>15, <1>18, <2>1, <2>2, <2>3 DEF RingFaithful, SlotOf, Slot
  <1>20. ReceiverInv'
    <2>1. rcvSeq' <= sentSeq' + 1 /\ extraSeq' <= sentSeq'
      BY <1>3, <1>4, <1>11, <1>14, <1>15, RcvFacts
    <2>2. \A i \in Slot : pkt_q'[i] <= sentSeq'
      BY <1>2, <1>4, <1>8 DEF IndInv, ReceiverInv
    <2>3. "EOS" \notin rcvFlags
      <3> SUFFICES ASSUME "EOS" \in rcvFlags PROVE FALSE
        OBVIOUS
      <3>1. rcvSeq > 1 /\ IsEos(rcvSeq - 1)
        BY <1>2 DEF IndInv, ReceiverInv
      <3>2. rcvSeq - 1 \in 1 .. MaxSeq
        BY <1>3, <3>1
      <3>3. rcvSeq - 1 = sndSeq - 1
        BY <3>1, <3>2 DEF IndInv, EosInv
      <3>4. sentSeq < sndSeq /\ sndSeq \in 1 .. (MaxSeq + 1)
        BY DEF IndInv, SenderInv, TypeOK, SndTypeOK
      <3> QED
        BY <1>2, <1>3, <3>3, <3>4, RcvFacts
    <2>4. "EOS" \in rcvFlags' => IsEos(rcvSeq + n - 1)
      BY <1>15, <2>3
    <2>5. rcvSeq' > 1 /\ rcvSeq' - 1 = rcvSeq + n - 1
      BY <1>3, <1>11, <1>15
    <2>6. ("EOS" \in rcvFlags' \/ ~rcvActive') => rcvSeq' > 1 /\ "EOS" \in pktFlags'[rcvSeq' - 1]
      BY <1>2, <1>4, <2>4, <2>5 DEF IsEos
    <2>7. "STOP" \in rcvFlags' => rcvStopRequested'
      BY <1>4, <1>15 DEF IndInv, ReceiverInv
    <2>8. /\ rcvStopRequested' => stopped'
          /\ pBuff' # 0 => ~stopped' /\ pkt_q_size' > 0 /\ pBuff' = extraSeq' + 1
      BY <1>3, <1>4, <1>11, <1>15 DEF IndInv, ReceiverInv
    <2> QED
      BY <1>19, <2>1, <2>2, <2>6, <2>7, <2>8 DEF ReceiverInv, IsEos
  <1>21. DeliveryInv'
    BY <1>4 DEF IndInv, DeliveryInv
  <1>22. Progress
    <2>1. rcvSeq <= rcvSeq' /\ extraSeq <= extraSeq'
      BY <1>3, <1>4, <1>11, <1>15
    <2>2. ASSUME NEW s \in SeqNum, Received(s) PROVE Received(s)'
      <3>1. CASE s < rcvSeq
        BY <1>3, <1>11, <1>15, <3>1 DEF Received
      <3>2. CASE s \in Buffered
        <4>1. PICK i \in Slot : pkt_q[i] = s /\ s # 0
          BY <3>2 DEF Buffered
        <4>2. pkt_q'[i] = s
          BY <1>8, <4>1
        <4> QED
          BY <4>1, <4>2 DEF Received, Buffered, Slot
      <3> QED
        BY <2>2, <3>1, <3>2 DEF Received
    <2> QED
      BY <1>4, <2>1, <2>2 DEF Progress
  <1> DEFINE msgs == {Ack(RcvStopFlag, rcvSeq + n - 1, extraSeq)}
  <1>23. ackNet' \subseteq ackNet \cup msgs
    <2>1. rcvSeq' - 1 = rcvSeq + n - 1
      BY <1>3, <1>11, <1>15
    <2>2. ackNet' = Post(ackNet, {Ack(RcvStopFlag, rcvSeq' - 1, extraSeq)})
      BY DEF RxInOrder
    <2>3. ackNet' = Post(ackNet, msgs)
      BY <2>1, <2>2, Zenon
    <2> QED
      BY <2>3, PostSubset
  <1>24. ASSUME NEW m \in msgs PROVE m \in AckMsg /\ AckMsgInv(m)'
    <2>0. rcvSeq + n - 1 \in SeqNum /\ rcvSeq + n - 1 < rcvSeq + n /\ extraSeq < rcvSeq + n
      BY <1>3, <1>11, <1>14
    <2>1. m \in AckMsg /\ m.kind = "ack" /\ m.stop = RcvStopFlag
          /\ m.seq = rcvSeq + n - 1 /\ m.extraSeq = extraSeq
      BY <2>0, RcvFacts, AckFields
    <2>2. ~m.stop
      BY <1>2, <2>1, RcvFacts
    <2>3. m.seq <= sentSeq /\ m.seq < rcvSeq' /\ m.extraSeq <= sentSeq
          /\ m.extraSeq <= extraSeq /\ m.extraSeq < rcvSeq'
      BY <1>3, <1>14, <1>15, <2>0, <2>1, RcvFacts
    <2> QED
      BY <1>4, <2>1, <2>2, <2>3, NewAck
  <1> HIDE DEF msgs
  <1> QED
    BY <1>17, <1>20, <1>21, <1>22, <1>23, <1>24, ReceiverAssemble

-----------------------------------------------------------------------------
(* The theorems *)

(* Every step of the connection preserves IndInv. *)
LEMMA NextInv == IndInv /\ [Next]_vars => IndInv'
  <1> SUFFICES ASSUME IndInv, [Next]_vars PROVE IndInv'
    OBVIOUS
  <1>1. CASE SenderStep
    BY <1>1, SendChunkInv, GetBufferInv, HandleStopMsgsInv, SendEosInv, EosDrainedInv
       DEF SenderStep
  <1>2. CASE HandleAcks
    BY <1>2, HandleAckInv, HandleDuplicateAckInv, HandleDisorderAckInv DEF HandleAcks
  <1>3. CASE TimerStep
    BY <1>3, CheckExpirationInv, CheckDeadlockInv DEF TimerStep
  <1>4. CASE NetworkTimeout
    BY <1>4, NetworkTimeoutInv
  <1>5. CASE RxThread
    <2>1. ASSUME NEW p, HandleDataPacket(p) PROVE IndInv'
      BY <2>1, RxStopRequestedInv, RxAlreadyReceivedInv, RxInactiveInv, RxInOrderInv,
         RxDisorderInv, RxDuplicateInv DEF HandleDataPacket
    <2> QED
      BY <1>5, <2>1, RxStatusQueryInv DEF RxThread
  <1>6. CASE ReadStep
    BY <1>6, PrepareRxConnForReadInv, MarkConnInactiveInv, PutRxBufferInv DEF ReadStep
  <1>7. CASE StopStep
    BY <1>7, StopQueuedEosInv, StopSenderInv, StopInactiveInv DEF StopStep
  <1>8. CASE Lose
    BY <1>8, LoseInv
  <1>9. CASE UNCHANGED vars
    <2>1. UNCHANGED <<sndVars, rcvVars>> /\ dataNet' = dataNet /\ ackNet' = ackNet
      BY <1>9 DEF vars, netVars
    <2>2. dataNet' \subseteq 0 .. sentSeq /\ ackNet' \subseteq ackNet
      BY <2>1, DataNetRange
    <2> QED
      BY <2>1, <2>2, NetworkOnly
  <1> QED
    BY <1>1, <1>2, <1>3, <1>4, <1>5, <1>6, <1>7, <1>8, <1>9 DEF Next

(***************************************************************************)
(* IndInv holds of every reachable state, for every depth of the queues,   *)
(* every length of the stream, both flow control methods and both kinds of *)
(* network.                                                                *)
(***************************************************************************)
THEOREM Invariance == Spec => []IndInv
  BY InitInv, NextInv, PTL DEF Spec

(* Credit and window leave room for every packet on the wire. *)
LEMMA OverrunFree == IndInv => NoOverrun
  <1> SUFFICES ASSUME IndInv,
                      NEW p \in dataNet \ {Query},
                      ~rcvStopRequested, p >= rcvSeq
               PROVE  ~Overrun(p)
    BY DEF NoOverrun
  <1> USE ConstAssumption DEF SeqNum
  <1>1. p \in 1 .. MaxSeq /\ p <= sentSeq /\ sentSeq \in 0 .. MaxSeq
    BY PacketRange
  <1>2. /\ capacity \in 0 .. QueueDepth
        /\ consumedSeq \in 0 .. MaxSeq
        /\ capacity = consumedSeq + QueueDepth - sentSeq
        /\ consumedSeq <= extraSeq
    BY DEF IndInv, TypeOK, SndTypeOK, SenderInv
  <1>3. /\ rcvSeq \in 1 .. (MaxSeq + 1)
        /\ extraSeq \in 0 .. MaxSeq
        /\ pkt_q_size \in 0 .. QueueDepth
        /\ HeadSeq = rcvSeq - pkt_q_size
        /\ HeadSeq = extraSeq + 1
    BY Window
  <1>4. p <= extraSeq + QueueDepth
    BY <1>1, <1>2, <1>3
  <1>5. p - HeadSeq < QueueDepth
    BY <1>1, <1>3, <1>4
  <1>6. pkt_q_size < QueueDepth
    BY <1>1, <1>3, <1>4
  <1> QED
    BY <1>1, <1>3, <1>5, <1>6 DEF Overrun

(***************************************************************************)
(* The queue-full branch of handleDataPacket is dead: the credit scheme    *)
(* (capacity, consumedSeq, extraSeq) never lets a packet arrive for which  *)
(* a live receiver has no slot.                                            *)
(***************************************************************************)
THEOREM NeverOverrun == Spec => []NoOverrun
  BY Invariance, OverrunFree, PTL

(***************************************************************************)
(* Every variable keeps its type.                                          *)
(***************************************************************************)
THEOREM TypeCorrect == Spec => []TypeOK
  <1>1. IndInv => TypeOK
    BY DEF IndInv
  <1> QED
    BY <1>1, Invariance, PTL

(***************************************************************************)
(* handleAcks, handleAckForDuplicatePkt and handleAckForDisorderPkt free a *)
(* buffer only when its packet has been received, or a stop was requested. *)
(***************************************************************************)
THEOREM AcksAreSound == Spec => []AckSoundness
  <1>1. IndInv => AckSoundness
    BY DEF IndInv
  <1> QED
    BY <1>1, Invariance, PTL

(***************************************************************************)
(* The sender's credit is exact and never above what was consumed.         *)
(***************************************************************************)
THEOREM CreditIsExact == Spec => []CapacityExact
  <1>1. IndInv => CapacityExact
    BY DEF IndInv, SenderInv, CapacityExact
  <1> QED
    BY <1>1, Invariance, PTL

(***************************************************************************)
(* The ring of the receiver represents the window of sequence numbers.     *)
(***************************************************************************)
THEOREM RingIsFaithful == Spec => []RingFaithful
  <1>1. IndInv => RingFaithful
    BY DEF IndInv, ReceiverInv, RingFaithful
  <1> QED
    BY <1>1, Invariance, PTL

(***************************************************************************)
(* The executor gets packets 1, 2, 3, ... and nothing after the end of     *)
(* stream.                                                                 *)
(***************************************************************************)
THEOREM DeliveryInOrder == Spec => []InOrderDelivery
  <1> USE ConstAssumption DEF SeqNum
  <1>1. ASSUME IndInv PROVE InOrderDelivery
    <2>1. /\ Len(delivered) \in Nat
          /\ Len(delivered) <= sentSeq
          /\ sentSeq \in 0 .. MaxSeq
          /\ sndSeq \in 1 .. (MaxSeq + 1)
          /\ sentSeq < sndSeq
      BY <1>1 DEF IndInv, TypeOK, SndTypeOK, RcvTypeOK, DeliveryInv, SenderInv
    <2>2. \A i \in 1 .. Len(delivered) : delivered[i] = i
      BY <1>1 DEF IndInv, DeliveryInv
    <2>3. ASSUME NEW i \in 1 .. (Len(delivered) - 1) PROVE ~IsEos(i)
      <3>1. i \in 1 .. MaxSeq /\ i # sndSeq - 1
        BY <2>1
      <3> QED
        BY <1>1, <3>1 DEF IndInv, EosInv
    <2>4. \A i \in 1 .. (Len(delivered) - 1) : delivered[i] = i
      BY <2>1, <2>2
    <2> QED
      BY <2>2, <2>3, <2>4 DEF InOrderDelivery
  <1> QED
    BY <1>1, Invariance, PTL

(***************************************************************************)
(* The error branches for malformed messages are dead.                     *)
(***************************************************************************)
THEOREM MessagesAreValid == Spec => []NoInvalidMessage
  <1>1. ASSUME IndInv PROVE NoInvalidMessage
    <2>1. \A m \in ackNet : m \in AckMsg /\ AckMsgInv(m)
      BY <1>1 DEF IndInv, NetInv, TypeOK, NetTypeOK
    <2>2. ASSUME NEW m \in ackNet, m.kind = "dup" PROVE m.seq > m.extraSeq
      <3>1. m.seq \in Int /\ m.extraSeq \in Int
        BY <2>1, ConstAssumption DEF AckMsg, SeqNum
      <3>2. m.extraSeq < m.seq
        BY <2>1, <2>2 DEF AckMsgInv
      <3> QED
        BY <3>1, <3>2
    <2>3. ASSUME NEW m \in ackNet, m.kind = "disorder" PROVE m.lost # {}
      BY <2>1, <2>3 DEF AckMsgInv
    <2>4. ASSUME NEW p \in dataNet \ {Query} PROVE ~UnrequestedStop(p)
      BY <1>1, PacketRange DEF IndInv, EosInv, UnrequestedStop
    <2> QED
      BY <2>2, <2>3, <2>4 DEF NoInvalidMessage
  <1> QED
    BY <1>1, Invariance, PTL

(***************************************************************************)
(* sendBuffers never leaves a packet queued that it could send, with       *)
(* nothing outstanding whose acknowledgment would wake it up.              *)
(***************************************************************************)
THEOREM NeverStalls == Spec => []NoStall
  <1>1. IndInv => NoStall
    BY DEF IndInv, SenderInv
  <1> QED
    BY <1>1, Invariance, PTL

(***************************************************************************)
(* When SendEosUDP has returned, the receiver has the whole stream.        *)
(***************************************************************************)
THEOREM DoneIsAccepted == Spec => []DoneMeansAccepted
  <1>1. IndInv => DoneMeansAccepted
    BY DEF IndInv
  <1> QED
    BY <1>1, Invariance, PTL

-----------------------------------------------------------------------------
(***************************************************************************)
(* The connection implements the stream: a step of Next is one step of     *)
(* UdpStream, or leaves what UdpStream sees as it was.                     *)
(***************************************************************************)
LEMMA StreamStutter ==
    ASSUME UNCHANGED <<sndSeq, delivered, stopped, sphase>>,
           "EOS" \in sndFlags' <=> "EOS" \in sndFlags,
           stopped \/ rcvSeq' = rcvSeq
    PROVE  UNCHANGED Stream!vars
  BY DEF Stream!vars

(* Every step of the sender is a step of the stream or a stutter. *)
LEMMA SenderSimulation ==
    ASSUME IndInv, IndInv', SenderStep \/ NetworkTimeout
    PROVE  [Stream!Next]_(Stream!vars)
  <1> USE ConstAssumption DEF SeqNum
  <1>0. sndSeq \in 1 .. (MaxSeq + 1)
    BY DEF IndInv, TypeOK, SndTypeOK
  <1>1. ASSUME SendChunk \/ SendEos PROVE Stream!Put
    <2>1. /\ sphase = "run" /\ sphase' \in {"run", "poll", "eos"}
          /\ sndSeq' = sndSeq + 1
          /\ UNCHANGED <<rcvSeq, delivered, stopped>>
          /\ sndSeq <= MaxSeq
      BY <1>0, <1>1 DEF SendChunk, SendEos, PrepareXmit, rcvVars
    <2>2. "EOS" \notin sndFlags
      <3>1. sndSeq > 1 => sndSeq - 1 \in 1 .. MaxSeq
        BY <1>0
      <3> QED
        BY <2>1, <3>1 DEF IndInv, EosInv
    <2>3. sndSeq' - 1 = (sndSeq - 1) + 1
      BY <1>0, <2>1
    <2> QED
      BY <2>1, <2>2, <2>3 DEF Stream!Put
  <1>2. ASSUME GetBuffer PROVE UNCHANGED Stream!vars
    BY <1>2 DEF GetBuffer, rcvVars, Stream!vars
  <1>3. ASSUME HandleStopMsgs PROVE Stream!FinishStopped
    <2>1. /\ sphase = "poll" /\ sphase' = "done"
          /\ sndSeq' = sndSeq + 1
          /\ "EOS" \in sndFlags'
          /\ UNCHANGED <<rcvSeq, delivered, stopped>>
          /\ sndStopRequested
      BY <1>3 DEF HandleStopMsgs, PrepareXmit, rcvVars
    <2>2. stopped
      BY <2>1 DEF IndInv, SenderInv, ReceiverInv
    <2>3. "EOS" \notin sndFlags
      <3>1. sndSeq > 1 => sndSeq - 1 \in 1 .. MaxSeq
        BY <1>0
      <3> QED
        BY <2>1, <3>1 DEF IndInv, EosInv
    <2>4. sndSeq' - 1 = (sndSeq - 1) + 1
      BY <1>0, <2>1
    <2> QED
      BY <2>1, <2>2, <2>3, <2>4 DEF Stream!FinishStopped
  <1>4. ASSUME EosDrained PROVE Stream!Finish \/ Stream!FinishStopped
    <2>1. /\ sphase = "eos" /\ sphase' = "done"
          /\ UNCHANGED <<sndSeq, sndFlags, rcvSeq, delivered, stopped, rcvStopRequested>>
      BY <1>4 DEF EosDrained, rcvVars
    <2>2. "EOS" \in sndFlags
      BY <2>1 DEF IndInv, EosInv
    <2>3. CASE stopped
      BY <2>1, <2>3 DEF Stream!FinishStopped
    <2>4. CASE ~stopped
      <3>1. rcvSeq = sndSeq
        BY <2>1, <2>4 DEF IndInv, ReceiverInv, DoneMeansAccepted
      <3> QED
        BY <2>1, <2>2, <2>4, <3>1 DEF Stream!Finish
    <2> QED
      BY <2>3, <2>4
  <1>5. ASSUME NetworkTimeout PROVE Stream!Fail
    BY <1>5 DEF NetworkTimeout, rcvVars, Stream!Fail
  <1> QED
    BY <1>1, <1>2, <1>3, <1>4, <1>5 DEF SenderStep, Stream!Next

(***************************************************************************)
(* Where a receiver that moves from r to a ends up, when the sender has    *)
(* sent packets up to b and prepared those below c.                        *)
(***************************************************************************)
LEMMA AcceptRange ==
    ASSUME NEW a \in Int, NEW b \in Int, NEW c \in Int, NEW r \in Int,
           r < a, a <= b + 1, b < c
    PROVE  a - 1 \in ((r - 1) + 1) .. (c - 1)
  OBVIOUS

(* Every step of the receiver is a step of the stream or a stutter. *)
LEMMA ReceiverSimulation ==
    ASSUME IndInv, IndInv', RxThread \/ ReadStep \/ StopStep
    PROVE  [Stream!Next]_(Stream!vars)
  <1> USE ConstAssumption DEF SeqNum
  <1>0. UNCHANGED <<sndSeq, sndFlags, sphase>>
    BY DEF RxThread, RxStatusQuery, HandleDataPacket, RxStopRequested, RxAlreadyReceived,
           RxInactive, RxInOrder, RxDisorder, RxDuplicate, RxExpected, RxPacket,
           ReadStep, PrepareRxConnForRead, MarkConnInactive, PutRxBuffer,
           StopStep, StopQueuedEos, StopSender, StopInactive, sndVars
  <1>1. ASSUME RxStatusQuery PROVE UNCHANGED Stream!vars
    BY <1>0, <1>1, StreamStutter DEF RxStatusQuery, rcvVars
  <1>2. ASSUME NEW p, RxStopRequested(p) PROVE UNCHANGED Stream!vars
    <2>1. stopped /\ UNCHANGED <<delivered, stopped>>
      BY <1>2 DEF RxStopRequested, RxPacket, IndInv, ReceiverInv
    <2> QED
      BY <1>0, <2>1, StreamStutter
  <1>3. ASSUME NEW p, RxAlreadyReceived(p) PROVE UNCHANGED Stream!vars
    BY <1>0, <1>3, StreamStutter DEF RxAlreadyReceived, RxPacket
  <1>4. ASSUME NEW p, RxInactive(p) PROVE UNCHANGED Stream!vars
    <2>1. UNCHANGED <<delivered, stopped, rcvStopRequested>> /\ rcvSeq' = p /\ p >= rcvSeq
          /\ ~rcvActive /\ p \in dataNet \ {Query}
      BY <1>4 DEF RxInactive, RxPacket
    <2>2. rcvStopRequested
      <3> SUFFICES ASSUME ~rcvStopRequested PROVE FALSE
        OBVIOUS
      <3>1. rcvSeq > 1 /\ IsEos(rcvSeq - 1)
        BY <2>1 DEF IndInv, ReceiverInv
      <3>2. rcvSeq - 1 \in 1 .. MaxSeq
        BY <3>1, RcvFacts
      <3>3. rcvSeq - 1 = sndSeq - 1
        BY <3>1, <3>2 DEF IndInv, EosInv
      <3>4. sentSeq < sndSeq /\ sndSeq \in 1 .. (MaxSeq + 1)
        BY DEF IndInv, SenderInv, TypeOK, SndTypeOK
      <3>5. p \in 1 .. MaxSeq /\ p <= sentSeq
        BY <2>1, PacketRange
      <3> QED
        BY <2>1, <3>3, <3>4, <3>5, RcvFacts
    <2>3. stopped
      BY <2>2 DEF IndInv, ReceiverInv
    <2> QED
      BY <1>0, <2>1, <2>3, StreamStutter
  <1>5. ASSUME NEW p, RxInOrder(p) PROVE Stream!Accept \/ UNCHANGED Stream!vars
    <2>1. /\ UNCHANGED <<delivered, stopped>>
          /\ rcvSeq' \in Int /\ rcvSeq < rcvSeq'
      <3>1. \E n \in 1 .. (QueueDepth - pkt_q_size) : rcvSeq' = rcvSeq + n
        BY <1>5 DEF RxInOrder
      <3>2. pkt_q_size \in Int
        BY DEF IndInv, TypeOK, RcvTypeOK
      <3>3. UNCHANGED <<delivered, stopped>>
        BY <1>5 DEF RxInOrder, RxExpected, RxPacket
      <3> QED
        BY <3>1, <3>2, <3>3, RcvFacts
    <2>2. CASE stopped
      BY <1>0, <2>1, <2>2, StreamStutter
    <2>3. CASE ~stopped
      <3>1. rcvSeq' <= sentSeq' + 1 /\ sentSeq' < sndSeq' /\ sentSeq' \in 0 .. MaxSeq
            /\ sndSeq' \in 1 .. (MaxSeq + 1)
        BY DEF IndInv, ReceiverInv, SenderInv, TypeOK, SndTypeOK
      <3>2. /\ rcvSeq \in Int
            /\ sndSeq' = sndSeq
            /\ sentSeq' \in Int
            /\ sndSeq' \in Int
        <4>1. rcvSeq \in Int
          BY RcvFacts
        <4> QED
          BY <1>0, <3>1, <4>1
      <3>3. rcvSeq' - 1 \in ((rcvSeq - 1) + 1) .. (sndSeq - 1)
        BY <2>1, <3>1, <3>2, AcceptRange, Zenon
      <3> QED
        BY <1>0, <2>1, <2>3, <3>3 DEF Stream!Accept
    <2> QED
      BY <2>2, <2>3
  <1>6. ASSUME NEW p, RxDisorder(p) \/ RxDuplicate(p) PROVE UNCHANGED Stream!vars
    BY <1>0, <1>6, StreamStutter DEF RxDisorder, RxDuplicate, RxExpected, RxPacket
  <1>7. ASSUME PrepareRxConnForRead PROVE Stream!Deliver
    <2>1. /\ UNCHANGED <<rcvSeq, stopped>> /\ ~stopped /\ pkt_q_size > 0 /\ pBuff = 0
          /\ delivered' = Append(delivered, pkt_q[pkt_q_head])
      BY <1>7 DEF PrepareRxConnForRead
    <2>2. pkt_q[pkt_q_head] = extraSeq + 1 /\ extraSeq + 1 <= rcvSeq - 1
      BY <2>1, ReadingHead
    <2>3. Len(delivered) = extraSeq
      BY <2>1 DEF IndInv, DeliveryInv
    <2>4. extraSeq < rcvSeq - 1
      BY <2>2, RcvFacts
    <2> QED
      BY <1>0, <2>1, <2>2, <2>3, <2>4 DEF Stream!Deliver
  <1>8. ASSUME MarkConnInactive \/ PutRxBuffer PROVE UNCHANGED Stream!vars
    BY <1>0, <1>8, StreamStutter DEF MarkConnInactive, PutRxBuffer
  <1>9. ASSUME StopStep PROVE Stream!Stop
    BY <1>0, <1>9 DEF StopStep, StopQueuedEos, StopSender, StopInactive, Stream!Stop
  <1> QED
    BY <1>1, <1>2, <1>3, <1>4, <1>5, <1>6, <1>7, <1>8, <1>9
       DEF RxThread, HandleDataPacket, ReadStep, Stream!Next

(***************************************************************************)
(* One connection, with its losses, duplicates, reorderings, retries and   *)
(* credit, implements the stream of UdpStream.                             *)
(***************************************************************************)
THEOREM ImplementsStream == Spec => StreamSpec
  <1>1. Init => Stream!Init
    BY DEF Init, Stream!Init
  <1>2. IndInv /\ IndInv' /\ [Next]_vars => [Stream!Next]_(Stream!vars)
    <2> SUFFICES ASSUME IndInv, IndInv', [Next]_vars PROVE [Stream!Next]_(Stream!vars)
      OBVIOUS
    <2>1. CASE SenderStep \/ NetworkTimeout
      BY <2>1, SenderSimulation
    <2>2. CASE HandleAcks
      <3>1. PICK m \in ackNet : HandleAck(m) \/ HandleDuplicateAck(m) \/ HandleDisorderAck(m)
        BY <2>2 DEF HandleAcks
      <3>2. /\ UNCHANGED <<sphase, sndSeq, rcvSeq, delivered, stopped>>
            /\ sndFlags' = sndFlags \/ sndFlags' = sndFlags \cup {"STOP"}
        BY <3>1 DEF HandleAck, HandleDuplicateAck, HandleDisorderAck, rcvVars
      <3> QED
        BY <3>2, StreamStutter
    <2>3. CASE TimerStep \/ Lose \/ UNCHANGED vars
      <3>1. UNCHANGED <<sphase, sndSeq, sndFlags, rcvSeq, delivered, stopped>>
        BY <2>3 DEF TimerStep, CheckExpiration, CheckDeadlock, Lose, LoseData, LoseAck,
                    vars, sndVars, rcvVars
      <3> QED
        BY <3>1, StreamStutter
    <2>4. CASE RxThread \/ ReadStep \/ StopStep
      BY <2>4, ReceiverSimulation
    <2> QED
      BY <2>1, <2>2, <2>3, <2>4 DEF Next
  <1> QED
    BY <1>1, <1>2, Invariance, PTL DEF Spec, StreamSpec, Stream!Spec
=============================================================================
