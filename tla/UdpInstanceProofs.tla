------------------------- MODULE UdpInstanceProofs -------------------------
(***************************************************************************)
(* Proofs about UdpInstance: the acknowledgments of past, present and      *)
(* future instances and the accounts of the receive buffer pool, for any   *)
(* number of senders, instances, packets and ring slots, on either role.   *)
(***************************************************************************)
EXTENDS UdpInstance, FiniteSetTheorems, FunctionTheorems, WellFoundedInduction, TLAPS

(* An instance that is set up or still to come: its sender must not be     *)
(* told more than the receiver has.                                        *)
Live(c) == c \in connHtab \/ c[1] >= nextIc

(* The first n packets of c are consumed or in its ring. *)
Received(c, n) == \A k \in 1 .. n : k <= consumed[c] \/ k \in ring[c]

(* Where an instance is in its life: which are set up, which are torn.     *)
(* On a QE one instance follows the other.                                 *)
InstanceInv ==
    /\ gpInterconnectId < nextIc
    /\ \A c \in connHtab : c[1] < nextIc
    /\ \A i \in failing : i < nextIc
    /\ Role = "QD" => \A i \in Ics : history[i] = "torn" =>
           i < nextIc /\ i \notin failing /\ \A c \in connHtab : c[1] # i
    /\ Role = "QE" => /\ \A c \in connHtab : c[1] = gpInterconnectId
                      /\ \A i \in failing : i = gpInterconnectId
                      /\ lastTornIcId <= gpInterconnectId
                      /\ connHtab # {} \/ failing # {} => lastTornIcId < gpInterconnectId

(* What is on the wire to, and known by, the sender of a live instance.    *)
MessageInv ==
    \A m \in acks : Live(m.conn) =>
        m.extraSeq <= consumed[m.conn] /\ Received(m.conn, m.seq)
SenderInv ==
    \A c \in Conns : Live(c) =>
        /\ credit[c] <= consumed[c]
        /\ Received(c, acked[c])
        /\ sent[c] <= consumed[c] + QueueDepth

(* A ring holds packets of the window of a connection that is set up; only *)
(* what fits into a fresh ring is cached.                                  *)
RingInv ==
    \A c \in Conns : /\ c \notin connHtab => ring[c] = {}
                     /\ ring[c] \subseteq (consumed[c] + 1) .. (consumed[c] + QueueDepth)
CacheInv == \A e \in startupCache : e[2] <= QueueDepth

(* The types of all but the numbers of the pool. *)
ProtTypeOK ==
    /\ nextIc \in 1 .. (MaxIc + 1)
    /\ gpInterconnectId \in 0 .. MaxIc
    /\ lastTornIcId \in 0 .. MaxIc
    /\ history \in [Ics -> {"none", "active", "torn"}]
    /\ xact \in 0 .. MaxXact
    /\ lastDXatId \in 0 .. MaxXact
    /\ connHtab \subseteq Conns
    /\ failing \subseteq Ics
    /\ noQueue \subseteq failing
    /\ aborted \subseteq Ics
    /\ ring \in [Conns -> SUBSET Pkts]
    /\ consumed \in [Conns -> 0 .. MaxPkt]
    /\ startupCache \subseteq Conns \X Pkts
    /\ sphase \in [Conns -> {"idle", "run", "done"}]
    /\ sent \in [Conns -> 0 .. MaxPkt]
    /\ acked \in [Conns -> 0 .. MaxPkt]
    /\ credit \in [Conns -> 0 .. MaxPkt]
    /\ acks \subseteq AckMsg

ProtInv ==
    /\ ProtTypeOK
    /\ InstanceInv
    /\ MessageInv
    /\ SenderInv
    /\ RingInv
    /\ CacheInv
    /\ OnlyThePastIsStopped

(* The pool. *)
PoolInv ==
    /\ count \in Nat /\ maxCount \in Nat /\ freeList \in Nat
    /\ rxPkt \in 0 .. 1
    /\ PoolAccounting
    /\ NeverOutOfBuffers

-----------------------------------------------------------------------------
(* A bounded set of numbers has a greatest element, which Max finds. *)
LEMMA BoundedMax ==
    ASSUME NEW S \in SUBSET Nat, NEW b \in Nat, S # {}, \A x \in S : x <= b
    PROVE  Max(S) \in S /\ \A y \in S : Max(S) >= y
<1> DEFINE T == {n \in Nat : \A x \in S : x <= n}
<1>1. T \subseteq Nat /\ T # {}
  OBVIOUS
<1>2. \E x \in T : \A y \in T : ~ (<<y, x>> \in OpToRel(<, Nat))
  BY <1>1, NatLessThanWellFounded, WFMin, Zenon
<1>3. PICK t \in T : \A y \in T : ~ (<<y, t>> \in OpToRel(<, Nat))
  BY <1>2
<1>4. \A y \in T : ~(y < t)
  BY <1>3 DEF OpToRel
<1>5. t \in S
  <2> SUFFICES ASSUME t \notin S PROVE FALSE
    OBVIOUS
  <2>1. PICK x \in S : TRUE
    OBVIOUS
  <2>2. t \in Nat /\ x \in Nat /\ x <= t /\ x # t
    OBVIOUS
  <2>3. t - 1 \in Nat
    BY <2>2
  <2>4. \A z \in S : z <= t - 1
    BY <2>2
  <2>5. t - 1 \in T
    BY <2>3, <2>4
  <2> QED
    BY <1>4, <2>2, <2>5
<1>6. \A y \in S : t >= y
  OBVIOUS
<1>7. \E x \in S : \A y \in S : x >= y
  BY <1>5, <1>6
<1> QED
  BY <1>7, Zenon DEF Max

(* The greater and the smaller of two numbers. *)
LEMMA MaxOfTwo ==
    ASSUME NEW a \in Int, NEW b \in Int
    PROVE  Max({a, b}) = IF a >= b THEN a ELSE b
<1> DEFINE m == Max({a, b})
<1>1. \E x \in {a, b} : \A y \in {a, b} : x >= y
  OBVIOUS
<1>2. m \in {a, b} /\ \A y \in {a, b} : m >= y
  BY <1>1, Zenon DEF Max
<1>3. (m = a \/ m = b) /\ m >= a /\ m >= b
  BY <1>2
<1> HIDE DEF m
<1>4. m = IF a >= b THEN a ELSE b
  BY <1>3
<1> QED
  BY <1>4 DEF m

LEMMA MinOfTwo ==
    ASSUME NEW a \in Int, NEW b \in Int
    PROVE  Min({a, b}) = IF a <= b THEN a ELSE b
<1> DEFINE m == Min({a, b})
<1>1. \E x \in {a, b} : \A y \in {a, b} : x <= y
  OBVIOUS
<1>2. m \in {a, b} /\ \A y \in {a, b} : m <= y
  BY <1>1, Zenon DEF Min
<1>3. (m = a \/ m = b) /\ m <= a /\ m <= b
  BY <1>2
<1> HIDE DEF m
<1>4. m = IF a <= b THEN a ELSE b
  BY <1>3
<1> QED
  BY <1>4 DEF m

(* InSequence is the length of the longest prefix that was received. *)
LEMMA InSequenceIs ==
    ASSUME NEW c, NEW r
    PROVE  /\ InSequence(c, r) \in 0 .. MaxPkt
           /\ \A k \in 1 .. InSequence(c, r) : k <= consumed[c] \/ k \in r
           /\ \A n \in 0 .. MaxPkt :
                 (\A k \in 1 .. n : k <= consumed[c] \/ k \in r) => n <= InSequence(c, r)
<1> DEFINE S == {n \in 0 .. MaxPkt : \A k \in 1 .. n : k <= consumed[c] \/ k \in r}
<1>0. MaxPkt \in Nat
  BY ConstAssumption
<1>1. S \in SUBSET Nat /\ \A x \in S : x <= MaxPkt
  BY <1>0
<1>2. 0 \in S
  BY <1>0
<1>3. S # {}
  BY <1>2
<1>4. InSequence(c, r) = Max(S)
  BY DEF InSequence
<1>5. Max(S) \in S /\ \A y \in S : Max(S) >= y
  <2> HIDE DEF S
  <2> QED
    BY <1>0, <1>1, <1>3, BoundedMax
<1>6. \A n \in S : n <= Max(S)
  BY <1>0, <1>5
<1> QED
  BY <1>4, <1>5, <1>6

(* A connection is an instance and a sender. *)
LEMMA ConnFacts ==
    /\ \A c \in Conns : c[1] \in Ics /\ c[2] \in Senders /\ c = <<c[1], c[2]>> /\ c[1] \in Nat
    /\ \A i \in Ics, s \in Senders : <<i, s>> \in Conns /\ <<i, s>>[1] = i
BY ConstAssumption DEF Conns, Ics

(* The constants. *)
LEMMA Numbers == MaxPkt \in Nat /\ QueueDepth \in Nat \ {0} /\ MaxIc \in Nat /\ MaxXact \in Nat
BY ConstAssumption

-----------------------------------------------------------------------------
(* A step of a sender: what it knows of the receiver is still true. *)
LEMMA SenderStepKeeps ==
    ASSUME ProtInv, UNCHANGED <<procVars, connVars, startupCache, acks>>,
           sphase' \in [Conns -> {"idle", "run", "done"}],
           sent' \in [Conns -> 0 .. MaxPkt],
           acked' \in [Conns -> 0 .. MaxPkt],
           credit' \in [Conns -> 0 .. MaxPkt],
           \A c \in Conns : Live(c) =>
               /\ credit'[c] <= consumed[c]
               /\ Received(c, acked'[c])
               /\ sent'[c] <= consumed[c] + QueueDepth
    PROVE  ProtInv'
<1> USE DEF procVars, connVars
<1>1. ProtTypeOK'
  BY DEF ProtInv, ProtTypeOK
<1>2. /\ \A c : Live(c)' <=> Live(c)
      /\ \A c, n : Received(c, n)' <=> Received(c, n)
  BY DEF Live, Received
<1>3. SenderInv'
  BY <1>2 DEF SenderInv, Received
<1>4. MessageInv' /\ InstanceInv'
  BY <1>2 DEF ProtInv, MessageInv, InstanceInv
<1>5. RingInv' /\ CacheInv' /\ OnlyThePastIsStopped'
  BY DEF ProtInv, RingInv, CacheInv, OnlyThePastIsStopped
<1> QED
  BY <1>1, <1>3, <1>4, <1>5 DEF ProtInv

LEMMA SendKeeps == ASSUME ProtInv, NEW c \in Conns, Send(c) PROVE ProtInv'
<1>1. /\ sent \in [Conns -> 0 .. MaxPkt] /\ consumed[c] \in Nat /\ credit[c] \in Nat
      /\ sent[c] \in Nat
  BY Numbers DEF ProtInv, ProtTypeOK
<1>2. /\ sent' = [sent EXCEPT ![c] = sent[c] + 1]
      /\ sent[c] < EosSeq(c[1]) /\ sent[c] < credit[c] + QueueDepth
      /\ UNCHANGED <<procVars, connVars, startupCache, acks, sphase, acked, credit>>
  BY DEF Send, poolVars
<1>3. EosSeq(c[1]) \in Nat /\ EosSeq(c[1]) <= MaxPkt
  BY ConstAssumption DEF EosSeq
<1>4. sent' \in [Conns -> 0 .. MaxPkt]
  BY <1>1, <1>2, <1>3, Numbers
<1>5. ASSUME NEW d \in Conns, Live(d)
      PROVE  sent'[d] <= consumed[d] + QueueDepth
  <2>1. CASE d = c
    <3>1. credit[c] <= consumed[c]
      BY <1>5, <2>1 DEF ProtInv, SenderInv
    <3> QED
      BY <1>1, <1>2, <2>1, <3>1, Numbers
  <2>2. CASE d # c
    BY <1>1, <1>2, <1>5, <2>2 DEF ProtInv, SenderInv
  <2> QED
    BY <2>1, <2>2
<1> QED
  BY <1>2, <1>4, <1>5, SenderStepKeeps DEF ProtInv, ProtTypeOK, SenderInv

LEMMA HandleAckKeeps == ASSUME ProtInv, NEW m \in acks, HandleAck(m) PROVE ProtInv'
<1> DEFINE c == m.conn
<1>1. /\ m \in AckMsg /\ c \in Conns /\ m.seq \in 0 .. MaxPkt /\ m.extraSeq \in 0 .. MaxPkt
      /\ acked \in [Conns -> 0 .. MaxPkt] /\ credit \in [Conns -> 0 .. MaxPkt]
      /\ sphase \in [Conns -> {"idle", "run", "done"}]
  BY DEF ProtInv, ProtTypeOK, AckMsg
<1>2. /\ acked' = [acked EXCEPT ![c] = Max({acked[c], m.seq})]
      /\ credit' = [credit EXCEPT ![c] = Max({credit[c], m.extraSeq})]
      /\ UNCHANGED <<procVars, connVars, startupCache, acks, sent>>
      /\ sphase' = sphase \/ sphase' = [sphase EXCEPT ![c] = "done"]
  BY DEF HandleAck, poolVars
<1>3. /\ Max({acked[c], m.seq}) = IF acked[c] >= m.seq THEN acked[c] ELSE m.seq
      /\ Max({credit[c], m.extraSeq}) = IF credit[c] >= m.extraSeq THEN credit[c] ELSE m.extraSeq
  <2>1. acked[c] \in Nat /\ credit[c] \in Nat /\ m.seq \in Nat /\ m.extraSeq \in Nat
    BY <1>1, Numbers
  <2> QED
    BY <2>1, MaxOfTwo
<1>4. /\ acked' \in [Conns -> 0 .. MaxPkt] /\ credit' \in [Conns -> 0 .. MaxPkt]
      /\ sphase' \in [Conns -> {"idle", "run", "done"}]
  BY <1>1, <1>2, <1>3
<1>5. ASSUME NEW d \in Conns, Live(d)
      PROVE  credit'[d] <= consumed[d] /\ Received(d, acked'[d])
  <2>1. CASE d = c
    <3>1. m.extraSeq <= consumed[c] /\ Received(c, m.seq)
      BY <1>5, <2>1 DEF ProtInv, MessageInv
    <3>2. credit[c] <= consumed[c] /\ Received(c, acked[c])
      BY <1>5, <2>1 DEF ProtInv, SenderInv
    <3> QED
      BY <1>1, <1>2, <1>3, <2>1, <3>1, <3>2
  <2>2. CASE d # c
    BY <1>1, <1>2, <1>5, <2>2 DEF ProtInv, SenderInv
  <2> QED
    BY <2>1, <2>2
<1> QED
  BY <1>2, <1>4, <1>5, SenderStepKeeps DEF ProtInv, ProtTypeOK, SenderInv

(* The steps in which only the phase of a sender changes. *)
LEMMA PhaseKeeps ==
    ASSUME ProtInv, NEW c \in Conns, StartSender(c) \/ SendEosReturns(c) \/ Cancel(c)
    PROVE  ProtInv'
<1>1. /\ sphase' = [sphase EXCEPT ![c] = "run"] \/ sphase' = [sphase EXCEPT ![c] = "done"]
      /\ UNCHANGED <<procVars, connVars, startupCache, acks, sent, acked, credit>>
  BY DEF StartSender, SendEosReturns, Cancel, poolVars
<1>2. sphase' \in [Conns -> {"idle", "run", "done"}]
  BY <1>1 DEF ProtInv, ProtTypeOK
<1> QED
  BY <1>1, <1>2, SenderStepKeeps DEF ProtInv, ProtTypeOK, SenderInv

-----------------------------------------------------------------------------
(***************************************************************************)
(* A step of the receiver: no instance becomes live, what was received     *)
(* stays received, and what is acknowledged to live instances is true.     *)
(***************************************************************************)
LEMMA ReceiverStepKeeps ==
    ASSUME ProtInv, ProtTypeOK', InstanceInv', RingInv', CacheInv', UNCHANGED sndVars,
           \A c \in Conns : Live(c)' => Live(c),
           \A c \in Conns : consumed[c] <= consumed'[c],
           \A c \in Conns : Live(c)' => \A k \in ring[c] : k <= consumed'[c] \/ k \in ring'[c],
           acks \subseteq acks',
           \A m \in acks' \ acks : Live(m.conn)' =>
               m.extraSeq <= consumed'[m.conn] /\ Received(m.conn, m.seq)',
           \A m \in acks' : m.stop =>
               m.conn \notin connHtab' /\ m.conn[1] < nextIc' /\ m.conn[1] \notin failing'
    PROVE  ProtInv'
<1>1. /\ consumed \in [Conns -> 0 .. MaxPkt] /\ consumed' \in [Conns -> 0 .. MaxPkt]
      /\ credit \in [Conns -> 0 .. MaxPkt] /\ sent \in [Conns -> 0 .. MaxPkt]
      /\ acked \in [Conns -> 0 .. MaxPkt]
      /\ acks \subseteq AckMsg
  BY DEF ProtInv, ProtTypeOK
<1>2. ASSUME NEW c \in Conns, Live(c)', NEW n \in 0 .. MaxPkt, Received(c, n)
      PROVE  Received(c, n)'
  <2> SUFFICES ASSUME NEW k \in 1 .. n PROVE k <= consumed'[c] \/ k \in ring'[c]
    BY DEF Received
  <2>1. k <= consumed[c] \/ k \in ring[c]
    BY <1>2 DEF Received
  <2>2. consumed[c] <= consumed'[c] /\ consumed[c] \in Int /\ consumed'[c] \in Int
    BY <1>1
  <2> QED
    BY <1>2, <2>1, <2>2
<1>3. MessageInv'
  <2> SUFFICES ASSUME NEW m \in acks', Live(m.conn)'
               PROVE  m.extraSeq <= consumed'[m.conn] /\ Received(m.conn, m.seq)'
    BY DEF MessageInv
  <2>1. CASE m \in acks
    <3>1. m.conn \in Conns /\ m.seq \in 0 .. MaxPkt /\ m.extraSeq \in 0 .. MaxPkt
      BY <1>1, <2>1 DEF AckMsg
    <3>2. m.extraSeq <= consumed[m.conn] /\ Received(m.conn, m.seq)
      BY <2>1, <3>1 DEF ProtInv, MessageInv
    <3>3. Received(m.conn, m.seq)'
      BY <1>2, <3>1, <3>2
    <3>4. /\ consumed[m.conn] <= consumed'[m.conn]
          /\ consumed[m.conn] \in Int /\ consumed'[m.conn] \in Int
      BY <1>1, <3>1
    <3> QED
      BY <3>1, <3>2, <3>3, <3>4
  <2>2. CASE m \notin acks
    BY <2>2
  <2> QED
    BY <2>1, <2>2
<1>4. SenderInv'
  <2> SUFFICES ASSUME NEW c \in Conns, Live(c)'
               PROVE  /\ credit[c] <= consumed'[c]
                      /\ Received(c, acked[c])'
                      /\ sent[c] <= consumed'[c] + QueueDepth
    <3>1. credit' = credit /\ acked' = acked /\ sent' = sent
      BY DEF sndVars
    <3> QED
      BY <3>1 DEF SenderInv, Received
  <2>1. /\ credit[c] <= consumed[c] /\ Received(c, acked[c])
        /\ sent[c] <= consumed[c] + QueueDepth
    BY DEF ProtInv, SenderInv
  <2>2. /\ consumed[c] <= consumed'[c] /\ consumed[c] \in Int /\ consumed'[c] \in Int
        /\ credit[c] \in Int /\ sent[c] \in Int /\ acked[c] \in 0 .. MaxPkt
    BY <1>1
  <2>3. Received(c, acked[c])'
    BY <1>2, <2>1, <2>2 DEF sndVars
  <2> QED
    BY <2>1, <2>2, <2>3, Numbers
<1>5. OnlyThePastIsStopped'
  BY DEF OnlyThePastIsStopped
<1> QED
  BY <1>3, <1>4, <1>5 DEF ProtInv

(* A packet of a connection that is set up. *)
LEMMA HandleDataPacketKeeps ==
    ASSUME ProtInv, NEW c \in Conns, NEW p \in Pkts, HandleDataPacket(c, p)
    PROVE  ProtInv'
<1>1. /\ c \in connHtab
      /\ UNCHANGED <<procVars, connHtab, consumed, startupCache, sndVars>>
  BY DEF HandleDataPacket
<1>2. /\ consumed \in [Conns -> 0 .. MaxPkt] /\ consumed[c] \in 0 .. MaxPkt
      /\ ring \in [Conns -> SUBSET Pkts] /\ acks \subseteq AckMsg
  BY DEF ProtInv, ProtTypeOK
<1>3. PICK r \in SUBSET Pkts :
          /\ ring' = [ring EXCEPT ![c] = r] /\ ring[c] \subseteq r
          /\ r \subseteq (consumed[c] + 1) .. (consumed[c] + QueueDepth)
          /\ acks' = acks \/ acks' = acks \cup {AckOf(c, r, consumed[c])}
  <2>1. ring[c] \subseteq (consumed[c] + 1) .. (consumed[c] + QueueDepth)
    BY DEF ProtInv, RingInv
  <2>2. CASE Wanted(c, p)
    <3> DEFINE r == ring[c] \cup {p}
    <3>1. /\ ring' = [ring EXCEPT ![c] = r]
          /\ acks' = acks \/ acks' = acks \cup {AckOf(c, r, consumed[c])}
      BY <2>2 DEF HandleDataPacket
    <3>2. r \subseteq (consumed[c] + 1) .. (consumed[c] + QueueDepth) /\ r \in SUBSET Pkts
          /\ ring[c] \subseteq r
      BY <1>2, <2>1, <2>2 DEF Wanted
    <3> QED
      BY <3>1, <3>2
  <2>3. CASE ~Wanted(c, p)
    <3>1. ring' = ring /\ acks' = acks \cup {AckOf(c, ring[c], consumed[c])}
      BY <2>3 DEF HandleDataPacket
    <3>2. ring' = [ring EXCEPT ![c] = ring[c]] /\ ring[c] \in SUBSET Pkts
      BY <1>2, <3>1
    <3> QED
      BY <2>1, <3>1, <3>2
  <2> QED
    BY <2>2, <2>3
<1>4. /\ ring' \in [Conns -> SUBSET Pkts] /\ ring'[c] = r
      /\ \A d \in Conns : ring[d] \subseteq ring'[d]
      /\ \A d \in Conns \ {c} : ring'[d] = ring[d]
  BY <1>2, <1>3
<1>5. /\ AckOf(c, r, consumed[c]) \in AckMsg
      /\ AckOf(c, r, consumed[c]).conn = c /\ AckOf(c, r, consumed[c]).extraSeq = consumed[c]
      /\ AckOf(c, r, consumed[c]).seq = InSequence(c, r) /\ AckOf(c, r, consumed[c]).stop = FALSE
  <2>1. InSequence(c, r) \in 0 .. MaxPkt
    BY InSequenceIs
  <2> QED
    BY <1>2, <2>1 DEF AckOf, AckMsg
<1>6. ProtTypeOK'
  <2>1. acks' \subseteq AckMsg
    BY <1>2, <1>3, <1>5
  <2> QED
    BY <1>1, <1>4, <2>1 DEF ProtInv, ProtTypeOK, procVars, sndVars
<1>7. InstanceInv' /\ CacheInv'
  BY <1>1 DEF ProtInv, InstanceInv, CacheInv, procVars
<1>8. RingInv'
  BY <1>1, <1>3, <1>4 DEF ProtInv, RingInv
<1>9. \A d : Live(d)' <=> Live(d)
  BY <1>1 DEF Live, procVars
<1>10. Received(c, InSequence(c, r))'
  <2>1. \A k \in 1 .. InSequence(c, r) : k <= consumed[c] \/ k \in r
    BY InSequenceIs
  <2>2. \A k \in 1 .. InSequence(c, r) : k <= consumed'[c] \/ k \in ring'[c]
    BY <1>1, <1>4, <2>1
  <2> DEFINE n == InSequence(c, r)
  <2>3. InSequence(c, r)' = InSequence(c, r)
    BY <1>1 DEF InSequence
  <2> QED
    BY <2>2, <2>3 DEF Received
<1>11. ASSUME NEW m \in acks' \ acks, Live(m.conn)'
       PROVE  m.extraSeq <= consumed'[m.conn] /\ Received(m.conn, m.seq)'
  <2>1. m = AckOf(c, r, consumed[c])
    BY <1>3, <1>11
  <2>2. InSequence(c, r)' = InSequence(c, r)
    BY <1>1 DEF InSequence
  <2>3. m.conn = c /\ m.extraSeq = consumed[c] /\ m.seq = InSequence(c, r)
    BY <1>5, <2>1
  <2>4. consumed[c] <= consumed'[c]
    BY <1>1, <1>2
  <2> QED
    BY <1>1, <1>10, <2>2, <2>3, <2>4 DEF Received
<1>12. ASSUME NEW m \in acks', m.stop
       PROVE  m.conn \notin connHtab' /\ m.conn[1] < nextIc' /\ m.conn[1] \notin failing'
  <2>1. m \in acks
    BY <1>3, <1>5, <1>12
  <2> QED
    BY <1>1, <1>12, <2>1 DEF ProtInv, OnlyThePastIsStopped, procVars
<1>13. \A d \in Conns : consumed[d] <= consumed'[d]
  BY <1>1, <1>2
<1> QED
  BY <1>1, <1>3, <1>4, <1>6, <1>7, <1>8, <1>9, <1>11, <1>12, <1>13, ReceiverStepKeeps

(* An instance that is past was torn down: it is neither set up nor does   *)
(* it wait for its teardown.                                               *)
LEMMA PastIsOver ==
    ASSUME ProtInv, NEW c \in Conns, c \notin connHtab, Past(c[1])
    PROVE  c[1] < nextIc /\ c[1] \notin failing /\ ~Live(c)
<1>1. c[1] \in Ics /\ c[1] \in Nat /\ nextIc \in Nat /\ gpInterconnectId \in Nat
      /\ lastTornIcId \in Nat
  BY ConnFacts, Numbers DEF ProtInv, ProtTypeOK
<1>2. c[1] < nextIc /\ c[1] \notin failing
  <2>1. CASE Role = "QD"
    BY <1>1, <2>1 DEF ProtInv, InstanceInv, Past
  <2>2. CASE Role = "QE"
    <3>1. c[1] <= gpInterconnectId /\ c[1] <= lastTornIcId /\ gpInterconnectId < nextIc
      BY <2>2 DEF Past, ProtInv, InstanceInv
    <3>2. c[1] \notin failing
      <4> SUFFICES ASSUME c[1] \in failing PROVE FALSE
        OBVIOUS
      <4>1. c[1] = gpInterconnectId /\ lastTornIcId < gpInterconnectId
        BY <2>2 DEF ProtInv, InstanceInv
      <4> QED
        BY <1>1, <3>1, <4>1
    <3> QED
      BY <1>1, <3>1, <3>2
  <2> QED
    BY <2>1, <2>2, ConstAssumption
<1> QED
  BY <1>1, <1>2 DEF Live

(* A packet of the past is acknowledged with a stop. *)
LEMMA AckThePastKeeps ==
    ASSUME ProtInv, NEW c \in Conns, NEW p \in Pkts, AckThePast(c, p)
    PROVE  ProtInv'
<1> DEFINE a == [conn |-> c, seq |-> p, extraSeq |-> p, stop |-> TRUE]
<1>1. /\ c \notin connHtab /\ Past(c[1]) /\ acks' = acks \cup {a}
      /\ UNCHANGED <<procVars, connVars, startupCache, sndVars>>
  BY DEF AckThePast, poolVars
<1>2. c[1] < nextIc /\ c[1] \notin failing /\ ~Live(c)
  BY <1>1, PastIsOver
<1>3. a \in AckMsg /\ a.conn = c
  <2>1. p \in 0 .. MaxPkt
    BY Numbers DEF Pkts
  <2> QED
    BY <2>1 DEF AckMsg
<1> HIDE DEF a
<1>4. ProtTypeOK'
  BY <1>1, <1>3 DEF ProtInv, ProtTypeOK, procVars, connVars, sndVars
<1>5. InstanceInv' /\ CacheInv' /\ RingInv'
  BY <1>1 DEF ProtInv, InstanceInv, CacheInv, RingInv, procVars, connVars
<1>6. \A d : Live(d)' <=> Live(d)
  BY <1>1 DEF Live, procVars, connVars
<1>7. \A m \in acks' : m.stop =>
          m.conn \notin connHtab' /\ m.conn[1] < nextIc' /\ m.conn[1] \notin failing'
  BY <1>1, <1>2, <1>3 DEF ProtInv, OnlyThePastIsStopped, procVars, connVars
<1>8. \A m \in acks' \ acks : ~Live(m.conn)'
  BY <1>1, <1>2, <1>3, <1>6
<1>9. (\A d \in Conns : consumed[d] <= consumed'[d]) /\ ring' = ring
  BY <1>1 DEF connVars, ProtInv, ProtTypeOK
<1> QED
  BY <1>1, <1>4, <1>5, <1>6, <1>7, <1>8, <1>9, ReceiverStepKeeps

(* The steps that leave all but the cache or the pool. *)
LEMMA CacheKeeps ==
    ASSUME ProtInv, startupCache' \subseteq Conns \X Pkts, CacheInv',
           xact' \in 0 .. MaxXact,
           UNCHANGED <<nextIc, gpInterconnectId, lastTornIcId, history, lastDXatId,
                       failing, noQueue, aborted, connVars, sndVars, acks>>
    PROVE  ProtInv'
<1>1. ProtTypeOK'
  BY DEF ProtInv, ProtTypeOK, connVars, sndVars
<1>2. InstanceInv' /\ RingInv' /\ OnlyThePastIsStopped'
  BY DEF ProtInv, InstanceInv, RingInv, OnlyThePastIsStopped, connVars
<1>3. MessageInv' /\ SenderInv'
  <2>1. \A d : Live(d)' <=> Live(d)
    BY DEF Live, connVars
  <2>2. UNCHANGED <<ring, consumed, acked, credit, sent>>
    BY DEF connVars, sndVars
  <2> QED
    BY <2>1, <2>2 DEF ProtInv, MessageInv, SenderInv, Received
<1> QED
  BY <1>1, <1>2, <1>3 DEF ProtInv

LEMMA CacheFuturePacketKeeps ==
    ASSUME ProtInv, NEW c \in Conns, NEW p \in Pkts, CacheFuturePacket(c, p)
    PROVE  ProtInv'
<1>1. /\ startupCache' = startupCache \cup {<<c, p>>} /\ p <= QueueDepth
      /\ UNCHANGED <<procVars, connVars, sndVars, acks>>
  BY DEF CacheFuturePacket
<1>2. startupCache' \subseteq Conns \X Pkts /\ CacheInv'
  BY <1>1 DEF ProtInv, ProtTypeOK, CacheInv
<1> QED
  BY <1>1, <1>2, CacheKeeps DEF procVars, ProtInv, ProtTypeOK

-----------------------------------------------------------------------------
(* A consumed packet leaves the ring, and the window moves on. *)
LEMMA ConsumeKeeps == ASSUME ProtInv, NEW c \in Conns, Consume(c) PROVE ProtInv'
<1>1. /\ c \in connHtab /\ consumed[c] + 1 \in ring[c]
      /\ ring' = [ring EXCEPT ![c] = ring[c] \ {consumed[c] + 1}]
      /\ consumed' = [consumed EXCEPT ![c] = consumed[c] + 1]
      /\ acks' = acks \/ acks' = acks \cup {AckOf(c, ring[c], consumed'[c])}
      /\ UNCHANGED <<procVars, connHtab, startupCache, sndVars>>
  BY DEF Consume
<1>2. /\ consumed \in [Conns -> 0 .. MaxPkt] /\ consumed[c] \in 0 .. MaxPkt
      /\ ring \in [Conns -> SUBSET Pkts] /\ acks \subseteq AckMsg
  BY DEF ProtInv, ProtTypeOK
<1>3. consumed[c] + 1 \in 0 .. MaxPkt
  BY <1>1, <1>2, Numbers DEF Pkts
<1>4. /\ ring' \in [Conns -> SUBSET Pkts] /\ ring'[c] = ring[c] \ {consumed[c] + 1}
      /\ consumed' \in [Conns -> 0 .. MaxPkt] /\ consumed'[c] = consumed[c] + 1
      /\ \A d \in Conns \ {c} : ring'[d] = ring[d] /\ consumed'[d] = consumed[d]
  BY <1>1, <1>2, <1>3
<1>5. InSequence(c, ring[c]) \in 0 .. MaxPkt
  BY InSequenceIs
<1> DEFINE n == InSequence(c, ring[c])
           a == [conn |-> c, seq |-> n, extraSeq |-> consumed[c] + 1, stop |-> FALSE]
<1>6. AckOf(c, ring[c], consumed'[c]) = a
  BY <1>4 DEF AckOf
<1>7. \A k \in 1 .. n : k <= consumed'[c] \/ k \in ring'[c]
  <2>1. \A k \in 1 .. n : k <= consumed[c] \/ k \in ring[c]
    BY InSequenceIs
  <2> QED
    BY <1>2, <1>4, <1>5, <2>1
<1> HIDE DEF n
<1>8. /\ a \in AckMsg /\ a.conn = c /\ a.extraSeq = consumed[c] + 1 /\ a.seq = n
      /\ a.stop = FALSE
  BY <1>3, <1>5 DEF AckMsg, n
<1> HIDE DEF a
<1>9. acks \subseteq acks' /\ acks' \subseteq acks \cup {a} /\ acks' \subseteq AckMsg
  BY <1>1, <1>2, <1>6, <1>8
<1>10. ProtTypeOK'
  BY <1>1, <1>4, <1>9 DEF ProtInv, ProtTypeOK, procVars, sndVars
<1>11. InstanceInv' /\ CacheInv'
  BY <1>1 DEF ProtInv, InstanceInv, CacheInv, procVars
<1>12. RingInv'
  <2> SUFFICES ASSUME NEW d \in Conns
               PROVE  /\ d \notin connHtab' => ring'[d] = {}
                      /\ ring'[d] \subseteq (consumed'[d] + 1) .. (consumed'[d] + QueueDepth)
    BY DEF RingInv
  <2>1. /\ d \notin connHtab => ring[d] = {}
        /\ ring[d] \subseteq (consumed[d] + 1) .. (consumed[d] + QueueDepth)
    BY DEF ProtInv, RingInv
  <2>2. CASE d = c
    BY <1>1, <1>2, <1>4, <2>1, <2>2, Numbers
  <2>3. CASE d # c
    BY <1>1, <1>4, <2>1, <2>3
  <2> QED
    BY <2>2, <2>3
<1>13. \A d : Live(d)' <=> Live(d)
  BY <1>1 DEF Live, procVars
<1>14. \A d \in Conns : consumed[d] <= consumed'[d]
  <2> TAKE d \in Conns
  <2>1. CASE d = c
    BY <1>2, <1>4, <2>1
  <2>2. CASE d # c
    BY <1>2, <1>4, <2>2
  <2> QED
    BY <2>1, <2>2
<1>15. \A d \in Conns : \A k \in ring[d] : k <= consumed'[d] \/ k \in ring'[d]
  <2> TAKE d \in Conns
  <2> TAKE k \in ring[d]
  <2>1. CASE d = c
    BY <1>2, <1>4, <2>1
  <2>2. CASE d # c
    BY <1>4, <2>2
  <2> QED
    BY <2>1, <2>2
<1>16. ASSUME NEW m \in acks' \ acks, Live(m.conn)'
       PROVE  m.extraSeq <= consumed'[m.conn] /\ Received(m.conn, m.seq)'
  <2>1. m = a
    BY <1>9, <1>16
  <2>2. m.conn = c /\ m.extraSeq = consumed'[c] /\ m.seq = n
    BY <1>4, <1>8, <2>1
  <2>3. \A k \in 1 .. m.seq : k <= consumed'[m.conn] \/ k \in ring'[m.conn]
    BY <1>7, <2>2
  <2>4. m.extraSeq <= consumed'[m.conn]
    BY <1>3, <1>4, <2>2
  <2> QED
    BY <2>3, <2>4 DEF Received
<1>17. ASSUME NEW m \in acks', m.stop
       PROVE  m.conn \notin connHtab' /\ m.conn[1] < nextIc' /\ m.conn[1] \notin failing'
  <2>1. m \in acks
    BY <1>8, <1>9, <1>17
  <2> QED
    BY <1>1, <1>17, <2>1 DEF ProtInv, OnlyThePastIsStopped, procVars
<1> QED
  BY <1>1, <1>9, <1>10, <1>11, <1>12, <1>13, <1>14, <1>15, <1>16, <1>17, ReceiverStepKeeps

(* A statement that fails before its setup is past at once. *)
LEMMA SkipKeeps == ASSUME ProtInv, NEW i \in Ics, Skip(i) PROVE ProtInv'
<1>1. /\ i = nextIc /\ nextIc' = nextIc + 1 /\ aborted' = aborted \cup {i}
      /\ UNCHANGED <<gpInterconnectId, lastTornIcId, history, xact, lastDXatId,
                     failing, noQueue, connVars, startupCache, sndVars, acks>>
  BY DEF Skip, poolVars
<1>2. nextIc \in Nat /\ nextIc <= MaxIc /\ gpInterconnectId \in Nat /\ failing \subseteq Ics
      /\ connHtab \subseteq Conns
  BY <1>1, Numbers DEF Ics, ProtInv, ProtTypeOK
<1>3. ProtTypeOK'
  <2>1. nextIc' \in 1 .. (MaxIc + 1)
    BY <1>1, <1>2, Numbers
  <2> QED
    BY <1>1, <2>1 DEF ProtInv, ProtTypeOK, connVars, sndVars
<1>4. InstanceInv'
  <2>1. \A j \in Ics : j < nextIc => j < nextIc'
    BY <1>1, <1>2 DEF Ics
  <2>2. gpInterconnectId' < nextIc'
    BY <1>1, <1>2 DEF ProtInv, InstanceInv
  <2>3. \A c \in connHtab : c[1] \in Ics
    BY <1>2, ConnFacts
  <2> QED
    BY <1>1, <1>2, <2>1, <2>2, <2>3 DEF ProtInv, InstanceInv, connVars
<1>5. CacheInv' /\ RingInv'
  BY <1>1 DEF ProtInv, CacheInv, RingInv, connVars
<1>6. \A c \in Conns : Live(c)' => Live(c)
  <2> SUFFICES ASSUME NEW c \in Conns, c[1] >= nextIc' PROVE c[1] >= nextIc
    BY <1>1 DEF Live, connVars
  <2> QED
    BY <1>1, <1>2, ConnFacts
<1>7. (\A d \in Conns : consumed[d] <= consumed'[d]) /\ ring' = ring /\ acks' = acks
  BY <1>1 DEF connVars, ProtInv, ProtTypeOK
<1>8. ASSUME NEW m \in acks', m.stop
      PROVE  m.conn \notin connHtab' /\ m.conn[1] < nextIc' /\ m.conn[1] \notin failing'
  <2>1. m.conn \notin connHtab /\ m.conn[1] < nextIc /\ m.conn[1] \notin failing
    BY <1>7, <1>8 DEF ProtInv, OnlyThePastIsStopped
  <2>2. m.conn[1] \in Nat
    BY <1>7, ConnFacts DEF ProtInv, ProtTypeOK, AckMsg
  <2> QED
    BY <1>1, <1>2, <2>1, <2>2 DEF connVars
<1> QED
  BY <1>1, <1>3, <1>4, <1>5, <1>6, <1>7, <1>8, ReceiverStepKeeps

-----------------------------------------------------------------------------
(* What setup does to the instances, whether it fails or not: the one set  *)
(* up was still to come, and none that was torn down becomes anything else *)
(* but forgotten.                                                          *)
LEMMA SetupStartsKeeps ==
    ASSUME ProtInv, NEW i \in Ics, SetupStarts(i), NEW some \in SUBSET Senders,
           connHtab' = connHtab \cup ({i} \X some),
           failing' = failing \/ failing' = failing \cup {i},
           lastTornIcId' = lastTornIcId
    PROVE  /\ InstanceInv'
           /\ nextIc' \in 1 .. (MaxIc + 1) /\ gpInterconnectId' \in 0 .. MaxIc
           /\ history' \in [Ics -> {"none", "active", "torn"}]
           /\ lastDXatId' \in 0 .. MaxXact
           /\ connHtab' \subseteq Conns /\ failing' \subseteq Ics
           /\ \A c \in Conns : Live(c)' => Live(c)
           /\ \A m \in acks : m.stop =>
                 m.conn \notin connHtab' /\ m.conn[1] < nextIc' /\ m.conn[1] \notin failing'
<1>1. /\ i = nextIc /\ nextIc' = nextIc + 1 /\ gpInterconnectId' = i
      /\ Role = "QE" => connHtab = {} /\ failing = {} /\ history' = history
                        /\ lastDXatId' = lastDXatId
      /\ Role = "QD" => lastDXatId' = xact
  BY DEF SetupStarts
<1>2. /\ i \in Nat /\ i >= 1 /\ i <= MaxIc /\ nextIc \in Nat /\ gpInterconnectId \in Nat
      /\ lastTornIcId \in Nat /\ connHtab \subseteq Conns /\ failing \subseteq Ics
      /\ history \in [Ics -> {"none", "active", "torn"}]
      /\ acks \subseteq AckMsg
      /\ lastDXatId \in 0 .. MaxXact /\ xact \in 0 .. MaxXact
  BY Numbers DEF Ics, ProtInv, ProtTypeOK
<1>3. /\ nextIc' \in 1 .. (MaxIc + 1) /\ gpInterconnectId' \in 0 .. MaxIc
      /\ connHtab' \subseteq Conns /\ failing' \subseteq Ics
  BY <1>1, <1>2, Numbers DEF Conns
<1>4. \A c \in connHtab' : c \in connHtab \/ c[1] = i
  OBVIOUS
<1>5. \A c \in connHtab : c[1] \in Nat /\ c[1] < i
  BY <1>1, <1>2, ConnFacts DEF ProtInv, InstanceInv
<1>6. \A j \in failing : j \in Nat /\ j < i
  BY <1>1, <1>2 DEF ProtInv, InstanceInv, Ics
<1>7. /\ history' \in [Ics -> {"none", "active", "torn"}]
      /\ \A j \in Ics : history'[j] = "torn" /\ Role = "QD" => j # i /\ history[j] = "torn"
      /\ lastDXatId' \in 0 .. MaxXact
  <2>1. CASE Role = "QE"
    BY <1>1, <1>2, <2>1
  <2>2. CASE Role = "QD"
    <3>1. PICK prune \in BOOLEAN :
              history' = [j \in Ics |-> IF j = i THEN "active"
                                        ELSE IF prune /\ j < i THEN "none" ELSE history[j]]
      BY <2>2 DEF SetupStarts
    <3> QED
      BY <1>1, <1>2, <2>2, <3>1
  <2> QED
    BY <2>1, <2>2, ConstAssumption
<1>8. InstanceInv'
  <2>1. gpInterconnectId' < nextIc'
    BY <1>1, <1>2
  <2>2. \A c \in connHtab' : c[1] < nextIc'
    BY <1>1, <1>2, <1>4, <1>5
  <2>3. \A j \in failing' : j < nextIc'
    BY <1>1, <1>2, <1>6
  <2>4. ASSUME Role = "QD", NEW j \in Ics, history'[j] = "torn"
        PROVE  j < nextIc' /\ j \notin failing' /\ \A c \in connHtab' : c[1] # j
    <3>1. j # i /\ history[j] = "torn"
      BY <1>7, <2>4
    <3>2. j < nextIc /\ j \notin failing /\ \A c \in connHtab : c[1] # j
      BY <2>4, <3>1 DEF ProtInv, InstanceInv
    <3>3. j \in Nat
      BY DEF Ics
    <3> QED
      BY <1>1, <1>2, <1>4, <3>1, <3>2, <3>3
  <2>5. ASSUME Role = "QE"
        PROVE  /\ \A c \in connHtab' : c[1] = gpInterconnectId'
               /\ \A j \in failing' : j = gpInterconnectId'
               /\ lastTornIcId' < gpInterconnectId'
    <3>1. lastTornIcId <= gpInterconnectId /\ gpInterconnectId < i
      BY <1>1, <2>5 DEF ProtInv, InstanceInv
    <3> QED
      BY <1>1, <1>2, <1>4, <2>5, <3>1
  <2>6. lastTornIcId' \in Int /\ gpInterconnectId' \in Int
    BY <1>1, <1>2
  <2>7. Role = "QE" => lastTornIcId' <= gpInterconnectId'
    BY <2>5, <2>6
  <2> QED
    BY <2>1, <2>2, <2>3, <2>4, <2>5, <2>7 DEF InstanceInv
<1>9. \A c \in Conns : Live(c)' => Live(c)
  <2> SUFFICES ASSUME NEW c \in Conns, c \in connHtab' \/ c[1] >= nextIc'
               PROVE  c \in connHtab \/ c[1] >= nextIc
    BY DEF Live
  <2> QED
    BY <1>1, <1>2, <1>4, ConnFacts
<1>10. ASSUME NEW m \in acks, m.stop
       PROVE  m.conn \notin connHtab' /\ m.conn[1] < nextIc' /\ m.conn[1] \notin failing'
  <2>1. m.conn \notin connHtab /\ m.conn[1] < nextIc /\ m.conn[1] \notin failing
    BY <1>10 DEF ProtInv, OnlyThePastIsStopped
  <2>2. m.conn[1] \in Nat
    BY <1>2, ConnFacts DEF AckMsg
  <2> QED
    BY <1>1, <1>2, <1>4, <2>1, <2>2
<1> QED
  BY <1>3, <1>7, <1>8, <1>9, <1>10

(* A setup that fails leaves the rings and the acknowledgments alone. *)
LEMMA SetupFailsKeeps == ASSUME ProtInv, NEW i \in Ics, SetupFails(i) PROVE ProtInv'
<1>1. PICK some \in SUBSET Senders :
        /\ connHtab' = connHtab \cup ({i} \X some)
        /\ failing' = failing \cup {i}
        /\ aborted' = aborted \cup {i}
        /\ noQueue' = noQueue \cup {i} \/ noQueue' = noQueue
  BY DEF SetupFails
<1>2. /\ SetupStarts(i)
      /\ UNCHANGED <<lastTornIcId, xact, ring, consumed, startupCache, sndVars, acks>>
  BY DEF SetupFails
<1>3. /\ InstanceInv'
      /\ nextIc' \in 1 .. (MaxIc + 1) /\ gpInterconnectId' \in 0 .. MaxIc
      /\ history' \in [Ics -> {"none", "active", "torn"}]
      /\ lastDXatId' \in 0 .. MaxXact
      /\ connHtab' \subseteq Conns /\ failing' \subseteq Ics
      /\ \A c \in Conns : Live(c)' => Live(c)
      /\ \A m \in acks : m.stop =>
            m.conn \notin connHtab' /\ m.conn[1] < nextIc' /\ m.conn[1] \notin failing'
  BY <1>1, <1>2, SetupStartsKeeps
<1>4. ProtTypeOK'
  <2>1. noQueue' \subseteq failing' /\ aborted' \subseteq Ics
    BY <1>1 DEF ProtInv, ProtTypeOK
  <2> QED
    BY <1>2, <1>3, <2>1 DEF ProtInv, ProtTypeOK, sndVars
<1>5. CacheInv' /\ RingInv'
  BY <1>1, <1>2 DEF ProtInv, CacheInv, RingInv
<1>6. \A d \in Conns : consumed[d] <= consumed'[d]
  BY <1>2 DEF ProtInv, ProtTypeOK
<1> QED
  BY <1>2, <1>3, <1>4, <1>5, <1>6, ReceiverStepKeeps

(***************************************************************************)
(* The packets cached before setup: what is acknowledged to their senders  *)
(* is now in the rings, because only what fits a ring was cached.          *)
(***************************************************************************)
LEMMA CachedPacketsAreReceived ==
    ASSUME ProtInv, NEW conns \in SUBSET Conns, HandleCachedPackets(conns),
           connHtab \subseteq conns, consumed' = consumed
    PROVE  /\ ring' \in [Conns -> SUBSET Pkts]
           /\ \A c \in Conns : /\ ring[c] \subseteq ring'[c]
                               /\ c \notin conns => ring'[c] = {}
                               /\ ring'[c] \subseteq (consumed[c] + 1) .. (consumed[c] + QueueDepth)
           /\ acks \subseteq acks' /\ acks' \subseteq AckMsg
           /\ \A m \in acks' \ acks :
                 /\ m.stop = FALSE /\ m.extraSeq <= consumed'[m.conn]
                 /\ Received(m.conn, m.seq)'
<1> DEFINE kept == {e \in startupCache : e[1] \in conns /\ Wanted(e[1], e[2])}
           upTo(c, p) == ring[c] \cup {q \in CachedFor(c) : q <= p}
           heard == {f \in startupCache : /\ f[1] \in conns
                                          /\ f[2] <= InSequence(f[1], upTo(f[1], f[2]))}
<1>1. /\ ring' = [c \in Conns |-> ring[c] \cup {p \in Pkts : <<c, p>> \in kept}]
      /\ acks' = acks \cup {AckOf(e[1], upTo(e[1], e[2]), consumed[e[1]]) : e \in heard}
  BY DEF HandleCachedPackets
<1>2. /\ ring \in [Conns -> SUBSET Pkts] /\ consumed \in [Conns -> 0 .. MaxPkt]
      /\ acks \subseteq AckMsg /\ startupCache \subseteq Conns \X Pkts
  BY DEF ProtInv, ProtTypeOK
<1>3. /\ ring' \in [Conns -> SUBSET Pkts]
      /\ \A c \in Conns : ring'[c] = ring[c] \cup {p \in Pkts : <<c, p>> \in kept}
  BY <1>1, <1>2
<1>4. ASSUME NEW c \in Conns
      PROVE  /\ ring[c] \subseteq ring'[c]
             /\ c \notin conns => ring'[c] = {}
             /\ ring'[c] \subseteq (consumed[c] + 1) .. (consumed[c] + QueueDepth)
  <2>1. /\ c \notin connHtab => ring[c] = {}
        /\ ring[c] \subseteq (consumed[c] + 1) .. (consumed[c] + QueueDepth)
    BY DEF ProtInv, RingInv
  <2>2. \A p \in Pkts : <<c, p>> \in kept =>
            c \in conns /\ p \in (consumed[c] + 1) .. (consumed[c] + QueueDepth)
    BY DEF Wanted
  <2> QED
    BY <1>3, <2>1, <2>2
<1>5. ASSUME NEW c \in conns, NEW p \in Pkts, NEW k \in Pkts, k \in upTo(c, p)
      PROVE  k <= consumed[c] \/ k \in ring'[c]
  <2>1. c \in Conns /\ consumed[c] \in Nat /\ k \in Nat /\ QueueDepth \in Nat
    BY <1>2, Numbers DEF Pkts
  <2>2. CASE k \in ring[c]
    BY <1>3, <2>1, <2>2
  <2>3. CASE k \notin ring[c] /\ k > consumed[c]
    <3>1. <<c, k>> \in startupCache
      BY <1>5, <2>3 DEF CachedFor
    <3>2. k <= QueueDepth
      BY <3>1 DEF ProtInv, CacheInv
    <3>3. Wanted(c, k)
      BY <2>1, <2>3, <3>2 DEF Wanted
    <3>4. <<c, k>> \in kept
      BY <3>1, <3>3
    <3> QED
      BY <1>3, <2>1, <3>4
  <2> QED
    BY <2>1, <2>2, <2>3
<1> HIDE DEF upTo
<1>6. ASSUME NEW m \in acks' \ acks
      PROVE  /\ m \in AckMsg /\ m.stop = FALSE /\ m.extraSeq <= consumed'[m.conn]
             /\ Received(m.conn, m.seq)'
  <2>1. PICK e \in heard : m = AckOf(e[1], upTo(e[1], e[2]), consumed[e[1]])
    BY <1>1, <1>6
  <2>2. PICK c \in conns, p \in Pkts : c = e[1] /\ p = e[2]
    BY <1>2
  <2> DEFINE n == InSequence(c, upTo(c, p))
  <2>3. n \in 0 .. MaxPkt /\ \A k \in 1 .. n : k <= consumed[c] \/ k \in upTo(c, p)
    BY InSequenceIs
  <2>4. m = [conn |-> c, seq |-> n, extraSeq |-> consumed[c], stop |-> FALSE]
    BY <2>1, <2>2 DEF AckOf
  <2> HIDE DEF n
  <2>5. consumed[c] \in 0 .. MaxPkt /\ c \in Conns
    BY <1>2
  <2>6. /\ m \in AckMsg /\ m.stop = FALSE /\ m.conn = c /\ m.seq = n
        /\ m.extraSeq = consumed[c]
    BY <2>3, <2>4, <2>5 DEF AckMsg
  <2>7. \A k \in 1 .. n : k <= consumed'[c] \/ k \in ring'[c]
    <3> TAKE k \in 1 .. n
    <3>1. k \in Pkts
      BY <2>3, Numbers DEF Pkts
    <3> QED
      BY <1>5, <2>3, <3>1
  <2>8. consumed[c] <= consumed'[c]
    BY <2>5
  <2>9. \A k \in 1 .. m.seq : k <= consumed'[m.conn] \/ k \in ring'[m.conn]
    BY <2>6, <2>7
  <2> QED
    BY <2>6, <2>8, <2>9 DEF Received
<1> QED
  BY <1>1, <1>2, <1>3, <1>4, <1>6

(* A setup that succeeds. *)
LEMMA SetupKeeps == ASSUME ProtInv, NEW i \in Ics, Setup(i) PROVE ProtInv'
<1> DEFINE conns == connHtab \cup ({i} \X Senders)
<1>1. /\ SetupStarts(i) /\ connHtab' = conns
      /\ UNCHANGED <<lastTornIcId, xact, failing, noQueue, aborted, consumed, sndVars>>
      /\ CacheFuture => HandleCachedPackets(conns)
      /\ ~CacheFuture => UNCHANGED <<startupCache, ring, acks>>
  BY DEF Setup
<1>2. /\ InstanceInv'
      /\ nextIc' \in 1 .. (MaxIc + 1) /\ gpInterconnectId' \in 0 .. MaxIc
      /\ history' \in [Ics -> {"none", "active", "torn"}]
      /\ lastDXatId' \in 0 .. MaxXact
      /\ connHtab' \subseteq Conns /\ failing' \subseteq Ics
      /\ \A c \in Conns : Live(c)' => Live(c)
      /\ \A m \in acks : m.stop =>
            m.conn \notin connHtab' /\ m.conn[1] < nextIc' /\ m.conn[1] \notin failing'
  BY <1>1, SetupStartsKeeps
<1>3. consumed \in [Conns -> 0 .. MaxPkt] /\ \A d \in Conns : consumed[d] <= consumed'[d]
  BY <1>1 DEF ProtInv, ProtTypeOK
<1>4. /\ ring' \in [Conns -> SUBSET Pkts]
      /\ \A c \in Conns : /\ ring[c] \subseteq ring'[c]
                          /\ c \notin conns => ring'[c] = {}
                          /\ ring'[c] \subseteq (consumed[c] + 1) .. (consumed[c] + QueueDepth)
      /\ acks \subseteq acks' /\ acks' \subseteq AckMsg
      /\ \A m \in acks' \ acks : /\ m.stop = FALSE /\ m.extraSeq <= consumed'[m.conn]
                                 /\ Received(m.conn, m.seq)'
  <2>1. CASE CacheFuture
    <3>1. conns \in SUBSET Conns /\ connHtab \subseteq conns /\ consumed' = consumed
      BY <1>1, <1>2
    <3> HIDE DEF conns
    <3> QED
      BY <1>1, <2>1, <3>1, CachedPacketsAreReceived
  <2>2. CASE ~CacheFuture
    BY <1>1, <2>2 DEF ProtInv, ProtTypeOK, RingInv
  <2> QED
    BY <2>1, <2>2
<1>5. startupCache' \subseteq Conns \X Pkts /\ CacheInv'
  <2>1. startupCache' = {} \/ startupCache' = startupCache
    BY <1>1 DEF HandleCachedPackets
  <2> QED
    BY <2>1 DEF ProtInv, ProtTypeOK, CacheInv
<1>6. ProtTypeOK'
  BY <1>1, <1>2, <1>4, <1>5 DEF ProtInv, ProtTypeOK, sndVars
<1>7. RingInv'
  BY <1>1, <1>4 DEF RingInv
<1>8. \A m \in acks' : m.stop =>
          m.conn \notin connHtab' /\ m.conn[1] < nextIc' /\ m.conn[1] \notin failing'
  BY <1>2, <1>4
<1> QED
  BY <1>1, <1>2, <1>3, <1>4, <1>5, <1>6, <1>7, <1>8, ReceiverStepKeeps

(* Teardown: its connections leave, and nothing it acknowledges reaches a  *)
(* live instance.                                                          *)
LEMMA TeardownKeeps == ASSUME ProtInv, NEW i \in Ics, Teardown(i) PROVE ProtInv'
<1>1. /\ InstanceConns(i) # {} \/ i \in failing
      /\ connHtab' = connHtab \ InstanceConns(i)
      /\ failing' = failing \ {i}
      /\ noQueue' = noQueue \ {i}
      /\ ring' = [c \in Conns |-> IF c \in InstanceConns(i) THEN {} ELSE ring[c]]
      /\ acks' = acks \cup TeardownAcks(i)
      /\ startupCache' = {}
      /\ Role = "QD" => /\ history' = [history EXCEPT
                                          ![i] = IF history[i] = "none" THEN history[i] ELSE "torn"]
                        /\ lastTornIcId' = lastTornIcId
      /\ Role = "QE" => lastTornIcId' = i /\ history' = history
      /\ UNCHANGED <<nextIc, gpInterconnectId, xact, lastDXatId, aborted, consumed, sndVars>>
  BY DEF Teardown
<1>2. /\ i \in Nat /\ i >= 1 /\ i <= MaxIc /\ nextIc \in Nat /\ gpInterconnectId \in Nat
      /\ lastTornIcId \in 0 .. MaxIc /\ connHtab \subseteq Conns /\ failing \subseteq Ics
      /\ history \in [Ics -> {"none", "active", "torn"}]
      /\ acks \subseteq AckMsg /\ consumed \in [Conns -> 0 .. MaxPkt]
      /\ ring \in [Conns -> SUBSET Pkts]
  BY Numbers DEF Ics, ProtInv, ProtTypeOK
<1>3. \A c \in connHtab' : c \in connHtab /\ c[1] # i
  BY <1>1 DEF InstanceConns
<1>4. i < nextIc
  <2>1. CASE i \in failing
    BY <2>1 DEF ProtInv, InstanceInv
  <2>2. CASE i \notin failing
    BY <1>1, <2>2 DEF ProtInv, InstanceInv, InstanceConns
  <2> QED
    BY <2>1, <2>2
<1>5. ASSUME Role = "QE" PROVE i = gpInterconnectId /\ connHtab' = {} /\ failing' = {}
  <2>1. (\A c \in connHtab : c[1] = gpInterconnectId) /\ \A j \in failing : j = gpInterconnectId
    BY <1>5 DEF ProtInv, InstanceInv
  <2>2. i = gpInterconnectId
    BY <1>1, <2>1 DEF InstanceConns
  <2> QED
    BY <1>1, <1>3, <2>1, <2>2
<1>6. /\ history' \in [Ics -> {"none", "active", "torn"}] /\ lastTornIcId' \in 0 .. MaxIc
      /\ Role = "QD" => \A j \in Ics : history'[j] = "torn" => j = i \/ history[j] = "torn"
  <2>1. CASE Role = "QE"
    BY <1>1, <1>2, <2>1, Numbers
  <2>2. CASE Role = "QD"
    BY <1>1, <1>2, <2>2
  <2> QED
    BY <2>1, <2>2, ConstAssumption
<1>7. InstanceInv'
  <2>1. gpInterconnectId' < nextIc' /\ (\A c \in connHtab' : c[1] < nextIc')
        /\ \A j \in failing' : j < nextIc'
    BY <1>1, <1>3 DEF ProtInv, InstanceInv
  <2>2. ASSUME Role = "QD", NEW j \in Ics, history'[j] = "torn"
        PROVE  j < nextIc' /\ j \notin failing' /\ \A c \in connHtab' : c[1] # j
    <3>1. CASE j = i
      BY <1>1, <1>3, <1>4, <3>1
    <3>2. CASE j # i
      BY <1>1, <1>3, <1>6, <2>2, <3>2 DEF ProtInv, InstanceInv
    <3> QED
      BY <3>1, <3>2
  <2>3. ASSUME Role = "QE"
        PROVE  /\ \A c \in connHtab' : c[1] = gpInterconnectId'
               /\ \A j \in failing' : j = gpInterconnectId'
               /\ lastTornIcId' <= gpInterconnectId'
               /\ connHtab' # {} \/ failing' # {} => lastTornIcId' < gpInterconnectId'
    <3>1. connHtab' = {} /\ failing' = {}
      BY <1>5, <2>3
    <3>2. lastTornIcId' <= gpInterconnectId'
      BY <1>1, <1>2, <1>5, <2>3
    <3> QED
      BY <3>1, <3>2
  <2> QED
    BY <2>1, <2>2, <2>3 DEF InstanceInv
<1>8. \A m \in TeardownAcks(i) : m \in AckMsg /\ m.stop = FALSE /\ m.conn \in InstanceConns(i)
  <2> TAKE m \in TeardownAcks(i)
  <2>1. PICK e \in InstanceConns(i) \X Pkts : m = AckOf(e[1], ring[e[1]], e[2])
    BY DEF TeardownAcks
  <2>2. PICK c \in InstanceConns(i), p \in Pkts : c = e[1] /\ p = e[2]
    OBVIOUS
  <2>3. m = AckOf(c, ring[c], p)
    BY <2>1, <2>2
  <2>4. InSequence(c, ring[c]) \in 0 .. MaxPkt
    BY InSequenceIs
  <2>5. c \in Conns /\ p \in 0 .. MaxPkt
    BY <1>2, Numbers DEF InstanceConns, Pkts
  <2> QED
    BY <2>3, <2>4, <2>5 DEF AckOf, AckMsg
<1>9. \A c \in InstanceConns(i) : ~Live(c)'
  <2> TAKE c \in InstanceConns(i)
  <2>1. c \notin connHtab' /\ c[1] = i
    BY <1>1 DEF InstanceConns
  <2>2. ~(c[1] >= nextIc')
    BY <1>1, <1>2, <1>4, <2>1
  <2> QED
    BY <2>1, <2>2 DEF Live
<1>10. \A c \in Conns : Live(c)' => Live(c)
  BY <1>1, <1>3 DEF Live
<1>11. /\ ring' \in [Conns -> SUBSET Pkts]
       /\ \A c \in Conns : Live(c)' => ring'[c] = ring[c]
  BY <1>1, <1>2, <1>9
<1>12. ProtTypeOK'
  <2>1. noQueue' \subseteq failing' /\ failing' \subseteq Ics /\ connHtab' \subseteq Conns
    BY <1>1 DEF ProtInv, ProtTypeOK
  <2>2. acks' \subseteq AckMsg
    BY <1>1, <1>2, <1>8
  <2> QED
    BY <1>1, <1>6, <1>11, <2>1, <2>2 DEF ProtInv, ProtTypeOK, sndVars
<1>13. CacheInv' /\ RingInv'
  <2>1. CacheInv'
    BY <1>1 DEF CacheInv
  <2>2. RingInv'
    BY <1>1, <1>2 DEF ProtInv, RingInv, InstanceConns
  <2> QED
    BY <2>1, <2>2
<1>14. ASSUME NEW m \in acks', m.stop
       PROVE  m.conn \notin connHtab' /\ m.conn[1] < nextIc' /\ m.conn[1] \notin failing'
  <2>1. m \in acks
    BY <1>1, <1>8, <1>14
  <2> QED
    BY <1>1, <1>14, <2>1 DEF ProtInv, OnlyThePastIsStopped
<1>15. \A m \in acks' \ acks : ~Live(m.conn)'
  BY <1>1, <1>8, <1>9
<1>16. (\A d \in Conns : consumed[d] <= consumed'[d]) /\ acks \subseteq acks'
  BY <1>1, <1>2
<1> QED
  BY <1>1, <1>7, <1>10, <1>11, <1>12, <1>13, <1>14, <1>15, <1>16, ReceiverStepKeeps

-----------------------------------------------------------------------------
LEMMA ProtInit == Init => ProtInv
<1> SUFFICES ASSUME Init PROVE ProtInv
  OBVIOUS
<1> USE Numbers DEF Init
<1>1. ProtTypeOK
  BY DEF ProtTypeOK
<1>2. InstanceInv /\ MessageInv /\ CacheInv /\ OnlyThePastIsStopped /\ RingInv
  BY DEF InstanceInv, MessageInv, CacheInv, OnlyThePastIsStopped, RingInv
<1>3. SenderInv
  BY DEF SenderInv, Received
<1> QED
  BY <1>1, <1>2, <1>3 DEF ProtInv

LEMMA ProtNext == ProtInv /\ [Next]_vars => ProtInv'
<1> SUFFICES ASSUME ProtInv, [Next]_vars PROVE ProtInv'
  OBVIOUS
<1>1. CASE UNCHANGED vars
  <2>1. startupCache' \subseteq Conns \X Pkts /\ CacheInv' /\ xact' \in 0 .. MaxXact
    BY <1>1 DEF vars, procVars, poolVars, ProtInv, ProtTypeOK, CacheInv
  <2> QED
    BY <1>1, <2>1, CacheKeeps DEF vars, procVars
<1>2. ASSUME NEW c \in Conns, SenderStep(c) \/ Cancel(c) PROVE ProtInv'
  BY <1>2, PhaseKeeps, SendKeeps DEF SenderStep
<1>3. ASSUME NEW m \in acks, HandleAck(m) PROVE ProtInv'
  BY <1>3, HandleAckKeeps
<1>4. CASE GetRxBuffer \/ NewTransaction
  <2>1. /\ UNCHANGED <<nextIc, gpInterconnectId, lastTornIcId, history, lastDXatId,
                       failing, noQueue, aborted, connVars, sndVars, acks, startupCache>>
        /\ xact' = xact \/ (xact < MaxXact /\ xact' = xact + 1)
    BY <1>4 DEF GetRxBuffer, NewTransaction, procVars, poolVars
  <2>2. startupCache' \subseteq Conns \X Pkts /\ CacheInv'
    BY <2>1 DEF ProtInv, ProtTypeOK, CacheInv
  <2>3. xact' \in 0 .. MaxXact
    BY <2>1, Numbers DEF ProtInv, ProtTypeOK
  <2> QED
    BY <2>1, <2>2, <2>3, CacheKeeps
<1>5. ASSUME NEW c \in Conns, NEW p \in Pkts,
             HandleDataPacket(c, p) \/ AckThePast(c, p) \/ CacheFuturePacket(c, p)
      PROVE  ProtInv'
  BY <1>5, HandleDataPacketKeeps, AckThePastKeeps, CacheFuturePacketKeeps
<1>6. ASSUME NEW i \in Ics, Setup(i) \/ SetupFails(i) \/ Skip(i) \/ Teardown(i) PROVE ProtInv'
  BY <1>6, SetupKeeps, SetupFailsKeeps, SkipKeeps, TeardownKeeps
<1>7. ASSUME NEW c \in Conns, Consume(c) PROVE ProtInv'
  BY <1>7, ConsumeKeeps
<1> QED
  BY <1>1, <1>2, <1>3, <1>4, <1>5, <1>6, <1>7 DEF Next, RxThread, MainThread

LEMMA ProtAlways == Spec => []ProtInv
BY ProtInit, ProtNext, PTL DEF Spec

(***************************************************************************)
(* handleMismatch stops the senders of the past only: never one whose      *)
(* receiver is set up, to be set up, or waits for its teardown.            *)
(***************************************************************************)
THEOREM StopsOnlyThePast == Spec => []OnlyThePastIsStopped
<1>1. ProtInv => OnlyThePastIsStopped
  BY DEF ProtInv
<1> QED
  BY <1>1, ProtAlways, PTL

(***************************************************************************)
(* What a sender believes acknowledged by a live instance, the receiver    *)
(* has, also when it was cached before setup.                              *)
(***************************************************************************)
THEOREM AckedIsReceived == Spec => []NeverAckFuture
<1>1. ProtInv => NeverAckFuture
  <2> SUFFICES ASSUME ProtInv, NEW c \in Conns, c \in connHtab \/ c[1] >= nextIc
               PROVE  acked[c] <= InSequence(c, ring[c])
    BY DEF NeverAckFuture
  <2>1. acked[c] \in 0 .. MaxPkt /\ Received(c, acked[c])
    BY DEF ProtInv, ProtTypeOK, SenderInv, Live
  <2> QED
    BY <2>1, InSequenceIs DEF Received
<1> QED
  BY <1>1, ProtAlways, PTL

(***************************************************************************)
(* No sender of a live instance sends beyond the ring of its receiver.     *)
(***************************************************************************)
THEOREM WindowIsKept == Spec => []WindowKept
<1>1. ProtInv => WindowKept
  BY DEF ProtInv, SenderInv, WindowKept, Live
<1> QED
  BY <1>1, ProtAlways, PTL

-----------------------------------------------------------------------------
(***************************************************************************)
(* The receive buffer pool.  A buffer is on the free list, with the rx     *)
(* thread, in a ring or in the startup cache; the rings hold no more than  *)
(* what maxCount was raised by.                                            *)
(***************************************************************************)
LEMMA FinitelyMany ==
    /\ IsFiniteSet(Ics) /\ IsFiniteSet(Pkts) /\ IsFiniteSet(Conns)
    /\ IsFiniteSet(Conns \X Pkts)
<1>1. IsFiniteSet(Ics) /\ IsFiniteSet(Pkts)
  BY Numbers, FS_Interval DEF Ics, Pkts
<1>2. IsFiniteSet(Conns)
  BY <1>1, ConstAssumption, FS_Product DEF Conns
<1> QED
  BY <1>1, <1>2, FS_Product

LEMMA DisjointUnion ==
    ASSUME NEW S, NEW T, IsFiniteSet(S), IsFiniteSet(T), S \cap T = {}
    PROVE  /\ Cardinality(S \cup T) = Cardinality(S) + Cardinality(T)
           /\ Cardinality(S) \in Nat /\ Cardinality(T) \in Nat
<1>1. Cardinality(S) \in Nat /\ Cardinality(T) \in Nat /\ Cardinality({}) = 0
  BY FS_CardinalityType, FS_EmptySet
<1>2. Cardinality(S \cup T) = Cardinality(S) + Cardinality(T) - Cardinality(S \cap T)
  BY FS_Union, Zenon
<1>3. Cardinality(S \cup T) = Cardinality(S) + Cardinality(T) - Cardinality({})
  BY <1>2, Zenon
<1> QED
  BY <1>1, <1>3

(* What is left when a part is taken out. *)
LEMMA TakenOut ==
    ASSUME NEW S, NEW T \in SUBSET S, IsFiniteSet(S)
    PROVE  /\ Cardinality(S) = Cardinality(T) + Cardinality(S \ T)
           /\ Cardinality(S) \in Nat /\ Cardinality(T) \in Nat /\ Cardinality(S \ T) \in Nat
<1>1. IsFiniteSet(T) /\ IsFiniteSet(S \ T)
  BY FS_Subset
<1>2. T \cap (S \ T) = {} /\ T \cup (S \ T) = S
  OBVIOUS
<1>3. /\ Cardinality(T \cup (S \ T)) = Cardinality(T) + Cardinality(S \ T)
      /\ Cardinality(T) \in Nat /\ Cardinality(S \ T) \in Nat
  BY <1>1, <1>2, DisjointUnion
<1>4. Cardinality(S) \in Nat
  BY FS_CardinalityType
<1> QED
  BY <1>2, <1>3, <1>4

LEMMA Times ==
    ASSUME NEW a \in Nat, NEW b \in Nat
    PROVE  /\ QueueDepth * (a + b) = QueueDepth * a + QueueDepth * b
           /\ QueueDepth * a \in Nat /\ QueueDepth * b \in Nat
           /\ QueueDepth * (a + 1) = QueueDepth * a + QueueDepth
BY Numbers

(* A connection of instance i for each of some senders. *)
LEMMA ConnsOfInstance ==
    ASSUME NEW i, NEW some \in SUBSET Senders
    PROVE  /\ IsFiniteSet({i} \X some) /\ IsFiniteSet(some)
           /\ Cardinality({i} \X some) = Cardinality(some)
           /\ Cardinality(some) \in Nat
<1>1. IsFiniteSet(some) /\ IsFiniteSet({i}) /\ Cardinality({i}) = 1
  BY ConstAssumption, FS_Subset, FS_Singleton
<1>2. Cardinality(some) \in Nat
  BY <1>1, FS_CardinalityType
<1>3. IsFiniteSet({i} \X some) /\ Cardinality({i} \X some) = 1 * Cardinality(some)
  <2>1. IsFiniteSet({i} \X some) /\ Cardinality({i} \X some) = Cardinality({i}) * Cardinality(some)
    BY <1>1, FS_Product
  <2> QED
    BY <1>1, <2>1
<1>4. 1 * Cardinality(some) = Cardinality(some)
  BY <1>2
<1> QED
  BY <1>1, <1>2, <1>3, <1>4

-----------------------------------------------------------------------------
(***************************************************************************)
(* The packets in the rings of some connections, and their bound: each     *)
(* takes a slot of its own.                                                *)
(***************************************************************************)
InRings(conns) == {e \in conns \X Pkts : e[2] \in ring[e[1]]}

LEMMA InRingsFinite ==
    ASSUME NEW conns \in SUBSET Conns
    PROVE  /\ IsFiniteSet(InRings(conns)) /\ RingSize(conns) = Cardinality(InRings(conns))
           /\ RingSize(conns) \in Nat
<1>1. InRings(conns) \in SUBSET (Conns \X Pkts)
  BY DEF InRings
<1>2. IsFiniteSet(InRings(conns))
  BY <1>1, FinitelyMany, FS_Subset
<1>3. RingSize(conns) = Cardinality(InRings(conns))
  BY DEF RingSize, InRings
<1> QED
  BY <1>2, <1>3, FS_CardinalityType

LEMMA RingBound ==
    ASSUME ProtInv, NEW conns \in SUBSET Conns
    PROVE  /\ RingSize(conns) <= QueueDepth * Cardinality(conns)
           /\ Cardinality(conns) \in Nat
<1> DEFINE S == InRings(conns)
           T == (1 .. QueueDepth) \X conns
           f == [e \in S |-> <<e[2] - consumed[e[1]], e[1]>>]
<1>1. ASSUME NEW e \in S
      PROVE  /\ e = <<e[1], e[2]>> /\ e[1] \in conns /\ e[2] \in Nat
             /\ consumed[e[1]] \in Nat
             /\ e[2] - consumed[e[1]] \in 1 .. QueueDepth
  <2>1. e = <<e[1], e[2]>> /\ e[1] \in conns /\ e[1] \in Conns /\ e[2] \in Pkts
        /\ e[2] \in ring[e[1]]
    BY DEF InRings
  <2>2. e[2] \in Nat /\ consumed[e[1]] \in Nat
    BY <2>1, Numbers DEF Pkts, ProtInv, ProtTypeOK
  <2>3. e[2] \in (consumed[e[1]] + 1) .. (consumed[e[1]] + QueueDepth)
    BY <2>1 DEF ProtInv, RingInv
  <2>4. e[2] - consumed[e[1]] \in 1 .. QueueDepth
    <3> HIDE DEF S
    <3>1. PICK a \in Nat, b \in Nat : a = e[2] /\ b = consumed[e[1]]
      BY <2>2
    <3>2. a - b \in 1 .. QueueDepth
      BY <2>3, <3>1, Numbers
    <3> QED
      BY <3>1, <3>2
  <2> QED
    BY <2>1, <2>2, <2>4
<1>2. f \in [S -> T]
  BY <1>1
<1>3. ASSUME NEW d \in S, NEW e \in S, f[d] = f[e] PROVE d = e
  <2>1. d[2] - consumed[d[1]] = e[2] - consumed[e[1]] /\ d[1] = e[1]
    BY <1>3
  <2>2. PICK a \in Nat, b \in Nat, x \in Nat :
            a = d[2] /\ b = e[2] /\ x = consumed[d[1]] /\ x = consumed[e[1]]
    BY <1>1, <2>1
  <2>3. a - x = b - x
    BY <2>1, <2>2
  <2>4. a = b
    BY <2>3
  <2> QED
    BY <1>1, <2>1, <2>2, <2>4
<1>4. f \in Injection(S, T)
  <2> HIDE DEF S, T, f
  <2> QED
    BY <1>2, <1>3, Fun_IsInj
<1>5. IsFiniteSet(conns) /\ Cardinality(conns) \in Nat
  BY FinitelyMany, FS_Subset, FS_CardinalityType
<1>6. IsFiniteSet(1 .. QueueDepth) /\ Cardinality(1 .. QueueDepth) = QueueDepth
  BY Numbers, FS_Interval
<1>7. IsFiniteSet(T) /\ Cardinality(T) = QueueDepth * Cardinality(conns)
  <2>1. IsFiniteSet(T) /\ Cardinality(T) = Cardinality(1 .. QueueDepth) * Cardinality(conns)
    BY <1>5, <1>6, FS_Product
  <2> QED
    BY <1>6, <2>1
<1>8. Cardinality(S) <= Cardinality(T)
  <2> HIDE DEF S, T, f
  <2> QED
    BY <1>4, <1>7, FS_Injection
<1> QED
  BY <1>5, <1>7, <1>8, InRingsFinite

-----------------------------------------------------------------------------
(* The sizes in the accounts are numbers. *)
LEMMA Sizes ==
    ASSUME ProtTypeOK
    PROVE  /\ IsFiniteSet(connHtab) /\ IsFiniteSet(noQueue) /\ IsFiniteSet(startupCache)
           /\ Cardinality(connHtab) \in Nat /\ Cardinality(noQueue) \in Nat
           /\ Cardinality(startupCache) \in Nat /\ RingSize(connHtab) \in Nat
<1>1. /\ connHtab \in SUBSET Conns /\ noQueue \in SUBSET Ics
      /\ startupCache \in SUBSET (Conns \X Pkts)
  BY DEF ProtTypeOK
<1>2. IsFiniteSet(connHtab) /\ IsFiniteSet(noQueue) /\ IsFiniteSet(startupCache)
  BY <1>1, FinitelyMany, FS_Subset
<1>3. RingSize(connHtab) \in Nat
  BY <1>1, InRingsFinite
<1> QED
  BY <1>2, <1>3, FS_CardinalityType

(* The accounts after a step, from the sizes after it. *)
LEMMA PoolAfter ==
    ASSUME NEW r \in Nat, NEW k \in Nat, NEW c \in Nat, NEW n \in Nat,
           RingSize(connHtab)' = r, Cardinality(startupCache') = k,
           Cardinality(connHtab') = c, Cardinality(noQueue') = n,
           freeList' \in Nat, rxPkt' \in 0 .. 1,
           count' = freeList' + rxPkt' + r + k,
           maxCount' = 1 + QueueDepth * (c + n) + k,
           rxError' = FALSE, fatal' = FALSE
    PROVE  PoolInv'
<1>1. QueueDepth * (c + n) \in Nat
  BY Times, Numbers
<1>2. count' \in Nat /\ maxCount' \in Nat
  <2>1. \A f \in Nat, x \in 0 .. 1, z \in Nat : f + x + r + k \in Nat /\ 1 + z + k \in Nat
    OBVIOUS
  <2>2. freeList' + rxPkt' + r + k \in Nat
    BY <2>1
  <2>3. 1 + QueueDepth * (c + n) + k \in Nat
    BY <1>1, <2>1, Zenon
  <2> QED
    BY <2>2, <2>3, Zenon
<1>3. PoolAccounting'
  BY DEF PoolAccounting
<1>4. NeverOutOfBuffers'
  BY DEF NeverOutOfBuffers
<1> QED
  BY <1>2, <1>3, <1>4 DEF PoolInv

(* The accounts before it. *)
LEMMA PoolBefore ==
    ASSUME ProtInv, PoolInv
    PROVE  /\ RingSize(connHtab) \in Nat /\ Cardinality(startupCache) \in Nat
           /\ Cardinality(connHtab) \in Nat /\ Cardinality(noQueue) \in Nat
           /\ IsFiniteSet(connHtab) /\ IsFiniteSet(noQueue) /\ IsFiniteSet(startupCache)
           /\ RingSize(connHtab) <= QueueDepth * Cardinality(connHtab)
           /\ count \in Nat /\ maxCount \in Nat /\ freeList \in Nat /\ rxPkt \in 0 .. 1
           /\ count = freeList + rxPkt + RingSize(connHtab) + Cardinality(startupCache)
           /\ maxCount = 1 + QueueDepth * (Cardinality(connHtab) + Cardinality(noQueue))
                           + Cardinality(startupCache)
           /\ rxError = FALSE /\ fatal = FALSE
<1>1. ProtTypeOK /\ connHtab \in SUBSET Conns
  BY DEF ProtInv, ProtTypeOK
<1>2. RingSize(connHtab) <= QueueDepth * Cardinality(connHtab)
  BY <1>1, RingBound
<1>3. rxError = FALSE /\ fatal = FALSE
  BY DEF PoolInv, NeverOutOfBuffers
<1> QED
  BY <1>1, <1>2, <1>3, Sizes DEF PoolInv, PoolAccounting

(* The steps that leave the pool and the rings. *)
LEMMA PoolStays ==
    ASSUME ProtInv, PoolInv, UNCHANGED <<connHtab, ring, noQueue, poolVars>>
    PROVE  PoolInv'
<1>1. RingSize(connHtab)' = RingSize(connHtab)
  BY DEF RingSize
<1> QED
  BY <1>1 DEF poolVars, PoolInv, PoolAccounting, NeverOutOfBuffers

(* getRxBuffer: a free buffer or a new one; the pool is never exhausted,   *)
(* because the rx thread has no buffer when it asks for one.               *)
LEMMA GetRxBufferPool == ASSUME ProtInv, PoolInv, GetRxBuffer PROVE PoolInv'
<1> DEFINE R == RingSize(connHtab)
           K == Cardinality(startupCache)
           C == Cardinality(connHtab)
           N == Cardinality(noQueue)
<1>1. /\ R \in Nat /\ K \in Nat /\ C \in Nat /\ N \in Nat /\ R <= QueueDepth * C
      /\ count \in Nat /\ maxCount \in Nat /\ freeList \in Nat /\ rxPkt \in 0 .. 1
      /\ count = freeList + rxPkt + R + K /\ maxCount = 1 + QueueDepth * (C + N) + K
      /\ rxError = FALSE /\ fatal = FALSE
  BY PoolBefore
<1>2. RingSize(connHtab)' = R
  BY DEF GetRxBuffer, connVars, RingSize
<1>3. Cardinality(startupCache') = K /\ Cardinality(connHtab') = C /\ Cardinality(noQueue') = N
  BY DEF GetRxBuffer, connVars, procVars
<1> HIDE DEF R, K, C, N
<1>4. QueueDepth * (C + N) = QueueDepth * C + QueueDepth * N /\ QueueDepth * C \in Nat
      /\ QueueDepth * N \in Nat
  BY <1>1, Times
<1>5. ~(rxPkt = 0 /\ freeList = 0 /\ count > maxCount)
  <2>1. PICK x \in Nat, y \in Nat : x = QueueDepth * C /\ y = QueueDepth * N
    BY <1>4
  <2> QED
    BY <1>1, <1>4, <2>1
<1>6. /\ rxPkt = 0 /\ rxPkt' = 1 /\ maxCount' = maxCount
      /\ \/ freeList > 0 /\ freeList' = freeList - 1 /\ count' = count
         \/ freeList' = freeList /\ count' = count + 1
      /\ rxError' = FALSE /\ fatal' = FALSE
  BY <1>1, <1>5 DEF GetRxBuffer
<1>7. freeList' \in Nat /\ count' = freeList' + rxPkt' + R + K
  BY <1>1, <1>6
<1>8. rxPkt' \in 0 .. 1 /\ maxCount' = 1 + QueueDepth * (C + N) + K
  BY <1>1, <1>6
<1> QED
  BY <1>1, <1>2, <1>3, <1>6, <1>7, <1>8, PoolAfter

(* handleDataPacket: a wanted packet takes its buffer along into the ring. *)
LEMMA HandleDataPacketPool ==
    ASSUME ProtInv, PoolInv, NEW c \in Conns, NEW p \in Pkts, HandleDataPacket(c, p)
    PROVE  PoolInv'
<1>1. CASE ~Wanted(c, p)
  <2>1. UNCHANGED <<connHtab, ring, noQueue, poolVars>>
    BY <1>1 DEF HandleDataPacket, poolVars, procVars
  <2> QED
    BY <2>1, PoolStays
<1>2. CASE Wanted(c, p)
  <2> DEFINE R == RingSize(connHtab)
             K == Cardinality(startupCache)
             C == Cardinality(connHtab)
             N == Cardinality(noQueue)
             E == InRings(connHtab)
  <2>1. /\ R \in Nat /\ K \in Nat /\ C \in Nat /\ N \in Nat
        /\ count \in Nat /\ maxCount \in Nat /\ freeList \in Nat /\ rxPkt \in 0 .. 1
        /\ count = freeList + rxPkt + R + K /\ maxCount = 1 + QueueDepth * (C + N) + K
        /\ rxError = FALSE /\ fatal = FALSE
    BY PoolBefore
  <2>2. /\ rxPkt = 1 /\ rxPkt' = 0 /\ c \in connHtab
        /\ ring' = [ring EXCEPT ![c] = ring[c] \cup {p}] /\ p \notin ring[c]
        /\ UNCHANGED <<connHtab, noQueue, count, maxCount, freeList, startupCache, rxError, fatal>>
    BY <1>2 DEF HandleDataPacket, Wanted, procVars
  <2>3. ring \in [Conns -> SUBSET Pkts] /\ connHtab \in SUBSET Conns
    BY DEF ProtInv, ProtTypeOK
  <2>4. InRings(connHtab)' = E \cup {<<c, p>>} /\ <<c, p>> \notin E
    <3>1. <<c, p>> \notin E
      BY <2>2 DEF InRings
    <3>2. \A d \in connHtab, q \in Pkts : q \in ring'[d] <=> q \in ring[d] \/ (d = c /\ q = p)
      BY <2>2, <2>3
    <3>3. InRings(connHtab)' = {e \in connHtab \X Pkts : e[2] \in ring'[e[1]]}
      BY <2>2 DEF InRings
    <3>4. \A e \in connHtab \X Pkts : e[2] \in ring'[e[1]] <=> e[2] \in ring[e[1]] \/ e = <<c, p>>
      BY <3>2
    <3>5. <<c, p>> \in connHtab \X Pkts
      BY <2>2
    <3>6. E = {e \in connHtab \X Pkts : e[2] \in ring[e[1]]}
      BY DEF InRings
    <3> HIDE DEF E
    <3>7. {e \in connHtab \X Pkts : e[2] \in ring'[e[1]]} = E \cup {<<c, p>>}
      BY <3>4, <3>5, <3>6
    <3> QED
      BY <3>1, <3>3, <3>7
  <2>5. IsFiniteSet(E) /\ R = Cardinality(E)
    BY <2>3, InRingsFinite
  <2>6. RingSize(connHtab)' = Cardinality(InRings(connHtab)')
    BY DEF RingSize, InRings
  <2> HIDE DEF R, K, C, N, E
  <2>7. RingSize(connHtab)' = R + 1
    <3>1. Cardinality(E \cup {<<c, p>>}) = Cardinality(E) + 1
      BY <2>4, <2>5, FS_AddElement
    <3> QED
      BY <2>4, <2>5, <2>6, <3>1
  <2>8. Cardinality(startupCache') = K /\ Cardinality(connHtab') = C /\ Cardinality(noQueue') = N
    BY <2>2 DEF K, C, N
  <2>9. /\ freeList' \in Nat /\ rxPkt' \in 0 .. 1 /\ count' = freeList' + rxPkt' + (R + 1) + K
        /\ maxCount' = 1 + QueueDepth * (C + N) + K /\ R + 1 \in Nat
        /\ rxError' = FALSE /\ fatal' = FALSE
    BY <2>1, <2>2
  <2> QED
    BY <2>1, <2>7, <2>8, <2>9, PoolAfter
<1> QED
  BY <1>1, <1>2

(* cacheFuturePacket: one buffer more may be allocated for the one cached. *)
LEMMA CacheFuturePacketPool ==
    ASSUME ProtInv, PoolInv, NEW c \in Conns, NEW p \in Pkts, CacheFuturePacket(c, p)
    PROVE  PoolInv'
<1> DEFINE R == RingSize(connHtab)
           K == Cardinality(startupCache)
           C == Cardinality(connHtab)
           N == Cardinality(noQueue)
<1>1. /\ R \in Nat /\ K \in Nat /\ C \in Nat /\ N \in Nat /\ IsFiniteSet(startupCache)
      /\ count \in Nat /\ maxCount \in Nat /\ freeList \in Nat /\ rxPkt \in 0 .. 1
      /\ count = freeList + rxPkt + R + K /\ maxCount = 1 + QueueDepth * (C + N) + K
      /\ rxError = FALSE /\ fatal = FALSE
  BY PoolBefore
<1>2. /\ rxPkt = 1 /\ rxPkt' = 0 /\ <<c, p>> \notin startupCache /\ maxCount' = maxCount + 1
      /\ startupCache' = startupCache \cup {<<c, p>>}
      /\ UNCHANGED <<connHtab, ring, noQueue, count, freeList, rxError, fatal>>
  BY DEF CacheFuturePacket, procVars, connVars
<1>3. RingSize(connHtab)' = R
  BY <1>2 DEF RingSize
<1>4. Cardinality(startupCache') = K + 1
  BY <1>1, <1>2, FS_AddElement
<1>5. Cardinality(connHtab') = C /\ Cardinality(noQueue') = N
  BY <1>2
<1> HIDE DEF R, K, C, N
<1>6. QueueDepth * (C + N) \in Nat
  BY <1>1, Numbers, Times
<1>7. /\ freeList' \in Nat /\ rxPkt' \in 0 .. 1 /\ count' = freeList' + rxPkt' + R + (K + 1)
      /\ maxCount' = 1 + QueueDepth * (C + N) + (K + 1) /\ K + 1 \in Nat
      /\ rxError' = FALSE /\ fatal' = FALSE
  <2>1. PICK z \in Nat : z = QueueDepth * (C + N)
    BY <1>6
  <2> QED
    BY <1>1, <1>2, <2>1
<1> QED
  BY <1>1, <1>3, <1>4, <1>5, <1>7, PoolAfter

(* MlPutRxBuffer: the buffer of a consumed packet goes to the free list. *)
LEMMA ConsumePool == ASSUME ProtInv, PoolInv, NEW c \in Conns, Consume(c) PROVE PoolInv'
<1> DEFINE R == RingSize(connHtab)
           K == Cardinality(startupCache)
           C == Cardinality(connHtab)
           N == Cardinality(noQueue)
           E == InRings(connHtab)
<1>1. /\ R \in Nat /\ K \in Nat /\ C \in Nat /\ N \in Nat
      /\ count \in Nat /\ maxCount \in Nat /\ freeList \in Nat /\ rxPkt \in 0 .. 1
      /\ count = freeList + rxPkt + R + K /\ maxCount = 1 + QueueDepth * (C + N) + K
      /\ rxError = FALSE /\ fatal = FALSE
  BY PoolBefore
<1>2. ring \in [Conns -> SUBSET Pkts] /\ connHtab \in SUBSET Conns
  BY DEF ProtInv, ProtTypeOK
<1>3. PICK p \in Pkts :
      /\ c \in connHtab /\ p \in ring[c]
      /\ ring' = [ring EXCEPT ![c] = ring[c] \ {p}]
      /\ freeList' = freeList + 1
      /\ UNCHANGED <<connHtab, noQueue, count, maxCount, rxPkt, startupCache, rxError, fatal>>
  BY <1>2 DEF Consume, procVars
<1>4. InRings(connHtab)' = E \ {<<c, p>>} /\ <<c, p>> \in E
  <2>1. <<c, p>> \in E
    BY <1>3 DEF InRings
  <2>2. \A d \in connHtab, q \in Pkts : q \in ring'[d] <=> q \in ring[d] /\ ~(d = c /\ q = p)
    BY <1>2, <1>3
  <2>3. InRings(connHtab)' = {e \in connHtab \X Pkts : e[2] \in ring'[e[1]]}
    BY <1>3 DEF InRings
  <2>4. \A e \in connHtab \X Pkts : e[2] \in ring'[e[1]] <=> e[2] \in ring[e[1]] /\ e # <<c, p>>
    BY <2>2
  <2>5. E = {e \in connHtab \X Pkts : e[2] \in ring[e[1]]}
    BY DEF InRings
  <2> HIDE DEF E
  <2>6. {e \in connHtab \X Pkts : e[2] \in ring'[e[1]]} = E \ {<<c, p>>}
    BY <2>4, <2>5
  <2> QED
    BY <2>1, <2>3, <2>6
<1>5. IsFiniteSet(E) /\ R = Cardinality(E)
  BY <1>2, InRingsFinite
<1>6. RingSize(connHtab)' = Cardinality(InRings(connHtab)')
  BY DEF RingSize, InRings
<1> HIDE DEF R, K, C, N, E
<1>7. RingSize(connHtab)' = R - 1 /\ R - 1 \in Nat
  <2>1. Cardinality(E \ {<<c, p>>}) = Cardinality(E) - 1
    BY <1>4, <1>5, FS_RemoveElement
  <2>2. Cardinality(E \ {<<c, p>>}) \in Nat
    BY <1>5, FS_RemoveElement, FS_CardinalityType
  <2> QED
    BY <1>4, <1>5, <1>6, <2>1, <2>2
<1>8. Cardinality(startupCache') = K /\ Cardinality(connHtab') = C /\ Cardinality(noQueue') = N
  BY <1>3 DEF K, C, N
<1>9. /\ freeList' \in Nat /\ rxPkt' \in 0 .. 1 /\ count' = freeList' + rxPkt' + (R - 1) + K
      /\ maxCount' = 1 + QueueDepth * (C + N) + K
      /\ rxError' = FALSE /\ fatal' = FALSE
  BY <1>1, <1>3
<1> QED
  BY <1>1, <1>7, <1>8, <1>9, PoolAfter

-----------------------------------------------------------------------------
(* Setup adds connections of an instance that had none. *)
LEMMA NewConns ==
    ASSUME ProtInv, NEW i \in Ics, i = nextIc, NEW some \in SUBSET Senders
    PROVE  /\ connHtab \cap ({i} \X some) = {}
           /\ Cardinality(connHtab \cup ({i} \X some)) = Cardinality(connHtab) + Cardinality(some)
           /\ connHtab \cup ({i} \X some) \in SUBSET Conns
<1>1. connHtab \cap ({i} \X some) = {}
  <2> SUFFICES ASSUME NEW c \in connHtab, c \in {i} \X some PROVE FALSE
    OBVIOUS
  <2>1. c[1] = i /\ c[1] < nextIc /\ i \in Nat
    BY DEF ProtInv, InstanceInv, Ics
  <2> QED
    BY <2>1
<1>2. connHtab \in SUBSET Conns /\ {i} \X some \in SUBSET Conns
  BY DEF ProtInv, ProtTypeOK, Conns
<1>3. IsFiniteSet(connHtab) /\ IsFiniteSet({i} \X some)
  BY <1>2, FinitelyMany, FS_Subset
<1>4. Cardinality({i} \X some) = Cardinality(some)
  BY ConnsOfInstance
<1> QED
  BY <1>1, <1>2, <1>3, <1>4, DisjointUnion

(* The rings after setup: the new ones were empty, and take what is kept   *)
(* of the cached packets.                                                  *)
LEMMA SetupRings ==
    ASSUME ProtInv, NEW conns \in SUBSET Conns, connHtab' = conns, connHtab \subseteq conns,
           NEW kept \in SUBSET (conns \X Pkts), \A e \in kept : e[2] \notin ring[e[1]],
           ring' = [c \in Conns |-> ring[c] \cup {p \in Pkts : <<c, p>> \in kept}]
    PROVE  RingSize(connHtab)' = RingSize(connHtab) + Cardinality(kept)
<1> DEFINE E == InRings(connHtab)
<1>1. ring \in [Conns -> SUBSET Pkts] /\ connHtab \in SUBSET Conns
  BY DEF ProtInv, ProtTypeOK
<1>2. \A c \in conns \ connHtab : ring[c] = {}
  BY DEF ProtInv, RingInv
<1>3. InRings(connHtab)' = {e \in conns \X Pkts : e[2] \in ring'[e[1]]}
  BY DEF InRings
<1>4. \A c \in conns, p \in Pkts : p \in ring'[c] <=> p \in ring[c] \/ <<c, p>> \in kept
  BY <1>1
<1>5. \A e \in conns \X Pkts : e[2] \in ring'[e[1]] <=> e[2] \in ring[e[1]] \/ e \in kept
  <2> TAKE e \in conns \X Pkts
  <2>1. e[1] \in conns /\ e[2] \in Pkts /\ e = <<e[1], e[2]>>
    OBVIOUS
  <2> QED
    BY <1>4, <2>1
<1>6. \A e \in conns \X Pkts : e[2] \in ring[e[1]] <=> e \in E
  <2> TAKE e \in conns \X Pkts
  <2>1. e[1] \in conns /\ e[2] \in Pkts /\ e = <<e[1], e[2]>>
    OBVIOUS
  <2>2. CASE e[1] \in connHtab
    BY <2>1, <2>2 DEF InRings
  <2>3. CASE e[1] \notin connHtab
    <3>1. ring[e[1]] = {}
      BY <1>2, <2>1, <2>3
    <3> QED
      BY <2>3, <3>1 DEF InRings
  <2> QED
    BY <2>2, <2>3
<1>7. E \subseteq conns \X Pkts
  BY DEF InRings
<1>8. IsFiniteSet(E) /\ RingSize(connHtab) = Cardinality(E)
  BY <1>1, InRingsFinite
<1> HIDE DEF E
<1>9. InRings(connHtab)' = E \cup kept
  <2>1. {e \in conns \X Pkts : e[2] \in ring'[e[1]]} = E \cup kept
    BY <1>5, <1>6, <1>7
  <2> QED
    BY <1>3, <2>1
<1>10. E \cap kept = {}
  BY <1>6
<1>11. IsFiniteSet(kept)
  <2>1. kept \in SUBSET (Conns \X Pkts)
    OBVIOUS
  <2> QED
    BY <2>1, FinitelyMany, FS_Subset
<1>12. Cardinality(E \cup kept) = Cardinality(E) + Cardinality(kept)
  BY <1>8, <1>10, <1>11, DisjointUnion
<1>13. RingSize(connHtab)' = Cardinality(InRings(connHtab)')
  BY DEF RingSize, InRings
<1> QED
  BY <1>8, <1>9, <1>12, <1>13

(* SetupUDPInterconnect: the cached packets go to the rings or to the free *)
(* list, and the limit follows the connections.                            *)
LEMMA SetupPool == ASSUME ProtInv, PoolInv, NEW i \in Ics, Setup(i) PROVE PoolInv'
<1> DEFINE R == RingSize(connHtab)
           K == Cardinality(startupCache)
           C == Cardinality(connHtab)
           N == Cardinality(noQueue)
           M == Cardinality(Senders)
<1>1. /\ R \in Nat /\ K \in Nat /\ C \in Nat /\ N \in Nat /\ IsFiniteSet(startupCache)
      /\ count \in Nat /\ maxCount \in Nat /\ freeList \in Nat /\ rxPkt \in 0 .. 1
      /\ count = freeList + rxPkt + R + K /\ maxCount = 1 + QueueDepth * (C + N) + K
      /\ rxError = FALSE /\ fatal = FALSE
  BY PoolBefore
<1>2. PICK conns : conns = connHtab \cup ({i} \X Senders)
  OBVIOUS
<1>3. /\ i = nextIc /\ connHtab' = conns /\ rxError' = FALSE
      /\ UNCHANGED <<noQueue, count, rxPkt, fatal>>
      /\ CacheFuture => HandleCachedPackets(conns)
      /\ ~CacheFuture => /\ maxCount' = maxCount + QueueDepth * M
                         /\ UNCHANGED <<startupCache, freeList, ring>>
  BY <1>2 DEF Setup, SetupStarts
<1>4. /\ conns \in SUBSET Conns /\ connHtab \subseteq conns
      /\ connHtab \cap ({i} \X Senders) = {} /\ Cardinality(conns) = C + M
  BY <1>2, <1>3, NewConns
<1>5. M \in Nat /\ Cardinality({i} \X Senders) = M
  BY ConnsOfInstance
<1>6. /\ ring \in [Conns -> SUBSET Pkts] /\ startupCache \subseteq Conns \X Pkts
  BY DEF ProtInv, ProtTypeOK
<1>7. Cardinality({}) = 0
  BY FS_EmptySet
<1>8. CASE CacheFuture
  <2>1. PICK kept : kept = {e \in startupCache : e[1] \in conns /\ Wanted(e[1], e[2])}
    OBVIOUS
  <2>2. /\ startupCache' = {}
        /\ maxCount' = maxCount + QueueDepth * Cardinality(conns \ connHtab) - K
        /\ freeList' = freeList + Cardinality(startupCache \ kept)
        /\ ring' = [c \in Conns |-> ring[c] \cup {p \in Pkts : <<c, p>> \in kept}]
    BY <1>3, <1>8, <2>1 DEF HandleCachedPackets
  <2>3. kept \in SUBSET (conns \X Pkts)
    BY <1>6, <2>1
  <2>4. \A e \in kept : e[2] \notin ring[e[1]]
    BY <2>1 DEF Wanted
  <2>5. RingSize(connHtab)' = R + Cardinality(kept)
    BY <1>3, <1>4, <2>2, <2>3, <2>4, SetupRings
  <2>6. kept \in SUBSET startupCache
    BY <2>1
  <2>7. /\ K = Cardinality(kept) + Cardinality(startupCache \ kept)
        /\ Cardinality(kept) \in Nat /\ Cardinality(startupCache \ kept) \in Nat
    BY <1>1, <2>6, TakenOut
  <2>8. conns \ connHtab = {i} \X Senders
    BY <1>2, <1>4
  <2>9. Cardinality(conns \ connHtab) = M
    BY <1>5, <2>8
  <2>10. Cardinality(startupCache') = 0 /\ Cardinality(connHtab') = C + M /\ Cardinality(noQueue') = N
    BY <1>3, <1>4, <1>7, <2>2
  <2> DEFINE x == Cardinality(kept)
             y == Cardinality(startupCache \ kept)
  <2>11. maxCount' = maxCount + QueueDepth * M - K
    BY <2>2, <2>9
  <2>12. freeList' = freeList + y /\ K = x + y /\ x \in Nat /\ y \in Nat
         /\ RingSize(connHtab)' = R + x
    BY <2>2, <2>5, <2>7
  <2> HIDE DEF R, K, C, N, M, x, y
  <2>13. /\ QueueDepth * ((C + M) + N) = QueueDepth * (C + N) + QueueDepth * M
         /\ QueueDepth * (C + N) \in Nat /\ QueueDepth * M \in Nat
    <3>1. C + N \in Nat /\ (C + M) + N = (C + N) + M
      BY <1>1, <1>5
    <3> QED
      BY <1>5, <3>1, Times
  <2>14. maxCount' = 1 + QueueDepth * ((C + M) + N) + 0
    <3>1. PICK u \in Nat, v \in Nat : u = QueueDepth * (C + N) /\ v = QueueDepth * M
      BY <2>13
    <3> QED
      BY <1>1, <2>11, <2>13, <3>1
  <2>15. /\ freeList' \in Nat /\ rxPkt' \in 0 .. 1 /\ count' = freeList' + rxPkt' + (R + x) + 0
         /\ R + x \in Nat /\ C + M \in Nat
    BY <1>1, <1>3, <1>5, <2>12
  <2>16. rxError' = FALSE /\ fatal' = FALSE
    BY <1>1, <1>3
  <2> QED
    <3>1. PICK z \in Nat : z = 0
      OBVIOUS
    <3>2. /\ Cardinality(startupCache') = z /\ count' = freeList' + rxPkt' + (R + x) + z
          /\ maxCount' = 1 + QueueDepth * ((C + M) + N) + z
      BY <2>10, <2>14, <2>15, <3>1, Zenon
    <3> QED
      BY <1>1, <2>10, <2>12, <2>15, <2>16, <3>2, PoolAfter
<1>9. CASE ~CacheFuture
  <2>1. /\ maxCount' = maxCount + QueueDepth * M
        /\ startupCache' = startupCache /\ freeList' = freeList /\ ring' = ring
    BY <1>3, <1>9
  <2>2. ring' = [c \in Conns |-> ring[c] \cup {p \in Pkts : <<c, p>> \in {}}]
    BY <1>6, <2>1
  <2>3. RingSize(connHtab)' = R + Cardinality({})
    BY <1>3, <1>4, <2>2, SetupRings
  <2>4. RingSize(connHtab)' = R
    BY <1>1, <1>7, <2>3
  <2>5. Cardinality(startupCache') = K /\ Cardinality(connHtab') = C + M /\ Cardinality(noQueue') = N
    BY <1>3, <1>4, <2>1
  <2> HIDE DEF R, K, C, N, M
  <2>6. /\ QueueDepth * ((C + M) + N) = QueueDepth * (C + N) + QueueDepth * M
        /\ QueueDepth * (C + N) \in Nat /\ QueueDepth * M \in Nat
    <3>1. C + N \in Nat /\ (C + M) + N = (C + N) + M
      BY <1>1, <1>5
    <3> QED
      BY <1>5, <3>1, Times
  <2>7. maxCount' = 1 + QueueDepth * ((C + M) + N) + K
    <3>1. PICK u \in Nat, v \in Nat : u = QueueDepth * (C + N) /\ v = QueueDepth * M
      BY <2>6
    <3> QED
      BY <1>1, <2>1, <2>6, <3>1
  <2>8. /\ freeList' \in Nat /\ rxPkt' \in 0 .. 1 /\ count' = freeList' + rxPkt' + R + K
        /\ C + M \in Nat
    BY <1>1, <1>3, <1>5, <2>1
  <2>9. rxError' = FALSE /\ fatal' = FALSE
    BY <1>1, <1>3
  <2> QED
    BY <1>1, <2>4, <2>5, <2>7, <2>8, <2>9, PoolAfter
<1> QED
  BY <1>8, <1>9

(* An error in setup: the limit was raised for the connections made, and   *)
(* for the one whose pkt_q could not be allocated.                         *)
LEMMA SetupFailsPool == ASSUME ProtInv, PoolInv, NEW i \in Ics, SetupFails(i) PROVE PoolInv'
<1> DEFINE R == RingSize(connHtab)
           K == Cardinality(startupCache)
           C == Cardinality(connHtab)
           N == Cardinality(noQueue)
<1>1. /\ R \in Nat /\ K \in Nat /\ C \in Nat /\ N \in Nat /\ IsFiniteSet(noQueue)
      /\ count \in Nat /\ maxCount \in Nat /\ freeList \in Nat /\ rxPkt \in 0 .. 1
      /\ count = freeList + rxPkt + R + K /\ maxCount = 1 + QueueDepth * (C + N) + K
      /\ rxError = FALSE /\ fatal = FALSE
  BY PoolBefore
<1>2. PICK some \in SUBSET Senders, outOfMemory \in BOOLEAN :
        /\ connHtab' = connHtab \cup ({i} \X some)
        /\ maxCount' = maxCount + QueueDepth * (Cardinality(some) + IF outOfMemory THEN 1 ELSE 0)
        /\ noQueue' = IF outOfMemory THEN noQueue \cup {i} ELSE noQueue
  BY DEF SetupFails
<1>3. /\ i = nextIc /\ rxError' = FALSE
      /\ UNCHANGED <<ring, count, freeList, rxPkt, startupCache, fatal>>
  BY DEF SetupFails, SetupStarts
<1>4. i \notin noQueue
  <2>1. \A j \in noQueue : j < nextIc
    BY DEF ProtInv, ProtTypeOK, InstanceInv
  <2>2. i \in Nat
    BY DEF Ics
  <2> QED
    BY <1>3, <2>1, <2>2
<1>5. PICK m \in Nat, o \in Nat : m = Cardinality(some) /\ o = IF outOfMemory THEN 1 ELSE 0
  BY ConnsOfInstance
<1>6. Cardinality(noQueue') = N + o
  <2>1. CASE outOfMemory
    BY <1>1, <1>2, <1>4, <1>5, <2>1, FS_AddElement
  <2>2. CASE ~outOfMemory
    BY <1>1, <1>2, <1>5, <2>2
  <2> QED
    BY <2>1, <2>2
<1>7. PICK conns : conns = connHtab \cup ({i} \X some)
  OBVIOUS
<1>8. /\ conns \in SUBSET Conns /\ connHtab \subseteq conns /\ connHtab' = conns
      /\ Cardinality(connHtab') = C + m
  BY <1>2, <1>3, <1>5, <1>7, NewConns
<1>9. RingSize(connHtab)' = R
  <2>1. ring' = [c \in Conns |-> ring[c] \cup {p \in Pkts : <<c, p>> \in {}}]
    BY <1>3 DEF ProtInv, ProtTypeOK
  <2>2. RingSize(connHtab)' = R + Cardinality({})
    BY <1>8, <2>1, SetupRings
  <2> QED
    BY <1>1, <2>2, FS_EmptySet
<1>10. Cardinality(startupCache') = K
  BY <1>3
<1>11. maxCount' = maxCount + QueueDepth * (m + o)
  BY <1>2, <1>5
<1> HIDE DEF R, K, C, N
<1>12. /\ QueueDepth * ((C + m) + (N + o)) = QueueDepth * (C + N) + QueueDepth * (m + o)
       /\ QueueDepth * (C + N) \in Nat /\ QueueDepth * (m + o) \in Nat
  <2>1. C + N \in Nat /\ m + o \in Nat /\ (C + m) + (N + o) = (C + N) + (m + o)
    BY <1>1
  <2> QED
    BY <2>1, Times
<1>13. maxCount' = 1 + QueueDepth * ((C + m) + (N + o)) + K
  <2>1. PICK u \in Nat, v \in Nat : u = QueueDepth * (C + N) /\ v = QueueDepth * (m + o)
    BY <1>12
  <2> QED
    BY <1>1, <1>11, <1>12, <2>1
<1>14. /\ freeList' \in Nat /\ rxPkt' \in 0 .. 1 /\ count' = freeList' + rxPkt' + R + K
       /\ C + m \in Nat /\ N + o \in Nat
  BY <1>1, <1>3
<1>15. rxError' = FALSE /\ fatal' = FALSE
  BY <1>1, <1>3
<1> QED
  BY <1>1, <1>6, <1>8, <1>9, <1>10, <1>13, <1>14, <1>15, PoolAfter

(* The pruning loop finds enough free buffers when those in use are within *)
(* the limit.                                                              *)
LEMMA PruneKeeps ==
    ASSUME NEW n \in Nat, NEW limit \in Nat, NEW free \in Nat, NEW used \in Nat,
           n = free + used, used <= limit, fatal = FALSE, PruneFreeList(n, limit, free)
    PROVE  /\ fatal' = FALSE
           /\ freeList' \in Nat
           /\ count' = freeList' + used
<1>1. n - limit \in Int /\ 0 \in Int
  OBVIOUS
<1>2. Max({0, n - limit}) = IF 0 >= n - limit THEN 0 ELSE n - limit
  BY <1>1, MaxOfTwo
<1>3. PICK excess \in Nat : excess = Max({0, n - limit}) /\ excess <= free
  <2>1. PICK x \in Int : x = n - limit
    OBVIOUS
  <2>2. x <= free
    BY <2>1
  <2> QED
    BY <1>2, <2>1, <2>2
<1>4. Min({excess, free}) = excess
  <2>1. Min({excess, free}) = IF excess <= free THEN excess ELSE free
    BY MinOfTwo
  <2> QED
    BY <1>3, <2>1
<1>5. /\ fatal' = (fatal \/ excess > free)
      /\ count' = n - excess /\ freeList' = free - excess
  BY <1>3, <1>4 DEF PruneFreeList
<1>6. ~(excess > free)
  BY <1>3
<1>7. fatal' = FALSE
  BY <1>5, <1>6, Zenon
<1>8. n - excess = (free - excess) + used /\ free - excess \in Nat
  BY <1>3
<1> QED
  BY <1>5, <1>7, <1>8

(* TeardownUDPInterconnect: what the instance held goes to the free list,  *)
(* and the buffers in use elsewhere stay within the lowered limit.         *)
LEMMA TeardownPool == ASSUME ProtInv, PoolInv, NEW i \in Ics, Teardown(i) PROVE PoolInv'
<1> DEFINE R == RingSize(connHtab)
           K == Cardinality(startupCache)
           C == Cardinality(connHtab)
           N == Cardinality(noQueue)
<1>1. /\ R \in Nat /\ K \in Nat /\ C \in Nat /\ N \in Nat
      /\ IsFiniteSet(noQueue) /\ IsFiniteSet(connHtab)
      /\ count \in Nat /\ maxCount \in Nat /\ freeList \in Nat /\ rxPkt \in 0 .. 1
      /\ count = freeList + rxPkt + R + K /\ maxCount = 1 + QueueDepth * (C + N) + K
      /\ rxError = FALSE /\ fatal = FALSE
  BY PoolBefore
<1>2. PICK A, B : A = InstanceConns(i) /\ B = connHtab \ A
  OBVIOUS
<1>3. /\ connHtab' = B /\ noQueue' = noQueue \ {i}
      /\ ring' = [c \in Conns |-> IF c \in A THEN {} ELSE ring[c]]
      /\ startupCache' = {}
      /\ maxCount' = maxCount - K - Lowered(i)
      /\ PruneFreeList(count, maxCount', freeList + K + RingSize(A))
      /\ rxError' = FALSE /\ rxPkt' = rxPkt
  BY <1>2 DEF Teardown
<1>4. A \in SUBSET connHtab /\ A \in SUBSET Conns /\ B \in SUBSET Conns
  BY <1>2 DEF InstanceConns, ProtInv, ProtTypeOK
<1>5. PICK cA \in Nat, cB \in Nat : cA = Cardinality(A) /\ cB = Cardinality(B) /\ C = cA + cB
  <2>1. /\ Cardinality(connHtab) = Cardinality(A) + Cardinality(connHtab \ A)
        /\ Cardinality(A) \in Nat /\ Cardinality(connHtab \ A) \in Nat
    BY <1>1, <1>4, TakenOut
  <2> QED
    BY <1>2, <2>1
<1>6. PICK rA \in Nat, rB \in Nat : rA = RingSize(A) /\ rB = RingSize(B) /\ R = rA + rB
  <2>1. /\ InRings(A) \cap InRings(B) = {}
        /\ InRings(connHtab) = InRings(A) \cup InRings(B)
    BY <1>2, <1>4 DEF InRings
  <2>2. connHtab \in SUBSET Conns
    BY DEF ProtInv, ProtTypeOK
  <2>3. /\ IsFiniteSet(InRings(A)) /\ RingSize(A) = Cardinality(InRings(A)) /\ RingSize(A) \in Nat
        /\ IsFiniteSet(InRings(B)) /\ RingSize(B) = Cardinality(InRings(B)) /\ RingSize(B) \in Nat
        /\ R = Cardinality(InRings(connHtab))
    BY <1>4, <2>2, InRingsFinite
  <2>4. Cardinality(InRings(A) \cup InRings(B)) = Cardinality(InRings(A)) + Cardinality(InRings(B))
    BY <2>1, <2>3, DisjointUnion
  <2> QED
    BY <2>1, <2>3, <2>4
<1>7. rB <= QueueDepth * cB
  BY <1>4, <1>5, <1>6, RingBound
<1>8. RingSize(connHtab)' = rB
  <2>1. \A c \in B : ring'[c] = ring[c]
    BY <1>2, <1>3, <1>4
  <2>2. {e \in B \X Pkts : e[2] \in ring'[e[1]]} = {e \in B \X Pkts : e[2] \in ring[e[1]]}
    BY <2>1
  <2> QED
    BY <1>3, <1>6, <2>2 DEF RingSize
<1>9. PICK o \in Nat, m \in Nat :
          /\ o = (IF i \in noQueue THEN 1 ELSE 0) /\ m = Cardinality(noQueue') /\ N = m + o
  <2>1. Cardinality(noQueue \ {i}) = (IF i \in noQueue THEN N - 1 ELSE N)
        /\ IsFiniteSet(noQueue \ {i})
    BY <1>1, FS_RemoveElement
  <2>2. Cardinality(noQueue \ {i}) \in Nat
    BY <2>1, FS_CardinalityType
  <2> QED
    BY <1>1, <1>3, <2>1, <2>2
<1>10. Lowered(i) = QueueDepth * (cA + o)
  BY <1>2, <1>5, <1>9 DEF Lowered
<1>11. Cardinality(startupCache') = 0 /\ Cardinality(connHtab') = cB
  BY <1>3, <1>5, FS_EmptySet
<1>12. /\ maxCount' = maxCount - K - QueueDepth * (cA + o)
       /\ PruneFreeList(count, maxCount', freeList + K + rA)
  BY <1>3, <1>6, <1>10
<1> HIDE DEF R, K, C, N
<1>13. /\ QueueDepth * (C + N) = QueueDepth * (cB + m) + QueueDepth * (cA + o)
       /\ QueueDepth * (cB + m) = QueueDepth * cB + QueueDepth * m
       /\ QueueDepth * (cB + m) \in Nat /\ QueueDepth * (cA + o) \in Nat
       /\ QueueDepth * cB \in Nat /\ QueueDepth * m \in Nat
  <2>1. cB + m \in Nat /\ cA + o \in Nat /\ C + N = (cB + m) + (cA + o)
    BY <1>5, <1>9
  <2>2. /\ QueueDepth * ((cB + m) + (cA + o)) = QueueDepth * (cB + m) + QueueDepth * (cA + o)
        /\ QueueDepth * (cB + m) \in Nat /\ QueueDepth * (cA + o) \in Nat
    BY <2>1, Times
  <2>3. /\ QueueDepth * (cB + m) = QueueDepth * cB + QueueDepth * m
        /\ QueueDepth * cB \in Nat /\ QueueDepth * m \in Nat
    BY Times
  <2> QED
    BY <2>1, <2>2, <2>3, Zenon
<1>14. PICK u \in Nat, v \in Nat, x \in Nat, y \in Nat :
           /\ u = QueueDepth * (cB + m) /\ v = QueueDepth * (cA + o)
           /\ x = QueueDepth * cB /\ y = QueueDepth * m
  BY <1>13
<1>15. maxCount' = 1 + u /\ u = x + y /\ rB <= x
  BY <1>1, <1>7, <1>12, <1>13, <1>14
<1>16. PICK limit \in Nat, free \in Nat, used \in Nat :
           /\ limit = 1 + u /\ free = freeList + K + rA /\ used = rxPkt + rB
  BY <1>1
<1>17. count = free + used /\ used <= limit
  BY <1>1, <1>6, <1>15, <1>16
<1>18. PruneFreeList(count, limit, free)
  BY <1>12, <1>15, <1>16
<1>19. fatal' = FALSE /\ freeList' \in Nat /\ count' = freeList' + used
  BY <1>1, <1>17, <1>18, PruneKeeps
<1>20. PICK z \in Nat : z = 0
  OBVIOUS
<1>21. /\ rxPkt' \in 0 .. 1 /\ count' = freeList' + rxPkt' + rB + z
       /\ Cardinality(startupCache') = z
  BY <1>1, <1>3, <1>11, <1>16, <1>19, <1>20
<1>22. maxCount' = 1 + QueueDepth * (cB + m) + z
  BY <1>14, <1>15, <1>20
<1> QED
  <2>1. rxError' = FALSE /\ Cardinality(noQueue') = m
    BY <1>3, <1>9
  <2> QED
    BY <1>8, <1>11, <1>19, <1>21, <1>22, <2>1, PoolAfter

-----------------------------------------------------------------------------
LEMMA PoolInit == Init => PoolInv
<1> SUFFICES ASSUME Init PROVE PoolInv
  OBVIOUS
<1>1. /\ count = 0 /\ maxCount = 1 /\ freeList = 0 /\ rxPkt = 0 /\ rxError = FALSE
      /\ fatal = FALSE /\ connHtab = {} /\ noQueue = {} /\ startupCache = {}
  BY DEF Init
<1>2. Cardinality(connHtab) = 0 /\ Cardinality(noQueue) = 0 /\ Cardinality(startupCache) = 0
  BY <1>1, FS_EmptySet
<1>3. RingSize(connHtab) = 0
  <2>1. {e \in connHtab \X Pkts : e[2] \in ring[e[1]]} = {}
    BY <1>1
  <2> QED
    BY <2>1, FS_EmptySet DEF RingSize
<1>4. QueueDepth * (0 + 0) = 0
  BY Numbers
<1>5. PoolAccounting
  BY <1>1, <1>2, <1>3, <1>4 DEF PoolAccounting
<1> QED
  BY <1>1, <1>5 DEF PoolInv, NeverOutOfBuffers

LEMMA PoolNext == ProtInv /\ PoolInv /\ [Next]_vars => PoolInv'
<1> SUFFICES ASSUME ProtInv, PoolInv, [Next]_vars PROVE PoolInv'
  OBVIOUS
<1>1. CASE UNCHANGED vars
  BY <1>1, PoolStays DEF vars, procVars, connVars
<1>2. ASSUME NEW c \in Conns, SenderStep(c) \/ Cancel(c) PROVE PoolInv'
  BY <1>2, PoolStays DEF SenderStep, StartSender, Send, SendEosReturns, Cancel, procVars, connVars
<1>3. ASSUME NEW m \in acks, HandleAck(m) PROVE PoolInv'
  BY <1>3, PoolStays DEF HandleAck, procVars, connVars
<1>4. CASE GetRxBuffer
  BY <1>4, GetRxBufferPool
<1>5. CASE NewTransaction
  BY <1>5, PoolStays DEF NewTransaction, connVars
<1>6. ASSUME NEW c \in Conns, NEW p \in Pkts,
             HandleDataPacket(c, p) \/ AckThePast(c, p) \/ CacheFuturePacket(c, p)
      PROVE  PoolInv'
  <2>1. CASE AckThePast(c, p)
    BY <2>1, PoolStays DEF AckThePast, procVars, connVars
  <2> QED
    BY <1>6, <2>1, HandleDataPacketPool, CacheFuturePacketPool
<1>7. ASSUME NEW i \in Ics, Setup(i) \/ SetupFails(i) \/ Skip(i) \/ Teardown(i) PROVE PoolInv'
  <2>1. CASE Skip(i)
    BY <2>1, PoolStays DEF Skip, connVars
  <2> QED
    BY <1>7, <2>1, SetupPool, SetupFailsPool, TeardownPool
<1>8. ASSUME NEW c \in Conns, Consume(c) PROVE PoolInv'
  BY <1>8, ConsumePool
<1> QED
  BY <1>1, <1>2, <1>3, <1>4, <1>5, <1>6, <1>7, <1>8 DEF Next, RxThread, MainThread

LEMMA PoolAlways == Spec => []PoolInv
BY ProtAlways, PoolInit, PoolNext, PTL DEF Spec

(***************************************************************************)
(* The types of the variables.                                             *)
(***************************************************************************)
THEOREM InstanceTypes == Spec => []TypeOK
<1>1. ProtInv /\ PoolInv => TypeOK
  <2> SUFFICES ASSUME ProtInv, PoolInv PROVE TypeOK
    OBVIOUS
  <2>1. rxError \in BOOLEAN /\ fatal \in BOOLEAN
    <3>1. rxError = FALSE /\ fatal = FALSE
      BY PoolBefore
    <3> QED
      BY <3>1, Zenon
  <2> QED
    BY <2>1 DEF ProtInv, ProtTypeOK, PoolInv, TypeOK
<1> QED
  BY <1>1, ProtAlways, PoolAlways, PTL

(***************************************************************************)
(* No receive buffer is lost or counted twice, and the limit of the pool   *)
(* follows the connections and the startup cache.                          *)
(***************************************************************************)
THEOREM PoolIsAccounted == Spec => []PoolAccounting
<1>1. PoolInv => PoolAccounting
  BY DEF PoolInv
<1> QED
  BY <1>1, PoolAlways, PTL

(***************************************************************************)
(* The rx thread never finds the pool exhausted, and the pruning loop of   *)
(* teardown never an empty free list.                                      *)
(***************************************************************************)
THEOREM PoolIsNeverExhausted == Spec => []NeverOutOfBuffers
<1>1. PoolInv => NeverOutOfBuffers
  BY DEF PoolInv
<1> QED
  BY <1>1, PoolAlways, PTL
=============================================================================
