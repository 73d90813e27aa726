------------------------- MODULE UdpSendPoolProofs -------------------------
(***************************************************************************)
(* Proofs about UdpSendPool, for any number of connections, queue depths,  *)
(* and either flow-control method.                                         *)
(***************************************************************************)
EXTENDS UdpSendPool, FiniteSetTheorems, FunctionTheorems, TLAPS

(* A connection never has more outstanding than the receiver has room for. *)
CreditInv == \A c \in Conns : capacity[c] + unackQueue[c] <= QueueDepth

(* A connection that still has to end its stream has a number left for it. *)
PreparedInv ==
    \A c \in Conns :
        /\ stillActive[c]
        /\ pc \in {"run", "wait", "stops"} \/ (pc = "flush" /\ curBuff[c])
        => prepared[c] < MaxPkt

(* Only the connection that is waited for is without a current buffer, and *)
(* SendChunkUDP remembers that it has seen a stop.                         *)
BufferInv ==
    /\ pc \in {"run", "stops"} => \A c \in Conns : stillActive[c] => curBuff[c]
    /\ pc = "wait" => \A c \in Conns : stillActive[c] /\ c # cur => curBuff[c]
    /\ pc = "run" \/ (pc = "wait" /\ ~gotStops)
         => \A c \in Conns : ~(stillActive[c] /\ stopRequested[c])

(* The buffer that was given up for the one waited for is in a queue of    *)
(* the connection or, acknowledged, in the free list.                      *)
WaiterInv ==
    pc = "wait" => sndQueue[cur] + unackQueue[cur] > 0 \/ freeList > 0

IndInv ==
    /\ TypeOK
    /\ CreditInv
    /\ PreparedInv
    /\ BufferInv
    /\ WaiterInv
    /\ MinimumBandwidth

-----------------------------------------------------------------------------
(* The pool has room for the buffers the connections start with. *)
LEMMA Bounds ==
    /\ maxCount \in Nat /\ minCwnd \in Nat \ {0}
    /\ minCwnd <= maxCount
    /\ 0 \in Conns
<1>1. NumConns \in Nat \ {0} /\ SndQueueDepth \in Nat \ {0}
  BY PoolAssumption
<1>2. NumConns * SndQueueDepth \in Nat /\ NumConns * SndQueueDepth >= NumConns
  BY <1>1, SMTT(30)
<1> QED
  BY <1>1, <1>2 DEF maxCount, minCwnd, Conns

(* The changes of numSharedOutStanding are numbers. *)
LEMMA SharedType ==
    ASSUME NEW l \in Int, NEW h \in Int
    PROVE  SharedAdded(l, h) \in Nat /\ SharedRemoved(h, l) \in Nat
<1>1. IsFiniteSet((l + 1) .. h) /\ IsFiniteSet(l .. (h - 1))
  BY FS_Interval
<1>2. IsFiniteSet({n \in (l + 1) .. h : n > 1})
  BY <1>1, FS_Subset
<1>3. IsFiniteSet({n \in l .. (h - 1) : n >= 1})
  BY <1>1, FS_Subset
<1> QED
  BY <1>2, <1>3, FS_CardinalityType DEF SharedAdded, SharedRemoved

(* sendBuffers sends no more than the credit allows, and stops with        *)
(* nothing outstanding only for want of packets or of credit.              *)
LEMMA SendsFacts ==
    ASSUME NEW snd \in Nat, NEW unack \in Nat, NEW cap \in Nat,
           NEW isStarted, NEW shared, NEW wnd, NEW n,
           SendsBuffers(n, snd, unack, cap, isStarted, shared, wnd)
    PROVE  /\ n \in 0 .. snd
           /\ n <= cap
           /\ snd - n > 0 /\ unack + n = 0 => cap - n = 0
<1>1. n \in 0 .. snd
  BY DEF SendsBuffers
<1>2. n <= cap
  <2>1. CASE n = 0
    BY <2>1
  <2>2. CASE n > 0
    <3>1. n - 1 \in 0 .. (n - 1)
      BY <1>1, <2>2
    <3>2. ~Blocked(snd - (n - 1), unack + (n - 1), cap - (n - 1), isStarted,
                   shared + SharedAdded(unack, unack + (n - 1)), wnd)
      BY <3>1, Zenon DEF SendsBuffers
    <3>3. ~(cap - (n - 1) <= 0)
      BY <3>2 DEF Blocked
    <3> QED
      BY <1>1, <3>3
  <2> QED
    BY <1>1, <2>1, <2>2
<1>3. Blocked(snd - n, unack + n, cap - n, isStarted,
              shared + SharedAdded(unack, unack + n), wnd)
  BY Zenon DEF SendsBuffers
<1>4. snd - n > 0 /\ unack + n = 0 => cap - n <= 0
  BY <1>1, <1>3 DEF Blocked
<1> QED
  BY <1>1, <1>2, <1>4

(***************************************************************************)
(* What a step that changes only the queues of c has to show.              *)
(***************************************************************************)
QueuesOf(c, s, u, p) ==
    /\ s \in Nat /\ u \in Nat /\ p \in Nat
    /\ p + u <= QueueDepth
    /\ s > 0 /\ u = 0 => p = 0
    /\ sndQueue' = [sndQueue EXCEPT ![c] = s]
    /\ unackQueue' = [unackQueue EXCEPT ![c] = u]
    /\ capacity' = [capacity EXCEPT ![c] = p]

LEMMA QueueStep ==
    ASSUME IndInv, NEW c \in Conns, NEW s, NEW u, NEW p, QueuesOf(c, s, u, p)
    PROVE  /\ sndQueue' \in [Conns -> Nat]
           /\ unackQueue' \in [Conns -> Nat]
           /\ capacity' \in [Conns -> 0 .. QueueDepth]
           /\ CreditInv'
           /\ MinimumBandwidth'
<1> USE DEF QueuesOf
<1>0. QueueDepth \in Nat
  BY PoolAssumption
<1>1. /\ sndQueue \in [Conns -> Nat]
      /\ unackQueue \in [Conns -> Nat]
      /\ capacity \in [Conns -> 0 .. QueueDepth]
  BY DEF IndInv, TypeOK
<1>2. p \in 0 .. QueueDepth
  BY <1>0
<1>3. /\ sndQueue' \in [Conns -> Nat]
      /\ unackQueue' \in [Conns -> Nat]
      /\ capacity' \in [Conns -> 0 .. QueueDepth]
  BY <1>1, <1>2
<1>4. CreditInv'
  <2> SUFFICES ASSUME NEW d \in Conns
               PROVE  capacity'[d] + unackQueue'[d] <= QueueDepth
    BY DEF CreditInv
  <2>1. capacity[d] + unackQueue[d] <= QueueDepth
    BY DEF IndInv, CreditInv
  <2> QED
    BY <1>1, <2>1
<1>5. MinimumBandwidth'
  <2> SUFFICES ASSUME NEW d \in Conns, sndQueue'[d] > 0, unackQueue'[d] = 0
               PROVE  capacity'[d] = 0
    BY DEF MinimumBandwidth
  <2>1. sndQueue[d] > 0 /\ unackQueue[d] = 0 => capacity[d] = 0
    BY DEF IndInv, MinimumBandwidth
  <2> QED
    BY <1>1, <2>1
<1> QED
  BY <1>3, <1>4, <1>5

(* sendBuffers keeps the buffers of the connection in its two queues. *)
LEMMA SentQueues ==
    ASSUME NEW c \in Conns, NEW snd \in Nat, NEW unack \in Nat, NEW cap \in Nat,
           cap + unack <= QueueDepth,
           NEW isStarted, NEW out \in Int, NEW shared \in Int, NEW wnd,
           SendBuffers(c, snd, unack, cap, isStarted, out, shared, wnd)
    PROVE  /\ \E s, u, p : QueuesOf(c, s, u, p) /\ s + u = snd + unack
           /\ numOutStanding' \in Int
           /\ numSharedOutStanding' \in Int
<1>0. QueueDepth \in Nat
  BY PoolAssumption
<1>1. PICK n \in 0 .. snd :
        /\ SendsBuffers(n, snd, unack, cap, isStarted, shared, wnd)
        /\ sndQueue' = [sndQueue EXCEPT ![c] = snd - n]
        /\ unackQueue' = [unackQueue EXCEPT ![c] = unack + n]
        /\ capacity' = [capacity EXCEPT ![c] = cap - n]
        /\ numOutStanding' = out + (IF Loss THEN n ELSE 0)
        /\ numSharedOutStanding' =
             shared + (IF Loss THEN SharedAdded(unack, unack + n) ELSE 0)
  BY Zenon DEF SendBuffers
<1>2. /\ n <= cap
      /\ snd - n > 0 /\ unack + n = 0 => cap - n = 0
  BY <1>1, SendsFacts
<1>3. /\ snd - n \in Nat /\ unack + n \in Nat /\ cap - n \in Nat
      /\ (cap - n) + (unack + n) <= QueueDepth
      /\ (snd - n) + (unack + n) = snd + unack
  BY <1>0, <1>2
<1>4. QueuesOf(c, snd - n, unack + n, cap - n)
  BY <1>1, <1>2, <1>3 DEF QueuesOf
<1>5. unack \in Int /\ unack + n \in Int
  OBVIOUS
<1>6. SharedAdded(unack, unack + n) \in Nat
  BY <1>5, SharedType
<1>7. numOutStanding' \in Int /\ numSharedOutStanding' \in Int
  BY <1>1, <1>6
<1> QED
  BY <1>3, <1>4, <1>7, Zenon

(* A window that grows stays within its limits ... *)
LEMMA GrownBounds ==
    ASSUME TypeOK, NEW k \in Nat, NEW wnd \in Grown(k)
    PROVE  wnd \in minCwnd .. maxCount
BY Bounds DEF TypeOK, Grown

(* ... and so does one that is halved. *)
LEMMA HalvedBounds ==
    ASSUME NEW wnd \in minCwnd .. maxCount
    PROVE  Halved(wnd) \in minCwnd .. maxCount
<1>1. wnd \in Nat \ {0} /\ minCwnd \in Nat /\ maxCount \in Nat
  BY Bounds
<1> DEFINE h == (wnd + 1) \div 2
<1>2. h \in Nat /\ h <= wnd
  BY <1>1, SMTT(30)
<1> HIDE DEF h
<1>3. \E x \in {h, minCwnd} : \A y \in {h, minCwnd} : x >= y
  <2>1. CASE h >= minCwnd
    BY <1>1, <1>2, <2>1
  <2>2. CASE ~(h >= minCwnd)
    BY <1>1, <1>2, <2>2
  <2> QED
    BY <2>1, <2>2
<1>4. /\ Max({h, minCwnd}) \in {h, minCwnd}
      /\ Max({h, minCwnd}) >= minCwnd
  BY <1>3, Zenon DEF Max
<1>5. Halved(wnd) = Max({h, minCwnd})
  BY DEF Halved, h
<1> QED
  BY <1>1, <1>2, <1>4, <1>5

-----------------------------------------------------------------------------
(***************************************************************************)
(* An acknowledgment moves buffers from the unack queue to the free list   *)
(* and from the send to the unack queue, and no more than the credit.      *)
(***************************************************************************)
LEMMA AckStep ==
    ASSUME IndInv, NEW c \in Conns, NEW k \in 0 .. unackQueue[c],
           NEW m \in 0 .. Unreported(c, k), NEW wnd \in minCwnd .. maxCount,
           NEW send \in BOOLEAN, k > 0 \/ m > 0 => send,
           AckedPackets(c, k, m, wnd, send), UNCHANGED <<pc, cur>>
    PROVE  /\ sndQueue' \in [Conns -> Nat]
           /\ unackQueue' \in [Conns -> Nat]
           /\ capacity' \in [Conns -> 0 .. QueueDepth]
           /\ started' \in [Conns -> BOOLEAN]
           /\ freeList' \in Nat
           /\ cwnd' \in minCwnd .. maxCount
           /\ numOutStanding' \in Int
           /\ numSharedOutStanding' \in Int
           /\ CreditInv'
           /\ MinimumBandwidth'
           /\ WaiterInv'
<1> DEFINE unack == unackQueue[c] - k
           out == numOutStanding - (IF Loss THEN k ELSE 0)
           shared == numSharedOutStanding -
                       (IF Loss THEN SharedRemoved(unackQueue[c], unack) ELSE 0)
           isStarted == started[c] \/ k > 0
<1>0. QueueDepth \in Nat
  BY PoolAssumption
<1>1. /\ sndQueue \in [Conns -> Nat]
      /\ unackQueue \in [Conns -> Nat]
      /\ capacity \in [Conns -> 0 .. QueueDepth]
      /\ started \in [Conns -> BOOLEAN]
      /\ freeList \in Nat
      /\ numOutStanding \in Int /\ numSharedOutStanding \in Int
      /\ cur \in Conns
  BY DEF IndInv, TypeOK
<1>2. /\ sndQueue[c] \in Nat /\ unackQueue[c] \in Nat
      /\ capacity[c] \in Nat
  BY <1>0, <1>1
<1>3. /\ freeList' = freeList + k
      /\ started' = [started EXCEPT ![c] = isStarted]
      /\ cwnd' = wnd
  BY Zenon DEF AckedPackets
<1>4. /\ unack \in Nat /\ capacity[c] + m \in Nat /\ k \in Nat
      /\ (capacity[c] + m) + unack <= QueueDepth
  BY <1>0, <1>2 DEF Unreported
<1>5. SharedRemoved(unackQueue[c], unack) \in Nat
  <2>1. unack \in Int /\ unackQueue[c] \in Int
    BY <1>2, <1>4
  <2> QED
    BY <2>1, SharedType
<1>6. out \in Int /\ shared \in Int
  BY <1>1, <1>4, <1>5
<1>7. /\ \E s, u, p : QueuesOf(c, s, u, p) /\ s + u = sndQueue[c] + unack
      /\ numOutStanding' \in Int
      /\ numSharedOutStanding' \in Int
  <2>1. CASE send
    <3>1. SendBuffers(c, sndQueue[c], unack, capacity[c] + m, isStarted,
                      out, shared, wnd)
      BY <2>1, Zenon DEF AckedPackets
    <3> HIDE DEF unack, out, shared, isStarted
    <3> QED
      BY <1>2, <1>4, <1>6, <3>1, SentQueues
  <2>2. CASE ~send
    <3>1. /\ unackQueue' = [unackQueue EXCEPT ![c] = unack]
          /\ capacity' = [capacity EXCEPT ![c] = capacity[c] + m]
          /\ numOutStanding' = out
          /\ numSharedOutStanding' = shared
          /\ sndQueue' = sndQueue
      BY <2>2 DEF AckedPackets
    <3>2. k = 0 /\ m = 0
      <4>1. m \in Int
        OBVIOUS
      <4> QED
        BY <1>4, <2>2, <4>1
    <3>3. unack = unackQueue[c] /\ capacity[c] + m = capacity[c]
      BY <1>2, <3>2
    <3>4. sndQueue' = [sndQueue EXCEPT ![c] = sndQueue[c]]
      BY <1>1, <3>1
    <3>5. sndQueue[c] > 0 /\ unack = 0 => capacity[c] + m = 0
      BY <3>3 DEF IndInv, MinimumBandwidth
    <3>6. QueuesOf(c, sndQueue[c], unack, capacity[c] + m)
      <4> HIDE DEF unack
      <4> QED
        BY <1>2, <1>4, <3>1, <3>4, <3>5 DEF QueuesOf
    <3> HIDE DEF unack, out, shared
    <3> QED
      BY <1>6, <3>1, <3>6, Zenon
  <2> QED
    BY <2>1, <2>2
<1>8. PICK s, u, p : QueuesOf(c, s, u, p) /\ s + u = sndQueue[c] + unack
  BY <1>7, Zenon
<1>9. /\ sndQueue' \in [Conns -> Nat]
      /\ unackQueue' \in [Conns -> Nat]
      /\ capacity' \in [Conns -> 0 .. QueueDepth]
      /\ CreditInv'
      /\ MinimumBandwidth'
  BY <1>8, QueueStep
<1>10. started' \in [Conns -> BOOLEAN]
  BY <1>1, <1>3
<1>11. WaiterInv'
  <2> SUFFICES ASSUME pc = "wait"
               PROVE  sndQueue'[cur] + unackQueue'[cur] > 0 \/ freeList' > 0
    BY DEF WaiterInv
  <2>1. sndQueue[cur] + unackQueue[cur] > 0 \/ freeList > 0
    BY DEF IndInv, WaiterInv
  <2>2. CASE cur = c
    <3>1. sndQueue'[c] = s /\ unackQueue'[c] = u /\ s \in Nat /\ u \in Nat
      BY <1>1, <1>8 DEF QueuesOf
    <3> QED
      BY <1>1, <1>2, <1>3, <1>4, <1>8, <2>1, <2>2, <3>1
  <2>3. CASE cur # c
    <3>1. sndQueue'[cur] = sndQueue[cur] /\ unackQueue'[cur] = unackQueue[cur]
      BY <1>1, <1>8, <2>3 DEF QueuesOf
    <3> QED
      BY <1>1, <1>3, <1>4, <2>1, <3>1
  <2> QED
    BY <2>2, <2>3
<1> QED
  BY <1>1, <1>3, <1>4, <1>7, <1>9, <1>10, <1>11

-----------------------------------------------------------------------------
(* The first buffers of the connections are taken from the pool. *)
LEMMA InitInv == Init => IndInv
<1> SUFFICES ASSUME Init PROVE IndInv
  OBVIOUS
<1>1. TypeOK
  <2>1. /\ QueueDepth \in 0 .. QueueDepth /\ 0 \in 0 .. MaxPkt
        /\ NumConns \in 0 .. maxCount
        /\ minCwnd \in minCwnd .. maxCount
    BY PoolAssumption, Bounds DEF minCwnd
  <2>2. /\ sndQueue \in [Conns -> Nat] /\ unackQueue \in [Conns -> Nat]
        /\ prepared \in [Conns -> 0 .. MaxPkt]
    BY <2>1 DEF Init
  <2>3. capacity \in [Conns -> 0 .. QueueDepth]
    BY <2>1 DEF Init
  <2>4. /\ curBuff \in [Conns -> BOOLEAN] /\ started \in [Conns -> BOOLEAN]
        /\ stillActive \in [Conns -> BOOLEAN]
        /\ stopRequested \in [Conns -> BOOLEAN]
        /\ queried \in [Conns -> BOOLEAN]
    BY DEF Init
  <2>5. /\ pc = "run" /\ cur = 0 /\ gotStops = FALSE /\ freeList = 0
        /\ count = NumConns /\ cwnd = minCwnd
        /\ numOutStanding = 0 /\ numSharedOutStanding = 0
    BY DEF Init
  <2>6. /\ cur \in Conns /\ freeList \in Nat /\ count \in 0 .. maxCount
        /\ cwnd \in minCwnd .. maxCount
        /\ numOutStanding \in Int /\ numSharedOutStanding \in Int
    BY <2>1, <2>5, Bounds
  <2> QED
    BY <2>2, <2>3, <2>4, <2>5, <2>6, Zenon DEF TypeOK
<1>2. CreditInv /\ PreparedInv /\ BufferInv /\ WaiterInv /\ MinimumBandwidth
  BY PoolAssumption DEF Init, CreditInv, PreparedInv, BufferInv, WaiterInv,
     MinimumBandwidth
<1> QED
  BY <1>1, <1>2 DEF IndInv

(* prepareXmit and sendBuffers: the packet is in one of the two queues. *)
LEMMA PrepareStep ==
    ASSUME IndInv, NEW c \in Conns, PrepareAndSend(c), prepared[c] < MaxPkt
    PROVE  /\ sndQueue' \in [Conns -> Nat]
           /\ unackQueue' \in [Conns -> Nat]
           /\ capacity' \in [Conns -> 0 .. QueueDepth]
           /\ prepared' = [prepared EXCEPT ![c] = prepared[c] + 1]
           /\ prepared' \in [Conns -> 0 .. MaxPkt]
           /\ numOutStanding' \in Int
           /\ numSharedOutStanding' \in Int
           /\ CreditInv'
           /\ MinimumBandwidth'
           /\ sndQueue'[c] + unackQueue'[c] > 0
<1>0. QueueDepth \in Nat /\ MaxPkt \in Nat
  BY PoolAssumption
<1>1. /\ sndQueue \in [Conns -> Nat]
      /\ unackQueue \in [Conns -> Nat]
      /\ capacity \in [Conns -> 0 .. QueueDepth]
      /\ prepared \in [Conns -> 0 .. MaxPkt]
      /\ numOutStanding \in Int /\ numSharedOutStanding \in Int
  BY DEF IndInv, TypeOK
<1>2. /\ sndQueue[c] + 1 \in Nat /\ unackQueue[c] \in Nat
      /\ capacity[c] \in Nat
      /\ capacity[c] + unackQueue[c] <= QueueDepth
  BY <1>0, <1>1 DEF IndInv, CreditInv
<1>3. SendBuffers(c, sndQueue[c] + 1, unackQueue[c], capacity[c], started[c],
                  numOutStanding, numSharedOutStanding, cwnd)
  BY Zenon DEF PrepareAndSend
<1>4. /\ \E s, u, p : QueuesOf(c, s, u, p)
                        /\ s + u = (sndQueue[c] + 1) + unackQueue[c]
      /\ numOutStanding' \in Int
      /\ numSharedOutStanding' \in Int
  BY <1>1, <1>2, <1>3, SentQueues
<1>5. PICK s, u, p : QueuesOf(c, s, u, p)
                       /\ s + u = (sndQueue[c] + 1) + unackQueue[c]
  BY <1>4, Zenon
<1>6. sndQueue'[c] = s /\ unackQueue'[c] = u
  BY <1>1, <1>5 DEF QueuesOf
<1>7. sndQueue'[c] + unackQueue'[c] > 0
  BY <1>1, <1>5, <1>6
<1>8. /\ prepared' = [prepared EXCEPT ![c] = prepared[c] + 1]
      /\ prepared' \in [Conns -> 0 .. MaxPkt]
  BY <1>0, <1>1 DEF PrepareAndSend
<1> QED
  BY <1>4, <1>5, <1>7, <1>8, QueueStep

(* SendChunkUDP gives up the buffer of c and waits for another. *)
LEMMA SendChunkInv == ASSUME IndInv, NEW c \in Conns, SendChunk(c) PROVE IndInv'
<1>0. MaxPkt \in Nat
  BY PoolAssumption
<1>1. /\ prepared \in [Conns -> 0 .. MaxPkt]
      /\ curBuff \in [Conns -> BOOLEAN]
  BY DEF IndInv, TypeOK
<1>2. prepared[c] < MaxPkt - 1
  BY DEF SendChunk
<1>3. prepared[c] < MaxPkt
  BY <1>0, <1>1, <1>2
<1>4. PrepareAndSend(c)
  BY DEF SendChunk
<1>5. TypeOK'
  BY <1>1, <1>3, <1>4, PrepareStep DEF IndInv, TypeOK, SendChunk
<1>6. CreditInv' /\ MinimumBandwidth'
  BY <1>3, <1>4, PrepareStep
<1>7. PreparedInv'
  <2>1. prepared' = [prepared EXCEPT ![c] = prepared[c] + 1]
    BY <1>3, <1>4, PrepareStep
  <2> QED
    BY <1>0, <1>1, <1>2, <2>1 DEF IndInv, PreparedInv, SendChunk
<1>8. BufferInv'
  BY <1>1 DEF IndInv, BufferInv, SendChunk
<1>9. WaiterInv'
  <2>1. sndQueue'[c] + unackQueue'[c] > 0
    BY <1>3, <1>4, PrepareStep
  <2> QED
    BY <2>1 DEF WaiterInv, SendChunk
<1> QED
  BY <1>5, <1>6, <1>7, <1>8, <1>9 DEF IndInv

(* The wait ends with a buffer for the connection. *)
LEMMA GetBufferInv == ASSUME IndInv, GetBuffer PROVE IndInv'
<1>1. /\ curBuff \in [Conns -> BOOLEAN]
      /\ freeList \in Nat /\ count \in 0 .. maxCount
      /\ cur \in Conns
  BY DEF IndInv, TypeOK
<1>2. /\ pc = "wait" /\ pc' \in {"run", "stops"} /\ (gotStops => pc' = "stops")
      /\ curBuff' = [curBuff EXCEPT ![cur] = TRUE]
      /\ UNCHANGED <<cur, gotStops, sndQueue, unackQueue, capacity, started,
                     stillActive, stopRequested, prepared, queried, cwnd,
                     numOutStanding, numSharedOutStanding>>
  BY DEF GetBuffer
<1>3. freeList' \in Nat /\ count' \in 0 .. maxCount
  BY <1>1, Bounds DEF GetBuffer, BufferAvailable, TakeBuffer
<1>4. TypeOK'
  BY <1>1, <1>2, <1>3 DEF IndInv, TypeOK
<1>5. CreditInv' /\ MinimumBandwidth' /\ WaiterInv'
  BY <1>2 DEF IndInv, CreditInv, MinimumBandwidth, WaiterInv
<1>6. PreparedInv'
  BY <1>2 DEF IndInv, PreparedInv
<1>7. BufferInv'
  BY <1>1, <1>2 DEF IndInv, BufferInv
<1> QED
  BY <1>4, <1>5, <1>6, <1>7 DEF IndInv

(* Returned buffers of c leave its queues empty. *)
LEMMA ReturnStep ==
    ASSUME IndInv, NEW c \in Conns, NEW extra \in Nat, ReturnBuffers(c, extra),
           UNCHANGED capacity
    PROVE  /\ sndQueue' \in [Conns -> Nat]
           /\ unackQueue' \in [Conns -> Nat]
           /\ freeList' \in Nat
           /\ numOutStanding' \in Int
           /\ numSharedOutStanding' \in Int
           /\ CreditInv'
           /\ MinimumBandwidth'
<1>0. QueueDepth \in Nat
  BY PoolAssumption
<1>1. /\ sndQueue \in [Conns -> Nat]
      /\ unackQueue \in [Conns -> Nat]
      /\ capacity \in [Conns -> 0 .. QueueDepth]
      /\ freeList \in Nat
      /\ numOutStanding \in Int /\ numSharedOutStanding \in Int
  BY DEF IndInv, TypeOK
<1>2. capacity' = [capacity EXCEPT ![c] = capacity[c]]
  BY <1>1
<1>3. QueuesOf(c, 0, 0, capacity[c])
  <2>1. capacity[c] \in Nat /\ capacity[c] + 0 <= QueueDepth
    BY <1>0, <1>1
  <2>2. /\ sndQueue' = [sndQueue EXCEPT ![c] = 0]
        /\ unackQueue' = [unackQueue EXCEPT ![c] = 0]
    BY DEF ReturnBuffers
  <2>3. 0 \in Nat /\ ~(0 > 0)
    OBVIOUS
  <2> QED
    BY <1>2, <2>1, <2>2, <2>3, Zenon DEF QueuesOf
<1>4. SharedRemoved(unackQueue[c], 0) \in Nat
  <2>1. unackQueue[c] \in Int /\ 0 \in Int
    BY <1>1
  <2> QED
    BY <2>1, SharedType
<1>5. freeList' \in Nat /\ numOutStanding' \in Int /\ numSharedOutStanding' \in Int
  BY <1>1, <1>4 DEF ReturnBuffers
<1> QED
  BY <1>3, <1>5, QueueStep

(* handleStopMsgs ends the stream of c. *)
LEMMA HandleStopInv ==
    ASSUME IndInv, NEW c \in Conns, HandleStopMsg(c) PROVE IndInv'
<1>0. MaxPkt \in Nat
  BY PoolAssumption
<1>1. /\ prepared \in [Conns -> 0 .. MaxPkt]
      /\ curBuff \in [Conns -> BOOLEAN]
      /\ started \in [Conns -> BOOLEAN]
      /\ stillActive \in [Conns -> BOOLEAN]
      /\ stopRequested \in [Conns -> BOOLEAN]
  BY DEF IndInv, TypeOK
<1>2. /\ pc = "stops" /\ stillActive[c]
      /\ prepared' = [prepared EXCEPT ![c] = prepared[c] + 1]
      /\ started' = [started EXCEPT ![c] = TRUE]
      /\ curBuff' = [curBuff EXCEPT ![c] = FALSE]
      /\ stillActive' = [stillActive EXCEPT ![c] = FALSE]
      /\ stopRequested' = [stopRequested EXCEPT ![c] = FALSE]
      /\ UNCHANGED <<pc, cur, gotStops, capacity, queried, count, cwnd>>
  BY DEF HandleStopMsg
<1>3. prepared[c] < MaxPkt
  BY <1>2 DEF IndInv, PreparedInv
<1>4. /\ sndQueue' \in [Conns -> Nat]
      /\ unackQueue' \in [Conns -> Nat]
      /\ freeList' \in Nat
      /\ numOutStanding' \in Int
      /\ numSharedOutStanding' \in Int
      /\ CreditInv'
      /\ MinimumBandwidth'
  <2>1. (IF curBuff[c] THEN 1 ELSE 0) \in Nat
    OBVIOUS
  <2>2. ReturnBuffers(c, IF curBuff[c] THEN 1 ELSE 0)
    BY DEF HandleStopMsg
  <2> QED
    BY <1>2, <2>1, <2>2, ReturnStep
<1>5. prepared' \in [Conns -> 0 .. MaxPkt]
  BY <1>0, <1>1, <1>2, <1>3
<1>6. TypeOK'
  BY <1>1, <1>2, <1>4, <1>5 DEF IndInv, TypeOK
<1>7. PreparedInv'
  BY <1>1, <1>2 DEF IndInv, PreparedInv
<1>8. BufferInv'
  BY <1>1, <1>2 DEF IndInv, BufferInv
<1>9. WaiterInv'
  BY <1>2 DEF WaiterInv
<1> QED
  BY <1>4, <1>6, <1>7, <1>8, <1>9 DEF IndInv

(* SendEosUDP sends the last packet of c. *)
LEMMA FlushEosInv == ASSUME IndInv, NEW c \in Conns, FlushEos(c) PROVE IndInv'
<1>0. MaxPkt \in Nat
  BY PoolAssumption
<1>1. /\ prepared \in [Conns -> 0 .. MaxPkt]
      /\ curBuff \in [Conns -> BOOLEAN]
  BY DEF IndInv, TypeOK
<1>2. prepared[c] < MaxPkt
  BY DEF IndInv, PreparedInv, FlushEos
<1>3. PrepareAndSend(c)
  BY DEF FlushEos
<1>4. TypeOK'
  BY <1>1, <1>2, <1>3, PrepareStep DEF IndInv, TypeOK, FlushEos
<1>5. CreditInv' /\ MinimumBandwidth'
  BY <1>2, <1>3, PrepareStep
<1>6. PreparedInv'
  <2>1. prepared' = [prepared EXCEPT ![c] = prepared[c] + 1]
    BY <1>2, <1>3, PrepareStep
  <2> QED
    BY <1>1, <2>1 DEF IndInv, PreparedInv, FlushEos
<1>7. BufferInv' /\ WaiterInv'
  BY DEF BufferInv, WaiterInv, FlushEos
<1> QED
  BY <1>4, <1>5, <1>6, <1>7 DEF IndInv

(* SendEosUDP goes to the next connection. *)
LEMMA EosNextInv == ASSUME IndInv, EosNext PROVE IndInv'
<1>1. NumConns \in Nat \ {0} /\ cur \in 0 .. (NumConns - 1)
  BY PoolAssumption DEF IndInv, TypeOK, Conns
<1>2. (cur + 1) % NumConns \in 0 .. (NumConns - 1)
  BY <1>1, SMTT(30)
<1>3. /\ pc = "eos" /\ pc' \in {"done", "eos"}
      /\ cur' \in Conns
      /\ stillActive' \in [Conns -> BOOLEAN]
      /\ UNCHANGED <<gotStops, curBuff, sndQueue, unackQueue, capacity, started,
                     stopRequested, prepared, queried, freeList, count, cwnd,
                     numOutStanding, numSharedOutStanding>>
  BY <1>2 DEF IndInv, TypeOK, EosNext, Conns, sharedVars
<1>4. TypeOK'
  BY <1>3 DEF IndInv, TypeOK
<1>5. CreditInv' /\ MinimumBandwidth'
  BY <1>3 DEF IndInv, CreditInv, MinimumBandwidth
<1>6. PreparedInv' /\ BufferInv' /\ WaiterInv'
  BY <1>3 DEF PreparedInv, BufferInv, WaiterInv
<1> QED
  BY <1>4, <1>5, <1>6 DEF IndInv

(* A regular acknowledgment, which may carry a stop. *)
LEMMA HandleAckInv ==
    ASSUME IndInv, NEW c \in Conns, NEW k, NEW m, NEW stop \in BOOLEAN,
           HandleAck(c, k, m, stop)
    PROVE  IndInv'
<1> DEFINE stops == stop /\ stillActive[c] /\ ~stopRequested[c]
<1>1. /\ unackQueue \in [Conns -> Nat]
      /\ stopRequested \in [Conns -> BOOLEAN]
      /\ queried \in [Conns -> BOOLEAN]
      /\ gotStops \in BOOLEAN
  BY DEF IndInv, TypeOK
<1>2. /\ k \in 0 .. unackQueue[c]
      /\ m \in 0 .. Unreported(c, k)
      /\ pc \in {"wait", "stops", "eos"}
      /\ stopRequested' = [stopRequested EXCEPT ![c] = stopRequested[c] \/ stops]
      /\ gotStops' = (gotStops \/ (stops /\ pc = "wait"))
      /\ queried' = [queried EXCEPT ![c] = queried[c] /\ m = 0]
      /\ UNCHANGED <<pc, cur, curBuff, stillActive, prepared, count>>
  BY DEF HandleAck, Polling
<1>3. PICK wnd \in Grown(k), send \in BOOLEAN :
         /\ k > 0 \/ m > 0 => send
         /\ AckedPackets(c, k, m, wnd, send)
  BY Zenon DEF HandleAck
<1>4. wnd \in minCwnd .. maxCount
  <2>1. k \in Nat
    BY <1>1, <1>2
  <2> QED
    BY <2>1, GrownBounds DEF IndInv
<1>5. /\ sndQueue' \in [Conns -> Nat]
      /\ unackQueue' \in [Conns -> Nat]
      /\ capacity' \in [Conns -> 0 .. QueueDepth]
      /\ started' \in [Conns -> BOOLEAN]
      /\ freeList' \in Nat
      /\ cwnd' \in minCwnd .. maxCount
      /\ numOutStanding' \in Int
      /\ numSharedOutStanding' \in Int
      /\ CreditInv'
      /\ MinimumBandwidth'
      /\ WaiterInv'
  BY <1>2, <1>3, <1>4, AckStep
<1>6. /\ stopRequested' \in [Conns -> BOOLEAN]
      /\ queried' \in [Conns -> BOOLEAN]
      /\ gotStops' \in BOOLEAN
  BY <1>1, <1>2
<1>7. TypeOK'
  BY <1>2, <1>5, <1>6 DEF IndInv, TypeOK
<1>8. PreparedInv'
  BY <1>2 DEF IndInv, PreparedInv
<1>9. BufferInv'
  <2>1. /\ pc' \in {"run", "stops"} => \A d \in Conns : stillActive'[d] => curBuff'[d]
        /\ pc' = "wait" => \A d \in Conns : stillActive'[d] /\ d # cur' => curBuff'[d]
    BY <1>2 DEF IndInv, BufferInv
  <2>2. pc' = "wait" /\ ~gotStops'
          => \A d \in Conns : ~(stillActive'[d] /\ stopRequested'[d])
    <3> SUFFICES ASSUME pc = "wait", ~gotStops', NEW d \in Conns
                 PROVE  ~(stillActive[d] /\ stopRequested'[d])
      BY <1>2, Zenon
    <3>1. ~gotStops /\ ~stops
      BY <1>2, Zenon
    <3>2. stopRequested'[d] = stopRequested[d]
      BY <1>1, <1>2, <3>1
    <3>3. ~(stillActive[d] /\ stopRequested[d])
      BY <3>1 DEF IndInv, BufferInv
    <3> QED
      BY <3>2, <3>3
  <2>3. pc' # "run"
    BY <1>2
  <2> QED
    BY <2>1, <2>2, <2>3 DEF BufferInv
<1> QED
  BY <1>5, <1>7, <1>8, <1>9 DEF IndInv

(* An acknowledgment of packets received out of order. *)
LEMMA HandleDisorderInv ==
    ASSUME IndInv, NEW c \in Conns, NEW k, HandleDisorderAck(c, k)
    PROVE  IndInv'
<1>0. QueueDepth \in Nat
  BY PoolAssumption
<1>1. /\ unackQueue \in [Conns -> Nat]
      /\ capacity \in [Conns -> 0 .. QueueDepth]
  BY DEF IndInv, TypeOK
<1>2. /\ k \in 0 .. unackQueue[c]
      /\ UNCHANGED <<pc, cur, gotStops, curBuff, stillActive, stopRequested,
                     prepared, queried, count>>
  BY DEF HandleDisorderAck
<1>3. 0 \in 0 .. Unreported(c, k)
  BY <1>0, <1>1, <1>2 DEF Unreported, IndInv, CreditInv
<1>4. PICK w \in Grown(k), send \in BOOLEAN :
         /\ k > 0 => send
         /\ AckedPackets(c, k, 0, IF Loss THEN Halved(w) ELSE w, send)
  BY Zenon DEF HandleDisorderAck
<1>5. (IF Loss THEN Halved(w) ELSE w) \in minCwnd .. maxCount
  <2>1. k \in Nat
    BY <1>1, <1>2
  <2>2. w \in minCwnd .. maxCount
    BY <2>1, GrownBounds DEF IndInv
  <2> QED
    BY <2>2, HalvedBounds
<1>6. k > 0 \/ 0 > 0 => send
  BY <1>4
<1>7. /\ sndQueue' \in [Conns -> Nat]
      /\ unackQueue' \in [Conns -> Nat]
      /\ capacity' \in [Conns -> 0 .. QueueDepth]
      /\ started' \in [Conns -> BOOLEAN]
      /\ freeList' \in Nat
      /\ cwnd' \in minCwnd .. maxCount
      /\ numOutStanding' \in Int
      /\ numSharedOutStanding' \in Int
      /\ CreditInv'
      /\ MinimumBandwidth'
      /\ WaiterInv'
  BY <1>2, <1>3, <1>4, <1>5, <1>6, AckStep
<1>8. TypeOK'
  BY <1>2, <1>7 DEF IndInv, TypeOK
<1>9. PreparedInv' /\ BufferInv'
  BY <1>2 DEF IndInv, PreparedInv, BufferInv
<1> QED
  BY <1>7, <1>8, <1>9 DEF IndInv

(* TeardownUDPInterconnect returns the buffers of c. *)
LEMMA TeardownConnInv ==
    ASSUME IndInv, NEW c \in Conns, TeardownConn(c) PROVE IndInv'
<1>1. /\ pc = "teardown"
      /\ ReturnBuffers(c, 0)
      /\ UNCHANGED <<pc, cur, gotStops, curBuff, capacity, started, stillActive,
                     stopRequested, prepared, queried, count, cwnd>>
  BY DEF TeardownConn
<1>2. /\ sndQueue' \in [Conns -> Nat]
      /\ unackQueue' \in [Conns -> Nat]
      /\ freeList' \in Nat
      /\ numOutStanding' \in Int
      /\ numSharedOutStanding' \in Int
      /\ CreditInv'
      /\ MinimumBandwidth'
  <2>1. 0 \in Nat
    OBVIOUS
  <2> QED
    BY <1>1, <2>1, ReturnStep
<1>3. TypeOK'
  BY <1>1, <1>2 DEF IndInv, TypeOK
<1>4. PreparedInv' /\ BufferInv' /\ WaiterInv'
  BY <1>1 DEF PreparedInv, BufferInv, WaiterInv
<1> QED
  BY <1>2, <1>3, <1>4 DEF IndInv

(* cleanSndBufferPool frees the pool. *)
LEMMA TeardownInv == ASSUME IndInv, Teardown PROVE IndInv'
<1>1. TypeOK'
  BY Bounds DEF IndInv, TypeOK, Teardown
<1>2. CreditInv' /\ MinimumBandwidth'
  BY DEF IndInv, CreditInv, MinimumBandwidth, Teardown
<1>3. PreparedInv' /\ BufferInv' /\ WaiterInv'
  BY DEF PreparedInv, BufferInv, WaiterInv, Teardown
<1> QED
  BY <1>1, <1>2, <1>3 DEF IndInv

(* Steps that touch only the control state, the window or the query flag. *)
LEMMA ControlInv ==
    ASSUME IndInv,
           \/ StopsHandled \/ SendEos \/ Flushed \/ CheckExpiration
           \/ CheckDeadlock \/ Leave
    PROVE  IndInv'
<1> USE DEF connVars, sharedVars
<1>1. CASE StopsHandled
  BY <1>1 DEF IndInv, TypeOK, CreditInv, PreparedInv, BufferInv, WaiterInv,
     MinimumBandwidth, StopsHandled
<1>2. CASE SendEos
  BY <1>2 DEF IndInv, TypeOK, CreditInv, PreparedInv, BufferInv, WaiterInv,
     MinimumBandwidth, SendEos
<1>3. CASE Flushed
  BY <1>3, Bounds DEF IndInv, TypeOK, CreditInv, PreparedInv, BufferInv,
     WaiterInv, MinimumBandwidth, Flushed
<1>4. CASE CheckExpiration
  BY <1>4, Bounds DEF IndInv, TypeOK, CreditInv, PreparedInv, BufferInv,
     WaiterInv, MinimumBandwidth, CheckExpiration
<1>5. CASE CheckDeadlock
  BY <1>5 DEF IndInv, TypeOK, CreditInv, PreparedInv, BufferInv, WaiterInv,
     MinimumBandwidth, CheckDeadlock
<1>6. CASE Leave
  BY <1>6 DEF IndInv, TypeOK, CreditInv, PreparedInv, BufferInv, WaiterInv,
     MinimumBandwidth, Leave
<1> QED
  BY <1>1, <1>2, <1>3, <1>4, <1>5, <1>6

-----------------------------------------------------------------------------
(* Every step of the sender keeps the inductive invariant. *)
LEMMA NextInv == IndInv /\ [Next]_vars => IndInv'
<1> SUFFICES ASSUME IndInv, [Next]_vars PROVE IndInv'
  OBVIOUS
<1>1. CASE \E c \in Conns : SendChunk(c)
  BY <1>1, SendChunkInv
<1>2. CASE GetBuffer
  BY <1>2, GetBufferInv
<1>3. CASE \E c \in Conns : HandleStopMsg(c)
  BY <1>3, HandleStopInv
<1>4. CASE \/ StopsHandled \/ SendEos \/ Flushed \/ CheckExpiration
           \/ CheckDeadlock \/ Leave
  BY <1>4, ControlInv
<1>5. CASE \E c \in Conns : FlushEos(c)
  BY <1>5, FlushEosInv
<1>6. CASE EosNext
  BY <1>6, EosNextInv
<1>7. CASE HandleAcks
  BY <1>7, HandleAckInv, HandleDisorderInv, Zenon DEF HandleAcks
<1>8. CASE \E c \in Conns : TeardownConn(c)
  BY <1>8, TeardownConnInv
<1>9. CASE Teardown
  BY <1>9, TeardownInv
<1>10. CASE UNCHANGED vars
  BY <1>10 DEF vars, connVars, sharedVars, IndInv, TypeOK, CreditInv,
     PreparedInv, BufferInv, WaiterInv, MinimumBandwidth
<1> QED
  BY <1>1, <1>2, <1>3, <1>4, <1>5, <1>6, <1>7, <1>8, <1>9, <1>10, Zenon DEF Next

(***************************************************************************)
(* The inductive invariant of the sender holds in every reachable state,   *)
(* for any number of connections and buffers.                              *)
(***************************************************************************)
THEOREM Invariance == Spec => []IndInv
<1>1. Init => IndInv
  BY InitInv
<1>2. IndInv /\ [Next]_vars => IndInv'
  BY NextInv
<1> QED
  BY <1>1, <1>2, PTL DEF Spec

(***************************************************************************)
(* The variables keep their types; above all the pool never allocates more *)
(* than maxCount buffers, the credit of a connection stays within the      *)
(* receiver's queue, and the congestion window within its limits.          *)
(***************************************************************************)
THEOREM TypeCorrect == Spec => []TypeOK
<1>1. IndInv => TypeOK
  BY DEF IndInv
<1> QED
  BY <1>1, Invariance, PTL

(***************************************************************************)
(* The congestion window never silences a connection: with packets to send *)
(* and none outstanding it lacks only the receiver's credit (sendBuffers). *)
(***************************************************************************)
THEOREM MinimumBandwidthHolds == Spec => []MinimumBandwidth
<1>1. IndInv => MinimumBandwidth
  BY DEF IndInv
<1> QED
  BY <1>1, Invariance, PTL

(***************************************************************************)
(* The Assert of handleStopMsgs: an active connection whose stop is        *)
(* handled has a current buffer; and no stop is forgotten.                 *)
(***************************************************************************)
THEOREM ActiveHasBufferHolds == Spec => []ActiveHasBuffer
<1>1. IndInv => ActiveHasBuffer
  BY DEF IndInv, BufferInv, ActiveHasBuffer
<1> QED
  BY <1>1, Invariance, PTL

(***************************************************************************)
(* Whoever waits for a send buffer has a buffer in flight or queued on the *)
(* same connection, so its own acknowledgments can end the wait.           *)
(***************************************************************************)
THEOREM WaiterHoldsBufferHolds == Spec => []WaiterHoldsBuffer
<1>1. IndInv => WaiterHoldsBuffer
  <2> SUFFICES ASSUME IndInv, pc = "wait", ~BufferAvailable(cur)
               PROVE  sndQueue[cur] + unackQueue[cur] > 0
    BY DEF WaiterHoldsBuffer
  <2>1. /\ sndQueue[cur] \in Nat /\ unackQueue[cur] \in Nat
        /\ freeList \in Nat
    BY DEF IndInv, TypeOK
  <2>2. SndQueueDepth \in Nat \ {0}
    BY PoolAssumption
  <2>3. sndQueue[cur] + unackQueue[cur] > 0 \/ freeList > 0
    BY DEF IndInv, WaiterInv
  <2> QED
    BY <2>1, <2>2, <2>3 DEF BufferAvailable
<1> QED
  BY <1>1, Invariance, PTL

-----------------------------------------------------------------------------
(***************************************************************************)
(* Sums over the connections.  Only what the numbers of the connections    *)
(* add up to is left to show: the buffers of the pool (BuffersAccounted)   *)
(* and the counters of the ring (CountersExact).  Every step changes the   *)
(* numbers of one connection, so one lemma about one changed term of a sum *)
(* is enough.                                                              *)
(***************************************************************************)
LEMMA PlacesFinite ==
    ASSUME NEW f \in [Conns -> Nat], NEW c \in Conns
    PROVE  IsFiniteSet(PlacesOf(f, c)) /\ Cardinality(PlacesOf(f, c)) = f[c]
<1>1. f[c] \in Nat
  OBVIOUS
<1>2. IsFiniteSet(1 .. f[c]) /\ Cardinality(1 .. f[c]) = f[c]
  BY <1>1, FS_Interval
<1>3. IsFiniteSet({c}) /\ Cardinality({c}) = 1
  BY FS_Singleton
<1>4. IsFiniteSet({c} \X (1 .. f[c])) /\ Cardinality({c} \X (1 .. f[c])) = 1 * f[c]
  BY <1>2, <1>3, FS_Product
<1>5. 1 * f[c] = f[c]
  BY <1>1
<1> QED
  BY <1>4, <1>5 DEF PlacesOf

(* The places of all connections are finitely many. *)
LEMMA AllPlacesFinite ==
    ASSUME NEW f \in [Conns -> Nat]
    PROVE  IsFiniteSet(UNION {PlacesOf(f, c) : c \in Conns})
<1> DEFINE T == {PlacesOf(f, c) : c \in Conns}
           g == [c \in Conns |-> PlacesOf(f, c)]
<1>1. IsFiniteSet(Conns)
  BY PoolAssumption, FS_Interval DEF Conns
<1>2. g \in Surjection(Conns, T)
  BY DEF Surjection
<1>3. IsFiniteSet(T)
  BY <1>1, <1>2, FS_Surjection
<1>4. \A S \in T : IsFiniteSet(S)
  BY PlacesFinite
<1> QED
  BY <1>3, <1>4, FS_UNION

(* Changing one term of a sum changes the sum by as much. *)
LEMMA TotalChange ==
    ASSUME NEW f \in [Conns -> Nat], NEW g \in [Conns -> Nat], NEW c \in Conns,
           \A d \in Conns \ {c} : g[d] = f[d]
    PROVE  Total(f) \in Nat /\ Total(g) = Total(f) - f[c] + g[c]
<1> DEFINE F == UNION {PlacesOf(f, d) : d \in Conns}
           G == UNION {PlacesOf(g, d) : d \in Conns}
           R == UNION {PlacesOf(f, d) : d \in Conns \ {c}}
<1>1. F = R \cup PlacesOf(f, c) /\ G = R \cup PlacesOf(g, c)
  <2>1. \A d \in Conns \ {c} : PlacesOf(g, d) = PlacesOf(f, d)
    BY DEF PlacesOf
  <2> QED
    BY <2>1
<1>2. R \cap PlacesOf(f, c) = {} /\ R \cap PlacesOf(g, c) = {}
  BY DEF PlacesOf
<1>3. IsFiniteSet(F) /\ IsFiniteSet(R)
  <2>1. IsFiniteSet(F)
    BY AllPlacesFinite
  <2>2. R \in SUBSET F
    BY <1>1
  <2> QED
    BY <2>1, <2>2, FS_Subset
<1>4. /\ IsFiniteSet(PlacesOf(f, c)) /\ Cardinality(PlacesOf(f, c)) = f[c]
      /\ IsFiniteSet(PlacesOf(g, c)) /\ Cardinality(PlacesOf(g, c)) = g[c]
  BY PlacesFinite
<1>5. Total(f) = Cardinality(F) /\ Total(g) = Cardinality(G)
  BY DEF Total
<1> HIDE DEF F, G, R
<1>6. Cardinality(R) \in Nat /\ Cardinality({}) = 0
  BY <1>3, FS_CardinalityType, FS_EmptySet
<1>7. /\ Cardinality(R \cup PlacesOf(f, c)) = Cardinality(R) + f[c] - 0
      /\ Cardinality(R \cup PlacesOf(g, c)) = Cardinality(R) + g[c] - 0
  <2>1. Cardinality(R \cup PlacesOf(f, c))
          = Cardinality(R) + Cardinality(PlacesOf(f, c)) - Cardinality(R \cap PlacesOf(f, c))
    BY <1>3, <1>4, FS_Union, Zenon
  <2>2. Cardinality(R \cup PlacesOf(g, c))
          = Cardinality(R) + Cardinality(PlacesOf(g, c)) - Cardinality(R \cap PlacesOf(g, c))
    BY <1>3, <1>4, FS_Union, Zenon
  <2> QED
    BY <1>2, <1>4, <1>6, <2>1, <2>2, Zenon
<1> QED
  BY <1>1, <1>5, <1>6, <1>7

(* The sum of zeros, and of ones. *)
LEMMA TotalOfConstant ==
    /\ Total([c \in Conns |-> 0]) = 0
    /\ Total([c \in Conns |-> 1]) = NumConns
<1> DEFINE z == [c \in Conns |-> 0]
           o == [c \in Conns |-> 1]
<1>1. Total(z) = 0
  <2>1. \A c \in Conns : PlacesOf(z, c) = {}
    BY DEF PlacesOf
  <2>2. UNION {PlacesOf(z, c) : c \in Conns} = {}
    BY <2>1
  <2> QED
    BY <2>2, FS_EmptySet DEF Total
<1>2. Total(o) = NumConns
  <2>1. \A c \in Conns : PlacesOf(o, c) = {<<c, 1>>}
    BY DEF PlacesOf
  <2>2. UNION {PlacesOf(o, c) : c \in Conns} = Conns \X {1}
    BY <2>1
  <2>3. IsFiniteSet(Conns) /\ Cardinality(Conns) = NumConns
    BY PoolAssumption, FS_Interval DEF Conns
  <2>4. IsFiniteSet({1}) /\ Cardinality({1}) = 1
    BY FS_Singleton
  <2>5. Cardinality(Conns \X {1}) = NumConns * 1
    BY <2>3, <2>4, FS_Product
  <2>6. NumConns * 1 = NumConns
    BY PoolAssumption
  <2>7. Total(o) = Cardinality(Conns \X {1})
    BY <2>2, Zenon DEF Total
  <2> QED
    BY <2>5, <2>6, <2>7
<1> QED
  BY <1>1, <1>2

(* The tests on the length of the unack queue count all packets but one.  *)
Beyond(u) == IF u > 1 THEN u - 1 ELSE 0

LEMMA SharedIs ==
    ASSUME NEW l \in Nat, NEW h \in Nat, l <= h
    PROVE  /\ SharedAdded(l, h) = Beyond(h) - Beyond(l)
           /\ SharedRemoved(h, l) = Beyond(h) - Beyond(l)
<1> DEFINE a == IF l >= 1 THEN l + 1 ELSE 2
           b == IF l >= 1 THEN l ELSE 1
<1>1. {n \in (l + 1) .. h : n > 1} = a .. h
  OBVIOUS
<1>2. {n \in l .. (h - 1) : n >= 1} = b .. (h - 1)
  OBVIOUS
<1>3. /\ a \in Int /\ b \in Int /\ h \in Int /\ h - 1 \in Int
      /\ a = (IF l >= 1 THEN l + 1 ELSE 2) /\ b = (IF l >= 1 THEN l ELSE 1)
  OBVIOUS
<1> HIDE DEF a, b
<1>4. /\ Cardinality(a .. h) = IF a > h THEN 0 ELSE h - a + 1
      /\ Cardinality(b .. (h - 1)) = IF b > h - 1 THEN 0 ELSE (h - 1) - b + 1
  BY <1>3, FS_Interval
<1>5. /\ SharedAdded(l, h) = Cardinality(a .. h)
      /\ SharedRemoved(h, l) = Cardinality(b .. (h - 1))
  BY <1>1, <1>2, Zenon DEF SharedAdded, SharedRemoved
<1> QED
  BY <1>3, <1>4, <1>5 DEF Beyond

-----------------------------------------------------------------------------
(* The accounts, and what they need besides IndInv: who waits for a buffer *)
(* has none.                                                               *)
AccountInv ==
    /\ BuffersAccounted
    /\ CountersExact
    /\ pc = "wait" => ~curBuff[cur]

HeldBy(c) == (IF curBuff[c] THEN 1 ELSE 0) + sndQueue[c] + unackQueue[c]

(* The terms of the sums. *)
LEMMA TermTypes ==
    ASSUME TypeOK
    PROVE  /\ Held \in [Conns -> Nat] /\ \A c \in Conns : Held[c] = HeldBy(c)
           /\ BeyondFirst \in [Conns -> Nat]
           /\ \A c \in Conns : BeyondFirst[c] = Beyond(unackQueue[c])
           /\ unackQueue \in [Conns -> Nat]
<1>1. sndQueue \in [Conns -> Nat] /\ unackQueue \in [Conns -> Nat]
  BY DEF TypeOK
<1>2. \A c \in Conns : HeldBy(c) \in Nat /\ Beyond(unackQueue[c]) \in Nat
  BY <1>1 DEF HeldBy, Beyond
<1>3. /\ Held = [c \in Conns |-> HeldBy(c)]
      /\ BeyondFirst = [c \in Conns |-> Beyond(unackQueue[c])]
  BY DEF Held, HeldBy, BeyondFirst, Beyond
<1> QED
  BY <1>1, <1>2, <1>3

(***************************************************************************)
(* A step that moves buffers of connection c keeps the accounts when the   *)
(* pool gains what c loses and the counters follow the unack queue of c.   *)
(***************************************************************************)
LEMMA AccountStep ==
    ASSUME TypeOK, TypeOK', AccountInv, NEW c \in Conns,
           \A d \in Conns \ {c} : /\ curBuff'[d] = curBuff[d]
                                  /\ sndQueue'[d] = sndQueue[d]
                                  /\ unackQueue'[d] = unackQueue[d],
           count' - freeList' - HeldBy(c)' = count - freeList - HeldBy(c),
           Loss => /\ numOutStanding' - unackQueue'[c] = numOutStanding - unackQueue[c]
                   /\ numSharedOutStanding' - Beyond(unackQueue'[c])
                        = numSharedOutStanding - Beyond(unackQueue[c]),
           pc' = "wait" => ~curBuff'[cur']
    PROVE  AccountInv'
<1>1. /\ Held \in [Conns -> Nat] /\ \A d \in Conns : Held[d] = HeldBy(d)
      /\ BeyondFirst \in [Conns -> Nat]
      /\ \A d \in Conns : BeyondFirst[d] = Beyond(unackQueue[d])
      /\ unackQueue \in [Conns -> Nat]
  BY TermTypes
<1>2. /\ Held' \in [Conns -> Nat] /\ \A d \in Conns : Held'[d] = HeldBy(d)'
      /\ BeyondFirst' \in [Conns -> Nat]
      /\ \A d \in Conns : BeyondFirst'[d] = Beyond(unackQueue'[d])
      /\ unackQueue' \in [Conns -> Nat]
  <2>1. sndQueue' \in [Conns -> Nat] /\ unackQueue' \in [Conns -> Nat]
    BY DEF TypeOK
  <2>2. \A d \in Conns : HeldBy(d)' \in Nat /\ Beyond(unackQueue'[d]) \in Nat
    BY <2>1 DEF HeldBy, Beyond
  <2>3. /\ Held' = [d \in Conns |-> HeldBy(d)']
        /\ BeyondFirst' = [d \in Conns |-> Beyond(unackQueue'[d])]
    BY DEF Held, HeldBy, BeyondFirst, Beyond
  <2> QED
    BY <2>1, <2>2, <2>3
<1>3. \A d \in Conns \ {c} : Held'[d] = Held[d] /\ BeyondFirst'[d] = BeyondFirst[d]
  BY <1>1, <1>2 DEF HeldBy
<1>4. Total(Held) \in Nat /\ Total(Held') = Total(Held) - Held[c] + Held'[c]
  BY <1>1, <1>2, <1>3, TotalChange
<1>5. /\ Total(unackQueue) \in Nat
      /\ Total(unackQueue') = Total(unackQueue) - unackQueue[c] + unackQueue'[c]
  BY <1>1, <1>2, TotalChange
<1>6. /\ Total(BeyondFirst) \in Nat
      /\ Total(BeyondFirst') = Total(BeyondFirst) - BeyondFirst[c] + BeyondFirst'[c]
  BY <1>1, <1>2, <1>3, TotalChange
<1>7. /\ Total(Held)' = Total(Held') /\ Total(unackQueue)' = Total(unackQueue')
      /\ Total(BeyondFirst)' = Total(BeyondFirst')
  BY DEF Total, PlacesOf
<1>8. /\ count \in Int /\ freeList \in Int /\ count' \in Int /\ freeList' \in Int
      /\ numOutStanding \in Int /\ numSharedOutStanding \in Int
      /\ numOutStanding' \in Int /\ numSharedOutStanding' \in Int
  BY Bounds DEF TypeOK
<1>9. /\ Held[c] \in Nat /\ Held'[c] \in Nat /\ Held[c] = HeldBy(c) /\ Held'[c] = HeldBy(c)'
      /\ BeyondFirst[c] \in Nat /\ BeyondFirst'[c] \in Nat
      /\ BeyondFirst[c] = Beyond(unackQueue[c]) /\ BeyondFirst'[c] = Beyond(unackQueue'[c])
      /\ unackQueue[c] \in Nat /\ unackQueue'[c] \in Nat
  BY <1>1, <1>2
<1>10. BuffersAccounted'
  <2>1. count = freeList + Total(Held)
    BY DEF AccountInv, BuffersAccounted
  <2>2. count' - freeList' - Held'[c] = count - freeList - Held[c]
    BY <1>9
  <2>3. count' = freeList' + Total(Held')
    BY <1>4, <1>8, <1>9, <2>1, <2>2
  <2> QED
    BY <1>7, <2>3 DEF BuffersAccounted
<1>11. CountersExact'
  <2> SUFFICES ASSUME Loss
               PROVE  /\ numOutStanding' = Total(unackQueue')
                      /\ numSharedOutStanding' = Total(BeyondFirst')
    BY <1>7 DEF CountersExact, Loss
  <2>1. numOutStanding = Total(unackQueue) /\ numSharedOutStanding = Total(BeyondFirst)
    BY DEF AccountInv, CountersExact
  <2>2. /\ numOutStanding' - unackQueue'[c] = numOutStanding - unackQueue[c]
        /\ numSharedOutStanding' - BeyondFirst'[c] = numSharedOutStanding - BeyondFirst[c]
    BY <1>9
  <2> QED
    BY <1>5, <1>6, <1>8, <1>9, <2>1, <2>2
<1> QED
  BY <1>10, <1>11 DEF AccountInv

(* A step that moves no buffer. *)
LEMMA NoAccountStep ==
    ASSUME AccountInv, UNCHANGED <<curBuff, sndQueue, unackQueue, freeList, count,
                                   numOutStanding, numSharedOutStanding>>,
           pc' = "wait" => pc = "wait" /\ cur' = cur
    PROVE  AccountInv'
<1>1. Held' = Held /\ BeyondFirst' = BeyondFirst
  BY DEF Held, BeyondFirst
<1>2. /\ Total(Held)' = Total(Held) /\ Total(unackQueue)' = Total(unackQueue)
      /\ Total(BeyondFirst)' = Total(BeyondFirst)
  BY <1>1 DEF Total, PlacesOf
<1>3. BuffersAccounted' /\ CountersExact'
  BY <1>2 DEF AccountInv, BuffersAccounted, CountersExact, Loss
<1> QED
  BY <1>3 DEF AccountInv

(* sendBuffers moves packets of c from the send to the unack queue. *)
LEMMA SentAccounts ==
    ASSUME TypeOK, NEW c \in Conns, NEW snd \in Nat, NEW unack \in Nat, NEW cap \in Nat,
           NEW isStarted, NEW out \in Int, NEW shared \in Int, NEW wnd,
           SendBuffers(c, snd, unack, cap, isStarted, out, shared, wnd)
    PROVE  /\ \A d \in Conns \ {c} : sndQueue'[d] = sndQueue[d] /\ unackQueue'[d] = unackQueue[d]
           /\ sndQueue'[c] \in Nat /\ unackQueue'[c] \in Nat
           /\ sndQueue'[c] + unackQueue'[c] = snd + unack
           /\ Loss => /\ numOutStanding' = out + unackQueue'[c] - unack
                      /\ numSharedOutStanding' = shared + Beyond(unackQueue'[c]) - Beyond(unack)
<1>1. PICK n \in 0 .. snd :
        /\ sndQueue' = [sndQueue EXCEPT ![c] = snd - n]
        /\ unackQueue' = [unackQueue EXCEPT ![c] = unack + n]
        /\ numOutStanding' = out + (IF Loss THEN n ELSE 0)
        /\ numSharedOutStanding' =
             shared + (IF Loss THEN SharedAdded(unack, unack + n) ELSE 0)
  BY Zenon DEF SendBuffers
<1>2. sndQueue \in [Conns -> Nat] /\ unackQueue \in [Conns -> Nat]
  BY DEF TypeOK
<1>3. /\ sndQueue'[c] = snd - n /\ unackQueue'[c] = unack + n
      /\ \A d \in Conns \ {c} : sndQueue'[d] = sndQueue[d] /\ unackQueue'[d] = unackQueue[d]
  BY <1>1, <1>2
<1>4. unack + n \in Nat /\ unack <= unack + n /\ snd - n \in Nat
  OBVIOUS
<1>5. SharedAdded(unack, unack + n) = Beyond(unack + n) - Beyond(unack)
  BY <1>4, SharedIs
<1>6. Beyond(unack + n) \in Int /\ Beyond(unack) \in Int
  BY <1>4 DEF Beyond
<1>7. Loss => /\ numOutStanding' = out + unackQueue'[c] - unack
              /\ numSharedOutStanding' = shared + Beyond(unackQueue'[c]) - Beyond(unack)
  BY <1>1, <1>3, <1>5, <1>6
<1> QED
  BY <1>3, <1>4, <1>7

(* The current buffer of c becomes a packet of its queues. *)
LEMMA PrepareAccounts ==
    ASSUME IndInv, TypeOK', AccountInv, NEW c \in Conns, PrepareAndSend(c), curBuff[c],
           curBuff' = [curBuff EXCEPT ![c] = FALSE], UNCHANGED <<freeList, count>>,
           pc' = "wait" => cur' = c
    PROVE  AccountInv'
<1>0. /\ TypeOK /\ QueueDepth \in Nat
  BY PoolAssumption DEF IndInv
<1>1. /\ sndQueue[c] \in Nat /\ unackQueue[c] \in Nat /\ capacity[c] \in Nat
      /\ sndQueue[c] + 1 \in Nat
      /\ numOutStanding \in Int /\ numSharedOutStanding \in Int
      /\ curBuff \in [Conns -> BOOLEAN] /\ count \in Int /\ freeList \in Int
  BY <1>0, Bounds DEF TypeOK
<1>2. SendBuffers(c, sndQueue[c] + 1, unackQueue[c], capacity[c], started[c],
                  numOutStanding, numSharedOutStanding, cwnd)
  BY Zenon DEF PrepareAndSend
<1>3. /\ \A d \in Conns \ {c} : sndQueue'[d] = sndQueue[d] /\ unackQueue'[d] = unackQueue[d]
      /\ sndQueue'[c] \in Nat /\ unackQueue'[c] \in Nat
      /\ sndQueue'[c] + unackQueue'[c] = sndQueue[c] + 1 + unackQueue[c]
      /\ Loss => /\ numOutStanding' = numOutStanding + unackQueue'[c] - unackQueue[c]
                 /\ numSharedOutStanding' =
                      numSharedOutStanding + Beyond(unackQueue'[c]) - Beyond(unackQueue[c])
  BY <1>0, <1>1, <1>2, SentAccounts
<1>4. curBuff'[c] = FALSE /\ \A d \in Conns \ {c} : curBuff'[d] = curBuff[d]
  BY <1>1
<1>5. HeldBy(c)' = HeldBy(c)
  <2>1. HeldBy(c) = 1 + sndQueue[c] + unackQueue[c] /\ HeldBy(c)' = sndQueue'[c] + unackQueue'[c]
    BY <1>1, <1>3, <1>4 DEF HeldBy
  <2> QED
    BY <1>1, <1>3, <2>1
<1>6. Beyond(unackQueue[c]) \in Int /\ Beyond(unackQueue'[c]) \in Int
  BY <1>1, <1>3 DEF Beyond
<1>7. count' - freeList' - HeldBy(c)' = count - freeList - HeldBy(c)
  BY <1>5
<1>8. Loss => /\ numOutStanding' - unackQueue'[c] = numOutStanding - unackQueue[c]
              /\ numSharedOutStanding' - Beyond(unackQueue'[c])
                   = numSharedOutStanding - Beyond(unackQueue[c])
  BY <1>1, <1>3, <1>6
<1>9. pc' = "wait" => ~curBuff'[cur']
  BY <1>4
<1> QED
  BY <1>0, <1>3, <1>4, <1>7, <1>8, <1>9, AccountStep

(* A buffer is taken from the free list or allocated. *)
LEMMA GetBufferAccounts ==
    ASSUME IndInv, TypeOK', AccountInv, GetBuffer
    PROVE  AccountInv'
<1>0. PICK c \in Conns : c = cur
  BY DEF IndInv, TypeOK
<1>1. /\ TypeOK /\ curBuff \in [Conns -> BOOLEAN]
      /\ count \in Int /\ freeList \in Int
      /\ sndQueue[c] \in Nat /\ unackQueue[c] \in Nat
  BY Bounds DEF IndInv, TypeOK
<1>2. /\ pc = "wait" /\ TakeBuffer /\ pc' # "wait"
      /\ curBuff' = [curBuff EXCEPT ![c] = TRUE]
      /\ UNCHANGED <<sndQueue, unackQueue, numOutStanding, numSharedOutStanding>>
  BY <1>0 DEF GetBuffer
<1>3. count' = freeList' + (count - freeList + 1)
  BY <1>1, <1>2 DEF TakeBuffer
<1>4. ~curBuff[c] /\ curBuff'[c] = TRUE /\ \A d \in Conns \ {c} : curBuff'[d] = curBuff[d]
  BY <1>0, <1>1, <1>2 DEF AccountInv
<1>5. /\ HeldBy(c) = sndQueue[c] + unackQueue[c]
      /\ HeldBy(c)' = 1 + sndQueue[c] + unackQueue[c]
  BY <1>1, <1>2, <1>4 DEF HeldBy
<1>6. count' \in Int /\ freeList' \in Int
  BY Bounds DEF TypeOK
<1>7. count' - freeList' - HeldBy(c)' = count - freeList - HeldBy(c)
  BY <1>1, <1>3, <1>5, <1>6
<1> QED
  BY <1>1, <1>2, <1>4, <1>7, AccountStep

(* The buffers of c go back to the pool. *)
LEMMA ReturnAccounts ==
    ASSUME IndInv, TypeOK', AccountInv, NEW c \in Conns, NEW extra \in {0, 1},
           ReturnBuffers(c, extra), count' = count, pc' # "wait",
           \A d \in Conns \ {c} : curBuff'[d] = curBuff[d],
           (IF curBuff[c] THEN 1 ELSE 0) = (IF curBuff'[c] THEN 1 ELSE 0) + extra
    PROVE  AccountInv'
<1>1. /\ TypeOK /\ sndQueue \in [Conns -> Nat] /\ unackQueue \in [Conns -> Nat]
      /\ count \in Int /\ freeList \in Int
      /\ numOutStanding \in Int /\ numSharedOutStanding \in Int
  BY Bounds DEF IndInv, TypeOK
<1>2. /\ sndQueue'[c] = 0 /\ unackQueue'[c] = 0
      /\ \A d \in Conns \ {c} : sndQueue'[d] = sndQueue[d] /\ unackQueue'[d] = unackQueue[d]
      /\ freeList' = freeList + sndQueue[c] + unackQueue[c] + extra
      /\ Loss => /\ numOutStanding' = numOutStanding - unackQueue[c]
                 /\ numSharedOutStanding' =
                      numSharedOutStanding - SharedRemoved(unackQueue[c], 0)
  BY <1>1 DEF ReturnBuffers
<1>3. /\ sndQueue[c] \in Nat /\ unackQueue[c] \in Nat /\ 0 \in Nat /\ 0 <= unackQueue[c]
      /\ unackQueue[c] \in Int
  BY <1>1
<1>4. SharedRemoved(unackQueue[c], 0) = Beyond(unackQueue[c]) - Beyond(0)
  BY <1>3, SharedIs
<1>5. Beyond(unackQueue[c]) \in Int /\ Beyond(0) = 0
  BY <1>3 DEF Beyond
<1> DEFINE b == IF curBuff[c] THEN 1 ELSE 0
           e == IF curBuff'[c] THEN 1 ELSE 0
<1>6. b \in Int /\ e \in Int /\ b = e + extra
  OBVIOUS
<1>7. HeldBy(c) = b + sndQueue[c] + unackQueue[c] /\ HeldBy(c)' = e + sndQueue'[c] + unackQueue'[c]
  BY DEF HeldBy
<1> HIDE DEF b, e
<1>8. count' - freeList' - HeldBy(c)' = count - freeList - HeldBy(c)
  BY <1>1, <1>2, <1>3, <1>6, <1>7
<1>9. Loss => /\ numOutStanding' - unackQueue'[c] = numOutStanding - unackQueue[c]
              /\ numSharedOutStanding' - Beyond(unackQueue'[c])
                   = numSharedOutStanding - Beyond(unackQueue[c])
  BY <1>1, <1>2, <1>3, <1>4, <1>5
<1> QED
  BY <1>1, <1>2, <1>8, <1>9, AccountStep

(* Acknowledged packets leave the unack queue for the free list, and      *)
(* others take their place.                                               *)
LEMMA AckAccounts ==
    ASSUME IndInv, TypeOK', AccountInv, NEW c \in Conns, NEW k \in 0 .. unackQueue[c],
           NEW m \in 0 .. Unreported(c, k), NEW wnd, NEW send \in BOOLEAN,
           AckedPackets(c, k, m, wnd, send), UNCHANGED <<pc, cur, curBuff, count>>
    PROVE  AccountInv'
<1> DEFINE unack == unackQueue[c] - k
           out == numOutStanding - (IF Loss THEN k ELSE 0)
           shared == numSharedOutStanding -
                       (IF Loss THEN SharedRemoved(unackQueue[c], unack) ELSE 0)
           isStarted == started[c] \/ k > 0
<1>0. TypeOK /\ QueueDepth \in Nat
  BY PoolAssumption DEF IndInv
<1>1. /\ sndQueue \in [Conns -> Nat] /\ unackQueue \in [Conns -> Nat]
      /\ capacity[c] \in Nat /\ sndQueue[c] \in Nat /\ unackQueue[c] \in Nat
      /\ count \in Int /\ freeList \in Int
      /\ numOutStanding \in Int /\ numSharedOutStanding \in Int
  BY <1>0, Bounds DEF TypeOK
<1>2. /\ unack \in Nat /\ unack <= unackQueue[c] /\ k \in Nat /\ capacity[c] + m \in Nat
      /\ unack = unackQueue[c] - k
  BY <1>0, <1>1 DEF Unreported
<1>3. SharedRemoved(unackQueue[c], unack) = Beyond(unackQueue[c]) - Beyond(unack)
  BY <1>1, <1>2, SharedIs
<1>4. Beyond(unackQueue[c]) \in Int /\ Beyond(unack) \in Int
  BY <1>1, <1>2 DEF Beyond
<1>5. /\ out \in Int /\ shared \in Int
      /\ Loss => /\ out = numOutStanding - k
                 /\ shared = numSharedOutStanding - (Beyond(unackQueue[c]) - Beyond(unack))
  BY <1>1, <1>2, <1>3, <1>4
<1>6. freeList' = freeList + k
  BY Zenon DEF AckedPackets
<1>7. /\ \A d \in Conns \ {c} : sndQueue'[d] = sndQueue[d] /\ unackQueue'[d] = unackQueue[d]
      /\ sndQueue'[c] \in Nat /\ unackQueue'[c] \in Nat
      /\ sndQueue'[c] + unackQueue'[c] = sndQueue[c] + unack
      /\ Loss => /\ numOutStanding' = out + unackQueue'[c] - unack
                 /\ numSharedOutStanding' = shared + Beyond(unackQueue'[c]) - Beyond(unack)
  <2>1. CASE send
    <3>1. SendBuffers(c, sndQueue[c], unack, capacity[c] + m, isStarted,
                      out, shared, wnd)
      BY <2>1, Zenon DEF AckedPackets
    <3> HIDE DEF unack, out, shared, isStarted
    <3> QED
      BY <1>0, <1>1, <1>2, <1>5, <3>1, SentAccounts
  <2>2. CASE ~send
    <3>1. /\ unackQueue' = [unackQueue EXCEPT ![c] = unack]
          /\ numOutStanding' = out /\ numSharedOutStanding' = shared
          /\ sndQueue' = sndQueue
      BY <2>2 DEF AckedPackets
    <3> HIDE DEF unack, out, shared, isStarted
    <3> QED
      BY <1>1, <1>2, <1>4, <1>5, <3>1
  <2> QED
    BY <2>1, <2>2
<1> HIDE DEF unack, out, shared, isStarted
<1>8. Beyond(unackQueue'[c]) \in Int
  BY <1>7 DEF Beyond
<1> DEFINE b == IF curBuff[c] THEN 1 ELSE 0
<1>9. b \in Int
  OBVIOUS
<1>10. /\ HeldBy(c) = b + sndQueue[c] + unackQueue[c]
       /\ HeldBy(c)' = b + sndQueue'[c] + unackQueue'[c]
  BY DEF HeldBy
<1> HIDE DEF b
<1>11. count' - freeList' - HeldBy(c)' = count - freeList - HeldBy(c)
  BY <1>1, <1>2, <1>6, <1>7, <1>9, <1>10
<1>12. Loss => /\ numOutStanding' - unackQueue'[c] = numOutStanding - unackQueue[c]
               /\ numSharedOutStanding' - Beyond(unackQueue'[c])
                    = numSharedOutStanding - Beyond(unackQueue[c])
  BY <1>1, <1>2, <1>4, <1>5, <1>7, <1>8
<1>13. pc' = "wait" => ~curBuff'[cur']
  BY DEF AccountInv
<1> QED
  BY <1>0, <1>7, <1>11, <1>12, <1>13, AccountStep

(* Every connection starts with a buffer of its own. *)
LEMMA InitAccounts == Init => AccountInv
<1> SUFFICES ASSUME Init PROVE AccountInv
  OBVIOUS
<1>1. /\ Held = [c \in Conns |-> 1] /\ BeyondFirst = [c \in Conns |-> 0]
      /\ unackQueue = [c \in Conns |-> 0]
  BY DEF Init, Held, BeyondFirst
<1>2. Total(Held) = NumConns /\ Total(BeyondFirst) = 0 /\ Total(unackQueue) = 0
  BY <1>1, TotalOfConstant
<1>3. /\ count = NumConns /\ freeList = 0 /\ pc = "run"
      /\ numOutStanding = 0 /\ numSharedOutStanding = 0
  BY DEF Init
<1>4. NumConns = 0 + NumConns
  BY PoolAssumption
<1> QED
  BY <1>2, <1>3, <1>4 DEF AccountInv, BuffersAccounted, CountersExact

(* cleanSndBufferPool: nobody holds a buffer any more. *)
LEMMA TeardownAccounts ==
    ASSUME IndInv, AccountInv, Teardown
    PROVE  AccountInv'
<1>1. /\ \A c \in Conns : sndQueue[c] = 0 /\ unackQueue[c] = 0
      /\ pc' = "torn" /\ freeList' = 0 /\ count' = 0
      /\ curBuff' = [c \in Conns |-> FALSE]
      /\ UNCHANGED <<sndQueue, unackQueue, numOutStanding, numSharedOutStanding>>
  BY DEF Teardown, Drained
<1>2. Held' = [c \in Conns |-> 0] /\ BeyondFirst' = BeyondFirst
  BY <1>1 DEF Held, BeyondFirst
<1>3. Total(Held') = 0
  BY <1>2, TotalOfConstant
<1>4. /\ Total(Held)' = Total(Held') /\ Total(unackQueue)' = Total(unackQueue)
      /\ Total(BeyondFirst)' = Total(BeyondFirst)
  BY <1>1, <1>2 DEF Total, PlacesOf
<1>5. BuffersAccounted'
  BY <1>1, <1>3, <1>4 DEF BuffersAccounted
<1>6. CountersExact'
  BY <1>1, <1>4 DEF AccountInv, CountersExact, Loss
<1> QED
  BY <1>1, <1>5, <1>6 DEF AccountInv

(* Every step keeps the accounts. *)
LEMMA NextAccounts == IndInv /\ IndInv' /\ AccountInv /\ [Next]_vars => AccountInv'
<1> SUFFICES ASSUME IndInv, IndInv', AccountInv, [Next]_vars PROVE AccountInv'
  OBVIOUS
<1>0. TypeOK'
  BY DEF IndInv
<1>1. ASSUME NEW c \in Conns, SendChunk(c) PROVE AccountInv'
  <2>1. curBuff[c]
    BY <1>1 DEF SendChunk, IndInv, BufferInv
  <2> QED
    BY <1>0, <1>1, <2>1, PrepareAccounts DEF SendChunk
<1>2. ASSUME NEW c \in Conns, FlushEos(c) PROVE AccountInv'
  BY <1>0, <1>2, PrepareAccounts DEF FlushEos
<1>3. ASSUME NEW c \in Conns, HandleStopMsg(c) PROVE AccountInv'
  <2> DEFINE extra == IF curBuff[c] THEN 1 ELSE 0
  <2>1. /\ ReturnBuffers(c, extra) /\ count' = count /\ pc' # "wait"
        /\ curBuff' = [curBuff EXCEPT ![c] = FALSE]
    BY <1>3 DEF HandleStopMsg
  <2>2. curBuff'[c] = FALSE /\ \A d \in Conns \ {c} : curBuff'[d] = curBuff[d]
    BY <2>1 DEF IndInv, TypeOK
  <2>3. extra \in {0, 1} /\ extra = (IF curBuff'[c] THEN 1 ELSE 0) + extra
    BY <2>2
  <2>4. (IF curBuff[c] THEN 1 ELSE 0) = (IF curBuff'[c] THEN 1 ELSE 0) + extra
    BY <2>3
  <2> HIDE DEF extra
  <2> QED
    BY <1>0, <2>1, <2>2, <2>3, <2>4, ReturnAccounts
<1>4. ASSUME NEW c \in Conns, TeardownConn(c) PROVE AccountInv'
  <2>1. ReturnBuffers(c, 0) /\ count' = count /\ pc' # "wait" /\ curBuff' = curBuff
    BY <1>4 DEF TeardownConn
  <2>2. (IF curBuff[c] THEN 1 ELSE 0) = (IF curBuff'[c] THEN 1 ELSE 0) + 0
    BY <2>1
  <2> QED
    BY <1>0, <2>1, <2>2, ReturnAccounts
<1>5. ASSUME NEW c \in Conns, NEW k, NEW m, NEW stop \in BOOLEAN, HandleAck(c, k, m, stop)
      PROVE  AccountInv'
  <2>1. /\ k \in 0 .. unackQueue[c] /\ m \in 0 .. Unreported(c, k)
        /\ UNCHANGED <<pc, cur, curBuff, count>>
    BY <1>5 DEF HandleAck
  <2>2. PICK wnd \in Grown(k), send \in BOOLEAN : AckedPackets(c, k, m, wnd, send)
    BY <1>5, Zenon DEF HandleAck
  <2> QED
    BY <1>0, <2>1, <2>2, AckAccounts
<1>6. ASSUME NEW c \in Conns, NEW k, HandleDisorderAck(c, k) PROVE AccountInv'
  <2>1. k \in 0 .. unackQueue[c] /\ UNCHANGED <<pc, cur, curBuff, count>>
    BY <1>6 DEF HandleDisorderAck
  <2>2. PICK w \in Grown(k), send \in BOOLEAN :
           AckedPackets(c, k, 0, IF Loss THEN Halved(w) ELSE w, send)
    BY <1>6, Zenon DEF HandleDisorderAck
  <2>3. 0 \in 0 .. Unreported(c, k)
    BY <2>1, PoolAssumption DEF Unreported, IndInv, TypeOK, CreditInv
  <2> DEFINE wnd == IF Loss THEN Halved(w) ELSE w
  <2>4. AckedPackets(c, k, 0, wnd, send)
    BY <2>2
  <2> HIDE DEF wnd
  <2> QED
    BY <1>0, <2>1, <2>3, <2>4, AckAccounts
<1>7. CASE \/ StopsHandled \/ SendEos \/ Flushed \/ EosNext \/ CheckExpiration
           \/ CheckDeadlock \/ Leave \/ UNCHANGED vars
  <2>1. UNCHANGED <<curBuff, sndQueue, unackQueue, freeList, count,
                    numOutStanding, numSharedOutStanding>>
    BY <1>7 DEF StopsHandled, SendEos, Flushed, EosNext, CheckExpiration, CheckDeadlock,
       Leave, connVars, sharedVars, vars
  <2>2. pc' = "wait" => pc = "wait" /\ cur' = cur
    BY <1>7 DEF StopsHandled, SendEos, Flushed, EosNext, CheckExpiration, CheckDeadlock,
       Leave, vars
  <2> QED
    BY <2>1, <2>2, NoAccountStep
<1>8. CASE HandleAcks
  BY <1>5, <1>6, <1>8, Zenon DEF HandleAcks
<1>9. CASE GetBuffer
  BY <1>0, <1>9, GetBufferAccounts
<1>10. CASE Teardown
  BY <1>10, TeardownAccounts
<1> QED
  BY <1>1, <1>2, <1>3, <1>4, <1>7, <1>8, <1>9, <1>10, Zenon DEF Next

(***************************************************************************)
(* The accounts hold in every reachable state.                             *)
(***************************************************************************)
LEMMA Accounting == Spec => []AccountInv
BY InitAccounts, NextAccounts, Invariance, PTL DEF Spec

(***************************************************************************)
(* No send buffer leaks and none is returned twice, for any number of      *)
(* connections: what the pool has and what the connections hold adds up to *)
(* what was allocated, whatever mix of acknowledgments, stops, ends of     *)
(* stream and teardown the statement sees.                                 *)
(***************************************************************************)
THEOREM BuffersAreAccounted == Spec => []BuffersAccounted
<1>1. AccountInv => BuffersAccounted
  BY DEF AccountInv
<1> QED
  BY <1>1, Accounting, PTL

(***************************************************************************)
(* The two counters that hold back the sender are exact, though they are   *)
(* kept up by tests on the length of a queue in three functions: all       *)
(* outstanding packets, and all but one of each connection.                *)
(***************************************************************************)
THEOREM CountersAreExact == Spec => []CountersExact
<1>1. AccountInv => CountersExact
  BY DEF AccountInv
<1> QED
  BY <1>1, Accounting, PTL
=============================================================================
