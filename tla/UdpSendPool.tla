---------------------------- MODULE UdpSendPool ----------------------------
(***************************************************************************)
(* The sending process of a motion with all its connections                *)
(* (cdb/motion/ic_udp.c): the pool of send buffers, the congestion window  *)
(* and the counters of outstanding packets that the connections share.     *)
(*                                                                         *)
(* The protocol of each connection is the one of UdpConn; here the send    *)
(* and unack queues are their lengths, and an acknowledgment takes some    *)
(* packets out of the unack queue and reports some as consumed.  Both are  *)
(* limited only by what UdpConn shows of acknowledgments: no more is       *)
(* consumed than was acknowledged.                                         *)
(*                                                                         *)
(* cwnd is a float in the code and is compared only with whole numbers, so *)
(* the model keeps it rounded up.  Under cwnd >= ssthresh an acknowledgment*)
(* adds 1/cwnd, that is 0 or 1 to the rounded window; ssthresh only        *)
(* decides how fast the window grows and is left out.                      *)
(***************************************************************************)
EXTENDS Integers, FiniteSets, FiniteSetsExt

CONSTANTS
    NumConns,        \* numConns of the sending motion node
    QueueDepth,      \* Gp_interconnect_queue_depth: receive slots
    SndQueueDepth,   \* Gp_interconnect_snd_queue_depth: send buffers
    FcMethod,        \* Gp_interconnect_fc_method
    MaxPkt           \* bound: packets of a connection

ASSUME PoolAssumption ==
    /\ NumConns \in Nat \ {0}
    /\ QueueDepth \in Nat \ {0}
    /\ SndQueueDepth \in Nat \ {0}
    /\ FcMethod \in {"CAPACITY", "LOSS"}
    /\ MaxPkt \in Nat \ {0}

VARIABLES
    pc,             \* where the main thread is
    cur,            \* the connection it works on
    gotStops,       \* local variable of SendChunkUDP
    curBuff,        \* conn->curBuff # NULL
    sndQueue,       \* length of conn->sndQueue
    unackQueue,     \* length of conn->unackQueue
    capacity,       \* conn->capacity
    started,        \* conn->state # mcsSetupOutgoingConnection
    stillActive, stopRequested,
    prepared,       \* packets prepared so far, conn_info.seq - 1
    queried,        \* a status query is under way
    freeList,       \* length of snd_buffer_pool.freeList
    count,          \* snd_buffer_pool.count
    cwnd,           \* snd_control_info.cwnd, rounded up
    numOutStanding, numSharedOutStanding   \* unack_queue_ring

connVars == <<curBuff, sndQueue, unackQueue, capacity, started, stillActive,
              stopRequested, prepared, queried>>
sharedVars == <<freeList, count, cwnd, numOutStanding, numSharedOutStanding>>
vars == <<pc, cur, gotStops, connVars, sharedVars>>

Conns == 0 .. (NumConns - 1)
Loss == FcMethod = "LOSS"

(* initSndBufferPool and startOutgoingUDPConnections *)
maxCount == NumConns * SndQueueDepth + (IF SndQueueDepth = 1 THEN 1 ELSE 0)
minCwnd == NumConns

TypeOK ==
    /\ pc \in {"run", "wait", "stops", "flush", "eos", "done", "teardown", "torn"}
    /\ cur \in Conns
    /\ gotStops \in BOOLEAN
    /\ curBuff \in [Conns -> BOOLEAN]
    /\ sndQueue \in [Conns -> Nat]
    /\ unackQueue \in [Conns -> Nat]
    /\ capacity \in [Conns -> 0 .. QueueDepth]
    /\ started \in [Conns -> BOOLEAN]
    /\ stillActive \in [Conns -> BOOLEAN]
    /\ stopRequested \in [Conns -> BOOLEAN]
    /\ prepared \in [Conns -> 0 .. MaxPkt]
    /\ queried \in [Conns -> BOOLEAN]
    /\ freeList \in Nat
    /\ count \in 0 .. maxCount
    /\ cwnd \in minCwnd .. maxCount
    /\ numOutStanding \in Int
    /\ numSharedOutStanding \in Int

-----------------------------------------------------------------------------
(* SetupUDPInterconnect: every connection takes its first buffer. *)
Init ==
    /\ pc = "run"
    /\ cur = 0
    /\ gotStops = FALSE
    /\ curBuff = [c \in Conns |-> TRUE]
    /\ sndQueue = [c \in Conns |-> 0]
    /\ unackQueue = [c \in Conns |-> 0]
    /\ capacity = [c \in Conns |-> QueueDepth]
    /\ started = [c \in Conns |-> FALSE]
    /\ stillActive = [c \in Conns |-> TRUE]
    /\ stopRequested = [c \in Conns |-> FALSE]
    /\ prepared = [c \in Conns |-> 0]
    /\ queried = [c \in Conns |-> FALSE]
    /\ freeList = 0
    /\ count = NumConns
    /\ cwnd = minCwnd
    /\ numOutStanding = 0
    /\ numSharedOutStanding = 0

-----------------------------------------------------------------------------
(* getSndBuffer: may connection c have a buffer? *)
BufferAvailable(c) ==
    /\ ~Loss => sndQueue[c] + unackQueue[c] < SndQueueDepth
    /\ freeList > 0 \/ count < maxCount

TakeBuffer ==
    IF freeList > 0
    THEN freeList' = freeList - 1 /\ count' = count
    ELSE freeList' = freeList /\ count' = count + 1

(* How often numSharedOutStanding is raised while the unack queue grows    *)
(* from length l to h: the test follows the append.                        *)
SharedAdded(l, h) == Cardinality({n \in (l + 1) .. h : n > 1})

(* Mutant: the length is tested before the packet is taken out. *)
SharedRemovedEarly(h, l) == Cardinality({n \in (l + 1) .. h : n >= 1})

(* How often it is lowered while the queue shrinks from h to l: the test   *)
(* follows the removal.                                                    *)
SharedRemoved(h, l) == Cardinality({n \in l .. (h - 1) : n >= 1})

(* Mutant: the window also holds back a connection with nothing out. *)
BlockedWithoutMinimum(snd, unack, cap, isStarted, shared, wnd) ==
    \/ cap <= 0
    \/ snd = 0
    \/ Loss /\ shared >= wnd - minCwnd
    \/ ~isStarted /\ unack >= 1

(* The test in sendBuffers that ends its loop. *)
Blocked(snd, unack, cap, isStarted, shared, wnd) ==
    \/ cap <= 0
    \/ snd = 0
    \/ Loss /\ unack > 0 /\ shared >= wnd - minCwnd
    \/ ~isStarted /\ unack >= 1

(* sendBuffers sends n packets of a connection in the given state. *)
SendsBuffers(n, snd, unack, cap, isStarted, shared, wnd) ==
    LET blocked(i) == Blocked(snd - i, unack + i, cap - i, isStarted,
                              shared + SharedAdded(unack, unack + i), wnd)
    IN  /\ n \in 0 .. snd
        /\ blocked(n)
        /\ \A i \in 0 .. (n - 1) : ~blocked(i)

(***************************************************************************)
(* The state of c after sendBuffers, called with snd packets in its send   *)
(* queue, unack in its unack queue and so on.                              *)
(***************************************************************************)
SendBuffers(c, snd, unack, cap, isStarted, out, shared, wnd) ==
    \E n \in 0 .. snd :
        /\ SendsBuffers(n, snd, unack, cap, isStarted, shared, wnd)
        /\ sndQueue' = [sndQueue EXCEPT ![c] = snd - n]
        /\ unackQueue' = [unackQueue EXCEPT ![c] = unack + n]
        /\ capacity' = [capacity EXCEPT ![c] = cap - n]
        /\ numOutStanding' = out + (IF Loss THEN n ELSE 0)
        /\ numSharedOutStanding' =
             shared + (IF Loss THEN SharedAdded(unack, unack + n) ELSE 0)

(* prepareXmit, append to the send queue, sendBuffers *)
PrepareAndSend(c) ==
    /\ prepared' = [prepared EXCEPT ![c] = @ + 1]
    /\ SendBuffers(c, sndQueue[c] + 1, unackQueue[c], capacity[c], started[c],
                   numOutStanding, numSharedOutStanding, cwnd)

(***************************************************************************)
(* SendChunkUDP with a chunk that does not fit into the current buffer, up *)
(* to its loop; one that fits changes nothing here.                        *)
(***************************************************************************)
SendChunk(c) ==
    /\ pc = "run"
    /\ stillActive[c]
    /\ prepared[c] < MaxPkt - 1
    /\ PrepareAndSend(c)
    /\ curBuff' = [curBuff EXCEPT ![c] = FALSE]
    /\ pc' = "wait"
    /\ cur' = c
    /\ gotStops' = FALSE
    /\ UNCHANGED <<started, stillActive, stopRequested, queried, freeList,
                   count, cwnd>>

(* Mutant: stops are handled as soon as they are seen. *)
GetBufferAfterStops ==
    /\ pc = "wait"
    /\ BufferAvailable(cur) \/ gotStops
    /\ IF gotStops
       THEN UNCHANGED <<freeList, count, curBuff>>
       ELSE TakeBuffer /\ curBuff' = [curBuff EXCEPT ![cur] = TRUE]
    /\ pc' = IF gotStops THEN "stops" ELSE "run"
    /\ UNCHANGED <<cur, gotStops, sndQueue, unackQueue, capacity, started,
                   stillActive, stopRequested, prepared, queried, cwnd,
                   numOutStanding, numSharedOutStanding>>

(* The loop ends: stops are looked at only now that there is a buffer. *)
GetBuffer ==
    /\ pc = "wait"
    /\ BufferAvailable(cur)
    /\ TakeBuffer
    /\ curBuff' = [curBuff EXCEPT ![cur] = TRUE]
    /\ pc' = IF gotStops THEN "stops" ELSE "run"
    /\ UNCHANGED <<cur, gotStops, sndQueue, unackQueue, capacity, started,
                   stillActive, stopRequested, prepared, queried, cwnd,
                   numOutStanding, numSharedOutStanding>>

-----------------------------------------------------------------------------
(* icBufferListReturn of both queues of c, and of extra more buffers. *)
ReturnBuffers(c, extra) ==
    /\ sndQueue' = [sndQueue EXCEPT ![c] = 0]
    /\ unackQueue' = [unackQueue EXCEPT ![c] = 0]
    /\ freeList' = freeList + sndQueue[c] + unackQueue[c] + extra
    /\ numOutStanding' = numOutStanding - (IF Loss THEN unackQueue[c] ELSE 0)
    /\ numSharedOutStanding' = numSharedOutStanding -
         (IF Loss THEN SharedRemoved(unackQueue[c], 0) ELSE 0)

(***************************************************************************)
(* handleStopMsgs, one connection: the end of stream that is prepared goes *)
(* with all other buffers of the connection back to the pool, unsent.      *)
(***************************************************************************)
HandleStopMsg(c) ==
    /\ pc = "stops"
    /\ stillActive[c]
    /\ stopRequested[c]
    /\ ReturnBuffers(c, IF curBuff[c] THEN 1 ELSE 0)
    /\ prepared' = [prepared EXCEPT ![c] = @ + 1]
    /\ started' = [started EXCEPT ![c] = TRUE]
    /\ curBuff' = [curBuff EXCEPT ![c] = FALSE]
    /\ stillActive' = [stillActive EXCEPT ![c] = FALSE]
    /\ stopRequested' = [stopRequested EXCEPT ![c] = FALSE]
    /\ UNCHANGED <<pc, cur, gotStops, capacity, queried, count, cwnd>>

(* The last poll of handleStopMsgs found no more stops. *)
StopsHandled ==
    /\ pc = "stops"
    /\ \A c \in Conns : ~(stillActive[c] /\ stopRequested[c])
    /\ pc' = "run"
    /\ gotStops' = FALSE
    /\ UNCHANGED <<cur, connVars, sharedVars>>

-----------------------------------------------------------------------------
(* SendEosUDP: flush the connections one after the other. *)
SendEos ==
    /\ pc = "run"
    /\ pc' = "flush"
    /\ UNCHANGED <<cur, gotStops, connVars, sharedVars>>

FlushEos(c) ==
    /\ pc = "flush"
    /\ stillActive[c]
    /\ curBuff[c]
    /\ PrepareAndSend(c)
    /\ curBuff' = [curBuff EXCEPT ![c] = FALSE]
    /\ UNCHANGED <<pc, cur, gotStops, started, stillActive, stopRequested,
                   queried, freeList, count, cwnd>>

Flushed ==
    /\ pc = "flush"
    /\ \A c \in Conns : ~(stillActive[c] /\ curBuff[c])
    /\ cur' = 0
    /\ pc' = IF \E c \in Conns : stillActive[c] THEN "eos" ELSE "done"
    /\ UNCHANGED <<gotStops, connVars, sharedVars>>

Drained(c) == sndQueue[c] = 0 /\ unackQueue[c] = 0

(* The wait for cur ends when it is drained or after MAX_TRY polls. *)
EosNext ==
    /\ pc = "eos"
    /\ stillActive' = IF Drained(cur) THEN [stillActive EXCEPT ![cur] = FALSE]
                                      ELSE stillActive
    /\ cur' = (cur + 1) % NumConns
    /\ pc' = IF cur' = 0 /\ \A c \in Conns : ~stillActive'[c] THEN "done" ELSE "eos"
    /\ UNCHANGED <<gotStops, curBuff, sndQueue, unackQueue, capacity, started,
                   stopRequested, prepared, queried, sharedVars>>

-----------------------------------------------------------------------------
(* The places where acknowledgments are read: pollAcks and handleAcks. *)
Polling == pc \in {"wait", "stops", "eos"}

(* Mutant: the acknowledged buffer is not given back to the pool. *)
AckedPacketsLeaking(c, k, m, wnd, send) ==
    LET unack == unackQueue[c] - k
        out == numOutStanding - (IF Loss THEN k ELSE 0)
        shared == numSharedOutStanding -
                    (IF Loss THEN SharedRemoved(unackQueue[c], unack) ELSE 0)
        isStarted == started[c] \/ k > 0
    IN  /\ freeList' = freeList
        /\ started' = [started EXCEPT ![c] = isStarted]
        /\ cwnd' = wnd
        /\ IF send
           THEN SendBuffers(c, sndQueue[c], unack, capacity[c] + m, isStarted,
                            out, shared, wnd)
           ELSE /\ unackQueue' = [unackQueue EXCEPT ![c] = unack]
                /\ capacity' = [capacity EXCEPT ![c] = @ + m]
                /\ numOutStanding' = out
                /\ numSharedOutStanding' = shared
                /\ UNCHANGED sndQueue

(* handleAckedPacket for k packets of c, then sendBuffers if send. *)
AckedPackets(c, k, m, wnd, send) ==
    LET unack == unackQueue[c] - k
        out == numOutStanding - (IF Loss THEN k ELSE 0)
        shared == numSharedOutStanding -
                    (IF Loss THEN SharedRemoved(unackQueue[c], unack) ELSE 0)
        isStarted == started[c] \/ k > 0
    IN  /\ freeList' = freeList + k
        /\ started' = [started EXCEPT ![c] = isStarted]
        /\ cwnd' = wnd
        /\ IF send
           THEN SendBuffers(c, sndQueue[c], unack, capacity[c] + m, isStarted,
                            out, shared, wnd)
           ELSE /\ unackQueue' = [unackQueue EXCEPT ![c] = unack]
                /\ capacity' = [capacity EXCEPT ![c] = @ + m]
                /\ numOutStanding' = out
                /\ numSharedOutStanding' = shared
                /\ UNCHANGED sndQueue

(* Windows after k acknowledgments: retried packets do not count. *)
Grown(k) == IF Loss THEN {w \in cwnd .. (cwnd + k) : w <= maxCount} ELSE {cwnd}

(* Packets of c that are consumed and not reported, after k were acked. *)
Unreported(c, k) == QueueDepth - capacity[c] - (unackQueue[c] - k)

(* handleAcks, a regular or duplicate acknowledgment that takes k packets  *)
(* out of the unack queue of c and reports m more packets as consumed.     *)
(* shouldSendBuffers may also be left over from an earlier message.        *)
HandleAck(c, k, m, stop) ==
    /\ Polling
    /\ k \in 0 .. unackQueue[c]
    /\ m \in 0 .. Unreported(c, k)
    /\ \E wnd \in Grown(k), send \in BOOLEAN :
         /\ k > 0 \/ m > 0 => send
         /\ AckedPackets(c, k, m, wnd, send)
    /\ LET stops == stop /\ stillActive[c] /\ ~stopRequested[c]
       IN  /\ stopRequested' = [stopRequested EXCEPT ![c] = @ \/ stops]
           /\ gotStops' = (gotStops \/ (stops /\ pc = "wait"))
    /\ queried' = [queried EXCEPT ![c] = @ /\ m = 0]
    /\ UNCHANGED <<pc, cur, curBuff, stillActive, prepared, count>>

(* Half of the window, rounded up, and at least the minimum. *)
Halved(wnd) == Max({(wnd + 1) \div 2, minCwnd})

(* handleAckForDisorderPkt: some packets are removed, others sent again. *)
HandleDisorderAck(c, k) ==
    /\ Polling
    /\ k \in 0 .. unackQueue[c]
    /\ \E wnd \in Grown(k), send \in BOOLEAN :
         /\ k > 0 => send
         /\ AckedPackets(c, k, 0, IF Loss THEN Halved(wnd) ELSE wnd, send)
    /\ UNCHANGED <<pc, cur, gotStops, curBuff, stillActive, stopRequested,
                   prepared, queried, count>>

(* checkExpiration: packets of any connection are sent again. *)
CheckExpiration ==
    /\ pc \in {"wait", "eos"}
    /\ Loss
    /\ \E c \in Conns : unackQueue[c] > 0
    /\ cwnd' = minCwnd
    /\ UNCHANGED <<pc, cur, gotStops, connVars, freeList, count,
                   numOutStanding, numSharedOutStanding>>

(* Mutant: the query is sent while packets are outstanding. *)
CheckDeadlockOutstanding ==
    /\ pc \in {"wait", "eos"}
    /\ unackQueue[cur] > 0 /\ capacity[cur] = 0 /\ sndQueue[cur] > 0
    /\ queried' = [queried EXCEPT ![cur] = TRUE]
    /\ UNCHANGED <<pc, cur, gotStops, curBuff, sndQueue, unackQueue, capacity,
                   started, stillActive, stopRequested, prepared, sharedVars>>

(* checkDeadlock looks only at the connection the thread works on. *)
CheckDeadlock ==
    /\ pc \in {"wait", "eos"}
    /\ unackQueue[cur] = 0 /\ capacity[cur] = 0 /\ sndQueue[cur] > 0
    /\ queried' = [queried EXCEPT ![cur] = TRUE]
    /\ UNCHANGED <<pc, cur, gotStops, curBuff, sndQueue, unackQueue, capacity,
                   started, stillActive, stopRequested, prepared, sharedVars>>

-----------------------------------------------------------------------------
(* The statement is over, or fails at a point where errors are raised. *)
Leave ==
    /\ pc \in {"run", "wait", "stops", "eos", "done"}
    /\ pc' = "teardown"
    /\ UNCHANGED <<cur, gotStops, connVars, sharedVars>>

(* TeardownUDPInterconnect, the loop over the connections ... *)
TeardownConn(c) ==
    /\ pc = "teardown"
    /\ ~Drained(c)
    /\ ReturnBuffers(c, 0)
    /\ UNCHANGED <<pc, cur, gotStops, curBuff, capacity, started, stillActive,
                   stopRequested, prepared, queried, count, cwnd>>

(* ... and cleanSndBufferPool. *)
Teardown ==
    /\ pc = "teardown"
    /\ \A c \in Conns : Drained(c)
    /\ pc' = "torn"
    /\ freeList' = 0
    /\ count' = 0
    /\ curBuff' = [c \in Conns |-> FALSE]
    /\ UNCHANGED <<cur, gotStops, sndQueue, unackQueue, capacity, started,
                   stillActive, stopRequested, prepared, queried, cwnd,
                   numOutStanding, numSharedOutStanding>>

-----------------------------------------------------------------------------
HandleAcks ==
    \E c \in Conns, k \in 0 .. MaxPkt :
        \/ \E m \in 0 .. QueueDepth, stop \in BOOLEAN : HandleAck(c, k, m, stop)
        \/ HandleDisorderAck(c, k)

Next ==
    \/ \E c \in Conns : SendChunk(c)
    \/ GetBuffer
    \/ \E c \in Conns : HandleStopMsg(c)
    \/ StopsHandled
    \/ SendEos
    \/ \E c \in Conns : FlushEos(c)
    \/ Flushed
    \/ EosNext
    \/ HandleAcks
    \/ CheckExpiration
    \/ CheckDeadlock
    \/ Leave
    \/ \E c \in Conns : TeardownConn(c)
    \/ Teardown

Spec == Init /\ [][Next]_vars

-----------------------------------------------------------------------------
(***************************************************************************)
(* Fairness.  The main thread runs.  A packet that is sent again and again *)
(* is acknowledged: with loss-based flow control the timing wheel resends  *)
(* the packets of all connections, otherwise only the head of the unack    *)
(* queue of the current connection is resent.  A status query is repeated  *)
(* and its answer reports what the consumer has taken since.               *)
(***************************************************************************)
Acked(c) ==
    /\ Loss \/ c = cur
    /\ \E k \in 1 .. MaxPkt, m \in 0 .. QueueDepth, stop \in BOOLEAN :
         HandleAck(c, k, m, stop)

Answered(c) ==
    /\ queried[c]
    /\ \E m \in 1 .. QueueDepth, stop \in BOOLEAN : HandleAck(c, 0, m, stop)

Fairness ==
    /\ WF_vars(GetBuffer)
    /\ WF_vars(\E c \in Conns : HandleStopMsg(c))
    /\ WF_vars(StopsHandled)
    /\ WF_vars(\E c \in Conns : FlushEos(c))
    /\ WF_vars(Flushed)
    /\ WF_vars(EosNext)
    /\ \A c \in Conns : SF_vars(Acked(c)) /\ SF_vars(Answered(c))
    /\ \A c \in Conns : SF_vars(CheckDeadlock /\ cur = c)

LiveSpec == Spec /\ Fairness

-----------------------------------------------------------------------------
(* The sum of f over the connections: the number of places <<c, n>> with n in
   1 .. f[c]. *)
PlacesOf(f, c) == {c} \X (1 .. f[c])
Total(f) == Cardinality(UNION {PlacesOf(f, c) : c \in Conns})

(* The buffers each connection holds, and its outstanding packets but one. *)
Held == [c \in Conns |-> (IF curBuff[c] THEN 1 ELSE 0) + sndQueue[c] + unackQueue[c]]
BeyondFirst == [c \in Conns |-> IF unackQueue[c] > 1 THEN unackQueue[c] - 1 ELSE 0]

(***************************************************************************)
(* No send buffer is lost or held twice: those in the pool and those the   *)
(* connections hold are all that were allocated, through acknowledgments,  *)
(* stops and the errors that end a statement.                              *)
(***************************************************************************)
BuffersAccounted == count = freeList + Total(Held)

(***************************************************************************)
(* numOutStanding and numSharedOutStanding, kept up in three functions by  *)
(* tests on the length of a list before or after a change, are what their  *)
(* comments say: all outstanding packets, and all but one of each          *)
(* connection.                                                             *)
(***************************************************************************)
CountersExact ==
    Loss => /\ numOutStanding = Total(unackQueue)
            /\ numSharedOutStanding = Total(BeyondFirst)

(***************************************************************************)
(* Whenever stops are handled, and whenever the executor may send, every   *)
(* active connection has a current buffer (the Assert of handleStopMsgs),  *)
(* and no stop is left over when the executor goes on.                     *)
(***************************************************************************)
ActiveHasBuffer ==
    /\ pc \in {"run", "stops"} => \A c \in Conns : stillActive[c] => curBuff[c]
    /\ pc = "run" => \A c \in Conns : ~(stillActive[c] /\ stopRequested[c])

(***************************************************************************)
(* A thread that waits for a buffer holds one itself, in the send or the   *)
(* unack queue of the connection it waits for.  This is why it is enough   *)
(* to resend and to query for this one connection though another one may   *)
(* hold all other buffers.                                                 *)
(***************************************************************************)
WaiterHoldsBuffer ==
    pc = "wait" /\ ~BufferAvailable(cur) => sndQueue[cur] + unackQueue[cur] > 0

(***************************************************************************)
(* However small the congestion window gets, a connection with packets to  *)
(* send and none outstanding lacks the receiver's credit and nothing else: *)
(* "a connection can have at least one outstanding buffer" (sendBuffers).  *)
(***************************************************************************)
MinimumBandwidth ==
    \A c \in Conns : sndQueue[c] > 0 /\ unackQueue[c] = 0 => capacity[c] = 0

Busy == pc \in {"wait", "stops", "flush", "eos"}

(***************************************************************************)
(* SendChunkUDP and SendEosUDP return, or the statement fails.             *)
(***************************************************************************)
SenderReturns == Busy ~> ~Busy
=============================================================================
