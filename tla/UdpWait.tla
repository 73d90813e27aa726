------------------------------- MODULE UdpWait -------------------------------
(***************************************************************************)
(* How the main thread of a receiving process waits for the rx thread in   *)
(* cdb/motion/ic_udp.c.  A process may receive for several motion nodes,   *)
(* each from several routes: an unordered motion reads from any route, a   *)
(* merging one from the route it asks for.  The main thread looks at the   *)
(* packet queues once; if there is nothing it records what it waits for in *)
(* mainWaitingState and sleeps on a condition variable.  From then on it   *)
(* only looks at reachRoute, after a signal or a timeout, never again at   *)
(* the queues: a wake-up that the rx thread does not record is lost.       *)
(*                                                                         *)
(* Everything here runs under ic_control_info.lock except the processing   *)
(* of a packet's chunks and the checks after a timeout; each of those is a *)
(* state of the main thread in which the rx thread goes on.                *)
(*                                                                         *)
(* A query that fails leaves mainWaitingState as it is: the next query of  *)
(* the process starts with it.  Datagrams, acknowledgments and the window  *)
(* of the sender are the subject of UdpConn.                               *)
(***************************************************************************)
EXTENDS Integers, FiniteSets

CONSTANTS
    Nodes,           \* motion nodes this process receives for
    Merging,         \* the ones that preserve the order of each route
    NumRoutes,       \* pEntry->numConns
    MaxPkt,          \* bound: packets of one stream, the last is its EOS
    QueueDepth,      \* Gp_interconnect_queue_depth
    MaxQuery         \* bound: queries that follow each other

ASSUME ConstAssumption ==
    /\ Merging \subseteq Nodes
    /\ NumRoutes \in Nat \ {0}
    /\ MaxPkt \in Nat \ {0}
    /\ QueueDepth \in Nat \ {0}
    /\ MaxQuery \in Nat \ {0}

Routes == 0 .. (NumRoutes - 1)
ANY_ROUTE == -1
Conns == Nodes \X Routes
Pkts == 1 .. MaxPkt
NoConn == <<>>

VARIABLES
    query,           \* ic_instance_id of the running query
    pc,              \* where the main thread is
    reading,         \* the connection whose packet it reads, or NoConn
    waitingState,    \* rx_control_info.mainWaitingState
    signalled,       \* the sleeping main thread has been signalled
    ring,            \* the packets in pkt_q of each connection
    consumed,        \* the last packet taken from it
    stillActive, endOfStream,
    scanStart,
    overtaken        \* history: reads of the node since its packet was ready

connVars == <<ring, consumed, stillActive, endOfStream>>
vars == <<query, pc, reading, waitingState, signalled, connVars, scanStart, overtaken>>

WaitingState ==
    [waiting : BOOLEAN, waitingQuery : -1 .. MaxQuery, waitingNode : Nodes \cup {-1},
     waitingRoute : Routes \cup {ANY_ROUTE}, reachRoute : Routes \cup {ANY_ROUTE}]

(***************************************************************************)
(* The types of the variables.                                             *)
(***************************************************************************)
TypeOK ==
    /\ query \in 1 .. MaxQuery
    /\ pc \in {"run", "wait", "timeout", "read", "put", "failed", "fatal"}
    /\ reading \in Conns \cup {NoConn}
    /\ waitingState \in WaitingState
    /\ signalled \in BOOLEAN
    /\ ring \in [Conns -> SUBSET Pkts]
    /\ consumed \in [Conns -> 0 .. MaxPkt]
    /\ stillActive \in [Conns -> BOOLEAN]
    /\ endOfStream \in [Conns -> BOOLEAN]
    /\ scanStart \in [Nodes -> 0 .. NumRoutes]
    /\ overtaken \in [Conns -> Nat]

FreshConns ==
    /\ ring' = [c \in Conns |-> {}]
    /\ consumed' = [c \in Conns |-> 0]
    /\ stillActive' = [c \in Conns |-> TRUE]
    /\ endOfStream' = [c \in Conns |-> FALSE]
    /\ scanStart' = [n \in Nodes |-> 0]
    /\ overtaken' = [c \in Conns |-> 0]

resetMainThreadWaiting ==
    [waiting |-> FALSE, waitingQuery |-> -1, waitingNode |-> -1,
     waitingRoute |-> ANY_ROUTE, reachRoute |-> ANY_ROUTE]

setMainThreadWaiting(n, r) ==
    [waiting |-> TRUE, waitingQuery |-> query, waitingNode |-> n,
     waitingRoute |-> r, reachRoute |-> ANY_ROUTE]

Init ==
    /\ query = 1
    /\ pc = "run"
    /\ reading = NoConn
    /\ waitingState = resetMainThreadWaiting
    /\ signalled = FALSE
    /\ ring = [c \in Conns |-> {}]
    /\ consumed = [c \in Conns |-> 0]
    /\ stillActive = [c \in Conns |-> TRUE]
    /\ endOfStream = [c \in Conns |-> FALSE]
    /\ scanStart = [n \in Nodes |-> 0]
    /\ overtaken = [c \in Conns |-> 0]

-----------------------------------------------------------------------------
(* The packet at pkt_q_head of connection c is there. *)
Ready(c) == consumed[c] + 1 \in ring[c]

(* pMNEntry->moreNetWork: not every sender's end of stream was received. *)
moreNetWork(n) == \E r \in Routes : ~endOfStream[<<n, r>>]

(* The history of waiting: a read for the node overtakes its other ready   *)
(* connections.                                                            *)
Overtake(c) ==
    [d \in Conns |-> IF d = c THEN 0
                     ELSE IF d[1] = c[1] /\ Ready(d) THEN overtaken[d] + 1
                     ELSE overtaken[d]]

(* prepareRxConnForRead, and the lock is released to process the packet. *)
PrepareRxConnForRead(c) ==
    /\ pc' = "read"
    /\ reading' = c
    /\ overtaken' = Overtake(c)

(* receiveChunksUDP: nothing is there, wait for node n and route r. *)
WaitFor(n, r) ==
    /\ waitingState' = setMainThreadWaiting(n, r)
    /\ pc' = "wait"
    /\ signalled' = FALSE
    /\ UNCHANGED <<reading, overtaken>>

(* The first ready route from scanStart on, round the ring of routes. *)
ScanOrder(n, r) == (r - scanStart[n] + NumRoutes) % NumRoutes

FirstReady(n, r) ==
    /\ Ready(<<n, r>>)
    /\ \A q \in Routes : Ready(<<n, q>>) => ScanOrder(n, r) <= ScanOrder(n, q)

(* Mutant: the scan always begins at the first route. *)
RecvTupleChunkFromAnyFromStart(n) ==
    /\ pc = "run"
    /\ n \notin Merging
    /\ moreNetWork(n)
    /\ \/ \E r \in Routes :
            /\ FirstReady(n, r)
            /\ PrepareRxConnForRead(<<n, r>>)
            /\ UNCHANGED <<scanStart, waitingState, signalled>>
       \/ /\ \A r \in Routes : ~Ready(<<n, r>>)
          /\ \E r \in Routes : stillActive[<<n, r>>]
          /\ WaitFor(n, ANY_ROUTE)
          /\ UNCHANGED scanStart
    /\ UNCHANGED <<query, connVars>>

(***************************************************************************)
(* RecvTupleFrom with ANY_ROUTE: RecvTupleChunkFromAnyUDP.  Without an     *)
(* active connection it returns nothing, and MlPutRxBuffer is called for   *)
(* route ANY_ROUTE.                                                        *)
(***************************************************************************)
RecvTupleChunkFromAny(n) ==
    /\ pc = "run"
    /\ n \notin Merging
    /\ moreNetWork(n)
    /\ \/ \E r \in Routes :
            /\ FirstReady(n, r)
            /\ PrepareRxConnForRead(<<n, r>>)
            /\ scanStart' = [scanStart EXCEPT ![n] = r + 1]
            /\ UNCHANGED <<waitingState, signalled>>
       \/ /\ \A r \in Routes : ~Ready(<<n, r>>)
          /\ \E r \in Routes : stillActive[<<n, r>>]
          /\ WaitFor(n, ANY_ROUTE)
          /\ UNCHANGED scanStart
       \/ /\ \A r \in Routes : ~Ready(<<n, r>>) /\ ~stillActive[<<n, r>>]
          /\ pc' = "fatal"
          /\ UNCHANGED <<reading, waitingState, signalled, scanStart, overtaken>>
    /\ UNCHANGED <<query, connVars>>

(* RecvTupleFrom with a route: RecvTupleChunkFromUDP. *)
RecvTupleChunkFrom(n, r) ==
    /\ pc = "run"
    /\ n \in Merging
    /\ ~endOfStream[<<n, r>>]
    /\ \/ /\ stillActive[<<n, r>>]
          /\ Ready(<<n, r>>)
          /\ PrepareRxConnForRead(<<n, r>>)
          /\ UNCHANGED <<waitingState, signalled>>
       \/ /\ stillActive[<<n, r>>]
          /\ ~Ready(<<n, r>>)
          /\ WaitFor(n, r)
       \/ /\ ~stillActive[<<n, r>>]
          /\ pc' = "fatal"
          /\ UNCHANGED <<reading, waitingState, signalled, overtaken>>
    /\ UNCHANGED <<query, connVars, scanStart>>

(***************************************************************************)
(* The loop of receiveChunksUDP with the lock held: read from the route    *)
(* that was reached, or sleep again.                                       *)
(***************************************************************************)
LoopAgain ==
    LET n == waitingState.waitingNode
        r == waitingState.reachRoute
    IN  IF r = ANY_ROUTE
        THEN /\ pc' = "wait"
             /\ UNCHANGED <<reading, waitingState, scanStart, overtaken>>
        ELSE /\ PrepareRxConnForRead(<<n, r>>)
             /\ waitingState' = resetMainThreadWaiting
             /\ scanStart' = IF n \in Merging THEN scanStart
                             ELSE [scanStart EXCEPT ![n] = r + 1]

WakeUp ==
    /\ pc = "wait"
    /\ signalled
    /\ signalled' = FALSE
    /\ LoopAgain
    /\ UNCHANGED <<query, connVars>>

(* waitOnCondition times out; the lock is released for the checks. *)
Timeout ==
    /\ pc = "wait"
    /\ pc' = "timeout"
    /\ signalled' = FALSE
    /\ UNCHANGED <<query, reading, waitingState, connVars, scanStart, overtaken>>

(* No error, interrupt or cancel was found: lock again. *)
RetryAfterTimeout ==
    /\ pc = "timeout"
    /\ LoopAgain
    /\ UNCHANGED <<query, signalled, connVars>>

(* An error of the rx thread, an interrupt, a cancelled query, or a lost   *)
(* connection to the QD ends the query.                                    *)
FailAfterTimeout ==
    /\ pc = "timeout"
    /\ pc' = "failed"
    /\ UNCHANGED <<query, reading, waitingState, signalled, connVars, scanStart, overtaken>>

(* Teardown, and the setup of the next query. *)
NextQuery ==
    /\ pc = "failed"
    /\ query < MaxQuery
    /\ query' = query + 1
    /\ pc' = "run"
    /\ FreshConns
    /\ UNCHANGED <<reading, waitingState, signalled>>

(* Mutant: the end of stream closes the connection but is not counted. *)
ProcessChunksForgetsEos ==
    /\ pc = "read"
    /\ pc' = "put"
    /\ stillActive' = [stillActive EXCEPT ![reading] = consumed[reading] + 1 # MaxPkt]
    /\ UNCHANGED <<query, reading, waitingState, signalled, ring, consumed, endOfStream,
                   scanStart, overtaken>>

(***************************************************************************)
(* RecvTupleChunk and addChunkToSorter, without the lock.  The end of the  *)
(* stream deregisters the read interest.                                   *)
(***************************************************************************)
ProcessIncomingChunks ==
    /\ pc = "read"
    /\ pc' = "put"
    /\ IF consumed[reading] + 1 = MaxPkt
       THEN /\ endOfStream' = [endOfStream EXCEPT ![reading] = TRUE]
            /\ stillActive' = [stillActive EXCEPT ![reading] = FALSE]
       ELSE UNCHANGED <<endOfStream, stillActive>>
    /\ UNCHANGED <<query, reading, waitingState, signalled, ring, consumed, scanStart,
                   overtaken>>

(* MlPutRxBuffer *)
MlPutRxBuffer ==
    /\ pc = "put"
    /\ pc' = "run"
    /\ reading' = NoConn
    /\ ring' = [ring EXCEPT ![reading] = @ \ {consumed[reading] + 1}]
    /\ consumed' = [consumed EXCEPT ![reading] = @ + 1]
    /\ UNCHANGED <<query, waitingState, signalled, stillActive, endOfStream, scanStart,
                   overtaken>>

-----------------------------------------------------------------------------
(* handleDataPacket keeps packet p of connection c. *)
Accepts(c, p) ==
    /\ stillActive[c]
    /\ p \in (consumed[c] + 1) .. (consumed[c] + QueueDepth)
    /\ p \notin ring[c]

(* Mutant: packets of every motion node wake the main thread. *)
WakeMainIgnoringNode(c, toWakeup) ==
    LET w == waitingState
        r == c[2]
    IN  IF w.waiting /\ w.waitingQuery = query /\ toWakeup
        THEN /\ signalled' = (pc = "wait")
             /\ waitingState' =
                  IF \/ w.waitingRoute = ANY_ROUTE /\ w.reachRoute = ANY_ROUTE
                     \/ w.waitingRoute = r
                  THEN [w EXCEPT !.reachRoute = r] ELSE w
        ELSE UNCHANGED <<waitingState, signalled>>

(* Mutant: the reached route is recorded for a sleeping thread only. *)
WakeMainUnrecorded(c, toWakeup) ==
    LET w == waitingState
        r == c[2]
    IN  IF /\ w.waiting /\ w.waitingNode = c[1] /\ w.waitingQuery = query
           /\ pc = "wait" /\ toWakeup
        THEN /\ signalled' = TRUE
             /\ waitingState' =
                  IF \/ w.waitingRoute = ANY_ROUTE /\ w.reachRoute = ANY_ROUTE
                     \/ w.waitingRoute = r
                  THEN [w EXCEPT !.reachRoute = r] ELSE w
        ELSE UNCHANGED <<waitingState, signalled>>

(***************************************************************************)
(* The end of handleDataPacket.  A signal finds only a thread that sleeps. *)
(***************************************************************************)
WakeMain(c, toWakeup) ==
    LET w == waitingState
        r == c[2]
    IN  IF w.waiting /\ w.waitingNode = c[1] /\ w.waitingQuery = query /\ toWakeup
        THEN /\ waitingState' =
                  IF \/ w.waitingRoute = ANY_ROUTE /\ w.reachRoute = ANY_ROUTE
                     \/ w.waitingRoute = r
                  THEN [w EXCEPT !.reachRoute = r] ELSE w
             /\ signalled' = (pc = "wait")
        ELSE UNCHANGED <<waitingState, signalled>>

HandleDataPacket(c, p) ==
    /\ Accepts(c, p)
    /\ ring' = [ring EXCEPT ![c] = @ \cup {p}]
    /\ WakeMain(c, p = consumed[c] + 1)
    /\ UNCHANGED <<query, pc, reading, consumed, stillActive, endOfStream, scanStart,
                   overtaken>>

-----------------------------------------------------------------------------
Recv(n) == RecvTupleChunkFromAny(n) \/ \E r \in Routes : RecvTupleChunkFrom(n, r)

MainThread ==
    \/ \E n \in Nodes : Recv(n)
    \/ WakeUp
    \/ Timeout
    \/ RetryAfterTimeout
    \/ FailAfterTimeout
    \/ NextQuery
    \/ ProcessIncomingChunks
    \/ MlPutRxBuffer

Next ==
    \/ MainThread
    \/ \E c \in Conns, p \in Pkts : HandleDataPacket(c, p)

Spec == Init /\ [][Next]_vars

(***************************************************************************)
(* Fairness.  Both threads run; every packet of a stream arrives once the  *)
(* ring has room for it (UdpConn); and the executor goes on reading from   *)
(* every node and route until its stream ends.  A timeout, an error and a  *)
(* next query need not happen.                                             *)
(***************************************************************************)
Fairness ==
    /\ WF_vars(WakeUp \/ Timeout)
    /\ WF_vars(RetryAfterTimeout \/ FailAfterTimeout)
    /\ WF_vars(ProcessIncomingChunks)
    /\ WF_vars(MlPutRxBuffer)
    /\ \A n \in Nodes : SF_vars(RecvTupleChunkFromAny(n))
    /\ \A c \in Conns : SF_vars(RecvTupleChunkFrom(c[1], c[2]))
    /\ \A c \in Conns, p \in Pkts : WF_vars(HandleDataPacket(c, p))

LiveSpec == Spec /\ Fairness

-----------------------------------------------------------------------------
Waiting == pc \in {"wait", "timeout"}

(***************************************************************************)
(* No wake-up is lost: while the main thread waits and no route is         *)
(* recorded as reached, no connection it waits for has its next packet.    *)
(* receiveChunksUDP would not look at the queues again.                    *)
(***************************************************************************)
NoLostWakeup ==
    Waiting /\ waitingState.reachRoute = ANY_ROUTE =>
        \A r \in Routes : waitingState.waitingRoute \in {ANY_ROUTE, r} =>
            ~Ready(<<waitingState.waitingNode, r>>)

(***************************************************************************)
(* A main thread that sleeps although a route was reached has a signal     *)
(* pending: it does not have to wait for its timeout.                      *)
(***************************************************************************)
SignalPending ==
    pc = "wait" /\ waitingState.reachRoute # ANY_ROUTE => signalled

(***************************************************************************)
(* The assertion of prepareRxConnForRead, for a route reached while the    *)
(* main thread waited: the packet at the head of that route of the awaited *)
(* node is there, whatever other nodes, routes and earlier queries         *)
(* received meanwhile.                                                     *)
(***************************************************************************)
ReachedIsReady ==
    Waiting /\ waitingState.reachRoute # ANY_ROUTE =>
        /\ Ready(<<waitingState.waitingNode, waitingState.reachRoute>>)
        /\ waitingState.waitingRoute \in {ANY_ROUTE, waitingState.reachRoute}

(***************************************************************************)
(* MlPutRxBuffer always finds the buffer it releases: the packet read is   *)
(* still at the head of its queue, and processIncomingChunks is never      *)
(* called when no connection is left to read from ("tried to release a     *)
(* NULL buffer").                                                          *)
(***************************************************************************)
BufferToRelease ==
    /\ pc # "fatal"
    /\ pc \in {"read", "put"} => reading # NoConn /\ Ready(reading)

(***************************************************************************)
(* An unordered motion is fair to its routes: a ready connection is        *)
(* overtaken by each other route of its node at most once.                 *)
(***************************************************************************)
BoundedOvertaking ==
    \A c \in Conns : c[1] \notin Merging => overtaken[c] < NumRoutes

(***************************************************************************)
(* What the proof of the invariants above rests on (UdpWaitProofs): while  *)
(* the main thread waits, mainWaitingState is its own, not that of a       *)
(* failed query, and a connection is active until its end of stream.       *)
(***************************************************************************)
WaitsForItself ==
    Waiting => /\ waitingState.waiting
               /\ waitingState.waitingQuery = query
               /\ waitingState.waitingNode \in Nodes

ActiveUntilEnd == \A c \in Conns : stillActive[c] <=> ~endOfStream[c]

IndInv ==
    /\ TypeOK
    /\ WaitsForItself
    /\ ActiveUntilEnd
    /\ NoLostWakeup
    /\ ReachedIsReady
    /\ SignalPending
    /\ BufferToRelease

(***************************************************************************)
(* What the proof of BoundedOvertaking rests on: only a ready connection   *)
(* is overtaken, every read that overtakes it brings the scan nearer to    *)
(* it, and a thread that waits for a node has left nothing ready there.    *)
(***************************************************************************)
OvertakenIsReady ==
    /\ \A c \in Conns : overtaken[c] > 0 => Ready(c)
    /\ pc \in {"read", "put"} => overtaken[reading] = 0

WaitedIsNotOvertaken ==
    Waiting /\ waitingState.waitingNode \notin Merging =>
        \A r \in Routes : overtaken[<<waitingState.waitingNode, r>>] = 0

ScanComesNearer ==
    \A n \in Nodes \ Merging, r \in Routes :
        overtaken[<<n, r>>] > 0 => overtaken[<<n, r>>] + ScanOrder(n, r) < NumRoutes

OvertakingInv == OvertakenIsReady /\ WaitedIsNotOvertaken /\ ScanComesNearer

(***************************************************************************)
(* Every stream is read to its end unless the query fails.                 *)
(***************************************************************************)
EveryStreamEnds == <>((\A c \in Conns : endOfStream[c]) \/ pc = "failed")
=============================================================================
