----------------------------- MODULE UdpInstance -----------------------------
(***************************************************************************)
(* The life of interconnect instances in one receiving process of          *)
(* cdb/motion/ic_udp.c: every statement (on the QD, every open cursor)     *)
(* sets up an instance, receives from a set of senders and tears it down,  *)
(* while the rx thread goes on receiving packets of instances that are     *)
(* over or not set up yet ("ACK the past, NAK the future") and takes its   *)
(* buffers from a pool whose limit follows the connections.                *)
(*                                                                         *)
(* A connection is reduced to what its buffers depend on: the packets in   *)
(* its ring, how far it has consumed them, and on the sender's side the    *)
(* window of UdpConn.  Selective acknowledgments, stops by the executor    *)
(* and status queries are UdpConn's subject.  The wire keeps every packet  *)
(* sent: it may be delivered never, late, and many times.                  *)
(*                                                                         *)
(* Setup, teardown and the handling of one packet run under                *)
(* ic_control_info.lock and are one step each.                             *)
(***************************************************************************)
EXTENDS Integers, FiniteSets, FiniteSetsExt

CONSTANTS
    Senders,         \* the processes of the sending slice
    MaxIc,           \* bound: number of instances
    MaxPkt,          \* bound: packets of one stream, the last is its EOS
    LaterPkt,        \* bound: the same after the first instance
    QueueDepth,      \* Gp_interconnect_queue_depth
    Role,            \* Gp_role: "QD" (GP_ROLE_DISPATCH) or "QE" (GP_ROLE_EXECUTE)
    CacheFuture,     \* gp_interconnect_cache_future_packets
    PruneLimit,      \* 2 * CURSOR_IC_TABLE_SIZE
    MaxXact          \* bound: number of transactions

ASSUME ConstAssumption ==
    /\ IsFiniteSet(Senders)
    /\ MaxIc \in Nat \ {0}
    /\ MaxPkt \in Nat \ {0}
    /\ LaterPkt \in 1 .. MaxPkt
    /\ QueueDepth \in Nat \ {0}
    /\ Role \in {"QD", "QE"}
    /\ CacheFuture \in BOOLEAN
    /\ PruneLimit \in Nat
    /\ MaxXact \in Nat

VARIABLES
    (* the receiving process *)
    nextIc,          \* the instance its main thread will meet next
    gpInterconnectId,
    lastTornIcId,
    history,         \* cursorHistoryTable: "none", or the status of the entry
    xact, lastDXatId,
    connHtab,        \* connections, <<instance, sender>>
    failing,         \* instances whose setup raised an error, not torn down yet
    noQueue,         \* of those, the ones whose last connection has no pkt_q
    aborted,         \* instances that failed here before they were set up
    ring,            \* the packets in pkt_q of each connection
    consumed,        \* conn_info.extraSeq of each connection
    (* rx_buffer_pool and the packet of the rx thread *)
    count, maxCount, freeList,
    rxPkt,           \* 1 if the rx thread holds a buffer, else 0
    startupCache,    \* the packets in startupCacheHtab
    rxError, fatal,
    (* the senders *)
    sphase, sent, acked, credit,
    acks             \* acknowledgments on the wire

procVars == <<nextIc, gpInterconnectId, lastTornIcId, history, xact, lastDXatId,
              failing, noQueue, aborted>>
connVars == <<connHtab, ring, consumed>>
poolVars == <<count, maxCount, freeList, rxPkt, startupCache, rxError, fatal>>
sndVars == <<sphase, sent, acked, credit>>
vars == <<procVars, connVars, poolVars, sndVars, acks>>

Ics == 1 .. MaxIc
Pkts == 1 .. MaxPkt
EosSeq(i) == IF i = 1 THEN MaxPkt ELSE LaterPkt
Conns == Ics \X Senders
AckMsg == [conn : Conns, seq : 0 .. MaxPkt, extraSeq : 0 .. MaxPkt, stop : BOOLEAN]

(***************************************************************************)
(* The types of the variables.                                             *)
(***************************************************************************)
TypeOK ==
    /\ nextIc \in 1 .. (MaxIc + 1)
    /\ gpInterconnectId \in 0 .. MaxIc
    /\ lastTornIcId \in 0 .. MaxIc
    /\ history \in [Ics -> {"none", "active", "torn"}]
    /\ xact \in 0 .. MaxXact
    /\ lastDXatId \in 0 .. MaxXact
    /\ connHtab \subseteq Conns
    /\ failing \subseteq Ics
    /\ noQueue \subseteq failing
    /\ aborted \subseteq Ics
    /\ ring \in [Conns -> SUBSET Pkts]
    /\ consumed \in [Conns -> 0 .. MaxPkt]
    /\ count \in Nat /\ maxCount \in Nat /\ freeList \in Nat
    /\ rxPkt \in 0 .. 1
    /\ startupCache \subseteq Conns \X Pkts
    /\ rxError \in BOOLEAN /\ fatal \in BOOLEAN
    /\ sphase \in [Conns -> {"idle", "run", "done"}]
    /\ sent \in [Conns -> 0 .. MaxPkt]
    /\ acked \in [Conns -> 0 .. MaxPkt]
    /\ credit \in [Conns -> 0 .. MaxPkt]
    /\ acks \subseteq AckMsg

Init ==
    /\ nextIc = 1
    /\ gpInterconnectId = 0
    /\ lastTornIcId = 0
    /\ history = [i \in Ics |-> "none"]
    /\ xact = 0
    /\ lastDXatId = 0
    /\ connHtab = {}
    /\ failing = {}
    /\ noQueue = {}
    /\ aborted = {}
    /\ ring = [c \in Conns |-> {}]
    /\ consumed = [c \in Conns |-> 0]
    /\ count = 0
    /\ maxCount = 1
    /\ freeList = 0
    /\ rxPkt = 0
    /\ startupCache = {}
    /\ rxError = FALSE
    /\ fatal = FALSE
    /\ sphase = [c \in Conns |-> "idle"]
    /\ sent = [c \in Conns |-> 0]
    /\ acked = [c \in Conns |-> 0]
    /\ credit = [c \in Conns |-> 0]
    /\ acks = {}

-----------------------------------------------------------------------------
(* The senders *)

StartSender(c) ==
    /\ sphase[c] = "idle"
    /\ \A i \in 1 .. (c[1] - 1) : sphase[<<i, c[2]>>] = "done"
    /\ sphase' = [sphase EXCEPT ![c] = "run"]
    /\ UNCHANGED <<procVars, connVars, poolVars, sent, acked, credit, acks>>

(* Mutant: the credit is not asked for. *)
SendUnlimited(c) ==
    /\ sphase[c] = "run"
    /\ sent[c] < EosSeq(c[1])
    /\ sent[c] > 0 => acked[c] > 0
    /\ sent' = [sent EXCEPT ![c] = @ + 1]
    /\ UNCHANGED <<procVars, connVars, poolVars, sphase, acked, credit, acks>>

(* One packet more, within the credit, one at a time during setup. *)
Send(c) ==
    /\ sphase[c] = "run"
    /\ sent[c] < EosSeq(c[1])
    /\ sent[c] < credit[c] + QueueDepth
    /\ sent[c] > 0 => acked[c] > 0
    /\ sent' = [sent EXCEPT ![c] = @ + 1]
    /\ UNCHANGED <<procVars, connVars, poolVars, sphase, acked, credit, acks>>

(* handleAcks takes an acknowledgment of the running instance only; a stop *)
(* ends the stream unless the sender is in SendEosUDP.                     *)
HandleAck(m) ==
    /\ m \in acks
    /\ sphase[m.conn] = "run"
    /\ acked' = [acked EXCEPT ![m.conn] = Max({@, m.seq})]
    /\ credit' = [credit EXCEPT ![m.conn] = Max({@, m.extraSeq})]
    /\ \/ UNCHANGED sphase
       \/ m.stop /\ sphase' = [sphase EXCEPT ![m.conn] = "done"]
    /\ UNCHANGED <<procVars, connVars, poolVars, sent, acks>>

SendEosReturns(c) ==
    /\ sphase[c] = "run"
    /\ acked[c] = EosSeq(c[1])
    /\ sphase' = [sphase EXCEPT ![c] = "done"]
    /\ UNCHANGED <<procVars, connVars, poolVars, sent, acked, credit, acks>>

(* External: the dispatcher cancels the senders of a statement whose       *)
(* receiver failed.                                                        *)
Cancel(c) ==
    /\ sphase[c] # "done"
    /\ c[1] \in aborted
    /\ \A i \in 1 .. (c[1] - 1) : sphase[<<i, c[2]>>] = "done"
    /\ sphase' = [sphase EXCEPT ![c] = "done"]
    /\ UNCHANGED <<procVars, connVars, poolVars, sent, acked, credit, acks>>

-----------------------------------------------------------------------------
(* The rx thread *)

(* Mutant: no buffer is allocated at the limit. *)
GetRxBufferBelowLimit ==
    /\ rxPkt = 0
    /\ \/ /\ freeList > 0
          /\ freeList' = freeList - 1
          /\ rxPkt' = 1
          /\ UNCHANGED <<count, rxError>>
       \/ /\ freeList = 0
          /\ count < maxCount - 1
          /\ count' = count + 1
          /\ rxPkt' = 1
          /\ UNCHANGED <<freeList, rxError>>
       \/ /\ freeList = 0
          /\ count >= maxCount - 1
          /\ rxError' = TRUE
          /\ UNCHANGED <<count, freeList, rxPkt>>
    /\ UNCHANGED <<procVars, connVars, maxCount, startupCache, fatal, sndVars, acks>>

(***************************************************************************)
(* getRxBuffer: from the free list, or allocated, or none; without one the *)
(* rx thread sets an error for the main thread.                            *)
(***************************************************************************)
GetRxBuffer ==
    /\ rxPkt = 0
    /\ \/ /\ freeList > 0
          /\ freeList' = freeList - 1
          /\ rxPkt' = 1
          /\ UNCHANGED <<count, rxError>>
       \/ /\ freeList = 0
          /\ count <= maxCount
          /\ count' = count + 1
          /\ rxPkt' = 1
          /\ UNCHANGED <<freeList, rxError>>
       \/ /\ freeList = 0
          /\ count > maxCount
          /\ rxError' = TRUE
          /\ UNCHANGED <<count, freeList, rxPkt>>
    /\ UNCHANGED <<procVars, connVars, maxCount, startupCache, fatal, sndVars, acks>>

(* The packets received in sequence when the ring of c holds r. *)
InSequence(c, r) ==
    Max({n \in 0 .. MaxPkt : \A k \in 1 .. n : k <= consumed[c] \/ k \in r})

Wanted(c, p) ==
    /\ p \in (consumed[c] + 1) .. (consumed[c] + QueueDepth)
    /\ p \notin ring[c]

AckOf(c, r, extra) ==
    [conn |-> c, seq |-> InSequence(c, r), extraSeq |-> extra, stop |-> FALSE]

(***************************************************************************)
(* handleDataPacket: a wanted packet keeps its buffer.  A packet in        *)
(* sequence, and an old one, is acknowledged; one beyond the window is     *)
(* dropped.                                                                *)
(***************************************************************************)
HandleDataPacket(c, p) ==
    /\ rxPkt = 1
    /\ c \in connHtab
    /\ p <= sent[c]
    /\ LET r == ring[c] \cup {p}
       IN  IF Wanted(c, p)
           THEN /\ ring' = [ring EXCEPT ![c] = r]
                /\ rxPkt' = 0
                /\ acks' = IF p <= InSequence(c, r)
                           THEN acks \cup {AckOf(c, r, consumed[c])} ELSE acks
           ELSE /\ p <= InSequence(c, ring[c])
                /\ acks' = acks \cup {AckOf(c, ring[c], consumed[c])}
                /\ UNCHANGED <<ring, rxPkt>>
    /\ UNCHANGED <<procVars, connHtab, consumed, count, maxCount, freeList,
                   startupCache, rxError, fatal, sndVars>>

(* Mutant: whatever is not the running instance is past. *)
PastUnlessRunning(i) ==
    IF Role = "QD" THEN history[i] # "active" ELSE i # gpInterconnectId \/ i <= lastTornIcId

(* Mutant: the instance torn down last is not past yet. *)
PastButLast(i) ==
    IF Role = "QD" THEN history[i] = "torn"
                   ELSE i <= gpInterconnectId /\ i < lastTornIcId

(* Mutant: on a QD, an instance that is set up counts as torn down. *)
PastOnceKnown(i) ==
    IF Role = "QD" THEN history[i] # "none" ELSE i <= gpInterconnectId

(* handleMismatch: which instances are past, and which are future. *)
Past(i) ==
    IF Role = "QD" THEN history[i] = "torn"
                   ELSE i <= gpInterconnectId /\ i <= lastTornIcId

Future(i) ==
    IF Role = "QD" THEN history[i] = "none" ELSE i > gpInterconnectId

AckThePast(c, p) ==
    /\ rxPkt = 1
    /\ c \notin connHtab
    /\ p \in 1 .. sent[c]
    /\ Past(c[1])
    /\ acks' = acks \cup {[conn |-> c, seq |-> p, extraSeq |-> p, stop |-> TRUE]}
    /\ UNCHANGED <<procVars, connVars, poolVars, sndVars>>

(* cacheFuturePacket *)
CacheFuturePacket(c, p) ==
    /\ CacheFuture
    /\ rxPkt = 1
    /\ c \notin connHtab
    /\ p \in 1 .. sent[c]
    /\ Future(c[1])
    /\ p <= QueueDepth
    /\ <<c, p>> \notin startupCache
    /\ startupCache' = startupCache \cup {<<c, p>>}
    /\ maxCount' = maxCount + 1
    /\ rxPkt' = 0
    /\ UNCHANGED <<procVars, connVars, count, freeList, rxError, fatal, sndVars, acks>>

-----------------------------------------------------------------------------
(* The main thread *)

(***************************************************************************)
(* handleCachedPackets at the end of setup: every cached packet leaves the *)
(* cache; one of a connection now set up goes to its ring.                 *)
(***************************************************************************)
CachedFor(c) == {p \in Pkts : <<c, p>> \in startupCache}

HandleCachedPackets(conns) ==
    LET kept == {e \in startupCache : e[1] \in conns /\ Wanted(e[1], e[2])}
        upTo(c, p) == ring[c] \cup {q \in CachedFor(c) : q <= p}
    IN  /\ startupCache' = {}
        /\ maxCount' = maxCount + QueueDepth * Cardinality(conns \ connHtab)
                                - Cardinality(startupCache)
        /\ freeList' = freeList + Cardinality(startupCache \ kept)
        /\ ring' = [c \in Conns |-> ring[c] \cup {p \in Pkts : <<c, p>> \in kept}]
        /\ acks' = acks \cup
              {AckOf(e[1], upTo(e[1], e[2]), consumed[e[1]]) :
                  e \in {f \in startupCache :
                            /\ f[1] \in conns
                            /\ f[2] <= InSequence(f[1], upTo(f[1], f[2]))}}

(* What setup does before it looks at any connection. *)
SetupStarts(i) ==
    /\ i = nextIc
    /\ i \in Ics
    /\ Role = "QE" => connHtab = {} /\ failing = {}
    /\ nextIc' = nextIc + 1
    /\ gpInterconnectId' = i
    /\ IF Role = "QD"
       THEN /\ LET prune == /\ xact # lastDXatId
                            /\ Cardinality({j \in Ics : history[j] # "none"}) > PruneLimit
               IN  history' = [j \in Ics |-> IF j = i THEN "active"
                                             ELSE IF prune /\ j < i THEN "none"
                                             ELSE history[j]]
            /\ lastDXatId' = xact
       ELSE UNCHANGED <<history, lastDXatId>>
    /\ rxError' = FALSE

(* Mutant: cached packets are forgotten without lowering the limit. *)
SetupLeaksLimit(i) ==
    /\ SetupStarts(i)
    /\ connHtab' = connHtab \cup ({i} \X Senders)
    /\ startupCache' = {}
    /\ maxCount' = maxCount + QueueDepth * Cardinality(Senders)
    /\ freeList' = freeList + Cardinality(startupCache)
    /\ UNCHANGED <<lastTornIcId, xact, failing, noQueue, aborted, ring, consumed, count,
                   rxPkt, fatal, sndVars, acks>>

(* SetupUDPInterconnect *)
Setup(i) ==
    /\ SetupStarts(i)
    /\ connHtab' = connHtab \cup ({i} \X Senders)
    /\ IF CacheFuture
       THEN HandleCachedPackets(connHtab \cup ({i} \X Senders))
       ELSE /\ maxCount' = maxCount + QueueDepth * Cardinality(Senders)
            /\ UNCHANGED <<startupCache, freeList, ring, acks>>
    /\ UNCHANGED <<lastTornIcId, xact, failing, noQueue, aborted, consumed, count, rxPkt,
                   fatal, sndVars>>

(***************************************************************************)
(* An error in setup, after the connections to `some' senders were made;   *)
(* out of memory for pkt_q strikes after maxCount was raised for one more. *)
(***************************************************************************)
SetupFails(i) ==
    /\ SetupStarts(i)
    /\ \E some \in SUBSET Senders, outOfMemory \in BOOLEAN :
        /\ outOfMemory => some # Senders
        /\ connHtab' = connHtab \cup ({i} \X some)
        /\ maxCount' = maxCount + QueueDepth *
                         (Cardinality(some) + IF outOfMemory THEN 1 ELSE 0)
        /\ failing' = failing \cup {i}
        /\ aborted' = aborted \cup {i}
        /\ noQueue' = IF outOfMemory THEN noQueue \cup {i} ELSE noQueue
    /\ UNCHANGED <<lastTornIcId, xact, ring, consumed, count, freeList, rxPkt,
                   startupCache, fatal, sndVars, acks>>

(* The statement fails on this process before it reaches setup. *)
Skip(i) ==
    /\ i = nextIc
    /\ i \in Ics
    /\ Role = "QE" => connHtab = {} /\ failing = {}
    /\ nextIc' = nextIc + 1
    /\ aborted' = aborted \cup {i}
    /\ UNCHANGED <<gpInterconnectId, lastTornIcId, history, xact, lastDXatId,
                   failing, noQueue, connVars, poolVars, sndVars, acks>>

AcksConsumption(s) == s % 2 = 0 \/ QueueDepth = 1

(* MlPutRxBuffer, putRxBufferAndSendAck *)
Consume(c) ==
    /\ c \in connHtab
    /\ c[1] \notin failing
    /\ consumed[c] + 1 \in ring[c]
    /\ ring' = [ring EXCEPT ![c] = @ \ {consumed[c] + 1}]
    /\ consumed' = [consumed EXCEPT ![c] = @ + 1]
    /\ freeList' = freeList + 1
    /\ acks' = IF AcksConsumption(consumed'[c])
               THEN acks \cup {AckOf(c, ring[c], consumed'[c])} ELSE acks
    /\ UNCHANGED <<procVars, connHtab, count, maxCount, rxPkt, startupCache,
                   rxError, fatal, sndVars>>

(***************************************************************************)
(* TeardownUDPInterconnect: the startup cache and the rings go to the free *)
(* list, which is then pruned to the new limit.  On the QD it follows the  *)
(* wait for all processes of the statement (dispatch_wait).                *)
(***************************************************************************)
InstanceConns(i) == {c \in connHtab : c[1] = i}

(* The packets in the rings of some connections. *)
RingSize(conns) == Cardinality({e \in conns \X Pkts : e[2] \in ring[e[1]]})

TeardownAcks(i) ==
    {AckOf(e[1], ring[e[1]], e[2]) : e \in
        {f \in InstanceConns(i) \X Pkts :
            /\ f[2] > consumed[f[1]]
            /\ f[2] <= InSequence(f[1], ring[f[1]])
            /\ AcksConsumption(f[2])}}

PruneFreeList(n, limit, free) ==
    LET excess == Max({0, n - limit})
    IN  /\ fatal' = (fatal \/ excess > free)
        /\ count' = n - Min({excess, free})
        /\ freeList' = free - Min({excess, free})

Lowered(i) ==
    QueueDepth * (Cardinality(InstanceConns(i)) + IF i \in noQueue THEN 1 ELSE 0)

Teardown(i) ==
    /\ InstanceConns(i) # {} \/ i \in failing
    /\ Role = "QD" => \A s \in Senders : sphase[<<i, s>>] = "done"
    /\ connHtab' = connHtab \ InstanceConns(i)
    /\ failing' = failing \ {i}
    /\ noQueue' = noQueue \ {i}
    /\ ring' = [c \in Conns |-> IF c \in InstanceConns(i) THEN {} ELSE ring[c]]
    /\ acks' = acks \cup TeardownAcks(i)
    /\ startupCache' = {}
    /\ maxCount' = maxCount - Cardinality(startupCache) - Lowered(i)
    /\ PruneFreeList(count, maxCount',
          freeList + Cardinality(startupCache) + RingSize(InstanceConns(i)))
    /\ IF Role = "QD" THEN /\ history' = [history EXCEPT
                                            ![i] = IF @ = "none" THEN @ ELSE "torn"]
                           /\ UNCHANGED lastTornIcId
                      ELSE lastTornIcId' = i /\ UNCHANGED history
    /\ rxError' = FALSE
    /\ UNCHANGED <<nextIc, gpInterconnectId, xact, lastDXatId, aborted, consumed, rxPkt,
                   sndVars>>

(* External: a transaction ends when its cursors are closed. *)
NewTransaction ==
    /\ Role = "QD"
    /\ xact < MaxXact
    /\ connHtab = {} /\ failing = {}
    /\ xact' = xact + 1
    /\ UNCHANGED <<nextIc, gpInterconnectId, lastTornIcId, history, lastDXatId,
                   failing, noQueue, aborted, connVars, poolVars, sndVars, acks>>

-----------------------------------------------------------------------------
SenderStep(c) == StartSender(c) \/ Send(c) \/ SendEosReturns(c)

RxThread ==
    \/ GetRxBuffer
    \/ \E c \in Conns, p \in Pkts :
        HandleDataPacket(c, p) \/ AckThePast(c, p) \/ CacheFuturePacket(c, p)

MainThread ==
    \/ \E i \in Ics : Setup(i) \/ SetupFails(i) \/ Skip(i) \/ Teardown(i)
    \/ \E c \in Conns : Consume(c)
    \/ NewTransaction

Next ==
    \/ \E c \in Conns : SenderStep(c) \/ Cancel(c)
    \/ \E m \in acks : HandleAck(m)
    \/ RxThread
    \/ MainThread

Spec == Init /\ [][Next]_vars

(***************************************************************************)
(* Fairness.  A sender runs until it is done; the rx thread runs and the   *)
(* link delivers a packet that is sent again and again; the main thread    *)
(* goes on to its next instance, reads what arrives, and tears an instance *)
(* down when every stream has ended or its setup failed; the dispatcher    *)
(* cancels the senders of a failed statement.                              *)
(***************************************************************************)
NewsFor(c) ==
    \E m \in acks : /\ m.conn = c
                    /\ m.seq > acked[c] \/ m.extraSeq > credit[c]
                    /\ HandleAck(m)

Ended(i) == i \in failing \/ \A s \in Senders : consumed[<<i, s>>] = EosSeq(i)

Fairness ==
    /\ \A c \in Conns : /\ WF_vars(SenderStep(c))
                        /\ WF_vars(NewsFor(c))
                        /\ WF_vars(Cancel(c))
                        /\ WF_vars(Consume(c))
    /\ WF_vars(GetRxBuffer)
    /\ \A c \in Conns, p \in Pkts :
        /\ SF_vars(HandleDataPacket(c, p))
        /\ SF_vars(AckThePast(c, p))
    /\ \A i \in Ics : /\ WF_vars(Setup(i) \/ SetupFails(i) \/ Skip(i))
                      /\ WF_vars(Ended(i) /\ Teardown(i))

LiveSpec == Spec /\ Fairness

-----------------------------------------------------------------------------
(***************************************************************************)
(* No receive buffer is lost or counted twice, and the limit of the pool   *)
(* is one buffer for the rx thread, the rings, and what is cached.         *)
(***************************************************************************)
PoolAccounting ==
    /\ count = freeList + rxPkt + RingSize(connHtab) + Cardinality(startupCache)
    /\ maxCount = 1 + QueueDepth * (Cardinality(connHtab) + Cardinality(noQueue))
                    + Cardinality(startupCache)

(***************************************************************************)
(* getRxBuffer never finds the pool exhausted, and the pruning loop of     *)
(* teardown never meets an empty free list ("there is some memory leaks"). *)
(***************************************************************************)
NeverOutOfBuffers == ~rxError /\ ~fatal

(***************************************************************************)
(* No sender has more under way than the ring of its connection, set up    *)
(* or not, can take: handleDataPacket never drops a packet because "the    *)
(* queue is full", whatever acknowledgments of older instances have        *)
(* granted and whatever was cached before setup.                           *)
(***************************************************************************)
WindowKept ==
    \A c \in Conns : c \in connHtab \/ c[1] >= nextIc =>
        sent[c] <= consumed[c] + QueueDepth

(***************************************************************************)
(* "we just don't want to ACK future packets": what a sender believes      *)
(* acknowledged, the receiver has, as long as the instance is not over.    *)
(***************************************************************************)
NeverAckFuture ==
    \A c \in Conns : c \in connHtab \/ c[1] >= nextIc =>
        acked[c] <= InSequence(c, ring[c])

(***************************************************************************)
(* "ACK it (with stop)" is for instances that were torn down: none that is *)
(* set up, being set up, or waits for its teardown after a failed setup.   *)
(***************************************************************************)
OnlyThePastIsStopped ==
    \A m \in acks : m.stop =>
        m.conn \notin connHtab /\ m.conn[1] < nextIc /\ m.conn[1] \notin failing

(***************************************************************************)
(* No sender is left waiting: not by a receiver that was torn down before  *)
(* the stream ended, not by packets that came before setup.                *)
(***************************************************************************)
SenderReleased == \A c \in Conns : sphase[c] = "run" ~> sphase[c] = "done"
=============================================================================
