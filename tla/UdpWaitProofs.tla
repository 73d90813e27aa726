---------------------------- MODULE UdpWaitProofs ----------------------------
(***************************************************************************)
(* No wake-up of the main thread is lost, for any number of motion nodes,  *)
(* routes, packets and queries.                                            *)
(*                                                                         *)
(* NoLostWakeup and ReachedIsReady are inductive together with two facts   *)
(* that relate the threads: while the main thread waits, mainWaitingState  *)
(* is its own (of this query, of a node that exists), and a packet it is   *)
(* reading stays at the head of its queue.  A connection is active exactly *)
(* until its end of stream was received, so that a motion with more to     *)
(* come has a connection to wait for.                                      *)
(***************************************************************************)
EXTENDS UdpWait, RingArith

(* A pair of a node and a route is a connection, and no connection is the  *)
(* empty tuple.                                                            *)
LEMMA ConnFacts ==
    /\ \A n \in Nodes, r \in Routes : <<n, r>> \in Conns
    /\ \A c \in Conns : c[1] \in Nodes /\ c[2] \in Routes /\ c = <<c[1], c[2]>>
    /\ NoConn \notin Conns
  BY DEF Conns, NoConn

(* Routes are numbers from 0, so ANY_ROUTE is none of them. *)
LEMMA AnyIsNoRoute == ANY_ROUTE \notin Routes
  BY ConstAssumption DEF ANY_ROUTE, Routes

(* The records that reset and set the waiting state are waiting states. *)
LEMMA WaitingStates ==
    ASSUME TypeOK
    PROVE  /\ resetMainThreadWaiting \in WaitingState
           /\ resetMainThreadWaiting.reachRoute = ANY_ROUTE
           /\ \A n \in Nodes, r \in Routes \cup {ANY_ROUTE} :
                /\ setMainThreadWaiting(n, r) \in WaitingState
                /\ setMainThreadWaiting(n, r).waiting
                /\ setMainThreadWaiting(n, r).waitingQuery = query
                /\ setMainThreadWaiting(n, r).waitingNode = n
                /\ setMainThreadWaiting(n, r).waitingRoute = r
                /\ setMainThreadWaiting(n, r).reachRoute = ANY_ROUTE
  BY ConstAssumption DEF TypeOK, WaitingState, resetMainThreadWaiting, setMainThreadWaiting,
     ANY_ROUTE

(* The initial state: nobody waits and nothing is read. *)
LEMMA InitInv == Init => IndInv
<1> SUFFICES ASSUME Init PROVE IndInv
  OBVIOUS
<1>1. resetMainThreadWaiting \in WaitingState
  BY ConstAssumption DEF resetMainThreadWaiting, WaitingState, ANY_ROUTE
<1>2. TypeOK
  <2>1. ring \in [Conns -> SUBSET Pkts] /\ consumed \in [Conns -> 0 .. MaxPkt]
    BY ConstAssumption DEF Init, Pkts
  <2>2. stillActive \in [Conns -> BOOLEAN] /\ endOfStream \in [Conns -> BOOLEAN]
    BY DEF Init
  <2>3. scanStart \in [Nodes -> 0 .. NumRoutes] /\ overtaken \in [Conns -> Nat]
    BY ConstAssumption DEF Init
  <2>4. query \in 1 .. MaxQuery
    BY ConstAssumption DEF Init
  <2>5. waitingState \in WaitingState /\ signalled \in BOOLEAN
    BY <1>1 DEF Init
  <2>6. reading \in Conns \cup {NoConn}
    BY DEF Init
  <2>7. pc \in {"run", "wait", "timeout", "read", "put", "failed", "fatal"}
    BY DEF Init
  <2> QED
    BY <2>1, <2>2, <2>3, <2>4, <2>5, <2>6, <2>7 DEF TypeOK
<1>3. ActiveUntilEnd
  BY DEF Init, ActiveUntilEnd
<1>4. ~Waiting /\ pc = "run"
  BY DEF Init, Waiting
<1> QED
  BY <1>2, <1>3, <1>4 DEF IndInv, WaitsForItself, NoLostWakeup, ReachedIsReady,
     SignalPending, BufferToRelease

(* Starting to read from a ready connection keeps the invariant. *)
LEMMA StartReading ==
    ASSUME IndInv, NEW c \in Conns, Ready(c), PrepareRxConnForRead(c),
           waitingState' \in WaitingState, signalled' \in BOOLEAN,
           scanStart' \in [Nodes -> 0 .. NumRoutes],
           UNCHANGED <<query, connVars>>
    PROVE  IndInv'
<1>1. pc' = "read" /\ reading' = c
  BY DEF PrepareRxConnForRead
<1>2. overtaken' \in [Conns -> Nat]
  BY DEF PrepareRxConnForRead, Overtake, IndInv, TypeOK
<1>3. TypeOK'
  BY <1>1, <1>2 DEF IndInv, TypeOK, connVars
<1>4. Ready(c)'
  BY DEF Ready, connVars
<1>5. ActiveUntilEnd'
  BY DEF IndInv, ActiveUntilEnd, connVars
<1>6. ~Waiting' /\ BufferToRelease'
  BY <1>1, <1>4, ConnFacts DEF Waiting, BufferToRelease
<1> QED
  BY <1>1, <1>3, <1>5, <1>6 DEF IndInv, WaitsForItself, NoLostWakeup, ReachedIsReady,
     SignalPending, Waiting

(* Going to sleep when no awaited connection is ready keeps the invariant. *)
LEMMA StartWaiting ==
    ASSUME IndInv, NEW n \in Nodes, NEW r \in Routes \cup {ANY_ROUTE}, WaitFor(n, r),
           \A q \in Routes : r \in {ANY_ROUTE, q} => ~Ready(<<n, q>>),
           UNCHANGED <<query, connVars, scanStart>>
    PROVE  IndInv'
<1>1. /\ waitingState' = setMainThreadWaiting(n, r)
      /\ pc' = "wait"
      /\ signalled' = FALSE
      /\ UNCHANGED <<reading, overtaken>>
  BY DEF WaitFor
<1>2. /\ waitingState' \in WaitingState
      /\ waitingState'.waiting
      /\ waitingState'.waitingQuery = query
      /\ waitingState'.waitingNode = n
      /\ waitingState'.waitingRoute = r
      /\ waitingState'.reachRoute = ANY_ROUTE
  BY <1>1, WaitingStates DEF IndInv
<1>3. TypeOK'
  BY <1>1, <1>2 DEF IndInv, TypeOK, connVars
<1>4. ActiveUntilEnd'
  BY DEF IndInv, ActiveUntilEnd, connVars
<1>5. \A q \in Routes : Ready(<<n, q>>)' <=> Ready(<<n, q>>)
  BY DEF Ready, connVars
<1>6. NoLostWakeup'
  BY <1>2, <1>5 DEF NoLostWakeup
<1> QED
  BY <1>1, <1>2, <1>3, <1>4, <1>6 DEF IndInv, WaitsForItself, ReachedIsReady,
     SignalPending, BufferToRelease

(* Reading from any route: a ready route is read, and without one the      *)
(* motion that has more to come finds an active connection to wait for.    *)
LEMMA RecvAnyInv ==
    ASSUME IndInv, NEW n \in Nodes, RecvTupleChunkFromAny(n)
    PROVE  IndInv'
<1>1. UNCHANGED <<query, connVars>> /\ moreNetWork(n)
  BY DEF RecvTupleChunkFromAny
<1>2. CASE \E r \in Routes :
            /\ FirstReady(n, r)
            /\ PrepareRxConnForRead(<<n, r>>)
            /\ scanStart' = [scanStart EXCEPT ![n] = r + 1]
            /\ UNCHANGED <<waitingState, signalled>>
  <2>1. PICK r \in Routes :
            /\ FirstReady(n, r)
            /\ PrepareRxConnForRead(<<n, r>>)
            /\ scanStart' = [scanStart EXCEPT ![n] = r + 1]
            /\ UNCHANGED <<waitingState, signalled>>
    BY <1>2
  <2>2. r + 1 \in 0 .. NumRoutes
    BY ConstAssumption DEF Routes
  <2>3. scanStart' \in [Nodes -> 0 .. NumRoutes]
    BY <2>1, <2>2 DEF IndInv, TypeOK
  <2>4. <<n, r>> \in Conns /\ Ready(<<n, r>>)
    BY <2>1, ConnFacts DEF FirstReady
  <2>5. waitingState' \in WaitingState /\ signalled' \in BOOLEAN
    BY <2>1 DEF IndInv, TypeOK
  <2> QED
    BY <1>1, <2>1, <2>3, <2>4, <2>5, StartReading
<1>3. CASE /\ \A r \in Routes : ~Ready(<<n, r>>)
           /\ WaitFor(n, ANY_ROUTE)
           /\ UNCHANGED scanStart
  BY <1>1, <1>3, StartWaiting
<1>4. CASE \A r \in Routes : ~Ready(<<n, r>>) /\ ~stillActive[<<n, r>>]
  BY <1>1, <1>4, ConnFacts DEF IndInv, ActiveUntilEnd, moreNetWork
<1> QED
  BY <1>2, <1>3, <1>4 DEF RecvTupleChunkFromAny

(* Reading from one route. *)
LEMMA RecvFromInv ==
    ASSUME IndInv, NEW n \in Nodes, NEW r \in Routes, RecvTupleChunkFrom(n, r)
    PROVE  IndInv'
<1>1. UNCHANGED <<query, connVars, scanStart>> /\ ~endOfStream[<<n, r>>]
  BY DEF RecvTupleChunkFrom
<1>2. <<n, r>> \in Conns /\ r # ANY_ROUTE
  BY ConnFacts, AnyIsNoRoute
<1>3. CASE /\ Ready(<<n, r>>)
           /\ PrepareRxConnForRead(<<n, r>>)
           /\ UNCHANGED <<waitingState, signalled>>
  <2>1. /\ waitingState' \in WaitingState /\ signalled' \in BOOLEAN
        /\ scanStart' \in [Nodes -> 0 .. NumRoutes]
    BY <1>1, <1>3 DEF IndInv, TypeOK
  <2> QED
    BY <1>1, <1>2, <1>3, <2>1, StartReading
<1>4. CASE ~Ready(<<n, r>>) /\ WaitFor(n, r)
  <2>1. \A q \in Routes : r \in {ANY_ROUTE, q} => ~Ready(<<n, q>>)
    BY <1>2, <1>4
  <2> QED
    BY <1>1, <1>4, <2>1, StartWaiting
<1>5. CASE ~stillActive[<<n, r>>]
  BY <1>1, <1>2, <1>5 DEF IndInv, ActiveUntilEnd
<1> QED
  BY <1>3, <1>4, <1>5 DEF RecvTupleChunkFrom

(* Looking at reachRoute again, after a signal or a timeout. *)
LEMMA LoopAgainInv ==
    ASSUME IndInv, Waiting, LoopAgain, signalled' \in BOOLEAN,
           pc = "timeout" => signalled' = signalled,
           UNCHANGED <<query, connVars>>
    PROVE  IndInv'
<1> DEFINE n == waitingState.waitingNode
           r == waitingState.reachRoute
<1>1. n \in Nodes /\ r \in Routes \cup {ANY_ROUTE}
  BY DEF IndInv, WaitsForItself, TypeOK, WaitingState
<1>2. CASE r = ANY_ROUTE
  <2>1. pc' = "wait" /\ UNCHANGED <<reading, waitingState, scanStart, overtaken>>
    BY <1>2 DEF LoopAgain
  <2>2. TypeOK'
    BY <2>1 DEF IndInv, TypeOK, connVars
  <2>3. \A q \in Routes : Ready(<<n, q>>)' <=> Ready(<<n, q>>)
    BY <2>1 DEF Ready, connVars
  <2>4. NoLostWakeup'
    BY <1>2, <2>1, <2>3 DEF IndInv, NoLostWakeup
  <2>5. ActiveUntilEnd'
    BY DEF IndInv, ActiveUntilEnd, connVars
  <2>6. WaitsForItself' /\ ReachedIsReady' /\ SignalPending' /\ BufferToRelease'
    BY <1>2, <2>1 DEF IndInv, WaitsForItself, ReachedIsReady, SignalPending,
       BufferToRelease, Waiting
  <2> QED
    BY <2>2, <2>4, <2>5, <2>6 DEF IndInv
<1>3. CASE r # ANY_ROUTE
  <2>1. /\ PrepareRxConnForRead(<<n, r>>)
        /\ waitingState' = resetMainThreadWaiting
        /\ scanStart' = IF n \in Merging THEN scanStart
                        ELSE [scanStart EXCEPT ![n] = r + 1]
    BY <1>3 DEF LoopAgain
  <2>2. r \in Routes /\ <<n, r>> \in Conns /\ Ready(<<n, r>>)
    BY <1>1, <1>3, ConnFacts DEF IndInv, ReachedIsReady
  <2>3. r + 1 \in 0 .. NumRoutes
    BY <2>2, ConstAssumption DEF Routes
  <2>4. scanStart' \in [Nodes -> 0 .. NumRoutes]
    BY <2>1, <2>3, <1>1 DEF IndInv, TypeOK
  <2>5. waitingState' \in WaitingState
    BY <2>1, WaitingStates DEF IndInv
  <2> QED
    BY <2>1, <2>2, <2>4, <2>5, StartReading
<1> QED
  BY <1>2, <1>3

(* The remaining steps of the main thread. *)
LEMMA WakeUpInv == IndInv /\ WakeUp => IndInv'
<1> SUFFICES ASSUME IndInv, WakeUp PROVE IndInv'
  OBVIOUS
<1>1. /\ pc = "wait" /\ signalled' = FALSE /\ LoopAgain
      /\ UNCHANGED <<query, connVars>>
  BY DEF WakeUp
<1> QED
  BY <1>1, LoopAgainInv DEF Waiting

(* After a timeout that found no reason to give up. *)
LEMMA RetryInv == IndInv /\ RetryAfterTimeout => IndInv'
<1> SUFFICES ASSUME IndInv, RetryAfterTimeout PROVE IndInv'
  OBVIOUS
<1>1. /\ pc = "timeout" /\ signalled' = signalled /\ LoopAgain
      /\ UNCHANGED <<query, connVars>>
  BY DEF RetryAfterTimeout
<1>2. signalled' \in BOOLEAN
  BY <1>1 DEF IndInv, TypeOK
<1> QED
  BY <1>1, <1>2, LoopAgainInv DEF Waiting

(* Steps after which the main thread neither waits nor reads. *)
LEMMA LeaveInv ==
    ASSUME IndInv, pc' \in {"timeout", "failed"}, signalled' \in BOOLEAN,
           pc' = "timeout" => Waiting,
           UNCHANGED <<query, reading, waitingState, connVars, scanStart, overtaken>>
    PROVE  IndInv'
<1>1. TypeOK'
  BY DEF IndInv, TypeOK, connVars
<1>2. ActiveUntilEnd'
  BY DEF IndInv, ActiveUntilEnd, connVars
<1>3. \A c : Ready(c)' <=> Ready(c)
  BY DEF Ready, connVars
<1>4. NoLostWakeup' /\ ReachedIsReady'
  BY <1>3 DEF IndInv, NoLostWakeup, ReachedIsReady, Waiting
<1>5. WaitsForItself' /\ SignalPending' /\ BufferToRelease'
  BY DEF IndInv, WaitsForItself, SignalPending, BufferToRelease, Waiting
<1> QED
  BY <1>1, <1>2, <1>4, <1>5 DEF IndInv

(* The next query starts with fresh connections and an old waiting state,  *)
(* which nobody looks at.                                                  *)
LEMMA NextQueryInv == IndInv /\ NextQuery => IndInv'
<1> SUFFICES ASSUME IndInv, NextQuery PROVE IndInv'
  OBVIOUS
<1>1. pc' = "run" /\ UNCHANGED <<reading, waitingState, signalled>> /\ FreshConns
  BY DEF NextQuery
<1>2. query' \in 1 .. MaxQuery
  BY ConstAssumption DEF NextQuery, IndInv, TypeOK
<1>3. /\ ring' \in [Conns -> SUBSET Pkts] /\ consumed' \in [Conns -> 0 .. MaxPkt]
      /\ scanStart' \in [Nodes -> 0 .. NumRoutes] /\ overtaken' \in [Conns -> Nat]
  BY <1>1, ConstAssumption DEF FreshConns
<1>4. /\ stillActive' \in [Conns -> BOOLEAN] /\ endOfStream' \in [Conns -> BOOLEAN]
      /\ ActiveUntilEnd'
  BY <1>1 DEF FreshConns, ActiveUntilEnd
<1>5. TypeOK'
  BY <1>1, <1>2, <1>3, <1>4 DEF IndInv, TypeOK
<1> QED
  BY <1>1, <1>4, <1>5 DEF IndInv, WaitsForItself, NoLostWakeup, ReachedIsReady,
     SignalPending, BufferToRelease, Waiting

(* Processing the chunks of the packet that is read. *)
LEMMA ProcessInv == IndInv /\ ProcessIncomingChunks => IndInv'
<1> SUFFICES ASSUME IndInv, ProcessIncomingChunks PROVE IndInv'
  OBVIOUS
<1>1. /\ pc = "read" /\ pc' = "put"
      /\ UNCHANGED <<query, reading, waitingState, signalled, ring, consumed, scanStart,
                     overtaken>>
  BY DEF ProcessIncomingChunks
<1>2. reading \in Conns /\ Ready(reading)
  BY <1>1 DEF IndInv, BufferToRelease, TypeOK
<1>3. /\ stillActive' \in [Conns -> BOOLEAN] /\ endOfStream' \in [Conns -> BOOLEAN]
      /\ ActiveUntilEnd'
  BY <1>2 DEF ProcessIncomingChunks, IndInv, TypeOK, ActiveUntilEnd
<1>4. TypeOK'
  BY <1>1, <1>3 DEF IndInv, TypeOK
<1>5. BufferToRelease'
  BY <1>1, <1>2, ConnFacts DEF BufferToRelease, Ready
<1> QED
  BY <1>1, <1>3, <1>4, <1>5 DEF IndInv, WaitsForItself, NoLostWakeup, ReachedIsReady,
     SignalPending, Waiting

(* Releasing the packet. *)
LEMMA PutInv == IndInv /\ MlPutRxBuffer => IndInv'
<1> SUFFICES ASSUME IndInv, MlPutRxBuffer PROVE IndInv'
  OBVIOUS
<1>1. /\ pc = "put" /\ pc' = "run" /\ reading' = NoConn
      /\ ring' = [ring EXCEPT ![reading] = @ \ {consumed[reading] + 1}]
      /\ consumed' = [consumed EXCEPT ![reading] = @ + 1]
      /\ UNCHANGED <<query, waitingState, signalled, stillActive, endOfStream, scanStart,
                     overtaken>>
  BY DEF MlPutRxBuffer
<1>2. reading \in Conns /\ consumed[reading] + 1 \in Pkts
  BY <1>1 DEF IndInv, BufferToRelease, TypeOK, Ready
<1>3. consumed[reading] + 1 \in 0 .. MaxPkt
  BY <1>2, ConstAssumption DEF Pkts
<1>4. ring' \in [Conns -> SUBSET Pkts] /\ consumed' \in [Conns -> 0 .. MaxPkt]
  BY <1>1, <1>2, <1>3 DEF IndInv, TypeOK
<1>5. TypeOK'
  BY <1>1, <1>4 DEF IndInv, TypeOK
<1>6. ActiveUntilEnd'
  BY <1>1 DEF IndInv, ActiveUntilEnd
<1> QED
  BY <1>1, <1>5, <1>6 DEF IndInv, WaitsForItself, NoLostWakeup, ReachedIsReady,
     SignalPending, BufferToRelease, Waiting

(***************************************************************************)
(* A packet arrives.  If it becomes the head of a connection the main      *)
(* thread waits for, its route is recorded (or another one already was)    *)
(* and a sleeping thread is signalled; every other packet leaves what is   *)
(* ready unchanged where the main thread looks.                            *)
(***************************************************************************)
LEMMA PacketInv ==
    ASSUME IndInv, NEW c \in Conns, NEW p \in Pkts, HandleDataPacket(c, p)
    PROVE  IndInv'
<1> DEFINE w == waitingState
           awaited == w.waiting /\ w.waitingNode = c[1] /\ w.waitingQuery = query
           head == p = consumed[c] + 1
           records == \/ w.waitingRoute = ANY_ROUTE /\ w.reachRoute = ANY_ROUTE
                      \/ w.waitingRoute = c[2]
<1>1. /\ ring' = [ring EXCEPT ![c] = @ \cup {p}]
      /\ UNCHANGED <<query, pc, reading, consumed, stillActive, endOfStream, scanStart,
                     overtaken>>
  BY DEF HandleDataPacket
<1>2. IF awaited /\ head
      THEN /\ waitingState' = IF records THEN [w EXCEPT !.reachRoute = c[2]] ELSE w
           /\ signalled' = (pc = "wait")
      ELSE UNCHANGED <<waitingState, signalled>>
  BY DEF HandleDataPacket, WakeMain
<1>3. c[1] \in Nodes /\ c[2] \in Routes /\ c = <<c[1], c[2]>> /\ c[2] # ANY_ROUTE
  BY ConnFacts, AnyIsNoRoute
<1>4. ring \in [Conns -> SUBSET Pkts] /\ w \in WaitingState /\ signalled \in BOOLEAN
  BY DEF IndInv, TypeOK
<1>5. /\ \A d \in Conns : Ready(d) => Ready(d)'
      /\ \A d \in Conns : Ready(d)' => Ready(d) \/ (d = c /\ head)
      /\ head => Ready(c)'
  BY <1>1, <1>4 DEF Ready
<1>6. waitingState' \in WaitingState /\ signalled' \in BOOLEAN
  BY <1>2, <1>3, <1>4 DEF WaitingState
<1>7. TypeOK'
  <2>1. ring' \in [Conns -> SUBSET Pkts]
    BY <1>1, <1>4
  <2> QED
    BY <1>1, <1>6, <2>1 DEF IndInv, TypeOK
<1>8. ActiveUntilEnd' /\ BufferToRelease'
  BY <1>1, <1>5 DEF IndInv, TypeOK, ActiveUntilEnd, BufferToRelease
<1>9. /\ waitingState'.waiting = w.waiting
      /\ waitingState'.waitingQuery = w.waitingQuery
      /\ waitingState'.waitingNode = w.waitingNode
      /\ waitingState'.waitingRoute = w.waitingRoute
  BY <1>2, <1>4 DEF WaitingState
<1>10. WaitsForItself'
  BY <1>1, <1>9 DEF IndInv, WaitsForItself, Waiting
<1>11. CASE ~Waiting
  BY <1>1, <1>7, <1>8, <1>10, <1>11 DEF IndInv, NoLostWakeup, ReachedIsReady,
     SignalPending, Waiting
<1>12. CASE Waiting /\ w.waitingNode = c[1] /\ head
  <2>1. awaited
    BY <1>12 DEF IndInv, WaitsForItself
  <2>2. /\ waitingState' = IF records THEN [w EXCEPT !.reachRoute = c[2]] ELSE w
        /\ signalled' = (pc = "wait")
    BY <1>2, <1>12, <2>1
  <2>3. SignalPending'
    BY <1>1, <2>2 DEF SignalPending
  <2>4. CASE records
    <3>1. waitingState'.reachRoute = c[2]
      BY <1>4, <2>2, <2>4 DEF WaitingState
    <3>2. w.waitingRoute \in {ANY_ROUTE, c[2]}
      BY <2>4
    <3>3. NoLostWakeup'
      BY <1>3, <3>1 DEF NoLostWakeup
    <3>4. ReachedIsReady'
      BY <1>3, <1>5, <1>9, <1>12, <3>1, <3>2 DEF ReachedIsReady
    <3> QED
      BY <1>7, <1>8, <1>10, <2>3, <3>3, <3>4 DEF IndInv
  <2>5. CASE ~records
    <3>1. waitingState' = w
      BY <2>2, <2>5
    <3>2. ReachedIsReady'
      <4> SUFFICES ASSUME Waiting', waitingState'.reachRoute # ANY_ROUTE
                   PROVE  /\ Ready(<<w.waitingNode, w.reachRoute>>)'
                          /\ w.waitingRoute \in {ANY_ROUTE, w.reachRoute}
        BY <3>1 DEF ReachedIsReady
      <4>1. /\ Ready(<<w.waitingNode, w.reachRoute>>)
            /\ w.waitingRoute \in {ANY_ROUTE, w.reachRoute}
        BY <1>12, <3>1 DEF IndInv, ReachedIsReady
      <4>2. <<w.waitingNode, w.reachRoute>> \in Conns
        BY <1>3, <1>4, <1>12, <3>1, ConnFacts DEF WaitingState
      <4> QED
        BY <1>5, <3>1, <4>1, <4>2
    <3>3. NoLostWakeup'
      <4> SUFFICES ASSUME Waiting', w.reachRoute = ANY_ROUTE,
                          NEW r \in Routes, w.waitingRoute \in {ANY_ROUTE, r}
                   PROVE  ~Ready(<<w.waitingNode, r>>)'
        BY <3>1 DEF NoLostWakeup
      <4>1. r # c[2]
        BY <2>5
      <4>2. ~Ready(<<w.waitingNode, r>>)
        BY <1>12 DEF IndInv, NoLostWakeup
      <4>3. <<w.waitingNode, r>> \in Conns /\ <<w.waitingNode, r>> # c
        BY <1>3, <1>12, <4>1, ConnFacts
      <4> QED
        BY <1>5, <3>1, <4>2, <4>3
    <3> QED
      BY <1>7, <1>8, <1>10, <2>3, <3>2, <3>3 DEF IndInv
  <2> QED
    BY <2>4, <2>5
<1>13. CASE Waiting /\ ~(w.waitingNode = c[1] /\ head)
  <2>1. UNCHANGED <<waitingState, signalled>>
    BY <1>2, <1>13
  <2>2. w.waitingNode \in Nodes
    BY <1>13 DEF IndInv, WaitsForItself
  <2>3. \A r \in Routes : Ready(<<w.waitingNode, r>>)' <=> Ready(<<w.waitingNode, r>>)
    <3> SUFFICES ASSUME NEW r \in Routes
                 PROVE  Ready(<<w.waitingNode, r>>)' <=> Ready(<<w.waitingNode, r>>)
      OBVIOUS
    <3>1. <<w.waitingNode, r>> \in Conns
      BY <2>2, ConnFacts
    <3>2. <<w.waitingNode, r>> = c => w.waitingNode = c[1]
      BY <1>3
    <3> QED
      BY <1>5, <1>13, <2>1, <3>1, <3>2
  <2>4. NoLostWakeup'
    BY <1>1, <2>1, <2>3 DEF IndInv, NoLostWakeup, Waiting
  <2>5. ReachedIsReady'
    <3>1. w.reachRoute # ANY_ROUTE => w.reachRoute \in Routes
      BY <1>4 DEF WaitingState
    <3> QED
      BY <1>1, <2>1, <2>3, <3>1 DEF IndInv, ReachedIsReady, Waiting
  <2>6. SignalPending'
    BY <1>1, <2>1 DEF IndInv, SignalPending
  <2> QED
    BY <1>7, <1>8, <1>10, <2>4, <2>5, <2>6 DEF IndInv
<1> QED
  BY <1>11, <1>12, <1>13

(* Every step keeps the invariant. *)
LEMMA NextInv == IndInv /\ [Next]_vars => IndInv'
<1> SUFFICES ASSUME IndInv, [Next]_vars PROVE IndInv'
  OBVIOUS
<1>1. ASSUME NEW n \in Nodes, Recv(n) PROVE IndInv'
  BY <1>1, RecvAnyInv, RecvFromInv DEF Recv
<1>2. CASE Timeout
  <2>1. /\ pc' = "timeout" /\ Waiting /\ signalled' \in BOOLEAN
        /\ UNCHANGED <<query, reading, waitingState, connVars, scanStart, overtaken>>
    BY <1>2 DEF Timeout, Waiting
  <2> QED
    BY <2>1, LeaveInv
<1>3. CASE FailAfterTimeout
  <2>1. /\ pc' = "failed" /\ signalled' = signalled
        /\ UNCHANGED <<query, reading, waitingState, connVars, scanStart, overtaken>>
    BY <1>3 DEF FailAfterTimeout
  <2>2. signalled' \in BOOLEAN
    BY <2>1 DEF IndInv, TypeOK
  <2> QED
    BY <2>1, <2>2, LeaveInv
<1>4. CASE UNCHANGED vars
  <2>1. \A c : Ready(c)' <=> Ready(c)
    BY <1>4 DEF Ready, vars, connVars
  <2>2. NoLostWakeup' /\ ReachedIsReady' /\ BufferToRelease'
    BY <1>4, <2>1 DEF IndInv, NoLostWakeup, ReachedIsReady, BufferToRelease, Waiting, vars
  <2> QED
    BY <1>4, <2>2 DEF IndInv, TypeOK, WaitsForItself, ActiveUntilEnd, SignalPending,
       Waiting, vars, connVars
<1> QED
  BY <1>1, <1>2, <1>3, <1>4, WakeUpInv, RetryInv, NextQueryInv, ProcessInv, PutInv,
     PacketInv DEF Next, MainThread

(***************************************************************************)
(* The invariant holds in every reachable state, for every set of nodes,   *)
(* number of routes, depth of the rings and number of queries.             *)
(***************************************************************************)
THEOREM Invariance == Spec => []IndInv
  BY InitInv, NextInv, PTL DEF Spec

(***************************************************************************)
(* The main thread never sleeps, or goes back to sleep after a timeout,    *)
(* with the packet it waits for in its queue and no record of it.          *)
(***************************************************************************)
THEOREM WakeupsAreNotLost == Spec => []NoLostWakeup
<1>1. IndInv => NoLostWakeup
  BY DEF IndInv
<1> QED
  BY <1>1, Invariance, PTL

(***************************************************************************)
(* A route recorded as reached has the packet the main thread will read.   *)
(***************************************************************************)
THEOREM ReachedRoutesAreReady == Spec => []ReachedIsReady
<1>1. IndInv => ReachedIsReady
  BY DEF IndInv
<1> QED
  BY <1>1, Invariance, PTL

(***************************************************************************)
(* A buffer that is released exists, and no receive finds a motion with    *)
(* more to come but without connections.                                   *)
(***************************************************************************)
THEOREM BuffersAreHeld == Spec => []BufferToRelease
<1>1. IndInv => BufferToRelease
  BY DEF IndInv
<1> QED
  BY <1>1, Invariance, PTL

-----------------------------------------------------------------------------
(* Where route r is in the order of the scan of node n. *)
LEMMA ScanOrderIs ==
    ASSUME NEW s \in 0 .. NumRoutes, NEW r \in Routes
    PROVE  (r - s + NumRoutes) % NumRoutes = IF r >= s THEN r - s ELSE r - s + NumRoutes
  BY RingDistance, ConstAssumption DEF Routes

(* Once route q was read, route r is nearer by what the scan has passed.   *)
LEMMA NearerAfterRead ==
    ASSUME NEW s \in 0 .. NumRoutes, NEW r \in Routes, NEW q \in Routes, r # q
    PROVE  LET old(x) == (x - s + NumRoutes) % NumRoutes
               new == (r - (q + 1) + NumRoutes) % NumRoutes
           IN  /\ new \in 0 .. (NumRoutes - 2)
               /\ old(q) <= old(r) => new + old(q) + 1 = old(r)
               /\ old(q) \in Nat /\ old(r) \in Nat
<1>1. q + 1 \in 0 .. NumRoutes /\ r \in Int /\ q \in Int /\ s \in Int /\ NumRoutes \in Int
  BY ConstAssumption DEF Routes
<1>2. (r - s + NumRoutes) % NumRoutes = IF r >= s THEN r - s ELSE r - s + NumRoutes
  BY ScanOrderIs
<1>3. (q - s + NumRoutes) % NumRoutes = IF q >= s THEN q - s ELSE q - s + NumRoutes
  BY ScanOrderIs
<1>4. (r - (q + 1) + NumRoutes) % NumRoutes
        = IF r >= q + 1 THEN r - (q + 1) ELSE r - (q + 1) + NumRoutes
  BY <1>1, ScanOrderIs
<1>5. r \in 0 .. (NumRoutes - 1) /\ q \in 0 .. (NumRoutes - 1)
  BY DEF Routes
<1> QED
  BY <1>1, <1>2, <1>3, <1>4, <1>5

(* Starting to read from connection c: the ready ones of its node are      *)
(* overtaken once more.  `near' is the condition on the route: it was the  *)
(* first in the order of the scan, or nothing was overtaken before.        *)
LEMMA ReadOvertakes ==
    ASSUME IndInv, OvertakingInv, NEW n \in Nodes, NEW q \in Routes, Ready(<<n, q>>),
           PrepareRxConnForRead(<<n, q>>), UNCHANGED connVars,
           scanStart' = IF n \in Merging THEN scanStart ELSE [scanStart EXCEPT ![n] = q + 1],
           n \notin Merging => \/ FirstReady(n, q)
                              \/ \A r \in Routes : overtaken[<<n, r>>] = 0
    PROVE  OvertakingInv'
<1> DEFINE c == <<n, q>>
<1>1. c \in Conns /\ c[1] = n /\ c[2] = q
  BY ConnFacts
<1>2. pc' = "read" /\ reading' = c
  BY DEF PrepareRxConnForRead
<1>3. overtaken' = [d \in Conns |-> IF d = c THEN 0
                     ELSE IF d[1] = n /\ Ready(d) THEN overtaken[d] + 1
                     ELSE overtaken[d]]
  BY DEF PrepareRxConnForRead, Overtake
<1>4. \A d \in Conns : Ready(d)' <=> Ready(d)
  BY DEF Ready, connVars
<1>5. overtaken \in [Conns -> Nat] /\ scanStart \in [Nodes -> 0 .. NumRoutes]
  BY DEF IndInv, TypeOK
<1>6. ~Waiting' /\ WaitedIsNotOvertaken'
  BY <1>2 DEF Waiting, WaitedIsNotOvertaken
<1> HIDE DEF c
<1>7. OvertakenIsReady'
  <2>1. \A d \in Conns : overtaken'[d] > 0 => Ready(d)'
    BY <1>3, <1>4, <1>5 DEF OvertakingInv, OvertakenIsReady
  <2>2. overtaken'[c] = 0
    BY <1>1, <1>3
  <2> QED
    BY <1>2, <2>1, <2>2 DEF OvertakenIsReady
<1>8. ScanComesNearer'
  <2> SUFFICES ASSUME NEW m \in Nodes \ Merging, NEW r \in Routes, overtaken'[<<m, r>>] > 0
               PROVE  overtaken'[<<m, r>>] + ScanOrder(m, r)' < NumRoutes
    BY DEF ScanComesNearer
  <2>1. <<m, r>> \in Conns /\ <<m, r>>[1] = m /\ <<m, r>>[2] = r
    BY ConnFacts
  <2>2. CASE m # n
    <3>1. overtaken'[<<m, r>>] = overtaken[<<m, r>>]
      BY <1>1, <1>3, <2>1, <2>2
    <3>2. scanStart'[m] = scanStart[m]
      BY <1>5, <2>2
    <3> QED
      BY <3>1, <3>2 DEF OvertakingInv, ScanComesNearer, ScanOrder
  <2>3. CASE m = n
    <3>1. r # q
      BY <1>1, <1>3, <2>1, <2>3 DEF c
    <3>2. scanStart'[n] = q + 1
      BY <1>5, <2>3
    <3>3. overtaken'[<<n, r>>] =
            IF Ready(<<n, r>>) THEN overtaken[<<n, r>>] + 1 ELSE overtaken[<<n, r>>]
      BY <1>1, <1>3, <2>1, <2>3, <3>1 DEF c
    <3>4. Ready(<<n, r>>)
      BY <2>1, <2>3, <3>3 DEF OvertakingInv, OvertakenIsReady
    <3>5. /\ ScanOrder(n, r)' = (r - (q + 1) + NumRoutes) % NumRoutes
          /\ ScanOrder(n, r)' \in 0 .. (NumRoutes - 2)
          /\ ScanOrder(n, q) <= ScanOrder(n, r) =>
                ScanOrder(n, r)' + ScanOrder(n, q) + 1 = ScanOrder(n, r)
          /\ ScanOrder(n, q) \in Nat /\ ScanOrder(n, r) \in Nat
      BY <1>5, <3>1, <3>2, NearerAfterRead DEF ScanOrder
    <3>6. overtaken[<<n, r>>] \in Nat
      BY <1>5, <2>1, <2>3
    <3>7. CASE overtaken[<<n, r>>] = 0
      BY <2>3, <3>3, <3>4, <3>5, <3>7, ConstAssumption
    <3>8. CASE overtaken[<<n, r>>] > 0
      <4>1. ScanOrder(n, q) <= ScanOrder(n, r)
        BY <2>3, <3>4, <3>8 DEF FirstReady
      <4>2. overtaken[<<n, r>>] + ScanOrder(n, r) < NumRoutes
        BY <2>3, <3>8 DEF OvertakingInv, ScanComesNearer
      <4> QED
        BY <2>3, <3>3, <3>4, <3>5, <3>6, <4>1, <4>2, ConstAssumption
    <3> QED
      BY <3>6, <3>7, <3>8
  <2> QED
    BY <2>2, <2>3
<1> QED
  BY <1>6, <1>7, <1>8 DEF OvertakingInv

(* Going to sleep for a node of which no awaited route is ready.           *)
LEMMA SleepOvertakes ==
    ASSUME IndInv, OvertakingInv, NEW n \in Nodes, NEW r \in Routes \cup {ANY_ROUTE},
           WaitFor(n, r), UNCHANGED <<connVars, scanStart>>,
           n \notin Merging => \A q \in Routes : ~Ready(<<n, q>>)
    PROVE  OvertakingInv'
<1>1. pc' = "wait" /\ UNCHANGED <<reading, overtaken>> /\ waitingState'.waitingNode = n
  BY WaitingStates DEF WaitFor, IndInv
<1>2. \A d \in Conns : Ready(d)' <=> Ready(d)
  BY DEF Ready, connVars
<1>3. OvertakenIsReady'
  BY <1>1, <1>2 DEF OvertakingInv, OvertakenIsReady
<1>4. WaitedIsNotOvertaken'
  <2> SUFFICES ASSUME n \notin Merging, NEW q \in Routes PROVE overtaken[<<n, q>>] = 0
    BY <1>1 DEF WaitedIsNotOvertaken
  <2>1. <<n, q>> \in Conns /\ ~Ready(<<n, q>>)
    BY ConnFacts
  <2> QED
    BY <2>1 DEF OvertakingInv, OvertakenIsReady, IndInv, TypeOK
<1>5. ScanComesNearer'
  BY <1>1 DEF OvertakingInv, ScanComesNearer, ScanOrder
<1> QED
  BY <1>3, <1>4, <1>5 DEF OvertakingInv

(* A step that reads nothing, keeps the history, and loses no head packet  *)
(* that was overtaken.                                                     *)
LEMMA OthersOvertake ==
    ASSUME IndInv, OvertakingInv, UNCHANGED <<overtaken, scanStart>>,
           \A d \in Conns : overtaken[d] > 0 /\ Ready(d) => Ready(d)',
           pc' \in {"read", "put"} => pc \in {"read", "put"} /\ reading' = reading,
           Waiting' => Waiting /\ waitingState'.waitingNode = waitingState.waitingNode
    PROVE  OvertakingInv'
<1>1. OvertakenIsReady'
  BY DEF OvertakingInv, OvertakenIsReady
<1>2. WaitedIsNotOvertaken'
  BY DEF OvertakingInv, WaitedIsNotOvertaken
<1>3. ScanComesNearer'
  BY DEF OvertakingInv, ScanComesNearer, ScanOrder
<1> QED
  BY <1>1, <1>2, <1>3 DEF OvertakingInv

(* A woken thread reads the reached route or sleeps again.                 *)
LEMMA LoopOvertakes ==
    ASSUME IndInv, OvertakingInv, Waiting, LoopAgain, UNCHANGED connVars
    PROVE  OvertakingInv'
<1> DEFINE n == waitingState.waitingNode
           q == waitingState.reachRoute
<1>1. n \in Nodes /\ q \in Routes \cup {ANY_ROUTE}
  BY DEF IndInv, WaitsForItself, TypeOK, WaitingState
<1>2. CASE q = ANY_ROUTE
  <2>1. pc' = "wait" /\ UNCHANGED <<reading, waitingState, scanStart, overtaken>>
    BY <1>2 DEF LoopAgain
  <2>2. \A d \in Conns : Ready(d)' <=> Ready(d)
    BY DEF Ready, connVars
  <2> QED
    BY <2>1, <2>2, OthersOvertake
<1>3. CASE q # ANY_ROUTE
  <2>1. /\ PrepareRxConnForRead(<<n, q>>)
        /\ scanStart' = IF n \in Merging THEN scanStart ELSE [scanStart EXCEPT ![n] = q + 1]
    BY <1>3 DEF LoopAgain
  <2>2. q \in Routes /\ Ready(<<n, q>>)
    BY <1>1, <1>3 DEF IndInv, ReachedIsReady
  <2>3. n \notin Merging => \A r \in Routes : overtaken[<<n, r>>] = 0
    BY DEF OvertakingInv, WaitedIsNotOvertaken
  <2> HIDE DEF n, q
  <2> QED
    BY <1>1, <2>1, <2>2, <2>3, ReadOvertakes
<1> QED
  BY <1>2, <1>3

(* Receiving for node n keeps the order of the scan.                       *)
LEMMA RecvOvertakes ==
    ASSUME IndInv, OvertakingInv, NEW n \in Nodes, Recv(n), BufferToRelease'
    PROVE  OvertakingInv'
<1>1. pc' # "fatal"
  BY DEF BufferToRelease
<1>2. CASE RecvTupleChunkFromAny(n)
  <2>1. n \notin Merging /\ UNCHANGED connVars
    BY <1>2 DEF RecvTupleChunkFromAny
  <2>2. ASSUME NEW r \in Routes, FirstReady(n, r), PrepareRxConnForRead(<<n, r>>),
               scanStart' = [scanStart EXCEPT ![n] = r + 1]
        PROVE  OvertakingInv'
    BY <2>1, <2>2, ReadOvertakes DEF FirstReady
  <2>3. ASSUME \A r \in Routes : ~Ready(<<n, r>>), WaitFor(n, ANY_ROUTE), UNCHANGED scanStart
        PROVE  OvertakingInv'
    BY <2>1, <2>3, SleepOvertakes
  <2> QED
    BY <1>1, <1>2, <2>2, <2>3 DEF RecvTupleChunkFromAny
<1>3. ASSUME NEW r \in Routes, RecvTupleChunkFrom(n, r)
      PROVE  OvertakingInv'
  <2>1. n \in Merging /\ UNCHANGED <<connVars, scanStart>>
    BY <1>3 DEF RecvTupleChunkFrom
  <2>2. CASE Ready(<<n, r>>) /\ PrepareRxConnForRead(<<n, r>>)
    BY <2>1, <2>2, ReadOvertakes
  <2>3. CASE WaitFor(n, r)
    BY <2>1, <2>3, SleepOvertakes
  <2> QED
    BY <1>1, <1>3, <2>2, <2>3 DEF RecvTupleChunkFrom
<1> QED
  BY <1>2, <1>3 DEF Recv

(* Releasing the buffer: its connection was just read, so it is overtaken  *)
(* by nobody.                                                              *)
LEMMA PutOvertakes ==
    ASSUME IndInv, OvertakingInv, MlPutRxBuffer
    PROVE  OvertakingInv'
<1>1. /\ pc = "put" /\ pc' = "run"
      /\ ring' = [ring EXCEPT ![reading] = @ \ {consumed[reading] + 1}]
      /\ consumed' = [consumed EXCEPT ![reading] = @ + 1]
      /\ UNCHANGED <<overtaken, scanStart>>
  BY DEF MlPutRxBuffer
<1>2. overtaken[reading] = 0
  BY <1>1 DEF OvertakingInv, OvertakenIsReady
<1>3. \A d \in Conns : overtaken[d] > 0 /\ Ready(d) => Ready(d)'
  BY <1>1, <1>2 DEF IndInv, TypeOK, Ready
<1>4. ~Waiting'
  BY <1>1 DEF Waiting
<1> QED
  BY <1>1, <1>3, <1>4, OthersOvertake

(* A packet only adds to a ring.                                           *)
LEMMA PacketOvertakes ==
    ASSUME IndInv, OvertakingInv, NEW c \in Conns, NEW p \in Pkts, HandleDataPacket(c, p)
    PROVE  OvertakingInv'
<1>1. /\ ring' = [ring EXCEPT ![c] = @ \cup {p}]
      /\ UNCHANGED <<pc, reading, consumed, scanStart, overtaken>>
  BY DEF HandleDataPacket
<1>2. \A d \in Conns : Ready(d) => Ready(d)'
  BY <1>1 DEF IndInv, TypeOK, Ready
<1>3. waitingState'.waitingNode = waitingState.waitingNode
  BY DEF HandleDataPacket, WakeMain, IndInv, TypeOK, WaitingState
<1>4. Waiting' <=> Waiting
  BY <1>1 DEF Waiting
<1> QED
  BY <1>1, <1>2, <1>3, <1>4, OthersOvertake

(* Every step keeps the order of the scan.                                 *)
LEMMA OvertakingNext == IndInv /\ IndInv' /\ OvertakingInv /\ [Next]_vars => OvertakingInv'
<1> SUFFICES ASSUME IndInv, IndInv', OvertakingInv, [Next]_vars PROVE OvertakingInv'
  OBVIOUS
<1>1. BufferToRelease'
  BY DEF IndInv
<1>2. CASE WakeUp \/ RetryAfterTimeout
  BY <1>2, LoopOvertakes DEF WakeUp, RetryAfterTimeout, Waiting
<1>3. CASE Timeout \/ FailAfterTimeout \/ UNCHANGED vars
  <2>1. UNCHANGED <<reading, waitingState, connVars, scanStart, overtaken>>
    BY <1>3 DEF Timeout, FailAfterTimeout, vars
  <2>2. \A d \in Conns : Ready(d)' <=> Ready(d)
    BY <2>1 DEF Ready, connVars
  <2>3. /\ pc' \in {"read", "put"} => pc \in {"read", "put"}
        /\ Waiting' => Waiting
    BY <1>3 DEF Timeout, FailAfterTimeout, Waiting, vars
  <2> QED
    BY <2>1, <2>2, <2>3, OthersOvertake
<1>4. CASE ProcessIncomingChunks
  <2>1. /\ pc = "read" /\ pc' = "put"
        /\ UNCHANGED <<reading, ring, consumed, scanStart, overtaken>>
    BY <1>4 DEF ProcessIncomingChunks
  <2>2. (\A d \in Conns : Ready(d)' <=> Ready(d)) /\ ~Waiting'
    BY <2>1 DEF Ready, Waiting
  <2> QED
    BY <2>1, <2>2, OthersOvertake
<1>5. CASE NextQuery
  <2>1. overtaken' = [c \in Conns |-> 0] /\ pc' = "run"
    BY <1>5 DEF NextQuery, FreshConns
  <2>2. ~Waiting'
    BY <2>1 DEF Waiting
  <2> QED
    BY <2>1, <2>2, ConnFacts DEF OvertakingInv, OvertakenIsReady, WaitedIsNotOvertaken,
       ScanComesNearer
<1> QED
  BY <1>1, <1>2, <1>3, <1>4, <1>5, RecvOvertakes, PutOvertakes, PacketOvertakes
     DEF Next, MainThread

(***************************************************************************)
(* No route of an unordered motion starves: a connection with its next     *)
(* packet there is overtaken fewer times than the motion has routes, also  *)
(* by routes that were reached while the main thread slept.                *)
(***************************************************************************)
THEOREM OvertakingIsBounded == Spec => []BoundedOvertaking
<1>1. Init => OvertakingInv
  BY ConnFacts DEF Init, OvertakingInv, OvertakenIsReady, WaitedIsNotOvertaken,
     ScanComesNearer, Waiting
<1>2. IndInv /\ OvertakingInv => BoundedOvertaking
  <2> SUFFICES ASSUME IndInv, OvertakingInv, NEW c \in Conns, c[1] \notin Merging
               PROVE  overtaken[c] < NumRoutes
    BY DEF BoundedOvertaking
  <2>1. c[1] \in Nodes \ Merging /\ c[2] \in Routes /\ c = <<c[1], c[2]>>
    BY ConnFacts
  <2>2. overtaken[c] \in Nat /\ scanStart[c[1]] \in 0 .. NumRoutes
    BY <2>1 DEF IndInv, TypeOK
  <2>3. ScanOrder(c[1], c[2]) \in Nat
    BY <2>1, <2>2, ScanOrderIs, ConstAssumption DEF ScanOrder, Routes
  <2>4. overtaken[c] > 0 => overtaken[c] + ScanOrder(c[1], c[2]) < NumRoutes
    BY <2>1 DEF OvertakingInv, ScanComesNearer
  <2> QED
    BY <2>2, <2>3, <2>4, ConstAssumption
<1> QED
  BY <1>1, <1>2, OvertakingNext, Invariance, PTL DEF Spec
=============================================================================
