------------------------------ MODULE UdpWheel ------------------------------
(***************************************************************************)
(* The timing wheel of the UDP interconnect (ic_udp.c, UnackQueueRing):    *)
(* every outstanding packet of a sender sits in the slot of the time at    *)
(* which it is to be sent again.  The wheel is turned only when the sender *)
(* thread calls checkExpiration, which it does while it sends or waits, so *)
(* the clock can run far ahead of the wheel, further than one turn.        *)
(*                                                                         *)
(* UdpConn and UdpSendPool let a packet expire at any moment; this module  *)
(* is about which moment it is.  Time is in units in which TimerSpan is    *)
(* given; the clock is CLOCK_MONOTONIC.                                    *)
(***************************************************************************)
EXTENDS Integers, FiniteSets

CONSTANTS
    Pkts,          \* buffers of the sender
    SlotsNum,      \* UNACK_QUEUE_RING_SLOTS_NUM
    TimerSpan,     \* TIMER_SPAN
    Periods,       \* the values of computeExpirationPeriod
    CheckPeriod,   \* TIMER_CHECKING_PERIOD, which is compared with the clock
    MaxTime        \* bound: the clock

ASSUME WheelAssumption ==
    /\ IsFiniteSet(Pkts)
    /\ SlotsNum \in Nat /\ SlotsNum >= 2
    /\ TimerSpan \in Nat \ {0}
    /\ Periods \subseteq Nat \ {0}
    /\ CheckPeriod \in Nat
    /\ MaxTime \in Nat /\ MaxTime >= TimerSpan

RingLength == SlotsNum * TimerSpan     \* UNACK_QUEUE_RING_LENGTH

VARIABLES
    clock,
    currentTime, idx,          \* fields of the ring
    slot,                      \* unackQueueRingSlot of a packet, or NoSlot
    lastCheck,                 \* lastExpirationCheckTime
    checking, now, count,      \* locals of checkExpiration
    due,        \* history: the time the packet was put in plus its period
    behind,     \* history: how far the wheel was behind when it was, plus it
    resent      \* history: how often the check under way sent it (3, 2, 3, ... when
                \* more than twice)

wheel == <<currentTime, idx>>
check == <<checking, now, count>>
vars == <<clock, wheel, slot, lastCheck, check, due, behind, resent>>

NoSlot == -1
InRing == {p \in Pkts : slot[p] # NoSlot}

(***************************************************************************)
(* The types of the variables; currentTime is on a slot boundary.          *)
(***************************************************************************)
TypeOK ==
    /\ clock \in 0 .. MaxTime
    /\ currentTime \in 0 .. clock /\ currentTime % TimerSpan = 0
    /\ idx \in 0 .. (SlotsNum - 1)
    /\ slot \in [Pkts -> {NoSlot} \cup 0 .. (SlotsNum - 1)]
    /\ lastCheck \in 0 .. clock
    /\ checking \in BOOLEAN
    /\ now \in 0 .. clock
    /\ count \in Nat
    /\ due \in [Pkts -> Nat]
    /\ behind \in [Pkts -> Nat]
    /\ resent \in [Pkts -> 0 .. 3]

(* initUnackQueueRing; the clock starts within the first slots. *)
Init ==
    /\ clock \in 0 .. TimerSpan
    /\ currentTime = clock - (clock % TimerSpan)
    /\ idx = 0
    /\ slot = [p \in Pkts |-> NoSlot]
    /\ lastCheck = clock
    /\ checking = FALSE /\ now = 0 /\ count = 0
    /\ due = [p \in Pkts |-> 0]
    /\ behind = [p \in Pkts |-> 0]
    /\ resent = [p \in Pkts |-> 0]

Tick ==
    /\ ~checking
    /\ clock < MaxTime
    /\ clock' = clock + 1
    /\ UNCHANGED <<wheel, slot, lastCheck, check, due, behind, resent>>

-----------------------------------------------------------------------------
(* Mutant: the distance is reduced to the ring instead of being capped. *)
DistanceWrapped(diff) == diff \div TimerSpan

(* How many slots ahead of idx a packet goes that is due diff after the time
   of the wheel. *)
Distance(diff) ==
    (IF diff >= RingLength THEN RingLength - 1
     ELSE IF diff < TimerSpan THEN TimerSpan ELSE diff) \div TimerSpan

(* putIntoUnackQueueRing at time t; the wheel was lag behind the clock when
   the caller began. *)
PutIntoUnackQueueRing(p, period, t, lag) ==
    /\ slot' = [slot EXCEPT ![p] = (idx + Distance(t + period - currentTime)) % SlotsNum]
    /\ due' = [due EXCEPT ![p] = t + period]
    /\ behind' = [behind EXCEPT ![p] = lag + period]

(* sendBuffers sends a packet for the first time. *)
Send(p) ==
    /\ ~checking
    /\ slot[p] = NoSlot
    /\ \E period \in Periods : PutIntoUnackQueueRing(p, period, clock, clock - currentTime)
    /\ UNCHANGED <<clock, wheel, lastCheck, check, resent>>

(* handleAckForDisorderPkt moves a lost packet and sends it again. *)
Retransmit(p) ==
    /\ ~checking
    /\ slot[p] # NoSlot
    /\ \E period \in Periods : PutIntoUnackQueueRing(p, period, clock, clock - currentTime)
    /\ UNCHANGED <<clock, wheel, lastCheck, check, resent>>

(* handleAckedPacket and icBufferListReturn take the packet out. *)
Remove(p) ==
    /\ ~checking
    /\ slot[p] # NoSlot
    /\ slot' = [slot EXCEPT ![p] = NoSlot]
    /\ due' = [due EXCEPT ![p] = 0]
    /\ behind' = [behind EXCEPT ![p] = 0]
    /\ UNCHANGED <<clock, wheel, lastCheck, check, resent>>

-----------------------------------------------------------------------------
(* checkExceptions and SendChunkUDP call checkExpiration. *)
CheckExpiration ==
    /\ ~checking
    /\ clock - lastCheck > CheckPeriod
    /\ checking' = TRUE
    /\ now' = clock
    /\ count' = 0
    /\ UNCHANGED <<clock, wheel, slot, lastCheck, due, behind, resent>>

(* Mutant: the packets of the last slot of a full turn are left. *)
TurningShort == checking /\ now >= currentTime + TimerSpan /\ count < SlotsNum - 1

(* Mutant: the loop goes on until the wheel has caught up. *)
TurningOn == checking /\ now >= currentTime + TimerSpan

(* The condition of the loop over the slots. *)
Turning == checking /\ now >= currentTime + TimerSpan /\ count < SlotsNum

(* The time of the wheel when the check under way began. *)
CheckBegan == currentTime - count * TimerSpan

(* A packet of the current slot is put in again and sent. *)
Expire(p) ==
    /\ Turning
    /\ slot[p] = idx
    /\ \E period \in Periods : PutIntoUnackQueueRing(p, period, now, now - CheckBegan)
    /\ resent' = [resent EXCEPT ![p] = IF @ < 3 THEN @ + 1 ELSE 2]
    /\ UNCHANGED <<clock, wheel, lastCheck, check>>

NextSlot ==
    /\ Turning
    /\ \A p \in Pkts : slot[p] # idx
    /\ currentTime' = currentTime + TimerSpan
    /\ idx' = (idx + 1) % SlotsNum
    /\ count' = count + 1
    /\ UNCHANGED <<clock, slot, lastCheck, checking, now, due, behind, resent>>

(* After a full turn the wheel is set to the clock whatever is left. *)
EndCheck ==
    /\ checking /\ ~Turning
    /\ currentTime' = now - (now % TimerSpan)
    /\ checking' = FALSE
    /\ now' = 0 /\ count' = 0
    /\ lastCheck' = now
    /\ resent' = [p \in Pkts |-> 0]
    /\ UNCHANGED <<clock, idx, slot, due, behind>>

Next ==
    \/ Tick
    \/ \E p \in Pkts : Send(p) \/ Retransmit(p) \/ Remove(p) \/ Expire(p)
    \/ CheckExpiration
    \/ NextSlot
    \/ EndCheck

Spec == Init /\ [][Next]_vars

(* The loops of checkExpiration run to their end. *)
LiveSpec == Spec /\ WF_vars(\E p \in Pkts : Expire(p)) /\ WF_vars(NextSlot) /\ WF_vars(EndCheck)

-----------------------------------------------------------------------------
(* How many slots ahead of the wheel a packet is, and when its slot comes up if
   the wheel keeps up from now on. *)
Ahead(p) == (slot[p] - idx + SlotsNum) % SlotsNum
SlotTime(p) == currentTime + Ahead(p) * TimerSpan

(***************************************************************************)
(* "each slot has a associated buffer list/queue which contains the        *)
(* packets which will expire in the time span": a packet that was put in   *)
(* when the wheel was less than a turn behind its deadline comes up within *)
(* one timer span of the deadline, whatever checks and stalls follow.      *)
(***************************************************************************)
SlotIsDeadline ==
    \A p \in InRing : behind[p] < RingLength =>
        due[p] - TimerSpan < SlotTime(p) /\ SlotTime(p) < due[p] + TimerSpan

(***************************************************************************)
(* However long the wheel stood still, a packet is never put off by more   *)
(* than a turn beyond its deadline: the jump of currentTime at the end of  *)
(* checkExpiration moves only packets which that very check sent.          *)
(***************************************************************************)
PutOffByATurn ==
    \A p \in InRing : SlotTime(p) < due[p] + RingLength

(***************************************************************************)
(* A check sends a packet once; only one that finds the wheel a full turn  *)
(* behind comes around to its first slot again, and then sends it twice.   *)
(***************************************************************************)
SentTwiceAtMost ==
    \A p \in Pkts : /\ resent[p] <= 2
                    /\ resent[p] = 2 => now - CheckBegan >= RingLength

(***************************************************************************)
(* What makes the three invariants above inductive.  A check under way     *)
(* takes the wheel no further than its clock, and what it has not reached  *)
(* yet lies within the rest of the turn: a packet further on was put there *)
(* by this very check.  One it sent once is reached again only as the last *)
(* slot of a full turn, one it sent twice never.                           *)
(***************************************************************************)
CheckInTime ==
    /\ checking => currentTime <= now
    /\ count <= SlotsNum
BeyondTurnIsNew ==
    checking => \A p \in InRing :
        \/ count + Ahead(p) < SlotsNum
        \/ due[p] > now /\ behind[p] = due[p] - CheckBegan
ResentIsAhead ==
    \A p \in Pkts :
        /\ resent[p] # 0 => checking /\ p \in InRing
        /\ resent[p] = 1 => \/ SlotTime(p) + TimerSpan > now
                            \/ count + Ahead(p) >= SlotsNum - 1
        /\ resent[p] = 2 => count + Ahead(p) >= SlotsNum
WheelInv ==
    /\ TypeOK /\ CheckInTime /\ BeyondTurnIsNew /\ ResentIsAhead
    /\ SlotIsDeadline /\ PutOffByATurn /\ SentTwiceAtMost

(***************************************************************************)
(* A check ends: a packet it sends never returns to the slot it was taken  *)
(* from, however far the clock is ahead.                                   *)
(***************************************************************************)
CheckEnds == checking ~> ~checking

=============================================================================
