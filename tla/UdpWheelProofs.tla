--------------------------- MODULE UdpWheelProofs ---------------------------
(***************************************************************************)
(* Proofs about the timing wheel of the UDP interconnect (UdpWheel), for   *)
(* every number of slots, timer span and set of expiration periods: when a *)
(* packet is due, how far a stalled wheel can put it off, and how often    *)
(* one check sends it.                                                     *)
(***************************************************************************)
EXTENDS UdpWheel, RingArith

(* Times of slots: multiples of the timer span.                            *)
LEMMA Times ==
    ASSUME NEW a \in Int, NEW b \in Int
    PROVE  /\ a * TimerSpan \in Int
           /\ (a + b) * TimerSpan = a * TimerSpan + b * TimerSpan
           /\ a <= b => a * TimerSpan <= b * TimerSpan
           /\ 0 * TimerSpan = 0 /\ 1 * TimerSpan = TimerSpan
           /\ (a - 1) * TimerSpan = a * TimerSpan - TimerSpan
<1>1. TimerSpan \in Nat
  BY WheelAssumption
<1> QED
  BY <1>1, Z3

(* The length of the ring.                                                 *)
LEMMA RingLengthIs ==
    /\ RingLength \in Nat
    /\ RingLength = SlotsNum * TimerSpan
    /\ RingLength = (SlotsNum - 1) * TimerSpan + TimerSpan
    /\ RingLength >= TimerSpan + TimerSpan
<1>1. SlotsNum \in Int /\ SlotsNum - 1 \in Int /\ 1 \in Int /\ 2 \in Int /\ SlotsNum >= 2
  BY WheelAssumption
<1>2. SlotsNum * TimerSpan = (SlotsNum - 1) * TimerSpan + 1 * TimerSpan
  <2>1. (SlotsNum - 1) + 1 = SlotsNum
    BY <1>1
  <2> QED
    BY <1>1, <2>1, Times
<1>3. 2 * TimerSpan = TimerSpan + TimerSpan
  BY WheelAssumption, Z3
<1>4. SlotsNum * TimerSpan >= 2 * TimerSpan
  BY <1>1, Times, WheelAssumption
<1>5. 1 * TimerSpan = TimerSpan /\ SlotsNum * TimerSpan \in Int /\ TimerSpan \in Nat \ {0}
  BY <1>1, Times, WheelAssumption
<1> QED
  BY <1>2, <1>3, <1>4, <1>5 DEF RingLength

(* A packet goes between one slot and a turn less one slot ahead of the    *)
(* wheel, and within a timer span of where it is due unless that is a turn *)
(* ahead or more.                                                          *)
LEMMA DistanceIs ==
    ASSUME NEW d \in Nat \ {0}
    PROVE  /\ Distance(d) \in 1 .. (SlotsNum - 1)
           /\ Distance(d) * TimerSpan \in Int
           /\ d < RingLength => /\ d - TimerSpan < Distance(d) * TimerSpan
                                /\ Distance(d) * TimerSpan < d + TimerSpan
           /\ Distance(d) * TimerSpan < d + RingLength
           /\ d >= RingLength => Distance(d) = SlotsNum - 1
<1> DEFINE c == IF d >= RingLength THEN RingLength - 1
                ELSE IF d < TimerSpan THEN TimerSpan ELSE d
           k == c \div TimerSpan
           r == c % TimerSpan
<1>0. TimerSpan \in Nat \ {0} /\ SlotsNum \in Nat /\ SlotsNum >= 2 /\ RingLength \in Nat
  BY WheelAssumption, RingLengthIs
<1>1. c \in Nat /\ c >= TimerSpan /\ c < RingLength
  BY <1>0, RingLengthIs
<1>2. c = d \/ (d >= RingLength /\ c = RingLength - 1) \/ (d < TimerSpan /\ c = TimerSpan)
  OBVIOUS
<1>3. Distance(d) = k
  BY DEF Distance
<1> HIDE DEF c
<1>4. k \in Nat /\ r \in 0 .. (TimerSpan - 1) /\ c = TimerSpan * k + r
  BY <1>0, <1>1, DivMod
<1> HIDE DEF k, r
<1>5. TimerSpan * k = k * TimerSpan /\ k * TimerSpan \in Int
  BY <1>0, <1>4, Z3
<1>6. k >= 1
  <2> SUFFICES ASSUME k = 0 PROVE FALSE
    BY <1>4
  <2>1. k * TimerSpan = 0
    BY Times
  <2> QED
    BY <1>0, <1>1, <1>4, <1>5, <2>1
<1>7. k <= SlotsNum - 1
  <2> SUFFICES ASSUME k >= SlotsNum PROVE FALSE
    BY <1>0, <1>4
  <2>1. SlotsNum * TimerSpan <= k * TimerSpan
    BY <1>0, <1>4, Times
  <2> QED
    BY <1>0, <1>1, <1>4, <1>5, <2>1, RingLengthIs
<1>8. d >= RingLength => k = SlotsNum - 1
  <2> SUFFICES ASSUME d >= RingLength, k <= SlotsNum - 2 PROVE FALSE
    BY <1>0, <1>4, <1>7
  <2>1. (k + 1) * TimerSpan <= (SlotsNum - 1) * TimerSpan
    BY <1>0, <1>4, Times
  <2>2. (k + 1) * TimerSpan = k * TimerSpan + 1 * TimerSpan /\ 1 * TimerSpan = TimerSpan
    BY <1>4, Times
  <2>3. c = RingLength - 1
    BY <1>0, <1>1, <1>2, RingLengthIs
  <2>4. (SlotsNum - 1) * TimerSpan \in Int
    BY <1>0, Times
  <2> QED
    BY <1>0, <1>4, <1>5, <2>1, <2>2, <2>3, <2>4, RingLengthIs
<1>9. k * TimerSpan <= c /\ c < k * TimerSpan + TimerSpan
  BY <1>0, <1>1, <1>4, <1>5
<1>10. d < RingLength => d - TimerSpan < k * TimerSpan /\ k * TimerSpan < d + TimerSpan
  <2>1. CASE c = d
    BY <1>0, <1>5, <1>9, <2>1
  <2>2. CASE d < TimerSpan /\ c = TimerSpan
    <3>1. k = 1
      <4> SUFFICES ASSUME k >= 2 PROVE FALSE
        BY <1>4, <1>6
      <4>1. 2 * TimerSpan <= k * TimerSpan
        BY <1>4, Times
      <4>2. 2 * TimerSpan = TimerSpan + TimerSpan
        BY <1>0, Z3
      <4> QED
        BY <1>0, <1>5, <1>9, <2>2, <4>1, <4>2
    <3>2. k * TimerSpan = TimerSpan
      BY <3>1, Times
    <3> QED
      BY <1>0, <2>2, <3>2
  <2> QED
    BY <1>0, <1>2, <2>1, <2>2
<1>11. k * TimerSpan < d + RingLength
  BY <1>0, <1>1, <1>5, <1>9
<1> QED
  BY <1>0, <1>3, <1>4, <1>5, <1>6, <1>7, <1>8, <1>10, <1>11

(* The constants, for the steps that need no more of them.                 *)
LEMMA Constants ==
    /\ SlotsNum \in Nat \ {0} /\ SlotsNum >= 2
    /\ TimerSpan \in Nat \ {0}
    /\ RingLength \in Nat /\ RingLength >= TimerSpan
    /\ RingLength = SlotsNum * TimerSpan
    /\ RingLength = (SlotsNum - 1) * TimerSpan + TimerSpan
    /\ (SlotsNum - 1) * TimerSpan \in Int
<1>1. (SlotsNum - 1) * TimerSpan \in Int
  BY WheelAssumption, Times
<1> QED
  BY <1>1, WheelAssumption, RingLengthIs

(* How far ahead a packet of the ring is.                                  *)
LEMMA AheadIs ==
    ASSUME TypeOK, NEW p \in InRing
    PROVE  /\ p \in Pkts /\ slot[p] \in 0 .. (SlotsNum - 1)
           /\ Ahead(p) = IF slot[p] >= idx THEN slot[p] - idx ELSE slot[p] - idx + SlotsNum
           /\ Ahead(p) \in 0 .. (SlotsNum - 1)
           /\ Ahead(p) = 0 <=> slot[p] = idx
           /\ Ahead(p) * TimerSpan \in Int
           /\ Ahead(p) * TimerSpan <= RingLength - TimerSpan
           /\ Ahead(p) = 0 => Ahead(p) * TimerSpan = 0
<1>1. p \in Pkts /\ slot[p] \in 0 .. (SlotsNum - 1) /\ idx \in 0 .. (SlotsNum - 1)
  BY DEF TypeOK, InRing
<1>2. Ahead(p) = IF slot[p] >= idx THEN slot[p] - idx ELSE slot[p] - idx + SlotsNum
  <2>1. idx \in 0 .. SlotsNum
    BY <1>1, Constants
  <2> QED
    BY <1>1, <2>1, Constants, RingDistance DEF Ahead
<1>3. Ahead(p) \in 0 .. (SlotsNum - 1) /\ (Ahead(p) = 0 <=> slot[p] = idx)
  BY <1>1, <1>2, Constants
<1>4. /\ Ahead(p) * TimerSpan \in Int
      /\ Ahead(p) * TimerSpan <= (SlotsNum - 1) * TimerSpan
      /\ Ahead(p) = 0 => Ahead(p) * TimerSpan = 0
  BY <1>3, Constants, Times
<1> QED
  BY <1>1, <1>2, <1>3, <1>4, Constants

(* When the check under way began.                                         *)
LEMMA CheckBeganIs ==
    ASSUME TypeOK
    PROVE  /\ count * TimerSpan \in Nat
           /\ CheckBegan = currentTime - count * TimerSpan
           /\ CheckBegan \in Int /\ CheckBegan <= currentTime
           /\ currentTime \in Nat /\ clock \in Nat /\ now \in Nat /\ count \in Nat
           /\ count = 0 => CheckBegan = currentTime
           /\ count = SlotsNum => CheckBegan = currentTime - RingLength
           /\ count = SlotsNum - 1 => CheckBegan = currentTime - RingLength + TimerSpan
<1>1. currentTime \in Nat /\ clock \in Nat /\ now \in Nat /\ count \in Nat
  BY WheelAssumption DEF TypeOK
<1>2. count * TimerSpan \in Int /\ 0 * TimerSpan <= count * TimerSpan /\ 0 * TimerSpan = 0
  BY <1>1, Times
<1> QED
  BY <1>1, <1>2, Constants DEF CheckBegan

(***************************************************************************)
(* Putting a packet in: it is then at its distance ahead of the wheel, and *)
(* the others stay where they are.                                         *)
(***************************************************************************)
LEMMA PutIs ==
    ASSUME WheelInv, NEW p \in Pkts, NEW period \in Periods, NEW t \in Nat, NEW lag \in Nat,
           currentTime <= t, t - currentTime <= lag,
           PutIntoUnackQueueRing(p, period, t, lag), UNCHANGED wheel
    PROVE  /\ period \in Nat \ {0}
           /\ slot' \in [Pkts -> {NoSlot} \cup 0 .. (SlotsNum - 1)]
           /\ due' \in [Pkts -> Nat] /\ behind' \in [Pkts -> Nat]
           /\ InRing' = InRing \cup {p}
           /\ due'[p] = t + period /\ behind'[p] = lag + period
           /\ Ahead(p)' = Distance(t + period - currentTime)
           /\ Ahead(p)' \in 1 .. (SlotsNum - 1)
           /\ \A q \in Pkts \ {p} : /\ Ahead(q)' = Ahead(q) /\ SlotTime(q)' = SlotTime(q)
                                    /\ due'[q] = due[q] /\ behind'[q] = behind[q]
                                    /\ slot'[q] = slot[q]
           /\ SlotTime(p)' \in Int
           /\ t + period - currentTime < RingLength =>
                  /\ due'[p] - TimerSpan < SlotTime(p)'
                  /\ SlotTime(p)' < due'[p] + TimerSpan
           /\ SlotTime(p)' < due'[p] + RingLength
<1> DEFINE d == t + period - currentTime
           D == Distance(d)
<1>1. TypeOK
  BY DEF WheelInv
<1>2. period \in Nat \ {0} /\ currentTime \in Nat /\ idx \in 0 .. (SlotsNum - 1)
  BY <1>1, WheelAssumption DEF TypeOK
<1>3. d \in Nat \ {0}
  BY <1>2
<1> HIDE DEF d
<1>4. D \in 1 .. (SlotsNum - 1) /\ D * TimerSpan \in Int
  BY <1>3, DistanceIs
<1> HIDE DEF D
<1>5. slot' = [slot EXCEPT ![p] = (idx + D) % SlotsNum]
  BY DEF PutIntoUnackQueueRing, D, d
<1>6. (idx + D) % SlotsNum = IF idx + D < SlotsNum THEN idx + D ELSE idx + D - SlotsNum
  <2>1. CASE idx + D < SlotsNum
    BY <1>2, <1>4, <2>1, Constants, ModSmall
  <2>2. CASE idx + D >= SlotsNum
    <3>1. idx + D - SlotsNum \in 0 .. (SlotsNum - 1) /\ idx + D - SlotsNum \in Nat
          /\ idx + D = (idx + D - SlotsNum) + SlotsNum
      BY <1>2, <1>4, <2>2, Constants
    <3>2. ((idx + D - SlotsNum) + SlotsNum) % SlotsNum = (idx + D - SlotsNum) % SlotsNum
      BY <3>1, Constants, ModAddQ
    <3>3. (idx + D - SlotsNum) % SlotsNum = idx + D - SlotsNum
      BY <3>1, Constants, ModSmall
    <3>4. ~(idx + D < SlotsNum)
      BY <1>2, <1>4, <2>2, Constants
    <3> QED
      BY <3>1, <3>2, <3>3, <3>4
  <2> QED
    BY <1>2, <1>4, <2>1, <2>2, Constants
<1>7. slot'[p] \in 0 .. (SlotsNum - 1)
      /\ slot'[p] = (IF idx + D < SlotsNum THEN idx + D ELSE idx + D - SlotsNum)
  BY <1>1, <1>2, <1>4, <1>5, <1>6, Constants DEF TypeOK
<1>8. /\ slot' \in [Pkts -> {NoSlot} \cup 0 .. (SlotsNum - 1)]
      /\ \A q \in Pkts \ {p} : slot'[q] = slot[q]
      /\ InRing' = InRing \cup {p}
  <2>1. slot' = [slot EXCEPT ![p] = slot'[p]]
    BY <1>1, <1>5 DEF TypeOK
  <2>2. slot'[p] # NoSlot
    BY <1>7, Constants DEF NoSlot
  <2>3. \A q \in Pkts \ {p} : slot'[q] = slot[q]
    BY <1>1, <1>5 DEF TypeOK
  <2>4. slot' \in [Pkts -> {NoSlot} \cup 0 .. (SlotsNum - 1)]
    BY <1>1, <1>7, <2>1 DEF TypeOK
  <2> QED
    BY <2>2, <2>3, <2>4 DEF InRing
<1>9. Ahead(p)' = D
  <2>1. idx' = idx
    BY DEF wheel
  <2>2. (slot'[p] - idx + SlotsNum) % SlotsNum
            = IF slot'[p] >= idx THEN slot'[p] - idx ELSE slot'[p] - idx + SlotsNum
    <3>1. idx \in 0 .. SlotsNum
      BY <1>2, Constants
    <3> QED
      BY <1>7, <3>1, Constants, RingDistance
  <2>3. (slot'[p] - idx + SlotsNum) % SlotsNum = D
    BY <1>2, <1>4, <1>7, <2>2, Constants
  <2> QED
    BY <2>1, <2>3 DEF Ahead
<1>10. /\ due' \in [Pkts -> Nat] /\ behind' \in [Pkts -> Nat]
       /\ due'[p] = t + period /\ behind'[p] = lag + period
       /\ \A q \in Pkts \ {p} : due'[q] = due[q] /\ behind'[q] = behind[q]
  BY <1>1, <1>2 DEF PutIntoUnackQueueRing, TypeOK
<1>11. \A q \in Pkts \ {p} : Ahead(q)' = Ahead(q) /\ SlotTime(q)' = SlotTime(q)
  BY <1>8 DEF Ahead, SlotTime, wheel
<1>12. SlotTime(p)' = currentTime + D * TimerSpan /\ due'[p] = currentTime + d
  BY <1>2, <1>9, <1>10 DEF SlotTime, wheel, d
<1>13. /\ d < RingLength => d - TimerSpan < D * TimerSpan /\ D * TimerSpan < d + TimerSpan
       /\ D * TimerSpan < d + RingLength
  BY <1>3, DistanceIs DEF D
<1>14. /\ SlotTime(p)' \in Int
       /\ d < RingLength => /\ due'[p] - TimerSpan < SlotTime(p)'
                            /\ SlotTime(p)' < due'[p] + TimerSpan
       /\ SlotTime(p)' < due'[p] + RingLength
  BY <1>2, <1>3, <1>4, <1>12, <1>13, Constants
<1>15. /\ Ahead(p)' = Distance(t + period - currentTime)
       /\ Ahead(p)' \in 1 .. (SlotsNum - 1)
  BY <1>4, <1>9 DEF D, d
<1>16. t + period - currentTime < RingLength =>
           due'[p] - TimerSpan < SlotTime(p)' /\ SlotTime(p)' < due'[p] + TimerSpan
  BY <1>14 DEF d
<1> QED
  BY <1>2, <1>8, <1>10, <1>11, <1>14, <1>15, <1>16

(* Sending, or sending again, outside of a check.                          *)
LEMMA PutKeeps ==
    ASSUME WheelInv, NEW p \in Pkts, ~checking,
           \E period \in Periods : PutIntoUnackQueueRing(p, period, clock, clock - currentTime),
           UNCHANGED <<clock, wheel, lastCheck, check, resent>>
    PROVE  WheelInv'
<1>0. TypeOK /\ CheckInTime /\ ResentIsAhead
  BY DEF WheelInv
<1>1. PICK period \in Periods : PutIntoUnackQueueRing(p, period, clock, clock - currentTime)
  OBVIOUS
<1>2. /\ clock \in Nat /\ currentTime \in Nat /\ currentTime <= clock
      /\ clock - currentTime \in Nat
  BY <1>0, CheckBeganIs DEF TypeOK
<1>3. /\ period \in Nat \ {0}
      /\ slot' \in [Pkts -> {NoSlot} \cup 0 .. (SlotsNum - 1)]
      /\ due' \in [Pkts -> Nat] /\ behind' \in [Pkts -> Nat]
      /\ InRing' = InRing \cup {p}
      /\ due'[p] = clock + period /\ behind'[p] = clock - currentTime + period
      /\ \A q \in Pkts \ {p} : /\ SlotTime(q)' = SlotTime(q)
                               /\ due'[q] = due[q] /\ behind'[q] = behind[q]
      /\ clock + period - currentTime < RingLength =>
             due'[p] - TimerSpan < SlotTime(p)' /\ SlotTime(p)' < due'[p] + TimerSpan
      /\ SlotTime(p)' < due'[p] + RingLength
  BY <1>1, <1>2, PutIs
<1>4. clock + period - currentTime = clock - currentTime + period
  BY <1>2, <1>3
<1>5. TypeOK'
  BY <1>0, <1>3 DEF TypeOK, wheel, check
<1>6. resent' = resent /\ (\A q \in Pkts : resent[q] = 0) /\ checking' = FALSE
  BY <1>0 DEF ResentIsAhead, TypeOK, check
<1>7. CheckInTime' /\ BeyondTurnIsNew' /\ ResentIsAhead' /\ SentTwiceAtMost'
  BY <1>0, <1>6 DEF CheckInTime, BeyondTurnIsNew, ResentIsAhead, SentTwiceAtMost, wheel, check
<1>8. InRing \subseteq Pkts
  BY DEF InRing
<1>9. SlotIsDeadline'
  <2> SUFFICES ASSUME NEW q \in InRing', behind'[q] < RingLength
               PROVE  due'[q] - TimerSpan < SlotTime(q)' /\ SlotTime(q)' < due'[q] + TimerSpan
    BY DEF SlotIsDeadline, RingLength
  <2>1. CASE q = p
    BY <1>3, <1>4, <2>1
  <2>2. CASE q # p
    BY <1>3, <1>8, <2>2 DEF WheelInv, SlotIsDeadline
  <2> QED
    BY <2>1, <2>2
<1>10. PutOffByATurn'
  <2> SUFFICES ASSUME NEW q \in InRing' PROVE SlotTime(q)' < due'[q] + RingLength
    BY DEF PutOffByATurn, RingLength
  <2>1. CASE q = p
    BY <1>3, <2>1
  <2>2. CASE q # p
    BY <1>3, <1>8, <2>2 DEF WheelInv, PutOffByATurn
  <2> QED
    BY <2>1, <2>2
<1> QED
  BY <1>5, <1>7, <1>9, <1>10 DEF WheelInv

(***************************************************************************)
(* A check sends a packet of the current slot again.  The packet was sent  *)
(* at most once before by this check, and then this is the last slot of a  *)
(* full turn; it goes ahead by one slot at least.                          *)
(***************************************************************************)
LEMMA ExpireKeeps ==
    ASSUME WheelInv, NEW p \in Pkts, Expire(p)
    PROVE  WheelInv'
<1>0. /\ TypeOK /\ CheckInTime /\ ResentIsAhead /\ BeyondTurnIsNew
      /\ SlotIsDeadline /\ PutOffByATurn /\ SentTwiceAtMost
  BY DEF WheelInv
<1>1. PICK period \in Periods : PutIntoUnackQueueRing(p, period, now, now - CheckBegan)
  BY DEF Expire
<1>2. /\ checking /\ now >= currentTime + TimerSpan /\ count < SlotsNum /\ slot[p] = idx
      /\ UNCHANGED <<clock, currentTime, idx, lastCheck, checking, now, count>>
      /\ resent' = [resent EXCEPT ![p] = IF @ < 3 THEN @ + 1 ELSE 2]
  BY DEF Expire, Turning, wheel, check
<1>3. /\ now \in Nat /\ currentTime \in Nat /\ count \in Nat /\ CheckBegan \in Int
      /\ CheckBegan <= currentTime /\ currentTime <= now
      /\ now - CheckBegan \in Nat /\ now - currentTime <= now - CheckBegan
      /\ CheckBegan' = CheckBegan
  <2>1. CheckBegan' = CheckBegan
    BY <1>2 DEF CheckBegan
  <2> QED
    BY <1>0, <1>2, <2>1, CheckBeganIs, Constants
<1>4. p \in InRing /\ Ahead(p) = 0 /\ SlotTime(p) = currentTime
  <2>1. p \in InRing
    BY <1>0, <1>2 DEF InRing, TypeOK, NoSlot
  <2>2. Ahead(p) = 0 /\ Ahead(p) * TimerSpan = 0
    BY <1>0, <1>2, <2>1, AheadIs
  <2> QED
    BY <1>3, <2>1, <2>2 DEF SlotTime
<1>5. UNCHANGED wheel
  BY <1>2 DEF wheel
<1>6. /\ period \in Nat \ {0}
      /\ slot' \in [Pkts -> {NoSlot} \cup 0 .. (SlotsNum - 1)]
      /\ due' \in [Pkts -> Nat] /\ behind' \in [Pkts -> Nat]
      /\ InRing' = InRing \cup {p}
      /\ due'[p] = now + period /\ behind'[p] = now - CheckBegan + period
      /\ Ahead(p)' = Distance(now + period - currentTime)
      /\ Ahead(p)' \in 1 .. (SlotsNum - 1)
      /\ \A q \in Pkts \ {p} : /\ Ahead(q)' = Ahead(q) /\ SlotTime(q)' = SlotTime(q)
                               /\ due'[q] = due[q] /\ behind'[q] = behind[q]
      /\ SlotTime(p)' \in Int
      /\ now + period - currentTime < RingLength =>
             due'[p] - TimerSpan < SlotTime(p)' /\ SlotTime(p)' < due'[p] + TimerSpan
      /\ SlotTime(p)' < due'[p] + RingLength
  BY <1>1, <1>3, <1>5, PutIs
<1>7. InRing' = InRing /\ InRing \subseteq Pkts
  BY <1>4, <1>6 DEF InRing
<1>8. resent' \in [Pkts -> 0 .. 3] /\ \A q \in Pkts \ {p} : resent'[q] = resent[q]
  BY <1>0, <1>2 DEF TypeOK
<1>9. TypeOK'
  BY <1>0, <1>2, <1>6, <1>8 DEF TypeOK
<1>10. CheckInTime'
  BY <1>0, <1>2 DEF CheckInTime
<1>11. BeyondTurnIsNew'
  <2> SUFFICES ASSUME NEW q \in InRing
               PROVE  \/ count + Ahead(q)' < SlotsNum
                      \/ due'[q] > now /\ behind'[q] = due'[q] - CheckBegan
    BY <1>2, <1>3, <1>7 DEF BeyondTurnIsNew
  <2>1. CASE q = p
    BY <1>3, <1>6, <2>1
  <2>2. CASE q # p
    BY <1>0, <1>2, <1>6, <1>7, <2>2 DEF BeyondTurnIsNew
  <2> QED
    BY <2>1, <2>2
<1>12. resent[p] \in {0, 1}
  <2>1. resent[p] \in 0 .. 3 /\ resent[p] <= 2
    BY <1>0 DEF TypeOK, SentTwiceAtMost
  <2>2. resent[p] # 2
    BY <1>0, <1>2, <1>3, <1>4, Constants DEF ResentIsAhead
  <2> QED
    BY <2>1, <2>2
<1>13. resent'[p] = resent[p] + 1
  BY <1>0, <1>2, <1>12 DEF TypeOK
<1>14. resent[p] = 1 => count = SlotsNum - 1 /\ now - CheckBegan >= RingLength
  <2> SUFFICES ASSUME resent[p] = 1
               PROVE  count = SlotsNum - 1 /\ now - CheckBegan >= RingLength
    OBVIOUS
  <2>1. ~(SlotTime(p) + TimerSpan > now)
    BY <1>2, <1>3, <1>4, Constants
  <2>2. count >= SlotsNum - 1
    BY <1>0, <1>3, <1>4, <2>1, Constants DEF ResentIsAhead
  <2>3. count = SlotsNum - 1
    BY <1>2, <1>3, <2>2, Constants
  <2> QED
    BY <1>0, <1>2, <1>3, <2>3, CheckBeganIs, Constants
<1>15. resent[p] = 0 => \/ SlotTime(p)' + TimerSpan > now
                        \/ count + Ahead(p)' >= SlotsNum - 1
  <2>1. CASE now + period - currentTime < RingLength
    BY <1>3, <1>6, <2>1, Constants
  <2>2. CASE now + period - currentTime >= RingLength
    <3>1. now + period - currentTime \in Nat \ {0}
      BY <1>3, <1>6
    <3>2. Ahead(p)' = SlotsNum - 1
      BY <1>6, <2>2, <3>1, DistanceIs
    <3> QED
      BY <1>3, <3>2, Constants
  <2> QED
    BY <1>3, <1>6, <2>1, <2>2, Constants
<1>16. ResentIsAhead'
  <2> SUFFICES ASSUME NEW q \in Pkts
               PROVE  /\ resent'[q] # 0 => checking' /\ q \in InRing'
                      /\ resent'[q] = 1 => \/ SlotTime(q)' + TimerSpan > now
                                           \/ count + Ahead(q)' >= SlotsNum - 1
                      /\ resent'[q] = 2 => count + Ahead(q)' >= SlotsNum
    BY <1>2 DEF ResentIsAhead
  <2>1. CASE q = p
    <3>1. resent'[q] = 1 => \/ SlotTime(q)' + TimerSpan > now
                            \/ count + Ahead(q)' >= SlotsNum - 1
      BY <1>12, <1>13, <1>15, <2>1
    <3>2. resent'[q] = 2 => count + Ahead(q)' >= SlotsNum
      BY <1>3, <1>6, <1>12, <1>13, <1>14, <2>1, Constants
    <3> QED
      BY <1>2, <1>4, <1>7, <2>1, <3>1, <3>2
  <2>2. CASE q # p
    BY <1>0, <1>2, <1>6, <1>7, <1>8, <2>2 DEF ResentIsAhead
  <2> QED
    BY <2>1, <2>2
<1>17. SentTwiceAtMost'
  <2> SUFFICES ASSUME NEW q \in Pkts
               PROVE  resent'[q] <= 2 /\ (resent'[q] = 2 => now - CheckBegan >= RingLength)
    BY <1>2, <1>3 DEF SentTwiceAtMost, RingLength
  <2>1. CASE q = p
    BY <1>12, <1>13, <1>14, <2>1
  <2>2. CASE q # p
    BY <1>0, <1>8, <2>2 DEF SentTwiceAtMost
  <2> QED
    BY <2>1, <2>2
<1>18. SlotIsDeadline'
  <2> SUFFICES ASSUME NEW q \in InRing', behind'[q] < RingLength
               PROVE  due'[q] - TimerSpan < SlotTime(q)' /\ SlotTime(q)' < due'[q] + TimerSpan
    BY DEF SlotIsDeadline, RingLength
  <2>1. CASE q = p
    <3>1. now + period - currentTime < RingLength
      BY <1>3, <1>6, <2>1, Constants
    <3> QED
      BY <1>6, <2>1, <3>1
  <2>2. CASE q # p
    BY <1>0, <1>6, <1>7, <2>2 DEF SlotIsDeadline
  <2> QED
    BY <2>1, <2>2
<1>19. PutOffByATurn'
  <2> SUFFICES ASSUME NEW q \in InRing' PROVE SlotTime(q)' < due'[q] + RingLength
    BY DEF PutOffByATurn, RingLength
  <2>1. CASE q = p
    BY <1>6, <2>1
  <2>2. CASE q # p
    BY <1>0, <1>6, <1>7, <2>2 DEF PutOffByATurn
  <2> QED
    BY <2>1, <2>2
<1> QED
  BY <1>9, <1>10, <1>11, <1>16, <1>17, <1>18, <1>19 DEF WheelInv

(***************************************************************************)
(* The wheel turns by an empty slot: every packet comes one slot nearer,   *)
(* and its time stays.                                                     *)
(***************************************************************************)
LEMMA NextSlotKeeps ==
    ASSUME WheelInv, NextSlot
    PROVE  WheelInv'
<1>0. /\ TypeOK /\ CheckInTime /\ ResentIsAhead /\ BeyondTurnIsNew
      /\ SlotIsDeadline /\ PutOffByATurn /\ SentTwiceAtMost
  BY DEF WheelInv
<1>1. /\ checking /\ now >= currentTime + TimerSpan /\ count < SlotsNum
      /\ \A p \in Pkts : slot[p] # idx
      /\ currentTime' = currentTime + TimerSpan
      /\ idx' = (idx + 1) % SlotsNum
      /\ count' = count + 1
      /\ UNCHANGED <<clock, slot, lastCheck, checking, now, due, behind, resent>>
  BY DEF NextSlot, Turning
<1>2. /\ now \in Nat /\ currentTime \in Nat /\ count \in Nat /\ clock \in Nat
      /\ now <= clock /\ idx \in 0 .. (SlotsNum - 1)
  BY <1>0, CheckBeganIs DEF TypeOK
<1>3. idx' = IF idx + 1 < SlotsNum THEN idx + 1 ELSE 0
  <2>1. CASE idx + 1 < SlotsNum
    BY <1>1, <1>2, <2>1, Constants, ModSmall
  <2>2. CASE idx + 1 = SlotsNum
    <3>1. (0 + SlotsNum) % SlotsNum = 0 % SlotsNum /\ 0 % SlotsNum = 0
      BY Constants, ModAddQ, ModSmall
    <3>2. idx + 1 = 0 + SlotsNum /\ ~(idx + 1 < SlotsNum)
      BY <1>2, <2>2, Constants
    <3> QED
      BY <1>1, <3>1, <3>2
  <2> QED
    BY <1>2, <2>1, <2>2, Constants
<1>4. TypeOK'
  <2>1. currentTime' \in 0 .. clock'
    BY <1>1, <1>2, Constants
  <2>2. currentTime' % TimerSpan = 0
    BY <1>0, <1>1, <1>2, Constants, ModAddQ DEF TypeOK
  <2>3. idx' \in 0 .. (SlotsNum - 1)
    BY <1>2, <1>3, Constants
  <2>4. count' \in Nat
    BY <1>1, <1>2
  <2> QED
    BY <1>0, <1>1, <2>1, <2>2, <2>3, <2>4 DEF TypeOK
<1>5. CheckInTime'
  BY <1>0, <1>1, <1>2, Constants DEF CheckInTime
<1>6. CheckBegan' = CheckBegan
  <2>1. (count + 1) * TimerSpan = count * TimerSpan + 1 * TimerSpan /\ 1 * TimerSpan = TimerSpan
    BY <1>2, Times
  <2>2. count * TimerSpan \in Nat
    BY <1>0, CheckBeganIs
  <2> QED
    BY <1>1, <1>2, <2>1, <2>2, Constants DEF CheckBegan
<1>7. InRing' = InRing /\ InRing \subseteq Pkts
  BY <1>1 DEF InRing
<1>8. ASSUME NEW p \in InRing
      PROVE  /\ Ahead(p)' = Ahead(p) - 1 /\ SlotTime(p)' = SlotTime(p)
             /\ count' + Ahead(p)' = count + Ahead(p)
  <2>1. Ahead(p)' = IF slot[p] >= idx' THEN slot[p] - idx' ELSE slot[p] - idx' + SlotsNum
    <3>1. slot[p] \in 0 .. (SlotsNum - 1) /\ idx' \in 0 .. SlotsNum
      BY <1>0, <1>2, <1>3, AheadIs, Constants
    <3>2. Ahead(p)' = (slot[p] - idx' + SlotsNum) % SlotsNum
      BY <1>1 DEF Ahead
    <3> QED
      BY <3>1, <3>2, Constants, RingDistance
  <2>2. /\ slot[p] # idx /\ slot[p] \in 0 .. (SlotsNum - 1)
        /\ Ahead(p) = IF slot[p] >= idx THEN slot[p] - idx ELSE slot[p] - idx + SlotsNum
        /\ Ahead(p) \in 0 .. (SlotsNum - 1)
    BY <1>0, <1>1, <1>7, AheadIs
  <2>3. Ahead(p)' = Ahead(p) - 1
    BY <1>2, <1>3, <2>1, <2>2, Constants
  <2>4. (Ahead(p) - 1) * TimerSpan = Ahead(p) * TimerSpan - TimerSpan
    <3>1. Ahead(p) \in Int /\ 0 \in Int
      BY <2>2
    <3> QED
      BY <3>1, Times
  <2>5. Ahead(p) * TimerSpan \in Int
    BY <1>0, AheadIs
  <2> QED
    BY <1>1, <1>2, <2>2, <2>3, <2>4, <2>5, Constants DEF SlotTime
<1>9. BeyondTurnIsNew'
  BY <1>0, <1>1, <1>6, <1>7, <1>8 DEF BeyondTurnIsNew
<1>10. ResentIsAhead'
  BY <1>0, <1>1, <1>7, <1>8 DEF ResentIsAhead
<1>11. SlotIsDeadline' /\ PutOffByATurn'
  BY <1>0, <1>1, <1>7, <1>8 DEF SlotIsDeadline, PutOffByATurn, RingLength
<1>12. SentTwiceAtMost'
  BY <1>0, <1>1, <1>6 DEF SentTwiceAtMost, RingLength
<1> QED
  BY <1>4, <1>5, <1>9, <1>10, <1>11, <1>12 DEF WheelInv

(***************************************************************************)
(* The end of a check.  Either the wheel has caught up and stays where it  *)
(* is, or a full turn is over and every packet of the ring was put there   *)
(* by this check, from behind by more than a turn.                         *)
(***************************************************************************)
LEMMA EndCheckKeeps ==
    ASSUME WheelInv, EndCheck
    PROVE  WheelInv'
<1>0. /\ TypeOK /\ CheckInTime /\ ResentIsAhead /\ BeyondTurnIsNew
      /\ SlotIsDeadline /\ PutOffByATurn /\ SentTwiceAtMost
  BY DEF WheelInv
<1>1. /\ checking /\ ~(now >= currentTime + TimerSpan /\ count < SlotsNum)
      /\ currentTime' = now - (now % TimerSpan)
      /\ checking' = FALSE /\ now' = 0 /\ count' = 0 /\ lastCheck' = now
      /\ resent' = [p \in Pkts |-> 0]
      /\ UNCHANGED <<clock, idx, slot, due, behind>>
  BY DEF EndCheck, Turning
<1>2. /\ now \in Nat /\ currentTime \in Nat /\ count \in Nat /\ clock \in Nat
      /\ now <= clock /\ currentTime <= now /\ count <= SlotsNum
  BY <1>0, <1>1, CheckBeganIs DEF TypeOK, CheckInTime
<1> DEFINE k == now \div TimerSpan
           r == now % TimerSpan
<1>3. k \in Nat /\ r \in 0 .. (TimerSpan - 1) /\ now = TimerSpan * k + r
  BY <1>2, Constants, DivMod
<1>4. currentTime' = now - r
  BY <1>1
<1> HIDE DEF k, r
<1>5. currentTime' = TimerSpan * k + 0 /\ currentTime' \in 0 .. now /\ currentTime' \in Nat
  <2>1. TimerSpan * k \in Nat
    BY <1>3, Constants, Z3
  <2> QED
    BY <1>2, <1>3, <1>4, <2>1, Constants
<1>6. currentTime' % TimerSpan = 0
  BY <1>3, <1>5, Constants, ModUnique
<1>7. TypeOK'
  <2>1. currentTime' \in 0 .. clock' /\ lastCheck' \in 0 .. clock' /\ now' \in 0 .. clock'
    BY <1>1, <1>2, <1>5
  <2>2. resent' \in [Pkts -> 0 .. 3] /\ count' \in Nat
    BY <1>1
  <2>3. checking' \in BOOLEAN
    BY <1>1, Zenon
  <2> QED
    BY <1>0, <1>1, <1>6, <2>1, <2>2, <2>3 DEF TypeOK
<1>8. CheckInTime' /\ BeyondTurnIsNew' /\ ResentIsAhead' /\ SentTwiceAtMost'
  BY <1>1, Constants DEF CheckInTime, BeyondTurnIsNew, ResentIsAhead, SentTwiceAtMost
<1>9. /\ InRing' = InRing /\ InRing \subseteq Pkts
      /\ \A p \in Pkts : /\ Ahead(p)' = Ahead(p)
                         /\ SlotTime(p)' = currentTime' + Ahead(p) * TimerSpan
  BY <1>1 DEF InRing, Ahead, SlotTime
<1>10. CASE now < currentTime + TimerSpan
  <2>1. currentTime % TimerSpan = 0
    BY <1>0 DEF TypeOK
  <2>2. PICK j \in Nat : currentTime = TimerSpan * j
    <3>1. currentTime \div TimerSpan \in Nat
          /\ currentTime = TimerSpan * (currentTime \div TimerSpan) + (currentTime % TimerSpan)
      BY <1>2, Constants, DivMod
    <3>2. TimerSpan * (currentTime \div TimerSpan) \in Int
      BY <3>1, Constants, Z3
    <3>3. currentTime = TimerSpan * (currentTime \div TimerSpan)
      BY <2>1, <3>1, <3>2, <1>2
    <3> QED
      BY <3>1, <3>3
  <2>3. now = TimerSpan * j + (now - currentTime) /\ now - currentTime \in 0 .. (TimerSpan - 1)
    BY <1>2, <1>10, <2>2, Constants
  <2>4. now % TimerSpan = now - currentTime
    <3> DEFINE e == now - currentTime
    <3>1. e \in 0 .. (TimerSpan - 1) /\ now = TimerSpan * j + e /\ j \in Int
      BY <2>3
    <3> HIDE DEF e
    <3>2. now % TimerSpan = e
      BY <1>2, <3>1, Constants, ModUnique
    <3> QED
      BY <3>2 DEF e
  <2>5. currentTime' = currentTime
    BY <1>1, <1>2, <2>4
  <2>6. \A p \in Pkts : SlotTime(p)' = SlotTime(p)
    BY <1>9, <2>5 DEF SlotTime
  <2>7. SlotIsDeadline' /\ PutOffByATurn'
    BY <1>0, <1>1, <1>9, <2>6 DEF SlotIsDeadline, PutOffByATurn, RingLength
  <2> QED
    BY <1>7, <1>8, <2>7 DEF WheelInv
<1>11. CASE now >= currentTime + TimerSpan
  <2>1. count = SlotsNum
    BY <1>1, <1>2, <1>11, Constants
  <2>2. CheckBegan = currentTime - RingLength
    BY <1>0, <2>1, CheckBeganIs
  <2>3. ASSUME NEW p \in InRing
        PROVE  /\ due[p] \in Nat /\ due[p] > now /\ behind[p] >= RingLength
               /\ behind[p] \in Nat
               /\ Ahead(p) * TimerSpan \in Int
               /\ Ahead(p) * TimerSpan <= RingLength - TimerSpan
    <3>1. /\ due[p] \in Nat /\ behind[p] \in Nat /\ Ahead(p) \in 0 .. (SlotsNum - 1)
          /\ Ahead(p) * TimerSpan \in Int
          /\ Ahead(p) * TimerSpan <= RingLength - TimerSpan
      BY <1>0, AheadIs DEF TypeOK
    <3>2. ~(count + Ahead(p) < SlotsNum)
      BY <2>1, <3>1, Constants
    <3>3. due[p] > now /\ behind[p] = due[p] - CheckBegan
      BY <1>0, <1>1, <3>2 DEF BeyondTurnIsNew
    <3> QED
      BY <1>2, <2>2, <3>1, <3>3, Constants
  <2>4. SlotIsDeadline'
    <3> SUFFICES ASSUME NEW p \in InRing PROVE ~(behind[p] < RingLength)
      BY <1>1, <1>9 DEF SlotIsDeadline, RingLength
    <3> QED
      BY <2>3, Constants
  <2>5. PutOffByATurn'
    <3> SUFFICES ASSUME NEW p \in InRing
                 PROVE  currentTime' + Ahead(p) * TimerSpan < due[p] + RingLength
      BY <1>1, <1>9 DEF PutOffByATurn, RingLength
    <3> QED
      BY <1>2, <1>5, <2>3, Constants
  <2> QED
    BY <1>7, <1>8, <2>4, <2>5 DEF WheelInv
<1> QED
  BY <1>2, <1>10, <1>11, Constants

(* The other steps leave the wheel and the packets, or take one out.       *)
LEMMA OthersKeep ==
    ASSUME WheelInv, Tick \/ CheckExpiration \/ (\E p \in Pkts : Remove(p)) \/ UNCHANGED vars
    PROVE  WheelInv'
<1>0. /\ TypeOK /\ CheckInTime /\ ResentIsAhead /\ BeyondTurnIsNew
      /\ SlotIsDeadline /\ PutOffByATurn /\ SentTwiceAtMost
  BY DEF WheelInv
<1>1. /\ now \in Nat /\ currentTime \in Nat /\ count \in Nat /\ clock \in Nat
      /\ clock <= MaxTime /\ currentTime <= clock
  BY <1>0, CheckBeganIs, WheelAssumption DEF TypeOK
<1>2. ASSUME UNCHANGED <<wheel, slot, check, due, behind, resent>>, TypeOK'
      PROVE  WheelInv'
  <2>1. /\ UNCHANGED <<currentTime, idx, slot, checking, now, count, due, behind, resent>>
        /\ InRing' = InRing /\ CheckBegan' = CheckBegan
        /\ \A p : Ahead(p)' = Ahead(p) /\ SlotTime(p)' = SlotTime(p)
    BY <1>2 DEF wheel, check, InRing, CheckBegan, Ahead, SlotTime
  <2>2. CheckInTime' /\ BeyondTurnIsNew'
    BY <1>0, <2>1 DEF CheckInTime, BeyondTurnIsNew
  <2>3. ResentIsAhead' /\ SlotIsDeadline'
    BY <1>0, <2>1 DEF ResentIsAhead, SlotIsDeadline, RingLength
  <2>4. PutOffByATurn' /\ SentTwiceAtMost'
    BY <1>0, <2>1 DEF PutOffByATurn, SentTwiceAtMost, RingLength
  <2> QED
    BY <1>2, <2>2, <2>3, <2>4 DEF WheelInv
<1>3. CASE Tick
  <2>1. UNCHANGED <<wheel, slot, check, due, behind, resent>>
    BY <1>3 DEF Tick
  <2>2. TypeOK'
    BY <1>0, <1>1, <1>3, WheelAssumption DEF Tick, TypeOK, wheel, check
  <2> QED
    BY <1>2, <2>1, <2>2
<1>4. CASE UNCHANGED vars
  <2>1. TypeOK'
    BY <1>0, <1>4 DEF TypeOK, vars, wheel, check
  <2> QED
    BY <1>2, <1>4, <2>1 DEF vars
<1>5. CASE CheckExpiration
  <2>1. /\ ~checking /\ checking' = TRUE /\ now' = clock /\ count' = 0
        /\ UNCHANGED <<clock, currentTime, idx, slot, lastCheck, due, behind, resent>>
    BY <1>5 DEF CheckExpiration, wheel
  <2>2. TypeOK'
    BY <1>0, <1>1, <2>1 DEF TypeOK
  <2>3. /\ InRing' = InRing /\ InRing \subseteq Pkts
        /\ \A p : Ahead(p)' = Ahead(p) /\ SlotTime(p)' = SlotTime(p)
    BY <2>1 DEF InRing, Ahead, SlotTime
  <2>4. \A p \in Pkts : resent[p] = 0
    BY <1>0, <2>1 DEF ResentIsAhead, TypeOK
  <2>5. CheckInTime'
    BY <1>1, <2>1, Constants DEF CheckInTime
  <2>6. BeyondTurnIsNew'
    <3> SUFFICES ASSUME NEW p \in InRing PROVE 0 + Ahead(p) < SlotsNum
      BY <2>1, <2>3 DEF BeyondTurnIsNew
    <3>1. Ahead(p) \in 0 .. (SlotsNum - 1)
      BY <1>0, AheadIs
    <3> QED
      BY <3>1, Constants
  <2>7. ResentIsAhead' /\ SentTwiceAtMost'
    BY <2>1, <2>4 DEF ResentIsAhead, SentTwiceAtMost
  <2>8. SlotIsDeadline' /\ PutOffByATurn'
    BY <1>0, <2>1, <2>3 DEF SlotIsDeadline, PutOffByATurn, RingLength
  <2> QED
    BY <2>2, <2>5, <2>6, <2>7, <2>8 DEF WheelInv
<1>6. ASSUME NEW p \in Pkts, Remove(p) PROVE WheelInv'
  <2>1. /\ ~checking
        /\ slot' = [slot EXCEPT ![p] = NoSlot]
        /\ due' = [due EXCEPT ![p] = 0] /\ behind' = [behind EXCEPT ![p] = 0]
        /\ UNCHANGED <<clock, currentTime, idx, lastCheck, checking, now, count, resent>>
    BY <1>6 DEF Remove, wheel, check
  <2>2. TypeOK'
    BY <1>0, <2>1 DEF TypeOK
  <2>3. /\ InRing' = InRing \ {p}
        /\ \A q \in InRing' : /\ q \in InRing /\ SlotTime(q)' = SlotTime(q)
                              /\ due'[q] = due[q] /\ behind'[q] = behind[q]
    <3>1. \A q \in Pkts \ {p} : /\ slot'[q] = slot[q]
                                /\ due'[q] = due[q] /\ behind'[q] = behind[q]
      BY <1>0, <2>1 DEF TypeOK
    <3>2. slot'[p] = NoSlot
      BY <1>0, <2>1 DEF TypeOK
    <3>3. InRing' = InRing \ {p} /\ InRing \subseteq Pkts
      BY <3>1, <3>2 DEF InRing
    <3> QED
      BY <2>1, <3>1, <3>3 DEF SlotTime, Ahead
  <2>4. \A q \in Pkts : resent[q] = 0
    BY <1>0, <2>1 DEF ResentIsAhead, TypeOK
  <2>5. CheckInTime' /\ BeyondTurnIsNew' /\ ResentIsAhead' /\ SentTwiceAtMost'
    BY <1>0, <2>1, <2>4
       DEF CheckInTime, BeyondTurnIsNew, ResentIsAhead, SentTwiceAtMost
  <2>6. SlotIsDeadline' /\ PutOffByATurn'
    BY <1>0, <2>3 DEF SlotIsDeadline, PutOffByATurn, RingLength
  <2> QED
    BY <2>2, <2>5, <2>6 DEF WheelInv
<1> QED
  BY <1>3, <1>4, <1>5, <1>6

(* The wheel is empty and at its clock when it starts.                     *)
LEMMA InitWheel == Init => WheelInv
<1> SUFFICES ASSUME Init PROVE WheelInv
  OBVIOUS
<1> DEFINE k == clock \div TimerSpan
           r == clock % TimerSpan
<1>1. clock \in 0 .. MaxTime /\ clock \in Nat
  BY WheelAssumption DEF Init
<1>2. k \in Nat /\ r \in 0 .. (TimerSpan - 1) /\ clock = TimerSpan * k + r
  BY <1>1, Constants, DivMod
<1>3. currentTime = clock - r
  BY DEF Init
<1> HIDE DEF k, r
<1>4. currentTime = TimerSpan * k + 0 /\ currentTime \in 0 .. clock /\ currentTime \in Nat
  <2>1. TimerSpan * k \in Nat
    BY <1>2, Constants, Z3
  <2> QED
    BY <1>1, <1>2, <1>3, <2>1, Constants
<1>5. currentTime % TimerSpan = 0
  BY <1>2, <1>4, Constants, ModUnique
<1>6. TypeOK
  <2>1. /\ slot \in [Pkts -> {NoSlot} \cup 0 .. (SlotsNum - 1)]
        /\ due \in [Pkts -> Nat] /\ behind \in [Pkts -> Nat] /\ resent \in [Pkts -> 0 .. 3]
    BY DEF Init
  <2>2. /\ idx \in 0 .. (SlotsNum - 1) /\ lastCheck \in 0 .. clock /\ now \in 0 .. clock
        /\ count \in Nat
    BY <1>1, Constants DEF Init
  <2>3. checking \in BOOLEAN
    BY Zenon DEF Init
  <2> QED
    BY <1>1, <1>4, <1>5, <2>1, <2>2, <2>3 DEF TypeOK
<1>7. InRing = {}
  BY DEF Init, InRing
<1>8. CheckInTime /\ BeyondTurnIsNew /\ ResentIsAhead /\ SentTwiceAtMost
  BY Constants DEF Init, CheckInTime, BeyondTurnIsNew, ResentIsAhead, SentTwiceAtMost
<1>9. SlotIsDeadline /\ PutOffByATurn
  BY <1>7 DEF SlotIsDeadline, PutOffByATurn
<1> QED
  BY <1>6, <1>8, <1>9 DEF WheelInv

(* Every behaviour keeps the inductive invariant.                          *)
LEMMA WheelInvariant == Spec => []WheelInv
<1>1. WheelInv /\ [Next]_vars => WheelInv'
  <2> SUFFICES ASSUME WheelInv, [Next]_vars PROVE WheelInv'
    OBVIOUS
  <2>1. ASSUME NEW p \in Pkts, Send(p) \/ Retransmit(p) PROVE WheelInv'
    BY <2>1, PutKeeps DEF Send, Retransmit
  <2> QED
    BY <2>1, ExpireKeeps, NextSlotKeeps, EndCheckKeeps, OthersKeep DEF Next
<1> QED
  BY <1>1, InitWheel, PTL DEF Spec

(***************************************************************************)
(* The fields of the ring and the slots of the packets keep their types,   *)
(* and currentTime stays on a slot boundary.                               *)
(***************************************************************************)
THEOREM WheelTypes == Spec => []TypeOK
<1>1. WheelInv => TypeOK
  BY DEF WheelInv
<1> QED
  BY <1>1, WheelInvariant, PTL

(***************************************************************************)
(* A packet put in less than a turn behind its deadline comes up within    *)
(* one timer span of the deadline: the jump at the end of checkExpiration  *)
(* never moves it.                                                         *)
(***************************************************************************)
THEOREM PacketsComeUpInTime == Spec => []SlotIsDeadline
<1>1. WheelInv => SlotIsDeadline
  BY DEF WheelInv
<1> QED
  BY <1>1, WheelInvariant, PTL

(***************************************************************************)
(* No stall of the sender puts a packet off by more than a turn beyond its *)
(* deadline.                                                               *)
(***************************************************************************)
THEOREM StallPutsOffByATurn == Spec => []PutOffByATurn
<1>1. WheelInv => PutOffByATurn
  BY DEF WheelInv
<1> QED
  BY <1>1, WheelInvariant, PTL

(***************************************************************************)
(* One call of checkExpiration sends no packet three times, and twice only *)
(* when it found the wheel a full turn behind.                             *)
(***************************************************************************)
THEOREM CheckSendsTwiceAtMost == Spec => []SentTwiceAtMost
<1>1. WheelInv => SentTwiceAtMost
  BY DEF WheelInv
<1> QED
  BY <1>1, WheelInvariant, PTL
=============================================================================
