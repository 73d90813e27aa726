------------------------------ MODULE RingArith ------------------------------
(***************************************************************************)
(* Arithmetic of positions in a ring of Q slots: the facts about % that    *)
(* the receive ring of the interconnect (pkt_q in ic_udp.c) relies on.     *)
(***************************************************************************)
EXTENDS Integers, TLAPS

(* Division with remainder. *)
LEMMA DivMod ==
    ASSUME NEW Q \in Nat \ {0}, NEW a \in Nat
    PROVE  /\ (a \div Q) \in Nat
           /\ (a % Q) \in 0 .. (Q - 1)
           /\ a = Q * (a \div Q) + (a % Q)
  BY Z3

(* A positive multiple of Q is at least Q. *)
LEMMA MulPos ==
    ASSUME NEW Q \in Nat \ {0}, NEW k \in Int, k >= 1
    PROVE  Q * k >= Q
  BY Z3

(* A negative multiple of Q is at most -Q. *)
LEMMA MulNeg ==
    ASSUME NEW Q \in Nat \ {0}, NEW k \in Int, k <= -1
    PROVE  Q * k <= -Q
  BY Z3

(* The remainder is the only one. *)
LEMMA ModUnique ==
    ASSUME NEW Q \in Nat \ {0}, NEW a \in Nat, NEW k \in Int,
           NEW r \in 0 .. (Q - 1), a = Q * k + r
    PROVE  a % Q = r
  <1> DEFINE d == a \div Q
             m == a % Q
  <1>1. d \in Nat /\ m \in 0 .. (Q - 1) /\ a = Q * d + m
    BY DivMod
  <1> HIDE DEF d, m
  <1>2. Q * (d - k) = r - m
    BY <1>1, Z3
  <1>3. d - k < 1
    BY <1>1, <1>2, MulPos, Z3
  <1>4. d - k > -1
    BY <1>1, <1>2, MulNeg, Z3
  <1>5. d = k
    BY <1>1, <1>3, <1>4, Z3
  <1>6. m = r
    BY <1>1, <1>5, Z3
  <1> QED
    BY <1>6 DEF m

(* A remainder is a slot. *)
LEMMA ModRange ==
    ASSUME NEW Q \in Nat \ {0}, NEW a \in Nat
    PROVE  (a % Q) \in 0 .. (Q - 1)
  BY DivMod

(* A slot is its own remainder. *)
LEMMA ModSmall ==
    ASSUME NEW Q \in Nat \ {0}, NEW a \in 0 .. (Q - 1)
    PROVE  a % Q = a
  <1>1. a = Q * 0 + a
    BY Z3
  <1> QED
    BY <1>1, ModUnique, Z3

(* Going once round the ring leads to the same slot. *)
LEMMA ModAddQ ==
    ASSUME NEW Q \in Nat \ {0}, NEW a \in Nat
    PROVE  (a + Q) % Q = a % Q
  <1>1. a + Q = Q * ((a \div Q) + 1) + (a % Q)
    BY DivMod, Z3
  <1>2. (a \div Q) + 1 \in Int /\ (a % Q) \in 0 .. (Q - 1) /\ a + Q \in Nat
    BY DivMod, Z3
  <1> QED
    BY <1>1, <1>2, ModUnique

(* Advancing a slot number by b is advancing what it is the slot of by b. *)
LEMMA ModPlus ==
    ASSUME NEW Q \in Nat \ {0}, NEW a \in Nat, NEW b \in Nat
    PROVE  ((a % Q) + b) % Q = (a + b) % Q
  <1> DEFINE m == a % Q
             d == a \div Q
             e == (m + b) \div Q
             r == (m + b) % Q
  <1>1. d \in Nat /\ m \in 0 .. (Q - 1) /\ a = Q * d + m
    BY DivMod
  <1>2. m + b \in Nat
    BY <1>1, Z3
  <1>3. e \in Nat /\ r \in 0 .. (Q - 1) /\ m + b = Q * e + r
    BY <1>2, DivMod
  <1> HIDE DEF m, d, e, r
  <1>4. a + b = Q * (d + e) + r
    BY <1>1, <1>3, Z3
  <1>5. a + b \in Nat /\ d + e \in Int
    BY <1>1, <1>3, Z3
  <1>6. (a + b) % Q = r
    BY <1>3, <1>4, <1>5, ModUnique
  <1> QED
    BY <1>6 DEF r, m

(* Fewer than Q consecutive numbers have different slots. *)
LEMMA ModDistinct ==
    ASSUME NEW Q \in Nat \ {0}, NEW a \in Nat, NEW b \in Nat,
           a < b, b < a + Q
    PROVE  (a % Q) # (b % Q)
  <1> DEFINE m == a % Q
             n == b % Q
             d == a \div Q
             e == b \div Q
  <1>1. d \in Nat /\ m \in 0 .. (Q - 1) /\ a = Q * d + m
    BY DivMod
  <1>2. e \in Nat /\ n \in 0 .. (Q - 1) /\ b = Q * e + n
    BY DivMod
  <1> HIDE DEF m, n, d, e
  <1> SUFFICES ASSUME m = n PROVE FALSE
    BY DEF m, n
  <1>3. Q * (e - d) = b - a
    BY <1>1, <1>2, Z3
  <1>4. e - d < 1
    BY <1>1, <1>2, <1>3, MulPos, Z3
  <1>5. e - d > -1
    BY <1>1, <1>2, <1>3, MulNeg, Z3
  <1>6. e = d
    BY <1>1, <1>2, <1>4, <1>5, Z3
  <1> QED
    BY <1>1, <1>2, <1>6, Z3

(* The distance from place s, which may be one past the last, on to slot r. *)
LEMMA RingDistance ==
    ASSUME NEW Q \in Nat \ {0}, NEW r \in 0 .. (Q - 1), NEW s \in 0 .. Q
    PROVE  (r - s + Q) % Q = IF r >= s THEN r - s ELSE r - s + Q
  <1>1. CASE r >= s
    <2>1. r - s \in 0 .. (Q - 1) /\ r - s \in Nat
      BY <1>1, Z3
    <2> QED
      BY <1>1, <2>1, ModSmall, ModAddQ
  <1>2. CASE r < s
    <2>1. r - s + Q \in 0 .. (Q - 1)
      BY <1>2, Z3
    <2>2. ~(r >= s)
      BY <1>2, Z3
    <2> QED
      BY <2>1, <2>2, ModSmall
  <1>3. r >= s \/ r < s
    BY Z3
  <1> QED
    BY <1>1, <1>2, <1>3
=============================================================================
