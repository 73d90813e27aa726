-------------------------- MODULE AoSegFilesProofs --------------------------
(***************************************************************************)
(* Proofs about the table of append-only writers: no file has two writers, *)
(* an entry counts its users and truncated relations are forgotten at the  *)
(* right nest level, and no file is given to a transaction whose snapshot  *)
(* hides its last writer, for any number of transactions, savepoints,      *)
(* relations, statuses and segments.                                       *)
(*                                                                         *)
(* The parts of the invariant that are about the table take it as a        *)
(* parameter (m), so that they can be stated of the tables between two     *)
(* steps of one action.                                                    *)
(***************************************************************************)
EXTENDS AoSegFiles, FiniteSetTheorems, TLAPS

-----------------------------------------------------------------------------
(* The inductive invariant *)

(* What the table holds, whoever uses it: an entry owns the statuses of its
   list, whose numbers differ and are at most max_seg_no, and a status that
   names a transaction is in use. *)
Pool(m) ==
    /\ m \in Shared
    /\ \A r \in Rels \ m.hash : m.list[r] = << >> /\ m.txns[r] = 0
    /\ \A r \in Rels : ToSet(m.list[r]) \cap m.free = {}
    /\ \A r, u \in Rels : r # u => ToSet(m.list[r]) \cap ToSet(m.list[u]) = {}
    /\ \A i \in Ids : m.status[i].xid # 0 => m.status[i].inuse
    /\ \A r \in Rels : \A i \in ToSet(m.list[r]) : m.status[i].segno \in 1 .. m.maxSegno[r]
    /\ \A r \in Rels : \A i, j \in ToSet(m.list[r]) :
         m.status[i].segno = m.status[j].segno => i = j

(* The levels v of a transaction: what it wrote and truncated is locked, and
   a level has the locks of the ones below it. *)
LevelsOK(v) ==
    /\ v # << >> /\ Len(v) <= MaxLevel
    /\ \A k \in 1 .. Len(v) :
         /\ \A f \in v[k].rows : f[1] \in v[k].rowLock \cup v[k].exclLock
         /\ v[k].trunc \subseteq v[k].exclLock
    /\ \A j, k \in 1 .. Len(v) : j <= k => /\ v[j].rowLock \subseteq v[k].rowLock
                                          /\ v[j].exclLock \subseteq v[k].exclLock

(* The pending removals p of a transaction with levels v. *)
PendingOK(p, v) ==
    /\ \A r \in Rels : p[r] <= Len(v)
    /\ \A k \in 1 .. Len(v) : {r \in Rels : p[r] \in 1 .. k} = v[k].trunc

(* The statement o that a transaction with levels v is in the middle of. *)
OpOK(o, v) ==
    /\ o.kind = "write" => o.rel \in Last(v).rowLock
    /\ o.kind = "stale" => o.rel \in Last(v).trunc

Apart(v, w) == Last(v).exclLock \cap (Last(w).exclLock \cup Last(w).rowLock) = {}

TxnInv ==
    /\ \A t \in Xids : t >= nextXid => phase[t] = "none"
    /\ \A t \in Xids : phase[t] = "none" => op[t] = Idle /\ \A r \in Rels : pending[t][r] = 0
    /\ \A t \in Xids : InProcArray(t) =>
         LevelsOK(view[t]) /\ PendingOK(pending[t], view[t]) /\ OpOK(op[t], view[t])
    /\ \A t, u \in Xids : t # u /\ InProcArray(t) /\ InProcArray(u) => Apart(view[t], view[u])

(* A relation r that transaction t truncated has its entry marked stale,
   unless t could not mark it or has still to do so. *)
MarkedStale(m, t, r) ==
    \/ r \in m.hash /\ m.stale[r] = t
    \/ /\ pending[t][r] = NestLevel(t)
       /\ \/ op[t].kind = "error"
          \/ op[t].kind = "stale" /\ op[t].rel = r

StaleInv(m) ==
    \A t \in Xids : phase[t] = "active" => \A r \in Top(t).trunc : MarkedStale(m, t, r)

(* At some level, file s of the relation r as it was before the transaction. *)
RowIn(v, r, s) == \E k \in 1 .. Len(v) : <<r, s>> \in v[k].rows /\ r \notin v[k].trunc

(* The transaction may still commit what it wrote. *)
Writing(t) == phase[t] \in {"active", "commit"}

HasRow(t, r, s) == Writing(t) /\ RowIn(view[t], r, s)

(* The entry keeps the file of transaction t from others. *)
HeldIn(m, t, r, s) ==
    \E i \in ToSet(m.list[r]) : /\ m.status[i].segno = s
                                /\ \/ m.status[i].xid = t
                                   \/ m.status[i].xid = 0 /\ m.status[i].inuse

RowsHeld(m) ==
    \A t \in Xids, r \in Rels \ astray, s \in Segnos : HasRow(t, r, s) => HeldIn(m, t, r, s)

OneHolder ==
    \A t, u \in Xids, r \in Rels \ astray, s \in Segnos :
       HasRow(t, r, s) /\ HasRow(u, r, s) => t = u

(* The transactions that an entry has to count. *)
Holders(m, r) == Users(m, r) \cup {t \in Xids : \E s \in Segnos : HasRow(t, r, s)}

Counted(m) == \A r \in m.hash \ astray : Cardinality(Holders(m, r)) <= m.txns[r]

AoInv ==
    /\ TypeOK /\ Pool(shm) /\ TxnInv /\ StaleInv(shm)
    /\ RowsHeld(shm) /\ OneHolder /\ Counted(shm)

-----------------------------------------------------------------------------
(* Sequences *)

LEMMA ToSetFacts ==
    ASSUME NEW S, NEW s \in Seq(S)
    PROVE  /\ ToSet(s) \subseteq S
           /\ \A x : x \in ToSet(s) <=> \E j \in 1 .. Len(s) : s[j] = x
    BY DEF ToSet

(* The position of an element is one where it stands. *)
LEMMA PositionFacts ==
    ASSUME NEW S, NEW s \in Seq(S), NEW x \in ToSet(s)
    PROVE  Position(s, x) \in 1 .. Len(s) /\ s[Position(s, x)] = x
    BY ToSetFacts DEF Position

LEMMA ReverseFacts ==
    ASSUME NEW S, NEW s \in Seq(S)
    PROVE  Reverse(s) \in Seq(S) /\ ToSet(Reverse(s)) = ToSet(s) /\ Len(Reverse(s)) = Len(s)
<1>1. Reverse(s) \in [1 .. Len(s) -> S]
  BY DEF Reverse
<1>2. Reverse(s) \in Seq(S) /\ Len(Reverse(s)) = Len(s)
  BY <1>1
<1>3. \A x \in ToSet(s) : x \in ToSet(Reverse(s))
  <2> TAKE x \in ToSet(s)
  <2>1. PICK j \in 1 .. Len(s) : s[j] = x
    BY DEF ToSet
  <2>2. Reverse(s)[Len(s) - j + 1] = x /\ Len(s) - j + 1 \in 1 .. Len(s)
    BY <2>1 DEF Reverse
  <2> QED
    BY <2>2, <1>2 DEF ToSet
<1>4. \A x \in ToSet(Reverse(s)) : x \in ToSet(s)
  BY <1>2 DEF ToSet, Reverse
<1> QED
  BY <1>2, <1>3, <1>4

LEMMA ConcatFacts ==
    ASSUME NEW S, NEW s \in Seq(S), NEW u \in Seq(S)
    PROVE  s \o u \in Seq(S) /\ ToSet(s \o u) = ToSet(s) \cup ToSet(u)
<1>1. s \o u \in Seq(S) /\ Len(s \o u) = Len(s) + Len(u)
  OBVIOUS
<1>2. \A x \in ToSet(s) : x \in ToSet(s \o u)
  BY <1>1 DEF ToSet
<1>3. \A x \in ToSet(u) : x \in ToSet(s \o u)
  <2> TAKE x \in ToSet(u)
  <2>1. PICK j \in 1 .. Len(u) : u[j] = x
    BY DEF ToSet
  <2>2. (s \o u)[Len(s) + j] = x /\ Len(s) + j \in 1 .. Len(s \o u)
    BY <1>1, <2>1
  <2> QED
    BY <2>2, <1>1 DEF ToSet
<1>4. \A x \in ToSet(s \o u) : x \in ToSet(s) \cup ToSet(u)
  BY <1>1 DEF ToSet
<1> QED
  BY <1>1, <1>2, <1>3, <1>4

LEMMA EmptyFacts == ToSet(<< >>) = {} /\ \A S : << >> \in Seq(S)
    BY DEF ToSet

-----------------------------------------------------------------------------
(* What the operations on the table do *)

LEMMA SharedUpdate ==
    ASSUME NEW m \in Shared, NEW h \in SUBSET Rels, NEW x \in [Rels -> Int],
           NEW y \in [Rels -> 0 .. MaxXid], NEW z \in [Rels -> 0 .. MaxSegno],
           NEW l \in [Rels -> Seq(Ids)], NEW f \in SUBSET Ids, NEW n \in Int
    PROVE  [m EXCEPT !.hash = h, !.txns = x, !.stale = y, !.maxSegno = z, !.list = l,
                     !.free = f, !.numAorels = n] \in Shared
    BY DEF Shared

LEMMA RemoveFacts ==
    ASSUME NEW m \in Shared, NEW V \in SUBSET Rels
    PROVE  LET e == AORelRemoveHashEntry(m, V)
           IN  /\ e \in Shared
               /\ e.hash = m.hash \ V /\ e.status = m.status
               /\ e.free = m.free \cup UNION {ToSet(m.list[r]) : r \in V}
               /\ \A r \in V : e.txns[r] = 0 /\ e.stale[r] = 0 /\ e.maxSegno[r] = 0 /\ e.list[r] = << >>
               /\ \A r \in Rels \ V : /\ e.txns[r] = m.txns[r] /\ e.stale[r] = m.stale[r]
                                      /\ e.maxSegno[r] = m.maxSegno[r] /\ e.list[r] = m.list[r]
<1> DEFINE e == AORelRemoveHashEntry(m, V)
<1>1. Cardinality(V) \in Nat
  BY FS_Subset, FS_CardinalityType, ConstAssumption
<1>2. UNION {ToSet(m.list[r]) : r \in V} \in SUBSET Ids
  BY ToSetFacts DEF Shared
<1>3. /\ Blanked(m.txns, V, 0) \in [Rels -> Int]
      /\ Blanked(m.stale, V, 0) \in [Rels -> 0 .. MaxXid]
      /\ Blanked(m.maxSegno, V, 0) \in [Rels -> 0 .. MaxSegno]
  BY ConstAssumption DEF Shared, Blanked
<1>4. Blanked(m.list, V, << >>) \in [Rels -> Seq(Ids)]
  BY EmptyFacts DEF Shared, Blanked
<1>5. e \in Shared
  <2>1. m.hash \ V \in SUBSET Rels
    BY DEF Shared
  <2>2. m.free \cup UNION {ToSet(m.list[r]) : r \in V} \in SUBSET Ids
    BY <1>2 DEF Shared
  <2>3. m.numAorels - Cardinality(V) \in Int
    BY <1>1 DEF Shared
  <2> QED
    BY <2>1, <2>2, <2>3, <1>3, <1>4, SharedUpdate DEF AORelRemoveHashEntry
<1>6. /\ e.hash = m.hash \ V /\ e.status = m.status
      /\ e.free = m.free \cup UNION {ToSet(m.list[r]) : r \in V}
      /\ e.txns = Blanked(m.txns, V, 0) /\ e.stale = Blanked(m.stale, V, 0)
      /\ e.maxSegno = Blanked(m.maxSegno, V, 0) /\ e.list = Blanked(m.list, V, << >>)
  BY DEF Shared, AORelRemoveHashEntry
<1> QED
  BY <1>5, <1>6 DEF Blanked

LEMMA PoolRemove ==
    ASSUME NEW m, Pool(m), NEW V \in SUBSET Rels
    PROVE  Pool(AORelRemoveHashEntry(m, V))
<1> DEFINE e == AORelRemoveHashEntry(m, V)
<1>1. m \in Shared
  BY DEF Pool
<1>2. /\ e \in Shared
      /\ e.hash = m.hash \ V /\ e.status = m.status
      /\ e.free = m.free \cup UNION {ToSet(m.list[r]) : r \in V}
      /\ \A r \in V : e.txns[r] = 0 /\ e.stale[r] = 0 /\ e.maxSegno[r] = 0 /\ e.list[r] = << >>
      /\ \A r \in Rels \ V : /\ e.txns[r] = m.txns[r] /\ e.stale[r] = m.stale[r]
                             /\ e.maxSegno[r] = m.maxSegno[r] /\ e.list[r] = m.list[r]
  BY <1>1, RemoveFacts
<1> HIDE DEF e
<1>3. \A r \in V : ToSet(e.list[r]) = {}
  BY <1>2, EmptyFacts
<1>4. \A r \in Rels \ e.hash : e.list[r] = << >> /\ e.txns[r] = 0
  BY <1>2 DEF Pool
<1>5. \A r \in Rels : ToSet(e.list[r]) \cap e.free = {}
  <2> SUFFICES ASSUME NEW r \in Rels \ V, NEW i \in ToSet(m.list[r]), i \in e.free
               PROVE  FALSE
    BY <1>2, <1>3
  <2>1. i \notin m.free
    BY DEF Pool
  <2>2. PICK v \in V : i \in ToSet(m.list[v])
    BY <2>1, <1>2
  <2> QED
    BY <2>2 DEF Pool
<1>6. \A r, u \in Rels : r # u => ToSet(e.list[r]) \cap ToSet(e.list[u]) = {}
  BY <1>2, <1>3 DEF Pool
<1>7. \A i \in Ids : e.status[i].xid # 0 => e.status[i].inuse
  BY <1>2 DEF Pool
<1>8. \A r \in Rels : \A i \in ToSet(e.list[r]) : e.status[i].segno \in 1 .. e.maxSegno[r]
  BY <1>2, <1>3 DEF Pool
<1>9. \A r \in Rels : \A i, j \in ToSet(e.list[r]) :
         e.status[i].segno = e.status[j].segno => i = j
  <2> SUFFICES ASSUME NEW r \in Rels, NEW i \in ToSet(e.list[r]), NEW j \in ToSet(e.list[r]),
                      e.status[i].segno = e.status[j].segno
               PROVE  i = j
    OBVIOUS
  <2>1. r \in Rels \ V
    BY <1>3
  <2>2. i \in ToSet(m.list[r]) /\ j \in ToSet(m.list[r]) /\ m.status[i].segno = m.status[j].segno
    BY <2>1, <1>2
  <2> QED
    BY <2>2 DEF Pool
<1> QED
  BY <1>2, <1>4, <1>5, <1>6, <1>7, <1>8, <1>9 DEF Pool, e

(* Table e is table m without some entries that could be thrown out, the one
   of relation cur not among them. *)
Thinned(m, e, cur) ==
    /\ e.status = m.status
    /\ \E V \in SUBSET (Unused(m) \ {cur}) :
         /\ e.hash = m.hash \ V
         /\ \A r \in V : e.list[r] = << >> /\ e.txns[r] = 0
         /\ \A r \in Rels \ V : /\ e.txns[r] = m.txns[r] /\ e.stale[r] = m.stale[r]
                                /\ e.maxSegno[r] = m.maxSegno[r] /\ e.list[r] = m.list[r]

(* The statuses ids were taken from the pool of what is now table e. *)
Obtained(e, ids) ==
    /\ ids \in Seq(Ids)
    /\ \A i, j \in 1 .. Len(ids) : ids[i] = ids[j] => i = j
    /\ ToSet(ids) \cap e.free = {}
    /\ \A r \in Rels : ToSet(ids) \cap ToSet(e.list[r]) = {}

LEMMA ThinnedRemove ==
    ASSUME NEW m \in Shared, NEW cur, NEW V \in SUBSET (Unused(m) \ {cur})
    PROVE  Thinned(m, AORelRemoveHashEntry(m, V), cur)
<1>1. V \in SUBSET Rels
  BY DEF Unused, Shared
<1> QED
  BY <1>1, RemoveFacts DEF Thinned

(* Taking statuses from the pool. *)
LEMMA PoolTake ==
    ASSUME NEW m, Pool(m), NEW ids \in Seq(Ids), ToSet(ids) \subseteq m.free,
           \A i, j \in 1 .. Len(ids) : ids[i] = ids[j] => i = j,
           NEW e, e = [m EXCEPT !.free = @ \ ToSet(ids)]
    PROVE  /\ Pool(e) /\ Obtained(e, ids)
           /\ e.hash = m.hash /\ e.status = m.status /\ e.list = m.list
           /\ e.txns = m.txns /\ e.stale = m.stale /\ e.maxSegno = m.maxSegno
<1>1. /\ e.hash = m.hash /\ e.status = m.status /\ e.list = m.list
      /\ e.txns = m.txns /\ e.stale = m.stale /\ e.maxSegno = m.maxSegno
      /\ e.free = m.free \ ToSet(ids) /\ e \in Shared
  BY DEF Pool, Shared
<1>2. Pool(e)
  <2>1. \A r \in Rels : ToSet(e.list[r]) \cap e.free = {}
    BY <1>1 DEF Pool
  <2>2. /\ \A r \in Rels \ e.hash : e.list[r] = << >> /\ e.txns[r] = 0
        /\ \A r, u \in Rels : r # u => ToSet(e.list[r]) \cap ToSet(e.list[u]) = {}
        /\ \A i \in Ids : e.status[i].xid # 0 => e.status[i].inuse
        /\ \A r \in Rels : \A i \in ToSet(e.list[r]) : e.status[i].segno \in 1 .. e.maxSegno[r]
    BY <1>1 DEF Pool
  <2>3. \A r \in Rels : \A i, j \in ToSet(e.list[r]) :
           e.status[i].segno = e.status[j].segno => i = j
    <3>1. \A r \in Rels : \A i, j \in ToSet(m.list[r]) :
             m.status[i].segno = m.status[j].segno => i = j
      BY DEF Pool
    <3> SUFFICES ASSUME NEW r \in Rels, NEW i \in ToSet(e.list[r]), NEW j \in ToSet(e.list[r]),
                        e.status[i].segno = e.status[j].segno
                 PROVE  i = j
      OBVIOUS
    <3>2. i \in ToSet(m.list[r]) /\ j \in ToSet(m.list[r]) /\ m.status[i].segno = m.status[j].segno
      BY <1>1
    <3> QED
      BY <3>1, <3>2
  <2> QED
    BY <1>1, <2>1, <2>2, <2>3, Zenon DEF Pool
<1>3. Obtained(e, ids)
  BY <1>1 DEF Pool, Obtained
<1> QED
  BY <1>1, <1>2, <1>3

LEMMA GetFacts ==
    ASSUME NEW m, Pool(m), NEW cur, NEW k \in Nat, NEW o \in AORelGetSegfileStatus(m, cur, k)
    PROVE  Pool(o.m) /\ Thinned(m, o.m, cur) /\ Obtained(o.m, o.ids) /\ Len(o.ids) \in 0 .. k
<1> DEFINE W(V) == AORelRemoveHashEntry(m, V)
           K(V) == IF Cardinality(W(V).free) >= k THEN k ELSE Cardinality(W(V).free)
<1>0. PICK V \in SUBSET (Unused(m) \ {cur}) : \E ids \in Injection(1 .. K(V), W(V).free) :
         o = [m |-> [W(V) EXCEPT !.free = @ \ ToSet(ids)], ids |-> ids]
  BY DEF AORelGetSegfileStatus
<1>1. PICK ids \in Injection(1 .. K(V), W(V).free) :
         o = [m |-> [W(V) EXCEPT !.free = @ \ ToSet(ids)], ids |-> ids]
  BY <1>0
<1>2. V \in SUBSET Rels /\ m \in Shared
  BY DEF Pool, Unused, Shared
<1>3. Pool(W(V)) /\ Thinned(m, W(V), cur)
  BY <1>2, PoolRemove, ThinnedRemove
<1>4. W(V).free \subseteq Ids
  BY <1>3 DEF Pool, Shared
<1>5. K(V) \in 0 .. k
  BY <1>4, FS_Subset, FS_CardinalityType, ConstAssumption
<1> HIDE DEF W, K
<1>6. ids \in [1 .. K(V) -> W(V).free] /\ \A i, j \in 1 .. K(V) : ids[i] = ids[j] => i = j
  BY <1>5 DEF Injection, IsInjective
<1>7. ids \in Seq(Ids) /\ Len(ids) = K(V) /\ ToSet(ids) \subseteq W(V).free
  BY <1>4, <1>5, <1>6 DEF ToSet
<1>8. o.ids = ids /\ o.m = [W(V) EXCEPT !.free = @ \ ToSet(ids)]
  BY <1>1
<1>9. PICK b : b = W(V)
  OBVIOUS
<1>10. /\ Pool(o.m) /\ Obtained(o.m, ids)
       /\ o.m.hash = b.hash /\ o.m.status = b.status /\ o.m.list = b.list
       /\ o.m.txns = b.txns /\ o.m.stale = b.stale /\ o.m.maxSegno = b.maxSegno
  BY <1>3, <1>6, <1>7, <1>8, <1>9, PoolTake
<1>11. Thinned(m, o.m, cur)
  <2>1. Thinned(m, b, cur)
    BY <1>3, <1>9
  <2>2. PICK V2 \in SUBSET (Unused(m) \ {cur}) :
           /\ b.hash = m.hash \ V2
           /\ \A r \in V2 : b.list[r] = << >> /\ b.txns[r] = 0
           /\ \A r \in Rels \ V2 : /\ b.txns[r] = m.txns[r] /\ b.stale[r] = m.stale[r]
                                  /\ b.maxSegno[r] = m.maxSegno[r] /\ b.list[r] = m.list[r]
    BY <2>1 DEF Thinned
  <2>3. b.status = m.status
    BY <2>1 DEF Thinned
  <2>4. /\ o.m.hash = m.hash \ V2
        /\ \A r \in V2 : o.m.list[r] = << >> /\ o.m.txns[r] = 0
        /\ \A r \in Rels \ V2 : /\ o.m.txns[r] = m.txns[r] /\ o.m.stale[r] = m.stale[r]
                               /\ o.m.maxSegno[r] = m.maxSegno[r] /\ o.m.list[r] = m.list[r]
    BY <2>2, <1>10
  <2> QED
    BY <2>3, <2>4, <1>10 DEF Thinned
<1> QED
  BY <1>5, <1>7, <1>8, <1>10, <1>11

LEMMA AscendingFacts ==
    ASSUME NEW rows \in SUBSET Segnos, NEW q \in Ascending(rows)
    PROVE  /\ q \in Seq(Segnos) /\ Len(q) = Cardinality(rows) /\ Cardinality(rows) \in Nat
           /\ \A j \in 1 .. Len(q) : q[j] \in rows
           /\ \A i, j \in 1 .. Len(q) : i < j => q[i] < q[j]
<1>1. IsFiniteSet(Segnos)
  BY FS_Interval, ConstAssumption DEF Segnos
<1>2. Cardinality(rows) \in Nat
  BY <1>1, FS_Subset, FS_CardinalityType
<1>3. q \in [1 .. Cardinality(rows) -> rows] /\ \A i, j \in DOMAIN q : i < j => q[i] < q[j]
  BY DEF Ascending, Bijection, Injection
<1> QED
  BY <1>2, <1>3

(* Table e is table m with statuses ids in the entry of relation r. *)
FilledFrom(e, m, r, ids, segno) ==
    /\ e \in Shared
    /\ e.hash = m.hash /\ e.txns = m.txns /\ e.stale = m.stale /\ e.free = m.free
    /\ e.list = [m.list EXCEPT ![r] = Reverse(ids)]
    /\ e.maxSegno = [m.maxSegno EXCEPT ![r] = IF ids = << >> THEN 0 ELSE segno[Len(ids)]]
    /\ \A i \in Ids \ ToSet(ids) : e.status[i] = m.status[i]
    /\ \A i \in ToSet(ids) : /\ e.status[i].segno = segno[Position(ids, i)]
                             /\ e.status[i].xid = 0 /\ e.status[i].latestWriteXid = 0

LEMMA FilledFacts ==
    ASSUME NEW m \in Shared, NEW r \in Rels, NEW ids \in Seq(Ids), NEW segno \in Seq(Segnos),
           Len(ids) <= Len(segno)
    PROVE  FilledFrom(Filled(m, r, ids, segno), m, r, ids, segno)
<1> DEFINE Read(s) == [segno |-> s, inuse |-> FALSE, xid |-> 0, latestWriteXid |-> 0,
                       isfull |-> FALSE, needCheck |-> TRUE, large |-> s \in LargeSegnos]
           st == [i \in Ids |-> IF i \in ToSet(ids) THEN Read(segno[Position(ids, i)])
                                ELSE m.status[i]]
           ms == [m.maxSegno EXCEPT ![r] = IF ids = << >> THEN 0 ELSE segno[Len(ids)]]
           ls == [m.list EXCEPT ![r] = Reverse(ids)]
           nm == IF Len(ids) = Len(segno) THEN m.numAorels + 1 ELSE m.numAorels
           e == Filled(m, r, ids, segno)
<1>1. \A i \in ToSet(ids) : segno[Position(ids, i)] \in Segnos
  BY PositionFacts
<1>2. \A s \in Segnos : Read(s) \in Status
  BY ConstAssumption DEF Status, Segnos
<1>3. st \in [Ids -> Status]
  <2> HIDE DEF Read
  <2> QED
    BY <1>1, <1>2 DEF Shared
<1>4. ms \in [Rels -> 0 .. MaxSegno]
  <2>1. ids # << >> => Len(ids) \in 1 .. Len(segno)
    OBVIOUS
  <2>2. ids # << >> => segno[Len(ids)] \in Segnos
    BY <2>1
  <2> QED
    BY <2>2, ConstAssumption DEF Shared, Segnos
<1>5. ls \in [Rels -> Seq(Ids)]
  BY ReverseFacts DEF Shared
<1>6. nm \in Int
  BY DEF Shared
<1>7. e = [m EXCEPT !.status = st, !.list = ls, !.maxSegno = ms, !.numAorels = nm]
  <2> HIDE DEF Read
  <2> QED
    BY DEF Filled, Read, Shared
<1> HIDE DEF st, ms, ls, nm, e, Read
<1>8. e \in Shared
  BY <1>3, <1>4, <1>5, <1>6, <1>7 DEF Shared
<1>9. /\ e.hash = m.hash /\ e.txns = m.txns /\ e.stale = m.stale /\ e.free = m.free
      /\ e.list = ls /\ e.maxSegno = ms /\ e.status = st
  BY <1>7 DEF Shared
<1>10. \A i \in Ids \ ToSet(ids) : e.status[i] = m.status[i]
  BY <1>9 DEF st
<1>11. \A i \in ToSet(ids) : e.status[i] = Read(segno[Position(ids, i)])
  BY <1>9, ToSetFacts DEF st
<1>12. \A s : Read(s).segno = s /\ Read(s).xid = 0 /\ Read(s).latestWriteXid = 0
  BY DEF Read
<1> QED
  BY <1>8, <1>9, <1>10, <1>11, <1>12 DEF ls, ms, e, FilledFrom

LEMMA PoolFill ==
    ASSUME NEW m, Pool(m), NEW r \in m.hash, m.list[r] = << >>, NEW ids, Obtained(m, ids),
           NEW rows \in SUBSET Segnos, NEW segno \in Ascending(rows), Len(ids) <= Len(segno)
    PROVE  Pool(Filled(m, r, ids, segno))
<1> DEFINE e == Filled(m, r, ids, segno)
<1>1. m \in Shared /\ r \in Rels /\ ids \in Seq(Ids)
  BY DEF Pool, Shared, Obtained
<1>2. /\ segno \in Seq(Segnos)
      /\ \A i, j \in 1 .. Len(segno) : i < j => segno[i] < segno[j]
  BY AscendingFacts
<1>3. /\ e \in Shared
      /\ e.hash = m.hash /\ e.txns = m.txns /\ e.stale = m.stale /\ e.free = m.free
      /\ e.list = [m.list EXCEPT ![r] = Reverse(ids)]
      /\ e.maxSegno = [m.maxSegno EXCEPT ![r] = IF ids = << >> THEN 0 ELSE segno[Len(ids)]]
      /\ \A i \in Ids \ ToSet(ids) : e.status[i] = m.status[i]
      /\ \A i \in ToSet(ids) : /\ e.status[i].segno = segno[Position(ids, i)]
                               /\ e.status[i].xid = 0 /\ e.status[i].latestWriteXid = 0
  <2>1. FilledFrom(e, m, r, ids, segno)
    BY <1>1, <1>2, FilledFacts
  <2> HIDE DEF e
  <2> QED
    BY <2>1 DEF FilledFrom
<1> HIDE DEF e
<1>4. m.list \in [Rels -> Seq(Ids)] /\ m.maxSegno \in [Rels -> 0 .. MaxSegno]
  BY <1>1 DEF Shared
<1>5. ToSet(e.list[r]) = ToSet(ids)
  BY <1>1, <1>3, <1>4, ReverseFacts
<1>6. \A u \in Rels \ {r} : e.list[u] = m.list[u] /\ e.maxSegno[u] = m.maxSegno[u]
  BY <1>3, <1>4
<1>7. \A u \in Rels : ToSet(m.list[u]) \subseteq Ids
  BY <1>4, ToSetFacts
<1>8. \A u \in Rels \ {r} : ToSet(e.list[u]) = ToSet(m.list[u])
                            /\ \A i \in ToSet(m.list[u]) : e.status[i] = m.status[i]
  BY <1>3, <1>6, <1>7 DEF Obtained
<1>9. \A u \in Rels \ e.hash : e.list[u] = << >> /\ e.txns[u] = 0
  BY <1>3, <1>6 DEF Pool
<1>10. \A u \in Rels : ToSet(e.list[u]) \cap e.free = {}
  BY <1>3, <1>5, <1>8 DEF Pool, Obtained
<1>11. \A u, v \in Rels : u # v => ToSet(e.list[u]) \cap ToSet(e.list[v]) = {}
  <2> SUFFICES ASSUME NEW u \in Rels, NEW v \in Rels, u # v
               PROVE  ToSet(e.list[u]) \cap ToSet(e.list[v]) = {}
    OBVIOUS
  <2>1. CASE u = r
    BY <2>1, <1>5, <1>8 DEF Obtained
  <2>2. CASE v = r
    BY <2>2, <1>5, <1>8 DEF Obtained
  <2>3. CASE u # r /\ v # r
    BY <2>3, <1>8 DEF Pool
  <2> QED
    BY <2>1, <2>2, <2>3
<1>12. \A i \in Ids : e.status[i].xid # 0 => e.status[i].inuse
  BY <1>3 DEF Pool
<1>13. \A i \in ToSet(ids) : Position(ids, i) \in 1 .. Len(ids) /\ ids[Position(ids, i)] = i
  BY <1>1, PositionFacts
<1>14. \A j \in 1 .. Len(ids) : ids # << >> /\ j \in 1 .. Len(segno) /\ segno[j] \in Segnos
                               /\ Len(ids) \in 1 .. Len(segno) /\ segno[Len(ids)] \in Segnos
  BY <1>1, <1>2
<1>15. \A u \in Rels : \A i \in ToSet(e.list[u]) : e.status[i].segno \in 1 .. e.maxSegno[u]
  <2> SUFFICES ASSUME NEW u \in Rels, NEW i \in ToSet(e.list[u])
               PROVE  e.status[i].segno \in 1 .. e.maxSegno[u]
    OBVIOUS
  <2>1. CASE u = r
    <3> DEFINE j == Position(ids, i)
    <3>1. i \in ToSet(ids)
      BY <2>1, <1>5
    <3>2. j \in 1 .. Len(ids) /\ e.status[i].segno = segno[j]
      BY <3>1, <1>3, <1>13
    <3>3. e.maxSegno[r] = segno[Len(ids)]
      <4>1. ids # << >>
        BY <3>2, <1>14
      <4> QED
        BY <4>1, <1>1, <1>3, <1>4
    <3>4. segno[j] <= segno[Len(ids)] /\ segno[j] \in Segnos /\ segno[Len(ids)] \in Segnos
      <4>1. j = Len(ids) \/ j < Len(ids)
        BY <3>2, <1>14
      <4>2. segno[j] \in Segnos /\ segno[Len(ids)] \in Segnos
        BY <3>2, <1>14
      <4>3. CASE j = Len(ids)
        BY <4>2, <4>3, ConstAssumption DEF Segnos
      <4>4. CASE j < Len(ids)
        <5>1. segno[j] < segno[Len(ids)]
          BY <4>4, <3>2, <1>2, <1>14
        <5> QED
          BY <5>1, <4>2, ConstAssumption DEF Segnos
      <4> QED
        BY <4>1, <4>3, <4>4
    <3> QED
      BY <2>1, <3>2, <3>3, <3>4, ConstAssumption DEF Segnos
  <2>2. CASE u # r
    BY <2>2, <1>6, <1>8 DEF Pool
  <2> QED
    BY <2>1, <2>2
<1>16. \A u \in Rels : \A i, j \in ToSet(e.list[u]) :
         e.status[i].segno = e.status[j].segno => i = j
  <2> SUFFICES ASSUME NEW u \in Rels, NEW i \in ToSet(e.list[u]), NEW j \in ToSet(e.list[u]),
                      e.status[i].segno = e.status[j].segno
               PROVE  i = j
    OBVIOUS
  <2>1. CASE u = r
    <3> DEFINE p == Position(ids, i)
               q == Position(ids, j)
    <3>1. p \in 1 .. Len(ids) /\ q \in 1 .. Len(ids) /\ segno[p] = segno[q] /\ ids[p] = i /\ ids[q] = j
      BY <2>1, <1>3, <1>5, <1>13
    <3>2. segno[p] \in Int /\ segno[q] \in Int /\ p \in 1 .. Len(segno) /\ q \in 1 .. Len(segno)
      BY <3>1, <1>14, ConstAssumption DEF Segnos
    <3> HIDE DEF p, q
    <3>3. ~(p < q) /\ ~(q < p)
      BY <3>1, <3>2, <1>2
    <3>4. p = q
      BY <3>1, <3>2, <3>3
    <3> QED
      BY <3>1, <3>4
  <2>2. CASE u # r
    <3>1. i \in ToSet(m.list[u]) /\ j \in ToSet(m.list[u]) /\ m.status[i].segno = m.status[j].segno
      BY <2>2, <1>8
    <3> QED
      BY <3>1 DEF Pool
  <2> QED
    BY <2>1, <2>2
<1> QED
  BY <1>3, <1>9, <1>10, <1>11, <1>12, <1>15, <1>16 DEF Pool, e

(* Table e is table m with a new entry for relation r, which nobody uses, and
   without some entries that could be thrown out. *)
Created(m, e, r) ==
    /\ \E V \in SUBSET Unused(m) :
         /\ e.hash = (m.hash \ V) \cup {r}
         /\ \A u \in V : e.list[u] = << >> /\ e.txns[u] = 0
         /\ \A u \in Rels \ (V \cup {r}) : /\ e.txns[u] = m.txns[u] /\ e.stale[u] = m.stale[u]
                                           /\ e.maxSegno[u] = m.maxSegno[u] /\ e.list[u] = m.list[u]
    /\ e.txns[r] = 0
    /\ \A i \in ToSet(e.list[r]) : e.status[i].xid = 0 /\ e.status[i].latestWriteXid = 0
    /\ \A u \in Rels \ {r} : \A i \in ToSet(e.list[u]) : e.status[i] = m.status[i]

(* Entering a relation into the table. *)
LEMMA PoolEnter ==
    ASSUME NEW m, Pool(m), NEW r \in Rels, NEW e, e = [m EXCEPT !.hash = @ \cup {r}]
    PROVE  /\ Pool(e) /\ e.hash = m.hash \cup {r}
           /\ e.status = m.status /\ e.list = m.list /\ e.free = m.free
           /\ e.txns = m.txns /\ e.stale = m.stale /\ e.maxSegno = m.maxSegno
<1>1. /\ e.hash = m.hash \cup {r}
      /\ e.status = m.status /\ e.list = m.list /\ e.free = m.free
      /\ e.txns = m.txns /\ e.stale = m.stale /\ e.maxSegno = m.maxSegno
      /\ e \in Shared
  BY DEF Pool, Shared
<1>2. /\ \A u \in Rels \ e.hash : e.list[u] = << >> /\ e.txns[u] = 0
      /\ \A u \in Rels : ToSet(e.list[u]) \cap e.free = {}
      /\ \A u, v \in Rels : u # v => ToSet(e.list[u]) \cap ToSet(e.list[v]) = {}
      /\ \A i \in Ids : e.status[i].xid # 0 => e.status[i].inuse
      /\ \A u \in Rels : \A i \in ToSet(e.list[u]) : e.status[i].segno \in 1 .. e.maxSegno[u]
  BY <1>1 DEF Pool
<1>3. \A u \in Rels : \A i, j \in ToSet(e.list[u]) :
         e.status[i].segno = e.status[j].segno => i = j
  <2> SUFFICES ASSUME NEW u \in Rels, NEW i \in ToSet(e.list[u]), NEW j \in ToSet(e.list[u]),
                      e.status[i].segno = e.status[j].segno
               PROVE  i = j
    OBVIOUS
  <2>1. i \in ToSet(m.list[u]) /\ j \in ToSet(m.list[u]) /\ m.status[i].segno = m.status[j].segno
    BY <1>1
  <2> QED
    BY <2>1 DEF Pool
<1> QED
  BY <1>1, <1>2, <1>3 DEF Pool

LEMMA CreateInRoom ==
    ASSUME NEW m, Pool(m), NEW r \in Rels \ m.hash, NEW rows \in SUBSET Segnos,
           NEW b, Pool(b), Thinned(m, b, r), NEW g, g = [b EXCEPT !.hash = @ \cup {r}],
           NEW o \in AORelGetSegfileStatus(g, r, Cardinality(rows)), NEW segno \in Ascending(rows)
    PROVE  LET e == Filled(o.m, r, o.ids, segno)
           IN  Pool(e) /\ r \in e.hash /\ Created(m, e, r)
<1> DEFINE e == Filled(o.m, r, o.ids, segno)
<1>1. /\ Pool(g) /\ g.hash = b.hash \cup {r}
      /\ g.status = b.status /\ g.list = b.list /\ g.free = b.free
      /\ g.txns = b.txns /\ g.stale = b.stale /\ g.maxSegno = b.maxSegno
  BY PoolEnter
<1>2. segno \in Seq(Segnos) /\ Len(segno) = Cardinality(rows) /\ Cardinality(rows) \in Nat
  BY AscendingFacts
<1>3. Pool(o.m) /\ Thinned(g, o.m, r) /\ Obtained(o.m, o.ids) /\ Len(o.ids) \in 0 .. Cardinality(rows)
  BY <1>1, <1>2, GetFacts
<1>4. PICK V1 \in SUBSET (Unused(m) \ {r}) :
        /\ b.hash = m.hash \ V1
        /\ \A u \in V1 : b.list[u] = << >> /\ b.txns[u] = 0
        /\ \A u \in Rels \ V1 : /\ b.txns[u] = m.txns[u] /\ b.stale[u] = m.stale[u]
                                /\ b.maxSegno[u] = m.maxSegno[u] /\ b.list[u] = m.list[u]
  BY DEF Thinned
<1>5. PICK V2 \in SUBSET (Unused(g) \ {r}) :
        /\ o.m.hash = g.hash \ V2
        /\ \A u \in V2 : o.m.list[u] = << >> /\ o.m.txns[u] = 0
        /\ \A u \in Rels \ V2 : /\ o.m.txns[u] = g.txns[u] /\ o.m.stale[u] = g.stale[u]
                                /\ o.m.maxSegno[u] = g.maxSegno[u] /\ o.m.list[u] = g.list[u]
  BY <1>3 DEF Thinned
<1>6. o.m.status = m.status
  BY <1>1, <1>3 DEF Thinned
<1>7. m.list[r] = << >> /\ m.txns[r] = 0 /\ m.hash \subseteq Rels /\ m \in Shared
  BY DEF Pool, Shared
<1>8. r \in o.m.hash /\ o.m.list[r] = << >> /\ o.m.txns[r] = 0
  BY <1>1, <1>4, <1>5, <1>7
<1>9. o.ids \in Seq(Ids) /\ o.m \in Shared
  BY <1>3 DEF Obtained, Pool
<1>10. Len(o.ids) <= Len(segno)
  BY <1>2, <1>3
<1>11. Pool(e)
  <2>1. PICK om, os : om = o.m /\ os = o.ids
    OBVIOUS
  <2>2. Pool(Filled(om, r, os, segno))
    BY <2>1, <1>3, <1>8, <1>10, PoolFill
  <2> QED
    BY <2>1, <2>2
<1>12. FilledFrom(e, o.m, r, o.ids, segno)
  BY <1>2, <1>9, <1>10, FilledFacts
<1> HIDE DEF e
<1>13. /\ e.hash = o.m.hash /\ e.txns = o.m.txns /\ e.stale = o.m.stale
       /\ e.list = [o.m.list EXCEPT ![r] = Reverse(o.ids)]
       /\ \A u \in Rels \ {r} : e.maxSegno[u] = o.m.maxSegno[u] /\ e.list[u] = o.m.list[u]
       /\ \A i \in Ids \ ToSet(o.ids) : e.status[i] = o.m.status[i]
       /\ \A i \in ToSet(o.ids) : e.status[i].xid = 0 /\ e.status[i].latestWriteXid = 0
  BY <1>9, <1>12 DEF FilledFrom, Shared
<1>14. ToSet(e.list[r]) = ToSet(o.ids)
  BY <1>9, <1>13, ReverseFacts DEF Shared
<1>15. V1 \cup V2 \in SUBSET Unused(m)
  <2> SUFFICES ASSUME NEW u \in V2 PROVE u \in Unused(m)
    BY <1>4
  <2>1. u \in b.hash /\ b.txns[u] = 0 /\ b.stale[u] = 0
    BY <1>1, <1>5 DEF Unused
  <2> QED
    BY <2>1, <1>4, <1>7 DEF Unused
<1>16. e.hash = (m.hash \ (V1 \cup V2)) \cup {r}
  BY <1>1, <1>4, <1>5, <1>13
<1>17. \A u \in V1 \cup V2 : e.list[u] = << >> /\ e.txns[u] = 0
  <2> TAKE u \in V1 \cup V2
  <2>1. u \in Rels \ {r}
    BY <1>4, <1>5, <1>7, <1>15 DEF Unused
  <2>2. o.m.list[u] = << >> /\ o.m.txns[u] = 0
    BY <2>1, <1>1, <1>4, <1>5
  <2> QED
    BY <2>1, <2>2, <1>13
<1>18. \A u \in Rels \ ((V1 \cup V2) \cup {r}) :
         /\ e.txns[u] = m.txns[u] /\ e.stale[u] = m.stale[u]
         /\ e.maxSegno[u] = m.maxSegno[u] /\ e.list[u] = m.list[u]
  BY <1>1, <1>4, <1>5, <1>13
<1>19. e.txns[r] = 0
  BY <1>8, <1>13
<1>20. \A i \in ToSet(e.list[r]) : e.status[i].xid = 0 /\ e.status[i].latestWriteXid = 0
  BY <1>13, <1>14
<1>21. \A u \in Rels \ {r} : \A i \in ToSet(e.list[u]) : e.status[i] = m.status[i]
  <2> TAKE u \in Rels \ {r}
  <2> TAKE i \in ToSet(e.list[u])
  <2>1. i \in ToSet(o.m.list[u])
    BY <1>13
  <2>2. i \in Ids /\ i \notin ToSet(o.ids)
    BY <2>1, <1>3, <1>9, ToSetFacts DEF Obtained, Shared
  <2> QED
    BY <2>2, <1>6, <1>13
<1>22. Created(m, e, r)
  BY <1>15, <1>16, <1>17, <1>18, <1>19, <1>20, <1>21 DEF Created
<1> QED
  BY <1>8, <1>11, <1>13, <1>22 DEF e

LEMMA CreateFacts ==
    ASSUME NEW m, Pool(m), NEW r \in Rels, NEW rows \in SUBSET Segnos,
           NEW c \in AORelCreateHashEntry(m, r, rows)
    PROVE  /\ Pool(c.m)
           /\ c.ok => r \in c.m.hash
           /\ c.m = m \/ (r \notin m.hash /\ Created(m, c.m, r))
<1>1. CASE r \in m.hash
  BY <1>1 DEF AORelCreateHashEntry
<1>2. CASE r \notin m.hash /\ Rooms(m) = {}
  BY <1>2 DEF AORelCreateHashEntry
<1>3. CASE r \notin m.hash /\ Rooms(m) # {}
  <2>1. PICK b \in Rooms(m) : c \in Entered(b, r, rows)
    BY <1>3 DEF AORelCreateHashEntry
  <2> DEFINE Got == AORelGetSegfileStatus([b EXCEPT !.hash = @ \cup {r}], r, Cardinality(rows))
             Out(segno, o) == [m |-> Filled(o.m, r, o.ids, segno), ok |-> Len(o.ids) = Len(segno)]
  <2>2a. PICK segno \in Ascending(rows) : c \in {Out(segno, o) : o \in Got}
    BY <2>1, Zenon DEF Entered
  <2>2. PICK o \in Got : c = Out(segno, o)
    BY <2>2a, Zenon
  <2>3. Pool(b) /\ Thinned(m, b, r)
    <3>1. m \in Shared /\ Unused(m) \in SUBSET Rels
      BY DEF Pool, Shared, Unused
    <3>2. CASE b = m
      <4>1. {} \in SUBSET (Unused(m) \ {r}) /\ m.hash = m.hash \ {}
        OBVIOUS
      <4>2. Thinned(m, m, r)
        BY <4>1 DEF Thinned
      <4> QED
        BY <3>2, <4>2
    <3>3. CASE b # m
      <4>1. PICK v \in Unused(m) : b = AORelRemoveHashEntry(m, {v})
        BY <2>1, <3>3 DEF Rooms
      <4>2. {v} \in SUBSET (Unused(m) \ {r}) /\ {v} \in SUBSET Rels
        BY <3>1, <1>3 DEF Unused
      <4> QED
        BY <3>1, <4>1, <4>2, PoolRemove, ThinnedRemove
    <3> QED
      BY <3>2, <3>3
  <2>4. c.m = Filled(o.m, r, o.ids, segno)
    BY <2>2
  <2>5. PICK g : g = [b EXCEPT !.hash = @ \cup {r}]
    OBVIOUS
  <2>6. o \in AORelGetSegfileStatus(g, r, Cardinality(rows))
    BY <2>2, <2>5
  <2>7. Pool(c.m) /\ r \in c.m.hash /\ Created(m, c.m, r)
    BY <1>3, <2>1, <2>3, <2>4, <2>5, <2>6, CreateInRoom
  <2> QED
    BY <1>3, <2>7
<1> QED
  BY <1>1, <1>2, <1>3

-----------------------------------------------------------------------------
(* The choice of segment files *)

(* Status sn is status so, or it was found spoilt. *)
Spoiled(so, sn) ==
    /\ sn.segno = so.segno /\ sn.latestWriteXid = so.latestWriteXid
    /\ \/ sn.xid = so.xid /\ (sn.inuse <=> so.inuse)
       \/ sn.xid = 0 /\ sn.inuse

LEMMA CheckedStatus ==
    ASSUME NEW st \in Status
    PROVE  /\ [st EXCEPT !.needCheck = FALSE, !.inuse = TRUE, !.xid = 0] \in Status
           /\ [st EXCEPT !.needCheck = FALSE] \in Status
           /\ Spoiled(st, [st EXCEPT !.needCheck = FALSE, !.inuse = TRUE, !.xid = 0])
           /\ [st EXCEPT !.needCheck = FALSE].segno = st.segno
           /\ [st EXCEPT !.needCheck = FALSE].latestWriteXid = st.latestWriteXid
           /\ [st EXCEPT !.needCheck = FALSE].xid = st.xid
           /\ [st EXCEPT !.needCheck = FALSE].inuse = st.inuse
<1>1. [st EXCEPT !.needCheck = FALSE] \in Status
  BY DEF Status
<1>2. [st EXCEPT !.needCheck = FALSE, !.inuse = TRUE, !.xid = 0] \in Status
  <2>1. 0 \in 0 .. MaxXid
    BY ConstAssumption
  <2> QED
    BY <2>1 DEF Status
<1>3. [st EXCEPT !.needCheck = FALSE, !.inuse = TRUE, !.xid = 0].inuse
  BY DEF Status
<1>4. /\ [st EXCEPT !.needCheck = FALSE, !.inuse = TRUE, !.xid = 0].xid = 0
      /\ [st EXCEPT !.needCheck = FALSE, !.inuse = TRUE, !.xid = 0].segno = st.segno
      /\ [st EXCEPT !.needCheck = FALSE, !.inuse = TRUE, !.xid = 0].latestWriteXid = st.latestWriteXid
  BY DEF Status
<1>5. Spoiled(st, [st EXCEPT !.needCheck = FALSE, !.inuse = TRUE, !.xid = 0])
  BY <1>3, <1>4, Zenon DEF Spoiled
<1>6. /\ [st EXCEPT !.needCheck = FALSE].segno = st.segno
      /\ [st EXCEPT !.needCheck = FALSE].latestWriteXid = st.latestWriteXid
      /\ [st EXCEPT !.needCheck = FALSE].xid = st.xid
  BY DEF Status
<1>7. [st EXCEPT !.needCheck = FALSE].inuse = st.inuse
  BY DEF Status
<1> QED
  BY <1>1, <1>2, <1>5, <1>6, <1>7, Zenon

LEMMA CheckedFacts ==
    ASSUME NEW m \in Shared, NEW C, NEW t, NEW r, NEW e, e = Checked(m, C, t, r)
    PROVE  /\ e \in Shared
           /\ e.hash = m.hash /\ e.txns = m.txns /\ e.stale = m.stale /\ e.free = m.free
           /\ e.list = m.list /\ e.maxSegno = m.maxSegno
           /\ \A i \in Ids \ C : e.status[i] = m.status[i]
           /\ \A i \in Ids : Spoiled(m.status[i], e.status[i])
           /\ \A i \in Ids : ~Spoilt(m.status[i], t, r) =>
                /\ e.status[i].xid = m.status[i].xid /\ e.status[i].inuse = m.status[i].inuse
<1> DEFINE Bad(st) == [st EXCEPT !.needCheck = FALSE, !.inuse = TRUE, !.xid = 0]
           Good(st) == [st EXCEPT !.needCheck = FALSE]
           ns == [i \in Ids |-> IF i \notin C THEN m.status[i]
                                ELSE IF Spoilt(m.status[i], t, r) THEN Bad(m.status[i])
                                ELSE Good(m.status[i])]
<1>1. \A i \in Ids : m.status[i] \in Status
  BY DEF Shared
<1>2. \A st \in Status :
         /\ Bad(st) \in Status /\ Good(st) \in Status /\ Spoiled(st, Bad(st))
         /\ Good(st).segno = st.segno /\ Good(st).latestWriteXid = st.latestWriteXid
         /\ Good(st).xid = st.xid /\ Good(st).inuse = st.inuse
  BY CheckedStatus
<1>3. e = [m EXCEPT !.status = ns]
  BY DEF Checked
<1> HIDE DEF Bad, Good
<1>4. ns \in [Ids -> Status]
  BY <1>1, <1>2
<1>5. \A i \in Ids : /\ i \notin C => ns[i] = m.status[i]
                     /\ i \in C /\ Spoilt(m.status[i], t, r) => ns[i] = Bad(m.status[i])
                     /\ i \in C /\ ~Spoilt(m.status[i], t, r) => ns[i] = Good(m.status[i])
  OBVIOUS
<1> HIDE DEF ns
<1>6. /\ e \in Shared /\ e.status = ns
      /\ e.hash = m.hash /\ e.txns = m.txns /\ e.stale = m.stale /\ e.free = m.free
      /\ e.list = m.list /\ e.maxSegno = m.maxSegno
  BY <1>3, <1>4 DEF Shared
<1>7. \A st : Spoiled(st, st)
  BY DEF Spoiled
<1>8. \A st \in Status : Spoiled(st, Good(st))
  BY <1>2, Zenon DEF Spoiled
<1>9. \A i \in Ids : Spoiled(m.status[i], ns[i])
  BY <1>1, <1>2, <1>5, <1>7, <1>8, Zenon
<1>10. \A i \in Ids : ~Spoilt(m.status[i], t, r) =>
         /\ ns[i].xid = m.status[i].xid /\ ns[i].inuse = m.status[i].inuse
  BY <1>1, <1>2, <1>5, Zenon
<1>11. \A i \in Ids \ C : e.status[i] = m.status[i]
  BY <1>5, <1>6
<1> QED
  BY <1>6, <1>9, <1>10, <1>11, Zenon

WithTxns(m, r, n) == [m EXCEPT !.txns[r] = n]

LEMMA CountedUser ==
    ASSUME NEW m, Pool(m), NEW r \in m.hash, NEW n \in Int, NEW e, e = WithTxns(m, r, n)
    PROVE  /\ Pool(e) /\ e.txns = [m.txns EXCEPT ![r] = n]
           /\ e.hash = m.hash /\ e.status = m.status /\ e.list = m.list /\ e.free = m.free
           /\ e.stale = m.stale /\ e.maxSegno = m.maxSegno
<1>1. /\ e \in Shared /\ e.txns = [m.txns EXCEPT ![r] = n]
      /\ e.hash = m.hash /\ e.status = m.status /\ e.list = m.list /\ e.free = m.free
      /\ e.stale = m.stale /\ e.maxSegno = m.maxSegno
  BY DEF Pool, Shared, WithTxns
<1>2. /\ \A u \in Rels \ e.hash : e.list[u] = << >> /\ e.txns[u] = 0
      /\ \A u \in Rels : ToSet(e.list[u]) \cap e.free = {}
      /\ \A u, v \in Rels : u # v => ToSet(e.list[u]) \cap ToSet(e.list[v]) = {}
      /\ \A i \in Ids : e.status[i].xid # 0 => e.status[i].inuse
      /\ \A u \in Rels : \A i \in ToSet(e.list[u]) : e.status[i].segno \in 1 .. e.maxSegno[u]
  BY <1>1 DEF Pool, Shared
<1>3. \A u \in Rels : \A i, j \in ToSet(e.list[u]) :
         e.status[i].segno = e.status[j].segno => i = j
  <2> SUFFICES ASSUME NEW u \in Rels, NEW i \in ToSet(e.list[u]), NEW j \in ToSet(e.list[u]),
                      e.status[i].segno = e.status[j].segno
               PROVE  i = j
    OBVIOUS
  <2>1. i \in ToSet(m.list[u]) /\ j \in ToSet(m.list[u]) /\ m.status[i].segno = m.status[j].segno
    BY <1>1
  <2> QED
    BY <2>1 DEF Pool
<1> QED
  BY <1>1, <1>2, <1>3 DEF Pool

(* A table whose statuses keep their numbers. *)
LEMMA PoolSameNumbers ==
    ASSUME NEW m, Pool(m), NEW e \in Shared, e.hash = m.hash, e.txns = m.txns, e.free = m.free,
           e.list = m.list, e.maxSegno = m.maxSegno,
           \A i \in Ids : e.status[i].segno = m.status[i].segno,
           \A i \in Ids : e.status[i].xid # 0 => e.status[i].inuse
    PROVE  Pool(e)
<1>1. /\ \A u \in Rels \ e.hash : e.list[u] = << >> /\ e.txns[u] = 0
      /\ \A u \in Rels : ToSet(e.list[u]) \cap e.free = {}
      /\ \A u, v \in Rels : u # v => ToSet(e.list[u]) \cap ToSet(e.list[v]) = {}
  BY DEF Pool
<1>2. \A u \in Rels : ToSet(e.list[u]) \subseteq Ids
  BY ToSetFacts DEF Shared
<1>3. \A u \in Rels : \A i \in ToSet(e.list[u]) : e.status[i].segno \in 1 .. e.maxSegno[u]
  BY <1>2 DEF Pool
<1>4. \A u \in Rels : \A i, j \in ToSet(e.list[u]) :
         e.status[i].segno = e.status[j].segno => i = j
  <2> SUFFICES ASSUME NEW u \in Rels, NEW i \in ToSet(e.list[u]), NEW j \in ToSet(e.list[u]),
                      e.status[i].segno = e.status[j].segno
               PROVE  i = j
    OBVIOUS
  <2>1. i \in ToSet(m.list[u]) /\ j \in ToSet(m.list[u]) /\ m.status[i].segno = m.status[j].segno
    BY <1>2
  <2> QED
    BY <2>1 DEF Pool
<1> QED
  BY <1>1, <1>3, <1>4 DEF Pool

LEMMA PoolChecked ==
    ASSUME NEW m, Pool(m), NEW C, NEW t, NEW r
    PROVE  Pool(Checked(m, C, t, r))
<1>1. PICK e : e = Checked(m, C, t, r)
  OBVIOUS
<1>2. m \in Shared
  BY DEF Pool
<1>3. /\ e \in Shared
      /\ e.hash = m.hash /\ e.txns = m.txns /\ e.free = m.free
      /\ e.list = m.list /\ e.maxSegno = m.maxSegno
      /\ \A i \in Ids : Spoiled(m.status[i], e.status[i])
  BY <1>1, <1>2, CheckedFacts
<1>4. \A i \in Ids : m.status[i].xid # 0 => m.status[i].inuse
  BY DEF Pool
<1>5. \A i \in Ids : e.status[i].segno = m.status[i].segno
  BY <1>3 DEF Spoiled
<1>6. \A i \in Ids : e.status[i].xid # 0 => e.status[i].inuse
  BY <1>3, <1>4 DEF Spoiled
<1> QED
  BY <1>1, <1>3, <1>5, <1>6, PoolSameNumbers

(* Table e is table m with new numbers for statuses ids in relation r's entry. *)
GrownFrom(e, m, r, ids) ==
    /\ e \in Shared
    /\ e.hash = m.hash /\ e.txns = m.txns /\ e.stale = m.stale /\ e.free = m.free
    /\ ToSet(e.list[r]) = ToSet(ids) \cup ToSet(m.list[r])
    /\ e.maxSegno[r] = m.maxSegno[r] + Len(ids)
    /\ \A u \in Rels \ {r} : e.list[u] = m.list[u] /\ e.maxSegno[u] = m.maxSegno[u]
    /\ \A i \in Ids \ ToSet(ids) : e.status[i] = m.status[i]
    /\ \A i \in ToSet(ids) : /\ e.status[i].segno = m.maxSegno[r] + Position(ids, i)
                             /\ e.status[i].xid = m.status[i].xid
                             /\ e.status[i].inuse = m.status[i].inuse

LEMMA NumberedStatus ==
    ASSUME NEW st \in Status, NEW s \in 0 .. MaxSegno
    PROVE  /\ [st EXCEPT !.segno = s] \in Status
           /\ [st EXCEPT !.segno = s].segno = s /\ [st EXCEPT !.segno = s].xid = st.xid
           /\ [st EXCEPT !.segno = s].inuse = st.inuse
<1>1. [st EXCEPT !.segno = s] \in Status
  BY DEF Status
<1>2. [st EXCEPT !.segno = s].segno = s /\ [st EXCEPT !.segno = s].xid = st.xid
  BY DEF Status
<1>3. [st EXCEPT !.segno = s].inuse = st.inuse
  BY DEF Status
<1> QED
  BY <1>1, <1>2, <1>3, Zenon

LEMMA GrownFacts ==
    ASSUME NEW m \in Shared, NEW r \in Rels, NEW ids \in Seq(Ids),
           m.maxSegno[r] + Len(ids) <= MaxSegno
    PROVE  GrownFrom(Grown(m, r, ids), m, r, ids)
<1> DEFINE no(i) == m.maxSegno[r] + Position(ids, i)
           Num(st, s) == [st EXCEPT !.segno = s]
           st == [i \in Ids |-> IF i \in ToSet(ids) THEN Num(m.status[i], no(i)) ELSE m.status[i]]
           ls == [m.list EXCEPT ![r] = Reverse(ids) \o m.list[r]]
           ms == [m.maxSegno EXCEPT ![r] = m.maxSegno[r] + Len(ids)]
           e == Grown(m, r, ids)
<1>1. /\ m.list \in [Rels -> Seq(Ids)] /\ m.maxSegno \in [Rels -> 0 .. MaxSegno]
      /\ m.status \in [Ids -> Status]
  BY DEF Shared
<1>2. \A i \in ToSet(ids) : no(i) \in 0 .. MaxSegno
  <2> TAKE i \in ToSet(ids)
  <2>1. Position(ids, i) \in 1 .. Len(ids)
    BY PositionFacts
  <2> QED
    BY <2>1, <1>1, ConstAssumption
<1>3. \A i \in ToSet(ids) : i \in Ids
  BY ToSetFacts
<1> HIDE DEF no
<1>4. \A x \in Status, s \in 0 .. MaxSegno :
         Num(x, s) \in Status /\ Num(x, s).segno = s /\ Num(x, s).xid = x.xid /\ Num(x, s).inuse = x.inuse
  BY NumberedStatus
<1>5. e = [m EXCEPT !.status = st, !.list = ls, !.maxSegno = ms]
  BY DEF Grown, Shared, no
<1> HIDE DEF Num, e
<1>6. st \in [Ids -> Status]
  BY <1>1, <1>2, <1>4
<1>7. ls \in [Rels -> Seq(Ids)] /\ ToSet(ls[r]) = ToSet(ids) \cup ToSet(m.list[r])
  <2>1. Reverse(ids) \in Seq(Ids) /\ ToSet(Reverse(ids)) = ToSet(ids)
    BY ReverseFacts
  <2>2. m.list[r] \in Seq(Ids)
    BY <1>1
  <2>3. /\ Reverse(ids) \o m.list[r] \in Seq(Ids)
        /\ ToSet(Reverse(ids) \o m.list[r]) = ToSet(Reverse(ids)) \cup ToSet(m.list[r])
    BY <2>1, <2>2, ConcatFacts
  <2>4. ls[r] = Reverse(ids) \o m.list[r]
    BY <1>1
  <2> QED
    BY <1>1, <2>1, <2>3, <2>4
<1>8. ms \in [Rels -> 0 .. MaxSegno] /\ ms[r] = m.maxSegno[r] + Len(ids)
  BY <1>1, ConstAssumption
<1>9. \A u \in Rels \ {r} : ls[u] = m.list[u] /\ ms[u] = m.maxSegno[u]
  BY <1>1
<1>10. \A i \in Ids \ ToSet(ids) : st[i] = m.status[i]
  OBVIOUS
<1>11. \A i \in ToSet(ids) : st[i] = Num(m.status[i], no(i))
  BY <1>3
<1>12. \A i \in ToSet(ids) : st[i].segno = no(i) /\ st[i].xid = m.status[i].xid
                            /\ st[i].inuse = m.status[i].inuse
  BY <1>1, <1>2, <1>3, <1>4, <1>11, Zenon
<1> HIDE DEF st, ls, ms
<1>13. /\ e \in Shared
       /\ e.hash = m.hash /\ e.txns = m.txns /\ e.stale = m.stale /\ e.free = m.free
       /\ e.list = ls /\ e.maxSegno = ms /\ e.status = st
  BY <1>5, <1>6, <1>7, <1>8 DEF Shared
<1> QED
  BY <1>7, <1>8, <1>9, <1>10, <1>12, <1>13, Zenon DEF GrownFrom, e, no

LEMMA PoolGrown ==
    ASSUME NEW m, Pool(m), NEW r \in m.hash, NEW ids, Obtained(m, ids),
           NEW e, GrownFrom(e, m, r, ids)
    PROVE  Pool(e)
<1>1. m \in Shared /\ r \in Rels /\ ids \in Seq(Ids)
  BY DEF Pool, Shared, Obtained
<1>2. /\ e \in Shared
      /\ e.hash = m.hash /\ e.txns = m.txns /\ e.stale = m.stale /\ e.free = m.free
      /\ ToSet(e.list[r]) = ToSet(ids) \cup ToSet(m.list[r])
      /\ e.maxSegno[r] = m.maxSegno[r] + Len(ids)
      /\ \A u \in Rels \ {r} : e.list[u] = m.list[u] /\ e.maxSegno[u] = m.maxSegno[u]
      /\ \A i \in Ids \ ToSet(ids) : e.status[i] = m.status[i]
      /\ \A i \in ToSet(ids) : /\ e.status[i].segno = m.maxSegno[r] + Position(ids, i)
                               /\ e.status[i].xid = m.status[i].xid
                               /\ e.status[i].inuse = m.status[i].inuse
  BY DEF GrownFrom
<1>3. m.list \in [Rels -> Seq(Ids)] /\ m.maxSegno \in [Rels -> 0 .. MaxSegno]
  BY <1>1 DEF Shared
<1>4. \A u \in Rels : ToSet(m.list[u]) \subseteq Ids /\ ToSet(ids) \cap ToSet(m.list[u]) = {}
  BY <1>1, <1>3, ToSetFacts DEF Obtained
<1>5. \A u \in Rels : \A i \in ToSet(m.list[u]) : e.status[i] = m.status[i]
  BY <1>2, <1>4
<1>6. \A u \in Rels \ {r} : ToSet(e.list[u]) = ToSet(m.list[u])
  BY <1>2
<1>7. \A u \in Rels \ e.hash : e.list[u] = << >> /\ e.txns[u] = 0
  BY <1>2 DEF Pool
<1>8. \A u \in Rels : ToSet(e.list[u]) \cap e.free = {}
  BY <1>2, <1>6 DEF Pool, Obtained
<1>9. \A u, v \in Rels : u # v => ToSet(e.list[u]) \cap ToSet(e.list[v]) = {}
  <2> SUFFICES ASSUME NEW u \in Rels, NEW v \in Rels, u # v
               PROVE  ToSet(e.list[u]) \cap ToSet(e.list[v]) = {}
    OBVIOUS
  <2>0. \A x \in Rels \ {r} : ToSet(m.list[r]) \cap ToSet(m.list[x]) = {}
    BY <1>1 DEF Pool
  <2>1. CASE u = r
    BY <2>0, <2>1, <1>2, <1>4, <1>6
  <2>2. CASE v = r
    BY <2>0, <2>2, <1>2, <1>4, <1>6
  <2>3. CASE u # r /\ v # r
    BY <2>3, <1>6 DEF Pool
  <2> QED
    BY <2>1, <2>2, <2>3
<1>10. \A i \in Ids : e.status[i].xid # 0 => e.status[i].inuse
  <2>1. \A i \in Ids : m.status[i].xid # 0 => m.status[i].inuse
    BY DEF Pool
  <2>2. ToSet(ids) \subseteq Ids
    BY <1>1, ToSetFacts
  <2> QED
    BY <2>1, <2>2, <1>2
<1>11. \A i \in ToSet(ids) : Position(ids, i) \in 1 .. Len(ids) /\ ids[Position(ids, i)] = i
  BY <1>1, PositionFacts
<1>12. Len(ids) \in Nat /\ m.maxSegno[r] \in Nat
  BY <1>1, <1>3, ConstAssumption
<1>13. \A u \in Rels : \A i \in ToSet(m.list[u]) : m.status[i].segno \in 1 .. m.maxSegno[u]
  BY DEF Pool
<1>14. \A i \in ToSet(e.list[r]) : e.status[i].segno \in 1 .. e.maxSegno[r]
  <2> TAKE i \in ToSet(e.list[r])
  <2>1. CASE i \in ToSet(ids)
    BY <2>1, <1>2, <1>11, <1>12
  <2>2. CASE i \in ToSet(m.list[r])
    BY <2>2, <1>1, <1>2, <1>5, <1>12, <1>13
  <2> QED
    BY <2>1, <2>2, <1>2
<1>15. \A u \in Rels : \A i \in ToSet(e.list[u]) : e.status[i].segno \in 1 .. e.maxSegno[u]
  <2> SUFFICES ASSUME NEW u \in Rels \ {r}, NEW i \in ToSet(e.list[u])
               PROVE  e.status[i].segno \in 1 .. e.maxSegno[u]
    BY <1>14
  <2> QED
    BY <1>2, <1>5, <1>6, <1>13
<1>16. \A u \in Rels : \A i, j \in ToSet(m.list[u]) :
         m.status[i].segno = m.status[j].segno => i = j
  BY DEF Pool
<1>17. \A u \in Rels : \A i, j \in ToSet(e.list[u]) :
         e.status[i].segno = e.status[j].segno => i = j
  <2> SUFFICES ASSUME NEW u \in Rels, NEW i \in ToSet(e.list[u]), NEW j \in ToSet(e.list[u]),
                      e.status[i].segno = e.status[j].segno
               PROVE  i = j
    OBVIOUS
  <2>1. CASE u # r
    BY <2>1, <1>5, <1>6, <1>16
  <2>2. CASE u = r /\ i \in ToSet(ids) /\ j \in ToSet(ids)
    <3> DEFINE p == Position(ids, i)
               q == Position(ids, j)
    <3>1. /\ p \in 1 .. Len(ids) /\ q \in 1 .. Len(ids) /\ ids[p] = i /\ ids[q] = j
          /\ m.maxSegno[r] + p = m.maxSegno[r] + q
      BY <2>2, <1>2, <1>11
    <3> HIDE DEF p, q
    <3>2. p = q
      BY <3>1, <1>12
    <3> QED
      BY <3>1, <3>2
  <2>3. CASE u = r /\ i \in ToSet(m.list[r]) /\ j \in ToSet(m.list[r])
    BY <2>3, <1>1, <1>5, <1>16
  <2>4. CASE u = r /\ i \in ToSet(ids) /\ j \in ToSet(m.list[r])
    BY <2>4, <1>1, <1>2, <1>5, <1>11, <1>12, <1>13
  <2>5. CASE u = r /\ j \in ToSet(ids) /\ i \in ToSet(m.list[r])
    BY <2>5, <1>1, <1>2, <1>5, <1>11, <1>12, <1>13
  <2> QED
    BY <2>1, <2>2, <2>3, <2>4, <2>5, <1>2
<1> QED
  BY <1>2, <1>7, <1>8, <1>9, <1>10, <1>15, <1>17 DEF Pool

LEMMA TakenStatus ==
    ASSUME NEW st \in Status, NEW t \in Xids
    PROVE  /\ [st EXCEPT !.inuse = TRUE, !.xid = t] \in Status
           /\ [st EXCEPT !.inuse = TRUE, !.xid = t].segno = st.segno
           /\ [st EXCEPT !.inuse = TRUE, !.xid = t].latestWriteXid = st.latestWriteXid
           /\ [st EXCEPT !.inuse = TRUE, !.xid = t].xid = t
           /\ [st EXCEPT !.inuse = TRUE, !.xid = t].inuse
<1>1. t \in 0 .. MaxXid
  BY ConstAssumption DEF Xids
<1>2. [st EXCEPT !.inuse = TRUE, !.xid = t] \in Status
  BY <1>1 DEF Status
<1>3. /\ [st EXCEPT !.inuse = TRUE, !.xid = t].segno = st.segno
      /\ [st EXCEPT !.inuse = TRUE, !.xid = t].latestWriteXid = st.latestWriteXid
      /\ [st EXCEPT !.inuse = TRUE, !.xid = t].xid = t
  BY DEF Status
<1>4. [st EXCEPT !.inuse = TRUE, !.xid = t].inuse
  BY DEF Status
<1> QED
  BY <1>2, <1>3, <1>4, Zenon

LEMMA TakenFacts ==
    ASSUME NEW m, Pool(m), NEW C, NEW t \in Xids, NEW e, e = Taken(m, C, t)
    PROVE  /\ Pool(e)
           /\ e.hash = m.hash /\ e.txns = m.txns /\ e.stale = m.stale
           /\ e.list = m.list /\ e.maxSegno = m.maxSegno
           /\ \A i \in Ids \ C : e.status[i] = m.status[i]
           /\ \A i \in Ids \cap C : /\ e.status[i].segno = m.status[i].segno
                                    /\ e.status[i].latestWriteXid = m.status[i].latestWriteXid
                                    /\ e.status[i].xid = t /\ e.status[i].inuse
<1> DEFINE Use(st) == [st EXCEPT !.inuse = TRUE, !.xid = t]
           ns == [i \in Ids |-> IF i \in C THEN Use(m.status[i]) ELSE m.status[i]]
<1>1. \A i \in Ids : m.status[i] \in Status
  BY DEF Pool, Shared
<1>2. \A st \in Status : /\ Use(st) \in Status
                         /\ Use(st).segno = st.segno /\ Use(st).latestWriteXid = st.latestWriteXid
                         /\ Use(st).xid = t /\ Use(st).inuse
  BY TakenStatus
<1>3. e = [m EXCEPT !.status = ns]
  BY DEF Taken
<1> HIDE DEF Use
<1>4. ns \in [Ids -> Status]
  BY <1>1, <1>2
<1>5. \A i \in Ids : (i \notin C => ns[i] = m.status[i]) /\ (i \in C => ns[i] = Use(m.status[i]))
  OBVIOUS
<1> HIDE DEF ns
<1>6. /\ e \in Shared /\ e.status = ns
      /\ e.hash = m.hash /\ e.txns = m.txns /\ e.stale = m.stale /\ e.free = m.free
      /\ e.list = m.list /\ e.maxSegno = m.maxSegno
  BY <1>3, <1>4 DEF Pool, Shared
<1>7. \A i \in Ids \cap C : /\ e.status[i].segno = m.status[i].segno
                            /\ e.status[i].latestWriteXid = m.status[i].latestWriteXid
                            /\ e.status[i].xid = t /\ e.status[i].inuse
  BY <1>1, <1>2, <1>5, <1>6, Zenon
<1>8. \A i \in Ids \ C : e.status[i] = m.status[i]
  BY <1>5, <1>6
<1>9. \A i \in Ids : e.status[i].segno = m.status[i].segno
  BY <1>7, <1>8
<1>10. \A i \in Ids : e.status[i].xid # 0 => e.status[i].inuse
  <2>1. \A i \in Ids : m.status[i].xid # 0 => m.status[i].inuse
    BY DEF Pool
  <2> QED
    BY <2>1, <1>7, <1>8
<1>11. Pool(e)
  BY <1>6, <1>9, <1>10, PoolSameNumbers
<1> QED
  BY <1>6, <1>7, <1>8, <1>11

(* Of the statuses that a request asks about, one is the transaction's own or
   it is free and its last writer is no secret to the transaction. *)
Eligible(st, q) ==
    \/ st.xid = q.t
    \/ ~st.inuse /\ ~usedByConcurrentTransaction(st, q.t, q.hid)

LEMMA AskedFacts ==
    ASSUME NEW m, NEW q
    PROVE  /\ Asked(m, q) \subseteq ToSet(m.list[q.rel])
           /\ \A i \in Own(m, q) : m.status[i].xid = q.t
           /\ \A i \in Asked(m, q) : Eligible(m.status[i], q)
           /\ Found(m, q) \subseteq Asked(m, q)
<1>1. \A i \in Own(m, q) : i \in ToSet(m.list[q.rel]) /\ m.status[i].xid = q.t
  BY DEF Own
<1>2. \A i \in Free(m, q) : /\ i \in ToSet(m.list[q.rel])
                            /\ ~m.status[i].inuse
                            /\ ~usedByConcurrentTransaction(m.status[i], q.t, q.hid)
  BY DEF Free
<1> QED
  BY <1>1, <1>2 DEF Asked, Found, Sound, Eligible

(* A status of the entry before and after the choice for a request. *)
KeptOrTaken(so, sn, q) ==
    /\ sn.segno = so.segno /\ sn.latestWriteXid = so.latestWriteXid
    /\ \/ sn.xid = so.xid /\ (sn.inuse <=> so.inuse)
       \/ Eligible(so, q) /\ sn.xid \in {0, q.t} /\ sn.inuse

(* The file number s that a choice gives. *)
GivenBy(m, e, q, s) ==
    \E i \in ToSet(e.list[q.rel]) :
       /\ e.status[i].segno = s /\ e.status[i].xid = q.t
       /\ \/ s > m.maxSegno[q.rel]
          \/ i \in ToSet(m.list[q.rel]) /\ Eligible(m.status[i], q)

(* What a choice does to the table: m before, e after it. *)
ChoiceOf(m, e, q, given) ==
    /\ Pool(e)
    /\ \E V \in SUBSET (Unused(m) \ {q.rel}) :
         /\ e.hash = m.hash \ V
         /\ \A u \in V : e.list[u] = << >> /\ e.txns[u] = 0
         /\ \A u \in Rels \ (V \cup {q.rel}) :
              /\ e.txns[u] = m.txns[u] /\ e.stale[u] = m.stale[u]
              /\ e.maxSegno[u] = m.maxSegno[u] /\ e.list[u] = m.list[u]
    /\ e.stale[q.rel] = m.stale[q.rel]
    /\ \A u \in Rels \ {q.rel} : \A i \in ToSet(e.list[u]) : e.status[i] = m.status[i]
    /\ ToSet(m.list[q.rel]) \subseteq ToSet(e.list[q.rel])
    /\ \A i \in ToSet(m.list[q.rel]) : KeptOrTaken(m.status[i], e.status[i], q)
    /\ \A i \in ToSet(e.list[q.rel]) \ ToSet(m.list[q.rel]) : e.status[i].segno > m.maxSegno[q.rel]
    /\ \/ e.txns[q.rel] = m.txns[q.rel] + 1
       \/ /\ e.txns[q.rel] = m.txns[q.rel]
          /\ \E i \in ToSet(m.list[q.rel]) : m.status[i].xid = q.t
    /\ \A s \in given : GivenBy(m, e, q, s)

LEMMA KeptOrTakenSpoiled ==
    ASSUME NEW so, NEW sn, NEW q, Spoiled(so, sn), Eligible(so, q)
    PROVE  KeptOrTaken(so, sn, q)
    BY DEF Spoiled, Eligible, KeptOrTaken

(* The choice after an I/O error. *)
LEMMA FailedFacts ==
    ASSUME NEW m, Pool(m), NEW q, q.rel \in m.hash, NEW f
    PROVE  ChoiceOf(m, Failed(m, q, f).m, q, Failed(m, q, f).segnos)
<1> DEFINE l == m.list[q.rel]
           earlier == {i \in ToSet(l) : Position(l, i) < Position(l, f)}
           before == IF f \in Own(m, q) THEN Own(m, q) \cap earlier
                     ELSE Own(m, q) \cup (Free(m, q) \cap earlier)
           holder == Own(m, q) # {} /\ f \notin Own(m, q)
<1>1. before \subseteq Asked(m, q)
  BY DEF Asked
<1>2. PICK c : c = Checked(m, before, q.t, q.rel)
  OBVIOUS
<1>3. PICK e : e = [c EXCEPT !.txns[q.rel] = CountUser(@, holder)]
  OBVIOUS
<1>4. Failed(m, q, f).m = e /\ Failed(m, q, f).segnos = {}
  BY <1>2, <1>3 DEF Failed
<1> HIDE DEF before
<1>5. m \in Shared /\ q.rel \in Rels /\ m.hash \subseteq Rels /\ m.txns \in [Rels -> Int]
      /\ m.list \in [Rels -> Seq(Ids)]
  BY DEF Pool, Shared
<1>6. /\ c.hash = m.hash /\ c.txns = m.txns /\ c.stale = m.stale
      /\ c.list = m.list /\ c.maxSegno = m.maxSegno
      /\ \A i \in Ids \ before : c.status[i] = m.status[i]
      /\ \A i \in Ids : Spoiled(m.status[i], c.status[i])
  BY <1>2, <1>5, CheckedFacts
<1>7. Pool(c)
  BY <1>2, PoolChecked
<1> DEFINE n == CountUser(c.txns[q.rel], holder)
<1>8. n \in Int /\ n = IF holder THEN m.txns[q.rel] ELSE m.txns[q.rel] + 1
  BY <1>5, <1>6 DEF CountUser
<1>9. e = [c EXCEPT !.txns[q.rel] = n]
  BY <1>3
<1> HIDE DEF n, holder
<1>10. /\ Pool(e) /\ e.txns = [c.txns EXCEPT ![q.rel] = n]
       /\ e.hash = c.hash /\ e.status = c.status /\ e.list = c.list /\ e.free = c.free
       /\ e.stale = c.stale /\ e.maxSegno = c.maxSegno
  <2>1. PICK r, k : r = q.rel /\ k = n
    OBVIOUS
  <2>2. Pool(c) /\ r \in c.hash /\ k \in Int /\ e = WithTxns(c, r, k)
    BY <2>1, <1>6, <1>7, <1>8, <1>9 DEF WithTxns
  <2>3. /\ Pool(e) /\ e.txns = [c.txns EXCEPT ![r] = k]
        /\ e.hash = c.hash /\ e.status = c.status /\ e.list = c.list /\ e.free = c.free
        /\ e.stale = c.stale /\ e.maxSegno = c.maxSegno
    BY <2>2, CountedUser
  <2> QED
    BY <2>1, <2>3
<1>11. e.txns[q.rel] = n /\ \A u \in Rels \ {q.rel} : e.txns[u] = m.txns[u]
  BY <1>5, <1>6, <1>10
<1>12. \A u \in Rels : ToSet(m.list[u]) \subseteq Ids
  BY <1>5, ToSetFacts
<1>13. \A u \in Rels \ {q.rel} : \A i \in ToSet(e.list[u]) : e.status[i] = m.status[i]
  <2> SUFFICES ASSUME NEW u \in Rels \ {q.rel}, NEW i \in ToSet(m.list[u])
               PROVE  e.status[i] = m.status[i]
    BY <1>6, <1>10
  <2>1. i \notin ToSet(m.list[q.rel])
    BY <1>5 DEF Pool
  <2>2. i \notin before
    BY <2>1, <1>1, AskedFacts
  <2> QED
    BY <2>2, <1>6, <1>10, <1>12
<1>14. \A i \in ToSet(m.list[q.rel]) : KeptOrTaken(m.status[i], e.status[i], q)
  <2> TAKE i \in ToSet(m.list[q.rel])
  <2>1. CASE i \in before
    <3>1. Spoiled(m.status[i], e.status[i])
      BY <1>5, <1>6, <1>10, <1>12
    <3>2. Eligible(m.status[i], q)
      BY <2>1, <1>1, AskedFacts
    <3> QED
      BY <3>1, <3>2, KeptOrTakenSpoiled
  <2>2. CASE i \notin before
    <3>1. e.status[i] = m.status[i]
      BY <2>2, <1>5, <1>6, <1>10, <1>12
    <3> QED
      BY <3>1, Zenon DEF KeptOrTaken, Eligible
  <2> QED
    BY <2>1, <2>2
<1>15. \/ e.txns[q.rel] = m.txns[q.rel] + 1
       \/ /\ e.txns[q.rel] = m.txns[q.rel]
          /\ \E i \in ToSet(m.list[q.rel]) : m.status[i].xid = q.t
  <2>1. CASE holder
    <3>1. PICK i : i \in Own(m, q)
      BY <2>1 DEF holder
    <3>2. i \in ToSet(m.list[q.rel]) /\ m.status[i].xid = q.t
      BY <3>1, AskedFacts DEF Asked
    <3> QED
      BY <2>1, <3>2, <1>8, <1>11
  <2>2. CASE ~holder
    BY <2>2, <1>8, <1>11
  <2> QED
    BY <2>1, <2>2
<1>16. \E V \in SUBSET (Unused(m) \ {q.rel}) :
         /\ e.hash = m.hash \ V
         /\ \A u \in V : e.list[u] = << >> /\ e.txns[u] = 0
         /\ \A u \in Rels \ (V \cup {q.rel}) :
              /\ e.txns[u] = m.txns[u] /\ e.stale[u] = m.stale[u]
              /\ e.maxSegno[u] = m.maxSegno[u] /\ e.list[u] = m.list[u]
  <2>1. PICK V : V = {}
    OBVIOUS
  <2>2. /\ V \in SUBSET (Unused(m) \ {q.rel})
        /\ e.hash = m.hash \ V
        /\ \A u \in V : e.list[u] = << >> /\ e.txns[u] = 0
        /\ \A u \in Rels \ (V \cup {q.rel}) :
              /\ e.txns[u] = m.txns[u] /\ e.stale[u] = m.stale[u]
              /\ e.maxSegno[u] = m.maxSegno[u] /\ e.list[u] = m.list[u]
    BY <2>1, <1>6, <1>10, <1>11
  <2> QED
    BY <2>2, Zenon
<1>17. ChoiceOf(m, e, q, {})
  BY <1>6, <1>10, <1>13, <1>14, <1>15, <1>16 DEF ChoiceOf
<1> QED
  BY <1>4, <1>17

LEMMA LookedFacts ==
    ASSUME NEW m, Pool(m), NEW q, q.rel \in m.hash, NEW e, e = LookedAt(m, q)
    PROVE  /\ Pool(e)
           /\ e.hash = m.hash /\ e.stale = m.stale /\ e.list = m.list /\ e.maxSegno = m.maxSegno
           /\ \A u \in Rels \ {q.rel} : e.txns[u] = m.txns[u]
           /\ \A i \in Ids \ Asked(m, q) : e.status[i] = m.status[i]
           /\ \A i \in Ids : Spoiled(m.status[i], e.status[i])
           /\ \/ e.txns[q.rel] = m.txns[q.rel] + 1
              \/ /\ e.txns[q.rel] = m.txns[q.rel]
                 /\ \E i \in ToSet(m.list[q.rel]) : m.status[i].xid = q.t
<1>1. m \in Shared /\ q.rel \in Rels /\ m.txns \in [Rels -> Int]
  BY DEF Pool, Shared
<1>2. PICK r, n : r = q.rel /\ n = CountUser(m.txns[q.rel], Own(m, q) # {})
  OBVIOUS
<1>3. n \in Int /\ n = IF Own(m, q) # {} THEN m.txns[q.rel] ELSE m.txns[q.rel] + 1
  BY <1>1, <1>2 DEF CountUser
<1>4. PICK c : c = WithTxns(m, r, n)
  OBVIOUS
<1>5. e = Checked(c, Asked(m, q), q.t, q.rel)
  BY <1>2, <1>4 DEF LookedAt, WithTxns
<1>6. r \in m.hash
  BY <1>2
<1>7. /\ Pool(c) /\ c.txns = [m.txns EXCEPT ![r] = n]
      /\ c.hash = m.hash /\ c.status = m.status /\ c.list = m.list /\ c.free = m.free
      /\ c.stale = m.stale /\ c.maxSegno = m.maxSegno
  BY <1>3, <1>4, <1>6, CountedUser
<1>8. c \in Shared
  BY <1>7 DEF Pool
<1>9. /\ e.hash = c.hash /\ e.txns = c.txns /\ e.stale = c.stale
      /\ e.list = c.list /\ e.maxSegno = c.maxSegno
      /\ \A i \in Ids \ Asked(m, q) : e.status[i] = c.status[i]
      /\ \A i \in Ids : Spoiled(c.status[i], e.status[i])
  BY <1>5, <1>8, CheckedFacts
<1>10. Pool(e)
  BY <1>5, <1>7, PoolChecked
<1>11. e.txns[q.rel] = n /\ \A u \in Rels \ {q.rel} : e.txns[u] = m.txns[u]
  BY <1>1, <1>2, <1>7, <1>9
<1>12. \/ e.txns[q.rel] = m.txns[q.rel] + 1
       \/ /\ e.txns[q.rel] = m.txns[q.rel]
          /\ \E i \in ToSet(m.list[q.rel]) : m.status[i].xid = q.t
  <2>1. CASE Own(m, q) # {}
    <3>1. PICK i : i \in Own(m, q)
      BY <2>1
    <3>2. i \in ToSet(m.list[q.rel]) /\ m.status[i].xid = q.t
      BY <3>1, AskedFacts DEF Asked
    <3> QED
      BY <2>1, <3>2, <1>3, <1>11
  <2>2. CASE Own(m, q) = {}
    BY <2>2, <1>3, <1>11
  <2> QED
    BY <2>1, <2>2
<1> QED
  BY <1>7, <1>9, <1>10, <1>11, <1>12

(* New statuses were taken in. *)
GrowthOf(m, g, q, ids) ==
    /\ ChoiceOf(m, g, q, {})
    /\ ToSet(ids) \subseteq Ids /\ ToSet(ids) \cap ToSet(m.list[q.rel]) = {}
    /\ ToSet(g.list[q.rel]) = ToSet(ids) \cup ToSet(m.list[q.rel])
    /\ \A i \in ToSet(ids) : g.status[i].segno > m.maxSegno[q.rel]

LEMMA GrowthFacts ==
    ASSUME NEW m, Pool(m), NEW q, q.rel \in m.hash, NEW k \in Nat,
           NEW o \in AORelGetSegfileStatus(LookedAt(m, q), q.rel, k),
           m.maxSegno[q.rel] + Len(o.ids) <= MaxSegno
    PROVE  GrowthOf(m, Grown(o.m, q.rel, o.ids), q, o.ids)
<1>1. PICK e, g, r : e = LookedAt(m, q) /\ g = Grown(o.m, q.rel, o.ids) /\ r = q.rel
  OBVIOUS
<1>2. /\ Pool(e)
      /\ e.hash = m.hash /\ e.stale = m.stale /\ e.list = m.list /\ e.maxSegno = m.maxSegno
      /\ \A u \in Rels \ {r} : e.txns[u] = m.txns[u]
      /\ \A i \in Ids \ Asked(m, q) : e.status[i] = m.status[i]
      /\ \A i \in Ids : Spoiled(m.status[i], e.status[i])
      /\ \/ e.txns[r] = m.txns[r] + 1
         \/ e.txns[r] = m.txns[r] /\ \E i \in ToSet(m.list[r]) : m.status[i].xid = q.t
  BY <1>1, LookedFacts
<1>3. /\ r \in m.hash /\ r \in Rels /\ m.hash \subseteq Rels
      /\ m.list \in [Rels -> Seq(Ids)] /\ m.maxSegno \in [Rels -> 0 .. MaxSegno]
  BY <1>1 DEF Pool, Shared
<1>4. Pool(o.m) /\ Thinned(e, o.m, r) /\ Obtained(o.m, o.ids) /\ Len(o.ids) \in 0 .. k
  BY <1>1, <1>2, GetFacts
<1>5. PICK V \in SUBSET (Unused(e) \ {r}) :
        /\ o.m.hash = e.hash \ V
        /\ \A u \in V : o.m.list[u] = << >> /\ o.m.txns[u] = 0
        /\ \A u \in Rels \ V : /\ o.m.txns[u] = e.txns[u] /\ o.m.stale[u] = e.stale[u]
                               /\ o.m.maxSegno[u] = e.maxSegno[u] /\ o.m.list[u] = e.list[u]
  BY <1>4 DEF Thinned
<1>6. o.m.status = e.status
  BY <1>4 DEF Thinned
<1>7. o.m \in Shared /\ o.ids \in Seq(Ids)
  BY <1>4 DEF Pool, Obtained
<1>8. r \in Rels \ V /\ r \in o.m.hash /\ o.m.list[r] = m.list[r] /\ o.m.maxSegno[r] = m.maxSegno[r]
      /\ o.m.txns[r] = e.txns[r] /\ o.m.stale[r] = m.stale[r]
  BY <1>2, <1>3, <1>5
<1>9. GrownFrom(g, o.m, r, o.ids)
  <2>1. PICK om, os : om = o.m /\ os = o.ids
    OBVIOUS
  <2>2. om \in Shared /\ os \in Seq(Ids) /\ om.maxSegno[r] + Len(os) <= MaxSegno
    BY <2>1, <1>1, <1>7, <1>8
  <2>3. GrownFrom(Grown(om, r, os), om, r, os)
    BY <2>2, <1>3, GrownFacts
  <2> QED
    BY <2>1, <2>3, <1>1
<1>10. Pool(g)
  <2>1. PICK om, os : om = o.m /\ os = o.ids
    OBVIOUS
  <2>2. Pool(om) /\ r \in om.hash /\ Obtained(om, os) /\ GrownFrom(g, om, r, os)
    BY <2>1, <1>4, <1>8, <1>9
  <2> QED
    BY <2>2, PoolGrown
<1>11. /\ g.hash = o.m.hash /\ g.txns = o.m.txns /\ g.stale = o.m.stale
       /\ ToSet(g.list[r]) = ToSet(o.ids) \cup ToSet(o.m.list[r])
       /\ \A u \in Rels \ {r} : g.list[u] = o.m.list[u] /\ g.maxSegno[u] = o.m.maxSegno[u]
       /\ \A i \in Ids \ ToSet(o.ids) : g.status[i] = o.m.status[i]
       /\ \A i \in ToSet(o.ids) : g.status[i].segno = o.m.maxSegno[r] + Position(o.ids, i)
  BY <1>9 DEF GrownFrom
<1>12. V \in SUBSET (Unused(m) \ {r})
  <2> SUFFICES ASSUME NEW u \in V PROVE u \in Unused(m) \ {r}
    OBVIOUS
  <2>1. u # r /\ u \in e.hash /\ e.txns[u] = 0 /\ e.stale[u] = 0
    BY <1>5 DEF Unused
  <2> QED
    BY <2>1, <1>2, <1>3 DEF Unused
<1>13. /\ g.hash = m.hash \ V
       /\ \A u \in V : g.list[u] = << >> /\ g.txns[u] = 0
       /\ \A u \in Rels \ (V \cup {r}) :
            /\ g.txns[u] = m.txns[u] /\ g.stale[u] = m.stale[u]
            /\ g.maxSegno[u] = m.maxSegno[u] /\ g.list[u] = m.list[u]
  <2>1. \A u \in V : u \in Rels \ {r}
    BY <1>3, <1>12 DEF Unused
  <2> QED
    BY <2>1, <1>2, <1>5, <1>11
<1>14. \A u \in Rels : ToSet(m.list[u]) \subseteq Ids
  BY <1>3, ToSetFacts
<1>15. \A u \in Rels : ToSet(o.ids) \cap ToSet(o.m.list[u]) = {}
  BY <1>4 DEF Obtained
<1>16. \A u \in Rels \ {r} : \A i \in ToSet(g.list[u]) : g.status[i] = m.status[i]
  <2> TAKE u \in Rels \ {r}
  <2> TAKE i \in ToSet(g.list[u])
  <2>1. u \notin V
    BY <1>13, EmptyFacts
  <2>2. i \in ToSet(m.list[u]) /\ i \in ToSet(o.m.list[u])
    BY <2>1, <1>2, <1>5, <1>11
  <2>3. i \in Ids /\ i \notin ToSet(o.ids)
    BY <2>2, <1>14, <1>15
  <2>4. i \notin ToSet(m.list[r])
    BY <2>2, <1>3 DEF Pool
  <2>5. i \notin Asked(m, q)
    BY <2>4, <1>1, AskedFacts
  <2> QED
    BY <2>3, <2>5, <1>2, <1>6, <1>11
<1>17. \A i \in ToSet(m.list[r]) : KeptOrTaken(m.status[i], g.status[i], q)
  <2> TAKE i \in ToSet(m.list[r])
  <2>1. i \in Ids /\ i \notin ToSet(o.ids)
    BY <1>3, <1>8, <1>14, <1>15
  <2>2. g.status[i] = e.status[i]
    BY <2>1, <1>6, <1>11
  <2>3. CASE i \in Asked(m, q)
    <3>1. Spoiled(m.status[i], g.status[i])
      BY <2>1, <2>2, <1>2
    <3>2. Eligible(m.status[i], q)
      BY <2>3, AskedFacts
    <3> QED
      BY <3>1, <3>2, KeptOrTakenSpoiled
  <2>4. CASE i \notin Asked(m, q)
    <3>1. g.status[i] = m.status[i]
      BY <2>1, <2>2, <2>4, <1>2
    <3> QED
      BY <3>1, Zenon DEF KeptOrTaken, Eligible
  <2> QED
    BY <2>3, <2>4
<1>18. \/ g.txns[r] = m.txns[r] + 1
       \/ g.txns[r] = m.txns[r] /\ \E i \in ToSet(m.list[r]) : m.status[i].xid = q.t
  BY <1>2, <1>8, <1>11
<1>19. ToSet(o.ids) \subseteq Ids /\ ToSet(o.ids) \cap ToSet(m.list[r]) = {}
       /\ ToSet(g.list[r]) = ToSet(o.ids) \cup ToSet(m.list[r])
  BY <1>3, <1>7, <1>8, <1>11, <1>15, ToSetFacts
<1>20. \A i \in ToSet(o.ids) : g.status[i].segno > m.maxSegno[r]
  <2> TAKE i \in ToSet(o.ids)
  <2>1. Position(o.ids, i) \in 1 .. Len(o.ids)
    BY <1>7, PositionFacts
  <2>2. g.status[i].segno = m.maxSegno[r] + Position(o.ids, i)
    BY <1>8, <1>11
  <2> QED
    BY <2>1, <2>2, <1>3, <1>4, ConstAssumption
<1>21. ChoiceOf(m, g, q, {})
  <2>1. g.stale[r] = m.stale[r] /\ ToSet(m.list[r]) \subseteq ToSet(g.list[r])
    BY <1>8, <1>11
  <2>2. \A i \in ToSet(g.list[r]) \ ToSet(m.list[r]) : g.status[i].segno > m.maxSegno[r]
    BY <1>19, <1>20
  <2> QED
    BY <2>1, <2>2, <1>1, <1>10, <1>12, <1>13, <1>16, <1>17, <1>18 DEF ChoiceOf
<1> QED
  BY <1>1, <1>19, <1>20, <1>21 DEF GrowthOf

LEMMA TakeFacts ==
    ASSUME NEW m, Pool(m), NEW q, q.rel \in m.hash, q.t \in Xids, NEW g, NEW ids,
           GrowthOf(m, g, q, ids), NEW C, C \subseteq Found(m, q) \cup ToSet(ids),
           NEW S, S = {g.status[i].segno : i \in C}
    PROVE  ChoiceOf(m, Taken(g, C, q.t), q, S)
<1>1. PICK e, r, t : e = Taken(g, C, q.t) /\ r = q.rel /\ t = q.t
  OBVIOUS
<1>2. /\ Pool(g)
      /\ g.stale[r] = m.stale[r]
      /\ \A u \in Rels \ {r} : \A i \in ToSet(g.list[u]) : g.status[i] = m.status[i]
      /\ ToSet(m.list[r]) \subseteq ToSet(g.list[r])
      /\ \A i \in ToSet(m.list[r]) : KeptOrTaken(m.status[i], g.status[i], q)
      /\ \/ g.txns[r] = m.txns[r] + 1
         \/ g.txns[r] = m.txns[r] /\ \E i \in ToSet(m.list[r]) : m.status[i].xid = t
  BY <1>1 DEF GrowthOf, ChoiceOf
<1>3. PICK V \in SUBSET (Unused(m) \ {r}) :
         /\ g.hash = m.hash \ V
         /\ \A u \in V : g.list[u] = << >> /\ g.txns[u] = 0
         /\ \A u \in Rels \ (V \cup {r}) :
              /\ g.txns[u] = m.txns[u] /\ g.stale[u] = m.stale[u]
              /\ g.maxSegno[u] = m.maxSegno[u] /\ g.list[u] = m.list[u]
  BY <1>1 DEF GrowthOf, ChoiceOf
<1>4. /\ ToSet(ids) \subseteq Ids /\ ToSet(ids) \cap ToSet(m.list[r]) = {}
      /\ ToSet(g.list[r]) = ToSet(ids) \cup ToSet(m.list[r])
      /\ \A i \in ToSet(ids) : g.status[i].segno > m.maxSegno[r]
  BY <1>1 DEF GrowthOf
<1>5. r \in Rels /\ t \in Xids /\ g.list \in [Rels -> Seq(Ids)] /\ m.list \in [Rels -> Seq(Ids)]
  BY <1>1, <1>2 DEF Pool, Shared
<1>6. /\ Pool(e)
      /\ e.hash = g.hash /\ e.txns = g.txns /\ e.stale = g.stale
      /\ e.list = g.list /\ e.maxSegno = g.maxSegno
      /\ \A i \in Ids \ C : e.status[i] = g.status[i]
      /\ \A i \in Ids \cap C : /\ e.status[i].segno = g.status[i].segno
                               /\ e.status[i].latestWriteXid = g.status[i].latestWriteXid
                               /\ e.status[i].xid = t /\ e.status[i].inuse
  BY <1>1, <1>2, <1>5, TakenFacts
<1>7. \A i \in Found(m, q) : i \in ToSet(m.list[r]) /\ Eligible(m.status[i], q)
  BY <1>1, AskedFacts
<1>8. \A u \in Rels : ToSet(g.list[u]) \subseteq Ids
  BY <1>5, ToSetFacts
<1>9. C \subseteq ToSet(g.list[r]) /\ C \subseteq Ids
  BY <1>4, <1>5, <1>7, <1>8
<1>10. \A u \in Rels \ {r} : \A i \in ToSet(e.list[u]) : e.status[i] = m.status[i]
  <2> TAKE u \in Rels \ {r}
  <2> TAKE i \in ToSet(e.list[u])
  <2>1. i \in ToSet(g.list[u]) /\ i \in Ids
    BY <1>6, <1>8
  <2>2. i \notin ToSet(g.list[r])
    BY <2>1, <1>2, <1>5 DEF Pool
  <2>3. i \notin C
    BY <2>2, <1>9
  <2> QED
    BY <2>1, <2>3, <1>2, <1>6
<1>11. \A i \in ToSet(m.list[r]) : KeptOrTaken(m.status[i], e.status[i], q)
  <2> TAKE i \in ToSet(m.list[r])
  <2>1. i \in Ids /\ KeptOrTaken(m.status[i], g.status[i], q)
    BY <1>2, <1>5, <1>8
  <2>2. CASE i \in C
    <3>1. Eligible(m.status[i], q)
      BY <2>2, <1>4, <1>7
    <3>2. /\ e.status[i].segno = g.status[i].segno
          /\ e.status[i].latestWriteXid = g.status[i].latestWriteXid
          /\ e.status[i].xid = t /\ e.status[i].inuse
      BY <2>1, <2>2, <1>6
    <3> QED
      BY <2>1, <3>1, <3>2, <1>1 DEF KeptOrTaken, Eligible
  <2>3. CASE i \notin C
    BY <2>1, <2>3, <1>6
  <2> QED
    BY <2>2, <2>3
<1>12. \A s \in S : GivenBy(m, e, q, s)
  <2> SUFFICES ASSUME NEW i \in C PROVE GivenBy(m, e, q, g.status[i].segno)
    OBVIOUS
  <2>1. i \in ToSet(e.list[r]) /\ e.status[i].segno = g.status[i].segno /\ e.status[i].xid = t
    BY <1>6, <1>9
  <2>2. \/ g.status[i].segno > m.maxSegno[r]
        \/ i \in ToSet(m.list[r]) /\ Eligible(m.status[i], q)
    BY <1>4, <1>7
  <2> QED
    BY <2>1, <2>2, <1>1 DEF GivenBy
<1>13. /\ e.hash = m.hash \ V
       /\ \A u \in V : e.list[u] = << >> /\ e.txns[u] = 0
       /\ \A u \in Rels \ (V \cup {r}) :
            /\ e.txns[u] = m.txns[u] /\ e.stale[u] = m.stale[u]
            /\ e.maxSegno[u] = m.maxSegno[u] /\ e.list[u] = m.list[u]
  BY <1>3, <1>6
<1>14. /\ e.stale[r] = m.stale[r] /\ ToSet(m.list[r]) \subseteq ToSet(e.list[r])
       /\ \/ e.txns[r] = m.txns[r] + 1
          \/ e.txns[r] = m.txns[r] /\ \E i \in ToSet(m.list[r]) : m.status[i].xid = t
  BY <1>2, <1>6
<1>15. ChoiceOf(m, e, q, S)
  <2>1. \E W \in SUBSET (Unused(m) \ {q.rel}) :
          /\ e.hash = m.hash \ W
          /\ \A u \in W : e.list[u] = << >> /\ e.txns[u] = 0
          /\ \A u \in Rels \ (W \cup {q.rel}) :
               /\ e.txns[u] = m.txns[u] /\ e.stale[u] = m.stale[u]
               /\ e.maxSegno[u] = m.maxSegno[u] /\ e.list[u] = m.list[u]
    BY <1>1, <1>13, Zenon
  <2>2. \A i \in ToSet(m.list[q.rel]) : KeptOrTaken(m.status[i], e.status[i], q)
    BY <1>1, <1>11, Zenon
  <2>3. \A u \in Rels \ {q.rel} : \A i \in ToSet(e.list[u]) : e.status[i] = m.status[i]
    BY <1>1, <1>10, Zenon
  <2>4. \A i \in ToSet(e.list[q.rel]) \ ToSet(m.list[q.rel]) : e.status[i].segno > m.maxSegno[q.rel]
    <3>1. \A i \in Ids : e.status[i].segno = g.status[i].segno
      BY <1>6
    <3> QED
      BY <3>1, <1>1, <1>4, <1>6
  <2> QED
    BY <2>1, <2>2, <2>3, <2>4, <1>1, <1>6, <1>12, <1>14, Zenon DEF ChoiceOf
<1> QED
  BY <1>1, <1>15

(* All outcomes of a choice. *)
LEMMA ChooseFacts ==
    ASSUME NEW m, Pool(m), NEW q, q.rel \in m.hash, q.t \in Xids, q.n \in Nat,
           NEW o \in ChooseSegnos(m, q)
    PROVE  ChoiceOf(m, o.m, q, o.segnos)
<1>1. \/ \E k \in Missing(m, q) : \E x \in Obtainable(m, q, k) : o = Outcome(m, q, k, x)
      \/ \E f \in Measured(m, q) : o = Failed(m, q, f)
  BY DEF ChooseSegnos
<1>2. CASE \E f \in Measured(m, q) : o = Failed(m, q, f)
  BY <1>2, FailedFacts
<1>3. CASE \E k \in Missing(m, q) : \E x \in Obtainable(m, q, k) : o = Outcome(m, q, k, x)
  <2>1. PICK k \in Missing(m, q) : \E x \in Obtainable(m, q, k) : o = Outcome(m, q, k, x)
    BY <1>3
  <2>2. PICK x \in Obtainable(m, q, k) : o = Outcome(m, q, k, x)
    BY <2>1
  <2>3. k \in Nat
    BY DEF Missing
  <2>4. /\ x \in AORelGetSegfileStatus(LookedAt(m, q), q.rel, k)
        /\ m.maxSegno[q.rel] + Len(x.ids) <= MaxSegno
    BY DEF Obtainable
  <2> DEFINE G == Grown(x.m, q.rel, x.ids)
             C == Lowest(G, Found(m, q) \cup ToSet(x.ids), q.n)
  <2>5. GrowthOf(m, G, q, x.ids)
    BY <2>3, <2>4, GrowthFacts
  <2>6. C \subseteq Found(m, q) \cup ToSet(x.ids)
    BY DEF Lowest
  <2>7. CASE Len(x.ids) < k
    <3>1. o.m = G /\ o.segnos = {}
      BY <2>2, <2>7 DEF Outcome
    <3> QED
      BY <2>5, <3>1 DEF GrowthOf
  <2>8. CASE ~(Len(x.ids) < k)
    <3>1. o.m = Taken(G, C, q.t) /\ o.segnos = {G.status[i].segno : i \in C}
      BY <2>2, <2>8 DEF Outcome
    <3>2. PICK g, D, ids : g = G /\ D = C /\ ids = x.ids
      OBVIOUS
    <3> HIDE DEF G, C
    <3>3. GrowthOf(m, g, q, ids) /\ D \subseteq Found(m, q) \cup ToSet(ids)
      BY <2>5, <2>6, <3>2
    <3>4. o.segnos = {g.status[i].segno : i \in D}
      BY <3>1, <3>2
    <3>5. ChoiceOf(m, Taken(g, D, q.t), q, o.segnos)
      BY <3>3, <3>4, TakeFacts
    <3> QED
      BY <3>1, <3>2, <3>5
  <2> QED
    BY <2>7, <2>8
<1> QED
  BY <1>1, <1>2, <1>3

-----------------------------------------------------------------------------
(* The users of an entry *)

LEMMA XidsFinite ==
    ASSUME NEW S \in SUBSET Xids
    PROVE  IsFiniteSet(S) /\ Cardinality(S) \in Nat
<1>1. IsFiniteSet(Xids)
  BY FS_Interval, ConstAssumption DEF Xids
<1> QED
  BY <1>1, FS_Subset, FS_CardinalityType

LEMMA HoldersFacts ==
    ASSUME NEW m, NEW r
    PROVE  /\ Holders(m, r) \in SUBSET Xids
           /\ \A t \in Xids : t \in Holders(m, r) <=>
                \/ \E s \in Segnos : HasRow(t, r, s)
                \/ phase[t] # "done" /\ \E i \in ToSet(m.list[r]) : m.status[i].xid = t
    BY DEF Holders, Users

(* An entry that may be thrown out has no holder. *)
LEMMA NoHolder ==
    ASSUME NEW m, Counted(m), NEW r \in Unused(m) \ astray, NEW t \in Xids
    PROVE  t \notin Holders(m, r)
<1>1. Cardinality(Holders(m, r)) <= 0
  BY DEF Counted, Unused
<1>2. Holders(m, r) \in SUBSET Xids
  BY HoldersFacts
<1>3. Holders(m, r) = {}
  BY <1>1, <1>2, XidsFinite, FS_EmptySet
<1> QED
  BY <1>3

(* Entries that nobody holds may go and be made anew. *)
LEMMA RenewedKeeps ==
    ASSUME NEW m, NEW e, NEW V \in SUBSET Rels, RowsHeld(m), Counted(m),
           e.hash \subseteq m.hash \cup V, e.hash \subseteq Rels,
           \A r \in V : e.txns[r] >= 0 /\ \A i \in ToSet(e.list[r]) : e.status[i].xid = 0,
           \A r \in Rels \ V : e.txns[r] = m.txns[r] /\ e.list[r] = m.list[r],
           \A r \in Rels \ V : \A i \in ToSet(e.list[r]) : e.status[i] = m.status[i],
           \A r \in V \ astray, t \in Xids, s \in Segnos : ~HasRow(t, r, s)
    PROVE  RowsHeld(e) /\ Counted(e)
<1>1. RowsHeld(e)
  <2> SUFFICES ASSUME NEW t \in Xids, NEW r \in Rels \ astray, NEW s \in Segnos, HasRow(t, r, s)
               PROVE  HeldIn(e, t, r, s)
    BY DEF RowsHeld
  <2>1. r \notin V
    OBVIOUS
  <2>2. HeldIn(m, t, r, s)
    BY DEF RowsHeld
  <2> QED
    BY <2>1, <2>2 DEF HeldIn
<1>2. Counted(e)
  <2> SUFFICES ASSUME NEW r \in e.hash \ astray
               PROVE  Cardinality(Holders(e, r)) <= e.txns[r]
    BY DEF Counted
  <2>1. CASE r \in V
    <3>1. \A t \in Xids : t \notin Holders(e, r)
      BY <2>1, HoldersFacts DEF Xids
    <3>2. Holders(e, r) = {}
      BY <3>1, HoldersFacts
    <3> QED
      BY <3>2, <2>1, FS_EmptySet
  <2>2. CASE r \notin V
    <3>1. r \in m.hash \ astray /\ e.txns[r] = m.txns[r] /\ r \in Rels \ V
      BY <2>2
    <3>2. \A t \in Xids : t \in Holders(e, r) <=> t \in Holders(m, r)
      BY <3>1, HoldersFacts
    <3>3. Holders(e, r) = Holders(m, r)
      BY <3>2, HoldersFacts
    <3> QED
      BY <3>1, <3>3 DEF Counted
  <2> QED
    BY <2>1, <2>2
<1> QED
  BY <1>1, <1>2

LEMMA CreatedKeeps ==
    ASSUME NEW m, NEW e, NEW r \in Rels, Pool(m), Pool(e), RowsHeld(m), Counted(m),
           r \notin m.hash, Created(m, e, r)
    PROVE  RowsHeld(e) /\ Counted(e)
<1>1. PICK V \in SUBSET Unused(m) :
         /\ e.hash = (m.hash \ V) \cup {r}
         /\ \A u \in V : e.list[u] = << >> /\ e.txns[u] = 0
         /\ \A u \in Rels \ (V \cup {r}) : /\ e.txns[u] = m.txns[u] /\ e.stale[u] = m.stale[u]
                                           /\ e.maxSegno[u] = m.maxSegno[u] /\ e.list[u] = m.list[u]
  BY DEF Created
<1>2. PICK W : W = V \cup {r}
  OBVIOUS
<1>3. W \in SUBSET Rels
  BY <1>2 DEF Unused, Pool, Shared
<1>4. \A u \in W : e.txns[u] >= 0 /\ \A i \in ToSet(e.list[u]) : e.status[i].xid = 0
  BY <1>1, <1>2, EmptyFacts DEF Created
<1>5. \A u \in W \ astray, t \in Xids, s \in Segnos : ~HasRow(t, u, s)
  <2> SUFFICES ASSUME NEW u \in W \ astray, NEW t \in Xids, NEW s \in Segnos, HasRow(t, u, s)
               PROVE  FALSE
    OBVIOUS
  <2>1. CASE u \in V
    BY <2>1, NoHolder, HoldersFacts
  <2>2. CASE u = r
    <3>1. HeldIn(m, t, r, s)
      BY <2>2 DEF RowsHeld
    <3>2. ToSet(m.list[r]) = {}
      BY EmptyFacts DEF Pool
    <3> QED
      BY <3>1, <3>2 DEF HeldIn
  <2> QED
    BY <1>2, <2>1, <2>2
<1>6. \A u \in Rels \ W : \A i \in ToSet(e.list[u]) : e.status[i] = m.status[i]
  BY <1>2 DEF Created
<1>7. e.hash \subseteq m.hash \cup W /\ e.hash \subseteq Rels
  BY <1>1, <1>2 DEF Pool, Shared
<1>8. \A u \in Rels \ W : e.txns[u] = m.txns[u] /\ e.list[u] = m.list[u]
  BY <1>1, <1>2
<1> QED
  BY <1>3, <1>4, <1>5, <1>6, <1>7, <1>8, RenewedKeeps

(* A table of the same use: what is left of each entry names the same
   transactions. *)
SameUse(m, e) ==
    /\ e.hash = m.hash /\ e.txns = m.txns /\ e.list = m.list
    /\ \A i \in Ids : /\ e.status[i].segno = m.status[i].segno
                      /\ e.status[i].xid = m.status[i].xid
                      /\ e.status[i].inuse <=> m.status[i].inuse

(* No transaction ends and none has a new row. *)
NoNewRow ==
    /\ \A t \in Xids, r \in Rels, s \in Segnos : HasRow(t, r, s)' => HasRow(t, r, s)
    /\ \A t \in Xids : phase[t] = "done" => phase'[t] = "done"

LEMMA SameUseKeeps ==
    ASSUME NEW m, Pool(m), RowsHeld(m), OneHolder, Counted(m), SameUse(m, shm'), NoNewRow,
           astray' = astray
    PROVE  RowsHeld(shm)' /\ OneHolder' /\ Counted(shm)'
<1>0. PICK e : e = shm'
  OBVIOUS
<1>a. SameUse(m, e)
  BY <1>0
<1>b. \A r \in Rels : \A i \in ToSet(m.list[r]) : i \in Ids
  BY ToSetFacts DEF Pool, Shared
<1>1. RowsHeld(shm)'
  <2> SUFFICES ASSUME NEW t \in Xids, NEW r \in Rels \ astray, NEW s \in Segnos, HasRow(t, r, s)'
               PROVE  HeldIn(e, t, r, s)
    BY <1>0 DEF RowsHeld, HeldIn
  <2>1. HeldIn(m, t, r, s)
    BY DEF RowsHeld, NoNewRow
  <2> QED
    BY <1>a, <1>b, <2>1 DEF HeldIn, SameUse
<1>2. OneHolder'
  BY DEF OneHolder, NoNewRow
<1>3. Counted(shm)'
  <2> SUFFICES ASSUME NEW r \in e.hash \ astray
               PROVE  Cardinality(Holders(shm, r)') <= e.txns[r]
    BY <1>0 DEF Counted
  <2>1. r \in m.hash \ astray /\ e.txns[r] = m.txns[r] /\ r \in Rels
    BY <1>a DEF SameUse, Pool, Shared
  <2>2. Holders(shm, r)' \subseteq Holders(m, r)
    <3> SUFFICES ASSUME NEW t \in Holders(shm, r)'
                 PROVE  t \in Holders(m, r)
      OBVIOUS
    <3>1. t \in Xids
      BY DEF Holders, Users
    <3>2. \/ \E s \in Segnos : HasRow(t, r, s)'
          \/ phase'[t] # "done" /\ \E i \in ToSet(e.list[r]) : e.status[i].xid = t
      BY <1>0 DEF Holders, Users
    <3> QED
      BY <1>a, <1>b, <2>1, <3>1, <3>2, HoldersFacts DEF NoNewRow, SameUse
  <2>3. Cardinality(Holders(m, r)) <= m.txns[r]
    BY <2>1 DEF Counted
  <2>4. PICK H : H = Holders(shm, r)'
    OBVIOUS
  <2>5. H \subseteq Holders(m, r) /\ Holders(m, r) \in SUBSET Xids
    BY <2>2, <2>4, HoldersFacts
  <2>6. Cardinality(H) <= Cardinality(Holders(m, r)) /\ Cardinality(H) \in Nat
       /\ Cardinality(Holders(m, r)) \in Nat
    BY <2>5, XidsFinite, FS_Subset
  <2>7. m.txns[r] \in Int
    BY <2>1 DEF Pool, Shared
  <2> QED
    BY <2>1, <2>3, <2>4, <2>6, <2>7
<1> QED
  BY <1>1, <1>2, <1>3

(* The end of transaction t. *)
LEMMA EndKeeps ==
    ASSUME NEW t \in Xids, Pool(shm), RowsHeld(shm), OneHolder, Counted(shm),
           phase[t] = "released", phase'[t] = "done",
           astray' = astray, shm'.hash = shm.hash, shm'.list = shm.list,
           \A i \in Ids : shm.status[i].xid # t => shm'.status[i] = shm.status[i],
           \A i \in Ids : shm.status[i].xid = t => shm'.status[i].xid \in {0, t},
           \A r \in Rels : \/ shm'.txns[r] = shm.txns[r]
                           \/ /\ shm'.txns[r] = shm.txns[r] - 1
                              /\ \E i \in ToSet(shm.list[r]) : shm.status[i].xid = t,
           \A u \in Xids : u # t => view'[u] = view[u] /\ phase'[u] = phase[u]
    PROVE  RowsHeld(shm)' /\ OneHolder' /\ Counted(shm)'
<1>0. PICK m, e : m = shm /\ e = shm'
  OBVIOUS
<1>b. \A r \in Rels : \A i \in ToSet(m.list[r]) : i \in Ids
  BY <1>0, ToSetFacts DEF Pool, Shared
<1>c. \A u \in Xids, r \in Rels, s \in Segnos : HasRow(u, r, s)' => u # t /\ HasRow(u, r, s)
  BY DEF HasRow, Writing, RowIn
<1>1. RowsHeld(shm)'
  <2> SUFFICES ASSUME NEW u \in Xids, NEW r \in Rels \ astray, NEW s \in Segnos, HasRow(u, r, s)'
               PROVE  HeldIn(e, u, r, s)
    BY <1>0 DEF RowsHeld, HeldIn
  <2>1. HeldIn(m, u, r, s) /\ u # t
    BY <1>0, <1>c DEF RowsHeld
  <2>2. t # 0
    BY DEF Xids
  <2> QED
    BY <1>0, <1>b, <2>1, <2>2 DEF HeldIn
<1>2. OneHolder'
  BY <1>c DEF OneHolder
<1>3. Counted(shm)'
  <2> SUFFICES ASSUME NEW r \in e.hash \ astray
               PROVE  Cardinality(Holders(shm, r)') <= e.txns[r]
    BY <1>0 DEF Counted
  <2>1. r \in m.hash \ astray /\ r \in Rels
    BY <1>0 DEF Pool, Shared
  <2>2. Holders(shm, r)' \subseteq Holders(m, r) \ {t}
    <3> SUFFICES ASSUME NEW u \in Holders(shm, r)'
                 PROVE  u \in Holders(m, r) /\ u # t
      OBVIOUS
    <3>1. u \in Xids
      BY DEF Holders, Users
    <3>2. CASE \E s \in Segnos : HasRow(u, r, s)'
      BY <1>c, <2>1, <3>1, <3>2, HoldersFacts
    <3>3. CASE phase'[u] # "done" /\ \E i \in ToSet(e.list[r]) : e.status[i].xid = u
      <4>1. u # t /\ u # 0 /\ phase[u] # "done"
        BY <3>1, <3>3 DEF Xids
      <4>2. PICK i \in ToSet(e.list[r]) : e.status[i].xid = u
        BY <3>3
      <4>3. i \in Ids /\ i \in ToSet(m.list[r])
        BY <1>0, <1>b, <2>1
      <4>4. m.status[i].xid = u
        BY <1>0, <4>1, <4>2, <4>3
      <4> QED
        BY <3>1, <4>1, <4>3, <4>4, HoldersFacts
    <3> QED
      BY <1>0, <3>2, <3>3 DEF Holders, Users
  <2>3. Cardinality(Holders(m, r)) <= m.txns[r]
    BY <1>0, <2>1 DEF Counted
  <2>4. PICK H, G : H = Holders(shm, r)' /\ G = Holders(m, r)
    OBVIOUS
  <2>5. H \subseteq G \ {t} /\ G \in SUBSET Xids /\ IsFiniteSet(G) /\ Cardinality(G) \in Nat
    BY <2>2, <2>4, HoldersFacts, XidsFinite
  <2>6. IsFiniteSet(G \ {t}) /\ Cardinality(G \ {t}) = IF t \in G THEN Cardinality(G) - 1 ELSE Cardinality(G)
    BY <2>5, FS_RemoveElement
  <2>7. Cardinality(H) <= Cardinality(G \ {t}) /\ Cardinality(H) \in Nat
    <3>1. H \in SUBSET (G \ {t}) /\ H \in SUBSET Xids
      BY <2>5
    <3> QED
      BY <2>6, <3>1, FS_Subset, XidsFinite
  <2>8. m.txns[r] \in Int
    BY <1>0, <2>1 DEF Pool, Shared
  <2>9. \/ e.txns[r] = m.txns[r]
        \/ e.txns[r] = m.txns[r] - 1 /\ t \in G
    BY <1>0, <2>1, <2>4, HoldersFacts
  <2> QED
    BY <2>3, <2>4, <2>5, <2>6, <2>7, <2>8, <2>9
<1> QED
  BY <1>1, <1>2, <1>3

(* What transaction t's choice in table m leaves of its statement: at most the
   files given are new rows, and the entry is astray if it took in a status
   of another running transaction. *)
RowsGiven(m, q, given) ==
    /\ phase' = phase
    /\ astray \subseteq astray'
    /\ \A x \in Xids, r \in Rels, s \in Segnos :
         HasRow(x, r, s)' => HasRow(x, r, s) \/ (x = q.t /\ r = q.rel /\ s \in given)
    /\ q.rel \notin astray' =>
         \A i \in ToSet(shm'.list[q.rel]) \ ToSet(m.list[q.rel]) :
            LET x == shm'.status[i].xid IN x \in Xids \ {q.t} => phase[x] = "done"

(* Transaction t was given files of relation r, whose entry is in table m. *)
Gave(t, r, m) ==
    \E q, given : /\ q.t = t /\ q.rel = r /\ q.hid = unseen'[t]
                  /\ ChoiceOf(m, shm', q, given) /\ RowsGiven(m, q, given)

LEMMA ChosenHeld ==
    ASSUME NEW m, NEW q, NEW given, Pool(m), RowsHeld(m), OneHolder, Counted(m),
           q.t \in Xids, q.rel \in Rels,
           ChoiceOf(m, shm', q, given), RowsGiven(m, q, given)
    PROVE  RowsHeld(shm)' /\ OneHolder'
<1>0. PICK e, t, R : e = shm' /\ t = q.t /\ R = q.rel
  OBVIOUS
<1>a. ChoiceOf(m, e, q, given)
  BY <1>0
<1>b. PICK V \in SUBSET (Unused(m) \ {R}) :
         /\ e.hash = m.hash \ V
         /\ \A u \in V : e.list[u] = << >> /\ e.txns[u] = 0
         /\ \A u \in Rels \ (V \cup {R}) :
              /\ e.txns[u] = m.txns[u] /\ e.stale[u] = m.stale[u]
              /\ e.maxSegno[u] = m.maxSegno[u] /\ e.list[u] = m.list[u]
  BY <1>0, <1>a DEF ChoiceOf
<1>c. t \in Xids /\ t # 0 /\ R \in Rels
  BY <1>0 DEF Xids
<1>d. \A u \in Rels \ {R} : \A i \in ToSet(e.list[u]) : e.status[i] = m.status[i]
  BY <1>a, <1>0 DEF ChoiceOf
<1>e. \A i \in ToSet(m.list[R]) : i \in ToSet(e.list[R]) /\ i \in Ids /\ KeptOrTaken(m.status[i], e.status[i], q)
  BY <1>a, <1>0, <1>c, ToSetFacts DEF ChoiceOf, Pool, Shared
<1>f. \A i \in Ids : m.status[i].xid # 0 => m.status[i].inuse
  BY DEF Pool
<1>1. RowsHeld(shm)'
  <2> SUFFICES ASSUME NEW x \in Xids, NEW r \in Rels \ astray', NEW s \in Segnos, HasRow(x, r, s)'
               PROVE  HeldIn(e, x, r, s)
    BY <1>0 DEF RowsHeld, HeldIn
  <2>1. CASE HasRow(x, r, s)
    <3>1. r \in Rels \ astray
      BY DEF RowsGiven
    <3>2. r \notin V
      BY <2>1, <3>1, NoHolder, HoldersFacts
    <3>3. HeldIn(m, x, r, s)
      BY <2>1, <3>1 DEF RowsHeld
    <3>4. PICK i \in ToSet(m.list[r]) :
             /\ m.status[i].segno = s
             /\ \/ m.status[i].xid = x
                \/ m.status[i].xid = 0 /\ m.status[i].inuse
      BY <3>3 DEF HeldIn
    <3>5. CASE r # R
      <4>1. i \in ToSet(e.list[r]) /\ e.status[i] = m.status[i]
        BY <1>b, <1>d, <3>1, <3>2, <3>4, <3>5
      <4> QED
        BY <3>4, <4>1 DEF HeldIn
    <3>6. CASE r = R
      <4>1. i \in ToSet(e.list[r]) /\ i \in Ids /\ KeptOrTaken(m.status[i], e.status[i], q)
        BY <1>e, <3>4, <3>6
      <4>2. x # 0
        BY DEF Xids
      <4>3. e.status[i].segno = s
        BY <3>4, <4>1 DEF KeptOrTaken, Eligible
      <4>4. \/ e.status[i].xid = x
            \/ e.status[i].xid = 0 /\ e.status[i].inuse
        BY <1>c, <1>f, <3>4, <4>1, <4>2 DEF KeptOrTaken, Eligible
      <4> QED
        BY <4>1, <4>3, <4>4 DEF HeldIn
    <3> QED
      BY <3>5, <3>6
  <2>2. CASE x = t /\ r = R /\ s \in given
    <3>1. GivenBy(m, e, q, s)
      BY <1>a, <2>2 DEF ChoiceOf
    <3> QED
      BY <1>0, <2>2, <3>1 DEF GivenBy, HeldIn
  <2> QED
    BY <1>0, <2>1, <2>2 DEF RowsGiven
<1>2. ASSUME NEW u \in Xids, NEW s \in Segnos, s \in given, R \notin astray, HasRow(u, R, s)
      PROVE  u = t
  <2>1. GivenBy(m, e, q, s)
    BY <1>a, <1>2 DEF ChoiceOf
  <2>2. PICK i \in ToSet(e.list[R]) :
          /\ e.status[i].segno = s
          /\ \/ s > m.maxSegno[R]
             \/ i \in ToSet(m.list[R]) /\ Eligible(m.status[i], q)
    BY <1>0, <2>1 DEF GivenBy
  <2>3. HeldIn(m, u, R, s)
    BY <1>2, <1>c DEF RowsHeld
  <2>4. PICK j \in ToSet(m.list[R]) :
             /\ m.status[j].segno = s
             /\ \/ m.status[j].xid = u
                \/ m.status[j].xid = 0 /\ m.status[j].inuse
    BY <2>3 DEF HeldIn
  <2>5. s \in 1 .. m.maxSegno[R]
    BY <2>4, <1>c DEF Pool
  <2>a. m.maxSegno[R] \in Int
    BY <1>c, ConstAssumption DEF Pool, Shared
  <2>b. ~(s > m.maxSegno[R])
    BY <2>5, <2>a
  <2>6. i \in ToSet(m.list[R]) /\ Eligible(m.status[i], q)
    BY <2>2, <2>b
  <2>7. m.status[i].segno = s
    BY <1>e, <2>2, <2>6 DEF KeptOrTaken, Eligible
  <2>8. i = j
    BY <2>4, <2>6, <2>7, <1>c DEF Pool
  <2>9. m.status[j].xid = t \/ ~m.status[j].inuse
    BY <1>0, <2>6, <2>8 DEF Eligible
  <2>10. u # 0 /\ j \in Ids
    BY <1>e DEF Xids
  <2> QED
    BY <1>c, <1>f, <2>4, <2>9, <2>10
<1>3. OneHolder'
  <2> SUFFICES ASSUME NEW x \in Xids, NEW u \in Xids, NEW r \in Rels \ astray', NEW s \in Segnos,
                      HasRow(x, r, s)', HasRow(u, r, s)'
               PROVE  x = u
    BY DEF OneHolder
  <2>1. r \in Rels \ astray
    BY DEF RowsGiven
  <2>2. HasRow(x, r, s) \/ (x = t /\ r = R /\ s \in given)
    BY <1>0 DEF RowsGiven
  <2>3. HasRow(u, r, s) \/ (u = t /\ r = R /\ s \in given)
    BY <1>0 DEF RowsGiven
  <2> QED
    BY <1>2, <2>1, <2>2, <2>3 DEF OneHolder
<1> QED
  BY <1>1, <1>3

LEMMA ChosenCounted ==
    ASSUME NEW m, NEW q, NEW given, Pool(m), Counted(m),
           q.t \in Xids, q.rel \in m.hash, phase[q.t] = "active",
           ChoiceOf(m, shm', q, given), RowsGiven(m, q, given)
    PROVE  Counted(shm)'
<1>0. PICK e, t, R : e = shm' /\ t = q.t /\ R = q.rel
  OBVIOUS
<1>a. ChoiceOf(m, e, q, given)
  BY <1>0
<1>b. PICK V \in SUBSET (Unused(m) \ {R}) :
         /\ e.hash = m.hash \ V
         /\ \A u \in V : e.list[u] = << >> /\ e.txns[u] = 0
         /\ \A u \in Rels \ (V \cup {R}) :
              /\ e.txns[u] = m.txns[u] /\ e.stale[u] = m.stale[u]
              /\ e.maxSegno[u] = m.maxSegno[u] /\ e.list[u] = m.list[u]
  BY <1>0, <1>a DEF ChoiceOf
<1>c. t \in Xids /\ t # 0 /\ R \in Rels /\ R \in m.hash
  BY <1>0 DEF Xids, Pool, Shared
<1>d. \A u \in Rels \ {R} : \A i \in ToSet(e.list[u]) : e.status[i] = m.status[i]
  BY <1>a, <1>0 DEF ChoiceOf
<1>e. \A i \in ToSet(m.list[R]) : KeptOrTaken(m.status[i], e.status[i], q)
  BY <1>a, <1>0, <1>c DEF ChoiceOf
<1> SUFFICES ASSUME NEW r \in e.hash \ astray'
             PROVE  Cardinality(Holders(shm, r)') <= e.txns[r]
  BY <1>0 DEF Counted
<1>1. r \in m.hash \ astray /\ r \in Rels /\ r \notin V
  BY <1>b DEF RowsGiven, Pool, Shared
<1>2. PICK H, G : H = Holders(shm, r)' /\ G = Holders(m, r)
  OBVIOUS
<1>3. Cardinality(G) <= m.txns[r]
  BY <1>1, <1>2 DEF Counted
<1>4. \A x \in H : /\ x \in Xids
                   /\ \/ \E s \in Segnos : HasRow(x, r, s)'
                      \/ phase[x] # "done" /\ \E i \in ToSet(e.list[r]) : e.status[i].xid = x
  BY <1>0, <1>2 DEF Holders, Users, RowsGiven
<1>5. H \in SUBSET Xids /\ G \in SUBSET Xids /\ IsFiniteSet(G) /\ Cardinality(G) \in Nat
  BY <1>2, <1>4, HoldersFacts, XidsFinite
<1>6. m.txns[r] \in Int
  BY <1>1 DEF Pool, Shared
<1>7. CASE r # R
  <2>1. \A x \in Xids, s \in Segnos : HasRow(x, r, s)' => HasRow(x, r, s)
    BY <1>0, <1>1, <1>7 DEF RowsGiven
  <2>2. H \subseteq G
    BY <1>1, <1>2, <1>4, <1>7, <1>b, <1>d, <2>1, HoldersFacts
  <2>3. Cardinality(H) <= Cardinality(G) /\ Cardinality(H) \in Nat
    BY <2>2, <1>5, FS_Subset, XidsFinite
  <2>4. e.txns[r] = m.txns[r]
    BY <1>1, <1>7, <1>b
  <2> QED
    BY <1>2, <1>3, <1>5, <1>6, <2>3, <2>4
<1>8. CASE r = R
  <2>1. H \subseteq G \cup {t}
    <3> SUFFICES ASSUME NEW x \in H, x # t
                 PROVE  x \in G
      OBVIOUS
    <3>0. x \in Xids /\ x # 0
      BY <1>4 DEF Xids
    <3>1. CASE \E s \in Segnos : HasRow(x, r, s)'
      <4>1. PICK s \in Segnos : HasRow(x, r, s)'
        BY <3>1
      <4>2. HasRow(x, r, s)
        BY <1>0, <1>1, <3>0, <4>1 DEF RowsGiven
      <4> QED
        BY <1>2, <3>0, <4>2, HoldersFacts
    <3>2. CASE phase[x] # "done" /\ \E i \in ToSet(e.list[r]) : e.status[i].xid = x
      <4>1. PICK i \in ToSet(e.list[r]) : e.status[i].xid = x
        BY <3>2
      <4>2. i \in ToSet(m.list[R])
        BY <1>0, <1>8, <3>0, <3>2, <4>1 DEF RowsGiven
      <4>3. m.status[i].xid = x
        BY <1>0, <1>e, <3>0, <4>1, <4>2 DEF KeptOrTaken
      <4> QED
        BY <1>2, <1>8, <3>0, <3>2, <4>2, <4>3, HoldersFacts
    <3> QED
      BY <1>4, <3>1, <3>2
  <2>2. /\ IsFiniteSet(G \cup {t})
        /\ Cardinality(G \cup {t}) = IF t \in G THEN Cardinality(G) ELSE Cardinality(G) + 1
    BY <1>5, FS_AddElement
  <2>3. Cardinality(H) <= Cardinality(G \cup {t}) /\ Cardinality(H) \in Nat
    <3>1. H \in SUBSET (G \cup {t})
      BY <2>1
    <3> QED
      BY <1>5, <2>2, <3>1, FS_Subset, XidsFinite
  <2>4. \/ e.txns[R] = m.txns[R] + 1
        \/ e.txns[R] = m.txns[R] /\ \E i \in ToSet(m.list[R]) : m.status[i].xid = t
    BY <1>a, <1>0 DEF ChoiceOf
  <2>5. e.txns[R] = m.txns[R] + 1 \/ (e.txns[R] = m.txns[R] /\ t \in G)
    BY <1>0, <1>2, <1>8, <1>c, <2>4, HoldersFacts
  <2> QED
    BY <1>2, <1>3, <1>5, <1>6, <1>8, <2>2, <2>3, <2>5
<1> QED
  BY <1>7, <1>8

-----------------------------------------------------------------------------
(* The levels of a transaction *)

LEMMA TopFacts ==
    ASSUME NEW v \in Seq(Level), v # << >>
    PROVE  Len(v) \in Nat \ {0} /\ Last(v) = v[Len(v)] /\ Last(v) \in Level
    BY DEF Last

LEMMA PrefixFacts ==
    ASSUME NEW v \in Seq(Level), NEW n \in 0 .. Len(v)
    PROVE  /\ SubSeq(v, 1, n) \in Seq(Level) /\ Len(SubSeq(v, 1, n)) = n
           /\ \A k \in 1 .. n : SubSeq(v, 1, n)[k] = v[k]
    OBVIOUS

(* Levels w are the first n - 1 levels of v, and x. *)
Extends(w, v, n, x) ==
    /\ w \in Seq(Level) /\ Len(w) = n /\ w # << >> /\ Last(w) = x /\ w[n] = x
    /\ \A k \in 1 .. n : k # n => w[k] = v[k]

LEMMA PushFacts ==
    ASSUME NEW v \in Seq(Level), NEW x \in Level
    PROVE  Extends(Append(v, x), v, Len(v) + 1, x)
    BY DEF Last, Extends

LEMMA SetTopFacts ==
    ASSUME NEW v \in Seq(Level), v # << >>, NEW x \in Level
    PROVE  Extends(Append(Front(v), x), v, Len(v), x)
<1>0. Len(v) \in Nat \ {0} /\ Len(v) - 1 \in 0 .. Len(v)
  BY TopFacts
<1>1. PICK z : z = SubSeq(v, 1, Len(v) - 1)
  OBVIOUS
<1>2. /\ z \in Seq(Level) /\ Len(z) = Len(v) - 1
      /\ \A k \in 1 .. (Len(v) - 1) : z[k] = v[k]
  BY <1>0, <1>1, PrefixFacts
<1>3. z = Front(v)
  BY <1>1 DEF Front
<1>4. Extends(Append(z, x), z, Len(z) + 1, x)
  BY <1>2, PushFacts
<1>5. Len(z) + 1 = Len(v)
  BY <1>0, <1>2
<1>6. ASSUME NEW k \in 1 .. Len(v), k # Len(v)
      PROVE  z[k] = v[k]
  <2>1. k \in 1 .. (Len(v) - 1)
    BY <1>0, <1>6
  <2> QED
    BY <1>2, <2>1
<1>7. Extends(Append(z, x), z, Len(v), x)
  BY <1>4, <1>5, Zenon
<1> QED
  BY <1>3, <1>6, <1>7 DEF Extends

LEMMA PopFacts ==
    ASSUME NEW v \in Seq(Level), Len(v) > 1, NEW w, w = Front(v)
    PROVE  /\ w \in Seq(Level) /\ Len(w) = Len(v) - 1 /\ w # << >> /\ Last(w) = v[Len(v) - 1]
           /\ \A k \in 1 .. (Len(v) - 1) : w[k] = v[k]
<1>0. Len(v) \in Nat /\ Len(v) - 1 \in 0 .. Len(v) /\ Len(v) - 1 \in 1 .. (Len(v) - 1)
  OBVIOUS
<1>1. w = SubSeq(v, 1, Len(v) - 1)
  BY DEF Front
<1>2. /\ w \in Seq(Level) /\ Len(w) = Len(v) - 1
      /\ \A k \in 1 .. (Len(v) - 1) : w[k] = v[k]
  BY <1>0, <1>1, PrefixFacts
<1>3. w # << >> /\ Last(w) = v[Len(v) - 1]
  BY <1>0, <1>2 DEF Last
<1> QED
  BY <1>2, <1>3

LEMMA MergeFacts ==
    ASSUME NEW v \in Seq(Level), Len(v) > 1, NEW x \in Level
    PROVE  Extends(Append(SubSeq(v, 1, Len(v) - 2), x), v, Len(v) - 1, x)
<1>0. Len(v) \in Nat /\ Len(v) - 2 \in 0 .. Len(v)
  OBVIOUS
<1>1. PICK z : z = SubSeq(v, 1, Len(v) - 2)
  OBVIOUS
<1>2. /\ z \in Seq(Level) /\ Len(z) = Len(v) - 2
      /\ \A k \in 1 .. (Len(v) - 2) : z[k] = v[k]
  BY <1>0, <1>1, PrefixFacts
<1>4. Extends(Append(z, x), z, Len(z) + 1, x)
  BY <1>2, PushFacts
<1>5. Len(z) + 1 = Len(v) - 1
  BY <1>0, <1>2
<1>6. ASSUME NEW k \in 1 .. (Len(v) - 1), k # Len(v) - 1
      PROVE  z[k] = v[k]
  <2>1. k \in 1 .. (Len(v) - 2)
    BY <1>0, <1>6
  <2> QED
    BY <1>2, <2>1
<1>7. Extends(Append(z, x), z, Len(v) - 1, x)
  BY <1>4, <1>5, Zenon
<1> QED
  BY <1>1, <1>6, <1>7 DEF Extends

(* A level: what it wrote and truncated is locked. *)
LevelOK(x) ==
    /\ \A f \in x.rows : f[1] \in x.rowLock \cup x.exclLock
    /\ x.trunc \subseteq x.exclLock

(* Level y has the locks of level x. *)
Covers(y, x) == x.rowLock \subseteq y.rowLock /\ x.exclLock \subseteq y.exclLock

LEMMA LevelsFacts ==
    ASSUME NEW v
    PROVE  LevelsOK(v) <=>
             /\ v # << >> /\ Len(v) <= MaxLevel
             /\ \A k \in 1 .. Len(v) : LevelOK(v[k])
             /\ \A j, k \in 1 .. Len(v) : j <= k => Covers(v[k], v[j])
    BY DEF LevelsOK, LevelOK, Covers

LEMMA ExtendsOK ==
    ASSUME NEW v \in Seq(Level), LevelsOK(v), NEW x \in Level, LevelOK(x), Covers(x, Last(v)),
           NEW n \in 1 .. MaxLevel, n <= Len(v) + 1, NEW w, Extends(w, v, n, x)
    PROVE  LevelsOK(w)
<1>1. /\ v # << >> /\ Len(v) <= MaxLevel
      /\ \A k \in 1 .. Len(v) : LevelOK(v[k])
      /\ \A j, k \in 1 .. Len(v) : j <= k => Covers(v[k], v[j])
  BY LevelsFacts
<1>2. /\ Len(w) = n /\ w # << >> /\ w[n] = x
      /\ \A k \in 1 .. n : k # n => w[k] = v[k]
  BY DEF Extends
<1>3. Len(v) \in Nat \ {0} /\ Last(v) = v[Len(v)]
  BY <1>1, TopFacts
<1>4. \A k \in 1 .. n : k # n => k \in 1 .. Len(v)
  BY <1>3
<1>5. \A k \in 1 .. n : LevelOK(w[k])
  BY <1>1, <1>2, <1>4
<1>6. ASSUME NEW j \in 1 .. n, NEW k \in 1 .. n, j <= k
      PROVE  Covers(w[k], w[j])
  <2>1. CASE k # n
    <3>1. j # n
      BY <1>6, <2>1
    <3> QED
      BY <1>1, <1>2, <1>4, <1>6, <2>1, <3>1
  <2>2. CASE k = n /\ j = n
    BY <1>2, <2>2 DEF Covers
  <2>3. CASE k = n /\ j # n
    <3>1. j \in 1 .. Len(v) /\ Len(v) \in 1 .. Len(v) /\ j <= Len(v)
      BY <1>3, <1>4, <2>3
    <3>2. Covers(Last(v), v[j])
      BY <1>1, <1>3, <3>1
    <3>3. w[k] = x /\ w[j] = v[j]
      BY <1>2, <2>3
    <3> QED
      BY <3>2, <3>3 DEF Covers
  <2> QED
    BY <2>1, <2>2, <2>3
<1>7. n <= MaxLevel
  BY ConstAssumption
<1> QED
  BY <1>2, <1>5, <1>6, <1>7, LevelsFacts

LEMMA ExtendsRow ==
    ASSUME NEW v, NEW n, NEW x, NEW w, Extends(w, v, n, x), n \in Nat, Len(v) \in Nat,
           n <= Len(v) + 1, NEW r, NEW s, RowIn(w, r, s)
    PROVE  RowIn(v, r, s) \/ (<<r, s>> \in x.rows /\ r \notin x.trunc)
<1>1. PICK k \in 1 .. n : <<r, s>> \in w[k].rows /\ r \notin w[k].trunc
  BY DEF RowIn, Extends
<1>2. CASE k = n
  BY <1>1, <1>2 DEF Extends
<1>3. CASE k # n
  <2>1. w[k] = v[k] /\ k \in 1 .. Len(v)
    BY <1>3 DEF Extends
  <2> QED
    BY <1>1, <2>1 DEF RowIn
<1> QED
  BY <1>2, <1>3

(* Pending removals p become q, when level n becomes x: only removals that are
   not the ones of the levels below change. *)
PendingMoves(p, q, n, x) ==
    /\ p \in [Rels -> Nat] /\ q \in [Rels -> Nat]
    /\ \A r \in Rels : q[r] <= n
    /\ \A r \in Rels : q[r] = p[r] \/ (~(p[r] \in 1 .. (n - 1)) /\ q[r] \in {0, n})
    /\ x.trunc \subseteq Rels /\ \A r \in Rels : q[r] # 0 <=> r \in x.trunc

LEMMA ExtendsPending ==
    ASSUME NEW v, NEW n \in Nat, NEW x, NEW w, Extends(w, v, n, x), Len(v) \in Nat, n <= Len(v) + 1,
           NEW p, NEW q, PendingOK(p, v), PendingMoves(p, q, n, x)
    PROVE  PendingOK(q, w)
<1> USE DEF PendingMoves
<1>1. ASSUME NEW k \in 1 .. n
      PROVE  {r \in Rels : q[r] \in 1 .. k} = w[k].trunc
  <2>1. CASE k = n
    <3>1. \A r \in Rels : q[r] # 0 <=> q[r] \in 1 .. k
      BY <2>1
    <3> QED
      BY <2>1, <3>1 DEF Extends
  <2>2. CASE k # n
    <3>1. w[k] = v[k] /\ k \in 1 .. Len(v)
      BY <2>2 DEF Extends
    <3>2. \A r \in Rels : q[r] \in 1 .. k <=> p[r] \in 1 .. k
      BY <2>2
    <3> QED
      BY <3>1, <3>2 DEF PendingOK
  <2> QED
    BY <2>1, <2>2
<1> QED
  BY <1>1 DEF PendingOK, Extends

LEMMA PopOK ==
    ASSUME NEW v \in Seq(Level), LevelsOK(v), Len(v) > 1, NEW w, w = Front(v)
    PROVE  LevelsOK(w) /\ Covers(Last(v), Last(w))
<1>1. /\ Len(v) <= MaxLevel
      /\ \A k \in 1 .. Len(v) : LevelOK(v[k])
      /\ \A j, k \in 1 .. Len(v) : j <= k => Covers(v[k], v[j])
  BY LevelsFacts
<1>2. /\ w \in Seq(Level) /\ Len(w) = Len(v) - 1 /\ w # << >> /\ Last(w) = v[Len(v) - 1]
      /\ \A k \in 1 .. (Len(v) - 1) : w[k] = v[k]
  BY PopFacts
<1>3. Len(v) \in Nat /\ Last(v) = v[Len(v)]
  BY TopFacts DEF LevelsOK
<1>4. \A k \in 1 .. Len(w) : k \in 1 .. Len(v) /\ w[k] = v[k]
  BY <1>2, <1>3
<1>5. Len(w) <= MaxLevel
  BY <1>1, <1>2, <1>3, ConstAssumption
<1>6. LevelsOK(w)
  BY <1>1, <1>2, <1>4, <1>5, LevelsFacts
<1>7. Len(v) - 1 \in 1 .. Len(v) /\ Len(v) \in 1 .. Len(v) /\ Len(v) - 1 <= Len(v)
  BY <1>3
<1>8. Covers(v[Len(v)], v[Len(v) - 1])
  BY <1>1, <1>7
<1> QED
  BY <1>2, <1>3, <1>6, <1>8

-----------------------------------------------------------------------------
(* Steps of one transaction *)

OthersSame(t) ==
    /\ nextXid' = nextXid
    /\ \A u \in Xids : u # t => /\ phase'[u] = phase[u] /\ view'[u] = view[u]
                                /\ pending'[u] = pending[u] /\ op'[u] = op[u]

(* The levels w of transaction t fit the ones of the others. *)
Fits(t, w) ==
    \A u \in Xids : u # t /\ InProcArray(u) => Apart(w, view[u]) /\ Apart(view[u], w)

LEMMA TxnStep ==
    ASSUME TxnInv, NEW t \in Xids, phase[t] # "none", phase'[t] # "none", OthersSame(t),
           InProcArray(t)' => /\ LevelsOK(view'[t]) /\ PendingOK(pending'[t], view'[t])
                              /\ OpOK(op'[t], view'[t]) /\ Fits(t, view'[t])
    PROVE  TxnInv'
<1>1. \A u \in Xids : u >= nextXid' => phase'[u] = "none"
  BY DEF TxnInv, OthersSame
<1>2. \A u \in Xids : phase'[u] = "none" => op'[u] = Idle /\ \A r \in Rels : pending'[u][r] = 0
  BY DEF TxnInv, OthersSame
<1>3. \A u \in Xids : u # t => (InProcArray(u)' <=> InProcArray(u))
  BY DEF OthersSame, InProcArray
<1>4. \A u \in Xids : InProcArray(u)' =>
         LevelsOK(view'[u]) /\ PendingOK(pending'[u], view'[u]) /\ OpOK(op'[u], view'[u])
  <2> SUFFICES ASSUME NEW u \in Xids, InProcArray(u)'
               PROVE  LevelsOK(view'[u]) /\ PendingOK(pending'[u], view'[u]) /\ OpOK(op'[u], view'[u])
    OBVIOUS
  <2>1. CASE u # t
    <3>1. LevelsOK(view[u]) /\ PendingOK(pending[u], view[u]) /\ OpOK(op[u], view[u])
      BY <1>3, <2>1 DEF TxnInv
    <3> QED
      BY <2>1, <3>1, Zenon DEF OthersSame
  <2> QED
    BY <2>1
<1>5. \A u, x \in Xids : u # x /\ InProcArray(u)' /\ InProcArray(x)' => Apart(view'[u], view'[x])
  <2> SUFFICES ASSUME NEW u \in Xids, NEW x \in Xids, u # x, InProcArray(u)', InProcArray(x)'
               PROVE  Apart(view'[u], view'[x])
    OBVIOUS
  <2>1. CASE u = t
    BY <1>3, <2>1, Zenon DEF Fits, OthersSame
  <2>2. CASE x = t
    BY <1>3, <2>2, Zenon DEF Fits, OthersSame
  <2>3. CASE u # t /\ x # t
    BY <1>3, <2>3, Zenon DEF TxnInv, OthersSame
  <2> QED
    BY <2>1, <2>2, <2>3
<1> QED
  BY <1>1, <1>2, <1>4, <1>5 DEF TxnInv

LEMMA StaleStep ==
    ASSUME StaleInv(shm), NEW t \in Xids, OthersSame(t),
           \A u \in Xids : u # t /\ phase[u] = "active" =>
              \A r \in Top(u).trunc : r \in shm.hash /\ shm.stale[r] = u =>
                                        r \in shm'.hash /\ shm'.stale[r] = u,
           phase'[t] = "active" => \A r \in Last(view'[t]).trunc : MarkedStale(shm, t, r)'
    PROVE  StaleInv(shm)'
<1> SUFFICES ASSUME NEW u \in Xids, phase'[u] = "active", NEW r \in Last(view'[u]).trunc
             PROVE  MarkedStale(shm, u, r)'
  BY DEF StaleInv, Top
<1>1. CASE u # t
  <2>1. phase[u] = "active" /\ view'[u] = view[u] /\ pending'[u] = pending[u] /\ op'[u] = op[u]
    BY <1>1 DEF OthersSame
  <2>2. r \in Top(u).trunc
    BY <2>1 DEF Top
  <2>3. MarkedStale(shm, u, r)
    BY <2>1, <2>2 DEF StaleInv
  <2> QED
    BY <1>1, <2>1, <2>2, <2>3 DEF MarkedStale, NestLevel
<1> QED
  BY <1>1

(* A step of transaction t that gives it no row. *)
LEMMA NoNewRowStep ==
    ASSUME NEW t \in Xids, OthersSame(t), phase[t] # "done",
           Writing(t)' => /\ Writing(t)
                          /\ \A r \in Rels, s \in Segnos :
                               RowIn(view'[t], r, s) => RowIn(view[t], r, s)
    PROVE  NoNewRow
    BY DEF NoNewRow, OthersSame, HasRow, Writing

LEMMA SameUseSelf == ASSUME NEW m PROVE SameUse(m, m)
    BY DEF SameUse

LEMMA BeginTransactionInv ==
    ASSUME AoInv, BeginTransaction
    PROVE  AoInv' /\ NoNewRow
<1> DEFINE t == nextXid
<1>0. t \in Xids /\ phase[t] = "none" /\ TypeOK /\ TxnInv /\ Pool(shm)
  BY DEF AoInv, BeginTransaction, TxnInv, TypeOK
<1>1. NoWork \in Level /\ <<NoWork>> \in Seq(Level) /\ Last(<<NoWork>>) = NoWork
  BY DEF NoWork, Level, Last
<1>2. TypeOK'
  <2>1. nextXid' \in 1 .. (MaxXid + 1)
    BY <1>0, ConstAssumption DEF BeginTransaction, Xids
  <2>2. view' \in [Xids -> Seq(Level)]
    BY <1>0, <1>1 DEF BeginTransaction, TypeOK
  <2>3. phase' \in [Xids -> {"none", "active", "commit", "abort", "released", "done"}]
    BY <1>0 DEF BeginTransaction, TypeOK
  <2>4. unseen' \in [Xids -> SUBSET Xids]
    BY <1>0 DEF BeginTransaction, TypeOK
  <2>5. lost' \subseteq Xids \X Rels
    BY <1>0 DEF BeginTransaction, TypeOK, RemovedByUnseen, PendingRels
  <2> QED
    BY <1>0, <2>1, <2>2, <2>3, <2>4, <2>5 DEF BeginTransaction, TypeOK, diskVars, noteVars
<1>3. \A u \in Xids : u # t => /\ phase'[u] = phase[u] /\ view'[u] = view[u]
                               /\ pending'[u] = pending[u] /\ op'[u] = op[u]
  BY <1>0 DEF BeginTransaction, TypeOK
<1>4. /\ phase'[t] = "active" /\ view'[t] = <<NoWork>>
      /\ op'[t] = Idle /\ \A r \in Rels : pending'[t][r] = 0
      /\ shm' = shm /\ astray' = astray
  BY <1>0 DEF BeginTransaction, TypeOK, TxnInv, noteVars
<1>5. TxnInv'
  <2>1. \A u \in Xids : u >= nextXid' => phase'[u] = "none"
    <3>1. nextXid \in Int /\ nextXid' = nextXid + 1
      BY <1>0 DEF BeginTransaction, Xids
    <3>2. \A u \in Xids : u >= nextXid' => u # t /\ u >= nextXid
      BY <3>1 DEF Xids
    <3> QED
      BY <1>0, <1>3, <3>2 DEF TxnInv
  <2>2. \A u \in Xids : phase'[u] = "none" => op'[u] = Idle /\ \A r \in Rels : pending'[u][r] = 0
    BY <1>0, <1>3, <1>4 DEF TxnInv
  <2>3. LevelsOK(<<NoWork>>)
    <3>1. Len(<<NoWork>>) = 1 /\ <<NoWork>>[1] = NoWork
      OBVIOUS
    <3>2. LevelOK(NoWork) /\ Covers(NoWork, NoWork)
      BY DEF LevelOK, Covers, NoWork
    <3>3. PICK w : w = <<NoWork>>
      OBVIOUS
    <3>4. w # << >> /\ Len(w) = 1 /\ \A k \in 1 .. Len(w) : w[k] = NoWork
      BY <3>1, <3>3
    <3>5. Len(w) <= MaxLevel
      BY <3>4, ConstAssumption
    <3>6. LevelsOK(w)
      BY <3>2, <3>4, <3>5, LevelsFacts
    <3> QED
      BY <3>3, <3>6
  <2>4. PendingOK(pending'[t], <<NoWork>>)
    BY <1>4 DEF PendingOK, NoWork
  <2>5. OpOK(op'[t], <<NoWork>>)
    BY <1>4 DEF OpOK, Idle
  <2>6. \A u \in Xids : u # t => (InProcArray(u)' <=> InProcArray(u))
    BY <1>3 DEF InProcArray
  <2>7. \A u \in Xids : InProcArray(u)' =>
          LevelsOK(view'[u]) /\ PendingOK(pending'[u], view'[u]) /\ OpOK(op'[u], view'[u])
    BY <1>0, <1>3, <1>4, <2>3, <2>4, <2>5, <2>6, Zenon DEF TxnInv
  <2>8. \A v : Apart(v, <<NoWork>>) /\ Apart(<<NoWork>>, v)
    BY <1>1 DEF Apart, NoWork
  <2>9. \A u, x \in Xids : u # x /\ InProcArray(u)' /\ InProcArray(x)' => Apart(view'[u], view'[x])
    BY <1>0, <1>3, <1>4, <2>6, <2>8, Zenon DEF TxnInv
  <2> QED
    BY <2>1, <2>2, <2>7, <2>9 DEF TxnInv
<1>6. StaleInv(shm)'
  <2> SUFFICES ASSUME NEW u \in Xids, phase'[u] = "active", NEW r \in Last(view'[u]).trunc
               PROVE  MarkedStale(shm, u, r)'
    BY DEF StaleInv, Top
  <2>1. u # t
    BY <1>1, <1>4 DEF NoWork
  <2>2. MarkedStale(shm, u, r)
    BY <1>3, <2>1 DEF AoInv, StaleInv, Top
  <2> QED
    BY <1>3, <1>4, <2>1, <2>2 DEF MarkedStale, NestLevel
<1>7. NoNewRow
  <2>1. ASSUME NEW r, NEW s
        PROVE  ~RowIn(<<NoWork>>, r, s)
    BY DEF RowIn, NoWork
  <2> QED
    BY <1>3, <1>4, <1>0, <2>1 DEF NoNewRow, HasRow, Writing
<1>8. RowsHeld(shm)' /\ OneHolder' /\ Counted(shm)'
  BY <1>0, <1>4, <1>7, SameUseKeeps, SameUseSelf DEF AoInv
<1> QED
  BY <1>0, <1>2, <1>4, <1>5, <1>6, <1>7, <1>8 DEF AoInv

(* What the invariant says of a transaction that has not ended. *)
LEMMA ActiveFacts ==
    ASSUME AoInv, NEW t \in Xids, InProcArray(t)
    PROVE  /\ view[t] \in Seq(Level) /\ view[t] # << >> /\ Top(t) = Last(view[t]) /\ Top(t) \in Level
           /\ NestLevel(t) = Len(view[t]) /\ Len(view[t]) \in 1 .. MaxLevel /\ Top(t) = view[t][Len(view[t])]
           /\ LevelsOK(view[t]) /\ LevelOK(Top(t))
           /\ PendingOK(pending[t], view[t]) /\ OpOK(op[t], view[t]) /\ Fits(t, view[t])
           /\ pending[t] \in [Rels -> Nat] /\ pending[t] \in [Rels -> 0 .. MaxLevel]
           /\ \A r \in Rels : pending[t][r] # 0 <=> r \in Top(t).trunc
<1>1. view[t] \in Seq(Level) /\ pending[t] \in [Rels -> 0 .. MaxLevel]
  BY DEF AoInv, TypeOK
<1>2. LevelsOK(view[t]) /\ PendingOK(pending[t], view[t]) /\ OpOK(op[t], view[t]) /\ Fits(t, view[t])
  BY DEF AoInv, TxnInv, Fits
<1>3. view[t] # << >> /\ Len(view[t]) <= MaxLevel
  BY <1>2 DEF LevelsOK
<1>4. Len(view[t]) \in 1 .. MaxLevel /\ Top(t) = view[t][Len(view[t])] /\ Top(t) \in Level
      /\ Top(t) = Last(view[t])
  BY <1>1, <1>3, TopFacts, ConstAssumption DEF Top
<1>a. PICK v : v = view[t]
  OBVIOUS
<1>c. LevelsOK(v) /\ Top(t) = v[Len(v)] /\ PendingOK(pending[t], v) /\ Len(v) \in 1 .. MaxLevel
  BY <1>2, <1>4, <1>a, Zenon
<1>b. LevelsOK(v) /\ Top(t) = v[Len(v)] /\ PendingOK(pending[t], v) /\ Len(v) \in 1 .. Len(v)
  BY <1>c, ConstAssumption
<1>5. LevelOK(Top(t))
  BY <1>b, LevelsFacts
<1>6. pending[t] \in [Rels -> Nat]
  BY <1>1, ConstAssumption
<1>7. ASSUME NEW r \in Rels
      PROVE  pending[t][r] # 0 <=> r \in Top(t).trunc
  <2>1. pending[t][r] \in Nat /\ pending[t][r] <= Len(v)
    BY <1>b, <1>6 DEF PendingOK
  <2>2. {u \in Rels : pending[t][u] \in 1 .. Len(v)} = Top(t).trunc
    BY <1>b DEF PendingOK
  <2>3. pending[t][r] # 0 <=> pending[t][r] \in 1 .. Len(v)
    BY <2>1, <1>b
  <2> QED
    BY <2>2, <2>3
<1> QED
  BY <1>1, <1>2, <1>3, <1>4, <1>5, <1>6, <1>7 DEF NestLevel

(* When the transaction is in no statement, all it truncated is marked. *)
LEMMA ReadyFacts ==
    ASSUME AoInv, NEW t \in Xids, phase[t] = "active", op[t].kind \notin {"error", "stale"}
    PROVE  \A r \in Top(t).trunc : r \in shm.hash /\ shm.stale[r] = t
    BY DEF AoInv, StaleInv, MarkedStale

LEMMA FitsLess ==
    ASSUME NEW t, NEW v, NEW w, Fits(t, v),
           Last(w).rowLock \subseteq Last(v).rowLock, Last(w).exclLock \subseteq Last(v).exclLock
    PROVE  Fits(t, w)
<1> SUFFICES ASSUME NEW u \in Xids, u # t, InProcArray(u)
             PROVE  Apart(w, view[u]) /\ Apart(view[u], w)
  BY DEF Fits
<1>1. Apart(v, view[u]) /\ Apart(view[u], v)
  BY DEF Fits
<1> QED
  BY <1>1 DEF Apart

LEMMA RowInTop ==
    ASSUME NEW v \in Seq(Level), LevelsOK(v), NEW r, NEW s,
           <<r, s>> \in Last(v).rows, r \notin Last(v).trunc
    PROVE  RowIn(v, r, s)
<1>1. Len(v) \in 1 .. Len(v) /\ Last(v) = v[Len(v)]
  BY TopFacts DEF LevelsOK
<1> QED
  BY <1>1 DEF RowIn

LEMMA BeginSubTransactionInv ==
    ASSUME AoInv, NEW t \in Xids, BeginSubTransaction(t)
    PROVE  AoInv' /\ NoNewRow
<1>0. /\ phase[t] = "active" /\ op[t].kind = "none" /\ NestLevel(t) < MaxLevel /\ InProcArray(t)
      /\ TypeOK /\ TxnInv /\ Pool(shm)
      /\ shm' = shm /\ phase' = phase /\ pending' = pending /\ op' = op /\ nextXid' = nextXid
      /\ astray' = astray
  BY DEF AoInv, BeginSubTransaction, Ready, InProcArray, noteVars
<1>1. PICK v, x, w : v = view[t] /\ x = [Top(t) EXCEPT !.dirty = {}] /\ w = Append(v, x)
  OBVIOUS
<1>2. view' = [view EXCEPT ![t] = w] /\ view'[t] = w /\ \A u \in Xids : u # t => view'[u] = view[u]
  BY <1>0, <1>1 DEF BeginSubTransaction, TypeOK
<1>3. /\ x \in Level /\ x.trunc = Top(t).trunc /\ x.rows = Top(t).rows
      /\ x.rowLock = Top(t).rowLock /\ x.exclLock = Top(t).exclLock
  BY <1>0, <1>1, ActiveFacts DEF Level
<1>4. /\ v \in Seq(Level) /\ LevelsOK(v) /\ Len(v) \in 1 .. MaxLevel /\ LevelOK(Top(t)) /\ Top(t) = Last(v)
      /\ PendingOK(pending[t], v) /\ pending[t] \in [Rels -> Nat] /\ Len(v) < MaxLevel
  BY <1>0, <1>1, ActiveFacts
<1>5. Extends(w, v, Len(v) + 1, x)
  BY <1>1, <1>3, <1>4, PushFacts
<1>n. PICK n : n = Len(v) + 1
  OBVIOUS
<1>6. Extends(w, v, n, x) /\ n \in 1 .. MaxLevel /\ n <= Len(v) + 1 /\ n \in Nat /\ Len(v) \in Nat
  BY <1>4, <1>5, <1>n, ConstAssumption
<1>7. TypeOK'
  <2>1. w \in Seq(Level)
    BY <1>6 DEF Extends
  <2>2. view' \in [Xids -> Seq(Level)]
    BY <1>0, <1>2, <2>1 DEF TypeOK
  <2> QED
    BY <1>0, <2>2 DEF BeginSubTransaction, TypeOK, diskVars, noteVars
<1>8. LevelOK(x) /\ Covers(x, Last(v))
  BY <1>3, <1>4 DEF LevelOK, Covers
<1>9. LevelsOK(w)
  BY <1>3, <1>4, <1>6, <1>8, ExtendsOK
<1>10. PendingOK(pending[t], w)
  <2>1. \A r \in Rels : pending[t][r] <= n
    BY <1>4, <1>6, <1>n DEF PendingOK
  <2>2. x.trunc \subseteq Rels /\ \A r \in Rels : pending[t][r] # 0 <=> r \in x.trunc
    BY <1>0, <1>3, ActiveFacts DEF Level
  <2>3. PICK p : p = pending[t]
    OBVIOUS
  <2>5. /\ p \in [Rels -> Nat] /\ PendingOK(p, v) /\ \A r \in Rels : p[r] <= n
        /\ \A r \in Rels : p[r] # 0 <=> r \in x.trunc
    BY <1>4, <2>1, <2>2, <2>3
  <2>6. PendingMoves(p, p, n, x)
    BY <2>2, <2>5 DEF PendingMoves
  <2>4. PendingOK(p, w)
    BY <1>6, <2>5, <2>6, ExtendsPending
  <2> QED
    BY <2>3, <2>4
<1>11. OthersSame(t)
  BY <1>0, <1>2 DEF OthersSame
<1>12. TxnInv'
  <2>1. Last(w) = x
    BY <1>6 DEF Extends
  <2>4. Fits(t, v)
    BY <1>0, <1>1, ActiveFacts
  <2>2. Fits(t, w)
    BY <1>3, <1>4, <2>1, <2>4, FitsLess
  <2>3. OpOK(op[t], w)
    BY <1>0 DEF OpOK
  <2> QED
    BY <1>0, <1>2, <1>9, <1>10, <1>11, <2>2, <2>3, TxnStep
<1>13. StaleInv(shm)'
  <2>1. \A r \in Last(w).trunc : MarkedStale(shm, t, r)'
    BY <1>0, <1>3, <1>6, ReadyFacts DEF Extends, MarkedStale
  <2> QED
    BY <1>0, <1>2, <1>11, <2>1, StaleStep DEF AoInv
<1>14. NoNewRow
  <2>1. ASSUME NEW r \in Rels, NEW s \in Segnos, RowIn(w, r, s)
        PROVE  RowIn(v, r, s)
    <3>1. RowIn(v, r, s) \/ (<<r, s>> \in x.rows /\ r \notin x.trunc)
      BY <1>6, <2>1, ExtendsRow
    <3> QED
      BY <1>3, <1>4, <3>1, RowInTop
  <2> QED
    BY <1>0, <1>1, <1>2, <1>11, <2>1, NoNewRowStep DEF Writing
<1>15. RowsHeld(shm)' /\ OneHolder' /\ Counted(shm)'
  BY <1>0, <1>14, SameUseKeeps, SameUseSelf DEF AoInv
<1> QED
  BY <1>0, <1>7, <1>12, <1>13, <1>14, <1>15 DEF AoInv

(* A transaction leaves the process array. *)
LEMMA LeavesInv ==
    ASSUME AoInv, NEW t \in Xids, phase[t] \in {"commit", "abort"},
           phase' = [phase EXCEPT ![t] = "released"],
           nextXid' = nextXid, view' = view, pending' = pending, op' = op,
           shm' = shm, astray' = astray, TypeOK'
    PROVE  AoInv'
<1>0. TypeOK /\ TxnInv /\ Pool(shm) /\ phase \in [Xids -> {"none", "active", "commit", "abort", "released", "done"}]
  BY DEF AoInv, TypeOK
<1>1. phase'[t] = "released" /\ \A u \in Xids : u # t => phase'[u] = phase[u]
  BY <1>0
<1>2. OthersSame(t)
  BY <1>1 DEF OthersSame
<1>3. TxnInv'
  BY <1>0, <1>1, <1>2, TxnStep DEF InProcArray
<1>4. StaleInv(shm)'
  BY <1>1, <1>2, StaleStep DEF AoInv
<1>5. NoNewRow
  BY <1>1, <1>2, NoNewRowStep DEF Writing
<1>6. RowsHeld(shm)' /\ OneHolder' /\ Counted(shm)'
  BY <1>0, <1>5, SameUseKeeps, SameUseSelf DEF AoInv
<1> QED
  BY <1>0, <1>3, <1>4, <1>6 DEF AoInv

LEMMA RecordTransactionCommitInv ==
    ASSUME AoInv, NEW t \in Xids, RecordTransactionCommit(t)
    PROVE  AoInv'
<1>1. TypeOK
  BY DEF AoInv
<1>2. phase' = [phase EXCEPT ![t] = "released"] /\ phase[t] = "commit"
  BY DEF RecordTransactionCommit
<1>3. /\ nextXid' = nextXid /\ view' = view /\ pending' = pending /\ op' = op /\ aoLock' = aoLock
      /\ shm' = shm /\ astray' = astray /\ unchecked' = unchecked
      /\ unseen' = unseen /\ stmts' = stmts /\ lost' = lost
  BY DEF RecordTransactionCommit, noteVars
<1>4. catalog' \in [Rels -> [Segnos -> NoRow .. MaxXid]]
  <2>1. t \in NoRow .. MaxXid /\ NoRow \in NoRow .. MaxXid
    BY ConstAssumption DEF NoRow, Xids
  <2>2. \A r \in Rels, s \in Segnos : catalog[r][s] \in NoRow .. MaxXid
    BY <1>1 DEF TypeOK
  <2> QED
    BY <2>1, <2>2 DEF RecordTransactionCommit
<1>5. garbage' \subseteq Files
  BY <1>1 DEF RecordTransactionCommit, TypeOK
<1>6. phase' \in [Xids -> {"none", "active", "commit", "abort", "released", "done"}]
  BY <1>1, <1>2 DEF TypeOK
<1>7. TypeOK'
  BY <1>1, <1>3, <1>4, <1>5, <1>6 DEF TypeOK
<1> QED
  BY <1>2, <1>3, <1>7, LeavesInv

LEMMA RecordTransactionAbortInv ==
    ASSUME AoInv, NEW t \in Xids, RecordTransactionAbort(t)
    PROVE  AoInv'
<1>1. TypeOK /\ InProcArray(t)
  BY DEF AoInv, RecordTransactionAbort, InProcArray
<1>2. phase' = [phase EXCEPT ![t] = "released"] /\ phase[t] = "abort"
  BY DEF RecordTransactionAbort
<1>3. /\ nextXid' = nextXid /\ view' = view /\ pending' = pending /\ op' = op /\ aoLock' = aoLock
      /\ shm' = shm /\ astray' = astray /\ unchecked' = unchecked /\ catalog' = catalog
      /\ unseen' = unseen /\ stmts' = stmts /\ lost' = lost
  BY DEF RecordTransactionAbort, noteVars
<1>5. garbage' \subseteq Files
  <2>1. view[t] \in Seq(Level) /\ NestLevel(t) = Len(view[t])
    BY <1>1, ActiveFacts
  <2>2. \A i \in 1 .. NestLevel(t) : view[t][i].dirty \subseteq Files
    <3>1. \A i \in 1 .. NestLevel(t) : view[t][i] \in Level
      BY <2>1
    <3> QED
      BY <3>1 DEF Level
  <2>3. UNION {view[t][i].dirty : i \in 1 .. NestLevel(t)} \subseteq Files
    BY <2>2
  <2> QED
    BY <1>1, <2>3 DEF RecordTransactionAbort, TypeOK
<1>6. phase' \in [Xids -> {"none", "active", "commit", "abort", "released", "done"}]
  BY <1>1, <1>2 DEF TypeOK
<1>7. TypeOK'
  BY <1>1, <1>3, <1>5, <1>6 DEF TypeOK
<1> QED
  BY <1>2, <1>3, <1>7, LeavesInv

(* New marks, new statuses, new counts in the table. *)
LEMMA PoolStale ==
    ASSUME NEW m, Pool(m), NEW y \in [Rels -> 0 .. MaxXid], NEW e, e = [m EXCEPT !.stale = y]
    PROVE  Pool(e) /\ SameUse(m, e) /\ e.stale = y /\ e.status = m.status
<1>1. /\ e \in Shared /\ e.hash = m.hash /\ e.txns = m.txns /\ e.free = m.free
      /\ e.list = m.list /\ e.maxSegno = m.maxSegno /\ e.status = m.status /\ e.stale = y
  BY DEF Pool, Shared
<1>2. \A i \in Ids : e.status[i].xid # 0 => e.status[i].inuse
  BY <1>1 DEF Pool
<1>3. Pool(e)
  BY <1>1, <1>2, PoolSameNumbers
<1> QED
  BY <1>1, <1>3 DEF SameUse

LEMMA PoolStatuses ==
    ASSUME NEW m, Pool(m), NEW ns \in [Ids -> Status], NEW e, e = [m EXCEPT !.status = ns],
           \A i \in Ids : ns[i].segno = m.status[i].segno /\ ns[i].xid = m.status[i].xid,
           \A i \in Ids : ns[i].inuse <=> m.status[i].inuse
    PROVE  Pool(e) /\ SameUse(m, e) /\ e.stale = m.stale /\ e.hash = m.hash
<1>1. /\ e \in Shared /\ e.hash = m.hash /\ e.txns = m.txns /\ e.free = m.free
      /\ e.list = m.list /\ e.maxSegno = m.maxSegno /\ e.status = ns /\ e.stale = m.stale
  BY DEF Pool, Shared
<1>2. \A i \in Ids : m.status[i].xid # 0 => m.status[i].inuse
  BY DEF Pool
<1>3. \A i \in Ids : ns[i].xid # 0 => ns[i].inuse
  BY <1>2
<1>4. \A i \in Ids : e.status[i].segno = m.status[i].segno /\ (e.status[i].xid # 0 => e.status[i].inuse)
  BY <1>1, <1>3
<1>5. Pool(e)
  BY <1>1, <1>4, PoolSameNumbers
<1>6. \A i \in Ids : /\ e.status[i].segno = m.status[i].segno
                    /\ e.status[i].xid = m.status[i].xid
                    /\ e.status[i].inuse <=> m.status[i].inuse
  BY <1>1
<1>7. SameUse(m, e)
  BY <1>1, <1>6 DEF SameUse
<1> QED
  BY <1>1, <1>5, <1>7

LEMMA WrittenStatus ==
    ASSUME NEW st \in Status, NEW t \in Xids
    PROVE  /\ Written(st, t) \in Status
           /\ Written(st, t).segno = st.segno /\ Written(st, t).xid = st.xid
           /\ Written(st, t).inuse <=> st.inuse
<1>1. t \in 0 .. MaxXid
  BY ConstAssumption DEF Xids
<1>2. Written(st, t) \in Status
  BY <1>1 DEF Status, Written
<1>3. Written(st, t).segno = st.segno /\ Written(st, t).xid = st.xid
  BY DEF Status, Written
<1>4. Written(st, t).inuse = st.inuse
  BY DEF Status, Written
<1> QED
  BY <1>2, <1>3, <1>4, Zenon

LEMMA DistrustedStatus ==
    ASSUME NEW st \in Status
    PROVE  /\ Distrusted(st) \in Status
           /\ Distrusted(st).segno = st.segno /\ Distrusted(st).xid = st.xid
           /\ Distrusted(st).inuse <=> st.inuse
<1>2. Distrusted(st) \in Status
  BY DEF Status, Distrusted
<1>3. Distrusted(st).segno = st.segno /\ Distrusted(st).xid = st.xid
  BY DEF Status, Distrusted
<1>4. Distrusted(st).inuse = st.inuse
  BY DEF Status, Distrusted
<1> QED
  BY <1>2, <1>3, <1>4, Zenon

(* The statuses of the files C of a transaction that aborts. *)
LEMMA PoolDistrusted ==
    ASSUME NEW m, Pool(m), NEW C,
           NEW e, e = [m EXCEPT !.status = [i \in Ids |-> IF i \in C THEN Distrusted(m.status[i]) ELSE m.status[i]]]
    PROVE  Pool(e) /\ SameUse(m, e) /\ e.stale = m.stale /\ e.hash = m.hash
<1> DEFINE ns == [i \in Ids |-> IF i \in C THEN Distrusted(m.status[i]) ELSE m.status[i]]
<1>1. \A i \in Ids : m.status[i] \in Status
  BY DEF Pool, Shared
<1>2. ns \in [Ids -> Status]
  BY <1>1, DistrustedStatus
<1>3. \A i \in Ids : ns[i] = m.status[i] \/ ns[i] = Distrusted(m.status[i])
  OBVIOUS
<1>4. e = [m EXCEPT !.status = ns]
  OBVIOUS
<1> HIDE DEF ns
<1>5. \A i \in Ids : ns[i].segno = m.status[i].segno /\ ns[i].xid = m.status[i].xid
  BY <1>1, <1>3, DistrustedStatus
<1>6. \A i \in Ids : ns[i].inuse <=> m.status[i].inuse
  <2> SUFFICES ASSUME NEW i \in Ids
               PROVE  ns[i].inuse <=> m.status[i].inuse
    OBVIOUS
  <2>1. Distrusted(m.status[i]).inuse <=> m.status[i].inuse
    BY <1>1, DistrustedStatus
  <2> QED
    BY <1>3, <2>1, Zenon
<1> QED
  BY <1>2, <1>4, <1>5, <1>6, PoolStatuses

(* And of one that commits. *)
LEMMA PoolWritten ==
    ASSUME NEW m, Pool(m), NEW C, NEW t \in Xids,
           NEW e, e = [m EXCEPT !.status = [i \in Ids |-> IF i \in C THEN Written(m.status[i], t) ELSE m.status[i]]]
    PROVE  Pool(e) /\ SameUse(m, e) /\ e.stale = m.stale /\ e.hash = m.hash
<1> DEFINE ns == [i \in Ids |-> IF i \in C THEN Written(m.status[i], t) ELSE m.status[i]]
<1>1. \A i \in Ids : m.status[i] \in Status
  BY DEF Pool, Shared
<1>2. ns \in [Ids -> Status]
  BY <1>1, WrittenStatus
<1>3. \A i \in Ids : ns[i] = m.status[i] \/ ns[i] = Written(m.status[i], t)
  OBVIOUS
<1>4. e = [m EXCEPT !.status = ns]
  OBVIOUS
<1> HIDE DEF ns
<1>5. \A i \in Ids : ns[i].segno = m.status[i].segno /\ ns[i].xid = m.status[i].xid
  BY <1>1, <1>3, WrittenStatus
<1>6. \A i \in Ids : ns[i].inuse <=> m.status[i].inuse
  <2> SUFFICES ASSUME NEW i \in Ids
               PROVE  ns[i].inuse <=> m.status[i].inuse
    OBVIOUS
  <2>1. Written(m.status[i], t).inuse <=> m.status[i].inuse
    BY <1>1, WrittenStatus
  <2> QED
    BY <1>3, <2>1, Zenon
<1> QED
  BY <1>2, <1>4, <1>5, <1>6, PoolStatuses

(* The table e is the table m after transaction t has let go of it. *)
LetGo(m, e, t) ==
    /\ Pool(e) /\ e.hash = m.hash /\ e.list = m.list /\ e.stale = m.stale
    /\ \A i \in Ids : m.status[i].xid # t => e.status[i] = m.status[i]
    /\ \A i \in Ids : m.status[i].xid = t => e.status[i].xid \in {0, t}
    /\ \A r \in Rels : \/ e.txns[r] = m.txns[r]
                       \/ /\ e.txns[r] = m.txns[r] - 1
                          /\ \E i \in ToSet(m.list[r]) : m.status[i].xid = t

LEMMA ReleasedStatus ==
    ASSUME NEW st \in Status
    PROVE  Released(st) \in Status /\ Released(st).segno = st.segno /\ Released(st).xid = 0
<1>1. 0 \in 0 .. MaxXid
  BY ConstAssumption
<1> QED
  BY <1>1 DEF Status, Released

LEMMA LetGoFacts ==
    ASSUME NEW m, Pool(m), NEW t \in Xids, NEW mine \in SUBSET m.hash, NEW C,
           \A r \in mine : \E i \in ToSet(m.list[r]) : m.status[i].xid = t,
           \A i \in C : m.status[i].xid = t,
           NEW e, e = [m EXCEPT !.status = [i \in Ids |-> IF i \in C THEN Released(m.status[i]) ELSE m.status[i]],
                                !.txns = [r \in Rels |-> IF r \in mine THEN m.txns[r] - 1 ELSE m.txns[r]]]
    PROVE  LetGo(m, e, t)
<1> DEFINE ns == [i \in Ids |-> IF i \in C THEN Released(m.status[i]) ELSE m.status[i]]
           ts == [r \in Rels |-> IF r \in mine THEN m.txns[r] - 1 ELSE m.txns[r]]
<1>0. m \in Shared /\ m.txns \in [Rels -> Int]
  BY DEF Pool, Shared
<1>1. \A i \in Ids : m.status[i] \in Status
  BY <1>0 DEF Shared
<1>2. ns \in [Ids -> Status]
  BY <1>1, ReleasedStatus
<1>3. ts \in [Rels -> Int]
  BY <1>0
<1>4. \A r \in Rels : /\ r \notin mine => ts[r] = m.txns[r]
                      /\ r \in mine => ts[r] = m.txns[r] - 1
  BY <1>0
<1>5. \A i \in Ids : /\ i \notin C => ns[i] = m.status[i]
                     /\ i \in C => ns[i] = Released(m.status[i])
  OBVIOUS
<1>a. e = [m EXCEPT !.status = ns, !.txns = ts]
  OBVIOUS
<1> HIDE DEF ns, ts
<1>6. \A i \in Ids : ns[i].segno = m.status[i].segno
  BY <1>1, <1>5, ReleasedStatus
<1>7. \A i \in Ids \cap C : ns[i].xid = 0
  BY <1>1, <1>5, ReleasedStatus
<1>8. /\ e \in Shared /\ e.hash = m.hash /\ e.list = m.list /\ e.free = m.free /\ e.stale = m.stale
      /\ e.maxSegno = m.maxSegno /\ e.status = ns /\ e.txns = ts
  BY <1>0, <1>2, <1>3, <1>a DEF Shared
<1>9. PICK d : d = [m EXCEPT !.status = ns]
  OBVIOUS
<1>10. /\ d \in Shared /\ d.hash = m.hash /\ d.list = m.list /\ d.free = m.free /\ d.txns = m.txns
       /\ d.maxSegno = m.maxSegno /\ d.status = ns
  BY <1>0, <1>2, <1>9 DEF Shared
<1>11. \A i \in Ids : ns[i].xid # 0 => ns[i].inuse
  <2>1. \A i \in Ids : m.status[i].xid # 0 => m.status[i].inuse
    BY DEF Pool
  <2> QED
    BY <1>5, <1>7, <2>1
<1>12. Pool(d)
  <2>1. \A i \in Ids : d.status[i].segno = m.status[i].segno /\ (d.status[i].xid # 0 => d.status[i].inuse)
    BY <1>6, <1>10, <1>11
  <2> QED
    BY <1>10, <2>1, PoolSameNumbers
<1>13. Pool(e)
  <2>1. \A r \in Rels \ m.hash : e.list[r] = << >> /\ e.txns[r] = 0
    BY <1>4, <1>8 DEF Pool
  <2>2. \A r \in Rels : \A i, j \in ToSet(e.list[r]) : e.status[i].segno = e.status[j].segno => i = j
    <3>1. \A r \in Rels : \A i, j \in ToSet(d.list[r]) : d.status[i].segno = d.status[j].segno => i = j
      BY <1>12 DEF Pool
    <3> SUFFICES ASSUME NEW r \in Rels, NEW i \in ToSet(e.list[r]), NEW j \in ToSet(e.list[r]),
                        e.status[i].segno = e.status[j].segno
                 PROVE  i = j
      OBVIOUS
    <3>2. i \in ToSet(d.list[r]) /\ j \in ToSet(d.list[r]) /\ d.status[i].segno = d.status[j].segno
      BY <1>8, <1>10
    <3> QED
      BY <3>1, <3>2
  <2>3. /\ \A r \in Rels : ToSet(e.list[r]) \cap e.free = {}
        /\ \A r, u \in Rels : r # u => ToSet(e.list[r]) \cap ToSet(e.list[u]) = {}
    BY <1>8 DEF Pool
  <2>4. \A r \in Rels : \A i \in ToSet(e.list[r]) : e.status[i].segno \in 1 .. e.maxSegno[r]
    <3>1. \A r \in Rels : \A i \in ToSet(d.list[r]) : d.status[i].segno \in 1 .. d.maxSegno[r]
      BY <1>12 DEF Pool
    <3> QED
      BY <1>8, <1>10, <3>1
  <2>5. \A i \in Ids : e.status[i].xid # 0 => e.status[i].inuse
    BY <1>8, <1>11
  <2>6. \A r \in Rels \ e.hash : e.list[r] = << >> /\ e.txns[r] = 0
    BY <1>8, <2>1
  <2>7. e \in Shared
    BY <1>8
  <2> QED
    BY <2>2, <2>3, <2>4, <2>5, <2>6, <2>7, Zenon DEF Pool
<1>14. \A i \in Ids : m.status[i].xid # t => e.status[i] = m.status[i]
  BY <1>5, <1>8
<1>15. \A i \in Ids : m.status[i].xid = t => e.status[i].xid \in {0, t}
  BY <1>5, <1>7, <1>8
<1>16. \A r \in Rels : \/ e.txns[r] = m.txns[r]
                       \/ /\ e.txns[r] = m.txns[r] - 1
                          /\ \E i \in ToSet(m.list[r]) : m.status[i].xid = t
  BY <1>4, <1>8
<1> QED
  BY <1>8, <1>13, <1>14, <1>15, <1>16, Zenon DEF LetGo

LEMMA AtEOXactInv ==
    ASSUME AoInv, NEW t \in Xids, AtEOXact_AppendOnly(t)
    PROVE  AoInv'
<1> DEFINE mine == {r \in shm.hash : /\ shm.txns[r] > 0
                                     /\ \E i \in ToSet(shm.list[r]) : shm.status[i].xid = t}
<1>0. TypeOK /\ TxnInv /\ Pool(shm) /\ StaleInv(shm) /\ phase[t] = "released"
      /\ phase \in [Xids -> {"none", "active", "commit", "abort", "released", "done"}]
  BY DEF AoInv, TypeOK, AtEOXact_AppendOnly
<1>1. LetGo(shm, shm', t)
  <2>1. PICK M, C, m, e : M = mine /\ C = OwnIds(shm, t) /\ m = shm /\ e = shm'
    OBVIOUS
  <2>2. e = [m EXCEPT !.status = [i \in Ids |-> IF i \in C THEN Released(m.status[i]) ELSE m.status[i]],
                      !.txns = [r \in Rels |-> IF r \in M THEN m.txns[r] - 1 ELSE m.txns[r]]]
    BY <2>1 DEF AtEOXact_AppendOnly
  <2>3. M \in SUBSET m.hash /\ \A r \in M : \E i \in ToSet(m.list[r]) : m.status[i].xid = t
    BY <2>1
  <2>4. \A i \in C : m.status[i].xid = t
    BY <2>1 DEF OwnIds
  <2>5. Pool(m)
    BY <1>0, <2>1
  <2>6. LetGo(m, e, t)
    BY <2>2, <2>3, <2>4, <2>5, LetGoFacts
  <2> QED
    BY <2>1, <2>6
<1>2. /\ phase' = [phase EXCEPT ![t] = "done"]
      /\ view' = [view EXCEPT ![t] = << >>]
      /\ unseen' = [unseen EXCEPT ![t] = {}]
      /\ pending' = [pending EXCEPT ![t] = [r \in Rels |-> 0]]
      /\ lost' \subseteq lost
      /\ aoLock' = aoLock /\ catalog' = catalog /\ garbage' = garbage /\ nextXid' = nextXid
      /\ op' = op /\ stmts' = stmts /\ astray' = astray /\ unchecked' = unchecked
  BY DEF AtEOXact_AppendOnly, diskVars, noteVars
<1>3. Pool(shm)'
  BY <1>1 DEF LetGo, Pool
<1>4. TypeOK'
  <2>1. << >> \in Seq(Level)
    BY EmptyFacts
  <2>2. view' \in [Xids -> Seq(Level)]
    BY <1>0, <1>2, <2>1 DEF TypeOK
  <2>3. pending' \in [Xids -> [Rels -> 0 .. MaxLevel]]
    <3>1. [r \in Rels |-> 0] \in [Rels -> 0 .. MaxLevel]
      BY ConstAssumption
    <3> QED
      BY <1>0, <1>2, <3>1 DEF TypeOK
  <2>4. phase' \in [Xids -> {"none", "active", "commit", "abort", "released", "done"}]
    BY <1>0, <1>2
  <2>5. unseen' \in [Xids -> SUBSET Xids]
    BY <1>0, <1>2 DEF TypeOK
  <2>6. shm' \in Shared
    BY <1>3 DEF Pool
  <2> QED
    BY <1>0, <1>2, <2>2, <2>3, <2>4, <2>5, <2>6 DEF TypeOK
<1>5. OthersSame(t) /\ phase'[t] = "done"
  BY <1>0, <1>2 DEF OthersSame, TypeOK
<1>6. TxnInv'
  BY <1>0, <1>5, TxnStep DEF InProcArray
<1>7. StaleInv(shm)'
  BY <1>0, <1>1, <1>5, StaleStep DEF LetGo
<1>8. RowsHeld(shm)' /\ OneHolder' /\ Counted(shm)'
  <2>2. \A u \in Xids : u # t => view'[u] = view[u] /\ phase'[u] = phase[u]
    BY <1>5 DEF OthersSame
  <2>4. RowsHeld(shm) /\ OneHolder /\ Counted(shm)
    BY DEF AoInv
  <2> QED
    BY <1>0, <1>1, <1>2, <1>5, <2>2, <2>4, EndKeeps DEF LetGo
<1> QED
  BY <1>3, <1>4, <1>6, <1>7, <1>8 DEF AoInv

LEMMA SameUseTrans ==
    ASSUME NEW m, NEW d, NEW e, SameUse(m, d), SameUse(d, e)
    PROVE  SameUse(m, e)
    BY DEF SameUse

(* A row at some level keeps its relation locked at the top. *)
LEMMA RowLocked ==
    ASSUME NEW v \in Seq(Level), LevelsOK(v), NEW r, NEW s, RowIn(v, r, s)
    PROVE  r \in Last(v).rowLock \cup Last(v).exclLock
<1>1. PICK k \in 1 .. Len(v) : <<r, s>> \in v[k].rows
  BY DEF RowIn
<1>2. Len(v) \in 1 .. Len(v) /\ Last(v) = v[Len(v)] /\ k <= Len(v)
  BY TopFacts DEF LevelsOK
<1>3. LevelOK(v[k]) /\ Covers(v[Len(v)], v[k])
  BY <1>2, LevelsFacts
<1>4. r \in v[k].rowLock \cup v[k].exclLock
  BY <1>1, <1>3 DEF LevelOK
<1> QED
  BY <1>2, <1>3, <1>4 DEF Covers

(* What a transaction truncated is out of the others' reach. *)
LEMMA TruncAlone ==
    ASSUME AoInv, NEW t \in Xids, InProcArray(t), NEW r \in Top(t).trunc,
           NEW u \in Xids, u # t, InProcArray(u)
    PROVE  /\ r \notin Top(u).trunc
           /\ \A s : ~HasRow(u, r, s)
<1>1. InProcArray(u)
  OBVIOUS
<1>2. r \in Top(t).exclLock
  BY ActiveFacts DEF LevelOK
<1>3. Apart(view[t], view[u])
  BY <1>1 DEF AoInv, TxnInv
<1>4. r \notin Top(u).exclLock \cup Top(u).rowLock
  BY <1>2, <1>3 DEF Apart, Top
<1>5. LevelOK(Top(u)) /\ view[u] \in Seq(Level) /\ LevelsOK(view[u])
  BY <1>1, ActiveFacts
<1>6. r \notin Top(u).trunc
  BY <1>4, <1>5 DEF LevelOK
<1>7. ASSUME NEW s, HasRow(u, r, s)
      PROVE  FALSE
  <2>1. RowIn(view[u], r, s)
    BY <1>7 DEF HasRow
  <2> QED
    BY <1>4, <1>5, <2>1, RowLocked DEF Top
<1> QED
  BY <1>6, <1>7

LEMMA LostType ==
    ASSUME lost \subseteq Xids \X Rels, NEW m, Pool(shm)
    PROVE  LostBy(m) \subseteq Xids \X Rels
    BY DEF LostBy, RemovedFrom, Pool, Shared

LEMMA AtAbortInv ==
    ASSUME AoInv, NEW t \in Xids, AtAbort_AppendOnly(t)
    PROVE  AoInv'
<1>0. /\ TypeOK /\ TxnInv /\ Pool(shm) /\ StaleInv(shm) /\ RowsHeld(shm) /\ OneHolder /\ Counted(shm)
      /\ phase[t] \in {"active", "commit"} /\ InProcArray(t)
      /\ phase \in [Xids -> {"none", "active", "commit", "abort", "released", "done"}]
  BY DEF AoInv, TypeOK, AtAbort_AppendOnly, InProcArray
<1> DEFINE ys == [r \in Rels |-> IF shm.stale[r] = t THEN 0 ELSE shm.stale[r]]
<1>1. PICK y, d, C : y = ys /\ d = [shm EXCEPT !.stale = y] /\ C = OwnIds(d, t)
  OBVIOUS
<1>2. shm' = [d EXCEPT !.status = [i \in Ids |-> IF i \in C THEN Distrusted(d.status[i]) ELSE d.status[i]]]
  BY <1>1 DEF AtAbort_AppendOnly
<1>3. y \in [Rels -> 0 .. MaxXid] /\ \A r \in Rels : shm.stale[r] # t => y[r] = shm.stale[r]
  BY <1>0, <1>1, ConstAssumption DEF Pool, Shared
<1>4. Pool(d) /\ SameUse(shm, d) /\ d.stale = y
  BY <1>0, <1>1, <1>3, PoolStale
<1>5. Pool(shm') /\ SameUse(d, shm') /\ shm'.stale = d.stale /\ shm'.hash = d.hash
  BY <1>2, <1>4, PoolDistrusted
<1>6. SameUse(shm, shm')
  BY <1>4, <1>5, SameUseTrans
<1>7. /\ aoLock' = 0 /\ phase' = [phase EXCEPT ![t] = "abort"] /\ op' = [op EXCEPT ![t] = Idle]
      /\ catalog' = catalog /\ garbage' = garbage /\ nextXid' = nextXid /\ unseen' = unseen
      /\ view' = view /\ pending' = pending /\ stmts' = stmts /\ lost' = lost
      /\ astray' = astray /\ unchecked' = unchecked
  BY DEF AtAbort_AppendOnly, diskVars, noteVars
<1>8. Pool(shm)'
  BY <1>5 DEF Pool
<1>9. op \in [Xids -> Op] /\ Idle \in Op
  BY <1>0 DEF TypeOK, Op
<1>10. TypeOK'
  <2>1. shm' \in Shared
    BY <1>5 DEF Pool
  <2>2. op' \in [Xids -> Op]
    BY <1>7, <1>9
  <2>3. phase' \in [Xids -> {"none", "active", "commit", "abort", "released", "done"}]
    BY <1>0, <1>7
  <2>4. aoLock' \in 0 .. MaxXid
    BY <1>7, ConstAssumption
  <2> QED
    BY <1>0, <1>7, <2>1, <2>2, <2>3, <2>4 DEF TypeOK
<1>11. OthersSame(t) /\ phase'[t] = "abort" /\ op'[t] = Idle
  BY <1>0, <1>7, <1>9 DEF OthersSame
<1>12. TxnInv'
  <2>1. OpOK(Idle, view[t])
    BY DEF OpOK, Idle
  <2> QED
    BY <1>0, <1>7, <1>11, <2>1, ActiveFacts, TxnStep
<1>13. StaleInv(shm)'
  <2>1. \A u \in Xids : u # t /\ phase[u] = "active" =>
              \A r \in Top(u).trunc : r \in shm.hash /\ shm.stale[r] = u =>
                                        r \in shm'.hash /\ shm'.stale[r] = u
    <3>1. shm.hash \subseteq Rels /\ shm'.hash = shm.hash /\ shm'.stale = y
      BY <1>0, <1>4, <1>5, <1>6 DEF Pool, Shared, SameUse
    <3> QED
      BY <1>3, <3>1
  <2> QED
    BY <1>0, <1>11, <2>1, StaleStep
<1>14. NoNewRow
  BY <1>0, <1>11, NoNewRowStep DEF Writing
<1>15. RowsHeld(shm)' /\ OneHolder' /\ Counted(shm)'
  BY <1>0, <1>6, <1>7, <1>14, SameUseKeeps
<1> QED
  BY <1>8, <1>10, <1>12, <1>13, <1>15 DEF AoInv

LEMMA AtCommitInv ==
    ASSUME AoInv, NEW t \in Xids, AtCommit_AppendOnly(t)
    PROVE  AoInv'
<1>0. /\ TypeOK /\ TxnInv /\ Pool(shm) /\ StaleInv(shm) /\ RowsHeld(shm) /\ OneHolder /\ Counted(shm)
      /\ phase[t] = "active" /\ InProcArray(t) /\ NestLevel(t) = 1
      /\ phase \in [Xids -> {"none", "active", "commit", "abort", "released", "done"}]
  BY DEF AoInv, TypeOK, AtCommit_AppendOnly, InProcArray, Ready
<1>1. PICK V, d, C : V = PendingRels(t) \cap shm.hash /\ d = AORelRemoveHashEntry(shm, V) /\ C = OwnIds(d, t)
  OBVIOUS
<1>2. shm' = [d EXCEPT !.status = [i \in Ids |-> IF i \in C THEN Written(d.status[i], t) ELSE d.status[i]]]
  BY <1>1 DEF AtCommit_AppendOnly
<1>3. V \in SUBSET Rels /\ \A r \in V : r \in Top(t).trunc
  BY <1>0, <1>1, ActiveFacts DEF PendingRels
<1>4. Pool(d)
  BY <1>0, <1>1, <1>3, PoolRemove
<1>5. /\ d.hash = shm.hash \ V /\ d.status = shm.status
      /\ \A r \in V : d.txns[r] = 0 /\ d.list[r] = << >>
      /\ \A r \in Rels \ V : /\ d.txns[r] = shm.txns[r] /\ d.stale[r] = shm.stale[r]
                             /\ d.list[r] = shm.list[r]
  BY <1>0, <1>1, <1>3, RemoveFacts DEF Pool
<1>6. Pool(shm') /\ SameUse(d, shm') /\ shm'.stale = d.stale /\ shm'.hash = d.hash
  BY <1>2, <1>4, PoolWritten
<1>7. /\ aoLock' = aoLock /\ phase' = [phase EXCEPT ![t] = "commit"] /\ op' = op
      /\ catalog' = catalog /\ garbage' = garbage /\ nextXid' = nextXid /\ unseen' = unseen
      /\ view' = view /\ pending' = pending /\ stmts' = stmts /\ lost' = LostBy(shm')
      /\ astray' = astray /\ unchecked' = unchecked
  BY DEF AtCommit_AppendOnly, diskVars, noteVars
<1>8. Pool(shm)'
  BY <1>6 DEF Pool
<1>10. TypeOK'
  <2>1. shm' \in Shared
    BY <1>6 DEF Pool
  <2>2. lost' \subseteq Xids \X Rels
    BY <1>0, <1>7, LostType DEF TypeOK
  <2>3. phase' \in [Xids -> {"none", "active", "commit", "abort", "released", "done"}]
    BY <1>0, <1>7
  <2> QED
    BY <1>0, <1>7, <2>1, <2>2, <2>3 DEF TypeOK
<1>11. OthersSame(t) /\ phase'[t] = "commit"
  BY <1>0, <1>7 DEF OthersSame
<1>12. TxnInv'
  BY <1>0, <1>7, <1>11, ActiveFacts, TxnStep
<1>13. StaleInv(shm)'
  <2>1. ASSUME NEW u \in Xids, u # t, phase[u] = "active", NEW r \in Top(u).trunc,
               r \in shm.hash, shm.stale[r] = u
        PROVE  r \in shm'.hash /\ shm'.stale[r] = u
    <3>1. r \notin V
      BY <1>0, <1>3, <2>1, TruncAlone DEF InProcArray
    <3>2. r \in Rels
      BY <1>0, <2>1 DEF Pool, Shared
    <3> QED
      BY <1>5, <1>6, <2>1, <3>1, <3>2
  <2> QED
    BY <1>0, <1>11, <2>1, StaleStep
<1>14. NoNewRow
  BY <1>0, <1>7, <1>11, NoNewRowStep DEF Writing
<1>15. RowsHeld(d) /\ Counted(d)
  <2>1. ASSUME NEW r \in V, NEW u \in Xids, NEW s \in Segnos, HasRow(u, r, s)
        PROVE  FALSE
    <3>1. CASE u # t
      <4>1. InProcArray(u)
        BY <2>1 DEF HasRow, Writing, InProcArray
      <4> QED
        BY <1>0, <1>3, <2>1, <3>1, <4>1, TruncAlone DEF InProcArray
    <3>2. CASE u = t
      <4>1. PICK k \in 1 .. Len(view[t]) : r \notin view[t][k].trunc
        BY <2>1, <3>2 DEF HasRow, Writing, RowIn
      <4>2. k = 1 /\ Top(t) = view[t][1]
        BY <1>0, <4>1, ActiveFacts
      <4> QED
        BY <1>3, <4>1, <4>2
    <3> QED
      BY <3>1, <3>2
  <2>2. \A r \in V : d.txns[r] >= 0 /\ \A i \in ToSet(d.list[r]) : d.status[i].xid = 0
    BY <1>5, EmptyFacts
  <2>3. d.hash \subseteq shm.hash \cup V /\ d.hash \subseteq Rels
    BY <1>4, <1>5 DEF Pool, Shared
  <2> QED
    BY <1>0, <1>3, <1>5, <2>1, <2>2, <2>3, RenewedKeeps
<1>16. RowsHeld(shm)' /\ OneHolder' /\ Counted(shm)'
  BY <1>0, <1>4, <1>6, <1>7, <1>14, <1>15, SameUseKeeps
<1> QED
  BY <1>8, <1>10, <1>12, <1>13, <1>16 DEF AoInv

(* Transaction t's level n becomes x. *)
LEMMA ExtendsTxn ==
    ASSUME AoInv, NEW t \in Xids, phase[t] = "active", phase' = phase, OthersSame(t),
           NEW n \in 1 .. MaxLevel, n <= Len(view[t]) + 1, NEW x \in Level, LevelOK(x), Covers(x, Top(t)),
           Extends(view'[t], view[t], n, x), PendingMoves(pending[t], pending'[t], n, x),
           OpOK(op'[t], view'[t]), Fits(t, view'[t])
    PROVE  TxnInv'
<1>0. TxnInv /\ InProcArray(t)
  BY DEF AoInv, InProcArray
<1>1. PICK v, w, p, q : v = view[t] /\ w = view'[t] /\ p = pending[t] /\ q = pending'[t]
  OBVIOUS
<1>2. v \in Seq(Level) /\ LevelsOK(v) /\ Len(v) \in 1 .. MaxLevel /\ Top(t) = Last(v) /\ PendingOK(p, v)
  BY <1>0, <1>1, ActiveFacts
<1>3. Extends(w, v, n, x) /\ PendingMoves(p, q, n, x) /\ n <= Len(v) + 1 /\ Covers(x, Last(v))
  BY <1>1, <1>2
<1>4. LevelsOK(w)
  BY <1>2, <1>3, ExtendsOK
<1>5. n \in Nat /\ Len(v) \in Nat
  BY <1>2, ConstAssumption
<1>6. PendingOK(q, w)
  BY <1>2, <1>3, <1>5, ExtendsPending
<1> QED
  BY <1>0, <1>1, <1>4, <1>6, TxnStep

LEMMA AtSubCommitInv ==
    ASSUME AoInv, NEW t \in Xids, AtSubCommit_AppendOnly(t)
    PROVE  AoInv' /\ NoNewRow
<1>0. /\ TypeOK /\ Pool(shm) /\ StaleInv(shm) /\ RowsHeld(shm) /\ OneHolder /\ Counted(shm)
      /\ phase[t] = "active" /\ InProcArray(t) /\ NestLevel(t) > 1 /\ op[t].kind = "none"
      /\ view \in [Xids -> Seq(Level)] /\ pending \in [Xids -> [Rels -> 0 .. MaxLevel]]
  BY DEF AoInv, TypeOK, AtSubCommit_AppendOnly, InProcArray, Ready
<1>1. /\ shm' = shm /\ phase' = phase /\ op' = op /\ nextXid' = nextXid /\ astray' = astray
      /\ aoLock' = aoLock /\ catalog' = catalog /\ garbage' = garbage /\ unseen' = unseen
      /\ stmts' = stmts /\ lost' = lost /\ unchecked' = unchecked
  BY DEF AtSubCommit_AppendOnly, diskVars, noteVars
<1>2. PICK v, k : v = view[t] /\ k = Len(v)
  OBVIOUS
<1>3. PICK x, p : x = [Top(t) EXCEPT !.dirty = @ \cup v[k - 1].dirty] /\ p = pending[t]
  OBVIOUS
<1>4. PICK w, q : /\ w = Append(SubSeq(v, 1, Len(v) - 2), x)
                  /\ q = [r \in Rels |-> IF p[r] >= k THEN k - 1 ELSE p[r]]
  OBVIOUS
<1>5. /\ v \in Seq(Level) /\ LevelsOK(v) /\ k \in 2 .. MaxLevel /\ LevelOK(Top(t)) /\ Top(t) = Last(v)
      /\ PendingOK(p, v) /\ p \in [Rels -> Nat] /\ NestLevel(t) = k /\ Top(t) \in Level /\ Fits(t, v)
      /\ \A r \in Rels : p[r] # 0 <=> r \in Top(t).trunc
  <2>1. /\ v \in Seq(Level) /\ LevelsOK(v) /\ k \in 1 .. MaxLevel /\ LevelOK(Top(t)) /\ Top(t) = Last(v)
        /\ PendingOK(p, v) /\ p \in [Rels -> Nat] /\ NestLevel(t) = k /\ Top(t) \in Level /\ Fits(t, v)
        /\ \A r \in Rels : p[r] # 0 <=> r \in Top(t).trunc
    BY <1>0, <1>2, <1>3, ActiveFacts
  <2>2. k \in 2 .. MaxLevel
    BY <1>0, <2>1, ConstAssumption
  <2> QED
    BY <2>1, <2>2
<1>6. /\ view' = [view EXCEPT ![t] = w] /\ pending' = [pending EXCEPT ![t] = q]
  BY <1>0, <1>2, <1>3, <1>4, <1>5 DEF AtSubCommit_AppendOnly
<1>7. /\ view'[t] = w /\ pending'[t] = q /\ OthersSame(t)
  BY <1>0, <1>1, <1>6 DEF OthersSame
<1>8. /\ x \in Level /\ x.trunc = Top(t).trunc /\ x.rows = Top(t).rows
      /\ x.rowLock = Top(t).rowLock /\ x.exclLock = Top(t).exclLock
  <2>1. k - 1 \in 1 .. Len(v)
    BY <1>2, <1>5
  <2>3. v[k - 1] \in Level
    BY <1>5, <2>1
  <2>2. v[k - 1].dirty \subseteq Files
    BY <2>3 DEF Level
  <2> QED
    BY <1>3, <1>5, <2>2 DEF Level
<1>9. PICK n : n = k - 1
  OBVIOUS
<1>10. Extends(w, v, n, x) /\ n \in 1 .. MaxLevel /\ n <= Len(v) + 1 /\ n \in Nat /\ Len(v) \in Nat
  <2>1. Len(v) > 1
    BY <1>2, <1>5
  <2>2. Extends(w, v, Len(v) - 1, x)
    BY <1>4, <1>5, <1>8, <2>1, MergeFacts
  <2>3. n \in 1 .. MaxLevel /\ n <= Len(v) + 1 /\ n \in Nat /\ Len(v) \in Nat
    BY <1>2, <1>5, <1>9, ConstAssumption
  <2> QED
    BY <1>2, <1>9, <2>2, <2>3
<1>11. PendingMoves(p, q, n, x) /\ q \in [Rels -> 0 .. MaxLevel]
  <2>1. \A r \in Rels : p[r] \in Nat /\ p[r] <= k
    BY <1>2, <1>5 DEF PendingOK
  <2>2. k \in Nat /\ k >= 2 /\ k <= MaxLevel /\ n = k - 1
    BY <1>5, <1>9, ConstAssumption
  <2>3. \A r \in Rels : q[r] = IF p[r] >= k THEN n ELSE p[r]
    BY <1>4, <1>9
  <2>4. q \in [Rels -> Nat] /\ q \in [Rels -> 0 .. MaxLevel]
    BY <1>4, <2>1, <2>2, ConstAssumption
  <2>5. \A r \in Rels : q[r] <= n
    BY <2>1, <2>2, <2>3
  <2>6. \A r \in Rels : q[r] = p[r] \/ (~(p[r] \in 1 .. (n - 1)) /\ q[r] \in {0, n})
    BY <2>1, <2>2, <2>3
  <2>7. \A r \in Rels : q[r] # 0 <=> p[r] # 0
    BY <2>1, <2>2, <2>3
  <2>8. x.trunc \subseteq Rels /\ \A r \in Rels : q[r] # 0 <=> r \in x.trunc
    BY <1>5, <1>8, <2>7 DEF Level
  <2> QED
    BY <1>5, <2>4, <2>5, <2>6, <2>8 DEF PendingMoves
<1>12. TypeOK'
  <2>1. w \in Seq(Level)
    BY <1>10 DEF Extends
  <2>2. view' \in [Xids -> Seq(Level)]
    BY <1>0, <1>6, <2>1
  <2>3. pending' \in [Xids -> [Rels -> 0 .. MaxLevel]]
    BY <1>0, <1>6, <1>11
  <2> QED
    BY <1>0, <1>1, <2>2, <2>3 DEF TypeOK
<1>13. LevelOK(x) /\ Covers(x, Top(t))
  BY <1>5, <1>8 DEF LevelOK, Covers
<1>14. TxnInv'
  <2>1. Last(w) = x
    BY <1>10 DEF Extends
  <2>2. Fits(t, w)
    BY <1>5, <1>8, <2>1, FitsLess
  <2>3. OpOK(op'[t], w)
    BY <1>0, <1>1 DEF OpOK
  <2> QED
    BY <1>0, <1>1, <1>2, <1>3, <1>7, <1>8, <1>10, <1>11, <1>13, <2>2, <2>3, ExtendsTxn
<1>15. StaleInv(shm)'
  <2>1. \A r \in Last(w).trunc : MarkedStale(shm, t, r)'
    BY <1>0, <1>1, <1>8, <1>10, ReadyFacts DEF Extends, MarkedStale
  <2> QED
    BY <1>0, <1>1, <1>7, <2>1, StaleStep
<1>16. NoNewRow
  <2>1. ASSUME NEW r \in Rels, NEW s \in Segnos, RowIn(w, r, s)
        PROVE  RowIn(v, r, s)
    <3>1. RowIn(v, r, s) \/ (<<r, s>> \in x.rows /\ r \notin x.trunc)
      BY <1>10, <2>1, ExtendsRow
    <3> QED
      BY <1>5, <1>8, <3>1, RowInTop
  <2> QED
    BY <1>0, <1>1, <1>2, <1>7, <2>1, NoNewRowStep DEF Writing
<1>17. RowsHeld(shm)' /\ OneHolder' /\ Counted(shm)'
  BY <1>0, <1>1, <1>16, SameUseKeeps, SameUseSelf
<1> QED
  BY <1>0, <1>1, <1>12, <1>14, <1>15, <1>16, <1>17 DEF AoInv

LEMMA AtSubAbortInv ==
    ASSUME AoInv, NEW t \in Xids, AtSubAbort_AppendOnly(t)
    PROVE  AoInv' /\ NoNewRow
<1>0. /\ TypeOK /\ TxnInv /\ Pool(shm) /\ StaleInv(shm) /\ RowsHeld(shm) /\ OneHolder /\ Counted(shm)
      /\ phase[t] = "active" /\ InProcArray(t) /\ NestLevel(t) > 1
      /\ view \in [Xids -> Seq(Level)] /\ pending \in [Xids -> [Rels -> 0 .. MaxLevel]]
      /\ op \in [Xids -> Op] /\ Idle \in Op
  BY DEF AoInv, TypeOK, AtSubAbort_AppendOnly, InProcArray, Op
<1>1. /\ phase' = phase /\ op' = [op EXCEPT ![t] = Idle] /\ nextXid' = nextXid /\ astray' = astray
      /\ aoLock' = aoLock /\ catalog' = catalog /\ unseen' = unseen
      /\ stmts' = stmts /\ lost' = lost /\ unchecked' = unchecked
  BY DEF AtSubAbort_AppendOnly, noteVars
<1>2. PICK v, k, w, p : v = view[t] /\ k = Len(v) /\ w = Front(v) /\ p = pending[t]
  OBVIOUS
<1>3. PICK D : D = {r \in Rels : p[r] >= k}
  OBVIOUS
<1>4. PICK q, y : /\ q = [r \in Rels |-> IF r \in D THEN 0 ELSE p[r]]
                  /\ y = [r \in Rels |-> IF r \in D THEN 0 ELSE shm.stale[r]]
  OBVIOUS
<1>5. PICK d, C : d = [shm EXCEPT !.stale = y] /\ C = OwnIds(d, t)
  OBVIOUS
<1>6. /\ v \in Seq(Level) /\ LevelsOK(v) /\ k \in 1 .. MaxLevel /\ k > 1 /\ Top(t) = Last(v)
      /\ PendingOK(p, v) /\ p \in [Rels -> Nat] /\ NestLevel(t) = k /\ Top(t) \in Level /\ Fits(t, v)
      /\ \A r \in Rels : p[r] # 0 <=> r \in Top(t).trunc
  BY <1>0, <1>2, ActiveFacts
<1>7. view' = [view EXCEPT ![t] = w] /\ pending' = [pending EXCEPT ![t] = q]
  BY <1>0, <1>2, <1>3, <1>4, <1>6 DEF AtSubAbort_AppendOnly
<1>8. shm' = [d EXCEPT !.status = [i \in Ids |-> IF i \in C THEN Distrusted(d.status[i]) ELSE d.status[i]]]
  BY <1>2, <1>3, <1>4, <1>5, <1>6 DEF AtSubAbort_AppendOnly
<1>9. view'[t] = w /\ pending'[t] = q /\ op'[t] = Idle /\ OthersSame(t)
  BY <1>0, <1>1, <1>7 DEF OthersSame
<1>10. y \in [Rels -> 0 .. MaxXid]
  BY <1>0, <1>4, ConstAssumption DEF Pool, Shared
<1>11. Pool(d) /\ SameUse(shm, d) /\ d.stale = y
  <2>1. PICK m : m = shm
    OBVIOUS
  <2>2. Pool(m) /\ d = [m EXCEPT !.stale = y]
    BY <1>0, <1>5, <2>1
  <2>3. Pool(d) /\ SameUse(m, d) /\ d.stale = y
    BY <1>10, <2>2, PoolStale
  <2> QED
    BY <2>1, <2>3
<1>12. Pool(shm') /\ SameUse(d, shm') /\ shm'.stale = d.stale /\ shm'.hash = d.hash
  BY <1>8, <1>11, PoolDistrusted
<1>13. SameUse(shm, shm')
  BY <1>11, <1>12, SameUseTrans
<1>14. Pool(shm)'
  BY <1>12 DEF Pool
<1>15. /\ w \in Seq(Level) /\ Len(w) = k - 1 /\ w # << >> /\ Last(w) = v[k - 1]
       /\ \A j \in 1 .. (k - 1) : w[j] = v[j]
  BY <1>2, <1>6, PopFacts
<1>16. LevelsOK(w) /\ Covers(Last(v), Last(w))
  BY <1>2, <1>6, PopOK
<1>17. \A r \in Rels : p[r] \in Nat /\ p[r] <= k /\ (r \in D <=> p[r] = k)
  <2>1. \A r \in Rels : p[r] \in Nat /\ p[r] <= k
    BY <1>2, <1>6 DEF PendingOK
  <2> QED
    BY <1>3, <1>6, <2>1
<1>18. PendingOK(q, w) /\ q \in [Rels -> 0 .. MaxLevel]
  <2>0. k \in Nat /\ k > 1 /\ k <= MaxLevel
    BY <1>6, ConstAssumption
  <2>1. \A r \in Rels : q[r] = IF p[r] = k THEN 0 ELSE p[r]
    BY <1>4, <1>17
  <2>2. \A r \in Rels : q[r] <= Len(w)
    BY <1>15, <1>17, <2>0, <2>1
  <2>3. ASSUME NEW j \in 1 .. (k - 1)
        PROVE  {r \in Rels : q[r] \in 1 .. j} = w[j].trunc
    <3>1. \A r \in Rels : q[r] \in 1 .. j <=> p[r] \in 1 .. j
      BY <1>17, <2>0, <2>1
    <3>2. w[j] = v[j] /\ j \in 1 .. Len(v)
      BY <1>2, <1>15, <2>0
    <3>3. {r \in Rels : p[r] \in 1 .. j} = v[j].trunc
      BY <1>6, <3>2 DEF PendingOK
    <3> QED
      BY <3>1, <3>2, <3>3
  <2>4. q \in [Rels -> 0 .. MaxLevel]
    BY <1>4, <1>17, <2>0, ConstAssumption
  <2> QED
    BY <1>15, <2>2, <2>3, <2>4 DEF PendingOK
<1>19. TypeOK'
  <2>1. view' \in [Xids -> Seq(Level)]
    BY <1>0, <1>7, <1>15
  <2>2. pending' \in [Xids -> [Rels -> 0 .. MaxLevel]]
    BY <1>0, <1>7, <1>18
  <2>3. op' \in [Xids -> Op]
    BY <1>0, <1>1
  <2>4. shm' \in Shared
    BY <1>12 DEF Pool
  <2>5. garbage' \subseteq Files
    <3>1. Top(t).dirty \subseteq Files
      BY <1>6 DEF Level
    <3> QED
      BY <1>0, <3>1 DEF AtSubAbort_AppendOnly, TypeOK
  <2> QED
    BY <1>0, <1>1, <2>1, <2>2, <2>3, <2>4, <2>5 DEF TypeOK
<1>20. TxnInv'
  <2>1. Fits(t, w)
    BY <1>6, <1>16, FitsLess DEF Covers
  <2>2. OpOK(Idle, w)
    BY DEF OpOK, Idle
  <2> QED
    BY <1>0, <1>1, <1>9, <1>16, <1>18, <2>1, <2>2, TxnStep
<1>21. StaleInv(shm)'
  <2>1. shm.hash \subseteq Rels /\ shm'.hash = shm.hash /\ shm'.stale = y
    BY <1>0, <1>11, <1>12, <1>13 DEF Pool, Shared, SameUse
  <2>2. ASSUME NEW u \in Xids, u # t, phase[u] = "active", NEW r \in Top(u).trunc,
               r \in shm.hash, shm.stale[r] = u
        PROVE  r \in shm'.hash /\ shm'.stale[r] = u
    <3>1. r \notin Top(t).trunc /\ r \in Rels
      BY <1>0, <2>1, <2>2, TruncAlone DEF InProcArray
    <3>2. r \notin D
      BY <1>6, <1>17, <3>1
    <3> QED
      BY <1>4, <2>1, <2>2, <3>1, <3>2
  <2>3. ASSUME NEW r \in Last(w).trunc
        PROVE  MarkedStale(shm, t, r)'
    <3>1. k - 1 \in 1 .. Len(v) /\ r \in v[k - 1].trunc
      BY <1>2, <1>6, <1>15, <2>3
    <3>2. r \in Rels /\ p[r] \in 1 .. (k - 1)
      BY <1>6, <3>1 DEF PendingOK
    <3>3. r \notin D /\ r \in Top(t).trunc /\ p[r] # k
      BY <1>6, <1>17, <3>2
    <3>4. MarkedStale(shm, t, r)
      BY <1>0, <3>3 DEF StaleInv
    <3>5. r \in shm.hash /\ shm.stale[r] = t
      BY <1>2, <1>6, <3>3, <3>4 DEF MarkedStale
    <3> QED
      BY <1>4, <2>1, <3>2, <3>3, <3>5 DEF MarkedStale
  <2> QED
    BY <1>0, <1>9, <2>2, <2>3, StaleStep
<1>22. NoNewRow
  <2>1. ASSUME NEW r \in Rels, NEW s \in Segnos, RowIn(w, r, s)
        PROVE  RowIn(v, r, s)
    <3>1. PICK j \in 1 .. (k - 1) : <<r, s>> \in w[j].rows /\ r \notin w[j].trunc
      BY <1>15, <2>1 DEF RowIn
    <3>2. w[j] = v[j] /\ j \in 1 .. Len(v)
      BY <1>2, <1>6, <1>15
    <3> QED
      BY <3>1, <3>2 DEF RowIn
  <2> QED
    BY <1>0, <1>1, <1>2, <1>9, <2>1, NoNewRowStep DEF Writing
<1>23. RowsHeld(shm)' /\ OneHolder' /\ Counted(shm)'
  BY <1>0, <1>1, <1>13, <1>22, SameUseKeeps
<1> QED
  BY <1>14, <1>19, <1>20, <1>21, <1>22, <1>23 DEF AoInv

-----------------------------------------------------------------------------
(* Statements *)

(* Entries that are marked stale stay, and stay marked. *)
StaleKept(m, e) ==
    \A r \in m.hash : m.stale[r] # 0 => r \in e.hash /\ e.stale[r] = m.stale[r]

LEMMA CreatedStale ==
    ASSUME NEW m, NEW e, NEW r, Pool(m), r \notin m.hash, Created(m, e, r)
    PROVE  StaleKept(m, e)
<1>1. PICK V \in SUBSET Unused(m) :
         /\ e.hash = (m.hash \ V) \cup {r}
         /\ \A u \in V : e.list[u] = << >> /\ e.txns[u] = 0
         /\ \A u \in Rels \ (V \cup {r}) : /\ e.txns[u] = m.txns[u] /\ e.stale[u] = m.stale[u]
                                           /\ e.maxSegno[u] = m.maxSegno[u] /\ e.list[u] = m.list[u]
  BY DEF Created
<1> SUFFICES ASSUME NEW u \in m.hash, m.stale[u] # 0
             PROVE  u \in e.hash /\ e.stale[u] = m.stale[u]
  BY DEF StaleKept
<1>2. u \notin V /\ u # r /\ u \in Rels
  BY DEF Unused, Pool, Shared
<1> QED
  BY <1>1, <1>2

LEMMA ChoiceStale ==
    ASSUME NEW m, NEW e, NEW q, NEW given, Pool(m), ChoiceOf(m, e, q, given)
    PROVE  StaleKept(m, e)
<1>1. PICK V \in SUBSET (Unused(m) \ {q.rel}) :
         /\ e.hash = m.hash \ V
         /\ \A u \in V : e.list[u] = << >> /\ e.txns[u] = 0
         /\ \A u \in Rels \ (V \cup {q.rel}) :
              /\ e.txns[u] = m.txns[u] /\ e.stale[u] = m.stale[u]
              /\ e.maxSegno[u] = m.maxSegno[u] /\ e.list[u] = m.list[u]
  BY DEF ChoiceOf
<1>2. e.stale[q.rel] = m.stale[q.rel]
  BY DEF ChoiceOf
<1> SUFFICES ASSUME NEW u \in m.hash, m.stale[u] # 0
             PROVE  u \in e.hash /\ e.stale[u] = m.stale[u]
  BY DEF StaleKept
<1>3. u \notin V /\ u \in Rels
  BY DEF Unused, Pool, Shared
<1> QED
  BY <1>1, <1>2, <1>3

LEMMA GivenSegnos ==
    ASSUME NEW m, NEW e, NEW q, NEW given, ChoiceOf(m, e, q, given), q.rel \in Rels
    PROVE  given \subseteq Segnos
<1> SUFFICES ASSUME NEW s \in given
             PROVE  s \in Segnos
  OBVIOUS
<1>1. GivenBy(m, e, q, s) /\ Pool(e)
  BY DEF ChoiceOf
<1>2. PICK i \in ToSet(e.list[q.rel]) : e.status[i].segno = s
  BY <1>1 DEF GivenBy
<1>3. s \in 1 .. e.maxSegno[q.rel] /\ e.maxSegno[q.rel] \in 0 .. MaxSegno
  BY <1>1, <1>2 DEF Pool, Shared
<1> QED
  BY <1>3, ConstAssumption DEF Segnos

(* The level of a transaction that was given files of relation r. *)
GivenLevel(v, r, segnos) ==
    [v EXCEPT !.rows = @ \cup ({r} \X segnos),
              !.dirty = IF r \in v.trunc THEN @ ELSE @ \cup ({r} \X segnos)]

LevelGiven(x, v, r, segnos) ==
    /\ x \in Level /\ LevelOK(x) /\ x.trunc = v.trunc
    /\ x.rowLock = v.rowLock /\ x.exclLock = v.exclLock
    /\ x.rows = v.rows \cup ({r} \X segnos)

LEMMA GivenLevelFacts ==
    ASSUME NEW v, v \in Level, LevelOK(v), NEW r, r \in v.rowLock, NEW segnos, segnos \in SUBSET Segnos,
           NEW x, x = GivenLevel(v, r, segnos)
    PROVE  LevelGiven(x, v, r, segnos)
<1>0. r \in Rels
  BY DEF Level
<1>1. v.rows \cup ({r} \X segnos) \in SUBSET Files /\ v.dirty \cup ({r} \X segnos) \in SUBSET Files
  BY <1>0 DEF Files, Level
<1>2. PICK R, D : /\ R = v.rows \cup ({r} \X segnos)
                  /\ D = IF r \in v.trunc THEN v.dirty ELSE v.dirty \cup ({r} \X segnos)
  OBVIOUS
<1>3. R \in SUBSET Files /\ D \in SUBSET Files
  BY <1>1, <1>2 DEF Level
<1>4. x = [v EXCEPT !.rows = R, !.dirty = D]
  BY <1>2 DEF GivenLevel
<1>5. /\ x \in Level /\ x.trunc = v.trunc /\ x.rowLock = v.rowLock /\ x.exclLock = v.exclLock /\ x.rows = R
  BY <1>3, <1>4 DEF Level
<1>6. LevelOK(x)
  <2>1. \A f \in x.rows : f[1] \in x.rowLock \cup x.exclLock
    BY <1>2, <1>5 DEF LevelOK
  <2> QED
    BY <1>5, <2>1 DEF LevelOK
<1> QED
  BY <1>2, <1>5, <1>6 DEF LevelGiven

LEMMA FitsRow ==
    ASSUME NEW t, NEW r, NEW v, NEW w, Fits(t, v), RowLockable(t, r),
           Last(w).rowLock \subseteq Last(v).rowLock \cup {r}, Last(w).exclLock \subseteq Last(v).exclLock
    PROVE  Fits(t, w)
<1> SUFFICES ASSUME NEW u \in Xids, u # t, InProcArray(u)
             PROVE  Apart(w, view[u]) /\ Apart(view[u], w)
  BY DEF Fits
<1>1. Apart(v, view[u]) /\ Apart(view[u], v)
  BY DEF Fits
<1>2. r \notin Last(view[u]).exclLock
  BY DEF RowLockable, HoldsLocks, Top
<1> QED
  BY <1>1, <1>2 DEF Apart

(* A transaction that has locked relation r may be given files of it. *)
LEMMA FitsLocked ==
    ASSUME AoInv, NEW t \in Xids, InProcArray(t), NEW r \in Top(t).rowLock
    PROVE  RowLockable(t, r)
<1>1. \A u \in Xids : u # t /\ InProcArray(u) => Apart(view[u], view[t])
  BY DEF AoInv, TxnInv
<1> QED
  BY <1>1 DEF RowLockable, HoldsLocks, Apart, Top

LEMMA StrayedFacts ==
    ASSUME NEW t \in Xids, NEW r, NEW e, r \notin Strayed(t, r, e),
           NEW i \in ToSet(e.list[r]) \ ToSet(shm.list[r]), e.status[i].xid \in Xids \ {t}
    PROVE  phase[e.status[i].xid] = "done"
<1>1. e.status[i].xid \notin {0, t}
  BY DEF Xids
<1> QED
  BY <1>1 DEF Strayed

LEMMA NoteTypes ==
    ASSUME NEW t, NEW r \in Rels, NEW e, Pool(e)
    PROVE  Strayed(t, r, e) \subseteq Rels /\ Unchecked(t, r, e) \subseteq Files
<1>1. Strayed(t, r, e) \subseteq Rels
  BY DEF Strayed
<1>2. \A i \in ToSet(e.list[r]) : <<r, e.status[i].segno>> \in Files
  <2>1. \A i \in ToSet(e.list[r]) : e.status[i].segno \in 1 .. e.maxSegno[r]
    BY DEF Pool
  <2>2. e.maxSegno[r] \in 0 .. MaxSegno
    BY DEF Pool, Shared
  <2> QED
    BY <2>1, <2>2, ConstAssumption DEF Files, Segnos
<1>3. Unchecked(t, r, e) \subseteq {<<r, e.status[i].segno>> : i \in ToSet(e.list[r])}
  BY DEF Unchecked
<1> QED
  BY <1>1, <1>2, <1>3

(* The end of a statement of transaction t that chose files of relation r in
   table m, the one it found or the one with the entry it made. *)
LEMMA ChoseInv ==
    ASSUME AoInv, NEW t \in Xids, phase[t] = "active", op[t].kind \notin {"error", "stale"},
           NEW r \in Rels, RowLockable(t, r),
           NEW m, Pool(m), RowsHeld(m), Counted(m), r \in m.hash, StaleKept(shm, m),
           ToSet(shm.list[r]) \subseteq ToSet(m.list[r]),
           NEW q, q.t = t, q.rel = r, q.n \in Nat, NEW o \in ChooseSegnos(m, q),
           NEW v \in Level, v.trunc = Top(t).trunc, v.rows = Top(t).rows,
           v.exclLock = Top(t).exclLock, v.rowLock = Top(t).rowLock \cup {r},
           NEW gone \in SUBSET (Xids \X Rels), Chose(t, r, v, o, gone),
           catalog' = catalog, nextXid' = nextXid, phase' = phase, pending' = pending,
           unseen' \in [Xids -> SUBSET Xids], stmts' \in 0 .. MaxStmt
    PROVE  AoInv' /\ ChoiceOf(m, shm', q, o.segnos) /\ RowsGiven(m, q, o.segnos)
<1>0. /\ TypeOK /\ TxnInv /\ Pool(shm) /\ StaleInv(shm) /\ RowsHeld(shm) /\ OneHolder /\ Counted(shm)
      /\ InProcArray(t)
      /\ view \in [Xids -> Seq(Level)]
      /\ op \in [Xids -> Op] /\ Idle \in Op /\ Error \in Op
  BY DEF AoInv, TypeOK, InProcArray, Op
<1>1. ChoiceOf(m, o.m, q, o.segnos)
  BY ChooseFacts
<1>2. PICK e, G : e = o.m /\ G = o.segnos
  OBVIOUS
<1>3. ChoiceOf(m, e, q, G) /\ Pool(e) /\ shm' = e
  <2>1. ChoiceOf(m, e, q, G)
    BY <1>1, <1>2
  <2>2. Pool(e)
    BY <2>1 DEF ChoiceOf
  <2>3. shm' = e
    BY <1>2 DEF Chose
  <2> QED
    BY <2>1, <2>2, <2>3
<1>4. G \in SUBSET Segnos
  BY <1>3, GivenSegnos
<1>5. PICK s, w, x : s = view[t] /\ x = GivenLevel(v, r, G) /\ w = Append(Front(s), x)
  OBVIOUS
<1>6. view' = [view EXCEPT ![t] = w]
  BY <1>0, <1>2, <1>5 DEF Chose, SetTop, GivenLevel
<1>7. /\ s \in Seq(Level) /\ LevelsOK(s) /\ Len(s) \in 1 .. MaxLevel /\ LevelOK(Top(t)) /\ Top(t) = Last(s)
      /\ s # << >> /\ NestLevel(t) = Len(s) /\ Fits(t, s)
      /\ pending[t] \in [Rels -> Nat] /\ PendingOK(pending[t], s)
      /\ \A u \in Rels : pending[t][u] # 0 <=> u \in Top(t).trunc
  BY <1>0, <1>5, ActiveFacts
<1>8. LevelOK(v)
  BY <1>7 DEF LevelOK
<1>9. /\ x \in Level /\ LevelOK(x) /\ x.trunc = Top(t).trunc
      /\ x.rowLock = Top(t).rowLock \cup {r} /\ x.exclLock = Top(t).exclLock
      /\ x.rows = Top(t).rows \cup ({r} \X G)
  <2>1. r \in v.rowLock
    OBVIOUS
  <2>2. x = GivenLevel(v, r, G)
    BY <1>5
  <2>3. LevelGiven(x, v, r, G)
    BY <1>4, <1>8, <2>1, <2>2, GivenLevelFacts
  <2> QED
    BY <2>3 DEF LevelGiven
<1>10. PICK n : n = Len(s)
  OBVIOUS
<1>11. Extends(w, s, n, x)
  BY <1>5, <1>7, <1>9, <1>10, SetTopFacts
<1>12. n \in 1 .. MaxLevel /\ n <= Len(s) + 1 /\ n \in Nat /\ Len(s) \in Nat
  BY <1>7, <1>10, ConstAssumption
<1>13. op' = [op EXCEPT ![t] = Idle] \/ op' = [op EXCEPT ![t] = Error]
  BY DEF Chose
<1>14. OthersSame(t) /\ view'[t] = w /\ op'[t] \in {Idle, Error} /\ op' \in [Xids -> Op]
  <2>1. view'[t] = w /\ \A u \in Xids : u # t => view'[u] = view[u]
    BY <1>0, <1>6
  <2>2. op'[t] \in {Idle, Error} /\ op' \in [Xids -> Op] /\ \A u \in Xids : u # t => op'[u] = op[u]
    <3>1. PICK z \in {Idle, Error} : op' = [op EXCEPT ![t] = z]
      BY <1>13
    <3>2. z \in Op
      BY <1>0, <3>1
    <3> HIDE DEF Idle, Error, Op
    <3> QED
      BY <1>0, <3>1, <3>2
  <2> QED
    BY <2>1, <2>2 DEF OthersSame
<1>15. TypeOK'
  <2>1. w \in Seq(Level)
    BY <1>11 DEF Extends
  <2>2. view' \in [Xids -> Seq(Level)]
    BY <1>0, <1>6, <2>1
  <2>3. lost' \subseteq Xids \X Rels
    BY <1>0 DEF Chose, RemovedFrom, Pool, Shared
  <2>4. astray' \subseteq Rels /\ unchecked' \subseteq Files
    BY <1>0, <1>2, <1>3, NoteTypes DEF Chose, TypeOK
  <2>5. aoLock' \in 0 .. MaxXid
    BY <1>0, ConstAssumption DEF Chose, TypeOK, Xids
  <2>6. garbage' \subseteq Files
    BY <1>0 DEF Chose, TypeOK
  <2>7. shm' \in Shared
    BY <1>3 DEF Pool
  <2> QED
    BY <1>0, <1>14, <2>2, <2>3, <2>4, <2>5, <2>6, <2>7 DEF TypeOK
<1>16. TxnInv'
  <2>1. Last(w) = x
    BY <1>11 DEF Extends
  <2>2. Fits(t, w)
    BY <1>7, <1>9, <2>1, FitsRow
  <2>3. OpOK(op'[t], w)
    BY <1>14 DEF OpOK, Idle, Error
  <2>4. Covers(x, Top(t))
    BY <1>9 DEF Covers
  <2>5. PICK p : p = pending[t]
    OBVIOUS
  <2>6. PendingMoves(p, p, n, x)
    <3>1. \A u \in Rels : p[u] <= n
      BY <1>7, <1>10, <2>5 DEF PendingOK
    <3>2. x.trunc \subseteq Rels
      BY <1>9 DEF Level
    <3>3. p \in [Rels -> Nat] /\ \A u \in Rels : p[u] # 0 <=> u \in x.trunc
      BY <1>7, <1>9, <2>5
    <3> QED
      BY <3>1, <3>2, <3>3 DEF PendingMoves
  <2> QED
    BY <1>5, <1>9, <1>11, <1>12, <1>14, <2>2, <2>3, <2>4, <2>5, <2>6, ExtendsTxn
<1>17. StaleKept(shm, e)
  <2>1. StaleKept(m, e)
    BY <1>3, ChoiceStale
  <2> QED
    BY <2>1 DEF StaleKept
<1>18. StaleInv(shm)'
  <2>1. \A u \in Xids : u # 0
    BY DEF Xids
  <2>2. \A r0 \in Last(w).trunc : MarkedStale(shm, t, r0)'
    <3> SUFFICES ASSUME NEW r0 \in Top(t).trunc
                 PROVE  MarkedStale(shm, t, r0)'
      BY <1>9, <1>11 DEF Extends
    <3>1. r0 \in shm.hash /\ shm.stale[r0] = t
      BY ReadyFacts
    <3> QED
      BY <1>3, <1>17, <2>1, <3>1 DEF StaleKept, MarkedStale
  <2>3. \A u \in Xids : u # t /\ phase[u] = "active" =>
              \A r0 \in Top(u).trunc : r0 \in shm.hash /\ shm.stale[r0] = u =>
                                        r0 \in shm'.hash /\ shm'.stale[r0] = u
    BY <1>3, <1>17, <2>1 DEF StaleKept
  <2> QED
    BY <1>0, <1>14, <2>2, <2>3, StaleStep
<1>19. RowsGiven(m, q, G)
  <2>1. astray \subseteq astray' /\ astray' = astray \cup Strayed(t, r, e)
    BY <1>2 DEF Chose
  <2>2. ASSUME NEW y \in Xids, NEW u \in Rels, NEW a \in Segnos, HasRow(y, u, a)'
        PROVE  HasRow(y, u, a) \/ (y = t /\ u = r /\ a \in G)
    <3>1. CASE y # t
      BY <1>14, <2>2, <3>1 DEF HasRow, Writing, OthersSame
    <3>2. CASE y = t
      <4>1. RowIn(w, u, a)
        BY <1>14, <2>2, <3>2 DEF HasRow
      <4>2. RowIn(s, u, a) \/ (<<u, a>> \in x.rows /\ u \notin x.trunc)
        BY <1>11, <1>12, <4>1, ExtendsRow
      <4>3. CASE RowIn(s, u, a)
        BY <1>5, <3>2, <4>3 DEF HasRow, Writing
      <4>4. CASE <<u, a>> \in Top(t).rows /\ u \notin x.trunc
        <5>1. RowIn(s, u, a)
          BY <1>7, <1>9, <4>4, RowInTop
        <5> QED
          BY <4>3, <5>1
      <4>5. CASE <<u, a>> \in {r} \X G
        BY <3>2, <4>5
      <4> QED
        BY <1>9, <4>2, <4>3, <4>4, <4>5
    <3> QED
      BY <3>1, <3>2
  <2>3. ASSUME r \notin astray', NEW i \in ToSet(e.list[r]) \ ToSet(m.list[r]), e.status[i].xid \in Xids \ {t}
        PROVE  phase[e.status[i].xid] = "done"
    <3>1. r \notin Strayed(t, r, e) /\ i \in ToSet(e.list[r]) \ ToSet(shm.list[r])
      BY <2>1, <2>3
    <3> QED
      BY <2>3, <3>1, StrayedFacts
  <2> QED
    BY <1>3, <2>1, <2>2, <2>3 DEF RowsGiven
<1>20. RowsHeld(shm)' /\ OneHolder'
  BY <1>0, <1>3, <1>19, ChosenHeld
<1>21. Counted(shm)'
  BY <1>3, <1>19, ChosenCounted
<1>22. Pool(shm)'
  BY <1>3 DEF Pool
<1> QED
  BY <1>2, <1>3, <1>15, <1>16, <1>18, <1>19, <1>20, <1>21, <1>22 DEF AoInv


LEMMA LostSinceType ==
    ASSUME TypeOK, NEW t \in Xids, NEW hid
    PROVE  LostSince(t, hid) \in SUBSET (Xids \X Rels)
<1>1. lost \subseteq Xids \X Rels
  BY DEF TypeOK
<1>2. RemovedByUnseen \subseteq Rels
  BY DEF RemovedByUnseen, PendingRels
<1>3. {p \in lost : p[1] # t} \cup ({t} \X RemovedByUnseen) \subseteq Xids \X Rels
  BY <1>1, <1>2
<1> QED
  BY <1>1, <1>3 DEF LostSince

(* The level of a transaction that has locked relation r for writing. *)
RowLocking(v, r) == [v EXCEPT !.rowLock = @ \cup {r}]

LEMMA RowLockingFacts ==
    ASSUME NEW v, v \in Level, LevelOK(v), NEW r \in Rels, NEW x, x = RowLocking(v, r)
    PROVE  /\ x \in Level /\ LevelOK(x) /\ x.trunc = v.trunc /\ x.rows = v.rows
           /\ x.exclLock = v.exclLock /\ x.rowLock = v.rowLock \cup {r}
<1>1. PICK L : L = v.rowLock \cup {r}
  OBVIOUS
<1>2. x = [v EXCEPT !.rowLock = L] /\ L \in SUBSET Rels
  BY <1>1 DEF RowLocking, Level
<1>3. x \in Level /\ x.trunc = v.trunc /\ x.rows = v.rows /\ x.exclLock = v.exclLock /\ x.rowLock = L
  BY <1>2 DEF Level
<1> QED
  BY <1>1, <1>3 DEF LevelOK

(* A statement that finds no entry locks the relation and reads the catalog. *)
LEMMA WriteWaitsInv ==
    ASSUME AoInv, NEW t \in Xids, phase[t] = "active", op[t].kind = "none",
           NEW r \in Rels, RowLockable(t, r), NEW o \in Op, o.kind = "write", o.rel = r,
           view' = SetTop(t, RowLocking(Top(t), r)), op' = [op EXCEPT ![t] = o],
           shm' = shm, aoLock' = aoLock, garbage' = garbage, catalog' = catalog, nextXid' = nextXid,
           phase' = phase, pending' = pending, astray' = astray, unchecked' = unchecked,
           lost' \in SUBSET (Xids \X Rels),
           unseen' \in [Xids -> SUBSET Xids], stmts' \in 0 .. MaxStmt
    PROVE  AoInv' /\ NoNewRow
<1>0. /\ TypeOK /\ TxnInv /\ Pool(shm) /\ StaleInv(shm) /\ RowsHeld(shm) /\ OneHolder /\ Counted(shm)
      /\ InProcArray(t) /\ view \in [Xids -> Seq(Level)] /\ op \in [Xids -> Op]
  BY DEF AoInv, TypeOK, InProcArray
<1>1. PICK s, x, w : s = view[t] /\ x = RowLocking(Top(t), r) /\ w = Append(Front(s), x)
  OBVIOUS
<1>2. view' = [view EXCEPT ![t] = w]
  BY <1>0, <1>1 DEF SetTop
<1>3. /\ s \in Seq(Level) /\ LevelsOK(s) /\ Len(s) \in 1 .. MaxLevel /\ LevelOK(Top(t)) /\ Top(t) = Last(s)
      /\ s # << >> /\ NestLevel(t) = Len(s) /\ Fits(t, s) /\ Top(t) \in Level
      /\ pending[t] \in [Rels -> Nat] /\ PendingOK(pending[t], s)
      /\ \A u \in Rels : pending[t][u] # 0 <=> u \in Top(t).trunc
  BY <1>0, <1>1, ActiveFacts
<1>4. /\ x \in Level /\ LevelOK(x) /\ x.trunc = Top(t).trunc /\ x.rows = Top(t).rows
      /\ x.exclLock = Top(t).exclLock /\ x.rowLock = Top(t).rowLock \cup {r}
  BY <1>1, <1>3, RowLockingFacts
<1>5. PICK n : n = Len(s)
  OBVIOUS
<1>6. Extends(w, s, n, x)
  BY <1>1, <1>3, <1>4, <1>5, SetTopFacts
<1>7. n \in 1 .. MaxLevel /\ n <= Len(s) + 1 /\ n \in Nat /\ Len(s) \in Nat
  BY <1>3, <1>5, ConstAssumption
<1>8. view'[t] = w /\ \A u \in Xids : u # t => view'[u] = view[u]
  BY <1>0, <1>2
<1>9. op'[t] = o /\ op' \in [Xids -> Op] /\ \A u \in Xids : u # t => op'[u] = op[u]
  BY <1>0
<1>10. OthersSame(t)
  BY <1>8, <1>9 DEF OthersSame
<1>11. TypeOK'
  <2>1. w \in Seq(Level)
    BY <1>6 DEF Extends
  <2>2. view' \in [Xids -> Seq(Level)]
    BY <1>0, <1>2, <2>1
  <2> QED
    BY <1>0, <1>9, <2>2 DEF TypeOK
<1>12. Last(w) = x
  BY <1>6 DEF Extends
<1>13. TxnInv'
  <2>2. Fits(t, w)
    BY <1>3, <1>4, <1>12, FitsRow
  <2>3. OpOK(op'[t], w)
    BY <1>4, <1>9, <1>12 DEF OpOK
  <2>4. Covers(x, Top(t))
    BY <1>4 DEF Covers
  <2>5. PICK p : p = pending[t]
    OBVIOUS
  <2>6. PendingMoves(p, p, n, x)
    <3>1. \A u \in Rels : p[u] <= n
      BY <1>3, <1>5, <2>5 DEF PendingOK
    <3>2. x.trunc \subseteq Rels
      BY <1>4 DEF Level
    <3>3. p \in [Rels -> Nat] /\ \A u \in Rels : p[u] # 0 <=> u \in x.trunc
      BY <1>3, <1>4, <2>5
    <3> QED
      BY <3>1, <3>2, <3>3 DEF PendingMoves
  <2> QED
    BY <1>1, <1>4, <1>6, <1>7, <1>8, <1>10, <2>2, <2>3, <2>4, <2>5, <2>6, ExtendsTxn
<1>14. StaleInv(shm)'
  <2>1. \A r0 \in Last(w).trunc : MarkedStale(shm, t, r0)'
    BY <1>4, <1>12, ReadyFacts DEF MarkedStale
  <2> QED
    BY <1>0, <1>8, <1>10, <2>1, StaleStep
<1>15. NoNewRow
  <2>1. ASSUME NEW u \in Rels, NEW a \in Segnos, RowIn(w, u, a)
        PROVE  RowIn(s, u, a)
    <3>1. RowIn(s, u, a) \/ (<<u, a>> \in x.rows /\ u \notin x.trunc)
      BY <1>6, <1>7, <2>1, ExtendsRow
    <3> QED
      BY <1>3, <1>4, <3>1, RowInTop
  <2> QED
    BY <1>1, <1>8, <1>10, <2>1, NoNewRowStep DEF Writing
<1>16. RowsHeld(shm)' /\ OneHolder' /\ Counted(shm)'
  BY <1>0, <1>15, SameUseKeeps, SameUseSelf
<1> QED
  BY <1>0, <1>11, <1>13, <1>14, <1>15, <1>16 DEF AoInv


LEMMA SetSegnoForWriteInv ==
    ASSUME AoInv, NEW t \in Xids, NEW r \in Rels, SetSegnoForWrite(t, r)
    PROVE  AoInv' /\ (Gave(t, r, shm) \/ (NoNewRow /\ shm' = shm /\ astray' = astray))
<1>0. /\ TypeOK /\ Pool(shm) /\ RowsHeld(shm) /\ Counted(shm) /\ InProcArray(t)
      /\ phase[t] = "active" /\ op[t].kind = "none" /\ RowLockable(t, r) /\ stmts < MaxStmt
      /\ stmts' = stmts + 1
      /\ catalog' = catalog /\ nextXid' = nextXid /\ phase' = phase /\ pending' = pending
  BY DEF AoInv, SetSegnoForWrite, Ready, InProcArray
<1>1. stmts' \in 0 .. MaxStmt
  BY <1>0, ConstAssumption DEF TypeOK
<1>2. PICK v : v = RowLocking(Top(t), r)
  OBVIOUS
<1>3. Top(t) \in Level /\ LevelOK(Top(t))
  BY <1>0, ActiveFacts
<1>4. /\ v \in Level /\ v.trunc = Top(t).trunc /\ v.rows = Top(t).rows
      /\ v.exclLock = Top(t).exclLock /\ v.rowLock = Top(t).rowLock \cup {r}
  BY <1>2, <1>3, RowLockingFacts
<1>5. PICK n \in SegmentNums, reuse \in ReuseFlags(t, r), hid \in StatementSnapshots(t) :
        /\ unseen' = [unseen EXCEPT ![t] = hid]
        /\ \/ /\ r \in shm.hash
              /\ \E o \in ChooseSegnos(shm, [t |-> t, rel |-> r, n |-> n, reuse |-> reuse, hid |-> hid]) :
                   Chose(t, r, v, o, LostSince(t, hid))
           \/ /\ r \notin shm.hash
              /\ view' = SetTop(t, v)
              /\ op' = [op EXCEPT ![t] = [kind |-> "write", rel |-> r, n |-> n,
                                          reuse |-> reuse, rows |-> RowsSeen(t, r)]]
              /\ lost' = LostSince(t, hid)
              /\ UNCHANGED <<shm, aoLock, garbage, noteVars>>
  BY <1>2 DEF SetSegnoForWrite, RowLocking
<1>6. unseen' \in [Xids -> SUBSET Xids]
  <2>1. hid \in SUBSET Xids
    BY <1>0 DEF StatementSnapshots, NewSnapshot, TypeOK
  <2> QED
    BY <1>0, <1>5, <2>1 DEF TypeOK
<1>7. LostSince(t, hid) \in SUBSET (Xids \X Rels)
  BY <1>0, LostSinceType
<1>8. n \in Nat
  BY ConstAssumption
<1>9. CASE r \in shm.hash
  <2>1. PICK q : q = [t |-> t, rel |-> r, n |-> n, reuse |-> reuse, hid |-> hid]
    OBVIOUS
  <2>2. q.t = t /\ q.rel = r /\ q.n = n /\ q.hid = hid
    BY <2>1
  <2>a. q.hid = unseen'[t]
    BY <1>0, <1>5, <2>2 DEF TypeOK
  <2>3. PICK o \in ChooseSegnos(shm, q) : Chose(t, r, v, o, LostSince(t, hid))
    BY <1>5, <1>9, <2>1
  <2>4. PICK gone : gone = LostSince(t, hid)
    OBVIOUS
  <2>5. PICK m : m = shm
    OBVIOUS
  <2>6. /\ Pool(m) /\ RowsHeld(m) /\ Counted(m) /\ r \in m.hash /\ StaleKept(shm, m)
        /\ ToSet(shm.list[r]) \subseteq ToSet(m.list[r]) /\ o \in ChooseSegnos(m, q)
    BY <1>0, <1>9, <2>5 DEF StaleKept
  <2>7. gone \in SUBSET (Xids \X Rels) /\ Chose(t, r, v, o, gone) /\ q.n \in Nat
    BY <1>7, <1>8, <2>2, <2>3, <2>4
  <2>8. AoInv' /\ ChoiceOf(m, shm', q, o.segnos) /\ RowsGiven(m, q, o.segnos)
    BY <1>0, <1>1, <1>4, <1>6, <2>2, <2>6, <2>7, ChoseInv
  <2>9. Gave(t, r, m)
    BY <2>2, <2>a, <2>8 DEF Gave
  <2> QED
    BY <2>5, <2>8, <2>9
<1>10. CASE r \notin shm.hash
  <2>1. PICK o : o = [kind |-> "write", rel |-> r, n |-> n, reuse |-> reuse, rows |-> RowsSeen(t, r)]
    OBVIOUS
  <2>2. reuse \in BOOLEAN /\ RowsSeen(t, r) \in SUBSET Segnos
    BY DEF ReuseFlags, RowsSeen
  <2>3. o \in Op
    BY <2>1, <2>2 DEF Op
  <2>4. o.kind = "write" /\ o.rel = r
    BY <2>1
  <2>5. /\ view' = SetTop(t, RowLocking(Top(t), r)) /\ op' = [op EXCEPT ![t] = o]
        /\ lost' \in SUBSET (Xids \X Rels)
        /\ shm' = shm /\ aoLock' = aoLock /\ garbage' = garbage /\ astray' = astray /\ unchecked' = unchecked
    BY <1>2, <1>5, <1>7, <1>10, <2>1 DEF noteVars
  <2>6. AoInv' /\ NoNewRow
    BY <1>0, <1>1, <1>6, <2>3, <2>4, <2>5, WriteWaitsInv
  <2> QED
    BY <2>5, <2>6
<1> QED
  BY <1>9, <1>10

(* Table m has an entry for relation r that was found there or made, unless
   there was no room. *)
HasEntry(m, r) == m = shm \/ (r \notin shm.hash /\ Created(shm, m, r))

(* The entry a statement of transaction t makes for relation r. *)
LEMMA CreatedInv ==
    ASSUME AoInv, NEW r \in Rels, NEW rows \in SUBSET Segnos,
           NEW c \in AORelCreateHashEntry(shm, r, rows), NEW e, e = c.m
    PROVE  /\ Pool(e) /\ RowsHeld(e) /\ Counted(e) /\ StaleKept(shm, e)
           /\ c.ok => r \in e.hash
           /\ ToSet(shm.list[r]) \subseteq ToSet(e.list[r])
           /\ HasEntry(e, r)
<1>0. Pool(shm) /\ RowsHeld(shm) /\ Counted(shm)
  BY DEF AoInv
<1>1. Pool(e) /\ (c.ok => r \in e.hash) /\ (e = shm \/ (r \notin shm.hash /\ Created(shm, e, r)))
  BY <1>0, CreateFacts
<1>2. CASE e = shm
  BY <1>0, <1>1, <1>2 DEF StaleKept, HasEntry
<1>3. CASE r \notin shm.hash /\ Created(shm, e, r)
  <2>1. RowsHeld(e) /\ Counted(e)
    BY <1>0, <1>1, <1>3, CreatedKeeps
  <2>2. StaleKept(shm, e)
    BY <1>0, <1>1, <1>3, CreatedStale
  <2>3. ToSet(shm.list[r]) = {}
    BY <1>0, <1>3, EmptyFacts DEF Pool
  <2> QED
    BY <1>1, <1>3, <2>1, <2>2, <2>3 DEF HasEntry
<1> QED
  BY <1>1, <1>2, <1>3


(* A statement of transaction t that ends and leaves table d, in which an
   entry may have been marked stale, with nothing for the transaction. *)
LEMMA StatementEndsInv ==
    ASSUME AoInv, NEW t \in Xids, phase[t] = "active",
           NEW z \in {Idle, Error}, op' = [op EXCEPT ![t] = z],
           NEW m, Pool(m), RowsHeld(m), Counted(m), NEW d, Pool(d), SameUse(m, d), shm' = d,
           lost' \in SUBSET (Xids \X Rels), StaleInv(shm)',
           UNCHANGED <<aoLock, garbage, catalog, nextXid, phase, unseen, view, pending, stmts, noteVars>>
    PROVE  AoInv'
<1>0. /\ TypeOK /\ TxnInv /\ OneHolder /\ InProcArray(t) /\ op \in [Xids -> Op] /\ z \in Op
      /\ aoLock' = aoLock /\ garbage' = garbage /\ catalog' = catalog /\ nextXid' = nextXid
      /\ phase' = phase /\ unseen' = unseen /\ view' = view /\ pending' = pending /\ stmts' = stmts
      /\ astray' = astray /\ unchecked' = unchecked
  BY DEF AoInv, TypeOK, InProcArray, Op, noteVars
<1>1. op'[t] = z /\ op' \in [Xids -> Op] /\ \A u \in Xids : u # t => op'[u] = op[u]
  BY <1>0
<1>2. OthersSame(t)
  BY <1>0, <1>1 DEF OthersSame
<1>3. TypeOK'
  BY <1>0, <1>1 DEF TypeOK, Pool
<1>4. TxnInv'
  <2>1. LevelsOK(view[t]) /\ PendingOK(pending[t], view[t]) /\ Fits(t, view[t])
    BY <1>0, ActiveFacts
  <2>2. OpOK(op'[t], view[t])
    BY <1>1 DEF OpOK, Idle, Error
  <2> QED
    BY <1>0, <1>2, <2>1, <2>2, TxnStep
<1>5. NoNewRow
  BY <1>0 DEF NoNewRow, HasRow, Writing
<1>6. RowsHeld(shm)' /\ OneHolder' /\ Counted(shm)'
  BY <1>0, <1>5, SameUseKeeps
<1>7. Pool(shm)'
  BY DEF Pool
<1> QED
  BY <1>3, <1>4, <1>6, <1>7 DEF AoInv

LEMMA InsistInSubAbortInv ==
    ASSUME AoInv, NEW t \in Xids, InsistInSubAbort(t)
    PROVE  AoInv' /\ NoNewRow
<1>0. /\ TypeOK /\ TxnInv /\ OneHolder /\ InProcArray(t) /\ op \in [Xids -> Op] /\ Error \in Op
      /\ phase[t] = "active" /\ aoLock' = t
      /\ shm' = shm /\ lost' = lost /\ garbage' = garbage /\ catalog' = catalog /\ nextXid' = nextXid
      /\ phase' = phase /\ unseen' = unseen /\ view' = view /\ pending' = pending /\ stmts' = stmts
      /\ astray' = astray /\ unchecked' = unchecked /\ op' = [op EXCEPT ![t] = Error]
  BY DEF AoInv, TypeOK, InProcArray, Op, noteVars, diskVars, InsistInSubAbort
<1>1. op'[t] = Error /\ op' \in [Xids -> Op] /\ \A u \in Xids : u # t => op'[u] = op[u]
  BY <1>0
<1>2. OthersSame(t)
  BY <1>0, <1>1 DEF OthersSame
<1>3. TypeOK'
  <2>1. t \in 0 .. MaxXid
    BY ConstAssumption DEF Xids
  <2> QED
    BY <1>0, <1>1, <2>1 DEF TypeOK
<1>4. TxnInv'
  <2>1. LevelsOK(view[t]) /\ PendingOK(pending[t], view[t]) /\ Fits(t, view[t])
    BY <1>0, ActiveFacts
  <2>2. OpOK(op'[t], view[t])
    BY <1>1 DEF OpOK, Idle, Error
  <2> QED
    BY <1>0, <1>2, <2>1, <2>2, TxnStep
<1>5. NoNewRow
  BY <1>0 DEF NoNewRow, HasRow, Writing
<1>6. RowsHeld(shm)' /\ OneHolder' /\ Counted(shm)'
  BY <1>0, <1>5, SameUseKeeps, SameUseSelf DEF AoInv
<1>7. Pool(shm)'
  BY <1>0 DEF AoInv, Pool
<1>8. StaleInv(shm)'
  BY <1>0, <1>1 DEF AoInv, StaleInv, MarkedStale, NestLevel, Top, Error
<1> QED
  BY <1>3, <1>4, <1>5, <1>6, <1>7, <1>8 DEF AoInv

LEMMA CreateThenChooseInv ==
    ASSUME AoInv, NEW t \in Xids, CreateThenChoose(t)
    PROVE  AoInv' /\ \E m : HasEntry(m, op[t].rel) /\ (Gave(t, op[t].rel, m) \/ (shm' = m /\ view' = view))
<1>0. /\ TypeOK /\ InProcArray(t) /\ phase[t] = "active" /\ op[t].kind = "write" /\ op[t] \in Op
      /\ StaleInv(shm) /\ Pool(shm)
      /\ catalog' = catalog /\ nextXid' = nextXid /\ phase' = phase /\ pending' = pending
      /\ unseen' = unseen /\ stmts' = stmts
      /\ unseen \in [Xids -> SUBSET Xids] /\ stmts \in 0 .. MaxStmt /\ op \in [Xids -> Op]
  BY DEF AoInv, CreateThenChoose, InProcArray, TypeOK
<1>1. PICK o0 : o0 = op[t]
  OBVIOUS
<1>2. o0 \in [kind : {"write"}, rel : Rels, n : SegmentNums, reuse : BOOLEAN, rows : SUBSET Segnos]
  BY <1>0, <1>1 DEF Op, Idle, Error
<1>3. PICK r, rows : r = op[t].rel /\ rows = op[t].rows
  OBVIOUS
<1>4. r \in Rels /\ rows \in SUBSET Segnos /\ op[t].n \in SegmentNums
  BY <1>1, <1>2, <1>3
<1>5. Top(t) \in Level /\ OpOK(op[t], view[t]) /\ Top(t) = Last(view[t])
  BY <1>0, ActiveFacts
<1>6. r \in Top(t).rowLock
  BY <1>0, <1>3, <1>5 DEF OpOK
<1>7. RowLockable(t, r)
  BY <1>0, <1>6, FitsLocked
<1>8. PICK c \in AORelCreateHashEntry(shm, r, rows) :
         \/ /\ c.ok
            /\ \E o \in ChooseSegnos(c.m, [t |-> t, rel |-> r, n |-> op[t].n,
                                       reuse |-> op[t].reuse, hid |-> unseen[t]]) :
                 Chose(t, r, Top(t), o, lost)
         \/ /\ ~c.ok
            /\ shm' = c.m
            /\ lost' = LostBy(c.m)
            /\ op' = [op EXCEPT ![t] = Error]
            /\ UNCHANGED <<aoLock, garbage, view, noteVars>>
  BY <1>3 DEF CreateThenChoose
<1>9. PICK e : e = c.m
  OBVIOUS
<1>10. /\ Pool(e) /\ RowsHeld(e) /\ Counted(e) /\ StaleKept(shm, e)
       /\ c.ok => r \in e.hash
       /\ ToSet(shm.list[r]) \subseteq ToSet(e.list[r])
       /\ HasEntry(e, r)
  BY <1>4, <1>9, CreatedInv
<1>11. CASE c.ok
  <2>1. PICK q : q = [t |-> t, rel |-> r, n |-> op[t].n, reuse |-> op[t].reuse, hid |-> unseen[t]]
    OBVIOUS
  <2>a. \A a \in SegmentNums : a \in Nat
    BY ConstAssumption
  <2>b. q.t = t /\ q.rel = r /\ q.n = op[t].n /\ q.hid = unseen[t]
    BY <2>1
  <2>2. q.t = t /\ q.rel = r /\ q.n \in Nat
    BY <1>4, <2>a, <2>b
  <2>3. PICK o \in ChooseSegnos(e, q) : Chose(t, r, Top(t), o, lost)
    BY <1>8, <1>9, <1>11, <2>1
  <2>4. PICK v : v = Top(t)
    OBVIOUS
  <2>5. /\ v \in Level /\ v.trunc = Top(t).trunc /\ v.rows = Top(t).rows
        /\ v.exclLock = Top(t).exclLock /\ v.rowLock = Top(t).rowLock \cup {r}
        /\ Chose(t, r, v, o, lost)
    BY <1>5, <1>6, <2>3, <2>4
  <2>6. PICK gone : gone = lost
    OBVIOUS
  <2>7. gone \in SUBSET (Xids \X Rels) /\ Chose(t, r, v, o, gone)
    BY <1>0, <2>5, <2>6 DEF TypeOK
  <2>8. op[t].kind \notin {"error", "stale"} /\ r \in e.hash
    BY <1>0, <1>10, <1>11
  <2>9. AoInv' /\ ChoiceOf(e, shm', q, o.segnos) /\ RowsGiven(e, q, o.segnos)
    BY <1>0, <1>4, <1>7, <1>10, <2>2, <2>3, <2>5, <2>7, <2>8, ChoseInv
  <2>10. Gave(t, r, e)
    BY <1>0, <2>b, <2>9 DEF Gave
  <2> QED
    BY <1>3, <1>10, <2>9, <2>10
<1>12. CASE ~c.ok
  <2>1. /\ shm' = e /\ lost' = LostBy(e) /\ op' = [op EXCEPT ![t] = Error]
        /\ UNCHANGED <<aoLock, garbage, view, noteVars>>
    BY <1>8, <1>9, <1>12
  <2>2. lost' \in SUBSET (Xids \X Rels)
    BY <1>0, <2>1, LostType DEF TypeOK
  <2>3. OthersSame(t)
    BY <1>0, <2>1 DEF OthersSame
  <2>4. \A u \in Xids : u # 0
    BY DEF Xids
  <2>5. \A r0 \in Top(t).trunc : MarkedStale(shm, t, r0)'
    <3> SUFFICES ASSUME NEW r0 \in Top(t).trunc
                 PROVE  MarkedStale(shm, t, r0)'
      OBVIOUS
    <3>1. r0 \in shm.hash /\ shm.stale[r0] = t
      BY <1>0, ReadyFacts
    <3> QED
      BY <1>10, <2>1, <2>4, <3>1 DEF StaleKept, MarkedStale
  <2>6. \A u \in Xids : u # t /\ phase[u] = "active" =>
              \A r0 \in Top(u).trunc : r0 \in shm.hash /\ shm.stale[r0] = u =>
                                        r0 \in shm'.hash /\ shm'.stale[r0] = u
    BY <1>10, <2>1, <2>4 DEF StaleKept
  <2>7. StaleInv(shm)'
    BY <1>0, <2>1, <2>3, <2>5, <2>6, StaleStep DEF Top
  <2>8. SameUse(e, e) /\ Error \in {Idle, Error}
    BY SameUseSelf
  <2>9. AoInv'
    BY <1>0, <1>10, <2>1, <2>2, <2>7, <2>8, StatementEndsInv
  <2> QED
    BY <1>3, <1>10, <2>1, <2>9
<1> QED
  BY <1>11, <1>12


LEMMA CreateThenMarkStaleInv ==
    ASSUME AoInv, NEW t \in Xids, CreateThenMarkStale(t)
    PROVE  AoInv'
<1>0. /\ TypeOK /\ InProcArray(t) /\ phase[t] = "active" /\ op[t].kind = "stale" /\ op[t] \in Op
      /\ StaleInv(shm) /\ Pool(shm) /\ op \in [Xids -> Op]
      /\ UNCHANGED <<aoLock, garbage, catalog, nextXid, phase, unseen, view, pending, stmts, noteVars>>
  BY DEF AoInv, CreateThenMarkStale, InProcArray, TypeOK, diskVars
<1>1. PICK o0 : o0 = op[t]
  OBVIOUS
<1>2. o0 \in [kind : {"stale"}, rel : Rels, rows : SUBSET Segnos]
  BY <1>0, <1>1 DEF Op, Idle, Error
<1>3. PICK r, rows : r = op[t].rel /\ rows = op[t].rows
  OBVIOUS
<1>4. r \in Rels /\ rows \in SUBSET Segnos
  BY <1>1, <1>2, <1>3
<1>5. OpOK(op[t], view[t]) /\ Top(t) = Last(view[t])
  BY <1>0, ActiveFacts
<1>6. r \in Top(t).trunc
  BY <1>0, <1>3, <1>5 DEF OpOK
<1>7. PICK c \in AORelCreateHashEntry(shm, r, rows) :
         /\ shm' = IF c.ok THEN [c.m EXCEPT !.stale[r] = t] ELSE c.m
         /\ lost' = LostBy(c.m)
         /\ op' = [op EXCEPT ![t] = IF c.ok THEN Idle ELSE Error]
  BY <1>3 DEF CreateThenMarkStale
<1>8. PICK e : e = c.m
  OBVIOUS
<1>9. /\ Pool(e) /\ RowsHeld(e) /\ Counted(e) /\ StaleKept(shm, e)
      /\ c.ok => r \in e.hash
  BY <1>4, <1>8, CreatedInv
<1>10. PICK z : z = IF c.ok THEN Idle ELSE Error
  OBVIOUS
<1>11. z \in {Idle, Error} /\ op' = [op EXCEPT ![t] = z] /\ lost' = LostBy(e)
       /\ op'[t] = z /\ \A u \in Xids : u # t => op'[u] = op[u]
  BY <1>0, <1>7, <1>8, <1>10
<1>12. lost' \in SUBSET (Xids \X Rels)
  BY <1>0, <1>11, LostType DEF TypeOK
<1>13. OthersSame(t)
  BY <1>0, <1>11 DEF OthersSame
<1>14. PICK d, y : /\ y = [e.stale EXCEPT ![r] = t]
                   /\ d = IF c.ok THEN [e EXCEPT !.stale = y] ELSE e
  OBVIOUS
<1>15. y \in [Rels -> 0 .. MaxXid] /\ e.stale \in [Rels -> 0 .. MaxXid]
  <2>1. t \in 0 .. MaxXid
    BY ConstAssumption DEF Xids
  <2>2. e.stale \in [Rels -> 0 .. MaxXid]
    BY <1>9 DEF Pool, Shared
  <2> QED
    BY <1>14, <2>1, <2>2
<1>16. shm' = d
  BY <1>7, <1>8, <1>14
<1>17. /\ Pool(d) /\ SameUse(e, d)
       /\ c.ok => d.stale = y
       /\ ~c.ok => d = e
  <2>1. CASE c.ok
    BY <1>9, <1>14, <1>15, <2>1, PoolStale
  <2>2. CASE ~c.ok
    BY <1>9, <1>14, <2>2, SameUseSelf
  <2> QED
    BY <2>1, <2>2
<1>18. ASSUME NEW u \in Xids, NEW r0 \in shm.hash, shm.stale[r0] = u, r0 # r \/ ~c.ok
       PROVE  r0 \in d.hash /\ d.stale[r0] = u
  <2>1. u # 0 /\ r0 \in Rels
    BY <1>0 DEF Xids, Pool, Shared
  <2>2. r0 \in e.hash /\ e.stale[r0] = u
    BY <1>9, <1>18, <2>1 DEF StaleKept
  <2>3. d.hash = e.hash
    BY <1>17 DEF SameUse
  <2>4. c.ok => y[r0] = e.stale[r0]
    BY <1>14, <1>15, <1>18, <2>1
  <2> QED
    BY <1>17, <2>2, <2>3, <2>4
<1>19. StaleInv(shm)'
  <2>1. \A r0 \in Top(t).trunc : MarkedStale(shm, t, r0)'
    <3> SUFFICES ASSUME NEW r0 \in Top(t).trunc
                 PROVE  MarkedStale(shm, t, r0)'
      OBVIOUS
    <3>0. MarkedStale(shm, t, r0)
      BY <1>0 DEF StaleInv
    <3>1. CASE r0 = r /\ c.ok
      <4>1. r \in d.hash /\ d.stale[r] = t
        BY <1>4, <1>9, <1>14, <1>15, <1>17, <3>1 DEF SameUse
      <4> QED
        BY <1>16, <3>1, <4>1 DEF MarkedStale
    <3>2. CASE r0 \in shm.hash /\ shm.stale[r0] = t /\ (r0 # r \/ ~c.ok)
      BY <1>16, <1>18, <3>2 DEF MarkedStale
    <3>3. CASE r0 = r /\ ~c.ok /\ pending[t][r0] = NestLevel(t)
      <4>1. op'[t].kind = "error"
        BY <1>10, <1>11, <3>3 DEF Error
      <4> QED
        BY <1>0, <3>3, <4>1 DEF MarkedStale, NestLevel
    <3> QED
      BY <1>0, <1>3, <3>0, <3>1, <3>2, <3>3 DEF MarkedStale
  <2>2. \A u \in Xids : u # t /\ phase[u] = "active" =>
              \A r0 \in Top(u).trunc : r0 \in shm.hash /\ shm.stale[r0] = u =>
                                        r0 \in shm'.hash /\ shm'.stale[r0] = u
    BY <1>0, <1>6, <1>16, <1>18, TruncAlone DEF InProcArray
  <2> QED
    BY <1>0, <1>13, <2>1, <2>2, StaleStep DEF Top
<1> QED
  BY <1>0, <1>9, <1>11, <1>12, <1>16, <1>17, <1>19, StatementEndsInv

(* The level of a transaction that gave relation r new files. *)
Truncating(v, r, new) ==
    [v EXCEPT !.exclLock = @ \cup {r}, !.trunc = @ \cup {r},
              !.rows = (@ \ ({r} \X Segnos)) \cup ({r} \X new)]

(* Level x is level v with relation r truncated. *)
LevelTruncated(x, v, r) ==
    /\ x \in Level /\ LevelOK(x) /\ x.trunc = v.trunc \cup {r}
    /\ x.rowLock = v.rowLock /\ x.exclLock = v.exclLock \cup {r}
    /\ \A f \in x.rows : f \in v.rows \/ f[1] = r

LEMMA TruncatingFacts ==
    ASSUME NEW v, v \in Level, LevelOK(v), NEW r \in Rels, NEW new, new \in SUBSET Segnos,
           NEW x, x = Truncating(v, r, new)
    PROVE  LevelTruncated(x, v, r)
<1>1. PICK E, T, R : /\ E = v.exclLock \cup {r} /\ T = v.trunc \cup {r}
                     /\ R = (v.rows \ ({r} \X Segnos)) \cup ({r} \X new)
  OBVIOUS
<1>2. x = [v EXCEPT !.exclLock = E, !.trunc = T, !.rows = R]
  BY <1>1 DEF Truncating
<1>3. E \in SUBSET Rels /\ T \in SUBSET Rels
  BY <1>1 DEF Level
<1>4. R \in SUBSET Files
  BY <1>1 DEF Level, Files
<1>5. x \in Level /\ x.trunc = T /\ x.rowLock = v.rowLock /\ x.exclLock = E /\ x.rows = R
  BY <1>2, <1>3, <1>4 DEF Level
<1>6. \A f \in R : f \in v.rows \/ f[1] = r
  BY <1>1
<1>7. LevelOK(x)
  <2>1. \A f \in R : f[1] \in v.rowLock \cup E
    BY <1>1, <1>6 DEF LevelOK
  <2>2. T \subseteq E
    BY <1>1 DEF LevelOK
  <2> QED
    BY <1>5, <2>1, <2>2 DEF LevelOK
<1> QED
  BY <1>1, <1>5, <1>6, <1>7 DEF LevelTruncated

LEMMA FitsExcl ==
    ASSUME NEW t, NEW r, NEW v, NEW w, Fits(t, v), ExclLockable(t, r),
           Last(w).rowLock = Last(v).rowLock, Last(w).exclLock = Last(v).exclLock \cup {r}
    PROVE  Fits(t, w)
<1> SUFFICES ASSUME NEW u \in Xids, u # t, InProcArray(u)
             PROVE  Apart(w, view[u]) /\ Apart(view[u], w)
  BY DEF Fits
<1>1. Apart(v, view[u]) /\ Apart(view[u], v)
  BY DEF Fits
<1>2. r \notin Last(view[u]).exclLock \cup Last(view[u]).rowLock
  BY DEF ExclLockable, HoldsLocks, Top
<1> QED
  BY <1>1, <1>2 DEF Apart

(* One more pending removal, of relation r at level n. *)
AskedFor(p, r, n) == [p EXCEPT ![r] = PendingLevel(@, n)]

(* The pending removals p, at levels up to n, are the ones of the relations T. *)
PendingAt(p, n, T) ==
    /\ T \subseteq Rels
    /\ \A u \in Rels : p[u] <= n
    /\ \A u \in Rels : p[u] # 0 <=> u \in T

MovedTo(p, q, r, n) ==
    /\ q \in [Rels -> 0 .. n]
    /\ p[r] = 0 => q[r] = n

LEMMA PendingAsked ==
    ASSUME NEW n, n \in Nat \ {0}, NEW p, p \in [Rels -> Nat], NEW T, PendingAt(p, n, T), NEW r \in Rels,
           NEW q, q = AskedFor(p, r, n), NEW x, x.trunc = T \cup {r}
    PROVE  PendingMoves(p, q, n, x) /\ MovedTo(p, q, r, n)
<1>1. PICK k : k = PendingLevel(p[r], n)
  OBVIOUS
<1>2. /\ k \in 1 .. n
      /\ k = p[r] \/ (~(p[r] \in 1 .. (n - 1)) /\ k = n)
      /\ p[r] = 0 => k = n
  BY <1>1 DEF PendingLevel
<1>3. q = [p EXCEPT ![r] = k]
  BY <1>1 DEF AskedFor
<1>4. q[r] = k /\ \A u \in Rels : u # r => q[u] = p[u]
  BY <1>3
<1>5. q \in [Rels -> Nat] /\ \A u \in Rels : q[u] <= n
  BY <1>2, <1>3, <1>4 DEF PendingAt
<1>6. \A u \in Rels : q[u] = p[u] \/ (~(p[u] \in 1 .. (n - 1)) /\ q[u] \in {0, n})
  BY <1>2, <1>4
<1>7. x.trunc \subseteq Rels /\ \A u \in Rels : q[u] # 0 <=> u \in x.trunc
  <2>1. k # 0
    BY <1>2
  <2> QED
    BY <1>4, <2>1 DEF PendingAt
<1>8. q \in [Rels -> 0 .. n]
  BY <1>5
<1> QED
  BY <1>2, <1>4, <1>5, <1>6, <1>7, <1>8 DEF PendingMoves, MovedTo


LEMMA AORelRemoveHashEntryOnCommitInv ==
    ASSUME AoInv, NEW t \in Xids, NEW r \in Rels, AORelRemoveHashEntryOnCommit(t, r)
    PROVE  AoInv' /\ NoNewRow
<1>0. /\ TypeOK /\ Pool(shm) /\ StaleInv(shm) /\ RowsHeld(shm) /\ OneHolder /\ Counted(shm) /\ InProcArray(t)
      /\ phase[t] = "active" /\ op[t].kind = "none" /\ ExclLockable(t, r) /\ stmts < MaxStmt
      /\ stmts' = stmts + 1
      /\ nextXid' = nextXid /\ phase' = phase /\ aoLock' = aoLock /\ catalog' = catalog
      /\ garbage' = garbage /\ unseen' = unseen /\ lost' = lost /\ astray' = astray /\ unchecked' = unchecked
      /\ view \in [Xids -> Seq(Level)] /\ op \in [Xids -> Op]
      /\ pending \in [Xids -> [Rels -> 0 .. MaxLevel]]
  BY DEF AoInv, AORelRemoveHashEntryOnCommit, Ready, InProcArray, TypeOK, diskVars, noteVars
<1>1. stmts' \in 0 .. MaxStmt
  BY <1>0, ConstAssumption DEF TypeOK
<1>2. PICK new \in {{}} \cup {1 .. n : n \in SegmentNums} :
         /\ view' = SetTop(t, Truncating(Top(t), r, new))
         /\ \/ /\ r \in shm.hash
               /\ shm' = [shm EXCEPT !.stale[r] = t]
               /\ UNCHANGED op
            \/ /\ r \notin shm.hash
               /\ op' = [op EXCEPT ![t] = [kind |-> "stale", rel |-> r,
                                           rows |-> IF new = {} THEN RowsSeen(t, r) ELSE new]]
               /\ UNCHANGED shm
  BY DEF AORelRemoveHashEntryOnCommit, Truncating
<1>3. new \in SUBSET Segnos
  BY ConstAssumption DEF Segnos
<1>4. PICK s, x, w, p, q : /\ s = view[t] /\ x = Truncating(Top(t), r, new) /\ w = Append(Front(s), x)
                           /\ p = pending[t] /\ q = AskedFor(p, r, NestLevel(t))
  OBVIOUS
<1>5. view' = [view EXCEPT ![t] = w]
  BY <1>0, <1>2, <1>4 DEF SetTop
<1>6. pending' = [pending EXCEPT ![t] = q]
  BY <1>0, <1>4 DEF AORelRemoveHashEntryOnCommit, AskedFor
<1>7. /\ s \in Seq(Level) /\ LevelsOK(s) /\ Len(s) \in 1 .. MaxLevel /\ LevelOK(Top(t)) /\ Top(t) = Last(s)
      /\ s # << >> /\ NestLevel(t) = Len(s) /\ Fits(t, s) /\ Top(t) \in Level
      /\ p \in [Rels -> Nat] /\ PendingOK(p, s)
      /\ \A u \in Rels : p[u] # 0 <=> u \in Top(t).trunc
  BY <1>0, <1>4, ActiveFacts
<1>8. LevelTruncated(x, Top(t), r)
  BY <1>3, <1>4, <1>7, TruncatingFacts
<1>9. /\ x \in Level /\ LevelOK(x) /\ x.trunc = Top(t).trunc \cup {r}
      /\ x.rowLock = Top(t).rowLock /\ x.exclLock = Top(t).exclLock \cup {r}
      /\ \A f \in x.rows : f \in Top(t).rows \/ f[1] = r
  BY <1>8 DEF LevelTruncated
<1>10. PICK n : n = Len(s)
  OBVIOUS
<1>11. Extends(w, s, n, x)
  BY <1>4, <1>7, <1>9, <1>10, SetTopFacts
<1>12. n \in 1 .. MaxLevel /\ n <= Len(s) + 1 /\ n \in Nat \ {0} /\ Len(s) \in Nat
  BY <1>7, <1>10, ConstAssumption
<1>13. Last(w) = x /\ Len(w) = n
  BY <1>11 DEF Extends
<1>14. view'[t] = w /\ \A u \in Xids : u # t => view'[u] = view[u]
  BY <1>0, <1>5
<1>15. pending'[t] = q /\ \A u \in Xids : u # t => pending'[u] = pending[u]
  BY <1>0, <1>6
<1>16. PendingMoves(p, q, n, x) /\ MovedTo(p, q, r, n)
  <2>1. q = AskedFor(p, r, n)
    BY <1>4, <1>7, <1>10
  <2>2. \A u \in Rels : p[u] <= n
    BY <1>7, <1>10 DEF PendingOK
  <2>3. PICK T : T = Top(t).trunc
    OBVIOUS
  <2>4. PendingAt(p, n, T) /\ x.trunc = T \cup {r}
    BY <1>7, <1>9, <2>2, <2>3 DEF Level, PendingAt
  <2> QED
    BY <1>7, <1>12, <2>1, <2>4, PendingAsked
<1>17. PICK o : o = [kind |-> "stale", rel |-> r, rows |-> IF new = {} THEN RowsSeen(t, r) ELSE new]
  OBVIOUS
<1>18. o \in Op /\ o.kind = "stale" /\ o.rel = r
  <2>1. PICK R : R = IF new = {} THEN RowsSeen(t, r) ELSE new
    OBVIOUS
  <2>2. R \in SUBSET Segnos
    BY <1>3, <2>1 DEF RowsSeen
  <2>3. o = [kind |-> "stale", rel |-> r, rows |-> R]
    BY <1>17, <2>1
  <2> QED
    BY <2>2, <2>3 DEF Op
<1>19. /\ op' \in [Xids -> Op] /\ \A u \in Xids : u # t => op'[u] = op[u]
       /\ r \in shm.hash => op' = op
       /\ r \notin shm.hash => op'[t] = o
  BY <1>0, <1>2, <1>17, <1>18
<1>20. PICK y : y = [shm.stale EXCEPT ![r] = t]
  OBVIOUS
<1>a. PICK m, d : m = shm /\ d = [m EXCEPT !.stale = y]
  OBVIOUS
<1>21. shm' = IF r \in shm.hash THEN d ELSE shm
  BY <1>2, <1>20, <1>a
<1>22. y \in [Rels -> 0 .. MaxXid] /\ shm.stale \in [Rels -> 0 .. MaxXid]
  <2>1. t \in 0 .. MaxXid
    BY ConstAssumption DEF Xids
  <2>2. shm.stale \in [Rels -> 0 .. MaxXid]
    BY <1>0 DEF Pool, Shared
  <2> QED
    BY <1>20, <2>1, <2>2
<1>23. Pool(d) /\ SameUse(shm, d) /\ d.stale = y
  <2>1. Pool(m) /\ d = [m EXCEPT !.stale = y]
    BY <1>0, <1>a
  <2>2. Pool(d) /\ SameUse(m, d) /\ d.stale = y
    BY <1>22, <2>1, PoolStale
  <2> QED
    BY <1>a, <2>2
<1>24. PICK e : e = shm'
  OBVIOUS
<1>25. Pool(e) /\ SameUse(shm, e)
  <2>1. e = d \/ e = shm
    BY <1>21, <1>24
  <2> QED
    BY <1>0, <1>23, <2>1, SameUseSelf
<1>26. OthersSame(t)
  BY <1>0, <1>14, <1>15, <1>19 DEF OthersSame
<1>27. TypeOK'
  <2>1. w \in Seq(Level)
    BY <1>11 DEF Extends
  <2>2. view' \in [Xids -> Seq(Level)]
    BY <1>0, <1>5, <2>1
  <2>3. q \in [Rels -> 0 .. MaxLevel]
    BY <1>12, <1>16, ConstAssumption DEF MovedTo
  <2>4. pending' \in [Xids -> [Rels -> 0 .. MaxLevel]]
    BY <1>0, <1>6, <2>3
  <2>5. shm' \in Shared
    BY <1>24, <1>25 DEF Pool
  <2> QED
    BY <1>0, <1>1, <1>19, <2>2, <2>4, <2>5 DEF TypeOK
<1>28. TxnInv'
  <2>2. Fits(t, w)
    BY <1>0, <1>7, <1>9, <1>13, FitsExcl
  <2>3. OpOK(op'[t], w)
    <3>1. CASE r \in shm.hash
      BY <1>0, <1>19, <3>1 DEF OpOK
    <3>2. CASE r \notin shm.hash
      BY <1>9, <1>13, <1>18, <1>19, <3>2 DEF OpOK
    <3> QED
      BY <3>1, <3>2
  <2>4. Covers(x, Top(t))
    BY <1>9 DEF Covers
  <2> QED
    <3>1. /\ Extends(view'[t], view[t], n, x) /\ n <= Len(view[t]) + 1
          /\ PendingMoves(pending[t], pending'[t], n, x)
      BY <1>4, <1>11, <1>12, <1>14, <1>15, <1>16
    <3>2. OpOK(op'[t], view'[t]) /\ Fits(t, view'[t])
      BY <1>14, <2>2, <2>3
    <3> QED
      BY <1>0, <1>9, <1>12, <1>26, <2>4, <3>1, <3>2, ExtendsTxn
<1>29. StaleInv(shm)'
  <2>1. \A r0 \in Last(w).trunc : MarkedStale(shm, t, r0)'
    <3> SUFFICES ASSUME NEW r0 \in x.trunc
                 PROVE  MarkedStale(shm, t, r0)'
      BY <1>13
    <3>1. CASE r \in shm.hash
      <4>1. d.hash = shm.hash /\ shm' = d /\ r0 \in Rels
        BY <1>9, <1>21, <1>23, <3>1 DEF SameUse, Level
      <4>2. r0 \in shm.hash /\ d.stale[r0] = t
        <5>1. CASE r0 = r
          BY <1>20, <1>22, <1>23, <3>1, <5>1
        <5>2. CASE r0 # r
          BY <1>0, <1>9, <1>20, <1>22, <1>23, <4>1, <5>2, ReadyFacts
        <5> QED
          BY <5>1, <5>2
      <4> QED
        BY <4>1, <4>2 DEF MarkedStale
    <3>2. CASE r \notin shm.hash /\ r0 # r
      BY <1>0, <1>9, <1>21, <3>2, ReadyFacts DEF MarkedStale
    <3>3. CASE r \notin shm.hash /\ r0 = r
      <4>1. r \notin Top(t).trunc
        BY <1>0, <3>3, ReadyFacts
      <4>2. q[r] = n
        BY <1>7, <1>16, <4>1 DEF MovedTo
      <4>3. NestLevel(t)' = n
        BY <1>13, <1>14 DEF NestLevel
      <4> QED
        BY <1>15, <1>18, <1>19, <3>3, <4>2, <4>3 DEF MarkedStale
    <3> QED
      BY <3>1, <3>2, <3>3
  <2>2. ASSUME NEW u \in Xids, u # t, phase[u] = "active", NEW r0 \in Top(u).trunc,
               r0 \in shm.hash, shm.stale[r0] = u
        PROVE  r0 \in shm'.hash /\ shm'.stale[r0] = u
    <3>1. InProcArray(u)
      BY <2>2 DEF InProcArray
    <3>2. LevelOK(Top(u)) /\ r0 \in Rels
      BY <1>0, <2>2, <3>1, ActiveFacts DEF Level
    <3>3. r0 # r
      BY <1>0, <2>2, <3>1, <3>2 DEF ExclLockable, HoldsLocks, LevelOK
    <3>4. d.hash = shm.hash /\ d.stale[r0] = shm.stale[r0]
      BY <1>20, <1>22, <1>23, <3>2, <3>3 DEF SameUse
    <3> QED
      BY <1>21, <2>2, <3>4
  <2> QED
    BY <1>0, <1>14, <1>26, <2>1, <2>2, StaleStep
<1>30. NoNewRow
  <2>1. ASSUME NEW u \in Rels, NEW a \in Segnos, RowIn(w, u, a)
        PROVE  RowIn(s, u, a)
    <3>1. RowIn(s, u, a) \/ (<<u, a>> \in x.rows /\ u \notin x.trunc)
      BY <1>11, <1>12, <2>1, ExtendsRow
    <3>2. ASSUME <<u, a>> \in x.rows, u \notin x.trunc
          PROVE  <<u, a>> \in Top(t).rows /\ u \notin Top(t).trunc
      BY <1>9, <3>2
    <3> QED
      BY <1>7, <3>1, <3>2, RowInTop
  <2> QED
    BY <1>0, <1>4, <1>14, <1>26, <2>1, NoNewRowStep DEF Writing
<1>31. RowsHeld(shm)' /\ OneHolder' /\ Counted(shm)'
  <2>1. SameUse(shm, shm')
    BY <1>24, <1>25
  <2> QED
    BY <1>0, <1>30, <2>1, SameUseKeeps
<1>32. Pool(shm)'
  BY <1>24, <1>25 DEF Pool
<1> QED
  BY <1>27, <1>28, <1>29, <1>30, <1>31, <1>32 DEF AoInv


-----------------------------------------------------------------------------
(* The invariant holds always *)

LEMMA InitInv == Init => AoInv
<1> SUFFICES ASSUME Init
             PROVE  AoInv
  OBVIOUS
<1>0. MaxXid \in Nat /\ MaxSegno \in Nat /\ MaxStmt \in Nat /\ MaxLevel \in Nat \ {0}
  BY ConstAssumption
<1>1. \A S : << >> \in Seq(S)
  BY EmptyFacts
<1>2. shm \in Shared
  <2>1. [i \in Ids |-> [segno |-> 0, inuse |-> FALSE, xid |-> 0, latestWriteXid |-> 0, isfull |-> FALSE,
                        needCheck |-> FALSE, large |-> FALSE]] \in [Ids -> Status]
    BY <1>0 DEF Status
  <2>2. [r \in Rels |-> << >>] \in [Rels -> Seq(Ids)]
    BY <1>1
  <2>3. /\ [r \in Rels |-> 0] \in [Rels -> Int] /\ [r \in Rels |-> 0] \in [Rels -> 0 .. MaxXid]
        /\ [r \in Rels |-> 0] \in [Rels -> 0 .. MaxSegno]
    BY <1>0
  <2> QED
    BY <2>1, <2>2, <2>3 DEF Init, Shared
<1>3. /\ \A r \in Rels : shm.list[r] = << >> /\ shm.txns[r] = 0
      /\ \A i \in Ids : shm.status[i].xid = 0
      /\ shm.hash = {}
  BY DEF Init
<1>4. \A r \in Rels : ToSet(shm.list[r]) = {}
  BY <1>3, EmptyFacts
<1>5. Pool(shm)
  BY <1>2, <1>3, <1>4 DEF Pool
<1>6. TypeOK
  <2>1. catalog \in [Rels -> [Segnos -> NoRow .. MaxXid]]
    BY <1>0 DEF Init, NoRow
  <2>2. garbage \subseteq Files
    BY ConstAssumption DEF Init, Files, Segnos
  <2>3. view \in [Xids -> Seq(Level)]
    BY <1>1 DEF Init
  <2>4. pending \in [Xids -> [Rels -> 0 .. MaxLevel]]
    BY <1>0 DEF Init
  <2>5. op \in [Xids -> Op] /\ unseen \in [Xids -> SUBSET Xids]
    BY DEF Init, Op
  <2>6. nextXid \in 1 .. (MaxXid + 1) /\ stmts \in 0 .. MaxStmt /\ aoLock \in 0 .. MaxXid
    BY <1>0 DEF Init
  <2>7. phase \in [Xids -> {"none", "active", "commit", "abort", "released", "done"}]
    BY DEF Init
  <2>8. lost \subseteq Xids \X Rels /\ astray \subseteq Rels /\ unchecked \subseteq Files
    BY DEF Init
  <2> QED
    BY <1>2, <2>1, <2>2, <2>3, <2>4, <2>5, <2>6, <2>7, <2>8 DEF TypeOK
<1>7. \A t \in Xids : phase[t] = "none" /\ op[t] = Idle /\ \A r \in Rels : pending[t][r] = 0
  BY DEF Init
<1>8. TxnInv /\ StaleInv(shm)
  BY <1>7 DEF TxnInv, StaleInv, InProcArray
<1>9. RowsHeld(shm) /\ OneHolder /\ Counted(shm)
  BY <1>3, <1>7 DEF RowsHeld, OneHolder, Counted, HasRow, Writing
<1> QED
  BY <1>5, <1>6, <1>8, <1>9 DEF AoInv

LEMMA NextInv == AoInv /\ [Next]_vars => AoInv'
<1> SUFFICES ASSUME AoInv, [Next]_vars
             PROVE  AoInv'
  OBVIOUS
<1>1. CASE BeginTransaction
  BY <1>1, BeginTransactionInv
<1>2. ASSUME NEW t \in Xids, Transaction(t)
      PROVE  AoInv'
  <2>1. CASE BeginSubTransaction(t)
    BY <2>1, BeginSubTransactionInv
  <2>2. CASE \E r \in Rels : SetSegnoForWrite(t, r)
    BY <2>2, SetSegnoForWriteInv
  <2>3. CASE CreateThenChoose(t)
    BY <2>3, CreateThenChooseInv
  <2>4. CASE \E r \in Rels : AORelRemoveHashEntryOnCommit(t, r)
    BY <2>4, AORelRemoveHashEntryOnCommitInv
  <2>5. CASE CreateThenMarkStale(t)
    BY <2>5, CreateThenMarkStaleInv
  <2>6. CASE AtCommit_AppendOnly(t)
    BY <2>6, AtCommitInv
  <2>7. CASE RecordTransactionCommit(t)
    BY <2>7, RecordTransactionCommitInv
  <2>8. CASE AtAbort_AppendOnly(t)
    BY <2>8, AtAbortInv
  <2>9. CASE RecordTransactionAbort(t)
    BY <2>9, RecordTransactionAbortInv
  <2>10. CASE AtEOXact_AppendOnly(t)
    BY <2>10, AtEOXactInv
  <2>11. CASE AtSubCommit_AppendOnly(t)
    BY <2>11, AtSubCommitInv
  <2>12. CASE AtSubAbort_AppendOnly(t)
    BY <2>12, AtSubAbortInv
  <2>13. CASE InsistInSubAbort(t)
    BY <2>13, InsistInSubAbortInv
  <2> QED
    BY <1>2, <2>1, <2>2, <2>3, <2>4, <2>5, <2>6, <2>7, <2>8, <2>9, <2>10, <2>11, <2>12, <2>13 DEF Transaction
<1>3. CASE UNCHANGED vars
  <2>1. /\ shm' = shm /\ aoLock' = aoLock /\ catalog' = catalog /\ garbage' = garbage /\ nextXid' = nextXid
        /\ phase' = phase /\ unseen' = unseen /\ view' = view /\ pending' = pending /\ op' = op
        /\ stmts' = stmts /\ lost' = lost /\ astray' = astray /\ unchecked' = unchecked
    BY <1>3 DEF vars, txnVars, diskVars, noteVars
  <2>2. TypeOK'
    BY <2>1 DEF AoInv, TypeOK
  <2>3. Pool(shm)'
    BY <2>1 DEF AoInv, Pool
  <2>4. TxnInv'
    BY <2>1 DEF AoInv, TxnInv, InProcArray
  <2>5. StaleInv(shm)'
    BY <2>1 DEF AoInv, StaleInv, MarkedStale, NestLevel, Top
  <2>6. NoNewRow
    BY <2>1 DEF NoNewRow, HasRow, Writing
  <2>7. RowsHeld(shm)' /\ OneHolder' /\ Counted(shm)'
    BY <2>1, <2>6, SameUseKeeps, SameUseSelf DEF AoInv
  <2> QED
    BY <2>2, <2>3, <2>4, <2>5, <2>7 DEF AoInv
<1> QED
  BY <1>1, <1>2, <1>3 DEF Next

LEMMA AlwaysAoInv == Spec => []AoInv
  BY InitInv, NextInv, PTL DEF Spec

(***************************************************************************)
(* Every reachable state is typed: the numbers, transactions and statuses  *)
(* of the table stay in their ranges however entries are thrown out, built *)
(* again and grown.                                                        *)
(***************************************************************************)
THEOREM AlwaysTypeOK == Spec => []TypeOK
<1>1. AoInv => TypeOK
  BY DEF AoInv
<1> QED
  BY <1>1, AlwaysAoInv, PTL

(***************************************************************************)
(* SetSegnoForWrite never gives a segment file to two running              *)
(* transactions, for any number of transactions, savepoints, relations,    *)
(* statuses and segments, unless the relation's entry took in a status     *)
(* that still names another writer.                                        *)
(***************************************************************************)
THEOREM AlwaysGivenOnce == Spec => []GivenOnce
<1>1. ASSUME AoInv
      PROVE  GivenOnce
  <2> SUFFICES ASSUME NEW t \in Xids, NEW u \in Xids, t # u, phase[t] = "active", phase[u] = "active",
                      NEW f \in Top(t).rows \cap Top(u).rows
               PROVE  f[1] \in astray
    BY DEF GivenOnce
  <2>1. InProcArray(t) /\ InProcArray(u)
    BY DEF InProcArray
  <2>2. /\ Top(t) \in Level /\ LevelOK(Top(t)) /\ Top(u) \in Level /\ LevelOK(Top(u))
        /\ view[t] \in Seq(Level) /\ LevelsOK(view[t]) /\ view[u] \in Seq(Level) /\ LevelsOK(view[u])
        /\ Top(t) = Last(view[t]) /\ Top(u) = Last(view[u])
    BY <1>1, <2>1, ActiveFacts
  <2>3. PICK r \in Rels, s \in Segnos : f = <<r, s>>
    BY <2>2 DEF Level, Files
  <2>4. f[1] = r
    BY <2>3
  <2>5. Apart(view[t], view[u]) /\ Apart(view[u], view[t])
    BY <1>1, <2>1 DEF AoInv, TxnInv
  <2>6. r \in Top(t).rowLock \cup Top(t).exclLock /\ r \in Top(u).rowLock \cup Top(u).exclLock
    BY <2>2, <2>4 DEF LevelOK
  <2>7. r \notin Top(t).trunc /\ r \notin Top(u).trunc
    BY <2>2, <2>5, <2>6 DEF LevelOK, Apart
  <2>8. HasRow(t, r, s) /\ HasRow(u, r, s)
    BY <2>2, <2>3, <2>7, RowInTop DEF HasRow, Writing
  <2> QED
    BY <1>1, <2>4, <2>8 DEF AoInv, OneHolder
<1> QED
  BY <1>1, AlwaysAoInv, PTL

(***************************************************************************)
(* txns_using_rel counts every transaction that holds a segment file of    *)
(* the relation, so that AppendOnlyRelHashNew and AORelGetSegfileStatus    *)
(* never throw out an entry that is used, unless the entry took in a       *)
(* status that still names another writer.                                 *)
(***************************************************************************)
THEOREM AlwaysUsersCounted == Spec => []UsersCounted
<1>1. ASSUME AoInv
      PROVE  UsersCounted
  <2> SUFFICES ASSUME NEW r \in shm.hash \ astray
               PROVE  Cardinality(Users(shm, r)) <= shm.txns[r]
    BY DEF UsersCounted
  <2>1. Users(shm, r) \subseteq Holders(shm, r) /\ Holders(shm, r) \subseteq Xids
    BY DEF Holders, Users
  <2>2. IsFiniteSet(Holders(shm, r))
    BY <2>1, XidsFinite, FS_Subset
  <2>3. Cardinality(Users(shm, r)) <= Cardinality(Holders(shm, r))
    BY <2>1, <2>2, FS_Subset
  <2>4. Cardinality(Holders(shm, r)) <= shm.txns[r]
    BY <1>1 DEF AoInv, Counted
  <2>5. Cardinality(Users(shm, r)) \in Nat /\ Cardinality(Holders(shm, r)) \in Nat
    BY <2>1, <2>2, FS_Subset, FS_CardinalityType
  <2>6. shm.txns[r] \in Int
    BY <1>1 DEF AoInv, Pool, Shared
  <2> QED
    BY <2>3, <2>4, <2>5, <2>6
<1> QED
  BY <1>1, AlwaysAoInv, PTL

(***************************************************************************)
(* At every nest level, AtCommit_AppendOnly and AtAbort_AppendOnly find    *)
(* the relations truncated at that level and not rolled back, no others,   *)
(* among the pending removals, and their entries in the table and marked   *)
(* stale, whatever subtransactions committed and aborted before.           *)
(***************************************************************************)
THEOREM AlwaysPendingIsTruncated == Spec => []PendingIsTruncated
<1>1. ASSUME AoInv
      PROVE  PendingIsTruncated
  <2> SUFFICES ASSUME NEW t \in Xids, Ready(t)
               PROVE  /\ \A k \in 1 .. NestLevel(t) :
                           {r \in Rels : pending[t][r] \in 1 .. k} = view[t][k].trunc
                      /\ \A r \in Top(t).trunc : r \in shm.hash /\ shm.stale[r] = t
    BY DEF PendingIsTruncated
  <2>1. InProcArray(t) /\ phase[t] = "active" /\ op[t].kind = "none"
    BY DEF Ready, InProcArray
  <2>2. PendingOK(pending[t], view[t])
    BY <1>1, <2>1, ActiveFacts
  <2>3. \A r \in Top(t).trunc : r \in shm.hash /\ shm.stale[r] = t
    BY <1>1, <2>1, ReadyFacts
  <2> QED
    BY <2>2, <2>3 DEF PendingOK, NestLevel
<1> QED
  BY <1>1, AlwaysAoInv, PTL

-----------------------------------------------------------------------------
(***************************************************************************)
(* A transaction is not given a file whose last committed writer its       *)
(* snapshot hides.  The rows of the catalog, the snapshots and the table   *)
(* are changed by different steps: the table remembers a writer before its *)
(* commit is recorded, and SeenInv says that until then every snapshot     *)
(* hides it and no other transaction holds its files.                      *)
(***************************************************************************)

(* A snapshot hides the transactions that run. *)
Hides ==
    \A t, u \in Xids : phase[t] = "active" /\ u # t /\ (InProcArray(u) \/ u >= nextXid) => u \in unseen[t]

(* The writer of a row of the catalog has left the process array. *)
Finished ==
    \A r \in Rels, s \in Segnos : catalog[r][s] \in Xids => phase[catalog[r][s]] \in {"released", "done"}

(* Entries that a transaction removed before its commit is recorded count as
   lost for all that run. *)
TruncLost ==
    \A t, u \in Xids : phase[u] = "commit" /\ phase[t] = "active" => \A r \in Top(u).trunc : <<t, r>> \in lost

(* The table knows what happened to relation r since the snapshot of t. *)
Knows(t, r) == phase[t] = "active" /\ r \notin astray /\ <<t, r>> \notin lost

(* The status of file s says that one of W was the last to write, or keeps
   everybody from it. *)
Noted(m, r, s, W) ==
    \E i \in ToSet(m.list[r]) : /\ m.status[i].segno = s
                                /\ \/ m.status[i].latestWriteXid \in W
                                   \/ m.status[i].xid = 0 /\ m.status[i].inuse

Remembered(m) ==
    \A t \in Xids, r \in Rels, s \in Segnos :
       Knows(t, r) /\ catalog[r][s] \in unseen[t] => Noted(m, r, s, unseen[t])

WriterNoted(m) ==
    \A t \in Xids, r \in Rels \ astray, s \in Segnos :
       phase[t] = "commit" /\ RowIn(view[t], r, s) => Noted(m, r, s, {t})

(* Transaction t was given file s, or a status still names it. *)
Has(m, t, r, s) ==
    HasRow(t, r, s) \/ \E i \in ToSet(m.list[r]) : m.status[i].segno = s /\ m.status[i].xid = t

OwnSeen(m) ==
    \A t \in Xids, r \in Rels, s \in Segnos :
       Knows(t, r) /\ Has(m, t, r, s) => catalog[r][s] \notin unseen[t]

SeenInv == Hides /\ Finished /\ TruncLost /\ Remembered(shm) /\ WriterNoted(shm) /\ OwnSeen(shm)

-----------------------------------------------------------------------------
(* What a step has to do for each part *)

KeptSnapshot(x) ==
    /\ phase[x] = "active" /\ unseen'[x] = unseen[x]
    /\ \A r \in Rels : <<x, r>> \in lost => <<x, r>> \in lost'

NewlyTaken(x) ==
    /\ unseen'[x] = NewSnapshot \ {x}
    /\ \A r \in RemovedByUnseen : <<x, r>> \in lost'

Snapshots == \A x \in Xids : phase'[x] = "active" => KeptSnapshot(x) \/ NewlyTaken(x)

(* No transaction comes back to the process array. *)
Onwards ==
    /\ \A u \in Xids : InProcArray(u)' \/ u >= nextXid' => InProcArray(u) \/ u >= nextXid
    /\ \A u \in Xids : phase[u] \in {"released", "done"} => phase'[u] \in {"released", "done"}

(* None comes to AtCommit_AppendOnly. *)
NoCommit == \A u \in Xids : phase'[u] = "commit" => phase[u] = "commit" /\ view'[u] = view[u]

(* The note of a writer is kept, or it is known that the entry is lost. *)
NoteKept(r, s, W) == Noted(shm, r, s, W) => Noted(shm', r, s, W) \/ r \in shm.hash \ shm'.hash

(* Transaction x has nothing new, or what it may have. *)
NoNewClaim ==
    \A x \in Xids, r \in Rels, s \in Segnos :
       Knows(x, r)' /\ Has(shm, x, r, s)' => Has(shm, x, r, s) \/ catalog[r][s] \notin unseen'[x]

LEMMA HidesStep ==
    ASSUME Hides, Snapshots, Onwards
    PROVE  Hides'
<1> SUFFICES ASSUME NEW t \in Xids, NEW u \in Xids, phase'[t] = "active", u # t,
                    InProcArray(u)' \/ u >= nextXid'
             PROVE  u \in unseen'[t]
  BY DEF Hides
<1>1. InProcArray(u) \/ u >= nextXid
  BY DEF Onwards
<1>2. CASE KeptSnapshot(t)
  BY <1>1, <1>2 DEF KeptSnapshot, Hides
<1>3. CASE NewlyTaken(t)
  BY <1>1, <1>3 DEF NewlyTaken, NewSnapshot
<1> QED
  BY <1>2, <1>3 DEF Snapshots

LEMMA FinishedStep ==
    ASSUME Finished, Onwards, catalog' = catalog
    PROVE  Finished'
    BY DEF Finished, Onwards

(* A new snapshot hides none of the writers of the rows. *)
LEMMA NewlyTakenSees ==
    ASSUME AoInv, Finished, NEW x \in Xids, NewlyTaken(x), NEW r \in Rels, NEW s \in Segnos
    PROVE  catalog[r][s] \notin unseen'[x]
<1> SUFFICES ASSUME catalog[r][s] \in NewSnapshot
             PROVE  FALSE
  BY DEF NewlyTaken
<1>1. PICK w \in Xids : w = catalog[r][s] /\ (w >= nextXid \/ InProcArray(w))
  BY DEF NewSnapshot
<1>2. phase[w] \in {"released", "done"}
  BY <1>1 DEF Finished
<1>3. w >= nextXid => phase[w] = "none"
  BY DEF AoInv, TxnInv
<1> QED
  BY <1>1, <1>2, <1>3 DEF InProcArray

LEMMA TruncLostStep ==
    ASSUME AoInv, TruncLost, Snapshots, NoCommit
    PROVE  TruncLost'
<1> SUFFICES ASSUME NEW t \in Xids, NEW u \in Xids, phase'[u] = "commit", phase'[t] = "active",
                    NEW r \in Last(view'[u]).trunc
             PROVE  <<t, r>> \in lost'
  BY DEF TruncLost, Top
<1>1. phase[u] = "commit" /\ r \in Top(u).trunc /\ InProcArray(u)
  BY DEF NoCommit, Top, InProcArray
<1>2. r \in Rels /\ pending[u][r] # 0
  BY <1>1, ActiveFacts DEF Level
<1>3. CASE KeptSnapshot(t)
  BY <1>1, <1>2, <1>3 DEF KeptSnapshot, TruncLost
<1>4. CASE NewlyTaken(t)
  BY <1>1, <1>2, <1>4 DEF NewlyTaken, RemovedByUnseen, PendingRels
<1> QED
  BY <1>3, <1>4 DEF Snapshots

(* What the table knows now it knew before. *)
LEMMA KnewStep ==
    ASSUME NEW x \in Xids, NEW r \in Rels, Knows(x, r)', KeptSnapshot(x), astray \subseteq astray'
    PROVE  Knows(x, r)
    BY DEF Knows, KeptSnapshot

LEMMA RememberedStep ==
    ASSUME AoInv, Finished, Remembered(shm), Snapshots, catalog' = catalog, astray \subseteq astray',
           RemovedFrom(shm') \subseteq lost',
           \A x \in Xids, r \in Rels, s \in Segnos : phase'[x] = "active" => NoteKept(r, s, unseen[x])
    PROVE  Remembered(shm)'
<1> SUFFICES ASSUME NEW x \in Xids, NEW r \in Rels, NEW s \in Segnos, Knows(x, r)',
                    catalog[r][s] \in unseen'[x]
             PROVE  Noted(shm', r, s, unseen'[x])
  BY DEF Remembered, Noted
<1>1. phase'[x] = "active" /\ <<x, r>> \notin lost'
  BY DEF Knows
<1>2. KeptSnapshot(x)
  BY <1>1, NewlyTakenSees DEF Snapshots
<1>3. Knows(x, r) /\ unseen'[x] = unseen[x] /\ InProcArray(x)
  BY <1>2, KnewStep DEF KeptSnapshot, InProcArray
<1>4. Noted(shm, r, s, unseen[x])
  BY <1>3 DEF Remembered
<1>5. r \notin shm.hash \ shm'.hash
  BY <1>1, <1>3 DEF RemovedFrom
<1> QED
  BY <1>1, <1>3, <1>4, <1>5 DEF NoteKept

(* A file that is held has an entry. *)
LEMMA HeldEntry ==
    ASSUME NEW m, Pool(m), NEW t, NEW r \in Rels, NEW s, HeldIn(m, t, r, s)
    PROVE  r \in m.hash
    BY EmptyFacts DEF HeldIn, Pool

LEMMA WriterNotedStep ==
    ASSUME AoInv', WriterNoted(shm), NoCommit, astray \subseteq astray',
           \A u \in Xids, r \in Rels, s \in Segnos : phase[u] = "commit" => NoteKept(r, s, {u})
    PROVE  WriterNoted(shm)'
<1> SUFFICES ASSUME NEW u \in Xids, NEW r \in Rels \ astray', NEW s \in Segnos,
                    phase'[u] = "commit", RowIn(view'[u], r, s)
             PROVE  Noted(shm', r, s, {u})
  BY DEF WriterNoted, RowIn, Noted
<1>1. phase[u] = "commit" /\ RowIn(view[u], r, s)
  BY DEF NoCommit
<1>2. Noted(shm, r, s, {u})
  BY <1>1 DEF WriterNoted
<1>3. HasRow(u, r, s)'
  BY DEF HasRow, Writing, RowIn
<1>a. HeldIn(shm, u, r, s)'
  BY <1>3 DEF AoInv, RowsHeld
<1>b. HeldIn(shm', u, r, s)
  BY <1>a DEF HeldIn
<1>4. HeldIn(shm', u, r, s) /\ Pool(shm')
  BY <1>b DEF AoInv, Pool
<1>5. r \in shm'.hash
  BY <1>4, HeldEntry
<1> QED
  BY <1>1, <1>2, <1>5 DEF NoteKept

LEMMA OwnSeenStep ==
    ASSUME AoInv, Finished, OwnSeen(shm), Snapshots, catalog' = catalog, astray \subseteq astray', NoNewClaim
    PROVE  OwnSeen(shm)'
<1> SUFFICES ASSUME NEW x \in Xids, NEW r \in Rels, NEW s \in Segnos, Knows(x, r)', Has(shm, x, r, s)',
                    catalog[r][s] \in unseen'[x]
             PROVE  FALSE
  BY DEF OwnSeen
<1>1. phase'[x] = "active"
  BY DEF Knows
<1>2. KeptSnapshot(x)
  BY <1>1, NewlyTakenSees DEF Snapshots
<1>3. Knows(x, r) /\ unseen'[x] = unseen[x]
  BY <1>2, KnewStep DEF KeptSnapshot
<1>4. Has(shm, x, r, s)
  BY DEF NoNewClaim
<1> QED
  BY <1>3, <1>4 DEF OwnSeen

-----------------------------------------------------------------------------
(* Steps that give nobody anything *)

(* Table e has the notes of table m, but for the entries that were removed. *)
NotesKept(m, e) ==
    \A r \in Rels, s \in Segnos, W \in SUBSET Xids :
       Noted(m, r, s, W) => Noted(e, r, s, W) \/ r \in m.hash \ e.hash

(* And its statuses name nobody new. *)
ClaimsKept(m, e) ==
    \A r \in Rels : \A i \in ToSet(e.list[r]) : e.status[i].xid # 0 =>
       /\ i \in ToSet(m.list[r])
       /\ m.status[i].xid = e.status[i].xid /\ m.status[i].segno = e.status[i].segno

(* A status says the same to those who look for a file. *)
SameNote(st, sn) ==
    /\ sn.segno = st.segno /\ sn.xid = st.xid /\ sn.latestWriteXid = st.latestWriteXid
    /\ sn.inuse <=> st.inuse

LEMMA SameNotesKept ==
    ASSUME NEW m, m \in Shared, NEW e, e.list = m.list, \A i \in Ids : SameNote(m.status[i], e.status[i])
    PROVE  NotesKept(m, e) /\ ClaimsKept(m, e)
<1>1. \A r \in Rels : ToSet(m.list[r]) \subseteq Ids
  BY ToSetFacts DEF Shared
<1>2. ASSUME NEW r \in Rels, NEW s \in Segnos, NEW W \in SUBSET Xids, Noted(m, r, s, W)
      PROVE  Noted(e, r, s, W)
  <2>1. PICK i \in ToSet(m.list[r]) : /\ m.status[i].segno = s
                                      /\ \/ m.status[i].latestWriteXid \in W
                                         \/ m.status[i].xid = 0 /\ m.status[i].inuse
    BY <1>2 DEF Noted
  <2>2. SameNote(m.status[i], e.status[i]) /\ i \in ToSet(e.list[r])
    BY <1>1
  <2> QED
    BY <2>1, <2>2 DEF Noted, SameNote
<1>3. NotesKept(m, e)
  BY <1>2 DEF NotesKept
<1>4. ClaimsKept(m, e)
  BY <1>1 DEF ClaimsKept, SameNote
<1> QED
  BY <1>3, <1>4

LEMMA ClaimStep ==
    ASSUME ClaimsKept(shm, shm'), NoNewRow
    PROVE  NoNewClaim
<1> SUFFICES ASSUME NEW x \in Xids, NEW r \in Rels, NEW s \in Segnos, Has(shm, x, r, s)'
             PROVE  Has(shm, x, r, s)
  BY DEF NoNewClaim
<1>1. CASE HasRow(x, r, s)'
  BY <1>1 DEF NoNewRow, Has
<1>2. ASSUME NEW i \in ToSet(shm'.list[r]), shm'.status[i].segno = s, shm'.status[i].xid = x
      PROVE  Has(shm, x, r, s)
  <2>1. x # 0
    BY DEF Xids
  <2> QED
    BY <1>2, <2>1 DEF ClaimsKept, Has
<1> QED
  BY <1>1, <1>2 DEF Has

LEMMA SeenStep ==
    ASSUME AoInv, AoInv', SeenInv, Snapshots, Onwards, NoCommit, catalog' = catalog, astray \subseteq astray',
           RemovedFrom(shm') \subseteq lost', NotesKept(shm, shm'), NoNewClaim
    PROVE  SeenInv'
<1>0. /\ Hides /\ Finished /\ TruncLost /\ Remembered(shm) /\ WriterNoted(shm) /\ OwnSeen(shm)
      /\ unseen \in [Xids -> SUBSET Xids]
  BY DEF SeenInv, AoInv, TypeOK
<1>1. \A x \in Xids, r \in Rels, s \in Segnos : phase'[x] = "active" => NoteKept(r, s, unseen[x])
  BY <1>0 DEF NotesKept, NoteKept
<1>2. \A u \in Xids, r \in Rels, s \in Segnos : phase[u] = "commit" => NoteKept(r, s, {u})
  BY DEF NotesKept, NoteKept
<1>3. Hides' /\ Finished' /\ TruncLost'
  BY <1>0, HidesStep, FinishedStep, TruncLostStep
<1>4. Remembered(shm)'
  BY <1>0, <1>1, RememberedStep
<1>5. WriterNoted(shm)'
  BY <1>0, <1>2, WriterNotedStep
<1>6. OwnSeen(shm)'
  BY <1>0, OwnSeenStep
<1> QED
  BY <1>3, <1>4, <1>5, <1>6 DEF SeenInv

(* A step that takes no snapshot. *)
LEMMA NoSnapshot ==
    ASSUME lost \subseteq lost', unseen' = unseen, \A x \in Xids : phase'[x] = "active" => phase[x] = "active"
    PROVE  Snapshots
    BY DEF Snapshots, KeptSnapshot

(* A step in which no transaction starts or ends. *)
LEMMA SamePhase ==
    ASSUME phase' = phase, nextXid' = nextXid, NEW t \in Xids, phase[t] = "active",
           \A u \in Xids : u # t => view'[u] = view[u]
    PROVE  Onwards /\ NoCommit
    BY DEF Onwards, NoCommit, InProcArray

LEMMA SameTable ==
    ASSUME Pool(shm), shm' = shm
    PROVE  NotesKept(shm, shm') /\ ClaimsKept(shm, shm') /\ RemovedFrom(shm') \subseteq lost'
<1>1. RemovedFrom(shm') \subseteq lost'
  BY DEF RemovedFrom
<1>2. PICK m : m = shm
  OBVIOUS
<1>3. m \in Shared /\ \A i \in Ids : SameNote(m.status[i], m.status[i])
  BY <1>2 DEF Pool, SameNote
<1>4. NotesKept(m, m) /\ ClaimsKept(m, m)
  BY <1>3, SameNotesKept
<1> QED
  BY <1>1, <1>2, <1>4

LEMMA BeginTransactionSeen ==
    ASSUME AoInv, SeenInv, BeginTransaction
    PROVE  SeenInv'
<1>1. AoInv' /\ NoNewRow
  BY BeginTransactionInv
<1>2. /\ TypeOK /\ Pool(shm) /\ TxnInv
      /\ nextXid \in Xids /\ shm' = shm /\ catalog' = catalog /\ astray' = astray
      /\ nextXid' = nextXid + 1 /\ phase' = [phase EXCEPT ![nextXid] = "active"]
      /\ lost' = lost \cup ({nextXid} \X RemovedByUnseen)
      /\ view' = [view EXCEPT ![nextXid] = <<NoWork>>]
      /\ unseen' = [unseen EXCEPT ![nextXid] = {x \in Xids : x > nextXid \/ InProcArray(x)}]
  BY DEF AoInv, BeginTransaction, diskVars, noteVars
<1>3. phase[nextXid] = "none" /\ phase'[nextXid] = "active"
      /\ \A u \in Xids : u # nextXid => phase'[u] = phase[u] /\ unseen'[u] = unseen[u] /\ view'[u] = view[u]
  <2>1. nextXid >= nextXid
    BY <1>2 DEF Xids
  <2> QED
    BY <1>2, <2>1 DEF TypeOK, TxnInv
<1>4. {x \in Xids : x > nextXid \/ InProcArray(x)} = NewSnapshot \ {nextXid}
  BY <1>2, <1>3 DEF NewSnapshot, InProcArray, Xids
<1>5. NewlyTaken(nextXid)
  <2>1. unseen'[nextXid] = NewSnapshot \ {nextXid}
    BY <1>2, <1>4 DEF TypeOK
  <2> QED
    BY <1>2, <2>1 DEF NewlyTaken
<1>6. Snapshots
  BY <1>2, <1>3, <1>5 DEF Snapshots, KeptSnapshot
<1>7. Onwards /\ NoCommit
  <2>1. \A u \in Xids : u >= nextXid' => u >= nextXid
    BY <1>2 DEF Xids
  <2>2. nextXid >= nextXid
    BY <1>2 DEF Xids
  <2> QED
    BY <1>3, <2>1, <2>2 DEF Onwards, NoCommit, InProcArray
<1>8. NotesKept(shm, shm') /\ ClaimsKept(shm, shm') /\ RemovedFrom(shm') \subseteq lost'
  BY <1>2, SameTable
<1> QED
  BY <1>1, <1>2, <1>6, <1>7, <1>8, ClaimStep, SeenStep

LEMMA BeginSubTransactionSeen ==
    ASSUME AoInv, SeenInv, NEW t \in Xids, BeginSubTransaction(t)
    PROVE  SeenInv'
<1>1. AoInv' /\ NoNewRow /\ Pool(shm)
  BY BeginSubTransactionInv DEF AoInv
<1>2. /\ phase[t] = "active" /\ shm' = shm /\ catalog' = catalog /\ astray' = astray /\ lost' = lost
      /\ unseen' = unseen /\ phase' = phase /\ nextXid' = nextXid
      /\ \A u \in Xids : u # t => view'[u] = view[u]
  BY DEF BeginSubTransaction, Ready, diskVars, noteVars, AoInv, TypeOK
<1>3. Snapshots /\ Onwards /\ NoCommit
  BY <1>2, NoSnapshot, SamePhase
<1>4. NotesKept(shm, shm') /\ ClaimsKept(shm, shm') /\ RemovedFrom(shm') \subseteq lost'
  BY <1>1, <1>2, SameTable
<1> QED
  BY <1>1, <1>2, <1>3, <1>4, ClaimStep, SeenStep

LEMMA AtSubCommitSeen ==
    ASSUME AoInv, SeenInv, NEW t \in Xids, AtSubCommit_AppendOnly(t)
    PROVE  SeenInv'
<1>1. AoInv' /\ NoNewRow /\ Pool(shm)
  BY AtSubCommitInv DEF AoInv
<1>2. /\ phase[t] = "active" /\ shm' = shm /\ catalog' = catalog /\ astray' = astray /\ lost' = lost
      /\ unseen' = unseen /\ phase' = phase /\ nextXid' = nextXid
      /\ \A u \in Xids : u # t => view'[u] = view[u]
  BY DEF AtSubCommit_AppendOnly, Ready, diskVars, noteVars, AoInv, TypeOK
<1>3. Snapshots /\ Onwards /\ NoCommit
  BY <1>2, NoSnapshot, SamePhase
<1>4. NotesKept(shm, shm') /\ ClaimsKept(shm, shm') /\ RemovedFrom(shm') \subseteq lost'
  BY <1>1, <1>2, SameTable
<1> QED
  BY <1>1, <1>2, <1>3, <1>4, ClaimStep, SeenStep

LEMMA InsistInSubAbortSeen ==
    ASSUME AoInv, SeenInv, NEW t \in Xids, InsistInSubAbort(t)
    PROVE  SeenInv'
<1>1. AoInv' /\ NoNewRow /\ Pool(shm)
  BY InsistInSubAbortInv DEF AoInv
<1>2. /\ phase[t] = "active" /\ shm' = shm /\ catalog' = catalog /\ astray' = astray /\ lost' = lost
      /\ unseen' = unseen /\ phase' = phase /\ nextXid' = nextXid
      /\ \A u \in Xids : u # t => view'[u] = view[u]
  BY DEF InsistInSubAbort, diskVars, noteVars
<1>3. Snapshots /\ Onwards /\ NoCommit
  BY <1>2, NoSnapshot, SamePhase
<1>4. NotesKept(shm, shm') /\ ClaimsKept(shm, shm') /\ RemovedFrom(shm') \subseteq lost'
  BY <1>1, <1>2, SameTable
<1> QED
  BY <1>1, <1>2, <1>3, <1>4, ClaimStep, SeenStep

LEMMA RecordTransactionAbortSeen ==
    ASSUME AoInv, SeenInv, NEW t \in Xids, RecordTransactionAbort(t)
    PROVE  SeenInv'
<1>1. AoInv' /\ Pool(shm)
  BY RecordTransactionAbortInv DEF AoInv
<1>2. /\ shm' = shm /\ catalog' = catalog /\ astray' = astray /\ lost' = lost /\ view' = view
      /\ unseen' = unseen /\ nextXid' = nextXid /\ phase[t] = "abort" /\ phase'[t] = "released"
      /\ \A u \in Xids : u # t => phase'[u] = phase[u]
  BY DEF RecordTransactionAbort, noteVars, AoInv, TypeOK
<1>3. Snapshots /\ Onwards /\ NoCommit /\ NoNewRow
  BY <1>2, NoSnapshot DEF Onwards, NoCommit, InProcArray, NoNewRow, HasRow, Writing
<1>4. NotesKept(shm, shm') /\ ClaimsKept(shm, shm') /\ RemovedFrom(shm') \subseteq lost'
  BY <1>1, <1>2, SameTable
<1> QED
  BY <1>1, <1>2, <1>3, <1>4, ClaimStep, SeenStep

LEMMA AORelRemoveHashEntryOnCommitSeen ==
    ASSUME AoInv, SeenInv, NEW t \in Xids, NEW r \in Rels, AORelRemoveHashEntryOnCommit(t, r)
    PROVE  SeenInv'
<1>1. AoInv' /\ NoNewRow /\ Pool(shm) /\ shm \in Shared
  BY AORelRemoveHashEntryOnCommitInv DEF AoInv, Pool
<1>2. /\ phase[t] = "active" /\ catalog' = catalog /\ astray' = astray /\ lost' = lost
      /\ unseen' = unseen /\ phase' = phase /\ nextXid' = nextXid
      /\ \A u \in Xids : u # t => view'[u] = view[u]
      /\ shm' = shm \/ shm' = [shm EXCEPT !.stale[r] = t]
  BY DEF AORelRemoveHashEntryOnCommit, Ready, diskVars, noteVars, AoInv, TypeOK, SetTop
<1>3. Snapshots /\ Onwards /\ NoCommit
  BY <1>2, NoSnapshot, SamePhase
<1>4. shm'.hash = shm.hash /\ shm'.list = shm.list /\ shm'.status = shm.status
  BY <1>1, <1>2 DEF Shared
<1>5. NotesKept(shm, shm') /\ ClaimsKept(shm, shm')
  <2>1. \A i \in Ids : SameNote(shm.status[i], shm'.status[i])
    BY <1>4 DEF SameNote
  <2> QED
    BY <1>1, <1>4, <2>1, SameNotesKept
<1>6. RemovedFrom(shm') \subseteq lost'
  BY <1>4 DEF RemovedFrom
<1> QED
  BY <1>1, <1>2, <1>3, <1>5, <1>6, ClaimStep, SeenStep

(* Table m with the marks y, the files C to be checked again. *)
Distrusting(m, y, C) ==
    LET d == [m EXCEPT !.stale = y]
    IN  [d EXCEPT !.status = [i \in Ids |-> IF i \in C THEN Distrusted(d.status[i]) ELSE d.status[i]]]

LEMMA DistrustedNotes ==
    ASSUME NEW m, Pool(m), NEW y, NEW C, NEW e, e = Distrusting(m, y, C)
    PROVE  e.hash = m.hash /\ NotesKept(m, e) /\ ClaimsKept(m, e)
<1>1. m \in Shared /\ \A i \in Ids : m.status[i] \in Status
  BY DEF Pool, Shared
<1>2. e.hash = m.hash /\ e.list = m.list
  BY <1>1 DEF Shared, Distrusting
<1>3. \A i \in Ids : e.status[i] = IF i \in C THEN Distrusted(m.status[i]) ELSE m.status[i]
  BY <1>1 DEF Shared, Distrusting
<1>4. ASSUME NEW st \in Status
      PROVE  SameNote(st, Distrusted(st))
  <2>1. Distrusted(st).latestWriteXid = st.latestWriteXid
    BY DEF Status, Distrusted
  <2> QED
    BY <2>1, DistrustedStatus, Zenon DEF SameNote
<1>5. \A i \in Ids : SameNote(m.status[i], e.status[i])
  <2> SUFFICES ASSUME NEW i \in Ids
               PROVE  SameNote(m.status[i], e.status[i])
    OBVIOUS
  <2>1. SameNote(m.status[i], m.status[i])
    BY DEF SameNote
  <2> QED
    BY <1>1, <1>3, <1>4, <2>1
<1> QED
  BY <1>1, <1>2, <1>5, SameNotesKept

LEMMA AtAbortSeen ==
    ASSUME AoInv, SeenInv, NEW t \in Xids, AtAbort_AppendOnly(t)
    PROVE  SeenInv'
<1>1. AoInv' /\ Pool(shm)
  BY AtAbortInv DEF AoInv
<1>2. /\ catalog' = catalog /\ astray' = astray /\ lost' = lost /\ view' = view
      /\ unseen' = unseen /\ nextXid' = nextXid /\ phase[t] \in {"active", "commit"} /\ phase'[t] = "abort"
      /\ \A u \in Xids : u # t => phase'[u] = phase[u]
  BY DEF AtAbort_AppendOnly, diskVars, noteVars, AoInv, TypeOK
<1>3. Snapshots /\ Onwards /\ NoCommit /\ NoNewRow
  BY <1>2, NoSnapshot DEF Onwards, NoCommit, InProcArray, NoNewRow, HasRow, Writing
<1>4. PICK m, y : m = shm /\ y = [r \in Rels |-> IF shm.stale[r] = t THEN 0 ELSE shm.stale[r]]
  OBVIOUS
<1>5. PICK d : d = [m EXCEPT !.stale = y]
  OBVIOUS
<1>6. PICK C, e : C = OwnIds(d, t) /\ e = shm'
  OBVIOUS
<1>7. e = Distrusting(m, y, C)
  BY <1>4, <1>5, <1>6 DEF AtAbort_AppendOnly, Distrusting
<1>8. Pool(m)
  BY <1>1, <1>4
<1>9. e.hash = m.hash /\ NotesKept(m, e) /\ ClaimsKept(m, e)
  BY <1>7, <1>8, DistrustedNotes
<1>10. shm'.hash = shm.hash /\ NotesKept(shm, shm') /\ ClaimsKept(shm, shm')
  BY <1>4, <1>6, <1>9
<1>11. RemovedFrom(shm') \subseteq lost'
  BY <1>10 DEF RemovedFrom
<1> QED
  BY <1>1, <1>2, <1>3, <1>10, <1>11, ClaimStep, SeenStep

LEMMA AtSubAbortSeen ==
    ASSUME AoInv, SeenInv, NEW t \in Xids, AtSubAbort_AppendOnly(t)
    PROVE  SeenInv'
<1>1. AoInv' /\ NoNewRow /\ Pool(shm)
  BY AtSubAbortInv DEF AoInv
<1>2. /\ phase[t] = "active" /\ catalog' = catalog /\ astray' = astray /\ lost' = lost
      /\ unseen' = unseen /\ phase' = phase /\ nextXid' = nextXid
      /\ \A u \in Xids : u # t => view'[u] = view[u]
  BY DEF AtSubAbort_AppendOnly, noteVars, AoInv, TypeOK
<1>3. Snapshots /\ Onwards /\ NoCommit
  BY <1>2, NoSnapshot, SamePhase
<1>4. PICK m, D : m = shm /\ D = {r \in Rels : pending[t][r] >= NestLevel(t)}
  OBVIOUS
<1>5. PICK y : y = [r \in Rels |-> IF r \in D THEN 0 ELSE shm.stale[r]]
  OBVIOUS
<1>6. PICK d : d = [m EXCEPT !.stale = y]
  OBVIOUS
<1>7. PICK C, e : C = OwnIds(d, t) /\ e = shm'
  OBVIOUS
<1>8. e = Distrusting(m, y, C)
  BY <1>4, <1>5, <1>6, <1>7 DEF AtSubAbort_AppendOnly, Distrusting
<1>9. Pool(m)
  BY <1>1, <1>4
<1>10. e.hash = m.hash /\ NotesKept(m, e) /\ ClaimsKept(m, e)
  BY <1>8, <1>9, DistrustedNotes
<1>11. shm'.hash = shm.hash /\ NotesKept(shm, shm') /\ ClaimsKept(shm, shm')
  BY <1>4, <1>7, <1>10
<1>12. RemovedFrom(shm') \subseteq lost'
  BY <1>11 DEF RemovedFrom
<1> QED
  BY <1>1, <1>2, <1>3, <1>11, <1>12, ClaimStep, SeenStep

(* Table m with the counts ts, the files C let go by their writer. *)
Releasing(m, ts, C) ==
    [m EXCEPT !.status = [i \in Ids |-> IF i \in C THEN Released(m.status[i]) ELSE m.status[i]], !.txns = ts]

(* A status whose writer lets go of it remembers the one before. *)
LEMMA ReleasedNotes ==
    ASSUME NEW m, Pool(m), NEW t \in Xids, NEW C, \A i \in C : m.status[i].xid = t, NEW ts,
           NEW e, e = Releasing(m, ts, C)
    PROVE  e.hash = m.hash /\ NotesKept(m, e) /\ ClaimsKept(m, e)
<1>1. m \in Shared /\ \A i \in Ids : m.status[i] \in Status
  BY DEF Pool, Shared
<1>2. e.hash = m.hash /\ e.list = m.list
  BY <1>1 DEF Shared, Releasing
<1>3. \A i \in Ids : e.status[i] = IF i \in C THEN Released(m.status[i]) ELSE m.status[i]
  BY <1>1 DEF Shared, Releasing
<1>4. \A st \in Status : Released(st).latestWriteXid = st.latestWriteXid
  BY DEF Status, Released
<1>5. \A i \in Ids : /\ e.status[i].segno = m.status[i].segno
                     /\ e.status[i].latestWriteXid = m.status[i].latestWriteXid
                     /\ e.status[i].xid # 0 => e.status[i] = m.status[i]
  BY <1>1, <1>3, <1>4, ReleasedStatus
<1>6. \A i \in Ids : m.status[i].xid = 0 => e.status[i] = m.status[i]
  BY <1>3 DEF Xids
<1>7. \A r \in Rels : ToSet(m.list[r]) \subseteq Ids
  BY <1>1, ToSetFacts DEF Shared
<1>8. ASSUME NEW r \in Rels, NEW s \in Segnos, NEW W \in SUBSET Xids, Noted(m, r, s, W)
      PROVE  Noted(e, r, s, W)
  <2>1. PICK i \in ToSet(m.list[r]) : /\ m.status[i].segno = s
                                      /\ \/ m.status[i].latestWriteXid \in W
                                         \/ m.status[i].xid = 0 /\ m.status[i].inuse
    BY <1>8 DEF Noted
  <2>2. i \in Ids /\ i \in ToSet(e.list[r])
    BY <1>2, <1>7
  <2> QED
    BY <1>5, <1>6, <2>1, <2>2 DEF Noted
<1>9. NotesKept(m, e)
  BY <1>8 DEF NotesKept
<1>10. ClaimsKept(m, e)
  BY <1>2, <1>5, <1>7 DEF ClaimsKept
<1> QED
  BY <1>2, <1>9, <1>10

LEMMA AtEOXactSeen ==
    ASSUME AoInv, SeenInv, NEW t \in Xids, AtEOXact_AppendOnly(t)
    PROVE  SeenInv'
<1>1. AoInv' /\ Pool(shm)
  BY AtEOXactInv DEF AoInv
<1>2. /\ catalog' = catalog /\ astray' = astray /\ lost' = {p \in lost : p[1] # t}
      /\ nextXid' = nextXid /\ phase[t] = "released" /\ phase'[t] = "done"
      /\ \A u \in Xids : u # t => phase'[u] = phase[u] /\ unseen'[u] = unseen[u] /\ view'[u] = view[u]
  BY DEF AtEOXact_AppendOnly, diskVars, noteVars, AoInv, TypeOK
<1>3. Snapshots
  BY <1>2 DEF Snapshots, KeptSnapshot
<1>4. Onwards /\ NoCommit /\ NoNewRow
  BY <1>2 DEF Onwards, NoCommit, InProcArray, NoNewRow, HasRow, Writing
<1>5. PICK m, e, C : m = shm /\ e = shm' /\ C = OwnIds(shm, t)
  OBVIOUS
<1>6. PICK ts : e = Releasing(m, ts, C)
  BY <1>5 DEF AtEOXact_AppendOnly, Releasing
<1>7. Pool(m) /\ \A i \in C : m.status[i].xid = t
  BY <1>1, <1>5 DEF OwnIds
<1>8. e.hash = m.hash /\ NotesKept(m, e) /\ ClaimsKept(m, e)
  BY <1>6, <1>7, ReleasedNotes
<1>9. shm'.hash = shm.hash /\ NotesKept(shm, shm') /\ ClaimsKept(shm, shm')
  BY <1>5, <1>8
<1>10. RemovedFrom(shm') \subseteq lost'
  BY <1>9 DEF RemovedFrom
<1> QED
  BY <1>1, <1>2, <1>3, <1>4, <1>9, <1>10, ClaimStep, SeenStep

-----------------------------------------------------------------------------
(* Steps that make an entry or choose files *)

LEMMA NotedEntry ==
    ASSUME NEW m, Pool(m), NEW r \in Rels, NEW s, NEW W, Noted(m, r, s, W)
    PROVE  r \in m.hash
    BY EmptyFacts DEF Noted, Pool

LEMMA CreatedNotes ==
    ASSUME NEW m, Pool(m), NEW e, NEW r \in Rels, r \notin m.hash, Created(m, e, r)
    PROVE  NotesKept(m, e) /\ ClaimsKept(m, e)
<1>1. PICK V \in SUBSET Unused(m) :
         /\ e.hash = (m.hash \ V) \cup {r}
         /\ \A u \in V : e.list[u] = << >> /\ e.txns[u] = 0
         /\ \A u \in Rels \ (V \cup {r}) : /\ e.txns[u] = m.txns[u] /\ e.stale[u] = m.stale[u]
                                           /\ e.maxSegno[u] = m.maxSegno[u] /\ e.list[u] = m.list[u]
  BY DEF Created
<1>2. /\ \A i \in ToSet(e.list[r]) : e.status[i].xid = 0
      /\ \A u \in Rels \ {r} : \A i \in ToSet(e.list[u]) : e.status[i] = m.status[i]
  BY DEF Created
<1>3. V \subseteq m.hash \ e.hash
  BY <1>1 DEF Unused
<1>4. ASSUME NEW u \in Rels, NEW s \in Segnos, NEW W \in SUBSET Xids, Noted(m, u, s, W), u \notin V
      PROVE  Noted(e, u, s, W)
  <2>1. u # r
    BY <1>4, NotedEntry
  <2>2. e.list[u] = m.list[u] /\ \A i \in ToSet(m.list[u]) : e.status[i] = m.status[i]
    BY <1>1, <1>2, <1>4, <2>1
  <2> QED
    BY <1>4, <2>2 DEF Noted
<1>5. NotesKept(m, e)
  BY <1>3, <1>4 DEF NotesKept
<1>6. ClaimsKept(m, e)
  <2> SUFFICES ASSUME NEW u \in Rels, NEW i \in ToSet(e.list[u]), e.status[i].xid # 0
               PROVE  i \in ToSet(m.list[u]) /\ e.status[i] = m.status[i]
    BY DEF ClaimsKept
  <2>1. u # r
    BY <1>2
  <2>2. u \notin V
    BY <1>1, EmptyFacts
  <2> QED
    BY <1>1, <1>2, <2>1, <2>2
<1> QED
  BY <1>5, <1>6

LEMMA EntryNotes ==
    ASSUME Pool(shm), NEW r \in Rels, NEW m, HasEntry(m, r)
    PROVE  NotesKept(shm, m) /\ ClaimsKept(shm, m)
<1>1. CASE m = shm
  <2>1. m \in Shared /\ \A i \in Ids : SameNote(m.status[i], m.status[i])
    BY <1>1 DEF Pool, SameNote
  <2>2. NotesKept(m, m) /\ ClaimsKept(m, m)
    BY <2>1, SameNotesKept
  <2> QED
    BY <1>1, <2>2
<1>2. CASE r \notin shm.hash /\ Created(shm, m, r)
  BY <1>2, CreatedNotes
<1> QED
  BY <1>1, <1>2 DEF HasEntry

LEMMA ChoiceNotes ==
    ASSUME NEW m, NEW e, NEW q, q.t \in Xids, q.rel \in Rels, NEW given, ChoiceOf(m, e, q, given)
    PROVE  NotesKept(m, e) /\ e.hash \subseteq m.hash
<1>1. PICK V \in SUBSET (Unused(m) \ {q.rel}) :
         /\ e.hash = m.hash \ V
         /\ \A u \in V : e.list[u] = << >> /\ e.txns[u] = 0
         /\ \A u \in Rels \ (V \cup {q.rel}) :
              /\ e.txns[u] = m.txns[u] /\ e.stale[u] = m.stale[u]
              /\ e.maxSegno[u] = m.maxSegno[u] /\ e.list[u] = m.list[u]
  BY DEF ChoiceOf
<1>2. /\ \A u \in Rels \ {q.rel} : \A i \in ToSet(e.list[u]) : e.status[i] = m.status[i]
      /\ ToSet(m.list[q.rel]) \subseteq ToSet(e.list[q.rel])
      /\ \A i \in ToSet(m.list[q.rel]) : KeptOrTaken(m.status[i], e.status[i], q)
  BY DEF ChoiceOf
<1>3. V \subseteq m.hash \ e.hash
  BY <1>1 DEF Unused
<1>4. ASSUME NEW u \in Rels, NEW s \in Segnos, NEW W \in SUBSET Xids, Noted(m, u, s, W), u \notin V
      PROVE  Noted(e, u, s, W)
  <2>1. CASE u # q.rel
    <3>1. e.list[u] = m.list[u] /\ \A i \in ToSet(m.list[u]) : e.status[i] = m.status[i]
      BY <1>1, <1>2, <1>4, <2>1
    <3> QED
      BY <1>4, <3>1 DEF Noted
  <2>2. CASE u = q.rel
    <3>1. PICK i \in ToSet(m.list[u]) : /\ m.status[i].segno = s
                                        /\ \/ m.status[i].latestWriteXid \in W
                                           \/ m.status[i].xid = 0 /\ m.status[i].inuse
      BY <1>4 DEF Noted
    <3>2. i \in ToSet(e.list[u]) /\ KeptOrTaken(m.status[i], e.status[i], q)
      BY <1>2, <2>2
    <3>3. q.t # 0
      BY DEF Xids
    <3> QED
      BY <3>1, <3>2, <3>3 DEF Noted, KeptOrTaken, Eligible
  <2> QED
    BY <2>1, <2>2
<1> QED
  BY <1>1, <1>3, <1>4 DEF NotesKept

LEMMA NotesKeptTrans ==
    ASSUME NEW m, NEW d, NEW e, Pool(m), NotesKept(m, d), NotesKept(d, e), e.hash \subseteq d.hash
    PROVE  NotesKept(m, e)
    BY NotedEntry DEF NotesKept

(* The claims after a choice are old ones, or of the transaction that made it
   to a file whose writers it sees. *)
LEMMA GaveClaim ==
    ASSUME AoInv, SeenInv, Snapshots, astray \subseteq astray', NEW t \in Xids, NEW r \in Rels,
           NEW m, HasEntry(m, r), Gave(t, r, m)
    PROVE  NoNewClaim
<1>0. /\ Pool(shm) /\ Finished /\ Remembered(shm) /\ unseen \in [Xids -> SUBSET Xids]
  BY DEF SeenInv, AoInv, TypeOK
<1>1. PICK q, given : /\ q.t = t /\ q.rel = r /\ q.hid = unseen'[t]
                      /\ ChoiceOf(m, shm', q, given) /\ RowsGiven(m, q, given)
  BY DEF Gave
<1>2. ClaimsKept(shm, m)
  BY <1>0, EntryNotes
<1>3. /\ \A u \in Rels \ {r} : \A i \in ToSet(shm'.list[u]) : shm'.status[i] = m.status[i]
      /\ \A u \in Rels \ {r} : \A i \in ToSet(shm'.list[u]) : i \in ToSet(m.list[u])
      /\ \A i \in ToSet(m.list[r]) : KeptOrTaken(m.status[i], shm'.status[i], q)
      /\ \A i \in ToSet(shm'.list[r]) \ ToSet(m.list[r]) : shm'.status[i].segno > m.maxSegno[r]
      /\ \A s \in given : GivenBy(m, shm', q, s)
  <2>1. PICK V \in SUBSET (Unused(m) \ {r}) :
           /\ \A u \in V : shm'.list[u] = << >>
           /\ \A u \in Rels \ (V \cup {r}) : shm'.list[u] = m.list[u]
    BY <1>1 DEF ChoiceOf
  <2>2. \A u \in Rels \ {r} : \A i \in ToSet(shm'.list[u]) : i \in ToSet(m.list[u])
    BY <2>1, EmptyFacts
  <2> QED
    BY <1>1, <2>2 DEF ChoiceOf
<1> SUFFICES ASSUME NEW x \in Xids, NEW u \in Rels, NEW s \in Segnos, Knows(x, u)', Has(shm, x, u, s)',
                    ~Has(shm, x, u, s), catalog[u][s] \in unseen'[x]
             PROVE  FALSE
  BY DEF NoNewClaim
<1>4. phase'[x] = "active" /\ u \notin astray' /\ x # 0
  BY DEF Knows, Xids
<1>5. KeptSnapshot(x)
  BY <1>0, <1>4, NewlyTakenSees DEF Snapshots
<1>6. Knows(x, u) /\ unseen'[x] = unseen[x]
  BY <1>5, KnewStep DEF KeptSnapshot
<1>7. PICK j \in ToSet(shm.list[u]) : /\ shm.status[j].segno = s
                                      /\ \/ shm.status[j].latestWriteXid \in unseen[x]
                                         \/ shm.status[j].xid = 0 /\ shm.status[j].inuse
  BY <1>0, <1>6 DEF Remembered, Noted
<1>8. PICK i \in ToSet(shm'.list[u]) : shm'.status[i].segno = s /\ shm'.status[i].xid = x
  <2>1. CASE HasRow(x, u, s)'
    <3>1. x = t /\ u = r /\ s \in given
      BY <1>1, <2>1 DEF RowsGiven, Has
    <3> QED
      BY <1>1, <1>3, <3>1 DEF GivenBy
  <2> QED
    BY <2>1 DEF Has
<1>9. ~(i \in ToSet(m.list[u]) /\ m.status[i].segno = s /\ m.status[i].xid = x)
  BY <1>2, <1>4 DEF ClaimsKept, Has
<1>10. u = r
  BY <1>3, <1>8, <1>9
<1>11. r \in shm.hash /\ m = shm
  <2>1. r \in shm.hash
    BY <1>0, <1>7, <1>10, EmptyFacts DEF Pool
  <2> QED
    BY <2>1 DEF HasEntry
<1>12. i \in ToSet(m.list[r])
  <2>1. shm.status[j].segno \in 1 .. shm.maxSegno[r] /\ shm.maxSegno[r] \in Nat
    BY <1>0, <1>7, <1>10 DEF Pool, Shared
  <2> QED
    BY <1>3, <1>7, <1>8, <1>10, <1>11, <2>1
<1>13. KeptOrTaken(shm.status[i], shm'.status[i], q)
  BY <1>3, <1>11, <1>12
<1>14. x = t /\ Eligible(shm.status[i], q) /\ shm.status[i].segno = s
  BY <1>1, <1>4, <1>8, <1>9, <1>10, <1>11, <1>12, <1>13 DEF KeptOrTaken
<1>15. i = j
  BY <1>0, <1>7, <1>10, <1>11, <1>12, <1>14 DEF Pool
<1>16. ~shm.status[i].inuse /\ ~usedByConcurrentTransaction(shm.status[i], t, unseen[t])
  BY <1>1, <1>6, <1>9, <1>10, <1>11, <1>12, <1>14 DEF Eligible
<1>17. shm.status[i].latestWriteXid \in unseen[t] /\ unseen[t] \subseteq Xids
  BY <1>0, <1>7, <1>14, <1>15, <1>16
<1> QED
  BY <1>16, <1>17 DEF usedByConcurrentTransaction, Xids

(* The snapshot of a statement. *)
LEMMA StatementSnapshot ==
    ASSUME TypeOK, NEW t \in Xids, phase[t] = "active", phase' = phase, NEW hid \in StatementSnapshots(t),
           unseen' = [unseen EXCEPT ![t] = hid], LostSince(t, hid) \subseteq lost'
    PROVE  Snapshots
<1> SUFFICES ASSUME NEW x \in Xids, phase[x] = "active"
             PROVE  KeptSnapshot(x) \/ NewlyTaken(x)
  BY DEF Snapshots
<1>1. CASE x # t
  <2>1. unseen'[x] = unseen[x]
    BY <1>1 DEF TypeOK
  <2>2. ASSUME NEW r \in Rels, <<x, r>> \in lost
        PROVE  <<x, r>> \in LostSince(t, hid)
    BY <1>1, <2>2 DEF LostSince
  <2> QED
    BY <2>1, <2>2 DEF KeptSnapshot
<1>2. CASE x = t /\ hid = unseen[t]
  BY <1>2 DEF TypeOK, LostSince, KeptSnapshot
<1>3. CASE x = t /\ hid # unseen[t]
  <2>1. unseen'[t] = NewSnapshot \ {t}
    BY <1>3 DEF TypeOK, StatementSnapshots
  <2>2. {t} \X RemovedByUnseen \subseteq lost'
    BY <1>3 DEF LostSince
  <2> QED
    BY <1>3, <2>1, <2>2 DEF NewlyTaken
<1> QED
  BY <1>1, <1>2, <1>3

LEMMA SetSegnoForWriteSeen ==
    ASSUME AoInv, SeenInv, NEW t \in Xids, NEW r \in Rels, SetSegnoForWrite(t, r)
    PROVE  SeenInv'
<1>1. AoInv' /\ (Gave(t, r, shm) \/ (NoNewRow /\ shm' = shm /\ astray' = astray))
  BY SetSegnoForWriteInv
<1>2. /\ TypeOK /\ Pool(shm) /\ phase[t] = "active"
      /\ catalog' = catalog /\ phase' = phase /\ nextXid' = nextXid
  BY DEF AoInv, SetSegnoForWrite, Ready
<1>3. PICK n \in SegmentNums, reuse \in ReuseFlags(t, r), hid \in StatementSnapshots(t) :
        /\ unseen' = [unseen EXCEPT ![t] = hid]
        /\ \/ /\ r \in shm.hash
              /\ \E o \in ChooseSegnos(shm, [t |-> t, rel |-> r, n |-> n, reuse |-> reuse, hid |-> hid]) :
                   Chose(t, r, [Top(t) EXCEPT !.rowLock = @ \cup {r}], o, LostSince(t, hid))
           \/ /\ r \notin shm.hash
              /\ view' = SetTop(t, [Top(t) EXCEPT !.rowLock = @ \cup {r}])
              /\ op' = [op EXCEPT ![t] = [kind |-> "write", rel |-> r, n |-> n,
                                          reuse |-> reuse, rows |-> RowsSeen(t, r)]]
              /\ lost' = LostSince(t, hid)
              /\ UNCHANGED <<shm, aoLock, garbage, noteVars>>
  BY DEF SetSegnoForWrite
<1>4. /\ LostSince(t, hid) \subseteq lost' /\ RemovedFrom(shm') \subseteq lost' /\ astray \subseteq astray'
      /\ \A u \in Xids : u # t => view'[u] = view[u]
  BY <1>2, <1>3 DEF Chose, SetTop, RemovedFrom, noteVars, TypeOK
<1>5. Snapshots
  BY <1>2, <1>3, <1>4, StatementSnapshot
<1>6. Onwards /\ NoCommit
  BY <1>2, <1>4, SamePhase
<1>7. CASE Gave(t, r, shm)
  <2>1. HasEntry(shm, r)
    BY DEF HasEntry
  <2>2. NoNewClaim
    BY <1>4, <1>5, <1>7, <2>1, GaveClaim
  <2>3. NotesKept(shm, shm')
    BY <1>7, ChoiceNotes DEF Gave
  <2> QED
    BY <1>1, <1>2, <1>4, <1>5, <1>6, <2>2, <2>3, SeenStep
<1>8. CASE NoNewRow /\ shm' = shm
  <2>1. NotesKept(shm, shm') /\ ClaimsKept(shm, shm')
    BY <1>2, <1>8, SameTable
  <2> QED
    BY <1>1, <1>2, <1>4, <1>5, <1>6, <1>8, <2>1, ClaimStep, SeenStep
<1> QED
  BY <1>1, <1>7, <1>8

LEMMA CreateThenChooseSeen ==
    ASSUME AoInv, SeenInv, NEW t \in Xids, CreateThenChoose(t)
    PROVE  SeenInv'
<1>1. /\ TypeOK /\ Pool(shm) /\ phase[t] = "active" /\ op[t] \in Op /\ op[t].kind = "write"
      /\ catalog' = catalog /\ phase' = phase /\ nextXid' = nextXid /\ unseen' = unseen
  BY DEF AoInv, TypeOK, CreateThenChoose
<1>2. PICK r : r = op[t].rel
  OBVIOUS
<1>3. r \in Rels
  <2>1. PICK o : o = op[t]
    OBVIOUS
  <2>2. o \in [kind : {"write"}, rel : Rels, n : SegmentNums, reuse : BOOLEAN, rows : SUBSET Segnos]
    BY <1>1, <2>1 DEF Op, Idle, Error
  <2> QED
    BY <1>2, <2>1, <2>2
<1>4. AoInv' /\ \E m : HasEntry(m, r) /\ (Gave(t, r, m) \/ (shm' = m /\ view' = view))
  BY <1>2, CreateThenChooseInv
<1>5. PICK m : HasEntry(m, r) /\ (Gave(t, r, m) \/ (shm' = m /\ view' = view))
  BY <1>4
<1>6. /\ lost \subseteq lost' /\ RemovedFrom(shm') \subseteq lost' /\ astray \subseteq astray'
      /\ \A u \in Xids : u # t => view'[u] = view[u]
  BY <1>1 DEF CreateThenChoose, Chose, LostBy, SetTop, noteVars, TypeOK
<1>7. Snapshots /\ Onwards /\ NoCommit
  BY <1>1, <1>6, NoSnapshot, SamePhase
<1>8. NotesKept(shm, m) /\ ClaimsKept(shm, m)
  BY <1>1, <1>3, <1>5, EntryNotes
<1>9. CASE Gave(t, r, m)
  <2>1. NoNewClaim
    BY <1>3, <1>5, <1>6, <1>7, <1>9, GaveClaim
  <2>2. NotesKept(m, shm') /\ shm'.hash \subseteq m.hash
    BY <1>3, <1>9, ChoiceNotes DEF Gave
  <2>3. NotesKept(shm, shm')
    BY <1>1, <1>8, <2>2, NotesKeptTrans
  <2> QED
    BY <1>1, <1>4, <1>6, <1>7, <2>1, <2>3, SeenStep
<1>10. CASE shm' = m /\ view' = view
  <2>1. NoNewRow
    BY <1>1, <1>10 DEF NoNewRow, HasRow, Writing
  <2>2. NotesKept(shm, shm') /\ ClaimsKept(shm, shm')
    BY <1>8, <1>10
  <2> QED
    BY <1>1, <1>4, <1>6, <1>7, <2>1, <2>2, ClaimStep, SeenStep
<1> QED
  BY <1>5, <1>9, <1>10

LEMMA CreateThenMarkStaleSeen ==
    ASSUME AoInv, SeenInv, NEW t \in Xids, CreateThenMarkStale(t)
    PROVE  SeenInv'
<1>1. /\ TypeOK /\ Pool(shm) /\ phase[t] = "active" /\ op[t] \in Op /\ op[t].kind = "stale"
      /\ catalog' = catalog /\ phase' = phase /\ nextXid' = nextXid /\ unseen' = unseen
      /\ view' = view /\ astray' = astray
  BY DEF AoInv, TypeOK, CreateThenMarkStale, diskVars, noteVars
<1>2. PICK r, rows : r = op[t].rel /\ rows = op[t].rows
  OBVIOUS
<1>3. r \in Rels /\ rows \in SUBSET Segnos
  <2>1. PICK o : o = op[t]
    OBVIOUS
  <2>2. o \in [kind : {"stale"}, rel : Rels, rows : SUBSET Segnos]
    BY <1>1, <2>1 DEF Op, Idle, Error
  <2> QED
    BY <1>2, <2>1, <2>2
<1>4. PICK c \in AORelCreateHashEntry(shm, r, rows) :
         /\ shm' = IF c.ok THEN [c.m EXCEPT !.stale[r] = t] ELSE c.m
         /\ lost' = LostBy(c.m)
  BY <1>2 DEF CreateThenMarkStale
<1>5. PICK m : m = c.m
  OBVIOUS
<1>6. Pool(m) /\ HasEntry(m, r)
  BY <1>3, <1>5, CreatedInv
<1>7. shm'.hash = m.hash /\ shm'.list = m.list /\ shm'.status = m.status
  <2>1. m \in Shared
    BY <1>6 DEF Pool
  <2>2. shm' = [m EXCEPT !.stale[r] = t] \/ shm' = m
    BY <1>4, <1>5
  <2> QED
    BY <2>1, <2>2 DEF Shared
<1>8. NotesKept(shm, m) /\ ClaimsKept(shm, m)
  BY <1>1, <1>3, <1>6, EntryNotes
<1>9. NotesKept(shm, shm') /\ ClaimsKept(shm, shm')
  BY <1>7, <1>8 DEF NotesKept, ClaimsKept, Noted
<1>10. lost \subseteq lost' /\ RemovedFrom(shm') \subseteq lost'
  BY <1>4, <1>5, <1>7 DEF LostBy, RemovedFrom
<1>11. Snapshots /\ Onwards /\ NoCommit
  BY <1>1, <1>10, NoSnapshot, SamePhase
<1>12. NoNewRow
  BY <1>1 DEF NoNewRow, HasRow, Writing
<1>13. AoInv'
  BY CreateThenMarkStaleInv
<1> QED
  BY <1>1, <1>9, <1>10, <1>11, <1>12, <1>13, ClaimStep, SeenStep

-----------------------------------------------------------------------------
(* The two steps of a commit *)

(* An entry that is held is in use. *)
LEMMA HolderCounted ==
    ASSUME NEW m, Pool(m), Counted(m), NEW r \in m.hash \ astray, NEW t \in Xids, NEW s \in Segnos,
           HasRow(t, r, s)
    PROVE  m.txns[r] > 0
<1>1. t \in Holders(m, r) /\ Holders(m, r) \in SUBSET Xids
  BY HoldersFacts
<1>2. Cardinality(Holders(m, r)) \in Nat /\ Cardinality(Holders(m, r)) # 0
  BY <1>1, XidsFinite, FS_EmptySet
<1>3. Cardinality(Holders(m, r)) <= m.txns[r] /\ m.txns[r] \in Int
  BY DEF Counted, Pool, Shared
<1> QED
  BY <1>2, <1>3

(* Table e is table m without the entries of V, the files C written by t. *)
WrittenBy(m, e, V, C, t) ==
    /\ e.hash = m.hash \ V
    /\ \A r \in V : e.list[r] = << >>
    /\ \A r \in Rels \ V : e.list[r] = m.list[r]
    /\ \A i \in Ids \ C : e.status[i] = m.status[i]
    /\ \A i \in Ids \cap C : /\ e.status[i].segno = m.status[i].segno
                             /\ e.status[i].xid = m.status[i].xid /\ e.status[i].latestWriteXid = t

Writes(d, C, t) ==
    [d EXCEPT !.status = [i \in Ids |-> IF i \in C THEN Written(d.status[i], t) ELSE d.status[i]]]

LEMMA WrittenNotes ==
    ASSUME NEW m, Pool(m), NEW V \in SUBSET Rels, NEW d, d = AORelRemoveHashEntry(m, V), NEW C, NEW t \in Xids,
           NEW e, e = Writes(d, C, t)
    PROVE  WrittenBy(m, e, V, C, t)
<1>1. /\ d \in Shared /\ d.hash = m.hash \ V /\ d.status = m.status
      /\ \A r \in V : d.list[r] = << >>
      /\ \A r \in Rels \ V : d.list[r] = m.list[r]
  BY RemoveFacts DEF Pool
<1>2. e.hash = d.hash /\ e.list = d.list
  BY <1>1 DEF Shared, Writes
<1>3. \A i \in Ids : e.status[i] = IF i \in C THEN Written(m.status[i], t) ELSE m.status[i]
  BY <1>1 DEF Shared, Writes
<1>4. \A i \in Ids : m.status[i] \in Status
  BY <1>1 DEF Shared
<1>5. \A st \in Status : Written(st, t).latestWriteXid = t
  BY DEF Status, Written
<1>6. \A i \in Ids \cap C : /\ e.status[i].segno = m.status[i].segno
                            /\ e.status[i].xid = m.status[i].xid /\ e.status[i].latestWriteXid = t
  BY <1>3, <1>4, <1>5, WrittenStatus
<1> QED
  BY <1>1, <1>2, <1>3, <1>6 DEF WrittenBy

LEMMA AtCommitSeen ==
    ASSUME AoInv, SeenInv, NEW t \in Xids, AtCommit_AppendOnly(t)
    PROVE  SeenInv'
<1>1. AoInv'
  BY AtCommitInv
<1>2. /\ TypeOK /\ Pool(shm) /\ RowsHeld(shm) /\ Counted(shm) /\ phase[t] = "active" /\ op[t].kind = "none"
      /\ Hides /\ Finished /\ TruncLost /\ Remembered(shm) /\ WriterNoted(shm) /\ OwnSeen(shm)
      /\ InProcArray(t)
  BY DEF AoInv, SeenInv, AtCommit_AppendOnly, Ready, InProcArray
<1>3. /\ catalog' = catalog /\ astray' = astray /\ lost' = LostBy(shm') /\ view' = view
      /\ unseen' = unseen /\ nextXid' = nextXid /\ phase'[t] = "commit"
      /\ \A u \in Xids : u # t => phase'[u] = phase[u]
  BY DEF AtCommit_AppendOnly, diskVars, noteVars, AoInv, TypeOK
<1>4. PICK V, m : V = PendingRels(t) \cap shm.hash /\ m = shm
  OBVIOUS
<1>5. PICK d : d = AORelRemoveHashEntry(m, V)
  OBVIOUS
<1>6. PICK C, e : C = OwnIds(d, t) /\ e = shm'
  OBVIOUS
<1>7. e = Writes(d, C, t)
  BY <1>4, <1>5, <1>6 DEF AtCommit_AppendOnly, Writes
<1>8. V \in SUBSET Rels /\ V \subseteq m.hash /\ Pool(m)
  BY <1>2, <1>4 DEF PendingRels
<1>9. WrittenBy(m, e, V, C, t)
  BY <1>5, <1>7, <1>8, WrittenNotes
<1>10. WrittenBy(shm, shm', V, C, t)
  BY <1>4, <1>6, <1>9
<1>11. \A r \in Rels : ToSet(shm.list[r]) \subseteq Ids /\ ToSet(shm'.list[r]) \subseteq Ids
  <2>1. shm \in Shared /\ shm' \in Shared
    BY <1>1, <1>2 DEF AoInv, TypeOK
  <2> QED
    BY <2>1, ToSetFacts DEF Shared
<1>12. \A i \in Ids \cap C : shm.status[i].xid = t
  <2>1. d.status = shm.status
    BY <1>4, <1>5, <1>8, RemoveFacts DEF Pool
  <2> QED
    BY <1>6, <2>1 DEF OwnIds
<1>13. RemovedFrom(shm') \subseteq lost' /\ lost \subseteq lost'
  BY <1>3 DEF LostBy
<1>14. Snapshots /\ Onwards /\ NoNewRow
  BY <1>2, <1>3, <1>13, NoSnapshot DEF Onwards, InProcArray, NoNewRow, HasRow, Writing
<1>15. ClaimsKept(shm, shm')
  <2> SUFFICES ASSUME NEW r \in Rels, NEW i \in ToSet(shm'.list[r])
               PROVE  /\ i \in ToSet(shm.list[r])
                      /\ shm.status[i].xid = shm'.status[i].xid /\ shm.status[i].segno = shm'.status[i].segno
    BY DEF ClaimsKept
  <2>1. r \notin V /\ i \in Ids
    BY <1>10, <1>11, EmptyFacts DEF WrittenBy
  <2> QED
    BY <1>10, <2>1 DEF WrittenBy
<1>16. Hides' /\ Finished' /\ OwnSeen(shm)'
  BY <1>2, <1>3, <1>14, <1>15, HidesStep, FinishedStep, ClaimStep, OwnSeenStep
<1>17. TruncLost'
  <2> SUFFICES ASSUME NEW x \in Xids, NEW u \in Xids, phase'[u] = "commit", phase'[x] = "active",
                      NEW r \in Top(u).trunc
               PROVE  <<x, r>> \in lost'
    BY <1>3 DEF TruncLost, Top
  <2>1. x # t /\ phase[x] = "active" /\ InProcArray(x)
    BY <1>3 DEF InProcArray
  <2>2. CASE u # t
    BY <1>2, <1>3, <1>13, <2>1, <2>2 DEF TruncLost
  <2>3. CASE u = t
    <3>1. r \in shm.hash /\ r \in Rels /\ pending[t][r] # 0
      BY <1>2, <2>3, ReadyFacts, ActiveFacts DEF Level
    <3>2. r \in V /\ r \notin shm'.hash
      BY <1>4, <1>10, <3>1 DEF PendingRels, WrittenBy
    <3> QED
      BY <1>13, <2>1, <3>1, <3>2 DEF RemovedFrom
  <2> QED
    BY <2>2, <2>3
<1>18. Remembered(shm)'
  <2>1. ASSUME NEW x \in Xids, NEW r \in Rels, NEW s \in Segnos, phase'[x] = "active",
               Noted(shm, r, s, unseen[x]), r \notin shm.hash \ shm'.hash
        PROVE  Noted(shm', r, s, unseen[x])
    <3>1. x # t /\ t \in unseen[x]
      BY <1>2, <1>3, <2>1 DEF Hides
    <3>2. PICK i \in ToSet(shm.list[r]) : /\ shm.status[i].segno = s
                                          /\ \/ shm.status[i].latestWriteXid \in unseen[x]
                                             \/ shm.status[i].xid = 0 /\ shm.status[i].inuse
      BY <2>1 DEF Noted
    <3>3. r \notin V
      BY <1>4, <1>8, <1>10, <2>1 DEF WrittenBy
    <3>4. i \in Ids /\ i \in ToSet(shm'.list[r])
      BY <1>10, <1>11, <3>3 DEF WrittenBy
    <3>5. CASE i \in C
      BY <1>10, <3>1, <3>2, <3>4, <3>5 DEF WrittenBy, Noted
    <3>6. CASE i \notin C
      BY <1>10, <3>2, <3>4, <3>6 DEF WrittenBy, Noted
    <3> QED
      BY <3>5, <3>6
  <2>2. \A x \in Xids, r \in Rels, s \in Segnos : phase'[x] = "active" => NoteKept(r, s, unseen[x])
    BY <2>1 DEF NoteKept
  <2> QED
    BY <1>2, <1>3, <1>13, <1>14, <2>2, RememberedStep
<1>19. WriterNoted(shm)'
  <2> SUFFICES ASSUME NEW u \in Xids, NEW r \in Rels \ astray, NEW s \in Segnos,
                      phase'[u] = "commit", RowIn(view[u], r, s)
               PROVE  Noted(shm', r, s, {u})
    BY <1>3 DEF WriterNoted, RowIn, Noted
  <2>1. HasRow(u, r, s) /\ HasRow(u, r, s)'
    BY <1>2, <1>3 DEF HasRow, Writing, RowIn
  <2>2. HeldIn(shm, u, r, s) /\ HeldIn(shm, u, r, s)'
    BY <1>1, <1>2, <1>3, <2>1 DEF AoInv, RowsHeld
  <2>3. r \notin V /\ r \in shm.hash
    <3>1. PICK i \in ToSet(shm'.list[r]) : TRUE
      BY <2>2 DEF HeldIn
    <3>2. r \notin V
      BY <1>10, <3>1, EmptyFacts DEF WrittenBy
    <3> QED
      BY <1>2, <2>2, <3>2, HeldEntry
  <2>4. PICK j \in ToSet(shm.list[r]) : /\ shm.status[j].segno = s
                                        /\ \/ shm.status[j].xid = u
                                           \/ shm.status[j].xid = 0 /\ shm.status[j].inuse
    BY <2>2 DEF HeldIn
  <2>5. j \in Ids /\ j \in ToSet(shm'.list[r]) /\ t # 0
    BY <1>10, <1>11, <2>3 DEF WrittenBy, Xids
  <2>6. CASE u # t
    <3>1. phase[u] = "commit"
      BY <1>3, <2>6
    <3>2. PICK i \in ToSet(shm.list[r]) : /\ shm.status[i].segno = s
                                          /\ \/ shm.status[i].latestWriteXid \in {u}
                                             \/ shm.status[i].xid = 0 /\ shm.status[i].inuse
      BY <1>2, <3>1 DEF WriterNoted, Noted
    <3>3. i = j
      BY <1>2, <2>4, <3>2 DEF Pool
    <3>4. j \notin C
      BY <1>12, <2>4, <2>5, <2>6
    <3> QED
      BY <1>10, <2>5, <3>2, <3>3, <3>4 DEF WrittenBy, Noted
  <2>7. CASE u = t /\ shm.status[j].xid = t
    <3>1. d.hash = shm.hash \ V /\ d.status = shm.status /\ d.txns[r] = shm.txns[r] /\ d.list[r] = shm.list[r]
      BY <1>4, <1>5, <1>8, <2>3, RemoveFacts DEF Pool
    <3>2. shm.txns[r] > 0
      BY <1>2, <2>1, <2>3, HolderCounted
    <3>3. j \in C
      BY <1>6, <2>3, <2>5, <2>7, <3>1, <3>2 DEF OwnIds
    <3> QED
      BY <1>10, <2>4, <2>5, <2>7, <3>3 DEF WrittenBy, Noted
  <2>8. CASE shm.status[j].xid = 0 /\ shm.status[j].inuse
    <3>1. j \notin C
      BY <1>12, <2>5, <2>8
    <3> QED
      BY <1>10, <2>4, <2>5, <2>8, <3>1 DEF WrittenBy, Noted
  <2> QED
    BY <2>4, <2>6, <2>7, <2>8
<1> QED
  BY <1>16, <1>17, <1>18, <1>19 DEF SeenInv

LEMMA RecordTransactionCommitSeen ==
    ASSUME AoInv, SeenInv, NEW t \in Xids, RecordTransactionCommit(t)
    PROVE  SeenInv'
<1>1. AoInv'
  BY RecordTransactionCommitInv
<1>2. /\ TypeOK /\ Pool(shm) /\ RowsHeld(shm) /\ OneHolder /\ phase[t] = "commit" /\ InProcArray(t)
      /\ Hides /\ Finished /\ TruncLost /\ Remembered(shm) /\ WriterNoted(shm) /\ OwnSeen(shm)
  BY DEF AoInv, SeenInv, RecordTransactionCommit, InProcArray
<1>3. /\ shm' = shm /\ astray' = astray /\ lost' = lost /\ view' = view
      /\ unseen' = unseen /\ nextXid' = nextXid /\ phase'[t] = "released"
      /\ \A u \in Xids : u # t => phase'[u] = phase[u]
  BY DEF RecordTransactionCommit, noteVars, AoInv, TypeOK
<1>4. \A r \in Rels, s \in Segnos :
        catalog'[r][s] = IF <<r, s>> \in Top(t).rows THEN t
                         ELSE IF r \in Top(t).trunc THEN NoRow ELSE catalog[r][s]
  BY DEF RecordTransactionCommit
<1>5. Snapshots /\ Onwards /\ NoCommit
  BY <1>2, <1>3, NoSnapshot DEF Onwards, NoCommit, InProcArray
<1>6. Hides' /\ TruncLost'
  BY <1>2, <1>5, HidesStep, TruncLostStep
<1>7. WriterNoted(shm)'
  <2>1. \A u \in Xids, r \in Rels, s \in Segnos : phase[u] = "commit" => NoteKept(r, s, {u})
    BY <1>3 DEF NoteKept
  <2> QED
    BY <1>1, <1>2, <1>3, <1>5, <2>1, WriterNotedStep
<1>8. NoRow \notin Xids
  BY DEF NoRow, Xids
<1>9. Finished'
  <2> SUFFICES ASSUME NEW r \in Rels, NEW s \in Segnos, catalog'[r][s] \in Xids
               PROVE  phase'[catalog'[r][s]] \in {"released", "done"}
    BY DEF Finished
  <2>1. catalog'[r][s] = t \/ catalog'[r][s] = catalog[r][s]
    BY <1>4, <1>8
  <2> QED
    BY <1>2, <1>3, <2>1 DEF Finished
<1>10. ASSUME NEW x \in Xids, NEW r \in Rels, NEW s \in Segnos, Knows(x, r)', catalog'[r][s] \in unseen'[x]
       PROVE  /\ Knows(x, r) /\ x # t /\ t \in unseen[x]
              /\ \/ catalog[r][s] \in unseen[x]
                 \/ r \notin astray /\ RowIn(view[t], r, s)
  <2>1. Knows(x, r) /\ x # t
    BY <1>3, <1>10 DEF Knows
  <2>2. t \in unseen[x] /\ unseen[x] \subseteq Xids
    BY <1>2, <2>1 DEF Hides, Knows, TypeOK
  <2>3. r \notin Top(t).trunc
    BY <1>2, <2>1 DEF TruncLost, Knows
  <2>4. CASE <<r, s>> \in Top(t).rows
    <3>1. view[t] \in Seq(Level) /\ LevelsOK(view[t]) /\ Top(t) = Last(view[t])
      BY <1>2, ActiveFacts
    <3>2. RowIn(view[t], r, s)
      BY <2>3, <2>4, <3>1, RowInTop
    <3> QED
      BY <2>1, <2>2, <3>2 DEF Knows
  <2>5. CASE <<r, s>> \notin Top(t).rows
    BY <1>3, <1>4, <1>10, <2>1, <2>2, <2>3, <2>5
  <2> QED
    BY <2>4, <2>5
<1>11. Remembered(shm)'
  <2> SUFFICES ASSUME NEW x \in Xids, NEW r \in Rels, NEW s \in Segnos, Knows(x, r)',
                      catalog'[r][s] \in unseen'[x]
               PROVE  Noted(shm, r, s, unseen[x])
    BY <1>3 DEF Remembered, Noted
  <2>1. CASE catalog[r][s] \in unseen[x]
    BY <1>2, <1>10, <2>1 DEF Remembered
  <2>2. CASE r \notin astray /\ RowIn(view[t], r, s)
    <3>1. Noted(shm, r, s, {t}) /\ t \in unseen[x]
      BY <1>2, <1>10, <2>2 DEF WriterNoted
    <3> QED
      BY <3>1 DEF Noted
  <2> QED
    BY <1>10, <2>1, <2>2
<1>12. OwnSeen(shm)'
  <2> SUFFICES ASSUME NEW x \in Xids, NEW r \in Rels, NEW s \in Segnos, Knows(x, r)', Has(shm, x, r, s)',
                      catalog'[r][s] \in unseen'[x]
               PROVE  FALSE
    BY DEF OwnSeen
  <2>1. Has(shm, x, r, s)
    BY <1>3, <1>10 DEF Has, HasRow, Writing
  <2>2. CASE catalog[r][s] \in unseen[x]
    BY <1>2, <1>10, <2>1, <2>2 DEF OwnSeen
  <2>3. CASE r \notin astray /\ RowIn(view[t], r, s)
    <3>1. HasRow(t, r, s) /\ x # t
      BY <1>2, <1>10, <2>3 DEF HasRow, Writing
    <3>2. ~HasRow(x, r, s)
      BY <1>2, <2>3, <3>1 DEF OneHolder
    <3>3. PICK i \in ToSet(shm.list[r]) : shm.status[i].segno = s /\ shm.status[i].xid = x
      BY <2>1, <3>2 DEF Has
    <3>4. HeldIn(shm, t, r, s)
      BY <1>2, <2>3, <3>1 DEF RowsHeld
    <3>5. PICK j \in ToSet(shm.list[r]) : /\ shm.status[j].segno = s
                                          /\ \/ shm.status[j].xid = t
                                             \/ shm.status[j].xid = 0 /\ shm.status[j].inuse
      BY <3>4 DEF HeldIn
    <3>6. i = j
      BY <1>2, <3>3, <3>5 DEF Pool
    <3> QED
      BY <3>1, <3>3, <3>5, <3>6 DEF Xids
  <2> QED
    BY <1>10, <2>2, <2>3
<1> QED
  BY <1>6, <1>7, <1>9, <1>11, <1>12 DEF SeenInv

-----------------------------------------------------------------------------
(* SeenInv holds always *)

LEMMA InitSeen == Init => SeenInv
<1> SUFFICES ASSUME Init
             PROVE  SeenInv
  OBVIOUS
<1>1. \A t \in Xids : phase[t] = "none"
  BY DEF Init
<1>2. \A r \in Rels, s \in Segnos : catalog[r][s] \notin Xids
  BY DEF Init, Xids, NoRow
<1> QED
  BY <1>1, <1>2 DEF SeenInv, Hides, Finished, TruncLost, Remembered, WriterNoted, OwnSeen, Knows

LEMMA NextSeen == AoInv /\ SeenInv /\ [Next]_vars => SeenInv'
<1> SUFFICES ASSUME AoInv, SeenInv, [Next]_vars
             PROVE  SeenInv'
  OBVIOUS
<1>1. CASE BeginTransaction
  BY <1>1, BeginTransactionSeen
<1>2. ASSUME NEW t \in Xids, Transaction(t)
      PROVE  SeenInv'
  <2>1. CASE BeginSubTransaction(t)
    BY <2>1, BeginSubTransactionSeen
  <2>2. CASE \E r \in Rels : SetSegnoForWrite(t, r)
    BY <2>2, SetSegnoForWriteSeen
  <2>3. CASE CreateThenChoose(t)
    BY <2>3, CreateThenChooseSeen
  <2>4. CASE \E r \in Rels : AORelRemoveHashEntryOnCommit(t, r)
    BY <2>4, AORelRemoveHashEntryOnCommitSeen
  <2>5. CASE CreateThenMarkStale(t)
    BY <2>5, CreateThenMarkStaleSeen
  <2>6. CASE AtCommit_AppendOnly(t)
    BY <2>6, AtCommitSeen
  <2>7. CASE RecordTransactionCommit(t)
    BY <2>7, RecordTransactionCommitSeen
  <2>8. CASE AtAbort_AppendOnly(t)
    BY <2>8, AtAbortSeen
  <2>9. CASE RecordTransactionAbort(t)
    BY <2>9, RecordTransactionAbortSeen
  <2>10. CASE AtEOXact_AppendOnly(t)
    BY <2>10, AtEOXactSeen
  <2>11. CASE AtSubCommit_AppendOnly(t)
    BY <2>11, AtSubCommitSeen
  <2>12. CASE AtSubAbort_AppendOnly(t)
    BY <2>12, AtSubAbortSeen
  <2>13. CASE InsistInSubAbort(t)
    BY <2>13, InsistInSubAbortSeen
  <2> QED
    BY <1>2, <2>1, <2>2, <2>3, <2>4, <2>5, <2>6, <2>7, <2>8, <2>9, <2>10, <2>11, <2>12, <2>13 DEF Transaction
<1>3. CASE UNCHANGED vars
  <2>1. /\ shm' = shm /\ catalog' = catalog /\ nextXid' = nextXid /\ phase' = phase
        /\ unseen' = unseen /\ view' = view /\ lost' = lost /\ astray' = astray
    BY <1>3 DEF vars, txnVars, diskVars, noteVars
  <2>2. AoInv' /\ Pool(shm)
    BY NextInv DEF AoInv
  <2>3. Snapshots /\ Onwards /\ NoCommit /\ NoNewRow
    BY <2>1, NoSnapshot DEF Onwards, NoCommit, InProcArray, NoNewRow, HasRow, Writing
  <2>4. NotesKept(shm, shm') /\ ClaimsKept(shm, shm') /\ RemovedFrom(shm') \subseteq lost'
    BY <2>1, <2>2, SameTable
  <2> QED
    BY <2>1, <2>2, <2>3, <2>4, ClaimStep, SeenStep
<1> QED
  BY <1>1, <1>2, <1>3 DEF Next

LEMMA AlwaysSeenInv == Spec => []SeenInv
  BY InitSeen, NextSeen, AlwaysAoInv, PTL DEF Spec

(***************************************************************************)
(* No transaction is given a segment file whose last committed writer its  *)
(* snapshot hides, for any number of transactions, savepoints, relations,  *)
(* statuses and segments, and although AtCommit_AppendOnly sets            *)
(* latestWriteXid before the commit is recorded and the file is let go     *)
(* only after it, unless the entry that remembered the writer was thrown   *)
(* out since the snapshot was taken or went astray.                        *)
(***************************************************************************)
THEOREM AlwaysUnseenWriterAvoided == Spec => []UnseenWriterAvoided
<1>1. ASSUME AoInv, SeenInv
      PROVE  UnseenWriterAvoided
  <2> SUFFICES ASSUME NEW t \in Xids, phase[t] = "active", NEW f \in Top(t).rows, f[1] \notin Top(t).trunc,
                      <<t, f[1]>> \notin lost, f[1] \notin astray
               PROVE  catalog[f[1]][f[2]] \notin unseen[t]
    BY DEF UnseenWriterAvoided
  <2>1. /\ Top(t) \in Level /\ view[t] \in Seq(Level) /\ LevelsOK(view[t]) /\ Top(t) = Last(view[t])
    BY <1>1, ActiveFacts DEF InProcArray
  <2>2. PICK r \in Rels, s \in Segnos : f = <<r, s>>
    BY <2>1 DEF Level, Files
  <2>3. f[1] = r /\ f[2] = s
    BY <2>2
  <2>4. RowIn(view[t], r, s)
    BY <2>1, <2>2, <2>3, RowInTop
  <2>5. Knows(t, r) /\ Has(shm, t, r, s)
    BY <2>3, <2>4 DEF Knows, Has, HasRow, Writing
  <2> QED
    BY <1>1, <2>3, <2>5 DEF SeenInv, OwnSeen
<1> QED
  BY <1>1, AlwaysAoInv, AlwaysSeenInv, PTL

=============================================================================
