----------------------------- MODULE AoSegFiles -----------------------------
(***************************************************************************)
(* The table of append-only writers in the master's shared memory,         *)
(* access/appendonly/appendonlywriter.c: which segment file of a relation  *)
(* the statements of concurrent transactions append to.  HDFS files have   *)
(* one writer, and what an aborted writer leaves behind the end of file    *)
(* that the catalog records is garbage, so the table must never give one   *)
(* file to two running transactions and must remember who wrote it last.   *)
(*                                                                         *)
(* The table is a bounded cache: an entry nobody uses may be thrown out    *)
(* and is built again from the catalog later.  Everything done under       *)
(* AOSegFileLock is one step; AORelCreateHashEntry releases the lock while *)
(* it reads the catalog and so ends one step and begins another.           *)
(***************************************************************************)
EXTENDS Integers, FiniteSets, SequencesExt

CONSTANTS
    Rels,                    \* append-only relations
    MaxXid,                  \* bound: transactions, numbered as they start
    MaxLevel,                \* bound: nesting of (sub)transactions
    SubXids,                 \* bound: transactions that use savepoints
    MaxStmt,                 \* bound: statements that write
    MaxSegno,                \* bound: segment file numbers
    MaxAppendOnlyTables,
    Ids,                     \* the pool of MaxAORelSegFileStatus statuses
    SegmentNums,             \* the values of segment_num
    InitSegnos,              \* the segment files each relation has at start
    InitGarbage,             \* of those, the ones an aborted load was writing
    LargeSegnos,             \* of those, the ones above segfileMaxRowThreshold
    HdfsFails                \* whether HdfsGetFileLength may fail

ASSUME ConstAssumption ==
    /\ IsFiniteSet(Rels)
    /\ MaxXid \in Nat /\ MaxStmt \in Nat /\ MaxSegno \in Nat
    /\ MaxLevel \in Nat \ {0}
    /\ MaxAppendOnlyTables \in Nat \ {0}
    /\ IsFiniteSet(Ids)
    /\ SegmentNums \subseteq 1 .. MaxSegno
    /\ InitSegnos \subseteq 1 .. MaxSegno
    /\ InitGarbage \subseteq InitSegnos
    /\ LargeSegnos \subseteq InitSegnos
    /\ SubXids \subseteq 1 .. MaxXid
    /\ HdfsFails \in BOOLEAN

VARIABLES
    shm,        \* what AOSegFileLock protects, see Shared below
    aoLock,     \* AOSegFileLock after an error was raised under it, else 0
    catalog,    \* committed rows of pg_aoseg: relation -> segno -> writer
    garbage,    \* files longer on HDFS than the catalog says
    nextXid,
    phase, unseen, view, pending, op, stmts,
    lost,       \* entries removed since a transaction took its snapshot
    astray,     \* relations whose entry took in another's status, see Strayed
    unchecked   \* files that were not checked when they had to be, see Unchecked

txnVars == <<phase, unseen, view, pending, op, stmts, nextXid>>
diskVars == <<catalog, garbage>>
noteVars == <<astray, unchecked>>
vars == <<shm, aoLock, diskVars, txnVars, lost, noteVars>>

Xids == 1 .. MaxXid
Segnos == 1 .. MaxSegno
Files == Rels \X Segnos
NoRow == -1                  \* the catalog has no row for the segment file

(* AOSegfileStatus; xid and latestWriteXid are 0 for InvalidTransactionId,
   and tupcount is reduced to its being above the threshold (tupsadded is
   never anything but 0). *)
Status == [segno : 0 .. MaxSegno, inuse : BOOLEAN, xid : 0 .. MaxXid,
           latestWriteXid : 0 .. MaxXid, isfull : BOOLEAN,
           needCheck : BOOLEAN, large : BOOLEAN]

(* AppendOnlyHash and the fields of its entries, the pool of statuses, the
   list of each entry as a sequence of statuses and the free list as a set:
   any of its members may be the next one. *)
Shared == [hash : SUBSET Rels, txns : [Rels -> Int], stale : [Rels -> 0 .. MaxXid],
           maxSegno : [Rels -> 0 .. MaxSegno], list : [Rels -> Seq(Ids)],
           status : [Ids -> Status], free : SUBSET Ids, numAorels : Int]

(* One level of a transaction: the relations it truncated, the rows of
   pg_aoseg it made visible to itself, the old files it appended to, and its
   locks.  A subtransaction starts from its parent's. *)
Level == [trunc : SUBSET Rels, rows : SUBSET Files, dirty : SUBSET Files,
          rowLock : SUBSET Rels, exclLock : SUBSET Rels]

NoWork == [trunc |-> {}, rows |-> {}, dirty |-> {}, rowLock |-> {}, exclLock |-> {}]

(* What a transaction is in the middle of: nothing, an error, or a statement
   that reads the catalog without the lock. *)
Idle == [kind |-> "none"]
Error == [kind |-> "error"]
Op == {Idle, Error}
        \cup [kind : {"write"}, rel : Rels, n : SegmentNums, reuse : BOOLEAN, rows : SUBSET Segnos]
        \cup [kind : {"stale"}, rel : Rels, rows : SUBSET Segnos]

(***************************************************************************)
(* The types of the variables.                                             *)
(***************************************************************************)
TypeOK ==
    /\ shm \in Shared
    /\ aoLock \in 0 .. MaxXid
    /\ catalog \in [Rels -> [Segnos -> NoRow .. MaxXid]]
    /\ garbage \subseteq Files
    /\ nextXid \in 1 .. (MaxXid + 1)
    /\ phase \in [Xids -> {"none", "active", "commit", "abort", "released", "done"}]
    /\ unseen \in [Xids -> SUBSET Xids]
    /\ view \in [Xids -> Seq(Level)]
    /\ pending \in [Xids -> [Rels -> 0 .. MaxLevel]]
    /\ op \in [Xids -> Op]
    /\ stmts \in 0 .. MaxStmt
    /\ lost \subseteq Xids \X Rels
    /\ astray \subseteq Rels
    /\ unchecked \subseteq Files

(* InitAppendOnlyWriter: an empty table, the pool of statuses in shared
   memory all zero.  A file may hold garbage of a load that a restart of the
   master cut off. *)
Init ==
    /\ shm = [hash |-> {}, txns |-> [r \in Rels |-> 0], stale |-> [r \in Rels |-> 0],
              maxSegno |-> [r \in Rels |-> 0], list |-> [r \in Rels |-> << >>],
              status |-> [i \in Ids |-> [segno |-> 0, inuse |-> FALSE, xid |-> 0,
                            latestWriteXid |-> 0, isfull |-> FALSE,
                            needCheck |-> FALSE, large |-> FALSE]],
              free |-> Ids, numAorels |-> 0]
    /\ aoLock = 0
    /\ catalog = [r \in Rels |-> [s \in Segnos |-> IF s \in InitSegnos THEN 0 ELSE NoRow]]
    /\ garbage = Rels \X InitGarbage
    /\ nextXid = 1
    /\ phase = [t \in Xids |-> "none"]
    /\ unseen = [t \in Xids |-> {}]
    /\ view = [t \in Xids |-> << >>]
    /\ pending = [t \in Xids |-> [r \in Rels |-> 0]]
    /\ op = [t \in Xids |-> Idle]
    /\ stmts = 0
    /\ lost = {} /\ astray = {} /\ unchecked = {}

-----------------------------------------------------------------------------
(* Transactions, their snapshots, locks and view of the catalog *)

InProcArray(t) == phase[t] \in {"active", "commit", "abort"}
HoldsLocks(t) == InProcArray(t)
Top(t) == Last(view[t])
NestLevel(t) == Len(view[t])

RowLockable(t, r) ==
    \A u \in Xids \ {t} : HoldsLocks(u) => r \notin Top(u).exclLock
ExclLockable(t, r) ==
    \A u \in Xids \ {t} : HoldsLocks(u) => r \notin Top(u).exclLock \cup Top(u).rowLock

SetTop(t, v) == [view EXCEPT ![t] = Append(Front(@), v)]

(* The rows of pg_aoseg that SnapshotNow shows to transaction t. *)
RowsSeen(t, r) ==
    {s \in Segnos : \/ <<r, s>> \in Top(t).rows
                    \/ r \notin Top(t).trunc /\ catalog[r][s] # NoRow}

(* GetSnapshotData: the transactions whose work a new snapshot hides. *)
NewSnapshot == {x \in Xids : x >= nextXid \/ InProcArray(x)}

PendingRels(t) == {r \in Rels : pending[t][r] # 0}

(* The entries removed by transactions that a new snapshot hides. *)
RemovedByUnseen == UNION {PendingRels(t) : t \in {t \in Xids : phase[t] = "commit"}}

(* Bound: only transactions that did something end; the end of another one
   changes nothing here, and no snapshot that hides it hides a writer. *)
Ends(t) == Top(t) # NoWork \/ op[t].kind # "none" \/ \E i \in Ids : shm.status[i].xid = t

(* A statement of transaction t may start. *)
Ready(t) == phase[t] = "active" /\ op[t].kind = "none"

BeginTransaction ==
    /\ nextXid \in Xids
    /\ nextXid' = nextXid + 1
    /\ phase' = [phase EXCEPT ![nextXid] = "active"]
    /\ view' = [view EXCEPT ![nextXid] = <<NoWork>>]
    /\ unseen' = [unseen EXCEPT ![nextXid] = {x \in Xids : x > nextXid \/ InProcArray(x)}]
    /\ lost' = lost \cup ({nextXid} \X RemovedByUnseen)
    /\ UNCHANGED <<shm, aoLock, diskVars, pending, op, stmts, noteVars>>

BeginSubTransaction(t) ==
    /\ Ready(t)
    /\ t \in SubXids /\ NestLevel(t) < MaxLevel
    /\ view' = [view EXCEPT ![t] = Append(@, [Top(t) EXCEPT !.dirty = {}])]
    /\ UNCHANGED <<shm, aoLock, diskVars, nextXid, phase, unseen, pending, op, stmts, lost, noteVars>>

-----------------------------------------------------------------------------
(* The table: removal of entries and allocation of statuses *)

(* Mutant: the users of an entry do not keep it. *)
UnusedThoughUsed(m) == {r \in m.hash : m.stale[r] = 0}

(* The entries that may be thrown out to make room. *)
Unused(m) == {r \in m.hash : m.txns[r] = 0 /\ m.stale[r] = 0}

(* The field f of the entries, blank for the ones of V. *)
Blanked(f, V, blank) == [r \in Rels |-> IF r \in V THEN blank ELSE f[r]]

(* Removes the entries of V; their statuses go back to the pool as they are. *)
AORelRemoveHashEntry(m, V) ==
    [m EXCEPT !.hash = @ \ V, !.txns = Blanked(@, V, 0), !.stale = Blanked(@, V, 0),
              !.maxSegno = Blanked(@, V, 0), !.list = Blanked(@, V, << >>),
              !.free = @ \cup UNION {ToSet(m.list[r]) : r \in V},
              !.numAorels = @ - Cardinality(V)]

(* k calls of AORelGetSegfileStatus for relation cur: when the pool is empty
   other unused entries are thrown out one by one, in the order in which the
   hash table happens to list them, until there is a status or none is left.
   All outcomes: the table and the statuses obtained, fewer than k if they
   ran out. *)
AORelGetSegfileStatus(m, cur, k) ==
    LET Victims == Unused(m) \ {cur}
        Without(V) == AORelRemoveHashEntry(m, V)
        Enough(V) == Cardinality(Without(V).free) >= k
        Thrown == {V \in SUBSET Victims : /\ V # {} => \E v \in V : ~Enough(V \ {v})
                                          /\ Enough(V) \/ V = Victims}
        Got(V) == IF Enough(V) THEN k ELSE Cardinality(Without(V).free)
    IN  UNION {{[m |-> [Without(V) EXCEPT !.free = @ \ ToSet(ids)], ids |-> ids] :
                  ids \in Injection(1 .. Got(V), Without(V).free)} : V \in Thrown}

(* The place of x in sequence s. *)
Position(s, x) == CHOOSE j \in 1 .. Len(s) : s[j] = x

(* The numbers of S in ascending order. *)
Ascending(S) ==
    {q \in Bijection(1 .. Cardinality(S), S) : \A i, j \in DOMAIN q : i < j => q[i] < q[j]}

(* The entry of relation r gets statuses ids for the files numbered segno, the
   last one first; it is counted if there was one for each. *)
Filled(m, r, ids, segno) ==
    LET Read(s) == [segno |-> s, inuse |-> FALSE, xid |-> 0, latestWriteXid |-> 0,
                    isfull |-> FALSE, needCheck |-> TRUE, large |-> s \in LargeSegnos]
    IN  [m EXCEPT !.status = [i \in Ids |-> IF i \in ToSet(ids) THEN Read(segno[Position(ids, i)])
                                            ELSE m.status[i]],
                  !.list[r] = Reverse(ids),
                  !.maxSegno[r] = IF ids = << >> THEN 0 ELSE segno[Len(ids)],
                  !.numAorels = IF Len(ids) = Len(segno) THEN @ + 1 ELSE @]

(* AppendOnlyRelHashNew: the tables with room for one more entry. *)
Rooms(m) == IF m.numAorels < MaxAppendOnlyTables THEN {m}
            ELSE {AORelRemoveHashEntry(m, {v}) : v \in Unused(m)}

(* The rows become the entry of relation r, in ascending order.  When the
   statuses run out the half-filled entry stays in the hash table. *)
Entered(m, r, rows) ==
    UNION {{[m |-> Filled(o.m, r, o.ids, segno), ok |-> Len(o.ids) = Len(segno)] :
              o \in AORelGetSegfileStatus([m EXCEPT !.hash = @ \cup {r}], r, Cardinality(rows))} :
           segno \in Ascending(rows)}

(* AORelCreateHashEntry once it holds the lock again, with the rows it read
   without the lock. *)
AORelCreateHashEntry(m, r, rows) ==
    IF r \in m.hash THEN {[m |-> m, ok |-> TRUE]}
    ELSE IF Rooms(m) = {} THEN {[m |-> m, ok |-> FALSE]}
    ELSE UNION {Entered(b, r, rows) : b \in Rooms(m)}

-----------------------------------------------------------------------------
(* The choice of segment files *)

(* The last committed writer of a file is hidden by snapshot hid. *)
usedByConcurrentTransaction(st, t, hid) ==
    /\ st.latestWriteXid # 0
    /\ t < st.latestWriteXid \/ st.latestWriteXid \in hid

(* addCandidateSegno with keepHash: the segment a file belongs to. *)
SlotOf(segno, n) == (segno + n - 1) % n

(* The segments that the statuses in C belong to. *)
Slots(m, C, n) == {SlotOf(m.status[i].segno, n) : i \in C}

(* The statuses of list l that are looked at: the scan stops as soon as each
   of the n segments has a candidate; good are the statuses that become one. *)
Scanned(m, l, n, have, good) ==
    {l[j] : j \in {j \in 1 .. Len(l) :
       have \cup Slots(m, good \cap {l[h] : h \in 1 .. (j - 1)}, n) # 0 .. (n - 1)}}

(* CheckSegFileForWrite on a filesystem that cannot truncate: the file is not
   as long as the row of the catalog says. *)
Spoilt(st, t, r) ==
    /\ st.needCheck
    /\ r \notin Top(t).trunc
    /\ <<r, st.segno>> \in garbage /\ st.segno \in RowsSeen(t, r)

(* CheckSegFileForWriteIfNeeded of the statuses in C. *)
Checked(m, C, t, r) ==
    [m EXCEPT !.status = [i \in Ids |->
        IF i \notin C THEN m.status[i]
        ELSE IF Spoilt(m.status[i], t, r)
        THEN [m.status[i] EXCEPT !.needCheck = FALSE, !.inuse = TRUE, !.xid = 0]
        ELSE [m.status[i] EXCEPT !.needCheck = FALSE]]]

(* Mutant: it is re-adjusted without having been increased. *)
CountUserReadjusted(n, holder) == IF holder THEN n - 1 ELSE n + 1

(* txns_using_rel is increased, and re-adjusted for a transaction that is
   found to hold a file of the relation. *)
CountUser(n, holder) == IF holder THEN n ELSE n + 1

(* The request q: transaction q.t wants files of relation q.rel for q.n segments,
   with snapshot q.hid, its own files again only if q.reuse.  Own and Free are
   the statuses that the two scans of the entry's list ask CheckSegFileForWrite
   about, Found the ones that pass. *)
Sound(m, C, q) == {i \in C : ~Spoilt(m.status[i], q.t, q.rel)}

Own(m, q) ==
    LET same == {i \in ToSet(m.list[q.rel]) :
                   q.reuse /\ ~m.status[i].isfull /\ m.status[i].xid = q.t}
    IN  same \cap Scanned(m, m.list[q.rel], q.n, {}, Sound(m, same, q))

Free(m, q) ==
    LET fit == {i \in ToSet(m.list[q.rel]) :
                  /\ ~m.status[i].isfull /\ ~m.status[i].inuse
                  /\ ~usedByConcurrentTransaction(m.status[i], q.t, q.hid)}
    IN  fit \cap Scanned(m, m.list[q.rel], q.n, Slots(m, Sound(m, Own(m, q), q), q.n),
                         Sound(m, fit, q))

Asked(m, q) == Own(m, q) \cup Free(m, q)
Found(m, q) == Sound(m, Asked(m, q), q)

(* How many new files it takes until each segment has a candidate. *)
Missing(m, q) ==
    LET All(k) == 0 .. (q.n - 1) = Slots(m, Found(m, q), q.n) \cup
                     {SlotOf(m.maxSegno[q.rel] + j, q.n) : j \in 1 .. k}
    IN  {k \in 0 .. q.n : All(k) /\ (k > 0 => ~All(k - 1))}

(* New statuses get a number and a place in the list, nothing else. *)
Grown(m, r, ids) ==
    [m EXCEPT !.status = [i \in Ids |->
                 IF i \in ToSet(ids)
                 THEN [m.status[i] EXCEPT !.segno = m.maxSegno[r] + Position(ids, i)]
                 ELSE m.status[i]],
              !.list[r] = Reverse(ids) \o m.list[r],
              !.maxSegno[r] = @ + Len(ids)]

(* Of the candidates C each segment takes the lowest number. *)
Lowest(m, C, n) ==
    {i \in C : \A j \in C : \/ SlotOf(m.status[i].segno, n) # SlotOf(m.status[j].segno, n)
                            \/ m.status[i].segno <= m.status[j].segno}

Taken(m, C, t) ==
    [m EXCEPT !.status = [i \in Ids |->
        IF i \in C THEN [m.status[i] EXCEPT !.inuse = TRUE, !.xid = t] ELSE m.status[i]]]

(* HdfsGetFileLength fails for status f: the checks before it are done, and
   the count is not re-adjusted yet if f is checked in the first scan. *)
Failed(m, q, f) ==
    LET l == m.list[q.rel]
        earlier == {i \in ToSet(l) : Position(l, i) < Position(l, f)}
        before == IF f \in Own(m, q) THEN Own(m, q) \cap earlier
                  ELSE Own(m, q) \cup (Free(m, q) \cap earlier)
        left == [Checked(m, before, q.t, q.rel) EXCEPT !.txns[q.rel] =
                   CountUser(@, Own(m, q) # {} /\ f \notin Own(m, q))]
    IN  [m |-> left, segnos |-> {}, res |-> "ioerror"]

(* The table after the two scans. *)
LookedAt(m, q) ==
    Checked([m EXCEPT !.txns[q.rel] = CountUser(@, Own(m, q) # {})], Asked(m, q), q.t, q.rel)

(* The new statuses, k or fewer; bound: numbers up to MaxSegno. *)
Obtainable(m, q, k) ==
    {o \in AORelGetSegfileStatus(LookedAt(m, q), q.rel, k) :
       m.maxSegno[q.rel] + Len(o.ids) <= MaxSegno}

(* The outcome with the new statuses o of the k that are missing: the table,
   the files given, and whether it failed. *)
Outcome(m, q, k, o) ==
    LET g == Grown(o.m, q.rel, o.ids)
        C == Lowest(g, Found(m, q) \cup ToSet(o.ids), q.n)
    IN  IF Len(o.ids) < k
        THEN [m |-> g, segnos |-> {}, res |-> "error"]
        ELSE [m |-> Taken(g, C, q.t), segnos |-> {g.status[i].segno : i \in C}, res |-> "ok"]

(* The statuses whose check calls HdfsGetFileLength, if that may fail. *)
Measured(m, q) ==
    {i \in Asked(m, q) : /\ HdfsFails /\ m.status[i].needCheck
                         /\ m.status[i].segno \in RowsSeen(q.t, q.rel)}

(* The part of SetSegnoForWrite after the entry was found, all outcomes. *)
ChooseSegnos(m, q) ==
    {Failed(m, q, f) : f \in Measured(m, q)} \cup
       UNION {{Outcome(m, q, k, o) : o \in Obtainable(m, q, k)} : k \in Missing(m, q)}

-----------------------------------------------------------------------------
(* Statements *)

RemovedFrom(m) == {t \in Xids : InProcArray(t)} \X (shm.hash \ m.hash)
LostBy(m) == lost \cup RemovedFrom(m)

(* The entries removed since the snapshot of t's statement, when it is hid. *)
LostSince(t, hid) ==
    IF hid = unseen[t] THEN lost
    ELSE {p \in lost : p[1] # t} \cup ({t} \X RemovedByUnseen)

(* The entry of relation r goes astray when transaction t leaves the table m:
   it takes in a status that still names another running transaction, which
   used it for a relation whose entry was removed. *)
Strayed(t, r, m) ==
    {r : i \in {i \in ToSet(m.list[r]) \ ToSet(shm.list[r]) :
                  LET x == m.status[i].xid IN x \notin {0, t} /\ phase[x] # "done"}}

(* The files of relation r that are not checked, or in vain, when transaction
   t leaves the table m: a new number for a file that has a row which the
   entry does not know; a file of the relation's new storage, when t changed
   it, whose check counts for the old storage once t has aborted. *)
Unchecked(t, r, m) ==
    LET rows == RowsSeen(t, r) \cup {s \in Segnos : catalog[r][s] # NoRow}
        unknown == rows \ (IF r \in shm.hash THEN {} ELSE op[t].rows)
        all == ToSet(m.list[r])
        new == all \ ToSet(shm.list[r])
        st(i) == m.status[i]
        inVain(i) == /\ r \in Top(t).trunc
                     /\ i \in new \/ shm.status[i].needCheck
                     /\ ~st(i).needCheck /\ st(i).xid # t
    IN  {<<r, st(i).segno>> : i \in {i \in all : (i \in new /\ st(i).segno \in unknown) \/ inVain(i)}}

(* What a choice with outcome o leaves of transaction t's statement. *)
Chose(t, r, v, o, gone) ==
    /\ shm' = o.m
    /\ lost' = gone \cup RemovedFrom(o.m)
    /\ astray' = astray \cup Strayed(t, r, o.m)
    /\ unchecked' = unchecked \cup Unchecked(t, r, o.m)
    /\ aoLock' = IF o.res = "ioerror" THEN t ELSE aoLock
    /\ op' = [op EXCEPT ![t] = IF o.res = "ok" THEN Idle ELSE Error]
    /\ LET given == {r} \X o.segnos
       IN  /\ view' = SetTop(t, [v EXCEPT !.rows = @ \cup given,
                                          !.dirty = IF r \in v.trunc THEN @ ELSE @ \cup given])
           (* a file without a row is overwritten *)
           /\ garbage' = IF r \in v.trunc THEN garbage
                         ELSE garbage \ (given \ ({r} \X RowsSeen(t, r)))

(* The snapshots a statement of t may run with: a read-committed transaction
   takes a new one, a serializable one keeps its first. *)
StatementSnapshots(t) == {unseen[t], NewSnapshot \ {t}}

(* reuse_segfilenum_in_same_xid is FALSE only for an error table that the
   statement was given segment files of before. *)
ReuseFlags(t, r) == {TRUE} \cup {FALSE : s \in {s \in Segnos : <<r, s>> \in Top(t).rows}}

(* SetSegnoForWrite, called with RowExclusiveLock on the relation. *)
SetSegnoForWrite(t, r) ==
    /\ Ready(t) /\ aoLock = 0
    /\ stmts < MaxStmt
    /\ RowLockable(t, r)
    /\ stmts' = stmts + 1
    /\ LET v == [Top(t) EXCEPT !.rowLock = @ \cup {r}]
       IN  \E n \in SegmentNums, reuse \in ReuseFlags(t, r), hid \in StatementSnapshots(t) :
             /\ unseen' = [unseen EXCEPT ![t] = hid]
             /\ \/ /\ r \in shm.hash
                   /\ \E o \in ChooseSegnos(shm, [t |-> t, rel |-> r, n |-> n, reuse |-> reuse, hid |-> hid]) :
                        Chose(t, r, v, o, LostSince(t, hid))
                \/ /\ r \notin shm.hash
                   /\ view' = SetTop(t, v)
                   /\ op' = [op EXCEPT ![t] = [kind |-> "write", rel |-> r, n |-> n,
                                               reuse |-> reuse, rows |-> RowsSeen(t, r)]]
                   /\ lost' = LostSince(t, hid)
                   /\ UNCHANGED <<shm, aoLock, garbage, noteVars>>
    /\ UNCHANGED <<catalog, nextXid, phase, pending>>

(* The rest of SetSegnoForWrite when the entry had to be created. *)
CreateThenChoose(t) ==
    /\ phase[t] = "active" /\ op[t].kind = "write" /\ aoLock = 0
    /\ \E c \in AORelCreateHashEntry(shm, op[t].rel, op[t].rows) :
         \/ /\ c.ok
            /\ \E o \in ChooseSegnos(c.m, [t |-> t, rel |-> op[t].rel, n |-> op[t].n,
                                       reuse |-> op[t].reuse, hid |-> unseen[t]]) :
                 Chose(t, op[t].rel, Top(t), o, lost)
         \/ /\ ~c.ok
            /\ shm' = c.m
            /\ lost' = LostBy(c.m)
            /\ op' = [op EXCEPT ![t] = Error]
            /\ UNCHANGED <<aoLock, garbage, view, noteVars>>
    /\ UNCHANGED <<catalog, nextXid, phase, unseen, pending, stmts>>

(* Mutant: the latest request decides. *)
PendingLevelLatest(old, level) == level

(* The nest level at which the removal of an entry is pending. *)
PendingLevel(old, level) == IF old \in 1 .. level THEN old ELSE level

(* AORelRemoveHashEntryOnCommit asks for the removal of the relation's entry,
   because the transaction gives the relation new files.  TRUNCATE and an
   UPDATE of an ORC table call it while pg_aoseg still has the old rows;
   ALTER TABLE SET DISTRIBUTED BY calls it when the new files have theirs. *)
AORelRemoveHashEntryOnCommit(t, r) ==
    /\ Ready(t) /\ aoLock = 0
    /\ stmts < MaxStmt
    /\ ExclLockable(t, r)
    /\ stmts' = stmts + 1
    /\ pending' = [pending EXCEPT ![t][r] = PendingLevel(@, NestLevel(t))]
    /\ \E new \in {{}} \cup {1 .. n : n \in SegmentNums} :
         /\ view' = SetTop(t, [Top(t) EXCEPT !.exclLock = @ \cup {r}, !.trunc = @ \cup {r},
                                 !.rows = (@ \ ({r} \X Segnos)) \cup ({r} \X new)])
         /\ \/ /\ r \in shm.hash
               /\ shm' = [shm EXCEPT !.stale[r] = t]
               /\ UNCHANGED op
            \/ /\ r \notin shm.hash
               /\ op' = [op EXCEPT ![t] = [kind |-> "stale", rel |-> r,
                                           rows |-> IF new = {} THEN RowsSeen(t, r) ELSE new]]
               /\ UNCHANGED shm
    /\ UNCHANGED <<aoLock, diskVars, nextXid, phase, unseen, lost, noteVars>>

CreateThenMarkStale(t) ==
    /\ phase[t] = "active" /\ op[t].kind = "stale" /\ aoLock = 0
    /\ \E c \in AORelCreateHashEntry(shm, op[t].rel, op[t].rows) :
         /\ shm' = IF c.ok THEN [c.m EXCEPT !.stale[op[t].rel] = t] ELSE c.m
         /\ lost' = LostBy(c.m)
         /\ op' = [op EXCEPT ![t] = IF c.ok THEN Idle ELSE Error]
    /\ UNCHANGED <<aoLock, diskVars, nextXid, phase, unseen, view, pending, stmts, noteVars>>

-----------------------------------------------------------------------------
(* The end of (sub)transactions *)

(* The statuses that the end of transaction t is about: the ones it wrote to,
   in the entries that are in use. *)
OwnIds(m, t) ==
    {i \in Ids : m.status[i].xid = t /\ \E r \in m.hash : m.txns[r] > 0 /\ i \in ToSet(m.list[r])}

(* Mutant: the writer is not remembered. *)
WrittenForgotten(st, t) == [st EXCEPT !.isfull = st.large]

(* A status after the commit of its writer t. *)
Written(st, t) == [st EXCEPT !.isfull = st.large, !.latestWriteXid = t]

(* Mutant: files an aborted writer leaves are trusted. *)
Trusted(st) == st

(* A status after the abort of its writer. *)
Distrusted(st) == [st EXCEPT !.needCheck = TRUE]

(* AtCommit_AppendOnly(false): the entries of truncated relations go, and
   latestWriteXid remembers the writer before its commit is recorded. *)
AtCommit_AppendOnly(t) ==
    /\ Ready(t) /\ Ends(t) /\ aoLock = 0
    /\ NestLevel(t) = 1
    /\ LET removed == AORelRemoveHashEntry(shm, PendingRels(t) \cap shm.hash)
       IN  shm' = [removed EXCEPT !.status =
                     [i \in Ids |-> IF i \in OwnIds(removed, t) THEN Written(@[i], t) ELSE @[i]]]
    /\ lost' = LostBy(shm')
    /\ phase' = [phase EXCEPT ![t] = "commit"]
    /\ UNCHANGED <<aoLock, diskVars, nextXid, unseen, view, pending, op, stmts, noteVars>>

(* RecordTransactionCommit, out of the process array, locks released. *)
RecordTransactionCommit(t) ==
    /\ phase[t] = "commit"
    /\ catalog' = [r \in Rels |-> [s \in Segnos |->
                     IF <<r, s>> \in Top(t).rows THEN t
                     ELSE IF r \in Top(t).trunc THEN NoRow ELSE catalog[r][s]]]
    /\ garbage' = {f \in garbage : f[1] \notin Top(t).trunc}
    /\ phase' = [phase EXCEPT ![t] = "released"]
    /\ UNCHANGED <<shm, aoLock, nextXid, unseen, view, pending, op, stmts, lost, noteVars>>

(* AbortTransaction releases lightweight locks first, then calls
   AtAbort_AppendOnly(false): files it wrote to must be checked again.  An
   error between AtCommit_AppendOnly and the commit record leads here too. *)
AtAbort_AppendOnly(t) ==
    /\ phase[t] \in {"active", "commit"} /\ Ends(t)
    /\ NestLevel(t) = 1
    /\ aoLock \in {0, t}
    /\ aoLock' = 0
    /\ LET cleared == [shm EXCEPT !.stale = [r \in Rels |-> IF @[r] = t THEN 0 ELSE @[r]]]
       IN  shm' = [cleared EXCEPT !.status = [i \in Ids |->
                     IF i \in OwnIds(cleared, t) THEN Distrusted(@[i]) ELSE @[i]]]
    /\ phase' = [phase EXCEPT ![t] = "abort"]
    /\ op' = [op EXCEPT ![t] = Idle]
    /\ UNCHANGED <<diskVars, nextXid, unseen, view, pending, stmts, lost, noteVars>>

(* RecordTransactionAbort: what the transaction appended to files that have a
   committed row is garbage, if it got to write. *)
RecordTransactionAbort(t) ==
    /\ phase[t] = "abort"
    /\ LET touched == UNION {view[t][i].dirty : i \in 1 .. NestLevel(t)}
       IN  \E spoilt \in {{}, touched} :
             garbage' = garbage \cup {f \in spoilt : catalog[f[1]][f[2]] # NoRow}
    /\ phase' = [phase EXCEPT ![t] = "released"]
    /\ UNCHANGED <<shm, aoLock, catalog, nextXid, unseen, view, pending, op, stmts, lost, noteVars>>

(* A status that its writer lets go. *)
Released(st) == [st EXCEPT !.inuse = FALSE, !.xid = 0]

(* AtEOXact_AppendOnly, after the locks were released. *)
AtEOXact_AppendOnly(t) ==
    /\ phase[t] = "released" /\ aoLock = 0
    /\ LET mine == {r \in shm.hash : /\ shm.txns[r] > 0
                                     /\ \E i \in ToSet(shm.list[r]) : shm.status[i].xid = t}
       IN  shm' = [shm EXCEPT
                     !.status = [i \in Ids |-> IF i \in OwnIds(shm, t) THEN Released(@[i]) ELSE @[i]],
                     !.txns = [r \in Rels |-> IF r \in mine THEN @[r] - 1 ELSE @[r]]]
    /\ phase' = [phase EXCEPT ![t] = "done"]
    /\ view' = [view EXCEPT ![t] = << >>]
    /\ unseen' = [unseen EXCEPT ![t] = {}]
    /\ pending' = [pending EXCEPT ![t] = [r \in Rels |-> 0]]
    /\ lost' = {p \in lost : p[1] # t}
    /\ UNCHANGED <<aoLock, diskVars, nextXid, op, stmts, noteVars>>

(* AtCommit_AppendOnly(true): the pending removals become the parent's. *)
AtSubCommit_AppendOnly(t) ==
    /\ Ready(t) /\ aoLock = 0
    /\ NestLevel(t) > 1
    /\ LET k == NestLevel(t)
       IN  /\ pending' = [pending EXCEPT ![t] = [r \in Rels |-> IF @[r] >= k THEN k - 1 ELSE @[r]]]
           /\ view' = [view EXCEPT ![t] = Append(SubSeq(@, 1, k - 2),
                          [Top(t) EXCEPT !.dirty = @ \cup view[t][k - 1].dirty])]
    /\ UNCHANGED <<shm, aoLock, diskVars, nextXid, phase, unseen, op, stmts, lost, noteVars>>

(* AtAbort_AppendOnly(true): the removals asked for in the subtransaction are
   forgotten, and all files of the transaction must be checked again.
   AbortSubTransaction calls it before it releases lightweight locks. *)
AtSubAbort_AppendOnly(t) ==
    /\ phase[t] = "active" /\ aoLock = 0
    /\ NestLevel(t) > 1
    /\ LET k == NestLevel(t)
           dropped == {r \in Rels : pending[t][r] >= k}
           below == view[t][k - 1]
           cleared == [shm EXCEPT !.stale = [r \in Rels |-> IF r \in dropped THEN 0 ELSE @[r]]]
       IN  /\ \A r \in dropped \cap shm.hash : shm.stale[r] = t      \* Insist
           /\ shm' = [cleared EXCEPT !.status = [i \in Ids |->
                     IF i \in OwnIds(cleared, t) THEN Distrusted(@[i]) ELSE @[i]]]
           /\ pending' = [pending EXCEPT ![t] = [r \in Rels |-> IF r \in dropped THEN 0 ELSE @[r]]]
           /\ view' = [view EXCEPT ![t] = Front(@)]
           /\ \E spoilt \in {{}, Top(t).dirty} :
                garbage' = garbage \cup {f \in spoilt : \/ f \in below.rows
                                                        \/ catalog[f[1]][f[2]] # NoRow}
    /\ op' = [op EXCEPT ![t] = Idle]
    /\ UNCHANGED <<aoLock, catalog, nextXid, phase, unseen, stmts, lost, noteVars>>

(* The Insist of AtAbort_AppendOnly(true) fails for an entry that is not marked
   stale, and raises an error under AOSegFileLock.  AbortSubTransaction then
   begins again and asks for the lock it holds, which is a PANIC: nobody gets
   the lock any more, so what was cleared before the error is not seen. *)
InsistInSubAbort(t) ==
    /\ phase[t] = "active" /\ aoLock = 0
    /\ NestLevel(t) > 1
    /\ \E r \in shm.hash : pending[t][r] >= NestLevel(t) /\ shm.stale[r] # t
    /\ aoLock' = t
    /\ op' = [op EXCEPT ![t] = Error]
    /\ UNCHANGED <<shm, diskVars, nextXid, phase, unseen, view, pending, stmts, lost, noteVars>>

-----------------------------------------------------------------------------
Transaction(t) ==
    \/ BeginSubTransaction(t)
    \/ \E r \in Rels : SetSegnoForWrite(t, r)
    \/ CreateThenChoose(t)
    \/ \E r \in Rels : AORelRemoveHashEntryOnCommit(t, r)
    \/ CreateThenMarkStale(t)
    \/ AtCommit_AppendOnly(t)
    \/ RecordTransactionCommit(t)
    \/ AtAbort_AppendOnly(t)
    \/ RecordTransactionAbort(t)
    \/ AtEOXact_AppendOnly(t)
    \/ AtSubCommit_AppendOnly(t)
    \/ AtSubAbort_AppendOnly(t)
    \/ InsistInSubAbort(t)

Next ==
    \/ BeginTransaction
    \/ \E t \in Xids : Transaction(t)

Spec == Init /\ [][Next]_vars

(* Relations are interchangeable, and so are the statuses of the pool. *)
RelSymmetry == Permutations(Rels) \cup Permutations(Ids)

-----------------------------------------------------------------------------
(***************************************************************************)
(* SetSegnoForWrite gives no segment file to two running transactions,     *)
(* whatever entries were thrown out and built again in between, unless the *)
(* relation's entry went astray: its count can then fall too low, which is *)
(* what ZeroIsSafe shows.                                                  *)
(***************************************************************************)
GivenOnce ==
    \A t, u \in Xids : t # u /\ phase[t] = "active" /\ phase[u] = "active" =>
        \A f \in Top(t).rows \cap Top(u).rows : f[1] \in astray

(* The transactions that hold a segment file of relation r. *)
Users(m, r) ==
    {t \in Xids : phase[t] # "done" /\ \E i \in ToSet(m.list[r]) : m.status[i].xid = t}

(***************************************************************************)
(* An entry counts every transaction that holds one of its segment files,  *)
(* so it is not thrown out while it is used (txns_using_rel), unless the   *)
(* entry went astray.                                                      *)
(***************************************************************************)
UsersCounted ==
    \A r \in shm.hash \ astray :
        Cardinality(Users(shm, r)) <= shm.txns[r]

(***************************************************************************)
(* A transaction is not given a file whose last committed writer its       *)
(* snapshot does not see, unless the relation's entry was thrown out in    *)
(* the meantime or went astray (usedByConcurrentTransaction,               *)
(* latestWriteXid).                                                        *)
(***************************************************************************)
UnseenWriterAvoided ==
    \A t \in Xids : phase[t] = "active" =>
        \A f \in Top(t).rows : \/ f[1] \in Top(t).trunc
                               \/ catalog[f[1]][f[2]] \notin unseen[t]
                               \/ <<t, f[1]>> \in lost
                               \/ f[1] \in astray

(***************************************************************************)
(* At every nest level the entries whose removal is pending are the ones   *)
(* of the relations truncated at that level and not rolled back, and these *)
(* entries are in the table and marked stale for the transaction.          *)
(***************************************************************************)
PendingIsTruncated ==
    \A t \in Xids : Ready(t) =>
        /\ \A k \in 1 .. NestLevel(t) :
             {r \in Rels : pending[t][r] \in 1 .. k} = view[t][k].trunc
        /\ \A r \in Top(t).trunc : r \in shm.hash /\ shm.stale[r] = t

(***************************************************************************)
(* A file that has a row is not appended to while it holds garbage behind  *)
(* the end the row records (needCheck, CheckSegFileForWriteIfNeeded),      *)
(* unless the entry did not know of the file or the check was made by a    *)
(* transaction that had truncated the relation (unchecked).                *)
(***************************************************************************)
NeverAppendsToGarbage ==
    [][\A t \in Xids :
         phase[t] = "active" /\ phase'[t] = "active" /\ Len(view'[t]) = Len(view[t]) =>
           \A f \in Last(view'[t]).dirty \ Top(t).dirty :
             \/ f \notin garbage \/ f[2] \notin RowsSeen(t, f[1])
             \/ f \in unchecked']_vars

(***************************************************************************)
(* "if equals zero it is safe to remove this entry from the hash table":   *)
(* no running transaction was given a file of a relation whose entry may   *)
(* be thrown out.  Not so: a status that the removal of another entry gave *)
(* back still names its writer and may be taken in without being given to  *)
(* anyone, and then AtEOXact_AppendOnly of that writer lowers the count of *)
(* a relation it never used.                                               *)
(***************************************************************************)
ZeroIsSafe ==
    \A t \in Xids : phase[t] = "active" =>
        \A f \in Top(t).rows : f[1] \in Top(t).trunc \/ f[1] \notin Unused(shm)

=============================================================================
