------------------------- MODULE PersistentObjProofs -------------------------
(***************************************************************************)
(* Proofs about PersistentObj: whatever a crash leaves of the log, the     *)
(* files of live objects are there, nothing but what could not be removed  *)
(* is left over, and no step finds a tuple in a state it does not expect,  *)
(* for any number of transactions, objects, places, crashes, checkpoints   *)
(* and failed removals.                                                    *)
(*                                                                         *)
(* The inductive invariant is stated with operators that take the record   *)
(* of a transaction (r), an image of the log (img), the files (fs) and the *)
(* next serial number (n), so that they can be compared before and after.  *)
(***************************************************************************)
EXTENDS PersistentObj, TLAPS

(* The files that no removal failed on: those alone are relied on. *)
Files == files \ strays

(* The states of objects whose file is going to be removed. *)
Doomed == {"DropPending", "AbortingCreate"}

(* What each image says by itself: a doomed object is not live, and one    *)
(* that is still to be created is live only if its creator committed.      *)
ImageOK(img, n) ==
    /\ \A s \in img.live : s < n
    /\ \A t \in Tids :
        /\ img.tab[t].serial < n /\ img.ends[t].serial < n
        /\ img.tab[t].state \in Doomed => img.tab[t].serial \notin img.live
        /\ img.ends[t].state \in Doomed => img.ends[t].serial \notin img.live
        /\ img.ends[t].state # "CreatePending"
        /\ img.tab[t].state = "CreatePending" => img.tab[t].serial # 0
        /\ img.tab[t].state = "CreatePending" /\ img.tab[t].serial \in img.live =>
              img.tab[t].xid \in img.committed

(* The catalog and the commit log change with a flush only. *)
LogInv ==
    \A i \in DOMAIN log : /\ ImageOK(log[i], nextSerial)
                          /\ log[i].live = Now.live
                          /\ log[i].committed = Now.committed

InWork(r) == r.phase \in {"none", "run", "create"}
HeldBy(r) == {e.serial : e \in r.pendingDeletes}

(* The rows of new objects that a commit will make live. *)
KeptRows(r) ==
    {q \in r.catalog :
        /\ ~q.deleted
        /\ InWork(r) \/ (r.phase = "subabort" /\ q.nestLevel < r.level)}

(* Every row has its entry in pendingDeletes, and a new object one row: *)
RowsOK(r, n) ==
    /\ \A q \in r.catalog :
        /\ q.serial < n
        /\ InWork(r) => q.nestLevel <= r.level
        /\ \E e \in r.pendingDeletes :
              e.serial = q.serial /\ (q.nestLevel < r.level => e.nestLevel < r.level)
    /\ \A p, q \in r.catalog : p.serial = q.serial /\ ~p.deleted /\ ~q.deleted => p = q

(* and every entry its row. *)
EntriesOK(r, n) ==
    \A e \in r.pendingDeletes :
        /\ e.serial < n
        /\ InWork(r) => e.nestLevel <= r.level /\ ~e.sameTransCreateDrop
        /\ e.sameTransCreateDrop => e.dropForCommit /\ e.nestLevel >= r.level
        /\ ~e.dropForCommit \/ e.sameTransCreateDrop =>
              \E q \in r.catalog :
                  ~q.deleted /\ q.serial = e.serial /\ q.nestLevel = e.nestLevel
        /\ e.dropForCommit =>
              \E q \in r.catalog :
                  /\ q.deleted /\ q.serial = e.serial
                  /\ ~e.sameTransCreateDrop => q.nestLevel = e.nestLevel

(* Where a transaction is. *)
PhaseOK(r) ==
    /\ r.phase = "none" => r = NewXact
    /\ r.phase \in {"commit", "abort"} => r.level = 1
    /\ r.phase = "subabort" => r.level = 2
    /\ r.pass # 0 => r.phase \in {"commit", "abort", "subabort"}
    /\ r.pass = 0 => r.todo = {}
    /\ \A e \in r.todo : e \in r.pendingDeletes /\ e.nestLevel >= r.level

(* The new objects of a transaction that can still commit have their file, *)
(* except the one being created, and nobody has touched their tuple.       *)
KeptOK(x, r, fs, img) ==
    \A q \in KeptRows(r) :
        /\ \/ q.serial \in fs
           \/ r.phase = "create" /\ q.serial = Max(HeldBy(r)) /\ q.nestLevel = r.level
        /\ \A t \in Tids :
            /\ img.tab[t].serial = q.serial =>
                  img.tab[t].state = "CreatePending" /\ img.tab[t].xid = x
            /\ img.ends[t].serial # q.serial

(* Nothing is live before its commit or after its drop is committed. *)
LiveOK(r, img) ==
    /\ r.phase # "commit" => \A q \in r.catalog : ~q.deleted => q.serial \notin img.live
    /\ r.phase = "commit" => \A e \in r.pendingDeletes : e.dropForCommit => e.serial \notin img.live

XactOK(x, r, n, fs, img) ==
    RowsOK(r, n) /\ EntriesOK(r, n) /\ PhaseOK(r) /\ KeptOK(x, r, fs, img) /\ LiveOK(r, img)

XactInv ==
    /\ \A x \in Xacts : XactOK(x, xact[x], nextSerial, Files, Now)
    /\ \A x, y \in Xacts : x # y => HeldBy(xact[x]) \cap HeldBy(xact[y]) = {}

(* The recovery finds no transaction, and does not doom a live object. *)
Recovering == {"scan", "abort", "update", "drop"}
Scanned == {"abort", "update", "drop"}

RecoveryInv ==
    /\ mode \in Recovering =>
          \A x \in Xacts : xact[x] \in {NewXact, [NewXact EXCEPT !.phase = "done"]}
    /\ mode \in Scanned => \A t \in Tids :
          /\ entry[t].serial < nextSerial
          /\ entry[t].state \in Doomed => entry[t].serial \notin Now.live
          /\ entry[t].updateNeeded => entry[t].state \notin {"None", "CreatePending"}
          /\ entry[t].state = "CreatePending" => entry[t].serial # 0
          /\ entry[t].state = "CreatePending" /\ entry[t].serial \in Now.live =>
                entry[t].xid \in Now.committed

Entry == [state : {"None"} \cup DOMAIN Rank, serial : 0 .. MaxSerial,
          xid : Xacts \cup {NoXid}, updateNeeded : BOOLEAN]

TypesOK ==
    /\ log \in Seq(Image) /\ log # << >>
    /\ xact \in [Xacts -> Xact]
    /\ entry \in [Tids -> Entry]
    /\ nextSerial \in 1 .. (MaxSerial + 1)

LiveKept == \A i \in DOMAIN log : log[i].live \subseteq Files

FileInv == TypesOK /\ LogInv /\ XactInv /\ RecoveryInv /\ LiveKept

-----------------------------------------------------------------------------
States == {"Free", "CreatePending", "Created", "DropPending", "AbortingCreate"}

LEMMA Ranks == DOMAIN Rank = States
BY DEF Rank, States

LEMMA NowIs ==
    ASSUME TypesOK
    PROVE  /\ Len(log) \in DOMAIN log /\ Now = log[Len(log)] /\ Now \in Image
           /\ Len(log) \in Nat /\ DOMAIN log = 1 .. Len(log)
BY DEF TypesOK, Now, Last

(* The log after an image was written, whether flushed or not. *)
Written(img) == Appended(img) \/ Flushed(img)

LEMMA WrittenIs ==
    ASSUME TypesOK, NEW img \in Image, Written(img)
    PROVE  /\ log' \in Seq(Image) /\ log' # << >> /\ Now' = img
           /\ \A i \in DOMAIN log' : log'[i] = img \/ \E j \in DOMAIN log : log'[i] = log[j]
           /\ Flushed(img) => \A i \in DOMAIN log' : log'[i] = img
<1>1. CASE Flushed(img)
  <2>1. log' = <<img>>
    BY <1>1 DEF Flushed
  <2>2. Len(log') = 1 /\ log'[1] = img /\ log' \in Seq(Image) /\ DOMAIN log' = {1} /\ log' # << >>
    BY <2>1
  <2>3. Now' = log'[Len(log')]
    BY DEF Now, Last
  <2> QED
    BY <2>2, <2>3
<1>2. CASE Appended(img) /\ img = Now
  <2>1. log' = log
    BY <1>2 DEF Appended
  <2>2. Now' = Now
    BY <2>1 DEF Now
  <2>3. Flushed(img) => log' = <<img>>
    BY DEF Flushed
  <2> QED
    BY <1>1, <1>2, <2>1, <2>2, <2>3 DEF TypesOK
<1>3. CASE Appended(img) /\ img # Now
  <2>1. log' = Append(log, img)
    BY <1>3 DEF Appended
  <2>2. /\ log' \in Seq(Image) /\ Len(log') = Len(log) + 1 /\ log'[Len(log')] = img
        /\ Len(log) \in Nat
        /\ \A i \in 1 .. Len(log) : log'[i] = log[i]
        /\ DOMAIN log' = 1 .. Len(log')
        /\ DOMAIN log = 1 .. Len(log)
    BY <2>1 DEF TypesOK
  <2>3. Now' = log'[Len(log')]
    BY DEF Now, Last
  <2>4. log' # << >>
    BY <2>2
  <2>5. \A i \in DOMAIN log' : i \in 1 .. Len(log) \/ i = Len(log')
    BY <2>2
  <2> QED
    BY <1>1, <2>2, <2>3, <2>4, <2>5
<1> QED
  BY <1>1, <1>2, <1>3 DEF Written


LEMMA Numbers ==
    /\ MaxSerial \in Nat
    /\ TypesOK => nextSerial \in Nat
BY ConstAssumption DEF TypesOK

(* The numbers of an image. *)
LEMMA ImageNumbers ==
    ASSUME NEW img \in Image
    PROVE  /\ \A s \in img.live : s \in Nat
           /\ img.live \subseteq 1 .. MaxSerial
           /\ \A t \in Tids : img.tab[t].serial \in Nat /\ img.ends[t].serial \in Nat
<1>1. \A t \in Tids : img.tab[t].serial \in 0 .. MaxSerial
  BY DEF Image
<1>2. \A t \in Tids : img.ends[t].serial \in 0 .. MaxSerial
  <2> TAKE t \in Tids
  <2>1. img.ends[t] \in {NoEntry} \cup [state : DOMAIN Rank, serial : 1 .. MaxSerial,
                                        xid : {NoXid}, updateNeeded : {FALSE}]
    BY DEF Image
  <2>2. NoEntry.serial = 0
    BY DEF NoEntry
  <2>3. CASE img.ends[t] = NoEntry
    BY <2>2, <2>3, Numbers
  <2>4. CASE img.ends[t] # NoEntry
    <3>1. img.ends[t].serial \in 1 .. MaxSerial
      BY <2>1, <2>4
    <3> QED
      BY <3>1, Numbers
  <2> QED
    BY <2>3, <2>4
<1>3. img.live \subseteq 1 .. MaxSerial
  BY DEF Image
<1> QED
  BY <1>1, <1>2, <1>3, Numbers

LEMMA ImageLater ==
    ASSUME NEW img \in Image, NEW n \in Nat, NEW m \in Nat, n <= m, ImageOK(img, n)
    PROVE  ImageOK(img, m)
<1>1. \A s \in img.live : s < m
  BY ImageNumbers DEF ImageOK
<1>2. \A t \in Tids : img.tab[t].serial < m /\ img.ends[t].serial < m
  BY ImageNumbers DEF ImageOK
<1> QED
  BY <1>1, <1>2 DEF ImageOK

(* Writing an image that is right by itself. *)
LEMMA LogKeeps ==
    ASSUME FileInv, NEW img \in Image, Written(img), ImageOK(img, nextSerial'),
           nextSerial' \in Nat, nextSerial <= nextSerial',
           Flushed(img) \/ (img.live = Now.live /\ img.committed = Now.committed),
           img.live \subseteq Files'
    PROVE  /\ log' \in Seq(Image) /\ log' # << >> /\ Now' = img
           /\ LogInv' /\ LiveKept'
<1>1. /\ log' \in Seq(Image) /\ log' # << >> /\ Now' = img
      /\ \A i \in DOMAIN log' : log'[i] = img \/ \E j \in DOMAIN log : log'[i] = log[j]
      /\ Flushed(img) => \A i \in DOMAIN log' : log'[i] = img
  BY WrittenIs DEF FileInv
<1>2. ASSUME NEW i \in DOMAIN log'
      PROVE  ImageOK(log'[i], nextSerial') /\ log'[i].live = img.live
             /\ log'[i].committed = img.committed
  <2>1. CASE log'[i] = img
    BY <2>1
  <2>2. CASE ~Flushed(img) /\ \E j \in DOMAIN log : log'[i] = log[j]
    <3>1. PICK j \in DOMAIN log : log'[i] = log[j]
      BY <2>2
    <3>2. ImageOK(log[j], nextSerial) /\ log[j].live = Now.live /\ log[j].committed = Now.committed
      BY DEF FileInv, LogInv
    <3>3. log[j] \in Image
      BY DEF FileInv, TypesOK
    <3>4. nextSerial \in Nat
      BY Numbers DEF FileInv
    <3>5. PICK g \in Image, n \in Nat, m \in Nat : g = log[j] /\ n = nextSerial /\ m = nextSerial'
      BY <3>3, <3>4
    <3>6. ImageOK(g, m)
      BY <3>2, <3>5, ImageLater
    <3> QED
      BY <2>2, <3>1, <3>2, <3>5, <3>6
  <2> QED
    BY <1>1, <2>1, <2>2
<1>3. LogInv'
  BY <1>1, <1>2 DEF LogInv
<1>4. LiveKept'
  BY <1>1, <1>2 DEF LiveKept
<1> QED
  BY <1>1, <1>3, <1>4

(* Steps that leave the log. *)
LEMMA LogStays ==
    ASSUME FileInv, UNCHANGED <<log, nextSerial>>, Files \subseteq Files'
    PROVE  Now' = Now /\ LogInv' /\ LiveKept'
<1>1. Now' = Now
  BY DEF Now
<1>2. LogInv'
  BY <1>1 DEF FileInv, LogInv
<1>3. LiveKept'
  BY DEF FileInv, LiveKept
<1> QED
  BY <1>1, <1>2, <1>3

-----------------------------------------------------------------------------
(* What a transaction relies on about the objects it holds. *)
Undisturbed(s, fs, img, fs2, img2) ==
    /\ s \in fs => s \in fs2
    /\ s \in img2.live => s \in img.live
    /\ \A t \in Tids : /\ img2.tab[t].serial = s => img2.tab[t] = img.tab[t]
                       /\ img2.ends[t].serial = s => img.ends[t].serial = s

LEMMA RowsHeld ==
    ASSUME NEW r, NEW n, RowsOK(r, n), NEW q \in r.catalog
    PROVE  q.serial \in HeldBy(r)
BY DEF RowsOK, HeldBy

LEMMA OtherKeeps ==
    ASSUME NEW x, NEW r \in Xact, NEW n \in Nat, NEW n2 \in Nat, n <= n2,
           NEW fs, NEW fs2, NEW img, NEW img2,
           XactOK(x, r, n, fs, img),
           \A s \in HeldBy(r) : Undisturbed(s, fs, img, fs2, img2)
    PROVE  XactOK(x, r, n2, fs2, img2)
<1>1. (\A q \in r.catalog : q.serial \in Nat) /\ \A e \in r.pendingDeletes : e.serial \in Nat
  BY Numbers DEF Xact, Row, Pending
<1>2. RowsOK(r, n) /\ EntriesOK(r, n) /\ PhaseOK(r) /\ KeptOK(x, r, fs, img) /\ LiveOK(r, img)
  BY DEF XactOK
<1>3. RowsOK(r, n2)
  <2>1. \A q \in r.catalog : q.serial < n2
    BY <1>1, <1>2 DEF RowsOK
  <2> QED
    BY <1>2, <2>1 DEF RowsOK
<1>4. EntriesOK(r, n2)
  <2>1. \A e \in r.pendingDeletes : e.serial < n2
    BY <1>1, <1>2 DEF EntriesOK
  <2> QED
    BY <1>2, <2>1 DEF EntriesOK
<1>5. KeptOK(x, r, fs2, img2)
  <2> SUFFICES ASSUME NEW q \in KeptRows(r)
               PROVE  /\ \/ q.serial \in fs2
                         \/ /\ r.phase = "create" /\ q.serial = Max(HeldBy(r))
                            /\ q.nestLevel = r.level
                      /\ \A t \in Tids :
                          /\ img2.tab[t].serial = q.serial =>
                                img2.tab[t].state = "CreatePending" /\ img2.tab[t].xid = x
                          /\ img2.ends[t].serial # q.serial
    BY DEF KeptOK
  <2>1. q \in r.catalog
    BY DEF KeptRows
  <2>2. Undisturbed(q.serial, fs, img, fs2, img2)
    BY <1>2, <2>1, RowsHeld
  <2> QED
    BY <1>2, <2>2 DEF Undisturbed, KeptOK
<1>6. LiveOK(r, img2)
  <2>1. \A q \in r.catalog : q.serial \in img2.live => q.serial \in img.live
    BY <1>2, RowsHeld DEF Undisturbed
  <2>2. \A e \in r.pendingDeletes : e.serial \in img2.live => e.serial \in img.live
    BY DEF Undisturbed, HeldBy
  <2> QED
    BY <1>2, <2>1, <2>2 DEF LiveOK
<1> QED
  BY <1>2, <1>3, <1>4, <1>5, <1>6 DEF XactOK

(* A step of transaction x. *)
LEMMA XactStep ==
    ASSUME FileInv, NEW x \in Xacts, NEW r \in Xact, xact' = [xact EXCEPT ![x] = r],
           nextSerial' \in Nat, nextSerial <= nextSerial',
           XactOK(x, r, nextSerial', Files', Now'),
           \A y \in Xacts \ {x} : HeldBy(r) \cap HeldBy(xact[y]) = {},
           \A y \in Xacts \ {x} : \A s \in HeldBy(xact[y]) :
               Undisturbed(s, Files, Now, Files', Now')
    PROVE  XactInv' /\ xact' \in [Xacts -> Xact]
<1>1. /\ xact \in [Xacts -> Xact] /\ nextSerial \in Nat
  BY Numbers DEF FileInv, TypesOK
<1>2. xact' \in [Xacts -> Xact] /\ xact'[x] = r /\ \A y \in Xacts \ {x} : xact'[y] = xact[y]
  BY <1>1
<1>3. ASSUME NEW y \in Xacts PROVE XactOK(y, xact'[y], nextSerial', Files', Now')
  <2>1. CASE y = x
    BY <1>2, <2>1
  <2>2. CASE y # x
    <3>0. PICK q \in Xact, n \in Nat, n2 \in Nat :
              q = xact[y] /\ n = nextSerial /\ n2 = nextSerial'
      BY <1>1
    <3>1. PICK fs, fs2, img, img2 :
              /\ q = xact[y] /\ n = nextSerial /\ n2 = nextSerial'
              /\ fs = Files /\ fs2 = Files' /\ img = Now /\ img2 = Now'
      BY <3>0
    <3>2. XactOK(y, q, n, fs, img)
      BY <3>1 DEF FileInv, XactInv
    <3>3. \A s \in HeldBy(q) : Undisturbed(s, fs, img, fs2, img2)
      BY <2>2, <3>1
    <3>4. n <= n2
      BY <3>1
    <3>5. XactOK(y, q, n2, fs2, img2)
      BY <3>2, <3>3, <3>4, OtherKeeps
    <3> QED
      BY <1>2, <2>2, <3>1, <3>5
  <2> QED
    BY <2>1, <2>2
<1>4. ASSUME NEW y \in Xacts, NEW z \in Xacts, y # z
      PROVE  HeldBy(xact'[y]) \cap HeldBy(xact'[z]) = {}
  <2>1. CASE y = x
    BY <1>2, <1>4, <2>1
  <2>2. CASE z = x
    BY <1>2, <1>4, <2>2
  <2>3. CASE y # x /\ z # x
    BY <1>2, <1>4, <2>3 DEF FileInv, XactInv
  <2> QED
    BY <2>1, <2>2, <2>3
<1> QED
  BY <1>2, <1>3, <1>4 DEF XactInv


LEMMA UpIsNotRecovery ==
    ASSUME mode' \notin Recovering
    PROVE  RecoveryInv'
BY DEF RecoveryInv, Recovering, Scanned

LEMMA XactFacts ==
    ASSUME FileInv, NEW x \in Xacts
    PROVE  /\ xact[x] \in Xact /\ xact \in [Xacts -> Xact] /\ nextSerial \in Nat
           /\ XactOK(x, xact[x], nextSerial, Files, Now)
           /\ RowsOK(xact[x], nextSerial) /\ EntriesOK(xact[x], nextSerial) /\ PhaseOK(xact[x])
           /\ KeptOK(x, xact[x], Files, Now) /\ LiveOK(xact[x], Now)
           /\ \A y \in Xacts \ {x} : HeldBy(xact[x]) \cap HeldBy(xact[y]) = {}
           /\ Held(x) = HeldBy(xact[x])
           /\ Now \in Image /\ ImageOK(Now, nextSerial) /\ Now.live \subseteq Files
<1>1. /\ xact[x] \in Xact /\ xact \in [Xacts -> Xact] /\ nextSerial \in Nat
  BY Numbers DEF FileInv, TypesOK
<1>2. XactOK(x, xact[x], nextSerial, Files, Now)
  BY DEF FileInv, XactInv
<1>3. /\ RowsOK(xact[x], nextSerial) /\ EntriesOK(xact[x], nextSerial) /\ PhaseOK(xact[x])
      /\ KeptOK(x, xact[x], Files, Now) /\ LiveOK(xact[x], Now)
  BY <1>2 DEF XactOK
<1>4. \A y \in Xacts \ {x} : HeldBy(xact[x]) \cap HeldBy(xact[y]) = {}
  BY DEF FileInv, XactInv
<1>5. Held(x) = HeldBy(xact[x])
  BY DEF Held, HeldBy
<1>6. Now \in Image /\ ImageOK(Now, nextSerial) /\ Now.live \subseteq Files
  BY NowIs DEF FileInv, LogInv, LiveKept
<1> QED
  BY <1>1, <1>2, <1>3, <1>4, <1>5, <1>6

(* A step of x that leaves the log and the serial numbers. *)
LEMMA QuietStep ==
    ASSUME FileInv, NEW x \in Xacts, NEW r \in Xact, xact' = [xact EXCEPT ![x] = r],
           UNCHANGED <<log, nextSerial, entry>>, Files \subseteq Files', mode' \notin Recovering,
           XactOK(x, r, nextSerial, Files', Now),
           \A y \in Xacts \ {x} : HeldBy(r) \cap HeldBy(xact[y]) = {}
    PROVE  FileInv'
<1>1. Now' = Now /\ LogInv' /\ LiveKept'
  BY LogStays
<1>2. nextSerial' \in Nat /\ nextSerial <= nextSerial' /\ nextSerial' = nextSerial
  BY Numbers DEF FileInv
<1>3. \A y \in Xacts \ {x} : \A s \in HeldBy(xact[y]) : Undisturbed(s, Files, Now, Files', Now')
  BY <1>1 DEF Undisturbed
<1>4. XactOK(x, r, nextSerial', Files', Now')
  BY <1>1, <1>2
<1>5. XactInv' /\ xact' \in [Xacts -> Xact]
  BY <1>2, <1>3, <1>4, XactStep
<1>6. TypesOK'
  BY <1>2, <1>5 DEF FileInv, TypesOK
<1> QED
  BY <1>1, <1>5, <1>6, UpIsNotRecovery DEF FileInv

(* The record of a transaction with one field changed. *)
LEMMA SetPhase ==
    ASSUME NEW o \in Xact, NEW v \in {"none", "run", "create", "commit", "abort", "subabort", "done"}
    PROVE  LET r == [o EXCEPT !.phase = v]
           IN  /\ r \in Xact /\ r.phase = v
               /\ r.level = o.level /\ r.catalog = o.catalog
               /\ r.pendingDeletes = o.pendingDeletes /\ r.pass = o.pass /\ r.todo = o.todo
BY DEF Xact

LEMMA SetLevel ==
    ASSUME NEW o \in Xact, NEW v \in 1 .. 2
    PROVE  LET r == [o EXCEPT !.level = v]
           IN  /\ r \in Xact /\ r.level = v
               /\ r.phase = o.phase /\ r.catalog = o.catalog
               /\ r.pendingDeletes = o.pendingDeletes /\ r.pass = o.pass /\ r.todo = o.todo
BY DEF Xact

LEMMA SetCatalog ==
    ASSUME NEW o \in Xact, NEW v \in SUBSET Row
    PROVE  LET r == [o EXCEPT !.catalog = v]
           IN  /\ r \in Xact /\ r.catalog = v
               /\ r.phase = o.phase /\ r.level = o.level
               /\ r.pendingDeletes = o.pendingDeletes /\ r.pass = o.pass /\ r.todo = o.todo
BY DEF Xact

LEMMA SetPendingDeletes ==
    ASSUME NEW o \in Xact, NEW v \in SUBSET Pending
    PROVE  LET r == [o EXCEPT !.pendingDeletes = v]
           IN  /\ r \in Xact /\ r.pendingDeletes = v
               /\ r.phase = o.phase /\ r.level = o.level /\ r.catalog = o.catalog
               /\ r.pass = o.pass /\ r.todo = o.todo
BY DEF Xact

LEMMA SetPass ==
    ASSUME NEW o \in Xact, NEW v \in 0 .. 2
    PROVE  LET r == [o EXCEPT !.pass = v]
           IN  /\ r \in Xact /\ r.pass = v
               /\ r.phase = o.phase /\ r.level = o.level /\ r.catalog = o.catalog
               /\ r.pendingDeletes = o.pendingDeletes /\ r.todo = o.todo
BY DEF Xact

LEMMA SetTodo ==
    ASSUME NEW o \in Xact, NEW v \in SUBSET Pending
    PROVE  LET r == [o EXCEPT !.todo = v]
           IN  /\ r \in Xact /\ r.todo = v
               /\ r.phase = o.phase /\ r.level = o.level /\ r.catalog = o.catalog
               /\ r.pendingDeletes = o.pendingDeletes /\ r.pass = o.pass
BY DEF Xact

LEMMA CreateFileKeeps == ASSUME FileInv, NEW x \in Xacts, CreateFile(x) PROVE FileInv'
<1> DEFINE o == xact[x]
           r == [o EXCEPT !.phase = "run"]
<1>1. /\ mode = "up" /\ o.phase = "create"
      /\ Files' = Files \cup {Max(HeldBy(o))}
      /\ xact' = [xact EXCEPT ![x] = r]
      /\ UNCHANGED <<log, mode, entry, nextSerial>>
  BY DEF CreateFile, Held, HeldBy, Files
<1>2. /\ o \in Xact /\ RowsOK(o, nextSerial) /\ EntriesOK(o, nextSerial) /\ PhaseOK(o)
      /\ KeptOK(x, o, Files, Now) /\ LiveOK(o, Now)
      /\ \A y \in Xacts \ {x} : HeldBy(o) \cap HeldBy(xact[y]) = {}
  BY XactFacts
<1> HIDE DEF o
<1>3. /\ r \in Xact /\ r.phase = "run" /\ r.level = o.level /\ r.catalog = o.catalog
      /\ r.pendingDeletes = o.pendingDeletes /\ r.pass = o.pass /\ r.todo = o.todo
  BY <1>2 DEF Xact
<1> HIDE DEF r
<1>4. HeldBy(r) = HeldBy(o) /\ InWork(r) /\ InWork(o) /\ KeptRows(r) = KeptRows(o)
  BY <1>1, <1>3 DEF HeldBy, InWork, KeptRows
<1>5. RowsOK(r, nextSerial) /\ EntriesOK(r, nextSerial)
  BY <1>2, <1>3, <1>4 DEF RowsOK, EntriesOK
<1>6. PhaseOK(r) /\ LiveOK(r, Now)
  BY <1>1, <1>2, <1>3 DEF PhaseOK, LiveOK
<1>7. KeptOK(x, r, Files', Now)
  BY <1>1, <1>2, <1>3, <1>4 DEF KeptOK
<1>8. XactOK(x, r, nextSerial, Files', Now)
  BY <1>5, <1>6, <1>7 DEF XactOK
<1> QED
  BY <1>1, <1>2, <1>3, <1>4, <1>8, QuietStep DEF Recovering


LEMMA StartSubTransactionKeeps ==
    ASSUME FileInv, NEW x \in Xacts, StartSubTransaction(x) PROVE FileInv'
<1> DEFINE o == xact[x]
           p == [o EXCEPT !.phase = "run"]
           r == [p EXCEPT !.level = 2]
<1>1. /\ mode = "up" /\ o.phase \in {"none", "run"} /\ o.level = 1
      /\ xact' = [xact EXCEPT ![x] = r]
      /\ UNCHANGED <<log, Files, mode, entry, nextSerial>>
  BY DEF StartSubTransaction, Running, Files
<1>2. /\ o \in Xact /\ RowsOK(o, nextSerial) /\ EntriesOK(o, nextSerial) /\ PhaseOK(o)
      /\ KeptOK(x, o, Files, Now) /\ LiveOK(o, Now)
      /\ \A y \in Xacts \ {x} : HeldBy(o) \cap HeldBy(xact[y]) = {}
  BY XactFacts
<1> HIDE DEF o
<1>3. /\ r \in Xact /\ r.phase = "run" /\ r.level = 2 /\ r.catalog = o.catalog
      /\ r.pendingDeletes = o.pendingDeletes /\ r.pass = o.pass /\ r.todo = o.todo
  <2>1. /\ p \in Xact /\ p.phase = "run" /\ p.level = o.level /\ p.catalog = o.catalog
        /\ p.pendingDeletes = o.pendingDeletes /\ p.pass = o.pass /\ p.todo = o.todo
    BY <1>2, SetPhase
  <2> HIDE DEF p
  <2> QED
    BY <2>1 DEF Xact
<1> HIDE DEF r
<1>4. HeldBy(r) = HeldBy(o) /\ InWork(r) /\ InWork(o) /\ KeptRows(r) = KeptRows(o)
  BY <1>1, <1>3 DEF HeldBy, InWork, KeptRows
<1>5. /\ \A q \in o.catalog : q.nestLevel = 1
      /\ \A e \in o.pendingDeletes : e.nestLevel = 1 /\ ~e.sameTransCreateDrop
  <2>1. /\ \A q \in o.catalog : q.nestLevel \in 1 .. 2
        /\ \A e \in o.pendingDeletes : e.nestLevel \in 1 .. 2
    BY <1>2 DEF Xact, Row, Pending
  <2> QED
    BY <1>1, <1>2, <1>4, <2>1 DEF RowsOK, EntriesOK
<1>6. RowsOK(r, nextSerial)
  BY <1>2, <1>3, <1>5 DEF RowsOK
<1>7. EntriesOK(r, nextSerial)
  BY <1>2, <1>3, <1>5 DEF EntriesOK
<1>8. o.pass = 0 /\ o.todo = {}
  BY <1>1, <1>2 DEF PhaseOK
<1>9. PhaseOK(r) /\ LiveOK(r, Now)
  BY <1>1, <1>2, <1>3, <1>8 DEF PhaseOK, LiveOK
<1>10. KeptOK(x, r, Files, Now)
  BY <1>1, <1>2, <1>3, <1>4 DEF KeptOK
<1>11. XactOK(x, r, nextSerial, Files', Now)
  BY <1>1, <1>6, <1>7, <1>9, <1>10 DEF XactOK
<1>12. Files \subseteq Files' /\ mode' \notin Recovering
  BY <1>1 DEF Recovering
<1> QED
  <2>1. \A y \in Xacts \ {x} : HeldBy(r) \cap HeldBy(xact[y]) = {}
    BY <1>2, <1>4
  <2>2. r \in Xact /\ xact' = [xact EXCEPT ![x] = r] /\ UNCHANGED <<log, nextSerial, entry>>
    BY <1>1, <1>3
  <2> QED
    BY <1>11, <1>12, <2>1, <2>2, QuietStep

(* The subtransaction's work becomes its parent's. *)
LEMMA AtSubCommitKeeps == ASSUME FileInv, NEW x \in Xacts, AtSubCommit_smgr(x) PROVE FileInv'
<1> DEFINE o == xact[x]
           rows == {[q EXCEPT !.nestLevel = 1] : q \in o.catalog}
           list == {[e EXCEPT !.nestLevel = 1] : e \in o.pendingDeletes}
           p == [o EXCEPT !.level = 1]
           s == [p EXCEPT !.catalog = rows]
           r == [s EXCEPT !.pendingDeletes = list]
<1>1. /\ mode = "up" /\ o.phase \in {"none", "run"} /\ o.level = 2
      /\ xact' = [xact EXCEPT ![x] = r]
      /\ UNCHANGED <<log, Files, mode, entry, nextSerial>>
  BY DEF AtSubCommit_smgr, Running, Files
<1>2. /\ o \in Xact /\ RowsOK(o, nextSerial) /\ EntriesOK(o, nextSerial) /\ PhaseOK(o)
      /\ KeptOK(x, o, Files, Now) /\ LiveOK(o, Now)
      /\ \A y \in Xacts \ {x} : HeldBy(o) \cap HeldBy(xact[y]) = {}
  BY XactFacts
<1> HIDE DEF o
<1>3. o.catalog \subseteq Row /\ o.pendingDeletes \subseteq Pending
  BY <1>2 DEF Xact
<1>4. ASSUME NEW q \in o.catalog
      PROVE  /\ [q EXCEPT !.nestLevel = 1] \in Row /\ [q EXCEPT !.nestLevel = 1] \in rows
             /\ [q EXCEPT !.nestLevel = 1].serial = q.serial
             /\ [q EXCEPT !.nestLevel = 1].deleted = q.deleted
             /\ [q EXCEPT !.nestLevel = 1].nestLevel = 1
  BY <1>3 DEF Row
<1>5. ASSUME NEW e \in o.pendingDeletes
      PROVE  /\ [e EXCEPT !.nestLevel = 1] \in Pending /\ [e EXCEPT !.nestLevel = 1] \in list
             /\ [e EXCEPT !.nestLevel = 1].serial = e.serial
             /\ [e EXCEPT !.nestLevel = 1].dropForCommit = e.dropForCommit
             /\ [e EXCEPT !.nestLevel = 1].sameTransCreateDrop = e.sameTransCreateDrop
             /\ [e EXCEPT !.nestLevel = 1].nestLevel = 1
  BY <1>3 DEF Pending
<1>6. rows \in SUBSET Row /\ list \in SUBSET Pending
  BY <1>4, <1>5
<1>7. /\ \A q \in rows : \E a \in o.catalog : q.serial = a.serial /\ q.deleted = a.deleted
                                              /\ q.nestLevel = 1 /\ q \in Row
                                              /\ q = [a EXCEPT !.nestLevel = 1]
      /\ \A a \in o.catalog : \E q \in rows : q.serial = a.serial /\ q.deleted = a.deleted
                                              /\ q.nestLevel = 1
  BY <1>4
<1>8. /\ \A e \in list : \E a \in o.pendingDeletes :
            /\ e.serial = a.serial /\ e.nestLevel = 1 /\ e.dropForCommit = a.dropForCommit
            /\ e.sameTransCreateDrop = a.sameTransCreateDrop
      /\ \A a \in o.pendingDeletes : \E e \in list : e.serial = a.serial /\ e.nestLevel = 1
  BY <1>5
<1> HIDE DEF rows, list
<1>9. /\ r \in Xact /\ r.phase = o.phase /\ r.level = 1 /\ r.catalog = rows
      /\ r.pendingDeletes = list /\ r.pass = o.pass /\ r.todo = o.todo
  <2>1. /\ p \in Xact /\ p.phase = o.phase /\ p.level = 1 /\ p.catalog = o.catalog
        /\ p.pendingDeletes = o.pendingDeletes /\ p.pass = o.pass /\ p.todo = o.todo
    BY <1>2 DEF Xact
  <2> HIDE DEF p
  <2>2. /\ s \in Xact /\ s.phase = o.phase /\ s.level = 1 /\ s.catalog = rows
        /\ s.pendingDeletes = o.pendingDeletes /\ s.pass = o.pass /\ s.todo = o.todo
    BY <1>6, <2>1, SetCatalog
  <2> HIDE DEF s
  <2> QED
    BY <1>6, <2>2, SetPendingDeletes
<1> HIDE DEF r
<1>10. HeldBy(r) = HeldBy(o) /\ InWork(r) /\ InWork(o)
  BY <1>1, <1>8, <1>9 DEF HeldBy, InWork
<1>11. \A q \in KeptRows(r) : \E a \in KeptRows(o) : q.serial = a.serial
  BY <1>7, <1>9, <1>10 DEF KeptRows
<1>12. RowsOK(r, nextSerial)
  <2>1. \A q \in rows : /\ q.serial < nextSerial /\ q.nestLevel <= 1
                        /\ \E e \in list : e.serial = q.serial /\ ~(q.nestLevel < 1)
    BY <1>2, <1>7, <1>8 DEF RowsOK
  <2>2. ASSUME NEW a \in rows, NEW b \in rows, a.serial = b.serial, ~a.deleted, ~b.deleted
        PROVE  a = b
    BY <1>2, <1>7, <2>2 DEF RowsOK
  <2> QED
    BY <1>9, <2>1, <2>2 DEF RowsOK
<1>13. EntriesOK(r, nextSerial)
  <2> SUFFICES ASSUME NEW e \in list
               PROVE  /\ e.serial < nextSerial
                      /\ e.nestLevel <= 1 /\ ~e.sameTransCreateDrop
                      /\ ~e.dropForCommit => \E q \in rows :
                            ~q.deleted /\ q.serial = e.serial /\ q.nestLevel = e.nestLevel
                      /\ e.dropForCommit => \E q \in rows :
                            q.deleted /\ q.serial = e.serial /\ q.nestLevel = e.nestLevel
    BY <1>9, <1>10 DEF EntriesOK
  <2>1. PICK a \in o.pendingDeletes :
            /\ e.serial = a.serial /\ e.nestLevel = 1 /\ e.dropForCommit = a.dropForCommit
            /\ e.sameTransCreateDrop = a.sameTransCreateDrop
    BY <1>8
  <2>2. /\ a.serial < nextSerial /\ ~a.sameTransCreateDrop
        /\ ~a.dropForCommit => \E q \in o.catalog : ~q.deleted /\ q.serial = a.serial
        /\ a.dropForCommit => \E q \in o.catalog : q.deleted /\ q.serial = a.serial
    BY <1>2, <1>10 DEF EntriesOK
  <2> QED
    BY <1>7, <2>1, <2>2
<1>14. o.pass = 0 /\ o.todo = {} /\ o.phase # "none"
  <2>1. o.phase = "none" => o.level = 1
    BY <1>2 DEF PhaseOK, NewXact
  <2> QED
    BY <1>1, <1>2, <2>1 DEF PhaseOK
<1>15. PhaseOK(r)
  BY <1>1, <1>9, <1>14 DEF PhaseOK
<1>16. LiveOK(r, Now)
  BY <1>1, <1>2, <1>7, <1>9 DEF LiveOK
<1>17. KeptOK(x, r, Files, Now)
  BY <1>1, <1>2, <1>9, <1>11 DEF KeptOK
<1>18. XactOK(x, r, nextSerial, Files', Now)
  BY <1>1, <1>12, <1>13, <1>15, <1>16, <1>17 DEF XactOK
<1>19. Files \subseteq Files' /\ mode' \notin Recovering
  BY <1>1 DEF Recovering
<1> QED
  <2>1. \A y \in Xacts \ {x} : HeldBy(r) \cap HeldBy(xact[y]) = {}
    BY <1>2, <1>10
  <2>2. r \in Xact /\ xact' = [xact EXCEPT ![x] = r] /\ UNCHANGED <<log, nextSerial, entry>>
    BY <1>1, <1>9
  <2> QED
    BY <1>18, <1>19, <2>1, <2>2, QuietStep


(* A drop is scheduled for an object that nobody else holds. *)
LEMMA ScheduleUnlinkKeeps ==
    ASSUME FileInv, NEW x \in Xacts, NEW t \in Tids, ScheduleUnlink(x, t) PROVE FileInv'
<1> DEFINE o == xact[x]
           s == Now.tab[t].serial
           row == [serial |-> s, deleted |-> TRUE, nestLevel |-> o.level]
           new == [tid |-> t, serial |-> s, dropForCommit |-> TRUE,
                   sameTransCreateDrop |-> FALSE, nestLevel |-> o.level]
           rows == o.catalog \cup {row}
           list == o.pendingDeletes \cup {new}
           a == [o EXCEPT !.phase = "run"]
           b == [a EXCEPT !.catalog = rows]
           r == [b EXCEPT !.pendingDeletes = list]
<1>1. /\ mode = "up" /\ o.phase \in {"none", "run"}
      /\ \/ s \in Now.live /\ \A y \in Xacts : s \notin HeldBy(xact[y])
         \/ s \in HeldBy(o)
      /\ UNCHANGED <<log, Files, mode, entry, nextSerial>>
  BY DEF ScheduleUnlink, Running, Held, HeldBy, Files
<1>2. xact' = [xact EXCEPT ![x] = r]
  BY DEF ScheduleUnlink, RowOf
<1>3. /\ o \in Xact /\ RowsOK(o, nextSerial) /\ EntriesOK(o, nextSerial) /\ PhaseOK(o)
      /\ KeptOK(x, o, Files, Now) /\ LiveOK(o, Now)
      /\ \A y \in Xacts \ {x} : HeldBy(o) \cap HeldBy(xact[y]) = {}
      /\ Now \in Image /\ ImageOK(Now, nextSerial) /\ nextSerial \in Nat
  BY XactFacts
<1>4. s \in 1 .. MaxSerial /\ s < nextSerial
  <2>1. CASE s \in Now.live
    BY <1>3, <2>1, ImageNumbers DEF ImageOK
  <2>2. CASE s \in HeldBy(o)
    <3>1. PICK e \in o.pendingDeletes : s = e.serial
      BY <2>2 DEF HeldBy
    <3>2. e.serial \in 1 .. MaxSerial
      BY <1>3 DEF Xact, Pending
    <3> QED
      BY <1>3, <3>1, <3>2 DEF EntriesOK
  <2> QED
    BY <1>1, <2>1, <2>2
<1>5. \A y \in Xacts \ {x} : s \notin HeldBy(xact[y])
  BY <1>1, <1>3
<1> HIDE DEF o, s
<1>6. row \in Row /\ new \in Pending
  BY <1>3, <1>4 DEF Xact, Row, Pending
<1>7. /\ row.serial = s /\ row.deleted = TRUE /\ row.nestLevel = o.level
      /\ new.serial = s /\ new.dropForCommit = TRUE /\ new.sameTransCreateDrop = FALSE
      /\ new.nestLevel = o.level
  OBVIOUS
<1> HIDE DEF row, new
<1>8. rows \in SUBSET Row /\ list \in SUBSET Pending
  BY <1>3, <1>6 DEF Xact
<1>9. /\ r \in Xact /\ r.phase = "run" /\ r.level = o.level /\ r.catalog = rows
      /\ r.pendingDeletes = list /\ r.pass = o.pass /\ r.todo = o.todo
  <2> HIDE DEF rows, list
  <2>1. /\ a \in Xact /\ a.phase = "run" /\ a.level = o.level /\ a.catalog = o.catalog
        /\ a.pendingDeletes = o.pendingDeletes /\ a.pass = o.pass /\ a.todo = o.todo
    BY <1>3, SetPhase
  <2> HIDE DEF a
  <2>2. /\ b \in Xact /\ b.phase = "run" /\ b.level = o.level /\ b.catalog = rows
        /\ b.pendingDeletes = o.pendingDeletes /\ b.pass = o.pass /\ b.todo = o.todo
    BY <1>8, <2>1, SetCatalog
  <2> HIDE DEF b
  <2> QED
    BY <1>8, <2>2, SetPendingDeletes
<1> HIDE DEF r
<1>10. HeldBy(r) = HeldBy(o) \cup {s} /\ InWork(r) /\ InWork(o)
  BY <1>1, <1>7, <1>9 DEF HeldBy, InWork
<1>11. KeptRows(r) = KeptRows(o)
  BY <1>7, <1>9, <1>10 DEF KeptRows
<1>12. o.level \in 1 .. 2
  BY <1>3 DEF Xact
<1>13. RowsOK(r, nextSerial)
  <2>1. ASSUME NEW q \in rows
        PROVE  /\ q.serial < nextSerial /\ q.nestLevel <= o.level
               /\ \E e \in list : /\ e.serial = q.serial
                                  /\ q.nestLevel < o.level => e.nestLevel < o.level
    <3>1. CASE q = row
      BY <1>4, <1>7, <1>12, <3>1
    <3>2. CASE q \in o.catalog
      BY <1>3, <1>10, <3>2 DEF RowsOK
    <3> QED
      BY <3>1, <3>2
  <2>2. \A p, q \in rows : p.serial = q.serial /\ ~p.deleted /\ ~q.deleted => p = q
    BY <1>3, <1>7 DEF RowsOK
  <2> QED
    BY <1>9, <2>1, <2>2 DEF RowsOK
<1>14. EntriesOK(r, nextSerial)
  <2> SUFFICES ASSUME NEW e \in list
               PROVE  /\ e.serial < nextSerial
                      /\ e.nestLevel <= o.level /\ ~e.sameTransCreateDrop
                      /\ ~e.dropForCommit => \E q \in rows :
                            ~q.deleted /\ q.serial = e.serial /\ q.nestLevel = e.nestLevel
                      /\ e.dropForCommit => \E q \in rows :
                            q.deleted /\ q.serial = e.serial /\ q.nestLevel = e.nestLevel
    BY <1>9, <1>10 DEF EntriesOK
  <2>1. CASE e = new
    BY <1>4, <1>7, <1>12, <2>1
  <2>2. CASE e \in o.pendingDeletes
    BY <1>3, <1>10, <2>2 DEF EntriesOK
  <2> QED
    BY <2>1, <2>2
<1>15. PhaseOK(r)
  <2>1. o.pass = 0 /\ o.todo = {}
    BY <1>1, <1>3 DEF PhaseOK
  <2> QED
    BY <1>9, <2>1 DEF PhaseOK
<1>16. LiveOK(r, Now)
  BY <1>1, <1>3, <1>7, <1>9 DEF LiveOK
<1>17. KeptOK(x, r, Files, Now)
  BY <1>1, <1>3, <1>11 DEF KeptOK
<1>18. XactOK(x, r, nextSerial, Files', Now)
  BY <1>1, <1>13, <1>14, <1>15, <1>16, <1>17 DEF XactOK
<1>19. Files \subseteq Files' /\ mode' \notin Recovering
  BY <1>1 DEF Recovering
<1> QED
  <2>1. \A y \in Xacts \ {x} : HeldBy(r) \cap HeldBy(xact[y]) = {}
    BY <1>3, <1>5, <1>10
  <2>2. r \in Xact /\ xact' = [xact EXCEPT ![x] = r] /\ UNCHANGED <<log, nextSerial, entry>>
    BY <1>1, <1>2, <1>9
  <2> QED
    BY <1>18, <1>19, <2>1, <2>2, QuietStep

(* The greatest number of a set to which a greater one is added. *)
LEMMA MaxIsNew ==
    ASSUME NEW S, NEW n \in Nat, \A s \in S : s \in Nat /\ s < n
    PROVE  Max(S \cup {n}) = n
<1>1. \A y \in S \cup {n} : n >= y
  OBVIOUS
<1>2. \E a \in S \cup {n} : \A y \in S \cup {n} : a >= y
  BY <1>1
<1> DEFINE m == Max(S \cup {n})
<1>3. m \in S \cup {n} /\ \A y \in S \cup {n} : m >= y
  BY <1>2, Zenon DEF Max
<1> HIDE DEF m
<1>4. m >= n /\ (m \in S \/ m = n)
  BY <1>3
<1>5. m = n
  BY <1>4
<1> QED
  BY <1>5 DEF m


-----------------------------------------------------------------------------
(* A step of x that writes an image. *)
LEMMA WriteStep ==
    ASSUME FileInv, NEW x \in Xacts, NEW r \in Xact, xact' = [xact EXCEPT ![x] = r],
           UNCHANGED entry, mode' \notin Recovering,
           nextSerial' \in 1 .. (MaxSerial + 1), nextSerial <= nextSerial',
           NEW img \in Image, Written(img), ImageOK(img, nextSerial'),
           Flushed(img) \/ (img.live = Now.live /\ img.committed = Now.committed),
           img.live \subseteq Files',
           XactOK(x, r, nextSerial', Files', img),
           \A y \in Xacts \ {x} : HeldBy(r) \cap HeldBy(xact[y]) = {},
           \A y \in Xacts \ {x} : \A s \in HeldBy(xact[y]) :
               Undisturbed(s, Files, Now, Files', img)
    PROVE  FileInv'
<1>1. nextSerial' \in Nat
  BY Numbers
<1>2. /\ log' \in Seq(Image) /\ log' # << >> /\ Now' = img
      /\ LogInv' /\ LiveKept'
  BY <1>1, LogKeeps
<1>3. XactOK(x, r, nextSerial', Files', Now')
  BY <1>2
<1>4. \A y \in Xacts \ {x} : \A s \in HeldBy(xact[y]) : Undisturbed(s, Files, Now, Files', Now')
  BY <1>2
<1>5. XactInv' /\ xact' \in [Xacts -> Xact]
  BY <1>1, <1>3, <1>4, XactStep
<1>6. TypesOK'
  BY <1>2, <1>5 DEF FileInv, TypesOK
<1> QED
  BY <1>2, <1>5, <1>6, UpIsNotRecovery DEF FileInv

Tuple == [state : DOMAIN Rank, serial : 0 .. MaxSerial, xid : Xacts \cup {NoXid}]

LEMMA SetTab ==
    ASSUME NEW img \in Image, NEW t \in Tids, NEW v \in Tuple
    PROVE  LET new == [img EXCEPT !.tab[t] = v]
           IN  /\ new \in Image /\ new.ends = img.ends /\ new.ended = img.ended
               /\ new.live = img.live /\ new.committed = img.committed
               /\ new.tab[t] = v /\ \A u \in Tids \ {t} : new.tab[u] = img.tab[u]
BY DEF Image, Tuple


(* A new object takes a free tuple; nothing has its serial number yet. *)
LEMMA AddCreatePendingKeeps ==
    ASSUME FileInv, NEW x \in Xacts, NEW t \in Tids, AddCreatePending(x, t) PROVE FileInv'
<1> DEFINE o == xact[x]
           n == nextSerial
           row == [serial |-> n, deleted |-> FALSE, nestLevel |-> o.level]
           new == [tid |-> t, serial |-> n, dropForCommit |-> FALSE,
                   sameTransCreateDrop |-> FALSE, nestLevel |-> o.level]
           tuple == [state |-> "CreatePending", serial |-> n, xid |-> x]
           img == [Now EXCEPT !.tab[t] = tuple]
           rows == o.catalog \cup {row}
           list == o.pendingDeletes \cup {new}
           a == [o EXCEPT !.phase = "create"]
           b == [a EXCEPT !.catalog = rows]
           r == [b EXCEPT !.pendingDeletes = list]
<1>1. /\ mode = "up" /\ o.phase \in {"none", "run"} /\ n <= MaxSerial
      /\ Flushed(img) /\ nextSerial' = n + 1
      /\ UNCHANGED <<Files, mode, entry>>
  BY DEF AddCreatePending, Running, Files
<1>2. xact' = [xact EXCEPT ![x] = r]
  BY DEF AddCreatePending, RowOf
<1>3. /\ o \in Xact /\ RowsOK(o, n) /\ EntriesOK(o, n) /\ PhaseOK(o)
      /\ KeptOK(x, o, Files, Now) /\ LiveOK(o, Now)
      /\ \A y \in Xacts \ {x} : HeldBy(o) \cap HeldBy(xact[y]) = {}
      /\ Now \in Image /\ ImageOK(Now, n) /\ n \in Nat /\ Now.live \subseteq Files
  BY XactFacts
<1>4. n \in 1 .. MaxSerial /\ nextSerial' \in 1 .. (MaxSerial + 1) /\ n <= nextSerial'
      /\ nextSerial' \in Nat
  BY <1>1, Numbers DEF FileInv, TypesOK
<1>5. ASSUME NEW y \in Xacts
      PROVE  \A s \in HeldBy(xact[y]) : s \in Nat /\ s < n
  <2>1. xact[y] \in Xact /\ EntriesOK(xact[y], n)
    BY XactFacts
  <2>2. \A e \in xact[y].pendingDeletes : e.serial \in Nat
    BY <2>1, Numbers DEF Xact, Pending
  <2> QED
    BY <2>1, <2>2 DEF EntriesOK, HeldBy
<1>6. tuple \in Tuple
  BY <1>4, Ranks DEF Tuple, States
<1>7. /\ img \in Image /\ img.ends = Now.ends /\ img.live = Now.live
      /\ img.committed = Now.committed
      /\ img.tab[t] = tuple /\ \A u \in Tids \ {t} : img.tab[u] = Now.tab[u]
  <2> HIDE DEF tuple
  <2> QED
    BY <1>3, <1>6, SetTab
<1>8. tuple.serial = n /\ tuple.state = "CreatePending" /\ tuple.xid = x
  OBVIOUS
<1> HIDE DEF tuple, img
<1>9. n \notin Now.live /\ \A u \in Tids : Now.tab[u].serial # n /\ Now.ends[u].serial # n
  BY <1>3, ImageNumbers DEF ImageOK
<1>10. ImageOK(img, nextSerial')
  <2>1. PICK g \in Image, k \in Nat, l \in Nat : g = Now /\ k = nextSerial /\ l = nextSerial'
    BY <1>3, <1>4
  <2>2. k < l /\ ImageOK(g, k) /\ k = n /\ n # 0
    BY <1>1, <1>3, <1>4, <2>1
  <2>3. ImageOK(g, l)
    BY <2>2, ImageLater
  <2>4. ImageOK(img, l)
    <3> HIDE DEF n
    <3> QED
      BY <1>7, <1>8, <1>9, <2>1, <2>2, <2>3 DEF ImageOK, Doomed
  <2> QED
    BY <2>1, <2>4
<1> HIDE DEF o
<1>11. row \in Row /\ new \in Pending
  BY <1>3, <1>4 DEF Xact, Row, Pending
<1>12. /\ row.serial = n /\ row.deleted = FALSE /\ row.nestLevel = o.level
       /\ new.serial = n /\ new.dropForCommit = FALSE /\ new.sameTransCreateDrop = FALSE
       /\ new.nestLevel = o.level
  OBVIOUS
<1> HIDE DEF row, new
<1>13. rows \in SUBSET Row /\ list \in SUBSET Pending
  BY <1>3, <1>11 DEF Xact
<1>14. /\ r \in Xact /\ r.phase = "create" /\ r.level = o.level /\ r.catalog = rows
       /\ r.pendingDeletes = list /\ r.pass = o.pass /\ r.todo = o.todo
  <2> HIDE DEF rows, list
  <2>1. /\ a \in Xact /\ a.phase = "create" /\ a.level = o.level /\ a.catalog = o.catalog
        /\ a.pendingDeletes = o.pendingDeletes /\ a.pass = o.pass /\ a.todo = o.todo
    BY <1>3, SetPhase
  <2> HIDE DEF a
  <2>2. /\ b \in Xact /\ b.phase = "create" /\ b.level = o.level /\ b.catalog = rows
        /\ b.pendingDeletes = o.pendingDeletes /\ b.pass = o.pass /\ b.todo = o.todo
    BY <1>13, <2>1, SetCatalog
  <2> HIDE DEF b
  <2> QED
    BY <1>13, <2>2, SetPendingDeletes
<1> HIDE DEF r
<1>15. HeldBy(r) = HeldBy(o) \cup {n} /\ InWork(r) /\ InWork(o)
  BY <1>1, <1>12, <1>14 DEF HeldBy, InWork
<1>16. \A s \in HeldBy(o) : s \in Nat /\ s < n
  BY <1>5 DEF o
<1>17. Max(HeldBy(r)) = n
  <2>1. PICK k \in Nat : k = n
    BY <1>3
  <2> QED
    BY <1>15, <1>16, <2>1, MaxIsNew
<1>18. KeptRows(r) = KeptRows(o) \cup {row}
  BY <1>12, <1>14, <1>15 DEF KeptRows
<1>19. o.level \in 1 .. 2 /\ \A q \in o.catalog : q.serial \in Nat
  BY <1>3, Numbers DEF Xact, Row
<1>20. \A q \in o.catalog : q.serial # n /\ q.serial < n
  BY <1>3, <1>19 DEF RowsOK
<1>21. RowsOK(r, nextSerial')
  <2>1. ASSUME NEW q \in rows
        PROVE  /\ q.serial < n + 1 /\ q.nestLevel <= o.level
               /\ \E e \in list : /\ e.serial = q.serial
                                  /\ q.nestLevel < o.level => e.nestLevel < o.level
    <3>1. CASE q = row
      BY <1>3, <1>12, <1>19, <3>1
    <3>2. CASE q \in o.catalog
      <4>1. q.serial < n + 1
        BY <1>3, <1>19, <1>20, <3>2
      <4> QED
        BY <1>3, <1>15, <3>2, <4>1 DEF RowsOK
    <3> QED
      BY <3>1, <3>2
  <2>2. \A p, q \in rows : p.serial = q.serial /\ ~p.deleted /\ ~q.deleted => p = q
    <3>1. \A p, q \in o.catalog : p.serial = q.serial /\ ~p.deleted /\ ~q.deleted => p = q
      BY <1>3 DEF RowsOK
    <3> HIDE DEF n
    <3> QED
      BY <1>12, <1>20, <3>1
  <2> QED
    BY <1>1, <1>14, <2>1, <2>2 DEF RowsOK
<1>22. EntriesOK(r, nextSerial')
  <2> SUFFICES ASSUME NEW e \in list
               PROVE  /\ e.serial < n + 1
                      /\ e.nestLevel <= o.level /\ ~e.sameTransCreateDrop
                      /\ ~e.dropForCommit => \E q \in rows :
                            ~q.deleted /\ q.serial = e.serial /\ q.nestLevel = e.nestLevel
                      /\ e.dropForCommit => \E q \in rows :
                            q.deleted /\ q.serial = e.serial /\ q.nestLevel = e.nestLevel
    BY <1>1, <1>14, <1>15 DEF EntriesOK
  <2>1. CASE e = new
    BY <1>3, <1>12, <1>19, <2>1
  <2>2. CASE e \in o.pendingDeletes
    <3>1. e.serial < n + 1
      BY <1>3, <1>16, <2>2 DEF HeldBy
    <3> QED
      BY <1>3, <1>15, <2>2, <3>1 DEF EntriesOK
  <2> QED
    BY <2>1, <2>2
<1>23. PhaseOK(r)
  <2>1. o.pass = 0 /\ o.todo = {}
    BY <1>1, <1>3 DEF PhaseOK
  <2> QED
    BY <1>14, <2>1 DEF PhaseOK
<1>24. LiveOK(r, img)
  <2> HIDE DEF n
  <2> QED
    BY <1>1, <1>3, <1>7, <1>9, <1>12, <1>14 DEF LiveOK
<1>25. KeptOK(x, r, Files, img)
  <2> SUFFICES ASSUME NEW q \in KeptRows(r)
               PROVE  /\ q.serial \in Files \/ (q.serial = n /\ q.nestLevel = o.level)
                      /\ \A u \in Tids :
                          /\ img.tab[u].serial = q.serial =>
                                img.tab[u].state = "CreatePending" /\ img.tab[u].xid = x
                          /\ img.ends[u].serial # q.serial
    BY <1>14, <1>17 DEF KeptOK
  <2> HIDE DEF n
  <2>1. CASE q = row
    BY <1>7, <1>8, <1>9, <1>12, <2>1
  <2>2. CASE q \in KeptRows(o)
    <3>1. q.serial \in Files /\ q.serial # n
      BY <1>1, <1>3, <1>20, <2>2 DEF KeptOK, KeptRows
    <3> QED
      BY <1>3, <1>7, <1>8, <2>2, <3>1 DEF KeptOK
  <2> QED
    BY <1>18, <2>1, <2>2
<1>26. XactOK(x, r, nextSerial', Files', img)
  BY <1>1, <1>21, <1>22, <1>23, <1>24, <1>25 DEF XactOK
<1>27. \A y \in Xacts \ {x} : HeldBy(r) \cap HeldBy(xact[y]) = {}
  <2>1. \A y \in Xacts : n \notin HeldBy(xact[y])
    BY <1>3, <1>5
  <2> QED
    BY <1>3, <1>15, <2>1
<1>28. \A y \in Xacts \ {x} : \A s \in HeldBy(xact[y]) : Undisturbed(s, Files, Now, Files', img)
  <2>1. \A y \in Xacts : n \notin HeldBy(xact[y])
    BY <1>3, <1>5
  <2> HIDE DEF n
  <2> QED
    BY <1>1, <1>7, <1>8, <2>1 DEF Undisturbed
<1>29. /\ UNCHANGED entry /\ mode' \notin Recovering /\ Written(img) /\ img.live \subseteq Files'
       /\ nextSerial <= nextSerial'
  BY <1>1, <1>3, <1>4, <1>7 DEF Recovering, Written
<1>30. PICK g \in Image, z \in Xact : g = img /\ z = r
  BY <1>7, <1>14
<1> QED
  BY <1>1, <1>2, <1>4, <1>10, <1>26, <1>27, <1>28, <1>29, <1>30, WriteStep


-----------------------------------------------------------------------------
(* The entries that an end leaves, and the end records it writes. *)
LEMMA CollapsedIs ==
    ASSUME NEW list \in SUBSET Pending, NEW l \in 1 .. 2
    PROVE  /\ Collapsed(list, l) \in SUBSET Pending
           /\ \A e \in Collapsed(list, l) :
                \/ e \in list
                \/ \E c, f \in list :
                      /\ e.serial = c.serial /\ e.nestLevel = c.nestLevel /\ c.nestLevel >= l
                      /\ e.dropForCommit /\ e.sameTransCreateDrop /\ ~c.dropForCommit
                      /\ f.serial = c.serial /\ f.dropForCommit
           /\ \A c \in list : \E e \in Collapsed(list, l) :
                e.serial = c.serial /\ (c.nestLevel < l => e.nestLevel < l)
<1> DEFINE Twin(c) == [c EXCEPT !.dropForCommit = TRUE, !.sameTransCreateDrop = TRUE]
           Partner(e) == {f \in list : Collapsible(e, f, l)}
           A == {e \in list : Partner(e) = {}}
           B == {Twin(e) : e \in {c \in list : ~c.dropForCommit /\ Partner(c) # {}}}
<1>1. Collapsed(list, l) = A \cup B
  BY DEF Collapsed
<1>2. \A c \in list : /\ Twin(c) \in Pending /\ Twin(c).serial = c.serial
                      /\ Twin(c).nestLevel = c.nestLevel
                      /\ Twin(c).dropForCommit = TRUE /\ Twin(c).sameTransCreateDrop = TRUE
                      /\ c.dropForCommit \in BOOLEAN /\ c.nestLevel \in 1 .. 2
  BY DEF Pending
<1>3. \A e \in list : \A f \in Partner(e) :
        /\ f \in list /\ f.serial = e.serial /\ f.dropForCommit # e.dropForCommit
        /\ f.nestLevel >= l /\ e.nestLevel >= l /\ e \in Partner(f)
  BY DEF Collapsible
<1> HIDE DEF Twin, Partner
<1>4. A \cup B \in SUBSET Pending
  BY <1>2
<1>5. ASSUME NEW e \in B
      PROVE  \E c, f \in list :
                /\ e.serial = c.serial /\ e.nestLevel = c.nestLevel /\ c.nestLevel >= l
                /\ e.dropForCommit /\ e.sameTransCreateDrop /\ ~c.dropForCommit
                /\ f.serial = c.serial /\ f.dropForCommit
  <2>1. PICK c \in list : e = Twin(c) /\ ~c.dropForCommit /\ Partner(c) # {}
    OBVIOUS
  <2>2. PICK f \in Partner(c) : TRUE
    BY <2>1
  <2>3. f \in list /\ f.serial = c.serial /\ f.dropForCommit # c.dropForCommit /\ c.nestLevel >= l
    BY <1>3, <2>1, <2>2
  <2>4. f.dropForCommit
    BY <1>2, <2>1, <2>3
  <2> QED
    BY <1>2, <2>1, <2>3, <2>4
<1>6. ASSUME NEW c \in list
      PROVE  \E e \in A \cup B : e.serial = c.serial /\ (c.nestLevel < l => e.nestLevel < l)
  <2>1. CASE Partner(c) = {}
    BY <2>1
  <2>2. CASE Partner(c) # {}
    <3>1. PICK f \in Partner(c) : TRUE
      BY <2>2
    <3>2. /\ f \in list /\ f.serial = c.serial /\ f.dropForCommit # c.dropForCommit
          /\ c.nestLevel >= l /\ Partner(f) # {}
      BY <1>3, <3>1
    <3>3. ~(c.nestLevel < l)
      BY <1>2, <3>2
    <3>4. CASE ~c.dropForCommit
      BY <1>2, <2>2, <3>3, <3>4
    <3>5. CASE c.dropForCommit
      <4>1. ~f.dropForCommit
        BY <1>2, <3>2, <3>5
      <4>2. Twin(f) \in B /\ Twin(f).serial = c.serial
        BY <1>2, <3>2, <4>1
      <4> QED
        BY <3>3, <4>2
    <3> QED
      BY <3>4, <3>5
  <2> QED
    BY <2>1, <2>2
<1> QED
  BY <1>1, <1>4, <1>5, <1>6

LEMMA WithEndsIs ==
    ASSUME NEW img \in Image, NEW acts \in SUBSET Pending, NEW c \in BOOLEAN,
           \A e \in acts : Target(e, c) # "None"
    PROVE  LET new == WithEnds(img, acts, c)
           IN  /\ new \in Image /\ new.tab = img.tab /\ new.ended = img.ended
               /\ new.live = img.live /\ new.committed = img.committed
               /\ \A t \in Tids : \/ new.ends[t] = img.ends[t]
                                  \/ \E e \in acts : /\ new.ends[t].serial = e.serial
                                                     /\ new.ends[t].state = Target(e, c)
<1> DEFINE Rec == [state : DOMAIN Rank, serial : 1 .. MaxSerial, xid : {NoXid}, updateNeeded : {FALSE}]
           mine(t) == {e \in acts : e.tid = t}
           end(e) == [NoEntry EXCEPT !.state = Target(e, c), !.serial = e.serial]
           ends == [t \in Tids |-> IF mine(t) = {} THEN img.ends[t]
                                   ELSE end(CHOOSE e \in mine(t) : TRUE)]
<1>1. WithEnds(img, acts, c) = [img EXCEPT !.ends = ends]
  BY DEF WithEnds
<1>2. ASSUME NEW e \in acts
      PROVE  end(e) \in Rec /\ end(e).serial = e.serial /\ end(e).state = Target(e, c)
  <2>1. Target(e, c) \in DOMAIN Rank
    BY Ranks DEF Target, States
  <2>2. e.serial \in 1 .. MaxSerial
    BY DEF Pending
  <2> QED
    BY <2>1, <2>2 DEF NoEntry
<1> HIDE DEF end
<1>3. ASSUME NEW t \in Tids
      PROVE  \/ ends[t] = img.ends[t]
             \/ /\ ends[t] \in Rec
                /\ \E e \in acts : ends[t].serial = e.serial /\ ends[t].state = Target(e, c)
  <2>1. CASE mine(t) = {}
    BY <2>1
  <2>2. CASE mine(t) # {}
    <3> DEFINE e == CHOOSE e \in mine(t) : TRUE
    <3>1. e \in mine(t)
      BY <2>2
    <3>2. ends[t] = end(e)
      BY <2>2
    <3>3. e \in acts
      BY <3>1
    <3> HIDE DEF e, ends
    <3> QED
      BY <1>2, <3>2, <3>3
  <2> QED
    BY <2>1, <2>2
<1>4. ends \in [Tids -> {NoEntry} \cup Rec]
  <2>1. \A t \in Tids : img.ends[t] \in {NoEntry} \cup Rec
    BY DEF Image
  <2>2. \A t \in Tids : ends[t] \in {NoEntry} \cup Rec
    BY <1>3, <2>1
  <2> QED
    BY <2>2
<1> HIDE DEF ends
<1>5. LET new == [img EXCEPT !.ends = ends]
      IN  /\ new \in Image /\ new.tab = img.tab /\ new.ended = img.ended
          /\ new.live = img.live /\ new.committed = img.committed /\ new.ends = ends
  BY <1>4 DEF Image
<1> QED
  BY <1>1, <1>3, <1>5


(* The record of a transaction that begins to end. *)
EndingOf(o, phase) ==
    LET list == Collapsed(o.pendingDeletes, o.level)
    IN  [o EXCEPT !.phase = phase, !.pendingDeletes = list, !.pass = 1,
                  !.todo = {e \in list : e.nestLevel >= o.level}]

LEMMA EndingIs ==
    ASSUME NEW o \in Xact, NEW n, NEW phase \in {"commit", "abort", "subabort"},
           RowsOK(o, n), EntriesOK(o, n), o.phase \in {"run", "create"},
           phase = "subabort" => o.level = 2, phase # "subabort" => o.level = 1
    PROVE  LET r == EndingOf(o, phase)
           IN  /\ r \in Xact /\ r.phase = phase /\ r.level = o.level /\ r.catalog = o.catalog
               /\ r.pendingDeletes = Collapsed(o.pendingDeletes, o.level)
               /\ RowsOK(r, n) /\ EntriesOK(r, n) /\ PhaseOK(r) /\ HeldBy(r) = HeldBy(o)
<1> DEFINE old == o.pendingDeletes
           list == Collapsed(old, o.level)
           todo == {e \in list : e.nestLevel >= o.level}
           a == [o EXCEPT !.phase = phase]
           b == [a EXCEPT !.pendingDeletes = list]
           c == [b EXCEPT !.pass = 1]
           r == [c EXCEPT !.todo = todo]
<1>1. EndingOf(o, phase) = r
  BY DEF EndingOf
<1>2. old \in SUBSET Pending /\ o.level \in 1 .. 2
  BY DEF Xact
<1>3. /\ list \in SUBSET Pending
      /\ \A e \in list :
           \/ e \in old
           \/ \E d, f \in old :
                 /\ e.serial = d.serial /\ e.nestLevel = d.nestLevel /\ d.nestLevel >= o.level
                 /\ e.dropForCommit /\ e.sameTransCreateDrop /\ ~d.dropForCommit
                 /\ f.serial = d.serial /\ f.dropForCommit
      /\ \A d \in old : \E e \in list :
           e.serial = d.serial /\ (d.nestLevel < o.level => e.nestLevel < o.level)
  <2>1. PICK s \in SUBSET Pending, l \in 1 .. 2 : s = old /\ l = o.level
    BY <1>2
  <2> QED
    BY <2>1, CollapsedIs
<1> HIDE DEF list
<1>4. todo \in SUBSET Pending
  BY <1>3
<1> HIDE DEF todo
<1>5. /\ a \in Xact /\ a.phase = phase /\ a.level = o.level /\ a.catalog = o.catalog
      /\ a.pass = o.pass /\ a.todo = o.todo
  BY DEF Xact
<1> HIDE DEF a
<1>6. /\ b \in Xact /\ b.phase = phase /\ b.level = o.level /\ b.catalog = o.catalog
      /\ b.pendingDeletes = list /\ b.pass = o.pass /\ b.todo = o.todo
  BY <1>3, <1>5, SetPendingDeletes
<1> HIDE DEF b
<1>7. /\ c \in Xact /\ c.phase = phase /\ c.level = o.level /\ c.catalog = o.catalog
      /\ c.pendingDeletes = list /\ c.pass = 1
  <2>1. PICK z \in 0 .. 2 : z = 1
    OBVIOUS
  <2> QED
    BY <1>6, <2>1, SetPass
<1> HIDE DEF c
<1>8. /\ r \in Xact /\ r.phase = phase /\ r.level = o.level /\ r.catalog = o.catalog
      /\ r.pendingDeletes = list /\ r.pass = 1 /\ r.todo = todo
  BY <1>4, <1>7, SetTodo
<1> HIDE DEF r
<1>9. HeldBy(r) = HeldBy(o)
  BY <1>3, <1>8 DEF HeldBy
<1>10. InWork(o) /\ ~InWork(r)
  BY <1>8 DEF InWork
<1>11. RowsOK(r, n)
  <2>1. \A q \in o.catalog : \E e \in list :
            e.serial = q.serial /\ (q.nestLevel < o.level => e.nestLevel < o.level)
    BY <1>3 DEF RowsOK
  <2> QED
    BY <1>8, <1>10, <2>1 DEF RowsOK
<1>12. EntriesOK(r, n)
  <2> SUFFICES ASSUME NEW e \in list
               PROVE  /\ e.serial < n
                      /\ e.sameTransCreateDrop => e.dropForCommit /\ e.nestLevel >= o.level
                      /\ ~e.dropForCommit \/ e.sameTransCreateDrop =>
                            \E q \in o.catalog :
                                ~q.deleted /\ q.serial = e.serial /\ q.nestLevel = e.nestLevel
                      /\ e.dropForCommit =>
                            \E q \in o.catalog :
                                /\ q.deleted /\ q.serial = e.serial
                                /\ ~e.sameTransCreateDrop => q.nestLevel = e.nestLevel
    BY <1>8, <1>10 DEF EntriesOK
  <2>1. CASE e \in old
    BY <1>10, <2>1 DEF EntriesOK
  <2>2. CASE e \notin old
    <3>1. PICK d \in old, f \in old :
              /\ e.serial = d.serial /\ e.nestLevel = d.nestLevel /\ d.nestLevel >= o.level
              /\ e.dropForCommit /\ e.sameTransCreateDrop /\ ~d.dropForCommit
              /\ f.serial = d.serial /\ f.dropForCommit
      BY <1>3, <2>2
    <3>2. \E q \in o.catalog : ~q.deleted /\ q.serial = d.serial /\ q.nestLevel = d.nestLevel
      BY <3>1 DEF EntriesOK
    <3>3. \E q \in o.catalog : q.deleted /\ q.serial = f.serial
      BY <3>1 DEF EntriesOK
    <3>4. e.serial < n
      BY <3>1 DEF EntriesOK
    <3> QED
      BY <3>1, <3>2, <3>3, <3>4
  <2> QED
    BY <2>1, <2>2
<1>13. PhaseOK(r)
  BY <1>8 DEF PhaseOK, todo
<1> QED
  BY <1>1, <1>8, <1>9, <1>11, <1>12, <1>13 DEF list


LEMMA SetEnded ==
    ASSUME NEW img \in Image, NEW v \in SUBSET Xacts
    PROVE  LET new == [img EXCEPT !.ended = v]
           IN  /\ new \in Image /\ new.tab = img.tab /\ new.ends = img.ends
               /\ new.live = img.live /\ new.committed = img.committed
BY DEF Image

(* An abort records only objects that are not live. *)
LEMMA RecordAbortKeeps ==
    ASSUME FileInv, NEW x \in Xacts, NEW phase \in {"abort", "subabort"},
           NEW ended \in SUBSET Xacts, RecordAbort(x, phase, ended),
           phase = "abort" => xact[x].level = 1, phase = "subabort" => xact[x].level = 2
    PROVE  FileInv'
<1> DEFINE o == xact[x]
           list == Collapsed(o.pendingDeletes, o.level)
           acts == EndActions(list, o.level, FALSE)
           with == WithEnds(Now, acts, FALSE)
           img == [with EXCEPT !.ended = with.ended \cup ended]
           r == EndingOf(o, phase)
<1>1. /\ mode = "up" /\ o.phase \in {"run", "create"}
      /\ Appended(img) \/ Flushed(img)
      /\ UNCHANGED <<Files, mode, entry, nextSerial>>
  BY DEF RecordAbort, Files
<1>2. xact' = [xact EXCEPT ![x] = r]
  BY DEF RecordAbort, Ending, EndingOf
<1>3. /\ o \in Xact /\ RowsOK(o, nextSerial) /\ EntriesOK(o, nextSerial) /\ PhaseOK(o)
      /\ KeptOK(x, o, Files, Now) /\ LiveOK(o, Now)
      /\ \A y \in Xacts \ {x} : HeldBy(o) \cap HeldBy(xact[y]) = {}
      /\ Now \in Image /\ ImageOK(Now, nextSerial) /\ nextSerial \in Nat /\ Now.live \subseteq Files
  BY XactFacts
<1>4. /\ phase = "abort" => o.level = 1
      /\ phase = "subabort" => o.level = 2
  OBVIOUS
<1> HIDE DEF o
<1>5. /\ r \in Xact /\ r.phase = phase /\ r.level = o.level /\ r.catalog = o.catalog
      /\ r.pendingDeletes = list
      /\ RowsOK(r, nextSerial) /\ EntriesOK(r, nextSerial) /\ PhaseOK(r) /\ HeldBy(r) = HeldBy(o)
  <2>1. PICK n : n = nextSerial
    OBVIOUS
  <2> QED
    BY <1>1, <1>3, <1>4, <2>1, EndingIs
<1> HIDE DEF r
<1>6. /\ acts \subseteq list
      /\ \A e \in acts : e.nestLevel >= o.level /\ Target(e, FALSE) # "None"
  BY DEF EndActions
<1>7. \A e \in acts : ~e.dropForCommit \/ e.sameTransCreateDrop
  BY <1>6 DEF Target
<1>8. list \in SUBSET Pending
  BY <1>5 DEF Xact
<1> HIDE DEF list, acts
<1>9. /\ with \in Image /\ with.tab = Now.tab /\ with.ended \in SUBSET Xacts
      /\ with.live = Now.live /\ with.committed = Now.committed
      /\ \A t \in Tids : \/ with.ends[t] = Now.ends[t]
                         \/ \E e \in acts : /\ with.ends[t].serial = e.serial
                                            /\ with.ends[t].state = Target(e, FALSE)
  <2>1. PICK g \in Image, s \in SUBSET Pending : g = Now /\ s = acts
    BY <1>3, <1>6, <1>8
  <2>2. \A e \in s : Target(e, FALSE) # "None"
    BY <1>6, <2>1
  <2>3. g.ended \in SUBSET Xacts
    BY DEF Image
  <2>4. LET new == WithEnds(g, s, FALSE)
        IN  /\ new \in Image /\ new.tab = g.tab /\ new.ended = g.ended
            /\ new.live = g.live /\ new.committed = g.committed
            /\ \A t \in Tids : \/ new.ends[t] = g.ends[t]
                               \/ \E e \in s : /\ new.ends[t].serial = e.serial
                                               /\ new.ends[t].state = Target(e, FALSE)
    BY <2>2, WithEndsIs, Zenon
  <2> QED
    BY <2>1, <2>3, <2>4
<1> HIDE DEF with
<1>10. /\ img \in Image /\ img.tab = Now.tab /\ img.live = Now.live /\ img.committed = Now.committed
       /\ \A t \in Tids : \/ img.ends[t] = Now.ends[t]
                          \/ \E e \in acts : /\ img.ends[t].serial = e.serial
                                             /\ img.ends[t].state = Target(e, FALSE)
  <2>1. /\ img \in Image /\ img.tab = with.tab /\ img.ends = with.ends
        /\ img.live = with.live /\ img.committed = with.committed
    BY <1>9, SetEnded
  <2> QED
    BY <1>9, <2>1
<1> HIDE DEF img
<1>11. ASSUME NEW e \in acts
       PROVE  /\ e.serial < nextSerial /\ e.serial \notin Now.live /\ e.serial \in HeldBy(o)
              /\ \E q \in o.catalog : /\ ~q.deleted /\ q.serial = e.serial
                                      /\ q.nestLevel = e.nestLevel
  <2>1. e \in r.pendingDeletes
    BY <1>5, <1>6
  <2>2. PICK q \in o.catalog : ~q.deleted /\ q.serial = e.serial /\ q.nestLevel = e.nestLevel
    BY <1>5, <1>7, <2>1 DEF EntriesOK
  <2>3. q.serial \notin Now.live
    BY <1>1, <1>3, <2>2 DEF LiveOK
  <2>4. e.serial \in HeldBy(r)
    BY <2>1 DEF HeldBy
  <2> QED
    BY <1>5, <2>1, <2>2, <2>3, <2>4 DEF EntriesOK
<1>12. ImageOK(img, nextSerial)
  <2>1. ASSUME NEW t \in Tids
        PROVE  /\ img.ends[t].serial < nextSerial
               /\ img.ends[t].state \in Doomed => img.ends[t].serial \notin img.live
               /\ img.ends[t].state # "CreatePending"
    <3>1. CASE img.ends[t] = Now.ends[t]
      BY <1>3, <1>10, <3>1 DEF ImageOK
    <3>2. CASE \E e \in acts : /\ img.ends[t].serial = e.serial
                               /\ img.ends[t].state = Target(e, FALSE)
      <4>1. PICK e \in acts : img.ends[t].serial = e.serial /\ img.ends[t].state = Target(e, FALSE)
        BY <3>2
      <4>2. Target(e, FALSE) # "CreatePending"
        BY DEF Target
      <4> QED
        BY <1>10, <1>11, <4>1, <4>2
    <3> QED
      BY <1>10, <3>1, <3>2
  <2> QED
    BY <1>3, <1>10, <2>1 DEF ImageOK
<1>13. LiveOK(r, img)
  BY <1>1, <1>3, <1>5, <1>10 DEF LiveOK
<1>14. KeptOK(x, r, Files, img)
  <2> SUFFICES ASSUME NEW q \in KeptRows(r)
               PROVE  /\ q.serial \in Files
                      /\ \A t \in Tids :
                          /\ img.tab[t].serial = q.serial =>
                                img.tab[t].state = "CreatePending" /\ img.tab[t].xid = x
                          /\ img.ends[t].serial # q.serial
    BY DEF KeptOK
  <2>1. q \in o.catalog /\ ~q.deleted /\ q.nestLevel < o.level
    BY <1>5 DEF KeptRows, InWork
  <2>2. q \in KeptRows(o)
    BY <1>1, <2>1 DEF KeptRows, InWork
  <2>3. q.nestLevel \in 1 .. 2 /\ o.level \in 1 .. 2
    BY <1>3, <2>1 DEF Xact, Row
  <2>4. /\ q.serial \in Files
        /\ \A t \in Tids :
            /\ Now.tab[t].serial = q.serial =>
                  Now.tab[t].state = "CreatePending" /\ Now.tab[t].xid = x
            /\ Now.ends[t].serial # q.serial
    BY <1>3, <2>1, <2>2, <2>3 DEF KeptOK
  <2>5. ASSUME NEW e \in acts PROVE e.serial # q.serial
    <3>1. PICK p \in o.catalog : ~p.deleted /\ p.serial = e.serial /\ p.nestLevel = e.nestLevel
      BY <1>11
    <3>2. p.nestLevel \in 1 .. 2 /\ p.nestLevel >= o.level
      BY <1>3, <1>6, <3>1 DEF Xact, Row
    <3>3. p # q
      BY <2>1, <2>3, <3>2
    <3> QED
      BY <1>3, <2>1, <3>1, <3>3 DEF RowsOK
  <2> QED
    BY <1>10, <2>4, <2>5
<1>15. XactOK(x, r, nextSerial', Files', img)
  BY <1>1, <1>5, <1>13, <1>14 DEF XactOK
<1>16. \A y \in Xacts \ {x} : HeldBy(r) \cap HeldBy(xact[y]) = {}
  BY <1>3, <1>5
<1>17. \A y \in Xacts \ {x} : \A s \in HeldBy(xact[y]) : Undisturbed(s, Files, Now, Files', img)
  <2>1. \A y \in Xacts \ {x} : \A s \in HeldBy(xact[y]) : \A e \in acts : e.serial # s
    BY <1>3, <1>11
  <2> QED
    BY <1>1, <1>10, <2>1 DEF Undisturbed
<1>18. /\ UNCHANGED entry /\ mode' \notin Recovering /\ Written(img) /\ img.live \subseteq Files'
       /\ nextSerial <= nextSerial' /\ nextSerial' \in 1 .. (MaxSerial + 1)
       /\ ImageOK(img, nextSerial')
       /\ img.live = Now.live /\ img.committed = Now.committed
  BY <1>1, <1>3, <1>10, <1>12 DEF Recovering, Written, FileInv, TypesOK
<1>19. PICK g \in Image, z \in Xact : g = img /\ z = r
  BY <1>5, <1>10
<1> QED
  BY <1>2, <1>15, <1>16, <1>17, <1>18, <1>19, WriteStep


LEMMA SetCommitted ==
    ASSUME NEW img \in Image, NEW v \in SUBSET Xacts
    PROVE  LET new == [img EXCEPT !.committed = v]
           IN  /\ new \in Image /\ new.tab = img.tab /\ new.ends = img.ends
               /\ new.live = img.live /\ new.committed = v
BY DEF Image

LEMMA SetLive ==
    ASSUME NEW img \in Image, NEW v \in SUBSET (1 .. MaxSerial)
    PROVE  LET new == [img EXCEPT !.live = v]
           IN  /\ new \in Image /\ new.tab = img.tab /\ new.ends = img.ends
               /\ new.live = v /\ new.committed = img.committed
BY DEF Image

(* A commit makes new objects live that have their file, and none that it  *)
(* is about to drop.                                                       *)
LEMMA RecordTransactionCommitKeeps ==
    ASSUME FileInv, NEW x \in Xacts, RecordTransactionCommit(x) PROVE FileInv'
<1> DEFINE o == xact[x]
           list == Collapsed(o.pendingDeletes, 1)
           acts == EndActions(list, 1, TRUE)
           added == {q.serial : q \in {p \in o.catalog : p.deleted = FALSE}}
           dropped == {q.serial : q \in {p \in o.catalog : p.deleted = TRUE}}
           with == WithEnds(Now, acts, TRUE)
           a == [with EXCEPT !.ended = with.ended \cup {x}]
           b == [a EXCEPT !.committed = with.committed \cup {x}]
           live == (with.live \cup added) \ dropped
           img == [b EXCEPT !.live = live]
           r == EndingOf(o, "commit")
<1>1. /\ mode = "up" /\ o.phase = "run" /\ o.level = 1
      /\ Flushed(img)
      /\ UNCHANGED <<Files, mode, entry, nextSerial>>
  BY DEF RecordTransactionCommit, Files
<1>2. xact' = [xact EXCEPT ![x] = r]
  BY DEF RecordTransactionCommit, Ending, EndingOf
<1>3. /\ o \in Xact /\ RowsOK(o, nextSerial) /\ EntriesOK(o, nextSerial) /\ PhaseOK(o)
      /\ KeptOK(x, o, Files, Now) /\ LiveOK(o, Now)
      /\ \A y \in Xacts \ {x} : HeldBy(o) \cap HeldBy(xact[y]) = {}
      /\ Now \in Image /\ ImageOK(Now, nextSerial) /\ nextSerial \in Nat /\ Now.live \subseteq Files
  BY XactFacts
<1> HIDE DEF o
<1>4. /\ r \in Xact /\ r.phase = "commit" /\ r.level = o.level /\ r.catalog = o.catalog
      /\ r.pendingDeletes = list
      /\ RowsOK(r, nextSerial) /\ EntriesOK(r, nextSerial) /\ PhaseOK(r) /\ HeldBy(r) = HeldBy(o)
  <2>1. PICK n : n = nextSerial
    OBVIOUS
  <2>2. LET z == EndingOf(o, "commit")
        IN  /\ z \in Xact /\ z.phase = "commit" /\ z.level = o.level /\ z.catalog = o.catalog
            /\ z.pendingDeletes = Collapsed(o.pendingDeletes, o.level)
            /\ RowsOK(z, n) /\ EntriesOK(z, n) /\ PhaseOK(z) /\ HeldBy(z) = HeldBy(o)
    BY <1>1, <1>3, <2>1, EndingIs
  <2> QED
    BY <1>1, <2>1, <2>2
<1> HIDE DEF r
<1>5. acts \subseteq list /\ \A e \in acts : Target(e, TRUE) # "None"
  BY DEF EndActions
<1>6. list \in SUBSET Pending
  BY <1>4 DEF Xact
<1>7. /\ added \subseteq 1 .. MaxSerial /\ added \subseteq HeldBy(o)
      /\ \A q \in o.catalog : q.deleted => q.serial \in dropped
      /\ \A s \in added : \E q \in KeptRows(o) : q.serial = s
      /\ \A s \in added : s < nextSerial
  <2>1. \A q \in o.catalog : q.serial \in 1 .. MaxSerial /\ q.deleted \in BOOLEAN
    BY <1>3 DEF Xact, Row
  <2>2. \A q \in o.catalog : q.serial \in HeldBy(o) /\ q.serial < nextSerial
    BY <1>3, RowsHeld DEF RowsOK, HeldBy
  <2>3. \A s \in added : \E q \in o.catalog : q.serial = s /\ ~q.deleted
    OBVIOUS
  <2>4. \A q \in o.catalog : ~q.deleted => q \in KeptRows(o)
    BY <1>1 DEF KeptRows, InWork
  <2>5. \A q \in o.catalog : q.deleted => q.serial \in dropped
    BY <2>1
  <2> HIDE DEF added, dropped
  <2> QED
    BY <2>1, <2>2, <2>3, <2>4, <2>5
<1> HIDE DEF list, acts, added, dropped
<1>8. /\ with \in Image /\ with.tab = Now.tab /\ with.ended \in SUBSET Xacts
      /\ with.live = Now.live /\ with.committed = Now.committed
      /\ \A t \in Tids : \/ with.ends[t] = Now.ends[t]
                         \/ \E e \in acts : /\ with.ends[t].serial = e.serial
                                            /\ with.ends[t].state = Target(e, TRUE)
  <2>1. PICK g \in Image, s \in SUBSET Pending : g = Now /\ s = acts
    BY <1>3, <1>5, <1>6
  <2>2. \A e \in s : Target(e, TRUE) # "None"
    BY <1>5, <2>1
  <2>3. g.ended \in SUBSET Xacts
    BY DEF Image
  <2>4. LET new == WithEnds(g, s, TRUE)
        IN  /\ new \in Image /\ new.tab = g.tab /\ new.ended = g.ended
            /\ new.live = g.live /\ new.committed = g.committed
            /\ \A t \in Tids : \/ new.ends[t] = g.ends[t]
                               \/ \E e \in s : /\ new.ends[t].serial = e.serial
                                               /\ new.ends[t].state = Target(e, TRUE)
    BY <2>2, WithEndsIs, Zenon
  <2> QED
    BY <2>1, <2>3, <2>4
<1> HIDE DEF with
<1>9. live \in SUBSET (1 .. MaxSerial) /\ live = (Now.live \cup added) \ dropped
  BY <1>3, <1>7, <1>8, ImageNumbers
<1>10. with.committed \cup {x} \in SUBSET Xacts /\ with.committed = Now.committed
  BY <1>8 DEF Image
<1> HIDE DEF live
<1>11. /\ img \in Image /\ img.tab = Now.tab /\ img.live = live
       /\ img.committed = Now.committed \cup {x}
       /\ \A t \in Tids : \/ img.ends[t] = Now.ends[t]
                          \/ \E e \in acts : /\ img.ends[t].serial = e.serial
                                             /\ img.ends[t].state = Target(e, TRUE)
  <2>1. a \in Image /\ a.tab = with.tab /\ a.ends = with.ends
    BY <1>8, SetEnded
  <2> HIDE DEF a
  <2>2. b \in Image /\ b.tab = with.tab /\ b.ends = with.ends /\ b.committed = Now.committed \cup {x}
    BY <1>10, <2>1, SetCommitted
  <2> HIDE DEF b
  <2>3. /\ img \in Image /\ img.tab = b.tab /\ img.ends = b.ends
        /\ img.live = live /\ img.committed = b.committed
    BY <1>9, <2>2, SetLive
  <2> QED
    BY <1>8, <2>2, <2>3
<1> HIDE DEF img
<1>12. ASSUME NEW e \in list
       PROVE  /\ e.serial < nextSerial /\ e.serial \in HeldBy(o)
              /\ e.dropForCommit => e.serial \notin live
  <2>1. e \in r.pendingDeletes
    BY <1>4
  <2>2. e.serial < nextSerial /\ e.serial \in HeldBy(o)
    BY <1>4, <2>1 DEF EntriesOK, HeldBy
  <2>3. e.dropForCommit => \E q \in o.catalog : q.deleted /\ q.serial = e.serial
    BY <1>4, <2>1 DEF EntriesOK
  <2> QED
    BY <1>7, <1>9, <2>2, <2>3
<1>13. ImageOK(img, nextSerial)
  <2>1. ASSUME NEW t \in Tids
        PROVE  /\ img.ends[t].serial < nextSerial
               /\ img.ends[t].state \in Doomed => img.ends[t].serial \notin img.live
               /\ img.ends[t].state # "CreatePending"
    <3>1. CASE img.ends[t] = Now.ends[t]
      <4>1. ASSUME Now.ends[t].serial \in added PROVE FALSE
        <5>1. PICK q \in KeptRows(o) : q.serial = Now.ends[t].serial
          BY <1>7, <4>1
        <5>2. KeptOK(x, o, Files, Now)
          BY <1>3
        <5> QED
          BY <5>1, <5>2 DEF KeptOK
      <4> QED
        BY <1>3, <1>9, <1>11, <3>1, <4>1 DEF ImageOK
    <3>2. CASE \E e \in acts : /\ img.ends[t].serial = e.serial
                               /\ img.ends[t].state = Target(e, TRUE)
      <4>1. PICK e \in acts : img.ends[t].serial = e.serial /\ img.ends[t].state = Target(e, TRUE)
        BY <3>2
      <4>2. Target(e, TRUE) # "CreatePending" /\ (Target(e, TRUE) \in Doomed => e.dropForCommit)
        BY DEF Target, Doomed
      <4> QED
        BY <1>5, <1>11, <1>12, <4>1, <4>2
    <3> QED
      BY <1>11, <3>1, <3>2
  <2>2. ASSUME NEW t \in Tids
        PROVE  /\ img.tab[t].state \in Doomed => img.tab[t].serial \notin img.live
               /\ img.tab[t].state = "CreatePending" /\ img.tab[t].serial \in img.live =>
                     img.tab[t].xid \in img.committed
    <3>1. ASSUME Now.tab[t].serial \in added
          PROVE  Now.tab[t].state = "CreatePending" /\ Now.tab[t].xid = x
      <4>1. PICK q \in KeptRows(o) : q.serial = Now.tab[t].serial
        BY <1>7, <3>1
      <4>2. KeptOK(x, o, Files, Now)
        BY <1>3
      <4> QED
        BY <4>1, <4>2 DEF KeptOK
    <3>2. img.tab[t].serial \in img.live =>
             Now.tab[t].serial \in Now.live \/ Now.tab[t].serial \in added
      BY <1>9, <1>11
    <3>3. "CreatePending" \notin Doomed
      BY DEF Doomed
    <3> QED
      BY <1>3, <1>11, <3>1, <3>2, <3>3 DEF ImageOK
  <2>3. \A s \in img.live : s < nextSerial
    BY <1>3, <1>7, <1>9, <1>11 DEF ImageOK
  <2> QED
    BY <1>3, <1>11, <2>1, <2>2, <2>3 DEF ImageOK
<1>14. LiveOK(r, img)
  BY <1>4, <1>11, <1>12 DEF LiveOK
<1>15. KeptOK(x, r, Files, img)
  BY <1>4 DEF KeptOK, KeptRows, InWork
<1>16. XactOK(x, r, nextSerial', Files', img)
  BY <1>1, <1>4, <1>14, <1>15 DEF XactOK
<1>17. \A y \in Xacts \ {x} : HeldBy(r) \cap HeldBy(xact[y]) = {}
  BY <1>3, <1>4
<1>18. ASSUME NEW y \in Xacts \ {x}, NEW s \in HeldBy(xact[y])
       PROVE  Undisturbed(s, Files, Now, Files', img)
  <2>1. s \notin HeldBy(o)
    BY <1>3
  <2>2. (\A e \in acts : e.serial # s) /\ s \notin added
    BY <1>5, <1>7, <1>12, <2>1
  <2> QED
    BY <1>1, <1>9, <1>11, <2>2 DEF Undisturbed
<1>19. img.live \subseteq Files
  <2>1. added \subseteq Files
    BY <1>1, <1>3, <1>7 DEF KeptOK
  <2> QED
    BY <1>3, <1>9, <1>11, <2>1
<1>20. /\ UNCHANGED entry /\ mode' \notin Recovering /\ Written(img) /\ img.live \subseteq Files'
       /\ nextSerial <= nextSerial' /\ nextSerial' \in 1 .. (MaxSerial + 1)
       /\ ImageOK(img, nextSerial')
  BY <1>1, <1>3, <1>13, <1>19 DEF Recovering, Written, FileInv, TypesOK
<1>21. PICK g \in Image, z \in Xact : g = img /\ z = r
  BY <1>4, <1>11
<1> QED
  BY <1>1, <1>2, <1>16, <1>17, <1>18, <1>20, <1>21, WriteStep


-----------------------------------------------------------------------------
(* What a transaction still has to do is about objects that are not live,  *)
(* or stay, and never about those that its parent can still commit.        *)
LEMMA TodoIs ==
    ASSUME FileInv, NEW x \in Xacts, NEW e \in xact[x].todo
    PROVE  /\ e \in xact[x].pendingDeletes /\ e.tid \in Tids /\ e.serial \in 1 .. MaxSerial
           /\ e.serial < nextSerial /\ e.serial \in HeldBy(xact[x])
           /\ LET next == Target(e, xact[x].phase = "commit")
              IN  /\ next \in {"None", "Created", "DropPending", "AbortingCreate"}
                  /\ next \in Doomed => e.serial \notin Now.live
                  /\ next # "None" => \A q \in KeptRows(xact[x]) : q.serial # e.serial
<1> DEFINE o == xact[x]
<1>1. /\ o \in Xact /\ RowsOK(o, nextSerial) /\ EntriesOK(o, nextSerial) /\ PhaseOK(o)
      /\ LiveOK(o, Now)
  BY XactFacts
<1>2. e \in o.todo
  OBVIOUS
<1> HIDE DEF o
<1>3. /\ e \in o.pendingDeletes /\ e.nestLevel >= o.level
      /\ o.phase \in {"commit", "abort", "subabort"}
  <2>1. o.pass # 0
    BY <1>1, <1>2 DEF PhaseOK
  <2> QED
    BY <1>1, <1>2, <2>1 DEF PhaseOK
<1>4. e.tid \in Tids /\ e.serial \in 1 .. MaxSerial /\ o.level \in 1 .. 2 /\ e.nestLevel \in 1 .. 2
  BY <1>1, <1>3 DEF Xact, Pending
<1>5. e.serial < nextSerial /\ e.serial \in HeldBy(o)
  BY <1>1, <1>3 DEF EntriesOK, HeldBy
<1> DEFINE next == Target(e, o.phase = "commit")
<1>6. CASE o.phase = "commit"
  <2>1. /\ next \in {"None", "Created", "DropPending", "AbortingCreate"}
        /\ next \in Doomed => e.dropForCommit
    BY <1>6 DEF Target, Doomed
  <2>2. KeptRows(o) = {}
    BY <1>6 DEF KeptRows, InWork
  <2> HIDE DEF next
  <2>3. next \in Doomed => e.serial \notin Now.live
    BY <1>1, <1>3, <1>6, <2>1 DEF LiveOK
  <2> QED
    BY <1>3, <1>4, <1>5, <2>1, <2>2, <2>3 DEF o, next
<1>7. CASE o.phase # "commit"
  <2>1. /\ next \in {"None", "AbortingCreate"}
        /\ next # "None" => ~e.dropForCommit \/ e.sameTransCreateDrop
    BY <1>7 DEF Target
  <2> HIDE DEF next
  <2>2. ASSUME next # "None"
        PROVE  e.serial \notin Now.live /\ \A q \in KeptRows(o) : q.serial # e.serial
    <3>1. PICK p \in o.catalog : ~p.deleted /\ p.serial = e.serial /\ p.nestLevel = e.nestLevel
      BY <1>1, <1>3, <2>1, <2>2 DEF EntriesOK
    <3>2. p.serial \notin Now.live
      BY <1>1, <1>7, <3>1 DEF LiveOK
    <3>3. ASSUME NEW q \in KeptRows(o) PROVE q.serial # e.serial
      <4>1. q \in o.catalog /\ ~q.deleted /\ q.nestLevel < o.level
        BY <1>3, <1>7 DEF KeptRows, InWork
      <4>2. q.nestLevel \in 1 .. 2
        BY <1>1, <4>1 DEF Xact, Row
      <4>3. p # q
        BY <1>3, <1>4, <3>1, <4>1, <4>2
      <4> QED
        BY <1>1, <3>1, <4>1, <4>3 DEF RowsOK
    <3> QED
      BY <3>1, <3>2, <3>3
  <2>3. next \in Doomed => next # "None"
    BY DEF Doomed
  <2> QED
    BY <1>3, <1>4, <1>5, <2>1, <2>2, <2>3 DEF o, next
<1> QED
  BY <1>6, <1>7

(* The record of a transaction that has less to do, or goes on to a pass.  *)
LEMMA SameWork ==
    ASSUME NEW x, NEW o \in Xact, NEW r \in Xact, NEW n, NEW fs, NEW img,
           XactOK(x, o, n, fs, img), o.pass # 0, r.pass # 0,
           r.phase = o.phase, r.level = o.level, r.catalog = o.catalog,
           r.pendingDeletes = o.pendingDeletes,
           \A e \in r.todo : e \in o.pendingDeletes /\ e.nestLevel >= o.level
    PROVE  /\ XactOK(x, r, n, fs, img) /\ HeldBy(r) = HeldBy(o) /\ KeptRows(r) = KeptRows(o)
<1>1. RowsOK(o, n) /\ EntriesOK(o, n) /\ PhaseOK(o) /\ KeptOK(x, o, fs, img) /\ LiveOK(o, img)
  BY DEF XactOK
<1>2. HeldBy(r) = HeldBy(o) /\ KeptRows(r) = KeptRows(o) /\ (InWork(r) <=> InWork(o))
  BY DEF HeldBy, KeptRows, InWork
<1>3. RowsOK(r, n) /\ EntriesOK(r, n) /\ LiveOK(r, img)
  BY <1>1, <1>2 DEF RowsOK, EntriesOK, LiveOK
<1>4. PhaseOK(r)
  BY <1>1 DEF PhaseOK
<1>5. KeptOK(x, r, fs, img)
  BY <1>1, <1>2 DEF KeptOK
<1> QED
  BY <1>2, <1>3, <1>4, <1>5 DEF XactOK

(* A step of x that changes the tuple of one of its objects, or frees it   *)
(* and removes the file.                                                   *)
LEMMA TupleStep ==
    ASSUME FileInv, NEW x \in Xacts, NEW r \in Xact, xact' = [xact EXCEPT ![x] = r],
           XactOK(x, r, nextSerial, Files, Now), HeldBy(r) = HeldBy(xact[x]),
           NEW t \in Tids, NEW v \in Tuple, NEW s \in HeldBy(r),
           Appended([Now EXCEPT !.tab[t] = v]), UNCHANGED <<entry, nextSerial>>,
           mode' \notin Recovering,
           \A q \in KeptRows(r) : q.serial # s,
           Files' \in {Files, Files \ {s}}, Files' # Files => s \notin Now.live,
           v = FreeTuple \/ (v.serial = s /\ v.state # "CreatePending"),
           v.state \in Doomed => s \notin Now.live
    PROVE  FileInv'
<1>1. /\ RowsOK(r, nextSerial) /\ EntriesOK(r, nextSerial) /\ PhaseOK(r)
      /\ KeptOK(x, r, Files, Now) /\ LiveOK(r, Now)
  BY DEF XactOK
<1>2. /\ \A y \in Xacts \ {x} : HeldBy(r) \cap HeldBy(xact[y]) = {}
      /\ Now \in Image /\ ImageOK(Now, nextSerial) /\ nextSerial \in Nat /\ Now.live \subseteq Files
  BY XactFacts
<1>3. PICK img : img = [Now EXCEPT !.tab[t] = v]
  OBVIOUS
<1>4. /\ img \in Image /\ img.ends = Now.ends
      /\ img.live = Now.live /\ img.committed = Now.committed
      /\ img.tab[t] = v /\ \A u \in Tids \ {t} : img.tab[u] = Now.tab[u]
  BY <1>2, <1>3, SetTab
<1>5. ASSUME NEW y \in Xacts PROVE \A z \in HeldBy(xact[y]) : z \in 1 .. MaxSerial /\ z < nextSerial
  <2>1. xact[y] \in Xact /\ EntriesOK(xact[y], nextSerial)
    BY XactFacts
  <2> QED
    BY <2>1 DEF Xact, Pending, EntriesOK, HeldBy
<1>6. s < nextSerial /\ s \in 1 .. MaxSerial /\ 0 < nextSerial
  BY <1>5, Numbers DEF FileInv, TypesOK
<1>7. v = FreeTuple => v.serial = 0 /\ v.state = "Free"
  BY DEF FreeTuple
<1>8. ImageOK(img, nextSerial)
  <2>1. /\ v.serial < nextSerial /\ v.state # "CreatePending"
        /\ v.state \in Doomed => v.serial \notin Now.live
    BY <1>6, <1>7 DEF Doomed
  <2> QED
    BY <1>2, <1>4, <2>1 DEF ImageOK
<1>9. LiveOK(r, img)
  BY <1>1, <1>4 DEF LiveOK
<1>10. \A z \in 1 .. MaxSerial : z # s => z # v.serial /\ (z \in Files => z \in Files')
  BY <1>7
<1>11. KeptOK(x, r, Files', img)
  <2> SUFFICES ASSUME NEW q \in KeptRows(r)
               PROVE  /\ \/ q.serial \in Files'
                         \/ /\ r.phase = "create" /\ q.serial = Max(HeldBy(r))
                            /\ q.nestLevel = r.level
                      /\ \A u \in Tids :
                          /\ img.tab[u].serial = q.serial =>
                                img.tab[u].state = "CreatePending" /\ img.tab[u].xid = x
                          /\ img.ends[u].serial # q.serial
    BY DEF KeptOK
  <2>1. q \in r.catalog
    BY DEF KeptRows
  <2>2. q.serial \in 1 .. MaxSerial /\ q.serial # s
    BY <2>1 DEF Xact, Row
  <2>3. q.serial # v.serial /\ (q.serial \in Files => q.serial \in Files')
    BY <1>10, <2>2
  <2> QED
    BY <1>1, <1>4, <2>3 DEF KeptOK
<1>12. XactOK(x, r, nextSerial', Files', img)
  BY <1>1, <1>9, <1>11 DEF XactOK
<1>13. ASSUME NEW y \in Xacts \ {x}, NEW z \in HeldBy(xact[y])
       PROVE  Undisturbed(z, Files, Now, Files', img)
  <2>1. z # s /\ z \in 1 .. MaxSerial
    BY <1>2, <1>5
  <2>2. z # v.serial /\ (z \in Files => z \in Files')
    BY <1>10, <2>1
  <2> QED
    BY <1>4, <2>2 DEF Undisturbed
<1>14. img.live \subseteq Files' /\ Written(img)
  BY <1>2, <1>3, <1>4 DEF Written
<1>15. /\ nextSerial' \in 1 .. (MaxSerial + 1) /\ nextSerial <= nextSerial'
       /\ ImageOK(img, nextSerial') /\ UNCHANGED entry
  BY <1>2, <1>8 DEF FileInv, TypesOK
<1> QED
  BY <1>2, <1>4, <1>12, <1>13, <1>14, <1>15, WriteStep


(* The record of a transaction with one entry done. *)
LEMMA OneDone ==
    ASSUME FileInv, NEW x \in Xacts, NEW e \in xact[x].todo
    PROVE  LET r == [xact[x] EXCEPT !.todo = xact[x].todo \ {e}]
           IN  /\ r \in Xact /\ XactOK(x, r, nextSerial, Files, Now)
               /\ HeldBy(r) = HeldBy(xact[x]) /\ KeptRows(r) = KeptRows(xact[x])
<1>1. PICK o \in Xact : o = xact[x]
  BY XactFacts
<1>2. XactOK(x, o, nextSerial, Files, Now) /\ PhaseOK(o) /\ e \in o.todo
  BY <1>1, XactFacts
<1> DEFINE r == [o EXCEPT !.todo = o.todo \ {e}]
<1>3. /\ r \in Xact /\ r.todo = o.todo \ {e}
      /\ r.phase = o.phase /\ r.level = o.level /\ r.catalog = o.catalog
      /\ r.pendingDeletes = o.pendingDeletes /\ r.pass = o.pass
  <2>1. o.todo \ {e} \in SUBSET Pending
    BY DEF Xact
  <2> QED
    BY <2>1, SetTodo
<1> HIDE DEF r
<1>4. o.pass # 0 /\ r.pass # 0 /\ \A d \in r.todo : d \in o.pendingDeletes /\ d.nestLevel >= o.level
  BY <1>2, <1>3 DEF PhaseOK
<1>5. PICK n, fs, img : n = nextSerial /\ fs = Files /\ img = Now
  OBVIOUS
<1>6. XactOK(x, r, n, fs, img) /\ HeldBy(r) = HeldBy(o) /\ KeptRows(r) = KeptRows(o)
  BY <1>2, <1>3, <1>4, <1>5, SameWork
<1> QED
  BY <1>1, <1>3, <1>5, <1>6 DEF r

LEMMA FirstPassKeeps ==
    ASSUME FileInv, NEW x \in Xacts, NEW e \in xact[x].todo, FirstPass(x, e) PROVE FileInv'
<1> DEFINE next == Target(e, xact[x].phase = "commit")
<1>1. PICK r : r = [xact[x] EXCEPT !.todo = xact[x].todo \ {e}]
  OBVIOUS
<1>2. /\ r \in Xact /\ XactOK(x, r, nextSerial, Files, Now)
      /\ HeldBy(r) = HeldBy(xact[x]) /\ KeptRows(r) = KeptRows(xact[x])
  BY <1>1, OneDone
<1>3. /\ e.tid \in Tids /\ e.serial \in 1 .. MaxSerial /\ e.serial \in HeldBy(xact[x])
      /\ next \in {"None", "Created", "DropPending", "AbortingCreate"}
      /\ next \in Doomed => e.serial \notin Now.live
      /\ next # "None" => \A q \in KeptRows(xact[x]) : q.serial # e.serial
  BY TodoIs
<1>4. /\ mode = "up" /\ xact' = [xact EXCEPT ![x] = r] /\ UNCHANGED <<entry, nextSerial>>
  BY <1>1 DEF FirstPass
<1>5. CASE UNCHANGED <<log, Files>> /\ mode' \in {"up", "unexpected"}
  <2>1. \A y \in Xacts \ {x} : HeldBy(r) \cap HeldBy(xact[y]) = {}
    BY <1>2, XactFacts
  <2>2. /\ UNCHANGED <<log, nextSerial, entry>> /\ Files \subseteq Files' /\ mode' \notin Recovering
        /\ XactOK(x, r, nextSerial, Files', Now)
    BY <1>2, <1>4, <1>5 DEF Recovering
  <2> QED
    BY <1>2, <1>4, <2>1, <2>2, QuietStep
<1>6. CASE next # "None" /\ Appended(Changed(e.tid, e.serial, next)) /\ UNCHANGED <<Files, mode>>
  <2>0. PICK t \in Tids, s \in HeldBy(r) : t = e.tid /\ s = e.serial
    BY <1>2, <1>3
  <2>1. PICK v :
            t = e.tid /\ s = e.serial /\ v = [state |-> next, serial |-> s, xid |-> NoXid]
    BY <2>0
  <2>2. next \in {"Created", "DropPending", "AbortingCreate"}
    BY <1>3, <1>6
  <2> HIDE DEF next
  <2>3. v \in Tuple /\ v.serial = s /\ v.state = next
    BY <1>3, <2>1, <2>2, Ranks DEF Tuple, States
  <2>4. Appended([Now EXCEPT !.tab[t] = v])
    BY <1>6, <2>1, <2>2 DEF Changed
  <2>5. \A q \in KeptRows(r) : q.serial # s
    BY <1>2, <1>3, <1>6, <2>1
  <2>6. v.state # "CreatePending" /\ (v.state \in Doomed => s \notin Now.live)
    BY <1>3, <2>1, <2>2, <2>3
  <2>7. mode' \notin Recovering /\ Files' = Files
    BY <1>4, <1>6 DEF Recovering
  <2> QED
    BY <1>2, <1>4, <2>3, <2>4, <2>5, <2>6, <2>7, TupleStep
<1> QED
  BY <1>4, <1>5, <1>6 DEF FirstPass, StateChange, Down, Files

(* Whether the file could be removed or not, it is not relied on any more. *)
LEMMA DropsFile ==
    ASSUME NEW t, NEW s, DropObject(t, s), Verified(t, s, "Free")
    PROVE  Appended(Changed(t, s, "Free")) /\ Files' = Files \ {s} /\ UNCHANGED mode
<1>1. Now.tab[t].serial = s /\ Now.tab[t].state # "Free"
  BY DEF Verified, Expected
<1>2. RemoveFile(s) /\ Appended(Changed(t, s, "Free")) /\ UNCHANGED mode
  BY <1>1 DEF DropObject
<1>3. Files' = Files \ {s}
  BY <1>2 DEF RemoveFile, Files
<1> QED
  BY <1>2, <1>3

LEMMA SecondPassKeeps ==
    ASSUME FileInv, NEW x \in Xacts, NEW e \in xact[x].todo, SecondPass(x, e),
           Target(e, xact[x].phase = "commit") \in Doomed => Verified(e.tid, e.serial, "Free")
    PROVE  FileInv'
<1> DEFINE next == Target(e, xact[x].phase = "commit")
<1>1. PICK r : r = [xact[x] EXCEPT !.todo = xact[x].todo \ {e}]
  OBVIOUS
<1>2. /\ r \in Xact /\ XactOK(x, r, nextSerial, Files, Now)
      /\ HeldBy(r) = HeldBy(xact[x]) /\ KeptRows(r) = KeptRows(xact[x])
  BY <1>1, OneDone
<1>3. /\ e.tid \in Tids /\ e.serial \in HeldBy(xact[x])
      /\ next \in Doomed => e.serial \notin Now.live
      /\ next # "None" => \A q \in KeptRows(xact[x]) : q.serial # e.serial
  BY TodoIs
<1>4. /\ mode = "up" /\ xact' = [xact EXCEPT ![x] = r] /\ UNCHANGED <<entry, nextSerial>>
  BY <1>1 DEF SecondPass
<1>5. CASE UNCHANGED <<log, Files>> /\ mode' \in {"up", "unexpected"}
  <2>1. \A y \in Xacts \ {x} : HeldBy(r) \cap HeldBy(xact[y]) = {}
    BY <1>2, XactFacts
  <2>2. /\ UNCHANGED <<log, nextSerial, entry>> /\ Files \subseteq Files' /\ mode' \notin Recovering
        /\ XactOK(x, r, nextSerial, Files', Now)
    BY <1>2, <1>4, <1>5 DEF Recovering
  <2> QED
    BY <1>2, <1>4, <2>1, <2>2, QuietStep
<1>6. CASE /\ next \in Doomed /\ Appended(Changed(e.tid, e.serial, "Free"))
           /\ Files' = Files \ {e.serial} /\ UNCHANGED mode
  <2>0. PICK t \in Tids, s \in HeldBy(r) : t = e.tid /\ s = e.serial
    BY <1>2, <1>3
  <2>1. PICK v : t = e.tid /\ s = e.serial /\ v = FreeTuple
    BY <2>0
  <2>2. next # "None"
    BY <1>6 DEF Doomed
  <2>3. v \in Tuple /\ v.state = "Free"
    BY <2>1, Ranks, Numbers DEF Tuple, States, FreeTuple
  <2>4. Appended([Now EXCEPT !.tab[t] = v])
    BY <1>6, <2>1 DEF Changed
  <2>5. (\A q \in KeptRows(r) : q.serial # s) /\ s \notin Now.live
    BY <1>2, <1>3, <1>6, <2>1, <2>2
  <2>6. mode' \notin Recovering /\ Files' = Files \ {s}
    BY <1>4, <1>6, <2>1 DEF Recovering
  <2> QED
    BY <1>2, <1>4, <2>1, <2>3, <2>4, <2>5, <2>6, TupleStep
<1> QED
  BY <1>4, <1>5, <1>6, DropsFile DEF SecondPass, Doomed, Files


(* The end of a pass writes nothing new. *)
LEMMA FlushOwnWrites == ASSUME NEW x \in Xacts, FlushOwn(x) PROVE Written(Now)
BY DEF FlushOwn, Written, Appended, Flushed

LEMMA EndFirstPassKeeps == ASSUME FileInv, NEW x \in Xacts, EndFirstPass(x) PROVE FileInv'
<1>1. PICK o \in Xact : o = xact[x]
  BY XactFacts
<1>2. /\ XactOK(x, o, nextSerial, Files, Now) /\ PhaseOK(o) /\ o.pass = 1
      /\ \A y \in Xacts \ {x} : HeldBy(o) \cap HeldBy(xact[y]) = {}
      /\ Now \in Image /\ ImageOK(Now, nextSerial) /\ nextSerial \in Nat /\ Now.live \subseteq Files
  BY <1>1, XactFacts DEF EndFirstPass, Files
<1> DEFINE done == {e \in o.pendingDeletes : e.nestLevel >= o.level}
           a == [o EXCEPT !.pass = 2]
           r == [a EXCEPT !.todo = done]
<1>3. /\ mode = "up" /\ UNCHANGED <<Files, mode, entry, nextSerial>>
      /\ xact' = [xact EXCEPT ![x] = r] /\ Written(Now)
  BY <1>1, FlushOwnWrites DEF EndFirstPass, Done, Files
<1>4. done \in SUBSET Pending
  BY DEF Xact
<1>5. \A e \in done : e \in o.pendingDeletes /\ e.nestLevel >= o.level
  OBVIOUS
<1> HIDE DEF done
<1>6. /\ r \in Xact /\ r.phase = o.phase /\ r.level = o.level /\ r.catalog = o.catalog
      /\ r.pendingDeletes = o.pendingDeletes /\ r.pass = 2 /\ r.todo = done
  <2>1. PICK z \in 0 .. 2 : z = 2
    OBVIOUS
  <2>2. /\ a \in Xact /\ a.phase = o.phase /\ a.level = o.level /\ a.catalog = o.catalog
        /\ a.pendingDeletes = o.pendingDeletes /\ a.pass = 2
    BY <2>1, SetPass
  <2> HIDE DEF a
  <2> QED
    BY <1>4, <2>2, SetTodo
<1> HIDE DEF r
<1>7. PICK n, fs, img : n = nextSerial /\ fs = Files /\ img = Now
  OBVIOUS
<1>8. XactOK(x, r, n, fs, img) /\ HeldBy(r) = HeldBy(o)
  <2>1. r.pass # 0 /\ o.pass # 0
    BY <1>2, <1>6
  <2> QED
    BY <1>2, <1>5, <1>6, <1>7, <2>1, SameWork
<1>9. /\ nextSerial' \in 1 .. (MaxSerial + 1) /\ nextSerial <= nextSerial'
      /\ img \in Image /\ Written(img) /\ ImageOK(img, nextSerial') /\ img.live \subseteq Files'
      /\ XactOK(x, r, nextSerial', Files', img)
      /\ \A y \in Xacts \ {x} : HeldBy(r) \cap HeldBy(xact[y]) = {}
      /\ mode' \notin Recovering
  BY <1>2, <1>3, <1>7, <1>8 DEF Recovering, FileInv, TypesOK
<1>10. \A y \in Xacts \ {x} : \A s \in HeldBy(xact[y]) : Undisturbed(s, Files, Now, Files', img)
  BY <1>3, <1>7 DEF Undisturbed
<1>11. img.live = Now.live /\ img.committed = Now.committed
  BY <1>7
<1>12. PICK z \in Xact : z = r /\ UNCHANGED entry
  BY <1>3, <1>6
<1> QED
  BY <1>3, <1>9, <1>10, <1>11, <1>12, WriteStep

(* After a subtransaction its parent's rows and entries are left, after a  *)
(* transaction nothing is.                                                 *)
LEMMA EndSecondPassKeeps == ASSUME FileInv, NEW x \in Xacts, EndSecondPass(x) PROVE FileInv'
<1>1. PICK o \in Xact : o = xact[x]
  BY XactFacts
<1>2. /\ RowsOK(o, nextSerial) /\ EntriesOK(o, nextSerial) /\ PhaseOK(o) /\ o.pass = 2
      /\ KeptOK(x, o, Files, Now) /\ LiveOK(o, Now)
      /\ \A y \in Xacts \ {x} : HeldBy(o) \cap HeldBy(xact[y]) = {}
      /\ Now \in Image /\ ImageOK(Now, nextSerial) /\ nextSerial \in Nat /\ Now.live \subseteq Files
  BY <1>1, XactFacts DEF EndSecondPass, Files
<1> DEFINE rows == {q \in o.catalog : q.nestLevel < o.level}
           list == o.pendingDeletes \ {e \in o.pendingDeletes : e.nestLevel >= o.level}
           phase == IF o.phase = "subabort" THEN "run" ELSE "done"
           a == [NewXact EXCEPT !.phase = phase]
           b == [a EXCEPT !.catalog = rows]
           r == [b EXCEPT !.pendingDeletes = list]
<1>3. /\ mode = "up" /\ UNCHANGED <<Files, mode, entry, nextSerial>>
      /\ xact' = [xact EXCEPT ![x] = r] /\ Written(Now)
  BY <1>1, FlushOwnWrites DEF EndSecondPass, Done, Files
<1>4. /\ o.phase \in {"commit", "abort", "subabort"} /\ o.level \in 1 .. 2
      /\ o.phase = "subabort" => o.level = 2
      /\ o.phase # "subabort" => o.level = 1
      /\ \A q \in o.catalog : q.nestLevel \in 1 .. 2
      /\ \A e \in o.pendingDeletes : e.nestLevel \in 1 .. 2
  BY <1>2 DEF PhaseOK, Xact, Row, Pending
<1>5. rows \in SUBSET Row /\ list \in SUBSET Pending
  BY DEF Xact
<1>6. /\ \A q \in rows : q \in o.catalog /\ q.nestLevel = 1 /\ o.phase = "subabort"
      /\ \A e \in list : e \in o.pendingDeletes /\ e.nestLevel = 1 /\ o.phase = "subabort"
      /\ \A q \in o.catalog : q.nestLevel < o.level => q \in rows
      /\ \A e \in o.pendingDeletes : e.nestLevel < o.level => e \in list
  BY <1>4
<1> HIDE DEF rows, list
<1>7. /\ r \in Xact /\ r.phase = phase /\ r.level = 1 /\ r.catalog = rows
      /\ r.pendingDeletes = list /\ r.pass = 0 /\ r.todo = {}
  <2>1. phase \in {"run", "done"}
    OBVIOUS
  <2> HIDE DEF phase
  <2>2. /\ a \in Xact /\ a.phase = phase /\ a.level = 1 /\ a.pass = 0 /\ a.todo = {}
    BY <2>1 DEF NewXact, Xact
  <2> HIDE DEF a
  <2>3. /\ b \in Xact /\ b.phase = phase /\ b.level = 1 /\ b.pass = 0 /\ b.todo = {}
        /\ b.catalog = rows
    BY <1>5, <2>2, SetCatalog
  <2> HIDE DEF b
  <2> QED
    BY <1>5, <2>3, SetPendingDeletes
<1> HIDE DEF r
<1>8. phase \in {"run", "done"} /\ (o.phase = "subabort" => phase = "run")
  OBVIOUS
<1> HIDE DEF phase
<1>9. RowsOK(r, nextSerial)
  <2>1. ASSUME NEW q \in rows
        PROVE  q.serial < nextSerial /\ q.nestLevel = 1 /\ \E e \in list : e.serial = q.serial
    <3>1. q \in o.catalog /\ q.nestLevel < o.level
      BY <1>4, <1>6
    <3> QED
      BY <1>2, <1>6, <3>1 DEF RowsOK
  <2> QED
    BY <1>2, <1>6, <1>7, <2>1 DEF RowsOK
<1>10. EntriesOK(r, nextSerial)
  <2> SUFFICES ASSUME NEW e \in list
               PROVE  /\ e.serial < nextSerial
                      /\ e.nestLevel <= 1 /\ ~e.sameTransCreateDrop
                      /\ ~e.dropForCommit => \E q \in rows :
                            ~q.deleted /\ q.serial = e.serial /\ q.nestLevel = e.nestLevel
                      /\ e.dropForCommit => \E q \in rows :
                            q.deleted /\ q.serial = e.serial /\ q.nestLevel = e.nestLevel
    BY <1>7 DEF EntriesOK
  <2>1. e \in o.pendingDeletes /\ e.nestLevel = 1 /\ o.level = 2
    BY <1>4, <1>6
  <2>2. ~e.sameTransCreateDrop /\ e.serial < nextSerial
    BY <1>2, <2>1 DEF EntriesOK
  <2>3. \A q \in o.catalog : q.nestLevel = e.nestLevel => q \in rows
    BY <1>6, <2>1
  <2> QED
    BY <1>2, <2>1, <2>2, <2>3 DEF EntriesOK
<1>11. PhaseOK(r)
  BY <1>7, <1>8 DEF PhaseOK
<1>12. LiveOK(r, Now)
  BY <1>2, <1>6, <1>7, <1>8 DEF LiveOK
<1>13. KeptOK(x, r, Files, Now)
  <2>1. ASSUME NEW q \in KeptRows(r) PROVE q \in KeptRows(o) /\ o.phase # "create"
    <3>1. q \in rows /\ ~q.deleted
      BY <1>7 DEF KeptRows
    <3> QED
      BY <1>4, <1>6, <3>1 DEF KeptRows
  <2> QED
    BY <1>2, <2>1 DEF KeptOK
<1>14. HeldBy(r) \subseteq HeldBy(o)
  BY <1>6, <1>7 DEF HeldBy
<1>15. PICK img : img = Now
  OBVIOUS
<1>16. /\ nextSerial' \in 1 .. (MaxSerial + 1) /\ nextSerial <= nextSerial'
       /\ img \in Image /\ Written(img) /\ ImageOK(img, nextSerial') /\ img.live \subseteq Files'
       /\ \A y \in Xacts \ {x} : HeldBy(r) \cap HeldBy(xact[y]) = {}
       /\ mode' \notin Recovering
  BY <1>2, <1>3, <1>14, <1>15 DEF Recovering, FileInv, TypesOK
<1>17. XactOK(x, r, nextSerial', Files', img)
  BY <1>3, <1>9, <1>10, <1>11, <1>12, <1>13, <1>15 DEF XactOK
<1>18. \A y \in Xacts \ {x} : \A s \in HeldBy(xact[y]) : Undisturbed(s, Files, Now, Files', img)
  BY <1>3, <1>15 DEF Undisturbed
<1>19. img.live = Now.live /\ img.committed = Now.committed
  BY <1>15
<1>20. PICK z \in Xact : z = r /\ UNCHANGED entry
  BY <1>3, <1>7
<1> QED
  BY <1>3, <1>16, <1>17, <1>18, <1>19, <1>20, WriteStep


-----------------------------------------------------------------------------
(* Checkpoints, crashes and recovery. *)

Blank == {NewXact, [NewXact EXCEPT !.phase = "done"]}

LEMMA BlankIs ==
    ASSUME NEW r \in Blank
    PROVE  /\ r \in Xact /\ r.phase \in {"none", "done"} /\ r.level = 1 /\ r.catalog = {}
           /\ r.pendingDeletes = {} /\ r.pass = 0 /\ r.todo = {}
           /\ HeldBy(r) = {}
           /\ \A x, n, fs, img : XactOK(x, r, n, fs, img)
<1>1. /\ r \in Xact /\ r.phase \in {"none", "done"} /\ r.level = 1 /\ r.catalog = {}
      /\ r.pendingDeletes = {} /\ r.pass = 0 /\ r.todo = {}
      /\ r.phase = "none" => r = NewXact
  BY DEF Blank, NewXact, Xact
<1>2. HeldBy(r) = {} /\ KeptRows(r) = {}
  BY <1>1 DEF HeldBy, KeptRows
<1>3. PhaseOK(r)
  BY <1>1 DEF PhaseOK
<1>4. \A n : RowsOK(r, n) /\ EntriesOK(r, n)
  BY <1>1 DEF RowsOK, EntriesOK
<1>5. \A img : LiveOK(r, img)
  BY <1>1 DEF LiveOK
<1>6. \A x, fs, img : KeptOK(x, r, fs, img)
  BY <1>2 DEF KeptOK
<1> QED
  BY <1>1, <1>2, <1>3, <1>4, <1>5, <1>6 DEF XactOK

(* A crash leaves no transaction, and recovery begins none. *)
LEMMA BlankXacts ==
    ASSUME \A x \in Xacts : xact'[x] \in Blank
    PROVE  XactInv'
<1>1. ASSUME NEW x \in Xacts
      PROVE  XactOK(x, xact'[x], nextSerial', Files', Now') /\ HeldBy(xact'[x]) = {}
  <2>1. PICK r \in Blank : r = xact'[x]
    OBVIOUS
  <2> QED
    BY <2>1, BlankIs
<1> QED
  BY <1>1 DEF XactInv

(* A step that writes an image and leaves the transactions. *)
LEMMA ImageStep ==
    ASSUME FileInv, UNCHANGED <<xact, nextSerial>>,
           \A y \in Xacts : \A s \in HeldBy(xact[y]) : Undisturbed(s, Files, Now, Files', Now')
    PROVE  XactInv'
<1>1. ASSUME NEW y \in Xacts PROVE XactOK(y, xact'[y], nextSerial', Files', Now')
  <2>1. PICK q \in Xact, n \in Nat : q = xact[y] /\ n = nextSerial
    BY XactFacts
  <2>2. PICK fs, fs2, img, img2 : fs = Files /\ fs2 = Files' /\ img = Now /\ img2 = Now'
    OBVIOUS
  <2>3. XactOK(y, q, n, fs, img) /\ n <= n
    BY <2>1, <2>2 DEF FileInv, XactInv
  <2>4. \A s \in HeldBy(q) : Undisturbed(s, fs, img, fs2, img2)
    BY <2>1, <2>2
  <2>5. XactOK(y, q, n, fs2, img2)
    BY <2>3, <2>4, OtherKeeps
  <2> QED
    BY <2>1, <2>2, <2>5
<1> QED
  BY <1>1 DEF FileInv, XactInv

(* The image from which the end records before a checkpoint are gone. *)
AtCheckpoint == [Now EXCEPT !.ends = [t \in Tids |-> NoEntry], !.ended = {}]

LEMMA AtCheckpointIs ==
    ASSUME FileInv
    PROVE  /\ AtCheckpoint \in Image /\ AtCheckpoint.tab = Now.tab
           /\ AtCheckpoint.live = Now.live /\ AtCheckpoint.committed = Now.committed
           /\ \A t \in Tids : AtCheckpoint.ends[t] = NoEntry
           /\ ImageOK(AtCheckpoint, nextSerial)
<1>1. PICK g \in Image : g = Now /\ ImageOK(g, nextSerial)
  BY NowIs DEF FileInv, LogInv
<1>2. NoEntry.serial = 0 /\ NoEntry.state = "None"
  BY DEF NoEntry
<1> DEFINE ends == [t \in Tids |-> NoEntry]
           a == [g EXCEPT !.ends = ends]
           img == [a EXCEPT !.ended = {}]
<1>3. ends \in [Tids -> {NoEntry} \cup [state : DOMAIN Rank, serial : 1 .. MaxSerial,
                                        xid : {NoXid}, updateNeeded : {FALSE}]]
      /\ \A t \in Tids : ends[t] = NoEntry
  OBVIOUS
<1> HIDE DEF ends
<1>4. /\ a \in Image /\ a.tab = g.tab /\ a.live = g.live /\ a.committed = g.committed
      /\ a.ends = ends
  BY <1>3 DEF Image
<1> HIDE DEF a
<1>5. /\ img \in Image /\ img.tab = g.tab /\ img.live = g.live /\ img.committed = g.committed
      /\ img.ends = ends
  <2>1. {} \in SUBSET Xacts
    OBVIOUS
  <2> QED
    BY <1>4, <2>1, SetEnded
<1> HIDE DEF img
<1>6. ImageOK(img, nextSerial)
  <2>1. 0 < nextSerial
    BY DEF FileInv, TypesOK
  <2> QED
    BY <1>1, <1>2, <1>3, <1>5, <2>1 DEF ImageOK, Doomed
<1>7. AtCheckpoint = img
  BY <1>1 DEF AtCheckpoint, img, a, ends
<1> QED
  BY <1>1, <1>3, <1>5, <1>6, <1>7

LEMMA CheckpointKeeps == ASSUME FileInv, Checkpoint PROVE FileInv'
<1>1. PICK img : img = AtCheckpoint
  OBVIOUS
<1>2. /\ mode = "up" /\ Flushed(img) /\ UNCHANGED <<Files, xact, mode, entry, nextSerial>>
  BY <1>1 DEF Checkpoint, AtCheckpoint, Files
<1>3. /\ img \in Image /\ img.tab = Now.tab /\ img.live = Now.live
      /\ \A t \in Tids : img.ends[t] = NoEntry
      /\ ImageOK(img, nextSerial')
  BY <1>1, <1>2, AtCheckpointIs
<1>4. nextSerial' \in Nat /\ nextSerial <= nextSerial' /\ Written(img)
  BY <1>2, Numbers DEF FileInv, Written
<1>5. img.live \subseteq Files'
  BY <1>2, <1>3, NowIs DEF FileInv, LiveKept
<1>6. log' \in Seq(Image) /\ log' # << >> /\ Now' = img /\ LogInv' /\ LiveKept'
  BY <1>2, <1>3, <1>4, <1>5, LogKeeps
<1>7. ASSUME NEW y \in Xacts, NEW s \in HeldBy(xact[y])
      PROVE  Undisturbed(s, Files, Now, Files', Now')
  <2>1. s # 0
    <3>1. xact[y] \in Xact
      BY XactFacts
    <3> QED
      BY <3>1 DEF Xact, Pending, HeldBy
  <2>2. NoEntry.serial = 0
    BY DEF NoEntry
  <2> QED
    BY <1>2, <1>3, <1>6, <2>1, <2>2 DEF Undisturbed
<1>8. XactInv'
  BY <1>2, <1>7, ImageStep
<1>9. TypesOK'
  BY <1>2, <1>6 DEF FileInv, TypesOK
<1>10. RecoveryInv'
  BY <1>2, UpIsNotRecovery DEF Recovering
<1> QED
  BY <1>6, <1>8, <1>9, <1>10 DEF FileInv


LEMMA CrashKeeps == ASSUME FileInv, Crash PROVE FileInv'
<1>1. PICK i \in DOMAIN log : log' = <<log[i]>>
  BY DEF Crash
<1>2. /\ mode' = "scan" /\ entry' = [t \in Tids |-> NoEntry] /\ UNCHANGED <<Files, nextSerial>>
      /\ xact' = [x \in Xacts |-> IF xact[x].phase = "none" THEN NewXact
                                  ELSE [NewXact EXCEPT !.phase = "done"]]
  BY DEF Crash, Files
<1>3. \A x \in Xacts : xact'[x] \in Blank
  BY <1>2 DEF Blank
<1>4. XactInv' /\ xact' \in [Xacts -> Xact]
  <2>1. \A x \in Xacts : xact'[x] \in Xact
    BY <1>3, BlankIs
  <2> QED
    BY <1>2, <1>3, <2>1, BlankXacts
<1>5. RecoveryInv'
  BY <1>2, <1>3 DEF RecoveryInv, Blank, Scanned
<1>6. PICK g \in Image : /\ g = log[i] /\ ImageOK(g, nextSerial) /\ g.live \subseteq Files
  BY DEF FileInv, LogInv, LiveKept, TypesOK
<1>7. log' = <<g>> /\ log' \in Seq(Image) /\ log' # << >> /\ DOMAIN log' = {1} /\ log'[1] = g
      /\ Len(log') = 1
  BY <1>1, <1>6
<1>8. Now' = g
  <2>1. Now' = log'[Len(log')]
    BY DEF Now, Last
  <2> QED
    BY <1>7, <2>1
<1>9. LogInv' /\ LiveKept'
  BY <1>2, <1>6, <1>7, <1>8 DEF LogInv, LiveKept
<1>10. TypesOK'
  <2>1. NoEntry \in Entry
    BY Numbers DEF NoEntry, Entry
  <2>2. entry' \in [Tids -> Entry]
    BY <1>2, <2>1
  <2> QED
    BY <1>2, <1>4, <1>7, <2>2 DEF FileInv, TypesOK
<1> QED
  BY <1>4, <1>5, <1>9, <1>10 DEF FileInv

(* A step of the recovery that leaves the log. *)
LEMMA QuietRecovery ==
    ASSUME FileInv, mode \in Recovering, UNCHANGED <<log, Files, xact, nextSerial>>,
           entry' \in [Tids -> Entry],
           mode' \in Scanned => \A t \in Tids :
              /\ entry'[t].serial < nextSerial
              /\ entry'[t].state \in Doomed => entry'[t].serial \notin Now.live
              /\ entry'[t].updateNeeded => entry'[t].state \notin {"None", "CreatePending"}
              /\ entry'[t].state = "CreatePending" => entry'[t].serial # 0
              /\ entry'[t].state = "CreatePending" /\ entry'[t].serial \in Now.live =>
                    entry'[t].xid \in Now.committed
    PROVE  FileInv'
<1>1. \A x \in Xacts : xact[x] \in Blank
  BY DEF FileInv, RecoveryInv, Blank
<1>2. XactInv'
  BY <1>1, BlankXacts
<1>3. Now' = Now /\ LogInv' /\ LiveKept'
  <2>1. Files \subseteq Files'
    OBVIOUS
  <2> QED
    BY <2>1, LogStays
<1>4. RecoveryInv'
  BY <1>1, <1>3 DEF RecoveryInv, Blank
<1>5. TypesOK'
  BY DEF FileInv, TypesOK
<1> QED
  BY <1>2, <1>3, <1>4, <1>5 DEF FileInv

(* A step of the recovery that writes an image. *)
LEMMA WriteRecovery ==
    ASSUME FileInv, mode \in Recovering, UNCHANGED <<xact, nextSerial>>,
           entry' \in [Tids -> Entry],
           NEW img \in Image, Written(img), ImageOK(img, nextSerial),
           img.live = Now.live, img.committed = Now.committed, Now.live \subseteq Files',
           mode' \in Scanned => \A t \in Tids :
              /\ entry'[t].serial < nextSerial
              /\ entry'[t].state \in Doomed => entry'[t].serial \notin Now.live
              /\ entry'[t].updateNeeded => entry'[t].state \notin {"None", "CreatePending"}
              /\ entry'[t].state = "CreatePending" => entry'[t].serial # 0
              /\ entry'[t].state = "CreatePending" /\ entry'[t].serial \in Now.live =>
                    entry'[t].xid \in Now.committed
    PROVE  FileInv'
<1>1. \A x \in Xacts : xact[x] \in Blank
  BY DEF FileInv, RecoveryInv, Blank
<1>2. XactInv'
  BY <1>1, BlankXacts
<1>3. nextSerial' \in Nat /\ nextSerial <= nextSerial' /\ ImageOK(img, nextSerial')
      /\ img.live \subseteq Files'
  BY Numbers DEF FileInv
<1>4. log' \in Seq(Image) /\ log' # << >> /\ Now' = img /\ LogInv' /\ LiveKept'
  BY <1>3, LogKeeps
<1>5. RecoveryInv'
  BY <1>1, <1>4 DEF RecoveryInv, Blank
<1>6. TypesOK'
  BY <1>4 DEF FileInv, TypesOK
<1> QED
  BY <1>2, <1>4, <1>5, <1>6 DEF FileInv

EndRec == [state : DOMAIN Rank, serial : 1 .. MaxSerial, xid : {NoXid}, updateNeeded : {FALSE}]

LEMMA SetState ==
    ASSUME NEW e \in Entry, NEW v \in {"None"} \cup DOMAIN Rank
    PROVE  LET r == [e EXCEPT !.state = v]
           IN  /\ r \in Entry /\ r.state = v /\ r.serial = e.serial /\ r.xid = e.xid
               /\ r.updateNeeded = e.updateNeeded
BY DEF Entry

(* What the scan takes is what the tuple or the end record says. *)
LEMMA ScanEntryIs ==
    ASSUME NEW end \in {NoEntry} \cup EndRec, NEW tuple \in Tuple
    PROVE  LET s == ScanEntry(end, tuple)
           IN  /\ s \in Entry
               /\ \/ s.state = "Free" /\ s.serial = end.serial /\ ~s.updateNeeded
                  \/ /\ s.state = tuple.state /\ s.serial = tuple.serial /\ s.xid = tuple.xid
                     /\ ~s.updateNeeded
                  \/ /\ s.state = end.state /\ s.serial = end.serial /\ end # NoEntry
<1> DEFINE fromTuple == [NoEntry EXCEPT !.state = tuple.state, !.serial = tuple.serial,
                                        !.xid = tuple.xid]
           freed == [end EXCEPT !.state = "Free"]
           marked == [end EXCEPT !.updateNeeded = Rank[end.state] > Rank[tuple.state]]
<1>1. /\ fromTuple \in Entry /\ fromTuple.state = tuple.state /\ fromTuple.serial = tuple.serial
      /\ fromTuple.xid = tuple.xid /\ fromTuple.updateNeeded = FALSE
  BY DEF NoEntry, Tuple, Entry
<1>2. /\ NoEntry \in Entry /\ NoEntry.updateNeeded = FALSE
      /\ [NoEntry EXCEPT !.state = "Free"] \in Entry
      /\ [NoEntry EXCEPT !.state = "Free"].state = "Free"
      /\ [NoEntry EXCEPT !.state = "Free"].serial = NoEntry.serial
      /\ [NoEntry EXCEPT !.state = "Free"].updateNeeded = FALSE
  <2>1. NoEntry \in Entry
    BY Numbers DEF NoEntry, Entry
  <2>2. "Free" \in DOMAIN Rank
    BY Ranks DEF States
  <2>3. NoEntry.updateNeeded = FALSE /\ NoEntry.serial = 0
    BY DEF NoEntry
  <2> QED
    BY <2>1, <2>2, <2>3, SetState
<1>3. ASSUME end \in EndRec
      PROVE  /\ end \in Entry /\ end.updateNeeded = FALSE
             /\ freed \in Entry /\ freed.state = "Free" /\ freed.serial = end.serial
             /\ freed.updateNeeded = FALSE
             /\ marked \in Entry /\ marked.state = end.state /\ marked.serial = end.serial
  <2>1. \A b \in BOOLEAN : /\ [end EXCEPT !.updateNeeded = b] \in Entry
                           /\ [end EXCEPT !.updateNeeded = b].state = end.state
                           /\ [end EXCEPT !.updateNeeded = b].serial = end.serial
    BY <1>3, Numbers DEF EndRec, Entry
  <2>2. (Rank[end.state] > Rank[tuple.state]) \in BOOLEAN
    OBVIOUS
  <2>3. marked \in Entry /\ marked.state = end.state /\ marked.serial = end.serial
    BY <2>1, <2>2
  <2> HIDE DEF marked
  <2>4. end.updateNeeded = FALSE
    BY <1>3 DEF EndRec
  <2>5. end = [end EXCEPT !.updateNeeded = end.updateNeeded]
    BY <1>3 DEF EndRec
  <2>6. end \in Entry
    BY <2>1, <2>4, <2>5
  <2>7. "Free" \in DOMAIN Rank
    BY Ranks DEF States
  <2>8. freed \in Entry /\ freed.state = "Free" /\ freed.serial = end.serial
        /\ freed.updateNeeded = end.updateNeeded
    BY <2>6, <2>7, SetState
  <2> HIDE DEF freed
  <2> QED
    BY <2>3, <2>4, <2>6, <2>8
<1>4. NoEntry \notin EndRec
  BY Numbers DEF NoEntry, EndRec
<1>5. CASE tuple.state = "Free"
  <2>1. ScanEntry(end, tuple) = freed
    BY <1>5 DEF ScanEntry
  <2> QED
    BY <1>2, <1>3, <2>1
<1>6. CASE tuple.state # "Free" /\ end = NoEntry
  <2>1. ScanEntry(end, tuple) = fromTuple
    BY <1>6 DEF ScanEntry
  <2> HIDE DEF fromTuple
  <2> QED
    BY <1>1, <2>1
<1>7. CASE tuple.state # "Free" /\ end # NoEntry
  <2>1. ScanEntry(end, tuple) \in {fromTuple, end, marked}
    BY <1>7 DEF ScanEntry, Obsolete
  <2>2. end \in EndRec
    BY <1>7
  <2> HIDE DEF fromTuple, marked
  <2> QED
    BY <1>1, <1>3, <1>7, <2>1, <2>2
<1> QED
  BY <1>5, <1>6, <1>7


LEMMA ScanKeeps == ASSUME FileInv, PersistentRecovery_Scan PROVE FileInv'
<1>1. /\ mode = "scan" /\ mode' = "abort" /\ UNCHANGED <<log, Files, xact, nextSerial>>
      /\ entry' = [t \in Tids |-> ScanEntry(Now.ends[t], Now.tab[t])]
  BY DEF PersistentRecovery_Scan, Files
<1>2. Now \in Image /\ ImageOK(Now, nextSerial)
  BY NowIs DEF FileInv, LogInv
<1>3. ASSUME NEW t \in Tids
      PROVE  /\ entry'[t] \in Entry
             /\ entry'[t].serial < nextSerial
             /\ entry'[t].state \in Doomed => entry'[t].serial \notin Now.live
             /\ entry'[t].updateNeeded => entry'[t].state \notin {"None", "CreatePending"}
             /\ entry'[t].state = "CreatePending" => entry'[t].serial # 0
             /\ entry'[t].state = "CreatePending" /\ entry'[t].serial \in Now.live =>
                   entry'[t].xid \in Now.committed
  <2>1. PICK end \in {NoEntry} \cup EndRec, tuple \in Tuple : end = Now.ends[t] /\ tuple = Now.tab[t]
    BY <1>2 DEF Image, EndRec, Tuple
  <2>2. PICK s : s = ScanEntry(end, tuple)
    OBVIOUS
  <2>3. entry'[t] = s
    BY <1>1, <2>1, <2>2
  <2>4. /\ s \in Entry
        /\ \/ s.state = "Free" /\ s.serial = end.serial /\ ~s.updateNeeded
           \/ /\ s.state = tuple.state /\ s.serial = tuple.serial /\ s.xid = tuple.xid
              /\ ~s.updateNeeded
           \/ /\ s.state = end.state /\ s.serial = end.serial /\ end # NoEntry
    BY <2>2, ScanEntryIs
  <2>5. end # NoEntry => end.state # "None"
    BY Ranks DEF EndRec, States
  <2>6. /\ tuple.serial < nextSerial /\ end.serial < nextSerial
        /\ tuple.state \in Doomed => tuple.serial \notin Now.live
        /\ end.state \in Doomed => end.serial \notin Now.live
        /\ end.state # "CreatePending"
        /\ tuple.state = "CreatePending" => tuple.serial # 0
        /\ tuple.state = "CreatePending" /\ tuple.serial \in Now.live =>
              tuple.xid \in Now.committed
    BY <1>2, <2>1 DEF ImageOK
  <2>7. "Free" \notin Doomed
    BY DEF Doomed
  <2>8. CASE s.state = "Free" /\ s.serial = end.serial /\ ~s.updateNeeded
    BY <2>3, <2>4, <2>6, <2>7, <2>8
  <2>9. CASE /\ s.state = tuple.state /\ s.serial = tuple.serial /\ s.xid = tuple.xid
             /\ ~s.updateNeeded
    BY <2>3, <2>4, <2>6, <2>9
  <2>10. CASE s.state = end.state /\ s.serial = end.serial /\ end # NoEntry
    BY <2>3, <2>4, <2>5, <2>6, <2>10
  <2> QED
    BY <2>4, <2>8, <2>9, <2>10
<1>4. entry' \in [Tids -> Entry]
  BY <1>1, <1>3
<1>5. mode \in Recovering
  BY <1>1 DEF Recovering
<1> QED
  BY <1>1, <1>3, <1>4, <1>5, QuietRecovery

LEMMA RecoveryFacts ==
    ASSUME FileInv, mode \in Scanned
    PROVE  /\ mode \in Recovering /\ Now \in Image /\ ImageOK(Now, nextSerial)
           /\ Now.live \subseteq Files /\ nextSerial \in Nat /\ 0 < nextSerial
           /\ entry \in [Tids -> Entry]
           /\ \A t \in Tids :
              /\ entry[t].serial < nextSerial
              /\ entry[t].state \in Doomed => entry[t].serial \notin Now.live
              /\ entry[t].updateNeeded => entry[t].state \notin {"None", "CreatePending"}
              /\ entry[t].state = "CreatePending" => entry[t].serial # 0
              /\ entry[t].state = "CreatePending" /\ entry[t].serial \in Now.live =>
                    entry[t].xid \in Now.committed
<1>1. mode \in Recovering
  BY DEF Scanned, Recovering
<1>2. Now \in Image /\ ImageOK(Now, nextSerial) /\ Now.live \subseteq Files
  BY NowIs DEF FileInv, LogInv, LiveKept
<1>3. nextSerial \in Nat /\ 0 < nextSerial /\ entry \in [Tids -> Entry]
  BY Numbers DEF FileInv, TypesOK
<1> QED
  BY <1>1, <1>2, <1>3 DEF FileInv, RecoveryInv

LEMMA NextRecoveryStepKeeps == ASSUME FileInv, NextRecoveryStep PROVE FileInv'
<1>1. /\ mode \in Scanned /\ UNCHANGED <<log, Files, xact, nextSerial, entry>>
  BY DEF NextRecoveryStep, Scanned, Files
<1>2. /\ mode \in Recovering /\ entry' \in [Tids -> Entry]
      /\ \A t \in Tids :
              /\ entry'[t].serial < nextSerial
              /\ entry'[t].state \in Doomed => entry'[t].serial \notin Now.live
              /\ entry'[t].updateNeeded => entry'[t].state \notin {"None", "CreatePending"}
              /\ entry'[t].state = "CreatePending" => entry'[t].serial # 0
              /\ entry'[t].state = "CreatePending" /\ entry'[t].serial \in Now.live =>
                    entry'[t].xid \in Now.committed
  BY <1>1, RecoveryFacts
<1> QED
  BY <1>1, <1>2, QuietRecovery

LEMMA EndOfRecoveryKeeps == ASSUME FileInv, EndOfRecovery PROVE FileInv'
<1>1. PICK img : img = AtCheckpoint
  OBVIOUS
<1>2. /\ mode = "drop" /\ mode' = "up" /\ Flushed(img) /\ UNCHANGED <<Files, xact, nextSerial>>
      /\ entry' = [t \in Tids |-> NoEntry]
  BY <1>1 DEF EndOfRecovery, AtCheckpoint, Files
<1>3. NoEntry \in Entry
  BY Numbers DEF NoEntry, Entry
<1>4. entry' \in [Tids -> Entry]
  BY <1>2, <1>3
<1>5. mode \in Scanned
  BY <1>2 DEF Scanned
<1>6. mode \in Recovering /\ Now.live \subseteq Files'
  BY <1>2, <1>5, RecoveryFacts
<1>7. /\ img \in Image /\ img.live = Now.live /\ img.committed = Now.committed
      /\ ImageOK(img, nextSerial) /\ Written(img)
  BY <1>1, <1>2, AtCheckpointIs DEF Written
<1>8. mode' \notin Scanned
  BY <1>2 DEF Scanned
<1> QED
  BY <1>2, <1>4, <1>6, <1>7, <1>8, WriteRecovery

(* An update writes the state the scan found due, and dooms nothing live.  *)
LEMMA UpdateKeeps ==
    ASSUME FileInv, NEW t \in Tids, PersistentRecovery_Update(t) PROVE FileInv'
<1>1. /\ mode = "update" /\ entry[t].updateNeeded
      /\ StateChange(t, entry[t].serial, entry[t].state)
      /\ entry' = [entry EXCEPT ![t].updateNeeded = FALSE]
      /\ UNCHANGED <<xact, nextSerial>>
  BY DEF PersistentRecovery_Update
<1>2. mode \in Scanned
  BY <1>1 DEF Scanned
<1>3. PICK e \in Entry : e = entry[t]
  BY <1>2, RecoveryFacts
<1>4. /\ e.serial < nextSerial /\ (e.state \in Doomed => e.serial \notin Now.live)
      /\ e.state \notin {"None", "CreatePending"}
  BY <1>1, <1>2, <1>3, RecoveryFacts
<1>5. PICK f : f = [e EXCEPT !.updateNeeded = FALSE]
  OBVIOUS
<1>6. /\ f \in Entry /\ f.state = e.state /\ f.serial = e.serial /\ ~f.updateNeeded
  BY <1>5 DEF Entry
<1>7. entry'[t] = f /\ entry' \in [Tids -> Entry] /\ \A u \in Tids \ {t} : entry'[u] = entry[u]
  <2>1. entry \in [Tids -> Entry]
    BY <1>2, RecoveryFacts
  <2>2. entry' = [entry EXCEPT ![t] = f]
    BY <1>1, <1>3, <1>5
  <2> QED
    BY <1>6, <2>1, <2>2
<1>8. \A u \in Tids :
         /\ entry'[u].serial < nextSerial
         /\ entry'[u].state \in Doomed => entry'[u].serial \notin Now.live
         /\ entry'[u].updateNeeded => entry'[u].state \notin {"None", "CreatePending"}
         /\ entry'[u].state = "CreatePending" => entry'[u].serial # 0
         /\ entry'[u].state = "CreatePending" /\ entry'[u].serial \in Now.live =>
               entry'[u].xid \in Now.committed
  BY <1>2, <1>4, <1>6, <1>7, RecoveryFacts
<1>9. mode \in Recovering /\ Now \in Image /\ ImageOK(Now, nextSerial) /\ Now.live \subseteq Files
      /\ 0 < nextSerial
  BY <1>2, RecoveryFacts
<1>10. CASE UNCHANGED <<log, Files>>
  BY <1>1, <1>7, <1>8, <1>9, <1>10, QuietRecovery
<1>11. CASE Appended(Changed(t, e.serial, e.state)) /\ Files' = Files
  <2>1. PICK v : v = IF e.state = "Free" THEN FreeTuple
                     ELSE [state |-> e.state, serial |-> e.serial, xid |-> NoXid]
    OBVIOUS
  <2>2. e.state \in DOMAIN Rank /\ e.serial \in 0 .. MaxSerial
    BY <1>4 DEF Entry
  <2>3. /\ v \in Tuple /\ v.serial < nextSerial /\ v.state = e.state
        /\ v.state \in Doomed => v.serial \notin Now.live
    <3>1. CASE e.state = "Free"
      BY <1>9, <2>1, <2>2, <3>1, Numbers DEF FreeTuple, Tuple, Doomed
    <3>2. CASE e.state # "Free"
      <4>1. v = [state |-> e.state, serial |-> e.serial, xid |-> NoXid]
        BY <2>1, <3>2
      <4> QED
        BY <1>4, <2>2, <4>1 DEF Tuple
    <3> QED
      BY <3>1, <3>2
  <2>4. PICK img : img = [Now EXCEPT !.tab[t] = v]
    OBVIOUS
  <2>5. /\ img \in Image /\ img.ends = Now.ends
        /\ img.live = Now.live /\ img.committed = Now.committed
        /\ img.tab[t] = v /\ \A u \in Tids \ {t} : img.tab[u] = Now.tab[u]
    BY <1>9, <2>3, <2>4, SetTab
  <2>6. ImageOK(img, nextSerial)
    BY <1>4, <1>9, <2>3, <2>5 DEF ImageOK
  <2>7. Written(img)
    BY <1>11, <2>1, <2>4 DEF Written, Changed
  <2> QED
    BY <1>1, <1>7, <1>8, <1>9, <1>11, <2>5, <2>6, <2>7, WriteRecovery
<1> QED
  BY <1>1, <1>3, <1>10, <1>11 DEF StateChange, Down, Files

LEMMA DropKeeps ==
    ASSUME FileInv, NEW t \in Tids, PersistentRecovery_Drop(t),
           Verified(t, entry[t].serial, "Free")
    PROVE  FileInv'
<1>1. /\ mode = "drop" /\ entry[t].state \in Doomed
      /\ DropObject(t, entry[t].serial)
      /\ entry' = [entry EXCEPT ![t].state = "Free"]
      /\ UNCHANGED <<xact, nextSerial>>
  BY DEF PersistentRecovery_Drop, Doomed
<1>2. mode \in Scanned
  BY <1>1 DEF Scanned
<1>3. PICK e \in Entry : e = entry[t]
  BY <1>2, RecoveryFacts
<1>4. /\ e.serial < nextSerial /\ e.serial \notin Now.live
      /\ e.updateNeeded => e.state \notin {"None", "CreatePending"}
  BY <1>1, <1>2, <1>3, RecoveryFacts
<1>5. PICK f : f = [e EXCEPT !.state = "Free"]
  OBVIOUS
<1>6. /\ f \in Entry /\ f.state = "Free" /\ f.serial = e.serial
  <2>1. "Free" \in {"None"} \cup DOMAIN Rank
    BY Ranks DEF States
  <2> QED
    BY <1>5, <2>1, SetState
<1>7. entry'[t] = f /\ entry' \in [Tids -> Entry] /\ \A u \in Tids \ {t} : entry'[u] = entry[u]
  <2>1. entry \in [Tids -> Entry]
    BY <1>2, RecoveryFacts
  <2>2. entry' = [entry EXCEPT ![t] = f]
    BY <1>1, <1>3, <1>5
  <2> QED
    BY <1>6, <2>1, <2>2
<1>8. \A u \in Tids :
         /\ entry'[u].serial < nextSerial
         /\ entry'[u].state \in Doomed => entry'[u].serial \notin Now.live
         /\ entry'[u].updateNeeded => entry'[u].state \notin {"None", "CreatePending"}
         /\ entry'[u].state = "CreatePending" => entry'[u].serial # 0
         /\ entry'[u].state = "CreatePending" /\ entry'[u].serial \in Now.live =>
               entry'[u].xid \in Now.committed
  BY <1>2, <1>4, <1>6, <1>7, RecoveryFacts
<1>9. mode \in Recovering /\ Now \in Image /\ ImageOK(Now, nextSerial) /\ Now.live \subseteq Files
      /\ 0 < nextSerial
  BY <1>2, RecoveryFacts
<1>10. Appended(Changed(t, e.serial, "Free")) /\ Files' = Files \ {e.serial} /\ UNCHANGED mode
  BY <1>1, <1>3, DropsFile
<1>11. PICK v : v = FreeTuple
  OBVIOUS
<1>12. v \in Tuple /\ v.serial = 0 /\ v.state = "Free"
  BY <1>11, Ranks, Numbers DEF FreeTuple, Tuple, States
<1>13. PICK img : img = [Now EXCEPT !.tab[t] = v]
  OBVIOUS
<1>14. /\ img \in Image /\ img.ends = Now.ends
      /\ img.live = Now.live /\ img.committed = Now.committed
      /\ img.tab[t] = v /\ \A u \in Tids \ {t} : img.tab[u] = Now.tab[u]
  BY <1>9, <1>12, <1>13, SetTab
<1>15. ImageOK(img, nextSerial)
  BY <1>9, <1>12, <1>14 DEF ImageOK, Doomed
<1>16. Written(img) /\ Now.live \subseteq Files'
  BY <1>4, <1>9, <1>10, <1>11, <1>13 DEF Written, Changed
<1> QED
  BY <1>1, <1>7, <1>8, <1>9, <1>14, <1>15, <1>16, WriteRecovery


(* The recovery aborts only a transaction that did not commit. *)
LEMMA CrashAbortKeeps ==
    ASSUME FileInv, NEW x \in Xacts, PersistentRecovery_CrashAbort(x) PROVE FileInv'
<1>1. mode = "abort" /\ UNCHANGED <<xact, nextSerial>>
  BY DEF PersistentRecovery_CrashAbort
<1>2. mode \in Scanned
  BY <1>1 DEF Scanned
<1>3. mode \in Recovering /\ Now \in Image /\ ImageOK(Now, nextSerial) /\ Now.live \subseteq Files
      /\ 0 < nextSerial /\ entry \in [Tids -> Entry]
  BY <1>2, RecoveryFacts
<1>4. CASE x \in Now.committed
  <2>1. UNCHANGED <<log, Files, entry>> /\ mode' = "fatal"
    BY <1>4 DEF PersistentRecovery_CrashAbort, Down, Files
  <2>2. mode' \notin Scanned /\ entry' \in [Tids -> Entry]
    BY <1>3, <2>1 DEF Scanned
  <2> QED
    BY <1>1, <1>3, <2>1, <2>2, QuietRecovery
<1>5. CASE x \notin Now.committed
  <2> DEFINE U == Unfinished(x)
             new(t) == [NoEntry EXCEPT !.state = "AbortingCreate", !.serial = entry[t].serial]
             ends == [t \in Tids |-> IF t \in U THEN new(t) ELSE Now.ends[t]]
             a == [Now EXCEPT !.ended = Now.ended \cup {x}]
             img == [a EXCEPT !.ends = ends]
  <2>1. /\ Appended(img) /\ UNCHANGED <<mode, Files>>
        /\ entry' = [t \in Tids |-> IF t \in U
                       THEN [entry[t] EXCEPT !.state = "AbortingCreate", !.updateNeeded = TRUE]
                       ELSE entry[t]]
    BY <1>5 DEF PersistentRecovery_CrashAbort, Files
  <2>2. ASSUME NEW t \in U
        PROVE  /\ t \in Tids /\ entry[t].serial \in 1 .. MaxSerial /\ entry[t].serial < nextSerial
               /\ entry[t].serial \notin Now.live
    <3>1. t \in Tids /\ entry[t].state = "CreatePending" /\ entry[t].xid = x
      BY DEF Unfinished
    <3>2. entry[t].serial \in 0 .. MaxSerial
      BY <1>3, <3>1 DEF Entry
    <3> QED
      BY <1>2, <1>5, <3>1, <3>2, RecoveryFacts
  <2>3. ASSUME NEW t \in U
        PROVE  new(t) \in EndRec /\ new(t).serial = entry[t].serial /\ new(t).state = "AbortingCreate"
    <3>1. PICK s \in 1 .. MaxSerial : s = entry[t].serial
      BY <2>2
    <3>2. new(t) = [NoEntry EXCEPT !.state = "AbortingCreate", !.serial = s]
      BY <3>1
    <3>3. "AbortingCreate" \in DOMAIN Rank
      BY Ranks DEF States
    <3> QED
      BY <3>1, <3>2, <3>3 DEF EndRec, NoEntry
  <2> HIDE DEF new
  <2>5. Now.ends \in [Tids -> {NoEntry} \cup EndRec]
    BY <1>3 DEF Image, EndRec
  <2>6. \A t \in Tids : ends[t] = IF t \in U THEN new(t) ELSE Now.ends[t]
    OBVIOUS
  <2>7. ends \in [Tids -> {NoEntry} \cup EndRec]
    BY <2>3, <2>5
  <2> HIDE DEF ends
  <2>8. /\ img \in Image /\ img.tab = Now.tab /\ img.live = Now.live
        /\ img.committed = Now.committed /\ img.ends = ends
    <3>1. PICK g \in Image : g = Now
      BY <1>3
    <3>2. Now.ended \cup {x} \in SUBSET Xacts
      BY <3>1 DEF Image
    <3>3. /\ a \in Image /\ a.tab = Now.tab /\ a.live = Now.live /\ a.committed = Now.committed
      BY <3>1, <3>2, SetEnded
    <3> HIDE DEF a
    <3> QED
      BY <2>7, <3>3 DEF Image, EndRec
  <2>9. ImageOK(img, nextSerial)
    <3>1. ASSUME NEW t \in Tids
          PROVE  /\ img.ends[t].serial < nextSerial
                 /\ img.ends[t].state \in Doomed => img.ends[t].serial \notin img.live
                 /\ img.ends[t].state # "CreatePending"
      <4>1. CASE t \in U
        BY <2>2, <2>3, <2>6, <2>8, <4>1
      <4>2. CASE t \notin U
        BY <1>3, <2>6, <2>8, <4>2 DEF ImageOK
      <4> QED
        BY <4>1, <4>2
    <3> HIDE DEF img
    <3> QED
      BY <1>3, <2>8, <3>1 DEF ImageOK
  <2>10. ASSUME NEW t \in Tids
         PROVE  /\ entry'[t] \in Entry
                /\ entry'[t].serial < nextSerial
                /\ entry'[t].state \in Doomed => entry'[t].serial \notin Now.live
                /\ entry'[t].updateNeeded => entry'[t].state \notin {"None", "CreatePending"}
                /\ entry'[t].state = "CreatePending" => entry'[t].serial # 0
                /\ entry'[t].state = "CreatePending" /\ entry'[t].serial \in Now.live =>
                      entry'[t].xid \in Now.committed
    <3>1. CASE t \notin U
      <4>1. entry'[t] = entry[t]
        BY <2>1, <3>1
      <4> QED
        BY <1>2, <4>1, RecoveryFacts
    <3>2. CASE t \in U
      <4>1. PICK e \in Entry : e = entry[t]
        BY <1>3
      <4> DEFINE b == [e EXCEPT !.state = "AbortingCreate"]
                 c == [b EXCEPT !.updateNeeded = TRUE]
      <4>2. entry'[t] = c
        BY <2>1, <3>2, <4>1
      <4>3. b \in Entry /\ b.state = "AbortingCreate" /\ b.serial = e.serial
        <5>1. "AbortingCreate" \in {"None"} \cup DOMAIN Rank
          BY Ranks DEF States
        <5> QED
          BY <5>1, SetState
      <4> HIDE DEF b
      <4>4. c \in Entry /\ c.state = "AbortingCreate" /\ c.serial = e.serial
        BY <4>3 DEF Entry
      <4> HIDE DEF c
      <4> QED
        BY <2>2, <3>2, <4>1, <4>2, <4>4
    <3> QED
      BY <3>1, <3>2
  <2>11. entry' \in [Tids -> Entry]
    BY <2>1, <2>10
  <2>12. Written(img) /\ Now.live \subseteq Files'
    BY <1>3, <2>1 DEF Written
  <2>13. PICK g \in Image : g = img
    BY <2>8
  <2> HIDE DEF img
  <2> QED
    BY <1>1, <1>3, <2>8, <2>9, <2>10, <2>11, <2>12, <2>13, WriteRecovery
<1> QED
  BY <1>4, <1>5

-----------------------------------------------------------------------------
LEMMA FileInvInit == Init => FileInv
<1> SUFFICES ASSUME Init PROVE FileInv
  OBVIOUS
<1> DEFINE img == [tab |-> [t \in Tids |-> FreeTuple], ends |-> [t \in Tids |-> NoEntry],
                   ended |-> {}, live |-> {}, committed |-> {}]
<1>1. /\ log = <<img>> /\ xact = [x \in Xacts |-> NewXact] /\ mode = "up"
      /\ entry = [t \in Tids |-> NoEntry] /\ nextSerial = 1
  BY DEF Init
<1>2. FreeTuple \in Tuple /\ FreeTuple.serial = 0 /\ FreeTuple.state = "Free"
  BY Ranks, Numbers DEF FreeTuple, Tuple, States
<1>3. NoEntry \in Entry /\ NoEntry.serial = 0 /\ NoEntry.state = "None"
  BY Numbers DEF NoEntry, Entry
<1>4. img \in Image /\ img.live = {} /\ \A t \in Tids : img.tab[t] = FreeTuple /\ img.ends[t] = NoEntry
  <2> HIDE DEF FreeTuple, NoEntry
  <2> QED
    BY <1>2 DEF Image, Tuple
<1> HIDE DEF img
<1>5. log \in Seq(Image) /\ log # << >> /\ DOMAIN log = {1} /\ log[1] = img /\ Len(log) = 1
  BY <1>1, <1>4
<1>6. Now = img
  BY <1>5 DEF Now, Last
<1>7. ImageOK(img, 1)
  BY <1>2, <1>3, <1>4 DEF ImageOK, Doomed
<1>8. LogInv /\ LiveKept
  BY <1>1, <1>4, <1>5, <1>6, <1>7 DEF LogInv, LiveKept
<1>9. NewXact \in Blank
  BY DEF Blank
<1>10. NewXact \in Xact /\ HeldBy(NewXact) = {} /\ \A x, n, fs, g : XactOK(x, NewXact, n, fs, g)
  BY <1>9, BlankIs
<1>11. XactInv
  <2>1. \A x \in Xacts : xact[x] = NewXact
    BY <1>1
  <2> QED
    BY <1>10, <2>1 DEF XactInv
<1>12. RecoveryInv
  BY <1>1 DEF RecoveryInv, Recovering, Scanned
<1>13. TypesOK
  <2>1. entry \in [Tids -> Entry]
    BY <1>1, <1>3
  <2>2. xact \in [Xacts -> Xact]
    BY <1>1, <1>10
  <2>3. nextSerial \in 1 .. (MaxSerial + 1)
    BY <1>1, Numbers
  <2> QED
    BY <1>5, <2>1, <2>2, <2>3 DEF TypesOK
<1> QED
  BY <1>8, <1>11, <1>12, <1>13 DEF FileInv

LEMMA FileInvStutters == FileInv /\ UNCHANGED vars => FileInv'
<1> SUFFICES ASSUME FileInv, UNCHANGED vars PROVE FileInv'
  OBVIOUS
<1>1. UNCHANGED <<log, Files, xact, mode, entry, nextSerial>>
  BY DEF vars, Files
<1>2. Now' = Now
  BY <1>1 DEF Now
<1>3. TypesOK' /\ LogInv' /\ LiveKept'
  BY <1>1, <1>2 DEF FileInv, TypesOK, LogInv, LiveKept
<1>4. XactInv'
  BY <1>1, <1>2 DEF FileInv, XactInv
<1>5. RecoveryInv'
  BY <1>1, <1>2 DEF FileInv, RecoveryInv
<1> QED
  BY <1>3, <1>4, <1>5 DEF FileInv

-----------------------------------------------------------------------------
(***************************************************************************)
(* No change of a tuple finds the unexpected, and while the system is up   *)
(* nothing is left over but what could not be removed.                     *)
(*                                                                         *)
(* On top of FileInv the invariant follows each object through the         *)
(* transaction that holds it, through each image of the log and through    *)
(* the recovery.  The operators take the images (L), the last of them      *)
(* (img), the files (fs) and the overtaken objects (ov).                   *)
(***************************************************************************)
Images == {log[i] : i \in DOMAIN log}

Serials(img) == {img.tab[t].serial : t \in Tids}

(* The tuple at t and the end record for it: recovery finds a state it can *)
(* go on from, an ended creator has left a record of every object, and     *)
(* what the catalog says follows from the two, unless a checkpoint took    *)
(* the record away.                                                        *)
TupleSettled(img, t, ov) ==
    LET u == img.tab[t]
        d == img.ends[t]
    IN  /\ u.state = "Free" <=> u.serial = 0
        /\ d.state # "Free"
        /\ u.state # "Free" =>
              \/ d.serial < u.serial
              \/ d.serial = u.serial /\ (u.state = d.state \/ u.state \in Expected[d.state])
        /\ u.state = "CreatePending" =>
              /\ u.xid \in Xacts
              /\ u.xid \in img.ended => d.serial = u.serial
              /\ u.xid \in img.committed => d.serial = u.serial \/ u.serial \in ov
        /\ u.state = "Created" /\ u.serial \notin img.live =>
              (d.serial = u.serial /\ d.state = "DropPending") \/ u.serial \in ov
        /\ d.state = "Created" /\ d.serial = u.serial => u.serial \in img.live

ImageSettled(img, fs, ov) ==
    /\ \A t \in Tids : TupleSettled(img, t, ov)
    /\ \A t, u \in Tids : img.tab[t].serial = img.tab[u].serial /\ img.tab[t].serial # 0 => t = u
    /\ fs \subseteq Serials(img) \ {0}

(* All images of the log show the object s at t in state st, or as created *)
(* by x.                                                                   *)
Shows(L, t, st, s) == \A g \in L : g.tab[t].state = st /\ g.tab[t].serial = s
ShowsNew(L, t, s, x) == Shows(L, t, "CreatePending", s) /\ \A g \in L : g.tab[t].xid = x

TargetOf(r, e) == Target(e, r.phase = "commit")

(* Entries whose object the transaction has not begun to change. *)
Untouched(r, e) == InWork(r) \/ e.nestLevel < r.level \/ TargetOf(r, e) = "None"

UntouchedOK(x, r, e, L, img) ==
    \/ ~e.dropForCommit /\ ShowsNew(L, e.tid, e.serial, x)
    \/ e.dropForCommit /\ \E c \in r.pendingDeletes :
          Untouched(r, c) /\ ~c.dropForCommit /\ c.serial = e.serial /\ c.tid = e.tid
    \/ e.dropForCommit /\ e.serial \in img.live /\ Shows(L, e.tid, "Created", e.serial)

(* The others are in the state that the pass and todo tell. *)
TouchedOK(x, r, e, L, img, fs) ==
    LET T == TargetOf(r, e)
        u == img.tab[e.tid]
        d == img.ends[e.tid]
    IN  /\ \A f \in r.pendingDeletes : f.serial = e.serial => f = e
        /\ T = "Created" => e.serial \in img.live
        /\ d.serial = e.serial => d.state = T
        /\ r.pass = 1 /\ e \in r.todo =>
              /\ u.serial = e.serial /\ u.state \in Expected[T]
              /\ u.state = "CreatePending" => u.xid = x
        /\ (r.pass = 1 /\ e \notin r.todo) \/ (r.pass = 2 /\ e \in r.todo) =>
              u.serial = e.serial /\ u.state = T
        /\ r.pass = 2 /\ T = "Created" => Shows(L, e.tid, "Created", e.serial)
        /\ r.pass = 2 /\ e \notin r.todo /\ T # "Created" =>
              e.serial \notin Serials(img) /\ e.serial \notin fs
        /\ T = "DropPending" /\ (r.pass = 1 \/ e \in r.todo) => e.serial \in fs

EntrySettled(x, r, e, L, img, fs) ==
    /\ Untouched(r, e) => UntouchedOK(x, r, e, L, img)
    /\ ~Untouched(r, e) => TouchedOK(x, r, e, L, img, fs)

Endings == {"commit", "abort", "subabort"}

ListOK(r) ==
    /\ \A e, f \in r.pendingDeletes :
          e.serial = f.serial /\ e.dropForCommit = f.dropForCommit => e = f
    /\ \A q \in r.catalog : q.deleted /\ (InWork(r) \/ q.nestLevel < r.level) =>
          \E e \in r.pendingDeletes :
              e.dropForCommit /\ e.serial = q.serial /\ e.nestLevel = q.nestLevel
    /\ r.phase = "done" => r.pendingDeletes = {}
    /\ r.phase \in Endings => r.pass # 0
    /\ r.phase = "create" => Max(HeldBy(r)) \in HeldBy(r)
    /\ InWork(r) => \A e, f \in r.pendingDeletes :
          e.serial = f.serial /\ ~e.dropForCommit /\ f.dropForCommit => e.nestLevel <= f.nestLevel

(* What the log says of the transaction itself. *)
XidOK(x, r, L) ==
    /\ r.phase \notin {"commit", "done"} => \A g \in L : x \notin g.committed
    /\ r.phase \notin {"commit", "abort", "done"} => \A g \in L : x \notin g.ended
    /\ r.phase = "none" =>
          \A g \in L : \A t \in Tids : g.tab[t].state = "CreatePending" => g.tab[t].xid # x

XactSettled(x, r, L, img, fs) ==
    /\ \A e \in r.pendingDeletes : EntrySettled(x, r, e, L, img, fs)
    /\ ListOK(r)
    /\ XidOK(x, r, L)

(* An object nobody holds is there or gone. *)
Unheld(s, L, img, fs, ov) ==
    /\ s \in img.live => \E t \in Tids : Shows(L, t, "Created", s)
    /\ s \notin img.live =>
          /\ s \in fs => s \in ov
          /\ \A t \in Tids : img.tab[t].serial = s =>
                s \in ov /\ img.tab[t].state # "CreatePending"

(* An entry of the recovery against the tuple (u) and the end record (d). *)
ScanOK(en, u, d) ==
    /\ u.state = "Free" <=> en.state = "Free"
    /\ u.state # "Free" => en.serial = u.serial
    /\ en.updateNeeded =>
          u.state # "Free" /\ d.serial = u.serial /\ d.state = en.state /\ u.state \in Expected[en.state]
    /\ ~en.updateNeeded =>
          /\ en.state = u.state
          /\ u.state # "Free" /\ d.serial = u.serial => d.state = u.state
    /\ en.state = "CreatePending" => en.xid = u.xid

ScannedInv ==
    /\ mode \in Scanned => \A t \in Tids : ScanOK(entry[t], Now.tab[t], Now.ends[t])
    /\ mode \in {"update", "drop"} => \A t \in Tids : entry[t].state # "CreatePending"
    /\ mode = "drop" => \A t \in Tids : ~entry[t].updateNeeded

ModeOK == mode # "unexpected" /\ (mode = "fatal" => overtaken # {})

SettleInv ==
    /\ \A g \in Images : ImageSettled(g, Files, overtaken)
    /\ \A x \in Xacts : XactSettled(x, xact[x], Images, Now, Files)
    /\ mode = "up" =>
          \A s \in 1 .. (nextSerial - 1) : s \notin InUse => Unheld(s, Images, Now, Files, overtaken)
    /\ ScannedInv
    /\ ModeOK

-----------------------------------------------------------------------------
(* The images of the log. *)
LEMMA ImagesAre ==
    ASSUME FileInv
    PROVE  /\ Now \in Images /\ Images \subseteq Image
           /\ \A g \in Images : /\ ImageOK(g, nextSerial)
                                /\ g.live = Now.live /\ g.committed = Now.committed
<1>1. TypesOK /\ LogInv
  BY DEF FileInv
<1>2. Len(log) \in DOMAIN log /\ Now = log[Len(log)]
  BY <1>1, NowIs
<1>3. \A i \in DOMAIN log : log[i] \in Image
  BY <1>1 DEF TypesOK
<1> QED
  BY <1>1, <1>2, <1>3 DEF Images, LogInv

LEMMA WrittenImages ==
    ASSUME FileInv, NEW img \in Image, Written(img)
    PROVE  /\ Now' = img /\ img \in Images' /\ Images' \subseteq Images \cup {img}
           /\ Flushed(img) => Images' = {img}
<1>1. /\ log' \in Seq(Image) /\ log' # << >> /\ Now' = img
      /\ \A i \in DOMAIN log' : log'[i] = img \/ \E j \in DOMAIN log : log'[i] = log[j]
      /\ Flushed(img) => \A i \in DOMAIN log' : log'[i] = img
  BY WrittenIs DEF FileInv
<1>2. Len(log') \in DOMAIN log' /\ Now' = log'[Len(log')]
  BY <1>1 DEF Now, Last
<1>3. Images' = {log'[i] : i \in DOMAIN log'}
  BY DEF Images
<1> QED
  BY <1>1, <1>2, <1>3 DEF Images

LEMMA SameImages ==
    ASSUME UNCHANGED log
    PROVE  Now' = Now /\ Images' = Images
BY DEF Now, Images

(* A step that does nothing to object s. *)
SameObject(s, fs, img, fs2, img2) ==
    /\ s \in fs2 <=> s \in fs
    /\ s \in img2.live <=> s \in img.live
    /\ \A t \in Tids :
        /\ img.tab[t].serial = s \/ img2.tab[t].serial = s => img2.tab[t] = img.tab[t]
        /\ img2.ends[t].serial = s => img2.ends[t] = img.ends[t]

LEMMA ShowsKeeps ==
    ASSUME NEW L, NEW L2, NEW img, NEW img2, NEW fs, NEW fs2, NEW s, NEW t \in Tids,
           img \in L, L2 \subseteq L \cup {img2}, SameObject(s, fs, img, fs2, img2)
    PROVE  /\ \A st : Shows(L, t, st, s) => Shows(L2, t, st, s)
           /\ \A x : ShowsNew(L, t, s, x) => ShowsNew(L2, t, s, x)
<1>1. img.tab[t].serial = s => img2.tab[t] = img.tab[t]
  BY DEF SameObject
<1> QED
  BY <1>1 DEF Shows, ShowsNew

LEMMA GoneKeeps ==
    ASSUME NEW img, NEW img2, NEW fs, NEW fs2, NEW s, SameObject(s, fs, img, fs2, img2)
    PROVE  s \notin Serials(img) => s \notin Serials(img2)
BY DEF SameObject, Serials

LEMMA EntryKeeps ==
    ASSUME NEW x, NEW r \in Xact, NEW e \in r.pendingDeletes,
           NEW L, NEW L2, NEW img, NEW img2, NEW fs, NEW fs2,
           img \in L, L2 \subseteq L \cup {img2}, SameObject(e.serial, fs, img, fs2, img2),
           EntrySettled(x, r, e, L, img, fs)
    PROVE  EntrySettled(x, r, e, L2, img2, fs2)
<1>1. e.tid \in Tids
  BY DEF Xact, Pending
<1>2. /\ \A st : Shows(L, e.tid, st, e.serial) => Shows(L2, e.tid, st, e.serial)
      /\ ShowsNew(L, e.tid, e.serial, x) => ShowsNew(L2, e.tid, e.serial, x)
  BY <1>1, ShowsKeeps
<1>3. e.serial \notin Serials(img) => e.serial \notin Serials(img2)
  BY GoneKeeps
<1>4. /\ e.serial \in fs2 <=> e.serial \in fs
      /\ e.serial \in img2.live <=> e.serial \in img.live
      /\ img.tab[e.tid].serial = e.serial => img2.tab[e.tid] = img.tab[e.tid]
      /\ img2.ends[e.tid].serial = e.serial => img2.ends[e.tid] = img.ends[e.tid]
  BY <1>1 DEF SameObject
<1>5. UntouchedOK(x, r, e, L, img) => UntouchedOK(x, r, e, L2, img2)
  BY <1>2, <1>4 DEF UntouchedOK
<1>6. TouchedOK(x, r, e, L, img, fs) => TouchedOK(x, r, e, L2, img2, fs2)
  BY <1>2, <1>3, <1>4 DEF TouchedOK
<1> QED
  BY <1>5, <1>6 DEF EntrySettled

LEMMA UnheldKeeps ==
    ASSUME NEW s, NEW L, NEW L2, NEW img, NEW img2, NEW fs, NEW fs2, NEW ov, NEW ov2,
           img \in L, L2 \subseteq L \cup {img2}, SameObject(s, fs, img, fs2, img2),
           s \in ov => s \in ov2, Unheld(s, L, img, fs, ov)
    PROVE  Unheld(s, L2, img2, fs2, ov2)
<1>1. \A t \in Tids : Shows(L, t, "Created", s) => Shows(L2, t, "Created", s)
  BY ShowsKeeps
<1>2. /\ s \in fs2 <=> s \in fs
      /\ s \in img2.live <=> s \in img.live
      /\ \A t \in Tids : img2.tab[t].serial = s => img2.tab[t] = img.tab[t]
  BY DEF SameObject
<1> QED
  BY <1>1, <1>2 DEF Unheld

LEMMA ImageStays ==
    ASSUME NEW img, NEW fs, NEW fs2, NEW ov, NEW ov2, fs2 \subseteq fs, ov \subseteq ov2,
           ImageSettled(img, fs, ov)
    PROVE  ImageSettled(img, fs2, ov2)
<1>1. \A t \in Tids : TupleSettled(img, t, ov2)
  BY DEF ImageSettled, TupleSettled
<1> QED
  BY <1>1 DEF ImageSettled

LEMMA InUseIs == ASSUME NEW s PROVE s \in InUse <=> \E y \in Xacts : s \in HeldBy(xact[y])
BY DEF InUse, Held, HeldBy

(* A step of transaction x while the system is up: r is its new record and *)
(* img the image written.                                                  *)
Settles(x, r, img) ==
    /\ mode = "up" /\ mode' = "up"
    /\ xact' = [xact EXCEPT ![x] = r]
    /\ Written(img)
    /\ nextSerial' \in {nextSerial, nextSerial + 1}
    /\ nextSerial' # nextSerial => nextSerial \in HeldBy(r)
    /\ \A g \in Images' : ImageSettled(g, Files', overtaken')
    /\ XactSettled(x, r, Images', img, Files')
    /\ \A s \in 1 .. (nextSerial - 1) : s \notin HeldBy(xact[x]) =>
           SameObject(s, Files, Now, Files', img) /\ (s \in overtaken => s \in overtaken')
    /\ \A s \in HeldBy(xact[x]) : s \notin HeldBy(r) =>
           Unheld(s, Images', img, Files', overtaken')
    /\ img.committed \subseteq Now.committed \cup {x}
    /\ img.ended \subseteq Now.ended \cup {x}
    /\ \A t \in Tids : img.tab[t].state = "CreatePending" =>
           img.tab[t].xid = x \/ img.tab[t] = Now.tab[t]

LEMMA SettleStep ==
    ASSUME FileInv, SettleInv, NEW x \in Xacts, NEW r \in Xact, NEW img \in Image,
           Settles(x, r, img)
    PROVE  SettleInv'
<1> USE DEF Settles
<1>1. Now' = img /\ Images' \subseteq Images \cup {img} /\ Now \in Images
  BY WrittenImages, ImagesAre
<1>2. /\ xact \in [Xacts -> Xact] /\ nextSerial \in Nat
  BY Numbers DEF FileInv, TypesOK
<1>3. xact'[x] = r /\ \A y \in Xacts \ {x} : xact'[y] = xact[y]
  BY <1>2
<1>4. \A y \in Xacts : \A s \in HeldBy(xact[y]) : s \in 1 .. (nextSerial - 1)
  <2> TAKE y \in Xacts
  <2>1. xact[y] \in Xact /\ EntriesOK(xact[y], nextSerial)
    BY XactFacts
  <2>2. \A e \in xact[y].pendingDeletes : e.serial \in 1 .. MaxSerial /\ e.serial < nextSerial
    BY <2>1 DEF EntriesOK, Xact, Pending
  <2> QED
    BY <1>2, <2>2, Numbers DEF HeldBy
<1>5. \A y \in Xacts : XactSettled(y, xact'[y], Images', Now', Files')
  <2> TAKE y \in Xacts
  <2>1. CASE y = x
    BY <1>1, <1>3, <2>1
  <2>2. CASE y # x
    <3>1. PICK q \in Xact : q = xact[y]
      BY <1>2
    <3>2. XactSettled(y, q, Images, Now, Files)
      BY <3>1 DEF SettleInv
    <3>3. HeldBy(xact[x]) \cap HeldBy(q) = {}
      BY <2>2, <3>1, XactFacts
    <3>4. ASSUME NEW e \in q.pendingDeletes
          PROVE  EntrySettled(y, q, e, Images', img, Files')
      <4>1. e.serial \in HeldBy(q) /\ e.serial \in 1 .. (nextSerial - 1)
        BY <1>4, <3>1 DEF HeldBy
      <4>2. SameObject(e.serial, Files, Now, Files', img)
        BY <3>3, <4>1
      <4>3. EntrySettled(y, q, e, Images, Now, Files)
        BY <3>2 DEF XactSettled
      <4>4. PICK L, L2, g, fs, fs2 : L = Images /\ L2 = Images' /\ g = Now /\ fs = Files /\ fs2 = Files'
        OBVIOUS
      <4>5. EntrySettled(y, q, e, L2, img, fs2)
        BY <1>1, <4>2, <4>3, <4>4, EntryKeeps
      <4> QED
        BY <4>4, <4>5
    <3>5. XidOK(y, q, Images')
      <4>1. PICK L, L2, g : L = Images /\ L2 = Images' /\ g = Now
        OBVIOUS
      <4>2. XidOK(y, q, L)
        BY <3>2, <4>1 DEF XactSettled
      <4>3. /\ g \in L /\ L2 \subseteq L \cup {img} /\ x # y
            /\ img.committed \subseteq g.committed \cup {x}
            /\ img.ended \subseteq g.ended \cup {x}
            /\ \A t \in Tids : img.tab[t].state = "CreatePending" =>
                  img.tab[t].xid = x \/ img.tab[t] = g.tab[t]
        BY <1>1, <2>2, <4>1
      <4>4. XidOK(y, q, L2)
        BY <4>2, <4>3 DEF XidOK
      <4> QED
        BY <4>1, <4>4
    <3> QED
      BY <1>1, <1>3, <2>2, <3>1, <3>2, <3>4, <3>5 DEF XactSettled
  <2> QED
    BY <2>1, <2>2
<1>6. ASSUME NEW s \in 1 .. (nextSerial' - 1), s \notin InUse'
      PROVE  Unheld(s, Images', Now', Files', overtaken')
  <2>1. \A y \in Xacts : s \notin HeldBy(xact'[y])
    BY <1>6, InUseIs DEF InUse, Held, HeldBy
  <2>2. s \notin HeldBy(r)
    BY <1>3, <2>1
  <2>3. s \in 1 .. (nextSerial - 1)
    <3>1. CASE nextSerial' = nextSerial
      BY <3>1
    <3>2. CASE nextSerial' = nextSerial + 1
      <4>1. s \in 1 .. nextSerial /\ s # nextSerial
        BY <1>2, <2>2, <3>2
      <4> QED
        BY <1>2, <4>1
    <3> QED
      BY <3>1, <3>2
  <2>4. CASE s \in HeldBy(xact[x])
    BY <1>1, <2>2, <2>4
  <2>5. CASE s \notin HeldBy(xact[x])
    <3>1. \A y \in Xacts : s \notin HeldBy(xact[y])
      BY <1>3, <2>1, <2>5
    <3>2. Unheld(s, Images, Now, Files, overtaken)
      BY <2>3, <3>1, InUseIs DEF SettleInv
    <3>3. PICK L, L2, g, fs, fs2, ov, ov2 :
              /\ L = Images /\ L2 = Images' /\ g = Now /\ fs = Files /\ fs2 = Files'
              /\ ov = overtaken /\ ov2 = overtaken'
      OBVIOUS
    <3>4. SameObject(s, fs, g, fs2, img) /\ (s \in ov => s \in ov2)
      BY <2>3, <2>5, <3>3
    <3>5. Unheld(s, L2, img, fs2, ov2)
      BY <1>1, <3>2, <3>3, <3>4, UnheldKeeps
    <3> QED
      BY <1>1, <3>3, <3>5
  <2> QED
    BY <2>4, <2>5
<1>7. ScannedInv' /\ ModeOK'
  BY DEF ScannedInv, ModeOK, Scanned
<1> QED
  BY <1>5, <1>6, <1>7 DEF SettleInv

-----------------------------------------------------------------------------
(* The work of a running transaction. *)
LEMMA SettleFacts ==
    ASSUME FileInv, SettleInv, NEW x \in Xacts
    PROVE  /\ xact[x] \in Xact /\ xact \in [Xacts -> Xact] /\ nextSerial \in Nat
           /\ \A e \in xact[x].pendingDeletes : EntrySettled(x, xact[x], e, Images, Now, Files)
           /\ ListOK(xact[x]) /\ XidOK(x, xact[x], Images)
           /\ \A g \in Images : ImageSettled(g, Files, overtaken)
           /\ Now \in Images /\ Now \in Image /\ Images \subseteq Image
           /\ ImageSettled(Now, Files, overtaken)
<1>1. Now \in Images /\ Images \subseteq Image
  BY ImagesAre
<1>2. XactSettled(x, xact[x], Images, Now, Files)
  BY DEF SettleInv
<1>3. \A g \in Images : ImageSettled(g, Files, overtaken)
  BY DEF SettleInv
<1> QED
  BY <1>1, <1>2, <1>3, XactFacts DEF XactSettled

(* The entries of a transaction at work, P being its list. *)
WorkOK(x, P, e, L, img) ==
    \/ ~e.dropForCommit /\ ShowsNew(L, e.tid, e.serial, x)
    \/ e.dropForCommit /\ \E c \in P : ~c.dropForCommit /\ c.serial = e.serial /\ c.tid = e.tid
    \/ e.dropForCommit /\ e.serial \in img.live /\ Shows(L, e.tid, "Created", e.serial)

LEMMA InWorkIs ==
    ASSUME NEW x, NEW r, NEW e, NEW L, NEW img, NEW fs, InWork(r)
    PROVE  EntrySettled(x, r, e, L, img, fs) <=> WorkOK(x, r.pendingDeletes, e, L, img)
BY DEF EntrySettled, Untouched, UntouchedOK, WorkOK

LEMMA LogUnchanged ==
    ASSUME FileInv, UNCHANGED log
    PROVE  Written(Now) /\ Images' = Images /\ Now' = Now
BY DEF Written, Appended, Images, Now

(* A step of x that leaves the log, the files and what it holds. *)
LEMMA QuietSettles ==
    ASSUME FileInv, SettleInv, NEW x \in Xacts, NEW r \in Xact, xact' = [xact EXCEPT ![x] = r],
           mode = "up", mode' = "up", UNCHANGED <<log, Files, nextSerial, overtaken>>,
           HeldBy(xact[x]) \subseteq HeldBy(r),
           XactSettled(x, r, Images, Now, Files)
    PROVE  SettleInv'
<1>1. Written(Now) /\ Images' = Images /\ Now' = Now
  BY LogUnchanged
<1>2. /\ \A g \in Images : ImageSettled(g, Files, overtaken)
      /\ Now \in Image
  BY SettleFacts
<1>3. \A s : SameObject(s, Files, Now, Files', Now)
  BY DEF SameObject
<1>4. PICK img \in Image : img = Now
  BY <1>2
<1>5. Settles(x, r, img)
  BY <1>1, <1>2, <1>3, <1>4 DEF Settles
<1> QED
  BY <1>5, SettleStep

LEMMA StartSubTransactionSettles ==
    ASSUME FileInv, SettleInv, NEW x \in Xacts, StartSubTransaction(x) PROVE SettleInv'
<1> DEFINE o == xact[x]
<1>1. PICK r : r = [[o EXCEPT !.phase = "run"] EXCEPT !.level = 2]
  OBVIOUS
<1>2. /\ mode = "up" /\ mode' = "up" /\ o.phase \in {"none", "run"} /\ o.level = 1
      /\ xact' = [xact EXCEPT ![x] = r]
      /\ UNCHANGED <<log, Files, nextSerial, overtaken>>
  BY <1>1 DEF StartSubTransaction, Running, Files
<1>3. /\ o \in Xact /\ ListOK(o) /\ XidOK(x, o, Images)
      /\ \A e \in o.pendingDeletes : EntrySettled(x, o, e, Images, Now, Files)
      /\ RowsOK(o, nextSerial)
  BY SettleFacts, XactFacts
<1> HIDE DEF o
<1>4. /\ r \in Xact /\ r.phase = "run" /\ r.catalog = o.catalog /\ r.pendingDeletes = o.pendingDeletes
  <2>1. PICK m : m = [o EXCEPT !.phase = "run"]
    OBVIOUS
  <2>2. m \in Xact /\ m.phase = "run" /\ m.catalog = o.catalog /\ m.pendingDeletes = o.pendingDeletes
    BY <1>3, <2>1, SetPhase
  <2>3. r = [m EXCEPT !.level = 2] /\ 2 \in 1 .. 2
    BY <1>1, <2>1
  <2>4. r \in Xact /\ r.phase = m.phase /\ r.catalog = m.catalog /\ r.pendingDeletes = m.pendingDeletes
    BY <2>2, <2>3, SetLevel
  <2> QED
    BY <2>2, <2>4
<1>5. InWork(o) /\ InWork(r)
  BY <1>2, <1>4 DEF InWork
<1>6. \A e \in r.pendingDeletes : EntrySettled(x, r, e, Images, Now, Files)
  BY <1>3, <1>4, <1>5, InWorkIs
<1>7. ListOK(r)
  BY <1>3, <1>4, <1>5 DEF ListOK, Endings
<1>8. XidOK(x, r, Images)
  BY <1>2, <1>3, <1>4 DEF XidOK
<1>9. HeldBy(xact[x]) \subseteq HeldBy(r)
  BY <1>4 DEF HeldBy, o
<1> QED
  BY <1>2, <1>4, <1>6, <1>7, <1>8, <1>9, QuietSettles DEF XactSettled

LEMMA AtSubCommitSettles ==
    ASSUME FileInv, SettleInv, NEW x \in Xacts, AtSubCommit_smgr(x) PROVE SettleInv'
<1> DEFINE o == xact[x]
           rows == {[q EXCEPT !.nestLevel = 1] : q \in o.catalog}
           list == {[e EXCEPT !.nestLevel = 1] : e \in o.pendingDeletes}
           p == [o EXCEPT !.level = 1]
           b == [p EXCEPT !.catalog = rows]
           r == [b EXCEPT !.pendingDeletes = list]
<1>1. /\ mode = "up" /\ mode' = "up" /\ o.phase \in {"none", "run"}
      /\ xact' = [xact EXCEPT ![x] = r]
      /\ UNCHANGED <<log, Files, nextSerial, overtaken>>
  BY DEF AtSubCommit_smgr, Running, Files
<1>2. /\ o \in Xact /\ ListOK(o) /\ XidOK(x, o, Images)
      /\ \A e \in o.pendingDeletes : EntrySettled(x, o, e, Images, Now, Files)
      /\ RowsOK(o, nextSerial)
  BY SettleFacts, XactFacts
<1> HIDE DEF o
<1>3. o.catalog \subseteq Row /\ o.pendingDeletes \subseteq Pending
  BY <1>2 DEF Xact
<1>4. /\ \A q \in rows : \E a \in o.catalog :
            q.serial = a.serial /\ q.deleted = a.deleted /\ q.nestLevel = 1 /\ q \in Row
      /\ \A e \in list : \E a \in o.pendingDeletes : e = [a EXCEPT !.nestLevel = 1]
  BY <1>3 DEF Row
<1>5. ASSUME NEW a \in o.pendingDeletes
      PROVE  LET e == [a EXCEPT !.nestLevel = 1]
             IN  /\ e \in list /\ e \in Pending /\ e.serial = a.serial /\ e.tid = a.tid
                 /\ e.dropForCommit = a.dropForCommit /\ e.nestLevel = 1
  BY <1>3 DEF Pending
<1>6. rows \in SUBSET Row /\ list \in SUBSET Pending
  BY <1>4, <1>5
<1>7. InWork(o)
  BY <1>1 DEF InWork
<1> HIDE DEF rows, list
<1>8. /\ r \in Xact /\ r.phase = o.phase /\ r.catalog = rows /\ r.pendingDeletes = list
  <2>1. p \in Xact /\ p.phase = o.phase
    BY <1>2 DEF Xact
  <2> HIDE DEF p
  <2>2. b \in Xact /\ b.phase = o.phase /\ b.catalog = rows
    BY <1>6, <2>1, SetCatalog
  <2> HIDE DEF b
  <2> QED
    BY <1>6, <2>2, SetPendingDeletes
<1> HIDE DEF r
<1>9. InWork(r)
  BY <1>7, <1>8 DEF InWork
<1>10. ASSUME NEW e \in list PROVE WorkOK(x, list, e, Images, Now)
  <2>1. PICK a \in o.pendingDeletes : e = [a EXCEPT !.nestLevel = 1]
    BY <1>4
  <2>2. e.serial = a.serial /\ e.tid = a.tid /\ e.dropForCommit = a.dropForCommit
    BY <1>5, <2>1
  <2>3. WorkOK(x, o.pendingDeletes, a, Images, Now)
    BY <1>2, <1>7, InWorkIs
  <2>4. ASSUME NEW c \in o.pendingDeletes
        PROVE  \E d \in list : /\ d.serial = c.serial /\ d.tid = c.tid
                               /\ d.dropForCommit = c.dropForCommit
    BY <1>5
  <2> QED
    BY <2>2, <2>3, <2>4 DEF WorkOK
<1>11. \A e \in r.pendingDeletes : EntrySettled(x, r, e, Images, Now, Files)
  BY <1>8, <1>9, <1>10, InWorkIs
<1>12. ListOK(r)
  <2>1. ASSUME NEW e \in list, NEW f \in list, e.serial = f.serial,
               e.dropForCommit = f.dropForCommit
        PROVE  e = f
    <3>1. PICK a \in o.pendingDeletes : e = [a EXCEPT !.nestLevel = 1]
      BY <1>4
    <3>2. PICK c \in o.pendingDeletes : f = [c EXCEPT !.nestLevel = 1]
      BY <1>4
    <3>3. a.serial = c.serial /\ a.dropForCommit = c.dropForCommit
      BY <1>5, <2>1, <3>1, <3>2
    <3> QED
      BY <1>2, <3>1, <3>2, <3>3 DEF ListOK
  <2>2. ASSUME NEW q \in rows, q.deleted
        PROVE  \E e \in list : e.dropForCommit /\ e.serial = q.serial /\ e.nestLevel = q.nestLevel
    <3>1. PICK a \in o.catalog : q.serial = a.serial /\ a.deleted /\ q.nestLevel = 1
      BY <1>4, <2>2
    <3>2. PICK c \in o.pendingDeletes : c.dropForCommit /\ c.serial = a.serial
      BY <1>2, <1>7, <3>1 DEF ListOK
    <3>3. LET e == [c EXCEPT !.nestLevel = 1]
          IN  /\ e \in list /\ e.serial = c.serial /\ e.dropForCommit /\ e.nestLevel = 1
      BY <1>5, <3>2
    <3> QED
      BY <3>1, <3>2, <3>3
  <2>3. \A e, f \in list : e.nestLevel <= f.nestLevel
    <3>1. ASSUME NEW e \in list PROVE e.nestLevel = 1
      <4>1. PICK a \in o.pendingDeletes : e = [a EXCEPT !.nestLevel = 1]
        BY <1>4
      <4> QED
        BY <1>5, <4>1
    <3> QED
      BY <3>1
  <2> QED
    BY <1>1, <1>8, <2>1, <2>2, <2>3 DEF ListOK, Endings
<1>13. XidOK(x, r, Images)
  BY <1>2, <1>8 DEF XidOK
<1>14. HeldBy(xact[x]) \subseteq HeldBy(r)
  BY <1>5, <1>8 DEF HeldBy, o
<1> QED
  BY <1>1, <1>8, <1>11, <1>12, <1>13, <1>14, QuietSettles DEF XactSettled

(* An object held by a transaction at work has its tuple in every image. *)
LEMMA HeldIsShown ==
    ASSUME FileInv, SettleInv, NEW x \in Xacts, InWork(xact[x]), NEW s \in HeldBy(xact[x])
    PROVE  \E t \in Tids : \A g \in Images : g.tab[t].serial = s
<1>1. PICK e \in xact[x].pendingDeletes : e.serial = s
  BY DEF HeldBy
<1>2. xact[x] \in Xact /\ \A f \in xact[x].pendingDeletes : WorkOK(x, xact[x].pendingDeletes, f, Images, Now)
  BY SettleFacts, InWorkIs
<1>3. \A f \in xact[x].pendingDeletes : f.tid \in Tids
  BY <1>2 DEF Xact, Pending
<1>4. CASE ~e.dropForCommit \/ Shows(Images, e.tid, "Created", s)
  BY <1>1, <1>2, <1>3, <1>4 DEF WorkOK, Shows, ShowsNew
<1>5. CASE \E c \in xact[x].pendingDeletes : ~c.dropForCommit /\ c.serial = e.serial
  BY <1>1, <1>2, <1>3, <1>5 DEF WorkOK, Shows, ShowsNew
<1> QED
  BY <1>1, <1>2, <1>4, <1>5 DEF WorkOK


LEMMA CreateFileSettles ==
    ASSUME FileInv, SettleInv, NEW x \in Xacts, CreateFile(x) PROVE SettleInv'
<1> DEFINE o == xact[x]
           n == Max(HeldBy(o))
<1>1. PICK r : r = [o EXCEPT !.phase = "run"]
  OBVIOUS
<1>2. /\ mode = "up" /\ mode' = "up" /\ o.phase = "create"
      /\ Files' = Files \cup {n}
      /\ xact' = [xact EXCEPT ![x] = r]
      /\ UNCHANGED <<log, nextSerial, overtaken>>
  BY <1>1 DEF CreateFile, Held, HeldBy, Files
<1>3. /\ o \in Xact /\ ListOK(o) /\ XidOK(x, o, Images)
      /\ \A e \in o.pendingDeletes : EntrySettled(x, o, e, Images, Now, Files)
      /\ \A g \in Images : ImageSettled(g, Files, overtaken)
      /\ Now \in Image
  BY SettleFacts
<1>4. InWork(o) /\ n \in HeldBy(o)
  BY <1>2, <1>3 DEF InWork, ListOK
<1>5. PICK t \in Tids : \A g \in Images : g.tab[t].serial = n
  BY <1>4, HeldIsShown
<1>6. n \in 1 .. MaxSerial
  BY <1>3, <1>4 DEF HeldBy, Xact, Pending
<1> HIDE DEF n, o
<1>7. /\ r \in Xact /\ r.phase = "run" /\ r.catalog = o.catalog /\ r.pendingDeletes = o.pendingDeletes
  BY <1>1, <1>3, SetPhase
<1>8. InWork(r) /\ HeldBy(r) = HeldBy(o)
  BY <1>7 DEF InWork, HeldBy
<1>9. \A e \in r.pendingDeletes : EntrySettled(x, r, e, Images, Now, Files')
  BY <1>3, <1>4, <1>7, <1>8, InWorkIs
<1>10. ListOK(r)
  BY <1>3, <1>4, <1>7, <1>8 DEF ListOK, Endings
<1>11. XidOK(x, r, Images)
  BY <1>2, <1>3, <1>7 DEF XidOK
<1>12. \A g \in Images : ImageSettled(g, Files', overtaken)
  <2> TAKE g \in Images
  <2>1. n \in Serials(g) \ {0}
    BY <1>5, <1>6 DEF Serials
  <2>2. PICK fs, fs2, ov : fs = Files /\ fs2 = Files' /\ ov = overtaken
    OBVIOUS
  <2>3. ImageSettled(g, fs, ov) /\ fs2 = fs \cup {n}
    BY <1>2, <1>3, <2>2
  <2>4. ImageSettled(g, fs2, ov)
    BY <2>1, <2>3 DEF ImageSettled
  <2> QED
    BY <2>2, <2>4
<1>13. Written(Now) /\ Images' = Images /\ Now' = Now
  BY <1>2, LogUnchanged
<1>14. \A s : s \notin HeldBy(o) => SameObject(s, Files, Now, Files', Now)
  BY <1>2, <1>4 DEF SameObject
<1>15. PICK img \in Image : img = Now
  BY <1>3
<1>16. Settles(x, r, img)
  BY <1>2, <1>8, <1>9, <1>10, <1>11, <1>12, <1>13, <1>14, <1>15 DEF Settles, XactSettled, o
<1> QED
  BY <1>7, <1>16, SettleStep


(* No two tuples have one serial number. *)
LEMMA OneTuple ==
    ASSUME FileInv, SettleInv, NEW t \in Tids, NEW u \in Tids,
           Now.tab[t].serial = Now.tab[u].serial, Now.tab[t].serial # 0
    PROVE  t = u
<1>1. ImageSettled(Now, Files, overtaken)
  BY ImagesAre DEF SettleInv
<1> QED
  BY <1>1 DEF ImageSettled

LEMMA ScheduleUnlinkSettles ==
    ASSUME FileInv, SettleInv, NEW x \in Xacts, NEW t \in Tids, ScheduleUnlink(x, t) PROVE SettleInv'
<1> DEFINE o == xact[x]
           s == Now.tab[t].serial
           row == [serial |-> s, deleted |-> TRUE, nestLevel |-> o.level]
           new == [tid |-> t, serial |-> s, dropForCommit |-> TRUE,
                   sameTransCreateDrop |-> FALSE, nestLevel |-> o.level]
           rows == o.catalog \cup {row}
           list == o.pendingDeletes \cup {new}
<1>1. PICK a, b, r : /\ a = [o EXCEPT !.phase = "run"] /\ b = [a EXCEPT !.catalog = rows]
                     /\ r = [b EXCEPT !.pendingDeletes = list]
  OBVIOUS
<1>2. /\ mode = "up" /\ mode' = "up" /\ o.phase \in {"none", "run"}
      /\ \/ s \in Now.live /\ \A y \in Xacts : s \notin HeldBy(xact[y])
         \/ s \in HeldBy(o)
      /\ \A e \in o.pendingDeletes : e.serial = s => ~e.dropForCommit
      /\ UNCHANGED <<log, Files, nextSerial, overtaken>>
  BY DEF ScheduleUnlink, Running, Held, HeldBy, Files
<1>3. xact' = [xact EXCEPT ![x] = r]
  BY <1>1 DEF ScheduleUnlink, RowOf
<1>4. /\ o \in Xact /\ ListOK(o) /\ XidOK(x, o, Images)
      /\ \A e \in o.pendingDeletes : EntrySettled(x, o, e, Images, Now, Files)
      /\ EntriesOK(o, nextSerial) /\ ImageOK(Now, nextSerial) /\ nextSerial \in Nat
      /\ Now \in Images /\ Now \in Image
  BY SettleFacts, XactFacts
<1>5. InWork(o)
  BY <1>2 DEF InWork
<1>6. \A e \in o.pendingDeletes : WorkOK(x, o.pendingDeletes, e, Images, Now)
  BY <1>4, <1>5, InWorkIs
<1>7. s \in 1 .. MaxSerial /\ s < nextSerial
  <2>1. CASE s \in Now.live
    BY <1>4, <2>1, ImageNumbers DEF ImageOK
  <2>2. CASE s \in HeldBy(o)
    <3>1. PICK e \in o.pendingDeletes : s = e.serial
      BY <2>2 DEF HeldBy
    <3>2. e.serial \in 1 .. MaxSerial
      BY <1>4 DEF Xact, Pending
    <3> QED
      BY <1>4, <3>1, <3>2 DEF EntriesOK
  <2> QED
    BY <1>2, <2>1, <2>2
<1>8. \/ s \in Now.live /\ Shows(Images, t, "Created", s)
      \/ \E c \in o.pendingDeletes : ~c.dropForCommit /\ c.serial = s /\ c.tid = t
  <2>1. CASE s \in Now.live /\ \A y \in Xacts : s \notin HeldBy(xact[y])
    <3>1. s \in 1 .. (nextSerial - 1)
      BY <1>4, <1>7, Numbers
    <3>2. Unheld(s, Images, Now, Files, overtaken)
      BY <1>2, <2>1, <3>1, InUseIs DEF SettleInv
    <3>3. PICK u \in Tids : Shows(Images, u, "Created", s)
      BY <2>1, <3>2 DEF Unheld
    <3>4. Now.tab[u].serial = s
      BY <1>4, <3>3 DEF Shows
    <3>5. u = t
      BY <1>7, <3>4, OneTuple
    <3> QED
      BY <2>1, <3>3, <3>5
  <2>2. CASE s \in HeldBy(o)
    <3>1. PICK e \in o.pendingDeletes : s = e.serial
      BY <2>2 DEF HeldBy
    <3>2. ~e.dropForCommit
      BY <1>2, <3>1
    <3>3. ShowsNew(Images, e.tid, s, x) /\ e.tid \in Tids
      BY <1>4, <1>6, <3>1, <3>2 DEF WorkOK, Xact, Pending
    <3>4. Now.tab[e.tid].serial = s
      BY <1>4, <3>3 DEF Shows, ShowsNew
    <3>5. e.tid = t
      BY <1>7, <3>3, <3>4, OneTuple
    <3> QED
      BY <3>1, <3>2, <3>5
  <2> QED
    BY <1>2, <2>1, <2>2
<1> HIDE DEF o, s
<1>9. row \in Row /\ new \in Pending
  BY <1>4, <1>7 DEF Xact, Row, Pending
<1>10. /\ row.serial = s /\ row.deleted = TRUE /\ row.nestLevel = o.level
       /\ new.serial = s /\ new.tid = t /\ new.dropForCommit = TRUE /\ new.nestLevel = o.level
  OBVIOUS
<1> HIDE DEF row, new
<1>11. rows \in SUBSET Row /\ list \in SUBSET Pending
  BY <1>4, <1>9 DEF Xact
<1>12. /\ r \in Xact /\ r.phase = "run" /\ r.level = o.level /\ r.catalog = rows
       /\ r.pendingDeletes = list /\ InWork(r)
  <2> HIDE DEF rows, list
  <2>1. a \in Xact /\ a.phase = "run" /\ a.level = o.level
    BY <1>1, <1>4, SetPhase
  <2>2. b \in Xact /\ b.phase = "run" /\ b.level = o.level /\ b.catalog = rows
    BY <1>1, <1>11, <2>1, SetCatalog
  <2>3. r \in Xact /\ r.phase = "run" /\ r.level = o.level /\ r.catalog = rows /\ r.pendingDeletes = list
    BY <1>1, <1>11, <2>2, SetPendingDeletes
  <2> QED
    BY <2>3 DEF InWork
<1>13. ASSUME NEW e \in list PROVE WorkOK(x, list, e, Images, Now)
  <2>1. CASE e = new
    BY <1>8, <1>10, <2>1 DEF WorkOK
  <2>2. CASE e \in o.pendingDeletes
    BY <1>6, <2>2 DEF WorkOK
  <2> QED
    BY <2>1, <2>2
<1>14. \A e \in r.pendingDeletes : EntrySettled(x, r, e, Images, Now, Files)
  BY <1>12, <1>13, InWorkIs
<1>15. ListOK(r)
  <2>1. ASSUME NEW e \in list, NEW f \in list, e.serial = f.serial,
               e.dropForCommit = f.dropForCommit
        PROVE  e = f
    <3>1. CASE e \in o.pendingDeletes /\ f \in o.pendingDeletes
      BY <1>4, <2>1, <3>1 DEF ListOK
    <3>2. CASE e = new /\ f \in o.pendingDeletes
      BY <1>2, <1>10, <2>1, <3>2
    <3>3. CASE f = new /\ e \in o.pendingDeletes
      BY <1>2, <1>10, <2>1, <3>3
    <3> QED
      BY <3>1, <3>2, <3>3
  <2>2. ASSUME NEW q \in rows, q.deleted
        PROVE  \E e \in list : e.dropForCommit /\ e.serial = q.serial /\ e.nestLevel = q.nestLevel
    <3>1. CASE q = row
      BY <1>10, <3>1
    <3>2. CASE q \in o.catalog
      BY <1>4, <1>5, <2>2, <3>2 DEF ListOK
    <3> QED
      BY <3>1, <3>2
  <2>3. ASSUME NEW e \in list, NEW f \in list, e.serial = f.serial, ~e.dropForCommit, f.dropForCommit
        PROVE  e.nestLevel <= f.nestLevel
    <3>1. e \in o.pendingDeletes /\ e.nestLevel <= o.level
      BY <1>4, <1>5, <1>10, <2>3 DEF EntriesOK
    <3>2. CASE f = new
      BY <1>10, <3>1, <3>2
    <3>3. CASE f \in o.pendingDeletes
      BY <1>4, <1>5, <2>3, <3>1, <3>3 DEF ListOK
    <3> QED
      BY <3>2, <3>3
  <2> QED
    BY <1>12, <2>1, <2>2, <2>3 DEF ListOK, Endings
<1>16. XidOK(x, r, Images)
  BY <1>2, <1>4, <1>12 DEF XidOK
<1>17. HeldBy(xact[x]) \subseteq HeldBy(r)
  BY <1>12 DEF HeldBy, o
<1> QED
  BY <1>2, <1>3, <1>12, <1>14, <1>15, <1>16, <1>17, QuietSettles DEF XactSettled


LEMMA WorkKeeps ==
    ASSUME NEW x, NEW P, NEW P2, P \subseteq P2, NEW e \in P, e.tid \in Tids,
           NEW L, NEW L2, NEW img, NEW img2, NEW fs, NEW fs2,
           img \in L, L2 \subseteq L \cup {img2}, SameObject(e.serial, fs, img, fs2, img2),
           WorkOK(x, P, e, L, img)
    PROVE  WorkOK(x, P2, e, L2, img2)
<1>1. /\ \A st : Shows(L, e.tid, st, e.serial) => Shows(L2, e.tid, st, e.serial)
      /\ ShowsNew(L, e.tid, e.serial, x) => ShowsNew(L2, e.tid, e.serial, x)
  BY ShowsKeeps
<1>2. e.serial \in img2.live <=> e.serial \in img.live
  BY DEF SameObject
<1> QED
  BY <1>1, <1>2 DEF WorkOK

LEMMA AddCreatePendingSettles ==
    ASSUME FileInv, SettleInv, NEW x \in Xacts, NEW t \in Tids, AddCreatePending(x, t) PROVE SettleInv'
<1> DEFINE o == xact[x]
           row == [serial |-> nextSerial, deleted |-> FALSE, nestLevel |-> o.level]
           new == [tid |-> t, serial |-> nextSerial, dropForCommit |-> FALSE,
                   sameTransCreateDrop |-> FALSE, nestLevel |-> o.level]
           rows == o.catalog \cup {row}
           list == o.pendingDeletes \cup {new}
<1>1. PICK a, b, r : /\ a = [o EXCEPT !.phase = "create"] /\ b = [a EXCEPT !.catalog = rows]
                     /\ r = [b EXCEPT !.pendingDeletes = list]
  OBVIOUS
<1>2. PICK n, tuple, img : /\ n = nextSerial
                           /\ tuple = [state |-> "CreatePending", serial |-> n, xid |-> x]
                           /\ img = [Now EXCEPT !.tab[t] = tuple]
  OBVIOUS
<1>3. /\ mode = "up" /\ mode' = "up" /\ o.phase \in {"none", "run"} /\ n <= MaxSerial
      /\ Now.tab[t].state = "Free"
      /\ Flushed(img) /\ nextSerial' = n + 1
      /\ UNCHANGED <<Files, overtaken>>
  BY <1>2 DEF AddCreatePending, Running, Files
<1>4. xact' = [xact EXCEPT ![x] = r]
  BY <1>1 DEF AddCreatePending, RowOf
<1>5. /\ o \in Xact /\ ListOK(o) /\ XidOK(x, o, Images)
      /\ \A e \in o.pendingDeletes : EntrySettled(x, o, e, Images, Now, Files)
      /\ EntriesOK(o, n) /\ ImageOK(Now, n) /\ n \in Nat
      /\ Now \in Images /\ Now \in Image /\ ImageSettled(Now, Files, overtaken)
  BY <1>2, SettleFacts, XactFacts
<1>6. InWork(o)
  BY <1>3 DEF InWork
<1>7. \A e \in o.pendingDeletes : WorkOK(x, o.pendingDeletes, e, Images, Now)
  BY <1>5, <1>6, InWorkIs
<1>8. n \in 1 .. MaxSerial
  BY <1>2, <1>3, Numbers DEF FileInv, TypesOK
<1>9. tuple \in Tuple
  BY <1>2, <1>8, Ranks DEF Tuple, States
<1>10. /\ img \in Image /\ img.ends = Now.ends /\ img.live = Now.live /\ img.ended = Now.ended
       /\ img.committed = Now.committed
       /\ img.tab[t] = tuple /\ \A u \in Tids \ {t} : img.tab[u] = Now.tab[u]
  <2>1. PICK g \in Image : g = Now
    BY <1>5
  <2>2. img = [g EXCEPT !.tab[t] = tuple]
    BY <1>2, <2>1
  <2> QED
    BY <1>9, <2>1, <2>2, SetTab
<1>11. tuple.serial = n /\ tuple.state = "CreatePending" /\ tuple.xid = x
  BY <1>2
<1>12. \A u \in Tids : Now.tab[u].serial # n /\ Now.ends[u].serial < n /\ Now.ends[u].serial # n
  BY <1>5, ImageNumbers DEF ImageOK
<1>13. Now.tab[t].serial = 0 /\ x \notin Now.ended /\ x \notin Now.committed
  BY <1>3, <1>5 DEF ImageSettled, TupleSettled, XidOK
<1>14. Written(img) /\ Images' = {img}
  BY <1>3, <1>10, WrittenImages DEF Written
<1>15. PICK g, fs, ov : g = Now /\ fs = Files /\ ov = overtaken
  OBVIOUS
<1>16. ImageSettled(img, fs, ov)
  <2>1. ImageSettled(g, fs, ov)
    BY <1>5, <1>15
  <2>2. ASSUME NEW u \in Tids, u # t PROVE TupleSettled(img, u, ov)
    <3>1. TupleSettled(g, u, ov) /\ img.tab[u] = g.tab[u] /\ img.ends[u] = g.ends[u]
          /\ img.live = g.live /\ img.ended = g.ended /\ img.committed = g.committed
      BY <1>10, <1>15, <2>1, <2>2 DEF ImageSettled
    <3> QED
      BY <3>1 DEF TupleSettled
  <2>3. TupleSettled(img, t, ov)
    <3>1. g.ends[t].state # "Free" /\ g.ends[t].serial < n /\ g.ends[t].serial # n
      BY <1>12, <1>15, <2>1 DEF ImageSettled, TupleSettled
    <3>2. n # 0 /\ x \notin img.ended /\ x \notin img.committed /\ img.ends[t] = g.ends[t]
      BY <1>8, <1>10, <1>13, <1>15
    <3> QED
      BY <1>10, <1>11, <3>1, <3>2 DEF TupleSettled
  <2>4. \A u, v \in Tids : img.tab[u].serial = img.tab[v].serial /\ img.tab[u].serial # 0 => u = v
    BY <1>10, <1>11, <1>12, <1>15, <2>1 DEF ImageSettled
  <2>5. fs \subseteq Serials(img) \ {0}
    <3>1. ASSUME NEW s \in fs PROVE s \in Serials(img) \ {0}
      <4>1. PICK u \in Tids : s = g.tab[u].serial /\ s # 0
        BY <2>1 DEF ImageSettled, Serials
      <4>2. img.tab[u] = g.tab[u]
        BY <1>10, <1>13, <1>15, <4>1
      <4> QED
        BY <4>1, <4>2 DEF Serials
    <3> QED
      BY <3>1
  <2> QED
    BY <2>2, <2>3, <2>4, <2>5 DEF ImageSettled
<1>17. \A s \in 1 .. (nextSerial - 1) : SameObject(s, fs, g, fs, img)
  <2> TAKE s \in 1 .. (nextSerial - 1)
  <2>1. s # 0 /\ s # n
    BY <1>2, <1>5
  <2> QED
    BY <1>10, <1>11, <1>13, <1>15, <2>1 DEF SameObject
<1>18. \A e \in o.pendingDeletes : e.serial \in 1 .. (nextSerial - 1) /\ e.tid \in Tids /\ e.serial # n
  <2>1. \A e \in o.pendingDeletes : e.serial \in 1 .. MaxSerial /\ e.tid \in Tids /\ e.serial < n
    BY <1>5 DEF Xact, Pending, EntriesOK
  <2> QED
    BY <1>2, <1>5, <2>1, Numbers
<1> HIDE DEF o
<1>19. row \in Row /\ new \in Pending
  BY <1>2, <1>5, <1>8 DEF Xact, Row, Pending
<1>20. /\ row.serial = n /\ row.deleted = FALSE /\ row.nestLevel = o.level
       /\ new.serial = n /\ new.tid = t /\ new.dropForCommit = FALSE /\ new.nestLevel = o.level
  BY <1>2
<1> HIDE DEF row, new
<1>21. rows \in SUBSET Row /\ list \in SUBSET Pending
  BY <1>5, <1>19 DEF Xact
<1>22. /\ r \in Xact /\ r.phase = "create" /\ r.level = o.level /\ r.catalog = rows
       /\ r.pendingDeletes = list /\ InWork(r)
  <2> HIDE DEF rows, list
  <2>1. a \in Xact /\ a.phase = "create" /\ a.level = o.level
    BY <1>1, <1>5, SetPhase
  <2>2. b \in Xact /\ b.phase = "create" /\ b.level = o.level /\ b.catalog = rows
    BY <1>1, <1>21, <2>1, SetCatalog
  <2>3. /\ r \in Xact /\ r.phase = "create" /\ r.level = o.level /\ r.catalog = rows
        /\ r.pendingDeletes = list
    BY <1>1, <1>21, <2>2, SetPendingDeletes
  <2> QED
    BY <2>3 DEF InWork
<1>23. ASSUME NEW e \in list PROVE WorkOK(x, list, e, {img}, img)
  <2>1. CASE e = new
    BY <1>10, <1>11, <1>20, <2>1 DEF WorkOK, Shows, ShowsNew
  <2>2. CASE e \in o.pendingDeletes
    <3>1. PICK P, P2, L : P = o.pendingDeletes /\ P2 = list /\ L = Images
      OBVIOUS
    <3>2. WorkOK(x, P, e, L, g) /\ P \subseteq P2 /\ e \in P /\ e.tid \in Tids
          /\ g \in L /\ {img} \subseteq L \cup {img} /\ SameObject(e.serial, fs, g, fs, img)
      BY <1>5, <1>7, <1>15, <1>17, <1>18, <2>2, <3>1
    <3>3. WorkOK(x, P2, e, {img}, img)
      BY <3>2, WorkKeeps
    <3> QED
      BY <3>1, <3>3
  <2> QED
    BY <2>1, <2>2
<1>24. \A e \in r.pendingDeletes : EntrySettled(x, r, e, {img}, img, Files)
  BY <1>22, <1>23, InWorkIs
<1>25. HeldBy(r) = HeldBy(o) \cup {n}
  BY <1>20, <1>22 DEF HeldBy
<1>26. ListOK(r)
  <2>1. ASSUME NEW e \in list, NEW f \in list, e.serial = f.serial,
               e.dropForCommit = f.dropForCommit
        PROVE  e = f
    <3>1. CASE e \in o.pendingDeletes /\ f \in o.pendingDeletes
      BY <1>5, <2>1, <3>1 DEF ListOK
    <3>2. CASE e = new \/ f = new
      BY <1>18, <1>20, <2>1, <3>2
    <3> QED
      BY <3>1, <3>2
  <2>2. ASSUME NEW q \in rows, q.deleted
        PROVE  \E e \in list : e.dropForCommit /\ e.serial = q.serial /\ e.nestLevel = q.nestLevel
    BY <1>5, <1>6, <1>20, <2>2 DEF ListOK
  <2>3. Max(HeldBy(r)) = n
    <3>1. \A s \in HeldBy(o) : s \in Nat /\ s < n
      BY <1>2, <1>5, <1>18 DEF HeldBy
    <3>2. PICK k, S : k \in Nat /\ k = n /\ S = HeldBy(o)
      BY <1>5
    <3> QED
      BY <1>25, <3>1, <3>2, MaxIsNew
  <2>4. ASSUME NEW e \in list, NEW f \in list, e.serial = f.serial, ~e.dropForCommit, f.dropForCommit
        PROVE  e.nestLevel <= f.nestLevel
    <3>1. f \in o.pendingDeletes
      BY <1>20, <2>4
    <3>2. e \in o.pendingDeletes
      BY <1>18, <1>20, <2>4, <3>1
    <3> QED
      BY <1>5, <1>6, <2>4, <3>1, <3>2 DEF ListOK
  <2> QED
    BY <1>22, <1>25, <2>1, <2>2, <2>3, <2>4 DEF ListOK, Endings
<1>27. XidOK(x, r, {img})
  BY <1>10, <1>13, <1>22 DEF XidOK
<1>28. XactSettled(x, r, Images', img, Files')
  BY <1>3, <1>14, <1>24, <1>26, <1>27 DEF XactSettled
<1>29. Settles(x, r, img)
  <2>1. /\ nextSerial' \in {nextSerial, nextSerial + 1} /\ nextSerial \in HeldBy(r)
        /\ HeldBy(xact[x]) \subseteq HeldBy(r)
    BY <1>2, <1>3, <1>25 DEF o
  <2>2. \A gg \in Images' : ImageSettled(gg, Files', overtaken')
    BY <1>3, <1>14, <1>15, <1>16
  <2>3. \A s \in 1 .. (nextSerial - 1) : SameObject(s, Files, Now, Files', img)
    BY <1>3, <1>15, <1>17
  <2>4. /\ img.committed \subseteq Now.committed \cup {x}
        /\ img.ended \subseteq Now.ended \cup {x}
        /\ \A u \in Tids : img.tab[u].xid = x \/ img.tab[u] = Now.tab[u]
    BY <1>10, <1>11
  <2> QED
    BY <1>3, <1>4, <1>14, <1>28, <2>1, <2>2, <2>3, <2>4 DEF Settles
<1> QED
  BY <1>10, <1>22, <1>29, SettleStep


-----------------------------------------------------------------------------
(* The entries an end leaves.  A create and a drop of one object at its    *)
(* level have become one entry.                                            *)
CollapseOK(P, l, list) ==
    /\ list \subseteq Pending
    /\ \A e \in list :
         \/ /\ e \in P /\ ~e.sameTransCreateDrop
            /\ \A f \in P : f.serial = e.serial /\ f.dropForCommit # e.dropForCommit
                               => e.nestLevel < l \/ f.nestLevel < l
         \/ /\ e.dropForCommit /\ e.sameTransCreateDrop /\ e.nestLevel >= l
            /\ \E c \in P : /\ ~c.dropForCommit /\ c.serial = e.serial
                            /\ c.tid = e.tid /\ c.nestLevel = e.nestLevel
    /\ \A e, f \in list : e.serial = f.serial /\ e.dropForCommit = f.dropForCommit => e = f
    /\ \A e, f \in list : e.serial = f.serial /\ e.nestLevel >= l /\ f.nestLevel >= l => e = f
    /\ \A e \in P : e.nestLevel < l => e \in list
    /\ \A e \in P : ~e.dropForCommit =>
           \E f \in list : /\ f.serial = e.serial /\ f.tid = e.tid /\ f.nestLevel = e.nestLevel
                           /\ f.dropForCommit => f.sameTransCreateDrop
    /\ \A e \in P : \E f \in list : f.serial = e.serial

LEMMA CollapsedHas ==
    ASSUME NEW P \in SUBSET Pending, NEW l \in 1 .. 2,
           \A e \in P : ~e.sameTransCreateDrop,
           \A e, f \in P : e.serial = f.serial /\ e.dropForCommit = f.dropForCommit => e = f
    PROVE  CollapseOK(P, l, Collapsed(P, l))
<1> DEFINE Twin(c) == [c EXCEPT !.dropForCommit = TRUE, !.sameTransCreateDrop = TRUE]
           Partner(e) == {f \in P : Collapsible(e, f, l)}
           A == {e \in P : Partner(e) = {}}
           C == {c \in P : ~c.dropForCommit /\ Partner(c) # {}}
           B == {Twin(e) : e \in C}
<1>1. Collapsed(P, l) = A \cup B
  BY DEF Collapsed
<1>2. \A c \in P : /\ Twin(c).serial = c.serial /\ Twin(c).tid = c.tid
                   /\ Twin(c).nestLevel = c.nestLevel
                   /\ Twin(c).dropForCommit = TRUE /\ Twin(c).sameTransCreateDrop = TRUE
                   /\ c.dropForCommit \in BOOLEAN /\ c.nestLevel \in 1 .. 2
  BY DEF Pending
<1>3. \A e, f \in P : f \in Partner(e) <=>
        /\ f.serial = e.serial /\ f.dropForCommit # e.dropForCommit
        /\ f.nestLevel >= l /\ e.nestLevel >= l
  BY DEF Collapsible
<1>4. \A e \in P : Partner(e) \subseteq P
  OBVIOUS
<1> HIDE DEF Twin, Partner
<1>5. \A e \in A : /\ e \in P /\ ~e.sameTransCreateDrop
                   /\ \A f \in P : f.serial = e.serial /\ f.dropForCommit # e.dropForCommit
                                      => e.nestLevel < l \/ f.nestLevel < l
  BY <1>2, <1>3
<1>6. ASSUME NEW e \in B
      PROVE  \E c \in C : e = Twin(c)
  OBVIOUS
<1>7. ASSUME NEW c \in C
      PROVE  /\ c \in P /\ ~c.dropForCommit /\ c.nestLevel >= l
             /\ \E f \in P : f.dropForCommit /\ f.serial = c.serial /\ f.nestLevel >= l
  <2>1. PICK f \in P : f \in Partner(c)
    BY <1>4
  <2>2. /\ f.serial = c.serial /\ f.dropForCommit # c.dropForCommit
        /\ f.nestLevel >= l /\ c.nestLevel >= l
    BY <1>3, <2>1
  <2> QED
    BY <1>2, <2>2
<1>8. ASSUME NEW e \in A, NEW c \in C, e.serial = c.serial
      PROVE  e.nestLevel < l
  <2>1. PICK f \in P : f.dropForCommit /\ f.serial = c.serial /\ f.nestLevel >= l
    BY <1>7
  <2>2. CASE e.dropForCommit
    <3>1. ~c.dropForCommit /\ c \in P /\ c.nestLevel >= l /\ e \in P
      BY <1>7
    <3>2. c.nestLevel \in 1 .. 2
      BY <1>2, <3>1
    <3> QED
      BY <1>5, <1>8, <2>2, <3>1, <3>2
  <2>3. CASE ~e.dropForCommit
    <3>1. f.nestLevel \in 1 .. 2
      BY <1>2
    <3> QED
      BY <1>5, <1>8, <2>1, <2>3, <3>1
  <2> QED
    BY <2>2, <2>3
<1>9. ASSUME NEW e \in A, NEW c \in C, e.serial = c.serial, e.dropForCommit
      PROVE  FALSE
  <2>1. PICK f \in P : f.dropForCommit /\ f.serial = c.serial /\ f.nestLevel >= l
    BY <1>7
  <2>2. e \in P /\ e.dropForCommit \in BOOLEAN /\ f.dropForCommit \in BOOLEAN
    BY <1>2
  <2>3. e = f
    BY <1>9, <2>1, <2>2
  <2>4. e.nestLevel \in 1 .. 2 /\ e.nestLevel < l
    BY <1>2, <1>8, <1>9, <2>2
  <2> QED
    BY <2>1, <2>3, <2>4
<1>10. ASSUME NEW c \in C, NEW d \in C, c.serial = d.serial PROVE c = d
  <2>1. c \in P /\ d \in P /\ c.dropForCommit = FALSE /\ d.dropForCommit = FALSE
    BY <1>2
  <2> QED
    BY <1>10, <2>1
<1>11. ASSUME NEW e \in A \cup B, NEW f \in A \cup B, e.serial = f.serial,
              e.dropForCommit = f.dropForCommit
       PROVE  e = f
  <2>1. CASE e \in A /\ f \in A
    BY <1>11, <2>1
  <2>2. CASE e \in A /\ f \in B
    <3>1. PICK c \in C : f = Twin(c)
      BY <2>2
    <3>2. e.serial = c.serial /\ e.dropForCommit
      BY <1>2, <1>7, <1>11, <3>1
    <3> QED
      BY <1>9, <2>2, <3>2
  <2>3. CASE e \in B /\ f \in A
    <3>1. PICK c \in C : e = Twin(c)
      BY <2>3
    <3>2. f.serial = c.serial /\ f.dropForCommit
      BY <1>2, <1>7, <1>11, <3>1
    <3> QED
      BY <1>9, <2>3, <3>2
  <2>4. CASE e \in B /\ f \in B
    <3>1. PICK c \in C, d \in C : e = Twin(c) /\ f = Twin(d)
      BY <2>4
    <3>2. c.serial = d.serial
      BY <1>2, <1>7, <1>11, <3>1
    <3> QED
      BY <1>10, <3>1, <3>2
  <2> QED
    BY <2>1, <2>2, <2>3, <2>4
<1>12. ASSUME NEW e \in A \cup B, NEW f \in A \cup B, e.serial = f.serial,
              e.nestLevel >= l, f.nestLevel >= l
       PROVE  e = f
  <2>0. \A g \in A \cup B : g.nestLevel \in 1 .. 2
    BY <1>2, <1>7
  <2>1. CASE e \in A /\ f \in A
    <3>1. e \in P /\ f \in P /\ e.nestLevel \in 1 .. 2 /\ f.nestLevel \in 1 .. 2
      BY <1>2, <2>1
    <3>2. f.dropForCommit # e.dropForCommit => e.nestLevel < l \/ f.nestLevel < l
      BY <1>5, <1>12, <2>1, <3>1, Zenon
    <3>3. ~(e.nestLevel < l) /\ ~(f.nestLevel < l)
      BY <1>12, <3>1
    <3> QED
      BY <1>11, <1>12, <3>2, <3>3
  <2>2. CASE e \in A /\ f \in B
    <3>1. PICK c \in C : f = Twin(c)
      BY <2>2
    <3>2. e.serial = c.serial
      BY <1>2, <1>7, <1>12, <3>1
    <3> QED
      BY <1>8, <1>12, <2>0, <2>2, <3>2
  <2>3. CASE e \in B /\ f \in A
    <3>1. PICK c \in C : e = Twin(c)
      BY <2>3
    <3>2. f.serial = c.serial
      BY <1>2, <1>7, <1>12, <3>1
    <3> QED
      BY <1>8, <1>12, <2>0, <2>3, <3>2
  <2>4. CASE e \in B /\ f \in B
    <3>1. PICK c \in C, d \in C : e = Twin(c) /\ f = Twin(d)
      BY <2>4
    <3>2. c.serial = d.serial
      BY <1>2, <1>7, <1>12, <3>1
    <3> QED
      BY <1>10, <3>1, <3>2
  <2> QED
    BY <2>1, <2>2, <2>3, <2>4
<1>13. ASSUME NEW e \in P, e.nestLevel < l PROVE e \in A
  BY <1>2, <1>3, <1>4, <1>13
<1>14. ASSUME NEW e \in P, ~e.dropForCommit
       PROVE  \E f \in A \cup B : /\ f.serial = e.serial /\ f.tid = e.tid /\ f.nestLevel = e.nestLevel
                                  /\ f.dropForCommit => f.sameTransCreateDrop
  <2>1. CASE Partner(e) = {}
    BY <1>14, <2>1
  <2>2. CASE Partner(e) # {}
    <3>1. e \in C /\ Twin(e) \in B
      BY <1>14, <2>2
    <3> QED
      BY <1>2, <3>1
  <2> QED
    BY <2>1, <2>2
<1>15. ASSUME NEW e \in B
       PROVE  /\ e.dropForCommit /\ e.sameTransCreateDrop /\ e.nestLevel >= l
              /\ \E c \in P : /\ ~c.dropForCommit /\ c.serial = e.serial
                              /\ c.tid = e.tid /\ c.nestLevel = e.nestLevel
  <2>1. PICK c \in C : e = Twin(c)
    OBVIOUS
  <2> QED
    BY <1>2, <1>7, <2>1
<1> HIDE DEF A, B
<1>16. A \cup B \subseteq Pending /\ \A e \in P : \E f \in A \cup B : f.serial = e.serial
  BY <1>1, CollapsedIs
<1>17. PICK K : K = A \cup B
  OBVIOUS
<1>18. ASSUME NEW e \in K
       PROVE  \/ /\ e \in P /\ ~e.sameTransCreateDrop
                 /\ \A f \in P : f.serial = e.serial /\ f.dropForCommit # e.dropForCommit
                                    => e.nestLevel < l \/ f.nestLevel < l
              \/ /\ e.dropForCommit /\ e.sameTransCreateDrop /\ e.nestLevel >= l
                 /\ \E c \in P : /\ ~c.dropForCommit /\ c.serial = e.serial
                                 /\ c.tid = e.tid /\ c.nestLevel = e.nestLevel
  <2>1. CASE e \in A
    BY <1>5, <2>1, Zenon
  <2>2. CASE e \in B
    BY <1>15, <2>2, Zenon
  <2> QED
    BY <1>17, <2>1, <2>2
<1>19. /\ \A e, f \in K : e.serial = f.serial /\ e.dropForCommit = f.dropForCommit => e = f
       /\ \A e, f \in K : e.serial = f.serial /\ e.nestLevel >= l /\ f.nestLevel >= l => e = f
  BY <1>11, <1>12, <1>17, Zenon
<1>20. /\ \A e \in P : e.nestLevel < l => e \in K
       /\ \A e \in P : ~e.dropForCommit =>
             \E f \in K : /\ f.serial = e.serial /\ f.tid = e.tid /\ f.nestLevel = e.nestLevel
                          /\ f.dropForCommit => f.sameTransCreateDrop
       /\ K \subseteq Pending /\ \A e \in P : \E f \in K : f.serial = e.serial
  <2>1. \A e \in P : e.nestLevel < l => e \in K
    BY <1>13, <1>17
  <2>2. ASSUME NEW e \in P, ~e.dropForCommit
        PROVE  \E f \in K : /\ f.serial = e.serial /\ f.tid = e.tid /\ f.nestLevel = e.nestLevel
                            /\ f.dropForCommit => f.sameTransCreateDrop
    BY <1>14, <1>17, <2>2, Zenon
  <2>3. K \subseteq Pending /\ \A e \in P : \E f \in K : f.serial = e.serial
    BY <1>16, <1>17, Zenon
  <2> QED
    BY <2>1, <2>2, <2>3
<1>21. CollapseOK(P, l, K)
  BY <1>18, <1>19, <1>20, Zenon DEF CollapseOK
<1> QED
  BY <1>1, <1>17, <1>21

(* The end records for the entries acts. *)
EndsAt(img, acts, c, new, t) ==
    \/ new.ends[t] = img.ends[t] /\ \A e \in acts : e.tid # t
    \/ \E e \in acts : /\ e.tid = t /\ new.ends[t].serial = e.serial
                       /\ new.ends[t].state = Target(e, c)

LEMMA WithEndsHas ==
    ASSUME NEW img \in Image, NEW acts \in SUBSET Pending, NEW c \in BOOLEAN,
           NEW new, new = WithEnds(img, acts, c), NEW u \in Tids
    PROVE  EndsAt(img, acts, c, new, u)
<1> DEFINE mine(t) == {e \in acts : e.tid = t}
           end(e) == [NoEntry EXCEPT !.state = Target(e, c), !.serial = e.serial]
           ends == [t \in Tids |-> IF mine(t) = {} THEN img.ends[t]
                                   ELSE end(CHOOSE e \in mine(t) : TRUE)]
<1>1. WithEnds(img, acts, c) = [img EXCEPT !.ends = ends]
  BY DEF WithEnds
<1>2. ASSUME NEW e \in acts
      PROVE  end(e).serial = e.serial /\ end(e).state = Target(e, c)
  BY DEF NoEntry
<1> HIDE DEF end
<1>3. ASSUME NEW t \in Tids
      PROVE  \/ ends[t] = img.ends[t] /\ \A e \in acts : e.tid # t
             \/ \E e \in acts : e.tid = t /\ ends[t].serial = e.serial /\ ends[t].state = Target(e, c)
  <2>1. CASE mine(t) = {}
    BY <2>1
  <2>2. CASE mine(t) # {}
    <3> DEFINE e == CHOOSE e \in mine(t) : TRUE
    <3>1. e \in mine(t)
      BY <2>2
    <3>2. ends[t] = end(e)
      BY <2>2
    <3>3. e \in acts /\ e.tid = t
      BY <3>1
    <3> HIDE DEF e, ends
    <3> QED
      BY <1>2, <3>2, <3>3
  <2> QED
    BY <2>1, <2>2
<1> HIDE DEF ends
<1>4. [img EXCEPT !.ends = ends].ends = ends
  BY DEF Image
<1> QED
  BY <1>1, <1>3, <1>4 DEF EndsAt


(* A tuple that is still to be created is held by its creator. *)
LEMMA PendingTuple ==
    ASSUME FileInv, SettleInv, mode = "up", NEW t \in Tids, Now.tab[t].state = "CreatePending"
    PROVE  \E x \in Xacts : \E e \in xact[x].pendingDeletes :
              /\ x = Now.tab[t].xid /\ e.tid = t /\ e.serial = Now.tab[t].serial
              /\ Untouched(xact[x], e) => ~e.dropForCommit
<1> DEFINE s == Now.tab[t].serial
<1>1. /\ Now \in Image /\ Now \in Images /\ ImageOK(Now, nextSerial) /\ nextSerial \in Nat
      /\ ImageSettled(Now, Files, overtaken)
  <2>1. Now \in Images /\ Images \subseteq Image /\ ImageOK(Now, nextSerial)
    BY ImagesAre
  <2> QED
    BY <2>1, Numbers DEF SettleInv, FileInv
<1>2. s # 0 /\ s \in 1 .. (nextSerial - 1)
  BY <1>1, ImageNumbers DEF ImageOK
<1>3. \A u \in Tids : Now.tab[u].serial = s => u = t
  BY <1>2, OneTuple
<1>4. \A u \in Tids : ~Shows(Images, u, "Created", s)
  BY <1>1, <1>3 DEF Shows
<1>5. s \in InUse
  <2>1. SUFFICES ASSUME s \notin InUse PROVE FALSE
    OBVIOUS
  <2>2. Unheld(s, Images, Now, Files, overtaken)
    BY <1>2, <2>1 DEF SettleInv
  <2> QED
    BY <1>4, <2>2 DEF Unheld
<1>6. PICK x \in Xacts : s \in HeldBy(xact[x])
  BY <1>5, InUseIs
<1>7. PICK e \in xact[x].pendingDeletes : e.serial = s
  BY <1>6 DEF HeldBy
<1>8. PICK r \in Xact, g \in Image : r = xact[x] /\ g = Now
  BY <1>1, XactFacts
<1>9. PICK L, fs : L = Images /\ fs = Files
  OBVIOUS
<1>10. /\ ListOK(r) /\ PhaseOK(r) /\ g \in L
       /\ \A f \in r.pendingDeletes : EntrySettled(x, r, f, L, g, fs)
  BY <1>1, <1>8, <1>9, SettleFacts, XactFacts
<1>11. \A f \in r.pendingDeletes : f.tid \in Tids
  BY DEF Xact, Pending
<1> HIDE DEF s
<1>12. \A f \in r.pendingDeletes : f.serial = s /\ g.tab[f.tid].serial = s => f.tid = t
  BY <1>3, <1>8, <1>11
<1>13. g.tab[t].state = "CreatePending" /\ g.tab[t].serial = s /\ s \in Serials(g)
  BY <1>8 DEF Serials, s
<1>14. ASSUME NEW f \in r.pendingDeletes, f.serial = s, ~f.dropForCommit, Untouched(r, f)
       PROVE  f.tid = t /\ g.tab[t].xid = x
  BY <1>10, <1>12, <1>14 DEF EntrySettled, UntouchedOK, Shows, ShowsNew
<1>15. CASE Untouched(r, e)
  <2>1. UntouchedOK(x, r, e, L, g)
    BY <1>7, <1>8, <1>10, <1>15 DEF EntrySettled
  <2>2. \A u \in Tids : ~Shows(L, u, "Created", s)
    BY <1>4, <1>9
  <2>3. PICK c \in r.pendingDeletes : Untouched(r, c) /\ ~c.dropForCommit /\ c.serial = s
    BY <1>7, <1>8, <1>11, <1>15, <2>1, <2>2 DEF UntouchedOK
  <2>4. c.tid = t /\ g.tab[t].xid = x
    BY <1>14, <2>3
  <2> QED
    BY <1>8, <2>3, <2>4 DEF s
<1>16. CASE ~Untouched(r, e)
  <2>1. TouchedOK(x, r, e, L, g, fs) /\ e \in r.pendingDeletes
    BY <1>7, <1>8, <1>10, <1>16 DEF EntrySettled
  <2>2. TargetOf(r, e) \in {"Created", "AbortingCreate", "DropPending"}
    BY <1>16 DEF Untouched, TargetOf, Target
  <2>3. r.pass \in {1, 2}
    <3>1. r.phase \in Endings \cup {"done"} /\ r.pass \in 0 .. 2
      BY <1>16 DEF Xact, Untouched, InWork, Endings
    <3> QED
      BY <1>10, <2>1, <3>1 DEF ListOK
  <2>4. \A u \in Tids : ~Shows(L, u, "Created", s)
    BY <1>4, <1>9
  <2>5. e.tid \in Tids /\ (g.tab[e.tid].serial = s => e.tid = t)
    BY <1>7, <1>11, <1>12, <2>1
  <2>6. r.pass = 1 /\ e \in r.todo
    BY <1>7, <1>13, <2>1, <2>2, <2>3, <2>4, <2>5 DEF TouchedOK
  <2>7. g.tab[e.tid].serial = s
    BY <1>7, <2>1, <2>6 DEF TouchedOK
  <2>8. e.tid = t /\ g.tab[t].xid = x
    BY <1>13, <2>1, <2>5, <2>6, <2>7 DEF TouchedOK
  <2> QED
    BY <1>7, <1>8, <1>16, <2>8 DEF s
<1> QED
  BY <1>15, <1>16

(* A transaction at work has the tuple of every entry where the entry says. *)
LEMMA EntryAt ==
    ASSUME FileInv, SettleInv, NEW x \in Xacts, InWork(xact[x]), NEW e \in xact[x].pendingDeletes
    PROVE  /\ e.tid \in Tids /\ e.serial \in 1 .. MaxSerial /\ Now.tab[e.tid].serial = e.serial
           /\ ~e.dropForCommit => ShowsNew(Images, e.tid, e.serial, x)
           /\ e.dropForCommit =>
                 \/ \E c \in xact[x].pendingDeletes :
                       ~c.dropForCommit /\ c.serial = e.serial /\ c.tid = e.tid
                 \/ e.serial \in Now.live /\ Shows(Images, e.tid, "Created", e.serial)
<1>1. /\ xact[x] \in Xact /\ Now \in Images
      /\ \A f \in xact[x].pendingDeletes : WorkOK(x, xact[x].pendingDeletes, f, Images, Now)
  BY SettleFacts, InWorkIs
<1>2. e.tid \in Tids /\ e.serial \in 1 .. MaxSerial
  BY <1>1 DEF Xact, Pending
<1>3. \A f \in xact[x].pendingDeletes : ~f.dropForCommit => ShowsNew(Images, f.tid, f.serial, x)
  BY <1>1 DEF WorkOK
<1>4. Now.tab[e.tid].serial = e.serial
  BY <1>1, <1>3 DEF WorkOK, Shows, ShowsNew
<1> QED
  BY <1>1, <1>2, <1>3, <1>4 DEF WorkOK


(* The entries that an end of x acts on. *)
ListOf(x) == Collapsed(xact[x].pendingDeletes, xact[x].level)
ActsOf(x, phase) == EndActions(ListOf(x), xact[x].level, phase = "commit")

MayEnd(x, phase) ==
    /\ mode = "up" /\ xact[x].phase \in {"run", "create"}
    /\ phase \in Endings /\ xact[x].level = (IF phase = "subabort" THEN 2 ELSE 1)

LEMMA ListHas ==
    ASSUME FileInv, SettleInv, NEW x \in Xacts, NEW phase, MayEnd(x, phase)
    PROVE  /\ InWork(xact[x]) /\ xact[x].pendingDeletes \subseteq Pending /\ xact[x].level \in 1 .. 2
           /\ CollapseOK(xact[x].pendingDeletes, xact[x].level, ListOf(x))
<1>1. /\ xact[x] \in Xact /\ ListOK(xact[x]) /\ EntriesOK(xact[x], nextSerial)
  BY SettleFacts, XactFacts
<1>2. InWork(xact[x])
  BY DEF MayEnd, InWork
<1>3. PICK P \in SUBSET Pending, l \in 1 .. 2 : P = xact[x].pendingDeletes /\ l = xact[x].level
  BY <1>1 DEF Xact
<1>4. /\ \A e \in P : ~e.sameTransCreateDrop
      /\ \A e, f \in P : e.serial = f.serial /\ e.dropForCommit = f.dropForCommit => e = f
  BY <1>1, <1>2, <1>3 DEF EntriesOK, ListOK
<1>5. CollapseOK(P, l, Collapsed(P, l))
  BY <1>4, CollapsedHas
<1> QED
  BY <1>2, <1>3, <1>5 DEF ListOf


(* What the tuples of those entries look like. *)
LEMMA ActsAre ==
    ASSUME FileInv, SettleInv, NEW x \in Xacts, NEW phase, MayEnd(x, phase),
           NEW e \in ActsOf(x, phase)
    PROVE  LET T == Target(e, phase = "commit")
               u == Now.tab[e.tid]
           IN  /\ e \in ListOf(x) /\ e \in Pending /\ e.nestLevel >= xact[x].level /\ e.tid \in Tids
               /\ T \in {"Created", "DropPending", "AbortingCreate"}
               /\ u.serial = e.serial /\ u.state \in Expected[T]
               /\ u.state = "CreatePending" => u.xid = x
               /\ T = "DropPending" => e.serial \in Now.live
               /\ T = "Created" => /\ phase = "commit" /\ e \in xact[x].pendingDeletes
                                   /\ ~e.dropForCommit
                                   /\ \A f \in xact[x].pendingDeletes :
                                         f.serial = e.serial => ~f.dropForCommit
               /\ \A f \in ListOf(x) : f.serial = e.serial => f = e
<1>1. PICK P, l, list : P = xact[x].pendingDeletes /\ l = xact[x].level /\ list = ListOf(x)
  OBVIOUS
<1>2. /\ InWork(xact[x]) /\ P \subseteq Pending /\ l \in 1 .. 2 /\ CollapseOK(P, l, list)
      /\ phase \in Endings /\ l = (IF phase = "subabort" THEN 2 ELSE 1)
  BY <1>1, ListHas DEF MayEnd
<1>3. /\ \A f, g \in P : f.serial = g.serial /\ f.dropForCommit = g.dropForCommit => f = g
      /\ \A f, g \in P : f.serial = g.serial /\ ~f.dropForCommit /\ g.dropForCommit
                            => f.nestLevel <= g.nestLevel
      /\ Now \in Images
  BY <1>1, <1>2, SettleFacts DEF ListOK
<1>4. \A f \in P : /\ f.tid \in Tids /\ Now.tab[f.tid].serial = f.serial
                   /\ ~f.dropForCommit => /\ Now.tab[f.tid].state = "CreatePending"
                                          /\ Now.tab[f.tid].xid = x
                   /\ f.dropForCommit =>
                         \/ \E c \in P : ~c.dropForCommit /\ c.serial = f.serial /\ c.tid = f.tid
                         \/ f.serial \in Now.live /\ Now.tab[f.tid].state = "Created"
  BY <1>1, <1>2, <1>3, EntryAt DEF Shows, ShowsNew
<1>5. /\ e \in list /\ e.nestLevel >= l /\ Target(e, phase = "commit") # "None" /\ e \in Pending
  BY <1>1, <1>2 DEF ActsOf, EndActions, CollapseOK
<1>6. /\ \A f \in P : f.nestLevel \in 1 .. 2 /\ f.dropForCommit \in BOOLEAN
      /\ e.nestLevel \in 1 .. 2 /\ e.dropForCommit \in BOOLEAN
  BY <1>2, <1>5 DEF Pending
<1>7. phase = "commit" => ~\E f \in P : f.nestLevel < l
  BY <1>2, <1>6
<1>8. CASE e \in P /\ ~e.dropForCommit
  <2>1. \A f \in P : f.serial = e.serial /\ f.dropForCommit => f.nestLevel < l
    <3> SUFFICES ASSUME NEW f \in P, f.serial = e.serial, f.dropForCommit PROVE f.nestLevel < l
      OBVIOUS
    <3>1. e.sameTransCreateDrop => e.dropForCommit
      BY <1>8, <1>2, <1>5 DEF CollapseOK
    <3>2. e.nestLevel < l \/ f.nestLevel < l
      BY <1>2, <1>5, <1>8 DEF CollapseOK
    <3> QED
      BY <1>2, <1>5, <1>6, <3>2
  <2>2. /\ Target(e, phase = "commit") \in {"Created", "AbortingCreate"}
        /\ Target(e, phase = "commit") = "Created" => phase = "commit"
    BY <1>8 DEF Target
  <2>3. Expected["Created"] = {"CreatePending"} /\ Expected["AbortingCreate"] = {"CreatePending"}
    BY DEF Expected
  <2>4. \A f \in list : f.serial = e.serial => f = e
    <3> SUFFICES ASSUME NEW f \in list, f.serial = e.serial PROVE f = e
      OBVIOUS
    <3>1. CASE f.nestLevel >= l
      BY <1>2, <1>5, <3>1 DEF CollapseOK
    <3>2. CASE ~(f.nestLevel >= l)
      <4>1. f \in P
        BY <1>2, <3>2 DEF CollapseOK
      <4>2. CASE f.dropForCommit
        BY <1>2, <1>3, <1>5, <1>6, <1>8, <3>2, <4>1, <4>2
      <4>3. CASE ~f.dropForCommit
        BY <1>3, <1>6, <1>8, <4>1, <4>3
      <4> QED
        BY <4>2, <4>3
    <3> QED
      BY <3>1, <3>2
  <2>5. phase = "commit" => \A f \in P : f.serial = e.serial => ~f.dropForCommit
    BY <1>7, <2>1
  <2> QED
    BY <1>1, <1>4, <1>5, <1>8, <2>2, <2>3, <2>4, <2>5
<1>9. CASE e \in P /\ e.dropForCommit /\ ~e.sameTransCreateDrop
  <2>1. phase = "commit" /\ Target(e, phase = "commit") = "DropPending"
    BY <1>5, <1>9 DEF Target
  <2>2. ASSUME NEW c \in P, ~c.dropForCommit, c.serial = e.serial PROVE FALSE
    <3>1. e.nestLevel < l \/ c.nestLevel < l
      BY <1>2, <1>5, <1>9, <2>2 DEF CollapseOK
    <3> QED
      BY <1>7, <1>9, <2>1, <3>1
  <2>3. e.serial \in Now.live /\ Now.tab[e.tid].state = "Created"
    BY <1>4, <1>9, <2>2
  <2>4. Expected["DropPending"] = {"Created"}
    BY DEF Expected
  <2>5. \A f \in list : f.serial = e.serial => f = e
    <3> SUFFICES ASSUME NEW f \in list, f.serial = e.serial PROVE f = e
      OBVIOUS
    <3>1. f \in Pending /\ l = 1
      BY <1>2, <2>1 DEF CollapseOK
    <3>2. f.nestLevel >= l
      BY <3>1 DEF Pending
    <3> QED
      BY <1>2, <1>5, <3>2 DEF CollapseOK
  <2> QED
    BY <1>1, <1>4, <1>5, <1>9, <2>1, <2>3, <2>4, <2>5
<1>10. CASE e \notin P \/ e.sameTransCreateDrop
  <2>1. PICK c \in P : /\ e.dropForCommit /\ e.sameTransCreateDrop
                       /\ ~c.dropForCommit /\ c.serial = e.serial
                       /\ c.tid = e.tid /\ c.nestLevel = e.nestLevel
    BY <1>2, <1>5, <1>10 DEF CollapseOK
  <2>2. Target(e, phase = "commit") = "AbortingCreate"
    BY <2>1 DEF Target
  <2>3. Expected["AbortingCreate"] = {"CreatePending"}
    BY DEF Expected
  <2>4. /\ e.tid \in Tids /\ Now.tab[e.tid].serial = e.serial
        /\ Now.tab[e.tid].state = "CreatePending" /\ Now.tab[e.tid].xid = x
    BY <1>4, <2>1
  <2>5. \A f \in list : f.serial = e.serial => f = e
    <3> SUFFICES ASSUME NEW f \in list, f.serial = e.serial PROVE f = e
      OBVIOUS
    <3>1. CASE f.nestLevel >= l
      BY <1>2, <1>5, <3>1 DEF CollapseOK
    <3>2. CASE ~(f.nestLevel >= l)
      <4>1. f \in P
        BY <1>2, <3>2 DEF CollapseOK
      <4>2. CASE f.dropForCommit
        BY <1>2, <1>3, <1>5, <1>6, <2>1, <3>2, <4>1, <4>2
      <4>3. CASE ~f.dropForCommit
        <5>1. f.dropForCommit = c.dropForCommit /\ f.serial = c.serial
          BY <1>6, <2>1, <4>1, <4>3
        <5>2. f = c
          BY <1>3, <4>1, <5>1
        <5> QED
          BY <1>5, <2>1, <3>2, <5>2
      <4> QED
        BY <4>2, <4>3
    <3> QED
      BY <3>1, <3>2
  <2> QED
    BY <1>1, <1>5, <2>2, <2>3, <2>4, <2>5
<1> QED
  BY <1>8, <1>9, <1>10


(* The image that the end of x writes. *)
EndImage(x, phase, img) ==
    /\ img.tab = Now.tab
    /\ img.ended \subseteq Now.ended \cup {x}
    /\ phase = "subabort" => img.ended = Now.ended
    /\ img.committed \subseteq Now.committed \cup {x}
    /\ phase # "commit" => img.committed = Now.committed /\ img.live = Now.live
    /\ phase = "commit" =>
          \A s : s \in img.live <=>
              /\ s \in Now.live \/ \E q \in xact[x].catalog : ~q.deleted /\ q.serial = s
              /\ ~\E q \in xact[x].catalog : q.deleted /\ q.serial = s
    /\ \A t \in Tids :
          \/ img.ends[t] = Now.ends[t] /\ \A e \in ActsOf(x, phase) : e.tid # t
          \/ \E e \in ActsOf(x, phase) : /\ e.tid = t /\ img.ends[t].serial = e.serial
                                         /\ img.ends[t].state = Target(e, phase = "commit")

(* An end that does not act on a tuple. *)
LEMMA NotActedOn ==
    ASSUME FileInv, SettleInv, NEW x \in Xacts, NEW phase, MayEnd(x, phase), NEW t \in Tids,
           \A e \in ActsOf(x, phase) : e.tid # t
    PROVE  /\ phase = "commit" /\ Now.tab[t].serial # 0 => Now.tab[t].serial \notin HeldBy(xact[x])
           /\ phase # "subabort" /\ Now.tab[t].state = "CreatePending" => Now.tab[t].xid # x
<1>1. PICK P, l, list : P = xact[x].pendingDeletes /\ l = xact[x].level /\ list = ListOf(x)
  OBVIOUS
<1>2. /\ InWork(xact[x]) /\ P \subseteq Pending /\ l \in 1 .. 2 /\ CollapseOK(P, l, list)
      /\ mode = "up" /\ l = (IF phase = "subabort" THEN 2 ELSE 1)
  BY <1>1, ListHas DEF MayEnd
<1>3. \A e \in list : e.nestLevel >= 1
  BY <1>2 DEF CollapseOK, Pending
<1>4. ASSUME phase = "commit", Now.tab[t].serial # 0, Now.tab[t].serial \in HeldBy(xact[x])
      PROVE  FALSE
  <2>1. PICK f \in P : f.serial = Now.tab[t].serial
    BY <1>1, <1>4 DEF HeldBy
  <2>2. PICK e \in list : e.serial = f.serial
    BY <1>2 DEF CollapseOK
  <2>3. Target(e, TRUE) # "None"
    BY DEF Target
  <2>4. e \in ActsOf(x, phase)
    BY <1>1, <1>2, <1>3, <1>4, <2>3 DEF ActsOf, EndActions
  <2>5. e.tid \in Tids /\ Now.tab[e.tid].serial = e.serial
    BY <2>4, ActsAre
  <2>6. e.tid = t
    BY <1>4, <2>1, <2>2, <2>5, OneTuple
  <2> QED
    BY <2>4, <2>6
<1>5. ASSUME phase # "subabort", Now.tab[t].state = "CreatePending", Now.tab[t].xid = x
      PROVE  FALSE
  <2>1. PICK f \in P : f.tid = t /\ (Untouched(xact[x], f) => ~f.dropForCommit)
    BY <1>1, <1>2, <1>5, PendingTuple
  <2>2. ~f.dropForCommit
    BY <1>2, <2>1 DEF Untouched
  <2>3. PICK e \in list : e.tid = t /\ (e.dropForCommit => e.sameTransCreateDrop)
    BY <1>2, <2>1, <2>2 DEF CollapseOK
  <2>4. Target(e, phase = "commit") # "None"
    BY <2>3 DEF Target
  <2>5. e \in ActsOf(x, phase)
    BY <1>1, <1>2, <1>3, <1>5, <2>4 DEF ActsOf, EndActions
  <2> QED
    BY <2>3, <2>5
<1> QED
  BY <1>4, <1>5

LEMMA EndImageSettled ==
    ASSUME FileInv, SettleInv, NEW x \in Xacts, NEW phase, MayEnd(x, phase),
           NEW img \in Image, EndImage(x, phase, img)
    PROVE  /\ ImageSettled(img, Files, overtaken)
           /\ \A e \in ActsOf(x, phase) : /\ img.ends[e.tid].serial = e.serial
                                          /\ img.ends[e.tid].state = Target(e, phase = "commit")
                                          /\ Target(e, phase = "commit") = "Created" => e.serial \in img.live
           /\ \A s : s \notin HeldBy(xact[x]) => (s \in img.live <=> s \in Now.live)
<1>1. ImageSettled(Now, Files, overtaken) /\ ListOK(xact[x]) /\ RowsOK(xact[x], nextSerial)
      /\ EntriesOK(xact[x], nextSerial) /\ InWork(xact[x])
  BY SettleFacts, XactFacts DEF MayEnd, InWork
<1>2. \A s : s \notin HeldBy(xact[x]) => (s \in img.live <=> s \in Now.live)
  <2>1. \A q \in xact[x].catalog : q.serial \in HeldBy(xact[x])
    BY <1>1, RowsHeld
  <2> QED
    BY <2>1 DEF EndImage
<1>3. PICK acts : acts = ActsOf(x, phase)
  OBVIOUS
<1>4. ASSUME NEW e \in acts
      PROVE  /\ Target(e, phase = "commit") \in {"Created", "DropPending", "AbortingCreate"}
             /\ Now.tab[e.tid].serial = e.serial /\ e.serial # 0 /\ e.tid \in Tids
             /\ Now.tab[e.tid].state \in Expected[Target(e, phase = "commit")]
             /\ Now.tab[e.tid].state = "CreatePending" => Now.tab[e.tid].xid = x
             /\ \A f \in acts : f.serial = e.serial => f = e
  <2>1. e \in Pending /\ \A f \in acts : f \in ListOf(x)
    BY <1>3, ActsAre
  <2>2. e.serial # 0
    BY <2>1 DEF Pending
  <2> QED
    BY <1>3, <2>1, <2>2, ActsAre
<1>5. ASSUME NEW e \in acts
      PROVE  /\ img.ends[e.tid].serial = e.serial
             /\ img.ends[e.tid].state = Target(e, phase = "commit")
  <2>1. e.tid \in Tids
    BY <1>4
  <2>2. PICK f \in acts : /\ f.tid = e.tid /\ img.ends[e.tid].serial = f.serial
                          /\ img.ends[e.tid].state = Target(f, phase = "commit")
    BY <1>3, <2>1 DEF EndImage
  <2>3. f.serial = e.serial
    BY <1>4, <2>2
  <2> QED
    BY <1>4, <2>2, <2>3
<1>6. ASSUME NEW e \in acts, Target(e, phase = "commit") = "Created"
      PROVE  e.serial \in img.live
  <2>1. /\ phase = "commit" /\ e \in xact[x].pendingDeletes /\ ~e.dropForCommit
        /\ \A f \in xact[x].pendingDeletes : f.serial = e.serial => ~f.dropForCommit
    BY <1>3, <1>6, ActsAre
  <2>2. \E q \in xact[x].catalog : ~q.deleted /\ q.serial = e.serial
    BY <1>1, <2>1 DEF EntriesOK
  <2>3. ~\E q \in xact[x].catalog : q.deleted /\ q.serial = e.serial
    BY <1>1, <2>1 DEF ListOK
  <2> QED
    BY <2>1, <2>2, <2>3 DEF EndImage
<1>7. PICK g, fs, ov : g = Now /\ fs = Files /\ ov = overtaken
  OBVIOUS
<1>8. ImageSettled(g, fs, ov)
  BY <1>1, <1>7
<1>9. img.tab = g.tab
  BY <1>7 DEF EndImage
<1>10. ASSUME NEW t \in Tids PROVE TupleSettled(img, t, ov)
  <2>1. TupleSettled(g, t, ov)
    BY <1>8 DEF ImageSettled
  <2>2. CASE \E e \in acts : e.tid = t
    <3>1. PICK e \in acts : e.tid = t
      BY <2>2
    <3>2. PICK T : T = Target(e, phase = "commit")
      OBVIOUS
    <3>3. /\ T \in {"Created", "DropPending", "AbortingCreate"} /\ g.tab[t].serial = e.serial
          /\ g.tab[t].state \in Expected[T]
          /\ g.tab[t].state = "CreatePending" => g.tab[t].xid = x
          /\ img.ends[t].serial = e.serial /\ img.ends[t].state = T
          /\ T = "Created" => e.serial \in img.live
      BY <1>4, <1>5, <1>6, <1>7, <3>1, <3>2
    <3>4. /\ Expected["Created"] = {"CreatePending"} /\ Expected["DropPending"] = {"Created"}
          /\ Expected["AbortingCreate"] = {"CreatePending"}
      BY DEF Expected
    <3>5. g.tab[t].state = "Created" => T = "DropPending"
      BY <3>3, <3>4
    <3>6. img.tab[t] = g.tab[t]
      BY <1>9
    <3>7. g.tab[t].state = "Free" <=> g.tab[t].serial = 0
      BY <2>1 DEF TupleSettled
    <3> QED
      BY <3>3, <3>5, <3>6, <3>7 DEF TupleSettled
  <2>3. CASE \A e \in acts : e.tid # t
    <3>1. /\ phase = "commit" /\ g.tab[t].serial # 0 => g.tab[t].serial \notin HeldBy(xact[x])
          /\ phase # "subabort" /\ g.tab[t].state = "CreatePending" => g.tab[t].xid # x
      BY <1>3, <1>7, <2>3, NotActedOn
    <3>2. img.ends[t] = g.ends[t] /\ img.tab[t] = g.tab[t]
      BY <1>3, <1>7, <1>9, <2>3 DEF EndImage
    <3>3. g.tab[t].serial # 0 => (g.tab[t].serial \in img.live <=> g.tab[t].serial \in g.live)
      BY <1>2, <1>7, <3>1 DEF EndImage
    <3>4. g.tab[t].state = "CreatePending" => /\ g.tab[t].xid \in img.ended => g.tab[t].xid \in g.ended
                                              /\ g.tab[t].xid \in img.committed => g.tab[t].xid \in g.committed
      BY <1>7, <3>1 DEF EndImage
    <3>5. (g.tab[t].state = "Free" <=> g.tab[t].serial = 0) /\ g.ends[t].state # "Free"
      BY <2>1 DEF TupleSettled
    <3>6. g.ends[t].state = "Created" /\ g.ends[t].serial = g.tab[t].serial => g.tab[t].serial # 0
      <4>1. g \in Image
        BY <1>7, XactFacts
      <4>2. \A s \in g.live : s # 0
        BY <4>1, ImageNumbers
      <4> QED
        BY <2>1, <4>2 DEF TupleSettled
    <3> QED
      BY <2>1, <3>2, <3>3, <3>4, <3>5, <3>6 DEF TupleSettled
  <2> QED
    BY <2>2, <2>3
<1>11. ImageSettled(img, fs, ov)
  BY <1>8, <1>9, <1>10 DEF ImageSettled, Serials
<1> QED
  BY <1>2, <1>3, <1>5, <1>6, <1>7, <1>11


LEMMA EndingFields ==
    ASSUME NEW o \in Xact, NEW phase
    PROVE  LET list == Collapsed(o.pendingDeletes, o.level)
           IN  /\ EndingOf(o, phase).pass = 1
               /\ EndingOf(o, phase).todo = {e \in list : e.nestLevel >= o.level}
<1> DEFINE list == Collapsed(o.pendingDeletes, o.level)
           todo == {e \in list : e.nestLevel >= o.level}
<1>1. EndingOf(o, phase) = [o EXCEPT !.phase = phase, !.pendingDeletes = list, !.pass = 1, !.todo = todo]
  BY DEF EndingOf
<1> HIDE DEF list, todo
<1>2. EndingOf(o, phase).pass = 1 /\ EndingOf(o, phase).todo = todo
  BY <1>1 DEF Xact
<1> QED
  BY <1>2 DEF list, todo

LEMMA EndingSettles ==
    ASSUME FileInv, SettleInv, NEW x \in Xacts, NEW phase, MayEnd(x, phase),
           NEW img \in Image, EndImage(x, phase, img), Written(img), mode' = "up",
           xact' = [xact EXCEPT ![x] = EndingOf(xact[x], phase)],
           UNCHANGED <<Files, nextSerial, overtaken>>
    PROVE  SettleInv'
<1>1. PICK o \in Xact : o = xact[x]
  BY XactFacts
<1>2. PICK P, l, list, acts, r : /\ P = o.pendingDeletes /\ l = o.level /\ list = ListOf(x)
                                 /\ acts = ActsOf(x, phase) /\ r = EndingOf(o, phase)
  OBVIOUS
<1>3. /\ InWork(o) /\ P \subseteq Pending /\ l \in 1 .. 2 /\ CollapseOK(P, l, list)
      /\ mode = "up" /\ phase \in Endings /\ l = (IF phase = "subabort" THEN 2 ELSE 1)
      /\ o.phase \in {"run", "create"}
      /\ acts = {e \in list : e.nestLevel >= l /\ Target(e, phase = "commit") # "None"}
  BY <1>1, <1>2, ListHas DEF MayEnd, ActsOf, EndActions
<1>4. /\ ListOK(o) /\ XidOK(x, o, Images) /\ RowsOK(o, nextSerial) /\ EntriesOK(o, nextSerial)
      /\ Now \in Images /\ Images \subseteq Image /\ Now.live \subseteq Files
      /\ \A g \in Images : ImageSettled(g, Files, overtaken)
  BY <1>1, SettleFacts, XactFacts
<1>5. /\ r \in Xact /\ r.phase = phase /\ r.level = l /\ r.catalog = o.catalog
      /\ r.pendingDeletes = list /\ HeldBy(r) = HeldBy(o)
      /\ r.pass = 1 /\ r.todo = {e \in list : e.nestLevel >= l}
  <2>1. list = Collapsed(o.pendingDeletes, o.level)
    BY <1>1, <1>2 DEF ListOf
  <2>2. PICK n, ph : n = nextSerial /\ ph = phase
    OBVIOUS
  <2>3. ph \in {"commit", "abort", "subabort"} /\ (ph = "subabort" => o.level = 2) /\ (ph # "subabort" => o.level = 1)
        /\ RowsOK(o, n) /\ EntriesOK(o, n)
    BY <1>2, <1>3, <1>4, <2>2 DEF Endings
  <2>4. LET z == EndingOf(o, ph)
        IN  /\ z \in Xact /\ z.phase = ph /\ z.level = o.level /\ z.catalog = o.catalog
            /\ z.pendingDeletes = Collapsed(o.pendingDeletes, o.level)
            /\ HeldBy(z) = HeldBy(o)
    BY <1>3, <2>3, EndingIs
  <2>5. r.pass = 1 /\ r.todo = {e \in list : e.nestLevel >= l}
    BY <1>2, <2>1, EndingFields
  <2> QED
    BY <1>2, <2>1, <2>2, <2>4, <2>5
<1>6. Now' = img /\ img \in Images' /\ Images' \subseteq Images \cup {img}
  BY WrittenImages
<1>7. /\ ImageSettled(img, Files, overtaken) /\ img.tab = Now.tab
      /\ \A e \in acts : /\ img.ends[e.tid].serial = e.serial
                         /\ img.ends[e.tid].state = Target(e, phase = "commit")
                         /\ Target(e, phase = "commit") = "Created" => e.serial \in img.live
      /\ \A s : s \notin HeldBy(o) => (s \in img.live <=> s \in Now.live)
  BY <1>1, <1>2, EndImageSettled DEF EndImage
<1>8. /\ \A t, st, s : Shows(Images, t, st, s) => Shows(Images', t, st, s)
      /\ \A t, s : ShowsNew(Images, t, s, x) => ShowsNew(Images', t, s, x)
  BY <1>4, <1>6, <1>7 DEF Shows, ShowsNew
<1>9. ASSUME NEW e \in list, Untouched(r, e) PROVE UntouchedOK(x, r, e, Images', img)
  <2>1. ~InWork(r) /\ (e.nestLevel < l \/ Target(e, phase = "commit") = "None")
    BY <1>3, <1>5, <1>9 DEF InWork, Endings, Untouched, TargetOf
  <2>2. e \in P /\ ~e.sameTransCreateDrop /\ e.nestLevel \in 1 .. 2
    <3>1. e.sameTransCreateDrop => e.dropForCommit /\ e.nestLevel >= l /\ e.nestLevel \in 1 .. 2
      BY <1>3 DEF CollapseOK, Pending
    <3>2. ~e.sameTransCreateDrop
      BY <1>3, <2>1, <3>1 DEF Target
    <3> QED
      BY <1>3, <3>2 DEF CollapseOK, Pending
  <2>3. CASE ~e.dropForCommit
    BY <1>1, <1>2, <1>3, <1>8, <2>2, <2>3, EntryAt DEF UntouchedOK
  <2>4. CASE e.dropForCommit /\ \E c \in P : ~c.dropForCommit /\ c.serial = e.serial /\ c.tid = e.tid
    <3>1. PICK c \in P : ~c.dropForCommit /\ c.serial = e.serial /\ c.tid = e.tid
      BY <2>4
    <3>2. c.nestLevel < l
      <4>1. c.nestLevel \in 1 .. 2 /\ c.dropForCommit \in BOOLEAN /\ e.dropForCommit \in BOOLEAN
        BY <1>3, <2>2 DEF Pending
      <4>2. c.dropForCommit # e.dropForCommit
        BY <2>4, <3>1, <4>1
      <4>3. e.nestLevel < l \/ c.nestLevel < l
        BY <1>3, <2>2, <3>1, <4>2 DEF CollapseOK
      <4>4. c.nestLevel <= e.nestLevel
        BY <1>2, <1>3, <1>4, <2>2, <2>4, <3>1 DEF ListOK
      <4> QED
        BY <1>3, <2>2, <4>1, <4>3, <4>4
    <3>3. c \in r.pendingDeletes /\ Untouched(r, c)
      BY <1>3, <1>5, <3>2 DEF CollapseOK, Untouched
    <3> QED
      BY <2>4, <3>1, <3>3 DEF UntouchedOK
  <2>5. CASE e.dropForCommit /\ e.serial \in Now.live /\ Shows(Images, e.tid, "Created", e.serial)
    <3>1. phase # "commit"
      <4>1. phase = "commit" => Target(e, phase = "commit") # "None" /\ l = 1
        BY <1>3 DEF Target
      <4> QED
        BY <2>1, <2>2, <4>1
    <3>2. img.live = Now.live
      BY <3>1 DEF EndImage
    <3> QED
      BY <1>8, <2>5, <3>2 DEF UntouchedOK
  <2> QED
    BY <1>1, <1>2, <1>3, <2>2, <2>3, <2>4, <2>5, EntryAt
<1>10. ASSUME NEW e \in list, ~Untouched(r, e) PROVE TouchedOK(x, r, e, Images', img, Files)
  <2>1. TargetOf(r, e) = Target(e, phase = "commit")
    BY <1>5 DEF TargetOf
  <2>2. e \in acts /\ e \in r.todo
    <3>1. ~(e.nestLevel < l) /\ Target(e, phase = "commit") # "None"
      BY <1>5, <1>10, <2>1 DEF Untouched
    <3>2. e.nestLevel \in 1 .. 2
      BY <1>3 DEF CollapseOK, Pending
    <3>3. e.nestLevel >= l
      BY <1>3, <3>1, <3>2
    <3> QED
      BY <1>3, <1>5, <3>1, <3>3
  <2>3. PICK T : T = Target(e, phase = "commit")
    OBVIOUS
  <2>4. /\ img.tab[e.tid].serial = e.serial /\ img.tab[e.tid].state \in Expected[T]
        /\ img.tab[e.tid].state = "CreatePending" => img.tab[e.tid].xid = x
        /\ T = "DropPending" => e.serial \in Now.live
        /\ \A f \in list : f.serial = e.serial => f = e
    BY <1>2, <1>7, <2>2, <2>3, ActsAre
  <2>5. /\ T = "Created" => e.serial \in img.live
        /\ img.ends[e.tid].serial = e.serial => img.ends[e.tid].state = T
    BY <1>7, <2>2, <2>3
  <2> QED
    BY <1>4, <1>5, <2>1, <2>2, <2>3, <2>4, <2>5 DEF TouchedOK
<1>11. ListOK(r)
  <2>1. ASSUME NEW q \in r.catalog, q.deleted, q.nestLevel < l
        PROVE  \E e \in list : e.dropForCommit /\ e.serial = q.serial /\ e.nestLevel = q.nestLevel
    BY <1>2, <1>3, <1>4, <1>5, <2>1 DEF ListOK, CollapseOK
  <2>2. ~InWork(r) /\ r.phase \notin {"done", "create"}
    BY <1>3, <1>5 DEF InWork, Endings
  <2>3. \A e, f \in list : e.serial = f.serial /\ e.dropForCommit = f.dropForCommit => e = f
    BY <1>3 DEF CollapseOK
  <2> QED
    BY <1>5, <2>1, <2>2, <2>3 DEF ListOK
<1>12. XidOK(x, r, Images')
  <2>1. /\ phase # "commit" => x \notin img.committed
        /\ phase \notin {"commit", "abort"} => x \notin img.ended
    BY <1>3, <1>4 DEF EndImage, XidOK, Endings
  <2> QED
    BY <1>3, <1>4, <1>5, <1>6, <2>1 DEF XidOK, Endings
<1>13. XactSettled(x, r, Images', img, Files')
  BY <1>5, <1>9, <1>10, <1>11, <1>12 DEF XactSettled, EntrySettled
<1>14. \A s : s \notin HeldBy(o) => SameObject(s, Files, Now, Files', img)
  <2> SUFFICES ASSUME NEW s, s \notin HeldBy(o), NEW t \in Tids, img.ends[t].serial = s
               PROVE  img.ends[t] = Now.ends[t]
    BY <1>7 DEF SameObject
  <2>1. \A e \in acts : e.serial \in HeldBy(o)
    BY <1>3, <1>5 DEF HeldBy
  <2> QED
    BY <1>2, <2>1 DEF EndImage
<1>15. Settles(x, r, img)
  <2>1. \A g \in Images' : ImageSettled(g, Files', overtaken')
    BY <1>4, <1>6, <1>7
  <2> QED
    BY <1>1, <1>2, <1>3, <1>5, <1>7, <1>13, <1>14, <2>1 DEF Settles, EndImage
<1> QED
  BY <1>5, <1>15, SettleStep


LEMMA RecordAbortSettles ==
    ASSUME FileInv, SettleInv, NEW x \in Xacts, NEW phase \in {"abort", "subabort"},
           NEW ended \in SUBSET {x}, RecordAbort(x, phase, ended),
           phase = "subabort" => ended = {},
           phase = "abort" => xact[x].level = 1, phase = "subabort" => xact[x].level = 2
    PROVE  SettleInv'
<1>1. MayEnd(x, phase)
  BY DEF RecordAbort, MayEnd, Endings
<1>2. PICK with, img : /\ with = WithEnds(Now, ActsOf(x, phase), FALSE)
                       /\ img = [with EXCEPT !.ended = with.ended \cup ended]
  OBVIOUS
<1>3. ActsOf(x, phase) = EndActions(Collapsed(xact[x].pendingDeletes, xact[x].level), xact[x].level, FALSE)
  <2>1. (phase = "commit") = FALSE
    OBVIOUS
  <2> QED
    BY <2>1 DEF ActsOf, ListOf
<1>4. /\ mode' = "up" /\ Written(img) /\ UNCHANGED <<Files, nextSerial, overtaken>>
  BY <1>2, <1>3 DEF RecordAbort, Written, Files
<1>5. xact' = [xact EXCEPT ![x] = EndingOf(xact[x], phase)]
  BY DEF RecordAbort, Ending, EndingOf
<1>6. PICK g \in Image, acts \in SUBSET Pending : g = Now /\ acts = ActsOf(x, phase)
  <2>1. ActsOf(x, phase) \subseteq Pending
    BY <1>1, ActsAre
  <2> QED
    BY <2>1, XactFacts
<1>7. \A e \in acts : Target(e, FALSE) # "None"
  BY <1>3, <1>6 DEF EndActions
<1>8. /\ with \in Image /\ with.tab = g.tab /\ with.ended = g.ended
      /\ with.live = g.live /\ with.committed = g.committed
  BY <1>2, <1>6, <1>7, WithEndsIs
<1>9. ASSUME NEW t \in Tids
      PROVE  \/ with.ends[t] = g.ends[t] /\ \A e \in acts : e.tid # t
             \/ \E e \in acts : /\ e.tid = t /\ with.ends[t].serial = e.serial
                                /\ with.ends[t].state = Target(e, FALSE)
  <2>1. with = WithEnds(g, acts, FALSE) /\ FALSE \in BOOLEAN
    BY <1>2, <1>6
  <2>2. EndsAt(g, acts, FALSE, with, t)
    BY <2>1, WithEndsHas, Zenon
  <2> QED
    BY <2>2 DEF EndsAt
<1>10. /\ img \in Image /\ img.tab = with.tab /\ img.ends = with.ends
       /\ img.live = with.live /\ img.committed = with.committed /\ img.ended = with.ended \cup ended
  <2>1. with.ended \cup ended \in SUBSET Xacts
    BY <1>8 DEF Image
  <2>2. PICK v \in SUBSET Xacts : v = with.ended \cup ended
    BY <2>1
  <2>3. img = [with EXCEPT !.ended = v]
    BY <1>2, <2>2
  <2> QED
    BY <1>8, <2>2, <2>3 DEF Image
<1>11. EndImage(x, phase, img)
  <2>1. \A e : Target(e, phase = "commit") = Target(e, FALSE)
    BY DEF Target
  <2>2. ASSUME NEW t \in Tids
        PROVE  \/ img.ends[t] = g.ends[t] /\ \A e \in acts : e.tid # t
               \/ \E e \in acts : /\ e.tid = t /\ img.ends[t].serial = e.serial
                                  /\ img.ends[t].state = Target(e, phase = "commit")
    BY <1>9, <1>10, <2>1
  <2>3. /\ img.tab = g.tab /\ img.ended \subseteq g.ended \cup {x}
        /\ phase = "subabort" => img.ended = g.ended
        /\ img.committed = g.committed /\ img.live = g.live /\ phase # "commit"
    BY <1>8, <1>10
  <2> QED
    BY <1>6, <2>2, <2>3 DEF EndImage
<1> QED
  BY <1>1, <1>4, <1>5, <1>10, <1>11, EndingSettles

LEMMA RecordTransactionCommitSettles ==
    ASSUME FileInv, SettleInv, NEW x \in Xacts, RecordTransactionCommit(x) PROVE SettleInv'
<1>1. MayEnd(x, "commit")
  BY DEF RecordTransactionCommit, MayEnd, Endings
<1> DEFINE o == xact[x]
           list == Collapsed(o.pendingDeletes, 1)
           acts == EndActions(list, 1, TRUE)
           added == {q.serial : q \in {p \in o.catalog : p.deleted = FALSE}}
           dropped == {q.serial : q \in {p \in o.catalog : p.deleted = TRUE}}
           with == WithEnds(Now, acts, TRUE)
           a == [with EXCEPT !.ended = with.ended \cup {x}]
           b == [a EXCEPT !.committed = with.committed \cup {x}]
           live == (with.live \cup added) \ dropped
           img == [b EXCEPT !.live = live]
<1>2. /\ o.level = 1 /\ Flushed(img) /\ mode' = "up"
      /\ UNCHANGED <<Files, nextSerial, overtaken>>
  BY DEF RecordTransactionCommit, Files
<1>3. xact' = [xact EXCEPT ![x] = EndingOf(xact[x], "commit")]
  BY <1>2 DEF RecordTransactionCommit, Ending, EndingOf
<1>4. acts = ActsOf(x, "commit")
  BY <1>2 DEF ActsOf, ListOf
<1>5. o \in Xact /\ Now \in Image
  BY XactFacts
<1>6. ActsOf(x, "commit") \subseteq Pending
  BY <1>1, ActsAre
<1>7. \A e \in acts : Target(e, TRUE) # "None"
  BY DEF EndActions
<1> HIDE DEF acts, o
<1>8. PICK g \in Image, A \in SUBSET Pending : g = Now /\ A = acts
  BY <1>4, <1>5, <1>6
<1>9. /\ with \in Image /\ with.tab = g.tab /\ with.ended = g.ended
      /\ with.live = g.live /\ with.committed = g.committed
  BY <1>7, <1>8, WithEndsIs
<1>10. ASSUME NEW t \in Tids
       PROVE  \/ with.ends[t] = g.ends[t] /\ \A e \in A : e.tid # t
              \/ \E e \in A : /\ e.tid = t /\ with.ends[t].serial = e.serial
                              /\ with.ends[t].state = Target(e, TRUE)
  <2>1. PICK w : w = with
    OBVIOUS
  <2>2. w = WithEnds(g, A, TRUE) /\ TRUE \in BOOLEAN
    BY <1>8, <2>1
  <2>3. EndsAt(g, A, TRUE, w, t)
    BY <2>2, WithEndsHas, Zenon
  <2> QED
    BY <2>1, <2>3 DEF EndsAt
<1> HIDE DEF with
<1>11. /\ with.ended \cup {x} \in SUBSET Xacts /\ with.committed \cup {x} \in SUBSET Xacts
       /\ live \in SUBSET (1 .. MaxSerial)
  <2>1. o.catalog \subseteq Row
    BY <1>5 DEF Xact
  <2>2. added \subseteq 1 .. MaxSerial
    BY <2>1 DEF Row
  <2>3. with.ended \in SUBSET Xacts /\ with.committed \in SUBSET Xacts /\ with.live \subseteq 1 .. MaxSerial
    BY <1>9 DEF Image
  <2> HIDE DEF added, dropped
  <2> QED
    BY <2>2, <2>3
<1>12. \A s : s \in live <=> /\ s \in with.live \/ \E q \in o.catalog : ~q.deleted /\ q.serial = s
                             /\ ~\E q \in o.catalog : q.deleted /\ q.serial = s
  <2>1. \A q \in o.catalog : q.deleted \in BOOLEAN
    BY <1>5 DEF Xact, Row
  <2>2. \A s : s \in added <=> \E q \in o.catalog : ~q.deleted /\ q.serial = s
    BY <2>1
  <2>3. \A s : s \in dropped <=> \E q \in o.catalog : q.deleted /\ q.serial = s
    BY <2>1
  <2> HIDE DEF added, dropped
  <2> QED
    BY <2>2, <2>3
<1> HIDE DEF live
<1>13. /\ img \in Image /\ img.tab = with.tab /\ img.ends = with.ends /\ img.live = live
       /\ img.ended = with.ended \cup {x} /\ img.committed = with.committed \cup {x}
  <2>1. /\ a \in Image /\ a.tab = with.tab /\ a.ends = with.ends /\ a.ended = with.ended \cup {x}
    BY <1>9, <1>11 DEF Image
  <2> HIDE DEF a
  <2>2. /\ b \in Image /\ b.tab = a.tab /\ b.ends = a.ends /\ b.ended = a.ended
        /\ b.committed = with.committed \cup {x}
    BY <1>11, <2>1 DEF Image
  <2> HIDE DEF b
  <2>3. /\ img \in Image /\ img.tab = b.tab /\ img.ends = b.ends /\ img.ended = b.ended
        /\ img.committed = b.committed /\ img.live = live
    BY <1>11, <2>2 DEF Image
  <2> QED
    BY <2>1, <2>2, <2>3
<1> HIDE DEF img
<1>14. EndImage(x, "commit", img)
  <2>1. \A e : Target(e, "commit" = "commit") = Target(e, TRUE)
    BY DEF Target
  <2>2. ASSUME NEW t \in Tids
        PROVE  \/ img.ends[t] = Now.ends[t] /\ \A e \in ActsOf(x, "commit") : e.tid # t
               \/ \E e \in ActsOf(x, "commit") : /\ e.tid = t /\ img.ends[t].serial = e.serial
                                                 /\ img.ends[t].state = Target(e, "commit" = "commit")
    <3>1. A = ActsOf(x, "commit") /\ g = Now
      BY <1>4, <1>8
    <3>2. img.ends[t] = with.ends[t]
      BY <1>13
    <3>3. CASE with.ends[t] = g.ends[t] /\ \A e \in A : e.tid # t
      BY <3>1, <3>2, <3>3
    <3>4. CASE \E e \in A : /\ e.tid = t /\ with.ends[t].serial = e.serial
                            /\ with.ends[t].state = Target(e, TRUE)
      BY <2>1, <3>1, <3>2, <3>4
    <3> QED
      BY <1>10, <3>3, <3>4
  <2>3. /\ img.tab = Now.tab /\ img.ended \subseteq Now.ended \cup {x}
        /\ img.committed \subseteq Now.committed \cup {x}
    BY <1>8, <1>9, <1>13
  <2>4. \A s : s \in img.live <=>
              /\ s \in Now.live \/ \E q \in xact[x].catalog : ~q.deleted /\ q.serial = s
              /\ ~\E q \in xact[x].catalog : q.deleted /\ q.serial = s
    BY <1>8, <1>9, <1>12, <1>13 DEF o
  <2> QED
    BY <2>2, <2>3, <2>4 DEF EndImage
<1>15. Written(img) /\ img \in Image
  BY <1>2, <1>13 DEF Written
<1> QED
  BY <1>1, <1>2, <1>3, <1>14, <1>15, EndingSettles

-----------------------------------------------------------------------------
(* The passes of smgrDoDeleteActions. *)

(* What is said of an entry depends on todo only through the entry itself. *)
LEMMA EntryTodo ==
    ASSUME NEW x, NEW o, NEW r, NEW f, NEW L, NEW img, NEW fs,
           r.phase = o.phase, r.level = o.level, r.pendingDeletes = o.pendingDeletes,
           r.pass = o.pass, f \in r.todo <=> f \in o.todo,
           EntrySettled(x, o, f, L, img, fs)
    PROVE  EntrySettled(x, r, f, L, img, fs)
<1>1. \A e : TargetOf(r, e) = TargetOf(o, e) /\ (Untouched(r, e) <=> Untouched(o, e))
  BY DEF TargetOf, Untouched, InWork
<1>2. UntouchedOK(x, o, f, L, img) => UntouchedOK(x, r, f, L, img)
  BY <1>1 DEF UntouchedOK
<1>3. TouchedOK(x, o, f, L, img, fs) => TouchedOK(x, r, f, L, img, fs)
  BY <1>1 DEF TouchedOK
<1> QED
  BY <1>1, <1>2, <1>3 DEF EntrySettled

LEMMA SameList ==
    ASSUME NEW x, NEW o, NEW r, NEW L,
           r.phase = o.phase, r.level = o.level, r.catalog = o.catalog,
           r.pendingDeletes = o.pendingDeletes, o.pass # 0, r.pass # 0,
           ListOK(o), XidOK(x, o, L)
    PROVE  ListOK(r) /\ XidOK(x, r, L) /\ HeldBy(r) = HeldBy(o) /\ \A e : Untouched(r, e) <=> Untouched(o, e)
<1>1. HeldBy(r) = HeldBy(o) /\ (InWork(r) <=> InWork(o))
  BY DEF HeldBy, InWork
<1>2. ListOK(r)
  BY <1>1 DEF ListOK
<1>3. XidOK(x, r, L)
  BY DEF XidOK
<1> QED
  BY <1>1, <1>2, <1>3 DEF Untouched, TargetOf

(* The record with one entry done. *)
LEMMA DoneFields ==
    ASSUME FileInv, SettleInv, NEW x \in Xacts, NEW e \in xact[x].todo
    PROVE  LET o == xact[x]
               r == [o EXCEPT !.todo = o.todo \ {e}]
           IN  /\ r \in Xact /\ r.todo = o.todo \ {e} /\ r.pass = o.pass
               /\ r.phase = o.phase /\ r.level = o.level /\ r.catalog = o.catalog
               /\ r.pendingDeletes = o.pendingDeletes /\ HeldBy(r) = HeldBy(o)
               /\ ListOK(r) /\ \A L : XidOK(x, o, L) => XidOK(x, r, L)
               /\ e \in o.pendingDeletes /\ o.pass \in {1, 2}
               /\ Untouched(o, e) <=> TargetOf(o, e) = "None"
               /\ Untouched(r, e) <=> Untouched(o, e)
               /\ TargetOf(r, e) = TargetOf(o, e)
<1>1. PICK o \in Xact : o = xact[x]
  BY XactFacts
<1>2. PhaseOK(o) /\ e \in o.todo /\ ListOK(o)
  BY <1>1, XactFacts, SettleFacts
<1> DEFINE r == [o EXCEPT !.todo = o.todo \ {e}]
<1>3. /\ r \in Xact /\ r.todo = o.todo \ {e}
      /\ r.phase = o.phase /\ r.level = o.level /\ r.catalog = o.catalog
      /\ r.pendingDeletes = o.pendingDeletes /\ r.pass = o.pass
  <2>1. o.todo \ {e} \in SUBSET Pending
    BY DEF Xact
  <2> QED
    BY <2>1, SetTodo
<1> HIDE DEF r
<1>4. /\ o.pass # 0 /\ e \in o.pendingDeletes /\ e.nestLevel >= o.level
      /\ o.phase \in {"commit", "abort", "subabort"}
  BY <1>2 DEF PhaseOK
<1>5. o.pass \in {1, 2} /\ e.nestLevel \in 1 .. 2 /\ o.level \in 1 .. 2
  BY <1>4 DEF Xact, Pending
<1>6. /\ HeldBy(r) = HeldBy(o) /\ (InWork(r) <=> InWork(o))
  BY <1>3 DEF HeldBy, InWork
<1>7. ListOK(r)
  BY <1>2, <1>3, <1>4, <1>6 DEF ListOK
<1>8. \A L : XidOK(x, o, L) => XidOK(x, r, L)
  BY <1>3 DEF XidOK
<1>9. Untouched(o, e) <=> TargetOf(o, e) = "None"
  BY <1>4, <1>5 DEF Untouched, InWork
<1>10. TargetOf(r, e) = TargetOf(o, e) /\ (Untouched(r, e) <=> Untouched(o, e))
  BY <1>3, <1>6 DEF Untouched, TargetOf
<1> QED
  BY <1>1, <1>3, <1>4, <1>5, <1>6, <1>7, <1>8, <1>9, <1>10 DEF r

(* An entry that asks for nothing in this pass. *)
LEMMA SkipSettles ==
    ASSUME FileInv, SettleInv, NEW x \in Xacts, NEW e \in xact[x].todo,
           mode = "up", mode' = "up", UNCHANGED <<log, Files, nextSerial, overtaken>>,
           xact' = [xact EXCEPT ![x].todo = @ \ {e}],
           EntrySettled(x, [xact[x] EXCEPT !.todo = xact[x].todo \ {e}], e, Images, Now, Files)
    PROVE  SettleInv'
<1>1. PICK o, r : o = xact[x] /\ r = [o EXCEPT !.todo = o.todo \ {e}]
  OBVIOUS
<1>2. /\ r \in Xact /\ r.todo = o.todo \ {e} /\ r.pass = o.pass
      /\ r.phase = o.phase /\ r.level = o.level
      /\ r.pendingDeletes = o.pendingDeletes /\ HeldBy(r) = HeldBy(o)
      /\ ListOK(r) /\ \A L : XidOK(x, o, L) => XidOK(x, r, L)
  BY <1>1, DoneFields
<1>3. PICK L, img, fs : L = Images /\ img = Now /\ fs = Files
  OBVIOUS
<1>4. /\ \A f \in o.pendingDeletes : EntrySettled(x, o, f, L, img, fs)
      /\ XidOK(x, o, L)
  BY <1>1, <1>3, SettleFacts
<1>5. ASSUME NEW f \in r.pendingDeletes PROVE EntrySettled(x, r, f, L, img, fs)
  <2>1. CASE f = e
    BY <1>1, <1>3, <2>1
  <2>2. CASE f # e
    <3>1. f \in r.todo <=> f \in o.todo
      BY <1>2, <2>2
    <3> QED
      BY <1>2, <1>4, <3>1, EntryTodo
  <2> QED
    BY <2>1, <2>2
<1>6. XactSettled(x, r, Images, Now, Files)
  BY <1>2, <1>3, <1>4, <1>5 DEF XactSettled
<1>7. xact' = [xact EXCEPT ![x] = r] /\ HeldBy(xact[x]) \subseteq HeldBy(r)
  BY <1>1, <1>2
<1> QED
  BY <1>2, <1>6, <1>7, QuietSettles

(* An entry that changes its tuple, and perhaps removes the file. *)
LEMMA ChangeSettles ==
    ASSUME FileInv, SettleInv, NEW x \in Xacts, NEW e \in xact[x].todo, NEW img \in Image,
           mode = "up", mode' = "up", UNCHANGED <<nextSerial, overtaken>>,
           xact' = [xact EXCEPT ![x].todo = @ \ {e}], Written(img),
           ~Untouched(xact[x], e), Now.tab[e.tid].serial = e.serial,
           img.ends = Now.ends, img.ended = Now.ended, img.live = Now.live,
           img.committed = Now.committed,
           \A u \in Tids \ {e.tid} : img.tab[u] = Now.tab[u],
           img.tab[e.tid].state # "CreatePending", img.tab[e.tid].serial \in {0, e.serial},
           Files' \in {Files, Files \ {e.serial}},
           ImageSettled(img, Files', overtaken),
           TouchedOK(x, [xact[x] EXCEPT !.todo = xact[x].todo \ {e}], e, Images', img, Files')
    PROVE  SettleInv'
<1>1. PICK o, r : o = xact[x] /\ r = [o EXCEPT !.todo = o.todo \ {e}]
  OBVIOUS
<1>2. /\ r \in Xact /\ r.todo = o.todo \ {e} /\ r.pass = o.pass
      /\ r.phase = o.phase /\ r.level = o.level
      /\ r.pendingDeletes = o.pendingDeletes /\ HeldBy(r) = HeldBy(o)
      /\ ListOK(r) /\ (\A L : XidOK(x, o, L) => XidOK(x, r, L))
      /\ e \in o.pendingDeletes /\ (Untouched(r, e) <=> Untouched(o, e))
  BY <1>1, DoneFields
<1>3. PICK L, L2, g, fs, fs2 : L = Images /\ L2 = Images' /\ g = Now /\ fs = Files /\ fs2 = Files'
  OBVIOUS
<1>4. /\ \A f \in o.pendingDeletes : EntrySettled(x, o, f, L, g, fs)
      /\ XidOK(x, o, L) /\ o \in Xact
      /\ \A h \in L : ImageSettled(h, fs, overtaken)
  BY <1>1, <1>3, SettleFacts
<1>5. g \in L /\ L2 \subseteq L \cup {img}
  BY <1>3, WrittenImages, ImagesAre
<1>6. ASSUME NEW s, s # 0, s # e.serial PROVE SameObject(s, fs, g, fs2, img)
  <2>1. ASSUME NEW t \in Tids, g.tab[t].serial = s \/ img.tab[t].serial = s PROVE img.tab[t] = g.tab[t]
    BY <1>3, <1>6, <2>1
  <2> QED
    BY <1>3, <1>6, <2>1 DEF SameObject
<1>7. \A f \in o.pendingDeletes : f.serial = e.serial => f = e
  BY <1>1, <1>2, <1>4 DEF EntrySettled, TouchedOK
<1>8. ASSUME NEW f \in r.pendingDeletes PROVE EntrySettled(x, r, f, L2, img, fs2)
  <2>1. CASE f = e
    BY <1>1, <1>2, <1>3, <2>1 DEF EntrySettled
  <2>2. CASE f # e
    <3>1. f \in r.todo <=> f \in o.todo
      BY <1>2, <2>2
    <3>2. f.serial # e.serial /\ f.serial # 0 /\ f \in o.pendingDeletes
      BY <1>2, <1>4, <1>7, <2>2 DEF Xact, Pending
    <3>3. SameObject(f.serial, fs, g, fs2, img)
      BY <1>6, <3>2
    <3>4. EntrySettled(x, o, f, L, g, fs)
      BY <1>4, <3>2
    <3>5. EntrySettled(x, o, f, L2, img, fs2)
      BY <1>4, <1>5, <3>2, <3>3, <3>4, EntryKeeps
    <3> QED
      BY <1>2, <3>1, <3>5, EntryTodo
  <2> QED
    BY <2>1, <2>2
<1>9. XidOK(x, r, L2)
  <2>1. XidOK(x, o, L2)
    BY <1>3, <1>4, <1>5 DEF XidOK
  <2> QED
    BY <1>2, <2>1
<1>10. ASSUME NEW h \in L2 PROVE ImageSettled(h, fs2, overtaken)
  <2>1. CASE h = img
    BY <1>3, <2>1
  <2>2. CASE h \in L
    <3>1. PICK ov : ov = overtaken
      OBVIOUS
    <3>2. ImageSettled(h, fs, ov) /\ fs2 \subseteq fs /\ ov \subseteq ov
      BY <1>3, <1>4, <2>2, <3>1
    <3>3. ImageSettled(h, fs2, ov)
      BY <3>2, ImageStays
    <3> QED
      BY <3>1, <3>3
  <2> QED
    BY <1>5, <2>1, <2>2
<1>11. e.serial \in HeldBy(o)
  BY <1>2 DEF HeldBy
<1>12. Settles(x, r, img)
  <2>1. \A s \in 1 .. (nextSerial - 1) : s \notin HeldBy(o) => SameObject(s, fs, g, fs2, img)
    BY <1>6, <1>11
  <2>2. \A t \in Tids : img.tab[t].state = "CreatePending" => img.tab[t] = Now.tab[t]
    OBVIOUS
  <2>3. XactSettled(x, r, L2, img, fs2)
    BY <1>2, <1>8, <1>9 DEF XactSettled
  <2>4. /\ xact' = [xact EXCEPT ![x] = r] /\ img.committed \subseteq Now.committed \cup {x}
        /\ img.ended \subseteq Now.ended \cup {x}
    BY <1>1
  <2> QED
    BY <1>1, <1>2, <1>3, <1>10, <2>1, <2>2, <2>3, <2>4 DEF Settles
<1> QED
  BY <1>2, <1>12, SettleStep

(* Done with an entry that asks for nothing, now or in either pass. *)
LEMMA SkippedEntry ==
    ASSUME FileInv, SettleInv, NEW x \in Xacts, NEW e \in xact[x].todo,
           TargetOf(xact[x], e) = "None" \/ (xact[x].pass = 2 /\ TargetOf(xact[x], e) = "Created")
    PROVE  EntrySettled(x, [xact[x] EXCEPT !.todo = xact[x].todo \ {e}], e, Images, Now, Files)
<1>1. PICK o, r : o = xact[x] /\ r = [o EXCEPT !.todo = o.todo \ {e}]
  OBVIOUS
<1>2. /\ r.todo = o.todo \ {e} /\ r.pass = o.pass /\ r.phase = o.phase /\ r.level = o.level
      /\ r.pendingDeletes = o.pendingDeletes /\ e \in o.pendingDeletes
      /\ (Untouched(o, e) <=> TargetOf(o, e) = "None")
      /\ (Untouched(r, e) <=> Untouched(o, e)) /\ TargetOf(r, e) = TargetOf(o, e)
  BY <1>1, DoneFields
<1>3. PICK L, img, fs : L = Images /\ img = Now /\ fs = Files
  OBVIOUS
<1>4. EntrySettled(x, o, e, L, img, fs)
  BY <1>1, <1>2, <1>3, SettleFacts
<1>5. \A c : Untouched(r, c) <=> Untouched(o, c)
  BY <1>2 DEF Untouched, TargetOf, InWork
<1>6. CASE TargetOf(o, e) = "None"
  <2>1. UntouchedOK(x, o, e, L, img)
    BY <1>2, <1>4, <1>6 DEF EntrySettled
  <2>2. UntouchedOK(x, r, e, L, img)
    BY <1>2, <1>5, <2>1 DEF UntouchedOK
  <2> QED
    BY <1>1, <1>2, <1>3, <1>6, <2>2 DEF EntrySettled
<1>7. CASE o.pass = 2 /\ TargetOf(o, e) = "Created"
  <2>1. TouchedOK(x, o, e, L, img, fs) /\ ~Untouched(r, e)
    BY <1>2, <1>4, <1>7 DEF EntrySettled
  <2>2. TouchedOK(x, r, e, L, img, fs)
    BY <1>2, <1>7, <2>1 DEF TouchedOK
  <2> QED
    BY <1>1, <1>3, <2>1, <2>2 DEF EntrySettled
<1> QED
  BY <1>1, <1>6, <1>7

LEMMA FirstPassSettles ==
    ASSUME FileInv, SettleInv, NEW x \in Xacts, NEW e \in xact[x].todo, FirstPass(x, e)
    PROVE  SettleInv'
<1>1. PICK o, r, T : o = xact[x] /\ r = [o EXCEPT !.todo = o.todo \ {e}] /\ T = TargetOf(o, e)
  OBVIOUS
<1>2. /\ r.todo = o.todo \ {e} /\ r.pass = o.pass /\ r.phase = o.phase
      /\ r.pendingDeletes = o.pendingDeletes /\ e \in o.pendingDeletes
      /\ (Untouched(o, e) <=> T = "None") /\ TargetOf(r, e) = T
  BY <1>1, DoneFields
<1>3. /\ mode = "up" /\ xact' = [xact EXCEPT ![x].todo = @ \ {e}] /\ o.pass = 1 /\ e \in o.todo
      /\ UNCHANGED <<nextSerial, overtaken>>
      /\ T = "None" => UNCHANGED <<log, Files, mode>>
      /\ T # "None" => StateChange(e.tid, e.serial, T)
  BY <1>1 DEF FirstPass, TargetOf, Files
<1>4. /\ e.tid \in Tids /\ e.serial \in 1 .. MaxSerial
      /\ T \in {"None", "Created", "DropPending", "AbortingCreate"}
  BY <1>1, TodoIs DEF TargetOf
<1>5. CASE T = "None"
  <2>1. EntrySettled(x, [xact[x] EXCEPT !.todo = xact[x].todo \ {e}], e, Images, Now, Files)
    BY <1>1, <1>5, SkippedEntry
  <2> QED
    BY <1>3, <1>5, <2>1, SkipSettles
<1>6. CASE T # "None"
  <2>1. PICK L, g, fs, ov : L = Images /\ g = Now /\ fs = Files /\ ov = overtaken
    OBVIOUS
  <2>2. /\ EntrySettled(x, o, e, L, g, fs) /\ g \in Image /\ ImageSettled(g, fs, ov)
    BY <1>1, <1>2, <2>1, SettleFacts
  <2>3. TouchedOK(x, o, e, L, g, fs)
    BY <1>2, <1>6, <2>2 DEF EntrySettled
  <2>4. /\ g.tab[e.tid].serial = e.serial /\ g.tab[e.tid].state \in Expected[T]
        /\ T = "Created" => e.serial \in g.live
        /\ g.ends[e.tid].serial = e.serial => g.ends[e.tid].state = T
    BY <1>1, <1>3, <2>3 DEF TouchedOK
  <2>5. Verified(e.tid, e.serial, T)
    BY <2>1, <2>4 DEF Verified
  <2>6. PICK v : v = [state |-> T, serial |-> e.serial, xid |-> NoXid]
    OBVIOUS
  <2>7. v \in Tuple /\ v.serial = e.serial /\ v.state = T
    BY <1>4, <1>6, <2>6, Ranks DEF Tuple, States
  <2>8. PICK img : img = [g EXCEPT !.tab[e.tid] = v]
    OBVIOUS
  <2>9. Appended(img) /\ UNCHANGED <<Files, mode>>
    BY <1>3, <1>4, <1>6, <2>1, <2>5, <2>6, <2>8 DEF StateChange, Changed, Files
  <2>10. /\ img \in Image /\ img.ends = g.ends /\ img.ended = g.ended
         /\ img.live = g.live /\ img.committed = g.committed
         /\ img.tab[e.tid] = v /\ \A u \in Tids \ {e.tid} : img.tab[u] = g.tab[u]
    BY <1>4, <2>2, <2>7, <2>8, SetTab
  <2>11. \A u \in Tids : img.tab[u].serial = g.tab[u].serial
    BY <2>4, <2>7, <2>10
  <2>12. TupleSettled(img, e.tid, ov)
    <3>1. TupleSettled(g, e.tid, ov)
      BY <1>4, <2>2 DEF ImageSettled
    <3> QED
      BY <1>4, <1>6, <2>4, <2>7, <2>10, <3>1 DEF TupleSettled
  <2>13. ImageSettled(img, fs, ov)
    <3>1. ASSUME NEW u \in Tids \ {e.tid} PROVE TupleSettled(img, u, ov)
      <4>1. TupleSettled(g, u, ov) /\ img.tab[u] = g.tab[u]
        BY <2>2, <2>10 DEF ImageSettled
      <4> QED
        BY <2>10, <4>1 DEF TupleSettled
    <3> QED
      BY <2>2, <2>11, <2>12, <3>1 DEF ImageSettled, Serials
  <2>14. ASSUME NEW L2 PROVE TouchedOK(x, r, e, L2, img, fs)
    BY <1>1, <1>2, <1>3, <2>3, <2>7, <2>10 DEF TouchedOK
  <2>15. TouchedOK(x, [xact[x] EXCEPT !.todo = xact[x].todo \ {e}], e, Images', img, Files')
    BY <1>1, <2>1, <2>9, <2>14
  <2>16. /\ mode' = "up" /\ Written(img) /\ ~Untouched(xact[x], e)
         /\ Now.tab[e.tid].serial = e.serial
         /\ img.ends = Now.ends /\ img.ended = Now.ended /\ img.live = Now.live
         /\ img.committed = Now.committed
         /\ \A u \in Tids \ {e.tid} : img.tab[u] = Now.tab[u]
         /\ img.tab[e.tid].state # "CreatePending" /\ img.tab[e.tid].serial \in {0, e.serial}
         /\ Files' \in {Files, Files \ {e.serial}}
         /\ ImageSettled(img, Files', overtaken)
    BY <1>1, <1>2, <1>3, <1>4, <1>6, <2>1, <2>4, <2>7, <2>9, <2>10, <2>13 DEF Written
  <2> QED
    BY <1>3, <2>10, <2>15, <2>16, ChangeSettles
<1> QED
  BY <1>5, <1>6

LEMMA NoEnd ==
    ASSUME NEW img \in Image, NEW t \in Tids, img.ends[t].serial = 0
    PROVE  img.ends[t].state = "None"
<1>1. img.ends[t] \in {NoEntry} \cup [state : DOMAIN Rank, serial : 1 .. MaxSerial,
                                      xid : {NoXid}, updateNeeded : {FALSE}]
  BY DEF Image
<1>2. img.ends[t] = NoEntry
  <2>1. SUFFICES ASSUME img.ends[t] # NoEntry PROVE FALSE
    OBVIOUS
  <2>2. img.ends[t].serial \in 1 .. MaxSerial
    BY <1>1, <2>1
  <2> QED
    BY <2>2, Numbers
<1> QED
  BY <1>2 DEF NoEntry

LEMMA SecondPassFinds ==
    ASSUME FileInv, SettleInv, NEW x \in Xacts, NEW e \in xact[x].todo, SecondPass(x, e)
    PROVE  Target(e, xact[x].phase = "commit") \in Doomed =>
              /\ Verified(e.tid, e.serial, "Free")
              /\ TouchedOK(x, xact[x], e, Images, Now, Files)
<1>1. PICK o, L, g, fs, T : /\ o = xact[x] /\ T = TargetOf(o, e)
                           /\ L = Images /\ g = Now /\ fs = Files
  OBVIOUS
<1>2. SUFFICES ASSUME T \in Doomed
               PROVE  Verified(e.tid, e.serial, "Free") /\ TouchedOK(x, o, e, L, g, fs)
  BY <1>1 DEF TargetOf
<1>3. e \in o.pendingDeletes /\ (Untouched(o, e) <=> T = "None") /\ o.pass = 2 /\ e \in o.todo
  BY <1>1, DoneFields DEF SecondPass
<1>4. EntrySettled(x, o, e, L, g, fs)
  BY <1>1, <1>3, SettleFacts
<1>5. TouchedOK(x, o, e, L, g, fs)
  BY <1>2, <1>3, <1>4 DEF EntrySettled, Doomed
<1>6. g.tab[e.tid].serial = e.serial /\ g.tab[e.tid].state = T
  BY <1>1, <1>3, <1>5 DEF TouchedOK
<1> QED
  BY <1>1, <1>2, <1>5, <1>6 DEF Verified, Expected, Doomed

LEMMA SecondPassSettles ==
    ASSUME FileInv, SettleInv, NEW x \in Xacts, NEW e \in xact[x].todo, SecondPass(x, e)
    PROVE  SettleInv'
<1>1. PICK o, r, T : o = xact[x] /\ r = [o EXCEPT !.todo = o.todo \ {e}] /\ T = TargetOf(o, e)
  OBVIOUS
<1>2. /\ r.todo = o.todo \ {e} /\ r.pass = o.pass /\ r.phase = o.phase
      /\ r.pendingDeletes = o.pendingDeletes /\ e \in o.pendingDeletes
      /\ (Untouched(o, e) <=> T = "None") /\ TargetOf(r, e) = T
  BY <1>1, DoneFields
<1>3. /\ mode = "up" /\ xact' = [xact EXCEPT ![x].todo = @ \ {e}] /\ o.pass = 2 /\ e \in o.todo
      /\ UNCHANGED <<nextSerial, overtaken>>
      /\ T \notin Doomed => UNCHANGED <<log, Files, mode>>
      /\ T \in Doomed => DropObject(e.tid, e.serial)
  BY <1>1 DEF SecondPass, TargetOf, Doomed, Files
<1>4. /\ e.tid \in Tids /\ e.serial \in 1 .. MaxSerial
      /\ T \in {"None", "Created", "DropPending", "AbortingCreate"}
  BY <1>1, TodoIs DEF TargetOf
<1>5. CASE T \in {"None", "Created"}
  <2>1. EntrySettled(x, [xact[x] EXCEPT !.todo = xact[x].todo \ {e}], e, Images, Now, Files)
    BY <1>1, <1>3, <1>5, SkippedEntry
  <2>2. T \notin Doomed
    BY <1>5 DEF Doomed
  <2> QED
    BY <1>3, <2>1, <2>2, SkipSettles
<1>6. CASE T \in Doomed
  <2>1. PICK L, g, fs, ov : L = Images /\ g = Now /\ fs = Files /\ ov = overtaken
    OBVIOUS
  <2>2. /\ g \in Image /\ ImageSettled(g, fs, ov)
    BY <2>1, SettleFacts
  <2>3. /\ TouchedOK(x, o, e, L, g, fs) /\ T \notin {"None", "Created"}
        /\ Verified(e.tid, e.serial, "Free")
    BY <1>1, <1>6, <2>1, SecondPassFinds DEF TargetOf, Doomed
  <2>4. /\ g.tab[e.tid].serial = e.serial /\ g.tab[e.tid].state = T
        /\ g.ends[e.tid].serial = e.serial => g.ends[e.tid].state = T
    BY <1>1, <1>3, <2>3 DEF TouchedOK
  <2>5. Appended(Changed(e.tid, e.serial, "Free")) /\ Files' = Files \ {e.serial} /\ UNCHANGED mode
    BY <1>3, <1>6, <2>3, DropsFile
  <2>6. PICK v : v = FreeTuple
    OBVIOUS
  <2>7. v \in Tuple /\ v.serial = 0 /\ v.state = "Free"
    BY <2>6, Ranks, Numbers DEF Tuple, States, FreeTuple
  <2>8. PICK img : img = [g EXCEPT !.tab[e.tid] = v]
    OBVIOUS
  <2>9. Appended(img) /\ Files' = fs \ {e.serial} /\ UNCHANGED mode
    BY <2>1, <2>5, <2>6, <2>8 DEF Changed
  <2>10. /\ img \in Image /\ img.ends = g.ends /\ img.ended = g.ended
         /\ img.live = g.live /\ img.committed = g.committed
         /\ img.tab[e.tid] = v /\ \A u \in Tids \ {e.tid} : img.tab[u] = g.tab[u]
    BY <1>4, <2>2, <2>7, <2>8, SetTab
  <2>11. TupleSettled(img, e.tid, ov)
    <3>1. TupleSettled(g, e.tid, ov)
      BY <1>4, <2>2 DEF ImageSettled
    <3>2. img.ends[e.tid].serial = 0 => img.ends[e.tid].state = "None"
      BY <1>4, <2>10, NoEnd
    <3> QED
      BY <2>7, <2>10, <3>1, <3>2 DEF TupleSettled
  <2>12. ImageSettled(img, fs \ {e.serial}, ov)
    <3>1. ASSUME NEW u \in Tids \ {e.tid} PROVE TupleSettled(img, u, ov)
      <4>1. TupleSettled(g, u, ov) /\ img.tab[u] = g.tab[u]
        BY <2>2, <2>10 DEF ImageSettled
      <4> QED
        BY <2>10, <4>1 DEF TupleSettled
    <3>2. fs \ {e.serial} \subseteq Serials(img) \ {0}
      BY <2>2, <2>4, <2>10 DEF ImageSettled, Serials
    <3>3. ASSUME NEW t \in Tids, NEW u \in Tids, img.tab[t].serial = img.tab[u].serial,
                 img.tab[t].serial # 0
          PROVE  t = u
      <4>1. t # e.tid /\ u # e.tid
        BY <2>7, <2>10, <3>3
      <4>2. g.tab[t].serial = g.tab[u].serial /\ g.tab[t].serial # 0
        BY <2>10, <3>3, <4>1
      <4> QED
        BY <2>2, <4>2 DEF ImageSettled
    <3> QED
      BY <2>11, <3>1, <3>2, <3>3 DEF ImageSettled
  <2>13. e.serial \notin Serials(img)
    <3>1. \A u \in Tids : g.tab[u].serial = e.serial => u = e.tid
      BY <1>4, <2>2, <2>4 DEF ImageSettled
    <3>2. e.serial # 0
      BY <1>4
    <3> QED
      BY <2>7, <2>10, <3>1, <3>2 DEF Serials
  <2>14. ASSUME NEW L2 PROVE TouchedOK(x, r, e, L2, img, fs \ {e.serial})
    BY <1>1, <1>2, <1>3, <2>3, <2>4, <2>10, <2>13 DEF TouchedOK
  <2>15. TouchedOK(x, [xact[x] EXCEPT !.todo = xact[x].todo \ {e}], e, Images', img, Files')
    BY <1>1, <2>9, <2>14
  <2>16. /\ mode' = "up" /\ Written(img) /\ ~Untouched(xact[x], e)
         /\ Now.tab[e.tid].serial = e.serial
         /\ img.ends = Now.ends /\ img.ended = Now.ended /\ img.live = Now.live
         /\ img.committed = Now.committed
         /\ \A u \in Tids \ {e.tid} : img.tab[u] = Now.tab[u]
         /\ img.tab[e.tid].state # "CreatePending" /\ img.tab[e.tid].serial \in {0, e.serial}
         /\ Files' \in {Files, Files \ {e.serial}}
         /\ ImageSettled(img, Files', overtaken)
    BY <1>1, <1>2, <1>3, <2>1, <2>3, <2>4, <2>7, <2>9, <2>10, <2>12 DEF Written
  <2> QED
    BY <1>3, <2>10, <2>15, <2>16, ChangeSettles
<1> QED
  BY <1>4, <1>5, <1>6 DEF Doomed

(* The flush at the end of a pass leaves one image if anything was         *)
(* changed.                                                                *)
LEMMA FlushOwnLeaves ==
    ASSUME FileInv, NEW x \in Xacts, xact[x] \in Xact, FlushOwn(x)
    PROVE  /\ Written(Now) /\ Now' = Now /\ Now \in Images' /\ Images' \subseteq Images
           /\ \A e \in xact[x].pendingDeletes : ~Untouched(xact[x], e) => Images' = {Now}
<1>1. Written(Now)
  BY FlushOwnWrites
<1>2. PICK img \in Image : img = Now
  BY XactFacts
<1>3. /\ Now' = img /\ img \in Images' /\ Images' \subseteq Images \cup {img}
      /\ Flushed(img) => Images' = {img}
  BY <1>1, <1>2, WrittenImages
<1>4. Now \in Images
  BY ImagesAre
<1>5. ASSUME NEW e \in xact[x].pendingDeletes, ~Untouched(xact[x], e) PROVE Flushed(img)
  <2>1. e.nestLevel \in 1 .. 2 /\ xact[x].level \in 1 .. 2
    BY DEF Xact, Pending
  <2>2. e.nestLevel >= xact[x].level /\ Target(e, xact[x].phase = "commit") # "None"
    BY <1>5, <2>1 DEF Untouched, TargetOf
  <2> QED
    BY <1>2, <2>2 DEF FlushOwn, EndActions
<1> QED
  BY <1>1, <1>2, <1>3, <1>4, <1>5

LEMMA EndFirstPassSettles ==
    ASSUME FileInv, SettleInv, NEW x \in Xacts, EndFirstPass(x) PROVE SettleInv'
<1>1. PICK o \in Xact : o = xact[x]
  BY XactFacts
<1> DEFINE done == {e \in o.pendingDeletes : e.nestLevel >= o.level}
           a == [o EXCEPT !.pass = 2]
           r == [a EXCEPT !.todo = done]
<1>2. /\ mode = "up" /\ mode' = "up" /\ UNCHANGED <<Files, nextSerial, overtaken>>
      /\ xact' = [xact EXCEPT ![x] = r] /\ o.pass = 1 /\ o.todo = {} /\ FlushOwn(x)
  BY <1>1 DEF EndFirstPass, Done, Files
<1>3. done \in SUBSET Pending
  BY DEF Xact
<1>4. \A e \in o.pendingDeletes : ~Untouched(o, e) => e \in done
  <2>1. \A e \in o.pendingDeletes : e.nestLevel \in 1 .. 2 /\ o.level \in 1 .. 2
    BY DEF Xact, Pending
  <2> QED
    BY <2>1 DEF Untouched
<1> HIDE DEF done
<1>5. /\ r \in Xact /\ r.phase = o.phase /\ r.level = o.level /\ r.catalog = o.catalog
      /\ r.pendingDeletes = o.pendingDeletes /\ r.pass = 2 /\ r.todo = done
  <2>1. PICK z \in 0 .. 2 : z = 2
    OBVIOUS
  <2>2. /\ a \in Xact /\ a.phase = o.phase /\ a.level = o.level /\ a.catalog = o.catalog
        /\ a.pendingDeletes = o.pendingDeletes /\ a.pass = 2
    BY <2>1, SetPass
  <2> HIDE DEF a
  <2> QED
    BY <1>3, <2>2, SetTodo
<1> HIDE DEF r
<1>6. PICK L, L2, img, fs : L = Images /\ L2 = Images' /\ img = Now /\ fs = Files
  OBVIOUS
<1>7. /\ Written(img) /\ img \in L2 /\ L2 \subseteq L
      /\ \A e \in o.pendingDeletes : ~Untouched(o, e) => L2 = {img}
  BY <1>1, <1>2, <1>6, FlushOwnLeaves
<1>8. /\ \A f \in o.pendingDeletes : EntrySettled(x, o, f, L, img, fs)
      /\ ListOK(o) /\ XidOK(x, o, L) /\ img \in Image
      /\ \A h \in L : ImageSettled(h, fs, overtaken)
  BY <1>1, <1>6, SettleFacts
<1>9. XidOK(x, o, L2)
  BY <1>7, <1>8 DEF XidOK
<1>10. /\ ListOK(r) /\ XidOK(x, r, L2) /\ HeldBy(r) = HeldBy(o)
       /\ \A e : Untouched(r, e) <=> Untouched(o, e)
  <2>1. o.pass # 0 /\ r.pass # 0
    BY <1>2, <1>5
  <2> QED
    BY <1>5, <1>8, <1>9, <2>1, SameList
<1>11. ASSUME NEW f \in r.pendingDeletes, Untouched(r, f) PROVE UntouchedOK(x, r, f, L2, img)
  <2>1. UntouchedOK(x, o, f, L, img)
    BY <1>5, <1>8, <1>10, <1>11 DEF EntrySettled
  <2>2. /\ \A t, st, s : Shows(L, t, st, s) => Shows(L2, t, st, s)
        /\ \A t, s : ShowsNew(L, t, s, x) => ShowsNew(L2, t, s, x)
    BY <1>7 DEF Shows, ShowsNew
  <2> QED
    BY <1>5, <1>10, <2>1, <2>2 DEF UntouchedOK
<1>12. ASSUME NEW f \in r.pendingDeletes, ~Untouched(r, f) PROVE TouchedOK(x, r, f, L2, img, fs)
  <2>1. TouchedOK(x, o, f, L, img, fs) /\ f \in done /\ L2 = {img}
    BY <1>4, <1>5, <1>7, <1>8, <1>10, <1>12 DEF EntrySettled
  <2>2. TargetOf(r, f) = TargetOf(o, f)
    BY <1>5 DEF TargetOf
  <2> QED
    BY <1>2, <1>5, <2>1, <2>2 DEF TouchedOK, Shows
<1>13. XactSettled(x, r, L2, img, fs)
  BY <1>10, <1>11, <1>12 DEF XactSettled, EntrySettled
<1>14. \A s : SameObject(s, fs, img, fs, img)
  BY DEF SameObject
<1>15. Settles(x, r, img)
  BY <1>1, <1>2, <1>6, <1>7, <1>8, <1>10, <1>13, <1>14 DEF Settles
<1> QED
  BY <1>5, <1>8, <1>15, SettleStep

(* Entries that are not touched when a transaction ends. *)
LEMMA EndUntouched ==
    ASSUME NEW o \in Xact, PhaseOK(o), o.pass # 0, NEW f \in o.pendingDeletes, Untouched(o, f)
    PROVE  o.phase # "commit" /\ (~f.dropForCommit => f.nestLevel < o.level)
<1>1. o.phase \in {"commit", "abort", "subabort"} /\ ~InWork(o)
  BY DEF PhaseOK, InWork
<1>2. f.nestLevel \in 1 .. 2 /\ o.level \in 1 .. 2
  BY DEF Xact, Pending
<1>3. o.phase # "commit"
  <2>1. SUFFICES ASSUME o.phase = "commit" PROVE FALSE
    OBVIOUS
  <2>2. o.level = 1 /\ TargetOf(o, f) # "None"
    BY <2>1 DEF PhaseOK, TargetOf, Target
  <2> QED
    BY <1>1, <1>2, <2>2 DEF Untouched
<1>4. ~f.dropForCommit => TargetOf(o, f) # "None"
  BY DEF TargetOf, Target
<1> QED
  BY <1>1, <1>3, <1>4 DEF Untouched

(* What the end of a transaction leaves of the objects that it held: the   *)
(* object is live, gone, or left to the parent.                            *)
LeftBehind(x, o, f, L, img, fs) ==
    \/ f.serial \in img.live /\ Shows(L, f.tid, "Created", f.serial)
    \/ L = {img} /\ f.serial \notin Serials(img) /\ f.serial \notin fs
    \/ \E c \in o.pendingDeletes : /\ c.serial = f.serial /\ c.nestLevel < o.level /\ ~c.dropForCommit
                                   /\ c.tid = f.tid
                                   /\ ShowsNew(L, f.tid, f.serial, x) /\ \A g \in L : x \notin g.committed

LEMMA WhatIsLeft ==
    ASSUME FileInv, SettleInv, NEW x \in Xacts, xact[x].pass = 2, xact[x].todo = {}, FlushOwn(x),
           NEW f \in xact[x].pendingDeletes
    PROVE  LeftBehind(x, xact[x], f, Images', Now, Files)
<1>1. PICK o \in Xact : o = xact[x]
  BY XactFacts
<1>2. PICK L, L2, img, fs : L = Images /\ L2 = Images' /\ img = Now /\ fs = Files
  OBVIOUS
<1>3. /\ img \in L2 /\ L2 \subseteq L
      /\ \A e \in o.pendingDeletes : ~Untouched(o, e) => L2 = {img}
  BY <1>1, <1>2, FlushOwnLeaves
<1>4. /\ \A e \in o.pendingDeletes : EntrySettled(x, o, e, L, img, fs)
      /\ XidOK(x, o, L) /\ PhaseOK(o) /\ o.pass = 2 /\ o.todo = {} /\ f \in o.pendingDeletes
  BY <1>1, <1>2, SettleFacts, XactFacts
<1>5. /\ \A t, st, s : Shows(L, t, st, s) => Shows(L2, t, st, s)
      /\ \A t, s : ShowsNew(L, t, s, x) => ShowsNew(L2, t, s, x)
  BY <1>3 DEF Shows, ShowsNew
<1>6. CASE ~Untouched(o, f)
  <2>1. TouchedOK(x, o, f, L, img, fs)
    BY <1>4, <1>6 DEF EntrySettled
  <2>2. CASE TargetOf(o, f) = "Created"
    BY <1>2, <1>1, <1>4, <1>5, <2>1, <2>2 DEF TouchedOK, LeftBehind
  <2>3. CASE TargetOf(o, f) # "Created"
    BY <1>2, <1>1, <1>3, <1>4, <1>6, <2>1, <2>3 DEF TouchedOK, LeftBehind
  <2> QED
    BY <2>2, <2>3
<1>7. CASE Untouched(o, f)
  <2>1. UntouchedOK(x, o, f, L, img)
    BY <1>4, <1>7 DEF EntrySettled
  <2>2. ASSUME NEW c \in o.pendingDeletes, Untouched(o, c), ~c.dropForCommit
        PROVE  /\ c.nestLevel < o.level /\ ShowsNew(L2, c.tid, c.serial, x)
               /\ \A g \in L2 : x \notin g.committed
    <3>1. o.phase # "commit" /\ c.nestLevel < o.level
      BY <1>4, <2>2, EndUntouched
    <3>2. o.phase \notin {"commit", "done"}
      BY <1>4, <3>1 DEF PhaseOK
    <3>3. UntouchedOK(x, o, c, L, img)
      BY <1>4, <2>2 DEF EntrySettled
    <3> QED
      BY <1>3, <1>4, <1>5, <2>2, <3>1, <3>2, <3>3 DEF UntouchedOK, XidOK
  <2>3. CASE ~f.dropForCommit
    BY <1>1, <1>2, <1>4, <1>7, <2>2, <2>3 DEF LeftBehind
  <2>4. CASE \E c \in o.pendingDeletes :
                Untouched(o, c) /\ ~c.dropForCommit /\ c.serial = f.serial /\ c.tid = f.tid
    BY <1>1, <1>2, <2>2, <2>4 DEF LeftBehind
  <2>5. CASE f.serial \in img.live /\ Shows(L, f.tid, "Created", f.serial)
    BY <1>1, <1>2, <1>5, <2>5 DEF LeftBehind
  <2> QED
    BY <2>1, <2>3, <2>4, <2>5 DEF UntouchedOK
<1> QED
  BY <1>6, <1>7

(* No image needs to remember that a checkpoint overtook these objects. *)
LEMMA ForgetOvertaken ==
    ASSUME NEW x, NEW o \in Xact, NEW L, NEW img, NEW fs, NEW ov, NEW g \in L,
           g.live = img.live, ImageSettled(g, fs, ov),
           \A f \in o.pendingDeletes : LeftBehind(x, o, f, L, img, fs)
    PROVE  ImageSettled(g, fs, ov \ HeldBy(o))
<1>1. ASSUME NEW t \in Tids, NEW f \in o.pendingDeletes, g.tab[t].serial = f.serial
      PROVE  /\ g.tab[t].state = "CreatePending" => g.tab[t].xid \notin g.committed
             /\ g.tab[t].state = "Created" => f.serial \in g.live
  <2>1. f.tid \in Tids /\ f.serial # 0
    BY DEF Xact, Pending
  <2>2. g.tab[f.tid].serial = f.serial => t = f.tid
    BY <1>1, <2>1 DEF ImageSettled
  <2>3. CASE f.serial \in img.live /\ Shows(L, f.tid, "Created", f.serial)
    BY <2>2, <2>3 DEF Shows
  <2>4. CASE L = {img} /\ f.serial \notin Serials(img)
    BY <1>1, <2>4 DEF Serials
  <2>5. CASE ShowsNew(L, f.tid, f.serial, x) /\ \A h \in L : x \notin h.committed
    <3>1. /\ g.tab[f.tid].serial = f.serial /\ g.tab[f.tid].state = "CreatePending"
          /\ g.tab[f.tid].xid = x /\ x \notin g.committed
      BY <2>5 DEF Shows, ShowsNew
    <3> QED
      BY <2>2, <3>1
  <2> QED
    BY <2>3, <2>4, <2>5 DEF LeftBehind
<1>2. ASSUME NEW t \in Tids PROVE TupleSettled(g, t, ov \ HeldBy(o))
  <2>1. TupleSettled(g, t, ov)
    BY DEF ImageSettled
  <2>2. CASE g.tab[t].serial \notin HeldBy(o)
    <3>1. g.tab[t].serial \in ov \ HeldBy(o) <=> g.tab[t].serial \in ov
      BY <2>2
    <3> HIDE <2>2
    <3> QED
      BY <2>1, <3>1 DEF TupleSettled
  <2>3. CASE g.tab[t].serial \in HeldBy(o)
    <3>1. PICK f \in o.pendingDeletes : g.tab[t].serial = f.serial
      BY <2>3 DEF HeldBy
    <3>2. /\ g.tab[t].state = "CreatePending" => g.tab[t].xid \notin g.committed
          /\ g.tab[t].state = "Created" => g.tab[t].serial \in g.live
      BY <1>1, <3>1
    <3> QED
      BY <2>1, <3>2 DEF TupleSettled
  <2> QED
    BY <2>2, <2>3
<1> QED
  BY <1>2 DEF ImageSettled

LEMMA EndSecondPassSettles ==
    ASSUME FileInv, SettleInv, NEW x \in Xacts, EndSecondPass(x) PROVE SettleInv'
<1>1. PICK o \in Xact : o = xact[x]
  BY XactFacts
<1> DEFINE rows == {q \in o.catalog : q.nestLevel < o.level}
           list == o.pendingDeletes \ {e \in o.pendingDeletes : e.nestLevel >= o.level}
           phase == IF o.phase = "subabort" THEN "run" ELSE "done"
           a == [NewXact EXCEPT !.phase = phase]
           b == [a EXCEPT !.catalog = rows]
           r == [b EXCEPT !.pendingDeletes = list]
<1>2. /\ mode = "up" /\ mode' = "up" /\ UNCHANGED <<Files, nextSerial>>
      /\ xact' = [xact EXCEPT ![x] = r] /\ o.pass = 2 /\ o.todo = {} /\ FlushOwn(x)
      /\ overtaken' = overtaken \ HeldBy(o)
  BY <1>1 DEF EndSecondPass, Done, Held, HeldBy, Files
<1>3. PhaseOK(o) /\ ListOK(o) /\ XidOK(x, o, Images) /\ Now \in Image /\ Now.live \subseteq Files
  BY <1>1, SettleFacts, XactFacts
<1>4. /\ o.phase \in {"commit", "abort", "subabort"} /\ o.level \in 1 .. 2
      /\ o.phase = "subabort" => o.level = 2
      /\ o.phase # "subabort" => o.level = 1
      /\ \A q \in o.catalog : q.nestLevel \in 1 .. 2
      /\ \A e \in o.pendingDeletes : e.nestLevel \in 1 .. 2
  BY <1>2, <1>3 DEF PhaseOK, Xact, Row, Pending
<1>5. rows \in SUBSET Row /\ list \in SUBSET Pending
  BY DEF Xact
<1>6. /\ \A q \in rows : q \in o.catalog /\ q.nestLevel = 1 /\ o.phase = "subabort"
      /\ \A e \in list : e \in o.pendingDeletes /\ e.nestLevel = 1 /\ o.phase = "subabort" /\ e.nestLevel < o.level
      /\ \A e \in o.pendingDeletes : e.nestLevel < o.level => e \in list
      /\ \A q \in rows : q.nestLevel < o.level
  BY <1>4
<1> HIDE DEF rows, list
<1>7. /\ r \in Xact /\ r.phase = phase /\ r.level = 1 /\ r.catalog = rows
      /\ r.pendingDeletes = list /\ r.pass = 0 /\ r.todo = {}
  <2>1. phase \in {"run", "done"}
    OBVIOUS
  <2> HIDE DEF phase
  <2>2. /\ a \in Xact /\ a.phase = phase /\ a.level = 1 /\ a.pass = 0 /\ a.todo = {}
    BY <2>1 DEF NewXact, Xact
  <2> HIDE DEF a
  <2>3. /\ b \in Xact /\ b.phase = phase /\ b.level = 1 /\ b.pass = 0 /\ b.todo = {}
        /\ b.catalog = rows
    BY <1>5, <2>2, SetCatalog
  <2> HIDE DEF b
  <2> QED
    BY <1>5, <2>3, SetPendingDeletes
<1> HIDE DEF r
<1>8. phase \in {"run", "done"} /\ (o.phase = "subabort" <=> phase = "run")
  OBVIOUS
<1> HIDE DEF phase
<1>9. PICK L, L2, img, fs, ov, ov2 : /\ L = Images /\ L2 = Images' /\ img = Now /\ fs = Files
                                     /\ ov = overtaken /\ ov2 = overtaken'
  OBVIOUS
<1>10. /\ Written(img) /\ img \in L2 /\ L2 \subseteq L
  BY <1>1, <1>2, <1>9, FlushOwnLeaves
<1>11. \A f \in o.pendingDeletes : LeftBehind(x, o, f, L2, img, fs)
  BY <1>1, <1>2, <1>9, WhatIsLeft
<1>12. ASSUME NEW g \in L2 PROVE ImageSettled(g, fs, ov2)
  <2>1. g.live = img.live /\ ImageSettled(g, fs, ov)
    BY <1>1, <1>9, <1>10, ImagesAre, SettleFacts
  <2>2. ImageSettled(g, fs, ov \ HeldBy(o))
    BY <1>11, <2>1, ForgetOvertaken
  <2> QED
    BY <1>2, <1>9, <2>2
<1>13. ASSUME NEW e \in list PROVE EntrySettled(x, r, e, L2, img, fs)
  <2>1. InWork(r) /\ e \in o.pendingDeletes /\ Untouched(o, e)
    BY <1>6, <1>7, <1>8 DEF InWork, Untouched
  <2>2. UntouchedOK(x, o, e, L, img)
    <3>1. EntrySettled(x, o, e, L, img, fs)
      BY <1>1, <1>9, <2>1, SettleFacts
    <3> QED
      BY <2>1, <3>1 DEF EntrySettled
  <2>3. /\ \A t, st, s : Shows(L, t, st, s) => Shows(L2, t, st, s)
        /\ \A t, s : ShowsNew(L, t, s, x) => ShowsNew(L2, t, s, x)
    BY <1>10 DEF Shows, ShowsNew
  <2>4. ASSUME NEW c \in o.pendingDeletes, Untouched(o, c), ~c.dropForCommit PROVE c \in list
    <3>1. o.pass # 0
      BY <1>2
    <3>2. c.nestLevel < o.level
      BY <1>3, <2>4, <3>1, EndUntouched
    <3> QED
      BY <1>6, <3>2
  <2>5. WorkOK(x, list, e, L2, img)
    BY <2>2, <2>3, <2>4 DEF UntouchedOK, WorkOK
  <2> QED
    BY <1>7, <2>1, <2>5, InWorkIs
<1>14. ListOK(r)
  <2>1. ASSUME NEW q \in rows, q.deleted
        PROVE  \E e \in list : e.dropForCommit /\ e.serial = q.serial /\ e.nestLevel = q.nestLevel
    <3>1. PICK e \in o.pendingDeletes : e.dropForCommit /\ e.serial = q.serial /\ e.nestLevel = q.nestLevel
      BY <1>3, <1>6, <2>1 DEF ListOK
    <3> QED
      BY <1>6, <3>1
  <2>2. \A e, f \in list : e.serial = f.serial /\ e.dropForCommit = f.dropForCommit => e = f
    BY <1>3, <1>6 DEF ListOK
  <2>3. \A e, f \in list : e.nestLevel <= f.nestLevel
    BY <1>6
  <2>4. phase = "done" => list = {}
    BY <1>6, <1>8
  <2> QED
    BY <1>7, <1>8, <2>1, <2>2, <2>3, <2>4 DEF ListOK, Endings
<1>15. XidOK(x, r, L2)
  BY <1>3, <1>4, <1>7, <1>8, <1>9, <1>10 DEF XidOK
<1>16. ASSUME NEW s \in HeldBy(o), s \notin HeldBy(r) PROVE Unheld(s, L2, img, fs, ov2)
  <2>1. PICK f \in o.pendingDeletes : s = f.serial
    BY DEF HeldBy
  <2>2. f.tid \in Tids
    BY DEF Xact, Pending
  <2>3. CASE s \in img.live /\ Shows(L2, f.tid, "Created", s)
    BY <2>2, <2>3 DEF Unheld
  <2>4. CASE s \notin Serials(img) /\ s \notin fs
    <3>1. s \notin img.live
      BY <1>3, <1>9, <2>4
    <3> QED
      BY <2>4, <3>1 DEF Unheld, Serials
  <2>5. CASE \E c \in o.pendingDeletes : c.serial = f.serial /\ c.nestLevel < o.level
    <3>1. \E c \in r.pendingDeletes : c.serial = s
      BY <1>6, <1>7, <2>1, <2>5
    <3> QED
      BY <1>16, <3>1 DEF HeldBy
  <2> QED
    BY <1>11, <2>1, <2>3, <2>4, <2>5 DEF LeftBehind
<1>17. XactSettled(x, r, L2, img, fs)
  BY <1>7, <1>13, <1>14, <1>15 DEF XactSettled
<1>18. \A s : SameObject(s, fs, img, fs, img)
  BY DEF SameObject
<1>19. Settles(x, r, img)
  BY <1>1, <1>2, <1>9, <1>10, <1>12, <1>16, <1>17, <1>18 DEF Settles
<1>20. img \in Image
  BY <1>3, <1>9
<1> QED
  BY <1>7, <1>19, <1>20, SettleStep

-----------------------------------------------------------------------------
(* Checkpoints. *)
LEMMA CheckpointImage ==
    ASSUME FileInv
    PROVE  /\ AtCheckpoint \in Image /\ AtCheckpoint.tab = Now.tab /\ AtCheckpoint.ended = {}
           /\ AtCheckpoint.live = Now.live /\ AtCheckpoint.committed = Now.committed
           /\ \A t \in Tids : AtCheckpoint.ends[t].serial = 0 /\ AtCheckpoint.ends[t].state = "None"
           /\ Flushed(AtCheckpoint) => Written(AtCheckpoint)
<1>1. PICK g \in Image : g = Now
  BY NowIs DEF FileInv
<1>2. PICK a : a = [g EXCEPT !.ends = [t \in Tids |-> NoEntry]]
  OBVIOUS
<1>3. AtCheckpoint = [a EXCEPT !.ended = {}]
  BY <1>1, <1>2 DEF AtCheckpoint
<1>4. DOMAIN a = {"tab", "ends", "ended", "live", "committed"}
  BY <1>2 DEF Image
<1>5. AtCheckpoint.ended = {}
  BY <1>3, <1>4
<1>6. NoEntry.serial = 0 /\ NoEntry.state = "None"
  BY DEF NoEntry
<1> QED
  BY <1>5, <1>6, AtCheckpointIs DEF Written

(* A created object that is not live is in the hands of a commit, or has   *)
(* been overtaken.                                                         *)
LEMMA DroppedIsHeld ==
    ASSUME FileInv, SettleInv, mode = "up", NEW t \in Tids, Now.tab[t].state = "Created",
           Now.tab[t].serial \notin Now.live, Now.tab[t].serial \notin overtaken
    PROVE  \E y \in Xacts : xact[y].phase = "commit" /\ Now.tab[t].serial \in HeldBy(xact[y])
<1>1. PICK g, s : g = Now /\ s = g.tab[t].serial
  OBVIOUS
<1>2. /\ g \in Image /\ g \in Images /\ ImageOK(g, nextSerial) /\ nextSerial \in Nat
      /\ ImageSettled(g, Files, overtaken)
  <2>1. Now \in Images /\ Images \subseteq Image /\ ImageOK(Now, nextSerial)
    BY ImagesAre
  <2> QED
    BY <1>1, <2>1, Numbers DEF SettleInv, FileInv
<1>3. s # 0 /\ s \in Nat /\ s < nextSerial
  BY <1>1, <1>2, ImageNumbers DEF ImageOK, ImageSettled, TupleSettled
<1>4. s \in InUse
  <2>1. SUFFICES ASSUME s \notin InUse PROVE FALSE
    OBVIOUS
  <2>2. s \in 1 .. (nextSerial - 1)
    BY <1>2, <1>3
  <2>3. Unheld(s, Images, Now, Files, overtaken)
    BY <2>1, <2>2 DEF SettleInv
  <2> QED
    BY <1>1, <2>3 DEF Unheld
<1>5. PICK y \in Xacts : s \in HeldBy(xact[y])
  BY <1>4, InUseIs
<1>6. PICK r \in Xact : r = xact[y]
  BY <1>5, XactFacts
<1>7. PICK e \in r.pendingDeletes : e.serial = s
  BY <1>5, <1>6 DEF HeldBy
<1>8. PICK L, fs : L = Images /\ fs = Files
  OBVIOUS
<1>9. /\ ListOK(r) /\ g \in L /\ \A f \in r.pendingDeletes : EntrySettled(y, r, f, L, g, fs)
  BY <1>1, <1>2, <1>6, <1>8, SettleFacts
<1>10. \A f \in r.pendingDeletes : f.tid \in Tids
  BY DEF Xact, Pending
<1>11. \A u \in Tids : g.tab[u].serial = s => u = t
  BY <1>1, <1>2, <1>3 DEF ImageSettled
<1>12. g.tab[t].state = "Created" /\ s \notin g.live /\ s \in Serials(g)
  BY <1>1 DEF Serials
<1>13. SUFFICES ASSUME r.phase # "commit" PROVE FALSE
  BY <1>1, <1>5, <1>6
<1>14. CASE Untouched(r, e)
  <2>1. ASSUME NEW c \in r.pendingDeletes, Untouched(r, c), ~c.dropForCommit, c.serial = s
        PROVE  FALSE
    <3>1. ShowsNew(L, c.tid, s, y)
      BY <1>9, <2>1 DEF EntrySettled, UntouchedOK
    <3>2. g.tab[c.tid].serial = s /\ g.tab[c.tid].state = "CreatePending"
      BY <1>9, <3>1 DEF ShowsNew, Shows
    <3> QED
      BY <1>10, <1>11, <1>12, <3>2
  <2>2. UntouchedOK(y, r, e, L, g)
    BY <1>9, <1>14 DEF EntrySettled
  <2> QED
    BY <1>7, <1>12, <1>14, <2>1, <2>2 DEF UntouchedOK
<1>15. CASE ~Untouched(r, e)
  <2>1. TouchedOK(y, r, e, L, g, fs)
    BY <1>9, <1>15 DEF EntrySettled
  <2>2. TargetOf(r, e) = "AbortingCreate" /\ ~InWork(r)
    BY <1>13, <1>15 DEF Untouched, TargetOf, Target
  <2>3. r.pass \in {1, 2}
    <3>1. r.phase \in Endings \cup {"done"} /\ r.pass \in 0 .. 2
      BY <2>2 DEF Xact, InWork, Endings
    <3> QED
      BY <1>9, <3>1 DEF ListOK
  <2>4. g.tab[e.tid].serial = s => g.tab[e.tid].state = "Created"
    BY <1>10, <1>11, <1>12
  <2>5. "Created" \notin Expected["AbortingCreate"]
    BY DEF Expected
  <2> QED
    BY <1>7, <1>12, <2>1, <2>2, <2>3, <2>4, <2>5 DEF TouchedOK
<1> QED
  BY <1>14, <1>15

LEMMA CheckpointSettles == ASSUME FileInv, SettleInv, Checkpoint PROVE SettleInv'
<1>1. PICK img \in Image : img = AtCheckpoint
  BY CheckpointImage
<1>2. PICK L, L2, g, fs, ov, ov2 : /\ L = Images /\ L2 = Images' /\ g = Now /\ fs = Files
                                   /\ ov = overtaken /\ ov2 = overtaken'
  OBVIOUS
<1>3. /\ mode = "up" /\ mode' = "up" /\ UNCHANGED <<Files, xact, nextSerial>> /\ Flushed(img)
      /\ ov2 = ov \cup UNION {Held(x) : x \in {y \in Xacts : xact[y].phase = "commit"}}
  BY <1>1, <1>2 DEF Checkpoint, AtCheckpoint, Files
<1>4. /\ img.tab = g.tab /\ img.ended = {} /\ img.live = g.live /\ img.committed = g.committed
      /\ \A t \in Tids : img.ends[t].serial = 0 /\ img.ends[t].state = "None"
      /\ Written(img)
  BY <1>1, <1>2, <1>3, CheckpointImage
<1>5. Now' = img /\ L2 = {img} /\ g \in L /\ g \in Image
  BY <1>2, <1>3, <1>4, WrittenImages, ImagesAre
<1>6. ImageSettled(g, fs, ov)
  BY <1>2, <1>5 DEF SettleInv
<1>7. \A y \in Xacts : xact[y].phase = "commit" => HeldBy(xact[y]) \subseteq ov2
  BY <1>3 DEF Held, HeldBy
<1>8. ov \subseteq ov2
  BY <1>3
<1>9. ASSUME NEW t \in Tids PROVE TupleSettled(img, t, ov2)
  <2>1. TupleSettled(g, t, ov)
    BY <1>6 DEF ImageSettled
  <2>2. ASSUME g.tab[t].state = "CreatePending", g.tab[t].xid \in g.committed
        PROVE  g.tab[t].serial \in ov2
    <3>1. PICK x \in Xacts : \E e \in xact[x].pendingDeletes :
              x = g.tab[t].xid /\ e.tid = t /\ e.serial = g.tab[t].serial
      BY <1>2, <1>3, <2>2, PendingTuple
    <3>2. PICK e \in xact[x].pendingDeletes : x = g.tab[t].xid /\ e.serial = g.tab[t].serial
      BY <3>1
    <3>3. xact[x].phase \in {"commit", "done"} /\ xact[x].phase # "done"
      <4>1. XidOK(x, xact[x], L) /\ ListOK(xact[x])
        BY <1>2, SettleFacts
      <4> QED
        BY <1>5, <2>2, <3>2, <4>1 DEF XidOK, ListOK
    <3>4. e.serial \in HeldBy(xact[x])
      BY DEF HeldBy
    <3> QED
      BY <1>7, <3>2, <3>3, <3>4
  <2>3. ASSUME g.tab[t].state = "Created", g.tab[t].serial \notin g.live
        PROVE  g.tab[t].serial \in ov2
    <3>1. CASE g.tab[t].serial \in ov
      BY <1>8, <3>1
    <3>2. CASE g.tab[t].serial \notin ov
      <4>1. PICK y \in Xacts : xact[y].phase = "commit" /\ g.tab[t].serial \in HeldBy(xact[y])
        BY <1>2, <1>3, <2>3, <3>2, DroppedIsHeld
      <4> QED
        BY <1>7, <4>1
    <3> QED
      BY <3>1, <3>2
  <2>4. g.tab[t].state # "Free" => 0 < g.tab[t].serial
    <3>1. g.tab[t].serial \in Nat
      BY <1>5, ImageNumbers
    <3> QED
      BY <2>1, <3>1 DEF TupleSettled
  <2> QED
    BY <1>4, <2>1, <2>2, <2>3, <2>4 DEF TupleSettled
<1>10. ImageSettled(img, fs, ov2)
  BY <1>4, <1>6, <1>9 DEF ImageSettled, Serials
<1>11. ASSUME NEW s, s # 0 PROVE SameObject(s, fs, g, fs, img)
  BY <1>4, <1>11 DEF SameObject
<1>12. ASSUME NEW y \in Xacts PROVE XactSettled(y, xact[y], L2, img, fs)
  <2>1. PICK r \in Xact : r = xact[y]
    BY XactFacts
  <2>2. /\ \A e \in r.pendingDeletes : EntrySettled(y, r, e, L, g, fs)
        /\ ListOK(r) /\ XidOK(y, r, L)
    BY <1>2, <2>1, SettleFacts
  <2>3. ASSUME NEW e \in r.pendingDeletes PROVE EntrySettled(y, r, e, L2, img, fs)
    <3>1. e.serial # 0
      BY DEF Xact, Pending
    <3>2. SameObject(e.serial, fs, g, fs, img) /\ L2 \subseteq L \cup {img}
      BY <1>5, <1>11, <3>1
    <3> QED
      BY <1>5, <2>2, <3>2, EntryKeeps
  <2>4. XidOK(y, r, L2)
    BY <1>4, <1>5, <2>2 DEF XidOK
  <2> QED
    BY <2>1, <2>2, <2>3, <2>4 DEF XactSettled
<1>13. ASSUME NEW s \in 1 .. (nextSerial - 1), s \notin InUse PROVE Unheld(s, L2, img, fs, ov2)
  <2>1. Unheld(s, L, g, fs, ov)
    BY <1>2, <1>3, <1>13 DEF SettleInv
  <2>2. s # 0
    OBVIOUS
  <2>3. SameObject(s, fs, g, fs, img) /\ L2 \subseteq L \cup {img} /\ (s \in ov => s \in ov2)
    BY <1>5, <1>8, <1>11, <2>2
  <2> QED
    BY <1>5, <2>1, <2>3, UnheldKeeps
<1>14. InUse' = InUse
  BY <1>3 DEF InUse, Held
<1>15. ScannedInv' /\ ModeOK'
  BY <1>3 DEF ScannedInv, ModeOK, Scanned
<1> QED
  BY <1>2, <1>3, <1>5, <1>10, <1>12, <1>13, <1>14, <1>15 DEF SettleInv

-----------------------------------------------------------------------------
(* Crashes and recovery. *)
LEMMA BlankSettled ==
    ASSUME NEW x, NEW r \in Blank, NEW L, XidOK(x, r, L)
    PROVE  \A img, fs : XactSettled(x, r, L, img, fs)
<1>1. /\ r.phase \in {"none", "done"} /\ r.catalog = {} /\ r.pendingDeletes = {}
  BY BlankIs
<1>2. ListOK(r)
  BY <1>1 DEF ListOK, Endings
<1> QED
  BY <1>1, <1>2 DEF XactSettled

LEMMA CrashSettles == ASSUME FileInv, SettleInv, Crash PROVE SettleInv'
<1>1. PICK i \in DOMAIN log : log' = <<log[i]>>
  BY DEF Crash
<1>2. PICK g \in Images : g = log[i]
  BY DEF Images
<1>3. /\ mode' = "scan" /\ UNCHANGED <<Files, overtaken>>
      /\ xact' = [x \in Xacts |-> IF xact[x].phase = "none" THEN NewXact
                                  ELSE [NewXact EXCEPT !.phase = "done"]]
  BY DEF Crash, Files
<1>4. Images' = {g}
  <2>1. log' = <<g>> /\ DOMAIN log' = {1} /\ log'[1] = g
    BY <1>1, <1>2
  <2> QED
    BY <2>1 DEF Images
<1>5. ImageSettled(g, Files, overtaken)
  BY <1>2 DEF SettleInv
<1>6. ASSUME NEW x \in Xacts PROVE XactSettled(x, xact'[x], Images', Now', Files')
  <2>1. PICK r \in Blank : r = xact'[x]
    BY <1>3 DEF Blank
  <2>2. XidOK(x, r, {g})
    <3>1. CASE xact[x].phase = "none"
      <4>1. XidOK(x, xact[x], Images)
        BY SettleFacts
      <4> QED
        BY <1>2, <3>1, <4>1 DEF XidOK
    <3>2. CASE xact[x].phase # "none"
      <4>1. r = [NewXact EXCEPT !.phase = "done"]
        BY <1>3, <2>1, <3>2
      <4>2. r.phase = "done"
        BY <4>1 DEF NewXact
      <4> QED
        BY <4>2 DEF XidOK
    <3> QED
      BY <3>1, <3>2
  <2>3. \A img, fs : XactSettled(x, r, {g}, img, fs)
    BY <2>2, BlankSettled
  <2> QED
    BY <1>4, <2>1, <2>3
<1>7. ScannedInv' /\ ModeOK'
  BY <1>3 DEF ScannedInv, ModeOK, Scanned
<1> QED
  BY <1>3, <1>4, <1>5, <1>6, <1>7 DEF SettleInv

(* A step of the recovery that writes img, or nothing. *)
LEMMA RecoverySettles ==
    ASSUME FileInv, SettleInv, mode \in Recovering, mode' # "up", UNCHANGED <<xact, overtaken>>,
           NEW img \in Image, Images' \subseteq Images \cup {img}, Files' \subseteq Files,
           ImageSettled(img, Files', overtaken),
           \A x \in Xacts : XidOK(x, xact[x], {img}),
           ScannedInv', ModeOK'
    PROVE  SettleInv'
<1>1. PICK L, L2, fs, fs2, ov : L = Images /\ L2 = Images' /\ fs = Files /\ fs2 = Files' /\ ov = overtaken
  OBVIOUS
<1>2. ASSUME NEW g \in L2 PROVE ImageSettled(g, fs2, ov)
  <2>1. CASE g = img
    BY <1>1, <2>1
  <2>2. CASE g \in L
    <3>1. ImageSettled(g, fs, ov) /\ fs2 \subseteq fs /\ ov \subseteq ov
      BY <1>1, <2>2 DEF SettleInv
    <3> QED
      BY <3>1, ImageStays
  <2> QED
    BY <1>1, <2>1, <2>2
<1>3. ASSUME NEW x \in Xacts PROVE XactSettled(x, xact'[x], L2, Now', fs2)
  <2>1. PICK r \in Blank : r = xact[x]
    BY DEF FileInv, RecoveryInv, Blank
  <2>2. XidOK(x, r, L) /\ XidOK(x, r, {img})
    BY <1>1, <2>1, SettleFacts
  <2>3. XidOK(x, r, L2)
    BY <1>1, <2>2 DEF XidOK
  <2> QED
    BY <2>1, <2>3, BlankSettled
<1> QED
  BY <1>1, <1>2, <1>3 DEF SettleInv

LEMMA RecoveryImage ==
    ASSUME FileInv, SettleInv
    PROVE  /\ Now \in Image /\ ImageSettled(Now, Files, overtaken) /\ ImageOK(Now, nextSerial)
           /\ \A x \in Xacts : XidOK(x, xact[x], Images) /\ XidOK(x, xact[x], {Now})
<1>1. Now \in Images /\ Images \subseteq Image /\ ImageOK(Now, nextSerial)
  BY ImagesAre
<1>2. \A x \in Xacts : XidOK(x, xact[x], Images)
  BY SettleFacts
<1>3. ASSUME NEW x \in Xacts PROVE XidOK(x, xact[x], {Now})
  BY <1>1, <1>2 DEF XidOK
<1> QED
  BY <1>1, <1>2, <1>3 DEF SettleInv

(* The scan. *)
LEMMA RankOrder ==
    \A d \in {"Created", "DropPending", "AbortingCreate"} : \A u \in States :
        /\ Rank[d] \in Nat /\ Rank[u] \in Nat
        /\ u \in Expected[d] => Rank[u] < Rank[d]
BY DEF Rank, Expected, States

LEMMA ScanIsOK ==
    ASSUME NEW g \in Image, NEW t \in Tids, NEW ov, NEW n, ImageOK(g, n), TupleSettled(g, t, ov)
    PROVE  ScanOK(ScanEntry(g.ends[t], g.tab[t]), g.tab[t], g.ends[t])
<1>1. PICK d \in {NoEntry} \cup EndRec, u \in Tuple : d = g.ends[t] /\ u = g.tab[t]
  BY DEF Image, EndRec, Tuple
<1>2. /\ u.state = "Free" <=> u.serial = 0
      /\ d.state # "Free" /\ d.state # "CreatePending"
      /\ u.state # "Free" =>
            \/ d.serial < u.serial
            \/ d.serial = u.serial /\ (u.state = d.state \/ u.state \in Expected[d.state])
  BY <1>1 DEF TupleSettled, ImageOK
<1>3. PICK en : en = ScanEntry(d, u)
  OBVIOUS
<1> DEFINE fromTuple == [NoEntry EXCEPT !.state = u.state, !.serial = u.serial, !.xid = u.xid]
           freed == [d EXCEPT !.state = "Free"]
           marked == [d EXCEPT !.updateNeeded = Rank[d.state] > Rank[u.state]]
<1>4. /\ fromTuple.state = u.state /\ fromTuple.serial = u.serial
      /\ fromTuple.xid = u.xid /\ fromTuple.updateNeeded = FALSE
  BY DEF NoEntry, Tuple
<1>5. freed.state = "Free" /\ freed.updateNeeded = FALSE
  <2>1. CASE d = NoEntry
    BY <2>1 DEF NoEntry
  <2>2. CASE d \in EndRec
    BY <2>2 DEF EndRec
  <2> QED
    BY <2>1, <2>2
<1>6. NoEntry.serial = 0 /\ u.state \in States /\ u.serial \in Nat /\ d.serial \in Nat
  BY <1>1, Ranks, Numbers, ImageNumbers DEF NoEntry, Tuple
<1>7. CASE u.state = "Free"
  <2>1. en = freed
    BY <1>3, <1>7 DEF ScanEntry
  <2> HIDE DEF freed
  <2> QED
    BY <1>1, <1>3, <1>5, <1>7, <2>1 DEF ScanOK
<1>8. CASE en = fromTuple /\ u.state # "Free" /\ d.serial # u.serial
  <2> HIDE DEF fromTuple
  <2> QED
    BY <1>1, <1>3, <1>4, <1>8 DEF ScanOK
<1>9. CASE u.state # "Free" /\ d = NoEntry
  <2>1. en = fromTuple /\ d.serial # u.serial
    BY <1>2, <1>3, <1>6, <1>9 DEF ScanEntry
  <2> QED
    BY <1>8, <1>9, <2>1
<1>10. CASE u.state # "Free" /\ d # NoEntry /\ d.serial < u.serial
  <2>1. en = fromTuple /\ d.serial # u.serial
    BY <1>3, <1>6, <1>10 DEF ScanEntry, Obsolete
  <2> QED
    BY <1>8, <1>10, <2>1
<1>11. CASE u.state # "Free" /\ d # NoEntry /\ d.serial = u.serial
  <2>1. d \in EndRec /\ d.state \in {"Created", "DropPending", "AbortingCreate"}
    <3>1. d \in EndRec
      BY <1>11
    <3>2. d.state \in States
      BY <3>1, Ranks DEF EndRec
    <3> QED
      BY <1>2, <3>1, <3>2 DEF States
  <2>2. u.state = d.state \/ u.state \in Expected[d.state]
    BY <1>2, <1>6, <1>11
  <2>3. /\ Rank[d.state] \in Nat /\ Rank[u.state] \in Nat
        /\ u.state \in Expected[d.state] => Rank[u.state] < Rank[d.state]
    BY <1>6, <2>1, RankOrder
  <2>4. PICK b \in BOOLEAN : b = (Rank[d.state] > Rank[u.state])
    <3>1. (Rank[d.state] > Rank[u.state]) \in BOOLEAN
      OBVIOUS
    <3> QED
      BY <3>1, Zenon
  <2>5. (b => u.state \in Expected[d.state]) /\ (~b => u.state = d.state)
    <3>1. b <=> Rank[d.state] > Rank[u.state]
      BY <2>4, Zenon
    <3> QED
      BY <2>2, <2>3, <3>1
  <2>6. en = [d EXCEPT !.updateNeeded = b]
    <3>1. ~(Rank[d.state] < Rank[u.state]) /\ ~(d.serial < u.serial) /\ ~(d.serial > u.serial)
      BY <1>6, <1>11, <2>2, <2>3
    <3> QED
      BY <1>3, <1>11, <2>4, <3>1 DEF ScanEntry, Obsolete
  <2>7. en.state = d.state /\ en.serial = d.serial /\ en.updateNeeded = b
    BY <2>1, <2>6 DEF EndRec
  <2> QED
    BY <1>1, <1>2, <1>3, <1>11, <2>1, <2>5, <2>7 DEF ScanOK
<1> QED
  BY <1>2, <1>7, <1>9, <1>10, <1>11

LEMMA ScanSettles == ASSUME FileInv, SettleInv, PersistentRecovery_Scan PROVE SettleInv'
<1>1. /\ mode = "scan" /\ mode' = "abort" /\ UNCHANGED <<log, Files, xact, overtaken>>
      /\ entry' = [t \in Tids |-> ScanEntry(Now.ends[t], Now.tab[t])]
  BY DEF PersistentRecovery_Scan, Files
<1>2. PICK g \in Image : g = Now
  BY RecoveryImage
<1>3. /\ ImageSettled(g, Files, overtaken) /\ ImageOK(g, nextSerial)
      /\ \A x \in Xacts : XidOK(x, xact[x], {g})
  BY <1>2, RecoveryImage
<1>4. Images' = Images /\ Now' = g
  BY <1>1, <1>2, SameImages
<1>5. ASSUME NEW t \in Tids PROVE ScanOK(entry'[t], g.tab[t], g.ends[t])
  <2>1. PICK ov, n : ov = overtaken /\ n = nextSerial
    OBVIOUS
  <2>2. TupleSettled(g, t, ov) /\ ImageOK(g, n)
    BY <1>3, <2>1 DEF ImageSettled
  <2>3. ScanOK(ScanEntry(g.ends[t], g.tab[t]), g.tab[t], g.ends[t])
    BY <2>2, ScanIsOK
  <2> QED
    BY <1>1, <1>2, <2>3
<1>6. ScannedInv' /\ ModeOK'
  BY <1>1, <1>4, <1>5 DEF ScannedInv, ModeOK
<1>7. mode \in Recovering /\ mode' # "up" /\ Files' \subseteq Files /\ ImageSettled(g, Files', overtaken)
      /\ Images' \subseteq Images \cup {g}
  BY <1>1, <1>3, <1>4 DEF Recovering
<1> QED
  BY <1>1, <1>3, <1>6, <1>7, RecoverySettles

(* An entry that is still to be created has no end record. *)
LEMMA PendingEntry ==
    ASSUME FileInv, SettleInv, mode \in Scanned, NEW t \in Tids, entry[t].state = "CreatePending"
    PROVE  /\ Now.tab[t].state = "CreatePending" /\ Now.tab[t].xid = entry[t].xid
           /\ Now.tab[t].serial = entry[t].serial /\ Now.ends[t].serial # Now.tab[t].serial
           /\ entry[t].xid \in Xacts
           /\ entry[t].xid \notin Now.ended
           /\ entry[t].xid \in Now.committed => entry[t].serial \in overtaken
<1>1. ScanOK(entry[t], Now.tab[t], Now.ends[t])
  BY DEF SettleInv, ScannedInv
<1>2. ~entry[t].updateNeeded
  BY RecoveryFacts
<1>3. /\ Now.tab[t].state = "CreatePending" /\ Now.tab[t].xid = entry[t].xid
      /\ Now.tab[t].serial = entry[t].serial
      /\ Now.ends[t].serial = Now.tab[t].serial => Now.ends[t].state = "CreatePending"
  BY <1>1, <1>2 DEF ScanOK
<1>4. Now.ends[t].state # "CreatePending" /\ TupleSettled(Now, t, overtaken)
  BY RecoveryImage DEF ImageOK, ImageSettled
<1> QED
  BY <1>3, <1>4 DEF TupleSettled

LEMMA CrashAbortSettles ==
    ASSUME FileInv, SettleInv, NEW x \in Xacts, PersistentRecovery_CrashAbort(x) PROVE SettleInv'
<1>1. /\ mode = "abort" /\ UNCHANGED <<xact, overtaken>> /\ Unfinished(x) # {}
  BY DEF PersistentRecovery_CrashAbort
<1>2. mode \in Scanned /\ mode \in Recovering
  BY <1>1 DEF Scanned, Recovering
<1>3. PICK g \in Image : g = Now
  BY RecoveryImage
<1>4. PICK fs, ov : fs = Files /\ ov = overtaken
  OBVIOUS
<1>5. /\ ImageSettled(g, fs, ov) /\ entry \in [Tids -> Entry]
      /\ \A y \in Xacts : XidOK(y, xact[y], {g})
      /\ \A t \in Tids : ScanOK(entry[t], g.tab[t], g.ends[t])
  BY <1>2, <1>3, <1>4, RecoveryImage, RecoveryFacts DEF SettleInv, ScannedInv
<1>6. ASSUME NEW t \in Unfinished(x)
      PROVE  /\ t \in Tids /\ g.tab[t].state = "CreatePending" /\ g.tab[t].xid = x
             /\ g.tab[t].serial = entry[t].serial
             /\ x \in g.committed => entry[t].serial \in ov
  <2>1. t \in Tids /\ entry[t].state = "CreatePending" /\ entry[t].xid = x
    BY DEF Unfinished
  <2> QED
    BY <1>2, <1>3, <1>4, <2>1, PendingEntry
<1>7. CASE x \in Now.committed
  <2>1. UNCHANGED <<log, Files, entry>> /\ mode' = "fatal"
    BY <1>7 DEF PersistentRecovery_CrashAbort, Down, Files
  <2>2. overtaken # {}
    BY <1>1, <1>3, <1>4, <1>6, <1>7
  <2>3. Images' = Images
    BY <2>1, SameImages
  <2>4. ScannedInv' /\ ModeOK'
    BY <1>1, <2>1, <2>2 DEF ScannedInv, ModeOK, Scanned
  <2>5. mode' # "up" /\ Files' \subseteq Files /\ ImageSettled(g, Files', overtaken)
        /\ Images' \subseteq Images \cup {g}
    BY <1>4, <1>5, <2>1, <2>3
  <2> QED
    BY <1>1, <1>2, <1>5, <2>4, <2>5, RecoverySettles
<1>8. CASE x \notin Now.committed
  <2> DEFINE U == Unfinished(x)
             new(t) == [NoEntry EXCEPT !.state = "AbortingCreate", !.serial = entry[t].serial]
             ends == [t \in Tids |-> IF t \in U THEN new(t) ELSE g.ends[t]]
             a == [g EXCEPT !.ended = g.ended \cup {x}]
             img == [a EXCEPT !.ends = ends]
  <2>1. /\ Appended(img) /\ UNCHANGED <<mode, Files>>
        /\ entry' = [t \in Tids |-> IF t \in U
                       THEN [entry[t] EXCEPT !.state = "AbortingCreate", !.updateNeeded = TRUE]
                       ELSE entry[t]]
    BY <1>3, <1>8 DEF PersistentRecovery_CrashAbort, Files
  <2>2. ASSUME NEW t \in U
        PROVE  new(t) \in EndRec /\ new(t).serial = entry[t].serial /\ new(t).state = "AbortingCreate"
    <3>1. t \in Tids /\ entry[t].serial \in 0 .. MaxSerial /\ g.tab[t].serial # 0
      <4>1. t \in Tids /\ TupleSettled(g, t, ov)
        BY <1>5, <1>6 DEF ImageSettled
      <4> QED
        BY <1>5, <1>6, <4>1 DEF Entry, TupleSettled
    <3>2. entry[t].serial # 0
      BY <1>6, <3>1
    <3>3. PICK s \in 1 .. MaxSerial : s = entry[t].serial
      BY <3>1, <3>2, Numbers
    <3>4. new(t) = [NoEntry EXCEPT !.state = "AbortingCreate", !.serial = s]
      BY <3>3
    <3>5. "AbortingCreate" \in DOMAIN Rank
      BY Ranks DEF States
    <3> QED
      BY <3>3, <3>4, <3>5 DEF EndRec, NoEntry
  <2> HIDE DEF new
  <2>3. g.ends \in [Tids -> {NoEntry} \cup EndRec]
    BY DEF Image, EndRec
  <2>4. \A t \in Tids : ends[t] = IF t \in U THEN new(t) ELSE g.ends[t]
    OBVIOUS
  <2>5. ends \in [Tids -> {NoEntry} \cup EndRec]
    BY <2>2, <2>3
  <2> HIDE DEF ends
  <2>6. /\ img \in Image /\ img.tab = g.tab /\ img.live = g.live /\ img.ended = g.ended \cup {x}
        /\ img.committed = g.committed /\ img.ends = ends
    <3>1. g.ended \cup {x} \in SUBSET Xacts
      BY DEF Image
    <3>2. /\ a \in Image /\ a.tab = g.tab /\ a.live = g.live /\ a.committed = g.committed
          /\ a.ended = g.ended \cup {x}
      BY <3>1 DEF Image
    <3> HIDE DEF a
    <3> QED
      BY <2>5, <3>2 DEF Image, EndRec
  <2>7. Written(img)
    BY <2>1 DEF Written
  <2> HIDE DEF img
  <2>8. Images' \subseteq Images \cup {img} /\ Now' = img
    BY <2>6, <2>7, WrittenImages
  <2>9. ASSUME NEW t \in U
        PROVE  /\ t \in Tids /\ img.tab[t].state = "CreatePending" /\ img.tab[t].serial = entry[t].serial
               /\ img.tab[t].xid = x /\ img.tab[t] = g.tab[t]
               /\ img.ends[t].serial = entry[t].serial /\ img.ends[t].state = "AbortingCreate"
    BY <1>6, <2>2, <2>4, <2>6
  <2>10. Expected["AbortingCreate"] = {"CreatePending"}
    BY DEF Expected
  <2>11. ASSUME NEW t \in Tids, t \notin U
         PROVE  /\ img.tab[t] = g.tab[t] /\ img.ends[t] = g.ends[t]
                /\ g.tab[t].state = "CreatePending" /\ g.tab[t].xid = x => g.ends[t].serial = g.tab[t].serial
    <3>1. img.tab[t] = g.tab[t] /\ img.ends[t] = g.ends[t]
      BY <2>4, <2>6, <2>11
    <3>2. ScanOK(entry[t], g.tab[t], g.ends[t])
      BY <1>5
    <3>3. ~(entry[t].state = "CreatePending" /\ entry[t].xid = x)
      BY <2>11 DEF Unfinished
    <3> QED
      BY <3>1, <3>2, <3>3 DEF ScanOK
  <2>12. ASSUME NEW t \in Tids PROVE TupleSettled(img, t, ov)
    <3>1. TupleSettled(g, t, ov)
      BY <1>5 DEF ImageSettled
    <3>2. CASE t \in U
      BY <1>6, <2>9, <2>10, <3>1, <3>2 DEF TupleSettled
    <3>3. CASE t \notin U
      <4>1. g.tab[t].state = "CreatePending" /\ g.tab[t].xid \in img.ended => g.ends[t].serial = g.tab[t].serial
        BY <2>6, <2>11, <3>1, <3>3 DEF TupleSettled
      <4>2. img.tab[t] = g.tab[t] /\ img.ends[t] = g.ends[t]
        BY <2>11, <3>3
      <4> QED
        BY <2>6, <3>1, <4>1, <4>2 DEF TupleSettled
    <3> QED
      BY <3>2, <3>3
  <2>13. ImageSettled(img, fs, ov)
    BY <1>5, <2>6, <2>12 DEF ImageSettled, Serials
  <2>14. ASSUME NEW y \in Xacts PROVE XidOK(y, xact[y], {img})
    <3>1. PICK r \in Blank : r = xact[y]
      BY <1>2 DEF FileInv, RecoveryInv, Blank
    <3>2. XidOK(y, r, {g}) /\ r.phase \in {"none", "done"}
      BY <1>5, <3>1, BlankIs
    <3>3. r.phase = "none" => y # x
      BY <1>1, <1>6, <3>2 DEF XidOK
    <3>4. XidOK(y, r, {img})
      BY <2>6, <3>2, <3>3 DEF XidOK
    <3> QED
      BY <3>1, <3>4
  <2>15. ASSUME NEW t \in Tids PROVE ScanOK(entry'[t], img.tab[t], img.ends[t])
    <3>1. CASE t \notin U
      <4>1. entry'[t] = entry[t]
        BY <2>1, <3>1
      <4> QED
        BY <1>5, <2>11, <3>1, <4>1
    <3>2. CASE t \in U
      <4>1. PICK e \in Entry : e = entry[t]
        BY <1>5
      <4> DEFINE b == [e EXCEPT !.state = "AbortingCreate"]
                 c == [b EXCEPT !.updateNeeded = TRUE]
      <4>2. entry'[t] = c
        BY <2>1, <3>2, <4>1
      <4>3. b \in Entry /\ b.state = "AbortingCreate" /\ b.serial = e.serial
        <5>1. "AbortingCreate" \in {"None"} \cup DOMAIN Rank
          BY Ranks DEF States
        <5> QED
          BY <5>1, SetState
      <4> HIDE DEF b
      <4>4. c.state = "AbortingCreate" /\ c.serial = e.serial /\ c.updateNeeded = TRUE
        BY <4>3 DEF Entry
      <4> HIDE DEF c
      <4> QED
        BY <2>9, <2>10, <3>2, <4>1, <4>2, <4>4 DEF ScanOK
    <3> QED
      BY <3>1, <3>2
  <2>16. ScannedInv' /\ ModeOK'
    BY <1>1, <2>1, <2>8, <2>15 DEF ScannedInv, ModeOK
  <2>17. mode' # "up" /\ Files' \subseteq Files /\ ImageSettled(img, Files', overtaken)
    BY <1>1, <1>4, <2>1, <2>13
  <2> QED
    BY <1>1, <1>2, <2>6, <2>8, <2>14, <2>16, <2>17, RecoverySettles
<1> QED
  BY <1>7, <1>8

(* A step of the recovery that changes the tuple at t. *)
Fits(t, v, fs) ==
    \A img \in Image :
        /\ img.ends = Now.ends /\ img.ended = Now.ended /\ img.live = Now.live
        /\ img.committed = Now.committed /\ img.tab[t] = v
        /\ \A u \in Tids \ {t} : img.tab[u] = Now.tab[u]
        => ImageSettled(img, fs, overtaken)

LEMMA TupleRecovery ==
    ASSUME FileInv, SettleInv, mode \in {"update", "drop"}, UNCHANGED <<xact, overtaken, mode>>,
           NEW t \in Tids, NEW v \in Tuple, Appended([Now EXCEPT !.tab[t] = v]), v.state # "CreatePending",
           NEW f, entry' = [entry EXCEPT ![t] = f], ScanOK(f, v, Now.ends[t]),
           f.state # "CreatePending", mode = "drop" => ~f.updateNeeded,
           NEW fs, Files' = fs, fs \subseteq Files, Fits(t, v, fs)
    PROVE  SettleInv'
<1>1. mode \in Scanned /\ mode \in Recovering
  BY DEF Scanned, Recovering
<1>2. PICK g \in Image : g = Now
  BY RecoveryImage
<1>3. PICK img : img = [g EXCEPT !.tab[t] = v]
  OBVIOUS
<1>4. /\ img \in Image /\ img.ends = g.ends /\ img.ended = g.ended
      /\ img.live = g.live /\ img.committed = g.committed
      /\ img.tab[t] = v /\ \A u \in Tids \ {t} : img.tab[u] = g.tab[u]
  BY <1>2, <1>3, SetTab
<1>5. Written(img)
  BY <1>2, <1>3 DEF Written
<1>6. Images' \subseteq Images \cup {img} /\ Now' = img
  BY <1>4, <1>5, WrittenImages
<1>7. ImageSettled(img, Files', overtaken)
  BY <1>2, <1>4 DEF Fits
<1>8. ASSUME NEW y \in Xacts PROVE XidOK(y, xact[y], {img})
  <2>1. XidOK(y, xact[y], {g})
    BY <1>2, RecoveryImage
  <2>2. \A u \in Tids : img.tab[u].state = "CreatePending" => img.tab[u] = g.tab[u]
    BY <1>4
  <2> QED
    BY <1>4, <2>1, <2>2 DEF XidOK
<1>9. entry \in [Tids -> Entry]
  BY <1>1, RecoveryFacts
<1>10. entry'[t] = f /\ \A u \in Tids \ {t} : entry'[u] = entry[u]
  BY <1>9
<1>11. \A u \in Tids : /\ ScanOK(entry'[u], img.tab[u], img.ends[u])
                       /\ entry'[u].state # "CreatePending"
                       /\ mode = "drop" => ~entry'[u].updateNeeded
  <2> TAKE u \in Tids
  <2>1. CASE u = t
    BY <1>2, <1>4, <1>10, <2>1
  <2>2. CASE u # t
    <3>1. /\ ScanOK(entry[u], g.tab[u], g.ends[u]) /\ entry[u].state # "CreatePending"
          /\ mode = "drop" => ~entry[u].updateNeeded
      BY <1>1, <1>2 DEF SettleInv, ScannedInv
    <3> QED
      BY <1>4, <1>10, <2>2, <3>1
  <2> QED
    BY <2>1, <2>2
<1>12. ScannedInv' /\ ModeOK'
  BY <1>6, <1>11 DEF ScannedInv, ModeOK
<1>13. mode' # "up"
  OBVIOUS
<1> QED
  BY <1>1, <1>4, <1>6, <1>7, <1>8, <1>12, <1>13, RecoverySettles

LEMMA UpdateSettles ==
    ASSUME FileInv, SettleInv, NEW t \in Tids, PersistentRecovery_Update(t) PROVE SettleInv'
<1>1. /\ mode = "update" /\ entry[t].updateNeeded
      /\ StateChange(t, entry[t].serial, entry[t].state)
      /\ entry' = [entry EXCEPT ![t].updateNeeded = FALSE]
      /\ UNCHANGED <<xact, overtaken>>
  BY DEF PersistentRecovery_Update
<1>2. mode \in Scanned
  BY <1>1 DEF Scanned
<1>3. PICK e \in Entry : e = entry[t]
  BY <1>2, RecoveryFacts
<1>4. PICK g, fs, ov : g \in Image /\ g = Now /\ fs = Files /\ ov = overtaken
  BY RecoveryImage
<1>5. /\ ScanOK(e, g.tab[t], g.ends[t]) /\ ImageSettled(g, fs, ov)
      /\ e.state \notin {"None", "CreatePending"} /\ e.updateNeeded
  BY <1>1, <1>2, <1>3, <1>4, RecoveryFacts, RecoveryImage DEF SettleInv, ScannedInv
<1>6. /\ g.tab[t].state # "Free" /\ e.state # "Free" /\ e.serial = g.tab[t].serial
      /\ g.ends[t].serial = e.serial /\ g.ends[t].state = e.state
      /\ g.tab[t].state \in Expected[e.state]
  BY <1>5 DEF ScanOK
<1>7. Verified(t, entry[t].serial, entry[t].state)
  BY <1>3, <1>4, <1>6 DEF Verified
<1>8. PICK v : v = [state |-> e.state, serial |-> e.serial, xid |-> NoXid]
  OBVIOUS
<1>9. v \in Tuple /\ v.state = e.state /\ v.serial = e.serial
  <2>1. e.state \in DOMAIN Rank /\ e.serial \in 0 .. MaxSerial
    BY <1>5 DEF Entry
  <2> QED
    BY <1>8, <2>1 DEF Tuple
<1>10. Appended([Now EXCEPT !.tab[t] = v]) /\ UNCHANGED <<Files, mode>>
  BY <1>1, <1>3, <1>6, <1>7, <1>8 DEF StateChange, Changed, Files
<1>11. PICK f : f = [e EXCEPT !.updateNeeded = FALSE]
  OBVIOUS
<1>12. /\ f.state = e.state /\ f.serial = e.serial /\ f.updateNeeded = FALSE
  BY <1>11 DEF Entry
<1>13. entry' = [entry EXCEPT ![t] = f]
  BY <1>1, <1>3, <1>11
<1>14. ScanOK(f, v, Now.ends[t])
  BY <1>4, <1>5, <1>6, <1>9, <1>12 DEF ScanOK
<1>15. ASSUME NEW img \in Image, img.ends = g.ends, img.ended = g.ended, img.live = g.live,
              img.committed = g.committed, img.tab[t] = v,
              \A u \in Tids \ {t} : img.tab[u] = g.tab[u]
       PROVE  ImageSettled(img, fs, ov)
  <2>1. TupleSettled(img, t, ov)
    <3>1. TupleSettled(g, t, ov)
      BY <1>5 DEF ImageSettled
    <3> QED
      BY <1>5, <1>6, <1>9, <1>15, <3>1 DEF TupleSettled
  <2>2. ASSUME NEW u \in Tids \ {t} PROVE TupleSettled(img, u, ov)
    <3>1. TupleSettled(g, u, ov) /\ img.tab[u] = g.tab[u]
      BY <1>5, <1>15 DEF ImageSettled
    <3> QED
      BY <1>15, <3>1 DEF TupleSettled
  <2>3. \A u \in Tids : img.tab[u].serial = g.tab[u].serial
    BY <1>6, <1>9, <1>15
  <2> QED
    BY <1>5, <2>1, <2>2, <2>3 DEF ImageSettled, Serials
<1>16. PICK fs2 : fs2 = Files' /\ fs2 \subseteq Files /\ Fits(t, v, fs2)
  BY <1>4, <1>10, <1>15 DEF Fits
<1>17. /\ mode \in {"update", "drop"} /\ v.state # "CreatePending" /\ f.state # "CreatePending"
       /\ mode = "drop" => ~f.updateNeeded
       /\ UNCHANGED <<xact, overtaken, mode>>
  BY <1>1, <1>5, <1>9, <1>10, <1>12
<1> QED
  BY <1>9, <1>10, <1>13, <1>14, <1>16, <1>17, TupleRecovery

LEMMA DropFinds ==
    ASSUME FileInv, SettleInv, NEW t \in Tids, PersistentRecovery_Drop(t)
    PROVE  Verified(t, entry[t].serial, "Free")
<1>1. /\ mode = "drop" /\ entry[t].state \in Doomed /\ mode \in Scanned
  BY DEF PersistentRecovery_Drop, Doomed, Scanned
<1>2. PICK e, u, d : e = entry[t] /\ u = Now.tab[t] /\ d = Now.ends[t]
  OBVIOUS
<1>3. ScanOK(e, u, d) /\ ~e.updateNeeded /\ e.state \in Doomed
  BY <1>1, <1>2 DEF SettleInv, ScannedInv
<1>4. u.state = e.state /\ e.serial = u.serial
  BY <1>3 DEF ScanOK, Doomed
<1> QED
  BY <1>2, <1>3, <1>4 DEF Verified, Expected, Doomed

LEMMA DropSettles ==
    ASSUME FileInv, SettleInv, NEW t \in Tids, PersistentRecovery_Drop(t) PROVE SettleInv'
<1>1. /\ mode = "drop" /\ entry[t].state \in Doomed
      /\ DropObject(t, entry[t].serial)
      /\ entry' = [entry EXCEPT ![t].state = "Free"]
      /\ UNCHANGED <<xact, overtaken>>
  BY DEF PersistentRecovery_Drop, Doomed
<1>2. mode \in Scanned
  BY <1>1 DEF Scanned
<1>3. PICK e \in Entry : e = entry[t]
  BY <1>2, RecoveryFacts
<1>4. PICK g, fs, ov : g \in Image /\ g = Now /\ fs = Files /\ ov = overtaken
  BY RecoveryImage
<1>5. ScanOK(e, g.tab[t], g.ends[t]) /\ ImageSettled(g, fs, ov) /\ ~e.updateNeeded /\ e.state \in Doomed
  BY <1>1, <1>2, <1>3, <1>4, RecoveryImage DEF SettleInv, ScannedInv
<1>6. /\ g.tab[t].state = e.state /\ e.state # "Free" /\ e.serial = g.tab[t].serial
  BY <1>5 DEF ScanOK, Doomed
<1>7. /\ Appended(Changed(t, entry[t].serial, "Free")) /\ Files' = Files \ {entry[t].serial}
      /\ UNCHANGED mode
  BY <1>1, DropFinds, DropsFile
<1>8. PICK v : v = FreeTuple
  OBVIOUS
<1>9. v \in Tuple /\ v.serial = 0 /\ v.state = "Free"
  BY <1>8, Ranks, Numbers DEF FreeTuple, Tuple, States
<1>10. Appended([Now EXCEPT !.tab[t] = v]) /\ Files' = fs \ {e.serial} /\ UNCHANGED mode
  BY <1>3, <1>4, <1>7, <1>8 DEF Changed
<1>11. PICK f : f = [e EXCEPT !.state = "Free"]
  OBVIOUS
<1>12. f.state = "Free" /\ f.updateNeeded = e.updateNeeded
  <2>1. "Free" \in {"None"} \cup DOMAIN Rank
    BY Ranks DEF States
  <2> QED
    BY <1>11, <2>1, SetState
<1>13. entry' = [entry EXCEPT ![t] = f]
  BY <1>1, <1>3, <1>11
<1>14. ScanOK(f, v, Now.ends[t])
  BY <1>5, <1>9, <1>12 DEF ScanOK
<1>15. ASSUME NEW img \in Image, img.ends = g.ends, img.ended = g.ended, img.live = g.live,
              img.committed = g.committed, img.tab[t] = v,
              \A u \in Tids \ {t} : img.tab[u] = g.tab[u]
       PROVE  ImageSettled(img, fs \ {e.serial}, ov)
  <2>1. TupleSettled(img, t, ov)
    <3>1. TupleSettled(g, t, ov)
      BY <1>5 DEF ImageSettled
    <3>2. img.ends[t].serial = 0 => img.ends[t].state = "None"
      BY NoEnd
    <3> QED
      BY <1>9, <1>15, <3>1, <3>2 DEF TupleSettled
  <2>2. ASSUME NEW u \in Tids \ {t} PROVE TupleSettled(img, u, ov)
    <3>1. TupleSettled(g, u, ov) /\ img.tab[u] = g.tab[u]
      BY <1>5, <1>15 DEF ImageSettled
    <3> QED
      BY <1>15, <3>1 DEF TupleSettled
  <2>3. fs \ {e.serial} \subseteq Serials(img) \ {0}
    BY <1>5, <1>6, <1>15 DEF ImageSettled, Serials
  <2>4. ASSUME NEW w \in Tids, NEW u \in Tids, img.tab[w].serial = img.tab[u].serial,
               img.tab[w].serial # 0
        PROVE  w = u
    <3>1. w # t /\ u # t
      BY <1>9, <1>15, <2>4
    <3>2. g.tab[w].serial = g.tab[u].serial /\ g.tab[w].serial # 0
      BY <1>15, <2>4, <3>1
    <3> QED
      BY <1>5, <3>2 DEF ImageSettled
  <2> QED
    BY <2>1, <2>2, <2>3, <2>4 DEF ImageSettled
<1>16. PICK fs2 : fs2 = Files' /\ fs2 \subseteq Files /\ Fits(t, v, fs2)
  BY <1>4, <1>10, <1>15 DEF Fits
<1>17. /\ mode \in {"update", "drop"} /\ v.state # "CreatePending" /\ f.state # "CreatePending"
       /\ mode = "drop" => ~f.updateNeeded
       /\ UNCHANGED <<xact, overtaken, mode>>
  BY <1>1, <1>4, <1>5, <1>9, <1>10, <1>12
<1> QED
  BY <1>9, <1>10, <1>13, <1>14, <1>16, <1>17, TupleRecovery

LEMMA NextRecoveryStepSettles == ASSUME FileInv, SettleInv, NextRecoveryStep PROVE SettleInv'
<1>1. /\ UNCHANGED <<log, Files, xact, entry, overtaken>>
      /\ \/ /\ mode = "abort" /\ mode' = "update"
            /\ \A x \in Xacts \ Now.ended : Unfinished(x) = {}
         \/ /\ mode = "update" /\ mode' = "drop"
            /\ \A t \in Tids : ~entry[t].updateNeeded
  BY DEF NextRecoveryStep, Files
<1>2. mode \in Scanned /\ mode \in Recovering /\ mode' \in Scanned /\ mode' # "up"
  BY <1>1 DEF Scanned, Recovering
<1>3. PICK g \in Image : g = Now
  BY RecoveryImage
<1>4. /\ ImageSettled(g, Files, overtaken) /\ \A x \in Xacts : XidOK(x, xact[x], {g})
      /\ \A t \in Tids : ScanOK(entry[t], g.tab[t], g.ends[t])
  BY <1>2, <1>3, RecoveryImage DEF SettleInv, ScannedInv
<1>5. Images' = Images /\ Now' = g
  BY <1>1, <1>3, SameImages
<1>6. ASSUME NEW t \in Tids PROVE entry[t].state # "CreatePending"
  <2>1. CASE mode = "update"
    BY <2>1 DEF SettleInv, ScannedInv
  <2>2. CASE mode = "abort"
    <3>1. SUFFICES ASSUME entry[t].state = "CreatePending" PROVE FALSE
      OBVIOUS
    <3>2. PICK x \in Xacts : x = entry[t].xid /\ x \notin Now.ended
      BY <1>2, <3>1, PendingEntry
    <3>3. t \in Unfinished(x) /\ Unfinished(x) = {}
      BY <1>1, <2>2, <3>1, <3>2 DEF Unfinished
    <3> QED
      BY <3>3
  <2> QED
    BY <1>1, <2>1, <2>2
<1>7. ScannedInv' /\ ModeOK'
  BY <1>1, <1>4, <1>5, <1>6 DEF ScannedInv, ModeOK
<1>8. Files' \subseteq Files /\ ImageSettled(g, Files', overtaken) /\ Images' \subseteq Images \cup {g}
  BY <1>1, <1>4, <1>5
<1> QED
  BY <1>1, <1>2, <1>4, <1>7, <1>8, RecoverySettles

LEMMA EndOfRecoverySettles == ASSUME FileInv, SettleInv, EndOfRecovery PROVE SettleInv'
<1>1. PICK img \in Image : img = AtCheckpoint
  BY CheckpointImage
<1>2. PICK L2, g, fs, ov : L2 = Images' /\ g = Now /\ fs = Files /\ ov = overtaken
  OBVIOUS
<1>3. /\ mode = "drop" /\ mode' = "up" /\ UNCHANGED <<Files, xact, nextSerial, overtaken>> /\ Flushed(img)
      /\ \A t \in Tids : entry[t].state \notin Doomed
  BY <1>1 DEF EndOfRecovery, AtCheckpoint, Doomed, Files
<1>4. /\ img.tab = g.tab /\ img.ended = {} /\ img.live = g.live /\ img.committed = g.committed
      /\ \A t \in Tids : img.ends[t].serial = 0 /\ img.ends[t].state = "None"
      /\ Written(img)
  BY <1>1, <1>2, <1>3, CheckpointImage
<1>5. Now' = img /\ L2 = {img}
  BY <1>2, <1>3, <1>4, WrittenImages
<1>6. mode \in Scanned /\ mode \in Recovering
  BY <1>3 DEF Scanned, Recovering
<1>7. /\ ImageSettled(g, fs, ov) /\ g \in Image /\ g.live \subseteq fs
      /\ \A t \in Tids : ScanOK(entry[t], g.tab[t], g.ends[t])
      /\ \A t \in Tids : ~entry[t].updateNeeded /\ entry[t].state # "CreatePending"
  BY <1>2, <1>3, <1>6, RecoveryImage, RecoveryFacts DEF SettleInv, ScannedInv
<1>8. ASSUME NEW t \in Tids
      PROVE  /\ TupleSettled(g, t, ov) /\ g.tab[t].state \in {"Free", "Created"} /\ g.tab[t].serial \in Nat
             /\ g.tab[t].state = "Created" /\ g.tab[t].serial \notin g.live => g.tab[t].serial \in ov
  <2>1. ScanOK(entry[t], g.tab[t], g.ends[t]) /\ TupleSettled(g, t, ov)
    BY <1>7 DEF ImageSettled
  <2>2. g.tab[t].state \in States
    BY <1>7, Ranks DEF Image
  <2>3. g.tab[t].state \notin Doomed \cup {"CreatePending"}
    BY <1>3, <1>7, <2>1 DEF ScanOK
  <2>4. g.tab[t].state = "Created" /\ g.ends[t].serial = g.tab[t].serial => g.ends[t].state = "Created"
    BY <1>7, <2>1 DEF ScanOK
  <2>5. g.tab[t].serial \in Nat
    BY <1>7, ImageNumbers
  <2> QED
    BY <2>1, <2>2, <2>3, <2>4, <2>5 DEF TupleSettled, States, Doomed
<1>9. ASSUME NEW t \in Tids PROVE TupleSettled(img, t, ov)
  <2>1. g.tab[t].state # "Free" => 0 < g.tab[t].serial
    BY <1>8 DEF TupleSettled
  <2> QED
    BY <1>4, <1>8, <2>1 DEF TupleSettled
<1>10. ImageSettled(img, fs, ov)
  BY <1>4, <1>7, <1>9 DEF ImageSettled, Serials
<1>11. ASSUME NEW x \in Xacts PROVE XactSettled(x, xact'[x], L2, img, fs)
  <2>1. PICK r \in Blank : r = xact[x]
    BY <1>6 DEF FileInv, RecoveryInv, Blank
  <2>2. XidOK(x, r, {g})
    BY <1>2, <2>1, RecoveryImage
  <2>3. XidOK(x, r, L2)
    BY <1>4, <1>5, <2>2 DEF XidOK
  <2> QED
    BY <1>3, <2>1, <2>3, BlankSettled
<1>12. ASSUME NEW s \in 1 .. (nextSerial - 1) PROVE Unheld(s, L2, img, fs, ov)
  <2>1. s # 0
    OBVIOUS
  <2>2. ASSUME s \in fs PROVE \E t \in Tids : g.tab[t].serial = s /\ g.tab[t].state = "Created"
    <3>1. PICK t \in Tids : g.tab[t].serial = s
      BY <1>7, <2>2 DEF ImageSettled, Serials
    <3> QED
      BY <1>8, <2>1, <3>1 DEF TupleSettled
  <2>3. ASSUME s \in img.live PROVE \E t \in Tids : Shows(L2, t, "Created", s)
    BY <1>4, <1>5, <1>7, <2>2, <2>3 DEF Shows
  <2>4. ASSUME NEW t \in Tids, g.tab[t].serial = s, s \notin g.live
        PROVE  s \in ov /\ g.tab[t].state # "CreatePending"
    BY <1>8, <2>1, <2>4 DEF TupleSettled
  <2> QED
    BY <1>4, <2>2, <2>3, <2>4 DEF Unheld
<1>13. ScannedInv' /\ ModeOK'
  BY <1>3 DEF ScannedInv, ModeOK, Scanned
<1> QED
  BY <1>2, <1>3, <1>5, <1>10, <1>11, <1>12, <1>13 DEF SettleInv


-----------------------------------------------------------------------------
LEMMA SettleInvInit == Init => SettleInv
<1> SUFFICES ASSUME Init PROVE SettleInv
  OBVIOUS
<1> DEFINE img == [tab |-> [t \in Tids |-> FreeTuple], ends |-> [t \in Tids |-> NoEntry],
                   ended |-> {}, live |-> {}, committed |-> {}]
<1>1. /\ log = <<img>> /\ xact = [x \in Xacts |-> NewXact] /\ mode = "up" /\ Files = {}
      /\ nextSerial = 1
  BY DEF Init, Files
<1>2. FreeTuple.serial = 0 /\ FreeTuple.state = "Free" /\ NoEntry.serial = 0 /\ NoEntry.state = "None"
  BY DEF FreeTuple, NoEntry
<1>3. /\ img.committed = {} /\ img.ended = {}
      /\ \A t \in Tids : img.tab[t] = FreeTuple /\ img.ends[t] = NoEntry
  OBVIOUS
<1> HIDE DEF img
<1>4. Images = {img}
  <2>1. DOMAIN log = {1} /\ log[1] = img
    BY <1>1
  <2> QED
    BY <2>1 DEF Images
<1>5. ImageSettled(img, Files, overtaken)
  <2>1. \A t \in Tids : TupleSettled(img, t, overtaken)
    BY <1>2, <1>3 DEF TupleSettled
  <2> QED
    BY <1>1, <1>2, <1>3, <2>1 DEF ImageSettled
<1>6. ASSUME NEW x \in Xacts PROVE XactSettled(x, xact[x], Images, Now, Files)
  <2>1. NewXact \in Blank /\ xact[x] = NewXact
    BY <1>1 DEF Blank
  <2>2. XidOK(x, NewXact, Images)
    BY <1>2, <1>3, <1>4 DEF XidOK
  <2> QED
    BY <2>1, <2>2, BlankSettled
<1>7. 1 .. (nextSerial - 1) = {}
  BY <1>1
<1>8. ScannedInv /\ ModeOK
  BY <1>1 DEF ScannedInv, ModeOK, Scanned
<1> QED
  BY <1>4, <1>5, <1>6, <1>7, <1>8 DEF SettleInv

LEMMA SettleInvStutters == SettleInv /\ UNCHANGED vars => SettleInv'
<1> SUFFICES ASSUME SettleInv, UNCHANGED vars PROVE SettleInv'
  OBVIOUS
<1>1. UNCHANGED <<log, Files, xact, mode, entry, nextSerial, overtaken>>
  BY DEF vars, Files
<1>2. Now' = Now /\ Images' = Images
  BY <1>1, SameImages
<1>3. InUse' = InUse
  BY <1>1 DEF InUse, Held
<1>4. ScannedInv' /\ ModeOK'
  BY <1>1, <1>2 DEF SettleInv, ScannedInv, ModeOK
<1> QED
  BY <1>1, <1>2, <1>3, <1>4 DEF SettleInv

LEMMA SettleInvStep == FileInv /\ SettleInv /\ [Next]_vars => SettleInv'
<1> SUFFICES ASSUME FileInv, SettleInv, [Next]_vars PROVE SettleInv'
  OBVIOUS
<1>1. CASE \E x \in Xacts, t \in Tids : AddCreatePending(x, t) \/ ScheduleUnlink(x, t)
  BY <1>1, AddCreatePendingSettles, ScheduleUnlinkSettles
<1>2. CASE \E x \in Xacts : CreateFile(x) \/ StartSubTransaction(x) \/ AtSubCommit_smgr(x)
  BY <1>2, CreateFileSettles, StartSubTransactionSettles, AtSubCommitSettles
<1>3. CASE \E x \in Xacts : RecordTransactionCommit(x)
  BY <1>3, RecordTransactionCommitSettles
<1>4. CASE \E x \in Xacts : RecordTransactionAbort(x) \/ RecordSubTransactionAbort(x)
  <2>1. PICK x \in Xacts : RecordTransactionAbort(x) \/ RecordSubTransactionAbort(x)
    BY <1>4
  <2>2. CASE RecordTransactionAbort(x)
    <3>1. PICK phase \in {"abort", "subabort"}, ended \in SUBSET {x} : phase = "abort" /\ ended = {x}
      OBVIOUS
    <3>2. RecordAbort(x, phase, ended) /\ xact[x].level = 1 /\ phase # "subabort"
      BY <2>2, <3>1 DEF RecordTransactionAbort
    <3> QED
      BY <3>2, RecordAbortSettles
  <2>3. CASE RecordSubTransactionAbort(x)
    <3>1. PICK phase \in {"abort", "subabort"}, ended \in SUBSET {x} : phase = "subabort" /\ ended = {}
      OBVIOUS
    <3>2. RecordAbort(x, phase, ended) /\ xact[x].level = 2 /\ phase # "abort"
      BY <2>3, <3>1 DEF RecordSubTransactionAbort
    <3> QED
      BY <3>1, <3>2, RecordAbortSettles
  <2> QED
    BY <2>1, <2>2, <2>3
<1>5. CASE \E x \in Xacts : \E e \in xact[x].todo : FirstPass(x, e) \/ SecondPass(x, e)
  BY <1>5, FirstPassSettles, SecondPassSettles
<1>6. CASE \E x \in Xacts : EndFirstPass(x) \/ EndSecondPass(x)
  BY <1>6, EndFirstPassSettles, EndSecondPassSettles
<1>7. CASE \E x \in Xacts : PersistentRecovery_CrashAbort(x)
  BY <1>7, CrashAbortSettles
<1>8. CASE \E t \in Tids : PersistentRecovery_Update(t) \/ PersistentRecovery_Drop(t)
  BY <1>8, UpdateSettles, DropSettles
<1>9. CASE Checkpoint \/ Crash
  BY <1>9, CheckpointSettles, CrashSettles
<1>10. CASE PersistentRecovery_Scan \/ NextRecoveryStep \/ EndOfRecovery
  BY <1>10, ScanSettles, NextRecoveryStepSettles, EndOfRecoverySettles
<1>11. CASE UNCHANGED vars
  BY <1>11, SettleInvStutters
<1> QED
  BY <1>1, <1>2, <1>3, <1>4, <1>5, <1>6, <1>7, <1>8, <1>9, <1>10, <1>11 DEF Next

LEMMA FileInvStep == FileInv /\ SettleInv /\ [Next]_vars => FileInv'
<1> SUFFICES ASSUME FileInv, SettleInv, [Next]_vars PROVE FileInv'
  OBVIOUS
<1>1. CASE \E x \in Xacts, t \in Tids : AddCreatePending(x, t) \/ ScheduleUnlink(x, t)
  BY <1>1, AddCreatePendingKeeps, ScheduleUnlinkKeeps
<1>2. CASE \E x \in Xacts : CreateFile(x) \/ StartSubTransaction(x) \/ AtSubCommit_smgr(x)
  BY <1>2, CreateFileKeeps, StartSubTransactionKeeps, AtSubCommitKeeps
<1>3. CASE \E x \in Xacts : RecordTransactionCommit(x)
  BY <1>3, RecordTransactionCommitKeeps
<1>4. CASE \E x \in Xacts : RecordTransactionAbort(x) \/ RecordSubTransactionAbort(x)
  <2>1. PICK x \in Xacts : RecordTransactionAbort(x) \/ RecordSubTransactionAbort(x)
    BY <1>4
  <2>2. CASE RecordTransactionAbort(x)
    <3>1. PICK phase \in {"abort", "subabort"}, ended \in SUBSET Xacts : phase = "abort" /\ ended = {x}
      OBVIOUS
    <3>2. RecordAbort(x, phase, ended) /\ xact[x].level = 1 /\ phase # "subabort"
      BY <2>2, <3>1 DEF RecordTransactionAbort
    <3> QED
      BY <3>2, RecordAbortKeeps
  <2>3. CASE RecordSubTransactionAbort(x)
    <3>1. PICK phase \in {"abort", "subabort"}, ended \in SUBSET Xacts : phase = "subabort" /\ ended = {}
      OBVIOUS
    <3>2. RecordAbort(x, phase, ended) /\ xact[x].level = 2 /\ phase # "abort"
      BY <2>3, <3>1 DEF RecordSubTransactionAbort
    <3> QED
      BY <3>2, RecordAbortKeeps
  <2> QED
    BY <2>1, <2>2, <2>3
<1>5. CASE \E x \in Xacts : \E e \in xact[x].todo : FirstPass(x, e) \/ SecondPass(x, e)
  BY <1>5, FirstPassKeeps, SecondPassKeeps, SecondPassFinds
<1>6. CASE \E x \in Xacts : EndFirstPass(x) \/ EndSecondPass(x)
  BY <1>6, EndFirstPassKeeps, EndSecondPassKeeps
<1>7. CASE \E x \in Xacts : PersistentRecovery_CrashAbort(x)
  BY <1>7, CrashAbortKeeps
<1>8. CASE \E t \in Tids : PersistentRecovery_Update(t) \/ PersistentRecovery_Drop(t)
  BY <1>8, UpdateKeeps, DropKeeps, DropFinds
<1>9. CASE Checkpoint \/ Crash
  BY <1>9, CheckpointKeeps, CrashKeeps
<1>10. CASE PersistentRecovery_Scan \/ NextRecoveryStep \/ EndOfRecovery
  BY <1>10, ScanKeeps, NextRecoveryStepKeeps, EndOfRecoveryKeeps
<1>11. CASE UNCHANGED vars
  BY <1>11, FileInvStutters
<1> QED
  BY <1>1, <1>2, <1>3, <1>4, <1>5, <1>6, <1>7, <1>8, <1>9, <1>10, <1>11 DEF Next

(* The file of a committed DROP is relied on until the second pass.        *)
LEMMA DropHasFile == FileInv /\ SettleInv => DropFindsFile
<1> SUFFICES ASSUME FileInv, SettleInv, NEW x \in Xacts, NEW e \in xact[x].todo,
                    Target(e, xact[x].phase = "commit") = "DropPending"
             PROVE  e.serial \in files
  BY DEF DropFindsFile
<1>1. PICK o, L, g, fs : o = xact[x] /\ L = Images /\ g = Now /\ fs = Files
  OBVIOUS
<1>2. e \in o.pendingDeletes /\ ~Untouched(o, e) /\ TargetOf(o, e) = "DropPending" /\ e \in o.todo
  BY <1>1, DoneFields DEF TargetOf
<1>3. EntrySettled(x, o, e, L, g, fs)
  BY <1>1, <1>2, SettleFacts
<1>4. e.serial \in fs
  BY <1>2, <1>3 DEF EntrySettled, TouchedOK
<1> QED
  BY <1>1, <1>4 DEF Files

(* A file left by a failed removal is there. *)
StrayInv == strays \subseteq files

LEMMA StrayInvStep == StrayInv /\ [Next]_vars => StrayInv'
<1> SUFFICES ASSUME StrayInv, [Next]_vars PROVE StrayInv'
  OBVIOUS
<1>1. CASE UNCHANGED <<files, strays>>
  BY <1>1 DEF StrayInv
<1>2. ASSUME NEW t, NEW s, DropObject(t, s) PROVE StrayInv'
  BY <1>1, <1>2 DEF StrayInv, DropObject, RemoveFile, Down
<1>3. ASSUME NEW t, NEW s, NEW next, StateChange(t, s, next) PROVE UNCHANGED <<files, strays>>
  BY <1>3 DEF StateChange, Down
<1>4. CASE \E x \in Xacts, t \in Tids : AddCreatePending(x, t) \/ ScheduleUnlink(x, t)
  BY <1>1, <1>4 DEF AddCreatePending, ScheduleUnlink
<1>5. CASE \E x \in Xacts : CreateFile(x)
  BY <1>5 DEF CreateFile, StrayInv
<1>6. CASE \E x \in Xacts : StartSubTransaction(x) \/ AtSubCommit_smgr(x)
  BY <1>1, <1>6 DEF StartSubTransaction, AtSubCommit_smgr
<1>7. CASE \E x \in Xacts : \/ RecordTransactionCommit(x) \/ RecordTransactionAbort(x)
                           \/ RecordSubTransactionAbort(x)
  BY <1>1, <1>7 DEF RecordTransactionCommit, RecordTransactionAbort, RecordSubTransactionAbort,
                    RecordAbort
<1>8. CASE \E x \in Xacts : \E e \in xact[x].todo : FirstPass(x, e)
  BY <1>1, <1>3, <1>8 DEF FirstPass
<1>9. CASE \E x \in Xacts : \E e \in xact[x].todo : SecondPass(x, e)
  BY <1>1, <1>2, <1>9 DEF SecondPass
<1>10. CASE \E x \in Xacts : EndFirstPass(x) \/ EndSecondPass(x)
  BY <1>1, <1>10 DEF EndFirstPass, EndSecondPass
<1>11. CASE \E x \in Xacts : PersistentRecovery_CrashAbort(x)
  BY <1>1, <1>11 DEF PersistentRecovery_CrashAbort, Down
<1>12. CASE \E t \in Tids : PersistentRecovery_Update(t)
  BY <1>1, <1>3, <1>12 DEF PersistentRecovery_Update
<1>13. CASE \E t \in Tids : PersistentRecovery_Drop(t)
  BY <1>2, <1>13 DEF PersistentRecovery_Drop
<1>14. CASE \/ Checkpoint \/ Crash \/ PersistentRecovery_Scan \/ NextRecoveryStep
           \/ EndOfRecovery \/ UNCHANGED vars
  BY <1>1, <1>14 DEF Checkpoint, Crash, PersistentRecovery_Scan, NextRecoveryStep, EndOfRecovery, vars
<1> QED
  BY <1>4, <1>5, <1>6, <1>7, <1>8, <1>9, <1>10, <1>11, <1>12, <1>13, <1>14 DEF Next

(* What nobody holds and no checkpoint overtook is in step: the tuple that *)
(* Unheld shows is the only one with the serial number.                    *)
LEMMA UnheldInStep == FileInv /\ SettleInv /\ StrayInv => NothingLeftOver
<1> SUFFICES ASSUME FileInv, SettleInv, StrayInv, mode = "up", NEW s \in 1 .. (nextSerial - 1),
                    s \notin InUse, s \notin overtaken
             PROVE  InStep(s)
  BY DEF NothingLeftOver
<1>1. Unheld(s, Images, Now, Files, overtaken)
  BY DEF SettleInv
<1>2. Now \in Images /\ s # 0
  BY ImagesAre
<1>3. s \in Now.live => s \in Files
  <2>1. Len(log) \in DOMAIN log /\ Now = log[Len(log)]
    BY NowIs DEF FileInv
  <2> QED
    BY <2>1 DEF FileInv, LiveKept
<1>4. s \in Files => s \in Now.live
  BY <1>1 DEF Unheld
<1>5. s \in Now.live => \E u \in Tids : Now.tab[u].serial = s /\ Now.tab[u].state = "Created"
  BY <1>1, <1>2 DEF Unheld, Shows
<1>6. ASSUME NEW t \in Tids, Now.tab[t].serial = s
      PROVE  s \in Now.live /\ Now.tab[t].state = "Created"
  <2>1. s \in Now.live
    BY <1>1, <1>6 DEF Unheld
  <2>2. PICK u \in Tids : Now.tab[u].serial = s /\ Now.tab[u].state = "Created"
    BY <1>5, <2>1
  <2>3. t = u
    BY <1>2, <1>6, <2>2, OneTuple
  <2> QED
    BY <2>1, <2>2, <2>3
<1> QED
  BY <1>3, <1>4, <1>5, <1>6 DEF InStep, Files, StrayInv

(***************************************************************************)
(* Whatever a crash leaves of the log, at any time and as often as it      *)
(* happens, in the middle of commits, aborts of subtransactions,           *)
(* checkpoints and recoveries, the file of every live object is there:     *)
(* smgrDoDeleteActions and PersistentRecovery_Drop remove no other.        *)
(***************************************************************************)
THEOREM LiveFilesAreKept == Spec => []LiveKeepsFile
<1>1. Init => FileInv /\ SettleInv
  BY FileInvInit, SettleInvInit
<1>2. FileInv /\ SettleInv /\ [Next]_vars => FileInv' /\ SettleInv'
  BY FileInvStep, SettleInvStep
<1>3. FileInv => LiveKeepsFile
  BY DEF FileInv, LiveKept, LiveKeepsFile, Files
<1> QED
  BY <1>1, <1>2, <1>3, PTL DEF Spec

(***************************************************************************)
(* No step of smgrDoDeleteActions or of a recovery finds a tuple in a      *)
(* state or with a serial number that DropObject and VerifyExpected do not *)
(* allow, or the file of a committed DROP missing, however often           *)
(* recoveries are cut off by crashes and begin again, and                  *)
(* RecordCrashTransactionAbortRecord does not meet a committed transaction *)
(* unless a checkpoint overtook its commit.                                *)
(***************************************************************************)
THEOREM EveryStepFindsTheExpected == Spec => []AlwaysAsExpected
<1>1. Init => FileInv /\ SettleInv
  BY FileInvInit, SettleInvInit
<1>2. FileInv /\ SettleInv /\ [Next]_vars => FileInv' /\ SettleInv'
  BY FileInvStep, SettleInvStep
<1>3. FileInv /\ SettleInv => AlwaysAsExpected
  BY DropHasFile DEF SettleInv, ModeOK, AlwaysAsExpected
<1> QED
  BY <1>1, <1>2, <1>3, PTL DEF Spec

(***************************************************************************)
(* While the system is up, after any number of crashes and of recoveries   *)
(* that were cut off, an object that no transaction holds and that no      *)
(* checkpoint overtook has its file, its tuple in state Created and its    *)
(* catalog entry, or none of the three, or, if DropObject could not remove *)
(* it, its file alone: smgrDoDeleteActions and the PersistentRecovery_     *)
(* steps between them leave nothing else behind.                           *)
(***************************************************************************)
THEOREM NothingIsLeftOver == Spec => []NothingLeftOver
<1>1. Init => FileInv /\ SettleInv /\ StrayInv
  BY FileInvInit, SettleInvInit DEF Init, StrayInv
<1>2. FileInv /\ SettleInv /\ StrayInv /\ [Next]_vars => FileInv' /\ SettleInv' /\ StrayInv'
  BY FileInvStep, SettleInvStep, StrayInvStep
<1>3. FileInv /\ SettleInv /\ StrayInv => NothingLeftOver
  BY UnheldInStep
<1> QED
  BY <1>1, <1>2, <1>3, PTL DEF Spec
=============================================================================
