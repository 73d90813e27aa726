---------------------------- MODULE PersistentObj ----------------------------
(***************************************************************************)
(* The files of relations and the persistent table that tells after a      *)
(* crash which of them must exist: the pending work of a transaction       *)
(* (storage/smgr/smgr.c), its end records (access/transam/xact.c), the     *)
(* changes of the tuples (cdb/cdbpersistentfilesysobj.c) and the recovery  *)
(* (cdb/cdbpersistentrecovery.c, passes 1 and 2 of access/transam/xlog.c). *)
(*                                                                         *)
(* The write-ahead log is kept as the sequence of the images that a redo   *)
(* of its prefixes would build: log[1] is what is flushed, the last image  *)
(* is what the running system sees, appending a record appends an image if *)
(* that is a new one, flushing keeps the last one, and a crash keeps any   *)
(* one of them.  An object is known by its serial number, which stands for *)
(* its name too.                                                           *)
(***************************************************************************)
EXTENDS Integers, FiniteSets, SequencesExt

CONSTANTS
    Xacts,           \* transactions, each runs once
    Nested,          \* of those, the ones that may set a savepoint
    Tids,            \* places in the persistent table
    MaxSerial,       \* bound: objects ever created
    MaxCrash,        \* bound: crashes
    MaxCheckpoint    \* bound: checkpoints

ASSUME ConstAssumption ==
    /\ IsFiniteSet(Xacts) /\ IsFiniteSet(Tids) /\ Tids # {}
    /\ Nested \subseteq Xacts
    /\ MaxSerial \in Nat /\ MaxCrash \in Nat /\ MaxCheckpoint \in Nat

VARIABLES
    log,         \* images, see Image
    files,       \* the objects whose file exists
    strays,      \* of those, the ones whose removal failed, see DropObject
    xact,        \* transactions, see Xact
    mode,        \* "up", a step of the recovery, or why the system is down
    entry,       \* fsObjHashTable of the recovery
    nextSerial,
    crashes, checkpoints,
    overtaken    \* objects whose commit a checkpoint overtook, see Checkpoint

vars == <<log, files, strays, xact, mode, entry, nextSerial, crashes, checkpoints, overtaken>>

NoXid == "InvalidTransactionId"
NoEntry == [state |-> "None", serial |-> 0, xid |-> NoXid, updateNeeded |-> FALSE]

(* PersistentFileSysState; the order is the one AddScanEntry compares. *)
Rank == [Free |-> 0, CreatePending |-> 1, Created |-> 2, DropPending |-> 3, AbortingCreate |-> 4]

(* What a redo from the last checkpoint builds: the persistent table, the
   last end record that names each of its tuples and the transactions that
   have an end record (both since the checkpoint), and, from the catalog and
   the commit log, the live objects and the committed transactions. *)
Image == [tab : [Tids -> [state : DOMAIN Rank, serial : 0 .. MaxSerial, xid : Xacts \cup {NoXid}]],
          ends : [Tids -> {NoEntry} \cup [state : DOMAIN Rank, serial : 1 .. MaxSerial,
                                          xid : {NoXid}, updateNeeded : {FALSE}]],
          ended : SUBSET Xacts, live : SUBSET (1 .. MaxSerial), committed : SUBSET Xacts]

Row == [serial : 1 .. MaxSerial, deleted : BOOLEAN, nestLevel : 1 .. 2]

(* PendingDelete *)
Pending == [tid : Tids, serial : 1 .. MaxSerial, dropForCommit : BOOLEAN,
            sameTransCreateDrop : BOOLEAN, nestLevel : 1 .. 2]

(* A transaction: where it is, its nest level, the rows of objects it has
   added to and deleted from the catalog, pendingDeletes, and, while it ends,
   the pass of smgrDoDeleteActions and the entries that has still to do. *)
Xact == [phase : {"none", "run", "create", "commit", "abort", "subabort", "done"},
         level : 1 .. 2, catalog : SUBSET Row, pendingDeletes : SUBSET Pending,
         pass : 0 .. 2, todo : SUBSET Pending]

FreeTuple == [state |-> "Free", serial |-> 0, xid |-> NoXid]
NewXact == [phase |-> "none", level |-> 1, catalog |-> {}, pendingDeletes |-> {}, pass |-> 0, todo |-> {}]

Init ==
    /\ log = << [tab |-> [t \in Tids |-> FreeTuple], ends |-> [t \in Tids |-> NoEntry],
                 ended |-> {}, live |-> {}, committed |-> {}] >>
    /\ files = {} /\ strays = {}
    /\ xact = [x \in Xacts |-> NewXact]
    /\ mode = "up"
    /\ entry = [t \in Tids |-> NoEntry]
    /\ nextSerial = 1
    /\ crashes = 0 /\ checkpoints = 0
    /\ overtaken = {}

Now == Last(log)
Appended(image) == log' = IF image = Now THEN log ELSE Append(log, image)
Flushed(image) == log' = <<image>>

Running(x) == mode = "up" /\ xact[x].phase \in {"none", "run"}
RowOf(x, s, deleted) == [serial |-> s, deleted |-> deleted, nestLevel |-> xact[x].level]
Held(x) == {e.serial : e \in xact[x].pendingDeletes}

-----------------------------------------------------------------------------
(* The work of a running transaction *)

(* PersistentRelfile_AddCreatePending: a free tuple is taken (whichever the
   chain of free tuples offers), written with a new serial number and
   flushed, and the transaction remembers it. *)
AddCreatePending(x, t) ==
    /\ Running(x)
    /\ Now.tab[t].state = "Free"
    /\ nextSerial <= MaxSerial
    /\ Flushed([Now EXCEPT !.tab[t] = [state |-> "CreatePending", serial |-> nextSerial, xid |-> x]])
    /\ xact' = [xact EXCEPT ![x].phase = "create",
                            ![x].catalog = @ \cup {RowOf(x, nextSerial, FALSE)},
                            ![x].pendingDeletes = @ \cup
                              {[tid |-> t, serial |-> nextSerial, dropForCommit |-> FALSE,
                                sameTransCreateDrop |-> FALSE, nestLevel |-> xact[x].level]}]
    /\ nextSerial' = nextSerial + 1
    /\ UNCHANGED <<files, strays, mode, entry, crashes, checkpoints, overtaken>>

(* The file itself is created (and is none that was left by a failed removal);
   an error ends in an abort instead. *)
CreateFile(x) ==
    /\ mode = "up" /\ xact[x].phase = "create"
    /\ files' = files \cup {Max(Held(x))} /\ strays' = strays \ {Max(Held(x))}
    /\ xact' = [xact EXCEPT ![x].phase = "run"]
    /\ UNCHANGED <<log, mode, entry, nextSerial, crashes, checkpoints, overtaken>>

(* PendingDelete_AddDropEntry: an object can be dropped by the transaction
   that created it, or, once its lock is free, by another one. *)
ScheduleUnlink(x, t) ==
    /\ Running(x)
    /\ LET s == Now.tab[t].serial
       IN  /\ \/ s \in Now.live /\ \A y \in Xacts : s \notin Held(y)
              \/ \E e \in xact[x].pendingDeletes : e.serial = s
           /\ \A e \in xact[x].pendingDeletes : e.serial = s => ~e.dropForCommit
           /\ xact' = [xact EXCEPT ![x].phase = "run",
                                   ![x].catalog = @ \cup {RowOf(x, s, TRUE)},
                                   ![x].pendingDeletes = @ \cup
                                     {[tid |-> t, serial |-> s, dropForCommit |-> TRUE,
                                       sameTransCreateDrop |-> FALSE, nestLevel |-> xact[x].level]}]
    /\ UNCHANGED <<log, files, strays, mode, entry, nextSerial, crashes, checkpoints, overtaken>>

(* A savepoint opens a subtransaction, *)
StartSubTransaction(x) ==
    /\ Running(x) /\ x \in Nested /\ xact[x].level = 1
    /\ xact' = [xact EXCEPT ![x].phase = "run", ![x].level = 2]
    /\ UNCHANGED <<log, files, strays, mode, entry, nextSerial, crashes, checkpoints, overtaken>>

(* and AtSubCommit_smgr leaves its entries to the parent. *)
AtSubCommit_smgr(x) ==
    /\ Running(x) /\ xact[x].level = 2
    /\ xact' = [xact EXCEPT ![x].level = 1,
                            ![x].catalog = {[r EXCEPT !.nestLevel = 1] : r \in @},
                            ![x].pendingDeletes = {[e EXCEPT !.nestLevel = 1] : e \in @}]
    /\ UNCHANGED <<log, files, strays, mode, entry, nextSerial, crashes, checkpoints, overtaken>>

-----------------------------------------------------------------------------
(* The end of a (sub)transaction *)

(* smgrSortDeletesList collapses a CREATE and a DROP of one object into the
   CREATE, when both were made at nestLevel or below. *)
CollapsibleAnyLevel(e, f, nestLevel) ==
    f.serial = e.serial /\ f.dropForCommit # e.dropForCommit

Collapsible(e, f, nestLevel) ==
    /\ f.serial = e.serial /\ f.dropForCommit # e.dropForCommit
    /\ f.nestLevel >= nestLevel /\ e.nestLevel >= nestLevel

Collapsed(list, nestLevel) ==
    LET Partner(e) == {f \in list : Collapsible(e, f, nestLevel)}
    IN  {e \in list : Partner(e) = {}} \cup
        {[e EXCEPT !.dropForCommit = TRUE, !.sameTransCreateDrop = TRUE] :
            e \in {c \in list : ~c.dropForCommit /\ Partner(c) # {}}}

(* The state an entry takes its object to, "None" for a DROP that is not
   committed (PendingDelete_Action, EndXactRecKind_NeedsAction). *)
Target(e, forCommit) ==
    IF e.dropForCommit
    THEN IF e.sameTransCreateDrop THEN "AbortingCreate"
         ELSE IF forCommit THEN "DropPending" ELSE "None"
    ELSE IF forCommit THEN "Created" ELSE "AbortingCreate"

(* The entries a record carries, each with the state recovery takes it to
   (smgrGetPendingFileSysWork, PersistentRecovery_AddEndXactFsObj): *)
EndActionsDropsOnly(list, nestLevel, forCommit) ==
    {e \in list : e.nestLevel >= nestLevel /\ Target(e, forCommit) \notin {"None", "Created"}}

EndActions(list, nestLevel, forCommit) ==
    {e \in list : e.nestLevel >= nestLevel /\ Target(e, forCommit) # "None"}

(* in the redo, the later record overwrites what an earlier one said of a
   tuple.  Its transaction has an end record, so xid does not matter. *)
WithEnds(image, acts, forCommit) ==
    [image EXCEPT !.ends = [t \in Tids |->
        LET mine == {e \in acts : e.tid = t}
        IN  IF mine = {} THEN @[t]
            ELSE LET e == CHOOSE e \in mine : TRUE
                 IN  [NoEntry EXCEPT !.state = Target(e, forCommit), !.serial = e.serial]]]

(* A transaction leaves its work and begins to end. *)
Ending(x, phase, list) ==
    xact' = [xact EXCEPT ![x].phase = phase, ![x].pendingDeletes = list, ![x].pass = 1,
                         ![x].todo = {e \in list : e.nestLevel >= xact[x].level}]

(* RecordTransactionCommit writes and flushes the record under
   CheckpointStartLock; from then on the catalog has the new objects. *)
RecordTransactionCommit(x) ==
    /\ mode = "up" /\ xact[x].phase = "run" /\ xact[x].level = 1
    /\ LET list == Collapsed(xact[x].pendingDeletes, 1)
           Rows(deleted) == {r.serial : r \in {q \in xact[x].catalog : q.deleted = deleted}}
       IN  /\ Flushed([WithEnds(Now, EndActions(list, 1, TRUE), TRUE) EXCEPT
                          !.ended = @ \cup {x}, !.committed = @ \cup {x},
                          !.live = (@ \cup Rows(FALSE)) \ Rows(TRUE)])
           /\ Ending(x, "commit", list)
    /\ UNCHANGED <<files, strays, mode, entry, nextSerial, crashes, checkpoints, overtaken>>

(* RecordTransactionAbort and RecordSubTransactionAbort flush their record
   only if it has objects to get rid of.  The record of a subtransaction is
   not one of the transaction, whose xid the tuples have. *)
RecordAbort(x, phase, ended) ==
    /\ mode = "up" /\ xact[x].phase \in {"run", "create"}
    /\ LET level == xact[x].level
           list == Collapsed(xact[x].pendingDeletes, level)
           acts == EndActions(list, level, FALSE)
           image == [WithEnds(Now, acts, FALSE) EXCEPT !.ended = @ \cup ended]
       IN  /\ IF acts = {} THEN Appended(image) ELSE Flushed(image)
           /\ Ending(x, phase, list)
    /\ UNCHANGED <<files, strays, mode, entry, nextSerial, crashes, checkpoints, overtaken>>

RecordTransactionAbort(x) == xact[x].level = 1 /\ RecordAbort(x, "abort", {x})
RecordSubTransactionAbort(x) == xact[x].level = 2 /\ RecordAbort(x, "subabort", {})

-----------------------------------------------------------------------------
(* Changes of the tuples *)

(* PersistentFileSysObj_StateChange: the states it may find, *)
Expected == [Created |-> {"CreatePending"}, DropPending |-> {"Created"},
             AbortingCreate |-> {"CreatePending"}, Free |-> {"DropPending", "AbortingCreate"}]

(* PersistentFileSysObj_VerifyExpected without retryPossible, *)
Verified(t, serial, next) ==
    Now.tab[t].serial = serial /\ Now.tab[t].state \in Expected[next]

(* and the new tuple. *)
Changed(t, serial, next) ==
    [Now EXCEPT !.tab[t] = IF next = "Free" THEN FreeTuple
                           ELSE [state |-> next, serial |-> serial, xid |-> NoXid]]

(* An error in a critical section, or in the startup process, ends it all. *)
Down(reason) == mode' = reason /\ UNCHANGED <<log, files, strays>>

StateChange(t, serial, next) ==
    IF Verified(t, serial, next)
    THEN Appended(Changed(t, serial, next)) /\ UNCHANGED <<files, strays, mode>>
    ELSE Down("unexpected")

(* PersistentFileSysObj_DropObject removes the file and frees the tuple.  If
   the file cannot be removed (or is not there) MirroredFileSysObj_DropRelFile
   and smgr_internal_unlink only warn, and the tuple is freed all the same;
   what is found in it is checked by StateChange, after the removal.  A crash
   in between is one that loses the record of the free tuple. *)
RemoveFile(serial) ==
    \/ files' = files \ {serial} /\ strays' = strays \ {serial}
    \/ UNCHANGED files /\ strays' = strays \cup (files \cap {serial})

DropObject(t, serial) ==
    IF Now.tab[t].state = "Free" \/ Now.tab[t].serial # serial
    THEN Down("unexpected")
    ELSE /\ RemoveFile(serial)
         /\ IF Verified(t, serial, "Free")
            THEN Appended(Changed(t, serial, "Free")) /\ UNCHANGED mode
            ELSE mode' = "unexpected" /\ UNCHANGED log

(* smgrDoDeleteActions.  The first pass changes the states, *)
FirstPass(x, e) ==
    /\ mode = "up" /\ xact[x].pass = 1 /\ e \in xact[x].todo
    /\ LET next == Target(e, xact[x].phase = "commit")
       IN  IF next = "None" THEN UNCHANGED <<log, files, strays, mode>>
           ELSE StateChange(e.tid, e.serial, next)
    /\ xact' = [xact EXCEPT ![x].todo = @ \ {e}]
    /\ UNCHANGED <<entry, nextSerial, crashes, checkpoints, overtaken>>

(* the second drops what has to go. *)
SecondPass(x, e) ==
    /\ mode = "up" /\ xact[x].pass = 2 /\ e \in xact[x].todo
    /\ LET next == Target(e, xact[x].phase = "commit")
       IN  IF next \in {"DropPending", "AbortingCreate"}
           THEN DropObject(e.tid, e.serial)
           ELSE UNCHANGED <<log, files, strays, mode>>
    /\ xact' = [xact EXCEPT ![x].todo = @ \ {e}]
    /\ UNCHANGED <<entry, nextSerial, crashes, checkpoints, overtaken>>

(* Each pass ends in a flush of what it wrote (PersistentStore_FlushXLog). *)
Done(x) == {e \in xact[x].pendingDeletes : e.nestLevel >= xact[x].level}

FlushOwn(x) ==
    IF EndActions(xact[x].pendingDeletes, xact[x].level, xact[x].phase = "commit") = {}
    THEN UNCHANGED log ELSE Flushed(Now)

EndFirstPass(x) ==
    /\ mode = "up" /\ xact[x].pass = 1 /\ xact[x].todo = {}
    /\ FlushOwn(x)
    /\ xact' = [xact EXCEPT ![x].pass = 2, ![x].todo = Done(x)]
    /\ UNCHANGED <<files, strays, mode, entry, nextSerial, crashes, checkpoints, overtaken>>

(* Then the transaction releases its locks, or goes on in its parent. *)
EndSecondPass(x) ==
    /\ mode = "up" /\ xact[x].pass = 2 /\ xact[x].todo = {}
    /\ FlushOwn(x)
    /\ xact' = [xact EXCEPT ![x] = [NewXact EXCEPT
                   !.phase = IF xact[x].phase = "subabort" THEN "run" ELSE "done",
                   !.catalog = {r \in xact[x].catalog : r.nestLevel < xact[x].level},
                   !.pendingDeletes = xact[x].pendingDeletes \ Done(x)]]
    /\ overtaken' = overtaken \ Held(x)
    /\ UNCHANGED <<files, strays, mode, entry, nextSerial, crashes, checkpoints>>

-----------------------------------------------------------------------------
(* Checkpoints, crashes and recovery *)

(* CreateCheckPoint, from the point where a redo will begin: nothing of the
   end records before it is read again.  The lock that used to keep it out
   of the time between a commit record and the end of smgrDoDeleteActions
   is not taken any more; what it overtakes there is remembered. *)
Checkpoint ==
    /\ mode = "up" /\ checkpoints < MaxCheckpoint
    /\ Flushed([Now EXCEPT !.ends = [t \in Tids |-> NoEntry], !.ended = {}])
    /\ overtaken' = overtaken \cup
                      UNION {Held(x) : x \in {y \in Xacts : xact[y].phase = "commit"}}
    /\ checkpoints' = checkpoints + 1
    /\ UNCHANGED <<files, strays, xact, mode, entry, nextSerial, crashes>>

(* A crash, of a running or of a recovering system. *)
Crash ==
    /\ mode \in {"up", "abort", "update", "drop"} /\ crashes < MaxCrash
    /\ \E i \in DOMAIN log : log' = <<log[i]>>
    /\ xact' = [x \in Xacts |-> IF xact[x].phase = "none" THEN NewXact
                                ELSE [NewXact EXCEPT !.phase = "done"]]
    /\ mode' = "scan"
    /\ entry' = [t \in Tids |-> NoEntry]
    /\ crashes' = crashes + 1
    /\ UNCHANGED <<files, strays, nextSerial, checkpoints, overtaken>>

(* PersistentRecovery_AddScanEntry compares what the end records say (end)
   with the tuple, which may belong to a later object by now. *)
ObsoleteNever(end, tuple) == FALSE

Obsolete(end, tuple) == end.serial < tuple.serial

ScanEntry(end, tuple) ==
    LET fromTuple == [NoEntry EXCEPT !.state = tuple.state, !.serial = tuple.serial, !.xid = tuple.xid]
    IN  CASE tuple.state = "Free" -> [end EXCEPT !.state = "Free"]
          [] tuple.state # "Free" /\ end = NoEntry -> fromTuple
          [] tuple.state # "Free" /\ end # NoEntry /\ Obsolete(end, tuple) -> fromTuple
          [] tuple.state # "Free" /\ end # NoEntry /\ end.serial > tuple.serial -> end
          [] OTHER -> IF Rank[end.state] < Rank[tuple.state] THEN fromTuple
                      ELSE [end EXCEPT !.updateNeeded = Rank[end.state] > Rank[tuple.state]]

(* Pass 1 redoes the persistent table, pass 2 collects the end records and
   scans the table. *)
PersistentRecovery_Scan ==
    /\ mode = "scan"
    /\ entry' = [t \in Tids |-> ScanEntry(Now.ends[t], Now.tab[t])]
    /\ mode' = "abort"
    /\ UNCHANGED <<log, files, strays, xact, nextSerial, crashes, checkpoints, overtaken>>

(* PersistentRecovery_CrashAbort: a transaction without an end record whose
   objects are still to be created is aborted, all of them in one record;
   RecordCrashTransactionAbortRecord refuses if it committed. *)
Unfinished(x) == {t \in Tids : entry[t].state = "CreatePending" /\ entry[t].xid = x}

PersistentRecovery_CrashAbort(x) ==
    /\ mode = "abort" /\ x \notin Now.ended /\ Unfinished(x) # {}
    /\ IF x \in Now.committed
       THEN Down("fatal") /\ UNCHANGED entry
       ELSE LET aborted(t) == [NoEntry EXCEPT !.state = "AbortingCreate", !.serial = entry[t].serial]
            IN  /\ Appended([Now EXCEPT !.ended = @ \cup {x}, !.ends =
                      [t \in Tids |-> IF t \in Unfinished(x) THEN aborted(t) ELSE @[t]]])
                /\ entry' = [t \in Tids |-> IF t \in Unfinished(x)
                               THEN [entry[t] EXCEPT !.state = "AbortingCreate", !.updateNeeded = TRUE]
                               ELSE entry[t]]
                /\ UNCHANGED <<mode, files, strays>>
    /\ UNCHANGED <<xact, nextSerial, crashes, checkpoints, overtaken>>

(* PersistentRecovery_Update, *)
PersistentRecovery_Update(t) ==
    /\ mode = "update" /\ entry[t].updateNeeded
    /\ StateChange(t, entry[t].serial, entry[t].state)
    /\ entry' = [entry EXCEPT ![t].updateNeeded = FALSE]
    /\ UNCHANGED <<xact, nextSerial, crashes, checkpoints, overtaken>>

(* PersistentRecovery_Drop, *)
PersistentRecovery_Drop(t) ==
    /\ mode = "drop" /\ entry[t].state \in {"DropPending", "AbortingCreate"}
    /\ DropObject(t, entry[t].serial)
    /\ entry' = [entry EXCEPT ![t].state = "Free"]
    /\ UNCHANGED <<xact, nextSerial, crashes, checkpoints, overtaken>>

(* one after the other, *)
NextRecoveryStep ==
    /\ \/ /\ mode = "abort" /\ \A x \in Xacts \ Now.ended : Unfinished(x) = {}
          /\ mode' = "update"
       \/ /\ mode = "update" /\ \A t \in Tids : ~entry[t].updateNeeded
          /\ mode' = "drop"
    /\ UNCHANGED <<log, files, strays, xact, entry, nextSerial, crashes, checkpoints, overtaken>>

(* and a checkpoint ends the recovery. *)
EndOfRecovery ==
    /\ mode = "drop" /\ \A t \in Tids : entry[t].state \notin {"DropPending", "AbortingCreate"}
    /\ Flushed([Now EXCEPT !.ends = [t \in Tids |-> NoEntry], !.ended = {}])
    /\ mode' = "up"
    /\ entry' = [t \in Tids |-> NoEntry]
    /\ UNCHANGED <<files, strays, xact, nextSerial, crashes, checkpoints, overtaken>>

Next ==
    \/ \E x \in Xacts :
         \/ \E t \in Tids : AddCreatePending(x, t) \/ ScheduleUnlink(x, t)
         \/ CreateFile(x)
         \/ StartSubTransaction(x) \/ AtSubCommit_smgr(x)
         \/ RecordTransactionCommit(x) \/ RecordTransactionAbort(x) \/ RecordSubTransactionAbort(x)
         \/ \E e \in xact[x].todo : FirstPass(x, e) \/ SecondPass(x, e)
         \/ EndFirstPass(x) \/ EndSecondPass(x)
         \/ PersistentRecovery_CrashAbort(x)
    \/ \E t \in Tids : PersistentRecovery_Update(t) \/ PersistentRecovery_Drop(t)
    \/ Checkpoint \/ Crash
    \/ PersistentRecovery_Scan \/ NextRecoveryStep \/ EndOfRecovery

Spec == Init /\ [][Next]_vars

(* Places in the table, and transactions without savepoints, are alike. *)
Symmetry == Permutations(Tids) \cup Permutations(Xacts \ Nested)

-----------------------------------------------------------------------------
(***************************************************************************)
(* Whatever part of the log survives a crash, at any time, the file of an  *)
(* object that the catalog built from it has is still there                *)
(* (smgrDoDeleteActions, PersistentRecovery_Drop).                         *)
(***************************************************************************)
LiveKeepsFile == \A i \in DOMAIN log : log[i].live \subseteq files

(***************************************************************************)
(* The tuple, the file and the catalog agree about an object; only a file  *)
(* whose removal failed may be there without the two others.               *)
(***************************************************************************)
InStep(s) ==
    /\ s \in files <=> s \in Now.live \cup strays
    /\ s \in strays => s \notin Now.live
    /\ \A t \in Tids : Now.tab[t].serial = s => s \in Now.live /\ Now.tab[t].state = "Created"
    /\ s \in Now.live => \E t \in Tids : Now.tab[t].serial = s

InUse == UNION {Held(x) : x \in Xacts}

(***************************************************************************)
(* While the system is up, in particular after a recovery that was itself  *)
(* interrupted, no file, tuple or catalog entry is left without the other  *)
(* two, except for the objects of transactions under way, the ones whose   *)
(* commit a checkpoint overtook and the files that could not be removed    *)
(* (PersistentRecovery_AddScanEntry, RecordTransactionCommit).             *)
(***************************************************************************)
NothingLeftOver ==
    mode = "up" => \A s \in 1 .. nextSerial - 1 : s \notin InUse \cup overtaken => InStep(s)

(***************************************************************************)
(* A committed DROP finds the file it has to remove, whatever happened     *)
(* before: smgrDoDeleteActions calls for its removal without               *)
(* ignoreNonExistence, so that a missing one would be warned about.        *)
(***************************************************************************)
DropFindsFile ==
    mode = "up" => \A x \in Xacts : \A e \in xact[x].todo :
        Target(e, xact[x].phase = "commit") = "DropPending" => e.serial \in files

(***************************************************************************)
(* No step of a transaction's end or of a recovery, and of a recovery that *)
(* begins again after a crash, finds a tuple in a state or with a serial   *)
(* number it does not expect (DropObject, VerifyExpected), or the file of  *)
(* a committed DROP missing, and the recovery does not refuse to abort a   *)
(* transaction, unless a checkpoint overtook a commit.                     *)
(***************************************************************************)
AlwaysAsExpected ==
    /\ mode # "unexpected"
    /\ mode = "fatal" => overtaken # {}
    /\ DropFindsFile

(***************************************************************************)
(* "The persistent table status will be synchronized with AOSeg_XXXX table *)
(* and hdfs file in PersistentRecovery_Scan()" (xact.c): a checkpoint      *)
(* between the commit record and the work after it does no harm.  It does: *)
(* the scan compares with the end records after the checkpoint only.       *)
(***************************************************************************)
SynchronizedByRecovery ==
    mode = "up" => \A s \in 1 .. nextSerial - 1 : s \notin InUse => InStep(s)

=============================================================================
