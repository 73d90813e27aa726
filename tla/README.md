# HAWQ: a TLA+ model of its interconnect, append-only writers and persistent objects

HAWQ runs a query as slices of a plan on many processes and keeps its tables in
files on HDFS. Three parts of it carry protocols of its own and are modelled here:

* the *interconnect*, HAWQ's own reliable transport over UDP,
  `src/src/backend/cdb/motion/ic_udp.c` (about 6,900 lines). The slices exchange
  tuples through *motions*, and everything a query returns goes through this
  code; it has two threads per process, a lossy network, two flow-control
  methods, buffer pools with limits, and statements that start and stop at
  different times on different hosts;
* the *append-only writers*, `appendonlywriter.c`: a table in shared memory that
  says which segment file of a table a statement may append to, since an HDFS
  file has one writer and its end is not transactional;
* the *persistent objects*, `cdbpersistent*.c` with parts of `smgr.c`, `xact.c`
  and `xlog.c`: which files of relations must exist after commits, aborts and
  crashes.

## 1. Inventory

| Part | State it keeps | Operations | What makes it correct |
|---|---|---|---|
| UDP connection (`ic_udp.c`) | sender: send queue, unack queue, credit, sequence numbers; receiver: ring of packets, next expected, consumed, flags | `SendChunkUDP`, `SendEosUDP`, `handleAcks`, `sendBuffers`, `checkExpiration*`, `checkDeadlock`, `handleDataPacket`, `putRxBufferAndSendAck`, `doSendStopMessageUDP` | an in-order stream: nothing lost, doubled or overtaken; no overrun; every stream ends; stops reach the sender |
| Instances (`ic_udp.c`) | interconnect id, last torn id, cursor history, connection hash table, startup cache, receive buffer pool | `SetupUDPInterconnect`, `TeardownUDPInterconnect`, `handleMismatch`, `cacheFuturePacket`, `handleCachedPackets`, `getRxBuffer` | buffers and their limit always balance; packets of the future are kept or ignored, those of the past are stopped |
| Rendezvous of main and rx thread (`ic_udp.c`, `cdbmotion.c`) | `mainWaitingState`, condition variable, packet queues | `RecvTupleChunkFrom(Any)UDP`, `receiveChunksUDP`, `waitOnCondition`, `MlPutRxBuffer`, `processIncomingChunks` | no lost wake-up, the right buffer released, no starved route |
| Shared send side (`ic_udp.c`) | send buffer pool, congestion window, timing wheel | `getSndBuffer`, `sendBuffers`, `handleAckedPacket`, `putIntoUnackQueueRing`, `checkExpiration` | the counters agree with the queues, no connection waits for ever for another's buffers, no packet is lost from the wheel |
| Motion layer (`cdbmotion.c`, `tupser.c`, `htupfifo.c`) | chunk sorters, tuple queues | `SendTuple`, `RecvTupleFrom`, `addChunkToSorter` | end of stream counted once per sender |
| TCP interconnect (`ic_tcp.c`) | sockets, registration | the same interface | registration and stop |
| Resource manager (`resourcemanager/`) | resource queues, containers, connection tracks, deadlock detector | register, acquire, return, DDL, heartbeat, container grant | resource is conserved; requests in a queue are served; locked resource is released |
| Dispatcher (`cdb/dispatcher*.c`, `executormgr*.c`, `workermgr.c`) | state of each executor, worker threads | dispatch, poll, cancel, collect | every executor ends discarded or finished; cancel reaches all |
| Persistent objects (`cdbpersistent*.c`) | persistent tables, state of each object | create, drop, commit, abort, recovery | after a crash each object is wholly there or wholly gone |
| Append-only writers (`appendonlywriter.c`) | shared table of segment files | assign, complete, abort | one writer per segment file |
| Metadata cache, data locality, FTS, gangs, postmaster services, PostgreSQL inheritance, storage formats, PXF | - | - | not protocols, or not HAWQ's own |

Interaction: the executor of a slice calls the motion layer; the motion layer
calls the interconnect through function pointers (`SendTupleChunkToAMS`,
`RecvTupleChunkFromAny`, ...). A process has one main thread, which sends and
consumes, and one rx thread, which receives data packets for all statements of
the process and sends acknowledgments; they share the connection hash table, the
rings, the receive pool and `mainWaitingState` under `ic_control_info.lock`. The
sender has no thread of its own: acknowledgments are read only when
`SendChunkUDP` has no buffer or `SendEosUDP` drains, and so are the timers. The
dispatcher cancels the senders of a failed statement.

What is hard: loss, duplication and reordering in both directions; the credit
reported in acknowledgments that may themselves be lost; a stop that crosses an
end of stream; packets that arrive before a process has heard of the statement or
after it forgot it; errors in the middle of set-up; a condition variable with a
timeout and state that outlives a failed query; a clock far ahead of the timing
wheel. In the append-only writers: a lock given up while the catalog is read, a
table that forgets, writers whose commit a statement's snapshot cannot see, and
garbage behind the end of file. In the persistent objects: a crash at any record,
also in the recovery itself, and a checkpoint at any moment. `PROJECT.json` lists these as
hazards, each at its line.

## 2. Plan

1. `UdpStream`, `UdpConn`, `RingArith`: one connection, and its refinement of an in-order stream; proofs. *Done.*
2. `UdpInstance`: statements, the startup cache and the receive pool; proofs. *Done.*
3. `UdpWait`: the two threads of the receiver; proofs. *Done.*
4. `UdpSendPool`: several connections of one sender sharing buffers and congestion window; proofs. *Done.*
5. `UdpWheel`: the timing wheel against the clock; proofs. *Done.*
6. `AoSegFiles`: assignment of segment files. *Done, with proofs of its invariants.*
7. `PersistentObj`: create and drop across commit, abort, crash and recovery. *Done, with proofs of its invariants.*
8. Resource queues: accounting of in-use, available and locked resource, `resqueuedeadlock.c`.
9. Executor life cycle of the dispatcher; TCP registration.

## 3. Modules

`UdpStream` is the abstract specification: packets are put, accepted by the
receiver one by one and in order, handed out in order, either side may give up.

`UdpConn` is one connection of the code. One action is one pass through a
function up to the place where the next message or buffer is awaited.

| Model | Code |
|---|---|
| `SendChunk`, `GetBuffer`, `HandleStopMsgs` | `SendChunkUDP` and its loop, `handleStopMsgs` |
| `SendEos`, `EosDrained` | `SendEosUDP` |
| `HandleAck`, `HandleDuplicateAck`, `HandleDisorderAck` | `handleAcks` for one message, with `handleAckedPacket` and the `sendBuffers` that follows |
| `SendBuffers(...)` | `sendBuffers`: the queues, credit and datagrams after it |
| `CheckExpiration`, `CheckDeadlock`, `NetworkTimeout` | `checkExceptions` |
| `RxStatusQuery`, `RxStopRequested`, `RxAlreadyReceived`, `RxInactive`, `RxInOrder`, `RxDisorder`, `RxDuplicate` | the branches of `handleDataPacket`, in their order |
| `PrepareRxConnForRead`, `MarkConnInactive`, `PutRxBuffer` | reading in the main thread |
| `StopQueuedEos`, `StopSender`, `StopInactive` | `doSendStopMessageUDP` |

A packet is its sequence number; its header is fixed by `prepareXmit` and kept in
`pktFlags`. The send and unack queues are sets of sequence numbers, since both
are filled in order. The static variables `times` and `lastSeq` of
`handleAckForDisorderPkt` belong to all connections of a process, so whether a
disorder message triggers retransmissions is a free choice here. Whether the
congestion window holds a packet back is free too (loss-based flow control
only), except that a connection with nothing outstanding may always send; the
window itself is in `UdpSendPool`.
Branches that log and drop are no action; that they are not reached is a property
(`NoOverrun`, `NoInvalidMessage`).

The network is one of two. With `Lossy = FALSE` every datagram stays on the wire
for ever: it can be received any number of times, in any order, or never. With
`Lossy = TRUE` a datagram is consumed when received and `Lose` removes it
(`NetCap` bounds how many are under way); this is the network for liveness.

`RingArith` has the facts on sequence numbers modulo the queue depth.

`UdpInstance` is one receiving process through several statements: `Setup`,
`SetupFails` (an error after the id is assigned, with some of the senders
connected), `Skip` (a statement in which it takes no part), `Teardown`,
`GetRxBuffer` and `HandleDataPacket` of the rx thread, `AckThePast` and
`CacheFuturePacket` of `handleMismatch`, `NewTransaction` (the cursor history is
pruned). A connection is reduced to its ring, what was consumed and the sender's
credit; the details are `UdpConn`'s. Set-up, teardown and the handling of a packet
are atomic since they hold `ic_control_info.lock`. The role is a constant: a QE
compares interconnect ids, the QD consults its history of cursors. On the QD,
teardown comes after the dispatcher has waited for all executors. Senders of
failed or skipped statements are cancelled by the dispatcher, which is external
here. An error in the very first allocation of set-up, before the slice table is
stored, is left out.

`UdpWait` is the receiving process seen from inside: the main thread reads
unordered motions (`RecvTupleChunkFromAny`) and merging ones
(`RecvTupleChunkFrom`), waits on the condition variable, wakes up or times out,
processes chunks and releases the buffer outside the lock; the rx thread adds
packets and records the reached route. Once the main thread has begun to wait it
looks only at `reachRoute`, never at the queues again. A query that fails leaves
`mainWaitingState` as it is for the next one (`NextQuery`).

`UdpSendPool` is the sending process with all connections of a motion. The
protocol of a connection is `UdpConn`'s; here its queues are their lengths, and
what the connections share is kept exactly: the free list and the count of
`snd_buffer_pool`, the congestion window, `numOutStanding` and
`numSharedOutStanding`.

| Model | Code |
|---|---|
| `SendChunk`, `GetBuffer` | `SendChunkUDP` before and after its loop; `getSndBuffer` |
| `HandleStopMsg`, `StopsHandled` | `handleStopMsgs` for one connection; its end |
| `SendEos`, `FlushEos`, `Flushed`, `EosNext` | the two loops of `SendEosUDP` |
| `HandleAck`, `HandleDisorderAck` | `handleAcks` for one message, `handleAckForDisorderPkt` |
| `SendBuffers(...)`, `Blocked(...)` | `sendBuffers` and the conditions that end its loop |
| `CheckExpiration`, `CheckDeadlock`, `Leave` | `checkExceptions`: expired packets, the deadlock check of the current connection, an error |
| `TeardownConn`, `Teardown` | `TeardownUDPInterconnect`, `icBufferListReturn`, `cleanSndBufferPool` |

An acknowledgment removes any number of packets and reports any number as
consumed that `UdpConn` allows (`CapacityExact` there: no more than were sent and
acknowledged). The window is a float in the code and is compared with whole
numbers only, so the model keeps it rounded up. When the timing wheel expires a
packet is a free choice; the effect on the window is the code's.

`UdpWheel` is the timing wheel, `unack_queue_ring`: `Send` and `Retransmit`
(`putIntoUnackQueueRing`), `Remove` (an acknowledgment or a stop), and
`checkExpiration` as `CheckExpiration`, `Expire` for each packet of the current
slot, `NextSlot` and `EndCheck`. The wheel turns only when the sender calls
`checkExpiration`, so the clock (`Tick`) may be any distance ahead. The model shows
what that means. A packet put in while the wheel is less than a turn behind its
deadline comes up within one slot of the deadline. After a longer stall, a packet
that the check has just sent again can be put off by up to a turn, and one in the
first slot can be sent twice by the same check, never more. `TIMER_CHECKING_PERIOD` is in
milliseconds and is compared with a difference in microseconds, which only makes
the check more frequent; the model takes it as a constant.

`AoSegFiles` is the table of append-only writers on the master. Everything done
under `AOSegFileLock` is one step. `AORelCreateHashEntry` gives the lock up while it
reads the catalog, so a statement that finds no entry is two steps.

| Model | Code |
|---|---|
| `SetSegnoForWrite`, `CreateThenChoose` | `SetSegnoForWrite`, with the entry there, or not there |
| `ChooseSegnos` = `Own`, `Free` (the two scans), `Missing`, `Grown` (new statuses), `Lowest`, `Taken` (one candidate a segment) | its choice, with the entry at hand |
| `AORelCreateHashEntry`, `AORelGetSegfileStatus`, `AORelRemoveHashEntry`, `Unused` | the entry built from the catalog, statuses taken, unused entries thrown out |
| `Checked`, `Spoilt`, `Failed` | the length of the HDFS file compared with the catalog (`needCheck`); an error of HDFS |
| `AORelRemoveHashEntryOnCommit`, `CreateThenMarkStale`, `AtCommit_AppendOnly` | TRUNCATE and similar statements; their effect at commit |
| `InsistInSubAbort` | the `Insist` of `AtAbort_AppendOnly(true)` that fails |
| `BeginTransaction`, `BeginSubTransaction`, `RecordTransactionCommit`, `RecordTransactionAbort`, `AtAbort_AppendOnly`, `AtEOXact_AppendOnly`, `AtSubCommit_AppendOnly`, `AtSubAbort_AppendOnly` | the calls from `xact.c` at begin, commit, abort and abort of a subtransaction, in its order: end record, removal from the process array, the table, the locks |

The catalog is each transaction's view of the rows, by snapshot; lock conflicts
between writers and TRUNCATE are guards. Transactions are numbered in the order in
which they start. `Ends(t)` keeps a transaction that has done nothing from ending,
which loses no behaviour since it would change nothing. The free statuses are a set,
where the code keeps a last-in first-out list: the model takes any. An error raised
under `AOSegFileLock` leaves the lock held (`aoLock`) until the transaction aborts; in
a subtransaction it stays held, for the abort asks for it again first, which is a
PANIC of the master, and in the model nobody gets the lock any more.

Three history variables say where a promise of the code ends; they guard no step.
`lost`: an entry that was thrown out takes with it who wrote last; the variable holds
the transactions that may miss it. `astray`: statuses go back to the pool with the
transaction they name, and an entry that grows takes one out without clearing it
(`Strayed`); the end of that transaction then lowers the count of a relation it never
used, and nothing is promised of this entry any more (section 6). `unchecked`: a file
is appended to without a check that counts, because it got a number the entry
took for new though the catalog has a row for it, or because it was checked by a
transaction that had truncated the relation, and so against its new storage, and then
aborted (`Unchecked`). Both were found when the invariants would not prove.

`PersistentObj` is the life of relation files. The write-ahead log is a sequence of
*images*, each being what a redo of one of its prefixes would build: appending a
record appends an image, flushing keeps the last one only, and a crash keeps any
one of them. An object is its serial number. `live` and `committed` in an image are
what catalog and commit log say.

| Model | Code |
|---|---|
| `AddCreatePending`, `CreateFile` | `PersistentFileSysObj_AddTuple` before the file is made, and the file |
| `ScheduleUnlink`, `StartSubTransaction`, `AtSubCommit_smgr` | `smgrscheduleunlink`; savepoints, of which one may be open |
| `RecordTransactionCommit`, `RecordTransactionAbort`, `RecordSubTransactionAbort`, `EndActions`, `Collapsed` | the end records with the list of `smgrGetPendingFileSysWork` |
| `FirstPass`, `SecondPass`, `EndFirstPass`, `EndSecondPass` | `smgrDoDeleteActions`: the state changes, then the files and their tuples |
| `Verified`, `StateChange` | `PersistentFileSysObj_StateChange` with its checks |
| `DropObject`, `RemoveFile` | `PersistentFileSysObj_DropObject`; the removal of the file, which may fail with a warning only |
| `Checkpoint`, `Crash` | a checkpoint at its redo point; a crash at any moment |
| `PersistentRecovery_Scan` (with `ScanEntry`, `Obsolete`), `PersistentRecovery_CrashAbort`, `PersistentRecovery_Update`, `PersistentRecovery_Drop`, `NextRecoveryStep`, `EndOfRecovery` | pass 2 of `StartupXLOG`, in its order, over the image that pass 1 rebuilt, and the checkpoint at its end |

A new object takes any free tuple, where the code keeps a chain. The commit
record is appended and flushed in one step, and so are the removal of a file and
the record that frees its tuple: a crash in between leaves what a crash before
leaves, for the next recovery removes a file that is already gone. Entries of the
hash table of the recovery are processed in any order. Every removal of a file may
fail; as in the code that is no error and the tuple is freed all the same. Two
history variables, which guard no step, name what goes wrong (section 6): `overtaken`, the objects
whose commit a checkpoint overtook, and `strays`, the files whose removal failed.

`UdpConnProofs`, `UdpInstanceProofs`, `UdpWaitProofs`, `UdpSendPoolProofs`,
`UdpWheelProofs`, `PersistentObjProofs` and `AoSegFilesProofs` hold the
theorems; `RingArith` holds the lemmas about slots and distances in a ring.

## 4. Runs

| Run | Bounds | Shows |
|---|---|---|
| `udp_conn_capacity` | capacity-based; 2 slots, 3 send buffers, 3 packets, one datagram under way in each direction | the ring wraps under loss and retransmission: no overrun, no stall, refinement of `UdpStream` (which includes the order); every stream ends and a stop reaches the sender |
| `udp_conn_loss` | loss-based; 2 slots, 2 send buffers, 3 packets, two datagrams under way in each direction | packets and acknowledgments also overtake each other: the ring, which wraps here too, is faithful, delivery is in order, no packet forgotten, end of stream only when accepted; every stream ends |
| `udp_wait` | an unordered and a merging motion of two routes each, 2 packets a stream, depth 2, 2 queries | wake-ups, timeouts, stale waiting state; every stream is read to its end; the scan is round-robin |
| `udp_send_pool` | 2 connections, depth 2, send depth 1, 3 packets, loss-based | the shared pool and window: no buffer lost, exact counters, stops handled only with a buffer, minimum bandwidth; the sender returns though it looks for a deadlock on one connection only |
| `udp_instance_qe` | 2 senders, 2 statements, 1 packet, ring of 1 | startup races, set-up that fails between two connections, late duplicates; buffers balance and the pool never runs dry |
| `udp_instance_qd` | 1 sender, 2 open instances, ring of 2, 3 packets in the first stream, history pruned at once, one change of transaction | two cursors, pruning; rings with gaps, torn down with them (the one-outstanding rule of set-up means that disorder needs three packets) |
| `udp_instance_live` | 1 sender, 2 statements, 2 packets, no cache | no sender is left waiting |
| `udp_wheel` | 2 packets, 3 slots of 2 units, periods 1 and 3, clock to 16 | where packets sit, how late and how often they are sent again after a stall of any length; the check ends |
| `ao_seg_files` | 2 relations, 2 transactions (one with a savepoint), 3 statements for 1, 2 or 3 segments, 4 segment files of which 1 is there at the start; room for 1 relation and 2 statuses | one writer per file, the count of users, no writer that cannot see its predecessor while the entry is kept, no append after garbage, TRUNCATE takes effect at commit, across evictions, aborts and a pool that runs out |
| `ao_seg_files_zero` | 2 relations, 2 transactions, 3 statements for 1 or 2 segments; room for both relations and 4 statuses | expected to fail: section 6 |
| `persistent_objects` | 3 transactions (one with savepoints), 2 places, 2 objects, 2 crashes, 1 checkpoint | whichever removals fail, no live file is lost, nothing is left over but the files that could not be removed, no state change finds the unexpected, also when recovery is interrupted |
| `persistent_checkpoint` | 2 transactions, 1 place, 1 object, 1 crash, 1 checkpoint | expected to fail: section 6 |

Why the bounds are enough. Two connections are enough for one to hold what the
other waits for; the congestion window is hit, halved and reset; with a send depth
of one the pool has a single spare buffer, the tightest case of the wait. In
`udp_conn_capacity` one datagram is under way in each direction: it exercises loss and
retransmission, and gaps come from losses only. In `udp_conn_loss` there are two, so that
packets and acknowledgments overtake each other. With two slots a single packet can be
missing at a time, so a disorder message is never cut off; a cut-off message, more
datagrams under way and any number of copies of each are covered by the proofs, which hold for
every network. In `udp_wheel` sixteen units are more than two turns. In
`ao_seg_files` the second relation always pushes out the first, entries grow and run
out of statuses (a statement for three segments always does, and ALTER TABLE with three new
files leaves a half-filled entry), and two transactions are a writer and one that cannot see it or
pushes out its entry. Any number of transactions is covered by the proofs.
In `persistent_objects` two places and two objects let a place be used
again, and a second crash comes during the recovery from the first. Symmetry is that of
relations and statuses, and of places and flat transactions: none of them is ordered or named in
a property.

No run checks deadlock: a bounded number of packets, statements or transactions
comes to an end, and a sender that is torn down stays so. That nothing gets stuck
before is what the liveness properties and `NoStall` say.

Fairness. In `UdpConn`, the sending process, the reading of acknowledgments and
the consumer are weakly fair: they are loops that the operating system schedules.
Retransmission, the status query and the receipt of a message are strongly fair:
a message sent again and again arrives in the end, and a timer that is due again
and again fires; an acknowledgment with a given number is not for ever lost.
Nothing is assumed of losses, of stops or of the network timeout. In
`UdpInstance`, both threads run, and packets and acknowledgments that keep being
sent arrive. In `UdpWait`, both threads run, packets arrive while the ring has
room (which `UdpConn` shows), and the executor goes on reading every motion. In
`UdpSendPool`, the main thread runs; a connection whose packets are sent again and
again is acknowledged in the end: with loss-based flow control every connection,
otherwise only the one the thread works on, for only its packets are resent; and a
repeated status query is answered. An acknowledgment never has to come for a
connection the code does not resend for. In `UdpWheel`, only that the loops of
`checkExpiration`, once entered, run on. `AoSegFiles` and `PersistentObj` check
safety only.

Each property has a mutant: a version of one mapped definition changed as a
plausible bug would, under which the property fails.

## 5. Proofs

`UdpConnProofs` proves, for every queue depth, send depth, stream length,
flow-control method and network:

* `Invariance`: `IndInv` is an invariant. It joins the types, the sender's
  bookkeeping (queues are intervals of sequence numbers, credit plus what is
  outstanding is bounded), where the end of stream may be, the window of the ring,
  what every acknowledgment still under way may say (`AckMsgInv`), `AckSoundness`,
  the order between what the sender believes consumed and what is, and
  `DeliveryInv`. `AckMsgInv` is needed because old acknowledgments never go away:
  each must stay true of every later state.
* `NeverOverrun`, `AcksAreSound`, `CreditIsExact`, `RingIsFaithful`,
  `DeliveryInOrder`, `MessagesAreValid`, `NeverStalls`, `DoneIsAccepted`,
  `TypeCorrect`: the safety properties. `TypeOK`, `CapacityExact`,
  `NoInvalidMessage` and `IndInv` are proved and therefore not repeated in the runs.
* `ImplementsStream`: `UdpConn` implements `UdpStream`, with "accepted" mapped to
  what the receiver has in sequence.

Assumed is only `ConstAssumption`: the depths are positive. Arguments about slots
use `RingArith`: two sequence numbers in a window no longer than the ring have
different slots.

`UdpWaitProofs` proves `IndInv` of `UdpWait` for every set of motions, number of
routes, queue depth and stream length, and from it `WakeupsAreNotLost`,
`ReachedRoutesAreReady` and `BuffersAreHeld`. `NoLostWakeup` and `ReachedIsReady`
become inductive with two facts: while the main thread waits the waiting state is
its own (`WaitsForItself`), and a connection is active until its end of stream
(`ActiveUntilEnd`).

`OvertakingIsBounded` adds the fairness of the scan: no route with a packet is passed
over by as many packets as there are routes. The counter alone does not show why. The
invariant `OvertakingInv` says that a route that was passed over has a packet
(`OvertakenIsReady`), that a thread waiting for an unordered motion has left no such
route there (`WaitedIsNotOvertaken`), and that every packet taken brings the scan nearer to the
route: the count plus the distance left on the ring stays below the number of
routes (`ScanComesNearer`). The distance and what a step does to it are lemmas of
`RingArith`.

`UdpSendPoolProofs` proves `IndInv` of `UdpSendPool` for every number of
connections, both depths, both flow-control methods and every stream length, and
from it `TypeCorrect`, `MinimumBandwidthHolds`, `ActiveHasBufferHolds` and
`WaiterHoldsBufferHolds`. `WaiterHoldsBuffer` is not inductive, since whether a
buffer is available changes with the other connections: `WaiterInv` says that the
buffer given up for the wait is still in a queue of the connection or, once
acknowledged, in the free list. `ActiveHasBuffer` needs that only the connection
waited for is without a buffer and that a stop that was read is remembered
(`BufferInv`); `MinimumBandwidth` needs that the loop of `sendBuffers` ended by
one of its tests (`SendsFacts`); the types need the credit bound (`CreditInv`) and
a sequence number left for the end of stream (`PreparedInv`). Assumed is
`PoolAssumption`: positive depths and at least one connection.

`BuffersAreAccounted` and `CountersAreExact` say that no buffer of the shared pool is
lost and that the counters of the congestion window equal what the queues of all
connections hold. A sum over the connections is defined as the cardinality of a
set of places (`Total`, `PlacesOf`), so that changing the summand of one connection is
a lemma about finite sets and needs no induction over the connections. Both
are inductive relative to `IndInv`.

`UdpInstanceProofs` proves `InstanceTypes`, `StopsOnlyThePast`, `AckedIsReceived`,
`WindowIsKept`, `PoolIsAccounted` and `PoolIsNeverExhausted` of `UdpInstance`, for
every set of senders, number of statements, stream length, depth, role and pruning
limit, in two layers.

* `ProtInv` is about the protocol: which instances are open, torn or still to come
  (`InstanceInv`), what a packet or acknowledgment under way can say
  (`MessageInv`), what a sender has sent and believes accepted (`SenderInv`), what a
  ring holds (`RingInv`) and what the startup cache holds (`CacheInv`). An
  acknowledgment is sound when it is sent; that it stays so when it arrives late
  needs that a connection that has been torn down never comes back, and that a packet from the
  startup cache is acknowledged only for what is in the ring.
* `PoolInv` is about the receive buffers and is inductive only relative to
  `ProtInv`. The buffers allocated are the free ones, the packets of the rings, the cached
  packets and the one of the rx thread; the limit is one for the rx thread, one per
  slot of every ring and one per cached packet. That the pool never runs dry follows
  because a ring holds no more packets than it has slots: they lie in one window
  (`RingBound`).

Assumed is `ConstAssumption`: finitely many senders and positive depths and lengths.

`UdpWheelProofs` proves `WheelTypes`, `PacketsComeUpInTime`, `StallPutsOffByATurn` and
`CheckSendsTwiceAtMost` for every number of slots, length of a slot, set of
packets and of timeouts, and every bound of the clock. `WheelInv` relates the slot
of a packet to its deadline and to how far the wheel was behind when the packet was
put in. Needed besides: a check takes the wheel no further than the clock
it read (`CheckInTime`); what the check has not reached yet lies within the rest of
the turn, and a packet further on was put there by this very check
(`BeyondTurnIsNew`); and a packet it sent once is met again only as the last slot of
a full turn, one it sent twice not at all (`ResentIsAhead`). The jump of the wheel at
the end of a check breaks all bounds unless these hold.
`WheelAssumption`: at least two slots, positive spans and periods, and a bound
of the clock that is not below the span of a slot.

`PersistentObjProofs` proves `LiveFilesAreKept`, the property that matters most of the
persistent objects: whatever crashes, aborts, checkpoints and interrupted recoveries
happen, an object that the catalog shows has its file. It holds for every number of
transactions, places, objects, crashes and checkpoints. `LiveKeepsFile` is far from
inductive: a file is removed by steps that look only at an entry of
`pendingDeletes`, at a tuple or at an entry of the recovery's hash table. `FileInv`
says that none of these is ever about a live object:

* of the log (`LogInv`): all images a crash may go back to show the same live
  objects and the same committed transactions, since the catalog changes only with a
  flush; in each of them a tuple or an end record that dooms an object is not that of
  a live one, and a live object in state 'Create Pending' was created by a committed
  transaction, so the recovery does not take it for an aborted creation;
* of the transactions (`XactInv`): rows of the catalog and entries of
  `pendingDeletes` correspond, level by level (`RowsOK`, `EntriesOK`); the new
  objects of a transaction that can still commit have their file and an untouched
  tuple (`KeptOK`); the deletions of a commit are of objects that are no longer live
  and those of an abort of objects that never were (`LiveOK`); two transactions
  hold different objects;
* of the recovery (`RecoveryInv`): no transaction runs, and no entry of the hash table
  dooms a live object.

Assumed is `ConstAssumption`: finite sets of transactions and places, at least one
place. The theorem covers the objects in `overtaken` and the removals that fail too: the
defects of section 6 leave files behind and stop the start-up, but never remove a live file.
A file that could not be removed is not that of a live object (`LiveKept`), so the invariants speak
of `Files`, the files without `strays`, as if every removal had worked.

The second half of the module goes on from there to `EveryStepFindsTheExpected`
(`AlwaysAsExpected`) and `NothingIsLeftOver` (`NothingLeftOver`), under the same
assumption. `FileInv` keeps live files safe from removal but allows a dead one to
stay, or a tuple in a state that `VerifyExpected` refuses. `SettleInv` adds the exact
place of each object. The two are proved together, since `DropObject` now warns where the
file is missing, and that a committed DROP finds its file (`DropFindsFile`)
needs both:

* in every image a crash may go back to (`ImageSettled`): no two tuples have one
  serial number, every file of `Files` has a tuple, and the tuple and the end record for it are
  such that the recovery can go on from them (`TupleSettled`): the record is older
  than the tuple, agrees with it, or asks for a change that is allowed from the
  tuple's state. An ended transaction left a record for each of its creations, and a
  tuple that is 'Created' is that of a live object or of one whose drop is recorded,
  unless a checkpoint took the record away, which is what `overtaken` tells;
* of each transaction (`XactSettled`): an object whose entry the transaction has not
  begun to work on is shown by *every* image as it was when the entry was made
  (`UntouchedOK`), since a crash may choose any; of the others, the pass and `todo`
  tell the state of the tuple and whether the file is still there (`TouchedOK`); and
  no image knows a transaction's end before its phase does (`XidOK`);
* of an object nobody holds (`Unheld`): it is live and every image shows it
  'Created', or its tuple is gone and its file too or in `strays`;
* of the recovery (`ScannedInv`): each entry of the hash table agrees with its tuple
  or holds the change that is still to be made, after `CrashAbort` none is 'Create
  Pending' and after `Update` none needs a change.

The lemma `SettleStep` gathers what a step of one transaction must show: its own
record, the images it writes, that it leaves the objects of others alone
(`SameObject`), and `Unheld` for the objects it lets go of.

`AoSegFilesProofs` proves `AlwaysTypeOK`, `AlwaysGivenOnce`, `AlwaysUsersCounted` and
`AlwaysPendingIsTruncated` of `AoSegFiles`, for every number of transactions,
savepoints, statements, relations, statuses and segments, every content of the catalog
at the start and every failure of HDFS. The first part of the module is about the
operators: each has a lemma that says what it leaves of the table (`GetFacts`,
`CreateFacts`, `ChooseFacts`), for all outcomes at once and without the order in
which entries are thrown out. The second part takes the actions one by one. The
invariant `AoInv` joins

* `Pool`: a status is in the free list or in one entry, the numbers in an entry
  differ and do not exceed `max_seg_no`, and a status that names a transaction is in use;
* `TxnInv`: locks exclude each other, what a level wrote or truncated is locked, and
  the pending removals are, level by level, the relations truncated (`PendingOK`);
* `StaleInv`: what was truncated is marked stale, but for a statement that has still to
  create the entry or failed to;
* `RowsHeld`: a file that a transaction was given *at any of its levels* has a status
  in the table that names it or that the check put out of use. The current level is
  not enough: when a savepoint is rolled back the file comes back with the level below;
* `OneHolder` and `Counted`: a file has one holder, and the entry counts the holders
  by row or by status. Counting the rows too is needed where a file was put out of use
  and its status names nobody any more.

Assumed is `ConstAssumption`: finite sets of relations and statuses, at least one level
and one entry, and numbers of segments within `MaxSegno`.

The last part of `AoSegFilesProofs` proves `AlwaysUnseenWriterAvoided`. The row of a file, the snapshots
and the table change at different moments: `AtCommit_AppendOnly` sets
`latestWriteXid`, `RecordTransactionCommit` makes the row visible, and
`AtEOXact_AppendOnly` lets the file go. Beside `AoInv` the proof needs `SeenInv`:

* `Hides` and `Finished`: a running transaction's snapshot hides all that run and all that
  are still to start, and the writer of a committed row has left the process array. So a
  snapshot taken now hides no writer of a row;
* `WriterNoted`: between the first two of these steps the status of each file the
  transaction wrote names it in `latestWriteXid`, or the file is out of use. This
  is the state in which `RecordTransactionCommit` finds the table;
* `Remembered`: where the writer of a row is hidden from a transaction, the status of the file
  says so, or the file is out of use; `TruncLost` says the entries removed by a commit that
  is not recorded yet count as lost for all that run, for their rows get new writers;
* `OwnSeen`: what a transaction was given at any level, or a status still holds for it,
  was written by nobody its snapshot hides. The status counts too, for
  `SetSegnoForWrite` gives a transaction its own files again without looking at
  `latestWriteXid`.

Every invariant a proof uses was first checked by TLC on the run's instance.

Only model-checked are

* all liveness (fairness is out of the prover's reach): `EveryStreamEnds`,
  `StopHonoured`, `SenderReleased`, `SenderReturns`, `StreamCompletes`, `CheckEnds`;
* `NeverAppendsToGarbage` of `AoSegFiles`. It relates the lengths of the files to the table
  through aborts, savepoints and truncations and needs an invariant of its own beside
  `AoInv`, about `needCheck` and the files appended to at each level.

Only proved: the
properties of `UdpSendPool` with capacity-based flow control, for its run uses the
loss-based method, where the connections compete.

## 6. Where code and comments disagree

* `ao_seg_files_zero`. `appendonlywriter.h` describes `txns_using_rel` as the number
  of transactions that insert into the relation: "if equals zero it is safe to remove
  this entry". `AORelRemoveHashEntry` returns statuses to the pool with their `xid` and
  `inuse`, and `SetSegnoForWrite` takes one out by setting its number and its place
  in the list only. A transaction that inserts into a relation, truncates it
  and commits has its statuses returned by `AtCommit_AppendOnly`. If another insert
  takes them in before `AtEOXact_AppendOnly` of the first, and one of them is not
  needed in the end (it was taken to reach the number that belongs to the right
  segment), that status still names the first transaction: its end lowers the count
  of the second one's relation to zero while the second is inserting. The entry may then be
  thrown out and the file given to a third. The order of the free list plays
  no part: it happens with the code's last-in first-out list too, when the second relation's entry
  is there already. `GivenOnce`, `UsersCounted` and
  `UnseenWriterAvoided` except only entries that went astray in this way.

  The count can also stay too high. `SetSegnoForWrite` counts the transaction
  before it looks for a status; when there is none, or HDFS fails, it raises an error,
  and the end of the transaction counts down only where a status names it. Such an
  entry stays until the master restarts. No file is given to a wrong writer for it.
* `persistent_checkpoint`. `CommitTransaction` (`xact.c:2597`) no longer keeps
  checkpoints out between the commit record and the file-system work after it; the
  comment says that recovery synchronizes the persistent table with the files, so
  that there is no need to worry. But `PersistentRecovery_Scan` compares the table only
  with end records after the redo point of the last checkpoint. After a checkpoint in
  between and a crash, the record that lists the work is not read again: a committed
  DROP leaves its file for ever, and a committed CREATE leaves a tuple in state
  'Create Pending' that stops the start-up with FATAL.

Besides, the model takes these steps as the code does, and the properties name them as
exceptions or go on holding:

* A removal of a file that fails (`RemoveFile`). `PersistentRelfile_Dropped` is to "Indicate we
  physically removed the relation file" (`cdbpersistentrelfile.c:644`), but a failed removal is
  only a warning ("UNDONE: This needs to be an error", `cdbmirroredfilesysobj.c:874`; the
  same for heap files at `smgr.c:813`) and the tuple is freed all the same. The file then has
  neither tuple nor catalog entry, and no later recovery knows of it; it goes only if the
  whole directory of the relation does. One failed removal when a CREATE is aborted is
  enough. `NothingLeftOver` excepts these files (`strays`); `LiveKeepsFile` and
  `AlwaysAsExpected` hold all the same.
* A file that is not checked for garbage (`Unchecked`). The comment of
  `CheckSegFileForWriteIfNeeded` says "So we just check each time before write seg file."
  A file number that `SetSegnoForWrite` takes for new is not checked. If ALTER TABLE SET
  DISTRIBUTED BY finds no entry, one is built from the rows of its new files and stays when the
  statement is aborted. It may know fewer files than the catalog, and the next INSERT that counts
  on from it is given a file of the catalog as new, with its garbage. Where the file
  system can truncate, the writer cuts the garbage off when it opens the file; where it
  cannot, the INSERT fails. `NeverAppendsToGarbage` excepts these files.
* An abort that asks for a lock it holds (`aoLock`). `AbortSubTransaction` says "Releasing
  LW locks is critical since we might try to grab them again while cleaning up!"
  (`xact.c:5124`), but calls `AtAbort_AppendOnly(true)`, which takes `AOSegFileLock`, before it
  releases any. After an error of HDFS under that lock in a savepoint the process asks for
  a lock it holds, and `LWLockAcquire` answers with a PANIC. `AbortTransaction` has the
  order right.
* An `Insist` that fails (`InsistInSubAbort`). `AtAbort_AppendOnly(true)` insists that the
  entries whose removal the subtransaction asked for are marked stale. A statement that runs out of
  statuses has asked for the removal and leaves the half-filled entry in the table
  unmarked ("TODO: we need to release this aoHashEntry here", `appendonlywriter.c:426`). The abort of
  the savepoint then raises an error under `AOSegFileLock`, with the end just described.

`persistent_objects` and the theorems of `PersistentObjProofs` except only the objects in
`overtaken` and, for `NothingLeftOver`, the files in `strays`.

## 7. Not modelled

Sequence numbers are natural numbers; the code's 32 bits wrap after 2^32 packets
of one stream. Clocks other than that of the wheel, round-trip estimates and the
contents of packets are abstracted; errors of `sendto` other than a lost packet end
the statement and are covered by the abort.

Where `UdpInstance.SetupFails` tears down, it does so in full: the early returns of the teardown
for a set-up that failed before its slice table or its states existed (`ic_udp.c:3658`) are left
out. `UdpSendPool.Leave` raises the error of a sender from its polling loops; one raised by
`sendOnce` inside `sendBuffers`, while `curBuff` still points to a buffer that was queued
already, is not covered. It makes no difference to the pool, since teardown returns the queues and
never `curBuff`.

`AoSegFiles` leaves out `SetSegnoForExternalWrite` and statements that do not keep
the hash distribution. Each row of the catalog is of a file that is not empty: one with a logical end of 0
passes the check in the code whatever its length (`appendonlywriter.c:1861`), and the
writer cuts it off when it opens the file. `PersistentObj` leaves out directories (the same life cycle,
except that a database directory can be made just in time), bulk loads, prepared
transactions, the mirror of the master and the parameters that turn errors of the
persistent tables into warnings.

The resource manager, the dispatcher and the TCP interconnect are the next parts of
the plan. The planner, the executor nodes, the catalog code and the file formats are
sequential transformations of data, mostly inherited from PostgreSQL, with no
protocol of their own; they are most of the repository's lines and are not planned.
The other parts of the inventory and the reasons are in `PROJECT.json`.
