------------------------------- MODULE Engine -------------------------------
(***************************************************************************)
(* The durable engine (src/engine.cpp) over its write-ahead log            *)
(* (src/log_store.cpp), its snapshot blob (src/blob_store.cpp), the vector *)
(* store and a flat index.  One action per step between which the process  *)
(* can be killed or an I/O call can fail: a mutation is header, payload,   *)
(* fsync, apply; a snapshot is encode, put, truncate; recovery replays     *)
(* record by record.  A kill loses the memory and keeps the files; what a  *)
(* power loss adds is in module EngineDisk.                                *)
(***************************************************************************)
EXTENDS OpCodec

CONSTANTS
    Policies,   \* the values of SyncPolicy the log may be opened with
    MaxLog,     \* bound: fragments in the log
    FaultKinds, \* what can go wrong: "kill", "io" calls that fail, "power"
    MaxFaults   \* bound: number of faults

ASSUME MaxFaultsIsNat == MaxFaults \in Nat
ASSUME PoliciesAreSyncPolicies == Policies \subseteq {"Always", "GroupCommit", "Off"}

VARIABLES
    pc,        \* where the process is
    store,     \* Engine::store_
    ids,       \* FlatIndex::ids_: how often it lists a slot (the order only breaks ties)
    op,        \* the mutation in flight
    fd,        \* FileLogStore::fd_ >= 0
    buf,       \* entries compact() or snapshot() collected
    pos,       \* loop counter of replay, compact() and snapshot()
    policy,    \* FileLogStore::policy_, fixed by the configuration
    wal,       \* wal.log: fragments in file order
    blob,      \* blobs/snapshot: records; a missing blob replays like an empty one
    promised,  \* history: the contents the next recovery owes the caller
    orphan,    \* history: a failed mutation left its record in the log
    lossy,     \* history: the published snapshot is cut short
    faults     \* number of faults so far

memory == <<store, ids, op, fd, buf, pos>>
files == <<policy, wal, blob>>
history == <<promised, orphan, lossy>>
vars == <<pc, memory, files, history, faults>>

\* A fragment is a whole record, or a header without its full payload.  The
\* checksum tells them apart, so a torn fragment stops replay whatever follows.
Torn == [whole |-> FALSE, bytes |-> <<>>]
Whole(o) == [whole |-> TRUE, bytes |-> encode_op(o)]
Fragments == [whole : BOOLEAN, bytes : Encodings \cup {<<>>}]

PCs == {"down", "load", "replay", "refused", "idle", "payload", "fsync", "apply",
        "copy", "rebuild", "encode", "put", "truncate"}

Init ==
    /\ pc = "down"
    /\ store = EmptyStore
    /\ ids = <<>>
    /\ op = NoOp
    /\ fd = FALSE
    /\ buf = <<>>
    /\ pos = 1
    /\ policy \in Policies
    /\ wal = <<>>
    /\ blob = <<>>
    /\ promised = EmptyView
    /\ orphan = FALSE
    /\ lossy = FALSE
    /\ faults = 0

-----------------------------------------------------------------------------
(***************************************************************************)
(* When the files may differ from the memory.  Each disjunct is a way the  *)
(* code lets it happen; a truncated log after a complete snapshot ends it. *)
(***************************************************************************)

\* A whole record behind a torn fragment: replay will not reach it.
Buried == \E i, j \in 1..Len(wal) : i < j /\ ~wal[i].whole /\ wal[j].whole

\* A record that decode_op or validate_dim will reject.
Unusable(bytes) == decode_op(bytes) = NoOp \/ decode_op(bytes).vec \in BadVecs
Poisoned == \E i \in 1..Len(wal) : wal[i].whole /\ Unusable(wal[i].bytes)

Exposed == Buried \/ Poisoned \/ orphan \/ lossy

-----------------------------------------------------------------------------
(***************************************************************************)
(* Recovery: Engine::Engine, recover, replay_blob, FileLogStore::replay.   *)
(***************************************************************************)

\* FlatIndex::add appends whatever it is given, remove drops every occurrence.
index_add(l, id) ==
    [i \in DOMAIN l \cup {id} |-> IF i \notin DOMAIN l THEN 1 ELSE IF i = id THEN l[i] + 1 ELSE l[i]]

index_remove(l, id) == [i \in DOMAIN l \ {id} |-> l[i]]

\* Mutant: every insert is added, also one that overwrites a live entry.
IndexAfterAlwaysAdds(o) ==
    LET before == resolve(store, o.ext_id) IN
    CASE o.type = "Insert" -> index_add(ids, resolve(apply(store, o), o.ext_id))
      [] o.type = "Delete" /\ before # 0 -> index_remove(ids, before)
      [] OTHER -> ids

\* apply_op after the log append: the index learns an id that was not live
\* before, and forgets one that a Delete hit.
IndexAfter(o) ==
    LET before == resolve(store, o.ext_id) IN
    CASE o.type = "Insert" /\ before = 0 ->
            index_add(ids, resolve(apply(store, o), o.ext_id))
      [] o.type = "Delete" /\ before # 0 -> index_remove(ids, before)
      [] OTHER -> ids

ApplyOp(o) == store' = apply(store, o) /\ ids' = IndexAfter(o)

\* A rejected record propagates out of the constructor.
ReplayRecord(bytes) ==
    LET o == decode_op(bytes) IN
    IF o = NoOp \/ Throws(store, o)
      THEN pc' = "refused" /\ UNCHANGED memory
      ELSE ApplyOp(o) /\ pos' = pos + 1 /\ UNCHANGED <<pc, op, fd, buf>>

\* The log is opened with O_APPEND: a torn tail stays in the file.
Open ==
    /\ pc = "down"
    /\ pc' = "load"
    /\ fd' = TRUE
    /\ UNCHANGED <<store, ids, op, buf, pos, files, history, faults>>

LoadRecord ==
    /\ pc = "load"
    /\ pos <= Len(blob)
    /\ ReplayRecord(blob[pos])
    /\ UNCHANGED <<files, history, faults>>

\* Mutant: the log is read from the position the snapshot ended at.
LoadDoneKeepsPos ==
    /\ pc = "load"
    /\ pos > Len(blob)
    /\ pc' = "replay"
    /\ UNCHANGED <<store, ids, op, fd, buf, pos, files, history, faults>>

\* Mutant: with a snapshot loaded, recovery leaves the log out.
LoadDoneSkipsLog ==
    /\ pc = "load"
    /\ pos > Len(blob)
    /\ pc' = "replay"
    /\ pos' = IF blob = <<>> THEN 1 ELSE Len(wal) + 1
    /\ UNCHANGED <<store, ids, op, fd, buf, files, history, faults>>

LoadDone ==
    /\ pc = "load"
    /\ pos > Len(blob)
    /\ pc' = "replay"
    /\ pos' = 1
    /\ UNCHANGED <<store, ids, op, fd, buf, files, history, faults>>

\* Replay stops at the end of the file and at the first torn fragment.
Readable == pos <= Len(wal) /\ wal[pos].whole

ReplayLog ==
    /\ pc = "replay"
    /\ Readable
    /\ ReplayRecord(wal[pos].bytes)
    /\ UNCHANGED <<files, history, faults>>

\* From here on the caller sees what was recovered.
ReplayDone ==
    /\ pc = "replay"
    /\ ~Readable
    /\ pc' = "idle"
    /\ promised' = IF Exposed THEN View(store) ELSE promised
    /\ orphan' = FALSE
    /\ lossy' = FALSE
    /\ pos' = 1
    /\ UNCHANGED <<store, ids, op, fd, buf, files, faults>>

\* The memory of an engine that is not running.
Gone ==
    /\ pc' = "down"
    /\ store' = EmptyStore
    /\ ids' = <<>>
    /\ op' = NoOp
    /\ fd' = FALSE
    /\ buf' = <<>>
    /\ pos' = 1

Refuse ==
    /\ pc = "refused"
    /\ Gone
    /\ UNCHANGED <<files, history, faults>>

-----------------------------------------------------------------------------
(***************************************************************************)
(* Mutations: Engine::insert, update, erase, apply_op with                 *)
(* FileLogStore::append.  With no descriptor the first write throws and    *)
(* changes nothing.                                                        *)
(***************************************************************************)

WriteHeader(o) ==
    /\ pc = "idle"
    /\ fd
    /\ Len(wal) < MaxLog
    /\ wal' = Append(wal, Torn)
    /\ op' = o
    /\ pc' = "payload"
    /\ UNCHANGED <<store, ids, fd, buf, pos, policy, blob, history, faults>>

Insert(x, v, m) == WriteHeader([type |-> "Insert", ext_id |-> x, vec |-> v, meta |-> m])

\* Nothing is logged for an id that is not live.
Update(x, v, m) ==
    /\ resolve(store, x) # 0
    /\ WriteHeader([type |-> "Update", ext_id |-> x, vec |-> v, meta |-> m])

Erase(x) ==
    /\ resolve(store, x) # 0
    /\ WriteHeader([type |-> "Delete", ext_id |-> x, vec |-> NoVec, meta |-> NoMeta])

\* Mutant: the record is not synced.
WritePayloadUnsynced ==
    /\ pc = "payload"
    /\ wal' = [wal EXCEPT ![Len(wal)] = Whole(op)]
    /\ pc' = "apply"
    /\ UNCHANGED <<memory, policy, blob, history, faults>>

WritePayload ==
    /\ pc = "payload"
    /\ wal' = [wal EXCEPT ![Len(wal)] = Whole(op)]
    /\ pc' = IF policy = "Always" THEN "fsync" ELSE "apply"
    /\ UNCHANGED <<memory, policy, blob, history, faults>>

Fsync ==
    /\ pc = "fsync"
    /\ pc' = "apply"
    /\ UNCHANGED <<memory, files, history, faults>>

\* The store may throw here, after the record was logged.
Apply ==
    /\ pc = "apply"
    /\ IF Throws(store, op)
         THEN UNCHANGED <<store, ids, promised>>
         ELSE ApplyOp(op) /\ promised' = ApplyView(promised, op)
    /\ pc' = "idle"
    /\ op' = NoOp
    /\ UNCHANGED <<fd, buf, pos, files, orphan, lossy, faults>>

-----------------------------------------------------------------------------
(***************************************************************************)
(* Engine::compact and Engine::snapshot.  Both walk the slots and collect  *)
(* the live ones as inserts; compact() rebuilds store and index from them  *)
(* and then takes a snapshot.                                              *)
(***************************************************************************)

SlotOp(id) ==
    [type |-> "Insert", ext_id |-> store.ext_ids[id], vec |-> store.arena[id],
     meta |-> store.meta[id]]

LiveEntries == [type : {"Insert"}, ext_id : ExtIds, vec : Vecs, meta : Metas]

Snapshot ==
    /\ pc = "idle"
    /\ pc' = "encode"
    /\ UNCHANGED <<memory, files, history, faults>>

Compact ==
    /\ pc = "idle"
    /\ pc' = "copy"
    /\ UNCHANGED <<memory, files, history, faults>>

\* Mutant: tombstones are collected too.
ScanEverySlot ==
    /\ pc \in {"copy", "encode"}
    /\ pos <= slot_count(store)
    /\ buf' = Append(buf, SlotOp(pos))
    /\ pos' = pos + 1
    /\ UNCHANGED <<pc, store, ids, op, fd, files, history, faults>>

ScanSlot ==
    /\ pc \in {"copy", "encode"}
    /\ pos <= slot_count(store)
    /\ buf' = IF store.live[pos] THEN Append(buf, SlotOp(pos)) ELSE buf
    /\ pos' = pos + 1
    /\ UNCHANGED <<pc, store, ids, op, fd, files, history, faults>>

CopyDone ==
    /\ pc = "copy"
    /\ pos > slot_count(store)
    /\ pc' = "rebuild"
    /\ store' = EmptyStore
    /\ ids' = <<>>
    /\ pos' = 1
    /\ UNCHANGED <<op, fd, buf, files, history, faults>>

Rebuild ==
    /\ pc = "rebuild"
    /\ pos <= Len(buf)
    /\ store' = apply(store, buf[pos])
    /\ ids' = index_add(ids, resolve(store', buf[pos].ext_id))
    /\ pos' = pos + 1
    /\ UNCHANGED <<pc, op, fd, buf, files, history, faults>>

RebuildDone ==
    /\ pc = "rebuild"
    /\ pos > Len(buf)
    /\ pc' = "encode"
    /\ buf' = <<>>
    /\ pos' = 1
    /\ UNCHANGED <<store, ids, op, fd, files, history, faults>>

EncodeDone ==
    /\ pc = "encode"
    /\ pos > slot_count(store)
    /\ pc' = "put"
    /\ pos' = 1
    /\ UNCHANGED <<store, ids, op, fd, buf, files, history, faults>>

\* FileBlobStore::put with the first n records of the buffer in the file.  The
\* temporary file is never read, so only the rename shows.
Publish(n) ==
    /\ pc = "put"
    /\ blob' = [i \in 1..n |-> encode_op(buf[i])]
    /\ lossy' = (n < Len(buf))
    /\ pc' = "truncate"
    /\ buf' = <<>>
    /\ UNCHANGED <<store, ids, op, fd, pos, policy, wal, promised, orphan>>

Put == Publish(Len(buf)) /\ UNCHANGED faults

Truncate ==
    /\ pc = "truncate"
    /\ wal' = <<>>
    /\ fd' = TRUE
    /\ orphan' = FALSE
    /\ pc' = "idle"
    /\ UNCHANGED <<store, ids, op, buf, pos, policy, blob, promised, lossy, faults>>

-----------------------------------------------------------------------------
(***************************************************************************)
(* Faults: failed I/O calls (the exception reaches the caller, the engine  *)
(* goes on) and the end of the process.                                    *)
(***************************************************************************)

Fault(kind) == kind \in FaultKinds /\ faults < MaxFaults /\ faults' = faults + 1

\* write_all throws before the last byte of the record.
WriteFails ==
    /\ Fault("io")
    /\ pc = "payload"
    /\ pc' = "idle"
    /\ op' = NoOp
    /\ UNCHANGED <<store, ids, fd, buf, pos, files, history>>

\* The caller is told the mutation failed; its record is in the file.
FsyncFails ==
    /\ Fault("io")
    /\ pc = "fsync"
    /\ pc' = "idle"
    /\ op' = NoOp
    /\ orphan' = TRUE
    /\ UNCHANGED <<store, ids, fd, buf, pos, files, promised, lossy>>

\* put() throws: the old snapshot stays.
PutFails ==
    /\ Fault("io")
    /\ pc = "put"
    /\ pc' = "idle"
    /\ buf' = <<>>
    /\ UNCHANGED <<store, ids, op, fd, pos, files, history>>

\* The stream is flushed by its destructor, which reports nothing: a short file
\* is published.
PutCutShort == Fault("io") /\ \E n \in 0..Len(buf) : n < Len(buf) /\ Publish(n)

\* truncate() closed the descriptor and could not open the file again.
TruncateFails ==
    /\ Fault("io")
    /\ pc = "truncate"
    /\ pc' = "idle"
    /\ fd' = FALSE
    /\ UNCHANGED <<store, ids, op, buf, pos, files, history>>

\* Engine::~Engine between two calls.
Close ==
    /\ pc = "idle"
    /\ Gone
    /\ UNCHANGED <<files, history, faults>>

\* A mutation whose record is complete survives although its caller got no
\* answer.
Kill ==
    /\ Fault("kill")
    /\ pc # "down"
    /\ Gone
    /\ promised' = IF pc \in {"fsync", "apply"} /\ ~Throws(store, op)
                     THEN ApplyView(promised, op) ELSE promised
    /\ UNCHANGED <<files, orphan, lossy>>

-----------------------------------------------------------------------------

Mutate ==
    \E x \in ExtIds :
        \/ \E v \in Vecs \cup BadVecs :
              \/ \E m \in Metas : Insert(x, v, m)
              \/ \E m \in Metas \cup {NoMeta} : Update(x, v, m)
        \/ Erase(x)

\* The steps the process takes by itself once a call has started.
Step ==
    \/ LoadRecord \/ LoadDone \/ ReplayLog \/ ReplayDone \/ Refuse
    \/ WritePayload \/ Fsync \/ Apply
    \/ ScanSlot \/ CopyDone \/ Rebuild \/ RebuildDone \/ EncodeDone \/ Put \/ Truncate

Faulty == WriteFails \/ FsyncFails \/ PutFails \/ PutCutShort \/ TruncateFails \/ Kill

Next == Open \/ Mutate \/ Snapshot \/ Compact \/ Step \/ Close \/ Faulty

Spec == Init /\ [][Next]_vars

\* The process runs on while it has a step to take, and someone restarts it.
Fairness == WF_vars(Step) /\ WF_vars(Open)

FairSpec == Spec /\ Fairness

-----------------------------------------------------------------------------

\* The set each variable belongs to.
Typed ==
    /\ pc \in PCs
    /\ store \in Stores
    /\ op \in Ops \cup {NoOp}
    /\ fd \in BOOLEAN
    /\ buf \in Seq(LiveEntries)
    /\ pos \in Nat \ {0}
    /\ policy \in Policies
    /\ wal \in Seq(Fragments)
    /\ blob \in Seq(Encodings)
    /\ promised \in Views
    /\ orphan \in BOOLEAN
    /\ lossy \in BOOLEAN
    /\ faults \in 0..MaxFaults

\* The index counts occurrences of slots that the store has.
IndexTyped ==
    /\ DOMAIN ids \subseteq 1..slot_count(store)
    /\ \A i \in DOMAIN ids : ids[i] \in Nat \ {0}

\* The counter of each loop is a position of what the loop walks, or the one
\* after the last; a record that was refused is one that was read; outside the
\* loops the counter rests at 1.
InBounds ==
    /\ pc = "load" => pos <= Len(blob) + 1
    /\ pc = "replay" => pos <= Len(wal) + 1
    /\ pc = "refused" => pos <= Len(blob) \/ pos <= Len(wal)
    /\ pc \in {"copy", "encode"} => pos <= slot_count(store) + 1
    /\ pc = "rebuild" => pos <= Len(buf) + 1
    /\ pc \notin {"load", "replay", "refused", "copy", "encode", "rebuild"} => pos = 1

\* Every variable stays in its type, the index lists only slots the store has,
\* and the loops of recovery, compact() and snapshot() stay within the blob, the
\* log, the slots or the buffer they walk, although a rebuild replaces the store
\* between two of them (engine.cpp).
TypeOK == Typed /\ IndexTyped /\ InBounds

\* The slots, the id map and the live counter agree at every step of every
\* operation, recovery and rebuild included (vector_store.cpp).
StoreConsistent == ConsistentStore(store)

\* The index lists every live slot exactly once and no tombstone, through
\* reinsertion of deleted ids, replay and compaction (apply_op's is_new).
IndexMirrorsStore == ids = [i \in LiveSlots(store) |-> 1]

\* Between calls the engine holds exactly what its callers were told: a
\* mutation that returned is there, one that threw is not, snapshot and compact
\* change nothing, and recovery after a kill at any step brings it all back
\* (a mutation killed after its record was complete counts as done), unless the
\* files were exposed.
Durable == pc = "idle" => View(store) = promised

\* What the checksum's comment says of recovery (crc32.hpp): it cuts the log at
\* the torn record, so that what is written after it is found again.
RecoveryRestores == [][pc = "replay" /\ pc' = "idle" => View(store) = promised]_vars

\* What DESIGN.md says of the log: replaying it reconstructs the state, so no
\* start fails on it.
RecoveryNeverThrows == pc # "refused"

\* The engine serves again and again: recovery ends, and never stops at a record of
\* its own log, whatever snapshot it is replayed on.  The only exception is a log
\* that keeps a record which validate_dim rejects.
Reopens == []<>(pc = "idle") \/ <>[]Poisoned
=============================================================================
