---------------------------- MODULE EngineProofs ----------------------------
(***************************************************************************)
(* Proofs about the durable engine for every set of ids, vectors and       *)
(* metadata maps, every bound on the log and every number of faults: the   *)
(* type invariant, the consistency of the vector store and the agreement   *)
(* of index and store hold in every reachable state, recovery and          *)
(* compaction included.                                                    *)
(***************************************************************************)
EXTENDS Engine, VectorStoreProofs

\* An index that lists every member of L once.
Once(L) == [i \in L |-> 1]

\* FlatIndex::add of an id it does not hold, and FlatIndex::remove.
LEMMA IndexAdd ==
  ASSUME NEW L, NEW x, x \notin L
  PROVE  index_add(Once(L), x) = Once(L \cup {x})
  BY DEF index_add, Once

\* Removal drops the one occurrence.
LEMMA IndexRemove ==
  ASSUME NEW L, NEW x
  PROVE  index_remove(Once(L), x) = Once(L \ {x})
  BY DEF index_remove, Once

\* Overwriting an element of a sequence.
LEMMA ReplaceElement ==
  ASSUME NEW S, NEW q \in Seq(S), NEW i \in 1..Len(q), NEW e \in S
  PROVE  [q EXCEPT ![i] = e] \in Seq(S)
  OBVIOUS

\* Decoding gives back what was encoded: an operation goes through the log or the
\* snapshot unchanged, "no metadata" and "empty metadata" told apart by the
\* presence flag (encode_op, decode_op).
THEOREM RoundTrip ==
  ASSUME NEW o \in Ops
  PROVE  decode_op(encode_op(o)) = o
  <1>1. CASE o.type = "Delete"
    <2>1. o = [type |-> "Delete", ext_id |-> o.ext_id, vec |-> NoVec, meta |-> NoMeta]
      BY <1>1 DEF Ops
    <2>2. encode_op(o) = <<"Delete", o.ext_id>>
      BY <1>1 DEF encode_op
    <2> QED
      BY <2>1, <2>2 DEF decode_op, OpTypes
  <1>2. CASE o.type # "Delete"
    <2>1. o = [type |-> o.type, ext_id |-> o.ext_id, vec |-> o.vec, meta |-> o.meta]
      BY DEF Ops
    <2>2. o.type \in OpTypes
      BY DEF Ops, OpTypes
    <2>3. CASE o.meta = NoMeta
      <3>1. encode_op(o) = <<o.type, o.ext_id, o.vec, "0">>
        BY <1>2, <2>3 DEF encode_op
      <3> QED
        BY <1>2, <2>1, <2>2, <2>3, <3>1 DEF decode_op
    <2>4. CASE o.meta # NoMeta
      <3>1. encode_op(o) = <<o.type, o.ext_id, o.vec, "1", o.meta>>
        BY <1>2, <2>4 DEF encode_op
      <3>2. "0" # "1"
        OBVIOUS
      <3> QED
        BY <1>2, <2>1, <2>2, <3>1, <3>2 DEF decode_op
    <2> QED
      BY <2>3, <2>4
  <1> QED
    BY <1>1, <1>2

\* A payload of the log or the snapshot decodes to an operation or throws.
LEMMA DecodeType ==
  ASSUME NEW b \in Encodings \cup {<<>>}
  PROVE  decode_op(b) \in Ops \cup {NoOp}
  <1>1. CASE b \in Encodings
    BY <1>1, RoundTrip DEF Encodings
  <1>2. CASE b = <<>>
    BY <1>2 DEF decode_op
  <1> QED
    BY <1>1, <1>2

-----------------------------------------------------------------------------
(***************************************************************************)
(* The inductive invariant.  A mutation in flight is one the callers may   *)
(* ask for, its target is still live if it is an update, and its header is *)
(* in the log.  What the scan has collected names each id once, and only   *)
(* ids of slots it has passed, so that the rebuild never meets an id       *)
(* twice: that is why it may add to the index without asking.              *)
(***************************************************************************)

InFlight ==
    /\ pc \in {"payload", "fsync", "apply"} =>
          op \in Ops /\ (op.type = "Update" => resolve(store, op.ext_id) # 0)
    /\ pc = "payload" => Len(wal) > 0

DistinctIds(b) == \A i, j \in 1..Len(b) : i # j => b[i].ext_id # b[j].ext_id

Collected ==
    /\ pc \notin {"copy", "rebuild", "encode", "put"} => buf = <<>>
    /\ DistinctIds(buf)
    /\ pc \in {"copy", "encode"} =>
          \A i \in 1..Len(buf) : store.ext_to_int[buf[i].ext_id] \in 1..(pos - 1)
    /\ pc = "rebuild" =>
          \A i \in 1..Len(buf) : i >= pos => store.ext_to_int[buf[i].ext_id] = 0

IInv == Typed /\ StoreConsistent /\ IndexMirrorsStore /\ InFlight /\ Collected

\* An operation that the store accepts keeps the store consistent and the index
\* in step with it (Engine::apply_op after the append, and replay).
LEMMA ApplyOpKeeps ==
  ASSUME NEW o \in Ops, Good(store), IndexMirrorsStore, ~Throws(store, o), ApplyOp(o)
  PROVE  Good(store') /\ IndexMirrorsStore'
  <1> DEFINE t == apply(store, o)
             before == resolve(store, o.ext_id)
  <1>1. store' = t /\ ids' = IndexAfter(o) /\ ids = Once(LiveSlots(store))
    BY DEF ApplyOp, IndexMirrorsStore, Once
  <1>2. o.type \in OpTypes
    BY DEF Ops, OpTypes
  <1>3. Good(t)
    BY ApplySlots
  <1>4. ids' = Once(LiveSlots(t))
    <2>1. CASE o.type = "Insert" /\ before = 0
      <3>1. ids' = index_add(ids, resolve(t, o.ext_id))
        BY <1>1, <2>1 DEF IndexAfter
      <3>2. /\ resolve(t, o.ext_id) \notin LiveSlots(store)
            /\ LiveSlots(t) = LiveSlots(store) \cup {resolve(t, o.ext_id)}
        BY <2>1, ApplySlots
      <3> HIDE DEF t
      <3> QED
        BY <1>1, <3>1, <3>2, IndexAdd
    <2>2. CASE o.type = "Delete" /\ before # 0
      <3>1. ids' = index_remove(ids, before)
        BY <1>1, <2>2 DEF IndexAfter
      <3>2. LiveSlots(t) = LiveSlots(store) \ {before}
        BY <2>2, ApplySlots
      <3> HIDE DEF t, before
      <3> QED
        BY <1>1, <3>1, <3>2, IndexRemove
    <2>3. CASE ~(o.type = "Insert" /\ before = 0) /\ ~(o.type = "Delete" /\ before # 0)
      <3>1. ids' = ids
        BY <1>1, <2>3 DEF IndexAfter
      <3>2. LiveSlots(t) = LiveSlots(store)
        BY <1>2, <2>3, ApplySlots DEF OpTypes
      <3> HIDE DEF t
      <3> QED
        BY <1>1, <3>1, <3>2
    <2> QED
      BY <2>1, <2>2, <2>3
  <1> QED
    BY <1>1, <1>3, <1>4 DEF IndexMirrorsStore, Once

\* One record of the snapshot or the log, accepted or not.
LEMMA ReplayRecordKeeps ==
  ASSUME IInv, pc \in {"load", "replay"}, NEW b \in Encodings \cup {<<>>},
         ReplayRecord(b), UNCHANGED <<files, history, faults>>
  PROVE  IInv'
  <1> DEFINE o == decode_op(b)
  <1>0. Good(store) /\ buf = <<>>
    BY DEF IInv, Typed, StoreConsistent, Good, Collected
  <1>1. CASE o = NoOp \/ Throws(store, o)
    <2>1. pc' = "refused" /\ UNCHANGED <<memory, files, history, faults>>
      BY <1>1 DEF ReplayRecord
    <2> QED
      BY <1>0, <2>1 DEF IInv, Typed, StoreConsistent, IndexMirrorsStore, InFlight, Collected,
         memory, files, history, PCs, DistinctIds
  <1>2. CASE ~(o = NoOp \/ Throws(store, o))
    <2>1. o \in Ops /\ ~Throws(store, o)
      BY <1>2, DecodeType
    <2>2. ApplyOp(o) /\ pos' = pos + 1 /\ UNCHANGED <<pc, op, fd, buf>>
      BY <1>2 DEF ReplayRecord
    <2>3. Good(store') /\ IndexMirrorsStore'
      <3> HIDE DEF o
      <3> QED
        BY <1>0, <2>1, <2>2, ApplyOpKeeps DEF IInv
    <2>4. Typed'
      BY <2>2, <2>3 DEF IInv, Typed, files, history, Good
    <2>5. InFlight' /\ Collected'
      BY <1>0, <2>2 DEF InFlight, Collected, DistinctIds
    <2> QED
      BY <2>3, <2>4, <2>5 DEF IInv, StoreConsistent, Good
  <1> QED
    BY <1>1, <1>2

\* A step that leaves the store and the index alone, calls and ends no mutation
\* and collects nothing: only the types are left to show.
LEMMA QuietKeeps ==
  ASSUME IInv, Typed', UNCHANGED <<store, ids>>,
         (op' = op /\ InFlight') \/ pc' \notin {"payload", "fsync", "apply"},
         buf' = <<>>
  PROVE  IInv'
  BY DEF IInv, StoreConsistent, IndexMirrorsStore, InFlight, Collected, DistinctIds

\* The memory of a process that is not running.
LEMMA GoneKeeps ==
  ASSUME IInv, Gone, UNCHANGED <<policy, wal, blob>>, promised' \in Views,
         orphan' \in BOOLEAN, lossy' \in BOOLEAN, faults' \in 0..MaxFaults
  PROVE  IInv'
  <1>1. Good(EmptyStore) /\ LiveSlots(EmptyStore) = {}
    BY EmptyStoreGood
  <1>2. Typed'
    <2>1. /\ pc' = "down" /\ store' = EmptyStore /\ op' = NoOp /\ fd' = FALSE
          /\ buf' = <<>> /\ pos' = 1
      BY DEF Gone
    <2>2. EmptyStore \in Stores
      BY <1>1 DEF Good
    <2>3. store' \in Stores
      BY <2>1, <2>2, Zenon
    <2>4. fd' \in BOOLEAN
      BY <2>1, Zenon
    <2>5. pc' \in PCs /\ op' \in Ops \cup {NoOp} /\ pos' \in Nat \ {0}
      BY <2>1 DEF PCs
    <2>6. buf' \in Seq(LiveEntries)
      BY <2>1
    <2>7. policy' \in Policies /\ wal' \in Seq(Fragments) /\ blob' \in Seq(Encodings)
      BY DEF IInv, Typed
    <2> QED
      BY <2>3, <2>4, <2>5, <2>6, <2>7 DEF Typed
  <1>3. StoreConsistent'
    BY <1>1 DEF StoreConsistent, Gone, Good
  <1>4. IndexMirrorsStore'
    <2>1. ids' = <<>> /\ LiveSlots(store') = {}
      BY <1>1 DEF Gone
    <2> QED
      BY <2>1 DEF IndexMirrorsStore
  <1>5. InFlight' /\ Collected'
    BY DEF InFlight, Collected, DistinctIds, Gone
  <1> QED
    BY <1>2, <1>3, <1>4, <1>5 DEF IInv

\* The mutation in flight keeps what is owed a map to entries.
LEMMA PromiseType ==
  ASSUME IInv, pc \in {"fsync", "apply"}, ~Throws(store, op)
  PROVE  ApplyView(promised, op) \in Views
  <1>1. op \in Ops /\ promised \in Views
    BY DEF IInv, Typed, InFlight
  <1>2. op.type = "Update" => resolve(store, op.ext_id) # 0
    BY DEF IInv, InFlight
  <1>3. op.type # "Delete" => op.vec \in Vecs
    BY <1>1, <1>2 DEF Throws, validate_dim, Ops
  <1>4. CASE op.type = "Insert"
    BY <1>1, <1>3, <1>4 DEF ApplyView, Views, Entries, Ops
  <1>5. CASE op.type = "Delete"
    BY <1>1, <1>5 DEF ApplyView, Views, Ops
  <1>6. CASE op.type = "Update"
    BY <1>1, <1>3, <1>6 DEF ApplyView, Views, Entries, Ops
  <1> QED
    BY <1>1, <1>4, <1>5, <1>6 DEF Ops

\* A process that has never run.
LEMMA InitKeeps ==
  Init => IInv
  <1> SUFFICES ASSUME Init PROVE IInv
    OBVIOUS
  <1>1. Good(EmptyStore) /\ LiveSlots(EmptyStore) = {}
    BY EmptyStoreGood
  <1>2. Typed
    <2>1. promised \in Views
      BY DEF Init, EmptyView, Views
    <2>2. store = EmptyStore /\ EmptyStore \in Stores
      BY <1>1 DEF Good, Init
    <2>3. store \in Stores
      BY <2>2, Zenon
    <2>4. fd \in BOOLEAN /\ orphan \in BOOLEAN /\ lossy \in BOOLEAN
      BY Zenon DEF Init
    <2>5. pc \in PCs /\ op \in Ops \cup {NoOp} /\ pos \in Nat \ {0} /\ faults \in 0..MaxFaults
      BY MaxFaultsIsNat DEF PCs, Init
    <2>6. /\ policy \in Policies /\ buf \in Seq(LiveEntries)
          /\ wal \in Seq(Fragments) /\ blob \in Seq(Encodings)
      BY DEF Init
    <2> QED
      BY <2>1, <2>3, <2>4, <2>5, <2>6 DEF Typed
  <1>3. StoreConsistent
    BY <1>1 DEF Init, StoreConsistent, Good
  <1>4. IndexMirrorsStore
    <2>1. ids = <<>> /\ LiveSlots(store) = {}
      BY <1>1 DEF Init
    <2> QED
      BY <2>1 DEF IndexMirrorsStore
  <1>5. InFlight /\ Collected
    BY DEF Init, InFlight, Collected, DistinctIds
  <1> QED
    BY <1>2, <1>3, <1>4, <1>5 DEF IInv

-----------------------------------------------------------------------------
(***************************************************************************)
(* One lemma per group of actions.                                         *)
(***************************************************************************)

\* Opening, replaying the snapshot and the log, and refusing to.
LEMMA RecoveryKeeps ==
  ASSUME IInv, Open \/ LoadRecord \/ LoadDone \/ ReplayLog \/ ReplayDone \/ Refuse
  PROVE  IInv'
  <1>0. Good(store)
    BY DEF IInv, Typed, StoreConsistent, Good
  <1>1. CASE Open
    <2>1. fd' \in BOOLEAN
      BY <1>1, Zenon DEF Open
    <2>2. Typed'
      BY <1>1, <2>1 DEF Open, IInv, Typed, PCs, files, history
    <2> QED
      BY <1>1, <2>2, QuietKeeps DEF Open, IInv, Collected
  <1>2. CASE LoadRecord
    <2>1. blob[pos] \in Encodings
      BY <1>2 DEF LoadRecord, IInv, Typed
    <2> QED
      BY <1>2, <2>1, ReplayRecordKeeps DEF LoadRecord
  <1>3. CASE LoadDone
    <2>1. Typed'
      BY <1>3 DEF LoadDone, IInv, Typed, PCs, files, history
    <2> QED
      BY <1>3, <2>1, QuietKeeps DEF LoadDone, IInv, Collected
  <1>4. CASE ReplayLog
    <2>1. wal[pos].bytes \in Encodings \cup {<<>>}
      <3>1. wal \in Seq(Fragments) /\ pos \in Nat \ {0} /\ pos <= Len(wal)
        BY <1>4 DEF ReplayLog, Readable, IInv, Typed
      <3>2. wal[pos] \in Fragments
        BY <3>1
      <3> QED
        BY <3>2 DEF Fragments
    <2> QED
      BY <1>4, <2>1, ReplayRecordKeeps DEF ReplayLog
  <1>5. CASE ReplayDone
    <2>1. promised' \in Views
      BY <1>0, <1>5, ViewType DEF ReplayDone, IInv, Typed
    <2>2. orphan' \in BOOLEAN /\ lossy' \in BOOLEAN
      BY <1>5, Zenon DEF ReplayDone
    <2>3. Typed'
      BY <1>5, <2>1, <2>2 DEF ReplayDone, IInv, Typed, PCs, files
    <2> QED
      BY <1>5, <2>3, QuietKeeps DEF ReplayDone, IInv, Collected
  <1>6. CASE Refuse
    BY <1>6, GoneKeeps DEF Refuse, IInv, Typed, files, history
  <1> QED
    BY <1>1, <1>2, <1>3, <1>4, <1>5, <1>6

\* The header of a record, for any mutation.
LEMMA WriteHeaderKeeps ==
  ASSUME IInv, NEW o \in Ops, WriteHeader(o),
         o.type = "Update" => resolve(store, o.ext_id) # 0
  PROVE  IInv'
  <1>1. Torn \in Fragments
    <2>1. FALSE \in BOOLEAN
      OBVIOUS
    <2> QED
      BY <2>1 DEF Torn, Fragments
  <1>2. wal' \in Seq(Fragments)
    BY <1>1 DEF WriteHeader, IInv, Typed
  <1>3. Typed'
    BY <1>2 DEF WriteHeader, IInv, Typed, PCs, history
  <1>4. InFlight'
    <2>1. Len(wal') > 0
      BY <1>1 DEF WriteHeader, IInv, Typed
    <2> QED
      BY <2>1 DEF WriteHeader, InFlight
  <1>5. StoreConsistent' /\ IndexMirrorsStore' /\ Collected'
    BY DEF WriteHeader, IInv, StoreConsistent, IndexMirrorsStore, Collected, DistinctIds
  <1> QED
    BY <1>3, <1>4, <1>5 DEF IInv

\* Engine::insert, update and erase write the header of their record.
LEMMA MutateKeeps ==
  ASSUME IInv, Mutate
  PROVE  IInv'
  <1>1. ASSUME NEW x \in ExtIds, NEW v \in Vecs \cup BadVecs, NEW m \in Metas, Insert(x, v, m)
        PROVE  IInv'
    <2> DEFINE o == [type |-> "Insert", ext_id |-> x, vec |-> v, meta |-> m]
    <2>1. o \in Ops /\ o.type # "Update"
      BY DEF Ops
    <2>2. WriteHeader(o)
      BY <1>1 DEF Insert
    <2> HIDE DEF o
    <2> QED
      BY <2>1, <2>2, WriteHeaderKeeps
  <1>2. ASSUME NEW x \in ExtIds, NEW v \in Vecs \cup BadVecs,
               NEW m \in Metas \cup {NoMeta}, Update(x, v, m)
        PROVE  IInv'
    <2> DEFINE o == [type |-> "Update", ext_id |-> x, vec |-> v, meta |-> m]
    <2>1. o \in Ops /\ o.ext_id = x
      BY DEF Ops
    <2>2. WriteHeader(o) /\ resolve(store, x) # 0
      BY <1>2 DEF Update
    <2> HIDE DEF o
    <2> QED
      BY <2>1, <2>2, WriteHeaderKeeps
  <1>3. ASSUME NEW x \in ExtIds, Erase(x)
        PROVE  IInv'
    <2> DEFINE o == [type |-> "Delete", ext_id |-> x, vec |-> NoVec, meta |-> NoMeta]
    <2>1. o \in Ops /\ o.type # "Update"
      BY DEF Ops
    <2>2. WriteHeader(o)
      BY <1>3 DEF Erase
    <2> HIDE DEF o
    <2> QED
      BY <2>1, <2>2, WriteHeaderKeeps
  <1> QED
    BY <1>1, <1>2, <1>3 DEF Mutate

\* The rest of a mutation, failed writes and failed fsyncs included.
LEMMA MutationKeeps ==
  ASSUME IInv, WritePayload \/ Fsync \/ Apply \/ WriteFails \/ FsyncFails
  PROVE  IInv'
  <1>0. Good(store)
    BY DEF IInv, Typed, StoreConsistent, Good
  <1>1. CASE WritePayload
    <2>1. op \in Ops
      BY <1>1 DEF WritePayload, IInv, InFlight
    <2>2. Whole(op) \in Fragments
      <3>1. TRUE \in BOOLEAN /\ encode_op(op) \in Encodings
        BY <2>1 DEF Encodings
      <3> QED
        BY <3>1 DEF Whole, Fragments
    <2>3. wal' \in Seq(Fragments)
      <3>1. wal \in Seq(Fragments) /\ wal' = [wal EXCEPT ![Len(wal)] = Whole(op)]
        BY <1>1 DEF WritePayload, IInv, Typed
      <3>2. Len(wal) \in 1..Len(wal)
        BY <1>1, <3>1 DEF WritePayload, IInv, InFlight
      <3> QED
        BY <2>2, <3>1, <3>2, ReplaceElement
    <2>4. pc' \in {"fsync", "apply"}
      BY <1>1 DEF WritePayload
    <2>5. UNCHANGED <<store, ids, op, fd, buf, pos, policy, blob, promised, orphan, lossy, faults>>
      BY <1>1 DEF WritePayload, memory, history
    <2>6. Typed'
      BY <2>3, <2>4, <2>5 DEF IInv, Typed, PCs
    <2>7. InFlight'
      BY <1>1, <2>4, <2>5 DEF WritePayload, IInv, InFlight
    <2> QED
      BY <1>1, <2>5, <2>6, <2>7, QuietKeeps DEF WritePayload, IInv, Collected
  <1>2. CASE Fsync
    <2>1. Typed' /\ InFlight'
      BY <1>2 DEF Fsync, IInv, Typed, PCs, memory, files, history, InFlight
    <2> QED
      BY <1>2, <2>1, QuietKeeps DEF Fsync, IInv, Collected, memory
  <1>3. CASE Apply
    <2>1. op \in Ops /\ buf = <<>>
      BY <1>3 DEF Apply, IInv, InFlight, Collected
    <2>2. /\ pc' = "idle" /\ op' = NoOp
          /\ UNCHANGED <<fd, buf, pos, policy, wal, blob, orphan, lossy, faults>>
      BY <1>3 DEF Apply, files
    <2>3. Good(store') /\ IndexMirrorsStore' /\ promised' \in Views
      <3>1. CASE Throws(store, op)
        BY <1>0, <1>3, <3>1 DEF Apply, IInv, Typed, IndexMirrorsStore
      <3>2. CASE ~Throws(store, op)
        <4>1. ApplyOp(op) /\ promised' = ApplyView(promised, op) /\ pc = "apply"
          BY <1>3, <3>2 DEF Apply
        <4> QED
          BY <1>0, <2>1, <3>2, <4>1, ApplyOpKeeps, PromiseType DEF IInv
      <3> QED
        BY <3>1, <3>2
    <2>4. Typed'
      BY <2>2, <2>3 DEF IInv, Typed, PCs, Good
    <2>5. InFlight' /\ Collected'
      BY <2>1, <2>2 DEF InFlight, Collected, DistinctIds
    <2> QED
      BY <2>3, <2>4, <2>5 DEF IInv, StoreConsistent, Good
  <1>4. CASE WriteFails
    <2>1. Typed'
      BY <1>4, MaxFaultsIsNat DEF WriteFails, Fault, IInv, Typed, PCs, files, history
    <2> QED
      BY <1>4, <2>1, QuietKeeps DEF WriteFails, IInv, Collected
  <1>5. CASE FsyncFails
    <2>1. orphan' \in BOOLEAN
      BY <1>5, Zenon DEF FsyncFails
    <2>2. Typed'
      BY <1>5, <2>1, MaxFaultsIsNat DEF FsyncFails, Fault, IInv, Typed, PCs, files
    <2> QED
      BY <1>5, <2>2, QuietKeeps DEF FsyncFails, IInv, Collected
  <1> QED
    BY <1>1, <1>2, <1>3, <1>4, <1>5

\* The scan: one more slot passed, its entry collected if it is live.
LEMMA ScanSlotKeeps ==
  ASSUME IInv, ScanSlot
  PROVE  IInv'
  <1>0. Good(store) /\ buf \in Seq(LiveEntries) /\ pos \in Nat \ {0} /\ DistinctIds(buf)
    BY DEF IInv, Typed, StoreConsistent, Good, Collected
  <1>1. /\ pc \in {"copy", "encode"} /\ pos \in 1..slot_count(store) /\ pos' = pos + 1
        /\ buf' = IF store.live[pos] THEN Append(buf, SlotOp(pos)) ELSE buf
        /\ UNCHANGED <<pc, store, ids, op, fd, policy, wal, blob, promised, orphan, lossy,
                       faults>>
    BY <1>0 DEF ScanSlot, files, history, Good, Stores, slot_count
  <1>2. \A i \in 1..Len(buf) : store.ext_to_int[buf[i].ext_id] \in 1..(pos - 1)
    BY <1>1 DEF IInv, Collected
  <1>3. SlotOp(pos) \in LiveEntries /\ store.ext_to_int[SlotOp(pos).ext_id] = pos
    <2>1. /\ pos \in 1..Len(store.ext_ids) /\ pos \in 1..Len(store.arena)
          /\ pos \in 1..Len(store.meta) /\ store.ext_to_int[store.ext_ids[pos]] = pos
      BY <1>0, <1>1 DEF Good, ConsistentStore, slot_count
    <2>2. /\ store.ext_ids[pos] \in ExtIds /\ store.arena[pos] \in Vecs
          /\ store.meta[pos] \in Metas
      BY <1>0, <2>1 DEF Good, Stores
    <2> QED
      BY <2>1, <2>2 DEF SlotOp, LiveEntries
  <1>4. /\ buf' \in Seq(LiveEntries) /\ DistinctIds(buf')
        /\ \A i \in 1..Len(buf') : store.ext_to_int[buf'[i].ext_id] \in 1..pos
    <2>1. CASE store.live[pos]
      <3> DEFINE b == Append(buf, SlotOp(pos))
      <3>1. /\ b \in Seq(LiveEntries) /\ Len(b) = Len(buf) + 1
            /\ \A i \in 1..Len(buf) : b[i] = buf[i]
            /\ b[Len(buf) + 1] = SlotOp(pos)
        BY <1>0, <1>3, AppendFacts
      <3> HIDE DEF b
      <3>2. \A i \in 1..Len(b) : i \in 1..Len(buf) \/ i = Len(buf) + 1
        BY <1>0, <3>1
      <3>3. \A i \in 1..Len(buf) : store.ext_to_int[b[i].ext_id] \in 1..(pos - 1)
        BY <1>2, <3>1
      <3>4. store.ext_to_int[b[Len(buf) + 1].ext_id] = pos
        BY <1>3, <3>1
      <3>5. \A i \in 1..Len(b) : store.ext_to_int[b[i].ext_id] \in 1..pos
        BY <1>0, <3>2, <3>3, <3>4
      <3>6. \A i, j \in 1..Len(buf) : i # j => b[i].ext_id # b[j].ext_id
        BY <1>0, <3>1 DEF DistinctIds
      <3>7. \A i \in 1..Len(buf) : b[i].ext_id # b[Len(buf) + 1].ext_id
        BY <1>0, <3>3, <3>4
      <3>8. DistinctIds(b)
        BY <3>2, <3>6, <3>7 DEF DistinctIds
      <3>9. buf' = b
        BY <1>1, <2>1 DEF b
      <3> QED
        BY <3>1, <3>5, <3>8, <3>9
    <2>2. CASE ~store.live[pos]
      BY <1>0, <1>1, <1>2, <2>2
    <2> QED
      BY <2>1, <2>2
  <1>5. Typed'
    BY <1>0, <1>1, <1>4 DEF IInv, Typed
  <1>6. StoreConsistent' /\ IndexMirrorsStore' /\ InFlight'
    BY <1>1 DEF IInv, StoreConsistent, IndexMirrorsStore, InFlight
  <1>7. Collected'
    BY <1>0, <1>1, <1>4 DEF Collected
  <1> QED
    BY <1>5, <1>6, <1>7 DEF IInv

\* Rebuilding after compaction: every entry is new to the store it goes into.
LEMMA RebuildKeeps ==
  ASSUME IInv, Rebuild
  PROVE  IInv'
  <1>0. Good(store) /\ buf \in Seq(LiveEntries) /\ pos \in Nat \ {0} /\ DistinctIds(buf)
    BY DEF IInv, Typed, StoreConsistent, Good, Collected
  <1> DEFINE o == buf[pos]
             t == apply(store, o)
  <1>1. /\ pc = "rebuild" /\ pos \in 1..Len(buf) /\ pos' = pos + 1 /\ store' = t
        /\ ids' = index_add(ids, resolve(store', o.ext_id))
        /\ UNCHANGED <<pc, op, fd, buf, policy, wal, blob, promised, orphan, lossy, faults>>
    BY <1>0 DEF Rebuild, files, history
  <1>2. o \in LiveEntries /\ store.ext_to_int[o.ext_id] = 0
    BY <1>0, <1>1 DEF IInv, Collected
  <1> HIDE DEF o
  <1>3. /\ o \in Ops /\ o.type = "Insert" /\ ~Throws(store, o) /\ o.ext_id \in ExtIds
        /\ o.vec \in Vecs /\ o.meta \in Metas
    BY <1>2 DEF LiveEntries, Ops, Throws, validate_dim
  <1>4. resolve(store, o.ext_id) = 0
    BY <1>2 DEF resolve
  <1>5. /\ Good(t) /\ resolve(t, o.ext_id) \notin LiveSlots(store)
        /\ LiveSlots(t) = LiveSlots(store) \cup {resolve(t, o.ext_id)}
    BY <1>0, <1>3, <1>4, ApplySlots
  <1>6. \A y \in ExtIds \ {o.ext_id} : t.ext_to_int[y] = store.ext_to_int[y]
    <2>1. t = do_insert(store, o.ext_id, o.vec, o.meta)
      BY <1>3, NoMetaIsNoMeta DEF apply
    <2> HIDE DEF t
    <2> DEFINE x == o.ext_id
    <2>2. x \in ExtIds /\ t = do_insert(store, x, o.vec, o.meta)
      BY <1>3, <2>1
    <2> HIDE DEF x
    <2>3. \A y \in ExtIds \ {x} : t.ext_to_int[y] = store.ext_to_int[y]
      BY <1>0, <1>3, <2>2, InsertView
    <2> QED
      BY <2>3 DEF x
  <1> HIDE DEF t
  <1>7. IndexMirrorsStore'
    <2>1. ids = Once(LiveSlots(store))
      BY DEF IInv, IndexMirrorsStore, Once
    <2>2. ids' = Once(LiveSlots(t))
      BY <1>1, <1>5, <2>1, IndexAdd
    <2> QED
      BY <1>1, <2>2 DEF IndexMirrorsStore, Once
  <1>8. Typed' /\ StoreConsistent' /\ InFlight'
    <2>1. Typed'
      BY <1>0, <1>1, <1>5 DEF IInv, Typed, Good
    <2>2. StoreConsistent'
      BY <1>1, <1>5 DEF StoreConsistent, Good
    <2>3. InFlight'
      BY <1>0, <1>1 DEF IInv, InFlight
    <2> QED
      BY <2>1, <2>2, <2>3
  <1>9. \A i \in 1..Len(buf) : i >= pos + 1 => t.ext_to_int[buf[i].ext_id] = 0
    <2> SUFFICES ASSUME NEW i \in 1..Len(buf), i >= pos + 1
                 PROVE  t.ext_to_int[buf[i].ext_id] = 0
      OBVIOUS
    <2>1. buf[i].ext_id # o.ext_id
      BY <1>0, <1>1 DEF DistinctIds, o
    <2>2. buf[i].ext_id \in ExtIds
      <3>1. buf[i] \in LiveEntries
        BY <1>0
      <3> QED
        BY <3>1 DEF LiveEntries
    <2>3. store.ext_to_int[buf[i].ext_id] = 0
      BY <1>0, <1>1 DEF IInv, Collected
    <2> QED
      BY <1>6, <2>1, <2>2, <2>3
  <1>10. Collected'
    BY <1>0, <1>1, <1>9 DEF Collected
  <1> QED
    BY <1>7, <1>8, <1>10 DEF IInv

\* The other steps of snapshot() and compact(), failed ones included.
LEMMA SnapshotKeeps ==
  ASSUME IInv,
         \/ Snapshot \/ Compact \/ CopyDone \/ RebuildDone \/ EncodeDone
         \/ Put \/ PutCutShort \/ PutFails \/ Truncate \/ TruncateFails
  PROVE  IInv'
  <1>1. CASE Snapshot \/ Compact
    <2>1. /\ pc = "idle" /\ pc' \in {"encode", "copy"} /\ buf = <<>>
          /\ UNCHANGED <<memory, files, history, faults>>
      BY <1>1 DEF Snapshot, Compact, IInv, Collected
    <2> QED
      BY <2>1 DEF IInv, Typed, StoreConsistent, IndexMirrorsStore, InFlight, Collected,
         DistinctIds, PCs, memory, files, history
  <1>2. CASE CopyDone
    <2>1. /\ pc = "copy" /\ pc' = "rebuild" /\ store' = EmptyStore /\ ids' = <<>> /\ pos' = 1
          /\ UNCHANGED <<op, fd, buf, policy, wal, blob, promised, orphan, lossy, faults>>
      BY <1>2 DEF CopyDone, files, history
    <2>2. Good(EmptyStore) /\ LiveSlots(EmptyStore) = {}
      BY EmptyStoreGood
    <2>3. store' \in Stores /\ StoreConsistent'
      BY <2>1, <2>2, Zenon DEF Good, StoreConsistent
    <2>4. Typed'
      BY <2>1, <2>3 DEF IInv, Typed, PCs
    <2>5. IndexMirrorsStore'
      <3>1. ids' = <<>> /\ LiveSlots(store') = {}
        BY <2>1, <2>2
      <3> QED
        BY <3>1 DEF IndexMirrorsStore
    <2>6. \A i \in 1..Len(buf) : buf[i].ext_id \in ExtIds
      <3>1. \A i \in 1..Len(buf) : buf[i] \in LiveEntries
        BY DEF IInv, Typed
      <3> QED
        BY <3>1 DEF LiveEntries
    <2>7. \A x \in ExtIds : store'.ext_to_int[x] = 0
      BY <2>1 DEF EmptyStore
    <2>8. InFlight' /\ Collected'
      BY <2>1, <2>6, <2>7 DEF IInv, InFlight, Collected
    <2> QED
      BY <2>3, <2>4, <2>5, <2>8 DEF IInv
  <1>3. CASE RebuildDone
    <2>1. Typed'
      BY <1>3 DEF RebuildDone, IInv, Typed, PCs, files, history
    <2> QED
      BY <1>3, <2>1, QuietKeeps DEF RebuildDone
  <1>4. CASE EncodeDone
    BY <1>4 DEF EncodeDone, IInv, Typed, PCs, files, history, StoreConsistent,
       IndexMirrorsStore, InFlight, Collected
  <1>5. ASSUME NEW n \in 0..Len(buf), Publish(n), faults' \in 0..MaxFaults
        PROVE  IInv'
    <2>1. buf \in Seq(LiveEntries)
      BY DEF IInv, Typed
    <2>2. blob' \in Seq(Encodings)
      <3>1. \A i \in 1..n : encode_op(buf[i]) \in Encodings
        <4> TAKE i \in 1..n
        <4>1. buf[i] \in LiveEntries
          BY <2>1
        <4>2. buf[i] \in Ops
          BY <4>1 DEF LiveEntries, Ops
        <4> QED
          BY <4>2 DEF Encodings
      <3>2. blob' = [i \in 1..n |-> encode_op(buf[i])] /\ n \in Nat
        BY <1>5, <2>1 DEF Publish
      <3> QED
        BY <3>1, <3>2
    <2>3. lossy' \in BOOLEAN
      BY <1>5 DEF Publish
    <2>4. Typed'
      BY <1>5, <2>2, <2>3 DEF Publish, IInv, Typed, PCs
    <2> QED
      BY <1>5, <2>4, QuietKeeps DEF Publish
  <1>6. CASE Put
    <2>1. Len(buf) \in 0..Len(buf) /\ faults' \in 0..MaxFaults /\ Publish(Len(buf))
      BY <1>6 DEF Put, IInv, Typed
    <2> QED
      BY <1>5, <2>1
  <1>7. CASE PutCutShort
    <2>1. faults' \in 0..MaxFaults /\ \E n \in 0..Len(buf) : Publish(n)
      BY <1>7, MaxFaultsIsNat DEF PutCutShort, Fault, IInv, Typed
    <2> QED
      BY <1>5, <2>1
  <1>8. CASE PutFails
    <2>1. Typed'
      BY <1>8, MaxFaultsIsNat DEF PutFails, Fault, IInv, Typed, PCs, files, history
    <2> QED
      BY <1>8, <2>1, QuietKeeps DEF PutFails
  <1>9. CASE Truncate
    <2>1. fd' \in BOOLEAN /\ orphan' \in BOOLEAN
      BY <1>9, Zenon DEF Truncate
    <2>2. wal' \in Seq(Fragments)
      BY <1>9 DEF Truncate
    <2>3. Typed'
      BY <1>9, <2>1, <2>2 DEF Truncate, IInv, Typed, PCs
    <2> QED
      BY <1>9, <2>3, QuietKeeps DEF Truncate, IInv, Collected
  <1>10. CASE TruncateFails
    <2>1. fd' \in BOOLEAN
      BY <1>10, Zenon DEF TruncateFails
    <2>2. Typed'
      BY <1>10, <2>1, MaxFaultsIsNat DEF TruncateFails, Fault, IInv, Typed, PCs, files, history
    <2> QED
      BY <1>10, <2>2, QuietKeeps DEF TruncateFails, IInv, Collected
  <1> QED
    BY <1>1, <1>2, <1>3, <1>4, <1>6, <1>7, <1>8, <1>9, <1>10

\* The end of the process, between two calls or within one.
LEMMA EndKeeps ==
  ASSUME IInv, Close \/ Kill
  PROVE  IInv'
  <1>1. CASE Close
    BY <1>1, GoneKeeps DEF Close, IInv, Typed, files, history
  <1>2. CASE Kill
    <2>1. promised' \in Views
      BY <1>2, PromiseType DEF Kill, IInv, Typed
    <2>2. faults' \in 0..MaxFaults
      BY <1>2, MaxFaultsIsNat DEF Kill, Fault, IInv, Typed
    <2> QED
      BY <1>2, <2>1, <2>2, GoneKeeps DEF Kill, IInv, Typed, files
  <1> QED
    BY <1>1, <1>2

-----------------------------------------------------------------------------

\* No step of the engine, whatever fails and wherever it is killed, breaks the
\* inductive invariant.
THEOREM Inductive ==
  IInv /\ [Next]_vars => IInv'
  <1> SUFFICES ASSUME IInv, [Next]_vars
               PROVE  IInv'
    OBVIOUS
  <1>1. CASE Open \/ LoadRecord \/ LoadDone \/ ReplayLog \/ ReplayDone \/ Refuse
    BY <1>1, RecoveryKeeps
  <1>2. CASE Mutate
    BY <1>2, MutateKeeps
  <1>3. CASE WritePayload \/ Fsync \/ Apply \/ WriteFails \/ FsyncFails
    BY <1>3, MutationKeeps
  <1>4. CASE ScanSlot
    BY <1>4, ScanSlotKeeps
  <1>5. CASE Rebuild
    BY <1>5, RebuildKeeps
  <1>6. CASE \/ Snapshot \/ Compact \/ CopyDone \/ RebuildDone \/ EncodeDone
             \/ Put \/ PutCutShort \/ PutFails \/ Truncate \/ TruncateFails
    BY <1>6, SnapshotKeeps
  <1>7. CASE Close \/ Kill
    BY <1>7, EndKeeps
  <1>8. CASE UNCHANGED vars
    BY <1>8 DEF vars, memory, files, history, IInv, Typed, StoreConsistent,
       IndexMirrorsStore, InFlight, Collected
  <1> QED
    BY <1>1, <1>2, <1>3, <1>4, <1>5, <1>6, <1>7, <1>8 DEF Next, Step, Faulty

\* The inductive invariant holds in every reachable state of the engine.
THEOREM InvariantHolds ==
  Spec => []IInv
  <1> QED
    BY InitKeeps, Inductive, PTL DEF Spec

\* Every loop of recovery, compact() and snapshot() stays within what it walks.
LEMMA BoundsKept ==
  IInv /\ InBounds /\ [Next]_vars => InBounds'
  <1> SUFFICES ASSUME IInv, InBounds, [Next]_vars
               PROVE  InBounds'
    OBVIOUS
  <1> USE DEF InBounds
  <1>0. /\ pos \in Nat \ {0}
        /\ Len(blob) \in Nat
        /\ Len(wal) \in Nat
        /\ Len(buf) \in Nat
        /\ slot_count(store) \in Nat
    BY DEF IInv, Typed, Stores, slot_count
  <1>1. ASSUME NEW b, ReplayRecord(b), UNCHANGED files
        PROVE  \/ pc' = "refused" /\ UNCHANGED <<pos, blob, wal>>
               \/ UNCHANGED <<pc, blob, wal>> /\ pos' = pos + 1
    BY <1>1 DEF ReplayRecord, memory, files
  <1>2. CASE LoadRecord
    BY <1>0, <1>1, <1>2 DEF LoadRecord
  <1>3. CASE ReplayLog
    BY <1>0, <1>1, <1>3 DEF ReplayLog, Readable
  <1>4. CASE Open \/ LoadDone \/ ReplayDone \/ Refuse \/ Close \/ Kill
    BY <1>0, <1>4 DEF Open, LoadDone, ReplayDone, Refuse, Close, Kill, Gone, files
  <1>5. CASE Mutate
    BY <1>0, <1>5 DEF Mutate, Insert, Update, Erase, WriteHeader
  <1>6. CASE WritePayload \/ Fsync \/ WriteFails \/ FsyncFails
    BY <1>0, <1>6 DEF WritePayload, Fsync, WriteFails, FsyncFails, memory, files
  <1>7. CASE Apply
    BY <1>0, <1>7 DEF Apply
  <1>8. CASE ScanSlot
    BY <1>0, <1>8 DEF ScanSlot
  <1>9. CASE Rebuild
    BY <1>0, <1>9 DEF Rebuild
  <1>10. CASE CopyDone \/ RebuildDone \/ EncodeDone
    BY <1>0, <1>10 DEF CopyDone, RebuildDone, EncodeDone
  <1>11. CASE Snapshot \/ Compact
    BY <1>0, <1>11 DEF Snapshot, Compact, memory
  <1>12. CASE Put \/ PutCutShort \/ PutFails \/ Truncate \/ TruncateFails
    BY <1>0, <1>12 DEF Put, PutCutShort, Publish, PutFails, Truncate, TruncateFails
  <1>13. CASE UNCHANGED vars
    BY <1>13 DEF vars, memory, files
  <1> QED
    BY <1>2, <1>3, <1>4, <1>5, <1>6, <1>7, <1>8, <1>9, <1>10, <1>11, <1>12, <1>13
       DEF Next, Step, Faulty

\* Every variable of the engine stays in its type, the live counter never
\* underflows, the log and the snapshot hold only encodings of operations, the
\* index lists only slots of the store, and no loop runs past what it walks.
THEOREM TypeCorrect ==
  Spec => []TypeOK
  <1>1. Init => InBounds
    BY DEF Init, InBounds
  <1>2. IInv /\ InBounds => TypeOK
    <2> SUFFICES ASSUME IInv, InBounds
                 PROVE  IndexTyped
      BY DEF TypeOK, IInv
    <2>1. ids = [i \in LiveSlots(store) |-> 1]
      BY DEF IInv, IndexMirrorsStore
    <2> QED
      BY <2>1 DEF IndexTyped, LiveSlots
  <1> QED
    BY <1>1, <1>2, BoundsKept, InvariantHolds, PTL DEF Spec

\* Slots, id map and live counter of the vector store agree in every reachable
\* state, during recovery and while compact() rebuilds the store included.
THEOREM StoreStaysConsistent ==
  Spec => []StoreConsistent
  <1>1. IInv => StoreConsistent
    BY DEF IInv
  <1> QED
    BY <1>1, InvariantHolds, PTL

\* The index lists every live slot exactly once and no tombstone, so a search
\* sees each entry once: apply_op's is_new test and compact()'s unconditional
\* add are both enough.
THEOREM IndexStaysInStep ==
  Spec => []IndexMirrorsStore
  <1>1. IInv => IndexMirrorsStore
    BY DEF IInv
  <1> QED
    BY <1>1, InvariantHolds, PTL
=============================================================================
