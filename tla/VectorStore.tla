---------------------------- MODULE VectorStore ----------------------------
(***************************************************************************)
(* The in-memory vector store (include/toyvdb/vector_store.hpp,            *)
(* src/vector_store.cpp): dense slots, one per external id ever inserted,  *)
(* with tombstones instead of removal.  A store is a value; every          *)
(* operation maps a store to the store after the call.                     *)
(*                                                                         *)
(* Internal ids are the positions of the slot sequences, counted from 1    *)
(* where the code counts from 0; 0 stands for "not in the map" and for a   *)
(* disengaged optional.  A vector is a member of Vecs (the configured      *)
(* dimension) or of BadVecs (any other dimension): its numbers matter to   *)
(* distance computations only.  A metadata map is a member of Metas, the   *)
(* empty map included.                                                     *)
(***************************************************************************)
EXTENDS Naturals, Sequences, FiniteSets

CONSTANTS
    ExtIds,     \* external ids
    Vecs,       \* vectors of the store's dimension
    BadVecs,    \* vectors of any other dimension
    NoVec,      \* the empty vector of a Delete
    Metas,      \* metadata maps
    EmptyMeta,  \* the empty map
    NoMeta,     \* std::nullopt: no metadata given
    NoOp,       \* no operation
    Absent      \* the view of an external id that is not live

ASSUME EmptyMetaIsMeta == EmptyMeta \in Metas
ASSUME NoVecIsNoVector == NoVec \notin Vecs \cup BadVecs
ASSUME BadVecsAreBad == Vecs \cap BadVecs = {}
ASSUME NoMetaIsNoMeta == NoMeta \notin Metas

OpTypes == {"Insert", "Update", "Delete"}

\* The mutations a caller can ask for: Insert always carries metadata, Delete
\* carries an id only.
Ops ==
    [type : {"Insert"}, ext_id : ExtIds, vec : Vecs \cup BadVecs, meta : Metas]
    \cup
    [type : {"Update"}, ext_id : ExtIds, vec : Vecs \cup BadVecs, meta : Metas \cup {NoMeta}]
    \cup
    [type : {"Delete"}, ext_id : ExtIds, vec : {NoVec}, meta : {NoMeta}]

ASSUME NoOpIsNoOp == NoOp \notin Ops

Stores ==
    [ext_ids : Seq(ExtIds), arena : Seq(Vecs), live : Seq(BOOLEAN), meta : Seq(Metas),
     ext_to_int : [ExtIds -> Nat], live_count : Nat]

EmptyStore ==
    [ext_ids |-> <<>>, arena |-> <<>>, live |-> <<>>, meta |-> <<>>,
     ext_to_int |-> [x \in ExtIds |-> 0], live_count |-> 0]

slot_count(s) == Len(s.ext_ids)

LiveSlots(s) == {i \in 1..slot_count(s) : s.live[i]}

\* FALSE is the invalid_argument exception.
validate_dim(v) == v \in Vecs

resolve(s, x) ==
    IF s.ext_to_int[x] # 0 /\ s.live[s.ext_to_int[x]] THEN s.ext_to_int[x] ELSE 0

-----------------------------------------------------------------------------
(***************************************************************************)
(* The three mutations, for a vector that passed validate_dim.             *)
(***************************************************************************)

\* Mutant: the live counter grows on every overwrite.
OverwriteCountsAlways(s, id, v, m) ==
    [s EXCEPT !.arena[id] = v, !.meta[id] = m, !.live[id] = TRUE, !.live_count = @ + 1]

\* A known external id gets its slot back, tombstoned or not.
Overwrite(s, id, v, m) ==
    [s EXCEPT !.arena[id] = v,
              !.meta[id] = m,
              !.live[id] = TRUE,
              !.live_count = IF s.live[id] THEN @ ELSE @ + 1]

AppendSlot(s, x, v, m) ==
    [ext_ids    |-> Append(s.ext_ids, x),
     arena      |-> Append(s.arena, v),
     live       |-> Append(s.live, TRUE),
     meta       |-> Append(s.meta, m),
     ext_to_int |-> [s.ext_to_int EXCEPT ![x] = slot_count(s) + 1],
     live_count |-> s.live_count + 1]

do_insert(s, x, v, m) ==
    IF s.ext_to_int[x] # 0 THEN Overwrite(s, s.ext_to_int[x], v, m)
                           ELSE AppendSlot(s, x, v, m)

do_update(s, x, v, m) ==
    LET id == resolve(s, x) IN
    IF id = 0 THEN s
    ELSE [s EXCEPT !.arena[id] = v, !.meta[id] = IF m = NoMeta THEN @ ELSE m]

\* Mutant: a tombstoned id is erased again.
do_erase_twice(s, x) ==
    LET id == s.ext_to_int[x] IN
    IF id = 0 THEN s
    ELSE [s EXCEPT !.live[id] = FALSE, !.live_count = @ - 1]

do_erase(s, x) ==
    LET id == resolve(s, x) IN
    IF id = 0 THEN s
    ELSE [s EXCEPT !.live[id] = FALSE, !.live_count = @ - 1]

\* Mutant: an update of an id that is not live throws.
ThrowsOnMissing(s, op) ==
    \/ op.type = "Insert" /\ ~validate_dim(op.vec)
    \/ op.type = "Update" /\ (resolve(s, op.ext_id) = 0 \/ ~validate_dim(op.vec))

\* apply() throws iff the vector is looked at and has the wrong dimension: an
\* update of an id that is not live returns before it looks.
Throws(s, op) ==
    \/ op.type = "Insert" /\ ~validate_dim(op.vec)
    \/ op.type = "Update" /\ resolve(s, op.ext_id) # 0 /\ ~validate_dim(op.vec)

apply(s, op) ==
    CASE op.type = "Insert" ->
            do_insert(s, op.ext_id, op.vec, IF op.meta = NoMeta THEN EmptyMeta ELSE op.meta)
      [] op.type = "Update" -> do_update(s, op.ext_id, op.vec, op.meta)
      [] op.type = "Delete" -> do_erase(s, op.ext_id)

-----------------------------------------------------------------------------
(***************************************************************************)
(* What the store promises: a map from external ids to (vector, metadata). *)
(* View forgets slots and tombstones; ApplyView is the effect of an        *)
(* operation on the map, from the documentation of insert, update, erase.  *)
(***************************************************************************)

Entries == [vec : Vecs, meta : Metas]

ASSUME AbsentIsNoEntry == Absent \notin Entries

Views == [ExtIds -> Entries \cup {Absent}]

EmptyView == [x \in ExtIds |-> Absent]

View(s) ==
    [x \in ExtIds |->
        LET id == resolve(s, x) IN
        IF id = 0 THEN Absent ELSE [vec |-> s.arena[id], meta |-> s.meta[id]]]

ApplyView(view, op) ==
    LET x == op.ext_id IN
    CASE op.type = "Insert" -> [view EXCEPT ![x] = [vec |-> op.vec, meta |-> op.meta]]
      [] op.type = "Delete" -> [view EXCEPT ![x] = Absent]
      [] op.type = "Update" ->
            IF view[x] = Absent THEN view
            ELSE [view EXCEPT ![x] =
                    [vec  |-> op.vec,
                     meta |-> IF op.meta = NoMeta THEN @.meta ELSE op.meta]]

\* The slot sequences have one length, ext_to_int and ext_ids are inverse to
\* each other, and live_count counts the live slots.
ConsistentStore(s) ==
    /\ Len(s.arena) = slot_count(s)
    /\ Len(s.live) = slot_count(s)
    /\ Len(s.meta) = slot_count(s)
    /\ \A x \in ExtIds : s.ext_to_int[x] # 0 =>
            s.ext_to_int[x] \in 1..slot_count(s) /\ s.ext_ids[s.ext_to_int[x]] = x
    /\ \A i \in 1..slot_count(s) : s.ext_to_int[s.ext_ids[i]] = i
    /\ s.live_count = Cardinality(LiveSlots(s))
=============================================================================
