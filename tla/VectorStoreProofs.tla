------------------------- MODULE VectorStoreProofs -------------------------
(***************************************************************************)
(* Proofs about the vector store for every set of ids, vectors and         *)
(* metadata maps: each mutation keeps the store consistent, changes the    *)
(* set of live slots as the index expects, and has on the view exactly the *)
(* effect of the operation on a map.                                       *)
(***************************************************************************)
EXTENDS VectorStore, FiniteSetTheorems, TLAPS

Good(s) == s \in Stores /\ ConsistentStore(s)

\* Every slot of s but one has the same contents in t.
SameBut(s, t, id) ==
    \A i \in 1..slot_count(s) : i # id =>
        t.arena[i] = s.arena[i] /\ t.meta[i] = s.meta[i] /\ t.live[i] = s.live[i]

\* The live slots are finitely many, so that live_count can count them.
LEMMA LiveSlotsFinite ==
  ASSUME NEW s \in Stores
  PROVE  IsFiniteSet(LiveSlots(s))
  <1>1. IsFiniteSet(1..slot_count(s))
    BY FS_Interval DEF slot_count, Stores
  <1>2. LiveSlots(s) \subseteq 1..slot_count(s)
    BY DEF LiveSlots
  <1> QED
    BY <1>1, <1>2, FS_Subset

\* A new store is consistent and its view is the empty map.
LEMMA EmptyStoreGood ==
  Good(EmptyStore) /\ LiveSlots(EmptyStore) = {} /\ View(EmptyStore) = EmptyView
  <1>1. EmptyStore \in Stores
    BY DEF EmptyStore, Stores
  <1>2. LiveSlots(EmptyStore) = {}
    BY DEF LiveSlots, EmptyStore, slot_count
  <1>3. EmptyStore.live_count = Cardinality(LiveSlots(EmptyStore))
    <2>1. EmptyStore.live_count = 0
      BY DEF EmptyStore
    <2> QED
      BY <1>2, <2>1, FS_EmptySet
  <1>4. /\ Len(EmptyStore.arena) = 0 /\ Len(EmptyStore.live) = 0
        /\ Len(EmptyStore.meta) = 0 /\ Len(EmptyStore.ext_ids) = 0
        /\ \A x \in ExtIds : EmptyStore.ext_to_int[x] = 0
    BY DEF EmptyStore
  <1>5. ConsistentStore(EmptyStore)
    BY <1>3, <1>4 DEF ConsistentStore, slot_count
  <1>6. View(EmptyStore) = EmptyView
    BY <1>4 DEF View, EmptyView, resolve
  <1> QED
    BY <1>1, <1>2, <1>5, <1>6 DEF Good

\* In a consistent store an id that resolves is a live slot, and a live slot is
\* what its external id resolves to.
LEMMA ResolveLive ==
  ASSUME NEW s, Good(s), NEW x \in ExtIds
  PROVE  /\ resolve(s, x) \in LiveSlots(s) \cup {0}
         /\ resolve(s, x) # 0 => s.ext_to_int[x] = resolve(s, x)
         /\ s.ext_to_int[x] \in LiveSlots(s) => resolve(s, x) = s.ext_to_int[x]
         /\ 0 \notin LiveSlots(s)
  BY DEF Good, ConsistentStore, resolve, LiveSlots, slot_count, Stores

\* Overwriting the slot of a known id: the types, and the slots that are live.
LEMMA OverwriteGood ==
  ASSUME NEW s, Good(s), NEW x \in ExtIds, s.ext_to_int[x] # 0,
         NEW v \in Vecs, NEW m \in Metas,
         NEW t, t = Overwrite(s, s.ext_to_int[x], v, m)
  PROVE  /\ Good(t)
         /\ LiveSlots(t) = LiveSlots(s) \cup {s.ext_to_int[x]}
         /\ t.ext_to_int = s.ext_to_int
         /\ t.arena[s.ext_to_int[x]] = v /\ t.meta[s.ext_to_int[x]] = m
         /\ SameBut(s, t, s.ext_to_int[x])
  <1> DEFINE id == s.ext_to_int[x]
  <1>1. /\ id \in 1..slot_count(s)
        /\ id \in 1..Len(s.arena) /\ id \in 1..Len(s.live) /\ id \in 1..Len(s.meta)
    BY DEF Good, ConsistentStore
  <1>2. /\ t.ext_ids = s.ext_ids /\ t.ext_to_int = s.ext_to_int
        /\ t.arena = [s.arena EXCEPT ![id] = v]
        /\ t.meta = [s.meta EXCEPT ![id] = m]
        /\ t.live = [s.live EXCEPT ![id] = TRUE]
        /\ t.live_count = IF s.live[id] THEN s.live_count ELSE s.live_count + 1
    BY DEF Overwrite, Good, Stores
  <1>3. t \in Stores
    <2>1. /\ t.arena \in Seq(Vecs) /\ t.meta \in Seq(Metas) /\ t.live \in Seq(BOOLEAN)
          /\ t.live_count \in Nat
      BY <1>1, <1>2 DEF Good, Stores
    <2> QED
      BY <1>2, <2>1 DEF Good, Stores, Overwrite
  <1>4. /\ slot_count(t) = slot_count(s)
        /\ Len(t.arena) = Len(s.arena) /\ Len(t.live) = Len(s.live)
        /\ Len(t.meta) = Len(s.meta)
    BY <1>1, <1>2 DEF slot_count, Good, Stores
  <1>5. LiveSlots(t) = LiveSlots(s) \cup {id}
    BY <1>1, <1>2, <1>4 DEF LiveSlots, Good, Stores
  <1>6. t.live_count = Cardinality(LiveSlots(t))
    <2>1. s.live_count = Cardinality(LiveSlots(s))
      BY DEF Good, ConsistentStore
    <2>2. CASE s.live[id]
      <3>1. LiveSlots(t) = LiveSlots(s)
        BY <1>1, <1>5, <2>2 DEF LiveSlots
      <3> QED
        BY <1>2, <2>1, <2>2, <3>1
    <2>3. CASE ~s.live[id]
      <3>1. id \notin LiveSlots(s)
        BY <2>3 DEF LiveSlots
      <3>2. Cardinality(LiveSlots(s) \cup {id}) = Cardinality(LiveSlots(s)) + 1
        BY <3>1, LiveSlotsFinite, FS_AddElement DEF Good
      <3> QED
        BY <1>2, <1>5, <2>1, <2>3, <3>2
    <2> QED
      BY <2>2, <2>3
  <1>7. ConsistentStore(t)
    BY <1>2, <1>4, <1>6 DEF ConsistentStore, Good, slot_count
  <1>8. t.arena[id] = v /\ t.meta[id] = m
    BY <1>1, <1>2 DEF Good, Stores
  <1>9. SameBut(s, t, id)
    <2> SUFFICES ASSUME NEW i \in 1..slot_count(s), i # id
                 PROVE  t.arena[i] = s.arena[i] /\ t.meta[i] = s.meta[i] /\ t.live[i] = s.live[i]
      BY DEF SameBut
    <2>1. i \in DOMAIN s.arena /\ i \in DOMAIN s.meta /\ i \in DOMAIN s.live
      BY DEF Good, Stores, ConsistentStore
    <2> HIDE DEF id
    <2> QED
      BY <1>2, <2>1
  <1> QED
    BY <1>2, <1>3, <1>5, <1>7, <1>8, <1>9 DEF Good

\* Appending to a sequence keeps what is there and puts the element last.
LEMMA AppendFacts ==
  ASSUME NEW S, NEW q \in Seq(S), NEW e \in S
  PROVE  /\ Append(q, e) \in Seq(S)
         /\ Len(Append(q, e)) = Len(q) + 1
         /\ \A i \in 1..Len(q) : Append(q, e)[i] = q[i]
         /\ Append(q, e)[Len(q) + 1] = e
  OBVIOUS

\* A slot for an id never seen: it is the next one, and it is live.
LEMMA AppendSlotGood ==
  ASSUME NEW s, Good(s), NEW x \in ExtIds, s.ext_to_int[x] = 0,
         NEW v \in Vecs, NEW m \in Metas,
         NEW t, t = AppendSlot(s, x, v, m)
  PROVE  /\ Good(t)
         /\ LiveSlots(t) = LiveSlots(s) \cup {slot_count(s) + 1}
         /\ slot_count(s) + 1 \notin LiveSlots(s)
         /\ slot_count(s) + 1 # 0
         /\ t.ext_to_int[x] = slot_count(s) + 1
         /\ \A y \in ExtIds \ {x} : t.ext_to_int[y] = s.ext_to_int[y]
         /\ t.arena[slot_count(s) + 1] = v /\ t.meta[slot_count(s) + 1] = m
         /\ SameBut(s, t, slot_count(s) + 1)
  <1> DEFINE n == slot_count(s)
  <1>0. n \in Nat
    BY DEF Good, Stores, slot_count
  <1>1. /\ t.ext_ids = Append(s.ext_ids, x)
        /\ t.arena = Append(s.arena, v)
        /\ t.meta = Append(s.meta, m)
        /\ t.live = Append(s.live, TRUE)
        /\ t.ext_to_int = [s.ext_to_int EXCEPT ![x] = n + 1]
        /\ t.live_count = s.live_count + 1
    BY DEF AppendSlot
  <1>2. t \in Stores /\ slot_count(t) = n + 1
    <2>1. /\ t.ext_ids \in Seq(ExtIds) /\ t.arena \in Seq(Vecs) /\ t.meta \in Seq(Metas)
          /\ t.live \in Seq(BOOLEAN) /\ t.live_count \in Nat
          /\ Len(t.ext_ids) = n + 1
      BY <1>1 DEF Good, Stores, slot_count
    <2>2. t.ext_to_int \in [ExtIds -> Nat]
      BY <1>0, <1>1 DEF Good, Stores
    <2> QED
      BY <2>1, <2>2 DEF AppendSlot, Stores, slot_count
  <1>3. /\ \A i \in 1..n : t.ext_ids[i] = s.ext_ids[i] /\ t.live[i] = s.live[i]
        /\ t.ext_ids[n + 1] = x
        /\ t.live[n + 1] = TRUE
    <2>1. /\ s.ext_ids \in Seq(ExtIds) /\ s.live \in Seq(BOOLEAN)
          /\ Len(s.ext_ids) = n /\ Len(s.live) = n
      BY DEF Good, Stores, ConsistentStore, slot_count
    <2>2. (\A i \in 1..n : t.ext_ids[i] = s.ext_ids[i]) /\ t.ext_ids[n + 1] = x
      BY <1>1, <2>1, AppendFacts
    <2>3. TRUE \in BOOLEAN
      OBVIOUS
    <2>4. (\A i \in 1..n : t.live[i] = s.live[i]) /\ t.live[n + 1] = TRUE
      <3>1. /\ \A i \in 1..Len(s.live) : Append(s.live, TRUE)[i] = s.live[i]
            /\ Append(s.live, TRUE)[Len(s.live) + 1] = TRUE
        <4>1. ASSUME NEW e \in BOOLEAN
              PROVE  /\ \A i \in 1..Len(s.live) : Append(s.live, e)[i] = s.live[i]
                     /\ Append(s.live, e)[Len(s.live) + 1] = e
          BY <2>1, AppendFacts
        <4> QED
          BY <2>3, <4>1, Zenon
      <3>2. Len(s.live) = n /\ t.live = Append(s.live, TRUE)
        BY <1>1, <2>1
      <3> HIDE DEF n
      <3> QED
        BY <3>1, <3>2, Zenon
    <2> QED
      BY <2>2, <2>4
  <1>4. /\ LiveSlots(t) = LiveSlots(s) \cup {n + 1}
        /\ n + 1 \notin LiveSlots(s)
    BY <1>0, <1>2, <1>3 DEF LiveSlots
  <1>5. t.live_count = Cardinality(LiveSlots(t))
    <2>1. s.live_count = Cardinality(LiveSlots(s))
      BY DEF Good, ConsistentStore
    <2>2. Cardinality(LiveSlots(s) \cup {n + 1}) = Cardinality(LiveSlots(s)) + 1
      BY <1>4, LiveSlotsFinite, FS_AddElement DEF Good
    <2> QED
      BY <1>1, <1>4, <2>1, <2>2
  <1>6. \A i \in 1..n : s.ext_ids[i] # x
    BY DEF Good, ConsistentStore
  <1>7. t.ext_to_int[x] = n + 1
    BY <1>1 DEF Good, Stores
  <1>8. \A i \in 1..(n + 1) : t.ext_to_int[t.ext_ids[i]] = i
    <2> TAKE i \in 1..(n + 1)
    <2>1. CASE i = n + 1
      BY <1>3, <1>7, <2>1
    <2>2. CASE i \in 1..n
      <3>1. s.ext_ids[i] \in ExtIds
        BY <2>2 DEF Good, Stores, slot_count
      <3>2. t.ext_ids[i] = s.ext_ids[i] /\ s.ext_ids[i] # x
        BY <1>3, <1>6, <2>2
      <3>3. t.ext_to_int[s.ext_ids[i]] = s.ext_to_int[s.ext_ids[i]]
        BY <1>1, <3>1, <3>2 DEF Good, Stores
      <3>4. s.ext_to_int[s.ext_ids[i]] = i
        BY <2>2 DEF Good, ConsistentStore
      <3> QED
        BY <3>2, <3>3, <3>4
    <2>3. i = n + 1 \/ i \in 1..n
      BY <1>0
    <2> QED
      BY <2>1, <2>2, <2>3
  <1>9. \A y \in ExtIds : t.ext_to_int[y] # 0 =>
            t.ext_to_int[y] \in 1..(n + 1) /\ t.ext_ids[t.ext_to_int[y]] = y
    <2> TAKE y \in ExtIds
    <2>1. CASE y = x
      BY <1>0, <1>3, <1>7, <2>1
    <2>2. CASE y # x
      <3>1. t.ext_to_int[y] = s.ext_to_int[y]
        BY <1>1, <2>2 DEF Good, Stores
      <3> QED
        BY <1>0, <1>3, <3>1 DEF Good, ConsistentStore
    <2> QED
      BY <2>1, <2>2
  <1>10. Len(t.arena) = n + 1 /\ Len(t.live) = n + 1 /\ Len(t.meta) = n + 1
    BY <1>1 DEF Good, Stores, ConsistentStore
  <1>11. ConsistentStore(t)
    BY <1>2, <1>5, <1>8, <1>9, <1>10 DEF ConsistentStore
  <1>12. \A y \in ExtIds \ {x} : t.ext_to_int[y] = s.ext_to_int[y]
    BY <1>1 DEF Good, Stores
  <1>13. /\ t.arena[n + 1] = v /\ t.meta[n + 1] = m
         /\ \A i \in 1..n : t.arena[i] = s.arena[i] /\ t.meta[i] = s.meta[i]
    <2>1. s.arena \in Seq(Vecs) /\ s.meta \in Seq(Metas) /\ Len(s.arena) = n /\ Len(s.meta) = n
      BY DEF Good, Stores, ConsistentStore
    <2> QED
      BY <1>1, <2>1, AppendFacts
  <1>14. SameBut(s, t, n + 1)
    BY <1>3, <1>13 DEF SameBut
  <1> QED
    BY <1>0, <1>2, <1>4, <1>7, <1>11, <1>12, <1>13, <1>14 DEF Good

\* A tombstone: one live slot fewer, and the counter stays a natural number.
LEMMA EraseGood ==
  ASSUME NEW s, Good(s), NEW x \in ExtIds, resolve(s, x) # 0,
         NEW t, t = do_erase(s, x)
  PROVE  Good(t) /\ LiveSlots(t) = LiveSlots(s) \ {resolve(s, x)}
  <1> DEFINE id == resolve(s, x)
  <1>1. id \in LiveSlots(s) /\ id \in 1..slot_count(s) /\ id \in 1..Len(s.live)
    BY ResolveLive DEF LiveSlots, Good, ConsistentStore
  <1>2. /\ t.ext_ids = s.ext_ids /\ t.ext_to_int = s.ext_to_int
        /\ t.arena = s.arena /\ t.meta = s.meta
        /\ t.live = [s.live EXCEPT ![id] = FALSE]
        /\ t.live_count = s.live_count - 1
    BY DEF do_erase, Good, Stores
  <1>3. s.live_count = Cardinality(LiveSlots(s))
    BY DEF Good, ConsistentStore
  <1>4. /\ Cardinality(LiveSlots(s) \ {id}) = Cardinality(LiveSlots(s)) - 1
        /\ Cardinality(LiveSlots(s) \ {id}) \in Nat
    BY <1>1, LiveSlotsFinite, FS_RemoveElement, FS_CardinalityType DEF Good
  <1>5. t \in Stores
    <2>1. t.live \in Seq(BOOLEAN) /\ t.live_count \in Nat
      BY <1>1, <1>2, <1>3, <1>4 DEF Good, Stores
    <2> QED
      BY <1>2, <2>1 DEF Good, Stores, do_erase
  <1>6. slot_count(t) = slot_count(s) /\ Len(t.live) = Len(s.live)
    BY <1>1, <1>2 DEF slot_count, Good, Stores
  <1>7. LiveSlots(t) = LiveSlots(s) \ {id}
    BY <1>1, <1>2, <1>6 DEF LiveSlots, Good, Stores
  <1>8. t.live_count = Cardinality(LiveSlots(t))
    BY <1>2, <1>3, <1>4, <1>7
  <1>9. ConsistentStore(t)
    BY <1>2, <1>6, <1>8 DEF ConsistentStore, Good, slot_count
  <1> QED
    BY <1>5, <1>7, <1>9 DEF Good

\* An update leaves every slot as live as it was.
LEMMA UpdateGood ==
  ASSUME NEW s, Good(s), NEW x \in ExtIds, resolve(s, x) # 0,
         NEW v \in Vecs, NEW m \in Metas \cup {NoMeta},
         NEW t, t = do_update(s, x, v, m)
  PROVE  Good(t) /\ LiveSlots(t) = LiveSlots(s)
  <1> DEFINE id == resolve(s, x)
  <1>1. id \in 1..slot_count(s) /\ id \in 1..Len(s.arena) /\ id \in 1..Len(s.meta)
    BY ResolveLive DEF LiveSlots, Good, ConsistentStore
  <1>2. /\ t.ext_ids = s.ext_ids /\ t.ext_to_int = s.ext_to_int
        /\ t.live = s.live /\ t.live_count = s.live_count
        /\ t.arena = [s.arena EXCEPT ![id] = v]
        /\ t.meta = [s.meta EXCEPT ![id] = IF m = NoMeta THEN s.meta[id] ELSE m]
    BY DEF do_update, Good, Stores
  <1>3. s.meta[id] \in Metas
    BY <1>1 DEF Good, Stores
  <1>4. t \in Stores
    <2>1. t.arena \in Seq(Vecs) /\ t.meta \in Seq(Metas)
      BY <1>1, <1>2, <1>3 DEF Good, Stores
    <2> QED
      BY <1>2, <2>1 DEF Good, Stores, do_update
  <1>5. slot_count(t) = slot_count(s) /\ Len(t.arena) = Len(s.arena) /\ Len(t.meta) = Len(s.meta)
    BY <1>1, <1>2 DEF slot_count, Good, Stores
  <1>6. LiveSlots(t) = LiveSlots(s)
    BY <1>2, <1>5 DEF LiveSlots
  <1>7. ConsistentStore(t)
    BY <1>2, <1>5, <1>6 DEF ConsistentStore, Good, slot_count
  <1> QED
    BY <1>4, <1>6, <1>7 DEF Good

-----------------------------------------------------------------------------
(***************************************************************************)
(* The effect of a mutation on the view.                                   *)
(***************************************************************************)

\* Two slots of a consistent store belong to different ids.
LEMMA SlotsDiffer ==
  ASSUME NEW s, Good(s), NEW x \in ExtIds, NEW y \in ExtIds, x # y,
         s.ext_to_int[y] # 0
  PROVE  s.ext_to_int[x] # s.ext_to_int[y] /\ s.ext_to_int[y] \in 1..slot_count(s)
  BY DEF Good, ConsistentStore

\* Slots that keep their contents keep their part of the view.
LEMMA ViewFrame ==
  ASSUME NEW s, NEW t, NEW y \in ExtIds,
         t.ext_to_int[y] = s.ext_to_int[y],
         s.ext_to_int[y] # 0 =>
            /\ t.live[s.ext_to_int[y]] = s.live[s.ext_to_int[y]]
            /\ t.arena[s.ext_to_int[y]] = s.arena[s.ext_to_int[y]]
            /\ t.meta[s.ext_to_int[y]] = s.meta[s.ext_to_int[y]]
  PROVE  View(t)[y] = View(s)[y] /\ resolve(t, y) = resolve(s, y)
  <1>1. resolve(t, y) = resolve(s, y)
    BY DEF resolve
  <1>2. resolve(s, y) # 0 => resolve(s, y) = s.ext_to_int[y] /\ s.ext_to_int[y] # 0
    BY DEF resolve
  <1> QED
    BY <1>1, <1>2 DEF View

\* The view of a consistent store is a map to entries.
LEMMA ViewType ==
  ASSUME NEW s, Good(s)
  PROVE  View(s) \in Views
  <1> SUFFICES ASSUME NEW x \in ExtIds, resolve(s, x) # 0
               PROVE  s.arena[resolve(s, x)] \in Vecs /\ s.meta[resolve(s, x)] \in Metas
    BY DEF View, Views, Entries
  <1>1. resolve(s, x) \in 1..Len(s.arena) /\ resolve(s, x) \in 1..Len(s.meta)
    BY ResolveLive DEF LiveSlots, Good, ConsistentStore
  <1> QED
    BY <1>1 DEF Good, Stores

\* do_insert sets one entry, whether it revives a slot or appends one.
LEMMA InsertView ==
  ASSUME NEW s, Good(s), NEW x \in ExtIds, NEW v \in Vecs, NEW m \in Metas,
         NEW t, t = do_insert(s, x, v, m)
  PROVE  /\ View(t) = [View(s) EXCEPT ![x] = [vec |-> v, meta |-> m]]
         /\ resolve(t, x) # 0
         /\ LiveSlots(t) = LiveSlots(s) \cup {resolve(t, x)}
         /\ resolve(s, x) = 0 => resolve(t, x) \notin LiveSlots(s)
         /\ Good(t)
         /\ \A y \in ExtIds \ {x} : t.ext_to_int[y] = s.ext_to_int[y]
  <1> DEFINE id == IF s.ext_to_int[x] # 0 THEN s.ext_to_int[x] ELSE slot_count(s) + 1
  <1>1. /\ Good(t) /\ LiveSlots(t) = LiveSlots(s) \cup {id}
        /\ t.ext_to_int[x] = id /\ id # 0
        /\ \A y \in ExtIds \ {x} : t.ext_to_int[y] = s.ext_to_int[y]
        /\ t.arena[id] = v /\ t.meta[id] = m
        /\ SameBut(s, t, id)
        /\ resolve(s, x) = 0 => id \notin LiveSlots(s)
    <2>1. CASE s.ext_to_int[x] # 0
      <3>1. t = Overwrite(s, s.ext_to_int[x], v, m)
        BY <2>1 DEF do_insert
      <3> QED
        BY <2>1, <3>1, OverwriteGood, ResolveLive
    <2>2. CASE s.ext_to_int[x] = 0
      <3>1. t = AppendSlot(s, x, v, m)
        BY <2>2 DEF do_insert
      <3> QED
        BY <2>2, <3>1, AppendSlotGood
    <2> QED
      BY <2>1, <2>2
  <1> HIDE DEF id
  <1>2. resolve(t, x) = id
    BY <1>1, ResolveLive
  <1>3. View(t)[x] = [vec |-> v, meta |-> m]
    BY <1>1, <1>2 DEF View
  <1>4. ASSUME NEW y \in ExtIds, y # x
        PROVE  View(t)[y] = View(s)[y]
    <2>1. t.ext_to_int[y] = s.ext_to_int[y]
      BY <1>1, <1>4
    <2>2. s.ext_to_int[y] # 0 => s.ext_to_int[y] # id /\ s.ext_to_int[y] \in 1..slot_count(s)
      <3>1. s.ext_to_int[y] # 0 => t.ext_to_int[x] # t.ext_to_int[y]
        BY <1>1, <1>4, <2>1, SlotsDiffer
      <3> QED
        BY <1>1, <1>4, <2>1, <3>1, SlotsDiffer
    <2> QED
      BY <1>1, <2>1, <2>2, ViewFrame DEF SameBut
  <1>5. View(t) = [View(s) EXCEPT ![x] = [vec |-> v, meta |-> m]]
    BY <1>3, <1>4 DEF View
  <1> QED
    BY <1>1, <1>2, <1>5

\* An id is absent from the view iff it does not resolve.
LEMMA ViewAbsent ==
  ASSUME NEW s, Good(s), NEW x \in ExtIds
  PROVE  View(s)[x] = Absent <=> resolve(s, x) = 0
  <1>1. CASE resolve(s, x) = 0
    BY <1>1 DEF View
  <1>2. CASE resolve(s, x) # 0
    <2>1. resolve(s, x) \in 1..Len(s.arena) /\ resolve(s, x) \in 1..Len(s.meta)
      BY <1>2, ResolveLive DEF LiveSlots, Good, ConsistentStore
    <2>2. [vec |-> s.arena[resolve(s, x)], meta |-> s.meta[resolve(s, x)]] \in Entries
      BY <2>1 DEF Good, Stores, Entries
    <2>3. View(s)[x] = [vec |-> s.arena[resolve(s, x)], meta |-> s.meta[resolve(s, x)]]
      BY <1>2 DEF View
    <2> QED
      BY <1>2, <2>2, <2>3, AbsentIsNoEntry, Zenon
  <1> QED
    BY <1>1, <1>2

\* do_erase takes one entry out; of an id that is not live it does nothing.
LEMMA EraseView ==
  ASSUME NEW s, Good(s), NEW x \in ExtIds, NEW t, t = do_erase(s, x)
  PROVE  View(t) = [View(s) EXCEPT ![x] = Absent]
  <1>1. CASE resolve(s, x) = 0
    BY <1>1 DEF do_erase, View
  <1>2. CASE resolve(s, x) # 0
    <2> DEFINE id == resolve(s, x)
    <2>1. id = s.ext_to_int[x] /\ id \in 1..Len(s.live)
      BY <1>2, ResolveLive DEF LiveSlots, Good, ConsistentStore
    <2>2. /\ t.ext_to_int = s.ext_to_int /\ t.arena = s.arena /\ t.meta = s.meta
          /\ t.live = [s.live EXCEPT ![id] = FALSE]
      BY <1>2 DEF do_erase, Good, Stores
    <2>3. resolve(t, x) = 0
      BY <2>1, <2>2 DEF resolve, Good, Stores
    <2>4. View(t)[x] = Absent
      BY <2>3 DEF View
    <2>5. ASSUME NEW y \in ExtIds, y # x
          PROVE  View(t)[y] = View(s)[y]
      <3>1. s.ext_to_int[y] # 0 => s.ext_to_int[y] # id
        BY <2>1, <2>5, SlotsDiffer
      <3>2. s.ext_to_int[y] # 0 => s.ext_to_int[y] \in DOMAIN s.live
        BY DEF Good, Stores, ConsistentStore
      <3> HIDE DEF id
      <3>3. s.ext_to_int[y] # 0 =>
              /\ t.live[s.ext_to_int[y]] = s.live[s.ext_to_int[y]]
              /\ t.arena[s.ext_to_int[y]] = s.arena[s.ext_to_int[y]]
              /\ t.meta[s.ext_to_int[y]] = s.meta[s.ext_to_int[y]]
        BY <2>2, <3>1, <3>2
      <3>4. t.ext_to_int[y] = s.ext_to_int[y]
        BY <2>2
      <3> QED
        BY <3>3, <3>4, ViewFrame
    <2> QED
      BY <2>4, <2>5 DEF View
  <1> QED
    BY <1>1, <1>2

\* do_update changes the vector and, if it carries one, the metadata.
LEMMA UpdateView ==
  ASSUME NEW s, Good(s), NEW x \in ExtIds, resolve(s, x) # 0,
         NEW v \in Vecs, NEW m \in Metas \cup {NoMeta},
         NEW t, t = do_update(s, x, v, m)
  PROVE  View(t) = [View(s) EXCEPT ![x] =
                        [vec |-> v, meta |-> IF m = NoMeta THEN @.meta ELSE m]]
  <1> DEFINE id == resolve(s, x)
  <1>0. id = s.ext_to_int[x] /\ id \in 1..Len(s.arena) /\ id \in 1..Len(s.meta)
    BY ResolveLive DEF LiveSlots, Good, ConsistentStore
  <1>1. id = s.ext_to_int[x] /\ id \in DOMAIN s.arena /\ id \in DOMAIN s.meta
    BY <1>0 DEF Good, Stores
  <1>2. /\ t.ext_to_int = s.ext_to_int /\ t.live = s.live
        /\ t.arena = [s.arena EXCEPT ![id] = v]
        /\ t.meta = [s.meta EXCEPT ![id] = IF m = NoMeta THEN s.meta[id] ELSE m]
    BY DEF do_update, Good, Stores
  <1>3. resolve(t, x) = id
    BY <1>2 DEF resolve
  <1>4. View(s)[x].meta = s.meta[id]
    BY DEF View
  <1>5. View(t)[x] = [vec |-> t.arena[id], meta |-> t.meta[id]]
    BY <1>3 DEF View
  <1>6. t.arena[id] = v /\ t.meta[id] = IF m = NoMeta THEN s.meta[id] ELSE m
    <2> HIDE DEF id
    <2> QED
      BY <1>1, <1>2
  <1>7. ASSUME NEW y \in ExtIds, y # x
        PROVE  View(t)[y] = View(s)[y]
    <2>1. s.ext_to_int[y] # 0 => s.ext_to_int[y] # id
      BY <1>1, <1>7, SlotsDiffer
    <2>2. s.ext_to_int[y] # 0 =>
            s.ext_to_int[y] \in DOMAIN s.arena /\ s.ext_to_int[y] \in DOMAIN s.meta
      BY DEF Good, Stores, ConsistentStore
    <2> HIDE DEF id
    <2>3. s.ext_to_int[y] # 0 =>
            /\ t.live[s.ext_to_int[y]] = s.live[s.ext_to_int[y]]
            /\ t.arena[s.ext_to_int[y]] = s.arena[s.ext_to_int[y]]
            /\ t.meta[s.ext_to_int[y]] = s.meta[s.ext_to_int[y]]
      BY <1>2, <2>1, <2>2
    <2>4. t.ext_to_int[y] = s.ext_to_int[y]
      BY <1>2
    <2> QED
      BY <2>3, <2>4, ViewFrame
  <1>8. View(t)[x] = [vec |-> v, meta |-> IF m = NoMeta THEN View(s)[x].meta ELSE m]
    BY <1>4, <1>5, <1>6, Zenon
  <1> QED
    BY <1>7, <1>8 DEF View

\* What apply() does to the slots the index must know, for an operation it
\* does not reject.
LEMMA ApplySlots ==
  ASSUME NEW s, Good(s), NEW o \in Ops, ~Throws(s, o)
  PROVE  /\ Good(apply(s, o))
         /\ o.type = "Insert" /\ resolve(s, o.ext_id) = 0 =>
              /\ resolve(apply(s, o), o.ext_id) \notin LiveSlots(s)
              /\ LiveSlots(apply(s, o)) = LiveSlots(s) \cup {resolve(apply(s, o), o.ext_id)}
         /\ o.type = "Delete" /\ resolve(s, o.ext_id) # 0 =>
              LiveSlots(apply(s, o)) = LiveSlots(s) \ {resolve(s, o.ext_id)}
         /\ o.type = "Insert" /\ resolve(s, o.ext_id) # 0 => LiveSlots(apply(s, o)) = LiveSlots(s)
         /\ o.type = "Delete" /\ resolve(s, o.ext_id) = 0 => LiveSlots(apply(s, o)) = LiveSlots(s)
         /\ o.type = "Update" => LiveSlots(apply(s, o)) = LiveSlots(s)
  <1> DEFINE x == o.ext_id
             t == apply(s, o)
  <1>1. o.type \in OpTypes /\ x \in ExtIds
    BY DEF Ops, OpTypes
  <1>2. CASE o.type = "Insert"
    <2>1. o.vec \in Vecs /\ o.meta \in Metas
      BY <1>2 DEF Throws, validate_dim, Ops
    <2>2. t = do_insert(s, x, o.vec, o.meta)
      BY <1>2, <2>1, NoMetaIsNoMeta DEF apply
    <2>3. /\ Good(t) /\ LiveSlots(t) = LiveSlots(s) \cup {resolve(t, x)}
          /\ resolve(s, x) = 0 => resolve(t, x) \notin LiveSlots(s)
      BY <1>1, <2>1, <2>2, InsertView
    <2>4. resolve(s, x) # 0 => resolve(t, x) \in LiveSlots(s)
      <3>1. resolve(s, x) # 0 => resolve(s, x) = s.ext_to_int[x] /\ s.ext_to_int[x] \in LiveSlots(s)
        BY <1>1, ResolveLive
      <3>2. s.ext_to_int[x] # 0 => t = Overwrite(s, s.ext_to_int[x], o.vec, o.meta)
        BY <2>2 DEF do_insert
      <3> HIDE DEF t
      <3>3. s.ext_to_int[x] # 0 => t.ext_to_int = s.ext_to_int /\ s.ext_to_int[x] \in LiveSlots(t)
        <4> SUFFICES ASSUME s.ext_to_int[x] # 0
                     PROVE  t.ext_to_int = s.ext_to_int /\ s.ext_to_int[x] \in LiveSlots(t)
          OBVIOUS
        <4> HIDE DEF x
        <4>1. LiveSlots(t) = LiveSlots(s) \cup {s.ext_to_int[x]} /\ t.ext_to_int = s.ext_to_int
          BY <1>1, <2>1, <3>2, OverwriteGood
        <4> QED
          BY <4>1
      <3> QED
        BY <1>1, <2>3, <3>1, <3>3, ResolveLive
    <2> QED
      BY <1>2, <2>3, <2>4
  <1>3. CASE o.type = "Delete"
    <2>1. t = do_erase(s, x)
      BY <1>3 DEF apply
    <2>2. resolve(s, x) = 0 => t = s
      BY <2>1 DEF do_erase
    <2> HIDE DEF t
    <2>3. resolve(s, x) # 0 => Good(t) /\ LiveSlots(t) = LiveSlots(s) \ {resolve(s, x)}
      BY <1>1, <2>1, EraseGood
    <2> QED
      BY <1>3, <2>2, <2>3 DEF t
  <1>4. CASE o.type = "Update"
    <2>1. t = do_update(s, x, o.vec, o.meta)
      BY <1>4 DEF apply
    <2>2. resolve(s, x) = 0 => t = s
      BY <2>1 DEF do_update
    <2>3. resolve(s, x) # 0 => o.vec \in Vecs /\ o.meta \in Metas \cup {NoMeta}
      BY <1>4 DEF Throws, validate_dim, Ops
    <2> HIDE DEF t
    <2>4. resolve(s, x) # 0 => Good(t) /\ LiveSlots(t) = LiveSlots(s)
      BY <1>1, <2>1, <2>3, UpdateGood
    <2> QED
      BY <1>4, <2>2, <2>4 DEF t
  <1> QED
    BY <1>1, <1>2, <1>3, <1>4 DEF OpTypes

\* The slots, tombstones and revived ids of the vector store are invisible: each
\* operation that apply() accepts has on the contents exactly the effect the
\* documentation gives it on a map, and leaves the store consistent
\* (VectorStore::apply).
THEOREM StoreImplementsMap ==
  ASSUME NEW s, Good(s), NEW o \in Ops, ~Throws(s, o)
  PROVE  Good(apply(s, o)) /\ View(apply(s, o)) = ApplyView(View(s), o)
  <1> DEFINE x == o.ext_id
             t == apply(s, o)
  <1>1. o.type \in OpTypes /\ x \in ExtIds /\ Good(t)
    BY ApplySlots DEF Ops, OpTypes
  <1>2. CASE o.type = "Insert"
    <2>1. o.vec \in Vecs /\ o.meta \in Metas
      BY <1>2 DEF Throws, validate_dim, Ops
    <2>2. t = do_insert(s, x, o.vec, o.meta)
      BY <1>2, <2>1, NoMetaIsNoMeta DEF apply
    <2>3. View(t) = [View(s) EXCEPT ![x] = [vec |-> o.vec, meta |-> o.meta]]
      BY <1>1, <2>1, <2>2, InsertView
    <2> HIDE DEF t
    <2>4. View(t) = ApplyView(View(s), o)
      BY <1>2, <2>3 DEF ApplyView
    <2> QED
      BY <1>1, <2>4 DEF t
  <1>3. CASE o.type = "Delete"
    <2>1. t = do_erase(s, x)
      BY <1>3 DEF apply
    <2> HIDE DEF t
    <2>2. View(t) = [View(s) EXCEPT ![x] = Absent]
      BY <1>1, <2>1, EraseView
    <2>3. View(t) = ApplyView(View(s), o)
      BY <1>3, <2>2 DEF ApplyView
    <2> QED
      BY <1>1, <2>3 DEF t
  <1>4. CASE o.type = "Update"
    <2>1. t = do_update(s, x, o.vec, o.meta)
      BY <1>4 DEF apply
    <2>2. resolve(s, x) = 0 => t = s
      BY <2>1 DEF do_update
    <2>3. resolve(s, x) # 0 => o.vec \in Vecs /\ o.meta \in Metas \cup {NoMeta}
      BY <1>4 DEF Throws, validate_dim, Ops
    <2> HIDE DEF t
    <2>4. resolve(s, x) # 0 =>
            View(t) = [View(s) EXCEPT ![x] =
                         [vec |-> o.vec, meta |-> IF o.meta = NoMeta THEN @.meta ELSE o.meta]]
      BY <1>1, <2>1, <2>3, UpdateView
    <2>5. View(s)[x] = Absent <=> resolve(s, x) = 0
      BY <1>1, ViewAbsent
    <2>6. View(t) = ApplyView(View(s), o)
      BY <1>4, <2>2, <2>4, <2>5 DEF ApplyView
    <2> QED
      BY <1>1, <2>6 DEF t
  <1> QED
    BY <1>1, <1>2, <1>3, <1>4 DEF OpTypes
=============================================================================
