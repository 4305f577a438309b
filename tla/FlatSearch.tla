----------------------------- MODULE FlatSearch -----------------------------
(***************************************************************************)
(* Exact search of one query: the allowed set that Engine::search and      *)
(* Engine::search_batch build from a filter (src/engine.cpp), the bitset   *)
(* that holds it (include/toyvdb/bitset.hpp) and the bounded max-heap scan *)
(* of the flat index (include/toyvdb/flat_index.hpp).                      *)
(*                                                                         *)
(* What a search reads is s = [slots, ids]: slots is a function on         *)
(* 0..slot_count-1 to [vec, live, meta], ids the flat index's scan list.   *)
(* Vectors are points of a line.  Which of several equally distant entries *)
(* a heap pops is left to the library, so search is a set of results.      *)
(***************************************************************************)
EXTENDS Filters, Sequences, FiniteSets

CONSTANT WordBits   \* bits of a word of the bitset: 64 in the code

slot_count(s) == Cardinality(DOMAIN s.slots)
distance(x, y) == Magnitude(x - y)

(***************************************************************************)
(* Bitset.  A word is the set of its one bits.                             *)
(***************************************************************************)
bitset_resize(n) ==
    [size |-> n, words |-> [w \in 0..(((n + WordBits - 1) \div WordBits) - 1) |-> {}]]

bitset_set(b, i) == [b EXCEPT !.words[i \div WordBits] = @ \cup {i % WordBits}]

\* A plausible slip: the bit's place in its word not reduced to the word.
bitset_test_unmasked(b, i) == i < b.size /\ i \in b.words[i \div WordBits]

bitset_test(b, i) == i < b.size /\ i % WordBits \in b.words[i \div WordBits]

\* The loop over the slots: live, with metadata, and matched by the filter.
\* The result is SearchParams::allowed, absent ({}) without a filter.
build_allowed(s, filter) ==
    LET keep(f) == {id \in DOMAIN s.slots : s.slots[id].live /\ matches(f, s.slots[id].meta)}
    IN  {FoldSet(LAMBDA id, b : bitset_set(b, id), bitset_resize(slot_count(s)), keep(f)) :
            f \in filter}

(***************************************************************************)
(* FlatIndex::search                                                       *)
(***************************************************************************)
worst(heap) == Max({h.score : h \in heap})

\* A plausible slip: the first k candidates kept, whatever their distance.
push_bounded_first(heap, k, c) == IF Cardinality(heap) < k THEN {heap \cup {c}} ELSE {heap}

\* The heaps a candidate may leave behind: it is pushed while there is room,
\* and else replaces a worst entry, but only if it is strictly closer.
push_bounded(heap, k, c) ==
    IF Cardinality(heap) < k THEN {heap \cup {c}}
    ELSE IF c.score < worst(heap)
         THEN {(heap \ {h}) \cup {c} : h \in {h \in heap : h.score = worst(heap)}}
         ELSE {heap}

scan(s, q, k, allowed) ==
    LET skipped(id) == ~s.slots[id].live \/ \E b \in allowed : ~bitset_test(b, id)
        step(heaps, id) ==
            IF skipped(id) THEN heaps
            ELSE UNION {push_bounded(heap, k, [id |-> id, score |-> distance(q, s.slots[id].vec)]) :
                            heap \in heaps}
        from[n \in 0..Len(s.ids)] == IF n = 0 THEN {{}} ELSE step(from[n - 1], s.ids[n])
    IN  from[Len(s.ids)]

\* Popping the heap into the result back to front emits it by distance.
emit(heap) ==
    {out \in [1..Cardinality(heap) -> heap] :
        \A i, j \in 1..Cardinality(heap) :
            i < j => out[i] # out[j] /\ out[i].score <= out[j].score}

flat_search(s, q, k, allowed) ==
    IF k = 0 THEN {<<>>} ELSE UNION {emit(heap) : heap \in scan(s, q, k, allowed)}
=============================================================================
