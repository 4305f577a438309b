--------------------------- MODULE MCSearchBatch ---------------------------
(***************************************************************************)
(* Engine::search_batch over the flat index: three slots on a line, every  *)
(* set of live slots and every scan order the index can have, filters of   *)
(* every kind, up to four queries and up to three threads.                 *)
(***************************************************************************)
EXTENDS SearchBatch, FlatSearch

IntValue(n) == [type |-> "int64", v |-> n]
Double(x)   == [type |-> "double", v |-> x]
String(r)   == [type |-> "string", v |-> r]
Bool(b)     == [type |-> "bool", v |-> b]

Year(kind, n) == json_to_metadata([year |-> [json |-> kind, v |-> n]])

\* With two mantissa bits 5 is the double 4, and 7 and 9 are the double 8; with
\* five bits of an int64 the JSON number 27 is -5.
MCMetas ==
    <<Year("integer", 5),
      Year("float", NaN),
      json_to_metadata([lang |-> [json |-> "null", v |-> 1], year |-> [json |-> "integer", v |-> 7]]),
      Year("integer", 27), Year("integer", 6), Year("integer", 8), Year("integer", 9),
      Year("float", 4), Year("float", 6)>>

MCFilters ==
    {json_to_filter(<<>>),
     json_to_filter([lang |-> [json |-> "string", v |-> 1]]),
     {cmp("year", "Lt", IntValue(5))},
     {cmp("year", "Ge", Double(6))},
     {cmp("year", "Ne", IntValue(8))},
     {any_of({cmp("lang", "Lt", String(2)), in("year", {IntValue(5), Bool(1)})})},
     {negate(cmp("lang", "Eq", IntValue(1)))}}

\* Every comparison with integers that round down, up or not at all, with the
\* doubles they round to, and with NaN.
MCLeaves ==
    {{cmp("year", op, value)} :
        op \in {"Eq", "Ne", "Lt", "Le", "Gt", "Ge"},
        value \in {IntValue(n) : n \in {-5, 5, 6, 7, 8, 9}}
                    \cup {Double(x) : x \in {4, 6, 8, NaN}}}

MCOptionalFilters == MCFilters \cup MCLeaves

\* Slot 0 at 0, slot 1 at 2, slot 2 at 1: a query at 1 is as far from 0 as
\* from 2.  Every set of live slots in every order the scan list may have, and
\* every stored year in some store.
MCStores ==
    LET vec    == <<0, 2, 1>>
        metas  == {<<1, 2, 3>>, <<3, 1, 1>>}
        ids(L) == {p \in [1..Cardinality(L) -> L] : \A i, j \in DOMAIN p : i # j => p[i] # p[j]}
        slots(L, m) == [id \in 0..2 |-> [vec  |-> vec[id + 1], live |-> id \in L,
                                         meta |-> MCMetas[m[id + 1]]]]
    IN  UNION {[slots : {slots(L, m) : m \in metas}, ids : ids(L)] : L \in SUBSET (0..2)}
        \cup [slots : {slots(0..2, m) : m \in {<<4, 5, 6>>, <<7, 8, 9>>}}, ids : {<<0, 1, 2>>}]

\* The query -1 stands for one of another dimension.
MCQueries == {-1, 0, 1}
MCDimensioned == {0, 1}
MCCalls ==
    [queries : {<<>>, <<0>>, <<1, -1>>, <<0, 1>>, <<1, 0, 1>>, <<0, 1, 1, 0>>}, k : {0, 1, 2},
     filter : MCFilters, num_threads : 0..3]
    \cup [queries : {<<0>>}, k : {1}, filter : MCLeaves, num_threads : {1}]
-----------------------------------------------------------------------------
\* What a filter leaves of the store.
Eligible == {id \in DOMAIN store.slots : /\ store.slots[id].live
                                         /\ \A f \in call.filter : matches(f, store.slots[id].meta)}

\* Every result of a call that returned lists, closest first, the k closest
\* of the live slots the filter matches, or all of them if they are fewer:
\* what FlatIndex::search keeps in its bounded heap and SearchParams::allowed
\* lets through are together exactly the contract of Engine::search.
NearestOfEligible ==
    outcome = "returned" =>
        \A j \in DOMAIN results :
            LET r    == results[j]
                far(id) == distance(call.queries[j], store.slots[id].vec)
                found == {r[n].id : n \in DOMAIN r}
            IN  /\ found \subseteq Eligible
                /\ Len(r) = Cardinality(found)
                /\ Len(r) = Least(call.k, Cardinality(Eligible))
                /\ \A n \in DOMAIN r : r[n].score = far(r[n].id)
                /\ \A n \in 1..(Len(r) - 1) : r[n].score <= r[n + 1].score
                /\ \A n \in DOMAIN r, id \in Eligible \ found : r[n].score <= far(id)

\* A comparison leaf never inverts an order: <, > and != match only values
\* that truly are less, greater or different, and <=, >= and == match all
\* values that truly are, although compare first rounds both sides to double
\* and finds a NaN equal to every number (include/toyvdb/metadata.hpp).
LeafNeverInverts ==
    \A f \in {f \in call.filter : f.kind = "Cmp"}, id \in DOMAIN store.slots :
        LET m == store.slots[id].meta
            a == m[f.key].v
            b == f.value.v
            lt == Less(a, b)
            gt == Less(b, a)
            eq == a = b /\ a # NaN
        IN  f.key \in DOMAIN m /\ Number(m[f.key]) /\ Number(f.value) =>
                CASE f.cmp = "Lt" -> matches(f, m) => lt
                  [] f.cmp = "Gt" -> matches(f, m) => gt
                  [] f.cmp = "Ne" -> matches(f, m) => lt \/ gt
                  [] f.cmp = "Le" -> lt \/ eq => matches(f, m)
                  [] f.cmp = "Ge" -> gt \/ eq => matches(f, m)
                  [] f.cmp = "Eq" -> eq => matches(f, m)
=============================================================================
