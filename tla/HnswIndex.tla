------------------------------ MODULE HnswIndex ------------------------------
(***************************************************************************)
(* The HNSW graph of include/toyvdb/hnsw_index.hpp, driven by the engine    *)
(* operations that reach it.  Slots are 1, 2, ... (the code's InternalIds   *)
(* plus one); place[n] is the vector of slot n and live[n] the store's      *)
(* is_live(n).  nodes[n] is the code's nodes_[n].links: one list of slots   *)
(* per layer, layer l at position l + 1, so its level is Len(nodes[n]) - 1. *)
(* Vectors are points with a table of distances.  The table has no ties,    *)
(* because the order std::sort and the heaps give to equal distances is not *)
(* specified; no two slots share a point for the same reason.               *)
(***************************************************************************)
EXTENDS Integers, FiniteSets, SequencesExt

CONSTANTS Points,      \* the vectors
          Distance,    \* Distance[p, q], the metric's kernel
          Params,      \* the HnswParams to consider
          Queries,     \* the points the properties search for
          TopLevel,    \* bound on the levels random_level() draws
          MaxSlots     \* bound on the number of slots

NoEntry == 0           \* kInvalidId

ASSUME HnswAssumption ==
  /\ Params \subseteq [M : Nat \ {0}, efConstruction : Nat \ {0}]
  /\ Queries \subseteq Points
  /\ TopLevel \in Nat /\ MaxSlots \in Nat
  /\ Distance \in [Points \X Points -> Nat]

\* Points are in general position: nothing is at the same distance of a point.
ASSUME NoTies ==
  \A p, q, r \in Points : Distance[p, q] = Distance[p, r] => q = r

VARIABLES place, live,           \* the store
          params_,               \* chosen when the engine opens
          nodes, entry_point, max_level,
          todo                   \* the vectors compact() has yet to re-insert

graph == <<nodes, entry_point, max_level>>
vars == <<place, live, params_, nodes, entry_point, max_level, todo>>

Slots == DOMAIN place
LiveSlots == {n \in Slots : live[n]}
Free == Points \ ToSet(place)

Init ==
  /\ place = <<>> /\ live = <<>> /\ todo = <<>>
  /\ params_ \in Params
  /\ nodes = <<>> /\ entry_point = NoEntry /\ max_level = -1

-----------------------------------------------------------------------------
(* Operators of the graph.  `at' is the store's vectors and `g' the nodes,  *)
(* since add() reads both while it changes them.                            *)

max_links(l) == IF l = 0 THEN 2 * params_.M ELSE params_.M

Links(g, n, l) == IF l < Len(g[n]) THEN g[n][l + 1] ELSE <<>>

Nearest(at, q, S) ==
  CHOOSE n \in S : \A m \in S : Distance[q, at[n]] <= Distance[q, at[m]]

Farthest(at, q, S) ==
  CHOOSE n \in S : \A m \in S : Distance[q, at[n]] >= Distance[q, at[m]]

ByDistance(at, q, S) ==
  LET nearer(n) == {m \in S : Distance[q, at[m]] < Distance[q, at[n]]}
  IN  [i \in 1 .. Cardinality(S) |->
         CHOOSE n \in S : Cardinality(nearer(n)) = i - 1]

\* Move to the nearest neighbour until none is nearer.
RECURSIVE greedy_upper(_, _, _, _, _)
greedy_upper(at, g, q, best, l) ==
  LET next == Nearest(at, q, {best} \cup ToSet(Links(g, best, l)))
  IN  IF next = best THEN best ELSE greedy_upper(at, g, q, next, l)

\* greedy_upper at the layers from, from - 1, ..., to.
RECURSIVE descend(_, _, _, _, _, _)
descend(at, g, q, ep, from, to) ==
  IF from < to THEN ep
  ELSE descend(at, g, q, greedy_upper(at, g, q, ep, from), from - 1, to)

\* Mutant of visit: the search routes only through nodes it may return.
visit_admitted(at, q, ef, admit, s, e) ==
  LET near == \/ Cardinality(s.res) < ef
              \/ Distance[q, at[e]] < Distance[q, at[Farthest(at, q, s.res)]]
      grown == s.res \cup {e}
  IN  IF e \in s.vis \/ e \notin admit \/ ~near THEN [s EXCEPT !.vis = @ \cup {e}]
      ELSE [vis |-> s.vis \cup {e}, cand |-> s.cand \cup {e},
            res |-> IF Cardinality(grown) <= ef THEN grown
                    ELSE grown \ {Farthest(at, q, grown)}]

\* One neighbour e of the node being expanded: s holds the frontier, the
\* results and the visited set.  A node that is not admitted is still routed
\* through.
visit(at, q, ef, admit, s, e) ==
  LET near == \/ Cardinality(s.res) < ef
              \/ Distance[q, at[e]] < Distance[q, at[Farthest(at, q, s.res)]]
      grown == s.res \cup {e}
  IN  CASE e \in s.vis -> s
        [] e \notin s.vis /\ ~near -> [s EXCEPT !.vis = @ \cup {e}]
        [] OTHER ->
             [vis |-> s.vis \cup {e}, cand |-> s.cand \cup {e},
              res |-> IF e \notin admit THEN s.res
                      ELSE IF Cardinality(grown) <= ef THEN grown
                      ELSE grown \ {Farthest(at, q, grown)}]

RECURSIVE expand(_, _, _, _, _, _, _)
expand(at, g, q, ef, l, admit, s) ==
  LET c == Nearest(at, q, s.cand)
      done == \/ s.cand = {}
              \/ /\ Cardinality(s.res) >= ef
                 /\ Distance[q, at[c]] > Distance[q, at[Farthest(at, q, s.res)]]
  IN  IF done THEN s.res
      ELSE expand(at, g, q, ef, l, admit,
                  FoldLeft(LAMBDA t, e : visit(at, q, ef, admit, t, e),
                           [s EXCEPT !.cand = @ \ {c}], Links(g, c, l)))

\* The (at most ef) nearest admitted slots the search from `entries' meets.
search_layer(at, g, q, entries, ef, l, admit) ==
  expand(at, g, q, ef, l, admit,
         [cand |-> entries, res |-> entries \cap admit, vis |-> entries])

\* The heuristic: skip a candidate that is nearer to a pick than to q.
select_neighbors(at, q, cands, m) ==
  LET pick(r, c) ==
        IF Len(r) < m /\ \A i \in DOMAIN r :
                            Distance[at[c], at[r[i]]] >= Distance[q, at[c]]
        THEN Append(r, c) ELSE r
  IN  FoldLeft(pick, <<>>, ByDistance(at, q, cands))

\* Mutant of prune: one link over the cap is let through.
prune_late(at, n, list, cap) ==
  IF Len(list) <= cap + 1 THEN list
  ELSE select_neighbors(at, at[n], ToSet(list), cap)

\* Mutant of prune: the newest links are kept.
prune_newest(at, n, list, cap) ==
  IF Len(list) <= cap THEN list
  ELSE SubSeq(list, Len(list) - cap + 1, Len(list))

prune(at, n, list, cap) ==
  IF Len(list) <= cap THEN list
  ELSE select_neighbors(at, at[n], ToSet(list), cap)

\* Link node id at layer l: its picks, both ways, then each pick pruned.
connect(at, g, id, picks, l) ==
  [n \in DOMAIN g |->
     IF n = id THEN [g[n] EXCEPT ![l + 1] = @ \o picks]
     ELSE IF n \in ToSet(picks)
          THEN [g[n] EXCEPT ![l + 1] = prune(at, n, Append(@, id), max_links(l))]
     ELSE g[n]]

\* The loop of add() over the layers l, l - 1, ..., 0.
RECURSIVE link_layers(_, _, _, _, _, _)
link_layers(at, g, id, entries, l, admit) ==
  LET w == search_layer(at, g, at[id], entries, params_.efConstruction, l, admit)
      joined == connect(at, g, id, select_neighbors(at, at[id], w, params_.M), l)
  IN  IF l = 0 THEN joined
      ELSE link_layers(at, joined, id, IF w = {} THEN entries ELSE w, l - 1, admit)

\* add() of a slot the graph holds already returns at once; a new one draws a
\* level.  The store already holds the slot: `at' and `alive' are its contents.
add(at, alive, id, level) ==
  IF id \in DOMAIN nodes THEN UNCHANGED graph
  ELSE LET g == Append(nodes, [l \in 1 .. level + 1 |-> <<>>])
           ep == descend(at, g, at[id], entry_point, max_level, level + 1)
           start == IF level < max_level THEN level ELSE max_level
       IN  /\ nodes' = IF entry_point = NoEntry THEN g
                       ELSE link_layers(at, g, id, {ep}, start, alive)
           /\ entry_point' = IF level > max_level THEN id ELSE entry_point
           /\ max_level' = IF level > max_level THEN level ELSE max_level

\* Mutant of search: ef is not raised to k.
search_ef_only(q, k, ef, allowed) ==
  IF k = 0 \/ entry_point = NoEntry THEN <<>>
  ELSE LET ep == descend(place, nodes, q, entry_point, max_level, 1)
           w == search_layer(place, nodes, q, {ep}, ef, 0,
                             LiveSlots \cap allowed)
       IN  SubSeq(ByDistance(place, q, w), 1,
                  IF k < Cardinality(w) THEN k ELSE Cardinality(w))

\* search(): the k nearest of what the base layer yields, nearest first.
search(q, k, ef, allowed) ==
  IF k = 0 \/ entry_point = NoEntry THEN <<>>
  ELSE LET ep == descend(place, nodes, q, entry_point, max_level, 1)
           w == search_layer(place, nodes, q, {ep}, IF ef > k THEN ef ELSE k, 0,
                             LiveSlots \cap allowed)
       IN  SubSeq(ByDistance(place, q, w), 1,
                  IF k < Cardinality(w) THEN k ELSE Cardinality(w))

-----------------------------------------------------------------------------
(* The engine operations, as the index sees them.                           *)

\* Insert of an id the store does not know: a new slot, and index add().
InsertNew(p, level) ==
  /\ todo = <<>> /\ Len(place) < MaxSlots /\ p \in Free
  /\ place' = Append(place, p) /\ live' = Append(live, TRUE)
  /\ add(place', {n \in DOMAIN live' : live'[n]}, Len(place'), level)
  /\ UNCHANGED <<params_, todo>>

\* Insert of an id whose slot is known, live or tombstoned, and Update of a
\* live one: the vector is replaced in place.  Only a revived slot is added
\* again, and add() finds its node built.
Overwrite(n, p) ==
  /\ todo = <<>> /\ n \in Slots /\ p \in Free \cup {place[n]}
  /\ place' = [place EXCEPT ![n] = p] /\ live' = [live EXCEPT ![n] = TRUE]
  /\ IF live[n] THEN UNCHANGED graph
     ELSE add(place', {m \in Slots : live'[m]}, n, 0)
  /\ UNCHANGED <<params_, todo>>

\* Erase: the store's tombstone; remove() of this index does nothing.
Erase(n) ==
  /\ todo = <<>> /\ n \in LiveSlots
  /\ live' = [live EXCEPT ![n] = FALSE]
  /\ UNCHANGED <<place, params_, graph, todo>>

\* compact() copies the live vectors out and starts from nothing ...
Compact ==
  /\ todo = <<>> /\ Slots # {}
  /\ LET kept == SelectSeq([n \in Slots |-> n], LAMBDA n : live[n])
     IN  todo' = [i \in DOMAIN kept |-> place[kept[i]]]
  /\ place' = <<>> /\ live' = <<>>
  /\ nodes' = <<>> /\ entry_point' = NoEntry /\ max_level' = -1
  /\ UNCHANGED params_

\* ... and re-inserts them one by one, with levels drawn anew.
Reinsert(level) ==
  /\ todo # <<>> /\ todo' = Tail(todo)
  /\ place' = Append(place, Head(todo)) /\ live' = Append(live, TRUE)
  /\ add(place', DOMAIN live', Len(place'), level)
  /\ UNCHANGED params_

Next ==
  \/ \E p \in Points, level \in 0 .. TopLevel : InsertNew(p, level)
  \/ \E n \in Slots, p \in Points : Overwrite(n, p)
  \/ \E n \in Slots : Erase(n)
  \/ Compact
  \/ \E level \in 0 .. TopLevel : Reinsert(level)

Spec == Init /\ [][Next]_vars

-----------------------------------------------------------------------------
(* Properties                                                               *)

\* The graph is well formed, whatever was erased, revived or moved: a list of
\* layer l names distinct other nodes that have a layer l (so that no access
\* to links[l] is out of range), is no longer than max_links(l), and the entry
\* point is a node of the top layer.
GraphOK ==
  /\ DOMAIN nodes = Slots /\ DOMAIN live = Slots
  /\ entry_point = NoEntry <=> Slots = {}
  /\ entry_point # NoEntry => Len(nodes[entry_point]) = max_level + 1
  /\ \A n \in Slots : \A l \in 0 .. Len(nodes[n]) - 1 :
       LET list == Links(nodes, n, l)
       IN  /\ l <= max_level
           /\ Len(list) <= max_links(l)
           /\ IsInjective(list)
           /\ \A m \in ToSet(list) : m # n /\ l < Len(nodes[m])

\* The slots some base-layer path leads to from those in S.
RECURSIVE Closure(_, _)
Closure(g, S) ==
  LET more == S \cup UNION {ToSet(Links(g, n, 0)) : n \in S}
  IN  IF more = S THEN S ELSE Closure(g, more)

\* The slots a search for q that starts at ep can reach at the base layer.
ReachedFrom(at, g, ep, top, q) ==
  IF ep = NoEntry THEN {} ELSE Closure(g, {descend(at, g, q, ep, top, 1)})

Reached(q) == ReachedFrom(place, nodes, entry_point, max_level, q)

\* A search never comes back short: whatever the tombstones, and with the least
\* ef the code allows (k), it returns k hits, or every live slot that can be
\* reached.
SearchFillsK ==
  \A q \in Queries :
    LET reach == Cardinality(Reached(q) \cap LiveSlots)
    IN  \A k \in {1, 2} :
          Len(search(q, k, 1, Slots)) = IF k < reach THEN k ELSE reach

\* With ef at least the number of nodes the search is exact on what it can
\* reach, also when a filter excludes the entry point: the live, allowed slots,
\* nearest first.  Its early exit and its bounded heaps lose nothing.
WideSearchExact ==
  \A q \in Queries :
    LET reach == Reached(q) \cap LiveSlots
    IN  \A f \in {Slots, Slots \ {entry_point}} :
          search(q, Len(place), Len(place), f) = ByDistance(place, q, reach \cap f)

\* A link is given up for a reason, in every list and at every layer: of the
\* links m had and those new nodes ask of it, the one to n is missing after a
\* step only if they were more than max_links(l), and then m keeps a link to
\* some node that is nearer to n than m is, so that a walk towards n goes on
\* there, or its list is full of nodes nearer to m (connect() and prune()); an
\* erase, a move or a revival takes no link away.
DroppedLinkCovered ==
  [][\A m \in Slots \cap DOMAIN nodes' : \A l \in 0 .. Len(nodes[m]) - 1 :
       LET asked == {n \in DOMAIN nodes' \ Slots : m \in ToSet(Links(nodes', n, l))}
           wanted == ToSet(Links(nodes, m, l)) \cup asked
           kept == ToSet(Links(nodes', m, l))
           d(x, y) == Distance[place'[x], place'[y]]
       IN  \A n \in wanted \ kept :
             /\ Cardinality(wanted) > max_links(l)
             /\ \/ \E r \in kept : d(r, n) < d(m, n)
                \/ /\ Cardinality(kept) = max_links(l)
                   /\ \A r \in kept : d(m, r) < d(m, n)]_nodes

\* DESIGN.md says a tombstone stays in the graph "for routing/connectivity":
\* every live vector can be found by a search for it.
LiveFindable ==
  todo = <<>> => \A n \in LiveSlots :
                   search(place[n], Len(place), Len(place), Slots) # <<>>
                     /\ search(place[n], Len(place), Len(place), Slots)[1] = n
=============================================================================
