----------------------------- MODULE LinkOrder ------------------------------
(***************************************************************************)
(* resolve_link_order of src/src/util/split.rs: the order of the units     *)
(* (translation units) for the linker.  The splits of each section give    *)
(* edges between units whose splits are adjacent; cycles are broken one    *)
(* edge at a time, calling Toposort again each time; a last pass moves     *)
(* units back towards address order without violating an edge.             *)
(*                                                                         *)
(* Units are numbered from 1 in the order of their first split, as         *)
(* unit_to_index_map does; 0 is a unit of link_order with no split.        *)
(***************************************************************************)
EXTENDS Toposort

CONSTANT Layouts     \* the objects whose link order may be asked for

VARIABLES
  layout,     \* the sections with their splits, and the user's unit order
  boundary,   \* cross_boundary: pairs of units, removed first in a cycle
  key,        \* the address a unit is sorted by
  left,       \* how many vertices the key propagation has not finished yet
  eye,        \* the edge of the last of them it looks at
  ordered,    \* the resulting order
  phase       \* "build", "sort", "keys", "done" or "bail"

orderVars == <<layout, boundary, key, left, eye, ordered, phase>>
allVars == <<vars, orderVars>>

NoOrder == -1                              \* Unit::order is None
MaxKey == 1000                             \* u64::MAX: above every address

AllSplits(l) == FlattenSeq([s \in DOMAIN l.sections |-> l.sections[s].splits])

UnitsOf(splits) == {s.unit : s \in ToSet(splits)}

NumUnits(l) == Cardinality(UnitsOf(AllSplits(l)))

\* unit_to_index_map: a unit gets its number when its first split is seen.
Numbered(l) ==
  LET all == AllSplits(l)
  IN  \A i \in DOMAIN all :
        all[i].unit \in 1..(1 + Cardinality(UnitsOf(SubSeq(all, 1, i - 1))))

-----------------------------------------------------------------------------
\* Where the initialized data of a section ends and its zero-filled tail begins.
InitEnd(s) ==
  LET bss == {s.regions[r].start : r \in {q \in DOMAIN s.regions : s.regions[q].bss}}
  IN  IF bss = {} THEN s.dataEnd ELSE Min(bss)

HasTail(s) == InitEnd(s) < s.end

\* The name of the first sub-region an address is in; {} when in none.
SubRegion(s, addr) ==
  LET In == {r \in DOMAIN s.regions : addr >= s.regions[r].start /\ addr < s.regions[r].end}
  IN  IF In = {} THEN {} ELSE {s.regions[Min(In)].name}

\* The pairs of adjacent splits that make an edge.  The first split of .ctors
\* and .dtors is skipped, and so is the start of the common BSS.
Adjacent(s) ==
  LET first == IF s.skipFirst THEN 2 ELSE 1
      pairs == [i \in 1..(Len(s.splits) - 1) |-> <<s.splits[i], s.splits[i + 1]>>]
      Kept(p) == ~(~p[1].common /\ p[2].common) /\ p[1].unit # p[2].unit
  IN  SelectSeq(SubSeq(pairs, first, Len(pairs)), Kept)

AtBoundary(s, a, b) ==
  \/ HasTail(s) /\ a.addr < InitEnd(s) /\ b.addr >= InitEnd(s)
  \/ /\ SubRegion(s, a.addr) # {} /\ SubRegion(s, b.addr) # {}
     /\ SubRegion(s, a.addr) # SubRegion(s, b.addr)

Boundary(l) ==
  UNION {{<<p[1].unit, p[2].unit>> :
            p \in {q \in ToSet(Adjacent(s)) : AtBoundary(s, q[1], q[2])}} :
         s \in ToSet(l.sections)}

SectionEdges(l) ==
  FlattenSeq([s \in DOMAIN l.sections |->
    LET pairs == Adjacent(l.sections[s])
    IN  [i \in DOMAIN pairs |-> <<pairs[i][1].unit, pairs[i][2].unit>>]])

\* The units the user ordered: consecutive ones are linked by an edge.
UserOrdered(l) == {u \in ToSet(l.linkOrder) : u.order # NoOrder}

DuplicateOrder(l) ==
  \E i, j \in DOMAIN l.linkOrder :
    i # j /\ l.linkOrder[i].order # NoOrder /\ l.linkOrder[i].order = l.linkOrder[j].order

UserEdges(l) ==
  LET Known(u) == u.unit # 0
      us == SelectSeq(SetToSortSeq(UserOrdered(l), LAMBDA a, b : a.order < b.order), Known)
  IN  [i \in 1..(Len(us) - 1) |-> <<us[i].unit, us[i + 1].unit>>]

\* The adjacency lists of n units, in the order the edges were added.
GraphFrom(edges, n) ==
  [u \in 1..n |->
     LET out == SelectSeq(edges, LAMBDA e : e[1] = u)
     IN  [i \in DOMAIN out |-> out[i][2]]]

GraphOf(l) == GraphFrom(SectionEdges(l) \o UserEdges(l), NumUnits(l))

MinAddr(l, u) ==
  Min({MaxKey} \cup {s.addr : s \in {t \in ToSet(AllSplits(l)) : t.unit = u}})

\* What reading an object's sections guarantees of every layout.
ASSUME LayoutAssumption ==
  \A l \in Layouts :
    /\ Numbered(l)
    /\ IsGraph(GraphOf(l))
    /\ Boundary(l) \subseteq Vertices(GraphOf(l)) \X Vertices(GraphOf(l))
    /\ \A u \in Vertices(GraphOf(l)) : MinAddr(l, u) \in 0..MaxKey

-----------------------------------------------------------------------------
\* Where everything but the graph starts from.
LStart ==
  /\ boundary = Boundary(layout)
  /\ key = [u \in 1..Len(graph) |-> MinAddr(layout, u)]
  /\ left = 0 /\ eye = 1
  /\ ordered = <<>>
  /\ phase = "build"
  /\ Start(graph)

\* (mutant) the edges of the user's unit order are left out.
LInitWithoutUserOrder ==
  /\ layout \in Layouts
  /\ graph = GraphFrom(SectionEdges(layout), NumUnits(layout))
  /\ LStart

LInit ==
  /\ layout \in Layouts
  /\ graph = GraphOf(layout)
  /\ LStart

\* The user gave two units the same order.
Bail ==
  /\ phase = "build"
  /\ DuplicateOrder(layout)
  /\ phase' = "bail"
  /\ UNCHANGED <<vars, layout, boundary, key, left, eye, ordered>>

Build ==
  /\ phase = "build"
  /\ ~DuplicateOrder(layout)
  /\ phase' = "sort"
  /\ UNCHANGED <<vars, layout, boundary, key, left, eye, ordered>>

Sort ==
  /\ phase = "sort"
  /\ Step
  /\ UNCHANGED orderVars

\* The edges of a cycle, in order.
CycleEdges(c) == [i \in DOMAIN c |-> <<c[i], c[(i % Len(c)) + 1]>>]

\* (mutant) boundary edges are not preferred.
BackEdge(c) == <<c[Len(c)], c[1]>>

\* The edge to remove: the first one across a boundary, else the back edge.
EdgeToBreak(c) ==
  LET cross == {i \in DOMAIN c : CycleEdges(c)[i] \in boundary}
  IN  IF cross = {} THEN <<c[Len(c)], c[1]>> ELSE CycleEdges(c)[Min(cross)]

\* Vec::retain: f gives the positions of s that do not hold v, in order.
Keeps(f, s, v) ==
  /\ \A i, j \in DOMAIN f : i < j => f[i] < f[j]
  /\ \A k \in DOMAIN s : s[k] # v <=> \E i \in DOMAIN f : f[i] = k

\* (mutant) the edge is forgotten as a boundary edge and stays in the graph.
BreakNothing ==
  /\ phase = "sort"
  /\ pc = "err"
  /\ boundary' = boundary \ {EdgeToBreak(result)}
  /\ Restart(graph)
  /\ UNCHANGED <<layout, key, left, eye, ordered, phase>>

\* Err(cycle): remove every edge from one unit to the next, and sort again.
BreakEdge ==
  /\ phase = "sort"
  /\ pc = "err"
  /\ LET e == EdgeToBreak(result)
         s == graph[e[1]]
     IN  /\ boundary' = boundary \ {e}
         /\ \E m \in 0..Len(s) : \E f \in [1..m -> DOMAIN s] :
              /\ Keeps(f, s, e[2])
              /\ Restart([graph EXCEPT ![e[1]] = [i \in 1..m |-> s[f[i]]]])
  /\ UNCHANGED <<layout, key, left, eye, ordered, phase>>

\* (mutant) the propagation starts one past the end of the order.
SortedOffByOne ==
  /\ phase = "sort"
  /\ pc = "ok"
  /\ left' = Len(result) + 1
  /\ phase' = "keys"
  /\ UNCHANGED <<vars, layout, boundary, key, eye, ordered>>

\* Ok(vec): propagate the keys, from the last vertex to the first.
Sorted ==
  /\ phase = "sort"
  /\ pc = "ok"
  /\ left' = Len(result)
  /\ phase' = "keys"
  /\ UNCHANGED <<vars, layout, boundary, key, eye, ordered>>

Propagate ==
  /\ phase = "keys"
  /\ left > 0
  /\ LET u == result[left]
         v == graph[u][eye]
     IN  /\ eye <= Len(graph[u])
         /\ key' = IF key[v] < key[u] THEN [key EXCEPT ![u] = key[v]] ELSE key
  /\ eye' = eye + 1
  /\ UNCHANGED <<vars, layout, boundary, left, ordered, phase>>

Propagated ==
  /\ phase = "keys"
  /\ left > 0
  /\ eye > Len(graph[result[left]])
  /\ left' = left - 1
  /\ eye' = 1
  /\ UNCHANGED <<vars, layout, boundary, key, ordered, phase>>

\* (mutant) an unstable sort: equal keys may change places.
UnstableSort(p) ==
  /\ \A i, j \in DOMAIN p : p[i] = p[j] => i = j
  /\ \A i, j \in DOMAIN p : i < j => key[result[p[i]]] <= key[result[p[j]]]

\* p says where each element of the stably sorted order was before.
StableSort(p) ==
  /\ \A i, j \in DOMAIN p : p[i] = p[j] => i = j
  /\ \A k \in DOMAIN p : \E i \in DOMAIN p : p[i] = k
  /\ \A i, j \in DOMAIN p :
       i < j => \/ key[result[p[i]]] < key[result[p[j]]]
                \/ key[result[p[i]]] = key[result[p[j]]] /\ p[i] < p[j]

\* (mutant) the topological order is returned as it is.
SkipSort ==
  /\ phase = "keys"
  /\ left = 0
  /\ ordered' = result
  /\ phase' = "done"
  /\ UNCHANGED <<vars, layout, boundary, key, left, eye>>

SortByKey ==
  /\ phase = "keys"
  /\ left = 0
  /\ \E p \in [DOMAIN result -> DOMAIN result] :
       /\ StableSort(p)
       /\ ordered' = [i \in DOMAIN result |-> result[p[i]]]
  /\ phase' = "done"
  /\ UNCHANGED <<vars, layout, boundary, key, left, eye>>

LStep == Bail \/ Build \/ Sort \/ BreakEdge \/ Sorted \/ Propagate \/ Propagated \/ SortByKey

LDone == phase \in {"done", "bail"} /\ UNCHANGED allVars

LNext == LStep \/ LDone

LSpec == LInit /\ [][LNext]_allVars /\ WF_allVars(LStep)

-----------------------------------------------------------------------------
LTypeOK ==
  /\ TypeOK
  /\ boundary \subseteq Vertices(graph) \X Vertices(graph)
  /\ key \in [Vertices(graph) -> 0..MaxKey]
  /\ left \in 0..Len(result)
  /\ eye \in Nat \ {0}
  /\ ordered \in Seq(Vertices(graph))
  /\ phase \in {"build", "sort", "keys", "done", "bail"}

(***************************************************************************)
(* The resulting order has every unit once and respects every edge that is *)
(* left: "Stable sort keeps topological order among equal keys, so no      *)
(* dependency edge is violated" (split.rs).                                *)
(***************************************************************************)
OrderRespectsEdges == phase = "done" => IsOrder(graph, ordered)

Orderable(g) ==
  \E s \in [1..Len(g) -> 1..Len(g)] : IsOrder(g, s)

(***************************************************************************)
(* No constraint is given up needlessly: when all the edges of the layout  *)
(* can be satisfied together, none is removed.                             *)
(***************************************************************************)
NoNeedlessBreak ==
  phase = "done" /\ Orderable(GraphOf(layout)) => graph = GraphOf(layout)

\* s has every unit of l once, and the edges of l outside of boundaries forward.
OrdersRealEdges(l, s) ==
  LET g == GraphOf(l)
  IN  /\ s \in Seq(Vertices(g))
      /\ Vertices(g) \subseteq {s[i] : i \in DOMAIN s}
      /\ \A i, j \in DOMAIN s : s[i] = s[j] => i = j
      /\ \A i, j \in DOMAIN s :
           Edge(g, s[i], s[j]) /\ <<s[i], s[j]>> \notin Boundary(l) => i < j

RealEdgesOrderable(l) ==
  LET n == Len(GraphOf(l)) IN \E s \in [1..n -> 1..n] : OrdersRealEdges(l, s)

(***************************************************************************)
(* Preferring boundary edges works: when the edges that cross no boundary  *)
(* can be satisfied together, the resulting order satisfies them, whatever *)
(* cycles the boundary edges close.                                        *)
(***************************************************************************)
RealEdgesKept ==
  phase = "done" /\ RealEdgesOrderable(layout) => OrdersRealEdges(layout, ordered)

(***************************************************************************)
(* Breaking cycles gives up no more than it must: nothing when the edges   *)
(* can be satisfied together, and only boundary edges when the others can. *)
(***************************************************************************)
EdgesKept == NoNeedlessBreak /\ RealEdgesKept

(***************************************************************************)
(* "differing keys restore address order": when ordering the units by      *)
(* their first address satisfies every edge, that is the resulting order.  *)
(***************************************************************************)
AddressOrderKept ==
  phase = "done" /\
  (\A u, v \in Vertices(graph) :
     Edge(GraphOf(layout), u, v) => MinAddr(layout, u) < MinAddr(layout, v)) =>
    \A i, j \in DOMAIN ordered :
      i < j => MinAddr(layout, ordered[i]) <= MinAddr(layout, ordered[j])

(***************************************************************************)
(* The order that is found gives up no more than the cycles ask for: the   *)
(* edges, where they can be satisfied, and the order of the addresses.     *)
(***************************************************************************)
NoNeedlessChange == EdgesKept /\ AddressOrderKept

(***************************************************************************)
(* The loop that breaks cycles ends, and so does each search of it: a link *)
(* order is found, or a duplicate order is reported.                       *)
(***************************************************************************)
Resolves == <>(phase \in {"done", "bail"})
=============================================================================
