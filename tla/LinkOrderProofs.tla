-------------------------- MODULE LinkOrderProofs ---------------------------
(***************************************************************************)
(* The link order respects every edge that was not removed, for every      *)
(* layout, and the topological sort it starts from never panics and        *)
(* implements ToposortContract, for every graph.                           *)
(***************************************************************************)
EXTENDS LinkOrder, Extrema, TLAPS

----------------------------------------------------------------------------
(***************************************************************************)
(* The topological sort.  The active vertices are the stack of the search. *)
(* The code keeps the stack only as parent links, so the invariant says    *)
(* that some function d numbers the active vertices by depth: each is one  *)
(* deeper than its parent, no two have the same depth, and none is deeper  *)
(* than cur while the search runs.                                         *)
(***************************************************************************)
Active(v) == mark[v] = "Active"

Depths == [Nodes -> Nat]

Stack(d) ==
  /\ Active(Root) /\ d[Root] = 0
  /\ \A v \in Vertices(graph) : Active(v) =>
       /\ par[v] \in Nodes
       /\ Active(par[v])
       /\ d[v] = d[par[v]] + 1
       /\ par[v] # Root => Edge(graph, par[v], v)
  /\ \A v, w \in Nodes : Active(v) /\ Active(w) /\ d[v] = d[w] => v = w
  /\ Active(cur)
  /\ pc = "search" => \A v \in Nodes : Active(v) => d[v] <= d[cur]
  /\ pc = "walk" => /\ target # Root
                    /\ Active(target)
                    /\ d[target] <= d[cur]

\* The edges an active vertex has gone past lead to finished vertices, or to
\* the child the search is in.
Explored ==
  pc = "search" =>
    \A u \in Nodes : Active(u) =>
      /\ eind[u] <= Degree(u)
      /\ \A i \in 1..eind[u] :
           \/ mark[Succ(u, i)] = "Finished"
           \/ Active(Succ(u, i)) /\ par[Succ(u, i)] = u

\* ret holds the finished vertices once each, after all their successors.
PostOrder ==
  pc = "search" =>
    /\ \A v \in Vertices(graph) :
         mark[v] = "Finished" <=> \E i \in DOMAIN ret : ret[i] = v
    /\ \A i, j \in DOMAIN ret : ret[i] = ret[j] => i = j
    /\ \A i \in DOMAIN ret : \A v \in Vertices(graph) :
         Edge(graph, ret[i], v) => \E j \in 1..(i - 1) : ret[j] = v

\* What the walk has read is a path, read from its end: cur leads to the last
\* vertex read, and the first one read leads to the target.
CyclePath ==
  pc = "walk" =>
    /\ cycle = <<>> => Edge(graph, cur, target)
    /\ cycle # <<>> =>
         /\ Edge(graph, cur, cycle[Len(cycle)])
         /\ Edge(graph, cycle[1], target)
         /\ \A i \in 1..(Len(cycle) - 1) : Edge(graph, cycle[i + 1], cycle[i])

Answered ==
  /\ pc = "ok" => IsOrder(graph, result)
  /\ pc = "err" => IsCycle(graph, result)

IInv ==
  /\ TypeOK
  /\ \E d \in Depths : Stack(d)
  /\ pc \in {"search", "walk"} => cycle = <<>> \/ pc = "walk"
  /\ Explored
  /\ PostOrder
  /\ CyclePath
  /\ Answered

-----------------------------------------------------------------------------
\* The reverse of a sequence has its length, and its i-th element from the end.
LEMMA ReverseElements ==
  ASSUME NEW S, NEW s \in Seq(S)
  PROVE  /\ Reverse(s) \in Seq(S)
         /\ Len(Reverse(s)) = Len(s)
         /\ \A i \in 1..Len(s) : Reverse(s)[i] = s[Len(s) - i + 1]
  BY DEF Reverse

\* Each vertex's successors are vertices of the graph.
LEMMA SuccIsVertex ==
  ASSUME IsGraph(graph), NEW u \in Nodes, NEW i \in Nat, 0 < i, i <= Degree(u)
  PROVE  Succ(u, i) \in Vertices(graph)
  BY DEF IsGraph, Nodes, Degree, Succ, Vertices, Root

\* The number of successors of a node.
LEMMA DegreeIsNat ==
  ASSUME IsGraph(graph), NEW u \in Nodes
  PROVE  Degree(u) \in Nat
  BY DEF IsGraph, Nodes, Degree, Root

\* The types of what the loop reads.
LEMMA ReadTypes ==
  ASSUME TypeOK
  PROVE  /\ IsGraph(graph) /\ Len(graph) \in Nat
         /\ cur \in Nodes /\ eind[cur] \in Nat /\ Degree(cur) \in Nat
         /\ \A u \in Vertices(graph) : u \in Nodes /\ u # Root /\ graph[u] \in Seq(Nat)
<1>1. IsGraph(graph) /\ cur \in Nodes /\ eind \in [Nodes -> Nat]
  BY DEF TypeOK
<1>2. Len(graph) \in Nat /\ graph \in Seq(Seq(Nat))
  BY <1>1 DEF IsGraph
<1>3. Degree(cur) \in Nat /\ eind[cur] \in Nat
  BY <1>1, DegreeIsNat
<1> QED
  BY <1>1, <1>2, <1>3 DEF Nodes, Vertices, Root

\* A step that leaves the graph alone leaves the edges of every node alone.
LEMMA SameEdges ==
  ASSUME graph' = graph
  PROVE  \A u : /\ Degree(u)' = Degree(u)
                /\ \A i : Succ(u, i)' = Succ(u, i)
  BY DEF Degree, Succ, Root

\* Explored after a step, in terms of the edges before it.
LEMMA ExploredAfter ==
  ASSUME graph' = graph,
         \A u \in Nodes : mark'[u] = "Active" =>
           /\ eind'[u] <= Degree(u)
           /\ \A i \in 1..eind'[u] :
                \/ mark'[Succ(u, i)] = "Finished"
                \/ mark'[Succ(u, i)] = "Active" /\ par'[Succ(u, i)] = u
  PROVE  Explored'
  BY SameEdges DEF Explored, Active, Nodes

\* A post-order with every successor earlier, reversed, is a topological order.
LEMMA ReversedPostOrder ==
  ASSUME TypeOK, PostOrder, pc = "search",
         \A v \in Vertices(graph) : mark[v] = "Finished"
  PROVE  IsOrder(graph, Reverse(ret))
<1> DEFINE s == Reverse(ret)
           n == Len(ret)
<1>1. ret \in Seq(Vertices(graph)) /\ n \in Nat
  BY DEF TypeOK
<1>2. /\ s \in Seq(Vertices(graph)) /\ Len(s) = n
      /\ \A i \in 1..n : s[i] = ret[n - i + 1]
  BY <1>1, ReverseElements
<1>3. \A i \in 1..n : n - i + 1 \in DOMAIN ret
  BY <1>1
<1>4. Vertices(graph) \subseteq {s[i] : i \in DOMAIN s}
  <2> SUFFICES ASSUME NEW v \in Vertices(graph)
               PROVE  \E i \in DOMAIN s : s[i] = v
    OBVIOUS
  <2>1. PICK i \in DOMAIN ret : ret[i] = v
    BY DEF PostOrder
  <2>2. n - i + 1 \in 1..n /\ n - (n - i + 1) + 1 = i
    BY <1>1, <2>1
  <2>3. s[n - i + 1] = v
    BY <1>2, <2>1, <2>2
  <2> QED
    BY <1>2, <2>2, <2>3
<1>5. \A i, j \in DOMAIN s : s[i] = s[j] => i = j
  <2> SUFFICES ASSUME NEW i \in 1..n, NEW j \in 1..n, s[i] = s[j]
               PROVE  i = j
    BY <1>2
  <2>1. ret[n - i + 1] = ret[n - j + 1]
    BY <1>2
  <2>2. n - i + 1 = n - j + 1
    BY <1>1, <1>3, <2>1 DEF PostOrder
  <2> QED
    BY <1>1, <2>2
<1>6. \A i, j \in DOMAIN s : Edge(graph, s[i], s[j]) => i < j
  <2> SUFFICES ASSUME NEW i \in 1..n, NEW j \in 1..n, Edge(graph, s[i], s[j])
               PROVE  i < j
    BY <1>2
  <2>1. Edge(graph, ret[n - i + 1], ret[n - j + 1])
    BY <1>2
  <2>2. ret[n - j + 1] \in Vertices(graph)
    BY <1>1, <1>3
  <2>3. PICK k \in 1..(n - i + 1 - 1) : ret[k] = ret[n - j + 1]
    <3>1. n - i + 1 \in DOMAIN ret
      BY <1>3
    <3>2. \A a \in DOMAIN ret : \A v \in Vertices(graph) :
            Edge(graph, ret[a], v) => \E b \in 1..(a - 1) : ret[b] = v
      BY DEF PostOrder
    <3> QED BY <2>1, <2>2, <3>1, <3>2
  <2>4. k \in DOMAIN ret
    BY <1>1
  <2>5. k = n - j + 1
    BY <1>3, <2>3, <2>4 DEF PostOrder
  <2> QED
    BY <1>1, <2>3, <2>5
<1> QED
  BY <1>2, <1>4, <1>5, <1>6 DEF IsOrder

-----------------------------------------------------------------------------
\* A call starts in a state of the invariant.
LEMMA StartInv == Init => IInv
<1> SUFFICES ASSUME Init PROVE IInv
  OBVIOUS
<1> USE DEF Init, Start, FirstMarks, Nodes, Vertices, Root, NoParent
<1>0. Len(graph) \in Nat /\ IsGraph(graph)
  BY DEF IsGraph
<1>1. TypeOK
  BY <1>0 DEF TypeOK
<1>2. \E d \in Depths : Stack(d)
  <2> DEFINE d == [v \in Nodes |-> 0]
  <2>1. d \in Depths
    BY DEF Depths
  <2>2. Stack(d)
    BY <1>0 DEF Stack, Active
  <2> QED
    BY <2>1, <2>2
<1>3. Explored
  BY <1>0 DEF Explored, Active, Degree
<1>4. PostOrder
  BY <1>0 DEF PostOrder
<1> QED
  BY <1>1, <1>2, <1>3, <1>4 DEF IInv, CyclePath, Answered

\* Finishing a vertex keeps the invariant.
LEMMA FinishInv ==
  ASSUME IInv, Finish
  PROVE  IInv'
<1> USE DEF Nodes, Vertices, Root
<1>0. PICK d \in Depths : Stack(d)
  BY DEF IInv
<1>1. /\ TypeOK /\ pc = "search" /\ cur \in Vertices(graph)
      /\ Len(graph) \in Nat /\ d \in [Nodes -> Nat]
      /\ mark' = [mark EXCEPT ![cur] = "Finished"]
      /\ graph' = graph /\ eind' = eind /\ par' = par /\ pc' = pc
      /\ Active(cur) /\ par[cur] \in Nodes /\ par[cur] # cur
  BY <1>0 DEF IInv, TypeOK, IsGraph, Finish, Stack, Depths
<1>2. TypeOK'
  BY <1>1 DEF TypeOK, Finish
<1>3. Stack(d)'
  \* a child of cur would be deeper than cur
  <2>1. \A v \in Nodes : Active(v)' <=> Active(v) /\ v # cur
    BY <1>1 DEF Active, TypeOK
  <2>2. \A v \in Vertices(graph) : Active(v) => par[v] # cur
    BY <1>0, <1>1 DEF Stack
  <2>3. \A v \in Nodes : Active(v) /\ v # cur => d[v] <= d[par[cur]]
    BY <1>0, <1>1 DEF Stack
  <2>4. mark'[par[cur]] = "Active"
    BY <1>0, <1>1, <2>1 DEF Stack, Active
  <2> QED
    BY <1>0, <1>1, <2>1, <2>2, <2>3, <2>4 DEF Stack, Active, Finish
<1>4. \A i \in 1..Degree(cur) : mark[Succ(cur, i)] = "Finished"
  <2> SUFFICES ASSUME NEW i \in 1..Degree(cur)
               PROVE  mark[Succ(cur, i)] = "Finished"
    OBVIOUS
  <2>1. Succ(cur, i) \in Vertices(graph)
    BY <1>1, SuccIsVertex DEF TypeOK
  <2>2. Active(Succ(cur, i)) => par[Succ(cur, i)] # cur
    BY <1>0, <1>1, <2>1 DEF Stack, Active
  <2> QED
    BY <1>1, <2>2 DEF IInv, Explored, Finish
<1>5. Explored'
  <2>0. \A u \in Nodes : mark'[u] = "Active" => Active(u) /\ eind[u] <= Degree(u)
    BY <1>1 DEF Active, TypeOK, IInv, Explored
  <2> SUFFICES ASSUME NEW u \in Nodes, Active(u)', NEW i \in 1..eind[u]
               PROVE  \/ mark'[Succ(u, i)] = "Finished"
                      \/ mark'[Succ(u, i)] = "Active" /\ par[Succ(u, i)] = u
    BY <1>1, <2>0, SameEdges DEF Explored, Active
  <2>1. Active(u)
    BY <1>1 DEF Active, TypeOK
  <2>2. /\ eind[u] <= Degree(u)
        /\ \/ mark[Succ(u, i)] = "Finished"
           \/ Active(Succ(u, i)) /\ par[Succ(u, i)] = u
    BY <1>1, <2>1 DEF IInv, Explored
  <2>3. Succ(u, i) \in Vertices(graph)
    <3>1. Degree(u) \in Nat /\ eind[u] \in Nat /\ IsGraph(graph)
      BY <1>1, DegreeIsNat DEF TypeOK
    <3>2. i \in Nat /\ 0 < i /\ i <= Degree(u)
      BY <2>2, <3>1
    <3> QED
      BY <3>1, <3>2, SuccIsVertex
  <2> QED
    BY <1>1, <2>2, <2>3 DEF Active, TypeOK
<1>6. PostOrder'
  <2>0. ret \in Seq(Vertices(graph)) /\ ret' = Append(ret, cur)
    BY <1>1 DEF TypeOK, Finish
  <2>1. \A v \in Vertices(graph) : mark'[v] = "Finished" <=> \E i \in DOMAIN ret' : ret'[i] = v
    <3> TAKE v \in Vertices(graph)
    <3>1. mark[v] = "Finished" <=> \E i \in DOMAIN ret : ret[i] = v
      BY <1>1 DEF IInv, PostOrder
    <3>2. mark'[v] = "Finished" <=> mark[v] = "Finished" \/ v = cur
      BY <1>1 DEF TypeOK
    <3>3. (\E i \in DOMAIN ret' : ret'[i] = v) <=> (\E i \in DOMAIN ret : ret[i] = v) \/ v = cur
      BY <2>0
    <3> QED
      BY <3>1, <3>2, <3>3
  <2>2. \A i \in DOMAIN ret : ret[i] # cur
    BY <1>1 DEF IInv, PostOrder, Active
  <2>3. \A i, j \in DOMAIN ret' : ret'[i] = ret'[j] => i = j
    BY <1>1, <2>0, <2>2 DEF IInv, PostOrder
  <2>4. \A i \in DOMAIN ret' : \A v \in Vertices(graph) :
          Edge(graph, ret'[i], v) => \E j \in 1..(i - 1) : ret'[j] = v
    <3> SUFFICES ASSUME NEW i \in DOMAIN ret', NEW v \in Vertices(graph),
                        Edge(graph, ret'[i], v)
                 PROVE  \E j \in 1..(i - 1) : ret'[j] = v
      OBVIOUS
    <3>1. CASE i \in DOMAIN ret
      <4>1. ret'[i] = ret[i]
        BY <2>0, <3>1
      <4>2. PICK j \in 1..(i - 1) : ret[j] = v
        BY <1>1, <3>1, <4>1 DEF IInv, PostOrder
      <4> QED
        BY <2>0, <3>1, <4>2
    <3>2. CASE i = Len(ret) + 1
      <4>1. Edge(graph, cur, v)
        BY <2>0, <3>2
      <4>2. mark[v] = "Finished"
        <5>1. PICK k \in DOMAIN graph[cur] : graph[cur][k] = v
          BY <4>1 DEF Edge
        <5>2. k \in 1..Degree(cur) /\ Succ(cur, k) = v
          <6>1. graph[cur] \in Seq(Nat)
            BY <1>1 DEF TypeOK, IsGraph
          <6> QED
            BY <1>1, <5>1, <6>1 DEF Degree, Succ
        <5> QED
          BY <1>4, <5>2
      <4>3. PICK j \in DOMAIN ret : ret[j] = v
        BY <1>1, <4>2 DEF IInv, PostOrder
      <4> QED
        BY <2>0, <3>2, <4>3
    <3> QED
      BY <2>0, <3>1, <3>2
  <2> QED
    BY <1>1, <2>1, <2>3, <2>4 DEF PostOrder
<1> QED
  BY <1>1, <1>2, <1>3, <1>5, <1>6 DEF IInv, Depths, CyclePath, Answered, Finish

\* Going down an edge to an unvisited vertex keeps the invariant.
LEMMA DescendInv ==
  ASSUME IInv, NEW adj \in Vertices(graph), TakeEdge(adj),
         mark[adj] = "Unvisited",
         mark' = [mark EXCEPT ![adj] = "Active"],
         eind' = [eind EXCEPT ![cur] = @ + 1, ![adj] = 0],
         par' = [par EXCEPT ![adj] = cur],
         cur' = adj,
         UNCHANGED <<graph, ret, cycle, target, result, pc>>
  PROVE  IInv'
<1> USE DEF Nodes, Vertices, Root
<1>0. PICK d \in Depths : Stack(d)
  BY DEF IInv
<1>1. /\ TypeOK /\ pc = "search" /\ pc' = pc /\ cur \in Nodes
      /\ adj \in Nodes /\ adj # Root /\ adj # cur
      /\ Len(graph) \in Nat /\ d \in [Nodes -> Nat] /\ graph' = graph
      /\ eind[cur] < Degree(cur) /\ adj = Succ(cur, eind[cur] + 1)
      /\ Degree(cur) \in Nat /\ eind[cur] \in Nat
  <2>1. TypeOK /\ pc = "search" /\ Active(cur) /\ adj = Succ(cur, eind[cur] + 1)
    BY <1>0 DEF IInv, Stack, TakeEdge
  <2> QED
    BY <2>1, ReadTypes DEF TakeEdge, Active, Depths
<1>2. TypeOK'
  <2>1. mark' \in [Nodes -> {"Unvisited", "Active", "Finished"}]
    BY <1>1 DEF TypeOK
  <2>2. eind' \in [Nodes -> Nat]
    <3>1. [eind EXCEPT ![cur] = @ + 1] \in [Nodes -> Nat]
      BY <1>1 DEF TypeOK
    <3> QED
      BY <3>1
  <2>3. par' \in [Nodes -> Nodes \cup {NoParent}]
    BY <1>1 DEF TypeOK
  <2> QED
    BY <1>1, <2>1, <2>2, <2>3 DEF TypeOK
<1>3. \A v \in Nodes : mark'[v] = "Active" <=> Active(v) \/ v = adj
  BY <1>1 DEF Active, TypeOK
<1>4. Edge(graph, cur, adj) \/ cur = Root
  <2> SUFFICES ASSUME cur # Root PROVE Edge(graph, cur, adj)
    OBVIOUS
  <2>1. graph[cur] \in Seq(Nat)
    BY <1>1 DEF TypeOK, IsGraph
  <2> QED
    BY <1>1, <2>1 DEF Edge, Degree, Succ
<1>5. PICK e \in Depths : e = [d EXCEPT ![adj] = d[cur] + 1]
  <2>1. [d EXCEPT ![adj] = d[cur] + 1] \in Depths
    BY <1>1 DEF Depths
  <2> QED
    BY <2>1
<1>6. /\ \A v \in Nodes : v # adj => e[v] = d[v] /\ par'[v] = par[v]
      /\ e[adj] = d[cur] + 1 /\ par'[adj] = cur
  BY <1>1, <1>5 DEF TypeOK
<1>7. Stack(e)'
  <2>1. mark'[Root] = "Active" /\ e[Root] = 0 /\ mark'[adj] = "Active"
    BY <1>0, <1>1, <1>3, <1>6 DEF Stack, Active
  <2>2. ASSUME NEW v \in Vertices(graph), mark'[v] = "Active"
        PROVE  /\ par'[v] \in Nodes
               /\ mark'[par'[v]] = "Active"
               /\ e[v] = e[par'[v]] + 1
               /\ par'[v] # Root => Edge(graph, par'[v], v)
    <3>1. CASE v = adj
      BY <1>0, <1>1, <1>3, <1>4, <1>6, <3>1 DEF Stack, Active
    <3>2. CASE v # adj
      <4>1. Active(v) /\ par'[v] = par[v]
        BY <1>1, <1>3, <1>6, <2>2, <3>2
      <4>2. /\ par[v] \in Nodes /\ Active(par[v]) /\ par[v] # adj
            /\ d[v] = d[par[v]] + 1
            /\ par[v] # Root => Edge(graph, par[v], v)
        BY <1>0, <4>1 DEF Stack, Active
      <4> QED
        BY <1>1, <1>3, <1>6, <3>2, <4>1, <4>2
    <3> QED
      BY <3>1, <3>2
  <2>3. ASSUME NEW v \in Nodes, NEW w \in Nodes,
               mark'[v] = "Active", mark'[w] = "Active", e[v] = e[w]
        PROVE  v = w
    <3>1. ASSUME NEW u \in Nodes, mark'[u] = "Active", u # adj
          PROVE  Active(u) /\ e[u] = d[u] /\ e[u] # e[adj]
      <4>1. Active(u) /\ e[u] = d[u]
        BY <1>3, <1>6, <3>1
      <4>2. d[u] <= d[cur]
        BY <1>0, <1>1, <4>1 DEF Stack
      <4>3. d[u] \in Nat /\ d[cur] \in Nat
        BY <1>1
      <4> QED BY <1>6, <4>1, <4>2, <4>3
    <3>2. CASE v = adj \/ w = adj
      BY <2>3, <3>1, <3>2
    <3>3. CASE v # adj /\ w # adj
      <4>1. Active(v) /\ Active(w) /\ d[v] = d[w]
        BY <2>3, <3>1, <3>3
      <4> QED BY <1>0, <4>1 DEF Stack
    <3> QED BY <3>2, <3>3
  <2>4. \A v \in Nodes : mark'[v] = "Active" => e[v] <= e[adj]
    BY <1>0, <1>1, <1>3, <1>6 DEF Stack
  <2> QED
    BY <1>1, <2>1, <2>2, <2>3, <2>4 DEF Stack, Active
<1>8. Explored'
  <2> SUFFICES ASSUME NEW u \in Nodes, mark'[u] = "Active"
               PROVE  /\ eind'[u] <= Degree(u)
                      /\ \A i \in 1..eind'[u] :
                           \/ mark'[Succ(u, i)] = "Finished"
                           \/ mark'[Succ(u, i)] = "Active" /\ par'[Succ(u, i)] = u
    BY <1>1, ExploredAfter
  <2>1. CASE u = adj
    BY <1>1, <2>1, DegreeIsNat DEF TypeOK
  <2>2. CASE u # adj
    <3>1. /\ Active(u) /\ Degree(u) \in Nat /\ eind[u] \in Nat
          /\ eind'[u] = IF u = cur THEN eind[u] + 1 ELSE eind[u]
      BY <1>1, <1>3, <2>2, DegreeIsNat DEF TypeOK
    <3>2. eind'[u] <= Degree(u)
      BY <1>1, <3>1 DEF IInv, Explored
    <3>3. ASSUME NEW i \in 1..eind'[u]
          PROVE  \/ mark'[Succ(u, i)] = "Finished"
                 \/ mark'[Succ(u, i)] = "Active" /\ par'[Succ(u, i)] = u
      <4>1. CASE u = cur /\ i = eind[u] + 1
        BY <1>1, <1>3, <1>6, <4>1
      <4>2. CASE i \in 1..eind[u]
        <5>1. \/ mark[Succ(u, i)] = "Finished"
              \/ Active(Succ(u, i)) /\ par[Succ(u, i)] = u
          BY <1>1, <3>1, <4>2 DEF IInv, Explored
        <5>2. Succ(u, i) # adj
          BY <5>1 DEF Active
        <5>3. i \in Nat /\ 0 < i /\ i <= Degree(u)
          BY <3>1, <3>2, <4>2
        <5>4. Succ(u, i) \in Vertices(graph)
          BY <1>1, <5>3, SuccIsVertex DEF TypeOK
        <5> QED
          BY <1>1, <1>6, <5>1, <5>2, <5>4 DEF Active, TypeOK
      <4> QED
        BY <3>1, <3>3, <4>1, <4>2
    <3> QED
      BY <3>2, <3>3
  <2> QED
    BY <2>1, <2>2
<1>9. PostOrder'
  <2>1. \A v \in Vertices(graph) : mark'[v] = "Finished" <=> mark[v] = "Finished"
    BY <1>1 DEF TypeOK
  <2> QED
    BY <1>1, <2>1 DEF IInv, PostOrder
<1> QED
  BY <1>1, <1>2, <1>5, <1>7, <1>8, <1>9 DEF IInv, Depths, CyclePath, Answered

\* Looking at an edge to a finished vertex keeps the invariant.
LEMMA SkipInv ==
  ASSUME IInv, Skip
  PROVE  IInv'
<1> USE DEF Nodes, Vertices, Root
<1>0. PICK d \in Depths : Stack(d)
  BY DEF IInv
<1>1. /\ TypeOK /\ pc = "search" /\ cur \in Nodes /\ Len(graph) \in Nat
      /\ UNCHANGED <<graph, mark, par, cur, ret, cycle, target, result, pc>>
      /\ eind[cur] < Degree(cur)
      /\ mark[Succ(cur, eind[cur] + 1)] = "Finished"
      /\ eind' = [eind EXCEPT ![cur] = @ + 1]
      /\ Degree(cur) \in Nat /\ eind[cur] \in Nat
  BY ReadTypes DEF IInv, Skip, TakeEdge
<1>2. TypeOK'
  BY <1>1 DEF TypeOK
<1>3. Stack(d)'
  BY <1>0, <1>1 DEF Stack, Active
<1>4. Explored'
  <2> SUFFICES ASSUME NEW u \in Nodes, Active(u)
               PROVE  /\ eind'[u] <= Degree(u)
                      /\ \A i \in 1..eind'[u] :
                           \/ mark[Succ(u, i)] = "Finished"
                           \/ Active(Succ(u, i)) /\ par[Succ(u, i)] = u
    BY <1>1, SameEdges DEF Explored, Active
  <2>1. /\ eind[u] <= Degree(u) /\ eind[u] \in Nat
        /\ \A i \in 1..eind[u] :
             \/ mark[Succ(u, i)] = "Finished"
             \/ Active(Succ(u, i)) /\ par[Succ(u, i)] = u
    BY <1>1 DEF IInv, Explored, TypeOK
  <2> QED
    BY <1>1, <2>1 DEF TypeOK
<1>5. PostOrder'
  BY <1>1 DEF IInv, PostOrder
<1> QED
  BY <1>1, <1>2, <1>3, <1>4, <1>5 DEF IInv, Depths, CyclePath, Answered

\* Finding the edge that closes a cycle: every active vertex is on the stack
\* at or below cur, so the walk will meet the edge's end.
LEMMA CloseCycleInv ==
  ASSUME IInv, CloseCycle
  PROVE  IInv'
<1> USE DEF Nodes, Vertices, Root
<1>0. PICK d \in Depths : Stack(d)
  BY DEF IInv
<1>1. PICK adj \in Vertices(graph) : TakeEdge(adj) /\ mark[adj] = "Active" /\ target' = adj
  BY DEF CloseCycle
<1>2. /\ TypeOK /\ pc = "search" /\ pc' = "walk" /\ cur \in Nodes /\ Len(graph) \in Nat
      /\ UNCHANGED <<graph, mark, par, cur, ret, cycle, result>>
      /\ eind' = [eind EXCEPT ![cur] = @ + 1]
      /\ cycle = <<>>
  <2>1. TypeOK /\ pc = "search"
    BY DEF IInv, CloseCycle, TakeEdge
  <2> QED
    BY <2>1, ReadTypes DEF IInv, CloseCycle
<1>3. TypeOK'
  <2>1. eind' \in [Nodes -> Nat] /\ target' \in Nodes
    BY <1>1, <1>2, ReadTypes DEF TypeOK
  <2> QED
    BY <1>2, <2>1 DEF TypeOK
<1>4. cur # Root
  \* the root's edges are looked at only when nothing else is active
  BY <1>0, <1>1, <1>2 DEF Stack, Active, TypeOK, Depths
<1>5. Edge(graph, cur, adj)
  <2>1. graph[cur] \in Seq(Nat) /\ eind[cur] \in Nat
    BY <1>2, <1>4, ReadTypes
  <2> QED
    BY <1>1, <1>2, <1>4, <2>1 DEF TakeEdge, Edge, Degree, Succ
<1>6. Stack(d)'
  BY <1>0, <1>1, <1>2 DEF Stack, Active
<1>7. CyclePath'
  BY <1>1, <1>2, <1>5 DEF CyclePath
<1> QED
  BY <1>2, <1>3, <1>6, <1>7 DEF IInv, Depths, Explored, PostOrder, Answered

\* When the root has no vertex left, every vertex is finished: one still
\* active would be a child of the root, deeper than cur.
LEMMA ReturnInv ==
  ASSUME IInv, Return
  PROVE  IInv'
<1>0. PICK d \in Depths : Stack(d)
  BY DEF IInv
<1>1. /\ TypeOK /\ pc = "search" /\ pc' = "ok" /\ cur = Root
      /\ Len(graph) \in Nat /\ eind[Root] = Len(graph)
      /\ UNCHANGED <<graph, mark, eind, par, cur, ret, cycle, target>>
      /\ result' = Reverse(ret)
  BY ReadTypes DEF IInv, Return, Degree
<1>2. \A v \in Vertices(graph) : mark[v] = "Finished"
  <2> SUFFICES ASSUME NEW v \in Vertices(graph) PROVE mark[v] = "Finished"
    OBVIOUS
  <2>1. Active(Root) /\ Root \in Nodes /\ v \in Nodes /\ v \in 1..eind[Root] /\ Succ(Root, v) = v
    BY <1>0, <1>1 DEF Stack, Vertices, Nodes, Root, Succ
  <2>2. mark[v] = "Finished" \/ (Active(v) /\ par[v] = Root)
    BY <1>1, <2>1 DEF IInv, Explored
  <2>3. Active(v) /\ par[v] = Root => d[v] = 1 /\ d[v] <= d[cur] /\ d[cur] = 0
    BY <1>0, <1>1, <2>1 DEF Stack
  <2> QED
    BY <2>2, <2>3
<1>3. IsOrder(graph, result')
  BY <1>1, <1>2, ReversedPostOrder DEF IInv
<1>4. TypeOK'
  BY <1>1, <1>3 DEF TypeOK, IsOrder, Nodes
<1>5. Stack(d)'
  BY <1>0, <1>1 DEF Stack, Active, Nodes
<1> QED
  BY <1>1, <1>3, <1>4, <1>5
     DEF IInv, Depths, Nodes, Explored, PostOrder, CyclePath, Answered

\* Going back to the parent keeps the target at or below cur, so cur cannot be
\* the root.
LEMMA WalkInv ==
  ASSUME IInv, Walk
  PROVE  IInv'
<1>0. PICK d \in Depths : Stack(d)
  BY DEF IInv
<1>1. /\ TypeOK /\ pc = "walk" /\ cur # target /\ cur \in Nodes /\ target \in Nodes
      /\ cycle' = Append(cycle, cur) /\ cur' = par[cur] /\ cycle \in Seq(Vertices(graph))
      /\ UNCHANGED <<graph, mark, eind, par, ret, target, result, pc>>
  BY DEF IInv, TypeOK, Walk
<1>2. Len(graph) \in Nat /\ d \in [Nodes -> Nat]
  BY <1>1, ReadTypes DEF Depths
<1>3. /\ target # Root /\ Active(target) /\ d[target] < d[cur]
      /\ Active(cur) /\ d[target] \in Nat /\ d[cur] \in Nat
  BY <1>0, <1>1, <1>2 DEF Stack
<1>4. cur \in Vertices(graph) /\ target \in Vertices(graph)
  BY <1>0, <1>1, <1>2, <1>3 DEF Stack, Nodes, Vertices, Root
<1>5. /\ par[cur] \in Nodes /\ Active(par[cur]) /\ d[cur] = d[par[cur]] + 1
      /\ d[par[cur]] \in Nat
  BY <1>0, <1>2, <1>3, <1>4 DEF Stack
<1>6. d[target] >= 1
  BY <1>0, <1>2, <1>3, <1>4 DEF Stack, Depths
<1>7. par[cur] # Root /\ Edge(graph, par[cur], cur)
  BY <1>0, <1>3, <1>4, <1>5, <1>6 DEF Stack
<1>8. TypeOK'
  BY <1>1, <1>4, <1>5 DEF TypeOK, Nodes
<1>9. Stack(d)'
  BY <1>0, <1>1, <1>3, <1>5 DEF Stack, Active, Nodes
<1>10. CyclePath'
  <2>1. cycle = <<>> => cycle' = <<cur>> /\ Edge(graph, cur, target)
    BY <1>1 DEF IInv, CyclePath
  <2>2. ASSUME cycle # <<>>
        PROVE  /\ Len(cycle) \in Nat /\ Len(cycle) >= 1
               /\ Len(cycle') = Len(cycle) + 1 /\ cycle'[Len(cycle) + 1] = cur
               /\ \A i \in 1..Len(cycle) : cycle'[i] = cycle[i]
               /\ Edge(graph, cur, cycle[Len(cycle)])
               /\ Edge(graph, cycle[1], target)
               /\ \A i \in 1..(Len(cycle) - 1) : Edge(graph, cycle[i + 1], cycle[i])
    BY <1>1, <2>2 DEF IInv, CyclePath
  <2>3. CASE cycle = <<>>
    BY <1>1, <1>7, <2>1, <2>3 DEF CyclePath
  <2>4. CASE cycle # <<>>
    <3>1. ASSUME NEW i \in 1..(Len(cycle') - 1)
          PROVE  Edge(graph, cycle'[i + 1], cycle'[i])
      <4>1. CASE i = Len(cycle)
        BY <2>2, <2>4, <4>1
      <4>2. CASE i # Len(cycle)
        <5>1. i \in 1..(Len(cycle) - 1) /\ i \in 1..Len(cycle) /\ i + 1 \in 1..Len(cycle)
          BY <2>2, <2>4, <4>2
        <5> QED
          BY <2>2, <2>4, <5>1
      <4> QED
        BY <4>1, <4>2
    <3>2. Edge(graph, cycle'[1], target) /\ Edge(graph, cur', cycle'[Len(cycle')])
      BY <1>1, <1>7, <2>2, <2>4
    <3> QED
      BY <1>1, <2>2, <2>4, <3>1, <3>2 DEF CyclePath
  <2> QED
    BY <2>3, <2>4
<1> QED
  BY <1>1, <1>8, <1>9, <1>10 DEF IInv, Depths, Nodes, Explored, PostOrder, Answered

\* The walk has reached the target: what it read, reversed, is a cycle.
LEMMA ReturnCycleInv ==
  ASSUME IInv, ReturnCycle
  PROVE  IInv'
<1>0. PICK d \in Depths : Stack(d)
  BY DEF IInv
<1>1. /\ TypeOK /\ pc = "walk" /\ pc' = "err" /\ cur = target /\ target \in Nodes
      /\ cycle' = Append(cycle, cur) /\ cycle \in Seq(Vertices(graph))
      /\ result' = Reverse(cycle')
      /\ UNCHANGED <<graph, mark, eind, par, cur, ret, target>>
      /\ target \in Vertices(graph)
  BY <1>0, ReadTypes DEF IInv, TypeOK, ReturnCycle, Stack, Nodes, Vertices, Root
<1> DEFINE n == Len(cycle)
<1>2. /\ n \in Nat /\ cycle' \in Seq(Vertices(graph)) /\ Len(cycle') = n + 1
      /\ cycle'[n + 1] = target /\ \A i \in 1..n : cycle'[i] = cycle[i]
  BY <1>1
<1>3. /\ result' \in Seq(Vertices(graph)) /\ Len(result') = n + 1
      /\ \A i \in 1..(n + 1) : result'[i] = cycle'[n + 1 - i + 1]
  <2> DEFINE c == cycle'
             r == result'
             m == Len(c)
  <2>1. c \in Seq(Vertices(graph)) /\ r = Reverse(c) /\ m = n + 1 /\ n \in Nat
    BY <1>1, <1>2
  <2> HIDE DEF c, r, n
  <2>2. r \in Seq(Vertices(graph)) /\ Len(r) = m /\ \A i \in 1..m : r[i] = c[m - i + 1]
    BY <2>1, ReverseElements
  <2> HIDE DEF m
  <2>3. r \in Seq(Vertices(graph)) /\ Len(r) = n + 1 /\ \A i \in 1..(n + 1) : r[i] = c[n + 1 - i + 1]
    BY <2>1, <2>2
  <2> QED
    BY <2>3 DEF c, r
<1>4. ASSUME NEW i \in 1..n
      PROVE  Edge(graph, cycle'[i + 1], cycle'[i])
  <2>1. n >= 1 /\ cycle # <<>>
    BY <1>1, <1>2
  <2>2. CASE i = n
    BY <1>1, <1>2, <2>1, <2>2 DEF IInv, CyclePath
  <2>3. CASE i # n
    <3>1. i \in 1..(n - 1) /\ i + 1 \in 1..n
      BY <1>2, <2>3
    <3> QED
      BY <1>1, <1>2, <2>1, <3>1 DEF IInv, CyclePath
  <2> QED
    BY <2>2, <2>3
<1>5. Edge(graph, cycle'[1], target)
  BY <1>1, <1>2 DEF IInv, CyclePath
<1>6. IsCycle(graph, result')
  <2>1. ASSUME NEW i \in 1..n
        PROVE  Edge(graph, result'[i], result'[i + 1])
    <3>1. /\ n + 1 - i \in 1..n /\ i \in 1..(n + 1) /\ i + 1 \in 1..(n + 1)
          /\ n + 1 - i + 1 = (n + 1 - i) + 1 /\ n + 1 - (i + 1) + 1 = n + 1 - i
      BY <1>2
    <3>2. result'[i] = cycle'[(n + 1 - i) + 1] /\ result'[i + 1] = cycle'[n + 1 - i]
      BY <1>2, <1>3, <3>1
    <3> QED
      BY <1>4, <3>1, <3>2
  <2>2. result'[1] = target /\ result'[n + 1] = cycle'[1]
    BY <1>2, <1>3
  <2> QED
    BY <1>2, <1>3, <1>5, <2>1, <2>2 DEF IsCycle
<1>7. TypeOK'
  BY <1>1, <1>2, <1>3 DEF TypeOK, Nodes
<1>8. Stack(d)'
  BY <1>0, <1>1 DEF Stack, Active, Nodes
<1> QED
  BY <1>1, <1>6, <1>7, <1>8 DEF IInv, Depths, Nodes, Explored, PostOrder, CyclePath, Answered

\* A further call, on another graph, establishes the invariant.
LEMMA RestartInv ==
  ASSUME NEW g, IsGraph(g), Restart(g)
  PROVE  IInv'
<1>1. Start(graph)' /\ IsGraph(graph)'
  BY DEF Restart, Start
<1>2. Init'
  BY <1>1 DEF Init
<1>3. Init' => IInv'
  BY StartInv, PTL
<1> QED
  BY <1>2, <1>3

-----------------------------------------------------------------------------
\* Every step of the search keeps the invariant; the composed modules use it.
LEMMA StepInv ==
  ASSUME IInv, Step
  PROVE  IInv'
<1>1. CASE Descend
  <2>1. PICK adj \in Vertices(graph) :
          /\ TakeEdge(adj)
          /\ mark[adj] = "Unvisited"
          /\ mark' = [mark EXCEPT ![adj] = "Active"]
          /\ eind' = [eind EXCEPT ![cur] = @ + 1, ![adj] = 0]
          /\ par' = [par EXCEPT ![adj] = cur]
          /\ cur' = adj
          /\ UNCHANGED <<graph, ret, cycle, target, result, pc>>
    BY <1>1 DEF Descend
  <2> QED
    BY <2>1, DescendInv
<1> QED
  BY <1>1, ReturnInv, FinishInv, SkipInv, CloseCycleInv, WalkInv, ReturnCycleInv DEF Step

\* The inductive invariant holds in every behaviour.
THEOREM Invariance == Spec => []IInv
<1>1. Init => IInv
  BY StartInv
<1>2. IInv /\ [Next]_vars => IInv'
  <2> SUFFICES ASSUME IInv, [Next]_vars PROVE IInv'
    OBVIOUS
  <2>1. CASE Step
    BY <2>1, StepInv
  <2>2. CASE UNCHANGED vars
    <3>1. UNCHANGED <<graph, mark, eind, par, cur, ret, cycle, target, result, pc>>
      BY <2>2 DEF vars
    <3>2. TypeOK' /\ Explored' /\ PostOrder' /\ CyclePath' /\ Answered'
      BY <3>1, SameEdges DEF IInv, TypeOK, Nodes, Explored, Active, PostOrder, CyclePath, Answered
    <3>3. PICK d \in Depths : Stack(d)
      BY DEF IInv
    <3>4. d \in Depths' /\ Stack(d)'
      BY <3>1, <3>3 DEF Depths, Nodes, Stack, Active
    <3> QED
      BY <3>1, <3>2, <3>4 DEF IInv
  <2> QED
    BY <2>1, <2>2 DEF Next, Done
<1> QED
  BY <1>1, <1>2, PTL DEF Spec

(***************************************************************************)
(* The variables of the search keep their types, for every graph.          *)
(***************************************************************************)
THEOREM TypeCorrect == Spec => []TypeOK
<1>1. IInv => TypeOK
  BY DEF IInv
<1> QED
  BY <1>1, Invariance, PTL

(***************************************************************************)
(* No panic of toposort is reachable, for every graph.                     *)
(***************************************************************************)
THEOREM NeverPanics == Spec => []NoPanic
<1>1. IInv => NoPanic
  <2> SUFFICES ASSUME IInv PROVE NoPanic
    OBVIOUS
  <2>1. PICK d \in Depths : Stack(d)
    BY DEF IInv
  <2>2. TypeOK /\ Len(graph) \in Nat
    BY ReadTypes DEF IInv
  <2>3. ASSUME pc = "walk" PROVE cur # Root
    BY <2>1, <2>2, <2>3 DEF Stack, TypeOK, Depths, Nodes, Vertices, Root
  <2> QED
    BY <2>1, <2>3 DEF Stack, Active, NoPanic
<1> QED
  BY <1>1, Invariance, PTL

LEMMA NothingAnswered == Init => Contract!ContractInit
BY DEF Init, Start, Contract!ContractInit, Contract!Pending, answer, Returned

\* A step of the search answers, or leaves the answer alone.
LEMMA SearchAnswers ==
  ASSUME IInv, IInv', [Next]_vars
  PROVE  Contract!Answer \/ UNCHANGED <<graph, answer>>
<1> USE DEF answer, Returned
<1>1. /\ \A s : IsOrder(graph, s) => Contract!IsOrder(graph, s)
      /\ \A s : IsCycle(graph, s) => Contract!IsCycle(graph, s)
  BY DEF IsOrder, IsCycle, Edge, Vertices, Contract!IsOrder, Contract!IsCycle,
         Contract!Edge, Contract!Vertices
<1>2. CASE Return
  <2>1. /\ answer' = [kind |-> "ok", vertices |-> result'] /\ answer = Contract!Pending
        /\ graph' = graph /\ IsOrder(graph, result')
    BY <1>2 DEF Return, IInv, Answered, Contract!Pending
  <2> QED
    BY <1>1, <2>1 DEF Contract!Answer
<1>3. CASE ReturnCycle
  <2>1. /\ answer' = [kind |-> "err", vertices |-> result'] /\ answer = Contract!Pending
        /\ graph' = graph /\ IsCycle(graph, result')
    BY <1>3 DEF ReturnCycle, IInv, Answered, Contract!Pending
  <2> QED
    BY <1>1, <2>1 DEF Contract!Answer
<1>4. CASE Finish \/ Descend \/ Skip \/ CloseCycle \/ Walk
  BY <1>4 DEF Finish, Descend, Skip, CloseCycle, Walk, TakeEdge
<1>5. CASE UNCHANGED vars
  BY <1>5 DEF vars
<1> QED
  BY <1>2, <1>3, <1>4, <1>5 DEF Next, Done, Step

(***************************************************************************)
(* The search implements its contract, for every graph: what it returns is *)
(* an ordering with every edge forward, or a cycle of the graph.           *)
(***************************************************************************)
THEOREM Refinement == Spec => ImplementsContract
<1>1. IInv /\ IInv' /\ [Next]_vars => [Contract!Answer \/ Contract!Ask]_<<graph, answer>>
  BY SearchAnswers
<1> QED
  BY <1>1, NothingAnswered, Invariance, PTL
     DEF Spec, ImplementsContract, Contract!ContractSpec, Contract!contractVars

----------------------------------------------------------------------------
(***************************************************************************)
(* The link order.  Toposort's invariant gives a topological order;        *)
(* propagating the keys backwards makes the key of a unit no larger than   *)
(* its successors'; a stable sort by such a key cannot reverse an edge.    *)
(***************************************************************************)
\* The key of u is at most those of the successors the edges D of u lead to.
BelowSuccessors(u, D) == \A k \in D : key[u] <= key[graph[u][k]]

\* While the keys are propagated: done for the vertices after left, and for
\* the edges before eye of the vertex at left.
Propagating ==
  phase = "keys" =>
    /\ left <= Len(result)
    /\ \A i \in DOMAIN result : i > left =>
         BelowSuccessors(result[i], DOMAIN graph[result[i]])
    /\ left > 0 =>
         BelowSuccessors(result[left], {k \in DOMAIN graph[result[left]] : k < eye})

LIInv ==
  /\ IInv
  /\ LTypeOK
  /\ phase \in {"keys", "done"} => pc = "ok"
  /\ phase \in {"build", "sort", "bail"} => left = 0 /\ eye = 1
  /\ Propagating
  /\ OrderRespectsEdges

-----------------------------------------------------------------------------
\* In an order of the graph, the key of a vertex is changed only after those
\* of its successors, and it is not one of its own successors.
LEMMA SuccessorsLater ==
  ASSUME IsGraph(graph), IsOrder(graph, result),
         NEW i \in DOMAIN result, NEW k \in DOMAIN graph[result[i]]
  PROVE  /\ graph[result[i]][k] \in Vertices(graph)
         /\ \E j \in DOMAIN result : j > i /\ result[j] = graph[result[i]][k]
<1> DEFINE v == graph[result[i]][k]
<1>1. result[i] \in Vertices(graph) /\ Len(graph) \in Nat
  BY DEF IsOrder, IsGraph
<1>2. v \in Vertices(graph)
  BY <1>1 DEF IsGraph, Vertices
<1>3. PICK j \in DOMAIN result : result[j] = v
  BY <1>2 DEF IsOrder
<1>4. Edge(graph, result[i], result[j])
  BY <1>3 DEF Edge
<1>5. i < j
  BY <1>3, <1>4 DEF IsOrder
<1> QED
  BY <1>2, <1>3, <1>5 DEF IsOrder

\* Sorting stably by a key that no edge decreases keeps an order of the graph.
LEMMA StableSortKeepsOrder ==
  ASSUME IsGraph(graph), IsOrder(graph, result),
         key \in [Vertices(graph) -> 0..MaxKey],
         \A i \in DOMAIN result : BelowSuccessors(result[i], DOMAIN graph[result[i]]),
         NEW p \in [DOMAIN result -> DOMAIN result], StableSort(p)
  PROVE  IsOrder(graph, [i \in DOMAIN result |-> result[p[i]]])
<1> DEFINE s == [i \in DOMAIN result |-> result[p[i]]]
           D == DOMAIN result
<1>0. /\ result \in Seq(Vertices(graph)) /\ Len(result) \in Nat /\ D = 1..Len(result)
      /\ \A i \in D : p[i] \in D /\ result[p[i]] \in Vertices(graph)
  BY DEF IsOrder
<1>1. s \in Seq(Vertices(graph)) /\ DOMAIN s = D /\ \A i \in D : s[i] = result[p[i]]
  BY <1>0
<1>2. Vertices(graph) \subseteq {s[i] : i \in DOMAIN s}
  <2> SUFFICES ASSUME NEW v \in Vertices(graph) PROVE \E i \in D : s[i] = v
    BY <1>1
  <2>1. PICK k \in D : result[k] = v
    BY DEF IsOrder
  <2>2. PICK i \in D : p[i] = k
    BY <2>1 DEF StableSort
  <2> QED
    BY <1>1, <2>1, <2>2
<1>3. \A i, j \in DOMAIN s : s[i] = s[j] => i = j
  <2> SUFFICES ASSUME NEW i \in D, NEW j \in D, s[i] = s[j] PROVE i = j
    BY <1>1
  <2>1. result[p[i]] = result[p[j]]
    BY <1>1
  <2>2. p[i] = p[j]
    BY <1>0, <2>1 DEF IsOrder
  <2> QED
    BY <2>2 DEF StableSort
<1>4. \A i, j \in DOMAIN s : Edge(graph, s[i], s[j]) => i < j
  <2> SUFFICES ASSUME NEW i \in D, NEW j \in D, Edge(graph, s[i], s[j]), ~(i < j)
               PROVE  FALSE
    BY <1>1
  <2>1. Edge(graph, result[p[i]], result[p[j]])
    BY <1>1
  <2>2. p[i] < p[j]
    BY <1>0, <2>1 DEF IsOrder
  <2>3. PICK k \in DOMAIN graph[result[p[i]]] : graph[result[p[i]]][k] = result[p[j]]
    BY <2>1 DEF Edge
  <2>4. key[result[p[i]]] <= key[result[p[j]]]
    BY <1>0, <2>3 DEF BelowSuccessors
  <2>5. key[result[p[i]]] \in Int /\ key[result[p[j]]] \in Int
    BY <1>0
  <2>6. i \in Int /\ j \in Int /\ p[i] \in Int /\ p[j] \in Int /\ (i = j \/ j < i)
    BY <1>0
  <2>7. CASE j < i
    BY <2>2, <2>4, <2>5, <2>6, <2>7 DEF StableSort
  <2>8. CASE i = j
    BY <2>2, <2>6, <2>8
  <2> QED
    BY <2>6, <2>7, <2>8
<1> QED
  BY <1>1, <1>2, <1>3, <1>4 DEF IsOrder

-----------------------------------------------------------------------------
\* Every layout starts in a state of the invariant.
LEMMA LInitInv == LInit => LIInv
<1> SUFFICES ASSUME LInit PROVE LIInv
  OBVIOUS
<1>1. /\ IsGraph(graph) /\ Start(graph) /\ boundary \subseteq Vertices(graph) \X Vertices(graph)
      /\ key = [u \in 1..Len(graph) |-> MinAddr(layout, u)]
      /\ \A u \in Vertices(graph) : MinAddr(layout, u) \in 0..MaxKey
  BY LayoutAssumption DEF LInit, LStart
<1>2. IInv
  BY <1>1, StartInv DEF Init
<1>3. LTypeOK
  <2>1. key \in [Vertices(graph) -> 0..MaxKey]
    BY <1>1 DEF Vertices
  <2>2. Len(graph) \in Nat
    BY <1>1 DEF IsGraph
  <2> QED
    BY <1>1, <1>2, <2>1, <2>2 DEF LInit, LStart, LTypeOK, IInv
<1> QED
  BY <1>2, <1>3 DEF LInit, LStart, LIInv, Propagating, OrderRespectsEdges

\* A step that leaves Toposort's variables alone keeps its invariant.
LEMMA UnchangedInv ==
  ASSUME IInv, UNCHANGED vars
  PROVE  IInv'
<1>1. UNCHANGED <<graph, mark, eind, par, cur, ret, cycle, target, result, pc>>
  BY DEF vars
<1>2. TypeOK' /\ Explored' /\ PostOrder' /\ CyclePath' /\ Answered'
  BY <1>1, SameEdges DEF IInv, TypeOK, Nodes, Explored, Active, PostOrder, CyclePath, Answered
<1>3. PICK d \in Depths : Stack(d)
  BY DEF IInv
<1>4. d \in Depths' /\ Stack(d)'
  BY <1>1, <1>3 DEF Depths, Nodes, Stack, Active
<1> QED
  BY <1>1, <1>2, <1>4 DEF IInv

\* Removing an edge gives a graph on the same units.
LEMMA BreakEdgeInv ==
  ASSUME LIInv, BreakEdge
  PROVE  LIInv'
<1> DEFINE e == EdgeToBreak(result)
           s == graph[e[1]]
<1>0. PICK m \in 0..Len(s) : \E f \in [1..m -> DOMAIN s] :
        Restart([graph EXCEPT ![e[1]] = [i \in 1..m |-> s[f[i]]]])
  BY DEF BreakEdge
<1>1. PICK f \in [1..m -> DOMAIN s] :
        Restart([graph EXCEPT ![e[1]] = [i \in 1..m |-> s[f[i]]]])
  BY <1>0
<1> DEFINE g == [graph EXCEPT ![e[1]] = [i \in 1..m |-> s[f[i]]]]
<1>2. /\ IsGraph(graph) /\ Len(graph) \in Nat /\ phase = "sort" /\ phase' = phase
      /\ boundary' \subseteq boundary
      /\ UNCHANGED <<layout, key, left, eye, ordered>>
  BY ReadTypes DEF LIInv, IInv, BreakEdge
<1>3. IsGraph(g) /\ Len(g) = Len(graph)
  <2>1. CASE e[1] \notin DOMAIN graph
    <3>1. g = graph
      BY <1>2, <2>1 DEF IsGraph
    <3> QED
      BY <1>2, <3>1
  <2>2. CASE e[1] \in DOMAIN graph
    <3>1. s \in Seq(Nat) /\ m \in Nat
      BY <1>2, <2>2 DEF IsGraph
    <3>2. /\ [i \in 1..m |-> s[f[i]]] \in Seq(Nat)
          /\ \A i \in 1..m : f[i] \in DOMAIN s
      BY <3>1
    <3>3. \A i \in 1..m : s[f[i]] \in Vertices(graph)
      BY <1>2, <2>2, <3>2 DEF IsGraph
    <3> QED
      BY <1>2, <2>2, <3>1, <3>2, <3>3 DEF IsGraph, Vertices
  <2> QED
    BY <2>1, <2>2
<1>4. IInv' /\ graph' = g
  BY <1>1, <1>3, RestartInv DEF Restart
<1>5. LTypeOK'
  BY <1>2, <1>3, <1>4 DEF LIInv, IInv, LTypeOK, Vertices
<1> QED
  BY <1>2, <1>4, <1>5 DEF LIInv, Propagating, OrderRespectsEdges

\* One comparison of the key of a unit with that of a successor.
LEMMA PropagateInv ==
  ASSUME LIInv, Propagate
  PROVE  LIInv'
<1> DEFINE u == result[left]
           v == graph[u][eye]
<1>1. /\ phase = "keys" /\ phase' = "keys" /\ pc = "ok"
      /\ IsGraph(graph) /\ IsOrder(graph, result)
      /\ left \in Nat /\ left > 0 /\ left <= Len(result) /\ eye \in Nat \ {0} /\ eye <= Len(graph[u])
      /\ key \in [Vertices(graph) -> 0..MaxKey]
      /\ key' = IF key[v] < key[u] THEN [key EXCEPT ![u] = key[v]] ELSE key
      /\ eye' = eye + 1 /\ UNCHANGED <<vars, layout, boundary, left, ordered, phase>>
  BY DEF LIInv, IInv, TypeOK, LTypeOK, Answered, Propagate, Propagating
<1>2. /\ UNCHANGED <<graph, result, pc>> /\ IInv'
  BY <1>1, UnchangedInv DEF LIInv, vars
<1>3. left \in DOMAIN result /\ u \in Vertices(graph) /\ Len(graph) \in Nat
  BY <1>1 DEF IsOrder, IsGraph
<1>4. DOMAIN graph[u] = 1..Len(graph[u]) /\ eye \in DOMAIN graph[u] /\ DOMAIN result = 1..Len(result)
  BY <1>1, <1>3 DEF IsGraph, IsOrder
<1>5. v \in Vertices(graph) /\ \E j \in DOMAIN result : j > left /\ result[j] = v
  BY <1>1, <1>3, <1>4, SuccessorsLater
<1>6. \A i, j \in DOMAIN result : result[i] = result[j] => i = j
  BY <1>1 DEF IsOrder
<1>7. v # u
  BY <1>1, <1>3, <1>5, <1>6
<1>8. /\ key' \in [Vertices(graph) -> 0..MaxKey]
      /\ \A w \in Vertices(graph) : w # u => key'[w] = key[w]
      /\ key'[u] <= key[u] /\ key'[u] <= key[v]
  <2>1. key[u] \in 0..MaxKey /\ key[v] \in 0..MaxKey /\ MaxKey \in Nat
    <3>1. \A w \in Vertices(graph) : key[w] \in 0..MaxKey
      BY <1>1
    <3>2. u \in Vertices(graph) /\ v \in Vertices(graph)
      BY <1>3, <1>5
    <3>3. MaxKey \in Nat
      BY DEF MaxKey
    <3> HIDE DEF u, v
    <3> QED
      BY <3>1, <3>2, <3>3
  <2>2. CASE key[v] < key[u]
    BY <1>1, <1>3, <1>5, <2>1, <2>2
  <2>3. CASE ~(key[v] < key[u])
    BY <1>1, <1>3, <1>5, <2>1, <2>3
  <2> QED
    BY <2>2, <2>3
<1>9. ASSUME NEW i \in DOMAIN result, i >= left, NEW k \in DOMAIN graph[result[i]]
      PROVE  key'[graph[result[i]][k]] = key[graph[result[i]][k]]
  <2>1. PICK j \in DOMAIN result : j > i /\ result[j] = graph[result[i]][k]
    BY <1>1, SuccessorsLater
  <2>2. graph[result[i]][k] \in Vertices(graph)
    BY <1>1, SuccessorsLater
  <2>3. graph[result[i]][k] # u
    BY <1>1, <1>3, <1>4, <1>6, <1>9, <2>1
  <2> QED
    BY <1>8, <2>2, <2>3
<1>10. Propagating'
  <2>1. ASSUME NEW i \in DOMAIN result, i > left, NEW k \in DOMAIN graph[result[i]]
        PROVE  key'[result[i]] <= key'[graph[result[i]][k]]
    <3>1. result[i] \in Vertices(graph) /\ result[i] # u
      <4>1. i # left /\ i >= left
        BY <1>1, <1>4, <2>1
      <4> QED
        BY <1>1, <1>3, <1>6, <4>1 DEF IsOrder
    <3>2. key[result[i]] <= key[graph[result[i]][k]]
      BY <1>1, <2>1 DEF LIInv, Propagating, BelowSuccessors
    <3>3. i >= left
      BY <1>1, <1>4, <2>1
    <3>4. key'[graph[result[i]][k]] = key[graph[result[i]][k]]
      BY <1>9, <3>3
    <3> QED
      BY <1>8, <3>1, <3>2, <3>4
  <2>2. ASSUME NEW k \in DOMAIN graph[u], k < eye + 1
        PROVE  key'[u] <= key'[graph[u][k]]
    <3>1. key'[graph[u][k]] = key[graph[u][k]]
      BY <1>3, <1>4, <1>9
    <3>2. CASE k = eye
      BY <1>8, <3>1, <3>2
    <3>3. CASE k < eye
      <4>1. key[u] <= key[graph[u][k]]
        BY <1>1, <3>3 DEF LIInv, Propagating, BelowSuccessors
      <4>2. graph[u][k] \in Vertices(graph)
        BY <1>1, <1>3, SuccessorsLater
      <4>3. /\ key[u] \in Int /\ key'[u] \in Int /\ key[graph[u][k]] \in Int
        BY <1>1, <1>3, <1>8, <4>2
      <4> QED
        BY <1>8, <3>1, <4>1, <4>3
    <3> QED
      BY <1>1, <1>4, <2>2, <3>2, <3>3
  <2> QED
    BY <1>1, <1>2, <2>1, <2>2 DEF Propagating, BelowSuccessors
<1>11. LTypeOK'
  BY <1>1, <1>2, <1>8 DEF LIInv, IInv, LTypeOK
<1> QED
  BY <1>1, <1>2, <1>10, <1>11 DEF LIInv, OrderRespectsEdges

\* The next vertex starts at its first edge.
LEMMA PropagatedInv ==
  ASSUME LIInv, Propagated
  PROVE  LIInv'
<1>1. /\ phase = "keys" /\ phase' = "keys" /\ pc = "ok"
      /\ IsGraph(graph) /\ IsOrder(graph, result) /\ Len(graph) \in Nat
      /\ left \in Nat /\ left > 0 /\ left <= Len(result) /\ left' = left - 1
      /\ eye \in Nat \ {0} /\ eye > Len(graph[result[left]]) /\ eye' = 1
      /\ UNCHANGED <<vars, layout, boundary, key, ordered, phase>>
  BY ReadTypes DEF LIInv, IInv, TypeOK, LTypeOK, Answered, Propagated, Propagating
<1>2. UNCHANGED <<graph, result, pc>> /\ IInv'
  BY <1>1, UnchangedInv DEF LIInv, vars
<1>3. LTypeOK'
  BY <1>1, <1>2 DEF LIInv, IInv, LTypeOK
<1>4. Propagating'
  <2>1. left \in DOMAIN result /\ result[left] \in Vertices(graph) /\ DOMAIN result = 1..Len(result)
    BY <1>1 DEF IsOrder
  <2>2. DOMAIN graph[result[left]] = 1..Len(graph[result[left]])
        /\ Len(graph[result[left]]) \in Nat
    BY <1>1, <2>1 DEF IsGraph
  <2>3. ASSUME NEW i \in DOMAIN result, i > left - 1
        PROVE  BelowSuccessors(result[i], DOMAIN graph[result[i]])
    <3>1. CASE i = left
      <4>1. BelowSuccessors(result[left], {k \in DOMAIN graph[result[left]] : k < eye})
        BY <1>1 DEF LIInv, Propagating
      <4>2. \A k \in DOMAIN graph[result[left]] : k < eye
        BY <1>1, <2>2
      <4> QED BY <3>1, <4>1, <4>2 DEF BelowSuccessors
    <3>2. CASE i > left
      BY <1>1, <3>2 DEF LIInv, Propagating
    <3> QED
      BY <1>1, <2>1, <2>3, <3>1, <3>2
  <2>4. ASSUME left - 1 > 0
        PROVE  \A k \in DOMAIN graph[result[left - 1]] : ~(k < 1)
    <3>1. left - 1 \in DOMAIN result /\ result[left - 1] \in Vertices(graph)
      BY <1>1, <2>1, <2>4 DEF IsOrder
    <3>2. graph[result[left - 1]] \in Seq(Nat)
      BY <1>1, <3>1, ReadTypes DEF LIInv, IInv
    <3> QED
      BY <3>2
  <2> QED
    BY <1>1, <1>2, <2>3, <2>4 DEF Propagating, BelowSuccessors
<1> QED
  BY <1>1, <1>2, <1>3, <1>4 DEF LIInv, OrderRespectsEdges

\* The sort keeps the order of every edge.
LEMMA SortByKeyInv ==
  ASSUME LIInv, SortByKey
  PROVE  LIInv'
<1>1. /\ phase = "keys" /\ phase' = "done" /\ pc = "ok" /\ left = 0
      /\ IsGraph(graph) /\ IsOrder(graph, result)
      /\ key \in [Vertices(graph) -> 0..MaxKey]
      /\ UNCHANGED <<vars, layout, boundary, key, left, eye>>
  BY DEF LIInv, IInv, TypeOK, LTypeOK, Answered, SortByKey
<1>2. UNCHANGED <<graph, result, pc>> /\ IInv'
  BY <1>1, UnchangedInv DEF LIInv, vars
<1>3. PICK p \in [DOMAIN result -> DOMAIN result] :
        StableSort(p) /\ ordered' = [i \in DOMAIN result |-> result[p[i]]]
  BY DEF SortByKey
<1>4. \A i \in DOMAIN result : BelowSuccessors(result[i], DOMAIN graph[result[i]])
  BY <1>1 DEF LIInv, Propagating, IsOrder
<1>5. IsOrder(graph, ordered')
  BY <1>1, <1>3, <1>4, StableSortKeepsOrder
<1>6. LTypeOK'
  BY <1>1, <1>2, <1>5 DEF LIInv, IInv, LTypeOK, IsOrder
<1> QED
  BY <1>1, <1>2, <1>5, <1>6 DEF LIInv, Propagating, OrderRespectsEdges

\* The other steps.
LEMMA LNextInv ==
  ASSUME LIInv, [LNext]_allVars
  PROVE  LIInv'
<1>1. CASE Bail \/ Build
  <2>1. IInv' /\ UNCHANGED <<vars, layout, boundary, key, left, eye, ordered>>
        /\ phase' \in {"sort", "bail"} /\ phase = "build"
    BY <1>1, UnchangedInv DEF LIInv, Bail, Build
  <2>2. UNCHANGED <<graph, result, pc>>
    BY <2>1 DEF vars
  <2>3. LTypeOK'
    BY <2>1, <2>2 DEF LIInv, IInv, LTypeOK
  <2> QED
    BY <2>1, <2>3 DEF LIInv, Propagating, OrderRespectsEdges
<1>2. CASE Sort
  <2>1. IInv' /\ phase = "sort" /\ UNCHANGED <<layout, boundary, key, left, eye, ordered, phase>>
    BY <1>2, StepInv DEF LIInv, Sort, orderVars
  <2>2. UNCHANGED graph
    BY <1>2 DEF Sort, Step, Return, Finish, Descend, Skip, CloseCycle, Walk, ReturnCycle
  <2>3. TypeOK' /\ Len(result') \in Nat
    BY <2>1 DEF IInv, TypeOK
  <2>4. LTypeOK'
    BY <2>1, <2>2, <2>3 DEF LIInv, LTypeOK
  <2> QED
    BY <2>1, <2>4 DEF LIInv, Propagating, OrderRespectsEdges
<1>3. CASE Sorted
  <2>1. /\ pc = "ok" /\ phase' = "keys" /\ left' = Len(result) /\ Len(graph) \in Nat
        /\ IInv' /\ UNCHANGED <<vars, layout, boundary, key, eye, ordered>>
        /\ IsOrder(graph, result) /\ eye = 1
    BY <1>3, UnchangedInv, ReadTypes DEF LIInv, IInv, Sorted, Answered
  <2>2. UNCHANGED <<graph, result, pc>>
    BY <2>1 DEF vars
  <2>3. /\ Len(result) \in Nat /\ left' \in 0..Len(result)
        /\ \A i \in DOMAIN result : ~(i > Len(result))
        /\ \A k \in DOMAIN graph[result[left']] : left' > 0 => ~(k < 1)
    <3>1. result \in Seq(Vertices(graph)) /\ Len(result) \in Nat
      BY <2>1 DEF IsOrder
    <3>2. ASSUME Len(result) > 0 PROVE graph[result[Len(result)]] \in Seq(Nat)
      <4>1. result[Len(result)] \in Vertices(graph)
        BY <3>1, <3>2
      <4> QED
        BY <4>1, ReadTypes DEF LIInv, IInv
    <3> QED
      BY <2>1, <3>1, <3>2
  <2>4. LTypeOK'
    BY <2>1, <2>2, <2>3 DEF LIInv, IInv, LTypeOK
  <2>5. Propagating'
    BY <2>1, <2>2, <2>3 DEF Propagating, BelowSuccessors
  <2> QED
    BY <2>1, <2>2, <2>4, <2>5 DEF LIInv, OrderRespectsEdges
<1>4. CASE UNCHANGED allVars
  <2>1. IInv' /\ UNCHANGED <<vars, layout, boundary, key, left, eye, ordered, phase>>
    BY <1>4, UnchangedInv DEF LIInv, allVars, orderVars
  <2>2. UNCHANGED <<graph, result, pc>>
    BY <2>1 DEF vars
  <2> QED
    BY <2>1, <2>2 DEF LIInv, IInv, LTypeOK, Propagating, BelowSuccessors, OrderRespectsEdges
<1> QED
  BY <1>1, <1>2, <1>3, <1>4, BreakEdgeInv, PropagateInv, PropagatedInv, SortByKeyInv
     DEF LNext, LStep, LDone

THEOREM LInvariance == LSpec => []LIInv
<1>1. LInit => LIInv
  BY LInitInv
<1>2. LIInv /\ [LNext]_allVars => LIInv'
  BY LNextInv
<1> QED
  BY <1>1, <1>2, PTL DEF LSpec

(***************************************************************************)
(* The loop around the search keeps to the contract too: it asks again,    *)
(* about the graph without an edge, only once it has been answered.        *)
(***************************************************************************)
THEOREM LoopRefinement == LSpec => ImplementsContract
<1>1. LInit => Contract!ContractInit
  BY DEF LInit, LStart, Start, Contract!ContractInit, Contract!Pending, answer, Returned
<1>2. ASSUME LIInv, LIInv', [LNext]_allVars
      PROVE  [Contract!Answer \/ Contract!Ask]_<<graph, answer>>
  <2>0. IInv /\ IInv'
    BY <1>2 DEF LIInv
  <2>1. CASE Sort
    <3>1. [Next]_vars
      BY <2>1 DEF Sort, Next
    <3> QED
      BY <2>0, <3>1, SearchAnswers
  <2>2. CASE BreakEdge
    <3>1. pc = "err" /\ pc' = "search"
      BY <2>2 DEF BreakEdge, Restart
    <3> QED
      BY <3>1 DEF answer, Returned, Contract!Ask, Contract!Pending
  <2>3. CASE Bail \/ Build \/ Sorted \/ Propagate \/ Propagated \/ SortByKey \/ LDone \/ UNCHANGED allVars
    <3>1. UNCHANGED vars
      BY <2>3 DEF Bail, Build, Sorted, Propagate, Propagated, SortByKey, LDone, allVars
    <3> QED
      BY <3>1 DEF vars, answer, Returned
  <2> QED
    BY <1>2, <2>1, <2>2, <2>3 DEF LNext, LStep
<1> QED
  BY <1>1, <1>2, LInvariance, PTL
     DEF LSpec, ImplementsContract, Contract!ContractSpec, Contract!contractVars

(***************************************************************************)
(* Type correctness of resolve_link_order, for every set of layouts.       *)
(***************************************************************************)
THEOREM LTypeCorrect == LSpec => []LTypeOK
<1>1. LIInv => LTypeOK
  BY DEF LIInv
<1> QED
  BY <1>1, LInvariance, PTL

(***************************************************************************)
(* The resulting order respects every edge that is left, for every layout: *)
(* neither the key propagation nor the sort reverses an edge.              *)
(***************************************************************************)
THEOREM LinkOrderRespectsEdges == LSpec => []OrderRespectsEdges
<1>1. LIInv => OrderRespectsEdges
  BY DEF LIInv
<1> QED
  BY <1>1, LInvariance, PTL

-----------------------------------------------------------------------------
\* Every edge leads to a unit with a higher first address.
AddressesAscend ==
  \A u, v \in Vertices(graph) :
    Edge(GraphOf(layout), u, v) => MinAddr(layout, u) < MinAddr(layout, v)

\* What breaking cycles has left: a part of the layout's edges; all of them when
\* they can be ordered, the ones across no boundary when those can be.
EdgesLeft ==
  LET g == GraphOf(layout)
      V == Vertices(graph)
  IN  /\ Len(graph) = Len(g)
      /\ \A u, v \in V : Edge(graph, u, v) => Edge(g, u, v)
      /\ Orderable(g) => graph = g
      /\ RealEdgesOrderable(layout) =>
           \A u, v \in V : Edge(g, u, v) /\ <<u, v>> \notin Boundary(layout) => Edge(graph, u, v)

\* The boundary edges that are left are the ones still preferred.
BoundaryLeft ==
  /\ boundary \subseteq Boundary(layout)
  /\ \A u, v \in Vertices(graph) :
       Edge(graph, u, v) /\ <<u, v>> \in Boundary(layout) => <<u, v>> \in boundary

\* No key is lowered when every edge ascends.
KeysAreAddresses ==
  AddressesAscend => \A u \in Vertices(graph) : key[u] = MinAddr(layout, u)

KInv ==
  /\ layout \in Layouts
  /\ EdgesLeft
  /\ BoundaryLeft
  /\ KeysAreAddresses
  /\ AddressOrderKept

\* Positions cannot ascend all the way around a cycle: the least of them has
\* one before it.
LEMMA NoAscentAround ==
  ASSUME NEW n \in Nat, n > 0, NEW pos \in [1..n -> Nat],
         \A i \in 1..(n - 1) : pos[i] < pos[i + 1],
         pos[n] < pos[1]
  PROVE  FALSE
<1> DEFINE T == {pos[i] : i \in 1..n}
<1>1. T \subseteq Nat /\ T # {}
  <2>1. pos[1] \in T
    OBVIOUS
  <2> QED
    BY <2>1
<1>2. Min(T) \in T /\ \A y \in T : Min(T) <= y
  BY <1>1, MinOfNaturals
<1>3. PICK i \in 1..n : pos[i] = Min(T)
  BY <1>2
<1> DEFINE j == IF i = 1 THEN n ELSE i - 1
<1>4. j \in 1..n /\ pos[j] < pos[i]
  <2>1. CASE i = 1
    BY <2>1
  <2>2. CASE i # 1
    <3>1. i - 1 \in 1..(n - 1) /\ (i - 1) + 1 = i
      BY <2>2
    <3> QED
      BY <2>2, <3>1
  <2> QED
    BY <2>1, <2>2
<1>5. Min(T) <= pos[j]
  BY <1>2, <1>4
<1> QED
  BY <1>3, <1>4, <1>5

\* The successor of all but the last element of a cycle is the next one.
LEMMA SmallRemainder ==
  \A n \in Nat, k \in Nat : k < n => k % n = k
  OBVIOUS

\* The edges of a cycle cannot all go forward in an order of its vertices.
LEMMA CycleNotForward ==
  ASSUME NEW V, NEW s \in Seq(V), V \subseteq {s[i] : i \in DOMAIN s},
         NEW c \in Seq(V), c # <<>>,
         \A k \in DOMAIN c : \A i, j \in DOMAIN s :
           s[i] = c[k] /\ s[j] = CycleEdges(c)[k][2] => i < j
  PROVE  FALSE
<1> DEFINE n == Len(c)
           pos == [k \in 1..n |-> CHOOSE i \in DOMAIN s : s[i] = c[k]]
<1>1. n \in Nat /\ n > 0 /\ DOMAIN c = 1..n /\ \A k \in 1..n : c[k] \in V
  OBVIOUS
<1>2. \A k \in 1..n : pos[k] \in DOMAIN s /\ s[pos[k]] = c[k]
  <2> SUFFICES ASSUME NEW k \in 1..n PROVE \E i \in DOMAIN s : s[i] = c[k]
    OBVIOUS
  <2> QED
    BY <1>1
<1>3. pos \in [1..n -> Nat]
  BY <1>2
<1>4. \A k \in 1..n : CycleEdges(c)[k] = <<c[k], c[(k % n) + 1]>>
  BY <1>1 DEF CycleEdges
<1>5. \A k \in 1..(n - 1) : k % n = k
  BY <1>1, SmallRemainder
<1>6. n % n = 0
  BY <1>1
<1> HIDE DEF pos, n
<1>7. \A k \in 1..(n - 1) : pos[k] < pos[k + 1]
  <2> TAKE k \in 1..(n - 1)
  <2>1. k \in 1..n /\ k + 1 \in 1..n /\ k % n = k
    BY <1>1, <1>5
  <2>2. CycleEdges(c)[k][2] = c[k + 1]
    BY <1>4, <2>1
  <2>3. k \in DOMAIN c /\ pos[k] \in DOMAIN s /\ pos[k + 1] \in DOMAIN s
        /\ s[pos[k]] = c[k] /\ s[pos[k + 1]] = c[k + 1]
    BY <1>1, <1>2, <2>1
  <2> QED
    BY <2>2, <2>3
<1>8. pos[n] < pos[1]
  <2>1. n \in 1..n /\ 1 \in 1..n
    BY <1>1
  <2>2. CycleEdges(c)[n][2] = c[1]
    BY <1>4, <1>6, <2>1
  <2>3. n \in DOMAIN c /\ pos[n] \in DOMAIN s /\ pos[1] \in DOMAIN s
        /\ s[pos[n]] = c[n] /\ s[pos[1]] = c[1]
    BY <1>1, <1>2, <2>1
  <2> QED
    BY <2>2, <2>3
<1> QED
  BY <1>1, <1>3, <1>7, <1>8, NoAscentAround

\* The edges of a cycle of g are edges of g.
LEMMA CycleEdgesExist ==
  ASSUME NEW g, NEW c, IsCycle(g, c), NEW k \in DOMAIN c
  PROVE  /\ CycleEdges(c)[k] = <<c[k], CycleEdges(c)[k][2]>>
         /\ c[k] \in Vertices(g) /\ CycleEdges(c)[k][2] \in Vertices(g)
         /\ Edge(g, c[k], CycleEdges(c)[k][2])
<1> DEFINE n == Len(c)
<1>1. c \in Seq(Vertices(g)) /\ n \in Nat /\ n > 0 /\ DOMAIN c = 1..n
  BY DEF IsCycle
<1>2. CycleEdges(c)[k] = <<c[k], c[(k % n) + 1]>>
  BY <1>1 DEF CycleEdges
<1>3. CASE k = n
  <2>1. (k % n) + 1 = 1
    BY <1>1, <1>3
  <2> QED
    BY <1>1, <1>2, <1>3, <2>1 DEF IsCycle
<1>4. CASE k # n
  <2>1. k \in 1..(n - 1) /\ k \in Nat /\ k < n
    BY <1>1, <1>4
  <2>2. (k % n) + 1 = k + 1 /\ k + 1 \in 1..n
    BY <1>1, <2>1, SmallRemainder
  <2>3. Edge(g, c[k], c[k + 1])
    BY <2>1 DEF IsCycle
  <2> QED
    BY <1>1, <1>2, <2>2, <2>3
<1> QED
  BY <1>3, <1>4

\* The graph when the m successors of u at the places f are kept.
Retained(u, m, f) == [graph EXCEPT ![u] = [i \in 1..m |-> graph[u][f[i]]]]

\* Vec::retain leaves the edges out of u to every vertex but v.
LEMMA KeptEdges ==
  ASSUME IsGraph(graph), NEW u \in Vertices(graph), NEW v,
         NEW m \in Nat, NEW f \in [1..m -> DOMAIN graph[u]], Keeps(f, graph[u], v),
         graph' = Retained(u, m, f)
  PROVE  /\ Len(graph') = Len(graph)
         /\ \A x, y \in Vertices(graph) :
              Edge(graph', x, y) <=> Edge(graph, x, y) /\ <<x, y>> # <<u, v>>
<1>1. /\ Len(graph) \in Nat /\ DOMAIN graph = 1..Len(graph) /\ DOMAIN f = 1..m
      /\ graph' = [graph EXCEPT ![u] = [i \in 1..m |-> graph[u][f[i]]]]
      /\ Len(graph') = Len(graph)
  BY DEF IsGraph, Retained
<1>2. ASSUME NEW x \in Vertices(graph), NEW y \in Vertices(graph)
      PROVE  Edge(graph', x, y) <=> Edge(graph, x, y) /\ <<x, y>> # <<u, v>>
  <2>1. CASE x # u
    <3>1. graph'[x] = graph[x]
      BY <1>1, <2>1 DEF Vertices
    <3> QED
      BY <2>1, <3>1 DEF Edge
  <2>2. CASE x = u
    <3>1. graph'[x] = [i \in 1..m |-> graph[u][f[i]]]
      BY <1>1, <2>2 DEF Vertices
    <3>2. Edge(graph', x, y) => \E k \in DOMAIN graph[u] : graph[u][k] = y /\ graph[u][k] # v
      <4> SUFFICES ASSUME Edge(graph', x, y)
                   PROVE  \E k \in DOMAIN graph[u] : graph[u][k] = y /\ graph[u][k] # v
        OBVIOUS
      <4>1. PICK i \in 1..m : graph[u][f[i]] = y
        BY <3>1 DEF Edge
      <4>2. f[i] \in DOMAIN graph[u] /\ graph[u][f[i]] # v
        BY <1>1 DEF Keeps
      <4> QED
        BY <4>1, <4>2
    <3>3. ASSUME NEW k \in DOMAIN graph[u], graph[u][k] = y, graph[u][k] # v
          PROVE  Edge(graph', x, y)
      <4>1. PICK i \in 1..m : f[i] = k
        BY <1>1, <3>3 DEF Keeps
      <4> QED
        BY <3>1, <3>3, <4>1 DEF Edge
    <3> QED
      BY <2>2, <3>2, <3>3 DEF Edge
  <2> QED
    BY <2>1, <2>2
<1> QED
  BY <1>1, <1>2

\* The edge that is removed is one of the graph.  There is none to remove when all
\* the edges can be ordered, and it crosses a boundary when the others can.
LEMMA BreaksBoundary ==
  ASSUME IsGraph(graph), IsCycle(graph, result), EdgesLeft, BoundaryLeft
  PROVE  LET e == EdgeToBreak(result)
         IN  /\ \E x, y \in Vertices(graph) : e = <<x, y>>
             /\ ~Orderable(GraphOf(layout))
             /\ RealEdgesOrderable(layout) => e \in Boundary(layout)
<1> DEFINE V == Vertices(graph)
           g == GraphOf(layout)
           c == result
           e == EdgeToBreak(result)
           cross == {k \in DOMAIN c : CycleEdges(c)[k] \in boundary}
<1>1. c \in Seq(V) /\ c # <<>> /\ Len(c) \in Nat /\ Len(c) > 0 /\ DOMAIN c = 1..Len(c)
  BY DEF IsCycle
<1>2. Vertices(g) = V
  BY DEF EdgesLeft, Vertices
<1>3. cross # {} => Min(cross) \in cross /\ e = CycleEdges(c)[Min(cross)]
  <2>1. cross \subseteq Nat
    BY <1>1
  <2> QED
    BY <2>1, MinOfNaturals DEF EdgeToBreak
<1>4. \E x, y \in V : e = <<x, y>>
  <2>1. CASE cross = {}
    <3>1. e = <<c[Len(c)], c[1]>>
      BY <2>1 DEF EdgeToBreak
    <3>2. c[Len(c)] \in V /\ c[1] \in V
      BY <1>1
    <3> QED
      BY <3>1, <3>2
  <2>2. CASE cross # {}
    <3>1. Min(cross) \in DOMAIN c /\ e = CycleEdges(c)[Min(cross)]
      BY <1>3, <2>2
    <3>2. /\ e = <<c[Min(cross)], CycleEdges(c)[Min(cross)][2]>>
          /\ c[Min(cross)] \in V /\ CycleEdges(c)[Min(cross)][2] \in V
      BY <3>1, CycleEdgesExist
    <3> QED
      BY <3>2
  <2> QED
    BY <2>1, <2>2
<1>5. ~Orderable(g)
  <2> SUFFICES ASSUME Orderable(g) PROVE FALSE
    OBVIOUS
  <2>1. PICK s \in [1..Len(g) -> 1..Len(g)] : IsOrder(g, s)
    BY DEF Orderable
  <2>2. graph = g
    BY DEF EdgesLeft
  <2>3. s \in Seq(V) /\ V \subseteq {s[i] : i \in DOMAIN s}
    BY <2>1, <2>2 DEF IsOrder
  <2>4. ASSUME NEW k \in DOMAIN c, NEW i \in DOMAIN s, NEW j \in DOMAIN s,
               s[i] = c[k], s[j] = CycleEdges(c)[k][2]
        PROVE  i < j
    <3>1. Edge(g, s[i], s[j])
      BY <2>2, <2>4, CycleEdgesExist
    <3> QED
      BY <2>1, <3>1 DEF IsOrder
  <2>5. \A k \in DOMAIN c : \A i, j \in DOMAIN s :
          s[i] = c[k] /\ s[j] = CycleEdges(c)[k][2] => i < j
    BY <2>4
  <2> HIDE DEF V, c, cross, e
  <2> QED
    BY <1>1, <2>3, <2>5, CycleNotForward
<1>6. ASSUME RealEdgesOrderable(layout) PROVE e \in Boundary(layout)
  <2>1. CASE cross # {}
    BY <1>3, <2>1 DEF BoundaryLeft
  <2>2. CASE cross = {}
    <3>1. PICK s \in [1..Len(g) -> 1..Len(g)] : OrdersRealEdges(layout, s)
      BY <1>6 DEF RealEdgesOrderable
    <3>2. s \in Seq(V) /\ V \subseteq {s[i] : i \in DOMAIN s}
      BY <1>2, <3>1 DEF OrdersRealEdges
    <3>3. ASSUME NEW k \in DOMAIN c, NEW i \in DOMAIN s, NEW j \in DOMAIN s,
                 s[i] = c[k], s[j] = CycleEdges(c)[k][2]
          PROVE  i < j
      <4>0. /\ CycleEdges(c)[k] = <<c[k], CycleEdges(c)[k][2]>>
            /\ c[k] \in V /\ CycleEdges(c)[k][2] \in V
            /\ Edge(graph, c[k], CycleEdges(c)[k][2])
        BY CycleEdgesExist
      <4>1. /\ s[i] \in V /\ s[j] \in V /\ Edge(graph, s[i], s[j])
            /\ CycleEdges(c)[k] = <<s[i], s[j]>>
        BY <3>3, <4>0
      <4>2. <<s[i], s[j]>> \notin boundary
        BY <2>2, <4>1
      <4>3. Edge(g, s[i], s[j]) /\ <<s[i], s[j]>> \notin Boundary(layout)
        BY <4>1, <4>2 DEF EdgesLeft, BoundaryLeft
      <4> QED
        BY <3>1, <4>3 DEF OrdersRealEdges
    <3>4. \A k \in DOMAIN c : \A i, j \in DOMAIN s :
            s[i] = c[k] /\ s[j] = CycleEdges(c)[k][2] => i < j
      BY <3>3
    <3> HIDE DEF V, c, cross, e
    <3> QED
      BY <1>1, <3>2, <3>4, CycleNotForward
  <2> QED
    BY <2>1, <2>2
<1> QED
  BY <1>4, <1>5, <1>6

LEMMA LInitKept == LInit => KInv
<1> SUFFICES ASSUME LInit PROVE KInv
  OBVIOUS
<1>1. /\ layout \in Layouts /\ graph = GraphOf(layout) /\ boundary = Boundary(layout)
      /\ key = [u \in 1..Len(graph) |-> MinAddr(layout, u)] /\ phase = "build"
  BY DEF LInit, LStart
<1>2. EdgesLeft
  BY <1>1 DEF EdgesLeft
<1>3. BoundaryLeft
  BY <1>1 DEF BoundaryLeft
<1>4. KeysAreAddresses
  BY <1>1 DEF KeysAreAddresses, Vertices
<1> QED
  BY <1>1, <1>2, <1>3, <1>4 DEF KInv, AddressOrderKept

\* A cycle is broken where it may be.
LEMMA BreakEdgeKept ==
  ASSUME LIInv, KInv, BreakEdge
  PROVE  KInv'
<1> DEFINE e == EdgeToBreak(result)
           s == graph[e[1]]
           g == GraphOf(layout)
           V == Vertices(graph)
<1>1. /\ phase = "sort" /\ phase' = "sort" /\ boundary' = boundary \ {e}
      /\ UNCHANGED <<layout, key, left, eye, ordered>>
      /\ IsGraph(graph) /\ IsCycle(graph, result) /\ Len(graph) \in Nat
  BY ReadTypes DEF LIInv, IInv, Answered, BreakEdge
<1>2. /\ \E x, y \in V : e = <<x, y>>
      /\ ~Orderable(g)
      /\ RealEdgesOrderable(layout) => e \in Boundary(layout)
  BY <1>1, BreaksBoundary DEF KInv
<1>3. PICK x \in V, y \in V : e = <<x, y>>
  BY <1>2
<1>4. PICK m \in 0..Len(s) : \E f \in [1..m -> DOMAIN s] :
        /\ Keeps(f, s, e[2])
        /\ graph' = [graph EXCEPT ![e[1]] = [i \in 1..m |-> s[f[i]]]]
  BY DEF BreakEdge, Restart
<1>5. PICK f \in [1..m -> DOMAIN s] :
        /\ Keeps(f, s, e[2])
        /\ graph' = [graph EXCEPT ![e[1]] = [i \in 1..m |-> s[f[i]]]]
  BY <1>4
<1>6. e[1] = x /\ e[2] = y /\ s = graph[x] /\ m \in Nat
  BY <1>3
<1> HIDE DEF e, s
<1>7. /\ Len(graph') = Len(graph)
      /\ \A u, v \in V : Edge(graph', u, v) <=> Edge(graph, u, v) /\ <<u, v>> # <<x, y>>
  <2>1. /\ f \in [1..m -> DOMAIN graph[x]] /\ Keeps(f, graph[x], y)
        /\ graph' = Retained(x, m, f)
    BY <1>5, <1>6 DEF Retained
  <2> QED
    BY <1>1, <1>6, <2>1, KeptEdges
<1>8. Vertices(graph') = V
  BY <1>7 DEF Vertices
<1>9. EdgesLeft'
  <2>1. Len(graph') = Len(g)
    BY <1>7 DEF KInv, EdgesLeft
  <2>2. \A u, v \in V : Edge(graph', u, v) => Edge(g, u, v)
    BY <1>7 DEF KInv, EdgesLeft
  <2>3. ASSUME RealEdgesOrderable(layout),
               NEW u \in V, NEW v \in V, Edge(g, u, v), <<u, v>> \notin Boundary(layout)
        PROVE  Edge(graph', u, v)
    <3>1. Edge(graph, u, v)
      BY <2>3 DEF KInv, EdgesLeft
    <3> QED
      BY <1>2, <1>3, <1>7, <2>3, <3>1
  <2> QED
    BY <1>1, <1>2, <1>8, <2>1, <2>2, <2>3 DEF EdgesLeft
<1>10. BoundaryLeft'
  <2>1. boundary' \subseteq Boundary(layout)
    BY <1>1 DEF KInv, BoundaryLeft
  <2>2. ASSUME NEW u \in V, NEW v \in V, Edge(graph', u, v), <<u, v>> \in Boundary(layout)
        PROVE  <<u, v>> \in boundary'
    BY <1>1, <1>3, <1>7, <2>2 DEF KInv, BoundaryLeft
  <2> QED
    BY <1>1, <1>8, <2>1, <2>2 DEF BoundaryLeft
<1>11. KeysAreAddresses'
  BY <1>1, <1>8 DEF KInv, KeysAreAddresses, AddressesAscend
<1> QED
  BY <1>1, <1>9, <1>10, <1>11 DEF KInv, AddressOrderKept

\* A key that no successor is below stays what it is.
LEMMA PropagateKept ==
  ASSUME LIInv, KInv, Propagate
  PROVE  KInv'
<1> DEFINE u == result[left]
           v == graph[u][eye]
<1>1. /\ phase = "keys" /\ pc = "ok" /\ IsGraph(graph) /\ IsOrder(graph, result)
      /\ left \in Nat /\ left > 0 /\ left <= Len(result) /\ eye \in Nat \ {0} /\ eye <= Len(graph[u])
      /\ key' = IF key[v] < key[u] THEN [key EXCEPT ![u] = key[v]] ELSE key
      /\ UNCHANGED <<vars, layout, boundary, left, ordered, phase>>
  BY DEF LIInv, IInv, TypeOK, LTypeOK, Answered, Propagate, Propagating
<1>2. UNCHANGED graph
  BY <1>1 DEF vars
<1>3. KeysAreAddresses'
  <2> SUFFICES ASSUME AddressesAscend PROVE key' = key
    BY <1>1, <1>2 DEF KInv, KeysAreAddresses, AddressesAscend
  <2>1. left \in DOMAIN result /\ u \in Vertices(graph) /\ Len(graph) \in Nat
    BY <1>1 DEF IsOrder, IsGraph
  <2>2. eye \in DOMAIN graph[u]
    BY <1>1, <2>1 DEF IsGraph
  <2>3. v \in Vertices(graph) /\ Edge(graph, u, v)
    BY <1>1, <2>1, <2>2, SuccessorsLater DEF Edge
  <2>4. MinAddr(layout, u) < MinAddr(layout, v)
    BY <2>1, <2>3 DEF KInv, EdgesLeft, AddressesAscend
  <2>5. key[u] = MinAddr(layout, u) /\ key[v] = MinAddr(layout, v)
    BY <2>1, <2>3 DEF KInv, KeysAreAddresses
  <2>6. MinAddr(layout, u) \in Int /\ MinAddr(layout, v) \in Int
    <3>1. Vertices(GraphOf(layout)) = Vertices(graph)
      BY DEF KInv, EdgesLeft, Vertices
    <3>2. MinAddr(layout, u) \in 0..MaxKey /\ MinAddr(layout, v) \in 0..MaxKey
      BY <2>1, <2>3, <3>1, LayoutAssumption DEF KInv
    <3> QED
      BY <3>2
  <2>7. ~(key[v] < key[u])
    <3> HIDE DEF u, v
    <3> QED
      BY <2>4, <2>5, <2>6
  <2> QED
    BY <1>1, <2>7
<1> QED
  BY <1>1, <1>2, <1>3 DEF KInv, EdgesLeft, BoundaryLeft, AddressOrderKept

\* Sorting by the addresses gives their order.
LEMMA SortByKeyKept ==
  ASSUME LIInv, KInv, SortByKey
  PROVE  KInv'
<1>1. /\ phase = "keys" /\ pc = "ok" /\ IsOrder(graph, result)
      /\ key \in [Vertices(graph) -> 0..MaxKey]
      /\ UNCHANGED <<vars, layout, boundary, key, left, eye>>
  BY DEF LIInv, IInv, LTypeOK, Answered, SortByKey
<1>2. UNCHANGED graph
  BY <1>1 DEF vars
<1>3. PICK p \in [DOMAIN result -> DOMAIN result] :
        StableSort(p) /\ ordered' = [i \in DOMAIN result |-> result[p[i]]]
  BY DEF SortByKey
<1>4. AddressOrderKept'
  <2> SUFFICES ASSUME AddressesAscend, NEW i \in DOMAIN result, NEW j \in DOMAIN result, i < j
               PROVE  MinAddr(layout, ordered'[i]) <= MinAddr(layout, ordered'[j])
    BY <1>1, <1>2, <1>3 DEF AddressOrderKept, AddressesAscend
  <2> DEFINE x == result[p[i]]
             y == result[p[j]]
  <2>1. x \in Vertices(graph) /\ y \in Vertices(graph) /\ ordered'[i] = x /\ ordered'[j] = y
    BY <1>1, <1>3 DEF IsOrder
  <2>2. key[x] < key[y] \/ key[x] = key[y]
    BY <1>3 DEF StableSort
  <2>3. key[x] = MinAddr(layout, x) /\ key[y] = MinAddr(layout, y)
    BY <2>1 DEF KInv, KeysAreAddresses
  <2>4. key[x] \in Int /\ key[y] \in Int
    BY <1>1, <2>1
  <2> HIDE DEF x, y
  <2> QED
    BY <2>1, <2>2, <2>3, <2>4
<1>5. KeysAreAddresses'
  BY <1>1, <1>2 DEF KInv, KeysAreAddresses, AddressesAscend
<1> QED
  BY <1>1, <1>2, <1>4, <1>5 DEF KInv, EdgesLeft, BoundaryLeft

LEMMA LNextKept ==
  ASSUME LIInv, KInv, [LNext]_allVars
  PROVE  KInv'
<1>1. ASSUME UNCHANGED <<graph, layout, boundary, key, ordered>>,
             phase' = "done" => phase = "done"
      PROVE  KInv'
  BY <1>1 DEF KInv, EdgesLeft, BoundaryLeft, KeysAreAddresses, AddressesAscend, AddressOrderKept
<1>2. CASE Bail \/ Build \/ Sorted \/ Propagated \/ UNCHANGED allVars
  BY <1>1, <1>2 DEF Bail, Build, Sorted, Propagated, allVars, orderVars, vars
<1>3. CASE Sort
  <2>1. UNCHANGED graph
    BY <1>3 DEF Sort, Step, Return, Finish, Descend, Skip, CloseCycle, Walk, ReturnCycle
  <2> QED
    BY <1>1, <1>3, <2>1 DEF Sort, orderVars
<1> QED
  BY <1>2, <1>3, BreakEdgeKept, PropagateKept, SortByKeyKept DEF LNext, LStep, LDone

\* What is left orders what could be ordered.
LEMMA KeptOrder ==
  ASSUME LIInv, KInv
  PROVE  NoNeedlessChange
<1>1. NoNeedlessBreak
  BY DEF KInv, EdgesLeft, NoNeedlessBreak
<1>2. RealEdgesKept
  <2> SUFFICES ASSUME phase = "done", RealEdgesOrderable(layout)
               PROVE  OrdersRealEdges(layout, ordered)
    BY DEF RealEdgesKept
  <2>1. IsOrder(graph, ordered)
    BY DEF LIInv, OrderRespectsEdges
  <2>2. Vertices(graph) = Vertices(GraphOf(layout))
    BY DEF KInv, EdgesLeft, Vertices
  <2>3. \A i \in DOMAIN ordered : ordered[i] \in Vertices(graph)
    BY <2>1 DEF IsOrder
  <2> QED
    BY <2>1, <2>2, <2>3 DEF KInv, EdgesLeft, IsOrder, OrdersRealEdges
<1> QED
  BY <1>1, <1>2 DEF KInv, NoNeedlessChange, EdgesKept

(***************************************************************************)
(* The order of the units gives up no more than the cycles ask for, for    *)
(* every set of layouts: no edge when all can be ordered, none but those   *)
(* across a boundary when the others can, and the order of the addresses   *)
(* is kept when it respects every edge.                                    *)
(***************************************************************************)
THEOREM NothingGivenUpNeedlessly == LSpec => []NoNeedlessChange
<1>1. LInit => KInv
  BY LInitKept
<1>2. LIInv /\ KInv /\ [LNext]_allVars => KInv'
  BY LNextKept
<1>3. LIInv /\ KInv => NoNeedlessChange
  BY KeptOrder
<1> QED
  BY <1>1, <1>2, <1>3, LInvariance, PTL DEF LSpec
=============================================================================
