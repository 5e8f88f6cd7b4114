------------------------------ MODULE Digraphs ------------------------------
(***************************************************************************)
(* Directed graphs as adjacency lists: graph[u] is the sequence of the     *)
(* successors of u, duplicates allowed, vertices numbered from 1.          *)
(***************************************************************************)
EXTENDS Integers, Sequences

Vertices(g) == 1..Len(g)

\* What the type &[Vec<usize>] and the indexing graph[v] ask of a graph.
IsGraph(g) ==
  /\ g \in Seq(Seq(Nat))
  /\ \A u \in DOMAIN g : \A i \in DOMAIN g[u] : g[u][i] \in Vertices(g)

Edge(g, u, v) == \E i \in DOMAIN g[u] : g[u][i] = v

\* Each vertex exactly once, and every edge forward.
IsOrder(g, s) ==
  /\ s \in Seq(Vertices(g))
  /\ Vertices(g) \subseteq {s[i] : i \in DOMAIN s}
  /\ \A i, j \in DOMAIN s : s[i] = s[j] => i = j
  /\ \A i, j \in DOMAIN s : Edge(g, s[i], s[j]) => i < j

\* An edge from each element to the next, and from the last to the first.
IsCycle(g, s) ==
  /\ s \in Seq(Vertices(g))
  /\ s # <<>>
  /\ \A i \in 1..(Len(s) - 1) : Edge(g, s[i], s[i + 1])
  /\ Edge(g, s[Len(s)], s[1])
=============================================================================
