------------------------------ MODULE Toposort ------------------------------
(***************************************************************************)
(* The depth-first topological sort of src/src/util/toposort.rs: it finds  *)
(* an ordering of the vertices in which every edge goes forward, or a      *)
(* cycle.  One action per branch of the loop; the walk that reads a cycle  *)
(* back along the parents has its own steps.                               *)
(*                                                                         *)
(* Vertices are numbered from 1 and graph[u] is the sequence of successors *)
(* of u, so the virtual root that has every vertex as successor (index     *)
(* graph.len() in the code) is 0 here.                                     *)
(***************************************************************************)
EXTENDS Digraphs, SequencesExt

VARIABLES
  graph,      \* the adjacency lists the caller passes
  mark,       \* the tag of State: Unvisited, Active or Finished
  eind,       \* State::Active's edge index, meaningful when Active
  par,        \* State::Active's parent, meaningful when Active
  cur,        \* the active vertex the loop looks at
  ret,        \* finished vertices, in the order they finish
  cycle,      \* the vertices of the cycle read so far, from its end
  target,     \* `adj` of the edge that closed the cycle
  result,     \* what is returned: <<>> until then
  pc          \* "search", "walk", and the two returns "ok" and "err"

sortVars == <<mark, eind, par, cur, ret, cycle, target, result, pc>>
vars == <<graph, mark, eind, par, cur, ret, cycle, target, result, pc>>

Root == 0
NoParent == -1                         \* usize::MAX

Nodes == 0..Len(graph)                 \* the indices of `state`

\* The number of successors of u and its i-th, for the root too.
Degree(u) == IF u = Root THEN Len(graph) ELSE Len(graph[u])
Succ(u, i) == IF u = Root THEN i ELSE graph[u][i]

\* What a call of toposort(g) starts from: the root is active, at its first edge.
FirstMarks(g) == [v \in 0..Len(g) |-> IF v = Root THEN "Active" ELSE "Unvisited"]

Start(g) ==
  /\ mark = FirstMarks(g)
  /\ eind = [v \in 0..Len(g) |-> 0]
  /\ par = [v \in 0..Len(g) |-> NoParent]
  /\ cur = Root /\ target = Root
  /\ ret = <<>> /\ cycle = <<>> /\ result = <<>>
  /\ pc = "search"

\* The same for a further call, on another graph.
Restart(g) ==
  /\ graph' = g
  /\ mark' = FirstMarks(g)
  /\ eind' = [v \in 0..Len(g) |-> 0]
  /\ par' = [v \in 0..Len(g) |-> NoParent]
  /\ cur' = Root /\ target' = Root
  /\ ret' = <<>> /\ cycle' = <<>> /\ result' = <<>>
  /\ pc' = "search"

Init ==
  /\ IsGraph(graph)
  /\ Start(graph)

-----------------------------------------------------------------------------
\* (mutant) the post-order is returned without the final reverse.
ReturnPostOrder ==
  /\ pc = "search"
  /\ cur = Root
  /\ eind[cur] = Degree(cur)
  /\ result' = ret
  /\ pc' = "ok"
  /\ UNCHANGED <<graph, mark, eind, par, cur, ret, cycle, target>>

\* The root has no vertex left: return Ok.
Return ==
  /\ pc = "search"
  /\ cur = Root
  /\ eind[cur] = Degree(cur)
  /\ result' = Reverse(ret)
  /\ pc' = "ok"
  /\ UNCHANGED <<graph, mark, eind, par, cur, ret, cycle, target>>

\* (mutant) a finished vertex hands over to the root, not to its parent.
FinishToRoot ==
  /\ pc = "search"
  /\ cur # Root
  /\ eind[cur] = Degree(cur)
  /\ mark' = [mark EXCEPT ![cur] = "Finished"]
  /\ ret' = Append(ret, cur)
  /\ cur' = Root
  /\ UNCHANGED <<graph, eind, par, cycle, target, result, pc>>

\* The current vertex has no edge left: finish it, go back to its parent.
Finish ==
  /\ pc = "search"
  /\ cur # Root
  /\ eind[cur] = Degree(cur)
  /\ mark' = [mark EXCEPT ![cur] = "Finished"]
  /\ ret' = Append(ret, cur)
  /\ cur' = par[cur]
  /\ UNCHANGED <<graph, eind, par, cycle, target, result, pc>>

\* The part every look at an edge shares: take the next edge of cur.
TakeEdge(adj) ==
  /\ pc = "search"
  /\ eind[cur] < Degree(cur)
  /\ adj = Succ(cur, eind[cur] + 1)

Descend ==
  \E adj \in Vertices(graph) :
    /\ TakeEdge(adj)
    /\ mark[adj] = "Unvisited"
    /\ mark' = [mark EXCEPT ![adj] = "Active"]
    /\ eind' = [eind EXCEPT ![cur] = @ + 1, ![adj] = 0]
    /\ par' = [par EXCEPT ![adj] = cur]
    /\ cur' = adj
    /\ UNCHANGED <<graph, ret, cycle, target, result, pc>>

\* (mutant) the edge index is not stored back before the successor is looked at.
SkipForgetsIndex ==
  \E adj \in Vertices(graph) :
    /\ TakeEdge(adj)
    /\ mark[adj] = "Finished"
    /\ UNCHANGED vars

Skip ==
  \E adj \in Vertices(graph) :
    /\ TakeEdge(adj)
    /\ mark[adj] = "Finished"
    /\ eind' = [eind EXCEPT ![cur] = @ + 1]
    /\ UNCHANGED <<graph, mark, par, cur, ret, cycle, target, result, pc>>

CloseCycle ==
  \E adj \in Vertices(graph) :
    /\ TakeEdge(adj)
    /\ mark[adj] = "Active"
    /\ eind' = [eind EXCEPT ![cur] = @ + 1]
    /\ target' = adj
    /\ pc' = "walk"
    /\ UNCHANGED <<graph, mark, par, cur, ret, cycle, result>>

\* (mutant) the walk does not stop at the vertex that closed the cycle.
WalkPastTarget ==
  /\ pc = "walk"
  /\ cycle' = Append(cycle, cur)
  /\ cur' = par[cur]
  /\ UNCHANGED <<graph, mark, eind, par, ret, target, result, pc>>

\* while cur != adj: one vertex of the cycle, from its end to its start.
Walk ==
  /\ pc = "walk"
  /\ cur # target
  /\ cycle' = Append(cycle, cur)
  /\ cur' = par[cur]
  /\ UNCHANGED <<graph, mark, eind, par, ret, target, result, pc>>

ReturnCycle ==
  /\ pc = "walk"
  /\ cur = target
  /\ cycle' = Append(cycle, cur)
  /\ result' = Reverse(cycle')
  /\ pc' = "err"
  /\ UNCHANGED <<graph, mark, eind, par, cur, ret, target>>

Step == Return \/ Finish \/ Descend \/ Skip \/ CloseCycle \/ Walk \/ ReturnCycle

Returned == pc \in {"ok", "err"}

\* The call has returned: nothing is left to do.
Done == Returned /\ UNCHANGED vars

Next == Step \/ Done

Spec == Init /\ [][Next]_vars

-----------------------------------------------------------------------------
TypeOK ==
  /\ IsGraph(graph)
  /\ mark \in [Nodes -> {"Unvisited", "Active", "Finished"}]
  /\ eind \in [Nodes -> Nat]
  /\ par \in [Nodes -> Nodes \cup {NoParent}]
  /\ cur \in Nodes
  /\ ret \in Seq(Vertices(graph))
  /\ cycle \in Seq(Vertices(graph))
  /\ target \in Nodes
  /\ result \in Seq(Vertices(graph))
  /\ pc \in {"search", "walk", "ok", "err"}

\* What the caller has been told so far.
answer == IF Returned THEN [kind |-> pc, vertices |-> result]
          ELSE [kind |-> "pending", vertices |-> <<>>]

Contract == INSTANCE ToposortContract WITH graph <- graph, answer <- answer

(***************************************************************************)
(* The search implements its contract: whatever is returned is an ordering *)
(* in which every edge goes forward, or a cycle of the graph, and it is    *)
(* returned once for each call.                                            *)
(***************************************************************************)
ImplementsContract == Contract!ContractSpec

(***************************************************************************)
(* Neither panic!("unexpected state ...") of the loop is reachable, and    *)
(* the walk never follows the root's parent: the vertex the loop looks at  *)
(* is always an active one, and the root only while it searches.           *)
(***************************************************************************)
NoPanic ==
  /\ mark[cur] = "Active"
  /\ pc = "walk" => cur # Root
=============================================================================
