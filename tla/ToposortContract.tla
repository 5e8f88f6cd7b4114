-------------------------- MODULE ToposortContract --------------------------
(***************************************************************************)
(* What a caller of toposort relies on, without the search: one step that  *)
(* answers with some ordering of the graph or with some cycle of it and    *)
(* leaves the graph alone, until it is asked about another one.  "Finds    *)
(* either an ordering of the vertices such that all edges go from lower    *)
(* to higher indexed nodes, or a cycle."                                   *)
(***************************************************************************)
EXTENDS Digraphs

VARIABLES graph, answer

contractVars == <<graph, answer>>

Pending == [kind |-> "pending", vertices |-> <<>>]

ContractInit == answer = Pending

Answer ==
  /\ answer = Pending
  /\ \/ answer'.kind = "ok" /\ IsOrder(graph, answer'.vertices)
     \/ answer'.kind = "err" /\ IsCycle(graph, answer'.vertices)
  /\ UNCHANGED graph

\* The next call, on any graph; not before this one has been answered.
Ask == answer # Pending /\ answer' = Pending

ContractSpec == ContractInit /\ [][Answer \/ Ask]_contractVars
=============================================================================
