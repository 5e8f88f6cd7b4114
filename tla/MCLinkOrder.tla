---------------------------- MODULE MCLinkOrder -----------------------------
(***************************************************************************)
(* Objects with a .text section, or a .ctors section with its first split  *)
(* to skip, and a .data section with a zero-filled tail: all the ways to   *)
(* deal the splits of at most Units units to them; and objects of up to    *)
(* Pairs sections with two splits each, for the edges that they make.      *)
(***************************************************************************)
EXTENDS LinkOrder

CONSTANTS Units, TextSplits, DataSplits, Pairs

UnitSeqs(n) == UNION {[1..k -> 1..Units] : k \in 0..n}

Splits(base, us, common) ==
  [i \in DOMAIN us |-> [unit |-> us[i], addr |-> base + i, common |-> i > common]]

Text(us, skip) ==
  [skipFirst |-> skip, regions |-> <<>>, dataEnd |-> 20, end |-> 20,
   splits |-> Splits(10, us, Len(us))]

\* d splits are initialized; the common BSS begins after c splits.
Data(us, d, c, regions) ==
  [skipFirst |-> FALSE, regions |-> regions, dataEnd |-> 21 + d, end |-> 30,
   splits |-> Splits(20, us, c)]

Regions == {<<>>,
            <<[name |-> "crt", start |-> 21, end |-> 22, bss |-> FALSE],
              [name |-> "rdata", start |-> 22, end |-> 24, bss |-> FALSE]>>,
            <<[name |-> "bss", start |-> 22, end |-> 30, bss |-> TRUE]>>}

Orders == {<<>>,
           <<[unit |-> 2, order |-> 0], [unit |-> 1, order |-> 1]>>,
           <<[unit |-> 1, order |-> 0], [unit |-> 0, order |-> 1], [unit |-> 3, order |-> 2]>>,
           <<[unit |-> 1, order |-> 3], [unit |-> 2, order |-> 3]>>,
           <<[unit |-> 3, order |-> 7], [unit |-> 2, order |-> NoOrder], [unit |-> 1, order |-> 9]>>}

Layout(t, skip, u, d, c, r, o) ==
  [sections |-> <<Text(t, skip), Data(u, d, c, r)>>, linkOrder |-> o]

UsersKnown(l) ==
  \A i \in DOMAIN l.linkOrder : l.linkOrder[i].unit <= NumUnits(l)

\* A section of two units behind each other: an edge in each.
Graph(pairs) ==
  [sections |-> [i \in DOMAIN pairs |->
     [skipFirst |-> FALSE, regions |-> <<>>, dataEnd |-> 10 * i + 9, end |-> 10 * i + 9,
      splits |-> Splits(10 * i, pairs[i], 2)]],
   linkOrder |-> <<>>]

MCGraphs == {Graph(pairs) : pairs \in UNION {[1..n -> {e \in [1..2 -> 1..Units] : e[1] # e[2]}] : n \in 0..Pairs}}

MCLayouts ==
  {l \in {Layout(t, FALSE, u, d, c, r, <<>>) :
            t \in UnitSeqs(TextSplits), u \in UnitSeqs(DataSplits),
            d \in {1, 2}, c \in {2, DataSplits}, r \in Regions}
         \cup MCGraphs
         \cup {Layout(t, TRUE, u, 1, DataSplits, <<>>, o) :
            t \in UnitSeqs(TextSplits), u \in UnitSeqs(2), o \in Orders} :
     Numbered(l) /\ UsersKnown(l)}
=============================================================================
