--------------------------- MODULE MCUpdateSplits ---------------------------
(***************************************************************************)
(* Small objects: symbols of a few shapes at a few addresses of a section, *)
(* with splits of the user and sub-regions; objects with a .ctors or .bss  *)
(* section and an end trimmed by the linker; and the object of the test    *)
(* test_gap_split_vftable_ends_at_next_locator.                            *)
(***************************************************************************)
EXTENDS UpdateSplits

CONSTANT Top     \* where the section of most objects ends

Sym(addr, name, size) ==
  [addr |-> addr, size |-> size, known |-> TRUE, align |-> NoAlign, name |-> name,
   comdat |-> FALSE, locator |-> FALSE, kind |-> "object", auto |-> FALSE]

Comdat(addr, size) == [Sym(addr, "c", size) EXCEPT !.comdat = TRUE]
Vftable(addr, name, size) == [Sym(addr, name, size) EXCEPT !.comdat = TRUE, !.locator = TRUE]

\* The shapes of a symbol at an address.
Shapes(addr) ==
  {Sym(addr, "a", 4), Sym(addr, "a", 8), Sym(addr, "b", 4),
   [Sym(addr, "d", 4) EXCEPT !.align = 8],
   [Sym(addr, "u", 0) EXCEPT !.known = FALSE],
   [Sym(addr, "lbl", 10) EXCEPT !.auto = TRUE],
   Comdat(addr, 4), [Comdat(addr, 0) EXCEPT !.known = FALSE]}
  \cup {v \in {Vftable(addr, "v", 8)} : addr >= 4}

Comdats(addr) ==
  {Sym(addr, "a", 4), Comdat(addr, 6)}
  \cup {v \in {Vftable(addr, "v", n) : n \in {4, 12}} : addr >= 4}

\* Up to n symbols at the given addresses, in their order.
SymbolSeqs(n, addrs, Of(_)) ==
  {syms \in UNION {[1..k -> UNION {Of(a) : a \in addrs}] : k \in 0..n} :
     \A i \in 1..(Len(syms) - 1) : syms[i].addr <= syms[i + 1].addr}

Split(addr, end) ==
  [addr |-> addr, end |-> end, align |-> NoAlign, common |-> FALSE, auto |-> FALSE, rename |-> NoName]

UserSplits == {<<>>,
               <<Split(8, 16)>>,
               <<[Split(8, 12) EXCEPT !.align = 8], Split(12, Top)>>,
               <<[Split(4, 0) EXCEPT !.rename = "crt"], Split(16, Top)>>}

Data(start, end, limit, regions) ==
  [start |-> start, end |-> end, limit |-> limit, align |-> 4, regions |-> regions, kind |-> "data",
   nonzero |-> {5, 9, 14, 17}, table |-> FALSE, bss |-> FALSE, commonAt |-> NoCommon]

Regions == <<[start |-> 4, end |-> 12, name |-> "rdata"]>>

One(section, ss, syms) == [sections |-> <<section>>, splits |-> <<ss>>, symbols |-> <<syms>>]

\* A trimmed .text or .ctors section, and a .bss section with a common part.
Bss(at) == [Data(32, 48, 48, <<>>) EXCEPT !.kind = "bss", !.bss = TRUE, !.commonAt = at]

Two(table, text, at, ss) ==
  [sections |-> <<[Data(0, 12, 16, <<>>) EXCEPT !.kind = "code", !.table = table], Bss(at)>>,
   splits |-> <<text, ss>>,
   symbols |-> <<<<[Sym(0, "f", 8) EXCEPT !.kind = "function"],
                   [Sym(12, "end", 4) EXCEPT !.kind = "function"]>>,
                 <<Sym(32, "x", 4), Sym(40, "y", 2), Sym(44, "z", 4)>>>>]

BssSplits == {<<>>, <<[Split(40, 44) EXCEPT !.common = TRUE]>>, <<Split(36, 40)>>}
TextSplits == {<<>>, <<Split(0, 16)>>, <<Split(4, 8), Split(8, 12)>>, <<Split(8, 16), Split(10, 14)>>}

\* The object of the test, at an address that is a multiple of its own.
OfTest ==
  One(Data(16, 40, 40, <<>>), <<>>, <<Vftable(20, "A", 16), Vftable(36, "B", 4)>>)

MCObjects ==
  {One(Data(0, Top, Top, <<>>), ss, syms) :
     ss \in UserSplits, syms \in SymbolSeqs(2, {0, 4, 6, 8, 12}, Shapes)}
  \cup {One(Data(0, Top, Top, Regions), ss, syms) :
     ss \in {<<>>, <<Split(8, 16)>>}, syms \in SymbolSeqs(2, {0, 4, 8}, Shapes)}
  \cup {One(Data(0, Top, Top, <<>>), <<>>, syms) : syms \in SymbolSeqs(3, {0, 4, 8, 12, 16}, Comdats)}
  \cup {Two(table, text, at, ss) :
     table \in BOOLEAN, text \in TextSplits, at \in {NoCommon, 40}, ss \in BssSplits}
  \cup {OfTest}
=============================================================================
