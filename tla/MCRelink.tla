------------------------------ MODULE MCRelink ------------------------------
(***************************************************************************)
(* Small objects of two sections and two units: code at 16..31 and data at *)
(* 48..63, two symbols in each and relocations from both, cut in every way *)
(* that gives each unit something, with the cases that fail.               *)
(***************************************************************************)
EXTENDS Relink

Part(unit, addr, end) ==
  [unit |-> unit, addr |-> addr, end |-> end, align |-> None, auto |-> FALSE, skip |-> FALSE,
   common |-> FALSE, crt |-> FALSE, rename |-> ""]

Sym(name, section, addr, kind, scope) ==
  [name |-> <<name>>, section |-> section, addr |-> addr, size |-> IF section = 1 THEN 4 ELSE 8,
   align |-> IF section = 1 THEN 4 ELSE 8, kind |-> kind, scope |-> scope, common |-> FALSE, data |-> "unknown"]

Rel(addr, kind, target) == [addr |-> addr, kind |-> kind, target |-> target, addend |-> 0]

CodeSplits == {<<Part("A", 16, 24), Part("B", 24, 32)>>, <<Part("A", 16, 20), Part("B", 24, 32)>>}
DataSplits == {<<Part("A", 48, 56), Part("B", 56, 64)>>, <<Part("B", 48, 56), Part("A", 56, 64)>>}

Units == <<[name |-> "A", comment |-> -1], [name |-> "B", comment |-> -1]>>

Make(code, data, scopes, targets) ==
  [arch |-> "ppc", module |-> 0, comment |-> 8, globalize |-> TRUE, units |-> Units,
   sections |->
     <<[name |-> ".text", addr |-> 16, size |-> 16, phys |-> 16, kind |-> "code", regions |-> {},
        splits |-> code, branches |-> {<<24, 28>>, <<28, 24>>}, nonzero |-> 16..31 \ 20..23,
        relocs |-> {Rel(16, "half", targets[1]), Rel(28, "rel24", targets[2])}],
       [name |-> ".data", addr |-> 48, size |-> 16, phys |-> 16, kind |-> "data", regions |-> {},
        splits |-> data, branches |-> {}, nonzero |-> 48..59, relocs |-> {Rel(48, "abs", 1), Rel(60, "abs", targets[1])}]>>,
   symbols |->
     <<Sym("f", 1, 16, "function", scopes[1]), Sym("g", 1, 24, "function", scopes[2]),
       Sym("d", 2, 48, "object", scopes[3]),
       Sym(IF scopes[4] = "local" THEN "d" ELSE "e", 2, 56, "object", scopes[4])>>]

Scopes == {"local", "global"}

Products ==
  {Make(c, d, sc, t) : c \in CodeSplits, d \in DataSplits, sc \in [1..4 -> Scopes],
                       t \in (1..4) \X (1..4)}

Base == {Make(<<Part("A", 16, 24), Part("B", 24, 32)>>, d, <<s, "global", "local", s>>, t) :
           d \in DataSplits, s \in Scopes, t \in {<<2, 1>>, <<3, 4>>}}

\* Only the first n bytes of the data are in the file, the others are zero.
Cut(o, n) ==
  [o EXCEPT !.sections[2].phys = n, !.sections[2].nonzero = {a \in @ : a < 48 + n},
            !.sections[2].relocs = {r \in @ : r.addr < 48 + n}]

DataChanged ==
  {[o EXCEPT !.sections[2].splits[2].skip = TRUE] : o \in Base}
  \cup {[o EXCEPT !.sections[2].splits[2].common = TRUE, !.comment = c] : o \in Base, c \in {0, 8}}
  \cup {[o EXCEPT !.sections[2].splits[2].align = a] : o \in Base, a \in {4, 16}}
  \cup {[Cut(o, 0) EXCEPT !.sections[2].kind = "bss"] : o \in Base}
  \cup {Cut(o, n) : o \in Base, n \in {8, 12}}
  \cup {[Cut(o, 8) EXCEPT !.sections[2].phys = 16, !.sections[2].regions = {<<56, 64>>}, !.arch = "x86"] :
          o \in Base}
  \cup {[o EXCEPT !.sections[2].name = n] : o \in Base, n \in {".ctors", "extabindex"}}

\* An object of the linker or a label behind the rest of the data, and tables.
NamesChanged ==
  {[o EXCEPT !.symbols = Append([@ EXCEPT ![4].size = 4], Sym(n, 2, 60, "object", "global")),
             !.sections[2].splits[2].end = 60] : o \in Base, n \in {"_rom_copy_info"}}
  \cup {[o EXCEPT !.symbols = Append(@, Sym("_f_data", 2, 48, "label", "global")),
                  !.sections[1].relocs = @ \cup {Rel(24, "half", 5)}] : o \in Base}
  \cup {[o EXCEPT !.symbols = Append(@, Sym("gTRKInterruptVectorTableEnd", 1, 24, "label", "global"))] :
          o \in Base}
  \cup {[o EXCEPT !.symbols = Append(@, Sym(".data", 2, 48, "section", "local")),
                  !.sections[1].relocs = @ \cup {Rel(24, "half", 5)}] : o \in Base}

\* Another module, locals left alone, or splits that do not fit.
RestChanged ==
  {[o EXCEPT !.module = 1, !.globalize = g, !.comment = c] : o \in Base, g \in BOOLEAN, c \in {0, 8}}
  \cup {[o EXCEPT !.module = 1, !.symbols[3].section = None] : o \in Base}
  \cup {[o EXCEPT !.sections[1].splits[2].addr = 25] : o \in Base}
  \cup {[o EXCEPT !.sections[1].splits = <<@[1]>>] : o \in Base}
  \cup {[o EXCEPT !.sections[1].splits[1].end = 20] : o \in Base}
  \cup {[o EXCEPT !.units[1].comment = c] : o \in Base, c \in {0, 14}}
  \cup {[o EXCEPT !.sections[1].relocs = @ \cup {Rel(30, "half", 4)}] : o \in Base}

\* Symbols of no alignment, one of them on no word boundary.
NoAlign ==
  {[o EXCEPT !.symbols[4].align = None, !.symbols[2].align = None] : o \in Base}
  \cup {[o EXCEPT !.symbols[4].align = None, !.symbols[4].addr = 58, !.symbols[4].size = 2] : o \in Base}
  \cup {[o EXCEPT !.symbols[4].align = None, !.sections[2].splits[2].common = TRUE] : o \in Base}

\* Strings that end in zeros or do not, kinds that disagree, data among code.
StringKinds == {"string", "sjis", "sjis_table", "string16", "string16_table"}

TextChanged ==
  {[o EXCEPT !.symbols[4].data = t, !.sections[2].nonzero = n, !.sections[2].relocs = {Rel(48, "abs", 1)}] :
     o \in Base, t \in StringKinds, n \in {48..59, 48..62, 48..63}}
  \cup {[o EXCEPT !.symbols = Append([@ EXCEPT ![4].data = "string"],
                                    [Sym("h", 2, 56, k, "global") EXCEPT !.data = "sjis"])] :
           o \in Base, k \in {"object", "label"}}
  \cup {[o EXCEPT !.symbols[2].kind = "object", !.sections[1].branches = b] :
           o \in Base, b \in {{}, {<<24, 28>>}, {<<28, 24>>}}}
  \cup {[o EXCEPT !.sections[2].relocs = {[Rel(48, "abs", 1) EXCEPT !.addend = a]}] : o \in Base, a \in {4, 8}}

MCOriginals == Products \cup DataChanged \cup NamesChanged \cup RestChanged \cup NoAlign \cup TextChanged
=============================================================================
