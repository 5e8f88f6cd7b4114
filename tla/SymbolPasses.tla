---------------------------- MODULE SymbolPasses ----------------------------
(***************************************************************************)
(* What dtk does to the symbols and relocations of a DOL or a REL while it *)
(* loads one (src/src/cmd/dol.rs, load_analyze_dol and load_analyze_rel):  *)
(* the symbols file and the passes, as operators on the object, which      *)
(* ObjectRuns puts together.                                               *)
(***************************************************************************)
EXTENDS Tracker

CONSTANTS
  TableSize,   \* TRK_TABLE_SIZE
  Lists        \* the labels of the sections .ctors and .dtors

ASSUME TableSizeAssumption == TableSize \in Nat

AutoName(prefix, p, addr) == <<prefix, p.id, addr>>
LabelAt(p, section, addr) == LabelName(p.id, section, addr)
TableName(p, section, addr) ==
  IF p.id = 0 THEN <<"jumptable", 0, 0, addr>> ELSE <<"jumptable", p.id, section, addr>>

----------------------------------------------------------------------------
(***************************************************************************)
(* The symbols file of an object, as it is read and written                *)
(* (src/src/util/config.rs).  A line is a record: name, in (the name of a  *)
(* section, or ABS), addr, kind, size and align (0 where there is none),   *)
(* scope, data, and attrs, the words behind them.                          *)
(***************************************************************************)
Attributes == {"hidden", "stripped", "noreloc", "noexport", "comdat", "alias", "nocomdat"}

\* The section of a line; one that is not there is what is at the address, which
\* gets that name unless it has one.
Unknown(o, line) == line.in # "ABS" /\ SectionsNamed(o, line.in) = {}

SectionOf(o, line) ==
  IF line.in = "ABS" THEN None
  ELSE CHOOSE i \in IF Unknown(o, line) THEN SectionAt(o, line.addr) ELSE SectionsNamed(o, line.in) :
         TRUE

\* The section is not there, or more than one has its name.
Misplaced(o, line) ==
  IF Unknown(o, line)
  THEN \/ ~o.t.exe \/ SectionAt(o, line.addr) = {}
       \/ ~o.sections[SectionOf(o, line)].known /\ ~IsSectionName(line.in)
  ELSE Cardinality(SectionsNamed(o, line.in)) > 1

RenamedBy(o, line) ==
  IF Unknown(o, line) /\ ~o.sections[SectionOf(o, line)].known
  THEN RenameSections(o, SectionOf(o, line) :> line.in)
  ELSE o

\* parse_symbol_line: an alias is a label, whatever its line says.
Parsed(line, section) ==
  [name |-> line.name, addr |-> line.addr, section |-> section,
   size |-> line.size, known |-> line.size > 0,
   kind |-> IF "alias" \in line.attrs THEN "label" ELSE line.kind,
   scope |-> line.scope,
   flags |-> (line.attrs \cap Attributes)
             \cup (IF line.name \in Dotted \/ "force_active" \in line.attrs
                   THEN {"exported"} ELSE {}),
   align |-> line.align, data |-> line.data]

\* A line that dtk refuses: no relocations in a symbol with no size, or with no section.
Unreadable(line) == "noreloc" \in line.attrs /\ (line.size = 0 \/ line.in = "ABS")

\* One line of apply_symbols_file: the file replaces what is there.
ApplyLine(o, line) ==
  LET section == SectionOf(o, line)
      q == RenamedBy(o, line)
      blocked == IF "noreloc" \in line.attrs
                 THEN [q EXCEPT !.sources = InsertRange(@, <<section, line.addr>>,
                                                        line.addr + line.size)]
                 ELSE q
  IN  IF Unreadable(line) \/ Misplaced(o, line) THEN Stop(o)
      ELSE AddSymbol(blocked, Parsed(line, section), TRUE)

ApplyFile(o, file) == FoldLeft(LAMBDA p, line : ApplyLine(p, line), o, file)

\* symbol_flags_to_str is the scope; force_active is not written.
LineOf(o, sym) ==
  [name |-> sym.name, addr |-> sym.addr, kind |-> sym.kind,
   in |-> IF sym.section = None THEN "ABS" ELSE o.sections[sym.section].name,
   size |-> IF sym.known THEN sym.size ELSE 0, scope |-> sym.scope, align |-> sym.align,
   data |-> sym.data, attrs |-> sym.flags \cap Attributes]

\* The symbols of all sections, by address, and at one address as they were added.
Ordered(o) == FoldInOrder(LAMBDA is, key : is \o o.t.bySec[key], <<>>, DOMAIN o.t.bySec, Before)

\* write_symbols: in the order of the addresses, each name at an address once.
Listed(o) ==
  LET shown(i) == o.t.symbols[i].kind # "section" /\ "nowrite" \notin o.t.symbols[i].flags
      key(i) == LET sym == o.t.symbols[i] IN <<sym.name, sym.section, sym.addr>>
      seen(is) == {key(j) : j \in Range(is)}
  IN  FoldLeft(LAMBDA is, i : IF shown(i) /\ key(i) \notin seen(is) THEN Append(is, i) ELSE is,
               <<>>, Ordered(o))

Written(o) == [n \in DOMAIN Listed(o) |-> LineOf(o, o.t.symbols[Listed(o)[n]])]

----------------------------------------------------------------------------
(***************************************************************************)
(* The passes that find functions and symbols in the code                  *)
(* (src/src/analysis/pass.rs).  What is found is a record: functions, an   *)
(* end for each start (None for what turned out to be no function),        *)
(* tables, symbols and sections.                                           *)
(***************************************************************************)
SledSize(sled) == (sled.last - sled.first) * sled.step + 4

\* FindSaveRestSleds: the functions that save registers have an entry for each register.
SledSymbols(sled) ==
  <<Fixed(sled.name, sled.at[1], sled.at[2], SledSize(sled), "function", "global")>>
  \o [n \in 1..sled.last - sled.first |->
        Fixed(<<sled.label, sled.first + n - 1>>, sled.at[1],
              sled.at[2] + (n - 1) * sled.step, 0, "label", "global")]

FoundSleds(sleds) == FoldLeft(LAMBDA syms, sled : syms \o SledSymbols(sled), <<>>, sleds)

\* FindTRKInterruptVectorTable: the first thing in the code that is no function but the table.
TableSymbols(functions, headers) ==
  LET at == {a \in DOMAIN functions \cap headers : functions[a] = None}
      start == CHOOSE a \in at : \A b \in at \ {a} : Before(a, b)
  IN  IF at = {} THEN <<>>
      ELSE <<Fixed(<<"gTRKInterruptVectorTable">>, start[1], start[2], 0, "label", "global"),
             Fixed(<<"gTRKInterruptVectorTableEnd">>, start[1], start[2] + TableSize, 0,
                   "label", "global")>>

\* A section of pointers to functions, which ends with a null pointer.
IsList(o, p, functions, i) ==
  LET section == o.sections[i]
      words == {a \in section.start..section.end - 1 : (a - section.start) % 4 = 0}
      points(a) == /\ <<i, a>> \in DOMAIN p.pointers
                   /\ LET to == p.pointers[<<i, a>>]
                      IN  o.sections[to[1]].kind = "code" /\ to \in DOMAIN functions
  IN  /\ ~section.known /\ IsData(section.kind) /\ section.end - section.start >= 4
      /\ \A a \in words \ {section.end - 4} : points(a)
      /\ <<i, section.end - 4>> \notin DOMAIN p.pointers
      /\ {<<i, a>> : a \in section.end - 4..section.end - 1} \subseteq p.zeros

\* FindRelCtorsDtors and FindRelRodataData: two sections are left, in their order.
Pair(sections, first, second) ==
  IF Cardinality(sections) # 2 THEN <<>>
  ELSE [i \in sections |-> IF i = Min(sections) THEN first ELSE second]

RelSections(o, p, functions) ==
  LET named == {o.sections[i].name : i \in DOMAIN o.sections}
      lists == IF {".ctors", ".dtors"} \cap named # {} THEN <<>>
               ELSE Pair({i \in DOMAIN o.sections : IsList(o, p, functions, i)},
                         ".ctors", ".dtors")
      left == {i \in DOMAIN o.sections \ DOMAIN lists :
                 ~o.sections[i].known /\ IsData(o.sections[i].kind)}
      data == IF {".rodata", ".data"} \cap named # {} THEN <<>>
              ELSE Pair(left, ".rodata", ".data")
  IN  [i \in DOMAIN lists \cup DOMAIN data |-> IF i \in DOMAIN lists THEN lists[i] ELSE data[i]]

ListSymbols(sections) ==
  FoldInOrder(LAMBDA syms, i : Append(syms, Fixed(Lists[sections[i]], i, 0, 0, "label", "global")),
              <<>>, {i \in DOMAIN sections : sections[i] \in DOMAIN Lists}, <)

\* The functions that are known when detect_functions starts.
KnownFunctions(o, p) ==
  LET syms == {i \in DOMAIN o.t.symbols :
                 o.t.symbols[i].kind = "function" /\ o.t.symbols[i].section # None}
      at(i) == <<o.t.symbols[i].section, o.t.symbols[i].addr>>
      sled(a) == CHOOSE k \in Range(p.sleds) : k.at = a
      last(a) == CHOOSE i \in syms : at(i) = a /\ \A j \in syms : at(j) = a => j <= i
  IN  [a \in {at(i) : i \in syms} \cup {k.at : k \in Range(p.sleds)} |->
         IF \E i \in syms : at(i) = a
         THEN IF o.t.symbols[last(a)].known THEN a[2] + o.t.symbols[last(a)].size ELSE None
         ELSE a[2] + SledSize(sled(a))]

\* detect_functions keeps the ends that are known, and finds the others.
Detected(o, p) ==
  LET known == KnownFunctions(o, p)
  IN  [a \in DOMAIN known \cup DOMAIN p.found |->
         IF a \in DOMAIN known /\ (known[a] # None \/ a \notin DOMAIN p.found) THEN known[a]
         ELSE p.found[a]]

Analysed(o, p) ==
  LET functions == Detected(o, p)
      sections == IF p.exe THEN <<>> ELSE RelSections(o, p, functions)
  IN  [functions |-> functions, tables |-> p.tables, sections |-> sections,
       symbols |-> FoundSleds(p.sleds)
                   \o (IF p.exe THEN TableSymbols(functions, p.headers)
                       ELSE ListSymbols(sections))]

----------------------------------------------------------------------------
(***************************************************************************)
(* AnalyzerState::apply (src/src/analysis/cfa.rs).                         *)
(***************************************************************************)
Inside(o, at, end) ==
  o.sections[at[1]].start <= at[2] /\ at[2] <= end /\ end <= o.sections[at[1]].end

ApplyFunctions(o, p, functions) ==
  FoldInOrder(LAMBDA q, at :
                IF ~Inside(q, at, functions[at]) THEN Stop(q)
                ELSE AddSymbol(q, Fixed(AutoName("fn", p, at[2]), at[1], at[2],
                                        functions[at] - at[2], "function", "none"), FALSE),
              o, {a \in DOMAIN functions : functions[a] # None}, Before)

\* A jump table ends where the next one starts.
TableEnd(tables, at) ==
  LET next == {a \in DOMAIN tables : a[1] = at[1] /\ Before(at, a)}
  IN  Min({at[2] + tables[at]} \cup {a[2] : a \in next})

ApplyTables(o, p, tables) ==
  FoldInOrder(LAMBDA q, at :
                IF ~Inside(q, at, TableEnd(tables, at)) THEN Stop(q)
                ELSE AddSymbol(q, Fixed(TableName(p, at[1], at[2]), at[1], at[2],
                                        TableEnd(tables, at) - at[2], "object", "local"), FALSE),
              o, DOMAIN tables, Before)

\* What is left of a symbol inside of one that is known.
Deleted(sym) ==
  [sym EXCEPT !.name = <<"__DELETED_">> \o @, !.kind = "label", !.size = 0,
              !.scope = "none", !.flags = {"ignore", "nowrite", "noexport", "stripped"}]

Cleared(t, sym) ==
  LET inside == {i \in DOMAIN t.symbols :
                   LET other == t.symbols[i]
                   IN  /\ other.section = sym.section /\ other.kind = sym.kind
                       /\ sym.addr < other.addr /\ other.addr < sym.addr + sym.size}
  IN  FoldInOrder(LAMBDA u, i : Replace(u, i, Deleted(u.symbols[i])), t, inside, <)

ApplyKnown(o, sym) == AddSymbol([o EXCEPT !.t = Cleared(@, sym)], sym, TRUE)

\* The known symbols go by their address, and at one address as they were found.
KnownBefore(syms, m, n) ==
  \/ Before(<<syms[m].section, syms[m].addr>>, <<syms[n].section, syms[n].addr>>)
  \/ syms[m].section = syms[n].section /\ syms[m].addr = syms[n].addr /\ m < n

AllKnown(o, syms) ==
  FoldInOrder(LAMBDA q, n : ApplyKnown(q, syms[n]), o, DOMAIN syms,
              LAMBDA m, n : KnownBefore(syms, m, n))

\* "Only one of .ctors and .dtors has been found?"
OneList(o) == (SectionNamed(o, ".ctors") = 0) # (SectionNamed(o, ".dtors") = 0)

ApplyAnalysis(o, p) ==
  LET found == Analysed(o, p)
      named == RenameSections(o, found.sections)
      sized == ApplyTables(ApplyFunctions(named, p, found.functions), p, found.tables)
  IN  IF ~p.exe /\ OneList(o) THEN Stop(o)
      ELSE AllKnown(sized, found.symbols)

----------------------------------------------------------------------------
(***************************************************************************)
(* Functions that are recognised by their code (src/src/util/signatures.rs *)
(* and src/src/analysis/signatures.rs).  A match is a record: at, the      *)
(* symbol, the sizes, and relocs, each with what the code refers to and    *)
(* the symbol that is there.                                               *)
(***************************************************************************)
\* apply_symbol: the symbol of a signature does not replace one that has a name.
SignatureSymbol(sym, at) ==
  [name |-> sym.name, addr |-> at[2],
   section |-> IF at[1] = 0 \/ sym.abs THEN None ELSE at[1],
   size |-> sym.size, known |-> sym.size > 0 \/ sym.kind = "label", kind |-> sym.kind,
   scope |-> "global", flags |-> {}, align |-> None, data |-> "unknown"]

\* A section with no name gets the one that the signature has for the symbol.
NamedBySignature(o, sym, at) ==
  IF at[1] # 0 /\ sym.in # "" /\ ~o.sections[at[1]].known
  THEN RenameSections(o, at[1] :> sym.in)
  ELSE o

ApplySymbol(o, sym, at) == AddSymbol(NamedBySignature(o, sym, at), SignatureSymbol(sym, at), FALSE)

\* A relocation that a signature has, against the symbol found at its target.
ApplySignatureReloc(o, match, r) ==
  LET at == <<match.at[1], match.at[2] + r.offset>>
      to == <<r.target[1], r.target[2] - r.addend>>
      sym == SignatureSymbol(r.symbol, to)
      added == ApplySymbol(o, r.symbol, to)
  IN  IF at \in DOMAIN o.relocs \/ ~added.ok THEN Stop(o)
      ELSE [added EXCEPT !.relocs = Put(@, at, [kind |-> r.kind, symbol |-> AddedIndex(o.t, sym),
                                                addend |-> r.addend])]

ApplySignatureRelocs(o, match) ==
  FoldLeft(LAMBDA q, r : ApplySignatureReloc(q, match, r), o, match.relocs)

\* apply_signature, for a function with a name that a signature is looked for by.
ApplySignature(o, match) ==
  LET named == ApplySymbol(o, match.symbol, match.at)
  IN  IF \E i \in DOMAIN o.t.symbols :
           /\ o.t.symbols[i].section = match.at[1] /\ o.t.symbols[i].addr = match.at[2]
           /\ o.t.symbols[i].name = match.by
      THEN ApplySignatureRelocs(named, match)
      ELSE o

ApplySignatures(o, p) == FoldLeft(LAMBDA q, match : ApplySignature(q, match), o, p.matches)

\* update_ctors_dtors: the lists have a label, unless a symbol has its name already.
UpdateList(o, name) ==
  LET i == SectionNamed(o, name)
  IN  IF Len(ForName(o.t, Lists[name])) > 1 THEN Stop(o)
      ELSE IF i = 0 \/ ForName(o.t, Lists[name]) # <<>> THEN o
      ELSE [o EXCEPT !.t = AddDirect(@, Fixed(Lists[name], i, o.sections[i].start, 0, "label",
                                              "global"))]

UpdateLists(o) == UpdateList(UpdateList(o, ".ctors"), ".dtors")

----------------------------------------------------------------------------
(***************************************************************************)
(* What the configuration says of relocations (src/src/cmd/dol.rs).        *)
(***************************************************************************)
ApplyBlock(o, b) ==
  IF b.target THEN [o EXCEPT !.targets = InsertRange(@, b.start, b.end)]
  ELSE [o EXCEPT !.sources = InsertRange(@, b.start, b.end)]

ApplyBlocks(o, p) == FoldLeft(LAMBDA q, b : ApplyBlock(q, b), o, p.blocks)

\* apply_add_relocations: a name that no symbol has is external.
External(name) ==
  [name |-> name, addr |-> 0, section |-> None, size |-> 0, known |-> FALSE, kind |-> "label",
   scope |-> "none", flags |-> {}, align |-> None, data |-> "unknown"]

ApplyAdded(o, r) ==
  LET i == ByName(o.t, r.name)
      reloc(k) == [kind |-> r.kind, symbol |-> k, addend |-> r.addend]
  IN  IF Len(ForName(o.t, r.name)) > 1 THEN Stop(o)
      ELSE IF i # None THEN [o EXCEPT !.relocs = Put(@, r.at, reloc(i))]
      ELSE [o EXCEPT !.t = AddDirect(@, External(r.name)),
                     !.relocs = Put(@, r.at, reloc(Len(o.t.symbols) + 1))]

ApplyAll(o, p) == FoldLeft(LAMBDA q, r : ApplyAdded(q, r), o, p.added)
=============================================================================
