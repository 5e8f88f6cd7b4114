------------------------------ MODULE MapFile -------------------------------
(***************************************************************************)
(* A linker's map (src/src/util/map.rs): the state machine that reads it   *)
(* line by line, and what apply_map makes of it in an object: symbols,     *)
(* names of sections and splits.  What only the commands that print a map  *)
(* look at, references and the names in C++, is left out.                  *)
(*                                                                         *)
(* A line is a record of the pattern it matches and what that captures;    *)
(* "other" matches none.  A unit is a tuple as in SplitsFile; the first    *)
(* component tells an assembly file's from the others, and one whose name  *)
(* has spaces.                                                             *)
(***************************************************************************)
EXTENDS SplitsFile, TLC

\* What has been read.  units and symbols are by section: a sequence of places where
\* a unit begins, and the entries by address.
NoMap(common, version) ==
  [mode |-> "none", section |-> NoName, last |-> 0, linked |-> FALSE, hasLink |-> FALSE,
   lastName |-> NoName, now |-> [units |-> <<>>, symbols |-> <<>>],
   units |-> <<>>, symbols |-> <<>>, sections |-> <<>>, link |-> <<>>,
   code |-> <<>>, inSymbols |-> FALSE, static |-> FALSE, pe |-> <<>>,
   common |-> common, version |-> version, error |-> FALSE]

MapFails(m) == [m EXCEPT !.error = TRUE]

SumOf(sizes) == FoldLeft(LAMBDA sum, n : sum + n, 0, sizes)

\* dedup_by: the first of each run of places of one unit.
Firsts(units) ==
  LET first == SelectSeq([i \in DOMAIN units |-> i], LAMBDA i : i = 1 \/ units[i - 1][2] # units[i][2])
  IN  [n \in DOMAIN first |-> units[first[n]]]

-----------------------------------------------------------------------------
\* end_section_layout

\* A unit that comes again in .bss begins the common BSS.
CommonStart(m) ==
  LET runs == Firsts(m.now.units)
      again == {n \in DOMAIN runs : \E k \in 1..n - 1 : runs[k][2] = runs[n][2]}
  IN  IF m.section # ".bss" \/ m.common # None \/ again = {} THEN m.common ELSE runs[Min(again)][1]

Addresses(symbols) == {symbols[i].addr : i \in DOMAIN symbols}

\* (mutant) unused symbols stay at the last address.
StayUnused(symbols, common) == symbols

\* Unused symbols in front of their unit's first used one go to the next address;
\* behind the last address they are lost.
MoveUnused(symbols, common) ==
  LET lastUnit(i) ==
        LET used == {j \in 1..i - 1 : ~symbols[j].unused}
        IN  IF used = {} THEN NoUnit ELSE symbols[Max(used)].unit
      moves(i) == symbols[i].addr >= common /\ symbols[i].unused /\ symbols[i].unit # lastUnit(i)
      next(i) ==
        LET behind == {a \in Addresses(symbols) : a > symbols[i].addr}
        IN  IF behind = {} THEN None ELSE Min(behind)
      at(a) ==
        LET moved == SelectSeq([i \in DOMAIN symbols |-> i], LAMBDA i : moves(i) /\ next(i) = a)
            stay == SelectSeq([i \in DOMAIN symbols |-> i], LAMBDA i : ~moves(i) /\ symbols[i].addr = a)
        IN  [n \in DOMAIN moved |-> [symbols[moved[n]] EXCEPT !.addr = a]]
            \o [n \in DOMAIN stay |-> symbols[stay[n]]]
      ordered == Sorted(Addresses(symbols), <)
  IN  FlattenSeq([n \in DOMAIN ordered |-> at(ordered[n])])

\* The first symbol of a unit in common BSS has the size of all its symbols.
Deflate(symbols, places) ==
  LET of(n) ==
        {i \in DOMAIN symbols : /\ places[n][1] <= symbols[i].addr
                                /\ n < Len(places) => symbols[i].addr < places[n + 1][1]}
      rest(n) == SumOf([k \in 1..Cardinality(of(n)) - 1 |-> symbols[Min(of(n)) + k].size])
      inflated(i, n) ==
        of(n) # {} /\ i = Min(of(n)) /\ rest(n) # 0 /\ symbols[i].size > rest(n)
  IN  [i \in DOMAIN symbols |->
        [symbols[i] EXCEPT !.size =
          LET ns == {n \in DOMAIN places : inflated(i, n)} IN IF ns = {} THEN @ ELSE @ - rest(Min(ns))]]

EndLayout(m) ==
  LET common == CommonStart(m)
      check == m.section = ".bss" /\ common # None /\ m.version # None /\ m.version < 11
      places == SelectSeq(m.now.units, LAMBDA p : p[1] >= common)
      symbols == IF check THEN Deflate(MoveUnused(m.now.symbols, common), Firsts(places))
                 ELSE m.now.symbols
      kept == SelectSeq(symbols, LAMBDA e : ~e.unused \/ (check /\ e.addr >= common))
  IN  [m EXCEPT !.common = common,
         !.symbols = IF m.now.symbols = <<>> THEN @ ELSE (m.section :> kept) @@ @,
         !.units = IF m.now.units = <<>> THEN @ ELSE (m.section :> m.now.units) @@ @]

\* end_state
EndState(m) ==
  CASE m.mode = "link map" -> [m EXCEPT !.linked = m.lastName # NoName]
    [] m.mode = "layout" -> EndLayout(m)
    [] OTHER -> m

\* switch_state.  The new state is made before the old one is ended.
Switch(m, mode) == [EndState(m) EXCEPT !.mode = mode]

SwitchToLayout(m, section) ==
  [Switch(m, "layout") EXCEPT !.section = section, !.hasLink = m.linked, !.last = 0,
     !.now = [units |-> <<>>, symbols |-> <<>>]]

-----------------------------------------------------------------------------
\* process_link_map_entry: the first unit a symbol is met in; ">>>" is the last one again.
LinkEntry(m, line) ==
  LET again == line.sym = ">>>"
      name == IF again THEN m.lastName ELSE line.sym
      key == <<name, line.unit>>
      new == key \notin DOMAIN m.link
  IN  IF again /\ m.lastName = NoName THEN MapFails(m)
      ELSE [m EXCEPT !.lastName = IF new /\ ~again THEN name ELSE @,
              !.link = IF new THEN (key :> [kind |-> line.kind, vis |-> line.vis]) @@ @ ELSE @]

\* process_link_map_generated
LinkGenerated(m, line) ==
  [m EXCEPT !.link = (<<line.sym, NoUnit>> :> [kind |-> "notype", vis |-> "global"]) @@ @]

\* section_layout_entry
CodeSection(section) == section \in {".text", ".init"}

\* (mutant) a unit begins only where a symbol of the section says so.
BeginsUnnamed(m, line) == m.now.units = <<>> \/ line.sym = m.section

\* A line begins a unit: another unit than the last, or the section's own symbol.
Begins(m, line) ==
  \/ m.now.units = <<>> \/ Last(m.now.units)[2] # line.unit
  \/ line.sym = m.section

LayoutKind(m, line) ==
  CASE line.sym = m.section -> "section"
    [] line.sym # m.section /\ line.size > 0 -> IF CodeSection(m.section) THEN "func" ELSE "object"
    [] OTHER -> "notype"

LayoutEntry(m, line) ==
  LET addr == IF line.unused THEN m.last ELSE line.addr
      key == <<line.sym, line.unit>>
      known == IF key \in DOMAIN m.link THEN m.link[key]
               ELSE [kind |-> LayoutKind(m, line),
                     vis |-> IF m.hasLink /\ ~line.unused THEN "local" ELSE "unknown"]
      entry == [name |-> line.sym, unit |-> line.unit, addr |-> addr, size |-> line.size,
                align |-> line.align, unused |-> line.unused, kind |-> known.kind, vis |-> known.vis]
      upTo == {i \in DOMAIN m.now.symbols : m.now.symbols[i].addr <= addr}
      begun == [m EXCEPT !.last = addr,
                  !.now.units = IF Begins(m, line) /\ ~line.unused THEN Append(@, <<addr, line.unit>>) ELSE @]
  IN  IF line.sym = "*fill*" \/ line.unit \in {<<"fill", 0, 0>>, <<"generated", 0, 0>>} THEN m
      ELSE IF line.sym = m.section THEN begun
      ELSE [begun EXCEPT !.now.symbols = InsertAt(@, Max({0} \cup upTo) + 1, entry)]

\* memory_map_entry: a section without an address is not in the file.
MemoryEntry(m, line) ==
  IF line.addr = None THEN m
  ELSE [m EXCEPT !.sections = Append(@, [name |-> line.section, addr |-> line.addr, size |-> line.size])]

\* linker_symbol_entry
LinkerSymbol(m, line) ==
  LET key == <<line.sym, NoUnit>>
  IN  IF line.addr = 0 \/ key \in DOMAIN m.link THEN m
      ELSE [m EXCEPT !.link = (key :> [kind |-> "notype", vis |-> "global"]) @@ @]

\* The maps of MSVC's linker: the segments that are code, then the symbols by address.
PeLine(m, line) ==
  CASE line.line = "pe section" ->
         [m EXCEPT !.code = IF line.seg \in DOMAIN @ THEN @ ELSE (line.seg :> line.code) @@ @]
    [] line.line = "pe symbols" -> [m EXCEPT !.inSymbols = TRUE]
    [] line.line = "pe static" -> [m EXCEPT !.static = TRUE]
    [] line.line = "pe symbol" /\ m.inSymbols /\ line.seg # 0 /\ line.unit # <<"generated", 0, 0>> ->
         [m EXCEPT !.pe = Append(@, [name |-> line.sym, addr |-> line.addr, static |-> m.static,
                                     code |-> line.seg \in DOMAIN m.code /\ m.code[line.seg]])]
    [] OTHER -> m

\* process_line: what begins another part of the map.
Header(m, line) ==
  CASE line.line = "layout" -> SwitchToLayout(m, line.section)
    [] line.line = "memory map" -> Switch(m, "memory map")
    [] line.line = "linker symbols" -> Switch(m, "linker symbols")
    [] OTHER -> MapFails(m)

ProcessLine(m, line) ==
  CASE m.error \/ line.line = "blank" -> m
    [] ~m.error /\ m.mode = "none" ->
         (CASE line.line = "link map" -> Switch(m, "link map")
            [] line.line = "pe sections" -> Switch(m, "pe map")
            [] line.line = "preamble" -> m
            [] OTHER -> Header(m, line))
    [] ~m.error /\ m.mode = "pe map" -> PeLine(m, line)
    [] ~m.error /\ m.mode = "link map" ->
         (CASE line.line = "entry" -> LinkEntry(m, line)
            [] line.line = "generated" -> LinkGenerated(m, line)
            [] line.line = "ignored" -> m
            [] OTHER -> Header(m, line))
    [] ~m.error /\ m.mode = "layout" ->
         (CASE line.line = "symbol" -> LayoutEntry(m, line)
            [] line.line = "header" -> m
            [] OTHER -> Header(m, line))
    [] ~m.error /\ m.mode = "memory map" ->
         (CASE line.line = "memory" -> MemoryEntry(m, line)
            [] line.line = "linker symbols" -> Switch(m, "linker symbols")
            [] OTHER -> m)
    [] OTHER -> IF line.line = "linker symbol" THEN LinkerSymbol(m, line) ELSE m

\* finalize: without a link map it is a guess which symbols are local.
AllEntries(m) == FlattenSeq([n \in 1..Cardinality(DOMAIN m.symbols) |-> m.symbols[SetToSeq(DOMAIN m.symbols)[n]]])

Guess(m) ==
  LET often(name) ==
        Cardinality({i \in DOMAIN AllEntries(m) :
          AllEntries(m)[i].name = name /\ AllEntries(m)[i].vis # "local"}) > 1
      vis(e) == CASE e.vis # "unknown" -> e.vis
                  [] e.vis = "unknown" /\ (e.name \in {"@1", "$1"} \/ often(e.name)) -> "local"
                  [] OTHER -> "global"
  IN  [s \in DOMAIN m.symbols |->
        [i \in DOMAIN m.symbols[s] |-> [m.symbols[s][i] EXCEPT !.vis = vis(m.symbols[s][i])]]]

Finalized(m) == IF m.error \/ m.linked THEN m ELSE [m EXCEPT !.symbols = Guess(m)]

ProcessMap(lines, common, version) ==
  Finalized(EndState(FoldLeft(ProcessLine, NoMap(common, version), lines)))

-----------------------------------------------------------------------------
\* apply_map

\* normalize_section_name and pe_section_base_name
Normal(name) == IF name = ".extabindex" THEN "extabindex" ELSE IF name = ".extab" THEN "extab" ELSE name
BaseName(name, whole) == IF whole THEN name ELSE IF name \in {".rdata$r", ".xdata$x"} THEN ".rdata" ELSE Normal(name)

\* The sections of a map without a memory map, from the symbols in them.
Recreated(m) ==
  LET names == SetToSeq({s \in DOMAIN m.symbols : m.symbols[s] # <<>>})
  IN  [n \in DOMAIN names |->
        LET symbols == m.symbols[names[n]]
            lo == Min({symbols[i].addr : i \in DOMAIN symbols})
        IN  [name |-> Normal(names[n]), addr |-> lo,
             size |-> Max({symbols[i].addr + symbols[i].size : i \in DOMAIN symbols}) - lo]]

SectionInfos(m, obj) ==
  IF m.sections = <<>> /\ obj.kind = "executable" THEN Recreated(m) ELSE m.sections

\* What a section of a module is called that the map has nothing of.
DefaultName(m, s) ==
  LET usual == <<".init", ".text", ".ctors", ".dtors", ".rodata", ".data", ".bss">>
      rodata == ".rodata" \in DOMAIN m.symbols /\ m.symbols[".rodata"] # <<>>
  IN  CASE s.kind = "code" -> IF s.elf = 0 THEN ".init" ELSE ".text"
        [] s.kind = "bss" -> ".bss"
        [] OTHER -> IF s.elf + 1 \notin DOMAIN usual \/ (s.elf = 4 /\ ~rodata) THEN ".data"
                    ELSE usual[s.elf + 1]

\* What the map calls a section: in an executable by its place, in a module by its number.
InfoOf(m, infos, obj, i) ==
  LET s == obj.sections[i]
      there == {n \in DOMAIN infos : infos[n].addr >= s.addr /\ infos[n].addr + infos[n].size <= SectionEnd(s)}
      sized == SelectSeq(infos, LAMBDA info : info.size > 0)
  IN  IF obj.kind = "executable" THEN (IF there = {} THEN NoName ELSE infos[Min(there)].name)
      ELSE IF i \in DOMAIN sized THEN sized[i].name
      ELSE DefaultName(m, s)

RenamedSections(m, obj) ==
  LET infos == SectionInfos(m, obj)
      name(i) == InfoOf(m, infos, obj, i)
      named == {i \in DOMAIN obj.sections : name(i) # NoName}
  IN  IF \E i \in named : KnownKind(name(i)) = NoName THEN Rejected
      ELSE [obj EXCEPT !.sections =
              [i \in DOMAIN @ |-> IF i \notin named THEN @[i]
                                  ELSE [@[i] EXCEPT !.name = name(i), !.kind = KnownKind(name(i))]]]

\* The symbols that are added, by the index of their section; whole when each section
\* of the map is one of the object, under its own name.
MapSymbols(m, obj, whole) ==
  LET entries == UNION {{<<s, m.symbols[s][i]>> : i \in DOMAIN m.symbols[s]} : s \in DOMAIN m.symbols}
      bogus == \A e \in entries : e[2].align = 4
  IN  {[section |-> Min(Named(obj, BaseName(e[1], whole))), name |-> e[2].name, unit |-> e[2].unit,
        addr |-> e[2].addr, size |-> e[2].size, kind |-> e[2].kind, vis |-> e[2].vis,
        stripped |-> e[2].unused, align |-> IF bogus THEN None ELSE e[2].align] : e \in {x \in entries : Named(obj, BaseName(x[1], whole)) # {}}}

\* The spaces in the name of a unit become slashes.
Path(unit) == IF unit[1] = "spaced" THEN <<"user", unit[2], unit[3]>> ELSE unit
Assembly(unit) == unit[1] = "asm"

\* The splits of a section: each place up to the next.
MapSplits(m, name, s, whole) ==
  LET places == m.units[name]
      end(n) == IF n < Len(places) THEN places[n + 1][1] ELSE SectionEnd(s)
  IN  [n \in DOMAIN places |->
        [unit |-> Path(places[n][2]), addr |-> places[n][1], end |-> end(n), align |-> None,
         common |-> name = ".bss" /\ m.common # None /\ places[n][1] >= m.common, auto |-> FALSE,
         skip |-> FALSE, rename |-> IF BaseName(name, whole) \in {name, Normal(name)} THEN NoName ELSE name]]

WithMapSplits(m, obj, whole) ==
  LET add(o, name) ==
        LET i == Min(Named(o, BaseName(name, whole)))
            splits == MapSplits(m, name, o.sections[i], whole)
            new == SelectSeq(splits, LAMBDA p : Assembly(p.unit) /\ \A u \in ToSet(o.units) : u.name # p.unit)
            units == SelectSeq([n \in DOMAIN new |-> n], LAMBDA n : \A k \in 1..n - 1 : new[k].unit # new[n].unit)
        IN  [o EXCEPT !.sections[i].splits = FoldLeft(PushSplit, @, splits),
               !.units = @ \o [n \in DOMAIN units |->
                  [name |-> new[units[n]].unit, auto |-> FALSE, comment |-> 0, order |-> None]]]
  IN  FoldLeft(add, obj, SetToSeq(DOMAIN m.units))

\* Every section of the map is found in the object by its name.
Found(m, obj, whole) ==
  /\ \A s \in DOMAIN m.symbols : Cardinality(Named(obj, BaseName(s, whole))) = 1
  /\ \A s \in DOMAIN m.units : Named(obj, BaseName(s, whole)) # {}

\* What the linker left out is in no section.
Live(m) ==
  [m EXCEPT !.symbols = Restrict(@, DOMAIN @ \ {".dead"}), !.units = Restrict(@, DOMAIN @ \ {".dead"})]

ApplyMap(m, obj) ==
  LET named == RenamedSections(m, obj)
  IN  IF m.pe # <<>> THEN obj
      ELSE IF named = Rejected THEN Rejected
      ELSE IF Found(Live(m), named, FALSE) THEN WithMapSplits(Live(m), named, FALSE)
      ELSE Rejected

\* apply_pe_map_symbols: the functions that get the names of the map's public symbols,
\* each name once; imported names are the import table's.
PeRenames(m, functions, imports) ==
  LET wanted(p) == /\ ~p.static /\ p.code /\ p.name \notin {"fn_1", "lbl_1"}
                   /\ p.addr \in functions /\ p.name \notin imports
      named == {n \in DOMAIN m.pe : wanted(m.pe[n])}
      first == {n \in named : \A k \in named : m.pe[k].name = m.pe[n].name => n <= k}
      last(a) == Max({n \in first : m.pe[n].addr = a})
  IN  [a \in {m.pe[n].addr : n \in first} |-> m.pe[last(a)].name]

\* create_obj: an object of a map alone (dtk map config).
CreateObj(m) ==
  LET sections == [i \in DOMAIN m.sections |->
        [name |-> m.sections[i].name,
         kind |-> IF KnownKind(m.sections[i].name) = NoName THEN "rodata" ELSE KnownKind(m.sections[i].name),
         addr |-> m.sections[i].addr, size |-> m.sections[i].size, align |-> 0, vaddr |-> None, elf |-> 0,
         regions |-> <<>>, splits |-> <<>>]]
      obj == [kind |-> "executable", units |-> <<>>, comments |-> <<>>, sections |-> sections]
  IN  IF Found(m, obj, TRUE) THEN WithMapSplits(m, obj, TRUE) ELSE Rejected
=============================================================================
