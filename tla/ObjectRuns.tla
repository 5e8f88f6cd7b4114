----------------------------- MODULE ObjectRuns -----------------------------
(***************************************************************************)
(* A DOL or a REL goes through the passes of dtk dol split, from reading   *)
(* its symbols file to writing it again (src/src/cmd/dol.rs,               *)
(* load_analyze_dol, load_analyze_rel and split_write_obj), and then again: *)
(* the next run reads the file that the last one wrote.  If the file always *)
(* changed, every build would split the object again.                       *)
(***************************************************************************)
EXTENDS SymbolPasses

CONSTANTS
  Programs,   \* the objects, with their symbols files and their configuration
  Runs        \* how often an object is split

IsSequence(s) == s \in Seq(Range(s))
Addresses == Nat \X Int

\* What is read from the files: the sections and lines are vectors, an address is
\* a number, and the maps that the analysis makes are finite.
ASSUME ProgramsAssumption ==
  \A p \in Programs :
    /\ IsSequence(p.sections) /\ IsSequence(p.file) /\ IsSequence(p.blocks)
    /\ IsSequence(p.sleds) /\ IsSequence(p.matches) /\ IsSequence(p.added) /\ IsSequence(p.steps)
    /\ \A section \in Range(p.sections) :
         /\ DOMAIN section = {"name", "kind", "start", "end", "known"}
         /\ {section.start, section.end} \subseteq Int
    /\ DOMAIN p.splits = DOMAIN p.sections
    /\ \A splits \in Range(p.splits) :
         IsFiniteSet(splits) /\ \A s \in splits : {s.start, s.end} \subseteq Int
    /\ \A line \in Range(p.file) : line.addr \in Int
    /\ \A sled \in Range(p.sleds) :
         /\ sled.at \in Addresses /\ {sled.first, sled.last} \subseteq Int
         /\ sled.first <= sled.last /\ sled.step \in Nat
    /\ \A match \in Range(p.matches) :
         /\ match.at \in Addresses /\ IsSequence(match.relocs)
         /\ \A r \in Range(match.relocs) : r.target \in Addresses /\ r.addend \in Int
    /\ \A r \in Range(p.added) : r.addend \in Int
    /\ \A step \in Range(p.steps) :
         /\ step.op \in {"addi", "ori", "mem", "branch"}
         /\ {step.at, step.hi, step.lo, step.target} \subseteq Addresses /\ step.value \in Int
    /\ \A f \in {p.found, p.tables, p.words} :
         IsFiniteSet(DOMAIN f) /\ DOMAIN f \subseteq Addresses
    /\ \A at \in DOMAIN p.words : p.words[at] \in Int

VARIABLES
  program,  \* the object, which no pass changes
  stage,    \* the passes that are left; the run has failed when there are none
  obj,      \* the object as dtk has it in memory
  written   \* the symbols files that were written

vars == <<program, stage, obj, written>>

----------------------------------------------------------------------------
(***************************************************************************)
(* Tracker::apply (src/src/analysis/tracker.rs).                           *)
(***************************************************************************)
\* The name of a section, from what is done with what is in it.
NameByUse(section, i, tr) ==
  LET used(set) == \E to \in set : to[1] = i /\ InSectionOf(section, to[2])
      bss == section.kind = "bss"
  IN  IF section.kind = "code" THEN ".text"
      ELSE IF used(tr.sda)
           THEN IF used(tr.stores) THEN (IF bss THEN ".sbss" ELSE ".sdata")
                ELSE IF bss THEN ".sbss2" ELSE ".sdata2"
      ELSE IF used(tr.hal)
           THEN IF bss THEN ".bss" ELSE IF used(tr.stores) THEN ".data" ELSE ".rodata"
      ELSE section.name

NamedByUse(section, i, tr) ==
  LET name == NameByUse(section, i, tr)
  IN  IF section.known THEN section
      ELSE [section EXCEPT !.name = name,
                           !.kind = IF name \in {".sdata2", ".rodata"} THEN "rodata" ELSE @]

NameSections(o, tr) ==
  [o EXCEPT !.sections = [i \in DOMAIN @ |-> NamedByUse(@[i], i, tr)]]

\* special_symbol: the stack and the bases of the small data are symbols of the linker.
IsSpecial(o, target, kind) ==
  kind \in {"ha", "lo", "abs"} /\ o.t.exe /\ \E n \in DOMAIN o.special : o.special[n] = target[2]

AddSpecial(o, target) ==
  LET names == {n \in DOMAIN o.special : o.special[n] = target[2]}
      name == IF <<"_stack_addr">> \in names THEN <<"_stack_addr">> ELSE <<"_SDA_BASE_">>
      sym == Fixed(name, None, target[2], 0, "label", "global")
  IN  [AddSymbol(o, sym, TRUE) EXCEPT !.added = AddedIndex(o.t, sym)]

RelocClass(kind) ==
  IF kind \in {"ha", "hi", "lo"} THEN "half" ELSE IF kind = "sda" THEN "sda" ELSE "plain"

DataAlign(data) == CASE data = "float" -> 4 [] data = "double" -> 8 [] OTHER -> None

\* What is known of the data a relocation refers to.
Typed(sym, data) ==
  LET align == DataAlign(data)
  IN  [sym EXCEPT !.data = IF @ = "unknown" THEN data ELSE @,
                  !.align = IF @ = None /\ align # None
                            THEN (IF sym.addr % align = 0 THEN align ELSE None) ELSE @]

\* The symbol for a relocation: one that is there, or a new label.
AddTarget(o, p, target, kind, data) ==
  LET i == SymbolFor(o.t, target[1], target[2], RelocClass(kind))
      label == [External(LabelAt(p, target[1], target[2]))
                  EXCEPT !.addr = target[2], !.section = target[1], !.data = data]
  IN  IF i = NoSymbol
      THEN [o EXCEPT !.t = AddDirect(@, label), !.added = Len(o.t.symbols) + 1]
      ELSE [o EXCEPT !.added = i,
                     !.t = IF o.t.symbols[i].addr = target[2]
                           THEN Replace(@, i, Typed(@.symbols[i], data)) ELSE @]

\* (mutant) a relocation replaces the one that is there.
ApplyRelocOver(o, p, tr, at) ==
  LET reloc == tr.relocs[at]
      data == IF reloc.target \in DOMAIN tr.types THEN tr.types[reloc.target] ELSE "unknown"
      q == IF IsSpecial(o, reloc.target, reloc.kind) THEN AddSpecial(o, reloc.target)
           ELSE AddTarget(o, p, reloc.target, reloc.kind, data)
      addend == reloc.target[2] - q.t.symbols[q.added].addr
  IN  IF \/ reloc.target = Elsewhere
         \/ InRanges(o.sources, at) \/ InRanges(o.targets, reloc.target) THEN o
      ELSE [q EXCEPT !.relocs = Put(@, at, [kind |-> reloc.kind, symbol |-> q.added,
                                            addend |-> addend])]

\* A relocation that is there already stays, and has to mean the same.
ApplyReloc(o, p, tr, at) ==
  LET reloc == tr.relocs[at]
      data == IF reloc.target \in DOMAIN tr.types THEN tr.types[reloc.target] ELSE "unknown"
      q == IF IsSpecial(o, reloc.target, reloc.kind) THEN AddSpecial(o, reloc.target)
           ELSE AddTarget(o, p, reloc.target, reloc.kind, data)
      addend == reloc.target[2] - q.t.symbols[q.added].addr
      there == o.relocs[at]
  IN  IF \/ reloc.target = Elsewhere
         \/ InRanges(o.sources, at) \/ InRanges(o.targets, reloc.target) THEN o
      ELSE IF at \notin DOMAIN o.relocs
           THEN [q EXCEPT !.relocs = Put(@, at, [kind |-> reloc.kind, symbol |-> q.added,
                                                 addend |-> addend])]
      ELSE IF q.t.symbols[there.symbol].addr + there.addend # reloc.target[2] THEN Stop(q)
      ELSE q

ApplyRelocs(o, p, tr) ==
  FoldInOrder(LAMBDA q, at : ApplyReloc(q, p, tr, at), o, DOMAIN tr.relocs, Before)

NamedDestructors(t, p, found) ==
  FoldInOrder(LAMBDA u, i : Replace(u, i, [u.symbols[i] EXCEPT !.name = AutoName("dtor", p, u.symbols[i].addr)]),
              t, found, <)

\* The destructors that exception tables refer to.
NameDestructors(o, p) ==
  LET extab == SectionNamed(o, "extab")
      from == {a \in DOMAIN o.relocs : extab # 0 /\ a[1] = extab}
      auto == {i \in {o.relocs[a].symbol : a \in from} : IsAuto(o.t.symbols[i])}
  IN  [o EXCEPT !.t = NamedDestructors(@, p, auto)]

ApplyTracked(o, p) ==
  LET tr == Process(o, p)
  IN  NameDestructors(ApplyRelocs(NameSections(o, tr), p, tr), p)

----------------------------------------------------------------------------
(***************************************************************************)
(* detect_objects (src/src/analysis/objects.rs): what has no size ends     *)
(* where the next symbol starts, or where its split does.                  *)
(***************************************************************************)
DataSize(data) ==
  CASE data = "byte" -> 1
    [] data = "2byte" -> 2
    [] data \in {"4byte", "float"} -> 4
    [] data = "double" -> 8
    [] OTHER -> 0

\* (mutant) the split does not matter.
NextSymbol(o, section, addr) ==
  Min({o.sections[section].end}
      \cup {key[2] : key \in {k \in DOMAIN o.t.bySec : k[1] = section /\ k[2] > addr}})

NextBoundary(o, section, addr) ==
  LET splits == o.splits[section]
      at == {s \in splits : s.start <= addr}
      last == CHOOSE s \in at : \A r \in at : r.start <= s.start
  IN  Min({o.sections[section].end}
          \cup {key[2] : key \in {k \in DOMAIN o.t.bySec : k[1] = section /\ k[2] > addr}}
          \cup {s.end : s \in {s \in at : s = last /\ s.end > addr}}
          \cup {s.start : s \in splits \ at})

GuessedSize(o, section, sym) ==
  LET next == NextBoundary(o, section, sym.addr)
      gap == next - sym.addr
      size == DataSize(sym.data)
      padded == \/ \E i \in AtSectionAddress(o.t, section, next) :
                     o.t.symbols[i].data = "double"
                \/ \E s \in o.splits[section] : s.start = next
  IN  IF \/ gap <= 4 /\ size = 1
         \/ gap \in {2, 4} /\ size = 2
         \/ gap <= 8 /\ size \in {1, 2, 4} /\ padded
      THEN size ELSE gap

Detect(o, section, sym) ==
  LET size == IF sym.known THEN sym.size ELSE GuessedSize(o, section, sym)
      expected == DataSize(sym.data)
  IN  [sym EXCEPT !.size = size, !.known = TRUE, !.kind = "object",
                  !.data = IF expected > 1 /\ size % expected # 0 THEN "unknown" ELSE @]

\* Each symbol is replaced by what was found of it in the table as it was; its name stays.
Retyped(o, found, new(_)) ==
  [o EXCEPT !.t.symbols = [i \in DOMAIN @ |-> IF i \in found THEN Normalized(new(@[i])) ELSE @[i]]]

DetectObjects(o) ==
  LET data == {section \in DOMAIN o.sections : o.sections[section].kind # "code"}
      seen == {i \in UNION {InSection(o.t, section) : section \in data} :
                 o.t.symbols[i].name \notin LinkerLabels \cup Dotted}
  IN  Retyped(o, seen, LAMBDA sym : Detect(o, sym.section, sym))

(***************************************************************************)
(* detect_strings: a symbol is a string when all its bytes are text, but   *)
(* for the zeros behind it; one that dtk made up then ends with the first. *)
(***************************************************************************)
TextEnd(p, section, sym) ==
  Max({sym.addr} \cup {a + 1 : a \in {b \in sym.addr..sym.addr + sym.size - 1 :
                                        <<section, b>> \notin p.zeros}})

IsText(p, section, lo, hi) == \A a \in lo..hi - 1 : <<section, a>> \in p.text

IsWide(p, section, lo, hi) ==
  /\ (hi - lo) % 2 = 0
  /\ \A a \in lo..hi - 1 : <<section, a>> \in IF (a - lo) % 2 = 0 THEN p.zeros ELSE p.text

StringSize(p, section, sym) ==
  LET end == TextEnd(p, section, sym)
      length == end - sym.addr
  IN  IF length = 0 THEN None
      ELSE IF IsText(p, section, sym.addr, end)
           THEN (IF sym.size > length THEN length + 1 ELSE length)
      ELSE IF sym.size >= length + 2 /\ IsWide(p, section, sym.addr, end) THEN length + 2
      ELSE None

DetectStrings(o, p) ==
  LET found == {i \in DOMAIN o.t.symbols :
                  LET sym == o.t.symbols[i]
                      size == StringSize(p, sym.section, sym)
                  IN  /\ sym.section # None
                      /\ IsData(o.sections[sym.section].kind)
                      /\ sym.data = "unknown" /\ size # None
                      /\ sym.size = size \/ (IsAuto(sym) /\ sym.size > size)}
      string(sym) ==
        [sym EXCEPT !.size = StringSize(p, sym.section, sym), !.known = TRUE,
                    !.data = IF IsText(p, sym.section, sym.addr, TextEnd(p, sym.section, sym))
                             THEN "string" ELSE "wstring"]
  IN  Retyped(o, found, string)

----------------------------------------------------------------------------
Passes(p) ==
  IF p.exe THEN <<"load", "block", "signatures", "analyse", "lists", "add", "track",
                  "objects", "strings", "write">>
  ELSE <<"load", "block", "analyse", "signatures", "lists", "add", "track",
         "objects", "strings", "write">>

\* The object as it is read; the names of its sections are in the splits file.
Fresh(p, sections) ==
  [t |-> NoSymbols(p.exe), sections |-> sections, splits |-> p.splits, relocs |-> <<>>,
   sources |-> NoRanges, targets |-> NoRanges, special |-> <<>>, added |-> None, ok |-> TRUE]

Init ==
  /\ program \in Programs
  /\ stage = Passes(program) /\ obj = Fresh(program, program.sections) /\ written = <<>>

File == IF written = <<>> THEN program.file ELSE written[Len(written)]

\* A pass that stops ends the run.
Pass(name, result) ==
  /\ stage # <<>> /\ Head(stage) = name
  /\ obj' = result
  /\ stage' = IF result.ok THEN Tail(stage) ELSE <<>>
  /\ UNCHANGED <<program, written>>

Load == Pass("load", ApplyFile(obj, File))
Block == Pass("block", ApplyBlocks(obj, program))
Signatures == Pass("signatures", ApplySignatures(obj, program))
Analyse == Pass("analyse", ApplyAnalysis(obj, program))
UpdateCtorsDtors == Pass("lists", UpdateLists(obj))
AddRelocations == Pass("add", ApplyAll(obj, program))
Track == Pass("track", ApplyTracked(obj, program))
Objects == Pass("objects", DetectObjects(obj))
Strings == Pass("strings", DetectStrings(obj, program))

\* The file is written; the next run starts, with the sections as they are named now.
Write ==
  /\ stage = <<"write">> /\ Len(written) < Runs
  /\ written' = Append(written, Written(obj))
  /\ stage' = IF Len(written) + 1 < Runs THEN Passes(program) ELSE <<>>
  /\ obj' = IF Len(written) + 1 = Runs THEN obj
            ELSE Fresh(program, [i \in DOMAIN obj.sections |-> [obj.sections[i] EXCEPT !.known = TRUE]])
  /\ UNCHANGED program

Next ==
  \/ Load \/ Block \/ Signatures \/ Analyse \/ UpdateCtorsDtors \/ AddRelocations \/ Track
  \/ Objects \/ Strings \/ Write

ObjectsSpec == Init /\ [][Next]_vars

----------------------------------------------------------------------------
\* Where a line of the file is, by the names the sections have when it is read.
Place(line) == SectionOf([sections |-> program.sections], line)

Passed(name) == ~ \E n \in DOMAIN stage : stage[n] = name

\* The three indices of the symbols find every symbol once, whatever it was
\* renamed to or merged with (ObjSymbols::add, add_direct and replace).
IndicesAgree ==
  LET t == obj.t
      finds(index, key(_), has(_)) ==
        /\ \A k \in DOMAIN index : \A n \in DOMAIN index[k] :
             /\ key(t.symbols[index[k][n]]) = k
             /\ \A m \in 1..n - 1 : index[k][m] # index[k][n]
        /\ \A i \in DOMAIN t.symbols :
             has(t.symbols[i]) => i \in Range(At(index, key(t.symbols[i])))
  IN  /\ finds(t.byName, LAMBDA sym : sym.name, LAMBDA sym : sym.name # <<>>)
      /\ finds(t.byAddr, LAMBDA sym : sym.addr, LAMBDA sym : TRUE)
      /\ finds(t.bySec, LAMBDA sym : <<sym.section, sym.addr>>, LAMBDA sym : sym.section # None)

\* A relocation of the configuration is in the object until its symbols are
\* written, to the symbol that it names (add_relocations in config.yml): what
\* the tracker finds there later never takes its place.
AddedKept ==
  stage # <<>> /\ Passed("add") =>
    \A n \in DOMAIN program.added :
      LET r == program.added[n]
          there == obj.relocs[r.at]
      IN  (\A m \in DOMAIN program.added : m > n => program.added[m].at # r.at) =>
            /\ r.at \in DOMAIN obj.relocs
            /\ there.kind = r.kind /\ there.addend = r.addend
            /\ \/ obj.t.symbols[there.symbol].name = r.name
               \/ IsAuto(obj.t.symbols[there.symbol])

\* The tracker adds no relocation in a blocked range, to one, or in a symbol
\* that is marked noreloc (block_relocations in config.yml, and the symbols
\* file).  What a signature or the configuration asks for is not blocked.
BlockedAlone ==
  [][stage # <<>> /\ Head(stage) = "track" =>
       \A at \in DOMAIN obj'.relocs \ DOMAIN obj.relocs :
         LET reloc == obj'.relocs[at]
             sym == obj'.t.symbols[reloc.symbol]
             to == <<sym.section, sym.addr + reloc.addend>>
             in(a, b) == a[1] = b.start[1] /\ b.start[2] <= a[2] /\ a[2] < b.end
         IN  /\ \A n \in DOMAIN program.blocks :
                  ~in(IF program.blocks[n].target THEN to ELSE at, program.blocks[n])
             /\ \A n \in DOMAIN program.file :
                  LET line == program.file[n]
                  IN  "noreloc" \in line.attrs =>
                        ~(at[1] = Place(line) /\ line.addr <= at[2]
                          /\ at[2] < line.addr + line.size)]_vars

\* The configuration has the last word on relocations: those it adds are kept, and
\* where it blocks them the tracker adds none.
ConfigHonoured == []AddedKept /\ BlockedAlone

\* detect_objects gives a symbol its size in this step.
Guessed(i) ==
  /\ stage # <<>> /\ Head(stage) = "objects"
  /\ ~obj.t.symbols[i].known /\ obj'.t.symbols[i].known

\* A symbol reaches over the end of the split it is in, the last to start there, or
\* over the start of another.
CrossesStart(sym, s) == sym.addr < s.start /\ s.start < sym.addr + sym.size
CrossesEnd(sym, s, splits) ==
  /\ s.start <= sym.addr /\ sym.addr < s.end /\ s.end < sym.addr + sym.size
  /\ \A r \in splits \ {s} : r.start < s.start \/ s.end <= r.start
Crosses(sym, splits) == \E s \in splits : CrossesStart(sym, s) \/ CrossesEnd(sym, s, splits)

(***************************************************************************)
(* "Never let a guessed size cross a translation-unit (split) boundary"    *)
(* (objects.rs:53): a symbol that gets its size from detect_objects ends   *)
(* where its split does, or before the next split starts.                  *)
(***************************************************************************)
SizesFit ==
  \A i \in DOMAIN obj.t.symbols :
    Guessed(i) => LET sym == obj'.t.symbols[i] IN ~Crosses(sym, obj.splits[sym.section])

GuessesFit == [][SizesFit]_vars

(***************************************************************************)
(* What is true of it: neither the next symbol nor padding takes a guess   *)
(* over a boundary.  A size that crosses one is exactly that of the data   *)
(* the symbol is accessed as (objects.rs:69 to 80).                        *)
(***************************************************************************)
SizesBounded ==
  \A i \in DOMAIN obj.t.symbols :
    Guessed(i) => LET sym == obj'.t.symbols[i]
                  IN  Crosses(sym, obj.splits[sym.section]) => sym.size = DataSize(obj.t.symbols[i].data)

GuessesBounded == [][SizesBounded]_vars

\* A name from the symbols file stays where it is, whatever the passes find there
\* (ObjSymbols::add): only what the analysis knows by name takes its place.
FileNamesStay ==
  stage # <<>> /\ Head(stage) \notin {"load", "write"} =>
    LET known == IF Head(stage) = "analyse" THEN Range(Analysed(obj, program).symbols) ELSE {}
        has(o, line) ==
          \E i \in Range(ForName(o.t, line.name)) :
            o.t.symbols[i].section = Place(line) /\ o.t.symbols[i].addr = line.addr
        within(line, sym) ==
          /\ Place(line) = sym.section
          /\ sym.addr <= line.addr /\ line.addr <= sym.addr + sym.size
    IN  \A line \in Range(program.file) :
          has(obj, line) =>
            \/ has(obj', line)
            \/ IsAuto(line)
            \/ \E sym \in known : within(line, sym)

NamesKept == [][FileNamesStay]_vars

\* The symbols file settles: what the second run writes, the third writes again,
\* so that a build does not change it with every object it splits.  (The second
\* may add to the first: the alignment of a label that the first one made.)
FileSettles == Len(written) = Runs => written[Runs] = written[Runs - 1]
=============================================================================
