# Verification of decomp-toolkit

TLA+ specifications of dtk, the tool that takes a GameCube, Wii or Xbox
executable apart into the object files its linker once put together, so that
they can be replaced by decompiled code one at a time. Each module is read off
the code under `src/src`; TLC checks it on small instances, and TLAPS proves the
properties that matter most for every instance.

The first part is the inventory of the program, the second what is modelled and
how, the third what is proved, the last what is left out and planned.

## The system

`dtk dol split config.yml` is the centre of the program. It reads the
executable (a DOL, or a PE for Xbox) and its REL modules, finds the functions,
relocations and objects in them, links the modules with each other, divides
every section into the splits of its translation units, decides the order in
which the linker must see the units, and writes one object file for each of
them, with `symbols.txt` and `splits.txt` brought up to date for the next run.
Everything else is the analysis it needs, the formats it reads and writes, and
smaller commands for the same formats.

| Part | Where | State it keeps | Operations | What makes it hard |
| --- | --- | --- | --- | --- |
| Split driver | `cmd/dol.rs` | modules being processed, outputs on disk | extract, verify, load and analyse, link, split, write, dep | two parallel scopes, failure of one task of many, kills, a user who edits |
| Project files | `util/config.rs`, `util/file.rs` | `FileReadInfo` of each file | read, cache hash and mtime, `write_if_unchanged` | a file is looked at several times with no lock |
| Module linking | `cmd/dol.rs`, `obj/symbols.rs` | symbols and relocations of all modules | `update_symbols`, `create_relocations`, `resolve_external_relocations` | indices into tables that later steps of other modules extend |
| Split maintenance | `util/split.rs`, `obj/splits.rs` | splits and symbols of each section | `update_splits`: trim, gaps, common, truncate, validate, pad, fill | passes that rely on what the ones before left; boundaries |
| Link order | `util/split.rs` | graph of units, boundary edges, keys | `resolve_link_order` | cycles that are broken one edge at a time, then a second sort |
| Topological sort | `util/toposort.rs` | state of each vertex | `toposort` | an explicit stack kept in parent links |
| Function boundaries | `analysis/cfa.rs`, `slices.rs`, `executor.rs` | functions known so far, blocks and possible tail calls of each | `detect_functions` | decisions that depend on what has been found so far, retried until nothing changes |
| Register tracking | `analysis/tracker.rs`, `vm.rs` | register values, relocations found | `VM::step`, `Tracker::process`, `apply` | an abstract interpreter over heuristic value domains |
| Analysis passes | `analysis/pass.rs`, `objects.rs`, `signatures.rs` | symbols | sleds, objects, strings, signatures | sequential scans |
| x86 | `analysis/x86.rs`, `pe.rs`, `rtti.rs` | as above | a second front end | - |
| Object model | `obj/*.rs` | sections, symbols, relocations, splits | add, replace, lookup by address, name, kind | indices kept in step with the vector |
| Object splitting | `util/split.rs` | one object per unit | `split_obj` | neighbours share an address; locals that other units refer to are renamed |
| Object files | `util/elf.rs`, `asm.rs`, `coff.rs`, `lcf.rs` | - | write objects, disassembly, linker script | three tables side by side; positions that two iterators share |
| Text files | `util/config.rs` | - | `apply_symbols_file`, `write_symbols_file`, `apply_splits`, `write_splits` | what is written must be read as it was meant |
| REL modules | `util/rel.rs`, `cmd/rel.rs` | relocation tables | read, write, make, merge | layout, order of relocations |
| RSO modules | `util/rso.rs`, `cmd/rso.rs` | symbol and relocation tables | read, make | tables linked by positions |
| Executables | `util/dol.rs`, `alf.rs`, `cmd/elf2dol.rs` | - | read, write, convert | a program's sections must be found in a file that does not have them |
| Link maps | `util/map.rs` | a state machine over lines | `process_map`, `apply_map`, `create_obj` | sizes an old linker prints wrongly |
| Other formats | `dwarf`, `rarc.rs`, `u8_arc.rs`, `nlzss.rs`, `wad.rs`, `vfs/*` | - | readers and printers | pure functions of bytes |

How they interact. The driver owns one `ObjInfo` per module. In the first
parallel scope each task reads one module, its `splits.txt` and `symbols.txt`,
and runs function detection, the tracker and the passes on its own object; the
scope ends when all tasks have. Linking is sequential and is the only part that
reads one module's symbols while it changes another's: the module worked on is
taken out of the map meanwhile. In the second parallel scope each task updates
its module's splits (calling link order, which calls the topological sort again
for each cycle), writes the two text files back unless they changed meanwhile,
cuts the object into units and writes the object files. `config.json` and the
`dep` file, which the user's build waits for, come last.

What must hold, part by part:

- *Split driver and files*: no edit of the user is lost, whenever it is saved;
  a run that says it succeeded left every object, made of the texts it read; a
  damaged extraction is never analysed; a run ends.
- *Module linking*: a relocation means the same place before and after; the
  symbol it needs exists and is exported.
- *Split maintenance*: the splits cover each section without a gap or an
  overlap, so `split_obj` succeeds; none cuts a symbol, a COMDAT or a
  vftable's locator; generated labels stay inside their unit.
- *Link order*: it respects every constraint that was not given up, and gives
  up no constraint it need not.
- *Topological sort*: an order or a cycle, always one of them, no panic.
- *Function boundaries*: functions and the blocks of a function are apart, and
  what they branch to is accounted for; the search ends.
- *Object model and passes*: the indices of the symbol table find every symbol;
  what the user configured is kept; the file settles from run to run.
- *Splitting and object files*: linking the files gives the references of the
  original; every byte and symbol is in one unit; what is written is what is meant.
- *Text files and maps*: what the user says in `splits.txt` is in the file dtk
  writes; what a map says of units and sizes is followed.
- *Executables and modules*: the program's sections are found, every reference
  reaches what it is to, and a module built again is the original.

## The modules

```
Digraphs --- ToposortContract
    \             | (implemented by)
     `-------- Toposort ------- LinkOrder
GapSplits --- UpdateSplits
ConfigFiles --- DolSplit
ObjSymbols --- RelLink
    \
     `--- SymbolTable --- Tracker --- SymbolPasses --- ObjectRuns
FunctionSlices --- FunctionAnalysis
SplitObject, ElfFile, AsmFile --- Relink
SplitsFile --- UnitSplits, MapFile --- SplitRuns
RelFile, DolFile, RsoFile ... ModuleFiles
```

A line means that the module on the right extends the one on the left; dots,
that it has instances of them. The pure algorithms are operators in the modules on
the left, and the module on the right has the state and the actions. `MC*`
modules give the constants of a component small values; `*Proofs` modules hold
its theorems (those of `Toposort` are in `LinkOrderProofs`), `Extrema` has two facts
about `Min` and `Max` they need, and `Loops` induction over the turns of a loop. Where a
module defines an operator marked *(mutant)*, that is a variant of the definition
below it with one plausible mistake, kept to show that a property fails for it.

### Topological sort: `Digraphs`, `ToposortContract`, `Toposort`

`Toposort` is `toposort` with its explicit stack: `mark`, `eind` and `par` are
`State`, `cur` is the vertex the loop looks at. One action per branch: `Return`,
`Finish`, `Descend`, `Skip`, `CloseCycle`, and `Walk`/`ReturnCycle` for the
inner loop that reads the cycle. Vertices count from 1, and the virtual root,
`graph.len()` in the code, is 0. `ToposortContract` is what callers rely on: one
step that answers with an ordering or a cycle. `ImplementsContract` says the
search refines it, with `answer` as the mapping; `Ask` is the next call of the
caller's, with another graph.

The search is checked as part of the run `link_order`, with the graphs that its only
caller asks it about. Three vertices are enough for a cycle that is not entered
at its first vertex and for a finished vertex met twice; the proofs are about
every graph, self-loops and duplicate edges included.

### Link order: `LinkOrder`

`LInit` builds the graph from the splits of each section as the code does
(numbering units by their first split, skipping the first of `.ctors` and the
start of the common BSS, marking edges across the initialized and zero parts or
across sub-regions as boundary edges, then the user's order). `Sort` takes
`Toposort`'s steps, `BreakEdge` gives up one edge of the cycle found, a boundary
edge if there is one, and sorts again; `Propagate` and `SortByKey` are the final
stable sort by address keys. `LDone` is the return.

Run `link_order`: all ways to deal up to three splits in each of two sections to
up to three units, with sub-regions, a zero tail, a common part, and user orders
that agree, conflict, repeat or name unknown units; and, for more edges than those
sections make, all ways to put two of three units behind each other in up to four
sections (`Pairs`). `Resolves`, that the loop ends, includes that each search does.
`OrderRespectsEdges` is the promise to the linker; `NoNeedlessChange` says that nothing is given up
that could have been kept: no edge when all of them can be satisfied
(`Orderable`), none but boundary edges when the others can
(`RealEdgesOrderable`), and the order of the addresses is kept where it satisfies
every edge. "Can be" is compared with every permutation of the units.

### Split maintenance: `GapSplits`, `UpdateSplits`

The passes of `update_splits` in their order: `Trim`, the loop of
`create_gap_splits` (`GapOverlap`, `GapError`, `MakeGap`, `TakeSplit`,
`NextSection`, then `AddGap` and `FixSizes`), `UpdateCommon`, `Truncate`,
`validate_splits` (`ValidateSplit`, `SplitInvalid`, `SplitsOfNext`,
`Validated`), and `add_padding_symbols` (`PadSplit`, `Padded`, `FillSection`,
`AddFiller`, `Filled`). The extab and `.ctors` splits made before are part of
the object it starts with. A unit is left out: a gap's unit is named by its
address, so two gaps never share one. Symbols are records of what the passes ask;
names matter only for duplicates.

Run `update_splits`: sections of 20 bytes with up to three symbols of nine
shapes (COMDATs, vftables with a locator, unknown sizes, alignments, stale
labels, duplicates) under several sets of user splits and sub-regions, a
trimmed `.text` or `.ctors` with a common BSS, and the object of the
repository's own test. Twenty bytes hold two boundaries and a gap in between;
alignments of 4 and 8 make padding and gaps differ. `SectionsTiled` is the
condition under which `split_obj`'s walk succeeds (and has the types of the state
as its first part). `SplitsSound` is what `validate_splits` promises: no two splits
share a byte, and no boundary lies inside a label dtk made up or inside a symbol.
`GapsWellCut` is about where gaps are cut: COMDATs alone, locators with their
vftables, one symbol of a name, one sub-region, and sizes shrunk to where their gap
ends. `FillersFitSplits` is about the
padding symbols: they stay in their splits, and no data is left without a symbol.

What these say depends on a few things that are worth knowing.

- `SectionsTiled` is about sections that start at their alignment. A first split that
  asks for more than that may leave padding in front of it, and a COMDAT may run past
  the end of a trimmed section: the linker made what is there.
- It is stated where the validation has succeeded and at the end without fillers. With
  fillers the splits are the same, but a symbol of known size 0 at the start of a
  gap is given the size of that gap, and what a split is aligned to may change with it.
- `SymbolsInSplits` asks for symbols that do not nest: `validate_splits` looks only at
  the last sized symbol in front of a boundary, and behind a second symbol inside a
  longer one the boundary passes. Labels need no such hypothesis.
- `LocatorsKept`, the part of `GapsWellCut` about vftables, asks that neither another
  symbol nor a split of the user starts between a locator and its vftable, and that the gap
  of the locator does not run over the edge of a sub-region in front of the vftable. A
  COMDAT whose guessed size takes it over such an edge is not cut at a locator behind it:
  the locators are looked for up to the edge only (`LocatorsIn`).
- `ObjectAssumption` has what the files are checked for: a split ends in its section and is
  not reversed (unless it ends where the next begins), and a sub-region is not empty.
- `DataHasSymbol` asks that a split does not start with a symbol of unknown size.
  `pad_` symbols may run over the end of their split into alignment padding.

### Split driver and project files: `ConfigFiles`, `DolSplit`

`ConfigFiles` is `symbols.txt` and `splits.txt` between dtk and the user's
editor: `NoFile`, `Hash`, `Mtime`, `Lines` are the three looks of a read,
`Check` is `write_if_unchanged`, `Truncate` and `Fill` are `fs::write`; `Save`
is the user at any time. A file's text is the set of edits in it and whether
dtk's lines are there. The mtime is how often the file was written. Nobody
deletes files, and an editor's save is atomic. A torn file has no edits in it.

`DolSplit` is the whole run: `Extract`, `VerifyModules`, the first scope
(`LoadObject`, `ReadConfig`, `Analyse`, `Loaded`), `Link`, the second
(`UpdateModule`, `WriteConfig`, `SplitObj`, `WriteObject`, `SplitEnded`), and
`CreateConfig`, `FlushConfig`, `WriteDep`. Every step may fail (`ErrorIn`,
`TaskFails`), rayon may leave tasks that were not begun (`Skip`), the process may
be killed anywhere (`Kill`) and is then started again (`Start`) on what is left.

Run `dol_split`: an executable and two modules, one with a hash; the two files of the
executable, one of which is missing at first; a save of either at any point, and two
runs: every order of the tasks, of the looks at the files and of the save. Two runs and
one save are what an edit needs that is made during one run and must be in the objects
of the next; `NoEditLost` and `EarlierEditsBuilt` (below) are about any number of both.
`CHECK_DEADLOCK FALSE` because after the last run nothing happens.

`EditsKept` excludes the edits dtk cannot notice (`risked`): those saved between
the comparison of the mtimes and the write (`config.rs:254` to 274), to a file
that was missing when it was read, and to a file dtk was killed in the middle of
writing.

Fairness: weak fairness of the main thread and of each task. `rayon::scope`
runs every task it started to its end and waits for it; no other process can
disable a task for good. Nothing is assumed of the user, of failures or of kills.

### Module linking: `ObjSymbols`, `RelLink`

`ObjSymbols` is `for_relocation` and `best_match_for_reloc`. `RelLink` is the
three passes over the modules, one at a time: `Mark` and `CreateLabel` make sure
a target has an exported symbol, `Create` turns a relocation into one against a
symbol index of the target module, `ResolveKnown` and `ResolveNew` into one
against an external symbol of its own. The relocations of a module come in any
order. A section is its ELF index.

Run `rel_link`: three modules, two of them with the same ID, and the executable,
over a few hundred combinations of symbols, relocations and links, with labels
allowed or not. `MeaningKept` is the promise: the symbol of a relocation lies in the section
of the target and, with what is added to it, at its address; only a symbol of the DOL,
where addresses are absolute, may lie in no section. `TargetsReady` says that the second
pass finds a symbol for each relocation, and that those in other modules are
exported. It holds in a project that can be linked (`Linkable`), which takes four things:

- the links are mutual (`LinksMutual`): the first pass makes symbols for the modules a
  module links to, the second asks those it is linked from;
- labels may be made (`world.create`);
- a relocation to the DOL names the section that its address is in (`DolIndexed`): the
  first pass goes by the section's index, the second by the address;
- what has a size, every relocation of a REL may refer to (`SizedReferable`): it is no
  section symbol and no label of the linker's (`_ctors` and so on). Only halves of an
  address may refer to those, so another reference to the same address makes a label
  there, which outranks the symbol and has no size; a half that refers behind its start
  then finds nothing ("Couldn't find module ... symbol").

Run `rel_extern` expects a violation of `MeaningKept`. In its worlds a module has an external
symbol to begin with, as `add_relocations` in `config.yml` makes one (`SymbolsPlaced`
excludes them). A symbol without a section passes the filter of `for_relocation`
(`symbols.rs:650`) for one of every section, so the external symbol, at address 0,
can take the place of the function at the start of the section: what a comment (636)
calls "a previous sized symbol that encompasses the target" is not what is found.

### Function boundaries: `FunctionSlices`, `FunctionAnalysis`

The section of code is a sequence of words; of an instruction the model keeps
whether and where it branches and whether it sets up or takes down a frame.
`FunctionSlices` is the data structure with its pure parts: `AddBlock`,
`KnownFunction`, the prologue and epilogue sequences, `Finalize`, `TailCall` up
to where the target is walked, `GapAfter`. `FunctionAnalysis` has an action for
each way an instruction can go (`Plain`, `Illegal`, `Return`, `JumpAway`,
`Jump`, `JumpTable` with its loop `TableEntry`, `Branch`, `HitFunction`,
`SecondFrame`), for the stack of
the executor (`Pop`, `FallOff`), for the gaps and trailing code (`VisitGap`,
`VisitTrailing`, `Analyzed`), and for the driver: `ProcessKnown`,
`ProcessEntry`, `ProcessFunction`, `FunctionFound`, `NotFunction`, `NextUnfinalized`,
`CheckTailCall`, `Probed`, `BlockWalked`, `FinishFunction`, `DetectNew`,
`Finalized`. What registers hold is left out: a jump through one goes away, or
through a table that was recognised. One code section; skip ranges are apart
from each other, as the known sleds are. `ProgramAssumption` says what a program is:
its symbols, their ends, its skip ranges and its entry point are in the section.

Run `functions`: all sections of three words over the plain, illegal, returning
and branching instructions, with and without symbols; five words with forward
jumps, functions and padding; and words with stack frames and jump tables. Tail
calls need a function, one behind it and something in between, which five words
hold; frames take two words each. `NothingOverlaps` says that functions are apart
(`FunctionsDisjoint`), and the blocks of each (`BlocksDisjoint`); the second
supposes that every word is
an instruction or zero (`Decoded`): an undecodable word in front of a branch
target is walked over into the block that is there. A walk
that runs off the end of the section ends the program (`FallOff`): the executor marks an
address as visited before it fetches it (`executor.rs:110`), and the bit set has no bit for
the one behind the section, so `FixedBitSet::insert` panics.

Fairness: one thread, and every step of it is taken.

### Object model and passes: `SymbolTable`, `Tracker`, `SymbolPasses`, `ObjectRuns`

`SymbolTable` is `ObjSymbols`: the vector and the indices by address, section and
name, with `add`, `add_direct` and `replace`. `Tracker` is what `Tracker::process`
does with each step of the abstract machine;
it begins with `AddressRanges`, the blocked ranges. What the registers hold is given:
a step says which value it sees and which instructions loaded its halves.
`SymbolPasses` has `apply_symbols_file` and `write_symbols_file`, and the
passes as operators: blocked relocations, signatures, the sleds and tables of the
runtime, `AnalyzerState::apply`, the lists of `.ctors` and `.dtors`, added relocations.
`ObjectRuns` adds `Tracker::apply`, `detect_objects` and `detect_strings`, takes an object
through all of them in the order of `load_analyze_dol` or `load_analyze_rel`, writes the
file, and starts again on what it wrote. A loop over a vector is a fold over a sequence, one
over a map or a B-tree a fold over a set in the order of the keys (`FoldInOrder`).

Run `objects`: an executable of three sections and a module of five, with some
thousand combinations of symbols files, steps, words, signatures, configured
relocations and blocks, three runs each. `IndicesAgree` is what every lookup rests on.
`ConfigHonoured`: relocations the user adds survive and those he blocks are not made.
`NamesKept` and `GuessesBounded` are action properties: a pass gives a user's symbol no
other place, and neither the next symbol nor padding takes a guessed size over the boundary
of a split: one that crosses it is exactly that of the data the symbol is accessed as.
`FileSettles`: the third run
changes nothing (the second still may: it finds labels of the first and aligns them).
Three runs are what it takes to tell a file that settles from one that does not.

Run `guesses` expects a violation of `GuessesFit`, that no guessed size crosses a boundary at
all: "Never let a guessed size cross a translation-unit (split) boundary" says a comment
(`objects.rs:53`), but where at most 8 bytes are left in front of the next split, the
branch for padding (76) takes the size of the data of 1, 2 or 4 bytes all the same: a
4-byte access two bytes before the boundary gives size 4.

### Splitting and object files: `SplitObject`, `ElfFile`, `AsmFile`, `Relink`

`SplitObject` is `split_obj`: the walk over the splits of a section (one action for
each way a step may go or fail), then the relocations, then the locals that are made
global. `ElfFile` is `write_elf` and `process_elf`, `AsmFile` is `write_asm`. `Relink`
writes every unit in both forms and reads the ELF files back. `ResolvesTo`, what a linker
makes of a symbol, is by the rules of ELF: a name refers to the one global of that name.
`CommentAlign` is the conversion of an alignment that is not known for `.comment`
(`comment.rs:264`): 4 for a function, 4 or 1 for an object by its address, and so on, so what
is read back has that alignment. `AsmError` stands for each of the errors of `write_asm`: a
symbol of another kind than its section's (a label of a jump table in an object that lies in
code gets a branch relocation, and data may not have one), kinds of data at one address that
disagree, a string with no terminator or with a relocation or a label in it.

Run `relink`: an object of a code and a data section with two symbols each, cut in four
ways between two units, with every scope and all targets, and a few dozen objects with
an odd part: skipped and common splits, bss, tables, linker-made symbols, splits that
do not fit. `ReferencesResolve` is the point of the program; `EverythingOnce` and
`WrittenSame` are what it takes. Two units are enough: a reference is inside one or to
another, and a third adds only another name.

`ReferencesResolve` leaves out what cannot be kept (`Linkable`): references to labels the
linker makes, to locals when nothing is globalized, and to section symbols, which the code
writes with the number of the entry in front (below, under the disagreements). A unit whose
first reference to a symbol of another unit is one in extabindex fails as a whole
(`BadExtabindex`); later references to the same symbol are not looked at. `WrittenSame` asks
for a text wherever the object is `Assemblable`; otherwise an error will do, but what is
written must still be right.

### Splits files and maps: `SplitsFile`, `UnitSplits`, `MapFile`, `SplitRuns`

`SplitsFile` is `write_splits` and `apply_splits`; `UnitSplits` is
`create_split_for_extab` and its kin with `ObjInfo::add_split`; `MapFile` reads a map
line by line (a line is the pattern it matches), puts the sizes in common BSS right, and
applies the map. `SplitRuns` puts them in the order of a run, several times over.

Run `split_files`: tables of extabindex, `.ctors` and `.dtors` over functions in and out
of order, with user splits, files with every attribute, modules with virtual addresses,
and maps of old and new linkers with all mixes of used and unused symbols in common BSS;
two runs each. `UserFileKept`, `EntriesWithFunctions` and `MapFollowed` are the promises.
Where the code cannot keep them (a renamed split of a module, a unit in two stretches of
extabindex, comments of a unit without splits) the property says so in its comment.

Run `split_renamed` expects a violation of `UserSplitsKept`: the README says that
*unsplit* entries are split automatically, but a generated split that grows over others
takes their units with it, and a `.text` split of the user that was in such a unit is
written under the other unit's name (`obj/mod.rs:320`).

### Executables and modules: `DolFile`, `RelFile`, `RsoFile`, `ModuleFiles`

`DolFile` is `elf2dol`, `write_dol` and `process_dol` with its search for the tables of
the startup code, for extab and extabindex and for `.ctors` and `.dtors`. `RelFile` is
`write_rel`, `process_rel` and `update_rel_section_alignment`; `RsoFile` is `make_rso` and
`process_rso`. `ModuleFiles` is a project's life with them: `MakeDol`, `ReadDol`,
`ConvertDol` for the executable, `LinkOriginals`, `ExtractModule` (in any order), `Make`
with other alignments, `WriteModule` for the modules, `Merge` and `LinkImage` for `rel
merge`, and `MakeRso` of the same ELF files on a host of either byte order. A reference by
name is to the first symbol of that name that any module exports (`Exported`): `Make` fails
where there is none, and where it is absolute, because its section index is unwrapped (`cmd/rel.rs:241`); two relocations that come
to one word end `Merge` (`cmd/rel.rs:593`).

Run `module_files`: seven programs (with and without tables, an extab of either size, a
stray word that looks like a table, an ALF and a BootStage file), each with one group of two
modules, and 288 groups, each with one program: all three versions, IDs in and out of order, three alignments, with and without
`.ctors`, `.bss` and references to itself; and groups that cannot be made or merged (`Misled`).
`SectionsFound`: what `process_dol` finds is
the program, or it fails, and that only for a stray word. `ReferencesMet`: each reference
has a relocation, in a REL, an RSO and a merged image, that means what it is to.
`Rebuilt`: a module made again is the original, though it was built with other
alignments. The fields are smaller than in the files: `MaxOffset` is 15 for 0xffff, which
sections of 40 bytes exceed twice; `High` is 4096 for 0x80000000; two text and six data
sections fill a DOL that has 7 and 11. Words have four bytes, sections are whole words.

### What each run checks

| Run | Checks | Expectation |
| --- | --- | --- |
| `link_order` | the search refines its contract, no panic; the order respects the edges; nothing given up needlessly; address order; ends | holds |
| `update_splits` | tiling, disjointness, where gaps are cut, symbols and labels in splits, fill; ends | holds |
| `dol_split` | complete and current outputs over parallel modules, failures and kills; no edit is lost, each is built by the next run; ends | holds |
| `rel_link` | relocations keep their meaning; symbols are found and exported | holds |
| `rel_extern` | the same with an external symbol to begin with | violated |
| `functions` | functions and blocks are apart, branches accounted for; ends | holds |
| `objects` | indices, configuration, names and sizes over all passes; the file settles | holds |
| `guesses` | no guessed size crosses a boundary | violated |
| `relink` | references after linking, everything once, both forms say the same | holds |
| `split_files` | the user's file is kept, entries are with their functions, maps are followed | holds |
| `split_renamed` | the user's splits stay as they are | violated |
| `module_files` | sections are found, references are met, modules are rebuilt | holds |

All state is enumerated: no run uses symmetry or a constraint on states. The only
bounds inside specifications are `MaxSaves` and `MaxRuns`, guards of `Save` and
`Start`, and `Runs`, how often an object is split in `SplitRuns` and `ObjectRuns`.
Everything else is bounded by the initial states the `MC` modules name. Runs whose
programs end have `CHECK_DEADLOCK FALSE`.

### Disagreements met that no run shows

Files of the project:

- `write_if_unchanged` compares mtimes (`config.rs:254`) long before it writes
  (274); a save in between is overwritten. Its name promises no more than it does,
  so it is a hazard and the exception `risked` of `EditsKept`.
- A module without a hash in `config.yml` accepts whatever a killed extraction left
  (`dol.rs:1355`).
- A unit that has only comment ranges in `splits.txt` gets no place in the link order, so
  its ranges are lost though `config.rs:814` says they round-trip; a comment range without
  its end is dropped silently by `apply_splits` and fails in `read_comment_regions`.
- `rename` in `splits.txt` is written as the section's name and read back only by the
  range; attributes of a known section name ignore `type:`.

Splits and link order:

- A pair of units that is adjacent for a real reason in one section and across a boundary
  in another is a boundary edge and goes first, though a comment (`split.rs:1594`) says
  that "keeps the real .bss ordering edges intact".
- Stale labels are only truncated to where a fill ends, and that is never below the
  label's own end (`split.rs:1159`).
- A generated split over the whole extab group is dropped where its unit has a split of
  the user already, and may overlap another unit's.
- In `split_obj` a relocation in extabindex that is out of the ordinary bails only when it is
  the unit's first reference to that symbol (`split.rs:1940`); a label at the very end of a
  section's last split goes to no unit.

Functions:

- `finalize_functions` assumes a possible block with `finalize` set without going
  back to lower addresses (`cfa.rs:369`), so a block found there stays undecided:
  `b 1; zero; b 4; b 2` fails with "Failed to finalize functions".
- A comment (`slices.rs:386`) says a branch with padding behind it is a tail call; the code
  looks at the branch itself, which is never zero. The function reaches over the padding.

Symbols and relocations:

- `AddressRanges::contains` looks only at the last range that starts before an address, so a
  range inside a longer one hides the rest of it (`addresses.rs:46`).
- With links that are not mutual, the first pass misses references from other modules
  (`dol.rs:1478`).
- A word whose relocation the user gives, and whose raw value is another valid address,
  ends with "Conflicting relocations". A label at the start of a function takes the
  function's place. Two symbols of one kind at an address are merged when read again.
- Symbols that are absolute are read but never written.

Link maps:

- With `map:` left in `config.yml`, the second run pushes the same splits again and its
  validation fails (`MapFollowed` lets a second run fail).
- The first section layout after a link map is read as if there was none (`map.rs:351`).
- Of the common BSS an old linker inflates, unused symbols behind the last address are
  lost, and a unit that is wholly unused leaves the next one's first size as it was.

Object files:

- The number `write_elf` notes for a section symbol (`elf.rs:583`) is one less than that of
  the symbol it wrote, so a relocation to it is read as one to the section before; a
  16-bit relocation is read back at its half word, and assembly of that fails.

Executables and modules:

- A version 3 module whose relocations are all to other modules has no `fix_size`, and
  `write_rel` fails its own check of the header's length.
- The alignments in `splits.txt` are counted over the sections of the ELF file, empty ones
  included, but listed only for those that are not empty (`Rebuilt` excludes it).
- `.bss` of a version 1 module has no alignment to be found, and reading one fails.
- Startup tables outside every section, a table that ends exactly with its section, or a
  stray word equal to the entry point make `process_dol` fail; a gap in front of extab that
  is too short makes it name no extab at all; a 4-byte `.bss` looks like `.ctors`.
- `rso make` writes the hash of an export in the host's byte order
  (`rso.rs:447`) and `process_rso` reads it big-endian: on most hosts it rejects every module
  with exports that dtk made. `RsoReadBack` has this exception.
- A reference to an absolute symbol that another module exports ends `rel make` with a panic
  (`cmd/rel.rs:241`) instead of an error.
- What is added to a symbol of another module is dropped (`cmd/rso.rs:374`): the format has
  no place for it. A relocation to an absolute symbol ends `rso make`.

## Proofs

Each theorem holds for every value of the constants that satisfies the `ASSUME`s of
its module; TLC evaluates those on every run.

- `LinkOrderProofs`, its first part: `TypeCorrect`, `NeverPanics`, `Refinement`, for one search
  of any graph. The active vertices
  are the stack of the search, kept as parent links only; the invariant `IInv` says
  that some function numbers them by depth (`Stack`), that explored edges lead to
  finished vertices or to the child being searched (`Explored`), that `ret` is a
  post-order (`PostOrder`), and that the vertices the walk has read are a path
  (`CyclePath`). Reversing a post-order of an acyclic search is an ordering.
- `LinkOrderProofs`, its second part: `LoopRefinement`, that every search of the loop refines the
  contract, and `LTypeCorrect`, `LinkOrderRespectsEdges` and
  `NothingGivenUpNeedlessly`. `LIInv` adds to
  `IInv` that the key of each vertex the propagation is done with is at most those of
  its successors (`Propagating`); a stable sort by such a key cannot reverse an edge
  (`StableSortKeepsOrder`). Positions cannot ascend all the way around a cycle
  (`NoAscentAround`): a cycle that is reported has an edge that no ordering satisfies, so
  it has a boundary edge when the others can be ordered, and `BreakEdge` takes that.
  `KInv` says so of the edges that are left (`EdgesLeft`, `BoundaryLeft`), and that the
  propagation lowers no key when every edge ascends (`KeysAreAddresses`).
- `UpdateSplitsProofs`: `ValidatedSplitsDisjoint`, `UpdatedSectionsTiled`,
  `UpdatedSplitsSound`, `MadeGapsWellCut`. `validate_splits` compares neighbours only;
  the invariant of its loop is that the splits looked at are pairwise disjoint and end by `cur` (`UInv`).
  For the tiling (`TileInv`), the loop over the gaps has tiled the section up to `cur`
  with the splits behind it and the gaps made so far (`Walking`); gaps are added at the
  end, so until then they are counted with the splits of their section (`Pending`).
  The induction has to suppose what only the validation finds out, that no split is
  empty or reversed (`Unbroken`). For the symbols (`SoundInv`), no boundary is inside the last
  sized symbol in front of it (`BoundariesValid`), which is enough where symbols
  do not nest; a label that was truncated fits whatever comes before it (`LabelsFit`).
  For the gaps (`CutInv`), each is a COMDAT led by its first symbol or has nothing in it
  that asks for a cut (`WellCut`), since it is cut at the first symbol that does (`CutAt`).
  Gaps and the splits taken lie in the order they were met (`GapBehind`, `GapHere`), so a
  gap that ends between a locator and its vftable would be one that `NewLocator` excludes.
- `DolSplitProofs`: `TypeCorrect`, `NoEditLost`, `OutputsAreComplete`, `EarlierEditsBuilt`,
  `NothingIsStale`. No edit is lost because the text dtk has is never older than the mtime
  it remembers: when the mtime is still that of the file the text is, too (`SameText`). A
  run that succeeds is complete because every task's last step was its last unit. The last
  two rest on `RunInv`, what the run knows of a file once it is read (`EarlierRead`) and as
  long as nobody saves (`AsKnown`), and on `Progress`: a run that succeeds has read every
  file, and is done with each if it is to update them, because the analysis of a module
  waits for its files and the linking for every module.
- `RelLinkProofs`: `RTypeCorrect`, `LinkingKeepsMeaning`, `TargetsAreReady`. Symbols are
  only appended or get a flag, so an index keeps its meaning (`Kept`); the external symbols
  of the module worked on stand for the symbols they were made for (`ExternsStand`).
  `LinkingKeepsMeaning` has the hypothesis `SymbolsPlaced`, without which it is false (`rel_extern`).
  `ReadyInv` says of each relocation the first pass does not pass over (`Wants`) that it
  is still to be looked at (`Awaits`) or that the symbol it finds is exported (`Met`).
  That stays so because a label hides no symbol (`LabelHidesNothing`): at its own address
  the label is found, which is exported, or what was found before; and a later address is
  reached only from a symbol with a size, which would have been found where the label is,
  so that none had been made (`SizedReferable`). The second pass asks only
  for what was wanted (`TargetWanted`, by the other parts of `Linkable`).
- `FunctionAnalysisProofs`: `TypeCorrect`, `Disjoint`, `BlocksTidy`, `NoOverlap`. `detect_new_functions` compares
  neighbours only, and for the last time before `finalize_functions(true)`. Neighbours
  suffice (`NeighboursSuffice`), and `FInv` says that functions stay apart until that
  pass finalizes one, which leads back to the comparison (`ApartOK`): a walk that makes
  a function is under way only while functions are processed (`PhaseOK`). The types of
  the blocks are part of it because a function's end is the end of its last block.
  The blocks of a function, and those of the walk that is under way, are apart (`Tidy`):
  a walk goes on only where no block is, and none starts between the start of the block it
  is in and the instruction it looks at (`TidyFrame`).
- `Loops`: `SequenceInduction`, `OrderInduction`, `LastExists`. The library's induction
  theorems take an operator as a parameter, which cannot be instantiated here. `Loops` has
  the body of a loop, the order of its turns and its invariant as CONSTANT operators, so an
  `INSTANCE ... WITH` per loop gives the theorem for that loop. What it proves once is that
  the folds of the community modules go through a sequence from its start, and through a
  finite set in its order (`LastExists`: there is a last element to pick), by taking a
  smallest part of the set for which the invariant fails. The invariant has the turns that
  are over as an argument, so it can say "all of these are in the object by now".
- `ObjectRunsProofs`: `RunsAreTyped`, `IndicesAlwaysAgree`, `AddedAlwaysKept`,
  `GuessesAlwaysBounded`, `NamesAlwaysKept`, for every program that `ProgramsAssumption`
  describes: tables that are vectors, addresses that are numbers, maps that are finite, and
  steps of the four kinds. (`TableSizeAssumption`: the vector table has a size.)
  Each pass is followed through its loops, which have an instance of `Loops` each. The
  invariant `RunsInv` has three parts. `TypeInv` has more than types: `TableInv` says that
  each index lists, under each key, exactly the symbols with that key and none twice
  (`Index`), without which `replace` would not find the symbol to take out, and that
  relocations refer to symbols that are there, without which what is renamed for an
  exception table need not be a symbol. Each pass `Follows` the object it gets: symbols are
  only appended, and what is there keeps its address and section (`Grown`). `StagesInv` says
  that whatever pass comes before the one that adds the relocations, that one is still to
  come: so nothing that renames what it does not own comes after it. `AddedInv` is
  `AddedKept` over the table of the configuration; it is kept because the tracker only adds
  relocations where there are none, and because a symbol that has been given a name loses it
  only to what the analysis knows (`RenamesBut`), which is before the relocations are added.
  That names stay comes from the same lemma: an existing symbol that is not dtk's own loses
  its name only to a replacing `add`. The
  guessed sizes rest on what `NextBoundary` is a minimum of (`BoundaryIs`): of those that cross
  a boundary only the size of the data is left.

Only model-checked are the liveness properties (the prover has neither fairness nor
`ENABLED`) and these invariants:

- `FillersFitSplits` of `UpdateSplits`: it hangs on aliases, which get the size of the
  symbol they are next to.
- `ReferencesKept` of `FunctionAnalysis`: the end of a function can change when an entry
  in it is processed once more, so what was in it when a branch was met is not kept as such.
- `FileSettles` and the second half of `ConfigHonoured` (`BlockedAlone`) of `ObjectRuns`.
  The first compares two whole runs, each of ten passes, on the file between them; no
  invariant of one run says it. The second is false for ranges that nest (the range that
  starts last hides the others, see above), and the configurations TLC is given have none;
  stating it for all would need that as an assumption the code does not check. And the
  ranges of a later run come from the file that the run before wrote, so it is again about two runs.
- the properties of `Relink`, `SplitRuns` and `ModuleFiles`: a writer composed with a reader
  of the same file. Their passes are folds that `Loops` would take, but
  each property is about the whole composition, with tables linked by position, and no proof
  was attempted.

No module declares a `RECURSIVE` operator.

## Not modelled

`PROJECT.json` lists every part with its reason. In short: what registers hold and where
startup code leads (given as inputs; they are heuristics with no stated result), how bytes
are compared with signatures, the x86 front end and COFF (a second path into and out of the
same object model), DWARF, archives and compression (pure functions of bytes, most of them
in other crates), the virtual file system, and the command line. Of the modelled parts:

- extracted assets, the linker script and the disassembly are further files of `DolSplit`,
  like the object files; a module's analysis is one step of it;
- code in several sections, jump tables' own addresses and functions known from exception
  tables are left out of `FunctionAnalysis`;
- a symbol or relocation that `rel merge` makes once the sections are placed, and the
  analysis after that, are those of the object model;
- the characters of a line in a text file, and the bytes of an instruction: a line is what
  its attributes say, an instruction what it does to control or to a reference; whether the characters of a
  string can be decoded (in `AsmFile` a string is wrong only by its terminator).

## Plan

Done, in this order: topological sort and link order; split maintenance; the driver with
the project's files; module linking; function boundaries; the object model with its passes
and the symbols file; `split_obj` with the object files; the splits file with the generated
splits and link maps; executables, REL and RSO modules.

What would add most next:

1. *COFF objects and x86* (`util/coff.rs`, `analysis/x86.rs`): the second front end and its
   object files, as `Relink` has them for PowerPC.
2. *`update_splits` as a whole*: `UnitSplits`, `UpdateSplits` and `LinkOrder` composed over one
   object, so that a split made for an entry meets the gaps and the order.
3. *Registers* (`VM::step`): the value domains of the tracker as an abstract interpretation
   that contains what the machine does.
4. *`dol apply`* and the linker script.

A theorem worth adding: an index into the symbol table keeps its meaning (`NamesKept`).
