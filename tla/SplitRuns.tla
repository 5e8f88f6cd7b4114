----------------------------- MODULE SplitRuns ------------------------------
(***************************************************************************)
(* The splits file of a module over several runs of dtk: a linker's map,   *)
(* if the project has one, and the file are applied to the object as it is *)
(* loaded (src/src/cmd/dol.rs), the entries of extabindex, .ctors and      *)
(* .dtors are given splits (update_splits in src/src/util/split.rs), the   *)
(* units are put in order and the file is written again.  dtk map config   *)
(* makes the first file of the map alone (src/src/cmd/map.rs).             *)
(*                                                                         *)
(* The passes in between, that fill the gaps with splits of units of their *)
(* own, trim and check them, are those of UpdateSplits, and the order of   *)
(* the units is LinkOrder's: here it is that of their first splits.        *)
(***************************************************************************)
EXTENDS UnitSplits, MapFile

\* A program is an object as it is loaded, the user's file, the tables and the map:
\* its lines, the command and the configuration that it is read with, and whether it
\* stays in the configuration after the first run.
CONSTANTS Programs, Runs

VARIABLES program, file, obj,
          symbols,        \* those that a map adds
          calls,          \* of add_split, that are to be made
          stage, run

vars == <<program, file, obj, symbols, calls, stage, run>>

\* The object between two runs.
NoObject == Rejected

Init ==
  /\ program \in Programs
  /\ file = program.file
  /\ obj = NoObject /\ symbols = {} /\ calls = <<>>
  /\ stage = "map" /\ run = 0

\* What the names of a PE map's functions add.
PeSymbols(m) ==
  LET names == PeRenames(m, program.map.functions, program.map.imports)
  IN  {[section |-> 1, name |-> names[a], unit |-> NoUnit, addr |-> a, size |-> 0, kind |-> "func",
        vis |-> "global", stripped |-> FALSE, align |-> None] : a \in DOMAIN names}

\* No map, or it is no longer in the configuration.
NoMapRead ==
  /\ program.map.command = "none" \/ (run > 0 /\ ~program.map.kept)
  /\ obj' = program.object /\ symbols' = {} /\ stage' = "load"

ApplyToObject(m) ==
  /\ obj' = IF m.error THEN Rejected ELSE ApplyMap(m, program.object)
  /\ symbols' = CASE obj' = Rejected -> {}
                  [] obj' # Rejected /\ m.pe # <<>> -> PeSymbols(m)
                  [] OTHER -> MapSymbols(m, obj', FALSE)

\* apply_map_file
MapApplied ==
  /\ program.map.command = "split" /\ (run = 0 \/ program.map.kept)
  /\ ApplyToObject(ProcessMap(program.map.lines, program.map.common, program.map.version))
  /\ stage' = IF obj' = Rejected THEN "failed" ELSE "load"

MakeObject(m) ==
  /\ obj' = IF m.error THEN Rejected ELSE CreateObj(m)
  /\ symbols' = IF obj' = Rejected THEN {} ELSE MapSymbols(m, obj', TRUE)

\* map config: an object without data.
MapAlone ==
  /\ program.map.command = "config" /\ run = 0
  /\ MakeObject(ProcessMap(program.map.lines, None, None))
  /\ stage' = IF obj' = Rejected THEN "failed" ELSE "order"

ReadMap ==
  /\ stage = "map" /\ run < Runs
  /\ NoMapRead \/ MapApplied \/ MapAlone
  /\ run' = run + 1
  /\ UNCHANGED <<program, file, calls>>

Load ==
  /\ stage = "load"
  /\ obj' = ApplySplits(file, obj)
  /\ stage' = IF obj' = Rejected THEN "failed" ELSE "signatures"
  /\ UNCHANGED <<program, file, symbols, calls, run>>

\* The splits that a pass asks for, or that it fails.
Asks(new, next) ==
  /\ calls' = IF new = Failed THEN <<>> ELSE InOrder(obj, new)
  /\ stage' = IF new = Failed THEN "failed" ELSE next
  /\ UNCHANGED <<program, file, obj, symbols, run>>

Ready(s) == stage = s /\ calls = <<>>

Has(name) == Named(obj, name) # {}

Signatures ==
  /\ Ready("signatures")
  /\ calls' = IF Has(".ctors") THEN SignatureSplits(obj, program.tables) ELSE <<>>
  /\ stage' = "extab"
  /\ UNCHANGED <<program, file, obj, symbols, run>>

Extab ==
  /\ Ready("extab")
  /\ Asks(IF Has("extabindex") THEN SplitExtab(obj, program.tables) ELSE <<>>, "ctors")

Ctors ==
  /\ Ready("ctors")
  /\ Asks(IF Has(".ctors") THEN SplitPointers(obj, program.tables, ".ctors", program.tables.ctors, 1)
          ELSE <<>>, "dtors")

\* An executable's .dtors begins with __destroy_global_chain_reference.
Dtors ==
  /\ Ready("dtors")
  /\ LET first == IF obj.kind = "executable" THEN 2 ELSE 1
     IN  Asks(IF Has(".dtors")
              THEN SplitPointers(obj, program.tables, ".dtors", program.tables.dtors, first)
              ELSE <<>>, "order")

Add ==
  /\ calls # <<>>
  /\ LET after == AddSplit(obj, calls)
     IN  /\ obj' = IF after = Stuck THEN obj ELSE after.obj
         /\ calls' = after.calls
         /\ stage' = IF after = Stuck THEN "failed" ELSE stage
  /\ UNCHANGED <<program, file, symbols, run>>

\* validate_splits: the splits of a section are apart, and none is empty by its end.
Apart(splits) ==
  \A i \in DOMAIN splits : /\ splits[i].end > 0
                           /\ \A j \in 1..i - 1 : splits[j].end <= splits[i].addr

\* (mutant) the user's settings of a unit are forgotten.
UnitOfName(name) ==
  [name |-> name, auto |-> \A p \in {q \in AllSplits(obj) : q.unit = name} : p.auto,
   comment |-> None, order |-> None]

\* The unit of a name, as it was; else a new one.
UnitNamed(name) ==
  LET old == {i \in DOMAIN obj.units : obj.units[i].name = name}
  IN  IF old # {} THEN obj.units[Min(old)]
      ELSE [name |-> name, auto |-> \A p \in {q \in AllSplits(obj) : q.unit = name} : p.auto,
            comment |-> None, order |-> None]

\* map config writes the files even if update_splits fails.
OnlyLogged == program.map.command = "config" /\ run = 1

Order ==
  /\ Ready("order")
  /\ LET all == FlattenSeq([i \in DOMAIN obj.sections |-> obj.sections[i].splits])
         names == [n \in DOMAIN all |-> all[n].unit]
         firsts == SelectSeq([n \in DOMAIN all |-> n], LAMBDA n : \A m \in 1..n - 1 : names[m] # names[n])
         valid == \A i \in DOMAIN obj.sections : Apart(obj.sections[i].splits)
     IN  /\ obj' = IF valid THEN [obj EXCEPT !.units = [n \in DOMAIN firsts |-> UnitNamed(names[firsts[n]])]]
                   ELSE obj
         /\ stage' = IF valid \/ OnlyLogged THEN "write" ELSE "failed"
  /\ UNCHANGED <<program, file, symbols, calls, run>>

Write ==
  /\ Ready("write")
  /\ file' = WriteSplits(obj, FALSE)
  /\ obj' = NoObject
  /\ stage' = "map"
  /\ UNCHANGED <<program, symbols, calls, run>>

Next == ReadMap \/ Load \/ Signatures \/ Extab \/ Ctors \/ Dtors \/ Add \/ Order \/ Write

Spec == Init /\ [][Next]_vars /\ WF_vars(Next)

-----------------------------------------------------------------------------
Kept(p) == [u |-> p.unit, at |-> p.addr, end |-> p.end, common |-> p.common, skip |-> p.skip,
            align |-> p.align, rename |-> p.rename]

UserSplits(o) ==
  UNION {{<<i, Kept(p)>> : p \in {q \in ToSet(o.sections[i].splits) : ~q.auto}} : i \in DOMAIN o.sections}

Declared(o) ==
  [i \in DOMAIN o.sections |->
    [name |-> o.sections[i].name, kind |-> o.sections[i].kind, align |-> o.sections[i].align,
     vaddr |-> o.sections[i].vaddr,
     regions |-> {<<r.name, r.start, r.end>> : r \in ToSet(o.sections[i].regions)}]]

WithSplits(o) == {[u EXCEPT !.auto = FALSE] : u \in {v \in ToSet(o.units) :
                     \E p \in AllSplits(o) : p.unit = v.name /\ ~p.auto}}

Renames(o) == \E p \in AllSplits(o) : p.rename # NoName

\* The user's units of an extabindex entry's three places, and whether those of each
\* unit are next to each other: a linker would not put another unit's between them.
UnitsOf(o, i) ==
  LET e == program.tables.entries[i]
  IN  Units({At(SplitsOf(o, "extabindex"), Base(o, "extabindex") + i - 1),
             At(SplitsOf(o, "extab"), e.extab), At(SplitsOf(o, ".text"), e.fun)})

InOneStretch(o) ==
  Named(o, "extabindex") # {} =>
    \A i, k \in DOMAIN program.tables.entries : \A j \in i..k :
      UnitsOf(o, i) \cap UnitsOf(o, k) # {} => UnitsOf(o, j) \subseteq UnitsOf(o, i)

\* The units with ranges of comments.
CommentedUnits == {c[3] : c \in CommentRegions(program.file)} \ {NoUnit}

Written(property(_, _)) ==
  stage = "map" /\ run > 0 /\ program.map.command = "none" =>
    property(ApplySplits(program.file, program.object), ApplySplits(file, program.object))

(***************************************************************************)
(* What the user says in the splits file is in the file that dtk writes:   *)
(* the sections with their sub-sections, the splits with their attributes  *)
(* and the units that have splits, and so are the ranges of comments that  *)
(* the loader takes from it.  A renamed split of a module is written under *)
(* a name that is looked up among the sections, a unit may not be on both  *)
(* sides of another in extabindex, and one that has nothing but comments   *)
(* gets no place in the order.                                             *)
(***************************************************************************)
UserFileKept ==
  Written(LAMBDA said, says :
    ~(said.kind = "module" /\ Renames(said)) /\ InOneStretch(said) =>
      /\ says # Rejected
      /\ UserSplits(said) \subseteq UserSplits(says)
      /\ Declared(says) = Declared(said)
      /\ WithSplits(said) \subseteq WithSplits(says)
      /\ CommentedUnits \subseteq {u.name : u \in WithSplits(said)} =>
           CommentRegions(file) = CommentRegions(program.file))

(***************************************************************************)
(* "any unsplit .ctors, .dtors, extab and extabindex entries are           *)
(* [...] automatically split along with their associated functions"        *)
(* (README.md): what the user has split in an executable stays as it is.   *)
(***************************************************************************)
UserSplitsKept ==
  Written(LAMBDA said, says :
    said.kind = "executable" => UserSplits(said) \subseteq UserSplits(says))

\* The unit whose splits an address is in; none or several are NoUnit.
UnitAt(o, name, addr) ==
  LET there == {p.unit : p \in {q \in ToSet(SplitsOf(o, name)) : q.addr <= addr /\ addr < q.end}}
  IN  IF Cardinality(there) = 1 THEN CHOOSE u \in there : TRUE ELSE NoUnit

\* The functions of extabindex are in order, of the sizes that the symbols have.
FunctionsInOrder(t) ==
  /\ \A i, j \in DOMAIN t.entries : i < j => t.entries[i].fun < t.entries[j].fun
  /\ \A i \in DOMAIN t.entries : EntryKnown(t, t.entries[i])

Together(name, words, first) ==
  \A i \in Pointers(words, first) :
    words[i] \notin program.tables.known =>
      /\ UnitAt(obj, name, Base(obj, name) + i - 1) # NoUnit
      /\ UnitAt(obj, ".text", words[i]) = UnitAt(obj, name, Base(obj, name) + i - 1)

(***************************************************************************)
(* "any unsplit .ctors, .dtors, extab and extabindex entries are analyzed  *)
(* and automatically split along with their associated functions": when    *)
(* the user has no splits the places of an entry are in one unit, and the  *)
(* units are in the same order in extabindex and extab, so that no cycle   *)
(* comes of them.  It works when the functions are in the order of         *)
(* extabindex, whatever the order of extab.                                *)
(***************************************************************************)
EntriesWithFunctions ==
  LET t == program.tables
      eti(i) == UnitAt(obj, "extabindex", Base(obj, "extabindex") + i - 1)
  IN  /\ stage = "write" /\ UserSplits(obj) = {} /\ Has("extabindex") =>
          /\ \A i \in DOMAIN t.entries :
               /\ eti(i) # NoUnit
               /\ UnitAt(obj, "extab", t.entries[i].extab) = eti(i)
               /\ UnitAt(obj, ".text", t.entries[i].fun) = eti(i)
          /\ \A i, j \in DOMAIN t.entries :
               i < j /\ eti(i) # eti(j) => t.entries[i].extab < t.entries[j].extab
          /\ Together(".ctors", t.ctors, 1) /\ Together(".dtors", t.dtors, 2)
      /\ stage = "failed" /\ obj # Rejected =>
          UserSplits(obj) # {} \/ ~FunctionsInOrder(t)

(***************************************************************************)
(* The splits file that is written after a map was read has each symbol of *)
(* the map in a split of its unit, if it is of some size: what the map     *)
(* says of a unit is not given to another.                                 *)
(***************************************************************************)
MapUnitsKept ==
  stage = "map" /\ run = 1 =>
    \A e \in symbols : e.size > 0 /\ ~e.stripped =>
      LET says == ApplySplits(file, program.object)
      IN  /\ says # Rejected
          /\ \E p \in ToSet(says.sections[e.section].splits) :
               p.unit = Path(e.unit) /\ p.addr <= e.addr /\ e.addr + e.size <= p.end

(***************************************************************************)
(* An old linker prints the first symbol of a unit in common BSS with the  *)
(* size of all of the unit's symbols.  The symbols that are made of such a *)
(* map have the sizes that they have in the objects, if every unit has a   *)
(* symbol that is used and the first one begins with it.                   *)
(***************************************************************************)
SizesRecovered ==
  program.map.command # "none" =>
    \A e \in symbols : e.name \in DOMAIN program.map.real => e.size = program.map.real[e.name]

(***************************************************************************)
(* What dtk makes of a linker's map says what the map says: each symbol    *)
(* keeps its unit in the file and has its own size.                        *)
(***************************************************************************)
MapFollowed == MapUnitsKept /\ SizesRecovered
=============================================================================
