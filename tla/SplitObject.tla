---------------------------- MODULE SplitObject ----------------------------
(***************************************************************************)
(* split_obj (src/src/util/split.rs): an object is cut into one            *)
(* relocatable object per unit.                                            *)
(*                                                                         *)
(* The splits of each section are walked from its start to its end; the    *)
(* data, the symbols and the relocations of a split become a section of    *)
(* its unit's object.  Then the relocations are moved from the symbols of  *)
(* the original to those of the unit, with an undefined symbol for each    *)
(* one that another unit holds, and the local symbols so referred to are   *)
(* made global under a name of their own.                                  *)
(*                                                                         *)
(* A name is a sequence: a string, and behind it the addresses that were   *)
(* added to it.  The data of a section is the number of its bytes that are *)
(* in the file, and the addresses of those that are not zero.              *)
(***************************************************************************)
EXTENDS Integers, Sequences, FiniteSets, SequencesExt

CONSTANTS
  LinkerLabels,    \* is_linker_generated_label
  LinkerObjects,   \* is_linker_generated_object
  TableEnd,        \* gTRKInterruptVectorTableEnd
  Originals        \* the objects that may be split

VARIABLES
  obj,       \* the object that is split
  sect, at, next,  \* the section of the walk, its address, and its next split
  objects,   \* the objects so far, one per unit of the link order
  placed,    \* object_symbols: per unit, its symbol for one of the original
  renames,   \* symbols_to_globalize
  phase

splitVars == <<obj, sect, at, next, objects, placed, renames, phase>>

None == 0
BssAlign == 4


SectionEnd(s) == s.addr + s.size

\* ObjSection::data_range: the addresses of lo..hi that have bytes in the file.
Backed(s, lo, hi) ==
  IF s.kind = "bss" THEN {} ELSE lo..(Min({hi, s.addr + s.phys}) - 1)

DefaultSectionAlign(arch, s) ==
  IF arch = "x86" \/ s.kind = "code" \/ s.name \in {".ctors", ".dtors", "extab", "extabindex"}
  THEN 4 ELSE 8

AddressAlign(arch, addr) ==
  CASE arch # "x86" \/ addr = 0 -> 1
    [] arch = "x86" /\ addr # 0 /\ addr % 8 = 0 -> 8
    [] OTHER -> 4

\* The symbols of section k that start in lo..hi - 1.
SymbolsIn(o, k, lo, hi) ==
  {i \in DOMAIN o.symbols :
     o.symbols[i].section = k /\ lo <= o.symbols[i].addr /\ o.symbols[i].addr < hi}

(***************************************************************************)
(* end_for_section: the null pointer at the end of .ctors and .dtors, and  *)
(* the objects the linker made at the end of the section, are left out.    *)
(***************************************************************************)
LastObject(o, k, end) ==
  LET sized == {i \in SymbolsIn(o, k, 0, end) :
                  o.symbols[i].kind = "object" /\ o.symbols[i].size > 0}
      later(i, j) == \/ o.symbols[j].addr < o.symbols[i].addr
                     \/ o.symbols[j].addr = o.symbols[i].addr /\ j <= i
  IN  IF sized = {} THEN None ELSE CHOOSE i \in sized : \A j \in sized : later(i, j)

EndForSection(o, k) ==
  LET s == o.sections[k]
      null == /\ s.name \in {".ctors", ".dtors"}
              /\ s.nonzero \cap (s.addr + s.phys - 4)..(s.addr + s.phys - 1) = {}
      from[end \in 0..SectionEnd(s)] ==
        LET last == LastObject(o, k, end)
        IN  IF last # None /\ o.symbols[last].name[1] \in LinkerObjects
            THEN from[o.symbols[last].addr] ELSE end
  IN  IF s.phys = 0 THEN SectionEnd(s)
      ELSE from[IF null THEN SectionEnd(s) - 4 ELSE SectionEnd(s)]

(***************************************************************************)
(* The alignment of a split is its own or the largest of its symbols', of  *)
(* the section's and of its address's.  One that its address does not have *)
(* is halved, down to 4, or to 1 for a split dtk made; 0 when none fits.   *)
(***************************************************************************)
ExpectedAlign(o, k, split) ==
  LET s == o.sections[k]
      default == DefaultSectionAlign(o.arch, s)
      sized == {i \in SymbolsIn(o, k, split.addr, split.end) : o.symbols[i].size > 0}
      align == Max({default} \cup {o.symbols[i].align : i \in sized})
  IN  CASE split.align # None -> split.align
        [] split.align = None /\ split.crt -> align
        [] OTHER -> Max({align, AddressAlign(o.arch, split.addr)})

FittingAlign(o, k, split) ==
  LET expected == ExpectedAlign(o, k, split)
      floor == IF split.auto THEN 1 ELSE 4
      fits == {a \in 1..expected : /\ \E n \in 0..5 : a * 2 ^ n = expected
                                   /\ a = expected \/ a >= floor
                                   /\ split.addr % a = 0}
  IN  IF fits = {} THEN 0 ELSE Max(fits)

----------------------------------------------------------------------------

\* The .comment version of a unit: its own, none when it is 0, or the object's.
CommentVersion(o, unit) == IF unit.comment = -1 THEN o.comment ELSE unit.comment

EmptyObject(o, unit) ==
  [unit |-> unit.name, comment |-> CommentVersion(o, unit), sections |-> <<>>, symbols |-> <<>>]

\* The splits that for_range yields, in the order of the map.
SplitsOf(o, k) ==
  SelectSeq(o.sections[k].splits,
            LAMBDA p : o.sections[k].addr <= p.addr /\ p.addr < EndForSection(o, k))

\* (mutant) the symbols at the end of a split come along with it.
TakesUpToEnd(o, k, split) ==
  {i \in DOMAIN o.symbols :
     /\ o.symbols[i].section = k
     /\ split.addr <= o.symbols[i].addr /\ o.symbols[i].addr <= split.end
     /\ o.symbols[i].name[1] \notin LinkerLabels}

(***************************************************************************)
(* A split takes the symbols from its start to its end, and one at its end *)
(* only if it is gTRKInterruptVectorTableEnd, which is not taken at the    *)
(* start; labels of the linker are left out.                               *)
(***************************************************************************)
Takes(o, k, split) ==
  {i \in DOMAIN o.symbols :
     /\ o.symbols[i].section = k
     /\ split.addr <= o.symbols[i].addr /\ o.symbols[i].addr <= split.end
     /\ o.symbols[i].name[1] \notin LinkerLabels
     /\ o.symbols[i].addr # (IF o.symbols[i].name[1] = TableEnd THEN split.addr ELSE split.end)}

\* for_section_range goes by address, and at one address by index.
InOrder(o, is) ==
  SetToSortSeq(is, LAMBDA i, j : \/ o.symbols[i].addr < o.symbols[j].addr
                                 \/ o.symbols[i].addr = o.symbols[j].addr /\ i < j)

\* A symbol as its unit's object has it, in the section with the given number.
OutSymbol(sym, split, out) ==
  IF split.common
  THEN [sym EXCEPT !.addr = IF sym.align = None THEN BssAlign ELSE sym.align,
                   !.section = None, !.common = TRUE, !.scope = "none"]
  ELSE [sym EXCEPT !.addr = @ - split.addr, !.section = out]

(***************************************************************************)
(* The section of a split: Bss in a sub-region of that kind and behind the *)
(* bytes the file has, else what the original is.                          *)
(***************************************************************************)
OutSection(o, k, split) ==
  LET s == o.sections[k]
      region == \E r \in s.regions : r[1] <= split.addr /\ split.addr < r[2]
      bytes == IF region THEN {} ELSE Backed(s, split.addr, split.end)
  IN  [name   |-> IF split.rename = "" THEN s.name ELSE split.rename,
       kind   |-> IF region \/ (bytes = {} /\ split.end > s.addr + s.phys) THEN "bss" ELSE s.kind,
       size   |-> split.end - split.addr,
       bytes  |-> {a - split.addr : a \in bytes},
       nonzero |-> {a - split.addr : a \in bytes \cap s.nonzero},
       align  |-> FittingAlign(o, k, split),
       vaddr  |-> split.addr,
       branches |-> {<<b[1] - split.addr, b[2] - split.addr>> :
                       b \in {c \in s.branches : split.addr <= c[1] /\ c[1] < split.end}},
       relocs |-> {[r EXCEPT !.addr = @ - split.addr] :
                     r \in {q \in s.relocs : split.addr <= q.addr /\ q.addr < split.end}}]

SplitInto(o, k, split, out, map) ==
  LET new == SelectSeq(InOrder(o, Takes(o, k, split)), LAMBDA i : i \notin DOMAIN map)
      here == [n \in DOMAIN new |-> OutSymbol(o.symbols[new[n]], split, Len(out.sections) + 1)]
  IN  [out EXCEPT
         !.symbols = @ \o here,
         !.comment = IF split.common /\ @ = 0 THEN 8 ELSE @,
         !.sections = IF split.common THEN @ ELSE Append(@, OutSection(o, k, split))]

\* The unit's symbols, by the number they have in the original.
PlacedBy(o, k, split, out, map) ==
  LET new == SelectSeq(InOrder(o, Takes(o, k, split)), LAMBDA i : i \notin DOMAIN map)
  IN  [i \in DOMAIN map \cup Range(new) |->
         IF i \in DOMAIN map THEN map[i] ELSE Len(out.symbols) + (CHOOSE n \in DOMAIN new : new[n] = i)]

----------------------------------------------------------------------------

SplitInit ==
  /\ obj \in Originals
  /\ sect = 1 /\ next = 1
  /\ at = obj.sections[1].addr
  /\ objects = [u \in DOMAIN obj.units |-> EmptyObject(obj, obj.units[u])]
  /\ placed = [u \in DOMAIN obj.units |-> <<>>]
  /\ renames = <<>>
  /\ phase = "walk"

InSection == phase = "walk" /\ sect <= Len(obj.sections) /\ at < EndForSection(obj, sect)

UnitOf(split) == {u \in DOMAIN obj.units : obj.units[u].name = split.unit}

NextAddr == IF next < Len(SplitsOf(obj, sect)) THEN SplitsOf(obj, sect)[next + 1].addr
            ELSE EndForSection(obj, sect)

\* The checks on the next split: it is here, and only zeros follow it.
SplitFollows ==
  /\ next <= Len(SplitsOf(obj, sect))
  /\ LET split == SplitsOf(obj, sect)[next]
         s == obj.sections[sect]
     IN  /\ split.addr = at
         /\ NextAddr > split.end => Backed(s, split.end, NextAddr) \cap s.nonzero = {}
         /\ ~split.skip => UnitOf(split) # {} /\ FittingAlign(obj, sect, split) # 0

\* One turn of the loop over the splits of a section.
TakeSplit ==
  /\ InSection /\ SplitFollows
  /\ LET split == SplitsOf(obj, sect)[next]
     IN  \/ split.skip /\ UNCHANGED <<objects, placed>>
         \/ ~split.skip /\ \E u \in UnitOf(split) :
              /\ objects' = [objects EXCEPT ![u] = SplitInto(obj, sect, split, @, placed[u])]
              /\ placed' = [placed EXCEPT ![u] = PlacedBy(obj, sect, split, objects[u], @)]
  /\ at' = NextAddr /\ next' = next + 1
  /\ UNCHANGED <<obj, sect, renames, phase>>

NextSection ==
  /\ phase = "walk" /\ sect <= Len(obj.sections) /\ at >= EndForSection(obj, sect)
  /\ sect' = sect + 1 /\ next' = 1
  /\ at' = IF sect < Len(obj.sections) THEN obj.sections[sect + 1].addr ELSE 0
  /\ phase' = IF sect = Len(obj.sections) THEN "relocate" ELSE "walk"
  /\ UNCHANGED <<obj, objects, placed, renames>>

\* "No split found", "Split not found", "Unsplit data", "Invalid alignment".
NoSplit ==
  /\ InSection /\ ~SplitFollows
  /\ phase' = "failed"
  /\ UNCHANGED <<obj, sect, at, next, objects, placed, renames>>

----------------------------------------------------------------------------

\* The address that tells a local symbol from others of its name.
AddressTag(o, sym) ==
  IF o.module = 0 THEN <<sym.addr>> ELSE <<o.module, o.sections[sym.section].name, sym.addr>>

GlobalName(o, sym) ==
  IF Len(sym.name) > 1 /\ Last(sym.name) = AddressTag(o, sym) THEN sym.name ELSE Append(sym.name, AddressTag(o, sym))

Extern(sym) ==
  [name |-> sym.name, section |-> None, addr |-> 0, size |-> 0, align |-> None,
   kind |-> sym.kind, scope |-> "none", common |-> FALSE, data |-> "unknown"]

\* The relocations of an object, section by section and by address.
RelocsInOrder(out) ==
  FlattenSeq([k \in DOMAIN out.sections |->
    LET relocs == SetToSortSeq(out.sections[k].relocs, LAMBDA q, r : q.addr < r.addr)
    IN  [n \in DOMAIN relocs |-> [section |-> out.sections[k].name, target |-> relocs[n].target]]])

\* Where an object refers to each symbol of other units for the first time.
FirstReferences(out, map) ==
  LET all == RelocsInOrder(out)
      first(n) == \A m \in 1..n - 1 : all[m].target # all[n].target
      order == SetToSortSeq({n \in DOMAIN all : all[n].target \notin DOMAIN map /\ first(n)}, <)
  IN  [n \in DOMAIN order |-> all[order[n]]]

Outside(out, map) ==
  LET refs == FirstReferences(out, map) IN [n \in DOMAIN refs |-> refs[n].target]

(***************************************************************************)
(* "Bad extabindex relocation": the first reference to a symbol of another *)
(* unit may not be one of an extabindex.  Later ones are not looked at.    *)
(***************************************************************************)
BadExtabindex(out, map) == \E ref \in Range(FirstReferences(out, map)) : ref.section = "extabindex"

\* A local symbol without a section cannot be given an address tag.
Untaggable(o, target) ==
  /\ o.globalize /\ o.symbols[target].scope = "local"
  /\ o.module # 0 /\ o.symbols[target].section = None

Retargeted(out, map) ==
  [k \in DOMAIN out.sections |->
     [out.sections[k] EXCEPT !.relocs = {[r EXCEPT !.target = map[@]] : r \in out.sections[k].relocs}]]

(***************************************************************************)
(* Update relocations: one unit after the other, with a symbol for each    *)
(* that another unit holds.                                                *)
(***************************************************************************)
UpdateRelocations ==
  /\ phase = "relocate"
  /\ LET outside == [u \in DOMAIN objects |-> Outside(objects[u], placed[u])]
         failed == \E u \in DOMAIN objects :
                     \/ BadExtabindex(objects[u], placed[u])
                     \/ \E i \in Range(outside[u]) : Untaggable(obj, i)
         local(i) == obj.globalize /\ obj.symbols[i].scope = "local"
         maps == [u \in DOMAIN objects |->
                    [i \in DOMAIN placed[u] \cup Range(outside[u]) |->
                       IF i \in DOMAIN placed[u] THEN placed[u][i]
                       ELSE Len(objects[u].symbols) + (CHOOSE n \in DOMAIN outside[u] : outside[u][n] = i)]]
     IN  /\ phase' = IF failed THEN "failed" ELSE "globalize"
         /\ placed' = maps
         /\ objects' = [u \in DOMAIN objects |->
              [objects[u] EXCEPT
                 !.sections = Retargeted(objects[u], maps[u]),
                 !.symbols = @ \o [n \in DOMAIN outside[u] |-> Extern(obj.symbols[outside[u][n]])]]]
         /\ renames' = IF failed THEN <<>> ELSE
              FlattenSeq([u \in DOMAIN objects |-> SelectSeq(outside[u], local)])
  /\ UNCHANGED <<obj, sect, at, next>>

\* (mutant) only the unit that has the symbol learns its new name.
RenamedAtHome(o, out, map, is) ==
  [n \in DOMAIN out.symbols |->
     IF \E i \in is : i \in DOMAIN map /\ map[i] = n /\ out.symbols[n].section # None
     THEN LET i == CHOOSE j \in is : j \in DOMAIN map /\ map[j] = n
          IN  [out.symbols[n] EXCEPT !.name = GlobalName(o, o.symbols[i]), !.scope = "global"]
     ELSE out.symbols[n]]

\* A symbol made global has its new name in every unit that knows it.
Renamed(o, out, map, is) ==
  [n \in DOMAIN out.symbols |->
     IF \E i \in is : i \in DOMAIN map /\ map[i] = n
     THEN LET i == CHOOSE j \in is : j \in DOMAIN map /\ map[j] = n
          IN  [out.symbols[n] EXCEPT !.name = GlobalName(o, o.symbols[i]),
                                     !.scope = IF @ = "local" THEN "global" ELSE @]
     ELSE out.symbols[n]]

(***************************************************************************)
(* Upgrade local symbols to global, and extern what the linker makes: a    *)
(* label of the linker with a section would become a symbol without one,   *)
(* which ObjSymbols::replace refuses.                                      *)
(***************************************************************************)
Globalize ==
  /\ phase = "globalize"
  /\ objects' = [u \in DOMAIN objects |->
       [objects[u] EXCEPT !.symbols = Renamed(obj, objects[u], placed[u], Range(renames))]]
  /\ phase' = IF \E u \in DOMAIN objects : \E n \in DOMAIN objects[u].symbols :
                   /\ objects[u].symbols[n].name[1] \in LinkerLabels
                   /\ objects[u].symbols[n].section # None
              THEN "failed" ELSE "split"
  /\ UNCHANGED <<obj, sect, at, next, placed, renames>>

SplitNext == TakeSplit \/ NextSection \/ NoSplit \/ UpdateRelocations \/ Globalize
=============================================================================
