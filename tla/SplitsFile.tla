----------------------------- MODULE SplitsFile -----------------------------
(***************************************************************************)
(* The splits file of a project (src/src/util/config.rs): the lines that   *)
(* write_splits makes of an object, and what apply_splits makes of them in *)
(* an object as it is loaded.                                              *)
(*                                                                         *)
(* An object has a kind, its sections, its units (link_order) and the      *)
(* ranges of comments a PE header has.  A section has the range it has in  *)
(* the object, its logical sub-sections and its splits in the order of the *)
(* BTreeMap; a module's section may have a virtual address as well.  A     *)
(* line is a record of what its attributes say.  A unit is a tuple of what *)
(* its name is made of; None, NoName and NoUnit stand for None.            *)
(***************************************************************************)
EXTENDS Integers, Sequences, FiniteSets, SequencesExt

None == -1
NoName == ""
NoUnit == <<"none", 0, 0>>

\* The object of a file that cannot be applied.
Rejected == [kind |-> "rejected"]

\* section_kind_for_section; NoName where it fails.
KnownKind(name) ==
  CASE name \in {".init", ".text"} -> "code"
    [] name \in {".ctors", ".dtors", ".rodata", ".sdata2", "extab", "extabindex"} -> "rodata"
    [] name \in {".bss", ".sbss", ".sbss2"} -> "bss"
    [] name \in {".data", ".sdata"} -> "data"
    [] OTHER -> NoName

\* The elements of a set in an order.
Sorted(S, before(_, _)) ==
  [n \in 1..Cardinality(S) |-> CHOOSE k \in S : Cardinality({j \in S : before(j, k)}) = n - 1]

SectionEnd(s) == s.addr + s.size

\* contains_range of a range from lo that ends in front of hi.
HasRange(s, lo, hi) == s.addr <= lo /\ lo < SectionEnd(s) /\ s.addr < hi /\ hi <= SectionEnd(s)

Named(obj, name) == {i \in DOMAIN obj.sections : obj.sections[i].name = name}

\* with_range: the first section that contains a range; 0 if none does.
WithRange(obj, lo, hi) ==
  LET there == {i \in DOMAIN obj.sections : HasRange(obj.sections[i], lo, hi)}
  IN  IF there = {} THEN 0 ELSE Min(there)

\* ObjSplits::push.
PushSplit(splits, split) ==
  LET before == {i \in DOMAIN splits : \/ splits[i].addr < split.addr
                                       \/ splits[i].addr = split.addr /\ splits[i].end <= split.end}
  IN  InsertAt(splits, Max({0} \cup before) + 1, split)

\* Where a module's section is in the file.
Offset(obj, s) == IF obj.kind = "module" /\ s.vaddr # None THEN s.vaddr ELSE 0

-----------------------------------------------------------------------------
\* write_splits
SectionLines(obj, s) ==
  <<[line |-> "section", name |-> s.name, type |-> s.kind,
     align |-> IF s.align > 0 THEN s.align ELSE None,
     vaddr |-> IF obj.kind = "module" THEN s.vaddr ELSE None, end |-> None, unit |-> NoUnit]>>
  \o [i \in DOMAIN s.regions |->
       [line |-> "section", name |-> s.regions[i].name,
        type |-> IF s.regions[i].kind = NoName THEN s.kind ELSE s.regions[i].kind,
        align |-> None, vaddr |-> s.regions[i].start, end |-> s.regions[i].end, unit |-> NoUnit]]

SharedComments(obj) ==
  LET shared == SelectSeq(obj.comments, LAMBDA c : c.unit = NoUnit)
  IN  [i \in DOMAIN shared |->
        [line |-> "section", name |-> shared[i].name, type |-> "comment", align |-> None,
         vaddr |-> shared[i].start, end |-> shared[i].end, unit |-> NoUnit]]

SplitLine(obj, s, split) ==
  [line |-> "split", name |-> IF split.rename # NoName THEN split.rename ELSE s.name,
   start |-> split.addr + Offset(obj, s), end |-> split.end + Offset(obj, s),
   align |-> split.align, rename |-> NoName, common |-> split.common, skip |-> split.skip,
   comment |-> FALSE]

UnitLines(obj, u) ==
  LET of(s) == SelectSeq(s.splits, LAMBDA p : p.unit = u.name)
      comments == SelectSeq(obj.comments, LAMBDA c : c.unit = u.name)
  IN  <<[line |-> "unit", name |-> u.name, comment |-> u.comment, order |-> u.order]>>
      \o FlattenSeq([i \in DOMAIN obj.sections |->
           LET splits == of(obj.sections[i])
           IN  [n \in DOMAIN splits |-> SplitLine(obj, obj.sections[i], splits[n])]])
      \o [n \in DOMAIN comments |->
           [line |-> "split", name |-> comments[n].name, start |-> comments[n].start,
            end |-> comments[n].end, align |-> None, rename |-> NoName, common |-> FALSE,
            skip |-> FALSE, comment |-> TRUE]]

WriteSplits(obj, all) ==
  LET units == SelectSeq(obj.units, LAMBDA u : all \/ ~u.auto)
  IN  <<[line |-> "sections"]>>
      \o FlattenSeq([i \in DOMAIN obj.sections |-> SectionLines(obj, obj.sections[i])])
      \o SharedComments(obj)
      \o FlattenSeq([n \in DOMAIN units |-> UnitLines(obj, units[n])])

-----------------------------------------------------------------------------
\* apply_splits: each line is read in a state: no header yet, the index of the next
\* section, or the name of the unit.
Start(obj) == [mode |-> "none", index |-> 1, unit |-> NoUnit, obj |-> obj]

AddUnit(st, line) ==
  [st EXCEPT !.mode = "unit", !.unit = line.name,
     !.obj.units = Append(@, [name |-> line.name, auto |-> FALSE, comment |-> line.comment,
                              order |-> line.order])]

AddComment(st, line, start, unit) ==
  [st EXCEPT !.obj.comments =
     Append(@, [name |-> line.name, start |-> start, end |-> line.end, unit |-> unit])]

AddRegion(st, line) ==
  LET parent == WithRange(st.obj, line.vaddr, line.end)
      region == [start |-> line.vaddr, end |-> line.end, name |-> line.name, kind |-> line.type]
  IN  IF line.end <= line.vaddr \/ parent = 0 THEN [st EXCEPT !.obj = Rejected]
      ELSE [st EXCEPT !.obj.sections[parent].regions = Append(@, region)]

\* The next section gets its name: a known name decides its kind, else the line does.
Declare(st, line) ==
  LET kind == IF KnownKind(line.name) # NoName THEN KnownKind(line.name) ELSE line.type
  IN  IF \/ st.index \notin DOMAIN st.obj.sections
         \/ kind = NoName
         \/ line.vaddr # None /\ st.obj.kind # "module"
      THEN [st EXCEPT !.obj = Rejected]
      ELSE [st EXCEPT !.index = @ + 1,
              !.obj.sections[st.index] =
                [@ EXCEPT !.name = line.name, !.kind = kind,
                          !.align = IF line.align # None THEN line.align ELSE @,
                          !.vaddr = IF line.vaddr # None THEN line.vaddr ELSE @]]

SectionLine(st, line) ==
  LET ranged == line.vaddr # None /\ line.end # None
  IN  CASE line.type = "comment" ->
             IF ranged THEN AddComment(st, line, line.vaddr, line.unit) ELSE st
        [] line.type # "comment" /\ ranged /\ st.obj.kind = "executable" -> AddRegion(st, line)
        [] OTHER -> Declare(st, line)

\* (mutant) the name the file gives a split is only looked up.
SectionOfName(obj, line) == IF Named(obj, line.name) = {} THEN 0 ELSE Min(Named(obj, line.name))

\* The section of a split: by its name, or in an executable by its range.
SectionOf(obj, line) ==
  CASE Cardinality(Named(obj, line.name)) > 1 -> 0
    [] Cardinality(Named(obj, line.name)) = 1 -> Min(Named(obj, line.name))
    [] OTHER -> IF obj.kind = "executable" THEN WithRange(obj, line.start, line.end) ELSE 0

AddSplitOf(st, line) ==
  LET i == SectionOf(st.obj, line)
      s == st.obj.sections[i]
      lo == line.start - Offset(st.obj, s)
      hi == line.end - Offset(st.obj, s)
      inside == \/ HasRange(s, lo, hi)
                \/ lo = SectionEnd(s) /\ hi = SectionEnd(s)
      renamed == IF line.rename # NoName \/ s.name = line.name THEN line.rename ELSE line.name
      align == IF line.common /\ line.align = None THEN 4 ELSE line.align
  IN  IF line.end < line.start \/ i = 0 THEN [st EXCEPT !.obj = Rejected]
      ELSE IF lo < 0 \/ hi < 0 \/ ~inside THEN [st EXCEPT !.obj = Rejected]
      ELSE [st EXCEPT !.obj.sections[i].splits =
              PushSplit(@, [unit |-> st.unit, addr |-> lo, end |-> hi, align |-> align,
                            common |-> line.common, auto |-> FALSE, skip |-> line.skip,
                            rename |-> renamed])]

ApplyLine(st, line) ==
  CASE st.obj = Rejected -> st
    [] line.line = "unit" -> AddUnit(st, line)
    [] line.line = "sections" /\ st.mode = "sections" -> st
    [] line.line = "sections" /\ st.mode # "sections" -> [st EXCEPT !.mode = "sections", !.index = 1]
    [] line.line = "section" /\ st.mode = "sections" -> SectionLine(st, line)
    [] line.line = "split" /\ st.mode = "unit" ->
         IF line.comment THEN AddComment(st, line, line.start, st.unit) ELSE AddSplitOf(st, line)
    [] OTHER -> [st EXCEPT !.obj = Rejected]

ApplySplits(lines, obj) == FoldLeft(ApplyLine, Start(obj), lines).obj

\* read_comment_regions: what the loader takes from the PE header, with the unit it is for.
CommentRegions(lines) ==
  LET unitAt(n) ==
        LET above == {m \in 1..n : lines[m].line = "unit"} IN lines[Max(above)].name
  IN  {<<lines[n].vaddr, lines[n].end, lines[n].unit>> :
         n \in {m \in DOMAIN lines : lines[m].line = "section" /\ lines[m].type = "comment"}}
      \cup {<<lines[n].start, lines[n].end, unitAt(n)>> :
         n \in {m \in DOMAIN lines : lines[m].line = "split" /\ lines[m].comment}}
=============================================================================
