----------------------------- MODULE UnitSplits -----------------------------
(***************************************************************************)
(* The splits that dtk makes for the entries of extabindex, .ctors and     *)
(* .dtors, in the unit of the function they belong to                      *)
(* (src/src/util/split.rs), and how a split gets into an object            *)
(* (ObjInfo::add_split in src/src/obj/mod.rs).                             *)
(*                                                                         *)
(* A call is a section, the start of a split and the split.  What a        *)
(* program's tables hold is a record:                                      *)
(*   entries    extabindex: the function, its size and its extab           *)
(*   ctors      .ctors without its last word: functions, Minus1 or Zero    *)
(*   dtors      .dtors, likewise                                           *)
(*   functions  the size of each function symbol                           *)
(*   extabs     the size of each extab symbol                              *)
(*   names      what is left of a function's name in the name of a unit    *)
(*   known      the functions that the signatures know                     *)
(* An extabindex entry is one address long, like a word of .ctors.         *)
(***************************************************************************)
EXTENDS SplitsFile, TLC

Minus1 == -1
Zero == 0

NoSplit == [unit |-> NoUnit]
\* What is left when a pass gives up, and when add_split does.
Failed == <<"failed", 0>> :> NoSplit
Stuck == [obj |-> Rejected, calls |-> <<>>]

NewSplit(unit, lo, hi) ==
  [unit |-> unit, addr |-> lo, end |-> hi, align |-> None, common |-> FALSE, auto |-> TRUE,
   skip |-> FALSE, rename |-> NoName]

\* for_address: the last split that does not start behind an address, if it reaches it.
At(splits, addr) ==
  LET upTo == {i \in DOMAIN splits : splits[i].addr <= addr}
  IN  IF upTo = {} THEN NoSplit
      ELSE LET last == splits[Max(upTo)]
           IN  IF last.end = 0 \/ last.end > addr THEN last ELSE NoSplit

IndexOf(obj, name) == CHOOSE i \in Named(obj, name) : TRUE
SplitsOf(obj, name) == obj.sections[IndexOf(obj, name)].splits
Base(obj, name) == obj.sections[IndexOf(obj, name)].addr

AllSplits(obj) == UNION {ToSet(obj.sections[i].splits) : i \in DOMAIN obj.sections}

-----------------------------------------------------------------------------
\* auto_unit_name: the first number that makes the name new.
UnitNames(obj, new) ==
  {u.name : u \in ToSet(obj.units)} \cup {p.unit : p \in AllSplits(obj)}
    \cup {new[k].unit : k \in DOMAIN new}

AutoUnit(obj, tables, fun, new) ==
  LET name(i) == <<"auto", tables.names[fun], i>>
  IN  name(Min({i \in 0..Cardinality(UnitNames(obj, new)) : name(i) \notin UnitNames(obj, new)}))

\* The unit of those splits that are there; they may not be of two.
Units(splits) == {p.unit : p \in splits} \ {NoUnit}

\* new_splits.insert
Insert(new, name, split) == (<<name, split.addr>> :> split) @@ new

\* BTreeMap order: by section, then by address.
InOrder(obj, new) ==
  LET before(a, b) ==
        \/ IndexOf(obj, a[1]) < IndexOf(obj, b[1])
        \/ IndexOf(obj, a[1]) = IndexOf(obj, b[1]) /\ a[2] < b[2]
      keys == Sorted(DOMAIN new, before)
  IN  [n \in DOMAIN keys |-> [section |-> IndexOf(obj, keys[n][1]), split |-> new[keys[n]]]]

-----------------------------------------------------------------------------
\* split_ctors_dtors

\* The words that are looked at: not a -1 in front, and up to a null pointer.
Pointers(words, first) ==
  LET from == IF first \in DOMAIN words /\ words[first] = Minus1 THEN first + 1 ELSE first
      nulls == {i \in from..Len(words) : words[i] = Zero}
  IN  from..(IF nulls = {} THEN Len(words) ELSE Min(nulls) - 1)

DataAfterNull(words, first) ==
  \E i, j \in first..Len(words) : i < j /\ words[i] = Zero /\ words[j] # Zero

PointerSplits(obj, tables, name, at, fun, new) ==
  LET entry == At(SplitsOf(obj, name), at)
      function == At(SplitsOf(obj, ".text"), fun)
      units == Units({entry, function})
      unit == IF units = {} THEN AutoUnit(obj, tables, fun, new) ELSE CHOOSE u \in units : TRUE
      withEntry == IF entry = NoSplit THEN Insert(new, name, NewSplit(unit, at, at + 1)) ELSE new
  IN  IF fun \notin DOMAIN tables.functions \/ Cardinality(units) > 1 THEN Failed
      ELSE IF function # NoSplit THEN withEntry
      ELSE Insert(withEntry, ".text", NewSplit(unit, fun, fun + tables.functions[fun]))

SplitPointers(obj, tables, name, words, first) ==
  LET step(new, i) ==
        IF new = Failed THEN Failed
        ELSE PointerSplits(obj, tables, name, Base(obj, name) + i - 1, words[i], new)
      pointers == Pointers(words, first)
  IN  IF DataAfterNull(words, first) THEN Failed
      ELSE FoldLeft(step, <<>>, Sorted(pointers, <))

-----------------------------------------------------------------------------
\* split_extabindex: the entries are put into groups that are in the same order in
\* extabindex and extab.

\* Pass 1: an entry with an extab in front of the greatest so far joins its group.
Leader(x, i) == \A j \in 1..i - 1 : x[j] <= x[i]
GroupOf(x, i) == Cardinality({j \in 2..i : Leader(x, j)})

\* (mutant) only the entry in front of a group is absorbed.
AbsorbNext(x, groups, g) ==
  LET in == {i \in DOMAIN x : groups[i] = g}
      within(i) == \E a, b \in in : x[a] <= x[i] /\ x[i] <= x[b]
  IN  IF Cardinality({i \in DOMAIN x : GroupOf(x, i) = g}) <= 1 THEN groups
      ELSE [i \in DOMAIN x |-> IF i = Min(in) - 1 /\ within(i) THEN g ELSE groups[i]]

\* Pass 2: a group of more than one takes the entries before it whose extab is
\* within its own.  Its size is what it was before.
Absorb(x, groups, g) ==
  LET in == {i \in DOMAIN x : groups[i] = g}
      within(i) == \E a, b \in in : x[a] <= x[i] /\ x[i] <= x[b]
  IN  IF Cardinality({i \in DOMAIN x : GroupOf(x, i) = g}) <= 1 THEN groups
      ELSE [i \in DOMAIN x |-> IF i < Min(in) /\ within(i) THEN g ELSE groups[i]]

\* Pass 3: groups whose entries are among each other's are merged, in the order of
\* their first entries.
MergeNext(groups, g) ==
  LET in(h) == {i \in DOMAIN groups : groups[i] = h}
      first == Min(in(g))
      earlier == {h \in Range(groups) : Min(in(h)) < first /\ Max(in(h)) > first}
      into == Min(earlier \cup {g})
  IN  [i \in DOMAIN groups |-> IF groups[i] \in earlier \cup {g} THEN into ELSE groups[i]]

Groups(x) ==
  LET initial == [i \in DOMAIN x |-> GroupOf(x, i)]
      absorbed == FoldLeft(LAMBDA gs, g : Absorb(x, gs, g), initial,
                           [g \in 1..Len(x) |-> g - 1])
      firsts == Sorted({Min({i \in DOMAIN x : absorbed[i] = g}) : g \in Range(absorbed)}, <)
  IN  FoldLeft(LAMBDA gs, i : MergeNext(gs, gs[i]), absorbed, firsts)

\* The names in the table are symbols of the sizes it says.
EntryKnown(tables, e) ==
  /\ e.fun \in DOMAIN tables.functions /\ tables.functions[e.fun] = e.size
  /\ e.extab \in DOMAIN tables.extabs /\ tables.extabs[e.extab] > 0

\* The splits of the entries of a group: each place that has none gets its own, but
\* a group of more than one gets one in each section that covers them.
GroupSplits(obj, tables, in, new) ==
  LET e == tables.entries
      eti(i) == Base(obj, "extabindex") + i - 1
      there(i) == {At(SplitsOf(obj, "extabindex"), eti(i)), At(SplitsOf(obj, "extab"), e[i].extab),
                   At(SplitsOf(obj, ".text"), e[i].fun)}
      units == Units(UNION {there(i) : i \in in})
      unit == IF units = {} THEN AutoUnit(obj, tables, e[Min(in)].fun, new)
              ELSE CHOOSE u \in units : TRUE
      single == Cardinality(in) = 1
      needed(name, addr) == ~single \/ At(SplitsOf(obj, name), addr) = NoSplit
      cover(acc, name, addrs, end(_)) ==
        IF needed(name, Min(addrs)) THEN Insert(acc, name, NewSplit(unit, Min(addrs), end(Max(addrs))))
        ELSE acc
      withEti == cover(new, "extabindex", {eti(i) : i \in in}, LAMBDA a : a + 1)
      withExtab == cover(withEti, "extab", {e[i].extab : i \in in}, LAMBDA a : a + tables.extabs[a])
  IN  IF Cardinality(units) > 1 \/ \E i \in in : ~EntryKnown(tables, e[i]) THEN Failed
      ELSE cover(withExtab, ".text", {e[i].fun : i \in in}, LAMBDA a : a + tables.functions[a])

SplitExtab(obj, tables) ==
  LET groups == Groups([i \in DOMAIN tables.entries |-> tables.entries[i].extab])
      step(new, g) ==
        IF new = Failed THEN Failed
        ELSE GroupSplits(obj, tables, {i \in DOMAIN groups : groups[i] = g}, new)
  IN  FoldLeft(step, <<>>, Sorted(Range(groups), <))

-----------------------------------------------------------------------------
\* apply_ctors_signatures, apply_dtors_signatures: the entries that the runtime
\* itself puts in front.
SignatureSplits(obj, tables) ==
  LET unit == <<"auto", "__init_cpp_exceptions", 0>>
      free(name) == At(SplitsOf(obj, name), Base(obj, name)) = NoSplit
      known(words, i) == i \in DOMAIN words /\ words[i] \in tables.known
      entries(name, n) == [section |-> IndexOf(obj, name),
                           split |-> NewSplit(unit, Base(obj, name), Base(obj, name) + n)]
  IN  (IF known(tables.ctors, 1) /\ free(".ctors") THEN <<entries(".ctors", 1)>> ELSE <<>>)
      \o (IF known(tables.dtors, 1) /\ free(".dtors")
          THEN <<entries(".dtors", IF known(tables.dtors, 2) THEN 2 ELSE 1)>> ELSE <<>>)

-----------------------------------------------------------------------------
\* add_split: a split of a unit that has one in the section makes it longer, over
\* generated ones that are in its way; their units become that unit.

OfUnit(splits, unit) == {i \in DOMAIN splits : splits[i].unit = unit}

\* The calls that are left and the object after the next one.
Done(obj, calls) == [obj |-> obj, calls |-> calls]

\* (mutant) a split that the user made is in nobody's way.
InTheWayAuto(splits, lo, hi, split) == {}

\* A split that the user made, in the way of a generated one.
InTheWay(splits, lo, hi, split) ==
  {i \in DOMAIN splits : lo <= splits[i].addr /\ splits[i].addr < hi /\ ~splits[i].auto /\ split.auto}

Extended(obj, calls, mine) ==
  LET c == Head(calls)
      splits == obj.sections[c.section].splits
      lo == Min({mine.addr, c.split.addr})
      hi == Max({mine.end, c.split.end})
      over == {i \in DOMAIN splits : lo <= splits[i].addr /\ splits[i].addr < hi}
      gone == {splits[i].addr : i \in over}
      renamed == {splits[i].unit : i \in over}
      rename(p) == IF p.unit \in renamed THEN [p EXCEPT !.unit = c.split.unit] ELSE p
      left(s) == IF s = c.section
                 THEN SelectSeq(obj.sections[s].splits, LAMBDA p : p.addr \notin gone)
                 ELSE obj.sections[s].splits
      object == [obj EXCEPT !.sections = [s \in DOMAIN @ |->
                   [@[s] EXCEPT !.splits = [n \in DOMAIN left(s) |-> rename(left(s)[n])]]]]
      aligns == {mine.align, c.split.align} \ {None}
      merged == [c.split EXCEPT !.addr = lo, !.end = hi, !.skip = FALSE, !.rename = NoName,
                   !.align = IF aligns = {} THEN None ELSE CHOOSE a \in aligns : TRUE,
                   !.auto = @ /\ mine.auto]
  IN  CASE Cardinality(aligns) > 1 \/ mine.common # c.split.common -> Stuck
        [] lo = mine.addr /\ hi = mine.end -> Done(obj, Tail(calls))
        [] InTheWay(splits, lo, hi, c.split) # {} -> Done(obj, Tail(calls))
        [] \E i \in over : ~splits[i].auto /\ splits[i].unit # c.split.unit -> Stuck
        [] OTHER -> Done(object, <<[section |-> c.section, split |-> merged]>> \o Tail(calls))

AddSplit(obj, calls) ==
  LET c == Head(calls)
      section == obj.sections[c.section]
      mine == OfUnit(section.splits, c.split.unit)
  IN  CASE c.split.end > SectionEnd(section) \/ Cardinality(mine) > 1 -> Stuck
        [] Cardinality(mine) = 1 -> Extended(obj, calls, section.splits[Min(mine)])
        [] OTHER -> Done([obj EXCEPT !.sections[c.section].splits = PushSplit(@, c.split)], Tail(calls))
=============================================================================
