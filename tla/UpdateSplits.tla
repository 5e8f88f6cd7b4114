---------------------------- MODULE UpdateSplits ----------------------------
(***************************************************************************)
(* update_splits of src/src/util/split.rs, from the trimming of linker     *)
(* generated symbols to the padding symbols: gap splits (GapSplits), the   *)
(* common BSS, stale labels, the final validation, and, when the project   *)
(* asks for it, a symbol for every byte.  The extab and .ctors splits made *)
(* before are part of the object the model starts with; the link order     *)
(* found after is LinkOrder.                                               *)
(*                                                                         *)
(* The loops of the later passes use sect and nth as the section and the   *)
(* split they are at, and cur as last_split_end.                           *)
(***************************************************************************)
EXTENDS GapSplits

\* A symbol dtk makes up is named after what it is for.
ASSUME SymbolNameAssumption == {"pad", "lbl", "gap"} \subseteq SymbolNames

VARIABLE fillers     \* to_add: the labels and gap symbols of a section, by the symbol in front

allVars == <<gapVars, fillers>>

UInit ==
  \E o \in Objects :
    /\ sections = o.sections /\ splits = o.splits /\ symbols = o.symbols
    /\ sect = 1 /\ cur = 0 /\ nth = 1 /\ rename = NoName
    /\ gaps = <<>> /\ fixes = <<>> /\ fillers = <<>>
    /\ pc = "trim"

-----------------------------------------------------------------------------
\* trim_linker_generated_symbols: the last split of a section ends in front
\* of the objects the linker generated.
Trimmed(s) ==
  LET ss == splits[s]
      last == Len(ss)
  IN  IF sections[s].end # sections[s].limit /\ ss # <<>> /\ ss[last].end > sections[s].end
      THEN [ss EXCEPT ![last].end = sections[s].end]
      ELSE ss

Trim ==
  /\ pc = "trim"
  /\ splits' = [s \in DOMAIN splits |-> Trimmed(s)]
  /\ AtSection(1)
  /\ pc' = "gaps"
  /\ UNCHANGED <<sections, symbols, gaps, fixes, fillers>>

-----------------------------------------------------------------------------
\* Where the common BSS starts: given in the project, else the first common split.
CommonStart(s) ==
  LET common == {i \in DOMAIN splits[s] : splits[s][i].common}
  IN  IF ~sections[s].bss THEN NoCommon
      ELSE IF sections[s].commonAt # NoCommon THEN sections[s].commonAt
      ELSE IF common = {} THEN NoCommon ELSE splits[s][Min(common)].addr

\* update_common_splits: every split from there on is common.
UpdateCommon ==
  /\ pc = "common"
  /\ splits' = [s \in DOMAIN splits |->
       LET start == CommonStart(s)
       IN  [i \in DOMAIN splits[s] |->
              IF start # NoCommon /\ splits[s][i].addr >= start
              THEN [splits[s][i] EXCEPT !.common = TRUE] ELSE splits[s][i]]]
  /\ pc' = "truncate"
  /\ UNCHANGED <<sections, symbols, sect, cur, nth, rename, gaps, fixes, fillers>>

\* (mutant) where the label's own split ends is not looked at.
UpToNextSplit(s, sym) ==
  LET next == FirstAfter(splits[s], sym.addr)
  IN  IF Sized(sym) /\ sym.auto /\ next # 0 /\ splits[s][next].addr < SymbolEnd(sym)
      THEN [sym EXCEPT !.size = splits[s][next].addr - sym.addr] ELSE sym

\* truncate_autogen_symbols_at_splits: a generated label ends with its split.
UpToSplit(s, sym) ==
  IF Sized(sym) /\ sym.auto
  THEN [sym EXCEPT !.size = Boundary(splits[s], sym.addr, SymbolEnd(sym)) - sym.addr]
  ELSE sym

Truncate ==
  /\ pc = "truncate"
  /\ symbols' = [s \in DOMAIN symbols |-> [i \in DOMAIN symbols[s] |-> UpToSplit(s, symbols[s][i])]]
  /\ sect' = 1 /\ nth' = 1 /\ cur' = 0
  /\ pc' = "validate"
  /\ UNCHANGED <<sections, splits, rename, gaps, fixes, fillers>>

-----------------------------------------------------------------------------
\* The last sized symbol that starts in front of an address.
LastSymbol(syms, addr) ==
  Max({0} \cup {i \in DOMAIN syms : syms[i].addr < addr /\ Sized(syms[i])})

EndsBy(syms, addr) ==
  LET i == LastSymbol(syms, addr) IN i # 0 => SymbolEnd(syms[i]) <= addr

\* (mutant) the end of the split before is not looked at.
SplitValidAlone(split) ==
  /\ split.end > 0 /\ split.end >= split.addr
  /\ EndsBy(Syms, split.addr)
  /\ EndsBy(Syms, split.end)

\* (mutant) the symbols in front of the split are not looked at.
SplitValidAtEnd(split) ==
  /\ split.addr >= cur
  /\ split.end > 0 /\ split.end >= split.addr
  /\ EndsBy(Syms, split.end)

SplitValid(split) ==
  /\ split.addr >= cur
  /\ split.end > 0 /\ split.end >= split.addr
  /\ EndsBy(Syms, split.addr)
  /\ EndsBy(Syms, split.end)

AtSplit == sect <= Len(sections) /\ nth <= Len(splits[sect])

ValidateSplit ==
  /\ pc = "validate"
  /\ AtSplit
  /\ SplitValid(NextSplit)
  /\ cur' = NextSplit.end
  /\ nth' = nth + 1
  /\ UNCHANGED <<sections, splits, symbols, sect, rename, gaps, fixes, pc, fillers>>

SplitInvalid ==
  /\ pc = "validate"
  /\ AtSplit
  /\ ~SplitValid(NextSplit)
  /\ pc' = "bail"
  /\ UNCHANGED <<sections, splits, symbols, sect, cur, nth, rename, gaps, fixes, fillers>>

\* (mutant) the loop starts again with the same section.
SplitsAgain ==
  /\ pc \in {"validate", "pad"}
  /\ sect <= Len(sections) /\ nth > Len(splits[sect])
  /\ nth' = 1 /\ cur' = 0
  /\ UNCHANGED <<sections, splits, symbols, sect, rename, gaps, fixes, pc, fillers>>

\* The loop goes on with the next section, of the pass or of the next pass.
SplitsOfNext ==
  /\ pc \in {"validate", "pad"}
  /\ sect <= Len(sections) /\ nth > Len(splits[sect])
  /\ sect' = sect + 1 /\ nth' = 1 /\ cur' = 0
  /\ UNCHANGED <<sections, splits, symbols, rename, gaps, fixes, pc, fillers>>

\* fill_gaps: whether the project wants a symbol for every byte.
Validated ==
  /\ pc = "validate"
  /\ sect > Len(sections)
  /\ sect' = 1 /\ nth' = 1 /\ cur' = 0
  /\ pc' \in {"pad", "done"}
  /\ UNCHANGED <<sections, splits, symbols, rename, gaps, fixes, fillers>>

-----------------------------------------------------------------------------
KindOf(section) == IF section.kind = "code" THEN "function" ELSE "object"

\* A symbol dtk makes up: pad_, gap_ or lbl_ with its address.
Generated(section, prefix, addr, end) ==
  [addr |-> addr, size |-> end - addr, known |-> TRUE, align |-> NoAlign, comdat |-> FALSE,
   locator |-> FALSE, auto |-> TRUE, kind |-> KindOf(section), name |-> prefix]

\* The symbols a split could start with.
Leading(split) ==
  {i \in DOMAIN Syms : Syms[i].addr = split.addr /\ Syms[i].kind = KindOf(Section)}

\* Where the split's first symbol or else the next split starts.
FirstSymbol(split) ==
  LET far == IF nth < Len(splits[sect]) THEN splits[sect][nth + 1].addr ELSE Section.limit
      sized == {i \in InRange(Syms, split.addr + 1, far) : Sized(Syms[i])}
  IN  IF sized = {} THEN far ELSE Syms[Min(sized)].addr

NoPad(split) == Section.table \/ split.addr = split.end

\* The first loop of add_padding_symbols: a split starts with a symbol.
PadSplit ==
  /\ pc = "pad"
  /\ AtSplit
  /\ LET split == NextSplit
         far == FirstSymbol(split)
     IN  \/ /\ NoPad(split) \/ Cardinality(Leading(split)) = 1 \/ far <= split.addr
            /\ UNCHANGED <<symbols, pc>>
         \/ /\ ~NoPad(split) /\ Leading(split) = {} /\ far > split.addr
            /\ symbols' = [symbols EXCEPT ![sect] =
                             AddSymbol(@, Generated(Section, "pad", split.addr, far))]
            /\ UNCHANGED pc
         \/ /\ ~NoPad(split) /\ Cardinality(Leading(split)) > 1
            /\ pc' = "bail"
            /\ UNCHANGED symbols
  /\ nth' = nth + 1
  /\ UNCHANGED <<sections, splits, sect, cur, rename, gaps, fixes, fillers>>

Padded ==
  /\ pc = "pad"
  /\ sect > Len(sections)
  /\ sect' = 1
  /\ pc' = "fill"
  /\ UNCHANGED <<sections, splits, symbols, cur, nth, rename, gaps, fixes, fillers>>

-----------------------------------------------------------------------------
\* The first split marked common, as common_bss_start finds it.
CommonFrom(s) ==
  LET common == {i \in DOMAIN splits[s] : splits[s][i].common}
  IN  IF sections[s].bss /\ common # {} THEN {splits[s][Min(common)].addr} ELSE {}

\* The symbols of the section that have a size, and what comes after one of them:
\* the next one, or the end of the section.
WithSize == {i \in DOMAIN Syms : Sized(Syms[i])}

Follower(i) ==
  LET behind == {j \in WithSize : j > i}
  IN  IF behind = {} THEN [addr |-> Section.limit, align |-> 1]
      ELSE [addr |-> Syms[Min(behind)].addr, align |-> Max({1, Syms[Min(behind)].align})]

\* (mutant) the fill runs on to the next symbol, whatever split it is in.
FillEndPastSplit(i) == Max({SymbolEnd(Syms[i]), Follower(i).addr})

\* The fill behind a symbol ends with its split, and not before the symbol.
FillEnd(i) ==
  Max({SymbolEnd(Syms[i]), Boundary(splits[sect], Syms[i].addr, Follower(i).addr)})

\* (mutant) only the first byte is looked at.
FirstNonZero(from, to) == Section.kind = "data" /\ from \in Section.nonzero

NonZero(from, to) == Section.kind = "data" /\ Section.nonzero \cap (from .. to - 1) # {}

\* What is done about the bytes between a symbol and the next: a label for
\* data, a gap symbol, nothing, or a complaint that they overlap.
Fill(i) ==
  LET from == SymbolEnd(Syms[i])
      to == FillEnd(i)
      start == AlignUp(from, Follower(i).align)
      Filler(what, at) == [what |-> what, sym |-> Generated(Section, what, at, to)]
  IN  IF \E c \in CommonFrom(sect) : Syms[i].addr >= c THEN [what |-> "none"]
      ELSE IF to > from /\ NonZero(from, to) THEN Filler("lbl", from)
      ELSE IF start < to THEN Filler("gap", start)
      ELSE IF start = to THEN [what |-> "none"]
      ELSE IF Syms[i].auto
      THEN [what |-> "truncate", addr |-> Syms[i].addr, size |-> to - Syms[i].addr]
      ELSE [what |-> "overlap"]

Fills == [i \in IF Section.table THEN {} ELSE WithSize |-> Fill(i)]

\* A truncation is of every known symbol at the address, the last one wins.
Shrunk(sym, fills) ==
  LET mine == {i \in DOMAIN fills : fills[i].what = "truncate" /\ fills[i].addr = sym.addr}
  IN  IF mine = {} \/ ~sym.known THEN sym ELSE [sym EXCEPT !.size = fills[Max(mine)].size]

\* The second loop of add_padding_symbols, of a section: what to add and what
\* to truncate is decided first.
FillSection ==
  /\ pc = "fill"
  /\ sect <= Len(sections) /\ DOMAIN fillers = {}
  /\ LET fills == Fills
         added == {i \in DOMAIN fills : fills[i].what \in {"lbl", "gap"}}
     IN  IF \E i \in DOMAIN fills : fills[i].what = "overlap"
         THEN pc' = "bail" /\ UNCHANGED <<sect, symbols, fillers>>
         ELSE /\ symbols' = [symbols EXCEPT ![sect] = [i \in DOMAIN @ |-> Shrunk(@[i], fills)]]
              /\ fillers' = [i \in added |-> fills[i].sym]
              /\ sect' = IF added = {} THEN sect + 1 ELSE sect
              /\ pc' = pc
  /\ UNCHANGED <<sections, splits, cur, nth, rename, gaps, fixes>>

AddFiller ==
  /\ pc = "fill"
  /\ DOMAIN fillers # {}
  /\ LET first == Min(DOMAIN fillers)
     IN  /\ symbols' = [symbols EXCEPT ![sect] = AddSymbol(@, fillers[first])]
         /\ fillers' = [i \in DOMAIN fillers \ {first} |-> fillers[i]]
         /\ sect' = IF DOMAIN fillers = {first} THEN sect + 1 ELSE sect
  /\ UNCHANGED <<sections, splits, cur, nth, rename, gaps, fixes, pc>>

Filled ==
  /\ pc = "fill"
  /\ sect > Len(sections)
  /\ pc' = "filled"
  /\ UNCHANGED <<sections, splits, symbols, sect, cur, nth, rename, gaps, fixes, fillers>>

UStep ==
  \/ Trim \/ (GapStep /\ UNCHANGED fillers) \/ UpdateCommon \/ Truncate
  \/ ValidateSplit \/ SplitInvalid \/ SplitsOfNext \/ Validated
  \/ PadSplit \/ Padded \/ FillSection \/ AddFiller \/ Filled

UDone == pc \in {"done", "filled", "bail"} /\ UNCHANGED allVars

UNext == UStep \/ UDone

USpec == UInit /\ [][UNext]_allVars /\ WF_allVars(UStep)

-----------------------------------------------------------------------------
UTypeOK ==
  /\ sections \in Seq(SectionType)
  /\ splits \in Seq(Seq(SplitType)) /\ Len(splits) = Len(sections)
  /\ symbols \in Seq(Seq(SymbolType)) /\ Len(symbols) = Len(sections)
  /\ sect \in 1..(Len(sections) + 1) /\ cur \in Nat /\ nth \in Nat \ {0}
  /\ rename \in SectionNames
  /\ gaps \in Seq([sect : DOMAIN sections, split : SplitType])
  /\ fixes \in Seq((DOMAIN sections) \X Nat \X Nat)
  /\ DOMAIN fillers \subseteq Nat /\ \A i \in DOMAIN fillers : fillers[i] \in SymbolType
  /\ pc \in {"trim", "gaps", "add", "common", "truncate", "validate", "pad", "fill",
             "done", "filled", "bail"}

\* The splits of a section that split_obj walks, and where each of them begins:
\* behind the last one is the section's end.
Walked(s) == {i \in DOMAIN splits[s] : splits[s][i].addr < sections[s].end}
Begin(s, i) == IF i \in Walked(s) THEN splits[s][i].addr ELSE sections[s].end

\* The alignment the i-th split asks for, and what is behind the last one.
AlignOf(s, i) ==
  IF i \in Walked(s) THEN Alignment(sections[s], symbols[s], splits[s][i]) ELSE sections[s].align

\* Nothing that is aligned could have started in front of an address.
OnlyPadding(from, to, align) == \A addr \in from .. to - 1 : addr % align # 0

HoldsComdat(s, split) ==
  \E sym \in ToSet(symbols[s]) : sym.comdat /\ split.addr <= sym.addr /\ sym.addr < split.end

(***************************************************************************)
(* When update_splits succeeds, split_obj's walk over a section that       *)
(* starts at its alignment succeeds: it finds a split at the section's     *)
(* start, each split begins where the one before ends, but for the padding *)
(* its own alignment asks for, and the last one reaches the section's end  *)
(* in the same way.  A first split that asks for more than the section is  *)
(* aligned to may leave padding in front of it too.  Only a COMDAT may run *)
(* into what the linker generated.  The padding symbols that come after    *)
(* leave the splits alone.                                                 *)
(***************************************************************************)
SectionsTiled ==
  /\ UTypeOK
  /\ pc \in {"pad", "done"} => \A s \in DOMAIN sections :
       sections[s].start < sections[s].end /\ sections[s].start % sections[s].align = 0 =>
         /\ 1 \in Walked(s)
         /\ sections[s].start <= Begin(s, 1)
         /\ OnlyPadding(sections[s].start, Begin(s, 1), AlignOf(s, 1))
         /\ \A i \in Walked(s) :
              LET split == splits[s][i]
              IN  /\ split.end <= sections[s].end \/ HoldsComdat(s, split)
                  /\ OnlyPadding(split.end, Begin(s, i + 1), AlignOf(s, i + 1))

(***************************************************************************)
(* validate_splits: "Ensure splits don't overlap ... each other".  When    *)
(* update_splits succeeds, no two splits of a section share a byte,        *)
(* adjacent or not.                                                        *)
(***************************************************************************)
SplitsDisjoint ==
  pc \in {"pad", "fill", "done", "filled"} =>
    \A s \in DOMAIN sections : \A i, j \in DOMAIN splits[s] :
      i < j => splits[s][i].end <= splits[s][j].addr

\* The symbols that start in a gap.
Within(g) == InRange(symbols[g.sect], g.split.addr, g.split.end)

\* Where the sub-regions of a section start and end, and where it ends itself.
Edges(s) == {sections[s].end} \cup UNION {{r.start, r.end} : r \in ToSet(sections[s].regions)}

\* A COMDAT's bytes start with the locator in front of a vftable.
StartOf(sym) == IF sym.locator THEN sym.addr - 4 ELSE sym.addr

\* The gap is made of bytes of one COMDAT.
OfComdat(g) ==
  \E i \in Within(g) :
    LET sym == symbols[g.sect][i]
    IN  sym.comdat /\ StartOf(sym) <= g.split.addr /\ g.split.end <= SymbolEnd(sym)

(***************************************************************************)
(* "Isolate comdat-flagged symbols into their own auto unit so write_coff  *)
(* can emit them as a standalone COMDAT section, without pulling in the    *)
(* rest of the gap": a gap in which a COMDAT starts holds the bytes of one *)
(* COMDAT only.                                                            *)
(***************************************************************************)
ComdatsAlone ==
  \A g \in ToSet(gaps) : (\E i \in Within(g) : symbols[g.sect][i].comdat) => OfComdat(g)

(***************************************************************************)
(* A vftable's locator "goes to B's unit with B": the gap that has the     *)
(* locator of a COMDAT's vftable is the one that has the vftable, unless   *)
(* another symbol or a split of the user starts in between, or the gap of  *)
(* the locator runs over the edge of a sub-region in front of the vftable. *)
(* A guessed size may do that, and is then not cut at the locator.         *)
(***************************************************************************)
LocatorsKept ==
  \A g, h \in ToSet(gaps) : g.sect = h.sect => \A i \in Within(g) :
    LET sym == symbols[g.sect][i]
        locator == sym.addr - 4
    IN  /\ sym.comdat /\ sym.locator
        /\ InRange(symbols[g.sect], locator, sym.addr + 1) = {i}
        /\ \A split \in ToSet(splits[g.sect]) : split.addr \notin locator + 1 .. sym.addr
        /\ Edges(g.sect) \cap (h.split.addr + 1 .. sym.addr) = {}
        /\ h.split.addr <= locator /\ locator < h.split.end
        => g = h

(***************************************************************************)
(* A gap outside a COMDAT has one symbol of a name, and no symbol in it    *)
(* asks for an alignment that the gap's start has not.                     *)
(***************************************************************************)
OneObjectFile ==
  \A g \in ToSet(gaps) : OfComdat(g) \/
    \A i \in Within(g) :
      LET sym == symbols[g.sect][i]
      IN  /\ \A k \in Within(g) : sym.name = symbols[g.sect][k].name => i = k
          /\ sym.align # NoAlign => g.split.addr % sym.align = 0

(***************************************************************************)
(* "Break auto-fill at sub-region boundaries so the .rdata$r and .xdata$x  *)
(* slices each get their own auto unit": a gap crosses a boundary of a     *)
(* sub-region, or the section's end, only with the bytes of a COMDAT.      *)
(***************************************************************************)
RegionsApart ==
  \A g \in ToSet(gaps) : \A edge \in Edges(g.sect) :
    g.split.addr < edge /\ edge < g.split.end => OfComdat(g)

(***************************************************************************)
(* "`comdat` symbols whose size ran over the next vftable's locator,       *)
(* shrunk to end at it": a symbol is only shrunk to end where the gap it   *)
(* is in does, and only a COMDAT is.                                       *)
(***************************************************************************)
SizesCut ==
  \A f \in ToSet(fixes) : \E g \in ToSet(gaps) :
    /\ g.sect = f[1] /\ f[2] \in Within(g)
    /\ symbols[f[1]][f[2]].comdat
    /\ symbols[f[1]][f[2]].addr + f[3] = g.split.end

(***************************************************************************)
(* While create_gap_splits collects them, and so when it adds them, the    *)
(* gaps between the splits are cut where an object file needs it: at       *)
(* COMDATs and at sub-regions, at a second symbol of a name, and never     *)
(* between a vftable and its locator.                                      *)
(***************************************************************************)
GapsWellCut ==
  pc = "gaps" => ComdatsAlone /\ LocatorsKept /\ OneObjectFile /\ RegionsApart /\ SizesCut

\* An address lies inside a symbol, not at its start.
Inside(addr, sym) == sym.addr < addr /\ addr < SymbolEnd(sym)

Starts(s) == {split.addr : split \in ToSet(splits[s])}
Ends(s) == {split.end : split \in ToSet(splits[s])}

(***************************************************************************)
(* Whatever size an earlier run gave them, generated labels do not cross   *)
(* a boundary of a split: a label "must not cross a translation-unit       *)
(* (split) boundary".                                                      *)
(***************************************************************************)
LabelsInSplits ==
  pc = "done" => \A s \in DOMAIN sections : \A sym \in ToSet(symbols[s]) :
    sym.auto /\ Sized(sym) => \A addr \in Starts(s) \cup Ends(s) : ~Inside(addr, sym)

(***************************************************************************)
(* That is so when symbols for padding were added too.  But a pad_ symbol  *)
(* may run over the end of its split, into the padding in front of the     *)
(* next one.                                                               *)
(***************************************************************************)
FillersInSplits ==
  pc = "filled" => \A s \in DOMAIN sections : \A sym \in ToSet(symbols[s]) :
    sym.auto /\ Sized(sym) =>
      /\ \A addr \in Starts(s) : ~Inside(addr, sym)
      /\ sym.name # "pad" => \A addr \in Ends(s) : ~Inside(addr, sym)

\* Sized symbols of a section do not reach into each other, unless they are one place.
Unnested(s) ==
  \A a, b \in {sym \in ToSet(symbols[s]) : Sized(sym)} :
    \/ SymbolEnd(a) <= b.addr \/ SymbolEnd(b) <= a.addr
    \/ a.addr = b.addr /\ a.size = b.size

(***************************************************************************)
(* "Ensure splits don't overlap symbols": no boundary of a split, the      *)
(* user's or a generated one, lies inside a symbol, though only one symbol *)
(* in front of each boundary is looked at.  Symbols may not be nested:     *)
(* behind a second symbol inside a longer one the boundary would pass.     *)
(***************************************************************************)
SymbolsInSplits ==
  pc = "done" => \A s \in DOMAIN sections :
    Unnested(s) => \A sym \in ToSet(symbols[s]) :
      Sized(sym) => \A addr \in Starts(s) \cup Ends(s) : ~Inside(addr, sym)

(***************************************************************************)
(* What validate_splits promises: splits overlap neither symbols nor each  *)
(* other, with the labels truncated before.                                *)
(***************************************************************************)
SplitsSound == SplitsDisjoint /\ LabelsInSplits /\ SymbolsInSplits

(***************************************************************************)
(* Padding symbols leave no data without a symbol: in a split whose first  *)
(* symbol, if it has one, has a size, every byte that is not zero is part  *)
(* of a symbol.                                                            *)
(***************************************************************************)
DataHasSymbol ==
  pc = "filled" => \A s \in DOMAIN sections : ~sections[s].table =>
    \A split \in ToSet(splits[s]) :
      ~split.common
      /\ (\A i \in DOMAIN symbols[s] : symbols[s][i].addr = split.addr => Sized(symbols[s][i])) =>
      \A byte \in sections[s].nonzero \cap (split.addr .. split.end - 1) :
        \E sym \in ToSet(symbols[s]) : Sized(sym) /\ sym.addr <= byte /\ byte < SymbolEnd(sym)

(***************************************************************************)
(* The symbols of add_padding_symbols fit the splits: they stay in theirs, *)
(* and leave no data of a split without a symbol.                          *)
(***************************************************************************)
FillersFitSplits == FillersInSplits /\ DataHasSymbol

\* Every pass ends: update_splits returns.
SplitsUpdated == <>(pc \in {"done", "filled", "bail"})
=============================================================================
