----------------------------- MODULE GapSplits ------------------------------
(***************************************************************************)
(* create_gap_splits of src/src/util/split.rs: every part of a section     *)
(* that no split of the user covers gets autogenerated splits, cut where   *)
(* a sub-region, a COMDAT, a second symbol of the same name or a stricter  *)
(* alignment begins.                                                       *)
(*                                                                         *)
(* A gap's unit is named after its address, so units are left out of the   *)
(* model: two gaps never share one.                                        *)
(*                                                                         *)
(* A section (src/src/obj/splits.rs, src/src/obj/symbols.rs) has a range   *)
(* start..limit, an end in front of the objects the linker generated       *)
(* (end_for_section), the alignment of its splits, its logical sub-regions *)
(* and the addresses of its bytes that are not zero.  The splits of a      *)
(* section are a sequence in the order of the BTreeMap, by address and     *)
(* then by end; its symbols, those not stripped, are a sequence in the     *)
(* order of symbols_by_section, by address and then by index.  An          *)
(* alignment of 0 stands for None.                                         *)
(***************************************************************************)
EXTENDS Integers, Sequences, SequencesExt

CONSTANTS
  SectionNames,    \* the names a section or a sub-region is given
  SymbolNames,     \* the names of symbols
  Objects          \* the objects update_splits may be called with

NoAlign == 0
NoCommon == -1
NoName == "none"

\* A split or a gap that is not renamed has the name None.
ASSUME NameAssumption == NoName \in SectionNames

SplitType ==
  [addr : Nat, end : Nat, align : Nat, common : BOOLEAN, auto : BOOLEAN, rename : SectionNames]

SymbolType ==
  [addr : Nat, size : Nat, known : BOOLEAN, align : Nat, name : SymbolNames, comdat : BOOLEAN,
   locator : BOOLEAN, auto : BOOLEAN, kind : {"function", "object"}]

SectionType ==
  [start : Nat, end : Nat, limit : Nat, align : Nat \ {0}, kind : {"code", "data", "bss"},
   regions : Seq([start : Nat, end : Nat, name : SectionNames]), nonzero : SUBSET Nat,
   table : BOOLEAN, bss : BOOLEAN, commonAt : Nat \cup {NoCommon}]

\* (mutant) an aligned address is rounded up too.
AlignPast(addr, align) == (addr \div align + 1) * align

AlignUp(addr, align) == ((addr + align - 1) \div align) * align

SymbolEnd(sym) == sym.addr + sym.size

Sized(sym) == sym.known /\ sym.size > 0

\* for_section_range: the indices of the symbols that start in lo..hi.
InRange(syms, lo, hi) == {i \in DOMAIN syms : lo <= syms[i].addr /\ syms[i].addr < hi}

\* ObjSplit::alignment.
Alignment(section, syms, split) ==
  LET aligns == {syms[i].align : i \in {j \in InRange(syms, split.addr, split.end) : Sized(syms[j])}}
  IN  IF split.align # NoAlign THEN split.align
      ELSE Max(aligns \cup {section.align})

\* A sequence with an element put in behind its k-th.
PutBehind(seq, k, x) == SubSeq(seq, 1, k) \o <<x>> \o SubSeq(seq, k + 1, Len(seq))

\* ObjSplits::push.
Push(ss, split) ==
  LET before == {i \in DOMAIN ss : \/ ss[i].addr < split.addr
                                   \/ ss[i].addr = split.addr /\ ss[i].end <= split.end}
  IN  PutBehind(ss, Max({0} \cup before), split)

\* ObjSymbols::add_direct: the new symbol is the last of those at its address.
AddSymbol(syms, sym) ==
  PutBehind(syms, Max({0} \cup {i \in DOMAIN syms : syms[i].addr <= sym.addr}), sym)

(***************************************************************************)
(* for_range(..= addr).next_back() and for_range(addr + 1 ..).next(): the  *)
(* last split that does not start behind an address, and the first that    *)
(* does; 0 when there is none.                                             *)
(***************************************************************************)
LastAt(ss, addr) == Max({0} \cup {i \in DOMAIN ss : ss[i].addr <= addr})

FirstAfter(ss, addr) ==
  LET behind == {i \in DOMAIN ss : ss[i].addr > addr}
  IN  IF behind = {} THEN 0 ELSE Min(behind)

\* The first boundary of a split behind an address, no further than far.
Boundary(ss, addr, far) ==
  LET at == LastAt(ss, addr)
      next == FirstAfter(ss, addr)
      ends == {ss[i].end : i \in {at} \ {0}}
  IN  Min({far} \cup {e \in ends : e > addr} \cup {ss[i].addr : i \in {next} \ {0}})

-----------------------------------------------------------------------------

\* Splits or symbols in the order of their addresses, as a BTreeMap keeps them.
InOrder(seq) == \A i, j \in DOMAIN seq : i < j => seq[i].addr <= seq[j].addr

\* An object has sections, each with its splits and its symbols.  No split ends
\* behind its section: add_split refuses it.  The files and the loaders give no split
\* an end in front of its start, but for the end 0 of one that ends with the next, and
\* apply_splits_file refuses a sub-region that does not end behind its start.
ASSUME ObjectAssumption ==
  \A o \in Objects :
    /\ o.sections \in Seq(SectionType) /\ o.sections # <<>>
    /\ o.splits \in Seq(Seq(SplitType)) /\ Len(o.splits) = Len(o.sections)
    /\ o.symbols \in Seq(Seq(SymbolType)) /\ Len(o.symbols) = Len(o.sections)
    /\ \A s \in DOMAIN o.sections :
         /\ InOrder(o.splits[s]) /\ InOrder(o.symbols[s])
         /\ \A i \in DOMAIN o.splits[s] :
              /\ o.splits[s][i].end <= o.sections[s].limit
              /\ o.splits[s][i].end = 0 \/ o.splits[s][i].end >= o.splits[s][i].addr
         /\ \A region \in ToSet(o.sections[s].regions) : region.start < region.end

VARIABLES
  sections,   \* the sections of the object, which no step changes
  splits,     \* the splits of each section
  symbols,    \* the symbols of each section
  sect,       \* the section of the loop
  cur,        \* current_address: where the part not looked at begins
  nth,        \* the user's split file_iter is at
  rename,     \* prev_rename: the rename of the split before
  gaps,       \* new_splits, in the order of their addresses
  fixes,      \* size_fixes
  pc          \* the pass that runs

gapVars == <<sections, splits, symbols, sect, cur, nth, rename, gaps, fixes, pc>>

Section == sections[sect]
Syms == symbols[sect]

-----------------------------------------------------------------------------
\* What file_iter.peek() says: where the next split of the user starts, and
\* the alignment it asks for; the end of the section when there is none.
HasNext == nth <= Len(splits[sect]) /\ splits[sect][nth].addr < Section.end
NextSplit == splits[sect][nth]
NextStart == IF HasNext THEN NextSplit.addr ELSE Section.end
NextAlign == IF HasNext THEN Alignment(Section, Syms, NextSplit) ELSE Section.align

\* (mutant) a sub-region does not end the gap.
LimitOfSplit == NextStart

\* The gap ends with the sub-region it starts in, or where the next one starts.
Limit ==
  LET regions == ToSet(Section.regions)
  IN  Min({NextStart}
            \cup {r.start : r \in {q \in regions : cur < q.start}}
            \cup {r.end : r \in {q \in regions : q.start <= cur /\ cur < q.end}})

\* comdat_start, no further back than the gap.
ComdatStart(sym) == Max({cur, IF sym.locator THEN sym.addr - 4 ELSE sym.addr})

\* The locators of vftables a size guessed up to the next vftable takes in.
LocatorsIn(sym, limit) ==
  {i \in InRange(Syms, sym.addr + 5, Min({SymbolEnd(sym) + 4, limit})) : Syms[i].locator}

\* (mutant) the guessed size is taken as it is.
GuessedEnd(sym, limit) == SymbolEnd(sym)

ComdatEnd(sym, limit) ==
  LET inside == LocatorsIn(sym, limit)
  IN  IF inside = {} THEN SymbolEnd(sym) ELSE Syms[Min(inside)].addr - 4

SecondOfName(i, range) == \E j \in range : j < i /\ Syms[j].name = Syms[i].name
Misaligned(i) == Syms[i].align # NoAlign /\ cur % Syms[i].align # 0

\* (mutant) a COMDAT is not cut out of the gap.
CutNoComdat(range) ==
  LET cuts == {i \in range : SecondOfName(i, range) \/ Misaligned(i)}
  IN  IF cuts = {} THEN 0 ELSE Min(cuts)

\* (mutant) a second symbol of the same name does not end the gap.
CutNoDuplicate(range) ==
  LET cuts == {i \in range : Syms[i].comdat \/ Misaligned(i)}
  IN  IF cuts = {} THEN 0 ELSE Min(cuts)

\* The first symbol of a range the gap is cut at, 0 when there is none.
Cut(range) ==
  LET cuts == {i \in range : Syms[i].comdat \/ SecondOfName(i, range) \/ Misaligned(i)}
  IN  IF cuts = {} THEN 0 ELSE Min(cuts)

Leads(i) == i # 0 /\ Syms[i].comdat /\ ComdatStart(Syms[i]) = cur

GapEnd(i, limit) ==
  IF i = 0 THEN limit
  ELSE IF Leads(i) THEN ComdatEnd(Syms[i], limit)
  ELSE IF Syms[i].comdat THEN ComdatStart(Syms[i])
  ELSE Syms[i].addr

\* What is reported to the user: a COMDAT of unknown size, two symbols of one
\* name with no aligned address between them, or a gap that would be empty.
GapFails(i, range, limit) ==
  \/ Leads(i) /\ ~Syms[i].known
  \/ i # 0 /\ ~Syms[i].comdat /\ SecondOfName(i, range) /\ Syms[i].addr % 4 # 0
  \/ GapEnd(i, limit) <= cur

\* An explicit sub-region names the section of the gap, else the split before.
GapRename ==
  LET at == {r \in DOMAIN Section.regions :
               Section.regions[r].start <= cur /\ cur < Section.regions[r].end}
  IN  IF at = {} THEN rename ELSE Section.regions[Min(at)].name

-----------------------------------------------------------------------------
\* Where the loop of a section starts.
AtSection(s) ==
  /\ sect' = s
  /\ cur' = sections[s].start
  /\ nth' = 1
  /\ rename' = NoName

InSection == pc = "gaps" /\ sect <= Len(sections) /\ cur < Section.end

Gap == NextStart > AlignUp(cur, NextAlign)

\* "Split ... overlaps with previous split"
GapOverlap ==
  /\ InSection
  /\ NextStart < cur
  /\ pc' = "bail"
  /\ UNCHANGED <<sections, splits, symbols, sect, cur, nth, rename, gaps, fixes>>

GapError ==
  /\ InSection
  /\ NextStart >= cur
  /\ Gap
  /\ LET limit == Limit
         range == InRange(Syms, cur, limit)
     IN  GapFails(Cut(range), range, limit)
  /\ pc' = "bail"
  /\ UNCHANGED <<sections, splits, symbols, sect, cur, nth, rename, gaps, fixes>>

MakeGap ==
  /\ InSection
  /\ NextStart >= cur
  /\ Gap
  /\ LET limit == Limit
         range == InRange(Syms, cur, limit)
         cut == Cut(range)
         end == GapEnd(cut, limit)
     IN  /\ ~GapFails(cut, range, limit)
         /\ gaps' = Append(gaps, [sect |-> sect,
                                  split |-> [addr |-> cur, end |-> end, align |-> NoAlign,
                                             common |-> FALSE, auto |-> TRUE, rename |-> GapRename]])
         /\ cur' = end
         /\ fixes' = IF Leads(cut) /\ end < SymbolEnd(Syms[cut])
                     THEN Append(fixes, <<sect, cut, end - Syms[cut].addr>>)
                     ELSE fixes
  /\ UNCHANGED <<sections, splits, symbols, sect, nth, rename, pc>>

\* The next split of the user, or the alignment padding at the end of the section.
TakeSplit ==
  /\ InSection
  /\ NextStart >= cur
  /\ ~Gap
  /\ IF HasNext
     THEN LET more == nth < Len(splits[sect])
          IN  /\ nth' = nth + 1
              /\ rename' = NextSplit.rename
              /\ cur' = IF NextSplit.end > 0 THEN NextSplit.end
                        ELSE IF more THEN Min({splits[sect][nth + 1].addr, Section.end})
                        ELSE Section.end
     ELSE cur' = Section.end /\ UNCHANGED <<nth, rename>>
  /\ UNCHANGED <<sections, splits, symbols, sect, gaps, fixes, pc>>

NextSection ==
  /\ pc = "gaps"
  /\ sect <= Len(sections)
  /\ cur >= Section.end
  /\ IF sect < Len(sections)
     THEN AtSection(sect + 1) /\ pc' = pc
     ELSE pc' = "add" /\ UNCHANGED <<sect, cur, nth, rename>>
  /\ UNCHANGED <<sections, splits, symbols, gaps, fixes>>

\* add_split refuses a split outside its section.
AddGap ==
  /\ pc = "add"
  /\ gaps # <<>>
  /\ LET g == Head(gaps)
     IN  IF g.split.end <= sections[g.sect].limit
         THEN /\ splits' = [splits EXCEPT ![g.sect] = Push(@, g.split)]
              /\ gaps' = Tail(gaps)
              /\ pc' = pc
         ELSE pc' = "bail" /\ UNCHANGED <<splits, gaps>>
  /\ UNCHANGED <<sections, symbols, sect, cur, nth, rename, fixes>>

\* The symbols whose size ran over a locator are shrunk to end at it.
FixSizes ==
  /\ pc = "add"
  /\ gaps = <<>>
  /\ symbols' = [s \in DOMAIN symbols |-> [i \in DOMAIN symbols[s] |->
       LET mine == {f \in ToSet(fixes) : f[1] = s /\ f[2] = i}
       IN  IF mine = {} THEN symbols[s][i]
           ELSE [symbols[s][i] EXCEPT !.size = Min({f[3] : f \in mine})]]]
  /\ fixes' = <<>>
  /\ pc' = "common"
  /\ UNCHANGED <<sections, splits, sect, cur, nth, rename, gaps>>

GapStep ==
  GapOverlap \/ GapError \/ MakeGap \/ TakeSplit \/ NextSection \/ AddGap \/ FixSizes
=============================================================================
