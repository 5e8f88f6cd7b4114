------------------------- MODULE UpdateSplitsProofs -------------------------
(***************************************************************************)
(* When update_splits succeeds no two splits of a section share a byte, no *)
(* boundary cuts a symbol, and the sections are split without a gap; and   *)
(* the gaps it fills are cut where an object file needs it: for every      *)
(* object.                                                                 *)
(*                                                                         *)
(* validate_splits compares a split with the one before only.  The         *)
(* invariant of its loop is that the splits looked at are pairwise         *)
(* disjoint and all end by cur: a split is no longer than its end is       *)
(* behind its start, so the last end is the furthest.                      *)
(*                                                                         *)
(* The tiling (TileInv) is that of the splits and the gaps not yet added,  *)
(* up to where the loop over the gaps is.  That a split is not reversed is *)
(* only found by the validation, so it is a hypothesis until then.  The    *)
(* symbols (SoundInv) are looked at one per boundary, the last that has a  *)
(* size; when they do not nest no other one can reach over it.             *)
(*                                                                         *)
(* A gap is cut at the first symbol that asks for it, so it has none in    *)
(* front of that.  That the gaps and the splits taken are in the order of  *)
(* their addresses (CutInv) makes the gap with a vftable the one that has  *)
(* its locator.                                                            *)
(***************************************************************************)
EXTENDS UpdateSplits, Extrema, SequenceTheorems

GapType == [sect : DOMAIN sections, split : SplitType]

\* The object keeps its shape; its symbols are only looked at, and shrunk,
\* while the gaps are made.
Shape ==
  /\ sections \in Seq(SectionType) /\ sections # <<>>
  /\ splits \in Seq(Seq(SplitType)) /\ Len(splits) = Len(sections)
  /\ sect \in Nat \ {0} /\ cur \in Nat /\ nth \in Nat \ {0}
  /\ rename \in SectionNames
  /\ gaps \in Seq(GapType)
  /\ pc \in {"trim", "gaps"} => symbols \in Seq(Seq(SymbolType)) /\ Len(symbols) = Len(sections)
  /\ pc = "gaps" => sect <= Len(sections)

DisjointUpTo(ss, n) ==
  \A i, j \in DOMAIN ss : i < j /\ j < n => ss[i].end <= ss[j].addr

\* The loop of validate_splits: the sections it is done with, and the splits
\* of the one it is at.
Checked ==
  pc = "validate" =>
    /\ \A s \in DOMAIN sections : s < sect => DisjointUpTo(splits[s], Len(splits[s]) + 1)
    /\ sect <= Len(sections) =>
         /\ nth <= Len(splits[sect]) + 1
         /\ DisjointUpTo(splits[sect], nth)
         /\ \A i \in DOMAIN splits[sect] : i < nth => splits[sect][i].end <= cur

UInv == Shape /\ Checked /\ SplitsDisjoint

-----------------------------------------------------------------------------
LEMMA ElementType ==
  ASSUME NEW S, NEW seq \in Seq(S), NEW i \in DOMAIN seq
  PROVE  seq[i] \in S
OBVIOUS

LEMMA SplitNumbers ==
  ASSUME NEW ss \in Seq(SplitType), NEW i \in DOMAIN ss
  PROVE  ss[i].addr \in Nat /\ ss[i].end \in Nat
<1>1. ss[i] \in SplitType
  BY ElementType
<1> QED BY <1>1 DEF SplitType

LEMMA SymbolNumbers ==
  ASSUME NEW syms \in Seq(SymbolType), NEW i \in DOMAIN syms
  PROVE  syms[i].addr \in Nat /\ syms[i].size \in Nat /\ SymbolEnd(syms[i]) \in Nat
<1>1. syms[i] \in SymbolType
  BY ElementType
<1> QED BY <1>1 DEF SymbolType, SymbolEnd

\* The numbers of all the splits of a section, and of the section itself.
LEMMA AllSplitNumbers ==
  ASSUME NEW ss \in Seq(SplitType)
  PROVE  /\ DOMAIN ss = 1..Len(ss) /\ Len(ss) \in Nat
         /\ \A k \in DOMAIN ss : ss[k] \in SplitType /\ ss[k].addr \in Nat /\ ss[k].end \in Nat
<1>1. DOMAIN ss = 1..Len(ss) /\ Len(ss) \in Nat
  OBVIOUS
<1> QED BY <1>1, ElementType, SplitNumbers

LEMMA SectionNumbers ==
  ASSUME NEW sec \in SectionType
  PROVE  sec.start \in Nat /\ sec.end \in Nat /\ sec.limit \in Nat
BY DEF SectionType

LEMMA NoNameType ==
  NoName \in SectionNames
BY NameAssumption

\* A value for every position of a sequence is a sequence.
LEMMA PerPosition ==
  ASSUME NEW S, NEW T, NEW seq \in Seq(S), NEW f,
         f = [i \in DOMAIN seq |-> f[i]], \A i \in DOMAIN seq : f[i] \in T
  PROVE  f \in Seq(T) /\ Len(f) = Len(seq)
OBVIOUS

\* Putting an element into a sequence gives a sequence.
LEMMA PutBehindType ==
  ASSUME NEW S, NEW seq \in Seq(S), NEW k \in 0..Len(seq), NEW x \in S
  PROVE  PutBehind(seq, k, x) \in Seq(S)
<1>1. SubSeq(seq, 1, k) \in Seq(S) /\ SubSeq(seq, k + 1, Len(seq)) \in Seq(S)
  OBVIOUS
<1>2. <<x>> \in Seq(S)
  OBVIOUS
<1> QED
  BY <1>1, <1>2 DEF PutBehind

LEMMA PushType ==
  ASSUME NEW ss \in Seq(SplitType), NEW split \in SplitType
  PROVE  Push(ss, split) \in Seq(SplitType)
<1> DEFINE before == {i \in DOMAIN ss : \/ ss[i].addr < split.addr
                                        \/ ss[i].addr = split.addr /\ ss[i].end <= split.end}
<1>1. Len(ss) \in Nat /\ {0} \cup before \subseteq 0..Len(ss) /\ {0} \cup before # {}
  OBVIOUS
<1>2. Max({0} \cup before) \in 0..Len(ss)
  BY <1>1, MaxOfBounded
<1> QED
  BY <1>2, PutBehindType DEF Push

\* Rounding up to a multiple.
LEMMA Rounded ==
  ASSUME NEW e \in Nat, NEW n \in Nat \ {0}
  PROVE  AlignUp(e, n) \in Nat /\ AlignUp(e, n) >= e
<1> DEFINE a == e + n - 1
           q == a \div n
<1>1. a \in Nat
  OBVIOUS
<1> HIDE DEF a
<1>2. q \in Nat /\ n * q <= a /\ a < n * q + n
  BY <1>1
<1>3. AlignUp(e, n) = q * n
  BY DEF AlignUp, a
<1> HIDE DEF q
<1>4. q * n = n * q /\ n * q \in Nat
  BY <1>2
<1> QED BY <1>2, <1>3, <1>4 DEF a

\* No address from one up to where it is rounded is aligned.
LEMMA RoundedPads ==
  ASSUME NEW e \in Nat, NEW n \in Nat \ {0}, NEW x \in Nat, e <= x, x < AlignUp(e, n)
  PROVE  x % n # 0
<1> DEFINE a == e + n - 1
           q == a \div n
           k == x \div n
<1>1. a \in Nat
  OBVIOUS
<1> HIDE DEF a
<1>2. q \in Nat /\ n * q <= a
  BY <1>1
<1>3. k \in Nat /\ x = n * k + (x % n)
  OBVIOUS
<1>4. x < q * n
  BY DEF AlignUp, a
<1> HIDE DEF q, k
<1> SUFFICES ASSUME x % n = 0 PROVE FALSE
  OBVIOUS
<1>5. x = n * k
  BY <1>3
<1>6. CASE k >= q
  <2>1. n * k >= n * q /\ n * q = q * n
    BY <1>2, <1>3, <1>6
  <2>2. n * q \in Nat /\ n * k \in Nat
    BY <1>2, <1>3
  <2> QED BY <1>4, <1>5, <2>1, <2>2
<1>7. CASE k < q
  <2>1. n * k <= n * (q - 1)
    BY <1>2, <1>3, <1>7
  <2>2. n * (q - 1) = n * q - n
    BY <1>2
  <2>3. n * q \in Nat /\ n * k \in Nat
    BY <1>2, <1>3
  <2> QED BY <1>2, <1>5, <2>1, <2>2, <2>3 DEF a
<1> QED BY <1>2, <1>3, <1>6, <1>7

\* A gap is cut at a symbol of its range.
LEMMA CutType ==
  ASSUME NEW range, range \subseteq DOMAIN Syms, Syms \in Seq(SymbolType)
  PROVE  Cut(range) \in {0} \cup range
<1> DEFINE cuts == {i \in range : Syms[i].comdat \/ SecondOfName(i, range) \/ Misaligned(i)}
<1>1. CASE cuts = {}
  BY <1>1 DEF Cut
<1>2. CASE cuts # {}
  <2>1. cuts \subseteq Nat
    OBVIOUS
  <2>2. Min(cuts) \in cuts
    BY <1>2, <2>1, MinOfNaturals
  <2> QED
    BY <1>2, <2>2 DEF Cut
<1> QED
  BY <1>1, <1>2

LEMMA LimitType ==
  ASSUME Section \in SectionType, NextStart \in Nat, cur \in Nat
  PROVE  Limit \in Nat /\ Limit <= NextStart
<1> DEFINE regions == ToSet(Section.regions)
           T == {NextStart}
                  \cup {r.start : r \in {q \in regions : cur < q.start}}
                  \cup {r.end : r \in {q \in regions : q.start <= cur /\ cur < q.end}}
<1>1. \A r \in regions : r.start \in Nat /\ r.end \in Nat
  <2>1. Section.regions \in Seq([start : Nat, end : Nat, name : SectionNames])
    BY DEF SectionType
  <2>2. regions = {Section.regions[i] : i \in DOMAIN Section.regions}
    BY DEF ToSet
  <2> TAKE r \in regions
  <2>3. PICK i \in DOMAIN Section.regions : r = Section.regions[i]
    BY <2>2
  <2>4. r \in [start : Nat, end : Nat, name : SectionNames]
    BY <2>1, <2>3, ElementType
  <2> QED
    BY <2>4
<1>2. T \subseteq Nat /\ T # {}
  BY <1>1
<1>3. NextStart \in T
  OBVIOUS
<1> HIDE DEF T
<1>4. Min(T) \in T /\ Min(T) <= NextStart
  BY <1>2, <1>3, MinOfNaturals
<1>5. Limit = Min(T)
  BY DEF Limit, T
<1> QED
  BY <1>2, <1>4, <1>5

LEMMA ComdatEndType ==
  ASSUME Syms \in Seq(SymbolType), NEW i \in DOMAIN Syms, NEW limit
  PROVE  ComdatEnd(Syms[i], limit) \in Int
<1> DEFINE inside == LocatorsIn(Syms[i], limit)
<1>1. Syms[i] \in SymbolType
  OBVIOUS
<1>2. CASE inside = {}
  BY <1>1, <1>2 DEF ComdatEnd, SymbolEnd, SymbolType
<1>3. CASE inside # {}
  <2>1. inside \subseteq DOMAIN Syms
    BY DEF LocatorsIn, InRange
  <2>2. Min(inside) \in DOMAIN Syms
    BY <1>3, <2>1, MinOfNaturals
  <2>3. Syms[Min(inside)] \in SymbolType
    BY <2>2
  <2>4. Syms[Min(inside)].addr \in Nat
    BY <2>3 DEF SymbolType
  <2>5. ComdatEnd(Syms[i], limit) = Syms[Min(inside)].addr - 4
    BY <1>3 DEF ComdatEnd
  <2> QED
    BY <2>4, <2>5
<1> QED
  BY <1>2, <1>3

LEMMA RenameType ==
  ASSUME Section \in SectionType, rename \in SectionNames
  PROVE  GapRename \in SectionNames
<1> DEFINE at == {r \in DOMAIN Section.regions :
                    Section.regions[r].start <= cur /\ cur < Section.regions[r].end}
<1>1. Section.regions \in Seq([start : Nat, end : Nat, name : SectionNames])
  BY DEF SectionType
<1>2. CASE at = {}
  BY <1>2 DEF GapRename
<1>3. CASE at # {}
  <2>1. at \subseteq Nat
    BY <1>1
  <2>2. Min(at) \in at
    BY <1>3, <2>1, MinOfNaturals
  <2>3. Section.regions[Min(at)] \in [start : Nat, end : Nat, name : SectionNames]
    BY <1>1, <2>2, ElementType
  <2>4. Section.regions[Min(at)].name \in SectionNames
    BY <2>3
  <2>5. GapRename = Section.regions[Min(at)].name
    BY <1>3 DEF GapRename
  <2> QED
    BY <2>4, <2>5
<1> QED
  BY <1>2, <1>3

\* A gap that is made ends behind its start.
LEMMA GapEndType ==
  ASSUME Syms \in Seq(SymbolType), cur \in Nat,
         NEW limit \in Nat, NEW range, NEW cut \in {0} \cup DOMAIN Syms,
         ~GapFails(cut, range, limit)
  PROVE  GapEnd(cut, limit) \in Nat
<1>1. ~(GapEnd(cut, limit) <= cur)
  BY DEF GapFails
<1>2. GapEnd(cut, limit) \in Int
  <2>1. CASE cut = 0
    BY <2>1 DEF GapEnd
  <2>2. CASE cut # 0
    <3>1. cut \in DOMAIN Syms /\ Syms[cut] \in SymbolType
      BY <2>2
    <3>2. CASE Leads(cut)
      BY <2>2, <3>1, <3>2, ComdatEndType DEF GapEnd
    <3>3. CASE ~Leads(cut) /\ Syms[cut].comdat
      <4> DEFINE start == IF Syms[cut].locator THEN Syms[cut].addr - 4 ELSE Syms[cut].addr
      <4>1. start \in Int
        BY <3>1 DEF SymbolType
      <4>2. \E x \in {cur, start} : \A y \in {cur, start} : x >= y
        BY <4>1
      <4>3. Max({cur, start}) \in {cur, start}
        BY <4>2 DEF Max
      <4>4. ComdatStart(Syms[cut]) \in Int
        BY <4>1, <4>3 DEF ComdatStart
      <4> QED
        BY <2>2, <3>3, <4>4 DEF GapEnd
    <3>4. CASE ~Leads(cut) /\ ~Syms[cut].comdat
      BY <2>2, <3>1, <3>4 DEF GapEnd, SymbolType
    <3> QED
      BY <3>2, <3>3, <3>4
  <2> QED
    BY <2>1, <2>2
<1> QED
  BY <1>1, <1>2

-----------------------------------------------------------------------------
\* Every split of every section is one.
LEMMA SplitsAre ==
  ASSUME Shape, NEW s \in DOMAIN sections
  PROVE  /\ DOMAIN splits = DOMAIN sections
         /\ splits[s] \in Seq(SplitType)
         /\ sections[s] \in SectionType
         /\ s \in Nat \ {0} /\ s <= Len(sections)
BY DEF Shape

LEMMA InitInv ==
  UInit => UInv
<1> SUFFICES ASSUME UInit
             PROVE  UInv
  OBVIOUS
<1>1. PICK o \in Objects : sections = o.sections /\ splits = o.splits /\ symbols = o.symbols
  BY DEF UInit
<1>2. /\ sections \in Seq(SectionType) /\ sections # <<>>
      /\ splits \in Seq(Seq(SplitType)) /\ Len(splits) = Len(sections)
      /\ symbols \in Seq(Seq(SymbolType)) /\ Len(symbols) = Len(sections)
  BY <1>1, ObjectAssumption
<1>3. gaps \in Seq(GapType)
  <2>1. gaps = <<>>
    BY DEF UInit
  <2> QED
    BY <2>1
<1>4. sect \in Nat \ {0} /\ cur \in Nat /\ nth \in Nat \ {0} /\ rename \in SectionNames /\ pc = "trim"
  <2>1. sect = 1 /\ cur = 0 /\ nth = 1 /\ rename = NoName /\ pc = "trim"
    BY DEF UInit
  <2> QED
    BY <2>1, NoNameType
<1>5. Shape
  BY <1>2, <1>3, <1>4 DEF Shape
<1>6. Checked /\ SplitsDisjoint
  BY <1>4 DEF Checked, SplitsDisjoint
<1> QED
  BY <1>5, <1>6 DEF UInv

\* A step that changes nothing but the pass, and does not go back to the gaps.
LEMMA OnlyPass ==
  ASSUME Shape, UNCHANGED <<sections, splits, sect, cur, nth, rename, gaps>>,
         pc' \notin {"trim", "gaps"}
  PROVE  Shape'
<1>1. GapType' = GapType
  BY DEF GapType
<1> QED
  BY <1>1 DEF Shape

\* Going to a section, for the gaps.
LEMMA AtSectionType ==
  ASSUME Shape, NEW s \in DOMAIN sections, AtSection(s),
         UNCHANGED <<sections, splits, symbols, gaps>>,
         pc \in {"trim", "gaps"}
  PROVE  Shape'
<1>1. GapType' = GapType
  BY DEF GapType
<1>2. sections[s].start \in Nat /\ s \in Nat \ {0} /\ s <= Len(sections)
  BY SplitsAre DEF SectionType
<1>3. sect' \in Nat \ {0} /\ sect' <= Len(sections) /\ cur' \in Nat /\ nth' \in Nat \ {0}
      /\ rename' \in SectionNames
  <2>1. sect' = s /\ cur' = sections[s].start /\ nth' = 1 /\ rename' = NoName
    BY DEF AtSection
  <2> QED
    BY <1>2, <2>1, NoNameType
<1> QED
  BY <1>1, <1>3 DEF Shape

\* The gap MakeGap makes: the symbols in it, the one it is cut at, and its end.
GapRange == InRange(Syms, cur, Limit)
GapCut == Cut(GapRange)
NewEnd == GapEnd(GapCut, Limit)
NewGap == [sect |-> sect, split |-> [addr |-> cur, end |-> NewEnd, align |-> NoAlign,
                                     common |-> FALSE, auto |-> TRUE, rename |-> GapRename]]

LEMMA InLoop ==
  ASSUME Shape, InSection
  PROVE  /\ pc = "gaps" /\ sect \in DOMAIN sections
         /\ Section \in SectionType /\ Syms \in Seq(SymbolType)
         /\ splits[sect] \in Seq(SplitType) /\ NextStart \in Nat
         /\ cur \in Nat /\ cur < Section.end
<1>1. /\ pc = "gaps" /\ sect \in DOMAIN sections /\ Section \in SectionType
      /\ Syms \in Seq(SymbolType) /\ cur \in Nat /\ cur < Section.end
  BY DEF InSection, Shape, Section, Syms
<1>2. splits[sect] \in Seq(SplitType)
  BY <1>1, SplitsAre
<1>3. NextStart \in Nat
  <2>1. CASE HasNext
    <3>1. NextSplit \in SplitType
      BY <1>2, <2>1 DEF HasNext, NextSplit, Shape
    <3> QED
      BY <2>1, <3>1 DEF NextStart, SplitType
  <2>2. CASE ~HasNext
    BY <1>1, <2>2 DEF NextStart, SectionType
  <2> QED
    BY <2>1, <2>2
<1> QED
  BY <1>1, <1>2, <1>3

LEMMA GapMade ==
  ASSUME Shape, MakeGap
  PROVE  /\ Limit \in Nat /\ GapRange \subseteq DOMAIN Syms /\ GapCut \in {0} \cup DOMAIN Syms
         /\ ~GapFails(GapCut, GapRange, Limit)
         /\ NewEnd \in Nat /\ NewEnd > cur
         /\ gaps' = Append(gaps, NewGap) /\ cur' = NewEnd
         /\ NewGap \in GapType
<1>1. /\ sect \in DOMAIN sections /\ Section \in SectionType /\ Syms \in Seq(SymbolType)
      /\ NextStart \in Nat /\ cur \in Nat
  BY InLoop DEF MakeGap
<1>2. rename \in SectionNames
  BY DEF Shape
<1>3. Limit \in Nat
  BY <1>1, LimitType
<1>4. GapRange \subseteq DOMAIN Syms
  BY DEF GapRange, InRange
<1>5. GapCut \in {0} \cup DOMAIN Syms
  BY <1>1, <1>4, CutType DEF GapCut
<1>6. ~GapFails(GapCut, GapRange, Limit) /\ gaps' = Append(gaps, NewGap) /\ cur' = NewEnd
  BY DEF MakeGap, GapCut, GapRange, NewEnd, NewGap
<1>7. NewEnd \in Nat
  BY <1>1, <1>3, <1>5, <1>6, GapEndType DEF NewEnd
<1>8. NewEnd > cur
  BY <1>1, <1>6, <1>7 DEF GapFails, NewEnd
<1>9. GapRename \in SectionNames
  BY <1>1, <1>2, RenameType
<1>10. NewGap \in GapType
  BY <1>1, <1>7, <1>9 DEF NewGap, GapType, SplitType, NoAlign
<1> QED
  BY <1>3, <1>4, <1>5, <1>6, <1>7, <1>8, <1>10

\* The steps of create_gap_splits keep the shape of the object.
LEMMA GapStepInv ==
  ASSUME UInv, GapStep
  PROVE  UInv'
<1>0. Shape
  BY DEF UInv
<1>a. pc \in {"gaps", "add"} /\ sections' = sections
  BY DEF GapStep, GapOverlap, GapError, MakeGap, TakeSplit, NextSection, AddGap, FixSizes, InSection
<1>b. pc' \in {"gaps", "add", "common", "bail"}
  BY <1>a DEF GapStep, GapOverlap, GapError, MakeGap, TakeSplit, NextSection, AddGap, FixSizes, InSection
<1>c. Checked' /\ SplitsDisjoint'
  BY <1>b DEF Checked, SplitsDisjoint
<1>d. GapType' = GapType
  BY <1>a DEF GapType
<1>1. CASE GapOverlap
  BY <1>0, <1>1, <1>c, OnlyPass DEF GapOverlap, UInv
<1>2. CASE GapError
  BY <1>0, <1>2, <1>c, OnlyPass DEF GapError, UInv
<1>3. CASE MakeGap
  <2>1. gaps' = Append(gaps, NewGap) /\ cur' = NewEnd /\ NewGap \in GapType /\ NewEnd \in Nat
    BY <1>0, <1>3, GapMade
  <2>2. gaps' \in Seq(GapType) /\ cur' \in Nat
    BY <1>0, <2>1 DEF Shape
  <2>3. UNCHANGED <<sections, splits, symbols, sect, nth, rename, pc>>
    BY <1>3 DEF MakeGap
  <2>4. Shape'
    BY <1>0, <1>d, <2>2, <2>3 DEF Shape
  <2> QED
    BY <1>c, <2>4 DEF UInv
<1>4. CASE TakeSplit
  <2>1. /\ UNCHANGED <<sections, splits, symbols, sect, gaps, pc>>
        /\ pc = "gaps" /\ sect \in DOMAIN sections /\ sections[sect] \in SectionType
        /\ splits[sect] \in Seq(SplitType) /\ nth \in Nat \ {0}
    BY <1>0, <1>4, SplitsAre DEF TakeSplit, InSection, Shape
  <2>2. cur' \in Nat /\ nth' \in Nat \ {0} /\ rename' \in SectionNames
    <3>1. CASE HasNext
      <4>1. NextSplit \in SplitType
        BY <2>1, <3>1 DEF HasNext, NextSplit
      <4>2. nth' = nth + 1 /\ rename' = NextSplit.rename
        BY <1>4, <3>1 DEF TakeSplit
      <4>3. CASE NextSplit.end > 0
        <5>1. cur' = NextSplit.end
          BY <1>4, <3>1, <4>3 DEF TakeSplit
        <5> QED
          BY <2>1, <4>1, <4>2, <5>1 DEF SplitType
      <4>4. CASE ~(NextSplit.end > 0) /\ nth < Len(splits[sect])
        <5> DEFINE T == {splits[sect][nth + 1].addr, Section.end}
        <5>1. splits[sect][nth + 1] \in SplitType
          BY <2>1, <4>4
        <5>2. T \subseteq Nat /\ T # {}
          BY <2>1, <5>1 DEF SplitType, Section, SectionType
        <5>3. cur' = Min(T)
          BY <1>4, <3>1, <4>4 DEF TakeSplit
        <5>4. cur' \in Nat
          BY <5>2, <5>3, MinOfNaturals
        <5> QED
          BY <2>1, <4>1, <4>2, <5>4 DEF SplitType
      <4>5. CASE ~(NextSplit.end > 0) /\ ~(nth < Len(splits[sect]))
        <5>1. cur' = Section.end
          BY <1>4, <3>1, <4>5 DEF TakeSplit
        <5> QED
          BY <2>1, <4>1, <4>2, <5>1 DEF SplitType, Section, SectionType
      <4> QED
        BY <4>3, <4>4, <4>5
    <3>2. CASE ~HasNext
      <4>1. cur' = Section.end /\ nth' = nth /\ rename' = rename
        BY <1>4, <3>2 DEF TakeSplit
      <4> QED
        BY <1>0, <2>1, <4>1 DEF Section, SectionType, Shape
    <3> QED
      BY <3>1, <3>2
  <2>3. Shape'
    BY <1>0, <1>d, <2>1, <2>2 DEF Shape
  <2> QED
    BY <1>c, <2>3 DEF UInv
<1>5. CASE NextSection
  <2>1. UNCHANGED <<sections, splits, symbols, gaps>> /\ pc = "gaps"
    BY <1>5 DEF NextSection
  <2>2. CASE sect < Len(sections)
    <3>1. AtSection(sect + 1) /\ pc' = pc
      BY <1>5, <2>2 DEF NextSection
    <3>2. sect + 1 \in DOMAIN sections
      BY <1>0, <2>2 DEF Shape
    <3>3. Shape'
      BY <1>0, <1>d, <2>1, <3>1, <3>2, AtSectionType
    <3> QED
      BY <1>c, <3>3 DEF UInv
  <2>3. CASE ~(sect < Len(sections))
    <3>1. UNCHANGED <<sect, cur, nth, rename>> /\ pc' = "add"
      BY <1>5, <2>3 DEF NextSection
    <3> QED
      BY <1>0, <1>c, <2>1, <3>1, OnlyPass DEF UInv
  <2> QED
    BY <2>2, <2>3
<1>6. CASE AddGap
  <2>1. UNCHANGED <<sections, symbols, sect, cur, nth, rename>> /\ pc' \notin {"trim", "gaps"}
    BY <1>6 DEF AddGap
  <2>2. gaps \in Seq(GapType) /\ gaps # <<>>
    BY <1>0, <1>6 DEF AddGap, Shape
  <2>3. CASE Head(gaps).split.end <= sections[Head(gaps).sect].limit
    <3>1. Head(gaps) \in GapType /\ Tail(gaps) \in Seq(GapType)
      BY <2>2
    <3> DEFINE s == Head(gaps).sect
               p == Head(gaps).split
    <3>2. s \in DOMAIN sections /\ p \in SplitType
      BY <3>1 DEF GapType
    <3>3. splits' = [splits EXCEPT ![s] = Push(@, p)] /\ gaps' = Tail(gaps)
      BY <1>6, <2>3 DEF AddGap
    <3>4. Push(splits[s], p) \in Seq(SplitType)
      BY <1>0, <3>2, SplitsAre, PushType
    <3> HIDE DEF s, p
    <3>5. splits' \in Seq(Seq(SplitType)) /\ Len(splits') = Len(splits)
      BY <1>0, <3>2, <3>3, <3>4 DEF Shape
    <3>6. Shape'
      BY <1>0, <1>d, <2>1, <3>1, <3>3, <3>5 DEF Shape
    <3> QED
      BY <1>c, <3>6 DEF UInv
  <2>4. CASE ~(Head(gaps).split.end <= sections[Head(gaps).sect].limit)
    <3>1. UNCHANGED <<splits, gaps>>
      BY <1>6, <2>4 DEF AddGap
    <3> QED
      BY <1>0, <1>c, <2>1, <3>1, OnlyPass DEF UInv
  <2> QED
    BY <2>3, <2>4
<1>7. CASE FixSizes
  BY <1>0, <1>7, <1>c, OnlyPass DEF FixSizes, UInv
<1> QED
  BY <1>1, <1>2, <1>3, <1>4, <1>5, <1>6, <1>7 DEF GapStep

-----------------------------------------------------------------------------
\* The passes between the gaps and the validation.
LEMMA BeforeValidation ==
  ASSUME UInv, Trim \/ UpdateCommon
  PROVE  UInv'
<1>0. Shape
  BY DEF UInv
<1>1. CASE Trim
  <2>1. \A s \in DOMAIN splits : Trimmed(s) \in Seq(SplitType)
    <3> TAKE s \in DOMAIN splits
    <3>1. s \in DOMAIN sections /\ splits[s] \in Seq(SplitType) /\ sections[s].end \in Nat
      BY <1>0, SplitsAre DEF Shape, SectionType
    <3> DEFINE ss == splits[s]
               last == Len(ss)
    <3>2. CASE ss # <<>>
      <4>1. last \in DOMAIN ss /\ ss[last] \in SplitType
        BY <3>1, <3>2
      <4>2. [ss[last] EXCEPT !.end = sections[s].end] \in SplitType
        BY <3>1, <4>1 DEF SplitType
      <4>3. [ss EXCEPT ![last] = [ss[last] EXCEPT !.end = sections[s].end]] \in Seq(SplitType)
        BY <3>1, <4>1, <4>2
      <4> QED
        BY <3>1, <4>3 DEF Trimmed
    <3>3. CASE ss = <<>>
      BY <3>1, <3>3 DEF Trimmed
    <3> QED
      BY <3>2, <3>3
  <2>2. splits' \in Seq(Seq(SplitType)) /\ Len(splits') = Len(splits)
    <3>1. splits' = [s \in DOMAIN splits |-> Trimmed(s)]
      BY <1>1 DEF Trim
    <3>2. splits' = [s \in DOMAIN splits |-> splits'[s]]
          /\ \A s \in DOMAIN splits : splits'[s] \in Seq(SplitType)
      BY <2>1, <3>1
    <3>3. splits \in Seq(Seq(SplitType))
      BY <1>0 DEF Shape
    <3> QED
      BY <3>2, <3>3, PerPosition
  <2>3. 1 \in DOMAIN sections
    BY <1>0 DEF Shape
  <2>4. sections[1].start \in Nat
    BY <1>0, <2>3, SplitsAre DEF SectionType
  <2>5. sect' = 1 /\ cur' \in Nat /\ nth' = 1 /\ rename' \in SectionNames /\ pc' = "gaps" /\ pc = "trim"
    <3>1. /\ sect' = 1 /\ cur' = sections[1].start /\ nth' = 1 /\ rename' = NoName
          /\ pc' = "gaps" /\ pc = "trim"
      BY <1>1 DEF Trim, AtSection
    <3> QED
      BY <2>4, <3>1, NoNameType
  <2>6. GapType' = GapType /\ UNCHANGED <<sections, symbols, gaps>>
    BY <1>1 DEF Trim, GapType
  <2>7. Shape'
    BY <1>0, <2>2, <2>3, <2>5, <2>6 DEF Shape
  <2>8. Checked' /\ SplitsDisjoint'
    BY <2>5 DEF Checked, SplitsDisjoint
  <2> QED
    BY <2>7, <2>8 DEF UInv
<1>2. CASE UpdateCommon
  <2>1. \A s \in DOMAIN splits : splits'[s] \in Seq(SplitType)
    <3> TAKE s \in DOMAIN splits
    <3>1. splits[s] \in Seq(SplitType)
      BY <1>0, SplitsAre DEF Shape
    <3>2. \A i \in DOMAIN splits[s] :
            splits[s][i] \in SplitType /\ [splits[s][i] EXCEPT !.common = TRUE] \in SplitType
      <4> TAKE i \in DOMAIN splits[s]
      <4>1. splits[s][i] \in SplitType
        BY <3>1, ElementType
      <4> QED
        BY <4>1 DEF SplitType
    <3>3. splits'[s] = [i \in DOMAIN splits[s] |->
              IF CommonStart(s) # NoCommon /\ splits[s][i].addr >= CommonStart(s)
              THEN [splits[s][i] EXCEPT !.common = TRUE] ELSE splits[s][i]]
      BY <1>2 DEF UpdateCommon
    <3> QED
      BY <3>1, <3>2, <3>3
  <2>2. splits' = [s \in DOMAIN splits |-> splits'[s]]
    BY <1>2 DEF UpdateCommon
  <2> HIDE DEF Shape
  <2>3. splits' \in Seq(Seq(SplitType)) /\ Len(splits') = Len(splits)
    BY <1>0, <2>1, <2>2 DEF Shape
  <2>4. UNCHANGED <<sections, sect, cur, nth, rename, gaps>> /\ pc' = "truncate"
    BY <1>2 DEF UpdateCommon
  <2>5. GapType' = GapType
    BY <2>4 DEF GapType
  <2>6. Shape'
    BY <1>0, <2>3, <2>4, <2>5 DEF Shape
  <2>7. Checked' /\ SplitsDisjoint'
    BY <2>4 DEF Checked, SplitsDisjoint
  <2> QED
    BY <2>6, <2>7 DEF UInv
<1> QED
  BY <1>1, <1>2

\* The loop of validate_splits.
LEMMA ValidationInv ==
  ASSUME UInv, Truncate \/ ValidateSplit \/ SplitInvalid \/ SplitsOfNext \/ Validated
  PROVE  UInv'
<1>0. Shape /\ Checked /\ SplitsDisjoint
  BY DEF UInv
<1>a. UNCHANGED <<sections, splits, rename, gaps>> /\ GapType' = GapType
  BY DEF Truncate, ValidateSplit, SplitInvalid, SplitsOfNext, Validated, GapType
<1>1. CASE Truncate
  <2>1. pc' = "validate" /\ sect' = 1 /\ nth' = 1 /\ cur' = 0
    BY <1>1 DEF Truncate
  <2>2. Shape'
    BY <1>0, <1>a, <2>1 DEF Shape
  <2>3. 1 \in DOMAIN sections /\ splits[1] \in Seq(SplitType)
    BY <1>0, SplitsAre DEF Shape
  <2>4. Checked' /\ SplitsDisjoint'
    BY <1>0, <1>a, <2>1, <2>3 DEF Checked, DisjointUpTo, SplitsDisjoint, Shape
  <2> QED
    BY <2>2, <2>4 DEF UInv
<1>2. CASE ValidateSplit
  <2>1. /\ pc = "validate" /\ pc' = "validate" /\ sect' = sect
        /\ sect \in DOMAIN sections /\ nth <= Len(splits[sect])
        /\ nth' = nth + 1 /\ cur' = splits[sect][nth].end
        /\ splits[sect][nth].addr >= cur /\ splits[sect][nth].end >= splits[sect][nth].addr
    BY <1>0, <1>2 DEF ValidateSplit, AtSplit, SplitValid, NextSplit, Shape
  <2> DEFINE ss == splits[sect]
  <2>2. ss \in Seq(SplitType) /\ nth \in DOMAIN ss
    BY <1>0, <2>1, SplitsAre DEF Shape
  <2>3. \A i \in DOMAIN ss : ss[i].addr \in Nat /\ ss[i].end \in Nat
    <3> TAKE i \in DOMAIN ss
    <3>1. ss[i] \in SplitType
      BY <2>2, ElementType
    <3> QED
      BY <3>1 DEF SplitType
  <2>4. Shape'
    BY <1>0, <1>a, <2>1, <2>2, <2>3 DEF Shape
  <2>5. /\ DisjointUpTo(ss, nth)
        /\ \A i \in DOMAIN ss : i < nth => ss[i].end <= cur
        /\ \A s \in DOMAIN sections : s < sect => DisjointUpTo(splits[s], Len(splits[s]) + 1)
    BY <1>0, <2>1 DEF Checked, Shape
  <2>6. cur \in Nat /\ nth \in Nat
    BY <1>0 DEF Shape
  <2> HIDE DEF ss
  <2>7. DisjointUpTo(ss, nth + 1)
    BY <2>1, <2>2, <2>3, <2>5, <2>6 DEF DisjointUpTo, ss
  <2>8. \A i \in DOMAIN ss : i < nth + 1 => ss[i].end <= ss[nth].end
    BY <2>1, <2>2, <2>3, <2>5, <2>6 DEF ss
  <2>9. Checked'
    BY <1>a, <2>1, <2>2, <2>5, <2>6, <2>7, <2>8 DEF Checked, ss
  <2>10. SplitsDisjoint'
    BY <2>1 DEF SplitsDisjoint
  <2> QED
    BY <2>4, <2>9, <2>10 DEF UInv
<1>3. CASE SplitInvalid
  <2>1. UNCHANGED <<sect, cur, nth>> /\ pc' = "bail"
    BY <1>3 DEF SplitInvalid
  <2>2. Shape'
    BY <1>0, <1>a, <2>1, OnlyPass
  <2> QED
    BY <2>1, <2>2 DEF UInv, Checked, SplitsDisjoint
<1>4. CASE SplitsOfNext
  <2>1. /\ pc \in {"validate", "pad"} /\ pc' = pc
        /\ sect <= Len(sections) /\ nth > Len(splits[sect])
        /\ sect' = sect + 1 /\ nth' = 1 /\ cur' = 0
    BY <1>4 DEF SplitsOfNext
  <2>2. sect \in Nat \ {0} /\ Len(sections) \in Nat /\ DOMAIN sections = 1..Len(sections)
    BY <1>0 DEF Shape
  <2>3. Shape'
    BY <1>0, <1>a, <2>1 DEF Shape
  <2>4. SplitsDisjoint'
    BY <1>0, <1>a, <2>1 DEF SplitsDisjoint
  <2>5. CASE pc = "validate"
    <3>1. splits[sect] \in Seq(SplitType) /\ nth \in Nat
      BY <1>0, <2>1, <2>2, SplitsAre DEF Shape
    <3>2. /\ DisjointUpTo(splits[sect], nth)
          /\ \A s \in DOMAIN sections : s < sect => DisjointUpTo(splits[s], Len(splits[s]) + 1)
      BY <1>0, <2>1, <2>5 DEF Checked
    <3>3. DisjointUpTo(splits[sect], Len(splits[sect]) + 1)
      BY <2>1, <3>1, <3>2 DEF DisjointUpTo
    <3>4. \A s \in DOMAIN sections : s < sect + 1 => DisjointUpTo(splits[s], Len(splits[s]) + 1)
      BY <2>2, <3>2, <3>3
    <3>5. sect + 1 <= Len(sections) => /\ 1 <= Len(splits[sect + 1]) + 1
                                       /\ DisjointUpTo(splits[sect + 1], 1)
                                       /\ \A i \in DOMAIN splits[sect + 1] : ~(i < 1)
      <4> SUFFICES ASSUME sect + 1 <= Len(sections)
                   PROVE  /\ 1 <= Len(splits[sect + 1]) + 1
                          /\ DisjointUpTo(splits[sect + 1], 1)
                          /\ \A i \in DOMAIN splits[sect + 1] : ~(i < 1)
        OBVIOUS
      <4>1. sect + 1 \in DOMAIN sections
        BY <2>2
      <4>2. splits[sect + 1] \in Seq(SplitType)
        BY <1>0, <4>1, SplitsAre
      <4> QED
        BY <4>2 DEF DisjointUpTo
    <3>6. Checked'
      BY <1>a, <2>1, <2>5, <3>4, <3>5 DEF Checked
    <3> QED
      BY <2>3, <2>4, <3>6 DEF UInv
  <2>6. CASE pc = "pad"
    BY <2>1, <2>3, <2>4, <2>6 DEF UInv, Checked
  <2> QED
    BY <2>1, <2>5, <2>6
<1>5. CASE Validated
  <2>1. pc = "validate" /\ sect > Len(sections) /\ pc' \in {"pad", "done"}
        /\ sect' = 1 /\ nth' = 1 /\ cur' = 0
    BY <1>5 DEF Validated
  <2>2. Shape'
    BY <1>0, <1>a, <2>1 DEF Shape
  <2>3. \A s \in DOMAIN sections : DisjointUpTo(splits[s], Len(splits[s]) + 1)
    BY <1>0, <2>1 DEF Checked, Shape
  <2>4. SplitsDisjoint'
    <3> SUFFICES ASSUME NEW s \in DOMAIN sections, NEW i \in DOMAIN splits[s],
                        NEW j \in DOMAIN splits[s], i < j
                 PROVE  splits[s][i].end <= splits[s][j].addr
      BY <1>a DEF SplitsDisjoint
    <3>1. splits[s] \in Seq(SplitType)
      BY <1>0, SplitsAre
    <3>2. j < Len(splits[s]) + 1
      BY <3>1
    <3> QED
      BY <2>3, <3>2 DEF DisjointUpTo
  <2> QED
    BY <2>1, <2>2, <2>4 DEF UInv, Checked
<1> QED
  BY <1>1, <1>2, <1>3, <1>4, <1>5

\* The padding symbols leave the splits alone.
LEMMA PaddingInv ==
  ASSUME UInv, PadSplit \/ Padded \/ FillSection \/ AddFiller \/ Filled
  PROVE  UInv'
<1>0. Shape /\ SplitsDisjoint
  BY DEF UInv
<1>1. UNCHANGED <<sections, splits, cur, rename, gaps>>
  BY DEF PadSplit, Padded, FillSection, AddFiller, Filled
<1>2. pc \in {"pad", "fill"} /\ pc' \in {"pad", "fill", "filled", "bail"}
  BY DEF PadSplit, Padded, FillSection, AddFiller, Filled
<1>3. nth' \in {nth, nth + 1} /\ sect' \in {1, sect, sect + 1}
  BY DEF PadSplit, Padded, FillSection, AddFiller, Filled
<1>4. GapType' = GapType
  BY <1>1 DEF GapType
<1>5. Shape'
  BY <1>0, <1>1, <1>2, <1>3, <1>4 DEF Shape
<1>6. SplitsDisjoint'
  BY <1>0, <1>1, <1>2 DEF SplitsDisjoint
<1> QED
  BY <1>2, <1>5, <1>6 DEF UInv, Checked

LEMMA StutterInv ==
  ASSUME UInv, UNCHANGED allVars
  PROVE  UInv'
<1>1. UNCHANGED <<sections, splits, symbols, sect, cur, nth, rename, gaps, pc>>
  BY DEF allVars, gapVars
<1>2. GapType' = GapType
  BY <1>1 DEF GapType
<1>3. Shape'
  BY <1>1, <1>2 DEF UInv, Shape
<1>4. Checked' /\ SplitsDisjoint'
  BY <1>1 DEF UInv, Checked, SplitsDisjoint
<1> QED
  BY <1>3, <1>4 DEF UInv

(***************************************************************************)
(* SplitsDisjoint for every object: update_splits never ends, and never    *)
(* starts to add padding symbols, with two splits that share a byte.       *)
(***************************************************************************)
THEOREM ValidatedSplitsDisjoint ==
  USpec => []SplitsDisjoint
<1>1. UInit => UInv
  BY InitInv
<1>2. UInv /\ [UNext]_allVars => UInv'
  <2> SUFFICES ASSUME UInv, [UNext]_allVars
               PROVE  UInv'
    OBVIOUS
  <2>1. CASE UStep
    BY <2>1, GapStepInv, BeforeValidation, ValidationInv, PaddingInv DEF UStep
  <2>2. CASE UDone
    BY <2>2, StutterInv DEF UDone
  <2>3. CASE UNCHANGED allVars
    BY <2>3, StutterInv
  <2> QED
    BY <2>1, <2>2, <2>3 DEF UNext
<1>3. UInv => SplitsDisjoint
  BY DEF UInv
<1> QED
  BY <1>1, <1>2, <1>3, PTL DEF USpec

-----------------------------------------------------------------------------
(* The object keeps its types through all passes. *)

Passes == {"trim", "gaps", "add", "common", "truncate", "validate", "pad", "fill",
           "done", "filled", "bail"}

FixType == (DOMAIN sections) \X Nat \X Nat

\* A size that is fixed is one of a symbol that has a size, and it leaves some of it.
FixesOK ==
  /\ fixes \in Seq(FixType)
  /\ \A k \in DOMAIN fixes :
       /\ fixes[k][3] > 0
       /\ fixes[k][2] \in DOMAIN symbols[fixes[k][1]] => Sized(symbols[fixes[k][1]][fixes[k][2]])
  /\ pc \notin {"gaps", "add", "bail"} => fixes = <<>>

SymbolsOK == symbols \in Seq(Seq(SymbolType)) /\ Len(symbols) = Len(sections)

FillersOK ==
  /\ DOMAIN fillers \subseteq Nat
  /\ \A i \in DOMAIN fillers : fillers[i] \in SymbolType /\ fillers[i].align = NoAlign
  /\ DOMAIN fillers # {} => pc = "fill" /\ sect <= Len(sections)

TypeInv == SymbolsOK /\ FixesOK /\ FillersOK /\ sect <= Len(sections) + 1 /\ pc \in Passes

\* The symbols old are among new, which has no other symbol of a size that asks for
\* an alignment.
Keeps(old, new) ==
  /\ \A i \in DOMAIN old : \E j \in DOMAIN new :
       /\ new[j].addr = old[i].addr /\ new[j].comdat = old[i].comdat
       /\ new[j].align = old[i].align /\ (Sized(old[i]) => Sized(new[j]))
  /\ \A j \in DOMAIN new : Sized(new[j]) =>
       \/ new[j].align = NoAlign
       \/ \E i \in DOMAIN old :
            Sized(old[i]) /\ old[i].addr = new[j].addr /\ old[i].align = new[j].align

LEMMA KeepsItself ==
  ASSUME NEW syms
  PROVE  Keeps(syms, syms)
BY DEF Keeps

LEMMA SymsAre ==
  ASSUME Shape, SymbolsOK, NEW s \in DOMAIN sections
  PROVE  DOMAIN symbols = DOMAIN sections /\ symbols[s] \in Seq(SymbolType)
BY DEF Shape, SymbolsOK

\* A sequence with an element put in behind the k-th of another.
Inserted(seq, k, x, new) ==
  /\ Len(new) = Len(seq) + 1
  /\ \A i \in 1..k : new[i] = seq[i]
  /\ new[k + 1] = x
  /\ \A i \in k + 1..Len(seq) : new[i + 1] = seq[i]

\* What is where after an element was put into a sequence.
LEMMA PutBehindAt ==
  ASSUME NEW S, NEW seq \in Seq(S), NEW k \in 0..Len(seq), NEW x \in S,
         NEW new, new = PutBehind(seq, k, x)
  PROVE  new \in Seq(S) /\ Inserted(seq, k, x, new)
<1> DEFINE a == SubSeq(seq, 1, k)
           b == SubSeq(seq, k + 1, Len(seq))
           c == a \o <<x>>
<1>1. /\ a \in Seq(S) /\ Len(a) = k /\ \A i \in 1..k : a[i] = seq[i]
      /\ b \in Seq(S) /\ Len(b) = Len(seq) - k /\ \A i \in 1..Len(seq) - k : b[i] = seq[k + i]
  OBVIOUS
<1>2. new = c \o b
  BY DEF PutBehind
<1> HIDE DEF a, b
<1>3. <<x>> \in Seq(S) /\ Len(<<x>>) = 1 /\ <<x>>[1] = x
  OBVIOUS
<1>4. /\ c \in Seq(S) /\ Len(c) = k + 1
      /\ \A i \in 1..k + 1 : c[i] = IF i <= k THEN a[i] ELSE <<x>>[i - k]
  BY <1>1, <1>3, ConcatProperties
<1> HIDE DEF c
<1>5. \A i \in 1..k : c[i] = seq[i]
  BY <1>1, <1>4
<1>6. c[k + 1] = x
  BY <1>3, <1>4
<1>7. /\ c \o b \in Seq(S) /\ Len(c \o b) = Len(seq) + 1
      /\ \A i \in 1..Len(seq) + 1 : (c \o b)[i] = IF i <= k + 1 THEN c[i] ELSE b[i - (k + 1)]
  <2>1. /\ c \o b \in Seq(S) /\ Len(c \o b) = Len(c) + Len(b)
        /\ \A i \in 1..Len(c) + Len(b) : (c \o b)[i] = IF i <= Len(c) THEN c[i] ELSE b[i - Len(c)]
    <3>1. c \in Seq(S) /\ b \in Seq(S)
      BY <1>1, <1>4
    <3> QED BY <3>1, ConcatProperties, Zenon
  <2>2. Len(c) + Len(b) = Len(seq) + 1 /\ Len(c) = k + 1
    BY <1>1, <1>4
  <2> QED BY <2>1, <2>2
<1>9. \A i \in k + 1..Len(seq) : new[i + 1] = seq[i]
  <2> TAKE i \in k + 1..Len(seq)
  <2>1. i - k \in 1..Len(b) /\ (i + 1) - (k + 1) = i - k /\ k + (i - k) = i
        /\ ~(i + 1 <= k + 1) /\ i + 1 \in 1..Len(seq) + 1
    BY <1>1
  <2> QED BY <1>1, <1>2, <1>7, <2>1
<1>10. new[k + 1] = x /\ \A i \in 1..k : new[i] = seq[i]
  BY <1>2, <1>5, <1>6, <1>7
<1>11. new \in Seq(S) /\ Len(new) = Len(seq) + 1
  BY <1>2, <1>7
<1> QED
  BY <1>9, <1>10, <1>11 DEF Inserted

\* ObjSymbols::add_direct of a symbol that asks for no alignment
LEMMA AddSymbolKeeps ==
  ASSUME NEW syms \in Seq(SymbolType), NEW sym \in SymbolType, sym.align = NoAlign
  PROVE  AddSymbol(syms, sym) \in Seq(SymbolType) /\ Keeps(syms, AddSymbol(syms, sym))
<1> DEFINE T == {0} \cup {i \in DOMAIN syms : syms[i].addr <= sym.addr}
           k == Max(T)
           new == AddSymbol(syms, sym)
<1>1. k \in 0..Len(syms)
  <2>1. Len(syms) \in Nat /\ T \subseteq 0..Len(syms) /\ T # {}
    OBVIOUS
  <2> HIDE DEF T
  <2>2. Max(T) \in T
    BY <2>1, MaxOfBounded
  <2> QED BY <2>1, <2>2
<1> HIDE DEF T, k
<1>2. new = PutBehind(syms, k, sym)
  BY DEF AddSymbol, k, T
<1> HIDE DEF new, k
<1>3. /\ new \in Seq(SymbolType) /\ Len(new) = Len(syms) + 1
      /\ \A i \in 1..k : new[i] = syms[i]
      /\ new[k + 1] = sym
      /\ \A i \in k + 1..Len(syms) : new[i + 1] = syms[i]
  <2>1. new \in Seq(SymbolType) /\ Inserted(syms, k, sym, new)
    BY <1>1, <1>2, PutBehindAt
  <2> QED BY <2>1 DEF Inserted
<1>4. \A i \in DOMAIN syms : \E j \in DOMAIN new : new[j] = syms[i]
  <2> TAKE i \in DOMAIN syms
  <2>1. CASE i <= k
    <3>1. i \in 1..k /\ i \in DOMAIN new
      BY <1>1, <1>3, <2>1
    <3> QED BY <1>3, <3>1
  <2>2. CASE i > k
    <3>1. i \in k + 1..Len(syms) /\ i + 1 \in DOMAIN new
      BY <1>1, <1>3, <2>2
    <3> QED BY <1>3, <3>1
  <2> QED BY <1>1, <2>1, <2>2
<1>5. \A j \in DOMAIN new : new[j] = sym \/ \E i \in DOMAIN syms : new[j] = syms[i]
  <2> TAKE j \in DOMAIN new
  <2>1. CASE j <= k
    <3>1. j \in 1..k /\ j \in DOMAIN syms
      BY <1>1, <1>3, <2>1
    <3> QED BY <1>3, <3>1
  <2>2. CASE j = k + 1
    BY <1>3, <2>2
  <2>3. CASE j > k + 1
    <3>1. j - 1 \in k + 1..Len(syms) /\ j - 1 \in DOMAIN syms /\ (j - 1) + 1 = j
      BY <1>1, <1>3, <2>3
    <3> QED BY <1>3, <3>1
  <2>4. j \in Nat /\ k \in Nat
    BY <1>1, <1>3
  <2> QED BY <2>1, <2>2, <2>3, <2>4
<1>6. Keeps(syms, new)
  BY <1>4, <1>5 DEF Keeps
<1> QED
  BY <1>3, <1>6 DEF new

\* Sizes are changed, but none to or from zero.
LEMMA ResizedKeeps ==
  ASSUME NEW syms \in Seq(SymbolType), NEW new, new = [i \in DOMAIN syms |-> new[i]],
         \A i \in DOMAIN syms :
           /\ new[i] \in SymbolType
           /\ new[i].addr = syms[i].addr /\ new[i].comdat = syms[i].comdat
           /\ new[i].align = syms[i].align /\ Sized(new[i]) = Sized(syms[i])
  PROVE  new \in Seq(SymbolType) /\ Len(new) = Len(syms) /\ Keeps(syms, new)
<1>1. new \in Seq(SymbolType) /\ Len(new) = Len(syms)
  BY PerPosition
<1>2. DOMAIN new = DOMAIN syms
  OBVIOUS
<1> QED
  BY <1>1, <1>2 DEF Keeps

\* The boundary of a split behind an address is behind it, if the limit is.
LEMMA BoundaryType ==
  ASSUME NEW ss \in Seq(SplitType), NEW addr \in Nat, NEW far \in Nat
  PROVE  Boundary(ss, addr, far) \in Nat /\ (addr < far => addr < Boundary(ss, addr, far))
<1> DEFINE at == LastAt(ss, addr)
           next == FirstAfter(ss, addr)
           ends == {ss[i].end : i \in {at} \ {0}}
           A == {e \in ends : e > addr}
           B == {ss[i].addr : i \in {next} \ {0}}
           T == {far} \cup A \cup B
<1>1. \A i \in DOMAIN ss : ss[i] \in SplitType
  OBVIOUS
<1>2. at \in {0} \cup DOMAIN ss
  <2> DEFINE U == {0} \cup {i \in DOMAIN ss : ss[i].addr <= addr}
  <2>1. Len(ss) \in Nat /\ U \subseteq 0..Len(ss) /\ U # {}
    OBVIOUS
  <2>2. at = Max(U)
    BY DEF LastAt
  <2> HIDE DEF U, at
  <2>3. at \in U
    BY <2>1, <2>2, MaxOfBounded
  <2> QED BY <2>3 DEF U
<1>3. next = 0 \/ (next \in DOMAIN ss /\ ss[next].addr > addr)
  <2> DEFINE V == {i \in DOMAIN ss : ss[i].addr > addr}
  <2>1. V \subseteq Nat
    OBVIOUS
  <2>2. next = IF V = {} THEN 0 ELSE Min(V)
    BY DEF FirstAfter
  <2> HIDE DEF V, next
  <2>3. V # {} => Min(V) \in V
    BY <2>1, MinOfNaturals
  <2>4. \A i \in V : i \in DOMAIN ss /\ ss[i].addr > addr
    BY DEF V
  <2>5. CASE V = {}
    BY <2>2, <2>5
  <2>6. CASE V # {}
    <3>1. next = Min(V) /\ Min(V) \in V
      BY <2>2, <2>3, <2>6
    <3> QED BY <2>4, <3>1
  <2> QED BY <2>5, <2>6
<1> HIDE DEF at, next
<1>4. \A e \in A : e \in Nat /\ e > addr
  BY <1>1, <1>2 DEF SplitType
<1>5. \A e \in B : e \in Nat /\ e > addr
  BY <1>1, <1>3 DEF SplitType
<1> HIDE DEF A, B
<1>6. T \subseteq Nat /\ T # {}
  BY <1>4, <1>5
<1>7. \A e \in T : addr < far => addr < e
  BY <1>4, <1>5
<1> HIDE DEF T
<1>8. Min(T) \in T
  BY <1>6, MinOfNaturals
<1>9. Boundary(ss, addr, far) = Min(T)
  BY DEF Boundary, T, A, B, ends, at, next
<1> QED
  BY <1>6, <1>7, <1>8, <1>9

\* truncate_autogen_symbols_at_splits
LEMMA TruncateTypes ==
  ASSUME Shape, TypeInv, Truncate
  PROVE  TypeInv' /\ \A s \in DOMAIN sections : Keeps(symbols[s], symbols'[s])
<1>1. ASSUME NEW s \in DOMAIN sections
      PROVE  /\ symbols'[s] \in Seq(SymbolType)
             /\ Keeps(symbols[s], symbols'[s])
  <2> DEFINE syms == symbols[s]
             new == symbols'[s]
  <2>1. syms \in Seq(SymbolType) /\ s \in DOMAIN symbols /\ splits[s] \in Seq(SplitType)
    BY SymsAre, SplitsAre DEF TypeInv
  <2>2. new = [i \in DOMAIN syms |-> UpToSplit(s, syms[i])]
    BY <2>1 DEF Truncate
  <2>3. ASSUME NEW sym \in SymbolType
        PROVE  LET out == UpToSplit(s, sym)
               IN  /\ out \in SymbolType
                   /\ out.addr = sym.addr /\ out.comdat = sym.comdat
                   /\ out.align = sym.align /\ Sized(out) = Sized(sym)
    <3>1. CASE Sized(sym) /\ sym.auto
      <4> DEFINE b == Boundary(splits[s], sym.addr, SymbolEnd(sym))
      <4>1. sym.addr \in Nat /\ SymbolEnd(sym) \in Nat /\ sym.addr < SymbolEnd(sym)
        BY <3>1 DEF SymbolType, SymbolEnd, Sized
      <4>2. b \in Nat /\ sym.addr < b
        BY <2>1, <4>1, BoundaryType
      <4> HIDE DEF b
      <4>3. b - sym.addr \in Nat /\ b - sym.addr > 0
        BY <4>1, <4>2
      <4>4. UpToSplit(s, sym) = [sym EXCEPT !.size = b - sym.addr]
        BY <3>1 DEF UpToSplit, b
      <4> QED BY <3>1, <4>3, <4>4 DEF SymbolType, Sized
    <3>2. CASE ~(Sized(sym) /\ sym.auto)
      BY <3>2 DEF UpToSplit
    <3> QED BY <3>1, <3>2
  <2>4. \A i \in DOMAIN syms : syms[i] \in SymbolType
    BY <2>1
  <2> HIDE DEF syms, new
  <2>5. /\ new = [i \in DOMAIN syms |-> new[i]]
        /\ \A i \in DOMAIN syms :
             /\ new[i] \in SymbolType
             /\ new[i].addr = syms[i].addr /\ new[i].comdat = syms[i].comdat
             /\ new[i].align = syms[i].align /\ Sized(new[i]) = Sized(syms[i])
    BY <2>2, <2>3, <2>4
  <2>6. syms \in Seq(SymbolType)
    BY <2>1 DEF syms
  <2>7. new \in Seq(SymbolType) /\ Keeps(syms, new)
    BY <2>5, <2>6, ResizedKeeps
  <2> QED BY <2>7 DEF syms, new
<1>2. symbols' = [s \in DOMAIN symbols |-> symbols'[s]] /\ DOMAIN symbols = DOMAIN sections
  BY DEF Truncate, TypeInv, SymbolsOK, Shape
<1>3. symbols' \in Seq(Seq(SymbolType)) /\ Len(symbols') = Len(symbols)
  <2>1. \A s \in DOMAIN symbols : symbols'[s] \in Seq(SymbolType)
    BY <1>1, <1>2
  <2>2. symbols \in Seq(Seq(SymbolType))
    BY DEF TypeInv, SymbolsOK
  <2> QED BY <1>2, <2>1, <2>2, PerPosition
<1>4. pc = "truncate" /\ pc' = "validate" /\ sect' = 1 /\ UNCHANGED <<sections, fixes, fillers>>
  BY DEF Truncate
<1>5. fixes = <<>> /\ Len(sections) \in Nat \ {0}
  BY <1>4 DEF TypeInv, FixesOK, Shape
<1>6. FixesOK'
  BY <1>4, <1>5 DEF FixesOK
<1> QED
  BY <1>1, <1>3, <1>4, <1>5, <1>6 DEF TypeInv, SymbolsOK, FillersOK, Passes

\* A step that leaves the symbols alone, and what is to be done about them.
LEMMA QuietTypes ==
  ASSUME TypeInv, UNCHANGED <<sections, symbols, fixes, fillers>>,
         sect' <= Len(sections) + 1, pc' \in Passes,
         pc' \notin {"gaps", "add", "bail"} => fixes = <<>>,
         DOMAIN fillers = {} \/ (pc' = "fill" /\ sect' = sect)
  PROVE  TypeInv'
BY DEF TypeInv, SymbolsOK, FixesOK, FixType, FillersOK

\* The symbols of one section change.
LEMMA OneSection ==
  ASSUME Shape, SymbolsOK, NEW s \in DOMAIN sections, NEW new \in Seq(SymbolType),
         UNCHANGED sections, symbols' = [symbols EXCEPT ![s] = new]
  PROVE  /\ SymbolsOK'
         /\ \A r \in DOMAIN sections : symbols'[r] = IF r = s THEN new ELSE symbols[r]
<1>1. DOMAIN symbols = DOMAIN sections
  BY DEF Shape, SymbolsOK
<1>2. /\ symbols' = [r \in DOMAIN symbols |-> symbols'[r]]
      /\ \A r \in DOMAIN sections : symbols'[r] = IF r = s THEN new ELSE symbols[r]
  BY <1>1
<1>3. symbols \in Seq(Seq(SymbolType))
  BY DEF SymbolsOK
<1>4. \A r \in DOMAIN symbols : symbols'[r] \in Seq(SymbolType)
  BY <1>1, <1>2, <1>3, SymsAre
<1>5. symbols' = [r \in DOMAIN symbols |-> symbols'[r]]
  BY <1>2
<1>6. symbols' \in Seq(Seq(SymbolType)) /\ Len(symbols') = Len(symbols)
  <2> DEFINE T == Seq(SymbolType)
             f == symbols'
  <2>1. symbols \in Seq(T) /\ f = [r \in DOMAIN symbols |-> f[r]] /\ \A r \in DOMAIN symbols : f[r] \in T
    BY <1>3, <1>4, <1>5
  <2> HIDE DEF T, f
  <2>2. f \in Seq(T)
    BY <2>1, PerPosition
  <2>3. Len(f) = Len(symbols)
    BY <2>1, PerPosition
  <2> QED BY <2>2, <2>3 DEF f, T
<1> QED
  BY <1>2, <1>6 DEF SymbolsOK

LEMMA GeneratedType ==
  ASSUME NEW section \in SectionType, NEW prefix \in {"pad", "lbl", "gap"}, NEW addr \in Nat, NEW end \in Nat,
         addr < end
  PROVE  /\ Generated(section, prefix, addr, end) \in SymbolType
         /\ Generated(section, prefix, addr, end).align = NoAlign
<1>1. end - addr \in Nat /\ NoAlign \in Nat
  BY DEF NoAlign
<1>2. KindOf(section) \in {"function", "object"}
  BY DEF KindOf
<1>3. prefix \in SymbolNames
  BY SymbolNameAssumption
<1> QED
  BY <1>1, <1>2, <1>3 DEF Generated, SymbolType

\* The first loop of add_padding_symbols
LEMMA PadTypes ==
  ASSUME Shape, TypeInv, PadSplit
  PROVE  TypeInv' /\ \A s \in DOMAIN sections : Keeps(symbols[s], symbols'[s])
<1>1. /\ pc = "pad" /\ pc' \in {"pad", "bail"} /\ sect' = sect
      /\ UNCHANGED <<sections, fixes, fillers>>
      /\ sect \in DOMAIN sections /\ Section \in SectionType /\ Syms \in Seq(SymbolType)
      /\ splits[sect] \in Seq(SplitType) /\ nth \in DOMAIN splits[sect]
  <2>1. /\ pc = "pad" /\ pc' \in {"pad", "bail"} /\ sect' = sect /\ AtSplit
        /\ UNCHANGED <<sections, fixes, fillers>>
    BY DEF PadSplit
  <2>2. sect \in DOMAIN sections
    BY <2>1 DEF AtSplit, Shape
  <2>3. splits[sect] \in Seq(SplitType) /\ Syms \in Seq(SymbolType) /\ Section \in SectionType
    BY <2>2, SplitsAre, SymsAre DEF TypeInv, Section, Syms
  <2>4. nth \in DOMAIN splits[sect]
    BY <2>1, <2>3 DEF AtSplit, Shape
  <2> QED BY <2>1, <2>2, <2>3, <2>4
<1>a. fixes = <<>> /\ DOMAIN fillers = {}
  BY <1>1 DEF TypeInv, FixesOK, FillersOK
<1>2. CASE UNCHANGED symbols
  <2>1. TypeInv'
    BY <1>1, <1>a, <1>2, QuietTypes DEF TypeInv, Passes
  <2> QED BY <1>2, <2>1, KeepsItself
<1>3. CASE ~UNCHANGED symbols
  <2> DEFINE split == NextSplit
             far == FirstSymbol(split)
             new == Generated(Section, "pad", split.addr, far)
  <2>1. /\ far > split.addr /\ pc' = pc
        /\ symbols' = [symbols EXCEPT ![sect] = AddSymbol(symbols[sect], new)]
    <3> HIDE DEF far, new
    <3>1. \/ UNCHANGED symbols
          \/ /\ far > split.addr /\ pc' = pc
             /\ symbols' = [symbols EXCEPT ![sect] = AddSymbol(symbols[sect], new)]
      BY DEF PadSplit, far, new
    <3> QED BY <1>3, <3>1
  <2>2. split \in SplitType
    BY <1>1 DEF NextSplit
  <2>3. far \in Nat
    <3> DEFINE next == IF nth < Len(splits[sect]) THEN splits[sect][nth + 1].addr ELSE Section.limit
               sized == {i \in InRange(Syms, split.addr + 1, next) : Sized(Syms[i])}
    <3>1. next \in Nat
      <4>1. nth < Len(splits[sect]) => splits[sect][nth + 1] \in SplitType
        BY <1>1
      <4> QED BY <1>1, <4>1 DEF SplitType, SectionType
    <3>2. sized \subseteq DOMAIN Syms /\ sized \subseteq Nat
      BY <1>1 DEF InRange
    <3>3. far = IF sized = {} THEN next ELSE Syms[Min(sized)].addr
      BY DEF FirstSymbol
    <3> HIDE DEF next, sized, far
    <3>4. CASE sized = {}
      BY <3>1, <3>3, <3>4
    <3>5. CASE sized # {}
      <4>1. Min(sized) \in DOMAIN Syms
        BY <3>2, <3>5, MinOfNaturals
      <4>2. Syms[Min(sized)] \in SymbolType
        BY <1>1, <4>1
      <4> QED BY <3>3, <3>5, <4>2 DEF SymbolType
    <3> QED BY <3>4, <3>5
  <2> HIDE DEF far, split
  <2>4. new \in SymbolType /\ new.align = NoAlign
    <3>1. split.addr \in Nat /\ split.addr < far
      BY <2>1, <2>2, <2>3 DEF SplitType
    <3> HIDE DEF new
    <3>2. new = Generated(Section, "pad", split.addr, far)
      BY DEF new
    <3>3. new \in SymbolType
      BY <1>1, <2>3, <3>1, <3>2, GeneratedType
    <3>4. new.align = NoAlign
      BY <1>1, <2>3, <3>1, <3>2, GeneratedType
    <3> QED BY <3>3, <3>4
  <2> HIDE DEF new
  <2>5. AddSymbol(symbols[sect], new) \in Seq(SymbolType)
        /\ Keeps(symbols[sect], AddSymbol(symbols[sect], new))
    BY <1>1, <2>4, AddSymbolKeeps DEF Syms
  <2>6. /\ SymbolsOK'
        /\ \A r \in DOMAIN sections :
             symbols'[r] = IF r = sect THEN AddSymbol(symbols[sect], new) ELSE symbols[r]
    BY <1>1, <2>1, <2>5, OneSection DEF TypeInv
  <2>7. FixesOK' /\ FillersOK' /\ (sect <= Len(sections) + 1)' /\ (pc \in Passes)'
    <3>1. FixesOK'
      BY <1>1, <1>a DEF FixesOK
    <3>2. FillersOK'
      BY <1>1, <1>a DEF FillersOK
    <3> QED BY <1>1, <3>1, <3>2 DEF TypeInv, Passes
  <2> QED BY <2>5, <2>6, <2>7, KeepsItself DEF TypeInv
<1> QED BY <1>2, <1>3

\* A gap that a COMDAT leads ends inside it at most at a locator behind its start.
LEMMA ShortComdat ==
  ASSUME Shape, SymbolsOK, MakeGap, Leads(GapCut), NewEnd < SymbolEnd(Syms[GapCut])
  PROVE  /\ GapCut \in DOMAIN Syms /\ Sized(Syms[GapCut])
         /\ NewEnd - Syms[GapCut].addr \in Nat /\ NewEnd - Syms[GapCut].addr > 0
<1> DEFINE sym == Syms[GapCut]
           inside == LocatorsIn(sym, Limit)
<1>1. /\ Syms \in Seq(SymbolType) /\ GapCut \in {0} \cup DOMAIN Syms /\ GapCut # 0
      /\ ~GapFails(GapCut, GapRange, Limit) /\ NewEnd \in Nat
  BY InLoop, GapMade DEF MakeGap, Leads
<1>2. GapCut \in DOMAIN Syms /\ sym \in SymbolType
  BY <1>1
<1>3. sym.known
  BY <1>1 DEF GapFails
<1>4. NewEnd = ComdatEnd(sym, Limit)
  BY <1>1 DEF NewEnd, GapEnd
<1>5. inside # {}
  BY <1>2, <1>4 DEF ComdatEnd, SymbolEnd, SymbolType
<1>6. inside \subseteq DOMAIN Syms /\ \A i \in inside : Syms[i].addr >= sym.addr + 5
  BY DEF LocatorsIn, InRange
<1>7. inside \subseteq Nat
  BY <1>1, <1>6
<1>8. NewEnd = Syms[Min(inside)].addr - 4
  BY <1>4, <1>5 DEF ComdatEnd
<1> HIDE DEF inside
<1>9. Min(inside) \in inside
  BY <1>5, <1>7, MinOfNaturals
<1>10. Syms[Min(inside)].addr \in Nat /\ Syms[Min(inside)].addr >= sym.addr + 5
  <2>1. Syms[Min(inside)] \in SymbolType
    BY <1>1, <1>6, <1>9
  <2> QED BY <1>6, <1>9, <2>1 DEF SymbolType
<1>11. sym.addr \in Nat /\ sym.size \in Nat
  BY <1>2 DEF SymbolType
<1>12. NewEnd >= sym.addr + 1
  BY <1>8, <1>10, <1>11
<1> QED
  BY <1>1, <1>2, <1>3, <1>11, <1>12 DEF SymbolEnd, Sized

LEMMA MakeGapTypes ==
  ASSUME Shape, TypeInv, MakeGap, UNCHANGED fillers
  PROVE  TypeInv'
<1>1. /\ pc = "gaps" /\ UNCHANGED <<sections, symbols, sect, pc>>
      /\ sect \in DOMAIN sections /\ Syms \in Seq(SymbolType)
  BY InLoop DEF MakeGap
<1>2. DOMAIN fillers = {}
  BY <1>1 DEF TypeInv, FillersOK
<1>3. FixesOK'
  <2> DEFINE fix == <<sect, GapCut, NewEnd - Syms[GapCut].addr>>
  <2>1. fixes' = IF Leads(GapCut) /\ NewEnd < SymbolEnd(Syms[GapCut])
                 THEN Append(fixes, fix) ELSE fixes
    BY DEF MakeGap, GapCut, GapRange, NewEnd
  <2>2. CASE ~(Leads(GapCut) /\ NewEnd < SymbolEnd(Syms[GapCut]))
    <3>1. fixes' = fixes
      BY <2>1, <2>2
    <3> QED BY <1>1, <3>1 DEF TypeInv, FixesOK, FixType
  <2>3. CASE Leads(GapCut) /\ NewEnd < SymbolEnd(Syms[GapCut])
    <3>1. /\ GapCut \in DOMAIN Syms /\ Sized(Syms[GapCut])
          /\ NewEnd - Syms[GapCut].addr \in Nat /\ NewEnd - Syms[GapCut].addr > 0
      BY <2>3, ShortComdat DEF TypeInv
    <3>2. fix \in FixType
      BY <1>1, <3>1 DEF FixType
    <3>3. /\ fix[3] > 0 /\ fix[1] = sect /\ fix[2] = GapCut
          /\ Sized(symbols[fix[1]][fix[2]])
      BY <3>1 DEF Syms
    <3>4. fixes' = Append(fixes, fix)
      BY <2>1, <2>3
    <3> HIDE DEF fix
    <3>5. fixes \in Seq(FixType)
      BY DEF TypeInv, FixesOK
    <3>6. fixes' \in Seq(FixType) /\ \A k \in DOMAIN fixes' : (k \in DOMAIN fixes /\ fixes'[k] = fixes[k]) \/ fixes'[k] = fix
      BY <3>2, <3>4, <3>5
    <3>7. \A k \in DOMAIN fixes' :
            /\ fixes'[k][3] > 0
            /\ fixes'[k][2] \in DOMAIN symbols[fixes'[k][1]] => Sized(symbols[fixes'[k][1]][fixes'[k][2]])
      BY <3>3, <3>6 DEF TypeInv, FixesOK
    <3>8. FixType' = FixType
      BY <1>1 DEF FixType
    <3> QED BY <1>1, <3>6, <3>7, <3>8 DEF FixesOK
  <2> QED BY <2>2, <2>3
<1>4. FillersOK'
  BY <1>2 DEF FillersOK, TypeInv
<1> QED
  BY <1>1, <1>3, <1>4 DEF TypeInv, SymbolsOK

LEMMA FixSizesTypes ==
  ASSUME Shape, TypeInv, FixSizes, UNCHANGED fillers
  PROVE  TypeInv' /\ \A s \in DOMAIN sections : Keeps(symbols[s], symbols'[s])
<1>1. /\ pc = "add" /\ pc' = "common" /\ fixes' = <<>> /\ UNCHANGED <<sections, sect>>
      /\ DOMAIN symbols = DOMAIN sections
  BY DEF FixSizes, Shape, TypeInv, SymbolsOK
<1>2. ASSUME NEW s \in DOMAIN sections
      PROVE  symbols'[s] \in Seq(SymbolType) /\ Keeps(symbols[s], symbols'[s])
  <2> DEFINE syms == symbols[s]
             mine(i) == {f \in ToSet(fixes) : f[1] = s /\ f[2] = i}
             sizes(i) == {f[3] : f \in mine(i)}
             new == symbols'[s]
  <2>1. syms \in Seq(SymbolType)
    BY SymsAre DEF TypeInv
  <2>2. new = [i \in DOMAIN syms |-> IF mine(i) = {} THEN syms[i]
                                    ELSE [syms[i] EXCEPT !.size = Min(sizes(i))]]
    BY <1>1 DEF FixSizes
  <2>3. ASSUME NEW i \in DOMAIN syms
        PROVE  /\ new[i] \in SymbolType
               /\ new[i].addr = syms[i].addr /\ new[i].comdat = syms[i].comdat
               /\ new[i].align = syms[i].align /\ Sized(new[i]) = Sized(syms[i])
    <3>1. syms[i] \in SymbolType
      BY <2>1
    <3>2. CASE mine(i) = {}
      BY <2>2, <3>1, <3>2
    <3>3. CASE mine(i) # {}
      <4>1. \A f \in mine(i) : f[3] \in Nat /\ f[3] > 0 /\ Sized(syms[i])
        <5> TAKE f \in mine(i)
        <5>1. PICK k \in DOMAIN fixes : f = fixes[k]
          BY DEF ToSet
        <5>2. fixes[k] \in FixType
          BY <5>1 DEF TypeInv, FixesOK
        <5> QED BY <5>1, <5>2 DEF TypeInv, FixesOK, FixType
      <4>2. sizes(i) \subseteq Nat /\ sizes(i) # {} /\ \A n \in sizes(i) : n > 0
        BY <3>3, <4>1
      <4>3. Sized(syms[i])
        BY <3>3, <4>1
      <4>4. new[i] = [syms[i] EXCEPT !.size = Min(sizes(i))]
        BY <2>2, <3>3
      <4> HIDE DEF sizes, mine, new, syms
      <4>5. Min(sizes(i)) \in Nat /\ Min(sizes(i)) > 0
        BY <4>2, MinOfNaturals
      <4> QED BY <3>1, <4>3, <4>4, <4>5 DEF Sized, SymbolType
    <3> QED BY <3>2, <3>3
  <2>4. new = [i \in DOMAIN syms |-> new[i]]
    BY <2>2
  <2> HIDE DEF new, syms
  <2>5. new \in Seq(SymbolType) /\ Keeps(syms, new)
    BY <2>1, <2>3, <2>4, ResizedKeeps
  <2> QED BY <2>5 DEF new, syms
<1>3. symbols' = [s \in DOMAIN symbols |-> symbols'[s]]
  BY DEF FixSizes
<1>4. SymbolsOK'
  <2> DEFINE T == Seq(SymbolType)
             f == symbols'
  <2>1. symbols \in Seq(T) /\ f = [s \in DOMAIN symbols |-> f[s]] /\ \A s \in DOMAIN symbols : f[s] \in T
    BY <1>1, <1>2, <1>3 DEF TypeInv, SymbolsOK
  <2> HIDE DEF T, f
  <2>2. f \in Seq(T)
    BY <2>1, PerPosition
  <2>3. Len(f) = Len(symbols)
    BY <2>1, PerPosition
  <2> QED BY <1>1, <2>2, <2>3 DEF f, T, TypeInv, SymbolsOK
<1>5. FixesOK'
  BY <1>1 DEF FixesOK
<1>6. FillersOK'
  BY <1>1 DEF TypeInv, FillersOK
<1> QED
  BY <1>1, <1>2, <1>4, <1>5, <1>6 DEF TypeInv, Passes

\* What the second loop of add_padding_symbols does about a symbol.
LEMMA FillType ==
  ASSUME Shape, SymbolsOK, sect \in DOMAIN sections, NEW i \in WithSize
  PROVE  /\ Fill(i).what \in {"lbl", "gap"} =>
              Fill(i).sym \in SymbolType /\ Fill(i).sym.align = NoAlign
         /\ Fill(i).what = "truncate" => Fill(i).size \in Nat
<1>1. /\ Section \in SectionType /\ Syms \in Seq(SymbolType) /\ splits[sect] \in Seq(SplitType)
      /\ i \in DOMAIN Syms /\ Syms[i] \in SymbolType
  BY SplitsAre, SymsAre DEF Section, Syms, WithSize
<1> DEFINE from == SymbolEnd(Syms[i])
           to == FillEnd(i)
           next == Follower(i)
           start == AlignUp(from, next.align)
<1>2. from \in Nat /\ Syms[i].addr \in Nat /\ Syms[i].addr <= from
  BY <1>1 DEF SymbolEnd, SymbolType
<1>3. next.addr \in Nat /\ next.align \in Nat \ {0}
  <2> DEFINE behind == {j \in WithSize : j > i}
  <2>1. CASE behind = {}
    BY <1>1, <2>1 DEF Follower, SectionType
  <2>2. CASE behind # {}
    <3> DEFINE m == Min(behind)
               T == {1, Syms[m].align}
    <3>1. behind \subseteq DOMAIN Syms /\ behind \subseteq Nat
      BY <1>1 DEF WithSize
    <3>2. next = [addr |-> Syms[m].addr, align |-> Max(T)]
      BY <2>2 DEF Follower
    <3> HIDE DEF behind
    <3>3. m \in DOMAIN Syms
      BY <2>2, <3>1, MinOfNaturals
    <3> HIDE DEF m
    <3>4. Syms[m] \in SymbolType
      BY <1>1, <3>3
    <3>5. Syms[m].align \in Nat /\ Syms[m].addr \in Nat
      BY <3>4 DEF SymbolType
    <3>9. \A x \in T : x \in Nat
      BY <3>5
    <3>6. T \subseteq 0..(Syms[m].align + 1) /\ T # {} /\ 1 \in T /\ Syms[m].align + 1 \in Nat
      BY <3>5
    <3> HIDE DEF T, next
    <3>7. Max(T) \in T /\ Max(T) >= 1
      BY <3>6, MaxOfBounded
    <3>8. Max(T) \in Nat \ {0}
      BY <3>7, <3>9
    <3> QED BY <3>2, <3>5, <3>8
  <2> QED BY <2>1, <2>2
<1>4. to \in Nat /\ from <= to
  <2> DEFINE b == Boundary(splits[sect], Syms[i].addr, next.addr)
             T == {from, b}
  <2> HIDE DEF from, next
  <2>1. b \in Nat
    BY <1>1, <1>2, <1>3, BoundaryType
  <2>2. to = Max(T)
    BY DEF FillEnd, from, next
  <2> HIDE DEF b
  <2>5. \A x \in T : x \in Nat
    BY <1>2, <2>1
  <2>3. T \subseteq 0..(from + b) /\ T # {} /\ from \in T /\ from + b \in Nat
    BY <1>2, <2>1
  <2> HIDE DEF T, to
  <2>4. Max(T) \in T /\ from <= Max(T)
    BY <2>3, MaxOfBounded
  <2> QED BY <2>2, <2>4, <2>5
<1>5. start \in Nat
  BY <1>2, <1>3, Rounded
<1>6. ASSUME NEW what \in {"lbl", "gap"}, NEW at \in Nat, at < to
      PROVE  /\ Generated(Section, what, at, to) \in SymbolType
             /\ Generated(Section, what, at, to).align = NoAlign
  <2> HIDE DEF to
  <2>1. what \in {"pad", "lbl", "gap"}
    OBVIOUS
  <2>2. Generated(Section, what, at, to) \in SymbolType
    BY <1>1, <1>4, <1>6, <2>1, GeneratedType
  <2>3. Generated(Section, what, at, to).align = NoAlign
    BY <1>1, <1>4, <1>6, <2>1, GeneratedType
  <2> QED BY <2>2, <2>3
<1>7. \/ Fill(i) = [what |-> "none"]
      \/ from < to /\ Fill(i) = [what |-> "lbl", sym |-> Generated(Section, "lbl", from, to)]
      \/ start < to /\ Fill(i) = [what |-> "gap", sym |-> Generated(Section, "gap", start, to)]
      \/ Fill(i) = [what |-> "truncate", addr |-> Syms[i].addr, size |-> to - Syms[i].addr]
      \/ Fill(i) = [what |-> "overlap"]
  <2> HIDE DEF start, next
  <2>1. start = AlignUp(SymbolEnd(Syms[i]), Follower(i).align)
    BY DEF start, next
  <2> QED BY <1>2, <1>4, <2>1 DEF Fill
<1> HIDE DEF from, to, start, next
<1>8. to - Syms[i].addr \in Nat
  BY <1>2, <1>4
<1>9. CASE from < to /\ Fill(i) = [what |-> "lbl", sym |-> Generated(Section, "lbl", from, to)]
  BY <1>2, <1>6, <1>9
<1>10. CASE start < to /\ Fill(i) = [what |-> "gap", sym |-> Generated(Section, "gap", start, to)]
  BY <1>5, <1>6, <1>10
<1> QED
  BY <1>7, <1>8, <1>9, <1>10

LEMMA FillSectionTypes ==
  ASSUME Shape, TypeInv, FillSection
  PROVE  TypeInv'
<1> DEFINE added == {i \in DOMAIN Fills : Fills[i].what \in {"lbl", "gap"}}
<1>1. /\ pc = "fill" /\ sect <= Len(sections) /\ DOMAIN fillers = {}
      /\ UNCHANGED <<sections, fixes>> /\ fixes = <<>>
  BY DEF FillSection, TypeInv, FixesOK
<1>2. sect \in DOMAIN sections /\ DOMAIN symbols = DOMAIN sections /\ Syms \in Seq(SymbolType)
  <2>1. sect \in DOMAIN sections
    BY <1>1 DEF Shape
  <2> QED BY <2>1, SymsAre DEF TypeInv, Syms
<1>3. DOMAIN Fills \subseteq WithSize /\ \A i \in DOMAIN Fills : Fills[i] = Fill(i)
  BY DEF Fills
<1>4. \A i \in DOMAIN Fills :
        /\ Fills[i].what \in {"lbl", "gap"} =>
             Fills[i].sym \in SymbolType /\ Fills[i].sym.align = NoAlign
        /\ Fills[i].what = "truncate" => Fills[i].size \in Nat
  BY <1>2, <1>3, FillType DEF TypeInv
<1>5. CASE UNCHANGED <<sect, symbols, fillers>> /\ pc' = "bail"
  BY <1>1, <1>5, QuietTypes DEF Passes, TypeInv
<1>6. CASE /\ symbols' = [symbols EXCEPT ![sect] = [i \in DOMAIN @ |-> Shrunk(@[i], Fills)]]
           /\ fillers' = [i \in added |-> Fills[i].sym]
           /\ sect' = IF added = {} THEN sect + 1 ELSE sect
           /\ pc' = pc
  <2> DEFINE new == [i \in DOMAIN Syms |-> Shrunk(Syms[i], Fills)]
  <2>1. new \in Seq(SymbolType)
    <3>1. ASSUME NEW sym \in SymbolType
          PROVE  Shrunk(sym, Fills) \in SymbolType
      <4> DEFINE mine == {i \in DOMAIN Fills : Fills[i].what = "truncate" /\ Fills[i].addr = sym.addr}
      <4>1. CASE mine = {} \/ ~sym.known
        BY <4>1 DEF Shrunk
      <4>2. CASE mine # {} /\ sym.known
        <5>1. mine \subseteq 0..Len(Syms) /\ Len(Syms) \in Nat
          BY <1>2, <1>3 DEF WithSize
        <5>2. Shrunk(sym, Fills) = [sym EXCEPT !.size = Fills[Max(mine)].size]
          BY <4>2 DEF Shrunk
        <5>3. \A i \in mine : i \in DOMAIN Fills /\ Fills[i].what = "truncate"
          OBVIOUS
        <5> HIDE DEF mine
        <5>4. Max(mine) \in mine
          BY <4>2, <5>1, MaxOfBounded
        <5>5. Fills[Max(mine)].size \in Nat
          BY <1>4, <5>3, <5>4
        <5> QED BY <5>2, <5>5 DEF SymbolType
      <4> QED BY <4>1, <4>2
    <3>2. \A i \in DOMAIN Syms : Syms[i] \in SymbolType
      BY <1>2
    <3>3. new = [i \in DOMAIN Syms |-> new[i]] /\ \A i \in DOMAIN Syms : new[i] \in SymbolType
      BY <3>1, <3>2
    <3> HIDE DEF new
    <3> QED BY <1>2, <3>3, PerPosition
  <2>2. symbols' = [symbols EXCEPT ![sect] = new]
    BY <1>2, <1>6 DEF Syms
  <2> HIDE DEF new
  <2>3. SymbolsOK'
    BY <1>1, <1>2, <2>1, <2>2, OneSection DEF TypeInv
  <2>4. FillersOK'
    <3>1. added \subseteq Nat
      BY <1>2, <1>3 DEF WithSize
    <3>2. \A i \in added : Fills[i].sym \in SymbolType /\ Fills[i].sym.align = NoAlign
      BY <1>4
    <3> HIDE DEF added
    <3>3. DOMAIN fillers' = added /\ \A i \in added : fillers'[i] = Fills[i].sym
      BY <1>6
    <3> QED BY <1>1, <1>6, <3>1, <3>2, <3>3 DEF FillersOK
  <2>5. FixesOK'
    BY <1>1 DEF FixesOK
  <2>6. (sect <= Len(sections) + 1)'
    BY <1>1, <1>2, <1>6 DEF Shape
  <2> QED BY <1>1, <1>6, <2>3, <2>4, <2>5, <2>6 DEF TypeInv, Passes
<1> QED
  BY <1>5, <1>6 DEF FillSection

LEMMA AddFillerTypes ==
  ASSUME Shape, TypeInv, AddFiller
  PROVE  TypeInv'
<1> DEFINE first == Min(DOMAIN fillers)
           new == AddSymbol(symbols[sect], fillers[first])
<1>1. /\ pc = "fill" /\ DOMAIN fillers # {} /\ sect <= Len(sections)
      /\ UNCHANGED <<sections, fixes, pc>> /\ fixes = <<>>
      /\ symbols' = [symbols EXCEPT ![sect] = new]
      /\ fillers' = [i \in DOMAIN fillers \ {first} |-> fillers[i]]
      /\ sect' = IF DOMAIN fillers = {first} THEN sect + 1 ELSE sect
  BY DEF AddFiller, TypeInv, FixesOK, FillersOK
<1>2. sect \in DOMAIN sections
  BY <1>1 DEF Shape
<1>3. symbols[sect] \in Seq(SymbolType) /\ DOMAIN symbols = DOMAIN sections
  BY <1>2, SymsAre DEF TypeInv
<1>4. first \in DOMAIN fillers
  BY <1>1, MinOfNaturals DEF TypeInv, FillersOK
<1>5. new \in Seq(SymbolType)
  BY <1>3, <1>4, AddSymbolKeeps DEF TypeInv, FillersOK
<1> HIDE DEF first, new
<1>6. SymbolsOK'
  BY <1>1, <1>2, <1>5, OneSection DEF TypeInv
<1>7. DOMAIN fillers' \subseteq DOMAIN fillers /\ \A i \in DOMAIN fillers' : fillers'[i] = fillers[i]
  BY <1>1
<1>8. DOMAIN fillers' # {} => sect' = sect
  BY <1>1, <1>4
<1>9. FillersOK'
  BY <1>1, <1>7, <1>8 DEF TypeInv, FillersOK
<1>10. FixesOK'
  BY <1>1 DEF FixesOK
<1>11. (sect <= Len(sections) + 1)'
  BY <1>1, <1>2
<1> QED
  BY <1>1, <1>6, <1>9, <1>10, <1>11 DEF TypeInv, Passes

\* Every other step leaves the symbols alone.
LEMMA OtherTypes ==
  ASSUME Shape, TypeInv, UNCHANGED fillers,
         GapOverlap \/ GapError \/ TakeSplit \/ NextSection \/ AddGap \/ Trim \/ UpdateCommon
           \/ ValidateSplit \/ SplitInvalid \/ SplitsOfNext \/ Validated \/ Padded \/ Filled
  PROVE  TypeInv' /\ UNCHANGED symbols
<1>1. UNCHANGED <<sections, symbols, fixes>>
  BY DEF GapOverlap, GapError, TakeSplit, NextSection, AddGap, Trim, UpdateCommon,
         ValidateSplit, SplitInvalid, SplitsOfNext, Validated, Padded, Filled
<1>2. pc' \in Passes
  <2>1. pc' \in {pc, "bail", "gaps", "add", "truncate", "pad", "done", "fill", "filled"}
    <3>1. CASE GapOverlap \/ GapError \/ TakeSplit \/ NextSection \/ AddGap
      BY <3>1 DEF GapOverlap, GapError, TakeSplit, NextSection, AddGap
    <3>2. CASE Trim \/ UpdateCommon \/ ValidateSplit \/ SplitInvalid
      BY <3>2 DEF Trim, UpdateCommon, ValidateSplit, SplitInvalid
    <3>3. CASE SplitsOfNext \/ Validated \/ Padded \/ Filled
      BY <3>3 DEF SplitsOfNext, Validated, Padded, Filled
    <3> QED BY <3>1, <3>2, <3>3
  <2> QED BY <2>1 DEF TypeInv, Passes
<1>3. sect' \in {1, sect} \/ (sect' = sect + 1 /\ sect <= Len(sections))
  <2>1. CASE GapOverlap \/ GapError \/ TakeSplit \/ NextSection \/ AddGap
    BY <2>1 DEF GapOverlap, GapError, TakeSplit, NextSection, AddGap, AtSection
  <2>2. CASE Trim \/ UpdateCommon \/ ValidateSplit \/ SplitInvalid
    BY <2>2 DEF Trim, UpdateCommon, ValidateSplit, SplitInvalid, AtSection
  <2>3. CASE SplitsOfNext \/ Validated \/ Padded \/ Filled
    BY <2>3 DEF SplitsOfNext, Validated, Padded, Filled
  <2> QED BY <2>1, <2>2, <2>3
<1>4. pc' \notin {"gaps", "add", "bail"} => pc \notin {"gaps", "add", "bail"}
  BY DEF GapOverlap, GapError, TakeSplit, NextSection, AddGap, Trim, UpdateCommon,
         ValidateSplit, SplitInvalid, SplitsOfNext, Validated, Padded, Filled, InSection
<1>5. pc = "fill" => sect > Len(sections)
  BY DEF GapOverlap, GapError, TakeSplit, NextSection, AddGap, Trim, UpdateCommon,
         ValidateSplit, SplitInvalid, SplitsOfNext, Validated, Padded, Filled, InSection
<1>6. DOMAIN fillers = {}
  <2>1. sect \in Nat /\ Len(sections) \in Nat
    BY DEF Shape
  <2>2. DOMAIN fillers # {} => pc = "fill" /\ sect <= Len(sections)
    BY DEF TypeInv, FillersOK
  <2>3. ~(pc = "fill" /\ sect <= Len(sections))
    BY <1>5, <2>1
  <2> QED BY <2>2, <2>3
<1>7. pc' \notin {"gaps", "add", "bail"} => fixes = <<>>
  BY <1>4 DEF TypeInv, FixesOK
<1>8. sect' <= Len(sections) + 1
  BY <1>3 DEF TypeInv, Shape
<1> QED
  BY <1>1, <1>2, <1>6, <1>7, <1>8, QuietTypes

LEMMA StepTypes ==
  ASSUME Shape, TypeInv, UStep
  PROVE  TypeInv'
<1>1. CASE GapStep /\ UNCHANGED fillers
  BY <1>1, OtherTypes, MakeGapTypes, FixSizesTypes DEF GapStep
<1>2. CASE Truncate \/ PadSplit
  BY <1>2, TruncateTypes, PadTypes
<1>3. CASE FillSection \/ AddFiller
  BY <1>3, FillSectionTypes, AddFillerTypes
<1>4. CASE Trim \/ UpdateCommon \/ ValidateSplit \/ SplitInvalid \/ SplitsOfNext \/ Validated
             \/ Padded \/ Filled
  <2>1. UNCHANGED fillers
    BY <1>4 DEF Trim, UpdateCommon, ValidateSplit, SplitInvalid, SplitsOfNext, Validated,
                Padded, Filled
  <2> QED BY <1>4, <2>1, OtherTypes
<1> QED
  BY <1>1, <1>2, <1>3, <1>4 DEF UStep

LEMMA InitTypes ==
  ASSUME UInit
  PROVE  TypeInv
<1>1. PICK o \in Objects : sections = o.sections /\ splits = o.splits /\ symbols = o.symbols
  BY DEF UInit
<1>2. sections \in Seq(SectionType) /\ SymbolsOK
  BY <1>1, ObjectAssumption DEF SymbolsOK
<1>3. fixes = <<>> /\ fillers = <<>> /\ sect = 1 /\ pc = "trim"
  BY DEF UInit
<1>4. fixes \in Seq(FixType)
  BY <1>3 DEF FixType
<1>5. FixesOK
  BY <1>3, <1>4 DEF FixesOK
<1>6. FillersOK
  BY <1>3 DEF FillersOK
<1>7. sect <= Len(sections) + 1
  BY <1>2, <1>3
<1> QED
  BY <1>2, <1>3, <1>5, <1>6, <1>7 DEF TypeInv, Passes

LEMMA SameTypes ==
  ASSUME TypeInv, UNCHANGED allVars
  PROVE  TypeInv'
BY DEF TypeInv, SymbolsOK, FixesOK, FixType, FillersOK, Passes, allVars, gapVars

LEMMA TypesGiven ==
  ASSUME Shape, TypeInv
  PROVE  UTypeOK
<1>1. /\ sections \in Seq(SectionType)
      /\ splits \in Seq(Seq(SplitType)) /\ Len(splits) = Len(sections)
      /\ cur \in Nat /\ nth \in Nat \ {0} /\ rename \in SectionNames
      /\ gaps \in Seq([sect : DOMAIN sections, split : SplitType])
  BY DEF Shape, GapType
<1>2. /\ symbols \in Seq(Seq(SymbolType)) /\ Len(symbols) = Len(sections)
      /\ fixes \in Seq((DOMAIN sections) \X Nat \X Nat)
  BY DEF TypeInv, SymbolsOK, FixesOK, FixType
<1>3. DOMAIN fillers \subseteq Nat /\ \A i \in DOMAIN fillers : fillers[i] \in SymbolType
  BY DEF TypeInv, FillersOK
<1>4. sect \in 1..(Len(sections) + 1)
  BY DEF TypeInv, Shape
<1>5. pc \in {"trim", "gaps", "add", "common", "truncate", "validate", "pad", "fill",
             "done", "filled", "bail"}
  BY DEF TypeInv, Passes
<1> QED
  BY <1>1, <1>2, <1>3, <1>4, <1>5 DEF UTypeOK

-----------------------------------------------------------------------------
(* Every part of a section is in a split, or in front of one: what holds of a  *)
(* section, its symbols, its splits, and the gaps that are to become splits.   *)

HasComdat(syms, x) ==
  \E sym \in ToSet(syms) : sym.comdat /\ x.addr <= sym.addr /\ sym.addr < x.end

Items(ss, pend) == ToSet(ss) \cup pend

\* A split begins where the section does, or an earlier one ends, but for padding.
Follows(sec, syms, items, x) ==
  \/ sec.start <= x.addr /\ OnlyPadding(sec.start, x.addr, Alignment(sec, syms, x))
  \/ \E y \in items : /\ y.addr < x.addr /\ y.end <= x.addr
                      /\ OnlyPadding(y.end, x.addr, Alignment(sec, syms, x))

\* It is not the first at its address.
Twin(ss, k) == k > 1 /\ ss[k - 1].addr = ss[k].addr

\* The walk passes over a split that an earlier one runs into; validate_splits refuses it.
SplitPlaced(sec, syms, items, ss, k) ==
  \/ ss[k].addr >= sec.end
  \/ Twin(ss, k)
  \/ Follows(sec, syms, items, ss[k])
  \/ \E y \in items : y.addr < ss[k].addr /\ ss[k].addr < y.end

GapPlaced(sec, syms, items, ss, g) ==
  /\ g.addr < g.end
  /\ \/ Follows(sec, syms, items, g)
     \/ \E j \in DOMAIN ss : ss[j].addr = g.addr /\ ss[j].end = g.addr
  /\ g.end <= sec.end \/ HasComdat(syms, g)

EndReached(sec, items) ==
  \E y \in items : y.addr < sec.end /\ OnlyPadding(y.end, sec.end, sec.align)

\* Only the last split is trimmed, but one in front of it can not go further.
Bounded(sec, syms, ss) ==
  \A i \in DOMAIN ss : \/ ss[i].end <= sec.end \/ HasComdat(syms, ss[i])
                       \/ \E j \in DOMAIN ss : i < j /\ ss[j].end <= sec.end

Tiled(sec, syms, ss, pend) ==
  /\ Bounded(sec, syms, ss)
  /\ EndReached(sec, Items(ss, pend))
  /\ \A k \in DOMAIN ss : SplitPlaced(sec, syms, Items(ss, pend), ss, k)
  /\ \A g \in pend : GapPlaced(sec, syms, Items(ss, pend), ss, g)

\* The alignments of a section's symbols have a bound.
LEMMA AlignsBounded ==
  ASSUME NEW syms \in Seq(SymbolType)
  PROVE  \E b \in Nat : \A i \in DOMAIN syms : syms[i].align <= b
<1> DEFINE Ok(n) == \E b \in Nat : \A i \in DOMAIN syms : i <= n => syms[i].align <= b
           Bad == {n \in 0..Len(syms) : ~Ok(n)}
<1>1. Len(syms) \in Nat /\ DOMAIN syms = 1..Len(syms)
      /\ \A i \in DOMAIN syms : syms[i] \in SymbolType /\ syms[i].align \in Nat
  <2>1. \A i \in DOMAIN syms : syms[i] \in SymbolType
    OBVIOUS
  <2> QED BY <2>1 DEF SymbolType
<1>2. CASE Bad = {}
  <2>1. Ok(Len(syms))
    <3>1. Len(syms) \notin Bad
      <4> HIDE DEF Bad
      <4> QED BY <1>2
    <3>2. Len(syms) \in 0..Len(syms)
      BY <1>1
    <3> HIDE DEF Ok
    <3> QED BY <3>1, <3>2
  <2> QED BY <1>1, <2>1
<1>3. CASE Bad # {}
  <2>1. Bad \subseteq Nat
    OBVIOUS
  <2> DEFINE m == Min(Bad)
  <2>2. m \in Bad /\ \A n \in Bad : m <= n
    <3> HIDE DEF Bad
    <3> QED BY <1>3, <2>1, MinOfNaturals
  <2>3. m \in 0..Len(syms) /\ ~Ok(m)
    BY <2>2
  <2> HIDE DEF m
  <2>4. m # 0
    <3>1. Ok(0)
      BY <1>1
    <3> QED BY <2>3, <3>1
  <2>5. m - 1 \in 0..Len(syms) /\ m - 1 < m /\ m \in DOMAIN syms
    BY <1>1, <2>3, <2>4
  <2>6. Ok(m - 1)
    <3>1. m - 1 \notin Bad
      <4> HIDE DEF Bad
      <4> QED BY <1>1, <2>2, <2>3, <2>5
    <3> HIDE DEF Ok
    <3> QED BY <2>5, <3>1
  <2>7. PICK b \in Nat : \A i \in DOMAIN syms : i <= m - 1 => syms[i].align <= b
    BY <2>6
  <2>8. b + syms[m].align \in Nat /\ \A i \in DOMAIN syms : i <= m => syms[i].align <= b + syms[m].align
    <3>1. syms[m].align \in Nat
      BY <1>1, <2>5
    <3>2. ASSUME NEW i \in DOMAIN syms, i <= m
          PROVE  syms[i].align <= b + syms[m].align
      <4>1. CASE i = m
        BY <3>1, <4>1
      <4>2. CASE i # m
        <5>1. i <= m - 1
          BY <1>1, <2>3, <3>2, <4>2
        <5>2. syms[i].align <= b /\ syms[i].align \in Nat
          BY <1>1, <2>7, <5>1
        <5> QED BY <3>1, <5>2
      <4> QED BY <4>1, <4>2
    <3> QED BY <3>1, <3>2
  <2>9. Ok(m)
    BY <2>8
  <2> QED BY <2>3, <2>9
<1> QED BY <1>2, <1>3

LEMMA AlignmentType ==
  ASSUME NEW sec \in SectionType, NEW syms \in Seq(SymbolType), NEW x \in SplitType
  PROVE  Alignment(sec, syms, x) \in Nat \ {0}
<1> DEFINE idx == {j \in InRange(syms, x.addr, x.end) : Sized(syms[j])}
           aligns == {syms[i].align : i \in idx}
           T == aligns \cup {sec.align}
<1>1. x.align \in Nat /\ sec.align \in Nat \ {0}
  BY DEF SplitType, SectionType
<1>2. CASE x.align # NoAlign
  BY <1>1, <1>2 DEF Alignment, NoAlign
<1>3. CASE x.align = NoAlign
  <2>1. PICK b \in Nat : \A i \in DOMAIN syms : syms[i].align <= b
    BY AlignsBounded
  <2>2. \A i \in DOMAIN syms : syms[i].align \in Nat
    <3>1. \A i \in DOMAIN syms : syms[i] \in SymbolType
      OBVIOUS
    <3> QED BY <3>1 DEF SymbolType
  <2>3. idx \subseteq DOMAIN syms
    BY DEF InRange
  <2> HIDE DEF idx
  <2>4. \A y \in T : y \in Nat /\ y <= b + sec.align
    BY <1>1, <2>1, <2>2, <2>3
  <2>5. b + sec.align \in Nat /\ sec.align \in T
    BY <1>1
  <2>6. Alignment(sec, syms, x) = Max(T)
    BY <1>3 DEF Alignment, idx
  <2> HIDE DEF T
  <2>7. T \subseteq 0..(b + sec.align) /\ T # {}
    BY <2>4, <2>5
  <2>8. Max(T) \in T /\ sec.align <= Max(T)
    BY <2>5, <2>7, MaxOfBounded
  <2>9. Max(T) \in Nat
    BY <2>4, <2>8
  <2> QED BY <1>1, <2>6, <2>8, <2>9
<1> QED BY <1>2, <1>3

\* A zero among numbers of which one is positive is not the largest.
LEMMA MaxWithZero ==
  ASSUME NEW T, T \subseteq Nat, NEW a \in T, a > 0
  PROVE  Max(T \cup {0}) = Max(T)
<1>1. \A x : (x \in T /\ \A y \in T : x >= y) <=> (x \in T \cup {0} /\ \A y \in T \cup {0} : x >= y)
  <2> TAKE x
  <2>1. \A y \in T : y \in Nat
    OBVIOUS
  <2>2. CASE x \in T
    BY <2>1, <2>2
  <2>3. CASE x \notin T
    BY <2>1, <2>3
  <2> QED BY <2>2, <2>3
<1> QED BY <1>1 DEF Max

\* The alignment of a split is the same for symbols that keep their own.
LEMMA SameAlignment ==
  ASSUME NEW sec \in SectionType, NEW syms \in Seq(SymbolType), NEW new \in Seq(SymbolType),
         Keeps(syms, new), NEW x, NEW y,
         y.addr = x.addr, y.end = x.end, y.align = x.align
  PROVE  Alignment(sec, new, y) = Alignment(sec, syms, x)
<1> DEFINE of(ss) == {ss[i].align : i \in {j \in InRange(ss, x.addr, x.end) : Sized(ss[j])}}
           A == of(syms) \cup {sec.align}
           B == of(new) \cup {sec.align}
<1>1. CASE x.align # NoAlign
  BY <1>1 DEF Alignment
<1>2. CASE x.align = NoAlign
  <2>1. A \cup {0} = B \cup {0}
    <3>1. ASSUME NEW i \in InRange(syms, x.addr, x.end), Sized(syms[i])
          PROVE  syms[i].align \in of(new)
      <4>1. PICK j \in DOMAIN new : /\ new[j].addr = syms[i].addr /\ Sized(new[j])
                                   /\ new[j].align = syms[i].align
        BY <3>1 DEF InRange, Keeps
      <4>2. j \in InRange(new, x.addr, x.end)
        BY <4>1 DEF InRange
      <4> QED BY <4>1, <4>2
    <3>2. ASSUME NEW j \in InRange(new, x.addr, x.end), Sized(new[j])
          PROVE  new[j].align \in of(syms) \cup {0}
      <4>1. CASE new[j].align = NoAlign
        BY <4>1 DEF NoAlign
      <4>2. CASE new[j].align # NoAlign
        <5>1. PICK i \in DOMAIN syms : /\ Sized(syms[i]) /\ syms[i].addr = new[j].addr
                                      /\ syms[i].align = new[j].align
          BY <3>2, <4>2 DEF InRange, Keeps
        <5>2. i \in InRange(syms, x.addr, x.end)
          BY <5>1 DEF InRange
        <5> QED BY <5>1, <5>2
      <4> QED BY <4>1, <4>2
    <3>3. \A a \in of(syms) : a \in of(new)
      BY <3>1
    <3>4. \A a \in of(new) : a \in of(syms) \cup {0}
      BY <3>2
    <3> QED BY <3>3, <3>4
  <2>2. A \subseteq Nat /\ B \subseteq Nat /\ sec.align \in Nat /\ sec.align > 0
    <3>1. (\A i \in DOMAIN syms : syms[i] \in SymbolType) /\ \A i \in DOMAIN new : new[i] \in SymbolType
      OBVIOUS
    <3> QED BY <3>1 DEF InRange, SymbolType, SectionType
  <2>3. sec.align \in A /\ sec.align \in B
    OBVIOUS
  <2>4. Alignment(sec, syms, x) = Max(A) /\ Alignment(sec, new, y) = Max(B)
    BY <1>2 DEF Alignment
  <2> HIDE DEF A, B
  <2>5. Max(A \cup {0}) = Max(A) /\ Max(B \cup {0}) = Max(B)
    BY <2>2, <2>3, MaxWithZero
  <2> QED BY <2>1, <2>4, <2>5
<1> QED BY <1>1, <1>2

LEMMA SameComdat ==
  ASSUME NEW syms \in Seq(SymbolType), NEW new \in Seq(SymbolType), Keeps(syms, new),
         NEW x, NEW y, y.addr = x.addr, y.end = x.end, HasComdat(syms, x)
  PROVE  HasComdat(new, y)
<1>1. PICK i \in DOMAIN syms : syms[i].comdat /\ x.addr <= syms[i].addr /\ syms[i].addr < x.end
  BY DEF HasComdat, ToSet
<1>2. PICK j \in DOMAIN new : new[j].addr = syms[i].addr /\ new[j].comdat = syms[i].comdat
  BY DEF Keeps
<1> QED BY <1>1, <1>2 DEF HasComdat, ToSet

\* Splits in the same place, that ask for the same alignment.
Alike(x, y) == y.addr = x.addr /\ y.end = x.end /\ y.align = x.align

\* More items, and symbols that keep theirs, leave a split where it is placed.
LEMMA FollowsKept ==
  ASSUME NEW sec \in SectionType, NEW syms \in Seq(SymbolType), NEW new \in Seq(SymbolType),
         Keeps(syms, new), NEW items, NEW others,
         \A y \in items : \E z \in others : Alike(y, z),
         NEW x, NEW z, Alike(x, z), Follows(sec, syms, items, x)
  PROVE  Follows(sec, new, others, z)
<1>1. Alignment(sec, new, z) = Alignment(sec, syms, x)
  BY SameAlignment DEF Alike
<1>2. CASE sec.start <= x.addr /\ OnlyPadding(sec.start, x.addr, Alignment(sec, syms, x))
  BY <1>1, <1>2 DEF Follows, Alike
<1>3. CASE \E y \in items : /\ y.addr < x.addr /\ y.end <= x.addr
                            /\ OnlyPadding(y.end, x.addr, Alignment(sec, syms, x))
  <2>1. PICK y \in items : /\ y.addr < x.addr /\ y.end <= x.addr
                           /\ OnlyPadding(y.end, x.addr, Alignment(sec, syms, x))
    BY <1>3
  <2>2. PICK w \in others : Alike(y, w)
    OBVIOUS
  <2>3. w.addr < z.addr /\ w.end <= z.addr /\ OnlyPadding(w.end, z.addr, Alignment(sec, new, z))
    BY <1>1, <2>1, <2>2 DEF Alike
  <2> QED BY <2>3 DEF Follows
<1> QED BY <1>2, <1>3 DEF Follows

LEMMA SplitPlacedKept ==
  ASSUME NEW sec \in SectionType, NEW syms \in Seq(SymbolType), NEW new \in Seq(SymbolType),
         Keeps(syms, new), NEW items, NEW others,
         \A y \in items : \E z \in others : Alike(y, z),
         NEW ss, NEW tt, NEW k, NEW l, Alike(ss[k], tt[l]), Twin(ss, k) => Twin(tt, l),
         SplitPlaced(sec, syms, items, ss, k)
  PROVE  SplitPlaced(sec, new, others, tt, l)
<1>1. CASE ss[k].addr >= sec.end \/ Twin(ss, k)
  BY <1>1 DEF SplitPlaced, Alike
<1>2. CASE Follows(sec, syms, items, ss[k])
  BY <1>2, FollowsKept DEF SplitPlaced
<1>3. CASE \E y \in items : y.addr < ss[k].addr /\ ss[k].addr < y.end
  BY <1>3 DEF SplitPlaced, Alike
<1> QED BY <1>1, <1>2, <1>3 DEF SplitPlaced

LEMMA GapPlacedKept ==
  ASSUME NEW sec \in SectionType, NEW syms \in Seq(SymbolType), NEW new \in Seq(SymbolType),
         Keeps(syms, new), NEW items, NEW others,
         \A y \in items : \E z \in others : Alike(y, z),
         NEW ss, NEW tt, \A i \in DOMAIN ss : \E j \in DOMAIN tt : Alike(ss[i], tt[j]),
         NEW g, GapPlaced(sec, syms, items, ss, g)
  PROVE  GapPlaced(sec, new, others, tt, g)
<1>1. Alike(g, g)
  BY DEF Alike
<1>2. Follows(sec, syms, items, g) => Follows(sec, new, others, g)
  BY <1>1, FollowsKept
<1>3. (\E j \in DOMAIN ss : ss[j].addr = g.addr /\ ss[j].end = g.addr)
        => \E j \in DOMAIN tt : tt[j].addr = g.addr /\ tt[j].end = g.addr
  BY DEF Alike
<1>4. HasComdat(syms, g) => HasComdat(new, g)
  BY SameComdat
<1> QED BY <1>2, <1>3, <1>4 DEF GapPlaced

LEMMA TiledKept ==
  ASSUME NEW sec \in SectionType, NEW syms \in Seq(SymbolType), NEW new \in Seq(SymbolType),
         Keeps(syms, new),
         NEW ss \in Seq(SplitType), NEW tt \in Seq(SplitType), Len(tt) = Len(ss),
         \A i \in DOMAIN ss : Alike(ss[i], tt[i]),
         NEW pend, Tiled(sec, syms, ss, pend)
  PROVE  Tiled(sec, new, tt, pend)
<1>1. DOMAIN tt = DOMAIN ss /\ DOMAIN ss = 1..Len(ss) /\ Len(ss) \in Nat
  OBVIOUS
<1>2. \A y \in Items(ss, pend) : \E z \in Items(tt, pend) : Alike(y, z)
  BY <1>1 DEF Items, ToSet, Alike
<1>3. Bounded(sec, new, tt)
  <2> SUFFICES ASSUME NEW i \in DOMAIN ss
               PROVE  \/ tt[i].end <= sec.end \/ HasComdat(new, tt[i])
                      \/ \E j \in DOMAIN tt : i < j /\ tt[j].end <= sec.end
    BY <1>1 DEF Bounded
  <2>1. HasComdat(syms, ss[i]) => HasComdat(new, tt[i])
    BY SameComdat DEF Alike
  <2> QED BY <1>1, <2>1 DEF Tiled, Bounded, Alike
<1>4. EndReached(sec, Items(tt, pend))
  BY <1>2 DEF Tiled, EndReached, Alike
<1>5. ASSUME NEW k \in DOMAIN tt
      PROVE  SplitPlaced(sec, new, Items(tt, pend), tt, k)
  <2>1. k \in DOMAIN ss /\ Alike(ss[k], tt[k]) /\ SplitPlaced(sec, syms, Items(ss, pend), ss, k)
    BY <1>1 DEF Tiled
  <2>2. Twin(ss, k) => Twin(tt, k)
    <3> SUFFICES ASSUME Twin(ss, k)
                 PROVE  Twin(tt, k)
      OBVIOUS
    <3>1. k - 1 \in DOMAIN ss
      BY <1>1, <2>1 DEF Twin
    <3> QED BY <2>1, <3>1 DEF Twin, Alike
  <2> QED BY <1>2, <2>1, <2>2, SplitPlacedKept
<1>6. ASSUME NEW g \in pend
      PROVE  GapPlaced(sec, new, Items(tt, pend), tt, g)
  BY <1>1, <1>2, GapPlacedKept DEF Tiled
<1> QED BY <1>3, <1>4, <1>5, <1>6 DEF Tiled

\* ObjSplits::push puts a split behind those that start, and end, no further.
LEMMA PushAt ==
  ASSUME NEW ss \in Seq(SplitType), InOrder(ss), NEW g \in SplitType
  PROVE  \E p \in 0..Len(ss) :
           /\ Push(ss, g) = PutBehind(ss, p, g)
           /\ \A i \in 1..p : ss[i].addr <= g.addr
           /\ \A i \in p + 1..Len(ss) : /\ g.addr <= ss[i].addr
                                        /\ g.addr = ss[i].addr => g.end < ss[i].end
<1> DEFINE before == {i \in DOMAIN ss : \/ ss[i].addr < g.addr
                                        \/ ss[i].addr = g.addr /\ ss[i].end <= g.end}
           T == {0} \cup before
           p == Max(T)
<1>1. /\ DOMAIN ss = 1..Len(ss) /\ Len(ss) \in Nat /\ g.addr \in Nat /\ g.end \in Nat
      /\ \A i \in DOMAIN ss : ss[i].addr \in Nat /\ ss[i].end \in Nat
  <2>1. \A i \in DOMAIN ss : ss[i] \in SplitType
    OBVIOUS
  <2> QED BY <2>1 DEF SplitType
<1>2. T \subseteq 0..Len(ss) /\ T # {}
  BY <1>1
<1>3. Push(ss, g) = PutBehind(ss, p, g)
  BY DEF Push
<1>4. \A i \in DOMAIN ss : i \notin T =>
        /\ g.addr <= ss[i].addr
        /\ g.addr = ss[i].addr => g.end < ss[i].end
  BY <1>1
<1>5. \A i \in T : i = 0 \/ (i \in DOMAIN ss /\ ss[i].addr <= g.addr)
  BY <1>1
<1> HIDE DEF T
<1>6. p \in T /\ \A i \in T : i <= p
  BY <1>1, <1>2, MaxOfBounded
<1>7. p \in 0..Len(ss)
  BY <1>2, <1>6
<1> HIDE DEF p
<1>8. ASSUME NEW i \in 1..p
      PROVE  ss[i].addr <= g.addr
  <2>1. p \in DOMAIN ss /\ i \in DOMAIN ss /\ ss[p].addr <= g.addr
    BY <1>1, <1>5, <1>6, <1>7
  <2>2. CASE i = p
    BY <2>1, <2>2
  <2>3. CASE i # p
    <3>1. i < p
      BY <1>7, <2>3
    <3>2. ss[i].addr <= ss[p].addr
      BY <2>1, <3>1 DEF InOrder
    <3> QED BY <1>1, <2>1, <3>2
  <2> QED BY <2>2, <2>3
<1>9. ASSUME NEW i \in p + 1..Len(ss)
      PROVE  g.addr <= ss[i].addr /\ (g.addr = ss[i].addr => g.end < ss[i].end)
  <2>1. i \in DOMAIN ss /\ ~(i <= p)
    BY <1>1, <1>7
  <2>2. i \notin T
    BY <1>6, <2>1
  <2> QED BY <1>4, <2>1, <2>2
<1> QED BY <1>3, <1>7, <1>8, <1>9

\* What is where in the splits of a section after a gap was put behind the p-th.
PutAt(ss, g, new, p) ==
  /\ new \in Seq(SplitType) /\ Len(new) = Len(ss) + 1
  /\ \A i \in 1..p : new[i] = ss[i]
  /\ new[p + 1] = g
  /\ \A i \in p + 1..Len(ss) : new[i + 1] = ss[i]
  /\ \A i \in 1..p : ss[i].addr <= g.addr
  /\ \A i \in p + 1..Len(ss) : /\ g.addr <= ss[i].addr
                               /\ g.addr = ss[i].addr => g.end < ss[i].end

LEMMA Pushed ==
  ASSUME NEW ss \in Seq(SplitType), InOrder(ss), NEW g \in SplitType,
         NEW new, new = Push(ss, g)
  PROVE  \E p \in 0..Len(ss) : PutAt(ss, g, new, p)
<1>1. PICK p \in 0..Len(ss) :
           /\ new = PutBehind(ss, p, g)
           /\ \A i \in 1..p : ss[i].addr <= g.addr
           /\ \A i \in p + 1..Len(ss) : /\ g.addr <= ss[i].addr
                                        /\ g.addr = ss[i].addr => g.end < ss[i].end
  BY PushAt
<1>2. /\ new \in Seq(SplitType) /\ Len(new) = Len(ss) + 1
      /\ \A i \in 1..p : new[i] = ss[i]
      /\ new[p + 1] = g
      /\ \A i \in p + 1..Len(ss) : new[i + 1] = ss[i]
  <2>1. new = PutBehind(ss, p, g)
    BY <1>1
  <2>2. new \in Seq(SplitType) /\ Inserted(ss, p, g, new)
    BY <2>1, PutBehindAt
  <2> QED BY <2>2 DEF Inserted
<1> QED BY <1>1, <1>2, Zenon DEF PutAt

\* Where each element of the new sequence comes from.
LEMMA PushedFrom ==
  ASSUME NEW ss \in Seq(SplitType), NEW new \in Seq(SplitType), NEW p \in 0..Len(ss), NEW g,
         PutAt(ss, g, new, p)
  PROVE  /\ \A k \in DOMAIN new : \/ k \in 1..p /\ k \in DOMAIN ss /\ new[k] = ss[k]
                                  \/ k = p + 1 /\ new[k] = g
                                  \/ k - 1 \in p + 1..Len(ss) /\ k - 1 \in DOMAIN ss /\ new[k] = ss[k - 1]
         /\ \A k \in DOMAIN ss : \/ k \in 1..p /\ k \in DOMAIN new /\ new[k] = ss[k]
                                 \/ k \in p + 1..Len(ss) /\ k + 1 \in DOMAIN new /\ new[k + 1] = ss[k]
         /\ p + 1 \in DOMAIN new
         /\ ToSet(new) = ToSet(ss) \cup {g}
<1>1. /\ DOMAIN ss = 1..Len(ss) /\ Len(ss) \in Nat /\ DOMAIN new = 1..(Len(ss) + 1)
      /\ \A i \in 1..p : new[i] = ss[i]
      /\ new[p + 1] = g
      /\ \A i \in p + 1..Len(ss) : new[i + 1] = ss[i]
  BY DEF PutAt
<1>2. ASSUME NEW k \in DOMAIN new
      PROVE  \/ k \in 1..p /\ k \in DOMAIN ss /\ new[k] = ss[k]
             \/ k = p + 1 /\ new[k] = g
             \/ k - 1 \in p + 1..Len(ss) /\ k - 1 \in DOMAIN ss /\ new[k] = ss[k - 1]
  <2>1. CASE k <= p
    BY <1>1, <2>1
  <2>2. CASE k = p + 1
    BY <1>1, <2>2
  <2>3. CASE k > p + 1
    <3>1. k - 1 \in p + 1..Len(ss) /\ k - 1 \in DOMAIN ss /\ (k - 1) + 1 = k
      BY <1>1, <2>3
    <3> QED BY <1>1, <3>1
  <2> QED BY <1>1, <2>1, <2>2, <2>3
<1>3. ASSUME NEW k \in DOMAIN ss
      PROVE  \/ k \in 1..p /\ k \in DOMAIN new /\ new[k] = ss[k]
             \/ k \in p + 1..Len(ss) /\ k + 1 \in DOMAIN new /\ new[k + 1] = ss[k]
  <2>1. CASE k <= p
    BY <1>1, <2>1
  <2>2. CASE ~(k <= p)
    BY <1>1, <2>2
  <2> QED BY <2>1, <2>2
<1>4. p + 1 \in DOMAIN new
  BY <1>1
<1>5. ToSet(new) = ToSet(ss) \cup {g}
  <2>1. ToSet(new) = {new[k] : k \in DOMAIN new} /\ ToSet(ss) = {ss[k] : k \in DOMAIN ss}
    BY DEF ToSet
  <2>2. ASSUME NEW x \in ToSet(new) PROVE x \in ToSet(ss) \cup {g}
    <3>1. PICK k \in DOMAIN new : x = new[k]
      BY <2>1
    <3> QED BY <1>2, <2>1, <3>1
  <2>3. ASSUME NEW x \in ToSet(ss) PROVE x \in ToSet(new)
    <3>1. PICK k \in DOMAIN ss : x = ss[k]
      BY <2>1
    <3> QED BY <1>3, <2>1, <3>1
  <2>4. g \in ToSet(new)
    BY <1>1, <1>4, <2>1
  <2> QED BY <2>2, <2>3, <2>4
<1> QED BY <1>2, <1>3, <1>4, <1>5

LEMMA PushInOrder ==
  ASSUME NEW ss \in Seq(SplitType), InOrder(ss), NEW g \in SplitType
  PROVE  InOrder(Push(ss, g))
<1> DEFINE new == Push(ss, g)
<1>a. new = Push(ss, g)
  OBVIOUS
<1> HIDE DEF new
<1>b. PICK p \in 0..Len(ss) : PutAt(ss, g, new, p)
  BY <1>a, Pushed
<1>1. /\ new \in Seq(SplitType) /\ Len(new) = Len(ss) + 1
      /\ \A i \in 1..p : new[i] = ss[i]
      /\ new[p + 1] = g
      /\ \A i \in p + 1..Len(ss) : new[i + 1] = ss[i]
      /\ \A i \in 1..p : ss[i].addr <= g.addr
      /\ \A i \in p + 1..Len(ss) : g.addr <= ss[i].addr
  BY <1>b DEF PutAt
<1>2. \A k \in DOMAIN new : \/ k \in 1..p /\ k \in DOMAIN ss /\ new[k] = ss[k]
                            \/ k = p + 1 /\ new[k] = g
                            \/ k - 1 \in p + 1..Len(ss) /\ k - 1 \in DOMAIN ss /\ new[k] = ss[k - 1]
  BY <1>1, <1>b, PushedFrom
<1>3. (\A i \in DOMAIN ss : ss[i].addr \in Nat) /\ g.addr \in Nat
  <2>1. \A i \in DOMAIN ss : ss[i] \in SplitType
    OBVIOUS
  <2> QED BY <2>1 DEF SplitType
<1>4. ASSUME NEW i \in DOMAIN new, NEW j \in DOMAIN new, i < j
      PROVE  new[i].addr <= new[j].addr
  <2>1. i \in Nat /\ j \in Nat /\ p \in Nat /\ Len(ss) \in Nat
    BY <1>1
  <2>2. CASE i \in 1..p /\ i \in DOMAIN ss /\ new[i] = ss[i]
    <3>1. CASE j \in 1..p /\ j \in DOMAIN ss /\ new[j] = ss[j]
      BY <1>4, <2>2, <3>1 DEF InOrder
    <3>2. CASE j = p + 1 /\ new[j] = g
      BY <1>1, <2>2, <3>2
    <3>3. CASE j - 1 \in p + 1..Len(ss) /\ j - 1 \in DOMAIN ss /\ new[j] = ss[j - 1]
      <4>1. i < j - 1
        BY <2>1, <2>2, <3>3
      <4> QED BY <2>2, <3>3, <4>1 DEF InOrder
    <3> QED BY <1>2, <3>1, <3>2, <3>3
  <2>3. CASE i = p + 1 /\ new[i] = g
    <3>1. j - 1 \in p + 1..Len(ss) /\ new[j] = ss[j - 1]
      BY <1>2, <1>4, <2>1, <2>3
    <3> QED BY <1>1, <2>3, <3>1
  <2>4. CASE i - 1 \in p + 1..Len(ss) /\ i - 1 \in DOMAIN ss /\ new[i] = ss[i - 1]
    <3>1. j - 1 \in p + 1..Len(ss) /\ j - 1 \in DOMAIN ss /\ new[j] = ss[j - 1]
      BY <1>2, <1>4, <2>1, <2>4
    <3>2. i - 1 < j - 1
      BY <1>4, <2>1
    <3> QED BY <2>4, <3>1, <3>2 DEF InOrder
  <2> QED BY <1>2, <2>2, <2>3, <2>4
<1> QED BY <1>4 DEF InOrder, new

\* A gap that becomes a split stays placed, and so does every other.
LEMMA TiledPush ==
  ASSUME NEW sec \in SectionType, NEW syms \in Seq(SymbolType),
         NEW ss \in Seq(SplitType), InOrder(ss),
         NEW pend, NEW rest, NEW g \in pend, g \in SplitType,
         rest \subseteq pend, pend \subseteq rest \cup {g},
         Tiled(sec, syms, ss, pend)
  PROVE  Tiled(sec, syms, Push(ss, g), rest)
<1> DEFINE new == Push(ss, g)
           items == Items(ss, pend)
<1>a. new = Push(ss, g)
  OBVIOUS
<1> HIDE DEF new
<1>b. PICK p \in 0..Len(ss) : PutAt(ss, g, new, p)
  BY <1>a, Pushed
<1>1. /\ new \in Seq(SplitType) /\ Len(new) = Len(ss) + 1
      /\ \A i \in 1..p : new[i] = ss[i]
      /\ new[p + 1] = g
      /\ \A i \in p + 1..Len(ss) : new[i + 1] = ss[i]
      /\ \A i \in 1..p : ss[i].addr <= g.addr
      /\ \A i \in p + 1..Len(ss) : g.addr <= ss[i].addr /\ (g.addr = ss[i].addr => g.end < ss[i].end)
  BY <1>b DEF PutAt
<1>2. \A k \in DOMAIN new : \/ k \in 1..p /\ k \in DOMAIN ss /\ new[k] = ss[k]
                            \/ k = p + 1 /\ new[k] = g
                            \/ k - 1 \in p + 1..Len(ss) /\ k - 1 \in DOMAIN ss /\ new[k] = ss[k - 1]
  BY <1>1, <1>b, PushedFrom
<1>3. \A k \in DOMAIN ss : \/ k \in 1..p /\ k \in DOMAIN new /\ new[k] = ss[k]
                           \/ k \in p + 1..Len(ss) /\ k + 1 \in DOMAIN new /\ new[k + 1] = ss[k]
  BY <1>1, <1>b, PushedFrom
<1>4. Items(new, rest) = items
  <2>1. ToSet(new) = ToSet(ss) \cup {g}
    BY <1>1, <1>b, PushedFrom
  <2> QED BY <2>1 DEF Items
<1>5. /\ p \in Nat /\ Len(ss) \in Nat /\ DOMAIN ss = 1..Len(ss) /\ g.addr \in Nat /\ g.end \in Nat
      /\ \A i \in DOMAIN ss : ss[i].addr \in Nat /\ ss[i].end \in Nat
  <2>1. g.addr \in Nat /\ g.end \in Nat
    BY DEF SplitType
  <2> QED BY <2>1, AllSplitNumbers
<1>c. \A k \in DOMAIN new : k \in Nat
  BY <1>1
<1>6. GapPlaced(sec, syms, items, ss, g)
  BY DEF Tiled
<1>7. Bounded(sec, syms, new)
  <2> SUFFICES ASSUME NEW k \in DOMAIN new
               PROVE  \/ new[k].end <= sec.end \/ HasComdat(syms, new[k])
                      \/ \E j \in DOMAIN new : k < j /\ new[j].end <= sec.end
    BY DEF Bounded
  <2>1. ASSUME NEW i \in DOMAIN ss, new[k] = ss[i],
               \A j \in DOMAIN ss : i < j => \E l \in DOMAIN new : k < l /\ new[l] = ss[j]
        PROVE  \/ new[k].end <= sec.end \/ HasComdat(syms, new[k])
               \/ \E j \in DOMAIN new : k < j /\ new[j].end <= sec.end
    <3>1. \/ ss[i].end <= sec.end \/ HasComdat(syms, ss[i])
          \/ \E j \in DOMAIN ss : i < j /\ ss[j].end <= sec.end
      BY DEF Tiled, Bounded
    <3> QED BY <2>1, <3>1
  <2>2. CASE k \in 1..p /\ k \in DOMAIN ss /\ new[k] = ss[k]
    <3>1. ASSUME NEW j \in DOMAIN ss, k < j
          PROVE  \E l \in DOMAIN new : k < l /\ new[l] = ss[j]
      BY <1>3, <1>5, <2>2, <3>1
    <3> QED BY <2>1, <2>2, <3>1
  <2>3. CASE k = p + 1 /\ new[k] = g
    BY <1>6, <2>3 DEF GapPlaced
  <2>4. CASE k - 1 \in p + 1..Len(ss) /\ k - 1 \in DOMAIN ss /\ new[k] = ss[k - 1]
    <3>1. ASSUME NEW j \in DOMAIN ss, k - 1 < j
          PROVE  \E l \in DOMAIN new : k < l /\ new[l] = ss[j]
      <4>1. k \in Nat /\ j \in Nat
        BY <1>c, <1>5
      <4>2. j \notin 1..p /\ k < j + 1
        BY <1>5, <2>4, <3>1, <4>1
      <4> QED BY <1>3, <4>2
    <3> QED BY <2>1, <2>4, <3>1
  <2> QED BY <1>2, <2>2, <2>3, <2>4
<1>8. EndReached(sec, Items(new, rest))
  BY <1>4 DEF Tiled
<1>9. Keeps(syms, syms) /\ \A y \in items : \E z \in items : Alike(y, z)
  BY KeepsItself DEF Alike
<1>10. ASSUME NEW k \in DOMAIN new
       PROVE  SplitPlaced(sec, syms, items, new, k)
  <2>1. ASSUME NEW l \in DOMAIN ss, new[k] = ss[l], Twin(ss, l) => Twin(new, k)
        PROVE  SplitPlaced(sec, syms, items, new, k)
    <3>1. SplitPlaced(sec, syms, items, ss, l) /\ Alike(ss[l], new[k])
      BY <2>1 DEF Tiled, Alike
    <3> QED BY <1>9, <2>1, <3>1, SplitPlacedKept
  <2>2. CASE k \in 1..p /\ k \in DOMAIN ss /\ new[k] = ss[k]
    <3>1. Twin(ss, k) => Twin(new, k)
      <4> SUFFICES ASSUME Twin(ss, k) PROVE Twin(new, k)
        OBVIOUS
      <4>1. k - 1 \in 1..p
        BY <1>5, <2>2 DEF Twin
      <4> QED BY <1>1, <2>2, <4>1 DEF Twin
    <3> QED BY <2>1, <2>2, <3>1
  <2>3. CASE k = p + 1 /\ new[k] = g
    <3>1. CASE Follows(sec, syms, items, g)
      BY <2>3, <3>1 DEF SplitPlaced
    <3>2. CASE \E j \in DOMAIN ss : ss[j].addr = g.addr /\ ss[j].end = g.addr
      <4>1. PICK j \in DOMAIN ss : ss[j].addr = g.addr /\ ss[j].end = g.addr
        BY <3>2
      <4>2. g.addr < g.end
        BY <1>6 DEF GapPlaced
      <4>3. j <= p
        <5>1. CASE j \in p + 1..Len(ss)
          BY <1>1, <1>5, <4>1, <4>2, <5>1
        <5> QED BY <1>5, <5>1
      <4>4. p \in DOMAIN ss /\ p \in 1..p
        BY <1>5, <4>3
      <4>5. ss[j].addr <= ss[p].addr
        <5>1. CASE j = p
          BY <1>5, <5>1
        <5>2. CASE j # p
          BY <1>5, <4>3, <4>4, <5>2 DEF InOrder
        <5> QED BY <5>1, <5>2
      <4>6. ss[p].addr = g.addr
        <5>1. ss[p].addr <= g.addr /\ ss[p].addr \in Nat
          BY <1>1, <1>5, <4>4
        <5> QED BY <1>5, <4>1, <4>5, <5>1
      <4>7. k > 1 /\ k - 1 = p /\ new[p] = ss[p]
        BY <1>1, <1>5, <2>3, <4>4
      <4>8. Twin(new, k)
        BY <2>3, <4>6, <4>7 DEF Twin
      <4> QED BY <4>8 DEF SplitPlaced
    <3> QED BY <1>6, <3>1, <3>2 DEF GapPlaced
  <2>4. CASE k - 1 \in p + 1..Len(ss) /\ k - 1 \in DOMAIN ss /\ new[k] = ss[k - 1]
    <3> DEFINE l == k - 1
    <3>1. Twin(ss, l) => Twin(new, k)
      <4> SUFFICES ASSUME Twin(ss, l) PROVE Twin(new, k)
        OBVIOUS
      <4>1. l > 1 /\ ss[l - 1].addr = ss[l].addr /\ l \in p + 1..Len(ss) /\ k \in Nat
        BY <1>5, <1>c, <2>4 DEF Twin
      <4>2. CASE l = p + 1
        <5>1. l - 1 = p /\ p \in 1..p /\ l = k - 1 /\ k > 1
          BY <1>5, <4>1, <4>2
        <5>2. ss[p].addr <= g.addr /\ g.addr <= ss[l].addr
          BY <1>1, <4>1, <5>1
        <5>3. ss[p].addr \in Nat /\ ss[p].addr = ss[l].addr
          BY <1>5, <4>1, <5>1
        <5>4. new[k - 1] = g /\ new[k] = ss[l]
          BY <1>1, <2>4, <4>2
        <5>5. g.addr = ss[l].addr
          BY <1>5, <5>2, <5>3
        <5> QED BY <5>1, <5>4, <5>5 DEF Twin
      <4>3. CASE l # p + 1
        <5>1. l - 1 \in p + 1..Len(ss) /\ (l - 1) + 1 = l /\ k > 1
          BY <1>5, <4>1, <4>3
        <5>2. new[l] = ss[l - 1] /\ new[k] = ss[l]
          BY <1>1, <2>4, <5>1
        <5> QED BY <4>1, <5>1, <5>2 DEF Twin
      <4> QED BY <4>2, <4>3
    <3> QED BY <2>1, <2>4, <3>1
  <2> QED BY <1>2, <2>2, <2>3, <2>4
<1>11. ASSUME NEW h \in rest
       PROVE  GapPlaced(sec, syms, items, new, h)
  <2>1. GapPlaced(sec, syms, items, ss, h)
    BY DEF Tiled
  <2>2. \A i \in DOMAIN ss : \E j \in DOMAIN new : Alike(ss[i], new[j])
    BY <1>3 DEF Alike
  <2> QED BY <1>9, <2>1, <2>2, GapPlacedKept
<1>12. Tiled(sec, syms, new, rest)
  BY <1>4, <1>7, <1>8, <1>10, <1>11 DEF Tiled
<1> QED BY <1>12, <1>a

-----------------------------------------------------------------------------
(* The walk of create_gap_splits over a section: the splits behind it and the *)
(* gaps made are placed, and the last of them ends at cur.                    *)

\* The item that ends at cur, in front of the splits to come.
Reaches(sec, items, ss, cur0, n, y) ==
  /\ y.end = cur0 /\ y.addr <= cur0 /\ y.addr < sec.end
  /\ y.addr = cur0 => y \in ToSet(ss)
  /\ \A k \in DOMAIN ss : k >= n => y.addr < ss[k].addr \/ Twin(ss, k)

Walking(sec, syms, ss, pend, cur0, n) ==
  /\ Bounded(sec, syms, ss)
  /\ \A k \in DOMAIN ss : k < n => SplitPlaced(sec, syms, Items(ss, pend), ss, k)
  /\ \A g \in pend : GapPlaced(sec, syms, Items(ss, pend), ss, g)
  /\ \/ cur0 = sec.start
     \/ \E y \in Items(ss, pend) : Reaches(sec, Items(ss, pend), ss, cur0, n, y)
     \/ /\ cur0 >= sec.end /\ EndReached(sec, Items(ss, pend))
        /\ \A k \in DOMAIN ss : k >= n => ss[k].addr >= sec.end

\* What is up to where an end is rounded is padding.
LEMMA UpToRounded ==
  ASSUME NEW from \in Nat, NEW to \in Nat, NEW n \in Nat \ {0}, to <= AlignUp(from, n)
  PROVE  OnlyPadding(from, to, n)
<1> SUFFICES ASSUME NEW a \in from .. to - 1
             PROVE  a % n # 0
  BY DEF OnlyPadding
<1>1. AlignUp(from, n) \in Nat
  BY Rounded
<1>2. a \in Nat /\ from <= a /\ a < AlignUp(from, n)
  BY <1>1
<1> QED BY <1>2, RoundedPads

LEMMA NoPadding ==
  ASSUME NEW from \in Nat, NEW to \in Nat, to <= from, NEW n
  PROVE  OnlyPadding(from, to, n)
<1>1. from .. to - 1 = {}
  OBVIOUS
<1> QED BY <1>1 DEF OnlyPadding

\* The next split of the user is taken.
LEMMA WalkSplit ==
  ASSUME NEW sec \in SectionType, NEW syms \in Seq(SymbolType),
         NEW ss \in Seq(SplitType), InOrder(ss), NEW pend, pend \subseteq SplitType,
         NEW cur0 \in Nat, NEW n \in DOMAIN ss, Walking(sec, syms, ss, pend, cur0, n),
         cur0 < sec.end, ss[n].addr < sec.end, cur0 <= ss[n].addr, ss[n].addr <= ss[n].end,
         ss[n].addr <= AlignUp(cur0, Alignment(sec, syms, ss[n]))
  PROVE  Walking(sec, syms, ss, pend, ss[n].end, n + 1)
<1> DEFINE items == Items(ss, pend)
           x == ss[n]
           a == Alignment(sec, syms, x)
<1>1. /\ x \in SplitType /\ x.addr \in Nat /\ x.end \in Nat /\ n \in Nat
      /\ DOMAIN ss = 1..Len(ss) /\ Len(ss) \in Nat /\ sec.start \in Nat /\ sec.end \in Nat
      /\ \A k \in DOMAIN ss : ss[k].addr \in Nat
  BY AllSplitNumbers, SectionNumbers
<1>2. OnlyPadding(cur0, x.addr, a)
  BY <1>1, AlignmentType, UpToRounded
<1>3. SplitPlaced(sec, syms, items, ss, n)
  <2>1. CASE cur0 = sec.start
    BY <1>1, <1>2, <2>1 DEF SplitPlaced, Follows
  <2>2. CASE \E y \in items : Reaches(sec, items, ss, cur0, n, y)
    <3>1. PICK y \in items : Reaches(sec, items, ss, cur0, n, y)
      BY <2>2
    <3>2. y.end = cur0 /\ (y.addr < x.addr \/ Twin(ss, n))
      BY <1>1, <3>1 DEF Reaches
    <3>3. CASE y.addr < x.addr
      BY <1>2, <3>2, <3>3 DEF SplitPlaced, Follows
    <3>4. CASE Twin(ss, n)
      BY <3>4 DEF SplitPlaced
    <3> QED BY <3>2, <3>3, <3>4
  <2>3. CASE cur0 >= sec.end
    BY <1>1, <2>3
  <2> QED BY <2>1, <2>2, <2>3 DEF Walking
<1>4. ASSUME NEW k \in DOMAIN ss, k < n + 1
      PROVE  SplitPlaced(sec, syms, items, ss, k)
  <2>1. k = n \/ k < n
    BY <1>1, <1>4
  <2> QED BY <1>3, <2>1 DEF Walking
<1>5. x \in ToSet(ss) /\ x \in items
  BY DEF ToSet, Items
<1>6. ASSUME NEW k \in DOMAIN ss, k >= n + 1
      PROVE  x.addr < ss[k].addr \/ Twin(ss, k)
  <2>1. x.addr <= ss[k].addr
    BY <1>1, <1>6 DEF InOrder
  <2>2. CASE x.addr = ss[k].addr
    <3>1. k - 1 \in DOMAIN ss /\ k > 1 /\ k - 1 < k /\ n <= k - 1
      BY <1>1, <1>6
    <3>2. ss[k - 1].addr <= ss[k].addr
      BY <3>1 DEF InOrder
    <3>3. x.addr <= ss[k - 1].addr
      <4>1. CASE n = k - 1
        BY <1>1, <4>1
      <4>2. CASE n # k - 1
        BY <1>1, <3>1, <4>2 DEF InOrder
      <4> QED BY <4>1, <4>2
    <3>4. ss[k - 1].addr = ss[k].addr
      BY <1>1, <2>2, <3>1, <3>2, <3>3
    <3> QED BY <3>1, <3>4 DEF Twin
  <2> QED BY <1>1, <2>1, <2>2
<1>7. Reaches(sec, items, ss, x.end, n + 1, x)
  BY <1>5, <1>6 DEF Reaches
<1> QED BY <1>4, <1>5, <1>7 DEF Walking

\* There is no other split; what is left of the section is padding.
LEMMA WalkPad ==
  ASSUME NEW sec \in SectionType, NEW syms \in Seq(SymbolType),
         NEW ss \in Seq(SplitType), NEW pend, pend \subseteq SplitType,
         NEW cur0 \in Nat, NEW n \in Nat, Walking(sec, syms, ss, pend, cur0, n),
         cur0 < sec.end, \A k \in DOMAIN ss : k >= n => ss[k].addr >= sec.end,
         sec.end <= AlignUp(cur0, sec.align), sec.start % sec.align = 0
  PROVE  Walking(sec, syms, ss, pend, sec.end, n)
<1> DEFINE items == Items(ss, pend)
<1>1. sec.start \in Nat /\ sec.end \in Nat /\ sec.align \in Nat \ {0}
  BY DEF SectionType
<1>2. OnlyPadding(cur0, sec.end, sec.align)
  BY <1>1, UpToRounded
<1>3. EndReached(sec, items)
  <2>1. CASE cur0 = sec.start
    <3>1. sec.start \in cur0 .. sec.end - 1
      BY <1>1, <2>1
    <3> QED BY <1>2, <3>1 DEF OnlyPadding
  <2>2. CASE \E y \in items : Reaches(sec, items, ss, cur0, n, y)
    BY <1>2, <2>2 DEF Reaches, EndReached
  <2>3. CASE cur0 >= sec.end
    BY <1>1, <2>3
  <2> QED BY <2>1, <2>2, <2>3 DEF Walking
<1> QED BY <1>1, <1>3 DEF Walking

\* A gap is made.
LEMMA WalkGap ==
  ASSUME NEW sec \in SectionType, NEW syms \in Seq(SymbolType),
         NEW ss \in Seq(SplitType), NEW pend, pend \subseteq SplitType,
         NEW cur0 \in Nat, NEW n \in Nat, Walking(sec, syms, ss, pend, cur0, n),
         cur0 < sec.end, \A k \in DOMAIN ss : k >= n => cur0 < ss[k].addr,
         NEW g \in SplitType, g.addr = cur0, cur0 < g.end,
         g.end <= sec.end \/ HasComdat(syms, g)
  PROVE  Walking(sec, syms, ss, pend \cup {g}, g.end, n)
<1> DEFINE items == Items(ss, pend)
           more == Items(ss, pend \cup {g})
<1>1. sec.start \in Nat /\ sec.end \in Nat /\ g.end \in Nat
  BY DEF SectionType, SplitType
<1>2. items \subseteq more /\ g \in more
  BY DEF Items
<1>3. Keeps(syms, syms) /\ \A y \in items : \E z \in more : Alike(y, z)
  BY <1>2, KeepsItself DEF Alike
<1>4. ASSUME NEW k \in DOMAIN ss, k < n
      PROVE  SplitPlaced(sec, syms, more, ss, k)
  <2>1. SplitPlaced(sec, syms, items, ss, k) /\ Alike(ss[k], ss[k])
    BY <1>4 DEF Walking, Alike
  <2> QED BY <1>3, <2>1, SplitPlacedKept
<1>5. \A i \in DOMAIN ss : \E j \in DOMAIN ss : Alike(ss[i], ss[j])
  BY DEF Alike
<1>6. GapPlaced(sec, syms, more, ss, g)
  <2>1. CASE cur0 = sec.start
    <3>1. OnlyPadding(sec.start, g.addr, Alignment(sec, syms, g))
      BY <1>1, <2>1, NoPadding
    <3> QED BY <1>1, <2>1, <3>1 DEF GapPlaced, Follows
  <2>2. CASE \E y \in items : Reaches(sec, items, ss, cur0, n, y)
    <3>1. PICK y \in items : Reaches(sec, items, ss, cur0, n, y)
      BY <2>2
    <3>2. CASE y.addr = cur0
      <4>1. PICK j \in DOMAIN ss : ss[j] = y
        BY <3>1, <3>2 DEF Reaches, ToSet
      <4> QED BY <3>1, <3>2, <4>1 DEF Reaches, GapPlaced
    <3>3. CASE y.addr # cur0
      <4>1. y \in SplitType /\ y.addr \in Nat
        <5>1. y \in pend \/ \E j \in DOMAIN ss : y = ss[j]
          BY DEF Items, ToSet
        <5>2. y \in SplitType
          BY <5>1
        <5> QED BY <5>2 DEF SplitType
      <4>2. y.addr < g.addr /\ y.end = g.addr
        <5>1. y.end = cur0 /\ y.addr <= cur0
          BY <3>1 DEF Reaches
        <5> QED BY <3>3, <4>1, <5>1
      <4>3. OnlyPadding(y.end, g.addr, Alignment(sec, syms, g))
        <5>1. y.end \in Nat /\ g.addr \in Nat /\ g.addr <= y.end
          BY <4>2
        <5> QED BY <5>1, NoPadding
      <4>4. y \in more /\ y.end <= g.addr
        <5>1. g.addr \in Nat
          BY DEF SplitType
        <5>2. y.end <= g.addr
          BY <4>2, <5>1
        <5>3. y \in more
          BY <1>2
        <5> QED BY <5>2, <5>3
      <4> HIDE DEF more
      <4>5. Follows(sec, syms, more, g)
        BY <4>2, <4>3, <4>4 DEF Follows
      <4> QED BY <4>5 DEF GapPlaced
    <3> QED BY <3>2, <3>3
  <2>3. CASE cur0 >= sec.end
    BY <1>1, <2>3
  <2> QED BY <2>1, <2>2, <2>3 DEF Walking
<1>7. ASSUME NEW h \in pend \cup {g}
      PROVE  GapPlaced(sec, syms, more, ss, h)
  <2>1. CASE h = g
    BY <1>6, <2>1
  <2>2. CASE h \in pend
    <3>1. GapPlaced(sec, syms, items, ss, h)
      BY <2>2 DEF Walking
    <3> QED BY <1>3, <1>5, <3>1, GapPlacedKept
  <2> QED BY <2>1, <2>2
<1>8. Reaches(sec, more, ss, g.end, n, g)
  <2>1. g.addr <= g.end /\ g.addr < sec.end /\ g.addr # g.end
    BY <1>1
  <2> QED BY <2>1 DEF Reaches
<1> QED BY <1>2, <1>4, <1>7, <1>8 DEF Walking

\* The walk is at the end of the section.
LEMMA WalkEnd ==
  ASSUME NEW sec \in SectionType, NEW syms \in Seq(SymbolType),
         NEW ss \in Seq(SplitType), NEW pend, pend \subseteq SplitType,
         NEW cur0 \in Nat, NEW n \in Nat, Walking(sec, syms, ss, pend, cur0, n),
         cur0 >= sec.end, sec.start < sec.end
  PROVE  Tiled(sec, syms, ss, pend)
<1> DEFINE items == Items(ss, pend)
<1>1. /\ sec.start \in Nat /\ sec.end \in Nat /\ DOMAIN ss \subseteq Nat
      /\ \A k \in DOMAIN ss : ss[k].addr \in Nat
  BY AllSplitNumbers, SectionNumbers
<1>2. ASSUME NEW k \in DOMAIN ss, k < n
      PROVE  SplitPlaced(sec, syms, items, ss, k)
  BY <1>2 DEF Walking
<1>3. CASE cur0 = sec.start
  BY <1>1, <1>3
<1>4. CASE \E y \in items : Reaches(sec, items, ss, cur0, n, y)
  <2>1. PICK y \in items : Reaches(sec, items, ss, cur0, n, y)
    BY <1>4
  <2>2. y.end = cur0 /\ y.addr < sec.end
    BY <2>1 DEF Reaches
  <2>3. EndReached(sec, items)
    BY <1>1, <2>2, NoPadding DEF EndReached
  <2>4. ASSUME NEW k \in DOMAIN ss, k >= n
        PROVE  SplitPlaced(sec, syms, items, ss, k)
    <3>1. y.addr < ss[k].addr \/ Twin(ss, k)
      BY <2>1, <2>4 DEF Reaches
    <3>2. CASE y.addr < ss[k].addr /\ ss[k].addr < sec.end
      <4>1. ss[k].addr < y.end
        BY <1>1, <2>2, <3>2
      <4> QED BY <3>2, <4>1 DEF SplitPlaced
    <3>3. CASE ss[k].addr >= sec.end \/ Twin(ss, k)
      BY <3>3 DEF SplitPlaced
    <3> QED BY <1>1, <3>1, <3>2, <3>3
  <2> QED BY <1>1, <1>2, <2>3, <2>4 DEF Walking, Tiled
<1>5. CASE EndReached(sec, items) /\ \A k \in DOMAIN ss : k >= n => ss[k].addr >= sec.end
  <2>1. ASSUME NEW k \in DOMAIN ss, k >= n
        PROVE  SplitPlaced(sec, syms, items, ss, k)
    BY <1>5, <2>1 DEF SplitPlaced
  <2> QED BY <1>1, <1>2, <1>5, <2>1 DEF Walking, Tiled
<1> QED BY <1>3, <1>4, <1>5 DEF Walking

\* Padding goes on in a part of what it is between.
LEMMA LessPadding ==
  ASSUME NEW lo \in Nat, NEW from \in Nat, NEW to \in Nat, NEW n,
         lo <= from, OnlyPadding(lo, to, n)
  PROVE  OnlyPadding(from, to, n)
<1>1. from .. to - 1 \subseteq lo .. to - 1
  OBVIOUS
<1> QED BY <1>1 DEF OnlyPadding

\* No end is missing, and no split ends in front of where it begins.
Unbroken(ss) == \A k \in DOMAIN ss : ss[k].end > 0 /\ ss[k].end >= ss[k].addr

Apart(ss) == \A i, j \in DOMAIN ss : i < j => ss[i].end <= ss[j].addr

\* The splits split_obj walks.
InFront(sec, ss) == {k \in DOMAIN ss : ss[k].addr < sec.end}

\* When the splits do not overlap each is behind the one in front of it.
LEMMA WalkFound ==
  ASSUME NEW sec \in SectionType, NEW syms \in Seq(SymbolType),
         NEW ss \in Seq(SplitType), InOrder(ss), Unbroken(ss), Apart(ss),
         sec.start < sec.end, Tiled(sec, syms, ss, {})
  PROVE  /\ 1 \in InFront(sec, ss)
         /\ sec.start <= ss[1].addr
         /\ OnlyPadding(sec.start, ss[1].addr, Alignment(sec, syms, ss[1]))
         /\ \A i \in InFront(sec, ss) :
              /\ ss[i].end <= sec.end \/ HasComdat(syms, ss[i])
              /\ i + 1 \in InFront(sec, ss) =>
                   OnlyPadding(ss[i].end, ss[i + 1].addr, Alignment(sec, syms, ss[i + 1]))
              /\ i + 1 \notin InFront(sec, ss) => OnlyPadding(ss[i].end, sec.end, sec.align)
<1> DEFINE items == Items(ss, {})
           W == InFront(sec, ss)
<1>1. /\ DOMAIN ss = 1..Len(ss) /\ Len(ss) \in Nat /\ sec.start \in Nat /\ sec.end \in Nat
      /\ \A k \in DOMAIN ss : ss[k].addr \in Nat /\ ss[k].end \in Nat
  <2>1. \A k \in DOMAIN ss : ss[k] \in SplitType
    OBVIOUS
  <2> QED BY <2>1 DEF SplitType, SectionType
<1>2. \A y \in items : \E m \in DOMAIN ss : ss[m] = y
  BY DEF Items, ToSet
<1>3. PICK m \in DOMAIN ss : ss[m].addr < sec.end /\ OnlyPadding(ss[m].end, sec.end, sec.align)
  <2>1. PICK y \in items : y.addr < sec.end /\ OnlyPadding(y.end, sec.end, sec.align)
    BY DEF Tiled, EndReached
  <2> QED BY <1>2, <2>1
<1>4. \A k \in DOMAIN ss : SplitPlaced(sec, syms, items, ss, k)
  BY DEF Tiled
<1> HIDE DEF items
<1>5. \A i, j \in DOMAIN ss : i <= j => ss[i].addr <= ss[j].addr /\ ss[i].end <= ss[j].end
  <2> TAKE i, j \in DOMAIN ss
  <2> HAVE i <= j
  <2>1. CASE i = j
    BY <1>1, <2>1
  <2>2. CASE i < j
    <3>1. ss[i].addr <= ss[j].addr /\ ss[i].end <= ss[j].addr /\ ss[j].addr <= ss[j].end
      BY <2>2 DEF InOrder, Apart, Unbroken
    <3> QED BY <1>1, <3>1
  <2> QED BY <1>1, <2>1, <2>2
<1>6. \A i, j \in DOMAIN ss : ss[i].addr < ss[j].addr => i < j
  BY <1>1, <1>5
<1>7. 1 \in DOMAIN ss /\ ss[1].addr < sec.end
  <2>1. 1 \in DOMAIN ss /\ 1 <= m
    BY <1>1
  <2>2. ss[1].addr <= ss[m].addr
    BY <1>5, <2>1
  <2> QED BY <1>1, <1>3, <2>1, <2>2
<1>8. \A k \in DOMAIN ss : ss[k].addr < sec.end /\ ~Twin(ss, k) => Follows(sec, syms, items, ss[k])
  <2> TAKE k \in DOMAIN ss
  <2> HAVE ss[k].addr < sec.end /\ ~Twin(ss, k)
  <2>1. ASSUME NEW y \in items, y.addr < ss[k].addr, ss[k].addr < y.end
        PROVE  FALSE
    <3>1. PICK l \in DOMAIN ss : ss[l] = y
      BY <1>2
    <3>2. l < k
      BY <1>6, <2>1, <3>1
    <3>3. ss[l].end <= ss[k].addr
      BY <3>2 DEF Apart
    <3> QED BY <1>1, <2>1, <3>1, <3>3
  <2>2. ~(ss[k].addr >= sec.end)
    BY <1>1
  <2> QED BY <1>4, <2>1, <2>2 DEF SplitPlaced
<1>9. sec.start <= ss[1].addr /\ OnlyPadding(sec.start, ss[1].addr, Alignment(sec, syms, ss[1]))
  <2>1. Follows(sec, syms, items, ss[1])
    BY <1>7, <1>8 DEF Twin
  <2>2. ASSUME NEW y \in items, y.addr < ss[1].addr
        PROVE  FALSE
    <3>1. PICK l \in DOMAIN ss : ss[l] = y
      BY <1>2
    <3>2. l < 1
      BY <1>6, <1>7, <2>2, <3>1
    <3> QED BY <1>1, <3>2
  <2> QED BY <2>1, <2>2 DEF Follows
<1>10. ASSUME NEW i \in W
       PROVE  ss[i].end <= sec.end \/ HasComdat(syms, ss[i])
  <2>1. i \in DOMAIN ss
    BY DEF InFront
  <2>2. ASSUME NEW j \in DOMAIN ss, i < j, ss[j].end <= sec.end
        PROVE  ss[i].end <= sec.end
    <3>1. ss[i].end <= ss[j].end
      BY <1>1, <1>5, <2>1, <2>2
    <3> QED BY <1>1, <2>1, <2>2, <3>1
  <2> QED BY <2>1, <2>2 DEF Tiled, Bounded
<1>11. ASSUME NEW i \in W, i + 1 \in W
       PROVE  OnlyPadding(ss[i].end, ss[i + 1].addr, Alignment(sec, syms, ss[i + 1]))
  <2> DEFINE x == ss[i + 1]
             a == Alignment(sec, syms, x)
  <2>1. /\ i \in DOMAIN ss /\ i + 1 \in DOMAIN ss /\ i \in Nat /\ x.addr < sec.end
        /\ ss[i].end \in Nat /\ x.addr \in Nat /\ ss[i].addr \in Nat
    <3>1. i \in DOMAIN ss /\ i + 1 \in DOMAIN ss /\ x.addr < sec.end
      BY <1>11 DEF InFront
    <3> QED BY <1>1, <3>1
  <2>2. CASE Twin(ss, i + 1)
    <3>1. ss[i].addr = x.addr
      BY <2>1, <2>2 DEF Twin
    <3>2. x.addr <= ss[i].end
      BY <2>1, <3>1 DEF Unbroken
    <3> QED BY <2>1, <3>2, NoPadding
  <2>3. CASE ~Twin(ss, i + 1)
    <3>1. Follows(sec, syms, items, x)
      BY <1>8, <2>1, <2>3
    <3>2. CASE sec.start <= x.addr /\ OnlyPadding(sec.start, x.addr, a)
      <4>1. ss[1].addr <= ss[i].addr /\ ss[i].addr <= ss[i].end
        <5>1. 1 <= i
          BY <1>1, <2>1
        <5> QED BY <1>5, <1>7, <2>1, <5>1 DEF Unbroken
      <4>2. sec.start <= ss[i].end
        BY <1>1, <1>7, <1>9, <2>1, <4>1
      <4> QED BY <1>1, <2>1, <3>2, <4>2, LessPadding
    <3>3. CASE \E y \in items : y.addr < x.addr /\ y.end <= x.addr /\ OnlyPadding(y.end, x.addr, a)
      <4>1. PICK y \in items : y.addr < x.addr /\ OnlyPadding(y.end, x.addr, a)
        BY <3>3
      <4>2. PICK l \in DOMAIN ss : ss[l] = y
        BY <1>2
      <4>3. l < i + 1
        BY <1>6, <2>1, <4>1, <4>2
      <4>4. l <= i
        BY <1>1, <2>1, <4>3
      <4>5. y.end <= ss[i].end
        BY <1>5, <2>1, <4>2, <4>4
      <4>6. y.end \in Nat
        BY <1>1, <4>2
      <4> QED BY <2>1, <4>1, <4>5, <4>6, LessPadding
    <3> QED BY <3>1, <3>2, <3>3 DEF Follows
  <2> QED BY <2>2, <2>3
<1>12. ASSUME NEW i \in W, i + 1 \notin W
       PROVE  OnlyPadding(ss[i].end, sec.end, sec.align)
  <2>1. i \in DOMAIN ss /\ i \in Nat /\ ss[i].end \in Nat
    BY <1>1 DEF InFront
  <2>2. m <= i
    <3> SUFFICES ASSUME ~(m <= i) PROVE FALSE
      OBVIOUS
    <3>1. i + 1 \in DOMAIN ss /\ i + 1 <= m
      BY <1>1, <2>1
    <3>2. ss[i + 1].addr <= ss[m].addr
      BY <1>5, <3>1
    <3>3. ss[i + 1].addr < sec.end
      BY <1>1, <1>3, <3>1, <3>2
    <3> QED BY <1>12, <3>1, <3>3 DEF InFront
  <2>3. ss[m].end <= ss[i].end /\ ss[m].end \in Nat
    BY <1>1, <1>5, <2>1, <2>2
  <2> QED BY <1>1, <1>3, <2>1, <2>3, LessPadding
<1>13. 1 \in W
  BY <1>7 DEF InFront
<1> QED BY <1>9, <1>10, <1>11, <1>12, <1>13

-----------------------------------------------------------------------------
(* The gaps not added yet go with the splits of their section. *)

Pending(gs, s) == {gs[k].split : k \in {k \in DOMAIN gs : gs[k].sect = s}}

\* A section that SectionsTiled speaks of, if its splits pass the validation.
Plain(sec, ss) == sec.start < sec.end /\ sec.start % sec.align = 0 /\ Unbroken(ss)

TiledAt(s) ==
  Plain(sections[s], splits[s]) => Tiled(sections[s], symbols[s], splits[s], Pending(gaps, s))

BoundedAt(s) == Bounded(sections[s], symbols[s], splits[s])

WalkingHere ==
  Plain(Section, splits[sect]) =>
    Walking(Section, Syms, splits[sect], Pending(gaps, sect), cur, nth)

Ordered == \A s \in DOMAIN sections : InOrder(splits[s])

\* What create_gap_splits starts with, keeps, and leaves.
Placing ==
  /\ pc \notin {"gaps", "add", "bail"} => gaps = <<>>
  /\ pc = "trim" => \A s \in DOMAIN sections : \A i \in DOMAIN splits[s] :
                      splits[s][i].end <= sections[s].limit
  /\ pc = "gaps" =>
       /\ \A k \in DOMAIN gaps : gaps[k].sect <= sect
       /\ \A s \in DOMAIN sections : s < sect => TiledAt(s)
       /\ \A s \in DOMAIN sections : s >= sect => BoundedAt(s)
       /\ WalkingHere
  /\ pc \in {"add", "common", "truncate", "validate", "pad", "done"} =>
       \A s \in DOMAIN sections : TiledAt(s)

\* What the validation has looked at.
Whole ==
  /\ pc = "validate" =>
       /\ \A s \in DOMAIN sections : s < sect => Unbroken(splits[s])
       /\ sect <= Len(sections) => \A k \in DOMAIN splits[sect] :
            k < nth => splits[sect][k].end > 0 /\ splits[sect][k].end >= splits[sect][k].addr
  /\ pc \in {"pad", "done"} => \A s \in DOMAIN sections : Unbroken(splits[s])

TileInv == Ordered /\ Placing /\ Whole

\* Only a COMDAT takes a gap past the end of its section.
LEMMA GapBounded ==
  ASSUME Shape, MakeGap
  PROVE  NewEnd <= Section.end \/ HasComdat(Syms, NewGap.split)
<1> DEFINE sym == Syms[GapCut]
           start == IF sym.locator THEN sym.addr - 4 ELSE sym.addr
<1>1. /\ Section \in SectionType /\ Syms \in Seq(SymbolType) /\ NextStart \in Nat
      /\ cur \in Nat /\ Section.end \in Nat
  BY InLoop DEF MakeGap, SectionType
<1>2. Limit \in Nat /\ Limit <= NextStart
  BY <1>1, LimitType
<1>3. NextStart <= Section.end
  BY <1>1 DEF NextStart, HasNext, NextSplit
<1>4. Limit <= Section.end /\ NewEnd \in Nat /\ NewEnd > cur
  BY <1>1, <1>2, <1>3, GapMade
<1>5. CASE GapCut = 0
  BY <1>4, <1>5 DEF NewEnd, GapEnd
<1>6. CASE GapCut # 0
  <2>1. GapCut \in GapRange /\ GapCut \in DOMAIN Syms
    <3>1. GapRange \subseteq DOMAIN Syms
      BY DEF GapRange, InRange
    <3> QED BY <1>1, <1>6, <3>1, CutType DEF GapCut
  <2>2. /\ sym \in SymbolType /\ sym.addr \in Nat /\ cur <= sym.addr /\ sym.addr < Limit
        /\ sym \in ToSet(Syms)
    <3>1. sym \in SymbolType
      BY <1>1, <2>1
    <3> QED BY <2>1, <3>1 DEF GapRange, InRange, SymbolType, ToSet
  <2> HIDE DEF sym
  <2>3. CASE Leads(GapCut)
    <3>1. sym.comdat
      BY <2>3 DEF Leads, sym
    <3>2. CASE sym.addr < NewEnd
      BY <2>2, <3>1, <3>2 DEF HasComdat, NewGap
    <3> QED BY <1>1, <1>2, <1>4, <2>2, <3>2
  <2>4. CASE ~Leads(GapCut) /\ sym.comdat
    <3>1. NewEnd = Max({cur, start})
      BY <1>6, <2>4 DEF NewEnd, GapEnd, ComdatStart, sym
    <3>2. start \in Int /\ start <= sym.addr
      BY <2>2
    <3> HIDE DEF start
    <3>3. \E x \in {cur, start} : \A y \in {cur, start} : x >= y
      BY <1>1, <3>2
    <3>4. Max({cur, start}) \in {cur, start}
      BY <3>3 DEF Max
    <3> QED BY <1>1, <1>2, <1>4, <2>2, <3>1, <3>2, <3>4
  <2>5. CASE ~Leads(GapCut) /\ ~sym.comdat
    <3>1. NewEnd = sym.addr
      BY <1>6, <2>5 DEF NewEnd, GapEnd, sym
    <3> QED BY <1>1, <1>2, <1>4, <2>2, <3>1
  <2> QED BY <2>3, <2>4, <2>5
<1> QED BY <1>5, <1>6

\* The user's splits that are not taken yet start behind a gap's start.
LEMMA SplitsBehind ==
  ASSUME Shape, InSection, InOrder(splits[sect]), NextStart > cur,
         NEW k \in DOMAIN splits[sect], k >= nth
  PROVE  cur < splits[sect][k].addr
<1>1. /\ splits[sect] \in Seq(SplitType) /\ NextStart \in Nat /\ cur \in Nat
      /\ cur < Section.end /\ Section.end \in Nat /\ nth \in Nat \ {0}
  BY InLoop DEF SectionType, Shape
<1>2. nth \in DOMAIN splits[sect] /\ k \in Nat
  BY <1>1
<1>3. splits[sect][nth] \in SplitType /\ splits[sect][k] \in SplitType
  BY <1>1, <1>2
<1>4. splits[sect][nth].addr \in Nat /\ splits[sect][k].addr \in Nat
  BY <1>3 DEF SplitType
<1>5. splits[sect][nth].addr <= splits[sect][k].addr
  <2>1. CASE k = nth
    BY <1>4, <2>1
  <2>2. CASE nth < k
    BY <1>2, <2>2 DEF InOrder
  <2> QED BY <1>1, <1>2, <2>1, <2>2
<1>6. cur < splits[sect][nth].addr
  <2>1. CASE HasNext
    BY <2>1 DEF NextStart, NextSplit
  <2>2. CASE ~HasNext
    <3>1. ~(splits[sect][nth].addr < Section.end)
      BY <1>1, <1>2, <2>2 DEF HasNext
    <3> QED BY <1>1, <1>4, <3>1
  <2> QED BY <2>1, <2>2
<1> QED BY <1>1, <1>4, <1>5, <1>6

\* Where the walk of a section starts nothing is behind it.
LEMMA WalkFromStart ==
  ASSUME NEW sec, NEW syms, NEW ss \in Seq(SplitType), Bounded(sec, syms, ss)
  PROVE  Walking(sec, syms, ss, {}, sec.start, 1)
<1>1. \A k \in DOMAIN ss : ~(k < 1)
  OBVIOUS
<1> QED BY <1>1 DEF Walking

\* The end of every split is no further than the section's, or a later split's is.
LEMMA TrimBounds ==
  ASSUME Shape, NEW s \in DOMAIN sections, NEW syms,
         \A i \in DOMAIN splits[s] : splits[s][i].end <= sections[s].limit,
         InOrder(splits[s])
  PROVE  Bounded(sections[s], syms, Trimmed(s)) /\ InOrder(Trimmed(s))
<1> DEFINE ss == splits[s]
           last == Len(ss)
           new == Trimmed(s)
<1>1. /\ ss \in Seq(SplitType) /\ sections[s].end \in Nat /\ sections[s].limit \in Nat
      /\ DOMAIN ss = 1..Len(ss) /\ Len(ss) \in Nat
      /\ \A i \in DOMAIN ss : ss[i].end \in Nat /\ ss[i] \in SplitType
  <2>1. ss \in Seq(SplitType) /\ sections[s] \in SectionType
    BY SplitsAre
  <2>2. \A i \in DOMAIN ss : ss[i] \in SplitType
    BY <2>1
  <2> QED BY <2>1, <2>2 DEF SectionType, SplitType
<1>2. CASE sections[s].end # sections[s].limit /\ ss # <<>> /\ ss[last].end > sections[s].end
  <2>1. new = [ss EXCEPT ![last].end = sections[s].end]
    BY <1>2 DEF Trimmed
  <2>2. last \in DOMAIN ss
    BY <1>1, <1>2
  <2> HIDE DEF new, ss
  <2>3. /\ DOMAIN new = DOMAIN ss /\ new[last].end = sections[s].end
        /\ \A i \in DOMAIN ss : new[i].addr = ss[i].addr
        /\ \A i \in DOMAIN ss : i < last => new[i] = ss[i]
    BY <1>1, <2>1, <2>2 DEF SplitType
  <2>4. InOrder(new)
    BY <2>3 DEF InOrder, ss
  <2>5. Bounded(sections[s], syms, new)
    <3> SUFFICES ASSUME NEW i \in DOMAIN new
                 PROVE  \/ new[i].end <= sections[s].end
                        \/ \E j \in DOMAIN new : i < j /\ new[j].end <= sections[s].end
      BY DEF Bounded
    <3>1. CASE i = last
      BY <1>1, <2>3, <3>1
    <3>2. CASE i # last
      <4>1. i < last
        BY <1>1, <2>2, <2>3, <3>2
      <4> QED BY <1>1, <2>2, <2>3, <4>1
    <3> QED BY <3>1, <3>2
  <2> QED BY <2>4, <2>5 DEF new
<1>3. CASE sections[s].end # sections[s].limit /\ ~(ss # <<>> /\ ss[last].end > sections[s].end)
  <2>1. new = ss
    BY <1>3 DEF Trimmed
  <2>2. Bounded(sections[s], syms, ss)
    <3> SUFFICES ASSUME NEW i \in DOMAIN ss
                 PROVE  \/ ss[i].end <= sections[s].end
                        \/ \E j \in DOMAIN ss : i < j /\ ss[j].end <= sections[s].end
      BY DEF Bounded
    <3>1. last \in DOMAIN ss /\ i <= last
      BY <1>1
    <3>2. ss[last].end <= sections[s].end
      BY <1>1, <1>3, <3>1
    <3> QED BY <1>1, <3>1, <3>2
  <2> QED BY <2>1, <2>2
<1>4. CASE sections[s].end = sections[s].limit
  <2>1. new = ss
    BY <1>4 DEF Trimmed
  <2> QED BY <1>4, <2>1 DEF Bounded
<1> QED BY <1>2, <1>3, <1>4

\* The gaps that wait for a section when one more is made, or the first is added.
LEMMA PendingMore ==
  ASSUME NEW G, NEW gs \in Seq(G), NEW g \in G, NEW s
  PROVE  Pending(Append(gs, g), s) =
           IF g.sect = s THEN Pending(gs, s) \cup {g.split} ELSE Pending(gs, s)
<1> DEFINE new == Append(gs, g)
<1>1. /\ DOMAIN new = DOMAIN gs \cup {Len(gs) + 1} /\ new[Len(gs) + 1] = g
      /\ \A k \in DOMAIN gs : new[k] = gs[k]
  OBVIOUS
<1> HIDE DEF new
<1>2. Pending(new, s) = IF g.sect = s THEN Pending(gs, s) \cup {g.split} ELSE Pending(gs, s)
  BY <1>1 DEF Pending
<1> QED BY <1>2 DEF new

LEMMA PendingLess ==
  ASSUME NEW G, NEW gs \in Seq(G), gs # <<>>, NEW s
  PROVE  /\ Pending(Tail(gs), s) \subseteq Pending(gs, s)
         /\ Head(gs).sect = s => /\ Head(gs).split \in Pending(gs, s)
                                 /\ Pending(gs, s) \subseteq Pending(Tail(gs), s) \cup {Head(gs).split}
         /\ Head(gs).sect # s => Pending(Tail(gs), s) = Pending(gs, s)
<1> DEFINE new == Tail(gs)
<1>1. /\ DOMAIN gs = 1..Len(gs) /\ Len(gs) \in Nat /\ 1 \in DOMAIN gs
      /\ Head(gs) = gs[1] /\ DOMAIN new = 1..(Len(gs) - 1)
      /\ \A k \in DOMAIN new : k + 1 \in DOMAIN gs /\ new[k] = gs[k + 1]
  OBVIOUS
<1> HIDE DEF new
<1>2. \A k \in DOMAIN gs : k = 1 \/ (k - 1 \in DOMAIN new /\ new[k - 1] = gs[k])
  BY <1>1
<1>3. Pending(new, s) \subseteq Pending(gs, s)
  BY <1>1 DEF Pending
<1>4. \A k \in DOMAIN gs : k # 1 /\ gs[k].sect = s => gs[k].split \in Pending(new, s)
  BY <1>2 DEF Pending
<1>5. \A x \in Pending(gs, s) : \E k \in DOMAIN gs : gs[k].sect = s /\ x = gs[k].split
  BY DEF Pending
<1>6. Head(gs).sect = s => Pending(gs, s) \subseteq Pending(new, s) \cup {Head(gs).split}
  BY <1>1, <1>4, <1>5
<1>7. Head(gs).sect = s => Head(gs).split \in Pending(gs, s)
  BY <1>1 DEF Pending
<1>8. Head(gs).sect # s => Pending(gs, s) \subseteq Pending(new, s)
  BY <1>1, <1>4, <1>5
<1> QED BY <1>3, <1>6, <1>7, <1>8 DEF new

LEMMA PendingSplits ==
  ASSUME gaps \in Seq(GapType), NEW s
  PROVE  Pending(gaps, s) \subseteq SplitType
<1>1. \A k \in DOMAIN gaps : gaps[k] \in GapType
  OBVIOUS
<1> QED BY <1>1 DEF Pending, GapType

-----------------------------------------------------------------------------
(* The steps of create_gap_splits and the placing. *)

LEMMA SamePlaces ==
  ASSUME UNCHANGED <<sections, splits, symbols, gaps>>
  PROVE  /\ Ordered' <=> Ordered
         /\ \A s \in DOMAIN sections : (BoundedAt(s)' <=> BoundedAt(s)) /\ (TiledAt(s)' <=> TiledAt(s))
BY DEF Ordered, BoundedAt, TiledAt

LEMMA NothingPending ==
  ASSUME NEW s
  PROVE  Pending(<<>>, s) = {}
BY DEF Pending

LEMMA TrimPlaced ==
  ASSUME Shape, TileInv, Trim, UNCHANGED fillers
  PROVE  TileInv'
<1>1. /\ pc = "trim" /\ pc' = "gaps" /\ gaps = <<>> /\ UNCHANGED <<sections, symbols, gaps>>
      /\ splits' = [s \in DOMAIN splits |-> Trimmed(s)] /\ DOMAIN splits = DOMAIN sections
      /\ sect' = 1 /\ cur' = sections[1].start /\ nth' = 1
  BY DEF Trim, AtSection, TileInv, Placing, Shape
<1>2. /\ \A s \in DOMAIN sections : s \in Nat \ {0}
      /\ 1 \in DOMAIN sections
  BY DEF Shape
<1>3. ASSUME NEW s \in DOMAIN sections
      PROVE  Bounded(sections[s], symbols[s], Trimmed(s)) /\ InOrder(Trimmed(s))
  <2>1. InOrder(splits[s]) /\ \A i \in DOMAIN splits[s] : splits[s][i].end <= sections[s].limit
    BY <1>1 DEF TileInv, Ordered, Placing
  <2> QED BY <2>1, TrimBounds
<1>4. \A s \in DOMAIN sections : splits'[s] = Trimmed(s)
  BY <1>1
<1>5. Ordered'
  BY <1>1, <1>3, <1>4 DEF Ordered
<1>6. \A s \in DOMAIN sections : BoundedAt(s)'
  BY <1>1, <1>3, <1>4 DEF BoundedAt
<1>7. WalkingHere'
  <2>1. Trimmed(1) \in Seq(SplitType)
    <3>1. splits[1] \in Seq(SplitType) /\ sections[1].end \in Nat
      BY <1>2, SplitsAre DEF SectionType
    <3>2. CASE splits[1] = <<>>
      BY <3>1, <3>2 DEF Trimmed
    <3>3. CASE splits[1] # <<>>
      <4> DEFINE ss == splits[1]
                 last == Len(ss)
      <4>1. last \in DOMAIN ss /\ ss[last] \in SplitType
        BY <3>1, <3>3
      <4>2. [ss[last] EXCEPT !.end = sections[1].end] \in SplitType
        BY <3>1, <4>1 DEF SplitType
      <4>3. [ss EXCEPT ![last] = [ss[last] EXCEPT !.end = sections[1].end]] \in Seq(SplitType)
        BY <3>1, <4>1, <4>2
      <4> QED BY <3>1, <4>3 DEF Trimmed
    <3> QED BY <3>2, <3>3
  <2>2. Walking(sections[1], symbols[1], Trimmed(1), {}, sections[1].start, 1)
    BY <1>2, <1>3, <2>1, WalkFromStart
  <2>3. Pending(gaps', 1) = {}
    BY <1>1, NothingPending
  <2> QED BY <1>1, <1>2, <1>4, <2>2, <2>3 DEF WalkingHere, Section, Syms
<1>8. Placing'
  <2>1. \A k \in DOMAIN gaps' : gaps'[k].sect <= sect'
    BY <1>1
  <2>2. \A s \in DOMAIN sections : ~(s < sect')
    BY <1>1, <1>2
  <2> QED BY <1>1, <1>6, <1>7, <2>1, <2>2 DEF Placing
<1>9. Whole'
  BY <1>1 DEF Whole
<1> QED BY <1>5, <1>8, <1>9 DEF TileInv

LEMMA MakeGapPlaced ==
  ASSUME Shape, TileInv, MakeGap
  PROVE  TileInv'
<1>1. /\ pc = "gaps" /\ UNCHANGED <<sections, splits, symbols, sect, nth, pc>>
      /\ InSection /\ NextStart >= cur /\ Gap
  BY DEF MakeGap, InSection
<1>2. /\ sect \in DOMAIN sections /\ Section \in SectionType /\ Syms \in Seq(SymbolType)
      /\ splits[sect] \in Seq(SplitType) /\ NextStart \in Nat /\ cur \in Nat /\ cur < Section.end
      /\ nth \in Nat \ {0} /\ gaps \in Seq(GapType)
  BY <1>1, InLoop DEF Shape
<1>3. /\ gaps' = Append(gaps, NewGap) /\ cur' = NewEnd /\ NewGap \in GapType
      /\ NewEnd \in Nat /\ NewEnd > cur
  BY GapMade
<1>4. Ordered /\ Placing
  BY DEF TileInv
<1>5. \A s : Pending(gaps', s) =
              IF s = sect THEN Pending(gaps, s) \cup {NewGap.split} ELSE Pending(gaps, s)
  <2> TAKE s
  <2>1. NewGap.sect = sect
    BY DEF NewGap
  <2>2. Pending(gaps', s) =
          IF NewGap.sect = s THEN Pending(gaps, s) \cup {NewGap.split} ELSE Pending(gaps, s)
    BY <1>2, <1>3, PendingMore
  <2> QED BY <2>1, <2>2
<1>6. \A s \in DOMAIN sections : BoundedAt(s)' <=> BoundedAt(s)
  BY <1>1 DEF BoundedAt
<1>7. \A s \in DOMAIN sections : s < sect => TiledAt(s)'
  <2> TAKE s \in DOMAIN sections
  <2> HAVE s < sect
  <2>1. TiledAt(s) /\ s # sect
    <3>1. s \in Nat /\ sect \in Nat
      BY <1>2 DEF Shape
    <3> QED BY <1>1, <1>4, <3>1 DEF Placing
  <2>2. Pending(gaps', s) = Pending(gaps, s)
    BY <1>5, <2>1
  <2> QED BY <1>1, <2>1, <2>2 DEF TiledAt
<1>8. WalkingHere'
  <2> SUFFICES ASSUME Plain(Section, splits[sect])
               PROVE  Walking(Section, Syms, splits[sect], Pending(gaps, sect) \cup {NewGap.split},
                              NewEnd, nth)
    <3>1. Pending(gaps', sect) = Pending(gaps, sect) \cup {NewGap.split}
      BY <1>5
    <3> QED BY <1>1, <1>3, <3>1 DEF WalkingHere, Section, Syms
  <2>1. Walking(Section, Syms, splits[sect], Pending(gaps, sect), cur, nth)
    BY <1>1, <1>4 DEF Placing, WalkingHere
  <2>2. NextStart > cur
    <3>1. NextAlign \in Nat \ {0}
      <4>1. CASE HasNext
        <5>1. NextSplit \in SplitType
          BY <1>2, <4>1 DEF HasNext, NextSplit
        <5> QED BY <1>2, <4>1, <5>1, AlignmentType DEF NextAlign
      <4>2. CASE ~HasNext
        BY <1>2, <4>2 DEF NextAlign, SectionType
      <4> QED BY <4>1, <4>2
    <3>2. AlignUp(cur, NextAlign) \in Nat /\ AlignUp(cur, NextAlign) >= cur
      BY <1>2, <3>1, Rounded
    <3> QED BY <1>1, <1>2, <3>2 DEF Gap
  <2>3. \A k \in DOMAIN splits[sect] : k >= nth => cur < splits[sect][k].addr
    <3>1. InOrder(splits[sect])
      BY <1>2, <1>4 DEF Ordered
    <3> QED BY <1>1, <2>2, <3>1, SplitsBehind
  <2>4. /\ NewGap.split \in SplitType /\ NewGap.split.addr = cur /\ NewGap.split.end = NewEnd
    BY <1>3 DEF NewGap, GapType
  <2>5. NewGap.split.end <= Section.end \/ HasComdat(Syms, NewGap.split)
    BY <2>4, GapBounded
  <2>6. Pending(gaps, sect) \subseteq SplitType
    BY <1>2, PendingSplits
  <2>7. cur < NewGap.split.end
    BY <1>2, <1>3, <2>4
  <2> HIDE DEF Section, Syms, NewGap, NewEnd
  <2>8. Walking(Section, Syms, splits[sect], Pending(gaps, sect) \cup {NewGap.split},
                NewGap.split.end, nth)
    BY <1>2, <2>1, <2>3, <2>4, <2>5, <2>6, <2>7, WalkGap
  <2> QED BY <2>4, <2>8
<1>9. \A k \in DOMAIN gaps' : gaps'[k].sect <= sect'
  <2>1. \A k \in DOMAIN gaps : gaps[k].sect <= sect
    BY <1>1, <1>4 DEF Placing
  <2>2. sect \in Nat /\ NewGap.sect = sect
    BY DEF Shape, NewGap
  <2>3. \A k \in DOMAIN gaps' : (k \in DOMAIN gaps /\ gaps'[k] = gaps[k]) \/ gaps'[k] = NewGap
    BY <1>2, <1>3
  <2> QED BY <1>1, <2>1, <2>2, <2>3
<1>10. Placing'
  <2>1. \A s \in DOMAIN sections : s >= sect => BoundedAt(s)'
    BY <1>1, <1>4, <1>6 DEF Placing
  <2> QED BY <1>1, <1>7, <1>8, <1>9, <2>1 DEF Placing
<1>11. Ordered'
  BY <1>1, <1>4 DEF Ordered
<1>12. Whole'
  BY <1>1 DEF Whole
<1> QED BY <1>10, <1>11, <1>12 DEF TileInv

LEMMA TakeSplitPlaced ==
  ASSUME Shape, TileInv, TakeSplit
  PROVE  TileInv'
<1>1. /\ pc = "gaps" /\ UNCHANGED <<sections, splits, symbols, sect, gaps, pc>>
      /\ InSection /\ NextStart >= cur /\ ~Gap
  BY DEF TakeSplit, InSection
<1>2. /\ sect \in DOMAIN sections /\ Section \in SectionType /\ Syms \in Seq(SymbolType)
      /\ splits[sect] \in Seq(SplitType) /\ NextStart \in Nat /\ cur \in Nat /\ cur < Section.end
      /\ nth \in Nat \ {0} /\ gaps \in Seq(GapType)
  BY <1>1, InLoop DEF Shape
<1>3. Ordered /\ Placing
  BY DEF TileInv
<1>4. WalkingHere'
  <2> SUFFICES ASSUME Plain(Section, splits[sect])
               PROVE  Walking(Section, Syms, splits[sect], Pending(gaps, sect), cur', nth')
    BY <1>1 DEF WalkingHere, Section, Syms
  <2>1. Walking(Section, Syms, splits[sect], Pending(gaps, sect), cur, nth)
    BY <1>1, <1>3 DEF Placing, WalkingHere
  <2>2. Pending(gaps, sect) \subseteq SplitType
    BY <1>2, PendingSplits
  <2>3. InOrder(splits[sect]) /\ Unbroken(splits[sect]) /\ Section.start % Section.align = 0
    BY <1>2, <1>3 DEF Ordered, Plain
  <2>4. NextStart <= AlignUp(cur, NextAlign)
    <3>1. NextAlign \in Nat \ {0}
      <4>1. CASE HasNext
        <5>1. NextSplit \in SplitType
          BY <1>2, <4>1 DEF HasNext, NextSplit
        <5> QED BY <1>2, <4>1, <5>1, AlignmentType DEF NextAlign
      <4>2. CASE ~HasNext
        BY <1>2, <4>2 DEF NextAlign, SectionType
      <4> QED BY <4>1, <4>2
    <3>2. AlignUp(cur, NextAlign) \in Nat
      BY <1>2, <3>1, Rounded
    <3> QED BY <1>1, <1>2, <3>2 DEF Gap
  <2>5. CASE HasNext
    <3>1. nth \in DOMAIN splits[sect] /\ splits[sect][nth].addr < Section.end
      BY <1>2, <2>5 DEF HasNext
    <3>2. splits[sect][nth].end > 0 /\ splits[sect][nth].addr <= splits[sect][nth].end
      <4>1. splits[sect][nth] \in SplitType
        BY <1>2, <3>1
      <4>2. splits[sect][nth].end > 0 /\ splits[sect][nth].end >= splits[sect][nth].addr
        BY <2>3, <3>1 DEF Unbroken
      <4> QED BY <4>1, <4>2 DEF SplitType
    <3>3. nth' = nth + 1 /\ cur' = splits[sect][nth].end
      BY <2>5, <3>2 DEF TakeSplit, NextSplit
    <3>4. NextStart = splits[sect][nth].addr /\ cur <= splits[sect][nth].addr
      <4>1. NextStart = splits[sect][nth].addr
        BY <2>5 DEF NextStart, NextSplit
      <4> QED BY <1>1, <1>2, <4>1
    <3>5. splits[sect][nth].addr <= AlignUp(cur, Alignment(Section, Syms, splits[sect][nth]))
      BY <2>4, <2>5, <3>4 DEF NextAlign, NextSplit
    <3> HIDE DEF Section, Syms
    <3> QED BY <1>2, <2>1, <2>2, <2>3, <3>1, <3>2, <3>3, <3>4, <3>5, WalkSplit
  <2>6. CASE ~HasNext
    <3>1. nth' = nth /\ cur' = Section.end
      BY <2>6 DEF TakeSplit
    <3>2. Section.end <= AlignUp(cur, Section.align)
      BY <2>4, <2>6 DEF NextStart, NextAlign
    <3>3. ASSUME NEW k \in DOMAIN splits[sect], k >= nth
          PROVE  splits[sect][k].addr >= Section.end
      <4>1. nth \in DOMAIN splits[sect] /\ k \in Nat
        BY <1>2, <3>3
      <4>2. splits[sect][nth].addr \in Nat /\ splits[sect][k].addr \in Nat /\ Section.end \in Nat
        <5>1. splits[sect][nth] \in SplitType /\ splits[sect][k] \in SplitType
          BY <1>2, <4>1
        <5> QED BY <1>2, <5>1 DEF SplitType, SectionType
      <4>3. ~(splits[sect][nth].addr < Section.end)
        BY <1>2, <2>6, <4>1 DEF HasNext
      <4>4. splits[sect][nth].addr <= splits[sect][k].addr
        <5>1. CASE k = nth
          BY <4>2, <5>1
        <5>2. CASE nth < k
          BY <2>3, <4>1, <5>2 DEF InOrder
        <5> QED BY <1>2, <3>3, <4>1, <5>1, <5>2
      <4> QED BY <4>2, <4>3, <4>4
    <3> HIDE DEF Section, Syms
    <3>4. nth \in Nat
      BY <1>2
    <3> QED BY <1>2, <2>1, <2>2, <2>3, <3>1, <3>2, <3>3, <3>4, WalkPad
  <2> QED BY <2>5, <2>6
<1>5. Placing'
  <2>1. \A s \in DOMAIN sections : (BoundedAt(s)' <=> BoundedAt(s)) /\ (TiledAt(s)' <=> TiledAt(s))
    BY <1>1, SamePlaces
  <2> QED BY <1>1, <1>3, <1>4, <2>1 DEF Placing
<1>6. Ordered' /\ Whole'
  BY <1>1, <1>3 DEF Ordered, Whole
<1> QED BY <1>5, <1>6 DEF TileInv

LEMMA NextSectionPlaced ==
  ASSUME Shape, TileInv, NextSection
  PROVE  TileInv'
<1>1. /\ pc = "gaps" /\ UNCHANGED <<sections, splits, symbols, gaps>>
      /\ cur >= Section.end
  BY DEF NextSection
<1>2. /\ sect \in DOMAIN sections /\ Section \in SectionType /\ Syms \in Seq(SymbolType)
      /\ splits[sect] \in Seq(SplitType) /\ cur \in Nat /\ nth \in Nat \ {0}
      /\ gaps \in Seq(GapType) /\ sect \in Nat /\ DOMAIN sections = 1..Len(sections)
      /\ Len(sections) \in Nat
  <2>1. sect \in DOMAIN sections
    BY <1>1 DEF NextSection, Shape
  <2> QED BY <1>1, <2>1, SplitsAre DEF Shape, Section, Syms
<1>3. Ordered /\ Placing
  BY DEF TileInv
<1>4. TiledAt(sect)
  <2> SUFFICES ASSUME Plain(Section, splits[sect])
               PROVE  Tiled(Section, Syms, splits[sect], Pending(gaps, sect))
    BY DEF TiledAt, Section, Syms
  <2>1. Walking(Section, Syms, splits[sect], Pending(gaps, sect), cur, nth)
    BY <1>1, <1>3 DEF Placing, WalkingHere
  <2>2. Pending(gaps, sect) \subseteq SplitType
    BY <1>2, PendingSplits
  <2>3. Section.start < Section.end
    BY DEF Plain
  <2>4. nth \in Nat
    BY <1>2
  <2> HIDE DEF Section, Syms
  <2> QED BY <1>1, <1>2, <2>1, <2>2, <2>3, <2>4, WalkEnd
<1>5. \A s \in DOMAIN sections : s < sect + 1 => TiledAt(s)
  <2> TAKE s \in DOMAIN sections
  <2> HAVE s < sect + 1
  <2>1. s = sect \/ s < sect
    BY <1>2
  <2> QED BY <1>1, <1>3, <1>4, <2>1 DEF Placing
<1>6. \A s \in DOMAIN sections : (BoundedAt(s)' <=> BoundedAt(s)) /\ (TiledAt(s)' <=> TiledAt(s))
  BY <1>1, SamePlaces
<1>7. Ordered'
  BY <1>1, <1>3 DEF Ordered
<1>8. CASE sect < Len(sections)
  <2>1. /\ sect' = sect + 1 /\ cur' = sections[sect + 1].start /\ nth' = 1 /\ pc' = "gaps"
        /\ sect + 1 \in DOMAIN sections
    BY <1>1, <1>2, <1>8 DEF NextSection, AtSection
  <2>2. \A k \in DOMAIN gaps : gaps[k].sect <= sect
    BY <1>1, <1>3 DEF Placing
  <2>3. \A k \in DOMAIN gaps : gaps[k].sect \in DOMAIN sections
    <3>1. \A k \in DOMAIN gaps : gaps[k] \in GapType
      BY <1>2
    <3> QED BY <3>1 DEF GapType
  <2>4. Pending(gaps, sect + 1) = {}
    <3>1. \A k \in DOMAIN gaps : gaps[k].sect # sect + 1
      BY <1>2, <2>2, <2>3
    <3> QED BY <3>1 DEF Pending
  <2>5. \A s \in DOMAIN sections : s >= sect + 1 => BoundedAt(s)
    <3>1. \A s \in DOMAIN sections : s >= sect + 1 => s >= sect
      BY <1>2
    <3> QED BY <1>1, <1>3, <3>1 DEF Placing
  <2>6. WalkingHere'
    <3>1. Bounded(sections[sect + 1], symbols[sect + 1], splits[sect + 1])
      BY <1>2, <2>1, <2>5 DEF BoundedAt
    <3>2. splits[sect + 1] \in Seq(SplitType)
      BY <2>1, SplitsAre
    <3>3. Walking(sections[sect + 1], symbols[sect + 1], splits[sect + 1], {},
                  sections[sect + 1].start, 1)
      BY <3>1, <3>2, WalkFromStart
    <3> QED BY <1>1, <2>1, <2>4, <3>3 DEF WalkingHere, Section, Syms
  <2>7. \A k \in DOMAIN gaps' : gaps'[k].sect <= sect'
    <3>1. \A k \in DOMAIN gaps : gaps[k].sect <= sect + 1
      BY <1>2, <2>2, <2>3
    <3> QED BY <1>1, <2>1, <3>1
  <2>8. \A s \in DOMAIN sections : (s < sect + 1 => TiledAt(s)') /\ (s >= sect + 1 => BoundedAt(s)')
    BY <1>5, <1>6, <2>5
  <2>9. Placing'
    BY <1>1, <2>1, <2>6, <2>7, <2>8 DEF Placing
  <2>10. Whole'
    BY <2>1 DEF Whole
  <2> QED BY <1>7, <2>9, <2>10 DEF TileInv
<1>9. CASE ~(sect < Len(sections))
  <2>1. pc' = "add"
    BY <1>9 DEF NextSection
  <2>2. \A s \in DOMAIN sections : s < sect + 1
    BY <1>2, <1>9
  <2>3. \A s \in DOMAIN sections : TiledAt(s)'
    BY <1>5, <1>6, <2>2
  <2> QED BY <1>1, <1>7, <2>1, <2>3 DEF Placing, Whole, TileInv
<1> QED BY <1>8, <1>9

\* What is put among splits that are not broken was not there to break them.
LEMMA UnbrokenBefore ==
  ASSUME NEW ss \in Seq(SplitType), InOrder(ss), NEW g \in SplitType, Unbroken(Push(ss, g))
  PROVE  Unbroken(ss)
<1> DEFINE new == Push(ss, g)
<1>1. new = Push(ss, g)
  OBVIOUS
<1> HIDE DEF new
<1>2. PICK p \in 0..Len(ss) : PutAt(ss, g, new, p)
  BY <1>1, Pushed
<1>3. \A k \in DOMAIN ss : \E l \in DOMAIN new : new[l] = ss[k]
  <2>1. new \in Seq(SplitType)
    BY <1>2 DEF PutAt
  <2>2. \A k \in DOMAIN ss : \/ k \in 1..p /\ k \in DOMAIN new /\ new[k] = ss[k]
                             \/ k \in p + 1..Len(ss) /\ k + 1 \in DOMAIN new /\ new[k + 1] = ss[k]
    BY <1>2, <2>1, PushedFrom
  <2> QED BY <2>2
<1> QED BY <1>1, <1>3 DEF Unbroken

LEMMA AddGapPlaced ==
  ASSUME Shape, SymbolsOK, TileInv, AddGap
  PROVE  TileInv'
<1>1. pc = "add" /\ gaps # <<>> /\ UNCHANGED <<sections, symbols>> /\ gaps \in Seq(GapType)
  BY DEF AddGap, Shape
<1>2. CASE ~(Head(gaps).split.end <= sections[Head(gaps).sect].limit)
  <2>1. pc' = "bail" /\ UNCHANGED splits
    BY <1>2 DEF AddGap
  <2> QED BY <1>1, <2>1 DEF TileInv, Ordered, Placing, Whole
<1>3. CASE Head(gaps).split.end <= sections[Head(gaps).sect].limit
  <2> DEFINE at == Head(gaps).sect
             g == Head(gaps).split
  <2>1. at \in DOMAIN sections /\ g \in SplitType
    <3>1. Head(gaps) \in GapType
      BY <1>1
    <3> QED BY <3>1 DEF GapType
  <2>2. splits' = [splits EXCEPT ![at] = Push(@, g)] /\ gaps' = Tail(gaps) /\ pc' = "add"
    BY <1>1, <1>3 DEF AddGap
  <2>3. \A s \in DOMAIN sections : /\ Pending(gaps', s) \subseteq Pending(gaps, s)
                                   /\ at = s => /\ g \in Pending(gaps, s)
                                                /\ Pending(gaps, s) \subseteq Pending(gaps', s) \cup {g}
                                   /\ at # s => Pending(gaps', s) = Pending(gaps, s)
    <3> TAKE s \in DOMAIN sections
    <3> QED BY <1>1, <2>2, PendingLess
  <2> HIDE DEF at, g
  <2>a. DOMAIN splits = DOMAIN sections
    BY DEF Shape
  <2>4. DOMAIN splits = DOMAIN sections /\ splits'[at] = Push(splits[at], g)
        /\ \A s \in DOMAIN sections : s # at => splits'[s] = splits[s]
    BY <2>1, <2>2, <2>a
  <2>5. \A s \in DOMAIN sections : InOrder(splits[s])
    BY DEF TileInv, Ordered
  <2>6. splits[at] \in Seq(SplitType) /\ sections[at] \in SectionType /\ symbols[at] \in Seq(SymbolType)
    BY <2>1, SplitsAre DEF SymbolsOK
  <2>7. Ordered'
    <3>1. InOrder(Push(splits[at], g))
      BY <2>1, <2>5, <2>6, PushInOrder
    <3> QED BY <1>1, <2>4, <2>5, <3>1 DEF Ordered
  <2>8. \A s \in DOMAIN sections : TiledAt(s)'
    <3> TAKE s \in DOMAIN sections
    <3>1. TiledAt(s)
      BY <1>1 DEF TileInv, Placing
    <3>2. CASE s # at
      <4>1. Pending(gaps', s) = Pending(gaps, s) /\ splits'[s] = splits[s]
        BY <2>3, <2>4, <3>2
      <4> QED BY <1>1, <3>1, <4>1 DEF TiledAt
    <3>3. CASE s = at
      <4> SUFFICES ASSUME Plain(sections[at], Push(splits[at], g))
                   PROVE  Tiled(sections[at], symbols[at], Push(splits[at], g), Pending(gaps', at))
        BY <1>1, <2>4, <3>3 DEF TiledAt
      <4>1. Plain(sections[at], splits[at])
        BY <2>1, <2>5, <2>6, UnbrokenBefore DEF Plain
      <4>2. Tiled(sections[at], symbols[at], splits[at], Pending(gaps, at))
        BY <3>1, <3>3, <4>1 DEF TiledAt
      <4>3. /\ g \in Pending(gaps, at) /\ Pending(gaps', at) \subseteq Pending(gaps, at)
            /\ Pending(gaps, at) \subseteq Pending(gaps', at) \cup {g}
        BY <2>1, <2>3
      <4> QED BY <2>1, <2>5, <2>6, <4>2, <4>3, TiledPush
    <3> QED BY <3>2, <3>3
  <2>9. Placing' /\ Whole'
    BY <1>1, <2>2, <2>8 DEF Placing, Whole
  <2> QED BY <2>7, <2>9 DEF TileInv
<1> QED BY <1>2, <1>3

\* Places and alignments, once no gap waits, are all that counts.
LEMMA KeptPlaced ==
  ASSUME Shape, SymbolsOK, Shape', SymbolsOK', sections' = sections, gaps = <<>>, gaps' = <<>>,
         Ordered, \A s \in DOMAIN sections : TiledAt(s),
         \A s \in DOMAIN sections : Keeps(symbols[s], symbols'[s]),
         \A s \in DOMAIN sections : /\ Len(splits'[s]) = Len(splits[s])
                                    /\ \A i \in DOMAIN splits[s] : Alike(splits[s][i], splits'[s][i])
  PROVE  Ordered' /\ \A s \in DOMAIN sections : TiledAt(s)'
<1>1. ASSUME NEW s \in DOMAIN sections
      PROVE  InOrder(splits'[s]) /\ TiledAt(s)'
  <2> DEFINE ss == splits[s]
             tt == splits'[s]
  <2>1. ss \in Seq(SplitType) /\ sections[s] \in SectionType /\ symbols[s] \in Seq(SymbolType)
    BY SplitsAre DEF SymbolsOK
  <2>2. tt \in Seq(SplitType) /\ symbols'[s] \in Seq(SymbolType)
    <3>1. splits' \in Seq(Seq(SplitType)) /\ Len(splits') = Len(sections)
      BY DEF Shape
    <3>2. symbols' \in Seq(Seq(SymbolType)) /\ Len(symbols') = Len(sections)
      BY DEF SymbolsOK
    <3> QED BY <3>1, <3>2
  <2>3. Len(tt) = Len(ss) /\ \A i \in DOMAIN ss : Alike(ss[i], tt[i])
    OBVIOUS
  <2>4. Keeps(symbols[s], symbols'[s])
    OBVIOUS
  <2>5. InOrder(ss) /\ TiledAt(s)
    BY DEF Ordered
  <2> HIDE DEF ss, tt
  <2>6. DOMAIN tt = DOMAIN ss
    BY <2>1, <2>2, <2>3
  <2>7. InOrder(tt)
    BY <2>3, <2>5, <2>6 DEF InOrder, Alike
  <2>8. TiledAt(s)'
    <3> SUFFICES ASSUME Plain(sections[s], tt)
                 PROVE  Tiled(sections[s], symbols'[s], tt, {})
      BY NothingPending DEF TiledAt, tt
    <3>1. Plain(sections[s], ss)
      BY <2>3, <2>6 DEF Plain, Unbroken, Alike
    <3>2. Tiled(sections[s], symbols[s], ss, {})
      BY <2>5, <3>1, NothingPending DEF TiledAt, ss
    <3> QED BY <2>1, <2>2, <2>3, <2>4, <3>2, TiledKept
  <2> QED BY <2>7, <2>8 DEF tt
<1> QED BY <1>1 DEF Ordered

LEMMA AlikeItself ==
  ASSUME UNCHANGED splits, NEW s
  PROVE  /\ Len(splits'[s]) = Len(splits[s])
         /\ \A i \in DOMAIN splits[s] : Alike(splits[s][i], splits'[s][i])
BY DEF Alike

LEMMA KeptSteps ==
  ASSUME UInv, UInv', TypeInv, TypeInv', TileInv, UNCHANGED fillers,
         FixSizes \/ UpdateCommon \/ Truncate \/ PadSplit
  PROVE  TileInv'
<1>1. Shape /\ SymbolsOK /\ Shape' /\ SymbolsOK'
  BY DEF UInv, TypeInv
<1>2. /\ Ordered /\ sections' = sections /\ gaps' = gaps /\ gaps = <<>>
      /\ \A s \in DOMAIN sections : TiledAt(s)
  BY DEF FixSizes, UpdateCommon, Truncate, PadSplit, TileInv, Placing
<1>3. \A s \in DOMAIN sections : Keeps(symbols[s], symbols'[s])
  <2>1. CASE UpdateCommon
    BY <2>1, KeepsItself DEF UpdateCommon
  <2> QED BY <1>1, <2>1, FixSizesTypes, TruncateTypes, PadTypes
<1>4. \A s \in DOMAIN sections : /\ Len(splits'[s]) = Len(splits[s])
                                 /\ \A i \in DOMAIN splits[s] : Alike(splits[s][i], splits'[s][i])
  <2> TAKE s \in DOMAIN sections
  <2>1. CASE UpdateCommon
    <3>1. splits[s] \in Seq(SplitType) /\ DOMAIN splits = DOMAIN sections
      BY <1>1, SplitsAre
    <3>2. splits'[s] = [i \in DOMAIN splits[s] |->
              IF CommonStart(s) # NoCommon /\ splits[s][i].addr >= CommonStart(s)
              THEN [splits[s][i] EXCEPT !.common = TRUE] ELSE splits[s][i]]
      BY <2>1, <3>1 DEF UpdateCommon
    <3>3. \A i \in DOMAIN splits[s] : splits[s][i] \in SplitType
      BY <3>1
    <3>4. \A i \in DOMAIN splits[s] : Alike(splits[s][i], splits'[s][i])
      BY <3>2, <3>3 DEF Alike, SplitType
    <3>5. Len(splits'[s]) = Len(splits[s])
      BY <3>1, <3>2
    <3> QED BY <3>4, <3>5
  <2>2. CASE FixSizes \/ Truncate \/ PadSplit
    BY <2>2, AlikeItself DEF FixSizes, Truncate, PadSplit
  <2> QED BY <2>1, <2>2
<1>5. Ordered' /\ \A s \in DOMAIN sections : TiledAt(s)'
  BY <1>1, <1>2, <1>3, <1>4, KeptPlaced
<1>6. pc' \notin {"trim", "gaps"}
  BY DEF FixSizes, UpdateCommon, Truncate, PadSplit
<1>7. Placing'
  BY <1>2, <1>5, <1>6 DEF Placing
<1>8. Whole'
  <2>1. CASE FixSizes \/ UpdateCommon
    BY <2>1 DEF FixSizes, UpdateCommon, Whole
  <2>2. CASE Truncate
    <3>1. pc' = "validate" /\ sect' = 1 /\ nth' = 1 /\ UNCHANGED <<sections, splits>>
      BY <2>2 DEF Truncate
    <3>2. \A s \in DOMAIN sections : s \in Nat \ {0} /\ splits[s] \in Seq(SplitType)
      BY <1>1, SplitsAre
    <3>3. \A s \in DOMAIN sections : ~(s < 1)
      BY <3>2
    <3>4. 1 <= Len(sections) => \A k \in DOMAIN splits[1] : ~(k < 1)
      <4>1. 1 \in DOMAIN sections
        BY <1>1 DEF Shape
      <4> QED BY <3>2, <4>1
    <3> QED BY <3>1, <3>3, <3>4 DEF Whole
  <2>3. CASE PadSplit
    <3>1. pc = "pad" /\ pc' \in {"pad", "bail"} /\ UNCHANGED <<sections, splits>>
      BY <2>3 DEF PadSplit
    <3> QED BY <3>1 DEF Whole, TileInv
  <2> QED BY <2>1, <2>2, <2>3
<1> QED BY <1>5, <1>7, <1>8 DEF TileInv

\* The steps that change no split and no symbol.
LEMMA LoopSteps ==
  ASSUME Shape, TileInv,
         GapOverlap \/ GapError \/ ValidateSplit \/ SplitInvalid \/ SplitsOfNext \/ Validated
           \/ Padded \/ Filled
  PROVE  TileInv'
<1>1. UNCHANGED <<sections, splits, symbols, gaps>>
  BY DEF GapOverlap, GapError, ValidateSplit, SplitInvalid, SplitsOfNext, Validated, Padded, Filled
<1>2. /\ Ordered'
      /\ \A s \in DOMAIN sections : TiledAt(s)' <=> TiledAt(s)
  BY <1>1, SamePlaces DEF TileInv
<1>3. CASE pc' \in {"bail", "fill", "filled"}
  <2>1. pc \notin {"gaps", "add", "bail"} \/ pc' = "bail"
    BY DEF GapOverlap, GapError, ValidateSplit, SplitInvalid, SplitsOfNext, Validated, Padded, Filled
  <2> QED BY <1>1, <1>2, <1>3, <2>1 DEF TileInv, Placing, Whole
<1>4. CASE pc' \notin {"bail", "fill", "filled"}
  <2>1. ValidateSplit \/ SplitsOfNext \/ Validated
    BY <1>4 DEF GapOverlap, GapError, SplitInvalid, Padded, Filled
  <2>2. pc \in {"validate", "pad"} /\ pc' \in {"validate", "pad", "done"}
    BY <2>1 DEF ValidateSplit, SplitsOfNext, Validated
  <2>3. Placing'
    BY <1>1, <1>2, <2>2 DEF TileInv, Placing
  <2>4. Whole /\ sect \in Nat \ {0} /\ nth \in Nat \ {0} /\ DOMAIN sections = 1..Len(sections)
        /\ Len(sections) \in Nat
    BY DEF TileInv, Shape
  <2>5. CASE ValidateSplit
    <3>1. /\ pc = "validate" /\ pc' = pc /\ sect' = sect /\ nth' = nth + 1
          /\ sect \in DOMAIN sections
          /\ splits[sect][nth].end > 0 /\ splits[sect][nth].end >= splits[sect][nth].addr
      BY <2>4, <2>5 DEF ValidateSplit, AtSplit, SplitValid, NextSplit
    <3>2. splits[sect] \in Seq(SplitType)
      BY <3>1, SplitsAre
    <3>3. \A k \in DOMAIN splits[sect] : k < nth + 1 =>
            splits[sect][k].end > 0 /\ splits[sect][k].end >= splits[sect][k].addr
      <4> TAKE k \in DOMAIN splits[sect]
      <4> HAVE k < nth + 1
      <4>1. k = nth \/ k < nth
        BY <2>4, <3>2
      <4> QED BY <2>4, <3>1, <4>1 DEF Whole
    <3> QED BY <1>1, <1>2, <2>3, <2>4, <3>1, <3>3 DEF TileInv, Whole
  <2>6. CASE SplitsOfNext
    <3>1. /\ pc' = pc /\ sect <= Len(sections) /\ nth > Len(splits[sect])
          /\ sect' = sect + 1 /\ nth' = 1 /\ sect \in DOMAIN sections
      BY <2>4, <2>6 DEF SplitsOfNext
    <3>2. CASE pc = "pad"
      BY <1>1, <1>2, <2>3, <2>4, <3>1, <3>2 DEF TileInv, Whole
    <3>3. CASE pc = "validate"
      <4>1. Unbroken(splits[sect])
        <5>1. splits[sect] \in Seq(SplitType)
          BY <3>1, SplitsAre
        <5>2. \A k \in DOMAIN splits[sect] : k < nth
          BY <2>4, <3>1, <5>1
        <5> QED BY <2>4, <3>1, <3>3, <5>2 DEF Whole, Unbroken
      <4>2. \A s \in DOMAIN sections : s < sect + 1 => Unbroken(splits[s])
        <5> TAKE s \in DOMAIN sections
        <5> HAVE s < sect + 1
        <5>1. s = sect \/ s < sect
          BY <2>4
        <5> QED BY <2>4, <3>3, <4>1, <5>1 DEF Whole
      <4>3. sect + 1 <= Len(sections) => \A k \in DOMAIN splits[sect + 1] : ~(k < 1)
        <5> HAVE sect + 1 <= Len(sections)
        <5>1. sect + 1 \in DOMAIN sections
          BY <2>4
        <5>2. splits[sect + 1] \in Seq(SplitType)
          BY <5>1, SplitsAre
        <5> QED BY <5>2
      <4> QED BY <1>1, <1>2, <2>3, <3>1, <3>3, <4>2, <4>3 DEF TileInv, Whole
    <3> QED BY <2>2, <3>2, <3>3
  <2>7. CASE Validated
    <3>1. pc = "validate" /\ sect > Len(sections) /\ pc' \in {"pad", "done"}
      BY <2>7 DEF Validated
    <3>2. \A s \in DOMAIN sections : s < sect
      BY <2>4, <3>1
    <3>3. \A s \in DOMAIN sections : Unbroken(splits[s])
      BY <2>4, <3>1, <3>2 DEF Whole
    <3> QED BY <1>1, <1>2, <2>3, <3>1, <3>3 DEF TileInv, Whole
  <2> QED BY <2>1, <2>5, <2>6, <2>7
<1> QED BY <1>3, <1>4

\* What is filled has no more to do with the splits.
LEMMA FillSteps ==
  ASSUME TileInv, FillSection \/ AddFiller
  PROVE  TileInv'
<1>1. UNCHANGED <<sections, splits, gaps>> /\ pc = "fill" /\ pc' \in {"fill", "bail"}
  BY DEF FillSection, AddFiller
<1> QED BY <1>1 DEF TileInv, Ordered, Placing, Whole

LEMMA InitPlaced ==
  ASSUME UInit
  PROVE  TileInv
<1>1. PICK o \in Objects : sections = o.sections /\ splits = o.splits
  BY DEF UInit
<1>2. pc = "trim" /\ gaps = <<>>
  BY DEF UInit
<1>3. \A s \in DOMAIN sections :
        InOrder(splits[s]) /\ \A i \in DOMAIN splits[s] : splits[s][i].end <= sections[s].limit
  BY <1>1, ObjectAssumption
<1> QED BY <1>2, <1>3 DEF TileInv, Ordered, Placing, Whole

LEMMA SamePlacing ==
  ASSUME TileInv, UNCHANGED allVars
  PROVE  TileInv'
<1>1. UNCHANGED <<sections, splits, symbols, sect, cur, nth, gaps, pc>>
  BY DEF allVars, gapVars
<1>2. Ordered' /\ Whole'
  BY <1>1 DEF TileInv, Ordered, Whole
<1>3. Placing'
  BY <1>1 DEF TileInv, Placing, TiledAt, BoundedAt, WalkingHere, Section, Syms
<1> QED BY <1>2, <1>3 DEF TileInv

LEMMA StepPlaced ==
  ASSUME UInv, UInv', TypeInv, TypeInv', TileInv, UStep
  PROVE  TileInv'
<1>0. Shape /\ SymbolsOK
  BY DEF UInv, TypeInv
<1>1. CASE GapStep /\ UNCHANGED fillers
  <2>1. CASE MakeGap \/ TakeSplit \/ NextSection \/ AddGap
    BY <1>0, <2>1, MakeGapPlaced, TakeSplitPlaced, NextSectionPlaced, AddGapPlaced
  <2>2. CASE GapOverlap \/ GapError
    BY <1>0, <2>2, LoopSteps
  <2>3. CASE FixSizes
    BY <1>1, <2>3, KeptSteps
  <2> QED BY <1>1, <2>1, <2>2, <2>3 DEF GapStep
<1>2. CASE Trim
  <2>1. UNCHANGED fillers
    BY <1>2 DEF Trim
  <2> QED BY <1>0, <1>2, <2>1, TrimPlaced
<1>3. CASE UpdateCommon \/ Truncate \/ PadSplit
  <2>1. UNCHANGED fillers
    BY <1>3 DEF UpdateCommon, Truncate, PadSplit
  <2> QED BY <1>3, <2>1, KeptSteps
<1>4. CASE ValidateSplit \/ SplitInvalid \/ SplitsOfNext \/ Validated \/ Padded \/ Filled
  BY <1>0, <1>4, LoopSteps
<1>5. CASE FillSection \/ AddFiller
  BY <1>5, FillSteps
<1> QED BY <1>1, <1>2, <1>3, <1>4, <1>5 DEF UStep

\* The section as split_obj walks it.
LEMMA PlacedTiles ==
  ASSUME UInv, TypeInv, TileInv
  PROVE  SectionsTiled
<1>1. UTypeOK
  BY TypesGiven DEF UInv
<1> SUFFICES ASSUME pc \in {"pad", "done"}, NEW s \in DOMAIN sections,
                    sections[s].start < sections[s].end,
                    sections[s].start % sections[s].align = 0
             PROVE  /\ 1 \in Walked(s)
                    /\ sections[s].start <= Begin(s, 1)
                    /\ OnlyPadding(sections[s].start, Begin(s, 1), AlignOf(s, 1))
                    /\ \A i \in Walked(s) :
                         /\ splits[s][i].end <= sections[s].end \/ HoldsComdat(s, splits[s][i])
                         /\ OnlyPadding(splits[s][i].end, Begin(s, i + 1), AlignOf(s, i + 1))
  BY <1>1 DEF SectionsTiled
<1> DEFINE sec == sections[s]
           ss == splits[s]
           syms == symbols[s]
<1>2. sec \in SectionType /\ ss \in Seq(SplitType) /\ syms \in Seq(SymbolType)
  BY SplitsAre DEF UInv, TypeInv, SymbolsOK, Shape
<1>3. InOrder(ss) /\ Unbroken(ss) /\ gaps = <<>> /\ TiledAt(s)
  BY DEF TileInv, Ordered, Placing, Whole
<1>4. Apart(ss)
  BY DEF UInv, SplitsDisjoint, Apart
<1>5. Tiled(sec, syms, ss, {})
  BY <1>3, NothingPending DEF TiledAt, Plain
<1>6. Walked(s) = InFront(sec, ss)
  BY DEF Walked, InFront
<1>7. \A i : HoldsComdat(s, ss[i]) <=> HasComdat(syms, ss[i])
  BY DEF HoldsComdat, HasComdat
<1>8. \A i : i \in Walked(s) =>
             Begin(s, i) = ss[i].addr /\ AlignOf(s, i) = Alignment(sec, syms, ss[i])
  BY DEF Begin, AlignOf
<1>9. \A i : i \notin Walked(s) => Begin(s, i) = sec.end /\ AlignOf(s, i) = sec.align
  BY DEF Begin, AlignOf
<1>10. sec.start < sec.end
  OBVIOUS
<1> HIDE DEF sec, ss, syms
<1>11. /\ 1 \in InFront(sec, ss)
       /\ sec.start <= ss[1].addr
       /\ OnlyPadding(sec.start, ss[1].addr, Alignment(sec, syms, ss[1]))
       /\ \A i \in InFront(sec, ss) :
            /\ ss[i].end <= sec.end \/ HasComdat(syms, ss[i])
            /\ i + 1 \in InFront(sec, ss) =>
                 OnlyPadding(ss[i].end, ss[i + 1].addr, Alignment(sec, syms, ss[i + 1]))
            /\ i + 1 \notin InFront(sec, ss) => OnlyPadding(ss[i].end, sec.end, sec.align)
  BY <1>2, <1>3, <1>4, <1>5, <1>10, WalkFound
<1>12. /\ 1 \in Walked(s) /\ sec.start <= Begin(s, 1)
       /\ OnlyPadding(sec.start, Begin(s, 1), AlignOf(s, 1))
  BY <1>6, <1>8, <1>11
<1>13. ASSUME NEW i \in Walked(s)
       PROVE  /\ ss[i].end <= sec.end \/ HoldsComdat(s, ss[i])
              /\ OnlyPadding(ss[i].end, Begin(s, i + 1), AlignOf(s, i + 1))
  <2>1. ss[i].end <= sec.end \/ HoldsComdat(s, ss[i])
    BY <1>6, <1>7, <1>11
  <2>2. OnlyPadding(ss[i].end, Begin(s, i + 1), AlignOf(s, i + 1))
    <3>1. CASE i + 1 \in Walked(s)
      BY <1>6, <1>8, <1>11, <3>1
    <3>2. CASE i + 1 \notin Walked(s)
      BY <1>6, <1>9, <1>11, <3>2
    <3> QED BY <3>1, <3>2
  <2> QED BY <2>1, <2>2
<1> QED BY <1>12, <1>13 DEF sec, ss

LEMMA StepKept ==
  ASSUME UInv, TypeInv, TileInv, UStep
  PROVE  UInv' /\ TypeInv' /\ TileInv'
<1>1. UInv'
  BY GapStepInv, BeforeValidation, ValidationInv, PaddingInv DEF UStep
<1>2. TypeInv'
  BY StepTypes DEF UInv
<1>3. TileInv'
  BY <1>1, <1>2, StepPlaced
<1> QED BY <1>1, <1>2, <1>3

(***************************************************************************)
(* SectionsTiled for every object: when update_splits succeeds, a section  *)
(* that starts at its alignment is split from its start to its end with    *)
(* nothing but padding in between, so that split_obj's walk finds every    *)
(* byte in a split.                                                        *)
(***************************************************************************)
THEOREM UpdatedSectionsTiled ==
  USpec => []SectionsTiled
<1> DEFINE Inv == UInv /\ TypeInv /\ TileInv
<1>1. UInit => Inv
  BY InitInv, InitTypes, InitPlaced
<1>2. Inv /\ [UNext]_allVars => Inv'
  <2> SUFFICES ASSUME Inv, [UNext]_allVars
               PROVE  Inv'
    OBVIOUS
  <2>1. CASE UStep
    BY <2>1, StepKept
  <2>2. CASE UNCHANGED allVars
    <3>1. UInv' /\ TypeInv'
      BY <2>2, StutterInv, SameTypes
    <3>2. TileInv'
      BY <2>2, SamePlacing
    <3> QED BY <3>1, <3>2
  <2> QED BY <2>1, <2>2 DEF UNext, UDone
<1>3. Inv => SectionsTiled
  BY PlacedTiles
<1> QED BY <1>1, <1>2, <1>3, PTL DEF USpec

-----------------------------------------------------------------------------
(* No boundary of a split lies inside a symbol. *)

\* The label ends where the split it starts in does, and where the next one starts.
LabelFits(ss, sym) ==
  sym.auto /\ Sized(sym) =>
    \A k \in DOMAIN ss :
      /\ ~Inside(ss[k].addr, sym)
      /\ ss[k].addr <= sym.addr /\ (\A j \in DOMAIN ss : k < j => sym.addr < ss[j].addr) =>
           ~Inside(ss[k].end, sym)

LabelsFit(ss, syms) == \A i \in DOMAIN syms : LabelFits(ss, syms[i])

\* What validate_splits finds of a split's boundaries.
BoundariesValid(syms, split) == EndsBy(syms, split.addr) /\ EndsBy(syms, split.end)

UntilPadding == {"trim", "gaps", "add", "common", "truncate", "validate", "done"}

SymbolsOrdered == pc \in UntilPadding => \A s \in DOMAIN sections : InOrder(symbols[s])

Labelled == pc \in {"validate", "done"} => \A s \in DOMAIN sections : LabelsFit(splits[s], symbols[s])

BoundariesChecked ==
  /\ pc = "validate" =>
       /\ \A s \in DOMAIN sections : s < sect =>
            \A i \in DOMAIN splits[s] : BoundariesValid(symbols[s], splits[s][i])
       /\ sect <= Len(sections) =>
            \A i \in DOMAIN splits[sect] : i < nth => BoundariesValid(Syms, splits[sect][i])
  /\ pc = "done" => \A s \in DOMAIN sections :
       \A i \in DOMAIN splits[s] : BoundariesValid(symbols[s], splits[s][i])

SoundInv == SymbolsOrdered /\ Labelled /\ BoundariesChecked

\* The last split that does not start behind an address.
LEMMA LastAtIs ==
  ASSUME NEW ss \in Seq(SplitType), NEW addr \in Nat,
         NEW k \in DOMAIN ss, ss[k].addr <= addr,
         \A j \in DOMAIN ss : k < j => addr < ss[j].addr
  PROVE  LastAt(ss, addr) = k
<1> DEFINE U == {0} \cup {i \in DOMAIN ss : ss[i].addr <= addr}
<1>1. Len(ss) \in Nat /\ U \subseteq 0..Len(ss) /\ U # {}
  OBVIOUS
<1>2. k \in U /\ k \in Nat /\ k # 0
  OBVIOUS
<1>3. \A i \in DOMAIN ss : ss[i].addr \in Nat
  BY SplitNumbers
<1>4. \A i \in U : i <= k
  <2> TAKE i \in U
  <2>1. CASE i = 0
    BY <1>2, <2>1
  <2>2. CASE i # 0
    <3>1. i \in DOMAIN ss /\ ss[i].addr <= addr
      BY <2>2
    <3> QED BY <1>3, <3>1
  <2> QED BY <2>1, <2>2
<1>5. LastAt(ss, addr) = Max(U)
  BY DEF LastAt
<1> HIDE DEF U
<1>6. Max(U) \in U /\ \A y \in U : y <= Max(U)
  BY <1>1, MaxOfBounded
<1>7. Max(U) \in 0..Len(ss)
  BY <1>1, <1>6
<1> QED BY <1>1, <1>2, <1>4, <1>5, <1>6, <1>7

\* No split starts between an address and the first that starts behind it.
LEMMA FirstAfterIs ==
  ASSUME NEW ss \in Seq(SplitType), InOrder(ss), NEW addr \in Nat,
         NEW k \in DOMAIN ss, addr < ss[k].addr
  PROVE  FirstAfter(ss, addr) \in DOMAIN ss /\ ss[FirstAfter(ss, addr)].addr <= ss[k].addr
<1> DEFINE V == {i \in DOMAIN ss : ss[i].addr > addr}
<1>1. V \subseteq Nat /\ k \in V
  OBVIOUS
<1>2. \A i \in DOMAIN ss : ss[i].addr \in Nat
  BY SplitNumbers
<1>3. V \subseteq DOMAIN ss
  OBVIOUS
<1>4. FirstAfter(ss, addr) = Min(V)
  BY <1>1 DEF FirstAfter
<1> HIDE DEF V
<1>5. Min(V) \in V /\ Min(V) <= k
  BY <1>1, MinOfNaturals
<1>6. Min(V) \in DOMAIN ss /\ (Min(V) = k \/ Min(V) < k)
  BY <1>3, <1>5
<1>7. ss[Min(V)].addr <= ss[k].addr
  BY <1>2, <1>6 DEF InOrder
<1> QED BY <1>4, <1>6, <1>7

\* The boundary is no further than any of the candidates.
LEMMA BoundaryFirst ==
  ASSUME NEW ss \in Seq(SplitType), InOrder(ss), NEW addr \in Nat, NEW far \in Nat, NEW k \in DOMAIN ss
  PROVE  /\ addr < ss[k].addr => Boundary(ss, addr, far) <= ss[k].addr
         /\ /\ ss[k].addr <= addr /\ addr < ss[k].end
            /\ \A j \in DOMAIN ss : k < j => addr < ss[j].addr
            => Boundary(ss, addr, far) <= ss[k].end
<1> DEFINE at == LastAt(ss, addr)
           next == FirstAfter(ss, addr)
           ends == {ss[i].end : i \in {at} \ {0}}
           A == {e \in ends : e > addr}
           B == {ss[i].addr : i \in {next} \ {0}}
           T == {far} \cup A \cup B
<1>1. \A i \in DOMAIN ss : ss[i].addr \in Nat /\ ss[i].end \in Nat
  BY SplitNumbers
<1>2. at = 0 \/ at \in DOMAIN ss
  <2> DEFINE U == {0} \cup {i \in DOMAIN ss : ss[i].addr <= addr}
  <2>1. Len(ss) \in Nat /\ U \subseteq 0..Len(ss) /\ U # {}
    OBVIOUS
  <2>2. at = Max(U)
    BY DEF LastAt
  <2> HIDE DEF U, at
  <2>3. at \in U
    BY <2>1, <2>2, MaxOfBounded
  <2> QED BY <2>3 DEF U
<1>3. next = 0 \/ next \in DOMAIN ss
  <2> DEFINE V == {i \in DOMAIN ss : ss[i].addr > addr}
  <2>1. V \subseteq Nat /\ V \subseteq DOMAIN ss
    OBVIOUS
  <2>2. next = IF V = {} THEN 0 ELSE Min(V)
    BY DEF FirstAfter
  <2> HIDE DEF V, next
  <2> QED BY <2>1, <2>2, MinOfNaturals
<1>4. addr < ss[k].addr => next \in DOMAIN ss /\ ss[next].addr <= ss[k].addr
  BY FirstAfterIs
<1>5. ss[k].addr <= addr /\ (\A j \in DOMAIN ss : k < j => addr < ss[j].addr) => at = k
  BY LastAtIs
<1>6. Boundary(ss, addr, far) = Min(T)
  BY DEF Boundary
<1> HIDE DEF at, next
<1>7. T \subseteq Nat /\ T # {}
  BY <1>1, <1>2, <1>3
<1>8. addr < ss[k].addr => ss[next].addr \in T /\ ss[next].addr \in Nat
  BY <1>1, <1>4
<1>9. /\ ss[k].addr <= addr /\ addr < ss[k].end
      /\ \A j \in DOMAIN ss : k < j => addr < ss[j].addr
      => ss[k].end \in T
  BY <1>1, <1>5
<1> HIDE DEF T
<1>10. Min(T) \in Nat /\ \A y \in T : Min(T) <= y
  BY <1>7, MinOfNaturals
<1>11. addr < ss[k].addr => Min(T) <= ss[k].addr
  BY <1>1, <1>4, <1>8, <1>10
<1> QED BY <1>6, <1>9, <1>10, <1>11

\* A label truncated at the boundary behind it fits.
LEMMA TruncatedFits ==
  ASSUME Shape, NEW s \in DOMAIN sections, InOrder(splits[s]), NEW sym \in SymbolType
  PROVE  LabelFits(splits[s], UpToSplit(s, sym))
<1> DEFINE ss == splits[s]
           out == UpToSplit(s, sym)
           b == Boundary(ss, sym.addr, SymbolEnd(sym))
<1>1. ss \in Seq(SplitType)
  BY SplitsAre
<1>2. CASE ~(Sized(sym) /\ sym.auto)
  BY <1>2 DEF UpToSplit, LabelFits
<1>3. CASE Sized(sym) /\ sym.auto
  <2>1. sym.addr \in Nat /\ SymbolEnd(sym) \in Nat
    BY DEF SymbolType, SymbolEnd
  <2>2. b \in Nat
    BY <1>1, <2>1, BoundaryType
  <2>3. out = [sym EXCEPT !.size = b - sym.addr]
    BY <1>3 DEF UpToSplit
  <2>4. \A k \in DOMAIN ss :
          /\ sym.addr < ss[k].addr => b <= ss[k].addr
          /\ /\ ss[k].addr <= sym.addr /\ sym.addr < ss[k].end
             /\ \A j \in DOMAIN ss : k < j => sym.addr < ss[j].addr
             => b <= ss[k].end
    BY <1>1, <2>1, BoundaryFirst
  <2>5. \A k \in DOMAIN ss : ss[k].addr \in Nat /\ ss[k].end \in Nat
    BY <1>1, SplitNumbers
  <2> HIDE DEF b, out
  <2>6. out.addr = sym.addr /\ SymbolEnd(out) = b
    BY <2>1, <2>2, <2>3 DEF SymbolType, SymbolEnd
  <2> HIDE DEF ss
  <2>7. ASSUME NEW k \in DOMAIN ss
        PROVE  /\ ~Inside(ss[k].addr, out)
               /\ ss[k].addr <= out.addr /\ (\A j \in DOMAIN ss : k < j => out.addr < ss[j].addr) =>
                    ~Inside(ss[k].end, out)
    <3>1. ~Inside(ss[k].addr, out)
      BY <2>1, <2>2, <2>4, <2>5, <2>6 DEF Inside
    <3>2. ASSUME ss[k].addr <= sym.addr, \A j \in DOMAIN ss : k < j => sym.addr < ss[j].addr
          PROVE  ~(sym.addr < ss[k].end /\ ss[k].end < b)
      <4>1. sym.addr < ss[k].end => b <= ss[k].end
        BY <2>4, <3>2
      <4> QED BY <2>2, <2>5, <4>1
    <3> QED BY <2>6, <3>1, <3>2 DEF Inside
  <2> QED BY <2>7 DEF LabelFits, ss, out
<1> QED BY <1>2, <1>3

\* Among splits that are apart, a label that fits crosses no boundary.
LEMMA FittingLabel ==
  ASSUME NEW ss \in Seq(SplitType), InOrder(ss), Unbroken(ss), Apart(ss),
         NEW sym \in SymbolType, LabelFits(ss, sym), sym.auto, Sized(sym), NEW k \in DOMAIN ss
  PROVE  ~Inside(ss[k].addr, sym) /\ ~Inside(ss[k].end, sym)
<1>1. \A i \in DOMAIN ss : ss[i].addr \in Nat /\ ss[i].end \in Nat
  BY SplitNumbers
<1>2. sym.addr \in Nat /\ SymbolEnd(sym) \in Nat
  BY DEF SymbolType, SymbolEnd
<1>3. /\ ~Inside(ss[k].addr, sym)
      /\ ss[k].addr <= sym.addr /\ (\A j \in DOMAIN ss : k < j => sym.addr < ss[j].addr) =>
           ~Inside(ss[k].end, sym)
  BY DEF LabelFits
<1>4. ss[k].addr <= ss[k].end
  BY DEF Unbroken
<1>5. CASE ss[k].addr > sym.addr
  <2>1. SymbolEnd(sym) <= ss[k].addr
    BY <1>1, <1>2, <1>3, <1>5 DEF Inside
  <2> QED BY <1>1, <1>2, <1>3, <1>4, <2>1 DEF Inside
<1>6. CASE ss[k].addr <= sym.addr /\ \E j \in DOMAIN ss : k < j /\ ss[j].addr <= sym.addr
  <2>1. PICK j \in DOMAIN ss : k < j /\ ss[j].addr <= sym.addr
    BY <1>6
  <2>2. ss[k].end <= ss[j].addr
    BY <2>1 DEF Apart
  <2>3. ss[k].end <= sym.addr
    BY <1>1, <1>2, <2>1, <2>2
  <2> QED BY <1>1, <1>2, <1>3, <2>3 DEF Inside
<1>7. CASE ss[k].addr <= sym.addr /\ \A j \in DOMAIN ss : k < j => sym.addr < ss[j].addr
  BY <1>3, <1>7
<1> QED BY <1>1, <1>2, <1>5, <1>6, <1>7

\* An address no symbol in front of it runs over lies inside none, if none is nested.
LEMMA LastDecides ==
  ASSUME NEW syms \in Seq(SymbolType), InOrder(syms), NEW addr \in Nat, EndsBy(syms, addr),
         NEW j \in DOMAIN syms, Sized(syms[j]),
         \A i \in DOMAIN syms : Sized(syms[i]) =>
           \/ SymbolEnd(syms[i]) <= syms[j].addr \/ SymbolEnd(syms[j]) <= syms[i].addr
           \/ syms[i].addr = syms[j].addr /\ syms[i].size = syms[j].size
  PROVE  ~Inside(addr, syms[j])
<1> SUFFICES ASSUME syms[j].addr < addr, addr < SymbolEnd(syms[j])
             PROVE  FALSE
  BY DEF Inside
<1> DEFINE U == {0} \cup {i \in DOMAIN syms : syms[i].addr < addr /\ Sized(syms[i])}
           m == LastSymbol(syms, addr)
<1>1. Len(syms) \in Nat /\ U \subseteq 0..Len(syms) /\ U # {}
  OBVIOUS
<1>2. j \in U
  OBVIOUS
<1>3. \A i \in U : i # 0 => i \in DOMAIN syms /\ syms[i].addr < addr /\ Sized(syms[i])
  OBVIOUS
<1>4. m = Max(U)
  BY DEF LastSymbol
<1>5. m # 0 => SymbolEnd(syms[m]) <= addr
  BY DEF EndsBy
<1> HIDE DEF U, m
<1>6. m \in U /\ j <= m
  BY <1>1, <1>2, <1>4, MaxOfBounded
<1>7. j \in Nat /\ j > 0 /\ m \in Nat
  BY <1>1, <1>6
<1>8. m \in DOMAIN syms /\ syms[m].addr < addr /\ Sized(syms[m]) /\ SymbolEnd(syms[m]) <= addr
  BY <1>3, <1>5, <1>6, <1>7
<1>9. /\ syms[j].addr \in Nat /\ syms[j].size \in Nat
      /\ syms[m].addr \in Nat /\ syms[m].size \in Nat /\ syms[m].size > 0
  BY <1>8, SymbolNumbers DEF Sized
<1>10. syms[j].addr <= syms[m].addr
  BY <1>6, <1>7, <1>8, <1>9 DEF InOrder
<1>11. CASE SymbolEnd(syms[m]) <= syms[j].addr
  BY <1>9, <1>10, <1>11 DEF SymbolEnd
<1>12. CASE SymbolEnd(syms[j]) <= syms[m].addr
  BY <1>8, <1>9, <1>12 DEF SymbolEnd
<1>13. CASE syms[m].addr = syms[j].addr /\ syms[m].size = syms[j].size
  BY <1>8, <1>9, <1>13 DEF SymbolEnd
<1> QED BY <1>8, <1>11, <1>12, <1>13

LEMMA CheckedIsSound ==
  ASSUME UInv, TypeInv, TileInv, SoundInv
  PROVE  SplitsSound
<1>0. SplitsDisjoint
  BY DEF UInv
<1> SUFFICES ASSUME pc = "done", NEW s \in DOMAIN sections,
                    NEW sym \in ToSet(symbols[s]), Sized(sym), sym.auto \/ Unnested(s),
                    NEW addr \in Starts(s) \cup Ends(s)
             PROVE  ~Inside(addr, sym)
  BY <1>0 DEF SplitsSound, LabelsInSplits, SymbolsInSplits
<1> DEFINE ss == splits[s]
           syms == symbols[s]
<1>1. ss \in Seq(SplitType) /\ syms \in Seq(SymbolType)
  BY SplitsAre DEF UInv, TypeInv, SymbolsOK, Shape
<1>2. InOrder(ss) /\ Unbroken(ss) /\ Apart(ss)
  BY <1>0 DEF TileInv, Ordered, Whole, SplitsDisjoint, Apart
<1>3. InOrder(syms) /\ LabelsFit(ss, syms)
  BY DEF SoundInv, SymbolsOrdered, Labelled, UntilPadding
<1>4. \A i \in DOMAIN ss : EndsBy(syms, ss[i].addr) /\ EndsBy(syms, ss[i].end)
  BY DEF SoundInv, BoundariesChecked, BoundariesValid
<1>5. PICK j \in DOMAIN syms : sym = syms[j]
  BY DEF ToSet
<1>6. PICK k \in DOMAIN ss : addr = ss[k].addr \/ addr = ss[k].end
  BY DEF Starts, Ends, ToSet
<1>7. CASE sym.auto
  <2>1. sym \in SymbolType
    BY <1>1, <1>5, ElementType
  <2>2. LabelFits(ss, sym)
    BY <1>3, <1>5 DEF LabelsFit
  <2> HIDE DEF ss, syms
  <2>3. ~Inside(ss[k].addr, sym) /\ ~Inside(ss[k].end, sym)
    BY <1>1, <1>2, <1>7, <2>1, <2>2, FittingLabel
  <2> QED BY <1>6, <2>3
<1>8. CASE Unnested(s)
  <2>1. \A i \in DOMAIN syms : Sized(syms[i]) =>
           \/ SymbolEnd(syms[i]) <= syms[j].addr \/ SymbolEnd(syms[j]) <= syms[i].addr
           \/ syms[i].addr = syms[j].addr /\ syms[i].size = syms[j].size
    <3> TAKE i \in DOMAIN syms
    <3> HAVE Sized(syms[i])
    <3>1. /\ syms[i] \in {x \in ToSet(symbols[s]) : Sized(x)}
          /\ syms[j] \in {x \in ToSet(symbols[s]) : Sized(x)}
      BY <1>5 DEF ToSet
    <3> QED BY <1>8, <3>1 DEF Unnested
  <2>2. ss[k].addr \in Nat /\ ss[k].end \in Nat
    BY <1>1, SplitNumbers
  <2>3. Sized(syms[j])
    BY <1>5
  <2>4. EndsBy(syms, addr) /\ addr \in Nat
    BY <1>4, <1>6, <2>2
  <2> HIDE DEF ss, syms
  <2>5. ~Inside(addr, syms[j])
    BY <1>1, <1>3, <2>1, <2>3, <2>4, LastDecides
  <2> QED BY <1>5, <2>5
<1> QED BY <1>7, <1>8

\* Symbols that only change their sizes stay in order.
LEMMA ResizedInOrder ==
  ASSUME NEW syms \in Seq(SymbolType), InOrder(syms), NEW new, new = [i \in DOMAIN syms |-> new[i]],
         \A i \in DOMAIN syms : new[i].addr = syms[i].addr
  PROVE  InOrder(new)
<1>1. DOMAIN new = DOMAIN syms
  OBVIOUS
<1> QED BY <1>1 DEF InOrder

LEMMA UpToSplitAddr ==
  ASSUME NEW s, NEW sym \in SymbolType
  PROVE  UpToSplit(s, sym).addr = sym.addr
BY DEF UpToSplit, SymbolType

\* truncate_autogen_symbols_at_splits
LEMMA TruncateSound ==
  ASSUME Shape, TypeInv, TileInv, SoundInv, Truncate
  PROVE  SoundInv'
<1>1. /\ pc = "truncate" /\ pc' = "validate" /\ sect' = 1 /\ nth' = 1
      /\ UNCHANGED <<sections, splits>>
      /\ DOMAIN symbols = DOMAIN sections
  BY DEF Truncate, TypeInv, SymbolsOK, Shape
<1>2. ASSUME NEW s \in DOMAIN sections
      PROVE  InOrder(symbols'[s]) /\ LabelsFit(splits[s], symbols'[s])
  <2> DEFINE syms == symbols[s]
             new == symbols'[s]
  <2>1. syms \in Seq(SymbolType)
    BY SymsAre DEF TypeInv
  <2>2. new = [i \in DOMAIN syms |-> UpToSplit(s, syms[i])]
    BY <1>1 DEF Truncate
  <2>3. \A i \in DOMAIN syms : syms[i] \in SymbolType
    BY <2>1
  <2>4. InOrder(syms) /\ InOrder(splits[s])
    BY <1>1 DEF SoundInv, SymbolsOrdered, UntilPadding, TileInv, Ordered
  <2> HIDE DEF syms, new
  <2>5. new = [i \in DOMAIN syms |-> new[i]] /\ \A i \in DOMAIN syms : new[i].addr = syms[i].addr
    BY <2>2, <2>3, UpToSplitAddr
  <2>6. InOrder(new)
    BY <2>1, <2>4, <2>5, ResizedInOrder
  <2>7. \A i \in DOMAIN new : LabelFits(splits[s], new[i])
    BY <2>2, <2>3, <2>4, TruncatedFits
  <2> QED BY <2>6, <2>7 DEF new, LabelsFit
<1>3. SymbolsOrdered' /\ Labelled'
  BY <1>1, <1>2 DEF SymbolsOrdered, Labelled
<1>4. BoundariesChecked'
  <2>1. \A s \in DOMAIN sections : s \in Nat \ {0} /\ splits[s] \in Seq(SplitType)
    BY SplitsAre
  <2>2. \A s \in DOMAIN sections : ~(s < 1)
    BY <2>1
  <2>3. 1 \in DOMAIN sections
    BY DEF Shape
  <2>4. \A i \in DOMAIN splits[1] : ~(i < 1)
    BY <2>1, <2>3
  <2> QED BY <1>1, <2>2, <2>4 DEF BoundariesChecked
<1> QED BY <1>3, <1>4 DEF SoundInv

\* The loop of validate_splits.
LEMMA ValidateSound ==
  ASSUME Shape, TypeInv, SoundInv, ValidateSplit \/ SplitInvalid \/ SplitsOfNext \/ Validated
  PROVE  SoundInv'
<1>1. UNCHANGED <<sections, splits, symbols>> /\ pc \in {"validate", "pad"}
      /\ pc' \in {pc, "pad", "bail", "done"} /\ (pc = "pad" => pc' = "pad")
  BY DEF ValidateSplit, SplitInvalid, SplitsOfNext, Validated
<1>2. SymbolsOrdered' /\ Labelled'
  BY <1>1 DEF SoundInv, SymbolsOrdered, Labelled, UntilPadding
<1>3. BoundariesChecked'
  <2>0. BoundariesChecked
    BY DEF SoundInv
  <2>1. CASE ValidateSplit
    <3>1. /\ pc = "validate" /\ pc' = "validate" /\ sect' = sect /\ nth' = nth + 1
          /\ sect <= Len(sections) /\ BoundariesValid(Syms, splits[sect][nth])
      BY <2>1 DEF ValidateSplit, AtSplit, SplitValid, NextSplit, BoundariesValid
    <3>2. nth \in Nat /\ sect \in DOMAIN sections
      BY <3>1 DEF Shape
    <3>3. splits[sect] \in Seq(SplitType)
      BY <3>2, SplitsAre
    <3>4. \A i \in DOMAIN splits[sect] : i < nth + 1 => BoundariesValid(Syms, splits[sect][i])
      <4> TAKE i \in DOMAIN splits[sect]
      <4>1. i \in Nat
        BY <3>3
      <4>2. i < nth + 1 => i < nth \/ i = nth
        BY <3>2, <4>1
      <4> QED BY <2>0, <3>1, <4>2 DEF BoundariesChecked
    <3>5. Syms' = Syms
      BY <1>1, <3>1 DEF Syms
    <3> QED BY <1>1, <2>0, <3>1, <3>4, <3>5 DEF BoundariesChecked
  <2>2. CASE SplitInvalid
    BY <2>2 DEF SplitInvalid, BoundariesChecked
  <2>3. CASE SplitsOfNext /\ pc = "validate"
    <3>1. /\ sect' = sect + 1 /\ nth' = 1 /\ pc' = "validate" /\ sect <= Len(sections)
          /\ nth > Len(splits[sect])
      BY <2>3 DEF SplitsOfNext
    <3>2. \A s \in DOMAIN sections : s \in Nat \ {0} /\ splits[s] \in Seq(SplitType)
      BY SplitsAre
    <3>3. nth \in Nat /\ sect \in Nat \ {0} /\ sect \in DOMAIN sections /\ Len(sections) \in Nat
      BY <3>1 DEF Shape
    <3>4. \A i \in DOMAIN splits[sect] : i < nth
      BY <3>1, <3>2, <3>3
    <3>5. \A i \in DOMAIN splits[sect] : BoundariesValid(symbols[sect], splits[sect][i])
      BY <2>0, <2>3, <3>1, <3>4 DEF BoundariesChecked, Syms
    <3>6. \A s \in DOMAIN sections : s < sect + 1 =>
             \A i \in DOMAIN splits[s] : BoundariesValid(symbols[s], splits[s][i])
      <4> TAKE s \in DOMAIN sections
      <4>1. s < sect + 1 => s < sect \/ s = sect
        BY <3>2, <3>3
      <4> QED BY <2>0, <2>3, <3>5, <4>1 DEF BoundariesChecked
    <3>7. sect + 1 <= Len(sections) => \A i \in DOMAIN splits[sect + 1] : ~(i < 1)
      <4>1. sect + 1 <= Len(sections) => sect + 1 \in DOMAIN sections
        BY <3>3 DEF Shape
      <4> QED BY <3>2, <4>1
    <3> QED BY <1>1, <3>1, <3>6, <3>7 DEF BoundariesChecked
  <2>4. CASE SplitsOfNext /\ pc = "pad"
    BY <1>1, <2>4 DEF SplitsOfNext, BoundariesChecked
  <2>5. CASE Validated
    <3>1. /\ pc = "validate" /\ pc' \in {"pad", "done"} /\ sect > Len(sections)
      BY <2>5 DEF Validated
    <3>2. \A s \in DOMAIN sections : s \in Nat /\ s <= Len(sections)
      BY SplitsAre
    <3>3. \A s \in DOMAIN sections : s < sect
      BY <3>1, <3>2 DEF Shape
    <3> QED BY <1>1, <2>0, <3>1, <3>3 DEF BoundariesChecked
  <2> QED BY <1>1, <2>1, <2>2, <2>3, <2>4, <2>5
<1> QED BY <1>2, <1>3 DEF SoundInv

LEMMA FixSizesSound ==
  ASSUME Shape, TypeInv, SoundInv, FixSizes
  PROVE  SoundInv'
<1>1. /\ pc = "add" /\ pc' = "common" /\ UNCHANGED sections /\ DOMAIN symbols = DOMAIN sections
  BY DEF FixSizes, Shape, TypeInv, SymbolsOK
<1>2. ASSUME NEW s \in DOMAIN sections
      PROVE  InOrder(symbols'[s])
  <2> DEFINE syms == symbols[s]
             new == symbols'[s]
             mine(i) == {f \in ToSet(fixes) : f[1] = s /\ f[2] = i}
             fixed(i) == IF mine(i) = {} THEN syms[i]
                         ELSE [syms[i] EXCEPT !.size = Min({f[3] : f \in mine(i)})]
  <2>1. syms \in Seq(SymbolType) /\ InOrder(syms)
    BY <1>1, SymsAre DEF TypeInv, SoundInv, SymbolsOrdered, UntilPadding
  <2>2. new = [i \in DOMAIN syms |-> fixed(i)]
    BY <1>1 DEF FixSizes
  <2>3. \A i \in DOMAIN syms : fixed(i).addr = syms[i].addr
    <3> TAKE i \in DOMAIN syms
    <3>1. syms[i] \in SymbolType
      BY <2>1, ElementType
    <3> HIDE DEF syms, mine
    <3> QED BY <3>1 DEF SymbolType
  <2> HIDE DEF syms, new, fixed
  <2>4. new = [i \in DOMAIN syms |-> new[i]] /\ \A i \in DOMAIN syms : new[i].addr = syms[i].addr
    BY <2>2, <2>3
  <2>5. InOrder(new)
    BY <2>1, <2>4, ResizedInOrder
  <2> QED BY <2>5 DEF new
<1> QED BY <1>1, <1>2 DEF SoundInv, SymbolsOrdered, Labelled, BoundariesChecked

\* The steps that leave the symbols in order, and those of the padding symbols.
LEMMA OtherSound ==
  ASSUME SoundInv,
         \/ Trim \/ GapOverlap \/ GapError \/ MakeGap \/ TakeSplit \/ NextSection \/ AddGap
         \/ UpdateCommon \/ PadSplit \/ Padded \/ FillSection \/ AddFiller \/ Filled
  PROVE  SoundInv'
<1>1. CASE Trim \/ GapOverlap \/ GapError \/ MakeGap
  <2>1. /\ UNCHANGED <<sections, symbols>> /\ pc \in {"trim", "gaps"}
        /\ pc' \in {"gaps", "bail"}
    BY <1>1 DEF Trim, GapOverlap, GapError, MakeGap, InSection
  <2> QED BY <2>1 DEF SoundInv, SymbolsOrdered, Labelled, BoundariesChecked, UntilPadding
<1>2. CASE TakeSplit \/ NextSection \/ AddGap \/ UpdateCommon
  <2>1. /\ UNCHANGED <<sections, symbols>> /\ pc \in {"gaps", "add", "common"}
        /\ pc' \in {"gaps", "add", "truncate", "bail"}
    BY <1>2 DEF TakeSplit, NextSection, AddGap, UpdateCommon, InSection
  <2> QED BY <2>1 DEF SoundInv, SymbolsOrdered, Labelled, BoundariesChecked, UntilPadding
<1>3. CASE PadSplit \/ Padded \/ FillSection \/ AddFiller \/ Filled
  <2>1. pc' \in {"pad", "fill", "filled", "bail"}
    BY <1>3 DEF PadSplit, Padded, FillSection, AddFiller, Filled
  <2> QED BY <2>1 DEF SoundInv, SymbolsOrdered, Labelled, BoundariesChecked, UntilPadding
<1> QED BY <1>1, <1>2, <1>3

LEMMA StepSound ==
  ASSUME UInv, TypeInv, TileInv, SoundInv, UStep
  PROVE  SoundInv'
<1>0. Shape
  BY DEF UInv
<1>1. CASE Truncate \/ FixSizes
  BY <1>0, <1>1, TruncateSound, FixSizesSound
<1>2. CASE ValidateSplit \/ SplitInvalid \/ SplitsOfNext \/ Validated
  BY <1>0, <1>2, ValidateSound
<1>3. CASE GapStep
  <2>1. CASE FixSizes
    BY <1>0, <2>1, FixSizesSound
  <2>2. CASE ~FixSizes
    BY <1>3, <2>2, OtherSound DEF GapStep
  <2> QED BY <2>1, <2>2
<1>4. CASE Trim \/ UpdateCommon \/ PadSplit \/ Padded \/ FillSection \/ AddFiller \/ Filled
  BY <1>4, OtherSound
<1> QED BY <1>1, <1>2, <1>3, <1>4 DEF UStep

LEMMA InitSound ==
  ASSUME UInit
  PROVE  SoundInv
<1>1. PICK o \in Objects : sections = o.sections /\ symbols = o.symbols
  BY DEF UInit
<1>2. pc = "trim"
  BY DEF UInit
<1>3. \A s \in DOMAIN sections : InOrder(symbols[s])
  BY <1>1, ObjectAssumption
<1> QED BY <1>2, <1>3 DEF SoundInv, SymbolsOrdered, Labelled, BoundariesChecked

LEMMA SameSound ==
  ASSUME SoundInv, UNCHANGED allVars
  PROVE  SoundInv'
BY DEF SoundInv, SymbolsOrdered, Labelled, BoundariesChecked, Syms, allVars, gapVars

(***************************************************************************)
(* SplitsSound for every object: update_splits succeeds only with splits   *)
(* that share no byte, whose boundaries cut no label dtk made up, and, if  *)
(* no symbol is nested in another, no symbol at all.                       *)
(***************************************************************************)
THEOREM UpdatedSplitsSound ==
  USpec => []SplitsSound
<1> DEFINE Inv == UInv /\ TypeInv /\ TileInv /\ SoundInv
<1>1. UInit => Inv
  BY InitInv, InitTypes, InitPlaced, InitSound
<1>2. Inv /\ [UNext]_allVars => Inv'
  <2> SUFFICES ASSUME Inv, [UNext]_allVars
               PROVE  Inv'
    OBVIOUS
  <2>1. CASE UStep
    <3>1. UInv' /\ TypeInv' /\ TileInv'
      BY <2>1, StepKept
    <3>2. SoundInv'
      BY <2>1, StepSound
    <3> QED BY <3>1, <3>2
  <2>2. CASE UNCHANGED allVars
    <3>1. UInv' /\ TypeInv'
      BY <2>2, StutterInv, SameTypes
    <3>2. TileInv' /\ SoundInv'
      BY <2>2, SamePlacing, SameSound
    <3> QED BY <3>1, <3>2
  <2> QED BY <2>1, <2>2 DEF UNext, UDone
<1>3. Inv => SplitsSound
  BY CheckedIsSound
<1> QED BY <1>1, <1>2, <1>3, PTL DEF USpec

-----------------------------------------------------------------------------
(* Where the gaps are cut.  A gap is cut at the first symbol of its range    *)
(* that asks for it, so what it has in front of that asks for nothing.       *)

EdgesOf(sec) == {sec.end} \cup UNION {{r.start, r.end} : r \in ToSet(sec.regions)}

\* The gap x is the COMDAT that the i-th symbol leads, the first in it.
LedBy(syms, x, i) ==
  /\ i \in InRange(syms, x.addr, x.end) /\ syms[i].comdat
  /\ StartOf(syms[i]) <= x.addr /\ x.end <= SymbolEnd(syms[i])
  /\ \A k \in InRange(syms, x.addr, x.end) : syms[k].comdat => i <= k

\* The gap x has no COMDAT, no second symbol of a name, no stricter alignment,
\* and no edge.
Uniform(sec, syms, x) ==
  LET range == InRange(syms, x.addr, x.end)
  IN  /\ \A i \in range : /\ ~syms[i].comdat
                          /\ \A k \in range : syms[i].name = syms[k].name => i = k
                          /\ syms[i].align # NoAlign => x.addr % syms[i].align = 0
      /\ \A edge \in EdgesOf(sec) : ~(x.addr < edge /\ edge < x.end)

WellCut(sec, syms, x) == (\E i \in DOMAIN syms : LedBy(syms, x, i)) \/ Uniform(sec, syms, x)

\* No split of the user starts in the gap x.
Clear(ss, x) == \A k \in DOMAIN ss : x.addr < ss[k].addr => x.end <= ss[k].addr

\* Nothing but its vftable, the i-th symbol, starts behind a locator in the gap x.
LocatorIn(sec, syms, ss, x, i) ==
  LET addr == syms[i].addr
  IN  /\ syms[i].comdat /\ syms[i].locator
      /\ InRange(syms, addr - 4, addr + 1) = {i}
      /\ \A k \in DOMAIN ss : ss[k].addr \notin addr - 3 .. addr
      /\ EdgesOf(sec) \cap (x.addr + 1 .. addr) = {}
      /\ x.addr <= addr - 4 /\ addr - 4 < x.end

\* Such a gap does not end in front of the vftable, unless the vftable is empty.
LocatorLed(sec, syms, ss, x) ==
  \A i \in DOMAIN syms :
    Clear(ss, x) /\ LocatorIn(sec, syms, ss, x, i) /\ x.end <= syms[i].addr => syms[i].size = 0

Proper(sec) == \A r \in ToSet(sec.regions) : r.start < r.end

LEMMA MinOfTwo ==
  ASSUME NEW a \in Nat, NEW b \in Nat
  PROVE  Min({a, b}) \in {a, b} /\ Min({a, b}) <= a /\ Min({a, b}) <= b
<1>1. {a, b} \subseteq Nat /\ {a, b} # {}
  OBVIOUS
<1> QED BY <1>1, MinOfNaturals

LEMMA StartNumber ==
  ASSUME NEW syms \in Seq(SymbolType), NEW i \in DOMAIN syms
  PROVE  /\ StartOf(syms[i]) \in Int /\ StartOf(syms[i]) <= syms[i].addr
         /\ syms[i].locator => StartOf(syms[i]) = syms[i].addr - 4
         /\ ~syms[i].locator => StartOf(syms[i]) = syms[i].addr
<1>1. syms[i].addr \in Nat
  BY SymbolNumbers
<1> QED BY <1>1 DEF StartOf

\* The next split is no further than the section's end, and behind the gap's start.
LEMMA NextBehind ==
  ASSUME Shape, MakeGap
  PROVE  /\ cur < NextStart /\ NextStart <= Section.end
         /\ \/ NextStart = Section.end
            \/ nth \in DOMAIN splits[sect] /\ NextStart = splits[sect][nth].addr
<1>1. /\ splits[sect] \in Seq(SplitType) /\ Section \in SectionType /\ Syms \in Seq(SymbolType)
      /\ NextStart \in Nat /\ cur \in Nat /\ NextStart >= cur /\ Gap /\ nth \in Nat \ {0}
      /\ Section.end \in Nat
  BY InLoop DEF MakeGap, SectionType, Shape
<1>2. NextAlign \in Nat \ {0}
  <2>1. CASE HasNext
    <3>1. NextSplit \in SplitType
      BY <1>1, <2>1 DEF HasNext, NextSplit
    <3> QED BY <1>1, <2>1, <3>1, AlignmentType DEF NextAlign
  <2>2. CASE ~HasNext
    BY <1>1, <2>2 DEF NextAlign, SectionType
  <2> QED BY <2>1, <2>2
<1>3. AlignUp(cur, NextAlign) \in Nat /\ AlignUp(cur, NextAlign) >= cur
  BY <1>1, <1>2, Rounded
<1>4. cur < NextStart
  BY <1>1, <1>3 DEF Gap
<1>5. CASE HasNext
  BY <1>1, <1>4, <1>5 DEF HasNext, NextStart, NextSplit
<1>6. CASE ~HasNext
  BY <1>1, <1>4, <1>6 DEF NextStart
<1> QED BY <1>5, <1>6

\* The limit of a gap is the next split or an edge, and no edge is in front of it.
LEMMA LimitAt ==
  ASSUME Shape, MakeGap, Proper(Section)
  PROVE  /\ Limit \in Nat /\ cur < Limit
         /\ \/ Limit \in EdgesOf(Section)
            \/ nth \in DOMAIN splits[sect] /\ Limit = splits[sect][nth].addr
         /\ \A edge \in EdgesOf(Section) : cur < edge => Limit <= edge
<1> DEFINE regions == ToSet(Section.regions)
           starts == {r.start : r \in {q \in regions : cur < q.start}}
           ends == {r.end : r \in {q \in regions : q.start <= cur /\ cur < q.end}}
           T == {NextStart} \cup starts \cup ends
<1>1. NextStart \in Nat /\ cur \in Nat /\ Section \in SectionType /\ Section.end \in Nat
  BY InLoop DEF MakeGap, SectionType
<1>2. \A r \in regions : r.start \in Nat /\ r.end \in Nat /\ r.start < r.end
  <2>1. Section.regions \in Seq([start : Nat, end : Nat, name : SectionNames])
    BY <1>1 DEF SectionType
  <2> TAKE r \in regions
  <2>2. PICK i \in DOMAIN Section.regions : r = Section.regions[i]
    BY DEF ToSet
  <2>3. r \in [start : Nat, end : Nat, name : SectionNames]
    BY <2>1, <2>2, ElementType
  <2> QED BY <2>3 DEF Proper
<1>3. /\ cur < NextStart /\ NextStart <= Section.end
      /\ \/ NextStart = Section.end
         \/ nth \in DOMAIN splits[sect] /\ NextStart = splits[sect][nth].addr
  BY NextBehind
<1>4. Limit = Min(T)
  BY DEF Limit
<1>5. T \subseteq Nat /\ T # {}
  BY <1>1, <1>2
<1>6. \A r \in regions : r.start \in EdgesOf(Section) /\ r.end \in EdgesOf(Section)
  BY DEF EdgesOf
<1>7. starts \subseteq EdgesOf(Section) /\ ends \subseteq EdgesOf(Section)
  BY <1>6
<1>8. \A t \in T : cur < t
  BY <1>3
<1>9. \A r \in regions : (cur < r.start => r.start \in T) /\ (r.start <= cur /\ cur < r.end => r.end \in T)
  OBVIOUS
<1>10. NextStart \in T /\ \A t \in T : t = NextStart \/ t \in EdgesOf(Section)
  BY <1>7
<1>15. Section.end \in EdgesOf(Section)
  BY DEF EdgesOf
<1> HIDE DEF T, starts, ends
<1>11. Min(T) \in T /\ \A t \in T : Min(T) <= t
  BY <1>5, MinOfNaturals
<1>12. ASSUME NEW edge \in EdgesOf(Section), cur < edge
       PROVE  Limit <= edge
  <2>1. CASE edge = Section.end
    <3>1. Min(T) <= NextStart /\ Min(T) \in Nat
      BY <1>5, <1>10, <1>11
    <3> HIDE DEF regions
    <3> QED BY <1>1, <1>3, <1>4, <2>1, <3>1
  <2>2. ASSUME NEW r \in regions, edge = r.start
        PROVE  Limit <= edge
    BY <1>4, <1>9, <1>11, <1>12, <2>2
  <2>3. ASSUME NEW r \in regions, edge = r.end
        PROVE  Limit <= edge
    <3>1. CASE r.start <= cur
      BY <1>4, <1>9, <1>11, <1>12, <2>3, <3>1
    <3>2. CASE ~(r.start <= cur)
      <4>1. cur < r.start /\ r.start < r.end
        BY <1>1, <1>2, <3>2
      <4>2. Min(T) <= r.start
        BY <1>9, <1>11, <4>1
      <4>3. Min(T) \in Nat /\ r.start \in Nat /\ r.end \in Nat
        BY <1>2, <1>5, <1>11
      <4> QED BY <1>4, <2>3, <4>1, <4>2, <4>3
    <3> QED BY <3>1, <3>2
  <2>4. edge = Section.end \/ \E r \in regions : edge \in {r.start, r.end}
    BY <1>12 DEF EdgesOf
  <2> QED BY <2>1, <2>2, <2>3, <2>4
<1>13. Limit \in Nat /\ cur < Limit
  BY <1>4, <1>5, <1>8, <1>11
<1>14. Limit \in EdgesOf(Section) \/ (nth \in DOMAIN splits[sect] /\ Limit = splits[sect][nth].addr)
  <2>1. Limit = NextStart \/ Limit \in EdgesOf(Section)
    BY <1>4, <1>10, <1>11
  <2> QED BY <1>3, <1>15, <2>1, Zenon
<1> QED BY <1>12, <1>13, <1>14

\* A COMDAT ends at the first locator in it, or where its symbol does.
LEMMA ComdatEndAt ==
  ASSUME Syms \in Seq(SymbolType), NEW i \in DOMAIN Syms, NEW limit \in Nat
  PROVE  /\ ComdatEnd(Syms[i], limit) \in Int /\ ComdatEnd(Syms[i], limit) <= SymbolEnd(Syms[i])
         /\ \/ /\ LocatorsIn(Syms[i], limit) = {}
               /\ ComdatEnd(Syms[i], limit) = SymbolEnd(Syms[i])
            \/ \E k \in LocatorsIn(Syms[i], limit) :
                 /\ ComdatEnd(Syms[i], limit) = Syms[k].addr - 4
                 /\ \A m \in LocatorsIn(Syms[i], limit) : k <= m
         /\ \A k \in DOMAIN Syms :
              k \in LocatorsIn(Syms[i], limit) <=>
                /\ Syms[k].locator /\ Syms[i].addr + 5 <= Syms[k].addr
                /\ Syms[k].addr < SymbolEnd(Syms[i]) + 4 /\ Syms[k].addr < limit
<1> DEFINE inside == LocatorsIn(Syms[i], limit)
           far == Min({SymbolEnd(Syms[i]) + 4, limit})
<1>1. Syms[i].addr \in Nat /\ SymbolEnd(Syms[i]) \in Nat
  BY SymbolNumbers
<1>2. far \in {SymbolEnd(Syms[i]) + 4, limit} /\ far <= SymbolEnd(Syms[i]) + 4 /\ far <= limit
  <2>1. SymbolEnd(Syms[i]) + 4 \in Nat
    BY <1>1
  <2> QED BY <2>1, MinOfTwo
<1>3. \A k \in DOMAIN Syms :
        k \in inside <=> Syms[k].locator /\ Syms[i].addr + 5 <= Syms[k].addr /\ Syms[k].addr < far
  BY DEF LocatorsIn, InRange
<1> HIDE DEF far
<1>4. \A k \in DOMAIN Syms : Syms[k].addr < far <=>
        Syms[k].addr < SymbolEnd(Syms[i]) + 4 /\ Syms[k].addr < limit
  <2> TAKE k \in DOMAIN Syms
  <2>1. Syms[k].addr \in Nat
    BY SymbolNumbers
  <2> QED BY <1>1, <1>2, <2>1
<1>5. \A k \in DOMAIN Syms :
        k \in inside <=> /\ Syms[k].locator /\ Syms[i].addr + 5 <= Syms[k].addr
                         /\ Syms[k].addr < SymbolEnd(Syms[i]) + 4 /\ Syms[k].addr < limit
  BY <1>3, <1>4
<1>6. CASE inside = {}
  <2>1. ComdatEnd(Syms[i], limit) = SymbolEnd(Syms[i])
    BY <1>6 DEF ComdatEnd
  <2> QED BY <1>1, <1>5, <1>6, <2>1
<1>7. CASE inside # {}
  <2>1. inside \subseteq DOMAIN Syms /\ DOMAIN Syms \subseteq Nat
    BY DEF LocatorsIn, InRange
  <2>2. ComdatEnd(Syms[i], limit) = Syms[Min(inside)].addr - 4
    BY <1>7 DEF ComdatEnd
  <2> HIDE DEF inside
  <2>3. Min(inside) \in inside /\ \A m \in inside : Min(inside) <= m
    BY <1>7, <2>1, MinOfNaturals
  <2>4. Syms[Min(inside)].addr \in Nat /\ Syms[Min(inside)].addr < SymbolEnd(Syms[i]) + 4
    BY <1>5, <2>1, <2>3, SymbolNumbers
  <2>5. ComdatEnd(Syms[i], limit) \in Int /\ ComdatEnd(Syms[i], limit) <= SymbolEnd(Syms[i])
    BY <1>1, <2>2, <2>4
  <2> QED BY <1>5, <2>2, <2>3, <2>5 DEF inside
<1> QED BY <1>6, <1>7

\* A symbol of the range that asks for a cut, and where the gap is cut.
Asks(i) == Syms[i].comdat \/ SecondOfName(i, GapRange) \/ Misaligned(i)

LEMMA CutAt ==
  ASSUME Shape, MakeGap
  PROVE  \/ /\ GapCut = 0 /\ NewEnd = Limit
            /\ \A i \in GapRange : ~Asks(i)
         \/ /\ GapCut # 0 /\ GapCut \in GapRange /\ Asks(GapCut)
            /\ \A i \in GapRange : i < GapCut => ~Asks(i)
<1>1. /\ Syms \in Seq(SymbolType) /\ DOMAIN Syms = 1..Len(Syms) /\ Len(Syms) \in Nat
      /\ GapRange \subseteq DOMAIN Syms
  BY InLoop, GapMade DEF MakeGap
<1> DEFINE cuts == {i \in GapRange : Asks(i)}
<1>2. GapCut = IF cuts = {} THEN 0 ELSE Min(cuts)
  BY DEF GapCut, Cut, Asks
<1>3. CASE cuts = {}
  <2>1. GapCut = 0
    BY <1>2, <1>3
  <2>2. NewEnd = Limit
    BY <2>1 DEF NewEnd, GapEnd
  <2> QED BY <1>3, <2>1, <2>2
<1>4. CASE cuts # {}
  <2>1. cuts \subseteq Nat
    BY <1>1
  <2> HIDE DEF cuts
  <2>2. Min(cuts) \in cuts /\ \A i \in cuts : Min(cuts) <= i
    BY <1>4, <2>1, MinOfNaturals
  <2>3. GapCut \in cuts /\ \A i \in cuts : GapCut <= i
    BY <1>2, <1>4, <2>2
  <2>4. GapCut \in Nat /\ GapCut # 0 /\ GapCut \in GapRange /\ Asks(GapCut)
    BY <1>1, <2>1, <2>3 DEF cuts
  <2>5. ASSUME NEW i \in GapRange, i < GapCut PROVE ~Asks(i)
    <3>1. i \in Nat
      BY <1>1
    <3>2. i \notin cuts
      BY <2>3, <2>4, <2>5, <3>1
    <3> QED BY <3>2 DEF cuts
  <2> QED BY <2>4, <2>5
<1> QED BY <1>3, <1>4

\* Where a gap that is cut at a symbol ends.
LEMMA EndAt ==
  ASSUME Shape, MakeGap, GapCut # 0
  PROVE  /\ GapCut \in DOMAIN Syms /\ GapCut \in GapRange
         /\ cur <= Syms[GapCut].addr /\ Syms[GapCut].addr < Limit
         /\ \/ /\ Leads(GapCut) /\ Syms[GapCut].comdat /\ StartOf(Syms[GapCut]) <= cur
               /\ NewEnd = ComdatEnd(Syms[GapCut], Limit)
            \/ /\ ~Leads(GapCut) /\ Syms[GapCut].comdat /\ NewEnd = StartOf(Syms[GapCut])
            \/ ~Leads(GapCut) /\ ~Syms[GapCut].comdat /\ NewEnd = Syms[GapCut].addr
<1> DEFINE sym == Syms[GapCut]
<1>1. Syms \in Seq(SymbolType) /\ cur \in Nat /\ GapRange \subseteq DOMAIN Syms
  BY InLoop, GapMade DEF MakeGap
<1>2. GapCut \in GapRange /\ GapCut \in DOMAIN Syms
  BY <1>1, CutAt
<1>3. cur <= sym.addr /\ sym.addr < Limit
  BY <1>2 DEF GapRange, InRange
<1>4. StartOf(sym) \in Int
  BY <1>1, <1>2, StartNumber
<1>5. ComdatStart(sym) \in {cur, StartOf(sym)} /\ ComdatStart(sym) >= StartOf(sym)
  <2>1. ComdatStart(sym) = Max({cur, StartOf(sym)})
    BY DEF ComdatStart, StartOf
  <2> HIDE DEF sym
  <2>2. \E x \in {cur, StartOf(sym)} : \A y \in {cur, StartOf(sym)} : x >= y
    BY <1>1, <1>4
  <2>3. Max({cur, StartOf(sym)}) \in {cur, StartOf(sym)}
        /\ \A y \in {cur, StartOf(sym)} : Max({cur, StartOf(sym)}) >= y
    BY <2>2 DEF Max
  <2> QED BY <2>1, <2>3
<1>6. CASE Leads(GapCut)
  <2>1. sym.comdat /\ ComdatStart(sym) = cur
    BY <1>6 DEF Leads
  <2>2. NewEnd = ComdatEnd(sym, Limit)
    BY <1>6 DEF NewEnd, GapEnd
  <2>3. StartOf(sym) <= cur
    BY <1>1, <1>4, <1>5, <2>1
  <2> QED BY <1>2, <1>3, <1>6, <2>1, <2>2, <2>3
<1>7. CASE ~Leads(GapCut) /\ sym.comdat
  <2>1. NewEnd = ComdatStart(sym) /\ ComdatStart(sym) # cur
    BY <1>7 DEF NewEnd, GapEnd, Leads
  <2> QED BY <1>2, <1>3, <1>5, <1>7, <2>1
<1>8. CASE ~Leads(GapCut) /\ ~sym.comdat
  <2>1. NewEnd = sym.addr
    BY <1>8 DEF NewEnd, GapEnd
  <2> QED BY <1>2, <1>3, <1>8, <2>1
<1> QED BY <1>6, <1>7, <1>8

\* What MakeGap knows of the section.
LEMMA GapNumbers ==
  ASSUME Shape, MakeGap, Proper(Section)
  PROVE  /\ Syms \in Seq(SymbolType) /\ DOMAIN Syms \subseteq Nat
         /\ \A i \in DOMAIN Syms : Syms[i].addr \in Nat
         /\ cur \in Nat /\ Limit \in Nat /\ cur < Limit /\ NewEnd \in Nat /\ cur < NewEnd
         /\ NewGap.sect = sect /\ NewGap.split.addr = cur /\ NewGap.split.end = NewEnd
         /\ \A i \in DOMAIN Syms : i \in GapRange <=> cur <= Syms[i].addr /\ Syms[i].addr < Limit
<1>1. Syms \in Seq(SymbolType) /\ cur \in Nat
  BY InLoop DEF MakeGap
<1>2. DOMAIN Syms \subseteq Nat /\ \A i \in DOMAIN Syms : Syms[i].addr \in Nat
  BY <1>1, SymbolNumbers
<1>3. Limit \in Nat /\ cur < Limit
  BY LimitAt
<1>4. NewEnd \in Nat /\ cur < NewEnd
  BY <1>1, GapMade
<1>5. NewGap.sect = sect /\ NewGap.split.addr = cur /\ NewGap.split.end = NewEnd
  BY DEF NewGap
<1> QED BY <1>1, <1>2, <1>3, <1>4, <1>5 DEF GapRange, InRange

\* Symbols in order: one that starts in front of another is in front of it.
LEMMA InFrontOf ==
  ASSUME NEW syms \in Seq(SymbolType), InOrder(syms), NEW i \in DOMAIN syms, NEW k \in DOMAIN syms,
         syms[i].addr < syms[k].addr
  PROVE  i < k
<1>1. syms[i].addr \in Nat /\ syms[k].addr \in Nat /\ i \in Nat /\ k \in Nat
  BY SymbolNumbers
<1>2. CASE k < i
  BY <1>1, <1>2 DEF InOrder
<1>3. CASE k = i
  BY <1>1, <1>3
<1> QED BY <1>1, <1>2, <1>3

\* A gap that ends in front of the symbol it is cut at is uniform.
LEMMA NewUniform ==
  ASSUME Shape, MakeGap, InOrder(Syms), Proper(Section),
         NewEnd <= Limit, GapCut = 0 \/ NewEnd <= Syms[GapCut].addr
  PROVE  Uniform(Section, Syms, NewGap.split)
<1> DEFINE x == NewGap.split
           range == InRange(Syms, x.addr, x.end)
<1>1. /\ Syms \in Seq(SymbolType) /\ DOMAIN Syms \subseteq Nat
      /\ \A i \in DOMAIN Syms : Syms[i].addr \in Nat
      /\ cur \in Nat /\ Limit \in Nat /\ cur < Limit /\ NewEnd \in Nat /\ cur < NewEnd
      /\ x.addr = cur /\ x.end = NewEnd
      /\ \A i \in DOMAIN Syms : i \in GapRange <=> cur <= Syms[i].addr /\ Syms[i].addr < Limit
  BY GapNumbers
<1>2. \A i \in range : i \in DOMAIN Syms /\ cur <= Syms[i].addr /\ Syms[i].addr < NewEnd
  BY <1>1 DEF InRange
<1>3. ASSUME NEW i \in range
      PROVE  i \in DOMAIN Syms /\ i \in GapRange /\ ~Asks(i)
  <2>1. i \in DOMAIN Syms /\ cur <= Syms[i].addr /\ Syms[i].addr < NewEnd
    BY <1>2
  <2> HIDE DEF x, range
  <2>2. i \in GapRange
    BY <1>1, <2>1
  <2>3. CASE GapCut = 0
    BY <2>1, <2>2, <2>3, CutAt
  <2>4. CASE GapCut # 0
    <3>1. GapCut \in DOMAIN Syms
      BY <2>4, EndAt
    <3>2. Syms[i].addr < Syms[GapCut].addr
      BY <1>1, <2>1, <2>4, <3>1
    <3>3. i < GapCut
      BY <1>1, <2>1, <3>1, <3>2, InFrontOf
    <3> QED BY <2>1, <2>2, <2>4, <3>3, CutAt
  <2> QED BY <2>3, <2>4
<1>4. \A edge \in EdgesOf(Section) : ~(x.addr < edge /\ edge < x.end)
  <2> SUFFICES ASSUME NEW edge \in EdgesOf(Section), cur < edge, edge < NewEnd
               PROVE  FALSE
    BY <1>1
  <2>1. Limit <= edge
    BY LimitAt
  <2>2. edge \in Nat
    <3>1. Section \in SectionType
      BY InLoop DEF MakeGap
    <3>2. \A i \in DOMAIN Section.regions : Section.regions[i].start \in Nat /\ Section.regions[i].end \in Nat
      <4>1. Section.regions \in Seq([start : Nat, end : Nat, name : SectionNames])
        BY <3>1 DEF SectionType
      <4> TAKE i \in DOMAIN Section.regions
      <4>2. Section.regions[i] \in [start : Nat, end : Nat, name : SectionNames]
        BY <4>1, ElementType
      <4> QED BY <4>2
    <3>3. edge = Section.end \/ \E r \in ToSet(Section.regions) : edge \in {r.start, r.end}
      BY DEF EdgesOf
    <3> QED BY <3>1, <3>2, <3>3, SectionNumbers DEF ToSet
  <2> QED BY <1>1, <2>1, <2>2
<1>5. ASSUME NEW i \in range
      PROVE  ~Syms[i].comdat /\ (Syms[i].align # NoAlign => x.addr % Syms[i].align = 0)
  <2>1. ~Asks(i)
    BY <1>3
  <2> QED BY <1>1, <2>1 DEF Asks, Misaligned
<1>6. ASSUME NEW i \in range, NEW k \in range, Syms[i].name = Syms[k].name
      PROVE  i = k
  <2>1. i \in Nat /\ k \in Nat /\ i \in GapRange /\ k \in GapRange
    BY <1>1, <1>3
  <2>2. ~SecondOfName(i, GapRange) /\ ~SecondOfName(k, GapRange)
    BY <1>3 DEF Asks
  <2>3. ~(i < k) /\ ~(k < i)
    BY <1>6, <2>1, <2>2 DEF SecondOfName
  <2> QED BY <2>1, <2>3
<1> QED BY <1>4, <1>5, <1>6 DEF Uniform

\* The gap MakeGap makes is a COMDAT, or uniform.
LEMMA NewWellCut ==
  ASSUME Shape, MakeGap, InOrder(Syms), Proper(Section)
  PROVE  WellCut(Section, Syms, NewGap.split)
<1> DEFINE x == NewGap.split
<1>1. /\ Syms \in Seq(SymbolType) /\ DOMAIN Syms \subseteq Nat
      /\ \A i \in DOMAIN Syms : Syms[i].addr \in Nat
      /\ cur \in Nat /\ Limit \in Nat /\ cur < Limit /\ NewEnd \in Nat /\ cur < NewEnd
      /\ x.addr = cur /\ x.end = NewEnd
      /\ \A i \in DOMAIN Syms : i \in GapRange <=> cur <= Syms[i].addr /\ Syms[i].addr < Limit
  BY GapNumbers
<1>2. CASE GapCut = 0
  <2>1. NewEnd = Limit
    BY <1>2, CutAt
  <2> QED BY <1>1, <1>2, <2>1, NewUniform DEF WellCut
<1>3. CASE GapCut # 0
  <2> DEFINE sym == Syms[GapCut]
  <2>1. /\ GapCut \in DOMAIN Syms /\ cur <= sym.addr /\ sym.addr < Limit
        /\ StartOf(sym) \in Int /\ StartOf(sym) <= sym.addr
    BY <1>1, <1>3, EndAt, StartNumber
  <2>2. CASE NewEnd <= sym.addr
    <3>1. NewEnd <= Limit
      BY <1>1, <2>1, <2>2
    <3> QED BY <2>2, <3>1, NewUniform DEF WellCut
  <2>3. CASE ~(NewEnd <= sym.addr)
    <3>1. sym.addr < NewEnd
      BY <1>1, <2>1, <2>3
    <3>2. /\ sym.comdat /\ StartOf(sym) <= cur /\ NewEnd = ComdatEnd(sym, Limit)
      BY <1>1, <1>3, <2>1, <2>3, EndAt
    <3>3. NewEnd <= SymbolEnd(sym)
      BY <1>1, <2>1, <3>2, ComdatEndAt
    <3>4. ASSUME NEW k \in InRange(Syms, x.addr, x.end), Syms[k].comdat
          PROVE  GapCut <= k
      <4>1. k \in DOMAIN Syms /\ cur <= Syms[k].addr /\ k \in Nat /\ GapCut \in Nat
        BY <1>1, <2>1 DEF InRange
      <4>2. CASE k < GapCut
        <5>1. Syms[k].addr <= sym.addr
          BY <2>1, <4>1, <4>2 DEF InOrder
        <5>2. Syms[k].addr \in Nat /\ sym.addr \in Nat
          BY <1>1, <2>1, <4>1
        <5> HIDE DEF sym
        <5>3. k \in GapRange
          BY <1>1, <2>1, <4>1, <5>1, <5>2
        <5>4. ~Asks(k)
          BY <1>3, <4>2, <5>3, CutAt
        <5> QED BY <3>4, <5>4 DEF Asks
      <4> QED BY <4>1, <4>2
    <3>5. GapCut \in InRange(Syms, x.addr, x.end)
      BY <1>1, <2>1, <3>1 DEF InRange
    <3>6. LedBy(Syms, x, GapCut)
      BY <1>1, <3>2, <3>3, <3>4, <3>5 DEF LedBy
    <3> QED BY <2>1, <3>6 DEF WellCut
  <2> QED BY <2>2, <2>3
<1> QED BY <1>2, <1>3

\* The gap MakeGap makes does not end between a vftable and its locator.
LEMMA NewLocator ==
  ASSUME Shape, MakeGap, InOrder(Syms), Proper(Section)
  PROVE  LocatorLed(Section, Syms, splits[sect], NewGap.split)
<1> DEFINE x == NewGap.split
<1>1. /\ Syms \in Seq(SymbolType) /\ DOMAIN Syms \subseteq Nat
      /\ \A i \in DOMAIN Syms : Syms[i].addr \in Nat
      /\ cur \in Nat /\ Limit \in Nat /\ cur < Limit /\ NewEnd \in Nat /\ cur < NewEnd
      /\ x.addr = cur /\ x.end = NewEnd
      /\ \A i \in DOMAIN Syms : i \in GapRange <=> cur <= Syms[i].addr /\ Syms[i].addr < Limit
  BY GapNumbers
<1> SUFFICES ASSUME NEW i \in DOMAIN Syms, Clear(splits[sect], x),
                    LocatorIn(Section, Syms, splits[sect], x, i), x.end <= Syms[i].addr
             PROVE  Syms[i].size = 0
  BY DEF LocatorLed
<1> DEFINE addr == Syms[i].addr
<1>2. /\ Syms[i].comdat /\ Syms[i].locator
      /\ \A k \in DOMAIN Syms : addr - 4 <= Syms[k].addr /\ Syms[k].addr <= addr => k = i
      /\ cur <= addr - 4 /\ addr - 4 < NewEnd /\ NewEnd <= addr /\ addr \in Nat
      /\ \A k \in DOMAIN splits[sect] : splits[sect][k].addr \notin addr - 3 .. addr
      /\ \A edge \in EdgesOf(Section) : edge \notin cur + 1 .. addr
  <2>1. \A k \in DOMAIN Syms : addr - 4 <= Syms[k].addr /\ Syms[k].addr < addr + 1 => k = i
    BY DEF LocatorIn, InRange
  <2>2. \A k \in DOMAIN Syms : Syms[k].addr <= addr => Syms[k].addr < addr + 1
    BY <1>1
  <2> QED BY <1>1, <2>1, <2>2 DEF LocatorIn
<1>3. \A k \in DOMAIN splits[sect] :
        splits[sect][k].addr \in Nat /\ (cur < splits[sect][k].addr => NewEnd <= splits[sect][k].addr)
  <2>1. splits[sect] \in Seq(SplitType)
    BY InLoop DEF MakeGap
  <2>2. \A k \in DOMAIN splits[sect] : splits[sect][k].addr \in Nat
    BY <2>1, SplitNumbers
  <2> QED BY <1>1, <2>2 DEF Clear
<1> HIDE DEF x, addr
<1>4. addr < Limit
  <2> SUFFICES ASSUME Limit <= addr PROVE FALSE
    BY <1>1, <1>2
  <2>1. CASE Limit \in EdgesOf(Section)
    <3>1. Limit \in cur + 1 .. addr
      BY <1>1, <1>2
    <3> QED BY <1>2, <2>1, <3>1
  <2>2. CASE nth \in DOMAIN splits[sect] /\ Limit = splits[sect][nth].addr
    <3>1. NewEnd <= Limit
      BY <1>1, <1>3, <2>2
    <3>2. Limit \in addr - 3 .. addr
      BY <1>1, <1>2, <3>1
    <3> QED BY <1>2, <2>2, <3>2
  <2> QED BY <2>1, <2>2, LimitAt
<1>5. i \in GapRange /\ Asks(i)
  BY <1>1, <1>2, <1>4 DEF Asks, addr
<1>6. GapCut # 0 /\ GapCut \in Nat /\ ~(i < GapCut) /\ i \in Nat
  <2>1. GapCut # 0
    BY <1>5, CutAt
  <2>2. GapCut \in DOMAIN Syms
    BY <2>1, EndAt
  <2> QED BY <1>1, <1>5, <2>1, <2>2, CutAt
<1> DEFINE c == GapCut
           at == Syms[c].addr
<1>7. /\ c \in DOMAIN Syms /\ c \in Nat /\ at \in Nat /\ cur <= at /\ at < Limit
      /\ StartOf(Syms[c]) \in Int /\ StartOf(Syms[c]) <= at
      /\ Syms[c].locator => StartOf(Syms[c]) = at - 4
      /\ ~Syms[c].locator => StartOf(Syms[c]) = at
  BY <1>1, <1>6, EndAt, StartNumber
<1>8. at <= addr
  <2>1. CASE c = i
    BY <1>2, <2>1 DEF addr
  <2>2. CASE c < i
    BY <1>7, <2>2 DEF InOrder, addr
  <2> QED BY <1>6, <1>7, <2>1, <2>2
<1>9. at = addr => c = i
  BY <1>2, <1>7
<1> HIDE DEF c
<1>10. CASE ~Syms[c].comdat
  <2>1. NewEnd = at
    BY <1>6, <1>10, EndAt DEF c
  <2>2. c = i
    BY <1>2, <1>7, <1>8, <2>1
  <2> QED BY <1>2, <1>10, <2>2
<1>11. CASE Syms[c].comdat /\ NewEnd = StartOf(Syms[c])
  <2>1. CASE Syms[c].locator
    BY <1>2, <1>7, <1>8, <1>11, <2>1
  <2>2. CASE ~Syms[c].locator
    <3>1. NewEnd = at
      BY <1>7, <1>11, <2>2
    <3>2. c = i
      BY <1>2, <1>7, <1>8, <3>1
    <3> QED BY <1>2, <2>2, <3>2
  <2> QED BY <2>1, <2>2
<1>12. CASE Syms[c].comdat /\ NewEnd = ComdatEnd(Syms[c], Limit)
  <2> DEFINE inside == LocatorsIn(Syms[c], Limit)
  <2>6. c \in DOMAIN Syms /\ Limit \in Nat /\ Syms \in Seq(SymbolType)
    BY <1>1, <1>7
  <2>7. /\ ComdatEnd(Syms[c], Limit) <= SymbolEnd(Syms[c])
        /\ \/ inside = {} /\ ComdatEnd(Syms[c], Limit) = SymbolEnd(Syms[c])
           \/ \E k \in inside :
                ComdatEnd(Syms[c], Limit) = Syms[k].addr - 4 /\ \A m \in inside : k <= m
        /\ \A k \in DOMAIN Syms :
             k \in inside <=> /\ Syms[k].locator /\ at + 5 <= Syms[k].addr
                              /\ Syms[k].addr < SymbolEnd(Syms[c]) + 4 /\ Syms[k].addr < Limit
    BY <2>6, ComdatEndAt
  <2>1. /\ NewEnd <= SymbolEnd(Syms[c])
        /\ \/ inside = {} /\ NewEnd = SymbolEnd(Syms[c])
           \/ \E k \in inside : NewEnd = Syms[k].addr - 4 /\ \A m \in inside : k <= m
        /\ \A k \in DOMAIN Syms :
             k \in inside <=> /\ Syms[k].locator /\ at + 5 <= Syms[k].addr
                              /\ Syms[k].addr < SymbolEnd(Syms[c]) + 4 /\ Syms[k].addr < Limit
    <3> HIDE DEF inside
    <3> QED BY <1>12, <2>7
  <2>2. Syms[c].size \in Nat /\ SymbolEnd(Syms[c]) \in Nat /\ SymbolEnd(Syms[c]) = at + Syms[c].size
    BY <1>1, <1>7, SymbolNumbers DEF SymbolEnd
  <2>5. inside \subseteq DOMAIN Syms
    BY DEF LocatorsIn, InRange
  <2> HIDE DEF inside, at
  <2>3. CASE c = i
    <3>1. at = addr
      BY <2>3 DEF at, addr
    <3>2. CASE inside = {} /\ NewEnd = SymbolEnd(Syms[c])
      <4>1. Syms[c].size = 0
        BY <1>2, <2>2, <3>1, <3>2
      <4> QED BY <2>3, <4>1
    <3>3. ASSUME NEW k \in inside, NewEnd = Syms[k].addr - 4
          PROVE  FALSE
      <4>1. k \in DOMAIN Syms /\ Syms[k].addr \in Nat /\ at + 5 <= Syms[k].addr
        BY <1>1, <2>1, <2>5, <3>3
      <4> QED BY <1>2, <3>1, <3>3, <4>1
    <3> QED BY <2>1, <3>2, <3>3
  <2>4. CASE c # i
    <3>1. at + 5 <= addr
      <4>1. ~(addr - 4 <= at)
        BY <1>2, <1>7, <1>8, <2>4 DEF at
      <4> QED BY <1>2, <1>7, <4>1 DEF at
    <3>2. addr < SymbolEnd(Syms[c]) + 4
      BY <1>1, <1>2, <2>1, <2>2
    <3>3. i \in inside
      BY <1>2, <1>4, <2>1, <3>1, <3>2 DEF addr
    <3>4. PICK k \in inside : NewEnd = Syms[k].addr - 4 /\ \A m \in inside : k <= m
      BY <2>1, <3>3
    <3>5. k \in DOMAIN Syms /\ k \in Nat /\ Syms[k].addr \in Nat /\ k <= i
      BY <1>1, <2>5, <3>3, <3>4
    <3>6. Syms[k].addr > addr
      BY <1>1, <1>2, <3>4, <3>5
    <3>7. i < k
      BY <1>1, <3>5, <3>6, InFrontOf DEF addr
    <3> QED BY <1>6, <3>5, <3>7
  <2> QED BY <2>3, <2>4
<1> QED BY <1>6, <1>10, <1>11, <1>12, EndAt DEF c

\* No split in front of the section's end is reversed; some have no end of their own.
Forward(sec, ss) ==
  \A k \in DOMAIN ss : ss[k].addr < sec.end => ss[k].end = 0 \/ ss[k].end >= ss[k].addr

\* A gap and the splits, and one that was made before another.
GapCutOK(g) ==
  /\ g.split.addr < g.split.end
  /\ WellCut(sections[g.sect], symbols[g.sect], g.split)
  /\ LocatorLed(sections[g.sect], symbols[g.sect], splits[g.sect], g.split)

GapBehind(h, g) ==
  h.sect = g.sect => h.split.end <= g.split.addr /\ Clear(splits[h.sect], h.split)

\* The size fixed is that of the gap's COMDAT, up to the gap's end.
FixOf(f, g) ==
  /\ g.sect = f[1] /\ f[2] \in Within(g) /\ symbols[f[1]][f[2]].comdat
  /\ symbols[f[1]][f[2]].addr + f[3] = g.split.end

\* The gaps and the user's splits of the section the loop is at, up to where it is.
GapHere(g) ==
  g.sect = sect =>
    /\ g.split.end <= cur
    /\ \A u \in DOMAIN splits[sect] : u < nth =>
         splits[sect][u].addr <= g.split.addr \/ g.split.end <= splits[sect][u].addr

TakenHere == \A u \in DOMAIN splits[sect] : u < nth => splits[sect][u].addr <= cur

CutSoFar ==
  /\ \A s \in DOMAIN sections : Forward(sections[s], splits[s])
  /\ \A k \in DOMAIN gaps : GapCutOK(gaps[k]) /\ GapHere(gaps[k])
  /\ \A h, k \in DOMAIN gaps : h < k => GapBehind(gaps[h], gaps[k])
  /\ TakenHere
  /\ \A m \in DOMAIN fixes : \E k \in DOMAIN gaps : FixOf(fixes[m], gaps[k])

CutInv ==
  /\ pc \in {"trim", "gaps"} => \A s \in DOMAIN sections : Proper(sections[s])
  /\ pc = "trim" => \A s \in DOMAIN sections : Forward(sections[s], splits[s])
  /\ pc = "gaps" => CutSoFar

LEMMA InitCut ==
  ASSUME UInit
  PROVE  CutInv
<1>1. PICK o \in Objects : sections = o.sections /\ splits = o.splits
  BY DEF UInit
<1>2. pc = "trim"
  BY DEF UInit
<1>3. \A s \in DOMAIN sections : Proper(sections[s])
  BY <1>1, ObjectAssumption DEF Proper
<1>4. \A s \in DOMAIN sections : Forward(sections[s], splits[s])
  BY <1>1, ObjectAssumption DEF Forward
<1> QED BY <1>2, <1>3, <1>4 DEF CutInv

\* A trimmed split ends at the section's end, behind its start.
LEMMA TrimForward ==
  ASSUME Shape, NEW s \in DOMAIN sections, Forward(sections[s], splits[s])
  PROVE  Forward(sections[s], Trimmed(s))
<1> DEFINE ss == splits[s]
           last == Len(ss)
           sec == sections[s]
<1>1. ss \in Seq(SplitType) /\ sec.end \in Nat
  BY SplitsAre, SectionNumbers
<1>2. CASE sec.end # sec.limit /\ ss # <<>> /\ ss[last].end > sec.end
  <2> DEFINE new == Trimmed(s)
  <2>1. new = [ss EXCEPT ![last].end = sec.end]
    BY <1>2 DEF Trimmed
  <2>2. last \in DOMAIN ss /\ \A k \in DOMAIN ss : ss[k] \in SplitType /\ ss[k].addr \in Nat
    BY <1>1, <1>2, AllSplitNumbers
  <2> HIDE DEF new, ss
  <2>3. /\ DOMAIN new = DOMAIN ss /\ new[last].end = sec.end
        /\ \A k \in DOMAIN ss : new[k].addr = ss[k].addr
        /\ \A k \in DOMAIN ss : k # last => new[k] = ss[k]
    BY <2>1, <2>2 DEF SplitType
  <2>4. ASSUME NEW k \in DOMAIN new, new[k].addr < sec.end
        PROVE  new[k].end = 0 \/ new[k].end >= new[k].addr
    <3>1. CASE k = last
      BY <1>1, <2>2, <2>3, <2>4, <3>1
    <3>2. CASE k # last
      BY <2>3, <2>4, <3>2 DEF Forward, ss
    <3> QED BY <3>1, <3>2
  <2> QED BY <2>4 DEF Forward, new
<1>3. CASE ~(sec.end # sec.limit /\ ss # <<>> /\ ss[last].end > sec.end)
  <2>1. Trimmed(s) = ss
    BY <1>3 DEF Trimmed
  <2> QED BY <2>1
<1> QED BY <1>2, <1>3

LEMMA TrimCut ==
  ASSUME Shape, TypeInv, TileInv, CutInv, Trim
  PROVE  CutInv'
<1>1. /\ pc = "trim" /\ pc' = "gaps" /\ gaps = <<>> /\ gaps' = <<>> /\ fixes' = <<>>
      /\ UNCHANGED sections /\ DOMAIN splits = DOMAIN sections
      /\ splits' = [s \in DOMAIN splits |-> Trimmed(s)]
      /\ sect' = 1 /\ nth' = 1
  <2>1. pc = "trim" /\ DOMAIN splits = DOMAIN sections
    BY DEF Trim, Shape
  <2>2. gaps = <<>> /\ fixes = <<>>
    BY <2>1 DEF TypeInv, FixesOK, TileInv, Placing
  <2> QED BY <2>1, <2>2 DEF Trim, AtSection
<1>2. \A s \in DOMAIN sections : Proper(sections[s]) /\ Forward(sections[s], splits[s])
  BY <1>1 DEF CutInv
<1>3. \A s \in DOMAIN sections : Forward(sections[s], splits'[s])
  BY <1>1, <1>2, TrimForward
<1>4. TakenHere'
  <2>1. 1 \in DOMAIN sections
    BY DEF Shape
  <2>2. splits[1] \in Seq(SplitType) /\ splits'[1] = Trimmed(1)
    BY <1>1, <2>1, SplitsAre
  <2>3. DOMAIN Trimmed(1) = DOMAIN splits[1]
    BY DEF Trimmed
  <2>4. \A u \in DOMAIN splits'[1] : ~(u < 1)
    BY <2>2, <2>3
  <2> QED BY <1>1, <2>4 DEF TakenHere
<1>5. CutSoFar'
  BY <1>1, <1>3, <1>4 DEF CutSoFar
<1> QED BY <1>1, <1>2, <1>5 DEF CutInv

\* A gap more, at the end of those there are.
LEMMA MakeGapCut ==
  ASSUME Shape, TypeInv, TileInv, SoundInv, CutInv, MakeGap
  PROVE  CutInv'
<1>1. /\ pc = "gaps" /\ UNCHANGED <<sections, splits, symbols, sect, nth, pc>> /\ InSection
  BY DEF MakeGap, InSection
<1>2. /\ sect \in DOMAIN sections /\ splits[sect] \in Seq(SplitType) /\ nth \in Nat
      /\ gaps \in Seq(GapType) /\ cur \in Nat /\ Section.end \in Nat /\ cur < Section.end
  BY <1>1, InLoop, SectionNumbers DEF Shape
<1>3. /\ gaps' = Append(gaps, NewGap) /\ cur' = NewEnd
      /\ NewEnd \in Nat /\ cur < NewEnd /\ NewGap.sect = sect
      /\ NewGap.split.addr = cur /\ NewGap.split.end = NewEnd
  <2>1. gaps' = Append(gaps, NewGap) /\ cur' = NewEnd /\ NewEnd \in Nat /\ NewEnd > cur
    BY GapMade
  <2> QED BY <1>2, <2>1 DEF NewGap
<1>4. CutSoFar /\ Proper(Section) /\ \A s \in DOMAIN sections : Proper(sections[s])
  BY <1>1, <1>2 DEF CutInv, Section
<1>5. InOrder(Syms) /\ InOrder(splits[sect])
  BY <1>1, <1>2 DEF SoundInv, SymbolsOrdered, UntilPadding, TileInv, Ordered, Syms
<1>6. GapCutOK(NewGap)
  <2>1. WellCut(Section, Syms, NewGap.split)
    BY <1>4, <1>5, NewWellCut
  <2>2. LocatorLed(Section, Syms, splits[sect], NewGap.split)
    BY <1>4, <1>5, NewLocator
  <2> QED BY <1>3, <2>1, <2>2 DEF GapCutOK, Section, Syms
<1>7. \A u \in DOMAIN splits[sect] :
        /\ splits[sect][u].addr \in Nat /\ u \in Nat
        /\ u < nth => splits[sect][u].addr <= cur
        /\ u >= nth => cur < splits[sect][u].addr
  <2>1. NextStart > cur
    <3>1. cur < NextStart
      BY NextBehind
    <3> QED BY <1>1, <1>2, <3>1, InLoop
  <2>2. ASSUME NEW u \in DOMAIN splits[sect], u >= nth
        PROVE  cur < splits[sect][u].addr
    BY <1>1, <1>5, <2>1, <2>2, SplitsBehind
  <2>3. \A u \in DOMAIN splits[sect] : splits[sect][u].addr \in Nat /\ u \in Nat
    BY <1>2, AllSplitNumbers
  <2> QED BY <1>4, <2>2, <2>3 DEF CutSoFar, TakenHere
<1>8. \A k \in DOMAIN gaps : gaps[k].split.addr \in Nat /\ gaps[k].split.end \in Nat /\ k \in Nat
  <2>1. \A k \in DOMAIN gaps : gaps[k] \in GapType /\ k \in Nat
    BY <1>2
  <2> QED BY <2>1 DEF GapType, SplitType
<1>9. \A h \in DOMAIN gaps : GapBehind(gaps[h], NewGap)
  <2> TAKE h \in DOMAIN gaps
  <2> SUFFICES ASSUME gaps[h].sect = sect
               PROVE  gaps[h].split.end <= cur /\ Clear(splits[sect], gaps[h].split)
    BY <1>3 DEF GapBehind
  <2> DEFINE x == gaps[h].split
  <2>1. /\ x.addr \in Nat /\ x.end \in Nat /\ x.end <= cur
        /\ \A u \in DOMAIN splits[sect] : u < nth =>
             splits[sect][u].addr <= x.addr \/ x.end <= splits[sect][u].addr
    BY <1>4, <1>8 DEF CutSoFar, GapHere
  <2> HIDE DEF x
  <2>2. ASSUME NEW u \in DOMAIN splits[sect], x.addr < splits[sect][u].addr
        PROVE  x.end <= splits[sect][u].addr
    <3>1. /\ splits[sect][u].addr \in Nat /\ u \in Nat
          /\ u >= nth => cur < splits[sect][u].addr
      BY <1>7
    <3>2. CASE u < nth
      <4>1. splits[sect][u].addr <= x.addr \/ x.end <= splits[sect][u].addr
        BY <2>1, <3>2
      <4> QED BY <2>1, <2>2, <3>1, <4>1
    <3>3. CASE ~(u < nth)
      <4>1. cur < splits[sect][u].addr
        BY <1>2, <3>1, <3>3
      <4> QED BY <1>2, <2>1, <3>1, <4>1
    <3> QED BY <3>2, <3>3
  <2> QED BY <2>1, <2>2 DEF Clear, x
<1>10. \A k \in DOMAIN gaps' :
         (k \in DOMAIN gaps /\ gaps'[k] = gaps[k]) \/ (k = Len(gaps) + 1 /\ gaps'[k] = NewGap)
  BY <1>2, <1>3
<1>11. \A k \in DOMAIN gaps : k \in DOMAIN gaps' /\ gaps'[k] = gaps[k]
  BY <1>2, <1>3
<1>12. Len(gaps) + 1 \in DOMAIN gaps' /\ gaps'[Len(gaps) + 1] = NewGap
       /\ \A k \in DOMAIN gaps : k \in Nat /\ k < Len(gaps) + 1 /\ Len(gaps) \in Nat
  BY <1>2, <1>3
<1>13. \A k \in DOMAIN gaps' : GapCutOK(gaps[k])'
  <2>1. \A k \in DOMAIN gaps' : GapCutOK(gaps'[k])
    BY <1>4, <1>6, <1>10 DEF CutSoFar
  <2> QED BY <2>1, <1>1 DEF GapCutOK
<1>14. \A k \in DOMAIN gaps' : GapHere(gaps[k])'
  <2>1. ASSUME NEW k \in DOMAIN gaps, gaps[k].sect = sect
        PROVE  /\ gaps[k].split.end <= NewEnd
               /\ \A u \in DOMAIN splits[sect] : u < nth =>
                    splits[sect][u].addr <= gaps[k].split.addr
                    \/ gaps[k].split.end <= splits[sect][u].addr
    <3>1. gaps[k].split.end <= cur /\ gaps[k].split.end \in Nat
      BY <1>4, <1>8, <2>1 DEF CutSoFar, GapHere
    <3>2. gaps[k].split.end <= NewEnd
      BY <1>2, <1>3, <3>1
    <3> QED BY <1>4, <2>1, <3>2 DEF CutSoFar, GapHere
  <2>2. /\ NewGap.split.end <= NewEnd
        /\ \A u \in DOMAIN splits[sect] : u < nth => splits[sect][u].addr <= NewGap.split.addr
    BY <1>3, <1>7
  <2> QED BY <1>1, <1>3, <1>10, <2>1, <2>2 DEF GapHere
<1>15. \A h, k \in DOMAIN gaps' : h < k => GapBehind(gaps[h], gaps[k])'
  <2>1. ASSUME NEW h \in DOMAIN gaps', NEW k \in DOMAIN gaps', h < k
        PROVE  GapBehind(gaps'[h], gaps'[k])
    <3>1. h \in DOMAIN gaps /\ gaps'[h] = gaps[h]
      <4>1. k <= Len(gaps) + 1
        BY <1>10, <1>12, <2>1
      <4> QED BY <1>10, <1>12, <2>1, <4>1
    <3>2. CASE k \in DOMAIN gaps /\ gaps'[k] = gaps[k]
      BY <1>4, <2>1, <3>1, <3>2 DEF CutSoFar
    <3>3. CASE gaps'[k] = NewGap
      BY <1>9, <3>1, <3>3
    <3> QED BY <1>10, <3>2, <3>3
  <2> QED BY <1>1, <2>1 DEF GapBehind
<1>16. TakenHere'
  <2>1. \A u \in DOMAIN splits[sect] : u < nth => splits[sect][u].addr <= NewEnd
    BY <1>2, <1>3, <1>7
  <2> QED BY <1>1, <1>3, <2>1 DEF TakenHere
<1>17. \A m \in DOMAIN fixes' : \E k \in DOMAIN gaps' : FixOf(fixes'[m], gaps'[k])
  <2> DEFINE fix == <<sect, GapCut, NewEnd - Syms[GapCut].addr>>
  <2>1. fixes' = IF Leads(GapCut) /\ NewEnd < SymbolEnd(Syms[GapCut])
                 THEN Append(fixes, fix) ELSE fixes
    BY DEF MakeGap, GapCut, GapRange, NewEnd
  <2>2. fixes \in Seq(FixType)
    BY DEF TypeInv, FixesOK
  <2>3. \A m \in DOMAIN fixes : \E k \in DOMAIN gaps' : FixOf(fixes[m], gaps'[k])
    BY <1>4, <1>11 DEF CutSoFar
  <2>4. CASE ~(Leads(GapCut) /\ NewEnd < SymbolEnd(Syms[GapCut]))
    <3>1. fixes' = fixes
      BY <2>1, <2>4
    <3> QED BY <2>3, <3>1
  <2>5. CASE Leads(GapCut) /\ NewEnd < SymbolEnd(Syms[GapCut])
    <3>1. /\ GapCut \in DOMAIN Syms /\ NewEnd - Syms[GapCut].addr > 0
          /\ Syms[GapCut].comdat /\ GapCut # 0
      BY <2>5, ShortComdat DEF TypeInv, Leads
    <3>2. Syms[GapCut].addr \in Nat /\ cur <= Syms[GapCut].addr
      BY <3>1, EndAt, GapNumbers, <1>4
    <3>3. Syms[GapCut].addr < NewEnd
      BY <1>3, <3>1, <3>2
    <3>4. GapCut \in Within(NewGap)
      BY <1>3, <3>1, <3>2, <3>3 DEF Within, InRange, Syms
    <3>5. FixOf(fix, NewGap)
      <4>1. Syms[GapCut].addr + (NewEnd - Syms[GapCut].addr) = NewEnd
        BY <1>3, <3>2
      <4> QED BY <1>3, <3>1, <3>4, <4>1 DEF FixOf, Syms
    <3>6. fixes' = Append(fixes, fix)
      BY <2>1, <2>5
    <3> HIDE DEF fix
    <3>7. \A m \in DOMAIN fixes' : (m \in DOMAIN fixes /\ fixes'[m] = fixes[m]) \/ fixes'[m] = fix
      BY <2>2, <3>6
    <3> QED BY <1>12, <2>3, <3>5, <3>7
  <2> QED BY <2>4, <2>5
<1>18. CutSoFar'
  <2>1. \A s \in DOMAIN sections' : Forward(sections'[s], splits'[s])
    BY <1>1, <1>4 DEF CutSoFar
  <2>2. \A m \in DOMAIN fixes' : \E k \in DOMAIN gaps' : FixOf(fixes[m], gaps[k])'
    BY <1>1, <1>17 DEF FixOf, Within
  <2> QED BY <1>13, <1>14, <1>15, <1>16, <2>1, <2>2 DEF CutSoFar
<1> QED BY <1>1, <1>4, <1>18 DEF CutInv

\* The loop never goes back, nor does it pass the start of a split it has not taken.
LEMMA Onward ==
  ASSUME Shape, TakeSplit, InOrder(splits[sect]), Forward(Section, splits[sect])
  PROVE  /\ cur' \in Nat /\ cur <= cur' /\ UNCHANGED <<sections, splits, symbols, sect, gaps, pc>>
         /\ \/ nth' = nth
            \/ /\ nth' = nth + 1 /\ nth \in DOMAIN splits[sect]
               /\ cur <= splits[sect][nth].addr /\ splits[sect][nth].addr <= cur'
<1>1. /\ splits[sect] \in Seq(SplitType) /\ Section.end \in Nat /\ cur \in Nat
      /\ cur < Section.end /\ nth \in Nat \ {0} /\ NextStart \in Nat /\ cur <= NextStart
  <2>1. InSection /\ NextStart >= cur
    BY DEF TakeSplit
  <2>2. nth \in Nat \ {0}
    BY DEF Shape
  <2> QED BY <2>1, <2>2, InLoop, SectionNumbers
<1>2. UNCHANGED <<sections, splits, symbols, sect, gaps, pc>>
  BY DEF TakeSplit
<1>3. CASE ~HasNext
  <2>1. cur' = Section.end /\ nth' = nth
    BY <1>3 DEF TakeSplit
  <2> QED BY <1>1, <1>2, <2>1
<1>4. CASE HasNext
  <2> DEFINE x == splits[sect][nth]
             more == nth < Len(splits[sect])
             next == splits[sect][nth + 1]
  <2>1. nth \in DOMAIN splits[sect] /\ x.addr < Section.end
    BY <1>1, <1>4 DEF HasNext
  <2>2. x.addr \in Nat /\ x.end \in Nat /\ cur <= x.addr
    <3>1. NextStart = x.addr
      BY <1>4 DEF NextStart, NextSplit
    <3> QED BY <1>1, <2>1, <3>1, SplitNumbers
  <2>3. x.end = 0 \/ x.end >= x.addr
    BY <2>1 DEF Forward
  <2>4. /\ nth' = nth + 1
        /\ cur' = IF x.end > 0 THEN x.end
                  ELSE IF more THEN Min({next.addr, Section.end}) ELSE Section.end
    BY <1>4 DEF TakeSplit, NextSplit
  <2>5. more => /\ next.addr \in Nat /\ x.addr <= next.addr
                /\ Min({next.addr, Section.end}) \in {next.addr, Section.end}
    <3> SUFFICES ASSUME more
                 PROVE  /\ next.addr \in Nat /\ x.addr <= next.addr
                        /\ Min({next.addr, Section.end}) \in {next.addr, Section.end}
      OBVIOUS
    <3>1. nth + 1 \in DOMAIN splits[sect] /\ nth < nth + 1
      BY <1>1
    <3>2. next.addr \in Nat
      BY <1>1, <3>1, SplitNumbers
    <3>3. x.addr <= next.addr
      BY <2>1, <3>1 DEF InOrder
    <3> QED BY <1>1, <3>2, <3>3, MinOfTwo
  <2> HIDE DEF x, next
  <2>6. cur' \in Nat /\ x.addr <= cur'
    BY <1>1, <2>1, <2>2, <2>3, <2>4, <2>5
  <2> QED BY <1>1, <1>2, <2>1, <2>2, <2>4, <2>6 DEF x
<1> QED BY <1>3, <1>4

LEMMA TakeSplitCut ==
  ASSUME Shape, TileInv, CutInv, TakeSplit
  PROVE  CutInv'
<1>1. /\ pc = "gaps" /\ sect \in DOMAIN sections /\ splits[sect] \in Seq(SplitType)
      /\ cur \in Nat /\ nth \in Nat /\ UNCHANGED fixes
  <2>1. InSection /\ UNCHANGED fixes
    BY DEF TakeSplit
  <2> QED BY <2>1, InLoop DEF Shape
<1>2. CutSoFar /\ \A s \in DOMAIN sections : Proper(sections[s])
  BY <1>1 DEF CutInv
<1>3. InOrder(splits[sect]) /\ Forward(Section, splits[sect])
  BY <1>1, <1>2 DEF TileInv, Ordered, CutSoFar, Section
<1>4. /\ cur' \in Nat /\ cur <= cur' /\ UNCHANGED <<sections, splits, symbols, sect, gaps, pc>>
      /\ \/ nth' = nth
         \/ /\ nth' = nth + 1 /\ nth \in DOMAIN splits[sect]
            /\ cur <= splits[sect][nth].addr /\ splits[sect][nth].addr <= cur'
  BY <1>3, Onward
<1>5. \A u \in DOMAIN splits[sect] : u \in Nat /\ splits[sect][u].addr \in Nat
  BY <1>1, AllSplitNumbers
<1>6. ASSUME NEW u \in DOMAIN splits[sect], u < nth'
      PROVE  u < nth \/ (cur <= splits[sect][u].addr /\ splits[sect][u].addr <= cur')
  BY <1>1, <1>4, <1>5, <1>6
<1>7. TakenHere'
  <2>1. \A u \in DOMAIN splits[sect] : u < nth' => splits[sect][u].addr <= cur'
    <3> SUFFICES ASSUME NEW u \in DOMAIN splits[sect], u < nth'
                 PROVE  splits[sect][u].addr <= cur'
      OBVIOUS
    <3>1. u < nth => splits[sect][u].addr <= cur
      BY <1>2 DEF CutSoFar, TakenHere
    <3> QED BY <1>1, <1>4, <1>5, <1>6, <3>1
  <2> QED BY <1>4, <2>1 DEF TakenHere
<1>8. \A k \in DOMAIN gaps : GapHere(gaps[k])'
  <2>1. ASSUME NEW k \in DOMAIN gaps, gaps[k].sect = sect
        PROVE  /\ gaps[k].split.end <= cur'
               /\ \A u \in DOMAIN splits[sect] : u < nth' =>
                    splits[sect][u].addr <= gaps[k].split.addr
                    \/ gaps[k].split.end <= splits[sect][u].addr
    <3>1. gaps[k].split.end \in Nat
      <4>1. gaps[k] \in GapType
        BY <2>1, ElementType DEF Shape
      <4> QED BY <4>1 DEF GapType, SplitType
    <3>2. /\ gaps[k].split.end <= cur
          /\ \A u \in DOMAIN splits[sect] : u < nth =>
               splits[sect][u].addr <= gaps[k].split.addr
               \/ gaps[k].split.end <= splits[sect][u].addr
      BY <1>2, <2>1 DEF CutSoFar, GapHere
    <3>3. gaps[k].split.end <= cur'
      BY <1>1, <1>4, <3>1, <3>2
    <3>4. ASSUME NEW u \in DOMAIN splits[sect], u < nth', ~(u < nth)
          PROVE  gaps[k].split.end <= splits[sect][u].addr
      BY <1>1, <1>5, <1>6, <3>1, <3>2, <3>4
    <3> QED BY <3>2, <3>3, <3>4
  <2> QED BY <1>4, <2>1 DEF GapHere
<1>9. CutSoFar'
  <2>1. \A k \in DOMAIN gaps : GapCutOK(gaps[k])'
    BY <1>2, <1>4 DEF CutSoFar, GapCutOK
  <2>2. \A h, k \in DOMAIN gaps : h < k => GapBehind(gaps[h], gaps[k])'
    BY <1>2, <1>4 DEF CutSoFar, GapBehind
  <2>3. \A m \in DOMAIN fixes : \E k \in DOMAIN gaps : FixOf(fixes[m], gaps[k])'
    BY <1>1, <1>2, <1>4 DEF CutSoFar, FixOf, Within
  <2> QED BY <1>1, <1>2, <1>4, <1>7, <1>8, <2>1, <2>2, <2>3 DEF CutSoFar
<1> QED BY <1>1, <1>2, <1>4, <1>9 DEF CutInv

LEMMA NextSectionCut ==
  ASSUME Shape, TileInv, CutInv, NextSection
  PROVE  CutInv'
<1>1. /\ pc = "gaps" /\ sect \in DOMAIN sections /\ sect \in Nat
      /\ UNCHANGED <<sections, splits, symbols, gaps, fixes>>
  BY DEF NextSection, Shape
<1>2. CutSoFar /\ \A s \in DOMAIN sections : Proper(sections[s])
  BY <1>1 DEF CutInv
<1>3. CASE ~(sect < Len(sections))
  <2>1. pc' = "add"
    BY <1>3 DEF NextSection
  <2> QED BY <2>1 DEF CutInv
<1>4. CASE sect < Len(sections)
  <2>1. sect' = sect + 1 /\ nth' = 1 /\ pc' = "gaps" /\ sect + 1 \in DOMAIN sections
    BY <1>1, <1>4 DEF NextSection, AtSection, Shape
  <2>2. \A k \in DOMAIN gaps : gaps[k].sect \in Nat /\ gaps[k].sect <= sect
    <3>1. \A k \in DOMAIN gaps : gaps[k].sect <= sect
      BY <1>1 DEF TileInv, Placing
    <3>2. \A k \in DOMAIN gaps : gaps[k] \in GapType
      BY ElementType DEF Shape
    <3>3. DOMAIN sections \subseteq Nat
      BY DEF Shape
    <3> QED BY <3>1, <3>2, <3>3 DEF GapType
  <2>3. \A k \in DOMAIN gaps : GapHere(gaps[k])'
    <3>1. \A k \in DOMAIN gaps : gaps[k].sect # sect + 1
      BY <1>1, <2>2
    <3> QED BY <1>1, <2>1, <3>1 DEF GapHere
  <2>4. TakenHere'
    <3>1. splits[sect + 1] \in Seq(SplitType)
      BY <2>1, SplitsAre
    <3>2. \A u \in DOMAIN splits[sect + 1] : ~(u < 1)
      BY <3>1
    <3> QED BY <1>1, <2>1, <3>2 DEF TakenHere
  <2>5. CutSoFar'
    <3>1. \A k \in DOMAIN gaps : GapCutOK(gaps[k])'
      BY <1>1, <1>2 DEF CutSoFar, GapCutOK
    <3>2. \A h, k \in DOMAIN gaps : h < k => GapBehind(gaps[h], gaps[k])'
      BY <1>1, <1>2 DEF CutSoFar, GapBehind
    <3>3. \A m \in DOMAIN fixes : \E k \in DOMAIN gaps : FixOf(fixes[m], gaps[k])'
      BY <1>1, <1>2 DEF CutSoFar, FixOf, Within
    <3> QED BY <1>1, <1>2, <2>3, <2>4, <3>1, <3>2, <3>3 DEF CutSoFar
  <2> QED BY <1>1, <1>2, <2>1, <2>5 DEF CutInv
<1> QED BY <1>3, <1>4

LEMMA StepCut ==
  ASSUME UInv, TypeInv, TileInv, SoundInv, CutInv, UStep
  PROVE  CutInv'
<1>0. Shape
  BY DEF UInv
<1>1. CASE Trim
  BY <1>0, <1>1, TrimCut
<1>2. CASE GapStep
  <2>1. CASE MakeGap
    BY <1>0, <2>1, MakeGapCut
  <2>2. CASE TakeSplit
    BY <1>0, <2>2, TakeSplitCut
  <2>3. CASE NextSection
    BY <1>0, <2>3, NextSectionCut
  <2>4. CASE GapOverlap \/ GapError \/ AddGap \/ FixSizes
    <3>1. pc' \notin {"trim", "gaps"}
      BY <2>4 DEF GapOverlap, GapError, AddGap, FixSizes
    <3> QED BY <3>1 DEF CutInv
  <2> QED BY <1>2, <2>1, <2>2, <2>3, <2>4 DEF GapStep
<1>3. CASE UpdateCommon \/ Truncate \/ ValidateSplit \/ SplitInvalid \/ SplitsOfNext
  <2>1. pc' \notin {"trim", "gaps"}
    BY <1>3 DEF UpdateCommon, Truncate, ValidateSplit, SplitInvalid, SplitsOfNext
  <2> QED BY <2>1 DEF CutInv
<1>4. CASE Validated \/ PadSplit \/ Padded \/ FillSection \/ AddFiller \/ Filled
  <2>1. pc' \notin {"trim", "gaps"}
    BY <1>4 DEF Validated, PadSplit, Padded, FillSection, AddFiller, Filled
  <2> QED BY <2>1 DEF CutInv
<1> QED BY <1>1, <1>2, <1>3, <1>4 DEF UStep

LEMMA SameCut ==
  ASSUME CutInv, UNCHANGED allVars
  PROVE  CutInv'
<1>1. CutSoFar => CutSoFar'
  BY DEF CutSoFar, TakenHere, GapHere, GapCutOK, GapBehind, FixOf, Within, allVars, gapVars
<1> QED BY <1>1 DEF CutInv, allVars, gapVars

\* A COMDAT in a gap: the gap is made of the bytes of the first.
LEMMA LedGap ==
  ASSUME NEW g, WellCut(sections[g.sect], symbols[g.sect], g.split)
  PROVE  \/ /\ OfComdat(g)
            /\ \E i \in DOMAIN symbols[g.sect] : LedBy(symbols[g.sect], g.split, i)
         \/ Uniform(sections[g.sect], symbols[g.sect], g.split)
<1>1. ASSUME NEW i, LedBy(symbols[g.sect], g.split, i)
      PROVE  OfComdat(g)
  BY <1>1 DEF LedBy, OfComdat, Within
<1> QED BY <1>1 DEF WellCut

\* Behind a gap with the vftable's locator there is no gap with the vftable.
LEMMA LocatorNotInFront ==
  ASSUME NEW sec, NEW syms \in Seq(SymbolType), NEW ss, InOrder(syms),
         NEW x \in SplitType, NEW y \in SplitType, LocatorLed(sec, syms, ss, y), Clear(ss, y),
         WellCut(sec, syms, x), y.end <= x.addr,
         NEW i \in InRange(syms, x.addr, x.end), LocatorIn(sec, syms, ss, y, i)
  PROVE  FALSE
<1> DEFINE addr == syms[i].addr
<1>1. /\ x.addr \in Nat /\ x.end \in Nat /\ y.addr \in Nat /\ y.end \in Nat
      /\ DOMAIN syms \subseteq Nat
      /\ \A k \in DOMAIN syms : syms[k].addr \in Nat
  BY SymbolNumbers DEF SplitType
<1>2. /\ i \in DOMAIN syms /\ addr \in Nat /\ x.addr <= addr /\ addr < x.end
  BY <1>1 DEF InRange
<1>3. /\ syms[i].comdat /\ addr - 4 < y.end
      /\ \A k \in DOMAIN syms : addr - 4 <= syms[k].addr /\ syms[k].addr < addr + 1 => k = i
  BY DEF LocatorIn, InRange
<1>4. syms[i].size = 0
  <2>1. y.end <= addr
    BY <1>1, <1>2
  <2> QED BY <1>2, <2>1 DEF LocatorLed
<1>5. ~Uniform(sec, syms, x)
  BY <1>3 DEF Uniform
<1>6. PICK c \in DOMAIN syms : LedBy(syms, x, c)
  BY <1>5 DEF WellCut
<1>7. /\ x.addr <= syms[c].addr /\ x.end <= SymbolEnd(syms[c]) /\ c <= i /\ c \in Nat
  BY <1>1, <1>3, <1>6 DEF LedBy, InRange
<1>8. syms[c].addr <= addr
  <2>1. CASE c = i
    BY <1>1, <1>2, <2>1
  <2>2. CASE c # i
    <3>1. c < i
      BY <1>1, <1>2, <1>7, <2>2
    <3> QED BY <1>2, <3>1 DEF InOrder
  <2> QED BY <2>1, <2>2
<1>9. c = i
  <2>1. addr - 4 <= syms[c].addr /\ syms[c].addr < addr + 1
    BY <1>1, <1>2, <1>3, <1>7, <1>8
  <2> QED BY <1>3, <2>1
<1>10. x.end <= addr + 0
  BY <1>4, <1>7, <1>9 DEF SymbolEnd
<1> QED BY <1>1, <1>2, <1>10

LEMMA CutIsWell ==
  ASSUME UInv, TypeInv, SoundInv, CutInv
  PROVE  GapsWellCut
<1> SUFFICES ASSUME pc = "gaps"
             PROVE  ComdatsAlone /\ LocatorsKept /\ OneObjectFile /\ RegionsApart /\ SizesCut
  BY DEF GapsWellCut
<1>1. CutSoFar /\ gaps \in Seq(GapType) /\ Shape /\ SymbolsOK
  BY DEF CutInv, UInv, Shape, TypeInv
<1>2. ASSUME NEW g \in ToSet(gaps)
      PROVE  /\ g \in GapType /\ GapCutOK(g)
             /\ OfComdat(g) \/ Uniform(sections[g.sect], symbols[g.sect], g.split)
  <2>1. PICK k \in DOMAIN gaps : g = gaps[k]
    BY DEF ToSet
  <2>2. g \in GapType /\ GapCutOK(g)
    BY <1>1, <2>1, ElementType DEF CutSoFar
  <2>3. WellCut(sections[g.sect], symbols[g.sect], g.split)
    BY <2>2 DEF GapCutOK
  <2> QED BY <2>2, <2>3, LedGap
<1>3. ComdatsAlone
  BY <1>2 DEF ComdatsAlone, Uniform, Within
<1>4. OneObjectFile
  BY <1>2 DEF OneObjectFile, Uniform, Within
<1>5. RegionsApart
  BY <1>2 DEF RegionsApart, Uniform, Edges, EdgesOf
<1>6. SizesCut
  <2> SUFFICES ASSUME NEW f \in ToSet(fixes)
               PROVE  \E g \in ToSet(gaps) : FixOf(f, g)
    BY DEF SizesCut, FixOf
  <2>1. PICK m \in DOMAIN fixes : f = fixes[m]
    BY DEF ToSet
  <2>2. PICK k \in DOMAIN gaps : FixOf(f, gaps[k])
    BY <1>1, <2>1 DEF CutSoFar
  <2> QED BY <2>2 DEF ToSet
<1>7. LocatorsKept
  <2> SUFFICES ASSUME NEW g \in ToSet(gaps), NEW h \in ToSet(gaps), g.sect = h.sect,
                      NEW i \in Within(g),
                      LocatorIn(sections[g.sect], symbols[g.sect], splits[g.sect], h.split, i)
               PROVE  g = h
    <3>1. ASSUME NEW g \in ToSet(gaps), NEW h \in ToSet(gaps), NEW i \in Within(g),
                 symbols[g.sect][i].comdat /\ symbols[g.sect][i].locator,
                 InRange(symbols[g.sect], symbols[g.sect][i].addr - 4, symbols[g.sect][i].addr + 1) = {i},
                 \A split \in ToSet(splits[g.sect]) :
                   split.addr \notin symbols[g.sect][i].addr - 4 + 1 .. symbols[g.sect][i].addr,
                 Edges(g.sect) \cap (h.split.addr + 1 .. symbols[g.sect][i].addr) = {},
                 h.split.addr <= symbols[g.sect][i].addr - 4,
                 symbols[g.sect][i].addr - 4 < h.split.end
          PROVE  LocatorIn(sections[g.sect], symbols[g.sect], splits[g.sect], h.split, i)
      <4> DEFINE a == symbols[g.sect][i].addr
      <4>1. g.sect \in DOMAIN sections
        BY <1>2 DEF GapType
      <4>2. symbols[g.sect] \in Seq(SymbolType) /\ i \in DOMAIN symbols[g.sect]
        BY <1>1, <4>1, SymsAre DEF Within, InRange
      <4>3. a \in Nat
        BY <4>2, SymbolNumbers
      <4>4. a - 4 + 1 = a - 3
        BY <4>3
      <4>5. \A k \in DOMAIN splits[g.sect] : splits[g.sect][k].addr \notin a - 3 .. a
        BY <3>1, <4>4 DEF ToSet
      <4>6. EdgesOf(sections[g.sect]) \cap (h.split.addr + 1 .. a) = {}
        BY <3>1 DEF Edges, EdgesOf
      <4> QED BY <3>1, <4>5, <4>6 DEF LocatorIn
    <3> QED BY <3>1 DEF LocatorsKept
  <2>1. PICK k \in DOMAIN gaps, l \in DOMAIN gaps : g = gaps[k] /\ h = gaps[l]
    BY DEF ToSet
  <2>2. k \in Nat /\ l \in Nat
    BY <1>1
  <2>3. /\ g.split \in SplitType /\ h.split \in SplitType /\ g.sect \in DOMAIN sections
        /\ GapCutOK(g) /\ GapCutOK(h)
    BY <1>2 DEF GapType
  <2>4. symbols[g.sect] \in Seq(SymbolType) /\ InOrder(symbols[g.sect])
    BY <1>1, <2>3, SymsAre DEF SoundInv, SymbolsOrdered, UntilPadding
  <2>5. i \in InRange(symbols[g.sect], g.split.addr, g.split.end)
    BY DEF Within
  <2>6. CASE l < k
    <3>1. h.split.end <= g.split.addr /\ Clear(splits[g.sect], h.split)
      BY <1>1, <2>1, <2>6 DEF CutSoFar, GapBehind
    <3>2. LocatorLed(sections[g.sect], symbols[g.sect], splits[g.sect], h.split)
      BY <2>3 DEF GapCutOK
    <3>3. WellCut(sections[g.sect], symbols[g.sect], g.split)
      BY <2>3 DEF GapCutOK
    <3> QED BY <2>3, <2>4, <2>5, <3>1, <3>2, <3>3, LocatorNotInFront
  <2>7. CASE k < l
    <3> DEFINE a == symbols[g.sect][i].addr
    <3>1. g.split.end <= h.split.addr
      BY <1>1, <2>1, <2>7 DEF CutSoFar, GapBehind
    <3>2. i \in DOMAIN symbols[g.sect] /\ a < g.split.end
      BY <2>5 DEF InRange
    <3>3. h.split.addr <= a - 4
      BY DEF LocatorIn
    <3>4. a \in Nat /\ g.split.end \in Nat /\ h.split.addr \in Nat
      BY <2>3, <2>4, <3>2, SymbolNumbers DEF SplitType
    <3> HIDE DEF a
    <3> QED BY <3>1, <3>2, <3>3, <3>4
  <2>8. CASE k = l
    BY <2>1, <2>8
  <2> QED BY <2>2, <2>6, <2>7, <2>8
<1> QED BY <1>3, <1>4, <1>5, <1>6, <1>7

(***************************************************************************)
(* GapsWellCut for every object: create_gap_splits cuts at a COMDAT, at a  *)
(* second symbol of a name, at a stricter alignment and at a sub-region,   *)
(* and leaves a vftable with its locator.                                  *)
(***************************************************************************)
THEOREM MadeGapsWellCut ==
  USpec => []GapsWellCut
<1> DEFINE Inv == UInv /\ TypeInv /\ TileInv /\ SoundInv /\ CutInv
<1>1. UInit => Inv
  BY InitInv, InitTypes, InitPlaced, InitSound, InitCut
<1>2. Inv /\ [UNext]_allVars => Inv'
  <2> SUFFICES ASSUME Inv, [UNext]_allVars
               PROVE  Inv'
    OBVIOUS
  <2>1. CASE UStep
    <3>1. UInv' /\ TypeInv' /\ TileInv'
      BY <2>1, StepKept
    <3>2. SoundInv' /\ CutInv'
      BY <2>1, StepSound, StepCut
    <3> QED BY <3>1, <3>2
  <2>2. CASE UNCHANGED allVars
    <3>1. UInv' /\ TypeInv'
      BY <2>2, StutterInv, SameTypes
    <3>2. TileInv' /\ SoundInv' /\ CutInv'
      BY <2>2, SamePlacing, SameSound, SameCut
    <3> QED BY <3>1, <3>2
  <2> QED BY <2>1, <2>2 DEF UNext, UDone
<1>3. Inv => GapsWellCut
  BY CutIsWell
<1> QED BY <1>1, <1>2, <1>3, PTL DEF USpec
=============================================================================
