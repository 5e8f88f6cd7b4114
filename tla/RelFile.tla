------------------------------ MODULE RelFile -------------------------------
(***************************************************************************)
(* REL modules (src/src/util/rel.rs): how write_rel makes one of a         *)
(* partially linked ELF file and its relocations, how process_rel reads    *)
(* one, and how the alignment of its sections is found again.              *)
(*                                                                         *)
(* A file is a record of what is at its offsets: the header, the section   *)
(* headers, where each section was written and what the branches in it     *)
(* say, the relocation table and the import table.  The sections of an ELF *)
(* file are known by their index, without the null section; a branch says  *)
(* <<d>>, the distance it goes, or <<>> if it is as the compiler left it.  *)
(* Offsets are in bytes; a table entry has the size it has in the file.    *)
(***************************************************************************)
EXTENDS Integers, Sequences, FiniteSets, SequencesExt

CONSTANTS
  MaxOffset,    \* what the 16 bits of an offset hold (0xffff)
  Reach24,      \* how far an R_PPC_REL24 reaches (0x2000000)
  Reach14       \* how far an R_PPC_REL14 reaches (0x2000)

Unset == -1
NoSymbolAt == <<0, 0>>

\* A file that could not be made or read.
Failed == [failed |-> TRUE]

Permitted == {".init", ".text", ".ctors", ".dtors", ".rodata", ".data", ".bss"}
RelocKinds == {"abs", "lo", "hi", "ha", "rel24", "rel14"}
Branches == {"rel24", "rel14"}
EntrySize == 8

AlignUp(x, align) == ((x + align - 1) \div align) * align

\* A field of the header that the versions before the first do not have.
Since(first, version, value) == IF version >= first THEN value ELSE Unset

\* The entries of the tables.
Import(module, offset) == [module |-> module, offset |-> offset]
Placed(offset, size, exec) == [offset |-> offset, size |-> size, exec |-> exec]
Raw(kind, offset, section, addend) ==
  [kind |-> kind, offset |-> offset, section |-> section, addend |-> addend]
End == Raw("end", 0, 0, 0)

\* RelHeader::write_size, with what the versions added.
HeaderSize(version) == CASE version = 1 -> 64 [] version = 2 -> 72 [] version = 3 -> 76

InReach(kind, distance) ==
  LET reach == IF kind = "rel24" THEN Reach24 ELSE Reach14
  IN  -reach <= distance /\ distance < reach

-----------------------------------------------------------------------------
\* The order of the relocations: version 3 has module 0 and the module itself last.
SortKey(info, r) ==
  <<IF info.version < 3 THEN 0 ELSE IF r.module = 0 THEN 2 ELSE IF r.module = info.module THEN 1 ELSE 0,
    r.module, r.section, r.address>>

KeyLess(a, b) ==
  \E n \in DOMAIN a : a[n] < b[n] /\ \A m \in 1..n - 1 : a[m] = b[m]

SortRelocations(info, relocs) ==
  LET key(i) == SortKey(info, relocs[i])
      before(i, j) == KeyLess(key(i), key(j)) \/ (key(i) = key(j) /\ i < j)
  IN  [n \in DOMAIN relocs |->
        relocs[CHOOSE k \in DOMAIN relocs :
                 Cardinality({j \in DOMAIN relocs : before(j, k)}) = n - 1]]

\* skip_reloc: a branch within a section is put into its data for good.
SkipReloc(module, r) == r.module = module /\ r.section = r.target /\ r.kind \in Branches

-----------------------------------------------------------------------------
\* The sections that are written, by their index and in their order.
PermittedSections(elf) ==
  SelectSeq([i \in DOMAIN elf.sections |-> i], LAMBDA i : elf.sections[i].name \in Permitted)

\* section_align counts the permitted sections.
SectionAlign(elf, info, n) ==
  Max({1, IF n \in DOMAIN info.sectionAlign THEN info.sectionAlign[n]
          ELSE elf.sections[PermittedSections(elf)[n]].align})

\* Where each permitted section goes, and the end of them; .bss has no place.
PlaceSections(elf, info, start) ==
  LET permitted == PermittedSections(elf)
      place(acc, n) ==
        LET s == elf.sections[permitted[n]]
            at == AlignUp(acc.end, SectionAlign(elf, info, n))
        IN  IF s.name = ".bss" THEN [acc EXCEPT !.offsets = Append(@, 0)]
            ELSE [offsets |-> Append(acc.offsets, at), end |-> at + s.size]
  IN  FoldLeft(place, [offsets |-> <<>>, end |-> start], [n \in DOMAIN permitted |-> n])

SymbolAt(elf, name) ==
  LET defined == {n \in DOMAIN elf.symbols : elf.symbols[n].name = name /\ elf.symbols[n].section > 0}
  IN  IF defined = {} THEN NoSymbolAt
      ELSE <<elf.symbols[Max(defined)].section, elf.symbols[Max(defined)].address>>

Override(value, own) == IF value = Unset THEN own ELSE value

\* The header as far as it does not depend on the relocations.
BaseHeader(elf, info) ==
  LET permitted == PermittedSections(elf)
      aligns == {SectionAlign(elf, info, n) : n \in DOMAIN permitted}
      bss == {n \in DOMAIN permitted : elf.sections[permitted[n]].name = ".bss"}
      bssAlign == IF bss = {} THEN 1 ELSE SectionAlign(elf, info, Min(bss))
  IN  [module |-> info.module, version |-> info.version, name |-> info.name,
       count |-> Override(info.count, Len(elf.sections)),
       sections |-> HeaderSize(info.version),
       bss |-> IF bss = {} THEN 0 ELSE elf.sections[permitted[Min(bss)]].size,
       align |-> Since(2, info.version, Override(info.align, Max({0} \cup aligns))),
       bssAlign |-> Since(2, info.version, Override(info.bssAlign, bssAlign)),
       prolog |-> SymbolAt(elf, "_prolog"), epilog |-> SymbolAt(elf, "_epilog"),
       unresolved |-> SymbolAt(elf, "_unresolved"),
       rel |-> 0, imp |-> 0, impSize |-> 0, fix |-> Unset]
-----------------------------------------------------------------------------
\* do_relocation_layout: the relocation table and the imports, from an offset on.
LayoutStart(base) ==
  [base |-> base, raws |-> <<>>, imports |-> <<>>, fix |-> Unset,
   module |-> Unset, section |-> Unset, address |-> 0]

\* (mutant) the section is only written when it is not the last one that was.
MovedSection(acc, r) == r.section # acc.section

\* The reader starts every import without a section.
Moved(acc, r) == r.module # acc.module \/ r.section # acc.section

LayoutOne(info, acc, r) ==
  LET new == r.module # acc.module
      ended == IF new /\ acc.module # Unset THEN Append(acc.raws, End) ELSE acc.raws
      here == acc.base + EntrySize * Len(ended)
      moved == Moved(acc, r)
      distance == r.address - (IF moved THEN 0 ELSE acc.address)
      nops == IF distance <= MaxOffset THEN 0 ELSE (distance - 1) \div MaxOffset
  IN  [acc EXCEPT
         !.raws = ended \o (IF moved THEN <<Raw("section", 0, r.section, 0)>> ELSE <<>>)
                  \o [n \in 1..nops |-> Raw("nop", MaxOffset, 0, 0)]
                  \o <<Raw(r.kind, distance - nops * MaxOffset, r.target, r.addend)>>,
         !.imports = IF new THEN Append(@, Import(r.module, here)) ELSE @,
         !.fix = IF info.version >= 3 /\ @ = Unset /\ r.module \in {0, info.module} THEN here ELSE @,
         !.module = r.module, !.section = r.section, !.address = r.address]

RelocationLayout(info, relocs, base) ==
  LET acc == FoldLeft(LAMBDA a, r : LayoutOne(info, a, r), LayoutStart(base), relocs)
  IN  [raws |-> Append(acc.raws, End), imports |-> acc.imports, fix |-> acc.fix]

\* The tables behind the sections: versions 1 and 2 have the relocations first.
Tables(info, relocs, end) ==
  LET impSize == EntrySize * Cardinality({relocs[i].module : i \in DOMAIN relocs})
      first == info.version < 3
      rel == IF first THEN end ELSE end + impSize
      layout == RelocationLayout(info, relocs, rel)
  IN  IF relocs = <<>>
      THEN [rel |-> 0, imp |-> 0, impSize |-> 0, raws |-> <<>>, imports |-> <<>>,
            fix |-> Since(3, info.version, end)]
      ELSE [rel |-> rel, imp |-> IF first THEN rel + EntrySize * Len(layout.raws) ELSE end,
            impSize |-> impSize, raws |-> layout.raws, imports |-> layout.imports,
            fix |-> layout.fix]

\* apply_relocation: what a branch says in the file.
Applied(header, r) ==
  IF r.module = header.module /\ r.section = r.target THEN <<r.addend - r.address>>
  ELSE IF header.unresolved[1] = r.section THEN <<header.unresolved[2] - r.address>>
  ELSE <<>>

SectionHeader(elf, info, offsets, i) ==
  LET n == CHOOSE m \in DOMAIN offsets : PermittedSections(elf)[m] = i
  IN  IF i \notin DOMAIN elf.sections \/ ~\E m \in DOMAIN offsets : PermittedSections(elf)[m] = i
      THEN Placed(0, 0, FALSE)
      ELSE Placed(offsets[n], elf.sections[i].size,
                  IF i \in DOMAIN info.sectionExec THEN info.sectionExec[i]
                  ELSE elf.sections[i].exec)

\* The relocations of the sections that are written, in their order.
Kept(elf, info, relocs) ==
  SelectSeq(SortRelocations(info, relocs), LAMBDA r : elf.sections[r.section].name \in Permitted)

Listed(info, kept) == SelectSeq(kept, LAMBDA r : ~SkipReloc(info.module, r))

TablesStart(info, placed) == IF info.version >= 3 THEN AlignUp(placed.end, 4) ELSE placed.end

\* What is written, when the sections have their places and the tables are laid out.
\* A header of version 3 without fix_size is four bytes short, which its check of the
\* position finds.
Written(elf, info, header, kept, placed, tables) ==
  LET listed == Listed(info, kept)
      branches == {kept[i] : i \in {j \in DOMAIN kept : kept[j].kind \in Branches}}
  IN  IF \/ \E i \in DOMAIN listed : listed[i].kind \notin RelocKinds
         \/ info.version >= 3 /\ tables.fix = Unset
         \/ \E r \in branches : \E d \in ToSet(Applied(header, r)) : ~InReach(r.kind, d)
      THEN Failed
      ELSE [header |-> [header EXCEPT !.rel = tables.rel, !.imp = tables.imp,
                                      !.impSize = tables.impSize, !.fix = tables.fix],
            sections |-> [i \in 0..header.count - 1 |->
                            SectionHeader(elf, info, placed.offsets, i)],
            branches |-> {<<r.section, r.address, Applied(header, r)>> : r \in branches},
            raws |-> tables.raws, imports |-> tables.imports]

WriteBehind(elf, info, header, kept, placed) ==
  Written(elf, info, header, kept, placed, Tables(info, Listed(info, kept), TablesStart(info, placed)))

\* write_rel
WriteRel(elf, info, relocs) ==
  LET header == BaseHeader(elf, info)
  IN  WriteBehind(elf, info, header, Kept(elf, info, relocs),
                  PlaceSections(elf, info, header.sections + EntrySize * header.count))

-----------------------------------------------------------------------------
\* process_rel: the relocations that follow each other from an entry of the table on.
ReadOne(module, acc, raw) ==
  CASE acc.done \/ raw.kind = "none" -> acc
    [] ~acc.done /\ raw.kind = "nop" -> [acc EXCEPT !.address = @ + raw.offset]
    [] ~acc.done /\ raw.kind = "section" -> [acc EXCEPT !.address = 0, !.section = raw.section]
    [] ~acc.done /\ raw.kind = "end" -> [acc EXCEPT !.done = TRUE]
    [] OTHER ->
       LET address == acc.address + raw.offset
       IN  [acc EXCEPT !.address = address,
                       !.relocs = Append(@, [kind |-> raw.kind, section |-> acc.section,
                          address |-> address - (address % 4), module |-> module,
                          target |-> raw.section, addend |-> raw.addend])]

ReadImport(file, import) ==
  LET first == (import.offset - file.header.rel) \div EntrySize + 1
      start == [section |-> 255, address |-> 0, relocs |-> <<>>, done |-> FALSE]
  IN  FoldLeft(LAMBDA a, raw : ReadOne(import.module, a, raw), start,
               SubSeq(file.raws, first, Len(file.raws)))

\* The sections of a REL that are not empty; one without an offset is .bss.
ReadSections(file) ==
  LET there == SelectSeq([i \in 1..file.header.count - 1 |-> i],
                         LAMBDA i : file.sections[i].size > 0)
      read(i) == [index |-> i, size |-> file.sections[i].size, offset |-> file.sections[i].offset,
                  kind |-> CASE file.sections[i].offset = 0 -> "bss"
                             [] file.sections[i].offset > 0 /\ file.sections[i].exec -> "code"
                             [] OTHER -> "data",
                  align |-> IF file.sections[i].offset > 0 \/ file.header.bssAlign = Unset THEN 0
                            ELSE file.header.bssAlign]
  IN  [n \in DOMAIN there |-> read(there[n])]

\* What the tables of a file must say of each other.
Consistent(file, sections) ==
  LET of(kind) == {n \in DOMAIN sections : sections[n].kind = kind}
      indices == {sections[n].index : n \in DOMAIN sections}
      h == file.header
  IN  /\ Cardinality(of("code")) <= 1 /\ Cardinality(of("bss")) <= 1
      /\ h.bss = IF of("bss") = {} THEN 0 ELSE sections[Min(of("bss"))].size
      /\ \A at \in {h.prolog, h.epilog, h.unresolved} : at[1] > 0 => at[1] \in indices
      /\ h.impSize \div EntrySize = Len(file.imports)
      /\ file.imports # <<>> => file.imports[1].offset = h.rel
      /\ \A i \in DOMAIN file.imports :
           file.imports[i].module = h.module /\ h.fix # Unset => h.fix = file.imports[i].offset

ProcessRel(file) ==
  LET sections == ReadSections(file)
      read == [n \in DOMAIN file.imports |-> ReadImport(file, file.imports[n])]
  IN  IF ~Consistent(file, sections) \/ \E n \in DOMAIN read : ~read[n].done THEN Failed
      ELSE [module |-> file.header.module, sections |-> sections,
            relocs |-> FlattenSeq([n \in DOMAIN read |-> read[n].relocs])]

-----------------------------------------------------------------------------
\* update_rel_section_alignment: the default if the section is known, else the most
\* that explains its offset, from the alignment of the header down to 4.
Halvings(most) == {a \in {most \div (2 ^ n) : n \in 0..5} : a >= 4}

FoundAlign(header, s, known, from) ==
  LET default == IF s.kind = "code" \/ known \in {".ctors", ".dtors"} THEN 4 ELSE 8
      fits == {a \in Halvings(IF header.align = Unset THEN 32 ELSE header.align) :
                 AlignUp(from, a) = s.offset}
  IN  CASE s.align > 0 -> s.align
        [] s.align = 0 /\ known # "" /\ AlignUp(from, default) = s.offset -> default
        [] OTHER -> IF fits = {} THEN 0 ELSE Max(fits)

\* (mutant) only the header of the file is in front of a section.
SectionStartFirst(header, sections, n) == header.sections + EntrySize * header.count

SectionStart(header, sections, n) ==
  IF n = 1 THEN header.sections + EntrySize * header.count
  ELSE sections[n - 1].offset + sections[n - 1].size

\* known is the name each section is known by, or "".
UpdateSectionAlignment(header, sections, known) ==
  LET aligns == [n \in DOMAIN sections |->
                   FoundAlign(header, sections[n], known[sections[n].index],
                              SectionStart(header, sections, n))]
  IN  IF 0 \in ToSet(aligns) THEN Failed
      ELSE [align |-> aligns]
=============================================================================
