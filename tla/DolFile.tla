------------------------------ MODULE DolFile -------------------------------
(***************************************************************************)
(* Executables (src/src/util/dol.rs, src/src/util/alf.rs and               *)
(* src/src/cmd/elf2dol.rs): a DOL file knows at most a few sections, all   *)
(* of them padded, and one range of .bss.  What the program really         *)
(* consists of is in the tables that its startup code reads, and           *)
(* process_dol looks for them.                                             *)
(*                                                                         *)
(* Memory is made of words of four bytes, and sections are sequences of    *)
(* words.  A word is the number it is as an address.  A file is its        *)
(* sections, with where their words begin, and the words behind the        *)
(* header.  Addresses with the highest bit are those from High on.         *)
(***************************************************************************)
EXTENDS Integers, Sequences, FiniteSets, SequencesExt

CONSTANTS
  High,        \* 0x80000000
  MaxText,     \* MAX_TEXT_SECTIONS
  MaxData      \* MAX_DATA_SECTIONS

Unset == -1
Unreadable == -2
Failed == [failed |-> TRUE]

DolHeaderSize == 256
MaxRomCopyInfo == (MaxText + MaxData + 1) * 12
MaxBssInit == (MaxData + 1) * 8
EtiInfo == 16

Align(x, align) == ((x + align - 1) \div align) * align
Padded(words, size) == words \o [n \in 1..(Align(size, 32) - size) \div 4 |-> 0]

\* contains, of a section of a file or of an object.
Holds(s, addr) == s.address <= addr /\ addr < s.address + s.size

\* The first section that contains an address; 0 if none does.
SectionAt(sections, addr) ==
  LET there == {i \in DOMAIN sections : Holds(sections[i], addr)}
  IN  IF there = {} THEN 0 ELSE Min(there)

OfKind(sections, kinds) == SelectSeq(sections, LAMBDA s : s.kind \in kinds)

-----------------------------------------------------------------------------
\* elf2dol: the kind a name stands for, else the one the ELF file says.
ElfKind(s) ==
  CASE s.name \in {".init", ".text", ".vmtext", ".dbgtext"} -> "text"
    [] s.name \in {".ctors", ".dtors", ".data", ".rodata", ".sdata", ".sdata2", "extab",
                   "extabindex", ".BINARY"} -> "data"
    [] s.name \in {".bss", ".sbss", ".sbss2"} -> "bss"
    [] OTHER -> IF s.kind = "rodata" THEN "data" ELSE s.kind

\* The sections of one kind behind each other, from an offset on.
Emit(kind, sections, offset) ==
  LET before(n) == FoldLeft(LAMBDA a, s : a + Align(s.size, 32), 0, SubSeq(sections, 1, n - 1))
  IN  [n \in DOMAIN sections |->
         [kind |-> kind, address |-> sections[n].address, size |-> Align(sections[n].size, 32),
          offset |-> offset + before(n)]]

\* (mutant) the range ends where the first section does.
BssRangeFirst(sections) ==
  IF sections = <<>> THEN [address |-> 0, size |-> 0]
  ELSE [address |-> sections[1].address, size |-> sections[1].size]

\* One range from the first section to the end of the last.
BssRange(sections) ==
  IF sections = <<>> THEN [address |-> 0, size |-> 0]
  ELSE LET last == sections[Len(sections)]
       IN  [address |-> sections[1].address,
            size |-> last.address + last.size - sections[1].address]

WordsOf(sections) == FlattenSeq([n \in DOMAIN sections |-> Padded(sections[n].data, sections[n].size)])

\* DolFile::from_reader: the sections that are not empty, and .bss.
Listed(sections, bss) ==
  SelectSeq(sections, LAMBDA s : s.size > 0)
  \o <<[kind |-> "bss", address |-> bss.address, size |-> bss.size, offset |-> 0]>>

\* What elf2dol and write_dol both do.
DolOf(text, data, bss, entry) ==
  LET texts == Emit("text", text, DolHeaderSize)
      datas == Emit("data", data, DolHeaderSize + 4 * Len(WordsOf(text)))
  IN  IF Len(text) > MaxText \/ Len(data) > MaxData THEN Failed
      ELSE [format |-> "dol", entry |-> entry, words |-> WordsOf(text) \o WordsOf(data),
            sections |-> Listed(texts \o datas, BssRange(bss)), symbols |-> <<>>]

Elf2Dol(elf, ignored) ==
  LET of(kind) == SelectSeq(elf.sections,
                    LAMBDA s : ElfKind(s) = kind /\ s.alloc /\ s.name \notin ignored)
  IN  DolOf(of("text"), of("data"), of("bss"), elf.entry)

WriteDol(obj) ==
  DolOf(OfKind(obj.sections, {"code"}), OfKind(obj.sections, {"data", "rodata"}),
        OfKind(obj.sections, {"bss"}), obj.entry)

(***************************************************************************)
(* An ALF file has the sections as they are; one without data is .bss, and *)
(* one with a function is code.                                            *)
(***************************************************************************)
AlfFile(sections, symbols, entry) ==
  LET words(s) == IF s.kind = "bss" THEN <<>> ELSE s.data
      offset(n) == FoldLeft(LAMBDA a, s : a + 4 * Len(words(s)), DolHeaderSize, SubSeq(sections, 1, n - 1))
      kind(n) == IF \E i \in DOMAIN symbols : symbols[i].section = n /\ symbols[i].kind = "function"
                 THEN "text" ELSE IF words(sections[n]) = <<>> THEN "bss" ELSE "data"
  IN  [format |-> "alf", entry |-> entry,
       words |-> FlattenSeq([n \in DOMAIN sections |-> words(sections[n])]),
       sections |-> [n \in DOMAIN sections |->
                       [kind |-> kind(n), address |-> sections[n].address,
                        size |-> sections[n].size, offset |-> offset(n)]],
       symbols |-> symbols]

\* AlfSymbol::to_obj_symbol: a hash instead of a name makes it a label.
AlfSymbol(s) ==
  [name |-> CASE s.hashed /\ s.kind = "function" -> <<"fn", s.address>>
              [] s.hashed /\ s.kind = "object" -> <<"lbl", s.address>>
              [] OTHER -> s.name,
   address |-> s.address, size |-> s.size, section |-> s.section]

-----------------------------------------------------------------------------
\* virtual_data_at and read_u32.
DataAt(file, addr, size) ==
  LET s == file.sections[SectionAt(file.sections, addr)]
      first == (s.offset + (addr - s.address) - DolHeaderSize) \div 4
  IN  IF SectionAt(file.sections, addr) = 0 THEN <<>>
      ELSE IF addr - s.address + size > s.size \/ s.kind = "bss" THEN <<>>
      ELSE SubSeq(file.words, first + 1, first + size \div 4)

ReadWord(file, addr) ==
  LET data == DataAt(file, addr, 4) IN IF data = <<>> THEN Unreadable ELSE data[1]

\* The first address from one on at which a word is one of some, before an end.
Search(file, from, end, wanted) ==
  LET hits == {a \in {from + 4 * n : n \in 0..(end - from) \div 4} :
                 /\ a = from \/ a < end
                 /\ ReadWord(file, a) = Unreadable \/ ReadWord(file, a) \in wanted}
  IN  IF hits = {} THEN Unset
      ELSE IF ReadWord(file, Min(hits)) = Unreadable THEN Unreadable ELSE Min(hits)

(***************************************************************************)
(* A table of entries of some words, the last of which is a size: it ends  *)
(* with a size of 0, or is given up at the end of the section.             *)
(***************************************************************************)
ReadTable(file, addr, end, words) ==
  LET at(k) == addr + 4 * words * k
      word(k, n) == ReadWord(file, at(k) + 4 * n)
      bad(k) == \/ Unreadable \in {word(k, n) : n \in 0..words - 1}
                \/ words = 3 /\ word(k, 0) # word(k, 1)
      last(k) == bad(k) \/ word(k, words - 1) = 0 \/ at(k + 1) >= end
      count == Min({k \in 0..(end - addr) \div 4 + 1 : last(k)})
  IN  IF addr \in {Unset, Unreadable}
      THEN [start |-> addr, bad |-> addr = Unreadable, sizes |-> <<>>, end |-> Unset]
      ELSE [start |-> addr, bad |-> bad(count),
            sizes |-> [a \in {word(k, 0) : k \in 0..count - 1} |->
                        word(Max({k \in 0..count - 1 : word(k, 0) = a}), words - 1)],
            end |-> IF ~bad(count) /\ word(count, words - 1) = 0 THEN at(count + 1) ELSE Unset]
-----------------------------------------------------------------------------
\* Sections of an object, as they are found.
Found(name, kind, address, size, data) ==
  [name |-> name, kind |-> kind, address |-> address, size |-> size, data |-> data,
   known |-> name = ".init", align |-> 0]

KindOf(kind) == IF kind = "text" THEN "code" ELSE kind

InOrder(sections) ==
  [n \in DOMAIN sections |->
    sections[CHOOSE i \in DOMAIN sections :
      Cardinality({j \in DOMAIN sections :
        \/ sections[j].address < sections[i].address
        \/ sections[j].address = sections[i].address /\ j < i}) = n - 1]]

\* The entries of a table in the order of their addresses.
Entries(sizes) ==
  InOrder(SetToSeq({[address |-> a, size |-> sizes[a]] : a \in DOMAIN sizes}))

\* The size of a section of the file, from the table if that has it.
SizeOf(s, sizes) == IF s.address \in DOMAIN sizes THEN sizes[s.address] ELSE s.size

FileSections(file, init, sizes) ==
  LET make(i) ==
        LET s == file.sections[i]
            name == IF i = init THEN ".init" ELSE ""
            kind == IF i = init THEN "code" ELSE KindOf(s.kind)
        IN  IF kind = "bss" THEN Found(name, kind, s.address, s.size, <<>>)
            ELSE Found(name, kind, s.address, SizeOf(s, sizes), DataAt(file, s.address, SizeOf(s, sizes)))
      wanted == SelectSeq([i \in DOMAIN file.sections |-> i],
                          LAMBDA i : file.format = "alf" \/ file.sections[i].kind # "bss")
  IN  [n \in DOMAIN wanted |-> make(wanted[n])]

\* A BootStage has its program in one section; the table says what is in there.
StagedSections(file, entry, sizes) ==
  [n \in DOMAIN Entries(sizes) |->
    LET e == Entries(sizes)[n]
        init == Holds(e, entry)
        at == SectionAt(file.sections, e.address)
        kind == IF init THEN "code" ELSE IF at = 0 THEN "data" ELSE KindOf(file.sections[at].kind)
    IN  Found(IF init THEN ".init" ELSE "", kind, e.address, e.size,
              DataAt(file, e.address, e.size))]

\* The smallest power of 2 that explains where a section begins, or 32.
GuessAlign(last, start) ==
  LET enough == {a \in {4 * 2 ^ n : n \in 0..16} : Align(last, a) >= start}
  IN  IF enough = {} THEN 32
      ELSE IF Align(last, Min(enough)) = start THEN Min(enough) ELSE 32

Aligned(sections) ==
  [n \in DOMAIN sections |->
    LET last == IF n = 1 THEN sections[1].address
                ELSE sections[n - 1].address + sections[n - 1].size
    IN  [sections[n] EXCEPT !.align = GuessAlign(last, sections[n].address)]]

-----------------------------------------------------------------------------
\* read_u32_obj
ObjWord(sections, addr) ==
  LET i == SectionAt(sections, addr)
  IN  IF i = 0 THEN Unreadable
      ELSE IF addr + 4 > sections[i].address + sections[i].size \/ sections[i].kind = "bss"
      THEN Unreadable
      ELSE sections[i].data[(addr - sections[i].address) \div 4 + 1]

ObjWords(sections, addr, count) == [n \in 1..count |-> ObjWord(sections, addr + 4 * (n - 1))]

Renamed(obj, i, name, kind) ==
  IF obj.sections[i].known THEN obj
  ELSE [obj EXCEPT !.sections[i] = [@ EXCEPT !.name = name, !.kind = kind, !.known = TRUE]]

\* locate_text: the one section that .init branches into (targets).
LocateText(obj, targets) ==
  LET into == {SectionAt(obj.sections, a) : a \in targets} \ {SectionAt(obj.sections, obj.entry), 0}
  IN  IF Cardinality(into) # 1 THEN obj ELSE Renamed(obj, Min(into), ".text", "code")

\* validate_eti_init_info, of the words of an entry.
ValidEti(sections, s, info) ==
  LET code == SectionAt(sections, info[3])
  IN  /\ Holds(s, info[1]) /\ Holds(s, info[2]) /\ code > 0
      /\ info[3] + info[4] <= sections[code].address + sections[code].size

\* Where _eti_init_info begins in a section: looked for in what it may take at most.
EtiStart(sections, i) ==
  LET s == sections[i]
      end == s.address + s.size
      from == end - EtiInfo * (Len(OfKind(sections, {"code"})) + 1)
      read(a) == ObjWords(sections, a, 4)
      hits == {a \in {from + 4 * n : n \in 0..(end - EtiInfo - from) \div 4} :
                 Unreadable \in ToSet(read(a)) \/ ValidEti(sections, s, read(a))}
  IN  IF hits = {} THEN Unset
      ELSE IF Unreadable \in ToSet(read(Min(hits))) THEN Unreadable ELSE Min(hits)

\* The entries of _eti_init_info from where it begins, and how many there are.
EtiAt(obj, start, k) == ObjWords(obj.sections, start + EtiInfo * k, 4)

EtiBeyond(obj, index, start, k) ==
  start + EtiInfo * (k + 1) > obj.sections[index].address + obj.sections[index].size

EtiCount(obj, index, start) ==
  Min({k \in 1..obj.sections[index].size :
         \/ EtiBeyond(obj, index, start, k) \/ EtiAt(obj, start, k) = <<0, 0, 0, 0>>
         \/ ~ValidEti(obj.sections, obj.sections[index], EtiAt(obj, start, k))})

\* An entry of extabindex: a function, its size, and where it is in extab.
ExtabEntry(obj, a) == ObjWords(obj.sections, a, 3)

ExtabEntries(obj, start, count) ==
  LET info(k) == EtiAt(obj, start, k)
  IN  UNION {{info(k)[1] + 12 * n : n \in 0..(info(k)[2] - info(k)[1]) \div 12 - 1} : k \in 0..count - 1}

\* The functions and the symbols of the entries; up to one whose function is nowhere.
WithExtab(obj, start, count, entries, starts, end) ==
  LET good == {a \in entries : \A b \in entries :
                 b <= a => SectionAt(obj.sections, ExtabEntry(obj, b)[1]) > 0}
      sizeAt(x) == Min({y \in starts : y > x} \cup {end}) - x
  IN  [obj EXCEPT
        !.functions = @ \cup {<<ExtabEntry(obj, a)[1], ExtabEntry(obj, a)[2]>> : a \in good},
        !.symbols = @ \cup {<<<<"_eti_init_info", 0>>, start, EtiInfo * (count + 1)>>}
                      \cup {<<<<"@eti", a>>, a, 12>> : a \in good}
                      \cup {<<<<"@etb", x>>, x, sizeAt(x)>> :
                              x \in IF good = entries THEN starts ELSE {}}]

NamedExtab(obj, index, start, count, entries, starts) ==
  LET extabs == {SectionAt(obj.sections, x) : x \in starts}
      extab == Min(extabs)
      first == IF extabs = {} THEN obj ELSE Renamed(obj, extab, "extab", "rodata")
      named == Renamed(first, index, "extabindex", "rodata")
  IN  IF Cardinality(extabs) > 1 \/ \E i \in extabs : i = 0 \/ obj.sections[i].known THEN obj
      ELSE IF index \in extabs THEN named
      ELSE WithExtab(named, start, count, entries, starts,
                     obj.sections[extab].address + obj.sections[extab].size)

ExtabOf(obj, index, start, count) ==
  LET entries == ExtabEntries(obj, start, count)
  IN  IF EtiBeyond(obj, index, start, count) \/ EtiAt(obj, start, count) # <<0, 0, 0, 0>> THEN obj
      ELSE NamedExtab(obj, index, start, count, entries, {ExtabEntry(obj, a)[3] : a \in entries})

ExtabFrom(obj, index, start) ==
  IF start = Unreadable THEN obj ELSE ExtabOf(obj, index, start, EtiCount(obj, index, start))

(***************************************************************************)
(* locate_extab_extabindex: the sections of data are gone through until    *)
(* one has the table, and any that cannot be read ends the search.         *)
(***************************************************************************)
LocateExtab(obj) ==
  LET hits == {i \in DOMAIN obj.sections :
                 obj.sections[i].kind = "data" /\ EtiStart(obj.sections, i) # Unset}
  IN  IF hits = {} THEN obj ELSE ExtabFrom(obj, Min(hits), EtiStart(obj.sections, Min(hits)))

\* locate_ctors_dtors: sections of pointers to code that end with a null pointer.
CodePointer(sections, word) ==
  /\ word # 0 /\ SectionAt(sections, word) > 0
  /\ sections[SectionAt(sections, word)].kind = "code"

PointerSections(sections) ==
  {i \in DOMAIN sections :
     LET s == sections[i]
         last == s.size \div 4
     IN  \/ s.kind = "bss" /\ s.size = 4
         \/ /\ s.kind # "bss" /\ s.data[last] = 0
            /\ \A n \in 1..last - 1 : CodePointer(sections, s.data[n])}

LocateCtorsDtors(obj) ==
  LET found == PointerSections(obj.sections)
      ctors == Min(found)
      dtors == Min(found \ {ctors})
      pointers == UNION {ToSet(obj.sections[i].data) \ {0} : i \in found}
      known == [obj EXCEPT !.functions = @ \cup {<<a, Unset>> : a \in pointers}]
  IN  IF found = {} THEN obj
      ELSE IF Cardinality(found) = 1 \/ obj.sections[ctors].known
      THEN Renamed(known, ctors, ".ctors", "rodata")
      ELSE Renamed(Renamed(known, ctors, ".ctors", "rodata"), dtors, ".dtors", "rodata")

-----------------------------------------------------------------------------
\* _rom_copy_info: where it begins, from the end of .init or in all of a BootStage.
RomTable(file, home, first, entry) ==
  LET end == home.address + home.size
      from == IF file.entry < High THEN home.address ELSE end - MaxRomCopyInfo - MaxBssInit
  IN  Search(file, from, end, {first, entry})

\* _bss_init_info comes behind it.
BssTable(file, home, bss, from) ==
  IF from = Unset THEN Unset
  ELSE Search(file, from, home.address + home.size, {w \in ToSet(file.words) : file.entry < High \/ Holds(bss, w)})

\* The parts of .bss that the table tells, or else the calls of memset; an ALF file has its own.
BssSections(file, sizes, memsets) ==
  LET bsses == IF file.format = "alf" THEN <<>>
               ELSE IF DOMAIN sizes # {} THEN Entries(sizes)
               ELSE memsets
  IN  [n \in DOMAIN bsses |-> Found("", "bss", bsses[n].address, bsses[n].size, <<>>)]

\* What ends process_dol: a part that is not in the file's .bss, or one memset alone.
BadBss(file, bss, sizes, parts) ==
  IF sizes = <<>> THEN Len(parts) \notin {0, 2}
  ELSE file.entry >= High /\ \E part \in ToSet(parts) :
         ~Holds(bss, part.address) \/ part.address + part.size > bss.address + bss.size

\* The symbol of a table that begins and ends.
TableSymbol(name, table) ==
  IF table.end = Unset THEN {} ELSE {<<<<name, 0>>, table.start, table.end - table.start>>}

\* Where the program is entered: a BootStage has that at the end of its own code.
Entry(file, main) ==
  IF file.entry < High THEN ReadWord(file, main.address + main.size - 4) ELSE file.entry

\* Both tables, of a section from where the first one begins.
ReadTables(file, home, bss, rom) ==
  LET end == home.address + home.size
  IN  [rom |-> rom, bss |-> ReadTable(file, BssTable(file, home, bss, rom.end), end, 2)]

FindTables(file, home, bss, first, entry) ==
  ReadTables(file, home, bss,
             ReadTable(file, RomTable(file, home, first, entry), home.address + home.size, 3))

\* The object of the sections that were found; none without the data it should have.
FromSections(file, entry, targets, found, tables) ==
  LET sections == IF file.format = "alf" THEN found ELSE InOrder(found)
      given == {<<AlfSymbol(s).name, s.address, s.size>> : s \in ToSet(file.symbols)}
      obj == [entry |-> entry, sections |-> Aligned(sections), functions |-> {}, symbols |-> tables]
      located == LocateCtorsDtors(LocateExtab(LocateText(obj, targets)))
  IN  IF \/ \E symbol \in tables : SectionAt(sections, symbol[2]) = 0
         \/ \E s \in ToSet(found) : s.kind # "bss" /\ Len(s.data) # s.size \div 4
      THEN Failed
      ELSE [located EXCEPT !.symbols = @ \cup given]

FromTables(file, bss, init, entry, targets, memsets, tables) ==
  LET parts == BssSections(file, tables.bss.sizes, memsets)
      roms == IF file.entry < High THEN StagedSections(file, entry, tables.rom.sizes)
              ELSE FileSections(file, init, tables.rom.sizes)
  IN  IF tables.rom.bad \/ tables.bss.bad \/ BadBss(file, bss, tables.bss.sizes, parts) THEN Failed
      ELSE FromSections(file, entry, targets, roms \o parts,
                        TableSymbol("_rom_copy_info", tables.rom)
                        \cup TableSymbol("_bss_init_info", tables.bss))

(***************************************************************************)
(* process_dol.  What following the startup code finds is given: the       *)
(* targets of its branches, and the calls of memset that clear .bss.       *)
(***************************************************************************)
ProcessDol(file, targets, memsets) ==
  LET staged == file.entry < High
      roms == OfKind(file.sections, {"text", "data"})
      datas == OfKind(file.sections, {"data"})
      bsses == OfKind(file.sections, {"bss"})
      init == SectionAt(file.sections, IF staged THEN file.entry + High ELSE file.entry)
      main == file.sections[init]
      entry == Entry(file, main)
  IN  IF roms = <<>> \/ init = 0 \/ datas = <<>> \/ bsses = <<>> THEN Failed
      ELSE FromTables(file, bsses[1], init, entry, targets, memsets,
                      FindTables(file, IF staged THEN datas[1] ELSE main, bsses[1],
                                 roms[1].address, entry))
=============================================================================
