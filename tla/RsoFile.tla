------------------------------ MODULE RsoFile -------------------------------
(***************************************************************************)
(* RSO modules: how dtk rso make writes one of a relocatable ELF file      *)
(* (src/src/cmd/rso.rs), and how process_rso reads one                     *)
(* (src/src/util/rso.rs).                                                  *)
(*                                                                         *)
(* Unlike a REL module an RSO module is linked by name: it lists the       *)
(* symbols it needs and those others may use.  A file is a record of its   *)
(* header, section headers and tables; where the tables and the names in   *)
(* them are is left out.  A section header has the offset with the flag    *)
(* for code in its lowest bit.                                             *)
(***************************************************************************)
EXTENDS Integers, Sequences, FiniteSets, SequencesExt

CONSTANT Hash     \* the bytes of the hash of each name (symbol_hash)

Failed == [failed |-> TRUE]
Missing == <<0, 0>>
Nowhere == -1

RsoSectionNames == {".init", ".text", ".ctors", ".dtors", ".rodata", ".data", ".bss"}
HeaderSize == 88
SectionEntry == 8
RelocationEntry == 12

\* What a symbol has for a section that is in none: one of another file has 0.
Absolute == -1
SourceFile == -2
AbsoluteSection == 65521     \* DOL_SECTION_ABS

Padded(x, align) == IF align = 0 THEN x ELSE ((x + align - 1) \div align) * align

\* RsoSectionHeader
Offset(header) == header.offset - (header.offset % 2)
Exec(header) == header.offset % 2 = 1

-----------------------------------------------------------------------------
\* try_populate_symbol_index_and_offset: the first symbol of the name.
Known(elf, name) == {n \in DOMAIN elf.symbols : elf.symbols[n].name = name}

HeaderSymbol(elf, name) ==
  LET s == elf.symbols[Min(Known(elf, name))]
  IN  IF Known(elf, name) = {} THEN Missing ELSE <<s.section, s.address>>

\* The headers of the sections behind each other; those that a module does not have are empty.
PlaceSections(elf) ==
  LET place(acc, s) ==
        LET at == Padded(acc.end, s.align)
            add(offset, size, end) ==
              [headers |-> Append(acc.headers, [offset |-> offset, size |-> size]), end |-> end]
        IN  CASE s.name \notin RsoSectionNames \/ s.size = 0 -> add(0, 0, acc.end)
              [] s.size > 0 /\ s.name = ".bss" -> add(0, s.size, acc.end)
              [] OTHER -> add(at, s.size, at + s.size)
  IN  FoldLeft(place, [headers |-> <<>>, end |-> HeaderSize + SectionEntry * (Len(elf.sections) + 1)],
               elf.sections).headers

\* The symbols that are exported: those of the list that are not local, and the absolute ones.
Exports(elf, listed) ==
  LET wanted(n) ==
        LET s == elf.symbols[n]
        IN  s.name \in listed /\ (s.section = Absolute \/ (s.section > 0 /\ s.exported))
      export(n) ==
        LET s == elf.symbols[n]
        IN  [name |-> s.name, offset |-> s.address,
             section |-> IF s.section = Absolute THEN AbsoluteSection ELSE s.section]
      found == SelectSeq([n \in DOMAIN elf.symbols |-> n], wanted)
  IN  [k \in DOMAIN found |-> export(found[k])]

\* Every symbol of another file, used or not.
Imports(elf) ==
  SelectSeq([n \in DOMAIN elf.symbols |-> n],
            LAMBDA n : elf.symbols[n].name # "" /\ elf.symbols[n].section = 0)

\* The relocations of the sections a module may have, in their order.
Relocations(elf) ==
  FlattenSeq([i \in DOMAIN elf.sections |->
    IF elf.sections[i].name \notin RsoSectionNames THEN <<>>
    ELSE [n \in DOMAIN elf.sections[i].refs |->
           [section |-> i, ref |-> elf.sections[i].refs[n],
            symbol |-> elf.symbols[elf.sections[i].refs[n].symbol]]]])

Entry(headers, r, id, target) ==
  [offset |-> headers[r.section].offset + r.ref.at, id |-> id, kind |-> r.ref.kind, target |-> target]

\* Relocations to symbols of this file name a section, and where in it.
Internal(elf, headers) ==
  LET own == SelectSeq(Relocations(elf), LAMBDA r : r.symbol.section > 0)
  IN  [n \in DOMAIN own |-> Entry(headers, own[n], own[n].symbol.section,
                                  own[n].symbol.address + own[n].ref.addend)]

\* A sequence in the order of its elements' ranks, the highest first, equal ones as they were.
Descending(s, rank) ==
  LET before(i, j) == rank[j] < rank[i] \/ (rank[i] = rank[j] /\ i < j)
  IN  [n \in DOMAIN s |->
        s[CHOOSE k \in DOMAIN s : Cardinality({j \in DOMAIN s : before(j, k)}) = n - 1]]

\* Relocations to imports name the import alone.
ExternalInOrder(elf, headers) ==
  LET others == SelectSeq(Relocations(elf), LAMBDA r : r.symbol.section <= 0)
      id(r) == Min({k \in DOMAIN Imports(elf) : Imports(elf)[k] = r.ref.symbol}) - 1
  IN  [n \in DOMAIN others |-> Entry(headers, others[n], id(others[n]), 0)]

\* Those to one import follow each other.
External(elf, headers) ==
  LET entries == ExternalInOrder(elf, headers)
  IN  Descending(entries, [n \in DOMAIN entries |-> entries[n].id])

\* Where the relocations of an import begin.
FirstOf(external, id) ==
  LET there == {n \in DOMAIN external : external[n].id = id}
  IN  IF there = {} THEN Nowhere ELSE RelocationEntry * (Min(there) - 1)

\* A branch in the section of _unresolved goes there until the module is linked.
Unresolved(elf) ==
  LET to == HeaderSymbol(elf, "_unresolved")
      branches == {r \in ToSet(Relocations(elf)) : r.ref.kind = "rel24" /\ r.section = to[1]}
  IN  IF to[2] = 0 THEN {} ELSE {<<r.section, r.ref.at, to[2] - r.ref.at>> : r \in branches}

\* RsoSymbol::to_writer: the bytes of the hash in the order of the host.
HashAsWritten(name, host) == IF host = "big" THEN Hash[name] ELSE Reverse(Hash[name])

\* How many names have a smaller hash.
Rank(name) ==
  LET less(a, b) == \E i \in DOMAIN a : a[i] < b[i] /\ \A k \in 1..i - 1 : a[k] = b[k]
  IN  Cardinality({h \in {Hash[n] : n \in DOMAIN Hash} : less(h, Hash[name])})

\* The header is what was found, and the tables.
Written(elf, listed, host) ==
  LET headers == PlaceSections(elf)
      external == External(elf, headers)
      found == Exports(elf, listed)
      exports == Descending(found, [n \in DOMAIN found |-> Rank(found[n].name)])
      imports == Imports(elf)
      bss == SelectSeq(headers, LAMBDA h : h.offset = 0)
  IN  [prolog |-> HeaderSymbol(elf, "_prolog"), epilog |-> HeaderSymbol(elf, "_epilog"),
       unresolved |-> HeaderSymbol(elf, "_unresolved"),
       bss |-> FoldLeft(LAMBDA a, h : a + h.size, 0, bss),
       sections |-> <<[offset |-> 0, size |-> 0]>> \o headers,
       exports |-> [n \in DOMAIN exports |->
                     [symbol |-> exports[n], hash |-> HashAsWritten(exports[n].name, host)]],
       imports |-> [n \in DOMAIN imports |->
                     [name |-> elf.symbols[imports[n]].name, offset |-> elf.symbols[imports[n]].address,
                      first |-> FirstOf(external, n - 1)]],
       external |-> external, internal |-> Internal(elf, headers), branches |-> Unresolved(elf)]

\* make_rso: a symbol of the header that is in no section, or a relocation to a
\* symbol that is neither here nor an import, ends it.
MakeRso(elf, listed, host) ==
  LET special == UNION {Known(elf, name) : name \in {"_prolog", "_epilog", "_unresolved"}}
      first == {n \in special : \A k \in Known(elf, elf.symbols[n].name) : n <= k}
      targets == {r.ref.symbol : r \in {x \in ToSet(Relocations(elf)) : x.symbol.section <= 0}}
  IN  IF \/ \E n \in first : elf.symbols[n].section <= 0
         \/ ~(targets \subseteq ToSet(Imports(elf)))
      THEN Failed
      ELSE Written(elf, listed, host)

-----------------------------------------------------------------------------
\* process_rso: the sections that are not empty.
ReadSections(file) ==
  LET there == SelectSeq([i \in DOMAIN file.sections |-> i], LAMBDA i : file.sections[i].size > 0)
      kind(h) == IF Offset(h) = 0 THEN "bss" ELSE IF Exec(h) THEN "code" ELSE "data"
  IN  [n \in DOMAIN there |->
        [index |-> there[n] - 1, size |-> file.sections[there[n]].size,
         offset |-> Offset(file.sections[there[n]]), kind |-> kind(file.sections[there[n]])]]

\* The place of a section in the object, or what the file says if it has none.
SectionOf(sections, index) ==
  LET there == {n \in DOMAIN sections : sections[n].index = index}
  IN  IF there = {} THEN index ELSE Min(there) - 1

\* The functions of the header.
ReadSpecial(file, sections) ==
  LET all == << <<"_prolog", file.prolog>>, <<"_epilog", file.epilog>>, <<"_unresolved", file.unresolved>> >>
      there == SelectSeq(all, LAMBDA s : s[2][1] > 0)
  IN  [n \in DOMAIN there |->
        [name |-> there[n][1], section |-> SectionOf(sections, there[n][2][1]), address |-> there[n][2][2]]]

ReadExports(file, sections) ==
  [n \in DOMAIN file.exports |->
    LET s == file.exports[n].symbol
    IN  [name |-> s.name, section |-> SectionOf(sections, s.section), address |-> s.offset]]

ProcessRso(file) ==
  LET sections == ReadSections(file)
      bss == SelectSeq(sections, LAMBDA s : s.kind = "bss")
      indices == {0} \cup {sections[n].index : n \in DOMAIN sections}
  IN  IF \/ FoldLeft(LAMBDA a, s : a + s.size, 0, bss) # file.bss
         \/ \E at \in {file.prolog, file.epilog, file.unresolved} : at[1] \notin indices
         \/ \E e \in ToSet(file.exports) : e.hash # Hash[e.symbol.name]
      THEN Failed
      ELSE [sections |-> sections, symbols |-> ReadSpecial(file, sections) \o ReadExports(file, sections)]
=============================================================================
