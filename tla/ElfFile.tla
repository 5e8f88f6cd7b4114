------------------------------ MODULE ElfFile ------------------------------
(***************************************************************************)
(* An object as an ELF file, and back: write_elf and process_elf           *)
(* (src/src/util/elf.rs).                                                  *)
(*                                                                         *)
(* The entries of a symbol table are numbered from 1; 0 is the null        *)
(* symbol.  A section header index is the section's number, Undefined,     *)
(* Absolute or Common.  A relocation of the kind "half" patches the second *)
(* half of the word it is at.                                              *)
(***************************************************************************)
EXTENDS Integers, Sequences, FiniteSets, SequencesExt

Undefined == 0
Absolute == -1
Common == -2

\* Failure to write or to read.
NoFile == [name |-> "", symtab |-> <<>>, sections |-> <<>>, comments |-> <<>>, vaddrs |-> <<>>]

Word(addr) == (addr \div 4) * 4

\* ObjReloc::to_elf: where in its word a relocation is.
ElfOffset(reloc) ==
  CASE reloc.kind = "abs"  -> reloc.addr
    [] reloc.kind = "half" -> Word(reloc.addr) + 2
    [] OTHER -> Word(reloc.addr)

\* The bytes of a word that hold what a relocation of a kind fills in.
Field(kind) ==
  CASE kind \in {"abs", "rel24"} -> 0..3
    [] kind \in {"half", "rel14"} -> 2..3
    [] kind = "sda21" -> 1..3

(***************************************************************************)
(* write_relocatable_section_data: the word at each relocation loses its   *)
(* field, and two relocations less than a word apart make the copy panic.  *)
(***************************************************************************)
Cleared(section) ==
  UNION {{r.addr + b : b \in Field(r.kind)} : r \in section.relocs}

Overlapping(section) ==
  \/ \E q, r \in section.relocs : q.addr < r.addr /\ r.addr < q.addr + 4
  \/ \E r \in section.relocs : r.addr + 4 > section.size

SymbolType(kind) ==
  CASE kind = "label" -> "notype" [] kind = "section" -> "section" [] OTHER -> kind

Binding(sym) ==
  CASE sym.scope = "weak" -> "weak" [] sym.scope = "local" -> "local" [] OTHER -> "global"

\* Symbols, starting with local symbols; section symbols are not written again.
SymbolOrder(o) ==
  LET is == [i \in DOMAIN o.symbols |-> i]
      written(i) == o.symbols[i].kind # "section"
  IN  SelectSeq(is, LAMBDA i : written(i) /\ o.symbols[i].scope = "local")
        \o SelectSeq(is, LAMBDA i : written(i) /\ o.symbols[i].scope # "local")

ElfSymbol(sym) ==
  [type |-> SymbolType(sym.kind), bind |-> Binding(sym), name |-> sym.name,
   value |-> sym.addr, size |-> sym.size,
   shndx |-> CASE sym.section # 0 -> sym.section
               [] sym.section = 0 /\ sym.common -> Common
               [] sym.section = 0 /\ ~sym.common /\ sym.addr # 0 -> Absolute
               [] OTHER -> Undefined]

FileSymbol(o) ==
  [type |-> "file", bind |-> "local", name |-> <<o.unit>>, value |-> 0, size |-> 0, shndx |-> Absolute]

SectionSymbol(k) ==
  [type |-> "section", bind |-> "local", name |-> <<>>, value |-> 0, size |-> 0, shndx |-> k]

(***************************************************************************)
(* symbol_map: the number of a symbol in the file.  The file symbol and a  *)
(* symbol per section come first; the number a section symbol is given is  *)
(* one less than that of the symbol written for its section.               *)
(***************************************************************************)
SymbolMap(o) ==
  LET order == SymbolOrder(o)
  IN  [i \in DOMAIN o.symbols |->
         IF o.symbols[i].kind = "section" THEN o.symbols[i].section
         ELSE 1 + Len(o.sections) + (CHOOSE n \in DOMAIN order : order[n] = i)]

SymbolTable(o) ==
  LET order == SymbolOrder(o)
  IN  <<FileSymbol(o)>> \o [k \in DOMAIN o.sections |-> SectionSymbol(k)]
        \o [n \in DOMAIN order |-> ElfSymbol(o.symbols[order[n]])]

(***************************************************************************)
(* CommentSym::from (src/src/util/comment.rs): the alignment .comment has  *)
(* for a symbol is its own; one that has none gets the value of a common   *)
(* symbol, or what its kind asks for.                                      *)
(***************************************************************************)
CommentAlign(sym) ==
  CASE sym.align # 0 -> sym.align
    [] sym.align = 0 /\ sym.common -> sym.addr
    [] sym.align = 0 /\ ~sym.common /\ sym.kind = "function" -> 4
    [] sym.align = 0 /\ ~sym.common /\ sym.kind = "object" -> IF sym.addr % 4 = 0 THEN 4 ELSE 1
    [] sym.align = 0 /\ ~sym.common /\ sym.kind = "section" -> 8
    [] OTHER -> 0

\* (mutant) the comments keep the order of the object's symbols.
UnsortedComments(o) ==
  <<1>> \o [k \in DOMAIN o.sections |-> o.sections[k].align]
    \o [n \in DOMAIN SymbolOrder(o) |-> CommentAlign(o.symbols[n])]

\* The .comment section has an alignment for each symbol of the file.
Comments(o) ==
  LET order == SymbolOrder(o)
  IN  <<1>> \o [k \in DOMAIN o.sections |-> o.sections[k].align]
        \o [n \in DOMAIN order |-> CommentAlign(o.symbols[order[n]])]

\* The .note.split section has the address each symbol had in the original.
VirtualAddresses(o) ==
  LET order == SymbolOrder(o)
      addr(sym) == IF sym.section = 0 THEN 0 ELSE o.sections[sym.section].vaddr + sym.addr
  IN  <<0>> \o [k \in DOMAIN o.sections |-> o.sections[k].vaddr]
        \o [n \in DOMAIN order |-> addr(o.symbols[order[n]])]

ElfSection(o, k) ==
  LET s == o.sections[k]
  IN  [name |-> s.name, kind |-> s.kind, size |-> s.size, align |-> s.align,
       bytes |-> s.bytes \ Cleared(s),
       relas |-> {[offset |-> ElfOffset(r), kind |-> r.kind, addend |-> r.addend,
                   sym |-> SymbolMap(o)[r.target]] : r \in s.relocs}]

\* What is checked: "section symbol without section index", the length of data.
Writable(o) ==
  /\ \A i \in DOMAIN o.symbols : o.symbols[i].kind = "section" => o.symbols[i].section # 0
  /\ \A k \in DOMAIN o.sections :
       LET s == o.sections[k]
       IN  s.kind # "bss" => Cardinality(s.bytes) = s.size /\ ~Overlapping(s)

\* write_elf of a relocatable object; the metadata goes with the comments.
WriteElf(o) ==
  IF ~Writable(o) THEN NoFile
  ELSE [name |-> o.unit, symtab |-> SymbolTable(o),
        sections |-> [k \in DOMAIN o.sections |-> ElfSection(o, k)],
        comments |-> IF o.comment = 0 THEN <<>> ELSE Comments(o),
        vaddrs |-> IF o.comment = 0 THEN <<>> ELSE VirtualAddresses(o)]

----------------------------------------------------------------------------

\* Sections without bytes are left out; the rest keep their order.
SectionIndexes(f) ==
  [k \in DOMAIN f.sections |->
     IF f.sections[k].size = 0 THEN 0
     ELSE Cardinality({j \in 1..k : f.sections[j].size > 0})]

\* The entries that become symbols of the object.
Kept(f, n) ==
  /\ f.symtab[n].type # "file"
  /\ f.symtab[n].shndx > 0 => SectionIndexes(f)[f.symtab[n].shndx] # 0

SymbolIndex(f, n) == Cardinality({m \in 1..n : Kept(f, m)})

\* to_obj_symbol: a section symbol is named after its section, no kind of data is known.
ReadSymbol(f, n) ==
  LET s == f.symtab[n]
  IN  [name |-> IF s.type = "section" THEN <<f.sections[s.shndx].name>> ELSE s.name,
       addr |-> s.value, size |-> s.size, common |-> s.shndx = Common,
       section |-> IF s.shndx > 0 THEN SectionIndexes(f)[s.shndx] ELSE 0,
       kind |-> IF s.type = "notype" THEN "label" ELSE s.type,
       scope |-> s.bind, data |-> "unknown",
       align |-> IF f.comments = <<>> THEN 0 ELSE f.comments[n]]

\* to_obj_reloc: its target is an entry that became a symbol.
ReadReloc(f, r) ==
  [addr |-> r.offset, kind |-> r.kind, target |-> SymbolIndex(f, r.sym), addend |-> r.addend]

\* Where a section was in the original: only its section symbol says so.
VirtualAddress(f, k) ==
  LET is == {n \in DOMAIN f.symtab : f.symtab[n].type = "section" /\ f.symtab[n].shndx = k}
  IN  IF is = {} \/ f.vaddrs = <<>> THEN 0 ELSE f.vaddrs[CHOOSE n \in is : TRUE]

\* "Relocation against stripped symbol", and a section relocation's addend.
Readable(f) ==
  \A k \in DOMAIN f.sections : \A r \in f.sections[k].relas :
    /\ Kept(f, r.sym)
    /\ f.symtab[r.sym].type = "section" => r.addend >= 0

\* process_elf of a relocatable file.
ReadElf(f) ==
  LET syms == SelectSeq([n \in DOMAIN f.symtab |-> n], LAMBDA n : Kept(f, n))
      secs == SelectSeq([k \in DOMAIN f.sections |-> k], LAMBDA k : f.sections[k].size > 0)
  IN  [unit |-> f.name, comment |-> IF f.comments = <<>> THEN 0 ELSE 1,
       symbols |-> [i \in DOMAIN syms |-> ReadSymbol(f, syms[i])],
       sections |-> [i \in DOMAIN secs |->
         LET s == f.sections[secs[i]]
         IN  [name |-> s.name, kind |-> s.kind, size |-> s.size, align |-> s.align, bytes |-> s.bytes,
              vaddr |-> VirtualAddress(f, secs[i]),
              relocs |-> {ReadReloc(f, r) : r \in s.relas}]]]
=============================================================================
