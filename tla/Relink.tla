------------------------------- MODULE Relink -------------------------------
(***************************************************************************)
(* From an object to the files the linker is given: split_obj, then        *)
(* write_elf for each unit (src/src/cmd/dol.rs:1085-1114), and process_elf *)
(* on the files, as elf and extab commands do with them.                   *)
(***************************************************************************)
EXTENDS SplitObject, ElfFile, AsmFile

VARIABLES
  files,     \* one per unit
  copies,    \* what process_elf makes of them
  texts      \* the assembly of each unit

relinkVars == <<obj, sect, at, next, objects, placed, renames, phase, files, copies, texts>>

RelinkInit == SplitInit /\ files = <<>> /\ copies = <<>> /\ texts = <<>>

Split == SplitNext /\ UNCHANGED <<files, copies, texts>>

\* for (unit, split_obj) in link_order: write_elf(split_obj).
WriteFiles ==
  /\ phase = "split"
  /\ files' = [u \in DOMAIN objects |-> WriteElf(objects[u])]
  /\ phase' = IF \E u \in DOMAIN objects : files'[u] = NoFile THEN "failed" ELSE "written"
  /\ UNCHANGED <<obj, sect, at, next, objects, placed, renames, copies, texts>>

ReadFiles ==
  /\ phase = "written"
  /\ IF \A u \in DOMAIN files : Readable(files[u])
     THEN /\ copies' = [u \in DOMAIN files |-> ReadElf(files[u])]
          /\ phase' = "read"
     ELSE phase' = "failed" /\ UNCHANGED copies
  /\ UNCHANGED <<obj, sect, at, next, objects, placed, renames, files, texts>>

\* With write_asm set: write_asm(split_obj)? (src/src/cmd/dol.rs:1223-1240).
WriteTexts ==
  /\ phase = "read"
  /\ texts' = [u \in DOMAIN objects |-> WriteAsm(objects[u])]
  /\ phase' = IF \E u \in DOMAIN objects : \E k \in DOMAIN texts'[u] : texts'[u][k] = AsmError
              THEN "failed" ELSE "done"
  /\ UNCHANGED <<obj, sect, at, next, objects, placed, renames, files, copies>>

RelinkNext == Split \/ WriteFiles \/ ReadFiles \/ WriteTexts

RelinkSpec == RelinkInit /\ [][RelinkNext]_relinkVars

----------------------------------------------------------------------------

\* The splits whose data goes into a unit.
Emitted(k) ==
  {p \in Range(SplitsOf(obj, k)) : ~p.skip /\ ~p.common}

Homed(i) ==
  LET sym == obj.symbols[i]
  IN  /\ sym.section # None
      /\ \E p \in Emitted(sym.section) : p.addr <= sym.addr /\ sym.addr < p.end

\* The symbols of a file's table with a place in the original, as the linker has them.
PlaceOf(u, n) ==
  LET s == files[u].symtab[n]
  IN  objects[u].sections[s.shndx].vaddr + s.value

Definitions(name) ==
  {<<u, n>> \in UNION {{u} \X DOMAIN files[u].symtab : u \in DOMAIN files} :
     LET s == files[u].symtab[n] IN s.name = name /\ s.shndx > 0 /\ s.bind # "local"}

\* What the linker puts in: the symbol itself, or the only one of its name.
ResolvesTo(u, n, addr) ==
  LET s == files[u].symtab[n]
  IN  \/ s.shndx > 0 /\ PlaceOf(u, n) = addr
      \/ /\ s.shndx = Undefined
         /\ \E d \in Definitions(s.name) :
              Definitions(s.name) = {d} /\ PlaceOf(d[1], d[2]) = addr

(***************************************************************************)
(* Whether a reference can be kept: to a symbol some unit has and the      *)
(* linker sees.  Left out are the labels the linker makes, a local that is *)
(* left alone, and the symbol of a section: write_elf gives a relocation   *)
(* to one the number of the entry in front (see SymbolMap), so that it     *)
(* names another section's symbol, or the file's.                          *)
(***************************************************************************)
Linkable(u, r) ==
  LET sym == obj.symbols[r.target]
  IN  /\ Homed(r.target)
      /\ sym.kind # "section"
      /\ sym.name[1] \notin LinkerLabels \cup {TableEnd}
      /\ obj.globalize \/ sym.scope # "local"

(***************************************************************************)
(* Linking the files gives the references of the original: each of its     *)
(* relocations is in the file of its unit, and what the linker resolves a  *)
(* Linkable one to, by name across units, is at the address of the         *)
(* original target.                                                        *)
(* Locals of one name in several units, the renaming of those that others  *)
(* refer to, and the reordering of the symbol table must not mix them up.  *)
(***************************************************************************)
ReferencesResolve ==
  phase \in {"written", "read", "done"} =>
    \A k \in DOMAIN obj.sections : \A p \in Emitted(k) : \A r \in obj.sections[k].relocs :
      p.addr <= r.addr /\ r.addr < p.end =>
        \E u \in UnitOf(p) : \E j \in DOMAIN files[u].sections :
          /\ objects[u].sections[j].vaddr = p.addr
          /\ \E q \in files[u].sections[j].relas :
               /\ q.offset + p.addr = ElfOffset(r) /\ q.kind = r.kind
               /\ Linkable(u, r) => ResolvesTo(u, q.sym, obj.symbols[r.target].addr)

(***************************************************************************)
(* Every byte and every symbol of the splits goes into exactly one unit:   *)
(* neighbours share an address, at which the symbol belongs to the split   *)
(* that starts there.                                                      *)
(***************************************************************************)
EverythingOnce ==
  phase \in {"split", "written", "read", "done"} =>
    /\ \A i \in DOMAIN obj.symbols :
         Homed(i) /\ obj.symbols[i].name[1] \notin LinkerLabels \cup {TableEnd} =>
           Cardinality({u \in DOMAIN objects :
             i \in DOMAIN placed[u] /\ objects[u].symbols[placed[u][i]].section # None}) = 1
    /\ \A k \in DOMAIN obj.sections : \A p \in Emitted(k) :
         \A a \in Backed(obj.sections[k], p.addr, p.end) \cap obj.sections[k].nonzero :
           Cardinality({uj \in UNION {{u} \X DOMAIN objects[u].sections : u \in DOMAIN objects} :
             LET s == objects[uj[1]].sections[uj[2]] IN a - s.vaddr \in s.bytes}) = 1

Plain(sym) ==
  [name |-> sym.name, section |-> sym.section, addr |-> sym.addr, size |-> sym.size,
   common |-> sym.common, kind |-> sym.kind, align |-> sym.align, local |-> sym.scope = "local"]

(***************************************************************************)
(* process_elf reads what write_elf wrote: the same symbols, in sections   *)
(* that know their address in the original.  With a .comment section each  *)
(* symbol has its own alignment again; one that had none has now what      *)
(* CommentAlign gives a symbol like it.                                    *)
(***************************************************************************)
ReadBackSame ==
  phase \in {"read", "done"} =>
    \A u \in DOMAIN objects :
      LET plain == {Plain(s) : s \in {t \in Range(objects[u].symbols) : t.kind # "section"}}
          back == {Plain(s) : s \in {t \in Range(copies[u].symbols) : t.kind # "section"}}
      IN  /\ Len(copies[u].sections) = Len(objects[u].sections)
          /\ {[s EXCEPT !.align = None] : s \in back} = {[s EXCEPT !.align = None] : s \in plain}
          /\ objects[u].comment # 0 => back = {[s EXCEPT !.align = CommentAlign(s)] : s \in plain}
          /\ \A j \in DOMAIN objects[u].sections :
               objects[u].comment # 0 => copies[u].sections[j].vaddr = objects[u].sections[j].vaddr
\* What a symbol's line says, where the assembler is by then.
Marked(text, line, i, addr) ==
  \E n \in DOMAIN text : text[n].line = line /\ text[n].of = i /\ Position(text, n) = addr

(***************************************************************************)
(* Where write_asm has no reason to fail: code is functions and labels at  *)
(* words; the relocations of data are addresses, a word each, that no      *)
(* symbol starts or ends in; symbols at one address agree; and a string    *)
(* that must be terminated is, and is all by itself.                       *)
(***************************************************************************)
Assemblable(o, k) ==
  LET s == o.sections[k]
      syms == {o.symbols[i] : i \in {j \in DOMAIN o.symbols : o.symbols[j].section = k}}
      stops == {e.addr : e \in Entries(o, k)} \cup {r.addr : r \in s.relocs}
      strict == {t \in syms : t.data \in Sjis \cup Wide}
  IN  \/ s.kind = "bss"
      \/ /\ \A t \in syms : t.kind \in {"label", "section", IF s.kind = "code" THEN "function" ELSE "object"}
         /\ \A t, v \in syms : t.addr = v.addr => t.data = v.data
         /\ s.kind = "code" => \A a \in stops : a % 4 = 0
         /\ s.kind # "code" =>
              /\ \A r \in s.relocs : r.kind = "abs" /\ r.addr + 4 <= s.size
                                    /\ stops \cap r.addr + 1..r.addr + 3 = {}
              /\ \A t \in strict : /\ stops \cap t.addr + 1..t.addr + t.size - 1 = {}
                                   /\ t.size > 0 /\ ~\E r \in s.relocs : r.addr = t.addr
                                   /\ ~Unterminated(s, t.data, t.addr, t.addr + t.size)
              /\ strict # {} => TableLabels(o, k) = {}

(***************************************************************************)
(* The assembler gets the sections back from the text: as many bytes, with *)
(* each symbol where it was, ended where it ends, and each relocation of   *)
(* data at its word; and there is a text wherever write_asm has no reason  *)
(* to fail.                                                                *)
(***************************************************************************)
AssemblySame ==
  \A u \in DOMAIN texts : \A k \in DOMAIN objects[u].sections :
    LET s == objects[u].sections[k]
        text == texts[u][k]
        syms == {i \in DOMAIN objects[u].symbols : objects[u].symbols[i].section = k}
    IN  \/ text = AsmError /\ ~Assemblable(objects[u], k)
        \/ /\ Position(text, Len(text) + 1) = s.size
           /\ \A i \in syms :
                LET sym == objects[u].symbols[i]
                IN  sym.kind # "section" /\ sym.addr < s.size =>
                      /\ Marked(text, "start", i, sym.addr)
                      /\ sym.size > 0 => Marked(text, "end", i, sym.addr + sym.size)
           /\ \A r \in s.relocs : r.kind = "abs" => Marked(text, "reloc", 0, r.addr)

(***************************************************************************)
(* Both forms an object is written in, ELF and assembly, describe the      *)
(* object that split_obj made.                                             *)
(***************************************************************************)
WrittenSame == ReadBackSame /\ AssemblySame
=============================================================================
