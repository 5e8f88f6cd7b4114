--------------------------- MODULE MCModuleFiles ----------------------------
(***************************************************************************)
(* Small programs and groups of two modules for ModuleFiles.               *)
(***************************************************************************)
EXTENDS ModuleFiles

Base == High + 256

\* The sections of a program behind each other: name, kind, size and alignment.
Layout(parts) ==
  LET next(n) == FoldLeft(LAMBDA a, p : D!Align(a, p[4]) + p[3], Base, SubSeq(parts, 1, n - 1))
  IN  [n \in DOMAIN parts |->
        [name |-> parts[n][1], kind |-> parts[n][2], size |-> parts[n][3],
         address |-> D!Align(next(n), parts[n][4]), alloc |-> TRUE]]

Named(sections, name) ==
  LET there == {i \in DOMAIN sections : sections[i].name = name}
  IN  IF there = {} THEN 0 ELSE CHOOSE i \in there : TRUE

InitWords == 50
CodeWords(n) == [i \in 1..n |-> 7]

RomTable(sections) ==
  LET roms == SelectSeq(sections, LAMBDA s : s.kind # "bss")
  IN  FlattenSeq([n \in DOMAIN roms |-> <<roms[n].address, roms[n].address, roms[n].size>>])
      \o <<0, 0, 0>>

BssTable(sections) ==
  LET bss == SelectSeq(sections, LAMBDA s : s.kind = "bss")
  IN  FlattenSeq([n \in DOMAIN bss |-> <<bss[n].address, bss[n].size>>]) \o <<0, 0>>

\* The words of a section: .init ends with the tables, extabindex with _eti_init_info.
Contents(sections, i, tables, stray) ==
  LET s == sections[i]
      words == s.size \div 4
      text == sections[Named(sections, ".text")]
      extab == sections[Named(sections, "extab")]
      table == IF tables THEN RomTable(sections) \o BssTable(sections) ELSE <<>>
  IN  CASE s.name = ".init" ->
             CodeWords(words - Len(table) - 2) \o <<stray, 7>> \o table
        [] s.name = "extabindex" ->
             <<text.address, 8, extab.address, text.address + 8, 16, extab.address + 8,
               s.address, s.address + 24, text.address, text.size, 0, 0, 0, 0>>
        [] s.name \in {".ctors", ".dtors"} -> <<text.address, 0>>
        [] s.kind = "bss" -> <<>>
        [] OTHER -> CodeWords(words)

Filled(sections, tables, stray) ==
  [i \in DOMAIN sections |->
    [name |-> sections[i].name, kind |-> sections[i].kind, size |-> sections[i].size,
     address |-> sections[i].address, alloc |-> TRUE,
     data |-> Contents(sections, i, tables, stray)]]

Program(form, parts, tables, stray) ==
  LET sections == Filled(Layout(parts), tables, IF stray THEN Base + 4 ELSE 7)
      code == sections[Named(sections, ".text")]
      bss == SelectSeq(sections, LAMBDA s : s.kind = "bss")
      kind(k) == IF k = "code" THEN "text" ELSE k
      elf == [entry |-> Base + 4,
              sections |-> [i \in DOMAIN sections |-> [sections[i] EXCEPT !.kind = kind(@)]]]
      symbols == << [name |-> <<"main", 0>>, hashed |-> FALSE, kind |-> "function", section |-> 1,
                     address |-> Base, size |-> 8],
                    [name |-> <<"hash", 1>>, hashed |-> TRUE, kind |-> "function",
                     section |-> Named(sections, ".text"), address |-> code.address, size |-> 4],
                    [name |-> <<"hash", 2>>, hashed |-> TRUE, kind |-> "object",
                     section |-> Named(sections, ".data"),
                     address |-> sections[Named(sections, ".data")].address, size |-> 4] >>
  IN  [form |-> form, tables |-> tables, stray |-> stray, sections |-> sections, elf |-> elf,
       file |-> D!AlfFile(elf.sections, symbols, elf.entry), targets |-> {code.address + 4},
       arena |-> High * 2,
       memsets |-> IF tables THEN <<>>
                   ELSE [n \in DOMAIN bss |-> [address |-> bss[n].address, size |-> bss[n].size]]]

Init1 == <<".init", "code", 4 * InitWords, 32>>
Plain == << Init1, <<".text", "code", 40, 32>>, <<".ctors", "data", 8, 32>>, <<".dtors", "data", 8, 32>>,
            <<".data", "data", 12, 32>>, <<".bss", "bss", 24, 32>>, <<".sdata", "data", 8, 32>>,
            <<".sbss", "bss", 12, 8>> >>
WithExtab(extab) ==
  << Init1, <<"extab", "data", extab, 32>>, <<"extabindex", "data", 56, 32>>,
     <<".text", "code", 40, 32>>, <<".ctors", "data", 8, 32>>, <<".dtors", "data", 8, 32>>,
     <<".data", "data", 12, 32>>, <<".bss", "bss", 24, 32>>, <<".sbss", "bss", 12, 8>> >>

\* A BootStage: its own code, and one section with the whole program, which is entered
\* where it begins.
Staged ==
  LET program1 == Program("staged", Plain, TRUE, FALSE)
      low == High + 32
      roms == SelectSeq(program1.sections, LAMBDA s : s.kind # "bss")
      bss == SelectSeq(program1.sections, LAMBDA s : s.kind = "bss")
      whole == roms[Len(roms)].address + roms[Len(roms)].size - Base
      word(a) ==
        LET i == D!SectionAt(roms, a)
        IN  IF i = 0 THEN 0 ELSE roms[i].data[(a - roms[i].address) \div 4 + 1]
      body == [n \in 1..whole \div 4 |-> word(Base + 4 * (n - 1))]
  IN  [program1 EXCEPT
        !.file = [format |-> "dol", entry |-> low - High, symbols |-> <<>>,
                  words |-> <<7, 7, 7, 7, 7, 7, 7, Base>> \o body,
                  sections |-> << [kind |-> "text", address |-> low, size |-> 32, offset |-> 256],
                                  [kind |-> "data", address |-> Base, size |-> whole, offset |-> 288],
                                  [kind |-> "bss", address |-> bss[1].address, size |-> 12, offset |-> 0] >>]]

MCPrograms ==
  {Program("elf", Plain, TRUE, stray) : stray \in BOOLEAN}
  \cup {Program("elf", WithExtab(size), TRUE, FALSE) : size \in {16, 64}}
  \cup {Program("elf", Plain, FALSE, FALSE), Program("alf", Plain, TRUE, FALSE), Staged}

-----------------------------------------------------------------------------
Ref(at, kind, symbol, addend) == [at |-> at, kind |-> kind, symbol |-> symbol, addend |-> addend]
Sym(name, section, address, exported) ==
  [name |-> name, section |-> section, address |-> address, exported |-> exported]
Sec(name, size, align, refs) ==
  [name |-> name, size |-> size, align |-> align, exec |-> name = ".text", refs |-> refs]

\* The executable, as it is linked: f is in .init.
Plf == [sections |-> <<Sec(".init", 4 * InitWords, 4, <<>>)>>,
        symbols |-> <<Sym("f", 1, Base + 16, TRUE), Sym("g", 1, Base + 20, TRUE)>>]

\* A module: its own symbols, f of the executable, and one of the other module.
Module(own, other, a, ctors, bss, selfish) ==
  [sections |->
     << Sec(".text", 44, 4, <<Ref(4, "rel24", 1, 8), Ref(8, "rel24", 6, 0), Ref(14, "ha", 4, 4),
                              Ref(18, "lo", 4, 4), Ref(24, "rel14", 1, 40), Ref(40, "rel24", 7, 0)>>),
        Sec(".ctors", ctors, 4, IF ctors > 0 THEN <<Ref(0, "abs", 1, 0)>> ELSE <<>>),
        Sec(".rodata", 20, a, IF selfish THEN <<Ref(16, "abs", 5, 4), Ref(0, "abs", 6, 4)>> ELSE <<>>),
        Sec(".data", 36, a, <<Ref(32, "abs", 7, 4), Ref(0, "abs", 4, 8), Ref(4, "abs", 9, 0)>>),
        Sec(".bss", bss, 8, <<>>),
        Sec(".comment", 16, 1, <<Ref(0, "abs", 1, 0)>>),
        Sec(".shstrtab", 8, 1, <<>>) >>,
   symbols |->
     << Sym("_prolog", 1, 0, TRUE), Sym("_epilog", 1, 8, TRUE), Sym("_unresolved", 1, 16, TRUE),
        Sym("data", 4, 4, FALSE), Sym("bss", IF bss > 0 THEN 5 ELSE 3, 0, FALSE),
        Sym("f", 0, 0, FALSE), Sym(other, 0, 0, FALSE), Sym(own, 4, 12, TRUE), 
        Sym("g", IF own = "x" THEN 1 ELSE 0, 4, own = "x"),
        Sym("hw", S!Absolute, 8, TRUE), Sym("file.c", S!SourceFile, 0, FALSE) >>]

Info(id, version, align) ==
  [module |-> id, version |-> version, name |-> <<100, 8>>, align |-> align,
   bssAlign |-> R!Unset, count |-> R!Unset, sectionAlign |-> <<>>, sectionExec |-> <<>>]

Group(ids, version, align, a, ctors, bss, selfish) ==
  [stray |-> "",
   elfs |-> <<Plf, Module("x", "y", a, ctors, bss, selfish), Module("y", "x", 4, 8, 16, TRUE)>>,
   ids |-> <<0>> \o ids,
   infos |-> <<Info(0, 0, 0), Info(ids[1], version, align), Info(ids[2], version, R!Unset)>>]

MCGroups ==
  {Group(ids, version, align, a, ctors, bss, selfish) :
     ids \in {<<1, 2>>, <<5, 3>>}, version \in 1..3, align \in {R!Unset, 32}, a \in {4, 8, 16},
     ctors \in {0, 8}, bss \in {0, 16}, selfish \in BOOLEAN}

\* A reference to an absolute symbol or to none, and two relocations in a word.
Misled ==
  LET g == Group(<<5, 3>>, 3, R!Unset, 8, 8, 16, TRUE)
  IN  {[g EXCEPT !.stray = name] : name \in {"hw", "lost"}}
      \cup {[g EXCEPT !.elfs[2].sections[1].refs[4].at = 12]}

\* Every program with one group, and every group with one program.
MCProjects ==
  {[program |-> p, group |-> Group(<<5, 3>>, 3, R!Unset, 8, 8, 16, TRUE)] : p \in MCPrograms}
  \cup {[program |-> Program("elf", Plain, TRUE, FALSE), group |-> g] : g \in MCGroups \cup Misled}

\* What an RSO module exports; x and hw have one hash.
MCExportLists == {{}, {"x", "y", "g", "hw", "_prolog", "data"}}
MCHash ==
  [name \in {"_prolog", "_epilog", "_unresolved", "data", "bss", "f", "g", "x", "y", "hw", "file.c"} |->
    CASE name \in {"x", "hw"} -> <<1, 2>> [] name = "_prolog" -> <<2, 1>> [] name = "g" -> <<1, 3>>
      [] OTHER -> <<0, 4>>]
=============================================================================
