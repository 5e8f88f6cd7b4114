---------------------------- MODULE ModuleFiles -----------------------------
(***************************************************************************)
(* An executable and its modules as files: dtk elf2dol, the reading of     *)
(* what it wrote, dtk rel make with and without the original modules, dtk  *)
(* rel merge (src/src/cmd/rel.rs), and dtk rso make (src/src/cmd/rso.rs)   *)
(* of the same ELF files.                                                  *)
(*                                                                         *)
(* A program is an ELF file, or the ALF or BootStage file it comes as, and *)
(* what following its startup code finds.  A group is the modules of a     *)
(* game: the ELF files, the first of them that of the executable, their    *)
(* IDs, what their original linker was told, and the name that what they   *)
(* lack may have when they are built again.  A reference of a section is   *)
(* at an address, of a kind, and to a symbol of its file plus an addend.   *)
(* The section of an undefined symbol is 0, that of an absolute one is     *)
(* below.                                                                  *)
(***************************************************************************)
EXTENDS Integers, Sequences, FiniteSets, SequencesExt

CONSTANTS
  Projects,     \* the programs that are considered, each with a group of modules
  BuiltAligns,  \* the alignments that sections may have when they are built again
  ExportLists,  \* the lists of symbols an RSO module exports
  Hash,         \* the bytes of the hash of each name
  MaxOffset, Reach24, Reach14, High, MaxText, MaxData

ASSUME FilesAssumption ==
  /\ MaxOffset \in Nat \ {0} /\ Reach24 \in Nat /\ Reach14 \in 0..Reach24
  /\ High \in Nat \ {0} /\ MaxText \in Nat \ {0} /\ MaxData \in Nat \ {0}

VARIABLES
  program, group,
  stage,        \* what is done next
  dol, exe,     \* the file of the executable, and the object read from it
  converted,    \* the file has been written again
  originals,    \* the original modules
  extracted,    \* what was read of them: their sections and the alignments found
  built,        \* the ELF files of the modules as they are built again
  relocs,       \* their relocations
  rels,         \* the modules that were made again, in the order of the group
  image,        \* the merged executable
  rso           \* the modules as RSO files, what they were to export, and the host

vars == <<program, group, stage, dol, exe, converted, originals, extracted, built, relocs, rels, image, rso>>

R == INSTANCE RelFile
D == INSTANCE DolFile
S == INSTANCE RsoFile

None == [none |-> TRUE]

Modules == 2..Len(group.elfs)
HasFailed(x) == "failed" \in DOMAIN x

-----------------------------------------------------------------------------
\* make: the first symbol of a name that is seen from outside, an absolute one too.
Exported(elfs, name) ==
  {<<m, n>> \in UNION {{m} \X DOMAIN elfs[m].symbols : m \in DOMAIN elfs} :
     LET s == elfs[m].symbols[n] IN s.name = name /\ s.section # 0 /\ s.exported}

\* (mutant) the last module wins.
FirstOfLast(places) ==
  CHOOSE p \in places : \A q \in places : p[1] > q[1] \/ (p[1] = q[1] /\ p[2] <= q[2])

FirstOf(places) ==
  CHOOSE p \in places : \A q \in places : p[1] < q[1] \/ (p[1] = q[1] /\ p[2] <= q[2])

\* The module and the number of the symbol that a reference is to.
TargetOf(elfs, m, ref) ==
  LET own == elfs[m].symbols[ref.symbol]
  IN  IF own.section # 0 THEN <<m, ref.symbol>> ELSE FirstOf(Exported(elfs, own.name))

\* "Failed to find symbol in any module", and a panic when it is absolute.
Resolvable(elfs, m, ref) ==
  LET own == elfs[m].symbols[ref.symbol]
      to == TargetOf(elfs, m, ref)
  IN  /\ own.section # 0 \/ Exported(elfs, own.name) # {}
      /\ elfs[to[1]].symbols[to[2]].section > 0

Refs(elf) ==
  FlattenSeq([i \in DOMAIN elf.sections |->
    IF elf.sections[i].name \notin R!Permitted THEN <<>>
    ELSE [n \in DOMAIN elf.sections[i].refs |->
           LET ref == elf.sections[i].refs[n]
           IN  [section |-> i, at |-> ref.at, kind |-> ref.kind, symbol |-> ref.symbol,
                addend |-> ref.addend]]])

\* resolve_relocations
Resolve(elfs, ids, m) ==
  LET refs == Refs(elfs[m])
      resolve(ref) ==
        LET to == TargetOf(elfs, m, ref)
            symbol == elfs[to[1]].symbols[to[2]]
        IN  [kind |-> ref.kind, section |-> ref.section, address |-> ref.at, module |-> ids[to[1]],
             target |-> symbol.section, addend |-> symbol.address + ref.addend]
  IN  [n \in DOMAIN refs |-> resolve(refs[n])]

AllResolvable(elfs) ==
  \A m \in DOMAIN elfs \ {1} : \A ref \in ToSet(Refs(elfs[m])) : Resolvable(elfs, m, ref)

\* What a module is made like: the original one, and the alignments in its splits file.
LikeOriginal(original, aligns) ==
  LET h == original.header
  IN  [module |-> h.module, version |-> h.version, name |-> h.name, align |-> h.align,
       bssAlign |-> h.bssAlign, count |-> h.count, sectionAlign |-> aligns,
       sectionExec |-> [i \in DOMAIN original.sections |-> original.sections[i].exec]]

-----------------------------------------------------------------------------
\* merge: where each section of a module comes to, behind the executable.
Align32(x) == ((x + 31) \div 32) * 32

\* The sections of all modules in the order of the modules' IDs.
MergedSections(objs) ==
  LET ids == {objs[m].module : m \in DOMAIN objs}
      order == [n \in 1..Cardinality(ids) |->
                 CHOOSE m \in DOMAIN objs : Cardinality({i \in ids : i < objs[m].module}) = n - 1]
  IN  FlattenSeq([n \in DOMAIN order |->
        [i \in DOMAIN objs[order[n]].sections |->
          [module |-> objs[order[n]].module, section |-> objs[order[n]].sections[i].index,
           kind |-> objs[order[n]].sections[i].kind, size |-> objs[order[n]].sections[i].size]]])

Advance(address, size) == address + Align32(size)

Place(objs, arena) ==
  LET sections == MergedSections(objs)
      address(n) == FoldLeft(LAMBDA a, s : Advance(a, s.size), Align32(arena), SubSeq(sections, 1, n - 1))
  IN  [n \in DOMAIN sections |->
        [module |-> sections[n].module, section |-> sections[n].section, kind |-> sections[n].kind,
         size |-> sections[n].size, address |-> address(n)]]

BaseOf(sections, module, section) ==
  LET there == {n \in DOMAIN sections : sections[n].module = module /\ sections[n].section = section}
  IN  IF there = {} THEN D!Unset ELSE sections[Min(there)].address

Moved(sections, module, r) ==
  LET base == BaseOf(sections, module, r.section)
      at == base + r.address
      to == BaseOf(sections, r.module, r.target)
  IN  [kind |-> r.kind, at |-> at - (at % 4), known |-> base # D!Unset,
       target |-> IF r.module = 0 THEN r.addend ELSE IF to = D!Unset THEN D!Unset ELSE to + r.addend]

\* The merged relocations; a target in no section, or two in one word, end the merge.
MergeImage(exeSections, objs, arena) ==
  LET sections == Place(objs, arena)
      all == {[address |-> s.address, size |-> s.size] :
                s \in ToSet(sections) \cup {[address |-> x.address, size |-> x.size] : x \in ToSet(exeSections)}}
      places == UNION {{m} \X DOMAIN objs[m].relocs : m \in DOMAIN objs}
      at(p) == Moved(sections, objs[p[1]].module, objs[p[1]].relocs[p[2]])
      moved == {at(p) : p \in places}
      inside(a) == \E s \in all : D!Holds(s, a)
  IN  IF \/ \E r \in moved : ~r.known \/ ~inside(r.at) \/ ~inside(r.target)
         \/ Cardinality({r.at : r \in moved}) < Cardinality(places)
      THEN D!Failed
      ELSE [sections |-> sections, relocs |-> moved, words |-> {}]

\* link_relocations: what each word says then; a branch says how far it goes.
Linked(img) ==
  LET distance(r) == r.target - r.at
      word(r) == <<r.at, r.kind, IF r.kind \in R!Branches THEN distance(r) ELSE r.target>>
  IN  IF \E r \in img.relocs : r.kind \in R!Branches /\ ~R!InReach(r.kind, distance(r)) THEN D!Failed
      ELSE [img EXCEPT !.words = {word(r) : r \in img.relocs}]

-----------------------------------------------------------------------------
Init ==
  /\ \E p \in Projects : program = p.program /\ group = p.group
  /\ stage = "start" /\ dol = None /\ exe = None /\ converted = FALSE
  /\ originals = <<>> /\ extracted = <<>> /\ built = <<>> /\ relocs = <<>> /\ rels = <<>>
  /\ image = None /\ rso = None

MakeDol ==
  /\ stage = "start"
  /\ dol' = IF program.form = "elf" THEN D!Elf2Dol(program.elf, {}) ELSE program.file
  /\ stage' = IF HasFailed(dol') THEN "failed" ELSE "dol"
  /\ UNCHANGED <<program, group, exe, converted, originals, extracted, built, relocs, rels, image, rso>>

ReadDol ==
  /\ stage = "dol"
  /\ exe' = D!ProcessDol(dol, program.targets, program.memsets)
  /\ stage' = IF HasFailed(exe') THEN "failed" ELSE "read"
  /\ UNCHANGED <<program, group, dol, converted, originals, extracted, built, relocs, rels, image, rso>>

\* convert_dol_like, and dtk extab clean: the object is written again.
ConvertDol ==
  /\ stage = "read" /\ ~converted
  /\ dol' = D!WriteDol(exe)
  /\ converted' = TRUE
  /\ stage' = IF HasFailed(dol') THEN "failed" ELSE "dol"
  /\ UNCHANGED <<program, group, exe, originals, extracted, built, relocs, rels, image, rso>>

\* The modules as the game has them.
LinkOriginals ==
  /\ stage = "read"
  /\ originals' = [m \in Modules |->
       R!WriteRel(group.elfs[m], group.infos[m], Resolve(group.elfs, group.ids, m))]
  /\ stage' = IF \E m \in Modules : HasFailed(originals'[m]) THEN "failed" ELSE "extract"
  /\ UNCHANGED <<program, group, dol, exe, converted, extracted, built, relocs, rels, image, rso>>

\* load_analyze_rel: any module may be the next.
ExtractModule ==
  /\ stage = "extract"
  /\ \E m \in Modules \ DOMAIN extracted :
       LET obj == R!ProcessRel(originals[m])
           known == [i \in DOMAIN group.elfs[m].sections |-> group.elfs[m].sections[i].name]
           found == R!UpdateSectionAlignment(originals[m].header, obj.sections, known)
           failed == HasFailed(obj) \/ HasFailed(found)
       IN  /\ extracted' = [k \in DOMAIN extracted \cup {m} |->
                              IF k # m THEN extracted[k]
                              ELSE IF failed THEN R!Failed
                              ELSE [sections |-> obj.sections, relocs |-> obj.relocs,
                                    aligns |-> found.align]]
           /\ stage' = IF failed THEN "failed"
                       ELSE IF DOMAIN extracted' = Modules THEN "make" ELSE stage
  /\ UNCHANGED <<program, group, dol, exe, converted, originals, built, relocs, rels, image, rso>>

(***************************************************************************)
(* The modules are built again.  Their sections may be aligned in another  *)
(* way, and what they lack may be called what no module has, or what is    *)
(* no place in one.                                                        *)
(***************************************************************************)
Make ==
  /\ stage = "make"
  /\ \E align \in BuiltAligns :
       built' = [m \in DOMAIN group.elfs |->
         [group.elfs[m] EXCEPT
            !.sections = [i \in DOMAIN @ |-> [@[i] EXCEPT !.align = align]],
            !.symbols = [n \in DOMAIN @ |->
              IF @[n].section = 0 /\ group.stray # "" THEN [@[n] EXCEPT !.name = group.stray] ELSE @[n]]]]
  /\ IF AllResolvable(built')
     THEN relocs' = [m \in Modules |-> Resolve(built', group.ids, m)] /\ stage' = "write"
     ELSE relocs' = relocs /\ stage' = "failed"
  /\ UNCHANGED <<program, group, dol, exe, converted, originals, extracted, rels, image, rso>>

\* The modules are written in their order; the first that fails ends it.
WriteModule ==
  /\ stage = "write"
  /\ LET m == Len(rels) + 2
         file == R!WriteRel(built[m], LikeOriginal(originals[m], extracted[m].aligns), relocs[m])
     IN  /\ rels' = Append(rels, file)
         /\ stage' = IF HasFailed(file) THEN "failed" ELSE IF Len(rels') = Cardinality(Modules) THEN "merge" ELSE stage
  /\ UNCHANGED <<program, group, dol, exe, converted, originals, extracted, built, relocs, image, rso>>

Merge ==
  /\ stage = "merge"
  /\ LET objs == [n \in DOMAIN rels |-> R!ProcessRel(rels[n])]
     IN  image' = IF \E n \in DOMAIN objs : HasFailed(objs[n]) THEN D!Failed
                  ELSE MergeImage(exe.sections, objs, program.arena)
  /\ stage' = IF HasFailed(image') THEN "failed" ELSE "link"
  /\ UNCHANGED <<program, group, dol, exe, converted, originals, extracted, built, relocs, rels, rso>>

LinkImage ==
  /\ stage = "link"
  /\ image' = Linked(image)
  /\ stage' = IF HasFailed(image') THEN "failed" ELSE "done"
  /\ UNCHANGED <<program, group, dol, exe, converted, originals, extracted, built, relocs, rels, rso>>

\* make_rso of each module, on a host of either byte order.
MakeRso ==
  /\ stage = "start"
  /\ \E listed \in ExportLists, host \in {"big", "little"} :
       rso' = [listed |-> listed, host |-> host,
               files |-> [m \in Modules |-> S!MakeRso(group.elfs[m], listed, host)]]
  /\ stage' = IF \E m \in Modules : HasFailed(rso'.files[m]) THEN "failed" ELSE "rso"
  /\ UNCHANGED <<program, group, dol, exe, converted, originals, extracted, built, relocs, rels, image>>

Next ==
  \/ MakeRso
  \/ MakeDol \/ ReadDol \/ ConvertDol
  \/ LinkOriginals \/ ExtractModule \/ Make \/ WriteModule
  \/ Merge \/ LinkImage

Spec == Init /\ [][Next]_vars

-----------------------------------------------------------------------------
(***************************************************************************)
(* What process_dol finds is the program: its sections and no others,      *)
(* where they are, as long as they are and with what is in them, and those *)
(* it claims to know by their own names; and writing the object to a file  *)
(* and reading that changes nothing.  It fails only where a stray word     *)
(* looks like a table.  Without tables the sizes are those of the file     *)
(* (src/src/util/dol.rs).                                                  *)
(***************************************************************************)
SectionsOfProgram ==
  LET size(s) == IF program.tables \/ s.kind = "bss" THEN s.size ELSE D!Align(s.size, 32)
      class(s) == IF s.kind = "rodata" THEN "data" ELSE s.kind
      padded(s) == s.data \o [n \in 1..(size(s) - s.size) \div 4 |-> 0]
      data(s) == IF s.kind = "bss" THEN <<>> ELSE padded(s)
      found == {<<s.address, s.size, class(s), s.data>> : s \in ToSet(exe.sections)}
      true == {<<s.address, size(s), class(s), data(s)>> : s \in ToSet(program.sections)}
      knownAs(t) == \E s \in ToSet(exe.sections) : s.known /\ s.address = t.address /\ s.name = t.name
  IN  /\ found = true /\ Len(exe.sections) = Len(program.sections)
      /\ \A s \in ToSet(exe.sections) : s.known =>
           \E t \in ToSet(program.sections) : t.address = s.address /\ t.name = s.name
      /\ \A t \in ToSet(program.sections) :
           t.name \in {".init", ".text", ".ctors", ".dtors"} /\ program.tables => knownAs(t)

SectionsFound ==
  exe = None \/ stage = "dol"
    \/ IF HasFailed(exe) THEN program.stray ELSE SectionsOfProgram

(***************************************************************************)
(* Every reference of a module reaches what it is to: the file has a       *)
(* relocation for it that says where the symbol is, or the branch itself   *)
(* does; there are no others; and when the modules are merged, each word   *)
(* refers to where that symbol came to.  What the game no longer needs     *)
(* once a module is linked, and nothing else, is behind fix_size           *)
(* (src/src/cmd/rel.rs, src/src/util/rel.rs).  An RSO module says the same *)
(* by name, but for what is added to a symbol of another module, which its *)
(* relocations have no place for; and it is read back as it was, unless it *)
(* exports anything and was made on a little-endian host                   *)
(* (src/src/cmd/rso.rs, src/src/util/rso.rs).                              *)
(***************************************************************************)
\* The places that a reference may be to, as the language has it.
Definitions(m, ref) ==
  LET own == group.elfs[m].symbols[ref.symbol]
      named == {<<k, n>> \in Exported(group.elfs, own.name) :
                  \A p \in Exported(group.elfs, own.name) : k <= p[1]}
  IN  IF own.section > 0 THEN {<<m, ref.symbol>>} ELSE named

PlaceOf(definition, ref) ==
  LET s == group.elfs[definition[1]].symbols[definition[2]]
  IN  [module |-> group.ids[definition[1]], section |-> s.section, at |-> s.address + ref.addend]

Word(address) == address - (address % 4)

\* The branch goes there whatever the module is linked to.
BranchSays(file, ref, place) ==
  \E b \in file.branches :
    b[1] = ref.section /\ b[2] = ref.at /\ b[3] # <<>> /\ ref.at + b[3][1] = place.at

RelocationSays(relocations, ref, place) ==
  \E r \in relocations :
    /\ r.section = ref.section /\ r.address = Word(ref.at) /\ r.kind = ref.kind
    /\ r.module = place.module /\ r.target = place.section /\ r.addend = place.at

Near(m, ref, place) ==
  ref.kind \in R!Branches /\ place.module = group.ids[m] /\ place.section = ref.section

FileSaysAll(m, file) ==
  LET read == R!ProcessRel(file)
      refs == Refs(group.elfs[m])
      far == {n \in DOMAIN refs :
                \E d \in Definitions(m, refs[n]) : ~Near(m, refs[n], PlaceOf(d, refs[n]))}
  IN  /\ ~HasFailed(read)
      /\ Len(read.relocs) = Cardinality(far)
      /\ \A n \in DOMAIN refs : \E d \in Definitions(m, refs[n]) :
           LET place == PlaceOf(d, refs[n])
           IN  IF Near(m, refs[n], place) THEN BranchSays(file, refs[n], place)
               ELSE RelocationSays(ToSet(read.relocs), refs[n], place)

FixedKeepsRest(m, file) ==
  file.header.fix # R!Unset =>
    /\ file.header.imp + file.header.impSize <= file.header.fix
    /\ \A i \in DOMAIN file.imports :
         file.imports[i].offset >= file.header.fix <=> file.imports[i].module \in {0, group.ids[m]}

ImageSaysAll ==
  \A m \in Modules : \A ref \in ToSet(Refs(group.elfs[m])) : \E d \in Definitions(m, ref) :
    LET place == PlaceOf(d, ref)
        to == IF place.module = 0 THEN place.at
              ELSE BaseOf(image.sections, place.module, place.section) + place.at
        at == BaseOf(image.sections, group.ids[m], ref.section) + Word(ref.at)
    IN  \/ Near(m, ref, place)
        \/ <<at, ref.kind, IF ref.kind \in R!Branches THEN to - at ELSE to>> \in image.words

ImageApart ==
  \A a, b \in DOMAIN image.sections : a < b =>
    image.sections[a].address + image.sections[a].size <= image.sections[b].address

\* A loader takes the relocations of an import from its first on, while they are to it.
RelocationsOf(file, k) ==
  LET first == file.imports[k].first \div S!RelocationEntry + 1
  IN  IF file.imports[k].first = S!Nowhere THEN {}
      ELSE {file.external[n] : n \in {i \in DOMAIN file.external :
              i >= first /\ \A j \in first..i : file.external[j].id = k - 1}}

\* An offset in the file is in one section.
IsAt(file, r, ref) ==
  LET inside == {i \in DOMAIN file.sections :
                   LET h == file.sections[i]
                   IN  h.offset > 0 /\ S!Offset(h) <= r.offset /\ r.offset < S!Offset(h) + h.size}
  IN  /\ inside = {ref.section + 1} /\ r.kind = ref.kind
      /\ r.offset = S!Offset(file.sections[ref.section + 1]) + ref.at

RsoReferencesMet(m, file) ==
  LET refs == Refs(group.elfs[m])
      symbol(ref) == group.elfs[m].symbols[ref.symbol]
      met(ref) ==
        IF symbol(ref).section > 0
        THEN \E r \in ToSet(file.internal) :
               IsAt(file, r, ref) /\ r.id = symbol(ref).section /\ r.target = symbol(ref).address + ref.addend
        ELSE \E k \in DOMAIN file.imports :
               /\ file.imports[k].name = symbol(ref).name
               /\ \E r \in RelocationsOf(file, k) : IsAt(file, r, ref)
      waits(ref) == ref.kind = "rel24" /\ ref.section = file.unresolved[1]
  IN  /\ Len(file.internal) + Len(file.external) = Len(refs)
      /\ \A ref \in ToSet(refs) :
           met(ref) /\ (waits(ref) => <<ref.section, ref.at, file.unresolved[2] - ref.at>> \in file.branches)

\* What is exported is found by its hash, the highest first.
RsoExports(m, file) ==
  LET symbols == ToSet(group.elfs[m].symbols)
      wanted == {s \in symbols : s.name \in rso.listed /\ (s.section = S!Absolute \/ (s.section > 0 /\ s.exported))}
      place(s) == <<s.name, IF s.section = S!Absolute THEN S!AbsoluteSection ELSE s.section, s.address>>
      name(n) == file.exports[n].symbol.name
  IN  /\ {<<e.symbol.name, e.symbol.section, e.symbol.offset>> : e \in ToSet(file.exports)} = {place(s) : s \in wanted}
      /\ \A i, j \in DOMAIN file.exports : i < j => S!Rank(name(i)) >= S!Rank(name(j))

RsoReadBack(m, file) ==
  LET elf == group.elfs[m]
      read == S!ProcessRso(file)
      there == {i \in DOMAIN elf.sections : elf.sections[i].name \in R!Permitted /\ elf.sections[i].size > 0}
      true == {<<i, elf.sections[i].size, elf.sections[i].name = ".bss">> : i \in there}
      special == {s \in ToSet(elf.symbols) : s.name \in {"_prolog", "_epilog", "_unresolved"}}
  IN  IF HasFailed(read) THEN rso.host = "little" /\ file.exports # <<>>
      ELSE /\ {<<s.index, s.size, s.kind = "bss">> : s \in ToSet(read.sections)} = true
           /\ \A s \in special : \E r \in ToSet(read.symbols) :
                r.name = s.name /\ r.address = s.address /\ read.sections[r.section + 1].index = s.section

ReferencesMet ==
  /\ stage = "rso" =>
       \A m \in Modules :
         /\ RsoReferencesMet(m, rso.files[m]) /\ RsoExports(m, rso.files[m])
         /\ RsoReadBack(m, rso.files[m])
  /\ stage \in {"extract", "make", "write", "merge", "link", "done"} =>
       \A m \in Modules : FileSaysAll(m, originals[m]) /\ FixedKeepsRest(m, originals[m])
  /\ \A n \in DOMAIN rels : ~HasFailed(rels[n]) => FileSaysAll(n + 1, rels[n])
  /\ stage = "done" => ImageSaysAll /\ ImageApart

(***************************************************************************)
(* A module that is built again from a matching ELF file is the original   *)
(* one, whatever alignment its sections are built with: it was found from  *)
(* where they are.  That is only so without an empty section in front of   *)
(* another one, as the splits file does not list it; and .bss of a version *)
(* 1 module has no alignment to be found (src/src/util/rel.rs).            *)
(***************************************************************************)
EmptyBetween(elf) ==
  \E i, j \in DOMAIN elf.sections :
    /\ i < j /\ {elf.sections[i].name, elf.sections[j].name} \subseteq R!Permitted
    /\ elf.sections[i].size = 0 /\ elf.sections[j].size > 0

HasBss(elf) == \E s \in ToSet(elf.sections) : s.name = ".bss" /\ s.size > 0

Rebuilt ==
  /\ \A m \in DOMAIN extracted :
       HasFailed(extracted[m]) => group.infos[m].version = 1 /\ HasBss(group.elfs[m])
  /\ \A n \in DOMAIN rels :
       rels[n] = originals[n + 1] \/ EmptyBetween(group.elfs[n + 1])
=============================================================================
