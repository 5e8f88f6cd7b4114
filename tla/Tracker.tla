------------------------------ MODULE Tracker ------------------------------
(***************************************************************************)
(* The tracker finds the relocations of an object                          *)
(* (src/src/analysis/tracker.rs).  It runs every function on the abstract  *)
(* machine of src/src/analysis/vm.rs, and gets what each step of it shows: *)
(* a step is a record of what the instruction does (op), where (at), the   *)
(* value or target, the instructions that loaded the two halves of that    *)
(* value (hi and lo, Nowhere for none), the base register, the kind of     *)
(* data, and whether it stores.                                            *)
(*                                                                         *)
(* An object is a record: t, its symbols; sections; splits; relocs, by     *)
(* section and offset; sources and targets, the blocked ranges; special,   *)
(* the addresses of the symbols the linker makes; ok, unless dtk stopped.  *)
(* What is tracked is a record: relocs, types (of data), stores, sda, hal. *)
(***************************************************************************)
EXTENDS SymbolTable

(***************************************************************************)
(* AddressRanges (src/src/obj/addresses.rs): ranges of addresses that may  *)
(* hold no relocation, or be the target of none.  An address is a section  *)
(* and an offset; the ranges are the ends of those that start somewhere.   *)
(***************************************************************************)
NoRanges == <<>>

Before(a, b) == a[1] < b[1] \/ (a[1] = b[1] /\ a[2] < b[2])

\* A range with the start of another one only makes that longer.
InsertRange(ranges, start, end) ==
  [a \in DOMAIN ranges \cup {start} |->
     IF a # start THEN ranges[a]
     ELSE IF a \in DOMAIN ranges /\ ranges[a] > end THEN ranges[a]
     ELSE end]

\* (mutant) a range is no longer than its first address.
InRangesStart(ranges, addr) == addr \in DOMAIN ranges

\* Only the range that starts last before an address is looked at.
InRanges(ranges, addr) ==
  \/ addr \in DOMAIN ranges
  \/ \E a \in DOMAIN ranges :
       /\ Before(a, addr) /\ \A b \in DOMAIN ranges : Before(b, addr) => ~Before(a, b)
       /\ a[1] = addr[1] /\ addr[2] < ranges[a]
-----------------------------------------------------------------------------

Nowhere == <<0, 0>>      \* no address; an address outside of all sections is in section 0

Elsewhere == <<0, -1>>   \* RelocationTarget::External: what has no section

Known(target) == {target} \ {Elsewhere}

IsData(kind) == kind \in {"data", "rodata"}
InSectionOf(section, addr) == section.start <= addr /\ addr < section.end

SectionAt(o, addr) == {i \in DOMAIN o.sections : InSectionOf(o.sections[i], addr)}
SectionsNamed(o, name) == {i \in DOMAIN o.sections : o.sections[i].name = name}
SectionNamed(o, name) == SelectInSeq(o.sections, LAMBDA section : section.name = name)

SectionKind(name) ==
  CASE name = ".text" -> "code"
    [] name \in {".ctors", ".dtors", ".rodata", ".sdata2", "extab"} -> "rodata"
    [] name \in {".bss", ".sbss", ".sbss2"} -> "bss"
    [] OTHER -> "data"

\* "Unknown section": a name that a section cannot have.
IsSectionName(name) == SectionKind(name) # "data" \/ name \in {".data", ".sdata"}

\* ObjSection::rename: the kind is that of the name.
Renamed(section, name) == [section EXCEPT !.name = name, !.kind = SectionKind(name), !.known = TRUE]

RenameSections(o, names) ==
  [o EXCEPT !.sections = [i \in DOMAIN @ |->
     IF i \in DOMAIN names THEN Renamed(@[i], names[i]) ELSE @[i]]]

Stop(o) == [o EXCEPT !.ok = FALSE]

\* ObjInfo::add_symbol; the symbols of the linker are looked for from now on.
SpecialNames == {<<"_stack_addr">>, <<"_SDA_BASE_">>}

AddSymbol(o, sym, replace) ==
  IF Refused(o.t, sym, replace) THEN Stop(o)
  ELSE [o EXCEPT !.t = Add(@, sym, replace),
                 !.special = IF sym.name \in SpecialNames
                             THEN [n \in DOMAIN @ \cup {sym.name} |->
                                     IF n = sym.name THEN sym.addr ELSE @[n]]
                             ELSE @]

Fixed(name, section, addr, size, kind, scope) ==
  [name |-> name, addr |-> addr, section |-> section, size |-> size, known |-> TRUE,
   kind |-> kind, scope |-> scope, flags |-> {}, align |-> None, data |-> "unknown"]

----------------------------------------------------------------------------

\* relocation_target_for: the relocation that is there already.
TargetOf(o, reloc) ==
  LET sym == o.t.symbols[reloc.symbol]
  IN  IF sym.section = None THEN Elsewhere ELSE <<sym.section, sym.addr + reloc.addend>>

\* section_address_for: what the abstract machine takes an address for.
MachineAddress(o, from, addr) ==
  LET at == IF o.t.exe THEN SectionAt(o, addr) ELSE SectionAt(o, addr) \cap {from[1]}
  IN  IF from \in DOMAIN o.relocs THEN TargetOf(o, o.relocs[from])
      ELSE IF at = {} THEN Nowhere
      ELSE <<CHOOSE i \in at : TRUE, addr>>

\* is_valid_address: what a value refers to, in an executable.
ValidAddress(o, from, addr) ==
  LET at == SectionAt(o, addr)
      i == CHOOSE j \in at : TRUE
  IN  IF ~o.t.exe \/ InRanges(o.sources, from) THEN Nowhere
      ELSE IF at # {}
           THEN IF \/ o.sections[i].kind = "code" /\ addr % 4 # 0
                   \/ InRanges(o.targets, <<i, addr>>)
                THEN Nowhere ELSE <<i, addr>>
      ELSE IF \E n \in DOMAIN o.special : o.special[n] = addr THEN <<0, addr>>
      ELSE Nowhere

\* gpr_address: a register holds an address where there is a relocation.
RegisterAddress(o, from, value) ==
  IF from \in DOMAIN o.relocs THEN MachineAddress(o, from, value) ELSE ValidAddress(o, from, value)

NothingTracked ==
  [relocs |-> <<>>, types |-> <<>>, stores |-> {}, sda |-> {}, hal |-> {}]

Put(f, key, value) == [k \in DOMAIN f \cup {key} |-> IF k = key THEN value ELSE f[k]]
PutNew(f, key, value) == IF key \in DOMAIN f THEN f ELSE Put(f, key, value)

Reloc(kind, target) == [kind |-> kind, target |-> target]

\* The halves of an address, where there is no relocation yet.
Halves(tr, high, step, target) ==
  [tr EXCEPT !.relocs = PutNew(PutNew(@, step.hi, Reloc(high, target)),
                               step.lo, Reloc("lo", target)),
             !.hal = @ \cup Known(target)]

OnAdd(o, tr, step) ==
  LET target == RegisterAddress(o, step.at, step.value)
  IN  IF target = Nowhere THEN tr
      ELSE IF step.op = "addi" /\ step.base
           THEN [tr EXCEPT !.relocs = Put(@, step.at, Reloc("sda", target)),
                           !.sda = @ \cup Known(target)]
      ELSE IF step.hi # Nowhere /\ step.lo # Nowhere
           THEN Halves(tr, IF step.op = "ori" THEN "hi" ELSE "ha", step, target)
      ELSE tr

\* A load or a store; the machine has looked up its address.
OnLoadStore(o, tr, step) ==
  LET target == MachineAddress(o, step.at, step.value)
      same == step.hi \in DOMAIN tr.relocs => tr.relocs[step.hi] = Reloc("ha", target)
      high == PutNew(tr.relocs, step.hi, Reloc("ha", target))
      found ==
        IF step.base
        THEN [tr EXCEPT !.relocs = Put(@, step.at, Reloc("sda", target)), !.sda = @ \cup Known(target)]
        ELSE IF step.hi # Nowhere /\ step.lo = Nowhere
             THEN [tr EXCEPT !.relocs = IF same THEN Put(high, step.at, Reloc("lo", target))
                                        ELSE high,
                             !.hal = @ \cup Known(target)]
        ELSE IF step.hi # Nowhere THEN Halves(tr, "ha", step, target)
        ELSE tr
  IN  IF target = Nowhere \/ InRanges(o.sources, step.at) THEN tr
      ELSE IF target = Elsewhere THEN found
      ELSE [found EXCEPT !.types = Put(@, target, step.data),
                         !.stores = IF step.store THEN @ \cup {target} ELSE @]

\* A branch that leaves the function, or links, has a relocation.
OnBranch(tr, step) ==
  IF step.link \/ ~(step.start < step.target[2] /\ step.target[2] < step.limit)
  THEN [tr EXCEPT !.relocs = Put(@, step.at, Reloc(step.rel, step.target))]
  ELSE tr

\* instruction_callback, process_function, process_code: all steps in order.
Callback(o, tr, step) ==
  CASE step.op \in {"addi", "ori"} -> OnAdd(o, tr, step)
    [] step.op = "mem" -> OnLoadStore(o, tr, step)
    [] step.op = "branch" -> OnBranch(tr, step)

\* process_data: every word of data that is an address.
OnWords(o, tr, words) ==
  LET found == {at \in DOMAIN words : ValidAddress(o, at, words[at]) # Nowhere}
  IN  [tr EXCEPT !.relocs =
         [a \in DOMAIN @ \cup found |->
            IF a \in found THEN Reloc("abs", ValidAddress(o, a, words[a])) ELSE @[a]]]

\* check_extab_relocations: only those of tables that can be decoded.
CheckExtab(o, tr, decoded) ==
  LET extab == SectionNamed(o, "extab")
      kept == {<<extab, at>> : at \in
                UNION {d.relocs : d \in
                  {d \in decoded : \E i \in InSection(o.t, extab) :
                     o.t.symbols[i].addr = d.at /\ o.t.symbols[i].size = d.size}}}
  IN  IF extab = 0 THEN tr
      ELSE [tr EXCEPT !.relocs =
              [a \in {b \in DOMAIN @ : b[1] = extab => b \in kept} |-> @[a]]]

\* reject_invalid_relocations: a relocation is not to the middle of an address.
RejectInvalid(o, tr) ==
  LET middle(a) == /\ IsData(o.sections[a[1]].kind)
                   /\ LET to == tr.relocs[a].target
                      IN  to[2] % 4 # 0 /\ <<to[1], (to[2] \div 4) * 4>> \in DOMAIN tr.relocs
  IN  [tr EXCEPT !.relocs = [a \in {b \in DOMAIN @ : ~middle(b)} |-> @[a]]]

ProcessCode(o, steps) == FoldLeft(LAMBDA tr, step : Callback(o, tr, step), NothingTracked, steps)

\* Tracker::process.
Process(o, program) ==
  LET code == ProcessCode(o, program.steps)
      data == IF o.t.exe THEN OnWords(o, code, program.words) ELSE code
  IN  RejectInvalid(o, CheckExtab(o, data, program.decoded))
=============================================================================
