------------------------------ MODULE RelLink -------------------------------
(***************************************************************************)
(* The REL modules are linked with the DOL and with each other             *)
(* (src/src/cmd/dol.rs, split, update_symbols, create_relocations and      *)
(* resolve_external_relocations).  A REL's relocations name a module, a    *)
(* section and an offset; in the end they name a symbol of the REL itself, *)
(* which is external when the target is in another module.                 *)
(*                                                                         *)
(* Three passes go over the modules one by one.  The first makes sure that *)
(* what is referred to has a symbol, and that the linker keeps it.  The    *)
(* second makes relocations to those symbols, by their index in the other  *)
(* module.  The third makes them relocations to external symbols.          *)
(*                                                                         *)
(* A section is known by its ELF index.  The relocations of a module are   *)
(* taken in any order.                                                     *)
(***************************************************************************)
EXTENDS ObjSymbols

CONSTANTS
  Rels,           \* the REL modules, by name
  Dol,            \* the executable
  Order,          \* the REL modules in the order of their names
  Id,             \* the ID of each module; that of the DOL is 0
  Sections,       \* the sections of each module
  SectionAt(_),   \* at_address: the section of the DOL at an address, or none
  Worlds          \* the projects it starts with

Modules == Rels \cup {Dol}
Every == {"every"}    \* no links are configured
Own == -1             \* a relocation without a module
Nobody == "nobody"

\* RelReloc and ObjReloc: a REL file has no sda21 relocations.
RelKinds == {"half", "plain"}
RelReloc ==
  [section : Nat, at : Nat, module : Nat, target : Nat, addend : Nat, kind : RelKinds]
ObjReloc ==
  [section : Nat, at : Nat, kind : RelocKinds, symbol : Nat, addend : Int, module : Nat \cup {Own}]

World ==
  [symbols : [Modules -> Seq(Symbol)], unresolved : [Rels -> SUBSET RelReloc],
   relocs : [Rels -> SUBSET ObjReloc], links : [Rels -> {Every} \cup SUBSET Rels],
   create : BOOLEAN]

ASSUME LinkAssumption ==
  /\ Dol \notin Rels /\ Nobody \notin Modules /\ ~(Every \subseteq Rels)
  /\ Order \in Seq(Rels) /\ \A m \in Rels : \E i \in DOMAIN Order : Order[i] = m
  /\ Id \in [Modules -> Nat] /\ Id[Dol] = 0 /\ \A m \in Rels : Id[m] # 0
  /\ Sections \in [Modules -> SUBSET (Nat \ {NoSection})]
  /\ Worlds \subseteq World
  /\ \A w \in Worlds : \A m \in Rels :
       /\ \A l \in w.relocs[m] : l.module = Own
       /\ \A r \in w.unresolved[m] :
            r.module = 0 => SectionAt(r.addend) \in Sections[Dol] \cup {NoSection}

\* A label that is made up is not one of the linker's.
ASSUME LabelAssumption == LinkerLabels \cap ({"lbl"} \X Nat \X Nat \X Nat) = {}

VARIABLES
  world,      \* the project as it was loaded and analysed
  pass,       \* symbols, relocs, resolve; done or failed
  left,       \* the modules that the pass has still to look at
  current,    \* the module it looks at
  todo,       \* the relocations it has still to look at
  symbols,    \* the symbols of each module
  unresolved, \* the relocations that were read
  relocs,     \* the relocations that were made
  externs     \* reloc_to_symbol

vars == <<world, pass, left, current, todo, symbols, unresolved, relocs, externs>>

Init ==
  /\ world \in Worlds
  /\ pass = "symbols" /\ left = <<Dol>> \o Order /\ current = Nobody /\ todo = {}
  /\ symbols = world.symbols /\ unresolved = world.unresolved /\ relocs = world.relocs
  /\ externs = {}

-----------------------------------------------------------------------------
\* get_links: the module itself is taken out of the map meanwhile.
Links(m) == IF world.links[m] = Every THEN Rels \ {m} ELSE world.links[m]
LinksFound(m) == m \notin Links(m)

\* get_links_map: the links by their ID.
UniqueIds(m) == \A a, b \in Links(m) : Id[a] = Id[b] => a = b

\* The modules whose relocations update_symbols looks at.
Sources(m) == IF m = Dol THEN Rels ELSE {m} \cup Links(m)

\* The relocations that refer to a module, and the modules they are from.
References(m) ==
  {ref \in [from : Sources(m), reloc : UNION {unresolved[k] : k \in Sources(m)}] :
     ref.reloc \in unresolved[ref.from] /\ ref.reloc.module = Id[m]}

\* What a pass does for a module.
Work(m) ==
  CASE pass = "symbols" -> References(m)
    [] pass = "relocs" -> unresolved[m]
    [] OTHER -> {l \in relocs[m] : l.module # Own}

Begin ==
  /\ pass \in {"symbols", "relocs", "resolve"} /\ current = Nobody /\ left # <<>>
  /\ LET m == Head(left) IN
       /\ m # Dol => LinksFound(m) /\ (pass # "symbols" => UniqueIds(m))
       /\ current' = m
       /\ todo' = Work(m)
       /\ unresolved' = IF pass = "relocs" THEN [unresolved EXCEPT ![m] = {}] ELSE unresolved
  /\ externs' = {}
  /\ UNCHANGED <<world, pass, left, symbols, relocs>>

\* The links of a module cannot be resolved.
BadLinks ==
  /\ pass \in {"symbols", "relocs", "resolve"} /\ current = Nobody /\ left # <<>>
  /\ LET m == Head(left) IN
       m # Dol /\ (~LinksFound(m) \/ (pass # "symbols" /\ ~UniqueIds(m)))
  /\ pass' = "failed"
  /\ UNCHANGED <<world, left, current, todo, symbols, unresolved, relocs, externs>>

End ==
  /\ current # Nobody /\ todo = {} /\ pass # "failed"
  /\ current' = Nobody /\ left' = Tail(left)
  /\ UNCHANGED <<world, pass, todo, symbols, unresolved, relocs, externs>>

Following(p) ==
  CASE p = "symbols" -> "relocs"
    [] p = "relocs" -> "resolve"
    [] OTHER -> "done"

NextPass ==
  /\ pass \in {"symbols", "relocs", "resolve"} /\ current = Nobody /\ left = <<>>
  /\ pass' = Following(pass)
  /\ left' = IF pass' = "done" THEN <<>> ELSE Order
  /\ UNCHANGED <<world, current, todo, symbols, unresolved, relocs, externs>>

-----------------------------------------------------------------------------
\* A module has a relocation at an address, or no such section.
Taken(m, r) == \E l \in relocs[m] : l.section = r.section /\ l.at = r.at
Sourceless(m, r) == r.section \notin Sections[m]

Done(item) == todo' = todo \ {item}

\* A mutant: the target is asked for the section of the relocation, whoever has it.
PassesOverOthers(m, ref) ==
  Sourceless(m, ref.reloc) \/ ref.reloc.target \notin Sections[m]

(***************************************************************************)
(* update_symbols: a relocation to a section that is not there is passed   *)
(* over, and so is one of the module itself that it already has.           *)
(***************************************************************************)
PassesOver(m, ref) ==
  \/ Id[ref.from] = Id[m] /\ (Sourceless(m, ref.reloc) \/ Taken(m, ref.reloc))
  \/ ref.reloc.target \notin Sections[m]

Referred(m, r) == ForRelocation(symbols[m], r.target, r.addend, r.kind)

PassOver ==
  /\ pass = "symbols" /\ current # Nobody
  /\ \E ref \in todo : PassesOver(current, ref) /\ Done(ref)
  /\ UNCHANGED <<world, pass, left, current, symbols, unresolved, relocs, externs>>

\* The symbol is found, and exported.
Mark ==
  /\ pass = "symbols" /\ current # Nobody
  /\ \E ref \in todo :
       /\ ~PassesOver(current, ref) /\ Done(ref)
       /\ Referred(current, ref.reloc) # NoSymbol
       /\ symbols' = [symbols EXCEPT ![current][Referred(current, ref.reloc)].exported = TRUE]
  /\ UNCHANGED <<world, pass, left, current, unresolved, relocs, externs>>

\* A mutant: the label is not exported.
LabelLocal(m, r) ==
  [name |-> LabelName(Id[m], r.target, r.addend), section |-> r.target, addr |-> r.addend, size |-> 0,
   kind |-> "label", ignored |-> FALSE, exported |-> FALSE]

\* A mutant: the label is one off.
LabelBefore(m, r) ==
  [name |-> LabelName(Id[m], r.target, r.addend), section |-> r.target, addr |-> r.addend - 1,
   size |-> 0, kind |-> "label", ignored |-> FALSE, exported |-> TRUE]

\* There is no symbol: it gets an exported label, unless all symbols are known.
Label(m, r) ==
  [name |-> LabelName(Id[m], r.target, r.addend), section |-> r.target, addr |-> r.addend, size |-> 0,
   kind |-> "label", ignored |-> FALSE, exported |-> TRUE]

CreateLabel ==
  /\ pass = "symbols" /\ current # Nobody
  /\ \E ref \in todo :
       /\ ~PassesOver(current, ref) /\ Done(ref)
       /\ Referred(current, ref.reloc) = NoSymbol
       /\ symbols' = IF world.create
                     THEN [symbols EXCEPT ![current] = Append(@, Label(current, ref.reloc))]
                     ELSE symbols
  /\ UNCHANGED <<world, pass, left, current, unresolved, relocs, externs>>

-----------------------------------------------------------------------------
\* create_relocations: the module of a target, if it is one of the links.
Targets(m, r) ==
  CASE r.module = 0 -> {Dol}
    [] r.module = Id[m] -> {m}
    [] OTHER -> {k \in Links(m) : Id[k] = r.module}

\* The section of a target: the DOL's is that at the address.
TargetSection(r) == IF r.module = 0 THEN SectionAt(r.addend) ELSE r.target

\* The module's section is missing, or it has the relocation, or the
\* target's section is missing.
Skips(m, r) ==
  \/ Sourceless(m, r) \/ Taken(m, r)
  \/ r.module # 0 /\ \E t \in Targets(m, r) : r.target \notin Sections[t]

Skip ==
  /\ pass = "relocs" /\ current # Nobody
  /\ \E r \in todo : Skips(current, r) /\ Done(r)
  /\ UNCHANGED <<world, pass, left, current, symbols, unresolved, relocs, externs>>

Found(t, r) == ForRelocation(symbols[t], TargetSection(r), r.addend, r.kind)

\* A mutant: the addend of the file is taken as it is.
RelocationAsRead(m, t, r) ==
  [section |-> r.section, at |-> r.at, kind |-> r.kind, symbol |-> Found(t, r), addend |-> r.addend,
   module |-> IF r.module = Id[m] THEN Own ELSE r.module]

Relocation(m, t, r) ==
  [section |-> r.section, at |-> r.at, kind |-> r.kind, symbol |-> Found(t, r),
   addend |-> r.addend - symbols[t][Found(t, r)].addr,
   module |-> IF r.module = Id[m] THEN Own ELSE r.module]

Create ==
  /\ pass = "relocs" /\ current # Nobody
  /\ \E r \in todo : \E t \in Targets(current, r) :
       /\ ~Skips(current, r) /\ Done(r)
       /\ r.module = 0 => SectionAt(r.addend) # NoSection
       /\ Found(t, r) # NoSymbol
       /\ relocs' = [relocs EXCEPT ![current] = @ \cup {Relocation(current, t, r)}]
  /\ UNCHANGED <<world, pass, left, current, symbols, unresolved, externs>>

\* The target's module is not linked, or the DOL has no section there.
NoTarget ==
  /\ pass = "relocs" /\ current # Nobody
  /\ \E r \in todo :
       /\ ~Sourceless(current, r) /\ ~Taken(current, r)
       /\ Targets(current, r) = {} \/ (r.module = 0 /\ SectionAt(r.addend) = NoSection)
  /\ pass' = "failed"
  /\ UNCHANGED <<world, left, current, todo, symbols, unresolved, relocs, externs>>

\* "Couldn't find module ... symbol".
Unfound(m, t, r) ==
  /\ ~Skips(m, r)
  /\ r.module = 0 => SectionAt(r.addend) # NoSection
  /\ Found(t, r) = NoSymbol

NotFound ==
  /\ pass = "relocs" /\ current # Nobody
  /\ \E r \in todo : \E t \in Targets(current, r) : Unfound(current, t, r)
  /\ pass' = "failed"
  /\ UNCHANGED <<world, left, current, todo, symbols, unresolved, relocs, externs>>

-----------------------------------------------------------------------------
\* resolve_external_relocations: the symbol of another module is replaced by
\* an external one with its name, one for each.
Extern(t, i) ==
  [name |-> symbols[t][i].name, section |-> NoSection, addr |-> 0, size |-> 0,
   kind |-> "label", ignored |-> FALSE, exported |-> FALSE]

Resolved(l, i) == [l EXCEPT !.symbol = i, !.module = Own]
Replaced(m, l, i) == relocs' = [relocs EXCEPT ![m] = (@ \ {l}) \cup {Resolved(l, i)}]

ResolveKnown ==
  /\ pass = "resolve" /\ current # Nobody
  /\ \E l \in todo : \E e \in externs :
       /\ e.module = l.module /\ e.symbol = l.symbol
       /\ Replaced(current, l, e.extern) /\ Done(l)
  /\ UNCHANGED <<world, pass, left, current, symbols, unresolved, externs>>

ResolveNew ==
  /\ pass = "resolve" /\ current # Nobody
  /\ \E l \in todo : \E t \in Links(current) \cup {Dol} :
       /\ Id[t] = l.module
       /\ \A e \in externs : e.module # l.module \/ e.symbol # l.symbol
       /\ LET new == Len(symbols[current]) + 1 IN
            /\ symbols' = [symbols EXCEPT ![current] = Append(@, Extern(t, l.symbol))]
            /\ externs' = externs \cup {[module |-> l.module, symbol |-> l.symbol, extern |-> new]}
            /\ Replaced(current, l, new) /\ Done(l)
  /\ UNCHANGED <<world, pass, left, current, unresolved>>

Ended == pass \in {"done", "failed"} /\ UNCHANGED vars

Next ==
  \/ Begin \/ BadLinks \/ End \/ NextPass
  \/ PassOver \/ Mark \/ CreateLabel
  \/ Skip \/ Create \/ NoTarget \/ NotFound
  \/ ResolveKnown \/ ResolveNew
  \/ Ended

Spec == Init /\ [][Next]_vars

-----------------------------------------------------------------------------
RTypeOK ==
  /\ world \in World
  /\ pass \in {"symbols", "relocs", "resolve", "done", "failed"}
  /\ left \in Seq(Modules) /\ current \in Modules \cup {Nobody}
  /\ todo \subseteq [from : Rels, reloc : RelReloc] \cup RelReloc \cup ObjReloc
  /\ symbols \in [Modules -> Seq(Symbol)]
  /\ unresolved \in [Rels -> SUBSET RelReloc] /\ relocs \in [Rels -> SUBSET ObjReloc]
  /\ externs \subseteq [module : Nat, symbol : Nat, extern : Nat]

\* A symbol at an index, and an offset from it, are what a relocation named: they
\* lie in its section, or in the DOL, where addresses are absolute, in none.
IsTarget(t, i, addend, r) ==
  /\ i \in DOMAIN symbols[t]
  /\ \/ symbols[t][i].section = TargetSection(r)
     \/ symbols[t][i].section = NoSection /\ t = Dol
  /\ symbols[t][i].addr + addend = r.addend

\* A relocation that was made means what the one that was read did.
MeansRead(m, l, r) ==
  \/ r.module = Id[m] /\ l.module = Own /\ IsTarget(m, l.symbol, l.addend, r)
  \/ \E t \in Targets(m, r) \ {m} :
       \/ l.module = r.module /\ IsTarget(t, l.symbol, l.addend, r)
       \/ /\ l.module = Own /\ l.symbol \in DOMAIN symbols[m]
          /\ \E i \in DOMAIN symbols[t] :
               /\ Extern(t, i) = symbols[m][l.symbol]
               /\ IsTarget(t, i, l.addend, r)

\* No REL starts with a symbol that has no section.  config.yml can add one, an
\* external symbol, and for_relocation takes it for one of every section.
SymbolsPlaced ==
  \A m \in Rels : \A i \in DOMAIN world.symbols[m] : world.symbols[m][i].section # NoSection

(***************************************************************************)
(* Through all three passes, with the symbols that each adds to any        *)
(* module, a relocation that was made means what it did when it was read:  *)
(* the same section and address of the same module, by way of an external  *)
(* symbol when that is another one: the symbol found is at the target, or  *)
(* is "a previous sized symbol that encompasses the target"                *)
(* (symbols.rs:636).  Those from config.yml are left as they are.  It is   *)
(* not so for a project that has external symbols to begin with (see       *)
(* SymbolsPlaced).                                                         *)
(***************************************************************************)
MeaningKept ==
  \A m \in Rels : \A l \in relocs[m] :
    \/ l \in world.relocs[m]
    \/ \E r \in world.unresolved[m] :
         r.section = l.section /\ r.at = l.at /\ r.kind = l.kind /\ MeansRead(m, l, r)

\* Two modules are linked both ways, or not at all.
LinksMutual == \A a, b \in Rels : a \in Links(b) <=> b \in Links(a)

\* What is the ELF index of a section in a REL is its index in the DOL.
DolIndexed ==
  \A m \in Rels : \A r \in world.unresolved[m] : r.module = 0 => r.target = SectionAt(r.addend)

\* What has a size, any relocation of a REL may refer to: it is no section symbol
\* and no label of the linker.
SizedReferable ==
  \A m \in Modules : \A i \in DOMAIN world.symbols[m] :
    LET symbol == world.symbols[m][i]
    IN  symbol.size > 0 /\ ~symbol.ignored => \A kind \in RelKinds : ReferencedBy(symbol, kind)

\* A project that can be linked: the links are mutual and symbols may be made.
Linkable == LinksMutual /\ world.create /\ DolIndexed /\ SizedReferable

(***************************************************************************)
(* The symbols that other modules refer to are exported, or the linker     *)
(* would strip them: the symbol that is found in the second pass is one    *)
(* that was found or made in the first, though labels came in between.     *)
(***************************************************************************)
TargetsExported ==
  Linkable => \A m \in Rels : \A l \in relocs[m] :
    l.module # Own => \A t \in Targets(m, l) : symbols[t][l.symbol].exported

(***************************************************************************)
(* There is a symbol for every relocation to a section that is there: the  *)
(* link does not fail because one cannot be found.                         *)
(***************************************************************************)
SymbolsFound ==
  Linkable /\ pass = "relocs" /\ current # Nobody =>
    \A r \in todo : \A t \in Targets(current, r) : ~Unfound(current, t, r)

(***************************************************************************)
(* What the first pass makes is what the second needs: for each relocation *)
(* a symbol is found, and the one that is found is exported.               *)
(***************************************************************************)
TargetsReady == TargetsExported /\ SymbolsFound
=============================================================================
