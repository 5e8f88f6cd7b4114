--------------------------- MODULE RelLinkProofs ----------------------------
(***************************************************************************)
(* What the linking of modules keeps, for all projects: the types and the  *)
(* meaning of every relocation (IInv), and that the symbols the second     *)
(* pass looks for are ready when the first is over (ReadyInv).             *)
(***************************************************************************)
EXTENDS RelLink, Extrema

(***************************************************************************)
(* The inductive invariant.  The items of a pass are of its own kind, and  *)
(* those of the second and third are relocations that the module has; the  *)
(* external symbols of the third stand for the symbols they were made for. *)
(***************************************************************************)
ItemsTyped ==
  /\ current = Nobody => todo = {}
  /\ current # Nobody => left # <<>>
  /\ pass = "symbols" => todo \subseteq [from : Rels, reloc : RelReloc]
  /\ pass \in {"relocs", "resolve", "done"} => left \in Seq(Rels) /\ current \in Rels \cup {Nobody}

ItemsRead ==
  /\ \A m \in Rels : unresolved[m] \subseteq world.unresolved[m]
  /\ pass = "symbols" => relocs = world.relocs
  /\ pass = "relocs" /\ current # Nobody => todo \subseteq world.unresolved[current]
  /\ pass = "resolve" /\ current # Nobody =>
       /\ todo \subseteq {l \in relocs[current] : l.module # Own}
       /\ UniqueIds(current)

StandsFor(e, t) ==
  /\ Id[t] = e.module
  /\ e.symbol \in DOMAIN symbols[t]
  /\ e.extern \in DOMAIN symbols[current]
  /\ symbols[current][e.extern] = Extern(t, e.symbol)

ExternsStand ==
  pass = "resolve" /\ current # Nobody =>
    \A e \in externs : \E t \in Links(current) \cup {Dol} : StandsFor(e, t)

\* Until the third pass the symbols of the RELs have sections, if they had them first.
AllPlaced ==
  SymbolsPlaced /\ pass \in {"symbols", "relocs"} =>
    \A m \in Rels : \A i \in DOMAIN symbols[m] : symbols[m][i].section # NoSection

(***************************************************************************)
(* The meaning of a relocation as in MeaningKept, but for projects with    *)
(* external symbols, in which one can be taken for the target.             *)
(***************************************************************************)
IsNear(t, i, addend, r) ==
  /\ i \in DOMAIN symbols[t]
  /\ \/ symbols[t][i].section = TargetSection(r)
     \/ symbols[t][i].section = NoSection /\ (t = Dol \/ ~SymbolsPlaced)
  /\ symbols[t][i].addr + addend = r.addend

Refers(m, l, r) ==
  \/ r.module = Id[m] /\ l.module = Own /\ IsNear(m, l.symbol, l.addend, r)
  \/ \E t \in Targets(m, r) \ {m} :
       \/ l.module = r.module /\ IsNear(t, l.symbol, l.addend, r)
       \/ /\ l.module = Own /\ l.symbol \in DOMAIN symbols[m]
          /\ \E i \in DOMAIN symbols[t] :
               Extern(t, i) = symbols[m][l.symbol] /\ IsNear(t, i, l.addend, r)

AllRefer ==
  \A m \in Rels : \A l \in relocs[m] :
    \/ l \in world.relocs[m]
    \/ \E r \in world.unresolved[m] :
         r.section = l.section /\ r.at = l.at /\ r.kind = l.kind /\ Refers(m, l, r)

IInv ==
  /\ world \in Worlds /\ RTypeOK /\ ItemsTyped /\ ItemsRead
  /\ ExternsStand /\ AllPlaced /\ AllRefer

-----------------------------------------------------------------------------
\* The symbol for a relocation is one of the target's section, by the address.
LEMMA ForRelocationFound ==
  ASSUME NEW ss, NEW s, NEW addr, NEW kind, ForRelocation(ss, s, addr, kind) # NoSymbol
  PROVE  LET i == ForRelocation(ss, s, addr, kind) IN
           i \in DOMAIN ss /\ ss[i].section \in {NoSection, s}
<1> DEFINE P(i) == IsForRelocation(ss, s, addr, kind, i)
<1>1. \E i : i \in DOMAIN ss /\ P(i)
  BY DEF ForRelocation
<1>2. ForRelocation(ss, s, addr, kind) = CHOOSE i \in DOMAIN ss : P(i)
  BY <1>1 DEF ForRelocation
<1>3. /\ ForRelocation(ss, s, addr, kind) \in DOMAIN ss
      /\ P(ForRelocation(ss, s, addr, kind))
  BY <1>1, <1>2
<1> QED BY <1>3 DEF IsForRelocation, Stops, IsBest, Candidates

\* A module and the executable have different names and IDs.
LEMMA Apart ==
  ASSUME NEW m \in Rels
  PROVE  m # Dol /\ m # Nobody /\ m \in Modules /\ Dol \in Modules /\ Dol # Nobody /\ Id[m] # 0
BY LinkAssumption DEF Modules

\* The links of a module are modules.
LEMMA LinksTyped ==
  ASSUME world \in World, NEW m \in Rels
  PROVE  Links(m) \subseteq Rels /\ Sources(m) \subseteq Rels
<1>1. world.links[m] \in {Every} \cup SUBSET Rels
  BY DEF World
<1> QED BY <1>1 DEF Links, Sources

LEMMA SourcesTyped ==
  ASSUME world \in World, NEW m \in Modules
  PROVE  Sources(m) \subseteq Rels
BY LinksTyped DEF Modules, Sources

LEMMA WorldTyped ==
  ASSUME world \in Worlds
  PROVE  /\ world \in World
         /\ world.symbols \in [Modules -> Seq(Symbol)]
         /\ world.unresolved \in [Rels -> SUBSET RelReloc]
         /\ world.relocs \in [Rels -> SUBSET ObjReloc]
         /\ \A m \in Rels : \A l \in world.relocs[m] : l.module = Own
<1>1. world \in World
  BY LinkAssumption
<1>2. \A m \in Rels : \A l \in world.relocs[m] : l.module = Own
  BY LinkAssumption
<1> QED BY <1>1, <1>2 DEF World

-----------------------------------------------------------------------------
(***************************************************************************)
(* Symbols are only added at the end: what was at an index stays there.    *)
(***************************************************************************)
Kept ==
  \A t \in Modules : \A i \in DOMAIN symbols[t] :
    i \in DOMAIN symbols'[t] /\ symbols'[t][i] = symbols[t][i]

\* The meaning of a relocation stays while symbols are kept.
LEMMA MeaningStays ==
  ASSUME world' = world, Kept, world \in World,
         NEW m \in Rels, NEW l, NEW r, Refers(m, l, r)
  PROVE  Refers(m, l, r)'
<1>0. Targets(m, r)' = Targets(m, r)
  BY DEF Targets, Links
<1>1. Targets(m, r) \subseteq Modules /\ m \in Modules
  BY LinksTyped DEF Targets, Modules
<1>2. ASSUME NEW t \in Modules, NEW i, NEW addend, IsNear(t, i, addend, r)
      PROVE  IsNear(t, i, addend, r)'
  BY <1>2 DEF Kept, IsNear, TargetSection, SymbolsPlaced
<1>3. CASE r.module = Id[m] /\ l.module = Own /\ IsNear(m, l.symbol, l.addend, r)
  BY <1>1, <1>2, <1>3 DEF Refers
<1>4. CASE \E t \in Targets(m, r) \ {m} : l.module = r.module /\ IsNear(t, l.symbol, l.addend, r)
  BY <1>0, <1>1, <1>2, <1>4 DEF Refers
<1>5. CASE \E t \in Targets(m, r) \ {m} :
             /\ l.module = Own /\ l.symbol \in DOMAIN symbols[m]
             /\ \E i \in DOMAIN symbols[t] :
                  Extern(t, i) = symbols[m][l.symbol] /\ IsNear(t, i, l.addend, r)
  <2>1. PICK t \in Targets(m, r) \ {m} :
               /\ l.module = Own /\ l.symbol \in DOMAIN symbols[m]
               /\ \E i \in DOMAIN symbols[t] :
                    Extern(t, i) = symbols[m][l.symbol] /\ IsNear(t, i, l.addend, r)
    BY <1>5
  <2>2. PICK i \in DOMAIN symbols[t] :
               Extern(t, i) = symbols[m][l.symbol] /\ IsNear(t, i, l.addend, r)
    BY <2>1
  <2>3. t \in Modules
    BY <1>1
  <2>4. IsNear(t, i, l.addend, r)'
    BY <1>2, <2>2, <2>3
  <2>5. symbols'[t][i] = symbols[t][i] /\ i \in DOMAIN symbols'[t]
    BY <2>2, <2>3 DEF Kept
  <2>6. symbols'[m][l.symbol] = symbols[m][l.symbol] /\ l.symbol \in DOMAIN symbols'[m]
    BY <2>1, <1>1 DEF Kept
  <2>7. Extern(t, i)' = symbols'[m][l.symbol]
    BY <2>2, <2>5, <2>6 DEF Extern
  <2> QED BY <1>0, <2>1, <2>4, <2>5, <2>6, <2>7 DEF Refers
<1> QED BY <1>3, <1>4, <1>5 DEF Refers

\* A relocation of a project, or one that means what was read.
Means(m, l) ==
  \/ l \in world.relocs[m]
  \/ \E r \in world.unresolved[m] :
       r.section = l.section /\ r.at = l.at /\ r.kind = l.kind /\ Refers(m, l, r)

LEMMA MeansStays ==
  ASSUME world' = world, Kept, world \in World, NEW m \in Rels, NEW l, Means(m, l)
  PROVE  Means(m, l)'
<1>1. CASE l \in world.relocs[m]
  BY <1>1 DEF Means
<1>2. ASSUME NEW r \in world.unresolved[m],
             r.section = l.section /\ r.at = l.at /\ r.kind = l.kind /\ Refers(m, l, r)
      PROVE  Means(m, l)'
  <2>1. Refers(m, l, r)'
    BY <1>2, MeaningStays
  <2> QED BY <1>2, <2>1 DEF Means
<1> QED BY <1>1, <1>2 DEF Means

\* The step keeps the meaning of all relocations if it makes none without one.
LEMMA MeaningStep ==
  ASSUME world' = world, Kept, world \in World, AllRefer,
         NEW c \in Rels, NEW made, Means(c, made)',
         \A m \in Rels : \A l \in relocs'[m] : l \in relocs[m] \/ (m = c /\ l = made)
  PROVE  AllRefer'
<1>1. SUFFICES ASSUME NEW m \in Rels, NEW l \in relocs'[m]
               PROVE  Means(m, l)'
  BY <1>1 DEF AllRefer, Means
<1>2. CASE l \in relocs[m]
  BY <1>2, MeansStays DEF AllRefer, Means
<1> QED BY <1>2

LEMMA MeaningSame ==
  ASSUME world' = world, Kept, world \in World, AllRefer, relocs' = relocs
  PROVE  AllRefer'
<1>1. SUFFICES ASSUME NEW m \in Rels, NEW l \in relocs'[m]
               PROVE  Means(m, l)'
  BY <1>1 DEF AllRefer, Means
<1> QED BY MeansStays DEF AllRefer, Means

LEMMA SameKept == symbols' = symbols => Kept
BY DEF Kept

-----------------------------------------------------------------------------
LEMMA LabelTyped ==
  ASSUME NEW m \in Modules, NEW r \in RelReloc
  PROVE  Label(m, r) \in Symbol
<1>1. Id[m] \in Nat /\ r.target \in Nat /\ r.addend \in Nat
  BY LinkAssumption DEF RelReloc
<1>2. LabelName(Id[m], r.target, r.addend) \in Names
  BY <1>1 DEF LabelName, Names
<1> QED BY <1>1, <1>2 DEF Label, Symbol, SymbolKinds

LEMMA ExternTyped ==
  ASSUME RTypeOK, NEW t \in Modules, NEW i \in DOMAIN symbols[t]
  PROVE  Extern(t, i) \in Symbol
<1>1. symbols[t] \in Seq(Symbol)
  BY DEF RTypeOK
<1>2. symbols[t][i] \in Symbol
  BY <1>1
<1>3. symbols[t][i].name \in Names
  BY <1>2 DEF Symbol
<1> QED BY <1>3 DEF Extern, Symbol, SymbolKinds, NoSection

\* The modules that a relocation may be to.
LEMMA TargetsTyped ==
  ASSUME world \in World, NEW m \in Rels, NEW r, NEW t \in Targets(m, r)
  PROVE  /\ t \in Modules /\ Id[t] = r.module
         /\ t # m => t \in (Links(m) \cup {Dol}) /\ r.module # Id[m]
         /\ t = m => r.module = Id[m] \/ m \in Links(m)
BY LinksTyped, LinkAssumption DEF Targets, Modules

LEMMA RelocationTyped ==
  ASSUME RTypeOK, NEW m \in Rels, NEW r \in RelReloc, NEW t \in Modules,
         Found(t, r) # NoSymbol
  PROVE  Relocation(m, t, r) \in ObjReloc
<1>1. Found(t, r) \in DOMAIN symbols[t] /\ symbols[t] \in Seq(Symbol)
  BY ForRelocationFound DEF Found, RTypeOK
<1>2. Found(t, r) \in Nat /\ symbols[t][Found(t, r)] \in Symbol
  BY <1>1
<1>3. symbols[t][Found(t, r)].addr \in Nat
  BY <1>2 DEF Symbol
<1>4. /\ r.section \in Nat /\ r.at \in Nat /\ r.kind \in RelocKinds /\ r.addend \in Nat
      /\ r.module \in Nat
  BY DEF RelReloc, RelKinds, RelocKinds
<1> QED BY <1>2, <1>3, <1>4 DEF Relocation, ObjReloc

\* Symbols of one module that are added to, or whose flag is set.
LEMMA Appended ==
  ASSUME RTypeOK, NEW m \in Modules, NEW s \in Symbol,
         symbols' = [symbols EXCEPT ![m] = Append(@, s)]
  PROVE  /\ symbols' \in [Modules -> Seq(Symbol)] /\ Kept
         /\ Len(symbols[m]) + 1 \in DOMAIN symbols'[m]
         /\ Len(symbols[m]) + 1 \in Nat
         /\ symbols'[m][Len(symbols[m]) + 1] = s
<1>1. symbols \in [Modules -> Seq(Symbol)] /\ symbols[m] \in Seq(Symbol)
  BY DEF RTypeOK
<1>2. symbols'[m] = Append(symbols[m], s) /\ \A t \in Modules \ {m} : symbols'[t] = symbols[t]
  BY <1>1
<1>3. /\ Append(symbols[m], s) \in Seq(Symbol)
      /\ DOMAIN Append(symbols[m], s) = 1 .. Len(symbols[m]) + 1
      /\ DOMAIN symbols[m] = 1 .. Len(symbols[m]) /\ Len(symbols[m]) \in Nat
      /\ Append(symbols[m], s)[Len(symbols[m]) + 1] = s
      /\ \A i \in 1 .. Len(symbols[m]) : Append(symbols[m], s)[i] = symbols[m][i]
  BY <1>1
<1>4. symbols' \in [Modules -> Seq(Symbol)]
  BY <1>1, <1>3
<1>5. ASSUME NEW t \in Modules, NEW i \in DOMAIN symbols[t]
      PROVE  i \in DOMAIN symbols'[t] /\ symbols'[t][i] = symbols[t][i]
  <2>1. CASE t = m
    BY <2>1, <1>2, <1>3
  <2> QED BY <2>1, <1>2
<1> QED BY <1>2, <1>3, <1>4, <1>5 DEF Kept

LEMMA FlagTyped ==
  ASSUME RTypeOK, NEW m \in Modules, NEW i \in DOMAIN symbols[m],
         symbols' = [symbols EXCEPT ![m][i].exported = TRUE]
  PROVE  symbols' \in [Modules -> Seq(Symbol)]
<1>1. symbols \in [Modules -> Seq(Symbol)] /\ symbols[m] \in Seq(Symbol) /\ symbols[m][i] \in Symbol
  BY DEF RTypeOK
<1>2. [symbols[m][i] EXCEPT !.exported = TRUE] \in Symbol
  BY <1>1 DEF Symbol
<1>3. [symbols[m] EXCEPT ![i] = [symbols[m][i] EXCEPT !.exported = TRUE]] \in Seq(Symbol)
  BY <1>1, <1>2
<1> QED BY <1>1, <1>3

-----------------------------------------------------------------------------
LEMMA InitIInv == Init => IInv
<1> SUFFICES ASSUME Init PROVE IInv
  OBVIOUS
<1>1. world \in Worlds
  BY DEF Init
<1>2. /\ world \in World /\ symbols \in [Modules -> Seq(Symbol)]
      /\ unresolved \in [Rels -> SUBSET RelReloc] /\ relocs \in [Rels -> SUBSET ObjReloc]
  BY <1>1, WorldTyped DEF Init
<1>3. left \in Seq(Modules)
  <2>1. Order \in Seq(Modules) /\ <<Dol>> \in Seq(Modules)
    BY LinkAssumption DEF Modules
  <2> QED BY <2>1 DEF Init
<1>4. RTypeOK
  BY <1>2, <1>3 DEF RTypeOK, Init
<1>5. ItemsTyped /\ ItemsRead /\ ExternsStand /\ AllRefer
  BY DEF ItemsTyped, ItemsRead, ExternsStand, AllRefer, Init
<1>6. AllPlaced
  BY DEF AllPlaced, SymbolsPlaced, Modules, Init
<1> QED BY <1>1, <1>4, <1>5, <1>6 DEF IInv

LEMMA ReferencesTyped ==
  ASSUME RTypeOK, NEW m \in Modules
  PROVE  References(m) \subseteq [from : Rels, reloc : RelReloc]
<1>1. Sources(m) \subseteq Rels
  BY SourcesTyped DEF RTypeOK
<1>2. UNION {unresolved[k] : k \in Sources(m)} \subseteq RelReloc
  BY <1>1 DEF RTypeOK
<1> QED BY <1>1, <1>2 DEF References

LEMMA BeginStep == IInv /\ Begin => IInv'
<1> SUFFICES ASSUME IInv, Begin PROVE IInv'
  OBVIOUS
<1> DEFINE m == Head(left)
<1>1. /\ pass \in {"symbols", "relocs", "resolve"} /\ current = Nobody /\ left # <<>>
      /\ m # Dol => LinksFound(m) /\ (pass # "symbols" => UniqueIds(m))
      /\ current' = m /\ todo' = Work(m)
      /\ unresolved' = IF pass = "relocs" THEN [unresolved EXCEPT ![m] = {}] ELSE unresolved
      /\ externs' = {}
      /\ world' = world /\ pass' = pass /\ left' = left /\ symbols' = symbols /\ relocs' = relocs
  BY DEF Begin
<1>2. /\ world \in World /\ left \in Seq(Modules)
      /\ unresolved \in [Rels -> SUBSET RelReloc] /\ relocs \in [Rels -> SUBSET ObjReloc]
  BY DEF IInv, RTypeOK
<1>3. m \in Modules
  BY <1>1, <1>2
<1>4. pass # "symbols" => m \in Rels /\ left \in Seq(Rels) /\ UniqueIds(m)
  <2> SUFFICES ASSUME pass # "symbols" PROVE m \in Rels /\ left \in Seq(Rels) /\ UniqueIds(m)
    OBVIOUS
  <2>1. left \in Seq(Rels)
    BY <1>1 DEF IInv, ItemsTyped
  <2>2. m \in Rels
    BY <1>1, <2>1
  <2> QED BY <1>1, <2>1, <2>2, Apart
<1>5. /\ pass = "symbols" => todo' \subseteq [from : Rels, reloc : RelReloc]
      /\ pass = "relocs" => todo' = unresolved[m]
      /\ pass = "resolve" => todo' = {l \in relocs[m] : l.module # Own}
  BY <1>1, <1>3, ReferencesTyped DEF Work, IInv
<1>6. todo' \subseteq [from : Rels, reloc : RelReloc] \cup RelReloc \cup ObjReloc
  BY <1>1, <1>2, <1>4, <1>5
<1>7. /\ unresolved' \in [Rels -> SUBSET RelReloc]
      /\ \A k \in Rels : unresolved'[k] \subseteq unresolved[k]
  BY <1>1, <1>2
<1>8. RTypeOK'
  BY <1>1, <1>3, <1>6, <1>7 DEF IInv, RTypeOK
<1>9. ItemsTyped'
  <2>1. m # Nobody
    BY <1>3, Apart, LinkAssumption DEF Modules
  <2> QED BY <1>1, <1>4, <1>5, <2>1 DEF ItemsTyped
<1>10. ItemsRead'
  <2>1. UniqueIds(m)' = UniqueIds(m)
    BY <1>1 DEF UniqueIds, Links
  <2> QED BY <1>1, <1>4, <1>5, <1>7, <2>1 DEF IInv, ItemsRead, UniqueIds, Links
<1>11. ExternsStand'
  BY <1>1 DEF ExternsStand
<1>12. AllRefer'
  BY <1>1, <1>2, SameKept, MeaningSame DEF IInv
<1>13. AllPlaced'
  BY <1>1 DEF IInv, AllPlaced, SymbolsPlaced
<1> QED BY <1>1, <1>8, <1>9, <1>10, <1>11, <1>12, <1>13 DEF IInv

\* A step that changes neither symbols nor relocations, and takes no work on.
LEMMA QuietStep ==
  ASSUME IInv, symbols' = symbols, relocs' = relocs, world' = world, unresolved' = unresolved,
         externs' = externs, RTypeOK', ItemsTyped', todo' \subseteq todo,
         current' # Nobody => current' = current /\ (pass' = pass \/ pass' = "failed"),
         pass' = "symbols" => pass = "symbols",
         pass' = "relocs" => pass \in {"symbols", "relocs"}
  PROVE  IInv'
<1>1. ItemsRead'
  BY DEF IInv, ItemsRead, UniqueIds, Links
<1>2. ExternsStand'
  BY DEF IInv, ExternsStand, StandsFor, Extern, Links
<1>3. AllRefer'
  BY SameKept, MeaningSame DEF IInv, RTypeOK
<1>4. AllPlaced'
  BY DEF IInv, AllPlaced, SymbolsPlaced
<1> QED BY <1>1, <1>2, <1>3, <1>4 DEF IInv

LEMMA EndStep == IInv /\ End => IInv'
<1> SUFFICES ASSUME IInv, End PROVE IInv'
  OBVIOUS
<1>1. left # <<>>
  BY DEF IInv, ItemsTyped, End
<1>2. ASSUME NEW S, left \in Seq(S) PROVE Tail(left) \in Seq(S)
  BY <1>1, <1>2
<1>3. RTypeOK'
  BY <1>2 DEF IInv, RTypeOK, End
<1>4. ItemsTyped'
  BY <1>2 DEF IInv, ItemsTyped, End
<1> QED BY <1>3, <1>4, QuietStep DEF End

LEMMA BadLinksStep == IInv /\ BadLinks => IInv'
<1> SUFFICES ASSUME IInv, BadLinks PROVE IInv'
  OBVIOUS
<1>1. RTypeOK' /\ ItemsTyped'
  BY DEF IInv, RTypeOK, ItemsTyped, BadLinks
<1> QED BY <1>1, QuietStep DEF BadLinks

LEMMA NextPassStep == IInv /\ NextPass => IInv'
<1> SUFFICES ASSUME IInv, NextPass PROVE IInv'
  OBVIOUS
<1>1. Order \in Seq(Modules) /\ Order \in Seq(Rels)
  BY LinkAssumption DEF Modules
<1>2. pass' \in {"relocs", "resolve", "done"}
  BY DEF NextPass, Following
<1>3. RTypeOK'
  BY <1>1, <1>2 DEF IInv, RTypeOK, NextPass
<1>4. ItemsTyped'
  BY <1>1, <1>2 DEF IInv, ItemsTyped, NextPass
<1>5. pass' = "relocs" => pass \in {"symbols", "relocs"}
  BY DEF NextPass, Following
<1> QED BY <1>2, <1>3, <1>4, <1>5, QuietStep DEF NextPass

\* The steps that only pass an item over, or fail.
LEMMA LeaveStep ==
  IInv /\ (PassOver \/ Skip \/ NoTarget \/ NotFound \/ Ended) => IInv'
<1>1. ASSUME IInv, PassOver \/ Skip
      PROVE  IInv'
  <2>1. todo' \subseteq todo
    BY <1>1 DEF PassOver, Skip, Done
  <2>2. RTypeOK' /\ ItemsTyped'
    BY <1>1, <2>1 DEF IInv, RTypeOK, ItemsTyped, PassOver, Skip
  <2> QED BY <1>1, <2>1, <2>2, QuietStep DEF PassOver, Skip
<1>2. ASSUME IInv, NoTarget \/ NotFound
      PROVE  IInv'
  <2>1. RTypeOK' /\ ItemsTyped'
    BY <1>2 DEF IInv, RTypeOK, ItemsTyped, NoTarget, NotFound
  <2> QED BY <1>2, <2>1, QuietStep DEF NoTarget, NotFound
<1>3. ASSUME IInv, Ended
      PROVE  IInv'
  <2>1. RTypeOK' /\ ItemsTyped'
    BY <1>3 DEF IInv, RTypeOK, ItemsTyped, Ended, vars
  <2> QED BY <1>3, <2>1, QuietStep DEF Ended, vars
<1> QED BY <1>1, <1>2, <1>3

-----------------------------------------------------------------------------
LEMMA MarkStep == IInv /\ Mark => IInv'
<1> SUFFICES ASSUME IInv, Mark PROVE IInv'
  OBVIOUS
<1>1. PICK ref \in todo :
        /\ Done(ref) /\ Referred(current, ref.reloc) # NoSymbol
        /\ symbols' = [symbols EXCEPT ![current][Referred(current, ref.reloc)].exported = TRUE]
  BY DEF Mark
<1>2. /\ pass = "symbols" /\ pass' = pass /\ current \in Modules
      /\ world' = world /\ left' = left /\ current' = current /\ unresolved' = unresolved
      /\ relocs' = relocs /\ externs' = externs /\ todo' \subseteq todo
  BY <1>1 DEF Mark, Done, IInv, RTypeOK
<1>3. Referred(current, ref.reloc) \in DOMAIN symbols[current]
  BY <1>1, ForRelocationFound DEF Referred
<1>4. symbols' \in [Modules -> Seq(Symbol)]
  BY <1>1, <1>2, <1>3, FlagTyped DEF IInv
<1>5. RTypeOK' /\ ItemsTyped'
  BY <1>2, <1>4 DEF IInv, RTypeOK, ItemsTyped
<1>6. ItemsRead' /\ ExternsStand'
  BY <1>2 DEF IInv, ItemsRead, ExternsStand
<1>7. AllRefer'
  BY <1>2 DEF IInv, ItemsRead, AllRefer
<1>8. AllPlaced'
  <2> SUFFICES ASSUME SymbolsPlaced, NEW m \in Rels, NEW i \in DOMAIN symbols'[m]
               PROVE  symbols'[m][i].section # NoSection
    BY <1>2 DEF AllPlaced, SymbolsPlaced
  <2>1. m \in Modules /\ symbols \in [Modules -> Seq(Symbol)]
    BY Apart DEF IInv, RTypeOK
  <2>2. /\ symbols[m] \in Seq(Symbol) /\ symbols[current] \in Seq(Symbol)
        /\ symbols[current][Referred(current, ref.reloc)] \in Symbol
    BY <1>2, <1>3, <2>1
  <2>3. i \in DOMAIN symbols[m] /\ symbols'[m][i].section = symbols[m][i].section
    BY <1>1, <1>2, <1>3, <2>1, <2>2 DEF Symbol
  <2> QED BY <1>2, <2>3 DEF IInv, AllPlaced
<1> QED BY <1>2, <1>5, <1>6, <1>7, <1>8 DEF IInv

LEMMA CreateLabelStep == IInv /\ CreateLabel => IInv'
<1> SUFFICES ASSUME IInv, CreateLabel PROVE IInv'
  OBVIOUS
<1>1. PICK ref \in todo :
        /\ ~PassesOver(current, ref) /\ Done(ref)
        /\ symbols' = IF world.create
                      THEN [symbols EXCEPT ![current] = Append(@, Label(current, ref.reloc))]
                      ELSE symbols
  BY DEF CreateLabel
<1>2. /\ pass = "symbols" /\ pass' = pass /\ current \in Modules
      /\ world' = world /\ left' = left /\ current' = current /\ unresolved' = unresolved
      /\ relocs' = relocs /\ externs' = externs /\ todo' \subseteq todo
  BY <1>1 DEF CreateLabel, Done, IInv, RTypeOK
<1>3. Label(current, ref.reloc) \in Symbol
  BY <1>1, <1>2, LabelTyped DEF IInv, ItemsTyped
<1>4. symbols' \in [Modules -> Seq(Symbol)]
  BY <1>1, <1>2, <1>3, Appended DEF IInv, RTypeOK
<1>5. RTypeOK' /\ ItemsTyped'
  BY <1>2, <1>4 DEF IInv, RTypeOK, ItemsTyped
<1>6. ItemsRead' /\ ExternsStand'
  BY <1>2 DEF IInv, ItemsRead, ExternsStand
<1>7. AllRefer'
  BY <1>2 DEF IInv, ItemsRead, AllRefer
<1>8. AllPlaced'
  <2> SUFFICES ASSUME SymbolsPlaced, NEW m \in Rels, NEW i \in DOMAIN symbols'[m]
               PROVE  symbols'[m][i].section # NoSection
    BY <1>2 DEF AllPlaced, SymbolsPlaced
  <2>1. m \in Modules /\ symbols[m] \in Seq(Symbol) /\ symbols \in [Modules -> Seq(Symbol)]
    BY Apart DEF IInv, RTypeOK
  <2>2. ASSUME i \in DOMAIN symbols[m] /\ symbols'[m][i] = symbols[m][i]
        PROVE  symbols'[m][i].section # NoSection
    BY <1>2, <2>2 DEF IInv, AllPlaced
  <2>3. CASE m # current \/ ~world.create
    BY <1>1, <1>2, <2>1, <2>2, <2>3
  <2>4. CASE m = current /\ world.create
    <3>1. ref.reloc.target # NoSection
      BY <1>1, <1>2, LinkAssumption DEF PassesOver
    <3>2. PICK label : label = Label(current, ref.reloc)
      OBVIOUS
    <3>3. label.section # NoSection
      BY <3>1, <3>2 DEF Label
    <3>4. symbols'[m] = Append(symbols[m], label)
      BY <1>1, <2>1, <2>4, <3>2
    <3>5. CASE i = Len(symbols[m]) + 1
      BY <2>1, <3>3, <3>4, <3>5
    <3>6. CASE i # Len(symbols[m]) + 1
      BY <2>1, <2>2, <3>4, <3>6
    <3> QED BY <3>5, <3>6
  <2> QED BY <2>3, <2>4
<1> QED BY <1>2, <1>5, <1>6, <1>7, <1>8 DEF IInv

LEMMA CreateStep == IInv /\ Create => IInv'
<1> SUFFICES ASSUME IInv, Create PROVE IInv'
  OBVIOUS
<1>0. PICK r \in todo : \E t \in Targets(current, r) :
        /\ Done(r) /\ Found(t, r) # NoSymbol
        /\ relocs' = [relocs EXCEPT ![current] = @ \cup {Relocation(current, t, r)}]
  BY DEF Create
<1>1. PICK t \in Targets(current, r) :
        /\ Done(r) /\ Found(t, r) # NoSymbol
        /\ relocs' = [relocs EXCEPT ![current] = @ \cup {Relocation(current, t, r)}]
  BY <1>0
<1>a. PICK l : l = Relocation(current, t, r)
  OBVIOUS
<1>2. /\ pass = "relocs" /\ pass' = pass /\ current \in Rels /\ current # Nobody
      /\ world' = world /\ left' = left /\ current' = current /\ unresolved' = unresolved
      /\ symbols' = symbols /\ externs' = externs /\ todo' \subseteq todo
      /\ world \in World
  BY <1>1 DEF Create, Done, IInv, RTypeOK, ItemsTyped
<1>3. r \in world.unresolved[current] /\ r \in RelReloc
  BY <1>2, WorldTyped DEF IInv, ItemsRead
<1>4. /\ t \in Modules /\ Id[t] = r.module
      /\ t # current => r.module # Id[current]
  BY <1>2, TargetsTyped
<1>5. l \in ObjReloc
  BY <1>a, <1>1, <1>2, <1>3, <1>4, RelocationTyped DEF IInv
<1>6. relocs' \in [Rels -> SUBSET ObjReloc]
  BY <1>a, <1>1, <1>2, <1>5 DEF IInv, RTypeOK
<1>7. RTypeOK' /\ ItemsTyped'
  BY <1>2, <1>6 DEF IInv, RTypeOK, ItemsTyped
<1>8. ItemsRead' /\ ExternsStand'
  BY <1>2 DEF IInv, ItemsRead, ExternsStand
<1>9. IsNear(t, l.symbol, l.addend, r)
  <2>1. /\ Found(t, r) \in DOMAIN symbols[t]
        /\ symbols[t][Found(t, r)].section \in {NoSection, TargetSection(r)}
    BY <1>1, ForRelocationFound DEF Found
  <2>5. t # Dol /\ SymbolsPlaced => symbols[t][Found(t, r)].section # NoSection
    BY <1>2, <1>4, <2>1 DEF IInv, AllPlaced, Modules
  <2>2. symbols[t] \in Seq(Symbol)
    BY <1>4 DEF IInv, RTypeOK
  <2>3. symbols[t][Found(t, r)].addr \in Nat /\ r.addend \in Nat
    <3>1. symbols[t][Found(t, r)] \in Symbol
      BY <2>1, <2>2
    <3> QED BY <1>3, <3>1 DEF Symbol, RelReloc
  <2>4. l.symbol = Found(t, r) /\ l.addend = r.addend - symbols[t][Found(t, r)].addr
    BY <1>a DEF Relocation
  <2> QED BY <2>1, <2>3, <2>4, <2>5 DEF IsNear
<1>10. Refers(current, l, r)
  <2>1. l.module = IF r.module = Id[current] THEN Own ELSE r.module
    BY <1>a DEF Relocation
  <2>2. CASE t = current
    BY <1>4, <1>9, <2>1, <2>2 DEF Refers
  <2>3. CASE t # current
    BY <1>1, <1>4, <1>9, <2>1, <2>3 DEF Refers
  <2> QED BY <2>2, <2>3
<1>11. Means(current, l)
  BY <1>a, <1>3, <1>10 DEF Means, Relocation
<1>12. AllRefer'
  <2>1. Kept
    BY <1>2, SameKept
  <2>2. Means(current, l)'
    BY <1>2, <1>11, <2>1, MeansStays
  <2>3. \A m \in Rels : \A k \in relocs'[m] : k \in relocs[m] \/ (m = current /\ k = l)
    BY <1>a, <1>1, <1>2 DEF IInv, RTypeOK
  <2> QED BY <1>2, <2>1, <2>2, <2>3, MeaningStep DEF IInv
<1>13. AllPlaced'
  BY <1>2 DEF IInv, AllPlaced, SymbolsPlaced
<1> QED BY <1>2, <1>7, <1>8, <1>12, <1>13 DEF IInv

-----------------------------------------------------------------------------
\* A relocation to another module, once it is read, has a target there.
LEMMA ResolvedMeans ==
  ASSUME IInv, pass = "resolve", NEW m \in Rels, m = current, NEW l \in todo,
         NEW t \in Links(m) \cup {Dol}, Id[t] = l.module,
         Kept, world' = world,
         NEW i, i \in DOMAIN symbols'[m], symbols'[m][i] = Extern(t, l.symbol)
  PROVE  Means(m, Resolved(l, i))'
<1> DEFINE k == Resolved(l, i)
<1>0. m # Nobody /\ m \in Modules /\ m # Dol /\ world \in World
  BY Apart DEF IInv, RTypeOK
<1>1. l \in relocs[m] /\ l.module # Own /\ UniqueIds(m) /\ l \in ObjReloc
  BY <1>0 DEF IInv, ItemsRead, RTypeOK
<1>2. PICK r \in world.unresolved[m] :
        r.section = l.section /\ r.at = l.at /\ r.kind = l.kind /\ Refers(m, l, r)
  <2>1. l \notin world.relocs[m]
    BY <1>1, WorldTyped DEF IInv
  <2> QED BY <1>1, <2>1 DEF IInv, AllRefer
<1>3. PICK u \in Targets(m, r) \ {m} : l.module = r.module /\ IsNear(u, l.symbol, l.addend, r)
  BY <1>1, <1>2 DEF Refers
<1>4. u \in Links(m) \cup {Dol} /\ Id[u] = Id[t] /\ u \in Modules
  BY <1>0, <1>3, TargetsTyped
<1>5. u = t
  <2>1. Links(m) \subseteq Rels
    BY <1>0, LinksTyped
  <2> QED BY <1>1, <1>4, <2>1, LinkAssumption DEF UniqueIds
<1>6. /\ k.section = l.section /\ k.at = l.at /\ k.kind = l.kind /\ k.addend = l.addend
      /\ k.symbol = i /\ k.module = Own
  BY <1>1 DEF Resolved, ObjReloc
<1>7. l.symbol \in DOMAIN symbols[t]
  BY <1>3, <1>5 DEF IsNear
<1>8. IsNear(t, l.symbol, l.addend, r)'
  BY <1>3, <1>4, <1>5, <1>7 DEF IsNear, TargetSection, Kept, SymbolsPlaced
<1>9. /\ l.symbol \in DOMAIN symbols'[t]
      /\ Extern(t, l.symbol)' = Extern(t, l.symbol)
  BY <1>4, <1>5, <1>7 DEF Kept, Extern
<1>10. Targets(m, r)' = Targets(m, r)
  BY DEF Targets, Links
<1> HIDE DEF k
<1>11. Refers(m, k, r)'
  BY <1>3, <1>5, <1>6, <1>8, <1>9, <1>10 DEF Refers
<1>12. Means(m, k)'
  BY <1>2, <1>6, <1>11 DEF Means
<1> QED BY <1>12 DEF k

LEMMA ResolvedTyped ==
  ASSUME NEW l \in ObjReloc, NEW i \in Nat
  PROVE  Resolved(l, i) \in ObjReloc /\ Resolved(l, i).module = Own
BY DEF Resolved, ObjReloc

LEMMA ResolveKnownStep == IInv /\ ResolveKnown => IInv'
<1> SUFFICES ASSUME IInv, ResolveKnown PROVE IInv'
  OBVIOUS
<1>1. PICK l \in todo, e \in externs :
        e.module = l.module /\ e.symbol = l.symbol /\ Replaced(current, l, e.extern) /\ Done(l)
  BY DEF ResolveKnown
<1> DEFINE k == Resolved(l, e.extern)
<1>2. /\ pass = "resolve" /\ pass' = pass /\ current \in Rels /\ current # Nobody
      /\ world' = world /\ left' = left /\ current' = current /\ unresolved' = unresolved
      /\ symbols' = symbols /\ externs' = externs /\ todo' = todo \ {l}
      /\ world \in World
      /\ relocs' = [relocs EXCEPT ![current] = (@ \ {l}) \cup {k}]
  BY <1>1 DEF ResolveKnown, Done, Replaced, IInv, RTypeOK, ItemsTyped
<1>3. l \in ObjReloc /\ e.extern \in Nat
  BY <1>1, <1>2 DEF IInv, RTypeOK, ItemsRead
<1>4. k \in ObjReloc /\ k.module = Own
  BY <1>3, ResolvedTyped
<1> HIDE DEF k
<1>5. relocs' \in [Rels -> SUBSET ObjReloc]
  BY <1>2, <1>4 DEF IInv, RTypeOK
<1>6. RTypeOK' /\ ItemsTyped'
  BY <1>2, <1>5 DEF IInv, RTypeOK, ItemsTyped
<1>7. ItemsRead'
  <2>1. relocs'[current] = (relocs[current] \ {l}) \cup {k}
    BY <1>2 DEF IInv, RTypeOK
  <2> QED BY <1>2, <2>1 DEF IInv, ItemsRead, UniqueIds, Links
<1>8. Kept
  BY <1>2, SameKept
<1>9. ExternsStand'
  BY <1>2 DEF IInv, ExternsStand, StandsFor, Extern, Links
<1>10. Means(current, k)'
  <2>1. PICK t \in Links(current) \cup {Dol} : StandsFor(e, t)
    BY <1>1, <1>2 DEF IInv, ExternsStand
  <2>2. /\ Id[t] = l.module /\ e.extern \in DOMAIN symbols'[current]
        /\ symbols'[current][e.extern] = Extern(t, l.symbol)
    BY <1>1, <1>2, <2>1 DEF StandsFor
  <2> QED BY <1>1, <1>2, <1>8, <2>2, ResolvedMeans DEF k
<1>11. \A m \in Rels : \A j \in relocs'[m] : j \in relocs[m] \/ (m = current /\ j = k)
  BY <1>2 DEF IInv, RTypeOK
<1>12. AllRefer'
  BY <1>2, <1>8, <1>10, <1>11, MeaningStep DEF IInv
<1>13. AllPlaced'
  BY <1>2 DEF AllPlaced
<1> QED BY <1>2, <1>6, <1>7, <1>9, <1>12, <1>13 DEF IInv

\* The symbol that a relocation names in another module is there.
LEMMA OutsideFound ==
  ASSUME IInv, pass = "resolve", current \in Rels, current # Nobody,
         NEW l \in todo, NEW t \in Links(current) \cup {Dol}, Id[t] = l.module
  PROVE  l.symbol \in DOMAIN symbols[t]
<1>1. world \in World /\ l \in relocs[current] /\ l.module # Own
  BY DEF IInv, RTypeOK, ItemsRead
<1>2. l \notin world.relocs[current]
  BY <1>1, WorldTyped DEF IInv
<1>3. PICK r \in world.unresolved[current] : Refers(current, l, r)
  BY <1>1, <1>2 DEF IInv, AllRefer
<1>4. PICK u \in Targets(current, r) \ {current} :
        l.module = r.module /\ IsNear(u, l.symbol, l.addend, r)
  BY <1>1, <1>3 DEF Refers
<1>5. u \in Links(current) \cup {Dol} /\ Id[u] = Id[t]
  BY <1>1, <1>4, TargetsTyped
<1>6. u = t
  BY <1>1, <1>5, LinksTyped, LinkAssumption DEF IInv, ItemsRead, UniqueIds
<1> QED BY <1>4, <1>6 DEF IsNear

LEMMA ResolveNewStep == IInv /\ ResolveNew => IInv'
<1> SUFFICES ASSUME IInv, ResolveNew PROVE IInv'
  OBVIOUS
<1>a. PICK new : new = Len(symbols[current]) + 1
  OBVIOUS
<1>1. PICK l \in todo, t \in Links(current) \cup {Dol} :
        /\ Id[t] = l.module
        /\ symbols' = [symbols EXCEPT ![current] = Append(@, Extern(t, l.symbol))]
        /\ externs' = externs \cup {[module |-> l.module, symbol |-> l.symbol, extern |-> new]}
        /\ Replaced(current, l, new) /\ Done(l)
  BY <1>a DEF ResolveNew
<1> DEFINE k == Resolved(l, new)
<1> DEFINE ext == [module |-> l.module, symbol |-> l.symbol, extern |-> new]
<1>2. /\ pass = "resolve" /\ pass' = pass /\ current \in Rels /\ current # Nobody
      /\ world' = world /\ left' = left /\ current' = current /\ unresolved' = unresolved
      /\ todo' = todo \ {l} /\ world \in World /\ current \in Modules
      /\ relocs' = [relocs EXCEPT ![current] = (@ \ {l}) \cup {k}]
  BY <1>1 DEF ResolveNew, Done, Replaced, IInv, RTypeOK, ItemsTyped
<1>3. l \in ObjReloc /\ l \in relocs[current] /\ l.module # Own
  BY <1>1, <1>2 DEF IInv, RTypeOK, ItemsRead
<1>4. t \in Modules
  BY <1>1, <1>2, LinksTyped, LinkAssumption DEF Modules
<1>5. l.symbol \in DOMAIN symbols[t]
  BY <1>1, <1>2, OutsideFound
<1>6. /\ symbols' \in [Modules -> Seq(Symbol)] /\ Kept
      /\ new \in DOMAIN symbols'[current] /\ new \in Nat
      /\ symbols'[current][new] = Extern(t, l.symbol)
  BY <1>a, <1>1, <1>2, <1>4, <1>5, ExternTyped, Appended DEF IInv
<1>7. k \in ObjReloc /\ k.module = Own
  BY <1>3, <1>6, ResolvedTyped
<1> HIDE DEF k
<1>8. relocs' \in [Rels -> SUBSET ObjReloc]
  BY <1>2, <1>7 DEF IInv, RTypeOK
<1>9. RTypeOK' /\ ItemsTyped'
  <2>1. l.module \in Nat /\ l.symbol \in Nat
    BY <1>3 DEF ObjReloc
  <2>2. ext \in [module : Nat, symbol : Nat, extern : Nat]
    BY <1>6, <2>1
  <2>3. externs' \subseteq [module : Nat, symbol : Nat, extern : Nat]
    BY <1>1, <2>2 DEF IInv, RTypeOK
  <2> QED BY <1>2, <1>6, <1>8, <2>3 DEF IInv, RTypeOK, ItemsTyped
<1>10. ItemsRead'
  <2>1. relocs'[current] = (relocs[current] \ {l}) \cup {k}
    BY <1>2 DEF IInv, RTypeOK
  <2> QED BY <1>2, <2>1 DEF IInv, ItemsRead, UniqueIds, Links
<1>11. ExternsStand'
  <2>1. ASSUME NEW e \in externs', NEW u \in Links(current) \cup {Dol}, StandsFor(e, u), e \in externs
        PROVE  StandsFor(e, u)'
    <3>1. u \in Modules
      BY <1>2, LinksTyped, LinkAssumption DEF Modules
    <3>2. /\ e.symbol \in DOMAIN symbols'[u] /\ symbols'[u][e.symbol] = symbols[u][e.symbol]
          /\ e.extern \in DOMAIN symbols'[current]
          /\ symbols'[current][e.extern] = symbols[current][e.extern]
      BY <1>2, <1>6, <2>1, <3>1 DEF StandsFor, Kept
    <3> QED BY <1>2, <2>1, <3>2 DEF StandsFor, Extern
  <2>2. StandsFor(ext, t)'
    <3>1. l.symbol \in DOMAIN symbols'[t] /\ symbols'[t][l.symbol] = symbols[t][l.symbol]
      BY <1>4, <1>5, <1>6 DEF Kept
    <3>2. ext.module = l.module /\ ext.symbol = l.symbol /\ ext.extern = new
      OBVIOUS
    <3> HIDE DEF ext
    <3> QED BY <1>1, <1>2, <1>6, <3>1, <3>2 DEF StandsFor, Extern
  <2>3. Links(current)' = Links(current)
    BY <1>2 DEF Links
  <2> QED BY <1>1, <1>2, <2>1, <2>2, <2>3 DEF IInv, ExternsStand
<1>12. Means(current, k)'
  BY <1>1, <1>2, <1>6, ResolvedMeans DEF k
<1>13. \A m \in Rels : \A j \in relocs'[m] : j \in relocs[m] \/ (m = current /\ j = k)
  BY <1>2 DEF IInv, RTypeOK
<1>14. AllRefer'
  BY <1>2, <1>6, <1>12, <1>13, MeaningStep DEF IInv
<1>15. AllPlaced'
  BY <1>2 DEF AllPlaced
<1> QED BY <1>2, <1>9, <1>10, <1>11, <1>14, <1>15 DEF IInv

-----------------------------------------------------------------------------
LEMMA NextIInv == IInv /\ [Next]_vars => IInv'
<1>1. ASSUME IInv, UNCHANGED vars PROVE IInv'
  <2>1. RTypeOK' /\ ItemsTyped'
    BY <1>1 DEF IInv, RTypeOK, ItemsTyped, vars
  <2> QED BY <1>1, <2>1, QuietStep DEF vars
<1> QED
  BY <1>1, BeginStep, BadLinksStep, EndStep, NextPassStep, LeaveStep, MarkStep, CreateLabelStep,
     CreateStep, ResolveKnownStep, ResolveNewStep DEF Next

LEMMA IInvCorrect == Spec => []IInv
BY InitIInv, NextIInv, PTL DEF Spec

(***************************************************************************)
(* Type correctness: every symbol and every relocation that the three      *)
(* passes make is well formed, whatever the modules and their links.       *)
(***************************************************************************)
THEOREM RTypeCorrect == Spec => []RTypeOK
<1>1. IInv => RTypeOK
  BY DEF IInv
<1> QED BY <1>1, IInvCorrect, PTL

\* Where no external symbol can be in the way, near is the place itself.
LEMMA NearIsTarget ==
  ASSUME IInv, SymbolsPlaced, NEW m, NEW l, NEW r, Refers(m, l, r)
  PROVE  MeansRead(m, l, r)
<1>1. \A t, i, addend : IsNear(t, i, addend, r) => IsTarget(t, i, addend, r)
  BY DEF IsNear, IsTarget
<1> QED BY <1>1 DEF Refers, MeansRead

(***************************************************************************)
(* The relocations of create_relocations mean the section and address that *)
(* those of the file did, and go on to mean them while update_symbols and  *)
(* resolve_external_relocations of other modules add symbols.  A REL that  *)
(* starts with external symbols has to be excepted: for_relocation can     *)
(* find one of those in place of what is at the address.                   *)
(***************************************************************************)
THEOREM LinkingKeepsMeaning == Spec => [](SymbolsPlaced => MeaningKept)
<1>1. IInv /\ SymbolsPlaced => MeaningKept
  BY NearIsTarget DEF IInv, AllRefer, MeaningKept
<1> QED BY <1>1, IInvCorrect, PTL

-----------------------------------------------------------------------------
(* Which symbol is found, and that the labels made meanwhile do not hide it. *)

LEMMA RankType ==
  ASSUME NEW sym, NEW kind
  PROVE  Rank(sym, kind) \in -1 .. 4
<1> DEFINE base == CASE sym.kind = "section" -> -1
                     [] sym.kind = "label" -> IF kind = "half" /\ sym.name \notin Dotted THEN 3 ELSE 1
                     [] OTHER -> IF kind = "half" THEN 1 ELSE 2
<1>1. base \in -1 .. 3
  OBVIOUS
<1>2. Rank(sym, kind) = IF sym.kind \in {"function", "object"} /\ sym.name \in SaveRestore THEN 0
                        ELSE IF sym.size > 0 THEN base + 1 ELSE base
  BY DEF Rank
<1> HIDE DEF base
<1> QED BY <1>1, <1>2

\* Among any candidates one is best.
LEMMA BestExists ==
  ASSUME NEW ss \in Seq(Symbol), NEW C, C \subseteq DOMAIN ss, C # {}, NEW kind
  PROVE  \E i : IsBest(ss, C, kind, i)
<1> DEFINE R == {Rank(ss[j], kind) + 1 : j \in C}
<1>1. R \subseteq 0 .. 5 /\ R # {}
  <2>1. \A j \in C : Rank(ss[j], kind) + 1 \in 0 .. 5
    <3> TAKE j \in C
    <3>1. Rank(ss[j], kind) \in -1 .. 4
      BY RankType
    <3> QED BY <3>1
  <2> QED BY <2>1
<1> DEFINE T == {j \in C : Rank(ss[j], kind) + 1 = Max(R)}
<1>2. \A j \in C : Rank(ss[j], kind) + 1 \in R
  OBVIOUS
<1>3. \A x \in R : \E j \in C : x = Rank(ss[j], kind) + 1
  OBVIOUS
<1> HIDE DEF R
<1>4. Max(R) \in R /\ \A y \in R : y <= Max(R)
  BY <1>1, MaxOfBounded
<1>5. T \subseteq Nat /\ T # {}
  <2>1. DOMAIN ss \subseteq Nat
    OBVIOUS
  <2>2. PICK j \in C : Max(R) = Rank(ss[j], kind) + 1
    BY <1>3, <1>4
  <2> QED BY <2>1, <2>2
<1>6. \A j \in T : j \in C /\ Rank(ss[j], kind) + 1 = Max(R)
  OBVIOUS
<1>7. \A j \in C : Rank(ss[j], kind) + 1 = Max(R) => j \in T
  OBVIOUS
<1> HIDE DEF T
<1>8. Min(T) \in T /\ \A y \in T : Min(T) <= y
  BY <1>5, MinOfNaturals
<1>9. Min(T) \in C /\ Rank(ss[Min(T)], kind) + 1 = Max(R)
  BY <1>6, <1>8
<1>10. ASSUME NEW j \in C
       PROVE  \/ Rank(ss[j], kind) < Rank(ss[Min(T)], kind)
              \/ Rank(ss[j], kind) = Rank(ss[Min(T)], kind) /\ Min(T) <= j
  <2>1. Rank(ss[j], kind) \in Int /\ Rank(ss[Min(T)], kind) \in Int
    BY RankType
  <2>2. Rank(ss[j], kind) + 1 <= Max(R)
    BY <1>2, <1>4
  <2>3. CASE Rank(ss[j], kind) + 1 = Max(R)
    BY <1>7, <1>8, <1>9, <2>1, <2>3
  <2>4. CASE Rank(ss[j], kind) + 1 # Max(R)
    BY <1>9, <2>1, <2>2, <2>4
  <2> QED BY <2>3, <2>4
<1> QED BY <1>9, <1>10 DEF IsBest

LEMMA OneBest ==
  ASSUME NEW ss \in Seq(Symbol), NEW C, C \subseteq DOMAIN ss, NEW kind,
         NEW i, IsBest(ss, C, kind, i), NEW j, IsBest(ss, C, kind, j)
  PROVE  i = j
<1>1. Rank(ss[i], kind) \in Int /\ Rank(ss[j], kind) \in Int
  BY RankType
<1>2. i \in DOMAIN ss /\ j \in DOMAIN ss
  BY DEF IsBest
<1>3. i \in Nat /\ j \in Nat
  BY <1>2
<1>4. /\ Rank(ss[j], kind) < Rank(ss[i], kind)
           \/ (Rank(ss[j], kind) = Rank(ss[i], kind) /\ i <= j)
      /\ Rank(ss[i], kind) < Rank(ss[j], kind)
           \/ (Rank(ss[i], kind) = Rank(ss[j], kind) /\ j <= i)
  BY DEF IsBest
<1> QED BY <1>1, <1>3, <1>4

LEMMA CandidatesIn ==
  ASSUME NEW ss, NEW s, NEW addr, NEW kind
  PROVE  Candidates(ss, s, addr, kind) \subseteq DOMAIN ss
BY DEF Candidates

LEMMA AddressType ==
  ASSUME NEW ss \in Seq(Symbol), NEW i \in DOMAIN ss
  PROVE  ss[i].addr \in Nat /\ ss[i].size \in Nat
<1>1. ss[i] \in Symbol
  OBVIOUS
<1> QED BY <1>1 DEF Symbol

\* There is one symbol at most that a relocation refers to.
LEMMA OneForRelocation ==
  ASSUME NEW ss \in Seq(Symbol), NEW s, NEW addr, NEW kind,
         NEW i, IsForRelocation(ss, s, addr, kind, i)
  PROVE  ForRelocation(ss, s, addr, kind) = i
<1> DEFINE P(j) == IsForRelocation(ss, s, addr, kind, j)
<1>1. ASSUME NEW j, P(j) PROVE i = j
  <2>1. /\ i \in DOMAIN ss /\ Stops(ss, s, addr, kind, i)
        /\ j \in DOMAIN ss /\ Stops(ss, s, addr, kind, j)
        /\ ss[i].addr <= ss[j].addr /\ ss[j].addr <= ss[i].addr
    BY <1>1 DEF IsForRelocation
  <2>2. ss[i].addr = ss[j].addr
    BY <2>1, AddressType
  <2> DEFINE C == Candidates(ss, s, ss[i].addr, kind)
  <2>3. IsBest(ss, C, kind, i) /\ IsBest(ss, C, kind, j)
    BY <2>1, <2>2 DEF Stops
  <2>4. C \subseteq DOMAIN ss
    BY CandidatesIn
  <2> HIDE DEF C
  <2> QED BY <2>3, <2>4, OneBest
<1>2. i \in DOMAIN ss
  BY DEF IsForRelocation
<1>3. ForRelocation(ss, s, addr, kind) = CHOOSE j \in DOMAIN ss : P(j)
  BY <1>2 DEF ForRelocation
<1> HIDE DEF P
<1>4. P(i)
  BY DEF P
<1> QED BY <1>1, <1>2, <1>3, <1>4

\* The best symbol at the target itself is the one.
LEMMA BestAtTarget ==
  ASSUME NEW ss \in Seq(Symbol), NEW s, NEW addr \in Nat, NEW kind,
         NEW i, IsBest(ss, Candidates(ss, s, addr, kind), kind, i)
  PROVE  IsForRelocation(ss, s, addr, kind, i)
<1>1. i \in DOMAIN ss /\ ss[i].addr = addr
  BY DEF IsBest, Candidates
<1>2. Stops(ss, s, addr, kind, i)
  BY <1>1 DEF Stops
<1>3. \A j \in DOMAIN ss : Stops(ss, s, addr, kind, j) => ss[j].addr <= ss[i].addr
  BY <1>1 DEF Stops
<1> QED BY <1>1, <1>2, <1>3 DEF IsForRelocation, Reaches

\* Where nothing is found, there is no symbol to refer to.
LEMMA NothingAtTarget ==
  ASSUME NEW ss \in Seq(Symbol), NEW s, NEW addr \in Nat, NEW kind,
         ForRelocation(ss, s, addr, kind) = NoSymbol
  PROVE  Candidates(ss, s, addr, kind) = {}
<1> SUFFICES ASSUME Candidates(ss, s, addr, kind) # {}
             PROVE  FALSE
  OBVIOUS
<1>1. PICK i : IsBest(ss, Candidates(ss, s, addr, kind), kind, i)
  BY BestExists, CandidatesIn
<1>2. IsForRelocation(ss, s, addr, kind, i)
  BY <1>1, BestAtTarget
<1>3. ForRelocation(ss, s, addr, kind) = i /\ i \in DOMAIN ss
  BY <1>2, OneForRelocation DEF IsForRelocation
<1> QED BY <1>3 DEF NoSymbol

\* A relocation finds a symbol, and the linker keeps it.
Ready(ss, s, addr, kind) ==
  LET i == ForRelocation(ss, s, addr, kind) IN i # NoSymbol /\ ss[i].exported

SizesReferable(ss) ==
  \A i \in DOMAIN ss :
    ss[i].size > 0 /\ ~ss[i].ignored => \A kind \in RelKinds : ReferencedBy(ss[i], kind)

\* What the first pass adds: a label that any relocation may refer to.
IsLabel(new, s, addr) ==
  /\ new.section = s /\ new.addr = addr /\ new.size = 0 /\ new.exported
  /\ \A kind : ReferencedBy(new, kind)

LEMMA LabelIs ==
  ASSUME NEW m \in Modules, NEW r \in RelReloc
  PROVE  IsLabel(Label(m, r), r.target, r.addend)
<1>1. Id[m] \in Nat /\ r.target \in Nat /\ r.addend \in Nat
  BY LinkAssumption DEF RelReloc
<1>2. LabelName(Id[m], r.target, r.addend) \in {"lbl"} \X Nat \X Nat \X Nat
  BY <1>1 DEF LabelName
<1>3. LabelName(Id[m], r.target, r.addend) \notin LinkerLabels
  BY <1>2, LabelAssumption
<1>4. \A kind : ReferencedBy(Label(m, r), kind)
  BY <1>3 DEF ReferencedBy, Label
<1> QED BY <1>4 DEF IsLabel, Label

\* A symbol put behind the others.
Added(ss, new, all) ==
  /\ all \in Seq(Symbol) /\ Len(ss) + 1 \notin DOMAIN ss /\ Len(ss) + 1 \in Nat \ {0}
  /\ DOMAIN all = DOMAIN ss \cup {Len(ss) + 1}
  /\ all[Len(ss) + 1] = new
  /\ \A j \in DOMAIN ss : all[j] = ss[j]

LEMMA AppendAdds ==
  ASSUME NEW ss \in Seq(Symbol), NEW new \in Symbol
  PROVE  Added(ss, new, Append(ss, new))
<1>1. /\ Append(ss, new) \in Seq(Symbol)
      /\ DOMAIN Append(ss, new) = 1 .. Len(ss) + 1 /\ DOMAIN ss = 1 .. Len(ss) /\ Len(ss) \in Nat
      /\ Append(ss, new)[Len(ss) + 1] = new
      /\ \A i \in 1 .. Len(ss) : Append(ss, new)[i] = ss[i]
  OBVIOUS
<1>2. 1 .. Len(ss) + 1 = (1 .. Len(ss)) \cup {Len(ss) + 1}
  BY <1>1
<1> QED BY <1>1, <1>2 DEF Added

LEMMA AddedCandidates ==
  ASSUME NEW ss \in Seq(Symbol), NEW new, NEW all, Added(ss, new, all),
         NEW s2 \in Nat \ {NoSection}, NEW a2 \in Nat, IsLabel(new, s2, a2),
         NEW s, NEW addr, NEW kind
  PROVE  Candidates(all, s, addr, kind) =
           Candidates(ss, s, addr, kind) \cup (IF s = s2 /\ addr = a2 THEN {Len(ss) + 1} ELSE {})
<1> DEFINE n == Len(ss) + 1
<1>1. n \in Candidates(all, s, addr, kind) <=> s = s2 /\ addr = a2
  BY DEF Candidates, Added, IsLabel
<1>2. \A j \in DOMAIN ss : j \in Candidates(all, s, addr, kind) <=> j \in Candidates(ss, s, addr, kind)
  BY DEF Candidates, Added
<1>3. DOMAIN all = DOMAIN ss \cup {n}
  BY DEF Added
<1>4. Candidates(all, s, addr, kind) \subseteq DOMAIN all /\ Candidates(ss, s, addr, kind) \subseteq DOMAIN ss
  BY CandidatesIn
<1> HIDE DEF n
<1>5. Candidates(all, s, addr, kind) =
           Candidates(ss, s, addr, kind) \cup (IF s = s2 /\ addr = a2 THEN {n} ELSE {})
  BY <1>1, <1>2, <1>3, <1>4
<1> QED BY <1>5 DEF n

LEMMA AddedBest ==
  ASSUME NEW ss \in Seq(Symbol), NEW new, NEW all, Added(ss, new, all),
         NEW C, C \subseteq DOMAIN ss, NEW kind, NEW i
  PROVE  IsBest(all, C, kind, i) <=> IsBest(ss, C, kind, i)
<1>1. \A j \in C : all[j] = ss[j]
  BY DEF Added
<1> QED BY <1>1 DEF IsBest

\* The label made for a relocation is the symbol it finds.
LEMMA LabelReady ==
  ASSUME NEW ss \in Seq(Symbol), NEW new, NEW all, Added(ss, new, all),
         NEW s \in Nat \ {NoSection}, NEW addr \in Nat, IsLabel(new, s, addr),
         NEW kind, ForRelocation(ss, s, addr, kind) = NoSymbol
  PROVE  Ready(all, s, addr, kind)
<1> DEFINE n == Len(ss) + 1
<1>1. Candidates(all, s, addr, kind) = {n}
  BY NothingAtTarget, AddedCandidates
<1>2. IsBest(all, Candidates(all, s, addr, kind), kind, n)
  <2>1. n \in Int
    BY DEF Added
  <2> QED BY <1>1, <2>1 DEF IsBest
<1>3. all \in Seq(Symbol)
  BY DEF Added
<1>4. ForRelocation(all, s, addr, kind) = n
  BY <1>2, <1>3, BestAtTarget, OneForRelocation
<1>5. n # NoSymbol /\ all[n].exported
  BY DEF Added, IsLabel, NoSymbol
<1> QED BY <1>4, <1>5 DEF Ready

\* A label made for another relocation does not hide what one finds.
LEMMA LabelHidesNothing ==
  ASSUME NEW ss \in Seq(Symbol), SizesReferable(ss), NEW new, NEW all, Added(ss, new, all),
         NEW s2 \in Nat \ {NoSection}, NEW a2 \in Nat, IsLabel(new, s2, a2),
         NEW k2 \in RelKinds, ForRelocation(ss, s2, a2, k2) = NoSymbol,
         NEW s, NEW addr \in Nat, NEW kind \in RelKinds, Ready(ss, s, addr, kind)
  PROVE  Ready(all, s, addr, kind)
<1> DEFINE i == ForRelocation(ss, s, addr, kind)
           n == Len(ss) + 1
<1>1. IsForRelocation(ss, s, addr, kind, i) /\ ss[i].exported
  <2>1. i # NoSymbol /\ ss[i].exported
    BY DEF Ready
  <2> DEFINE P(j) == IsForRelocation(ss, s, addr, kind, j)
  <2>2. (\E j \in DOMAIN ss : P(j)) /\ i = CHOOSE j \in DOMAIN ss : P(j)
    BY <2>1 DEF ForRelocation
  <2> HIDE DEF P, i
  <2>3. P(i)
    BY <2>2
  <2> QED BY <2>1, <2>3 DEF P
<1> HIDE DEF i
<1>2. /\ all \in Seq(Symbol) /\ DOMAIN all = DOMAIN ss \cup {n} /\ n \notin DOMAIN ss
      /\ all[n] = new /\ \A j \in DOMAIN ss : all[j] = ss[j]
  BY DEF Added
<1>3. /\ new.addr = a2 /\ new.size = 0 /\ new.exported /\ new.section = s2
  BY DEF IsLabel
<1>4. /\ i \in DOMAIN ss /\ Stops(ss, s, addr, kind, i) /\ Reaches(ss[i], addr)
      /\ \A j \in DOMAIN ss : Stops(ss, s, addr, kind, j) => ss[j].addr <= ss[i].addr
  BY <1>1 DEF IsForRelocation
<1>5. n # NoSymbol /\ i # NoSymbol
  BY <1>4 DEF Added, NoSymbol
<1>6. \A x, k : Candidates(all, s, x, k) =
                  Candidates(ss, s, x, k) \cup (IF s = s2 /\ x = a2 THEN {n} ELSE {})
  BY AddedCandidates
<1> HIDE DEF n
<1>7. CASE s = s2 /\ addr = a2
  <2>1. PICK b : IsBest(all, Candidates(all, s, addr, kind), kind, b)
    <3>1. Candidates(all, s, addr, kind) # {}
      BY <1>6, <1>7
    <3> QED BY <1>2, <3>1, BestExists, CandidatesIn
  <2>2. ForRelocation(all, s, addr, kind) = b
    BY <1>2, <2>1, BestAtTarget, OneForRelocation
  <2>3. CASE b = n
    BY <1>2, <1>3, <1>5, <2>2, <2>3 DEF Ready
  <2>4. CASE b # n
    <3>1. b \in Candidates(ss, s, addr, kind)
      BY <1>6, <2>1, <2>4 DEF IsBest
    <3>2. Candidates(ss, s, addr, kind) \subseteq Candidates(all, s, addr, kind)
      BY <1>6
    <3>3. Candidates(ss, s, addr, kind) \subseteq DOMAIN ss
      BY CandidatesIn
    <3>4. IsBest(ss, Candidates(ss, s, addr, kind), kind, b)
      BY <1>2, <2>1, <3>1, <3>2, <3>3 DEF IsBest
    <3>5. b = i
      <4>1. ForRelocation(ss, s, addr, kind) = b
        BY <3>4, BestAtTarget, OneForRelocation
      <4> QED BY <4>1 DEF i
    <3> QED BY <1>1, <1>2, <1>4, <1>5, <2>2, <3>5 DEF Ready
  <2> QED BY <2>3, <2>4
<1>8. CASE ~(s = s2 /\ addr = a2)
  <2>1. \A j \in DOMAIN all : Stops(all, s, addr, kind, j) =>
          j \in DOMAIN ss /\ (s = s2 => all[j].addr # a2)
    <3> TAKE j \in DOMAIN all
    <3> HAVE Stops(all, s, addr, kind, j)
    <3>1. /\ j \in Candidates(all, s, all[j].addr, kind)
          /\ all[j].addr = addr \/ all[j].size > 0
      BY DEF Stops, IsBest
    <3>2. j # n
      <4> SUFFICES ASSUME j = n
                   PROVE  FALSE
        OBVIOUS
      <4>1. all[n].addr = a2 /\ all[n].size = 0
        BY <1>2, <1>3
      <4>2. a2 = addr
        BY <3>1, <4>1
      <4>3. n \notin Candidates(ss, s, a2, kind)
        BY <1>2, CandidatesIn
      <4> QED BY <1>6, <1>8, <3>1, <4>1, <4>2, <4>3
    <3>3. j \in DOMAIN ss /\ all[j] = ss[j]
      BY <1>2, <3>2
    <3>4. ASSUME s = s2, all[j].addr = a2
          PROVE  FALSE
      <4>1. ss[j].size > 0
        BY <1>8, <3>1, <3>3, <3>4
      <4>2. j \in Candidates(ss, s, a2, kind)
        BY <1>6, <3>1, <3>2, <3>4
      <4>3. ~ss[j].ignored /\ ss[j].section \in {NoSection, s} /\ ss[j].addr = a2
        BY <4>2 DEF Candidates, ReferencedBy
      <4>4. ReferencedBy(ss[j], k2)
        BY <3>3, <4>1, <4>3 DEF SizesReferable
      <4>5. j \in Candidates(ss, s2, a2, k2)
        BY <3>3, <3>4, <4>3, <4>4 DEF Candidates
      <4> QED BY <4>5, NothingAtTarget
    <3> QED BY <3>3, <3>4
  <2>2. ASSUME NEW j \in DOMAIN ss, s = s2 => ss[j].addr # a2
        PROVE  Stops(all, s, addr, kind, j) <=> Stops(ss, s, addr, kind, j)
    <3>1. Candidates(all, s, ss[j].addr, kind) = Candidates(ss, s, ss[j].addr, kind)
      BY <1>6, <2>2
    <3>2. Candidates(ss, s, ss[j].addr, kind) \subseteq DOMAIN ss
      BY CandidatesIn
    <3>3. IsBest(all, Candidates(ss, s, ss[j].addr, kind), kind, j)
             <=> IsBest(ss, Candidates(ss, s, ss[j].addr, kind), kind, j)
      BY <3>2, AddedBest
    <3>4. all[j] = ss[j]
      BY <1>2
    <3> QED BY <3>1, <3>3, <3>4 DEF Stops
  <2>3. s = s2 => ss[i].addr # a2
    <3> SUFFICES ASSUME s = s2, ss[i].addr = a2
                 PROVE  FALSE
      OBVIOUS
    <3>1. /\ i \in Candidates(ss, s, a2, kind)
          /\ ss[i].addr = addr \/ ss[i].size > 0
      BY <1>4 DEF Stops, IsBest
    <3>2. ss[i].size > 0
      BY <1>8, <3>1
    <3>3. ~ss[i].ignored /\ ss[i].section \in {NoSection, s} /\ ss[i].addr = a2
      BY <3>1 DEF Candidates, ReferencedBy
    <3>4. ReferencedBy(ss[i], k2)
      BY <1>4, <3>2, <3>3 DEF SizesReferable
    <3>5. i \in Candidates(ss, s2, a2, k2)
      BY <1>4, <3>3, <3>4 DEF Candidates
    <3> QED BY <3>5, NothingAtTarget
  <2>4. IsForRelocation(all, s, addr, kind, i)
    <3>1. i \in DOMAIN all /\ all[i] = ss[i]
      BY <1>2, <1>4
    <3>2. Stops(all, s, addr, kind, i)
      BY <1>4, <2>2, <2>3
    <3>3. \A j \in DOMAIN all : Stops(all, s, addr, kind, j) => all[j].addr <= all[i].addr
      <4> TAKE j \in DOMAIN all
      <4> HAVE Stops(all, s, addr, kind, j)
      <4>1. j \in DOMAIN ss /\ (s = s2 => all[j].addr # a2) /\ all[j] = ss[j]
        BY <1>2, <2>1
      <4>2. Stops(ss, s, addr, kind, j)
        BY <2>2, <4>1
      <4> QED BY <1>4, <3>1, <4>1, <4>2
    <3> QED BY <1>4, <3>1, <3>2, <3>3 DEF IsForRelocation
  <2>5. ForRelocation(all, s, addr, kind) = i
    BY <1>2, <2>4, OneForRelocation
  <2> QED BY <1>1, <1>2, <1>4, <1>5, <2>5 DEF Ready
<1> QED BY <1>7, <1>8

\* The flag of a symbol has no part in which one is found.
Flagged(ss, x, all) == all = [ss EXCEPT ![x].exported = TRUE]

LEMMA FlagHidesNothing ==
  ASSUME NEW ss \in Seq(Symbol), NEW x \in DOMAIN ss, NEW all \in Seq(Symbol), Flagged(ss, x, all),
         NEW s, NEW addr, NEW kind
  PROVE  /\ ForRelocation(all, s, addr, kind) = ForRelocation(ss, s, addr, kind)
         /\ Ready(ss, s, addr, kind) => Ready(all, s, addr, kind)
         /\ ForRelocation(ss, s, addr, kind) = x => Ready(all, s, addr, kind)
<1>1. /\ DOMAIN all = DOMAIN ss
      /\ \A j \in DOMAIN ss :
           /\ all[j].addr = ss[j].addr /\ all[j].size = ss[j].size /\ all[j].section = ss[j].section
           /\ all[j].kind = ss[j].kind /\ all[j].name = ss[j].name /\ all[j].ignored = ss[j].ignored
           /\ ss[j].exported => all[j].exported
      /\ all[x].exported
  <2>1. \A j \in DOMAIN ss : ss[j] \in Symbol
    OBVIOUS
  <2>a. all = [ss EXCEPT ![x].exported = TRUE]
    BY DEF Flagged
  <2>2. all[x] = [ss[x] EXCEPT !.exported = TRUE] /\ \A j \in DOMAIN ss \ {x} : all[j] = ss[j]
    BY <2>a
  <2> QED BY <2>1, <2>a, <2>2 DEF Symbol
<1>2. \A j \in DOMAIN ss : /\ Rank(all[j], kind) = Rank(ss[j], kind)
                           /\ ReferencedBy(all[j], kind) <=> ReferencedBy(ss[j], kind)
  BY <1>1 DEF Rank, ReferencedBy
<1>3. \A a : Candidates(all, s, a, kind) = Candidates(ss, s, a, kind)
  BY <1>1, <1>2 DEF Candidates
<1>4. ASSUME NEW C, C \subseteq DOMAIN ss, NEW i
      PROVE  IsBest(all, C, kind, i) <=> IsBest(ss, C, kind, i)
  BY <1>2, <1>4 DEF IsBest
<1>5. \A j \in DOMAIN ss : Stops(all, s, addr, kind, j) <=> Stops(ss, s, addr, kind, j)
  <2> TAKE j \in DOMAIN ss
  <2>1. Candidates(ss, s, ss[j].addr, kind) \subseteq DOMAIN ss
    BY CandidatesIn
  <2>a. Candidates(all, s, all[j].addr, kind) = Candidates(ss, s, ss[j].addr, kind)
    <3>1. all[j].addr = ss[j].addr
      BY <1>1
    <3> QED BY <1>3, <3>1
  <2>b. IsBest(all, Candidates(ss, s, ss[j].addr, kind), kind, j)
          <=> IsBest(ss, Candidates(ss, s, ss[j].addr, kind), kind, j)
    BY <1>4, <2>1
  <2>2. IsBest(all, Candidates(all, s, all[j].addr, kind), kind, j)
          <=> IsBest(ss, Candidates(ss, s, ss[j].addr, kind), kind, j)
    BY <2>a, <2>b
  <2> QED BY <1>1, <2>2 DEF Stops
<1>6. \A i : IsForRelocation(all, s, addr, kind, i) <=> IsForRelocation(ss, s, addr, kind, i)
  BY <1>1, <1>5 DEF IsForRelocation, Reaches
<1>7. ForRelocation(all, s, addr, kind) = ForRelocation(ss, s, addr, kind)
  BY <1>1, <1>6 DEF ForRelocation
<1>8. ForRelocation(ss, s, addr, kind) \in DOMAIN ss \cup {NoSymbol}
  <2> DEFINE P(j) == IsForRelocation(ss, s, addr, kind, j)
  <2>1. CASE \E j \in DOMAIN ss : P(j)
    <3>1. ForRelocation(ss, s, addr, kind) = CHOOSE j \in DOMAIN ss : P(j)
      BY <2>1 DEF ForRelocation
    <3> HIDE DEF P
    <3> QED BY <2>1, <3>1
  <2>2. CASE ~\E j \in DOMAIN ss : P(j)
    BY <2>2 DEF ForRelocation
  <2> QED BY <2>1, <2>2
<1>9. x # NoSymbol
  BY DEF NoSymbol
<1> QED BY <1>1, <1>7, <1>8, <1>9 DEF Ready

-----------------------------------------------------------------------------
(***************************************************************************)
(* The second invariant.  What a module is asked for is ready, as soon as  *)
(* the first pass has looked at it; the second pass asks for nothing else. *)
(***************************************************************************)
Passing ==
  /\ pass = "symbols" => unresolved = world.unresolved
  /\ current # Nobody => left # <<>> /\ current = Head(left)
  /\ pass = "relocs" => \A m \in Rels : world.relocs[m] \subseteq relocs[m]
  /\ pass = "relocs" /\ current # Nobody => UniqueIds(current)

Sized == pass \in {"symbols", "relocs"} => \A t \in Modules : SizesReferable(symbols[t])

\* A relocation that the first pass does not pass over.
Wants(t, m, r) ==
  /\ m \in Sources(t) /\ r \in world.unresolved[m]
  /\ r.module = Id[t] /\ r.target \in Sections[t]
  /\ Id[m] = Id[t] =>
       /\ ~Sourceless(t, r)
       /\ ~\E l \in world.relocs[t] : l.section = r.section /\ l.at = r.at

\* It is still to be looked at.
Awaits(t, m, r) ==
  /\ pass = "symbols"
  /\ \E i \in DOMAIN left : left[i] = t
  /\ t = current => [from |-> m, reloc |-> r] \in todo

Met(t, r) == Ready(symbols[t], r.target, r.addend, r.kind)

Prepared ==
  pass \in {"symbols", "relocs"} =>
    \A t \in Modules, m \in Rels, r \in RelReloc :
      Wants(t, m, r) /\ ~Awaits(t, m, r) => Met(t, r)

ExportedAt(t, i) == i \in DOMAIN symbols[t] /\ symbols[t][i].exported

Exporting ==
  \A m \in Rels : \A l \in relocs[m] :
    l.module # Own => \A t \in Targets(m, l) : ExportedAt(t, l.symbol)

ReadyInv == Passing /\ (Linkable => Sized /\ Prepared /\ Exporting)

LEMMA SameLinks ==
  ASSUME world' = world
  PROVE  /\ Linkable' <=> Linkable
         /\ \A t, m, r : Wants(t, m, r)' <=> Wants(t, m, r)
         /\ \A m, r : Targets(m, r)' = Targets(m, r)
<1>1. Linkable' <=> Linkable
  BY DEF Linkable, LinksMutual, Links, DolIndexed, SizedReferable
<1>2. \A t, m, r : Wants(t, m, r)' <=> Wants(t, m, r)
  BY DEF Wants, Sources, Links, Sourceless
<1>3. \A m, r : Targets(m, r)' = Targets(m, r)
  BY DEF Targets, Links
<1> QED BY <1>1, <1>2, <1>3

\* What has been looked at stays ready, and what no longer waits is.
LEMMA PreparedStep ==
  ASSUME world' = world, Prepared,
         pass' \in {"symbols", "relocs"} => pass \in {"symbols", "relocs"},
         pass' \in {"symbols", "relocs"} =>
           \A t \in Modules, m \in Rels, r \in RelReloc :
             /\ Met(t, r) => Met(t, r)'
             /\ Wants(t, m, r) /\ Awaits(t, m, r) /\ ~Awaits(t, m, r)' => Met(t, r)'
  PROVE  Prepared'
<1> SUFFICES ASSUME pass' \in {"symbols", "relocs"},
                    NEW t \in Modules, NEW m \in Rels, NEW r \in RelReloc,
                    Wants(t, m, r)', ~Awaits(t, m, r)'
             PROVE  Met(t, r)'
  BY DEF Prepared
<1>1. Wants(t, m, r)
  BY SameLinks
<1>2. CASE Awaits(t, m, r)
  BY <1>1, <1>2
<1>3. CASE ~Awaits(t, m, r)
  <2>1. Met(t, r)
    BY <1>1, <1>3 DEF Prepared
  <2> QED BY <2>1
<1> QED BY <1>2, <1>3

LEMMA SameMet ==
  ASSUME symbols' = symbols
  PROVE  \A t, r : Met(t, r)' <=> Met(t, r)
BY DEF Met

\* Exported symbols stay where they are, and relocations to them as well.
LEMMA ExportingStep ==
  ASSUME world' = world, Exporting, world \in World,
         \A t \in Modules : \A i : ExportedAt(t, i) => ExportedAt(t, i)',
         \A m \in Rels : \A l \in relocs'[m] :
           l \in relocs[m] \/ l.module = Own \/ \A t \in Targets(m, l) : ExportedAt(t, l.symbol)'
  PROVE  Exporting'
<1> SUFFICES ASSUME NEW m \in Rels, NEW l \in relocs'[m], l.module # Own, NEW t \in Targets(m, l)
             PROVE  ExportedAt(t, l.symbol)'
  BY SameLinks DEF Exporting
<1>1. t \in Modules
  BY TargetsTyped
<1>2. CASE l \in relocs[m]
  <2>1. ExportedAt(t, l.symbol)
    BY <1>2 DEF Exporting
  <2> QED BY <1>1, <2>1
<1> QED BY <1>2

LEMMA KeptExported ==
  ASSUME Kept
  PROVE  \A t \in Modules : \A i : ExportedAt(t, i) => ExportedAt(t, i)'
BY DEF Kept, ExportedAt

LEMMA InitReady ==
  ASSUME Init
  PROVE  ReadyInv
<1>1. world \in Worlds /\ pass = "symbols" /\ left = <<Dol>> \o Order /\ current = Nobody
      /\ symbols = world.symbols /\ unresolved = world.unresolved /\ relocs = world.relocs
  BY DEF Init
<1>2. Passing
  BY <1>1 DEF Passing
<1>3. Linkable => Sized
  BY <1>1 DEF Linkable, SizedReferable, SizesReferable, Sized
<1>4. Prepared
  <2> SUFFICES ASSUME NEW t \in Modules
               PROVE  \E i \in DOMAIN left : left[i] = t
    BY <1>1, LinkAssumption DEF Prepared, Awaits, Modules
  <2>1. Order \in Seq(Rels) /\ \A m \in Rels : \E i \in DOMAIN Order : Order[i] = m
    BY LinkAssumption
  <2>2. CASE t = Dol
    <3>1. 1 \in DOMAIN left /\ left[1] = Dol
      BY <1>1, <2>1
    <3> QED BY <2>2, <3>1
  <2>3. CASE t \in Rels
    <3>1. PICK i \in DOMAIN Order : Order[i] = t
      BY <2>1, <2>3
    <3>2. i + 1 \in DOMAIN left /\ left[i + 1] = Order[i]
      BY <1>1, <2>1
    <3> QED BY <3>1, <3>2
  <2> QED BY <2>2, <2>3 DEF Modules
<1>5. Exporting
  BY <1>1, WorldTyped DEF Exporting
<1> QED BY <1>2, <1>3, <1>4, <1>5 DEF ReadyInv

\* The references that the first pass takes up are those that are wanted.
LEMMA WantedIsReference ==
  ASSUME RTypeOK, unresolved = world.unresolved,
         NEW t \in Modules, NEW m \in Rels, NEW r \in RelReloc, Wants(t, m, r)
  PROVE  [from |-> m, reloc |-> r] \in References(t)
<1>1. m \in Sources(t) /\ r \in unresolved[m] /\ r.module = Id[t]
  BY DEF Wants
<1>2. [from |-> m, reloc |-> r] \in [from : Sources(t), reloc : UNION {unresolved[k] : k \in Sources(t)}]
  BY <1>1
<1> QED BY <1>1, <1>2 DEF References

LEMMA BeginReady ==
  ASSUME IInv, ReadyInv, Begin
  PROVE  ReadyInv'
<1> DEFINE c == Head(left)
<1>1. /\ pass \in {"symbols", "relocs", "resolve"} /\ current = Nobody /\ left # <<>>
      /\ c # Dol => (pass # "symbols" => UniqueIds(c))
      /\ current' = c /\ todo' = Work(c)
      /\ unresolved' = IF pass = "relocs" THEN [unresolved EXCEPT ![c] = {}] ELSE unresolved
      /\ world' = world /\ pass' = pass /\ left' = left /\ symbols' = symbols /\ relocs' = relocs
  BY DEF Begin
<1>2. pass # "symbols" => c \in Rels
  BY <1>1 DEF IInv, ItemsTyped
<1>3. Passing'
  <2>1. UniqueIds(c)' = UniqueIds(c)
    BY <1>1 DEF UniqueIds, Links
  <2>2. pass # "symbols" => c # Dol
    BY <1>2, LinkAssumption
  <2> QED BY <1>1, <2>1, <2>2 DEF ReadyInv, Passing, UniqueIds, Links
<1>4. Linkable => Sized'
  BY <1>1 DEF ReadyInv, Sized
<1>5. ASSUME Prepared PROVE Prepared'
  <2>1. ASSUME NEW t \in Modules, NEW m \in Rels, NEW r \in RelReloc,
               Wants(t, m, r), Awaits(t, m, r), ~Awaits(t, m, r)'
        PROVE  FALSE
    <3>1. pass = "symbols" /\ t = current' /\ [from |-> m, reloc |-> r] \notin todo'
      BY <1>1, <2>1 DEF Awaits
    <3>2. todo' = References(t)
      BY <1>1, <3>1 DEF Work
    <3> QED BY <2>1, <3>1, <3>2, WantedIsReference DEF IInv, ReadyInv, Passing
  <2> QED BY <1>1, <1>5, <2>1, SameMet, PreparedStep
<1>6. ASSUME Exporting PROVE Exporting'
  BY <1>1, <1>6, SameKept, KeptExported, ExportingStep DEF IInv, RTypeOK
<1> QED BY <1>1, <1>3, <1>4, <1>5, <1>6, SameLinks DEF ReadyInv

LEMMA EndReady ==
  ASSUME IInv, ReadyInv, End
  PROVE  ReadyInv'
<1>1. /\ current # Nobody /\ todo = {} /\ pass # "failed" /\ current' = Nobody /\ left' = Tail(left)
      /\ UNCHANGED <<world, pass, todo, symbols, unresolved, relocs, externs>>
  BY DEF End
<1>2. left \in Seq(Modules) /\ left # <<>> /\ current = Head(left)
  BY <1>1 DEF IInv, RTypeOK, ReadyInv, Passing
<1>3. Passing'
  BY <1>1 DEF ReadyInv, Passing
<1>4. Linkable => Sized'
  BY <1>1 DEF ReadyInv, Sized
<1>5. ASSUME Prepared PROVE Prepared'
  <2>1. ASSUME NEW t \in Modules, NEW m \in Rels, NEW r \in RelReloc,
               Awaits(t, m, r), ~Awaits(t, m, r)'
        PROVE  FALSE
    <3>1. PICK i \in DOMAIN left : left[i] = t
      BY <2>1 DEF Awaits
    <3>2. t # current
      BY <1>1, <2>1 DEF Awaits
    <3>3. i # 1 /\ i - 1 \in DOMAIN Tail(left) /\ Tail(left)[i - 1] = t
      BY <1>2, <3>1, <3>2
    <3>4. t # Nobody
      BY LinkAssumption
    <3> QED BY <1>1, <2>1, <3>3, <3>4 DEF Awaits
  <2> QED BY <1>1, <1>5, <2>1, SameMet, PreparedStep
<1>6. ASSUME Exporting PROVE Exporting'
  BY <1>1, <1>6, SameKept, KeptExported, ExportingStep DEF IInv, RTypeOK
<1> QED BY <1>1, <1>3, <1>4, <1>5, <1>6, SameLinks DEF ReadyInv

LEMMA NextPassReady ==
  ASSUME IInv, ReadyInv, NextPass
  PROVE  ReadyInv'
<1>1. /\ pass \in {"symbols", "relocs", "resolve"} /\ current = Nobody /\ left = <<>>
      /\ pass' = Following(pass)
      /\ UNCHANGED <<world, current, todo, symbols, unresolved, relocs, externs>>
  BY DEF NextPass
<1>2. pass' \in {"relocs", "resolve", "done"} /\ (pass' = "relocs" => pass = "symbols")
  BY <1>1 DEF Following
<1>3. Passing'
  <2>1. pass' = "relocs" => relocs = world.relocs
    BY <1>2 DEF IInv, ItemsRead
  <2> QED BY <1>1, <1>2, <2>1 DEF Passing
<1>4. Linkable => Sized'
  BY <1>1, <1>2 DEF ReadyInv, Sized
<1>5. ASSUME Prepared PROVE Prepared'
  <2>1. \A t, m, r : ~Awaits(t, m, r)
    BY <1>1 DEF Awaits
  <2> QED BY <1>1, <1>2, <1>5, <2>1, SameMet, PreparedStep
<1>6. ASSUME Exporting PROVE Exporting'
  BY <1>1, <1>6, SameKept, KeptExported, ExportingStep DEF IInv, RTypeOK
<1> QED BY <1>1, <1>3, <1>4, <1>5, <1>6, SameLinks DEF ReadyInv

\* The steps that fail, and those that come after the second pass.
LEMMA FailReady ==
  ASSUME IInv, ReadyInv, BadLinks \/ NoTarget \/ NotFound
  PROVE  ReadyInv'
<1>1. pass' = "failed" /\ UNCHANGED <<world, left, current, symbols, unresolved, relocs>>
  BY DEF BadLinks, NoTarget, NotFound
<1>2. Passing' /\ Sized' /\ Prepared'
  BY <1>1 DEF ReadyInv, Passing, Sized, Prepared
<1>3. ASSUME Exporting PROVE Exporting'
  BY <1>1, <1>3, SameKept, KeptExported, ExportingStep DEF IInv, RTypeOK
<1> QED BY <1>1, <1>2, <1>3, SameLinks DEF ReadyInv

\* Nothing is looked at.
LEMMA StillReady ==
  ASSUME IInv, ReadyInv, UNCHANGED vars
  PROVE  ReadyInv'
BY DEF ReadyInv, Passing, UniqueIds, Links, Linkable, LinksMutual, DolIndexed, SizedReferable, Sized,
       Prepared, Wants, Sources, Sourceless, Awaits, Met, Exporting, Targets, ExportedAt, vars

LEMMA PassOverReady ==
  ASSUME IInv, ReadyInv, PassOver
  PROVE  ReadyInv'
<1>1. PICK ref \in todo : PassesOver(current, ref) /\ todo' = todo \ {ref}
  BY DEF PassOver, Done
<1>2. /\ pass = "symbols" /\ pass' = pass /\ current # Nobody
      /\ UNCHANGED <<world, left, current, symbols, unresolved, relocs>>
  BY DEF PassOver
<1>3. Passing'
  BY <1>2 DEF ReadyInv, Passing
<1>4. Linkable => Sized'
  BY <1>2 DEF ReadyInv, Sized
<1>5. ASSUME Prepared PROVE Prepared'
  <2>1. ASSUME NEW t \in Modules, NEW m \in Rels, NEW r \in RelReloc,
               Wants(t, m, r), Awaits(t, m, r), ~Awaits(t, m, r)'
        PROVE  FALSE
    <3>1. t = current /\ ref = [from |-> m, reloc |-> r]
      BY <1>1, <1>2, <2>1 DEF Awaits
    <3>2. ref.from = m /\ ref.reloc = r
      BY <3>1
    <3>3. \/ Id[m] = Id[t] /\ (Sourceless(t, r) \/ Taken(t, r))
          \/ r.target \notin Sections[t]
      BY <1>1, <3>1, <3>2 DEF PassesOver
    <3>4. relocs = world.relocs
      BY <1>2 DEF IInv, ItemsRead
    <3> QED BY <2>1, <3>3, <3>4 DEF Wants, Taken
  <2> QED BY <1>2, <1>5, <2>1, SameMet, PreparedStep
<1>6. ASSUME Exporting PROVE Exporting'
  BY <1>2, <1>6, SameKept, KeptExported, ExportingStep DEF IInv, RTypeOK
<1> QED BY <1>2, <1>3, <1>4, <1>5, <1>6, SameLinks DEF ReadyInv

LEMMA SkipReady ==
  ASSUME IInv, ReadyInv, Skip
  PROVE  ReadyInv'
<1>1. /\ pass = "relocs" /\ pass' = pass
      /\ UNCHANGED <<world, left, current, symbols, unresolved, relocs>>
  BY DEF Skip
<1>2. Passing'
  BY <1>1 DEF ReadyInv, Passing, UniqueIds, Links
<1>3. Linkable => Sized'
  BY <1>1 DEF ReadyInv, Sized
<1>4. ASSUME Prepared PROVE Prepared'
  <2>1. \A t, m, r : ~Awaits(t, m, r)
    BY <1>1 DEF Awaits
  <2> QED BY <1>1, <1>4, <2>1, SameMet, PreparedStep
<1>5. ASSUME Exporting PROVE Exporting'
  BY <1>1, <1>5, SameKept, KeptExported, ExportingStep DEF IInv, RTypeOK
<1> QED BY <1>1, <1>2, <1>3, <1>4, <1>5, SameLinks DEF ReadyInv

\* A step of the first pass that makes the reference it looks at ready.
LEMMA MetStep ==
  ASSUME IInv, ReadyInv, pass = "symbols", pass' = pass, current \in Modules,
         UNCHANGED <<world, left, current, unresolved, relocs>>,
         NEW ref \in todo, todo' = todo \ {ref},
         \A t \in Modules \ {current} : symbols'[t] = symbols[t],
         Linkable => SizesReferable(symbols'[current]),
         Linkable => Met(current, ref.reloc)' /\
           \A r \in RelReloc : Met(current, r) => Met(current, r)'
  PROVE  ReadyInv'
<1>1. Passing'
  BY DEF ReadyInv, Passing
<1>2. Linkable => Sized'
  BY DEF ReadyInv, Sized
<1>3. ASSUME Prepared, Linkable PROVE Prepared'
  <2>1. ASSUME NEW t \in Modules, NEW m \in Rels, NEW r \in RelReloc,
               Wants(t, m, r), Awaits(t, m, r), ~Awaits(t, m, r)'
        PROVE  Met(t, r)'
    <3>1. t = current /\ ref = [from |-> m, reloc |-> r]
      BY <2>1 DEF Awaits
    <3>2. ref.reloc = r
      BY <3>1
    <3> QED BY <1>3, <3>1, <3>2
  <2>2. ASSUME NEW t \in Modules, NEW r \in RelReloc, Met(t, r)
        PROVE  Met(t, r)'
    <3>1. CASE t = current
      BY <1>3, <2>2, <3>1
    <3>2. CASE t # current
      BY <2>2, <3>2 DEF Met
    <3> QED BY <3>1, <3>2
  <2> QED BY <1>3, <2>1, <2>2, PreparedStep
<1>4. Exporting'
  <2>1. \A m \in Rels : \A l \in relocs'[m] : l.module = Own
    BY WorldTyped DEF IInv, ItemsRead
  <2> QED BY <2>1 DEF Exporting
<1> QED BY <1>1, <1>2, <1>3, <1>4, SameLinks DEF ReadyInv

LEMMA MarkReady ==
  ASSUME IInv, ReadyInv, Mark
  PROVE  ReadyInv'
<1>1. PICK ref \in todo :
        /\ todo' = todo \ {ref} /\ Referred(current, ref.reloc) # NoSymbol
        /\ symbols' = [symbols EXCEPT ![current][Referred(current, ref.reloc)].exported = TRUE]
  BY DEF Mark, Done
<1>2. /\ pass = "symbols" /\ pass' = pass /\ current \in Modules
      /\ UNCHANGED <<world, left, current, unresolved, relocs>>
  BY DEF Mark, IInv, RTypeOK
<1> DEFINE ss == symbols[current]
           all == symbols'[current]
           x == Referred(current, ref.reloc)
<1>3. x \in DOMAIN ss
  BY <1>1, ForRelocationFound DEF Referred
<1>4. ss \in Seq(Symbol) /\ all = [ss EXCEPT ![x].exported = TRUE]
  BY <1>1, <1>2 DEF IInv, RTypeOK
<1>5. all \in Seq(Symbol)
  BY <1>1, <1>2, <1>3, FlagTyped DEF IInv
<1>6. \A t \in Modules \ {current} : symbols'[t] = symbols[t]
  BY <1>1, <1>2 DEF IInv, RTypeOK
<1>7. x = ForRelocation(ss, ref.reloc.target, ref.reloc.addend, ref.reloc.kind)
  BY DEF Referred
<1> HIDE DEF ss, all, x
<1>8. \A s, addr, kind : /\ Ready(ss, s, addr, kind) => Ready(all, s, addr, kind)
                         /\ ForRelocation(ss, s, addr, kind) = x => Ready(all, s, addr, kind)
  <2>1. Flagged(ss, x, all)
    BY <1>4 DEF Flagged
  <2> TAKE s, addr, kind
  <2>2. ss \in Seq(Symbol)
    BY <1>4
  <2> QED BY <1>3, <1>5, <2>1, <2>2, FlagHidesNothing
<1>9. SizesReferable(ss) => SizesReferable(all)
  <2>1. \A j \in DOMAIN ss : ss[j] \in Symbol
    BY <1>4
  <2>2. DOMAIN all = DOMAIN ss /\ all[x] = [ss[x] EXCEPT !.exported = TRUE]
        /\ \A j \in DOMAIN ss \ {x} : all[j] = ss[j]
    BY <1>3, <1>4
  <2>3. \A j \in DOMAIN ss : /\ all[j].size = ss[j].size /\ all[j].ignored = ss[j].ignored
                             /\ all[j].name = ss[j].name /\ all[j].kind = ss[j].kind
    BY <2>1, <2>2 DEF Symbol
  <2> QED BY <2>2, <2>3 DEF SizesReferable, ReferencedBy
<1>10. Linkable => SizesReferable(all)
  BY <1>2, <1>9 DEF ReadyInv, Sized, ss
<1>11. /\ Met(current, ref.reloc)'
       /\ \A r \in RelReloc : Met(current, r) => Met(current, r)'
  BY <1>2, <1>7, <1>8 DEF Met, ss, all
<1> QED BY <1>1, <1>2, <1>6, <1>10, <1>11, MetStep DEF all

LEMMA CreateLabelReady ==
  ASSUME IInv, ReadyInv, CreateLabel
  PROVE  ReadyInv'
<1>1. PICK ref \in todo :
        /\ ~PassesOver(current, ref) /\ todo' = todo \ {ref}
        /\ Referred(current, ref.reloc) = NoSymbol
        /\ symbols' = IF world.create
                      THEN [symbols EXCEPT ![current] = Append(@, Label(current, ref.reloc))]
                      ELSE symbols
  BY DEF CreateLabel, Done
<1>2. /\ pass = "symbols" /\ pass' = pass /\ current \in Modules
      /\ UNCHANGED <<world, left, current, unresolved, relocs>>
  BY DEF CreateLabel, IInv, RTypeOK
<1>3. ref.reloc \in RelReloc
  BY <1>1, <1>2 DEF IInv, ItemsTyped
<1> DEFINE r == ref.reloc
           ss == symbols[current]
           new == Label(current, r)
           all == Append(ss, new)
<1>4. r.addend \in Nat /\ r.kind \in RelKinds /\ r.target \in Nat \ {NoSection}
  <2>1. r.target \in Sections[current] /\ Sections[current] \subseteq Nat \ {NoSection}
    BY <1>1, <1>2, LinkAssumption DEF PassesOver
  <2> QED BY <1>3, <2>1 DEF RelReloc
<1>5. ss \in Seq(Symbol) /\ new \in Symbol /\ IsLabel(new, r.target, r.addend)
  BY <1>2, <1>3, LabelTyped, LabelIs DEF IInv, RTypeOK
<1>6. ForRelocation(ss, r.target, r.addend, r.kind) = NoSymbol
  BY <1>1 DEF Referred
<1>7. \A t \in Modules \ {current} : symbols'[t] = symbols[t]
  BY <1>1, <1>2 DEF IInv, RTypeOK
<1>8. Linkable => symbols'[current] = all /\ SizesReferable(ss)
  BY <1>1, <1>2 DEF Linkable, IInv, RTypeOK, ReadyInv, Sized
<1>a. \A q : Met(current, q) <=> Ready(ss, q.target, q.addend, q.kind)
  BY DEF Met
<1>b. \A q : Met(current, q)' <=> Ready(symbols'[current], q.target, q.addend, q.kind)
  BY <1>2 DEF Met
<1> HIDE DEF r, ss, new
<1>9. Added(ss, new, all)
  BY <1>5, AppendAdds
<1> HIDE DEF all
<1>10. Ready(all, r.target, r.addend, r.kind)
  BY <1>4, <1>5, <1>6, <1>9, LabelReady
<1>11. ASSUME SizesReferable(ss), NEW q \in RelReloc, Ready(ss, q.target, q.addend, q.kind)
       PROVE  Ready(all, q.target, q.addend, q.kind)
  <2>1. q.addend \in Nat /\ q.kind \in RelKinds
    BY DEF RelReloc
  <2> QED BY <1>4, <1>5, <1>6, <1>9, <1>11, <2>1, LabelHidesNothing
<1>12. SizesReferable(ss) => SizesReferable(all)
  BY <1>5, <1>9 DEF SizesReferable, Added, IsLabel
<1>13. Linkable => SizesReferable(symbols'[current])
  BY <1>8, <1>12
<1>14. Linkable => Met(current, ref.reloc)' /\ \A q \in RelReloc : Met(current, q) => Met(current, q)'
  BY <1>8, <1>10, <1>11, <1>a, <1>b DEF r
<1> QED BY <1>1, <1>2, <1>7, <1>13, <1>14, MetStep

-----------------------------------------------------------------------------
LEMMA DolTarget ==
  ASSUME NEW m \in Rels, NEW r, r.module = 0
  PROVE  Targets(m, r) = {Dol}
BY LinkAssumption DEF Targets

\* What the second pass asks a module for was wanted of it in the first.
LEMMA TargetWanted ==
  ASSUME IInv, ReadyInv, Linkable, pass = "relocs", current # Nobody,
         NEW r \in todo, NEW t \in Targets(current, r), ~Skips(current, r),
         r.module = 0 => SectionAt(r.addend) # NoSection
  PROVE  /\ current \in Rels /\ t \in Modules /\ r \in RelReloc
         /\ Wants(t, current, r) /\ TargetSection(r) = r.target
<1>1. /\ world \in World /\ world \in Worlds /\ current \in Rels
      /\ r \in world.unresolved[current]
  BY DEF IInv, RTypeOK, ItemsTyped, ItemsRead
<1>2. r \in RelReloc
  BY <1>1, WorldTyped
<1>3. /\ t \in Modules /\ Id[t] = r.module
      /\ t # current => t \in (Links(current) \cup {Dol}) /\ r.module # Id[current]
  BY <1>1, TargetsTyped
<1>4. /\ ~Sourceless(current, r) /\ ~Taken(current, r)
      /\ r.module # 0 => r.target \in Sections[t]
  BY DEF Skips
<1>5. r.module = 0 => t = Dol /\ r.target = SectionAt(r.addend) /\ r.target \in Sections[Dol]
  <2> SUFFICES ASSUME r.module = 0
               PROVE  t = Dol /\ r.target = SectionAt(r.addend) /\ r.target \in Sections[Dol]
    OBVIOUS
  <2>1. t = Dol
    <3>1. Targets(current, r) = {Dol}
      BY <1>1, DolTarget
    <3> QED BY <3>1
  <2>2. r.target = SectionAt(r.addend)
    BY <1>1 DEF Linkable, DolIndexed
  <2>3. SectionAt(r.addend) \in Sections[Dol] \cup {NoSection}
    BY <1>1, LinkAssumption
  <2> QED BY <2>1, <2>2, <2>3
<1>6. current \in Sources(t)
  <2>1. CASE t = current
    BY <1>1, <2>1, Apart DEF Sources
  <2>2. CASE t = Dol
    BY <1>1, <2>2 DEF Sources
  <2>3. CASE t # current /\ t # Dol
    <3>1. t \in Links(current) /\ t \in Rels
      BY <1>3, <2>3 DEF Modules
    <3>2. current \in Links(t)
      BY <1>1, <3>1 DEF Linkable, LinksMutual
    <3> QED BY <2>3, <3>2 DEF Sources
  <2> QED BY <2>1, <2>2, <2>3
<1>7. Id[current] = Id[t] =>
        ~Sourceless(t, r) /\ ~\E l \in world.relocs[t] : l.section = r.section /\ l.at = r.at
  <2> SUFFICES ASSUME Id[current] = Id[t]
               PROVE  ~Sourceless(t, r) /\ ~\E l \in world.relocs[t] : l.section = r.section /\ l.at = r.at
    OBVIOUS
  <2>1. t = current
    BY <1>3
  <2>2. world.relocs[current] \subseteq relocs[current]
    BY <1>1 DEF ReadyInv, Passing
  <2> QED BY <1>4, <2>1, <2>2 DEF Taken
<1>8. r.target \in Sections[t] /\ TargetSection(r) = r.target
  BY <1>4, <1>5 DEF TargetSection
<1> QED BY <1>1, <1>2, <1>3, <1>6, <1>7, <1>8 DEF Wants

LEMMA TargetReady ==
  ASSUME IInv, ReadyInv, Linkable, pass = "relocs", current # Nobody,
         NEW r \in todo, NEW t \in Targets(current, r), ~Skips(current, r),
         r.module = 0 => SectionAt(r.addend) # NoSection
  PROVE  /\ Found(t, r) # NoSymbol /\ symbols[t][Found(t, r)].exported
<1>1. /\ current \in Rels /\ t \in Modules /\ r \in RelReloc
      /\ Wants(t, current, r) /\ TargetSection(r) = r.target
  BY TargetWanted
<1>2. ~Awaits(t, current, r)
  BY DEF Awaits
<1>3. Met(t, r)
  BY <1>1, <1>2 DEF ReadyInv, Prepared
<1> QED BY <1>1, <1>3 DEF Met, Ready, Found

LEMMA CreateReady ==
  ASSUME IInv, ReadyInv, Create
  PROVE  ReadyInv'
<1>1. PICK r \in todo : \E t \in Targets(current, r) :
        /\ ~Skips(current, r) /\ (r.module = 0 => SectionAt(r.addend) # NoSection)
        /\ Found(t, r) # NoSymbol
        /\ relocs' = [relocs EXCEPT ![current] = @ \cup {Relocation(current, t, r)}]
  BY DEF Create
<1>2. PICK t \in Targets(current, r) :
        /\ ~Skips(current, r) /\ (r.module = 0 => SectionAt(r.addend) # NoSection)
        /\ Found(t, r) # NoSymbol
        /\ relocs' = [relocs EXCEPT ![current] = @ \cup {Relocation(current, t, r)}]
  BY <1>1
<1>3. /\ pass = "relocs" /\ pass' = pass /\ current # Nobody /\ current \in Rels
      /\ UNCHANGED <<world, left, current, symbols, unresolved>>
      /\ world \in World
  BY DEF Create, IInv, RTypeOK, ItemsTyped
<1>a. PICK made : made = Relocation(current, t, r)
  OBVIOUS
<1>4. \A m \in Rels : /\ relocs[m] \subseteq relocs'[m]
                      /\ \A l \in relocs'[m] : l \in relocs[m] \/ (m = current /\ l = made)
  BY <1>2, <1>3, <1>a DEF IInv, RTypeOK
<1>5. Passing'
  BY <1>3, <1>4 DEF ReadyInv, Passing, UniqueIds, Links
<1>6. Linkable => Sized'
  BY <1>3 DEF ReadyInv, Sized
<1>7. ASSUME Prepared PROVE Prepared'
  <2>1. \A k, m, q : ~Awaits(k, m, q)
    BY <1>3 DEF Awaits
  <2> QED BY <1>3, <1>7, <2>1, SameMet, PreparedStep
<1>8. ASSUME Exporting, Linkable PROVE Exporting'
  <2>1. ASSUME made.module # Own, NEW u \in Targets(current, made)
        PROVE  ExportedAt(u, made.symbol)
    <3>1. made.module = r.module /\ made.symbol = Found(t, r) /\ r.module # Id[current]
      BY <1>a, <2>1 DEF Relocation
    <3>2. t # current /\ u # current /\ t \in Modules
      <4>1. Targets(current, made) = Targets(current, r)
        BY <3>1 DEF Targets
      <4>2. Id[t] = r.module /\ Id[u] = r.module /\ t \in Modules
        BY <1>3, <2>1, <4>1, TargetsTyped
      <4> QED BY <3>1, <4>2
    <3>3. u = t
      <4>1. UniqueIds(current)
        BY <1>3 DEF ReadyInv, Passing
      <4>2. CASE r.module = 0
        BY <2>1, <3>1, <4>2 DEF Targets
      <4>3. CASE r.module # 0
        <5>1. t \in Links(current) /\ u \in Links(current) /\ Id[t] = r.module /\ Id[u] = r.module
          BY <2>1, <3>1, <4>3 DEF Targets
        <5> QED BY <4>1, <5>1 DEF UniqueIds
      <4> QED BY <4>2, <4>3
    <3>4. symbols[t][Found(t, r)].exported
      BY <1>2, <1>3, <1>8, TargetReady
    <3>5. Found(t, r) \in DOMAIN symbols[t]
      BY <1>2, ForRelocationFound DEF Found
    <3> QED BY <3>1, <3>3, <3>4, <3>5 DEF ExportedAt
  <2>2. \A k, i : ExportedAt(k, i)' <=> ExportedAt(k, i)
    BY <1>3 DEF ExportedAt
  <2> QED BY <1>3, <1>4, <1>8, <2>1, <2>2, ExportingStep
<1> QED BY <1>3, <1>5, <1>6, <1>7, <1>8, SameLinks DEF ReadyInv
-----------------------------------------------------------------------------
\* The third pass makes relocations to symbols of the module itself.
LEMMA ResolveReady ==
  ASSUME IInv, ReadyInv, pass = "resolve", pass' = pass, Kept,
         UNCHANGED <<world, left, current>>,
         \A m \in Rels : \A l \in relocs'[m] : l \in relocs[m] \/ l.module = Own
  PROVE  ReadyInv'
<1>1. Passing' /\ Sized' /\ Prepared'
  BY DEF ReadyInv, Passing, Sized, Prepared
<1>2. ASSUME Exporting PROVE Exporting'
  BY <1>2, KeptExported, ExportingStep DEF IInv, RTypeOK
<1> QED BY <1>1, <1>2, SameLinks DEF ReadyInv

LEMMA ReplacedOwn ==
  ASSUME RTypeOK, NEW m \in Rels, NEW l \in ObjReloc, NEW i \in Nat, Replaced(m, l, i)
  PROVE  \A k \in Rels : \A j \in relocs'[k] : j \in relocs[k] \/ j.module = Own
<1>1. PICK made : made = Resolved(l, i)
  OBVIOUS
<1>2. made.module = Own
  BY <1>1, ResolvedTyped
<1>3. relocs' = [relocs EXCEPT ![m] = (@ \ {l}) \cup {made}]
  BY <1>1 DEF Replaced
<1> QED BY <1>2, <1>3 DEF RTypeOK

LEMMA ResolveKnownReady ==
  ASSUME IInv, ReadyInv, ResolveKnown
  PROVE  ReadyInv'
<1>1. PICK l \in todo, e \in externs : Replaced(current, l, e.extern)
  BY DEF ResolveKnown
<1>2. /\ pass = "resolve" /\ pass' = pass /\ current \in Rels /\ current # Nobody
      /\ UNCHANGED <<world, left, current, symbols>>
  BY DEF ResolveKnown, IInv, RTypeOK, ItemsTyped
<1>3. l \in ObjReloc /\ e.extern \in Nat
  BY <1>1, <1>2 DEF IInv, RTypeOK, ItemsRead
<1>4. \A m \in Rels : \A j \in relocs'[m] : j \in relocs[m] \/ j.module = Own
  BY <1>1, <1>2, <1>3, ReplacedOwn DEF IInv
<1> QED BY <1>2, <1>4, SameKept, ResolveReady

LEMMA ResolveNewReady ==
  ASSUME IInv, ReadyInv, ResolveNew
  PROVE  ReadyInv'
<1>1. PICK l \in todo, t \in Links(current) \cup {Dol} :
        /\ Id[t] = l.module
        /\ symbols' = [symbols EXCEPT ![current] = Append(@, Extern(t, l.symbol))]
        /\ Replaced(current, l, Len(symbols[current]) + 1)
  BY DEF ResolveNew
<1>2. /\ pass = "resolve" /\ pass' = pass /\ current \in Rels /\ current # Nobody
      /\ current \in Modules /\ world \in World
      /\ UNCHANGED <<world, left, current>>
  BY DEF ResolveNew, IInv, RTypeOK, ItemsTyped
<1>3. l \in ObjReloc
  BY <1>1, <1>2 DEF IInv, RTypeOK, ItemsRead
<1>4. t \in Modules
  BY <1>1, <1>2, LinksTyped, LinkAssumption DEF Modules
<1>5. Kept /\ Len(symbols[current]) + 1 \in Nat
  <2>1. l.symbol \in DOMAIN symbols[t]
    BY <1>1, <1>2, OutsideFound
  <2>2. Extern(t, l.symbol) \in Symbol
    BY <1>4, <2>1, ExternTyped DEF IInv
  <2> QED BY <1>1, <1>2, <2>2, Appended DEF IInv
<1>6. \A m \in Rels : \A j \in relocs'[m] : j \in relocs[m] \/ j.module = Own
  BY <1>1, <1>2, <1>3, <1>5, ReplacedOwn DEF IInv
<1> QED BY <1>2, <1>5, <1>6, ResolveReady

-----------------------------------------------------------------------------
LEMMA NextReady ==
  ASSUME IInv, ReadyInv, [Next]_vars
  PROVE  ReadyInv'
<1>1. CASE Begin \/ End \/ NextPass
  BY <1>1, BeginReady, EndReady, NextPassReady
<1>2. CASE BadLinks \/ NoTarget \/ NotFound
  BY <1>2, FailReady
<1>3. CASE PassOver \/ Mark \/ CreateLabel
  BY <1>3, PassOverReady, MarkReady, CreateLabelReady
<1>4. CASE Skip \/ Create
  BY <1>4, SkipReady, CreateReady
<1>5. CASE ResolveKnown \/ ResolveNew
  BY <1>5, ResolveKnownReady, ResolveNewReady
<1>6. CASE UNCHANGED vars
  BY <1>6, StillReady
<1> QED BY <1>1, <1>2, <1>3, <1>4, <1>5, <1>6 DEF Next, Ended

LEMMA ReadyHolds == IInv /\ ReadyInv => TargetsReady
<1> SUFFICES ASSUME IInv, ReadyInv PROVE TargetsReady
  OBVIOUS
<1>1. TargetsExported
  BY DEF TargetsExported, ReadyInv, Exporting, ExportedAt
<1>2. SymbolsFound
  BY TargetReady DEF SymbolsFound, Unfound
<1> QED BY <1>1, <1>2 DEF TargetsReady

(***************************************************************************)
(* The two passes of split agree, in a project that can be linked: for     *)
(* every relocation of the second, update_symbols has found or made, and   *)
(* exported, the symbol that create_relocations finds, whatever labels     *)
(* came in between and in whatever order the modules and their relocations *)
(* are taken.                                                              *)
(***************************************************************************)
THEOREM TargetsAreReady == Spec => []TargetsReady
<1>1. Init => IInv /\ ReadyInv
  BY InitIInv, InitReady
<1>2. IInv /\ ReadyInv /\ [Next]_vars => (IInv /\ ReadyInv)'
  BY NextIInv, NextReady
<1>3. IInv /\ ReadyInv => TargetsReady
  BY ReadyHolds
<1> QED BY <1>1, <1>2, <1>3, PTL DEF Spec
=============================================================================
