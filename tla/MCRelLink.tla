----------------------------- MODULE MCRelLink ------------------------------
(***************************************************************************)
(* Three modules, two of them with the same ID, and the executable.        *)
(***************************************************************************)
EXTENDS RelLink

MCGiven == {<<"f">>, <<"o">>, <<"x">>, <<"_ctors">>, <<"__save_gpr">>, <<"..b">>}
MCLinkerLabels == {<<"_ctors">>}
MCSaveRestore == {<<"__save_gpr">>}
MCDotted == {<<"..b">>}

MCOrder == <<"a", "b", "c">>
MCId == [a |-> 1, b |-> 2, c |-> 2, dol |-> 0]
MCSections == [a |-> {1, 2}, b |-> {1}, c |-> {1}, dol |-> {1, 2}]
MCSectionAt(addr) == IF addr < 4 THEN 1 ELSE IF addr < 6 THEN 2 ELSE NoSection

Sym(name, section, addr, size, kind) ==
  [name |-> name, section |-> section, addr |-> addr, size |-> size, kind |-> kind,
   ignored |-> FALSE, exported |-> FALSE]

Rel(section, at, module, target, addend, kind) ==
  [section |-> section, at |-> at, module |-> module, target |-> target, addend |-> addend,
   kind |-> kind]

SymbolsOfA == {<<Sym(<<"f">>, 1, 0, 2, "function"), Sym(<<"o">>, 2, 0, 2, "object")>>}
SymbolsOfB ==
  {<<>>,
   <<Sym(<<"f">>, 1, 0, 3, "function"), Sym(<<"..b">>, 1, 0, 0, "label")>>,
   <<Sym(<<"o">>, 1, 0, 2, "object"), Sym(<<"_ctors">>, 1, 1, 0, "label")>>}
SymbolsOfDol ==
  {<<>>,
   <<Sym(<<"__save_gpr">>, 1, 1, 3, "function"), Sym(<<"x">>, 1, 1, 0, "label"),
     Sym(<<"x">>, NoSection, 5, 0, "object")>>}

\* An external symbol that add_relocations in config.yml makes.
WithExtern == {<<Sym(<<"f">>, 1, 0, 3, "function"), Sym(<<"x">>, NoSection, 0, 0, "label")>>}

FromA ==
  {Rel(1, 0, 2, 1, 0, "half"), Rel(1, 0, 2, 1, 1, "plain"), Rel(2, 1, 2, 1, 1, "half"),
   Rel(2, 0, 0, 1, 2, "plain"), Rel(2, 0, 1, 2, 1, "half"), Rel(2, 1, 2, 2, 0, "plain")}
FromB ==
  {Rel(1, 0, 1, 2, 1, "half"), Rel(1, 1, 1, 1, 2, "plain"), Rel(1, 1, 0, 2, 5, "plain"),
   Rel(1, 0, 0, 1, 6, "half"), Rel(3, 0, 2, 1, 0, "plain"), Rel(1, 1, 2, 1, 1, "plain")}
FromC == {Rel(1, 0, 2, 1, 1, "half"), Rel(1, 1, 1, 2, 0, "plain")}

UpTo(S, n) == {T \in SUBSET S : Cardinality(T) <= n}

\* A relocation of config.yml.
Configured == [section |-> 2, at |-> 0, kind |-> "plain", symbol |-> 1, addend |-> 0, module |-> Own]

Linked(a, b, c) == [a |-> a, b |-> b, c |-> c]

Projects(symbolsOfB, linked, numbers, configured, creates) ==
  {[symbols |-> [a |-> sa, b |-> sb, c |-> <<>>, dol |-> sd],
    unresolved |-> [a |-> ra, b |-> rb, c |-> rc],
    relocs |-> [a |-> ca, b |-> {}, c |-> {}],
    links |-> links, create |-> create] :
     sa \in SymbolsOfA, sb \in symbolsOfB, sd \in SymbolsOfDol,
     ra \in UpTo(FromA, numbers), rb \in UpTo(FromB, 1), rc \in UpTo(FromC, 1),
     ca \in configured, links \in linked, create \in creates}

MCWorlds ==
  Projects(SymbolsOfB, {Linked({"b"}, {"a"}, {}), Linked({"c"}, {}, {"a"})}, 2, {{}}, {TRUE})
    \* The links of c are mutual with the other module that has its ID, and labels are made.
    \cup Projects(SymbolsOfB, {Linked({"b"}, {}, {"a"}), Linked({"b"}, {"a", "c"}, {"b"})}, 1,
                  {{}}, {TRUE})
    \cup Projects(SymbolsOfB, {Linked(Every, Every, {"a"}), Linked({"a", "b"}, {}, {}),
                              Linked({"c"}, Every, {"a"})}, 1, {{Configured}}, {FALSE})

\* One module has an external symbol from the start.
MCExtern == Projects(WithExtern, {Linked({"b"}, {"a"}, {})}, 1, {{}}, {TRUE})
=============================================================================
