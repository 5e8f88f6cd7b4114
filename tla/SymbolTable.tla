---------------------------- MODULE SymbolTable ----------------------------
(***************************************************************************)
(* The symbols of an object (src/src/obj/symbols.rs): a vector, and three  *)
(* indices into it that the passes look symbols up with.  A symbol is      *)
(* known by its place in the vector; relocations hold on to it.            *)
(*                                                                         *)
(* A table is a record: exe (an executable, not a module), symbols,        *)
(* byAddr, bySec and byName.  A name is a sequence, a string and what was  *)
(* added to it: <<"lbl", 16>>, <<"__imp_", "f">>.                          *)
(***************************************************************************)
EXTENDS ObjSymbols, SequencesExt

None == 0

AutoPrefixes == {"lbl", "fn", "jumptable", "gap", "pad", "dtor"}
IsAuto(sym) == sym.name[1] \in AutoPrefixes

\* What op makes of base with one element after the other, as before orders them.
FoldInOrder(op(_, _), base, S, before(_, _)) ==
  MapThenFoldSet(LAMBDA x, a : op(a, x), base, LAMBDA x : x,
                 LAMBDA T : CHOOSE x \in T : \A y \in T \ {x} : before(y, x), S)

\* The first element of a sequence that passes a test.
FirstOf(is, Test(_)) ==
  LET n == SelectInSeq(is, Test)
  IN  IF n = 0 THEN None ELSE is[n]

At(index, key) == IF key \in DOMAIN index THEN index[key] ELSE <<>>

\* (mutant) the last symbol comes first.
NestedPushFront(index, key, i) ==
  [k \in DOMAIN index \cup {key} |-> IF k = key THEN <<i>> \o At(index, key) ELSE index[k]]

NestedPush(index, key, i) ==
  [k \in DOMAIN index \cup {key} |-> IF k = key THEN Append(At(index, key), i) ELSE index[k]]

Without(is, i) == FoldLeft(LAMBDA left, j : IF j = i THEN left ELSE Append(left, j), <<>>, is)

NestedRemove(index, key, i) == [index EXCEPT ![key] = Without(@, i)]

NoSymbols(exe) == [exe |-> exe, symbols |-> <<>>, byAddr |-> <<>>, bySec |-> <<>>, byName |-> <<>>]

\* normalize_imp_kind: a slot of the import table is a pointer.
Normalized(sym) ==
  IF sym.name[1] # "__imp_" THEN sym
  ELSE [sym EXCEPT !.kind = "object", !.size = IF sym.known THEN @ ELSE 4, !.known = TRUE]

AddDirect(t, in) ==
  LET sym == Normalized(in)
      i == Len(t.symbols) + 1
  IN  [t EXCEPT !.symbols = Append(@, sym),
                !.byAddr = NestedPush(@, sym.addr, i),
                !.bySec = IF sym.section = None THEN @
                          ELSE NestedPush(@, <<sym.section, sym.addr>>, i),
                !.byName = IF sym.name = <<>> THEN @ ELSE NestedPush(@, sym.name, i)]

\* (mutant) the index of the names is left as it is.
ReplaceKeeps(t, i, new) == [t EXCEPT !.symbols[i] = Normalized(new)]

Replace(t, i, new) ==
  LET sym == Normalized(new)
      old == t.symbols[i].name
      others == IF old = <<>> THEN t.byName ELSE NestedRemove(t.byName, old, i)
  IN  [t EXCEPT !.symbols[i] = sym,
                !.byName = IF old = sym.name THEN @
                           ELSE IF sym.name = <<>> THEN others
                           ELSE NestedPush(others, sym.name, i)]

\* Stripped symbols do not exist at their address.
AtSectionAddress(t, section, addr) ==
  {i \in Range(At(t.bySec, <<section, addr>>)) : "stripped" \notin t.symbols[i].flags}

InSection(t, section) == UNION {Range(t.bySec[k]) : k \in {k \in DOMAIN t.bySec : k[1] = section}}

\* All symbols by address, and at one address as they were added.
ByAddress(t) == FoldInOrder(LAMBDA is, addr : is \o t.byAddr[addr], <<>>, DOMAIN t.byAddr, <)

ForName(t, name) == At(t.byName, name)

\* for_relocation, which looks at what ObjSymbols tells apart.
SymbolFor(t, section, addr, kind) ==
  ForRelocation(
    [i \in DOMAIN t.symbols |->
       LET sym == t.symbols[i]
       IN  [name |-> sym.name, section |-> sym.section, addr |-> sym.addr, size |-> sym.size,
            kind |-> sym.kind, ignored |-> sym.flags \cap {"ignore", "stripped"} # {}]],
    section, addr, kind)

\* by_name and by_ref, for a name that no two symbols have.
ByName(t, name) == IF Len(ForName(t, name)) = 1 THEN ForName(t, name)[1] ELSE None

----------------------------------------------------------------------------

(***************************************************************************)
(* ObjSymbols::add: a symbol is merged with the one at its address that    *)
(* has its kind or its name, or that dtk only gave a label.                *)
(***************************************************************************)
Existing(t, in) ==
  LET named(i) == t.symbols[i].name = in.name
      same(i) == \/ t.symbols[i].kind = in.kind
                 \/ named(i)
                 \/ t.symbols[i].kind = "label" /\ IsAuto(t.symbols[i])
  IN  IF in.flags \cap {"alias", "stripped"} # {} THEN None
      ELSE IF in.section = None
           THEN FirstOf(ByAddress(t), LAMBDA i : t.symbols[i].section = None /\ named(i))
      ELSE FirstOf(At(t.bySec, <<in.section, in.addr>>),
                   LAMBDA i : "stripped" \notin t.symbols[i].flags /\ same(i))

KeptFlags == {"exported", "nowrite", "ignore", "stripped", "noexport", "noreloc"}

\* (mutant) any name wins over any other.
WinsNamed(old, in, replace) == replace \/ ~IsAuto(in)

\* Whether the new symbol wins: asked for, or the existing one is dtk's and it is not.
Wins(old, in, replace) ==
  \/ replace
  \/ IsAuto(old) /\ ~IsAuto(in)
  \/ old.name[1] = "lbl" /\ in.name[1] = "jumptable"

\* "ABS symbol in relocatable object", or "Can't modify address with replace_symbol".
Refused(t, input, replace) ==
  LET in == Normalized(input)
      i == Existing(t, in)
  IN  \/ /\ in.section = None /\ ~t.exe
         /\ in.flags \cap {"alias", "stripped"} = {} \/ in.addr # 0
      \/ /\ i # None /\ t.symbols[i].addr # in.addr
         /\ Wins(t.symbols[i], in, replace)

\* What a symbol becomes when another is merged with it and wins.
Merged(old, in) ==
  [in EXCEPT
     !.size = IF in.known THEN @ ELSE old.size,
     !.known = old.known \/ in.size # 0,
     !.flags = @ \cup (old.flags \cap KeptFlags),
     !.kind = IF "label" \notin {old.kind, @} THEN old.kind ELSE @,
     !.align = IF @ = None THEN old.align ELSE @,
     !.data = IF @ = "unknown" THEN old.data ELSE @]

Add(t, input, replace) ==
  LET in == Normalized(input)
      i == Existing(t, in)
      old == t.symbols[i]
  IN  IF "alias" \in in.flags THEN AddDirect(t, in)
      ELSE IF i = None THEN AddDirect(t, [in EXCEPT !.known = in.size # 0])
      ELSE IF Wins(old, in, replace) THEN Replace(t, i, Merged(old, in))
      ELSE IF in.known /\ ~old.known
           THEN Replace(t, i, [old EXCEPT !.size = in.size, !.known = TRUE])
      ELSE t

\* The index that add returns.
AddedIndex(t, input) ==
  LET i == Existing(t, Normalized(input))
  IN  IF i = None THEN Len(t.symbols) + 1 ELSE i
=============================================================================
