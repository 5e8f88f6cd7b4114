----------------------------- MODULE ObjSymbols -----------------------------
(***************************************************************************)
(* Which symbol a relocation refers to (src/src/obj/symbols.rs).           *)
(*                                                                         *)
(* The symbols of an object are a sequence, and a symbol is known by its   *)
(* index in it.  A symbol without a section is absolute or external.  The  *)
(* kinds of relocations that are told apart are the halves of an address   *)
(* (@h, @ha, @l), sda21, and the others.                                   *)
(***************************************************************************)
EXTENDS Integers, Sequences, FiniteSets

CONSTANTS
  Given,          \* the names that dtk did not make up
  LinkerLabels,   \* is_linker_generated_label
  SaveRestore,    \* __save_gpr, __restore_gpr, __save_fpr and __restore_fpr
  Dotted          \* the names that start with two dots

NoSection == 0
NoSymbol == 0

RelocKinds == {"half", "sda", "plain"}
SymbolKinds == {"label", "function", "object", "section"}

\* lbl_<address> in the DOL, whose ID is 0, else lbl_<module>_<section>_<address>.
LabelName(id, section, addr) ==
  IF id = 0 THEN <<"lbl", 0, 0, addr>> ELSE <<"lbl", id, section, addr>>

Names == Given \cup ({"lbl"} \X Nat \X Nat \X Nat)

Symbol ==
  [name : Names, section : Nat, addr : Nat, size : Nat, kind : SymbolKinds,
   ignored : BOOLEAN, exported : BOOLEAN]

\* ObjSymbol::referenced_by; ignored is for relocations, or stripped.
ReferencedBy(symbol, kind) ==
  /\ ~symbol.ignored
  /\ symbol.name \in LinkerLabels => kind = "half"
  /\ symbol.name \notin LinkerLabels =>
       \/ symbol.kind \in {"label", "object"}
       \/ symbol.kind = "function" /\ kind # "sda"
       \/ symbol.kind = "section" /\ kind = "half"

\* The rank by which best_match_for_reloc sorts.
Rank(symbol, kind) ==
  LET half == kind = "half"
      base == CASE symbol.kind = "section" -> -1
                [] symbol.kind = "label" -> IF half /\ symbol.name \notin Dotted THEN 3 ELSE 1
                [] OTHER -> IF half THEN 1 ELSE 2
  IN  IF symbol.kind \in {"function", "object"} /\ symbol.name \in SaveRestore THEN 0
      ELSE IF symbol.size > 0 THEN base + 1
      ELSE base

Candidates(symbols, section, addr, kind) ==
  {i \in DOMAIN symbols :
     /\ symbols[i].addr = addr
     /\ symbols[i].section \in {NoSection, section}
     /\ ReferencedBy(symbols[i], kind)}

\* The first symbol of the highest rank.
IsBest(symbols, candidates, kind, i) ==
  /\ i \in candidates
  /\ \A j \in candidates :
       \/ Rank(symbols[j], kind) < Rank(symbols[i], kind)
       \/ Rank(symbols[j], kind) = Rank(symbols[i], kind) /\ i <= j

(***************************************************************************)
(* ObjSymbols::for_relocation goes down from the target address; the best  *)
(* symbol of an address is the answer at the target itself, and ends the   *)
(* search further down if it has a size.                                   *)
(***************************************************************************)
Stops(symbols, section, addr, kind, i) ==
  /\ symbols[i].addr <= addr
  /\ IsBest(symbols, Candidates(symbols, section, symbols[i].addr, kind), kind, i)
  /\ symbols[i].addr = addr \/ symbols[i].size > 0

Reaches(symbol, addr) == symbol.addr = addr \/ symbol.addr + symbol.size > addr

IsForRelocation(symbols, section, addr, kind, i) ==
  /\ i \in DOMAIN symbols
  /\ Stops(symbols, section, addr, kind, i)
  /\ \A j \in DOMAIN symbols :
       Stops(symbols, section, addr, kind, j) => symbols[j].addr <= symbols[i].addr
  /\ Reaches(symbols[i], addr)

ForRelocation(symbols, section, addr, kind) ==
  IF \E i \in DOMAIN symbols : IsForRelocation(symbols, section, addr, kind, i)
  THEN CHOOSE i \in DOMAIN symbols : IsForRelocation(symbols, section, addr, kind, i)
  ELSE NoSymbol
=============================================================================
