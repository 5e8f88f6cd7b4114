------------------------------ MODULE AsmFile ------------------------------
(***************************************************************************)
(* An object as assembly: write_asm (src/src/util/asm.rs).                 *)
(*                                                                         *)
(* The text of a section is a sequence of lines: the start or the end of a *)
(* symbol, a label, the bytes up to an address, or a word that is the      *)
(* address of a symbol.  A branch of a section's code is the pair of its   *)
(* address and its destination; an entry is what is known of an address    *)
(* before the bytes there are written.                                     *)
(***************************************************************************)
EXTENDS Integers, Sequences, FiniteSets, SequencesExt

\* Lines are records, a failure is a text of its own.
AsmError == <<[line |-> "error", addr |-> 0, of |-> 0, size |-> 0]>>

SymbolEntries(o, k) ==
  LET here == {i \in DOMAIN o.symbols : o.symbols[i].section = k}
  IN  {[addr |-> o.symbols[i].addr, kind |-> "start", of |-> i] : i \in here}
        \cup {[addr |-> o.symbols[i].addr + o.symbols[i].size, kind |-> "end", of |-> i] :
                i \in {j \in here : o.symbols[j].size > 0}}

Marks(entries, addr) == {e \in entries : e.addr = addr /\ e.kind \in {"start", "label"}}

(***************************************************************************)
(* Generate local jump labels: where a branch goes that has no relocation, *)
(* unless a symbol starts there.                                           *)
(***************************************************************************)
OwnBranches(o, k) ==
  LET s == o.sections[k]
  IN  {b \in s.branches : /\ 0 <= b[2] /\ b[2] < s.size
                          /\ ~\E r \in s.relocs : r.addr = b[1] /\ r.addend = 0}

JumpLabels(o, k) ==
  IF o.sections[k].kind # "code" THEN {}
  ELSE {[addr |-> b[2], kind |-> "label", of |-> 0] :
          b \in {c \in OwnBranches(o, k) : Marks(SymbolEntries(o, k), c[2]) = {}}}

\* Labels for jump tables & relative data relocations.
TableLabels(o, k) ==
  LET offsets == UNION {{o.symbols[r.target].addr + r.addend :
                           r \in {q \in o.sections[j].relocs :
                                    q.addend # 0 /\ o.symbols[q.target].section = k}} :
                        j \in {i \in DOMAIN o.sections : o.sections[i].kind = "data"}}
  IN  {[addr |-> a, kind |-> "label", of |-> 0] :
         a \in {b \in offsets : Marks(SymbolEntries(o, k) \cup JumpLabels(o, k), b) = {}}}

Entries(o, k) == SymbolEntries(o, k) \cup JumpLabels(o, k) \cup TableLabels(o, k)

\* The branches to labels and symbols are relocations of the text.
Relocations(o, k) ==
  LET s == o.sections[k]
      own == IF s.kind = "code" THEN {b[1] : b \in OwnBranches(o, k)} ELSE {}
  IN  {r.addr : r \in {q \in s.relocs : q.addr \notin own}} \cup own

\* find_symbol_kind: the kind of a symbol that starts here, else what it was.
Kinds(o, entries) ==
  {o.symbols[e.of].kind : e \in {f \in entries : f.kind = "start"}} \ {"label", "section"}

FindKind(o, entries, kind) ==
  IF Kinds(o, entries) = {} THEN kind ELSE CHOOSE t \in Kinds(o, entries) : TRUE

(***************************************************************************)
(* find_data_kind: the kind of data that starts here.  A jump label leaves *)
(* it as it was, the end of a symbol alone makes it unknown.               *)
(***************************************************************************)
DataKinds(o, entries) ==
  {o.symbols[e.of].data : e \in {f \in entries : f.kind = "start"}} \ {"unknown"}

FindDataKind(o, entries, data) ==
  CASE DataKinds(o, entries) # {} -> CHOOSE t \in DataKinds(o, entries) : TRUE
    [] DataKinds(o, entries) = {} /\ entries # {} /\ ~\E e \in entries : e.kind = "label" -> "unknown"
    [] OTHER -> data

\* "Conflicting symbol kinds found", "Conflicting data kinds found".
Conflicting(o, entries) ==
  Cardinality(Kinds(o, entries)) > 1 \/ Cardinality(DataKinds(o, entries)) > 1

(***************************************************************************)
(* write_data_chunk: a Shift-JIS string ends in a zero byte, a UTF-16 one  *)
(* has an even length and ends in a zero unit; so do the last ones of a    *)
(* table.  (That units decode as UTF-16 is taken for granted.)             *)
(***************************************************************************)
Sjis == {"sjis", "sjis_table"}
Wide == {"string16", "string16_table"}

Unterminated(s, data, from, until) ==
  \/ data \in Sjis /\ until - 1 \in s.nonzero
  \/ data \in Wide /\ ((until - from) % 2 # 0 \/ s.nonzero \cap {until - 2, until - 1} # {})

\* write_symbol_entry; a section's symbol has no line.
EntryLines(o, entries, begin) ==
  LET shown == {e \in entries : /\ e.kind = "end" => ~begin
                                /\ e.of # 0 => o.symbols[e.of].kind # "section"}
      order == SetToSortSeq(shown, LAMBDA d, e : d.of < e.of)
  IN  [n \in DOMAIN order |-> [line |-> order[n].kind, addr |-> order[n].addr, of |-> order[n].of, size |-> 0]]

\* (mutant) the bytes go on up to the next symbol, over the relocations.
UntilEntry(entries, relocs, addr, end) ==
  Min({end} \cup {e.addr : e \in {f \in entries : f.addr > addr}})

\* The bytes go on up to the next entry or relocation.
Until(entries, relocs, addr, end) ==
  Min({end} \cup {e.addr : e \in {f \in entries : f.addr > addr}} \cup {r \in relocs : r > addr})

(***************************************************************************)
(* One turn of write_data: the entries at the address, then a relocation   *)
(* of data or the bytes up to the next thing to write.  Code is written a  *)
(* word at a time, with its relocations in the operands.  The relocations  *)
(* of data are addresses: those of branches are refused.                   *)
(***************************************************************************)
Turn(o, k, st) ==
  LET s == o.sections[k]
      entries == Entries(o, k)
      relocs == Relocations(o, k)
      branches == IF s.kind = "code" THEN {b[1] : b \in OwnBranches(o, k)} ELSE {}
      here == {e \in entries : e.addr = st.addr}
      kind == FindKind(o, here, st.kind)
      data == FindDataKind(o, here, st.data)
      code == kind = "function" \/ (kind = "label" /\ s.kind = "code")
      until == Until(entries, relocs, st.addr, s.size)
      reloc == st.addr \in relocs /\ ~code
      lines == EntryLines(o, here, st.addr = 0)
      skipped == \/ \E e \in entries : st.from < e.addr /\ e.addr < st.addr
                 \/ \E r \in relocs : st.from < r /\ r < st.addr
      words == st.addr % 4 = 0 /\ until % 4 = 0
      unsupported == \/ st.addr \in branches
                     \/ \E r \in s.relocs : r.addr = st.addr /\ r.kind # "abs"
      bytes == [line |-> IF reloc THEN "reloc" ELSE IF code THEN "code" ELSE "data",
                addr |-> st.addr, of |-> 0, size |-> IF reloc THEN 4 ELSE until - st.addr]
  IN  IF \/ skipped \/ Conflicting(o, here) \/ (code /\ ~words)
         \/ reloc /\ (unsupported \/ st.addr + 4 > s.size)
         \/ ~reloc /\ ~code /\ Unterminated(s, data, st.addr, until)
      THEN [st EXCEPT !.text = AsmError, !.addr = s.size]
      ELSE [text |-> st.text \o lines \o <<bytes>>, kind |-> kind, data |-> data, from |-> st.addr,
            addr |-> IF reloc THEN st.addr + 4 ELSE until]

\* write_bss: the entries and the space between them.
BssText(o, k) ==
  LET end == o.sections[k].size
      entries == Entries(o, k)
      stops == {0} \cup {e.addr : e \in {f \in entries : f.addr < end}}
      order == SetToSortSeq(stops, <)
  IN  FlattenSeq([n \in DOMAIN order |->
        EntryLines(o, {e \in entries : e.addr = order[n]}, order[n] = 0)
          \o <<[line |-> "skip", addr |-> order[n], of |-> 0,
                size |-> Until(entries, {}, order[n], end) - order[n]]>>])

\* A section up to its end, where only the ends of symbols are written.
SectionText(o, k) ==
  LET end == o.sections[k].size
      start == [text |-> <<>>, kind |-> "label", data |-> "unknown", from |-> 0, addr |-> 0]
      run[n \in 0..end] ==
        IF n = 0 THEN start
        ELSE IF run[n - 1].addr = end THEN run[n - 1] ELSE Turn(o, k, run[n - 1])
      body == IF o.sections[k].kind = "bss" THEN BssText(o, k) ELSE run[end].text
  IN  IF body = AsmError THEN AsmError
      ELSE body \o EntryLines(o, {e \in Entries(o, k) : e.addr = end /\ e.kind = "end"}, FALSE)

WriteAsm(o) == [k \in DOMAIN o.sections |-> SectionText(o, k)]

----------------------------------------------------------------------------

\* Where the assembler is when it comes to a line.
Position(text, n) == FoldLeft(+, 0, [m \in 1..n - 1 |-> text[m].size])
=============================================================================
