----------------------- MODULE FunctionAnalysisProofs -----------------------
(***************************************************************************)
(* Proofs about the search for functions: its types, that no function that *)
(* was found starts inside of another, and that its blocks are apart.      *)
(*                                                                         *)
(* FInv is inductive.  That the functions are apart was looked at when the *)
(* last finalizing pass began (detect_new_functions), and none of them is  *)
(* changed in a pass that finalizes nothing: a walk that makes a function  *)
(* is only ever under way while functions are processed.                   *)
(*                                                                         *)
(* Tidy is the invariant of the blocks, where every word decodes: what a   *)
(* walk has visited is in its blocks, so it enters none of them again.     *)
(***************************************************************************)
EXTENDS FunctionAnalysis, Extrema, TLAPS

\* What the analysis is given: one section of code and the function symbols in it.
ProgramOK ==
  /\ Len(code) \in Nat \ {0}
  /\ \A a \in Section : code[a] \in Words(Len(code))
  /\ DOMAIN symbols \subseteq Section
  /\ \A f \in DOMAIN symbols : symbols[f] \in AddressOrNone

IsFunction(x) ==
  /\ DOMAIN x = DOMAIN NewFunction
  /\ x.end \in AddressOrNone
  /\ IsSlices(x.slices)

IsTable(fs) == DOMAIN fs \subseteq Section /\ \A f \in DOMAIN fs : IsFunction(fs[f])

Kinds == {"none", "function", "tail", "block"}

IsFrame(r) ==
  /\ DOMAIN r = DOMAIN NoFrame
  /\ r.kind \in Kinds
  /\ IsSlices(r.slices)
  /\ r.start \in AddressOrNone /\ r.end \in AddressOrNone
  /\ r.stack \subseteq Addresses /\ r.entries \subseteq Section
  /\ r.at \in AddressOrNone
  /\ r.at # NoAddr => r.block \in Section
  /\ r.kind = "function" => r.start \in Section

IsFin(r) ==
  /\ DOMAIN r = DOMAIN NoFin
  /\ IsSlices(r.slices)
  /\ r.function \in Section \cup {NoAddr}
  /\ r.start \in AddressOrNone /\ r.end \in AddressOrNone
  /\ r.block \in Section \cup {NoAddr}

\* The functions are those of the table, and what is still to be done is among them.
TablesOK ==
  /\ IsTable(functions) /\ unfin \subseteq DOMAIN functions
  /\ todo \subseteq Section /\ entry \in Section \cup {NoAddr}

WalkOK == IsFrame(frame) /\ IsFin(fin)

\* Functions are made while they are processed, and possible blocks are tried while
\* a function is finalized.
PhaseOK ==
  /\ pc \in {"process", "finalize", "detect", "done", "failed"}
  /\ frame.kind = "function" => pc = "process"
  /\ frame.kind \in {"tail", "block"} => pc = "finalize" /\ fin.function # NoAddr
  /\ frame.kind = "tail" => fin.block \in Section

\* No function reaches over the start of another.
Apart(fs) == \A f, g \in DOMAIN fs : f < g => fs[f].end <= g

ApartOK ==
  /\ pc = "done" => Apart(functions)
  /\ pc = "finalize" /\ final /\ ~finalized => Apart(functions)

FInv == ProgramOK /\ TablesOK /\ WalkOK /\ PhaseOK /\ ApartOK

-----------------------------------------------------------------------------
(* The operators on slices keep their type. *)

\* insert into FunctionSlices::blocks
LEMMA SetBlockType ==
  ASSUME ProgramOK, NEW s, IsSlices(s), NEW b \in Addresses, NEW e \in AddressOrNone
  PROVE  IsSlices(SetBlock(s, b, e))
BY DEF IsSlices, SetBlock, NoSlices, Insert

\* insert into FunctionSlices::branches
LEMMA SetBranchesType ==
  ASSUME ProgramOK, NEW s, IsSlices(s), NEW a \in Section, NEW to, to \subseteq Addresses,
         NEW several
  PROVE  IsSlices(SetBranches(s, a, to, several))
BY DEF IsSlices, SetBranches, NoSlices, Insert

\* the other fields of FunctionSlices
LEMMA FieldsType ==
  ASSUME ProgramOK, NEW s, IsSlices(s), NEW T, T \subseteq Section
  PROVE  /\ IsSlices([s EXCEPT !.possible = T])
         /\ IsSlices([s EXCEPT !.refs = T])
BY DEF IsSlices, NoSlices

\* a function with nothing known of it
LEMMA NoSlicesType ==
  ASSUME ProgramOK
  PROVE  IsSlices(NoSlices)
BY DEF IsSlices, NoSlices, NoAddr

\* extremes of sets of addresses
LEMMA MinAddress ==
  ASSUME ProgramOK, NEW T, T \subseteq Addresses, T # {}
  PROVE  Min(T) \in T /\ \A a \in T : Min(T) <= a
<1>1. T \subseteq Nat
  BY DEF ProgramOK, Addresses, SectionEnd
<1> QED
  BY <1>1, MinOfNaturals

LEMMA MaxAddress ==
  ASSUME ProgramOK, NEW T, T \subseteq Addresses, T # {}
  PROVE  Max(T) \in T /\ \A a \in T : a <= Max(T)
<1>1. SectionEnd \in Nat /\ T \subseteq 0..SectionEnd
  BY DEF ProgramOK, Addresses, SectionEnd
<1> QED
  BY <1>1, MaxOfBounded

\* FunctionSlices::add_block_start
LEMMA AddBlockType ==
  ASSUME ProgramOK, NEW s, IsSlices(s), NEW a \in Addresses
  PROVE  IsSlices(AddBlock(s, a))
<1> DEFINE before == {b \in DOMAIN s.blocks : b < a}
           last == Max(before)
<1>1. NoAddr \in AddressOrNone /\ a \in AddressOrNone
  BY DEF NoAddr, AddressOrNone, Addresses, SectionEnd, ProgramOK
<1>2. CASE Sliced(s, a)
  <2>1. before # {} /\ before \subseteq Addresses
    BY <1>2 DEF Sliced, IsSlices
  <2>2. last \in before
    BY <2>1, MaxAddress
  <2>3. last \in Addresses /\ s.blocks[last] \in AddressOrNone
    BY <2>1, <2>2 DEF IsSlices
  <2>4. IsSlices(SetBlock(s, a, s.blocks[last]))
    BY <2>3, SetBlockType
  <2>5. IsSlices(SetBlock(SetBlock(s, a, s.blocks[last]), last, a))
    BY <2>3, <2>4, <1>1, SetBlockType
  <2> QED BY <2>5, <1>2 DEF AddBlock
<1>3. IsSlices(SetBlock(s, a, NoAddr))
  BY <1>1, SetBlockType
<1> QED
  BY <1>2, <1>3 DEF AddBlock

\* FunctionSlices::start and end
LEMMA BoundsType ==
  ASSUME ProgramOK, NEW s, IsSlices(s)
  PROVE  Start(s) \in AddressOrNone /\ End(s) \in AddressOrNone
<1>1. NoAddr \in AddressOrNone /\ Addresses \subseteq AddressOrNone
  BY DEF NoAddr, AddressOrNone, Addresses, SectionEnd, ProgramOK
<1>2. CASE DOMAIN s.blocks = {}
  <2>1. \A b \in DOMAIN s.blocks : FALSE
    BY <1>2
  <2> QED BY <1>1, <1>2 DEF Start, End
<1>3. CASE DOMAIN s.blocks # {}
  <2>1. DOMAIN s.blocks \subseteq Addresses
    BY DEF IsSlices
  <2>2. Min(DOMAIN s.blocks) \in DOMAIN s.blocks /\ LastBlock(s) \in DOMAIN s.blocks
    BY <1>3, <2>1, MinAddress, MaxAddress DEF LastBlock
  <2> QED BY <2>1, <2>2, <1>1 DEF Start, End, IsSlices
<1> QED BY <1>2, <1>3

\* what is noted of every instruction
LEMMA NoteType ==
  ASSUME ProgramOK, NEW s, IsSlices(s), NEW a \in Section
  PROVE  IsSlices(Note(s, a))
<1> DEFINE load == s.r1Load \/ Is(a, {"lwz"})
           prologue == IF s.prologue = NoAddr /\ IsPrologue(a) THEN a ELSE s.prologue
           epilogue == IF s.epilogue = NoAddr /\ IsEpilogue(a) THEN a ELSE s.epilogue
           blr == s.condBlr \/ Is(a, {"cblr"})
           rfi == s.rfi \/ Is(a, {"rfi"})
<1>1. /\ load \in BOOLEAN /\ blr \in BOOLEAN /\ rfi \in BOOLEAN
      /\ prologue \in Section \cup {NoAddr} /\ epilogue \in Section \cup {NoAddr}
  BY DEF IsSlices
<1>2. Note(s, a) = [s EXCEPT !.r1Load = load, !.prologue = prologue, !.epilogue = epilogue,
                             !.condBlr = blr, !.rfi = rfi, !.possible = @ \ {a}]
  BY DEF Note
<1> HIDE DEF load, prologue, epilogue, blr, rfi
<1> QED
  BY <1>1, <1>2 DEF IsSlices, NoSlices

\* FunctionSlices::is_known_function
LEMMA KnownFunctionType ==
  ASSUME ProgramOK, IsTable(functions), NEW s, IsSlices(s), NEW a \in Addresses
  PROVE  KnownFunction(s, a) \in Section \cup {NoAddr}
<1> DEFINE before == {f \in DOMAIN functions : f <= a}
<1>1. Section \subseteq Addresses
  BY DEF Section, Addresses, SectionEnd, ProgramOK
<1>2. before \subseteq Addresses /\ before \subseteq Section
  BY <1>1 DEF IsTable
<1>3. before # {} => Max(before) \in Section
  BY <1>2, MaxAddress
<1>4. s.refs \subseteq Section
  BY DEF IsSlices
<1> HIDE DEF before
<1> QED
  BY <1>3, <1>4 DEF KnownFunction, before

\* the function symbol a call goes into
LEMMA CalledFunctionType ==
  ASSUME ProgramOK, NEW a \in Section
  PROVE  CalledFunction(a) \in Section
<1> DEFINE before == {f \in DOMAIN symbols : f < a}
<1>1. before \subseteq Addresses /\ before \subseteq Section
  BY DEF Section, Addresses, SectionEnd, ProgramOK
<1>2. before # {} => Max(before) \in Section
  BY <1>1, MaxAddress
<1> HIDE DEF before
<1> QED
  BY <1>2 DEF CalledFunction, before

\* insert into FunctionSlices::function_references
LEMMA ReferType ==
  ASSUME ProgramOK, NEW s, IsSlices(s), NEW f \in Section
  PROVE  IsSlices(Refer(s, f))
<1>1. s.refs \cup {f} \subseteq Section
  BY DEF IsSlices
<1> QED
  BY <1>1, FieldsType DEF Refer

\* a reference to a known function
LEMMA ReferKnown ==
  ASSUME ProgramOK, IsTable(functions), NEW s, IsSlices(s), NEW a \in Addresses,
         KnownFunction(s, a) # NoAddr
  PROVE  KnownFunction(s, a) \in Section /\ IsSlices(Refer(s, KnownFunction(s, a)))
<1>1. KnownFunction(s, a) \in Section
  BY KnownFunctionType
<1> QED
  BY <1>1, ReferType

\* a branch goes on inside of the function or refers to another
LEMMA OnwardType ==
  ASSUME ProgramOK, IsTable(functions), NEW s, IsSlices(s), NEW a \in Addresses
  PROVE  /\ IsSlices(Onward(s, a).slices)
         /\ Onward(s, a).push \subseteq Addresses
         /\ Onward(s, a).out \subseteq Addresses
<1> DEFINE known == KnownFunction(s, a)
<1>1. CASE known \notin {NoAddr, frame.start}
  <2>1. IsSlices(Refer(s, known))
    BY <1>1, ReferKnown
  <2> QED BY <1>1, <2>1 DEF Onward
<1>2. CASE known \in {NoAddr, frame.start}
  <2>1. IsSlices(AddBlock(s, a))
    BY AddBlockType
  <2> QED BY <1>2, <2>1 DEF Onward
<1> QED BY <1>1, <1>2

LEMMA CallType ==
  ASSUME ProgramOK, IsTable(functions), NEW s, IsSlices(s), NEW a \in Section
  PROVE  IsSlices(Call(s, a))
<1>1. a \in Addresses
  BY DEF Section, Addresses, SectionEnd, ProgramOK
<1> DEFINE known == KnownFunction(s, a)
<1>2. CASE known \notin {NoAddr, frame.start}
  <2>1. IsSlices(Refer(s, known))
    BY <1>1, <1>2, ReferKnown
  <2> QED BY <1>2, <2>1 DEF Call
<1>3. CASE known \in {NoAddr, frame.start}
  <2>1. IsSlices(Refer(s, CalledFunction(a)))
    BY CalledFunctionType, ReferType
  <2> QED BY <1>3, <2>1 DEF Call
<1> QED BY <1>2, <1>3

\* FunctionSlices::finalize
LEMMA FinalizeType ==
  ASSUME ProgramOK, NEW s, IsSlices(s), NEW known
  PROVE  IsSlices(Finalize(s, known))
<1> DEFINE e == End(s)
           conditional == s.condBlr \/ EndsInReference(s)
           t == [s EXCEPT !.condBlr = conditional, !.finalized = TRUE]
<1>1. conditional \in BOOLEAN
  OBVIOUS
<1>2. IsSlices(t)
  <2> HIDE DEF conditional
  <2> QED BY <1>1 DEF IsSlices, NoSlices
<1>3. ASSUME e \in Section
      PROVE  IsSlices(SetBlock(t, e, e + 1))
  <2>1. e \in Addresses /\ e + 1 \in AddressOrNone
    BY <1>3 DEF Section, Addresses, AddressOrNone, SectionEnd, ProgramOK
  <2> HIDE DEF t, e
  <2> QED BY <1>2, <2>1, SetBlockType
<1>4. Finalize(s, known) \in {t, SetBlock(t, e, e + 1)}
  BY DEF Finalize
<1>5. Finalize(s, known) # t => e \in Section
  BY DEF Finalize, Is
<1> HIDE DEF t, e
<1> QED BY <1>2, <1>3, <1>4, <1>5

\* uniq_jump_table_entries
LEMMA TableEntriesType ==
  ASSUME ProgramOK, NEW a \in Section, NEW start, NEW end
  PROVE  TableEntries(code[a], start, end) \subseteq Section
<1> DEFINE w == code[a]
           leaves == {i \in DOMAIN w.table : w.table[i] < start \/ (end # NoAddr /\ w.table[i] >= end)}
           n == IF w.sized \/ leaves = {} THEN Len(w.table) ELSE Min(leaves) - 1
<1>1. w.table \in Seq(Section)
  BY DEF ProgramOK, Words, Section
<1>2. leaves \subseteq Nat /\ \A i \in leaves : i \in 1..Len(w.table)
  BY <1>1
<1>3. leaves # {} => Min(leaves) \in 1..Len(w.table)
  BY <1>2, MinOfNaturals
<1>4. n \in 0..Len(w.table)
  BY <1>1, <1>3
<1>5. \A i \in 1..n : w.table[i] \in Section
  BY <1>1, <1>4
<1>6. TableEntries(w, start, end) = {w.table[i] : i \in 1..n}
  BY DEF TableEntries
<1> QED BY <1>5, <1>6

\* Executor::new, and a walk from an address
LEMMA WalkType ==
  ASSUME ProgramOK, NEW kind \in Kinds, NEW s, IsSlices(s), NEW a \in Section,
         NEW start \in AddressOrNone, NEW end \in AddressOrNone,
         kind = "function" => start \in Section
  PROVE  IsFrame(Walk(kind, s, a, start, end)) /\ Walk(kind, s, a, start, end).kind = kind
<1>1. a \in Addresses /\ NoAddr \in AddressOrNone
  BY DEF Section, Addresses, AddressOrNone, NoAddr, SectionEnd, ProgramOK
<1>2. IsSlices(AddBlock(s, a))
  BY <1>1, AddBlockType
<1> QED
  BY <1>1, <1>2 DEF Walk, NoFrame, IsFrame

LEMMA NoFrameType ==
  ASSUME ProgramOK
  PROVE  IsFrame(NoFrame) /\ NoFrame.kind = "none"
<1>1. NoAddr \in AddressOrNone
  BY DEF AddressOrNone, NoAddr, SectionEnd, ProgramOK
<1> QED
  BY <1>1, NoSlicesType DEF NoFrame, IsFrame, Kinds

LEMMA NoFinType ==
  ASSUME ProgramOK
  PROVE  IsFin(NoFin)
<1>1. NoAddr \in AddressOrNone
  BY DEF AddressOrNone, NoAddr, SectionEnd, ProgramOK
<1> QED
  BY <1>1, NoSlicesType DEF NoFin, IsFin

LEMMA NewFunctionType ==
  ASSUME ProgramOK
  PROVE  IsFunction(NewFunction)
<1>1. NoAddr \in AddressOrNone
  BY DEF AddressOrNone, NoAddr, SectionEnd, ProgramOK
<1> QED
  BY <1>1, NoSlicesType DEF NewFunction, IsFunction

\* try_add_function for all references
LEMMA WithFunctionsType ==
  ASSUME ProgramOK, NEW fs, IsTable(fs), NEW refs, refs \subseteq Section
  PROVE  IsTable(WithFunctions(fs, refs)) /\ DOMAIN fs \subseteq DOMAIN WithFunctions(fs, refs)
BY NewFunctionType DEF WithFunctions, IsTable

\* insert into AnalyzerState::functions
LEMMA InsertType ==
  ASSUME ProgramOK, NEW fs, IsTable(fs), NEW f \in Section, NEW x, IsFunction(x)
  PROVE  IsTable(Insert(fs, f, x)) /\ DOMAIN fs \subseteq DOMAIN Insert(fs, f, x)
BY DEF Insert, IsTable

-----------------------------------------------------------------------------
(* A step of a walk changes nothing but the walk, and keeps its type. *)

Walks == IsFrame(frame') /\ frame'.kind = frame.kind /\ UNCHANGED <<given, driver>>

\* ExecCbResult
LEMMA ProceedType ==
  ASSUME ProgramOK, IsFrame(frame), NEW s, IsSlices(s), NEW push, push \subseteq Addresses,
         NEW to \in AddressOrNone, NEW block, to # NoAddr => block \in Section,
         Proceed(s, push, to, block)
  PROVE  Walks
BY DEF Proceed, Walks, IsFrame, NoFrame

LEMMA EndBlockType ==
  ASSUME ProgramOK, IsFrame(frame), NEW s, IsSlices(s), NEW push, push \subseteq Addresses,
         EndBlock(s, push)
  PROVE  Walks
<1>1. NoAddr \in AddressOrNone
  BY DEF AddressOrNone, NoAddr, SectionEnd, ProgramOK
<1> QED
  BY <1>1, ProceedType DEF EndBlock

LEMMA StopType ==
  ASSUME ProgramOK, IsFrame(frame), NEW stage, Stop(stage)
  PROVE  Walks
BY DEF Stop, Walks, IsFrame, NoFrame

\* an instruction is looked at
LEMMA AtType ==
  ASSUME ProgramOK, IsFrame(frame), frame.at \in Section
  PROVE  /\ frame.block \in Section /\ frame.block \in Addresses
         /\ Next1 \in Addresses /\ Next1 \in AddressOrNone
         /\ IsSlices(Here)
         /\ IsSlices(Ended)
<1>1. frame.block \in Section
  BY DEF IsFrame, Section, NoAddr
<1>2. /\ frame.block \in Addresses
      /\ Next1 \in Addresses /\ Next1 \in AddressOrNone
  BY <1>1 DEF Section, Addresses, AddressOrNone, NoAddr, SectionEnd, ProgramOK, Next1
<1>3. IsSlices(Here)
  BY NoteType DEF Here, IsFrame
<1>4. IsSlices(Ended)
  BY <1>2, <1>3, SetBlockType DEF Ended
<1> QED
  BY <1>1, <1>2, <1>3, <1>4

LEMMA PopType ==
  ASSUME ProgramOK, IsFrame(frame), Pop
  PROVE  Walks
<1> DEFINE a == Max(frame.stack)
<1>1. CASE a \notin Section
  <2>1. Stop("error")
    BY <1>1 DEF Pop
  <2> QED BY <2>1, StopType
<1>2. CASE a \in Section
  <2>1. a \in AddressOrNone /\ NoAddr \in AddressOrNone
    BY <1>2 DEF Section, AddressOrNone, NoAddr, SectionEnd, ProgramOK
  <2>2. /\ frame' = [frame EXCEPT !.stack = @ \ {a},
                                  !.at = IF a \in frame.visited THEN NoAddr ELSE a,
                                  !.block = IF a \in frame.visited THEN @ ELSE a]
        /\ UNCHANGED <<given, driver>>
    BY <1>2 DEF Pop
  <2> HIDE DEF a
  <2> QED BY <1>2, <2>1, <2>2 DEF Walks, IsFrame, NoFrame
<1> QED BY <1>1, <1>2

LEMMA HitFunctionType ==
  ASSUME ProgramOK, IsFrame(frame), HitFunction
  PROVE  Walks
<1>1. IsSlices(Here)
  BY AtType DEF HitFunction, Fetched
<1> HIDE DEF Here
<1> QED
  BY <1>1 DEF HitFunction, Walks, IsFrame, NoFrame

LEMMA PlainType ==
  ASSUME ProgramOK, IsFrame(frame), Plain
  PROVE  Walks
<1>1. frame.at \in Section
  BY DEF Plain, At, Is
<1> DEFINE s == SetBranches(SetBlock(Here, frame.block, Next1), frame.at, {Next1}, FALSE)
<1>2. IsSlices(SetBlock(Here, frame.block, Next1))
  BY <1>1, AtType, SetBlockType
<1>3. IsSlices(s)
  BY <1>1, <1>2, AtType, SetBranchesType
<1>4. \/ EndBlock(s, {})
      \/ Proceed(Here, {}, Next1, frame.block)
  BY DEF Plain
<1> HIDE DEF s
<1> QED
  BY <1>1, <1>3, <1>4, AtType, EndBlockType, ProceedType

LEMMA IllegalType ==
  ASSUME ProgramOK, IsFrame(frame), Illegal
  PROVE  Walks
<1>1. frame.at \in Section
  BY DEF Illegal, At, Is
<1>2. CASE Proceed(Here, {}, Next1, frame.block)
  BY <1>1, <1>2, AtType, ProceedType
<1>3. CASE /\ frame' = [frame EXCEPT !.slices = Here, !.stage = "false"]
           /\ UNCHANGED <<given, driver>>
  <2>1. IsSlices(Here)
    BY <1>1, AtType
  <2> HIDE DEF Here
  <2> QED BY <2>1, <1>3 DEF Walks, IsFrame, NoFrame
<1> QED
  BY <1>2, <1>3 DEF Illegal

LEMMA ReturnType ==
  ASSUME ProgramOK, IsFrame(frame), Return
  PROVE  Walks
<1>1. frame.at \in Section
  BY DEF Return, At, Is
<1> QED
  BY <1>1, AtType, EndBlockType DEF Return

LEMMA JumpAwayType ==
  ASSUME ProgramOK, IsFrame(frame), JumpAway
  PROVE  Walks
<1>1. frame.at \in Section
  BY DEF JumpAway, At, Is
<1> DEFINE s == SetBranches(Ended, frame.at, {Next1}, FALSE)
           push == IF Fresh(s, Next1) THEN {Next1} ELSE {}
<1>2. IsSlices(s) /\ push \subseteq Addresses
  BY <1>1, AtType, SetBranchesType
<1>3. IsSlices(AddBlock(s, Next1))
  BY <1>1, <1>2, AtType, AddBlockType
<1>4. EndBlock(AddBlock(s, Next1), push) \/ EndBlock(Ended, {})
  BY DEF JumpAway
<1> HIDE DEF s, push
<1> QED
  BY <1>1, <1>2, <1>3, <1>4, AtType, EndBlockType

LEMMA JumpType ==
  ASSUME ProgramOK, IsTable(functions), IsFrame(frame), Jump
  PROVE  Walks
<1>1. frame.at \in Section
  BY DEF Jump, At, Is
<1> DEFINE to == code[frame.at].to
           s == SetBranches(Ended, frame.at, {to}, FALSE)
           known == KnownFunction(s, to)
<1>2. to \in Section
  BY <1>1 DEF Jump, ProgramOK, Words, Section, NoAddr
<1>3. to \in Addresses /\ to \in AddressOrNone
  BY <1>2 DEF Section, Addresses, AddressOrNone, SectionEnd, ProgramOK
<1>4. IsSlices(s)
  BY <1>1, <1>3, AtType, SetBranchesType
<1>5. IsSlices(AddBlock(s, to))
  BY <1>3, <1>4, AddBlockType
<1>6. IsSlices(Refer(s, to))
  BY <1>2, <1>4, ReferType
<1>7. known # NoAddr => IsSlices(Refer(s, known))
  BY <1>3, <1>4, ReferKnown
<1>8. IsSlices([s EXCEPT !.possible = @ \cup {to}])
  <2>1. s.possible \cup {to} \subseteq Section
    BY <1>2, <1>4 DEF IsSlices
  <2> HIDE DEF s
  <2> QED BY <1>4, <2>1, FieldsType
<1>9. \/ EndBlock(s, {})
      \/ Proceed(AddBlock(s, to), {}, to, to)
      \/ EndBlock(AddBlock(s, to), {})
      \/ Stop("error")
      \/ known # NoAddr /\ EndBlock(Refer(s, known), {})
      \/ EndBlock(Refer(s, to), {})
      \/ EndBlock([s EXCEPT !.possible = @ \cup {to}], {})
  BY DEF Jump
<1> HIDE DEF s, known, to
<1> QED
  BY <1>2, <1>3, <1>4, <1>5, <1>6, <1>7, <1>8, <1>9, EndBlockType, ProceedType, StopType

LEMMA JumpTableType ==
  ASSUME ProgramOK, IsFrame(frame), JumpTable
  PROVE  Walks
<1>1. frame.at \in Section
  BY DEF JumpTable, At, Is
<1> DEFINE end == IF frame.end # NoAddr THEN frame.end ELSE End(Ended)
           entries == TableEntries(code[frame.at], frame.start, end)
           several == \E d, e \in entries : d # e
           s == SetBranches(Ended, frame.at, entries, several)
           t == [Ended EXCEPT !.possible = @ \cup entries]
<1>2. entries \subseteq Section /\ entries \subseteq Addresses
  <2>1. entries \subseteq Section
    BY <1>1, TableEntriesType
  <2> HIDE DEF entries
  <2> QED BY <2>1 DEF Section, Addresses, SectionEnd, ProgramOK
<1>3. IsSlices(s)
  BY <1>1, <1>2, AtType, SetBranchesType
<1>4. IsSlices(t)
  <2>1. Ended.possible \cup entries \subseteq Section
    BY <1>1, <1>2, AtType DEF IsSlices
  <2> HIDE DEF entries
  <2> QED BY <1>1, <2>1, AtType, FieldsType
<1>5. \/ /\ frame' = [frame EXCEPT !.slices = s, !.visited = @ \cup {frame.at},
                                   !.at = NoAddr, !.entries = entries]
         /\ UNCHANGED <<given, driver>>
      \/ EndBlock(t, {})
  BY DEF JumpTable
<1>6. NoAddr \in AddressOrNone
  BY DEF AddressOrNone, NoAddr, SectionEnd, ProgramOK
<1> HIDE DEF s, t, entries
<1>7. CASE EndBlock(t, {})
  BY <1>4, <1>7, EndBlockType
<1>8. CASE /\ frame' = [frame EXCEPT !.slices = s, !.visited = @ \cup {frame.at},
                                     !.at = NoAddr, !.entries = entries]
           /\ UNCHANGED <<given, driver>>
  BY <1>2, <1>3, <1>6, <1>8 DEF Walks, IsFrame, NoFrame
<1> QED
  BY <1>5, <1>7, <1>8

LEMMA TableEntryType ==
  ASSUME ProgramOK, IsFrame(frame), TableEntry
  PROVE  Walks
<1> DEFINE e == Min(frame.entries)
<1>1. frame.entries \subseteq Addresses /\ frame.entries # {}
  BY DEF TableEntry, IsFrame, Section, Addresses, SectionEnd, ProgramOK
<1>2. e \in Addresses
  BY <1>1, MinAddress
<1>3. IsSlices(AddBlock(frame.slices, e))
  BY <1>2, AddBlockType DEF IsFrame
<1>4. frame' = [frame EXCEPT !.slices = AddBlock(frame.slices, e), !.entries = @ \ {e},
                             !.stack = IF Fresh(frame.slices, e) THEN @ \cup {e} ELSE @]
  BY DEF TableEntry
<1>5. UNCHANGED <<given, driver>>
  BY DEF TableEntry
<1> HIDE DEF e
<1> QED
  BY <1>2, <1>3, <1>4, <1>5 DEF Walks, IsFrame, NoFrame

LEMMA BranchType ==
  ASSUME ProgramOK, IsTable(functions), IsFrame(frame), Branch
  PROVE  Walks
<1>1. frame.at \in Section
  BY DEF Branch, At, Is
<1> DEFINE to == code[frame.at].to
           next == Onward(Ended, Next1)
           taken == Onward(next.slices, to)
           call == Is(frame.at, {"bl", "bctrl"})
           s == IF to = NoAddr THEN next.slices
                ELSE IF call THEN Call(next.slices, to) ELSE taken.slices
           jump == to # NoAddr /\ ~call
           out == IF jump THEN next.out \cup taken.out ELSE next.out
           several == jump /\ next.out # {} /\ taken.out # {}
           push == IF jump THEN next.push \cup taken.push ELSE next.push
           t == IF out = {} THEN s ELSE SetBranches(s, frame.at, out, several)
<1>2. /\ IsSlices(next.slices)
      /\ next.push \subseteq Addresses /\ next.out \subseteq Addresses
  BY <1>1, AtType, OnwardType
<1> HIDE DEF next
<1>3. to # NoAddr => to \in Section
  BY <1>1 DEF ProgramOK, Words, Section, NoAddr
<1>4. to # NoAddr => to \in Addresses
  BY <1>3 DEF Section, Addresses, SectionEnd, ProgramOK
<1> HIDE DEF to
<1>5. to # NoAddr =>
        /\ IsSlices(taken.slices)
        /\ taken.push \subseteq Addresses /\ taken.out \subseteq Addresses
        /\ IsSlices(Call(next.slices, to))
  BY <1>2, <1>3, <1>4, OnwardType, CallType
<1> HIDE DEF taken
<1>6. IsSlices(s) /\ out \subseteq Addresses /\ push \subseteq Addresses
  BY <1>2, <1>5
<1> HIDE DEF s, out, several, push
<1>7. IsSlices(t)
  BY <1>1, <1>6, SetBranchesType
<1>8. EndBlock(t, push)
  BY DEF Branch, to, next, taken, s, out, several, push
<1> HIDE DEF t
<1> QED
  BY <1>6, <1>7, <1>8, EndBlockType

\* FunctionSlices::analyze goes on from an address
LEMMA ResumeType ==
  ASSUME ProgramOK, IsFrame(frame), NEW s, IsSlices(s), NEW a \in Addresses, NEW stage,
         Resume(s, a, stage)
  PROVE  Walks
BY DEF Resume, Walks, IsFrame, NoFrame

LEMMA VisitGapType ==
  ASSUME ProgramOK, IsFrame(frame), VisitGap
  PROVE  Walks
<1> DEFINE s == frame.slices
           b == GapAfter(s)
           gaps == {c \in DOMAIN s.blocks \ {LastBlock(s)} :
                      s.blocks[c] # NoAddr
                        /\ s.blocks[Min({d \in DOMAIN s.blocks : d > c})] # NoAddr
                        /\ Min({d \in DOMAIN s.blocks : d > c}) > s.blocks[c]}
           t == [s EXCEPT !.possible = @ \ {b}]
<1>1. IsSlices(s)
  BY DEF IsFrame
<1>2. b # NoAddr /\ Resume(t, s.blocks[b], "gaps")
  BY DEF VisitGap
<1>3. DOMAIN s.blocks # {} /\ gaps # {} /\ b = Min(gaps)
  BY <1>2 DEF GapAfter
<1>4. gaps \subseteq Addresses /\ gaps \subseteq DOMAIN s.blocks
  BY <1>1 DEF IsSlices
<1>5. b \in gaps
  BY <1>3, <1>4, MinAddress
<1>6. s.blocks[b] \in AddressOrNone /\ s.blocks[b] # NoAddr
  BY <1>1, <1>5 DEF IsSlices
<1>7. s.blocks[b] \in Addresses
  BY <1>6 DEF AddressOrNone, NoAddr, Addresses, SectionEnd, ProgramOK
<1>8. IsSlices(t)
  <2>1. s.possible \ {b} \subseteq Section
    BY <1>1 DEF IsSlices
  <2> HIDE DEF s, b
  <2> QED BY <1>1, <2>1, FieldsType
<1> HIDE DEF s, b, t
<1> QED
  BY <1>2, <1>7, <1>8, ResumeType

LEMMA VisitTrailingType ==
  ASSUME ProgramOK, IsFrame(frame), VisitTrailing
  PROVE  Walks
<1> DEFINE s == frame.slices
           behind == {a \in End(s)..frame.end - 1 : ~Is(a, {"nop"})}
           T == {frame.end} \cup behind
<1>1. IsSlices(s) /\ End(s) \in AddressOrNone /\ End(s) # NoAddr
  BY BoundsType DEF IsFrame, VisitTrailing, Trails
<1>2. frame.end \in AddressOrNone /\ frame.end # NoAddr
  BY DEF IsFrame, VisitTrailing, Trails
<1>3. T \subseteq Addresses /\ T # {}
  BY <1>1, <1>2 DEF AddressOrNone, NoAddr, Addresses, SectionEnd, ProgramOK
<1>4. Trailing(s, frame.end) = Min(T)
  BY DEF Trailing
<1>5. Trailing(s, frame.end) \in Addresses
  BY <1>3, <1>4, MinAddress
<1>6. Resume(s, Trailing(s, frame.end), "trailing")
  BY DEF VisitTrailing
<1> QED
  BY <1>1, <1>5, <1>6, ResumeType

LEMMA AnalyzeType ==
  ASSUME ProgramOK, IsFrame(frame), Analyze
  PROVE  Walks
<1>1. CASE Analyzed
  BY <1>1, StopType DEF Analyzed
<1> QED
  BY <1>1, VisitGapType, VisitTrailingType DEF Analyze

LEMMA StepType ==
  ASSUME ProgramOK, IsTable(functions), IsFrame(frame), Step
  PROVE  Walks
<1>1. CASE SecondFrame
  BY <1>1, StopType DEF SecondFrame
<1> QED
  BY <1>1, PopType, HitFunctionType, PlainType, IllegalType, ReturnType,
     JumpAwayType, JumpType, JumpTableType, TableEntryType, BranchType DEF Step

-----------------------------------------------------------------------------
(* The invariant is kept. *)

\* The section and what is known of it do not change, and so neither does what it is
\* to be an address or slices.
LEMMA Unchanged ==
  ASSUME ProgramOK, UNCHANGED given,
         IsTable(functions'), unfin' \subseteq DOMAIN functions',
         todo' \subseteq Section, entry' \in Section \cup {NoAddr},
         IsFrame(frame'), IsFin(fin')
  PROVE  ProgramOK' /\ TablesOK' /\ WalkOK'
<1>1. /\ Section' = Section /\ Addresses' = Addresses /\ AddressOrNone' = AddressOrNone
      /\ code' = code /\ symbols' = symbols
  BY DEF given, Section, Addresses, AddressOrNone, SectionEnd
<1>2. ProgramOK'
  BY <1>1 DEF ProgramOK
<1>3. IsFrame(frame)'
  BY <1>1 DEF IsFrame, IsSlices
<1>4. IsFin(fin)'
  BY <1>1 DEF IsFin, IsSlices
<1>5. IsTable(functions)'
  BY <1>1 DEF IsTable, IsFunction, IsSlices
<1> QED
  BY <1>1, <1>2, <1>3, <1>4, <1>5 DEF TablesOK, WalkOK

\* A step of a walk
LEMMA WalksKeep ==
  ASSUME FInv, Walks
  PROVE  FInv'
<1>1. /\ UNCHANGED given /\ frame'.kind = frame.kind /\ IsFrame(frame')
      /\ functions' = functions /\ pc' = pc /\ todo' = todo /\ entry' = entry /\ fin' = fin
      /\ unfin' = unfin /\ final' = final /\ finalized' = finalized
  BY DEF Walks, driver
<1>2. ProgramOK' /\ TablesOK' /\ WalkOK'
  BY <1>1, Unchanged DEF FInv, TablesOK, WalkOK
<1>3. PhaseOK'
  <2>1. Section' = Section
    BY <1>1 DEF given, Section
  <2> QED BY <1>1, <2>1 DEF FInv, PhaseOK
<1>4. ApartOK'
  BY <1>1 DEF FInv, ApartOK, Apart
<1> QED
  BY <1>2, <1>3, <1>4 DEF FInv

\* The analysis gives up.
LEMMA FailKeeps ==
  ASSUME FInv, NEW what, Fail(what)
  PROVE  FInv'
<1>1. IsFrame(frame') /\ frame'.kind = "none"
  BY NoFrameType DEF FInv, Fail
<1>2. ProgramOK' /\ TablesOK' /\ WalkOK'
  BY <1>1, Unchanged DEF FInv, TablesOK, WalkOK, Fail, finVars
<1>3. PhaseOK' /\ ApartOK'
  BY <1>1 DEF Fail, PhaseOK, ApartOK
<1> QED
  BY <1>2, <1>3 DEF FInv

\* A function is made while functions are processed.
LEMMA ProcessedKeeps ==
  ASSUME FInv, frame.kind = "function", IsTable(functions'),
         DOMAIN functions \subseteq DOMAIN functions',
         frame' = NoFrame, UNCHANGED <<given, pc, todo, entry, finVars>>
  PROVE  FInv'
<1>1. IsFrame(frame') /\ frame'.kind = "none"
  BY NoFrameType DEF FInv
<1>2. ProgramOK' /\ TablesOK' /\ WalkOK'
  BY <1>1, Unchanged DEF FInv, TablesOK, WalkOK, finVars
<1>3. pc' = "process"
  BY DEF FInv, PhaseOK
<1>4. PhaseOK' /\ ApartOK'
  BY <1>1, <1>3 DEF PhaseOK, ApartOK
<1> QED
  BY <1>2, <1>4 DEF FInv

LEMMA FunctionFoundKeeps ==
  ASSUME FInv, FunctionFound
  PROVE  FInv'
<1> DEFINE s == frame.slices
           known == WithFunctions(functions, s.refs)
           done == Finalize(s, DOMAIN known)
           open == [analyzed |-> TRUE, end |-> NoAddr, found |-> TRUE, slices |-> s]
           closed == [analyzed |-> TRUE, end |-> End(done), found |-> TRUE, slices |-> done]
<1>1. /\ ProgramOK /\ IsTable(functions) /\ IsSlices(s) /\ s.refs \subseteq Section
      /\ frame.kind = "function" /\ frame.start \in Section
  BY DEF FInv, FunctionFound, TablesOK, WalkOK, IsFrame, IsSlices
<1>2. IsTable(known) /\ DOMAIN functions \subseteq DOMAIN known
  BY <1>1, WithFunctionsType
<1>3. IsSlices(done) /\ End(done) \in AddressOrNone
  BY <1>1, FinalizeType, BoundsType
<1>4. IsFunction(open) /\ IsFunction(closed)
  <2>1. NoAddr \in AddressOrNone
    BY <1>1 DEF AddressOrNone, NoAddr, SectionEnd, ProgramOK
  <2> HIDE DEF s, done
  <2> QED BY <1>1, <1>3, <2>1 DEF IsFunction, NewFunction
<1>5. \/ \E what : Fail(what)
      \/ /\ \E x \in {open, closed} : functions' = Insert(known, frame.start, x)
         /\ frame' = NoFrame /\ UNCHANGED <<given, pc, todo, entry, finVars>>
  BY DEF FunctionFound
<1> HIDE DEF s, known, done, open, closed
<1>6. CASE \E what : Fail(what)
  BY <1>6, FailKeeps
<1>7. CASE /\ \E x \in {open, closed} : functions' = Insert(known, frame.start, x)
           /\ frame' = NoFrame /\ UNCHANGED <<given, pc, todo, entry, finVars>>
  <2>1. IsTable(functions') /\ DOMAIN functions \subseteq DOMAIN functions'
    BY <1>1, <1>2, <1>4, <1>7, InsertType
  <2> QED BY <1>1, <1>7, <2>1, ProcessedKeeps
<1> QED
  BY <1>5, <1>6, <1>7

LEMMA NotFunctionKeeps ==
  ASSUME FInv, NotFunction
  PROVE  FInv'
<1> DEFINE old == IF frame.start \in DOMAIN functions THEN functions[frame.start] ELSE NewFunction
           x == [old EXCEPT !.analyzed = TRUE, !.end = NoAddr]
<1>1. /\ ProgramOK /\ IsTable(functions)
      /\ frame.kind = "function" /\ frame.start \in Section
  BY DEF FInv, NotFunction, TablesOK, WalkOK, IsFrame
<1>2. IsFunction(old)
  BY <1>1, NewFunctionType DEF IsTable
<1>3. IsFunction(x)
  <2>1. NoAddr \in AddressOrNone
    BY <1>1 DEF AddressOrNone, NoAddr, SectionEnd, ProgramOK
  <2> HIDE DEF old
  <2> QED BY <1>2, <2>1 DEF IsFunction, NewFunction
<1>4. /\ functions' = Insert(functions, frame.start, x)
      /\ frame' = NoFrame /\ UNCHANGED <<given, pc, todo, entry, finVars>>
  BY DEF NotFunction
<1> HIDE DEF x
<1>5. IsTable(functions') /\ DOMAIN functions \subseteq DOMAIN functions'
  BY <1>1, <1>3, <1>4, InsertType
<1> QED
  BY <1>1, <1>4, <1>5, ProcessedKeeps

\* What is done of the verdict on a possible block
LEMMA SettleKeeps ==
  ASSUME FInv, pc = "finalize", fin.function # NoAddr,
         NEW s, IsSlices(s), NEW b \in Section, NEW v, Settle(v, s, b),
         UNCHANGED <<given, functions, pc, todo, entry, unfin, final, finalized, err>>
  PROVE  FInv'
<1> DEFINE without == [s EXCEPT !.possible = @ \ {b}]
<1>1. ProgramOK /\ IsFin(fin) /\ b \in Section \cup {NoAddr} /\ NoAddr \in Section \cup {NoAddr}
  BY DEF FInv, WalkOK
<1>2. IsSlices(without)
  <2>1. s.possible \ {b} \subseteq Section
    BY DEF IsSlices
  <2> QED BY <1>1, <2>1, FieldsType
<1>3. IsSlices(Refer(without, b))
  <2> HIDE DEF without
  <2> QED BY <1>1, <1>2, ReferType
<1>4. \A t, c : IsSlices(t) /\ c \in Section \cup {NoAddr}
         => /\ IsFin([fin EXCEPT !.slices = t, !.block = c])
            /\ [fin EXCEPT !.slices = t, !.block = c].function = fin.function
  BY <1>1 DEF IsFin, NoFin
<1>5. IsFrame(NoFrame) /\ NoFrame.kind = "none"
  BY <1>1, NoFrameType
<1>6. /\ IsFrame(Walk("block", without, b, fin.start, fin.end))
      /\ Walk("block", without, b, fin.start, fin.end).kind = "block"
  <2>1. fin.start \in AddressOrNone /\ fin.end \in AddressOrNone
    BY <1>1 DEF IsFin
  <2> HIDE DEF without
  <2> QED BY <1>1, <1>2, <2>1, WalkType DEF Kinds
<1>7. /\ frame' \in {Walk("block", without, b, fin.start, fin.end), NoFrame}
      /\ \E t \in {without, Refer(without, b), s}, c \in {b, NoAddr} :
           fin' = [fin EXCEPT !.slices = t, !.block = c]
  BY DEF Settle
<1> HIDE DEF without
<1>8. IsFin(fin') /\ fin'.function # NoAddr
  <2>1. PICK t \in {without, Refer(without, b), s}, c \in {b, NoAddr} :
               fin' = [fin EXCEPT !.slices = t, !.block = c]
    BY <1>7
  <2>2. IsSlices(t) /\ c \in Section \cup {NoAddr}
    BY <1>1, <1>2, <1>3
  <2> QED BY <2>1, <2>2, <1>4
<1>9. IsFrame(frame') /\ frame'.kind \in {"none", "block"}
  BY <1>5, <1>6, <1>7
<1>10. ProgramOK' /\ TablesOK' /\ WalkOK'
  BY <1>1, <1>8, <1>9, Unchanged DEF FInv, TablesOK
<1>11. PhaseOK' /\ ApartOK'
  BY <1>8, <1>9 DEF FInv, PhaseOK, ApartOK, Apart
<1> QED
  BY <1>10, <1>11 DEF FInv

LEMMA NextUnfinalizedKeeps ==
  ASSUME FInv, NextUnfinalized
  PROVE  FInv'
<1> DEFINE f == Min(unfin)
           s == functions[f].slices
<1>1. ProgramOK /\ IsTable(functions) /\ unfin \subseteq DOMAIN functions /\ unfin # {}
  BY DEF FInv, TablesOK, NextUnfinalized
<1>2. f \in DOMAIN functions /\ f \in Section
  <2>1. unfin \subseteq Addresses
    BY <1>1 DEF IsTable, Section, Addresses, SectionEnd, ProgramOK
  <2> QED BY <1>1, <2>1, MinAddress DEF IsTable
<1>3. IsSlices(s) /\ Start(s) \in AddressOrNone /\ End(s) \in AddressOrNone
  BY <1>1, <1>2, BoundsType DEF IsTable, IsFunction
<1>4. /\ fin' = [function |-> f, slices |-> s, start |-> Start(s), end |-> End(s),
                 block |-> NoAddr]
      /\ unfin' = unfin \ {f}
      /\ UNCHANGED <<given, functions, pc, todo, entry, frame, final, finalized, err>>
  BY DEF NextUnfinalized
<1> HIDE DEF f, s
<1>5. IsFin(fin') /\ fin'.function # NoAddr
  BY <1>2, <1>3, <1>4 DEF IsFin, NoFin, Section, NoAddr
<1>6. ProgramOK' /\ TablesOK' /\ WalkOK'
  BY <1>1, <1>4, <1>5, Unchanged DEF FInv, TablesOK, WalkOK
<1>7. frame.kind # "tail"
  <2>1. fin = NoFin
    BY DEF NextUnfinalized
  <2> QED BY <2>1 DEF FInv, PhaseOK, NoFin
<1>8. PhaseOK' /\ ApartOK'
  BY <1>4, <1>5, <1>7 DEF FInv, PhaseOK, ApartOK, Apart
<1> QED
  BY <1>6, <1>8 DEF FInv

LEMMA CheckTailCallKeeps ==
  ASSUME FInv, CheckTailCall
  PROVE  FInv'
<1> DEFINE b == Min(Undecided)
           v == TailCall(fin.slices, b, fin.start, fin.end)
           s == [NoSlices EXCEPT !.refs = fin.slices.refs]
<1>1. /\ ProgramOK /\ IsFin(fin) /\ IsSlices(fin.slices)
      /\ pc = "finalize" /\ fin.function # NoAddr /\ Undecided # {}
      /\ UNCHANGED <<given, functions, pc, todo, entry, unfin, final, finalized, err>>
  BY DEF FInv, WalkOK, IsFin, CheckTailCall, Finalizing
<1>2. b \in Section
  <2>1. Undecided \subseteq Section /\ Undecided \subseteq Addresses
    BY <1>1 DEF Undecided, IsSlices, Section, Addresses, SectionEnd, ProgramOK
  <2> QED BY <1>1, <2>1, MinAddress
<1>3. IsSlices(s)
  BY <1>1, NoSlicesType, FieldsType DEF IsSlices
<1>4. \/ /\ frame' = Walk("tail", s, b, fin.start, fin.end)
         /\ fin' = [fin EXCEPT !.block = b]
      \/ Settle(v, fin.slices, b)
  BY DEF CheckTailCall
<1> HIDE DEF b, v, s
<1>5. CASE Settle(v, fin.slices, b)
  BY <1>1, <1>2, <1>5, SettleKeeps
<1>6. CASE /\ frame' = Walk("tail", s, b, fin.start, fin.end)
           /\ fin' = [fin EXCEPT !.block = b]
  <2>1. IsFrame(frame') /\ frame'.kind = "tail"
    <3>1. fin.start \in AddressOrNone /\ fin.end \in AddressOrNone
      BY <1>1 DEF IsFin
    <3> QED BY <1>1, <1>2, <1>3, <1>6, <3>1, WalkType DEF Kinds
  <2>2. IsFin(fin') /\ fin'.function = fin.function /\ fin'.block = b
    BY <1>1, <1>2, <1>6 DEF IsFin, NoFin
  <2>3. ProgramOK' /\ TablesOK' /\ WalkOK'
    BY <1>1, <2>1, <2>2, Unchanged DEF FInv, TablesOK
  <2>4. Section' = Section
    BY <1>1 DEF given, Section
  <2>5. PhaseOK' /\ ApartOK'
    BY <1>1, <1>2, <2>1, <2>2, <2>4 DEF FInv, PhaseOK, ApartOK, Apart
  <2> QED BY <2>3, <2>5 DEF FInv
<1> QED
  BY <1>4, <1>5, <1>6

LEMMA ProbedKeeps ==
  ASSUME FInv, Probed
  PROVE  FInv'
<1>1. /\ ProgramOK /\ IsSlices(fin.slices) /\ fin.block \in Section
      /\ pc = "finalize" /\ fin.function # NoAddr
      /\ UNCHANGED <<given, functions, pc, todo, entry, unfin, final, finalized, err>>
  BY DEF FInv, WalkOK, IsFin, PhaseOK, Probed
<1>2. PICK v, joined : Settle(v, [fin.slices EXCEPT !.possible = @ \ joined], fin.block)
  BY DEF Probed
<1>3. fin.slices.possible \ joined \subseteq Section
  BY <1>1 DEF IsSlices
<1>4. IsSlices([fin.slices EXCEPT !.possible = @ \ joined])
  BY <1>1, <1>3, FieldsType
<1> QED
  BY <1>1, <1>2, <1>4, SettleKeeps

LEMMA BlockWalkedKeeps ==
  ASSUME FInv, BlockWalked
  PROVE  FInv'
<1>1. /\ ProgramOK /\ IsSlices(frame.slices) /\ IsFin(fin) /\ fin.function # NoAddr
      /\ fin' = [fin EXCEPT !.slices = frame.slices] /\ frame' = NoFrame
      /\ UNCHANGED <<given, functions, pc, todo, entry, unfin, final, finalized, err>>
  BY DEF FInv, WalkOK, IsFrame, PhaseOK, BlockWalked
<1>2. IsFin(fin')
  BY <1>1 DEF IsFin, NoFin
<1>3. IsFrame(frame') /\ frame'.kind = "none"
  BY <1>1, NoFrameType
<1>4. ProgramOK' /\ TablesOK' /\ WalkOK'
  BY <1>1, <1>2, <1>3, Unchanged DEF FInv, TablesOK
<1>5. PhaseOK' /\ ApartOK'
  BY <1>1, <1>3 DEF FInv, PhaseOK, ApartOK, Apart
<1> QED
  BY <1>4, <1>5 DEF FInv

LEMMA FinishFunctionKeeps ==
  ASSUME FInv, FinishFunction
  PROVE  FInv'
<1> DEFINE s == fin.slices
           done == Finalize(s, DOMAIN functions)
           known == WithFunctions(functions, done.refs)
           x == [analyzed |-> TRUE, end |-> End(done), found |-> TRUE, slices |-> done]
<1>1. /\ ProgramOK /\ IsTable(functions) /\ IsFrame(frame) /\ IsSlices(s)
      /\ pc = "finalize" /\ frame.kind = "none" /\ fin.function \in Section
  BY DEF FInv, TablesOK, WalkOK, IsFin, FinishFunction, Finalizing
<1>2. IsFin(NoFin)
  BY <1>1, NoFinType
<1>3. \/ /\ fin' = NoFin
         /\ UNCHANGED <<given, functions, pc, todo, entry, frame, unfin, final, finalized, err>>
      \/ \E what : Fail(what)
      \/ /\ functions' = Insert(known, fin.function, x)
         /\ finalized' = TRUE /\ fin' = NoFin
         /\ UNCHANGED <<given, pc, todo, entry, frame, unfin, final, err>>
  BY DEF FinishFunction
<1>4. IsSlices(done) /\ End(done) \in AddressOrNone /\ done.refs \subseteq Section
  <2>1. IsSlices(done)
    BY <1>1, FinalizeType
  <2> HIDE DEF done
  <2> QED BY <1>1, <2>1, BoundsType DEF IsSlices
<1>5. IsTable(known) /\ DOMAIN functions \subseteq DOMAIN known
  BY <1>1, <1>4, WithFunctionsType
<1>6. IsFunction(x)
  <2> HIDE DEF done
  <2> QED BY <1>4 DEF IsFunction, NewFunction
<1> HIDE DEF s, done, known, x
<1>7. CASE /\ fin' = NoFin
           /\ UNCHANGED <<given, functions, pc, todo, entry, frame, unfin, final, finalized, err>>
  <2>1. ProgramOK' /\ TablesOK' /\ WalkOK'
    BY <1>1, <1>2, <1>7, Unchanged DEF FInv, TablesOK
  <2>2. PhaseOK' /\ ApartOK'
    BY <1>1, <1>7 DEF FInv, PhaseOK, ApartOK, Apart
  <2> QED BY <2>1, <2>2 DEF FInv
<1>8. CASE \E what : Fail(what)
  BY <1>8, FailKeeps
<1>9. CASE /\ functions' = Insert(known, fin.function, x)
           /\ finalized' = TRUE /\ fin' = NoFin
           /\ UNCHANGED <<given, pc, todo, entry, frame, unfin, final, err>>
  <2>1. IsTable(functions') /\ DOMAIN functions \subseteq DOMAIN functions'
    BY <1>1, <1>5, <1>6, <1>9, InsertType
  <2>2. ProgramOK' /\ TablesOK' /\ WalkOK'
    BY <1>1, <1>2, <1>9, <2>1, Unchanged DEF FInv, TablesOK
  <2>3. PhaseOK' /\ ApartOK'
    BY <1>1, <1>9 DEF FInv, PhaseOK, ApartOK
  <2> QED BY <2>2, <2>3 DEF FInv
<1> QED
  BY <1>3, <1>7, <1>8, <1>9

\* detect_functions begins with a function.
LEMMA BeginKeeps ==
  ASSUME FInv, pc = "process", NEW a \in Section, Begin(a),
         todo' \subseteq Section, entry' \in Section \cup {NoAddr},
         UNCHANGED <<given, functions, pc, finVars, err>>
  PROVE  FInv'
<1> DEFINE end == IF a \in DOMAIN functions THEN functions[a].end ELSE NoAddr
<1>1. ProgramOK /\ IsTable(functions) /\ IsSlices(NoSlices)
  BY NoSlicesType DEF FInv, TablesOK
<1>2. a \in AddressOrNone /\ end \in AddressOrNone
  BY <1>1 DEF IsTable, IsFunction, Section, AddressOrNone, NoAddr, SectionEnd, ProgramOK
<1>3. frame' = Walk("function", NoSlices, a, a, end)
  BY DEF Begin
<1> HIDE DEF end
<1>4. IsFrame(frame') /\ frame'.kind = "function"
  BY <1>1, <1>2, <1>3, WalkType DEF Kinds
<1>5. ProgramOK' /\ TablesOK' /\ WalkOK'
  BY <1>1, <1>4, Unchanged DEF FInv, TablesOK, WalkOK, finVars
<1>6. PhaseOK' /\ ApartOK'
  BY <1>4 DEF FInv, PhaseOK, ApartOK
<1> QED
  BY <1>5, <1>6 DEF FInv

LEMMA ProcessKeeps ==
  ASSUME FInv, ProcessKnown \/ ProcessEntry \/ ProcessFunction
  PROVE  FInv'
<1>1. /\ ProgramOK /\ IsTable(functions) /\ pc = "process"
      /\ todo \subseteq Section /\ entry \in Section \cup {NoAddr}
  BY DEF FInv, TablesOK, ProcessKnown, ProcessEntry, ProcessFunction, KnownProcessed
<1>2. Section \subseteq Addresses
  BY <1>1 DEF Section, Addresses, SectionEnd, ProgramOK
<1>3. CASE ProcessKnown
  <2> DEFINE a == Min(todo)
  <2>1. a \in Section
    <3>1. todo \subseteq Addresses /\ todo # {}
      BY <1>1, <1>2, <1>3 DEF ProcessKnown
    <3> QED BY <1>1, <3>1, MinAddress
  <2>2. /\ Begin(a) /\ todo' = todo \ {a}
        /\ UNCHANGED <<given, functions, pc, entry, finVars, err>>
    BY <1>3 DEF ProcessKnown
  <2> HIDE DEF a
  <2> QED BY <1>1, <2>1, <2>2, BeginKeeps
<1>4. CASE ProcessEntry
  <2>1. entry \in Section
    BY <1>1, <1>4 DEF ProcessEntry
  <2> QED BY <1>1, <1>4, <2>1, BeginKeeps DEF ProcessEntry
<1>5. CASE ProcessFunction
  <2> DEFINE a == Min(Pending)
  <2>1. a \in Section
    <3>1. Pending \subseteq Section /\ Pending # {}
      BY <1>1, <1>5 DEF ProcessFunction, Pending, IsTable
    <3> QED BY <1>1, <1>2, <3>1, MinAddress
  <2>2. Begin(a) /\ UNCHANGED <<given, functions, pc, todo, entry, finVars, err>>
    BY <1>5 DEF ProcessFunction
  <2> HIDE DEF a
  <2> QED BY <1>1, <2>1, <2>2, BeginKeeps
<1> QED
  BY <1>3, <1>4, <1>5

\* A finalizing pass begins; when it is the last, no function reaches over another.
LEMMA StartFinalizeKeeps ==
  ASSUME FInv, frame.kind = "none", NEW f, f => Apart(functions), StartFinalize(f)
  PROVE  FInv'
<1>1. unfin' \subseteq DOMAIN functions
  BY DEF StartFinalize
<1>2. ProgramOK' /\ TablesOK' /\ WalkOK'
  BY <1>1, Unchanged DEF FInv, TablesOK, WalkOK, StartFinalize
<1>3. PhaseOK' /\ ApartOK'
  BY DEF FInv, PhaseOK, ApartOK, Apart, StartFinalize
<1> QED
  BY <1>2, <1>3 DEF FInv

LEMMA FinalizedKeeps ==
  ASSUME FInv, Finalized
  PROVE  FInv'
<1>1. /\ fin = NoFin /\ pc = "finalize"
      /\ pc' \in {"process", "detect", "failed", "done"}
      /\ pc' = "done" => final /\ ~finalized
      /\ UNCHANGED <<given, functions, todo, entry, frame, finVars>>
  BY DEF Finalized
<1>2. frame.kind = "none"
  BY <1>1 DEF FInv, PhaseOK, WalkOK, IsFrame, Kinds, NoFin
<1>3. ProgramOK' /\ TablesOK' /\ WalkOK'
  BY <1>1, Unchanged DEF FInv, TablesOK, WalkOK, finVars
<1>4. PhaseOK' /\ ApartOK'
  BY <1>1, <1>2 DEF FInv, PhaseOK, ApartOK, Apart, finVars
<1> QED
  BY <1>3, <1>4 DEF FInv

\* When no function reaches over its neighbour, none reaches over another.
LEMMA NeighboursSuffice ==
  ASSUME ProgramOK, IsTable(functions), ~Overlapping
  PROVE  Apart(functions)
<1> SUFFICES ASSUME NEW f \in DOMAIN functions, NEW g \in DOMAIN functions, f < g
             PROVE  functions[f].end <= g
  BY DEF Apart
<1> DEFINE T == {SectionEnd} \cup {h \in DOMAIN functions : h > f}
<1>1. T \subseteq Addresses /\ g \in T /\ g \in Section /\ f \in Section
  BY DEF IsTable, Section, Addresses, SectionEnd, ProgramOK
<1>2. NextStart(f) \in Addresses /\ NextStart(f) <= g
  BY <1>1, MinAddress DEF NextStart
<1>3. NextStart(f) # SectionEnd
  BY <1>1, <1>2 DEF Section, SectionEnd, Addresses, ProgramOK
<1>4. ~(functions[f].end > NextStart(f))
  BY <1>3 DEF Overlapping
<1>5. functions[f].end \in Int /\ NextStart(f) \in Int /\ g \in Int
  BY <1>1, <1>2 DEF IsTable, IsFunction, AddressOrNone, Addresses, Section
<1> QED
  BY <1>2, <1>4, <1>5

LEMMA DetectNewKeeps ==
  ASSUME FInv, DetectNew
  PROVE  FInv'
<1>1. /\ ProgramOK /\ IsTable(functions) /\ pc = "detect" /\ frame.kind = "none"
  BY DEF FInv, TablesOK, DetectNew, PhaseOK, WalkOK, IsFrame, Kinds
<1> DEFINE fs == [f \in DOMAIN functions \cup Unclaimed |->
                    IF f \in Unclaimed THEN NewFunction ELSE functions[f]]
<1>2. \/ Fail("overlap")
      \/ ~Overlapping /\ StartFinalize(TRUE)
      \/ /\ functions' = fs /\ pc' = "process"
         /\ UNCHANGED <<given, todo, entry, frame, finVars, err>>
  BY DEF DetectNew
<1>3. CASE Fail("overlap")
  BY <1>3, FailKeeps
<1>4. CASE ~Overlapping /\ StartFinalize(TRUE)
  BY <1>1, <1>4, NeighboursSuffice, StartFinalizeKeeps
<1>5. CASE /\ functions' = fs /\ pc' = "process"
           /\ UNCHANGED <<given, todo, entry, frame, finVars, err>>
  <2>1. IsTable(fs) /\ DOMAIN functions \subseteq DOMAIN fs
    <3>1. Unclaimed \subseteq Section
      BY DEF Unclaimed
    <3> QED BY <1>1, <3>1, NewFunctionType DEF IsTable
  <2> HIDE DEF fs
  <2>2. ProgramOK' /\ TablesOK' /\ WalkOK'
    BY <1>1, <1>5, <2>1, Unchanged DEF FInv, TablesOK, WalkOK, finVars
  <2>3. PhaseOK' /\ ApartOK'
    BY <1>1, <1>5 DEF PhaseOK, ApartOK
  <2> QED BY <2>2, <2>3 DEF FInv
<1> QED
  BY <1>2, <1>3, <1>4, <1>5

-----------------------------------------------------------------------------

LEMMA Initial == FInit => FInv
<1> SUFFICES ASSUME FInit PROVE FInv
  OBVIOUS
<1>1. PICK p \in Programs :
        /\ code = p.code /\ symbols = p.symbols /\ skip = p.skip
        /\ functions = [f \in {1} \cup DOMAIN p.symbols |->
                          IF f \in DOMAIN p.symbols THEN [NewFunction EXCEPT !.end = p.symbols[f]]
                          ELSE NewFunction]
        /\ todo = {1} \cup DOMAIN p.symbols /\ entry = p.entry
        /\ pc = "process" /\ frame = NoFrame /\ fin = NoFin /\ unfin = {}
  BY DEF FInit
<1>2. IsProgram(p)
  BY ProgramAssumption
<1>3. /\ code # <<>> /\ code \in Seq(Words(Len(code)))
      /\ DOMAIN symbols \subseteq Section
      /\ \A f \in DOMAIN symbols : symbols[f] \in AddressOrNone
      /\ entry \in Section \cup {NoAddr}
  BY <1>1, <1>2 DEF IsProgram, Section, AddressOrNone, SectionEnd
<1>4. Len(code) \in Nat \ {0}
  <2> DEFINE W == Words(Len(code))
  <2>1. code # <<>> /\ code \in Seq(W)
    BY <1>3
  <2> HIDE DEF W
  <2> QED BY <2>1
<1>5. \A a \in Section : code[a] \in Words(Len(code))
  <2> DEFINE W == Words(Len(code))
  <2>1. code \in Seq(W)
    BY <1>3
  <2> HIDE DEF W
  <2>2. \A a \in 1..Len(code) : code[a] \in W
    BY <2>1
  <2> QED BY <2>2 DEF W, Section
<1>6. ProgramOK
  BY <1>3, <1>4, <1>5 DEF ProgramOK
<1>7. 1 \in Section
  BY <1>4 DEF Section
<1>8. IsTable(functions)
  <2>1. DOMAIN functions = {1} \cup DOMAIN symbols
    BY <1>1
  <2>2. \A e \in AddressOrNone : IsFunction([NewFunction EXCEPT !.end = e])
    BY <1>6, NewFunctionType DEF IsFunction, NewFunction
  <2>3. \A f \in DOMAIN functions : IsFunction(functions[f])
    BY <1>1, <1>3, <1>6, <2>2, NewFunctionType
  <2> QED BY <1>3, <1>7, <2>1, <2>3 DEF IsTable
<1>9. TablesOK
  BY <1>1, <1>3, <1>7, <1>8 DEF TablesOK
<1>10. WalkOK
  BY <1>1, <1>6, NoFrameType, NoFinType DEF WalkOK
<1>11. PhaseOK /\ ApartOK
  BY <1>1, <1>6, NoFrameType DEF PhaseOK, ApartOK
<1> QED
  BY <1>6, <1>9, <1>10, <1>11 DEF FInv

LEMMA StutterKeeps ==
  ASSUME FInv, UNCHANGED fvars
  PROVE  FInv'
<1>1. UNCHANGED <<code, symbols, functions, pc, todo, entry, frame, fin, unfin, final, finalized>>
  BY DEF fvars
<1>2. SectionEnd' = SectionEnd /\ Addresses' = Addresses /\ Section' = Section
  BY <1>1 DEF SectionEnd, Addresses, Section
<1>3. AddressOrNone' = AddressOrNone
  BY <1>2 DEF AddressOrNone
<1>4. ProgramOK'
  BY <1>1, <1>2, <1>3 DEF FInv, ProgramOK
<1>5. TablesOK'
  BY <1>1, <1>2, <1>3 DEF FInv, TablesOK, IsTable, IsFunction, IsSlices
<1>6. WalkOK'
  BY <1>1, <1>2, <1>3 DEF FInv, WalkOK, IsFrame, IsFin, IsSlices
<1>7. PhaseOK'
  BY <1>1, <1>2 DEF FInv, PhaseOK
<1>8. ApartOK'
  BY <1>1 DEF FInv, ApartOK, Apart
<1> QED BY <1>4, <1>5, <1>6, <1>7, <1>8 DEF FInv

LEMMA Inductive == FInv /\ [FNext]_fvars => FInv'
<1> SUFFICES ASSUME FInv, [FNext]_fvars PROVE FInv'
  OBVIOUS
<1>1. CASE Step \/ Analyze
  <2>1. ProgramOK /\ IsTable(functions) /\ IsFrame(frame)
    BY DEF FInv, TablesOK, WalkOK
  <2> QED BY <1>1, <2>1, StepType, AnalyzeType, WalksKeep
<1>2. CASE AnalysisFails \/ FallOff
  BY <1>2, FailKeeps DEF AnalysisFails, FallOff
<1>3. CASE FunctionFound
  BY <1>3, FunctionFoundKeeps
<1>4. CASE NotFunction
  BY <1>4, NotFunctionKeeps
<1>5. CASE NextUnfinalized
  BY <1>5, NextUnfinalizedKeeps
<1>6. CASE CheckTailCall
  BY <1>6, CheckTailCallKeeps
<1>7. CASE Probed
  BY <1>7, ProbedKeeps
<1>8. CASE BlockWalked
  BY <1>8, BlockWalkedKeeps
<1>9. CASE FinishFunction
  BY <1>9, FinishFunctionKeeps
<1>10. CASE ProcessKnown \/ ProcessEntry \/ ProcessFunction
  BY <1>10, ProcessKeeps
<1>11. CASE AllAnalyzed
  BY <1>11, StartFinalizeKeeps DEF AllAnalyzed, KnownProcessed
<1>12. CASE Finalized
  BY <1>12, FinalizedKeeps
<1>13. CASE DetectNew
  BY <1>13, DetectNewKeeps
<1>14. CASE Terminated \/ UNCHANGED fvars
  BY <1>14, StutterKeeps DEF Terminated
<1> QED
  BY <1>1, <1>2, <1>3, <1>4, <1>5, <1>6, <1>7, <1>8, <1>9, <1>10, <1>11, <1>12, <1>13,
     <1>14 DEF FNext

\* The inductive invariant of AnalyzerState::detect_functions.
THEOREM Invariance == FSpec => []FInv
<1>1. FInit => FInv
  BY Initial
<1>2. FInv /\ [FNext]_fvars => FInv'
  BY Inductive
<1> QED
  BY <1>1, <1>2, PTL DEF FSpec

\* The tables and the walks of the analysis keep their types, whatever the code: no
\* block begins or ends outside of the section.
THEOREM TypeCorrect == FSpec => []FTypeOK
<1>1. FInv => FTypeOK
  BY DEF FInv, TablesOK, WalkOK, PhaseOK, FTypeOK, IsTable, IsFunction, IsFrame, IsFin,
         AddressOrNone, Addresses, NoAddr
<1> QED
  BY <1>1, Invariance, PTL

\* When detect_functions has succeeded, no function that was found has the start of
\* another in its body.
THEOREM Disjoint == FSpec => []FunctionsDisjoint
<1>1. FInv => FunctionsDisjoint
  <2> SUFFICES ASSUME FInv, pc = "done", NEW f \in Found, NEW g \in Body(f) \cap DOMAIN functions
               PROVE  g = f
    BY DEF FunctionsDisjoint
  <2>1. /\ f \in DOMAIN functions /\ g \in DOMAIN functions
        /\ IsTable(functions) /\ Apart(functions)
    BY DEF FInv, TablesOK, ApartOK, Found
  <2>2. f \in Int /\ g \in Int /\ functions[f].end \in Int
    BY <2>1 DEF IsTable, IsFunction, Section, AddressOrNone
  <2>3. f <= g /\ g < functions[f].end
    BY <2>2 DEF Body
  <2>4. ~(f < g)
    BY <2>1, <2>2, <2>3 DEF Apart
  <2> QED BY <2>2, <2>3, <2>4
<1> QED
  BY <1>1, Invariance, PTL

-----------------------------------------------------------------------------
(* The blocks of a function are apart. *)

\* A block that has an end is not empty and ends before the next one.
Parted(s) ==
  \A b \in DOMAIN s.blocks : s.blocks[b] # NoAddr =>
    /\ b < s.blocks[b]
    /\ \A c \in DOMAIN s.blocks : b < c => s.blocks[b] <= c

\* No block that has an end reaches over an address.
Outside(s, a) ==
  \A b \in DOMAIN s.blocks : b < a /\ s.blocks[b] # NoAddr => s.blocks[b] <= a

\* A walk goes on where no block is.  What is between the start of the block it is in
\* and the instruction it looks at has been visited, and no block starts there.
TidyFrame(r) ==
  /\ Parted(r.slices)
  /\ \A a \in r.stack : a \in r.visited \/ Outside(r.slices, a)
  /\ r.at # NoAddr =>
       /\ r.block <= r.at
       /\ Outside(r.slices, r.block)
       /\ \A c \in DOMAIN r.slices.blocks : r.block < c => r.at < c
       /\ r.block..r.at - 1 \subseteq r.visited

\* The blocks of a jump table are started between two instructions.
EntriesWait(r) == r.entries # {} => r.at = NoAddr

TidyFunction(x) ==
  /\ Parted(x.slices)
  /\ x.end # NoAddr => \A b \in DOMAIN x.slices.blocks : x.slices.blocks[b] <= x.end

TidyTable(fs) == \A f \in DOMAIN fs : TidyFunction(fs[f])

Tidy ==
  /\ TidyFrame(frame) /\ EntriesWait(frame)
  /\ TidyTable(functions)
  /\ Parted(fin.slices)

\* t has the blocks of s, or has them cut into more.
Finer(t, s) ==
  Parted(s) => /\ Parted(t)
               /\ \A a \in Addresses : Outside(s, a) => Outside(t, a)

LEMMA SameBlocks ==
  ASSUME NEW s, NEW t, t.blocks = s.blocks
  PROVE  Finer(t, s)
BY DEF Finer, Parted, Outside

LEMMA FinerStill ==
  ASSUME NEW s, NEW t, NEW u, Finer(t, s), Finer(u, t)
  PROVE  Finer(u, s)
BY DEF Finer

\* What is kept of the blocks when something else of the slices changes
LEMMA OtherFields ==
  ASSUME NEW s, IsSlices(s), NEW a, NEW T, NEW several
  PROVE  /\ SetBranches(s, a, T, several).blocks = s.blocks
         /\ Refer(s, a).blocks = s.blocks
         /\ [s EXCEPT !.possible = T].blocks = s.blocks
         /\ Note(s, a).blocks = s.blocks
BY DEF IsSlices, NoSlices, SetBranches, Refer, Note

LEMMA BranchesFiner ==
  ASSUME NEW s, IsSlices(s), NEW a, NEW T, NEW several
  PROVE  Finer(SetBranches(s, a, T, several), s)
<1>1. SetBranches(s, a, T, several).blocks = s.blocks
  BY OtherFields
<1> QED
  BY <1>1, SameBlocks

LEMMA ReferFiner ==
  ASSUME NEW s, IsSlices(s), NEW a
  PROVE  Finer(Refer(s, a), s)
<1>1. Refer(s, a).blocks = s.blocks
  BY OtherFields
<1> QED
  BY <1>1, SameBlocks

LEMMA PossibleFiner ==
  ASSUME NEW s, IsSlices(s), NEW T
  PROVE  Finer([s EXCEPT !.possible = T], s)
<1>1. [s EXCEPT !.possible = T].blocks = s.blocks
  BY OtherFields
<1> QED
  BY <1>1, SameBlocks

LEMMA StartsOutside ==
  ASSUME NEW s, IsSlices(s), Parted(s), NEW a \in DOMAIN s.blocks
  PROVE  Outside(s, a)
BY DEF Parted, Outside

\* FunctionSlices::add_block_start leaves the blocks apart.
LEMMA AddBlockFiner ==
  ASSUME ProgramOK, NEW s, IsSlices(s), NEW a \in Addresses
  PROVE  /\ Finer(AddBlock(s, a), s)
         /\ a \in DOMAIN AddBlock(s, a).blocks
<1> DEFINE before == {b \in DOMAIN s.blocks : b < a}
           last == Max(before)
           t == AddBlock(s, a)
<1>0. /\ DOMAIN s.blocks \subseteq Int /\ a \in Int /\ a # NoAddr
      /\ \A b \in DOMAIN s.blocks : s.blocks[b] \in Int
      /\ DOMAIN s = DOMAIN NoSlices /\ Addresses \subseteq Int
  BY DEF IsSlices, Addresses, AddressOrNone, SectionEnd, ProgramOK, NoAddr
<1>1. CASE Sliced(s, a)
  <2>1. before # {} /\ before \subseteq Addresses /\ s.blocks[last] > a
    BY <1>1 DEF Sliced, IsSlices
  <2>2. last \in before /\ \A b \in before : b <= last
    BY <2>1, MaxAddress
  <2>3. /\ DOMAIN t.blocks = DOMAIN s.blocks \cup {a}
        /\ t.blocks[a] = s.blocks[last]
        /\ t.blocks[last] = a
        /\ \A b \in DOMAIN s.blocks : b # a /\ b # last => t.blocks[b] = s.blocks[b]
    <3>1. last # a /\ last \in DOMAIN s.blocks
      BY <1>0, <2>2
    <3>2. t = SetBlock(SetBlock(s, a, s.blocks[last]), last, a)
      BY <1>1 DEF AddBlock
    <3> HIDE DEF t, last
    <3>3. t.blocks = Insert(Insert(s.blocks, a, s.blocks[last]), last, a)
      BY <1>0, <3>2 DEF SetBlock, NoSlices
    <3> QED
      BY <3>1, <3>3 DEF Insert
  <2> HIDE DEF last, t
  <2>4. s.blocks[last] # NoAddr /\ last \in DOMAIN s.blocks /\ last < a /\ a \in Int
    BY <1>0, <2>1, <2>2 DEF NoAddr, Addresses
  <2>5. ASSUME Parted(s) PROVE Parted(t)
    <3>1. a \notin DOMAIN s.blocks
      BY <1>0, <2>1, <2>4, <2>5 DEF Parted
    <3> SUFFICES ASSUME NEW b \in DOMAIN t.blocks, t.blocks[b] # NoAddr
                 PROVE  /\ b < t.blocks[b]
                        /\ \A c \in DOMAIN t.blocks : b < c => t.blocks[b] <= c
      BY DEF Parted
    <3>2. CASE b = a
      <4>1. \A c \in DOMAIN s.blocks : last < c => s.blocks[last] <= c
        BY <2>4, <2>5 DEF Parted
      <4> QED
        BY <1>0, <2>1, <2>3, <2>4, <3>2, <4>1
    <3>3. CASE b = last
      <4>1. \A c \in DOMAIN s.blocks : last < c => s.blocks[last] <= c
        BY <2>4, <2>5 DEF Parted
      <4> QED
        BY <1>0, <2>1, <2>3, <2>4, <3>3, <4>1
    <3>4. CASE b # a /\ b # last
      <4>1. b \in DOMAIN s.blocks /\ t.blocks[b] = s.blocks[b]
        BY <2>3, <3>4
      <4>2. /\ b < s.blocks[b]
            /\ \A c \in DOMAIN s.blocks : b < c => s.blocks[b] <= c
        BY <2>5, <4>1 DEF Parted
      <4>3. b < a => s.blocks[b] <= a
        <5> SUFFICES ASSUME b < a PROVE s.blocks[b] <= a
          OBVIOUS
        <5>1. b < last
          BY <1>0, <2>2, <2>4, <3>4, <4>1
        <5> QED
          BY <1>0, <2>4, <4>1, <4>2, <5>1
      <4> QED
        BY <2>3, <4>1, <4>2, <4>3
    <3> QED
      BY <3>2, <3>3, <3>4
  <2>6. ASSUME NEW x \in Addresses, Outside(s, x) PROVE Outside(t, x)
    <3> SUFFICES ASSUME NEW b \in DOMAIN t.blocks, b < x, t.blocks[b] # NoAddr
                 PROVE  t.blocks[b] <= x
      BY DEF Outside
    <3>1. x \in Int
      BY <1>0
    <3>2. last < x => s.blocks[last] <= x
      BY <2>4, <2>6 DEF Outside
    <3> QED
      BY <1>0, <2>1, <2>3, <2>4, <2>6, <3>1, <3>2 DEF Outside
  <2> QED
    BY <2>3, <2>5, <2>6 DEF t, Finer
<1>2. CASE ~Sliced(s, a) /\ Fresh(s, a)
  <2>1. t = SetBlock(s, a, NoAddr) /\ a \notin DOMAIN s.blocks
    BY <1>2 DEF AddBlock, Fresh
  <2>2. /\ DOMAIN t.blocks = DOMAIN s.blocks \cup {a}
        /\ t.blocks[a] = NoAddr
        /\ \A b \in DOMAIN s.blocks : b # a => t.blocks[b] = s.blocks[b]
    <3> HIDE DEF t
    <3>1. t.blocks = Insert(s.blocks, a, NoAddr)
      BY <1>0, <2>1 DEF SetBlock, NoSlices
    <3> QED
      BY <3>1 DEF Insert
  <2> HIDE DEF t
  <2>3. ASSUME Parted(s) PROVE Parted(t)
    <3> SUFFICES ASSUME NEW b \in DOMAIN s.blocks, s.blocks[b] # NoAddr
                 PROVE  b < s.blocks[b] /\ \A c \in DOMAIN t.blocks : b < c => s.blocks[b] <= c
      BY <2>1, <2>2 DEF Parted
    <3>1. b < a => s.blocks[b] <= a
      <4> SUFFICES ASSUME b < a, s.blocks[b] > a PROVE FALSE
        BY <1>0
      <4>1. b \in before /\ before # {} /\ before \subseteq Addresses
        BY DEF IsSlices
      <4>2. last \in before /\ b <= last
        BY <4>1, MaxAddress
      <4>3. ~(s.blocks[last] > a)
        BY <1>2, <4>1 DEF Sliced
      <4>4. b # last
        BY <4>3
      <4>5. b < last
        <5> HIDE DEF last
        <5> QED
          BY <1>0, <4>2, <4>4
      <4>6. s.blocks[b] <= last
        <5> HIDE DEF last
        <5> QED
          BY <2>3, <4>2, <4>5 DEF Parted
      <4> HIDE DEF last
      <4> QED
        BY <1>0, <4>2, <4>6
    <3> QED
      BY <2>2, <2>3, <3>1 DEF Parted
  <2>4. ASSUME NEW x \in Addresses, Outside(s, x) PROVE Outside(t, x)
    BY <2>1, <2>2, <2>4 DEF Outside
  <2> QED
    BY <2>2, <2>3, <2>4 DEF t, Finer
<1>3. CASE ~Sliced(s, a) /\ ~Fresh(s, a)
  BY <1>3, SameBlocks DEF AddBlock, Fresh
<1> QED
  BY <1>1, <1>2, <1>3

\* The end of the block that a walk is in is set behind the instruction it looks at.
LEMMA EndedParted ==
  ASSUME ProgramOK, IsFrame(frame), frame.at \in Section, TidyFrame(frame)
  PROVE  /\ Parted(Ended)
         /\ \A a \in Addresses :
              Outside(frame.slices, a) /\ a \notin frame.block..frame.at => Outside(Ended, a)
<1> DEFINE s == frame.slices
           B == frame.block
           n == frame.at + 1
<1>1. /\ IsSlices(s) /\ B \in Section /\ B \in Int /\ n \in Int /\ frame.at \in Int
      /\ frame.at # NoAddr /\ n # NoAddr
      /\ DOMAIN s.blocks \subseteq Int /\ \A b \in DOMAIN s.blocks : s.blocks[b] \in Int
      /\ Addresses \subseteq Int
  BY DEF IsFrame, IsSlices, Section, NoAddr, Addresses, AddressOrNone, SectionEnd, ProgramOK
<1>2. Here.blocks = s.blocks /\ IsSlices(Here)
  BY <1>1, AtType, OtherFields DEF Here
<1>3. Ended.blocks = Insert(s.blocks, B, n)
  <2> QED
    BY <1>2 DEF Ended, SetBlock, Next1, IsSlices, NoSlices
<1>4. /\ DOMAIN Ended.blocks = DOMAIN s.blocks \cup {B}
      /\ Ended.blocks[B] = n
      /\ \A b \in DOMAIN s.blocks : b # B => Ended.blocks[b] = s.blocks[b]
  BY <1>3 DEF Insert
<1>5. /\ Parted(s) /\ B <= frame.at /\ Outside(s, B)
      /\ \A c \in DOMAIN s.blocks : B < c => frame.at < c
  BY <1>1 DEF TidyFrame
<1> HIDE DEF s, B, n
<1>6. Parted(Ended)
  <2> SUFFICES ASSUME NEW b \in DOMAIN Ended.blocks, Ended.blocks[b] # NoAddr
               PROVE  /\ b < Ended.blocks[b]
                      /\ \A c \in DOMAIN Ended.blocks : b < c => Ended.blocks[b] <= c
    BY DEF Parted
  <2>1. CASE b = B
    BY <1>1, <1>4, <1>5, <2>1 DEF n
  <2>2. CASE b # B
    <3>1. b \in DOMAIN s.blocks /\ Ended.blocks[b] = s.blocks[b]
      BY <1>4, <2>2
    <3>2. /\ b < s.blocks[b]
          /\ \A c \in DOMAIN s.blocks : b < c => s.blocks[b] <= c
      BY <1>5, <3>1 DEF Parted
    <3>3. b < B => s.blocks[b] <= B
      BY <1>5, <3>1 DEF Outside
    <3> QED
      BY <1>4, <3>1, <3>2, <3>3
  <2> QED
    BY <2>1, <2>2
<1>7. ASSUME NEW a \in Addresses, Outside(s, a), a \notin B..frame.at PROVE Outside(Ended, a)
  <2> SUFFICES ASSUME NEW b \in DOMAIN Ended.blocks, b < a, Ended.blocks[b] # NoAddr
               PROVE  Ended.blocks[b] <= a
    BY DEF Outside
  <2>1. CASE b = B
    BY <1>1, <1>4, <1>7, <2>1 DEF n
  <2>2. CASE b # B
    BY <1>4, <1>7, <2>2 DEF Outside
  <2> QED
    BY <2>1, <2>2
<1> QED
  BY <1>6, <1>7 DEF s, B

\* Ending a block keeps a walk tidy, whatever blocks start behind it.
LEMMA EndsTidy ==
  ASSUME ProgramOK, IsFrame(frame), frame.at \in Section, TidyFrame(frame),
         NEW s, Finer(s, Ended), NEW push, push \subseteq Addresses,
         \A a \in push : Outside(s, a),
         frame'.slices = s, frame'.stack \subseteq frame.stack \cup push,
         frame'.visited = frame.visited \cup {frame.at}
  PROVE  /\ Parted(s)
         /\ \A a \in frame'.stack : a \in frame'.visited \/ Outside(s, a)
         /\ frame'.at = NoAddr => TidyFrame(frame')
<1>1. /\ frame.at # NoAddr /\ frame.stack \subseteq Addresses
      /\ frame.block \in Int /\ frame.at \in Int
  BY DEF IsFrame, Section, NoAddr, ProgramOK
<1>2. /\ Parted(Ended)
      /\ \A a \in Addresses :
           Outside(frame.slices, a) /\ a \notin frame.block..frame.at => Outside(Ended, a)
  BY EndedParted
<1>3. Parted(s) /\ \A a \in Addresses : Outside(Ended, a) => Outside(s, a)
  BY <1>2 DEF Finer
<1>4. ASSUME NEW a \in frame'.stack, a \notin frame'.visited PROVE Outside(s, a)
  <2>1. CASE a \in push
    BY <2>1
  <2>2. CASE a \notin push
    <3>1. a \in frame.stack /\ a \in Addresses /\ a \notin frame.visited /\ a # frame.at
      BY <1>1, <1>4, <2>2
    <3>2. Outside(frame.slices, a)
      BY <3>1 DEF TidyFrame
    <3>3. a \notin frame.block..frame.at
      <4>1. a \notin frame.block..frame.at - 1
        BY <1>1, <3>1 DEF TidyFrame
      <4>2. a \in Int
        BY <3>1 DEF Addresses, SectionEnd, ProgramOK
      <4> QED
        BY <1>1, <3>1, <4>1, <4>2
    <3> QED
      BY <1>2, <1>3, <3>1, <3>2, <3>3
  <2> QED
    BY <2>1, <2>2
<1> QED
  BY <1>3, <1>4 DEF TidyFrame

\* ExecCbResult::EndBlock
LEMMA EndBlockTidy ==
  ASSUME ProgramOK, IsFrame(frame), frame.at \in Section, TidyFrame(frame),
         NEW s, Finer(s, Ended), NEW push, push \subseteq Addresses,
         \A a \in push : Outside(s, a),
         EndBlock(s, push)
  PROVE  TidyFrame(frame')
<1>1. frame' = [frame EXCEPT !.slices = s, !.visited = @ \cup {frame.at},
                             !.stack = @ \cup push, !.at = NoAddr, !.block = frame.block]
  BY DEF EndBlock, Proceed
<1>2. /\ frame'.slices = s /\ frame'.visited = frame.visited \cup {frame.at}
      /\ frame'.stack = frame.stack \cup push /\ frame'.at = NoAddr
  BY <1>1 DEF IsFrame, NoFrame
<1> QED
  BY <1>2, EndsTidy

\* Nothing of the blocks, the stack or the position changes.
LEMMA StopTidy ==
  ASSUME ProgramOK, IsFrame(frame), TidyFrame(frame), NEW stage, Stop(stage)
  PROVE  TidyFrame(frame')
<1>1. /\ frame'.slices = frame.slices /\ frame'.stack = frame.stack
      /\ frame'.visited = frame.visited /\ frame'.at = frame.at /\ frame'.block = frame.block
  BY DEF Stop, IsFrame, NoFrame
<1> QED
  BY <1>1 DEF TidyFrame

\* An instruction that only changes what is noted of the function
LEMMA HereTidy ==
  ASSUME ProgramOK, IsFrame(frame), frame.at \in Section, TidyFrame(frame),
         NEW stage, frame' = [frame EXCEPT !.slices = Here, !.stage = stage]
  PROVE  TidyFrame(frame')
<1>1. Here.blocks = frame.slices.blocks
  BY OtherFields DEF IsFrame, Here
<1>2. /\ frame'.slices = Here /\ frame'.stack = frame.stack
      /\ frame'.visited = frame.visited /\ frame'.at = frame.at /\ frame'.block = frame.block
  BY DEF IsFrame, NoFrame
<1> QED
  BY <1>1, <1>2 DEF TidyFrame, Parted, Outside

LEMMA PopTidy ==
  ASSUME ProgramOK, IsFrame(frame), TidyFrame(frame), Pop
  PROVE  TidyFrame(frame')
<1> DEFINE a == Max(frame.stack)
<1>1. CASE a \notin Section
  BY <1>1, StopTidy DEF Pop
<1>2. CASE a \in Section
  <2>1. a \in frame.stack
    BY MaxAddress DEF Pop, IsFrame
  <2>2. frame' = [frame EXCEPT !.stack = @ \ {a},
                               !.at = IF a \in frame.visited THEN NoAddr ELSE a,
                               !.block = IF a \in frame.visited THEN @ ELSE a]
    BY <1>2 DEF Pop
  <2> HIDE DEF a
  <2>3. /\ frame'.slices = frame.slices /\ frame'.visited = frame.visited
        /\ frame'.stack = frame.stack \ {a}
        /\ a \in frame.visited => frame'.at = NoAddr
        /\ a \notin frame.visited => frame'.at = a /\ frame'.block = a
    BY <2>2 DEF IsFrame, NoFrame
  <2>4. a \in Int
    BY <1>2 DEF Section
  <2>5. a \notin frame.visited => Outside(frame.slices, a)
    BY <2>1 DEF TidyFrame
  <2>6. a..a - 1 = {}
    BY <2>4
  <2>7. CASE a \in frame.visited
    BY <2>3, <2>7 DEF TidyFrame
  <2>8. CASE a \notin frame.visited
    BY <2>3, <2>4, <2>5, <2>6, <2>8 DEF TidyFrame
  <2> QED
    BY <2>7, <2>8
<1> QED
  BY <1>1, <1>2

\* Control goes on to the next instruction when no block starts there.
LEMMA NextTidy ==
  ASSUME ProgramOK, IsFrame(frame), frame.at \in Section, TidyFrame(frame),
         Next1 \notin DOMAIN Here.blocks, Proceed(Here, {}, Next1, frame.block)
  PROVE  TidyFrame(frame')
<1>1. Here.blocks = frame.slices.blocks
  BY OtherFields DEF IsFrame, Here
<1>2. /\ frame.at # NoAddr /\ frame.at \in Int /\ frame.block \in Int
      /\ DOMAIN frame.slices.blocks \subseteq Int
  BY DEF IsFrame, IsSlices, Section, NoAddr, Addresses, ProgramOK
<1>3. /\ frame'.slices = Here /\ frame'.stack = frame.stack
      /\ frame'.visited = frame.visited \cup {frame.at}
      /\ frame'.at = frame.at + 1 /\ frame'.block = frame.block
  BY DEF Proceed, IsFrame, NoFrame, Next1
<1>4. \A c \in DOMAIN Here.blocks : frame.block < c => frame.at + 1 < c
  <2> TAKE c \in DOMAIN Here.blocks
  <2>1. c # frame.at + 1 /\ c \in Int
    BY <1>1, <1>2 DEF Next1
  <2>2. frame.block < c => frame.at < c
    BY <1>1, <1>2 DEF TidyFrame
  <2> QED
    BY <1>2, <2>1, <2>2
<1>5. frame.block..(frame.at + 1) - 1 \subseteq frame.visited \cup {frame.at}
  <2>1. frame.block..frame.at - 1 \subseteq frame.visited
    BY <1>2 DEF TidyFrame
  <2> QED
    BY <1>2, <2>1
<1>6. Parted(Here) /\ Outside(Here, frame.block) /\ frame.block <= frame.at + 1
      /\ \A a \in frame.stack : a \in frame.visited \/ Outside(Here, a)
  BY <1>1, <1>2 DEF TidyFrame, Parted, Outside
<1> QED
  BY <1>3, <1>4, <1>5, <1>6 DEF TidyFrame

LEMMA PlainTidy ==
  ASSUME ProgramOK, IsFrame(frame), TidyFrame(frame), Plain
  PROVE  TidyFrame(frame')
<1>1. frame.at \in Section
  BY DEF Plain, At, Is
<1> DEFINE s == SetBranches(Ended, frame.at, {Next1}, FALSE)
<1>2. Finer(s, Ended)
  BY <1>1, AtType, BranchesFiner
<1>3. EndBlock(s, {}) \/ (Next1 \notin DOMAIN Here.blocks /\ Proceed(Here, {}, Next1, frame.block))
  BY DEF Plain, Ended
<1> HIDE DEF s
<1> QED
  BY <1>1, <1>2, <1>3, EndBlockTidy, NextTidy

LEMMA IllegalTidy ==
  ASSUME ProgramOK, IsFrame(frame), TidyFrame(frame), Illegal, Decoded
  PROVE  TidyFrame(frame')
<1>1. frame.at \in Section
  BY DEF Illegal, At, Is
<1>2. frame' = [frame EXCEPT !.slices = Here, !.stage = "false"]
  BY <1>1 DEF Illegal, At, Decoded
<1> QED
  BY <1>1, <1>2, HereTidy

LEMMA JumpAwayTidy ==
  ASSUME ProgramOK, IsFrame(frame), TidyFrame(frame), JumpAway
  PROVE  TidyFrame(frame')
<1>1. frame.at \in Section
  BY DEF JumpAway, At, Is
<1> DEFINE s == SetBranches(Ended, frame.at, {Next1}, FALSE)
           push == IF Fresh(s, Next1) THEN {Next1} ELSE {}
           t == AddBlock(s, Next1)
<1>2. Next1 \in Addresses /\ IsSlices(Ended) /\ IsSlices(s)
  BY <1>1, AtType, SetBranchesType
<1>3. Finer(s, Ended) /\ Finer(Ended, Ended)
  BY <1>2, BranchesFiner, SameBlocks
<1>4. EndBlock(t, push) \/ EndBlock(Ended, {})
  BY DEF JumpAway
<1>5. push \subseteq {Next1}
  OBVIOUS
<1> HIDE DEF s, push
<1>6. Finer(t, s) /\ Next1 \in DOMAIN t.blocks /\ IsSlices(t)
  BY <1>2, AddBlockFiner, AddBlockType
<1> HIDE DEF t
<1>7. Finer(t, Ended)
  BY <1>3, <1>6, FinerStill
<1>8. Parted(t)
  BY <1>1, <1>7, EndedParted DEF Finer
<1>9. \A a \in push : Outside(t, a)
  BY <1>5, <1>6, <1>8, StartsOutside
<1> QED
  BY <1>1, <1>2, <1>3, <1>4, <1>5, <1>7, <1>9, EndBlockTidy

LEMMA JumpTidy ==
  ASSUME ProgramOK, IsTable(functions), IsFrame(frame), TidyFrame(frame), Jump
  PROVE  TidyFrame(frame')
<1>1. frame.at \in Section
  BY DEF Jump, At, Is
<1> DEFINE to == code[frame.at].to
           s == SetBranches(Ended, frame.at, {to}, FALSE)
           known == KnownFunction(s, to)
<1>2. to \in Section
  BY <1>1 DEF Jump, ProgramOK, Words, Section, NoAddr
<1>3. to \in Addresses /\ to # NoAddr /\ to \in Int
  BY <1>2 DEF Section, Addresses, NoAddr, SectionEnd, ProgramOK
<1>4. IsSlices(s) /\ Finer(s, Ended)
  BY <1>1, <1>3, AtType, SetBranchesType, BranchesFiner
<1>5. \/ EndBlock(s, {})
      \/ Proceed(AddBlock(s, to), {}, to, to)
      \/ EndBlock(AddBlock(s, to), {})
      \/ Stop("error")
      \/ EndBlock(Refer(s, known), {})
      \/ EndBlock(Refer(s, to), {})
      \/ EndBlock([s EXCEPT !.possible = @ \cup {to}], {})
  BY DEF Jump
<1> HIDE DEF s, known, to
<1>6. /\ Finer(Refer(s, known), Ended) /\ Finer(Refer(s, to), Ended)
      /\ Finer([s EXCEPT !.possible = @ \cup {to}], Ended)
  BY <1>4, ReferFiner, PossibleFiner, FinerStill
<1> DEFINE t == AddBlock(s, to)
<1>7. Finer(t, Ended) /\ to \in DOMAIN t.blocks /\ IsSlices(t)
  BY <1>3, <1>4, AddBlockFiner, AddBlockType, FinerStill
<1> HIDE DEF t
<1>8. CASE Proceed(t, {}, to, to)
  <2>1. /\ frame'.slices = t /\ frame'.stack = frame.stack
        /\ frame'.visited = frame.visited \cup {frame.at}
        /\ frame'.at = to /\ frame'.block = to
    BY <1>8 DEF Proceed, IsFrame, NoFrame
  <2>2. /\ Parted(t)
        /\ \A a \in frame'.stack : a \in frame'.visited \/ Outside(t, a)
    <3> DEFINE push == {}
    <3>1. push \subseteq Addresses /\ \A a \in push : Outside(t, a)
      OBVIOUS
    <3>2. frame'.stack \subseteq frame.stack \cup push
      BY <2>1
    <3> HIDE DEF push
    <3> QED
      BY <1>1, <1>7, <2>1, <3>1, <3>2, EndsTidy
  <2>3. Outside(t, to)
    BY <1>7, <2>2, StartsOutside
  <2>4. to..to - 1 = {}
    BY <1>3
  <2>5. \A c \in DOMAIN t.blocks : to < c => to < c
    OBVIOUS
  <2> QED
    BY <1>3, <2>1, <2>2, <2>3, <2>4, <2>5 DEF TidyFrame
<1> QED
  BY <1>1, <1>4, <1>5, <1>6, <1>7, <1>8, EndBlockTidy, StopTidy DEF t

LEMMA JumpTableTidy ==
  ASSUME ProgramOK, IsFrame(frame), TidyFrame(frame), JumpTable
  PROVE  TidyFrame(frame')
<1>1. frame.at \in Section
  BY DEF JumpTable, At, Is
<1> DEFINE end == IF frame.end # NoAddr THEN frame.end ELSE End(Ended)
           entries == TableEntries(code[frame.at], frame.start, end)
           several == \E d, e \in entries : d # e
           s == SetBranches(Ended, frame.at, entries, several)
           t == [Ended EXCEPT !.possible = @ \cup entries]
<1>2. Finer(s, Ended) /\ Finer(t, Ended)
  BY <1>1, AtType, BranchesFiner, PossibleFiner
<1>3. \/ /\ frame' = [frame EXCEPT !.slices = s, !.visited = @ \cup {frame.at},
                                   !.at = NoAddr, !.entries = entries]
         /\ UNCHANGED <<given, driver>>
      \/ EndBlock(t, {})
  BY DEF JumpTable
<1> HIDE DEF s, t, entries
<1>4. CASE EndBlock(t, {})
  BY <1>1, <1>2, <1>4, EndBlockTidy
<1>5. CASE frame' = [frame EXCEPT !.slices = s, !.visited = @ \cup {frame.at},
                                  !.at = NoAddr, !.entries = entries]
  <2>1. /\ frame'.slices = s /\ frame'.stack = frame.stack
        /\ frame'.visited = frame.visited \cup {frame.at} /\ frame'.at = NoAddr
    BY <1>5 DEF IsFrame, NoFrame
  <2> DEFINE push == {}
  <2>2. push \subseteq Addresses /\ \A a \in push : Outside(s, a)
    OBVIOUS
  <2>3. frame'.stack \subseteq frame.stack \cup push
    BY <2>1
  <2> HIDE DEF push
  <2> QED
    BY <1>1, <1>2, <2>1, <2>2, <2>3, EndsTidy
<1> QED
  BY <1>3, <1>4, <1>5

\* A walk that is not in a block may start one.
LEMMA AddBlockTidy ==
  ASSUME ProgramOK, IsFrame(frame), TidyFrame(frame), NEW a \in Addresses,
         frame.at = NoAddr, frame'.slices = AddBlock(frame.slices, a),
         frame'.stack \subseteq frame.stack \cup {a},
         frame'.visited = frame.visited, frame'.at = frame.at
  PROVE  TidyFrame(frame')
<1> DEFINE s == frame.slices
           t == AddBlock(s, a)
<1>1. IsSlices(s) /\ Parted(s) /\ frame.stack \subseteq Addresses
  BY DEF IsFrame, TidyFrame
<1>2. IsSlices(t) /\ Finer(t, s) /\ a \in DOMAIN t.blocks
  BY <1>1, AddBlockFiner, AddBlockType
<1>3. Parted(t) /\ \A x \in Addresses : Outside(s, x) => Outside(t, x)
  BY <1>1, <1>2 DEF Finer
<1> HIDE DEF t
<1>4. Outside(t, a)
  BY <1>2, <1>3, StartsOutside
<1> QED
  BY <1>1, <1>3, <1>4 DEF TidyFrame, t

LEMMA TableEntryTidy ==
  ASSUME ProgramOK, IsFrame(frame), TidyFrame(frame), TableEntry, frame.at = NoAddr
  PROVE  TidyFrame(frame')
<1> DEFINE e == Min(frame.entries)
<1>1. frame.entries \subseteq Addresses /\ frame.entries # {}
  BY DEF TableEntry, IsFrame, Section, Addresses, SectionEnd, ProgramOK
<1>2. e \in Addresses
  BY <1>1, MinAddress
<1>3. frame' = [frame EXCEPT !.slices = AddBlock(frame.slices, e), !.entries = @ \ {e},
                             !.stack = IF Fresh(frame.slices, e) THEN @ \cup {e} ELSE @]
  BY DEF TableEntry
<1> HIDE DEF e
<1>4. /\ frame'.slices = AddBlock(frame.slices, e) /\ frame'.stack \subseteq frame.stack \cup {e}
      /\ frame'.visited = frame.visited /\ frame'.at = frame.at
  BY <1>3 DEF IsFrame, NoFrame
<1> QED
  BY <1>2, <1>4, AddBlockTidy

\* What the way on of a branch or a call does to the blocks
LEMMA OnwardFiner ==
  ASSUME ProgramOK, NEW s, IsSlices(s), NEW a \in Addresses
  PROVE  /\ Finer(Onward(s, a).slices, s)
         /\ Parted(s) => \A x \in Onward(s, a).push : Outside(Onward(s, a).slices, x)
<1> DEFINE known == KnownFunction(s, a)
           t == AddBlock(s, a)
<1>1. Finer(t, s) /\ a \in DOMAIN t.blocks /\ IsSlices(t)
  BY AddBlockFiner, AddBlockType
<1>2. Finer(Refer(s, known), s)
  BY OtherFields, SameBlocks
<1>3. Parted(s) => Outside(t, a)
  BY <1>1, StartsOutside DEF Finer
<1>4. CASE known \notin {NoAddr, frame.start}
  BY <1>2, <1>4 DEF Onward
<1>5. CASE known \in {NoAddr, frame.start}
  <2>1. /\ Onward(s, a).slices = t
        /\ Onward(s, a).push \subseteq {a}
    BY <1>5 DEF Onward
  <2> HIDE DEF t
  <2> QED
    BY <1>1, <1>3, <2>1
<1> QED
  BY <1>4, <1>5

LEMMA BranchTidy ==
  ASSUME ProgramOK, IsTable(functions), IsFrame(frame), TidyFrame(frame), Branch
  PROVE  TidyFrame(frame')
<1>1. frame.at \in Section
  BY DEF Branch, At, Is
<1> DEFINE to == code[frame.at].to
           next == Onward(Ended, Next1)
           taken == Onward(next.slices, to)
           call == Is(frame.at, {"bl", "bctrl"})
           s == IF to = NoAddr THEN next.slices
                ELSE IF call THEN Call(next.slices, to) ELSE taken.slices
           jump == to # NoAddr /\ ~call
           out == IF jump THEN next.out \cup taken.out ELSE next.out
           several == jump /\ next.out # {} /\ taken.out # {}
           push == IF jump THEN next.push \cup taken.push ELSE next.push
           t == IF out = {} THEN s ELSE SetBranches(s, frame.at, out, several)
<1>2. /\ IsSlices(next.slices) /\ next.push \subseteq Addresses
      /\ Finer(next.slices, Ended) /\ Parted(next.slices)
      /\ \A x \in next.push : Outside(next.slices, x)
  BY <1>1, AtType, OnwardType, OnwardFiner, EndedParted DEF Finer
<1> HIDE DEF next
<1>3. to # NoAddr => to \in Section
  BY <1>1 DEF ProgramOK, Words, Section, NoAddr
<1>4. to # NoAddr => to \in Addresses
  BY <1>3 DEF Section, Addresses, SectionEnd, ProgramOK
<1> HIDE DEF to
<1>5. to # NoAddr =>
        /\ IsSlices(taken.slices) /\ taken.push \subseteq Addresses
        /\ Finer(taken.slices, next.slices)
        /\ \A x \in taken.push : Outside(taken.slices, x)
        /\ IsSlices(Call(next.slices, to)) /\ Finer(Call(next.slices, to), next.slices)
  BY <1>2, <1>3, <1>4, OnwardType, OnwardFiner, CallType, OtherFields, SameBlocks DEF Call
<1> HIDE DEF taken
<1>6. Finer(next.slices, next.slices)
  BY SameBlocks
<1>7. IsSlices(s) /\ Finer(s, next.slices) /\ push \subseteq Addresses
  BY <1>2, <1>5, <1>6
<1>8. \A x \in push : Outside(s, x)
  BY <1>2, <1>5, <1>7 DEF Finer
<1> HIDE DEF s, out, several, push
<1>9. Finer(t, s) /\ \A x : Outside(s, x) => Outside(t, x)
  BY <1>7, OtherFields, SameBlocks DEF Outside
<1>10. EndBlock(t, push)
  BY DEF Branch, to, next, taken, s, out, several, push
<1> HIDE DEF t
<1>11. Finer(t, Ended)
  BY <1>2, <1>7, <1>9, FinerStill
<1> QED
  BY <1>1, <1>7, <1>8, <1>9, <1>10, <1>11, EndBlockTidy

\* A walk goes on behind the blocks it has.
LEMMA ResumeTidy ==
  ASSUME ProgramOK, IsFrame(frame), TidyFrame(frame), Idle,
         NEW s, s.blocks = frame.slices.blocks, NEW a, Outside(frame.slices, a), NEW stage,
         Resume(s, a, stage)
  PROVE  TidyFrame(frame')
<1>1. frame.at = NoAddr
  BY DEF Idle, Between
<1>2. /\ frame'.slices = s /\ frame'.stack = frame.stack \cup {a}
      /\ frame'.visited = frame.visited /\ frame'.at = frame.at
  BY DEF Resume, IsFrame, NoFrame
<1> QED
  BY <1>1, <1>2 DEF TidyFrame, Parted, Outside

LEMMA VisitGapTidy ==
  ASSUME ProgramOK, IsFrame(frame), TidyFrame(frame), VisitGap
  PROVE  TidyFrame(frame')
<1> DEFINE s == frame.slices
           b == GapAfter(s)
           D == DOMAIN s.blocks
           next(c) == Min({d \in D : d > c})
           gaps == {c \in D \ {LastBlock(s)} :
                      s.blocks[c] # NoAddr /\ s.blocks[next(c)] # NoAddr
                        /\ next(c) > s.blocks[c]}
           t == [s EXCEPT !.possible = @ \ {b}]
           a == s.blocks[b]
<1>1. /\ IsSlices(s) /\ Parted(s) /\ D \subseteq Addresses
      /\ Addresses \subseteq Int /\ \A c \in D : s.blocks[c] \in Int
  BY DEF IsFrame, TidyFrame, IsSlices, Addresses, AddressOrNone, SectionEnd, ProgramOK
<1>2. b # NoAddr /\ Resume(t, a, "gaps") /\ Idle
  BY DEF VisitGap
<1>3. D # {} /\ gaps # {} /\ b = Min(gaps)
  BY <1>2 DEF GapAfter
<1>4. gaps \subseteq Addresses
  BY <1>1
<1>5. b \in gaps
  BY <1>3, <1>4, MinAddress
<1>6. b \in D /\ b # LastBlock(s) /\ next(b) > a /\ a # NoAddr
  BY <1>5
<1>7. \A c \in D : c > b => next(b) <= c
  <2> TAKE c \in D
  <2> SUFFICES ASSUME c > b PROVE next(b) <= c
    OBVIOUS
  <2>1. {d \in D : d > b} \subseteq Addresses /\ c \in {d \in D : d > b}
    BY <1>1
  <2> QED
    BY <2>1, MinAddress
<1>8. b < LastBlock(s) /\ LastBlock(s) \in D
  <2>1. LastBlock(s) \in D /\ b <= LastBlock(s)
    BY <1>1, <1>3, <1>6, MaxAddress DEF LastBlock
  <2> HIDE DEF b, s, D
  <2>2. b \in Int /\ LastBlock(s) \in Int /\ b # LastBlock(s)
    BY <1>1, <1>6, <2>1
  <2> QED
    BY <2>1, <2>2
<1>9. next(b) \in D
  <2>1. {d \in D : d > b} \subseteq Addresses /\ LastBlock(s) \in {d \in D : d > b}
    BY <1>1, <1>8
  <2> QED
    BY <2>1, MinAddress
<1>10. t.blocks = s.blocks
  <2> HIDE DEF b
  <2> QED
    BY <1>1, OtherFields
<1>11. Outside(s, a)
  <2> SUFFICES ASSUME NEW c \in D, c < a, s.blocks[c] # NoAddr PROVE s.blocks[c] <= a
    BY DEF Outside
  <2> HIDE DEF s, b, D, next, t
  <2>1. c \in Int /\ b \in Int /\ a \in Int /\ next(b) \in Int /\ s.blocks[c] \in Int
    BY <1>1, <1>6, <1>9
  <2>2. ~(c > b)
    BY <1>6, <1>7, <2>1
  <2>3. c < b => s.blocks[c] <= b
    BY <1>1, <1>6 DEF Parted, D
  <2>4. b < a
    BY <1>1, <1>6 DEF Parted, D
  <2> QED
    BY <2>1, <2>2, <2>3, <2>4
<1> HIDE DEF t, b
<1> QED
  BY <1>2, <1>10, <1>11, ResumeTidy

\* The last of the blocks is the one that ends last.
LEMMA EndIsLast ==
  ASSUME ProgramOK, NEW s, IsSlices(s), Parted(s), End(s) # NoAddr
  PROVE  /\ LastBlock(s) \in DOMAIN s.blocks /\ End(s) = s.blocks[LastBlock(s)]
         /\ \A b \in DOMAIN s.blocks : b < End(s) /\ s.blocks[b] <= End(s)
<1> DEFINE D == DOMAIN s.blocks
           last == LastBlock(s)
<1>1. /\ D # {} /\ D \subseteq Addresses /\ End(s) = s.blocks[last]
      /\ \A b \in D : b \in Int /\ s.blocks[b] \in AddressOrNone /\ s.blocks[b] \in Int
  BY DEF End, IsSlices, Addresses, AddressOrNone, SectionEnd, ProgramOK
<1>2. last \in D /\ \A b \in D : b <= last
  BY <1>1, MaxAddress DEF LastBlock
<1>3. last < End(s) /\ End(s) \in Int /\ last \in Int
  BY <1>1, <1>2 DEF Parted
<1>4. ASSUME NEW b \in D PROVE b < End(s) /\ s.blocks[b] <= End(s)
  <2>1. b <= last /\ b \in Int /\ s.blocks[b] \in Int
    BY <1>1, <1>2
  <2>2. b < End(s)
    BY <1>3, <2>1
  <2>3. CASE s.blocks[b] = NoAddr
    BY <1>1, <1>3, <2>2, <2>3 DEF AddressOrNone, Addresses, NoAddr
  <2>4. CASE b = last
    BY <1>1, <2>2, <2>4
  <2>5. CASE s.blocks[b] # NoAddr /\ b # last
    <3>1. s.blocks[b] <= last
      BY <1>2, <1>3, <2>1, <2>5 DEF Parted
    <3> QED
      BY <1>3, <2>1, <2>2, <3>1
  <2> QED
    BY <2>3, <2>4, <2>5
<1> QED
  BY <1>1, <1>2, <1>4

LEMMA VisitTrailingTidy ==
  ASSUME ProgramOK, IsFrame(frame), TidyFrame(frame), VisitTrailing
  PROVE  TidyFrame(frame')
<1> DEFINE s == frame.slices
           behind == {a \in End(s)..frame.end - 1 : ~Is(a, {"nop"})}
           T == {frame.end} \cup behind
           x == Trailing(s, frame.end)
<1>1. IsSlices(s) /\ Parted(s) /\ End(s) \in AddressOrNone /\ End(s) # NoAddr
  BY BoundsType DEF IsFrame, TidyFrame, VisitTrailing, Trails
<1>2. frame.end \in AddressOrNone /\ frame.end # NoAddr /\ x < frame.end /\ Idle
      /\ Resume(s, x, "trailing")
  BY DEF IsFrame, VisitTrailing, Trails, GapsDone
<1>3. T \subseteq Addresses /\ T # {}
  BY <1>1, <1>2 DEF AddressOrNone, NoAddr, Addresses, SectionEnd, ProgramOK
<1>4. x \in T
  BY <1>3, MinAddress DEF Trailing
<1>5. x >= End(s) /\ x \in Int /\ End(s) \in Int
  BY <1>1, <1>2, <1>3, <1>4 DEF AddressOrNone, Addresses, SectionEnd, ProgramOK
<1>6. Outside(s, x)
  <2> SUFFICES ASSUME NEW b \in DOMAIN s.blocks PROVE s.blocks[b] <= x
    BY DEF Outside
  <2>1. s.blocks[b] <= End(s) /\ s.blocks[b] \in Int
    BY <1>1, EndIsLast DEF IsSlices, AddressOrNone
  <2> HIDE DEF s, x
  <2> QED
    BY <1>5, <2>1
<1> QED
  BY <1>2, <1>6, ResumeTidy

LEMMA WalkStepTidy ==
  ASSUME ProgramOK, IsTable(functions), IsFrame(frame), TidyFrame(frame), EntriesWait(frame),
         Decoded, Step \/ Analyze
  PROVE  TidyFrame(frame')
<1>1. CASE SecondFrame \/ Analyzed
  BY <1>1, StopTidy DEF SecondFrame, Analyzed
<1>2. CASE HitFunction
  BY <1>2, HereTidy DEF HitFunction, Fetched
<1>3. CASE Return
  <2>1. frame.at \in Section /\ EndBlock(Ended, {})
    BY <1>3 DEF Return, At, Is
  <2> QED
    BY <2>1, SameBlocks, EndBlockTidy
<1>4. CASE TableEntry
  BY <1>4, TableEntryTidy DEF TableEntry, EntriesWait
<1> QED
  BY <1>1, <1>2, <1>3, <1>4, PopTidy, PlainTidy, IllegalTidy, JumpAwayTidy,
     JumpTidy, JumpTableTidy, BranchTidy, VisitGapTidy, VisitTrailingTidy DEF Step, Analyze

LEMMA WalkStepWaits ==
  ASSUME ProgramOK, IsFrame(frame), EntriesWait(frame), Step \/ Analyze
  PROVE  EntriesWait(frame')
<1>1. frame.at \in Section => frame.entries = {}
  BY DEF EntriesWait, Section, NoAddr, ProgramOK
<1>2. ASSUME frame.at \in Section, NEW s, NEW push, NEW to, NEW block, Proceed(s, push, to, block)
      PROVE  EntriesWait(frame')
  <2>1. frame'.entries = frame.entries
    BY <1>2 DEF Proceed, IsFrame, NoFrame
  <2> QED
    BY <1>1, <1>2, <2>1 DEF EntriesWait
<1>3. ASSUME NEW stage, Stop(stage)
      PROVE  EntriesWait(frame')
  <2>1. frame'.entries = frame.entries /\ frame'.at = frame.at
    BY <1>3 DEF Stop, IsFrame, NoFrame
  <2> QED
    BY <2>1 DEF EntriesWait
<1>4. CASE Pop
  <2>1. frame.entries = {}
    BY <1>4 DEF Pop, Between
  <2>2. frame'.entries = frame.entries \/ \E stage : Stop(stage)
    BY <1>4 DEF Pop, IsFrame, NoFrame
  <2> QED
    BY <1>3, <2>1, <2>2 DEF EntriesWait
<1>5. CASE SecondFrame \/ Analyzed
  BY <1>3, <1>5 DEF SecondFrame, Analyzed
<1>6. CASE HitFunction \/ Illegal
  <2>1. frame.at \in Section
    BY <1>6 DEF HitFunction, Fetched, Illegal, At, Is
  <2>2. \/ \E s, push, to, block : Proceed(s, push, to, block)
        \/ frame' = [frame EXCEPT !.slices = Here, !.stage = "false"]
    BY <1>6 DEF HitFunction, Illegal
  <2>3. CASE frame' = [frame EXCEPT !.slices = Here, !.stage = "false"]
    <3>1. frame'.entries = frame.entries
      BY <2>3 DEF IsFrame, NoFrame
    <3> QED
      BY <1>1, <2>1, <3>1 DEF EntriesWait
  <2> QED
    BY <1>2, <2>1, <2>2, <2>3
<1>7. CASE Plain \/ Return \/ JumpAway \/ Jump \/ Branch
  <2>1. frame.at \in Section
    BY <1>7 DEF Plain, Return, JumpAway, Jump, Branch, At, Is
  <2>2. \/ \E s, push, to, block : Proceed(s, push, to, block)
        \/ Stop("error")
    <3>1. CASE Plain
      BY <3>1 DEF Plain, EndBlock
    <3>2. CASE Return
      BY <3>2 DEF Return, EndBlock
    <3>3. CASE JumpAway
      BY <3>3 DEF JumpAway, EndBlock
    <3>4. CASE Jump
      BY <3>4 DEF Jump, EndBlock
    <3>5. CASE Branch
      BY <3>5 DEF Branch, EndBlock
    <3> QED
      BY <1>7, <3>1, <3>2, <3>3, <3>4, <3>5
  <2> QED
    BY <1>2, <1>3, <2>1, <2>2
<1>8. CASE JumpTable
  <2>1. frame.at \in Section
    BY <1>8 DEF JumpTable, At, Is
  <2>2. \/ \E s, push, to, block : Proceed(s, push, to, block)
        \/ frame'.at = NoAddr
    BY <1>8 DEF JumpTable, EndBlock, IsFrame, NoFrame
  <2> QED
    BY <1>2, <2>1, <2>2 DEF EntriesWait
<1>9. CASE TableEntry
  <2>1. frame'.at = frame.at
    BY <1>9 DEF TableEntry, IsFrame, NoFrame
  <2>2. frame.at = NoAddr
    BY <1>9 DEF TableEntry, EntriesWait
  <2> QED
    BY <2>1, <2>2 DEF EntriesWait
<1>10. CASE VisitGap \/ VisitTrailing
  <2>1. frame.at = NoAddr
    BY <1>10 DEF VisitGap, VisitTrailing, GapsDone, Idle, Between
  <2>2. frame'.at = frame.at
    BY <1>10 DEF VisitGap, VisitTrailing, Resume, IsFrame, NoFrame
  <2> QED
    BY <2>1, <2>2 DEF EntriesWait
<1> QED
  BY <1>4, <1>5, <1>6, <1>7, <1>8, <1>9, <1>10 DEF Step, Analyze

\* A walk begins with no block or with those of the function that is finalized.
LEMMA WalkTidy ==
  ASSUME ProgramOK, NEW s, IsSlices(s), Parted(s), NEW a \in Addresses,
         NEW kind, NEW start, NEW end
  PROVE  LET r == Walk(kind, s, a, start, end) IN TidyFrame(r) /\ EntriesWait(r)
<1> DEFINE r == Walk(kind, s, a, start, end)
           t == AddBlock(s, a)
<1>1. /\ r.slices = t /\ r.stack = {a} /\ r.at = NoAddr /\ r.entries = {}
  BY DEF Walk, NoFrame
<1> HIDE DEF r, t
<1>2. Finer(t, s) /\ a \in DOMAIN t.blocks /\ IsSlices(t)
  BY AddBlockFiner, AddBlockType DEF t
<1>3. Parted(t)
  BY <1>2 DEF Finer
<1>4. Outside(t, a)
  BY <1>2, <1>3, StartsOutside
<1> QED
  BY <1>1, <1>3, <1>4 DEF TidyFrame, EntriesWait, r

LEMMA NothingParted ==
  /\ Parted(NoSlices) /\ Parted(NoFin.slices)
  /\ TidyFrame(NoFrame) /\ EntriesWait(NoFrame)
  /\ \A e : TidyFunction([NewFunction EXCEPT !.end = e])
  /\ TidyFunction(NewFunction)
BY DEF Parted, NoSlices, NoFin, TidyFrame, EntriesWait, NoFrame, TidyFunction, NewFunction

\* try_add_function keeps the blocks of the functions.
LEMMA WithFunctionsTidy ==
  ASSUME NEW fs, TidyTable(fs), NEW refs
  PROVE  TidyTable(WithFunctions(fs, refs))
BY NothingParted DEF WithFunctions, TidyTable

LEMMA InsertTidy ==
  ASSUME NEW fs, TidyTable(fs), NEW f, NEW x, TidyFunction(x)
  PROVE  TidyTable(Insert(fs, f, x))
BY DEF Insert, TidyTable

\* finalize may add one block behind the others.
LEMMA FinalizeTidy ==
  ASSUME ProgramOK, NEW s, IsSlices(s), Parted(s), FinalizeError(s) = "none", NEW known
  PROVE  LET done == Finalize(s, known)
         IN  Parted(done) /\ \A b \in DOMAIN done.blocks : done.blocks[b] <= End(done)
<1> DEFINE e == End(s)
           conditional == s.condBlr \/ EndsInReference(s)
           t == [s EXCEPT !.condBlr = conditional, !.finalized = TRUE]
           done == Finalize(s, known)
<1>1. e # NoAddr /\ e \in Int /\ e \in Addresses
  BY BoundsType DEF FinalizeError, NoAddr, AddressOrNone, Addresses, SectionEnd, ProgramOK
<1>2. \A b \in DOMAIN s.blocks : b < e /\ s.blocks[b] <= e
  BY <1>1, EndIsLast
<1>3. t.blocks = s.blocks /\ DOMAIN t = DOMAIN s
  BY DEF IsSlices, NoSlices
<1>4. \/ done = t
      \/ done = SetBlock(t, e, e + 1)
  BY DEF Finalize
<1>5. DOMAIN s = DOMAIN NoSlices /\ DOMAIN s.blocks \subseteq Addresses
      /\ \A b \in DOMAIN s.blocks : b \in Int /\ s.blocks[b] \in Int
  BY DEF IsSlices, Addresses, AddressOrNone, SectionEnd, ProgramOK
<1> HIDE DEF e, t, done
<1>6. CASE done = t
  <2>1. Parted(done)
    BY <1>3, <1>6 DEF Parted
  <2>2. End(done) = e
    BY <1>3, <1>6 DEF End, LastBlock, e
  <2> QED
    BY <1>2, <1>3, <1>6, <2>1, <2>2 DEF done
<1>7. CASE done = SetBlock(t, e, e + 1)
  <2>1. done.blocks = Insert(s.blocks, e, e + 1)
    BY <1>3, <1>5, <1>7 DEF SetBlock, NoSlices
  <2>2. /\ DOMAIN done.blocks = DOMAIN s.blocks \cup {e} /\ done.blocks[e] = e + 1
        /\ \A b \in DOMAIN s.blocks : b # e /\ done.blocks[b] = s.blocks[b]
    BY <1>1, <1>2, <2>1 DEF Insert
  <2>3. Parted(done)
    BY <1>1, <1>2, <1>5, <2>2 DEF Parted
  <2>4. LastBlock(done) = e
    <3>1. DOMAIN done.blocks \subseteq Addresses /\ DOMAIN done.blocks # {}
      BY <1>1, <1>5, <2>2
    <3>2. LastBlock(done) \in DOMAIN done.blocks /\ e <= LastBlock(done)
      BY <2>2, <3>1, MaxAddress DEF LastBlock
    <3> QED
      BY <1>1, <1>2, <1>5, <2>2, <3>2
  <2>5. End(done) = e + 1
    BY <2>2, <2>4 DEF End
  <2>6. \A b \in DOMAIN done.blocks : done.blocks[b] <= e + 1
    BY <1>1, <1>2, <1>5, <2>2
  <2> QED
    BY <2>3, <2>5, <2>6 DEF done
<1> QED
  BY <1>4, <1>6, <1>7

\* A function that is made of a walk
LEMMA ClosedTidy ==
  ASSUME ProgramOK, NEW s, IsSlices(s), Parted(s), FinalizeError(s) = "none", NEW known
  PROVE  LET done == Finalize(s, known)
         IN  TidyFunction([analyzed |-> TRUE, end |-> End(done), found |-> TRUE, slices |-> done])
BY FinalizeTidy DEF TidyFunction

LEMMA FunctionFoundTidy ==
  ASSUME FInv, Tidy, FunctionFound
  PROVE  Tidy'
<1> DEFINE s == frame.slices
           known == WithFunctions(functions, s.refs)
           done == Finalize(s, DOMAIN known)
           open == [analyzed |-> TRUE, end |-> NoAddr, found |-> TRUE, slices |-> s]
           closed == [analyzed |-> TRUE, end |-> End(done), found |-> TRUE, slices |-> done]
<1>1. ProgramOK /\ IsSlices(s) /\ Parted(s) /\ TidyTable(functions)
  BY DEF FInv, WalkOK, IsFrame, Tidy, TidyFrame
<1>2. TidyTable(known)
  BY <1>1, WithFunctionsTidy
<1>3. TidyFunction(open)
  BY <1>1 DEF TidyFunction
<1>4. FinalizeError(s) = "none" => TidyFunction(closed)
  <2> HIDE DEF s, known
  <2> QED BY <1>1, ClosedTidy
<1>5. /\ frame' = NoFrame /\ UNCHANGED fin
      /\ \/ UNCHANGED functions
         \/ functions' = Insert(known, frame.start, open)
         \/ FinalizeError(s) = "none" /\ functions' = Insert(known, frame.start, closed)
  BY DEF FunctionFound, Fail, finVars
<1> HIDE DEF s, known, open, closed, done
<1>6. TidyTable(functions')
  BY <1>1, <1>2, <1>3, <1>4, <1>5, InsertTidy
<1> QED
  BY <1>5, <1>6, NothingParted DEF Tidy

LEMMA NotFunctionTidy ==
  ASSUME FInv, Tidy, NotFunction
  PROVE  Tidy'
<1> DEFINE old == IF frame.start \in DOMAIN functions THEN functions[frame.start] ELSE NewFunction
           x == [old EXCEPT !.analyzed = TRUE, !.end = NoAddr]
<1>1. TidyFunction(old) /\ IsFunction(old)
  BY NothingParted, NewFunctionType DEF Tidy, TidyTable, FInv, TablesOK, IsTable
<1>2. TidyFunction(x)
  <2> HIDE DEF old
  <2>1. x.slices = old.slices /\ x.end = NoAddr
    BY <1>1 DEF IsFunction, NewFunction
  <2> QED
    BY <1>1, <2>1 DEF TidyFunction
<1>3. functions' = Insert(functions, frame.start, x) /\ frame' = NoFrame /\ UNCHANGED fin
  BY DEF NotFunction, finVars
<1> HIDE DEF x
<1>4. TidyTable(functions')
  BY <1>2, <1>3, InsertTidy DEF Tidy
<1> QED
  BY <1>3, <1>4, NothingParted DEF Tidy

LEMMA NextUnfinalizedTidy ==
  ASSUME FInv, Tidy, NextUnfinalized
  PROVE  Tidy'
<1> DEFINE f == Min(unfin)
<1>1. f \in DOMAIN functions
  <2>1. unfin \subseteq Addresses /\ unfin # {} /\ unfin \subseteq DOMAIN functions
    BY DEF FInv, TablesOK, NextUnfinalized, IsTable, Section, Addresses, SectionEnd, ProgramOK
  <2> QED BY <2>1, MinAddress DEF FInv
<1>2. fin'.slices = functions[f].slices /\ UNCHANGED <<functions, frame>>
  BY DEF NextUnfinalized
<1> QED
  BY <1>1, <1>2 DEF Tidy, TidyTable, TidyFunction

LEMMA SettleTidy ==
  ASSUME FInv, Tidy, NEW s, IsSlices(s), Parted(s), NEW b \in Section, NEW v, Settle(v, s, b),
         UNCHANGED functions
  PROVE  Tidy'
<1> DEFINE without == [s EXCEPT !.possible = @ \ {b}]
<1>1. ProgramOK /\ b \in Addresses /\ IsFin(fin)
  BY DEF FInv, WalkOK, Section, Addresses, SectionEnd, ProgramOK
<1>2. IsSlices(without) /\ without.blocks = s.blocks
  <2>1. s.possible \ {b} \subseteq Section
    BY DEF IsSlices
  <2> QED
    BY <1>1, <2>1, FieldsType, OtherFields
<1>3. /\ frame' \in {Walk("block", without, b, fin.start, fin.end), NoFrame}
      /\ \E t \in {without, Refer(without, b), s}, c \in {b, NoAddr} :
           fin' = [fin EXCEPT !.slices = t, !.block = c]
  BY DEF Settle
<1> HIDE DEF without
<1>4. Refer(without, b).blocks = s.blocks
  BY <1>2, OtherFields
<1>5. Parted(without) /\ Parted(Refer(without, b))
  BY <1>2, <1>4 DEF Parted
<1>6. TidyFrame(frame') /\ EntriesWait(frame')
  BY <1>1, <1>2, <1>3, <1>5, WalkTidy, NothingParted
<1>7. Parted(fin'.slices)
  <2>1. PICK t \in {without, Refer(without, b), s}, c \in {b, NoAddr} :
               fin' = [fin EXCEPT !.slices = t, !.block = c]
    BY <1>3
  <2>2. fin'.slices = t
    BY <1>1, <2>1 DEF IsFin, NoFin
  <2> QED
    BY <1>5, <2>1, <2>2
<1> QED
  BY <1>6, <1>7 DEF Tidy

LEMMA CheckTailCallTidy ==
  ASSUME FInv, Tidy, CheckTailCall
  PROVE  Tidy'
<1> DEFINE b == Min(Undecided)
           v == TailCall(fin.slices, b, fin.start, fin.end)
           s == [NoSlices EXCEPT !.refs = fin.slices.refs]
<1>1. /\ ProgramOK /\ IsFin(fin) /\ IsSlices(fin.slices) /\ Parted(fin.slices) /\ Undecided # {}
      /\ UNCHANGED functions
  BY DEF FInv, WalkOK, IsFin, Tidy, CheckTailCall
<1>2. b \in Section /\ b \in Addresses
  <2>1. Undecided \subseteq Section /\ Undecided \subseteq Addresses
    BY <1>1 DEF Undecided, IsSlices, Section, Addresses, SectionEnd, ProgramOK
  <2> QED BY <1>1, <2>1, MinAddress
<1>3. IsSlices(s) /\ Parted(s)
  <2>1. IsSlices(s)
    BY <1>1, NoSlicesType, FieldsType DEF IsSlices
  <2>2. s.blocks = NoSlices.blocks
    BY DEF NoSlices
  <2> QED
    BY <2>1, <2>2, NothingParted DEF Parted
<1>4. \/ /\ frame' = Walk("tail", s, b, fin.start, fin.end)
         /\ fin' = [fin EXCEPT !.block = b]
      \/ Settle(v, fin.slices, b)
  BY DEF CheckTailCall
<1> HIDE DEF b, v, s
<1>5. CASE Settle(v, fin.slices, b)
  BY <1>1, <1>2, <1>5, SettleTidy
<1>6. CASE /\ frame' = Walk("tail", s, b, fin.start, fin.end)
           /\ fin' = [fin EXCEPT !.block = b]
  <2>1. fin'.slices = fin.slices
    BY <1>1, <1>6 DEF IsFin, NoFin
  <2> QED
    BY <1>1, <1>2, <1>3, <1>6, <2>1, WalkTidy DEF Tidy
<1> QED
  BY <1>4, <1>5, <1>6

LEMMA ProbedTidy ==
  ASSUME FInv, Tidy, Probed
  PROVE  Tidy'
<1>1. /\ ProgramOK /\ IsSlices(fin.slices) /\ Parted(fin.slices) /\ fin.block \in Section
      /\ UNCHANGED functions
  BY DEF FInv, WalkOK, IsFin, PhaseOK, Probed, Tidy
<1>2. PICK v, joined : Settle(v, [fin.slices EXCEPT !.possible = @ \ joined], fin.block)
  BY DEF Probed
<1> DEFINE s == [fin.slices EXCEPT !.possible = @ \ joined]
<1>3. IsSlices(s) /\ s.blocks = fin.slices.blocks
  <2>1. fin.slices.possible \ joined \subseteq Section
    BY <1>1 DEF IsSlices
  <2> QED
    BY <1>1, <2>1, FieldsType, OtherFields
<1>4. Settle(v, s, fin.block)
  BY <1>2
<1> HIDE DEF s
<1>5. Parted(s)
  BY <1>1, <1>3 DEF Parted
<1> QED
  BY <1>1, <1>3, <1>4, <1>5, SettleTidy

LEMMA BlockWalkedTidy ==
  ASSUME FInv, Tidy, BlockWalked
  PROVE  Tidy'
<1>1. fin'.slices = frame.slices /\ frame' = NoFrame /\ UNCHANGED functions
  BY DEF FInv, WalkOK, IsFin, NoFin, BlockWalked
<1> QED
  BY <1>1, NothingParted DEF Tidy, TidyFrame

LEMMA FinishFunctionTidy ==
  ASSUME FInv, Tidy, FinishFunction
  PROVE  Tidy'
<1> DEFINE s == fin.slices
           done == Finalize(s, DOMAIN functions)
           known == WithFunctions(functions, done.refs)
           x == [analyzed |-> TRUE, end |-> End(done), found |-> TRUE, slices |-> done]
<1>1. ProgramOK /\ IsSlices(s) /\ Parted(s) /\ TidyTable(functions)
  BY DEF FInv, WalkOK, IsFin, Tidy
<1>2. TidyTable(known)
  BY <1>1, WithFunctionsTidy
<1>3. FinalizeError(s) = "none" => TidyFunction(x)
  <2> HIDE DEF s
  <2> QED BY <1>1, ClosedTidy
<1>4. \/ UNCHANGED <<functions, frame>> /\ fin' = NoFin
      \/ UNCHANGED <<functions, fin>> /\ frame' = NoFrame
      \/ /\ FinalizeError(s) = "none" /\ functions' = Insert(known, fin.function, x)
         /\ UNCHANGED frame /\ fin' = NoFin
  BY DEF FinishFunction, Fail, finVars
<1> HIDE DEF s, known, x, done
<1>5. TidyTable(functions')
  BY <1>1, <1>2, <1>3, <1>4, InsertTidy
<1> QED
  BY <1>4, <1>5, NothingParted DEF Tidy

LEMMA BeginTidy ==
  ASSUME FInv, Tidy, NEW a \in Section, Begin(a), UNCHANGED <<functions, fin>>
  PROVE  Tidy'
<1>1. ProgramOK /\ IsSlices(NoSlices) /\ a \in Addresses
  BY NoSlicesType DEF FInv, Section, Addresses, SectionEnd, ProgramOK
<1>2. TidyFrame(frame') /\ EntriesWait(frame')
  BY <1>1, WalkTidy, NothingParted DEF Begin
<1> QED
  BY <1>2 DEF Tidy

LEMMA ProcessTidy ==
  ASSUME FInv, Tidy, ProcessKnown \/ ProcessEntry \/ ProcessFunction
  PROVE  Tidy'
<1>1. /\ ProgramOK /\ IsTable(functions) /\ todo \subseteq Section
      /\ entry \in Section \cup {NoAddr} /\ Section \subseteq Addresses
      /\ UNCHANGED <<functions, fin>>
  BY DEF FInv, TablesOK, ProcessKnown, ProcessEntry, ProcessFunction, finVars,
         Section, Addresses, SectionEnd, ProgramOK
<1>2. CASE ProcessKnown
  <2>1. Min(todo) \in Section
    BY <1>1, <1>2, MinAddress DEF ProcessKnown
  <2> QED BY <1>1, <1>2, <2>1, BeginTidy DEF ProcessKnown
<1>3. CASE ProcessEntry
  BY <1>1, <1>3, BeginTidy DEF ProcessEntry
<1>4. CASE ProcessFunction
  <2>1. Min(Pending) \in Section
    <3>1. Pending \subseteq Section /\ Pending # {}
      BY <1>1, <1>4 DEF ProcessFunction, Pending, IsTable
    <3> QED BY <1>1, <3>1, MinAddress
  <2> QED BY <1>1, <1>4, <2>1, BeginTidy DEF ProcessFunction
<1> QED
  BY <1>2, <1>3, <1>4

LEMMA DetectNewTidy ==
  ASSUME Tidy, DetectNew
  PROVE  Tidy'
<1> DEFINE fs == [f \in DOMAIN functions \cup Unclaimed |->
                    IF f \in Unclaimed THEN NewFunction ELSE functions[f]]
<1>1. /\ UNCHANGED fin /\ frame' \in {frame, NoFrame}
      /\ functions' = fs \/ UNCHANGED functions
  BY DEF DetectNew, Fail, StartFinalize, finVars
<1>2. TidyTable(fs)
  BY NothingParted DEF Tidy, TidyTable
<1> HIDE DEF fs
<1> QED
  BY <1>1, <1>2, NothingParted DEF Tidy

LEMMA InitialTidy == FInit => Tidy
<1> SUFFICES ASSUME FInit PROVE Tidy
  OBVIOUS
<1>1. PICK p \in Programs :
        /\ functions = [f \in {1} \cup DOMAIN p.symbols |->
                          IF f \in DOMAIN p.symbols THEN [NewFunction EXCEPT !.end = p.symbols[f]]
                          ELSE NewFunction]
        /\ frame = NoFrame /\ fin = NoFin
  BY DEF FInit
<1>2. TidyTable(functions)
  BY <1>1, NothingParted DEF TidyTable
<1> QED
  BY <1>1, <1>2, NothingParted DEF Tidy

LEMMA StaysTidy ==
  ASSUME FInv, Tidy, Decoded, [FNext]_fvars
  PROVE  Tidy'
<1>1. CASE Step \/ Analyze
  <2>1. ProgramOK /\ IsTable(functions) /\ IsFrame(frame) /\ TidyFrame(frame) /\ EntriesWait(frame)
    BY DEF FInv, TablesOK, WalkOK, Tidy
  <2>2. UNCHANGED <<functions, fin>>
    BY <1>1, <2>1, StepType, AnalyzeType DEF Walks, driver
  <2>3. TidyFrame(frame') /\ EntriesWait(frame')
    BY <1>1, <2>1, WalkStepTidy, WalkStepWaits
  <2> QED BY <2>2, <2>3 DEF Tidy
<1>2. CASE AnalysisFails \/ FallOff
  BY <1>2, NothingParted DEF AnalysisFails, FallOff, Fail, finVars, Tidy
<1>3. CASE AllAnalyzed \/ Finalized
  BY <1>3 DEF AllAnalyzed, Finalized, StartFinalize, finVars, Tidy
<1>4. CASE Terminated \/ UNCHANGED fvars
  BY <1>4 DEF Terminated, fvars, Tidy
<1> QED
  BY <1>1, <1>2, <1>3, <1>4, FunctionFoundTidy, NotFunctionTidy, NextUnfinalizedTidy,
     CheckTailCallTidy, ProbedTidy, BlockWalkedTidy, FinishFunctionTidy, ProcessTidy,
     DetectNewTidy DEF FNext

\* The code is what it was.
LEMMA SameCode ==
  ASSUME FInv, [FNext]_fvars
  PROVE  UNCHANGED code
<1>1. CASE Step \/ Analyze
  BY <1>1, StepType, AnalyzeType DEF FInv, TablesOK, WalkOK, Walks, given
<1>2. CASE Terminated \/ UNCHANGED fvars
  BY <1>2 DEF Terminated, fvars
<1>3. CASE AnalysisFails \/ FallOff \/ FunctionFound \/ NotFunction
  BY <1>3 DEF AnalysisFails, FallOff, Fail, FunctionFound, NotFunction, given
<1>4. CASE NextUnfinalized \/ CheckTailCall \/ Probed \/ BlockWalked
  BY <1>4 DEF NextUnfinalized, CheckTailCall, Probed, BlockWalked, Fail, given
<1>5. CASE FinishFunction
  BY <1>5 DEF FinishFunction, Fail, given
<1>6. CASE ProcessKnown \/ ProcessEntry \/ ProcessFunction \/ AllAnalyzed \/ Finalized
  BY <1>6 DEF ProcessKnown, ProcessEntry, ProcessFunction, AllAnalyzed, StartFinalize, Finalized,
     given
<1>7. CASE DetectNew
  BY <1>7 DEF DetectNew, Fail, StartFinalize, given
<1> QED
  BY <1>1, <1>2, <1>3, <1>4, <1>5, <1>6, <1>7 DEF FNext

\* In a section every word of which decodes, no walk leaves blocks that overlap.
THEOREM BlocksTidy == FSpec => [](Decoded => Tidy)
<1>1. FInit => (Decoded => Tidy)
  BY InitialTidy
<1>2. FInv /\ (Decoded => Tidy) /\ [FNext]_fvars => (Decoded => Tidy)'
  <2> SUFFICES ASSUME FInv, Decoded => Tidy, [FNext]_fvars, Decoded' PROVE Tidy'
    OBVIOUS
  <2>1. Decoded
    BY SameCode DEF Decoded, Section, Is
  <2> QED BY <2>1, StaysTidy
<1> QED
  BY <1>1, <1>2, Invariance, PTL DEF FSpec

\* What a function ends with, its blocks end with.
LEMMA TidyDisjoint ==
  ASSUME FInv, Decoded => Tidy
  PROVE  BlocksDisjoint
<1> SUFFICES ASSUME Decoded, NEW f \in Found,
                    NEW b \in DOMAIN functions[f].slices.blocks,
                    functions[f].slices.blocks[b] # NoAddr
             PROVE  /\ functions[f].slices.blocks[b] \in b + 1..functions[f].end
                    /\ \A c \in DOMAIN functions[f].slices.blocks :
                         b < c => functions[f].slices.blocks[b] <= c
  BY DEF BlocksDisjoint
<1> DEFINE x == functions[f]
<1>1. IsFunction(x) /\ TidyFunction(x) /\ x.end # NoAddr
  BY DEF FInv, TablesOK, IsTable, Tidy, TidyTable, Found
<1>2. b \in Int /\ x.slices.blocks[b] \in Int /\ x.end \in Int
  BY <1>1 DEF IsFunction, IsSlices, AddressOrNone, Addresses, NoAddr
<1>3. b < x.slices.blocks[b] /\ x.slices.blocks[b] <= x.end
  BY <1>1 DEF TidyFunction, Parted
<1>4. \A c \in DOMAIN x.slices.blocks : b < c => x.slices.blocks[b] <= c
  BY <1>1 DEF TidyFunction, Parted
<1> QED BY <1>2, <1>3, <1>4

\* When detect_functions has succeeded, no word is claimed twice: not by two
\* functions, nor by two blocks of one.
THEOREM NoOverlap == FSpec => []NothingOverlaps
<1>1. FInv /\ (Decoded => Tidy) => BlocksDisjoint
  BY TidyDisjoint
<1>2. FunctionsDisjoint /\ BlocksDisjoint => NothingOverlaps
  BY DEF NothingOverlaps
<1> QED
  BY <1>1, <1>2, Invariance, BlocksTidy, Disjoint, PTL
=============================================================================
