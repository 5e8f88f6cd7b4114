--------------------------- MODULE FunctionSlices ---------------------------
(***************************************************************************)
(* What is known of one function while its blocks are found                *)
(* (src/src/analysis/slices.rs): the blocks walked so far, the jumps that  *)
(* may leave the function, the functions it refers to.                     *)
(*                                                                         *)
(* The section of code is a sequence of words, one per instruction, so     *)
(* addresses count instructions from 1.  Of an instruction only what the   *)
(* analysis asks is kept: whether and where it branches, and whether it is *)
(* one of those that set up or take down a stack frame.  Jumps to other    *)
(* sections and what the registers hold are left out: a jump through a     *)
(* register is "bctr" when its target is unknown and "table" when it goes  *)
(* through a jump table that was recognised.                               *)
(***************************************************************************)
EXTENDS Integers, Sequences, FiniteSetsExt

NoAddr == 0

Branches == {"b", "bc", "bl", "bctr", "bctrl", "table", "blr", "cblr"}
FrameOps == {"stwu", "stw", "mflr", "mtlr", "addi", "or", "lwz"}   \* these use r0 or r1
Ops == Branches \cup FrameOps \cup {"op", "nop", "rfi", "zero", "bad"}

\* An instruction: where a branch goes (NoAddr: out of every section), and the
\* entries of the jump table, of which there may be fewer if its size is a guess.
Words(size) ==
  [op : Ops, to : 0..size, table : Seq(1..size), sized : BOOLEAN]

VARIABLES
  code,        \* the words of the section
  symbols,     \* the function symbols of the object: their ends, NoAddr if unknown
  functions    \* AnalyzerState::functions

codeVars == <<code, symbols>>

Section == 1..Len(code)
SectionEnd == Len(code) + 1

Is(a, ops) == a \in Section /\ code[a].op \in ops
Zero(a) == Is(a, {"zero"})
\* An instruction can be fetched, from zeroed padding too.
Fetched(a) == a \in Section

-----------------------------------------------------------------------------
(* Prologues and epilogues: two instructions with nothing between them that *)
(* branches or uses r0 or r1.                                               *)

PrologueSequences == {<<"stwu", "mflr">>, <<"mflr", "stw">>, <<"mflr", "stwu">>}
EpilogueSequences == {<<"mtlr", "addi">>, <<"mtlr", "or">>, <<"or", "mtlr">>}

CheckSequence(a, sequences) ==
  \E s \in sequences :
    /\ Is(a, {s[1]})
    /\ \E b \in a + 1..Len(code) :
         /\ Is(b, {s[2]})
         /\ \A m \in a + 1..b - 1 : ~Is(m, Branches \cup FrameOps \cup {"nop"})

IsPrologue(a) == CheckSequence(a, PrologueSequences)
IsEpilogue(a) == CheckSequence(a, EpilogueSequences)

\* is_function_terminator
Terminates(a) == Is(a, {"blr", "b", "rfi", "addi", "lwz"})

-----------------------------------------------------------------------------
(* FunctionSlices *)

NoSlices ==
  [blocks |-> <<>>, branches |-> <<>>, refs |-> {}, possible |-> {},
   prologue |-> NoAddr, epilogue |-> NoAddr,
   condBlr |-> FALSE, rfi |-> FALSE, r1Load |-> FALSE, finalized |-> FALSE]

Addresses == 1..SectionEnd

AddressOrNone == 0..SectionEnd

\* A block's end is NoAddr while it is not known.  Of what an instruction branches
\* to the addresses are kept, and whether there is more than one (they may be
\* equal).
IsSlices(s) ==
  /\ DOMAIN s = DOMAIN NoSlices
  /\ DOMAIN s.blocks \subseteq Addresses
  /\ \A b \in DOMAIN s.blocks : s.blocks[b] \in AddressOrNone
  /\ DOMAIN s.branches \subseteq Section
  /\ \A b \in DOMAIN s.branches : s.branches[b].to \subseteq Addresses
  /\ s.refs \subseteq Section /\ s.possible \subseteq Section
  /\ {s.prologue, s.epilogue} \subseteq Section \cup {NoAddr}
  /\ {s.condBlr, s.rfi, s.r1Load, s.finalized} \subseteq BOOLEAN

\* start and end
Start(s) == IF DOMAIN s.blocks = {} THEN NoAddr ELSE Min(DOMAIN s.blocks)
LastBlock(s) == Max(DOMAIN s.blocks)
End(s) == IF DOMAIN s.blocks = {} THEN NoAddr ELSE s.blocks[LastBlock(s)]

Insert(map, a, value) == [b \in DOMAIN map \cup {a} |-> IF b = a THEN value ELSE map[b]]

SetBlock(s, b, e) == [s EXCEPT !.blocks = Insert(@, b, e)]
SetBranches(s, a, targets, several) ==
  [s EXCEPT !.branches = Insert(@, a, [to |-> targets, several |-> several])]

\* add_block_start slices the block that a is inside of.
Sliced(s, a) ==
  LET before == {b \in DOMAIN s.blocks : b < a}
  IN  before # {} /\ s.blocks[Max(before)] > a
Fresh(s, a) == ~Sliced(s, a) /\ a \notin DOMAIN s.blocks

AddBlock(s, a) ==
  LET last == Max({b \in DOMAIN s.blocks : b < a})
  IN  IF Sliced(s, a) THEN SetBlock(SetBlock(s, a, s.blocks[last]), last, a)
      ELSE IF Fresh(s, a) THEN SetBlock(s, a, NoAddr)
      ELSE s

\* is_known_function: the function that a is in, or that is referred to as a.
KnownFunction(s, a) ==
  LET before == {f \in DOMAIN functions : f <= a}
  IN  IF a \in s.refs THEN a
      ELSE IF before = {} THEN NoAddr
      ELSE LET f == Max(before) IN IF f = a \/ a < functions[f].end THEN f ELSE NoAddr

\* The function symbol that a call to a goes into, or a itself.
CalledFunction(a) ==
  LET before == {f \in DOMAIN symbols : f < a}
  IN  IF before # {} /\ symbols[Max(before)] > a THEN Max(before) ELSE a

Refer(s, f) == [s EXCEPT !.refs = @ \cup {f}]

-----------------------------------------------------------------------------
(* check_prologue, check_epilogue and what else is noted of every          *)
(* instruction that control flow reaches.                                  *)

SecondPrologue(s, a) ==
  /\ IsPrologue(a) /\ s.prologue # NoAddr
  /\ s.prologue > a \/ \E m \in s.prologue + 1..a - 1 : Terminates(m)

SecondEpilogue(s, a) == IsEpilogue(a) /\ s.epilogue \notin {NoAddr, a}

Note(s, a) ==
  [s EXCEPT !.r1Load = @ \/ Is(a, {"lwz"}),
            !.prologue = IF @ = NoAddr /\ IsPrologue(a) THEN a ELSE @,
            !.epilogue = IF @ = NoAddr /\ IsEpilogue(a) THEN a ELSE @,
            !.condBlr = @ \/ Is(a, {"cblr"}),
            !.rfi = @ \/ Is(a, {"rfi"}),
            !.possible = @ \ {a}]

-----------------------------------------------------------------------------
(* finalize *)

FinalizeError(s) ==
  IF s.finalized THEN "finalized twice"
  ELSE IF s.prologue = NoAddr /\ s.epilogue # NoAddr /\ ~s.r1Load THEN "unpaired epilogue"
  ELSE IF End(s) = NoAddr THEN "no end"
  ELSE "none"

\* The last instruction is a jump or a call to another function, over which
\* some branch goes to the block it ends.
EndsInReference(s) ==
  LET last == End(s) - 1
  IN  /\ Is(last, {"b", "bl"}) /\ code[last].to \in s.refs
      /\ \E a \in DOMAIN s.branches :
           s.branches[a].several /\ LastBlock(s) \in s.branches[a].to

\* An unreachable blr or nop behind the function is a part of it, unless it is
\* known to start a function.
Finalize(s, known) ==
  LET e == End(s)
      conditional == s.condBlr \/ EndsInReference(s)
      blr == conditional /\ ~Is(e - 1, {"blr"}) /\ Is(e, {"blr"}) /\ e \notin known
      nop == s.rfi /\ Is(e, {"nop"}) /\ e \notin known
      t == [s EXCEPT !.condBlr = conditional, !.finalized = TRUE]
  IN  IF blr \/ nop THEN SetBlock(t, e, e + 1) ELSE t

-----------------------------------------------------------------------------
(* check_tail_call, up to where the target itself is analysed: start and    *)
(* end are those of the function so far.                                    *)

TailCall(s, a, start, end) ==
  IF \/ a \in DOMAIN s.blocks
     \/ a \in start..end - 1
     \/ s.prologue # NoAddr
  THEN "not"
  ELSE IF a < start \/ Zero(a - 1) THEN "is"
  ELSE IF end = NoAddr THEN "possible"
  ELSE IF \/ (s.refs \cup DOMAIN functions) \cap (start + 1..a) # {}
          \/ \E m \in start..a - 1 : IsPrologue(m)
  THEN "is"
  ELSE "probe"

\* first_disconnected_block: the first block with a gap behind it, or NoAddr.
GapAfter(s) ==
  LET next(b) == Min({c \in DOMAIN s.blocks : c > b})
      gaps == {b \in DOMAIN s.blocks \ {LastBlock(s)} :
                 s.blocks[b] # NoAddr /\ s.blocks[next(b)] # NoAddr /\ next(b) > s.blocks[b]}
  IN  IF DOMAIN s.blocks = {} \/ gaps = {} THEN NoAddr ELSE Min(gaps)

\* Where a function of known end goes on behind its last block and nops.
Trailing(s, end) ==
  Min({end} \cup {a \in End(s)..end - 1 : ~Is(a, {"nop"})})
=============================================================================
