-------------------------- MODULE FunctionAnalysis --------------------------
(***************************************************************************)
(* How the functions of an executable are found                            *)
(* (src/src/analysis/cfa.rs, AnalyzerState::detect_functions, with         *)
(* FunctionSlices::analyze of slices.rs on the Executor of executor.rs).   *)
(*                                                                         *)
(* Functions are walked from the addresses known so far, and what they     *)
(* refer to is walked in turn.  A jump that may leave its function is kept *)
(* as possible until more is known: it is a block of the function, or a    *)
(* tail call.  What is left between two functions is tried as one more.    *)
(*                                                                         *)
(* The walk of one function is `frame`; the function that is being         *)
(* finalized is `fin`, and its possible blocks are walked one at a time,   *)
(* to find out whether they are tail calls ("tail") or because they belong *)
(* to it ("block").                                                        *)
(***************************************************************************)
EXTENDS FunctionSlices

CONSTANT Programs      \* the sections of code it starts with, and what is known of them

\* A program's function symbols, and the end of one, are in the section, as is the
\* entry point if there is one.
IsProgram(p) ==
  LET addresses == 1..Len(p.code)
  IN  /\ p.code # <<>> /\ p.code \in Seq(Words(Len(p.code)))
      /\ DOMAIN p.symbols \subseteq addresses
      /\ \A f \in DOMAIN p.symbols : p.symbols[f] \in 0..Len(p.code) + 1
      /\ p.skip \subseteq addresses
      /\ p.entry \in addresses \cup {NoAddr}

ASSUME ProgramAssumption == \A p \in Programs : IsProgram(p)

VARIABLES
  skip,       \* skip_ranges: addresses where no function is made
  pc,         \* where detect_functions is
  todo,       \* the known functions that are still to be processed
  entry,      \* the entry point, if it is
  frame,      \* the walk under way
  fin,        \* the function that is being finalized
  unfin,      \* those that finalize_functions has still to look at
  final,      \* its argument
  finalized,  \* its result so far
  err         \* what the analysis failed of, or the program

walkVars == <<frame>>
finVars == <<fin, unfin, final, finalized>>
driver == <<functions, pc, todo, entry, fin, unfin, final, finalized, err>>
given == <<code, symbols, skip>>
fvars == <<code, symbols, skip, functions, pc, todo, entry, frame, fin, unfin, final,
           finalized, err>>

\* FunctionInfo, with slices only when `found`.
NewFunction == [analyzed |-> FALSE, end |-> NoAddr, found |-> FALSE, slices |-> NoSlices]

Unfinalized(f) == functions[f].analyzed /\ functions[f].end = NoAddr /\ functions[f].found

NoFrame ==
  [kind |-> "none", slices |-> NoSlices, start |-> NoAddr, end |-> NoAddr, stack |-> {},
   visited |-> {}, entries |-> {}, at |-> NoAddr, block |-> NoAddr, stage |-> "first"]

NoFin == [function |-> NoAddr, slices |-> NoSlices, start |-> NoAddr, end |-> NoAddr,
          block |-> NoAddr]

\* try_add_function
WithFunctions(fs, refs) ==
  [f \in DOMAIN fs \cup (refs \ skip) |-> IF f \in DOMAIN fs THEN fs[f] ELSE NewFunction]

FInit ==
  \E p \in Programs :
    /\ code = p.code /\ symbols = p.symbols /\ skip = p.skip
    /\ functions = [f \in {1} \cup DOMAIN p.symbols |->
                      IF f \in DOMAIN p.symbols THEN [NewFunction EXCEPT !.end = p.symbols[f]]
                      ELSE NewFunction]
    /\ todo = {1} \cup DOMAIN p.symbols /\ entry = p.entry
    /\ pc = "process" /\ err = "none"
    /\ frame = NoFrame /\ fin = NoFin /\ unfin = {}
    /\ final = FALSE /\ finalized = FALSE

-----------------------------------------------------------------------------
(* Executor::run over the words, with FunctionSlices::instruction_callback. *)

\* analyze(s, a): nothing is walked if a is already in a block.
Walk(kind, s, a, start, end) ==
  [NoFrame EXCEPT !.kind = kind, !.slices = AddBlock(s, a), !.start = start, !.end = end,
                  !.stack = {a}, !.stage = IF Fresh(s, a) THEN "first" ELSE "true"]

Stages == {"first", "gaps", "trailing"}
Walking == frame.kind # "none" /\ frame.stage \in Stages
Between == Walking /\ frame.at = NoAddr /\ frame.entries = {}
Idle == Between /\ frame.stack = {}

Stop(stage) == frame' = [frame EXCEPT !.stage = stage] /\ UNCHANGED <<given, driver>>

\* The highest address on the stack is next.
Pop ==
  /\ Between /\ frame.stack # {}
  /\ LET a == Max(frame.stack)
     IN  \/ /\ a \notin Section
            /\ Stop("error")
         \/ /\ a \in Section
            /\ frame' = [frame EXCEPT !.stack = @ \ {a},
                                      !.at = IF a \in frame.visited THEN NoAddr ELSE a,
                                      !.block = IF a \in frame.visited THEN @ ELSE a]
            /\ UNCHANGED <<given, driver>>

Fail(what) ==
  /\ pc' = "failed" /\ err' = what
  /\ frame' = NoFrame
  /\ UNCHANGED <<given, functions, todo, entry, finVars>>

\* An address is marked as visited before it is fetched, and there is no bit for one
\* behind the section: the program ends, whatever the walk is for.
FallOff ==
  /\ Walking /\ frame.at # NoAddr /\ ~Fetched(frame.at)
  /\ Fail("panic")

Here == Note(frame.slices, frame.at)
Next1 == frame.at + 1

SecondFrame ==
  /\ Walking /\ Fetched(frame.at)
  /\ SecondPrologue(frame.slices, frame.at) \/ SecondEpilogue(frame.slices, frame.at)
  /\ Stop("error")

InOther == KnownFunction(Here, frame.at) \notin {NoAddr, frame.start}

\* An instruction of one of the kinds is looked at.
At(ops) ==
  /\ Walking /\ Is(frame.at, ops)
  /\ ~SecondPrologue(frame.slices, frame.at) /\ ~SecondEpilogue(frame.slices, frame.at)
  /\ ~InOther

HitFunction ==
  /\ Walking /\ Fetched(frame.at)
  /\ ~SecondPrologue(frame.slices, frame.at) /\ ~SecondEpilogue(frame.slices, frame.at)
  /\ InOther
  /\ frame' = [frame EXCEPT !.slices = Here, !.stage = "false"]
  /\ UNCHANGED <<given, driver>>

\* Control goes on at an address; NoAddr ends the block.
Proceed(s, push, to, block) ==
  /\ frame' = [frame EXCEPT !.slices = s, !.visited = @ \cup {frame.at},
                            !.stack = @ \cup push, !.at = to, !.block = block]
  /\ UNCHANGED <<given, driver>>

EndBlock(s, push) == Proceed(s, push, NoAddr, frame.block)

\* (mutant) a walk goes on into blocks that are there already.
PlainOver ==
  /\ At(FrameOps \cup {"op", "nop"})
  /\ Proceed(Here, {}, Next1, frame.block)

Plain ==
  /\ At(FrameOps \cup {"op", "nop"})
  /\ IF Next1 \in frame.visited \/ Next1 \in DOMAIN Here.blocks
       THEN EndBlock(SetBranches(SetBlock(Here, frame.block, Next1), frame.at, {Next1}, FALSE), {})
       ELSE Proceed(Here, {}, Next1, frame.block)

\* An instruction that is none: padding, or one that is not decoded.
Illegal ==
  \/ At({"zero"}) /\ frame' = [frame EXCEPT !.slices = Here, !.stage = "false"]
                  /\ UNCHANGED <<given, driver>>
  \/ At({"bad"}) /\ Proceed(Here, {}, Next1, frame.block)

\* (mutant) the block ends behind the word that follows.
EndedLate == SetBlock(Here, frame.block, Next1 + 1)

\* The block ends behind the instruction.
Ended == SetBlock(Here, frame.block, Next1)

Return == At({"blr"}) /\ EndBlock(Ended, {})

\* A jump out of what is known: without an epilogue so far the code behind it
\* is taken for the cases of a switch.
JumpAway ==
  /\ At({"b", "bctr", "rfi"})
  /\ code[frame.at].to = NoAddr
  /\ IF Ended.prologue # NoAddr /\ Ended.epilogue = NoAddr
       THEN LET s == SetBranches(Ended, frame.at, {Next1}, FALSE)
            IN  EndBlock(AddBlock(s, Next1), IF Fresh(s, Next1) THEN {Next1} ELSE {})
       ELSE EndBlock(Ended, {})

Jump ==
  /\ At({"b"})
  /\ code[frame.at].to # NoAddr
  /\ LET to == code[frame.at].to
         s == SetBranches(Ended, frame.at, {to}, FALSE)
         known == KnownFunction(s, to)
     IN  IF to = frame.at THEN EndBlock(s, {})                       \* Infinite loop
         ELSE IF to >= frame.start /\ (to < frame.end \/ to < End(s) \/ to < frame.at)
         THEN IF Fresh(s, to) /\ to \notin frame.visited
                THEN Proceed(AddBlock(s, to), {}, to, to)
                ELSE EndBlock(AddBlock(s, to), {})
         ELSE IF known = frame.start THEN Stop("error")
         ELSE IF known # NoAddr THEN EndBlock(Refer(s, known), {})
         ELSE IF Zero(frame.at) THEN EndBlock(Refer(s, to), {})      \* zeroed padding
         ELSE EndBlock([s EXCEPT !.possible = @ \cup {to}], {})

\* uniq_jump_table_entries: a table of unknown size ends at the first entry that
\* leaves the function.
TableEntries(w, start, end) ==
  LET leaves == {i \in DOMAIN w.table : w.table[i] < start \/ (end # NoAddr /\ w.table[i] >= end)}
      n == IF w.sized \/ leaves = {} THEN Len(w.table) ELSE Min(leaves) - 1
  IN  {w.table[i] : i \in 1..n}

JumpTable ==
  /\ At({"table"})
  /\ LET s == Ended
         entries == TableEntries(code[frame.at], frame.start,
                                 IF frame.end # NoAddr THEN frame.end ELSE End(s))
         lastBlock == Max(DOMAIN s.blocks \cup {Next1})
     IN  IF /\ \E e \in entries : e > frame.start /\ e <= lastBlock
            /\ \A e \in entries : KnownFunction(s, e) \in {NoAddr, frame.start}
         THEN /\ frame' = [frame EXCEPT
                    !.slices = SetBranches(s, frame.at, entries, \E d, e \in entries : d # e),
                    !.visited = @ \cup {frame.at}, !.at = NoAddr, !.entries = entries]
              /\ UNCHANGED <<given, driver>>
         ELSE EndBlock([s EXCEPT !.possible = @ \cup entries], {})

\* The blocks a table jumps to, one after the other.
TableEntry ==
  /\ Walking /\ frame.entries # {}
  /\ LET e == Min(frame.entries)
     IN  frame' = [frame EXCEPT !.slices = AddBlock(@, e), !.entries = @ \ {e},
                                !.stack = IF Fresh(frame.slices, e) THEN @ \cup {e} ELSE @]
  /\ UNCHANGED <<given, driver>>

\* The way a conditional branch or a call goes on: into the function, unless
\* another one is known there.
Onward(s, a) ==
  LET known == KnownFunction(s, a)
  IN  IF known \notin {NoAddr, frame.start}
        THEN [slices |-> Refer(s, known), push |-> {}, out |-> {}]
        ELSE [slices |-> AddBlock(s, a), push |-> IF Fresh(s, a) THEN {a} ELSE {},
              out |-> {a}]

Call(s, a) ==
  LET known == KnownFunction(s, a)
  IN  Refer(s, IF known \notin {NoAddr, frame.start} THEN known ELSE CalledFunction(a))

Branch ==
  /\ At({"bc", "bl", "bctrl", "cblr"})
  /\ LET to == code[frame.at].to
         next == Onward(Ended, Next1)
         taken == Onward(next.slices, to)
         call == Is(frame.at, {"bl", "bctrl"})
         s == IF to = NoAddr THEN next.slices
              ELSE IF call THEN Call(next.slices, to) ELSE taken.slices
         jump == to # NoAddr /\ ~call
         out == IF jump THEN next.out \cup taken.out ELSE next.out
         several == jump /\ next.out # {} /\ taken.out # {}
     IN  EndBlock(IF out = {} THEN s ELSE SetBranches(s, frame.at, out, several),
                  IF jump THEN next.push \cup taken.push ELSE next.push)

Step ==
  \/ Pop \/ SecondFrame \/ HitFunction
  \/ Plain \/ Illegal \/ Return \/ JumpAway \/ Jump \/ JumpTable
  \/ TableEntry \/ Branch

-----------------------------------------------------------------------------
(* FunctionSlices::analyze, when a run is over. *)

Resume(s, a, stage) ==
  /\ frame' = [frame EXCEPT !.slices = s, !.stack = @ \cup {a}, !.stage = stage]
  /\ UNCHANGED <<given, driver>>

\* (mutant) the walk goes on a word too early, where it has been.
VisitGapAgain ==
  /\ Idle /\ frame.stage # "trailing"
  /\ LET b == GapAfter(frame.slices)
     IN  /\ b # NoAddr
         /\ Resume([frame.slices EXCEPT !.possible = @ \ {b}], frame.slices.blocks[b] - 1, "gaps")

\* What lies between two blocks is not reached by control flow.
VisitGap ==
  /\ Idle /\ frame.stage # "trailing"
  /\ LET b == GapAfter(frame.slices)
     IN  /\ b # NoAddr
         /\ Resume([frame.slices EXCEPT !.possible = @ \ {b}], frame.slices.blocks[b], "gaps")

GapsDone == Idle /\ (frame.stage = "trailing" \/ GapAfter(frame.slices) = NoAddr)

\* Nor is what lies behind the last block, up to the end that is known.
Trails ==
  /\ frame.end # NoAddr /\ End(frame.slices) # NoAddr
  /\ Trailing(frame.slices, frame.end) < frame.end

VisitTrailing ==
  /\ GapsDone /\ Trails
  /\ Resume(frame.slices, Trailing(frame.slices, frame.end), "trailing")

Analyzed ==
  /\ GapsDone /\ ~Trails
  /\ Stop(IF \E b \in DOMAIN frame.slices.blocks : frame.slices.blocks[b] = NoAddr
            THEN "error" ELSE "true")

Analyze == VisitGap \/ VisitTrailing \/ Analyzed

-----------------------------------------------------------------------------
(* process_function_at *)

AnalysisFails == frame.kind \in {"function", "block"} /\ frame.stage = "error" /\ Fail("analysis")

FunctionFound ==
  /\ frame.kind = "function" /\ frame.stage = "true"
  /\ LET s == frame.slices
         known == WithFunctions(functions, s.refs)
         done == Finalize(s, DOMAIN known)
     IN  IF s.possible # {}
         THEN /\ functions' = Insert(known, frame.start, [analyzed |-> TRUE, end |-> NoAddr,
                                                        found |-> TRUE, slices |-> s])
              /\ frame' = NoFrame
              /\ UNCHANGED <<given, pc, todo, entry, finVars, err>>
         ELSE IF FinalizeError(s) # "none" THEN Fail(FinalizeError(s))
         ELSE /\ functions' = Insert(known, frame.start, [analyzed |-> TRUE, end |-> End(done),
                                                        found |-> TRUE, slices |-> done])
              /\ frame' = NoFrame
              /\ UNCHANGED <<given, pc, todo, entry, finVars, err>>

NotFunction ==
  /\ frame.kind = "function" /\ frame.stage = "false"
  /\ LET old == IF frame.start \in DOMAIN functions THEN functions[frame.start] ELSE NewFunction
     IN  functions' = Insert(functions, frame.start, [old EXCEPT !.analyzed = TRUE, !.end = NoAddr])
  /\ frame' = NoFrame
  /\ UNCHANGED <<given, pc, todo, entry, finVars, err>>

-----------------------------------------------------------------------------
(* finalize_functions *)

\* finalize_functions(f) is called: it looks at what is unfinalized now.
StartFinalize(f) ==
  /\ pc' = "finalize" /\ final' = f /\ finalized' = FALSE
  /\ unfin' = {g \in DOMAIN functions : Unfinalized(g)}
  /\ UNCHANGED <<given, functions, todo, entry, frame, fin, err>>

Finalizing == pc = "finalize" /\ frame.kind = "none" /\ fin.function # NoAddr

NextUnfinalized ==
  /\ pc = "finalize" /\ fin = NoFin /\ unfin # {}
  /\ LET f == Min(unfin)
         s == functions[f].slices
     IN  /\ fin' = [function |-> f, slices |-> s, start |-> Start(s), end |-> End(s),
                    block |-> NoAddr]
         /\ unfin' = unfin \ {f}
  /\ UNCHANGED <<given, functions, pc, todo, entry, frame, final, finalized, err>>

\* (mutant) a tail call is taken out of the blocks but not referred to.
SettleUnreferred(v, s, b) ==
  LET without == [s EXCEPT !.possible = @ \ {b}]
  IN  \/ /\ v = "not" \/ (v = "possible" /\ final)
         /\ frame' = Walk("block", without, b, fin.start, fin.end)
         /\ fin' = [fin EXCEPT !.slices = without, !.block = IF v = "not" THEN NoAddr ELSE b]
      \/ /\ v = "is"
         /\ frame' = NoFrame
         /\ fin' = [fin EXCEPT !.slices = without, !.block = NoAddr]
      \/ /\ v = "possible" /\ ~final
         /\ frame' = NoFrame
         /\ fin' = [fin EXCEPT !.slices = s, !.block = b]

\* What is done of the verdict on a block: after "not" and "is" the possible
\* blocks are gone through again from the first.
Settle(v, s, b) ==
  LET without == [s EXCEPT !.possible = @ \ {b}]
  IN  \/ /\ v = "not" \/ (v = "possible" /\ final)
         /\ frame' = Walk("block", without, b, fin.start, fin.end)
         /\ fin' = [fin EXCEPT !.slices = without, !.block = IF v = "not" THEN NoAddr ELSE b]
      \/ /\ v = "is"
         /\ frame' = NoFrame
         /\ fin' = [fin EXCEPT !.slices = Refer(without, b), !.block = NoAddr]
      \/ /\ v = "possible" /\ ~final
         /\ frame' = NoFrame
         /\ fin' = [fin EXCEPT !.slices = s, !.block = b]

Undecided == {b \in fin.slices.possible : b > fin.block}

CheckTailCall ==
  /\ Finalizing /\ Undecided # {}
  /\ LET b == Min(Undecided)
         v == TailCall(fin.slices, b, fin.start, fin.end)
     IN  IF v = "probe"
         THEN /\ frame' = Walk("tail", [NoSlices EXCEPT !.refs = fin.slices.refs], b,
                               fin.start, fin.end)
              /\ fin' = [fin EXCEPT !.block = b]
         ELSE Settle(v, fin.slices, b)
  /\ UNCHANGED <<given, functions, pc, todo, entry, unfin, final, finalized, err>>

\* check_tail_call after its walk from the block.
Probed ==
  /\ frame.kind = "tail" /\ frame.stage \in {"true", "false", "error"}
  /\ LET s == frame.slices
         others == fin.slices.possible \cap (Start(s) + 1..End(s) - 1)
         v == IF frame.stage = "error" THEN "possible"
              ELSE IF frame.stage = "false" THEN "is"
              ELSE IF Start(s) < fin.block \/ others # {} THEN "not"
              ELSE IF s.prologue # NoAddr \/ s.r1Load THEN "is"
              ELSE "possible"
         joined == IF v = "not" /\ Start(s) >= fin.block THEN others ELSE {}
     IN  Settle(v, [fin.slices EXCEPT !.possible = @ \ joined], fin.block)
  /\ UNCHANGED <<given, functions, pc, todo, entry, unfin, final, finalized, err>>

\* Whether the walk of the block succeeded is not looked at.
BlockWalked ==
  /\ frame.kind = "block" /\ frame.stage \in {"true", "false"}
  /\ fin' = [fin EXCEPT !.slices = frame.slices]
  /\ frame' = NoFrame
  /\ UNCHANGED <<given, functions, pc, todo, entry, unfin, final, finalized, err>>

FinishFunction ==
  /\ Finalizing /\ Undecided = {}
  /\ LET s == fin.slices
         done == Finalize(s, DOMAIN functions)
     IN  IF s.possible # {}
         THEN /\ fin' = NoFin
              /\ UNCHANGED <<given, functions, pc, todo, entry, frame, unfin, final, finalized, err>>
         ELSE IF FinalizeError(s) # "none" THEN Fail(FinalizeError(s))
         ELSE /\ functions' = Insert(WithFunctions(functions, done.refs), fin.function,
                                   [analyzed |-> TRUE, end |-> End(done),
                                    found |-> TRUE, slices |-> done])
              /\ finalized' = TRUE
              /\ fin' = NoFin
              /\ UNCHANGED <<given, pc, todo, entry, frame, unfin, final, err>>

-----------------------------------------------------------------------------
(* detect_functions *)

Begin(a) ==
  frame' = Walk("function", NoSlices, a, a,
                IF a \in DOMAIN functions THEN functions[a].end ELSE NoAddr)

ProcessKnown ==
  /\ pc = "process" /\ frame.kind = "none" /\ todo # {}
  /\ Begin(Min(todo)) /\ todo' = todo \ {Min(todo)}
  /\ UNCHANGED <<given, functions, pc, entry, finVars, err>>

ProcessEntry ==
  /\ pc = "process" /\ frame.kind = "none" /\ todo = {} /\ entry # NoAddr
  /\ Begin(entry) /\ entry' = NoAddr
  /\ UNCHANGED <<given, functions, pc, todo, finVars, err>>

Pending == {f \in DOMAIN functions : ~functions[f].analyzed}

KnownProcessed == pc = "process" /\ frame.kind = "none" /\ todo = {} /\ entry = NoAddr

ProcessFunction ==
  /\ KnownProcessed /\ Pending # {}
  /\ Begin(Min(Pending))
  /\ UNCHANGED <<given, functions, pc, todo, entry, finVars, err>>

AllAnalyzed ==
  /\ KnownProcessed /\ Pending = {}
  /\ StartFinalize(FALSE)

\* finalize_functions returns.
Finalized ==
  /\ pc = "finalize" /\ fin = NoFin /\ unfin = {}
  /\ IF finalized THEN pc' = "process" /\ err' = err
     ELSE IF ~final THEN pc' = "detect" /\ err' = err
     ELSE IF \E f \in DOMAIN functions : Unfinalized(f)
     THEN pc' = "failed" /\ err' = "unfinalized"
     ELSE pc' = "done" /\ err' = err
  /\ UNCHANGED <<given, functions, todo, entry, frame, finVars>>

\* The functions of known end with their neighbours; the last is followed by the
\* end of the section.
NextStart(f) == Min({SectionEnd} \cup {g \in DOMAIN functions : g > f})
Overlapping ==
  \E f \in DOMAIN functions : functions[f].end > NextStart(f) /\ NextStart(f) # SectionEnd

\* skip_alignment: the first word between them that is not padding.
Unclaimed ==
  {a \in Section \ skip :
     \E f \in DOMAIN functions :
       /\ functions[f].end \in f..a /\ a < NextStart(f)
       /\ ~Zero(a)
       /\ \A b \in functions[f].end..a - 1 : Zero(b) \/ b \in skip}

\* (mutant) overlaps are not looked at.
DetectUnchecked ==
  /\ pc = "detect"
  /\ IF Unclaimed = {} THEN StartFinalize(TRUE)
     ELSE /\ functions' = [f \in DOMAIN functions \cup Unclaimed |->
                          IF f \in Unclaimed THEN NewFunction ELSE functions[f]]
          /\ pc' = "process"
          /\ UNCHANGED <<given, todo, entry, frame, finVars, err>>

DetectNew ==
  /\ pc = "detect"
  /\ IF Overlapping THEN Fail("overlap")
     ELSE IF Unclaimed = {} THEN StartFinalize(TRUE)
     ELSE /\ functions' = [f \in DOMAIN functions \cup Unclaimed |->
                          IF f \in Unclaimed THEN NewFunction ELSE functions[f]]
          /\ pc' = "process"
          /\ UNCHANGED <<given, todo, entry, frame, finVars, err>>

Terminated == pc \in {"done", "failed"} /\ UNCHANGED fvars

FNext ==
  \/ Step \/ FallOff \/ Analyze
  \/ AnalysisFails \/ FunctionFound \/ NotFunction
  \/ NextUnfinalized \/ CheckTailCall \/ Probed \/ BlockWalked \/ FinishFunction
  \/ ProcessKnown \/ ProcessEntry \/ ProcessFunction \/ AllAnalyzed \/ Finalized \/ DetectNew
  \/ Terminated

\* One thread runs it to the end.
FSpec == FInit /\ [][FNext]_fvars /\ WF_fvars(FNext)

-----------------------------------------------------------------------------
(* Properties *)

\* The analysis, its walks and its table of functions keep their types: no block
\* begins or ends behind the section.
FTypeOK ==
  /\ pc \in {"process", "finalize", "detect", "done", "failed"}
  /\ \A f \in DOMAIN functions :
       /\ f \in Section /\ functions[f].end \in {NoAddr} \cup Addresses
       /\ IsSlices(functions[f].slices)
  /\ IsSlices(frame.slices) /\ IsSlices(fin.slices)
  /\ frame.stack \subseteq Addresses /\ frame.entries \subseteq Section
  /\ todo \subseteq Section /\ unfin \subseteq DOMAIN functions

Found == {f \in DOMAIN functions : functions[f].end # NoAddr}
Body(f) == f..functions[f].end - 1

\* When functions have been found, none starts inside of another: what was
\* referred to while a function was still unfinalized, or tried between two, is
\* never a part of one (detect_new_functions compares neighbours only).
FunctionsDisjoint ==
  pc = "done" =>
    \A f \in Found : Body(f) \cap DOMAIN functions \subseteq {f}

\* Every word is an instruction or zero.
Decoded == \A a \in Section : ~Is(a, {"bad"})

\* The words of a function that were walked to a block's end.
Walked(f) ==
  LET blocks == functions[f].slices.blocks
  IN  UNION {b..blocks[b] - 1 : b \in DOMAIN blocks}

\* The blocks of a function that have an end are apart from the others, and none
\* leaves the function.
BlocksDisjoint ==
  pc = "done" /\ Decoded =>
    \A f \in Found :
      LET blocks == functions[f].slices.blocks
      IN  \A b \in {c \in DOMAIN blocks : blocks[c] # NoAddr} :
            /\ blocks[b] \in b + 1..functions[f].end
            /\ \A c \in DOMAIN blocks : b < c => blocks[b] <= c

\* No word is claimed twice: the functions are apart, and so are the blocks of each.
NothingOverlaps == FunctionsDisjoint /\ BlocksDisjoint

\* What the blocks of a function branch to is in a function, or where one was
\* looked for: no branch is lost when tail calls are taken out of the blocks.
ReferencesKept ==
  pc = "done" =>
    \A f \in Found : \A a \in Walked(f) :
      code[a].to # NoAddr =>
        code[a].to \in DOMAIN functions \cup skip \cup UNION {Body(g) : g \in Found}
                        \cup UNION {g..symbols[g] - 1 : g \in DOMAIN symbols}

\* detect_functions returns: the gaps and the trailing code of a function, the
\* tail calls that are tried again and the functions that are found on the way
\* come to an end, if only in an error.
FunctionsEnd == <>(pc \in {"done", "failed"})

=============================================================================
