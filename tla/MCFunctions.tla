----------------------------- MODULE MCFunctions -----------------------------
(***************************************************************************)
(* Small sections of code for FunctionAnalysis: all those of three words,  *)
(* with and without symbols, and those of four that end with a return; of  *)
(* five words with jumps forward, which may be tail calls; and some of six *)
(* and seven words with stack frames and with jump tables.                 *)
(***************************************************************************)
EXTENDS FunctionAnalysis, TLC

Jump1(op, to) == [op |-> op, to |-> to, table |-> <<>>, sized |-> FALSE]
Plain1(op) == Jump1(op, NoAddr)
Table(entries, sized) == [op |-> "table", to |-> NoAddr, table |-> entries, sized |-> sized]
Plains(ops) == {Plain1(o) : o \in ops}
Jumps(ops, targets) == {Jump1(o, t) : o \in ops, t \in targets}

NoSymbols == [s \in {} |-> NoAddr]
Program(c, s, k, e) == [code |-> c, symbols |-> s, skip |-> k, entry |-> e]
Bare(codes) == {Program(c, NoSymbols, {}, NoAddr) : c \in codes}

\* Three words: what is decoded, what is not, and every branch.
Shorts == [1..3 -> Plains({"op", "blr", "zero"}) \cup Jumps({"b", "bc", "bl"}, 1..3)]
ShortOdd == [1..3 -> Plains({"op", "bad", "cblr", "rfi", "nop", "blr"}) \cup Jumps({"b", "bc"}, {1, 3})]

\* Control does not run off the end of the section.
Returning ==
  {w \o <<Plain1("blr")>> : w \in [1..3 -> Plains({"op", "blr"}) \cup Jumps({"b", "bc"}, {1, 3, 4})]}

\* Symbols for the first function, or one more, with and without a size; the entry
\* point is looked at again.
WithSymbols ==
  {Program(c, s, {}, e) : c \in [1..3 -> Plains({"op", "blr", "zero"}) \cup Jumps({"b", "bl"}, 2..3)],
     s \in {(1 :> 4), (1 :> 3), (2 :> 4), (1 :> 0) @@ (3 :> 4)}, e \in {NoAddr, 2}}

\* Jumps that leave the function, over functions and padding.
Tails ==
  [1..5 -> Plains({"op", "blr", "zero"}) \cup {Jump1("b", 4), Jump1("b", 5), Jump1("bl", 3)}]

\* Short thunks, and what they jump to, with padding in between.
Thunks ==
  {Program(c, NoSymbols, {}, NoAddr) :
     c \in {<<Jump1("b", t)>> \o w : t \in 3..5, w \in [1..4 -> Plains({"op", "blr", "zero"})]}}

Skipped ==
  {Program(c, NoSymbols, {3}, NoAddr) :
     c \in [1..4 -> Plains({"blr", "zero"}) \cup {Jump1("b", 3), Jump1("bl", 3), Jump1("bl", 4)}]}

\* A function with a stack frame and what may follow it.
Frames ==
  {<<Plain1("stwu"), Plain1("mflr"), a, Plain1("mtlr"), b, c, d>> :
     a \in Plains({"op", "bctr"}) \cup {Jump1("bl", 6), Jump1("bc", 5)},
     b \in Plains({"addi", "or", "op"}),
     c \in Plains({"blr", "stwu"}) \cup {Jump1("b", 7), Jump1("b", 1)},
     d \in Plains({"blr", "mflr", "op"})}
\* A jump or two in front of a function with a frame, or of one that loads r1.
Fronts ==
  {<<a, b, Plain1(c), Plain1("mflr"), Plain1("blr"), d>> :
     a \in {Jump1("b", 3), Jump1("b", 5), Jump1("bc", 3), Jump1("bl", 3)},
     b \in Plains({"blr", "op"}) \cup {Jump1("b", 3), Jump1("b", 5)},
     c \in {"stwu", "lwz", "op"},
     d \in Plains({"blr", "zero"})}
\* Jump tables into the function and out of it.
Tables ==
  {<<a, Table(t, s), Plain1(b), Plain1("blr"), Plain1("blr")>> :
     a \in {Plain1("op"), Jump1("bc", 4), Jump1("bl", 5)}, b \in {"op", "blr"},
     t \in {<<3, 4>>, <<4, 3>>, <<4>>, <<5, 4>>, <<4, 1>>}, s \in BOOLEAN}

MCPrograms ==
  Bare(Shorts) \cup Bare(ShortOdd) \cup Bare(Returning) \cup WithSymbols \cup Bare(Tails) \cup Skipped
    \cup Bare(Frames) \cup Bare(Fronts) \cup Bare(Tables)
=============================================================================
