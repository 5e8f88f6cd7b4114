---------------------------- MODULE MCObjectRuns ----------------------------
(***************************************************************************)
(* Small objects: an executable with code at 16..31, data at 48..63 and    *)
(* bss at 80..87, each of two units, and a module with four sections that  *)
(* start at 0.  Each program changes what one or two passes look at.       *)
(***************************************************************************)
EXTENDS ObjectRuns

MCLists == [n \in {".ctors", ".dtors"} |-> IF n = ".ctors" THEN <<"_ctors">> ELSE <<"_dtors">>]
MCLinkerLabels == {<<"_ctors">>, <<"_dtors">>, <<"_f_text">>, <<"_stack_addr">>, <<"_SDA_BASE_">>}
MCGiven == {<<"main">>}
MCSaveRestore == {<<"__save_gpr">>}
MCDotted == {<<"..data.0">>}

Sec(name, kind, start, end, known) ==
  [name |-> name, kind |-> kind, start |-> start, end |-> end, known |-> known]
Split(start, end) == [start |-> start, end |-> end]

Line(name, section, addr, kind, size) ==
  [name |-> <<name>>, in |-> section, addr |-> addr, kind |-> kind, size |-> size,
   align |-> None, scope |-> "global", data |-> "unknown", attrs |-> {}]

Step(op, at, value) ==
  [op |-> op, at |-> <<1, at>>, value |-> value, hi |-> Nowhere, lo |-> Nowhere, base |-> FALSE,
   data |-> "unknown", store |-> FALSE, target |-> Nowhere, link |-> FALSE, rel |-> "rel24",
   start |-> 16, limit |-> 24]

Pairs(value) == [Step("addi", 20, value) EXCEPT !.hi = <<1, 16>>, !.lo = <<1, 20>>]
Access(value, data, store) ==
  [Step("mem", 20, value) EXCEPT !.hi = <<1, 16>>, !.data = data, !.store = store]
Based(value, data, store) ==
  [Step("mem", 24, value) EXCEPT !.base = TRUE, !.data = data, !.store = store]
Call(target, rel) == [Step("branch", 28, 0) EXCEPT !.target = <<1, target>>, !.link = TRUE, !.rel = rel]
Jump(target) == [Step("branch", 28, 0) EXCEPT !.target = <<1, target>>]

Exe ==
  [exe |-> TRUE, id |-> 0,
   sections |-> <<Sec("text0", "code", 16, 32, FALSE), Sec("data0", "data", 48, 64, FALSE),
                  Sec("bss0", "bss", 80, 88, FALSE)>>,
   splits |-> <<{Split(16, 24), Split(24, 32)}, {Split(48, 56), Split(56, 64)}, {Split(80, 88)}>>,
   file |-> <<Line("main", "text0", 16, "function", 8)>>, blocks |-> <<>>, sleds |-> <<>>,
   found |-> (<<1, 16>> :> 24 @@ <<1, 24>> :> 32), tables |-> <<>>, headers |-> {},
   pointers |-> <<>>, zeros |-> {}, text |-> {}, matches |-> <<>>, added |-> <<>>,
   steps |-> <<Pairs(48)>>, words |-> <<>>, decoded |-> {}]

\* The lines of a symbols file.
Lines ==
  {<<>>, <<Line("main", "text0", 16, "function", 8)>>,
   <<Line("x", "data0", 48, "object", 0), Line("y", "data0", 60, "object", 4)>>,
   <<[Line("x", "data0", 48, "object", 8) EXCEPT !.attrs = {"noreloc"}]>>,
   <<[Line("x", "data0", 48, "object", 0) EXCEPT !.attrs = {"noreloc"}]>>,
   <<Line("x", "data0", 48, "label", 0), Line("z", "data0", 48, "object", 16)>>,
   <<Line("x", "data0", 48, "object", 8), [Line("z", "data0", 48, "label", 0) EXCEPT !.attrs = {"alias"}]>>,
   <<Line("x", "data0", 48, "object", 8), [Line("s", "data0", 48, "object", 8) EXCEPT !.attrs = {"stripped"}]>>,
   <<Line("x", "data0", 56, "object", 4), Line("x", "data0", 56, "label", 0)>>,
   <<[Line("x", "data0", 48, "object", 0) EXCEPT !.name = <<"lbl", 0, 0, 48>>]>>,
   <<[Line("x", "data0", 52, "object", 0) EXCEPT !.name = <<"..data.0">>]>>,
   <<[Line("p", "bss0", 80, "object", 0) EXCEPT !.name = <<"__imp_", "f">>]>>,
   <<Line("x", ".sdata", 48, "object", 4), Line("y", ".data", 56, "object", 4)>>,
   <<Line("x", ".sdata", 56, "object", 0), Line("_stack_addr", "ABS", 96, "label", 0)>>,
   <<Line("x", "odd", 48, "object", 4)>>}

\* What the code does.
Uses ==
  {<<>>, <<Pairs(48)>>, <<Pairs(52), Call(24, "rel24")>>, <<Jump(20)>>, <<Jump(24)>>,
   <<Access(48, "4byte", FALSE)>>, <<Access(60, "byte", TRUE)>>, <<Access(56, "2byte", FALSE)>>,
   <<Based(56, "float", FALSE)>>, <<Based(80, "4byte", TRUE), Based(84, "byte", FALSE)>>,
   <<Based(48, "double", TRUE), Pairs(52)>>,
   <<[Pairs(24) EXCEPT !.op = "ori"], Step("addi", 28, 48)>>,
   <<[Step("addi", 24, 56) EXCEPT !.base = TRUE]>>,
   <<[Access(80, "4byte", TRUE) EXCEPT !.lo = <<1, 24>>], Pairs(48)>>}

Words ==
  {<<>>, (<<2, 48>> :> 24), (<<2, 52>> :> 56), (<<2, 52>> :> 25),
   (<<2, 48>> :> 58 @@ <<2, 56>> :> 48)}

Executables ==
  {[Exe EXCEPT !.file = f, !.steps = s, !.words = w] : f \in Lines, s \in Uses, w \in Words}

Blocked(target, start, end) == [target |-> target, start |-> start, end |-> end]
Added(name, at, addend) ==
  [name |-> <<name>>, at |-> at, kind |-> "abs", addend |-> addend]

\* Ranges side by side, behind each other or with the same start.
Blocks ==
  {<<Blocked(FALSE, <<1, 16>>, 20)>>, <<Blocked(FALSE, <<2, 48>>, 49), Blocked(TRUE, <<1, 24>>, 25)>>,
   <<Blocked(FALSE, <<1, 12>>, 17), Blocked(TRUE, <<2, 48>>, 52)>>,
   <<Blocked(TRUE, <<2, 48>>, 49), Blocked(TRUE, <<2, 48>>, 60)>>,
   <<Blocked(FALSE, <<1, 16>>, 24), Blocked(FALSE, <<1, 24>>, 32)>>}

Additions ==
  {<<Added("main", <<2, 48>>, 0)>>, <<Added("far", <<2, 52>>, 0)>>,
   <<Added("main", <<2, 52>>, 4), Added("x", <<2, 52>>, 0)>>, <<Added("main", <<1, 20>>, 0)>>}

WithRelocs ==
  {[Exe EXCEPT !.blocks = b, !.words = w, !.steps = s] : b \in Blocks, w \in Words, s \in Uses}
  \cup {[Exe EXCEPT !.added = a, !.words = w, !.file = f] : a \in Additions, w \in Words, f \in Lines}

Sled(at) ==
  [at |-> at, name |-> <<"__save_gpr">>, label |-> "_savegpr_", first |-> 30, last |-> 32, step |-> 4]

\* A function of the runtime at 16, with what its code refers to.
Match(name, target, addend) ==
  [at |-> <<1, 16>>, by |-> <<"main">>,
   symbol |-> [name |-> <<name>>, size |-> 8, kind |-> "function", abs |-> FALSE, in |-> ".text"],
   relocs |-> <<[offset |-> 4, target |-> target, addend |-> addend, kind |-> "lo",
                 symbol |-> [name |-> IF target[1] = 0 THEN <<"_stack_addr">> ELSE <<"table">>,
                             size |-> 0, kind |-> "label", in |-> "", abs |-> target[1] = 0]]>>]

Code ==
  {[Exe EXCEPT !.sleds = <<Sled(<<1, 20>>)>>, !.file = f, !.found = (<<1, 16>> :> 20)] :
     f \in {<<>>, <<Line("a", "text0", 20, "function", 12), Line("b", "text0", 24, "function", 4)>>,
            <<Line("a", "text0", 24, "label", 0)>>}}
  \cup {[Exe EXCEPT !.matches = <<Match(n, t, a)>>, !.steps = s, !.words = w] :
          n \in {"main", "start"}, t \in {<<0, 96>>, <<2, 52>>}, a \in {0, 4}, w \in Words,
          s \in {<<>>, <<Pairs(48)>>, <<Pairs(96)>>, <<Based(56, "byte", FALSE)>>}}
  \cup {[Exe EXCEPT !.headers = {<<1, 24>>}, !.file = <<>>, !.found = (<<1, 16>> :> 24 @@ <<1, 24>> :> None),
                    !.steps = s] : s \in Uses}
  \cup {[Exe EXCEPT !.tables = t, !.file = f] :
          t \in {(<<2, 48>> :> 16), (<<2, 48>> :> 12 @@ <<2, 56>> :> 4), (<<2, 56>> :> 16)},
          f \in Lines}
  \cup {[Exe EXCEPT !.found = (<<1, 24>> :> 36)]}

\* Bytes: text, text behind zeros, zeros only, and characters of two bytes.
Bytes(section, lo, hi) == {section} \X (lo..hi - 1)

Data ==
  {[Exe EXCEPT !.text = Bytes(2, 48, 64), !.file = f, !.zeros = {}] : f \in Lines}
  \cup {[Exe EXCEPT !.text = Bytes(2, 48, 51), !.zeros = Bytes(2, 51, 64), !.file = f] : f \in Lines}
  \cup {[Exe EXCEPT !.text = {<<2, 49>>, <<2, 51>>}, !.file = f,
                    !.zeros = Bytes(2, 52, 64) \cup {<<2, 48>>, <<2, 50>>}] : f \in Lines}

\* Sections that dtk knows by name, and tables of exceptions.
Extab ==
  {[Exe EXCEPT !.sections = [@ EXCEPT ![2] = Sec("extab", "rodata", 48, 64, TRUE)],
               !.file = f, !.words = w,
               !.decoded = {[at |-> 48, size |-> 8, relocs |-> {52}]}] :
     w \in Words, f \in {<<Line("e", "extab", 48, "object", 8)>>, <<Line("e", "extab", 48, "object", 4)>>}}

\* A module, with lists of pointers in its second and third section.
Module ==
  [Exe EXCEPT
     !.exe = FALSE, !.id = 1,
     !.sections = <<Sec("sec1", "code", 0, 16, FALSE), Sec("sec2", "data", 0, 8, FALSE),
                    Sec("sec3", "data", 0, 8, FALSE), Sec("sec4", "data", 0, 16, FALSE),
                    Sec("sec5", "data", 0, 8, FALSE)>>,
     !.splits = <<{Split(0, 8), Split(8, 16)}, {Split(0, 8)}, {}, {Split(0, 8), Split(8, 16)}, {}>>,
     !.file = <<Line("main", "sec1", 0, "function", 8)>>,
     !.found = (<<1, 0>> :> 8 @@ <<1, 8>> :> 16), !.steps = <<>>,
     !.pointers = (<<2, 0>> :> <<1, 0>> @@ <<3, 0>> :> <<1, 8>>),
     !.zeros = Bytes(2, 4, 8) \cup Bytes(3, 4, 8)]

\* The relocations of a module are in its file, so what it does has addresses that they give.
Modules ==
  {[Module EXCEPT !.file = f, !.pointers = q, !.added = a] :
     f \in {<<>>, <<Line("main", "sec1", 0, "function", 8)>>, <<Line("x", "sec4", 0, "object", 0)>>,
            <<Line("c", "sec2", 0, "object", 8)>>, <<[Line("_ctors", "sec2", 0, "label", 0) EXCEPT !.in = "sec4"]>>,
            <<Line("_ctors", "sec2", 0, "label", 0), Line("_ctors", "sec3", 0, "label", 0)>>},
     q \in {Module.pointers, (<<2, 0>> :> <<1, 4>>), (<<2, 0>> :> <<1, 0>>),
            (<<2, 0>> :> <<1, 0>> @@ <<3, 0>> :> <<1, 8>> @@ <<3, 4>> :> <<1, 8>>)},
     a \in {<<>>, <<Added("main", <<4, 0>>, 0)>>, <<Added("x", <<4, 8>>, 0), Added("x", <<4, 12>>, 4)>>}}
  \cup {[Module EXCEPT !.sections = [@ EXCEPT ![2].name = n, ![2].known = TRUE]] :
          n \in {".ctors", ".data", ".rodata"}}
  \cup {[Module EXCEPT !.steps = <<[Call(8, r) EXCEPT !.at = <<1, 4>>]>>] : r \in {"rel24", "rel14"}}

\* Four bytes are accessed at once, less than four in front of the second unit's data;
\* or it is the symbols file that says so.
Straddling ==
  {[Exe EXCEPT !.steps = <<Access(at, "4byte", FALSE)>>, !.file = f] :
     at \in {52, 53, 54}, f \in {<<>>, <<Line("y", "data0", 60, "object", 4)>>}}
  \cup {[Exe EXCEPT !.file = <<[Line("x", "data0", 54, "object", 0) EXCEPT !.data = "float"]>>]}

MCPrograms == Executables \cup WithRelocs \cup Code \cup Data \cup Extab \cup Modules \cup Straddling
=============================================================================
