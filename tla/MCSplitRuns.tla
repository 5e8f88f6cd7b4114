---------------------------- MODULE MCSplitRuns -----------------------------
(***************************************************************************)
(* Four kinds of programs: tables of Entries entries in any order with no  *)
(* splits of the user's, tables of three with splits of two units, files   *)
(* with all that a line can say, of an executable and of a module, and     *)
(* maps of layouts whose common BSS has every kind of unit.                *)
(***************************************************************************)
EXTENDS SplitRuns

CONSTANT Entries

A == <<"user", 1, 0>>
B == <<"user", 2, 0>>
C == <<"user", 3, 0>>

Section(name, kind, addr, size) ==
  [name |-> name, kind |-> kind, addr |-> addr, size |-> size, align |-> 4, vaddr |-> None, elf |-> 0,
   regions |-> <<>>, splits |-> <<>>]

Executable ==
  [kind |-> "executable", units |-> <<>>, comments |-> <<>>,
   sections |-> <<Section("extabindex", "rodata", 10, 9), Section("extab", "rodata", 20, 9),
                  Section(".text", "code", 30, 9), Section(".ctors", "rodata", 40, 3),
                  Section(".dtors", "rodata", 50, 4)>>]

NoTables == [entries |-> <<>>, ctors |-> <<>>, dtors |-> <<>>, functions |-> <<>>, extabs |-> <<>>,
             names |-> <<>>, known |-> {}]

\* Functions of one word, the names of two of them the same in a unit's name.
Tables(funs, extabs, ctors, dtors) ==
  [entries |-> [i \in DOMAIN funs |-> [fun |-> 29 + funs[i], size |-> 1, extab |-> 19 + extabs[i]]],
   ctors |-> ctors, dtors |-> dtors,
   functions |-> [a \in 30..38 |-> 1], extabs |-> [a \in 20..28 |-> 1],
   names |-> [a \in 30..38 |-> (<<"f", "g", "g", "h", "i", "j", "k", "l", "l">>)[a - 29]],
   known |-> {36, 37, 38}]

WithoutMap == [command |-> "none", kept |-> FALSE]

Orders(n) == {p \in [1..n -> 1..n] : \A i, j \in 1..n : p[i] = p[j] => i = j}

SectionHeader(o) ==
  <<[line |-> "sections"]>> \o FlattenSeq([i \in DOMAIN o.sections |-> SectionLines(o, o.sections[i])])

Unsplit ==
  {[object |-> Executable, file |-> SectionHeader(Executable), tables |-> Tables(funs, extabs, w[1], w[2]), map |-> WithoutMap] :
     funs \in {[i \in 1..Entries |-> i], [i \in 1..Entries |-> Entries + 1 - i],
               [i \in 1..Entries |-> IF i <= 2 THEN 3 - i ELSE i]},
     extabs \in Orders(Entries),
     w \in {<< <<36, 30>>, <<37, 38, 31>> >>, << <<Minus1, 32, Zero, Zero>>, <<37, 35, 30>> >>}}

Lines(unit, splits) ==
  <<[line |-> "unit", name |-> unit, comment |-> None, order |-> None]>>
  \o [n \in DOMAIN splits |->
       [line |-> "split", name |-> splits[n][1], start |-> splits[n][2], end |-> splits[n][3],
        align |-> None, rename |-> NoName, common |-> FALSE, skip |-> FALSE, comment |-> FALSE]]

TextOf == {<<{}, {}>>, <<{<<".text", 30, 31>>}, {}>>, <<{<<".text", 30, 32>>}, {}>>,
           <<{<<".text", 30, 31>>}, {<<".text", 31, 32>>}>>,
           <<{<<".text", 30, 32>>}, {<<".text", 32, 33>>}>>}
TableOf == {<<{}, {}>>, <<{<<"extabindex", 10, 11>>}, {}>>, <<{<<"extab", 20, 21>>}, {}>>,
            <<{<<"extabindex", 10, 11>>, <<"extab", 20, 21>>}, {}>>,
            <<{}, {<<"extabindex", 12, 13>>}>>, <<{}, {<<"extab", 21, 23>>}>>}

InUnits ==
  {[object |-> Executable,
    file |-> SectionHeader(Executable) \o Lines(A, SetToSeq(t[1] \cup x[1])) \o Lines(B, SetToSeq(t[2] \cup x[2])),
    tables |-> Tables(funs, extabs, <<36, 31>>, <<37>>), map |-> WithoutMap] :
     funs \in Orders(3), extabs \in Orders(3), t \in TextOf, x \in TableOf}

\* A module whose sections have addresses, with all the attributes of a split.
ModuleObject ==
  [kind |-> "module", units |-> <<>>, comments |-> <<>>,
   sections |-> <<Section(".text", "code", 0, 8), Section("data1", "data", 0, 8)>>]

Line(name, lo, hi, align, rename, common, skip) ==
  [line |-> "split", name |-> name, start |-> lo, end |-> hi, align |-> align, rename |-> rename,
   common |-> common, skip |-> skip, comment |-> FALSE]

SectionOfLine(name, type, align, vaddr, end) ==
  [line |-> "section", name |-> name, type |-> type, align |-> align, vaddr |-> vaddr, end |-> end,
   unit |-> NoUnit]

UnitLine(u, comment, order) == [line |-> "unit", name |-> u, comment |-> comment, order |-> order]

ModuleFile(at, name, rename) ==
  <<[line |-> "sections"], SectionOfLine(".text", NoName, 16, at, None),
    SectionOfLine(name, "data", None, IF at = None THEN None ELSE at + 20, None),
    UnitLine(A, 8, 2), Line(".text", IF at = None THEN 0 ELSE at, IF at = None THEN 4 ELSE at + 4,
                            8, NoName, FALSE, TRUE),
    UnitLine(B, None, 1),
    Line(name, IF at = None THEN 4 ELSE at + 24, IF at = None THEN 8 ELSE at + 28,
         None, rename, TRUE, FALSE)>>

Modules ==
  {[object |-> ModuleObject, file |-> ModuleFile(at, name, rename), tables |-> NoTables, map |-> WithoutMap] :
     at \in {None, 100}, name \in {".data", "mine"}, rename \in {NoName, "other"}}

\* An executable with a logical sub-section, a renamed split and ranges of comments.
Comment(lo, hi) == [Line("exestr", lo, hi, None, NoName, FALSE, FALSE) EXCEPT !.comment = TRUE]

MainFile(order, region, name) ==
  SectionHeader(Executable) \o region
  \o <<SectionOfLine("exestr", "comment", None, 1, 3),
       UnitLine(A, None, order), Line(".text", 30, 32, 32, NoName, FALSE, FALSE), Comment(3, 5),
       UnitLine(B, 15, None), Line(name, 20, 22, None, NoName, FALSE, FALSE),
       Line(".ctors", 40, 41, None, ".ctors$10", FALSE, FALSE), Line(".dtors", 54, 54, None, NoName, FALSE, FALSE)>>

Mains ==
  {[object |-> Executable, file |-> MainFile(order, region, name), tables |-> NoTables, map |-> WithoutMap] :
     order \in {None, 0, 3}, name \in {"extab", "extab$r", ".data$x"},
     region \in {<<>>, <<SectionOfLine("extab$r", "rodata", None, 20, 22)>>,
                 <<SectionOfLine("extab$r", NoName, None, 20, 24), SectionOfLine("extab$s", "data", None, 24, 29)>>}}

\* A unit that has nothing but comments.
CommentsOnly ==
  {[object |-> Executable, tables |-> NoTables, map |-> WithoutMap,
    file |-> MainFile(None, <<>>, "extab") \o <<UnitLine(C, None, None), Comment(5, 7)>>]}

-----------------------------------------------------------------------------
\* A line of a section's layout.
MapSymbol(sym, unit, addr, size) ==
  [line |-> "symbol", sym |-> sym, unit |-> unit, addr |-> addr, size |-> size, align |-> 4, unused |-> FALSE]

\* Code of four units, one of them assembly and one with a space in its name.
Assembler == <<"asm", 1, 0>>
Spaced == <<"spaced", 4, 0>>

TextLines ==
  <<[line |-> "layout", section |-> ".text"], [line |-> "header"],
    MapSymbol(".text", A, 30, 2), MapSymbol("f1", A, 30, 2), MapSymbol("f2", Assembler, 32, 1),
    MapSymbol("*fill*", Assembler, 33, 1), MapSymbol("f3", Spaced, 33, 3),
    [MapSymbol("f4", Spaced, 0, 2) EXCEPT !.unused = TRUE], [line |-> "blank"],
    MapSymbol("label", B, 36, 0), MapSymbol("f1", B, 36, 3)>>

LinkLines ==
  <<[line |-> "link map"], [line |-> "entry", sym |-> "f1", unit |-> A, kind |-> "func", vis |-> "global"],
    [line |-> "entry", sym |-> ">>>", unit |-> B, kind |-> "func", vis |-> "local"],
    [line |-> "ignored"], [line |-> "generated", sym |-> "made"]>>

\* Units of .bss: each symbol is used or not, and has a size.
Unit == {<<<<TRUE, 2>>>>, <<<<TRUE, 1>>, <<TRUE, 2>>>>, <<<<FALSE, 1>>, <<TRUE, 2>>>>,
         <<<<TRUE, 2>>, <<FALSE, 1>>, <<TRUE, 1>>>>, <<<<FALSE, 2>>, <<FALSE, 1>>, <<TRUE, 1>>>>}
Common == 62
Names == <<<<"a1", "a2", "a3">>, <<"b1", "b2", "b3">>, <<"c1", "c2", "c3">>>>

Taken(unit, n) == FoldLeft(LAMBDA sum, x : sum + IF x[1] THEN x[2] ELSE 0, 0, SubSeq(unit, 1, n))

\* The first symbol of a unit is printed with the size of all, if the linker is old.
UnitOfBss(u, unit, at, names, old) ==
  [i \in DOMAIN unit |->
    [MapSymbol(names[i], u, at + Taken(unit, i - 1),
            IF old /\ i = 1 THEN SumOf([k \in DOMAIN unit |-> unit[k][2]]) ELSE unit[i][2])
       EXCEPT !.unused = ~unit[i][1]]]

BssLines(units, old) ==
  LET start(n) == Common + SumOf([k \in 1..n - 1 |-> Taken(units[k], Len(units[k]))])
  IN  <<[line |-> "layout", section |-> ".bss"], MapSymbol(".bss", A, 60, 1), MapSymbol("n1", A, 60, 1),
        MapSymbol("n2", B, 61, 1)>>
      \o FlattenSeq([n \in DOMAIN units |->
            UnitOfBss((<<A, B, C>>)[n], units[n], start(n), Names[n], old)])

\* The sizes in the objects.
Real(units) ==
  LET places == {p \in (1..3) \X (1..3) : p[1] \in DOMAIN units /\ p[2] \in DOMAIN units[p[1]]}
      name(p) == Names[p[1]][p[2]]
  IN  [x \in {name(p) : p \in places} |-> units[(CHOOSE p \in places : name(p) = x)[1]]
                                              [(CHOOSE p \in places : name(p) = x)[2]][2]]

MemoryLines ==
  <<[line |-> "memory map"], [line |-> "memory", section |-> ".text", addr |-> 30, size |-> 9],
    [line |-> "memory", section |-> ".bss", addr |-> 60, size |-> 20],
    [line |-> "memory", section |-> ".debug", addr |-> None, size |-> 4], [line |-> "other"],
    [line |-> "linker symbols"], [line |-> "linker symbol", sym |-> "made", addr |-> 30],
    [line |-> "linker symbol", sym |-> "end", addr |-> 39], [line |-> "linker symbol", sym |-> "zero", addr |-> 0]>>

Mapped ==
  [kind |-> "executable", units |-> <<>>, comments |-> <<>>,
   sections |-> <<Section(".text", "code", 30, 9), Section(".sbss", "bss", 60, 20)>>]

MapOf(lines, command, common, version, kept, real) ==
  [command |-> command, lines |-> lines, common |-> common, version |-> version, kept |-> kept, real |-> real,
   functions |-> {30, 32, 33}, imports |-> {"imported"}]

Program(object, map) == [object |-> object, file |-> <<>>, tables |-> NoTables, map |-> map]

\* The first unit of common BSS begins with a symbol that is used.
Layouts == {us \in Unit \X Unit \X Unit : us[1][1][1]}

Maps ==
  {Program(Mapped, MapOf(front \o TextLines \o BssLines(us, v = 8) \o MemoryLines, "split", common, v, kept, Real(us))) :
     us \in Layouts, front \in {<<>>, LinkLines}, v \in {None, 8, 11}, common \in {None, Common},
     kept \in BOOLEAN}

\* Maps without a memory map, for map config, and of which nothing comes.
MapsAlone ==
  LET us == <<<<<<TRUE, 2>>>>, <<<<TRUE, 2>>>>, <<<<TRUE, 2>>>>>>
      text == TextLines \o BssLines(us, FALSE)
      config(lines) == Program([Mapped EXCEPT !.sections[2].name = ".bss"],
                               MapOf(lines, "config", None, None, FALSE, Real(us)))
  IN  {Program(Mapped, MapOf(text, "split", Common, None, FALSE, Real(us))),
       Program(Mapped, MapOf(<<[line |-> "entry"]>> \o text, "split", Common, None, FALSE, Real(us))),
       Program(Mapped, MapOf(<<[line |-> "link map"], LinkLines[3]>>, "split", Common, None, FALSE, Real(us))),
       Program(Mapped, MapOf(text \o <<[line |-> "entry"]>>, "split", Common, None, FALSE, Real(us))),
       config(text \o MemoryLines), config(text)}

\* A module whose sections the map knows only by the symbols in them.
MapOfModule ==
  LET at(n, sym, unit, size) == MapSymbol(sym, unit, n, size)
      object == [ModuleObject EXCEPT !.sections[1].elf = 1, !.sections[2].elf = 4]
  IN  {Program(object, MapOf(<<[line |-> "layout", section |-> ".text"], at(0, "f1", A, 4), at(4, "f2", B, 4),
                               [line |-> "layout", section |-> data], at(0, "@1", A, 4), at(4, "@1", B, 4),
                               [line |-> "layout", section |-> ".dead"], at(0, "gone", C, 4)>>,
                             "split", None, None, FALSE, <<>>)) : data \in {".rodata", ".data"}}

PeSymbol(sym, seg, addr, unit) == [line |-> "pe symbol", sym |-> sym, seg |-> seg, addr |-> addr, unit |-> unit]

MapOfPe ==
  {Program(Mapped, MapOf(
     <<[line |-> "preamble"], [line |-> "pe sections"], [line |-> "pe section", seg |-> 1, code |-> TRUE],
       [line |-> "pe section", seg |-> 1, code |-> FALSE], [line |-> "pe symbols"],
       PeSymbol("f1", 1, 30, A), PeSymbol("imported", 1, 32, B), PeSymbol("f1", 1, 32, B),
       PeSymbol("fn_1", 1, 32, B), PeSymbol("f2", 2, 33, C), PeSymbol("absolute", 0, 33, A),
       PeSymbol("linker", 1, 33, <<"generated", 0, 0>>), PeSymbol("f3", 1, 33, C), PeSymbol("f4", 1, 33, C),
       [line |-> "pe static"], PeSymbol("inner", 1, 30, A)>>,
     "split", None, None, kept, <<>>)) : kept \in BOOLEAN}

MCPrograms == CommentsOnly \cup Unsplit \cup InUnits \cup Modules \cup Mains \cup Maps \cup MapsAlone \cup MapOfModule \cup MapOfPe
=============================================================================
