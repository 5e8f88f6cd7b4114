------------------------------- MODULE Loops --------------------------------
(***************************************************************************)
(* Induction over the turns of a loop.  The modules write a loop of the    *)
(* program as a fold, over a sequence or over a set in some order.  What   *)
(* its turns preserve holds of what it makes, and this module says so once *)
(* for all loops: its constants are operators, for which a module of       *)
(* proofs puts the body of one loop and its invariant                      *)
(* (INSTANCE Loops WITH ...).  It then cites the theorems of the instance. *)
(***************************************************************************)
EXTENDS SequencesExt, FiniteSetTheorems, Extrema

CONSTANTS
  Turn(_, _, _),   \* Turn(c, a, x): what the turn of x makes of a, where c is what the turns share
  Less(_, _, _),   \* Less(c, x, y): the turn of x comes before that of y
  Holds(_, _, _)   \* Holds(c, T, a): the invariant, when the turns of T are over and a is made

OverSequence(c, base, s) == FoldLeft(LAMBDA a, x : Turn(c, a, x), base, s)

InOrder(c, base, S) ==
  MapThenFoldSet(LAMBDA x, a : Turn(c, a, x), base, LAMBDA x : x,
                 LAMBDA T : CHOOSE x \in T : \A y \in T \ {x} : Less(c, y, x), S)

\* The loop over a part of S, where item is what a turn gets and last picks whose turn it was.
Unrolled(c, base, S, item, last, g) ==
  [T \in SUBSET S |-> IF T = {} THEN base ELSE Turn(c, g[T \ {last[T]}], item[last[T]])]

Picks(S, last) == \A T \in SUBSET S : T # {} => last[T] \in T

\* Two turns are in one order or the other.
Ordered(c, S) ==
  /\ \A x, y \in S : x # y => Less(c, x, y) \/ Less(c, y, x)
  /\ \A x, y, z \in S : Less(c, x, y) /\ Less(c, y, z) => Less(c, x, z)

----------------------------------------------------------------------------

LEMMA FewerItems ==
  ASSUME NEW S, IsFiniteSet(S), NEW T \in SUBSET S, NEW x \in T
  PROVE  /\ Cardinality(T) \in Nat /\ Cardinality(T) <= Cardinality(S)
         /\ T \ {x} \in SUBSET S /\ Cardinality(T \ {x}) = Cardinality(T) - 1
         /\ Cardinality(T \ {x}) \in Nat
<1>1. IsFiniteSet(T) /\ Cardinality(T) <= Cardinality(S) /\ Cardinality(T) \in Nat
  BY FS_Subset, FS_CardinalityType
<1>2. IsFiniteSet(T \ {x}) /\ Cardinality(T \ {x}) = Cardinality(T) - 1
  BY <1>1, FS_RemoveElement
<1> QED
  BY <1>1, <1>2, FS_CardinalityType

\* A loop over a finite set makes something: its recursion ends.
LEMMA LoopDefined ==
  ASSUME NEW c, NEW base, NEW S, NEW item, NEW last, IsFiniteSet(S), Picks(S, last)
  PROVE  \E g : g = Unrolled(c, base, S, item, last, g)
<1> DEFINE Value(g, T) ==
             IF T = {} THEN base ELSE Turn(c, g[T \ {last[T]}], item[last[T]])
           Fits(g, n) == \A T \in SUBSET S : Cardinality(T) <= n => g[T] = Value(g, T)
           Bad == {n \in Nat : ~ \E g : Fits(g, n)}
<1>1. \A T \in SUBSET S : Cardinality(T) \in Nat
  BY FS_Subset, FS_CardinalityType
<1>2. \A T \in SUBSET S : T # {} =>
        /\ T \ {last[T]} \in SUBSET S
        /\ Cardinality(T \ {last[T]}) = Cardinality(T) - 1
        /\ Cardinality(T) > 0
  <2> TAKE T \in SUBSET S
  <2> HAVE T # {}
  <2>1. PICK x \in T : x = last[T]
    BY DEF Picks
  <2>2. /\ Cardinality(T) \in Nat
        /\ T \ {x} \in SUBSET S /\ Cardinality(T \ {x}) = Cardinality(T) - 1
        /\ Cardinality(T \ {x}) \in Nat
    BY FewerItems
  <2> QED BY <2>1, <2>2
<1>3. Fits([T \in SUBSET S |-> base], 0)
  <2>1. ASSUME NEW T \in SUBSET S, Cardinality(T) <= 0
        PROVE  T = {}
    <3>1. Cardinality(T) \in Nat /\ ~(Cardinality(T) > 0)
      BY <2>1, <1>1
    <3> QED BY <3>1, <1>2
  <2> QED BY <2>1
<1>4. ASSUME NEW n \in Nat, NEW g, Fits(g, n)
      PROVE  \E h : Fits(h, n + 1)
  <2> DEFINE h == [T \in SUBSET S |-> IF Cardinality(T) <= n THEN g[T] ELSE Value(g, T)]
  <2>1. ASSUME NEW T \in SUBSET S, Cardinality(T) <= n + 1
        PROVE  h[T] = Value(h, T)
    <3>1. h[T] = Value(g, T)
      BY <1>4
    <3>2. CASE T = {}
      BY <3>1, <3>2
    <3>3. CASE T # {}
      <4>1. T \ {last[T]} \in SUBSET S /\ Cardinality(T \ {last[T]}) = Cardinality(T) - 1
        BY <3>3, <1>2
      <4>2. Cardinality(T \ {last[T]}) <= n
        BY <4>1, <2>1, <1>1
      <4>3. h[T \ {last[T]}] = g[T \ {last[T]}]
        BY <4>1, <4>2
      <4> QED BY <3>1, <4>3
    <3> QED BY <3>2, <3>3
  <2>2. Fits(h, n + 1)
    BY <2>1
  <2> QED BY <2>2
<1> HIDE DEF Fits
<1>5. Bad = {}
  <2> SUFFICES ASSUME Bad # {} PROVE FALSE
    OBVIOUS
  <2>1. PICK m \in Bad : \A y \in Bad : m <= y
    BY MinOfNaturals
  <2>2. m # 0
    BY <1>3
  <2>3. m - 1 \in Nat /\ ~(m <= m - 1) /\ (m - 1) + 1 = m
    BY <2>2
  <2>4. m - 1 \notin Bad
    BY <2>1, <2>3
  <2>5. PICK g : Fits(g, m - 1)
    BY <2>3, <2>4
  <2>6. \E h : Fits(h, (m - 1) + 1)
    BY <2>3, <2>5, <1>4
  <2>7. \E h : Fits(h, m)
    BY <2>3, <2>6
  <2> QED BY <2>7
<1>6. Cardinality(S) \in Nat
  BY FS_CardinalityType
<1>7. PICK g : Fits(g, Cardinality(S))
  BY <1>5, <1>6
<1> DEFINE h == [T \in SUBSET S |-> g[T]]
<1>8. ASSUME NEW T \in SUBSET S
      PROVE  h[T] = Value(h, T)
  <2>1. Cardinality(T) <= Cardinality(S)
    BY FS_Subset
  <2>2. g[T] = Value(g, T)
    BY <2>1, <1>7 DEF Fits
  <2>3. T # {} => T \ {last[T]} \in SUBSET S
    BY <1>2
  <2> QED BY <2>2, <2>3
<1>9. h = Unrolled(c, base, S, item, last, h)
  BY <1>8 DEF Unrolled
<1> QED
  BY <1>9

\* What every turn preserves holds at the end.
LEMMA LoopHolds ==
  ASSUME NEW c, NEW base, NEW S, NEW item, NEW last, IsFiniteSet(S), Picks(S, last),
         NEW g, g = Unrolled(c, base, S, item, last, g),
         Holds(c, {}, base),
         \A T \in SUBSET S : \A a :
           T # {} /\ Holds(c, T \ {last[T]}, a) => Holds(c, T, Turn(c, a, item[last[T]]))
  PROVE  Holds(c, S, g[S])
<1> DEFINE Bad == {n \in Nat : \E T \in SUBSET S : Cardinality(T) = n /\ ~Holds(c, T, g[T])}
<1>1. \A T \in SUBSET S :
        g[T] = IF T = {} THEN base ELSE Turn(c, g[T \ {last[T]}], item[last[T]])
  BY DEF Unrolled
<1>2. Bad = {}
  <2> SUFFICES ASSUME Bad # {} PROVE FALSE
    OBVIOUS
  <2>1. PICK m \in Bad : \A y \in Bad : m <= y
    BY MinOfNaturals
  <2>2. PICK T \in SUBSET S : Cardinality(T) = m /\ ~Holds(c, T, g[T])
    OBVIOUS
  <2>3. T # {}
    BY <2>2, <1>1
  <2>4. PICK x \in T : x = last[T]
    BY <2>3 DEF Picks
  <2>5. /\ T \ {x} \in SUBSET S /\ Cardinality(T \ {x}) = Cardinality(T) - 1
        /\ Cardinality(T \ {x}) \in Nat /\ Cardinality(T) \in Nat
    BY FewerItems
  <2>6. Cardinality(T \ {x}) \notin Bad
    <3>1. ~(m <= Cardinality(T \ {x}))
      BY <2>2, <2>5
    <3> QED BY <3>1, <2>1
  <2>7. Holds(c, T \ {last[T]}, g[T \ {last[T]}])
    BY <2>4, <2>5, <2>6
  <2>8. Holds(c, T, Turn(c, g[T \ {last[T]}], item[last[T]]))
    BY <2>7, <2>3
  <2> QED BY <2>8, <2>2, <1>1, <2>3
<1>3. Cardinality(S) \in Nat
  BY FS_CardinalityType
<1> QED BY <1>2, <1>3

----------------------------------------------------------------------------

\* A finite set whose elements are ordered has a last one.
THEOREM LastExists ==
  ASSUME NEW c, NEW S, IsFiniteSet(S), Ordered(c, S), NEW T \in SUBSET S, T # {}
  PROVE  \E x \in T : \A y \in T \ {x} : Less(c, y, x)
<1> DEFINE HasLast(U) == \E x \in U : \A y \in U \ {x} : Less(c, y, x)
           Bad == {n \in Nat : \E U \in SUBSET S : U # {} /\ Cardinality(U) = n /\ ~HasLast(U)}
<1>1. Bad = {}
  <2> SUFFICES ASSUME Bad # {} PROVE FALSE
    OBVIOUS
  <2>1. PICK m \in Bad : \A y \in Bad : m <= y
    BY MinOfNaturals
  <2>2. PICK U \in SUBSET S : U # {} /\ Cardinality(U) = m /\ ~HasLast(U)
    OBVIOUS
  <2>3. PICK x \in U : TRUE
    BY <2>2
  <2>4. /\ U \ {x} \in SUBSET S /\ Cardinality(U \ {x}) = Cardinality(U) - 1
        /\ Cardinality(U \ {x}) \in Nat /\ Cardinality(U) \in Nat
    BY FewerItems
  <2>5. Cardinality(U \ {x}) \notin Bad
    <3>1. ~(m <= Cardinality(U \ {x}))
      BY <2>2, <2>4
    <3> QED BY <3>1, <2>1
  <2>6. U \ {x} # {}
    <3>1. SUFFICES ASSUME U = {x} PROVE FALSE
      BY <2>3
    <3> QED BY <3>1, <2>2
  <2>7. PICK z \in U \ {x} : \A y \in (U \ {x}) \ {z} : Less(c, y, z)
    BY <2>4, <2>5, <2>6
  <2>8. x \in S /\ z \in S /\ x # z
    OBVIOUS
  <2>9. CASE Less(c, x, z)
    <3>1. \A y \in U \ {z} : Less(c, y, z)
      BY <2>7, <2>9
    <3> QED BY <3>1, <2>2, <2>7
  <2>10. CASE Less(c, z, x)
    <3>1. \A y \in U \ {x} : Less(c, y, x)
      BY <2>7, <2>8, <2>10 DEF Ordered
    <3> QED BY <3>1, <2>2, <2>3
  <2> QED BY <2>8, <2>9, <2>10 DEF Ordered
<1>2. Cardinality(T) \in Nat
  BY FS_Subset, FS_CardinalityType
<1> QED BY <1>1, <1>2

\* Induction over a loop that goes through a sequence.
THEOREM SequenceInduction ==
  ASSUME NEW c, NEW base, NEW s, NEW n \in Nat, DOMAIN s = 1..n,
         Holds(c, {}, base),
         \A T \in SUBSET (1..n) : \A i \in T : \A a :
           (\A j \in T : j <= i) /\ Holds(c, T \ {i}, a) => Holds(c, T, Turn(c, a, s[i]))
  PROVE  Holds(c, 1..n, OverSequence(c, base, s))
<1> DEFINE S == 1..n
           last == [T \in SUBSET S |-> Max(T)]
           Step(g) == [T \in SUBSET S |->
                         IF T = {} THEN base ELSE Turn(c, g[T \ {Max(T)}], s[Max(T)])]
           iter == CHOOSE g : g = Step(g)
<1>1. IsFiniteSet(S)
  BY FS_Interval
<1>2. \A T \in SUBSET S : T # {} => Max(T) \in T /\ \A j \in T : j <= Max(T)
  <2> TAKE T \in SUBSET S
  <2>1. T \subseteq 0..n
    OBVIOUS
  <2> QED BY <2>1, MaxOfBounded
<1>3. Picks(S, last)
  BY <1>2 DEF Picks
<1>4. \A g : Step(g) = Unrolled(c, base, S, s, last, g)
  BY DEF Unrolled
<1>5. \E g : g = Step(g)
  <2>1. \E g : g = Unrolled(c, base, S, s, last, g)
    <3> HIDE DEF S, last, Step
    <3> QED BY <1>1, <1>3, LoopDefined
  <2> QED BY <2>1, <1>4
<1>6. iter = Step(iter)
  <2> HIDE DEF Step
  <2> QED BY <1>5
<1>7. iter = Unrolled(c, base, S, s, last, iter)
  <2> HIDE DEF iter, Step, last, S
  <2> QED BY <1>4, <1>6
<1>8. OverSequence(c, base, s) = iter[S]
  BY DEF OverSequence, FoldLeft, MapThenFoldSet
<1>9. \A T \in SUBSET S : \A a :
        T # {} /\ Holds(c, T \ {last[T]}, a) => Holds(c, T, Turn(c, a, s[last[T]]))
  <2> HIDE DEF iter, Step
  <2> TAKE T \in SUBSET S
  <2> TAKE a
  <2> HAVE T # {} /\ Holds(c, T \ {last[T]}, a)
  <2>1. last[T] = Max(T) /\ last[T] \in T /\ \A j \in T : j <= last[T]
    BY <1>2
  <2> QED BY <2>1
<1>10. Holds(c, S, iter[S])
  <2> HIDE DEF iter, Step, last, S
  <2> QED BY <1>1, <1>3, <1>7, <1>9, LoopHolds
<1> QED
  BY <1>8, <1>10

\* Induction over a loop that goes through a finite set in order.
THEOREM OrderInduction ==
  ASSUME NEW c, NEW base, NEW S, IsFiniteSet(S), Ordered(c, S),
         Holds(c, {}, base),
         \A T \in SUBSET S : \A x \in T : \A a :
           (\A y \in T \ {x} : Less(c, y, x)) /\ Holds(c, T \ {x}, a) => Holds(c, T, Turn(c, a, x))
  PROVE  Holds(c, S, InOrder(c, base, S))
<1> DEFINE Latest(T) == CHOOSE x \in T : \A y \in T \ {x} : Less(c, y, x)
           last == [T \in SUBSET S |-> Latest(T)]
           item == [x \in S |-> x]
           Step(g) == [T \in SUBSET S |->
                         IF T = {} THEN base ELSE Turn(c, g[T \ {Latest(T)}], Latest(T))]
           iter == CHOOSE g : g = Step(g)
<1>2. \A T \in SUBSET S : T # {} => Latest(T) \in T /\ \A y \in T \ {Latest(T)} : Less(c, y, Latest(T))
  BY LastExists
<1>8. InOrder(c, base, S) = iter[S]
  BY DEF InOrder, MapThenFoldSet
<1> HIDE DEF Latest
<1>3. Picks(S, last)
  BY <1>2 DEF Picks
<1>4. \A g : Step(g) = Unrolled(c, base, S, item, last, g)
  <2> TAKE g
  <2>1. \A T \in SUBSET S : T # {} => last[T] = Latest(T) /\ item[Latest(T)] = Latest(T)
    BY <1>2
  <2> HIDE DEF last, item
  <2> QED BY <2>1 DEF Unrolled
<1>5. \E g : g = Step(g)
  <2>1. \E g : g = Unrolled(c, base, S, item, last, g)
    <3> HIDE DEF last, Step, item
    <3> QED BY <1>3, LoopDefined
  <2> QED BY <2>1, <1>4
<1>6. iter = Step(iter)
  <2> HIDE DEF Step
  <2> QED BY <1>5
<1>7. iter = Unrolled(c, base, S, item, last, iter)
  <2> HIDE DEF iter, Step, last, item
  <2> QED BY <1>4, <1>6
<1>9. \A T \in SUBSET S : \A a :
        T # {} /\ Holds(c, T \ {last[T]}, a) => Holds(c, T, Turn(c, a, item[last[T]]))
  <2> HIDE DEF iter, Step
  <2> TAKE T \in SUBSET S
  <2> TAKE a
  <2> HAVE T # {} /\ Holds(c, T \ {last[T]}, a)
  <2>1. last[T] = Latest(T) /\ last[T] \in T /\ \A y \in T \ {last[T]} : Less(c, y, last[T])
    BY <1>2
  <2>2. item[last[T]] = last[T]
    BY <2>1
  <2> QED BY <2>1, <2>2
<1>10. Holds(c, S, iter[S])
  <2> HIDE DEF iter, Step, last, item
  <2> QED BY <1>3, <1>7, <1>9, LoopHolds
<1> QED
  BY <1>8, <1>10
=============================================================================
