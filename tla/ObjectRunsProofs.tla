-------------------------- MODULE ObjectRunsProofs --------------------------
(***************************************************************************)
(* The symbols of an object, whatever passes over them (src/src/obj/       *)
(* symbols.rs and the passes that src/src/cmd/dol.rs runs): the indices    *)
(* agree with the table, what the configuration adds stays, and a guessed  *)
(* size stays in its split.  The passes are loops; each loop has an        *)
(* instance of the module Loops, with its body and its invariant.          *)
(***************************************************************************)
EXTENDS ObjectRuns, FiniteSetTheorems, Extrema, TLAPS

\* The order of a loop over a sequence is that of the sequence.
NoOrder(c, x, y) == FALSE
Smaller(c, x, y) == x < y
AddressBefore(c, x, y) == Before(x, y)

----------------------------------------------------------------------------
(***************************************************************************)
(* Sequences.                                                              *)
(***************************************************************************)
LEMMA SequenceShape ==
  ASSUME NEW s, IsSequence(s)
  PROVE  Len(s) \in Nat /\ DOMAIN s = 1..Len(s) /\ \A i \in 1..Len(s) : s[i] \in Range(s)
BY DEF IsSequence, Range

LEMMA IsSequenceOf ==
  ASSUME NEW s, NEW n \in Nat, s = [i \in 1..n |-> s[i]]
  PROVE  IsSequence(s) /\ Len(s) = n
BY DEF IsSequence, Range

LEMMA SequenceIn ==
  ASSUME NEW S, NEW s \in Seq(S)
  PROVE  IsSequence(s)
<1>1. s = [i \in 1..Len(s) |-> s[i]] /\ Len(s) \in Nat
  OBVIOUS
<1> QED BY <1>1, IsSequenceOf

LEMMA EmptySequence == IsSequence(<<>>) /\ Len(<<>>) = 0 /\ DOMAIN <<>> = {}
BY DEF IsSequence, Range

LEMMA Appended ==
  ASSUME NEW s, IsSequence(s), NEW x
  PROVE  /\ IsSequence(Append(s, x)) /\ Len(Append(s, x)) = Len(s) + 1
         /\ \A i \in 1..Len(s) : Append(s, x)[i] = s[i]
         /\ Append(s, x)[Len(s) + 1] = x
<1> DEFINE S == Range(s) \cup {x}
<1>1. s \in Seq(S)
  BY DEF IsSequence, Range
<1> HIDE DEF S
<1>2. x \in S
  BY DEF S
<1>3. Append(s, x) \in Seq(S)
  BY <1>1, <1>2
<1>4. /\ Len(Append(s, x)) = Len(s) + 1
      /\ \A i \in 1..Len(s) : Append(s, x)[i] = s[i]
      /\ Append(s, x)[Len(s) + 1] = x
  BY <1>1, <1>2
<1>5. IsSequence(Append(s, x))
  BY <1>3, SequenceIn
<1> QED BY <1>4, <1>5

LEMMA Concatenated ==
  ASSUME NEW s, IsSequence(s), NEW u, IsSequence(u)
  PROVE  /\ IsSequence(s \o u) /\ Len(s \o u) = Len(s) + Len(u)
         /\ Range(s \o u) = Range(s) \cup Range(u)
<1> DEFINE S == Range(s) \cup Range(u)
<1>1. s \in Seq(S) /\ u \in Seq(S)
  BY DEF IsSequence, Range
<1> HIDE DEF S
<1>2. s \o u \in Seq(S)
  BY <1>1
<1>3. /\ Len(s \o u) = Len(s) + Len(u) /\ Len(s) \in Nat /\ Len(u) \in Nat
      /\ DOMAIN s = 1..Len(s) /\ DOMAIN u = 1..Len(u) /\ DOMAIN (s \o u) = 1..Len(s) + Len(u)
  BY <1>1
<1>4. \A i \in 1..Len(s) : (s \o u)[i] = s[i]
  BY <1>1
<1>5. \A i \in 1..Len(u) : (s \o u)[Len(s) + i] = u[i]
  BY <1>1
<1>6. IsSequence(s \o u)
  BY <1>2, SequenceIn
<1>7. Range(s \o u) \subseteq Range(s) \cup Range(u)
  BY <1>2, <1>3 DEF Range, S
<1>8. Range(s) \subseteq Range(s \o u)
  BY <1>3, <1>4 DEF Range
<1>9. Range(u) \subseteq Range(s \o u)
  <2> SUFFICES ASSUME NEW i \in 1..Len(u) PROVE u[i] \in Range(s \o u)
    BY <1>3 DEF Range
  <2>1. Len(s) + i \in DOMAIN (s \o u)
    BY <1>3
  <2> QED BY <2>1, <1>5 DEF Range
<1> QED BY <1>3, <1>6, <1>7, <1>8, <1>9

----------------------------------------------------------------------------
(***************************************************************************)
(* The orders of the loops over sets.                                      *)
(***************************************************************************)
LEMMA AddressesOrdered ==
  ASSUME NEW S, S \subseteq Addresses
  PROVE  /\ \A a, b \in S : a # b => Before(a, b) \/ Before(b, a)
         /\ \A a, b, d \in S : Before(a, b) /\ Before(b, d) => Before(a, d)
<1>1. \A a \in S : a = <<a[1], a[2]>> /\ a[1] \in Nat /\ a[2] \in Int
  BY DEF Addresses
<1>2. ASSUME NEW a \in S, NEW b \in S, a # b
      PROVE  Before(a, b) \/ Before(b, a)
  <2>1. a[1] # b[1] \/ a[2] # b[2]
    BY <1>1, <1>2
  <2> QED BY <2>1, <1>1 DEF Before
<1>3. ASSUME NEW a \in S, NEW b \in S, NEW d \in S, Before(a, b), Before(b, d)
      PROVE  Before(a, d)
  BY <1>1, <1>3 DEF Before
<1> QED BY <1>2, <1>3

----------------------------------------------------------------------------
(***************************************************************************)
(* One index of the symbols: K is the key of every symbol, and H are the   *)
(* symbols that the index has.                                             *)
(***************************************************************************)
Index(index, K, H) ==
  /\ \A k \in DOMAIN index :
       /\ IsSequence(index[k])
       /\ \A n \in DOMAIN index[k] :
            /\ index[k][n] \in H /\ K[index[k][n]] = k
            /\ \A m \in 1..n - 1 : index[k][m] # index[k][n]
  /\ \A i \in H : K[i] \in DOMAIN index /\ \E n \in DOMAIN index[K[i]] : index[K[i]][n] = i

\* The keys are the same.
Same(K, L, H) == \A j \in H : L[j] = K[j]

\* The loop of nested_remove (retain): c is the symbol that goes, and where it was.
RetainTurn(c, a, j) == IF j = c.i THEN a ELSE Append(a, j)
Retained(c, T, a) ==
  /\ IsSequence(a)
  /\ \A n \in DOMAIN a : /\ \E m \in T : a[n] = c.is[m] /\ a[n] # c.i
                         /\ \A m \in 1..n - 1 : a[m] # a[n]
  /\ \A m \in T : c.is[m] # c.i => \E n \in DOMAIN a : a[n] = c.is[m]
Retain == INSTANCE Loops WITH Turn <- RetainTurn, Less <- NoOrder, Holds <- Retained

LEMMA Retains ==
  ASSUME NEW i, NEW is, IsSequence(is),
         \A n \in DOMAIN is : \A m \in 1..n - 1 : is[m] # is[n]
  PROVE  /\ IsSequence(Without(is, i))
         /\ \A n \in DOMAIN Without(is, i) :
              /\ \E m \in DOMAIN is : Without(is, i)[n] = is[m] /\ is[m] # i
              /\ \A m \in 1..n - 1 : Without(is, i)[m] # Without(is, i)[n]
         /\ \A m \in DOMAIN is : is[m] # i => \E n \in DOMAIN Without(is, i) : Without(is, i)[n] = is[m]
<1> DEFINE c == [i |-> i, is |-> is]
           left == Without(is, i)
<1>1. left = Retain!OverSequence(c, <<>>, is)
  BY DEF Without, FoldLeft, MapThenFoldSet, Max, Retain!OverSequence, Retain!FoldLeft,
         Retain!MapThenFoldSet, Retain!Max, RetainTurn
<1>2. Len(is) \in Nat /\ DOMAIN is = 1..Len(is)
  BY SequenceShape
<1> HIDE DEF left
<1>3. Retained(c, {}, <<>>)
  BY EmptySequence DEF Retained
<1>4. ASSUME NEW T \in SUBSET (1..Len(is)), NEW k \in T, NEW a,
             \A j \in T : j <= k, Retained(c, T \ {k}, a)
      PROVE  Retained(c, T, RetainTurn(c, a, is[k]))
  <2> USE DEF Retained
  <2>1. CASE is[k] = i
    BY <2>1, <1>4 DEF RetainTurn
  <2>2. CASE is[k] # i
    <3> DEFINE b == Append(a, is[k])
    <3>1. /\ IsSequence(b) /\ Len(b) = Len(a) + 1 /\ b[Len(a) + 1] = is[k]
          /\ \A n \in 1..Len(a) : b[n] = a[n]
      BY <1>4, Appended
    <3>2. Len(a) \in Nat /\ DOMAIN a = 1..Len(a) /\ DOMAIN b = 1..Len(a) + 1
      BY <1>4, <3>1, SequenceShape
    <3>3. RetainTurn(c, a, is[k]) = b
      BY <2>2 DEF RetainTurn
    <3> HIDE DEF b
    <3>4. \A m \in T \ {k} : is[m] # is[k]
      <4> TAKE m \in T \ {k}
      <4>1. m \in 1..k - 1 /\ k \in DOMAIN is
        BY <1>2, <1>4
      <4> QED BY <4>1
    <3>5. ASSUME NEW n \in DOMAIN b
          PROVE  /\ \E m \in T : b[n] = is[m] /\ b[n] # i
                 /\ \A m \in 1..n - 1 : b[m] # b[n]
      <4>1. CASE n \in 1..Len(a)
        <5>1. b[n] = a[n] /\ n \in DOMAIN a /\ \A m \in 1..n - 1 : m \in 1..Len(a) /\ b[m] = a[m]
          BY <4>1, <3>1, <3>2
        <5> QED BY <5>1, <1>4
      <4>2. CASE n = Len(a) + 1
        <5>1. b[n] = is[k] /\ n - 1 = Len(a)
          BY <4>2, <3>1, <3>2
        <5>2. ASSUME NEW m \in 1..n - 1
              PROVE  b[m] # b[n]
          <6>1. b[m] = a[m] /\ m \in DOMAIN a
            BY <5>1, <3>1, <3>2
          <6>2. PICK r \in T \ {k} : a[m] = is[r]
            BY <6>1, <1>4
          <6> QED BY <6>1, <6>2, <5>1, <3>4
        <5> QED BY <5>1, <5>2, <2>2
      <4> QED BY <3>2, <4>1, <4>2
    <3>6. ASSUME NEW m \in T, is[m] # i
          PROVE  \E n \in DOMAIN b : b[n] = is[m]
      <4>1. CASE m = k
        <5>1. Len(a) + 1 \in DOMAIN b
          BY <3>2
        <5> QED BY <4>1, <5>1, <3>1
      <4>2. CASE m # k
        <5>1. PICK n \in DOMAIN a : a[n] = is[m]
          BY <4>2, <3>6, <1>4
        <5>2. n \in DOMAIN b /\ b[n] = a[n]
          BY <3>1, <3>2
        <5> QED BY <5>1, <5>2
      <4> QED BY <4>1, <4>2
    <3> QED BY <3>1, <3>3, <3>5, <3>6
  <2> QED BY <2>1, <2>2
<1>5. Retained(c, 1..Len(is), Retain!OverSequence(c, <<>>, is))
  <2> HIDE DEF c
  <2> QED BY <1>2, <1>3, <1>4, Retain!SequenceInduction
<1>6. Retained(c, DOMAIN is, left)
  BY <1>1, <1>2, <1>5
<1> HIDE DEF left
<1>7. c.i = i /\ c.is = is
  OBVIOUS
<1> HIDE DEF c
<1>8. /\ IsSequence(left)
      /\ \A n \in DOMAIN left : /\ \E m \in DOMAIN is : left[n] = is[m] /\ is[m] # i
                                /\ \A m \in 1..n - 1 : left[m] # left[n]
      /\ \A m \in DOMAIN is : is[m] # i => \E n \in DOMAIN left : left[n] = is[m]
  BY <1>6, <1>7 DEF Retained
<1> QED
  BY <1>8 DEF left

\* Without one of its symbols an index is an index of the others.
LEMMA RemoveKeepsIndex ==
  ASSUME NEW index, NEW K, NEW H, Index(index, K, H), NEW i \in H
  PROVE  /\ Index(NestedRemove(index, K[i], i), K, H \ {i})
         /\ DOMAIN NestedRemove(index, K[i], i) = DOMAIN index
<1> DEFINE k == K[i]
           left == Without(index[k], i)
           after == NestedRemove(index, k, i)
<1>1. k \in DOMAIN index /\ IsSequence(index[k])
  BY DEF Index
<1>2. after = [index EXCEPT ![k] = left]
  BY DEF NestedRemove
<1>3. /\ DOMAIN after = DOMAIN index /\ after[k] = left
      /\ \A l \in DOMAIN index : l # k => after[l] = index[l]
  BY <1>1, <1>2
<1>4. /\ IsSequence(left)
      /\ \A n \in DOMAIN left : /\ \E m \in DOMAIN index[k] : left[n] = index[k][m] /\ index[k][m] # i
                                /\ \A m \in 1..n - 1 : left[m] # left[n]
      /\ \A m \in DOMAIN index[k] : index[k][m] # i => \E n \in DOMAIN left : left[n] = index[k][m]
  <2>1. \A n \in DOMAIN index[k] : \A m \in 1..n - 1 : index[k][m] # index[k][n]
    BY <1>1 DEF Index
  <2> HIDE DEF k
  <2> QED BY <1>1, <2>1, Retains
<1> HIDE DEF left, after
<1>5. ASSUME NEW l \in DOMAIN after
      PROVE  /\ IsSequence(after[l])
             /\ \A n \in DOMAIN after[l] :
                  /\ after[l][n] \in H \ {i} /\ K[after[l][n]] = l
                  /\ \A m \in 1..n - 1 : after[l][m] # after[l][n]
  <2>1. CASE l = k
    BY <2>1, <1>1, <1>3, <1>4 DEF Index
  <2>2. CASE l # k
    BY <2>2, <1>3, <1>5 DEF Index
  <2> QED BY <2>1, <2>2
<1>6. ASSUME NEW j \in H \ {i}
      PROVE  K[j] \in DOMAIN after /\ \E n \in DOMAIN after[K[j]] : after[K[j]][n] = j
  <2>1. K[j] \in DOMAIN index /\ \E n \in DOMAIN index[K[j]] : index[K[j]][n] = j
    BY DEF Index
  <2>2. CASE K[j] = k
    BY <2>1, <2>2, <1>3, <1>4
  <2>3. CASE K[j] # k
    BY <2>1, <2>3, <1>3
  <2> QED BY <2>2, <2>3
<1>7. Index(after, K, H \ {i})
  BY <1>5, <1>6 DEF Index
<1> QED BY <1>3, <1>7 DEF after

\* With one more symbol, under its key.
LEMMA PushKeepsIndex ==
  ASSUME NEW index, NEW K, NEW H, Index(index, K, H), NEW i, i \notin H,
         NEW L, Same(K, L, H), NEW k, L[i] = k
  PROVE  Index(NestedPush(index, k, i), L, H \cup {i})
<1> DEFINE was == At(index, k)
           after == NestedPush(index, k, i)
<1>1. /\ IsSequence(was)
      /\ \A n \in DOMAIN was : /\ was[n] \in H /\ K[was[n]] = k
                               /\ \A m \in 1..n - 1 : was[m] # was[n]
  BY EmptySequence DEF Index, At
<1>2. Len(was) \in Nat /\ DOMAIN was = 1..Len(was)
  BY <1>1, SequenceShape
<1>3. /\ DOMAIN after = DOMAIN index \cup {k} /\ after[k] = Append(was, i)
      /\ \A l \in DOMAIN index : l # k => after[l] = index[l]
  BY DEF NestedPush
<1>4. /\ IsSequence(after[k]) /\ Len(after[k]) = Len(was) + 1 /\ after[k][Len(was) + 1] = i
      /\ \A n \in 1..Len(was) : after[k][n] = was[n]
  BY <1>1, <1>3, Appended
<1>5. DOMAIN after[k] = 1..Len(was) + 1
  BY <1>4, SequenceShape
<1>6. \A n \in DOMAIN was : n \in DOMAIN after[k] /\ after[k][n] = was[n]
  BY <1>2, <1>4, <1>5
<1>7. k \in DOMAIN index => was = index[k]
  BY DEF At
<1> HIDE DEF was, after
<1>8. ASSUME NEW l \in DOMAIN after
      PROVE  /\ IsSequence(after[l])
             /\ \A n \in DOMAIN after[l] :
                  /\ after[l][n] \in H \cup {i} /\ L[after[l][n]] = l
                  /\ \A m \in 1..n - 1 : after[l][m] # after[l][n]
  <2>1. CASE l = k
    <3> SUFFICES ASSUME NEW n \in 1..Len(was) + 1
                 PROVE  /\ after[k][n] \in H \cup {i} /\ L[after[k][n]] = k
                        /\ \A m \in 1..n - 1 : after[k][m] # after[k][n]
      BY <2>1, <1>4, <1>5
    <3>1. CASE n \in 1..Len(was)
      <4>1. after[k][n] = was[n] /\ \A m \in 1..n - 1 : m \in 1..Len(was) /\ after[k][m] = was[m]
        BY <3>1, <1>2, <1>4
      <4> QED BY <4>1, <3>1, <1>1, <1>2 DEF Same
    <3>2. CASE n = Len(was) + 1
      <4>1. \A m \in 1..n - 1 : m \in 1..Len(was) /\ after[k][m] = was[m]
        BY <3>2, <1>2, <1>4
      <4> QED BY <4>1, <3>2, <1>1, <1>2, <1>4
    <3> QED BY <1>2, <3>1, <3>2
  <2>2. CASE l # k
    <3>1. l \in DOMAIN index /\ after[l] = index[l]
      BY <2>2, <1>3
    <3> QED BY <3>1 DEF Index, Same
  <2> QED BY <2>1, <2>2
<1>9. ASSUME NEW j \in H \cup {i}
      PROVE  L[j] \in DOMAIN after /\ \E n \in DOMAIN after[L[j]] : after[L[j]][n] = j
  <2>1. CASE j = i
    <3>1. Len(was) + 1 \in DOMAIN after[k]
      BY <1>2, <1>5
    <3> QED BY <2>1, <3>1, <1>3, <1>4
  <2>2. CASE j \in H
    <3>1. L[j] \in DOMAIN index /\ \E n \in DOMAIN index[L[j]] : index[L[j]][n] = j
      BY <2>2 DEF Index, Same
    <3>2. CASE L[j] = k
      BY <3>1, <3>2, <1>3, <1>6, <1>7
    <3>3. CASE L[j] # k
      BY <3>1, <3>3, <1>3
    <3> QED BY <3>2, <3>3
  <2> QED BY <2>1, <2>2
<1>10. Index(after, L, H \cup {i})
  BY <1>8, <1>9 DEF Index
<1> QED BY <1>10 DEF after

----------------------------------------------------------------------------
(***************************************************************************)
(* The table.                                                              *)
(***************************************************************************)
IsSymbol(sym) ==
  /\ DOMAIN sym = {"name", "addr", "section", "size", "known", "kind", "scope", "flags", "align", "data"}
  /\ sym.addr \in Int /\ sym.section \in Nat

Addrs(t) == [i \in DOMAIN t.symbols |-> t.symbols[i].addr]
Places(t) == [i \in DOMAIN t.symbols |-> <<t.symbols[i].section, t.symbols[i].addr>>]
NamesOf(t) == [i \in DOMAIN t.symbols |-> t.symbols[i].name]
Placed(t) == {i \in DOMAIN t.symbols : t.symbols[i].section # None}
Named(t) == {i \in DOMAIN t.symbols : t.symbols[i].name # <<>>}

TableInv(t) ==
  /\ DOMAIN t = {"exe", "symbols", "byAddr", "bySec", "byName"}
  /\ IsSequence(t.symbols) /\ \A i \in DOMAIN t.symbols : IsSymbol(t.symbols[i])
  /\ Index(t.byAddr, Addrs(t), DOMAIN t.symbols)
  /\ Index(t.bySec, Places(t), Placed(t))
  /\ Index(t.byName, NamesOf(t), Named(t))
  /\ IsFiniteSet(DOMAIN t.byAddr) /\ DOMAIN t.byAddr \subseteq Int
  /\ IsFiniteSet(DOMAIN t.bySec) /\ DOMAIN t.bySec \subseteq Addresses

\* A table that was t is u now: no symbol has gone, or moved.
Grown(t, u) ==
  /\ DOMAIN t.symbols \subseteq DOMAIN u.symbols
  /\ \A i \in DOMAIN t.symbols :
       u.symbols[i].addr = t.symbols[i].addr /\ u.symbols[i].section = t.symbols[i].section

LEMMA NormalizedSymbol ==
  ASSUME NEW sym, IsSymbol(sym)
  PROVE  /\ IsSymbol(Normalized(sym)) /\ Normalized(sym).name = sym.name
         /\ Normalized(sym).addr = sym.addr /\ Normalized(sym).section = sym.section
         /\ Normalized(sym).flags = sym.flags
BY DEF IsSymbol, Normalized

LEMMA EmptyTable ==
  ASSUME NEW exe
  PROVE  TableInv(NoSymbols(exe))
<1> DEFINE t == NoSymbols(exe)
<1>1. /\ t.symbols = <<>> /\ t.byAddr = <<>> /\ t.bySec = <<>> /\ t.byName = <<>>
      /\ DOMAIN t = {"exe", "symbols", "byAddr", "bySec", "byName"}
  BY DEF NoSymbols
<1> HIDE DEF t
<1>2. Placed(t) = {} /\ Named(t) = {}
  BY <1>1, EmptySequence DEF Placed, Named
<1>3. \A K : Index(<<>>, K, {})
  BY EmptySequence DEF Index
<1> QED
  BY <1>1, <1>2, <1>3, EmptySequence, FS_EmptySet DEF TableInv, t

\* Where the place of no symbol changes, the two indices of places stay.
LEMMA PlacesStay ==
  ASSUME NEW t, TableInv(t), NEW u, DOMAIN u.symbols = DOMAIN t.symbols, Grown(t, u)
  PROVE  Addrs(u) = Addrs(t) /\ Places(u) = Places(t) /\ Placed(u) = Placed(t)
BY DEF Grown, Addrs, Places, Placed

LEMMA AddDirectKeepsTable ==
  ASSUME NEW t, TableInv(t), NEW in, IsSymbol(in)
  PROVE  /\ TableInv(AddDirect(t, in)) /\ Grown(t, AddDirect(t, in))
         /\ DOMAIN AddDirect(t, in).symbols = DOMAIN t.symbols \cup {Len(t.symbols) + 1}
         /\ AddDirect(t, in).symbols[Len(t.symbols) + 1] = Normalized(in)
         /\ \A j \in DOMAIN t.symbols : AddDirect(t, in).symbols[j] = t.symbols[j]
         /\ AddDirect(t, in).exe = t.exe
         /\ Len(t.symbols) + 1 \notin DOMAIN t.symbols
<1> DEFINE sym == Normalized(in)
           i == Len(t.symbols) + 1
           u == AddDirect(t, in)
<1>1. IsSymbol(sym)
  BY NormalizedSymbol
<1>2. Len(t.symbols) \in Nat /\ DOMAIN t.symbols = 1..Len(t.symbols)
  BY SequenceShape DEF TableInv
<1>3. /\ IsSequence(Append(t.symbols, sym)) /\ Len(Append(t.symbols, sym)) = Len(t.symbols) + 1
      /\ \A j \in 1..Len(t.symbols) : Append(t.symbols, sym)[j] = t.symbols[j]
      /\ Append(t.symbols, sym)[i] = sym
  <2> HIDE DEF sym
  <2> QED BY Appended DEF TableInv
<1>4. DOMAIN Append(t.symbols, sym) = 1..i
  <2> HIDE DEF sym
  <2> QED BY <1>3, SequenceShape
<1> HIDE DEF sym
<1>5. /\ DOMAIN u = {"exe", "symbols", "byAddr", "bySec", "byName"} /\ u.exe = t.exe
      /\ u.symbols = Append(t.symbols, sym)
      /\ u.byAddr = NestedPush(t.byAddr, sym.addr, i)
      /\ u.bySec = IF sym.section = None THEN t.bySec
                   ELSE NestedPush(t.bySec, <<sym.section, sym.addr>>, i)
      /\ u.byName = IF sym.name = <<>> THEN t.byName ELSE NestedPush(t.byName, sym.name, i)
  BY DEF AddDirect, TableInv, sym
<1> HIDE DEF u
<1>6. /\ DOMAIN u.symbols = DOMAIN t.symbols \cup {i} /\ i \notin DOMAIN t.symbols
      /\ \A j \in DOMAIN t.symbols : u.symbols[j] = t.symbols[j]
      /\ u.symbols[i] = sym
  BY <1>2, <1>3, <1>4, <1>5
<1> HIDE DEF i
<1>7. Grown(t, u)
  BY <1>6 DEF Grown
<1>8. /\ \A j \in DOMAIN t.symbols : /\ Addrs(u)[j] = Addrs(t)[j] /\ Places(u)[j] = Places(t)[j]
                                     /\ NamesOf(u)[j] = NamesOf(t)[j]
      /\ Addrs(u)[i] = sym.addr /\ Places(u)[i] = <<sym.section, sym.addr>> /\ NamesOf(u)[i] = sym.name
  BY <1>6 DEF Addrs, Places, NamesOf
<1>9. /\ Placed(u) = Placed(t) \cup (IF sym.section = None THEN {} ELSE {i})
      /\ Named(u) = Named(t) \cup (IF sym.name = <<>> THEN {} ELSE {i})
      /\ Placed(t) \subseteq DOMAIN t.symbols /\ Named(t) \subseteq DOMAIN t.symbols
  BY <1>6 DEF Placed, Named
<1>10. /\ Index(u.byAddr, Addrs(u), DOMAIN u.symbols)
       /\ IsFiniteSet(DOMAIN u.byAddr) /\ DOMAIN u.byAddr \subseteq Int
  <2>1. Index(t.byAddr, Addrs(t), DOMAIN t.symbols)
    BY DEF TableInv
  <2>5. Same(Addrs(t), Addrs(u), DOMAIN t.symbols)
    BY <1>8 DEF Same
  <2>6. DOMAIN NestedPush(t.byAddr, sym.addr, i) = DOMAIN t.byAddr \cup {sym.addr}
    BY DEF NestedPush
  <2>2. Index(NestedPush(t.byAddr, sym.addr, i), Addrs(u), DOMAIN t.symbols \cup {i})
    BY <2>1, <2>5, <1>6, <1>8, PushKeepsIndex
  <2>3. sym.addr \in Int
    BY <1>1 DEF IsSymbol
  <2>4. IsFiniteSet(DOMAIN t.byAddr \cup {sym.addr})
    BY FS_AddElement DEF TableInv
  <2> QED BY <2>2, <2>3, <2>4, <2>6, <1>5, <1>6, <1>8 DEF TableInv
<1>11. /\ Index(u.bySec, Places(u), Placed(u))
       /\ IsFiniteSet(DOMAIN u.bySec) /\ DOMAIN u.bySec \subseteq Addresses
  <2>1. Index(t.bySec, Places(t), Placed(t))
    BY DEF TableInv
  <2>2. CASE sym.section = None
    <3>1. u.bySec = t.bySec /\ Placed(u) = Placed(t)
      BY <2>2, <1>5, <1>9
    <3>2. Index(t.bySec, Places(u), Placed(t))
      BY <2>1, <1>8, <1>9 DEF Index
    <3> QED BY <3>1, <3>2 DEF TableInv
  <2>3. CASE sym.section # None
    <3> DEFINE place == <<sym.section, sym.addr>>
    <3>0. Places(u)[i] = place
      BY <1>8
    <3>1. i \notin Placed(t) /\ Same(Places(t), Places(u), Placed(t))
      BY <1>6, <1>8, <1>9 DEF Same
    <3>5. DOMAIN NestedPush(t.bySec, place, i) = DOMAIN t.bySec \cup {place}
      BY DEF NestedPush
    <3>2. Index(NestedPush(t.bySec, place, i), Places(u), Placed(t) \cup {i})
      <4> HIDE DEF place
      <4> QED BY <2>1, <3>0, <3>1, PushKeepsIndex
    <3>3. place \in Addresses
      BY <1>1 DEF IsSymbol, Addresses
    <3>4. IsFiniteSet(DOMAIN t.bySec \cup {place})
      BY FS_AddElement DEF TableInv
    <3> QED BY <2>3, <3>2, <3>3, <3>4, <3>5, <1>5, <1>8, <1>9 DEF TableInv
  <2> QED BY <2>2, <2>3
<1>12. Index(u.byName, NamesOf(u), Named(u))
  <2>1. Index(t.byName, NamesOf(t), Named(t))
    BY DEF TableInv
  <2>2. CASE sym.name = <<>>
    <3>1. u.byName = t.byName /\ Named(u) = Named(t)
      BY <2>2, <1>5, <1>9
    <3>2. Index(t.byName, NamesOf(u), Named(t))
      BY <2>1, <1>8, <1>9 DEF Index
    <3> QED BY <3>1, <3>2
  <2>3. CASE sym.name # <<>>
    <3>1. i \notin Named(t) /\ Same(NamesOf(t), NamesOf(u), Named(t))
      BY <1>6, <1>8, <1>9 DEF Same
    <3>2. Index(NestedPush(t.byName, sym.name, i), NamesOf(u), Named(t) \cup {i})
      BY <2>1, <3>1, <1>8, PushKeepsIndex
    <3> QED BY <2>3, <3>2, <1>5, <1>8, <1>9
  <2> QED BY <2>2, <2>3
<1>13. \A j \in DOMAIN u.symbols : IsSymbol(u.symbols[j])
  BY <1>1, <1>6 DEF TableInv
<1>14. TableInv(u)
  BY <1>3, <1>5, <1>10, <1>11, <1>12, <1>13 DEF TableInv
<1> QED
  BY <1>5, <1>6, <1>7, <1>14 DEF u, i, sym

LEMMA ReplaceKeepsTable ==
  ASSUME NEW t, TableInv(t), NEW i \in DOMAIN t.symbols, NEW new, IsSymbol(new),
         new.addr = t.symbols[i].addr, new.section = t.symbols[i].section
  PROVE  /\ TableInv(Replace(t, i, new)) /\ Grown(t, Replace(t, i, new))
         /\ DOMAIN Replace(t, i, new).symbols = DOMAIN t.symbols
         /\ Replace(t, i, new).symbols[i] = Normalized(new)
         /\ \A j \in DOMAIN t.symbols : j # i => Replace(t, i, new).symbols[j] = t.symbols[j]
         /\ Replace(t, i, new).exe = t.exe
         /\ Replace(t, i, new).bySec = t.bySec
<1> DEFINE sym == Normalized(new)
           old == t.symbols[i].name
           u == Replace(t, i, new)
           others == IF old = <<>> THEN t.byName ELSE NestedRemove(t.byName, old, i)
<1>1. IsSymbol(sym) /\ sym.addr = t.symbols[i].addr /\ sym.section = t.symbols[i].section
  BY NormalizedSymbol
<1> HIDE DEF sym
<1>2. /\ DOMAIN u = {"exe", "symbols", "byAddr", "bySec", "byName"} /\ u.exe = t.exe
      /\ u.symbols = [t.symbols EXCEPT ![i] = sym]
      /\ u.byAddr = t.byAddr /\ u.bySec = t.bySec
      /\ u.byName = IF old = sym.name THEN t.byName
                    ELSE IF sym.name = <<>> THEN others
                    ELSE NestedPush(others, sym.name, i)
  BY DEF Replace, TableInv, sym
<1> HIDE DEF u
<1>3. /\ DOMAIN u.symbols = DOMAIN t.symbols /\ u.symbols[i] = sym
      /\ \A j \in DOMAIN t.symbols : j # i => u.symbols[j] = t.symbols[j]
  BY <1>2
<1>4. Grown(t, u)
  BY <1>1, <1>3 DEF Grown
<1>5. Addrs(u) = Addrs(t) /\ Places(u) = Places(t) /\ Placed(u) = Placed(t)
  BY <1>3, <1>4, PlacesStay
<1>6. IsSequence(u.symbols)
  <2>1. Len(t.symbols) \in Nat /\ DOMAIN t.symbols = 1..Len(t.symbols)
    BY SequenceShape DEF TableInv
  <2>2. u.symbols = [j \in 1..Len(t.symbols) |-> u.symbols[j]]
    BY <1>2, <2>1
  <2> QED BY <2>1, <2>2, IsSequenceOf
<1>7. /\ NamesOf(u)[i] = sym.name /\ NamesOf(t)[i] = old
      /\ \A j \in DOMAIN t.symbols : j # i => NamesOf(u)[j] = NamesOf(t)[j]
  BY <1>3 DEF NamesOf
<1>8. Named(u) = (Named(t) \ {i}) \cup (IF sym.name = <<>> THEN {} ELSE {i})
  BY <1>3 DEF Named
<1>9. Named(t) \subseteq DOMAIN t.symbols /\ (i \in Named(t) <=> old # <<>>)
  BY DEF Named
<1> HIDE DEF old
<1>10. Index(u.byName, NamesOf(u), Named(u))
  <2>1. Index(t.byName, NamesOf(t), Named(t))
    BY DEF TableInv
  <2>2. CASE old = sym.name
    <3>1. NamesOf(u) = NamesOf(t)
      BY <2>2, <1>3, <1>7 DEF NamesOf
    <3>2. Named(u) = Named(t)
      BY <2>2, <1>8, <1>9
    <3> QED BY <2>1, <2>2, <3>1, <3>2, <1>2
  <2>3. CASE old # sym.name
    <3>1. Index(others, NamesOf(t), Named(t) \ {i})
      <4>1. CASE old = <<>>
        <5>1. Named(t) \ {i} = Named(t)
          BY <4>1, <1>9
        <5> QED BY <4>1, <5>1, <2>1
      <4>2. CASE old # <<>>
        <5>1. i \in Named(t)
          BY <4>2, <1>9
        <5>2. Index(NestedRemove(t.byName, NamesOf(t)[i], i), NamesOf(t), Named(t) \ {i})
          BY <5>1, <2>1, RemoveKeepsIndex
        <5> QED BY <4>2, <5>2, <1>7
      <4> QED BY <4>1, <4>2
    <3> HIDE DEF others
    <3>2. \A j \in Named(t) \ {i} : NamesOf(u)[j] = NamesOf(t)[j]
      BY <1>7, <1>9
    <3>3. CASE sym.name = <<>>
      <4>1. Named(u) = Named(t) \ {i} /\ u.byName = others
        BY <2>3, <3>3, <1>2, <1>8
      <4> QED BY <4>1, <3>1, <3>2 DEF Index
    <3>4. CASE sym.name # <<>>
      <4>1. Index(NestedPush(others, sym.name, i), NamesOf(u), (Named(t) \ {i}) \cup {i})
        <5>1. Same(NamesOf(t), NamesOf(u), Named(t) \ {i})
          BY <3>2 DEF Same
        <5> QED BY <3>1, <5>1, <1>7, PushKeepsIndex
      <4> QED BY <4>1, <2>3, <3>4, <1>2, <1>7, <1>8
    <3> QED BY <3>3, <3>4
  <2> QED BY <2>2, <2>3
<1>11. \A j \in DOMAIN u.symbols : IsSymbol(u.symbols[j])
  BY <1>1, <1>3 DEF TableInv
<1>12. TableInv(u)
  BY <1>2, <1>3, <1>5, <1>6, <1>10, <1>11 DEF TableInv
<1> QED
  BY <1>2, <1>3, <1>4, <1>12 DEF u, sym

----------------------------------------------------------------------------
(***************************************************************************)
(* The loops that put the symbols in order: ByAddress and Ordered.         *)
(***************************************************************************)
GatherTurn(c, is, key) == is \o c.index[key]
Gathered(c, T, is) == IsSequence(is) /\ Range(is) \subseteq c.symbols
GatherByAddr == INSTANCE Loops WITH Turn <- GatherTurn, Less <- Smaller, Holds <- Gathered
GatherByPlace == INSTANCE Loops WITH Turn <- GatherTurn, Less <- AddressBefore, Holds <- Gathered

LEMMA GatherStart ==
  ASSUME NEW c
  PROVE  Gathered(c, {}, <<>>)
BY EmptySequence DEF Gathered, Range

LEMMA GatherStep ==
  ASSUME NEW c, \A key \in DOMAIN c.index : IsSequence(c.index[key]) /\ Range(c.index[key]) \subseteq c.symbols,
         NEW T, NEW U, NEW key \in DOMAIN c.index, NEW is, Gathered(c, U, is)
  PROVE  Gathered(c, T, GatherTurn(c, is, key))
BY Concatenated DEF Gathered, GatherTurn

LEMMA IndexRange ==
  ASSUME NEW index, NEW K, NEW H, Index(index, K, H)
  PROVE  \A key \in DOMAIN index : IsSequence(index[key]) /\ Range(index[key]) \subseteq H
BY DEF Index, Range

LEMMA ByAddressShape ==
  ASSUME NEW t, TableInv(t)
  PROVE  IsSequence(ByAddress(t)) /\ Range(ByAddress(t)) \subseteq DOMAIN t.symbols
<1> DEFINE c == [index |-> t.byAddr, symbols |-> DOMAIN t.symbols]
           S == DOMAIN t.byAddr
<1>1. ByAddress(t) = GatherByAddr!InOrder(c, <<>>, S)
  BY DEF ByAddress, FoldInOrder, MapThenFoldSet, GatherByAddr!InOrder, GatherByAddr!MapThenFoldSet,
         GatherTurn, Smaller
<1>2. c.index = t.byAddr /\ c.symbols = DOMAIN t.symbols /\ S = DOMAIN c.index
  OBVIOUS
<1> HIDE DEF c, S
<1>3. \A key \in DOMAIN c.index : IsSequence(c.index[key]) /\ Range(c.index[key]) \subseteq c.symbols
  BY <1>2, IndexRange DEF TableInv
<1>4. \A T \in SUBSET S : \A key \in T : \A is :
        (\A y \in T \ {key} : Smaller(c, y, key)) /\ Gathered(c, T \ {key}, is)
          => Gathered(c, T, GatherTurn(c, is, key))
  <2> TAKE T \in SUBSET S
  <2> TAKE key \in T
  <2> TAKE is
  <2> HAVE (\A y \in T \ {key} : Smaller(c, y, key)) /\ Gathered(c, T \ {key}, is)
  <2>1. key \in DOMAIN c.index
    BY <1>2
  <2> QED BY <1>3, <2>1, GatherStep
<1>5. GatherByAddr!IsFiniteSet(S)
  BY <1>2 DEF IsFiniteSet, GatherByAddr!IsFiniteSet, TableInv
<1>6. GatherByAddr!Ordered(c, S)
  BY <1>2 DEF GatherByAddr!Ordered, Smaller, TableInv
<1>7. Gathered(c, S, GatherByAddr!InOrder(c, <<>>, S))
  BY <1>4, <1>5, <1>6, GatherStart, GatherByAddr!OrderInduction
<1> QED
  BY <1>1, <1>2, <1>7 DEF Gathered

LEMMA OrderedShape ==
  ASSUME NEW o, TableInv(o.t)
  PROVE  IsSequence(Ordered(o)) /\ Range(Ordered(o)) \subseteq DOMAIN o.t.symbols
<1> DEFINE c == [index |-> o.t.bySec, symbols |-> DOMAIN o.t.symbols]
           S == DOMAIN o.t.bySec
<1>1. Ordered(o) = GatherByPlace!InOrder(c, <<>>, S)
  BY DEF Ordered, FoldInOrder, MapThenFoldSet, GatherByPlace!InOrder, GatherByPlace!MapThenFoldSet,
         GatherTurn, AddressBefore
<1>2. c.index = o.t.bySec /\ c.symbols = DOMAIN o.t.symbols /\ S = DOMAIN c.index
  OBVIOUS
<1> HIDE DEF c, S
<1>3. \A key \in DOMAIN c.index : IsSequence(c.index[key]) /\ Range(c.index[key]) \subseteq c.symbols
  <2>1. Placed(o.t) \subseteq DOMAIN o.t.symbols
    BY DEF Placed
  <2> QED BY <1>2, <2>1, IndexRange DEF TableInv
<1>4. \A T \in SUBSET S : \A key \in T : \A is :
        (\A y \in T \ {key} : AddressBefore(c, y, key)) /\ Gathered(c, T \ {key}, is)
          => Gathered(c, T, GatherTurn(c, is, key))
  <2> TAKE T \in SUBSET S
  <2> TAKE key \in T
  <2> TAKE is
  <2> HAVE (\A y \in T \ {key} : AddressBefore(c, y, key)) /\ Gathered(c, T \ {key}, is)
  <2>1. key \in DOMAIN c.index
    BY <1>2
  <2> QED BY <1>3, <2>1, GatherStep
<1>5. GatherByPlace!IsFiniteSet(S)
  BY <1>2 DEF IsFiniteSet, GatherByPlace!IsFiniteSet, TableInv
<1>6. GatherByPlace!Ordered(c, S)
  BY <1>2, AddressesOrdered DEF GatherByPlace!Ordered, AddressBefore, TableInv
<1>7. Gathered(c, S, GatherByPlace!InOrder(c, <<>>, S))
  BY <1>4, <1>5, <1>6, GatherStart, GatherByPlace!OrderInduction
<1> QED
  BY <1>1, <1>2, <1>7 DEF Gathered

----------------------------------------------------------------------------
(***************************************************************************)
(* ObjSymbols::add.                                                        *)
(***************************************************************************)
LEMMA ExistingSymbol ==
  ASSUME NEW t, TableInv(t), NEW in, IsSymbol(in), Existing(t, in) # None
  PROVE  /\ Existing(t, in) \in DOMAIN t.symbols
         /\ t.symbols[Existing(t, in)].section = in.section
         /\ in.section # None => t.symbols[Existing(t, in)].addr = in.addr
         /\ in.section = None => t.symbols[Existing(t, in)].name = in.name
<1>1. CASE in.section = None
  <2> DEFINE is == ByAddress(t)
             found == {n \in 1..Len(is) : t.symbols[is[n]].section = None /\ t.symbols[is[n]].name = in.name}
  <2>1. IsSequence(is) /\ Range(is) \subseteq DOMAIN t.symbols
    BY ByAddressShape
  <2>2. Len(is) \in Nat /\ DOMAIN is = 1..Len(is)
    BY <2>1, SequenceShape
  <2>3. Existing(t, in) = IF (IF found # {} THEN Min(found) ELSE 0) = 0 THEN None
                          ELSE is[IF found # {} THEN Min(found) ELSE 0]
    BY <1>1 DEF Existing, FirstOf, SelectInSeq, None
  <2>4. found # {}
    BY <2>3
  <2>5. Min(found) \in found
    <3>1. found \subseteq Nat
      BY <2>2
    <3> QED BY <2>4, <3>1, MinOfNaturals
  <2>6. PICK n \in found : Min(found) = n
    BY <2>5
  <2>7. Existing(t, in) = is[n]
    BY <2>3, <2>4, <2>6
  <2>8. is[n] \in DOMAIN t.symbols
    BY <2>1, <2>2 DEF Range
  <2> QED BY <1>1, <2>7, <2>8
<1>2. CASE in.section # None
  <2> DEFINE is == At(t.bySec, <<in.section, in.addr>>)
             found == {n \in 1..Len(is) :
                         /\ "stripped" \notin t.symbols[is[n]].flags
                         /\ \/ t.symbols[is[n]].kind = in.kind
                            \/ t.symbols[is[n]].name = in.name
                            \/ t.symbols[is[n]].kind = "label" /\ IsAuto(t.symbols[is[n]])}
  <2>1. \A n \in DOMAIN is : is[n] \in Placed(t) /\ Places(t)[is[n]] = <<in.section, in.addr>>
    BY EmptySequence DEF At, Index, TableInv
  <2>2. Len(is) \in Nat /\ DOMAIN is = 1..Len(is)
    <3>1. IsSequence(is)
      BY EmptySequence DEF At, Index, TableInv
    <3> QED BY <3>1, SequenceShape
  <2>3. Existing(t, in) = IF (IF found # {} THEN Min(found) ELSE 0) = 0 THEN None
                          ELSE is[IF found # {} THEN Min(found) ELSE 0]
    BY <1>2 DEF Existing, FirstOf, SelectInSeq, None
  <2>4. found # {}
    BY <2>3
  <2>5. Min(found) \in found
    <3>1. found \subseteq Nat
      BY <2>2
    <3> QED BY <2>4, <3>1, MinOfNaturals
  <2>6. PICK n \in found : Min(found) = n
    BY <2>5
  <2>7. Existing(t, in) = is[n]
    BY <2>3, <2>4, <2>6
  <2>8. is[n] \in Placed(t) /\ Places(t)[is[n]] = <<in.section, in.addr>>
    BY <2>1, <2>2
  <2>9. is[n] \in DOMAIN t.symbols /\ Places(t)[is[n]] = <<t.symbols[is[n]].section, t.symbols[is[n]].addr>>
    BY <2>8 DEF Placed, Places
  <2> QED BY <1>2, <2>7, <2>8, <2>9
<1> QED BY <1>1, <1>2

LEMMA MergedSymbol ==
  ASSUME NEW old, NEW in, IsSymbol(in)
  PROVE  /\ IsSymbol(Merged(old, in)) /\ Merged(old, in).name = in.name
         /\ Merged(old, in).addr = in.addr /\ Merged(old, in).section = in.section
BY DEF IsSymbol, Merged

\* What add does to a table: it adds the symbol, or merges it with one that is there.
Joined(t, u, sym, replace) ==
  LET e == AddedIndex(t, sym)
  IN  /\ TableInv(u) /\ Grown(t, u) /\ u.exe = t.exe /\ e \in DOMAIN u.symbols
      /\ DOMAIN u.symbols = DOMAIN t.symbols \cup {e}
      /\ \A j \in DOMAIN t.symbols : j # e => u.symbols[j] = t.symbols[j]
      /\ e \in DOMAIN t.symbols =>
           /\ u.symbols[e].section = sym.section
           /\ sym.section = None => t.symbols[e].name = sym.name
           /\ \/ u.symbols[e].name = t.symbols[e].name
              \/ u.symbols[e].name = sym.name /\ Wins(t.symbols[e], Normalized(sym), replace)
      /\ e \notin DOMAIN t.symbols =>
           /\ u.symbols[e].name = sym.name /\ u.symbols[e].addr = sym.addr
           /\ u.symbols[e].section = sym.section

LEMMA AddJoins ==
  ASSUME NEW t, TableInv(t), NEW sym, IsSymbol(sym), NEW replace, ~Refused(t, sym, replace)
  PROVE  Joined(t, Add(t, sym, replace), sym, replace)
<1> DEFINE in == Normalized(sym)
           i == Existing(t, in)
           old == t.symbols[i]
           u == Add(t, sym, replace)
           e == AddedIndex(t, sym)
<1>1. /\ IsSymbol(in) /\ in.name = sym.name /\ in.addr = sym.addr /\ in.section = sym.section
      /\ in.flags = sym.flags
  BY NormalizedSymbol
<1>2. /\ i # None => i \in DOMAIN t.symbols /\ old.section = in.section
      /\ i # None /\ in.section # None => old.addr = in.addr
      /\ i # None /\ in.section = None => old.name = in.name
  <2> HIDE DEF in
  <2> QED BY <1>1, ExistingSymbol
<1>3. "alias" \in in.flags => i = None
  BY DEF Existing
<1>4. e = IF i = None THEN Len(t.symbols) + 1 ELSE i
  BY DEF AddedIndex
<1>5. ASSUME i # None, Wins(old, in, replace)
      PROVE  old.addr = in.addr
  BY <1>5 DEF Refused
<1>6. CASE i = None
  <2> DEFINE added == IF "alias" \in in.flags THEN in ELSE [in EXCEPT !.known = in.size # 0]
  <2>1. u = AddDirect(t, added)
    BY <1>6 DEF Add
  <2>2. /\ IsSymbol(added) /\ added.name = in.name /\ added.addr = in.addr /\ added.section = in.section
    <3> HIDE DEF in
    <3> QED BY <1>1 DEF IsSymbol
  <2> HIDE DEF added
  <2>3. /\ TableInv(u) /\ Grown(t, u) /\ u.exe = t.exe
        /\ DOMAIN u.symbols = DOMAIN t.symbols \cup {e} /\ e \notin DOMAIN t.symbols
        /\ u.symbols[e] = Normalized(added)
        /\ \A j \in DOMAIN t.symbols : u.symbols[j] = t.symbols[j]
    <3> HIDE DEF i, in, e, u
    <3> QED BY <2>1, <2>2, <1>4, <1>6, AddDirectKeepsTable
  <2>4. /\ Normalized(added).name = added.name /\ Normalized(added).addr = added.addr
        /\ Normalized(added).section = added.section
    BY <2>2, NormalizedSymbol
  <2> HIDE DEF u, e
  <2>5. /\ u.symbols[e].name = sym.name /\ u.symbols[e].addr = sym.addr
        /\ u.symbols[e].section = sym.section
    BY <2>2, <2>3, <2>4, <1>1
  <2> QED BY <2>3, <2>5 DEF Joined, e, u
<1>7. CASE i # None
  <2> DEFINE merged == Merged(old, in)
             sized == [old EXCEPT !.size = in.size, !.known = TRUE]
  <2>1. u = IF Wins(old, in, replace) THEN Replace(t, i, merged)
            ELSE IF in.known /\ ~old.known THEN Replace(t, i, sized)
            ELSE t
    BY <1>3, <1>7 DEF Add
  <2>2. i \in DOMAIN t.symbols /\ e = i /\ IsSymbol(old)
    BY <1>2, <1>4, <1>7 DEF TableInv
  <2>3. /\ IsSymbol(merged) /\ merged.name = in.name /\ merged.addr = in.addr
        /\ merged.section = in.section
    <3> HIDE DEF in, old
    <3> QED BY <1>1, MergedSymbol
  <2>4. /\ IsSymbol(sized) /\ sized.name = old.name /\ sized.addr = old.addr
        /\ sized.section = old.section
    <3> HIDE DEF in, old
    <3> QED BY <2>2 DEF IsSymbol
  <2>5. ASSUME NEW new, IsSymbol(new), new.addr = old.addr, new.section = old.section,
               u = Replace(t, i, new)
        PROVE  /\ TableInv(u) /\ Grown(t, u) /\ u.exe = t.exe
               /\ DOMAIN u.symbols = DOMAIN t.symbols
               /\ u.symbols[i].name = new.name /\ u.symbols[i].section = new.section
               /\ \A j \in DOMAIN t.symbols : j # i => u.symbols[j] = t.symbols[j]
    <3>1. Normalized(new).name = new.name /\ Normalized(new).section = new.section
      BY <2>5, NormalizedSymbol
    <3>2. i \in DOMAIN t.symbols /\ new.addr = t.symbols[i].addr /\ new.section = t.symbols[i].section
      BY <2>2, <2>5
    <3> HIDE DEF u, i
    <3> QED BY <3>1, <3>2, <2>5, ReplaceKeepsTable
  <2> HIDE DEF u, merged, sized
  <2>6. CASE Wins(old, in, replace)
    <3>1. u = Replace(t, i, merged) /\ merged.addr = old.addr /\ merged.section = old.section
      BY <2>1, <2>3, <2>6, <1>2, <1>5, <1>7
    <3>2. /\ TableInv(u) /\ Grown(t, u) /\ u.exe = t.exe
          /\ DOMAIN u.symbols = DOMAIN t.symbols
          /\ u.symbols[i].name = merged.name /\ u.symbols[i].section = merged.section
          /\ \A j \in DOMAIN t.symbols : j # i => u.symbols[j] = t.symbols[j]
      BY <3>1, <2>3, <2>5
    <3>3. u.symbols[i].name = sym.name /\ u.symbols[i].section = sym.section
      BY <3>2, <2>3, <1>1
    <3>4. sym.section = None => old.name = sym.name
      BY <1>1, <1>2, <1>7
    <3> HIDE DEF i, e, in
    <3> QED BY <3>2, <3>3, <3>4, <2>2, <2>6 DEF Joined, e, u, in
  <2>7. CASE ~Wins(old, in, replace) /\ in.known /\ ~old.known
    <3>1. u = Replace(t, i, sized)
      BY <2>1, <2>7
    <3>2. /\ TableInv(u) /\ Grown(t, u) /\ u.exe = t.exe
          /\ DOMAIN u.symbols = DOMAIN t.symbols
          /\ u.symbols[i].name = sized.name /\ u.symbols[i].section = sized.section
          /\ \A j \in DOMAIN t.symbols : j # i => u.symbols[j] = t.symbols[j]
      BY <3>1, <2>4, <2>5
    <3>3. u.symbols[i].name = old.name /\ u.symbols[i].section = sym.section
      BY <3>2, <2>4, <1>1, <1>2, <1>7
    <3>4. sym.section = None => old.name = sym.name
      BY <1>1, <1>2, <1>7
    <3> HIDE DEF i, e, in
    <3> QED BY <3>2, <3>3, <3>4, <2>2 DEF Joined, e, u
  <2>8. CASE ~Wins(old, in, replace) /\ ~(in.known /\ ~old.known)
    <3>1. u = t
      BY <2>1, <2>8
    <3>2. Grown(t, t)
      BY DEF Grown
    <3>4. (sym.section = None => old.name = sym.name) /\ old.section = sym.section
      BY <1>1, <1>2, <1>7
    <3> HIDE DEF i, e, in
    <3> QED BY <3>1, <3>2, <3>4, <2>2 DEF Joined, e, u
  <2> QED BY <2>6, <2>7, <2>8
<1> QED BY <1>6, <1>7

----------------------------------------------------------------------------
(***************************************************************************)
(* The object.                                                             *)
(***************************************************************************)
SectionsInv(sections) ==
  /\ IsSequence(sections)
  /\ \A i \in DOMAIN sections :
       /\ DOMAIN sections[i] = {"name", "kind", "start", "end", "known"}
       /\ sections[i].start \in Int /\ sections[i].end \in Int

RelocsInv(relocs, t) ==
  \A a \in DOMAIN relocs : relocs[a].symbol \in DOMAIN t.symbols /\ relocs[a].addend \in Int

ObjInv(o) ==
  /\ DOMAIN o = {"t", "sections", "splits", "relocs", "sources", "targets", "special", "added", "ok"}
  /\ TableInv(o.t) /\ SectionsInv(o.sections) /\ RelocsInv(o.relocs, o.t)

\* The object o has become q: what every pass preserves.
Follows(o, q) ==
  /\ ObjInv(q) /\ Grown(o.t, q.t) /\ q.t.exe = o.t.exe
  /\ DOMAIN q.sections = DOMAIN o.sections /\ q.splits = o.splits
  /\ q.ok => o.ok

\* Only symbols with a name that dtk made up have got another one.
Renames(t, u) ==
  \A i \in DOMAIN t.symbols : u.symbols[i].name = t.symbols[i].name \/ IsAuto(t.symbols[i])

\* And only another one that dtk made up.
Relabels(t, u) ==
  \A i \in DOMAIN t.symbols :
    \/ u.symbols[i].name = t.symbols[i].name
    \/ IsAuto(t.symbols[i]) /\ IsAuto(u.symbols[i])

\* No relocation has gone, or changed.
RelocsStay(o, q) ==
  \A a \in DOMAIN o.relocs : a \in DOMAIN q.relocs /\ q.relocs[a] = o.relocs[a]

LEMMA GrownTransitive ==
  ASSUME NEW t, NEW u, NEW w, Grown(t, u), Grown(u, w)
  PROVE  Grown(t, w)
BY DEF Grown

LEMMA FollowsItself ==
  ASSUME NEW o, ObjInv(o)
  PROVE  Follows(o, o) /\ Renames(o.t, o.t) /\ Relabels(o.t, o.t) /\ RelocsStay(o, o)
BY DEF Follows, Grown, Renames, Relabels, RelocsStay

LEMMA FollowsTransitive ==
  ASSUME NEW o, NEW q, NEW r, Follows(o, q), Follows(q, r)
  PROVE  Follows(o, r)
BY GrownTransitive DEF Follows

LEMMA RenamesTransitive ==
  ASSUME NEW t, NEW u, NEW w, Grown(t, u), Renames(t, u), Renames(u, w)
  PROVE  Renames(t, w)
BY DEF Grown, Renames, IsAuto

LEMMA RelabelsTransitive ==
  ASSUME NEW t, NEW u, NEW w, Grown(t, u), Relabels(t, u), Relabels(u, w)
  PROVE  Relabels(t, w)
BY DEF Grown, Relabels, IsAuto

LEMMA RelabelsRenames ==
  ASSUME NEW t, NEW u, Relabels(t, u)
  PROVE  Renames(t, u)
BY DEF Relabels, Renames

LEMMA RelocsStayTransitive ==
  ASSUME NEW o, NEW q, NEW r, RelocsStay(o, q), RelocsStay(q, r)
  PROVE  RelocsStay(o, r)
BY DEF RelocsStay

LEMMA StopFollows ==
  ASSUME NEW o, ObjInv(o)
  PROVE  /\ Follows(o, Stop(o)) /\ Stop(o).t = o.t /\ Stop(o).relocs = o.relocs
         /\ Stop(o).sections = o.sections /\ ~Stop(o).ok
BY DEF ObjInv, Follows, Grown, Stop

\* A part of the object that the invariant does not speak of changes.
LEMMA OtherPartFollows ==
  ASSUME NEW o, ObjInv(o), NEW q, DOMAIN q = DOMAIN o, q.t = o.t, q.sections = o.sections,
         q.splits = o.splits, q.relocs = o.relocs, q.ok = o.ok
  PROVE  Follows(o, q)
BY DEF ObjInv, Follows, Grown

LEMMA TableFollows ==
  ASSUME NEW o, ObjInv(o), NEW q, DOMAIN q = DOMAIN o, q.sections = o.sections,
         q.splits = o.splits, q.relocs = o.relocs, q.ok = o.ok, TableInv(q.t), Grown(o.t, q.t), q.t.exe = o.t.exe
  PROVE  Follows(o, q)
BY DEF ObjInv, RelocsInv, Follows, Grown

\* One more relocation, to a symbol that is there.
PutsReloc(o, q, at, reloc) ==
  /\ DOMAIN q = DOMAIN o /\ q.t = o.t /\ q.sections = o.sections /\ q.splits = o.splits
  /\ q.ok = o.ok /\ q.relocs = Put(o.relocs, at, reloc)
  /\ reloc.symbol \in DOMAIN o.t.symbols /\ reloc.addend \in Int

LEMMA RelocFollows ==
  ASSUME NEW o, ObjInv(o), NEW at, NEW reloc, NEW q, PutsReloc(o, q, at, reloc)
  PROVE  /\ Follows(o, q)
         /\ DOMAIN q.relocs = DOMAIN o.relocs \cup {at} /\ q.relocs[at] = reloc
         /\ \A a \in DOMAIN o.relocs : a # at => q.relocs[a] = o.relocs[a]
<1>1. /\ DOMAIN q.relocs = DOMAIN o.relocs \cup {at} /\ q.relocs[at] = reloc
      /\ \A a \in DOMAIN o.relocs : a # at => q.relocs[a] = o.relocs[a]
  BY DEF Put, PutsReloc
<1>2. RelocsInv(q.relocs, q.t)
  BY <1>1 DEF ObjInv, RelocsInv, PutsReloc
<1>3. Follows(o, q)
  BY <1>2 DEF ObjInv, Follows, Grown, PutsReloc
<1> QED BY <1>1, <1>3

LEMMA AddSymbolFollows ==
  ASSUME NEW o, ObjInv(o), NEW sym, IsSymbol(sym), NEW replace
  PROVE  LET q == AddSymbol(o, sym, replace)
         IN  /\ Follows(o, q) /\ q.relocs = o.relocs /\ q.sections = o.sections
             /\ q.t.exe = o.t.exe
             /\ \/ q = Stop(o) /\ Refused(o.t, sym, replace)
                \/ q.ok = o.ok /\ Joined(o.t, q.t, sym, replace)
<1> DEFINE q == AddSymbol(o, sym, replace)
<1>1. CASE Refused(o.t, sym, replace)
  <2>1. q = Stop(o)
    BY <1>1 DEF AddSymbol
  <2> HIDE DEF q
  <2>2. Follows(o, q) /\ q.t = o.t /\ q.relocs = o.relocs /\ q.sections = o.sections
    BY <2>1, StopFollows
  <2> QED BY <1>1, <2>1, <2>2 DEF q
<1>2. CASE ~Refused(o.t, sym, replace)
  <2>1. /\ DOMAIN q = DOMAIN o /\ q.t = Add(o.t, sym, replace) /\ q.sections = o.sections
        /\ q.splits = o.splits /\ q.relocs = o.relocs /\ q.ok = o.ok
    BY <1>2 DEF AddSymbol, ObjInv
  <2> HIDE DEF q
  <2>2. Joined(o.t, q.t, sym, replace)
    BY <1>2, <2>1, AddJoins DEF ObjInv
  <2>3. TableInv(q.t) /\ Grown(o.t, q.t) /\ q.t.exe = o.t.exe
    BY <2>2 DEF Joined
  <2>4. Follows(o, q)
    BY <2>1, <2>3, TableFollows
  <2> QED BY <2>1, <2>2, <2>3, <2>4 DEF q
<1> QED BY <1>1, <1>2

\* A symbol that does not replace takes no name from another that has one of its own.
LEMMA AddSymbolRenames ==
  ASSUME NEW o, ObjInv(o), NEW sym, IsSymbol(sym)
  PROVE  Renames(o.t, AddSymbol(o, sym, FALSE).t)
<1> DEFINE q == AddSymbol(o, sym, FALSE)
<1>1. \/ q = Stop(o)
      \/ Joined(o.t, q.t, sym, FALSE)
  BY AddSymbolFollows
<1> HIDE DEF q
<1>2. CASE q = Stop(o)
  BY <1>2, StopFollows DEF Renames, q
<1>3. CASE Joined(o.t, q.t, sym, FALSE)
  <2>1. \A old : Wins(old, Normalized(sym), FALSE) => IsAuto(old)
    BY DEF Wins, IsAuto, AutoPrefixes
  <2>2. Renames(o.t, q.t)
    BY <1>3, <2>1 DEF Joined, Renames
  <2> QED BY <2>2 DEF q
<1> QED BY <1>1, <1>2, <1>3

LEMMA RenamedSection ==
  ASSUME NEW section, DOMAIN section = {"name", "kind", "start", "end", "known"}, NEW name
  PROVE  /\ DOMAIN Renamed(section, name) = DOMAIN section
         /\ Renamed(section, name).start = section.start /\ Renamed(section, name).end = section.end
BY DEF Renamed

LEMMA RenameSectionsFollows ==
  ASSUME NEW o, ObjInv(o), NEW names
  PROVE  /\ Follows(o, RenameSections(o, names)) /\ RenameSections(o, names).t = o.t
         /\ RenameSections(o, names).relocs = o.relocs
<1> DEFINE q == RenameSections(o, names)
<1>1. /\ DOMAIN q = DOMAIN o /\ q.t = o.t /\ q.ok = o.ok /\ q.relocs = o.relocs
      /\ q.splits = o.splits
      /\ q.sections = [i \in DOMAIN o.sections |->
                         IF i \in DOMAIN names THEN Renamed(o.sections[i], names[i]) ELSE o.sections[i]]
  BY DEF RenameSections, ObjInv
<1> HIDE DEF q
<1>2. SectionsInv(q.sections) /\ DOMAIN q.sections = DOMAIN o.sections
  <2>1. Len(o.sections) \in Nat /\ DOMAIN o.sections = 1..Len(o.sections)
    BY SequenceShape DEF ObjInv, SectionsInv
  <2>2. q.sections = [i \in 1..Len(o.sections) |-> q.sections[i]]
    BY <1>1, <2>1
  <2>3. IsSequence(q.sections)
    BY <2>1, <2>2, IsSequenceOf
  <2>4. ASSUME NEW i \in DOMAIN o.sections
        PROVE  /\ DOMAIN q.sections[i] = {"name", "kind", "start", "end", "known"}
               /\ q.sections[i].start \in Int /\ q.sections[i].end \in Int
    <3>1. /\ DOMAIN o.sections[i] = {"name", "kind", "start", "end", "known"}
          /\ o.sections[i].start \in Int /\ o.sections[i].end \in Int
      BY DEF ObjInv, SectionsInv
    <3>2. CASE i \in DOMAIN names
      <4>1. q.sections[i] = Renamed(o.sections[i], names[i])
        BY <3>2, <1>1
      <4> QED BY <3>1, <4>1, RenamedSection
    <3>3. CASE i \notin DOMAIN names
      BY <3>1, <3>3, <1>1
    <3> QED BY <3>2, <3>3
  <2> QED BY <1>1, <2>3, <2>4 DEF SectionsInv
<1>3. Follows(o, q)
  BY <1>1, <1>2 DEF ObjInv, RelocsInv, Follows, Grown
<1> QED BY <1>1, <1>3 DEF q

\* A symbol that is replaced in its place, and the object with it.
LEMMA ReplaceFollows ==
  ASSUME NEW o, ObjInv(o), NEW i \in DOMAIN o.t.symbols, NEW new, IsSymbol(new),
         new.addr = o.t.symbols[i].addr, new.section = o.t.symbols[i].section,
         NEW q, DOMAIN q = DOMAIN o, q.sections = o.sections, q.splits = o.splits,
         q.relocs = o.relocs, q.ok = o.ok,
         q.t = Replace(o.t, i, new)
  PROVE  /\ Follows(o, q) /\ DOMAIN q.t.symbols = DOMAIN o.t.symbols
         /\ q.t.symbols[i].name = new.name
         /\ \A j \in DOMAIN o.t.symbols : j # i => q.t.symbols[j] = o.t.symbols[j]
<1>1. /\ TableInv(q.t) /\ Grown(o.t, q.t) /\ q.t.exe = o.t.exe
      /\ DOMAIN q.t.symbols = DOMAIN o.t.symbols
      /\ q.t.symbols[i] = Normalized(new)
      /\ \A j \in DOMAIN o.t.symbols : j # i => q.t.symbols[j] = o.t.symbols[j]
  BY ReplaceKeepsTable DEF ObjInv
<1>2. Normalized(new).name = new.name
  BY NormalizedSymbol
<1> QED BY <1>1, <1>2, TableFollows


----------------------------------------------------------------------------
(***************************************************************************)
(* The symbols file is read: ApplyFile.                                    *)
(***************************************************************************)
\* What a loop over the object keeps: that it follows from the one it began with.
Followed(c, T, q) == Follows(c.o, q)

\* And that it gives no other name to a symbol that has one of its own.
FollowedByName(c, T, q) == Follows(c.o, q) /\ Renames(c.o.t, q.t)

LineTurn(c, q, line) == ApplyLine(q, line)
OverLines == INSTANCE Loops WITH Turn <- LineTurn, Less <- NoOrder, Holds <- Followed

LEMMA SectionOfLine ==
  ASSUME NEW o, ObjInv(o), NEW line, ~Misplaced(o, line)
  PROVE  SectionOf(o, line) \in Nat
<1>1. Len(o.sections) \in Nat /\ DOMAIN o.sections = 1..Len(o.sections)
  BY SequenceShape DEF ObjInv, SectionsInv
<1>2. SectionAt(o, line.addr) \subseteq Nat /\ SectionsNamed(o, line.in) \subseteq Nat
  BY <1>1 DEF SectionAt, SectionsNamed
<1>3. CASE line.in = "ABS"
  BY <1>3 DEF SectionOf, None
<1>4. CASE line.in # "ABS" /\ Unknown(o, line)
  <2>1. SectionAt(o, line.addr) # {}
    BY <1>4 DEF Misplaced
  <2> QED BY <2>1, <1>2, <1>4 DEF SectionOf
<1>5. CASE line.in # "ABS" /\ ~Unknown(o, line)
  <2>1. SectionsNamed(o, line.in) # {}
    BY <1>5 DEF Unknown
  <2> QED BY <2>1, <1>2, <1>5 DEF SectionOf
<1> QED BY <1>3, <1>4, <1>5

LEMMA LineFollows ==
  ASSUME NEW o, ObjInv(o), NEW line, line.addr \in Int
  PROVE  Follows(o, ApplyLine(o, line))
<1> DEFINE section == SectionOf(o, line)
           q == RenamedBy(o, line)
           blocked == IF "noreloc" \in line.attrs
                      THEN [q EXCEPT !.sources = InsertRange(@, <<section, line.addr>>,
                                                             line.addr + line.size)]
                      ELSE q
           sym == Parsed(line, section)
<1>1. CASE Unreadable(line) \/ Misplaced(o, line)
  BY <1>1, StopFollows DEF ApplyLine
<1>2. CASE ~(Unreadable(line) \/ Misplaced(o, line))
  <2>1. ApplyLine(o, line) = AddSymbol(blocked, sym, TRUE)
    BY <1>2 DEF ApplyLine
  <2>2. section \in Nat
    BY <1>2, SectionOfLine
  <2>3. IsSymbol(sym)
    <3> HIDE DEF section
    <3> QED BY <2>2 DEF Parsed, IsSymbol
  <2>4. Follows(o, q)
    BY RenameSectionsFollows, FollowsItself DEF RenamedBy
  <2>5. ObjInv(q)
    BY <2>4 DEF Follows
  <2> HIDE DEF q, section, sym
  <2>6. Follows(q, blocked)
    <3>1. DOMAIN blocked = DOMAIN q /\ blocked.t = q.t /\ blocked.sections = q.sections
          /\ blocked.splits = q.splits /\ blocked.relocs = q.relocs /\ blocked.ok = q.ok
      BY <2>5 DEF ObjInv
    <3> HIDE DEF blocked
    <3> QED BY <3>1, <2>5, OtherPartFollows
  <2> HIDE DEF blocked
  <2>7. ObjInv(blocked)
    BY <2>6 DEF Follows
  <2>8. Follows(blocked, AddSymbol(blocked, sym, TRUE))
    BY <2>3, <2>7, AddSymbolFollows
  <2>9. Follows(o, blocked)
    BY <2>4, <2>6, FollowsTransitive
  <2> QED BY <2>1, <2>8, <2>9, FollowsTransitive
<1> QED BY <1>1, <1>2

LEMMA FileFollows ==
  ASSUME NEW o, ObjInv(o), NEW file, IsSequence(file), \A line \in Range(file) : line.addr \in Int
  PROVE  Follows(o, ApplyFile(o, file))
<1> DEFINE c == [o |-> o]
           n == Len(file)
<1>1. ApplyFile(o, file) = OverLines!OverSequence(c, o, file)
  BY DEF ApplyFile, FoldLeft, MapThenFoldSet, Max, OverLines!OverSequence, OverLines!FoldLeft,
         OverLines!MapThenFoldSet, OverLines!Max, LineTurn
<1>2. n \in Nat /\ DOMAIN file = 1..n /\ \A i \in 1..n : file[i] \in Range(file)
  BY SequenceShape
<1>3. c.o = o
  OBVIOUS
<1> HIDE DEF c, n
<1>4. Followed(c, {}, o)
  BY <1>3, FollowsItself DEF Followed
<1>5. ASSUME NEW T \in SUBSET (1..n), NEW i \in T, NEW q, \A j \in T : j <= i, Followed(c, T \ {i}, q)
      PROVE  Followed(c, T, LineTurn(c, q, file[i]))
  <2>1. ObjInv(q) /\ Follows(o, q)
    BY <1>3, <1>5 DEF Followed, Follows
  <2>2. file[i] \in Range(file)
    BY <1>2
  <2>3. Follows(q, ApplyLine(q, file[i]))
    BY <2>1, <2>2, LineFollows
  <2> QED BY <1>3, <2>1, <2>3, FollowsTransitive DEF Followed, LineTurn
<1>6. Followed(c, 1..n, OverLines!OverSequence(c, o, file))
  BY <1>2, <1>4, <1>5, OverLines!SequenceInduction
<1> QED BY <1>1, <1>3, <1>6 DEF Followed

----------------------------------------------------------------------------
(***************************************************************************)
(* What the configuration blocks: ApplyBlocks.                             *)
(***************************************************************************)
BlockTurn(c, q, b) == ApplyBlock(q, b)
Unchanged(c, T, q) ==
  /\ DOMAIN q = DOMAIN c.o /\ q.t = c.o.t /\ q.sections = c.o.sections
  /\ q.splits = c.o.splits /\ q.relocs = c.o.relocs /\ q.ok = c.o.ok
OverBlocks == INSTANCE Loops WITH Turn <- BlockTurn, Less <- NoOrder, Holds <- Unchanged

LEMMA BlocksFollow ==
  ASSUME NEW o, ObjInv(o), NEW p, IsSequence(p.blocks)
  PROVE  Follows(o, ApplyBlocks(o, p)) /\ ApplyBlocks(o, p).t = o.t
<1> DEFINE c == [o |-> o]
           s == p.blocks
           n == Len(s)
<1>1. ApplyBlocks(o, p) = OverBlocks!OverSequence(c, o, s)
  BY DEF ApplyBlocks, FoldLeft, MapThenFoldSet, Max, OverBlocks!OverSequence, OverBlocks!FoldLeft,
         OverBlocks!MapThenFoldSet, OverBlocks!Max, BlockTurn
<1>2. n \in Nat /\ DOMAIN s = 1..n
  BY SequenceShape
<1>3. c.o = o
  OBVIOUS
<1> HIDE DEF c, n, s
<1>4. Unchanged(c, {}, o)
  BY <1>3 DEF Unchanged
<1>5. ASSUME NEW T \in SUBSET (1..n), NEW i \in T, NEW q, \A j \in T : j <= i, Unchanged(c, T \ {i}, q)
      PROVE  Unchanged(c, T, BlockTurn(c, q, s[i]))
  BY <1>3, <1>5 DEF Unchanged, BlockTurn, ApplyBlock, ObjInv
<1>6. Unchanged(c, 1..n, OverBlocks!OverSequence(c, o, s))
  BY <1>2, <1>4, <1>5, OverBlocks!SequenceInduction
<1>7. Unchanged(c, 1..n, ApplyBlocks(o, p))
  BY <1>1, <1>6
<1> QED BY <1>3, <1>7, OtherPartFollows DEF Unchanged

----------------------------------------------------------------------------
(***************************************************************************)
(* What the analysis found: Analysed and ApplyAnalysis.                    *)
(***************************************************************************)
LEMMA FixedSymbol ==
  ASSUME NEW name, NEW section \in Nat, NEW addr \in Int, NEW size, NEW kind, NEW scope
  PROVE  /\ IsSymbol(Fixed(name, section, addr, size, kind, scope))
         /\ Fixed(name, section, addr, size, kind, scope).name = name
         /\ Fixed(name, section, addr, size, kind, scope).addr = addr
         /\ Fixed(name, section, addr, size, kind, scope).section = section
         /\ Fixed(name, section, addr, size, kind, scope).size = size
BY DEF Fixed, IsSymbol

\* A symbol that the analysis knows by name.
IsKnown(sym) == IsSymbol(sym) /\ sym.size \in Nat
KnownSymbols(syms) == IsSequence(syms) /\ \A n \in DOMAIN syms : IsKnown(syms[n])

LEMMA KnownConcatenated ==
  ASSUME NEW s, KnownSymbols(s), NEW u, KnownSymbols(u)
  PROVE  KnownSymbols(s \o u)
<1>1. IsSequence(s \o u) /\ Range(s \o u) = Range(s) \cup Range(u)
  BY Concatenated DEF KnownSymbols
<1>2. \A n \in DOMAIN (s \o u) : (s \o u)[n] \in Range(s) \cup Range(u)
  BY <1>1 DEF Range
<1>3. \A sym \in Range(s) \cup Range(u) : IsKnown(sym)
  BY DEF Range, KnownSymbols
<1> QED BY <1>1, <1>2, <1>3 DEF KnownSymbols

LEMMA KnownOne ==
  ASSUME NEW sym, IsKnown(sym)
  PROVE  KnownSymbols(<<sym>>)
<1>1. <<sym>> \in Seq({sym}) /\ DOMAIN <<sym>> = {1} /\ <<sym>>[1] = sym
  OBVIOUS
<1> QED BY <1>1, SequenceIn DEF KnownSymbols

LEMMA SledSymbolsKnown ==
  ASSUME NEW sled, sled.at \in Addresses, {sled.first, sled.last} \subseteq Int,
         sled.first <= sled.last, sled.step \in Nat
  PROVE  KnownSymbols(SledSymbols(sled)) /\ SledSize(sled) \in Nat
<1> DEFINE n == sled.last - sled.first
           first == Fixed(sled.name, sled.at[1], sled.at[2], SledSize(sled), "function", "global")
           label == [m \in 1..n |-> Fixed(<<sled.label, sled.first + m - 1>>, sled.at[1],
                                          sled.at[2] + (m - 1) * sled.step, 0, "label", "global")]
<1>1. n \in Nat /\ sled.at[1] \in Nat /\ sled.at[2] \in Int
  BY DEF Addresses
<1>2. n * sled.step \in Nat
  <2> HIDE DEF n
  <2> QED BY <1>1
<1>3. SledSize(sled) \in Nat
  BY <1>2 DEF SledSize
<1>4. IsKnown(first)
  BY <1>1, <1>3, FixedSymbol DEF IsKnown
<1>5. ASSUME NEW m \in 1..n
      PROVE  IsKnown(label[m])
  <2>1. (m - 1) * sled.step \in Int
    <3>1. m - 1 \in Int
      BY <1>1
    <3> QED BY <3>1
  <2> DEFINE addr == sled.at[2] + (m - 1) * sled.step
  <2>2. addr \in Int
    BY <1>1, <2>1
  <2>3. label[m] = Fixed(<<sled.label, sled.first + m - 1>>, sled.at[1], addr, 0, "label", "global")
    OBVIOUS
  <2> HIDE DEF label, addr
  <2> QED BY <1>1, <2>2, <2>3, FixedSymbol DEF IsKnown
<1>6. KnownSymbols(label)
  <2>1. IsSequence(label) /\ DOMAIN label = 1..n
    <3>1. label = [m \in 1..n |-> label[m]]
      OBVIOUS
    <3> HIDE DEF label, n
    <3> QED BY <1>1, <3>1, IsSequenceOf
  <2> QED BY <1>5, <2>1 DEF KnownSymbols
<1> HIDE DEF first, label
<1>7. KnownSymbols(<<first>> \o label)
  BY <1>4, <1>6, KnownOne, KnownConcatenated
<1> QED BY <1>3, <1>7 DEF SledSymbols, first, label

\* The loops that make up the symbols.
SledTurn(c, syms, sled) == syms \o SledSymbols(sled)
SymbolsKnown(c, T, syms) == KnownSymbols(syms)
OverSleds == INSTANCE Loops WITH Turn <- SledTurn, Less <- NoOrder, Holds <- SymbolsKnown

ListTurn(sections, syms, i) == Append(syms, Fixed(Lists[sections[i]], i, 0, 0, "label", "global"))
OverLists == INSTANCE Loops WITH Turn <- ListTurn, Less <- Smaller, Holds <- SymbolsKnown

LEMMA SledsKnown ==
  ASSUME NEW sleds, IsSequence(sleds),
         \A sled \in Range(sleds) : KnownSymbols(SledSymbols(sled))
  PROVE  KnownSymbols(FoundSleds(sleds))
<1> DEFINE n == Len(sleds)
<1>1. FoundSleds(sleds) = OverSleds!OverSequence(0, <<>>, sleds)
  BY DEF FoundSleds, FoldLeft, MapThenFoldSet, Max, OverSleds!OverSequence, OverSleds!FoldLeft,
         OverSleds!MapThenFoldSet, OverSleds!Max, SledTurn
<1>2. n \in Nat /\ DOMAIN sleds = 1..n /\ \A i \in 1..n : sleds[i] \in Range(sleds)
  BY SequenceShape
<1> HIDE DEF n
<1>3. SymbolsKnown(0, {}, <<>>)
  BY EmptySequence DEF SymbolsKnown, KnownSymbols
<1>4. ASSUME NEW T \in SUBSET (1..n), NEW i \in T, NEW syms, \A j \in T : j <= i,
             SymbolsKnown(0, T \ {i}, syms)
      PROVE  SymbolsKnown(0, T, SledTurn(0, syms, sleds[i]))
  <2>1. sleds[i] \in Range(sleds)
    BY <1>2
  <2> QED BY <2>1, <1>4, KnownConcatenated DEF SymbolsKnown, SledTurn
<1>5. SymbolsKnown(0, 1..n, OverSleds!OverSequence(0, <<>>, sleds))
  BY <1>2, <1>3, <1>4, OverSleds!SequenceInduction
<1> QED BY <1>1, <1>5 DEF SymbolsKnown

LEMMA ListSymbolsKnown ==
  ASSUME NEW sections, IsFiniteSet(DOMAIN sections), DOMAIN sections \subseteq Nat
  PROVE  KnownSymbols(ListSymbols(sections))
<1> DEFINE S == {i \in DOMAIN sections : sections[i] \in DOMAIN Lists}
<1>1. ListSymbols(sections) = OverLists!InOrder(sections, <<>>, S)
  BY DEF ListSymbols, FoldInOrder, MapThenFoldSet, OverLists!InOrder, OverLists!MapThenFoldSet,
         ListTurn, Smaller
<1>2. IsFiniteSet(S) /\ S \subseteq Nat
  BY FS_Subset
<1> HIDE DEF S
<1>3. SymbolsKnown(sections, {}, <<>>)
  BY EmptySequence DEF SymbolsKnown, KnownSymbols
<1>4. ASSUME NEW T \in SUBSET S, NEW i \in T, NEW syms, \A j \in T \ {i} : Smaller(sections, j, i),
             SymbolsKnown(sections, T \ {i}, syms)
      PROVE  SymbolsKnown(sections, T, ListTurn(sections, syms, i))
  <2> DEFINE sym == Fixed(Lists[sections[i]], i, 0, 0, "label", "global")
  <2>1. IsKnown(sym)
    <3>1. i \in Nat
      BY <1>2
    <3> QED BY <3>1, FixedSymbol DEF IsKnown
  <2> HIDE DEF sym
  <2>2. KnownSymbols(syms)
    BY <1>4 DEF SymbolsKnown
  <2>3. IsSequence(Append(syms, sym)) /\ Len(Append(syms, sym)) = Len(syms) + 1
        /\ \A n \in 1..Len(syms) : Append(syms, sym)[n] = syms[n]
        /\ Append(syms, sym)[Len(syms) + 1] = sym
    BY <2>2, Appended DEF KnownSymbols
  <2>4. Len(syms) \in Nat /\ DOMAIN syms = 1..Len(syms)
        /\ DOMAIN Append(syms, sym) = 1..Len(syms) + 1
    BY <2>2, <2>3, SequenceShape DEF KnownSymbols
  <2>5. ASSUME NEW n \in 1..Len(syms) + 1
        PROVE  IsKnown(Append(syms, sym)[n])
    <3>1. CASE n \in 1..Len(syms)
      BY <3>1, <2>2, <2>3, <2>4 DEF KnownSymbols
    <3>2. CASE n = Len(syms) + 1
      BY <3>2, <2>1, <2>3
    <3> QED BY <3>1, <3>2, <2>4
  <2>6. KnownSymbols(Append(syms, sym))
    BY <2>3, <2>4, <2>5 DEF KnownSymbols
  <2> QED BY <2>6 DEF SymbolsKnown, ListTurn, sym
<1>5. OverLists!IsFiniteSet(S)
  BY <1>2 DEF IsFiniteSet, OverLists!IsFiniteSet
<1>6. OverLists!Ordered(sections, S)
  BY <1>2 DEF OverLists!Ordered, Smaller
<1>7. SymbolsKnown(sections, S, OverLists!InOrder(sections, <<>>, S))
  BY <1>3, <1>4, <1>5, <1>6, OverLists!OrderInduction
<1> QED BY <1>1, <1>7 DEF SymbolsKnown

\* The first of some addresses is the last in the opposite order.
AddressAfter(c, x, y) == Before(y, x)
Backwards == INSTANCE Loops WITH Turn <- NoOrder, Less <- AddressAfter, Holds <- NoOrder

LEMMA FirstAddress ==
  ASSUME NEW S, S \subseteq Addresses, IsFiniteSet(S), S # {}
  PROVE  \E a \in S : \A b \in S \ {a} : Before(a, b)
<1>1. Backwards!IsFiniteSet(S)
  BY DEF IsFiniteSet, Backwards!IsFiniteSet
<1>2. Backwards!Ordered(0, S)
  BY AddressesOrdered DEF Backwards!Ordered, AddressAfter
<1>3. \E a \in S : \A b \in S \ {a} : AddressAfter(0, b, a)
  BY <1>1, <1>2, Backwards!LastExists
<1> QED BY <1>3 DEF AddressAfter

LEMMA TableSymbolsKnown ==
  ASSUME NEW functions, IsFiniteSet(DOMAIN functions), DOMAIN functions \subseteq Addresses, NEW headers
  PROVE  KnownSymbols(TableSymbols(functions, headers))
<1> DEFINE at == {a \in DOMAIN functions \cap headers : functions[a] = None}
           start == CHOOSE a \in at : \A b \in at \ {a} : Before(a, b)
           table == Fixed(<<"gTRKInterruptVectorTable">>, start[1], start[2], 0, "label", "global")
           end == Fixed(<<"gTRKInterruptVectorTableEnd">>, start[1], start[2] + TableSize, 0,
                        "label", "global")
<1>1. TableSymbols(functions, headers) = IF at = {} THEN <<>> ELSE <<table, end>>
  BY DEF TableSymbols
<1>2. CASE at = {}
  BY <1>1, <1>2, EmptySequence DEF KnownSymbols
<1>3. CASE at # {}
  <2>1. at \subseteq Addresses /\ IsFiniteSet(at)
    BY FS_Subset
  <2>2. start \in at
    <3> HIDE DEF at
    <3>1. \E a \in at : \A b \in at \ {a} : Before(a, b)
      BY <1>3, <2>1, FirstAddress
    <3> QED BY <3>1
  <2>3. start[1] \in Nat /\ start[2] \in Int /\ start[2] + TableSize \in Int
    BY <2>1, <2>2, TableSizeAssumption DEF Addresses
  <2> HIDE DEF start
  <2>4. IsKnown(table) /\ IsKnown(end)
    BY <2>3, FixedSymbol DEF IsKnown
  <2> DEFINE both == <<table, end>>
  <2>5. both \in Seq({table, end}) /\ DOMAIN both = {1, 2} /\ both[1] = table /\ both[2] = end
    <3> HIDE DEF table, end
    <3> QED OBVIOUS
  <2> HIDE DEF table, end
  <2>6. KnownSymbols(both)
    <3> HIDE DEF both
    <3> QED BY <2>4, <2>5, SequenceIn DEF KnownSymbols
  <2> QED BY <1>1, <1>3, <2>6
<1> QED BY <1>2, <1>3

LEMMA FoundSections ==
  ASSUME NEW o, ObjInv(o), NEW p, NEW functions
  PROVE  /\ IsFiniteSet(DOMAIN RelSections(o, p, functions))
         /\ DOMAIN RelSections(o, p, functions) \subseteq Nat
<1> DEFINE S == DOMAIN o.sections
<1>1. Len(o.sections) \in Nat /\ S = 1..Len(o.sections)
  BY SequenceShape DEF ObjInv, SectionsInv
<1>2. \A sections, first, second : sections \subseteq S => DOMAIN Pair(sections, first, second) \subseteq S
  BY EmptySequence DEF Pair
<1> DEFINE lists == IF {".ctors", ".dtors"} \cap {o.sections[i].name : i \in DOMAIN o.sections} # {}
                    THEN <<>>
                    ELSE Pair({i \in DOMAIN o.sections : IsList(o, p, functions, i)},
                              ".ctors", ".dtors")
           left == {i \in DOMAIN o.sections \ DOMAIN lists :
                      ~o.sections[i].known /\ IsData(o.sections[i].kind)}
           data == IF {".rodata", ".data"} \cap {o.sections[i].name : i \in DOMAIN o.sections} # {}
                   THEN <<>> ELSE Pair(left, ".rodata", ".data")
<1>3. DOMAIN lists \subseteq S
  <2>1. {i \in DOMAIN o.sections : IsList(o, p, functions, i)} \subseteq S
    OBVIOUS
  <2> QED BY <1>2, <2>1, EmptySequence
<1>4. DOMAIN data \subseteq S
  <2>1. left \subseteq S
    OBVIOUS
  <2> HIDE DEF left
  <2> QED BY <1>2, <2>1, EmptySequence
<1>5. DOMAIN RelSections(o, p, functions) = DOMAIN lists \cup DOMAIN data
  BY DEF RelSections
<1> HIDE DEF lists, data
<1>6. IsFiniteSet(S)
  BY <1>1, FS_Interval
<1> QED BY <1>1, <1>3, <1>4, <1>5, <1>6, FS_Subset

\* What a function has for the elements of a finite set.
LEMMA FiniteImage ==
  ASSUME NEW S, IsFiniteSet(S), NEW f
  PROVE  IsFiniteSet({f[x] : x \in S})
<1> DEFINE T == {f[x] : x \in S}
           g == [x \in S |-> f[x]]
<1>1. g \in Surjection(S, T)
  BY DEF Surjection
<1> HIDE DEF g, T
<1>2. IsFiniteSet(T)
  BY <1>1, FS_Surjection
<1> QED BY <1>2 DEF T

LEMMA DetectedFunctions ==
  ASSUME NEW o, ObjInv(o), NEW p \in Programs
  PROVE  IsFiniteSet(DOMAIN Detected(o, p)) /\ DOMAIN Detected(o, p) \subseteq Addresses
<1> DEFINE syms == {i \in DOMAIN o.t.symbols :
                      o.t.symbols[i].kind = "function" /\ o.t.symbols[i].section # None}
           at(i) == <<o.t.symbols[i].section, o.t.symbols[i].addr>>
           A == {at(i) : i \in syms}
           S == {k.at : k \in Range(p.sleds)}
<1>1. DOMAIN Detected(o, p) = A \cup S \cup DOMAIN p.found
  <2>1. DOMAIN KnownFunctions(o, p) = A \cup S
    BY DEF KnownFunctions
  <2>2. DOMAIN Detected(o, p) = DOMAIN KnownFunctions(o, p) \cup DOMAIN p.found
    BY DEF Detected
  <2> QED BY <2>1, <2>2
<1>2. IsFiniteSet(A) /\ A \subseteq Addresses
  <2>1. Len(o.t.symbols) \in Nat /\ DOMAIN o.t.symbols = 1..Len(o.t.symbols)
    BY SequenceShape DEF ObjInv, TableInv
  <2>2. IsFiniteSet(DOMAIN o.t.symbols)
    BY <2>1, FS_Interval
  <2>3. IsFiniteSet(syms)
    BY <2>2, FS_Subset
  <2>4. \A i \in syms : at(i) \in Addresses
    BY DEF ObjInv, TableInv, IsSymbol, Addresses
  <2>5. A = {Places(o.t)[i] : i \in syms}
    BY DEF Places
  <2> HIDE DEF syms, A
  <2>6. IsFiniteSet(A)
    BY <2>3, <2>5, FiniteImage
  <2> QED BY <2>4, <2>6 DEF A
<1>3. IsFiniteSet(S) /\ S \subseteq Addresses
  <2> DEFINE n == Len(p.sleds)
  <2>1. IsSequence(p.sleds) /\ \A k \in Range(p.sleds) : k.at \in Addresses
    BY ProgramsAssumption
  <2>2. n \in Nat /\ DOMAIN p.sleds = 1..n
    BY <2>1, SequenceShape
  <2> DEFINE f == [i \in 1..n |-> p.sleds[i].at]
  <2>3. S = {f[i] : i \in 1..n}
    BY <2>2 DEF Range
  <2>4. IsFiniteSet(1..n)
    BY <2>2, FS_Interval
  <2> HIDE DEF n, f
  <2>5. IsFiniteSet({f[i] : i \in 1..n})
    BY <2>4, FiniteImage
  <2> QED BY <2>1, <2>3, <2>5
<1>4. IsFiniteSet(DOMAIN p.found) /\ DOMAIN p.found \subseteq Addresses
  BY ProgramsAssumption
<1> HIDE DEF A, S
<1>5. IsFiniteSet(A \cup S \cup DOMAIN p.found)
  BY <1>2, <1>3, <1>4, FS_Union
<1> QED BY <1>1, <1>2, <1>3, <1>4, <1>5

LEMMA AnalysedKnown ==
  ASSUME NEW o, ObjInv(o), NEW p \in Programs
  PROVE  KnownSymbols(Analysed(o, p).symbols)
<1> DEFINE functions == Detected(o, p)
           sections == IF p.exe THEN <<>> ELSE RelSections(o, p, functions)
           sleds == FoundSleds(p.sleds)
           others == IF p.exe THEN TableSymbols(functions, p.headers) ELSE ListSymbols(sections)
<1>1. Analysed(o, p).symbols = sleds \o others
  BY DEF Analysed
<1>2. KnownSymbols(sleds)
  <2>1. /\ IsSequence(p.sleds)
        /\ \A sled \in Range(p.sleds) : /\ sled.at \in Addresses /\ {sled.first, sled.last} \subseteq Int
                                        /\ sled.first <= sled.last /\ sled.step \in Nat
    BY ProgramsAssumption
  <2> QED BY <2>1, SledSymbolsKnown, SledsKnown
<1>3. IsFiniteSet(DOMAIN functions) /\ DOMAIN functions \subseteq Addresses
  BY DetectedFunctions
<1> HIDE DEF functions, sleds
<1>4. KnownSymbols(others)
  <2>1. CASE p.exe
    BY <2>1, <1>3, TableSymbolsKnown
  <2>2. CASE ~p.exe
    BY <2>2, FoundSections, ListSymbolsKnown
  <2> QED BY <2>1, <2>2
<1> HIDE DEF others
<1> QED BY <1>1, <1>2, <1>4, KnownConcatenated

\* Functions and tables are added; they replace nothing that has a name.
FunctionTurn(c, q, at) ==
  IF ~Inside(q, at, c.functions[at]) THEN Stop(q)
  ELSE AddSymbol(q, Fixed(AutoName("fn", c.p, at[2]), at[1], at[2],
                          c.functions[at] - at[2], "function", "none"), FALSE)
OverFunctions == INSTANCE Loops WITH Turn <- FunctionTurn, Less <- AddressBefore, Holds <- FollowedByName

TableTurn(c, q, at) ==
  IF ~Inside(q, at, TableEnd(c.tables, at)) THEN Stop(q)
  ELSE AddSymbol(q, Fixed(TableName(c.p, at[1], at[2]), at[1], at[2],
                          TableEnd(c.tables, at) - at[2], "object", "local"), FALSE)
OverTables == INSTANCE Loops WITH Turn <- TableTurn, Less <- AddressBefore, Holds <- FollowedByName

\* One more turn of a loop, which follows from the turns before.
LEMMA OneMoreTurn ==
  ASSUME NEW c, NEW T, NEW q, FollowedByName(c, T, q), NEW U, NEW r,
         Follows(q, r), Renames(q.t, r.t)
  PROVE  FollowedByName(c, U, r)
<1>1. Grown(c.o.t, q.t)
  BY DEF FollowedByName, Follows
<1>2. Renames(c.o.t, r.t)
  BY <1>1, RenamesTransitive DEF FollowedByName
<1> QED BY <1>2, FollowsTransitive DEF FollowedByName

LEMMA StopRenames ==
  ASSUME NEW o, ObjInv(o)
  PROVE  Renames(o.t, Stop(o).t) /\ Relabels(o.t, Stop(o).t) /\ RelocsStay(o, Stop(o))
BY StopFollows DEF Renames, Relabels, RelocsStay

LEMMA FunctionsFollow ==
  ASSUME NEW o, ObjInv(o), NEW p, NEW functions,
         IsFiniteSet(DOMAIN functions), DOMAIN functions \subseteq Addresses
  PROVE  /\ Follows(o, ApplyFunctions(o, p, functions))
         /\ Renames(o.t, ApplyFunctions(o, p, functions).t)
<1> DEFINE c == [o |-> o, p |-> p, functions |-> functions]
           S == {a \in DOMAIN functions : functions[a] # None}
<1>1. ApplyFunctions(o, p, functions) = OverFunctions!InOrder(c, o, S)
  BY DEF ApplyFunctions, FoldInOrder, MapThenFoldSet, OverFunctions!InOrder,
         OverFunctions!MapThenFoldSet, FunctionTurn, AddressBefore
<1>2. IsFiniteSet(S) /\ S \subseteq Addresses
  BY FS_Subset
<1>3. c.o = o
  OBVIOUS
<1> HIDE DEF c, S
<1>4. FollowedByName(c, {}, o)
  BY <1>3, FollowsItself DEF FollowedByName
<1>5. ASSUME NEW T \in SUBSET S, NEW at \in T, NEW q, \A b \in T \ {at} : AddressBefore(c, b, at),
             FollowedByName(c, T \ {at}, q)
      PROVE  FollowedByName(c, T, FunctionTurn(c, q, at))
  <2> DEFINE sym == Fixed(AutoName("fn", c.p, at[2]), at[1], at[2], c.functions[at] - at[2],
                          "function", "none")
  <2>1. ObjInv(q)
    BY <1>5 DEF FollowedByName, Follows
  <2>2. IsSymbol(sym)
    <3>1. at[1] \in Nat /\ at[2] \in Int
      BY <1>2 DEF Addresses
    <3> QED BY <3>1, FixedSymbol
  <2>3. FunctionTurn(c, q, at) \in {Stop(q), AddSymbol(q, sym, FALSE)}
    BY DEF FunctionTurn
  <2> HIDE DEF sym
  <2>4. /\ Follows(q, Stop(q)) /\ Renames(q.t, Stop(q).t)
        /\ Follows(q, AddSymbol(q, sym, FALSE)) /\ Renames(q.t, AddSymbol(q, sym, FALSE).t)
    BY <2>1, <2>2, StopFollows, StopRenames, AddSymbolFollows, AddSymbolRenames
  <2> QED BY <1>5, <2>3, <2>4, OneMoreTurn
<1>6. OverFunctions!IsFiniteSet(S)
  BY <1>2 DEF IsFiniteSet, OverFunctions!IsFiniteSet
<1>7. OverFunctions!Ordered(c, S)
  BY <1>2, AddressesOrdered DEF OverFunctions!Ordered, AddressBefore
<1>8. FollowedByName(c, S, OverFunctions!InOrder(c, o, S))
  BY <1>4, <1>5, <1>6, <1>7, OverFunctions!OrderInduction
<1> QED BY <1>1, <1>3, <1>8 DEF FollowedByName

LEMMA TablesFollow ==
  ASSUME NEW o, ObjInv(o), NEW p, NEW tables,
         IsFiniteSet(DOMAIN tables), DOMAIN tables \subseteq Addresses
  PROVE  /\ Follows(o, ApplyTables(o, p, tables))
         /\ Renames(o.t, ApplyTables(o, p, tables).t)
<1> DEFINE c == [o |-> o, p |-> p, tables |-> tables]
           S == DOMAIN tables
<1>1. ApplyTables(o, p, tables) = OverTables!InOrder(c, o, S)
  BY DEF ApplyTables, FoldInOrder, MapThenFoldSet, OverTables!InOrder,
         OverTables!MapThenFoldSet, TableTurn, AddressBefore
<1>2. IsFiniteSet(S) /\ S \subseteq Addresses
  OBVIOUS
<1>3. c.o = o
  OBVIOUS
<1> HIDE DEF c, S
<1>4. FollowedByName(c, {}, o)
  BY <1>3, FollowsItself DEF FollowedByName
<1>5. ASSUME NEW T \in SUBSET S, NEW at \in T, NEW q, \A b \in T \ {at} : AddressBefore(c, b, at),
             FollowedByName(c, T \ {at}, q)
      PROVE  FollowedByName(c, T, TableTurn(c, q, at))
  <2> DEFINE sym == Fixed(TableName(c.p, at[1], at[2]), at[1], at[2], TableEnd(c.tables, at) - at[2],
                          "object", "local")
  <2>1. ObjInv(q)
    BY <1>5 DEF FollowedByName, Follows
  <2>2. IsSymbol(sym)
    <3>1. at[1] \in Nat /\ at[2] \in Int
      BY <1>2 DEF Addresses
    <3> QED BY <3>1, FixedSymbol
  <2>3. TableTurn(c, q, at) \in {Stop(q), AddSymbol(q, sym, FALSE)}
    BY DEF TableTurn
  <2> HIDE DEF sym
  <2>4. /\ Follows(q, Stop(q)) /\ Renames(q.t, Stop(q).t)
        /\ Follows(q, AddSymbol(q, sym, FALSE)) /\ Renames(q.t, AddSymbol(q, sym, FALSE).t)
    BY <2>1, <2>2, StopFollows, StopRenames, AddSymbolFollows, AddSymbolRenames
  <2> QED BY <1>5, <2>3, <2>4, OneMoreTurn
<1>6. OverTables!IsFiniteSet(S)
  BY <1>2 DEF IsFiniteSet, OverTables!IsFiniteSet
<1>7. OverTables!Ordered(c, S)
  BY <1>2, AddressesOrdered DEF OverTables!Ordered, AddressBefore
<1>8. FollowedByName(c, S, OverTables!InOrder(c, o, S))
  BY <1>4, <1>5, <1>6, <1>7, OverTables!OrderInduction
<1> QED BY <1>1, <1>3, <1>8 DEF FollowedByName

----------------------------------------------------------------------------
(***************************************************************************)
(* ApplyKnown: the symbols inside of one that is known lose their names.   *)
(***************************************************************************)
\* A loop over some symbols of a table has been through those in T.
Rewritten(c, T, t) ==
  /\ TableInv(t) /\ Grown(c.t, t) /\ t.exe = c.t.exe /\ DOMAIN t.symbols = DOMAIN c.t.symbols
  /\ \A i \in DOMAIN t.symbols : i \notin T => t.symbols[i].name = c.t.symbols[i].name

DeleteTurn(c, t, i) == Replace(t, i, Deleted(t.symbols[i]))
OverDeleted == INSTANCE Loops WITH Turn <- DeleteTurn, Less <- Smaller, Holds <- Rewritten

\* The symbol that is known is at the place of another one, or around it.
Covers(sym, other) ==
  other.section = sym.section /\ sym.addr <= other.addr /\ other.addr <= sym.addr + sym.size

\* Only what is known by name takes the place of a name, except of those that dtk made up.
RenamesBut(t, u, known) ==
  \A i \in DOMAIN t.symbols :
    \/ u.symbols[i].name = t.symbols[i].name \/ IsAuto(t.symbols[i])
    \/ \E sym \in known : Covers(sym, t.symbols[i])

LEMMA RenamesButTransitive ==
  ASSUME NEW t, NEW u, NEW w, NEW known, Grown(t, u), RenamesBut(t, u, known), RenamesBut(u, w, known)
  PROVE  RenamesBut(t, w, known)
BY DEF Grown, RenamesBut, IsAuto, Covers

LEMMA DeletedSymbol ==
  ASSUME NEW sym, IsSymbol(sym)
  PROVE  /\ IsSymbol(Deleted(sym)) /\ Deleted(sym).addr = sym.addr
         /\ Deleted(sym).section = sym.section
BY DEF Deleted, IsSymbol

LEMMA RewriteStep ==
  ASSUME NEW c, NEW T, NEW i, i \in DOMAIN c.t.symbols, NEW t, Rewritten(c, T \ {i}, t),
         NEW new, IsSymbol(new), new.addr = t.symbols[i].addr, new.section = t.symbols[i].section
  PROVE  Rewritten(c, T \cup {i}, Replace(t, i, new))
<1>1. TableInv(t) /\ Grown(c.t, t) /\ t.exe = c.t.exe /\ DOMAIN t.symbols = DOMAIN c.t.symbols
  BY DEF Rewritten
<1>2. /\ TableInv(Replace(t, i, new)) /\ Grown(t, Replace(t, i, new))
      /\ DOMAIN Replace(t, i, new).symbols = DOMAIN t.symbols
      /\ \A j \in DOMAIN t.symbols : j # i => Replace(t, i, new).symbols[j] = t.symbols[j]
      /\ Replace(t, i, new).exe = t.exe
  BY <1>1, ReplaceKeepsTable
<1>3. Grown(c.t, Replace(t, i, new))
  BY <1>1, <1>2, GrownTransitive
<1> QED BY <1>1, <1>2, <1>3 DEF Rewritten

LEMMA ClearedRewrites ==
  ASSUME NEW t, TableInv(t), NEW sym
  PROVE  /\ TableInv(Cleared(t, sym)) /\ Grown(t, Cleared(t, sym)) /\ Cleared(t, sym).exe = t.exe
         /\ \A i \in DOMAIN t.symbols :
              \/ Cleared(t, sym).symbols[i].name = t.symbols[i].name
              \/ /\ t.symbols[i].section = sym.section
                 /\ sym.addr < t.symbols[i].addr /\ t.symbols[i].addr < sym.addr + sym.size
<1> DEFINE c == [t |-> t]
           S == {i \in DOMAIN t.symbols :
                   /\ t.symbols[i].section = sym.section /\ t.symbols[i].kind = sym.kind
                   /\ sym.addr < t.symbols[i].addr /\ t.symbols[i].addr < sym.addr + sym.size}
           u == Cleared(t, sym)
<1>1. u = OverDeleted!InOrder(c, t, S)
  BY DEF Cleared, FoldInOrder, MapThenFoldSet, OverDeleted!InOrder, OverDeleted!MapThenFoldSet,
         DeleteTurn, Smaller
<1>2. c.t = t
  OBVIOUS
<1>3. S \subseteq DOMAIN t.symbols /\ IsFiniteSet(S) /\ S \subseteq Nat
  <2>1. Len(t.symbols) \in Nat /\ DOMAIN t.symbols = 1..Len(t.symbols)
    BY SequenceShape DEF TableInv
  <2>2. IsFiniteSet(DOMAIN t.symbols)
    BY <2>1, FS_Interval
  <2> QED BY <2>1, <2>2, FS_Subset
<1>4. \A i \in S : /\ t.symbols[i].section = sym.section
                   /\ sym.addr < t.symbols[i].addr /\ t.symbols[i].addr < sym.addr + sym.size
  OBVIOUS
<1> HIDE DEF c, S, u
<1>5. Rewritten(c, {}, t)
  BY <1>2 DEF Rewritten, Grown
<1>6. ASSUME NEW T \in SUBSET S, NEW i \in T, NEW w, \A j \in T \ {i} : Smaller(c, j, i),
             Rewritten(c, T \ {i}, w)
      PROVE  Rewritten(c, T, DeleteTurn(c, w, i))
  <2>1. i \in DOMAIN c.t.symbols /\ T = T \cup {i}
    BY <1>2, <1>3
  <2>2. IsSymbol(w.symbols[i])
    BY <2>1, <1>6 DEF Rewritten, TableInv
  <2>3. /\ IsSymbol(Deleted(w.symbols[i])) /\ Deleted(w.symbols[i]).addr = w.symbols[i].addr
        /\ Deleted(w.symbols[i]).section = w.symbols[i].section
    BY <2>2, DeletedSymbol
  <2>4. Rewritten(c, T \cup {i}, Replace(w, i, Deleted(w.symbols[i])))
    BY <2>1, <2>3, <1>6, RewriteStep
  <2> QED BY <2>1, <2>4 DEF DeleteTurn
<1>7. OverDeleted!IsFiniteSet(S)
  BY <1>3 DEF IsFiniteSet, OverDeleted!IsFiniteSet
<1>8. OverDeleted!Ordered(c, S)
  BY <1>3 DEF OverDeleted!Ordered, Smaller
<1>9. Rewritten(c, S, OverDeleted!InOrder(c, t, S))
  BY <1>5, <1>6, <1>7, <1>8, OverDeleted!OrderInduction
<1>10. Rewritten(c, S, u)
  BY <1>1, <1>9
<1>11. /\ TableInv(u) /\ Grown(t, u) /\ u.exe = t.exe /\ DOMAIN u.symbols = DOMAIN t.symbols
       /\ \A i \in DOMAIN t.symbols : i \notin S => u.symbols[i].name = t.symbols[i].name
  BY <1>2, <1>10 DEF Rewritten
<1> QED BY <1>4, <1>11 DEF u

LEMMA KnownFollows ==
  ASSUME NEW o, ObjInv(o), NEW sym, IsKnown(sym)
  PROVE  /\ Follows(o, ApplyKnown(o, sym))
         /\ RenamesBut(o.t, ApplyKnown(o, sym).t, {sym})
<1> DEFINE q == [o EXCEPT !.t = Cleared(@, sym)]
           r == AddSymbol(q, sym, TRUE)
<1>1. /\ DOMAIN q = DOMAIN o /\ q.t = Cleared(o.t, sym) /\ q.sections = o.sections
      /\ q.splits = o.splits /\ q.relocs = o.relocs /\ q.ok = o.ok
  BY DEF ObjInv
<1>2. ApplyKnown(o, sym) = r
  BY DEF ApplyKnown
<1> HIDE DEF q
<1>3. /\ TableInv(q.t) /\ Grown(o.t, q.t) /\ q.t.exe = o.t.exe
      /\ \A i \in DOMAIN o.t.symbols :
              \/ q.t.symbols[i].name = o.t.symbols[i].name
              \/ /\ o.t.symbols[i].section = sym.section
                 /\ sym.addr < o.t.symbols[i].addr /\ o.t.symbols[i].addr < sym.addr + sym.size
  <2> DEFINE u == Cleared(o.t, sym)
  <2>1. TableInv(o.t)
    BY DEF ObjInv
  <2>2. TableInv(u) /\ Grown(o.t, u) /\ u.exe = o.t.exe
    BY <2>1, ClearedRewrites
  <2>3. \A i \in DOMAIN o.t.symbols :
           \/ u.symbols[i].name = o.t.symbols[i].name
           \/ /\ o.t.symbols[i].section = sym.section
              /\ sym.addr < o.t.symbols[i].addr /\ o.t.symbols[i].addr < sym.addr + sym.size
    BY <2>1, ClearedRewrites
  <2> QED BY <1>1, <2>2, <2>3
<1>4. Follows(o, q)
  BY <1>1, <1>3, TableFollows
<1>5. ObjInv(q)
  BY <1>4 DEF Follows
<1>6. sym.addr \in Int /\ sym.size \in Nat /\ IsSymbol(sym)
  BY DEF IsKnown, IsSymbol
<1>7. /\ Follows(q, r)
      /\ r = Stop(q) \/ Joined(q.t, r.t, sym, TRUE)
  BY <1>5, <1>6, AddSymbolFollows
<1> HIDE DEF r
<1>8. Follows(o, r)
  BY <1>4, <1>7, FollowsTransitive
<1>9. RenamesBut(o.t, q.t, {sym})
  <2> SUFFICES ASSUME NEW i \in DOMAIN o.t.symbols, q.t.symbols[i].name # o.t.symbols[i].name
               PROVE  Covers(sym, o.t.symbols[i])
    BY DEF RenamesBut
  <2>1. o.t.symbols[i].addr \in Int
    BY DEF ObjInv, TableInv, IsSymbol
  <2> QED BY <2>1, <1>3, <1>6 DEF Covers
<1>10. RenamesBut(q.t, r.t, {sym})
  <2>1. CASE r = Stop(q)
    BY <2>1, <1>5, StopFollows DEF RenamesBut
  <2>2. CASE Joined(q.t, r.t, sym, TRUE)
    <3> DEFINE e == AddedIndex(q.t, sym)
    <3>1. /\ Grown(q.t, r.t)
          /\ \A i \in DOMAIN q.t.symbols : i # e => r.t.symbols[i] = q.t.symbols[i]
          /\ e \in DOMAIN q.t.symbols =>
               /\ r.t.symbols[e].section = sym.section
               /\ sym.section = None => q.t.symbols[e].name = sym.name
               /\ r.t.symbols[e].name \in {q.t.symbols[e].name, sym.name}
               /\ sym.section # None => q.t.symbols[e].addr = sym.addr
      <4>1. sym.section # None /\ e \in DOMAIN q.t.symbols => q.t.symbols[e].addr = sym.addr
        <5> SUFFICES ASSUME sym.section # None, e \in DOMAIN q.t.symbols
                     PROVE  q.t.symbols[e].addr = sym.addr
          OBVIOUS
        <5> DEFINE in == Normalized(sym)
        <5>1. IsSymbol(in) /\ in.addr = sym.addr /\ in.section = sym.section
          BY <1>6, NormalizedSymbol
        <5>2. Len(q.t.symbols) + 1 \notin DOMAIN q.t.symbols
          BY <1>3, SequenceShape DEF TableInv
        <5>3. e = Existing(q.t, in) /\ Existing(q.t, in) # None
          BY <5>2 DEF AddedIndex
        <5> HIDE DEF in, e
        <5> QED BY <5>1, <5>3, <1>3, ExistingSymbol
      <4> HIDE DEF e
      <4> QED BY <4>1, <2>2 DEF Joined, e
    <3> HIDE DEF e
    <3> SUFFICES ASSUME NEW i \in DOMAIN q.t.symbols, r.t.symbols[i].name # q.t.symbols[i].name
                 PROVE  Covers(sym, q.t.symbols[i])
      BY DEF RenamesBut
    <3>2. i = e
      BY <3>1
    <3>3. sym.section # None /\ q.t.symbols[e].addr = sym.addr
      BY <3>1, <3>2
    <3>4. q.t.symbols[e].section = sym.section
      BY <3>1, <3>2 DEF Grown
    <3> QED BY <3>2, <3>3, <3>4, <1>6 DEF Covers
  <2> QED BY <2>1, <2>2, <1>7
<1>11. RenamesBut(o.t, r.t, {sym})
  BY <1>3, <1>9, <1>10, RenamesButTransitive
<1> QED BY <1>2, <1>8, <1>11

----------------------------------------------------------------------------
(***************************************************************************)
(* ApplyAnalysis: the functions, the tables, and what is known by name.    *)
(***************************************************************************)
KnownTurn(c, q, n) == ApplyKnown(q, c.syms[n])
KnownOrder(c, m, n) == KnownBefore(c.syms, m, n)
FollowedByKnown(c, T, q) == Follows(c.o, q) /\ RenamesBut(c.o.t, q.t, Range(c.syms))
OverKnown == INSTANCE Loops WITH Turn <- KnownTurn, Less <- KnownOrder, Holds <- FollowedByKnown

LEMMA KnownOrdered ==
  ASSUME NEW syms, KnownSymbols(syms)
  PROVE  /\ \A m, n \in DOMAIN syms : m # n => KnownBefore(syms, m, n) \/ KnownBefore(syms, n, m)
         /\ \A l, m, n \in DOMAIN syms :
              KnownBefore(syms, l, m) /\ KnownBefore(syms, m, n) => KnownBefore(syms, l, n)
<1> DEFINE place == [n \in DOMAIN syms |-> <<syms[n].section, syms[n].addr>>]
           S == {place[n] : n \in DOMAIN syms}
<1>1. \A n \in DOMAIN syms : n \in Int /\ place[n] \in Addresses /\ place[n] \in S
  <2>1. Len(syms) \in Nat /\ DOMAIN syms = 1..Len(syms)
    BY SequenceShape DEF KnownSymbols
  <2> QED BY <2>1 DEF KnownSymbols, IsKnown, IsSymbol, Addresses
<1>2. S \subseteq Addresses
  BY <1>1
<1>3. \A m, n \in DOMAIN syms :
        KnownBefore(syms, m, n) <=> Before(place[m], place[n]) \/ (place[m] = place[n] /\ m < n)
  BY DEF KnownBefore
<1> HIDE DEF place, S
<1>4. /\ \A a, b \in S : a # b => Before(a, b) \/ Before(b, a)
      /\ \A a, b, d \in S : Before(a, b) /\ Before(b, d) => Before(a, d)
  BY <1>2, AddressesOrdered
<1>5. ASSUME NEW m \in DOMAIN syms, NEW n \in DOMAIN syms, m # n
      PROVE  KnownBefore(syms, m, n) \/ KnownBefore(syms, n, m)
  BY <1>1, <1>3, <1>4, <1>5
<1>6. ASSUME NEW l \in DOMAIN syms, NEW m \in DOMAIN syms, NEW n \in DOMAIN syms,
             KnownBefore(syms, l, m), KnownBefore(syms, m, n)
      PROVE  KnownBefore(syms, l, n)
  BY <1>1, <1>3, <1>4, <1>6
<1> QED BY <1>5, <1>6

LEMMA RenamesButMore ==
  ASSUME NEW t, NEW u, NEW known, NEW more, known \subseteq more, RenamesBut(t, u, known)
  PROVE  RenamesBut(t, u, more)
BY DEF RenamesBut

LEMMA AllKnownFollows ==
  ASSUME NEW o, ObjInv(o), NEW syms, KnownSymbols(syms)
  PROVE  /\ Follows(o, AllKnown(o, syms))
         /\ RenamesBut(o.t, AllKnown(o, syms).t, Range(syms))
<1> DEFINE c == [o |-> o, syms |-> syms]
           S == DOMAIN syms
<1>1. AllKnown(o, syms) = OverKnown!InOrder(c, o, S)
  BY DEF AllKnown, FoldInOrder, MapThenFoldSet, OverKnown!InOrder, OverKnown!MapThenFoldSet,
         KnownTurn, KnownOrder
<1>2. c.o = o /\ c.syms = syms
  OBVIOUS
<1>3. IsFiniteSet(S) /\ \A n \in S : IsKnown(syms[n]) /\ syms[n] \in Range(syms)
  <2>1. Len(syms) \in Nat /\ DOMAIN syms = 1..Len(syms)
    BY SequenceShape DEF KnownSymbols
  <2> QED BY <2>1, FS_Interval DEF KnownSymbols, Range
<1>4. OverKnown!IsFiniteSet(S)
  BY <1>3 DEF IsFiniteSet, OverKnown!IsFiniteSet
<1>5. OverKnown!Ordered(c, S)
  BY <1>2, KnownOrdered DEF OverKnown!Ordered, KnownOrder
<1> HIDE DEF c, S
<1>6. FollowedByKnown(c, {}, o)
  BY <1>2, FollowsItself DEF FollowedByKnown, RenamesBut
<1>7. ASSUME NEW T \in SUBSET S, NEW n \in T, NEW q, \A m \in T \ {n} : KnownOrder(c, m, n),
             FollowedByKnown(c, T \ {n}, q)
      PROVE  FollowedByKnown(c, T, KnownTurn(c, q, n))
  <2> DEFINE sym == syms[n]
             r == ApplyKnown(q, sym)
  <2>1. IsKnown(sym) /\ {sym} \subseteq Range(syms)
    BY <1>3
  <2>2. ObjInv(q) /\ Grown(o.t, q.t) /\ Follows(o, q) /\ RenamesBut(o.t, q.t, Range(syms))
    BY <1>2, <1>7 DEF FollowedByKnown, Follows
  <2>3. r = KnownTurn(c, q, n)
    BY <1>2 DEF KnownTurn
  <2> HIDE DEF sym
  <2>4. Follows(q, r) /\ RenamesBut(q.t, r.t, {sym})
    BY <2>1, <2>2, KnownFollows
  <2> HIDE DEF r
  <2>5. RenamesBut(q.t, r.t, Range(syms))
    BY <2>1, <2>4, RenamesButMore
  <2>6. Follows(o, r) /\ RenamesBut(o.t, r.t, Range(syms))
    BY <2>2, <2>4, <2>5, FollowsTransitive, RenamesButTransitive
  <2> QED BY <2>3, <2>6, <1>2 DEF FollowedByKnown
<1>8. FollowedByKnown(c, S, OverKnown!InOrder(c, o, S))
  BY <1>4, <1>5, <1>6, <1>7, OverKnown!OrderInduction
<1> QED BY <1>1, <1>2, <1>8 DEF FollowedByKnown

LEMMA AnalysisFollows ==
  ASSUME NEW o, ObjInv(o), NEW p \in Programs
  PROVE  /\ Follows(o, ApplyAnalysis(o, p))
         /\ RenamesBut(o.t, ApplyAnalysis(o, p).t, Range(Analysed(o, p).symbols))
<1> DEFINE found == Analysed(o, p)
           named == RenameSections(o, found.sections)
           functions == ApplyFunctions(named, p, found.functions)
           sized == ApplyTables(functions, p, found.tables)
           r == AllKnown(sized, found.symbols)
           known == Range(found.symbols)
<1>1. CASE ~p.exe /\ OneList(o)
  <2>1. ApplyAnalysis(o, p) = Stop(o)
    BY <1>1 DEF ApplyAnalysis
  <2>2. Renames(o.t, Stop(o).t)
    BY StopRenames
  <2> HIDE DEF found
  <2> QED BY <2>1, <2>2, StopFollows DEF Renames, RenamesBut
<1>2. CASE ~(~p.exe /\ OneList(o))
  <2>1. ApplyAnalysis(o, p) = r
    BY <1>2 DEF ApplyAnalysis
  <2>2. /\ found.functions = Detected(o, p) /\ found.tables = p.tables
    BY DEF Analysed
  <2>3. /\ IsFiniteSet(DOMAIN found.functions) /\ DOMAIN found.functions \subseteq Addresses
        /\ IsFiniteSet(DOMAIN found.tables) /\ DOMAIN found.tables \subseteq Addresses
    BY <2>2, DetectedFunctions, ProgramsAssumption
  <2>4. KnownSymbols(found.symbols)
    BY AnalysedKnown
  <2> HIDE DEF found
  <2>5. Follows(o, named) /\ named.t = o.t
    BY RenameSectionsFollows
  <2> HIDE DEF named
  <2>6. Follows(named, functions) /\ Renames(named.t, functions.t)
    BY <2>3, <2>5, FunctionsFollow DEF Follows
  <2> HIDE DEF functions
  <2>7. Follows(functions, sized) /\ Renames(functions.t, sized.t)
    BY <2>3, <2>6, TablesFollow DEF Follows
  <2> HIDE DEF sized
  <2>8. Follows(sized, r) /\ RenamesBut(sized.t, r.t, known)
    <3>1. ObjInv(sized)
      BY <2>7 DEF Follows
    <3> QED BY <3>1, <2>4, AllKnownFollows
  <2> HIDE DEF r, known
  <2>9. Follows(o, functions) /\ Renames(o.t, functions.t)
    BY <2>5, <2>6, FollowsTransitive
  <2>10. Follows(o, sized) /\ Renames(o.t, sized.t)
    <3>1. Grown(o.t, functions.t)
      BY <2>9 DEF Follows
    <3> QED BY <3>1, <2>7, <2>9, FollowsTransitive, RenamesTransitive
  <2>11. Follows(o, r) /\ RenamesBut(o.t, r.t, known)
    <3>1. Grown(o.t, sized.t) /\ RenamesBut(o.t, sized.t, known)
      BY <2>10 DEF Follows, Renames, RenamesBut
    <3> QED BY <3>1, <2>8, <2>10, FollowsTransitive, RenamesButTransitive
  <2> QED BY <2>1, <2>11 DEF known, found
<1> QED BY <1>1, <1>2

----------------------------------------------------------------------------
(***************************************************************************)
(* ApplySignatures: functions that are recognised, with their relocations. *)
(***************************************************************************)
LEMMA SignatureSymbolIs ==
  ASSUME NEW sym, NEW at \in Addresses
  PROVE  IsSymbol(SignatureSymbol(sym, at))
BY DEF SignatureSymbol, IsSymbol, Addresses, None

LEMMA ApplySymbolFollows ==
  ASSUME NEW o, ObjInv(o), NEW sym, NEW at \in Addresses
  PROVE  LET q == ApplySymbol(o, sym, at)
         IN  /\ Follows(o, q) /\ Renames(o.t, q.t)
             /\ q.ok => AddedIndex(o.t, SignatureSymbol(sym, at)) \in DOMAIN q.t.symbols
<1> DEFINE named == NamedBySignature(o, sym, at)
           new == SignatureSymbol(sym, at)
           q == AddSymbol(named, new, FALSE)
<1>1. ApplySymbol(o, sym, at) = q
  BY DEF ApplySymbol
<1>2. Follows(o, named) /\ named.t = o.t
  <2> DEFINE names == at[1] :> sym.in
  <2>1. named \in {o, RenameSections(o, names)}
    BY DEF NamedBySignature
  <2> HIDE DEF named, names
  <2> QED BY <2>1, RenameSectionsFollows, FollowsItself
<1>3. IsSymbol(new)
  BY SignatureSymbolIs
<1> HIDE DEF named, new
<1>4. ObjInv(named)
  BY <1>2 DEF Follows
<1>5. /\ Follows(named, q) /\ Renames(named.t, q.t)
      /\ q = Stop(named) \/ Joined(named.t, q.t, new, FALSE)
  BY <1>3, <1>4, AddSymbolFollows, AddSymbolRenames
<1>6. ~Stop(named).ok
  BY <1>4, StopFollows
<1> HIDE DEF q
<1>7. q.ok => AddedIndex(o.t, new) \in DOMAIN q.t.symbols
  BY <1>2, <1>5, <1>6 DEF Joined
<1> QED BY <1>1, <1>2, <1>5, <1>7, FollowsTransitive DEF new

LEMMA SignatureRelocFollows ==
  ASSUME NEW o, ObjInv(o), NEW match, NEW r, r.target \in Addresses, r.addend \in Int
  PROVE  /\ Follows(o, ApplySignatureReloc(o, match, r))
         /\ Renames(o.t, ApplySignatureReloc(o, match, r).t)
<1> DEFINE at == <<match.at[1], match.at[2] + r.offset>>
           to == <<r.target[1], r.target[2] - r.addend>>
           sym == SignatureSymbol(r.symbol, to)
           added == ApplySymbol(o, r.symbol, to)
           reloc == [kind |-> r.kind, symbol |-> AddedIndex(o.t, sym), addend |-> r.addend]
           q == [added EXCEPT !.relocs = Put(@, at, reloc)]
<1>1. to \in Addresses
  BY DEF Addresses
<1> HIDE DEF to
<1>2. /\ Follows(o, added) /\ Renames(o.t, added.t)
      /\ added.ok => AddedIndex(o.t, sym) \in DOMAIN added.t.symbols
  BY <1>1, ApplySymbolFollows
<1>3. CASE at \in DOMAIN o.relocs \/ ~added.ok
  <2>1. ApplySignatureReloc(o, match, r) = Stop(o)
    BY <1>3 DEF ApplySignatureReloc, to
  <2> QED BY <2>1, StopFollows, StopRenames
<1>4. CASE ~(at \in DOMAIN o.relocs \/ ~added.ok)
  <2>1. ApplySignatureReloc(o, match, r) = q
    BY <1>4 DEF ApplySignatureReloc, to
  <2>2. ObjInv(added) /\ reloc.symbol \in DOMAIN added.t.symbols /\ reloc.addend \in Int
    BY <1>2, <1>4 DEF Follows
  <2> HIDE DEF added, reloc, at
  <2>3. /\ DOMAIN q = DOMAIN added /\ q.t = added.t /\ q.sections = added.sections
        /\ q.splits = added.splits /\ q.ok = added.ok /\ q.relocs = Put(added.relocs, at, reloc)
    BY <2>2 DEF ObjInv
  <2> HIDE DEF q
  <2>4. PutsReloc(added, q, at, reloc)
    BY <2>2, <2>3 DEF PutsReloc
  <2>5. Follows(added, q)
    BY <2>2, <2>4, RelocFollows
  <2> QED BY <2>1, <2>3, <2>5, <1>2, FollowsTransitive
<1> QED BY <1>3, <1>4

SignatureRelocTurn(c, q, r) == ApplySignatureReloc(q, c.match, r)
OverSignatureRelocs ==
  INSTANCE Loops WITH Turn <- SignatureRelocTurn, Less <- NoOrder, Holds <- FollowedByName

IsMatch(match) ==
  /\ match.at \in Addresses /\ IsSequence(match.relocs)
  /\ \A r \in Range(match.relocs) : r.target \in Addresses /\ r.addend \in Int

LEMMA SignatureRelocsFollow ==
  ASSUME NEW o, ObjInv(o), NEW match, IsMatch(match)
  PROVE  /\ Follows(o, ApplySignatureRelocs(o, match))
         /\ Renames(o.t, ApplySignatureRelocs(o, match).t)
<1> DEFINE c == [o |-> o, match |-> match]
           s == match.relocs
           n == Len(s)
<1>1. ApplySignatureRelocs(o, match) = OverSignatureRelocs!OverSequence(c, o, s)
  BY DEF ApplySignatureRelocs, FoldLeft, MapThenFoldSet, Max, OverSignatureRelocs!OverSequence,
         OverSignatureRelocs!FoldLeft, OverSignatureRelocs!MapThenFoldSet, OverSignatureRelocs!Max,
         SignatureRelocTurn
<1>2. n \in Nat /\ DOMAIN s = 1..n /\ \A i \in 1..n : s[i].target \in Addresses /\ s[i].addend \in Int
  BY SequenceShape DEF IsMatch
<1>3. c.o = o /\ c.match = match
  OBVIOUS
<1> HIDE DEF c, n, s
<1>4. FollowedByName(c, {}, o)
  BY <1>3, FollowsItself DEF FollowedByName
<1>5. ASSUME NEW T \in SUBSET (1..n), NEW i \in T, NEW q, \A j \in T : j <= i,
             FollowedByName(c, T \ {i}, q)
      PROVE  FollowedByName(c, T, SignatureRelocTurn(c, q, s[i]))
  <2> DEFINE r == ApplySignatureReloc(q, match, s[i])
  <2>1. ObjInv(q)
    BY <1>5 DEF FollowedByName, Follows
  <2>2. Follows(q, r) /\ Renames(q.t, r.t)
    BY <1>2, <2>1, SignatureRelocFollows
  <2>3. SignatureRelocTurn(c, q, s[i]) = r
    BY <1>3 DEF SignatureRelocTurn
  <2> QED BY <1>5, <2>2, <2>3, OneMoreTurn
<1>6. FollowedByName(c, 1..n, OverSignatureRelocs!OverSequence(c, o, s))
  BY <1>2, <1>4, <1>5, OverSignatureRelocs!SequenceInduction
<1> QED BY <1>1, <1>3, <1>6 DEF FollowedByName

LEMMA SignatureFollows ==
  ASSUME NEW o, ObjInv(o), NEW match, IsMatch(match)
  PROVE  /\ Follows(o, ApplySignature(o, match))
         /\ Renames(o.t, ApplySignature(o, match).t)
<1> DEFINE named == ApplySymbol(o, match.symbol, match.at)
           q == ApplySignatureRelocs(named, match)
<1>1. Follows(o, named) /\ Renames(o.t, named.t)
  BY ApplySymbolFollows DEF IsMatch
<1>2. ApplySignature(o, match) \in {o, q}
  BY DEF ApplySignature
<1> HIDE DEF named
<1>3. ObjInv(named) /\ Grown(o.t, named.t)
  BY <1>1 DEF Follows
<1>4. Follows(named, q) /\ Renames(named.t, q.t)
  BY <1>3, SignatureRelocsFollow
<1> HIDE DEF q
<1>5. Follows(o, q) /\ Renames(o.t, q.t)
  BY <1>1, <1>3, <1>4, FollowsTransitive, RenamesTransitive
<1> QED BY <1>2, <1>5, FollowsItself

SignatureTurn(c, q, match) == ApplySignature(q, match)
OverSignatures ==
  INSTANCE Loops WITH Turn <- SignatureTurn, Less <- NoOrder, Holds <- FollowedByName

LEMMA SignaturesFollow ==
  ASSUME NEW o, ObjInv(o), NEW p \in Programs
  PROVE  Follows(o, ApplySignatures(o, p)) /\ Renames(o.t, ApplySignatures(o, p).t)
<1> DEFINE c == [o |-> o]
           s == p.matches
           n == Len(s)
<1>1. ApplySignatures(o, p) = OverSignatures!OverSequence(c, o, s)
  BY DEF ApplySignatures, FoldLeft, MapThenFoldSet, Max, OverSignatures!OverSequence,
         OverSignatures!FoldLeft, OverSignatures!MapThenFoldSet, OverSignatures!Max, SignatureTurn
<1>2. n \in Nat /\ DOMAIN s = 1..n /\ \A i \in 1..n : IsMatch(s[i])
  <2>1. IsSequence(s) /\ \A match \in Range(s) : IsMatch(match)
    BY ProgramsAssumption DEF IsMatch
  <2> HIDE DEF s
  <2> QED BY <2>1, SequenceShape
<1>3. c.o = o
  OBVIOUS
<1> HIDE DEF c, n, s
<1>4. FollowedByName(c, {}, o)
  BY <1>3, FollowsItself DEF FollowedByName
<1>5. ASSUME NEW T \in SUBSET (1..n), NEW i \in T, NEW q, \A j \in T : j <= i,
             FollowedByName(c, T \ {i}, q)
      PROVE  FollowedByName(c, T, SignatureTurn(c, q, s[i]))
  <2>1. ObjInv(q)
    BY <1>5 DEF FollowedByName, Follows
  <2>2. Follows(q, ApplySignature(q, s[i])) /\ Renames(q.t, ApplySignature(q, s[i]).t)
    BY <1>2, <2>1, SignatureFollows
  <2> QED BY <1>5, <2>2, OneMoreTurn DEF SignatureTurn
<1>6. FollowedByName(c, 1..n, OverSignatures!OverSequence(c, o, s))
  BY <1>2, <1>4, <1>5, OverSignatures!SequenceInduction
<1> QED BY <1>1, <1>3, <1>6 DEF FollowedByName

----------------------------------------------------------------------------
(***************************************************************************)
(* UpdateLists and ApplyAll: labels and relocations are added.             *)
(***************************************************************************)
LEMMA AddDirectFollows ==
  ASSUME NEW o, ObjInv(o), NEW sym, IsSymbol(sym), NEW q, DOMAIN q = DOMAIN o,
         q.sections = o.sections, q.splits = o.splits, q.relocs = o.relocs, q.ok = o.ok,
         q.t = AddDirect(o.t, sym)
  PROVE  /\ Follows(o, q) /\ Relabels(o.t, q.t) /\ Renames(o.t, q.t)
         /\ Len(o.t.symbols) + 1 \in DOMAIN q.t.symbols
         /\ q.t.symbols[Len(o.t.symbols) + 1].name = sym.name
         /\ q.t.symbols[Len(o.t.symbols) + 1].addr = sym.addr
         /\ \A j \in DOMAIN o.t.symbols : q.t.symbols[j] = o.t.symbols[j]
<1>1. TableInv(o.t)
  BY DEF ObjInv
<1>2. /\ TableInv(q.t) /\ Grown(o.t, q.t) /\ q.t.exe = o.t.exe
      /\ DOMAIN q.t.symbols = DOMAIN o.t.symbols \cup {Len(o.t.symbols) + 1}
      /\ q.t.symbols[Len(o.t.symbols) + 1] = Normalized(sym)
      /\ \A j \in DOMAIN o.t.symbols : q.t.symbols[j] = o.t.symbols[j]
  BY <1>1, AddDirectKeepsTable
<1>3. Normalized(sym).name = sym.name /\ Normalized(sym).addr = sym.addr
  BY NormalizedSymbol
<1>4. Follows(o, q)
  BY <1>2, TableFollows
<1> QED BY <1>2, <1>3, <1>4 DEF Relabels, Renames

LEMMA SectionNamedIs ==
  ASSUME NEW o, ObjInv(o), NEW name
  PROVE  SectionNamed(o, name) = 0 \/ SectionNamed(o, name) \in DOMAIN o.sections
<1> DEFINE n == Len(o.sections)
           found == {i \in 1..n : o.sections[i].name = name}
<1>1. n \in Nat /\ DOMAIN o.sections = 1..n
  BY SequenceShape DEF ObjInv, SectionsInv
<1>2. SectionNamed(o, name) = IF found # {} THEN Min(found) ELSE 0
  BY DEF SectionNamed, SelectInSeq
<1>3. found \subseteq 1..n
  OBVIOUS
<1>4. found # {} => Min(found) \in found
  <2>1. found \subseteq Nat
    BY <1>1, <1>3
  <2> HIDE DEF found
  <2> QED BY <2>1, MinOfNaturals
<1> HIDE DEF found, n
<1> QED BY <1>1, <1>2, <1>3, <1>4

LEMMA UpdateListFollows ==
  ASSUME NEW o, ObjInv(o), NEW name
  PROVE  Follows(o, UpdateList(o, name)) /\ Renames(o.t, UpdateList(o, name).t)
<1> DEFINE i == SectionNamed(o, name)
           sym == Fixed(Lists[name], i, o.sections[i].start, 0, "label", "global")
           q == [o EXCEPT !.t = AddDirect(@, sym)]
<1>1. UpdateList(o, name) \in {o, Stop(o), q}
  BY DEF UpdateList
<1>2. i = 0 => UpdateList(o, name) \in {o, Stop(o)}
  BY DEF UpdateList
<1>3. Follows(o, o) /\ Renames(o.t, o.t) /\ Follows(o, Stop(o)) /\ Renames(o.t, Stop(o).t)
  BY FollowsItself, StopFollows, StopRenames
<1>4. CASE i # 0
  <2>1. i \in Nat /\ o.sections[i].start \in Int
    <3>1. i \in DOMAIN o.sections
      BY <1>4, SectionNamedIs
    <3>2. Len(o.sections) \in Nat /\ DOMAIN o.sections = 1..Len(o.sections)
      BY SequenceShape DEF ObjInv, SectionsInv
    <3> HIDE DEF i
    <3> QED BY <3>1, <3>2 DEF ObjInv, SectionsInv
  <2> HIDE DEF i
  <2>2. IsSymbol(sym)
    BY <2>1, FixedSymbol
  <2> HIDE DEF sym
  <2>3. /\ DOMAIN q = DOMAIN o /\ q.sections = o.sections /\ q.splits = o.splits
        /\ q.relocs = o.relocs /\ q.ok = o.ok /\ q.t = AddDirect(o.t, sym)
    BY DEF ObjInv
  <2> HIDE DEF q
  <2>4. Follows(o, q) /\ Renames(o.t, q.t)
    BY <2>2, <2>3, AddDirectFollows
  <2> QED BY <2>4, <1>1, <1>3
<1> QED BY <1>2, <1>3, <1>4

LEMMA ListsFollow ==
  ASSUME NEW o, ObjInv(o)
  PROVE  Follows(o, UpdateLists(o)) /\ Renames(o.t, UpdateLists(o).t)
<1> DEFINE q == UpdateList(o, ".ctors")
           r == UpdateList(q, ".dtors")
<1>1. Follows(o, q) /\ Renames(o.t, q.t)
  BY UpdateListFollows
<1> HIDE DEF q
<1>2. ObjInv(q) /\ Grown(o.t, q.t)
  BY <1>1 DEF Follows
<1>3. Follows(q, r) /\ Renames(q.t, r.t)
  BY <1>2, UpdateListFollows
<1> HIDE DEF r
<1>4. Follows(o, r) /\ Renames(o.t, r.t)
  BY <1>1, <1>2, <1>3, FollowsTransitive, RenamesTransitive
<1> QED BY <1>4 DEF UpdateLists, q, r

\* The relocation r of the configuration is in the object.
HasAdded(o, r) ==
  /\ r.at \in DOMAIN o.relocs /\ o.relocs[r.at].kind = r.kind /\ o.relocs[r.at].addend = r.addend
  /\ \/ o.t.symbols[o.relocs[r.at].symbol].name = r.name
     \/ IsAuto(o.t.symbols[o.relocs[r.at].symbol])

\* Of those at one place, the last.
LastIn(added, T, n) == \A m \in T : m > n => added[m].at # added[n].at

AllAdded(added, T, o) == \A n \in T : LastIn(added, T, n) => HasAdded(o, added[n])

LEMMA ByNameIs ==
  ASSUME NEW t, TableInv(t), NEW name, ByName(t, name) # None
  PROVE  ByName(t, name) \in DOMAIN t.symbols /\ t.symbols[ByName(t, name)].name = name
<1> DEFINE is == ForName(t, name)
<1>1. Len(is) = 1 /\ ByName(t, name) = is[1]
  BY DEF ByName
<1>2. /\ IsSequence(is)
      /\ \A n \in DOMAIN is : is[n] \in Named(t) /\ NamesOf(t)[is[n]] = name
  BY EmptySequence DEF ForName, At, Index, TableInv
<1>3. 1 \in DOMAIN is
  BY <1>1, <1>2, SequenceShape
<1>4. is[1] \in Named(t) /\ NamesOf(t)[is[1]] = name
  BY <1>2, <1>3
<1> QED BY <1>1, <1>4 DEF Named, NamesOf

LEMMA ExternalSymbol ==
  ASSUME NEW name
  PROVE  IsSymbol(External(name)) /\ External(name).name = name
BY DEF External, IsSymbol, None

\* One relocation: it is there afterwards, and at other places nothing changes.
LEMMA AddedFollows ==
  ASSUME NEW o, ObjInv(o), NEW r, r.addend \in Int
  PROVE  LET q == ApplyAdded(o, r)
         IN  /\ Follows(o, q) /\ Relabels(o.t, q.t)
             /\ q.ok => HasAdded(q, r)
             /\ q.ok => \A a \in DOMAIN o.relocs : a # r.at => a \in DOMAIN q.relocs /\ q.relocs[a] = o.relocs[a]
<1> DEFINE i == ByName(o.t, r.name)
           old == [kind |-> r.kind, symbol |-> i, addend |-> r.addend]
           n == Len(o.t.symbols) + 1
           new == [kind |-> r.kind, symbol |-> n, addend |-> r.addend]
           q == ApplyAdded(o, r)
<1>1. CASE Len(ForName(o.t, r.name)) > 1
  <2>1. q = Stop(o)
    BY <1>1 DEF ApplyAdded
  <2> HIDE DEF q
  <2> QED BY <2>1, StopFollows, StopRenames DEF q
<1>2. CASE ~(Len(ForName(o.t, r.name)) > 1) /\ i # None
  <2>1. q = [o EXCEPT !.relocs = Put(@, r.at, old)]
    BY <1>2 DEF ApplyAdded
  <2> HIDE DEF q
  <2>2. i \in DOMAIN o.t.symbols /\ o.t.symbols[i].name = r.name
    BY <1>2, ByNameIs DEF ObjInv
  <2>3. old.symbol = i /\ old.kind = r.kind /\ old.addend = r.addend
    OBVIOUS
  <2> HIDE DEF i, old
  <2>4. PutsReloc(o, q, r.at, old)
    BY <2>1, <2>2, <2>3 DEF PutsReloc, ObjInv
  <2>5. Follows(o, q)
    BY <2>4, RelocFollows
  <2>6. /\ DOMAIN q.relocs = DOMAIN o.relocs \cup {r.at} /\ q.relocs[r.at] = old
        /\ \A a \in DOMAIN o.relocs : a # r.at => q.relocs[a] = o.relocs[a]
    BY <2>4, RelocFollows
  <2>7. q.t = o.t
    BY <2>4 DEF PutsReloc
  <2>8. Relabels(o.t, q.t)
    BY <2>7 DEF Relabels
  <2>9. HasAdded(q, r)
    BY <2>2, <2>3, <2>6, <2>7 DEF HasAdded
  <2> QED BY <2>5, <2>6, <2>8, <2>9 DEF q
<1>3. CASE ~(Len(ForName(o.t, r.name)) > 1) /\ i = None
  <2> DEFINE u == [o EXCEPT !.t = AddDirect(@, External(r.name))]
  <2>1. q = [o EXCEPT !.t = AddDirect(@, External(r.name)), !.relocs = Put(@, r.at, new)]
    BY <1>3 DEF ApplyAdded
  <2> HIDE DEF q
  <2>2. IsSymbol(External(r.name)) /\ External(r.name).name = r.name
    BY ExternalSymbol
  <2>3. /\ DOMAIN u = DOMAIN o /\ u.sections = o.sections /\ u.splits = o.splits
        /\ u.relocs = o.relocs /\ u.ok = o.ok /\ u.t = AddDirect(o.t, External(r.name))
    BY DEF ObjInv
  <2> HIDE DEF u
  <2>4. Follows(o, u) /\ Relabels(o.t, u.t)
    BY <2>2, <2>3, AddDirectFollows
  <2>5. n \in DOMAIN u.t.symbols /\ u.t.symbols[n].name = r.name
    BY <2>2, <2>3, AddDirectFollows
  <2>6. ObjInv(u)
    BY <2>4 DEF Follows
  <2>7. new.symbol = n /\ new.kind = r.kind /\ new.addend = r.addend
    OBVIOUS
  <2> HIDE DEF n, new
  <2>8. PutsReloc(u, q, r.at, new)
    BY <2>1, <2>3, <2>5, <2>7 DEF PutsReloc, ObjInv
  <2>9. Follows(u, q)
    BY <2>6, <2>8, RelocFollows
  <2>10. /\ DOMAIN q.relocs = DOMAIN u.relocs \cup {r.at} /\ q.relocs[r.at] = new
         /\ \A a \in DOMAIN u.relocs : a # r.at => q.relocs[a] = u.relocs[a]
    BY <2>6, <2>8, RelocFollows
  <2>11. q.t = u.t
    BY <2>8 DEF PutsReloc
  <2>12. HasAdded(q, r)
    BY <2>5, <2>7, <2>10, <2>11 DEF HasAdded
  <2>13. Follows(o, q) /\ Relabels(o.t, q.t)
    BY <2>4, <2>9, <2>11, FollowsTransitive
  <2> QED BY <2>3, <2>10, <2>12, <2>13 DEF q
<1> QED BY <1>1, <1>2, <1>3

AddedTurn(c, q, r) == ApplyAdded(q, r)
FollowedByAdded(c, T, q) ==
  /\ Follows(c.o, q) /\ Relabels(c.o.t, q.t)
  /\ q.ok => AllAdded(c.added, T, q)
OverAdded == INSTANCE Loops WITH Turn <- AddedTurn, Less <- NoOrder, Holds <- FollowedByAdded

\* What was added stays where it is.
LEMMA AddedStays ==
  ASSUME NEW o, ObjInv(o), NEW q, Relabels(o.t, q.t), NEW r, HasAdded(o, r),
         r.at \in DOMAIN q.relocs, q.relocs[r.at] = o.relocs[r.at]
  PROVE  HasAdded(q, r)
<1>1. o.relocs[r.at].symbol \in DOMAIN o.t.symbols
  BY DEF ObjInv, RelocsInv, HasAdded
<1> QED BY <1>1 DEF HasAdded, Relabels, IsAuto

LEMMA AllFollows ==
  ASSUME NEW o, ObjInv(o), NEW p \in Programs
  PROVE  /\ Follows(o, ApplyAll(o, p)) /\ Relabels(o.t, ApplyAll(o, p).t)
         /\ ApplyAll(o, p).ok => AllAdded(p.added, DOMAIN p.added, ApplyAll(o, p))
<1> DEFINE c == [o |-> o, added |-> p.added]
           s == p.added
           n == Len(s)
<1>1. ApplyAll(o, p) = OverAdded!OverSequence(c, o, s)
  BY DEF ApplyAll, FoldLeft, MapThenFoldSet, Max, OverAdded!OverSequence,
         OverAdded!FoldLeft, OverAdded!MapThenFoldSet, OverAdded!Max, AddedTurn
<1>2. n \in Nat /\ DOMAIN s = 1..n /\ \A i \in 1..n : s[i].addend \in Int
  <2>1. IsSequence(s) /\ \A r \in Range(s) : r.addend \in Int
    BY ProgramsAssumption
  <2> HIDE DEF s
  <2> QED BY <2>1, SequenceShape
<1>3. c.o = o /\ c.added = s
  OBVIOUS
<1> HIDE DEF c, n, s
<1>4. FollowedByAdded(c, {}, o)
  BY <1>3, FollowsItself DEF FollowedByAdded, AllAdded
<1>5. ASSUME NEW T \in SUBSET (1..n), NEW i \in T, NEW q, \A j \in T : j <= i,
             FollowedByAdded(c, T \ {i}, q)
      PROVE  FollowedByAdded(c, T, AddedTurn(c, q, s[i]))
  <2> DEFINE r == ApplyAdded(q, s[i])
  <2>1. /\ Follows(o, q) /\ Relabels(o.t, q.t) /\ ObjInv(q) /\ Grown(o.t, q.t)
        /\ q.ok => AllAdded(s, T \ {i}, q)
    BY <1>3, <1>5 DEF FollowedByAdded, Follows
  <2>2. Follows(q, r) /\ Relabels(q.t, r.t)
    BY <1>2, <2>1, AddedFollows
  <2>3. r.ok => HasAdded(r, s[i])
    BY <1>2, <2>1, AddedFollows
  <2>4. r.ok => \A a \in DOMAIN q.relocs : a # s[i].at => a \in DOMAIN r.relocs /\ r.relocs[a] = q.relocs[a]
    BY <1>2, <2>1, AddedFollows
  <2> HIDE DEF r
  <2>5. Follows(o, r) /\ Relabels(o.t, r.t)
    BY <2>1, <2>2, FollowsTransitive, RelabelsTransitive
  <2>6. ASSUME r.ok, NEW m \in T, LastIn(s, T, m)
        PROVE  HasAdded(r, s[m])
    <3>1. CASE m = i
      BY <3>1, <2>3, <2>6
    <3>2. CASE m # i
      <4>1. q.ok
        BY <2>2, <2>6 DEF Follows
      <4>2. m < i /\ s[i].at # s[m].at
        <5>1. m \in Int /\ i \in Int /\ m <= i
          BY <1>2, <1>5
        <5> QED BY <5>1, <3>2, <2>6 DEF LastIn
      <4>3. LastIn(s, T \ {i}, m)
        BY <2>6 DEF LastIn
      <4>4. HasAdded(q, s[m])
        BY <4>1, <4>3, <3>2, <2>1 DEF AllAdded
      <4>5. s[m].at \in DOMAIN r.relocs /\ r.relocs[s[m].at] = q.relocs[s[m].at]
        BY <4>2, <4>4, <2>4, <2>6 DEF HasAdded
      <4> QED BY <4>4, <4>5, <2>1, <2>2, AddedStays
    <3> QED BY <3>1, <3>2
  <2>7. r.ok => AllAdded(s, T, r)
    BY <2>6 DEF AllAdded
  <2> QED BY <1>3, <2>5, <2>7 DEF FollowedByAdded, AddedTurn, r
<1>6. FollowedByAdded(c, 1..n, OverAdded!OverSequence(c, o, s))
  BY <1>2, <1>4, <1>5, OverAdded!SequenceInduction
<1>7. FollowedByAdded(c, DOMAIN s, ApplyAll(o, p))
  BY <1>1, <1>2, <1>6
<1> QED BY <1>3, <1>7 DEF FollowedByAdded, s

----------------------------------------------------------------------------
(***************************************************************************)
(* The tracker: every relocation that Process finds has an address, and    *)
(* refers to one.                                                          *)
(***************************************************************************)
TrackedRelocs(relocs) ==
  /\ IsFiniteSet(DOMAIN relocs) /\ DOMAIN relocs \subseteq Addresses
  /\ \A a \in DOMAIN relocs : relocs[a].target \in Addresses

TrackInv(tr) == DOMAIN tr = {"relocs", "types", "stores", "sda", "hal"} /\ TrackedRelocs(tr.relocs)

IsStep(step) ==
  /\ step.op \in {"addi", "ori", "mem", "branch"}
  /\ step.at \in Addresses /\ step.hi \in Addresses /\ step.lo \in Addresses
  /\ step.target \in Addresses /\ step.value \in Int

LEMMA SectionsAt ==
  ASSUME NEW o, ObjInv(o), NEW addr
  PROVE  SectionAt(o, addr) \subseteq Nat
<1>1. Len(o.sections) \in Nat /\ DOMAIN o.sections = 1..Len(o.sections)
  BY SequenceShape DEF ObjInv, SectionsInv
<1> QED BY <1>1 DEF SectionAt

LEMMA NoAddresses == Nowhere \in Addresses /\ Elsewhere \in Addresses
BY DEF Nowhere, Elsewhere, Addresses

LEMMA MachineAddressIs ==
  ASSUME NEW o, ObjInv(o), NEW from, NEW addr \in Int
  PROVE  MachineAddress(o, from, addr) \in Addresses
<1> DEFINE at == IF o.t.exe THEN SectionAt(o, addr) ELSE SectionAt(o, addr) \cap {from[1]}
<1>1. at \subseteq Nat
  BY SectionsAt
<1>2. CASE from \in DOMAIN o.relocs
  <2> DEFINE reloc == o.relocs[from]
             sym == o.t.symbols[reloc.symbol]
  <2>1. MachineAddress(o, from, addr) = IF sym.section = None THEN Elsewhere
                                        ELSE <<sym.section, sym.addr + reloc.addend>>
    BY <1>2 DEF MachineAddress, TargetOf
  <2>2. sym.section \in Nat /\ sym.addr \in Int /\ reloc.addend \in Int
    BY <1>2 DEF ObjInv, RelocsInv, TableInv, IsSymbol
  <2> HIDE DEF sym, reloc
  <2> QED BY <2>1, <2>2, NoAddresses DEF Addresses
<1>3. CASE from \notin DOMAIN o.relocs /\ at = {}
  BY <1>3, NoAddresses DEF MachineAddress
<1>4. CASE from \notin DOMAIN o.relocs /\ at # {}
  <2>1. MachineAddress(o, from, addr) = <<CHOOSE i \in at : TRUE, addr>>
    BY <1>4 DEF MachineAddress
  <2> DEFINE i == CHOOSE j \in at : TRUE
  <2> HIDE DEF at
  <2>2. i \in Nat
    BY <1>1, <1>4
  <2>3. MachineAddress(o, from, addr) = <<i, addr>>
    BY <2>1
  <2> HIDE DEF i
  <2> QED BY <2>2, <2>3 DEF Addresses
<1> QED BY <1>2, <1>3, <1>4

LEMMA ValidAddressIs ==
  ASSUME NEW o, ObjInv(o), NEW from, NEW addr \in Int
  PROVE  ValidAddress(o, from, addr) \in Addresses
<1> DEFINE at == SectionAt(o, addr)
           i == CHOOSE j \in at : TRUE
<1>1. at # {} => <<i, addr>> \in Addresses
  <2>1. at \subseteq Nat
    BY SectionsAt
  <2> QED BY <2>1 DEF Addresses
<1>2. <<0, addr>> \in Addresses
  BY DEF Addresses
<1>3. ValidAddress(o, from, addr) \in {Nowhere, <<0, addr>>, <<i, addr>>}
  BY DEF ValidAddress
<1>4. ValidAddress(o, from, addr) = <<i, addr>> => at # {} \/ ValidAddress(o, from, addr) = <<0, addr>> \/ ValidAddress(o, from, addr) = Nowhere
  BY DEF ValidAddress
<1> QED BY <1>1, <1>2, <1>3, <1>4, NoAddresses

LEMMA RegisterAddressIs ==
  ASSUME NEW o, ObjInv(o), NEW from, NEW addr \in Int
  PROVE  RegisterAddress(o, from, addr) \in Addresses
BY MachineAddressIs, ValidAddressIs DEF RegisterAddress

LEMMA PutTracks ==
  ASSUME NEW relocs, TrackedRelocs(relocs), NEW at \in Addresses, NEW kind, NEW target \in Addresses
  PROVE  /\ TrackedRelocs(Put(relocs, at, Reloc(kind, target)))
         /\ TrackedRelocs(PutNew(relocs, at, Reloc(kind, target)))
<1> DEFINE put == Put(relocs, at, Reloc(kind, target))
<1>1. /\ DOMAIN put = DOMAIN relocs \cup {at} /\ put[at] = Reloc(kind, target)
      /\ \A a \in DOMAIN relocs : a # at => put[a] = relocs[a]
  BY DEF Put
<1>2. Reloc(kind, target).target = target
  BY DEF Reloc
<1>3. IsFiniteSet(DOMAIN relocs \cup {at})
  BY FS_AddElement DEF TrackedRelocs
<1> HIDE DEF put
<1>4. TrackedRelocs(put)
  BY <1>1, <1>2, <1>3 DEF TrackedRelocs
<1> QED BY <1>4 DEF put, PutNew

LEMMA HalvesTrack ==
  ASSUME NEW tr, TrackInv(tr), NEW high, NEW step, IsStep(step), NEW target \in Addresses
  PROVE  TrackInv(Halves(tr, high, step, target))
<1> DEFINE first == PutNew(tr.relocs, step.hi, Reloc(high, target))
           both == PutNew(first, step.lo, Reloc("lo", target))
           u == Halves(tr, high, step, target)
<1>1. TrackedRelocs(first)
  BY PutTracks DEF TrackInv, IsStep
<1> HIDE DEF first
<1>2. TrackedRelocs(both)
  BY <1>1, PutTracks DEF IsStep
<1>3. DOMAIN u = DOMAIN tr /\ u.relocs = both
  BY DEF Halves, TrackInv, first
<1> HIDE DEF both, u
<1> QED BY <1>2, <1>3 DEF TrackInv, u

LEMMA WithRelocsTracks ==
  ASSUME NEW tr, TrackInv(tr), NEW u, DOMAIN u = DOMAIN tr, TrackedRelocs(u.relocs)
  PROVE  TrackInv(u)
BY DEF TrackInv

LEMMA OnAddTracks ==
  ASSUME NEW o, ObjInv(o), NEW tr, TrackInv(tr), NEW step, IsStep(step)
  PROVE  TrackInv(OnAdd(o, tr, step))
<1> DEFINE target == RegisterAddress(o, step.at, step.value)
           sda == [tr EXCEPT !.relocs = Put(@, step.at, Reloc("sda", target)),
                             !.sda = @ \cup Known(target)]
           high == IF step.op = "ori" THEN "hi" ELSE "ha"
<1>1. target \in Addresses
  BY RegisterAddressIs DEF IsStep
<1>2. OnAdd(o, tr, step) \in {tr, sda, Halves(tr, high, step, target)}
  BY DEF OnAdd
<1> HIDE DEF target
<1>3. TrackInv(sda)
  <2>1. DOMAIN sda = DOMAIN tr /\ sda.relocs = Put(tr.relocs, step.at, Reloc("sda", target))
    BY DEF TrackInv
  <2>2. TrackedRelocs(Put(tr.relocs, step.at, Reloc("sda", target)))
    BY <1>1, PutTracks DEF TrackInv, IsStep
  <2> HIDE DEF sda
  <2> QED BY <2>1, <2>2, WithRelocsTracks
<1> HIDE DEF sda, high
<1>4. TrackInv(Halves(tr, high, step, target))
  BY <1>1, HalvesTrack
<1> QED BY <1>2, <1>3, <1>4

LEMMA OnLoadStoreTracks ==
  ASSUME NEW o, ObjInv(o), NEW tr, TrackInv(tr), NEW step, IsStep(step)
  PROVE  TrackInv(OnLoadStore(o, tr, step))
<1> DEFINE target == MachineAddress(o, step.at, step.value)
           same == step.hi \in DOMAIN tr.relocs => tr.relocs[step.hi] = Reloc("ha", target)
           high == PutNew(tr.relocs, step.hi, Reloc("ha", target))
           low == Put(high, step.at, Reloc("lo", target))
           sda == Put(tr.relocs, step.at, Reloc("sda", target))
           found ==
             IF step.base THEN [tr EXCEPT !.relocs = sda, !.sda = @ \cup Known(target)]
             ELSE IF step.hi # Nowhere /\ step.lo = Nowhere
                  THEN [tr EXCEPT !.relocs = IF same THEN low ELSE high, !.hal = @ \cup Known(target)]
             ELSE IF step.hi # Nowhere THEN Halves(tr, "ha", step, target)
             ELSE tr
           typed == [found EXCEPT !.types = Put(@, target, step.data),
                                  !.stores = IF step.store THEN @ \cup {target} ELSE @]
<1>1. target \in Addresses
  BY MachineAddressIs DEF IsStep
<1>2. OnLoadStore(o, tr, step) \in {tr, found, typed}
  BY DEF OnLoadStore
<1> HIDE DEF target, same
<1>3. TrackedRelocs(high) /\ TrackedRelocs(sda)
  BY <1>1, PutTracks DEF TrackInv, IsStep
<1> HIDE DEF high, sda
<1>4. TrackedRelocs(low)
  BY <1>1, <1>3, PutTracks DEF IsStep
<1> HIDE DEF low
<1>5. TrackInv(Halves(tr, "ha", step, target))
  BY <1>1, HalvesTrack
<1>6. TrackInv(found)
  <2> DEFINE a == [tr EXCEPT !.relocs = sda, !.sda = @ \cup Known(target)]
             b == [tr EXCEPT !.relocs = IF same THEN low ELSE high, !.hal = @ \cup Known(target)]
  <2>1. found \in {a, b, Halves(tr, "ha", step, target), tr}
    OBVIOUS
  <2>2. /\ DOMAIN a = DOMAIN tr /\ a.relocs = sda
        /\ DOMAIN b = DOMAIN tr /\ b.relocs \in {low, high}
    BY DEF TrackInv
  <2> HIDE DEF a, b, found
  <2>3. TrackInv(a) /\ TrackInv(b)
    BY <2>2, <1>3, <1>4, WithRelocsTracks
  <2> QED BY <2>1, <2>3, <1>5
<1> HIDE DEF found
<1>7. TrackInv(typed)
  <2>1. DOMAIN typed = DOMAIN found /\ typed.relocs = found.relocs
    BY <1>6 DEF TrackInv
  <2> HIDE DEF typed
  <2> QED BY <2>1, <1>6 DEF TrackInv
<1> HIDE DEF typed
<1> QED BY <1>2, <1>6, <1>7

LEMMA OnBranchTracks ==
  ASSUME NEW tr, TrackInv(tr), NEW step, IsStep(step)
  PROVE  TrackInv(OnBranch(tr, step))
<1> DEFINE put == Put(tr.relocs, step.at, Reloc(step.rel, step.target))
           u == [tr EXCEPT !.relocs = put]
<1>1. OnBranch(tr, step) \in {tr, u}
  BY DEF OnBranch
<1>2. TrackedRelocs(put)
  BY PutTracks DEF TrackInv, IsStep
<1>3. DOMAIN u = DOMAIN tr /\ u.relocs = put
  BY DEF TrackInv
<1> HIDE DEF put, u
<1> QED BY <1>1, <1>2, <1>3, WithRelocsTracks

LEMMA CallbackTracks ==
  ASSUME NEW o, ObjInv(o), NEW tr, TrackInv(tr), NEW step, IsStep(step)
  PROVE  TrackInv(Callback(o, tr, step))
<1>1. CASE step.op \in {"addi", "ori"}
  BY <1>1, OnAddTracks DEF Callback
<1>2. CASE step.op = "mem"
  BY <1>2, OnLoadStoreTracks DEF Callback
<1>3. CASE step.op = "branch"
  BY <1>3, OnBranchTracks DEF Callback
<1> QED BY <1>1, <1>2, <1>3 DEF IsStep

StepTurn(c, tr, step) == Callback(c.o, tr, step)
StepsTracked(c, T, tr) == TrackInv(tr)
OverSteps == INSTANCE Loops WITH Turn <- StepTurn, Less <- NoOrder, Holds <- StepsTracked

LEMMA CodeTracks ==
  ASSUME NEW o, ObjInv(o), NEW steps, IsSequence(steps), \A step \in Range(steps) : IsStep(step)
  PROVE  TrackInv(ProcessCode(o, steps))
<1> DEFINE c == [o |-> o]
           n == Len(steps)
<1>1. ProcessCode(o, steps) = OverSteps!OverSequence(c, NothingTracked, steps)
  BY DEF ProcessCode, FoldLeft, MapThenFoldSet, Max, OverSteps!OverSequence, OverSteps!FoldLeft,
         OverSteps!MapThenFoldSet, OverSteps!Max, StepTurn
<1>2. n \in Nat /\ DOMAIN steps = 1..n /\ \A i \in 1..n : IsStep(steps[i])
  BY SequenceShape
<1>3. c.o = o
  OBVIOUS
<1> HIDE DEF c, n
<1>4. StepsTracked(c, {}, NothingTracked)
  <2>1. /\ DOMAIN NothingTracked = {"relocs", "types", "stores", "sda", "hal"}
        /\ NothingTracked.relocs = <<>>
    BY DEF NothingTracked
  <2> QED BY <2>1, EmptySequence, FS_EmptySet DEF StepsTracked, TrackInv, TrackedRelocs
<1>5. ASSUME NEW T \in SUBSET (1..n), NEW i \in T, NEW tr, \A j \in T : j <= i,
             StepsTracked(c, T \ {i}, tr)
      PROVE  StepsTracked(c, T, StepTurn(c, tr, steps[i]))
  BY <1>2, <1>3, <1>5, CallbackTracks DEF StepsTracked, StepTurn
<1>6. StepsTracked(c, 1..n, OverSteps!OverSequence(c, NothingTracked, steps))
  BY <1>2, <1>4, <1>5, OverSteps!SequenceInduction
<1> QED BY <1>1, <1>6 DEF StepsTracked

\* Fewer relocations.
LEMMA RestrictionTracks ==
  ASSUME NEW relocs, TrackedRelocs(relocs), NEW D \in SUBSET DOMAIN relocs
  PROVE  TrackedRelocs([a \in D |-> relocs[a]])
<1>1. IsFiniteSet(D)
  BY FS_Subset DEF TrackedRelocs
<1> QED BY <1>1 DEF TrackedRelocs

LEMMA ProcessTracks ==
  ASSUME NEW o, ObjInv(o), NEW p \in Programs
  PROVE  TrackInv(Process(o, p))
<1> DEFINE code == ProcessCode(o, p.steps)
           data == IF o.t.exe THEN OnWords(o, code, p.words) ELSE code
           decoded == CheckExtab(o, data, p.decoded)
<1>1. TrackInv(code)
  <2>1. IsSequence(p.steps) /\ \A step \in Range(p.steps) : IsStep(step)
    BY ProgramsAssumption DEF IsStep
  <2> QED BY <2>1, CodeTracks
<1> HIDE DEF code
<1>2. TrackInv(OnWords(o, code, p.words))
  <2> DEFINE found == {at \in DOMAIN p.words : ValidAddress(o, at, p.words[at]) # Nowhere}
             put == [a \in DOMAIN code.relocs \cup found |->
                       IF a \in found THEN Reloc("abs", ValidAddress(o, a, p.words[a]))
                       ELSE code.relocs[a]]
             u == OnWords(o, code, p.words)
  <2>1. /\ IsFiniteSet(DOMAIN p.words) /\ DOMAIN p.words \subseteq Addresses
        /\ \A at \in DOMAIN p.words : p.words[at] \in Int
    BY ProgramsAssumption
  <2>2. IsFiniteSet(found) /\ found \subseteq DOMAIN p.words
    BY <2>1, FS_Subset
  <2>3. DOMAIN u = DOMAIN code /\ u.relocs = put
    BY <1>1 DEF OnWords, TrackInv
  <2> HIDE DEF u, found
  <2>4. IsFiniteSet(DOMAIN code.relocs \cup found)
    BY <2>2, <1>1, FS_Union DEF TrackInv, TrackedRelocs
  <2>5. ASSUME NEW a \in DOMAIN code.relocs \cup found
        PROVE  a \in Addresses /\ put[a].target \in Addresses
    <3>1. CASE a \in found
      <4>1. put[a].target = ValidAddress(o, a, p.words[a])
        BY <3>1 DEF Reloc
      <4>2. p.words[a] \in Int /\ a \in Addresses
        BY <3>1, <2>1, <2>2
      <4> QED BY <4>1, <4>2, ValidAddressIs
    <3>2. CASE a \notin found
      BY <3>2, <1>1 DEF TrackInv, TrackedRelocs
    <3> QED BY <3>1, <3>2
  <2>6. DOMAIN put = DOMAIN code.relocs \cup found
    OBVIOUS
  <2> HIDE DEF put
  <2>7. TrackedRelocs(put)
    BY <2>4, <2>5, <2>6 DEF TrackedRelocs
  <2> QED BY <1>1, <2>3, <2>7, WithRelocsTracks DEF u
<1>3. TrackInv(data)
  BY <1>1, <1>2
<1> HIDE DEF data
<1>4. TrackInv(decoded)
  <2> DEFINE extab == SectionNamed(o, "extab")
             kept == {<<extab, at>> : at \in
                UNION {d.relocs : d \in
                  {d \in p.decoded : \E i \in InSection(o.t, extab) :
                     o.t.symbols[i].addr = d.at /\ o.t.symbols[i].size = d.size}}}
             D == {b \in DOMAIN data.relocs : b[1] = extab => b \in kept}
             u == [data EXCEPT !.relocs = [a \in D |-> @[a]]]
  <2>1. decoded \in {data, u}
    BY DEF CheckExtab
  <2>2. D \subseteq DOMAIN data.relocs
    OBVIOUS
  <2> HIDE DEF D
  <2>3. DOMAIN u = DOMAIN data /\ u.relocs = [a \in D |-> data.relocs[a]]
    BY <1>3 DEF TrackInv
  <2> HIDE DEF u
  <2>4. TrackedRelocs(u.relocs)
    BY <2>2, <2>3, <1>3, RestrictionTracks DEF TrackInv
  <2> QED BY <2>1, <2>3, <2>4, <1>3, WithRelocsTracks
<1>5. Process(o, p) = RejectInvalid(o, decoded)
  BY DEF Process, code, data
<1> HIDE DEF decoded
<1>6. TrackInv(RejectInvalid(o, decoded))
  <2> DEFINE u == RejectInvalid(o, decoded)
             D == DOMAIN u.relocs
  <2>1. DOMAIN u = DOMAIN decoded /\ D \subseteq DOMAIN decoded.relocs
        /\ u.relocs = [a \in D |-> decoded.relocs[a]]
    BY <1>4 DEF RejectInvalid, TrackInv
  <2> HIDE DEF u, D
  <2>2. TrackedRelocs(u.relocs)
    BY <2>1, <1>4, RestrictionTracks DEF TrackInv
  <2> QED BY <2>1, <2>2, <1>4, WithRelocsTracks DEF u
<1> QED BY <1>5, <1>6

----------------------------------------------------------------------------
(***************************************************************************)
(* Tracker::apply: relocations are added, and labels for them; none that   *)
(* is there changes, nor does a name that dtk did not make up.             *)
(***************************************************************************)
LEMMA SymbolForIs ==
  ASSUME NEW t, NEW section, NEW addr, NEW kind, SymbolFor(t, section, addr, kind) # NoSymbol
  PROVE  SymbolFor(t, section, addr, kind) \in DOMAIN t.symbols
<1> DEFINE seen == [i \in DOMAIN t.symbols |->
                      LET sym == t.symbols[i]
                      IN  [name |-> sym.name, section |-> sym.section, addr |-> sym.addr,
                           size |-> sym.size, kind |-> sym.kind,
                           ignored |-> sym.flags \cap {"ignore", "stripped"} # {}]]
<1>1. SymbolFor(t, section, addr, kind) = ForRelocation(seen, section, addr, kind)
  BY DEF SymbolFor
<1>2. DOMAIN seen = DOMAIN t.symbols
  OBVIOUS
<1> HIDE DEF seen
<1>3. ForRelocation(seen, section, addr, kind) # NoSymbol
        => ForRelocation(seen, section, addr, kind) \in DOMAIN seen
  BY DEF ForRelocation
<1> QED BY <1>1, <1>2, <1>3

LEMMA TypedSymbol ==
  ASSUME NEW sym, IsSymbol(sym), NEW data
  PROVE  /\ IsSymbol(Typed(sym, data)) /\ Typed(sym, data).name = sym.name
         /\ Typed(sym, data).addr = sym.addr /\ Typed(sym, data).section = sym.section
<1> DEFINE a == IF sym.data = "unknown" THEN data ELSE sym.data
           b == IF sym.align = None /\ DataAlign(data) # None
                THEN (IF sym.addr % DataAlign(data) = 0 THEN DataAlign(data) ELSE None)
                ELSE sym.align
<1>1. Typed(sym, data) = [sym EXCEPT !.data = a, !.align = b]
  BY DEF Typed
<1> HIDE DEF a, b
<1> QED BY <1>1 DEF IsSymbol

\* A symbol for a relocation is there, and the relocations are as they were.
Prepared(o, q) ==
  /\ Follows(o, q) /\ Relabels(o.t, q.t) /\ q.relocs = o.relocs
  /\ q.added \in DOMAIN q.t.symbols

LEMMA AddTargetPrepares ==
  ASSUME NEW o, ObjInv(o), NEW p, NEW target \in Addresses, NEW kind, NEW data
  PROVE  Prepared(o, AddTarget(o, p, target, kind, data))
<1> DEFINE i == SymbolFor(o.t, target[1], target[2], RelocClass(kind))
           label == [External(LabelAt(p, target[1], target[2]))
                       EXCEPT !.addr = target[2], !.section = target[1], !.data = data]
           q == AddTarget(o, p, target, kind, data)
           n == Len(o.t.symbols) + 1
<1>1. CASE i = NoSymbol
  <2>1. q = [o EXCEPT !.t = AddDirect(@, label), !.added = n]
    BY <1>1 DEF AddTarget
  <2>2. IsSymbol(label)
    <3>1. target[1] \in Nat /\ target[2] \in Int
      BY DEF Addresses
    <3> QED BY <3>1, ExternalSymbol DEF IsSymbol
  <2> HIDE DEF q, label, n
  <2>3. /\ DOMAIN q = DOMAIN o /\ q.sections = o.sections /\ q.splits = o.splits
        /\ q.relocs = o.relocs /\ q.ok = o.ok /\ q.t = AddDirect(o.t, label) /\ q.added = n
    BY <2>1 DEF ObjInv
  <2>4. Follows(o, q) /\ Relabels(o.t, q.t) /\ n \in DOMAIN q.t.symbols
    BY <2>2, <2>3, AddDirectFollows DEF n
  <2> QED BY <2>3, <2>4 DEF Prepared, q
<1>2. CASE i # NoSymbol
  <2> DEFINE old == o.t.symbols[i]
  <2>1. q = [o EXCEPT !.added = i,
                      !.t = IF old.addr = target[2] THEN Replace(@, i, Typed(old, data)) ELSE @]
    BY <1>2 DEF AddTarget
  <2>2. i \in DOMAIN o.t.symbols /\ IsSymbol(old)
    BY <1>2, SymbolForIs DEF ObjInv, TableInv
  <2> HIDE DEF q, i
  <2>3. /\ DOMAIN q = DOMAIN o /\ q.sections = o.sections /\ q.splits = o.splits
        /\ q.relocs = o.relocs /\ q.ok = o.ok /\ q.added = i
        /\ q.t = IF old.addr = target[2] THEN Replace(o.t, i, Typed(old, data)) ELSE o.t
    BY <2>1 DEF ObjInv
  <2>4. /\ IsSymbol(Typed(old, data)) /\ Typed(old, data).name = old.name
        /\ Typed(old, data).addr = old.addr /\ Typed(old, data).section = old.section
    BY <2>2, TypedSymbol
  <2>5. CASE old.addr = target[2]
    <3> DEFINE new == Typed(old, data)
    <3>1. /\ IsSymbol(new) /\ new.addr = o.t.symbols[i].addr
          /\ new.section = o.t.symbols[i].section
          /\ q.t = Replace(o.t, i, new) /\ new.name = o.t.symbols[i].name
      BY <2>3, <2>4, <2>5
    <3> HIDE DEF new, old
    <3>2. /\ Follows(o, q) /\ DOMAIN q.t.symbols = DOMAIN o.t.symbols
          /\ q.t.symbols[i].name = new.name
          /\ \A j \in DOMAIN o.t.symbols : j # i => q.t.symbols[j] = o.t.symbols[j]
      BY <2>2, <2>3, <3>1, ReplaceFollows
    <3>3. Relabels(o.t, q.t)
      BY <3>1, <3>2 DEF Relabels
    <3> QED BY <2>2, <2>3, <3>2, <3>3 DEF Prepared, q
  <2>6. CASE old.addr # target[2]
    <3>1. q.t = o.t
      BY <2>3, <2>6
    <3>2. Follows(o, q)
      BY <2>3, <3>1, OtherPartFollows
    <3> QED BY <2>2, <2>3, <3>1, <3>2 DEF Prepared, Relabels, q
  <2> QED BY <2>5, <2>6
<1> QED BY <1>1, <1>2

LEMMA AddSpecialPrepares ==
  ASSUME NEW o, ObjInv(o), o.t.exe, NEW target \in Addresses
  PROVE  Prepared(o, AddSpecial(o, target))
<1> DEFINE names == {n \in DOMAIN o.special : o.special[n] = target[2]}
           name == IF <<"_stack_addr">> \in names THEN <<"_stack_addr">> ELSE <<"_SDA_BASE_">>
           sym == Fixed(name, None, target[2], 0, "label", "global")
           e == AddedIndex(o.t, sym)
           u == AddSymbol(o, sym, TRUE)
           q == AddSpecial(o, target)
<1>1. q = [u EXCEPT !.added = e]
  BY DEF AddSpecial
<1>2. IsSymbol(sym) /\ sym.section = None
  <2>1. target[2] \in Int /\ None \in Nat
    BY DEF Addresses, None
  <2> HIDE DEF name
  <2> QED BY <2>1, FixedSymbol DEF Fixed
<1> HIDE DEF sym
<1>3. /\ Follows(o, u) /\ u.relocs = o.relocs
      /\ \/ u = Stop(o) /\ Refused(o.t, sym, TRUE)
         \/ Joined(o.t, u.t, sym, TRUE)
  BY <1>2, AddSymbolFollows
<1> HIDE DEF u
<1>4. Relabels(o.t, u.t) /\ e \in DOMAIN u.t.symbols
  <2>1. CASE u = Stop(o) /\ Refused(o.t, sym, TRUE)
    <3> DEFINE in == Normalized(sym)
    <3>1. IsSymbol(in)
      BY <1>2, NormalizedSymbol
    <3>2. Existing(o.t, in) # None
      BY <2>1 DEF Refused
    <3>3. e = Existing(o.t, in)
      BY <3>2 DEF AddedIndex
    <3>4. TableInv(o.t)
      BY DEF ObjInv
    <3> HIDE DEF in, e
    <3>5. e \in DOMAIN o.t.symbols
      BY <3>1, <3>2, <3>3, <3>4, ExistingSymbol
    <3>6. u.t = o.t
      BY <2>1, StopFollows
    <3> QED BY <3>5, <3>6 DEF Relabels
  <2>2. CASE Joined(o.t, u.t, sym, TRUE)
    <3>1. /\ e \in DOMAIN u.t.symbols
          /\ \A j \in DOMAIN o.t.symbols : j # e => u.t.symbols[j] = o.t.symbols[j]
          /\ e \in DOMAIN o.t.symbols => u.t.symbols[e].name = o.t.symbols[e].name
      BY <2>2, <1>2 DEF Joined
    <3> HIDE DEF e
    <3>2. Relabels(o.t, u.t)
      BY <3>1 DEF Relabels
    <3> QED BY <3>1, <3>2
  <2> QED BY <1>3, <2>1, <2>2
<1>5. ObjInv(u)
  BY <1>3 DEF Follows
<1> HIDE DEF q, e
<1>6. /\ DOMAIN q = DOMAIN u /\ q.t = u.t /\ q.sections = u.sections /\ q.splits = u.splits
      /\ q.relocs = u.relocs /\ q.ok = u.ok /\ q.added = e
  BY <1>1, <1>5 DEF ObjInv
<1>7. Follows(u, q)
  BY <1>5, <1>6, OtherPartFollows
<1>8. Follows(o, q)
  BY <1>3, <1>7, FollowsTransitive
<1> QED BY <1>3, <1>4, <1>6, <1>8 DEF Prepared, q

\* One relocation: those that are there stay as they are.
LEMMA RelocApplied ==
  ASSUME NEW o, ObjInv(o), NEW p, NEW tr, TrackInv(tr), NEW at \in DOMAIN tr.relocs
  PROVE  LET r == ApplyReloc(o, p, tr, at)
         IN  Follows(o, r) /\ Relabels(o.t, r.t) /\ RelocsStay(o, r)
<1> DEFINE reloc == tr.relocs[at]
           target == reloc.target
           data == IF target \in DOMAIN tr.types THEN tr.types[target] ELSE "unknown"
           q == IF IsSpecial(o, target, reloc.kind) THEN AddSpecial(o, target)
                ELSE AddTarget(o, p, target, reloc.kind, data)
           addend == target[2] - q.t.symbols[q.added].addr
           new == [kind |-> reloc.kind, symbol |-> q.added, addend |-> addend]
           put == [q EXCEPT !.relocs = Put(@, at, new)]
           r == ApplyReloc(o, p, tr, at)
<1>1. r \in {o, q, Stop(q)} \/ (r = put /\ at \notin DOMAIN o.relocs)
  <2> DEFINE blocked == target = Elsewhere \/ InRanges(o.sources, at) \/ InRanges(o.targets, target)
             other == q.t.symbols[o.relocs[at].symbol].addr + o.relocs[at].addend # target[2]
  <2>1. r = IF blocked THEN o ELSE IF at \notin DOMAIN o.relocs THEN put
            ELSE IF other THEN Stop(q) ELSE q
    BY ZenonT(30) DEF ApplyReloc
  <2> HIDE DEF r, blocked, other, put, q
  <2> QED BY <2>1
<1>2. target \in Addresses
  BY DEF TrackInv, TrackedRelocs
<1>3. Prepared(o, q)
  <2>1. IsSpecial(o, target, reloc.kind) => o.t.exe
    BY DEF IsSpecial
  <2> HIDE DEF target, data, reloc
  <2> QED BY <2>1, <1>2, AddSpecialPrepares, AddTargetPrepares
<1>4. addend \in Int
  <2>1. q.t.symbols[q.added].addr \in Int
    <3> HIDE DEF q
    <3> QED BY <1>3 DEF Prepared, Follows, ObjInv, TableInv, IsSymbol
  <2>2. target[2] \in Int
    BY <1>2 DEF Addresses
  <2> HIDE DEF q, target
  <2> QED BY <2>1, <2>2
<1> HIDE DEF r, q, target, reloc, addend
<1>5. /\ Follows(o, q) /\ Relabels(o.t, q.t) /\ q.relocs = o.relocs /\ q.added \in DOMAIN q.t.symbols
      /\ ObjInv(q)
  BY <1>3 DEF Prepared, Follows
<1>6. RelocsStay(o, q)
  BY <1>5 DEF RelocsStay
<1>7. CASE r = o
  BY <1>7, FollowsItself DEF r
<1>8. CASE r = q
  BY <1>5, <1>6, <1>8 DEF r
<1>9. CASE r = Stop(q)
  <2>1. Follows(q, r) /\ r.t = q.t /\ r.relocs = q.relocs
    BY <1>5, <1>9, StopFollows
  <2>2. Follows(o, r)
    BY <1>5, <2>1, FollowsTransitive
  <2> QED BY <1>5, <2>1, <2>2 DEF RelocsStay, r
<1>10. CASE r = put /\ at \notin DOMAIN o.relocs
  <2>1. new.symbol \in DOMAIN q.t.symbols /\ new.addend \in Int
    BY <1>4, <1>5
  <2> HIDE DEF new
  <2>2. PutsReloc(q, r, at, new)
    BY <1>5, <1>10, <2>1 DEF PutsReloc, ObjInv
  <2>3. Follows(q, r) /\ r.t = q.t
    BY <1>5, <2>2, RelocFollows DEF PutsReloc
  <2>4. /\ DOMAIN r.relocs = DOMAIN q.relocs \cup {at}
        /\ \A a \in DOMAIN q.relocs : a # at => r.relocs[a] = q.relocs[a]
    BY <1>5, <2>2, RelocFollows
  <2>5. RelocsStay(o, r)
    BY <1>5, <1>10, <2>4 DEF RelocsStay
  <2>6. Follows(o, r)
    BY <1>5, <2>3, FollowsTransitive
  <2> QED BY <1>5, <2>3, <2>5, <2>6 DEF r
<1> QED BY <1>1, <1>7, <1>8, <1>9, <1>10

RelocTurn(c, q, at) == ApplyReloc(q, c.p, c.tr, at)
FollowedByTrack(c, T, q) == Follows(c.o, q) /\ Relabels(c.o.t, q.t) /\ RelocsStay(c.o, q)
OverRelocs == INSTANCE Loops WITH Turn <- RelocTurn, Less <- AddressBefore, Holds <- FollowedByTrack

LEMMA TrackTransitive ==
  ASSUME NEW o, NEW q, NEW r, Follows(o, q), Relabels(o.t, q.t), RelocsStay(o, q),
         Follows(q, r), Relabels(q.t, r.t), RelocsStay(q, r)
  PROVE  Follows(o, r) /\ Relabels(o.t, r.t) /\ RelocsStay(o, r)
<1>1. Grown(o.t, q.t)
  BY DEF Follows
<1> QED BY <1>1, FollowsTransitive, RelabelsTransitive, RelocsStayTransitive

LEMMA RelocsApplied ==
  ASSUME NEW o, ObjInv(o), NEW p, NEW tr, TrackInv(tr)
  PROVE  LET r == ApplyRelocs(o, p, tr)
         IN  Follows(o, r) /\ Relabels(o.t, r.t) /\ RelocsStay(o, r)
<1> DEFINE c == [o |-> o, p |-> p, tr |-> tr]
           S == DOMAIN tr.relocs
           r == ApplyRelocs(o, p, tr)
<1>1. r = OverRelocs!InOrder(c, o, S)
  BY DEF ApplyRelocs, FoldInOrder, MapThenFoldSet, OverRelocs!InOrder,
         OverRelocs!MapThenFoldSet, RelocTurn, AddressBefore
<1>2. IsFiniteSet(S) /\ S \subseteq Addresses
  BY DEF TrackInv, TrackedRelocs
<1>3. c.o = o /\ c.p = p /\ c.tr = tr
  OBVIOUS
<1> HIDE DEF c, r
<1>4. FollowedByTrack(c, {}, o)
  BY <1>3, FollowsItself DEF FollowedByTrack
<1>5. ASSUME NEW T \in SUBSET S, NEW at \in T, NEW q, \A b \in T \ {at} : AddressBefore(c, b, at),
             FollowedByTrack(c, T \ {at}, q)
      PROVE  FollowedByTrack(c, T, RelocTurn(c, q, at))
  <2> DEFINE u == ApplyReloc(q, p, tr, at)
  <2>1. /\ Follows(o, q) /\ Relabels(o.t, q.t) /\ RelocsStay(o, q) /\ ObjInv(q)
    BY <1>3, <1>5 DEF FollowedByTrack, Follows
  <2>2. Follows(q, u) /\ Relabels(q.t, u.t) /\ RelocsStay(q, u)
    BY <2>1, RelocApplied
  <2> HIDE DEF u
  <2>3. Follows(o, u) /\ Relabels(o.t, u.t) /\ RelocsStay(o, u)
    BY <2>1, <2>2, TrackTransitive
  <2> QED BY <1>3, <2>3 DEF FollowedByTrack, RelocTurn, u
<1> HIDE DEF S
<1>6. OverRelocs!IsFiniteSet(S)
  BY <1>2 DEF IsFiniteSet, OverRelocs!IsFiniteSet
<1>7. OverRelocs!Ordered(c, S)
  BY <1>2, AddressesOrdered DEF OverRelocs!Ordered, AddressBefore
<1>8. FollowedByTrack(c, S, OverRelocs!InOrder(c, o, S))
  BY <1>4, <1>5, <1>6, <1>7, OverRelocs!OrderInduction
<1> QED BY <1>1, <1>3, <1>8 DEF FollowedByTrack, r

LEMMA NamedSection ==
  ASSUME NEW section, DOMAIN section = {"name", "kind", "start", "end", "known"}, NEW i, NEW tr
  PROVE  LET named == NamedByUse(section, i, tr)
         IN  DOMAIN named = DOMAIN section /\ named.start = section.start /\ named.end = section.end
<1> DEFINE name == NameByUse(section, i, tr)
           kind == IF name \in {".sdata2", ".rodata"} THEN "rodata" ELSE section.kind
<1>1. NamedByUse(section, i, tr) \in {section, [section EXCEPT !.name = name, !.kind = kind]}
  BY DEF NamedByUse
<1> HIDE DEF name, kind
<1> QED BY <1>1

LEMMA NameSectionsFollows ==
  ASSUME NEW o, ObjInv(o), NEW tr
  PROVE  /\ Follows(o, NameSections(o, tr)) /\ NameSections(o, tr).t = o.t
         /\ NameSections(o, tr).relocs = o.relocs
<1> DEFINE q == NameSections(o, tr)
<1>1. /\ DOMAIN q = DOMAIN o /\ q.t = o.t /\ q.ok = o.ok /\ q.relocs = o.relocs
      /\ q.splits = o.splits
      /\ q.sections = [i \in DOMAIN o.sections |-> NamedByUse(o.sections[i], i, tr)]
  BY DEF NameSections, ObjInv
<1> HIDE DEF q
<1>2. SectionsInv(q.sections) /\ DOMAIN q.sections = DOMAIN o.sections
  <2>1. Len(o.sections) \in Nat /\ DOMAIN o.sections = 1..Len(o.sections)
    BY SequenceShape DEF ObjInv, SectionsInv
  <2>2. q.sections = [i \in 1..Len(o.sections) |-> q.sections[i]]
    BY <1>1, <2>1
  <2>3. IsSequence(q.sections)
    BY <2>1, <2>2, IsSequenceOf
  <2>4. ASSUME NEW i \in DOMAIN o.sections
        PROVE  /\ DOMAIN q.sections[i] = {"name", "kind", "start", "end", "known"}
               /\ q.sections[i].start \in Int /\ q.sections[i].end \in Int
    <3>1. /\ DOMAIN o.sections[i] = {"name", "kind", "start", "end", "known"}
          /\ o.sections[i].start \in Int /\ o.sections[i].end \in Int
      BY DEF ObjInv, SectionsInv
    <3>2. q.sections[i] = NamedByUse(o.sections[i], i, tr)
      BY <1>1
    <3> QED BY <3>1, <3>2, NamedSection
  <2> QED BY <1>1, <2>3, <2>4 DEF SectionsInv
<1>3. Follows(o, q)
  BY <1>1, <1>2 DEF ObjInv, RelocsInv, Follows, Grown
<1> QED BY <1>1, <1>3 DEF q

DestructorTurn(c, u, i) == Replace(u, i, [u.symbols[i] EXCEPT !.name = AutoName("dtor", c.p, u.symbols[i].addr)])
RewrittenAuto(c, T, u) == Rewritten(c, T, u) /\ \A i \in T : IsAuto(u.symbols[i])
OverDestructors == INSTANCE Loops WITH Turn <- DestructorTurn, Less <- Smaller, Holds <- RewrittenAuto

\* Symbols with a name that dtk made up get another such name.
LEMMA DestructorsNamed ==
  ASSUME NEW t, TableInv(t), NEW p, NEW found, found \subseteq DOMAIN t.symbols,
         \A i \in found : IsAuto(t.symbols[i])
  PROVE  LET u == NamedDestructors(t, p, found)
         IN  TableInv(u) /\ Grown(t, u) /\ u.exe = t.exe /\ Relabels(t, u)
<1> DEFINE c == [t |-> t, p |-> p]
           u == NamedDestructors(t, p, found)
<1>1. u = OverDestructors!InOrder(c, t, found)
  BY DEF NamedDestructors, FoldInOrder, MapThenFoldSet, OverDestructors!InOrder,
         OverDestructors!MapThenFoldSet, DestructorTurn, Smaller
<1>2. c.t = t
  OBVIOUS
<1>3. IsFiniteSet(found) /\ found \subseteq Nat
  <2>1. Len(t.symbols) \in Nat /\ DOMAIN t.symbols = 1..Len(t.symbols)
    BY SequenceShape DEF TableInv
  <2>2. IsFiniteSet(DOMAIN t.symbols)
    BY <2>1, FS_Interval
  <2> QED BY <2>1, <2>2, FS_Subset
<1> HIDE DEF c, u
<1>5. RewrittenAuto(c, {}, t)
  BY <1>2 DEF RewrittenAuto, Rewritten, Grown
<1>6. ASSUME NEW T \in SUBSET found, NEW i \in T, NEW w, \A j \in T \ {i} : Smaller(c, j, i),
             RewrittenAuto(c, T \ {i}, w)
      PROVE  RewrittenAuto(c, T, DestructorTurn(c, w, i))
  <2> DEFINE sym == w.symbols[i]
             name == AutoName("dtor", c.p, sym.addr)
             new == [sym EXCEPT !.name = name]
             v == Replace(w, i, new)
  <2>1. i \in DOMAIN c.t.symbols /\ T = T \cup {i}
    BY <1>2
  <2>2. IsSymbol(sym) /\ i \in DOMAIN w.symbols /\ TableInv(w)
    BY <2>1, <1>6 DEF RewrittenAuto, Rewritten, TableInv
  <2>3. IsSymbol(new) /\ new.addr = sym.addr /\ new.section = sym.section /\ new.name = name
    BY <2>2 DEF IsSymbol
  <2>4. name[1] = "dtor"
    BY DEF AutoName
  <2> HIDE DEF new, name
  <2>5. Rewritten(c, T, v)
    <3>1. Rewritten(c, T \cup {i}, v)
      BY <2>1, <2>3, <1>6, RewriteStep DEF RewrittenAuto
    <3> QED BY <2>1, <3>1
  <2>6. /\ v.symbols[i] = Normalized(new)
        /\ \A j \in DOMAIN w.symbols : j # i => v.symbols[j] = w.symbols[j]
    BY <2>2, <2>3, ReplaceKeepsTable
  <2>7. Normalized(new).name = name
    BY <2>3, NormalizedSymbol
  <2>8. IsAuto(v.symbols[i])
    BY <2>4, <2>6, <2>7 DEF IsAuto, AutoPrefixes
  <2>9. \A j \in T : j \in DOMAIN w.symbols
    BY <1>2, <1>6 DEF RewrittenAuto, Rewritten
  <2>10. \A j \in T : IsAuto(v.symbols[j])
    BY <2>6, <2>8, <2>9, <1>6 DEF RewrittenAuto
  <2>11. DestructorTurn(c, w, i) = v
    BY DEF DestructorTurn, new, name
  <2> HIDE DEF v
  <2> QED BY <2>5, <2>10, <2>11 DEF RewrittenAuto
<1>7. OverDestructors!IsFiniteSet(found)
  BY <1>3 DEF IsFiniteSet, OverDestructors!IsFiniteSet
<1>8. OverDestructors!Ordered(c, found)
  BY <1>3 DEF OverDestructors!Ordered, Smaller
<1>9. RewrittenAuto(c, found, OverDestructors!InOrder(c, t, found))
  BY <1>5, <1>6, <1>7, <1>8, OverDestructors!OrderInduction
<1>10. RewrittenAuto(c, found, u)
  BY <1>1, <1>9
<1>11. TableInv(u) /\ Grown(t, u) /\ u.exe = t.exe /\ Relabels(t, u)
  BY <1>2, <1>10 DEF RewrittenAuto, Rewritten, Relabels
<1> QED BY <1>11 DEF u

LEMMA NameDestructorsFollows ==
  ASSUME NEW o, ObjInv(o), NEW p
  PROVE  LET q == NameDestructors(o, p)
         IN  Follows(o, q) /\ Relabels(o.t, q.t) /\ RelocsStay(o, q)
<1> DEFINE extab == SectionNamed(o, "extab")
           from == {a \in DOMAIN o.relocs : extab # 0 /\ a[1] = extab}
           auto == {i \in {o.relocs[a].symbol : a \in from} : IsAuto(o.t.symbols[i])}
           u == NamedDestructors(o.t, p, auto)
           q == NameDestructors(o, p)
<1>1. q = [o EXCEPT !.t = u]
  BY DEF NameDestructors
<1>2. auto \subseteq DOMAIN o.t.symbols /\ \A i \in auto : IsAuto(o.t.symbols[i])
  BY DEF ObjInv, RelocsInv
<1> HIDE DEF auto
<1>3. TableInv(u) /\ Grown(o.t, u) /\ u.exe = o.t.exe /\ Relabels(o.t, u)
  BY <1>2, DestructorsNamed DEF ObjInv
<1> HIDE DEF u, q
<1>4. /\ DOMAIN q = DOMAIN o /\ q.t = u /\ q.sections = o.sections /\ q.splits = o.splits
      /\ q.relocs = o.relocs /\ q.ok = o.ok
  BY <1>1 DEF ObjInv
<1>5. Follows(o, q)
  BY <1>3, <1>4, TableFollows
<1> QED BY <1>3, <1>4, <1>5 DEF RelocsStay, q

\* The pass of the tracker.
LEMMA TrackedFollows ==
  ASSUME NEW o, ObjInv(o), NEW p \in Programs
  PROVE  LET q == ApplyTracked(o, p)
         IN  Follows(o, q) /\ Relabels(o.t, q.t) /\ RelocsStay(o, q)
<1> DEFINE tr == Process(o, p)
           a == NameSections(o, tr)
           b == ApplyRelocs(a, p, tr)
           q == NameDestructors(b, p)
<1>1. ApplyTracked(o, p) = q
  BY DEF ApplyTracked
<1>2. TrackInv(tr)
  BY ProcessTracks
<1> HIDE DEF tr
<1>3. Follows(o, a) /\ Relabels(o.t, a.t) /\ RelocsStay(o, a)
  BY NameSectionsFollows DEF Relabels, RelocsStay
<1> HIDE DEF a
<1>4. ObjInv(a)
  BY <1>3 DEF Follows
<1>5. Follows(a, b) /\ Relabels(a.t, b.t) /\ RelocsStay(a, b)
  BY <1>2, <1>4, RelocsApplied
<1> HIDE DEF b
<1>6. ObjInv(b)
  BY <1>5 DEF Follows
<1>7. Follows(b, q) /\ Relabels(b.t, q.t) /\ RelocsStay(b, q)
  BY <1>6, NameDestructorsFollows
<1> HIDE DEF q
<1>8. Follows(o, b) /\ Relabels(o.t, b.t) /\ RelocsStay(o, b)
  BY <1>3, <1>5, TrackTransitive
<1>9. Follows(o, q) /\ Relabels(o.t, q.t) /\ RelocsStay(o, q)
  BY <1>7, <1>8, TrackTransitive
<1> QED BY <1>1, <1>9

----------------------------------------------------------------------------
(***************************************************************************)
(* detect_objects and detect_strings: only sizes and kinds of data change. *)
(***************************************************************************)
\* What a symbol is replaced by is a symbol at its address with its name.
Retypes(old, new) ==
  IsSymbol(new) /\ new.name = old.name /\ new.addr = old.addr /\ new.section = old.section

LEMMA RetypedFollows ==
  ASSUME NEW o, ObjInv(o), NEW q, DOMAIN q = DOMAIN o, q.sections = o.sections,
         q.splits = o.splits, q.relocs = o.relocs, q.ok = o.ok,
         DOMAIN q.t = DOMAIN o.t, q.t.exe = o.t.exe, q.t.byAddr = o.t.byAddr,
         q.t.bySec = o.t.bySec, q.t.byName = o.t.byName,
         q.t.symbols = [i \in DOMAIN o.t.symbols |-> q.t.symbols[i]],
         \A i \in DOMAIN o.t.symbols : Retypes(o.t.symbols[i], q.t.symbols[i])
  PROVE  Follows(o, q) /\ Relabels(o.t, q.t) /\ RelocsStay(o, q)
<1>1. DOMAIN q.t.symbols = DOMAIN o.t.symbols
  OBVIOUS
<1>2. Grown(o.t, q.t) /\ Relabels(o.t, q.t)
  BY <1>1 DEF Grown, Relabels, Retypes
<1>3. /\ Addrs(q.t) = Addrs(o.t) /\ Places(q.t) = Places(o.t) /\ Placed(q.t) = Placed(o.t)
  <2>1. TableInv(o.t)
    BY DEF ObjInv
  <2> QED BY <1>1, <1>2, <2>1, PlacesStay
<1>4. NamesOf(q.t) = NamesOf(o.t) /\ Named(q.t) = Named(o.t)
  BY <1>1 DEF NamesOf, Named, Retypes
<1>5. IsSequence(q.t.symbols)
  <2>1. Len(o.t.symbols) \in Nat /\ DOMAIN o.t.symbols = 1..Len(o.t.symbols)
    BY SequenceShape DEF ObjInv, TableInv
  <2>2. q.t.symbols = [i \in 1..Len(o.t.symbols) |-> q.t.symbols[i]]
    BY <2>1
  <2> QED BY <2>1, <2>2, IsSequenceOf
<1>6. TableInv(q.t)
  BY <1>1, <1>3, <1>4, <1>5 DEF ObjInv, TableInv, Retypes
<1>7. Follows(o, q)
  BY <1>2, <1>6, TableFollows
<1> QED BY <1>2, <1>7 DEF RelocsStay

LEMMA DetectedSymbol ==
  ASSUME NEW o, NEW section, NEW sym, IsSymbol(sym)
  PROVE  /\ Retypes(sym, Normalized(Detect(o, section, sym)))
         /\ ~sym.known => Normalized(Detect(o, section, sym)).size = GuessedSize(o, section, sym)
<1> DEFINE size == IF sym.known THEN sym.size ELSE GuessedSize(o, section, sym)
           data == IF DataSize(sym.data) > 1 /\ size % DataSize(sym.data) # 0 THEN "unknown" ELSE sym.data
           new == Detect(o, section, sym)
<1>1. new = [sym EXCEPT !.size = size, !.known = TRUE, !.kind = "object", !.data = data]
  BY DEF Detect
<1> HIDE DEF data, new
<1>2. /\ IsSymbol(new) /\ new.name = sym.name /\ new.addr = sym.addr /\ new.section = sym.section
      /\ new.size = size /\ new.known = TRUE
  BY <1>1 DEF IsSymbol
<1> HIDE DEF size
<1>3. /\ IsSymbol(Normalized(new)) /\ Normalized(new).name = new.name
      /\ Normalized(new).addr = new.addr /\ Normalized(new).section = new.section
  BY <1>2, NormalizedSymbol
<1>4. Normalized(new).size = size
  BY <1>2 DEF Normalized, IsSymbol
<1> QED BY <1>2, <1>3, <1>4 DEF Retypes, new, size

\* What detect_objects looks at.
Seen(o) ==
  {i \in UNION {InSection(o.t, section) :
                  section \in {s \in DOMAIN o.sections : o.sections[s].kind # "code"}} :
     o.t.symbols[i].name \notin LinkerLabels \cup Dotted}

LEMMA SeenIs ==
  ASSUME NEW o, ObjInv(o), NEW i \in Seen(o)
  PROVE  i \in DOMAIN o.t.symbols /\ o.t.symbols[i].section \in DOMAIN o.sections
<1>1. PICK section \in DOMAIN o.sections : i \in InSection(o.t, section)
  BY DEF Seen
<1>2. PICK k \in DOMAIN o.t.bySec : k[1] = section /\ i \in Range(o.t.bySec[k])
  BY <1>1 DEF InSection
<1>3. PICK n \in DOMAIN o.t.bySec[k] : o.t.bySec[k][n] = i
  BY <1>2 DEF Range
<1>4. i \in Placed(o.t) /\ Places(o.t)[i] = k
  BY <1>3 DEF ObjInv, TableInv, Index
<1>5. i \in DOMAIN o.t.symbols /\ k = <<o.t.symbols[i].section, o.t.symbols[i].addr>>
  BY <1>4 DEF Placed, Places
<1> QED BY <1>1, <1>2, <1>5

LEMMA ObjectsFollow ==
  ASSUME NEW o, ObjInv(o)
  PROVE  LET q == DetectObjects(o)
         IN  /\ Follows(o, q) /\ Relabels(o.t, q.t) /\ RelocsStay(o, q)
             /\ DOMAIN q.t.symbols = DOMAIN o.t.symbols
             /\ \A i \in DOMAIN o.t.symbols :
                  q.t.symbols[i] =
                    IF i \in Seen(o) THEN Normalized(Detect(o, o.t.symbols[i].section, o.t.symbols[i]))
                    ELSE o.t.symbols[i]
<1> DEFINE q == DetectObjects(o)
           new(i) == Normalized(Detect(o, o.t.symbols[i].section, o.t.symbols[i]))
<1>1. q = [o EXCEPT !.t.symbols = [i \in DOMAIN o.t.symbols |->
                                     IF i \in Seen(o) THEN new(i) ELSE o.t.symbols[i]]]
  BY DEF DetectObjects, Retyped, Seen
<1> HIDE DEF q, new
<1>2. /\ DOMAIN q = DOMAIN o /\ q.sections = o.sections /\ q.splits = o.splits
      /\ q.relocs = o.relocs /\ q.ok = o.ok
      /\ q.t = [o.t EXCEPT !.symbols = [i \in DOMAIN o.t.symbols |->
                                          IF i \in Seen(o) THEN new(i) ELSE o.t.symbols[i]]]
  BY <1>1 DEF ObjInv
<1>3. /\ DOMAIN q.t = DOMAIN o.t /\ q.t.exe = o.t.exe /\ q.t.byAddr = o.t.byAddr
      /\ q.t.bySec = o.t.bySec /\ q.t.byName = o.t.byName
      /\ q.t.symbols = [i \in DOMAIN o.t.symbols |->
                          IF i \in Seen(o) THEN new(i) ELSE o.t.symbols[i]]
  BY <1>2 DEF ObjInv, TableInv
<1>4. /\ q.t.symbols = [i \in DOMAIN o.t.symbols |-> q.t.symbols[i]]
      /\ DOMAIN q.t.symbols = DOMAIN o.t.symbols
      /\ \A i \in DOMAIN o.t.symbols :
           q.t.symbols[i] = IF i \in Seen(o) THEN new(i) ELSE o.t.symbols[i]
  BY <1>3
<1>5. ASSUME NEW i \in DOMAIN o.t.symbols
      PROVE  Retypes(o.t.symbols[i], q.t.symbols[i])
  <2>1. IsSymbol(o.t.symbols[i])
    BY DEF ObjInv, TableInv
  <2>2. Retypes(o.t.symbols[i], new(i))
    BY <2>1, DetectedSymbol DEF new
  <2> QED BY <1>4, <2>1, <2>2 DEF Retypes
<1>6. Follows(o, q) /\ Relabels(o.t, q.t) /\ RelocsStay(o, q)
  BY <1>2, <1>3, <1>4, <1>5, RetypedFollows
<1> QED BY <1>4, <1>6 DEF q, new

LEMMA StringsFollow ==
  ASSUME NEW o, ObjInv(o), NEW p
  PROVE  LET q == DetectStrings(o, p)
         IN  Follows(o, q) /\ Relabels(o.t, q.t) /\ RelocsStay(o, q)
<1> DEFINE found == {i \in DOMAIN o.t.symbols :
                       LET sym == o.t.symbols[i]
                           size == StringSize(p, sym.section, sym)
                       IN  /\ sym.section # None
                           /\ IsData(o.sections[sym.section].kind)
                           /\ sym.data = "unknown" /\ size # None
                           /\ sym.size = size \/ (IsAuto(sym) /\ sym.size > size)}
           string(sym) ==
             [sym EXCEPT !.size = StringSize(p, sym.section, sym), !.known = TRUE,
                         !.data = IF IsText(p, sym.section, sym.addr, TextEnd(p, sym.section, sym))
                                  THEN "string" ELSE "wstring"]
           new(i) == Normalized(string(o.t.symbols[i]))
           q == DetectStrings(o, p)
<1>1. q = [o EXCEPT !.t.symbols = [i \in DOMAIN o.t.symbols |->
                                     IF i \in found THEN new(i) ELSE o.t.symbols[i]]]
  BY DEF DetectStrings, Retyped
<1>5. ASSUME NEW i \in DOMAIN o.t.symbols
      PROVE  Retypes(o.t.symbols[i], new(i)) /\ Retypes(o.t.symbols[i], o.t.symbols[i])
  <2> DEFINE sym == o.t.symbols[i]
             size == StringSize(p, sym.section, sym)
             data == IF IsText(p, sym.section, sym.addr, TextEnd(p, sym.section, sym))
                     THEN "string" ELSE "wstring"
             as == [sym EXCEPT !.size = size, !.known = TRUE, !.data = data]
  <2>1. IsSymbol(sym)
    BY DEF ObjInv, TableInv
  <2>2. new(i) = Normalized(as)
    OBVIOUS
  <2> HIDE DEF new, data, size, sym
  <2>3. IsSymbol(as) /\ as.name = sym.name /\ as.addr = sym.addr /\ as.section = sym.section
    BY <2>1 DEF IsSymbol
  <2> HIDE DEF as
  <2>4. /\ IsSymbol(Normalized(as)) /\ Normalized(as).name = as.name
        /\ Normalized(as).addr = as.addr /\ Normalized(as).section = as.section
    BY <2>3, NormalizedSymbol
  <2> QED BY <2>1, <2>2, <2>3, <2>4 DEF Retypes, sym
<1> HIDE DEF q, new, found
<1>2. /\ DOMAIN q = DOMAIN o /\ q.sections = o.sections /\ q.splits = o.splits
      /\ q.relocs = o.relocs /\ q.ok = o.ok
      /\ q.t = [o.t EXCEPT !.symbols = [i \in DOMAIN o.t.symbols |->
                                          IF i \in found THEN new(i) ELSE o.t.symbols[i]]]
  BY <1>1 DEF ObjInv
<1>3. /\ DOMAIN q.t = DOMAIN o.t /\ q.t.exe = o.t.exe /\ q.t.byAddr = o.t.byAddr
      /\ q.t.bySec = o.t.bySec /\ q.t.byName = o.t.byName
      /\ q.t.symbols = [i \in DOMAIN o.t.symbols |->
                          IF i \in found THEN new(i) ELSE o.t.symbols[i]]
  BY <1>2 DEF ObjInv, TableInv
<1>4. /\ q.t.symbols = [i \in DOMAIN o.t.symbols |-> q.t.symbols[i]]
      /\ \A i \in DOMAIN o.t.symbols :
           q.t.symbols[i] = IF i \in found THEN new(i) ELSE o.t.symbols[i]
  BY <1>3
<1>6. \A i \in DOMAIN o.t.symbols : Retypes(o.t.symbols[i], q.t.symbols[i])
  BY <1>4, <1>5
<1>7. Follows(o, q) /\ Relabels(o.t, q.t) /\ RelocsStay(o, q)
  BY <1>2, <1>3, <1>4, <1>6, RetypedFollows
<1> QED BY <1>7 DEF q

----------------------------------------------------------------------------
(***************************************************************************)
(* The boundary that a guessed size ends at.                               *)
(***************************************************************************)
Larger(c, x, y) == x > y
Nothing(c, x, y) == TRUE
Descending == INSTANCE Loops WITH Turn <- Nothing, Less <- Larger, Holds <- Nothing

LEMMA MinOfIntegers ==
  ASSUME NEW S, IsFiniteSet(S), S \subseteq Int, S # {}
  PROVE  Min(S) \in S /\ \A y \in S : Min(S) <= y
<1>1. Descending!IsFiniteSet(S) /\ Descending!Ordered(0, S) /\ S \in SUBSET S
  BY DEF IsFiniteSet, Descending!IsFiniteSet, Descending!Ordered, Larger
<1>2. PICK x \in S : \A y \in S \ {x} : Larger(0, y, x)
  <2>1. \E x \in S : \A y \in S \ {x} : Larger(0, y, x)
    BY <1>1, Descending!LastExists
  <2> QED BY <2>1
<1>3. \A y \in S : x <= y
  BY <1>2 DEF Larger
<1> QED BY <1>3 DEF Min

\* What a split of a section is.
SplitsInv(splits) == IsFiniteSet(splits) /\ \A s \in splits : s.start \in Int /\ s.end \in Int

\* The candidates of NextBoundary: the section, the symbols and the splits.
Ends(o, section, addr) ==
  LET splits == o.splits[section]
      at == {s \in splits : s.start <= addr}
      last == CHOOSE s \in at : \A r \in at : r.start <= s.start
  IN  {o.sections[section].end}
      \cup {key[2] : key \in {k \in DOMAIN o.t.bySec : k[1] = section /\ k[2] > addr}}
      \cup {s.end : s \in {s \in at : s = last /\ s.end > addr}}
      \cup {s.start : s \in splits \ at}

LEMMA EndsAreNumbers ==
  ASSUME NEW o, ObjInv(o), NEW section \in DOMAIN o.sections, SplitsInv(o.splits[section]), NEW addr \in Int
  PROVE  IsFiniteSet(Ends(o, section, addr)) /\ Ends(o, section, addr) \subseteq Int
<1> DEFINE splits == o.splits[section]
           at == {s \in splits : s.start <= addr}
           last == CHOOSE s \in at : \A r \in at : r.start <= s.start
           keys == {k \in DOMAIN o.t.bySec : k[1] = section /\ k[2] > addr}
           here == {s \in at : s = last /\ s.end > addr}
           a == {o.sections[section].end}
           b == {key[2] : key \in keys}
           d == {s.end : s \in here}
           e == {s.start : s \in splits \ at}
<1>1. Ends(o, section, addr) = a \cup b \cup d \cup e
  BY DEF Ends
<1>2. IsFiniteSet(keys) /\ keys \subseteq Addresses
  <2>1. IsFiniteSet(DOMAIN o.t.bySec) /\ DOMAIN o.t.bySec \subseteq Addresses
    BY DEF ObjInv, TableInv
  <2> QED BY <2>1, FS_Subset
<1>3. IsFiniteSet(here) /\ here \subseteq splits /\ IsFiniteSet(splits \ at)
  <2>1. IsFiniteSet(splits) /\ here \subseteq splits /\ splits \ at \subseteq splits
    BY DEF SplitsInv
  <2> HIDE DEF here, at
  <2> QED BY <2>1, FS_Subset
<1>4. IsFiniteSet(a) /\ a \subseteq Int
  BY FS_Singleton DEF ObjInv, SectionsInv
<1> HIDE DEF keys, here, at
<1>5. IsFiniteSet(b) /\ b \subseteq Int
  <2> DEFINE second == [k \in keys |-> k[2]]
  <2>1. b = {second[k] : k \in keys}
    OBVIOUS
  <2>2. b \subseteq Int
    BY <1>2 DEF Addresses
  <2> HIDE DEF second
  <2>3. IsFiniteSet({second[k] : k \in keys})
    BY <1>2, FiniteImage
  <2> QED BY <2>1, <2>2, <2>3
<1>6. IsFiniteSet(d) /\ d \subseteq Int
  <2> DEFINE end == [s \in here |-> s.end]
  <2>1. d = {end[s] : s \in here}
    OBVIOUS
  <2>2. d \subseteq Int
    BY <1>3 DEF SplitsInv
  <2> HIDE DEF end
  <2>3. IsFiniteSet({end[s] : s \in here})
    BY <1>3, FiniteImage
  <2> QED BY <2>1, <2>2, <2>3
<1>7. IsFiniteSet(e) /\ e \subseteq Int
  <2> DEFINE later == splits \ at
             start == [s \in later |-> s.start]
  <2>1. e = {start[s] : s \in later}
    OBVIOUS
  <2>2. e \subseteq Int
    BY DEF SplitsInv
  <2>4. IsFiniteSet(later)
    BY <1>3
  <2> HIDE DEF start, later
  <2>3. IsFiniteSet({start[s] : s \in later})
    BY <2>4, FiniteImage
  <2> QED BY <2>1, <2>2, <2>3
<1> HIDE DEF a, b, d, e
<1>8. IsFiniteSet(a \cup b \cup d \cup e)
  BY <1>4, <1>5, <1>6, <1>7, FS_Union
<1> QED BY <1>1, <1>4, <1>5, <1>6, <1>7, <1>8

LEMMA BoundaryIs ==
  ASSUME NEW o, ObjInv(o), NEW section \in DOMAIN o.sections, SplitsInv(o.splits[section]), NEW addr \in Int
  PROVE  LET next == NextBoundary(o, section, addr)
         IN  /\ next \in Int
             /\ \A s \in o.splits[section] :
                  /\ addr < s.start => next <= s.start
                  /\ /\ s.start <= addr /\ addr < s.end
                     /\ \A r \in o.splits[section] \ {s} : r.start < s.start \/ s.end <= r.start
                     => next <= s.end
<1> DEFINE next == NextBoundary(o, section, addr)
           splits == o.splits[section]
           at == {s \in splits : s.start <= addr}
           last == CHOOSE s \in at : \A r \in at : r.start <= s.start
           ends == Ends(o, section, addr)
<1>1. next = Min(ends)
  BY DEF NextBoundary, Ends
<1>2. IsFiniteSet(ends) /\ ends \subseteq Int
  BY EndsAreNumbers
<1>3. /\ o.sections[section].end \in ends
      /\ \A s \in splits \ at : s.start \in ends
      /\ \A s \in at : s = last /\ s.end > addr => s.end \in ends
  BY DEF Ends
<1> HIDE DEF ends, next
<1>4. next \in Int /\ \A y \in ends : next <= y
  BY <1>1, <1>2, <1>3, MinOfIntegers
<1>5. \A s \in splits : s.start \in Int /\ s.end \in Int
  BY DEF SplitsInv
<1>6. ASSUME NEW s \in splits, addr < s.start
      PROVE  next <= s.start
  BY <1>3, <1>4, <1>5, <1>6
<1>7. ASSUME NEW s \in splits, s.start <= addr, addr < s.end,
             \A r \in splits \ {s} : r.start < s.start \/ s.end <= r.start
      PROVE  next <= s.end
  <2>1. s \in at /\ \A r \in at \ {s} : r.start < s.start
    BY <1>5, <1>7
  <2>2. \A r \in at : r.start <= s.start
    BY <2>1, <1>5
  <2>3. last \in at /\ \A r \in at : r.start <= last.start
    <3> HIDE DEF at
    <3> QED BY <2>1, <2>2
  <2>4. last = s
    <3>1. last.start \in Int /\ s.start \in Int
      BY <2>3, <1>5
    <3> HIDE DEF last, at
    <3> QED BY <2>1, <2>3, <3>1
  <2>5. s.end \in ends
    BY <2>1, <2>4, <1>3, <1>5, <1>7
  <2> QED BY <2>5, <1>4
<1> QED BY <1>4, <1>6, <1>7 DEF next

\* A guessed size is that of the data, or what is left in front of the boundary.
LEMMA GuessIs ==
  ASSUME NEW o, NEW section, NEW sym
  PROVE  GuessedSize(o, section, sym) \in {DataSize(sym.data), NextBoundary(o, section, sym.addr) - sym.addr}
BY DEF GuessedSize

----------------------------------------------------------------------------
(***************************************************************************)
(* The runs: the inductive invariant.                                      *)
(***************************************************************************)
IsFile(file) == IsSequence(file) /\ \A line \in Range(file) : line.addr \in Int

TypeInv ==
  /\ program \in Programs
  /\ ObjInv(obj) /\ DOMAIN obj.sections = DOMAIN program.sections /\ obj.splits = program.splits
  /\ IsSequence(written) /\ \A n \in DOMAIN written : IsFile(written[n])

\* The passes before the one that adds the relocations of the configuration.
Early == {"load", "block", "signatures", "analyse", "lists"}

StagesInv(left) ==
  /\ IsSequence(left)
  /\ \A m \in DOMAIN left : left[m] \in Early => \E n \in DOMAIN left : n > m /\ left[n] = "add"

AddedInv == stage # <<>> /\ Passed("add") => AllAdded(program.added, DOMAIN program.added, obj)

RunsInv == TypeInv /\ StagesInv(stage) /\ AddedInv

LEMMA ProgramIs ==
  ASSUME NEW p \in Programs
  PROVE  /\ SectionsInv(p.sections) /\ IsFile(p.file) /\ IsSequence(p.blocks)
         /\ DOMAIN p.splits = DOMAIN p.sections
         /\ \A i \in DOMAIN p.splits : SplitsInv(p.splits[i])
<1>1. /\ IsSequence(p.sections) /\ IsFile(p.file) /\ IsSequence(p.blocks)
      /\ DOMAIN p.splits = DOMAIN p.sections
  BY ProgramsAssumption DEF IsFile
<1>2. \A i \in DOMAIN p.sections :
        /\ DOMAIN p.sections[i] = {"name", "kind", "start", "end", "known"}
        /\ p.sections[i].start \in Int /\ p.sections[i].end \in Int
  BY ProgramsAssumption DEF Range
<1>3. \A i \in DOMAIN p.splits : SplitsInv(p.splits[i])
  BY ProgramsAssumption DEF Range, SplitsInv
<1> QED BY <1>1, <1>2, <1>3 DEF SectionsInv

LEMMA NoSymbolsIs ==
  ASSUME NEW exe
  PROVE  TableInv(NoSymbols(exe))
<1> DEFINE t == NoSymbols(exe)
<1>1. /\ DOMAIN t = {"exe", "symbols", "byAddr", "bySec", "byName"} /\ t.symbols = <<>>
      /\ t.byAddr = <<>> /\ t.bySec = <<>> /\ t.byName = <<>>
  BY DEF NoSymbols
<1> HIDE DEF t
<1>2. IsFiniteSet({})
  BY FS_EmptySet
<1>3. Placed(t) = {} /\ Named(t) = {} /\ DOMAIN t.symbols = {}
  BY <1>1, EmptySequence DEF Placed, Named
<1>4. \A K : Index(<<>>, K, {})
  BY EmptySequence DEF Index
<1>5. TableInv(t)
  BY <1>1, <1>2, <1>3, <1>4, EmptySequence DEF TableInv
<1> QED BY <1>5 DEF t

LEMMA FreshIs ==
  ASSUME NEW p, NEW sections, SectionsInv(sections)
  PROVE  /\ ObjInv(Fresh(p, sections)) /\ Fresh(p, sections).sections = sections
         /\ Fresh(p, sections).splits = p.splits
<1>1. DOMAIN <<>> = {}
  BY EmptySequence
<1> QED BY <1>1, NoSymbolsIs DEF Fresh, ObjInv, RelocsInv, NoRanges

LEMMA PassesAre ==
  ASSUME NEW p
  PROVE  StagesInv(Passes(p))
<1> DEFINE s == Passes(p)
<1>1. /\ Len(s) = 10 /\ s = [n \in 1..10 |-> s[n]] /\ DOMAIN s = 1..10
      /\ s[6] = "add" /\ s[7] = "track" /\ s[8] = "objects" /\ s[9] = "strings" /\ s[10] = "write"
  BY DEF Passes
<1> HIDE DEF s
<1>2. IsSequence(s)
  BY <1>1, IsSequenceOf
<1>3. ASSUME NEW m \in 1..10, s[m] \in Early
      PROVE  6 > m
  <2>1. m \notin {6, 7, 8, 9, 10}
    BY <1>1, <1>3 DEF Early
  <2> QED BY <2>1
<1>4. StagesInv(s)
  BY <1>1, <1>2, <1>3 DEF StagesInv
<1> QED BY <1>4 DEF s

LEMMA TailIs ==
  ASSUME NEW s, IsSequence(s), s # <<>>
  PROVE  /\ IsSequence(Tail(s)) /\ Len(s) \in Nat /\ Len(s) > 0 /\ DOMAIN s = 1..Len(s)
         /\ DOMAIN Tail(s) = 1..Len(s) - 1
         /\ \A n \in 1..Len(s) - 1 : Tail(s)[n] = s[n + 1]
         /\ Head(s) = s[1]
<1> DEFINE S == Range(s)
<1>1. s \in Seq(S)
  BY DEF IsSequence
<1> HIDE DEF S
<1>2. /\ Len(s) \in Nat /\ Len(s) > 0 /\ Head(s) = s[1] /\ Tail(s) \in Seq(S)
      /\ Len(Tail(s)) = Len(s) - 1 /\ \A n \in 1..Len(s) - 1 : Tail(s)[n] = s[n + 1]
  BY <1>1
<1>3. DOMAIN s = 1..Len(s) /\ DOMAIN Tail(s) = 1..Len(s) - 1
  BY <1>1, <1>2
<1>4. IsSequence(Tail(s))
  BY <1>2, SequenceIn
<1> QED BY <1>2, <1>3, <1>4

\* When what is left has no other pass to add relocations, the first was none of the early ones.
LEMMA TailStages ==
  ASSUME NEW s, StagesInv(s), s # <<>>
  PROVE  /\ StagesInv(Tail(s))
         /\ (~ \E n \in DOMAIN Tail(s) : Tail(s)[n] = "add") =>
              /\ Head(s) \notin Early
              /\ Head(s) # "add" => ~ \E n \in DOMAIN s : s[n] = "add"
<1> DEFINE left == Tail(s)
           len == Len(s)
<1>1. /\ IsSequence(left) /\ len \in Nat /\ len > 0 /\ DOMAIN s = 1..len
      /\ DOMAIN left = 1..len - 1
      /\ \A n \in 1..len - 1 : left[n] = s[n + 1]
      /\ Head(s) = s[1]
  BY TailIs DEF StagesInv
<1> HIDE DEF left, len
<1>2. ASSUME NEW m \in DOMAIN left, left[m] \in Early
      PROVE  \E n \in DOMAIN left : n > m /\ left[n] = "add"
  <2>1. m + 1 \in DOMAIN s /\ s[m + 1] \in Early
    BY <1>1, <1>2
  <2>2. PICK n \in DOMAIN s : n > m + 1 /\ s[n] = "add"
    BY <2>1 DEF StagesInv
  <2>3. n - 1 \in DOMAIN left /\ n - 1 > m /\ left[n - 1] = "add"
    BY <1>1, <2>2
  <2> QED BY <2>3
<1>3. StagesInv(left)
  BY <1>1, <1>2 DEF StagesInv
<1>4. ASSUME NEW n \in DOMAIN s, n > 1, s[n] = "add"
      PROVE  \E k \in DOMAIN left : left[k] = "add"
  <2>1. n - 1 \in DOMAIN left /\ left[n - 1] = "add"
    BY <1>1, <1>4
  <2> QED BY <2>1
<1>5. ASSUME Head(s) \in Early
      PROVE  \E k \in DOMAIN left : left[k] = "add"
  <2>1. 1 \in DOMAIN s /\ s[1] \in Early
    BY <1>1, <1>5
  <2>2. PICK n \in DOMAIN s : n > 1 /\ s[n] = "add"
    BY <2>1 DEF StagesInv
  <2> QED BY <2>2, <1>4
<1>6. ASSUME ~ \E k \in DOMAIN left : left[k] = "add", Head(s) # "add"
      PROVE  ~ \E n \in DOMAIN s : s[n] = "add"
  <2> SUFFICES ASSUME NEW n \in DOMAIN s, s[n] = "add" PROVE FALSE
    OBVIOUS
  <2>1. n = 1
    BY <1>1, <1>4, <1>6
  <2> QED BY <2>1, <1>1, <1>6
<1> QED BY <1>3, <1>5, <1>6 DEF left

----------------------------------------------------------------------------
(***************************************************************************)
(* What is written is a symbols file again.                                *)
(***************************************************************************)
ListedTurn(c, is, i) ==
  LET shown == c.o.t.symbols[i].kind # "section" /\ "nowrite" \notin c.o.t.symbols[i].flags
      key(j) == LET sym == c.o.t.symbols[j] IN <<sym.name, sym.section, sym.addr>>
      seen == {key(j) : j \in Range(is)}
  IN  IF shown /\ key(i) \notin seen THEN Append(is, i) ELSE is
Lines(c, T, is) == IsSequence(is) /\ Range(is) \subseteq DOMAIN c.o.t.symbols
OverListed == INSTANCE Loops WITH Turn <- ListedTurn, Less <- NoOrder, Holds <- Lines

LEMMA ListedAre ==
  ASSUME NEW o, ObjInv(o)
  PROVE  IsSequence(Listed(o)) /\ Range(Listed(o)) \subseteq DOMAIN o.t.symbols
<1> DEFINE c == [o |-> o]
           s == Ordered(o)
           n == Len(s)
<1>1. Listed(o) = OverListed!OverSequence(c, <<>>, s)
  BY DEF Listed, FoldLeft, MapThenFoldSet, Max, OverListed!OverSequence,
         OverListed!FoldLeft, OverListed!MapThenFoldSet, OverListed!Max, ListedTurn
<1>2. IsSequence(s) /\ Range(s) \subseteq DOMAIN o.t.symbols
  BY OrderedShape DEF ObjInv
<1> HIDE DEF s
<1>3. n \in Nat /\ DOMAIN s = 1..n /\ \A i \in 1..n : s[i] \in DOMAIN o.t.symbols
  BY <1>2, SequenceShape
<1>4. c.o = o
  OBVIOUS
<1> HIDE DEF c, n
<1>5. Lines(c, {}, <<>>)
  BY EmptySequence DEF Lines, Range
<1>6. ASSUME NEW T \in SUBSET (1..n), NEW i \in T, NEW is, \A j \in T : j <= i, Lines(c, T \ {i}, is)
      PROVE  Lines(c, T, ListedTurn(c, is, s[i]))
  <2>1. ListedTurn(c, is, s[i]) \in {is, Append(is, s[i])}
    BY DEF ListedTurn
  <2>2. /\ IsSequence(Append(is, s[i])) /\ Len(Append(is, s[i])) = Len(is) + 1
        /\ \A j \in 1..Len(is) : Append(is, s[i])[j] = is[j]
        /\ Append(is, s[i])[Len(is) + 1] = s[i]
    BY <1>6, Appended DEF Lines
  <2>3. Len(is) \in Nat /\ DOMAIN is = 1..Len(is)
    BY <1>6, SequenceShape DEF Lines
  <2>4. DOMAIN Append(is, s[i]) = 1..Len(is) + 1
    BY <2>2, SequenceShape
  <2>5. s[i] \in DOMAIN c.o.t.symbols
    BY <1>3, <1>4
  <2>6. Range(Append(is, s[i])) \subseteq DOMAIN c.o.t.symbols
    BY <2>2, <2>3, <2>4, <2>5, <1>6 DEF Range, Lines
  <2> QED BY <2>1, <2>2, <2>6, <1>6 DEF Lines
<1>7. Lines(c, 1..n, OverListed!OverSequence(c, <<>>, s))
  BY <1>3, <1>5, <1>6, OverListed!SequenceInduction
<1> QED BY <1>1, <1>4, <1>7 DEF Lines

LEMMA WrittenIs ==
  ASSUME NEW o, ObjInv(o)
  PROVE  IsFile(Written(o))
<1> DEFINE listed == Listed(o)
           file == Written(o)
           n == Len(listed)
<1>1. file = [i \in DOMAIN listed |-> LineOf(o, o.t.symbols[listed[i]])]
  BY DEF Written
<1>2. IsSequence(listed) /\ Range(listed) \subseteq DOMAIN o.t.symbols
  BY ListedAre
<1> HIDE DEF listed, file
<1>3. n \in Nat /\ DOMAIN listed = 1..n /\ \A i \in 1..n : listed[i] \in DOMAIN o.t.symbols
  BY <1>2, SequenceShape
<1> HIDE DEF n
<1>4. IsSequence(file)
  <2>1. file = [i \in 1..n |-> file[i]]
    BY <1>1, <1>3
  <2> QED BY <2>1, <1>3, IsSequenceOf
<1>5. ASSUME NEW i \in 1..n
      PROVE  file[i].addr \in Int
  <2>1. file[i] = LineOf(o, o.t.symbols[listed[i]])
    BY <1>1, <1>3
  <2>2. IsSymbol(o.t.symbols[listed[i]])
    BY <1>3 DEF ObjInv, TableInv
  <2>3. LineOf(o, o.t.symbols[listed[i]]).addr = o.t.symbols[listed[i]].addr
    BY DEF LineOf
  <2> QED BY <2>1, <2>2, <2>3 DEF IsSymbol
<1>6. \A line \in Range(file) : line.addr \in Int
  BY <1>1, <1>3, <1>5 DEF Range
<1> QED BY <1>4, <1>6 DEF IsFile, file

----------------------------------------------------------------------------
(***************************************************************************)
(* The steps.                                                              *)
(***************************************************************************)
\* What a pass does to the object, and what is left of the passes.
PassStep(name) ==
  /\ stage # <<>> /\ Head(stage) = name
  /\ stage' = IF obj'.ok THEN Tail(stage) ELSE <<>>
  /\ program' = program /\ written' = written
  /\ Follows(obj, obj')
  /\ name \notin {"load", "analyse"} => Renames(obj.t, obj'.t)
  /\ name = "analyse" => RenamesBut(obj.t, obj'.t, Range(Analysed(obj, program).symbols))
  /\ name = "add" /\ obj'.ok => AllAdded(program.added, DOMAIN program.added, obj')
  /\ name \in {"track", "objects", "strings"} => Relabels(obj.t, obj'.t) /\ RelocsStay(obj, obj')
  /\ name = "objects" => obj' = DetectObjects(obj)

LEMMA FileIs ==
  ASSUME TypeInv
  PROVE  IsFile(File)
<1>1. CASE written = <<>>
  BY <1>1, ProgramIs DEF File, TypeInv
<1>2. CASE written # <<>>
  <2>1. Len(written) \in DOMAIN written
    BY <1>2, TailIs DEF TypeInv
  <2> QED BY <1>2, <2>1 DEF File, TypeInv
<1> QED BY <1>1, <1>2

\* A pass gets from its result what the lemma of its operator says.
LEMMA PassIs ==
  ASSUME NEW name, NEW result, Pass(name, result), Follows(obj, result),
         name \notin {"load", "analyse"} => Renames(obj.t, result.t),
         name = "analyse" => RenamesBut(obj.t, result.t, Range(Analysed(obj, program).symbols)),
         name = "add" /\ result.ok => AllAdded(program.added, DOMAIN program.added, result),
         name \in {"track", "objects", "strings"} => Relabels(obj.t, result.t) /\ RelocsStay(obj, result),
         name = "objects" => result = DetectObjects(obj)
  PROVE  PassStep(name)
BY DEF Pass, PassStep

LEMMA NextIs ==
  ASSUME TypeInv, Next
  PROVE  \/ Write
         \/ \E name \in Early \cup {"add", "track", "objects", "strings"} : PassStep(name)
<1> USE DEF Early
<1>1. ObjInv(obj) /\ program \in Programs
  BY DEF TypeInv
<1>2. CASE Load
  <2>1. Follows(obj, ApplyFile(obj, File))
    BY <1>1, FileIs, FileFollows DEF IsFile
  <2>2. PassStep("load")
    BY <1>2, <2>1, PassIs DEF Load
  <2> QED BY <2>2
<1>3. CASE Block
  <2>1. IsSequence(program.blocks)
    BY <1>1, ProgramIs
  <2>2. Follows(obj, ApplyBlocks(obj, program)) /\ Renames(obj.t, ApplyBlocks(obj, program).t)
    BY <1>1, <2>1, BlocksFollow DEF Renames
  <2>3. PassStep("block")
    BY <1>3, <2>2, PassIs DEF Block
  <2> QED BY <2>3
<1>4. CASE Signatures
  <2>1. PassStep("signatures")
    BY <1>1, <1>4, SignaturesFollow, PassIs DEF Signatures
  <2> QED BY <2>1
<1>5. CASE Analyse
  <2>1. PassStep("analyse")
    BY <1>1, <1>5, AnalysisFollows, PassIs DEF Analyse
  <2> QED BY <2>1
<1>6. CASE UpdateCtorsDtors
  <2>1. PassStep("lists")
    BY <1>1, <1>6, ListsFollow, PassIs DEF UpdateCtorsDtors
  <2> QED BY <2>1
<1>7. CASE AddRelocations
  <2>1. PassStep("add")
    BY <1>1, <1>7, AllFollows, RelabelsRenames, PassIs DEF AddRelocations
  <2> QED BY <2>1
<1>8. CASE Track
  <2>1. PassStep("track")
    BY <1>1, <1>8, TrackedFollows, RelabelsRenames, PassIs DEF Track
  <2> QED BY <2>1
<1>9. CASE Objects
  <2>1. PassStep("objects")
    BY <1>1, <1>9, ObjectsFollow, RelabelsRenames, PassIs DEF Objects
  <2> QED BY <2>1
<1>10. CASE Strings
  <2>1. PassStep("strings")
    BY <1>1, <1>10, StringsFollow, RelabelsRenames, PassIs DEF Strings
  <2> QED BY <2>1
<1> QED
  BY <1>2, <1>3, <1>4, <1>5, <1>6, <1>7, <1>8, <1>9, <1>10 DEF Next

LEMMA InitIs ==
  ASSUME Init
  PROVE  RunsInv
<1>1. /\ program \in Programs /\ stage = Passes(program) /\ obj = Fresh(program, program.sections)
      /\ written = <<>>
  BY DEF Init
<1>2. TypeInv
  BY <1>1, ProgramIs, FreshIs, EmptySequence DEF TypeInv
<1>3. StagesInv(stage)
  BY <1>1, PassesAre
<1>4. ~Passed("add")
  <2>1. 6 \in DOMAIN stage /\ stage[6] = "add"
    BY <1>1 DEF Passes
  <2> QED BY <2>1 DEF Passed
<1> QED BY <1>2, <1>3, <1>4 DEF RunsInv, AddedInv

LEMMA PassKeeps ==
  ASSUME RunsInv, NEW name \in Early \cup {"add", "track", "objects", "strings"}, PassStep(name)
  PROVE  RunsInv'
<1>1. TypeInv'
  BY DEF RunsInv, TypeInv, PassStep, Follows
<1>2. stage # <<>> /\ Head(stage) = name /\ stage' = IF obj'.ok THEN Tail(stage) ELSE <<>>
  BY DEF PassStep
<1>3. /\ StagesInv(Tail(stage))
      /\ (~ \E n \in DOMAIN Tail(stage) : Tail(stage)[n] = "add") =>
              /\ Head(stage) \notin Early
              /\ Head(stage) # "add" => ~ \E n \in DOMAIN stage : stage[n] = "add"
  BY <1>2, TailStages DEF RunsInv
<1>4. StagesInv(stage')
  <2>1. StagesInv(<<>>)
    BY EmptySequence DEF StagesInv
  <2> QED BY <1>2, <1>3, <2>1
<1>5. ASSUME stage' # <<>>, Passed("add")'
      PROVE  AllAdded(program.added, DOMAIN program.added, obj)'
  <2>1. obj'.ok /\ stage' = Tail(stage)
    BY <1>2, <1>5
  <2>2. ~ \E n \in DOMAIN Tail(stage) : Tail(stage)[n] = "add"
    BY <2>1, <1>5 DEF Passed
  <2>3. name \notin Early /\ (name # "add" => Passed("add"))
    BY <1>2, <1>3, <2>2 DEF Passed
  <2>4. CASE name = "add"
    BY <2>1, <2>4 DEF PassStep
  <2>5. CASE name # "add"
    <3>1. AllAdded(program.added, DOMAIN program.added, obj)
      BY <1>2, <2>3, <2>5 DEF RunsInv, AddedInv
    <3>2. Relabels(obj.t, obj'.t) /\ RelocsStay(obj, obj') /\ program' = program
      BY <2>3, <2>5 DEF PassStep
    <3>3. ObjInv(obj)
      BY DEF RunsInv, TypeInv
    <3>4. ASSUME NEW n \in DOMAIN program.added, LastIn(program.added, DOMAIN program.added, n)
          PROVE  HasAdded(obj', program.added[n])
      <4>1. HasAdded(obj, program.added[n])
        BY <3>1, <3>4 DEF AllAdded
      <4>2. /\ program.added[n].at \in DOMAIN obj'.relocs
            /\ obj'.relocs[program.added[n].at] = obj.relocs[program.added[n].at]
        BY <3>2, <4>1 DEF RelocsStay, HasAdded
      <4> QED BY <3>2, <3>3, <4>1, <4>2, AddedStays
    <3> QED BY <3>2, <3>4 DEF AllAdded
  <2> QED BY <2>4, <2>5
<1>6. AddedInv'
  BY <1>5 DEF AddedInv
<1> QED BY <1>1, <1>4, <1>6 DEF RunsInv

LEMMA WriteKeeps ==
  ASSUME RunsInv, Write
  PROVE  RunsInv'
<1> DEFINE sections == [i \in DOMAIN obj.sections |-> [obj.sections[i] EXCEPT !.known = TRUE]]
<1>1. /\ program' = program /\ written' = Append(written, Written(obj))
      /\ stage' \in {Passes(program), <<>>}
      /\ obj' \in {obj, Fresh(program, sections)}
  BY DEF Write
<1>2. ObjInv(obj) /\ IsSequence(written) /\ \A n \in DOMAIN written : IsFile(written[n])
  BY DEF RunsInv, TypeInv
<1>3. IsSequence(written') /\ \A n \in DOMAIN written' : IsFile(written'[n])
  <2> DEFINE file == Written(obj)
  <2>1. IsFile(file)
    BY <1>2, WrittenIs
  <2> HIDE DEF file
  <2>2. /\ IsSequence(Append(written, file)) /\ Len(Append(written, file)) = Len(written) + 1
        /\ \A n \in 1..Len(written) : Append(written, file)[n] = written[n]
        /\ Append(written, file)[Len(written) + 1] = file
    BY <1>2, Appended
  <2>3. /\ Len(written) \in Nat /\ DOMAIN written = 1..Len(written)
        /\ DOMAIN Append(written, file) = 1..Len(written) + 1
    BY <1>2, <2>2, SequenceShape
  <2>4. written' = Append(written, file)
    BY <1>1 DEF file
  <2>5. ASSUME NEW n \in DOMAIN written'
        PROVE  IsFile(written'[n])
    <3>1. n \in 1..Len(written) \/ n = Len(written) + 1
      BY <2>3, <2>4
    <3> QED BY <3>1, <2>1, <2>2, <2>3, <2>4, <1>2
  <2> QED BY <2>2, <2>4, <2>5
<1>4. SectionsInv(sections) /\ DOMAIN sections = DOMAIN obj.sections
  <2>1. /\ Len(obj.sections) \in Nat /\ DOMAIN obj.sections = 1..Len(obj.sections)
        /\ \A i \in DOMAIN obj.sections :
             /\ DOMAIN obj.sections[i] = {"name", "kind", "start", "end", "known"}
             /\ obj.sections[i].start \in Int /\ obj.sections[i].end \in Int
    BY <1>2, SequenceShape DEF ObjInv, SectionsInv
  <2>2. sections = [i \in 1..Len(obj.sections) |-> sections[i]] /\ DOMAIN sections = DOMAIN obj.sections
    BY <2>1
  <2>3. \A i \in DOMAIN sections :
          /\ DOMAIN sections[i] = {"name", "kind", "start", "end", "known"}
          /\ sections[i].start \in Int /\ sections[i].end \in Int
    BY <2>1
  <2> HIDE DEF sections
  <2>4. IsSequence(sections)
    BY <2>1, <2>2, IsSequenceOf
  <2> QED BY <2>2, <2>3, <2>4 DEF SectionsInv
<1> HIDE DEF sections
<1>5. ObjInv(obj') /\ DOMAIN obj'.sections = DOMAIN program.sections /\ obj'.splits = program.splits
  <2>1. DOMAIN obj.sections = DOMAIN program.sections /\ obj.splits = program.splits
    BY DEF RunsInv, TypeInv
  <2>2. /\ ObjInv(Fresh(program, sections)) /\ Fresh(program, sections).sections = sections
        /\ Fresh(program, sections).splits = program.splits
    BY <1>4, FreshIs
  <2> QED BY <1>1, <1>2, <1>4, <2>1, <2>2
<1>6. TypeInv'
  BY <1>1, <1>3, <1>5 DEF RunsInv, TypeInv
<1>7. StagesInv(stage')
  <2>1. StagesInv(<<>>)
    BY EmptySequence DEF StagesInv
  <2> QED BY <1>1, <2>1, PassesAre
<1>8. AddedInv'
  <2> SUFFICES ASSUME stage' # <<>> PROVE ~Passed("add")'
    BY DEF AddedInv
  <2>1. stage' = Passes(program)
    BY <1>1
  <2>2. 6 \in DOMAIN Passes(program) /\ Passes(program)[6] = "add"
    BY DEF Passes
  <2> QED BY <2>1, <2>2 DEF Passed
<1> QED BY <1>6, <1>7, <1>8 DEF RunsInv

\* Whatever the passes do to an object, its symbols, sections and relocations fit
\* together, and so do the passes that are left with what was added.
THEOREM RunsAreTyped ==
  ObjectsSpec => []RunsInv
<1>1. Init => RunsInv
  BY InitIs
<1>2. RunsInv /\ [Next]_vars => RunsInv'
  <2> SUFFICES ASSUME RunsInv, [Next]_vars PROVE RunsInv'
    OBVIOUS
  <2>1. CASE UNCHANGED vars
    BY <2>1 DEF vars, RunsInv, TypeInv, AddedInv, Passed
  <2>2. CASE Next
    <3>1. CASE Write
      BY <3>1, WriteKeeps
    <3>2. CASE \E name \in Early \cup {"add", "track", "objects", "strings"} : PassStep(name)
      BY <3>2, PassKeeps
    <3> QED BY <2>2, <3>1, <3>2, NextIs DEF RunsInv
  <2> QED BY <2>1, <2>2
<1> QED
  BY <1>1, <1>2, PTL DEF ObjectsSpec

----------------------------------------------------------------------------
(***************************************************************************)
(* The properties of the runs.                                             *)
(***************************************************************************)
\* IndicesAgree for every object: the indices by name, address and section
\* agree with the symbols after every pass.
THEOREM IndicesAlwaysAgree ==
  ObjectsSpec => []IndicesAgree
<1>1. TypeInv => IndicesAgree
  <2> SUFFICES ASSUME TypeInv PROVE IndicesAgree
    OBVIOUS
  <2> DEFINE t == obj.t
             finds(index, K, H) ==
               /\ \A k \in DOMAIN index : \A n \in DOMAIN index[k] :
                    /\ index[k][n] \in H /\ K[index[k][n]] = k
                    /\ \A m \in 1..n - 1 : index[k][m] # index[k][n]
               /\ \A i \in H : i \in Range(At(index, K[i]))
  <2>1. ASSUME NEW index, NEW K, NEW H, Index(index, K, H)
        PROVE  finds(index, K, H)
    BY <2>1 DEF Index, At, Range
  <2>2. /\ Index(t.byAddr, Addrs(t), DOMAIN t.symbols)
        /\ Index(t.bySec, Places(t), Placed(t))
        /\ Index(t.byName, NamesOf(t), Named(t))
    BY DEF TypeInv, ObjInv, TableInv
  <2>3. /\ finds(t.byAddr, Addrs(t), DOMAIN t.symbols)
        /\ finds(t.bySec, Places(t), Placed(t))
        /\ finds(t.byName, NamesOf(t), Named(t))
    <3> HIDE DEF finds, t
    <3> QED BY <2>1, <2>2
  <2>4. /\ \A k \in DOMAIN t.byName : \A n \in DOMAIN t.byName[k] :
             /\ t.symbols[t.byName[k][n]].name = k
             /\ \A m \in 1..n - 1 : t.byName[k][m] # t.byName[k][n]
        /\ \A i \in DOMAIN t.symbols :
             t.symbols[i].name # <<>> => i \in Range(At(t.byName, t.symbols[i].name))
    BY <2>3 DEF NamesOf, Named
  <2>5. /\ \A k \in DOMAIN t.byAddr : \A n \in DOMAIN t.byAddr[k] :
             /\ t.symbols[t.byAddr[k][n]].addr = k
             /\ \A m \in 1..n - 1 : t.byAddr[k][m] # t.byAddr[k][n]
        /\ \A i \in DOMAIN t.symbols : i \in Range(At(t.byAddr, t.symbols[i].addr))
    BY <2>3 DEF Addrs
  <2>6. /\ \A k \in DOMAIN t.bySec : \A n \in DOMAIN t.bySec[k] :
             /\ <<t.symbols[t.bySec[k][n]].section, t.symbols[t.bySec[k][n]].addr>> = k
             /\ \A m \in 1..n - 1 : t.bySec[k][m] # t.bySec[k][n]
        /\ \A i \in DOMAIN t.symbols :
             t.symbols[i].section # None =>
               i \in Range(At(t.bySec, <<t.symbols[i].section, t.symbols[i].addr>>))
    BY <2>3 DEF Places, Placed
  <2> QED BY <2>4, <2>5, <2>6 DEF IndicesAgree
<1> QED
  BY <1>1, RunsAreTyped, PTL DEF RunsInv

\* AddedKept for every object: once the relocations of the configuration are in
\* the object, no later pass takes one of them, or changes what it refers to.
THEOREM AddedAlwaysKept ==
  ObjectsSpec => []AddedKept
<1>1. ASSUME NEW added, NEW o, AllAdded(added, DOMAIN added, o)
      PROVE  \A n \in DOMAIN added :
               (\A m \in DOMAIN added : m > n => added[m].at # added[n].at) => HasAdded(o, added[n])
  <2> HIDE DEF HasAdded
  <2> QED BY <1>1 DEF AllAdded, LastIn
<1>2. ASSUME RunsInv, stage # <<>>, Passed("add")
      PROVE  AllAdded(program.added, DOMAIN program.added, obj)
  BY <1>2 DEF RunsInv, AddedInv
<1>3. RunsInv => AddedKept
  <2> SUFFICES ASSUME RunsInv PROVE AddedKept
    OBVIOUS
  <2> DEFINE last(n) == \A m \in DOMAIN program.added : m > n => program.added[m].at # program.added[n].at
  <2>1. ASSUME stage # <<>>, Passed("add"), NEW n \in DOMAIN program.added, last(n)
        PROVE  HasAdded(obj, program.added[n])
    <3> HIDE DEF HasAdded
    <3> QED BY <2>1, <1>1, <1>2
  <2> HIDE DEF last
  <2>2. ASSUME stage # <<>>, Passed("add"), NEW n \in DOMAIN program.added, last(n)
        PROVE  /\ program.added[n].at \in DOMAIN obj.relocs
               /\ obj.relocs[program.added[n].at].kind = program.added[n].kind
               /\ obj.relocs[program.added[n].at].addend = program.added[n].addend
               /\ \/ obj.t.symbols[obj.relocs[program.added[n].at].symbol].name = program.added[n].name
                  \/ IsAuto(obj.t.symbols[obj.relocs[program.added[n].at].symbol])
    <3>1. HasAdded(obj, program.added[n])
      BY <2>1, <2>2
    <3> QED BY <3>1, Zenon DEF HasAdded
  <2> QED BY <2>2, Zenon DEF AddedKept, last
<1> QED
  BY <1>3, RunsAreTyped, PTL

\* One guess of detect_objects crosses no boundary, or is the size of the data.
LEMMA GuessFits ==
  ASSUME NEW o, ObjInv(o), NEW section \in DOMAIN o.sections, SplitsInv(o.splits[section]),
         NEW data, NEW sym, sym.addr \in Int,
         sym.size \in {DataSize(data), NextBoundary(o, section, sym.addr) - sym.addr},
         Crosses(sym, o.splits[section])
  PROVE  sym.size = DataSize(data)
<1> DEFINE splits == o.splits[section]
           next == NextBoundary(o, section, sym.addr)
           fits(n) ==
             \A r \in splits :
               /\ sym.addr < r.start => n <= r.start
               /\ /\ r.start <= sym.addr /\ sym.addr < r.end
                  /\ \A q \in splits \ {r} : q.start < r.start \/ r.end <= q.start
                  => n <= r.end
<1>1. next \in Int /\ fits(next)
  BY BoundaryIs
<1> SUFFICES ASSUME sym.size = next - sym.addr PROVE FALSE
  OBVIOUS
<1>2. PICK s \in splits : CrossesStart(sym, s) \/ CrossesEnd(sym, s, splits)
  BY DEF Crosses
<1>3. s.start \in Int /\ s.end \in Int
  BY <1>2 DEF SplitsInv
<1>4. sym.addr + sym.size = next
  <2> HIDE DEF next
  <2> QED BY <1>1
<1>5. CASE CrossesStart(sym, s)
  <2>1. next <= s.start /\ s.start < next
    <3> HIDE DEF next
    <3> QED BY <1>1, <1>2, <1>4, <1>5 DEF CrossesStart
  <2> HIDE DEF next
  <2> QED BY <1>1, <1>3, <2>1
<1>6. CASE CrossesEnd(sym, s, splits)
  <2>1. next <= s.end /\ s.end < next
    <3> HIDE DEF next, splits
    <3> QED BY <1>1, <1>2, <1>4, <1>6 DEF CrossesEnd
  <2> HIDE DEF next
  <2> QED BY <1>1, <1>3, <2>1
<1> QED BY <1>2, <1>5, <1>6

\* GuessesBounded for every object: where a size that detect_objects guesses crosses
\* a boundary of the splits, it is the size of the data and no more.
THEOREM GuessesAlwaysBounded ==
  ObjectsSpec => GuessesBounded
<1>1. RunsInv /\ [Next]_vars => [SizesBounded]_vars
  <2> SUFFICES ASSUME RunsInv, Next, NEW i \in DOMAIN obj.t.symbols, Guessed(i),
                      Crosses(obj'.t.symbols[i], obj.splits[obj'.t.symbols[i].section])
               PROVE  obj'.t.symbols[i].size = DataSize(obj.t.symbols[i].data)
    BY DEF SizesBounded
  <2>1. obj' = DetectObjects(obj)
    <3>1. CASE Write
      <4>1. stage = <<"write">>
        BY <3>1 DEF Write
      <4>2. Head(stage) = "write"
        BY <4>1
      <4> QED BY <4>2 DEF Guessed
    <3>2. CASE \E name \in Early \cup {"add", "track", "objects", "strings"} : PassStep(name)
      BY <3>2 DEF PassStep, Guessed
    <3> QED BY <3>1, <3>2, NextIs DEF RunsInv
  <2>2. ObjInv(obj) /\ \A k \in DOMAIN obj.sections : SplitsInv(obj.splits[k])
    BY ProgramIs DEF RunsInv, TypeInv
  <2> DEFINE old == obj.t.symbols[i]
             sym == obj'.t.symbols[i]
             new == Normalized(Detect(obj, old.section, old))
  <2>3. sym = IF i \in Seen(obj) THEN new ELSE old
    BY <2>1, <2>2, ObjectsFollow
  <2>4. i \in Seen(obj) /\ sym = new
    BY <2>3 DEF Guessed
  <2>5. IsSymbol(old)
    BY <2>2 DEF ObjInv, TableInv
  <2>6. old.section \in DOMAIN obj.sections /\ ~old.known
    BY <2>2, <2>4, SeenIs DEF Guessed
  <2>7. Retypes(old, new) /\ new.size = GuessedSize(obj, old.section, old)
    <3> HIDE DEF old
    <3> QED BY <2>5, <2>6, DetectedSymbol
  <2>8. new.size \in {DataSize(old.data), NextBoundary(obj, old.section, old.addr) - old.addr}
    <3> HIDE DEF new, old
    <3> QED BY <2>7, GuessIs
  <2>9. new.section = old.section /\ new.addr = old.addr /\ new.addr \in Int
    <3> HIDE DEF new, old
    <3> QED BY <2>5, <2>7 DEF Retypes, IsSymbol
  <2>10. Crosses(new, obj.splits[old.section])
    <3>1. Crosses(sym, obj.splits[sym.section])
      OBVIOUS
    <3> HIDE DEF new, old, sym
    <3> QED BY <2>4, <2>9, <3>1
  <2>11. new.size = DataSize(old.data)
    <3> HIDE DEF new, old
    <3> QED BY <2>2, <2>6, <2>8, <2>9, <2>10, GuessFits
  <2> QED BY <2>4, <2>11
<1> QED
  BY <1>1, RunsAreTyped, PTL DEF ObjectsSpec, GuessesBounded

\* NamesKept for every object: a name of the symbols file stays at its address in
\* every pass; in that of the analysis, unless that knows something there by name.
THEOREM NamesAlwaysKept ==
  ObjectsSpec => NamesKept
<1>1. RunsInv /\ [Next]_vars => [FileNamesStay]_vars
  <2> SUFFICES ASSUME RunsInv, Next, stage # <<>>, Head(stage) \notin {"load", "write"}
               PROVE  FileNamesStay
    BY DEF FileNamesStay
  <2> DEFINE known == IF Head(stage) = "analyse" THEN Range(Analysed(obj, program).symbols) ELSE {}
             has(o, line) ==
               \E i \in Range(ForName(o.t, line.name)) :
                 o.t.symbols[i].section = Place(line) /\ o.t.symbols[i].addr = line.addr
  <2>1. PICK name \in Early \cup {"add", "track", "objects", "strings"} : PassStep(name)
    <3>1. CASE Write
      <4>1. stage = <<"write">>
        BY <3>1 DEF Write
      <4>2. Head(stage) = "write"
        BY <4>1
      <4> QED BY <4>2
    <3> QED BY <3>1, NextIs DEF RunsInv
  <2>2. Follows(obj, obj') /\ RenamesBut(obj.t, obj'.t, known)
    BY <2>1 DEF PassStep, Renames, RenamesBut
  <2> HIDE DEF known
  <2>3. TableInv(obj.t) /\ TableInv(obj'.t) /\ Grown(obj.t, obj'.t)
    BY <2>2 DEF RunsInv, TypeInv, Follows, ObjInv
  <2>4. ASSUME NEW line \in Range(program.file), has(obj, line), ~IsAuto(line),
               ~ \E sym \in known : /\ Place(line) = sym.section
                                    /\ sym.addr <= line.addr /\ line.addr <= sym.addr + sym.size
        PROVE  has(obj', line)
    <3>1. PICK i \in Range(ForName(obj.t, line.name)) :
            obj.t.symbols[i].section = Place(line) /\ obj.t.symbols[i].addr = line.addr
      BY <2>4
    <3>2. i \in Named(obj.t) /\ NamesOf(obj.t)[i] = line.name
      BY EmptySequence, <2>3 DEF ForName, At, Range, Index, TableInv
    <3>3. i \in DOMAIN obj.t.symbols /\ obj.t.symbols[i].name = line.name /\ line.name # <<>>
      BY <3>2 DEF Named, NamesOf
    <3>4. obj'.t.symbols[i].name = line.name
      BY <3>1, <3>3, <2>2, <2>4 DEF RenamesBut, IsAuto, Covers
    <3>5. /\ i \in DOMAIN obj'.t.symbols
          /\ obj'.t.symbols[i].section = Place(line) /\ obj'.t.symbols[i].addr = line.addr
      BY <3>1, <3>3, <2>3 DEF Grown
    <3>6. i \in Named(obj'.t) /\ NamesOf(obj'.t)[i] = line.name
      BY <3>3, <3>4, <3>5 DEF Named, NamesOf
    <3>7. i \in Range(ForName(obj'.t, line.name))
      BY <3>6, <2>3 DEF ForName, At, Range, Index, TableInv
    <3> QED BY <3>5, <3>7
  <2> QED BY <2>4 DEF FileNamesStay, known
<1> QED
  BY <1>1, RunsAreTyped, PTL DEF ObjectsSpec, NamesKept
=============================================================================
