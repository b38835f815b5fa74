------------------------------ MODULE SeqLemmas ------------------------------
(***************************************************************************)
(* Lemmas that the proofs about several components cite: induction over    *)
(* numbers, as a least counterexample; what FlattenSeq, which is a         *)
(* recursive function, returns; sequences of anything, put together and    *)
(* cut.                                                                    *)
(***************************************************************************)
EXTENDS Integers, SequencesExt, SequenceTheorems, WellFoundedInduction, TLAPS

-----------------------------------------------------------------------------
(* Induction over numbers, and what FlattenSeq returns.                    *)

Smaller == {p \in Nat \X Nat : p[1] < p[2]}

\* A set of numbers that is not empty has a least one.
LEMMA Least ==
  ASSUME NEW S, S \subseteq Nat, S # {}
  PROVE  \E m \in S : \A k \in S : m <= k
<1>1. IsWellFoundedOn(Smaller, Nat)
  BY NatLessThanWellFounded DEF OpToRel, Smaller
<1>2. \A x, y \in Nat : y < x => <<y, x>> \in Smaller
  BY DEF Smaller
<1>3. PICK m \in S : \A y \in S : ~(<<y, m>> \in Smaller)
  BY <1>1, WFMin
<1>4. ASSUME NEW k \in S PROVE m <= k
  <2>1. k \in Nat /\ m \in Nat
    OBVIOUS
  <2>2. ~(k < m)
    BY <1>2, <1>3, <2>1
  <2> QED BY <2>1, <2>2
<1> QED BY <1>4

\* A set of numbers with every number of which it has all smaller ones has all.
LEMMA Induction ==
  ASSUME NEW S, \A n \in Nat : (\A k \in 0 .. n - 1 : k \in S) => n \in S
  PROVE  \A n \in Nat : n \in S
<1> DEFINE D == {n \in Nat : n \notin S}
<1> SUFFICES ASSUME D # {} PROVE FALSE
  OBVIOUS
<1>1. PICK m \in D : \A k \in D : m <= k
  <2>1. D \subseteq Nat
    OBVIOUS
  <2> HIDE DEF D
  <2> QED BY <2>1, Least
<1>2. \A k \in 0 .. m - 1 : k \in S
  BY <1>1
<1> QED BY <1>1, <1>2

\* f is what FlattenSeq has put together of s after each of n sequences.
Flattens(f, s, n) == f = [i \in 1 .. n |-> IF i = 1 THEN s[i] ELSE f[i - 1] \o s[i]]

LEMMA FlattensExists ==
  ASSUME NEW s, NEW n \in Nat
  PROVE  \E f : Flattens(f, s, n)
<1> DEFINE S == {k \in Nat : \E f : Flattens(f, s, k)}
<1>1. ASSUME NEW m \in Nat, \A k \in 0 .. m - 1 : k \in S PROVE m \in S
  <2>1. CASE m = 0
    <3> DEFINE f == [i \in 1 .. 0 |-> 0]
    <3>1. f = [i \in 1 .. 0 |-> IF i = 1 THEN s[i] ELSE f[i - 1] \o s[i]]
      OBVIOUS
    <3>2. Flattens(f, s, 0)
      BY <3>1 DEF Flattens
    <3> QED BY <2>1, <3>2
  <2>2. CASE m # 0
    <3>1. m - 1 \in 0 .. m - 1
      BY <2>2
    <3>2. PICK g : Flattens(g, s, m - 1)
      BY <1>1, <3>1
    <3> DEFINE f == [i \in 1 .. m |-> IF i = m THEN (IF m = 1 THEN s[1] ELSE g[m - 1] \o s[m]) ELSE g[i]]
    <3>3. \A i \in 1 .. m - 1 : g[i] = IF i = 1 THEN s[i] ELSE g[i - 1] \o s[i]
      BY <3>2 DEF Flattens
    <3>4. ASSUME NEW i \in 1 .. m PROVE f[i] = IF i = 1 THEN s[i] ELSE f[i - 1] \o s[i]
      <4>1. CASE i = m /\ i = 1
        BY <4>1
      <4>2. CASE i = m /\ i # 1
        <5>1. m - 1 \in 1 .. m /\ m - 1 # m
          BY <4>2
        <5>2. f[i - 1] = g[m - 1] /\ f[i] = g[m - 1] \o s[m]
          BY <4>2, <5>1
        <5> QED BY <4>2, <5>2
      <4>3. CASE i # m
        <5>1. i \in 1 .. m - 1 /\ (i # 1 => i - 1 \in 1 .. m /\ i - 1 # m)
          BY <4>3
        <5>2. f[i] = g[i] /\ (i # 1 => f[i - 1] = g[i - 1])
          BY <4>3, <5>1
        <5> HIDE DEF f
        <5> QED BY <3>3, <5>1, <5>2
      <4> QED BY <4>1, <4>2, <4>3
    <3>5. f = [i \in 1 .. m |-> f[i]]
      OBVIOUS
    <3> HIDE DEF f
    <3>6. Flattens(f, s, m)
      BY <3>4, <3>5 DEF Flattens
    <3> QED BY <3>6
  <2> QED BY <2>1, <2>2
<1> HIDE DEF S
<1>2. n \in S
  BY <1>1, Induction
<1> QED BY <1>2 DEF S

LEMMA FlattensAgree ==
  ASSUME NEW s, NEW t, NEW n \in Nat, NEW m \in Nat, NEW f, Flattens(f, s, n), NEW g, Flattens(g, t, m),
         n <= m, \A i \in 1 .. n : s[i] = t[i]
  PROVE  \A i \in 1 .. n : f[i] = g[i]
<1> DEFINE S == {k \in Nat : k \in 1 .. n => f[k] = g[k]}
<1>1. \A i \in 1 .. n : f[i] = IF i = 1 THEN s[i] ELSE f[i - 1] \o s[i]
  BY DEF Flattens
<1>2. \A i \in 1 .. m : g[i] = IF i = 1 THEN t[i] ELSE g[i - 1] \o t[i]
  BY DEF Flattens
<1>3. ASSUME NEW k \in Nat, \A j \in 0 .. k - 1 : j \in S PROVE k \in S
  <2> SUFFICES ASSUME k \in 1 .. n PROVE f[k] = g[k]
    OBVIOUS
  <2>1. k \in 1 .. m /\ s[k] = t[k]
    OBVIOUS
  <2>2. CASE k = 1
    BY <1>1, <1>2, <2>1, <2>2
  <2>3. CASE k # 1
    <3>1. k - 1 \in 0 .. k - 1 /\ k - 1 \in 1 .. n
      BY <2>3
    <3>2. f[k - 1] = g[k - 1]
      BY <1>3, <3>1
    <3>3. f[k] = f[k - 1] \o s[k]
      BY <1>1, <2>3
    <3>4. g[k] = g[k - 1] \o t[k]
      BY <1>2, <2>1, <2>3
    <3> QED BY <2>1, <3>2, <3>3, <3>4
  <2> QED BY <2>2, <2>3
<1> HIDE DEF S
<1>4. \A k \in Nat : k \in S
  BY <1>3, Induction
<1> QED BY <1>4 DEF S

LEMMA FlattenIs ==
  ASSUME NEW s, Len(s) \in Nat \ {0}
  PROVE  \E f : Flattens(f, s, Len(s)) /\ FlattenSeq(s) = f[Len(s)]
<1> DEFINE n == Len(s)
           flatten[i \in 1 .. n] == IF i = 1 THEN s[i] ELSE flatten[i - 1] \o s[i]
<1>1. FlattenSeq(s) = flatten[n]
  BY DEF FlattenSeq
<1>2. flatten = CHOOSE f : Flattens(f, s, n)
  BY DEF Flattens
<1>3. \E f : Flattens(f, s, n)
  BY FlattensExists
<1> HIDE DEF flatten
<1>4. Flattens(flatten, s, n)
  BY <1>2, <1>3, Zenon
<1> QED BY <1>1, <1>4
-----------------------------------------------------------------------------
LEMMA FlattenEmpty == FlattenSeq(<<>>) = <<>>
<1>1. Len(<<>>) = 0
  OBVIOUS
<1> QED BY <1>1 DEF FlattenSeq

LEMMA FlattenAppend ==
  ASSUME NEW S, NEW s \in Seq(Seq(S)), NEW x \in Seq(S)
  PROVE  FlattenSeq(Append(s, x)) = FlattenSeq(s) \o x
<1> DEFINE t == Append(s, x)
           n == Len(s)
<1>1. n \in Nat /\ Len(t) = n + 1 /\ t[n + 1] = x /\ \A i \in 1 .. n : s[i] = t[i]
  BY AppendProperties, LenProperties
<1> HIDE DEF t
<1>2. PICK g : Flattens(g, t, n + 1) /\ FlattenSeq(t) = g[n + 1]
  BY <1>1, FlattenIs
<1>3. \A i \in 1 .. n + 1 : g[i] = IF i = 1 THEN t[i] ELSE g[i - 1] \o t[i]
  BY <1>2 DEF Flattens
<1>4. CASE n = 0
  <2>1. s = <<>>
    BY <1>4, EmptySeq
  <2>2. <<>> \o x = x
    BY ConcatEmptySeq
  <2>3. g[1] = t[1]
    BY <1>3, <1>4
  <2> QED BY <1>1, <1>2, <1>4, <2>1, <2>2, <2>3, FlattenEmpty DEF t
<1>5. CASE n # 0
  <2>1. PICK f : Flattens(f, s, n) /\ FlattenSeq(s) = f[n]
    BY <1>1, <1>5, FlattenIs
  <2>2. n \in 1 .. n /\ n <= n + 1 /\ n + 1 \in Nat
    BY <1>1, <1>5
  <2>4. g[n + 1] = g[n] \o t[n + 1]
    <3> HIDE DEF n
    <3>0. n \in Nat
      BY <1>1
    <3>1. n + 1 \in 1 .. n + 1 /\ n + 1 # 1 /\ n + 1 - 1 = n
      BY <3>0, <1>5
    <3>2. PICK k : k = n + 1
      OBVIOUS
    <3>3. k \in 1 .. n + 1 /\ k # 1 /\ k - 1 = n
      BY <3>0, <3>1, <3>2
    <3>4. g[k] = g[k - 1] \o t[k]
      BY <1>3, <3>3
    <3> QED BY <3>2, <3>3, <3>4
  <2> HIDE DEF n
  <2>3. f[n] = g[n]
    BY <1>1, <1>2, <2>1, <2>2, FlattensAgree
  <2> QED BY <1>1, <1>2, <2>1, <2>3, <2>4 DEF t
<1> QED BY <1>4, <1>5

LEMMA FlattenType ==
  ASSUME NEW S, NEW s \in Seq(Seq(S))
  PROVE  FlattenSeq(s) \in Seq(S)
<1> DEFINE D == {n \in Nat : \A t \in Seq(Seq(S)) : Len(t) = n => FlattenSeq(t) \in Seq(S)}
<1>1. ASSUME NEW n \in Nat, \A k \in 0 .. n - 1 : k \in D PROVE n \in D
  <2> SUFFICES ASSUME NEW t \in Seq(Seq(S)), Len(t) = n PROVE FlattenSeq(t) \in Seq(S)
    OBVIOUS
  <2>1. CASE t = <<>>
    BY <2>1, FlattenEmpty, EmptySeq
  <2>2. CASE t # <<>>
    <3>1. PICK u \in Seq(Seq(S)), x \in Seq(S) : t = Append(u, x)
      BY <2>2, SequenceEmptyOrAppend
    <3>2. Len(u) \in Nat /\ n = Len(u) + 1
      BY <3>1, AppendProperties, LenProperties
    <3>3. FlattenSeq(u) \in Seq(S)
      <4>1. Len(u) \in 0 .. n - 1
        BY <3>2
      <4> HIDE DEF D
      <4>2. Len(u) \in D
        BY <1>1, <4>1
      <4> QED BY <4>2 DEF D
    <3>4. FlattenSeq(t) = FlattenSeq(u) \o x
      BY <3>1, FlattenAppend
    <3> QED BY <3>3, <3>4, ConcatProperties
  <2> QED BY <2>1, <2>2
<1> HIDE DEF D
<1>2. Len(s) \in D
  BY <1>1, Induction, LenProperties
<1> QED BY <1>2 DEF D

LEMMA FlattenConcat ==
  ASSUME NEW S, NEW s \in Seq(Seq(S)), NEW t \in Seq(Seq(S))
  PROVE  FlattenSeq(s \o t) = FlattenSeq(s) \o FlattenSeq(t)
<1> DEFINE D == {n \in Nat : \A u \in Seq(Seq(S)) :
                   Len(u) = n => FlattenSeq(s \o u) = FlattenSeq(s) \o FlattenSeq(u)}
<1>0. FlattenSeq(s) \in Seq(S)
  BY FlattenType
<1>a. ASSUME NEW p \in Seq(S), NEW q \in Seq(S), NEW x \in Seq(S) PROVE (p \o q) \o x = p \o (q \o x)
  BY ConcatAssociative
<1>1. ASSUME NEW n \in Nat, \A k \in 0 .. n - 1 : k \in D PROVE n \in D
  <2> SUFFICES ASSUME NEW u \in Seq(Seq(S)), Len(u) = n
               PROVE  FlattenSeq(s \o u) = FlattenSeq(s) \o FlattenSeq(u)
    OBVIOUS
  <2>1. CASE u = <<>>
    BY <1>0, <2>1, FlattenEmpty, ConcatEmptySeq
  <2>2. CASE u # <<>>
    <3>1. PICK v \in Seq(Seq(S)), x \in Seq(S) : u = Append(v, x)
      BY <2>2, SequenceEmptyOrAppend
    <3>2. Len(v) \in Nat /\ n = Len(v) + 1
      BY <3>1, AppendProperties, LenProperties
    <3>3. FlattenSeq(s \o v) = FlattenSeq(s) \o FlattenSeq(v)
      <4>1. Len(v) \in 0 .. n - 1
        BY <3>2
      <4> HIDE DEF D
      <4>2. Len(v) \in D
        BY <1>1, <4>1
      <4> QED BY <4>2 DEF D
    <3>4. s \o v \in Seq(Seq(S)) /\ <<x>> \in Seq(Seq(S))
      BY ConcatProperties
    <3>5. s \o u = Append(s \o v, x)
      <4>1. u = v \o <<x>> /\ Append(s \o v, x) = (s \o v) \o <<x>>
        BY <3>1, <3>4, AppendIsConcat
      <4> DEFINE T == Seq(S)
      <4>2. s \in Seq(T) /\ v \in Seq(T) /\ <<x>> \in Seq(T)
        BY <3>4
      <4> HIDE DEF T
      <4>3. (s \o v) \o <<x>> = s \o (v \o <<x>>)
        BY <4>2, ConcatAssociative, SMTT(30)
      <4> QED BY <4>1, <4>3
    <3>6. FlattenSeq(s \o u) = FlattenSeq(s \o v) \o x /\ FlattenSeq(u) = FlattenSeq(v) \o x
      BY <3>1, <3>4, <3>5, FlattenAppend
    <3>7. FlattenSeq(v) \in Seq(S)
      BY FlattenType
    <3>8. PICK p \in Seq(S), q \in Seq(S) : p = FlattenSeq(s) /\ q = FlattenSeq(v)
      BY <1>0, <3>7
    <3>9. (p \o q) \o x = p \o (q \o x)
      BY <1>a
    <3> QED BY <3>3, <3>6, <3>8, <3>9
  <2> QED BY <2>1, <2>2
<1> HIDE DEF D
<1>2. Len(t) \in D
  BY <1>1, Induction, LenProperties
<1> QED BY <1>2 DEF D

-----------------------------------------------------------------------------
(* Sequences, whatever they are of.                                        *)

IsSeq(s) == s \in Seq(Range(s))

LEMMA AnySeq ==
  ASSUME NEW S, NEW t \in Seq(S)
  PROVE  IsSeq(t)
<1>1. t \in Seq(Range(t))
  BY DEF Range
<1> QED BY <1>1 DEF IsSeq

LEMMA SeqLen ==
  ASSUME NEW s, IsSeq(s)
  PROVE  Len(s) \in Nat /\ DOMAIN s = 1 .. Len(s) /\ (s = <<>> <=> Len(s) = 0)
BY DEF IsSeq

LEMMA SeqJoin ==
  ASSUME NEW s, IsSeq(s), NEW t, IsSeq(t)
  PROVE  LET u == s \o t
         IN  /\ IsSeq(u) /\ Len(u) = Len(s) + Len(t)
             /\ \A i \in 1 .. Len(s) : u[i] = s[i]
             /\ \A i \in 1 .. Len(t) : u[Len(s) + i] = t[i]
<1> DEFINE u == s \o t
           S == Range(s) \cup Range(t)
<1>1. s \in Seq(S) /\ t \in Seq(S)
  BY DEF IsSeq
<1> HIDE DEF S
<1>2. /\ u \in Seq(S) /\ Len(u) = Len(s) + Len(t)
      /\ \A i \in 1 .. Len(s) + Len(t) : u[i] = IF i <= Len(s) THEN s[i] ELSE t[i - Len(s)]
  BY <1>1, ConcatProperties
<1>3. Len(s) \in Nat /\ Len(t) \in Nat
  BY <1>1
<1> HIDE DEF u
<1>4. \A i \in 1 .. Len(s) : u[i] = s[i]
  BY <1>2, <1>3
<1>5. ASSUME NEW i \in 1 .. Len(t) PROVE u[Len(s) + i] = t[i]
  <2>1. Len(s) + i \in 1 .. Len(s) + Len(t) /\ ~(Len(s) + i <= Len(s)) /\ Len(s) + i - Len(s) = i
    BY <1>3
  <2> QED BY <1>2, <2>1
<1> QED BY <1>2, <1>4, <1>5, AnySeq DEF u

LEMMA SeqCut ==
  ASSUME NEW s, IsSeq(s), NEW m \in Int, NEW n \in Int, m >= 1, n <= Len(s)
  PROVE  IsSeq(SubSeq(s, m, n))
<1>1. s \in Seq(Range(s)) /\ Len(s) \in Nat
  BY DEF IsSeq
<1>2. SubSeq(s, m, n) \in Seq(Range(s))
  BY <1>1
<1> QED BY <1>2, AnySeq

LEMMA SeqFun ==
  ASSUME NEW n \in Int, NEW f, f = [i \in 1 .. n |-> f[i]]
  PROVE  IsSeq(f)
<1> DEFINE S == {f[i] : i \in 1 .. n}
<1>1. \E k \in Nat : f \in [1 .. k -> S]
  <2>1. CASE n >= 0
    <3>1. n \in Nat /\ f \in [1 .. n -> S]
      BY <2>1
    <3> QED BY <3>1
  <2>2. CASE n < 0
    <3>1. 1 .. n = 1 .. 0 /\ 0 \in Nat
      BY <2>2
    <3>2. f \in [1 .. 0 -> S]
      BY <3>1
    <3> QED BY <3>1, <3>2
  <2> QED BY <2>1, <2>2
<1> HIDE DEF S
<1>2. f \in Seq(S)
  BY <1>1
<1> QED BY <1>2, AnySeq

LEMMA SeqOne ==
  ASSUME NEW x
  PROVE  IsSeq(<<x>>) /\ Len(<<x>>) = 1 /\ <<x>>[1] = x /\ IsSeq(<<>>)
<1>1. <<x>> \in Seq({x}) /\ <<>> \in Seq({x}) /\ Len(<<x>>) = 1 /\ <<x>>[1] = x
  OBVIOUS
<1> QED BY <1>1, AnySeq

LEMMA SeqJoins ==
  \A a, b : IsSeq(a) /\ IsSeq(b) =>
     /\ IsSeq(a \o b) /\ Len(a \o b) = Len(a) + Len(b)
     /\ \A i \in 1 .. Len(a) : (a \o b)[i] = a[i]
     /\ \A i \in 1 .. Len(b) : (a \o b)[Len(a) + i] = b[i]
BY SeqJoin

LEMMA SeqEmpty ==
  ASSUME NEW s, IsSeq(s)
  PROVE  s \o <<>> = s /\ <<>> \o s = s
BY DEF IsSeq

LEMMA SeqAssoc ==
  ASSUME NEW s, IsSeq(s), NEW t, IsSeq(t), NEW u, IsSeq(u)
  PROVE  s \o (t \o u) = (s \o t) \o u
<1> DEFINE S == Range(s) \cup Range(t) \cup Range(u)
<1>1. s \in Seq(S) /\ t \in Seq(S) /\ u \in Seq(S)
  BY DEF IsSeq
<1> HIDE DEF S
<1> QED BY <1>1, ConcatAssociative

\* Sequences over some set, as a set closed under concatenation.
SeqSet(T) == \E S : T = Seq(S)

LEMMA JoinIn ==
  ASSUME NEW T, SeqSet(T)
  PROVE  <<>> \in T /\ \A a, b \in T : a \o b \in T
<1>0. PICK S : T = Seq(S)
  BY DEF SeqSet
<1> QED BY <1>0, ConcatProperties

LEMMA JoinEmpty ==
  ASSUME NEW T, SeqSet(T), NEW a \in T
  PROVE  a \o <<>> = a /\ <<>> \o a = a
<1>0. PICK S : T = Seq(S)
  BY DEF SeqSet
<1> QED BY <1>0, ConcatEmptySeq

LEMMA JoinAssoc ==
  ASSUME NEW T, SeqSet(T), NEW a \in T, NEW b \in T, NEW c \in T
  PROVE  (a \o b) \o c = a \o (b \o c)
<1>0. PICK S : T = Seq(S)
  BY DEF SeqSet
<1> QED BY <1>0, ConcatAssociative

LEMMA JoinCancel ==
  ASSUME NEW T, SeqSet(T), NEW a \in T, NEW b \in T, NEW c \in T
  PROVE  a \o b = a \o c => b = c
<1>0. PICK S : T = Seq(S)
  BY DEF SeqSet
<1>1. a \in Seq(S) /\ b \in Seq(S) /\ c \in Seq(S)
  BY <1>0
<1> QED BY <1>1, ConcatSimplifications

LEMMA JoinLen ==
  ASSUME NEW T, SeqSet(T), NEW a \in T, NEW b \in T
  PROVE  /\ Len(a) \in Nat /\ Len(b) \in Nat
         /\ Len(a \o b) = Len(a) + Len(b)
         /\ Len(a) = 0 <=> a = <<>>
<1>0. PICK S : T = Seq(S)
  BY DEF SeqSet
<1> QED BY <1>0, ConcatProperties, LenProperties, EmptySeq

\* Sequences of whatever sort, in one formula.
LEMMA SeqAssocs ==
  \A a, b, c : IsSeq(a) /\ IsSeq(b) /\ IsSeq(c) => (a \o b) \o c = a \o (b \o c)
BY SeqAssoc

LEMMA SeqSame ==
  ASSUME NEW s, IsSeq(s), NEW t, IsSeq(t), Len(s) = Len(t), \A i \in 1 .. Len(s) : s[i] = t[i]
  PROVE  s = t
<1>1. s = [i \in 1 .. Len(s) |-> s[i]] /\ t = [i \in 1 .. Len(t) |-> t[i]]
  BY DEF IsSeq
<1> QED BY <1>1

LEMMA SeqPart ==
  ASSUME NEW s, IsSeq(s), NEW m \in Int, NEW n \in Int, m >= 1, n <= Len(s)
  PROVE  /\ IsSeq(SubSeq(s, m, n))
         /\ Len(SubSeq(s, m, n)) = IF m <= n THEN n - m + 1 ELSE 0
         /\ \A i \in 1 .. n - m + 1 : SubSeq(s, m, n)[i] = s[m + i - 1]
<1>1. IsSeq(SubSeq(s, m, n))
  BY SeqCut
<1>2. CASE m <= n
  <2>1. s \in Seq(Range(s)) /\ Len(s) \in Nat
    BY DEF IsSeq
  <2>2. m \in 1 .. Len(s) + 1 /\ n \in m - 1 .. Len(s)
    BY <1>2, <2>1
  <2>3. /\ Len(SubSeq(s, m, n)) = n - m + 1
        /\ \A i \in 1 .. n - m + 1 : SubSeq(s, m, n)[i] = s[m + i - 1]
    BY <1>2, <2>1, <2>2, SubSeqProperties
  <2> QED BY <1>1, <1>2, <2>3
<1>3. CASE ~(m <= n)
  <2>1. s \in Seq(Range(s))
    BY DEF IsSeq
  <2>2. SubSeq(s, m, n) = <<>>
    BY <1>3, <2>1, SubSeqEmpty
  <2>3. \A i \in 1 .. n - m + 1 : FALSE
    BY <1>3
  <2> QED BY <1>1, <1>3, <2>2, <2>3
<1> QED BY <1>2, <1>3

LEMMA SeqMade ==
  ASSUME NEW n \in Nat, NEW f, f = [i \in 1 .. n |-> f[i]]
  PROVE  IsSeq(f) /\ Len(f) = n
<1>1. IsSeq(f)
  BY SeqFun
<1>2. DOMAIN f = 1 .. n /\ DOMAIN f = 1 .. Len(f) /\ Len(f) \in Nat
  BY <1>1, SeqLen
<1> QED BY <1>1, <1>2

LEMMA SeqSplit ==
  ASSUME NEW s, IsSeq(s), NEW m \in Int, NEW k \in Int, NEW n \in Int, 1 <= m, m <= k + 1, k <= n, n <= Len(s)
  PROVE  SubSeq(s, m, n) = SubSeq(s, m, k) \o SubSeq(s, k + 1, n)
<1>1. s \in Seq(Range(s)) /\ Len(s) \in Nat
  BY DEF IsSeq
<1>2. m \in 1 .. Len(s) + 1 /\ k \in m - 1 .. Len(s) /\ n \in k .. Len(s)
  BY <1>1
<1> QED BY <1>1, <1>2, ConcatAdjacentSubSeq

LEMMA SeqAll == ASSUME NEW s, IsSeq(s) PROVE SubSeq(s, 1, Len(s)) = s
BY SubSeqFull DEF IsSeq


-----------------------------------------------------------------------------
(* What FlattenSeq returns, whatever the sequences are of.                 *)

AllSeqs(s) == IsSeq(s) /\ \A i \in 1 .. Len(s) : IsSeq(s[i])

LEMMA AllSeqsSet ==
  ASSUME NEW s, AllSeqs(s)
  PROVE  s \in Seq(Seq(UNION {Range(s[i]) : i \in 1 .. Len(s)}))
<1> DEFINE S == UNION {Range(s[i]) : i \in 1 .. Len(s)}
<1>1. \A i \in 1 .. Len(s) : s[i] \in Seq(S)
  BY DEF AllSeqs, IsSeq
<1> HIDE DEF S
<1>2. s \in Seq(Range(s)) /\ Len(s) \in Nat
  BY DEF AllSeqs, IsSeq
<1>3. s \in [1 .. Len(s) -> Seq(S)]
  BY <1>1, <1>2
<1> QED BY <1>2, <1>3 DEF S

\* Sequences over a set are sequences over a greater one.
LEMMA SeqWider ==
  ASSUME NEW S, NEW T, S \subseteq T, NEW s \in Seq(Seq(S))
  PROVE  s \in Seq(Seq(T))
<1>1. Len(s) \in Nat /\ s \in [1 .. Len(s) -> Seq(T)]
  <2>1. \A i \in 1 .. Len(s) : s[i] \in Seq(S)
    OBVIOUS
  <2>2. Seq(S) \subseteq Seq(T)
    OBVIOUS
  <2>3. Len(s) \in Nat /\ s = [i \in 1 .. Len(s) |-> s[i]]
    <3> DEFINE Q == Seq(S)
    <3>1. s \in Seq(Q)
      OBVIOUS
    <3> HIDE DEF Q
    <3> QED BY <3>1
  <2> QED BY <2>1, <2>2, <2>3
<1> QED BY <1>1

LEMMA FlattenSeqs ==
  ASSUME NEW s, AllSeqs(s), NEW t, AllSeqs(t)
  PROVE  /\ IsSeq(FlattenSeq(s)) /\ AllSeqs(s \o t)
         /\ FlattenSeq(s \o t) = FlattenSeq(s) \o FlattenSeq(t)
<1> DEFINE A == UNION {Range(s[i]) : i \in 1 .. Len(s)}
           B == UNION {Range(t[i]) : i \in 1 .. Len(t)}
<1>1. s \in Seq(Seq(A)) /\ t \in Seq(Seq(B))
  BY AllSeqsSet
<1> HIDE DEF A, B
<1>2. s \in Seq(Seq(A \cup B)) /\ t \in Seq(Seq(A \cup B))
  BY <1>1, SeqWider
<1>3. FlattenSeq(s) \in Seq(A \cup B) /\ FlattenSeq(s \o t) = FlattenSeq(s) \o FlattenSeq(t)
  BY <1>2, FlattenType, FlattenConcat
<1>4. IsSeq(FlattenSeq(s))
  BY <1>3, AnySeq
<1>5. IsSeq(s) /\ IsSeq(t)
  BY DEF AllSeqs
<1>6. /\ IsSeq(s \o t) /\ Len(s \o t) = Len(s) + Len(t) /\ Len(s) \in Nat /\ Len(t) \in Nat
      /\ \A i \in 1 .. Len(s) : (s \o t)[i] = s[i]
      /\ \A i \in 1 .. Len(t) : (s \o t)[Len(s) + i] = t[i]
  BY <1>5, SeqJoins, SeqLen
<1>7. ASSUME NEW i \in 1 .. Len(s \o t) PROVE IsSeq((s \o t)[i])
  <2>1. CASE i <= Len(s)
    <3>1. i \in 1 .. Len(s)
      BY <1>6, <2>1
    <3> QED BY <1>6, <3>1 DEF AllSeqs
  <2>2. CASE ~(i <= Len(s))
    <3>1. i - Len(s) \in 1 .. Len(t) /\ Len(s) + (i - Len(s)) = i
      BY <1>6, <2>2
    <3>2. (s \o t)[i] = t[i - Len(s)]
      BY <1>6, <3>1
    <3> QED BY <3>1, <3>2 DEF AllSeqs
  <2> QED BY <2>1, <2>2
<1> QED BY <1>3, <1>4, <1>6, <1>7 DEF AllSeqs

LEMMA FlattenOne ==
  ASSUME NEW x, IsSeq(x)
  PROVE  AllSeqs(<<x>>) /\ FlattenSeq(<<x>>) = x /\ AllSeqs(<<>>)
<1> DEFINE S == Range(x)
<1>1. x \in Seq(S) /\ <<>> \in Seq(Seq(S))
  BY DEF IsSeq
<1> HIDE DEF S
<1>2. FlattenSeq(Append(<<>>, x)) = FlattenSeq(<<>>) \o x
  BY <1>1, FlattenAppend
<1>3. Append(<<>>, x) = <<x>> /\ <<>> \o x = x
  BY <1>1
<1>4. FlattenSeq(<<x>>) = x
  BY <1>2, <1>3, FlattenEmpty
<1>5. IsSeq(<<x>>) /\ Len(<<x>>) = 1 /\ <<x>>[1] = x /\ IsSeq(<<>>) /\ Len(<<>>) = 0
  BY SeqOne
<1> HIDE DEF FlattenSeq
<1>6. AllSeqs(<<x>>) /\ AllSeqs(<<>>)
  BY <1>5 DEF AllSeqs
<1> QED BY <1>4, <1>6

\* Nothing but empty sequences.
LEMMA FlattenNothing ==
  ASSUME NEW n \in Nat
  PROVE  FlattenSeq([i \in 1 .. n |-> <<>>]) = <<>>
<1> DEFINE e == [i \in 1 .. n |-> <<>>]
<1>1. CASE n = 0
  <2>1. e = <<>>
    BY <1>1
  <2> QED BY <2>1, FlattenEmpty
<1>2. CASE n # 0
  <2>1. Len(e) = n
    OBVIOUS
  <2>2. PICK f : Flattens(f, e, n) /\ FlattenSeq(e) = f[n]
    BY <1>2, <2>1, FlattenIs
  <2>3. \A i \in 1 .. n : f[i] = IF i = 1 THEN <<>> ELSE f[i - 1] \o <<>>
    BY <2>2 DEF Flattens
  <2> DEFINE D == {k \in Nat : k \in 1 .. n => f[k] = <<>>}
  <2>4. ASSUME NEW k \in Nat, \A j \in 0 .. k - 1 : j \in D PROVE k \in D
    <3> SUFFICES ASSUME k \in 1 .. n PROVE f[k] = <<>>
      OBVIOUS
    <3>1. CASE k = 1
      BY <2>3, <3>1
    <3>2. CASE k # 1
      <4>1. k - 1 \in 0 .. k - 1 /\ k - 1 \in 1 .. n
        BY <3>2
      <4>2. f[k - 1] = <<>>
        BY <2>4, <4>1
      <4> QED BY <2>3, <3>2, <4>2
    <3> QED BY <3>1, <3>2
  <2> HIDE DEF D
  <2>5. n \in D
    BY <2>4, Induction
  <2> QED BY <1>2, <2>2, <2>5 DEF D
<1> QED BY <1>1, <1>2
==============================================================================
