----------------------------- MODULE ConfigProofs -----------------------------
(***************************************************************************)
(* What holds of Config and Settings for every body the parser can return: *)
(* lists and names first, then what DecodeConfig accepts and returns, then *)
(* the settings of a server.                                               *)
(***************************************************************************)
EXTENDS Settings, SequenceTheorems, FiniteSetTheorems, TLAPS

-----------------------------------------------------------------------------
(* Induction over the numbers up to a bound, by way of a set: the provers  *)
(* cannot instantiate the induction theorems of the library.               *)

Below == {p \in Nat \X Nat : p[1] < p[2]}

LEMMA BelowIsWellFounded == IsWellFoundedOn(Below, Nat)
BY NatLessThanWellFounded DEF OpToRel, Below

LEMMA Induction ==
  ASSUME NEW n \in Nat, NEW T, 0 \in T,
         \A k \in 1 .. n : k - 1 \in T => k \in T
  PROVE  0 .. n \subseteq T
<1>1. SUFFICES ASSUME (0 .. n) \ T # {}
               PROVE  FALSE
  OBVIOUS
<1>2. (0 .. n) \ T \subseteq Nat
  OBVIOUS
<1>3. PICK x \in (0 .. n) \ T : \A y \in (0 .. n) \ T : <<y, x>> \notin Below
  BY <1>1, <1>2, WFMin, BelowIsWellFounded
<1>4. x \in 1 .. n /\ x - 1 \in 0 .. n
  BY <1>3
<1>5. x - 1 \in T
  <2>1. <<x - 1, x>> \in Nat \X Nat /\ x - 1 < x
    BY <1>4
  <2>2. <<x - 1, x>> \in Below
    BY <2>1 DEF Below
  <2>. QED  BY <2>2, <1>3, <1>4
<1>. QED  BY <1>3, <1>4, <1>5

-----------------------------------------------------------------------------
(* Lists.                                                                  *)

LEMMA SeqOf_ ==
  ASSUME NEW s, NEW S, s \in Seq(S)
  PROVE  IsSeq(s)
BY SeqOfRange DEF IsSeq

LEMMA SeqFacts ==
  ASSUME NEW s, IsSeq(s)
  PROVE  /\ Len(s) \in Nat /\ DOMAIN s = 1 .. Len(s)
         /\ s \in [1 .. Len(s) -> Range(s)]
         /\ \A i \in 1 .. Len(s) : s[i] \in Range(s)
         /\ \A x \in Range(s) : \E i \in 1 .. Len(s) : s[i] = x
BY LenProperties DEF IsSeq, Range

LEMMA SameShape ==
  ASSUME NEW s, IsSeq(s), NEW t, t \in [DOMAIN s -> Range(t)]
  PROVE  IsSeq(t) /\ Len(t) = Len(s)
BY SeqFacts, SeqDef DEF IsSeq

LEMMA Concat ==
  ASSUME NEW s, IsSeq(s), NEW t, IsSeq(t)
  PROVE  /\ IsSeq(s \o t)
         /\ Len(s \o t) = Len(s) + Len(t)
         /\ \A i \in 1 .. Len(s) : (s \o t)[i] = s[i]
         /\ \A i \in 1 .. Len(t) : (s \o t)[Len(s) + i] = t[i]
         /\ \A i \in 1 .. Len(s \o t) :
               i <= Len(s) \/ i - Len(s) \in 1 .. Len(t)
         /\ Range(s \o t) = Range(s) \cup Range(t)
<1> DEFINE S == Range(s) \cup Range(t)
<1>1. s \in Seq(S) /\ t \in Seq(S)
  BY SeqMonotonic DEF IsSeq
<1>2. s \o t \in Seq(S)
  BY <1>1, ConcatProperties
<1>3. IsSeq(s \o t)
  BY <1>2, SeqOf_
<1>4. Len(s) \in Nat /\ Len(t) \in Nat
  BY SeqFacts
<1>5. /\ Len(s \o t) = Len(s) + Len(t)
      /\ \A i \in 1 .. Len(s) + Len(t) :
            (s \o t)[i] = IF i <= Len(s) THEN s[i] ELSE t[i - Len(s)]
  BY <1>1, ConcatProperties
<1>6. Range(s \o t) = Range(s) \cup Range(t)
  BY <1>1, RangeConcatenation
<1>. QED  BY <1>3, <1>4, <1>5, <1>6

-----------------------------------------------------------------------------
(* FlattenSeq puts the lists one after the other, each in one piece.       *)

Block(t, o, s) ==
    o + Len(s) <= Len(t) /\ \A l \in 1 .. Len(s) : t[o + l] = s[l]

Flattened(t, lists, n) ==
    /\ IsSeq(t)
    /\ \A k \in 1 .. n : \E o \in Nat : Block(t, o, lists[k])
    /\ \A i \in 1 .. Len(t) :
           \E k \in 1 .. n, o \in Nat :
               Block(t, o, lists[k]) /\ i - o \in 1 .. Len(lists[k])

LEMMA FlattenStep ==
  ASSUME NEW lists, NEW n \in Nat, NEW t, Flattened(t, lists, n),
         IsSeq(lists[n + 1])
  PROVE  Flattened(t \o lists[n + 1], lists, n + 1)
<1> DEFINE u == t \o lists[n + 1]
<1>0. IsSeq(t)
  BY DEF Flattened
<1>1. /\ IsSeq(t) /\ Len(t) \in Nat /\ Len(lists[n + 1]) \in Nat
      /\ IsSeq(u) /\ Len(u) = Len(t) + Len(lists[n + 1])
      /\ \A i \in 1 .. Len(t) : u[i] = t[i]
      /\ Block(u, Len(t), lists[n + 1])
  <2>1. Len(t) \in Nat /\ Len(lists[n + 1]) \in Nat
    BY <1>0, SeqFacts
  <2>2. /\ IsSeq(u) /\ Len(u) = Len(t) + Len(lists[n + 1])
        /\ \A i \in 1 .. Len(t) : u[i] = t[i]
        /\ \A i \in 1 .. Len(lists[n + 1]) : u[Len(t) + i] = lists[n + 1][i]
    BY <1>0, Concat
  <2> HIDE DEF u
  <2>. QED  BY <1>0, <2>1, <2>2 DEF Block
<1> HIDE DEF u
<1>2. ASSUME NEW k \in 1 .. n, NEW o \in Nat, Block(t, o, lists[k])
      PROVE  Block(u, o, lists[k])
  BY <1>1, <1>2 DEF Block
<1>3. ASSUME NEW k \in 1 .. n + 1
      PROVE  \E o \in Nat : Block(u, o, lists[k])
  BY <1>1, <1>2 DEF Flattened
<1>4. ASSUME NEW i \in 1 .. Len(u)
      PROVE  \E k \in 1 .. n + 1, o \in Nat :
               Block(u, o, lists[k]) /\ i - o \in 1 .. Len(lists[k])
  <2>1. CASE i <= Len(t)
    BY <2>1, <1>1, <1>2 DEF Flattened
  <2>2. CASE i > Len(t)
    BY <2>2, <1>1
  <2>. QED  BY <2>1, <2>2, <1>1
<1>. QED  BY <1>1, <1>3, <1>4 DEF Flattened, u

LEMMA Flatten ==
  ASSUME NEW lists, IsSeq(lists), \A k \in DOMAIN lists : IsSeq(lists[k])
  PROVE  Flattened(FlattenSeq(lists), lists, Len(lists))
<1> DEFINE N == Len(lists)
           Grows(f, n) == f = [i \in 1 .. n |-> IF i = 1 THEN lists[i]
                                               ELSE f[i - 1] \o lists[i]]
           T == {n \in 0 .. N : \E f : Grows(f, n)}
<1>1. N \in Nat /\ DOMAIN lists = 1 .. N
  BY SeqFacts
<1>2. 0 \in T
  <2>1. Grows(<<>>, 0)
    OBVIOUS
  <2> HIDE DEF Grows
  <2>. QED  BY <2>1, <1>1
<1>3. ASSUME NEW n \in 1 .. N, n - 1 \in T
      PROVE  n \in T
  <2>1. PICK g : Grows(g, n - 1)
    <3> HIDE DEF Grows
    <3>. QED  BY <1>3
  <2>2. /\ n \in Nat /\ n - 1 \in Nat
        /\ \A i \in 1 .. n - 1 : g[i] = IF i = 1 THEN lists[i]
                                       ELSE g[i - 1] \o lists[i]
    <3>1. n \in Nat /\ n - 1 \in Nat
      BY <1>1
    <3>2. ASSUME NEW i \in 1 .. n - 1
          PROVE  g[i] = IF i = 1 THEN lists[i] ELSE g[i - 1] \o lists[i]
      BY <2>1, Zenon
    <3>. QED  BY <3>1, <3>2
  <2> DEFINE Value(i) == IF i = n THEN IF n = 1 THEN lists[1]
                                      ELSE g[n - 1] \o lists[n]
                         ELSE g[i]
             f == [i \in 1 .. n |-> Value(i)]
  <2>3. ASSUME NEW i \in 1 .. n
        PROVE  f[i] = IF i = 1 THEN lists[i] ELSE f[i - 1] \o lists[i]
    <3>1. f[i] = Value(i) /\ (i # 1 => f[i - 1] = Value(i - 1))
      BY <2>2
    <3>2. CASE i = n
      <4>1. i # 1 => Value(i - 1) = g[i - 1]
        BY <3>2, <2>2
      <4>. QED  BY <3>1, <3>2, <4>1
    <3>3. CASE i # n
      <4>1. i # 1 => Value(i - 1) = g[i - 1]
        BY <3>3, <2>2
      <4>2. i \in 1 .. n - 1
        BY <3>3, <2>2
      <4>. QED  BY <3>1, <3>3, <4>1, <4>2, <2>2
    <3>. QED  BY <3>2, <3>3
  <2>4. f = [i \in 1 .. n |-> f[i]]
    OBVIOUS
  <2> HIDE DEF f
  <2>5. Grows(f, n)
    BY <2>3, <2>4
  <2> HIDE DEF Grows
  <2>. QED  BY <2>5, <1>1
<1>4. \E f : Grows(f, N)
  <2>1. N \in T
    <3> HIDE DEF N, T
    <3>0. N \in Nat /\ 0 \in T /\ \A k \in 1 .. N : k - 1 \in T => k \in T
      BY <1>1, <1>2, <1>3
    <3>1. 0 .. N \subseteq T
      BY <3>0, Induction
    <3>. QED  BY <3>1, <1>1
  <2> HIDE DEF Grows
  <2>. QED  BY <2>1
<1>5. CASE N = 0
  <2>1. FlattenSeq(lists) = lists
    BY <1>5 DEF FlattenSeq
  <2>. QED  BY <2>1, <1>1, <1>5 DEF Flattened
<1>6. CASE N # 0
  <2> DEFINE f == CHOOSE f : Grows(f, N)
  <2>1. Grows(f, N)
    BY <1>4
  <2>2. FlattenSeq(lists) = f[N]
    BY <1>6 DEF FlattenSeq
  <2> HIDE DEF f
  <2> DEFINE U == {n \in 0 .. N : n = 0 \/ Flattened(f[n], lists, n)}
  <2>3. 0 \in U
    BY <1>1
  <2>4. ASSUME NEW n \in 1 .. N, n - 1 \in U
        PROVE  n \in U
    <3>1. CASE n = 1
      <4>1. f[1] = lists[1] /\ IsSeq(lists[1]) /\ Len(lists[1]) \in Nat
        BY <2>1, <3>1, <1>1, SeqFacts
      <4>2. Block(f[1], 0, lists[1])
        BY <4>1 DEF Block
      <4>3. Flattened(f[1], lists, 1)
        BY <4>1, <4>2 DEF Flattened
      <4>. QED  BY <4>3, <3>1, <1>1
    <3>2. CASE n # 1
      <4>1. f[n] = f[n - 1] \o lists[n] /\ IsSeq(lists[n])
        BY <2>1, <3>2, <1>1
      <4>2. Flattened(f[n - 1], lists, n - 1) /\ n - 1 \in Nat /\ n - 1 + 1 = n
        BY <2>4, <3>2, <1>1
      <4>3. Flattened(f[n], lists, n)
        BY <4>1, <4>2, FlattenStep
      <4>. QED  BY <4>3, <1>1
    <3>. QED  BY <3>1, <3>2
  <2>5. N \in U
    <3> HIDE DEF N, U
    <3>1. 0 .. N \subseteq U
      BY <2>3, <2>4, <1>1, Induction
    <3>. QED  BY <3>1, <1>1
  <2>6. Flattened(f[N], lists, N)
    BY <2>5, <1>6
  <2>. QED  BY <2>6, <2>2
<1>. QED  BY <1>5, <1>6

LEMMA FlattenRange ==
  ASSUME NEW lists, IsSeq(lists), \A k \in DOMAIN lists : IsSeq(lists[k])
  PROVE  /\ IsSeq(FlattenSeq(lists))
         /\ \A x : x \in Range(FlattenSeq(lists))
                     <=> \E k \in DOMAIN lists : x \in Range(lists[k])
<1> DEFINE t == FlattenSeq(lists)
<1>1. Flattened(t, lists, Len(lists)) /\ IsSeq(t) /\ Len(lists) \in Nat
      /\ DOMAIN lists = 1 .. Len(lists)
  BY Flatten, SeqFacts DEF Flattened
<1> HIDE DEF t
<1>2. ASSUME NEW x \in Range(t)
      PROVE  \E k \in DOMAIN lists : x \in Range(lists[k])
  <2>1. PICK i \in 1 .. Len(t) : t[i] = x
    BY <1>1, SeqFacts
  <2>2. PICK k \in 1 .. Len(lists), o \in Nat :
               Block(t, o, lists[k]) /\ i - o \in 1 .. Len(lists[k])
    BY <1>1, <2>1 DEF Flattened
  <2>3. Len(t) \in Nat /\ Len(lists[k]) \in Nat /\ IsSeq(lists[k])
    BY <1>1, SeqFacts
  <2>4. t[o + (i - o)] = lists[k][i - o]
    BY <2>2 DEF Block
  <2>5. o + (i - o) = i
    BY <2>1, <2>2, <2>3
  <2>6. lists[k][i - o] = x
    BY <2>1, <2>4, <2>5
  <2>7. lists[k][i - o] \in Range(lists[k])
    BY <2>2, <2>3, SeqFacts
  <2>. QED  BY <1>1, <2>6, <2>7
<1>3. ASSUME NEW k \in DOMAIN lists, NEW x \in Range(lists[k])
      PROVE  x \in Range(t)
  <2>1. PICK l \in 1 .. Len(lists[k]) : lists[k][l] = x
    BY SeqFacts
  <2>2. PICK o \in Nat : Block(t, o, lists[k])
    BY <1>1 DEF Flattened
  <2>3. o + l \in 1 .. Len(t) /\ t[o + l] = x
    BY <1>1, <2>1, <2>2, SeqFacts DEF Block
  <2>. QED  BY <1>1, <2>3, SeqFacts
<1>. QED  BY <1>1, <1>2, <1>3 DEF t

-----------------------------------------------------------------------------
(* WithoutRepeats keeps every name, once.                                  *)

Once(t, names, n) ==
    /\ IsSeq(t) /\ Distinct(t)
    /\ \A x : x \in Range(t) <=> \E i \in 1 .. n : names[i] = x

LEMMA OnceStep ==
  ASSUME NEW names, NEW n \in Nat, NEW t, Once(t, names, n)
  PROVE  Once(IF Contains(t, names[n + 1]) THEN t ELSE Append(t, names[n + 1]),
              names, n + 1)
<1> DEFINE x == names[n + 1]
           u == Append(t, x)
<1>1. /\ IsSeq(t) /\ Len(t) \in Nat /\ DOMAIN t = 1 .. Len(t)
      /\ \A i \in 1 .. Len(t) : t[i] \in Range(t)
      /\ \A y \in Range(t) : \E i \in 1 .. Len(t) : t[i] = y
  BY SeqFacts DEF Once
<1>2. Contains(t, x) <=> x \in Range(t)
  BY <1>1 DEF Contains
<1>3. CASE Contains(t, x)
  BY <1>2, <1>3 DEF Once
<1>4. CASE ~Contains(t, x)
  <2>1. t \in Seq(Range(t) \cup {x})
    BY <1>1, SeqMonotonic DEF IsSeq
  <2>2. /\ u \in Seq(Range(t) \cup {x}) /\ Len(u) = Len(t) + 1
        /\ \A i \in 1 .. Len(t) : u[i] = t[i]
        /\ u[Len(t) + 1] = x
    BY <2>1, AppendProperties
  <2>3. IsSeq(u) /\ DOMAIN u = 1 .. Len(u)
    BY <2>2, SeqOf_, SeqFacts
  <2>4. Range(u) = Range(t) \cup {x}
    BY <2>2, <2>3, <1>1 DEF Range
  <2>5. \A i, j \in 1 .. Len(t) : t[i] = t[j] => i = j
    BY <1>1 DEF Once, Distinct
  <2> HIDE DEF u
  <2>6. Distinct(u)
    BY <2>2, <2>3, <2>5, <1>1, <1>2, <1>4 DEF Distinct
  <2>7. Once(u, names, n + 1)
    BY <2>3, <2>4, <2>6 DEF Once
  <2>. QED  BY <2>7, <1>4 DEF u
<1>. QED  BY <1>3, <1>4

LEMMA KeptOnce ==
  ASSUME NEW names, IsSeq(names)
  PROVE  Once(WithoutRepeats(names), names, Len(names))
<1> DEFINE N == Len(names)
           Next(t, i) == IF Contains(t, names[i]) THEN t ELSE Append(t, names[i])
           Grows(f, n) == f = [i \in 0 .. n |-> IF i = 0 THEN <<>>
                                               ELSE Next(f[i - 1], i)]
           T == {n \in 0 .. N : \E f : Grows(f, n)}
<1>1. N \in Nat
  BY SeqFacts
<1>2. 0 \in T
  <2>1. \A i \in 0 .. 0 : (IF i = 0 THEN <<>> ELSE Next([j \in 0 .. 0 |-> <<>>][i - 1], i)) = <<>>
    <3> HIDE DEF Next
    <3>. QED  OBVIOUS
  <2>2. Grows([i \in 0 .. 0 |-> <<>>], 0)
    <3> HIDE DEF Next
    <3>. QED  BY <2>1
  <2> HIDE DEF Grows
  <2>. QED  BY <2>2, <1>1
<1>3. ASSUME NEW n \in 1 .. N, n - 1 \in T
      PROVE  n \in T
  <2>1. PICK g : Grows(g, n - 1)
    <3> HIDE DEF Grows
    <3>. QED  BY <1>3
  <2>2. /\ n \in Nat /\ n - 1 \in Nat
        /\ \A i \in 0 .. n - 1 : g[i] = IF i = 0 THEN <<>> ELSE Next(g[i - 1], i)
    <3>1. n \in Nat /\ n - 1 \in Nat
      BY <1>1
    <3>2. ASSUME NEW i \in 0 .. n - 1
          PROVE  g[i] = IF i = 0 THEN <<>> ELSE Next(g[i - 1], i)
      BY <2>1, Zenon
    <3>. QED  BY <3>1, <3>2
  <2> DEFINE Value(i) == IF i = n THEN Next(g[n - 1], n) ELSE g[i]
             f == [i \in 0 .. n |-> Value(i)]
  <2>3. ASSUME NEW i \in 0 .. n
        PROVE  f[i] = IF i = 0 THEN <<>> ELSE Next(f[i - 1], i)
    <3> HIDE DEF Next
    <3>1. f[i] = Value(i) /\ (i # 0 => f[i - 1] = Value(i - 1))
      BY <2>2
    <3>2. i # 0 => Value(i - 1) = g[i - 1]
      BY <2>2
    <3>. QED  BY <3>1, <3>2, <2>2
  <2>4. f = [i \in 0 .. n |-> f[i]]
    OBVIOUS
  <2> HIDE DEF f
  <2>5. Grows(f, n)
    BY <2>3, <2>4
  <2> HIDE DEF Grows
  <2>. QED  BY <2>5, <1>1
<1>4. \E f : Grows(f, N)
  <2>1. N \in T
    <3> HIDE DEF N, T, Grows, Next
    <3>0. N \in Nat /\ 0 \in T /\ \A k \in 1 .. N : k - 1 \in T => k \in T
      BY <1>1, <1>2, <1>3
    <3>1. 0 .. N \subseteq T
      BY <3>0, Induction
    <3>. QED  BY <3>1, <1>1
  <2> HIDE DEF Grows
  <2>. QED  BY <2>1
<1> DEFINE f == CHOOSE f : Grows(f, N)
<1>5. Grows(f, N)
  BY <1>4
<1>6. WithoutRepeats(names) = f[N]
  BY DEF WithoutRepeats
<1> HIDE DEF f
<1> DEFINE U == {n \in 0 .. N : Once(f[n], names, n)}
<1>7. 0 \in U
  <2>1. f[0] = <<>>
    BY <1>1, <1>5
  <2>2. Once(<<>>, names, 0)
    BY EmptySeq DEF Once, IsSeq, Distinct, Range
  <2>. QED  BY <2>1, <2>2, <1>1
<1>8. ASSUME NEW n \in 1 .. N, n - 1 \in U
      PROVE  n \in U
  <2>1. f[n] = Next(f[n - 1], n) /\ n - 1 \in Nat /\ (n - 1) + 1 = n
    <3>1. n \in 0 .. N /\ n # 0 /\ n - 1 \in Nat /\ (n - 1) + 1 = n
      BY <1>1
    <3>2. f[n] = IF n = 0 THEN <<>> ELSE Next(f[n - 1], n)
      BY <1>5, <3>1, Zenon
    <3> HIDE DEF Next
    <3>. QED  BY <3>1, <3>2
  <2>2. Once(f[n - 1], names, n - 1)
    BY <1>8
  <2>3. Once(f[n], names, n)
    BY <2>1, <2>2, OnceStep
  <2>. QED  BY <2>3
<1>9. 0 .. N \subseteq U
  <2> HIDE DEF N, U
  <2>. QED  BY <1>1, <1>7, <1>8, Induction
<1>. QED  BY <1>1, <1>6, <1>9

-----------------------------------------------------------------------------
(* Two parts of a name that were joined can be told apart again, if one of *)
(* them is free of the separator.                                          *)

LEMMA Joined ==
  ASSUME NEW a, IsSeq(a), NEW b, IsSeq(b), NEW sep
  PROVE  LET name == Join(a, sep, b)
             k == Len(a) + 1
         IN /\ IsSeq(name) /\ k \in 1 .. Len(name) /\ name[k] = sep
            /\ \A i \in 1 .. k - 1 : name[i] = a[i]
            /\ \A i \in 1 .. Len(b) : name[k + i] = b[i]
            /\ Len(name) = k + Len(b)
            /\ CutAt(name, k) = <<a, b>>
<1> DEFINE c == a \o <<sep>>
           name == Join(a, sep, b)
           k == Len(a) + 1
<1>1. IsSeq(<<sep>>) /\ Len(<<sep>>) = 1 /\ <<sep>>[1] = sep
  BY DEF IsSeq, Range
<1>2. Len(a) \in Nat /\ Len(b) \in Nat
  BY SeqFacts
<1>3. /\ IsSeq(c) /\ Len(c) = k
      /\ \A i \in 1 .. Len(a) : c[i] = a[i]
      /\ c[k] = sep
  BY <1>1, <1>2, Concat
<1>4. name = c \o b
  BY DEF Join
<1> HIDE DEF c
<1>5. /\ IsSeq(name) /\ Len(name) = k + Len(b)
      /\ \A i \in 1 .. k : name[i] = c[i]
      /\ \A i \in 1 .. Len(b) : name[k + i] = b[i]
  <2>1. /\ IsSeq(c \o b) /\ Len(c \o b) = Len(c) + Len(b)
        /\ \A i \in 1 .. Len(c) : (c \o b)[i] = c[i]
        /\ \A i \in 1 .. Len(b) : (c \o b)[Len(c) + i] = b[i]
    <3>1. IsSeq(c)
      BY <1>3
    <3> HIDE DEF k, name
    <3>. QED  BY <3>1, Concat
  <2> HIDE DEF name, k
  <2>. QED  BY <1>3, <1>4, <2>1
<1>6. \A i \in 1 .. k - 1 : name[i] = a[i]
  BY <1>2, <1>3, <1>5
<1> DEFINE l == SubSeq(name, 1, k - 1)
           r == SubSeq(name, k + 1, Len(name))
<1>7. l = a
  <2>1. \A i \in 1 .. k - 1 : name[i] \in Range(a)
    <3> HIDE DEF name, l, r
    <3>1. k - 1 = Len(a)
      BY <1>2
    <3>2. \A i \in 1 .. Len(a) : a[i] \in Range(a)
      BY SeqFacts
    <3> HIDE DEF k
    <3>. QED  BY <1>6, <3>1, <3>2
  <2>2. /\ l \in Seq(Range(a)) /\ Len(l) = Len(a)
        /\ \A i \in 1 .. Len(a) : l[i] = a[i]
    <3> HIDE DEF name
    <3>1. /\ l \in Seq(Range(a)) /\ Len(l) = IF 1 <= k - 1 THEN k - 1 - 1 + 1 ELSE 0
          /\ \A i \in 1 .. (k - 1) - 1 + 1 : l[i] = name[1 + i - 1]
      BY <2>1, <1>2, SubSeqProperties
    <3>. QED  BY <3>1, <1>2, <1>6
  <2>. QED  BY <2>2, SeqEqual DEF IsSeq
<1>8. r = b
  <2> HIDE DEF name
  <2>1. \A i \in k + 1 .. Len(name) : name[i] \in Range(b)
    <3>1. ASSUME NEW i \in k + 1 .. Len(name)
          PROVE  name[i] \in Range(b)
      <4>1. i - k \in 1 .. Len(b) /\ k + (i - k) = i
        BY <1>2, <1>5
      <4>. QED  BY <4>1, <1>5, SeqFacts
    <3>. QED  BY <3>1
  <2>2. /\ r \in Seq(Range(b)) /\ Len(r) = Len(b)
        /\ \A i \in 1 .. Len(b) : r[i] = b[i]
    <3>1. /\ r \in Seq(Range(b))
          /\ Len(r) = IF k + 1 <= Len(name) THEN Len(name) - (k + 1) + 1 ELSE 0
          /\ \A i \in 1 .. Len(name) - (k + 1) + 1 : r[i] = name[k + 1 + i - 1]
      BY <2>1, <1>2, <1>5, SubSeqProperties
    <3>2. ASSUME NEW i \in 1 .. Len(b)
          PROVE  r[i] = b[i]
      <4>1. i \in 1 .. Len(name) - (k + 1) + 1 /\ k + 1 + i - 1 = k + i
        BY <1>2, <1>5
      <4>. QED  BY <4>1, <3>1, <1>5
    <3>. QED  BY <3>1, <3>2, <1>2, <1>5
  <2>. QED  BY <2>2, SeqEqual DEF IsSeq
<1>9. CutAt(name, k) = <<a, b>>
  BY <1>7, <1>8 DEF CutAt
<1>10. k \in 1 .. Len(name) /\ name[k] = sep
  BY <1>2, <1>3, <1>5
<1>. QED  BY <1>5, <1>6, <1>9, <1>10

(* The account "user@host" that Objects of the MariaDB driver lists is     *)
(* taken apart by Prune (splitUser) at its last "@" into the user and the  *)
(* host it was put together from, whatever characters the user has, as     *)
(* long as the host has no "@".                                            *)
THEOREM CutLastOfJoin ==
  ASSUME NEW a, IsSeq(a), NEW b, IsSeq(b), NEW sep, sep \notin Range(b)
  PROVE  CutLast(Join(a, sep, b), sep) = <<a, b>>
<1> DEFINE name == Join(a, sep, b)
           k == Len(a) + 1
           I == {i \in 1 .. Len(name) : name[i] = sep}
<1>1. Len(a) \in Nat /\ Len(b) \in Nat /\ \A i \in 1 .. Len(b) : b[i] # sep
  BY SeqFacts
<1>2. /\ k \in 1 .. Len(name) /\ name[k] = sep /\ Len(name) = k + Len(b)
      /\ \A i \in 1 .. Len(b) : name[k + i] = b[i]
      /\ CutAt(name, k) = <<a, b>>
  BY Joined
<1>3. SelectLastInSeq(name, LAMBDA w : w = sep)
        = IF I # {} THEN CHOOSE x \in I : \A y \in I : x >= y ELSE 0
  BY DEF SelectLastInSeq, Max
<1>4. k \in I /\ \A y \in I : k >= y
  <2> HIDE DEF name
  <2>1. ASSUME NEW y \in I, y > k
        PROVE  FALSE
    <3>1. y - k \in 1 .. Len(b) /\ k + (y - k) = y
      BY <2>1, <1>1, <1>2
    <3>. QED  BY <3>1, <1>1, <1>2
  <2>. QED  BY <2>1, <1>1, <1>2
<1>5. SelectLastInSeq(name, LAMBDA w : w = sep) = k
  <2>1. (CHOOSE x \in I : \A y \in I : x >= y) = k
    <3>1. \A x \in I : (\A y \in I : x >= y) => x = k
      <4> HIDE DEF name
      <4>. QED  BY <1>4, <1>1, <1>2
    <3> HIDE DEF I
    <3>. QED  BY <3>1, <1>4
  <2>. QED  BY <2>1, <1>3, <1>4
<1>. QED  BY <1>2, <1>5 DEF CutLast

(* The inventory name "database.collection" of the FerretDB driver is      *)
(* taken apart by Prune (splitCollection) at its first "." into the two    *)
(* names it was put together from, whatever characters the collection has, *)
(* as long as the database has no ".".                                     *)
THEOREM CutFirstOfJoin ==
  ASSUME NEW a, IsSeq(a), NEW b, IsSeq(b), NEW sep, sep \notin Range(a)
  PROVE  CutFirst(Join(a, sep, b), sep) = <<a, b>>
<1> DEFINE name == Join(a, sep, b)
           k == Len(a) + 1
           I == {i \in 1 .. Len(name) : name[i] = sep}
<1>1. Len(a) \in Nat /\ Len(b) \in Nat /\ \A i \in 1 .. Len(a) : a[i] # sep
  BY SeqFacts
<1>2. /\ k \in 1 .. Len(name) /\ name[k] = sep /\ Len(name) = k + Len(b)
      /\ \A i \in 1 .. k - 1 : name[i] = a[i]
      /\ CutAt(name, k) = <<a, b>>
  BY Joined
<1>3. SelectInSeq(name, LAMBDA w : w = sep)
        = IF I # {} THEN CHOOSE x \in I : \A y \in I : x =< y ELSE 0
  BY DEF SelectInSeq, Min
<1>4. k \in I /\ \A y \in I : k <= y
  <2> HIDE DEF name
  <2>1. ASSUME NEW y \in I, y < k
        PROVE  FALSE
    BY <2>1, <1>1, <1>2
  <2>. QED  BY <2>1, <1>1, <1>2
<1>5. SelectInSeq(name, LAMBDA w : w = sep) = k
  <2>1. (CHOOSE x \in I : \A y \in I : x =< y) = k
    <3>1. \A x \in I : (\A y \in I : x =< y) => x = k
      <4> HIDE DEF name
      <4>. QED  BY <1>4, <1>1, <1>2
    <3> HIDE DEF I
    <3>. QED  BY <3>1, <1>4
  <2>. QED  BY <2>1, <1>3, <1>4
<1>. QED  BY <1>2, <1>5 DEF CutFirst

-----------------------------------------------------------------------------
(* Layers of settings.                                                     *)

LEMMA OverAt ==
  ASSUME NEW a, NEW b
  PROVE  /\ DOMAIN Over(a, b) = DOMAIN a \cup DOMAIN b
         /\ \A p \in DOMAIN a : Over(a, b)[p] = a[p]
         /\ \A p \in DOMAIN b \ DOMAIN a : Over(a, b)[p] = b[p]
BY DEF Over

LEMMA DozeAt ==
  ASSUME NEW params
  PROVE  DOMAIN Doze(params) = params /\ \A p \in params : Doze(params)[p] = "doze"
BY DEF Doze

\* A parameter gets through with a value it was given, unless it is locked.
LEMMA FreeAt ==
  ASSUME NEW settings, NEW locked, NEW forms, Spelled(settings, forms)
  PROVE  /\ \A s \in DOMAIN settings : s[1] \notin locked =>
               /\ s[1] \in DOMAIN Free(settings, locked)
               /\ Arrives(Free(settings, locked), settings, s)
         /\ \A p \in DOMAIN Free(settings, locked) :
               \E s \in DOMAIN settings : s[1] = p
<1> DEFINE spelled == {s \in DOMAIN settings : ~IsLocked(s, locked)}
<1>1. DOMAIN Free(settings, locked) = {s[1] : s \in spelled}
  BY DEF Free
<1>2. ASSUME NEW p \in {s[1] : s \in spelled}
      PROVE  Free(settings, locked)[p]
               = settings[CHOOSE s \in spelled : s[1] = p]
  BY <1>2 DEF Free
<1>3. ASSUME NEW s \in DOMAIN settings, s[1] \notin locked
      PROVE  s \in spelled
  BY <1>3 DEF Spelled, IsLocked, FoldCase
<1>4. ASSUME NEW s \in spelled
      PROVE  LET t == CHOOSE t \in spelled : t[1] = s[1]
             IN  t \in spelled /\ t[1] = s[1]
  OBVIOUS
<1>5. ASSUME NEW s \in DOMAIN settings, s[1] \notin locked
      PROVE  /\ s[1] \in DOMAIN Free(settings, locked)
             /\ Arrives(Free(settings, locked), settings, s)
  <2> DEFINE t == CHOOSE t \in spelled : t[1] = s[1]
  <2>1. s \in spelled /\ t \in spelled /\ t[1] = s[1]
    BY <1>3, <1>4, <1>5
  <2>2. s[1] \in {u[1] : u \in spelled}
    BY <2>1
  <2>3. Free(settings, locked)[s[1]] = settings[t]
    BY <1>2, <2>2
  <2>4. t \in DOMAIN settings
    BY <2>1
  <2> HIDE DEF t, spelled
  <2>. QED  BY <1>1, <2>1, <2>2, <2>3, <2>4 DEF Arrives
<1>6. ASSUME NEW p \in DOMAIN Free(settings, locked)
      PROVE  \E s \in DOMAIN settings : s[1] = p
  BY <1>1, <1>6
<1>. QED  BY <1>5, <1>6

LEMMA ArrivesOn ==
  ASSUME NEW f, NEW g, NEW settings, NEW s, Arrives(f, settings, s),
         g[s[1]] = f[s[1]]
  PROVE  Arrives(g, settings, s)
BY DEF Arrives

\* Upper case does not get a parameter past the lock.
LEMMA LockedIsNotFree ==
  ASSUME NEW settings, NEW locked, Spelled(settings, {"plain", "upper"})
  PROVE  \A p \in locked : p \notin DOMAIN Free(settings, locked)
<1>1. \A s \in DOMAIN settings : s[1] \in locked => IsLocked(s, locked)
  BY DEF Spelled, IsLocked, FoldCase
<1>2. DOMAIN Free(settings, locked)
        = {s[1] : s \in {t \in DOMAIN settings : ~IsLocked(t, locked)}}
  BY DEF Free
<1>. QED  BY <1>1, <1>2

-----------------------------------------------------------------------------
(* The layers of each server.                                              *)

LEMMA PostgresSettings ==
  ASSUME NEW raw, PostgresBody(raw)
  PROVE  LET c == PostgresConfig(raw)
             has == PostgresServer(c)
         IN /\ \A p \in PostgresLocked : has[p] = "doze"
            /\ \A s \in DOMAIN c.settings :
                  s[1] \notin PostgresLocked => Arrives(has, c.settings, s)
            /\ \A p \in DOMAIN c.tuning :
                  \/ p \notin PostgresLocked
                       /\ \E s \in DOMAIN c.settings : s[1] = p
                  \/ has[p] = c.tuning[p]
<1> DEFINE c == PostgresConfig(raw)
           free == Free(c.settings, PostgresLocked)
           tun == Tuning(c.tuning)
           low == Over(free, tun)
           file == Over(Doze({"listen_addresses"}), low)
           base == Over(file, Doze({"data_directory", "hba_file"}))
           args == Doze({"listen_addresses", "port", "unix_socket_directories"})
<1>1. c.settings = raw.settings /\ c.tuning = OrDefault(raw.tuning, PostgresDefaults)
  BY DEF PostgresConfig
<1>2. Spelled(c.settings, {"plain", "upper"})
  BY <1>1 DEF PostgresBody
<1>3. PostgresServer(c) = Over(args, base)
  BY DEF PostgresServer, PostgresFile
<1>4. DOMAIN c.tuning
        = {"shared_buffers", "max_connections", "fsync", "autovacuum"}
  BY <1>1 DEF OrDefault, PostgresDefaults
<1>5. DOMAIN tun = DOMAIN c.tuning \cup {"synchronous_commit", "full_page_writes"}
      /\ \A p \in DOMAIN c.tuning : tun[p] = c.tuning[p]
  BY OverAt DEF Tuning
<1> HIDE DEF c, tun, free, low, file, base, args
<1>6. /\ DOMAIN args = {"listen_addresses", "port", "unix_socket_directories"}
      /\ \A p \in DOMAIN args : args[p] = "doze"
      /\ DOMAIN base = DOMAIN file \cup {"data_directory", "hba_file"}
      /\ DOMAIN file = {"listen_addresses"} \cup DOMAIN low
      /\ DOMAIN low = DOMAIN free \cup DOMAIN tun
      /\ \A p \in DOMAIN file : base[p] = file[p]
      /\ \A p \in {"data_directory", "hba_file"} \ DOMAIN file : base[p] = "doze"
      /\ file["listen_addresses"] = "doze"
      /\ \A p \in DOMAIN low \ {"listen_addresses"} : file[p] = low[p]
      /\ \A p \in DOMAIN free : low[p] = free[p]
      /\ \A p \in DOMAIN tun \ DOMAIN free : low[p] = tun[p]
  <2>1. /\ DOMAIN low = DOMAIN free \cup DOMAIN tun
        /\ \A p \in DOMAIN free : low[p] = free[p]
        /\ \A p \in DOMAIN tun \ DOMAIN free : low[p] = tun[p]
    BY OverAt DEF low
  <2>2. /\ DOMAIN file = {"listen_addresses"} \cup DOMAIN low
        /\ file["listen_addresses"] = "doze"
        /\ \A p \in DOMAIN low \ {"listen_addresses"} : file[p] = low[p]
    BY DEF file, Over, Doze
  <2>3. /\ DOMAIN base = DOMAIN file \cup {"data_directory", "hba_file"}
        /\ \A p \in DOMAIN file : base[p] = file[p]
        /\ \A p \in {"data_directory", "hba_file"} \ DOMAIN file : base[p] = "doze"
    BY DEF base, Over, Doze
  <2>4. /\ DOMAIN args = {"listen_addresses", "port", "unix_socket_directories"}
        /\ \A p \in DOMAIN args : args[p] = "doze"
    BY DEF args, Doze
  <2>. QED  BY <2>1, <2>2, <2>3, <2>4
<1>7. /\ \A p \in DOMAIN args : PostgresServer(c)[p] = args[p]
      /\ \A p \in DOMAIN base \ DOMAIN args : PostgresServer(c)[p] = base[p]
  BY <1>3 DEF Over
<1>8. /\ \A s \in DOMAIN c.settings : s[1] \notin PostgresLocked =>
             s[1] \in DOMAIN free /\ Arrives(free, c.settings, s)
      /\ \A p \in DOMAIN free : \E s \in DOMAIN c.settings : s[1] = p
  BY <1>2, FreeAt DEF free
<1>9. \A p \in PostgresLocked : p \notin DOMAIN free
  BY <1>2, LockedIsNotFree DEF free
<1>10. \A p \in PostgresLocked : PostgresServer(c)[p] = "doze"
  BY <1>4, <1>5, <1>6, <1>7, <1>9 DEF PostgresLocked
<1>11. ASSUME NEW s \in DOMAIN c.settings, s[1] \notin PostgresLocked
       PROVE  Arrives(PostgresServer(c), c.settings, s)
  <2>1. PostgresServer(c)[s[1]] = free[s[1]]
    BY <1>6, <1>7, <1>8, <1>11 DEF PostgresLocked
  <2>. QED  BY <1>8, <1>11, <2>1, ArrivesOn
<1>12. ASSUME NEW p \in DOMAIN c.tuning, p \notin DOMAIN free
       PROVE  PostgresServer(c)[p] = c.tuning[p]
  BY <1>4, <1>5, <1>6, <1>7, <1>12
<1>13. \A p \in DOMAIN c.tuning : p \notin PostgresLocked
  BY <1>4 DEF PostgresLocked
<1>. QED  BY <1>8, <1>10, <1>11, <1>12, <1>13 DEF c

LEMMA MariaSettings ==
  ASSUME NEW raw, MariaBody(raw)
  PROVE  LET c == MariaConfig(raw)
             has == MariaServer(c)
         IN /\ \A p \in MariaArgs : has[p] = "doze"
            /\ \A s \in DOMAIN c.settings :
                  s[1] \notin MariaLocked => Arrives(has, c.settings, s)
            /\ \A p \in DOMAIN c.tuning :
                  \/ p \notin MariaArgs
                       /\ \E s \in DOMAIN c.settings : s[1] = p
                  \/ has[p] = c.tuning[p]
<1> DEFINE c == MariaConfig(raw)
           free == Free(c.settings, MariaLocked)
           low == Over(c.tuning, [sync_binlog |-> "0",
                                  innodb_flush_log_at_trx_commit |-> "0"])
           file == Over(free, low)
<1>1. c.settings = raw.settings /\ c.tuning = raw.tuning
  BY DEF MariaConfig
<1>2. Spelled(c.settings, {"plain", "upper", "underscore"})
      /\ DOMAIN c.tuning \subseteq MariaAttributes
  BY <1>1 DEF MariaBody
<1>3. MariaServer(c) = Over(Doze(MariaArgs), file)
  BY DEF MariaServer, MariaFile
<1> HIDE DEF c, free, low, file
<1>4. /\ DOMAIN file = DOMAIN free \cup DOMAIN low
      /\ DOMAIN c.tuning \subseteq DOMAIN low
      /\ \A p \in DOMAIN free : file[p] = free[p]
      /\ \A p \in DOMAIN low \ DOMAIN free : file[p] = low[p]
      /\ \A p \in DOMAIN c.tuning : low[p] = c.tuning[p]
  <2>1. /\ DOMAIN c.tuning \subseteq DOMAIN low
        /\ \A p \in DOMAIN c.tuning : low[p] = c.tuning[p]
    BY DEF low, Over
  <2>2. /\ DOMAIN file = DOMAIN free \cup DOMAIN low
        /\ \A p \in DOMAIN free : file[p] = free[p]
        /\ \A p \in DOMAIN low \ DOMAIN free : file[p] = low[p]
    BY DEF file, Over
  <2>. QED  BY <2>1, <2>2
<1>5. /\ \A p \in MariaArgs : MariaServer(c)[p] = "doze"
      /\ \A p \in DOMAIN file \ MariaArgs : MariaServer(c)[p] = file[p]
  BY <1>3 DEF Over, Doze
<1>6. /\ \A s \in DOMAIN c.settings : s[1] \notin MariaLocked =>
             s[1] \in DOMAIN free /\ Arrives(free, c.settings, s)
      /\ \A p \in DOMAIN free : \E s \in DOMAIN c.settings : s[1] = p
  BY <1>2, FreeAt DEF free
<1>7. MariaArgs \subseteq MariaLocked /\ \A p \in DOMAIN c.tuning : p \notin MariaArgs
  BY <1>2 DEF MariaArgs, MariaLocked, MariaAttributes
<1>8. ASSUME NEW s \in DOMAIN c.settings, s[1] \notin MariaLocked
      PROVE  Arrives(MariaServer(c), c.settings, s)
  <2>1. MariaServer(c)[s[1]] = free[s[1]]
    BY <1>4, <1>5, <1>6, <1>7, <1>8
  <2>. QED  BY <1>6, <1>8, <2>1, ArrivesOn
<1>. QED  BY <1>4, <1>5, <1>6, <1>7, <1>8 DEF c

LEMMA FerretSettings ==
  ASSUME NEW raw, FerretBody(raw)
  PROVE  LET c == FerretConfig(raw)
             has == FerretServer(c)
         IN /\ \A p \in FerretLocked : has[p] = "doze"
            /\ \A s \in DOMAIN c.settings :
                  s[1] \notin FerretLocked => Arrives(has, c.settings, s)
<1> DEFINE c == FerretConfig(raw)
           free == Free(c.settings, FerretLocked)
           own == Over(Doze(FerretLocked), [TELEMETRY |-> "disable"])
           low == Over(own, Inherited)
<1>1. c.settings = raw.settings
  BY DEF FerretConfig
<1>2. Spelled(c.settings, {"plain", "upper"})
  BY <1>1 DEF FerretBody
<1>3. FerretServer(c) = Over(free, low)
  BY DEF FerretServer
<1> HIDE DEF c, free, own, low
<1>4. /\ FerretLocked \subseteq DOMAIN low
      /\ \A p \in FerretLocked : low[p] = "doze"
  <2>1. /\ FerretLocked \subseteq DOMAIN own
        /\ \A p \in FerretLocked : own[p] = "doze"
    BY DEF own, Over, Doze
  <2>. QED  BY <2>1 DEF low, Over
<1>5. /\ \A p \in DOMAIN free : FerretServer(c)[p] = free[p]
      /\ \A p \in DOMAIN low \ DOMAIN free : FerretServer(c)[p] = low[p]
  BY <1>3 DEF Over
<1>6. \A s \in DOMAIN c.settings : s[1] \notin FerretLocked =>
             s[1] \in DOMAIN free /\ Arrives(free, c.settings, s)
  BY <1>2, FreeAt DEF free
<1>7. \A p \in FerretLocked : p \notin DOMAIN free
  BY <1>2, LockedIsNotFree DEF free
<1>8. ASSUME NEW s \in DOMAIN c.settings, s[1] \notin FerretLocked
      PROVE  Arrives(FerretServer(c), c.settings, s)
  BY <1>5, <1>6, <1>8, ArrivesOn
<1>. QED  BY <1>4, <1>5, <1>7, <1>8 DEF c

LEMMA ValkeySettings ==
  ASSUME NEW c, ValkeyBody(c)
  PROVE  /\ \A s \in DOMAIN c.settings : Arrives(ValkeyServer(c), c.settings, s)
         /\ \A p \in DOMAIN c.tuning :
               \/ \E s \in DOMAIN c.settings : s[1] = p
               \/ ValkeyServer(c)[p] = c.tuning[p]
<1> DEFINE free == Free(c.settings, {})
           own == Over(c.tuning, [save |-> "", appendonly |-> "no"])
           low == Over(own, Doze({"port", "unixsocket", "dir"}))
<1>1. ValkeyServer(c) = Over(free, low)
  BY DEF ValkeyServer
<1> HIDE DEF free, own, low
<1>2. DOMAIN c.tuning \subseteq DOMAIN low /\ \A p \in DOMAIN c.tuning : low[p] = c.tuning[p]
  <2>1. DOMAIN c.tuning \subseteq DOMAIN own /\ \A p \in DOMAIN c.tuning : own[p] = c.tuning[p]
    BY DEF own, Over
  <2>. QED  BY <2>1 DEF low, Over
<1>3. /\ \A s \in DOMAIN c.settings :
             s[1] \in DOMAIN free /\ Arrives(free, c.settings, s)
      /\ \A p \in DOMAIN free : \E s \in DOMAIN c.settings : s[1] = p
  BY FreeAt DEF ValkeyBody, free
<1>4. /\ \A p \in DOMAIN free : ValkeyServer(c)[p] = free[p]
      /\ \A p \in DOMAIN low \ DOMAIN free : ValkeyServer(c)[p] = low[p]
  BY <1>1 DEF Over
<1>5. ASSUME NEW s \in DOMAIN c.settings
      PROVE  Arrives(ValkeyServer(c), c.settings, s)
  BY <1>3, <1>4, ArrivesOn
<1>. QED  BY <1>2, <1>3, <1>4, <1>5

LEMMA KvrocksSettings ==
  ASSUME NEW c, KvrocksBody(c), KvrocksAccepts(c)
  PROVE  LET kept == {n.name[1] : n \in Range(c.namespaces)}
         IN /\ \A p \in kept : KvrocksServer(c)[p] = "doze"
            /\ \A s \in DOMAIN c.settings :
                  s[1] \notin kept => Arrives(KvrocksServer(c), c.settings, s)
            /\ \A p \in DOMAIN c.tuning :
                  \/ p \notin kept /\ \E s \in DOMAIN c.settings : s[1] = p
                  \/ KvrocksServer(c)[p] = c.tuning[p]
<1> DEFINE kept == {n.name[1] : n \in Range(c.namespaces)}
           free == Free(c.settings, {})
           own == Over(c.tuning, Doze({"dir", "bind", "port", "unixsocket"}))
           low == Over(free, own)
           top == [p \in {c.namespaces[i].name[1] : i \in DOMAIN c.namespaces}
                      |-> "doze"]
<1>1. KvrocksServer(c) = Over(top, low)
  BY DEF KvrocksServer
<1> HIDE DEF free, own, low
<1>2. DOMAIN top = kept /\ \A p \in kept : top[p] = "doze"
  BY DEF Range
<1> HIDE DEF top, kept
<1>3. DOMAIN c.tuning \subseteq DOMAIN own /\ \A p \in DOMAIN c.tuning : own[p] = c.tuning[p]
  BY DEF own, Over
<1>4. /\ DOMAIN low = DOMAIN free \cup DOMAIN own
      /\ \A p \in DOMAIN free : low[p] = free[p]
      /\ \A p \in DOMAIN own \ DOMAIN free : low[p] = own[p]
  BY DEF low, Over
<1>5. /\ \A s \in DOMAIN c.settings :
             s[1] \in DOMAIN free /\ Arrives(free, c.settings, s)
      /\ \A p \in DOMAIN free : \E s \in DOMAIN c.settings : s[1] = p
  BY FreeAt DEF KvrocksBody, free
<1>6. \A n \in Range(c.namespaces) : n.name # NoName
  BY DEF KvrocksAccepts, Labelled, Labels, Range
<1>7. \A p \in DOMAIN c.tuning : p \notin kept
  BY <1>6 DEF KvrocksBody, kept
<1>8. /\ \A p \in kept : KvrocksServer(c)[p] = "doze"
      /\ \A p \in DOMAIN low \ kept : KvrocksServer(c)[p] = low[p]
  BY <1>1, <1>2 DEF Over
<1>9. ASSUME NEW s \in DOMAIN c.settings, s[1] \notin kept
      PROVE  Arrives(KvrocksServer(c), c.settings, s)
  <2>1. KvrocksServer(c)[s[1]] = free[s[1]]
    BY <1>4, <1>5, <1>8, <1>9
  <2>. QED  BY <1>5, <2>1, ArrivesOn
<1>. QED  BY <1>3, <1>4, <1>5, <1>7, <1>8, <1>9 DEF kept

-----------------------------------------------------------------------------
(* What an accepted body is decoded to.                                    *)

PostgresShape(c) ==
    /\ IsSeq(c.roles) /\ IsSeq(c.schemas) /\ IsSeq(c.extensions) /\ IsSeq(c.grants)
    /\ \A r \in Range(c.roles) : r.name # NoName
    /\ \A i, j \in DOMAIN c.roles : c.roles[i].name = c.roles[j].name => i = j
    /\ \A s \in Range(c.schemas) : s.name # NoName
    /\ \A g \in Range(c.grants) : ValidGrant(g)

MariaShape(c) ==
    /\ IsSeq(c.users) /\ IsSeq(c.grants)
    /\ \A u \in Range(c.users) :
           /\ IsSeq(u.name) /\ IsSeq(u.host)
           /\ u.name # NoName /\ u.host # NoName
    /\ \A i, j \in DOMAIN c.users :
           /\ c.users[i].name = c.users[j].name
           /\ c.users[i].host = c.users[j].host
           => i = j
    /\ \A g \in Range(c.grants) : g.user # NoName /\ g.host # NoName

FerretShape(c) ==
    /\ IsSeq(c.databases)
    /\ \A db \in Range(c.databases) :
           /\ IsSeq(db.collections) /\ IsSeq(db.name) /\ db.name # NoName
           /\ \A coll \in Range(db.collections) :
                  IsSeq(coll.name) /\ coll.name # NoName

TemporalShape(c) ==
    /\ IsSeq(c.namespaces)
    /\ \A n \in Range(c.namespaces) : n.name # NoName
    /\ \A i, j \in DOMAIN c.namespaces :
           c.namespaces[i].name = c.namespaces[j].name => i = j

AwsShape(c) ==
    IsFiniteSet(DOMAIN c) /\ \A k \in DOMAIN c : IsFiniteSet(DOMAIN c[k])

LEMMA LabelledNames ==
  ASSUME NEW blocks, Labelled(blocks)
  PROVE  \A b \in Range(blocks) : b.name # NoName
BY DEF Labelled, Labels, Range

LEMMA DistinctNames ==
  ASSUME NEW blocks, Distinct(Labels(blocks))
  PROVE  \A i, j \in DOMAIN blocks : blocks[i].name = blocks[j].name => i = j
BY DEF Distinct, Labels

LEMMA PostgresDecoded ==
  ASSUME NEW raw, PostgresBody(raw), PostgresAccepts(raw)
  PROVE  PostgresShape(PostgresConfig(raw))
<1> DEFINE c == PostgresConfig(raw)
           bare == WithoutRepeats(raw.extensions)
           first == [i \in DOMAIN bare |-> BareExtension(bare[i])]
<1>1. /\ c.roles = [i \in DOMAIN raw.roles |-> NormalRole(raw.roles[i])]
      /\ c.schemas = raw.schemas /\ c.grants = raw.grants
      /\ c.extensions = first \o raw.blocks
  BY DEF PostgresConfig
<1>2. /\ IsSeq(raw.roles) /\ IsSeq(raw.schemas) /\ IsSeq(raw.grants)
      /\ IsSeq(raw.extensions) /\ IsSeq(raw.blocks)
  BY DEF PostgresBody
<1>3. /\ Labelled(raw.roles) /\ Distinct(Labels(raw.roles))
      /\ Labelled(raw.schemas) /\ Labelled(raw.blocks)
      /\ \A i \in DOMAIN raw.grants : ValidGrant(raw.grants[i])
  BY DEF PostgresAccepts
<1> HIDE DEF c
<1>4. /\ IsSeq(c.roles) /\ DOMAIN c.roles = DOMAIN raw.roles
      /\ \A i \in DOMAIN raw.roles : c.roles[i].name = raw.roles[i].name
  <2>1. /\ DOMAIN c.roles = DOMAIN raw.roles
        /\ c.roles \in [DOMAIN raw.roles -> Range(c.roles)]
    BY <1>1 DEF Range
  <2>2. \A i \in DOMAIN raw.roles : c.roles[i].name = raw.roles[i].name
    BY <1>1 DEF NormalRole
  <2>. QED  BY <2>1, <2>2, <1>2, SameShape
<1>5. \A r \in Range(c.roles) : r.name # NoName
  BY <1>3, <1>4, LabelledNames DEF Range
<1>6. \A i, j \in DOMAIN c.roles : c.roles[i].name = c.roles[j].name => i = j
  BY <1>3, <1>4, DistinctNames
<1>7. IsSeq(bare)
  BY <1>2, KeptOnce DEF Once
<1> HIDE DEF bare
<1>8. IsSeq(first)
  <2>1. first \in [DOMAIN bare -> Range(first)]
    BY DEF Range
  <2> HIDE DEF first
  <2>. QED  BY <2>1, <1>7, SameShape
<1> HIDE DEF first
<1>9. IsSeq(c.extensions)
  BY <1>1, <1>2, <1>8, Concat
<1>11. \A s \in Range(c.schemas) : s.name # NoName
  BY <1>1, <1>3, LabelledNames
<1>12. \A g \in Range(c.grants) : ValidGrant(g)
  BY <1>1, <1>3 DEF Range
<1>. QED  BY <1>1, <1>2, <1>4, <1>5, <1>6, <1>9, <1>11, <1>12
          DEF PostgresShape, c

LEMMA MariaDecoded ==
  ASSUME NEW raw, MariaBody(raw), MariaAccepts(raw)
  PROVE  MariaShape(MariaConfig(raw))
<1> DEFINE c == MariaConfig(raw)
<1>1. /\ c.users = [i \in DOMAIN raw.users |-> NormalUser(raw.users[i])]
      /\ c.grants = [i \in DOMAIN raw.grants |-> NormalPrivilege(raw.grants[i])]
  BY DEF MariaConfig
<1>2. /\ IsSeq(raw.users) /\ IsSeq(raw.grants)
      /\ \A u \in Range(raw.users) :
            /\ {"name", "host", "password"} \subseteq DOMAIN u
            /\ IsSeq(u.name) /\ IsSeq(u.host)
      /\ \A g \in Range(raw.grants) :
            {"user", "host", "database", "table"} \subseteq DOMAIN g
  BY DEF MariaBody, HasFields
<1>3. /\ Labelled(c.users)
      /\ Distinct([i \in DOMAIN c.users |-> Account(c.users[i])])
      /\ \A i \in DOMAIN raw.grants : raw.grants[i].user # NoName
  BY DEF MariaAccepts
<1> HIDE DEF c
<1>4. IsSeq(c.users) /\ IsSeq(c.grants)
  <2>1. c.users \in [DOMAIN raw.users -> Range(c.users)]
    BY <1>1 DEF Range
  <2>2. c.grants \in [DOMAIN raw.grants -> Range(c.grants)]
    BY <1>1 DEF Range
  <2>. QED  BY <1>2, <2>1, <2>2, SameShape
<1>5. IsSeq(AnyHost) /\ AnyHost # NoName
  BY DEF AnyHost, IsSeq, Range, NoName
<1>6. \A i \in DOMAIN raw.users :
         /\ c.users[i].name = raw.users[i].name
         /\ c.users[i].host = Given(raw.users[i].host, AnyHost)
  BY <1>1, <1>2 DEF NormalUser, Range
<1>7. \A i \in DOMAIN raw.grants :
         /\ c.grants[i].user = raw.grants[i].user
         /\ c.grants[i].host = Given(raw.grants[i].host, AnyHost)
  <2>1. ASSUME NEW g, {"user", "host", "database", "table"} \subseteq DOMAIN g
        PROVE  /\ NormalPrivilege(g).user = g.user
               /\ NormalPrivilege(g).host = Given(g.host, AnyHost)
    <3> DEFINE h == [g EXCEPT !.host = Given(g.host, AnyHost)]
               k == [h EXCEPT !.database = Given(g.database, <<"*">>)]
               l == [k EXCEPT !.table = Given(g.table, <<"*">>)]
    <3>1. NormalPrivilege(g) = l
      BY DEF NormalPrivilege
    <3>2. DOMAIN h = DOMAIN g /\ h.user = g.user /\ h.host = Given(g.host, AnyHost)
      BY <2>1
    <3> HIDE DEF h
    <3>3. DOMAIN k = DOMAIN h /\ k.user = h.user /\ k.host = h.host
      BY <3>2, <2>1
    <3> HIDE DEF k
    <3>4. l.user = k.user /\ l.host = k.host
      BY <3>2, <3>3, <2>1
    <3>. QED  BY <3>1, <3>2, <3>3, <3>4
  <2>2. \A i \in DOMAIN raw.grants :
           /\ c.grants[i] = NormalPrivilege(raw.grants[i])
           /\ raw.grants[i] \in Range(raw.grants)
    BY <1>1 DEF Range
  <2>. QED  BY <1>2, <2>1, <2>2
<1>8. DOMAIN c.users = DOMAIN raw.users /\ DOMAIN c.grants = DOMAIN raw.grants
  BY <1>1
<1>9. ASSUME NEW u \in Range(c.users)
      PROVE  /\ IsSeq(u.name) /\ IsSeq(u.host)
             /\ u.name # NoName /\ u.host # NoName
  <2>1. PICK i \in DOMAIN raw.users : u = c.users[i]
    BY <1>8 DEF Range
  <2>2. raw.users[i] \in Range(raw.users)
    BY DEF Range
  <2>. QED  BY <2>1, <2>2, <1>2, <1>3, <1>5, <1>6, LabelledNames DEF Given
<1>10. ASSUME NEW i \in DOMAIN c.users, NEW j \in DOMAIN c.users,
              c.users[i].name = c.users[j].name,
              c.users[i].host = c.users[j].host
       PROVE  i = j
  <2>1. Account(c.users[i]) = Account(c.users[j])
    BY <1>10 DEF Account
  <2>. QED  BY <2>1, <1>3 DEF Distinct
<1>11. \A g \in Range(c.grants) : g.user # NoName /\ g.host # NoName
  BY <1>3, <1>5, <1>7, <1>8 DEF Range, Given
<1>. QED  BY <1>4, <1>9, <1>10, <1>11 DEF MariaShape, c

LEMMA FerretDecoded ==
  ASSUME NEW raw, FerretBody(raw), FerretAccepts(raw)
  PROVE  FerretShape(FerretConfig(raw))
<1>1. FerretConfig(raw).databases = raw.databases
  BY DEF FerretConfig
<1>2. ASSUME NEW db \in Range(raw.databases)
      PROVE  /\ IsSeq(db.collections) /\ IsSeq(db.name) /\ db.name # NoName
             /\ \A coll \in Range(db.collections) :
                    IsSeq(coll.name) /\ coll.name # NoName
  <2>1. PICK i \in DOMAIN raw.databases : db = raw.databases[i]
    BY DEF Range
  <2>2. Labelled(db.collections) /\ Labelled(raw.databases)
    BY <2>1 DEF FerretAccepts
  <2>. QED  BY <2>2, LabelledNames DEF FerretBody
<1>. QED  BY <1>1, <1>2 DEF FerretShape, FerretBody

LEMMA TemporalDecoded ==
  ASSUME NEW raw, TemporalBody(raw), TemporalAccepts(raw)
  PROVE  TemporalShape(TemporalConfig(raw))
<1>1. TemporalConfig(raw).namespaces = raw.namespaces
  BY DEF TemporalConfig
<1>2. Labelled(raw.namespaces) /\ Distinct(Labels(raw.namespaces))
  BY DEF TemporalAccepts
<1>3. \A n \in Range(raw.namespaces) : n.name # NoName
  BY <1>2, LabelledNames
<1>4. \A i, j \in DOMAIN raw.namespaces :
         raw.namespaces[i].name = raw.namespaces[j].name => i = j
  BY <1>2, DistinctNames
<1>. QED  BY <1>1, <1>3, <1>4 DEF TemporalShape, TemporalBody

LEMMA KafkaDecoded ==
  ASSUME NEW raw, KafkaBody(raw)
  PROVE  IsSeq(KafkaConfig(raw).topics)
<1> DEFINE t == KafkaConfig(raw).topics
<1>1. t \in [DOMAIN raw.topics -> Range(t)]
  BY DEF KafkaConfig, Range
<1> HIDE DEF t
<1>. QED  BY <1>1, SameShape DEF KafkaBody, HasFields, t

LEMMA AwsDecoded ==
  ASSUME NEW raw, AwsBody(raw)
  PROVE  AwsShape(AwsConfig(raw))
<1>1. IsFiniteSet(DOMAIN raw) /\ \A k \in DOMAIN raw : IsSeq(raw[k])
  BY DEF AwsBody
<1>2. DOMAIN AwsConfig(raw) = DOMAIN raw
  BY DEF AwsConfig
<1>3. ASSUME NEW blocks, NEW n \in Nat, DOMAIN blocks = 1 .. n
      PROVE  IsFiniteSet(DOMAIN Stack(blocks))
  <2>1. DOMAIN Stack(blocks) = {blocks[i].name : i \in 1 .. n}
    BY <1>3 DEF Stack, Labels, Range
  <2>2. IsFiniteSet(1 .. n)
    BY FS_Interval
  <2> DEFINE f == [i \in 1 .. n |-> blocks[i].name]
  <2>3. f \in Surjection(1 .. n, {blocks[i].name : i \in 1 .. n})
    BY DEF Surjection
  <2>. QED  BY <2>1, <2>2, <2>3, FS_Surjection
<1>4. ASSUME NEW k \in DOMAIN raw
      PROVE  IsFiniteSet(DOMAIN AwsConfig(raw)[k])
  <2> DEFINE blocks == IF k = "rule"
                       THEN [i \in DOMAIN raw.rule |-> NormalRule(raw.rule[i])]
                       ELSE raw[k]
  <2>1. AwsConfig(raw)[k] = Stack(blocks)
    BY DEF AwsConfig
  <2>2. DOMAIN blocks = DOMAIN raw[k]
    BY Zenon
  <2>3. Len(raw[k]) \in Nat /\ DOMAIN raw[k] = 1 .. Len(raw[k])
    BY <1>1, SeqFacts
  <2> HIDE DEF blocks
  <2>. QED  BY <2>1, <2>2, <2>3, <1>3
<1>. QED  BY <1>1, <1>2, <1>4 DEF AwsShape

\* SetToSeq lists a finite set.
LEMMA Listing ==
  ASSUME NEW S, IsFiniteSet(S)
  PROVE  IsSeq(SetToSeq(S)) /\ Range(SetToSeq(S)) = S
<1> DEFINE n == Cardinality(S)
           f == SetToSeq(S)
<1>1. n \in Nat /\ ExistsBijection(1 .. n, S)
  BY FS_CardinalityType
<1>2. PICK g \in Bijection(1 .. n, S) : TRUE
  BY <1>1 DEF ExistsBijection
<1>3. g \in [1 .. n -> S] /\ IsInjective(g)
  BY <1>2 DEF Bijection, Injection
<1>4. f \in [1 .. n -> S] /\ IsInjective(f)
  BY <1>3 DEF SetToSeq
<1> HIDE DEF f
<1>5. f \in Injection(1 .. n, S)
  BY <1>4 DEF Injection
<1>6. f \in Surjection(1 .. n, S)
  <2>1. IsFiniteSet(1 .. n) /\ Cardinality(1 .. n) = n
    BY <1>1, FS_Interval
  <2>. QED  BY <1>5, <2>1, FS_Injection
<1>7. Range(f) = S
  BY <1>4, <1>6 DEF Range, Surjection
<1>8. f \in Seq(S)
  BY <1>1, <1>4, SeqDef
<1>. QED  BY <1>7, <1>8 DEF IsSeq, f
=============================================================================
