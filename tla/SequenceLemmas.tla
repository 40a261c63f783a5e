--------------------------- MODULE SequenceLemmas ---------------------------
(***************************************************************************)
(* What the proofs of several modules need to know of sequences: induction *)
(* over the natural numbers, stated of a set so that it can be cited, and  *)
(* what FlattenSeq makes of a sequence and of its prefixes.                *)
(***************************************************************************)
EXTENDS Integers, Sequences, SequencesExt, SequenceTheorems, WellFoundedInduction, TLAPS

(***************************************************************************)
(* Induction.                                                              *)
(***************************************************************************)
LessThan == {p \in Nat \X Nat : p[1] < p[2]}

LEMMA NatIsWellFounded == IsWellFoundedOn(LessThan, Nat)
  <1>1. OpToRel(<, Nat) = LessThan
    BY Zenon DEF OpToRel, LessThan
  <1> QED BY Zenon, <1>1, NatLessThanWellFounded

\* A set that holds 0 and the successor of each of its numbers holds every number.
LEMMA SetInduction ==
    ASSUME NEW T, 0 \in T, \A n \in Nat : n \in T => n + 1 \in T
    PROVE  Nat \subseteq T
  <1> DEFINE U == Nat \ T
  <1> SUFFICES ASSUME U # {} PROVE FALSE
    OBVIOUS
  <1>1. PICK x \in U : \A y \in U : <<y, x>> \notin LessThan
    <2>1. U \subseteq Nat
      OBVIOUS
    <2> HIDE DEF U
    <2> QED BY <2>1, NatIsWellFounded, WFMin
  <1>2. x - 1 \in Nat /\ x - 1 < x
    OBVIOUS
  <1>3. x - 1 \in U
    BY <1>1, <1>2
  <1>4. <<x - 1, x>> \in LessThan
    BY <1>2 DEF LessThan
  <1> QED BY <1>1, <1>3, <1>4

(***************************************************************************)
(* FlattenSeq.                                                             *)
(***************************************************************************)
\* f[i] is what the first i of n sequences are flattened to.
Flattens(f, s, n) == f = [i \in 1..n |-> IF i = 1 THEN s[i] ELSE f[i - 1] \o s[i]]

LEMMA FlattensExists == ASSUME NEW s, NEW n \in Nat PROVE \E f : Flattens(f, s, n)
  <1> DEFINE T == {k \in Nat : \E f : Flattens(f, s, k)}
  <1>1. 0 \in T
    <2>1. Flattens([i \in 1..0 |-> s[i]], s, 0)
      BY DEF Flattens
    <2> QED BY <2>1
  <1>2. ASSUME NEW k \in Nat, k \in T
        PROVE  k + 1 \in T
    <2>1. PICK f : Flattens(f, s, k)
      BY <1>2
    <2> DEFINE g == [i \in 1..(k + 1) |->
                        IF i = k + 1 THEN IF i = 1 THEN s[i] ELSE f[i - 1] \o s[i] ELSE f[i]]
    <2>2. Flattens(g, s, k + 1)
      <3> SUFFICES ASSUME NEW i \in 1..(k + 1)
                   PROVE  g[i] = IF i = 1 THEN s[i] ELSE g[i - 1] \o s[i]
        BY DEF Flattens
      <3>1. CASE i = k + 1
        <4>1. i # 1 => i - 1 \in 1..(k + 1) /\ i - 1 # k + 1
          BY <3>1
        <4> QED BY <3>1, <4>1
      <3>2. CASE i # k + 1
        <4>1. i \in 1..k /\ (i # 1 => i - 1 \in 1..(k + 1) /\ i - 1 # k + 1)
          BY <3>2
        <4>2. f[i] = IF i = 1 THEN s[i] ELSE f[i - 1] \o s[i]
          BY <2>1, <4>1 DEF Flattens
        <4> QED BY <3>2, <4>1, <4>2
      <3> QED BY <3>1, <3>2
    <2> QED BY <2>2
  <1> HIDE DEF T
  <1>3. Nat \subseteq T
    BY <1>1, <1>2, SetInduction
  <1> QED BY <1>3 DEF T

\* A prefix is flattened to the same, whatever follows.
LEMMA FlattensUnique ==
    ASSUME NEW s, NEW t, NEW f, NEW g, NEW k \in Nat, NEW n \in Nat,
           Flattens(f, s, k), Flattens(g, t, n), k <= n,
           \A i \in 1..k : s[i] = t[i]
    PROVE  \A i \in 1..k : f[i] = g[i]
  <1> DEFINE T == {j \in Nat : j \in 1..k => f[j] = g[j]}
  <1>1. 0 \in T
    OBVIOUS
  <1>2. ASSUME NEW j \in Nat, j \in T
        PROVE  j + 1 \in T
    <2> SUFFICES ASSUME j + 1 \in 1..k PROVE f[j + 1] = g[j + 1]
      OBVIOUS
    <2>1. j + 1 \in 1..k /\ j + 1 \in 1..n /\ (j + 1) - 1 = j
      OBVIOUS
    <2>2. /\ f[j + 1] = IF j + 1 = 1 THEN s[j + 1] ELSE f[j] \o s[j + 1]
          /\ g[j + 1] = IF j + 1 = 1 THEN t[j + 1] ELSE g[j] \o t[j + 1]
      BY ZenonT(30), <2>1 DEF Flattens
    <2>3. j + 1 # 1 => f[j] = g[j]
      BY <1>2
    <2> QED BY <2>2, <2>3
  <1> HIDE DEF T
  <1>3. Nat \subseteq T
    BY <1>1, <1>2, SetInduction
  <1> QED BY <1>3 DEF T

Agree(s, t, k) == \A i \in 1..k : s[i] = t[i]

LEMMA FlattensAgree ==
    ASSUME NEW s, NEW t, NEW f, NEW g, NEW k \in Nat,
           Agree(s, t, k), Flattens(f, s, k), Flattens(g, t, k + 1)
    PROVE  Agree(f, g, k)
  BY FlattensUnique DEF Agree

LEMMA FlattenIs ==
    ASSUME NEW S, NEW s \in Seq(S), NEW f, Flattens(f, s, Len(s)), Len(s) # 0
    PROVE  FlattenSeq(s) = f[Len(s)]
  <1>1. PICK g : Flattens(g, s, Len(s)) /\ FlattenSeq(s) = g[Len(s)]
    BY DEF FlattenSeq, Flattens
  <1>2. Len(s) \in Nat /\ Len(s) \in 1..Len(s)
    BY LenProperties
  <1>3. \A i \in 1..Len(s) : g[i] = f[i]
    BY <1>1, <1>2, FlattensUnique
  <1> QED BY <1>1, <1>2, <1>3

LEMMA FlattenEmpty == FlattenSeq(<<>>) = <<>>
  BY DEF FlattenSeq

LEMMA Prefix ==
    ASSUME NEW S, NEW s \in Seq(S), NEW k \in 0..Len(s)
    PROVE  /\ SubSeq(s, 1, k) \in Seq(S) /\ Len(SubSeq(s, 1, k)) = k
           /\ \A i \in 1..k : SubSeq(s, 1, k)[i] = s[i]
  <1>1. Len(s) \in Nat /\ \A i \in 1..k : s[i] \in S
    BY LenProperties, ElementOfSeq
  <1>2. /\ SubSeq(s, 1, k) \in Seq(S)
        /\ Len(SubSeq(s, 1, k)) = IF 1 <= k THEN k - 1 + 1 ELSE 0
        /\ \A i \in 1..(k - 1 + 1) : SubSeq(s, 1, k)[i] = s[1 + i - 1]
    BY <1>1, SubSeqProperties
  <1> QED BY <1>1, <1>2

\* One more sequence is flattened to the end of what those before it are flattened to.
LEMMA FlattenMore ==
    ASSUME NEW T, NEW p \in Seq(Seq(T)), NEW q \in Seq(Seq(T)), NEW k \in Nat,
           Len(p) = k, Len(q) = k + 1, \A i \in 1..k : p[i] = q[i]
    PROVE  FlattenSeq(q) = FlattenSeq(p) \o q[k + 1]
  <1> DEFINE n == k + 1
  <1>1. n \in Nat /\ k <= n /\ n \in 1..n /\ n # 0 /\ (k # 0 => k \in 1..k /\ n # 1)
    OBVIOUS
  <1>2. n - 1 = k /\ Len(q) = n /\ (k = 0 => n = 1)
    OBVIOUS
  <1> HIDE DEF n
  <1>3. PICK g : Flattens(g, q, n)
    BY <1>1, FlattensExists
  <1>4. FlattenSeq(q) = g[n]
    BY <1>1, <1>2, <1>3, FlattenIs
  <1>5. g[n] = IF n = 1 THEN q[n] ELSE g[n - 1] \o q[n]
    BY <1>1, <1>3 DEF Flattens
  <1>6. CASE k = 0
    <2>1. FlattenSeq(p) = <<>>
      BY <1>6, EmptySeq, FlattenEmpty
    <2>2. q[n] \in Seq(T)
      BY <1>1, <1>2, ElementOfSeq
    <2> QED BY <1>2, <1>4, <1>5, <1>6, <2>1, <2>2, ConcatEmptySeq DEF n
  <1>7. CASE k # 0
    <2>1. PICK f : Flattens(f, p, k)
      BY FlattensExists
    <2>2. FlattenSeq(p) = f[k]
      BY <1>7, <2>1, FlattenIs
    <2>3. f[k] = g[k]
      <3>1. Agree(p, q, k)
        BY DEF Agree
      <3>2. Agree(f, g, k)
        BY <1>3, <2>1, <3>1, FlattensAgree DEF n
      <3> QED BY <1>1, <1>7, <3>2 DEF Agree
    <2> QED BY <1>1, <1>2, <1>4, <1>5, <1>7, <2>2, <2>3 DEF n
  <1> QED BY <1>6, <1>7

LEMMA FlattenPrefix ==
    ASSUME NEW T, NEW s \in Seq(Seq(T)), NEW k \in 0..(Len(s) - 1)
    PROVE  FlattenSeq(SubSeq(s, 1, k + 1)) = FlattenSeq(SubSeq(s, 1, k)) \o s[k + 1]
  <1> DEFINE p == SubSeq(s, 1, k)
             q == SubSeq(s, 1, k + 1)
  <1>1. /\ k \in Nat /\ k \in 0..Len(s) /\ k + 1 \in 0..Len(s)
        /\ \A i \in 1..k : i \in 1..(k + 1)
        /\ k + 1 \in 1..(k + 1)
    BY LenProperties
  <1>2. /\ p \in Seq(Seq(T)) /\ Len(p) = k /\ \A i \in 1..k : p[i] = s[i]
        /\ q \in Seq(Seq(T)) /\ Len(q) = k + 1 /\ \A i \in 1..(k + 1) : q[i] = s[i]
    BY <1>1, Prefix
  <1> HIDE DEF p, q
  <1>3. \A i \in 1..k : p[i] = q[i]
    BY <1>1, <1>2
  <1>4. q[k + 1] = s[k + 1]
    BY <1>1, <1>2
  <1>5. FlattenSeq(q) = FlattenSeq(p) \o q[k + 1]
    BY <1>1, <1>2, <1>3, FlattenMore
  <1> QED BY <1>4, <1>5 DEF p, q

LEMMA FlattenType ==
    ASSUME NEW T, NEW s \in Seq(Seq(T))
    PROVE  \A k \in 0..Len(s) : FlattenSeq(SubSeq(s, 1, k)) \in Seq(T)
  <1> DEFINE U == {k \in Nat : k <= Len(s) => FlattenSeq(SubSeq(s, 1, k)) \in Seq(T)}
  <1>0. Len(s) \in Nat
    BY LenProperties
  <1>1. 0 \in U
    <2>1. SubSeq(s, 1, 0) = <<>>
      BY SubSeqEmpty
    <2>2. FlattenSeq(SubSeq(s, 1, 0)) \in Seq(T)
      BY <2>1, FlattenEmpty, EmptySeq
    <2> QED BY <2>2
  <1>2. ASSUME NEW k \in Nat, k \in U
        PROVE  k + 1 \in U
    <2> SUFFICES ASSUME k + 1 <= Len(s) PROVE FlattenSeq(SubSeq(s, 1, k + 1)) \in Seq(T)
      OBVIOUS
    <2>1. k \in 0..(Len(s) - 1) /\ k <= Len(s) /\ k + 1 \in 1..Len(s)
      BY <1>0
    <2>2. s[k + 1] \in Seq(T) /\ FlattenSeq(SubSeq(s, 1, k)) \in Seq(T)
      BY <1>2, <2>1, ElementOfSeq
    <2> QED BY ZenonT(30), <2>1, <2>2, FlattenPrefix, ConcatProperties
  <1> HIDE DEF U
  <1>3. Nat \subseteq U
    BY <1>1, <1>2, SetInduction
  <1> QED BY <1>0, <1>3 DEF U

Flat(s, k) == FlattenSeq(SubSeq(s, 1, k))

LEMMA FlatType ==
    ASSUME NEW T, NEW s \in Seq(Seq(T)), NEW k \in 0..Len(s)
    PROVE  Flat(s, k) \in Seq(T) /\ Len(Flat(s, k)) \in Nat
  <1>1. Flat(s, k) \in Seq(T)
    BY FlattenType DEF Flat
  <1> HIDE DEF Flat
  <1> QED BY <1>1, LenProperties

\* What is flattened of a longer prefix begins with what is flattened of a shorter one.
LEMMA FlatGrows ==
    ASSUME NEW T, NEW s \in Seq(Seq(T)), NEW k \in 0..Len(s)
    PROVE  \A j \in k..Len(s) :
              /\ Len(Flat(s, k)) <= Len(Flat(s, j))
              /\ \A i \in 1..Len(Flat(s, k)) : Flat(s, j)[i] = Flat(s, k)[i]
  <1> DEFINE Begins(j) == /\ Len(Flat(s, k)) <= Len(Flat(s, j))
                          /\ \A i \in 1..Len(Flat(s, k)) : Flat(s, j)[i] = Flat(s, k)[i]
             U == {d \in Nat : k + d <= Len(s) => Begins(k + d)}
  <1>0. Len(s) \in Nat /\ k \in Nat
    BY LenProperties
  <1>1. 0 \in U
    BY <1>0, FlatType
  <1>2. ASSUME NEW d \in Nat, d \in U
        PROVE  d + 1 \in U
    <2> SUFFICES ASSUME k + (d + 1) <= Len(s) PROVE Begins(k + (d + 1))
      OBVIOUS
    <2>1. PICK j \in 0..(Len(s) - 1) : j = k + d
      BY <1>0
    <2>2. /\ Begins(j) /\ j \in 0..Len(s) /\ j + 1 \in 1..Len(s)
          /\ j + 1 = k + (d + 1)
      BY <1>0, <1>2, <2>1
    <2>3. Flat(s, j + 1) = Flat(s, j) \o s[j + 1]
      BY FlattenPrefix DEF Flat
    <2>4. /\ Flat(s, k) \in Seq(T) /\ Flat(s, j) \in Seq(T) /\ s[j + 1] \in Seq(T)
          /\ Len(Flat(s, k)) \in Nat /\ Len(Flat(s, j)) \in Nat /\ Len(s[j + 1]) \in Nat
      BY <2>2, FlatType, ElementOfSeq, LenProperties
    <2> HIDE DEF Flat
    <2>5. /\ Len(Flat(s, j + 1)) = Len(Flat(s, j)) + Len(s[j + 1])
          /\ \A i \in 1..Len(Flat(s, j)) : Flat(s, j + 1)[i] = Flat(s, j)[i]
      BY SMTT(30), <2>3, <2>4, ConcatProperties
    <2>6. \A i \in 1..Len(Flat(s, k)) : i \in 1..Len(Flat(s, j))
      BY <2>2, <2>4
    <2>7. Len(Flat(s, k)) <= Len(Flat(s, j + 1))
      BY SMTT(30), <2>2, <2>4, <2>5
    <2>8. \A i \in 1..Len(Flat(s, k)) : Flat(s, j + 1)[i] = Flat(s, k)[i]
      BY <2>2, <2>5, <2>6
    <2> QED BY <2>2, <2>7, <2>8
  <1>3. Nat \subseteq U
    <2> HIDE DEF U
    <2> QED BY <1>1, <1>2, SetInduction
  <1>4. ASSUME NEW j \in k..Len(s) PROVE Begins(j)
    <2>1. j - k \in Nat /\ k + (j - k) = j /\ j <= Len(s)
      BY <1>0
    <2> QED BY <1>3, <2>1
  <1> HIDE DEF Flat
  <1> QED BY <1>4

\* Where one of the sequences is found in what they are flattened to.
LEMMA FlatPiece ==
    ASSUME NEW T, NEW s \in Seq(Seq(T)), NEW k \in 0..(Len(s) - 1)
    PROVE  /\ s[k + 1] \in Seq(T) /\ Len(s[k + 1]) \in Nat
           /\ Len(Flat(s, k + 1)) = Len(Flat(s, k)) + Len(s[k + 1])
           /\ Len(Flat(s, k + 1)) <= Len(FlattenSeq(s))
           /\ \A i \in 1..Len(s[k + 1]) : FlattenSeq(s)[Len(Flat(s, k)) + i] = s[k + 1][i]
  <1>1. /\ Len(s) \in Nat /\ k \in 0..Len(s) /\ k + 1 \in 0..Len(s) /\ k + 1 \in 1..Len(s)
        /\ Len(s) \in (k + 1)..Len(s)
    BY LenProperties
  <1>2. Flat(s, Len(s)) = FlattenSeq(s)
    BY SubSeqFull DEF Flat
  <1>3. Flat(s, k + 1) = Flat(s, k) \o s[k + 1]
    BY FlattenPrefix DEF Flat
  <1>4. /\ Flat(s, k) \in Seq(T) /\ s[k + 1] \in Seq(T)
        /\ Len(Flat(s, k)) \in Nat /\ Len(s[k + 1]) \in Nat
    BY <1>1, FlatType, ElementOfSeq, LenProperties
  <1> HIDE DEF Flat
  <1>5. /\ Len(Flat(s, k + 1)) <= Len(FlattenSeq(s))
        /\ \A i \in 1..Len(Flat(s, k + 1)) : FlattenSeq(s)[i] = Flat(s, k + 1)[i]
    BY <1>1, <1>2, FlatGrows
  <1>6. /\ Len(Flat(s, k + 1)) = Len(Flat(s, k)) + Len(s[k + 1])
        /\ \A i \in 1..(Len(Flat(s, k)) + Len(s[k + 1])) :
              Flat(s, k + 1)[i] = IF i <= Len(Flat(s, k)) THEN Flat(s, k)[i]
                                  ELSE s[k + 1][i - Len(Flat(s, k))]
    BY SMTT(30), <1>3, <1>4, ConcatProperties
  <1>7. ASSUME NEW i \in 1..Len(s[k + 1])
        PROVE  FlattenSeq(s)[Len(Flat(s, k)) + i] = s[k + 1][i]
    <2> DEFINE j == Len(Flat(s, k)) + i
    <2>1. /\ j \in 1..(Len(Flat(s, k)) + Len(s[k + 1]))
          /\ ~(j <= Len(Flat(s, k))) /\ j - Len(Flat(s, k)) = i
      BY <1>4
    <2>2. j \in 1..Len(Flat(s, k + 1))
      BY <1>6, <2>1
    <2> HIDE DEF j
    <2>3. FlattenSeq(s)[j] = s[k + 1][i]
      BY <1>5, <1>6, <2>1, <2>2
    <2> QED BY <2>3 DEF j
  <1> QED BY <1>4, <1>5, <1>6, <1>7

(***************************************************************************)
(* The elements of a sequence.                                             *)
(***************************************************************************)
LEMMA SetOfNone == <<>> \in Seq({}) /\ ToSet(<<>>) = {}
  BY DEF ToSet

LEMMA SetOfOne == ASSUME NEW x PROVE <<x>> \in Seq({x}) /\ ToSet(<<x>>) = {x}
  <1>1. <<x>> \in Seq({x}) /\ Len(<<x>>) = 1 /\ <<x>>[1] = x
    OBVIOUS
  <1>2. DOMAIN <<x>> = 1..1
    OBVIOUS
  <1> QED BY <1>1, <1>2 DEF ToSet

LEMMA SetOfSeq ==
    ASSUME NEW T, NEW s \in Seq(T)
    PROVE  ToSet(s) \subseteq T /\ DOMAIN s = 1..Len(s) /\ Len(s) \in Nat
  <1>1. DOMAIN s = 1..Len(s) /\ Len(s) \in Nat
    BY LenProperties
  <1> QED BY <1>1, ElementOfSeq DEF ToSet

LEMMA SetOfConcat ==
    ASSUME NEW T, NEW s \in Seq(T), NEW t \in Seq(T)
    PROVE  s \o t \in Seq(T) /\ ToSet(s \o t) = ToSet(s) \cup ToSet(t)
  <1>1. /\ s \o t \in Seq(T) /\ Len(s \o t) = Len(s) + Len(t)
        /\ \A i \in 1..(Len(s) + Len(t)) :
              (s \o t)[i] = IF i <= Len(s) THEN s[i] ELSE t[i - Len(s)]
    BY ConcatProperties
  <1>2. /\ Len(s) \in Nat /\ Len(t) \in Nat /\ DOMAIN s = 1..Len(s) /\ DOMAIN t = 1..Len(t)
        /\ DOMAIN (s \o t) = 1..Len(s \o t)
    BY <1>1, SetOfSeq
  <1> DEFINE u == s \o t
  <1>3. /\ u \in Seq(T) /\ DOMAIN u = 1..(Len(s) + Len(t))
        /\ \A i \in 1..(Len(s) + Len(t)) : u[i] = IF i <= Len(s) THEN s[i] ELSE t[i - Len(s)]
    BY <1>1, <1>2
  <1> HIDE DEF u
  <1>4. ASSUME NEW i \in 1..(Len(s) + Len(t)) PROVE u[i] \in ToSet(s) \cup ToSet(t)
    <2>1. CASE i <= Len(s)
      <3>1. i \in 1..Len(s)
        BY <1>2, <2>1
      <3> QED BY <1>2, <1>3, <2>1, <3>1 DEF ToSet
    <2>2. CASE ~(i <= Len(s))
      <3>1. i - Len(s) \in 1..Len(t)
        BY <1>2, <2>2
      <3> QED BY <1>2, <1>3, <2>2, <3>1 DEF ToSet
    <2> QED BY <2>1, <2>2
  <1>5. ASSUME NEW i \in 1..Len(s) PROVE s[i] \in ToSet(u)
    <2>1. i \in 1..(Len(s) + Len(t)) /\ i <= Len(s)
      BY <1>2
    <2>2. s[i] = u[i]
      BY <1>3, <2>1
    <2> QED BY <1>3, <2>1, <2>2 DEF ToSet
  <1>6. ASSUME NEW i \in 1..Len(t) PROVE t[i] \in ToSet(u)
    <2> DEFINE j == Len(s) + i
    <2>1. j \in 1..(Len(s) + Len(t)) /\ ~(j <= Len(s)) /\ j - Len(s) = i
      BY <1>2
    <2> HIDE DEF j
    <2>2. t[i] = u[j]
      BY <1>3, <2>1
    <2> QED BY <1>3, <2>1, <2>2 DEF ToSet
  <1>7. ToSet(u) = ToSet(s) \cup ToSet(t)
    BY <1>2, <1>3, <1>4, <1>5, <1>6 DEF ToSet
  <1> QED BY <1>1, <1>7 DEF u

\* Flattening neither loses nor adds an element.
LEMMA SetOfFlat ==
    ASSUME NEW T, NEW s \in Seq(Seq(T))
    PROVE  /\ FlattenSeq(s) \in Seq(T)
           /\ ToSet(FlattenSeq(s)) = UNION {ToSet(s[i]) : i \in 1..Len(s)}
  <1> DEFINE Same(k) == ToSet(Flat(s, k)) = UNION {ToSet(s[i]) : i \in 1..k}
             U == {k \in Nat : k <= Len(s) => Same(k)}
  <1>0. Len(s) \in Nat
    BY LenProperties
  <1>1. 0 \in U
    <2>1. SubSeq(s, 1, 0) = <<>>
      BY SubSeqEmpty
    <2>2. Flat(s, 0) = <<>>
      BY <2>1, FlattenEmpty DEF Flat
    <2> QED BY <2>2, SetOfNone
  <1>2. ASSUME NEW k \in Nat, k \in U
        PROVE  k + 1 \in U
    <2> SUFFICES ASSUME k + 1 <= Len(s) PROVE Same(k + 1)
      OBVIOUS
    <2>1. k \in 0..(Len(s) - 1) /\ k \in 0..Len(s) /\ k + 1 \in 1..Len(s) /\ Same(k)
      BY <1>0, <1>2
    <2>2. Flat(s, k + 1) = Flat(s, k) \o s[k + 1]
      BY <2>1, FlattenPrefix DEF Flat
    <2>3. Flat(s, k) \in Seq(T) /\ s[k + 1] \in Seq(T)
      BY <2>1, FlatType, ElementOfSeq
    <2>4. ToSet(Flat(s, k + 1)) = ToSet(Flat(s, k)) \cup ToSet(s[k + 1])
      BY ZenonT(30), <2>2, <2>3, SetOfConcat
    <2>5. 1..(k + 1) = 1..k \cup {k + 1}
      OBVIOUS
    <2> QED BY <2>1, <2>4, <2>5
  <1>3. Nat \subseteq U
    <2> HIDE DEF U
    <2> QED BY <1>1, <1>2, SetInduction
  <1>4. Flat(s, Len(s)) = FlattenSeq(s) /\ Flat(s, Len(s)) \in Seq(T)
    <2>1. Len(s) \in 0..Len(s)
      BY <1>0
    <2>2. Flat(s, Len(s)) \in Seq(T)
      BY <2>1, FlatType
    <2> QED BY <2>2, SubSeqFull DEF Flat
  <1> QED BY <1>0, <1>3, <1>4

(***************************************************************************)
(* Parts of a sequence, and the least of some numbers.                     *)
(***************************************************************************)
LEMMA Suffix ==
    ASSUME NEW S, NEW s \in Seq(S), NEW n \in 0..Len(s)
    PROVE  /\ SubSeq(s, n + 1, Len(s)) \in Seq(S)
           /\ Len(SubSeq(s, n + 1, Len(s))) = Len(s) - n
           /\ \A i \in 1..(Len(s) - n) : SubSeq(s, n + 1, Len(s))[i] = s[n + i]
  <1>1. Len(s) \in Nat /\ n \in Nat /\ n <= Len(s)
    BY LenProperties
  <1>2. \A i \in (n + 1)..Len(s) : s[i] \in S
    BY <1>1, ElementOfSeq
  <1>3. /\ SubSeq(s, n + 1, Len(s)) \in Seq(S)
        /\ Len(SubSeq(s, n + 1, Len(s))) = IF n + 1 <= Len(s) THEN Len(s) - (n + 1) + 1 ELSE 0
        /\ \A i \in 1..(Len(s) - (n + 1) + 1) : SubSeq(s, n + 1, Len(s))[i] = s[n + 1 + i - 1]
    BY <1>1, <1>2, SubSeqProperties
  <1>4. /\ Len(s) - (n + 1) + 1 = Len(s) - n
        /\ (IF n + 1 <= Len(s) THEN Len(s) - n ELSE 0) = Len(s) - n
        /\ \A i \in 1..(Len(s) - n) : n + 1 + i - 1 = n + i
    BY <1>1
  <1> QED BY <1>3, <1>4

LEMMA Least ==
    ASSUME NEW S, S \subseteq Nat, S # {}
    PROVE  \E x \in S : \A y \in S : x <= y
  <1>1. PICK x \in S : \A y \in S : <<y, x>> \notin LessThan
    BY NatIsWellFounded, WFMin
  <1>2. ASSUME NEW y \in S PROVE x <= y
    <2>1. y \in Nat /\ x \in Nat /\ <<y, x>> \notin LessThan
      BY <1>1
    <2>2. ~(y < x)
      BY <2>1 DEF LessThan
    <2> QED BY <2>1, <2>2
  <1> QED BY <1>2

LEMMA Greatest ==
    ASSUME NEW S, NEW b \in Nat, S \subseteq 0..b, S # {}
    PROVE  \E x \in S : \A y \in S : y <= x
  <1> DEFINE D == {b - y : y \in S}
  <1>1. D \subseteq Nat /\ D # {}
    <2>1. \A y \in S : b - y \in Nat
      OBVIOUS
    <2> QED BY <2>1
  <1>2. PICK d \in D : \A e \in D : d <= e
    <2> HIDE DEF D
    <2> QED BY <1>1, Least
  <1>3. PICK x \in S : d = b - x
    OBVIOUS
  <1>4. ASSUME NEW y \in S PROVE y <= x
    <2>1. b - x <= b - y
      BY <1>2, <1>3
    <2>2. x \in Nat /\ y \in Nat
      OBVIOUS
    <2> QED BY <2>1, <2>2
  <1> QED BY <1>4

(***************************************************************************)
(* Queues: every element and any later one are a pair of X.                *)
(***************************************************************************)
Chain(q, X) == \A i, j \in 1..Len(q) : i < j => <<q[i], q[j]>> \in X

LEMMA Dequeued ==
    ASSUME NEW T, NEW q \in Seq(T), q # <<>>
    PROVE  /\ Head(q) \in T /\ Tail(q) \in Seq(T) /\ ToSet(q) = {Head(q)} \cup ToSet(Tail(q))
           /\ Len(q) \in Nat \ {0} /\ Len(Tail(q)) = Len(q) - 1 /\ Head(q) = q[1]
           /\ \A i \in 1..(Len(q) - 1) : Tail(q)[i] = q[i + 1]
  <1>1. /\ Head(q) \in T /\ Tail(q) \in Seq(T) /\ Len(Tail(q)) = Len(q) - 1 /\ Head(q) = q[1]
        /\ \A i \in 1..Len(Tail(q)) : Tail(q)[i] = q[i + 1]
    BY HeadTailProperties
  <1>2. Len(q) \in Nat \ {0} /\ DOMAIN q = 1..Len(q)
    BY EmptySeq, LenProperties
  <1>3. DOMAIN Tail(q) = 1..(Len(q) - 1)
    BY <1>1, SetOfSeq
  <1> DEFINE t == Tail(q)
  <1>4. \A i \in 1..(Len(q) - 1) : t[i] = q[i + 1]
    BY <1>1
  <1>5. ToSet(q) \subseteq {q[1]} \cup ToSet(t)
    <2> SUFFICES ASSUME NEW i \in 1..Len(q) PROVE q[i] \in {q[1]} \cup ToSet(t)
      BY <1>2 DEF ToSet
    <2>1. i # 1 => i - 1 \in 1..(Len(q) - 1) /\ (i - 1) + 1 = i
      BY <1>2
    <2>2. i # 1 => q[i] = t[i - 1]
      BY <1>4, <2>1
    <2> HIDE DEF t
    <2> QED BY <1>3, <2>1, <2>2 DEF ToSet, t
  <1>6. ToSet(t) \subseteq ToSet(q)
    <2> SUFFICES ASSUME NEW i \in 1..(Len(q) - 1) PROVE t[i] \in ToSet(q)
      BY <1>3 DEF ToSet
    <2>1. i + 1 \in 1..Len(q) /\ t[i] = q[i + 1]
      BY <1>2, <1>4
    <2> QED BY <1>2, <2>1 DEF ToSet
  <1>7. q[1] \in ToSet(q)
    BY <1>2 DEF ToSet
  <1> QED BY <1>1, <1>2, <1>5, <1>6, <1>7

LEMMA ChainTail ==
    ASSUME NEW T, NEW q \in Seq(T), q # <<>>, NEW X, Chain(q, X)
    PROVE  Chain(Tail(q), X) /\ \A y \in ToSet(Tail(q)) : <<Head(q), y>> \in X
  <1>1. PICK t \in Seq(T), n \in Nat \ {0} :
           /\ t = Tail(q) /\ n = Len(q) /\ Len(t) = n - 1 /\ Head(q) = q[1]
           /\ \A i \in 1..(n - 1) : t[i] = q[i + 1]
    BY ZenonT(30), Dequeued
  <1>2. ASSUME NEW i \in 1..Len(t), NEW j \in 1..Len(t), i < j PROVE <<t[i], t[j]>> \in X
    <2>1. i + 1 \in 1..n /\ j + 1 \in 1..n /\ i + 1 < j + 1
      BY <1>1, <1>2
    <2>2. t[i] = q[i + 1] /\ t[j] = q[j + 1]
      BY <1>1
    <2>3. <<q[i + 1], q[j + 1]>> \in X
      BY <1>1, <2>1 DEF Chain
    <2> QED BY <2>2, <2>3
  <1>3. ASSUME NEW y \in ToSet(t) PROVE <<q[1], y>> \in X
    <2>1. PICK i \in 1..Len(t) : y = t[i]
      BY SetOfSeq DEF ToSet
    <2>2. i + 1 \in 1..n /\ 1 \in 1..n /\ 1 < i + 1 /\ y = q[i + 1]
      BY <1>1, <2>1
    <2> QED BY <1>1, <2>2 DEF Chain
  <1> QED BY <1>1, <1>2, <1>3 DEF Chain

LEMMA ChainConcat ==
    ASSUME NEW T, NEW s \in Seq(T), NEW t \in Seq(T), NEW X, Chain(s, X), Chain(t, X),
           \A x \in ToSet(s), y \in ToSet(t) : <<x, y>> \in X
    PROVE  Chain(s \o t, X)
  <1>0. PICK u : u = s \o t
    OBVIOUS
  <1>1. PICK m \in Nat, n \in Nat :
           /\ m = Len(s) /\ n = Len(t) /\ Len(u) = m + n
           /\ \A i \in 1..(m + n) : u[i] = IF i <= m THEN s[i] ELSE t[i - m]
    <2>1. /\ Len(s \o t) = Len(s) + Len(t)
          /\ \A i \in 1..(Len(s) + Len(t)) :
                (s \o t)[i] = IF i <= Len(s) THEN s[i] ELSE t[i - Len(s)]
      BY ConcatProperties
    <2>2. Len(s) \in Nat /\ Len(t) \in Nat
      BY LenProperties
    <2> QED BY <1>0, <2>1, <2>2
  <1>2. ASSUME NEW i \in 1..(m + n), NEW j \in 1..(m + n), i < j PROVE <<u[i], u[j]>> \in X
    <2>1. CASE j <= m
      <3>1. i \in 1..m /\ j \in 1..m /\ i <= m
        BY <1>2, <2>1
      <3> QED BY <1>1, <1>2, <2>1, <3>1 DEF Chain
    <2>2. CASE i <= m /\ ~(j <= m)
      <3>1. i \in 1..m /\ j - m \in 1..n
        BY <2>2
      <3>2. s[i] \in ToSet(s) /\ t[j - m] \in ToSet(t)
        <4>1. DOMAIN s = 1..m /\ DOMAIN t = 1..n
          BY <1>1, SetOfSeq
        <4> QED BY <3>1, <4>1 DEF ToSet
      <3>3. u[i] = s[i] /\ u[j] = t[j - m]
        BY <1>1, <2>2
      <3> QED BY <3>2, <3>3
    <2>3. CASE ~(i <= m)
      <3>1. i - m \in 1..n /\ j - m \in 1..n /\ i - m < j - m /\ ~(j <= m)
        BY <1>2, <2>3
      <3>2. u[i] = t[i - m] /\ u[j] = t[j - m]
        BY <1>1, <2>3, <3>1
      <3>3. <<t[i - m], t[j - m]>> \in X
        BY <1>1, <3>1 DEF Chain
      <3> QED BY <3>2, <3>3
    <2> QED BY <2>1, <2>2, <2>3
  <1> QED BY <1>0, <1>1, <1>2 DEF Chain

LEMMA ChainOne == ASSUME NEW x, NEW X PROVE Chain(<<x>>, X)
  <1>1. Len(<<x>>) = 1
    OBVIOUS
  <1> QED BY <1>1 DEF Chain

=============================================================================
