-------------------------- MODULE CollectionLemmas --------------------------
(***************************************************************************)
(* What the operators of Collections return, for every sequence and every  *)
(* finite set.  The induction principles of the library take the predicate *)
(* as a parameter; here they are stated for sets, which any leaf can cite: *)
(* the induction is over the least element of the set of counterexamples.  *)
(***************************************************************************)
EXTENDS Collections, SequencesExt, FiniteSetTheorems, WellFoundedInduction,
        SequenceTheorems, TLAPS

\* Every non-empty set of naturals has a least element.
LEMMA LeastElement ==
    ASSUME NEW T, T \subseteq Nat, T # {}
    PROVE  \E m \in T : \A n \in T : m <= n
<1> DEFINE R == OpToRel(<, Nat)
<1>1. \A x, y \in Nat : <<x, y>> \in R <=> x < y
  BY DEF OpToRel
<1>2. IsWellFoundedOn(R, Nat)
  BY NatLessThanWellFounded
<1> HIDE DEF R
<1>3. PICK m \in T : \A n \in T : ~(<<n, m>> \in R)
  BY <1>2, WFMin
<1>4. \A n \in T : m \in Nat /\ n \in Nat
  BY <1>3
<1>5. \A n \in T : ~(n < m)
  BY <1>1, <1>3, <1>4
<1> QED BY <1>4, <1>5

\* A set that holds 0 and with n also n + 1 holds every natural.
LEMMA NatSetInduction ==
    ASSUME NEW P, 0 \in P, \A n \in Nat : n \in P => n + 1 \in P
    PROVE  Nat \subseteq P
<1> DEFINE T == Nat \ P
<1> SUFFICES ASSUME T # {} PROVE FALSE
  OBVIOUS
<1>1. PICK m \in T : \A n \in T : m <= n
  BY LeastElement
<1>2. m \in Nat /\ m # 0
  BY <1>1
<1>3. m - 1 \in Nat /\ m - 1 \notin T
  BY <1>1, <1>2
<1> QED BY <1>1, <1>2, <1>3

-----------------------------------------------------------------------------
(* Only *)

\* f[i] is what Only has selected from the first i elements.
Selects(f, s, S, n) ==
    f = [i \in 0 .. n |-> IF i = 0 THEN <<>>
                          ELSE IF s[i] \in S THEN Append(f[i - 1], s[i])
                          ELSE f[i - 1]]

\* The recursive function of Only exists.
LEMMA SelectionExists ==
    ASSUME NEW s, NEW S, NEW n \in Nat
    PROVE  \E f : Selects(f, s, S, n)
<1> DEFINE P == {m \in Nat : \E f : Selects(f, s, S, m)}
<1>1. 0 \in P
  <2> DEFINE f == [i \in 0 .. 0 |-> <<>>]
  <2>1. Selects(f, s, S, 0)
    BY DEF Selects
  <2> QED BY <2>1
<1>2. ASSUME NEW m \in Nat, m \in P PROVE m + 1 \in P
  <2>1. PICK f : Selects(f, s, S, m)
    BY <1>2
  <2> DEFINE last == IF s[m + 1] \in S THEN Append(f[m], s[m + 1]) ELSE f[m]
             g == [i \in 0 .. m + 1 |-> IF i <= m THEN f[i] ELSE last]
  <2>2. \A i \in 0 .. m : f[i] = IF i = 0 THEN <<>>
                                 ELSE IF s[i] \in S THEN Append(f[i - 1], s[i])
                                 ELSE f[i - 1]
    BY <2>1 DEF Selects
  <2>3. \A i \in 0 .. m + 1 : i # 0 => g[i - 1] = f[i - 1]
    OBVIOUS
  <2>4. g[m + 1] = last
    OBVIOUS
  <2>5. ASSUME NEW i \in 0 .. m + 1
        PROVE  g[i] = IF i = 0 THEN <<>>
                      ELSE IF s[i] \in S THEN Append(g[i - 1], s[i]) ELSE g[i - 1]
    <3>1. CASE i <= m
      <4>1. i \in 0 .. m /\ g[i] = f[i]
        BY <3>1
      <4> QED BY <4>1, <2>2, <2>3
    <3>2. CASE i = m + 1
      <4>1. i # 0 /\ i - 1 = m /\ g[i - 1] = f[m] /\ g[i] = last
        BY <3>2, <2>3, <2>4
      <4> HIDE DEF g
      <4> QED BY <4>1, <3>2
    <3> QED BY <3>1, <3>2
  <2>6. Selects(g, s, S, m + 1)
    <3> HIDE DEF last
    <3>1. g = [i \in 0 .. m + 1 |-> g[i]]
      OBVIOUS
    <3> HIDE DEF g
    <3> QED BY <3>1, <2>5 DEF Selects
  <2> QED BY <2>6
<1> HIDE DEF P
<1>3. Nat \subseteq P
  BY <1>1, <1>2, NatSetInduction
<1> QED BY <1>3 DEF P

\* Only is the last of the selections from the prefixes of s.
LEMMA OnlySteps ==
    ASSUME NEW A, NEW s \in Seq(A), NEW S
    PROVE  \E f : /\ Only(s, S) = f[Len(s)]
                  /\ f[0] = <<>>
                  /\ \A i \in 1 .. Len(s) :
                        f[i] = IF s[i] \in S THEN Append(f[i - 1], s[i])
                               ELSE f[i - 1]
<1> DEFINE f == CHOOSE f : Selects(f, s, S, Len(s))
<1>1. Only(s, S) = f[Len(s)]
  BY DEF Only, Selects
<1>2. Len(s) \in Nat
  OBVIOUS
<1>3. Selects(f, s, S, Len(s))
  BY <1>2, SelectionExists
<1> HIDE DEF f
<1>4. \A i \in 0 .. Len(s) : f[i] = IF i = 0 THEN <<>>
                                    ELSE IF s[i] \in S THEN Append(f[i - 1], s[i])
                                    ELSE f[i - 1]
  BY <1>3 DEF Selects
<1>5. f[0] = <<>>
  BY <1>2, <1>4
<1>6. ASSUME NEW i \in 1 .. Len(s)
      PROVE  f[i] = IF s[i] \in S THEN Append(f[i - 1], s[i]) ELSE f[i - 1]
  <2>1. i \in 0 .. Len(s) /\ i # 0
    BY <1>2
  <2> QED BY <2>1, <1>4
<1> QED BY <1>1, <1>5, <1>6

\* t is what is selected from the first i elements of s, in their order:
\* position k of t comes from position h[k] of s.
SelectedBy(h, t, s, S, i) ==
    /\ h \in [1 .. Len(t) -> 1 .. i]
    /\ \A k \in 1 .. Len(t) : t[k] = s[h[k]] /\ t[k] \in S
    /\ \A j, k \in 1 .. Len(t) : j < k => h[j] < h[k]
    /\ \A j \in 1 .. i : s[j] \in S => \E k \in 1 .. Len(t) : h[k] = j

\* One more element that is not selected.
LEMMA SelectedSkip ==
    ASSUME NEW A, NEW s \in Seq(A), NEW S, NEW i \in Nat, NEW t \in Seq(A), NEW h,
           SelectedBy(h, t, s, S, i), s[i + 1] \notin S
    PROVE  SelectedBy(h, t, s, S, i + 1)
<1>1. h \in [1 .. Len(t) -> 1 .. i + 1]
  BY DEF SelectedBy
<1>2. \A j \in 1 .. i + 1 : s[j] \in S => j \in 1 .. i
  OBVIOUS
<1> QED BY <1>1, <1>2 DEF SelectedBy

\* One more element that is selected.
LEMMA SelectedAppend ==
    ASSUME NEW A, NEW s \in Seq(A), NEW S, NEW i \in Nat, NEW t \in Seq(A), NEW h,
           SelectedBy(h, t, s, S, i), s[i + 1] \in S, s[i + 1] \in A
    PROVE  \E g : SelectedBy(g, Append(t, s[i + 1]), s, S, i + 1)
<1> DEFINE u == Append(t, s[i + 1])
           g == [k \in 1 .. Len(t) + 1 |-> IF k <= Len(t) THEN h[k] ELSE i + 1]
<1>1. /\ u \in Seq(A)
      /\ Len(u) = Len(t) + 1
      /\ u[Len(t) + 1] = s[i + 1]
      /\ \A k \in 1 .. Len(t) : u[k] = t[k]
      /\ Len(t) \in Nat
  OBVIOUS
<1> HIDE DEF u
<1>2. /\ \A k \in 1 .. Len(t) : g[k] = h[k]
      /\ g[Len(t) + 1] = i + 1
      /\ g = [k \in 1 .. Len(u) |-> g[k]]
  BY <1>1
<1> HIDE DEF g
<1>3. \A k \in 1 .. Len(u) : k \in 1 .. Len(t) \/ k = Len(t) + 1
  BY <1>1
<1>4. /\ \A k \in 1 .. Len(t) : h[k] \in 1 .. i
      /\ \A k \in 1 .. Len(t) : t[k] = s[h[k]] /\ t[k] \in S
      /\ \A j, k \in 1 .. Len(t) : j < k => h[j] < h[k]
      /\ \A j \in 1 .. i : s[j] \in S => \E k \in 1 .. Len(t) : h[k] = j
  BY DEF SelectedBy
<1>5. \A k \in 1 .. Len(u) : g[k] \in 1 .. i + 1
  <2> SUFFICES ASSUME NEW k \in 1 .. Len(u) PROVE g[k] \in 1 .. i + 1
    OBVIOUS
  <2>1. CASE k \in 1 .. Len(t)
    <3>1. g[k] = h[k] /\ h[k] \in 1 .. i
      BY <2>1, <1>2, <1>4
    <3> QED BY <3>1
  <2>2. CASE k = Len(t) + 1
    BY <2>2, <1>2
  <2> QED BY <2>1, <2>2, <1>3
<1>6. \A k \in 1 .. Len(u) : u[k] = s[g[k]] /\ u[k] \in S
  <2> SUFFICES ASSUME NEW k \in 1 .. Len(u) PROVE u[k] = s[g[k]] /\ u[k] \in S
    OBVIOUS
  <2>1. CASE k \in 1 .. Len(t)
    BY <2>1, <1>1, <1>2, <1>4
  <2>2. CASE k = Len(t) + 1
    BY <2>2, <1>1, <1>2
  <2> QED BY <2>1, <2>2, <1>3
<1>7. ASSUME NEW j \in 1 .. Len(u), NEW k \in 1 .. Len(u), j < k
      PROVE  g[j] < g[k]
  <2>1. j \in 1 .. Len(t) /\ j \in Nat /\ k \in Nat
    BY <1>7, <1>1
  <2>2. g[j] = h[j] /\ h[j] \in 1 .. i
    BY <2>1, <1>2, <1>4
  <2>3. CASE k \in 1 .. Len(t)
    BY <1>7, <2>1, <2>3, <1>2, <1>4
  <2>4. CASE k = Len(t) + 1
    BY <2>2, <2>4, <1>2
  <2> QED BY <2>3, <2>4, <1>3
<1>8. ASSUME NEW j \in 1 .. i + 1, s[j] \in S
      PROVE  \E k \in 1 .. Len(u) : g[k] = j
  <2>1. CASE j \in 1 .. i
    <3>1. PICK k \in 1 .. Len(t) : h[k] = j
      BY <1>8, <2>1, <1>4
    <3>2. g[k] = j
      BY <3>1, <1>2
    <3>3. k \in 1 .. Len(u)
      BY <1>1
    <3> QED BY <3>2, <3>3
  <2>2. CASE j = i + 1
    <3>1. Len(t) + 1 \in 1 .. Len(u)
      BY <1>1
    <3> QED BY <3>1, <2>2, <1>2
  <2> QED BY <2>1, <2>2
<1>9. g \in [1 .. Len(u) -> 1 .. i + 1]
  BY <1>2, <1>5
<1>10. SelectedBy(g, u, s, S, i + 1)
  BY <1>6, <1>7, <1>8, <1>9 DEF SelectedBy
<1> QED BY <1>10 DEF u

\* Only keeps the elements that are in S, and keeps them in order.
LEMMA OnlyOrdered ==
    ASSUME NEW A, NEW s \in Seq(A), NEW S
    PROVE  /\ Only(s, S) \in Seq(A)
           /\ \E h : SelectedBy(h, Only(s, S), s, S, Len(s))
<1>1. PICK f : /\ Only(s, S) = f[Len(s)]
               /\ f[0] = <<>>
               /\ \A i \in 1 .. Len(s) :
                     f[i] = IF s[i] \in S THEN Append(f[i - 1], s[i]) ELSE f[i - 1]
  BY OnlySteps
<1>2. Len(s) \in Nat
  OBVIOUS
<1> DEFINE Good(i) == f[i] \in Seq(A) /\ \E h : SelectedBy(h, f[i], s, S, i)
           P == {i \in Nat : i <= Len(s) => Good(i)}
<1>3. 0 \in P
  <2> DEFINE h == [k \in 1 .. 0 |-> 1]
  <2>1. <<>> \in Seq(A) /\ SelectedBy(h, <<>>, s, S, 0)
    BY DEF SelectedBy
  <2> QED BY <2>1, <1>1
<1>4. ASSUME NEW i \in Nat, i \in P PROVE i + 1 \in P
  <2>1. ASSUME i + 1 <= Len(s) PROVE Good(i + 1)
    <3>1. f[i] \in Seq(A)
      BY <1>2, <1>4, <2>1
    <3>2. PICK h : SelectedBy(h, f[i], s, S, i)
      BY <1>2, <1>4, <2>1
    <3>3. i + 1 \in 1 .. Len(s) /\ (i + 1) - 1 = i /\ s[i + 1] \in A
      BY <1>2, <2>1
    <3>4. CASE s[i + 1] \notin S
      <4>1. f[i + 1] = f[i]
        BY <1>1, <3>3, <3>4
      <4> QED BY <4>1, <3>1, <3>2, <3>4, SelectedSkip
    <3>5. CASE s[i + 1] \in S
      <4>1. f[i + 1] = Append(f[i], s[i + 1])
        BY <1>1, <3>3, <3>5
      <4>2. \E g : SelectedBy(g, f[i + 1], s, S, i + 1)
        BY <4>1, <3>1, <3>2, <3>3, <3>5, SelectedAppend
      <4>3. f[i + 1] \in Seq(A)
        BY <4>1, <3>1, <3>3
      <4> QED BY <4>2, <4>3
    <3> QED BY <3>4, <3>5
  <2> HIDE DEF Good
  <2> QED BY <2>1
<1> HIDE DEF P
<1>5. Nat \subseteq P
  BY <1>3, <1>4, NatSetInduction
<1>6. Good(Len(s))
  BY <1>2, <1>5 DEF P
<1> QED BY <1>1, <1>6

\* Only selects a set of elements, and never an element twice that s has once.
LEMMA OnlyProps ==
    ASSUME NEW A, NEW s \in Seq(A), NEW S
    PROVE  /\ Only(s, S) \in Seq(A)
           /\ ToSet(Only(s, S)) = ToSet(s) \cap S
           /\ IsInjective(s) => IsInjective(Only(s, S))
<1> DEFINE t == Only(s, S)
<1>1. PICK h : /\ t \in Seq(A)
               /\ h \in [1 .. Len(t) -> 1 .. Len(s)]
               /\ \A k \in 1 .. Len(t) : t[k] = s[h[k]] /\ t[k] \in S
               /\ \A j, k \in 1 .. Len(t) : j < k => h[j] < h[k]
               /\ \A j \in 1 .. Len(s) :
                     s[j] \in S => \E k \in 1 .. Len(t) : h[k] = j
  BY OnlyOrdered DEF SelectedBy
<1> HIDE DEF t
<1>2. DOMAIN s = 1 .. Len(s) /\ DOMAIN t = 1 .. Len(t)
  BY <1>1
<1>3. ToSet(t) = ToSet(s) \cap S
  <2>1. ASSUME NEW x \in ToSet(t) PROVE x \in ToSet(s) \cap S
    BY <1>1, <1>2 DEF ToSet
  <2>2. ASSUME NEW x \in ToSet(s) \cap S PROVE x \in ToSet(t)
    <3>1. PICK j \in 1 .. Len(s) : s[j] = x
      BY <1>2 DEF ToSet
    <3>2. PICK k \in 1 .. Len(t) : h[k] = j
      BY <3>1, <1>1
    <3> QED BY <3>1, <3>2, <1>1, <1>2 DEF ToSet
  <2> QED BY <2>1, <2>2
<1>4. ASSUME IsInjective(s) PROVE IsInjective(t)
  <2> SUFFICES ASSUME NEW a \in 1 .. Len(t), NEW b \in 1 .. Len(t), t[a] = t[b]
               PROVE  a = b
    BY <1>2 DEF IsInjective
  <2>1. h[a] = h[b]
    BY <1>1, <1>2, <1>4 DEF IsInjective
  <2>2. a \in Nat /\ b \in Nat /\ h[a] \in Nat /\ h[b] \in Nat
    BY <1>1
  <2>3. ~(a < b) /\ ~(b < a)
    BY <2>1, <2>2, <1>1
  <2> QED BY <2>2, <2>3
<1> QED BY <1>1, <1>3, <1>4 DEF t
-----------------------------------------------------------------------------
(* Sequences as the sets of their elements *)

\* The empty sequence has no elements.
LEMMA EmptyElements ==
    /\ ToSet(<<>>) = {}
    /\ IsInjective(<<>>)
    /\ \A A : <<>> \in Seq(A)
BY DEF ToSet, IsInjective

\* One element more at the end.
LEMMA AppendElements ==
    ASSUME NEW A, NEW s \in Seq(A), NEW x \in A
    PROVE  /\ Append(s, x) \in Seq(A)
           /\ Len(Append(s, x)) = Len(s) + 1
           /\ ToSet(Append(s, x)) = ToSet(s) \cup {x}
           /\ IsInjective(s) /\ x \notin ToSet(s) => IsInjective(Append(s, x))
<1> DEFINE t == Append(s, x)
<1>1. /\ t \in Seq(A)
      /\ Len(t) = Len(s) + 1
      /\ t[Len(s) + 1] = x
      /\ \A i \in 1 .. Len(s) : t[i] = s[i]
      /\ Len(s) \in Nat
  OBVIOUS
<1> HIDE DEF t
<1>2. DOMAIN s = 1 .. Len(s) /\ DOMAIN t = 1 .. Len(s) + 1
  BY <1>1
<1>3. \A i \in 1 .. Len(s) + 1 : i \in 1 .. Len(s) \/ i = Len(s) + 1
  BY <1>1
<1>4. 1 .. Len(s) \subseteq 1 .. Len(s) + 1 /\ Len(s) + 1 \in 1 .. Len(s) + 1
  BY <1>1
<1>5. ToSet(t) = ToSet(s) \cup {x}
  <2>1. ASSUME NEW y \in ToSet(t) PROVE y \in ToSet(s) \cup {x}
    BY <1>1, <1>2, <1>3 DEF ToSet
  <2>2. ASSUME NEW y \in ToSet(s) PROVE y \in ToSet(t)
    BY <1>1, <1>2, <1>4 DEF ToSet
  <2>3. x \in ToSet(t)
    BY <1>1, <1>2, <1>4 DEF ToSet
  <2> QED BY <2>1, <2>2, <2>3
<1>6. ASSUME IsInjective(s), x \notin ToSet(s) PROVE IsInjective(t)
  <2> SUFFICES ASSUME NEW a \in 1 .. Len(s) + 1, NEW b \in 1 .. Len(s) + 1,
                      t[a] = t[b]
               PROVE  a = b
    BY <1>2 DEF IsInjective
  <2>1. CASE a \in 1 .. Len(s) /\ b \in 1 .. Len(s)
    BY <2>1, <1>1, <1>2, <1>6 DEF IsInjective
  <2>2. CASE a = Len(s) + 1 /\ b = Len(s) + 1
    BY <2>2
  <2>3. \A i \in 1 .. Len(s) : t[i] # x
    BY <1>1, <1>2, <1>6 DEF ToSet
  <2> QED BY <2>1, <2>2, <2>3, <1>1, <1>3
<1> QED BY <1>1, <1>5, <1>6 DEF t

\* Two sequences, one after the other.
LEMMA ConcatElements ==
    ASSUME NEW A, NEW s \in Seq(A), NEW t \in Seq(A)
    PROVE  /\ s \o t \in Seq(A)
           /\ ToSet(s \o t) = ToSet(s) \cup ToSet(t)
           /\ IsInjective(s \o t) <=>
                 /\ IsInjective(s) /\ IsInjective(t)
                 /\ ToSet(s) \cap ToSet(t) = {}
<1> DEFINE u == s \o t
<1>1. /\ u \in Seq(A)
      /\ Len(u) = Len(s) + Len(t)
      /\ \A i \in 1 .. Len(s) + Len(t) :
            u[i] = IF i <= Len(s) THEN s[i] ELSE t[i - Len(s)]
  BY ConcatProperties
<1>2. Len(s) \in Nat /\ Len(t) \in Nat
  OBVIOUS
<1> HIDE DEF u
<1>3. /\ DOMAIN s = 1 .. Len(s) /\ DOMAIN t = 1 .. Len(t)
      /\ DOMAIN u = 1 .. Len(s) + Len(t)
  BY <1>1
<1>4. \A i \in 1 .. Len(s) : i \in DOMAIN u /\ u[i] = s[i]
  BY <1>1, <1>2, <1>3
<1>5. \A i \in 1 .. Len(t) : i + Len(s) \in DOMAIN u /\ u[i + Len(s)] = t[i]
  <2> SUFFICES ASSUME NEW i \in 1 .. Len(t)
               PROVE  i + Len(s) \in DOMAIN u /\ u[i + Len(s)] = t[i]
    OBVIOUS
  <2>1. /\ i + Len(s) \in 1 .. Len(s) + Len(t)
        /\ ~(i + Len(s) <= Len(s))
        /\ (i + Len(s)) - Len(s) = i
    BY <1>2
  <2> QED BY <2>1, <1>1, <1>3
<1>6. \A i \in DOMAIN u : \/ i \in 1 .. Len(s)
                          \/ \E j \in 1 .. Len(t) : i = j + Len(s)
  <2> SUFFICES ASSUME NEW i \in DOMAIN u, i \notin 1 .. Len(s)
               PROVE  \E j \in 1 .. Len(t) : i = j + Len(s)
    OBVIOUS
  <2>1. i - Len(s) \in 1 .. Len(t) /\ i = (i - Len(s)) + Len(s)
    BY <1>2, <1>3
  <2> QED BY <2>1
<1>7. ToSet(u) = ToSet(s) \cup ToSet(t)
  <2>1. ASSUME NEW x \in ToSet(u) PROVE x \in ToSet(s) \cup ToSet(t)
    <3>1. PICK i \in DOMAIN u : u[i] = x
      BY DEF ToSet
    <3>2. CASE i \in 1 .. Len(s)
      BY <3>1, <3>2, <1>3, <1>4 DEF ToSet
    <3>3. CASE i \notin 1 .. Len(s)
      <4>1. PICK j \in 1 .. Len(t) : i = j + Len(s)
        BY <3>3, <1>6
      <4>2. t[j] = x
        BY <4>1, <3>1, <1>5
      <4> QED BY <4>2, <1>3 DEF ToSet
    <3> QED BY <3>2, <3>3
  <2>2. ASSUME NEW x \in ToSet(s) PROVE x \in ToSet(u)
    BY <1>3, <1>4 DEF ToSet
  <2>3. ASSUME NEW x \in ToSet(t) PROVE x \in ToSet(u)
    <3>1. PICK j \in 1 .. Len(t) : t[j] = x
      BY <1>3 DEF ToSet
    <3>2. j + Len(s) \in DOMAIN u /\ u[j + Len(s)] = x
      BY <3>1, <1>5
    <3> QED BY <3>2 DEF ToSet
  <2> QED BY <2>1, <2>2, <2>3
<1>8. ASSUME IsInjective(u)
      PROVE  IsInjective(s) /\ IsInjective(t) /\ ToSet(s) \cap ToSet(t) = {}
  <2>1. IsInjective(s)
    BY <1>8, <1>3, <1>4 DEF IsInjective
  <2>2. IsInjective(t)
    <3> SUFFICES ASSUME NEW a \in 1 .. Len(t), NEW b \in 1 .. Len(t), t[a] = t[b]
                 PROVE  a = b
      BY <1>3 DEF IsInjective
    <3>1. a + Len(s) = b + Len(s)
      BY <1>5, <1>8 DEF IsInjective
    <3> QED BY <3>1, <1>2
  <2>3. ToSet(s) \cap ToSet(t) = {}
    <3> SUFFICES ASSUME NEW x \in ToSet(s), x \in ToSet(t) PROVE FALSE
      OBVIOUS
    <3>1. PICK a \in 1 .. Len(s) : s[a] = x
      BY <1>3 DEF ToSet
    <3>2. PICK b \in 1 .. Len(t) : t[b] = x
      BY <1>3 DEF ToSet
    <3>3. a = b + Len(s)
      BY <3>1, <3>2, <1>4, <1>5, <1>8 DEF IsInjective
    <3> QED BY <3>3, <1>2
  <2> QED BY <2>1, <2>2, <2>3
<1>9. ASSUME IsInjective(s), IsInjective(t), ToSet(s) \cap ToSet(t) = {}
      PROVE  IsInjective(u)
  <2> SUFFICES ASSUME NEW a \in DOMAIN u, NEW b \in DOMAIN u, u[a] = u[b]
               PROVE  a = b
    BY DEF IsInjective
  <2>1. CASE a \in 1 .. Len(s) /\ b \in 1 .. Len(s)
    BY <2>1, <1>3, <1>4, <1>9 DEF IsInjective
  <2>2. ASSUME NEW i \in 1 .. Len(s), NEW j \in 1 .. Len(t) PROVE s[i] # t[j]
    BY <1>3, <1>9 DEF ToSet
  <2>3. CASE a \notin 1 .. Len(s) /\ b \notin 1 .. Len(s)
    <3>1. PICK i \in 1 .. Len(t) : a = i + Len(s)
      BY <2>3, <1>6
    <3>2. PICK j \in 1 .. Len(t) : b = j + Len(s)
      BY <2>3, <1>6
    <3>3. t[i] = t[j]
      BY <3>1, <3>2, <1>5
    <3> QED BY <3>1, <3>2, <3>3, <1>3, <1>9 DEF IsInjective
  <2>4. CASE a \in 1 .. Len(s) /\ b \notin 1 .. Len(s)
    <3>1. PICK j \in 1 .. Len(t) : b = j + Len(s)
      BY <2>4, <1>6
    <3> QED BY <3>1, <2>2, <2>4, <1>4, <1>5
  <2>5. CASE a \notin 1 .. Len(s) /\ b \in 1 .. Len(s)
    <3>1. PICK i \in 1 .. Len(t) : a = i + Len(s)
      BY <2>5, <1>6
    <3> QED BY <3>1, <2>2, <2>5, <1>4, <1>5
  <2> QED BY <2>1, <2>3, <2>4, <2>5
<1> QED BY <1>1, <1>7, <1>8, <1>9 DEF u

-----------------------------------------------------------------------------
(* Sums over finite sets *)

\* What holds of the empty set, and with T of T and one more element, holds of
\* every finite set.
LEMMA FiniteSetInduction ==
    ASSUME NEW S, IsFiniteSet(S), NEW P, {} \in P,
           \A T \in SUBSET S : \A x \in S \ T : T \in P => T \cup {x} \in P
    PROVE  S \in P
<1> DEFINE Q == {m \in Nat : \A T \in SUBSET S : Cardinality(T) = m => T \in P}
<1>1. \A T \in SUBSET S : IsFiniteSet(T) /\ Cardinality(T) \in Nat
  BY FS_Subset, FS_CardinalityType
<1>2. 0 \in Q
  BY <1>1, FS_EmptySet
<1>3. ASSUME NEW m \in Nat, m \in Q PROVE m + 1 \in Q
  <2> SUFFICES ASSUME NEW T \in SUBSET S, Cardinality(T) = m + 1 PROVE T \in P
    OBVIOUS
  <2>1. T # {} /\ IsFiniteSet(T)
    BY <1>1, FS_EmptySet
  <2>2. PICK x \in T : TRUE
    BY <2>1
  <2>3. Cardinality(T \ {x}) = m
    <3>1. Cardinality(T \ {x}) = Cardinality(T) - 1
      BY <2>1, <2>2, FS_RemoveElement
    <3> QED BY <3>1
  <2>4. T \ {x} \in P
    BY <1>3, <2>3
  <2>5. (T \ {x}) \cup {x} \in P
    BY <2>4
  <2>6. (T \ {x}) \cup {x} = T
    OBVIOUS
  <2> QED BY <2>5, <2>6
<1>4. Nat \subseteq Q
  BY <1>2, <1>3, NatSetInduction
<1> QED BY <1>1, <1>4

Some(S) == CHOOSE x \in S : TRUE

\* g is the function that MapThenSumSet computes on the sets in D.
Sums(g, f, D) ==
    g = [s \in D |-> IF s = {} THEN 0 ELSE f[Some(s)] + g[s \ {Some(s)}]]

\* The recursive function of MapThenSumSet exists.
LEMMA SumsExist ==
    ASSUME NEW f, NEW S, IsFiniteSet(S)
    PROVE  \E g : Sums(g, f, SUBSET S)
<1> DEFINE Small(m) == {s \in SUBSET S : Cardinality(s) <= m}
           P == {m \in Nat : \E g : Sums(g, f, Small(m))}
<1>1. \A T \in SUBSET S : IsFiniteSet(T) /\ Cardinality(T) \in Nat
  BY FS_Subset, FS_CardinalityType
<1>2. 0 \in P
  <2> DEFINE g == [s \in Small(0) |-> 0]
  <2>1. \A s \in Small(0) : s = {}
    BY <1>1, FS_EmptySet
  <2>2. Sums(g, f, Small(0))
    BY <2>1 DEF Sums
  <2> QED BY <2>2
<1>3. ASSUME NEW m \in Nat, m \in P PROVE m + 1 \in P
  <2>1. PICK g : Sums(g, f, Small(m))
    BY <1>3
  <2> DEFINE h == [s \in Small(m + 1) |->
                     IF s = {} THEN 0 ELSE f[Some(s)] + g[s \ {Some(s)}]]
  <2>2. \A s \in Small(m) : h[s] = g[s]
    <3>1. \A s \in Small(m) : s \in Small(m + 1)
      BY <1>1
    <3>2. \A s \in Small(m) : g[s] = IF s = {} THEN 0 ELSE f[Some(s)] + g[s \ {Some(s)}]
      BY <2>1 DEF Sums
    <3> HIDE DEF Small
    <3> QED BY <3>1, <3>2
  <2>3. \A s \in Small(m + 1) : s # {} => s \ {Some(s)} \in Small(m)
    <3> SUFFICES ASSUME NEW s \in Small(m + 1), s # {}
                 PROVE  Cardinality(s \ {Some(s)}) <= m
      OBVIOUS
    <3>1. Some(s) \in s
      BY DEF Some
    <3>2. Cardinality(s \ {Some(s)}) = Cardinality(s) - 1
      BY <1>1, <3>1, FS_RemoveElement
    <3> QED BY <1>1, <3>2
  <2>4. Sums(h, f, Small(m + 1))
    <3> HIDE DEF Small
    <3> QED BY <2>2, <2>3 DEF Sums
  <2> HIDE DEF h, Small
  <2> QED BY <2>4
<1>4. Cardinality(S) \in P
  <2> HIDE DEF P
  <2> QED BY <1>1, <1>2, <1>3, NatSetInduction
<1>5. SUBSET S = Small(Cardinality(S))
  BY FS_Subset
<1> QED BY <1>4, <1>5

\* ... and is determined by f.
LEMMA SumsAgree ==
    ASSUME NEW f, NEW S, IsFiniteSet(S), NEW T \in SUBSET S,
           NEW g, Sums(g, f, SUBSET S), NEW h, Sums(h, f, SUBSET T)
    PROVE  g[T] = h[T]
<1> DEFINE P == {m \in Nat : \A s \in SUBSET T : Cardinality(s) = m => g[s] = h[s]}
<1>1. \A s \in SUBSET T : IsFiniteSet(s) /\ Cardinality(s) \in Nat
  BY FS_Subset, FS_CardinalityType
<1>2. \A s \in SUBSET T :
          /\ g[s] = IF s = {} THEN 0 ELSE f[Some(s)] + g[s \ {Some(s)}]
          /\ h[s] = IF s = {} THEN 0 ELSE f[Some(s)] + h[s \ {Some(s)}]
  BY DEF Sums
<1>3. 0 \in P
  BY <1>1, <1>2, FS_EmptySet
<1>4. ASSUME NEW m \in Nat, m \in P PROVE m + 1 \in P
  <2> SUFFICES ASSUME NEW s \in SUBSET T, Cardinality(s) = m + 1 PROVE g[s] = h[s]
    OBVIOUS
  <2>1. s # {} /\ IsFiniteSet(s)
    BY <1>1, FS_EmptySet
  <2>2. Some(s) \in s
    BY <2>1 DEF Some
  <2>3. Cardinality(s \ {Some(s)}) = m
    <3>1. Cardinality(s \ {Some(s)}) = Cardinality(s) - 1
      BY <2>1, <2>2, FS_RemoveElement
    <3> QED BY <3>1
  <2>4. g[s \ {Some(s)}] = h[s \ {Some(s)}]
    BY <1>4, <2>3
  <2> QED BY <1>2, <2>1, <2>4
<1>5. Cardinality(T) \in P
  <2> HIDE DEF P
  <2> QED BY <1>1, <1>3, <1>4, NatSetInduction
<1> QED BY <1>5

\* SumOf is given by any such function.
LEMMA SumIs ==
    ASSUME NEW f, NEW S, IsFiniteSet(S), NEW T \in SUBSET S,
           NEW g, Sums(g, f, SUBSET S)
    PROVE  SumOf(f, T) = g[T]
<1> DEFINE h == CHOOSE h : Sums(h, f, SUBSET T)
<1>1. SumOf(f, T) = h[T]
  BY DEF SumOf, MapThenSumSet, MapThenFoldSet, Sums, Some
<1>2. IsFiniteSet(T)
  BY FS_Subset
<1>3. Sums(h, f, SUBSET T)
  BY <1>2, SumsExist
<1> QED BY <1>1, <1>3, SumsAgree

\* A sum takes its elements one by one.
LEMMA SumUnfold ==
    ASSUME NEW f, NEW S, IsFiniteSet(S)
    PROVE  /\ SumOf(f, {}) = 0
           /\ S # {} => SumOf(f, S) = f[Some(S)] + SumOf(f, S \ {Some(S)})
<1>1. PICK g : Sums(g, f, SUBSET S)
  BY SumsExist
<1>2. \A T \in SUBSET S : SumOf(f, T) = g[T]
  BY <1>1, SumIs
<1>3. \A T \in SUBSET S : g[T] = IF T = {} THEN 0 ELSE f[Some(T)] + g[T \ {Some(T)}]
  BY <1>1 DEF Sums
<1> QED BY <1>2, <1>3

\* The sum of naturals is a natural.
LEMMA SumNat ==
    ASSUME NEW f, NEW S, IsFiniteSet(S), \A x \in S : f[x] \in Nat
    PROVE  SumOf(f, S) \in Nat
<1> DEFINE P == {m \in Nat : \A T \in SUBSET S : Cardinality(T) = m => SumOf(f, T) \in Nat}
<1>1. \A T \in SUBSET S : IsFiniteSet(T) /\ Cardinality(T) \in Nat
  BY FS_Subset, FS_CardinalityType
<1>2. 0 \in P
  BY <1>1, FS_EmptySet, SumUnfold
<1>3. ASSUME NEW m \in Nat, m \in P PROVE m + 1 \in P
  <2> SUFFICES ASSUME NEW T \in SUBSET S, Cardinality(T) = m + 1 PROVE SumOf(f, T) \in Nat
    OBVIOUS
  <2>1. T # {} /\ IsFiniteSet(T)
    BY <1>1, FS_EmptySet
  <2>2. Some(T) \in T
    BY <2>1 DEF Some
  <2>3. Cardinality(T \ {Some(T)}) = m
    <3>1. Cardinality(T \ {Some(T)}) = Cardinality(T) - 1
      BY <2>1, <2>2, FS_RemoveElement
    <3> QED BY <3>1
  <2>4. SumOf(f, T \ {Some(T)}) \in Nat
    BY <1>3, <2>3
  <2>5. SumOf(f, T) = f[Some(T)] + SumOf(f, T \ {Some(T)})
    BY <1>1, <2>1, SumUnfold
  <2> QED BY <2>2, <2>4, <2>5
<1>4. Cardinality(S) \in P
  <2> HIDE DEF P
  <2> QED BY <1>1, <1>2, <1>3, NatSetInduction
<1> QED BY <1>4

\* The order of the elements does not matter: any of them can be taken out.
LEMMA SumRemove ==
    ASSUME NEW f, NEW S, IsFiniteSet(S), \A y \in S : f[y] \in Nat, NEW x \in S
    PROVE  SumOf(f, S) = f[x] + SumOf(f, S \ {x})
<1> DEFINE P == {m \in Nat : \A T \in SUBSET S : Cardinality(T) = m =>
                     \A y \in T : SumOf(f, T) = f[y] + SumOf(f, T \ {y})}
<1>1. \A T \in SUBSET S : IsFiniteSet(T) /\ Cardinality(T) \in Nat /\ SumOf(f, T) \in Nat
  BY FS_Subset, FS_CardinalityType, SumNat
<1>2. 0 \in P
  BY <1>1, FS_EmptySet
<1>3. ASSUME NEW m \in Nat, m \in P PROVE m + 1 \in P
  <2> SUFFICES ASSUME NEW T \in SUBSET S, Cardinality(T) = m + 1, NEW y \in T
               PROVE  SumOf(f, T) = f[y] + SumOf(f, T \ {y})
    OBVIOUS
  <2> DEFINE z == Some(T)
  <2>1. z \in T
    BY DEF Some
  <2>2. SumOf(f, T) = f[z] + SumOf(f, T \ {z})
    BY <1>1, SumUnfold
  <2> HIDE DEF z
  <2>3. CASE y = z
    BY <2>2, <2>3
  <2>4. CASE y # z
    <3>1. Cardinality(T \ {z}) = m /\ Cardinality(T \ {y}) = m
      BY <1>1, <2>1, FS_RemoveElement
    <3>2. SumOf(f, T \ {z}) = f[y] + SumOf(f, (T \ {z}) \ {y})
      BY <1>3, <3>1, <2>4
    <3>3. SumOf(f, T \ {y}) = f[z] + SumOf(f, (T \ {y}) \ {z})
      BY <1>3, <3>1, <2>1, <2>4
    <3>4. (T \ {z}) \ {y} = (T \ {y}) \ {z}
      OBVIOUS
    <3>5. SumOf(f, (T \ {y}) \ {z}) \in Nat /\ f[y] \in Nat /\ f[z] \in Nat
      BY <1>1, <2>1
    <3> QED BY <2>2, <3>2, <3>3, <3>4, <3>5
  <2> QED BY <2>3, <2>4
<1>4. Cardinality(S) \in P
  <2> HIDE DEF P
  <2> QED BY <1>1, <1>2, <1>3, NatSetInduction
<1> QED BY <1>4

\* One element more.
LEMMA SumAdd ==
    ASSUME NEW f, NEW S, IsFiniteSet(S), NEW x, x \notin S,
           \A y \in S \cup {x} : f[y] \in Nat
    PROVE  SumOf(f, S \cup {x}) = f[x] + SumOf(f, S)
<1>1. IsFiniteSet(S \cup {x})
  BY FS_AddElement
<1>2. SumOf(f, S \cup {x}) = f[x] + SumOf(f, (S \cup {x}) \ {x})
  BY <1>1, SumRemove
<1>3. (S \cup {x}) \ {x} = S
  OBVIOUS
<1> QED BY <1>2, <1>3

\* Functions that agree on S have the same sum over it.
LEMMA SumSame ==
    ASSUME NEW f, NEW g, NEW S, IsFiniteSet(S),
           \A x \in S : f[x] \in Nat /\ g[x] = f[x]
    PROVE  SumOf(g, S) = SumOf(f, S)
<1> DEFINE P == {T \in SUBSET S : SumOf(g, T) = SumOf(f, T)}
<1>1. {} \in P
  BY SumUnfold
<1>2. ASSUME NEW T \in SUBSET S, NEW x \in S \ T, T \in P PROVE T \cup {x} \in P
  <2>1. IsFiniteSet(T)
    BY FS_Subset
  <2>2. /\ SumOf(g, T \cup {x}) = g[x] + SumOf(g, T)
        /\ SumOf(f, T \cup {x}) = f[x] + SumOf(f, T)
    BY <2>1, SumAdd
  <2> QED BY <1>2, <2>2
<1> HIDE DEF P
<1>3. S \in P
  BY <1>1, <1>2, FiniteSetInduction
<1> QED BY <1>3 DEF P

\* The sum over a subset is not larger, and no element is larger than the sum.
LEMMA SumSubset ==
    ASSUME NEW f, NEW S, IsFiniteSet(S), \A x \in S : f[x] \in Nat,
           NEW T \in SUBSET S
    PROVE  SumOf(f, T) <= SumOf(f, S)
<1> DEFINE P == {U \in SUBSET S : SumOf(f, T \cap U) <= SumOf(f, U)}
<1>1. {} \in P
  <2>1. T \cap {} = {} /\ SumOf(f, {}) = 0
    BY SumUnfold
  <2> QED BY <2>1
<1>2. ASSUME NEW U \in SUBSET S, NEW x \in S \ U, U \in P PROVE U \cup {x} \in P
  <2>1. IsFiniteSet(U) /\ IsFiniteSet(T \cap U)
    BY FS_Subset
  <2>2. SumOf(f, U) \in Nat /\ SumOf(f, T \cap U) \in Nat /\ f[x] \in Nat
    BY <2>1, SumNat
  <2>3. SumOf(f, U \cup {x}) = f[x] + SumOf(f, U)
    BY <2>1, SumAdd
  <2>4. CASE x \in T
    <3>1. T \cap (U \cup {x}) = (T \cap U) \cup {x}
      BY <2>4
    <3>2. SumOf(f, (T \cap U) \cup {x}) = f[x] + SumOf(f, T \cap U)
      BY <2>1, SumAdd
    <3> QED BY <1>2, <2>2, <2>3, <3>1, <3>2
  <2>5. CASE x \notin T
    <3>1. T \cap (U \cup {x}) = T \cap U
      BY <2>5
    <3>2. SumOf(f, T \cap (U \cup {x})) = SumOf(f, T \cap U)
      BY <3>1, Zenon
    <3>3. SumOf(f, T \cap U) <= SumOf(f, U)
      BY <1>2
    <3>4. SumOf(f, T \cap U) <= SumOf(f, U \cup {x})
      BY <2>2, <2>3, <3>3
    <3> QED BY <3>2, <3>4
  <2> QED BY <2>4, <2>5
<1> HIDE DEF P
<1>3. S \in P
  BY <1>1, <1>2, FiniteSetInduction
<1>4. T \cap S = T
  OBVIOUS
<1> QED BY <1>3, <1>4 DEF P

\* A smaller function has a smaller sum.
LEMMA SumMonotone ==
    ASSUME NEW f, NEW g, NEW S, IsFiniteSet(S),
           \A x \in S : f[x] \in Nat /\ g[x] \in Nat /\ f[x] <= g[x]
    PROVE  SumOf(f, S) <= SumOf(g, S)
<1> DEFINE P == {T \in SUBSET S : SumOf(f, T) <= SumOf(g, T)}
<1>1. {} \in P
  <2>1. SumOf(f, {}) = 0 /\ SumOf(g, {}) = 0
    BY SumUnfold
  <2> QED BY <2>1
<1>2. ASSUME NEW T \in SUBSET S, NEW x \in S \ T, T \in P PROVE T \cup {x} \in P
  <2>1. IsFiniteSet(T)
    BY FS_Subset
  <2>2. /\ SumOf(g, T \cup {x}) = g[x] + SumOf(g, T)
        /\ SumOf(f, T \cup {x}) = f[x] + SumOf(f, T)
    BY <2>1, SumAdd
  <2>3. SumOf(f, T) \in Nat /\ SumOf(g, T) \in Nat
    BY <2>1, SumNat
  <2> QED BY <1>2, <2>2, <2>3
<1> HIDE DEF P
<1>3. S \in P
  BY <1>1, <1>2, FiniteSetInduction
<1> QED BY <1>3 DEF P

\* Where f is zero outside T, nothing is missing from the sum over T.
LEMMA SumZero ==
    ASSUME NEW f, NEW S, IsFiniteSet(S), \A x \in S : f[x] \in Nat,
           NEW T \in SUBSET S, \A x \in S \ T : f[x] = 0
    PROVE  SumOf(f, S) = SumOf(f, T)
<1> DEFINE P == {U \in SUBSET S : SumOf(f, U) = SumOf(f, T \cap U)}
<1>1. {} \in P
  <2>1. T \cap {} = {}
    OBVIOUS
  <2> QED BY <2>1
<1>2. ASSUME NEW U \in SUBSET S, NEW x \in S \ U, U \in P PROVE U \cup {x} \in P
  <2>1. IsFiniteSet(U) /\ IsFiniteSet(T \cap U)
    BY FS_Subset
  <2>2. SumOf(f, U) \in Nat /\ f[x] \in Nat
    BY <2>1, SumNat
  <2>3. SumOf(f, U \cup {x}) = f[x] + SumOf(f, U)
    BY <2>1, SumAdd
  <2>4. CASE x \in T
    <3>1. T \cap (U \cup {x}) = (T \cap U) \cup {x}
      BY <2>4
    <3>2. SumOf(f, (T \cap U) \cup {x}) = f[x] + SumOf(f, T \cap U)
      BY <2>1, SumAdd
    <3> QED BY <1>2, <2>3, <3>1, <3>2
  <2>5. CASE x \notin T
    <3>1. T \cap (U \cup {x}) = T \cap U
      BY <2>5
    <3>2. f[x] = 0
      BY <2>5
    <3>3. SumOf(f, U \cup {x}) = SumOf(f, U)
      BY <2>2, <2>3, <3>2
    <3>4. SumOf(f, T \cap (U \cup {x})) = SumOf(f, T \cap U)
      BY <3>1, Zenon
    <3> QED BY <1>2, <3>3, <3>4
  <2> QED BY <2>4, <2>5
<1> HIDE DEF P
<1>3. S \in P
  BY <1>1, <1>2, FiniteSetInduction
<1>4. T \cap S = T
  OBVIOUS
<1> QED BY <1>3, <1>4 DEF P

\* f and g differ at most at x.
LEMMA SumChange ==
    ASSUME NEW f, NEW g, NEW S, IsFiniteSet(S), NEW x \in S,
           \A y \in S : f[y] \in Nat /\ g[y] \in Nat,
           \A y \in S \ {x} : g[y] = f[y]
    PROVE  SumOf(g, S) + f[x] = SumOf(f, S) + g[x]
<1>1. IsFiniteSet(S \ {x})
  BY FS_Subset
<1>2. /\ SumOf(f, S) = f[x] + SumOf(f, S \ {x})
      /\ SumOf(g, S) = g[x] + SumOf(g, S \ {x})
  BY SumRemove
<1>3. SumOf(g, S \ {x}) = SumOf(f, S \ {x})
  BY <1>1, SumSame
<1>4. SumOf(f, S \ {x}) \in Nat
  BY <1>1, SumNat
<1> QED BY <1>2, <1>3, <1>4

\* The sum of a function that has one value on T and is 0 elsewhere.
LEMMA SumEven ==
    ASSUME NEW f, NEW S, IsFiniteSet(S), NEW T \in SUBSET S, NEW c \in Nat,
           \A x \in S : f[x] = IF x \in T THEN c ELSE 0
    PROVE  SumOf(f, S) = c * Cardinality(T)
<1>1. IsFiniteSet(T)
  BY FS_Subset
<1>2. SumOf(f, S) = SumOf(f, T)
  <2>1. \A x \in S : f[x] \in Nat
    OBVIOUS
  <2>2. \A x \in S \ T : f[x] = 0
    OBVIOUS
  <2> QED BY <2>1, <2>2, SumZero
<1> DEFINE P == {U \in SUBSET T : SumOf(f, U) = c * Cardinality(U)}
<1>3. {} \in P
  <2>1. SumOf(f, {}) = 0 /\ Cardinality({}) = 0
    BY <1>1, SumUnfold, FS_EmptySet
  <2> QED BY <2>1
<1>4. ASSUME NEW U \in SUBSET T, NEW x \in T \ U, U \in P PROVE U \cup {x} \in P
  <2>1. IsFiniteSet(U) /\ x \notin U /\ \A y \in U \cup {x} : f[y] \in Nat
    BY <1>1, FS_Subset
  <2>2. SumOf(f, U \cup {x}) = f[x] + SumOf(f, U)
    BY <2>1, SumAdd
  <2>3. Cardinality(U \cup {x}) = Cardinality(U) + 1 /\ Cardinality(U) \in Nat
    BY <2>1, FS_AddElement, FS_CardinalityType
  <2>4. f[x] = c /\ SumOf(f, U) = c * Cardinality(U)
    BY <1>4
  <2>5. \A n \in Nat : c * (n + 1) = c + c * n
    OBVIOUS
  <2>6. SumOf(f, U \cup {x}) = c * Cardinality(U \cup {x})
    BY ONLY <2>2, <2>3, <2>4, <2>5
  <2> QED BY <2>6
<1> HIDE DEF P
<1>5. T \in P
  BY <1>1, <1>3, <1>4, FiniteSetInduction
<1> QED BY <1>2, <1>5 DEF P

-----------------------------------------------------------------------------
(* Sequences of sequences *)

\* f[i] is the concatenation of the first i elements.
Flattens(f, s, n) ==
    f = [i \in 1 .. n |-> IF i = 1 THEN s[i] ELSE f[i - 1] \o s[i]]

\* The recursive function of FlattenSeq exists.
LEMMA FlatteningExists ==
    ASSUME NEW s, NEW n \in Nat
    PROVE  \E f : Flattens(f, s, n)
<1> DEFINE P == {m \in Nat : \E f : Flattens(f, s, m)}
<1>1. 0 \in P
  <2> DEFINE f == [i \in 1 .. 0 |-> <<>>]
  <2>1. Flattens(f, s, 0)
    BY DEF Flattens
  <2> QED BY <2>1
<1>2. ASSUME NEW m \in Nat, m \in P PROVE m + 1 \in P
  <2>1. PICK f : Flattens(f, s, m)
    BY <1>2
  <2> DEFINE last == IF m + 1 = 1 THEN s[m + 1] ELSE f[m] \o s[m + 1]
             g == [i \in 1 .. m + 1 |-> IF i <= m THEN f[i] ELSE last]
  <2>2. \A i \in 1 .. m : f[i] = IF i = 1 THEN s[i] ELSE f[i - 1] \o s[i]
    BY <2>1 DEF Flattens
  <2>3. \A i \in 1 .. m + 1 : i # 1 => g[i - 1] = f[i - 1]
    OBVIOUS
  <2>4. g[m + 1] = last
    OBVIOUS
  <2>5. ASSUME NEW i \in 1 .. m + 1
        PROVE  g[i] = IF i = 1 THEN s[i] ELSE g[i - 1] \o s[i]
    <3>1. CASE i <= m
      <4>1. i \in 1 .. m /\ g[i] = f[i]
        BY <3>1
      <4> QED BY <4>1, <2>2, <2>3
    <3>2. CASE i = m + 1
      <4>1. i - 1 = m /\ g[i] = last /\ (i # 1 => g[i - 1] = f[m])
        BY <3>2, <2>3, <2>4
      <4> HIDE DEF g
      <4> QED BY <4>1, <3>2
    <3> QED BY <3>1, <3>2
  <2>6. Flattens(g, s, m + 1)
    <3> HIDE DEF last
    <3>1. g = [i \in 1 .. m + 1 |-> g[i]]
      OBVIOUS
    <3> HIDE DEF g
    <3> QED BY <3>1, <2>5 DEF Flattens
  <2> QED BY <2>6
<1> HIDE DEF P
<1>3. Nat \subseteq P
  BY <1>1, <1>2, NatSetInduction
<1> QED BY <1>3 DEF P

\* FlattenSeq is the last of the concatenations of the prefixes of s.
LEMMA FlattenSteps ==
    ASSUME NEW A, NEW s \in Seq(Seq(A)), s # <<>>
    PROVE  \E f : /\ FlattenSeq(s) = f[Len(s)]
                  /\ f[1] = s[1]
                  /\ \A i \in 2 .. Len(s) : f[i] = f[i - 1] \o s[i]
<1> DEFINE f == CHOOSE f : Flattens(f, s, Len(s))
<1>1. Len(s) \in Nat /\ Len(s) # 0
  OBVIOUS
<1>2. FlattenSeq(s) = f[Len(s)]
  BY <1>1 DEF FlattenSeq, Flattens
<1>3. Flattens(f, s, Len(s))
  BY <1>1, FlatteningExists
<1> HIDE DEF f
<1>4. \A i \in 1 .. Len(s) : f[i] = IF i = 1 THEN s[i] ELSE f[i - 1] \o s[i]
  BY <1>3 DEF Flattens
<1>5. f[1] = s[1]
  BY <1>1, <1>4
<1>6. ASSUME NEW i \in 2 .. Len(s) PROVE f[i] = f[i - 1] \o s[i]
  <2>1. i \in 1 .. Len(s) /\ i # 1
    BY <1>1
  <2> QED BY <1>4, <2>1
<1> QED BY <1>2, <1>5, <1>6

\* The same function for any prefix.
LEMMA FlattenPrefix ==
    ASSUME NEW A, NEW s \in Seq(Seq(A)), NEW t \in Seq(Seq(A)), s # <<>>,
           Len(s) <= Len(t), \A i \in 1 .. Len(s) : t[i] = s[i],
           NEW f, f[1] = t[1], \A i \in 2 .. Len(t) : f[i] = f[i - 1] \o t[i]
    PROVE  FlattenSeq(s) = f[Len(s)]
<1>1. PICK g : /\ FlattenSeq(s) = g[Len(s)]
               /\ g[1] = s[1]
               /\ \A i \in 2 .. Len(s) : g[i] = g[i - 1] \o s[i]
  BY FlattenSteps
<1>2. Len(s) \in Nat \ {0} /\ Len(t) \in Nat
  OBVIOUS
<1> DEFINE P == {i \in Nat : i + 1 <= Len(s) => g[i + 1] = f[i + 1]}
<1>3. 0 \in P
  BY <1>1, <1>2
<1>4. ASSUME NEW i \in Nat, i \in P PROVE i + 1 \in P
  <2>1. i + 1 \in Nat /\ (i + 1) + 1 = i + 2
    OBVIOUS
  <2> SUFFICES ASSUME i + 2 <= Len(s) PROVE g[i + 2] = f[i + 2]
    BY <2>1
  <2>2. g[i + 1] = f[i + 1]
    BY <1>2, <1>4
  <2>3. i + 2 \in 2 .. Len(s) /\ i + 2 \in 2 .. Len(t) /\ (i + 2) - 1 = i + 1
    BY <1>2
  <2>4. /\ g[i + 2] = g[i + 1] \o s[i + 2]
        /\ f[i + 2] = f[i + 1] \o t[i + 2]
    BY <1>1, <2>3
  <2>5. t[i + 2] = s[i + 2]
    BY <2>3
  <2> QED BY <2>2, <2>4, <2>5
<1> HIDE DEF P
<1>5. Nat \subseteq P
  BY <1>3, <1>4, NatSetInduction
<1>6. Len(s) - 1 \in P /\ (Len(s) - 1) + 1 = Len(s)
  BY <1>2, <1>5
<1>7. g[Len(s)] = f[Len(s)]
  BY <1>2, <1>6 DEF P
<1> QED BY <1>1, <1>7

\* One more sequence at the end.
LEMMA FlattenAppend ==
    ASSUME NEW A, NEW s \in Seq(Seq(A)), NEW x \in Seq(A)
    PROVE  /\ FlattenSeq(<<>>) = <<>>
           /\ s = <<>> => FlattenSeq(Append(s, x)) = x
           /\ s # <<>> => FlattenSeq(Append(s, x)) = FlattenSeq(s) \o x
<1> DEFINE t == Append(s, x)
<1>1. FlattenSeq(<<>>) = <<>>
  BY DEF FlattenSeq
<1>2. /\ t \in Seq(Seq(A)) /\ t # <<>>
      /\ Len(t) = Len(s) + 1 /\ Len(s) \in Nat
      /\ \A i \in 1 .. Len(s) : t[i] = s[i]
      /\ t[Len(s) + 1] = x
  BY AppendProperties
<1> HIDE DEF t
<1>3. PICK f : /\ FlattenSeq(t) = f[Len(t)]
               /\ f[1] = t[1]
               /\ \A i \in 2 .. Len(t) : f[i] = f[i - 1] \o t[i]
  BY <1>2, FlattenSteps
<1>4. CASE s = <<>>
  <2>1. Len(t) = 1 /\ t[1] = x
    BY <1>2, <1>4
  <2> QED BY <1>1, <1>3, <1>4, <2>1 DEF t
<1>5. CASE s # <<>>
  <2>1. FlattenSeq(s) = f[Len(s)]
    <3>1. Len(s) <= Len(t)
      BY <1>2
    <3> QED BY <1>2, <1>3, <1>5, <3>1, FlattenPrefix, ZenonT(30)
  <2>2. Len(s) + 1 \in 2 .. Len(t) /\ (Len(s) + 1) - 1 = Len(s)
    BY <1>2, <1>5
  <2>3. f[Len(s) + 1] = f[Len(s)] \o t[Len(s) + 1]
    BY <1>3, <2>2
  <2> QED BY <1>1, <1>2, <1>3, <1>5, <2>1, <2>3 DEF t
<1> QED BY <1>4, <1>5

\* A sequence of n + 1 elements is one of n elements and one more.
LEMMA SplitLast ==
    ASSUME NEW A, NEW s \in Seq(A), NEW n \in Nat, Len(s) = n + 1
    PROVE  \E t \in Seq(A), x \in A : s = Append(t, x) /\ Len(t) = n
<1>1. s # <<>>
  OBVIOUS
<1>2. PICK t \in Seq(A), x \in A : s = Append(t, x)
  BY <1>1, SequenceEmptyOrAppend
<1>3. Len(t) = n
  BY <1>2
<1> QED BY <1>2, <1>3

\* Flattening yields a sequence ...
LEMMA FlattenType ==
    ASSUME NEW A, NEW s \in Seq(Seq(A))
    PROVE  FlattenSeq(s) \in Seq(A)
<1> DEFINE P == {n \in Nat : \A t \in Seq(Seq(A)) : Len(t) = n => FlattenSeq(t) \in Seq(A)}
<1>1. 0 \in P
  <2> SUFFICES ASSUME NEW t \in Seq(Seq(A)), Len(t) = 0 PROVE FlattenSeq(t) \in Seq(A)
    OBVIOUS
  <2>1. t = <<>>
    OBVIOUS
  <2>2. FlattenSeq(t) = <<>>
    BY <2>1 DEF FlattenSeq
  <2> QED BY <2>2
<1>2. ASSUME NEW n \in Nat, n \in P PROVE n + 1 \in P
  <2> SUFFICES ASSUME NEW t \in Seq(Seq(A)), Len(t) = n + 1 PROVE FlattenSeq(t) \in Seq(A)
    OBVIOUS
  <2>1. PICK u \in Seq(Seq(A)), x \in Seq(A) : t = Append(u, x) /\ Len(u) = n
    BY SplitLast
  <2>2. FlattenSeq(u) \in Seq(A)
    BY <1>2, <2>1
  <2>3. FlattenSeq(t) = IF u = <<>> THEN x ELSE FlattenSeq(u) \o x
    BY <2>1, FlattenAppend
  <2>4. FlattenSeq(u) \o x \in Seq(A)
    BY <2>2, ConcatProperties
  <2> QED BY <2>3, <2>4
<1> HIDE DEF P
<1>3. Nat \subseteq P
  BY <1>1, <1>2, NatSetInduction
<1>4. Len(s) \in Nat
  OBVIOUS
<1> QED BY <1>3, <1>4 DEF P

\* ... and goes through a sequence from left to right.
LEMMA FlattenLast ==
    ASSUME NEW A, NEW s \in Seq(Seq(A)), NEW x \in Seq(A)
    PROVE  FlattenSeq(Append(s, x)) = FlattenSeq(s) \o x
<1>1. CASE s = <<>>
  <2>1. FlattenSeq(s) = <<>> /\ FlattenSeq(Append(s, x)) = x
    BY <1>1, FlattenAppend
  <2> QED BY <2>1, ConcatEmptySeq
<1>2. CASE s # <<>>
  BY <1>2, FlattenAppend
<1> QED BY <1>1, <1>2

\* An element more at the end of the second part.
LEMMA ConcatAppend ==
    ASSUME NEW A, NEW s \in Seq(A), NEW t \in Seq(A), NEW x \in A
    PROVE  s \o Append(t, x) = Append(s \o t, x)
<1>1. <<x>> \in Seq(A) /\ s \o t \in Seq(A)
  BY ConcatProperties
<1>2. Append(t, x) = t \o <<x>> /\ Append(s \o t, x) = (s \o t) \o <<x>>
  BY <1>1, AppendIsConcat
<1>3. (s \o t) \o <<x>> = s \o (t \o <<x>>)
  BY <1>1, ConcatAssociative
<1> QED BY <1>2, <1>3

\* Flattening two parts, the second one longer by one.
LEMMA FlattenConcatLast ==
    ASSUME NEW A, NEW s \in Seq(Seq(A)), NEW t \in Seq(Seq(A)), NEW x \in Seq(A),
           FlattenSeq(s \o t) = FlattenSeq(s) \o FlattenSeq(t)
    PROVE  FlattenSeq(s \o Append(t, x)) = FlattenSeq(s) \o FlattenSeq(Append(t, x))
<1>1. FlattenSeq(s) \in Seq(A) /\ FlattenSeq(t) \in Seq(A) /\ s \o t \in Seq(Seq(A))
  BY FlattenType, ConcatProperties
<1>2. s \o Append(t, x) = Append(s \o t, x)
  BY ConcatAppend
<1>3. FlattenSeq(Append(s \o t, x)) = FlattenSeq(s \o t) \o x
  BY <1>1, FlattenLast
<1>4. FlattenSeq(Append(t, x)) = FlattenSeq(t) \o x
  BY FlattenLast
<1>5. (FlattenSeq(s) \o FlattenSeq(t)) \o x = FlattenSeq(s) \o (FlattenSeq(t) \o x)
  BY <1>1, ConcatAssociative, SMTT(30)
<1> QED BY <1>2, <1>3, <1>4, <1>5

\* Flattening two parts one after the other.
LEMMA FlattenConcat ==
    ASSUME NEW A, NEW s \in Seq(Seq(A)), NEW t \in Seq(Seq(A))
    PROVE  FlattenSeq(s \o t) = FlattenSeq(s) \o FlattenSeq(t)
<1> DEFINE P == {n \in Nat : \A u \in Seq(Seq(A)) : Len(u) = n =>
                     FlattenSeq(s \o u) = FlattenSeq(s) \o FlattenSeq(u)}
<1>1. FlattenSeq(s) \in Seq(A)
  BY FlattenType
<1>2. 0 \in P
  <2> SUFFICES ASSUME NEW u \in Seq(Seq(A)), Len(u) = 0
               PROVE  FlattenSeq(s \o u) = FlattenSeq(s) \o FlattenSeq(u)
    OBVIOUS
  <2>1. u = <<>>
    OBVIOUS
  <2>2. FlattenSeq(u) = <<>>
    BY <2>1 DEF FlattenSeq
  <2>3. s \o u = s /\ FlattenSeq(s) \o <<>> = FlattenSeq(s)
    BY <1>1, <2>1, ConcatEmptySeq
  <2> QED BY <2>2, <2>3
<1>3. ASSUME NEW n \in Nat, n \in P PROVE n + 1 \in P
  <2> SUFFICES ASSUME NEW u \in Seq(Seq(A)), Len(u) = n + 1
               PROVE  FlattenSeq(s \o u) = FlattenSeq(s) \o FlattenSeq(u)
    OBVIOUS
  <2>1. PICK v \in Seq(Seq(A)), x \in Seq(A) : u = Append(v, x) /\ Len(v) = n
    BY SplitLast
  <2>2. FlattenSeq(s \o v) = FlattenSeq(s) \o FlattenSeq(v)
    BY <1>3, <2>1
  <2> QED BY <2>1, <2>2, FlattenConcatLast
<1> HIDE DEF P
<1>4. Nat \subseteq P
  BY <1>2, <1>3, NatSetInduction
<1>5. Len(t) \in Nat
  OBVIOUS
<1> QED BY <1>4, <1>5 DEF P

\* A sequence made of two parts.
LEMMA FlattenParts ==
    ASSUME NEW A, NEW r \in Seq(Seq(A)), NEW s \in Seq(Seq(A)), NEW t \in Seq(Seq(A)),
           Len(r) = Len(s) + Len(t),
           \A i \in 1 .. Len(s) : r[i] = s[i],
           \A j \in 1 .. Len(t) : r[Len(s) + j] = t[j]
    PROVE  FlattenSeq(r) = FlattenSeq(s) \o FlattenSeq(t)
<1> DEFINE u == s \o t
<1>1. /\ u \in Seq(Seq(A)) /\ Len(u) = Len(s) + Len(t)
      /\ \A i \in 1 .. Len(s) + Len(t) : u[i] = IF i <= Len(s) THEN s[i] ELSE t[i - Len(s)]
  BY ConcatProperties
<1>2. Len(s) \in Nat /\ Len(t) \in Nat
  OBVIOUS
<1> HIDE DEF u
<1>3. ASSUME NEW i \in 1 .. Len(r) PROVE r[i] = u[i]
  <2>1. CASE i <= Len(s)
    <3>1. i \in 1 .. Len(s) /\ i \in 1 .. Len(s) + Len(t)
      BY <1>2, <2>1
    <3>2. u[i] = s[i]
      BY <1>1, <2>1, <3>1
    <3> QED BY <3>1, <3>2
  <2>2. CASE i > Len(s)
    <3>1. i - Len(s) \in 1 .. Len(t) /\ Len(s) + (i - Len(s)) = i /\ ~(i <= Len(s))
      BY <1>2, <2>2
    <3>2. r[i] = t[i - Len(s)]
      BY <3>1
    <3>3. u[i] = t[i - Len(s)]
      BY <1>1, <3>1
    <3> QED BY <3>2, <3>3
  <2> QED BY <1>2, <2>1, <2>2
<1>4. r = u
  BY <1>1, <1>3, SeqEqual
<1> QED BY <1>4, FlattenConcat DEF u

\* Concatenation, as a name that the provers do not unfold.
Cat(s, t) == s \o t

\* It yields a sequence ...
LEMMA CatSeq ==
    ASSUME NEW A, NEW a \in Seq(A), NEW b \in Seq(A)
    PROVE  Cat(a, b) \in Seq(A)
BY ConcatProperties DEF Cat

\* ... and associates.
LEMMA CatAssociative ==
    ASSUME NEW A, NEW a \in Seq(A), NEW b \in Seq(A), NEW c \in Seq(A)
    PROVE  Cat(Cat(a, b), c) = Cat(a, Cat(b, c))
BY ConcatAssociative DEF Cat

\* Four sequences, however they are put together.
LEMMA CatFour ==
    ASSUME NEW A, NEW a \in Seq(A), NEW x \in Seq(A), NEW y \in Seq(A), NEW b \in Seq(A)
    PROVE  Cat(Cat(a, Cat(x, y)), b) = Cat(Cat(a, x), Cat(y, b))
<1>1. Cat(a, x) \in Seq(A)
  BY CatSeq
<1>2. Cat(Cat(a, x), y) = Cat(a, Cat(x, y))
  BY CatAssociative
<1>3. Cat(Cat(Cat(a, x), y), b) = Cat(Cat(a, x), Cat(y, b))
  BY <1>1, CatAssociative
<1> QED BY <1>2, <1>3

\* One element is torn in two.
LEMMA FlattenTornAt ==
    ASSUME NEW A, NEW s \in Seq(Seq(A)), NEW t \in Seq(Seq(A)),
           NEW x \in Seq(A), NEW y \in Seq(A)
    PROVE  FlattenSeq(Cat(Append(s, Cat(x, y)), t))
              = Cat(FlattenSeq(Append(s, x)), FlattenSeq(Cat(<<y>>, t)))
<1> DEFINE a == FlattenSeq(s)
           b == FlattenSeq(t)
<1>1. a \in Seq(A) /\ b \in Seq(A) /\ x \o y \in Seq(A)
  BY FlattenType, ConcatProperties
<1>2. /\ Append(s, x \o y) \in Seq(Seq(A))
      /\ <<y>> \in Seq(Seq(A))
  BY <1>1, AppendProperties
<1>3. FlattenSeq(Append(s, x \o y) \o t) = (a \o (x \o y)) \o b
  <2> DEFINE z == x \o y
             v == Append(s, z)
  <2>1. z \in Seq(A) /\ v \in Seq(Seq(A))
    BY <1>1, <1>2
  <2> HIDE DEF z
  <2>2. FlattenSeq(v) = FlattenSeq(s) \o z
    BY <2>1, FlattenLast
  <2> HIDE DEF v
  <2>3. FlattenSeq(v \o t) = FlattenSeq(v) \o FlattenSeq(t)
    BY <2>1, FlattenConcat
  <2> QED BY <2>2, <2>3 DEF v, z
<1>4. FlattenSeq(Append(s, x)) = a \o x
  BY FlattenLast
<1>5. FlattenSeq(<<y>>) = y
  <2>1. <<>> \in Seq(Seq(A)) /\ Append(<<>>, y) = <<y>>
    OBVIOUS
  <2>2. FlattenSeq(Append(<<>>, y)) = y
    BY <2>1, FlattenAppend
  <2> QED BY <2>1, <2>2
<1>6. FlattenSeq(<<y>> \o t) = y \o b
  BY <1>2, <1>5, FlattenConcat
<1> HIDE DEF a, b
<1>7. Cat(Cat(a, Cat(x, y)), b) = Cat(Cat(a, x), Cat(y, b))
  BY <1>1, CatFour
<1> QED BY <1>3, <1>4, <1>6, <1>7 DEF Cat

\* Append, for sequences of sequences.
LEMMA AppendsTo ==
    ASSUME NEW A, NEW s \in Seq(Seq(A)), NEW x \in Seq(A)
    PROVE  /\ Append(s, x) \in Seq(Seq(A)) /\ Len(Append(s, x)) = Len(s) + 1
           /\ \A i \in 1 .. Len(s) : Append(s, x)[i] = s[i]
           /\ Append(s, x)[Len(s) + 1] = x
<1> DEFINE B == Seq(A)
<1>1. s \in Seq(B) /\ x \in B
  OBVIOUS
<1> HIDE DEF B
<1>2. /\ Append(s, x) \in Seq(B) /\ Len(Append(s, x)) = Len(s) + 1
      /\ \A i \in 1 .. Len(s) : Append(s, x)[i] = s[i]
      /\ Append(s, x)[Len(s) + 1] = x
  BY ONLY <1>1, AppendProperties
<1> QED BY <1>2 DEF B

\* r is made of s and t, the last of s and the first of t being parts of one element.
TornAt(r, s, t, n, k) ==
    /\ Len(s) = n + 1 /\ Len(t) = k + 1 /\ Len(r) = n + 1 + k
    /\ \A i \in 1 .. n : r[i] = s[i]
    /\ r[n + 1] = Cat(s[n + 1], t[1])
    /\ \A j \in 1 .. k : r[n + 1 + j] = t[1 + j]

\* A sequence made of two parts that share a torn element.
LEMMA FlattenTorn ==
    ASSUME NEW A, NEW r \in Seq(Seq(A)), NEW s \in Seq(Seq(A)), NEW t \in Seq(Seq(A)),
           NEW n \in Nat, NEW k \in Nat, TornAt(r, s, t, n, k)
    PROVE  FlattenSeq(r) = Cat(FlattenSeq(s), FlattenSeq(t))
<1>1. /\ Len(s) = n + 1 /\ Len(t) = k + 1 /\ Len(r) = n + 1 + k
      /\ \A i \in 1 .. n : r[i] = s[i]
      /\ r[n + 1] = Cat(s[n + 1], t[1])
      /\ \A j \in 1 .. k : r[n + 1 + j] = t[1 + j]
  BY DEF TornAt
<1> USE <1>1
<1> DEFINE x == s[n + 1]
           y == t[1]
           s0 == SubSeq(s, 1, n)
           t0 == Tail(t)
           z == x \o y
           u == Append(s0, z)
<1>2. /\ x \in Seq(A) /\ y \in Seq(A)
      /\ s0 \in Seq(Seq(A)) /\ Len(s0) = n /\ \A i \in 1 .. n : s0[i] = s[i]
  <2>1. n + 1 \in 1 .. Len(s) /\ 1 \in 1 .. Len(t)
    OBVIOUS
  <2>2. x \in Seq(A) /\ y \in Seq(A)
    BY <2>1, ElementOfSeq
  <2>3. s0 \in Seq(Seq(A)) /\ Len(s0) = n /\ \A i \in 1 .. n : s0[i] = s[i]
    <3>1. \A i \in 1 .. n : s[i] \in Seq(A)
      <4>1. \A i \in 1 .. n : i \in 1 .. Len(s)
        OBVIOUS
      <4> QED BY <4>1, ElementOfSeq
    <3> DEFINE B == Seq(A)
    <3>2. \A i \in 1 .. n : s[i] \in B
      BY <3>1
    <3> HIDE DEF B
    <3>3. /\ s0 \in Seq(B)
          /\ Len(s0) = IF 1 <= n THEN n - 1 + 1 ELSE 0
          /\ \A i \in 1 .. n - 1 + 1 : s0[i] = s[1 + i - 1]
      BY ONLY n \in Nat, <3>2, SubSeqProperties
    <3> HIDE DEF s0
    <3> QED BY ONLY n \in Nat, <3>3 DEF B
  <2> QED BY <2>2, <2>3
<1>3. /\ t0 \in Seq(Seq(A)) /\ Len(t0) = k
      /\ \A j \in 1 .. k : t0[j] = t[1 + j]
  <2>1. t # <<>>
    OBVIOUS
  <2> QED BY <2>1, HeadTailProperties
<1>4. z \in Seq(A)
  BY <1>2, ConcatProperties
<1> HIDE DEF s0, t0, x, y, z
<1>5. s = Append(s0, x)
  <2> DEFINE v == Append(s0, x)
  <2>1. /\ v \in Seq(Seq(A)) /\ Len(v) = Len(s0) + 1
        /\ \A i \in 1 .. Len(s0) : v[i] = s0[i]
        /\ v[Len(s0) + 1] = x
    BY <1>2, AppendsTo
  <2> HIDE DEF v
  <2>2. /\ v \in Seq(Seq(A)) /\ Len(v) = n + 1
        /\ \A i \in 1 .. n : v[i] = s[i]
        /\ v[n + 1] = s[n + 1]
    BY <1>2, <2>1, Zenon DEF x
  <2> HIDE DEF v
  <2>3. \A i \in 1 .. n + 1 : v[i] = s[i]
    <3>1. \A i \in 1 .. n + 1 : i \in 1 .. n \/ i = n + 1
      OBVIOUS
    <3> QED BY <2>2, <3>1
  <2>4. v = s
    BY <2>2, <2>3, SeqEqual
  <2> QED BY <2>4 DEF v
<1>6. t = <<y>> \o t0
  <2> DEFINE p == <<y>>
             v == p \o t0
  <2>1. p \in Seq(Seq(A)) /\ Len(p) = 1 /\ p[1] = y
    BY <1>2
  <2> HIDE DEF p
  <2>2. /\ v \in Seq(Seq(A)) /\ Len(v) = 1 + k
        /\ \A i \in 1 .. 1 + k : v[i] = IF i <= 1 THEN p[i] ELSE t0[i - 1]
    <3>1. /\ v \in Seq(Seq(A)) /\ Len(v) = Len(p) + Len(t0)
          /\ \A i \in 1 .. Len(p) + Len(t0) : v[i] = IF i <= Len(p) THEN p[i] ELSE t0[i - Len(p)]
      BY <1>3, <2>1, ConcatProperties, Zenon
    <3> HIDE DEF v
    <3> QED BY <1>3, <2>1, <3>1, Zenon
  <2> HIDE DEF v
  <2>3. ASSUME NEW i \in 1 .. 1 + k PROVE v[i] = t[i]
    <3>1. CASE i = 1
      BY <2>1, <2>2, <3>1 DEF y
    <3>2. CASE i # 1
      <4>1. i - 1 \in 1 .. k /\ 1 + (i - 1) = i /\ ~(i <= 1)
        BY <3>2
      <4> QED BY <1>3, <2>2, <4>1
    <3> QED BY <3>1, <3>2
  <2>4. v = t
    <3>1. Len(t) = Len(v) /\ \A i \in 1 .. Len(v) : v[i] = t[i]
      BY <2>2, <2>3
    <3> QED BY <2>2, <3>1, SeqEqual, Zenon
  <2> QED BY <2>4 DEF v, p
<1>7. /\ u \in Seq(Seq(A)) /\ Len(u) = n + 1
      /\ \A i \in 1 .. n : u[i] = s0[i]
      /\ u[n + 1] = z
  <2>1. /\ u \in Seq(Seq(A)) /\ Len(u) = Len(s0) + 1
        /\ \A i \in 1 .. Len(s0) : u[i] = s0[i]
        /\ u[Len(s0) + 1] = z
    BY <1>2, <1>4, AppendsTo
  <2> HIDE DEF u
  <2> QED BY <1>2, <2>1, Zenon
<1> HIDE DEF u
<1>8. FlattenSeq(r) = FlattenSeq(u) \o FlattenSeq(t0)
  <2>1. Len(r) = Len(u) + Len(t0)
    BY <1>3, <1>7
  <2>2. \A i \in 1 .. n + 1 : i \in 1 .. n \/ i = n + 1
    OBVIOUS
  <2>3. \A i \in 1 .. Len(u) : r[i] = u[i]
    BY <1>2, <1>7, <2>2 DEF x, y, z, Cat
  <2>4. \A j \in 1 .. Len(t0) : r[Len(u) + j] = t0[j]
    BY <1>3, <1>7
  <2> QED BY <1>3, <1>7, <2>1, <2>3, <2>4, FlattenParts
<1>9. FlattenSeq(u) \o FlattenSeq(t0) = FlattenSeq(u \o t0)
  BY <1>3, <1>7, FlattenConcat
<1>10. FlattenSeq(Cat(Append(s0, Cat(x, y)), t0))
          = Cat(FlattenSeq(Append(s0, x)), FlattenSeq(Cat(<<y>>, t0)))
  BY <1>2, <1>3, FlattenTornAt
<1> QED BY <1>5, <1>6, <1>8, <1>9, <1>10 DEF u, z, Cat

=============================================================================
