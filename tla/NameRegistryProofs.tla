------------------------- MODULE NameRegistryProofs -------------------------
(***************************************************************************)
(* NInv, the conjunction of the type invariant and the safety invariants   *)
(* of NameRegistry, is inductive; the line of a name is first come, first  *)
(* served; NameRegistry implements NameOwners.                             *)
(*                                                                         *)
(* The argument follows the code: RemoveAtProps .. AppendPropsOwner say    *)
(* what the list operations do; PrimariesStep .. RegisteredStep derive     *)
(* each conjunct of NInv' from what a step does to one name's list;        *)
(* ListStep puts them together, so that the lemma of each action only      *)
(* shows that the action is a ListChange.                                  *)
(***************************************************************************)
EXTENDS NameRegistry, FiniteSetTheorems, SequenceTheorems, TLAPS

\* Taking one entry out of a list closes the gap and keeps the rest in order.
LEMMA RemoveAtProps ==
    ASSUME NEW S, NEW s \in Seq(S), NEW k \in 1 .. Len(s)
    PROVE  /\ RemoveAt(s, k) \in Seq(S)
           /\ Len(RemoveAt(s, k)) = Len(s) - 1
           /\ \A i \in 1 .. Len(s) - 1 :
                 RemoveAt(s, k)[i] = IF i < k THEN s[i] ELSE s[i + 1]
<1> DEFINE a == SubSeq(s, 1, k - 1)
           b == SubSeq(s, k + 1, Len(s))
<1>1. a \in Seq(S) /\ Len(a) = k - 1 /\ \A i \in 1 .. k - 1 : a[i] = s[i]
  OBVIOUS
<1>2. b \in Seq(S) /\ Len(b) = Len(s) - k
      /\ \A i \in 1 .. Len(s) - k : b[i] = s[i + k]
  OBVIOUS
<1>3. RemoveAt(s, k) = a \o b
  BY DEF RemoveAt
<1> HIDE DEF a, b
<1>4. /\ a \o b \in Seq(S)
      /\ Len(a \o b) = Len(a) + Len(b)
      /\ \A i \in 1 .. Len(a) + Len(b) :
            (a \o b)[i] = IF i <= Len(a) THEN a[i] ELSE b[i - Len(a)]
  BY <1>1, <1>2, ConcatProperties
<1>5. Len(s) \in Nat /\ Len(a) + Len(b) = Len(s) - 1
  BY <1>1, <1>2
<1>6. ASSUME NEW i \in 1 .. Len(s) - 1
      PROVE  (a \o b)[i] = IF i < k THEN s[i] ELSE s[i + 1]
  <2>1. CASE i < k
    BY <2>1, <1>1, <1>4, <1>5
  <2>2. CASE ~(i < k)
    <3>1. i - (k - 1) \in 1 .. Len(s) - k /\ (i - (k - 1)) + k = i + 1
      BY <2>2, <1>5
    <3>2. b[i - (k - 1)] = s[i + 1]
      BY <3>1, <1>2
    <3> QED BY <2>2, <3>2, <1>1, <1>4, <1>5
  <2> QED BY <2>1, <2>2
<1> QED
  BY <1>3, <1>4, <1>5, <1>6

Occurs(s, x) == \E i \in DOMAIN s : s[i] = x

\* Unlinking removes exactly the one entry; the head stays unless it was it,
\* and nothing but the head can become the head's successor.
LEMMA UnlinkProps ==
    ASSUME NEW S, NEW s \in Seq(S), NEW o, IsInjective(s)
    PROVE  LET t == Unlink(s, o)
           IN  /\ t \in Seq(S)
               /\ IsInjective(t)
               /\ \A p : Occurs(t, p) <=> (p # o /\ Occurs(s, p))
               /\ s # <<>> /\ s[1] # o => t # <<>> /\ t[1] = s[1]
               /\ \A i \in DOMAIN t : \E j \in DOMAIN s :
                     t[i] = s[j] /\ j >= i
<1>1. CASE ~Occurs(s, o)
  <2>1. Unlink(s, o) = s
    BY <1>1 DEF Unlink, Occurs
  <2> QED
    BY <1>1, <2>1 DEF Occurs
<1>2. CASE Occurs(s, o)
  <2> DEFINE k == CHOOSE i \in DOMAIN s : s[i] = o
             t == RemoveAt(s, k)
  <2>1. k \in 1 .. Len(s) /\ s[k] = o
    BY <1>2 DEF Occurs
  <2>2. Unlink(s, o) = t
    BY <1>2 DEF Unlink, Occurs
  <2>3. /\ t \in Seq(S)
        /\ Len(t) = Len(s) - 1
        /\ \A i \in 1 .. Len(s) - 1 :
              t[i] = IF i < k THEN s[i] ELSE s[i + 1]
    BY <2>1, RemoveAtProps
  <2> HIDE DEF k, t
  <2>4. DOMAIN s = 1 .. Len(s) /\ DOMAIN t = 1 .. Len(s) - 1 /\ Len(s) \in Nat
    BY <2>3
  <2>5. IsInjective(t)
    <3> SUFFICES ASSUME NEW a \in DOMAIN t, NEW b \in DOMAIN t, t[a] = t[b]
                 PROVE  a = b
      BY DEF IsInjective
    <3> DEFINE Old(i) == IF i < k THEN i ELSE i + 1
    <3>1. /\ Old(a) \in DOMAIN s /\ s[Old(a)] = t[a]
          /\ Old(b) \in DOMAIN s /\ s[Old(b)] = t[b]
      BY <2>1, <2>3, <2>4
    <3>2. Old(a) = Old(b)
      BY <3>1 DEF IsInjective
    <3> QED BY <3>2, <2>1, <2>4
  <2>6. ASSUME NEW p PROVE Occurs(t, p) <=> (p # o /\ Occurs(s, p))
    <3>1. ASSUME Occurs(t, p) PROVE p # o /\ Occurs(s, p)
      BY <3>1, <2>1, <2>3, <2>4 DEF Occurs, IsInjective
    <3>2. ASSUME p # o, Occurs(s, p) PROVE Occurs(t, p)
      <4>1. PICK j \in 1 .. Len(s) : s[j] = p
        BY <3>2, <2>4 DEF Occurs
      <4>2. CASE j < k
        <5>1. j \in 1 .. Len(s) - 1 /\ t[j] = p
          BY <4>1, <4>2, <2>1, <2>3, <2>4
        <5> QED BY <5>1, <2>4 DEF Occurs
      <4>3. CASE j > k
        <5>1. j - 1 \in 1 .. Len(s) - 1 /\ t[j - 1] = p
          BY <4>1, <4>3, <2>1, <2>3, <2>4
        <5> QED BY <5>1, <2>4 DEF Occurs
      <4>4. j # k
        BY <4>1, <3>2, <2>1
      <4> QED BY <4>2, <4>3, <4>4, <2>1
    <3> QED BY <3>1, <3>2
  <2>7. ASSUME s # <<>>, s[1] # o PROVE t # <<>> /\ t[1] = s[1]
    <3>1. k > 1 /\ 1 \in 1 .. Len(s) - 1
      BY <2>1, <2>7
    <3>2. t[1] = s[1]
      BY <3>1, <2>3
    <3> QED BY <3>1, <3>2, <2>3
  <2>8. \A i \in DOMAIN t : \E j \in DOMAIN s : t[i] = s[j] /\ j >= i
    BY <2>1, <2>3, <2>4
  <2> QED
    BY <2>2, <2>3, <2>5, <2>6, <2>7, <2>8
<1> QED BY <1>1, <1>2

\* A peer that is not in the list is put in front of it.
LEMMA ConsProps ==
    ASSUME NEW S, NEW s \in Seq(S), NEW o \in S, IsInjective(s), ~Occurs(s, o)
    PROVE  LET t == <<o>> \o s
           IN  /\ t \in Seq(S)
               /\ t # <<>>
               /\ t[1] = o
               /\ IsInjective(t)
               /\ \A p : Occurs(t, p) <=> (p = o \/ Occurs(s, p))
               /\ \A i \in DOMAIN t : i > 1 => i - 1 \in DOMAIN s /\ t[i] = s[i - 1]
<1> DEFINE t == <<o>> \o s
<1>1. /\ t \in Seq(S)
      /\ Len(t) = Len(s) + 1
      /\ t[1] = o
      /\ \A i \in 1 .. Len(s) : t[i + 1] = s[i]
  OBVIOUS
<1> HIDE DEF t
<1>2. DOMAIN s = 1 .. Len(s) /\ DOMAIN t = 1 .. Len(s) + 1 /\ Len(s) \in Nat
  BY <1>1
<1>3. \A i \in DOMAIN t : i > 1 => i - 1 \in DOMAIN s /\ t[i] = s[i - 1]
  <2> SUFFICES ASSUME NEW i \in DOMAIN t, i > 1
               PROVE  i - 1 \in DOMAIN s /\ t[i] = s[i - 1]
    OBVIOUS
  <2>1. i - 1 \in 1 .. Len(s) /\ (i - 1) + 1 = i
    BY <1>2
  <2> QED BY <2>1, <1>1, <1>2
<1>4. IsInjective(t)
  <2> SUFFICES ASSUME NEW a \in DOMAIN t, NEW b \in DOMAIN t, t[a] = t[b]
               PROVE  a = b
    BY DEF IsInjective
  <2>1. CASE a = 1
    BY <2>1, <1>1, <1>2, <1>3 DEF Occurs
  <2>2. CASE b = 1
    BY <2>2, <1>1, <1>2, <1>3 DEF Occurs
  <2>3. CASE a > 1 /\ b > 1
    <3>1. s[a - 1] = s[b - 1] /\ a - 1 \in DOMAIN s /\ b - 1 \in DOMAIN s
      BY <2>3, <1>3
    <3>2. a - 1 = b - 1
      BY <3>1 DEF IsInjective
    <3> QED BY <3>2, <1>2
  <2> QED BY <2>1, <2>2, <2>3, <1>2
<1>5. ASSUME NEW p PROVE Occurs(t, p) <=> (p = o \/ Occurs(s, p))
  <2>1. ASSUME Occurs(t, p) PROVE p = o \/ Occurs(s, p)
    BY <2>1, <1>1, <1>2, <1>3 DEF Occurs
  <2>2. ASSUME p = o PROVE Occurs(t, p)
    BY <2>2, <1>1, <1>2 DEF Occurs
  <2>3. ASSUME Occurs(s, p) PROVE Occurs(t, p)
    <3>1. PICK i \in 1 .. Len(s) : s[i] = p
      BY <2>3, <1>2 DEF Occurs
    <3>2. i + 1 \in DOMAIN t /\ t[i + 1] = p
      BY <3>1, <1>1, <1>2
    <3> QED BY <3>2 DEF Occurs
  <2> QED BY <2>1, <2>2, <2>3
<1>6. t # <<>>
  BY <1>1
<1> QED
  BY <1>1, <1>3, <1>4, <1>5, <1>6 DEF t

\* A peer that is not in the list is put at its end.
LEMMA AppendPropsOwner ==
    ASSUME NEW S, NEW s \in Seq(S), NEW o \in S, IsInjective(s), ~Occurs(s, o),
           s # <<>>
    PROVE  LET t == Append(s, o)
           IN  /\ t \in Seq(S)
               /\ t # <<>>
               /\ t[1] = s[1]
               /\ IsInjective(t)
               /\ \A p : Occurs(t, p) <=> (p = o \/ Occurs(s, p))
               /\ \A i \in DOMAIN t : t[i] = o \/ (i \in DOMAIN s /\ t[i] = s[i])
<1> DEFINE t == Append(s, o)
<1>1. /\ t \in Seq(S)
      /\ Len(t) = Len(s) + 1
      /\ t[Len(s) + 1] = o
      /\ \A i \in 1 .. Len(s) : t[i] = s[i]
      /\ Len(s) >= 1
  OBVIOUS
<1> HIDE DEF t
<1>2. DOMAIN s = 1 .. Len(s) /\ DOMAIN t = 1 .. Len(s) + 1 /\ Len(s) \in Nat
  BY <1>1
<1>3. \A i \in DOMAIN t : (i = Len(s) + 1 /\ t[i] = o)
                          \/ (i \in DOMAIN s /\ t[i] = s[i])
  BY <1>1, <1>2
<1>4. IsInjective(t)
  BY <1>1, <1>2, <1>3 DEF IsInjective, Occurs
<1>5. \A p : Occurs(t, p) <=> (p = o \/ Occurs(s, p))
  BY <1>1, <1>2, <1>3 DEF Occurs
<1>6. t # <<>> /\ t[1] = s[1]
  BY <1>1, <1>2
<1> QED
  BY <1>1, <1>3, <1>4, <1>5, <1>6 DEF t

-----------------------------------------------------------------------------
(* How a step that gives name n the list L changes what is derived from it *)

\* Primary owners, and what is counted of them, once name n has list L.
LEMMA PrimariesStep ==
    ASSUME NTypeOK, NEW n \in Names, NEW L \in Seq(Owners),
           ownership_list' = [ownership_list EXCEPT ![n] = L]
    PROVE  /\ \A m \in Names : Primary(m)' = IF m = n THEN First(L) ELSE Primary(m)
           /\ \A p : PrimariesOf(p)' = IF First(L) = p THEN PrimariesOf(p) \cup {n}
                                       ELSE PrimariesOf(p) \ {n}
           /\ OwnedNames' = IF L # <<>> THEN OwnedNames \cup {n}
                            ELSE OwnedNames \ {n}
<1>1. \A m \in Names : ownership_list'[m] = IF m = n THEN L ELSE ownership_list[m]
  BY DEF NTypeOK
<1>2. \A m \in Names : Primary(m)' = IF m = n THEN First(L) ELSE Primary(m)
  BY <1>1 DEF Primary
<1>3. \A p : PrimariesOf(p)' = {m \in Names : Primary(m)' = p}
  BY DEF PrimariesOf
<1>4. \A p : PrimariesOf(p)' = IF First(L) = p THEN PrimariesOf(p) \cup {n}
                              ELSE PrimariesOf(p) \ {n}
  BY <1>2, <1>3 DEF PrimariesOf
<1>5. OwnedNames' = IF L # <<>> THEN OwnedNames \cup {n} ELSE OwnedNames \ {n}
  BY <1>1 DEF OwnedNames
<1> QED BY <1>2, <1>4, <1>5

\* The lists and the trees stay in step if they do so for name n.
LEMMA LinkStep ==
    ASSUME NTypeOK, Linked, NEW n \in Names, NEW L \in Seq(Owners), IsInjective(L),
           ownership_list' = [ownership_list EXCEPT ![n] = L],
           \A p \in Owners : n \in ownership_tree'[p] <=> Occurs(L, p),
           \A p \in Owners : \A m \in Names \ {n} :
              m \in ownership_tree'[p] <=> m \in ownership_tree[p]
    PROVE  Linked' /\ ownership_list' \in [Names -> Seq(Owners)]
<1>1. \A m \in Names : ownership_list'[m] = IF m = n THEN L ELSE ownership_list[m]
  BY DEF NTypeOK
<1>2. \A m \in Names : IsInjective(ownership_list'[m])
  BY <1>1 DEF Linked
<1>3. ASSUME NEW m \in Names, NEW p \in Owners
      PROVE  m \in ownership_tree'[p] <=> IsLinked(p, m)'
  <2>1. CASE m = n
    BY <2>1, <1>1 DEF IsLinked, Occurs
  <2>2. CASE m # n
    BY <2>2, <1>1 DEF IsLinked, Linked
  <2> QED BY <2>1, <2>2
<1>4. ownership_list' \in [Names -> Seq(Owners)]
  BY DEF NTypeOK
<1> QED BY <1>2, <1>3, <1>4 DEF Linked

\* The counters that match the lists after the step.
LEMMA CountStep ==
    ASSUME NTypeOK, CountersExact, NEW n \in Names, NEW L \in Seq(Owners),
           ownership_list' = [ownership_list EXCEPT ![n] = L]
    PROVE  /\ Cardinality(OwnedNames') =
                 IF ownership_list[n] = <<>> /\ L # <<>> THEN n_primaries + 1
                   ELSE IF ownership_list[n] # <<>> /\ L = <<>> THEN n_primaries - 1
                   ELSE n_primaries
           /\ \A p \in Owners : Cardinality(PrimariesOf(p)') =
                 IF Primary(n) # p /\ First(L) = p THEN n_owner_primaries[p] + 1
                   ELSE IF Primary(n) = p /\ First(L) # p THEN n_owner_primaries[p] - 1
                   ELSE n_owner_primaries[p]
<1>1. IsFiniteSet(OwnedNames) /\ \A p : IsFiniteSet(PrimariesOf(p))
  <2>1. OwnedNames \in SUBSET Names /\ \A p : PrimariesOf(p) \in SUBSET Names
    BY DEF OwnedNames, PrimariesOf
  <2> QED BY <2>1, FS_Subset, NamesAssumption
<1>2. n \in OwnedNames <=> ownership_list[n] # <<>>
  BY DEF OwnedNames
<1>3. \A p : n \in PrimariesOf(p) <=> Primary(n) = p
  BY DEF PrimariesOf
<1>4. /\ Cardinality(OwnedNames \cup {n}) =
            IF n \in OwnedNames THEN Cardinality(OwnedNames)
            ELSE Cardinality(OwnedNames) + 1
      /\ Cardinality(OwnedNames \ {n}) =
            IF n \in OwnedNames THEN Cardinality(OwnedNames) - 1
            ELSE Cardinality(OwnedNames)
  BY <1>1, FS_AddElement, FS_RemoveElement
<1>5. ASSUME NEW p
      PROVE  /\ Cardinality(PrimariesOf(p) \cup {n}) =
                   IF n \in PrimariesOf(p) THEN Cardinality(PrimariesOf(p))
                   ELSE Cardinality(PrimariesOf(p)) + 1
             /\ Cardinality(PrimariesOf(p) \ {n}) =
                   IF n \in PrimariesOf(p) THEN Cardinality(PrimariesOf(p)) - 1
                   ELSE Cardinality(PrimariesOf(p))
  BY <1>1, FS_AddElement, FS_RemoveElement
<1>6. n_primaries = Cardinality(OwnedNames)
      /\ \A p \in Owners : n_owner_primaries[p] = Cardinality(PrimariesOf(p))
  BY DEF CountersExact
<1>7. /\ OwnedNames' = IF L # <<>> THEN OwnedNames \cup {n} ELSE OwnedNames \ {n}
      /\ \A p : PrimariesOf(p)' = IF First(L) = p THEN PrimariesOf(p) \cup {n}
                                  ELSE PrimariesOf(p) \ {n}
  BY PrimariesStep
<1>8. Cardinality(OwnedNames') =
        IF ownership_list[n] = <<>> /\ L # <<>> THEN n_primaries + 1
          ELSE IF ownership_list[n] # <<>> /\ L = <<>> THEN n_primaries - 1
          ELSE n_primaries
  BY <1>2, <1>4, <1>6, <1>7
<1>9. ASSUME NEW p \in Owners
      PROVE  Cardinality(PrimariesOf(p)') =
               IF Primary(n) # p /\ First(L) = p THEN n_owner_primaries[p] + 1
                 ELSE IF Primary(n) = p /\ First(L) # p THEN n_owner_primaries[p] - 1
                 ELSE n_owner_primaries[p]
  BY <1>3, <1>5, <1>6, <1>7
<1> QED BY <1>8, <1>9

\* The ownerships in a tree that user u is charged for.
Held(tree, u) ==
    {w \in Owners \X Names : UserOf[w[1]] = u /\ w[2] \in tree[w[1]]}

\* The ownerships a user is charged for are finitely many.
LEMMA HeldFinite ==
    ASSUME NEW tree, NEW u
    PROVE  IsFiniteSet(Held(tree, u)) /\ Cardinality(Held(tree, u)) \in Nat
<1>1. IsFiniteSet(Owners \X Names)
  BY FS_Product, NamesAssumption
<1>2. Held(tree, u) \in SUBSET (Owners \X Names)
  BY DEF Held
<1> QED BY <1>1, <1>2, FS_Subset, FS_CardinalityType

\* Held, unfolded for one owner and one name.
LEMMA HeldMember ==
    ASSUME NEW tree, NEW u
    PROVE  /\ \A a \in Owners, b \in Names :
                 <<a, b>> \in Held(tree, u) <=> UserOf[a] = u /\ b \in tree[a]
           /\ \A w \in Held(tree, u) : \E a \in Owners, b \in Names : w = <<a, b>>
  BY DEF Held

\* new is tree with the ownership of n by o added, or removed.
Grows(tree, new, o, n) ==
    /\ o \in Owners
    /\ n \in Names
    /\ n \notin tree[o]
    /\ \A p \in Owners : new[p] = IF p = o THEN tree[p] \cup {n} ELSE tree[p]

Shrinks(tree, new, o, n) ==
    /\ o \in Owners
    /\ n \in Names
    /\ n \in tree[o]
    /\ \A p \in Owners : new[p] = IF p = o THEN tree[p] \ {n} ELSE tree[p]

\* A new ownership counts once, on the user of its owner.
LEMMA HeldAdd ==
    ASSUME NEW tree, NEW new, NEW o, NEW n, Grows(tree, new, o, n), NEW u
    PROVE  Cardinality(Held(new, u)) =
             Cardinality(Held(tree, u)) + (IF u = UserOf[o] THEN 1 ELSE 0)
<1>0. /\ o \in Owners /\ n \in Names /\ n \notin tree[o]
      /\ \A p \in Owners : new[p] = IF p = o THEN tree[p] \cup {n} ELSE tree[p]
  BY DEF Grows
<1>1. CASE u = UserOf[o]
  <2>1. Held(new, u) = Held(tree, u) \cup {<<o, n>>}
    <3>1. ASSUME NEW a \in Owners, NEW b \in Names
          PROVE  <<a, b>> \in Held(new, u) <=>
                   <<a, b>> \in Held(tree, u) \/ <<a, b>> = <<o, n>>
      <4>1. <<a, b>> \in Held(new, u) <=> UserOf[a] = u /\ b \in new[a]
        BY HeldMember
      <4>2. <<a, b>> \in Held(tree, u) <=> UserOf[a] = u /\ b \in tree[a]
        BY HeldMember
      <4>3. <<a, b>> = <<o, n>> <=> a = o /\ b = n
        OBVIOUS
      <4> QED BY <4>1, <4>2, <4>3, <1>0, <1>1
    <3> QED BY <3>1, <1>0, HeldMember
  <2>2. <<o, n>> \notin Held(tree, u)
    BY <1>0, HeldMember
  <2> QED BY <2>1, <2>2, <1>1, HeldFinite, FS_AddElement
<1>2. CASE u # UserOf[o]
  <2>1. Held(new, u) = Held(tree, u)
    BY <1>0, <1>2 DEF Held
  <2> QED BY <2>1, <1>2, HeldFinite
<1> QED BY <1>1, <1>2

\* A freed ownership no longer counts on the user of its owner.
LEMMA HeldDrop ==
    ASSUME NEW tree, NEW new, NEW o, NEW n, Shrinks(tree, new, o, n), NEW u
    PROVE  Cardinality(Held(new, u)) =
             Cardinality(Held(tree, u)) - (IF u = UserOf[o] THEN 1 ELSE 0)
<1>0. /\ o \in Owners /\ n \in Names /\ n \in tree[o]
      /\ \A p \in Owners : new[p] = IF p = o THEN tree[p] \ {n} ELSE tree[p]
  BY DEF Shrinks
<1>1. CASE u = UserOf[o]
  <2>1. Held(new, u) = Held(tree, u) \ {<<o, n>>}
    <3>1. ASSUME NEW a \in Owners, NEW b \in Names
          PROVE  <<a, b>> \in Held(new, u) <=>
                   <<a, b>> \in Held(tree, u) /\ <<a, b>> # <<o, n>>
      <4>1. <<a, b>> \in Held(new, u) <=> UserOf[a] = u /\ b \in new[a]
        BY HeldMember
      <4>2. <<a, b>> \in Held(tree, u) <=> UserOf[a] = u /\ b \in tree[a]
        BY HeldMember
      <4>3. <<a, b>> = <<o, n>> <=> a = o /\ b = n
        OBVIOUS
      <4> QED BY <4>1, <4>2, <4>3, <1>0, <1>1
    <3> QED BY <3>1, <1>0, HeldMember
  <2>2. <<o, n>> \in Held(tree, u)
    <3>1. <<o, n>> \in Held(tree, u) <=> UserOf[o] = u /\ n \in tree[o]
      BY <1>0, HeldMember
    <3> QED BY <3>1, <1>0, <1>1
  <2>3. IsFiniteSet(Held(tree, u)) /\ Cardinality(Held(tree, u)) \in Nat
    BY HeldFinite
  <2>4. Cardinality(Held(new, u)) = Cardinality(Held(tree, u)) - 1
    <3> DEFINE S == Held(tree, u)
    <3> HIDE DEF S
    <3>1. Cardinality(S \ {<<o, n>>}) =
            IF <<o, n>> \in S THEN Cardinality(S) - 1 ELSE Cardinality(S)
      BY <2>3, FS_RemoveElement DEF S
    <3> QED BY <3>1, <2>1, <2>2 DEF S
  <2> QED BY <2>4, <1>1
<1>2. CASE u # UserOf[o]
  <2>1. Held(new, u) = Held(tree, u)
    BY <1>0, <1>2 DEF Held
  <2> QED BY <2>1, <1>2, HeldFinite
<1> QED BY <1>1, <1>2

\* ChargesBalance and the range of n_objects follow once a step charges for
\* what it adds to the trees and credits what it removes.
LEMMA ChargeStep ==
    ASSUME NEW tree, NEW left,
           left \in [Users -> Nat],
           \A u \in Users : left[u] + Cardinality(Held(tree, u)) = MaxObjects
    PROVE  left \in [Users -> 0 .. MaxObjects]
<1>1. \A u \in Users : Cardinality(Held(tree, u)) \in Nat
  BY HeldFinite
<1>2. ASSUME NEW u \in Users PROVE left[u] \in 0 .. MaxObjects
  <2>1. left[u] \in Nat /\ Cardinality(Held(tree, u)) \in Nat
        /\ left[u] + Cardinality(Held(tree, u)) = MaxObjects
    BY <1>1
  <2> QED BY <2>1, NamesAssumption
<1> QED BY <1>2

\* ChargesBalance in terms of Held.
LEMMA BalanceHeld ==
    ChargesBalance <=> \A u \in Users :
        n_objects[u] + Cardinality(Held(ownership_tree, u)) = MaxObjects
  BY DEF ChargesBalance, OwnershipsOf, Held

\* A change of the primary owner that is announced keeps the signals true.
LEMMA NotifyStep ==
    ASSUME NTypeOK, SignalsTruthful, NEW n \in Names, NEW L \in Seq(Owners),
           ownership_list' = [ownership_list EXCEPT ![n] = L],
           status' = status,
           NotifyChange(n, Primary(n), First(L))
    PROVE  /\ SignalsTruthful'
           /\ announced' \in [Names -> Owners \cup {None}]
           /\ unique_names' \in SUBSET Owners
           /\ told' \in [Owners -> SUBSET Names]
<1> DEFINE new == First(L)
<1>1. new \in Owners \cup {None}
  BY DEF First
<1>2. /\ \A m \in Names : Primary(m)' = IF m = n THEN new ELSE Primary(m)
      /\ \A p : PrimariesOf(p)' = IF new = p THEN PrimariesOf(p) \cup {n}
                                  ELSE PrimariesOf(p) \ {n}
  BY PrimariesStep
<1> HIDE DEF new
<1>3. /\ announced' = [announced EXCEPT ![n] = new]
      /\ told' = [o \in Owners |->
                    LET kept == IF o = Primary(n) THEN told[o] \ {n} ELSE told[o]
                    IN  IF o = new THEN kept \cup {n} ELSE kept]
      /\ unique_names' = unique_names
  BY DEF NotifyChange, new
<1>4. \A m \in Names : announced'[m] = Primary(m)'
  BY <1>2, <1>3 DEF NTypeOK, SignalsTruthful
<1>5. ASSUME NEW p \in Owners PROVE told'[p] = PrimariesOf(p)'
  <2>1. told[p] = PrimariesOf(p) /\ (n \in PrimariesOf(p) <=> Primary(n) = p)
    BY DEF SignalsTruthful, PrimariesOf
  <2>2. told'[p] = LET kept == IF p = Primary(n) THEN told[p] \ {n} ELSE told[p]
                   IN  IF p = new THEN kept \cup {n} ELSE kept
    BY <1>3
  <2>3. CASE p = new
    BY <2>1, <2>2, <2>3, <1>2
  <2>4. CASE p # new
    BY <2>1, <2>2, <2>4, <1>2
  <2> QED BY <2>3, <2>4
<1>6. /\ announced' \in [Names -> Owners \cup {None}]
      /\ unique_names' \in SUBSET Owners
      /\ told' \in [Owners -> SUBSET Names]
  <2>1. \A p \in Owners : told'[p] \in SUBSET Names
    BY <1>5, <1>2 DEF PrimariesOf
  <2> QED BY <1>1, <1>3, <2>1 DEF NTypeOK
<1>7. unique_names' = {o \in Owners : status'[o] = "registered"}
  BY <1>3 DEF SignalsTruthful
<1> QED BY <1>4, <1>5, <1>6, <1>7 DEF SignalsTruthful

\* A step that leaves the primary owner in place needs no signal.
LEMMA QuietStep ==
    ASSUME NTypeOK, SignalsTruthful, CountersExact,
           NEW n \in Names, NEW L \in Seq(Owners),
           ownership_list' = [ownership_list EXCEPT ![n] = L],
           status' = status, UNCHANGED <<counters, signals>>,
           First(L) = Primary(n)
    PROVE  SignalsTruthful' /\ CountersExact'
<1>1. /\ \A m \in Names : Primary(m)' = IF m = n THEN First(L) ELSE Primary(m)
      /\ \A p : PrimariesOf(p)' = IF First(L) = p THEN PrimariesOf(p) \cup {n}
                                  ELSE PrimariesOf(p) \ {n}
      /\ OwnedNames' = IF L # <<>> THEN OwnedNames \cup {n} ELSE OwnedNames \ {n}
  BY PrimariesStep
<1>2. \A m \in Names : Primary(m)' = Primary(m)
  BY <1>1
<1>3. \A p : PrimariesOf(p)' = PrimariesOf(p)
  BY <1>2 DEF PrimariesOf
<1>4. L # <<>> <=> ownership_list[n] # <<>>
  <2>1. /\ First(L) = None <=> L = <<>>
        /\ Primary(n) = None <=> ownership_list[n] = <<>>
    BY NamesAssumption DEF First, Primary, NTypeOK
  <2> QED BY <2>1
<1>5. OwnedNames' = OwnedNames
  BY <1>1, <1>4 DEF OwnedNames
<1>6. SignalsTruthful'
  BY <1>2, <1>3 DEF SignalsTruthful, signals
<1>7. CountersExact'
  BY <1>3, <1>5 DEF CountersExact, counters
<1> QED BY <1>6, <1>7

-----------------------------------------------------------------------------
(* One lemma per way a list can change *)

\* NTypeOK' in terms of what a request or a release may touch.
LEMMA TypeStep ==
    ASSUME NTypeOK, UNCHANGED <<status, leaving>>,
           ownership_list' \in [Names -> Seq(Owners)],
           flags' \in [Names -> [Owners -> SUBSET Flags]],
           ownership_tree' \in [Owners -> SUBSET Names],
           n_objects' \in [Users -> 0 .. MaxObjects],
           n_primaries' \in Nat, n_primaries_peak' \in Nat,
           n_owner_primaries' \in [Owners -> Nat], n_owner_primaries_peak' \in Nat,
           announced' \in [Names -> Owners \cup {None}],
           unique_names' \in SUBSET Owners,
           told' \in [Owners -> SUBSET Names]
    PROVE  NTypeOK'
  BY DEF NTypeOK

\* Nothing but name n changes, and who is linked there is registered.
LEMMA RegisteredStep ==
    ASSUME OwnersRegistered, UNCHANGED <<status, leaving>>, NEW n,
           \A p \in Owners : ownership_tree'[p] \subseteq ownership_tree[p] \cup {n},
           \A p \in Owners : n \in ownership_tree'[p] => status[p] = "registered"
    PROVE  OwnersRegistered'
<1> SUFFICES ASSUME NEW p \in Owners, ownership_tree'[p] # {} \/ leaving' = p
             PROVE  status'[p] = "registered"
  BY DEF OwnersRegistered
<1>1. CASE n \in ownership_tree'[p]
  BY <1>1
<1>2. CASE n \notin ownership_tree'[p]
  <2>1. ownership_tree'[p] \subseteq ownership_tree[p]
    BY <1>2
  <2> QED BY <2>1 DEF OwnersRegistered
<1> QED BY <1>1, <1>2

\* Counters that follow the list of name n are exact again.
LEMMA CountersStep ==
    ASSUME NTypeOK, CountersExact, NEW n \in Names, NEW L \in Seq(Owners),
           ownership_list' = [ownership_list EXCEPT ![n] = L],
           n_primaries' = IF ownership_list[n] = <<>> /\ L # <<>> THEN n_primaries + 1
                            ELSE IF ownership_list[n] # <<>> /\ L = <<>> THEN n_primaries - 1
                            ELSE n_primaries,
           n_owner_primaries' \in [Owners -> Int],
           \A p \in Owners : n_owner_primaries'[p] =
               IF Primary(n) # p /\ First(L) = p THEN n_owner_primaries[p] + 1
                 ELSE IF Primary(n) = p /\ First(L) # p THEN n_owner_primaries[p] - 1
                 ELSE n_owner_primaries[p],
           n_primaries_peak' \in Nat, n_owner_primaries_peak' \in Nat,
           n_primaries_peak' >= n_primaries',
           \A p \in Owners : n_owner_primaries_peak' >= n_owner_primaries'[p]
    PROVE  /\ CountersExact'
           /\ n_primaries' \in Nat
           /\ n_owner_primaries' \in [Owners -> Nat]
<1>1. n_primaries' = Cardinality(OwnedNames')
  BY CountStep
<1>2. ASSUME NEW p \in Owners
      PROVE  n_owner_primaries'[p] = Cardinality(PrimariesOf(p)')
  <2>1. \A q \in Owners : Cardinality(PrimariesOf(q)') =
          IF Primary(n) # q /\ First(L) = q THEN n_owner_primaries[q] + 1
          ELSE IF Primary(n) = q /\ First(L) # q THEN n_owner_primaries[q] - 1
          ELSE n_owner_primaries[q]
    BY CountStep, Zenon
  <2> QED BY <2>1
<1>3. OwnedNames' \in SUBSET Names /\ \A p \in Owners : PrimariesOf(p)' \in SUBSET Names
  BY DEF OwnedNames, PrimariesOf
<1>4. /\ Cardinality(OwnedNames') \in Nat
      /\ \A p \in Owners : Cardinality(PrimariesOf(p)') \in Nat
  BY <1>3, FS_Subset, FS_CardinalityType, NamesAssumption
<1>5. CountersExact'
  BY <1>1, <1>2 DEF CountersExact
<1>6. n_owner_primaries' \in [Owners -> Nat]
  BY <1>2, <1>4
<1> QED BY <1>1, <1>4, <1>5, <1>6

\* What a request or a release of name n must establish to preserve NInv.
ListChange(n, L) ==
    /\ n \in Names /\ L \in Seq(Owners) /\ IsInjective(L)
    /\ UNCHANGED <<status, leaving>>
    /\ ownership_list' = [ownership_list EXCEPT ![n] = L]
    /\ ownership_tree' \in [Owners -> SUBSET Names]
    /\ \A p \in Owners : n \in ownership_tree'[p] <=> Occurs(L, p)
    /\ \A p \in Owners : \A m \in Names \ {n} :
          m \in ownership_tree'[p] <=> m \in ownership_tree[p]
    /\ \A p \in Owners : Occurs(L, p) => status[p] = "registered"
    /\ flags' \in [Names -> [Owners -> SUBSET Flags]]
    /\ \A m \in Names \ {n} : flags'[m] = flags[m]
    /\ \A i \in DOMAIN L : i > 1 => "DO_NOT_QUEUE" \notin flags'[n][L[i]]
    /\ n_objects' \in [Users -> Nat]
    /\ \A u \in Users :
          n_objects'[u] + Cardinality(Held(ownership_tree', u)) =
          n_objects[u] + Cardinality(Held(ownership_tree, u))
    /\ CountersExact' /\ SignalsTruthful'
    /\ n_primaries' \in Nat /\ n_primaries_peak' \in Nat
    /\ n_owner_primaries' \in [Owners -> Nat] /\ n_owner_primaries_peak' \in Nat
    /\ announced' \in [Names -> Owners \cup {None}]
    /\ unique_names' \in SUBSET Owners
    /\ told' \in [Owners -> SUBSET Names]

\* A ListChange of one name preserves the invariant.
LEMMA ListStep ==
    ASSUME NInv, NEW n, NEW L, ListChange(n, L)
    PROVE  NInv'
<1> USE DEF ListChange
<1>0. NTypeOK /\ Linked /\ ChargesBalance /\ NobodyQueuedUnwillingly /\ OwnersRegistered
  BY DEF NInv
<1>1. Linked' /\ ownership_list' \in [Names -> Seq(Owners)]
  BY <1>0, LinkStep
<1>2. OwnersRegistered'
  <2>1. ASSUME NEW p \in Owners
        PROVE  ownership_tree'[p] \subseteq ownership_tree[p] \cup {n}
    <3>1. ownership_tree'[p] \subseteq Names
      OBVIOUS
    <3> QED BY <3>1
  <2>2. \A p \in Owners : n \in ownership_tree'[p] => status[p] = "registered"
    OBVIOUS
  <2> QED BY <1>0, <2>1, <2>2, RegisteredStep
<1>3. \A u \in Users : n_objects'[u] + Cardinality(Held(ownership_tree', u)) = MaxObjects
  BY <1>0, BalanceHeld
<1>4. ChargesBalance'
  BY <1>3 DEF ChargesBalance, OwnershipsOf, Held
<1>5. n_objects' \in [Users -> 0 .. MaxObjects]
  BY <1>3, ChargeStep
<1>6. NobodyQueuedUnwillingly'
  <2> SUFFICES ASSUME NEW m \in Names, NEW i \in DOMAIN ownership_list'[m], i > 1
               PROVE  "DO_NOT_QUEUE" \notin flags'[m][ownership_list'[m][i]]
    BY DEF NobodyQueuedUnwillingly
  <2>1. CASE m = n
    <3>1. ownership_list'[m] = L
      BY <2>1, <1>0 DEF NTypeOK
    <3> QED BY <3>1, <2>1
  <2>2. CASE m # n
    <3>1. ownership_list'[m] = ownership_list[m] /\ flags'[m] = flags[m]
      BY <2>2, <1>0 DEF NTypeOK
    <3> QED BY <3>1, <1>0 DEF NobodyQueuedUnwillingly
  <2> QED BY <2>1, <2>2
<1>7. NTypeOK'
  BY <1>0, <1>1, <1>5, TypeStep
<1> QED
  BY <1>1, <1>2, <1>4, <1>6, <1>7 DEF NInv

\* AcquireOwnership() charges the user of o for what it adds to the tree.
LEMMA AcquireStep ==
    ASSUME NInv, NEW o \in Owners, NEW n \in Names,
           CanOwn(o, n), AcquireOwnership(o, n)
    PROVE  /\ ownership_tree' \in [Owners -> SUBSET Names]
           /\ \A p \in Owners : ownership_tree'[p] =
                 IF p = o THEN ownership_tree[p] \cup {n} ELSE ownership_tree[p]
           /\ n_objects' \in [Users -> Nat]
           /\ \A u \in Users :
                 n_objects'[u] + Cardinality(Held(ownership_tree', u)) =
                 n_objects[u] + Cardinality(Held(ownership_tree, u))
<1>0. /\ ownership_tree \in [Owners -> SUBSET Names]
      /\ n_objects \in [Users -> Nat]
      /\ UserOf[o] \in Users
  BY NamesAssumption DEF NInv, NTypeOK
<1>1. /\ ownership_tree' \in [Owners -> SUBSET Names]
      /\ \A p \in Owners : ownership_tree'[p] =
            IF p = o THEN ownership_tree[p] \cup {n} ELSE ownership_tree[p]
  BY <1>0 DEF AcquireOwnership
<1>2. CASE n \in ownership_tree[o]
  <2>1. n_objects' = n_objects
    BY <1>2 DEF AcquireOwnership
  <2>2. ownership_tree' = ownership_tree
    BY <1>0, <1>1, <1>2
  <2> QED BY <2>1, <2>2, <1>0, <1>1
<1>3. CASE n \notin ownership_tree[o]
  <2>1. /\ n_objects' = [n_objects EXCEPT ![UserOf[o]] = @ - 1]
        /\ n_objects[UserOf[o]] > 0
    BY <1>3 DEF AcquireOwnership, CanOwn
  <2>2. \A u \in Users : n_objects'[u] = n_objects[u] - (IF u = UserOf[o] THEN 1 ELSE 0)
    BY <2>1, <1>0
  <2>3. ASSUME NEW u \in Users PROVE n_objects'[u] \in Nat
    <3>1. n_objects[u] \in Nat /\ (u = UserOf[o] => n_objects[u] > 0)
      BY <2>1, <1>0
    <3> QED BY <3>1, <2>2
  <2>4. n_objects' \in [Users -> Nat]
    BY <2>1, <2>3, <1>0
  <2>5. ASSUME NEW u \in Users
        PROVE  n_objects'[u] + Cardinality(Held(ownership_tree', u)) =
               n_objects[u] + Cardinality(Held(ownership_tree, u))
    <3>0. Grows(ownership_tree, ownership_tree', o, n)
      BY <1>1, <1>3 DEF Grows
    <3>1. Cardinality(Held(ownership_tree', u)) =
            Cardinality(Held(ownership_tree, u)) + (IF u = UserOf[o] THEN 1 ELSE 0)
      BY <3>0, HeldAdd
    <3>2. Cardinality(Held(ownership_tree, u)) \in Nat /\ n_objects[u] \in Nat
      BY <1>0, HeldFinite
    <3> QED BY <3>1, <3>2, <2>2
  <2> QED BY <2>4, <2>5, <1>1
<1> QED BY <1>2, <1>3

\* name_ownership_free() credits what it removes from the tree.
LEMMA FreeStep ==
    ASSUME NInv, NEW o \in Owners, NEW n \in Names, n \in ownership_tree[o],
           ownership_tree' = [ownership_tree EXCEPT ![o] = @ \ {n}],
           n_objects' = [n_objects EXCEPT ![UserOf[o]] = @ + 1]
    PROVE  /\ ownership_tree' \in [Owners -> SUBSET Names]
           /\ \A p \in Owners : ownership_tree'[p] =
                 IF p = o THEN ownership_tree[p] \ {n} ELSE ownership_tree[p]
           /\ n_objects' \in [Users -> Nat]
           /\ \A u \in Users :
                 n_objects'[u] + Cardinality(Held(ownership_tree', u)) =
                 n_objects[u] + Cardinality(Held(ownership_tree, u))
<1>0. /\ ownership_tree \in [Owners -> SUBSET Names]
      /\ n_objects \in [Users -> Nat]
      /\ UserOf[o] \in Users
  <2>1. UserOf[o] \in Users
    BY NamesAssumption
  <2> QED BY <2>1 DEF NInv, NTypeOK
<1>1. /\ ownership_tree' \in [Owners -> SUBSET Names]
      /\ \A p \in Owners : ownership_tree'[p] =
            IF p = o THEN ownership_tree[p] \ {n} ELSE ownership_tree[p]
  BY <1>0
<1>2. \A u \in Users : n_objects'[u] = n_objects[u] + (IF u = UserOf[o] THEN 1 ELSE 0)
  BY <1>0
<1>3. n_objects' \in [Users -> Nat]
  BY <1>0
<1>4. ASSUME NEW u \in Users
      PROVE  n_objects'[u] + Cardinality(Held(ownership_tree', u)) =
             n_objects[u] + Cardinality(Held(ownership_tree, u))
  <2>0. Shrinks(ownership_tree, ownership_tree', o, n)
    BY <1>1 DEF Shrinks
  <2>1. Cardinality(Held(ownership_tree', u)) =
          Cardinality(Held(ownership_tree, u)) - (IF u = UserOf[o] THEN 1 ELSE 0)
    BY <2>0, HeldDrop
  <2>2. Cardinality(Held(ownership_tree, u)) \in Nat /\ n_objects[u] \in Nat
    BY <1>0, HeldFinite
  <2> QED BY <2>1, <2>2, <1>2
<1> QED BY <1>1, <1>3, <1>4

-----------------------------------------------------------------------------
(* Every action preserves NInv *)

\* name_ownership_update(), first branch: nobody owns the name.
LEMMA RequestUnownedStep ==
    ASSUME NInv, NEW o \in Owners, NEW n \in Names, NEW f \in SUBSET Flags,
           status[o] = "registered", UNCHANGED <<status, leaving>>,
           RequestUnowned(o, n, f)
    PROVE  NInv'
<1> DEFINE L == <<o>>
<1>0. NTypeOK /\ Linked /\ CountersExact /\ SignalsTruthful
  BY DEF NInv
<1>1. /\ L \in Seq(Owners)
      /\ IsInjective(L)
      /\ \A p : Occurs(L, p) <=> p = o
      /\ First(L) = o
      /\ L # <<>>
      /\ DOMAIN L = {1}
  BY DEF IsInjective, Occurs, First
<1> HIDE DEF L
<1>2. ownership_list[n] = <<>> /\ Primary(n) = None
  BY DEF RequestUnowned, Primary, First
<1>3. \A p \in Owners : n \notin ownership_tree[p]
  BY <1>0, <1>2 DEF Linked, IsLinked
<1>4. ownership_list' = [ownership_list EXCEPT ![n] = L]
  BY DEF RequestUnowned, L
<1>5. /\ ownership_tree' \in [Owners -> SUBSET Names]
      /\ \A p \in Owners : ownership_tree'[p] =
            IF p = o THEN ownership_tree[p] \cup {n} ELSE ownership_tree[p]
      /\ n_objects' \in [Users -> Nat]
      /\ \A u \in Users :
            n_objects'[u] + Cardinality(Held(ownership_tree', u)) =
            n_objects[u] + Cardinality(Held(ownership_tree, u))
  BY AcquireStep DEF RequestUnowned
<1>6. /\ \A p \in Owners : n \in ownership_tree'[p] <=> Occurs(L, p)
      /\ \A p \in Owners : \A m \in Names \ {n} :
            m \in ownership_tree'[p] <=> m \in ownership_tree[p]
  BY <1>1, <1>3, <1>5
<1>7. /\ SignalsTruthful'
      /\ announced' \in [Names -> Owners \cup {None}]
      /\ unique_names' \in SUBSET Owners
      /\ told' \in [Owners -> SUBSET Names]
  <2>1. NotifyChange(n, Primary(n), First(L))
    BY <1>1, <1>2 DEF RequestUnowned
  <2> QED BY <2>1, <1>0, <1>1, <1>4, NotifyStep
<1>8. /\ CountersExact'
      /\ n_primaries' \in Nat /\ n_primaries_peak' \in Nat
      /\ n_owner_primaries' \in [Owners -> Nat] /\ n_owner_primaries_peak' \in Nat
  <2>1. /\ n_primaries' = n_primaries + 1
        /\ n_primaries_peak' = Peak(n_primaries_peak, n_primaries + 1)
        /\ n_owner_primaries' = [n_owner_primaries EXCEPT ![o] = @ + 1]
        /\ n_owner_primaries_peak' =
               Peak(n_owner_primaries_peak, n_owner_primaries[o] + 1)
    BY DEF RequestUnowned
  <2>2. None \notin Owners
    BY NamesAssumption
  <2>3. \A p \in Owners : n_owner_primaries'[p] =
           IF p = o THEN n_owner_primaries[p] + 1 ELSE n_owner_primaries[p]
    BY <2>1, <1>0 DEF NTypeOK
  <2>4. n_primaries_peak' \in Nat /\ n_owner_primaries_peak' \in Nat
    BY <2>1, <1>0 DEF NTypeOK, Peak
  <2>5. /\ n_primaries_peak' >= n_primaries'
        /\ \A p \in Owners : n_owner_primaries_peak' >= n_owner_primaries'[p]
    BY <2>1, <2>3, <1>0 DEF NTypeOK, Peak, CountersExact
  <2>6. n_owner_primaries' \in [Owners -> Int]
    BY <2>1, <1>0 DEF NTypeOK
  <2>7. n_primaries' = IF ownership_list[n] = <<>> /\ L # <<>> THEN n_primaries + 1
                         ELSE IF ownership_list[n] # <<>> /\ L = <<>> THEN n_primaries - 1
                         ELSE n_primaries
    BY <2>1, <1>1, <1>2
  <2>8. \A p \in Owners : n_owner_primaries'[p] =
           IF Primary(n) # p /\ First(L) = p THEN n_owner_primaries[p] + 1
             ELSE IF Primary(n) = p /\ First(L) # p THEN n_owner_primaries[p] - 1
             ELSE n_owner_primaries[p]
    BY <2>2, <2>3, <1>1, <1>2
  <2> QED BY <2>4, <2>5, <2>6, <2>7, <2>8, <1>0, <1>1, <1>4, CountersStep
<1>9. /\ flags' \in [Names -> [Owners -> SUBSET Flags]]
      /\ \A m \in Names \ {n} : flags'[m] = flags[m]
  <2>1. flags' = [flags EXCEPT ![n][o] = f]
    BY DEF RequestUnowned
  <2> QED BY <2>1, <1>0 DEF NTypeOK
<1>10. \A i \in DOMAIN L : i > 1 => "DO_NOT_QUEUE" \notin flags'[n][L[i]]
  BY <1>1
<1>11. ListChange(n, L)
  BY <1>1, <1>4, <1>5, <1>6, <1>7, <1>8, <1>9, <1>10 DEF ListChange
<1> QED BY <1>11, ListStep

\* name_ownership_update(), second branch: the requester owns the name.
LEMMA RequestOwnedStep ==
    ASSUME NInv, NEW o \in Owners, NEW n \in Names, NEW f \in SUBSET Flags,
           status[o] = "registered", UNCHANGED <<status, leaving>>,
           RequestOwned(o, n, f)
    PROVE  NInv'
<1>0. NTypeOK /\ Linked /\ NobodyQueuedUnwillingly
  BY DEF NInv
<1>1. /\ flags' = [flags EXCEPT ![n][o] = f]
      /\ UNCHANGED <<ownership_list, ownership_tree, n_objects, counters, signals>>
      /\ Primary(n) = o
  BY DEF RequestOwned
<1>2. /\ flags' \in [Names -> [Owners -> SUBSET Flags]]
      /\ \A m \in Names : \A p \in Owners :
            m # n \/ p # o => flags'[m][p] = flags[m][p]
  BY <1>0, <1>1 DEF NTypeOK
<1>3. NTypeOK'
  BY <1>0, <1>1, <1>2 DEF NTypeOK, counters, signals
<1>4. NobodyQueuedUnwillingly'
  <2> SUFFICES ASSUME NEW m \in Names, NEW i \in DOMAIN ownership_list[m], i > 1
               PROVE  "DO_NOT_QUEUE" \notin flags'[m][ownership_list[m][i]]
    BY <1>1 DEF NobodyQueuedUnwillingly
  <2>1. /\ ownership_list[m] \in Seq(Owners)
        /\ ownership_list[m][i] \in Owners
        /\ IsInjective(ownership_list[m])
    BY <1>0 DEF NTypeOK, Linked
  <2>2. m = n => ownership_list[m][i] # o
    <3> SUFFICES ASSUME m = n, ownership_list[m][i] = o PROVE FALSE
      OBVIOUS
    <3>1. ownership_list[m] # <<>> /\ ownership_list[m][1] = o /\ 1 \in DOMAIN ownership_list[m]
      BY <1>1, <2>1, NamesAssumption DEF Primary, First
    <3> QED BY <3>1, <2>1 DEF IsInjective
  <2> QED BY <2>1, <2>2, <1>2, <1>0 DEF NobodyQueuedUnwillingly
<1>5. Linked' /\ OwnersRegistered'
  BY <1>1 DEF NInv, Linked, IsLinked, OwnersRegistered
<1>6. /\ OwnedNames' = OwnedNames
      /\ \A p : PrimariesOf(p)' = PrimariesOf(p)
      /\ \A m : Primary(m)' = Primary(m)
      /\ \A u : OwnershipsOf(u)' = OwnershipsOf(u)
  BY <1>1 DEF OwnedNames, PrimariesOf, Primary, OwnershipsOf
<1>7. CountersExact' /\ ChargesBalance' /\ SignalsTruthful'
  BY <1>1, <1>6 DEF NInv, CountersExact, ChargesBalance, SignalsTruthful, counters, signals
<1> QED BY <1>3, <1>4, <1>5, <1>7 DEF NInv

\* The head of a list that is not empty.
LEMMA HeadProps ==
    ASSUME NTypeOK, Linked, NEW n \in Names
    PROVE  /\ ownership_list[n] \in Seq(Owners)
           /\ IsInjective(ownership_list[n])
           /\ \A p \in Owners : n \in ownership_tree[p] <=> Occurs(ownership_list[n], p)
           /\ Primary(n) = None <=> ownership_list[n] = <<>>
           /\ Primary(n) # None => /\ 1 \in DOMAIN ownership_list[n]
                                   /\ ownership_list[n][1] = Primary(n)
                                   /\ Primary(n) \in Owners
<1>1. ownership_list[n] \in Seq(Owners) /\ IsInjective(ownership_list[n])
  BY DEF NTypeOK, Linked
<1>2. \A p \in Owners : n \in ownership_tree[p] <=> Occurs(ownership_list[n], p)
  BY DEF Linked, IsLinked, Occurs
<1>3. ownership_list[n] # <<>> => 1 \in DOMAIN ownership_list[n]
                                  /\ ownership_list[n][1] \in Owners
  BY <1>1
<1> QED BY <1>1, <1>2, <1>3, NamesAssumption DEF Primary, First

\* A request or release that leaves the primary owner alone, in terms of the
\* new list L; only the flags of o may change.
QuietList(n, L, o, g) ==
    /\ n \in Names /\ L \in Seq(Owners) /\ o \in Owners /\ g \in SUBSET Flags
    /\ ownership_list' = [ownership_list EXCEPT ![n] = L]
    /\ UNCHANGED <<status, leaving, counters, signals>>
    /\ First(L) = Primary(n)
    /\ flags' = [flags EXCEPT ![n][o] = g]
    /\ "DO_NOT_QUEUE" \notin g
    /\ \A i \in DOMAIN L : i > 1 => L[i] = o \/ \E j \in DOMAIN ownership_list[n] :
                                       j >= i /\ L[i] = ownership_list[n][j]

\* A change of the list behind its head preserves what NobodyQueuedUnwillingly
\* and SignalsTruthful say of it.
LEMMA QuietChange ==
    ASSUME NInv, NEW n, NEW L, NEW o, NEW g, QuietList(n, L, o, g)
    PROVE  /\ SignalsTruthful' /\ CountersExact'
           /\ n_primaries' \in Nat /\ n_primaries_peak' \in Nat
           /\ n_owner_primaries' \in [Owners -> Nat] /\ n_owner_primaries_peak' \in Nat
           /\ announced' \in [Names -> Owners \cup {None}]
           /\ unique_names' \in SUBSET Owners
           /\ told' \in [Owners -> SUBSET Names]
           /\ flags' \in [Names -> [Owners -> SUBSET Flags]]
           /\ \A m \in Names \ {n} : flags'[m] = flags[m]
           /\ \A i \in DOMAIN L : i > 1 => "DO_NOT_QUEUE" \notin flags'[n][L[i]]
<1> USE DEF QuietList
<1>0. NTypeOK /\ Linked /\ NobodyQueuedUnwillingly /\ CountersExact /\ SignalsTruthful
  BY DEF NInv
<1>1. SignalsTruthful' /\ CountersExact'
  BY <1>0, QuietStep
<1>2. /\ n_primaries' \in Nat /\ n_primaries_peak' \in Nat
      /\ n_owner_primaries' \in [Owners -> Nat] /\ n_owner_primaries_peak' \in Nat
      /\ announced' \in [Names -> Owners \cup {None}]
      /\ unique_names' \in SUBSET Owners
      /\ told' \in [Owners -> SUBSET Names]
  BY <1>0 DEF NTypeOK, counters, signals
<1>3. /\ flags' \in [Names -> [Owners -> SUBSET Flags]]
      /\ \A m \in Names \ {n} : flags'[m] = flags[m]
      /\ \A p \in Owners : flags'[n][p] = IF p = o THEN g ELSE flags[n][p]
  BY <1>0 DEF NTypeOK
<1>4. ASSUME NEW i \in DOMAIN L, i > 1
      PROVE  "DO_NOT_QUEUE" \notin flags'[n][L[i]]
  <2>1. L[i] \in Owners /\ i \in Nat
    OBVIOUS
  <2>2. CASE L[i] = o
    BY <2>1, <2>2, <1>3
  <2>3. CASE L[i] # o
    <3>1. PICK j \in DOMAIN ownership_list[n] : j >= i /\ L[i] = ownership_list[n][j]
      BY <2>3, <1>4
    <3>2. j > 1
      BY <3>1, <2>1, <1>4, <1>0 DEF NTypeOK
    <3>3. "DO_NOT_QUEUE" \notin flags[n][L[i]]
      BY <3>1, <3>2, <1>0 DEF NobodyQueuedUnwillingly
    <3> QED BY <3>3, <2>1, <2>3, <1>3
  <2> QED BY <2>2, <2>3
<1> QED BY <1>1, <1>2, <1>3, <1>4

\* name_ownership_update(), fourth branch: the requester waits in line.
LEMMA RequestQueueStep ==
    ASSUME NInv, NEW o \in Owners, NEW n \in Names, NEW f \in SUBSET Flags,
           status[o] = "registered", UNCHANGED <<status, leaving>>,
           RequestQueue(o, n, f)
    PROVE  NInv'
<1> DEFINE s == ownership_list[n]
           L == IF IsLinked(o, n) THEN s ELSE Append(s, o)
<1>0. NTypeOK /\ Linked /\ OwnersRegistered
  BY DEF NInv
<1>1. /\ s \in Seq(Owners) /\ IsInjective(s) /\ s # <<>>
      /\ \A p \in Owners : n \in ownership_tree[p] <=> Occurs(s, p)
      /\ s[1] = Primary(n)
  <2>1. Primary(n) # None
    BY DEF RequestQueue
  <2> QED BY <1>0, <2>1, HeadProps
<1>2. /\ L \in Seq(Owners) /\ IsInjective(L) /\ First(L) = Primary(n)
      /\ \A p \in Owners : Occurs(L, p) <=> p = o \/ Occurs(s, p)
      /\ \A i \in DOMAIN L : L[i] = o \/ (i \in DOMAIN s /\ L[i] = s[i])
  <2>1. CASE IsLinked(o, n)
    <3>1. L = s /\ Occurs(s, o)
      BY <2>1 DEF IsLinked, Occurs
    <3> HIDE DEF s, L
    <3> QED BY <3>1, <1>1 DEF First
  <2>2. CASE ~IsLinked(o, n)
    <3>1. L = Append(s, o) /\ ~Occurs(s, o)
      BY <2>2 DEF IsLinked, Occurs
    <3> HIDE DEF s, L
    <3>2. LET t == Append(s, o)
          IN  /\ t \in Seq(Owners)
              /\ t # <<>>
              /\ t[1] = s[1]
              /\ IsInjective(t)
              /\ \A p : Occurs(t, p) <=> (p = o \/ Occurs(s, p))
              /\ \A i \in DOMAIN t : t[i] = o \/ (i \in DOMAIN s /\ t[i] = s[i])
      BY <3>1, <1>1, AppendPropsOwner
    <3> QED BY <3>1, <3>2, <1>1 DEF First
  <2> QED BY <2>1, <2>2
<1>3. ownership_list' = [ownership_list EXCEPT ![n] = L]
      /\ flags' = [flags EXCEPT ![n][o] = f]
      /\ "DO_NOT_QUEUE" \notin f
      /\ UNCHANGED <<counters, signals>>
  BY DEF RequestQueue
<1>4. /\ ownership_tree' \in [Owners -> SUBSET Names]
      /\ \A p \in Owners : ownership_tree'[p] =
            IF p = o THEN ownership_tree[p] \cup {n} ELSE ownership_tree[p]
      /\ n_objects' \in [Users -> Nat]
      /\ \A u \in Users :
            n_objects'[u] + Cardinality(Held(ownership_tree', u)) =
            n_objects[u] + Cardinality(Held(ownership_tree, u))
  BY AcquireStep DEF RequestQueue
<1> HIDE DEF L
<1>5. \A i \in DOMAIN L : i > 1 => L[i] = o \/ \E j \in DOMAIN ownership_list[n] :
                                     j >= i /\ L[i] = ownership_list[n][j]
  BY <1>2
<1> HIDE DEF s
<1>6. /\ SignalsTruthful' /\ CountersExact'
      /\ n_primaries' \in Nat /\ n_primaries_peak' \in Nat
      /\ n_owner_primaries' \in [Owners -> Nat] /\ n_owner_primaries_peak' \in Nat
      /\ announced' \in [Names -> Owners \cup {None}]
      /\ unique_names' \in SUBSET Owners
      /\ told' \in [Owners -> SUBSET Names]
      /\ flags' \in [Names -> [Owners -> SUBSET Flags]]
      /\ \A m \in Names \ {n} : flags'[m] = flags[m]
      /\ \A i \in DOMAIN L : i > 1 => "DO_NOT_QUEUE" \notin flags'[n][L[i]]
  <2>1. QuietList(n, L, o, f)
    BY <1>2, <1>3, <1>5 DEF QuietList
  <2> QED BY <2>1, QuietChange
<1>7. \A p \in Owners : Occurs(L, p) => status[p] = "registered"
  BY <1>0, <1>1, <1>2 DEF OwnersRegistered
<1>8. /\ \A p \in Owners : n \in ownership_tree'[p] <=> Occurs(L, p)
      /\ \A p \in Owners : \A m \in Names \ {n} :
            m \in ownership_tree'[p] <=> m \in ownership_tree[p]
  BY <1>1, <1>2, <1>4
<1>9. ListChange(n, L)
  BY <1>2, <1>3, <1>4, <1>6, <1>7, <1>8 DEF ListChange
<1> QED BY <1>9, ListStep

\* name_ownership_update(), last branch: the requester leaves the line.
LEMMA RequestRefusedStep ==
    ASSUME NInv, NEW o \in Owners, NEW n \in Names, NEW f \in SUBSET Flags,
           status[o] = "registered", UNCHANGED <<status, leaving>>,
           RequestRefused(o, n, f)
    PROVE  NInv'
<1> DEFINE s == ownership_list[n]
           L == Unlink(s, o)
<1>0. NTypeOK /\ Linked /\ OwnersRegistered
  BY DEF NInv
<1>1. /\ s \in Seq(Owners) /\ IsInjective(s) /\ s # <<>>
      /\ \A p \in Owners : n \in ownership_tree[p] <=> Occurs(s, p)
      /\ s[1] = Primary(n) /\ s[1] # o
  <2>1. Primary(n) # None /\ Primary(n) # o
    BY DEF RequestRefused
  <2> QED BY <1>0, <2>1, HeadProps
<1>2. /\ ownership_list' = [ownership_list EXCEPT ![n] = L]
      /\ flags' = [flags EXCEPT ![n][o] = {}]
      /\ UNCHANGED <<counters, signals>>
      /\ ownership_tree' = [ownership_tree EXCEPT ![o] = @ \ {n}]
      /\ n_objects' = IF n \in ownership_tree[o]
                      THEN [n_objects EXCEPT ![UserOf[o]] = @ + 1]
                      ELSE n_objects
  BY DEF RequestRefused
<1> HIDE DEF s, L
<1>3. /\ L \in Seq(Owners) /\ IsInjective(L)
      /\ \A p : Occurs(L, p) <=> p # o /\ Occurs(s, p)
      /\ L # <<>> /\ L[1] = s[1]
      /\ \A i \in DOMAIN L : \E j \in DOMAIN s : L[i] = s[j] /\ j >= i
  BY <1>1, UnlinkProps DEF L
<1>4. /\ ownership_tree' \in [Owners -> SUBSET Names]
      /\ \A p \in Owners : ownership_tree'[p] =
            IF p = o THEN ownership_tree[p] \ {n} ELSE ownership_tree[p]
      /\ n_objects' \in [Users -> Nat]
      /\ \A u \in Users :
            n_objects'[u] + Cardinality(Held(ownership_tree', u)) =
            n_objects[u] + Cardinality(Held(ownership_tree, u))
  <2>1. CASE n \in ownership_tree[o]
    BY <2>1, <1>2, FreeStep
  <2>2. CASE n \notin ownership_tree[o]
    <3>1. ownership_tree' = ownership_tree /\ n_objects' = n_objects
      BY <2>2, <1>0, <1>2 DEF NTypeOK
    <3> QED BY <3>1, <2>2, <1>0 DEF NTypeOK
  <2> QED BY <2>1, <2>2
<1>5. /\ SignalsTruthful' /\ CountersExact'
      /\ n_primaries' \in Nat /\ n_primaries_peak' \in Nat
      /\ n_owner_primaries' \in [Owners -> Nat] /\ n_owner_primaries_peak' \in Nat
      /\ announced' \in [Names -> Owners \cup {None}]
      /\ unique_names' \in SUBSET Owners
      /\ told' \in [Owners -> SUBSET Names]
      /\ flags' \in [Names -> [Owners -> SUBSET Flags]]
      /\ \A m \in Names \ {n} : flags'[m] = flags[m]
      /\ \A i \in DOMAIN L : i > 1 => "DO_NOT_QUEUE" \notin flags'[n][L[i]]
  <2>1. First(L) = Primary(n)
    BY <1>1, <1>3 DEF First
  <2>2. QuietList(n, L, o, {})
    BY <2>1, <1>2, <1>3 DEF QuietList, s
  <2> QED BY <2>2, QuietChange
<1>6. \A p \in Owners : Occurs(L, p) => status[p] = "registered"
  BY <1>0, <1>1, <1>3 DEF OwnersRegistered
<1>7. /\ \A p \in Owners : n \in ownership_tree'[p] <=> Occurs(L, p)
      /\ \A p \in Owners : \A m \in Names \ {n} :
            m \in ownership_tree'[p] <=> m \in ownership_tree[p]
  BY <1>1, <1>3, <1>4
<1>8. ListChange(n, L)
  BY <1>2, <1>3, <1>4, <1>5, <1>6, <1>7 DEF ListChange
<1> QED BY <1>8, ListStep

\* name_ownership_release(), of a primary owner or of one that waits.
LEMMA ReleaseStep ==
    ASSUME NInv, NEW o \in Owners, NEW n \in Names,
           UNCHANGED <<status, leaving>>, ReleaseOwnership(o, n)
    PROVE  NInv'
<1> DEFINE s == ownership_list[n]
           L == Unlink(s, o)
<1>0. NTypeOK /\ Linked /\ OwnersRegistered /\ CountersExact /\ SignalsTruthful
      /\ NobodyQueuedUnwillingly
  BY DEF NInv
<1>1. /\ ownership_list' = [ownership_list EXCEPT ![n] = L]
      /\ flags' = [flags EXCEPT ![n][o] = {}]
      /\ n \in ownership_tree[o]
      /\ ownership_tree' = [ownership_tree EXCEPT ![o] = @ \ {n}]
      /\ n_objects' = [n_objects EXCEPT ![UserOf[o]] = @ + 1]
  BY DEF ReleaseOwnership
<1>2. /\ s \in Seq(Owners) /\ IsInjective(s)
      /\ \A p \in Owners : n \in ownership_tree[p] <=> Occurs(s, p)
  BY <1>0, HeadProps
<1>3. s # <<>> /\ s[1] = Primary(n) /\ Primary(n) # None
  <2>1. s # <<>>
    BY <1>1, <1>2 DEF Occurs
  <2> QED BY <1>0, <2>1, HeadProps
<1> HIDE DEF s, L
<1>4. /\ L \in Seq(Owners) /\ IsInjective(L)
      /\ \A p : Occurs(L, p) <=> p # o /\ Occurs(s, p)
      /\ s # <<>> /\ s[1] # o => L # <<>> /\ L[1] = s[1]
      /\ \A i \in DOMAIN L : \E j \in DOMAIN s : L[i] = s[j] /\ j >= i
  BY <1>2, UnlinkProps DEF L
<1>5. /\ ownership_tree' \in [Owners -> SUBSET Names]
      /\ \A p \in Owners : ownership_tree'[p] =
            IF p = o THEN ownership_tree[p] \ {n} ELSE ownership_tree[p]
      /\ n_objects' \in [Users -> Nat]
      /\ \A u \in Users :
            n_objects'[u] + Cardinality(Held(ownership_tree', u)) =
            n_objects[u] + Cardinality(Held(ownership_tree, u))
  BY <1>1, FreeStep
<1>6. \A p \in Owners : Occurs(L, p) => status[p] = "registered"
  BY <1>0, <1>2, <1>4 DEF OwnersRegistered
<1>7. /\ \A p \in Owners : n \in ownership_tree'[p] <=> Occurs(L, p)
      /\ \A p \in Owners : \A m \in Names \ {n} :
            m \in ownership_tree'[p] <=> m \in ownership_tree[p]
  BY <1>2, <1>4, <1>5
<1>8. CASE Primary(n) # o
  <2>1. First(L) = Primary(n)
    BY <1>3, <1>4, <1>8 DEF First
  <2>2. UNCHANGED <<counters, signals>>
    BY <1>8 DEF ReleaseOwnership, counters
  <2>3. QuietList(n, L, o, {})
    BY <2>1, <2>2, <1>1, <1>4 DEF QuietList, s
  <2>4. /\ SignalsTruthful' /\ CountersExact'
        /\ n_primaries' \in Nat /\ n_primaries_peak' \in Nat
        /\ n_owner_primaries' \in [Owners -> Nat] /\ n_owner_primaries_peak' \in Nat
        /\ announced' \in [Names -> Owners \cup {None}]
        /\ unique_names' \in SUBSET Owners
        /\ told' \in [Owners -> SUBSET Names]
        /\ flags' \in [Names -> [Owners -> SUBSET Flags]]
        /\ \A m \in Names \ {n} : flags'[m] = flags[m]
        /\ \A i \in DOMAIN L : i > 1 => "DO_NOT_QUEUE" \notin flags'[n][L[i]]
    BY <2>3, QuietChange
  <2>5. ListChange(n, L)
    BY <2>4, <1>1, <1>4, <1>5, <1>6, <1>7 DEF ListChange
  <2> QED BY <2>5, ListStep
<1>9. CASE Primary(n) = o
  <2> DEFINE new == First(L)
  <2>1. /\ new = None <=> L = <<>>
        /\ new # None => new \in Owners /\ new # o
    <3>0. ~Occurs(L, o)
      BY <1>4
    <3>1. L # <<>> => L[1] \in Owners /\ L[1] # o
      BY <3>0, <1>4 DEF Occurs
    <3> QED BY <3>1, NamesAssumption DEF First
  <2>2. /\ n_primaries_peak' = n_primaries_peak
        /\ n_primaries' = IF new = None THEN n_primaries - 1 ELSE n_primaries
        /\ n_owner_primaries' = [p \in Owners |->
              CASE p = o   -> n_owner_primaries[p] - 1
                [] p = new -> n_owner_primaries[p] + 1
                [] OTHER   -> n_owner_primaries[p]]
        /\ n_owner_primaries_peak' =
              IF new = None THEN n_owner_primaries_peak
              ELSE Peak(n_owner_primaries_peak, n_owner_primaries[new] + 1)
        /\ NotifyChange(n, o, new)
    BY <1>9 DEF ReleaseOwnership, L, s
  <2> HIDE DEF new
  <2>3. NotifyChange(n, Primary(n), First(L))
    BY <2>2, <1>9 DEF new
  <2>4. /\ SignalsTruthful'
        /\ announced' \in [Names -> Owners \cup {None}]
        /\ unique_names' \in SUBSET Owners
        /\ told' \in [Owners -> SUBSET Names]
    BY <2>3, <1>0, <1>1, <1>4, NotifyStep
  <2>5. ASSUME NEW p \in Owners
        PROVE  n_owner_primaries'[p] =
                 IF p = o THEN n_owner_primaries[p] - 1
                 ELSE IF p = new THEN n_owner_primaries[p] + 1
                 ELSE n_owner_primaries[p]
    <3>1. n_owner_primaries'[p] = CASE p = o   -> n_owner_primaries[p] - 1
                                    [] p = new -> n_owner_primaries[p] + 1
                                    [] OTHER   -> n_owner_primaries[p]
      BY <2>2
    <3>2. o # new
      BY <2>1, NamesAssumption
    <3>3. CASE p = o
      BY <3>1, <3>2, <3>3
    <3>4. CASE p = new
      BY <3>1, <3>2, <3>4
    <3>5. CASE p # o /\ p # new
      BY <3>1, <3>5
    <3> QED BY <3>2, <3>3, <3>4, <3>5
  <2>6. /\ n_primaries \in Nat /\ n_primaries_peak \in Nat
        /\ n_owner_primaries_peak \in Nat
        /\ n_primaries_peak >= n_primaries
        /\ \A p \in Owners : n_owner_primaries[p] \in Nat
                             /\ n_owner_primaries_peak >= n_owner_primaries[p]
    BY <1>0 DEF NTypeOK, CountersExact
  <2>7. n_primaries_peak' \in Nat /\ n_primaries_peak' >= n_primaries'
    BY <2>2, <2>6
  <2>8. /\ n_owner_primaries_peak' \in Nat
        /\ n_owner_primaries_peak' >= n_owner_primaries_peak
        /\ new # None => n_owner_primaries_peak' >= n_owner_primaries[new] + 1
    BY <2>1, <2>2, <2>6 DEF Peak
  <2>9. ASSUME NEW p \in Owners
        PROVE  n_owner_primaries_peak' >= n_owner_primaries'[p]
    <3>1. n_owner_primaries[p] \in Nat
          /\ n_owner_primaries_peak \in Nat
          /\ n_owner_primaries_peak >= n_owner_primaries[p]
      BY <2>6
    <3>2. p # None
      BY NamesAssumption
    <3> QED BY <3>1, <3>2, <2>5, <2>8
  <2>10. n_owner_primaries' \in [Owners -> Int]
    <3>1. \A p \in Owners : n_owner_primaries'[p] \in Int
      BY <2>5, <2>6
    <3> QED BY <3>1, <2>2
  <2>11. n_primaries' = IF ownership_list[n] = <<>> /\ L # <<>> THEN n_primaries + 1
                        ELSE IF ownership_list[n] # <<>> /\ L = <<>> THEN n_primaries - 1
                        ELSE n_primaries
    BY <2>1, <2>2, <1>3 DEF s
  <2>12. \A p \in Owners : n_owner_primaries'[p] =
            IF Primary(n) # p /\ First(L) = p THEN n_owner_primaries[p] + 1
            ELSE IF Primary(n) = p /\ First(L) # p THEN n_owner_primaries[p] - 1
            ELSE n_owner_primaries[p]
    <3>1. None \notin Owners
      BY NamesAssumption
    <3> QED BY <3>1, <2>1, <2>5, <1>9 DEF new
  <2>13. /\ CountersExact'
         /\ n_primaries' \in Nat
         /\ n_owner_primaries' \in [Owners -> Nat]
    BY <2>7, <2>8, <2>9, <2>10, <2>11, <2>12, <1>0, <1>1, <1>4, CountersStep
  <2>14. /\ flags' \in [Names -> [Owners -> SUBSET Flags]]
         /\ \A m \in Names \ {n} : flags'[m] = flags[m]
         /\ \A p \in Owners : p # o => flags'[n][p] = flags[n][p]
    BY <1>0, <1>1 DEF NTypeOK
  <2>15. ASSUME NEW i \in DOMAIN L, i > 1
         PROVE  "DO_NOT_QUEUE" \notin flags'[n][L[i]]
    <3>1. L[i] # o /\ L[i] \in Owners /\ i \in Nat
      <4>1. ~Occurs(L, o)
        BY <1>4
      <4> QED BY <4>1, <1>4 DEF Occurs
    <3>2. PICK j \in DOMAIN s : L[i] = s[j] /\ j >= i
      BY <1>4
    <3>3. j > 1
      BY <3>1, <3>2, <2>15, <1>2
    <3> QED BY <3>1, <3>2, <3>3, <2>14, <1>0 DEF NobodyQueuedUnwillingly, s
  <2>16. ListChange(n, L)
    BY <2>4, <2>7, <2>8, <2>13, <2>14, <2>15, <1>1, <1>4, <1>5, <1>6, <1>7 DEF ListChange
  <2> QED BY <2>16, ListStep
<1> QED BY <1>8, <1>9

\* name_ownership_update(), third branch: the primary owner is replaced, and
\* its ownership stays next in line or is freed.
LEMMA RequestReplaceStep ==
    ASSUME NInv, NEW o \in Owners, NEW n \in Names, NEW f \in SUBSET Flags,
           status[o] = "registered", UNCHANGED <<status, leaving>>,
           RequestReplace(o, n, f)
    PROVE  NInv'
<1> DEFINE s == ownership_list[n]
           old == Primary(n)
           drop == WontQueue(old, n)
           rest == Unlink(s, o)
           tail == IF drop THEN Unlink(rest, old) ELSE rest
           L == <<o>> \o tail
<1>0. NTypeOK /\ Linked /\ OwnersRegistered /\ CountersExact /\ SignalsTruthful
      /\ NobodyQueuedUnwillingly
  BY DEF NInv
<1>1. /\ s \in Seq(Owners) /\ IsInjective(s) /\ s # <<>>
      /\ \A p \in Owners : n \in ownership_tree[p] <=> Occurs(s, p)
      /\ 1 \in DOMAIN s /\ s[1] = old /\ old # o /\ old \in Owners /\ old # None
  <2>1. Primary(n) # None /\ Primary(n) # o
    BY DEF RequestReplace, Replaces
  <2> QED BY <1>0, <2>1, HeadProps
<1>2. /\ ownership_list' = [ownership_list EXCEPT ![n] = L]
      /\ CanOwn(o, n)
      /\ flags' = [flags EXCEPT ![n] =
                     [p \in Owners |-> IF p = o THEN f
                                       ELSE IF p = old /\ drop THEN {}
                                       ELSE @[p]]]
      /\ ownership_tree' = [p \in Owners |->
                              IF p = o THEN ownership_tree[p] \cup {n}
                              ELSE IF p = old /\ drop
                                   THEN ownership_tree[p] \ {n}
                                   ELSE ownership_tree[p]]
      /\ n_objects' = [u \in Users |->
                         n_objects[u]
                         - (IF u = UserOf[o] /\ n \notin ownership_tree[o]
                            THEN 1 ELSE 0)
                         + (IF u = UserOf[old] /\ drop THEN 1 ELSE 0)]
      /\ n_owner_primaries' = [n_owner_primaries EXCEPT ![old] = @ - 1,
                                                        ![o] = @ + 1]
      /\ n_owner_primaries_peak' =
             Peak(n_owner_primaries_peak, n_owner_primaries[o] + 1)
      /\ UNCHANGED <<n_primaries, n_primaries_peak>>
      /\ NotifyChange(n, old, o)
  BY DEF RequestReplace
<1>3. flags[n][old] \in SUBSET Flags /\ Occurs(s, old)
  BY <1>0, <1>1 DEF NTypeOK, Occurs
<1> HIDE DEF s, old, drop, rest, tail, L
<1>4. /\ rest \in Seq(Owners) /\ IsInjective(rest)
      /\ \A p : Occurs(rest, p) <=> p # o /\ Occurs(s, p)
  BY <1>1, UnlinkProps DEF rest
<1>5. /\ tail \in Seq(Owners) /\ IsInjective(tail)
      /\ \A p : Occurs(tail, p) <=> p # o /\ Occurs(s, p) /\ ~(drop /\ p = old)
  <2>1. CASE drop
    <3>1. LET t == Unlink(rest, old)
          IN  /\ t \in Seq(Owners) /\ IsInjective(t)
              /\ \A p : Occurs(t, p) <=> p # old /\ Occurs(rest, p)
      BY <1>4, UnlinkProps
    <3>2. tail = Unlink(rest, old)
      BY <2>1 DEF tail
    <3> QED BY <3>1, <3>2, <2>1, <1>4
  <2>2. CASE ~drop
    <3>1. tail = rest
      BY <2>2 DEF tail
    <3> QED BY <3>1, <2>2, <1>4
  <2> QED BY <2>1, <2>2
<1>6. /\ L \in Seq(Owners) /\ L # <<>> /\ L[1] = o /\ IsInjective(L)
      /\ \A p : Occurs(L, p) <=> (p = o \/ Occurs(tail, p))
      /\ \A i \in DOMAIN L : i > 1 => i - 1 \in DOMAIN tail /\ L[i] = tail[i - 1]
  <2>1. ~Occurs(tail, o)
    BY <1>5
  <2> QED BY <2>1, <1>5, ConsProps DEF L
<1>7. First(L) = o
  BY <1>6 DEF First
<1>8. /\ ownership_tree' \in [Owners -> SUBSET Names]
      /\ \A p \in Owners : ownership_tree'[p] =
            IF p = o THEN ownership_tree[p] \cup {n}
            ELSE IF p = old /\ drop THEN ownership_tree[p] \ {n}
            ELSE ownership_tree[p]
  BY <1>0, <1>2 DEF NTypeOK
<1>9. \A p \in Owners : n \in ownership_tree'[p] <=> Occurs(L, p)
  BY <1>1, <1>5, <1>6, <1>8
<1>10. \A p \in Owners : \A m \in Names \ {n} :
          m \in ownership_tree'[p] <=> m \in ownership_tree[p]
  BY <1>8
<1>11. \A p \in Owners : Occurs(L, p) => status[p] = "registered"
  BY <1>0, <1>1, <1>5, <1>6 DEF OwnersRegistered
<1>12. /\ SignalsTruthful'
       /\ announced' \in [Names -> Owners \cup {None}]
       /\ unique_names' \in SUBSET Owners
       /\ told' \in [Owners -> SUBSET Names]
  <2>1. NotifyChange(n, Primary(n), First(L))
    BY <1>2, <1>7 DEF old
  <2> QED BY <2>1, <1>0, <1>2, <1>6, NotifyStep
<1>13. /\ flags' \in [Names -> [Owners -> SUBSET Flags]]
       /\ \A m \in Names \ {n} : flags'[m] = flags[m]
       /\ \A p \in Owners \ {o} : flags'[n][p] =
             IF p = old /\ drop THEN {} ELSE flags[n][p]
  <2>1. flags \in [Names -> [Owners -> SUBSET Flags]]
    BY <1>0 DEF NTypeOK
  <2> DEFINE g == [p \in Owners |-> IF p = o THEN f
                                   ELSE IF p = old /\ drop THEN {}
                                   ELSE flags[n][p]]
  <2>2. /\ g \in [Owners -> SUBSET Flags]
        /\ \A p \in Owners \ {o} : g[p] = IF p = old /\ drop THEN {} ELSE flags[n][p]
    BY <2>1, <1>1
  <2>3. flags' = [flags EXCEPT ![n] = g]
    BY <1>2
  <2> HIDE DEF g
  <2> QED BY <2>1, <2>2, <2>3
<1>14. ASSUME NEW i \in DOMAIN L, i > 1
       PROVE  "DO_NOT_QUEUE" \notin flags'[n][L[i]]
  <2>1. Occurs(tail, L[i]) /\ L[i] \in Owners
    BY <1>6, <1>14 DEF Occurs
  <2>2. L[i] # o /\ Occurs(s, L[i]) /\ ~(drop /\ L[i] = old)
    BY <2>1, <1>5
  <2>3. flags'[n][L[i]] = flags[n][L[i]]
    BY <2>1, <2>2, <1>13
  <2>4. CASE L[i] = old
    BY <2>2, <2>3, <2>4 DEF drop, WontQueue
  <2>5. CASE L[i] # old
    <3>1. PICK j \in DOMAIN s : s[j] = L[i]
      BY <2>2 DEF Occurs
    <3>2. j > 1
      BY <3>1, <2>5, <1>1
    <3> QED BY <3>1, <3>2, <2>3, <1>0 DEF NobodyQueuedUnwillingly, s
  <2> QED BY <2>4, <2>5
<1>15. /\ n_objects' \in [Users -> Nat]
       /\ \A u \in Users :
             n_objects'[u] + Cardinality(Held(ownership_tree', u)) =
             n_objects[u] + Cardinality(Held(ownership_tree, u))
  <2> DEFINE mid == [p \in Owners |-> IF p = o THEN ownership_tree[p] \cup {n}
                                      ELSE ownership_tree[p]]
  <2>1. \A p \in Owners : mid[p] = IF p = o THEN ownership_tree[p] \cup {n}
                                   ELSE ownership_tree[p]
    OBVIOUS
  <2>2. mid = ownership_tree \/ n \notin ownership_tree[o]
    BY <1>0 DEF NTypeOK
  <2>3. ownership_tree' = mid \/ drop
    BY <1>2
  <2> HIDE DEF mid
  <2>4. UserOf[o] \in Users /\ UserOf[old] \in Users
    BY <1>1, NamesAssumption
  <2>5. ASSUME NEW u \in Users
        PROVE  /\ n_objects'[u] \in Nat
               /\ n_objects'[u] + Cardinality(Held(ownership_tree', u)) =
                  n_objects[u] + Cardinality(Held(ownership_tree, u))
    <3> DEFINE a == IF u = UserOf[o] /\ n \notin ownership_tree[o] THEN 1 ELSE 0
               b == IF u = UserOf[old] /\ drop THEN 1 ELSE 0
               c0 == Cardinality(Held(ownership_tree, u))
               c1 == Cardinality(Held(mid, u))
               c2 == Cardinality(Held(ownership_tree', u))
    <3>1. n_objects'[u] = n_objects[u] - a + b
      BY <1>2
    <3>2. n_objects[u] \in Nat /\ n_objects[UserOf[o]] \in Nat
      BY <2>4, <1>0 DEF NTypeOK
    <3>3. n_objects[u] >= a /\ a \in Nat /\ b \in Nat
      BY <3>2, <1>2 DEF CanOwn
    <3>4. c1 = c0 + a
      <4>1. CASE n \notin ownership_tree[o]
        <5>1. Grows(ownership_tree, mid, o, n)
          BY <4>1, <2>1 DEF Grows
        <5>2. c1 = c0 + (IF u = UserOf[o] THEN 1 ELSE 0)
          BY <5>1, HeldAdd
        <5> QED BY <5>2, <4>1
      <4>2. CASE n \in ownership_tree[o]
        <5>1. c1 = c0 /\ a = 0
          BY <4>2, <2>2
        <5>2. c0 \in Nat
          BY HeldFinite
        <5> QED BY <5>1, <5>2
      <4> QED BY <4>1, <4>2
    <3>5. c2 = c1 - b
      <4>1. CASE drop
        <5>1. Shrinks(mid, ownership_tree', old, n)
          BY <4>1, <2>1, <1>1, <1>3, <1>8 DEF Shrinks
        <5>2. c2 = c1 - (IF u = UserOf[old] THEN 1 ELSE 0)
          BY <5>1, HeldDrop
        <5> QED BY <5>2, <4>1
      <4>2. CASE ~drop
        <5>1. c2 = c1 /\ b = 0
          BY <4>2, <2>3
        <5>2. c1 \in Nat
          BY HeldFinite
        <5> QED BY <5>1, <5>2
      <4> QED BY <4>1, <4>2
    <3>6. c0 \in Nat
      BY HeldFinite
    <3> HIDE DEF a, b, c0, c1, c2
    <3>7. n_objects'[u] \in Nat /\ n_objects'[u] + c2 = n_objects[u] + c0
      BY <3>1, <3>2, <3>3, <3>4, <3>5, <3>6
    <3> QED BY <3>7 DEF c0, c2
  <2>6. n_objects' \in [Users -> Nat]
    BY <2>5, <1>2
  <2> QED BY <2>5, <2>6
<1>16. /\ CountersExact'
       /\ n_primaries' \in Nat /\ n_primaries_peak' \in Nat
       /\ n_owner_primaries' \in [Owners -> Nat] /\ n_owner_primaries_peak' \in Nat
  <2>1. /\ n_primaries \in Nat /\ n_primaries_peak \in Nat
        /\ n_owner_primaries \in [Owners -> Nat]
        /\ n_owner_primaries_peak \in Nat
        /\ n_primaries_peak >= n_primaries
        /\ \A p \in Owners : n_owner_primaries_peak >= n_owner_primaries[p]
    BY <1>0 DEF NTypeOK, CountersExact
  <2>2. \A p \in Owners : n_owner_primaries'[p] =
           IF p = o THEN n_owner_primaries[p] + 1
           ELSE IF p = old THEN n_owner_primaries[p] - 1
           ELSE n_owner_primaries[p]
    BY <2>1, <1>1, <1>2
  <2>3. n_primaries_peak' \in Nat /\ n_primaries_peak' >= n_primaries'
    BY <2>1, <1>2
  <2>4. /\ n_owner_primaries_peak' \in Nat
        /\ n_owner_primaries_peak' >= n_owner_primaries_peak
        /\ n_owner_primaries_peak' >= n_owner_primaries[o] + 1
    BY <2>1, <1>2 DEF Peak
  <2>5. ASSUME NEW p \in Owners
        PROVE  n_owner_primaries_peak' >= n_owner_primaries'[p]
               /\ n_owner_primaries'[p] \in Int
    <3>1. n_owner_primaries[p] \in Nat /\ n_owner_primaries_peak >= n_owner_primaries[p]
      BY <2>1
    <3> QED BY <3>1, <2>1, <2>2, <2>4
  <2>6. n_owner_primaries' \in [Owners -> Int]
    <3>1. DOMAIN n_owner_primaries' = Owners
      BY <2>1, <1>2
    <3>2. n_owner_primaries' = [p \in DOMAIN n_owner_primaries' |-> n_owner_primaries'[p]]
      BY <2>1, <1>2
    <3> QED BY <3>1, <3>2, <2>5
  <2>7. n_primaries' = IF ownership_list[n] = <<>> /\ L # <<>> THEN n_primaries + 1
                       ELSE IF ownership_list[n] # <<>> /\ L = <<>> THEN n_primaries - 1
                       ELSE n_primaries
    BY <1>1, <1>2, <1>6 DEF s
  <2>8. \A p \in Owners : n_owner_primaries'[p] =
           IF Primary(n) # p /\ First(L) = p THEN n_owner_primaries[p] + 1
           ELSE IF Primary(n) = p /\ First(L) # p THEN n_owner_primaries[p] - 1
           ELSE n_owner_primaries[p]
    BY <2>2, <1>1, <1>7 DEF old
  <2>9. CountersExact' /\ n_primaries' \in Nat /\ n_owner_primaries' \in [Owners -> Nat]
    <3>1. ownership_list' = [ownership_list EXCEPT ![n] = L]
      BY <1>2
    <3> QED BY <3>1, <2>3, <2>4, <2>5, <2>6, <2>7, <2>8, <1>0, <1>6, CountersStep
  <2> QED BY <2>3, <2>4, <2>9
<1>17. ListChange(n, L)
  BY <1>2, <1>6, <1>8, <1>9, <1>10, <1>11, <1>12, <1>13, <1>14, <1>15, <1>16
     DEF ListChange
<1> QED BY <1>17, ListStep

\* A step that leaves the lists alone and registers, unregisters or marks a
\* peer without ownerships preserves the invariant.
LEMMA StatusStep ==
    ASSUME NInv,
           UNCHANGED <<links, counters, announced, told>>,
           leaving' \in Owners \cup {None},
           status' \in [Owners -> {"new", "registered", "gone"}],
           unique_names' = {o \in Owners : status'[o] = "registered"},
           \A o \in Owners : ownership_tree[o] # {} \/ leaving' = o
                               => status'[o] = "registered"
    PROVE  NInv'
<1>1. NTypeOK'
  BY DEF NInv, NTypeOK, links, counters
<1>2. Linked' /\ NobodyQueuedUnwillingly' /\ OwnersRegistered'
  BY DEF NInv, Linked, IsLinked, NobodyQueuedUnwillingly, OwnersRegistered, links
<1>3. /\ OwnedNames' = OwnedNames
      /\ \A p : PrimariesOf(p)' = PrimariesOf(p)
      /\ \A m : Primary(m)' = Primary(m)
      /\ \A u : OwnershipsOf(u)' = OwnershipsOf(u)
  BY DEF OwnedNames, PrimariesOf, Primary, OwnershipsOf, links
<1>4. CountersExact'
  BY <1>3 DEF NInv, CountersExact, counters
<1>5. ChargesBalance'
  BY <1>3 DEF NInv, ChargesBalance, links
<1>6. SignalsTruthful'
  BY <1>3 DEF NInv, SignalsTruthful
<1> QED BY <1>1, <1>2, <1>4, <1>5, <1>6 DEF NInv

\* driver_method_hello() preserves the invariant.
LEMMA HelloStep ==
    ASSUME NInv, NEW o \in Owners, Hello(o)
    PROVE  NInv'
<1>1. /\ status' = [status EXCEPT ![o] = "registered"]
      /\ unique_names' = unique_names \cup {o}
      /\ leaving' = leaving
      /\ UNCHANGED <<links, counters, announced, told>>
  BY DEF Hello
<1>2. /\ status \in [Owners -> {"new", "registered", "gone"}]
      /\ leaving \in Owners \cup {None}
      /\ unique_names = {p \in Owners : status[p] = "registered"}
      /\ \A p \in Owners : ownership_tree[p] # {} \/ leaving = p
                             => status[p] = "registered"
  BY DEF NInv, NTypeOK, SignalsTruthful, OwnersRegistered
<1>3. /\ status' \in [Owners -> {"new", "registered", "gone"}]
      /\ \A p \in Owners : status'[p] = IF p = o THEN "registered" ELSE status[p]
  BY <1>1, <1>2
<1>4. unique_names' = {p \in Owners : status'[p] = "registered"}
  BY <1>1, <1>2, <1>3
<1> QED BY <1>1, <1>2, <1>3, <1>4, StatusStep

\* The start of driver_goodbye() preserves the invariant.
LEMMA GoodbyeBeginStep ==
    ASSUME NInv, NEW o \in Owners, GoodbyeBegin(o)
    PROVE  NInv'
<1>1. /\ status[o] = "registered"
      /\ leaving' = o
      /\ UNCHANGED <<status, links, counters, announced, unique_names, told>>
  BY DEF GoodbyeBegin, signals
<1>2. /\ status' \in [Owners -> {"new", "registered", "gone"}]
      /\ unique_names' = {p \in Owners : status'[p] = "registered"}
      /\ \A p \in Owners : ownership_tree[p] # {} \/ leaving' = p
                             => status'[p] = "registered"
  BY <1>1 DEF NInv, NTypeOK, SignalsTruthful, OwnersRegistered
<1> QED BY <1>1, <1>2, StatusStep

\* The end of driver_goodbye() preserves the invariant: with an empty tree no
\* list refers to the peer that is unregistered.
LEMMA GoodbyeEndStep ==
    ASSUME NInv, GoodbyeEnd
    PROVE  NInv'
<1>1. /\ leaving # None
      /\ ownership_tree[leaving] = {}
      /\ unique_names' = unique_names \ {leaving}
      /\ status' = [status EXCEPT ![leaving] = "gone"]
      /\ leaving' = None
      /\ UNCHANGED <<links, counters, announced, told>>
  BY DEF GoodbyeEnd
<1>2. /\ status \in [Owners -> {"new", "registered", "gone"}]
      /\ leaving \in Owners
      /\ unique_names = {p \in Owners : status[p] = "registered"}
      /\ \A p \in Owners : ownership_tree[p] # {} => status[p] = "registered"
  BY <1>1 DEF NInv, NTypeOK, SignalsTruthful, OwnersRegistered
<1>3. /\ status' \in [Owners -> {"new", "registered", "gone"}]
      /\ \A p \in Owners : status'[p] = IF p = leaving THEN "gone" ELSE status[p]
  BY <1>1, <1>2
<1>4. unique_names' = {p \in Owners : status'[p] = "registered"}
  BY <1>1, <1>2, <1>3
<1>5. \A p \in Owners : ownership_tree[p] # {} \/ leaving' = p
                          => status'[p] = "registered"
  BY <1>1, <1>2, <1>3, NamesAssumption
<1> QED BY <1>1, <1>3, <1>4, <1>5, StatusStep

-----------------------------------------------------------------------------
(* The invariant *)

\* The empty registry satisfies the invariant.
LEMMA InitEstablishesInv ==
    NInit => NInv
<1> SUFFICES ASSUME NInit PROVE NInv
  OBVIOUS
<1>1. NTypeOK
  BY NamesAssumption DEF NTypeOK, NInit
<1>2. /\ \A n \in Names : ownership_list[n] = <<>>
      /\ \A o \in Owners : ownership_tree[o] = {}
  BY DEF NInit
<1>3. Linked
  BY <1>2 DEF Linked, IsInjective, IsLinked
<1>4. NobodyQueuedUnwillingly
  BY <1>2 DEF NobodyQueuedUnwillingly
<1>5. OwnersRegistered
  BY <1>2, NamesAssumption DEF OwnersRegistered, NInit
<1>6. OwnedNames = {} /\ (\A n \in Names : Primary(n) = None)
      /\ \A o \in Owners : PrimariesOf(o) = {}
  BY <1>2, NamesAssumption DEF OwnedNames, PrimariesOf, Primary, First
<1>7. CountersExact
  <2>1. Cardinality({}) = 0
    BY FS_EmptySet
  <2>2. /\ n_primaries = 0 /\ n_primaries_peak = 0 /\ n_owner_primaries_peak = 0
        /\ \A o \in Owners : n_owner_primaries[o] = 0
    BY DEF NInit
  <2> QED BY <2>1, <2>2, <1>6 DEF CountersExact
<1>8. ChargesBalance
  <2>1. \A u \in Users : OwnershipsOf(u) = {}
    BY <1>2 DEF OwnershipsOf
  <2>2. Cardinality({}) = 0
    BY FS_EmptySet
  <2>3. \A u \in Users : n_objects[u] = MaxObjects /\ MaxObjects \in Nat
    BY NamesAssumption DEF NInit
  <2>4. ASSUME NEW u \in Users
        PROVE  n_objects[u] + Cardinality(OwnershipsOf(u)) = MaxObjects
    <3>1. Cardinality(OwnershipsOf(u)) = 0
      BY <2>1, <2>2
    <3> QED BY <3>1, <2>3
  <2> QED BY <2>4 DEF ChargesBalance
<1>9. SignalsTruthful
  BY <1>6 DEF SignalsTruthful, NInit
<1> QED BY <1>1, <1>3, <1>4, <1>5, <1>7, <1>8, <1>9 DEF NInv

\* Every step of the registry preserves the invariant.
LEMMA StepPreservesInv ==
    NInv /\ [NNext]_nvars => NInv'
<1> SUFFICES ASSUME NInv, [NNext]_nvars PROVE NInv'
  OBVIOUS
<1>1. ASSUME NEW o \in Owners, Hello(o) PROVE NInv'
  BY <1>1, HelloStep
<1>2. ASSUME NEW o \in Owners, GoodbyeBegin(o) PROVE NInv'
  BY <1>2, GoodbyeBeginStep
<1>3. ASSUME NEW o \in Owners, NEW n \in Names, NEW f \in FlagSets, RequestName(o, n, f)
      PROVE  NInv'
  <2>1. f \in SUBSET Flags /\ status[o] = "registered" /\ UNCHANGED <<status, leaving>>
    BY <1>3, NamesAssumption DEF RequestName
  <2>2. CASE RequestUnowned(o, n, f)
    BY <2>1, <2>2, RequestUnownedStep
  <2>3. CASE RequestOwned(o, n, f)
    BY <2>1, <2>3, RequestOwnedStep
  <2>4. CASE RequestReplace(o, n, f)
    BY <2>1, <2>4, RequestReplaceStep
  <2>5. CASE RequestQueue(o, n, f)
    BY <2>1, <2>5, RequestQueueStep
  <2>6. CASE RequestRefused(o, n, f)
    BY <2>1, <2>6, RequestRefusedStep
  <2> QED BY <1>3, <2>2, <2>3, <2>4, <2>5, <2>6 DEF RequestName
<1>4. ASSUME NEW o \in Owners, NEW n \in Names, ReleaseName(o, n) PROVE NInv'
  <2>1. ReleaseOwnership(o, n) /\ UNCHANGED <<status, leaving>>
    BY <1>4 DEF ReleaseName
  <2> QED BY <2>1, ReleaseStep
<1>5. ASSUME NEW n \in Names, GoodbyeRelease(n) PROVE NInv'
  <2>1. /\ leaving \in Owners
        /\ ReleaseOwnership(leaving, n) /\ UNCHANGED <<status, leaving>>
    BY <1>5 DEF GoodbyeRelease, NInv, NTypeOK
  <2> QED BY <2>1, ReleaseStep
<1>6. CASE GoodbyeEnd
  BY <1>6, GoodbyeEndStep
<1>7. CASE UNCHANGED nvars
  <2>1. UNCHANGED <<links, counters, announced, told, leaving, status, unique_names>>
    BY <1>7 DEF nvars, signals
  <2>2. /\ leaving' \in Owners \cup {None}
        /\ status' \in [Owners -> {"new", "registered", "gone"}]
        /\ unique_names' = {o \in Owners : status'[o] = "registered"}
        /\ \A o \in Owners : ownership_tree[o] # {} \/ leaving' = o
                               => status'[o] = "registered"
    BY <2>1 DEF NInv, NTypeOK, SignalsTruthful, OwnersRegistered
  <2> QED BY <2>1, <2>2, StatusStep
<1> QED
  BY <1>1, <1>2, <1>3, <1>4, <1>5, <1>6, <1>7 DEF NNext

\* NInv holds in every state of the registry.
THEOREM NameRegistryInvariant == NSpec => []NInv
  BY InitEstablishesInv, StepPreservesInv, PTL DEF NSpec

\* The counters, the charges and the links of the registry are in step for
\* any number of peers, names and users and any quota.
THEOREM RegistryConsistent == NSpec => [](NTypeOK /\ Linked /\ CountersExact /\ ChargesBalance)
<1>1. NInv => NTypeOK /\ Linked /\ CountersExact /\ ChargesBalance
  BY DEF NInv
<1> QED BY <1>1, NameRegistryInvariant, PTL

\* Nobody waits in line who asked not to be queued, and no list refers to a
\* peer that has been unregistered.
THEOREM QueuesWellFormed == NSpec => [](NobodyQueuedUnwillingly /\ OwnersRegistered)
<1>1. NInv => NobodyQueuedUnwillingly /\ OwnersRegistered
  BY DEF NInv
<1> QED BY <1>1, NameRegistryInvariant, PTL

\* What the signals said is what the registry holds.
THEOREM SignalsAreTruthful == NSpec => []SignalsTruthful
<1>1. NInv => SignalsTruthful
  BY DEF NInv
<1> QED BY <1>1, NameRegistryInvariant, PTL

-----------------------------------------------------------------------------
(* The line is first come, first served *)

\* The entries of t are entries of s and stand in the same order there.
KeepsOrder(s, t) ==
    \A k, l \in DOMAIN t : k < l =>
        \E i, j \in DOMAIN s : i < j /\ s[i] = t[k] /\ s[j] = t[l]

\* Of two entries of both s and t only the head of t may have overtaken.
Fair(s, t) ==
    \A i, j \in DOMAIN s, k, l \in DOMAIN t :
        s[i] = t[k] /\ s[j] = t[l] /\ i < j /\ l < k => l = 1

\* c_list_unlink() does not reorder the list.
LEMMA UnlinkKeepsOrder ==
    ASSUME NEW S, NEW s \in Seq(S), NEW o
    PROVE  KeepsOrder(s, Unlink(s, o))
<1>1. CASE ~Occurs(s, o)
  <2>1. Unlink(s, o) = s
    BY <1>1 DEF Unlink, Occurs
  <2> QED BY <2>1 DEF KeepsOrder
<1>2. CASE Occurs(s, o)
  <2> DEFINE k == CHOOSE i \in DOMAIN s : s[i] = o
             t == RemoveAt(s, k)
  <2>1. k \in 1 .. Len(s)
    BY <1>2 DEF Occurs
  <2>2. Unlink(s, o) = t
    BY <1>2 DEF Unlink, Occurs
  <2>3. /\ t \in Seq(S)
        /\ Len(t) = Len(s) - 1
        /\ \A i \in 1 .. Len(s) - 1 :
              t[i] = IF i < k THEN s[i] ELSE s[i + 1]
    BY <2>1, RemoveAtProps
  <2> HIDE DEF k, t
  <2>4. DOMAIN s = 1 .. Len(s) /\ DOMAIN t = 1 .. Len(s) - 1 /\ Len(s) \in Nat
    BY <2>3
  <2>5. ASSUME NEW a \in DOMAIN t, NEW b \in DOMAIN t, a < b
        PROVE  \E i, j \in DOMAIN s : i < j /\ s[i] = t[a] /\ s[j] = t[b]
    <3> DEFINE Old(i) == IF i < k THEN i ELSE i + 1
    <3>1. /\ Old(a) \in DOMAIN s /\ s[Old(a)] = t[a]
          /\ Old(b) \in DOMAIN s /\ s[Old(b)] = t[b]
      BY <2>1, <2>3, <2>4
    <3>2. Old(a) < Old(b)
      BY <2>1, <2>4, <2>5
    <3> HIDE DEF Old
    <3> QED BY <3>1, <3>2
  <2> QED BY <2>2, <2>5 DEF KeepsOrder
<1> QED BY <1>1, <1>2

\* What keeps the order of a list that has no entry twice is fair.
LEMMA KeepsOrderFair ==
    ASSUME NEW S, NEW s \in Seq(S), NEW t \in Seq(S), IsInjective(s), KeepsOrder(s, t)
    PROVE  Fair(s, t)
<1> SUFFICES ASSUME NEW i \in DOMAIN s, NEW j \in DOMAIN s,
                    NEW k \in DOMAIN t, NEW l \in DOMAIN t,
                    s[i] = t[k], s[j] = t[l], i < j, l < k
             PROVE  FALSE
  BY DEF Fair
<1>1. PICK a \in DOMAIN s, b \in DOMAIN s : a < b /\ s[a] = t[l] /\ s[b] = t[k]
  BY DEF KeepsOrder
<1>2. a = j /\ b = i
  BY <1>1 DEF IsInjective
<1>3. i \in Nat /\ j \in Nat
  OBVIOUS
<1> QED BY <1>1, <1>2, <1>3

\* Unlinking two entries keeps the order, too.
LEMMA KeepsOrderTrans ==
    ASSUME NEW S, NEW s \in Seq(S), NEW t \in Seq(S), NEW u \in Seq(S),
           KeepsOrder(s, t), KeepsOrder(t, u)
    PROVE  KeepsOrder(s, u)
<1> SUFFICES ASSUME NEW k \in DOMAIN u, NEW l \in DOMAIN u, k < l
             PROVE  \E i, j \in DOMAIN s : i < j /\ s[i] = u[k] /\ s[j] = u[l]
  BY DEF KeepsOrder
<1>1. PICK a \in DOMAIN t, b \in DOMAIN t : a < b /\ t[a] = u[k] /\ t[b] = u[l]
  BY DEF KeepsOrder
<1>2. PICK i \in DOMAIN s, j \in DOMAIN s : i < j /\ s[i] = t[a] /\ s[j] = t[b]
  BY <1>1 DEF KeepsOrder
<1> QED BY <1>1, <1>2

\* The peer that is put in front is the only one that overtakes.
LEMMA ConsFair ==
    ASSUME NEW S, NEW s \in Seq(S), NEW r \in Seq(S), NEW t \in Seq(S),
           IsInjective(s), KeepsOrder(s, r),
           \A i \in DOMAIN t : i > 1 => i - 1 \in DOMAIN r /\ t[i] = r[i - 1]
    PROVE  Fair(s, t)
<1> SUFFICES ASSUME NEW i \in DOMAIN s, NEW j \in DOMAIN s,
                    NEW k \in DOMAIN t, NEW l \in DOMAIN t,
                    s[i] = t[k], s[j] = t[l], i < j, l < k, l # 1
             PROVE  FALSE
  BY DEF Fair
<1>1. i \in Nat /\ j \in Nat /\ k \in Nat /\ l \in Nat /\ l > 1 /\ k > 1
  OBVIOUS
<1>2. k - 1 \in DOMAIN r /\ l - 1 \in DOMAIN r /\ t[k] = r[k - 1] /\ t[l] = r[l - 1]
  BY <1>1
<1>3. l - 1 < k - 1
  BY <1>1
<1>4. PICK a \in DOMAIN s, b \in DOMAIN s :
         a < b /\ s[a] = r[l - 1] /\ s[b] = r[k - 1]
  BY <1>2, <1>3 DEF KeepsOrder
<1>5. a = j /\ b = i
  BY <1>2, <1>4 DEF IsInjective
<1>6. j < i
  BY <1>4, <1>5
<1>7. ~(i < j /\ j < i)
  BY ONLY <1>1
<1> QED BY ONLY <1>6, <1>7, i < j

\* A peer that queues behind the others overtakes nobody.
LEMMA AppendFair ==
    ASSUME NEW S, NEW s \in Seq(S), NEW t \in Seq(S), NEW o,
           IsInjective(s), ~Occurs(s, o),
           \A i \in DOMAIN t : t[i] = o \/ (i \in DOMAIN s /\ t[i] = s[i])
    PROVE  Fair(s, t)
<1> SUFFICES ASSUME NEW i \in DOMAIN s, NEW j \in DOMAIN s,
                    NEW k \in DOMAIN t, NEW l \in DOMAIN t,
                    s[i] = t[k], s[j] = t[l], i < j, l < k
             PROVE  FALSE
  BY DEF Fair
<1>1. i \in Nat /\ j \in Nat
  OBVIOUS
<1>2. s[i] # o /\ s[j] # o
  BY DEF Occurs
<1>3. k \in DOMAIN s /\ l \in DOMAIN s /\ s[k] = s[i] /\ s[l] = s[j]
  BY <1>2
<1>4. k = i /\ l = j
  BY <1>3 DEF IsInjective
<1> QED BY <1>1, <1>4

\* The list of every name a step of the registry changes, it changes fairly.
StepFair == \A n \in Names : Fair(ownership_list[n], ownership_list'[n])

\* It is enough to look at the one list that changes.
LEMMA OneListFair ==
    ASSUME NInv, NEW n \in Names, NEW L \in Seq(Owners),
           ownership_list' = [ownership_list EXCEPT ![n] = L],
           Fair(ownership_list[n], L)
    PROVE  StepFair
<1> SUFFICES ASSUME NEW m \in Names PROVE Fair(ownership_list[m], ownership_list'[m])
  BY DEF StepFair
<1>1. ownership_list \in [Names -> Seq(Owners)] /\ IsInjective(ownership_list[m])
  BY DEF NInv, NTypeOK, Linked
<1>2. CASE m = n
  BY <1>1, <1>2
<1>3. CASE m # n
  <2>1. ownership_list'[m] = ownership_list[m]
    BY <1>1, <1>3
  <2>2. KeepsOrder(ownership_list[m], ownership_list[m])
    BY DEF KeepsOrder
  <2>3. Fair(ownership_list[m], ownership_list[m])
    BY <2>2, <1>1, KeepsOrderFair
  <2> QED BY <2>1, <2>3
<1> QED BY <1>2, <1>3

\* A step that changes no list.
LEMMA SameListsFair ==
    ASSUME NInv, UNCHANGED ownership_list
    PROVE  StepFair
<1> SUFFICES ASSUME NEW m \in Names PROVE Fair(ownership_list[m], ownership_list'[m])
  BY DEF StepFair
<1>1. ownership_list \in [Names -> Seq(Owners)] /\ IsInjective(ownership_list[m])
  BY DEF NInv, NTypeOK, Linked
<1>2. KeepsOrder(ownership_list[m], ownership_list[m])
  BY DEF KeepsOrder
<1>3. Fair(ownership_list[m], ownership_list[m])
  BY <1>2, <1>1, KeepsOrderFair
<1> QED BY <1>3

\* A step that takes a peer out of one list.
LEMMA UnlinkFair ==
    ASSUME NInv, NEW n \in Names, NEW o,
           ownership_list' = [ownership_list EXCEPT ![n] = Unlink(ownership_list[n], o)]
    PROVE  StepFair
<1> DEFINE s == ownership_list[n]
           t == Unlink(s, o)
<1>1. s \in Seq(Owners) /\ IsInjective(s)
  BY DEF NInv, NTypeOK, Linked
<1>2. ownership_list' = [ownership_list EXCEPT ![n] = t]
  OBVIOUS
<1> HIDE DEF s
<1>3. t \in Seq(Owners) /\ KeepsOrder(s, t)
  BY <1>1, UnlinkProps, UnlinkKeepsOrder
<1> HIDE DEF t
<1>4. Fair(s, t)
  BY <1>1, <1>3, KeepsOrderFair
<1> QED BY <1>2, <1>3, <1>4, OneListFair DEF s

\* A replacement puts one peer in front and may drop the one it replaces.
LEMMA ReplaceFair ==
    ASSUME NInv, NEW o \in Owners, NEW n \in Names, NEW f, RequestReplace(o, n, f)
    PROVE  StepFair
<1> DEFINE s == ownership_list[n]
           old == Primary(n)
           r == Unlink(s, o)
           q == IF WontQueue(old, n) THEN Unlink(r, old) ELSE r
           t == <<o>> \o q
<1>1. s \in Seq(Owners) /\ IsInjective(s)
  BY DEF NInv, NTypeOK, Linked
<1>2. ownership_list' = [ownership_list EXCEPT ![n] = t]
  BY DEF RequestReplace
<1> HIDE DEF s, old
<1>3. /\ r \in Seq(Owners) /\ IsInjective(r) /\ KeepsOrder(s, r)
      /\ \A p : Occurs(r, p) <=> (p # o /\ Occurs(s, p))
  BY <1>1, UnlinkProps, UnlinkKeepsOrder
<1> HIDE DEF r
<1>4. /\ q \in Seq(Owners) /\ IsInjective(q) /\ KeepsOrder(s, q) /\ ~Occurs(q, o)
  <2>1. CASE WontQueue(old, n)
    <3>1. q = Unlink(r, old)
      BY <2>1
    <3>2. /\ q \in Seq(Owners) /\ IsInjective(q) /\ KeepsOrder(r, q)
          /\ \A p : Occurs(q, p) <=> (p # old /\ Occurs(r, p))
      BY <3>1, <1>3, UnlinkProps, UnlinkKeepsOrder
    <3> HIDE DEF q
    <3> QED BY <3>2, <1>1, <1>3, KeepsOrderTrans
  <2>2. CASE ~WontQueue(old, n)
    BY <2>2, <1>3
  <2> QED BY <2>1, <2>2
<1> HIDE DEF q
<1>5. /\ t \in Seq(Owners)
      /\ \A i \in DOMAIN t : i > 1 => i - 1 \in DOMAIN q /\ t[i] = q[i - 1]
  BY <1>4, ConsProps
<1> HIDE DEF t
<1>6. Fair(s, t)
  BY <1>1, <1>4, <1>5, ConsFair
<1> QED BY <1>2, <1>5, <1>6, OneListFair DEF s

\* A request that is queued changes nobody's place.
LEMMA QueueFair ==
    ASSUME NInv, NEW o \in Owners, NEW n \in Names, NEW f, RequestQueue(o, n, f)
    PROVE  StepFair
<1> DEFINE s == ownership_list[n]
<1>1. s \in Seq(Owners) /\ IsInjective(s) /\ ownership_list \in [Names -> Seq(Owners)]
  BY DEF NInv, NTypeOK, Linked
<1>2. CASE IsLinked(o, n)
  <2>1. ownership_list' = ownership_list
    BY <1>1, <1>2 DEF RequestQueue
  <2> QED BY <2>1, SameListsFair
<1>3. CASE ~IsLinked(o, n)
  <2> DEFINE t == Append(s, o)
  <2>1. ownership_list' = [ownership_list EXCEPT ![n] = t]
    BY <1>3 DEF RequestQueue
  <2>2. ~Occurs(s, o)
    BY <1>3 DEF IsLinked, Occurs
  <2>3. s # <<>>
    BY DEF RequestQueue, Primary, First
  <2> HIDE DEF s
  <2>4. /\ t \in Seq(Owners)
        /\ \A i \in DOMAIN t : t[i] = o \/ (i \in DOMAIN s /\ t[i] = s[i])
    BY <1>1, <2>2, <2>3, AppendPropsOwner
  <2> HIDE DEF t
  <2>5. Fair(s, t)
    BY <1>1, <2>2, <2>4, AppendFair
  <2> QED BY <2>1, <2>4, <2>5, OneListFair DEF s
<1> QED BY <1>2, <1>3

\* The first owner of a name has nobody to overtake.
LEMMA UnownedFair ==
    ASSUME NInv, NEW o \in Owners, NEW n \in Names, NEW f, RequestUnowned(o, n, f)
    PROVE  StepFair
<1>1. ownership_list[n] = <<>> /\ ownership_list' = [ownership_list EXCEPT ![n] = <<o>>]
  BY DEF RequestUnowned
<1>2. <<o>> \in Seq(Owners) /\ Fair(<<>>, <<o>>)
  BY DEF Fair
<1> QED BY <1>1, <1>2, OneListFair

\* Every step of the registry is fair.
LEMMA StepIsFair ==
    ASSUME NInv, [NNext]_nvars
    PROVE  StepFair
<1>1. ASSUME NEW o \in Owners, Hello(o) \/ GoodbyeBegin(o) PROVE StepFair
  BY <1>1, SameListsFair DEF Hello, GoodbyeBegin, links
<1>2. ASSUME NEW o \in Owners, NEW n \in Names, NEW f \in FlagSets, RequestName(o, n, f)
      PROVE  StepFair
  <2>1. CASE RequestOwned(o, n, f)
    BY <2>1, SameListsFair DEF RequestOwned
  <2>2. CASE RequestRefused(o, n, f)
    BY <2>2, UnlinkFair DEF RequestRefused
  <2> QED
    BY <1>2, <2>1, <2>2, UnownedFair, ReplaceFair, QueueFair DEF RequestName
<1>3. ASSUME NEW o \in Owners, NEW n \in Names, ReleaseOwnership(o, n) PROVE StepFair
  BY <1>3, UnlinkFair DEF ReleaseOwnership
<1>4. ASSUME NEW o \in Owners, NEW n \in Names, ReleaseName(o, n) PROVE StepFair
  BY <1>3, <1>4 DEF ReleaseName
<1>5. ASSUME NEW n \in Names, GoodbyeRelease(n) PROVE StepFair
  BY <1>3, <1>5 DEF GoodbyeRelease, NInv, NTypeOK
<1>6. CASE GoodbyeEnd \/ UNCHANGED nvars
  BY <1>6, SameListsFair DEF GoodbyeEnd, nvars, links
<1> QED BY <1>1, <1>2, <1>4, <1>5, <1>6 DEF NNext

\* For any number of peers and names and any sequence of requests, releases,
\* replacements and disconnects: the line of a name is first come, first
\* served, and who overtakes becomes the primary owner.
THEOREM LinesAreFair == NSpec => FirstComeFirstServed
<1> DEFINE Overtakes(n, o, p) ==
             LET old == ownership_list[n]
                 new == ownership_list'[n]
             IN  /\ Contains(old, o) /\ Contains(new, o)
                 /\ Contains(old, p) /\ Contains(new, p)
                 /\ Place(old, o) < Place(old, p)
                 /\ Place(new, p) < Place(new, o)
                 => Place(new, p) = 1
<1>1. ASSUME NInv, NInv', [NNext]_nvars
      PROVE  \A n \in Names : \A o, p \in Owners : Overtakes(n, o, p)
  <2> SUFFICES ASSUME NEW n \in Names, NEW o \in Owners, NEW p \in Owners
               PROVE  Overtakes(n, o, p)
    OBVIOUS
  <2>1. PICK s \in Seq(Owners), t \in Seq(Owners) :
          s = ownership_list[n] /\ t = ownership_list'[n]
    BY <1>1 DEF NInv, NTypeOK
  <2>2. Fair(s, t)
    BY <1>1, <2>1, StepIsFair DEF StepFair
  <2>3. ASSUME NEW q, Contains(s, q) PROVE Place(s, q) \in DOMAIN s /\ s[Place(s, q)] = q
    BY <2>3 DEF Place, Contains
  <2>4. ASSUME NEW q, Contains(t, q) PROVE Place(t, q) \in DOMAIN t /\ t[Place(t, q)] = q
    BY <2>4 DEF Place, Contains
  <2>5. ASSUME Contains(s, o), Contains(t, o), Contains(s, p), Contains(t, p),
               Place(s, o) < Place(s, p), Place(t, p) < Place(t, o)
        PROVE  Place(t, p) = 1
    BY <2>2, <2>3, <2>4, <2>5 DEF Fair
  <2> QED BY <2>1, <2>5
<1> QED
  BY <1>1, NameRegistryInvariant, PTL DEF NSpec, FirstComeFirstServed

-----------------------------------------------------------------------------
(* The registry implements NameOwners *)

\* An announced change of owner is a step of the abstract specification.
LEMMA ChangeSimulates ==
    ASSUME NInv, NEW n \in Names, NEW new \in Owners \cup {None},
           new # Primary(n),
           new # None => status[new] = "registered",
           status' = status,
           NotifyChange(n, Primary(n), new)
    PROVE  Observed!ONext
<1>1. /\ announced[n] = Primary(n)
      /\ unique_names = {o \in Owners : status[o] = "registered"}
  BY DEF NInv, SignalsTruthful
<1>2. /\ announced' = [announced EXCEPT ![n] = new]
      /\ unique_names' = unique_names
      /\ told' = [o \in Owners |->
                    LET kept == IF o = Primary(n) THEN told[o] \ {n} ELSE told[o]
                    IN  IF o = new THEN kept \cup {n} ELSE kept]
  BY DEF NotifyChange
<1>3. told' = [o \in Owners |-> IF o = announced[n] THEN told[o] \ {n}
                                ELSE IF o = new THEN told[o] \cup {n}
                                ELSE told[o]]
  <2>1. \A o \in Owners :
          (LET kept == IF o = Primary(n) THEN told[o] \ {n} ELSE told[o]
           IN  IF o = new THEN kept \cup {n} ELSE kept)
          = IF o = announced[n] THEN told[o] \ {n}
            ELSE IF o = new THEN told[o] \cup {n} ELSE told[o]
    BY <1>1
  <2> QED BY <2>1, <1>2
<1>4. new \in unique_names \cup {None} /\ new # announced[n]
  BY <1>1
<1>5. Observed!Change(n, new)
  BY <1>2, <1>3, <1>4 DEF Observed!Change
<1> QED BY <1>5 DEF Observed!ONext

\* A release is announced if the primary owner let go, and silent otherwise.
LEMMA ReleaseSimulates ==
    ASSUME NInv, NEW o \in Owners, NEW n \in Names, status' = status,
           ReleaseOwnership(o, n)
    PROVE  Observed!ONext \/ UNCHANGED Observed!ovars
<1> DEFINE s == ownership_list[n]
           L == Unlink(s, o)
           new == First(L)
<1>1. CASE Primary(n) # o
  BY <1>1 DEF ReleaseOwnership, signals, Observed!ovars
<1>2. CASE Primary(n) = o
  <2>1. NotifyChange(n, Primary(n), new)
    BY <1>2 DEF ReleaseOwnership
  <2>2. s \in Seq(Owners) /\ IsInjective(s)
        /\ \A p \in Owners : n \in ownership_tree[p] <=> Occurs(s, p)
    BY HeadProps DEF NInv
  <2> HIDE DEF s, L
  <2>3. L \in Seq(Owners) /\ \A p : Occurs(L, p) <=> p # o /\ Occurs(s, p)
    BY <2>2, UnlinkProps DEF L
  <2>4. ~Occurs(L, o)
    BY <2>3
  <2>5. L # <<>> => L[1] \in Owners /\ L[1] # o /\ Occurs(L, L[1])
    BY <2>3, <2>4 DEF Occurs
  <2>6. new \in Owners \cup {None} /\ new # o /\ (new # None => Occurs(s, new))
    BY <2>3, <2>5, NamesAssumption DEF First
  <2> HIDE DEF new
  <2>7. new # None => status[new] = "registered"
    BY <2>2, <2>6 DEF NInv, OwnersRegistered
  <2> QED BY <2>1, <2>6, <2>7, <1>2, ChangeSimulates
<1> QED BY <1>1, <1>2

\* Every step of the registry is a step of NameOwners or changes nothing an
\* observer sees.
LEMMA StepSimulates ==
    ASSUME NInv, [NNext]_nvars
    PROVE  Observed!ONext \/ UNCHANGED Observed!ovars
<1>1. ASSUME NEW o \in Owners, Hello(o)
      PROVE  Observed!ONext
  <2>1. /\ status[o] = "new"
        /\ status' = [status EXCEPT ![o] = "registered"]
        /\ unique_names' = unique_names \cup {o}
        /\ UNCHANGED <<announced, told>>
    BY <1>1 DEF Hello
  <2>2. /\ status \in [Owners -> {"new", "registered", "gone"}]
        /\ unique_names = {p \in Owners : status[p] = "registered"}
    BY DEF NInv, NTypeOK, SignalsTruthful
  <2>3. o \notin unique_names \cup {p \in Owners : status[p] = "gone"}
    BY <2>1, <2>2
  <2>4. {p \in Owners : status'[p] = "gone"} = {p \in Owners : status[p] = "gone"}
    BY <2>1, <2>2
  <2>5. Observed!Join(o)
    BY <2>1, <2>3, <2>4 DEF Observed!Join
  <2> QED BY <2>5 DEF Observed!ONext
<1>2. ASSUME NEW o \in Owners, GoodbyeBegin(o)
      PROVE  UNCHANGED Observed!ovars
  BY <1>2 DEF GoodbyeBegin, signals, Observed!ovars
<1>3. ASSUME NEW o \in Owners, NEW n \in Names, NEW f \in FlagSets, RequestName(o, n, f)
      PROVE  Observed!ONext \/ UNCHANGED Observed!ovars
  <2>1. status[o] = "registered" /\ status' = status
    BY <1>3 DEF RequestName
  <2>2. CASE RequestUnowned(o, n, f)
    <3>1. Primary(n) = None /\ NotifyChange(n, None, o)
      BY <2>2 DEF RequestUnowned, Primary, First
    <3>2. o # Primary(n)
      BY <3>1, NamesAssumption
    <3> QED BY <3>1, <3>2, <2>1, ChangeSimulates
  <2>3. CASE RequestOwned(o, n, f)
    BY <2>1, <2>3 DEF RequestOwned, signals, Observed!ovars
  <2>4. CASE RequestReplace(o, n, f)
    <3>1. o # Primary(n) /\ NotifyChange(n, Primary(n), o)
      BY <2>4 DEF RequestReplace, Replaces
    <3> QED BY <3>1, <2>1, ChangeSimulates
  <2>5. CASE RequestQueue(o, n, f)
    BY <2>1, <2>5 DEF RequestQueue, signals, Observed!ovars
  <2>6. CASE RequestRefused(o, n, f)
    BY <2>1, <2>6 DEF RequestRefused, signals, Observed!ovars
  <2> QED BY <1>3, <2>2, <2>3, <2>4, <2>5, <2>6 DEF RequestName
<1>4. ASSUME NEW o \in Owners, NEW n \in Names, ReleaseName(o, n)
      PROVE  Observed!ONext \/ UNCHANGED Observed!ovars
  <2>1. ReleaseOwnership(o, n) /\ status' = status
    BY <1>4 DEF ReleaseName
  <2> QED BY <2>1, ReleaseSimulates
<1>5. ASSUME NEW n \in Names, GoodbyeRelease(n)
      PROVE  Observed!ONext \/ UNCHANGED Observed!ovars
  <2>1. leaving \in Owners /\ ReleaseOwnership(leaving, n) /\ status' = status
    BY <1>5 DEF GoodbyeRelease, NInv, NTypeOK
  <2> QED BY <2>1, ReleaseSimulates
<1>6. CASE GoodbyeEnd
  <2>1. /\ leaving # None
        /\ ownership_tree[leaving] = {}
        /\ unique_names' = unique_names \ {leaving}
        /\ status' = [status EXCEPT ![leaving] = "gone"]
        /\ UNCHANGED <<announced, told>>
    BY <1>6 DEF GoodbyeEnd
  <2>2. /\ status \in [Owners -> {"new", "registered", "gone"}]
        /\ leaving \in Owners
        /\ unique_names = {p \in Owners : status[p] = "registered"}
        /\ status[leaving] = "registered"
    BY <2>1 DEF NInv, NTypeOK, SignalsTruthful, OwnersRegistered
  <2>3. \A n \in Names : Primary(n) # leaving
    <3> SUFFICES ASSUME NEW n \in Names, Primary(n) = leaving PROVE FALSE
      OBVIOUS
    <3>1. Occurs(ownership_list[n], leaving)
      BY <2>1, HeadProps DEF NInv, Occurs
    <3>2. n \in ownership_tree[leaving]
      BY <3>1, <2>2, HeadProps DEF NInv
    <3> QED BY <3>2, <2>1
  <2>4. told[leaving] = {} /\ \A n \in Names : announced[n] # leaving
    BY <2>2, <2>3 DEF NInv, SignalsTruthful, PrimariesOf
  <2>5. leaving \in unique_names
    BY <2>2
  <2>6. {p \in Owners : status'[p] = "gone"} =
          {p \in Owners : status[p] = "gone"} \cup {leaving}
    BY <2>1, <2>2
  <2>7. PICK o \in Owners : o = leaving
    BY <2>2
  <2>8. Observed!Leave(o)
    BY <2>1, <2>4, <2>5, <2>6, <2>7 DEF Observed!Leave
  <2> QED BY <2>8 DEF Observed!ONext
<1>7. CASE UNCHANGED nvars
  BY <1>7 DEF nvars, signals, Observed!ovars
<1> QED
  BY <1>1, <1>2, <1>3, <1>4, <1>5, <1>6, <1>7 DEF NNext

\* For any number of peers and names, what the signals show is a behaviour of
\* NameOwners: one owner at a time, changes announced one by one, and no
\* unique name that vanishes while it owns a name.
THEOREM NameRegistryImplements == NSpec => ImplementsNameOwners
<1>1. NInit => Observed!OInit
  <2>1. NInit => {o \in Owners : status[o] = "gone"} = {}
    BY DEF NInit
  <2> QED BY <2>1 DEF NInit, Observed!OInit
<1>2. NInv /\ [NNext]_nvars => [Observed!ONext]_(Observed!ovars)
  BY StepSimulates
<1> QED
  BY <1>1, <1>2, NameRegistryInvariant, PTL
     DEF NSpec, ImplementsNameOwners, Observed!OSpec

=============================================================================
