----------------------------- MODULE LevelProofs -----------------------------
(***************************************************************************)
(* What the proofs about price levels and order books have in common.  It  *)
(* speaks of values only, so that every module of proofs can use it:       *)
(* least elements and induction over finite sets, listing a set in the     *)
(* order of places, sums over finite sets, and what the operations of      *)
(* module PriceLevel do to the fields of a level.                          *)
(***************************************************************************)
EXTENDS PriceLevel, SequencesExt, FiniteSetTheorems, WellFoundedInduction, TLAPS

-----------------------------------------------------------------------------
(***************************************************************************)
(* Least and greatest elements                                             *)
(***************************************************************************)

\* A set of natural numbers that is not empty has a least element.
LEMMA LeastNat ==
    ASSUME NEW S \in SUBSET Nat, S # {}
    PROVE  \E x \in S : \A y \in S : x <= y
  <1> DEFINE R == OpToRel(<, Nat)
  <1>1. IsWellFoundedOn(R, Nat)
    BY NatLessThanWellFounded
  <1> HIDE DEF R
  <1>2. PICK x \in S : \A y \in S : ~ (<<y, x>> \in R)
    BY <1>1, WFMin
  <1>3. ASSUME NEW y \in S PROVE x <= y
    <2>1. x \in Nat /\ y \in Nat
      OBVIOUS
    <2>2. ~ (y < x)
      BY <1>2, <2>1 DEF OpToRel, R
    <2> QED BY <2>1, <2>2
  <1> QED BY <1>3

\* A family of finite sets has a member that is in it no longer once any of its
\* elements is removed: induction over finite sets.
LEMMA MinimalMember ==
    ASSUME NEW D, IsFiniteSet(D), NEW Bad \in SUBSET (SUBSET D), Bad # {}
    PROVE  \E T \in Bad : \A x \in T : T \ {x} \notin Bad
  <1>1. \A T \in Bad : IsFiniteSet(T) /\ Cardinality(T) \in Nat
    BY FS_Subset, FS_CardinalityType
  <1> DEFINE C == {Cardinality(V) : V \in Bad}
  <1>2. C \in SUBSET Nat /\ C # {}
    BY <1>1
  <1>3. PICK c \in C : \A d \in C : c <= d
    BY <1>2, LeastNat
  <1>4. PICK T \in Bad : c = Cardinality(T)
    OBVIOUS
  <1>5. ASSUME NEW x \in T, T \ {x} \in Bad PROVE FALSE
    <2>1. Cardinality(T \ {x}) = Cardinality(T) - 1
      BY <1>1, FS_RemoveElement
    <2>2. Cardinality(T) <= Cardinality(T \ {x})
      BY <1>3, <1>4, <1>5
    <2> QED BY <1>1, <2>1, <2>2
  <1> QED BY <1>5

\* A finite set of natural numbers that is not empty has a greatest element.
LEMMA GreatestNat ==
    ASSUME NEW S \in SUBSET Nat, S # {}, IsFiniteSet(S)
    PROVE  \E x \in S : \A y \in S : y <= x
  <1> DEFINE HasMax(T) == \E x \in T : \A y \in T : y <= x
             Bad == {T \in SUBSET S : T # {} /\ ~ HasMax(T)}
  <1>1. SUFFICES ASSUME Bad # {} PROVE FALSE
    OBVIOUS
  <1>2. PICK T \in Bad : \A a \in T : T \ {a} \notin Bad
    <2>1. Bad \in SUBSET (SUBSET S)
      OBVIOUS
    <2> HIDE DEF Bad
    <2> QED BY <1>1, <2>1, MinimalMember
  <1>3. PICK a \in T : TRUE
    OBVIOUS
  <1> DEFINE U == T \ {a}
  <1>4. U # {}
    OBVIOUS
  <1>5. PICK b \in U : \A y \in U : y <= b
    BY <1>2, <1>4
  <1>6. HasMax(T)
    <2>1. CASE a <= b BY <2>1, <1>5
    <2>2. CASE b <= a BY <2>2, <1>5
    <2> QED BY <2>1, <2>2
  <1> QED BY <1>6

LEMMA MinOfPair ==
    ASSUME NEW a \in Int, NEW b \in Int
    PROVE  Min({a, b}) = IF a <= b THEN a ELSE b
  BY DEF Min

-----------------------------------------------------------------------------
(***************************************************************************)
(* Listing a finite set in the order of distinct places                    *)
(***************************************************************************)

Increasing(q, m) == \A i, j \in DOMAIN q : i < j => m[q[i]] < m[q[j]]

\* q lists D, by the places that m gives its members.
Lists(q, D, m) ==
    /\ q \in Seq(D)
    /\ \A x \in D : \E i \in DOMAIN q : q[i] = x
    /\ Increasing(q, m)

\* Places: natural numbers, no two the same.
Places(D, m) ==
    /\ IsFiniteSet(D)
    /\ \A x \in D : m[x] \in Nat
    /\ \A x, y \in D : x # y => m[x] # m[y]

\* The element of q at the first index where q and r differ is in r, at that
\* index or behind it.
LEMMA NoEarlier ==
    ASSUME NEW D, NEW m, NEW q, NEW r, Lists(q, D, m), Lists(r, D, m), Places(D, m),
           NEW i \in DOMAIN q,
           \A j \in 1 .. (i - 1) : j \in DOMAIN q /\ j \in DOMAIN r /\ q[j] = r[j]
    PROVE  \E j \in DOMAIN r : i <= j /\ r[j] = q[i]
  <1>1. /\ q \in Seq(D) /\ r \in Seq(D) /\ Len(q) \in Nat /\ Len(r) \in Nat
        /\ DOMAIN q = 1 .. Len(q) /\ DOMAIN r = 1 .. Len(r)
    BY DEF Lists
  <1>2. PICK j \in DOMAIN r : r[j] = q[i]
    BY <1>1 DEF Lists
  <1>3. CASE j < i
    <2>1. j \in DOMAIN q /\ q[j] = q[i]
      BY <1>1, <1>2, <1>3
    <2>2. m[q[j]] < m[q[i]]
      BY <1>3, <2>1 DEF Lists, Increasing
    <2>3. q[i] \in D
      BY <1>1
    <2>4. m[q[i]] \in Nat
      BY <2>3 DEF Places
    <2> QED BY <2>1, <2>2, <2>4
  <1>4. CASE ~ (j < i)
    BY <1>1, <1>2, <1>4
  <1> QED BY <1>3, <1>4

LEMMA ListsUnique ==
    ASSUME NEW D, NEW m, NEW q, NEW r, Lists(q, D, m), Lists(r, D, m), Places(D, m)
    PROVE  q = r
  <1>1. /\ q \in Seq(D) /\ r \in Seq(D) /\ Len(q) \in Nat /\ Len(r) \in Nat
        /\ DOMAIN q = 1 .. Len(q) /\ DOMAIN r = 1 .. Len(r)
    BY DEF Lists
  <1> DEFINE Same(i) == i \in DOMAIN q /\ i \in DOMAIN r /\ q[i] = r[i]
             B == {i \in DOMAIN q \cup DOMAIN r : ~ Same(i)}
  <1>2. ASSUME B # {} PROVE FALSE
    <2>1. B \in SUBSET Nat
      BY <1>1
    <2>2. PICK i \in B : \A j \in B : i <= j
      BY <1>2, <2>1, LeastNat
    <2>3. \A j \in 1 .. (i - 1) : Same(j)
      <3>1. i \in Nat /\ \A j \in 1 .. (i - 1) : j \in DOMAIN q \cup DOMAIN r
        BY <1>1
      <3> QED BY <1>1, <2>1, <2>2, <3>1
    <2>4. i \in DOMAIN q => \E j \in DOMAIN r : i <= j /\ r[j] = q[i]
      BY <2>3, NoEarlier
    <2>5. i \in DOMAIN r => \E j \in DOMAIN q : i <= j /\ q[j] = r[i]
      <3>1. \A j \in 1 .. (i - 1) : j \in DOMAIN r /\ j \in DOMAIN q /\ r[j] = q[j]
        BY <2>3
      <3> QED BY <3>1, NoEarlier
    <2>6. i \in DOMAIN q /\ i \in DOMAIN r
      BY <1>1, <2>4, <2>5
    <2>7. PICK j \in DOMAIN r : i <= j /\ r[j] = q[i]
      BY <2>4, <2>6
    <2>8. PICK k \in DOMAIN q : i <= k /\ q[k] = r[i]
      BY <2>5, <2>6
    <2>9. q[i] # r[i] /\ q[i] \in D /\ r[i] \in D
      BY <1>1, <2>6
    <2>10. i < j /\ i < k
      BY <1>1, <2>7, <2>8, <2>9
    <2>11. m[r[i]] < m[q[i]] /\ m[q[i]] < m[r[i]]
      BY <2>6, <2>7, <2>8, <2>10 DEF Lists, Increasing
    <2> QED BY <2>9, <2>11 DEF Places
  <1>3. \A i \in DOMAIN q \cup DOMAIN r : Same(i)
    BY <1>2
  <1>4. DOMAIN q = DOMAIN r /\ \A i \in DOMAIN q : q[i] = r[i]
    BY <1>3
  <1>5. q = [i \in 1 .. Len(q) |-> q[i]] /\ r = [i \in 1 .. Len(r) |-> r[i]]
    BY <1>1
  <1> QED BY <1>1, <1>4, <1>5

\* What comes after everything else goes to the end of the list.
LEMMA ListsAppend ==
    ASSUME NEW D, NEW m, NEW q, Lists(q, D, m), NEW x, x \notin D, NEW m2,
           \A y \in D : m2[y] = m[y] /\ m2[y] < m2[x]
    PROVE  Lists(Append(q, x), D \cup {x}, m2) /\ Len(Append(q, x)) = Len(q) + 1
  <1> DEFINE r == Append(q, x)
  <1>1. q \in Seq(D) /\ Len(q) \in Nat /\ DOMAIN q = 1 .. Len(q)
    BY DEF Lists
  <1>2. q \in Seq(D \cup {x})
    BY <1>1
  <1>3. /\ r \in Seq(D \cup {x}) /\ Len(r) = Len(q) + 1
        /\ DOMAIN r = 1 .. (Len(q) + 1) /\ r[Len(q) + 1] = x
        /\ \A i \in 1 .. Len(q) : r[i] = q[i] /\ q[i] \in D
    BY <1>1, <1>2
  <1> HIDE DEF r
  <1>4. \A y \in D \cup {x} : \E i \in DOMAIN r : r[i] = y
    <2>1. ASSUME NEW y \in D PROVE \E i \in DOMAIN r : r[i] = y
      <3>1. PICK i \in DOMAIN q : q[i] = y
        BY DEF Lists
      <3>2. i \in DOMAIN r /\ r[i] = y
        BY <1>1, <1>3, <3>1
      <3> QED BY <3>2
    <2>2. \E i \in DOMAIN r : r[i] = x
      BY <1>1, <1>3
    <2> QED BY <2>1, <2>2
  <1>5. ASSUME NEW i \in DOMAIN r, NEW j \in DOMAIN r, i < j
        PROVE  m2[r[i]] < m2[r[j]]
    <2>1. i \in 1 .. Len(q) /\ r[i] = q[i] /\ q[i] \in D
      BY <1>1, <1>3, <1>5
    <2>2. CASE j = Len(q) + 1
      BY <2>1, <2>2, <1>3
    <2>3. CASE j \in 1 .. Len(q)
      <3>1. r[j] = q[j] /\ q[j] \in D /\ m[q[i]] < m[q[j]]
        BY <1>1, <1>3, <1>5, <2>1, <2>3 DEF Lists, Increasing
      <3> QED BY <2>1, <3>1
    <2> QED BY <2>2, <2>3, <1>1, <1>3
  <1>6. Increasing(r, m2)
    BY <1>5 DEF Increasing
  <1> QED BY <1>3, <1>4, <1>6 DEF Lists, r

\* A finite set that is not empty has a member with the greatest place.
LEMMA LastPlace ==
    ASSUME NEW D, NEW m, IsFiniteSet(D), D # {}, \A x \in D : m[x] \in Nat
    PROVE  \E x \in D : \A y \in D : m[y] <= m[x]
  <1> DEFINE HasLast(T) == \E x \in T : \A y \in T : m[y] <= m[x]
             Bad == {T \in SUBSET D : T # {} /\ ~ HasLast(T)}
  <1>1. SUFFICES ASSUME Bad # {} PROVE FALSE
    OBVIOUS
  <1>2. PICK T \in Bad : \A a \in T : T \ {a} \notin Bad
    <2>1. Bad \in SUBSET (SUBSET D)
      OBVIOUS
    <2> HIDE DEF Bad
    <2> QED BY <1>1, <2>1, MinimalMember
  <1>3. PICK a \in T : TRUE
    OBVIOUS
  <1> DEFINE U == T \ {a}
  <1>4. U # {}
    OBVIOUS
  <1>5. PICK b \in U : \A y \in U : m[y] <= m[b]
    BY <1>2, <1>4
  <1>6. HasLast(T)
    <2>1. CASE m[a] <= m[b] BY <2>1, <1>5
    <2>2. CASE m[b] <= m[a] BY <2>2, <1>5
    <2> QED BY <2>1, <2>2
  <1> QED BY <1>6

LEMMA ListsExists ==
    ASSUME NEW D, NEW m, Places(D, m)
    PROVE  \E q : Lists(q, D, m) /\ Len(q) = Cardinality(D)
  <1> DEFINE Listed(T) == \E q : Lists(q, T, m) /\ Len(q) = Cardinality(T)
             Bad == {T \in SUBSET D : ~ Listed(T)}
  <1> SUFFICES ASSUME Bad # {} PROVE FALSE
    OBVIOUS
  <1>1. PICK T \in Bad : \A x \in T : T \ {x} \notin Bad
    <2>1. Bad \in SUBSET (SUBSET D) /\ IsFiniteSet(D)
      BY DEF Places
    <2> HIDE DEF Bad
    <2> QED BY <2>1, MinimalMember
  <1>2. Listed({})
    <2>1. Lists(<<>>, {}, m) /\ Len(<<>>) = 0
      BY DEF Lists, Increasing
    <2>2. Cardinality({}) = 0
      BY FS_EmptySet
    <2> QED BY <2>1, <2>2
  <1>3. T # {} /\ IsFiniteSet(T) /\ \A x \in T : m[x] \in Nat
    BY <1>2, FS_Subset DEF Places
  <1>4. PICK x \in T : \A y \in T : m[y] <= m[x]
    BY <1>3, LastPlace
  <1>5. PICK q : Lists(q, T \ {x}, m) /\ Len(q) = Cardinality(T \ {x})
    BY <1>1
  <1>6. \A y \in T \ {x} : m[y] < m[x]
    BY <1>3, <1>4 DEF Places
  <1>7. Lists(Append(q, x), (T \ {x}) \cup {x}, m) /\ Len(Append(q, x)) = Len(q) + 1
    <2> DEFINE U == T \ {x}
    <2>1. Lists(q, U, m) /\ x \notin U /\ \A y \in U : m[y] = m[y] /\ m[y] < m[x]
      BY <1>5, <1>6
    <2> HIDE DEF U
    <2>2. Lists(Append(q, x), U \cup {x}, m) /\ Len(Append(q, x)) = Len(q) + 1
      BY <2>1, ListsAppend
    <2> QED BY <2>2 DEF U
  <1>8. (T \ {x}) \cup {x} = T
    OBVIOUS
  <1>9. Cardinality(T \ {x}) + 1 = Cardinality(T)
    <2>1. Cardinality(T \ {x}) = Cardinality(T) - 1 /\ Cardinality(T) \in Nat
      BY <1>3, FS_RemoveElement, FS_CardinalityType
    <2> QED BY <2>1
  <1>10. Listed(T)
    BY <1>5, <1>7, <1>8, <1>9
  <1> QED BY <1>10

LEMMA ListsLen ==
    ASSUME NEW D, NEW m, NEW q, Lists(q, D, m), Places(D, m)
    PROVE  Len(q) = Cardinality(D) /\ Cardinality(D) \in Nat
  <1>1. PICK r : Lists(r, D, m) /\ Len(r) = Cardinality(D)
    BY ListsExists
  <1>2. q = r
    BY <1>1, ListsUnique
  <1> QED BY <1>1, <1>2, FS_CardinalityType DEF Places

\* To list a set is to sort the sequences that have each of its members once.
LEMMA SeqsListing ==
    ASSUME NEW D, NEW m, Places(D, m)
    PROVE  /\ \E q \in SetToSeqs(D) : Increasing(q, m)
           /\ \A q \in SetToSeqs(D) : Increasing(q, m) => Lists(q, D, m)
  <1> DEFINE n == Cardinality(D)
             I == 1 .. n
  <1>1. IsFiniteSet(D) /\ n \in Nat
    BY FS_CardinalityType DEF Places
  <1>2. \A q : q \in SetToSeqs(D) <=>
            q \in [I -> D] /\ \A i, j \in I : i # j => q[i] # q[j]
    BY DEF SetToSeqs
  <1>3. PICK r : Lists(r, D, m) /\ Len(r) = n
    BY ListsExists
  <1> HIDE DEF n
  <1>4. r \in [I -> D]
    BY <1>1, <1>3 DEF Lists
  <1>5. Increasing(r, m)
    BY <1>3 DEF Lists
  <1>6. ASSUME NEW i \in I, NEW j \in I, i # j PROVE r[i] # r[j]
    <2>1. r[i] \in D /\ r[j] \in D /\ m[r[i]] \in Nat /\ m[r[j]] \in Nat
      BY <1>4 DEF Places
    <2>2. i < j \/ j < i
      BY <1>1, <1>6
    <2>3. m[r[i]] < m[r[j]] \/ m[r[j]] < m[r[i]]
      BY <1>4, <1>5, <2>2 DEF Increasing
    <2> QED BY <2>1, <2>3
  <1>7. r \in SetToSeqs(D)
    BY <1>2, <1>4, <1>6
  <1>8. ASSUME NEW q \in SetToSeqs(D), Increasing(q, m) PROVE Lists(q, D, m)
    <2>1. q \in [I -> D] /\ \A i, j \in I : i # j => q[i] # q[j]
      BY <1>2
    <2>2. q \in Injection(I, D)
      BY <2>1 DEF Injection, IsInjective
    <2>3. Cardinality(I) = Cardinality(D)
      BY <1>1, FS_Interval DEF n
    <2>4. q \in Surjection(I, D)
      BY <1>1, <2>2, <2>3, FS_Injection
    <2>5. \A x \in D : \E i \in DOMAIN q : q[i] = x
      BY <2>1, <2>4 DEF Surjection
    <2>6. q \in Seq(D)
      BY <1>1, <2>1
    <2> QED BY <1>8, <2>5, <2>6 DEF Lists
  <1> QED BY <1>5, <1>7, <1>8

\* q with the member at place k taken out
Gap(q, k) == [i \in 1 .. Len(q) - 1 |-> IF i < k THEN q[i] ELSE q[i + 1]]

\* Who is taken out leaves the others in their order.
LEMMA ListsGap ==
    ASSUME NEW D, NEW m, NEW q, Lists(q, D, m), Places(D, m), NEW k \in DOMAIN q
    PROVE  Lists(Gap(q, k), D \ {q[k]}, m)
  <1> DEFINE n == Len(q) - 1
             up(i) == IF i < k THEN i ELSE i + 1
             r == Gap(q, k)
             x == q[k]
  <1>1. q \in Seq(D) /\ Len(q) \in Nat /\ DOMAIN q = 1 .. Len(q)
    BY DEF Lists
  <1>2. k \in 1 .. Len(q) /\ q[k] = x
    BY <1>1 DEF Lists
  <1>3. r = [i \in 1 .. n |-> IF i < k THEN q[i] ELSE q[i + 1]]
    BY DEF Gap
  <1> HIDE DEF r
  <1>4. n \in Nat /\ DOMAIN r = 1 .. n
    BY <1>1, <1>2, <1>3
  <1>5. ASSUME NEW i \in 1 .. n
        PROVE  up(i) \in DOMAIN q /\ up(i) # k /\ r[i] = q[up(i)]
    BY <1>1, <1>2, <1>3, <1>4
  <1>6. \A i \in DOMAIN q : i # k => q[i] \in D \ {x}
    <2> SUFFICES ASSUME NEW i \in DOMAIN q, i # k, q[i] = x PROVE FALSE
      BY <1>1
    <2>1. i < k \/ k < i
      BY <1>1, <1>2
    <2>2. m[x] < m[x] /\ m[x] \in Nat
      BY <1>1, <1>2, <2>1 DEF Lists, Increasing, Places
    <2> QED BY <2>2
  <1>7. r \in Seq(D \ {x})
    <2>1. \A i \in 1 .. n : r[i] \in D \ {x}
      BY <1>5, <1>6
    <2>2. r = [i \in 1 .. n |-> r[i]]
      BY <1>3, <1>4
    <2> QED BY <1>4, <2>1, <2>2
  <1>8. ASSUME NEW y \in D \ {x} PROVE \E i \in DOMAIN r : r[i] = y
    <2>1. PICK j \in DOMAIN q : q[j] = y
      BY DEF Lists
    <2>2. j # k
      BY <1>2, <2>1
    <2>3. CASE j < k
      <3>1. j \in 1 .. n /\ r[j] = q[j]
        BY <1>1, <1>2, <1>3, <2>3
      <3> QED BY <1>4, <2>1, <3>1
    <2>4. CASE k < j
      <3>1. j - 1 \in 1 .. n /\ r[j - 1] = q[j]
        BY <1>1, <1>2, <1>3, <2>4
      <3> QED BY <1>4, <2>1, <3>1
    <2> QED BY <1>1, <1>2, <2>2, <2>3, <2>4
  <1>9. ASSUME NEW i \in DOMAIN r, NEW j \in DOMAIN r, i < j
        PROVE  m[r[i]] < m[r[j]]
    <2>1. up(i) \in DOMAIN q /\ r[i] = q[up(i)] /\ up(j) \in DOMAIN q /\ r[j] = q[up(j)]
      BY <1>4, <1>5
    <2>2. up(i) < up(j)
      BY <1>1, <1>2, <1>4, <1>9
    <2> HIDE DEF up
    <2> QED BY <2>1, <2>2 DEF Lists, Increasing
  <1> QED BY <1>7, <1>8, <1>9 DEF Lists, Increasing, r

\* Who has the least place is the first.
FirstOf(D, m, f) == f \in D /\ \A x \in D : m[f] <= m[x]

LEMMA HeadIsFirst ==
    ASSUME NEW D, NEW m, NEW q, Lists(q, D, m), Places(D, m), NEW f, FirstOf(D, m, f)
    PROVE  /\ q # <<>> /\ Head(q) = f /\ Tail(q) = Gap(q, 1)
           /\ \A j \in DOMAIN q : q[j] = f <=> j = 1
  <1> USE DEF FirstOf
  <1>1. q \in Seq(D) /\ Len(q) \in Nat /\ DOMAIN q = 1 .. Len(q)
    BY DEF Lists
  <1>2. PICK i \in DOMAIN q : q[i] = f
    BY DEF Lists
  <1>3. q # <<>> /\ 1 \in DOMAIN q /\ Head(q) = q[1]
    BY <1>1, <1>2
  <1>4. \A j \in DOMAIN q : q[j] = f => j = 1
    <2> SUFFICES ASSUME NEW j \in DOMAIN q, q[j] = f, 1 < j PROVE FALSE
      BY <1>1
    <2>1. m[q[1]] < m[f] /\ q[1] \in D
      BY <1>1, <1>3 DEF Lists, Increasing
    <2>2. m[q[1]] \in Nat /\ m[f] \in Nat /\ m[f] <= m[q[1]]
      BY <2>1 DEF Places
    <2> QED BY <2>1, <2>2
  <1> DEFINE t == Tail(q)
             w == Gap(q, 1)
             n == Len(q) - 1
  <1>5. /\ t \in Seq(D) /\ Len(t) = n /\ n \in Nat
        /\ \A j \in 1 .. n : t[j] = q[j + 1]
    BY <1>1, <1>3
  <1>6. w = [j \in 1 .. n |-> IF j < 1 THEN q[j] ELSE q[j + 1]]
    BY DEF Gap
  <1> HIDE DEF t, w
  <1>7. w = [j \in 1 .. n |-> t[j]]
    <2>1. \A j \in 1 .. n : ~ (j < 1)
      BY <1>5
    <2> QED BY <1>5, <1>6, <2>1
  <1>8. t = [j \in 1 .. n |-> t[j]]
    BY <1>5
  <1>9. q[1] = f
    BY <1>2, <1>4
  <1> QED BY <1>3, <1>4, <1>7, <1>8, <1>9 DEF t, w

-----------------------------------------------------------------------------
(***************************************************************************)
(* Sums over finite sets.  SumFun says what MapThenSumSet computes for all *)
(* subsets of a set at once, without fixing an order of summation.         *)
(***************************************************************************)

SumFun(F, f, D) ==
    /\ F \in [SUBSET D -> Nat]
    /\ F[{}] = 0
    /\ \A T \in SUBSET D : \A x \in T : F[T] = f[x] + F[T \ {x}]

LEMMA SumExists ==
    ASSUME NEW D, IsFiniteSet(D), NEW f, \A x \in D : f[x] \in Nat
    PROVE  \E F : SumFun(F, f, D)
  <1> DEFINE Bad == {T \in SUBSET D : ~ \E F : SumFun(F, f, T)}
  <1> SUFFICES ASSUME Bad # {} PROVE FALSE
    OBVIOUS
  <1>1. PICK T \in Bad : \A x \in T : T \ {x} \notin Bad
    <2> HIDE DEF Bad
    <2>1. Bad \in SUBSET (SUBSET D)
      BY DEF Bad
    <2> QED BY <2>1, MinimalMember
  <1>2. SumFun([s \in SUBSET {} |-> 0], f, {})
    BY DEF SumFun
  <1>3. PICK a \in T : TRUE
    BY <1>2
  <1>4. PICK G : SumFun(G, f, T \ {a})
    BY <1>1, <1>3
  <1> DEFINE F == [s \in SUBSET T |->
                    IF a \in s THEN f[a] + G[s \ {a}] ELSE G[s]]
  <1>5. /\ \A s \in SUBSET (T \ {a}) : G[s] \in Nat
        /\ \A s \in SUBSET (T \ {a}) : \A x \in s : G[s] = f[x] + G[s \ {x}]
        /\ G[{}] = 0
    BY <1>4 DEF SumFun
  <1>6. F \in [SUBSET T -> Nat]
    <2>1. ASSUME NEW s \in SUBSET T
          PROVE  (IF a \in s THEN f[a] + G[s \ {a}] ELSE G[s]) \in Nat
      <3>1. CASE a \in s
        <4>1. s \ {a} \in SUBSET (T \ {a}) /\ f[a] \in Nat
          OBVIOUS
        <4> QED BY <3>1, <4>1, <1>5
      <3>2. CASE a \notin s
        <4>1. s \in SUBSET (T \ {a})
          BY <3>2
        <4> QED BY <3>2, <4>1, <1>5
      <3> QED BY <3>1, <3>2
    <2> QED BY <2>1
  <1>7. F[{}] = 0
    BY <1>5
  <1>8. ASSUME NEW s \in SUBSET T, NEW x \in s
        PROVE  F[s] = f[x] + F[s \ {x}]
    <2>1. CASE a \notin s
      <3>1. s \in SUBSET (T \ {a}) /\ a \notin s \ {x} /\ s \ {x} \in SUBSET T
        BY <2>1
      <3> QED BY <2>1, <3>1, <1>5
    <2>2. CASE x = a
      <3>1. s \ {x} \in SUBSET T /\ a \notin s \ {x} /\ a \in s
        BY <2>2
      <3> QED BY <2>2, <3>1
    <2>3. CASE a \in s /\ x # a
      <3> DEFINE r == (s \ {a}) \ {x}
      <3>1. s \ {a} \in SUBSET (T \ {a}) /\ x \in s \ {a}
        BY <2>3
      <3>2. G[s \ {a}] = f[x] + G[r] /\ r \in SUBSET (T \ {a})
        BY <3>1, <1>5
      <3>3. (s \ {x}) \ {a} = r /\ a \in s \ {x} /\ s \ {x} \in SUBSET T
        BY <2>3
      <3>4. F[s] = f[a] + G[s \ {a}] /\ F[s \ {x}] = f[a] + G[r]
        BY <2>3, <3>3
      <3>5. f[a] \in Nat /\ f[x] \in Nat /\ G[r] \in Nat
        BY <3>2, <1>5
      <3> HIDE DEF F, r
      <3> QED BY <3>2, <3>4, <3>5
    <2> QED BY <2>1, <2>2, <2>3
  <1> HIDE DEF F
  <1>9. SumFun(F, f, T)
    BY <1>6, <1>7, <1>8 DEF SumFun
  <1> QED BY <1>9

\* The recursion of MapThenFoldSet, which picks the elements one by one.
Pick(s) == CHOOSE x \in s : TRUE
Iterates(g, f, D) ==
    g = [s \in SUBSET D |-> IF s = {} THEN 0 ELSE f[Pick(s)] + g[s \ {Pick(s)}]]

LEMMA IteratesIsSum ==
    ASSUME NEW D, IsFiniteSet(D), NEW f, NEW F, SumFun(F, f, D), NEW g
    PROVE  Iterates(g, f, D) <=> g = F
  <1>1. \A s \in SUBSET D : s # {} => Pick(s) \in s
    BY DEF Pick
  <1>2. Iterates(F, f, D)
    <2>1. F = [s \in SUBSET D |-> F[s]]
      BY DEF SumFun
    <2>2. \A s \in SUBSET D :
            F[s] = IF s = {} THEN 0 ELSE f[Pick(s)] + F[s \ {Pick(s)}]
      BY <1>1 DEF SumFun
    <2>3. [s \in SUBSET D |-> F[s]] =
            [s \in SUBSET D |->
                IF s = {} THEN 0 ELSE f[Pick(s)] + F[s \ {Pick(s)}]]
      BY <2>2
    <2> QED BY <2>1, <2>3 DEF Iterates
  <1>3. ASSUME Iterates(g, f, D) PROVE g = F
    <2> DEFINE Bad == {s \in SUBSET D : g[s] # F[s]}
    <2>1. /\ g = [s \in SUBSET D |-> g[s]]
          /\ \A s \in SUBSET D :
                g[s] = IF s = {} THEN 0 ELSE f[Pick(s)] + g[s \ {Pick(s)}]
      BY <1>3 DEF Iterates
    <2>2. ASSUME Bad # {} PROVE FALSE
      <3>1. PICK s \in Bad : \A x \in s : s \ {x} \notin Bad
        <4>1. Bad \in SUBSET (SUBSET D)
          OBVIOUS
        <4> HIDE DEF Bad
        <4> QED BY <2>2, <4>1, MinimalMember
      <3>2. CASE s = {}
        BY <2>1, <3>2 DEF SumFun
      <3>3. CASE s # {}
        <4> DEFINE x == Pick(s)
        <4>1. x \in s /\ s \in SUBSET D /\ s \ {x} \in SUBSET D
          BY <1>1, <3>3
        <4>2. g[s] = f[x] + g[s \ {x}] /\ F[s] = f[x] + F[s \ {x}]
          BY <2>1, <3>3, <4>1 DEF SumFun
        <4>3. g[s \ {x}] = F[s \ {x}]
          BY <3>1, <4>1
        <4> QED BY <3>1, <4>2, <4>3
      <3> QED BY <3>2, <3>3
    <2>3. \A s \in SUBSET D : g[s] = F[s]
      BY <2>2
    <2>4. F = [s \in SUBSET D |-> F[s]]
      BY DEF SumFun
    <2> QED BY <2>1, <2>3, <2>4
  <1> QED BY <1>2, <1>3


\* The sum of f over S
Total(f, S) == (CHOOSE g : Iterates(g, f, S))[S]

Summable(f, S) == IsFiniteSet(S) /\ \A x \in S : f[x] \in Nat

LEMMA TotalIs ==
    ASSUME NEW S, IsFiniteSet(S), NEW f, NEW F, SumFun(F, f, S)
    PROVE  Total(f, S) = F[S]
  <1>1. \A g : Iterates(g, f, S) <=> g = F
    BY IteratesIsSum
  <1>2. (CHOOSE g : Iterates(g, f, S)) = F
    BY <1>1
  <1> QED BY <1>2 DEF Total

\* A sum function of a set is one of its subsets, too.
LEMMA SumOfSubset ==
    ASSUME NEW S, NEW R \in SUBSET S, IsFiniteSet(S), NEW f, NEW F, SumFun(F, f, S)
    PROVE  Total(f, R) = F[R] /\ F[R] \in Nat
  <1> DEFINE G == [s \in SUBSET R |-> F[s]]
  <1>1. /\ G \in [SUBSET R -> Nat] /\ G[{}] = 0
        /\ \A T \in SUBSET R : G[T] = F[T]
    BY DEF SumFun
  <1>2. ASSUME NEW T \in SUBSET R, NEW y \in T PROVE G[T] = f[y] + G[T \ {y}]
    <2>1. T \in SUBSET S /\ T \ {y} \in SUBSET R
      OBVIOUS
    <2> QED BY <1>1, <2>1 DEF SumFun
  <1> HIDE DEF G
  <1>3. SumFun(G, f, R) /\ IsFiniteSet(R)
    BY <1>1, <1>2, FS_Subset DEF SumFun
  <1>4. Total(f, R) = G[R]
    BY <1>3, TotalIs
  <1> QED BY <1>1, <1>4 DEF SumFun

LEMMA TotalEmpty == ASSUME NEW f PROVE Total(f, {}) = 0
  <1> DEFINE F == [s \in SUBSET {} |-> 0]
  <1>1. SumFun(F, f, {}) /\ F[{}] = 0
    BY DEF SumFun
  <1> HIDE DEF F
  <1>2. IsFiniteSet({})
    BY FS_EmptySet
  <1>3. Total(f, {}) = F[{}]
    BY <1>1, <1>2, TotalIs
  <1> QED BY <1>1, <1>3

\* Any one summand can be taken out.
LEMMA TotalSplit ==
    ASSUME NEW f, NEW S, Summable(f, S), NEW x \in S
    PROVE  /\ Total(f, S) = f[x] + Total(f, S \ {x})
           /\ Total(f, S) \in Nat /\ Total(f, S \ {x}) \in Nat
  <1>1. PICK F : SumFun(F, f, S)
    BY SumExists DEF Summable
  <1> DEFINE R == S \ {x}
  <1>2. R \in SUBSET S /\ S \in SUBSET S /\ IsFiniteSet(S)
    BY DEF Summable
  <1>3. F[S] = f[x] + F[R]
    BY <1>1 DEF SumFun
  <1> HIDE DEF R
  <1>4. /\ Total(f, R) = F[R] /\ F[R] \in Nat
        /\ Total(f, S) = F[S] /\ F[S] \in Nat
    BY <1>1, <1>2, SumOfSubset
  <1> QED BY <1>3, <1>4 DEF R

\* Two sums are the same if their summands are, one for one.
OneForOne(f, S, g, T, h) ==
    /\ Summable(f, S) /\ IsFiniteSet(T)
    /\ T = {h[x] : x \in S}
    /\ \A x, y \in S : h[x] = h[y] => x = y
    /\ \A x \in S : g[h[x]] = f[x]

LEMMA TotalMapped ==
    ASSUME NEW f, NEW S, NEW g, NEW T, NEW h, OneForOne(f, S, g, T, h)
    PROVE  Total(g, T) = Total(f, S) /\ Summable(g, T)
  <1> USE DEF OneForOne
  <1> DEFINE Img(s) == {h[x] : x \in s}
             Bad == {s \in SUBSET S : Total(g, Img(s)) # Total(f, s)}
  <1>1. ASSUME Bad # {} PROVE FALSE
    <2>1. PICK s \in Bad : \A x \in s : s \ {x} \notin Bad
      <3>1. Bad \in SUBSET (SUBSET S) /\ IsFiniteSet(S)
        BY DEF Summable
      <3> HIDE DEF Bad
      <3> QED BY <1>1, <3>1, MinimalMember
    <2>2. CASE s = {}
      <3>1. Img(s) = {}
        BY <2>2
      <3> QED BY <2>1, <2>2, <3>1, TotalEmpty
    <2>3. CASE s # {}
      <3>1. PICK x \in s : TRUE
        BY <2>3
      <3> DEFINE r == s \ {x}
                 I == Img(s)
      <3>2. I \in SUBSET T /\ h[x] \in I /\ I \ {h[x]} = Img(r)
        OBVIOUS
      <3>3. Summable(f, s) /\ Summable(g, I)
        BY <3>2, FS_Subset DEF Summable
      <3>4. Total(g, Img(r)) = Total(f, r)
        BY <2>1, <3>1
      <3> HIDE DEF I, r
      <3>5. /\ Total(f, s) = f[x] + Total(f, r)
            /\ Total(g, I) = g[h[x]] + Total(g, Img(r))
        BY <3>1, <3>2, <3>3, TotalSplit DEF r
      <3>6. Total(g, Img(s)) = Total(f, s)
        BY <3>1, <3>4, <3>5 DEF I
      <3> QED BY <2>1, <3>6
    <2> QED BY <2>2, <2>3
  <1>2. S \notin Bad /\ S \in SUBSET S /\ Img(S) = T
    BY <1>1
  <1>3. Total(g, T) = Total(f, S)
    BY <1>2
  <1> QED BY <1>3 DEF Summable

\* A sum depends on its summands only.
LEMMA TotalSame ==
    ASSUME NEW f, NEW S, Summable(f, S), NEW g, \A x \in S : g[x] = f[x]
    PROVE  Total(g, S) = Total(f, S) /\ Summable(g, S)
  <1> DEFINE h == [x \in S |-> x]
  <1>1. OneForOne(f, S, g, S, h)
    BY DEF OneForOne, Summable
  <1> HIDE DEF h
  <1> QED BY <1>1, TotalMapped

\* A sum is a natural number.
LEMMA TotalNat ==
    ASSUME NEW f, NEW S, Summable(f, S)
    PROVE  Total(f, S) \in Nat
  <1>1. CASE S = {}
    BY <1>1, TotalEmpty
  <1>2. CASE S # {}
    <2>1. PICK x \in S : TRUE
      BY <1>2
    <2> QED BY <2>1, TotalSplit
  <1> QED BY <1>1, <1>2

\* What adds nothing can be left out.
LEMMA TotalZeros ==
    ASSUME NEW f, NEW S, Summable(f, S), NEW R \in SUBSET S,
           \A x \in S \ R : f[x] = 0
    PROVE  Total(f, S) = Total(f, R)
  <1> DEFINE Bad == {Z \in SUBSET (S \ R) : Total(f, R \cup Z) # Total(f, R)}
  <1>1. ASSUME Bad # {} PROVE FALSE
    <2>1. PICK Z \in Bad : \A x \in Z : Z \ {x} \notin Bad
      <3>1. Bad \in SUBSET (SUBSET S) /\ IsFiniteSet(S)
        BY DEF Summable
      <3> HIDE DEF Bad
      <3> QED BY <1>1, <3>1, MinimalMember
    <2>2. CASE Z = {}
      <3>1. R \cup Z = R
        BY <2>2
      <3> QED BY <2>1, <3>1
    <2>3. CASE Z # {}
      <3>1. PICK x \in Z : TRUE
        BY <2>3
      <3> DEFINE U == R \cup Z
                 V == R \cup (Z \ {x})
      <3>2. U \in SUBSET S /\ x \in U /\ U \ {x} = V /\ f[x] = 0
        BY <3>1
      <3>3. Summable(f, U)
        BY <3>2, FS_Subset DEF Summable
      <3>4. Total(f, V) = Total(f, R)
        BY <2>1, <3>1
      <3>5. Total(f, U) # Total(f, R)
        BY <2>1
      <3> HIDE DEF U, V
      <3>6. Total(f, U) = f[x] + Total(f, V) /\ Total(f, V) \in Nat
        BY <3>2, <3>3, TotalSplit
      <3> QED BY <3>2, <3>4, <3>5, <3>6
    <2> QED BY <2>2, <2>3
  <1>2. S \ R \notin Bad /\ R \cup (S \ R) = S
    BY <1>1
  <1> QED BY <1>2

\* Finite sets M[p] that have no member in common
Apart(M, S) ==
    /\ IsFiniteSet(S)
    /\ \A p \in S : IsFiniteSet(M[p])
    /\ \A p, q \in S : p # q => M[p] \cap M[q] = {}

\* The sizes of such sets add up to the size of their union.
LEMMA TotalCardinality ==
    ASSUME NEW M, NEW S, Apart(M, S), NEW f, \A p \in S : f[p] = Cardinality(M[p])
    PROVE  /\ Total(f, S) = Cardinality(UNION {M[p] : p \in S})
           /\ IsFiniteSet(UNION {M[p] : p \in S})
  <1> DEFINE All(s) == UNION {M[p] : p \in s}
             OK(s) == IsFiniteSet(All(s)) /\ Total(f, s) = Cardinality(All(s))
             Bad == {s \in SUBSET S : ~ OK(s)}
  <1>1. Summable(f, S)
    BY FS_CardinalityType DEF Summable, Apart
  <1>2. ASSUME Bad # {} PROVE FALSE
    <2>1. PICK s \in Bad : \A p \in s : s \ {p} \notin Bad
      <3>1. Bad \in SUBSET (SUBSET S) /\ IsFiniteSet(S)
        BY DEF Apart
      <3> HIDE DEF Bad
      <3> QED BY <1>2, <3>1, MinimalMember
    <2>2. CASE s = {}
      <3>1. All(s) = {}
        BY <2>2
      <3>2. IsFiniteSet({}) /\ Cardinality({}) = 0
        BY FS_EmptySet
      <3>3. Total(f, s) = 0
        BY <2>2, TotalEmpty
      <3> QED BY <2>1, <3>1, <3>2, <3>3
    <2>3. CASE s # {}
      <3>1. PICK p \in s : TRUE
        BY <2>3
      <3> DEFINE r == s \ {p}
                 A == All(r)
                 B == M[p]
      <3>2. All(s) = A \cup B /\ r \in SUBSET S
        OBVIOUS
      <3>3. A \cap B = {}
        BY <3>1 DEF Apart
      <3>4. OK(r)
        BY <2>1, <3>1, <3>2
      <3>5. IsFiniteSet(A) /\ Total(f, r) = Cardinality(A)
        BY <3>4
      <3>6. IsFiniteSet(B) /\ f[p] = Cardinality(B)
        BY <3>1 DEF Apart
      <3>7. Summable(f, s)
        BY <1>1, FS_Subset DEF Summable
      <3>8. Total(f, s) = f[p] + Total(f, r) /\ Total(f, r) \in Nat
        BY <3>1, <3>7, TotalSplit
      <3> HIDE DEF A, B, r
      <3>9. /\ IsFiniteSet(A \cup B) /\ A \cap B = {}
            /\ Cardinality(A \cup B) =
                    Cardinality(A) + Cardinality(B) - Cardinality(A \cap B)
            /\ Cardinality(A) \in Nat /\ Cardinality(B) \in Nat
        BY <3>3, <3>5, <3>6, FS_Union, FS_CardinalityType
      <3>10. Cardinality(A \cap B) = 0
        <4>1. Cardinality({}) = 0
          BY FS_EmptySet
        <4> QED BY <3>3, <4>1
      <3>11. Total(f, s) = Cardinality(A \cup B)
        BY <3>5, <3>6, <3>8, <3>9, <3>10
      <3>12. OK(s)
        BY <3>2, <3>9, <3>11
      <3> QED BY <2>1, <3>12
    <2> QED BY <2>2, <2>3
  <1>3. S \in SUBSET S /\ S \notin Bad
    BY <1>2
  <1>4. OK(S)
    BY <1>3
  <1> QED BY <1>4

-----------------------------------------------------------------------------
(***************************************************************************)
(* One price level, whose orders are members of I                          *)
(***************************************************************************)

Entries(I) == [order : I, is_valid : BOOLEAN]

LevelWith(I, level) ==
    /\ DOMAIN level = {"order_entries", "queue_head_index", "orders_map"}
    /\ level.order_entries \in Seq(Entries(I))
    /\ level.queue_head_index \in Nat \ {0}

\* An entry made a tombstone and an id taken out of the map.
Buried(level, i, id) ==
    [level EXCEPT
        !.order_entries[i].is_valid = FALSE,
        !.orders_map = Restrict(@, DOMAIN @ \ {id})]

LEMMA BuriedLevel ==
    ASSUME NEW I, NEW level, LevelWith(I, level), NEW id, NEW i \in DOMAIN level.order_entries
    PROVE  LET lv == Buried(level, i, id)
           IN  /\ LevelWith(I, lv)
               /\ lv.queue_head_index = level.queue_head_index
               /\ DOMAIN lv.order_entries = DOMAIN level.order_entries
               /\ Len(lv.order_entries) = Len(level.order_entries)
               /\ ~ lv.order_entries[i].is_valid
               /\ \A j \in DOMAIN level.order_entries :
                    /\ lv.order_entries[j].order = level.order_entries[j].order
                    /\ j # i => lv.order_entries[j] = level.order_entries[j]
               /\ DOMAIN lv.orders_map = DOMAIN level.orders_map \ {id}
               /\ \A x \in DOMAIN lv.orders_map :
                    lv.orders_map[x] = level.orders_map[x]
  <1> DEFINE lv == Buried(level, i, id)
             old == level.order_entries
             e == [old EXCEPT ![i].is_valid = FALSE]
             m == Restrict(level.orders_map, DOMAIN level.orders_map \ {id})
  <1>1. /\ lv.order_entries = e /\ lv.orders_map = m
        /\ lv.queue_head_index = level.queue_head_index
        /\ DOMAIN lv = {"order_entries", "queue_head_index", "orders_map"}
    BY DEF LevelWith, Buried
  <1>2. old \in Seq(Entries(I)) /\ old[i] \in Entries(I)
    BY DEF LevelWith
  <1> DEFINE dead == [old[i] EXCEPT !.is_valid = FALSE]
  <1>3. dead \in Entries(I) /\ ~ dead.is_valid /\ dead.order = old[i].order
    BY <1>2 DEF Entries
  <1>4. e = [old EXCEPT ![i] = dead]
    OBVIOUS
  <1> HIDE DEF dead, e
  <1>5. /\ e \in Seq(Entries(I)) /\ Len(e) = Len(old) /\ DOMAIN e = DOMAIN old
        /\ e[i] = dead /\ \A j \in DOMAIN old : j # i => e[j] = old[j]
    BY <1>2, <1>3, <1>4
  <1>6. /\ DOMAIN m = DOMAIN level.orders_map \ {id}
        /\ \A x \in DOMAIN m : m[x] = level.orders_map[x]
    BY DEF Restrict
  <1> HIDE DEF m
  <1> QED BY <1>1, <1>3, <1>5, <1>6 DEF LevelWith

\* increment_to_valid finds the first valid entry, provided that the map of a
\* level that is not empty has one at or behind the head.
LEMMA IncrementedLevel ==
    ASSUME NEW I, NEW level, LevelWith(I, level), ~ Empty(level),
           NEW k \in DOMAIN level.order_entries,
           level.order_entries[k].is_valid, level.queue_head_index <= k
    PROVE  LET lv == IncrementToValid(level)
           IN  /\ LevelWith(I, lv)
               /\ lv.order_entries = level.order_entries
               /\ lv.orders_map = level.orders_map
               /\ lv.queue_head_index \in DOMAIN level.order_entries
               /\ level.order_entries[lv.queue_head_index].is_valid
               /\ \A j \in DOMAIN level.order_entries :
                    level.order_entries[j].is_valid /\ level.queue_head_index <= j
                        => lv.queue_head_index <= j
  <1> DEFINE e == level.order_entries
             h == level.queue_head_index
             First(i) == e[i].is_valid /\ \A j \in h .. (i - 1) : ~ e[j].is_valid
             n == CHOOSE i \in h .. Len(e) : First(i)
             lv == IncrementToValid(level)
  <1>1. h \in Nat \ {0} /\ Len(e) \in Nat /\ DOMAIN e = 1 .. Len(e)
    BY DEF LevelWith
  <1>2. \E i \in h .. Len(e) : First(i)
    <2> DEFINE V == {j \in h .. Len(e) : e[j].is_valid}
    <2>1. V \in SUBSET Nat /\ k \in V
      BY <1>1
    <2>2. PICK i \in V : \A j \in V : i <= j
      BY <2>1, LeastNat
    <2>3. \A j \in h .. (i - 1) : j \notin V /\ j \in h .. Len(e)
      BY <2>1, <2>2, <1>1
    <2> QED BY <2>3
  <1>3. n \in h .. Len(e) /\ First(n)
    BY <1>2
  <1>4. /\ DOMAIN lv = {"order_entries", "queue_head_index", "orders_map"}
        /\ lv.order_entries = e /\ lv.orders_map = level.orders_map
        /\ lv.queue_head_index = n
    BY DEF IncrementToValid, LevelWith
  <1> HIDE DEF n, lv
  <1>5. \A j \in DOMAIN e : e[j].is_valid /\ h <= j => n <= j
    BY <1>1, <1>3
  <1> QED BY <1>1, <1>3, <1>4, <1>5 DEF LevelWith, lv

\* What TotalQty sums up
ValidEntries(level) == {i \in DOMAIN level.order_entries : level.order_entries[i].is_valid}

LEMMA ValidFinite ==
    ASSUME NEW I, NEW level, LevelWith(I, level)
    PROVE  IsFiniteSet(ValidEntries(level)) /\ ValidEntries(level) \subseteq Nat
  <1> DEFINE n == Len(level.order_entries)
  <1>1. n \in Nat /\ DOMAIN level.order_entries = 1 .. n
    BY DEF LevelWith
  <1> HIDE DEF n
  <1>2. IsFiniteSet(1 .. n)
    <2>1. 1 \in Int /\ n \in Int
      BY <1>1
    <2> QED BY <2>1, FS_Interval, Zenon
  <1>3. ValidEntries(level) \in SUBSET (1 .. n)
    BY <1>1 DEF ValidEntries
  <1> QED BY <1>1, <1>2, <1>3, FS_Subset

LEMMA TotalQtyIs ==
    ASSUME NEW level, NEW pool, NEW f,
           \A i \in ValidEntries(level) : f[i] = Available(pool[level.order_entries[i].order])
    PROVE  TotalQty(level, pool) = Total(f, ValidEntries(level))
  <1> DEFINE S == ValidEntries(level)
             Eq(g) == g = [s \in SUBSET S |->
                        IF s = {} THEN 0
                        ELSE Available(pool[level.order_entries[Pick(s)].order])
                                + g[s \ {Pick(s)}]]
  <1>1. TotalQty(level, pool) = (CHOOSE g : Eq(g))[S]
    BY DEF TotalQty, ValidEntries, MapThenSumSet, MapThenFoldSet, Pick
  <1> HIDE DEF S
  <1>2. \A g : Eq(g) <=> Iterates(g, f, S)
    <2>1. \A s \in SUBSET S : s # {} =>
            f[Pick(s)] = Available(pool[level.order_entries[Pick(s)].order])
      BY DEF Pick, S
    <2> QED BY <2>1 DEF Iterates
  <1> HIDE DEF Eq
  <1>3. (CHOOSE g : Eq(g)) = (CHOOSE g : Iterates(g, f, S))
    BY <1>2
  <1> QED BY <1>1, <1>3 DEF Total, S

=============================================================================
