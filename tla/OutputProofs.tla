----------------------------- MODULE OutputProofs -----------------------------
(***************************************************************************)
(* Proofs about Output: which items and findings the filters leave, in     *)
(* which order the sorts put them, and that the order the scanner found    *)
(* them in does not show.                                                  *)
(***************************************************************************)
EXTENDS Output, Induction, FiniteSetTheorems

---------------------------------------------------------------------------
(* Positions in an order.                                                  *)

Orders(R, K) ==
  /\ \A j, k \in K : <<j, k>> \in R \/ <<k, j>> \in R
  /\ \A j, k \in K : <<j, k>> \in R /\ <<k, j>> \in R => j = k
  /\ \A i, j, k \in K : <<i, j>> \in R /\ <<j, k>> \in R => <<i, k>> \in R

UpTo(R, K, k) == {j \in K : <<j, k>> \in R}

(* How many elements are up to one: a number of its own for each, in order. *)
LEMMA Ranking ==
  ASSUME NEW K, IsFiniteSet(K), NEW R, Orders(R, K)
  PROVE  /\ Cardinality(K) \in Nat
         /\ \A k \in K : Cardinality(UpTo(R, K, k)) \in 1..Cardinality(K)
         /\ \A j, k \in K : <<j, k>> \in R /\ j # k =>
              Cardinality(UpTo(R, K, j)) < Cardinality(UpTo(R, K, k))
         /\ \A r \in 1..Cardinality(K) :
              \E k \in K : Cardinality(UpTo(R, K, k)) = r
<1> DEFINE n == Cardinality(K)
           Rank == [k \in K |-> Cardinality(UpTo(R, K, k))]
<1>1. n \in Nat
  BY FS_CardinalityType
<1>2. ASSUME NEW k \in K
      PROVE  /\ IsFiniteSet(UpTo(R, K, k))
             /\ Cardinality(UpTo(R, K, k)) \in 1..n
  <2>1. UpTo(R, K, k) \in SUBSET K
    BY DEF UpTo
  <2>2. IsFiniteSet(UpTo(R, K, k)) /\ Cardinality(UpTo(R, K, k)) <= n
    BY <2>1, FS_Subset
  <2>3. Cardinality(UpTo(R, K, k)) \in Nat
    BY <2>2, FS_CardinalityType
  <2>4. k \in UpTo(R, K, k)
    BY DEF UpTo, Orders
  <2>5. Cardinality(UpTo(R, K, k)) # 0
    BY <2>2, <2>4, FS_EmptySet
  <2> QED
    BY <1>1, <2>2, <2>3, <2>5
<1>3. ASSUME NEW j \in K, NEW k \in K, <<j, k>> \in R, j # k
      PROVE  Cardinality(UpTo(R, K, j)) < Cardinality(UpTo(R, K, k))
  <2>1. UpTo(R, K, j) \in SUBSET UpTo(R, K, k)
    BY <1>3 DEF UpTo, Orders
  <2>2. k \in UpTo(R, K, k) /\ k \notin UpTo(R, K, j)
    BY <1>3 DEF UpTo, Orders
  <2>3. Cardinality(UpTo(R, K, j)) <= Cardinality(UpTo(R, K, k))
    BY <1>2, <2>1, FS_Subset
  <2>4. Cardinality(UpTo(R, K, j)) # Cardinality(UpTo(R, K, k))
    BY <1>2, <2>1, <2>2, FS_Subset
  <2> QED
    BY <1>2, <2>3, <2>4
<1>4. Rank \in Injection(K, 1..n)
  <2>1. Rank \in [K -> 1..n]
    BY <1>2
  <2>2. ASSUME NEW j \in K, NEW k \in K, Rank[j] = Rank[k] PROVE j = k
    <3>1. <<j, k>> \in R \/ <<k, j>> \in R
      BY DEF Orders
    <3> QED
      BY <1>2, <1>3, <2>2, <3>1
  <2> HIDE DEF Rank, n
  <2> QED
    BY <2>1, <2>2 DEF Injection, IsInjective
<1>5. IsFiniteSet(1..n) /\ Cardinality(1..n) = n
  BY <1>1, FS_Interval
<1>6. Rank \in Surjection(K, 1..n)
  BY <1>4, <1>5, FS_Injection
<1>7. \A r \in 1..n : \E k \in K : Rank[k] = r
  BY <1>6 DEF Surjection
<1> QED
  BY <1>1, <1>2, <1>3, <1>7

(* What Arranged returns: the elements at positions at[1], at[2], ..., each *)
(* position of K once, in the order R.                                     *)
Places(at, t, s, K, R) ==
  /\ at \in [1..Cardinality(K) -> K]
  /\ t = [r \in 1..Cardinality(K) |-> s[at[r]]]
  /\ \A q, r \in 1..Cardinality(K) : q < r => <<at[q], at[r]>> \in R /\ at[q] # at[r]
  /\ \A k \in K : \E r \in 1..Cardinality(K) : at[r] = k

LEMMA ArrangedPlaces ==
  ASSUME NEW s, NEW K, IsFiniteSet(K), NEW R, Orders(R, K)
  PROVE  /\ Cardinality(K) \in Nat
         /\ \E at : Places(at, Arranged(s, K, R), s, K, R)
<1> DEFINE n == Cardinality(K)
           Rank(k) == Cardinality(UpTo(R, K, k))
           at == [r \in 1..n |-> CHOOSE k \in K : Rank(k) = r]
<1>1. /\ n \in Nat
      /\ \A k \in K : Rank(k) \in 1..n
      /\ \A j, k \in K : <<j, k>> \in R /\ j # k => Rank(j) < Rank(k)
      /\ \A r \in 1..n : \E k \in K : Rank(k) = r
  BY Ranking
<1>2. ASSUME NEW r \in 1..n PROVE at[r] \in K /\ Rank(at[r]) = r
  BY <1>1
<1>3. Arranged(s, K, R) = [r \in 1..n |-> s[at[r]]]
  BY DEF Arranged, UpTo
<1>4. ASSUME NEW q \in 1..n, NEW r \in 1..n, q < r
      PROVE  <<at[q], at[r]>> \in R /\ at[q] # at[r]
  <2>1. at[q] \in K /\ at[r] \in K /\ Rank(at[q]) = q /\ Rank(at[r]) = r
    BY <1>2
  <2> HIDE DEF at, Rank
  <2>2. at[q] # at[r]
    BY <1>4, <2>1
  <2>3. <<at[q], at[r]>> \in R \/ <<at[r], at[q]>> \in R
    BY <2>1 DEF Orders
  <2> QED
    BY <1>1, <1>4, <2>1, <2>2, <2>3
<1>5. ASSUME NEW k \in K PROVE \E r \in 1..n : at[r] = k
  <2>1. Rank(k) \in 1..n
    BY <1>1
  <2>2. PICK r \in 1..n : r = Rank(k)
    BY <2>1
  <2>3. at[r] \in K /\ Rank(at[r]) = r
    BY <1>2
  <2> HIDE DEF at, Rank
  <2>4. at[r] = k
    <3>1. <<at[r], k>> \in R \/ <<k, at[r]>> \in R
      BY <2>3 DEF Orders
    <3> QED
      BY <1>1, <2>2, <2>3, <3>1
  <2> QED
    BY <2>4
<1>6. at \in [1..n -> K]
  BY <1>2
<1> HIDE DEF at, Rank
<1>7. Places(at, Arranged(s, K, R), s, K, R)
  BY <1>3, <1>4, <1>5, <1>6 DEF Places
<1> QED
  BY <1>1, <1>7

---------------------------------------------------------------------------
(* The filters.                                                            *)

(* s holds the items W, in the order of the places of their paths.         *)
Left(s, W, place) ==
  /\ s \in Seq(Item)
  /\ \A j, k \in DOMAIN s : j < k => place[s[j].path] < place[s[k].path]
  /\ W = {s[k] : k \in DOMAIN s}

LEMMA Erased ==
  ASSUME NEW s, NEW W, NEW place, Left(s, W, place), NEW Bad
  PROVE  Left(Arranged(s, {k \in DOMAIN s : s[k] \notin Bad}, Upwards(s)), W \ Bad, place)
<1> DEFINE K == {k \in DOMAIN s : s[k] \notin Bad}
           t == Arranged(s, K, Upwards(s))
<1>1. s \in Seq(Item) /\ DOMAIN s = 1..Len(s) /\ Len(s) \in Nat
  BY DEF Left
<1>2. IsFiniteSet(K)
  <2>1. IsFiniteSet(1..Len(s)) /\ K \in SUBSET (1..Len(s))
    BY <1>1, FS_Interval
  <2> QED
    BY <2>1, FS_Subset
<1>3. Orders(Upwards(s), K)
  BY <1>1 DEF Orders, Upwards
<1>4. PICK at : Places(at, t, s, K, Upwards(s))
  BY <1>2, <1>3, ArrangedPlaces
<1> DEFINE n == Cardinality(K)
<1>5. n \in Nat
  BY <1>2, FS_CardinalityType
<1> HIDE DEF t, n
<1>6. /\ at \in [1..n -> K]
      /\ t = [r \in 1..n |-> s[at[r]]]
      /\ \A q, r \in 1..n : q < r => <<at[q], at[r]>> \in Upwards(s) /\ at[q] # at[r]
      /\ \A k \in K : \E r \in 1..n : at[r] = k
  BY <1>4 DEF Places, n
<1>7. t \in Seq(Item) /\ DOMAIN t = 1..n
  <2>1. \A r \in 1..n : s[at[r]] \in Item
    BY <1>1, <1>6
  <2> QED
    BY <1>5, <1>6, <2>1
<1>8. ASSUME NEW q \in DOMAIN t, NEW r \in DOMAIN t, q < r
      PROVE  place[t[q].path] < place[t[r].path]
  <2>1. at[q] \in DOMAIN s /\ at[r] \in DOMAIN s /\ at[q] < at[r]
    <3>1. at[q] \in K /\ at[r] \in K /\ at[q] # at[r] /\ <<at[q], at[r]>> \in Upwards(s)
      BY <1>6, <1>7, <1>8
    <3>2. at[q] <= at[r]
      BY <3>1 DEF Upwards
    <3> QED
      BY <1>1, <3>1, <3>2
  <2>2. t[q] = s[at[q]] /\ t[r] = s[at[r]]
    BY <1>6, <1>7
  <2> QED
    BY <2>1, <2>2 DEF Left
<1>9. W \ Bad = {t[r] : r \in DOMAIN t}
  <2>1. ASSUME NEW x \in W \ Bad PROVE \E r \in DOMAIN t : t[r] = x
    <3>1. PICK k \in DOMAIN s : s[k] = x
      BY DEF Left
    <3>2. k \in K
      BY <3>1
    <3>3. PICK r \in 1..n : at[r] = k
      BY <1>6, <3>2
    <3> QED
      BY <1>6, <1>7, <3>1, <3>3
  <2>2. ASSUME NEW r \in DOMAIN t PROVE t[r] \in W \ Bad
    <3>1. at[r] \in K /\ t[r] = s[at[r]]
      BY <1>6, <1>7
    <3> QED
      BY <3>1 DEF Left
  <2> QED
    BY <2>1, <2>2
<1>10. Left(t, W \ Bad, place)
  BY <1>7, <1>8, <1>9 DEF Left
<1> QED
  BY <1>10 DEF t

PrunedItem(x, level) == [x EXCEPT !.findings = {id \in @ : ~Below(id, level)}]

LEMMA Pruned ==
  ASSUME NEW s, NEW W, NEW place, Left(s, W, place), NEW level
  PROVE  Left([k \in DOMAIN s |-> PrunedItem(s[k], level)],
              {PrunedItem(x, level) : x \in W}, place)
<1> DEFINE t == [k \in DOMAIN s |-> PrunedItem(s[k], level)]
<1>1. s \in Seq(Item) /\ DOMAIN s = 1..Len(s) /\ Len(s) \in Nat
  BY DEF Left
<1>2. ASSUME NEW x \in Item
      PROVE  PrunedItem(x, level) \in Item /\ PrunedItem(x, level).path = x.path
  BY DEF Item, PrunedItem
<1>3. t \in Seq(Item) /\ DOMAIN t = DOMAIN s
  BY <1>1, <1>2
<1>4. \A j, k \in DOMAIN t : j < k => place[t[j].path] < place[t[k].path]
  BY <1>1, <1>2 DEF Left
<1>5. {PrunedItem(x, level) : x \in W} = {t[k] : k \in DOMAIN t}
  BY DEF Left
<1> QED
  BY <1>3, <1>4, <1>5 DEF Left

(* The same filters on sets of items. *)
Matching(W, o) ==
  IF Given(o.filter) THEN W \ {x \in Item : x.name \notin Matches[o.filter]} ELSE W

Severe(W, o) ==
  IF Given(o.min_severity)
  THEN {PrunedItem(x, o.min_severity) : x \in W} \ {x \in Item : ~HasFindings(x)} ELSE W

Flagged(W, o) ==
  IF o.only_findings THEN W \ {x \in Item : ~HasFindings(x)} ELSE W

Chosen(W, o) == Flagged(Severe(Matching(W, o), o), o)

LEMMA FilterPhaseLeaves ==
  ASSUME NEW o \in Choices, NEW s, NEW W, NEW place, Left(s, W, place)
  PROVE  Left(FilterPhase(s, o), Chosen(W, o), place)
<1> DEFINE s1 == IF Given(o.filter) THEN ApplyFilter(s, o.filter) ELSE s
           s2 == IF Given(o.min_severity) THEN ApplyMinSeverity(s1, o.min_severity) ELSE s1
           s3 == IF Given(o.modified_before)
                 THEN ApplyModifiedBefore(s2, o.modified_before) ELSE s2
           s4 == IF Given(o.modified_after)
                 THEN ApplyModifiedAfter(s3, o.modified_after) ELSE s3
           s5 == IF o.only_findings THEN ApplyOnlyFindings(s4) ELSE s4
<1>1. FilterPhase(s, o) = s5
  BY DEF FilterPhase
<1>2. ASSUME NEW t, NEW X, Left(t, X, place)
      PROVE  Left(ApplyOnlyFindings(t), X \ {x \in Item : ~HasFindings(x)}, place)
  <2> DEFINE Bad == {x \in Item : ~HasFindings(x)}
  <2>1. {k \in DOMAIN t : t[k] \notin Bad} = {k \in DOMAIN t : ~ ~HasFindings(t[k])}
    BY <1>2 DEF Left
  <2>2. ApplyOnlyFindings(t) = Arranged(t, {k \in DOMAIN t : t[k] \notin Bad}, Upwards(t))
    BY <2>1 DEF ApplyOnlyFindings, EraseIf
  <2> HIDE DEF Bad
  <2>3. Left(ApplyOnlyFindings(t), X \ Bad, place)
    BY <1>2, <2>2, Erased
  <2> QED
    BY <2>3 DEF Bad
<1>3. Left(s1, Matching(W, o), place)
  <2> DEFINE Bad == {x \in Item : x.name \notin Matches[o.filter]}
  <2>1. {k \in DOMAIN s : s[k] \notin Bad}
          = {k \in DOMAIN s : ~ (s[k].name \notin Matches[o.filter])}
    BY DEF Left
  <2>2. ApplyFilter(s, o.filter)
          = Arranged(s, {k \in DOMAIN s : s[k] \notin Bad}, Upwards(s))
    BY <2>1 DEF ApplyFilter, EraseIf
  <2> HIDE DEF Bad
  <2>3. Left(ApplyFilter(s, o.filter), W \ Bad, place)
    BY <2>2, Erased
  <2> QED
    BY <2>3 DEF Bad, Matching
<1> HIDE DEF s1
<1>4. Left(s2, Severe(Matching(W, o), o), place)
  <2> DEFINE level == o.min_severity
             X == Matching(W, o)
             pruned == [k \in DOMAIN s1 |-> PrunedItem(s1[k], level)]
             Y == {PrunedItem(x, level) : x \in X}
  <2>1. Left(pruned, Y, place)
    BY <1>3, Pruned
  <2>2. ApplyMinSeverity(s1, level) = ApplyOnlyFindings(pruned)
    BY DEF ApplyMinSeverity, ApplyOnlyFindings, PrunedItem
  <2>3. Left(ApplyOnlyFindings(pruned), Y \ {x \in Item : ~HasFindings(x)}, place)
    <3> HIDE DEF pruned, Y
    <3> QED  BY <1>2, <2>1
  <2> QED
    BY <1>3, <2>2, <2>3 DEF Severe
<1> HIDE DEF s2
<1>5. s4 = s2
  <2>1. ParseDate(o.modified_before) = Absent \/ ~Given(o.modified_before)
    BY OutputAssumption DEF ParseDate, DateText, Given
  <2>2. ParseDate(o.modified_after) = Absent \/ ~Given(o.modified_after)
    BY OutputAssumption DEF ParseDate, DateText, Given
  <2>3. s3 = s2
    BY <2>1 DEF ApplyModifiedBefore
  <2> HIDE DEF s3
  <2> QED
    BY <2>2, <2>3 DEF ApplyModifiedAfter
<1> HIDE DEF s4
<1>6. Left(s5, Chosen(W, o), place)
  BY <1>2, <1>4, <1>5 DEF Chosen, Flagged
<1> HIDE DEF s5
<1> QED
  BY <1>1, <1>6

---------------------------------------------------------------------------
(* The sorts.  A comparator compares two keys, one after the other.        *)

KeyLess(f, g, x, y) == f[x] < f[y] \/ (f[x] = f[y] /\ g[x] < g[y])

SameKey(f, g, x, y) == f[x] = f[y] /\ g[x] = g[y]

(* The positions of s in the order of a stable sort by f and g. *)
StableOrder(s, f, g) ==
  {p \in (DOMAIN s) \X (DOMAIN s) :
     \/ KeyLess(f, g, s[p[1]], s[p[2]])
     \/ p[1] <= p[2] /\ ~KeyLess(f, g, s[p[2]], s[p[1]])}

(* What is in the order B, and now is sorted by f and g. *)
Finer(f, g, B) ==
  {p \in Item \X Item :
     \/ KeyLess(f, g, p[1], p[2])
     \/ SameKey(f, g, p[1], p[2]) /\ p \in B}

(* s holds the items W, every two of them in the order B. *)
Ascends(s, W, B) ==
  /\ s \in Seq(Item)
  /\ W = {s[k] : k \in DOMAIN s}
  /\ \A j, k \in DOMAIN s : j < k => <<s[j], s[k]>> \in B

LEMMA StableOrdered ==
  ASSUME NEW s \in Seq(Item), NEW f \in [Item -> Int], NEW g \in [Item -> Int]
  PROVE  /\ Orders(StableOrder(s, f, g), DOMAIN s)
         /\ \A j, k \in DOMAIN s :
              <<j, k>> \in StableOrder(s, f, g) /\ j # k =>
                \/ KeyLess(f, g, s[j], s[k])
                \/ SameKey(f, g, s[j], s[k]) /\ j < k
<1> DEFINE D == DOMAIN s
           Precedes(j, k) == \/ KeyLess(f, g, s[j], s[k])
                             \/ j <= k /\ ~KeyLess(f, g, s[k], s[j])
<1>1. /\ D \subseteq Int
      /\ \A k \in D : s[k] \in Item
  OBVIOUS
<1>2. \A j, k \in D : <<j, k>> \in StableOrder(s, f, g) <=> Precedes(j, k)
  BY DEF StableOrder
<1>3. \A k \in D : f[s[k]] \in Int /\ g[s[k]] \in Int
  BY <1>1
<1>4. \A j, k \in D : Precedes(j, k) \/ Precedes(k, j)
  BY <1>1, <1>3 DEF KeyLess
<1>5. \A j, k \in D : Precedes(j, k) /\ Precedes(k, j) => j = k
  BY <1>1, <1>3 DEF KeyLess
<1>6. \A i, j, k \in D : Precedes(i, j) /\ Precedes(j, k) => Precedes(i, k)
  BY <1>1, <1>3 DEF KeyLess
<1>7. \A j, k \in D : Precedes(j, k) /\ j # k =>
        \/ KeyLess(f, g, s[j], s[k])
        \/ SameKey(f, g, s[j], s[k]) /\ j < k
  BY <1>1, <1>3 DEF KeyLess, SameKey
<1> HIDE DEF Precedes
<1> QED
  BY <1>2, <1>4, <1>5, <1>6, <1>7 DEF Orders

LEMMA StablySorted ==
  ASSUME NEW s, NEW W, NEW B, Ascends(s, W, B),
         NEW f \in [Item -> Int], NEW g \in [Item -> Int]
  PROVE  Ascends(Arranged(s, DOMAIN s, StableOrder(s, f, g)), W, Finer(f, g, B))
<1> DEFINE K == DOMAIN s
           R == StableOrder(s, f, g)
           t == Arranged(s, K, R)
           n == Cardinality(K)
<1>1. s \in Seq(Item) /\ K = 1..Len(s) /\ Len(s) \in Nat
  BY DEF Ascends
<1>0. \A k \in K : s[k] \in Item
  BY <1>1
<1>2. IsFiniteSet(K)
  BY <1>1, FS_Interval
<1>3. /\ Orders(R, K)
      /\ \A j, k \in K : <<j, k>> \in R /\ j # k =>
           \/ KeyLess(f, g, s[j], s[k])
           \/ SameKey(f, g, s[j], s[k]) /\ j < k
  BY <1>1, StableOrdered
<1> HIDE DEF R
<1>4. PICK at : Places(at, t, s, K, R)
  BY <1>2, <1>3, ArrangedPlaces
<1>5. n \in Nat
  BY <1>2, FS_CardinalityType
<1> HIDE DEF t, n
<1>6. /\ at \in [1..n -> K]
      /\ t = [r \in 1..n |-> s[at[r]]]
      /\ \A q, r \in 1..n : q < r => <<at[q], at[r]>> \in R /\ at[q] # at[r]
      /\ \A k \in K : \E r \in 1..n : at[r] = k
  BY <1>4 DEF Places, n
<1>7. t \in Seq(Item) /\ DOMAIN t = 1..n
  <2>1. \A r \in 1..n : s[at[r]] \in Item
    BY <1>0, <1>6
  <2> QED
    BY <1>5, <1>6, <2>1
<1>8. W = {t[r] : r \in DOMAIN t}
  <2>1. ASSUME NEW x \in W PROVE \E r \in DOMAIN t : t[r] = x
    <3>1. PICK k \in K : s[k] = x
      BY DEF Ascends
    <3>2. PICK r \in 1..n : at[r] = k
      BY <1>6
    <3> QED
      BY <1>6, <1>7, <3>1, <3>2
  <2>2. ASSUME NEW r \in DOMAIN t PROVE t[r] \in W
    BY <1>6, <1>7 DEF Ascends
  <2> QED
    BY <2>1, <2>2
<1>9. ASSUME NEW q \in DOMAIN t, NEW r \in DOMAIN t, q < r
      PROVE  <<t[q], t[r]>> \in Finer(f, g, B)
  <2>1. /\ at[q] \in K /\ at[r] \in K /\ at[q] # at[r] /\ <<at[q], at[r]>> \in R
        /\ t[q] = s[at[q]] /\ t[r] = s[at[r]]
    BY <1>6, <1>7, <1>9
  <2>2. \/ KeyLess(f, g, t[q], t[r])
        \/ SameKey(f, g, t[q], t[r]) /\ at[q] < at[r]
    BY <1>3, <2>1
  <2>3. at[q] < at[r] => <<t[q], t[r]>> \in B
    BY <2>1 DEF Ascends
  <2>4. <<t[q], t[r]>> \in Item \X Item
    BY <1>0, <2>1
  <2> QED
    BY <2>2, <2>3, <2>4 DEF Finer
<1>10. Ascends(t, W, Finer(f, g, B))
  BY <1>7, <1>8, <1>9 DEF Ascends
<1> QED
  BY <1>10 DEF t, R

(* Two sequences of the same items in the same order are the same. *)
LEMMA OneAscending ==
  ASSUME NEW s, NEW t, NEW W, NEW B, Ascends(s, W, B), Ascends(t, W, B),
         \A x, y \in W : ~ (<<x, y>> \in B /\ <<y, x>> \in B)
  PROVE  s = t
<1>0. s \in Seq(Item) /\ t \in Seq(Item)
  BY DEF Ascends
<1>1. /\ DOMAIN s = 1..Len(s) /\ Len(s) \in Nat /\ DOMAIN t = 1..Len(t) /\ Len(t) \in Nat
      /\ s = [k \in DOMAIN s |-> s[k]] /\ t = [k \in DOMAIN t |-> t[k]]
  BY <1>0
<1> DEFINE Differ == {k \in Nat : k \in DOMAIN s \cup DOMAIN t /\
                        ~ (k \in DOMAIN s /\ k \in DOMAIN t /\ s[k] = t[k])}
<1>2. SUFFICES ASSUME Differ # {} PROVE FALSE
  <2>1. DOMAIN s \subseteq DOMAIN t /\ DOMAIN t \subseteq DOMAIN s
        /\ \A k \in DOMAIN s : s[k] = t[k]
    BY <1>1, <1>2
  <2> QED
    BY <1>1, <2>1
<1>3. Differ \in SUBSET Nat
  OBVIOUS
<1>4. PICK i \in Differ : \A k \in Differ : i <= k
  BY <1>2, <1>3, SmallestElement
<1>5. \A k \in Nat : k \in DOMAIN s \cup DOMAIN t /\ k < i =>
        k \in DOMAIN s /\ k \in DOMAIN t /\ s[k] = t[k]
  BY <1>4
<1>6. /\ \A k \in DOMAIN s : \E j \in DOMAIN t : t[j] = s[k]
      /\ \A k \in DOMAIN t : \E j \in DOMAIN s : s[j] = t[k]
  <2>1. W = {s[k] : k \in DOMAIN s} /\ W = {t[k] : k \in DOMAIN t}
    BY DEF Ascends
  <2>2. ASSUME NEW k \in DOMAIN s PROVE \E j \in DOMAIN t : t[j] = s[k]
    BY <2>1
  <2>3. ASSUME NEW k \in DOMAIN t PROVE \E j \in DOMAIN s : s[j] = t[k]
    BY <2>1
  <2> QED
    BY <2>2, <2>3
<1>7. /\ \A j, k \in DOMAIN s : j < k => <<s[j], s[k]>> \in B
      /\ \A j, k \in DOMAIN t : j < k => <<t[j], t[k]>> \in B
      /\ \A k \in DOMAIN s : s[k] \in W
      /\ \A k \in DOMAIN t : t[k] \in W
  BY DEF Ascends
<1>8. \A x \in W : <<x, x>> \notin B
  OBVIOUS
<1>9. ASSUME i \in DOMAIN s PROVE \E j \in DOMAIN t : t[j] = s[i] /\ j >= i
  <2>1. PICK j \in DOMAIN t : t[j] = s[i]
    BY <1>6, <1>9
  <2>2. ASSUME j < i PROVE FALSE
    <3>1. j \in DOMAIN s /\ s[j] = s[i]
      BY <1>1, <1>5, <2>1, <2>2
    <3>2. <<s[j], s[i]>> \in B /\ s[i] \in W
      BY <1>7, <1>9, <2>2, <3>1
    <3> QED
      BY <1>8, <3>1, <3>2
  <2> QED
    BY <1>1, <2>1, <2>2, <1>9
<1>10. ASSUME i \in DOMAIN t PROVE \E j \in DOMAIN s : s[j] = t[i] /\ j >= i
  <2>1. PICK j \in DOMAIN s : s[j] = t[i]
    BY <1>6, <1>10
  <2>2. ASSUME j < i PROVE FALSE
    <3>1. j \in DOMAIN t /\ t[j] = t[i]
      BY <1>1, <1>5, <2>1, <2>2
    <3>2. <<t[j], t[i]>> \in B /\ t[i] \in W
      BY <1>7, <1>10, <2>2, <3>1
    <3> QED
      BY <1>8, <3>1, <3>2
  <2> QED
    BY <1>1, <2>1, <2>2, <1>10
<1>11. i \in DOMAIN s /\ i \in DOMAIN t /\ s[i] # t[i]
  BY <1>1, <1>4, <1>9, <1>10
<1>12. PICK j \in DOMAIN t : t[j] = s[i] /\ j >= i
  BY <1>9, <1>11
<1>13. PICK k \in DOMAIN s : s[k] = t[i] /\ k >= i
  BY <1>10, <1>11
<1>14. i < j /\ i < k
  BY <1>1, <1>11, <1>12, <1>13
<1>15. <<t[i], s[i]>> \in B /\ <<s[i], t[i]>> \in B
  BY <1>7, <1>11, <1>12, <1>13, <1>14
<1> QED
  BY <1>7, <1>11, <1>15

LEMMA LevelsOfIds ==
  ASSUME NEW id PROVE LevelOfId(id) \in 0..5
BY DEF LevelOfId, LevelOf, Registered

(* The worst severity is that of a finding, or none. *)
LEMMA WorstSeverity ==
  ASSUME NEW ids
  PROVE  /\ MaxSeverity(ids) \in 0..5
         /\ \A id \in ids : LevelOfId(id) <= MaxSeverity(ids)
         /\ MaxSeverity(ids) # 0 => \E id \in ids : LevelOfId(id) = MaxSeverity(ids)
<1> DEFINE levels == {0} \cup {LevelOfId(id) : id \in ids}
           below  == {5 - l : l \in levels}
<1>1. levels \subseteq 0..5
  BY LevelsOfIds
<1>2. below \in SUBSET Nat /\ below # {}
  BY <1>1
<1>3. PICK x \in below : \A y \in below : x <= y
  BY <1>2, SmallestElement
<1>4. PICK l \in levels : x = 5 - l
  BY <1>3
<1>5. \A y \in levels : 5 - y \in below
  OBVIOUS
<1>6. \A id \in ids : LevelOfId(id) \in levels
  OBVIOUS
<1>7. \A y \in levels : y # 0 => \E id \in ids : LevelOfId(id) = y
  OBVIOUS
<1>8. MaxSeverity(ids) = CHOOSE m \in levels : \A y \in levels : y <= m
  BY DEF MaxSeverity
<1> HIDE DEF levels, below
<1>9. \A y \in levels : y <= l
  BY <1>1, <1>3, <1>4, <1>5
<1>10. MaxSeverity(ids) \in levels /\ \A y \in levels : y <= MaxSeverity(ids)
  BY <1>8, <1>9
<1> QED
  BY <1>1, <1>6, <1>7, <1>10

(* The keys of the comparators. *)
Same == [x \in Item |-> 0]
ByName == [x \in Item |-> x.name]
FindingsFirst == [x \in Item |-> IF HasFindings(x) THEN 0 ELSE 1]
WorstFirst == [x \in Item |-> 0 - MaxSeverity(x.findings)]
DirsFirst == [x \in Item |-> IF IsDirectory(x) THEN 0 ELSE 1]

By(criterion) ==
  CASE criterion = "name"     -> ByName
    [] criterion = "size"     -> [x \in Item |-> 0 - x.size]
    [] criterion = "type"     -> [x \in Item |-> x.type]
    [] criterion = "modified" -> [x \in Item |-> x.mtime]
    [] criterion = "ext"      -> [x \in Item |-> x.ext]

ThenBy(criterion) == IF criterion = "name" THEN Same ELSE ByName

LEMMA KeysAreNumbers ==
  /\ {Same, ByName, FindingsFirst, WorstFirst, DirsFirst} \subseteq [Item -> Int]
  /\ \A c \in Criterion : By(c) \in [Item -> Int] /\ ThenBy(c) \in [Item -> Int]
<1>1. Same \in [Item -> Int] /\ ByName \in [Item -> Int]
  BY DEF Same, ByName, Item
<1>2. FindingsFirst \in [Item -> Int] /\ DirsFirst \in [Item -> Int]
  BY DEF FindingsFirst, DirsFirst
<1>3. WorstFirst \in [Item -> Int]
  <2>1. \A x \in Item : 0 - MaxSeverity(x.findings) \in Int
    BY WorstSeverity
  <2> QED
    BY <2>1 DEF WorstFirst
<1>4. ASSUME NEW c \in Criterion PROVE By(c) \in [Item -> Int] /\ ThenBy(c) \in [Item -> Int]
  <2>1. \A x \in Item : {x.size, x.type, x.mtime, x.ext} \subseteq Int
    BY DEF Item
  <2>2. /\ [x \in Item |-> 0 - x.size] \in [Item -> Int]
        /\ [x \in Item |-> x.type] \in [Item -> Int]
        /\ [x \in Item |-> x.mtime] \in [Item -> Int]
        /\ [x \in Item |-> x.ext] \in [Item -> Int]
    BY <2>1
  <2>3. c \in {"name", "size", "type", "modified", "ext"}
    BY DEF Criterion
  <2>4. By(c) \in [Item -> Int]
    BY <1>1, <2>2, <2>3 DEF By
  <2>5. ThenBy(c) \in [Item -> Int]
    BY <1>1 DEF ThenBy
  <2> QED
    BY <2>4, <2>5
<1> QED
  BY <1>1, <1>2, <1>3, <1>4

LEMMA ComparatorsCompareKeys ==
  ASSUME NEW x \in Item, NEW y \in Item
  PROVE  /\ \A c \in Criterion :
              SortLess(c, x, y) <=> KeyLess(By(c), ThenBy(c), x, y)
         /\ (IF IsDirectory(x) # IsDirectory(y) THEN IsDirectory(x) ELSE x.name < y.name)
              <=> KeyLess(DirsFirst, ByName, x, y)
         /\ (IF HasFindings(x) # HasFindings(y) THEN HasFindings(x)
             ELSE MaxSeverity(x.findings) > MaxSeverity(y.findings))
              <=> KeyLess(FindingsFirst, WorstFirst, x, y)
<1>1. ASSUME NEW c \in Criterion
      PROVE  SortLess(c, x, y) <=> KeyLess(By(c), ThenBy(c), x, y)
  <2>1. c \in {"name", "size", "type", "modified", "ext"}
    BY DEF Criterion
  <2>2. {x.name, x.size, x.type, x.mtime, x.ext, y.name, y.size, y.type, y.mtime, y.ext}
          \subseteq Int
    BY DEF Item
  <2>3. ByName[x] = x.name /\ ByName[y] = y.name /\ Same[x] = 0 /\ Same[y] = 0
    BY DEF ByName, Same
  <2>4. CASE c = "name"
    BY <2>2, <2>3, <2>4 DEF SortLess, By, ThenBy, KeyLess
  <2>5. CASE c = "size"
    BY <2>2, <2>3, <2>5 DEF SortLess, By, ThenBy, KeyLess
  <2>6. CASE c = "type"
    BY <2>2, <2>3, <2>6 DEF SortLess, By, ThenBy, KeyLess
  <2>7. CASE c = "modified"
    BY <2>2, <2>3, <2>7 DEF SortLess, By, ThenBy, KeyLess
  <2>8. CASE c = "ext"
    BY <2>2, <2>3, <2>8 DEF SortLess, By, ThenBy, KeyLess
  <2> QED
    BY <2>1, <2>4, <2>5, <2>6, <2>7, <2>8
<1>2. (IF IsDirectory(x) # IsDirectory(y) THEN IsDirectory(x) ELSE x.name < y.name)
        <=> KeyLess(DirsFirst, ByName, x, y)
  BY DEF KeyLess, DirsFirst, ByName, IsDirectory
<1>3. (IF HasFindings(x) # HasFindings(y) THEN HasFindings(x)
       ELSE MaxSeverity(x.findings) > MaxSeverity(y.findings))
        <=> KeyLess(FindingsFirst, WorstFirst, x, y)
  <2>1. MaxSeverity(x.findings) \in Int /\ MaxSeverity(y.findings) \in Int
    BY WorstSeverity
  <2> QED
    BY <2>1 DEF KeyLess, FindingsFirst, WorstFirst, HasFindings
<1> QED
  BY <1>1, <1>2, <1>3

(* What --sort, --dirs-first and --findings-first make of the order B. *)
BySort(o, B) ==
  IF o.sort \in Criterion THEN Finer(By(o.sort), ThenBy(o.sort), B) ELSE B

ByDirs(o, B) == IF o.dirs_first THEN Finer(DirsFirst, ByName, B) ELSE B

ByFindings(o, B) ==
  IF o.findings_first THEN Finer(FindingsFirst, WorstFirst, B) ELSE B

LEMMA SortPhaseAscends ==
  ASSUME NEW o, NEW s, NEW W, NEW B, Ascends(s, W, B)
  PROVE  Ascends(SortPhase(s, o), W, ByFindings(o, ByDirs(o, BySort(o, B))))
<1> DEFINE s1 == IF Given(o.sort) THEN ApplySort(s, o.sort) ELSE s
           s2 == IF o.dirs_first THEN ApplyDirsFirst(s1) ELSE s1
           s3 == IF o.findings_first THEN ApplyFindingsFirst(s2) ELSE s2
<1>1. SortPhase(s, o) = s3
  BY DEF SortPhase
<1>2. ASSUME NEW t, NEW X, NEW C, Ascends(t, X, C), NEW c \in Criterion
      PROVE  Ascends(ApplySort(t, c), X, Finer(By(c), ThenBy(c), C))
  <2>1. \A p \in (DOMAIN t) \X (DOMAIN t) : t[p[1]] \in Item /\ t[p[2]] \in Item
    BY <1>2 DEF Ascends
  <2>2. \A x, y \in Item : SortLess(c, x, y) <=> KeyLess(By(c), ThenBy(c), x, y)
    BY ComparatorsCompareKeys
  <2>3. ApplySort(t, c) = Arranged(t, DOMAIN t, StableOrder(t, By(c), ThenBy(c)))
    BY <2>1, <2>2 DEF ApplySort, StableSort, StableOrder
  <2> QED
    BY <1>2, <2>3, StablySorted, KeysAreNumbers
<1>3. ASSUME NEW t, NEW X, NEW C, Ascends(t, X, C)
      PROVE  Ascends(ApplyDirsFirst(t), X, Finer(DirsFirst, ByName, C))
  <2>1. \A p \in (DOMAIN t) \X (DOMAIN t) : t[p[1]] \in Item /\ t[p[2]] \in Item
    BY <1>3 DEF Ascends
  <2>2. \A x, y \in Item :
          (IF IsDirectory(x) # IsDirectory(y) THEN IsDirectory(x) ELSE x.name < y.name)
            <=> KeyLess(DirsFirst, ByName, x, y)
    BY ComparatorsCompareKeys
  <2>3. ApplyDirsFirst(t) = Arranged(t, DOMAIN t, StableOrder(t, DirsFirst, ByName))
    BY <2>1, <2>2 DEF ApplyDirsFirst, StableSort, StableOrder
  <2> QED
    BY <1>3, <2>3, StablySorted, KeysAreNumbers
<1>4. ASSUME NEW t, NEW X, NEW C, Ascends(t, X, C)
      PROVE  Ascends(ApplyFindingsFirst(t), X, Finer(FindingsFirst, WorstFirst, C))
  <2>1. \A p \in (DOMAIN t) \X (DOMAIN t) : t[p[1]] \in Item /\ t[p[2]] \in Item
    BY <1>4 DEF Ascends
  <2>2. \A x, y \in Item :
          (IF HasFindings(x) # HasFindings(y) THEN HasFindings(x)
           ELSE MaxSeverity(x.findings) > MaxSeverity(y.findings))
            <=> KeyLess(FindingsFirst, WorstFirst, x, y)
    BY ComparatorsCompareKeys
  <2>3. ApplyFindingsFirst(t)
          = Arranged(t, DOMAIN t, StableOrder(t, FindingsFirst, WorstFirst))
    BY <2>1, <2>2 DEF ApplyFindingsFirst, StableSort, StableOrder
  <2> QED
    BY <1>4, <2>3, StablySorted, KeysAreNumbers
<1>5. Ascends(s1, W, BySort(o, B))
  <2>1. CASE o.sort \in Criterion
    BY <1>2, <2>1, OutputAssumption DEF BySort, Given
  <2>2. CASE o.sort \notin Criterion
    BY <2>2 DEF BySort, ApplySort
  <2> QED
    BY <2>1, <2>2
<1> HIDE DEF s1
<1>6. Ascends(s2, W, ByDirs(o, BySort(o, B)))
  BY <1>3, <1>5 DEF ByDirs
<1> HIDE DEF s2
<1>7. Ascends(s3, W, ByFindings(o, ByDirs(o, BySort(o, B))))
  BY <1>4, <1>6 DEF ByFindings
<1> HIDE DEF s3
<1> QED
  BY <1>1, <1>7

---------------------------------------------------------------------------
(* What each phase has made of the items discovered.                       *)

Processed ==
  LET filtered == FilterPhase(discovered, opts)
      sorted   == SortPhase(filtered, opts)
      turned   == ReversePhase(sorted, opts)
  IN /\ discovered \in Inputs
     /\ opts \in Choices
     /\ phase \in {"filter", "sort", "reverse", "render", "done"}
     /\ phase = "filter" => items = discovered
     /\ phase = "sort" => items = filtered
     /\ phase = "reverse" => items = sorted
     /\ phase \in {"render", "done"} => items = turned
     /\ phase = "done" => report = [k \in DOMAIN items |-> Row(items[k])]

LEMMA AlwaysProcessed == Spec => []Processed
<1>1. Init => Processed
  BY DEF Init, Processed
<1>2. Processed /\ [Next]_vars => Processed'
  <2> SUFFICES ASSUME Processed, [Next]_vars PROVE Processed'
    OBVIOUS
  <2>1. CASE Filter
    BY <2>1 DEF Processed, Filter
  <2>2. CASE Sort
    BY <2>2 DEF Processed, Sort
  <2>3. CASE ReverseItems
    BY <2>3 DEF Processed, ReverseItems
  <2>4. CASE Render
    BY <2>4 DEF Processed, Render
  <2>5. CASE OutputDone \/ UNCHANGED vars
    BY <2>5 DEF Processed, OutputDone, vars
  <2> QED
    BY <2>1, <2>2, <2>3, <2>4, <2>5 DEF Next
<1> QED
  BY <1>1, <1>2, PTL DEF Spec

(* Where a path was found. *)
PlaceIn(s) ==
  [path \in Int |-> IF path \in Paths(s) THEN CHOOSE k \in DOMAIN s : s[k].path = path ELSE 0]

Elements(s) == {s[k] : k \in DOMAIN s}

LEMMA AsDiscovered ==
  ASSUME NEW s \in Inputs
  PROVE  /\ Left(s, Elements(s), PlaceIn(s))
         /\ \A k \in DOMAIN s : PlaceIn(s)[s[k].path] = k
         /\ \A k \in DOMAIN s : s[k] \in Item
         /\ PlaceIn(s) \in [Int -> Int]
<1>1. /\ s \in Seq(Item) /\ DOMAIN s \subseteq Nat
      /\ \A j, k \in DOMAIN s : s[j].path = s[k].path => j = k
  BY OutputAssumption
<1>2. ASSUME NEW k \in DOMAIN s
      PROVE  s[k] \in Item /\ s[k].path \in Int /\ PlaceIn(s)[s[k].path] = k
  <2>0. s[k] \in Item
    BY <1>1
  <2>1. s[k] \in Item /\ s[k].path \in Int
    BY <2>0 DEF Item
  <2>2. s[k].path \in Paths(s)
    BY DEF Paths
  <2>3. (CHOOSE j \in DOMAIN s : s[j].path = s[k].path) = k
    BY <1>1
  <2> QED
    BY <2>1, <2>2, <2>3 DEF PlaceIn
<1>3. PlaceIn(s) \in [Int -> Int]
  <2>1. ASSUME NEW path \in Paths(s)
        PROVE (CHOOSE k \in DOMAIN s : s[k].path = path) \in Int
    BY <1>1 DEF Paths
  <2> QED
    BY <2>1 DEF PlaceIn
<1> QED
  BY <1>1, <1>2, <1>3 DEF Left, Elements

(* An item as the filters leave it, if they do. *)
ShownAs(x, o) == IF Given(o.min_severity) THEN PrunedItem(x, o.min_severity) ELSE x

Wants(x, o) ==
  /\ Given(o.filter) => x.name \in Matches[o.filter]
  /\ Given(o.min_severity) \/ o.only_findings => HasFindings(ShownAs(x, o))

LEMMA ChosenAreWanted ==
  ASSUME NEW o, NEW W \in SUBSET Item
  PROVE  /\ Chosen(W, o) = {ShownAs(x, o) : x \in {x \in W : Wants(x, o)}}
         /\ \A x \in W : ShownAs(x, o) \in Item
                         /\ ShownAs(x, o).path = x.path /\ ShownAs(x, o).name = x.name
<1> DEFINE W1 == {x \in W : Given(o.filter) => x.name \in Matches[o.filter]}
           W2 == {ShownAs(x, o) : x \in {x \in W1 :
                    Given(o.min_severity) => HasFindings(ShownAs(x, o))}}
           W3 == {ShownAs(x, o) : x \in {x \in W : Wants(x, o)}}
<1>1. \A x \in W : /\ ShownAs(x, o) \in Item
                   /\ ShownAs(x, o).path = x.path /\ ShownAs(x, o).name = x.name
  BY DEF ShownAs, PrunedItem, Item
<1>2. Matching(W, o) = W1
  BY DEF Matching
<1>3. Severe(W1, o) = W2
  <2>1. CASE Given(o.min_severity)
    <3>1. Severe(W1, o) = {ShownAs(x, o) : x \in W1} \ {x \in Item : ~HasFindings(x)}
      BY <2>1 DEF Severe, ShownAs
    <3>2. \A x \in W1 : ShownAs(x, o) \in Item
      BY <1>1
    <3> QED
      BY <2>1, <3>1, <3>2
  <2>2. CASE ~Given(o.min_severity)
    <3>1. Severe(W1, o) = W1
      BY <2>2 DEF Severe
    <3>2. \A x \in W1 : ShownAs(x, o) = x
      BY <2>2 DEF ShownAs
    <3> QED
      BY <2>2, <3>1, <3>2
  <2> QED
    BY <2>1, <2>2
<1>4. Flagged(W2, o) = W3
  <2>1. \A x \in W1 : ShownAs(x, o) \in Item
    BY <1>1
  <2>2. Flagged(W2, o) = {y \in W2 : o.only_findings => HasFindings(y)}
    BY <2>1 DEF Flagged
  <2>3. {y \in W2 : o.only_findings => HasFindings(y)} = W3
    BY DEF Wants
  <2> QED
    BY <2>2, <2>3
<1> QED
  BY <1>1, <1>2, <1>3, <1>4 DEF Chosen

(* The positions of an order of discovery. *)
ByPlace(place) == {p \in Item \X Item : place[p[1].path] < place[p[2].path]}

(* What the first two phases return. *)
LEMMA FilteredAndSorted ==
  ASSUME NEW o \in Choices, NEW s \in Inputs
  PROVE  /\ Left(FilterPhase(s, o), Chosen(Elements(s), o), PlaceIn(s))
         /\ Ascends(SortPhase(FilterPhase(s, o), o), Chosen(Elements(s), o),
                    ByFindings(o, ByDirs(o, BySort(o, ByPlace(PlaceIn(s))))))
<1> DEFINE t == FilterPhase(s, o)
           W == Chosen(Elements(s), o)
           place == PlaceIn(s)
<1>1. Left(t, W, place)
  BY AsDiscovered, FilterPhaseLeaves
<1> HIDE DEF t, W, place
<1>2. Ascends(t, W, ByPlace(place))
  <2>1. t \in Seq(Item) /\ W = {t[k] : k \in DOMAIN t}
    BY <1>1 DEF Left
  <2>2. ASSUME NEW j \in DOMAIN t, NEW k \in DOMAIN t, j < k
        PROVE  <<t[j], t[k]>> \in ByPlace(place)
    <3>1. place[t[j].path] < place[t[k].path]
      BY <1>1, <2>2 DEF Left
    <3>2. t[j] \in Item /\ t[k] \in Item
      BY <2>1
    <3> QED
      BY <3>1, <3>2 DEF ByPlace
  <2> QED
    BY <2>1, <2>2 DEF Ascends
<1>3. Ascends(SortPhase(t, o), W, ByFindings(o, ByDirs(o, BySort(o, ByPlace(place)))))
  BY <1>2, SortPhaseAscends
<1> QED
  BY <1>1, <1>3 DEF t, W, place

---------------------------------------------------------------------------
(* The order of discovery does not show.                                   *)

LEMMA InFiner ==
  ASSUME NEW f, NEW g, NEW C, NEW x \in Item, NEW y \in Item
  PROVE  <<x, y>> \in Finer(f, g, C) <=>
           (KeyLess(f, g, x, y) \/ (SameKey(f, g, x, y) /\ <<x, y>> \in C))
BY DEF Finer

LEMMA FinerFacts ==
  ASSUME NEW f \in [Item -> Int], NEW g \in [Item -> Int], NEW B
  PROVE  /\ \A x \in Item : <<x, x>> \in Finer(f, g, B) => <<x, x>> \in B
         /\ \A x, y \in Item : <<x, y>> \in Finer(f, g, B) /\ <<y, x>> \in Finer(f, g, B)
              => <<x, y>> \in B /\ <<y, x>> \in B
         /\ \A x, y \in Item : <<x, y>> \in Finer(f, g, B) =>
              (SameKey(f, g, x, y) /\ <<x, y>> \in B) \/ <<x, y>> \in Finer(f, g, {})
         /\ \A C : \A x, y \in Item : (<<x, y>> \in B => <<x, y>> \in C) =>
              (<<x, y>> \in Finer(f, g, B) => <<x, y>> \in Finer(f, g, C))
<1>1. \A x \in Item : f[x] \in Int /\ g[x] \in Int
  OBVIOUS
<1>2. \A x, y \in Item : ~ (KeyLess(f, g, x, y) /\ (KeyLess(f, g, y, x) \/ SameKey(f, g, y, x)))
  BY <1>1 DEF KeyLess, SameKey
<1>3. \A x \in Item : ~KeyLess(f, g, x, x)
  BY <1>1 DEF KeyLess
<1>4. \A x \in Item : <<x, x>> \in Finer(f, g, B) => <<x, x>> \in B
  BY <1>3, InFiner
<1>5. ASSUME NEW x \in Item, NEW y \in Item,
             <<x, y>> \in Finer(f, g, B), <<y, x>> \in Finer(f, g, B)
      PROVE  <<x, y>> \in B /\ <<y, x>> \in B
  BY <1>2, <1>5, InFiner
<1>6. ASSUME NEW x \in Item, NEW y \in Item, <<x, y>> \in Finer(f, g, B)
      PROVE  (SameKey(f, g, x, y) /\ <<x, y>> \in B) \/ <<x, y>> \in Finer(f, g, {})
  BY <1>6, InFiner
<1>7. ASSUME NEW C, NEW x \in Item, NEW y \in Item, <<x, y>> \in B => <<x, y>> \in C,
             <<x, y>> \in Finer(f, g, B)
      PROVE  <<x, y>> \in Finer(f, g, C)
  BY <1>7, InFiner
<1> QED
  BY <1>4, <1>5, <1>6, <1>7

InOrderOf(o, B) == ByFindings(o, ByDirs(o, BySort(o, B)))

(* With a sort that looks at names, of no two items of one name. *)
LEMMA NamesDecide ==
  ASSUME NEW o, o.sort \in Criterion \/ o.dirs_first, NEW B, NEW x \in Item, NEW y \in Item
  PROVE  /\ <<x, y>> \in InOrderOf(o, {}) => ~ (<<y, x>> \in InOrderOf(o, {}))
         /\ <<x, x>> \in InOrderOf(o, B) => <<x, x>> \in B
         /\ x.name # y.name /\ <<x, y>> \in InOrderOf(o, B) => <<x, y>> \in InOrderOf(o, {})
<1> DEFINE B1 == BySort(o, B)
           B2 == ByDirs(o, B1)
           B3 == ByFindings(o, B2)
           E1 == BySort(o, {})
           E2 == ByDirs(o, E1)
           E3 == ByFindings(o, E2)
<1>1. /\ \A c \in Criterion : By(c) \in [Item -> Int] /\ ThenBy(c) \in [Item -> Int]
      /\ ByName \in [Item -> Int] /\ FindingsFirst \in [Item -> Int]
      /\ WorstFirst \in [Item -> Int] /\ DirsFirst \in [Item -> Int]
  BY KeysAreNumbers
<1>2. x.name # y.name =>
        /\ ~SameKey(DirsFirst, ByName, x, y)
        /\ \A c \in Criterion : ~SameKey(By(c), ThenBy(c), x, y)
  BY DEF SameKey, ByName, By, ThenBy
<1>3. /\ ~ (<<x, y>> \in E1 /\ <<y, x>> \in E1)
      /\ <<x, x>> \in B1 => <<x, x>> \in B
      /\ x.name # y.name /\ o.sort \in Criterion /\ <<x, y>> \in B1 => <<x, y>> \in E1
  BY <1>1, <1>2, FinerFacts DEF BySort
<1> HIDE DEF B1, E1
<1>4. /\ ~ (<<x, y>> \in E2 /\ <<y, x>> \in E2)
      /\ <<x, x>> \in B2 => <<x, x>> \in B
  BY <1>1, <1>3, FinerFacts DEF ByDirs
<1>5. x.name # y.name /\ <<x, y>> \in B2 => <<x, y>> \in E2
  <2>1. CASE o.dirs_first
    <3>1. B2 = Finer(DirsFirst, ByName, B1) /\ E2 = Finer(DirsFirst, ByName, E1)
      BY <2>1 DEF ByDirs
    <3> QED
      BY <1>2, <3>1, InFiner
  <2>2. CASE ~o.dirs_first
    BY <1>3, <2>2 DEF ByDirs
  <2> QED
    BY <2>1, <2>2
<1> HIDE DEF B2, E2
<1>6. /\ ~ (<<x, y>> \in E3 /\ <<y, x>> \in E3)
      /\ <<x, x>> \in B3 => <<x, x>> \in B
      /\ x.name # y.name /\ <<x, y>> \in B3 => <<x, y>> \in E3
  BY <1>1, <1>4, <1>5, FinerFacts DEF ByFindings
<1> QED
  BY <1>6 DEF InOrderOf, B1, B2, B3, E1, E2, E3

NamesDiffer(W) == \A x, y \in W : x.name = y.name => x = y

LEMMA ChosenNamesDiffer ==
  ASSUME NEW o, NEW W \in SUBSET Item, NamesDiffer(W)
  PROVE  NamesDiffer(Chosen(W, o))
<1> SUFFICES ASSUME NEW y \in Chosen(W, o), NEW z \in Chosen(W, o), y.name = z.name
             PROVE  y = z
  BY DEF NamesDiffer
<1>1. PICK x \in W : y = ShownAs(x, o) /\ y.name = x.name
  BY ChosenAreWanted
<1>2. PICK v \in W : z = ShownAs(v, o) /\ z.name = v.name
  BY ChosenAreWanted
<1>3. x = v
  BY <1>1, <1>2 DEF NamesDiffer
<1> QED
  BY <1>1, <1>2, <1>3

LEMMA SameWhateverOrder ==
  ASSUME NEW o \in Choices, o.sort \in Criterion \/ o.dirs_first,
         NEW s \in Inputs, NEW t \in Inputs, Elements(s) = Elements(t),
         NamesDiffer(Elements(s))
  PROVE  SortPhase(FilterPhase(s, o), o) = SortPhase(FilterPhase(t, o), o)
<1> DEFINE W == Chosen(Elements(s), o)
           E == InOrderOf(o, {})
<1>1. Elements(s) \in SUBSET Item
  <2>1. \A k \in DOMAIN s : s[k] \in Item
    BY AsDiscovered
  <2> QED
    BY <2>1 DEF Elements
<1>2. NamesDiffer(W)
  BY <1>1, ChosenNamesDiffer
<1>3. W \in SUBSET Item
  BY <1>1, ChosenAreWanted
<1>4. /\ Ascends(SortPhase(FilterPhase(s, o), o), W, InOrderOf(o, ByPlace(PlaceIn(s))))
      /\ Ascends(SortPhase(FilterPhase(t, o), o), W, InOrderOf(o, ByPlace(PlaceIn(t))))
  BY FilteredAndSorted DEF InOrderOf
<1> HIDE DEF W, E
<1>5. ASSUME NEW u, NEW v \in Inputs, Ascends(u, W, InOrderOf(o, ByPlace(PlaceIn(v))))
      PROVE  Ascends(u, W, E)
  <2> DEFINE B == ByPlace(PlaceIn(v))
  <2>1. \A x \in Item : <<x, x>> \notin B
    <3>1. PlaceIn(v) \in [Int -> Int]
      BY AsDiscovered
    <3>2. \A x \in Item : x.path \in Int
      BY DEF Item
    <3> QED
      BY <3>1, <3>2 DEF ByPlace
  <2> HIDE DEF B
  <2>2. ASSUME NEW j \in DOMAIN u, NEW k \in DOMAIN u, j < k
        PROVE  <<u[j], u[k]>> \in E
    <3>1. u[j] \in W /\ u[k] \in W /\ <<u[j], u[k]>> \in InOrderOf(o, B)
      BY <1>5, <2>2 DEF Ascends, B
    <3>2. u[j] # u[k]
      BY <1>3, <2>1, <3>1, NamesDecide
    <3>3. u[j].name # u[k].name
      BY <1>2, <3>1, <3>2 DEF NamesDiffer
    <3> QED
      BY <1>3, <3>1, <3>3, NamesDecide DEF E
  <2> QED
    BY <1>5, <2>2 DEF Ascends
<1>6. \A x, y \in W : ~ (<<x, y>> \in E /\ <<y, x>> \in E)
  BY <1>3, NamesDecide DEF E
<1>7. /\ Ascends(SortPhase(FilterPhase(s, o), o), W, E)
      /\ Ascends(SortPhase(FilterPhase(t, o), o), W, E)
  BY <1>4, <1>5
<1> QED
  BY <1>6, <1>7, OneAscending

(* Runs can be compared: whatever the items, and in whatever order they    *)
(* come, a sorted report of items of different names is one report.        *)
THEOREM ReportIsOfTheItems == Spec => []ReportIgnoresDiscoveryOrder
<1>1. Processed => ReportIgnoresDiscoveryOrder
  <2> SUFFICES ASSUME Processed, phase = "done",
                      opts.sort \in Criterion \/ opts.dirs_first,
                      NEW other \in Inputs,
                      Elements(other) = Elements(discovered),
                      \A j, k \in DOMAIN other : other[j].name = other[k].name => j = k
               PROVE  LET shown == ReversePhase(SortPhase(FilterPhase(other, opts), opts), opts)
                      IN report = [k \in DOMAIN shown |-> Row(shown[k])]
    BY DEF ReportIgnoresDiscoveryOrder, Elements
  <2>1. NamesDiffer(Elements(other))
    BY DEF NamesDiffer, Elements
  <2>2. /\ discovered \in Inputs /\ opts \in Choices
        /\ items = ReversePhase(SortPhase(FilterPhase(discovered, opts), opts), opts)
        /\ report = [k \in DOMAIN items |-> Row(items[k])]
    BY DEF Processed
  <2>3. SortPhase(FilterPhase(other, opts), opts)
          = SortPhase(FilterPhase(discovered, opts), opts)
    BY <2>1, <2>2, SameWhateverOrder
  <2> QED
    BY <2>2, <2>3
<1> QED
  BY <1>1, AlwaysProcessed, PTL

---------------------------------------------------------------------------
(* What was asked for is shown.                                            *)

LEMMA TurnedElements ==
  ASSUME NEW s \in Seq(Item), NEW o
  PROVE  ReversePhase(s, o) \in Seq(Item) /\ Elements(ReversePhase(s, o)) = Elements(s)
<1> DEFINE n == Len(s)
           t == Reversed(s)
<1>1. DOMAIN s = 1..n /\ n \in Nat /\ \A k \in 1..n : s[k] \in Item
  OBVIOUS
<1> HIDE DEF n
<1>2. t = [k \in 1..n |-> s[n + 1 - k]]
  BY <1>1 DEF Reversed, n
<1>3. \A k \in 1..n : n + 1 - k \in 1..n /\ n + 1 - (n + 1 - k) = k
  BY <1>1
<1> HIDE DEF t
<1>4. t \in Seq(Item) /\ DOMAIN t = 1..n
  BY <1>1, <1>2, <1>3
<1>5. Elements(t) = Elements(s)
  <2>1. \A k \in 1..n : t[k] \in Elements(s)
    BY <1>1, <1>2, <1>3 DEF Elements
  <2>2. \A k \in 1..n : s[k] = t[n + 1 - k]
    BY <1>2, <1>3
  <2>3. \A k \in 1..n : s[k] \in Elements(t)
    BY <1>3, <1>4, <2>2 DEF Elements
  <2> QED
    BY <1>1, <1>4, <2>1, <2>3 DEF Elements
<1> QED
  BY <1>4, <1>5 DEF ReversePhase, t

(* What --min-severity prunes is never the worst, if anything is left. *)
LEMMA WorstIsKept ==
  ASSUME NEW o \in Choices, NEW x \in Item, Wants(x, o)
  PROVE  MaxSeverity(ShownAs(x, o).findings) = MaxSeverity(x.findings)
<1>1. CASE Given(o.min_severity)
  <2> DEFINE level == o.min_severity
             kept  == {id \in x.findings : ~Below(id, level)}
  <2>1. level \in 1..5
    BY <1>1, OutputAssumption DEF Given, Level
  <2>2. ShownAs(x, o).findings = kept
    BY <1>1 DEF ShownAs, PrunedItem, Item
  <2>3. PICK id \in kept : TRUE
    BY <1>1, <2>2 DEF Wants, HasFindings
  <2>4. \A i \in x.findings : i \in Registered /\ LevelOfId(i) = LevelOf[i]
    BY DEF Item, LevelOfId
  <2>5. \A i \in x.findings : LevelOfId(i) \in 0..5
    BY LevelsOfIds
  <2>6. \A i \in x.findings : i \in kept <=> LevelOfId(i) >= level
    BY <2>1, <2>4, <2>5 DEF Below
  <2> HIDE DEF kept, level
  <2>7. kept \subseteq x.findings
    BY DEF kept
  <2> DEFINE m == MaxSeverity(x.findings)
             l == MaxSeverity(kept)
  <2>8. /\ m \in 0..5 /\ l \in 0..5
        /\ \A i \in x.findings : LevelOfId(i) <= m
        /\ \A i \in kept : LevelOfId(i) <= l
        /\ m # 0 => \E i \in x.findings : LevelOfId(i) = m
        /\ l # 0 => \E i \in kept : LevelOfId(i) = l
    BY WorstSeverity
  <2> HIDE DEF m, l
  <2>9. m >= level
    BY <2>1, <2>3, <2>5, <2>6, <2>7, <2>8
  <2>10. PICK i \in x.findings : LevelOfId(i) = m
    BY <2>1, <2>8, <2>9
  <2>11. m <= l
    BY <2>6, <2>8, <2>9, <2>10
  <2>12. l <= m
    BY <2>7, <2>8
  <2> QED
    BY <2>2, <2>8, <2>11, <2>12 DEF m, l
<1>2. CASE ~Given(o.min_severity)
  BY <1>2 DEF ShownAs
<1> QED
  BY <1>1, <1>2

(* Whatever the items and the options: what is asked for is shown, with    *)
(* the findings asked for and its worst severity, and nothing else is.     *)
THEOREM AskedForIsShown == Spec => []WantedFindingsShown
<1>1. ASSUME Processed, phase = "done" PROVE WantedFindingsShown
  <2> DEFINE o == opts
             d == discovered
             sorted == SortPhase(FilterPhase(d, o), o)
             W == Chosen(Elements(d), o)
             Wanted(x) == {id \in x.findings :
                             \/ ~Given(o.min_severity)
                             \/ LevelOfId(id) >= o.min_severity}
  <2>1. /\ d \in Inputs /\ o \in Choices /\ items = ReversePhase(sorted, o)
        /\ report = [k \in DOMAIN items |-> Row(items[k])]
    BY <1>1 DEF Processed
  <2>2. sorted \in Seq(Item) /\ Elements(sorted) = W
    BY <2>1, FilteredAndSorted DEF Ascends, Elements
  <2> HIDE DEF sorted
  <2>3. items \in Seq(Item) /\ Elements(items) = W
    BY <2>1, <2>2, TurnedElements
  <2>4. Elements(d) \in SUBSET Item
    <3>1. \A k \in DOMAIN d : d[k] \in Item
      BY <2>1, AsDiscovered
    <3> QED
      BY <3>1 DEF Elements
  <2>5. /\ W = {ShownAs(x, o) : x \in {x \in Elements(d) : Wants(x, o)}}
        /\ \A x \in Elements(d) : ShownAs(x, o).path = x.path
    BY <2>4, ChosenAreWanted
  <2>6. ASSUME NEW x \in Elements(d) PROVE Found(x.path) = x
    <3>1. PICK k \in DOMAIN d : d[k] = x
      BY DEF Elements
    <3>2. \A j \in DOMAIN d : d[j].path = x.path => j = k
      BY <2>1, <3>1, OutputAssumption
    <3> QED
      BY <3>1, <3>2 DEF Found
  <2>7. ASSUME NEW x \in Elements(d) PROVE ShownAs(x, o).findings = Wanted(x)
    <3>1. x \in Item
      BY <2>4
    <3>2. CASE Given(o.min_severity)
      <4>1. o.min_severity \in 1..5
        BY <2>1, <3>2, OutputAssumption DEF Given, Level
      <4>2. \A i \in x.findings : i \in Registered /\ LevelOfId(i) = LevelOf[i]
        BY <3>1 DEF Item, LevelOfId
      <4>3. \A i \in x.findings : LevelOfId(i) \in 0..5
        BY LevelsOfIds
      <4>4. ShownAs(x, o).findings = {id \in x.findings : ~Below(id, o.min_severity)}
        BY <3>1, <3>2 DEF ShownAs, PrunedItem, Item
      <4>5. \A i \in x.findings : ~Below(i, o.min_severity) <=> LevelOfId(i) >= o.min_severity
        BY <4>1, <4>2, <4>3 DEF Below
      <4> QED
        BY <3>2, <4>4, <4>5
    <3>3. CASE ~Given(o.min_severity)
      BY <3>3 DEF ShownAs
    <3> QED
      BY <3>2, <3>3
  <2>8. ASSUME NEW x \in Elements(d)
        PROVE  Wants(x, o) <=>
                 /\ Given(o.filter) => x.name \in Matches[o.filter]
                 /\ Given(o.min_severity) \/ o.only_findings => Wanted(x) # {}
    BY <2>7 DEF Wants, HasFindings
  <2> HIDE DEF Wanted, W
  <2>9. ASSUME NEW path \in Paths(d)
        PROVE  path \in Paths(items) <=> Wants(Found(path), o)
    <3>1. PICK x \in Elements(d) : x.path = path
      BY DEF Paths, Elements
    <3>2. Found(path) = x
      BY <2>6, <3>1
    <3>3. path \in Paths(items) <=> \E y \in W : y.path = path
      BY <2>3 DEF Paths, Elements
    <3>4. (\E y \in W : y.path = path) <=> \E z \in Elements(d) : Wants(z, o) /\ z.path = path
      BY <2>5
    <3>5. \A z \in Elements(d) : z.path = path => z = x
      BY <2>6, <3>1
    <3> QED
      BY <3>1, <3>2, <3>3, <3>4, <3>5
  <2>10. ASSUME NEW k \in DOMAIN items
         PROVE  /\ items[k].findings = Wanted(Found(items[k].path))
                /\ report[k].severity = MaxSeverity(Found(items[k].path).findings)
    <3>1. items[k] \in W
      BY <2>3 DEF Elements
    <3>2. PICK x \in Elements(d) : items[k] = ShownAs(x, o) /\ Wants(x, o)
      BY <2>5, <3>1
    <3>3. items[k].path = x.path
      BY <2>5, <3>2
    <3>4. Found(items[k].path) = x
      BY <2>6, <3>3
    <3>5. report[k].severity = MaxSeverity(items[k].findings)
      BY <2>1 DEF Row
    <3>6. MaxSeverity(items[k].findings) = MaxSeverity(x.findings)
      BY <2>1, <2>4, <3>2, WorstIsKept
    <3> QED
      BY <2>7, <3>2, <3>4, <3>5, <3>6
  <2>11. \A path \in Paths(d) : Found(path) \in Elements(d)
    BY <2>6 DEF Paths, Elements
  <2> QED
    BY <2>8, <2>9, <2>10, <2>11 DEF WantedFindingsShown, Wanted
<1>2. Processed => WantedFindingsShown
  BY <1>1 DEF WantedFindingsShown
<1> QED
  BY <1>2, AlwaysProcessed, PTL

---------------------------------------------------------------------------
(* One order of all the sorts.                                             *)

LEMMA TurnedBack ==
  ASSUME NEW s \in Seq(Item), NEW o
  PROVE  ReversePhase(ReversePhase(s, o), o) = s
<1> DEFINE n == Len(s)
           t == Reversed(s)
<1>1. DOMAIN s = 1..n /\ n \in Nat /\ s = [k \in 1..n |-> s[k]]
  OBVIOUS
<1>2. t \in Seq(Item) /\ t = [k \in 1..n |-> s[n + 1 - k]]
  <2>1. \A k \in 1..n : n + 1 - k \in 1..n /\ s[k] \in Item
    BY <1>1
  <2>2. t = [k \in 1..n |-> s[n + 1 - k]]
    BY <1>1 DEF Reversed
  <2>3. \A k \in 1..n : s[n + 1 - k] \in Item
    BY <2>1
  <2>4. n \in Nat
    BY <1>1
  <2> HIDE DEF t, n
  <2>5. t \in Seq(Item)
    BY <2>2, <2>3, <2>4
  <2> QED
    BY <2>2, <2>5
<1> HIDE DEF n, t
<1>3. DOMAIN t = 1..n /\ Len(t) = n
  BY <1>1, <1>2
<1>4. \A k \in 1..n : n + 1 - k \in 1..n /\ n + 1 - (n + 1 - k) = k
  BY <1>1
<1>5. Reversed(t) = [k \in 1..n |-> t[n + 1 - k]]
  BY <1>3 DEF Reversed
<1>6. \A k \in 1..n : t[n + 1 - k] = s[k]
  BY <1>2, <1>4
<1>7. Reversed(t) = s
  BY <1>1, <1>5, <1>6
<1> QED
  BY <1>7 DEF ReversePhase, t

(* The first of seven numbers that differs decides. *)
LEMMA FirstDifference ==
  ASSUME NEW a \in [1..7 -> Int], NEW b \in [1..7 -> Int],
         \/ a[1] < b[1] \/ (a[1] = b[1] /\ a[2] < b[2])
         \/ /\ a[1] = b[1] /\ a[2] = b[2]
            /\ \/ a[3] < b[3] \/ (a[3] = b[3] /\ a[4] < b[4])
               \/ /\ a[3] = b[3] /\ a[4] = b[4]
                  /\ \/ a[5] < b[5] \/ (a[5] = b[5] /\ a[6] < b[6])
                     \/ a[5] = b[5] /\ a[6] = b[6] /\ a[7] < b[7]
  PROVE  \E n \in 1..7 : a[n] < b[n] /\ \A p \in 1..(n-1) : a[p] = b[p]
<1> DEFINE Decides(n) == a[n] < b[n] /\ \A p \in 1..(n-1) : a[p] = b[p]
<1>1. /\ 1..0 = {} /\ 1..1 = {1} /\ 1..2 = {1, 2} /\ 1..3 = {1, 2, 3}
      /\ 1..4 = {1, 2, 3, 4} /\ 1..5 = {1, 2, 3, 4, 5} /\ 1..6 = {1, 2, 3, 4, 5, 6}
  OBVIOUS
<1>2. a[1] < b[1] => Decides(1)
  BY <1>1
<1>3. a[1] = b[1] /\ a[2] < b[2] => Decides(2)
  BY <1>1
<1>4. a[1] = b[1] /\ a[2] = b[2] /\ a[3] < b[3] => Decides(3)
  BY <1>1
<1>5. a[1] = b[1] /\ a[2] = b[2] /\ a[3] = b[3] /\ a[4] < b[4] => Decides(4)
  BY <1>1
<1>6. a[1] = b[1] /\ a[2] = b[2] /\ a[3] = b[3] /\ a[4] = b[4] /\ a[5] < b[5] => Decides(5)
  BY <1>1
<1>7. a[1] = b[1] /\ a[2] = b[2] /\ a[3] = b[3] /\ a[4] = b[4] /\ a[5] = b[5]
        /\ a[6] < b[6] => Decides(6)
  BY <1>1
<1>8. a[1] = b[1] /\ a[2] = b[2] /\ a[3] = b[3] /\ a[4] = b[4] /\ a[5] = b[5]
        /\ a[6] = b[6] /\ a[7] < b[7] => Decides(7)
  BY <1>1
<1>9. Decides(1) \/ Decides(2) \/ Decides(3) \/ Decides(4) \/ Decides(5)
        \/ Decides(6) \/ Decides(7)
  <2> HIDE DEF Decides
  <2> QED
    BY <1>2, <1>3, <1>4, <1>5, <1>6, <1>7, <1>8
<1>10. \A n \in {1, 2, 3, 4, 5, 6, 7} : n \in 1..7
  OBVIOUS
<1> HIDE DEF Decides
<1>11. \E n \in 1..7 : Decides(n)
  BY <1>9, <1>10
<1> QED
  BY <1>11 DEF Decides

(* Whatever the items, with ties or without, and whichever of the sorts    *)
(* are asked for: together they make one order, whose last word is the     *)
(* order of discovery.                                                     *)
THEOREM OneOrder == Spec => []SortsCompose
<1>1. ASSUME Processed, phase = "done" PROVE SortsCompose
  <2> DEFINE o == opts
             d == discovered
             sorted == SortPhase(FilterPhase(d, o), o)
             W == Chosen(Elements(d), o)
             Place(x) == CHOOSE k \in DOMAIN d : d[k].path = x.path
             Sorted(x) == CASE o.sort = "name"     -> x.name
                            [] o.sort = "size"     -> 0 - x.size
                            [] o.sort = "type"     -> x.type
                            [] o.sort = "modified" -> x.mtime
                            [] o.sort = "ext"      -> x.ext
                            [] OTHER               -> 0
             Key(x) == <<IF o.findings_first /\ ~HasFindings(x) THEN 1 ELSE 0,
                         IF o.findings_first THEN 0 - MaxSeverity(x.findings) ELSE 0,
                         IF o.dirs_first /\ ~IsDirectory(x) THEN 1 ELSE 0,
                         IF o.dirs_first THEN x.name ELSE 0,
                         Sorted(x),
                         IF o.sort \in Criterion THEN x.name ELSE 0,
                         Place(x)>>
             B == ByPlace(PlaceIn(d))
  <2>1. /\ d \in Inputs /\ o \in Choices /\ items = ReversePhase(sorted, o)
    BY <1>1 DEF Processed
  <2>2. Ascends(sorted, W, ByFindings(o, ByDirs(o, BySort(o, B))))
    BY <2>1, FilteredAndSorted
  <2>3. ReversePhase(items, o) = sorted
    BY <2>1, <2>2, TurnedBack DEF Ascends
  <2> HIDE DEF sorted, W
  <2>4. ASSUME NEW x \in W PROVE x \in Item /\ Place(x) = PlaceIn(d)[x.path] /\ Place(x) \in Int
    <3>1. Elements(d) \in SUBSET Item
      <4>1. \A k \in DOMAIN d : d[k] \in Item
        BY <2>1, AsDiscovered
      <4> QED
        BY <4>1 DEF Elements
    <3>2. PICK z \in Elements(d) : x = ShownAs(z, o) /\ x \in Item /\ x.path = z.path
      BY <3>1, ChosenAreWanted DEF W
    <3>3. PICK k \in DOMAIN d : d[k].path = x.path
      BY <3>2 DEF Elements
    <3>4. x.path \in Paths(d) /\ x.path \in Int
      BY <3>2, <3>3 DEF Paths, Item
    <3>5. Place(x) = PlaceIn(d)[x.path]
      BY <3>4 DEF PlaceIn
    <3>6. PlaceIn(d) \in [Int -> Int]
      BY <2>1, AsDiscovered
    <3> QED
      BY <3>2, <3>4, <3>5, <3>6
  <2> HIDE DEF Place, B, d
  <2>5. ASSUME NEW x \in Item
        PROVE  /\ {x.name, x.size, x.type, x.mtime, x.ext} \subseteq Int
               /\ Sorted(x) \in Int
               /\ MaxSeverity(x.findings) \in Int
    <3>1. {x.name, x.size, x.type, x.mtime, x.ext} \subseteq Int
      BY DEF Item
    <3>2. MaxSeverity(x.findings) \in Int
      BY WorstSeverity
    <3> QED
      BY <3>1, <3>2
  <2>6. ASSUME NEW x \in Item, o.sort \in Criterion
        PROVE  /\ By(o.sort)[x] = Sorted(x)
               /\ ThenBy(o.sort)[x] = IF o.sort = "name" THEN 0 ELSE x.name
    <3>1. o.sort \in {"name", "size", "type", "modified", "ext"}
      BY <2>6 DEF Criterion
    <3> QED
      BY <3>1 DEF By, ThenBy, ByName, Same
  <2>7. o.sort = "name" => \A x \in Item : Sorted(x) = x.name
    OBVIOUS
  <2>8. o.sort \notin Criterion => \A x \in Item : Sorted(x) = 0
    BY DEF Criterion
  <2> HIDE DEF Sorted
  <2>9. ASSUME NEW x \in W
        PROVE  Key(x) \in [1..7 -> Int] /\ Len(Key(x)) = 7
    <3>1. x \in Item /\ Place(x) \in Int /\ x.name \in Int
          /\ MaxSeverity(x.findings) \in Int /\ Sorted(x) \in Int
      BY <2>4, <2>5
    <3> QED
      BY <3>1
  <2>10. ASSUME NEW x \in W, NEW y \in W,
                <<x, y>> \in ByFindings(o, ByDirs(o, BySort(o, B)))
         PROVE  \E n \in 1..7 : Key(x)[n] < Key(y)[n]
                                /\ \A p \in 1..(n-1) : Key(x)[p] = Key(y)[p]
    <3> DEFINE a == Key(x)
               b == Key(y)
    <3>1. x \in Item /\ y \in Item
      BY <2>4
    <3>2. a \in [1..7 -> Int] /\ b \in [1..7 -> Int]
      BY <2>9
    <3>3. <<x, y>> \in B => a[7] < b[7]
      BY <2>4 DEF ByPlace, B
    <3>4. <<x, y>> \in BySort(o, B) =>
            \/ a[5] < b[5] \/ (a[5] = b[5] /\ a[6] < b[6])
            \/ a[5] = b[5] /\ a[6] = b[6] /\ <<x, y>> \in B
      <4>1. /\ a[5] = Sorted(x) /\ a[6] = IF o.sort \in Criterion THEN x.name ELSE 0
            /\ b[5] = Sorted(y) /\ b[6] = IF o.sort \in Criterion THEN y.name ELSE 0
        OBVIOUS
      <4>2. CASE o.sort \in Criterion
        <5>1. <<x, y>> \in BySort(o, B) =>
                \/ KeyLess(By(o.sort), ThenBy(o.sort), x, y)
                \/ SameKey(By(o.sort), ThenBy(o.sort), x, y) /\ <<x, y>> \in B
          BY <3>1, <4>2, InFiner DEF BySort
        <5> HIDE DEF a, b
        <5> QED
          BY <2>6, <2>7, <3>1, <4>1, <4>2, <5>1 DEF KeyLess, SameKey
      <4>3. CASE o.sort \notin Criterion
        <5> HIDE DEF a, b
        <5> QED
          BY <2>8, <3>1, <4>1, <4>3 DEF BySort
      <4> QED
        BY <4>2, <4>3
    <3>5. <<x, y>> \in ByDirs(o, BySort(o, B)) =>
            \/ a[3] < b[3] \/ (a[3] = b[3] /\ a[4] < b[4])
            \/ a[3] = b[3] /\ a[4] = b[4] /\ <<x, y>> \in BySort(o, B)
      <4>1. /\ a[3] = IF o.dirs_first /\ ~IsDirectory(x) THEN 1 ELSE 0
            /\ a[4] = IF o.dirs_first THEN x.name ELSE 0
            /\ b[3] = IF o.dirs_first /\ ~IsDirectory(y) THEN 1 ELSE 0
            /\ b[4] = IF o.dirs_first THEN y.name ELSE 0
        OBVIOUS
      <4> DEFINE C == BySort(o, B)
      <4> HIDE DEF a, b, C
      <4>2. CASE o.dirs_first
        <5>1. <<x, y>> \in ByDirs(o, C) =>
                \/ KeyLess(DirsFirst, ByName, x, y)
                \/ SameKey(DirsFirst, ByName, x, y) /\ <<x, y>> \in C
          BY <3>1, <4>2, InFiner DEF ByDirs
        <5>2. /\ DirsFirst[x] = a[3] /\ ByName[x] = a[4]
              /\ DirsFirst[y] = b[3] /\ ByName[y] = b[4]
          BY <3>1, <4>1, <4>2 DEF DirsFirst, ByName
        <5> QED
          BY <5>1, <5>2 DEF KeyLess, SameKey, C
      <4>3. CASE ~o.dirs_first
        BY <4>1, <4>3 DEF ByDirs, C
      <4> QED
        BY <4>2, <4>3
    <3>6. \/ a[1] < b[1] \/ (a[1] = b[1] /\ a[2] < b[2])
          \/ a[1] = b[1] /\ a[2] = b[2] /\ <<x, y>> \in ByDirs(o, BySort(o, B))
      <4>1. /\ a[1] = IF o.findings_first /\ ~HasFindings(x) THEN 1 ELSE 0
            /\ a[2] = IF o.findings_first THEN 0 - MaxSeverity(x.findings) ELSE 0
            /\ b[1] = IF o.findings_first /\ ~HasFindings(y) THEN 1 ELSE 0
            /\ b[2] = IF o.findings_first THEN 0 - MaxSeverity(y.findings) ELSE 0
        OBVIOUS
      <4> DEFINE C == ByDirs(o, BySort(o, B))
      <4> HIDE DEF a, b, C
      <4>2. <<x, y>> \in ByFindings(o, C)
        BY <2>10 DEF C
      <4>3. CASE o.findings_first
        <5>1. \/ KeyLess(FindingsFirst, WorstFirst, x, y)
              \/ SameKey(FindingsFirst, WorstFirst, x, y) /\ <<x, y>> \in C
          BY <3>1, <4>2, <4>3, InFiner DEF ByFindings
        <5>2. /\ FindingsFirst[x] = a[1] /\ WorstFirst[x] = a[2]
              /\ FindingsFirst[y] = b[1] /\ WorstFirst[y] = b[2]
          BY <3>1, <4>1, <4>3 DEF FindingsFirst, WorstFirst
        <5> QED
          BY <5>1, <5>2 DEF KeyLess, SameKey, C
      <4>4. CASE ~o.findings_first
        BY <4>1, <4>2, <4>4 DEF ByFindings, C
      <4> QED
        BY <4>3, <4>4
    <3> HIDE DEF a, b
    <3>7. \E n \in 1..7 : a[n] < b[n] /\ \A p \in 1..(n-1) : a[p] = b[p]
      BY <3>2, <3>3, <3>4, <3>5, <3>6, FirstDifference
    <3> QED
      BY <3>7 DEF a, b
  <2>11. ASSUME NEW j \in DOMAIN sorted, NEW k \in DOMAIN sorted, j < k
         PROVE  /\ sorted[j] \in W /\ sorted[k] \in W
                /\ <<sorted[j], sorted[k]>> \in ByFindings(o, ByDirs(o, BySort(o, B)))
    BY <2>2, <2>11 DEF Ascends
  <2>12. ASSUME NEW j \in DOMAIN sorted, NEW k \in DOMAIN sorted, j < k
         PROVE  \E n \in 1..Len(Key(sorted[j])) :
                  /\ Key(sorted[j])[n] < Key(sorted[k])[n]
                  /\ \A p \in 1..(n-1) : Key(sorted[j])[p] = Key(sorted[k])[p]
    <3> HIDE DEF Key
    <3> QED
      BY <2>9, <2>10, <2>11, <2>12
  <2> QED
    BY <2>3, <2>12 DEF SortsCompose, Place, Sorted, d
<1>2. Processed => SortsCompose
  BY <1>1 DEF SortsCompose
<1> QED
  BY <1>2, AlwaysProcessed, PTL
=============================================================================
