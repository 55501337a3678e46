------------------------ MODULE NameSimilarityProofs ------------------------
(***************************************************************************)
(* What the scores of a search say is true (NameSimilarity), for every     *)
(* text that can be typed and every record.  Tables, walks and sums are    *)
(* recursive functions: RecursionSolved gives each a solution whose values *)
(* have the properties that a step of the recursion keeps.                 *)
(***************************************************************************)
EXTENDS NameSimilarity, WellFoundedInduction, NaturalsInduction, TLAPS

-----------------------------------------------------------------------------
(***************************************************************************)
(* Recursion and induction                                                 *)
(***************************************************************************)
\* A set of numbers has a least one.
LEMMA LeastOfNaturals ==
    ASSUME NEW T, T \subseteq Nat, T # {}
    PROVE  \E x \in T : \A y \in T : x <= y
<1>1. PICK x \in T : \A y \in T : ~(<<y, x>> \in OpToRel(<, Nat))
  BY NatLessThanWellFounded, WFMin
<1>2. ASSUME NEW y \in T
      PROVE  x <= y
  <2>1. ~(y < x)
    BY <1>1 DEF OpToRel
  <2> QED BY <2>1
<1> QED BY <1>2

\* Induction, of a set of numbers.
LEMMA AllNaturals ==
    ASSUME NEW T, 0 \in T, \A n \in Nat : n \in T => n + 1 \in T
    PROVE  \A n \in Nat : n \in T
<1> SUFFICES ASSUME NEW m \in Nat, m \notin T
             PROVE  FALSE
  OBVIOUS
<1>1. PICK x \in Nat \ T : \A y \in Nat \ T : x <= y
  <2>1. Nat \ T \subseteq Nat /\ Nat \ T # {}
    OBVIOUS
  <2> QED BY <2>1, LeastOfNaturals
<1>2. x - 1 \in Nat /\ x = (x - 1) + 1
  BY <1>1
<1>3. x - 1 \in T
  BY <1>1, <1>2
<1> QED BY <1>1, <1>2, <1>3

\* g is defined by recursion on D: at p from its value at prev[p].
Recursion(D, rank, prev, step, base, g) ==
    g = [p \in D |-> IF rank[p] = 0 THEN base ELSE step[p][g[prev[p]]]]

\* The recursion goes down, and its steps keep to V.
GoesDown(D, rank, prev, step, base, V) ==
    \A p \in D :
        /\ rank[p] \in Nat
        /\ rank[p] = 0 => base \in V[p]
        /\ rank[p] # 0 =>
                /\ prev[p] \in D /\ rank[prev[p]] < rank[p]
                /\ \A v \in V[prev[p]] : step[p][v] \in V[p]

\* Such a recursion has a solution, and its values are in V.
LEMMA RecursionSolved ==
    ASSUME NEW D, NEW rank, NEW prev, NEW step, NEW base, NEW V,
           GoesDown(D, rank, prev, step, base, V)
    PROVE  \E g : Recursion(D, rank, prev, step, base, g) /\ \A p \in D : g[p] \in V[p]
<1> DEFINE Below(n) == {p \in D : rank[p] < n}
           Solves(n, g) ==
                /\ g = [p \in Below(n) |->
                            IF rank[p] = 0 THEN base ELSE step[p][g[prev[p]]]]
                /\ \A p \in Below(n) : g[p] \in V[p]
           Solved == {n \in Nat : \E g : Solves(n, g)}
<1>1. 0 \in Solved
  <2>1. Below(0) = {}
    BY DEF GoesDown
  <2>2. Solves(0, [p \in {} |-> base])
    BY <2>1
  <2> QED BY <2>2
<1>2. ASSUME NEW n \in Nat, n \in Solved
      PROVE  n + 1 \in Solved
  <2>1. PICK g : Solves(n, g)
    BY <1>2
  <2> DEFINE h == [p \in Below(n + 1) |->
                        IF rank[p] = 0 THEN base ELSE step[p][g[prev[p]]]]
  <2>2. ASSUME NEW p \in Below(n)
        PROVE  p \in Below(n + 1) /\ h[p] = g[p]
    <3>1. p \in Below(n + 1)
      BY DEF GoesDown
    <3> QED BY <2>1, <3>1
  <2>3. ASSUME NEW p \in Below(n + 1), rank[p] # 0
        PROVE  prev[p] \in Below(n)
    BY <2>3 DEF GoesDown
  <2>4. ASSUME NEW p \in Below(n + 1)
        PROVE  /\ h[p] = IF rank[p] = 0 THEN base ELSE step[p][h[prev[p]]]
               /\ h[p] \in V[p]
    <3>1. CASE rank[p] = 0
      BY <3>1 DEF GoesDown
    <3>2. CASE rank[p] # 0
      <4>1. prev[p] \in Below(n)
        BY <2>3, <3>2
      <4>2. h[prev[p]] = g[prev[p]] /\ g[prev[p]] \in V[prev[p]]
        BY <2>1, <2>2, <4>1
      <4> QED BY <3>2, <4>2 DEF GoesDown
    <3> QED BY <3>1, <3>2
  <2>5. h = [p \in Below(n + 1) |->
                IF rank[p] = 0 THEN base ELSE step[p][h[prev[p]]]]
    <3> HIDE DEF h
    <3>1. h = [p \in Below(n + 1) |-> h[p]]
      BY DEF h
    <3> QED BY <2>4, <3>1
  <2> HIDE DEF h
  <2>6. Solves(n + 1, h)
    BY <2>4, <2>5
  <2> QED BY <2>6
<1>3. \A n \in Nat : \E g : Solves(n, g)
  <2> HIDE DEF Solved
  <2>1. \A n \in Nat : n \in Solved
    BY <1>1, <1>2, AllNaturals
  <2> QED BY <2>1 DEF Solved
\* One solution for each bound; they agree where both are defined.
<1> DEFINE G == [n \in Nat |-> CHOOSE g : Solves(n, g)]
<1>4. ASSUME NEW n \in Nat
      PROVE  Solves(n, G[n])
  BY <1>3
<1> HIDE DEF G
<1>a. ASSUME NEW n \in Nat, NEW p \in Below(n)
      PROVE  /\ G[n][p] = IF rank[p] = 0 THEN base ELSE step[p][G[n][prev[p]]]
             /\ G[n][p] \in V[p]
  <2> DEFINE f == G[n]
  <2>1. Solves(n, f)
    BY <1>4
  <2> HIDE DEF f
  <2>2. /\ f[p] = IF rank[p] = 0 THEN base ELSE step[p][f[prev[p]]]
        /\ f[p] \in V[p]
    BY <2>1
  <2> QED BY <2>2 DEF f
<1> DEFINE Agree == {n \in Nat : \A k \in Nat, p \in Below(n) : p \in Below(k) =>
                                        G[n][p] = G[k][p]}
<1>5. \A n \in Nat : n \in Agree
  <2>1. 0 \in Agree
    BY DEF GoesDown
  <2>2. ASSUME NEW n \in Nat, n \in Agree
        PROVE  n + 1 \in Agree
    <3> SUFFICES ASSUME NEW k \in Nat, NEW p \in Below(n + 1), p \in Below(k)
                 PROVE  G[n + 1][p] = G[k][p]
      OBVIOUS
    <3>1. /\ G[n + 1][p] = IF rank[p] = 0 THEN base ELSE step[p][G[n + 1][prev[p]]]
          /\ G[k][p] = IF rank[p] = 0 THEN base ELSE step[p][G[k][prev[p]]]
      BY <1>a
    <3>2. CASE rank[p] # 0
      <4>1. prev[p] \in Below(n) /\ prev[p] \in Below(n + 1) /\ prev[p] \in Below(k)
        BY <3>2 DEF GoesDown
      <4>2. G[n + 1][prev[p]] = G[n][prev[p]] /\ G[n][prev[p]] = G[k][prev[p]]
        BY <2>2, <4>1
      <4> QED BY <3>1, <4>2
    <3> QED BY <3>1, <3>2
  <2> HIDE DEF Agree
  <2> QED BY <2>1, <2>2, AllNaturals
<1> DEFINE g == [p \in D |-> G[rank[p] + 1][p]]
<1>6. ASSUME NEW p \in D
      PROVE  /\ g[p] = IF rank[p] = 0 THEN base ELSE step[p][g[prev[p]]]
             /\ g[p] \in V[p]
  <2>1. rank[p] + 1 \in Nat /\ p \in Below(rank[p] + 1)
    BY DEF GoesDown
  <2>2. /\ g[p] = IF rank[p] = 0 THEN base ELSE step[p][G[rank[p] + 1][prev[p]]]
        /\ g[p] \in V[p]
    BY <1>a, <2>1
  <2>3. CASE rank[p] # 0
    <3>1. /\ prev[p] \in D /\ rank[prev[p]] + 1 \in Nat
          /\ prev[p] \in Below(rank[p] + 1) /\ prev[p] \in Below(rank[prev[p]] + 1)
      BY <2>3 DEF GoesDown
    <3>2. G[rank[p] + 1][prev[p]] = G[rank[prev[p]] + 1][prev[p]]
      BY <1>5, <2>1, <3>1
    <3> QED BY <2>2, <3>1, <3>2
  <2> QED BY <2>2, <2>3
<1>7. g = [p \in D |-> IF rank[p] = 0 THEN base ELSE step[p][g[prev[p]]]]
  <2> HIDE DEF g
  <2>1. g = [p \in D |-> g[p]]
    BY DEF g
  <2> QED BY <1>6, <2>1
<1> QED BY <1>6, <1>7 DEF Recursion

\* The same, of a recursion that counts.
Counted(n, base, step, g) ==
    g = [k \in 0..n |-> IF k = 0 THEN base ELSE step[k][g[k - 1]]]

Keeps(n, step, V) == \A k \in 1..n : \A v \in V[k - 1] : step[k][v] \in V[k]

LEMMA CountedSolved ==
    ASSUME NEW n \in Nat, NEW base, NEW step, NEW V, base \in V[0], Keeps(n, step, V)
    PROVE  \E g : Counted(n, base, step, g) /\ \A k \in 0..n : g[k] \in V[k]
<1> DEFINE D == 0..n
           rank == [k \in D |-> k]
           prev == [k \in D |-> k - 1]
<1>1. ASSUME NEW k \in D
      PROVE  /\ rank[k] \in Nat
             /\ rank[k] = 0 => base \in V[k]
             /\ rank[k] # 0 =>
                    /\ prev[k] \in D /\ rank[prev[k]] < rank[k]
                    /\ \A v \in V[prev[k]] : step[k][v] \in V[k]
  <2>1. rank[k] = k /\ prev[k] = k - 1
    OBVIOUS
  <2>2. k # 0 => k \in 1..n /\ k - 1 \in D /\ rank[k - 1] = k - 1 /\ k - 1 < k
    OBVIOUS
  <2> HIDE DEF rank, prev
  <2>3. CASE k = 0
    BY <2>1, <2>3
  <2>4. CASE k # 0
    <3>1. \A v \in V[k - 1] : step[k][v] \in V[k]
      BY <2>2, <2>4 DEF Keeps
    <3> QED BY <2>1, <2>2, <2>4, <3>1
  <2> QED BY <2>3, <2>4
<1> HIDE DEF D, rank, prev
<1>2. GoesDown(D, rank, prev, step, base, V)
  BY <1>1 DEF GoesDown
<1>3. PICK g : Recursion(D, rank, prev, step, base, g) /\ \A k \in D : g[k] \in V[k]
  BY <1>2, RecursionSolved
<1>4. g = [k \in D |-> IF rank[k] = 0 THEN base ELSE step[k][g[prev[k]]]]
  BY <1>3 DEF Recursion
<1>5. \A k \in D : rank[k] = k /\ prev[k] = k - 1
  BY DEF rank, prev
<1>6. g = [k \in D |-> IF k = 0 THEN base ELSE step[k][g[k - 1]]]
  BY <1>4, <1>5
<1> QED BY <1>3, <1>6 DEF D, Counted

\* What the first value has, and each value hands on, all have.
LEMMA HandedOn ==
    ASSUME NEW n \in Nat, NEW g, NEW V, g[0] \in V[0],
           \A k \in 1..n : g[k - 1] \in V[k - 1] => g[k] \in V[k]
    PROVE  \A k \in 0..n : g[k] \in V[k]
<1> DEFINE T == {k \in Nat : k \in 0..n => g[k] \in V[k]}
<1>1. 0 \in T
  OBVIOUS
<1>2. ASSUME NEW k \in Nat, k \in T
      PROVE  k + 1 \in T
  <2>1. CASE k + 1 \in 0..n
    <3>1. k + 1 \in 1..n /\ k \in 0..n /\ (k + 1) - 1 = k
      BY <2>1
    <3>2. g[k] \in V[k]
      BY <1>2, <3>1
    <3> QED BY <3>1, <3>2
  <2> QED BY <2>1
<1> HIDE DEF T
<1>3. \A k \in Nat : k \in T
  BY <1>1, <1>2, AllNaturals
<1> QED BY <1>3 DEF T

-----------------------------------------------------------------------------
(***************************************************************************)
(* The edits an alignment may end with                                     *)
(***************************************************************************)
\* Letters, and what Canonical writes, which provers do not know to be a string.
Letter == STRING \cup {"m"}

Text == Seq(Letter)

\* What is true of an edit that leads to the first i and j letters.
TrueEdits(a, b, i, j) ==
    {e \in [kind : {"equal", "sub", "trans", "del", "ins"}, cost : Nat,
            i : 0..i, j : 0..j] :
        /\ e.kind = "equal" => /\ e.i = i - 1 /\ e.j = j - 1
                               /\ a[i] = b[j] /\ e.cost = 0
        /\ e.kind = "sub" => e.i = i - 1 /\ e.j = j - 1 /\ a[i] # b[j]
        /\ e.kind = "trans" => /\ e.i = i - 2 /\ e.j = j - 2 /\ e.cost = TransposeCost
                               /\ a[i] = b[j - 1] /\ a[i - 1] = b[j]
        /\ e.kind = "del" => e.i = i - 1 /\ e.j = j
        /\ e.kind = "ins" => e.i = i /\ e.j = j - 1
        /\ e.kind # "equal" => e.cost >= 2}

LEMMA ConcatSets ==
    ASSUME NEW S, NEW s \in Seq(S), NEW t \in Seq(S)
    PROVE  ToSet(s \o t) = ToSet(s) \cup ToSet(t)
<1>1. /\ Len(s) \in Nat /\ Len(t) \in Nat /\ s \o t \in Seq(S)
      /\ Len(s \o t) = Len(s) + Len(t)
      /\ DOMAIN s = 1..Len(s) /\ DOMAIN t = 1..Len(t)
      /\ DOMAIN (s \o t) = 1..(Len(s) + Len(t))
  OBVIOUS
<1>2. \A k \in 1..Len(s) : (s \o t)[k] = s[k]
  OBVIOUS
<1>3. \A k \in 1..Len(t) : (s \o t)[Len(s) + k] = t[k] /\ Len(s) + k \in DOMAIN (s \o t)
  BY <1>1
<1>4. ASSUME NEW k \in DOMAIN (s \o t), k > Len(s)
      PROVE  k - Len(s) \in 1..Len(t) /\ (s \o t)[k] = t[k - Len(s)]
  BY <1>1, <1>4
<1>5. ASSUME NEW x \in ToSet(s \o t)
      PROVE  x \in ToSet(s) \cup ToSet(t)
  <2>1. PICK k \in DOMAIN (s \o t) : x = (s \o t)[k]
    BY <1>5 DEF ToSet
  <2>2. CASE k <= Len(s)
    BY <1>1, <1>2, <2>1, <2>2 DEF ToSet
  <2>3. CASE k > Len(s)
    BY <1>1, <1>4, <2>1, <2>3 DEF ToSet
  <2> QED BY <1>1, <2>1, <2>2, <2>3
<1>6. ASSUME NEW x \in ToSet(s)
      PROVE  x \in ToSet(s \o t)
  <2>1. PICK k \in 1..Len(s) : x = s[k]
    BY <1>1, <1>6 DEF ToSet
  <2>2. k \in DOMAIN (s \o t) /\ (s \o t)[k] = x
    BY <1>1, <1>2, <2>1
  <2> QED BY <2>2 DEF ToSet
<1>7. ASSUME NEW x \in ToSet(t)
      PROVE  x \in ToSet(s \o t)
  <2>1. PICK k \in 1..Len(t) : x = t[k]
    BY <1>1, <1>7 DEF ToSet
  <2>2. Len(s) + k \in DOMAIN (s \o t) /\ (s \o t)[Len(s) + k] = x
    BY <1>3, <2>1
  <2> QED BY <2>2 DEF ToSet
<1> QED BY <1>5, <1>6, <1>7

LEMMA InSet ==
    ASSUME NEW S, NEW s \in Seq(S)
    PROVE  ToSet(s) \subseteq S
BY DEF ToSet

\* Each kind of edit is true of the letters it ends with.
LEMMA EachTrue ==
    ASSUME NEW a \in Text, NEW b \in Text, NEW i \in 0..Len(a), NEW j \in 0..Len(b)
    PROVE  /\ Trans(a, b, i, j) \in Seq(TrueEdits(a, b, i, j))
           /\ Diagonal(a, b, i, j) \in Seq(TrueEdits(a, b, i, j))
           /\ Del(a, i, j) \in Seq(TrueEdits(a, b, i, j))
           /\ Ins(b, i, j) \in Seq(TrueEdits(a, b, i, j))
<1> DEFINE T == TrueEdits(a, b, i, j)
<1>1. Len(a) \in Nat /\ Len(b) \in Nat /\ i \in Nat /\ j \in Nat
  BY DEF Text
<1>2. <<>> \in Seq(T)
  OBVIOUS
<1>3. \A e \in T : <<e>> \in Seq(T)
  OBVIOUS
<1>4. ASSUME Transposable(a, b, i, j)
      PROVE  Op("trans", TransposeCost, i - 2, j - 2) \in T
  BY <1>1, <1>4 DEF Transposable, Op, TransposeCost, TrueEdits
<1>5. ASSUME i # 0, j # 0, a[i] = b[j]
      PROVE  Op("equal", 0, i - 1, j - 1) \in T
  BY <1>1, <1>5 DEF Op, TrueEdits
<1>6. ASSUME i # 0, j # 0, a[i] # b[j]
      PROVE  Op("sub", SubCost(a[i], b[j]), i - 1, j - 1) \in T
  <2>1. SubCost(a[i], b[j]) \in Nat /\ SubCost(a[i], b[j]) >= 2
    BY DEF SubCost, VowelSubCost, FullCost
  <2> QED BY <1>1, <1>6, <2>1 DEF Op, TrueEdits
<1>7. ASSUME i # 0
      PROVE  Op("del", InsCost(a, i), i - 1, j) \in T
  <2>1. InsCost(a, i) \in Nat /\ InsCost(a, i) >= 2
    BY DEF InsCost, GeminationCost, FullCost
  <2> QED BY <1>1, <1>7, <2>1 DEF Op, TrueEdits
<1>8. ASSUME j # 0
      PROVE  Op("ins", InsCost(b, j), i, j - 1) \in T
  <2>1. InsCost(b, j) \in Nat /\ InsCost(b, j) >= 2
    BY DEF InsCost, GeminationCost, FullCost
  <2> QED BY <1>1, <1>8, <2>1 DEF Op, TrueEdits
<1> HIDE DEF T
<1>9. Trans(a, b, i, j) \in Seq(T)
  BY <1>2, <1>3, <1>4 DEF Trans
<1>10. Diagonal(a, b, i, j) \in Seq(T)
  BY <1>2, <1>3, <1>5, <1>6 DEF Diagonal
<1>11. Del(a, i, j) \in Seq(T)
  BY <1>2, <1>3, <1>7 DEF Del
<1>12. Ins(b, i, j) \in Seq(T)
  BY <1>2, <1>3, <1>8 DEF Ins
<1> QED BY <1>9, <1>10, <1>11, <1>12 DEF T

\* All are tried, there is one unless both texts are empty, and where the last
\* letters agree one of them costs nothing.
LEMMA EndsTrue ==
    ASSUME NEW a \in Text, NEW b \in Text, NEW i \in 0..Len(a), NEW j \in 0..Len(b)
    PROVE  /\ Ends(a, b, i, j) \in Seq(TrueEdits(a, b, i, j))
           /\ ToSet(Ends(a, b, i, j)) \subseteq TrueEdits(a, b, i, j)
           /\ i # 0 \/ j # 0 => ToSet(Ends(a, b, i, j)) # {}
           /\ i # 0 /\ j # 0 /\ a[i] = b[j] =>
                Op("equal", 0, i - 1, j - 1) \in ToSet(Ends(a, b, i, j))
<1> DEFINE T == TrueEdits(a, b, i, j)
           t == Trans(a, b, i, j)
           g == Diagonal(a, b, i, j)
           l == Del(a, i, j)
           n == Ins(b, i, j)
<1>1. t \in Seq(T) /\ g \in Seq(T) /\ l \in Seq(T) /\ n \in Seq(T)
  BY EachTrue
<1>2. \A x : ToSet(<<x>>) = {x}
  BY DEF ToSet
<1>3. i # 0 => ToSet(l) # {}
  BY <1>2 DEF Del
<1>4. j # 0 => ToSet(n) # {}
  BY <1>2 DEF Ins
<1>5. i # 0 /\ j # 0 /\ a[i] = b[j] => Op("equal", 0, i - 1, j - 1) \in ToSet(g)
  BY <1>2 DEF Diagonal
<1>6. Ends(a, b, i, j) = t \o g \o l \o n
  BY DEF Ends
<1> HIDE DEF T, t, g, l, n
<1>7. t \o g \in Seq(T) /\ t \o g \o l \in Seq(T) /\ t \o g \o l \o n \in Seq(T)
  BY <1>1
<1>8. ToSet(t \o g) = ToSet(t) \cup ToSet(g)
  BY <1>1, ConcatSets
<1>9. ToSet(t \o g \o l) = ToSet(t \o g) \cup ToSet(l)
  BY <1>1, <1>7, ConcatSets
<1>10. ToSet(t \o g \o l \o n) = ToSet(t \o g \o l) \cup ToSet(n)
  BY <1>1, <1>7, ConcatSets
<1>11. ToSet(Ends(a, b, i, j)) \subseteq T
  BY <1>6, <1>7, InSet
<1>12. ToSet(Ends(a, b, i, j)) = ToSet(t) \cup ToSet(g) \cup ToSet(l) \cup ToSet(n)
  BY <1>6, <1>8, <1>9, <1>10
<1> QED BY <1>3, <1>4, <1>5, <1>6, <1>7, <1>11, <1>12 DEF T

-----------------------------------------------------------------------------
(***************************************************************************)
(* The table                                                               *)
(***************************************************************************)
CostAt(above, row, i, e) ==
    e.cost + (IF e.i = i THEN row[e.j] ELSE above[e.i][e.j])

\* row[j] is what the cheapest of the edits that end there makes it.
IsLeast(a, b, above, row, i, j) ==
    /\ i = 0 /\ j = 0 => row[j] = 0
    /\ i # 0 \/ j # 0 =>
        /\ \E e \in ToSet(Ends(a, b, i, j)) : row[j] = CostAt(above, row, i, e)
        /\ \A e \in ToSet(Ends(a, b, i, j)) : row[j] <= CostAt(above, row, i, e)

\* The edit before the last one ends above, or before in the same row.
LEMMA EditsGoDown ==
    ASSUME NEW a \in Text, NEW b \in Text, NEW i \in 0..Len(a), NEW j \in 0..Len(b),
           NEW e \in TrueEdits(a, b, i, j)
    PROVE  /\ e.i \in 0..Len(a) /\ e.j \in 0..Len(b) /\ e.cost \in Nat
           /\ e.i = i => e.j \in 0..(j - 1)
           /\ e.i # i => e.i \in 0..(i - 1)
           /\ e.i + e.j < i + j
<1>1. Len(a) \in Nat /\ Len(b) \in Nat /\ i \in Nat /\ j \in Nat
  BY DEF Text
<1>2. /\ e.kind \in {"equal", "sub", "trans", "del", "ins"}
      /\ e.i \in 0..i /\ e.j \in 0..j /\ e.cost \in Nat
      /\ e.kind \in {"equal", "sub"} => e.i = i - 1 /\ e.j = j - 1
      /\ e.kind = "trans" => e.i = i - 2 /\ e.j = j - 2
      /\ e.kind = "del" => e.i = i - 1 /\ e.j = j
      /\ e.kind = "ins" => e.i = i /\ e.j = j - 1
  BY DEF TrueEdits
<1> QED BY <1>1, <1>2

LEMMA CellLeast ==
    ASSUME NEW a \in Text, NEW b \in Text, NEW i \in 0..Len(a), NEW j \in 0..Len(b),
           NEW above, \A x \in 0..(i - 1), y \in 0..Len(b) : above[x][y] \in Nat,
           NEW before, \A y \in 0..(j - 1) : before[y] \in Nat
    PROVE  /\ Cell(a, b, above, before, i, j) \in Nat
           /\ i = 0 /\ j = 0 => Cell(a, b, above, before, i, j) = 0
           /\ i # 0 \/ j # 0 =>
                /\ \E e \in ToSet(Ends(a, b, i, j)) :
                        Cell(a, b, above, before, i, j) = CostAt(above, before, i, e)
                /\ \A e \in ToSet(Ends(a, b, i, j)) :
                        Cell(a, b, above, before, i, j) <= CostAt(above, before, i, e)
<1>1. CASE i = 0 /\ j = 0
  BY <1>1 DEF Cell
<1>2. CASE i # 0 \/ j # 0
  <2> DEFINE costs == {CostAt(above, before, i, e) : e \in ToSet(Ends(a, b, i, j))}
  <2>1. Cell(a, b, above, before, i, j) = Min(costs)
    BY <1>2 DEF Cell, CostAt
  <2>2. ASSUME NEW e \in ToSet(Ends(a, b, i, j))
        PROVE  CostAt(above, before, i, e) \in Nat
    <3>1. e \in TrueEdits(a, b, i, j)
      BY EndsTrue
    <3>2. /\ e.cost \in Nat /\ e.j \in 0..Len(b)
          /\ e.i = i => e.j \in 0..(j - 1)
          /\ e.i # i => e.i \in 0..(i - 1)
      BY <3>1, EditsGoDown
    <3> QED BY <3>2 DEF CostAt
  <2>3. costs \subseteq Nat /\ costs # {}
    BY <1>2, <2>2, EndsTrue
  <2>4. PICK x \in costs : \A y \in costs : x <= y
    BY <2>3, LeastOfNaturals
  <2>5. Min(costs) \in costs /\ \A y \in costs : Min(costs) <= y
    <3> HIDE DEF costs
    <3> QED BY <2>4 DEF Min
  <2> QED BY <1>2, <2>1, <2>3, <2>5
<1> QED BY <1>1, <1>2

\* Rows of k cells, and tables of k rows, that are right so far.
RowsRight(a, b, above, i, k) ==
    {r \in [0..Len(b) -> Nat] : \A j \in 0..(k - 1) : IsLeast(a, b, above, r, i, j)}

TablesRight(a, b, k) ==
    {t \in [0..Len(a) -> [0..Len(b) -> Nat]] :
        \A i \in 0..(k - 1) : \A j \in 0..Len(b) : IsLeast(a, b, t, t[i], i, j)}

\* One more cell leaves those before right, and is right.
LEMMA OneMoreCell ==
    ASSUME NEW a \in Text, NEW b \in Text, NEW i \in 0..Len(a), NEW k \in 0..Len(b),
           NEW above, \A x \in 0..(i - 1), y \in 0..Len(b) : above[x][y] \in Nat,
           NEW before \in RowsRight(a, b, above, i, k)
    PROVE  [before EXCEPT ![k] = Cell(a, b, above, before, i, k)]
                \in RowsRight(a, b, above, i, k + 1)
<1> DEFINE cell == Cell(a, b, above, before, i, k)
           row == [before EXCEPT ![k] = cell]
<1>1. k \in Nat /\ before \in [0..Len(b) -> Nat] /\ Len(b) \in Nat
  BY DEF RowsRight, Text
<1>2. /\ cell \in Nat
      /\ i = 0 /\ k = 0 => cell = 0
      /\ i # 0 \/ k # 0 =>
            /\ \E e \in ToSet(Ends(a, b, i, k)) : cell = CostAt(above, before, i, e)
            /\ \A e \in ToSet(Ends(a, b, i, k)) : cell <= CostAt(above, before, i, e)
  <2>1. \A y \in 0..(k - 1) : before[y] \in Nat
    BY <1>1
  <2> QED BY <2>1, CellLeast
<1> HIDE DEF cell
<1>3. /\ row \in [0..Len(b) -> Nat] /\ row[k] = cell
      /\ \A y \in 0..(k - 1) : row[y] = before[y]
  BY <1>1, <1>2
<1> HIDE DEF row
<1>4. ASSUME NEW j \in 0..k, NEW e \in ToSet(Ends(a, b, i, j))
      PROVE  CostAt(above, row, i, e) = CostAt(above, before, i, e)
  <2>1. j \in 0..Len(b)
    BY <1>1 DEF Text
  <2>2. e \in TrueEdits(a, b, i, j)
    BY <2>1, EndsTrue
  <2>3. e.i = i => e.j \in 0..(j - 1)
    BY <2>1, <2>2, EditsGoDown
  <2>4. e.i = i => row[e.j] = before[e.j]
    BY <1>1, <1>3, <2>3
  <2> QED BY <2>4 DEF CostAt
<1>5. ASSUME NEW j \in 0..k
      PROVE  IsLeast(a, b, above, row, i, j)
  <2>1. CASE j = k
    BY <1>2, <1>3, <1>4, <2>1 DEF IsLeast
  <2>2. CASE j # k
    <3>1. j \in 0..(k - 1)
      BY <1>1, <2>2
    <3>2. IsLeast(a, b, above, before, i, j) /\ row[j] = before[j]
      BY <1>3, <3>1 DEF RowsRight
    <3> QED BY <1>4, <3>2 DEF IsLeast
  <2> QED BY <2>1, <2>2
<1>6. (k + 1) - 1 = k
  BY <1>1
<1>7. row \in RowsRight(a, b, above, i, k + 1)
  BY <1>3, <1>5, <1>6 DEF RowsRight
<1> QED BY <1>7 DEF row, cell

\* A row is right.
LEMMA RowRight ==
    ASSUME NEW a \in Text, NEW b \in Text, NEW i \in 0..Len(a),
           NEW above, \A x \in 0..(i - 1), y \in 0..Len(b) : above[x][y] \in Nat
    PROVE  RowOf(a, b, above, i) \in RowsRight(a, b, above, i, Len(b) + 1)
<1> DEFINE n == Len(b) + 1
           blank == [j \in 0..Len(b) |-> 0]
           V == [k \in 0..n |-> RowsRight(a, b, above, i, k)]
           Longer(k, r) == [r EXCEPT ![k - 1] = Cell(a, b, above, r, i, k - 1)]
           step == [k \in 0..n |-> [r \in V[k - 1] |-> Longer(k, r)]]
           Row(g) == g = [k \in 0..n |-> IF k = 0 THEN blank ELSE Longer(k, g[k - 1])]
<1>1. n \in Nat /\ n = Len(b) + 1 /\ Len(b) \in Nat
  BY DEF Text
<1>2. RowOf(a, b, above, i) = (CHOOSE g : Row(g))[n]
  BY DEF RowOf
<1>3. blank \in V[0]
  <2>1. 0..(0 - 1) = {}
    OBVIOUS
  <2> QED BY <1>1, <2>1 DEF RowsRight
<1>4. ASSUME NEW k \in 1..n, NEW r \in V[k - 1]
      PROVE  Longer(k, r) \in V[k]
  <2>1. k - 1 \in 0..Len(b) /\ (k - 1) + 1 = k /\ k \in 0..n /\ k - 1 \in 0..n
    BY <1>1
  <2>2. r \in RowsRight(a, b, above, i, k - 1)
    BY <2>1
  <2>3. Longer(k, r) \in RowsRight(a, b, above, i, k)
    BY <2>1, <2>2, OneMoreCell
  <2> QED BY <2>1, <2>3
<1>5. ASSUME NEW k \in 1..n
      PROVE  /\ k \in 0..n /\ k - 1 \in 0..n /\ k # 0
             /\ \A r \in V[k - 1] : step[k][r] = Longer(k, r)
  BY <1>1
<1> HIDE DEF V, step, Longer, n, blank
<1>6. PICK g : /\ Counted(n, blank, step, g)
               /\ \A k \in 0..n : g[k] \in V[k]
  <2>1. Keeps(n, step, V)
    BY <1>4, <1>5 DEF Keeps
  <2> QED BY <1>1, <1>3, <2>1, CountedSolved
<1>7. Row(g)
  <2>1. ASSUME NEW k \in 0..n, k # 0
        PROVE  step[k][g[k - 1]] = Longer(k, g[k - 1])
    <3>1. k \in 1..n
      BY <1>1, <2>1
    <3> QED BY <1>5, <1>6, <3>1
  <2> QED BY <1>6, <2>1 DEF Counted
<1> DEFINE h == CHOOSE f : Row(f)
<1>8. Row(h)
  BY <1>7
<1> HIDE DEF h
<1>9. h[0] = blank /\ \A k \in 1..n : h[k] = Longer(k, h[k - 1])
  BY <1>1, <1>5, <1>8
<1>10. \A k \in 0..n : h[k] \in V[k]
  BY <1>1, <1>3, <1>4, <1>9, HandedOn
<1>11. h[n] \in V[n]
  BY <1>1, <1>10
<1> QED BY <1>1, <1>2, <1>11 DEF V, h, n

LEMMA OneMoreRow ==
    ASSUME NEW a \in Text, NEW b \in Text, NEW k \in 0..Len(a),
           NEW before \in TablesRight(a, b, k)
    PROVE  [before EXCEPT ![k] = RowOf(a, b, before, k)] \in TablesRight(a, b, k + 1)
<1> DEFINE row == RowOf(a, b, before, k)
           table == [before EXCEPT ![k] = row]
<1>1. /\ before \in [0..Len(a) -> [0..Len(b) -> Nat]]
      /\ \A i \in 0..(k - 1) : \A j \in 0..Len(b) :
            IsLeast(a, b, before, before[i], i, j)
  BY DEF TablesRight
<1>2. k \in Nat /\ Len(a) \in Nat /\ Len(b) \in Nat
  BY DEF Text
<1>3. \A x \in 0..(k - 1), y \in 0..Len(b) : before[x][y] \in Nat
  BY <1>1, <1>2
<1>4. row \in RowsRight(a, b, before, k, Len(b) + 1)
  BY <1>3, RowRight
<1>5. /\ row \in [0..Len(b) -> Nat]
      /\ \A j \in 0..Len(b) : IsLeast(a, b, before, row, k, j)
  <2>1. (Len(b) + 1) - 1 = Len(b)
    BY <1>2
  <2> QED BY <1>4, <2>1 DEF RowsRight
<1> HIDE DEF row
<1>6. /\ table \in [0..Len(a) -> [0..Len(b) -> Nat]] /\ table[k] = row
      /\ \A i \in 0..(k - 1) : table[i] = before[i]
  BY <1>1, <1>2, <1>5
<1> HIDE DEF table
<1>7. ASSUME NEW i \in 0..k, NEW j \in 0..Len(b), NEW r, r = table[i],
             NEW e \in ToSet(Ends(a, b, i, j))
      PROVE  CostAt(table, r, i, e) = CostAt(before, r, i, e)
  <2>1. i \in 0..Len(a) /\ i \in Nat
    BY <1>2
  <2>2. e \in TrueEdits(a, b, i, j)
    BY <2>1, EndsTrue
  <2>3. e.i # i => e.i \in 0..(i - 1)
    BY <2>1, <2>2, EditsGoDown
  <2>4. e.i # i => table[e.i] = before[e.i]
    BY <1>2, <1>6, <2>1, <2>3
  <2> QED BY <2>4 DEF CostAt
<1>8. ASSUME NEW i \in 0..k, NEW j \in 0..Len(b)
      PROVE  IsLeast(a, b, table, table[i], i, j)
  <2>1. IsLeast(a, b, before, table[i], i, j)
    <3>1. CASE i = k
      BY <1>5, <1>6, <3>1
    <3>2. CASE i # k
      <4>1. i \in 0..(k - 1)
        BY <1>2, <3>2
      <4> QED BY <1>1, <1>6, <4>1
    <3> QED BY <3>1, <3>2
  <2> QED BY <1>7, <2>1 DEF IsLeast
<1>9. (k + 1) - 1 = k
  BY <1>2
<1>10. table \in TablesRight(a, b, k + 1)
  BY <1>6, <1>8, <1>9 DEF TablesRight
<1> QED BY <1>10 DEF table, row

\* The table is right: every cell is what the cheapest of its edits makes it.
LEMMA TableRight ==
    ASSUME NEW a \in Text, NEW b \in Text
    PROVE  Table(a, b) \in TablesRight(a, b, Len(a) + 1)
<1> DEFINE n == Len(a) + 1
           blank == [i \in 0..Len(a) |-> [j \in 0..Len(b) |-> 0]]
           V == [k \in 0..n |-> TablesRight(a, b, k)]
           Longer(k, t) == [t EXCEPT ![k - 1] = RowOf(a, b, t, k - 1)]
           step == [k \in 0..n |-> [t \in V[k - 1] |-> Longer(k, t)]]
           Rows(g) == g = [k \in 0..n |-> IF k = 0 THEN blank ELSE Longer(k, g[k - 1])]
<1>1. n \in Nat /\ n = Len(a) + 1 /\ Len(a) \in Nat
  BY DEF Text
<1>2. Table(a, b) = (CHOOSE g : Rows(g))[n]
  BY DEF Table
<1>3. blank \in V[0]
  <2>1. 0..(0 - 1) = {}
    OBVIOUS
  <2> QED BY <1>1, <2>1 DEF TablesRight
<1>4. ASSUME NEW k \in 1..n, NEW t \in V[k - 1]
      PROVE  Longer(k, t) \in V[k]
  <2>1. k - 1 \in 0..Len(a) /\ (k - 1) + 1 = k /\ k \in 0..n /\ k - 1 \in 0..n
    BY <1>1
  <2>2. t \in TablesRight(a, b, k - 1)
    BY <2>1
  <2>3. Longer(k, t) \in TablesRight(a, b, k)
    BY <2>1, <2>2, OneMoreRow
  <2> QED BY <2>1, <2>3
<1>5. ASSUME NEW k \in 1..n
      PROVE  /\ k \in 0..n /\ k - 1 \in 0..n /\ k # 0
             /\ \A t \in V[k - 1] : step[k][t] = Longer(k, t)
  BY <1>1
<1> HIDE DEF V, step, Longer, n, blank
<1>6. PICK g : /\ Counted(n, blank, step, g)
               /\ \A k \in 0..n : g[k] \in V[k]
  <2>1. Keeps(n, step, V)
    BY <1>4, <1>5 DEF Keeps
  <2> QED BY <1>1, <1>3, <2>1, CountedSolved
<1>7. Rows(g)
  <2>1. ASSUME NEW k \in 0..n, k # 0
        PROVE  step[k][g[k - 1]] = Longer(k, g[k - 1])
    <3>1. k \in 1..n
      BY <1>1, <2>1
    <3> QED BY <1>5, <1>6, <3>1
  <2> QED BY <1>6, <2>1 DEF Counted
<1> DEFINE h == CHOOSE f : Rows(f)
<1>8. Rows(h)
  BY <1>7
<1> HIDE DEF h
<1>9. h[0] = blank /\ \A k \in 1..n : h[k] = Longer(k, h[k - 1])
  BY <1>1, <1>5, <1>8
<1>10. \A k \in 0..n : h[k] \in V[k]
  BY <1>1, <1>3, <1>4, <1>9, HandedOn
<1>11. h[n] \in V[n]
  BY <1>1, <1>10
<1> QED BY <1>1, <1>2, <1>11 DEF V, h, n

\* Where the last letters agree, the cell on the diagonal costs as much or more.
LEMMA DiagonalBounds ==
    ASSUME NEW a \in Text, NEW b \in Text, NEW d \in TablesRight(a, b, Len(a) + 1),
           NEW i \in 1..Len(a), NEW j \in 1..Len(b), a[i] = b[j]
    PROVE  d[i][j] <= d[i - 1][j - 1]
<1> DEFINE e == Op("equal", 0, i - 1, j - 1)
<1>1. Len(a) \in Nat /\ Len(b) \in Nat /\ i \in 0..Len(a) /\ j \in 0..Len(b)
      /\ i # 0 /\ j # 0 /\ i - 1 # i /\ i \in 0..((Len(a) + 1) - 1)
  BY DEF Text
<1>2. e \in ToSet(Ends(a, b, i, j))
  BY <1>1, EndsTrue
<1>3. IsLeast(a, b, d, d[i], i, j)
  BY <1>1 DEF TablesRight
<1>4. d[i][j] <= CostAt(d, d[i], i, e)
  BY <1>1, <1>2, <1>3 DEF IsLeast
<1>5. CostAt(d, d[i], i, e) = 0 + d[i - 1][j - 1]
  BY <1>1 DEF CostAt, Op
<1>6. d[i - 1][j - 1] \in Nat
  <2>1. d \in [0..Len(a) -> [0..Len(b) -> Nat]] /\ i - 1 \in 0..Len(a) /\ j - 1 \in 0..Len(b)
    BY <1>1 DEF TablesRight
  <2> QED BY <2>1
<1> QED BY <1>4, <1>5, <1>6

\* The walk back: the step is a true edit that accounts for its cell, and the
\* letters it transposes are not the same letter twice.
LEMMA LastEditTight ==
    ASSUME NEW a \in Text, NEW b \in Text, NEW d \in TablesRight(a, b, Len(a) + 1),
           NEW i \in 0..Len(a), NEW j \in 0..Len(b), i # 0 \/ j # 0
    PROVE  LET e == LastEdit(a, b, d, i, j)
           IN  /\ e \in TrueEdits(a, b, i, j) /\ d[i][j] = d[e.i][e.j] + e.cost
               /\ e.kind = "trans" => a[i] # a[i - 1]
<1> DEFINE ends == Ends(a, b, i, j)
           tight == {k \in DOMAIN ends : Tight(d, i, j, ends[k])}
           e == LastEdit(a, b, d, i, j)
<1>1. Len(a) \in Nat /\ Len(b) \in Nat /\ i \in 0..((Len(a) + 1) - 1)
      /\ d \in [0..Len(a) -> [0..Len(b) -> Nat]]
  BY DEF Text, TablesRight
<1>2. ends \in Seq(TrueEdits(a, b, i, j)) /\ ToSet(ends) \subseteq TrueEdits(a, b, i, j)
  BY EndsTrue
<1>3. IsLeast(a, b, d, d[i], i, j)
  BY <1>1 DEF TablesRight
<1>4. PICK x \in ToSet(ends) : d[i][j] = CostAt(d, d[i], i, x)
  BY <1>3 DEF IsLeast
<1>5. d[i][j] = d[x.i][x.j] + x.cost
  <2>1. /\ x.i \in 0..Len(a) /\ x.j \in 0..Len(b) /\ x.cost \in Nat
    BY <1>2, EditsGoDown
  <2>2. d[x.i][x.j] \in Nat
    BY <1>1, <2>1
  <2> QED BY <1>4, <2>1, <2>2 DEF CostAt
<1>6. PICK k \in DOMAIN ends : x = ends[k]
  BY <1>4 DEF ToSet
<1>7. k \in tight
  BY <1>5, <1>6 DEF Tight
<1>8. tight \subseteq Nat
  BY <1>2
<1>9. PICK m \in tight : \A y \in tight : m <= y
  BY <1>7, <1>8, LeastOfNaturals
<1>10. Min(tight) \in tight
  <2> HIDE DEF tight
  <2> QED BY <1>9 DEF Min
<1>11. e = ends[Min(tight)]
  BY DEF LastEdit
<1> HIDE DEF e
<1>12. e \in ToSet(ends) /\ Tight(d, i, j, e)
  BY <1>10, <1>11 DEF ToSet
<1>13. e \in TrueEdits(a, b, i, j) /\ d[i][j] = d[e.i][e.j] + e.cost
  BY <1>2, <1>12 DEF Tight
<1>14. ASSUME e.kind = "trans", a[i] = a[i - 1]
       PROVE  FALSE
  <2>1. /\ e.i = i - 2 /\ e.j = j - 2 /\ e.cost = 2
        /\ a[i] = b[j - 1] /\ a[i - 1] = b[j] /\ e.i \in 0..i /\ e.j \in 0..j
    BY <1>13, <1>14 DEF TrueEdits, TransposeCost
  <2>2. i \in 1..Len(a) /\ j \in 1..Len(b) /\ i - 1 \in 1..Len(a) /\ j - 1 \in 1..Len(b)
        /\ (i - 1) - 1 = i - 2 /\ (j - 1) - 1 = j - 2
    BY <1>1, <2>1
  <2>3. d[i][j] <= d[i - 1][j - 1]
    BY <1>14, <2>1, <2>2, DiagonalBounds
  <2>4. d[i - 1][j - 1] <= d[i - 2][j - 2]
    BY <1>14, <2>1, <2>2, DiagonalBounds
  <2>5. d[i][j] \in Nat /\ d[i - 1][j - 1] \in Nat /\ d[i - 2][j - 2] \in Nat
    <3>1. i - 1 \in 0..Len(a) /\ j - 1 \in 0..Len(b)
          /\ i - 2 \in 0..Len(a) /\ j - 2 \in 0..Len(b)
      BY <1>1, <2>2
    <3> QED BY <1>1, <3>1
  <2> QED BY <1>13, <2>1, <2>3, <2>4, <2>5
<1> QED BY <1>13, <1>14 DEF e

-----------------------------------------------------------------------------
(***************************************************************************)
(* Sums                                                                    *)
(***************************************************************************)
\* g adds s up.
AddsUp(s, g) ==
    /\ g \in [0..Len(s) -> Nat] /\ g[0] = 0
    /\ \A k \in 1..Len(s) : g[k] = g[k - 1] + s[k]

LEMMA SumAddsUp ==
    ASSUME NEW s \in Seq(Nat)
    PROVE  \E g : AddsUp(s, g) /\ SumOf(s) = g[Len(s)]
<1> DEFINE n == Len(s)
           V == [k \in 0..n |-> Nat]
           step == [k \in 0..n |-> [v \in Nat |-> v + s[k]]]
           Sums(g) == g = [k \in 0..n |-> IF k = 0 THEN 0 ELSE g[k - 1] + s[k]]
<1>1. n \in Nat /\ n = Len(s) /\ \A k \in 1..n : s[k] \in Nat
  OBVIOUS
<1>2. SumOf(s) = (CHOOSE g : Sums(g))[n]
  BY DEF SumOf
<1>3. ASSUME NEW k \in 1..n, NEW v \in Nat
      PROVE  step[k][v] = v + s[k] /\ v + s[k] \in Nat
  <2>1. k \in 0..n /\ s[k] \in Nat
    BY <1>1
  <2>2. step[k] = [u \in Nat |-> u + s[k]]
    BY <2>1
  <2> HIDE DEF step
  <2>3. v + s[k] \in Nat
    BY <2>1
  <2>4. step[k][v] = v + s[k]
    BY <2>2
  <2> QED BY <2>3, <2>4
<1>4. \A k \in 0..n : V[k] = Nat
  OBVIOUS
<1>5. \A k \in 1..n : k \in 0..n /\ k - 1 \in 0..n /\ k # 0
  BY <1>1
<1> HIDE DEF V, step, n
<1>6. PICK g : Counted(n, 0, step, g) /\ \A k \in 0..n : g[k] \in V[k]
  <2>1. Keeps(n, step, V)
    BY <1>3, <1>4, <1>5 DEF Keeps
  <2>2. 0 \in V[0]
    BY <1>1, <1>4
  <2> QED BY <1>1, <2>1, <2>2, CountedSolved
<1>7. Sums(g)
  <2>1. ASSUME NEW k \in 0..n, k # 0
        PROVE  step[k][g[k - 1]] = g[k - 1] + s[k]
    <3>1. k \in 1..n /\ k - 1 \in 0..n
      BY <1>1, <2>1
    <3> QED BY <1>3, <1>4, <1>6, <3>1
  <2> QED BY <1>6, <2>1 DEF Counted
<1> DEFINE h == CHOOSE f : Sums(f)
<1>8. Sums(h)
  BY <1>7
<1> HIDE DEF h
<1>9. h[0] = 0 /\ \A k \in 1..n : h[k] = h[k - 1] + s[k]
  BY <1>1, <1>5, <1>8
<1>10. \A k \in 0..n : h[k] \in V[k]
  <2>1. ASSUME NEW k \in 1..n, h[k - 1] \in V[k - 1]
        PROVE  h[k] \in V[k]
    <3>1. h[k - 1] \in Nat /\ V[k] = Nat
      BY <1>4, <1>5, <2>1
    <3>2. h[k] = h[k - 1] + s[k]
      BY <1>9
    <3> QED BY <1>1, <3>1, <3>2
  <2>2. h[0] \in V[0]
    BY <1>1, <1>4, <1>9
  <2> QED BY <1>1, <2>1, <2>2, HandedOn
<1>11. h \in [0..n -> Nat]
  BY <1>4, <1>8, <1>10
<1>12. AddsUp(s, h)
  BY <1>1, <1>9, <1>11 DEF AddsUp
<1> QED BY <1>1, <1>2, <1>12 DEF h

LEMMA SumAppend ==
    ASSUME NEW s \in Seq(Nat), NEW x \in Nat
    PROVE  SumOf(Append(s, x)) = SumOf(s) + x
<1> DEFINE t == Append(s, x)
<1>1. PICK g : AddsUp(s, g) /\ SumOf(s) = g[Len(s)]
  BY SumAddsUp
<1>2. /\ t \in Seq(Nat) /\ Len(s) \in Nat /\ Len(t) = Len(s) + 1 /\ t[Len(s) + 1] = x
      /\ \A k \in 1..Len(s) : t[k] = s[k]
  OBVIOUS
<1> HIDE DEF t
<1>3. PICK h : AddsUp(t, h) /\ SumOf(t) = h[Len(t)]
  BY <1>2, SumAddsUp
<1>4. \A k \in 0..Len(s) : h[k] = g[k]
  <2> DEFINE V == [k \in 0..Len(s) |-> {g[k]}]
  <2>1. h[0] \in V[0]
    BY <1>1, <1>2, <1>3 DEF AddsUp
  <2>2. ASSUME NEW k \in 1..Len(s), h[k - 1] \in V[k - 1]
        PROVE  h[k] \in V[k]
    <3>1. k \in 0..Len(s) /\ k - 1 \in 0..Len(s) /\ k \in 1..Len(t)
      BY <1>2
    <3>2. h[k - 1] = g[k - 1]
      BY <2>2, <3>1
    <3>3. h[k] = h[k - 1] + t[k] /\ g[k] = g[k - 1] + s[k]
      BY <1>1, <1>3, <3>1 DEF AddsUp
    <3> QED BY <1>2, <3>1, <3>2, <3>3
  <2> HIDE DEF V
  <2>3. \A k \in 0..Len(s) : h[k] \in V[k]
    BY <1>2, <2>1, <2>2, HandedOn
  <2> QED BY <2>3 DEF V
<1>5. /\ Len(s) + 1 \in 1..Len(t) /\ (Len(s) + 1) - 1 = Len(s) /\ Len(s) \in 0..Len(s)
  BY <1>2
<1>6. h[Len(s) + 1] = h[Len(s)] + x
  BY <1>2, <1>3, <1>5 DEF AddsUp
<1> QED BY <1>1, <1>2, <1>3, <1>4, <1>5, <1>6 DEF t

LEMMA SumOfNone == SumOf(<<>>) = 0
<1>1. <<>> \in Seq(Nat) /\ Len(<<>>) = 0
  OBVIOUS
<1>2. PICK g : AddsUp(<<>>, g) /\ SumOf(<<>>) = g[Len(<<>>)]
  BY <1>1, SumAddsUp
<1> QED BY <1>1, <1>2 DEF AddsUp

-----------------------------------------------------------------------------
(***************************************************************************)
(* The walk back                                                           *)
(***************************************************************************)
AnyEdit == [kind : {"equal", "sub", "trans", "del", "ins"}, cost : Nat, i : Nat, j : Nat]

\* Where an edit leads, and the letters of the second text it spells.
After(e) ==
    CASE e.kind \in {"equal", "sub"} -> <<e.i + 1, e.j + 1>>
      [] e.kind = "trans" -> <<e.i + 2, e.j + 2>>
      [] e.kind = "del" -> <<e.i + 1, e.j>>
      [] e.kind = "ins" -> <<e.i, e.j + 1>>

Spelt(e) ==
    CASE e.kind \in {"equal", "sub", "ins"} -> {e.j + 1}
      [] e.kind = "trans" -> {e.j + 1, e.j + 2}
      [] e.kind = "del" -> {}

IsTrue(a, b, e) ==
    /\ e.kind = "equal" => a[e.i + 1] = b[e.j + 1] /\ e.cost = 0
    /\ e.kind = "sub" => a[e.i + 1] # b[e.j + 1]
    /\ e.kind = "trans" => /\ a[e.i + 1] = b[e.j + 2] /\ a[e.i + 2] = b[e.j + 1]
                           /\ a[e.i + 1] # a[e.i + 2]
    /\ e.kind # "equal" => e.cost >= 2

Stop(s, k) == IF k = 0 THEN <<0, 0>> ELSE After(s[k])

TotalCost(s) == SumOf([k \in DOMAIN s |-> s[k].cost])

\* True edits, each from where the one before it led, that lead from nothing to
\* the first i and j letters, cost what the table says and spell all of them.
Walks(a, b, d, i, j) ==
    {s \in Seq(AnyEdit) :
        /\ \A k \in 1..Len(s) : <<s[k].i, s[k].j>> = Stop(s, k - 1) /\ IsTrue(a, b, s[k])
        /\ Stop(s, Len(s)) = <<i, j>>
        /\ TotalCost(s) = d[i][j]
        /\ \A l \in 1..j : \E k \in 1..Len(s) : l \in Spelt(s[k])}

\* A true edit leads to the letters it ends with, and spells those between.
LEMMA EditLeads ==
    ASSUME NEW a \in Text, NEW b \in Text, NEW i \in 0..Len(a), NEW j \in 0..Len(b),
           NEW e \in TrueEdits(a, b, i, j), e.kind = "trans" => a[i] # a[i - 1]
    PROVE  /\ e \in AnyEdit /\ After(e) = <<i, j>> /\ IsTrue(a, b, e)
           /\ \A l \in (e.j + 1)..j : l \in Spelt(e)
<1>1. Len(a) \in Nat /\ Len(b) \in Nat /\ i \in Nat /\ j \in Nat
  BY DEF Text
<1>2. e \in [kind : {"equal", "sub", "trans", "del", "ins"}, cost : Nat, i : 0..i, j : 0..j]
  BY DEF TrueEdits
<1>3. e \in AnyEdit /\ e.i \in Nat /\ e.j \in Nat
  BY <1>1, <1>2 DEF AnyEdit
<1>4. CASE e.kind = "equal"
  BY <1>1, <1>3, <1>4 DEF TrueEdits, After, IsTrue, Spelt
<1>5. CASE e.kind = "sub"
  BY <1>1, <1>3, <1>5 DEF TrueEdits, After, IsTrue, Spelt
<1>6. CASE e.kind = "trans"
  <2>1. /\ e.i = i - 2 /\ e.j = j - 2 /\ e.cost = 2
        /\ a[i] = b[j - 1] /\ a[i - 1] = b[j] /\ a[i] # a[i - 1]
    BY <1>6 DEF TrueEdits, TransposeCost
  <2>2. e.i + 1 = i - 1 /\ e.i + 2 = i /\ e.j + 1 = j - 1 /\ e.j + 2 = j
    BY <1>1, <2>1
  <2> QED BY <1>1, <1>3, <1>6, <2>1, <2>2 DEF After, IsTrue, Spelt
<1>7. CASE e.kind = "del"
  BY <1>1, <1>3, <1>7 DEF TrueEdits, After, IsTrue, Spelt
<1>8. CASE e.kind = "ins"
  BY <1>1, <1>3, <1>8 DEF TrueEdits, After, IsTrue, Spelt
<1> QED BY <1>2, <1>4, <1>5, <1>6, <1>7, <1>8

\* Appending an edit adds its cost.
LEMMA TotalCostAppend ==
    ASSUME NEW s \in Seq(AnyEdit), NEW e \in AnyEdit
    PROVE  TotalCost(Append(s, e)) = TotalCost(s) + e.cost
<1> DEFINE c == [k \in DOMAIN s |-> s[k].cost]
           t == Append(s, e)
           f == [k \in DOMAIN t |-> t[k].cost]
<1>1. /\ Len(s) \in Nat /\ DOMAIN s = 1..Len(s) /\ e.cost \in Nat
      /\ \A k \in 1..Len(s) : s[k].cost \in Nat
  <2>1. \A x \in AnyEdit : x.cost \in Nat
    BY DEF AnyEdit
  <2>2. \A k \in 1..Len(s) : s[k] \in AnyEdit
    OBVIOUS
  <2> QED BY <2>1, <2>2
<1>2. c \in Seq(Nat) /\ Len(c) = Len(s) /\ DOMAIN c = 1..Len(s)
  BY <1>1
<1>3. /\ DOMAIN t = 1..(Len(s) + 1) /\ t[Len(s) + 1] = e
      /\ \A k \in 1..Len(s) : t[k] = s[k]
  OBVIOUS
<1>4. f = Append(c, e.cost)
  <2>1. Append(c, e.cost) \in Seq(Nat) /\ Len(Append(c, e.cost)) = Len(s) + 1
        /\ Append(c, e.cost)[Len(s) + 1] = e.cost
        /\ \A k \in 1..Len(s) : Append(c, e.cost)[k] = c[k]
    <3> HIDE DEF c
    <3> QED BY <1>1, <1>2
  <2>2. Append(c, e.cost) = [k \in 1..(Len(s) + 1) |-> Append(c, e.cost)[k]]
    <3> HIDE DEF c
    <3> QED BY <2>1
  <2>3. ASSUME NEW k \in 1..(Len(s) + 1)
        PROVE  Append(c, e.cost)[k] = t[k].cost
    <3>1. CASE k = Len(s) + 1
      BY <1>3, <2>1, <3>1
    <3>2. CASE k # Len(s) + 1
      <4>1. k \in 1..Len(s)
        BY <1>1, <3>2
      <4> QED BY <1>1, <1>3, <2>1, <4>1
    <3> QED BY <3>1, <3>2
  <2> QED BY <1>3, <2>2, <2>3
<1>5. SumOf(Append(c, e.cost)) = SumOf(c) + e.cost
  <2> HIDE DEF c
  <2> QED BY <1>1, <1>2, SumAppend
<1> QED BY <1>4, <1>5 DEF TotalCost

\* A walk goes on with an edit that accounts for the cell it leads to.
LEMMA WalkOn ==
    ASSUME NEW a \in Text, NEW b \in Text, NEW d, NEW i \in 0..Len(a), NEW j \in 0..Len(b),
           NEW e \in TrueEdits(a, b, i, j), e.kind = "trans" => a[i] # a[i - 1],
           d[i][j] = d[e.i][e.j] + e.cost,
           NEW s \in Walks(a, b, d, e.i, e.j)
    PROVE  Append(s, e) \in Walks(a, b, d, i, j)
<1> DEFINE t == Append(s, e)
<1>1. /\ s \in Seq(AnyEdit) /\ Len(s) \in Nat
      /\ \A k \in 1..Len(s) : <<s[k].i, s[k].j>> = Stop(s, k - 1) /\ IsTrue(a, b, s[k])
      /\ Stop(s, Len(s)) = <<e.i, e.j>>
      /\ TotalCost(s) = d[e.i][e.j]
      /\ \A l \in 1..e.j : \E k \in 1..Len(s) : l \in Spelt(s[k])
  BY DEF Walks
<1>2. /\ e \in AnyEdit /\ After(e) = <<i, j>> /\ IsTrue(a, b, e)
      /\ \A l \in (e.j + 1)..j : l \in Spelt(e)
  BY EditLeads
<1>3. /\ t \in Seq(AnyEdit) /\ Len(t) = Len(s) + 1 /\ t[Len(s) + 1] = e
      /\ \A k \in 1..Len(s) : t[k] = s[k]
  BY <1>1, <1>2
<1>4. TotalCost(t) = d[i][j]
  BY <1>1, <1>2, TotalCostAppend
<1> HIDE DEF t
<1>5. \A k \in 0..Len(s) : Stop(t, k) = Stop(s, k)
  BY <1>1, <1>3 DEF Stop
<1>6. ASSUME NEW k \in 1..Len(t)
      PROVE  <<t[k].i, t[k].j>> = Stop(t, k - 1) /\ IsTrue(a, b, t[k])
  <2>1. k - 1 \in 0..Len(s) /\ Stop(t, k - 1) = Stop(s, k - 1)
    <3>1. k - 1 \in 0..Len(s)
      BY <1>1, <1>3
    <3> QED BY <1>5, <3>1
  <2>2. CASE k = Len(s) + 1
    <3>1. k - 1 = Len(s)
      BY <1>1, <2>2
    <3> QED BY <1>1, <1>2, <1>3, <2>1, <2>2, <3>1
  <2>3. CASE k # Len(s) + 1
    <3>1. k \in 1..Len(s)
      BY <1>1, <1>3, <2>3
    <3> QED BY <1>1, <1>3, <2>1, <3>1
  <2> QED BY <2>2, <2>3
<1>7. Stop(t, Len(t)) = <<i, j>>
  BY <1>1, <1>2, <1>3 DEF Stop
<1>8. ASSUME NEW l \in 1..j
      PROVE  \E k \in 1..Len(t) : l \in Spelt(t[k])
  <2>1. e.j \in Nat /\ j \in Nat
    BY <1>2 DEF AnyEdit, Text
  <2>2. CASE l <= e.j
    <3>1. PICK k \in 1..Len(s) : l \in Spelt(s[k])
      BY <1>1, <2>1, <2>2
    <3>2. k \in 1..Len(t) /\ t[k] = s[k]
      BY <1>1, <1>3
    <3> QED BY <3>1, <3>2
  <2>3. CASE l > e.j
    <3>1. l \in (e.j + 1)..j
      BY <2>1, <2>3
    <3>2. Len(s) + 1 \in 1..Len(t)
      BY <1>1, <1>3
    <3> QED BY <1>2, <1>3, <3>1, <3>2
  <2> QED BY <2>1, <2>2, <2>3
<1>9. t \in Walks(a, b, d, i, j)
  BY <1>3, <1>4, <1>6, <1>7, <1>8 DEF Walks
<1> QED BY <1>9 DEF t

\* Nothing is the walk to nothing.
LEMMA NoWalk ==
    ASSUME NEW a \in Text, NEW b \in Text, NEW d \in TablesRight(a, b, Len(a) + 1)
    PROVE  <<>> \in Walks(a, b, d, 0, 0)
<1>1. Len(a) \in Nat /\ Len(b) \in Nat /\ 0 \in 0..((Len(a) + 1) - 1) /\ 0 \in 0..Len(b)
  BY DEF Text
<1>2. d[0][0] = 0
  <2>1. IsLeast(a, b, d, d[0], 0, 0)
    BY <1>1 DEF TablesRight
  <2> QED BY <2>1 DEF IsLeast
<1>3. TotalCost(<<>>) = 0
  <2>1. [k \in DOMAIN <<>> |-> <<>>[k].cost] = <<>>
    OBVIOUS
  <2> QED BY <2>1, SumOfNone DEF TotalCost
<1>4. <<>> \in Seq(AnyEdit) /\ Len(<<>>) = 0 /\ Stop(<<>>, 0) = <<0, 0>>
  BY DEF Stop
<1> QED BY <1>2, <1>3, <1>4 DEF Walks

\* What is had where the recursion ends, and handed on where it goes, all have.
Hands(D, rank, prev, g, V) ==
    \A p \in D :
        /\ rank[p] \in Nat
        /\ rank[p] = 0 => g[p] \in V[p]
        /\ rank[p] # 0 => /\ prev[p] \in D /\ rank[prev[p]] < rank[p]
                          /\ g[prev[p]] \in V[prev[p]] => g[p] \in V[p]

LEMMA HandedDown ==
    ASSUME NEW D, NEW rank, NEW prev, NEW g, NEW V, Hands(D, rank, prev, g, V)
    PROVE  \A p \in D : g[p] \in V[p]
<1> DEFINE T == {n \in Nat : \A p \in D : rank[p] < n => g[p] \in V[p]}
<1>1. 0 \in T
  <2>1. \A p \in D : ~(rank[p] < 0)
    BY DEF Hands
  <2> QED BY <2>1
<1>2. ASSUME NEW n \in Nat, n \in T
      PROVE  n + 1 \in T
  <2>1. ASSUME NEW p \in D, rank[p] < n + 1
        PROVE  g[p] \in V[p]
    <3>1. CASE rank[p] = 0
      BY <3>1 DEF Hands
    <3>2. CASE rank[p] # 0
      <4>1. prev[p] \in D /\ rank[prev[p]] < rank[p] /\ rank[p] \in Nat
            /\ rank[prev[p]] \in Nat
        BY <3>2 DEF Hands
      <4>2. rank[prev[p]] < n
        BY <2>1, <4>1
      <4>3. g[prev[p]] \in V[prev[p]]
        BY <1>2, <4>1, <4>2
      <4> QED BY <3>2, <4>3 DEF Hands
    <3> QED BY <3>1, <3>2
  <2> QED BY <2>1
<1> HIDE DEF T
<1>3. \A n \in Nat : n \in T
  BY <1>1, <1>2, AllNaturals
<1>4. ASSUME NEW p \in D
      PROVE  g[p] \in V[p]
  <2>1. rank[p] + 1 \in Nat /\ rank[p] < rank[p] + 1
    BY DEF Hands
  <2> QED BY <1>3, <2>1 DEF T
<1> QED BY <1>4

\* The edits of an alignment walk from nothing to both texts.
LEMMA EditsWalk ==
    ASSUME NEW a \in Text, NEW b \in Text, NEW d \in TablesRight(a, b, Len(a) + 1)
    PROVE  Edits(a, b, d) \in Walks(a, b, d, Len(a), Len(b))
<1> DEFINE D == (0..Len(a)) \X (0..Len(b))
           last(p) == LastEdit(a, b, d, p[1], p[2])
           rank == [p \in D |-> p[1] + p[2]]
           prev == [p \in D |-> <<last(p).i, last(p).j>>]
           V == [p \in D |-> Walks(a, b, d, p[1], p[2])]
           step == [p \in D |-> [v \in V[prev[p]] |-> Append(v, last(p))]]
           Ops(g) == g = [p \in D |-> IF p = <<0, 0>> THEN <<>>
                            ELSE Append(g[<<last(p).i, last(p).j>>], last(p))]
<1>1. Len(a) \in Nat /\ Len(b) \in Nat
  BY DEF Text
<1>2. Edits(a, b, d) = (CHOOSE g : Ops(g))[<<Len(a), Len(b)>>]
  BY DEF Edits
<1>3. ASSUME NEW p \in D
      PROVE  /\ p[1] \in 0..Len(a) /\ p[2] \in 0..Len(b) /\ p = <<p[1], p[2]>>
             /\ rank[p] = p[1] + p[2] /\ rank[p] \in Nat
             /\ rank[p] = 0 <=> p = <<0, 0>>
  <2>1. p[1] \in 0..Len(a) /\ p[2] \in 0..Len(b) /\ p = <<p[1], p[2]>>
    OBVIOUS
  <2>2. rank[p] = p[1] + p[2]
    OBVIOUS
  <2>3. p[1] + p[2] = 0 <=> p[1] = 0 /\ p[2] = 0
    BY <1>1, <2>1
  <2>4. p = <<0, 0>> <=> p[1] = 0 /\ p[2] = 0
    BY <2>1
  <2>5. p[1] + p[2] \in Nat
    BY <1>1, <2>1
  <2> HIDE DEF rank, D
  <2> QED BY <2>1, <2>2, <2>3, <2>4, <2>5
<1>4. ASSUME NEW p \in D, rank[p] # 0
      PROVE  /\ last(p) \in TrueEdits(a, b, p[1], p[2])
             /\ d[p[1]][p[2]] = d[last(p).i][last(p).j] + last(p).cost
             /\ last(p).kind = "trans" => a[p[1]] # a[p[1] - 1]
  <2>1. p[1] # 0 \/ p[2] # 0
    BY <1>3, <1>4
  <2> HIDE DEF D, rank
  <2> QED BY <1>3, <2>1, LastEditTight
<1>5. ASSUME NEW p \in D, rank[p] # 0
      PROVE  /\ prev[p] = <<last(p).i, last(p).j>>
             /\ prev[p] \in D /\ rank[prev[p]] < rank[p]
             /\ V[prev[p]] = Walks(a, b, d, last(p).i, last(p).j)
  <2>1. /\ last(p).i \in 0..Len(a) /\ last(p).j \in 0..Len(b)
        /\ last(p).i + last(p).j < p[1] + p[2]
    <3> HIDE DEF last, D
    <3> QED BY <1>3, <1>4, <1>5, EditsGoDown
  <2> DEFINE q == <<last(p).i, last(p).j>>
  <2>2. q \in D /\ q[1] = last(p).i /\ q[2] = last(p).j /\ prev[p] = q
    BY <2>1
  <2>3. V[q] = Walks(a, b, d, last(p).i, last(p).j)
    <3> HIDE DEF last
    <3> QED BY <2>2
  <2>4. rank[q] = last(p).i + last(p).j
    <3> HIDE DEF last
    <3> QED BY <2>2
  <2> HIDE DEF last, rank, V, prev, D
  <2> QED BY <1>3, <2>1, <2>2, <2>3, <2>4
<1>6. ASSUME NEW p \in D, rank[p] # 0, NEW v \in V[prev[p]]
      PROVE  step[p][v] = Append(v, last(p)) /\ Append(v, last(p)) \in V[p]
  <2>1. v \in Walks(a, b, d, last(p).i, last(p).j)
    BY <1>5, <1>6
  <2>2. Append(v, last(p)) \in Walks(a, b, d, p[1], p[2])
    <3> HIDE DEF last, D, rank
    <3> QED BY <1>3, <1>4, <1>6, <2>1, WalkOn
  <2>3. V[p] = Walks(a, b, d, p[1], p[2])
    <3> HIDE DEF last
    <3> QED OBVIOUS
  <2>4. step[p][v] = Append(v, last(p))
    <3> HIDE DEF last, V, prev
    <3> QED OBVIOUS
  <2> QED BY <2>2, <2>3, <2>4
<1>7. <<0, 0>> \in D /\ <<>> \in V[<<0, 0>>]
  BY <1>1, NoWalk
<1>8. <<Len(a), Len(b)>> \in D /\ V[<<Len(a), Len(b)>>] = Walks(a, b, d, Len(a), Len(b))
  BY <1>1
<1> HIDE DEF D, last, rank, prev, V, step
<1>10. GoesDown(D, rank, prev, step, <<>>, V)
  BY <1>3, <1>5, <1>6, <1>7 DEF GoesDown
<1>11. PICK g : Recursion(D, rank, prev, step, <<>>, g) /\ \A p \in D : g[p] \in V[p]
  BY <1>10, RecursionSolved
<1>12. Ops(g)
  <2>1. g = [p \in D |-> IF rank[p] = 0 THEN <<>> ELSE step[p][g[prev[p]]]]
    BY <1>11 DEF Recursion
  <2>2. ASSUME NEW p \in D
        PROVE  (IF rank[p] = 0 THEN <<>> ELSE step[p][g[prev[p]]]) =
                    IF p = <<0, 0>> THEN <<>>
                    ELSE Append(g[<<last(p).i, last(p).j>>], last(p))
    <3>1. CASE rank[p] = 0
      BY <1>3, <3>1
    <3>2. CASE rank[p] # 0
      BY <1>3, <1>5, <1>6, <1>11, <3>2
    <3> QED BY <3>1, <3>2
  <2> QED BY <2>1, <2>2
<1> DEFINE h == CHOOSE f : Ops(f)
<1>13. Ops(h)
  BY <1>12
<1> HIDE DEF h
<1>14. ASSUME NEW p \in D, rank[p] = 0
       PROVE  h[p] \in V[p]
  BY <1>3, <1>7, <1>13, <1>14
<1>15. ASSUME NEW p \in D, rank[p] # 0, h[prev[p]] \in V[prev[p]]
       PROVE  h[p] \in V[p]
  <2>1. h[p] = Append(h[prev[p]], last(p))
    BY <1>3, <1>5, <1>13, <1>15
  <2> QED BY <1>6, <1>15, <2>1
<1>16. \A p \in D : h[p] \in V[p]
  <2>1. Hands(D, rank, prev, h, V)
    BY <1>3, <1>5, <1>14, <1>15 DEF Hands
  <2> QED BY <2>1, HandedDown
<1> QED BY <1>2, <1>8, <1>16 DEF h

\* A sum is at least each of its terms, and nothing if they all are.
LEMMA SumBounds ==
    ASSUME NEW s \in Seq(Nat)
    PROVE  /\ SumOf(s) \in Nat
           /\ (\A k \in 1..Len(s) : s[k] = 0) => SumOf(s) = 0
           /\ \A k \in 1..Len(s) : s[k] <= SumOf(s)
<1> DEFINE n == Len(s)
<1>1. PICK g : AddsUp(s, g) /\ SumOf(s) = g[n]
  BY SumAddsUp
<1>2. /\ n \in Nat /\ n \in 0..n /\ \A k \in 1..n : s[k] \in Nat
      /\ \A k \in 1..n : k \in 0..n /\ k - 1 \in 0..n
  OBVIOUS
<1>3. /\ \A k \in 0..n : g[k] \in Nat
      /\ g[0] = 0 /\ \A k \in 1..n : g[k] = g[k - 1] + s[k]
  BY <1>1 DEF AddsUp
<1> HIDE DEF n
<1>4. ASSUME \A k \in 1..n : s[k] = 0
      PROVE  g[n] = 0
  <2> DEFINE V == [k \in 0..n |-> {0}]
  <2>1. g[0] \in V[0]
    BY <1>2, <1>3
  <2>2. ASSUME NEW k \in 1..n, g[k - 1] \in V[k - 1]
        PROVE  g[k] \in V[k]
    <3>1. g[k - 1] = 0 /\ g[k] = g[k - 1] + s[k] /\ s[k] = 0
      BY <1>2, <1>3, <1>4, <2>2
    <3> QED BY <1>2, <3>1
  <2> HIDE DEF V
  <2>3. \A k \in 0..n : g[k] \in V[k]
    BY <1>2, <2>1, <2>2, HandedOn
  <2> QED BY <1>2, <2>3 DEF V
<1>5. ASSUME NEW m \in 1..n
      PROVE  s[m] <= g[n]
  <2> DEFINE V == [k \in 0..n |-> {x \in Nat : k < m \/ s[m] <= x}]
  <2>1. g[0] \in V[0]
    BY <1>2, <1>3
  <2>2. ASSUME NEW k \in 1..n, g[k - 1] \in V[k - 1]
        PROVE  g[k] \in V[k]
    <3>1. g[k] = g[k - 1] + s[k] /\ s[k] \in Nat /\ g[k - 1] \in Nat /\ g[k] \in Nat
          /\ s[m] \in Nat
      BY <1>2, <1>3
    <3>2. k - 1 < m \/ s[m] <= g[k - 1]
      BY <1>2, <2>2
    <3>3. k < m \/ s[m] <= g[k]
      <4>1. CASE k = m
        BY <3>1, <4>1
      <4>2. CASE k # m
        BY <1>2, <3>1, <3>2, <4>2
      <4> QED BY <4>1, <4>2
    <3> QED BY <1>2, <3>1, <3>3
  <2> HIDE DEF V
  <2>3. \A k \in 0..n : g[k] \in V[k]
    BY <1>2, <2>1, <2>2, HandedOn
  <2>4. g[n] \in V[n]
    BY <1>2, <2>3
  <2> QED BY <1>2, <2>4 DEF V
<1> QED BY <1>1, <1>2, <1>3, <1>4, <1>5 DEF n

\* A match whose reason is true, and costs something if an edit is named.
IsMatch(m) ==
    /\ m.ops \in Seq(AnyEdit) /\ m.cost \in Nat
    /\ ReasonHolds(m)
    /\ Exact(m) => m.cost = 0
    /\ ~Exact(m) => m.cost >= 2

LEMMA ConcatValues ==
    ASSUME NEW S, NEW s \in Seq(S), NEW t \in Seq(S)
    PROVE  /\ s \o t \in Seq(S) /\ Len(s \o t) = Len(s) + Len(t)
           /\ \A k \in 1..Len(s) : (s \o t)[k] = s[k]
           /\ \A k \in 1..Len(t) : (s \o t)[Len(s) + k] = t[k]
OBVIOUS

LEMMA PutFirst ==
    ASSUME NEW S, NEW x \in S, NEW f \in Seq(S)
    PROVE  /\ <<x>> \o f \in Seq(S) /\ Len(<<x>> \o f) = Len(f) + 1
           /\ (<<x>> \o f)[1] = x
           /\ \A k \in 1..Len(f) : (<<x>> \o f)[k + 1] = f[k]
<1> DEFINE o == <<x>>
<1>1. o \in Seq(S) /\ Len(o) = 1 /\ o[1] = x
  OBVIOUS
<1> HIDE DEF o
<1>2. /\ o \o f \in Seq(S) /\ Len(o \o f) = Len(o) + Len(f)
      /\ \A k \in 1..Len(o) : (o \o f)[k] = o[k]
      /\ \A k \in 1..Len(f) : (o \o f)[Len(o) + k] = f[k]
  BY <1>1, ConcatValues
<1>3. Len(f) \in Nat /\ 1 \in 1..Len(o) /\ \A k \in 1..Len(f) : Len(o) + k = k + 1
  BY <1>1
<1>4. Len(o \o f) = Len(f) + 1
  BY <1>1, <1>2, <1>3
<1> QED BY <1>1, <1>2, <1>3, <1>4 DEF o

LEMMA WalkReplays ==
    ASSUME NEW a \in Text, NEW b \in Text, NEW d, NEW m,
           m.from = a, m.to = b, m.ops \in Walks(a, b, d, Len(a), Len(b))
    PROVE  Replays(m)
<1> DEFINE n == Len(m.ops)
           f == [k \in DOMAIN m.ops |-> After(m.ops[k])]
           reached == <<<<0, 0>>>> \o f
<1>1. /\ m.ops \in Seq(AnyEdit) /\ n \in Nat /\ DOMAIN m.ops = 1..n
      /\ \A k \in 1..n : /\ <<m.ops[k].i, m.ops[k].j>> = Stop(m.ops, k - 1)
                         /\ IsTrue(a, b, m.ops[k]) /\ m.ops[k] \in AnyEdit
      /\ Stop(m.ops, n) = <<Len(a), Len(b)>>
  BY DEF Walks
<1>2. f \in Seq(Nat \X Nat) /\ Len(f) = n /\ \A k \in 1..n : f[k] = After(m.ops[k])
  <2>1. ASSUME NEW e \in AnyEdit
        PROVE  After(e) \in Nat \X Nat
    <3>1. e.kind \in {"equal", "sub", "trans", "del", "ins"} /\ e.i \in Nat /\ e.j \in Nat
      BY DEF AnyEdit
    <3> QED BY <3>1 DEF After
  <2> QED BY <1>1, <2>1
<1> HIDE DEF f
<1>3. /\ Len(reached) = n + 1 /\ reached \in Seq(Nat \X Nat)
      /\ reached[1] = <<0, 0>> /\ \A k \in 2..(n + 1) : reached[k] = f[k - 1]
  <2>1. <<0, 0>> \in Nat \X Nat
    OBVIOUS
  <2>2. /\ reached \in Seq(Nat \X Nat) /\ Len(reached) = Len(f) + 1
        /\ reached[1] = <<0, 0>>
        /\ \A k \in 1..Len(f) : reached[k + 1] = f[k]
    BY <1>2, <2>1, PutFirst
  <2> HIDE DEF reached
  <2>3. ASSUME NEW k \in 2..(n + 1)
        PROVE  reached[k] = f[k - 1]
    <3>1. k - 1 \in 1..Len(f) /\ (k - 1) + 1 = k
      BY <1>1, <1>2
    <3> QED BY <2>2, <3>1
  <2> QED BY <1>2, <2>2, <2>3
<1> HIDE DEF reached
<1>4. ASSUME NEW k \in 1..(n + 1)
      PROVE  reached[k] = Stop(m.ops, k - 1)
  <2>1. CASE k = 1
    BY <1>3, <2>1 DEF Stop
  <2>2. CASE k # 1
    <3>1. k \in 2..(n + 1) /\ k - 1 \in 1..n /\ k - 1 # 0
      BY <1>1, <2>2
    <3> QED BY <1>2, <1>3, <3>1 DEF Stop
  <2> QED BY <2>1, <2>2
<1>5. Last(reached) = <<Len(m.from), Len(m.to)>>
  <2>1. n + 1 \in 1..(n + 1) /\ (n + 1) - 1 = n
    BY <1>1
  <2> QED BY <1>1, <1>3, <1>4, <2>1 DEF Last
<1>6. ASSUME NEW k \in DOMAIN m.ops
      PROVE  /\ reached[k] = <<m.ops[k].i, m.ops[k].j>>
             /\ IsTrue(m.from, m.to, m.ops[k])
  <2>1. k \in 1..n /\ k \in 1..(n + 1)
    BY <1>1
  <2> QED BY <1>1, <1>4, <2>1
<1>7. ASSUME NEW e, IsTrue(m.from, m.to, e)
      PROVE  CASE e.kind = "equal" -> m.from[e.i + 1] = m.to[e.j + 1]
               [] e.kind = "sub" -> m.from[e.i + 1] # m.to[e.j + 1]
               [] e.kind = "trans" -> /\ m.from[e.i + 1] = m.to[e.j + 2]
                                      /\ m.from[e.i + 2] = m.to[e.j + 1]
                                      /\ m.from[e.i + 1] # m.from[e.i + 2]
               [] OTHER -> TRUE
  BY <1>7 DEF IsTrue
<1> QED BY <1>5, <1>6, <1>7 DEF Replays, reached, f, After

LEMMA WalkIsMatch ==
    ASSUME NEW a \in Text, NEW b \in Text, NEW d, NEW m,
           m.from = a, m.to = b, m.cost = d[Len(a)][Len(b)], m.cost \in Nat,
           m.ops \in Walks(a, b, d, Len(a), Len(b))
    PROVE  IsMatch(m)
<1> DEFINE n == Len(m.ops)
           c == [k \in DOMAIN m.ops |-> m.ops[k].cost]
<1>1. /\ m.ops \in Seq(AnyEdit) /\ n \in Nat /\ DOMAIN m.ops = 1..n
      /\ \A k \in 1..n : IsTrue(a, b, m.ops[k]) /\ m.ops[k] \in AnyEdit
      /\ TotalCost(m.ops) = m.cost
      /\ \A l \in 1..Len(b) : \E k \in 1..n : l \in Spelt(m.ops[k])
  BY DEF Walks
<1>2. Paid(m) = m.cost
  BY <1>1 DEF Paid, TotalCost
<1>3. c \in Seq(Nat) /\ Len(c) = n /\ \A k \in 1..n : c[k] = m.ops[k].cost
  <2>1. \A k \in 1..n : m.ops[k].cost \in Nat
    BY <1>1 DEF AnyEdit
  <2> QED BY <1>1, <2>1
<1>4. m.cost = SumOf(c)
  BY <1>1 DEF TotalCost
<1> HIDE DEF c, n
<1>5. ASSUME Exact(m)
      PROVE  m.cost = 0
  <2>1. ASSUME NEW k \in 1..n
        PROVE  c[k] = 0
    <3>1. m.ops[k].kind = "equal"
      BY <1>1, <1>5 DEF Exact, ToSet
    <3> QED BY <1>1, <1>3, <3>1 DEF IsTrue
  <2> QED BY <1>3, <1>4, <2>1, SumBounds
<1>6. ASSUME ~Exact(m)
      PROVE  m.cost >= 2
  <2>1. PICK k \in 1..n : m.ops[k].kind # "equal"
    BY <1>1, <1>6 DEF Exact, ToSet
  <2>2. c[k] >= 2 /\ c[k] \in Nat
    BY <1>1, <1>3, <2>1 DEF IsTrue
  <2>3. c[k] <= m.cost
    BY <1>3, <1>4, SumBounds
  <2> QED BY <2>2, <2>3
<1>7. DOMAIN m.to \ Marked(m)
            \subseteq {e.j + 1 : e \in {o \in ToSet(m.ops) : o.kind = "equal"}}
  <2> SUFFICES ASSUME NEW l \in DOMAIN m.to, l \notin Marked(m)
               PROVE  \E e \in ToSet(m.ops) : e.kind = "equal" /\ l = e.j + 1
    OBVIOUS
  <2>1. l \in 1..Len(b)
    BY DEF Text
  <2>2. PICK k \in 1..n : l \in Spelt(m.ops[k])
    BY <1>1, <2>1
  <2> DEFINE e == m.ops[k]
  <2>3. e \in ToSet(m.ops) /\ e.kind \in {"equal", "sub", "trans", "del", "ins"}
    BY <1>1 DEF ToSet, AnyEdit
  <2> HIDE DEF e
  <2>4. l \notin (CASE e.kind \in {"sub", "ins"} -> {e.j + 1}
                    [] e.kind = "trans" -> {e.j + 1, e.j + 2}
                    [] OTHER -> {})
    BY <2>3 DEF Marked
  <2>5. l \in Spelt(e)
    BY <2>2 DEF e
  <2>6. e.kind = "equal" /\ l = e.j + 1
    BY <2>3, <2>4, <2>5 DEF Spelt
  <2> QED BY <2>3, <2>6
<1> QED BY <1>1, <1>2, <1>5, <1>6, <1>7, WalkReplays DEF IsMatch, ReasonHolds

\* What an alignment says is true, of any two texts.
LEMMA AlignIsMatch ==
    ASSUME NEW a \in Text, NEW b \in Text
    PROVE  IsMatch(Align(a, b)) /\ Align(a, b).from = a /\ Align(a, b).to = b
<1> DEFINE d == Table(a, b)
           m == Align(a, b)
<1>1. d \in TablesRight(a, b, Len(a) + 1)
  BY TableRight
<1> HIDE DEF d
<1>2. m.from = a /\ m.to = b /\ m.cost = d[Len(a)][Len(b)] /\ m.ops = Edits(a, b, d)
  BY DEF Align, d
<1> HIDE DEF m
<1>3. d[Len(a)][Len(b)] \in Nat
  <2>1. Len(a) \in 0..Len(a) /\ Len(b) \in 0..Len(b)
    BY DEF Text
  <2> QED BY <1>1, <2>1 DEF TablesRight
<1>4. m.ops \in Walks(a, b, d, Len(a), Len(b))
  BY <1>1, <1>2, EditsWalk
<1>5. IsMatch(m)
  BY <1>2, <1>3, <1>4, WalkIsMatch
<1> QED BY <1>2, <1>5 DEF m

-----------------------------------------------------------------------------
(***************************************************************************)
(* Words                                                                   *)
(***************************************************************************)
\* What is read of s when its first k letters are: words, none of them empty,
\* and one at least if the last letter is no space.
WordsTo(s, k) ==
    {w \in Seq(Text) : /\ \A n \in 1..Len(w) : w[n] # <<>>
                       /\ k # 0 /\ s[k] # Space => w # <<>>}

LEMMA LetterTaken ==
    ASSUME NEW s \in Text, NEW k \in 1..Len(s), NEW w \in WordsTo(s, k - 1)
    PROVE  TakeLetter(w, s, k) \in WordsTo(s, k)
<1>1. /\ s[k] \in Letter /\ Len(s) \in Nat /\ k # 0 /\ w \in Seq(Text) /\ Len(w) \in Nat
      /\ \A n \in 1..Len(w) : w[n] # <<>>
      /\ k - 1 # 0 /\ s[k - 1] # Space => w # <<>>
  BY DEF WordsTo, Text
<1>2. CASE s[k] = Space
  BY <1>1, <1>2 DEF TakeLetter, WordsTo
<1>3. CASE s[k] # Space /\ (k = 1 \/ s[k - 1] = Space)
  <2> DEFINE x == <<s[k]>>
             t == Append(w, x)
  <2>1. x \in Text /\ x # <<>>
    BY <1>1 DEF Text
  <2> HIDE DEF x
  <2>2. t \in Seq(Text) /\ Len(t) = Len(w) + 1 /\ t[Len(w) + 1] = x
        /\ \A n \in 1..Len(w) : t[n] = w[n]
    BY <1>1, <2>1
  <2> HIDE DEF t
  <2>3. \A n \in 1..Len(t) : n = Len(w) + 1 \/ n \in 1..Len(w)
    BY <1>1, <2>2
  <2>4. t # <<>>
    BY <1>1, <2>2
  <2>5. t \in WordsTo(s, k)
    BY <1>1, <2>1, <2>2, <2>3, <2>4 DEF WordsTo
  <2> QED BY <1>3, <2>5 DEF TakeLetter, t, x
<1>4. CASE s[k] # Space /\ ~(k = 1 \/ s[k - 1] = Space)
  <2> DEFINE x == Append(w[Len(w)], s[k])
             t == [w EXCEPT ![Len(w)] = x]
  <2>1. Len(w) \in 1..Len(w)
    <3>1. w # <<>>
      BY <1>1, <1>4
    <3>2. Len(w) # 0
      BY <1>1, <3>1
    <3> QED BY <1>1, <3>2
  <2>2. x \in Text /\ x # <<>>
    <3>1. w[Len(w)] \in Text
      BY <1>1, <2>1
    <3>2. x \in Seq(Letter) /\ Len(x) = Len(w[Len(w)]) + 1 /\ Len(w[Len(w)]) \in Nat
      BY <1>1, <3>1 DEF Text
    <3>3. Len(x) # 0
      BY <3>2
    <3> QED BY <3>2, <3>3 DEF Text
  <2> HIDE DEF x
  <2>3. t \in Seq(Text) /\ Len(t) = Len(w) /\ t[Len(w)] = x
        /\ \A n \in 1..Len(w) : n # Len(w) => t[n] = w[n]
    BY <1>1, <2>1, <2>2
  <2> HIDE DEF t
  <2>4. t # <<>>
    BY <2>1, <2>3
  <2>5. t \in WordsTo(s, k)
    BY <1>1, <2>2, <2>3, <2>4 DEF WordsTo
  <2> QED BY <1>4, <2>5 DEF TakeLetter, t, x
<1> QED BY <1>2, <1>3, <1>4

LEMMA WordsTyped ==
    ASSUME NEW s \in Text
    PROVE  Words(s) \in Seq(Text) /\ \A n \in 1..Len(Words(s)) : Words(s)[n] # <<>>
<1> DEFINE n == Len(s)
           V == [k \in 0..n |-> WordsTo(s, k)]
           step == [k \in 0..n |-> [w \in V[k - 1] |-> TakeLetter(w, s, k)]]
           Read(g) == g = [k \in 0..n |-> IF k = 0 THEN <<>> ELSE TakeLetter(g[k - 1], s, k)]
<1>1. n \in Nat /\ n = Len(s)
  BY DEF Text
<1>2. Words(s) = (CHOOSE g : Read(g))[n]
  BY DEF Words
<1>3. <<>> \in V[0]
  BY <1>1 DEF WordsTo
<1>4. ASSUME NEW k \in 1..n, NEW w \in V[k - 1]
      PROVE  TakeLetter(w, s, k) \in V[k]
  <2>1. k \in 0..n /\ k - 1 \in 0..n
    BY <1>1
  <2>2. w \in WordsTo(s, k - 1)
    BY <2>1
  <2>3. TakeLetter(w, s, k) \in WordsTo(s, k)
    BY <2>2, LetterTaken
  <2> QED BY <2>1, <2>3
<1>5. ASSUME NEW k \in 1..n
      PROVE  /\ k \in 0..n /\ k - 1 \in 0..n /\ k # 0
             /\ \A w \in V[k - 1] : step[k][w] = TakeLetter(w, s, k)
  BY <1>1
<1> HIDE DEF V, step, n
<1>6. PICK g : Counted(n, <<>>, step, g) /\ \A k \in 0..n : g[k] \in V[k]
  <2>1. Keeps(n, step, V)
    BY <1>4, <1>5 DEF Keeps
  <2> QED BY <1>1, <1>3, <2>1, CountedSolved
<1>7. Read(g)
  <2>1. ASSUME NEW k \in 0..n, k # 0
        PROVE  step[k][g[k - 1]] = TakeLetter(g[k - 1], s, k)
    <3>1. k \in 1..n
      BY <1>1, <2>1
    <3> QED BY <1>5, <1>6, <3>1
  <2> QED BY <1>6, <2>1 DEF Counted
<1> DEFINE h == CHOOSE f : Read(f)
<1>8. Read(h)
  BY <1>7
<1> HIDE DEF h
<1>9. h[0] = <<>> /\ \A k \in 1..n : h[k] = TakeLetter(h[k - 1], s, k)
  BY <1>1, <1>5, <1>8
<1>10. \A k \in 0..n : h[k] \in V[k]
  BY <1>1, <1>3, <1>4, <1>9, HandedOn
<1>11. h[n] \in WordsTo(s, n)
  BY <1>1, <1>10 DEF V
<1> QED BY <1>2, <1>11 DEF h, WordsTo

LEMMA CanonicalTyped ==
    ASSUME NEW word \in Text
    PROVE  Canonical(word) \in Text /\ (word # <<>> => Canonical(word) # <<>>)
<1> DEFINE rest == SubSeq(word, 3, Len(word))
<1>1. CASE HasMac(word) /\ Len(word) > 3 /\ word[4] \notin Digit
  <2>1. rest \in Text
    BY <1>1 DEF Text
  <2>2. "m" \in Letter
    BY DEF Letter
  <2> HIDE DEF rest
  <2>3. <<"m">> \o rest \in Seq(Letter) /\ Len(<<"m">> \o rest) = Len(rest) + 1
        /\ Len(rest) \in Nat
    BY <2>1, <2>2, PutFirst DEF Text
  <2>4. Canonical(word) = <<"m">> \o rest
    BY <1>1 DEF Canonical, rest
  <2>5. Len(Canonical(word)) # 0
    BY <2>3, <2>4
  <2>6. Canonical(word) # <<>>
    BY <2>5
  <2> QED BY <2>3, <2>4, <2>6 DEF Text
<1>2. CASE ~(HasMac(word) /\ Len(word) > 3 /\ word[4] \notin Digit)
  BY <1>2 DEF Canonical
<1> QED BY <1>1, <1>2

-----------------------------------------------------------------------------
(***************************************************************************)
(* Pairs                                                                   *)
(***************************************************************************)
\* A true match of a word, and a pair of the words of a search and a name.
WordMatch ==
    {m \in [from : Text, to : Text, cost : Nat, ops : Seq(AnyEdit)] :
        IsMatch(m) /\ m.from # <<>>}

WordPair == [at : Nat, match : WordMatch, macVaries : BOOLEAN]

LEMMA MaxOfTwo ==
    ASSUME NEW x \in Int, NEW y \in Int
    PROVE  Max({x, y}) \in {x, y} /\ x <= Max({x, y}) /\ y <= Max({x, y})
<1>1. \E z \in {x, y} : \A v \in {x, y} : z >= v
  OBVIOUS
<1> QED BY <1>1 DEF Max

LEMMA WordScores ==
    ASSUME NEW m \in WordMatch
    PROVE  /\ WordUnit(m) \in Nat /\ WordUnit(m) >= 4 /\ WordScore(m) \in Nat
           /\ Exact(m) => WordScore(m) = WordUnit(m)
           /\ ~Exact(m) => WordScore(m) + 2 <= WordUnit(m)
<1> DEFINE longest == Max({Len(m.from), Len(m.to)})
<1>1. /\ Len(m.from) \in Nat /\ Len(m.to) \in Nat /\ Len(m.from) # 0 /\ m.cost \in Nat
      /\ Exact(m) => m.cost = 0
      /\ ~Exact(m) => m.cost >= 2
  BY DEF WordMatch, Text, IsMatch
<1>2. longest \in Nat /\ longest >= 1
  <2>1. Len(m.from) \in Int /\ Len(m.to) \in Int
    BY <1>1
  <2>2. /\ longest \in {Len(m.from), Len(m.to)}
        /\ Len(m.from) <= longest /\ Len(m.to) <= longest
    BY <2>1, MaxOfTwo
  <2> HIDE DEF longest
  <2> QED BY <1>1, <2>2
<1>3. WordUnit(m) = 4 * longest
  BY DEF WordUnit, FullCost
<1>4. WordUnit(m) \in Nat /\ WordUnit(m) >= 4
  BY <1>2, <1>3
<1>5. /\ WordScore(m) \in {WordUnit(m) - m.cost, 0}
      /\ WordUnit(m) - m.cost <= WordScore(m) /\ 0 <= WordScore(m)
  <2>1. WordUnit(m) - m.cost \in Int /\ 0 \in Int
    BY <1>1, <1>4
  <2> QED BY <2>1, MaxOfTwo DEF WordScore
<1> QED BY <1>1, <1>4, <1>5

\* Comparing two scores is transitive.
LEMMA CrossTransitive ==
    ASSUME NEW w1 \in Nat, NEW w2 \in Nat, NEW w3 \in Nat,
           NEW u1 \in Nat, NEW u2 \in Nat \ {0}, NEW u3 \in Nat,
           w1 * u2 <= w2 * u1, w2 * u3 <= w3 * u2
    PROVE  w1 * u3 <= w3 * u1
<1>1. (w1 * u2) * u3 <= (w2 * u1) * u3
  OBVIOUS
<1>2. (w2 * u3) * u1 <= (w3 * u2) * u1
  OBVIOUS
<1>3. (w1 * u3) * u2 <= (w3 * u1) * u2
  BY <1>1, <1>2
<1> QED BY <1>3

\* Of some words there is one that no other is better than.
LEMMA BestExists ==
    ASSUME NEW n \in Nat, NEW S, S \subseteq 1..n, S # {},
           NEW fit \in [S -> WordMatch]
    PROVE  \E x \in S : \A o \in S : ~Better(fit[o], fit[x])
<1> DEFINE w == [x \in S |-> WordScore(fit[x])]
           u == [x \in S |-> WordUnit(fit[x])]
           T == {k \in Nat : S \cap (1..k) # {} =>
                    \E x \in S \cap (1..k) : \A o \in S \cap (1..k) :
                        w[o] * u[x] <= w[x] * u[o]}
<1>1. \A x \in S : w[x] \in Nat /\ u[x] \in Nat \ {0}
  <2>1. \A x \in S : fit[x] \in WordMatch
    OBVIOUS
  <2> QED BY <2>1, WordScores
<1>2. \A x, o \in S : Better(fit[o], fit[x]) <=> w[o] * u[x] > w[x] * u[o]
  BY DEF Better
<1> HIDE DEF w, u
<1>3. 0 \in T
  OBVIOUS
<1>4. ASSUME NEW k \in Nat, k \in T
      PROVE  k + 1 \in T
  <2>1. 1..(k + 1) = (1..k) \cup {k + 1}
    OBVIOUS
  <2>2. CASE k + 1 \notin S
    <3>1. S \cap (1..(k + 1)) = S \cap (1..k)
      BY <2>1, <2>2
    <3> QED BY <1>4, <3>1
  <2>3. CASE k + 1 \in S /\ S \cap (1..k) = {}
    <3>1. S \cap (1..(k + 1)) = {k + 1}
      BY <2>1, <2>3
    <3>2. w[k + 1] * u[k + 1] <= w[k + 1] * u[k + 1]
      BY <1>1, <2>3
    <3> QED BY <3>1, <3>2
  <2>4. CASE k + 1 \in S /\ S \cap (1..k) # {}
    <3>1. PICK x \in S \cap (1..k) : \A o \in S \cap (1..k) : w[o] * u[x] <= w[x] * u[o]
      BY <1>4, <2>4
    <3>2. CASE w[k + 1] * u[x] <= w[x] * u[k + 1]
      BY <2>1, <3>1, <3>2
    <3>3. CASE ~(w[k + 1] * u[x] <= w[x] * u[k + 1])
      <4>1. w[x] * u[k + 1] <= w[k + 1] * u[x]
        BY <1>1, <2>4, <3>3
      <4>2. ASSUME NEW o \in S \cap (1..k)
            PROVE  w[o] * u[k + 1] <= w[k + 1] * u[o]
        BY <1>1, <2>4, <3>1, <4>1, CrossTransitive
      <4>3. w[k + 1] * u[k + 1] <= w[k + 1] * u[k + 1]
        BY <1>1, <2>4
      <4> QED BY <2>1, <2>4, <4>2, <4>3
    <3> QED BY <3>2, <3>3
  <2> QED BY <2>2, <2>3, <2>4
<1> HIDE DEF T
<1>5. n \in T
  BY <1>3, <1>4, AllNaturals
<1>6. S \cap (1..n) = S
  OBVIOUS
<1>7. PICK x \in S : \A o \in S : w[o] * u[x] <= w[x] * u[o]
  BY <1>5, <1>6 DEF T
<1>8. ASSUME NEW o \in S
      PROVE  ~Better(fit[o], fit[x])
  <2>1. w[o] * u[x] \in Nat /\ w[x] * u[o] \in Nat
    BY <1>1
  <2> QED BY <1>2, <1>7, <2>1
<1> QED BY <1>8

\* One more word of the search.
LEMMA PairTyped ==
    ASSUME NEW pairs \in Seq(WordPair), NEW word \in Text, word # <<>>,
           NEW name \in Seq(Text)
    PROVE  Pair(pairs, word, name) \in Seq(WordPair)
<1> DEFINE left == DOMAIN name \ {p.at : p \in ToSet(pairs)}
           fit == [n \in left |-> Align(Canonical(word), Canonical(name[n]))]
           fits == {n \in left : \A o \in left : ~Better(fit[o], fit[n])}
           best == Min(fits)
           pair == [at |-> best, match |-> fit[best],
                    macVaries |-> HasMac(word) # HasMac(name[best])]
<1>1. Len(name) \in Nat /\ left \subseteq 1..Len(name) /\ left \subseteq Nat
  OBVIOUS
<1>2. CASE left = {}
  BY <1>2 DEF Pair
<1>3. CASE left # {}
  <2>1. ASSUME NEW n \in left
        PROVE  Align(Canonical(word), Canonical(name[n])) \in WordMatch
    <3> DEFINE a == Canonical(word)
               b == Canonical(name[n])
               m == Align(a, b)
    <3>1. name[n] \in Text
      BY <1>1
    <3>2. a \in Text /\ a # <<>> /\ b \in Text
      BY <3>1, CanonicalTyped
    <3> HIDE DEF a, b
    <3>3. IsMatch(m) /\ m.from = a /\ m.to = b
      BY <3>2, AlignIsMatch
    <3>4. m = [from |-> m.from, to |-> m.to, cost |-> m.cost, ops |-> m.ops]
      BY DEF Align
    <3> HIDE DEF m
    <3>5. m \in [from : Text, to : Text, cost : Nat, ops : Seq(AnyEdit)]
      BY <3>2, <3>3, <3>4 DEF IsMatch
    <3>6. m \in WordMatch
      BY <3>2, <3>3, <3>5 DEF WordMatch
    <3> QED BY <3>6 DEF m, a, b
  <2> HIDE DEF left
  <2>2. fit \in [left -> WordMatch]
    BY <2>1
  <2> HIDE DEF fit
  <2>3. fits # {} /\ fits \subseteq left /\ fits \subseteq Nat
    <3>1. \E x \in left : \A o \in left : ~Better(fit[o], fit[x])
      BY <1>1, <1>3, <2>2, BestExists
    <3> QED BY <1>1, <3>1
  <2> HIDE DEF fits
  <2>4. PICK x \in fits : \A y \in fits : x <= y
    BY <2>3, LeastOfNaturals
  <2>5. best \in left
    BY <2>3, <2>4 DEF Min
  <2>6. Pair(pairs, word, name) = Append(pairs, pair)
    BY <1>3 DEF Pair, left, fit, fits
  <2> HIDE DEF best
  <2>7. pair \in WordPair
    <3>1. best \in Nat /\ fit[best] \in WordMatch
      BY <1>1, <2>2, <2>5
    <3>2. (HasMac(word) # HasMac(name[best])) \in BOOLEAN
      OBVIOUS
    <3> QED BY <3>1, <3>2 DEF WordPair
  <2> HIDE DEF pair
  <2> QED BY <2>6, <2>7
<1> QED BY <1>2, <1>3

LEMMA PairingTyped ==
    ASSUME NEW words \in Seq(Text), \A k \in 1..Len(words) : words[k] # <<>>,
           NEW name \in Seq(Text)
    PROVE  Pairing(words, name) \in Seq(WordPair)
<1> DEFINE n == Len(words)
           V == [k \in 0..n |-> Seq(WordPair)]
           step == [k \in 0..n |-> [p \in Seq(WordPair) |-> Pair(p, words[k], name)]]
           Made(g) == g = [k \in 0..n |-> IF k = 0 THEN <<>>
                                ELSE Pair(g[k - 1], words[k], name)]
<1>1. n \in Nat /\ n = Len(words)
  OBVIOUS
<1>2. Pairing(words, name) = (CHOOSE g : Made(g))[n]
  BY DEF Pairing
<1>3. <<>> \in Seq(WordPair)
  OBVIOUS
<1>4. ASSUME NEW k \in 1..n, NEW p \in Seq(WordPair)
      PROVE  Pair(p, words[k], name) \in Seq(WordPair)
  <2>1. words[k] \in Text /\ words[k] # <<>>
    OBVIOUS
  <2> QED BY <2>1, PairTyped
<1>5. ASSUME NEW k \in 1..n
      PROVE  /\ k \in 0..n /\ k - 1 \in 0..n /\ k # 0
             /\ \A p \in Seq(WordPair) : step[k][p] = Pair(p, words[k], name)
  BY <1>1
<1>6. V[0] = Seq(WordPair) /\ \A k \in 0..n : V[k] = Seq(WordPair)
  BY <1>1
<1> HIDE DEF V, step, n
<1>7. PICK g : Counted(n, <<>>, step, g) /\ \A k \in 0..n : g[k] \in V[k]
  <2>1. Keeps(n, step, V)
    BY <1>4, <1>5, <1>6 DEF Keeps
  <2>2. <<>> \in V[0]
    BY <1>3, <1>6
  <2> QED BY <1>1, <2>1, <2>2, CountedSolved
<1>8. Made(g)
  <2>1. ASSUME NEW k \in 0..n, k # 0
        PROVE  step[k][g[k - 1]] = Pair(g[k - 1], words[k], name)
    <3>1. k \in 1..n
      BY <1>1, <2>1
    <3> QED BY <1>5, <1>6, <1>7, <3>1
  <2> QED BY <1>7, <2>1 DEF Counted
<1> DEFINE h == CHOOSE f : Made(f)
<1>9. Made(h)
  BY <1>8
<1> HIDE DEF h
<1>10. h[0] = <<>> /\ \A k \in 1..n : h[k] = Pair(h[k - 1], words[k], name)
  BY <1>1, <1>5, <1>9
<1>11. \A k \in 0..n : h[k] \in V[k]
  <2>1. h[0] \in V[0]
    BY <1>3, <1>6, <1>10
  <2>2. ASSUME NEW k \in 1..n, h[k - 1] \in V[k - 1]
        PROVE  h[k] \in V[k]
    BY <1>4, <1>5, <1>6, <1>10, <2>2
  <2> QED BY <1>1, <2>1, <2>2, HandedOn
<1>12. h[n] \in Seq(WordPair)
  BY <1>1, <1>6, <1>11
<1> QED BY <1>2, <1>12 DEF h

-----------------------------------------------------------------------------
(***************************************************************************)
(* The mean of the scores                                                  *)
(***************************************************************************)
\* What is known of numbers whose product is taken.
Positive == Nat \ {0}

LEMMA ProductGrows ==
    ASSUME NEW x \in Positive, NEW y \in Positive
    PROVE  x * y \in Positive
BY DEF Positive

LEMMA Regroup ==
    ASSUME NEW x \in Positive, NEW y \in Positive, NEW z \in Positive
    PROVE  (x * y) * z = x * (y * z)
BY DEF Positive

\* A product is a multiple of each factor.
LEMMA ProductDivides ==
    ASSUME NEW s \in Seq(Positive)
    PROVE  /\ ProductOf(s) \in Positive
           /\ \A m \in 1..Len(s) : \E q \in Positive : ProductOf(s) = s[m] * q
<1> DEFINE n == Len(s)
           V == [k \in 0..n |-> Positive]
           step == [k \in 0..n |-> [v \in Positive |-> v * s[k]]]
           Times(g) == g = [k \in 0..n |-> IF k = 0 THEN 1 ELSE g[k - 1] * s[k]]
<1>1. n \in Nat /\ n = Len(s) /\ \A k \in 1..n : s[k] \in Positive
  OBVIOUS
<1>2. ProductOf(s) = (CHOOSE g : Times(g))[n]
  BY DEF ProductOf
<1>3. ASSUME NEW k \in 1..n
      PROVE  /\ k \in 0..n /\ k - 1 \in 0..n /\ k # 0
             /\ \A v \in Positive : step[k][v] = v * s[k]
  BY <1>1
<1>4. \A k \in 0..n : V[k] = Positive
  OBVIOUS
<1>5. \A k \in 1..n : \A v \in Positive : v * s[k] \in Positive
  BY <1>1, ProductGrows
<1>6. 1 \in Positive
  BY DEF Positive
<1> HIDE DEF V, step, n
<1>7. PICK g : Counted(n, 1, step, g) /\ \A k \in 0..n : g[k] \in V[k]
  <2>1. Keeps(n, step, V)
    BY <1>3, <1>4, <1>5 DEF Keeps
  <2>2. 1 \in V[0]
    BY <1>1, <1>4, <1>6
  <2> QED BY <1>1, <2>1, <2>2, CountedSolved
<1>8. Times(g)
  <2>1. ASSUME NEW k \in 0..n, k # 0
        PROVE  step[k][g[k - 1]] = g[k - 1] * s[k]
    <3>1. k \in 1..n
      BY <1>1, <2>1
    <3> QED BY <1>3, <1>4, <1>7, <3>1
  <2> QED BY <1>7, <2>1 DEF Counted
<1> DEFINE h == CHOOSE f : Times(f)
<1>9. Times(h)
  BY <1>8
<1> HIDE DEF h
<1>10. h[0] = 1 /\ \A k \in 1..n : h[k] = h[k - 1] * s[k]
  BY <1>1, <1>3, <1>9
<1>11. \A k \in 0..n : h[k] \in Positive
  <2>1. h[0] \in V[0]
    BY <1>1, <1>4, <1>6, <1>10
  <2>2. ASSUME NEW k \in 1..n, h[k - 1] \in V[k - 1]
        PROVE  h[k] \in V[k]
    <3>1. h[k - 1] \in Positive /\ V[k] = Positive
      BY <1>3, <1>4, <2>2
    <3> QED BY <1>5, <1>10, <3>1
  <2>3. \A k \in 0..n : h[k] \in V[k]
    BY <1>1, <2>1, <2>2, HandedOn
  <2> QED BY <1>4, <2>3
<1>12. ASSUME NEW m \in 1..n
       PROVE  \E q \in Positive : h[n] = s[m] * q
  <2> DEFINE W == [k \in 0..n |-> {x \in Positive :
                        k < m \/ \E q \in Positive : x = s[m] * q}]
  <2>1. h[0] \in W[0]
    BY <1>1, <1>6, <1>10
  <2>2. ASSUME NEW k \in 1..n, h[k - 1] \in W[k - 1]
        PROVE  h[k] \in W[k]
    <3>1. k \in 0..n /\ k - 1 \in 0..n /\ h[k] = h[k - 1] * s[k] /\ h[k] \in Positive
          /\ h[k - 1] \in Positive /\ s[k] \in Positive /\ s[m] \in Positive
      BY <1>1, <1>3, <1>10, <1>11
    <3>2. k - 1 < m \/ \E q \in Positive : h[k - 1] = s[m] * q
      BY <2>2, <3>1
    <3>3. k < m \/ \E q \in Positive : h[k] = s[m] * q
      <4>1. CASE \E q \in Positive : h[k - 1] = s[m] * q
        <5>1. PICK q \in Positive : h[k - 1] = s[m] * q
          BY <4>1
        <5>2. h[k] = s[m] * (q * s[k]) /\ q * s[k] \in Positive
          <6>1. h[k] = (s[m] * q) * s[k]
            BY <3>1, <5>1
          <6>2. (s[m] * q) * s[k] = s[m] * (q * s[k])
            BY <3>1, Regroup
          <6>3. q * s[k] \in Positive
            BY <3>1, ProductGrows
          <6> QED BY <6>1, <6>2, <6>3
        <5> QED BY <5>2
      <4>2. CASE k = m
        <5>1. h[k] = s[m] * h[k - 1]
          BY <3>1, <4>2 DEF Positive
        <5> QED BY <3>1, <5>1
      <4> QED BY <1>1, <3>1, <3>2, <4>1, <4>2
    <3> QED BY <3>1, <3>3
  <2> HIDE DEF W
  <2>3. h[n] \in W[n]
    <3>1. \A k \in 0..n : h[k] \in W[k]
      BY <1>1, <2>1, <2>2, HandedOn
    <3> QED BY <1>1, <3>1
  <2> QED BY <1>1, <2>3 DEF W
<1>13. h[n] \in Positive
  BY <1>1, <1>11
<1> QED BY <1>1, <1>2, <1>12, <1>13 DEF h

\* Terms that are no more than U add up to no more than as many U, to exactly
\* that if each is U, and to as much less as one of them is.
StaysUnder(s, U) ==
    /\ (\A k \in 1..Len(s) : s[k] = U) => SumOf(s) = Len(s) * U
    /\ \A m \in 1..Len(s), r \in Nat : s[m] + r <= U => SumOf(s) + r <= Len(s) * U

LEMMA SumUnder ==
    ASSUME NEW s \in Seq(Nat), NEW U \in Nat, \A k \in 1..Len(s) : s[k] <= U
    PROVE  StaysUnder(s, U)
<1> DEFINE n == Len(s)
<1>1. PICK g : AddsUp(s, g) /\ SumOf(s) = g[n]
  BY SumAddsUp
<1>2. /\ n \in Nat /\ n \in 0..n /\ \A k \in 1..n : s[k] \in Nat /\ s[k] <= U
      /\ \A k \in 1..n : k \in 0..n /\ k - 1 \in 0..n
  OBVIOUS
<1>3. /\ \A k \in 0..n : g[k] \in Nat
      /\ g[0] = 0 /\ \A k \in 1..n : g[k] = g[k - 1] + s[k]
  BY <1>1 DEF AddsUp
<1> HIDE DEF n
<1>4. ASSUME NEW k \in 1..n
      PROVE  (k - 1) * U + U = k * U /\ (k - 1) * U \in Nat /\ k * U \in Nat
  <2>1. k \in Nat /\ k - 1 \in Nat
    BY <1>2
  <2> QED BY <2>1
<1>5. 0 * U = 0
  OBVIOUS
<1>6. ASSUME \A k \in 1..n : s[k] = U
      PROVE  g[n] = n * U
  <2> DEFINE V == [k \in 0..n |-> {k * U}]
  <2>1. g[0] \in V[0]
    BY <1>2, <1>3, <1>5
  <2>2. ASSUME NEW k \in 1..n, g[k - 1] \in V[k - 1]
        PROVE  g[k] \in V[k]
    <3>1. g[k - 1] = (k - 1) * U
      BY <1>2, <2>2
    <3>2. g[k] = k * U
      BY <1>3, <1>4, <1>6, <3>1
    <3> QED BY <1>2, <3>2
  <2> HIDE DEF V
  <2>3. \A k \in 0..n : g[k] \in V[k]
    BY <1>2, <2>1, <2>2, HandedOn
  <2>4. g[n] \in V[n]
    BY <1>2, <2>3
  <2> QED BY <1>2, <2>4 DEF V
<1>7. ASSUME NEW m \in 1..n, NEW r \in Nat, s[m] + r <= U
      PROVE  g[n] + r <= n * U
  <2> DEFINE V == [k \in 0..n |-> {x \in Nat :
                        x <= k * U /\ (m <= k => x + r <= k * U)}]
  <2>1. g[0] \in V[0]
    <3>1. ~(m <= 0) /\ 0 \in 0..n
      BY <1>2
    <3> QED BY <1>3, <1>5, <3>1
  <2>2. ASSUME NEW k \in 1..n, g[k - 1] \in V[k - 1]
        PROVE  g[k] \in V[k]
    <3>1. /\ g[k - 1] <= (k - 1) * U /\ (m <= k - 1 => g[k - 1] + r <= (k - 1) * U)
          /\ g[k - 1] \in Nat
      BY <1>2, <2>2
    <3>2. /\ g[k] = g[k - 1] + s[k] /\ s[k] \in Nat /\ s[k] <= U /\ g[k] \in Nat
          /\ s[m] \in Nat
      BY <1>2, <1>3
    <3>3. (k - 1) * U + U = k * U /\ (k - 1) * U \in Nat /\ k * U \in Nat
      BY <1>4
    <3>4. g[k] <= k * U
      BY <3>1, <3>2, <3>3
    <3>5. ASSUME m <= k
          PROVE  g[k] + r <= k * U
      <4>1. CASE m = k
        BY <1>7, <3>1, <3>2, <3>3, <4>1
      <4>2. CASE m # k
        <5>1. m <= k - 1
          BY <1>2, <3>5, <4>2
        <5> QED BY <3>1, <3>2, <3>3, <5>1
      <4> QED BY <4>1, <4>2
    <3> QED BY <1>2, <3>2, <3>4, <3>5
  <2> HIDE DEF V
  <2>3. \A k \in 0..n : g[k] \in V[k]
    BY <1>2, <2>1, <2>2, HandedOn
  <2>4. g[n] \in V[n]
    BY <1>2, <2>3
  <2>5. g[n] \in Nat /\ (m <= n => g[n] + r <= n * U)
    BY <1>2, <2>4 DEF V
  <2> QED BY <1>2, <2>5
<1> QED BY <1>1, <1>2, <1>6, <1>7 DEF n, StaysUnder

LEMMA Scaled ==
    ASSUME NEW x \in Nat, NEW y \in Nat, NEW q \in Nat
    PROVE  /\ x * q \in Nat
           /\ x <= y => x * q <= y * q
           /\ x + 2 <= y => x * q + 2 * q <= y * q
<1>1. \A v \in Nat : v * q \in Nat
  OBVIOUS
<1>2. ASSUME x <= y
      PROVE  x * q <= y * q
  <2>1. PICK v \in Nat : y = x + v
    <3>1. y - x \in Nat /\ y = x + (y - x)
      BY <1>2
    <3> QED BY <3>1
  <2>2. y * q = x * q + v * q
    BY <2>1
  <2> QED BY <1>1, <2>2
<1>3. ASSUME x + 2 <= y
      PROVE  x * q + 2 * q <= y * q
  <2>1. PICK v \in Nat : y = x + 2 + v
    <3>1. y - (x + 2) \in Nat /\ y = x + 2 + (y - (x + 2))
      BY <1>3
    <3> QED BY <3>1
  <2>2. y * q = x * q + 2 * q + v * q
    BY <2>1
  <2> QED BY <1>1, <2>2
<1> QED BY <1>1, <1>2, <1>3

LEMMA DivisionExact ==
    ASSUME NEW x \in Positive, NEW q \in Positive
    PROVE  (x * q) \div x = q
BY DEF Positive

\* A fraction is shown as 100% if it falls short of 1 by less than half a tenth
\* of a percent.
LEMMA TenthsFull ==
    ASSUME NEW part \in Nat, NEW whole \in Positive, part <= whole
    PROVE  Tenths(part, whole) = 1000 <=> 2000 * (whole - part) <= whole
<1> DEFINE x == 2000 * part + whole
           y == 2 * whole
           t == Tenths(part, whole)
<1>1. x \in Nat /\ y \in Nat /\ y > 0 /\ t = x \div y
  BY DEF Tenths, Positive
<1>2. t \in Nat /\ y * t <= x /\ x < y * t + y
  <2> HIDE DEF x, y, t
  <2> QED BY <1>1
<1>3. CASE t <= 999
  <2>1. y * t <= y * 999
    <3> HIDE DEF x, y, t
    <3> QED BY <1>1, <1>2, <1>3
  <2>2. x < y * 1000
    BY <1>1, <1>2, <2>1 DEF Positive
  <2> QED BY <1>3, <2>2 DEF Positive
<1>4. CASE t = 1000
  BY <1>1, <1>2, <1>4 DEF Positive
<1>5. CASE t >= 1001
  <2>1. y * t >= y * 1001
    <3> HIDE DEF x, y, t
    <3> QED BY <1>1, <1>2, <1>5
  <2> QED BY <1>2, <2>1 DEF Positive
<1> QED BY <1>2, <1>3, <1>4, <1>5

\* The mean is shown as 100% if and only if every match is exact.
LEMMA MeanFull ==
    ASSUME NEW pairs \in Seq(WordPair), pairs # <<>>,
           \A k \in 1..Len(pairs) : Len(pairs) * WordUnit(pairs[k].match) < 4000
    PROVE  NameSimilarity(pairs) = 1000
                <=> \A k \in 1..Len(pairs) : Exact(pairs[k].match)
<1> DEFINE n == Len(pairs)
           u == [k \in DOMAIN pairs |-> WordUnit(pairs[k].match)]
           w == [k \in DOMAIN pairs |-> WordScore(pairs[k].match)]
           U == ProductOf(u)
           t == [k \in DOMAIN pairs |-> WordScore(pairs[k].match)
                                            * (U \div WordUnit(pairs[k].match))]
           sum == SumOf(t)
<1>1. n \in Nat /\ n # 0 /\ DOMAIN pairs = 1..n
  OBVIOUS
<1>2. ASSUME NEW k \in 1..n
      PROVE  /\ u[k] \in Positive /\ u[k] \in Nat /\ w[k] \in Nat /\ n * u[k] < 4000
             /\ Exact(pairs[k].match) => w[k] = u[k]
             /\ ~Exact(pairs[k].match) => w[k] + 2 <= u[k]
  <2>1. pairs[k].match \in WordMatch
    <3>1. pairs[k] \in WordPair
      BY <1>1
    <3> QED BY <3>1 DEF WordPair
  <2>2. u[k] = WordUnit(pairs[k].match) /\ w[k] = WordScore(pairs[k].match)
    BY <1>1
  <2> HIDE DEF u, w
  <2> QED BY <1>1, <2>1, <2>2, WordScores DEF Positive
<1>3. u \in Seq(Positive) /\ Len(u) = n
  <2>1. u = [k \in 1..n |-> u[k]]
    BY <1>1
  <2> HIDE DEF u, n
  <2> QED BY <1>1, <1>2, <2>1
<1>4. /\ U \in Positive
      /\ \A k \in 1..n : \E q \in Positive : U = u[k] * q
  <2> HIDE DEF u, n
  <2> QED BY <1>3, ProductDivides
<1>5. ASSUME NEW k \in 1..n
      PROVE  t[k] = w[k] * (U \div u[k])
  BY <1>1
<1>6. t = [k \in 1..n |-> t[k]]
  BY <1>1
<1>7. NameSimilarity(pairs) = Tenths(sum, U * n)
  BY DEF NameSimilarity
<1> HIDE DEF u, w, U, t, n
<1>8. ASSUME NEW k \in 1..n
      PROVE  \E q \in Positive : /\ U = u[k] * q /\ t[k] = w[k] * q
                                 /\ t[k] \in Nat /\ t[k] <= U
                                 /\ w[k] = u[k] => t[k] = U
                                 /\ w[k] + 2 <= u[k] => t[k] + 2 * q <= U
  <2>1. PICK q \in Positive : U = u[k] * q
    BY <1>4
  <2>2. U \div u[k] = q
    BY <1>2, <2>1, DivisionExact
  <2>3. t[k] = w[k] * q
    BY <1>5, <2>2
  <2>4. w[k] <= u[k] /\ w[k] \in Nat /\ u[k] \in Nat /\ q \in Nat
    BY <1>2 DEF Positive
  <2> DEFINE x == w[k]
             y == u[k]
  <2>5. x \in Nat /\ y \in Nat /\ q \in Nat /\ x <= y
    BY <2>4
  <2> HIDE DEF x, y
  <2>6. /\ x * q \in Nat /\ x * q <= y * q
        /\ x + 2 <= y => x * q + 2 * q <= y * q
    BY <2>5, Scaled
  <2>7. U = y * q /\ t[k] = x * q
    BY <2>1, <2>3 DEF x, y
  <2>8. /\ t[k] \in Nat /\ t[k] <= U
        /\ x = y => t[k] = U
        /\ x + 2 <= y => t[k] + 2 * q <= U
    BY <2>6, <2>7
  <2> QED BY <2>1, <2>3, <2>8 DEF x, y
<1>9. t \in Seq(Nat) /\ Len(t) = n /\ U \in Nat /\ \A k \in 1..n : t[k] <= U
  <2>1. \A k \in 1..n : t[k] \in Nat /\ t[k] <= U
    BY <1>8
  <2>2. t \in Seq(Nat) /\ Len(t) = n
    BY <1>1, <1>6, <2>1
  <2> QED BY <1>4, <2>1, <2>2 DEF Positive
<1>10. /\ sum \in Nat
       /\ (\A k \in 1..n : t[k] = U) => sum = n * U
       /\ \A k \in 1..n, r \in Nat : t[k] + r <= U => sum + r <= n * U
  <2>1. \A k \in 1..Len(t) : t[k] <= U
    BY <1>9
  <2>2. StaysUnder(t, U)
    <3>1. t \in Seq(Nat) /\ U \in Nat
      BY <1>9
    <3> QED BY <2>1, <3>1, SumUnder
  <2>3. /\ sum = SumOf(t) /\ sum \in Nat
        /\ (\A k \in 1..n : t[k] = U) => sum = n * U
        /\ \A k \in 1..n, r \in Nat : t[k] + r <= U => sum + r <= n * U
    BY <1>9, <2>2, SumBounds DEF sum, StaysUnder
  <2> QED BY <2>3
<1> HIDE DEF sum
<1>11. U * n \in Positive /\ U * n = n * U
  BY <1>1, <1>4 DEF Positive
<1>12. CASE \A k \in 1..n : Exact(pairs[k].match)
  <2>1. \A k \in 1..n : t[k] = U
    BY <1>2, <1>8, <1>12
  <2>2. sum = n * U
    BY <1>10, <2>1
  <2>3. Tenths(sum, U * n) = 1000
    BY <1>10, <1>11, <2>2, TenthsFull DEF Positive
  <2> QED BY <1>7, <1>12, <2>3 DEF n
<1>13. CASE ~\A k \in 1..n : Exact(pairs[k].match)
  <2>1. PICK k \in 1..n : ~Exact(pairs[k].match)
    BY <1>13
  <2>2. PICK q \in Positive : U = u[k] * q /\ t[k] + 2 * q <= U
    BY <1>2, <1>8, <2>1
  <2>3. sum + 2 * q <= n * U
    <3>1. 2 * q \in Nat
      BY DEF Positive
    <3> QED BY <1>10, <2>2, <3>1
  <2>4. n * U < 4000 * q
    <3>1. n * U = (n * u[k]) * q
      BY <1>1, <1>2, <2>2 DEF Positive
    <3>2. n * u[k] \in Nat /\ n * u[k] < 4000
      BY <1>1, <1>2
    <3> DEFINE x == n * u[k]
    <3> HIDE DEF x
    <3>3. x \in Nat /\ x < 4000 /\ q \in Nat /\ q >= 1
      BY <3>2 DEF x, Positive
    <3>4. x * q < 4000 * q
      BY <3>3
    <3> QED BY <3>1, <3>4 DEF x
  <2>5. n * U \in Nat /\ q \in Nat
    BY <1>1, <1>9 DEF Positive
  <2>6. sum <= n * U /\ ~(2000 * (n * U - sum) <= n * U)
    <3> DEFINE z == n * U
    <3>1. z \in Nat /\ sum + 2 * q <= z /\ z < 4000 * q
      BY <2>3, <2>4, <2>5
    <3> HIDE DEF z
    <3>2. sum <= z /\ ~(2000 * (z - sum) <= z)
      BY <1>10, <2>5, <3>1
    <3> QED BY <3>2 DEF z
  <2>7. Tenths(sum, U * n) # 1000
    BY <1>10, <1>11, <2>6, TenthsFull
  <2> QED BY <1>7, <1>13, <2>7 DEF n
<1> QED BY <1>12, <1>13

-----------------------------------------------------------------------------
(***************************************************************************)
(* Every search                                                            *)
(***************************************************************************)
\* What an officer types, erases or picks is text.
LEMMA QueryTyped == SimilarityTypeOK /\ [SimilarityNext]_query => SimilarityTypeOK'
<1> SUFFICES ASSUME SimilarityTypeOK, [SimilarityNext]_query
             PROVE  SimilarityTypeOK'
  OBVIOUS
<1> USE SimilarityAssumption
<1>1. CASE Erase
  <2>1. Len(query) \in Nat /\ Len(query) # 0
    BY <1>1 DEF Erase, SimilarityTypeOK
  <2>2. \A k \in 1..(Len(query) - 1) : query[k] \in STRING
    BY <2>1 DEF SimilarityTypeOK
  <2>3. SubSeq(query, 1, Len(query) - 1) \in Seq(STRING)
    BY <2>1, <2>2 DEF SimilarityTypeOK
  <2> QED BY <1>1, <2>3 DEF Erase, SimilarityTypeOK, Front
<1>2. CASE \E key \in Key : TypeKey(key)
  BY <1>2 DEF TypeKey, SimilarityTypeOK
<1>3. CASE \E term \in QuickSearch : Choose(term)
  BY <1>3 DEF Choose, SimilarityTypeOK
<1>4. CASE UNCHANGED query
  BY <1>4 DEF SimilarityTypeOK
<1> QED BY <1>1, <1>2, <1>3, <1>4 DEF SimilarityNext

(***************************************************************************)
(* The search is text, whatever is typed, erased or picked.                *)
(***************************************************************************)
THEOREM SimilarityTypeCorrect == SimilaritySpec => []SimilarityTypeOK
<1>1. SimilarityInit => SimilarityTypeOK
  BY DEF SimilarityInit, SimilarityTypeOK
<1> QED BY <1>1, QueryTyped, PTL DEF SimilaritySpec

\* Strings are texts.
LEMMA StringsAreText == Seq(STRING) \subseteq Text /\ Seq(Seq(STRING)) \subseteq Seq(Text)
<1>1. ASSUME NEW s \in Seq(STRING)
      PROVE  s \in Text
  BY DEF Text, Letter
<1>2. Seq(STRING) \subseteq Text
  BY <1>1
<1> DEFINE S == Seq(STRING)
<1> HIDE DEF S
<1>3. ASSUME NEW s \in Seq(S), S \subseteq Text
      PROVE  s \in Seq(Text)
  BY <1>3
<1> QED BY <1>2, <1>3 DEF S

\* A match of a reference.
LEMMA CodeMatchHolds ==
    ASSUME NEW a \in Text, NEW b \in Text
    PROVE  LET m == CodeMatch(a, b)
           IN  /\ m.ops # <<>> => ReasonHolds(m)
               /\ CodeSimilarity(m) = 1000 <=> Exact(m)
<1> DEFINE m == CodeMatch(a, b)
<1>1. CASE m.ops = <<>>
  <2>1. ToSet(m.ops) = {}
    BY <1>1 DEF ToSet
  <2>2. Exact(m)
    BY <2>1 DEF Exact
  <2> QED BY <1>1, <2>2 DEF CodeSimilarity
<1>2. CASE m.ops # <<>>
  <2>1. m = Align(a, b)
    <3>1. a \notin SubSeqs(b)
      BY <1>2 DEF CodeMatch
    <3> QED BY <3>1 DEF CodeMatch
  <2>2. IsMatch(m)
    BY <2>1, AlignIsMatch
  <2> HIDE DEF m
  <2>3. /\ m.cost \in Nat /\ ReasonHolds(m)
        /\ Exact(m) => m.cost = 0
        /\ ~Exact(m) => m.cost >= 2
    BY <2>2 DEF IsMatch
  <2> DEFINE left == Max({CodeBudget - m.cost, 0})
  <2>4. CodeSimilarity(m) = Tenths(left, CodeBudget) /\ CodeBudget = 20
    BY <1>2 DEF CodeSimilarity, CodeBudget, FullCost
  <2>5. /\ left \in {20 - m.cost, 0} /\ 20 - m.cost <= left /\ 0 <= left
    <3>1. 20 - m.cost \in Int /\ 0 \in Int
      BY <2>3
    <3> QED BY <2>4, <3>1, MaxOfTwo
  <2> HIDE DEF left
  <2>6. left \in Nat /\ left <= 20 /\ (m.cost = 0 => left = 20) /\ (m.cost >= 2 => left <= 18)
    BY <2>3, <2>5
  <2>7. Tenths(left, 20) = 1000 <=> 2000 * (20 - left) <= 20
    <3>1. 20 \in Positive
      BY DEF Positive
    <3> QED BY <2>6, <3>1, TenthsFull
  <2>8. CodeSimilarity(m) = 1000 <=> Exact(m)
    BY <2>3, <2>4, <2>6, <2>7
  <2> QED BY <2>3, <2>8 DEF m
<1> QED BY <1>1, <1>2

(***************************************************************************)
(* The reason shown beside a figure is the reason for it, whatever is      *)
(* typed and whatever the records are: the edits named are true and turn   *)
(* the one text into the other, they cost what the score charged, each     *)
(* letter that is not marked was typed, and 100% is shown, of names short  *)
(* enough, if and only if no edit is named.                                *)
(***************************************************************************)
THEOREM ExplanationsAddUp == SimilaritySpec => []ExplanationAddsUp
<1>1. ASSUME SimilarityTypeOK
      PROVE  ExplanationAddsUp
  <2> SUFFICES ASSUME NEW person \in SearchRecord
               PROVE  LET matches == Matches(query, person)
                      IN  /\ \A m \in matches : m.ops # <<>> => ReasonHolds(m)
                          /\ (matches # {} /\ (IsReference(query)
                                                    \/ ShortEnough(query, person))) =>
                                (Similarity(query, person) = 1000
                                    <=> \A m \in matches : Exact(m))
    BY DEF ExplanationAddsUp
  <2> DEFINE pairs == Pairing(Words(query), person.name)
  <2>1. query \in Text /\ person.name \in Seq(Text) /\ person.ref \in Text
    <3>1. person \in [name : Seq(Seq(STRING)), ref : Seq(STRING)]
      BY SimilarityAssumption
    <3> QED BY <1>1, <3>1, StringsAreText DEF SimilarityTypeOK
  <2>2. CASE IsReference(query)
    <3>1. CASE person.ref = <<>>
      BY <2>2, <3>1 DEF Matches
    <3>2. CASE person.ref # <<>>
      <4> DEFINE m == CodeMatch(query, person.ref)
      <4>1. /\ Matches(query, person) = {m}
            /\ Similarity(query, person) = CodeSimilarity(m)
        BY <2>2, <3>2 DEF Matches, Similarity
      <4>2. /\ m.ops # <<>> => ReasonHolds(m)
            /\ CodeSimilarity(m) = 1000 <=> Exact(m)
        BY <2>1, CodeMatchHolds
      <4> HIDE DEF m
      <4> QED BY <4>1, <4>2
    <3> QED BY <3>1, <3>2
  <2>3. CASE ~IsReference(query)
    <3>1. pairs \in Seq(WordPair)
      BY <2>1, WordsTyped, PairingTyped
    <3>2. Matches(query, person) = {p.match : p \in ToSet(pairs)}
      BY <2>3 DEF Matches
    <3>3. Similarity(query, person) = IF pairs = <<>> THEN 0 ELSE NameSimilarity(pairs)
      BY <2>3 DEF Similarity
    <3>4. ShortEnough(query, person) =>
                \A k \in 1..Len(pairs) : Len(pairs) * WordUnit(pairs[k].match) < 4000
      <4>1. \A k \in 1..Len(pairs) : pairs[k] \in ToSet(pairs)
        <5> HIDE DEF pairs
        <5> QED BY <3>1 DEF ToSet
      <4> QED BY <4>1 DEF ShortEnough, FullCost
    <3> HIDE DEF pairs
    <3>5. /\ \A k \in 1..Len(pairs) : pairs[k].match \in Matches(query, person)
          /\ \A m \in Matches(query, person) : \E k \in 1..Len(pairs) : m = pairs[k].match
      BY <3>1, <3>2 DEF ToSet
    <3>6. ASSUME NEW m \in Matches(query, person)
          PROVE  ReasonHolds(m)
      <4>1. PICK k \in 1..Len(pairs) : m = pairs[k].match
        BY <3>5
      <4>2. pairs[k] \in WordPair
        BY <3>1
      <4> QED BY <4>1, <4>2 DEF WordPair, WordMatch, IsMatch
    <3>7. ASSUME Matches(query, person) # {}, ShortEnough(query, person)
          PROVE  Similarity(query, person) = 1000
                    <=> \A m \in Matches(query, person) : Exact(m)
      <4>1. pairs # <<>>
        BY <3>5, <3>7
      <4>2. NameSimilarity(pairs) = 1000
                <=> \A k \in 1..Len(pairs) : Exact(pairs[k].match)
        BY <3>1, <3>4, <3>7, <4>1, MeanFull
      <4> QED BY <3>3, <3>5, <4>1, <4>2
    <3> QED BY <2>3, <3>6, <3>7
  <2> QED BY <2>2, <2>3
<1> QED BY <1>1, SimilarityTypeCorrect, PTL
=============================================================================
