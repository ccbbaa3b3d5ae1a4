---------------------------- MODULE NaturalSets ----------------------------
(***************************************************************************)
(* Least and greatest elements of sets of naturals.  That a non-empty set  *)
(* of naturals has a least element is what the proofs use for induction:   *)
(* the least counterexample has a predecessor that is none.                *)
(***************************************************************************)
EXTENDS Integers, FiniteSetsExt, Functions, FiniteSetTheorems, TLAPS

(* Least and greatest elements.  The lower bounds of a set of naturals are *)
(* an interval 0..n, counted by its cardinality.                           *)
LEMMA LeastExists ==
    ASSUME NEW S \in SUBSET Nat, S # {}
    PROVE  \E m \in S : \A n \in S : m <= n
  <1>1. PICK x \in S : TRUE
    OBVIOUS
  <1> DEFINE U == {n \in 0..x : \A m \in S : n <= m}
  <1>2. IsFiniteSet(0..x)
    BY <1>1, FS_Interval
  <1>3. PICK c \in Nat : IsFiniteSet(U) /\ c = Cardinality(U)
    BY <1>2, FS_Subset, FS_CardinalityType
  <1>4. ASSUME NEW n \in U PROVE n + 1 <= c
    <2>1. n \in Nat /\ 0..n \subseteq U
      BY <1>1
    <2>2. Cardinality(0..n) = n + 1
      BY <2>1, FS_Interval
    <2>. QED
      BY <1>3, <2>1, <2>2, FS_Subset
  <1>5. 0 \in U
    BY <1>1
  <1>6. c >= 1
    BY <1>4, <1>5
  <1>7. U \subseteq 0..(c - 1)
    <2>. SUFFICES ASSUME NEW n \in U PROVE n \in 0..(c - 1)
      OBVIOUS
    <2>1. n \in Nat /\ n + 1 <= c
      BY <1>4
    <2>. QED
      BY <2>1
  <1>8. IsFiniteSet(0..(c - 1)) /\ Cardinality(0..(c - 1)) = c
    BY <1>6, FS_Interval
  <1>9. U = 0..(c - 1)
    BY <1>3, <1>7, <1>8, FS_Subset, Zenon
  <1>10. c \notin U /\ c - 1 \in U
    <2>1. c \notin 0..(c - 1) /\ c - 1 \in 0..(c - 1)
      BY <1>6
    <2>. QED
      BY <1>9, <2>1, Zenon
  <1>11. PICK m \in S : m < c
    BY <1>1, <1>10
  <1>12. m \in Nat /\ c - 1 <= m /\ \A n \in S : c - 1 <= n
    BY <1>10, <1>11
  <1>13. m = c - 1
    BY <1>11, <1>12
  <1>. QED
    BY <1>12, <1>13

(* A non-empty set of naturals with a bound has a greatest element. *)
LEMMA GreatestExists ==
    ASSUME NEW k \in Nat, NEW S \in SUBSET (0..k), S # {}
    PROVE  \E m \in S : \A n \in S : m >= n
  <1> DEFINE R == {k - n : n \in S}
  <1>a. \A n \in S : k - n \in Nat
    OBVIOUS
  <1>b. PICK s \in S : TRUE
    OBVIOUS
  <1>c. k - s \in R
    BY Zenon
  <1>1. R \in SUBSET Nat /\ R # {}
    BY <1>a, <1>c, Zenon
  <1>2. PICK r \in R : \A n \in R : r <= n
    BY <1>1, LeastExists
  <1>3. PICK m \in S : r = k - m
    OBVIOUS
  <1>4. ASSUME NEW n \in S PROVE m >= n
    <2>1. r <= k - n
      BY <1>2
    <2>2. n \in 0..k /\ m \in 0..k
      OBVIOUS
    <2>. QED
      BY <1>3, <2>1, <2>2
  <1>. QED
    BY <1>4

(* So Min and Max are what they are named for. *)
LEMMA MinIsLeast ==
    ASSUME NEW S \in SUBSET Nat, S # {}
    PROVE  Min(S) \in S /\ \A n \in S : Min(S) <= n
  BY LeastExists DEF Min

(* Max of a bounded set. *)
LEMMA MaxIsGreatest ==
    ASSUME NEW k \in Nat, NEW S \in SUBSET (0..k), S # {}
    PROVE  Max(S) \in S /\ \A n \in S : Max(S) >= n
  BY GreatestExists DEF Max

----------------------------------------------------------------------------
(* Loops.  A recursive function whose only call of itself is its result is *)
(* a loop; that one exists has to be proved before its value can be.       *)

(* f is what the loop "as long as d is in Go, take step[d] for d; then     *)
(* base[d]" computes for each d of D.                                      *)
Computes(f, D, Go, step, base) ==
    f = [d \in D |-> IF d \in Go THEN f[step[d]] ELSE base[d]]

(* Each turn lowers the rank. *)
Terminates(D, Go, step, rank) ==
    /\ step \in [Go -> D] /\ rank \in [D -> Nat]
    /\ \A d \in Go : rank[step[d]] < rank[d]

RankBelow(D, rank, n) == {d \in D : rank[d] < n}

(* Two solutions for low ranks agree. *)
LEMMA BelowAgree ==
    ASSUME NEW D, NEW Go \in SUBSET D, NEW step, NEW rank, NEW base, Terminates(D, Go, step, rank),
           NEW m \in Nat, NEW n \in Nat,
           NEW f, Computes(f, RankBelow(D, rank, m), Go, step, base),
           NEW g, Computes(g, RankBelow(D, rank, n), Go, step, base)
    PROVE  \A d \in RankBelow(D, rank, m) \cap RankBelow(D, rank, n) : f[d] = g[d]
  <1> DEFINE R == {rank[d] : d \in {e \in RankBelow(D, rank, m) \cap RankBelow(D, rank, n) : f[e] # g[e]}}
  <1>1. SUFFICES ASSUME R # {} PROVE FALSE
    OBVIOUS
  <1>2. R \in SUBSET Nat
    BY DEF RankBelow, Terminates
  <1>3. PICK r \in R : \A x \in R : r <= x
    BY <1>1, <1>2, LeastExists
  <1>4. PICK d \in RankBelow(D, rank, m) \cap RankBelow(D, rank, n) : f[d] # g[d] /\ r = rank[d]
    BY <1>3
  <1>5. d \in D /\ rank[d] < m /\ rank[d] < n /\ rank[d] \in Nat
    BY <1>4 DEF RankBelow, Terminates
  <1>6. /\ f[d] = IF d \in Go THEN f[step[d]] ELSE base[d]
        /\ g[d] = IF d \in Go THEN g[step[d]] ELSE base[d]
    BY <1>4 DEF Computes
  <1>7. CASE d \in Go
    <2>1. step[d] \in D /\ rank[step[d]] < rank[d] /\ rank[step[d]] \in Nat
      BY <1>7 DEF Terminates
    <2>2. step[d] \in RankBelow(D, rank, m) \cap RankBelow(D, rank, n)
      BY <1>5, <2>1 DEF RankBelow
    <2>3. rank[step[d]] \notin R
      <3>. HIDE DEF R
      <3>. QED
        BY <1>3, <1>4, <1>5, <2>1
    <2>4. f[step[d]] = g[step[d]]
      BY <2>2, <2>3
    <2>. QED
      BY <1>4, <1>6, <1>7, <2>4
  <1>. QED
    BY <1>4, <1>6, <1>7

(* There is a solution for ranks below each number. *)
LEMMA BelowExists ==
    ASSUME NEW D, NEW Go \in SUBSET D, NEW step, NEW rank, NEW base, Terminates(D, Go, step, rank)
    PROVE  \A n \in Nat : \E f : Computes(f, RankBelow(D, rank, n), Go, step, base)
  <1> DEFINE Has(n) == \E f : Computes(f, RankBelow(D, rank, n), Go, step, base)
             Bad == {n \in Nat : ~Has(n)}
  <1>1. SUFFICES ASSUME Bad # {} PROVE FALSE
    OBVIOUS
  <1>2. PICK n \in Bad : \A k \in Bad : n <= k
    BY <1>1, LeastExists
  <1>3. n # 0
    <2>1. RankBelow(D, rank, 0) = {}
      BY DEF RankBelow, Terminates
    <2>2. Has(0)
      BY <2>1 DEF Computes
    <2>. QED
      BY <1>2, <2>2
  <1>4. n \in Nat /\ n - 1 \in Nat /\ Has(n - 1)
    BY <1>2, <1>3
  <1>5. PICK f : Computes(f, RankBelow(D, rank, n - 1), Go, step, base)
    BY <1>4
  <1>6. PICK g : g = [d \in RankBelow(D, rank, n) |-> IF d \in Go THEN f[step[d]] ELSE base[d]]
    OBVIOUS
  <1>7. ASSUME NEW d \in RankBelow(D, rank, n), d \in Go PROVE f[step[d]] = g[step[d]]
    <2>1. d \in D /\ rank[d] < n /\ rank[d] \in Nat
      BY DEF RankBelow, Terminates
    <2>2. step[d] \in D /\ rank[step[d]] < rank[d] /\ rank[step[d]] \in Nat
      BY <1>7 DEF Terminates
    <2>3. step[d] \in RankBelow(D, rank, n - 1) /\ step[d] \in RankBelow(D, rank, n)
      BY <1>4, <2>1, <2>2 DEF RankBelow
    <2>. QED
      BY <1>5, <1>6, <2>3 DEF Computes
  <1>8. g = [d \in RankBelow(D, rank, n) |-> IF d \in Go THEN g[step[d]] ELSE base[d]]
    BY <1>6, <1>7
  <1>9. Has(n)
    BY <1>8 DEF Computes
  <1>. QED
    BY <1>2, <1>9

(* A loop whose rank falls with each turn computes something ...           *)
LEMMA LoopComputes ==
    ASSUME NEW D, NEW Go \in SUBSET D, NEW step, NEW rank, NEW base, Terminates(D, Go, step, rank)
    PROVE  \E f : Computes(f, D, Go, step, base)
  <1> DEFINE Part(n) == CHOOSE f : Computes(f, RankBelow(D, rank, n), Go, step, base)
             F == [d \in D |-> Part(rank[d] + 1)[d]]
  <1>1. \A n \in Nat : Computes(Part(n), RankBelow(D, rank, n), Go, step, base)
    <2>1. \A n \in Nat : \E f : Computes(f, RankBelow(D, rank, n), Go, step, base)
      BY BelowExists
    <2>. QED
      BY <2>1, Zenon
  <1>2. ASSUME NEW m \in Nat, NEW n \in Nat, NEW d \in RankBelow(D, rank, m) \cap RankBelow(D, rank, n)
        PROVE  Part(m)[d] = Part(n)[d]
    <2> DEFINE f == Part(m)
               g == Part(n)
    <2>1. /\ Computes(f, RankBelow(D, rank, m), Go, step, base)
          /\ Computes(g, RankBelow(D, rank, n), Go, step, base)
      BY <1>1
    <2>. HIDE DEF f, g
    <2>2. \A e \in RankBelow(D, rank, m) \cap RankBelow(D, rank, n) : f[e] = g[e]
      BY <2>1, BelowAgree
    <2>. QED
      BY <2>2 DEF f, g
  <1>. HIDE DEF Part
  <1>3. ASSUME NEW d \in D PROVE F[d] = IF d \in Go THEN F[step[d]] ELSE base[d]
    <2>1. rank[d] \in Nat /\ d \in RankBelow(D, rank, rank[d] + 1)
      BY DEF RankBelow, Terminates
    <2>2. F[d] = IF d \in Go THEN Part(rank[d] + 1)[step[d]] ELSE base[d]
      BY <1>1, <2>1 DEF Computes
    <2>3. CASE d \in Go
      <3>1. step[d] \in D /\ rank[step[d]] < rank[d] /\ rank[step[d]] \in Nat
        BY <2>3 DEF Terminates
      <3>2. step[d] \in RankBelow(D, rank, rank[d] + 1) \cap RankBelow(D, rank, rank[step[d]] + 1)
        BY <2>1, <3>1 DEF RankBelow
      <3>3. Part(rank[d] + 1)[step[d]] = Part(rank[step[d]] + 1)[step[d]]
        BY <1>2, <2>1, <3>1, <3>2
      <3>. QED
        BY <2>2, <2>3, <3>1, <3>3
    <2>. QED
      BY <2>2, <2>3
  <1>4. F = [d \in D |-> IF d \in Go THEN F[step[d]] ELSE base[d]]
    BY <1>3
  <1>. HIDE DEF F
  <1>. QED
    BY <1>4 DEF Computes

(* A turn of the loop keeps P, and where the loop ends P gives Q.          *)
TurnsKeep(P, Q, Go, step, base) ==
    /\ \A d \in P \cap Go : step[d] \in P
    /\ \A d \in P \ Go : base[d] \in Q

(* ... and what it computes is a result of each invariant of its turns.    *)
LEMMA LoopResult ==
    ASSUME NEW D, NEW Go \in SUBSET D, NEW step, NEW rank, NEW base, Terminates(D, Go, step, rank),
           NEW f, Computes(f, D, Go, step, base),
           NEW P \in SUBSET D, NEW Q, TurnsKeep(P, Q, Go, step, base)
    PROVE  \A d \in P : f[d] \in Q
  <1> DEFINE R == {rank[d] : d \in {e \in P : f[e] \notin Q}}
  <1>1. SUFFICES ASSUME R # {} PROVE FALSE
    OBVIOUS
  <1>2. R \in SUBSET Nat
    BY DEF Terminates
  <1>3. PICK r \in R : \A x \in R : r <= x
    BY <1>1, <1>2, LeastExists
  <1>4. PICK d \in P : f[d] \notin Q /\ r = rank[d]
    BY <1>3
  <1>5. f[d] = IF d \in Go THEN f[step[d]] ELSE base[d]
    BY DEF Computes
  <1>6. CASE d \in Go
    <2>1. step[d] \in P /\ rank[step[d]] < rank[d] /\ rank[step[d]] \in Nat /\ rank[d] \in Nat
      BY <1>6 DEF Terminates, TurnsKeep
    <2>2. rank[step[d]] \notin R
      BY <1>2, <1>3, <1>4, <2>1
    <2>3. f[step[d]] \in Q
      BY <2>1, <2>2
    <2>. QED
      BY <1>4, <1>5, <1>6, <2>3
  <1>. QED
    BY <1>4, <1>5, <1>6 DEF TurnsKeep

----------------------------------------------------------------------------
(* Nested recursion.  Where a recursive function calls itself on a result  *)
(* of its own, that the rank falls depends on what the results are like:   *)
(* Phi takes a function with results as they should be, f[d] for d in the  *)
(* relation Good, to what the recursion makes of it.                       *)
Results(D, Good) == {f \in [D -> D] : \A d \in D : <<d, f[d]>> \in Good}

(* What is made for d depends only on the results of lower rank. *)
LooksDown(D, F, rank, Phi) ==
    \A f, g \in F : \A d \in D :
        (\A e \in D : rank[e] < rank[d] => f[e] = g[e]) => Phi[f][d] = Phi[g][d]

(* f solves the recursion for the ranks below n. *)
SolvesBelow(D, rank, Phi, f, n) == \A d \in D : rank[d] < n => f[d] = Phi[f][d]

(* Then there is a solution for ranks below each number ...                *)
LEMMA NestedBelow ==
    ASSUME NEW D, NEW rank \in [D -> Nat], NEW F, NEW Phi \in [F -> F],
           LooksDown(D, F, rank, Phi), F # {}
    PROVE  \A n \in Nat : \E f \in F : SolvesBelow(D, rank, Phi, f, n)
  <1> DEFINE Has(n) == \E f \in F : SolvesBelow(D, rank, Phi, f, n)
             Bad == {n \in Nat : ~Has(n)}
  <1>1. SUFFICES ASSUME Bad # {} PROVE FALSE
    OBVIOUS
  <1>2. PICK n \in Bad : \A k \in Bad : n <= k
    BY <1>1, LeastExists
  <1>3. n # 0
    BY <1>2 DEF SolvesBelow
  <1>4. n \in Nat /\ n - 1 \in Nat /\ Has(n - 1)
    BY <1>2, <1>3
  <1>5. PICK f \in F : SolvesBelow(D, rank, Phi, f, n - 1)
    BY <1>4
  <1>6. PICK g \in F : g = Phi[f]
    OBVIOUS
  <1>7. ASSUME NEW d \in D, rank[d] < n PROVE g[d] = Phi[g][d]
    <2>1. rank[d] \in Nat
      OBVIOUS
    <2>2. ASSUME NEW e \in D, rank[e] < rank[d] PROVE f[e] = g[e]
      <3>1. rank[e] \in Nat /\ rank[e] < n - 1
        BY <1>4, <1>7, <2>1, <2>2
      <3>. QED
        BY <1>5, <1>6, <3>1 DEF SolvesBelow
    <2>3. Phi[f][d] = Phi[g][d]
      BY <2>2 DEF LooksDown
    <2>. QED
      BY <1>6, <2>3
  <1>8. Has(n)
    BY <1>7 DEF SolvesBelow
  <1>. QED
    BY <1>2, <1>8

(* ... any two of them agree ...                                           *)
LEMMA NestedAgree ==
    ASSUME NEW D, NEW rank \in [D -> Nat], NEW F, NEW Phi, LooksDown(D, F, rank, Phi),
           NEW m \in Nat, NEW n \in Nat,
           NEW f \in F, SolvesBelow(D, rank, Phi, f, m),
           NEW g \in F, SolvesBelow(D, rank, Phi, g, n)
    PROVE  \A d \in D : rank[d] < m /\ rank[d] < n => f[d] = g[d]
  <1> DEFINE R == {rank[d] : d \in {e \in D : rank[e] < m /\ rank[e] < n /\ f[e] # g[e]}}
  <1>1. SUFFICES ASSUME R # {} PROVE FALSE
    OBVIOUS
  <1>2. R \in SUBSET Nat
    OBVIOUS
  <1>3. PICK r \in R : \A x \in R : r <= x
    BY <1>1, <1>2, LeastExists
  <1>4. PICK d \in D : rank[d] < m /\ rank[d] < n /\ f[d] # g[d] /\ r = rank[d]
    BY <1>3
  <1>5. ASSUME NEW e \in D, rank[e] < rank[d] PROVE f[e] = g[e]
    <2>1. rank[e] \in Nat /\ rank[d] \in Nat /\ rank[e] < m /\ rank[e] < n
      BY <1>4, <1>5
    <2>2. rank[e] \notin R
      <3>. HIDE DEF R
      <3>. QED
        BY <1>3, <1>4, <1>5, <2>1
    <2>. QED
      BY <2>1, <2>2
  <1>6. Phi[f][d] = Phi[g][d]
    BY <1>5 DEF LooksDown
  <1>. QED
    BY <1>4, <1>6 DEF SolvesBelow

(* ... and together they are the solution.                                 *)
LEMMA NestedExists ==
    ASSUME NEW D, NEW rank \in [D -> Nat], NEW Good, NEW Phi,
           Results(D, Good) # {}, Phi \in [Results(D, Good) -> Results(D, Good)],
           LooksDown(D, Results(D, Good), rank, Phi)
    PROVE  \E f \in Results(D, Good) : f = Phi[f]
  <1> DEFINE F == Results(D, Good)
             Part(n) == CHOOSE f \in F : SolvesBelow(D, rank, Phi, f, n)
             G == [d \in D |-> Part(rank[d] + 1)[d]]
  <1>1. \A n \in Nat : Part(n) \in F /\ SolvesBelow(D, rank, Phi, Part(n), n)
    <2>1. \A n \in Nat : \E f \in F : SolvesBelow(D, rank, Phi, f, n)
      <3>. HIDE DEF F
      <3>1. Phi \in [F -> F] /\ LooksDown(D, F, rank, Phi) /\ F # {}
        BY DEF F
      <3>. QED
        BY <3>1, NestedBelow
    <2>. HIDE DEF F
    <2>. QED
      BY <2>1, Zenon
  <1>2. ASSUME NEW m \in Nat, NEW n \in Nat, NEW d \in D, rank[d] < m, rank[d] < n
        PROVE  Part(m)[d] = Part(n)[d]
    <2> DEFINE f == Part(m)
               g == Part(n)
    <2>1. /\ f \in F /\ SolvesBelow(D, rank, Phi, f, m)
          /\ g \in F /\ SolvesBelow(D, rank, Phi, g, n)
      BY <1>1
    <2>2. LooksDown(D, F, rank, Phi)
      OBVIOUS
    <2>. HIDE DEF f, g, F
    <2>3. \A e \in D : rank[e] < m /\ rank[e] < n => f[e] = g[e]
      BY <2>1, <2>2, NestedAgree
    <2>. QED
      BY <1>2, <2>3 DEF f, g
  <1>. HIDE DEF Part
  <1>3. G \in F
    <2>1. ASSUME NEW d \in D PROVE G[d] \in D /\ <<d, G[d]>> \in Good
      <3>1. rank[d] + 1 \in Nat
        OBVIOUS
      <3>2. Part(rank[d] + 1) \in F
        BY <1>1, <3>1
      <3>. QED
        BY <3>2 DEF Results
    <2>. QED
      BY <2>1 DEF Results
  <1>4. ASSUME NEW d \in D PROVE G[d] = Phi[G][d]
    <2>1. PICK n \in Nat : n = rank[d] + 1
      OBVIOUS
    <2>2. PICK f \in F : f = Part(n) /\ SolvesBelow(D, rank, Phi, f, n)
      BY <1>1
    <2>3. rank[d] \in Nat /\ rank[d] < n
      BY <2>1
    <2>4. ASSUME NEW e \in D, rank[e] < rank[d] PROVE f[e] = G[e]
      <3>1. rank[e] \in Nat /\ rank[e] + 1 \in Nat /\ rank[e] < n /\ rank[e] < rank[e] + 1
        BY <2>3, <2>4
      <3>2. Part(n)[e] = Part(rank[e] + 1)[e]
        BY <1>2, <3>1
      <3>. QED
        BY <2>2, <3>2
    <2>5. Phi[f][d] = Phi[G][d]
      <3>. HIDE DEF G
      <3>. QED
        BY <1>3, <2>4 DEF LooksDown
    <2>6. f[d] = Phi[f][d]
      BY <2>2, <2>3 DEF SolvesBelow
    <2>7. G[d] = f[d]
      BY <2>1, <2>2
    <2>. QED
      BY <2>5, <2>6, <2>7
  <1>5. G = Phi[G]
    <2>1. Phi[G] \in [D -> D] /\ G \in [D -> D]
      <3>. HIDE DEF G
      <3>1. Phi[G] \in F
        BY <1>3
      <3>. QED
        BY <1>3, <3>1 DEF Results
    <2>. HIDE DEF G
    <2>. QED
      BY <1>4, <2>1
  <1>. HIDE DEF G
  <1>. QED
    BY <1>3, <1>5

----------------------------------------------------------------------------
(* Sums.  SumFunctionOnSet takes the elements of a set one by one, as they *)
(* are chosen; the sum is the same in whatever order they are taken.       *)
PickFrom(s) == CHOOSE x \in s : TRUE
Adds(f, S)  == [g \in [SUBSET S -> Nat] |-> [s \in SUBSET S |->
                   IF s = {} THEN 0 ELSE f[PickFrom(s)] + g[s \ {PickFrom(s)}]]]
Solves(f, S, g) ==
    g = [s \in SUBSET S |-> IF s = {} THEN 0 ELSE f[PickFrom(s)] + g[s \ {PickFrom(s)}]]
Size(S)     == [s \in SUBSET S |-> Cardinality(s)]

(* The recursion has the one solution g. *)
OneSolution(f, S, g) ==
    /\ g \in [SUBSET S -> Nat]
    /\ \A h : Solves(f, S, h) <=> h = g
    /\ \A s \in SUBSET S : g[s] = IF s = {} THEN 0 ELSE f[PickFrom(s)] + g[s \ {PickFrom(s)}]

Summable(f, S) == IsFiniteSet(S) /\ \A x \in S : f[x] \in Nat

(* The sum is the value at the whole set of a solution of the recursion.   *)
LEMMA SumByChoice ==
    ASSUME NEW f, NEW S
    PROVE  SumFunctionOnSet(f, S) = (CHOOSE g : Solves(f, S, g))[S]
  BY Zenon DEF SumFunctionOnSet, FoldFunctionOnSet, MapThenFoldSet, Solves, PickFrom

(* The recursion goes down to smaller sets. *)
LEMMA AddsDown ==
    ASSUME NEW S, IsFiniteSet(S), NEW f, \A x \in S : f[x] \in Nat
    PROVE  /\ Size(S) \in [SUBSET S -> Nat]
           /\ \A s \in SUBSET S : s # {} =>
                 /\ PickFrom(s) \in s /\ s \ {PickFrom(s)} \in SUBSET S
                 /\ Size(S)[s \ {PickFrom(s)}] < Size(S)[s]
           /\ \A s \in SUBSET S : Size(S)[s] <= Cardinality(S)
           /\ Adds(f, S) \in [[SUBSET S -> Nat] -> [SUBSET S -> Nat]]
           /\ LooksDown(SUBSET S, [SUBSET S -> Nat], Size(S), Adds(f, S))
  <1>1. \A s \in SUBSET S : IsFiniteSet(s) /\ Cardinality(s) \in Nat /\ Cardinality(s) <= Cardinality(S)
    BY FS_Subset, FS_CardinalityType
  <1>2. Size(S) \in [SUBSET S -> Nat] /\ \A s \in SUBSET S : Size(S)[s] = Cardinality(s)
    BY <1>1 DEF Size
  <1>3. ASSUME NEW s \in SUBSET S, s # {}
        PROVE  /\ PickFrom(s) \in s /\ s \ {PickFrom(s)} \in SUBSET S
               /\ Size(S)[s \ {PickFrom(s)}] < Size(S)[s]
    <2>1. PickFrom(s) \in s
      BY <1>3 DEF PickFrom
    <2>2. PICK x \in s : x = PickFrom(s)
      BY <2>1
    <2>3. Cardinality(s \ {x}) = Cardinality(s) - 1
      BY <1>1, FS_RemoveElement
    <2>4. s \ {x} \in SUBSET S
      OBVIOUS
    <2>. QED
      BY <1>1, <1>2, <2>2, <2>3, <2>4
  <1>4. ASSUME NEW g \in [SUBSET S -> Nat]
        PROVE  Adds(f, S)[g] \in [SUBSET S -> Nat]
    <2>1. Adds(f, S)[g] = [s \in SUBSET S |->
                              IF s = {} THEN 0 ELSE f[PickFrom(s)] + g[s \ {PickFrom(s)}]]
      BY Zenon DEF Adds
    <2>2. ASSUME NEW s \in SUBSET S, s # {} PROVE f[PickFrom(s)] + g[s \ {PickFrom(s)}] \in Nat
      <3>1. f[PickFrom(s)] \in Nat
        BY <1>3, <2>2
      <3>2. g[s \ {PickFrom(s)}] \in Nat
        BY <1>3, <2>2
      <3>. QED
        BY <3>1, <3>2
    <2>. QED
      BY <2>1, <2>2
  <1>5. Adds(f, S) \in [[SUBSET S -> Nat] -> [SUBSET S -> Nat]]
    BY <1>4 DEF Adds
  <1>6. ASSUME NEW g \in [SUBSET S -> Nat], NEW h \in [SUBSET S -> Nat], NEW s \in SUBSET S,
               \A t \in SUBSET S : Size(S)[t] < Size(S)[s] => g[t] = h[t]
        PROVE  Adds(f, S)[g][s] = Adds(f, S)[h][s]
    <2>1. /\ Adds(f, S)[g][s] = IF s = {} THEN 0 ELSE f[PickFrom(s)] + g[s \ {PickFrom(s)}]
          /\ Adds(f, S)[h][s] = IF s = {} THEN 0 ELSE f[PickFrom(s)] + h[s \ {PickFrom(s)}]
      BY DEF Adds
    <2>. QED
      BY <1>3, <1>6, <2>1
  <1>. QED
    BY <1>1, <1>2, <1>3, <1>5, <1>6 DEF LooksDown

(* So there is one solution.                                               *)
LEMMA SumSolution ==
    ASSUME NEW S, NEW f, Summable(f, S)
    PROVE  \E g : OneSolution(f, S, g)
  <1>0. IsFiniteSet(S) /\ \A x \in S : f[x] \in Nat
    BY DEF Summable
  <1> DEFINE D   == SUBSET S
             F   == [D -> Nat]
             Phi == Adds(f, S)
             c   == Cardinality(S)
  <1>1. /\ Size(S) \in [D -> Nat] /\ Phi \in [F -> F] /\ LooksDown(D, F, Size(S), Phi)
        /\ \A s \in D : Size(S)[s] <= c
        /\ \A s \in D : s # {} => s \ {PickFrom(s)} \in D
    BY <1>0, AddsDown
  <1>2. c \in Nat /\ c + 1 \in Nat
    BY <1>0, FS_CardinalityType
  <1>3. F # {}
    <2>1. [s \in D |-> 0] \in F
      OBVIOUS
    <2>. QED
      BY <2>1
  <1>4. \A g \in F : Phi[g] = [s \in SUBSET S |->
                     IF s = {} THEN 0 ELSE f[PickFrom(s)] + g[s \ {PickFrom(s)}]]
    BY DEF Adds
  <1>. HIDE DEF Phi, F
  <1>5. PICK g \in F : SolvesBelow(D, Size(S), Phi, g, c + 1)
    <2>. HIDE DEF D, c
    <2>. QED
      BY <1>1, <1>2, <1>3, NestedBelow
  <1>6. ASSUME NEW s \in D PROVE g[s] = Phi[g][s]
    <2>1. Size(S)[s] < c + 1
      BY <1>1, <1>2
    <2>. QED
      BY <1>5, <2>1 DEF SolvesBelow
  <1>7. ASSUME NEW h, Solves(f, S, h) PROVE h = g
    <2> DEFINE R == {Size(S)[s] : s \in {t \in D : h[t] # g[t]}}
    <2>1. SUFFICES ASSUME R # {} PROVE FALSE
      <3>1. CASE R = {}
        <4>1. \A s \in D : h[s] = g[s]
          BY <3>1
        <4>2. h = [s \in D |-> h[s]] /\ g = [s \in D |-> g[s]]
          BY <1>7 DEF Solves, F
        <4>. QED
          BY <4>1, <4>2
      <3>. QED
        BY <3>1
    <2>2. R \in SUBSET Nat
      BY <1>1
    <2>3. PICK r \in R : \A n \in R : r <= n
      BY <2>1, <2>2, LeastExists
    <2>4. PICK s \in D : h[s] # g[s] /\ r = Size(S)[s]
      BY <2>3
    <2>5. h[s] = IF s = {} THEN 0 ELSE f[PickFrom(s)] + h[s \ {PickFrom(s)}]
      BY <1>7 DEF Solves
    <2>6. g[s] = IF s = {} THEN 0 ELSE f[PickFrom(s)] + g[s \ {PickFrom(s)}]
      BY <1>4, <1>6
    <2>7. s # {}
      BY <2>4, <2>5, <2>6
    <2>8. PICK t : t = s \ {PickFrom(s)}
      OBVIOUS
    <2>9. t \in D /\ Size(S)[t] < Size(S)[s]
      BY <1>0, <2>7, <2>8, AddsDown
    <2>10. Size(S)[t] \notin R
      <3>1. Size(S)[t] \in Nat /\ r \in Nat
        BY <1>1, <2>4, <2>9
      <3>. HIDE DEF R
      <3>. QED
        BY <2>3, <2>4, <2>9, <3>1
    <2>11. h[t] = g[t]
      BY <2>9, <2>10
    <2>. QED
      BY <2>4, <2>5, <2>6, <2>7, <2>8, <2>11
  <1>8. Solves(f, S, g)
    BY <1>4, <1>6 DEF Solves, F
  <1>9. \A s \in SUBSET S : g[s] = IF s = {} THEN 0 ELSE f[PickFrom(s)] + g[s \ {PickFrom(s)}]
    BY <1>4, <1>6
  <1>10. \A h : Solves(f, S, h) <=> h = g
    BY <1>7, <1>8
  <1>11. g \in [SUBSET S -> Nat]
    BY DEF F
  <1>. QED
    BY <1>9, <1>10, <1>11 DEF OneSolution

(* What is summed up does not depend on the order: any element may be the  *)
(* first.                                                                  *)
LEMMA SumTakes ==
    ASSUME NEW S, IsFiniteSet(S), NEW f, \A x \in S : f[x] \in Nat
    PROVE  /\ SumFunctionOnSet(f, S) \in Nat
           /\ S = {} => SumFunctionOnSet(f, S) = 0
           /\ \A x \in S : SumFunctionOnSet(f, S) = f[x] + SumFunctionOnSet(f, S \ {x})
  <1>0. Summable(f, S)
    BY DEF Summable
  <1>g. PICK g : OneSolution(f, S, g)
    BY <1>0, SumSolution
  <1>1. /\ g \in [SUBSET S -> Nat]
        /\ \A s \in SUBSET S : g[s] = IF s = {} THEN 0 ELSE f[PickFrom(s)] + g[s \ {PickFrom(s)}]
    BY <1>g DEF OneSolution
  <1>2. /\ Size(S) \in [SUBSET S -> Nat]
        /\ \A s \in SUBSET S : s # {} => PickFrom(s) \in s
    <2>1. \A s \in SUBSET S : IsFiniteSet(s) /\ Cardinality(s) \in Nat
      BY FS_Subset, FS_CardinalityType
    <2>2. Size(S) \in [SUBSET S -> Nat]
      BY <2>1 DEF Size
    <2>. QED
      BY <2>2 DEF PickFrom
  <1>3. ASSUME NEW s \in SUBSET S, NEW x \in s PROVE Size(S)[s \ {x}] < Size(S)[s]
    <2>1. IsFiniteSet(s) /\ Cardinality(s) \in Nat
      BY FS_Subset, FS_CardinalityType
    <2>2. Cardinality(s \ {x}) = Cardinality(s) - 1
      BY <2>1, FS_RemoveElement
    <2>. QED
      BY <2>1, <2>2 DEF Size
  <1>4. ASSUME NEW s \in SUBSET S, NEW x \in s PROVE g[s] = f[x] + g[s \ {x}]
    <2> DEFINE Bad(t) == \E y \in t : g[t] # f[y] + g[t \ {y}]
               R == {Size(S)[t] : t \in {u \in SUBSET S : Bad(u)}}
    <2>1. SUFFICES ASSUME R # {} PROVE FALSE
      BY <1>4
    <2>2. R \in SUBSET Nat
      BY <1>2
    <2>3. PICK r \in R : \A n \in R : r <= n
      <3>. HIDE DEF R
      <3>. QED
        BY <2>1, <2>2, LeastExists
    <2>4. PICK t \in SUBSET S : Bad(t) /\ r = Size(S)[t]
      BY <2>3
    <2>5. ASSUME NEW u \in SUBSET S, Size(S)[u] < Size(S)[t] PROVE ~Bad(u)
      <3>1. Size(S)[u] \in Nat /\ Size(S)[t] \in Nat
        BY <1>2
      <3>2. Size(S)[u] \notin R
        <4>. HIDE DEF R
        <4>. QED
          BY <2>3, <2>4, <2>5, <3>1
      <3>. QED
        BY <3>2
    <2>6. PICK y \in t : g[t] # f[y] + g[t \ {y}]
      BY <2>4
    <2>7. PICK c \in t : c = PickFrom(t)
      BY <1>2
    <2>8. g[t] = f[c] + g[t \ {c}] /\ c # y
      BY <1>1, <2>6, <2>7
    <2>9. g[t \ {c}] = f[y] + g[(t \ {c}) \ {y}]
      <3>1. t \ {c} \in SUBSET S /\ y \in t \ {c}
        BY <2>6, <2>8
      <3>2. ~Bad(t \ {c})
        BY <1>3, <2>5, <3>1
      <3>. QED
        BY <3>1, <3>2
    <2>10. g[t \ {y}] = f[c] + g[(t \ {y}) \ {c}]
      <3>1. t \ {y} \in SUBSET S /\ c \in t \ {y}
        BY <2>7, <2>8
      <3>2. ~Bad(t \ {y})
        BY <1>3, <2>5, <3>1
      <3>. QED
        BY <3>1, <3>2
    <2>11. PICK w \in SUBSET S : w = (t \ {c}) \ {y} /\ w = (t \ {y}) \ {c}
      <3>1. (t \ {c}) \ {y} = (t \ {y}) \ {c} /\ (t \ {c}) \ {y} \in SUBSET S
        OBVIOUS
      <3>. QED
        BY <3>1
    <2>12. f[c] \in Nat /\ f[y] \in Nat /\ g[w] \in Nat
      BY <1>1
    <2>13. g[t \ {c}] = f[y] + g[w] /\ g[t \ {y}] = f[c] + g[w]
      BY <2>9, <2>10, <2>11, Zenon
    <2>14. PICK m : m = g[t \ {y}]
      OBVIOUS
    <2>. HIDE DEF Bad, R
    <2>15. g[t] = f[c] + (f[y] + g[w]) /\ m = f[c] + g[w] /\ g[t] # f[y] + m
      BY <2>6, <2>8, <2>13, <2>14, Zenon
    <2>. QED
      BY <2>12, <2>15
  <1>5. ASSUME NEW s \in SUBSET S PROVE SumFunctionOnSet(f, s) = g[s]
    <2>1. IsFiniteSet(s)
      BY FS_Subset
    <2>2. PICK k : OneSolution(f, s, k)
      <3>1. Summable(f, s)
        BY <2>1 DEF Summable
      <3>. QED
        BY <3>1, SumSolution
    <2>3. PICK l : l = [t \in SUBSET s |-> g[t]]
      OBVIOUS
    <2>4. Solves(f, s, l)
      <3>1. ASSUME NEW t \in SUBSET s
            PROVE  l[t] = IF t = {} THEN 0 ELSE f[PickFrom(t)] + l[t \ {PickFrom(t)}]
        <4>1. t \in SUBSET S /\ t \ {PickFrom(t)} \in SUBSET s
          OBVIOUS
        <4>2. l[t] = g[t] /\ l[t \ {PickFrom(t)}] = g[t \ {PickFrom(t)}]
          BY <2>3, <4>1
        <4>. QED
          BY <1>1, <4>1, <4>2
      <3>2. l = [t \in SUBSET s |-> l[t]]
        BY <2>3
      <3>3. l = [t \in SUBSET s |-> IF t = {} THEN 0 ELSE f[PickFrom(t)] + l[t \ {PickFrom(t)}]]
        BY <3>1, <3>2
      <3>4. Solves(f, s, l) <=>
              l = [t \in SUBSET s |-> IF t = {} THEN 0 ELSE f[PickFrom(t)] + l[t \ {PickFrom(t)}]]
        BY DEF Solves
      <3>. QED
        BY <3>3, <3>4
    <2>5. (CHOOSE h : Solves(f, s, h)) = l
      <3>1. \A h : Solves(f, s, h) <=> h = k
        BY <2>2, Zenon DEF OneSolution
      <3>k. l = k
        BY <2>4, <3>1
      <3>2. \A h : Solves(f, s, h) <=> h = l
        BY <3>1, <3>k
      <3>. QED
        BY <3>2, Zenon
    <2>. QED
      BY <2>3, <2>5, SumByChoice, Zenon
  <1>. QED
    <2>1. SumFunctionOnSet(f, S) = g[S] /\ S \in SUBSET S
      BY <1>5
    <2>2. SumFunctionOnSet(f, S) \in Nat
      BY <1>1, <2>1
    <2>3. S = {} => SumFunctionOnSet(f, S) = 0
      BY <1>1, <2>1
    <2>4. ASSUME NEW x \in S PROVE SumFunctionOnSet(f, S) = f[x] + SumFunctionOnSet(f, S \ {x})
      <3>1. S \ {x} \in SUBSET S
        OBVIOUS
      <3>2. SumFunctionOnSet(f, S \ {x}) = g[S \ {x}]
        BY <1>5, <3>1
      <3>. QED
        BY <1>4, <2>1, <3>2
    <2>. QED
      BY <2>2, <2>3, <2>4

(* The sum over an interval. *)
LEMMA SumUpTo ==
    ASSUME NEW m \in Int, NEW n \in Int, NEW f, \A i \in m..n : f[i] \in Nat
    PROVE  /\ SumFunctionOnSet(f, m..n) \in Nat
           /\ n < m => SumFunctionOnSet(f, m..n) = 0
           /\ m <= n => SumFunctionOnSet(f, m..n) = SumFunctionOnSet(f, m..(n - 1)) + f[n]
  <1>1. IsFiniteSet(m..n)
    BY FS_Interval
  <1>2. m <= n => n \in m..n /\ (m..n) \ {n} = m..(n - 1)
    OBVIOUS
  <1>3. n < m => m..n = {}
    OBVIOUS
  <1>4. /\ SumFunctionOnSet(f, m..n) \in Nat
        /\ m..n = {} => SumFunctionOnSet(f, m..n) = 0
        /\ \A x \in m..n : SumFunctionOnSet(f, m..n) = f[x] + SumFunctionOnSet(f, (m..n) \ {x})
    BY <1>1, SumTakes
  <1>5. ASSUME m <= n
        PROVE  SumFunctionOnSet(f, m..n) = SumFunctionOnSet(f, m..(n - 1)) + f[n]
    <2>1. n \in m..n /\ SumFunctionOnSet(f, m..n) = f[n] + SumFunctionOnSet(f, m..(n - 1))
      BY <1>2, <1>4, <1>5
    <2>2. SumFunctionOnSet(f, m..(n - 1)) \in Nat
      <3>1. IsFiniteSet(m..(n - 1)) /\ \A x \in m..(n - 1) : f[x] \in Nat
        BY FS_Interval
      <3>. QED
        BY <3>1, SumTakes
    <2>. QED
      BY <2>1, <2>2
  <1>. QED
    BY <1>3, <1>4, <1>5


(* The sum depends on the values in the set alone.                         *)
LEMMA SumOfEqual ==
    ASSUME NEW S, IsFiniteSet(S), NEW f, \A x \in S : f[x] \in Nat,
           NEW g, \A x \in S : g[x] = f[x]
    PROVE  SumFunctionOnSet(g, S) = SumFunctionOnSet(f, S)
  <1>1. Summable(f, S) /\ Summable(g, S)
    BY DEF Summable
  <1>2. PICK k : OneSolution(f, S, k)
    BY <1>1, SumSolution
  <1>3. PICK l : OneSolution(g, S, l)
    BY <1>1, SumSolution
  <1>4. ASSUME NEW s \in SUBSET S
        PROVE  (IF s = {} THEN 0 ELSE g[PickFrom(s)] + l[s \ {PickFrom(s)}])
                  = IF s = {} THEN 0 ELSE f[PickFrom(s)] + l[s \ {PickFrom(s)}]
    <2>1. s # {} => PickFrom(s) \in s
      BY DEF PickFrom
    <2>. QED
      BY <2>1
  <1>5. Solves(g, S, l)
    BY <1>3, Zenon DEF OneSolution
  <1>6. Solves(f, S, l)
    BY <1>4, <1>5 DEF Solves
  <1>7. l = k
    BY <1>2, <1>6, Zenon DEF OneSolution
  <1>8. (CHOOSE h : Solves(f, S, h)) = k
    <2>1. \A h : Solves(f, S, h) <=> h = k
      BY <1>2, Zenon DEF OneSolution
    <2>. QED
      BY <2>1, Zenon
  <1>9. (CHOOSE h : Solves(g, S, h)) = l
    <2>1. \A h : Solves(g, S, h) <=> h = l
      BY <1>3, Zenon DEF OneSolution
    <2>. QED
      BY <2>1, Zenon
  <1>. QED
    BY <1>7, <1>8, <1>9, SumByChoice, Zenon

(* One more in a place makes the sum one more. *)
LEMMA SumOneMore ==
    ASSUME NEW S, IsFiniteSet(S), NEW f \in [S -> Nat], NEW g \in [S -> Nat],
           NEW t \in S, g[t] = f[t] + 1, \A x \in S \ {t} : g[x] = f[x]
    PROVE  SumFunction(f) \in Nat /\ SumFunction(g) = SumFunction(f) + 1
  <1>1. /\ DOMAIN f = S /\ DOMAIN g = S /\ g[t] = f[t] + 1 /\ f[t] \in Nat
        /\ \A x \in S \ {t} : g[x] = f[x]
        /\ \A x \in S : f[x] \in Nat /\ g[x] \in Nat
    OBVIOUS
  <1>2. SumFunction(f) = SumFunctionOnSet(f, S) /\ SumFunction(g) = SumFunctionOnSet(g, S)
    BY <1>1, Zenon DEF SumFunction
  <1>3. SumFunctionOnSet(f, S) = f[t] + SumFunctionOnSet(f, S \ {t})
    BY <1>1, SumTakes
  <1>4. SumFunctionOnSet(g, S) = g[t] + SumFunctionOnSet(g, S \ {t})
    BY <1>1, SumTakes
  <1>5. PICK R : R = S \ {t}
    OBVIOUS
  <1>6. IsFiniteSet(R) /\ \A x \in R : f[x] \in Nat /\ g[x] = f[x]
    BY <1>1, <1>5, FS_Subset
  <1>7. SumFunctionOnSet(g, R) = SumFunctionOnSet(f, R) /\ SumFunctionOnSet(f, R) \in Nat
    <2>1. SumFunctionOnSet(g, R) = SumFunctionOnSet(f, R)
      BY <1>6, SumOfEqual
    <2>2. SumFunctionOnSet(f, R) \in Nat
      BY <1>6, SumTakes
    <2>. QED
      BY <2>1, <2>2
  <1>8. PICK r \in Nat : r = SumFunctionOnSet(f, R)
    BY <1>7
  <1>9. SumFunction(f) = f[t] + r /\ SumFunction(g) = g[t] + r
    BY <1>2, <1>3, <1>4, <1>5, <1>7, <1>8, Zenon
  <1>. QED
    BY <1>1, <1>9

=============================================================================
