------------------------- MODULE BufferCacheProofs -------------------------
(***************************************************************************)
(* The invariants of the buffer cache, and that it implements the cache of *)
(* three partitions, for any blocks, cache size, number of lists and       *)
(* division into segments.                                                 *)
(*                                                                         *)
(* First, what the operations do to the lists: which buffers they move,    *)
(* that they lose none, and that they keep the order of the other          *)
(* references.  A place is a list's number and an index in the list.  An   *)
(* operation is described by where each place of the new lists comes from; *)
(* places that come from different places in the same order keep what      *)
(* matters, however many lists the operation passes through.  Then the     *)
(* operations are put together to what pgref does.                         *)
(***************************************************************************)
EXTENDS BufferCache, NaturalSets, SequenceTheorems

(* The numbers of the lists. *)
LEMMA ListNumbers ==
    /\ NUMofLRUSEGs \in Nat /\ NUMofLRUSEGs >= 2
    /\ SEQMRU = 0 /\ FREEMRU = 1 /\ OTHLRU0 = 2 /\ OTHLRU1 = 3
    /\ LastSeg = NUMofLRUSEGs + 1 /\ FREEGHOST = NUMofLRUSEGs + 2
    /\ GHOSTLRU0 = NUMofLRUSEGs + 3 /\ LastGhost = 2 * NUMofLRUSEGs + 2
    /\ Lists = 0..(2 * NUMofLRUSEGs + 2)
    /\ Segments = 2..(NUMofLRUSEGs + 1)
    /\ GhostSegs = (NUMofLRUSEGs + 3)..(2 * NUMofLRUSEGs + 2)
    /\ LOOPQUEUE = 2 * NUMofLRUSEGs + 3
  BY CacheAssumption, SMT DEF SEQMRU, FREEMRU, OTHLRU0, OTHLRU1, LastSeg, FREEGHOST, GHOSTLRU0,
       LastGhost, Lists, Segments, GhostSegs, LOOPQUEUE, MAXLRU, REALLRU

----------------------------------------------------------------------------
(* Places in the lists.                                                    *)
ListsType == [Lists -> Seq(Blocks)]
Places(L) == {p \in Lists \X (Nat \ {0}) : p[2] <= Len(L[p[1]])}
At(L, p)  == L[p[1]][p[2]]
Lex(p, q) == p[1] < q[1] \/ (p[1] = q[1] /\ p[2] < q[2])

(* No block is in two places. *)
Distinct(L) == \A p, q \in Places(L) : At(L, p) = At(L, q) => p = q

(* The blocks in the lists S, and which of them are in front of which; the *)
(* order of the segments.                                                  *)
Held(L, S) == {At(L, p) : p \in {q \in Places(L) : q[1] \in S}}
Ranked(L, S) ==
    {pr \in Held(L, S) \X Held(L, S) :
        \E p, q \in Places(L) :
            p[1] \in S /\ q[1] \in S /\ Lex(p, q) /\ pr = <<At(L, p), At(L, q)>>}
Order(L) == Ranked(L, Segments)

(* What it means to be a place of the lists. *)
LEMMA PlaceType ==
    ASSUME NEW L \in ListsType, NEW p \in Places(L)
    PROVE  /\ p = <<p[1], p[2]>> /\ p[1] \in Lists /\ p[1] \in Nat
           /\ p[2] \in 1..Len(L[p[1]]) /\ p[2] \in Nat
           /\ L[p[1]] \in Seq(Blocks) /\ Len(L[p[1]]) \in Nat /\ At(L, p) \in Blocks
  <1>1. p = <<p[1], p[2]>> /\ p[1] \in Lists /\ p[2] \in Nat \ {0} /\ p[2] <= Len(L[p[1]])
    BY DEF Places
  <1>2. p[1] \in Nat
    BY <1>1, ListNumbers
  <1>3. L[p[1]] \in Seq(Blocks)
    BY <1>1 DEF ListsType
  <1>4. Len(L[p[1]]) \in Nat
    BY <1>3
  <1>5. p[2] \in 1..Len(L[p[1]])
    BY <1>1, <1>4
  <1>6. At(L, p) \in Blocks
    BY <1>3, <1>5 DEF At
  <1>. QED
    BY <1>1, <1>2, <1>3, <1>4, <1>5, <1>6

(* Every entry of a list has its place. *)
LEMMA PlaceIntro ==
    ASSUME NEW L \in ListsType, NEW t \in Lists, NEW i \in 1..Len(L[t])
    PROVE  <<t, i>> \in Places(L) /\ At(L, <<t, i>>) = L[t][i]
  <1>1. Len(L[t]) \in Nat
    BY DEF ListsType
  <1>. QED
    BY <1>1 DEF Places, At

(* The buffers at the places out leave the lists, and the others keep their *)
(* order; they move between lists of R only.  The buffer that is at place p *)
(* then was at place src[p].                                               *)
Rearranged(L, K, R, out, src) ==
    /\ \A p \in Places(K) : src[p] \in Places(L) \ out /\ At(K, p) = At(L, src[p])
    /\ \A q \in Places(L) \ out : \E p \in Places(K) : src[p] = q
    /\ \A p, q \in Places(K) : Lex(p, q) => Lex(src[p], src[q])
    /\ \A p \in Places(K) : p[1] = src[p][1] \/ (p[1] \in R /\ src[p][1] \in R)

Whole(S, R) == R \subseteq S \/ R \cap S = {}
Gone(L, out)    == {At(L, q) : q \in out}
Without(ord, B) == {pr \in ord : pr[1] \notin B /\ pr[2] \notin B}

(* A rearrangement of some lists that drops the places `out' keeps every   *)
(* other block once, changes what lists hold by the dropped blocks only,   *)
(* and keeps the order in the lists.                                       *)
LEMMA RearrangedKeeps ==
    ASSUME NEW L \in ListsType, NEW K \in ListsType, NEW R, NEW src,
           NEW out \in SUBSET Places(L), Distinct(L), Rearranged(L, K, R, out, src)
    PROVE  /\ Distinct(K)
           /\ \A S : Whole(S, R) => Held(K, S) = Held(L, S) \ Gone(L, out)
           /\ \A S : Whole(S, R) => Ranked(K, S) = Without(Ranked(L, S), Gone(L, out))
  <1>1. \A p \in Places(K), q \in Places(K) : p = q \/ Lex(p, q) \/ Lex(q, p)
    BY PlaceType, SMT DEF Lex
  <1>2. \A p \in Places(L), q \in Places(L) : Lex(p, q) => p # q /\ ~Lex(q, p)
    BY PlaceType, SMT DEF Lex
  <1>3. Distinct(K)
    <2>. SUFFICES ASSUME NEW p \in Places(K), NEW q \in Places(K), At(K, p) = At(K, q)
                  PROVE  p = q
      BY DEF Distinct
    <2>1. src[p] = src[q]
      BY DEF Rearranged, Distinct
    <2>. QED
      BY <1>1, <1>2, <2>1 DEF Rearranged
  <1>b. \A q \in Places(L) : At(L, q) \in Gone(L, out) <=> q \in out
    BY DEF Distinct, Gone
  <1>4. ASSUME NEW S, Whole(S, R) PROVE Held(K, S) = Held(L, S) \ Gone(L, out)
    <2>1. \A p \in Places(K) : p[1] \in S <=> src[p][1] \in S
      BY <1>4 DEF Rearranged, Whole
    <2>2. ASSUME NEW x \in Held(K, S) PROVE x \in Held(L, S) \ Gone(L, out)
      <3>1. PICK p \in Places(K) : p[1] \in S /\ x = At(K, p)
        BY DEF Held
      <3>2. src[p] \in Places(L) /\ src[p] \notin out /\ x = At(L, src[p]) /\ src[p][1] \in S
        BY <3>1, <2>1 DEF Rearranged
      <3>. QED
        BY <3>2, <1>b DEF Held
    <2>3. ASSUME NEW x \in Held(L, S) \ Gone(L, out) PROVE x \in Held(K, S)
      <3>1. PICK q \in Places(L) : q[1] \in S /\ x = At(L, q)
        BY DEF Held
      <3>2. PICK p \in Places(K) : src[p] = q
        BY <3>1, <1>b DEF Rearranged
      <3>. QED
        BY <3>1, <3>2, <2>1 DEF Held, Rearranged
    <2>. QED
      BY <2>2, <2>3
  <1>5. ASSUME NEW S, Whole(S, R)
        PROVE  Ranked(K, S) = Without(Ranked(L, S), Gone(L, out))
    <2>1. \A p \in Places(K) : p[1] \in S <=> src[p][1] \in S
      BY <1>5 DEF Rearranged, Whole
    <2>2. Held(K, S) = Held(L, S) \ Gone(L, out)
      BY <1>4, <1>5
    <2>3. ASSUME NEW pr \in Ranked(K, S) PROVE pr \in Without(Ranked(L, S), Gone(L, out))
      <3>1. PICK p \in Places(K), q \in Places(K) :
               p[1] \in S /\ q[1] \in S /\ Lex(p, q) /\ pr = <<At(K, p), At(K, q)>>
        BY DEF Ranked
      <3>2. /\ src[p] \in Places(L) /\ src[q] \in Places(L) /\ Lex(src[p], src[q])
            /\ At(K, p) = At(L, src[p]) /\ At(K, q) = At(L, src[q])
            /\ src[p][1] \in S /\ src[q][1] \in S
        BY <2>1, <3>1 DEF Rearranged
      <3>3. pr \in Held(K, S) \X Held(K, S)
        BY DEF Ranked
      <3>. QED
        BY <2>2, <3>1, <3>2, <3>3 DEF Ranked, Without
    <2>4. ASSUME NEW pr \in Without(Ranked(L, S), Gone(L, out)) PROVE pr \in Ranked(K, S)
      <3>1. PICK p \in Places(L), q \in Places(L) :
               p[1] \in S /\ q[1] \in S /\ Lex(p, q) /\ pr = <<At(L, p), At(L, q)>>
        BY DEF Ranked, Without
      <3>a. p \notin out /\ q \notin out
        BY <1>b, <3>1 DEF Without
      <3>2. PICK a \in Places(K) : src[a] = p
        BY <3>a DEF Rearranged
      <3>3. PICK c \in Places(K) : src[c] = q
        BY <3>a DEF Rearranged
      <3>4. a # c /\ ~Lex(c, a)
        BY <1>2, <3>1, <3>2, <3>3 DEF Rearranged
      <3>5. Lex(a, c)
        BY <1>1, <3>4
      <3>6. At(K, a) = At(L, p) /\ At(K, c) = At(L, q) /\ a[1] \in S /\ c[1] \in S
        BY <2>1, <3>1, <3>2, <3>3 DEF Rearranged
      <3>7. At(K, a) \in Held(K, S) /\ At(K, c) \in Held(K, S)
        BY <3>6 DEF Held
      <3>. QED
        BY <3>1, <3>5, <3>6, <3>7 DEF Ranked
    <2>. QED
      BY <2>3, <2>4
  <1>. QED
    BY <1>3, <1>4, <1>5

If(t, S, b) == IF t \in S THEN {b} ELSE {}
Inserted(L, t, b) == [L EXCEPT ![t] = <<b>> \o @]

(* The pairs of the lists S that b is in when it is the first of list t.   *)
AtFront(L, S, t, b) ==
    ({b} \X Held(L, {u \in S : t <= u})) \cup (Held(L, {u \in S : u < t}) \X {b})

(* A buffer that is in none of the lists comes to the front of list t.     *)
LEMMA InsertedKeeps ==
    ASSUME NEW L \in ListsType, NEW t \in Lists, NEW b \in Blocks \ Held(L, Lists),
           NEW K, K = Inserted(L, t, b), Distinct(L)
    PROVE  /\ K \in ListsType /\ Distinct(K)
           /\ \A S : Held(K, S) = Held(L, S) \cup If(t, S, b)
           /\ \A S : t \notin S => Ranked(K, S) = Ranked(L, S)
           /\ \A S : Ranked(K, S) \subseteq Ranked(L, S) \cup AtFront(L, S, t, b)
           /\ t = OTHLRU0 => Order(K) = Order(L) \cup ({b} \X Held(L, Segments))
  <1>1. /\ K \in ListsType /\ \A u \in Lists \ {t} : K[u] = L[u]
        /\ Len(K[t]) = Len(L[t]) + 1 /\ K[t][1] = b
        /\ \A i \in 1..Len(L[t]) : K[t][i + 1] = L[t][i]
    <2>1. L[t] \in Seq(Blocks) /\ <<b>> \in Seq(Blocks) /\ Len(<<b>>) = 1 /\ <<b>>[1] = b
      BY DEF ListsType
    <2>2. /\ <<b>> \o L[t] \in Seq(Blocks) /\ Len(<<b>> \o L[t]) = 1 + Len(L[t])
          /\ \A i \in 1..(1 + Len(L[t])) :
                (<<b>> \o L[t])[i] = IF i <= 1 THEN <<b>>[i] ELSE L[t][i - 1]
      BY <2>1, ConcatProperties, ZenonT(30)
    <2>3. Len(L[t]) \in Nat
      BY <2>1
    <2>4. K[t] = <<b>> \o L[t] /\ \A u \in Lists \ {t} : K[u] = L[u]
      BY DEF ListsType, Inserted
    <2>5. \A i \in 1..Len(L[t]) : i + 1 \in 1..(1 + Len(L[t])) /\ ~(i + 1 <= 1) /\ i + 1 - 1 = i
      BY <2>3
    <2>6. K \in ListsType
      BY <2>2 DEF ListsType, Inserted
    <2>. QED
      BY <2>1, <2>2, <2>3, <2>4, <2>5, <2>6
  <1> DEFINE f == <<t, 1>>
             src == [p \in Places(L) |-> IF p[1] = t THEN <<t, p[2] + 1>> ELSE p]
  <1>2. f \in Places(K) /\ At(K, f) = b
    <2>1. Len(L[t]) \in Nat
      BY DEF ListsType
    <2>2. 1 \in 1..Len(K[t])
      BY <1>1, <2>1
    <2>3. <<t, 1>> \in Places(K) /\ At(K, <<t, 1>>) = K[t][1]
      BY <1>1, <2>1, <2>2 DEF Places, At
    <2>. QED
      BY <1>1, <2>3
  <1>3. \A p \in Places(L) : src[p] \in Places(K) \ {f} /\ At(L, p) = At(K, src[p])
    <2>. SUFFICES ASSUME NEW p \in Places(L)
                  PROVE  src[p] \in Places(K) \ {f} /\ At(L, p) = At(K, src[p])
      OBVIOUS
    <2>1. p = <<p[1], p[2]>> /\ p[1] \in Lists /\ p[2] \in 1..Len(L[p[1]]) /\ Len(L[p[1]]) \in Nat
      BY PlaceType
    <2>2. CASE p[1] = t
      <3>1. p[2] + 1 \in 1..Len(K[t]) /\ p[2] + 1 # 1
        BY <1>1, <2>1, <2>2
      <3>2. <<t, p[2] + 1>> \in Places(K) /\ At(K, <<t, p[2] + 1>>) = K[t][p[2] + 1]
        BY <1>1, <3>1, PlaceIntro, Zenon
      <3>. QED
        BY <1>1, <2>1, <2>2, <3>1, <3>2 DEF At
    <2>3. CASE p[1] # t
      <3>1. K[p[1]] = L[p[1]]
        BY <1>1, <2>1, <2>3
      <3>a. K \in ListsType /\ p[1] \in Lists /\ p[2] \in 1..Len(K[p[1]])
        BY <1>1, <2>1, <3>1
      <3>2. <<p[1], p[2]>> \in Places(K) /\ At(K, <<p[1], p[2]>>) = K[p[1]][p[2]]
        BY <3>a, PlaceIntro, Zenon
      <3>3. p # f
        BY <2>3
      <3>. QED
        BY <2>1, <2>3, <3>1, <3>2, <3>3 DEF At
    <2>. QED
      BY <2>2, <2>3
  <1>4. \A q \in Places(K) \ {f} : \E p \in Places(L) : src[p] = q
    <2>. SUFFICES ASSUME NEW q \in Places(K) \ {f} PROVE \E p \in Places(L) : src[p] = q
      OBVIOUS
    <2>1. q = <<q[1], q[2]>> /\ q[1] \in Lists /\ q[2] \in 1..Len(K[q[1]]) /\ Len(K[q[1]]) \in Nat
      BY <1>1, PlaceType
    <2>2. CASE q[1] = t
      <3>1. q[2] - 1 \in 1..Len(L[t])
        BY <1>1, <2>1, <2>2, LenProperties DEF ListsType
      <3>2. <<t, q[2] - 1>> \in Places(L) /\ src[<<t, q[2] - 1>>] = q
        BY <2>1, <2>2, <3>1, PlaceIntro
      <3>. QED
        BY <3>2
    <2>3. CASE q[1] # t
      BY <1>1, <2>1, <2>3, PlaceIntro
    <2>. QED
      BY <2>2, <2>3
  <1>5. \A p \in Places(L), q \in Places(L) : Lex(p, q) => Lex(src[p], src[q])
    BY PlaceType, SMT DEF Lex
  <1>6. \A p \in Places(L) : src[p][1] = p[1]
    OBVIOUS
  <1>f. f[1] = t /\ f[2] = 1
    OBVIOUS
  <1>. HIDE DEF src, f
  <1>7. Distinct(K)
    <2>1. \A q \in Places(K) \ {f} : At(K, q) # b
      <3>. SUFFICES ASSUME NEW q \in Places(K) \ {f} PROVE At(K, q) # b
        OBVIOUS
      <3>1. PICK p \in Places(L) : src[p] = q
        BY <1>4
      <3>2. At(K, q) = At(L, p) /\ p[1] \in Lists
        BY <1>3, <3>1, PlaceType
      <3>. QED
        BY <3>2 DEF Held
    <2>2. ASSUME NEW p \in Places(K) \ {f}, NEW q \in Places(K) \ {f}, At(K, p) = At(K, q)
          PROVE  p = q
      <3>1. PICK a \in Places(L) : src[a] = p
        BY <1>4
      <3>2. PICK c \in Places(L) : src[c] = q
        BY <1>4
      <3>3. At(L, a) = At(L, c)
        BY <1>3, <2>2, <3>1, <3>2
      <3>. QED
        BY <3>1, <3>2, <3>3 DEF Distinct
    <2>3. ASSUME NEW p \in Places(K), NEW q \in Places(K), At(K, p) = At(K, q), p # q PROVE FALSE
      BY <1>2, <2>1, <2>2, <2>3
    <2>. QED
      BY <2>3 DEF Distinct
  <1>8. Rearranged(K, L, {}, {f}, src)
    BY <1>3, <1>4, <1>5, <1>6 DEF Rearranged
  <1>9. /\ \A S : Held(L, S) = Held(K, S) \ {b}
        /\ \A S : Ranked(L, S) = Without(Ranked(K, S), {b})
    <2>1. \A S : Whole(S, {})
      BY DEF Whole
    <2>2. Gone(K, {f}) = {b}
      BY <1>2 DEF Gone
    <2>3. {f} \in SUBSET Places(K) /\ K \in ListsType
      BY <1>1, <1>2
    <2>4. \A S : Whole(S, {}) => Held(L, S) = Held(K, S) \ Gone(K, {f})
      BY <2>3, <1>7, <1>8, RearrangedKeeps
    <2>5. \A S : Whole(S, {}) => Ranked(L, S) = Without(Ranked(K, S), Gone(K, {f}))
      BY <2>3, <1>7, <1>8, RearrangedKeeps
    <2>. QED
      BY <2>1, <2>2, <2>4, <2>5
  <1>10. \A S : b \in Held(K, S) <=> t \in S
    <2>1. \A p \in Places(K) : At(K, p) = b <=> p = f
      BY <1>2, <1>7 DEF Distinct
    <2>2. ASSUME NEW S PROVE b \in Held(K, S) <=> t \in S
      <3>1. b \in Held(K, S) => t \in S
        BY <1>f, <2>1 DEF Held
      <3>2. t \in S => b \in Held(K, S)
        BY <1>2, <1>f DEF Held
      <3>. QED
        BY <3>1, <3>2
    <2>. QED
      BY <2>2
  <1>11. \A S : Held(K, S) = Held(L, S) \cup If(t, S, b)
    <2>1. ASSUME NEW S PROVE Held(K, S) = Held(L, S) \cup If(t, S, b)
      <3>1. Held(L, S) = Held(K, S) \ {b} /\ (b \in Held(K, S) <=> t \in S)
        BY <1>9, <1>10
      <3>. QED
        BY <3>1 DEF If
    <2>. QED
      BY <2>1
  <1>12. ASSUME NEW S, t \notin S PROVE Ranked(K, S) = Ranked(L, S)
    <2>1. \A pr \in Ranked(K, S) : pr[1] # b /\ pr[2] # b
      BY <1>10, <1>12 DEF Ranked
    <2>. QED
      BY <1>9, <2>1 DEF Without
  <1>14. ASSUME NEW S, NEW pr \in Ranked(K, S), pr \notin Ranked(L, S)
         PROVE  pr \in AtFront(L, S, t, b)
    <2>1. PICK p \in Places(K), q \in Places(K) :
             p[1] \in S /\ q[1] \in S /\ Lex(p, q) /\ pr = <<At(K, p), At(K, q)>>
      BY DEF Ranked
    <2>2. b \in {pr[1], pr[2]}
      BY <1>9, <1>14 DEF Without
    <2>3. /\ p[1] \in Nat /\ p[2] \in Nat /\ p[2] >= 1 /\ q[1] \in Nat /\ q[2] \in Nat /\ q[2] >= 1
          /\ t \in Nat
      <3>1. /\ p[1] \in Nat /\ p[2] \in 1..Len(K[p[1]]) /\ Len(K[p[1]]) \in Nat
            /\ q[1] \in Nat /\ q[2] \in 1..Len(K[q[1]]) /\ Len(K[q[1]]) \in Nat
        BY <1>1, <2>1, PlaceType
      <3>2. t \in Nat
        BY ListNumbers
      <3>. QED
        BY <3>1, <3>2
    <2>4. p # q
      BY <2>1, <2>3 DEF Lex
    <2>5. \A a \in Places(K) : At(K, a) = b <=> a = f
      BY <1>2, <1>7 DEF Distinct
    <2>6. CASE p = f
      <3>1. t <= q[1] /\ pr[1] = b /\ At(K, q) # b
        BY <1>f, <2>1, <2>3, <2>4, <2>5, <2>6 DEF Lex
      <3>2. At(K, q) \in Held(K, {u \in S : t <= u})
        BY <2>1, <3>1 DEF Held
      <3>3. At(K, q) \in Held(L, {u \in S : t <= u})
        BY <1>9, <3>1, <3>2
      <3>. QED
        BY <2>1, <3>1, <3>3 DEF AtFront
    <2>7. CASE q = f
      <3>1. p[1] < t /\ pr[2] = b /\ At(K, p) # b
        BY <1>f, <2>1, <2>3, <2>4, <2>5, <2>7 DEF Lex
      <3>2. At(K, p) \in Held(K, {u \in S : u < t})
        BY <2>1, <3>1 DEF Held
      <3>3. At(K, p) \in Held(L, {u \in S : u < t})
        BY <1>9, <3>1, <3>2
      <3>. QED
        BY <2>1, <3>1, <3>3 DEF AtFront
    <2>. QED
      BY <2>1, <2>2, <2>5, <2>6, <2>7
  <1>15. \A S : Ranked(K, S) \subseteq Ranked(L, S) \cup AtFront(L, S, t, b)
    BY <1>14
  <1>13. ASSUME t = OTHLRU0 PROVE Order(K) = Order(L) \cup ({b} \X Held(L, Segments))
    <2>0. t \in Segments
      BY <1>13, ListNumbers
    <2>1. ASSUME NEW pr \in Order(K), b \in {pr[1], pr[2]} PROVE pr \in {b} \X Held(L, Segments)
      <3>1. PICK p \in Places(K), q \in Places(K) :
               p[1] \in Segments /\ q[1] \in Segments /\ Lex(p, q) /\ pr = <<At(K, p), At(K, q)>>
        BY DEF Order, Ranked
      <3>2. q # f
        BY <1>1, <1>f, <1>13, <3>1, PlaceType, ListNumbers DEF Lex
      <3>3. At(K, q) # b
        BY <1>2, <1>7, <3>2 DEF Distinct
      <3>4. At(K, p) = b
        BY <2>1, <3>1, <3>3
      <3>a. At(K, q) \in Held(K, Segments)
        BY <3>1 DEF Held
      <3>5. At(K, q) \in Held(L, Segments)
        BY <1>9, <3>a, <3>3
      <3>. QED
        BY <3>1, <3>4, <3>5
    <2>2. ASSUME NEW x \in Held(L, Segments) PROVE <<b, x>> \in Order(K)
      <3>1. x \in Held(K, Segments) /\ x # b
        BY <1>9
      <3>2. PICK q \in Places(K) : q[1] \in Segments /\ x = At(K, q)
        BY <3>1 DEF Held
      <3>3. q # f
        BY <1>2, <3>1, <3>2
      <3>a. /\ q = <<q[1], q[2]>> /\ q[1] \in Nat /\ q[2] \in Nat /\ q[2] >= 1 /\ q[1] >= 2
            /\ f = <<2, 1>> /\ f[1] = 2
        <4>1. q = <<q[1], q[2]>> /\ q[1] \in Nat /\ q[2] \in 1..Len(K[q[1]]) /\ Len(K[q[1]]) \in Nat
          BY <1>1, PlaceType
        <4>. QED
          BY <4>1, <1>13, <3>2, ListNumbers DEF f
      <3>4. Lex(f, q)
        BY <1>f, <3>3, <3>a DEF Lex
      <3>5. b \in Held(K, Segments)
        BY <1>10, <2>0
      <3>. QED
        BY <1>2, <1>f, <1>13, <2>0, <3>1, <3>2, <3>4, <3>5 DEF Order, Ranked
    <2>3. ASSUME NEW pr \in Order(K) PROVE pr \in Order(L) \cup ({b} \X Held(L, Segments))
      <3>1. CASE b \in {pr[1], pr[2]}
        BY <2>1, <3>1
      <3>2. CASE b \notin {pr[1], pr[2]}
        BY <1>9, <3>2 DEF Order, Without
      <3>. QED
        BY <3>1, <3>2
    <2>4. ASSUME NEW pr \in {b} \X Held(L, Segments) PROVE pr \in Order(K)
      <3>1. PICK x \in Held(L, Segments) : pr = <<b, x>>
        OBVIOUS
      <3>. QED
        BY <2>2, <3>1
    <2>5. \A pr \in Order(L) : pr \in Order(K)
      BY <1>9 DEF Order, Without
    <2>6. Order(K) \subseteq Order(L) \cup ({b} \X Held(L, Segments))
      BY <2>3
    <2>7. Order(L) \cup ({b} \X Held(L, Segments)) \subseteq Order(K)
      BY <2>4, <2>5
    <2>. QED
      BY <2>6, <2>7
  <1>. QED
    BY <1>1, <1>7, <1>11, <1>12, <1>13, <1>15

(* Held is what the model's BlocksIn is about.                             *)
LEMMA HeldInLists ==
    ASSUME NEW L \in ListsType, NEW S \in SUBSET Lists
    PROVE  /\ Held(L, S) = UNION {ToSet(L[t]) : t \in S}
           /\ \A t \in S : \A i \in 1..Len(L[t]) : L[t][i] \in Held(L, S)
           /\ Held(L, S) \subseteq Blocks
  <1>1. ASSUME NEW x \in Held(L, S) PROVE x \in UNION {ToSet(L[t]) : t \in S} /\ x \in Blocks
    <2>1. PICK p \in Places(L) : p[1] \in S /\ x = At(L, p)
      BY DEF Held
    <2>2. p[2] \in DOMAIN L[p[1]] /\ x \in Blocks
      BY <2>1, PlaceType
    <2>3. x \in ToSet(L[p[1]])
      <3>1. p[2] \in DOMAIN L[p[1]] /\ x = L[p[1]][p[2]]
        BY <2>1, <2>2 DEF At
      <3>. HIDE DEF At
      <3>. QED
        BY <3>1, Zenon DEF ToSet
    <2>. QED
      BY <2>1, <2>2, <2>3, Zenon
  <1>2. ASSUME NEW t \in S, NEW i \in 1..Len(L[t]) PROVE L[t][i] \in Held(L, S)
    BY PlaceIntro, ZenonT(40) DEF Held
  <1>3. ASSUME NEW x \in UNION {ToSet(L[t]) : t \in S} PROVE x \in Held(L, S)
    <2>1. PICK t \in S : x \in ToSet(L[t])
      OBVIOUS
    <2>2. DOMAIN L[t] = 1..Len(L[t])
      BY DEF ListsType
    <2>. QED
      BY <1>2, <2>1, <2>2 DEF ToSet
  <1>. QED
    BY <1>1, <1>2, <1>3

(* What two groups of lists hold together. *)
LEMMA HeldUnion ==
    ASSUME NEW L \in ListsType, NEW S, NEW T
    PROVE  /\ Held(L, S \cup T) = Held(L, S) \cup Held(L, T)
           /\ Held(L, S) \subseteq Held(L, Lists)
           /\ Distinct(L) /\ S \cap T = {} => Held(L, S) \cap Held(L, T) = {}
  <1>1. Held(L, S \cup T) = Held(L, S) \cup Held(L, T)
    BY DEF Held
  <1>2. Held(L, S) \subseteq Held(L, Lists)
    BY PlaceType DEF Held
  <1>3. ASSUME Distinct(L), S \cap T = {}, NEW x \in Held(L, S) \cap Held(L, T) PROVE FALSE
    <2>1. PICK p \in Places(L) : p[1] \in S /\ x = At(L, p)
      BY <1>3 DEF Held
    <2>2. PICK q \in Places(L) : q[1] \in T /\ x = At(L, q)
      BY <1>3 DEF Held
    <2>. QED
      BY <1>3, <2>1, <2>2 DEF Distinct
  <1>. QED
    BY <1>1, <1>2, <1>3

(* A list holds finitely many blocks. *)
LEMMA HeldFinite ==
    ASSUME NEW L \in ListsType
    PROVE  /\ \A t \in Lists : IsFiniteSet(Held(L, {t})) /\ Cardinality(Held(L, {t})) <= Len(L[t])
           /\ \A S : IsFiniteSet(Held(L, S))
  <1>1. ASSUME NEW t \in Lists
        PROVE  IsFiniteSet(Held(L, {t})) /\ Cardinality(Held(L, {t})) <= Len(L[t])
    <2> DEFINE f == [i \in 1..Len(L[t]) |-> L[t][i]]
    <2>1. Len(L[t]) \in Nat
      BY DEF ListsType
    <2>2. \A i \in 1..Len(L[t]) : f[i] \in Held(L, {t})
      BY HeldInLists
    <2>3. ASSUME NEW x \in Held(L, {t}) PROVE \E i \in 1..Len(L[t]) : f[i] = x
      BY PlaceType DEF Held, At
    <2>4. f \in Surjection(1..Len(L[t]), Held(L, {t}))
      BY <2>2, <2>3 DEF Surjection
    <2>5. IsFiniteSet(1..Len(L[t])) /\ Cardinality(1..Len(L[t])) = Len(L[t])
      BY <2>1, FS_Interval
    <2>. QED
      BY <2>4, <2>5, FS_Surjection
  <1>2. IsFiniteSet(Held(L, Lists))
    <2> DEFINE g == [t \in Lists |-> Held(L, {t})]
               HH == {Held(L, {t}) : t \in Lists}
    <2>1. IsFiniteSet(Lists)
      BY ListNumbers, FS_Interval
    <2>2. g \in Surjection(Lists, HH)
      BY DEF Surjection
    <2>3. IsFiniteSet(HH)
      BY <2>1, <2>2, FS_Surjection
    <2>4. IsFiniteSet(UNION HH)
      BY <1>1, <2>3, FS_UNION
    <2>5. Held(L, Lists) \subseteq UNION HH
      BY DEF Held
    <2>. QED
      BY <2>4, <2>5, FS_Subset
  <1>3. ASSUME NEW S PROVE IsFiniteSet(Held(L, S))
    BY <1>2, HeldUnion, FS_Subset
  <1>. QED
    BY <1>1, <1>3

----------------------------------------------------------------------------
(* The invariant of the buffers that every operation of pgref keeps.       *)
SeqLists   == {SEQMRU, FREEMRU}
SeqOrder(L) == Ranked(L, SeqLists)
GhostLists == FREEGHOST..LastGhost

BufsType ==
    [list : ListsType, used : [Lists -> Nat], loop : SUBSET Blocks, sum : Nat, fault : {FALSE}]

All(s) == Held(s.list, Lists) \cup s.loop

(* The buffers that rLRUsegLoopQUsedSum counts.                            *)
Summed(s) == Held(s.list, Segments) \cup s.loop

Good(s) ==
    /\ s \in BufsType
    /\ Distinct(s.list) /\ s.loop \cap Held(s.list, Lists) = {}
    /\ \A t \in Lists : s.used[t] = Len(s.list[t])
    /\ IsFiniteSet(s.loop)
    /\ s.sum = Cardinality(Summed(s))

(* The parts of good buffers, for use one by one. *)
LEMMA GoodType ==
    ASSUME NEW s, Good(s)
    PROVE  /\ s.list \in ListsType /\ s.used \in [Lists -> Nat] /\ s.loop \in SUBSET Blocks
           /\ s.sum \in Nat /\ s.fault = FALSE /\ s \in BufsType
           /\ Distinct(s.list) /\ s.loop \cap Held(s.list, Lists) = {} /\ IsFiniteSet(s.loop)
           /\ IsFiniteSet(Summed(s))
           /\ s.sum = Cardinality(Summed(s))
           /\ All(s) \subseteq Blocks /\ NoBuf \notin All(s)
           /\ Segments \subseteq Lists /\ SeqLists \subseteq Lists /\ GhostLists \subseteq Lists
           /\ SeqLists \cup Segments = 0..LastSeg /\ 0..LastSeg \subseteq Lists
  <1>1. s.list \in ListsType /\ s.loop \in SUBSET Blocks
    BY DEF Good, BufsType
  <1>2. IsFiniteSet(Summed(s))
    BY <1>1, HeldFinite, FS_Union DEF Good, Summed
  <1>3. All(s) \subseteq Blocks /\ NoBuf \notin All(s)
    BY <1>1, HeldInLists, CacheAssumption DEF All
  <1>4. /\ Segments \subseteq Lists /\ SeqLists \subseteq Lists /\ GhostLists \subseteq Lists
        /\ SeqLists \cup Segments = 0..LastSeg /\ 0..LastSeg \subseteq Lists
    BY ListNumbers DEF SeqLists, GhostLists
  <1>5. s \in BufsType /\ s.used \in [Lists -> Nat] /\ s.sum \in Nat /\ s.fault = FALSE
    BY DEF Good, BufsType
  <1>. QED
    BY <1>1, <1>2, <1>3, <1>4, <1>5 DEF Good

(* lruin puts a new block into one list, at the front of the segments if   *)
(* the list is the first of them.                                          *)
LEMMA lruinKeeps ==
    ASSUME NEW s, Good(s), NEW t \in Lists, NEW b \in Blocks \ All(s), NEW z, z = lruin(s, t, b)
    PROVE  /\ Good(z) /\ z.loop = s.loop
           /\ \A S : Held(z.list, S) = Held(s.list, S) \cup If(t, S, b)
           /\ \A u \in Lists : z.used[u] = s.used[u] + (IF u = t THEN 1 ELSE 0)
           /\ \A S : t \notin S => Ranked(z.list, S) = Ranked(s.list, S)
           /\ \A S : Ranked(z.list, S) \subseteq Ranked(s.list, S) \cup AtFront(s.list, S, t, b)
           /\ t = OTHLRU0 => Order(z.list) = Order(s.list) \cup ({b} \X Held(s.list, Segments))
  <1>1. s.list \in ListsType /\ Distinct(s.list) /\ b \in Blocks \ Held(s.list, Lists) /\ b \notin s.loop
    BY GoodType DEF All
  <1>0. s \in BufsType
    BY GoodType
  <1>r. z = [list |-> Inserted(s.list, t, b), used |-> [s.used EXCEPT ![t] = @ + 1],
             loop |-> s.loop, sum |-> s.sum + Counted(t), fault |-> FALSE]
    BY <1>0 DEF lruin, BufsType, Inserted
  <1>2. /\ z.list = Inserted(s.list, t, b) /\ z.loop = s.loop
        /\ z.used = [s.used EXCEPT ![t] = @ + 1] /\ z.sum = s.sum + Counted(t)
    BY <1>r
  <1>3. /\ z.list \in ListsType /\ Distinct(z.list)
        /\ \A S : Held(z.list, S) = Held(s.list, S) \cup If(t, S, b)
        /\ \A S : t \notin S => Ranked(z.list, S) = Ranked(s.list, S)
        /\ \A S : Ranked(z.list, S) \subseteq Ranked(s.list, S) \cup AtFront(s.list, S, t, b)
        /\ t = OTHLRU0 => Order(z.list) = Order(s.list) \cup ({b} \X Held(s.list, Segments))
    BY <1>1, <1>2, InsertedKeeps
  <1>4. /\ z.used \in [Lists -> Nat]
        /\ \A u \in Lists : z.used[u] = s.used[u] + (IF u = t THEN 1 ELSE 0)
    <2>1. s.used \in [Lists -> Nat]
      BY GoodType
    <2>. QED
      BY <1>2, <2>1
  <1>5. \A u \in Lists : z.used[u] = Len(z.list[u])
    <2>1. s.list[t] \in Seq(Blocks) /\ <<b>> \in Seq(Blocks) /\ Len(<<b>>) = 1
      BY <1>1 DEF ListsType
    <2>2. Len(<<b>> \o s.list[t]) = 1 + Len(s.list[t]) /\ Len(s.list[t]) \in Nat
      BY <2>1, ConcatProperties
    <2>3. z.list[t] = <<b>> \o s.list[t] /\ \A u \in Lists \ {t} : z.list[u] = s.list[u]
      BY <1>1, <1>2 DEF ListsType, Inserted
    <2>4. \A u \in Lists : s.used[u] = Len(s.list[u])
      BY DEF Good
    <2>. QED
      BY <1>4, <2>2, <2>3, <2>4, SMTT(20)
  <1>6. z.loop \cap Held(z.list, Lists) = {}
    BY <1>1, <1>2, <1>3, GoodType, ZenonT(30) DEF If
  <1>7. z.sum \in Nat /\ z.sum = Cardinality(Summed(z))
    <2>1. IsFiniteSet(Summed(s)) /\ Cardinality(Summed(s)) = s.sum /\ s.sum \in Nat
      BY GoodType
    <2>2. b \notin Summed(s)
      BY <1>1, HeldUnion DEF Summed
    <2>3. Cardinality(Summed(s) \cup {b}) = Cardinality(Summed(s)) + 1
      BY <2>1, <2>2, FS_AddElement
    <2>4. CASE t \in Segments
      <3>1. Held(z.list, Segments) = Held(s.list, Segments) \cup {b}
        BY <1>3, <2>4 DEF If
      <3>2. Summed(z) = Summed(s) \cup {b}
        BY <1>2, <3>1 DEF Summed
      <3>3. z.sum = s.sum + 1
        BY <1>2, <2>4 DEF Counted
      <3>4. Cardinality(Summed(z)) = Cardinality(Summed(s) \cup {b})
        BY <3>2, Zenon
      <3>. QED
        BY <2>1, <2>3, <3>3, <3>4
    <2>5. CASE t \notin Segments
      <3>1. Held(z.list, Segments) = Held(s.list, Segments)
        BY <1>3, <2>5 DEF If
      <3>2. Summed(z) = Summed(s)
        BY <1>2, <3>1 DEF Summed
      <3>3. z.sum = s.sum
        BY <1>2, <2>1, <2>5 DEF Counted
      <3>. QED
        BY <2>1, <3>2, <3>3
    <2>. QED
      BY <2>4, <2>5
  <1>8. z \in BufsType /\ IsFiniteSet(z.loop)
    <2>1. s.loop \in SUBSET Blocks /\ IsFiniteSet(s.loop)
      BY GoodType
    <2>. QED
      BY <1>r, <1>2, <1>3, <1>4, <1>7, <2>1 DEF BufsType
  <1>. QED
    BY <1>2, <1>3, <1>4, <1>5, <1>6, <1>7, <1>8 DEF Good

(* loopQin puts a new block into the queue. *)
LEMMA loopQinKeeps ==
    ASSUME NEW s, Good(s), NEW b \in Blocks \ All(s), NEW z, z = loopQin(s, b)
    PROVE  Good(z) /\ z.loop = s.loop \cup {b} /\ z.list = s.list /\ z.used = s.used
  <1>0. s \in BufsType
    BY GoodType
  <1>r. z = [list |-> s.list, used |-> s.used, loop |-> s.loop \cup {b}, sum |-> s.sum + 1,
             fault |-> FALSE]
    BY <1>0 DEF loopQin, BufsType
  <1>1. z.list = s.list /\ z.loop = s.loop \cup {b} /\ z.used = s.used /\ z.sum = s.sum + 1
    BY <1>r
  <1>g. /\ s.list \in ListsType /\ s.sum \in Nat /\ s.loop \in SUBSET Blocks /\ IsFiniteSet(s.loop)
        /\ IsFiniteSet(Summed(s))
        /\ s.sum = Cardinality(Summed(s))
    BY GoodType
  <1>2. b \notin Summed(s) /\ b \notin Held(s.list, Lists)
    BY <1>g, HeldUnion DEF All, Summed
  <1>3. Cardinality(Summed(s) \cup {b}) = s.sum + 1 /\ IsFiniteSet(s.loop \cup {b})
    BY <1>2, <1>g, FS_AddElement
  <1>4. Summed(z) = Summed(s) \cup {b}
    BY <1>1 DEF Summed
  <1>5. z.sum = Cardinality(Summed(z))
    BY <1>1, <1>3, <1>4, Zenon
  <1>6. z \in BufsType
    BY <1>0, <1>r, <1>1, <1>g DEF BufsType
  <1>. QED
    BY <1>1, <1>2, <1>3, <1>5, <1>6, GoodType DEF Good

----------------------------------------------------------------------------
(* A buffer leaves the list or the queue it is in.                         *)
LEMMA RemovedAt ==
    ASSUME NEW q \in Seq(Blocks), NEW i \in 1..Len(q)
    PROVE  /\ RemoveAt(q, i) \in Seq(Blocks)
           /\ Len(RemoveAt(q, i)) = Len(q) - 1
           /\ \A j \in 1..(Len(q) - 1) : RemoveAt(q, i)[j] = IF j < i THEN q[j] ELSE q[j + 1]
  <1> DEFINE f == SubSeq(q, 1, i - 1)
             g == SubSeq(q, i + 1, Len(q))
  <1>1. Len(q) \in Nat /\ i \in Nat /\ i >= 1 /\ i <= Len(q) /\ \A j \in 1..Len(q) : q[j] \in Blocks
    BY ElementOfSeq
  <1>2. f \in Seq(Blocks) /\ Len(f) = i - 1 /\ \A j \in 1..(i - 1) : f[j] = q[j]
    <2>1. 1 \in Int /\ i - 1 \in Int /\ \A j \in 1..(i - 1) : q[j] \in Blocks
      BY <1>1
    <2>2. /\ f \in Seq(Blocks) /\ Len(f) = IF 1 <= i - 1 THEN i - 1 - 1 + 1 ELSE 0
          /\ \A j \in 1..(i - 1 - 1 + 1) : f[j] = q[1 + j - 1]
      BY <2>1, SubSeqProperties
    <2>. QED
      BY <1>1, <2>2
  <1>3. g \in Seq(Blocks) /\ Len(g) = Len(q) - i /\ \A j \in 1..(Len(q) - i) : g[j] = q[i + j]
    <2>1. i + 1 \in Int /\ Len(q) \in Int /\ \A j \in (i + 1)..Len(q) : q[j] \in Blocks
      BY <1>1
    <2>2. /\ g \in Seq(Blocks) /\ Len(g) = IF i + 1 <= Len(q) THEN Len(q) - (i + 1) + 1 ELSE 0
          /\ \A j \in 1..(Len(q) - (i + 1) + 1) : g[j] = q[(i + 1) + j - 1]
      BY <2>1, SubSeqProperties
    <2>. QED
      BY <1>1, <2>2
  <1>4. RemoveAt(q, i) = f \o g
    BY DEF RemoveAt
  <1>. HIDE DEF f, g
  <1>5. /\ f \o g \in Seq(Blocks) /\ Len(f \o g) = Len(f) + Len(g)
        /\ \A j \in 1..(Len(f) + Len(g)) : (f \o g)[j] = IF j <= Len(f) THEN f[j] ELSE g[j - Len(f)]
    BY <1>2, <1>3, ConcatProperties
  <1>6. ASSUME NEW j \in 1..(Len(q) - 1)
        PROVE  RemoveAt(q, i)[j] = IF j < i THEN q[j] ELSE q[j + 1]
    <2>1. j \in 1..(Len(f) + Len(g))
      BY <1>1, <1>2, <1>3
    <2>2. CASE j < i
      BY <1>1, <1>2, <1>4, <1>5, <2>1, <2>2
    <2>3. CASE ~(j < i)
      <3>1. j - (i - 1) \in 1..(Len(q) - i) /\ i + (j - (i - 1)) = j + 1 /\ ~(j <= Len(f))
        BY <1>1, <1>2, <2>3
      <3>2. (f \o g)[j] = g[j - (i - 1)]
        BY <1>2, <1>5, <2>1, <3>1
      <3>3. g[j - (i - 1)] = q[j + 1]
        BY <1>3, <3>1
      <3>. QED
        BY <1>4, <2>3, <3>2, <3>3
    <2>. QED
      BY <2>2, <2>3
  <1>7. RemoveAt(q, i) \in Seq(Blocks) /\ Len(RemoveAt(q, i)) = Len(f) + Len(g)
    BY <1>4, <1>5, Zenon
  <1>8. Len(f) + Len(g) = Len(q) - 1
    BY <1>1, <1>2, <1>3
  <1>9. Len(RemoveAt(q, i)) = Len(q) - 1
    BY <1>7, <1>8, Zenon
  <1>. QED
    BY <1>6, <1>7, <1>9, Zenon

Removed(L, t, i) == [L EXCEPT ![t] = RemoveAt(@, i)]
Loses(L, K, b) ==
    /\ \A S : Held(K, S) = Held(L, S) \ {b}
    /\ \A S : Ranked(K, S) = Without(Ranked(L, S), {b})

(* Taking one entry out of a list loses the block it held and nothing      *)
(* else.                                                                   *)
LEMMA RemovedKeeps ==
    ASSUME NEW L \in ListsType, NEW t \in Lists, NEW i \in 1..Len(L[t]), Distinct(L)
    PROVE  /\ Removed(L, t, i) \in ListsType /\ Distinct(Removed(L, t, i))
           /\ Len(Removed(L, t, i)[t]) = Len(L[t]) - 1
           /\ \A u \in Lists \ {t} : Removed(L, t, i)[u] = L[u]
           /\ Loses(L, Removed(L, t, i), L[t][i])
  <1>k. PICK K : K = Removed(L, t, i)
    OBVIOUS
  <1>b. PICK b : b = L[t][i]
    OBVIOUS
  <1> DEFINE f == <<t, i>>
             src == [p \in Places(K) |-> IF p[1] = t /\ p[2] >= i THEN <<t, p[2] + 1>> ELSE p]
  <1>1. L[t] \in Seq(Blocks) /\ Len(L[t]) \in Nat /\ i \in Nat /\ i >= 1 /\ i <= Len(L[t])
    BY DEF ListsType
  <1>2. /\ K \in ListsType /\ \A u \in Lists \ {t} : K[u] = L[u]
        /\ Len(K[t]) = Len(L[t]) - 1
        /\ \A j \in 1..(Len(L[t]) - 1) : K[t][j] = IF j < i THEN L[t][j] ELSE L[t][j + 1]
    <2>1. K[t] = RemoveAt(L[t], i) /\ \A u \in Lists \ {t} : K[u] = L[u]
      BY <1>k DEF Removed, ListsType
    <2>2. /\ RemoveAt(L[t], i) \in Seq(Blocks) /\ Len(RemoveAt(L[t], i)) = Len(L[t]) - 1
          /\ \A j \in 1..(Len(L[t]) - 1) :
                RemoveAt(L[t], i)[j] = IF j < i THEN L[t][j] ELSE L[t][j + 1]
      BY <1>1, RemovedAt
    <2>3. K \in ListsType
      BY <1>k, <2>2 DEF ListsType, Removed
    <2>. QED
      BY <2>1, <2>2, <2>3
  <1>3. f \in Places(L) /\ At(L, f) = b /\ f[1] = t /\ f[2] = i
    BY <1>b, PlaceIntro
  <1>4. ASSUME NEW p \in Places(K)
        PROVE  /\ src[p] \in Places(L) /\ src[p] # f /\ At(K, p) = At(L, src[p])
               /\ src[p][1] = p[1]
               /\ src[p][2] = IF p[1] = t /\ p[2] >= i THEN p[2] + 1 ELSE p[2]
    <2>1. p = <<p[1], p[2]>> /\ p[1] \in Lists /\ p[2] \in 1..Len(K[p[1]]) /\ Len(K[p[1]]) \in Nat
      BY <1>2, PlaceType
    <2>2. CASE p[1] = t /\ p[2] >= i
      <3>1. p[2] + 1 \in 1..Len(L[t]) /\ p[2] \in 1..(Len(L[t]) - 1) /\ ~(p[2] < i) /\ p[2] + 1 # i
        BY <1>1, <1>2, <2>1, <2>2
      <3>2. <<t, p[2] + 1>> \in Places(L) /\ At(L, <<t, p[2] + 1>>) = L[t][p[2] + 1]
        BY <3>1, PlaceIntro, Zenon
      <3>. QED
        BY <1>2, <1>3, <2>1, <2>2, <3>1, <3>2 DEF At
    <2>3. CASE p[1] = t /\ ~(p[2] >= i)
      <3>1. p[2] \in 1..Len(L[t]) /\ p[2] \in 1..(Len(L[t]) - 1) /\ p[2] < i /\ p[2] # i
        BY <1>1, <1>2, <2>1, <2>3
      <3>2. <<t, p[2]>> \in Places(L) /\ At(L, <<t, p[2]>>) = L[t][p[2]]
        BY <3>1, PlaceIntro, Zenon
      <3>. QED
        BY <1>2, <1>3, <2>1, <2>3, <3>1, <3>2 DEF At
    <2>4. CASE p[1] # t
      <3>1. p[2] \in 1..Len(L[p[1]]) /\ p[1] \in Lists /\ K[p[1]] = L[p[1]]
        BY <1>2, <2>1, <2>4
      <3>2. <<p[1], p[2]>> \in Places(L) /\ At(L, <<p[1], p[2]>>) = L[p[1]][p[2]]
        BY <3>1, PlaceIntro, Zenon
      <3>. QED
        BY <1>3, <2>1, <2>4, <3>1, <3>2 DEF At
    <2>. QED
      BY <2>2, <2>3, <2>4
  <1>5. ASSUME NEW q \in Places(L) \ {f} PROVE \E p \in Places(K) : src[p] = q
    <2>1. q = <<q[1], q[2]>> /\ q[1] \in Lists /\ q[2] \in 1..Len(L[q[1]]) /\ Len(L[q[1]]) \in Nat
      BY PlaceType
    <2>2. CASE q[1] = t /\ q[2] > i
      <3>1. q[2] - 1 \in 1..Len(K[t]) /\ q[2] - 1 >= i
        BY <1>1, <1>2, <2>1, <2>2
      <3>2. <<t, q[2] - 1>> \in Places(K)
        BY <1>2, <3>1, PlaceIntro
      <3>. QED
        BY <2>1, <2>2, <3>1, <3>2
    <2>3. CASE q[1] = t /\ ~(q[2] > i)
      <3>1. q[2] \in 1..Len(K[t]) /\ ~(q[2] >= i)
        BY <1>1, <1>2, <2>1, <2>3
      <3>2. <<t, q[2]>> \in Places(K)
        BY <1>2, <3>1, PlaceIntro
      <3>. QED
        BY <2>1, <2>3, <3>1, <3>2
    <2>4. CASE q[1] # t
      <3>1. <<q[1], q[2]>> \in Places(K)
        BY <1>2, <2>1, <2>4, PlaceIntro
      <3>. QED
        BY <2>1, <2>4, <3>1
    <2>. QED
      BY <2>2, <2>3, <2>4
  <1>. HIDE DEF src, f
  <1>6. \A p \in Places(K), q \in Places(K) : Lex(p, q) => Lex(src[p], src[q])
    <2>1. \A p \in Places(K) : p[1] \in Nat /\ p[2] \in Nat
      BY <1>2, PlaceType
    <2>. QED
      BY <1>1, <1>4, <2>1 DEF Lex
  <1>7. Rearranged(L, K, {}, {f}, src)
    BY <1>4, <1>5, <1>6 DEF Rearranged
  <1>8. Gone(L, {f}) = {b} /\ {f} \in SUBSET Places(L)
    BY <1>3 DEF Gone
  <1>9. \A S : Whole(S, {})
    BY DEF Whole
  <1>10. /\ Distinct(K)
         /\ \A S : Whole(S, {}) => Held(K, S) = Held(L, S) \ Gone(L, {f})
    BY <1>2, <1>7, <1>8, RearrangedKeeps
  <1>12. \A S : Whole(S, {}) => Ranked(K, S) = Without(Ranked(L, S), Gone(L, {f}))
    BY <1>2, <1>7, <1>8, RearrangedKeeps
  <1>11. /\ K \in ListsType /\ Distinct(K)
         /\ Len(K[t]) = Len(L[t]) - 1 /\ \A u \in Lists \ {t} : K[u] = L[u]
         /\ Loses(L, K, b)
    BY <1>2, <1>8, <1>9, <1>10, <1>12 DEF Loses
  <1>. QED
    BY <1>k, <1>b, <1>11, Zenon

(* A buffer that leaves is lost to its list or the queue, with the         *)
(* counters kept by hand.                                                  *)
LEMMA LeavesKeeps ==
    ASSUME NEW s, Good(s), NEW b \in All(s), NEW z, z = Leaves(s, b)
    PROVE  /\ Good(z) /\ z.loop = s.loop \ {b} /\ Loses(s.list, z.list, b)
           /\ \A t \in Lists :
                 z.used[t] = IF b \in Held(s.list, {t}) THEN s.used[t] - 1 ELSE s.used[t]
  <1>g. /\ s \in BufsType /\ s.list \in ListsType /\ s.used \in [Lists -> Nat] /\ s.sum \in Nat
        /\ s.loop \in SUBSET Blocks /\ IsFiniteSet(s.loop) /\ IsFiniteSet(Summed(s))
        /\ s.sum = Cardinality(Summed(s)) /\ Distinct(s.list)
        /\ s.loop \cap Held(s.list, Lists) = {} /\ b # NoBuf
    BY GoodType
  <1>s. \A S : Held(s.list, S) \subseteq Held(s.list, Lists)
    BY <1>g, HeldUnion
  <1>1. CASE b \in s.loop
    <2>1. z = [list |-> s.list, used |-> s.used, loop |-> s.loop \ {b}, sum |-> s.sum - 1, fault |-> FALSE]
      BY <1>g, <1>1 DEF Leaves, BufsType
    <2>2. z.list = s.list /\ z.used = s.used /\ z.loop = s.loop \ {b} /\ z.sum = s.sum - 1
      BY <2>1
    <2>3. b \notin Held(s.list, Lists)
      BY <1>g, <1>1
    <2>4. \A S : b \notin Held(s.list, S)
      BY <1>s, <2>3
    <2>5. Cardinality(Summed(s) \ {b}) = s.sum - 1 /\ s.sum - 1 \in Nat /\ IsFiniteSet(s.loop \ {b})
      <3>1. b \in Summed(s)
        BY <1>1 DEF Summed
      <3>2. IsFiniteSet(Summed(s) \ {b}) /\ Cardinality(Summed(s) \ {b}) = Cardinality(Summed(s)) - 1
        BY <1>g, <3>1, FS_RemoveElement
      <3>3. Cardinality(Summed(s) \ {b}) \in Nat
        BY <3>2, FS_CardinalityType
      <3>. QED
        BY <1>g, <3>2, <3>3, FS_RemoveElement
    <2>6. Summed(z) = Summed(s) \ {b}
      BY <2>2, <2>4 DEF Summed
    <2>7. z.sum = Cardinality(Summed(z))
      BY <2>2, <2>5, <2>6, Zenon
    <2>8. z \in BufsType
      BY <1>g, <2>1, <2>5 DEF BufsType
    <2>9. Good(z)
      BY <1>g, <2>2, <2>5, <2>7, <2>8 DEF Good
    <2>10. \A S : Ranked(s.list, S) = Without(Ranked(s.list, S), {b})
      BY <2>4 DEF Ranked, Without
    <2>11. Loses(s.list, z.list, b)
      BY <2>2, <2>4, <2>10 DEF Loses
    <2>. QED
      BY <2>2, <2>4, <2>9, <2>11
  <1>2. CASE b \notin s.loop
    <2>a. PICK t : t = ListOf(s, b)
      OBVIOUS
    <2>b. PICK i : i = CHOOSE k \in 1..Len(s.list[t]) : s.list[t][k] = b
      OBVIOUS
    <2>1. t \in Lists /\ i \in 1..Len(s.list[t]) /\ s.list[t][i] = b
      <3>1. b \in Held(s.list, Lists)
        BY <1>2 DEF All
      <3>2. PICK p \in Places(s.list) : b = At(s.list, p)
        BY <3>1 DEF Held
      <3>3. p[1] \in Lists /\ Contains(s.list[p[1]], b)
        BY <1>g, <3>2, PlaceType DEF Contains, At
      <3>4. t \in Lists /\ Contains(s.list[t], b)
        BY <2>a, <3>3 DEF ListOf
      <3>. QED
        BY <2>b, <3>4 DEF Contains
    <2>2. z = [list |-> Removed(s.list, t, i), used |-> [s.used EXCEPT ![t] = @ - 1],
               loop |-> s.loop, sum |-> s.sum - Counted(t), fault |-> FALSE]
      BY <1>g, <1>2, <2>a, <2>b, <2>1 DEF Leaves, BufsType, Removed, Unlinked
    <2>3. /\ z.list = Removed(s.list, t, i) /\ z.used = [s.used EXCEPT ![t] = @ - 1]
          /\ z.loop = s.loop /\ z.sum = s.sum - Counted(t)
      BY <2>2
    <2>4. /\ z.list \in ListsType /\ Distinct(z.list)
          /\ Len(z.list[t]) = Len(s.list[t]) - 1 /\ \A u \in Lists \ {t} : z.list[u] = s.list[u]
          /\ \A S : Held(z.list, S) = Held(s.list, S) \ {b}
          /\ \A S : Ranked(z.list, S) = Without(Ranked(s.list, S), {b})
      <3>1. s.list \in ListsType /\ t \in Lists /\ i \in 1..Len(s.list[t]) /\ Distinct(s.list)
        BY <1>g, <2>1
      <3>2. z.list = Removed(s.list, t, i) /\ b = s.list[t][i]
        BY <2>1, <2>3
      <3>3. /\ Removed(s.list, t, i) \in ListsType /\ Distinct(Removed(s.list, t, i))
            /\ Len(Removed(s.list, t, i)[t]) = Len(s.list[t]) - 1
            /\ \A u \in Lists \ {t} : Removed(s.list, t, i)[u] = s.list[u]
            /\ Loses(s.list, Removed(s.list, t, i), s.list[t][i])
        BY <3>1, RemovedKeeps
      <3>. QED
        BY <3>2, <3>3 DEF Loses
    <2>5. \A S : b \in Held(s.list, S) <=> t \in S
      <3>1. <<t, i>> \in Places(s.list) /\ At(s.list, <<t, i>>) = b /\ <<t, i>>[1] = t
        BY <1>g, <2>1, PlaceIntro
      <3>2. \A p \in Places(s.list) : At(s.list, p) = b => p[1] = t
        BY <1>g, <3>1 DEF Distinct
      <3>. QED
        BY <3>1, <3>2 DEF Held
    <2>6. Len(s.list[t]) \in Nat /\ Len(s.list[t]) - 1 \in Nat
      BY <1>g, <2>1 DEF ListsType
    <2>7. /\ z.used \in [Lists -> Nat]
          /\ \A u \in Lists : z.used[u] = IF b \in Held(s.list, {u}) THEN s.used[u] - 1 ELSE s.used[u]
          /\ \A u \in Lists : z.used[u] = Len(z.list[u])
      <3>1. \A u \in Lists : s.used[u] = Len(s.list[u])
        BY DEF Good
      <3>2. \A u \in Lists : b \in Held(s.list, {u}) <=> u = t
        BY <2>5
      <3>. QED
        BY <1>g, <2>1, <2>3, <2>4, <2>6, <3>1, <3>2
    <2>8. z.sum \in Nat /\ z.sum = Cardinality(Summed(z))
      <3>1. CASE t \in Segments
        <4>1. b \in Summed(s)
          BY <2>5, <3>1 DEF Summed
        <4>2. Summed(z) = Summed(s) \ {b}
          BY <1>2, <2>3, <2>4 DEF Summed
        <4>3. IsFiniteSet(Summed(s) \ {b}) /\ Cardinality(Summed(s) \ {b}) = Cardinality(Summed(s)) - 1
          BY <1>g, <4>1, FS_RemoveElement
        <4>4. Cardinality(Summed(s) \ {b}) \in Nat
          BY <4>3, FS_CardinalityType
        <4>5. z.sum = s.sum - 1
          BY <2>3, <3>1 DEF Counted
        <4>6. Cardinality(Summed(z)) = Cardinality(Summed(s) \ {b})
          BY <4>2, Zenon
        <4>. QED
          BY <1>g, <4>3, <4>4, <4>5, <4>6
      <3>2. CASE t \notin Segments
        <4>1. b \notin Held(s.list, Segments)
          BY <2>5, <3>2
        <4>2. Summed(z) = Summed(s)
          BY <2>3, <2>4, <4>1 DEF Summed
        <4>3. z.sum = s.sum
          BY <1>g, <2>3, <3>2 DEF Counted
        <4>. QED
          BY <1>g, <4>2, <4>3
      <3>. QED
        BY <3>1, <3>2
    <2>9. z \in BufsType
      BY <1>g, <2>2, <2>3, <2>4, <2>7, <2>8 DEF BufsType
    <2>10. z.loop \cap Held(z.list, Lists) = {} /\ z.loop = s.loop \ {b}
      BY <1>g, <1>2, <2>3, <2>4
    <2>11. Good(z)
      BY <1>g, <2>3, <2>4, <2>7, <2>8, <2>9, <2>10 DEF Good
    <2>12. Loses(s.list, z.list, b)
      BY <2>4 DEF Loses
    <2>. QED
      BY <2>7, <2>10, <2>11, <2>12
  <1>. QED
    BY <1>1, <1>2

----------------------------------------------------------------------------
(* Buffers move from list to list: lruin and lruout in turn, mruout and    *)
(* insertLRU in turn.                                                      *)
SameBuffers(L, K, R) ==
    /\ Distinct(K)
    /\ \A S : Whole(S, R) => Held(K, S) = Held(L, S)
    /\ \A S : Whole(S, R) => Ranked(K, S) = Ranked(L, S)

(* A rearrangement that drops nothing keeps all buffers. *)
LEMMA RearrangedIsSame ==
    ASSUME NEW L \in ListsType, NEW K \in ListsType, NEW R, NEW src,
           Distinct(L), Rearranged(L, K, R, {}, src)
    PROVE  SameBuffers(L, K, R)
  <1>1. Gone(L, {}) = {} /\ \A S : Without(Ranked(L, S), {}) = Ranked(L, S)
    BY DEF Gone, Without
  <1>2. {} \in SUBSET Places(L)
    OBVIOUS
  <1>3. /\ Distinct(K)
        /\ \A S : Whole(S, R) => Held(K, S) = Held(L, S) \ Gone(L, {})
        /\ \A S : Whole(S, R) => Ranked(K, S) = Without(Ranked(L, S), Gone(L, {}))
    BY <1>2, RearrangedKeeps
  <1>. QED
    BY <1>1, <1>3 DEF SameBuffers

(* The last buffer of each list from i on goes to the next, k the last.    *)
Shifted(L, K, i, k, prev) ==
    /\ \A t \in (i + 1)..k :
          /\ prev[t] \in i..(t - 1) /\ Len(L[prev[t]]) > 0
          /\ \A u \in (prev[t] + 1)..(t - 1) : Len(L[u]) = 0
    /\ \A t \in Lists \ {i, k} : Len(K[t]) = Len(L[t])
    /\ i = k => Len(K[i]) = Len(L[i])
    /\ i # k => Len(K[i]) = Len(L[i]) - 1 /\ Len(K[k]) = Len(L[k]) + 1
    /\ \A t \in Lists \ ((i + 1)..k) : \A j \in 1..Len(K[t]) : K[t][j] = L[t][j]
    /\ \A t \in (i + 1)..k : \A j \in 1..Len(K[t]) :
          K[t][j] = IF j = 1 THEN L[prev[t]][Len(L[prev[t]])] ELSE L[t][j - 1]

(* Shifting the last block of each list to the front of the next one keeps *)
(* all buffers but the last one, which has been dropped already.           *)
LEMMA ShiftedKeeps ==
    ASSUME NEW L \in ListsType, NEW K \in ListsType, NEW i \in Lists, NEW k \in Lists, i <= k,
           Len(L[i]) > 0, NEW prev, Shifted(L, K, i, k, prev), Distinct(L)
    PROVE  SameBuffers(L, K, i..k)
  <1> DEFINE src == [p \in Places(K) |->
                       IF p[1] \notin (i + 1)..k THEN p
                       ELSE IF p[2] = 1 THEN <<prev[p[1]], Len(L[prev[p[1]]])>>
                       ELSE <<p[1], p[2] - 1>>]
  <1>n. /\ i \in Nat /\ k \in Nat /\ i..k \subseteq Lists /\ \A t \in Lists : t \in Nat
        /\ \A t \in Lists : Len(L[t]) \in Nat /\ Len(K[t]) \in Nat
    <2>1. i \in Nat /\ k \in Nat /\ \A t \in Lists : t \in Nat
      BY ListNumbers
    <2>2. i..k \subseteq Lists
      BY ListNumbers
    <2>3. \A t \in Lists : Len(L[t]) \in Nat /\ Len(K[t]) \in Nat
      BY DEF ListsType
    <2>. QED
      BY <2>1, <2>2, <2>3
  <1>1. /\ \A t \in (i + 1)..k :
              /\ prev[t] \in i..(t - 1) /\ Len(L[prev[t]]) > 0
              /\ \A u \in (prev[t] + 1)..(t - 1) : Len(L[u]) = 0
        /\ \A t \in Lists \ {i, k} : Len(K[t]) = Len(L[t])
        /\ i = k => Len(K[i]) = Len(L[i])
        /\ i # k => Len(K[i]) = Len(L[i]) - 1 /\ Len(K[k]) = Len(L[k]) + 1
        /\ \A t \in Lists \ ((i + 1)..k) : \A j \in 1..Len(K[t]) : K[t][j] = L[t][j]
        /\ \A t \in (i + 1)..k : \A j \in 1..Len(K[t]) :
              K[t][j] = IF j = 1 THEN L[prev[t]][Len(L[prev[t]])] ELSE L[t][j - 1]
    BY DEF Shifted
  <1>l. ASSUME NEW t \in Lists
        PROVE  /\ t \in Nat /\ Len(L[t]) \in Nat /\ Len(K[t]) \in Nat
               /\ t \notin i..k => Len(K[t]) = Len(L[t])
               /\ t = i /\ i = k => Len(K[t]) = Len(L[t])
               /\ t = i /\ i # k => Len(K[t]) = Len(L[t]) - 1
               /\ t = k /\ i # k => Len(K[t]) = Len(L[t]) + 1
               /\ t \in (i + 1)..(k - 1) => Len(K[t]) = Len(L[t])
    <2>1. t \in Nat /\ Len(L[t]) \in Nat /\ Len(K[t]) \in Nat /\ i \in Nat /\ k \in Nat
      BY <1>n
    <2>2. t \notin {i, k} => Len(K[t]) = Len(L[t])
      BY <1>1
    <2>3. /\ t = i /\ i = k => Len(K[t]) = Len(L[t])
          /\ t = i /\ i # k => Len(K[t]) = Len(L[t]) - 1
          /\ t = k /\ i # k => Len(K[t]) = Len(L[t]) + 1
      BY <1>1
    <2>. QED
      BY <2>1, <2>2, <2>3
  <1>m. ASSUME NEW t \in Lists
        PROVE  /\ t \notin (i + 1)..k => Len(K[t]) <= Len(L[t])
               /\ t \in (i + 1)..k => Len(K[t]) <= Len(L[t]) + 1 /\ Len(K[t]) >= Len(L[t])
               /\ t = k => Len(K[t]) >= Len(L[t])
               /\ t # i => Len(K[t]) >= Len(L[t])
               /\ t = i => Len(K[t]) >= Len(L[t]) - 1
               /\ t = k /\ i # k => Len(K[t]) >= Len(L[t]) + 1
    <2>3. i \in Nat /\ k \in Nat
      BY <1>n
    <2>. QED
      BY <1>l, <2>3
  <1>p. \A p \in Places(K) : /\ p = <<p[1], p[2]>> /\ p[1] \in Lists /\ p[2] \in 1..Len(K[p[1]])
                             /\ p[2] \in Nat /\ p[2] >= 1 /\ p[2] <= Len(K[p[1]])
    BY PlaceType
  <1>q. \A q \in Places(L) : /\ q = <<q[1], q[2]>> /\ q[1] \in Lists /\ q[2] \in 1..Len(L[q[1]])
                             /\ q[2] \in Nat /\ q[2] >= 1 /\ q[2] <= Len(L[q[1]])
    BY PlaceType
  <1>2. ASSUME NEW p \in Places(K), p[1] \notin (i + 1)..k
        PROVE  src[p] = p /\ src[p] \in Places(L) /\ At(K, p) = At(L, src[p]) /\ p[2] <= Len(L[p[1]])
    <2>a. p[1] \in Lists /\ p[2] \in Nat /\ p[2] >= 1 /\ p[2] <= Len(K[p[1]])
      BY <1>p
    <2>b. Len(L[p[1]]) \in Nat /\ Len(K[p[1]]) <= Len(L[p[1]])
      BY <1>n, <1>m, <1>2, <2>a
    <2>1. p[2] \in 1..Len(L[p[1]]) /\ p[2] <= Len(L[p[1]])
      BY <1>n, <2>a, <2>b
    <2>2. <<p[1], p[2]>> \in Places(L) /\ At(L, <<p[1], p[2]>>) = L[p[1]][p[2]]
      BY <1>p, <2>1, PlaceIntro
    <2>3. K[p[1]][p[2]] = L[p[1]][p[2]]
      BY <1>1, <1>p, <1>2
    <2>. QED
      BY <1>p, <1>2, <2>1, <2>2, <2>3 DEF At
  <1>3. ASSUME NEW p \in Places(K), p[1] \in (i + 1)..k, p[2] = 1
        PROVE  /\ src[p] = <<prev[p[1]], Len(L[prev[p[1]]])>> /\ src[p] \in Places(L)
               /\ src[p][1] = prev[p[1]] /\ src[p][2] = Len(L[prev[p[1]]])
               /\ At(K, p) = At(L, src[p]) /\ prev[p[1]] \in Lists /\ prev[p[1]] \in i..(p[1] - 1)
    <2>1. prev[p[1]] \in i..(p[1] - 1) /\ Len(L[prev[p[1]]]) > 0
      BY <1>1, <1>3
    <2>2. prev[p[1]] \in Lists
      BY <1>n, <1>3, <2>1
    <2>3. Len(L[prev[p[1]]]) \in 1..Len(L[prev[p[1]]])
      BY <1>n, <2>1, <2>2
    <2>4. /\ <<prev[p[1]], Len(L[prev[p[1]]])>> \in Places(L)
          /\ At(L, <<prev[p[1]], Len(L[prev[p[1]]])>>) = L[prev[p[1]]][Len(L[prev[p[1]]])]
      BY <2>2, <2>3, PlaceIntro
    <2>5. K[p[1]][p[2]] = L[prev[p[1]]][Len(L[prev[p[1]]])]
      BY <1>1, <1>p, <1>3
    <2>. QED
      BY <1>3, <2>1, <2>2, <2>4, <2>5, SMTT(20) DEF At
  <1>4. ASSUME NEW p \in Places(K), p[1] \in (i + 1)..k, p[2] # 1
        PROVE  /\ src[p] = <<p[1], p[2] - 1>> /\ src[p] \in Places(L) /\ At(K, p) = At(L, src[p])
               /\ src[p][1] = p[1] /\ src[p][2] = p[2] - 1 /\ p[2] - 1 <= Len(L[p[1]])
    <2>a. p[1] \in Lists /\ p[2] \in Nat /\ p[2] >= 1 /\ p[2] <= Len(K[p[1]])
      BY <1>p
    <2>b. /\ Len(L[p[1]]) \in Nat /\ Len(K[p[1]]) \in Nat
          /\ Len(K[p[1]]) <= Len(L[p[1]]) + 1
      BY <1>n, <1>m, <1>4, <2>a
    <2>1. p[2] - 1 \in 1..Len(L[p[1]]) /\ p[2] - 1 <= Len(L[p[1]])
      BY <1>4, <2>a, <2>b
    <2>2. <<p[1], p[2] - 1>> \in Places(L) /\ At(L, <<p[1], p[2] - 1>>) = L[p[1]][p[2] - 1]
      BY <1>p, <2>1, PlaceIntro
    <2>3. K[p[1]][p[2]] = L[p[1]][p[2] - 1]
      BY <1>1, <1>p, <1>4
    <2>. QED
      BY <1>4, <2>1, <2>2, <2>3 DEF At
  <1>5. ASSUME NEW q \in Places(L) PROVE \E p \in Places(K) : src[p] = q
    <2>1. CASE q[1] \notin i..k \/ (q[1] = i /\ (i = k \/ q[2] < Len(L[i])))
      <3>a. q[1] \in Lists /\ q[2] \in Nat /\ q[2] >= 1 /\ q[2] <= Len(L[q[1]])
        BY <1>q
      <3>1. q[2] \in 1..Len(K[q[1]]) /\ q[1] \notin (i + 1)..k
        <4>1. q[1] \notin (i + 1)..k /\ i \in Nat /\ k \in Nat
          BY <1>n, <2>1
        <4>2. q[1] \notin i..k => Len(K[q[1]]) = Len(L[q[1]])
          BY <1>l, <3>a
        <4>3. q[1] = i /\ i = k => Len(K[q[1]]) = Len(L[q[1]])
          BY <1>l, <3>a
        <4>4. q[1] = i => Len(K[q[1]]) >= Len(L[q[1]]) - 1
          BY <1>m, <3>a
        <4>5. Len(K[q[1]]) \in Nat /\ Len(L[q[1]]) \in Nat
          BY <1>l, <3>a
        <4>. QED
          BY <2>1, <3>a, <4>1, <4>2, <4>3, <4>4, <4>5, SMTT(30)
      <3>2. <<q[1], q[2]>> \in Places(K)
        BY <1>q, <3>1, PlaceIntro
      <3>. QED
        BY <1>q, <1>2, <3>1, <3>2
    <2>2. CASE q[1] \in (i + 1)..k /\ (q[1] = k \/ q[2] < Len(L[q[1]]))
      <3>a. q[1] \in Lists /\ q[2] \in Nat /\ q[2] >= 1 /\ q[2] <= Len(L[q[1]])
        BY <1>q
      <3>b. /\ Len(L[q[1]]) \in Nat /\ Len(K[q[1]]) \in Nat /\ Len(K[q[1]]) >= Len(L[q[1]])
            /\ q[1] = k => Len(K[q[1]]) >= Len(L[q[1]]) + 1
        BY <1>n, <1>m, <2>2, <3>a, SMTT(30)
      <3>1. q[2] + 1 \in 1..Len(K[q[1]]) /\ q[2] + 1 # 1 /\ q[2] + 1 - 1 = q[2]
        BY <2>2, <3>a, <3>b, SMTT(30)
      <3>2. <<q[1], q[2] + 1>> \in Places(K)
        BY <1>q, <3>1, PlaceIntro
      <3>3. PICK x : x = <<q[1], q[2] + 1>>
        OBVIOUS
      <3>4. x[1] = q[1] /\ x[2] = q[2] + 1 /\ x \in Places(K) /\ x[2] # 1 /\ x[1] \in (i + 1)..k
        BY <2>2, <3>1, <3>2, <3>3
      <3>5. src[x] = <<x[1], x[2] - 1>>
        BY <3>4
      <3>6. x[2] - 1 = q[2]
        BY <3>a, <3>4
      <3>7. src[x] = q
        <4>1. q = <<q[1], q[2]>>
          BY <1>q
        <4>2. <<x[1], x[2] - 1>> = <<q[1], q[2]>>
          BY <3>4, <3>6
        <4>. HIDE DEF src
        <4>. QED
          BY <3>5, <4>1, <4>2, Zenon
      <3>. QED
        BY <3>4, <3>7
    <2>3. CASE q[1] \in i..(k - 1) /\ q[2] = Len(L[q[1]])
      <3> DEFINE V == {v \in (q[1] + 1)..k : v = k \/ Len(L[v]) > 0}
      <3>1. V \in SUBSET Nat /\ k \in V
        BY <1>n, <2>3
      <3>2. PICK v \in V : \A n \in V : v <= n
        <4>. HIDE DEF V
        <4>. QED
          BY <3>1, LeastExists
      <3>a. v \in (i + 1)..k /\ v \in Lists /\ v > q[1] /\ (v = k \/ Len(L[v]) > 0)
        BY <1>n, <2>3
      <3>3. v \in (i + 1)..k /\ v \in Lists /\ 1 \in 1..Len(K[v]) /\ v > q[1]
        BY <1>n, <1>l, <3>a
      <3>4. \A u \in (q[1] + 1)..(v - 1) : Len(L[u]) = 0
        BY <1>n, <2>3, <3>2
      <3>5. prev[v] = q[1]
        <4>1. prev[v] \in i..(v - 1) /\ Len(L[prev[v]]) > 0
              /\ \A u \in (prev[v] + 1)..(v - 1) : Len(L[u]) = 0
          BY <1>1, <3>3
        <4>a. /\ q[1] \in Nat /\ q[1] \in Lists /\ Len(L[q[1]]) # 0 /\ prev[v] \in Nat
              /\ prev[v] \in Lists /\ v \in Nat /\ Len(L[prev[v]]) # 0
          <5>1. q[1] \in Lists /\ q[2] >= 1 /\ q[2] \in Nat /\ v \in Nat
            BY <1>n, <1>q, <3>3
          <5>2. prev[v] \in i..k
            BY <1>n, <3>3, <4>1
          <5>. QED
            BY <1>n, <2>3, <4>1, <5>1, <5>2, SMTT(30)
        <4>2. ~(prev[v] > q[1])
          <5>1. prev[v] > q[1] => prev[v] \in (q[1] + 1)..(v - 1)
            BY <4>1, <4>a
          <5>. QED
            BY <3>4, <4>a, <5>1
        <4>3. ~(prev[v] < q[1])
          <5>1. prev[v] < q[1] => q[1] \in (prev[v] + 1)..(v - 1)
            BY <3>3, <4>1, <4>a
          <5>. QED
            BY <4>1, <4>a, <5>1
        <4>. QED
          BY <4>a, <4>2, <4>3
      <3>6. <<v, 1>> \in Places(K)
        BY <3>3, PlaceIntro
      <3>7. src[<<v, 1>>] = <<prev[v], Len(L[prev[v]])>>
        BY <3>3, <3>6
      <3>8. <<prev[v], Len(L[prev[v]])>> = <<q[1], q[2]>>
        BY <2>3, <3>5
      <3>9. q = <<q[1], q[2]>>
        BY <1>q
      <3>. HIDE DEF src
      <3>. QED
        BY <3>6, <3>7, <3>8, <3>9, Zenon
    <2>. QED
      BY <1>n, <1>q, <2>1, <2>2, <2>3
  <1>. HIDE DEF src
  <1>6. ASSUME NEW p \in Places(K), NEW q \in Places(K), Lex(p, q) PROVE Lex(src[p], src[q])
    <2>1. /\ p[1] \in Nat /\ q[1] \in Nat /\ p[2] \in Nat /\ q[2] \in Nat /\ p[2] >= 1 /\ q[2] >= 1
          /\ p[1] \in Lists /\ q[1] \in Lists
          /\ p[1] < q[1] \/ (p[1] = q[1] /\ p[2] < q[2])
      BY <1>n, <1>p, <1>6 DEF Lex
    <2>2. src[p][1] \in Nat /\ src[p][2] \in Nat /\ src[p][1] <= p[1]
      <3>1. CASE p[1] \notin (i + 1)..k
        BY <1>2, <2>1, <3>1
      <3>2. CASE p[1] \in (i + 1)..k /\ p[2] = 1
        <4>1. /\ src[p][1] = prev[p[1]] /\ src[p][2] = Len(L[prev[p[1]]])
              /\ prev[p[1]] \in Lists /\ prev[p[1]] \in i..(p[1] - 1)
          BY <1>3, <3>2
        <4>. QED
          BY <1>n, <2>1, <4>1
      <3>3. CASE p[1] \in (i + 1)..k /\ p[2] # 1
        BY <1>4, <2>1, <3>3
      <3>. QED
        BY <3>1, <3>2, <3>3
    <2>3. CASE q[1] \notin (i + 1)..k
      <3>1. src[q] = q /\ (p[1] = q[1] => src[p] = p)
        BY <1>2, <2>3
      <3>. QED
        BY <2>1, <2>2, <3>1 DEF Lex
    <2>4. CASE q[1] \in (i + 1)..k /\ q[2] # 1
      <3>1. src[q][1] = q[1] /\ src[q][2] = q[2] - 1
        BY <1>4, <2>4
      <3>2. CASE p[1] = q[1] /\ p[2] = 1
        <4>1. src[p][1] = prev[p[1]] /\ prev[p[1]] \in i..(p[1] - 1)
          BY <1>3, <2>4, <3>2
        <4>2. src[p][1] < q[1]
          BY <1>n, <2>1, <3>2, <4>1
        <4>. QED
          BY <3>1, <4>2 DEF Lex
      <3>3. CASE p[1] = q[1] /\ p[2] # 1
        <4>1. src[p][1] = p[1] /\ src[p][2] = p[2] - 1
          BY <1>4, <2>4, <3>3
        <4>. QED
          BY <2>1, <3>1, <3>3, <4>1 DEF Lex
      <3>4. CASE p[1] # q[1]
        BY <2>1, <2>2, <3>1, <3>4 DEF Lex
      <3>. QED
        BY <3>2, <3>3, <3>4
    <2>5. CASE q[1] \in (i + 1)..k /\ q[2] = 1
      <3>1. /\ src[q][1] = prev[q[1]] /\ src[q][2] = Len(L[prev[q[1]]]) /\ prev[q[1]] \in i..(q[1] - 1)
            /\ prev[q[1]] \in Lists
            /\ \A u \in (prev[q[1]] + 1)..(q[1] - 1) : Len(L[u]) = 0
        BY <1>1, <1>3, <2>5
      <3>2. p[1] < q[1] /\ p[1] < k
        BY <2>1, <2>5, <1>n
      <3>3. CASE p[1] < i
        <4>1. prev[q[1]] \in Nat /\ prev[q[1]] >= i
          BY <1>n, <3>1
        <4>. QED
          BY <1>n, <2>1, <2>2, <3>1, <3>3, <4>1, SMTT(30) DEF Lex
      <3>4. CASE p[1] = i
        <4>a. Len(K[i]) = Len(L[i]) - 1 /\ Len(L[i]) \in Nat /\ p[2] <= Len(K[i])
          BY <1>n, <1>l, <1>p, <3>2, <3>4
        <4>b. src[p] = p
          BY <1>2, <1>n, <3>4
        <4>1. src[p] = p /\ p[2] < Len(L[i])
          BY <2>1, <4>a, <4>b
        <4>. QED
          BY <1>n, <2>1, <3>1, <3>4, <4>1, SMTT(20) DEF Lex
      <3>5. CASE p[1] > i
        <4>a. p[1] \in (i + 1)..k /\ p[1] \in (i + 1)..(k - 1)
          BY <1>n, <2>1, <3>2, <3>5
        <4>b. Len(K[p[1]]) = Len(L[p[1]]) /\ Len(L[p[1]]) \in Nat /\ p[2] <= Len(K[p[1]])
          BY <1>l, <1>p, <2>1, <4>a
        <4>1. p[1] \in (i + 1)..k /\ Len(L[p[1]]) > 0 /\ p[2] <= Len(L[p[1]])
          BY <2>1, <4>a, <4>b
        <4>2. prev[q[1]] >= p[1]
          <5>1. prev[q[1]] \in Nat
            BY <1>n, <3>1
          <5>2. prev[q[1]] < p[1] => p[1] \in (prev[q[1]] + 1)..(q[1] - 1)
            BY <2>1, <3>2, <5>1
          <5>3. Len(L[p[1]]) # 0
            BY <4>1, <4>b
          <5>. QED
            BY <2>1, <3>1, <5>1, <5>2, <5>3
        <4>3. CASE p[2] = 1
          <5>1. src[p][1] < p[1]
            BY <1>3, <1>n, <2>1, <4>1, <4>3
          <5>. QED
            <6>1. prev[q[1]] \in Nat
              BY <1>n, <3>1
            <6>. QED
              BY <2>1, <2>2, <3>1, <4>2, <5>1, <6>1 DEF Lex
        <4>4. CASE p[2] # 1
          <5>1. src[p][1] = p[1] /\ src[p][2] = p[2] - 1
            BY <1>4, <4>1, <4>4
          <5>. QED
            <6>1. prev[q[1]] \in Nat /\ Len(L[p[1]]) \in Nat
              BY <1>n, <2>1, <3>1
            <6>. QED
              BY <2>1, <3>1, <4>1, <4>2, <5>1, <6>1 DEF Lex
        <4>. QED
          BY <4>3, <4>4
      <3>. QED
        BY <1>n, <2>1, <3>3, <3>4, <3>5
    <2>. QED
      BY <2>3, <2>4, <2>5
  <1>7. ASSUME NEW p \in Places(K)
        PROVE  p[1] = src[p][1] \/ (p[1] \in i..k /\ src[p][1] \in i..k)
    <2>1. CASE p[1] \notin (i + 1)..k
      BY <1>2, <2>1
    <2>2. CASE p[1] \in (i + 1)..k /\ p[2] = 1
      BY <1>n, <1>3, <2>2
    <2>3. CASE p[1] \in (i + 1)..k /\ p[2] # 1
      BY <1>4, <2>3
    <2>. QED
      BY <2>1, <2>2, <2>3
  <1>8. \A p \in Places(K) : src[p] \in Places(L) \ {} /\ At(K, p) = At(L, src[p])
    BY <1>2, <1>3, <1>4
  <1>9. Rearranged(L, K, i..k, {}, src)
    BY <1>5, <1>6, <1>7, <1>8 DEF Rearranged
  <1>. QED
    BY <1>9, RearrangedIsSame

(* The first buffer of each list from k up to i + 1 goes to the end of the *)
(* one before.                                                             *)
Pulled(L, K, i, k) ==
    /\ \A t \in (i + 1)..k : Len(L[t]) > 0
    /\ \A t \in Lists \ {i, k} : Len(K[t]) = Len(L[t])
    /\ Len(K[i]) = Len(L[i]) + 1 /\ Len(K[k]) = Len(L[k]) - 1
    /\ \A t \in Lists \ ((i + 1)..k) : \A j \in 1..Len(L[t]) : K[t][j] = L[t][j]
    /\ \A t \in (i + 1)..k : \A j \in 1..(Len(L[t]) - 1) : K[t][j] = L[t][j + 1]
    /\ \A t \in i..(k - 1) : K[t][Len(K[t])] = L[t + 1][1]

(* Pulling the first block of each list to the end of the one before keeps *)
(* all buffers.                                                            *)
LEMMA PulledKeeps ==
    ASSUME NEW L \in ListsType, NEW K \in ListsType, NEW i \in Lists, NEW k \in Lists, i < k,
           Pulled(L, K, i, k), Distinct(L)
    PROVE  SameBuffers(L, K, i..k)
  <1> DEFINE AtEnd(p) == p[1] \in i..(k - 1) /\ p[2] = Len(K[p[1]])
             src == [p \in Places(K) |->
                       IF AtEnd(p) THEN <<p[1] + 1, 1>>
                       ELSE IF p[1] \in (i + 1)..k THEN <<p[1], p[2] + 1>>
                       ELSE p]
  <1>n. /\ i \in Nat /\ k \in Nat /\ i..k \subseteq Lists /\ \A t \in Lists : t \in Nat
        /\ \A t \in Lists : Len(L[t]) \in Nat /\ Len(K[t]) \in Nat
    <2>1. i \in Nat /\ k \in Nat /\ \A t \in Lists : t \in Nat
      BY ListNumbers
    <2>2. i..k \subseteq Lists
      BY ListNumbers
    <2>3. \A t \in Lists : Len(L[t]) \in Nat /\ Len(K[t]) \in Nat
      BY DEF ListsType
    <2>. QED
      BY <2>1, <2>2, <2>3
  <1>1. /\ \A t \in (i + 1)..k : Len(L[t]) > 0
        /\ \A t \in Lists \ {i, k} : Len(K[t]) = Len(L[t])
        /\ Len(K[i]) = Len(L[i]) + 1 /\ Len(K[k]) = Len(L[k]) - 1
        /\ \A t \in Lists \ ((i + 1)..k) : \A j \in 1..Len(L[t]) : K[t][j] = L[t][j]
        /\ \A t \in (i + 1)..k : \A j \in 1..(Len(L[t]) - 1) : K[t][j] = L[t][j + 1]
        /\ \A t \in i..(k - 1) : K[t][Len(K[t])] = L[t + 1][1]
    BY DEF Pulled
  <1>p. \A p \in Places(K) : /\ p = <<p[1], p[2]>> /\ p[1] \in Lists /\ p[2] \in 1..Len(K[p[1]])
                             /\ p[2] \in Nat /\ p[2] >= 1 /\ p[2] <= Len(K[p[1]])
    BY PlaceType
  <1>q. \A q \in Places(L) : /\ q = <<q[1], q[2]>> /\ q[1] \in Lists /\ q[2] \in 1..Len(L[q[1]])
                             /\ q[2] \in Nat /\ q[2] >= 1 /\ q[2] <= Len(L[q[1]])
    BY PlaceType
  <1>l. ASSUME NEW t \in Lists
        PROVE  /\ t \in Nat /\ Len(L[t]) \in Nat /\ Len(K[t]) \in Nat
               /\ t = i => Len(K[t]) = Len(L[t]) + 1
               /\ t = k => Len(K[t]) = Len(L[t]) - 1
               /\ t # i /\ t # k => Len(K[t]) = Len(L[t])
               /\ t \in (i + 1)..k => Len(L[t]) > 0
    BY <1>n, <1>1
  <1>2. ASSUME NEW p \in Places(K), AtEnd(p)
        PROVE  /\ src[p] = <<p[1] + 1, 1>> /\ src[p] \in Places(L) /\ At(K, p) = At(L, src[p])
               /\ src[p][1] = p[1] + 1 /\ src[p][2] = 1 /\ p[1] + 1 \in i..k
    <2>1. p[1] + 1 \in (i + 1)..k /\ p[1] + 1 \in Lists /\ p[1] + 1 \in i..k
      BY <1>n, <1>2
    <2>2. 1 \in 1..Len(L[p[1] + 1])
      BY <1>l, <2>1
    <2>3. <<p[1] + 1, 1>> \in Places(L) /\ At(L, <<p[1] + 1, 1>>) = L[p[1] + 1][1]
      BY <2>1, <2>2, PlaceIntro
    <2>4. K[p[1]][p[2]] = L[p[1] + 1][1]
      BY <1>1, <1>2
    <2>5. src[p] = <<p[1] + 1, 1>>
      BY <1>2
    <2>. HIDE DEF src
    <2>. QED
      BY <2>1, <2>3, <2>4, <2>5 DEF At
  <1>3. ASSUME NEW p \in Places(K), ~AtEnd(p), p[1] \in (i + 1)..k
        PROVE  /\ src[p] = <<p[1], p[2] + 1>> /\ src[p] \in Places(L) /\ At(K, p) = At(L, src[p])
               /\ src[p][1] = p[1] /\ src[p][2] = p[2] + 1
    <2>e. src[p] = <<p[1], p[2] + 1>>
      BY <1>3
    <2>. HIDE DEF src
    <2>a. p[1] \in Lists /\ p[2] \in Nat /\ p[2] >= 1 /\ p[2] <= Len(K[p[1]])
      BY <1>p
    <2>b. Len(K[p[1]]) \in Nat /\ Len(L[p[1]]) \in Nat /\ Len(K[p[1]]) <= Len(L[p[1]])
      BY <1>l, <2>a, <1>n, <1>3, SMTT(20)
    <2>c. p[1] = k => Len(K[p[1]]) = Len(L[p[1]]) - 1
      BY <1>l, <2>a
    <2>d. p[1] # k => p[2] # Len(K[p[1]])
      BY <1>n, <1>3
    <2>1. p[2] + 1 \in 1..Len(L[p[1]]) /\ p[2] \in 1..(Len(L[p[1]]) - 1)
      BY <2>a, <2>b, <2>c, <2>d, SMTT(30)
    <2>2. <<p[1], p[2] + 1>> \in Places(L) /\ At(L, <<p[1], p[2] + 1>>) = L[p[1]][p[2] + 1]
      BY <2>a, <2>1, PlaceIntro
    <2>3. K[p[1]][p[2]] = L[p[1]][p[2] + 1]
      BY <1>1, <1>3, <2>1
    <2>. QED
      BY <2>e, <2>2, <2>3 DEF At
  <1>4. ASSUME NEW p \in Places(K), ~AtEnd(p), p[1] \notin (i + 1)..k
        PROVE  src[p] = p /\ src[p] \in Places(L) /\ At(K, p) = At(L, src[p]) /\ p[2] <= Len(L[p[1]])
    <2>a. p[1] \in Lists /\ p[2] \in Nat /\ p[2] >= 1 /\ p[2] <= Len(K[p[1]])
      BY <1>p
    <2>b. Len(L[p[1]]) \in Nat /\ Len(K[p[1]]) \in Nat
      BY <1>l, <2>a
    <2>c. p[1] = i => Len(K[p[1]]) = Len(L[p[1]]) + 1 /\ p[2] # Len(K[p[1]])
      BY <1>n, <1>l, <1>4, <2>a
    <2>d. p[1] # i => Len(K[p[1]]) = Len(L[p[1]])
      <3>1. p[1] # k
        BY <1>n, <1>4
      <3>. QED
        BY <1>l, <2>a, <3>1
    <2>1. p[2] \in 1..Len(L[p[1]]) /\ p[2] <= Len(L[p[1]])
      BY <2>a, <2>b, <2>c, <2>d
    <2>2. <<p[1], p[2]>> \in Places(L) /\ At(L, <<p[1], p[2]>>) = L[p[1]][p[2]]
      BY <2>a, <2>1, PlaceIntro
    <2>3. K[p[1]][p[2]] = L[p[1]][p[2]]
      BY <1>1, <1>4, <2>a, <2>1
    <2>. QED
      BY <1>p, <1>4, <2>1, <2>2, <2>3 DEF At
  <1>5. ASSUME NEW q \in Places(L) PROVE \E p \in Places(K) : src[p] = q
    <2>a. /\ q = <<q[1], q[2]>> /\ q[1] \in Lists /\ q[2] \in Nat /\ q[2] >= 1 /\ q[2] <= Len(L[q[1]])
          /\ q[1] \in Nat /\ Len(L[q[1]]) \in Nat /\ Len(K[q[1]]) \in Nat
      BY <1>l, <1>q
    <2>1. CASE q[1] \notin (i + 1)..k
      <3>1. q[1] = i => Len(K[q[1]]) = Len(L[q[1]]) + 1
        BY <1>l, <2>a
      <3>2. q[1] # i => Len(K[q[1]]) = Len(L[q[1]])
        BY <1>n, <1>l, <2>1, <2>a
      <3>3. q[2] \in 1..Len(K[q[1]])
        BY <2>a, <3>1, <3>2
      <3>4. q \in Places(K)
        BY <2>a, <3>3, PlaceIntro
      <3>5. ~AtEnd(q)
        BY <1>n, <2>1, <2>a, <3>1
      <3>. QED
        BY <1>4, <2>1, <3>4, <3>5
    <2>2. CASE q[1] \in (i + 1)..k /\ q[2] = 1
      <3>1. PICK u : u = q[1] - 1
        OBVIOUS
      <3>2. u \in i..(k - 1) /\ u \in Lists /\ u + 1 = q[1]
        BY <1>n, <2>2, <3>1
      <3>3. Len(K[u]) \in Nat /\ Len(K[u]) >= 1
        <4>1. u = i => Len(K[u]) = Len(L[u]) + 1
          BY <1>l, <3>2
        <4>2. u # i => Len(K[u]) = Len(L[u]) /\ Len(L[u]) > 0
          BY <1>n, <1>l, <3>2
        <4>. QED
          BY <1>n, <3>2, <4>1, <4>2
      <3>4. Len(K[u]) \in 1..Len(K[u])
        BY <3>3
      <3>5. PICK p : p = <<u, Len(K[u])>>
        OBVIOUS
      <3>6. p \in Places(K) /\ p[1] = u /\ p[2] = Len(K[u])
        BY <3>2, <3>4, <3>5, PlaceIntro
      <3>7. src[p] = <<u + 1, 1>>
        BY <1>2, <3>2, <3>6
      <3>. QED
        BY <2>2, <2>a, <3>2, <3>6, <3>7
    <2>3. CASE q[1] \in (i + 1)..k /\ q[2] # 1
      <3>1. PICK m : m = q[2] - 1
        OBVIOUS
      <3>a. q[1] = k => Len(K[q[1]]) = Len(L[q[1]]) - 1
        BY <1>l, <2>a
      <3>b. q[1] # k => Len(K[q[1]]) = Len(L[q[1]])
        BY <1>n, <1>l, <2>3, <2>a
      <3>2. m \in 1..Len(K[q[1]]) /\ m + 1 = q[2] /\ (q[1] # k => m # Len(K[q[1]]))
        BY <2>a, <2>3, <3>1, <3>a, <3>b
      <3>3. PICK p : p = <<q[1], m>>
        OBVIOUS
      <3>4. p \in Places(K) /\ p[1] = q[1] /\ p[2] = m
        BY <2>a, <3>2, <3>3, PlaceIntro
      <3>5. ~AtEnd(p)
        BY <1>n, <2>3, <3>2, <3>4
      <3>6. src[p] = <<q[1], m + 1>>
        BY <1>3, <2>3, <3>4, <3>5
      <3>. QED
        BY <2>a, <3>2, <3>4, <3>6
    <2>. QED
      BY <2>1, <2>2, <2>3
  <1>. HIDE DEF src
  <1>6. ASSUME NEW p \in Places(K)
        PROVE  /\ src[p][1] \in Nat /\ src[p][2] \in Nat /\ src[p][1] >= p[1] /\ p[1] \in Nat
               /\ AtEnd(p) => src[p][1] = p[1] + 1 /\ src[p][2] = 1
               /\ ~AtEnd(p) => src[p][1] = p[1]
                     /\ src[p][2] = IF p[1] \in (i + 1)..k THEN p[2] + 1 ELSE p[2]
    <2>1. p[1] \in Nat /\ p[2] \in Nat
      BY <1>n, <1>p
    <2>2. CASE AtEnd(p)
      BY <1>2, <2>1, <2>2
    <2>3. CASE ~AtEnd(p) /\ p[1] \in (i + 1)..k
      BY <1>3, <2>1, <2>3
    <2>4. CASE ~AtEnd(p) /\ p[1] \notin (i + 1)..k
      BY <1>4, <2>1, <2>4
    <2>. QED
      BY <2>2, <2>3, <2>4
  <1>7. ASSUME NEW p \in Places(K), NEW q \in Places(K), Lex(p, q) PROVE Lex(src[p], src[q])
    <2>1. /\ p[2] \in Nat /\ q[2] \in Nat /\ p[2] >= 1 /\ q[2] >= 1
          /\ p[2] <= Len(K[p[1]]) /\ q[2] <= Len(K[q[1]]) /\ Len(K[p[1]]) \in Nat /\ Len(K[q[1]]) \in Nat
          /\ p[1] \in Nat /\ q[1] \in Nat
          /\ p[1] < q[1] \/ (p[1] = q[1] /\ p[2] < q[2])
      BY <1>n, <1>p, <1>7 DEF Lex
    <2>2. CASE p[1] = q[1]
      <3>1. ~AtEnd(p) /\ p[2] < q[2]
        BY <2>1, <2>2
      <3>2. CASE AtEnd(q)
        BY <1>6, <2>1, <2>2, <3>1, <3>2 DEF Lex
      <3>3. CASE ~AtEnd(q)
        BY <1>6, <2>1, <2>2, <3>1, <3>3 DEF Lex
      <3>. QED
        BY <3>2, <3>3
    <2>3. CASE p[1] < q[1]
      <3>1. CASE ~AtEnd(p)
        BY <1>6, <2>1, <2>3, <3>1 DEF Lex
      <3>2. CASE AtEnd(p) /\ q[1] > p[1] + 1
        BY <1>6, <2>1, <2>3, <3>2 DEF Lex
      <3>3. CASE AtEnd(p) /\ q[1] = p[1] + 1
        <4>1. q[1] \in (i + 1)..k
          BY <1>n, <2>1, <3>3
        <4>2. CASE AtEnd(q)
          BY <1>6, <2>1, <3>3, <4>2 DEF Lex
        <4>3. CASE ~AtEnd(q)
          BY <1>6, <2>1, <3>3, <4>1, <4>3 DEF Lex
        <4>. QED
          BY <4>2, <4>3
      <3>. QED
        BY <2>1, <2>3, <3>1, <3>2, <3>3
    <2>. QED
      BY <2>1, <2>2, <2>3
  <1>8. ASSUME NEW p \in Places(K)
        PROVE  /\ src[p] \in Places(L) \ {} /\ At(K, p) = At(L, src[p])
               /\ p[1] = src[p][1] \/ (p[1] \in i..k /\ src[p][1] \in i..k)
    <2>1. CASE AtEnd(p)
      <3>1. p[1] \in i..k
        BY <1>n, <2>1
      <3>. QED
        BY <1>2, <2>1, <3>1
    <2>2. CASE ~AtEnd(p) /\ p[1] \in (i + 1)..k
      BY <1>3, <2>2
    <2>3. CASE ~AtEnd(p) /\ p[1] \notin (i + 1)..k
      BY <1>4, <2>3
    <2>. QED
      BY <2>1, <2>2, <2>3
  <1>9. Rearranged(L, K, i..k, {}, src)
    BY <1>5, <1>7, <1>8 DEF Rearranged
  <1>. QED
    BY <1>9, RearrangedIsSame

----------------------------------------------------------------------------
(* The two operations on the buffers.                                      *)
LEMMA Ends ==
    ASSUME NEW q \in Seq(Blocks), Len(q) > 0
    PROVE  /\ Front(q) \in Seq(Blocks) /\ Len(Front(q)) = Len(q) - 1
           /\ \A j \in 1..(Len(q) - 1) : Front(q)[j] = q[j]
           /\ Tail(q) \in Seq(Blocks) /\ Len(Tail(q)) = Len(q) - 1
           /\ \A j \in 1..(Len(q) - 1) : Tail(q)[j] = q[j + 1]
           /\ Last(q) = q[Len(q)] /\ Last(q) \in Blocks
           /\ Head(q) = q[1] /\ Head(q) \in Blocks /\ q # <<>>
  <1>1. Len(q) \in Nat /\ q # <<>> /\ \A j \in 1..Len(q) : q[j] \in Blocks
    BY ElementOfSeq, EmptySeq
  <1>2. /\ Front(q) \in Seq(Blocks) /\ Len(Front(q)) = Len(q) - 1
        /\ \A j \in 1..(Len(q) - 1) : Front(q)[j] = q[j]
    <2>1. 1 \in Int /\ Len(q) - 1 \in Int /\ \A j \in 1..(Len(q) - 1) : q[j] \in Blocks
      BY <1>1
    <2>2. PICK n : n = Len(q) - 1
      OBVIOUS
    <2>3. n \in Int /\ n >= 0
      BY <1>1, <2>2
    <2>4. PICK f : f = SubSeq(q, 1, n)
      OBVIOUS
    <2>5. /\ f \in Seq(Blocks) /\ Len(f) = IF 1 <= n THEN n - 1 + 1 ELSE 0
          /\ \A j \in 1..(n - 1 + 1) : f[j] = q[1 + j - 1]
      BY <2>1, <2>2, <2>4, SubSeqProperties
    <2>6. f \in Seq(Blocks) /\ Len(f) = n /\ \A j \in 1..n : f[j] = q[j]
      BY <2>3, <2>5
    <2>7. f = Front(q)
      BY <2>2, <2>4 DEF Front
    <2>. QED
      BY <2>2, <2>6, <2>7
  <1>3. /\ Tail(q) \in Seq(Blocks) /\ Len(Tail(q)) = Len(q) - 1
        /\ \A j \in 1..Len(Tail(q)) : Tail(q)[j] = q[j + 1]
    BY <1>1, HeadTailProperties
  <1>4. Head(q) = q[1]
    BY <1>1
  <1>. QED
    BY <1>1, <1>2, <1>3, <1>4 DEF Last

(* A block in front of a sequence, and behind it. *)
LEMMA Joined ==
    ASSUME NEW q \in Seq(Blocks), NEW r \in Seq(Blocks), NEW b \in Blocks
    PROVE  /\ <<b>> \o q \in Seq(Blocks) /\ Len(<<b>> \o q) = Len(q) + 1 /\ (<<b>> \o q)[1] = b
           /\ \A j \in 2..(Len(q) + 1) : (<<b>> \o q)[j] = q[j - 1]
           /\ q \o <<b>> \in Seq(Blocks) /\ Len(q \o <<b>>) = Len(q) + 1
           /\ \A j \in 1..Len(q) : (q \o <<b>>)[j] = q[j]
           /\ (q \o <<b>>)[Len(q) + 1] = b
           /\ q \o <<>> = q
  <1>1. <<b>> \in Seq(Blocks) /\ Len(<<b>>) = 1 /\ <<b>>[1] = b /\ Len(q) \in Nat
    OBVIOUS
  <1>2. /\ <<b>> \o q \in Seq(Blocks) /\ Len(<<b>> \o q) = 1 + Len(q)
        /\ \A i \in 1..(1 + Len(q)) : (<<b>> \o q)[i] = IF i <= 1 THEN <<b>>[i] ELSE q[i - 1]
    BY <1>1, ConcatProperties, Zenon
  <1>3. /\ q \o <<b>> \in Seq(Blocks) /\ Len(q \o <<b>>) = Len(q) + 1
        /\ \A i \in 1..(Len(q) + 1) : (q \o <<b>>)[i] = IF i <= Len(q) THEN q[i] ELSE <<b>>[i - Len(q)]
    BY <1>1, ConcatProperties, Zenon
  <1>4. q \o <<>> = q
    BY ConcatEmptySeq
  <1>5. (<<b>> \o q)[1] = b /\ \A j \in 2..(Len(q) + 1) : (<<b>> \o q)[j] = q[j - 1]
    BY <1>1, <1>2
  <1>6. \A j \in 1..Len(q) : (q \o <<b>>)[j] = q[j]
    BY <1>1, <1>3
  <1>7. (q \o <<b>>)[Len(q) + 1] = b
    <2>1. /\ Len(q) + 1 \in 1..(Len(q) + 1) /\ ~(Len(q) + 1 <= Len(q))
          /\ Len(q) + 1 - Len(q) = 1
      BY <1>1
    <2>. QED
      BY <1>1, <1>3, <2>1
  <1>. QED
    BY <1>1, <1>2, <1>3, <1>4, <1>5, <1>6, <1>7

(* What a move from list to list in i..k, one of them longer by one and    *)
(* one shorter perhaps, does to the buffers.                               *)
LEMMA MoveKeeps ==
    ASSUME NEW s, Good(s), NEW K \in ListsType, NEW R, SameBuffers(s.list, K, R),
           R \subseteq Segments \/ R \subseteq GhostLists, NEW z \in BufsType,
           z.list = K, z.loop = s.loop, z.sum = s.sum, \A t \in Lists : z.used[t] = Len(K[t])
    PROVE  /\ Good(z) /\ \A S : Whole(S, R) => Held(z.list, S) = Held(s.list, S)
           /\ \A S : Whole(S, R) => Ranked(z.list, S) = Ranked(s.list, S)
           /\ Order(z.list) = Order(s.list)
           /\ Whole(Lists, R) /\ Whole(Segments, R) /\ Whole(SeqLists, R) /\ Whole(GhostLists, R)
  <1>1. Segments \cap GhostLists = {} /\ SeqLists \cap GhostLists = {} /\ SeqLists \cap Segments = {}
    BY ListNumbers DEF SeqLists, GhostLists
  <1>2. Segments \subseteq Lists /\ GhostLists \subseteq Lists
    BY ListNumbers DEF GhostLists
  <1>3. Whole(Lists, R) /\ Whole(Segments, R) /\ Whole(SeqLists, R) /\ Whole(GhostLists, R)
    <2>1. CASE R \subseteq Segments
      BY <1>1, <1>2, <2>1 DEF Whole
    <2>2. CASE R \subseteq GhostLists
      BY <1>1, <1>2, <2>2 DEF Whole
    <2>. QED
      BY <2>1, <2>2
  <1>4. /\ Distinct(z.list) /\ \A S : Whole(S, R) => Held(z.list, S) = Held(s.list, S)
        /\ \A S : Whole(S, R) => Ranked(z.list, S) = Ranked(s.list, S)
        /\ Order(z.list) = Order(s.list)
    BY <1>3 DEF SameBuffers, Order
  <1>5. Held(z.list, Lists) = Held(s.list, Lists) /\ Held(z.list, Segments) = Held(s.list, Segments)
    BY <1>3, <1>4
  <1>6. Summed(z) = Summed(s)
    BY <1>5 DEF Summed
  <1>7. z.sum = Cardinality(Summed(z))
    BY <1>6, GoodType
  <1>8. Good(z)
    BY <1>4, <1>5, <1>7, GoodType DEF Good
  <1>. QED
    BY <1>3, <1>4, <1>8

(* PulledUp moves buffers between lists of one kind, keeps their order,    *)
(* and moves one unit of use from the last list to the first.              *)
LEMMA PulledUpKeeps ==
    ASSUME NEW s, Good(s), NEW i \in Lists, NEW k \in Lists, i <= k,
           i..k \subseteq Segments \/ i..k \subseteq GhostLists,
           \A t \in (i + 1)..k : s.used[t] > 0, NEW z, z = PulledUp(s, i, k)
    PROVE  /\ Good(z) /\ z.loop = s.loop /\ Order(z.list) = Order(s.list)
           /\ \A S : Whole(S, i..k) => Held(z.list, S) = Held(s.list, S)
           /\ \A S : Whole(S, i..k) => Ranked(z.list, S) = Ranked(s.list, S)
           /\ \A t \in Lists : z.used[t] = IF i = k \/ t \notin {i, k} THEN s.used[t]
                                           ELSE IF t = i THEN s.used[t] + 1 ELSE s.used[t] - 1
  <1>g. /\ s \in BufsType /\ s.list \in ListsType /\ s.used \in [Lists -> Nat] /\ s.sum \in Nat
        /\ Distinct(s.list) /\ s.loop \in SUBSET Blocks
    BY GoodType
  <1>u. \A t \in Lists : s.used[t] = Len(s.list[t]) /\ s.used[t] \in Nat /\ s.list[t] \in Seq(Blocks)
    BY <1>g DEF Good, ListsType
  <1>n. i \in Nat /\ k \in Nat /\ i..k \subseteq Lists
    BY ListNumbers
  <1>1. CASE i = k
    <2>1. z = s
      BY <1>1 DEF PulledUp
    <2>. QED
      BY <1>1, <2>1
  <1>2. CASE i # k
    <2> DEFINE K == [t \in Lists |->
                       (IF t \in (i + 1)..k THEN Tail(s.list[t]) ELSE s.list[t])
                       \o (IF t \in i..(k - 1) THEN <<Head(s.list[t + 1])>> ELSE <<>>)]
               U == [s.used EXCEPT ![i] = @ + 1, ![k] = @ - 1]
    <2>1. z = [list |-> K, used |-> U, loop |-> s.loop, sum |-> s.sum, fault |-> FALSE]
      BY <1>g, <1>2 DEF PulledUp, BufsType
    <2>a. i < k
      BY <1>2, <1>n
    <2>2. ASSUME NEW t \in (i + 1)..k
          PROVE  /\ t \in Lists /\ t - 1 \in Lists /\ Len(s.list[t]) > 0 /\ Len(s.list[t]) \in Nat
                 /\ Head(s.list[t]) = s.list[t][1] /\ Head(s.list[t]) \in Blocks
                 /\ Tail(s.list[t]) \in Seq(Blocks) /\ Len(Tail(s.list[t])) = Len(s.list[t]) - 1
                 /\ \A j \in 1..(Len(s.list[t]) - 1) : Tail(s.list[t])[j] = s.list[t][j + 1]
      <3>1. t \in i..k /\ t - 1 \in i..k
        BY <1>n
      <3>2. t \in Lists /\ t - 1 \in Lists
        BY <1>n, <3>1
      <3>3. s.list[t] \in Seq(Blocks) /\ Len(s.list[t]) > 0 /\ Len(s.list[t]) \in Nat
        BY <1>u, <3>2
      <3>. QED
        BY <3>2, <3>3, Ends
    <2>3. ASSUME NEW t \in Lists, t \notin i..k PROVE K[t] = s.list[t]
      <3>1. t \notin (i + 1)..k /\ t \notin i..(k - 1)
        BY <1>n, <2>3
      <3>2. K[t] = s.list[t] \o <<>>
        BY <3>1
      <3>. QED
        BY <1>u, <3>2, ConcatEmptySeq
    <2>4. K[k] = Tail(s.list[k])
      <3>1. k \in (i + 1)..k /\ k \notin i..(k - 1)
        BY <1>n, <2>a
      <3>2. K[k] = Tail(s.list[k]) \o <<>>
        BY <3>1
      <3>. QED
        BY <2>2, <3>1, <3>2, ConcatEmptySeq
    <2>5. K[i] = s.list[i] \o <<s.list[i + 1][1]>> /\ s.list[i + 1][1] \in Blocks
      <3>1. i \in i..(k - 1) /\ i \notin (i + 1)..k /\ i + 1 \in (i + 1)..k
        BY <1>n, <2>a
      <3>. QED
        BY <2>2, <3>1
    <2>6. ASSUME NEW t \in (i + 1)..(k - 1)
          PROVE  /\ K[t] = Tail(s.list[t]) \o <<s.list[t + 1][1]>> /\ s.list[t + 1][1] \in Blocks
                 /\ t \in (i + 1)..k /\ t \in Lists /\ t + 1 \in Lists
      <3>1. t \in i..(k - 1) /\ t \in (i + 1)..k /\ t + 1 \in (i + 1)..k
        BY <1>n
      <3>. QED
        BY <2>2, <3>1
    <2>. HIDE DEF K
    <2>7. /\ K[i] \in Seq(Blocks) /\ Len(K[i]) = Len(s.list[i]) + 1
          /\ \A j \in 1..Len(s.list[i]) : K[i][j] = s.list[i][j]
          /\ K[i][Len(s.list[i]) + 1] = s.list[i + 1][1]
      BY <1>u, <2>5, Joined
    <2>8. ASSUME NEW t \in (i + 1)..(k - 1)
          PROVE  /\ K[t] \in Seq(Blocks) /\ Len(K[t]) = Len(s.list[t])
                 /\ \A j \in 1..(Len(s.list[t]) - 1) : K[t][j] = s.list[t][j + 1]
                 /\ K[t][Len(K[t])] = s.list[t + 1][1]
      <3>1. PICK q : q = Tail(s.list[t])
        OBVIOUS
      <3>2. PICK b : b = s.list[t + 1][1]
        OBVIOUS
      <3>3. /\ q \in Seq(Blocks) /\ Len(q) = Len(s.list[t]) - 1 /\ b \in Blocks
            /\ Len(s.list[t]) \in Nat /\ K[t] = q \o <<b>>
            /\ \A j \in 1..(Len(s.list[t]) - 1) : q[j] = s.list[t][j + 1]
        BY <2>2, <2>6, <3>1, <3>2
      <3>4. /\ q \o <<b>> \in Seq(Blocks) /\ Len(q \o <<b>>) = Len(q) + 1
            /\ \A j \in 1..Len(q) : (q \o <<b>>)[j] = q[j]
            /\ (q \o <<b>>)[Len(q) + 1] = b
        BY <3>3, Joined
      <3>5. Len(K[t]) = Len(s.list[t]) /\ Len(K[t]) = Len(q) + 1
        BY <3>3, <3>4
      <3>. QED
        BY <3>2, <3>3, <3>4, <3>5
    <2>9. K \in ListsType
      <3>1. ASSUME NEW t \in Lists PROVE K[t] \in Seq(Blocks)
        <4>1. CASE t \notin i..k
          BY <1>u, <2>3, <4>1
        <4>2. CASE t = k
          <5>1. k \in (i + 1)..k
            BY <1>n, <2>a
          <5>. QED
            BY <2>2, <2>4, <4>2, <5>1
        <4>3. CASE t = i
          BY <2>7, <4>3
        <4>4. CASE t \in (i + 1)..(k - 1)
          BY <2>8, <4>4
        <4>. QED
          BY <1>n, <2>a, <4>1, <4>2, <4>3, <4>4
      <3>2. K = [t \in Lists |-> K[t]]
        BY DEF K
      <3>. QED
        BY <3>1, <3>2 DEF ListsType
    <2>10. Pulled(s.list, K, i, k)
      <3>1. \A t \in (i + 1)..k : Len(s.list[t]) > 0
        BY <2>2
      <3>2. ASSUME NEW t \in Lists \ {i, k} PROVE Len(K[t]) = Len(s.list[t])
        <4>1. CASE t \notin i..k
          BY <2>3, <4>1
        <4>2. CASE t \in i..k
          <5>1. t \in (i + 1)..(k - 1)
            BY <1>n, <4>2
          <5>. QED
            BY <2>8, <5>1
        <4>. QED
          BY <4>1, <4>2
      <3>3. Len(K[i]) = Len(s.list[i]) + 1 /\ Len(K[k]) = Len(s.list[k]) - 1
        <4>1. k \in (i + 1)..k
          BY <1>n, <2>a
        <4>. QED
          BY <2>2, <2>4, <2>7, <4>1
      <3>4. ASSUME NEW t \in Lists \ ((i + 1)..k), NEW j \in 1..Len(s.list[t])
            PROVE  K[t][j] = s.list[t][j]
        <4>1. t = i \/ t \notin i..k
          BY <1>n
        <4>. QED
          BY <2>3, <2>7, <4>1
      <3>5. ASSUME NEW t \in (i + 1)..k, NEW j \in 1..(Len(s.list[t]) - 1)
            PROVE  K[t][j] = s.list[t][j + 1]
        <4>1. CASE t = k
          BY <2>2, <2>4, <4>1
        <4>2. CASE t # k
          <5>1. t \in (i + 1)..(k - 1)
            BY <1>n, <4>2
          <5>. QED
            BY <2>8, <5>1
        <4>. QED
          BY <4>1, <4>2
      <3>6. ASSUME NEW t \in i..(k - 1) PROVE K[t][Len(K[t])] = s.list[t + 1][1]
        <4>1. CASE t = i
          BY <2>7, <4>1
        <4>2. CASE t # i
          <5>1. t \in (i + 1)..(k - 1)
            BY <1>n, <4>2
          <5>. QED
            BY <2>8, <5>1
        <4>. QED
          BY <4>1, <4>2
      <3>. QED
        BY <3>1, <3>2, <3>3, <3>4, <3>5, <3>6 DEF Pulled
    <2>11. SameBuffers(s.list, K, i..k)
      BY <1>g, <2>a, <2>9, <2>10, PulledKeeps
    <2>12. k \in (i + 1)..k /\ s.used[k] \in Nat /\ s.used[i] \in Nat /\ s.used[k] > 0
      BY <1>n, <1>u, <2>a
    <2>13. /\ U \in [Lists -> Nat]
           /\ \A t \in Lists : U[t] = IF t \notin {i, k} THEN s.used[t]
                                      ELSE IF t = i THEN s.used[t] + 1 ELSE s.used[t] - 1
      BY <1>g, <2>a, <2>12
    <2>14. \A t \in Lists : U[t] = Len(K[t])
      <3>1. \A t \in Lists \ {i, k} : Len(K[t]) = Len(s.list[t])
        BY <2>10 DEF Pulled
      <3>2. Len(K[i]) = Len(s.list[i]) + 1 /\ Len(K[k]) = Len(s.list[k]) - 1
        BY <2>10 DEF Pulled
      <3>. QED
        BY <1>u, <2>a, <2>13, <3>1, <3>2
    <2>. HIDE DEF U
    <2>15. /\ z \in BufsType /\ z.list = K /\ z.used = U /\ z.loop = s.loop /\ z.sum = s.sum
      BY <1>g, <2>1, <2>9, <2>13, SMTT(20) DEF BufsType
    <2>16. /\ Good(z) /\ \A S : Whole(S, i..k) => Held(z.list, S) = Held(s.list, S)
           /\ \A S : Whole(S, i..k) => Ranked(z.list, S) = Ranked(s.list, S)
           /\ Order(z.list) = Order(s.list)
      <3>1. \A t \in Lists : z.used[t] = Len(K[t])
        BY <2>14, <2>15
      <3>. QED
        BY <2>9, <2>11, <2>15, <3>1, MoveKeeps
    <2>. QED
      BY <1>2, <2>13, <2>15, <2>16
  <1>. QED
    BY <1>1, <1>2

(* PushedAlong puts a new block into the first list and makes the last one *)
(* longer by one.                                                          *)
LEMMA PushedAlongKeeps ==
    ASSUME NEW s, Good(s), NEW i \in Lists, NEW k \in Lists, i <= k,
           i..k \subseteq Segments \/ i..k \subseteq GhostLists,
           NEW b \in Blocks \ All(s), NEW z, z = PushedAlong(s, i, k, b)
    PROVE  /\ Good(z) /\ z.loop = s.loop
           /\ \A S : Whole(S, i..k) => Held(z.list, S) = Held(s.list, S) \cup If(i, S, b)
           /\ \A S : Whole(S, i..k) /\ i \notin S => Ranked(z.list, S) = Ranked(s.list, S)
           /\ i = OTHLRU0 => Order(z.list) = Order(s.list) \cup ({b} \X Held(s.list, Segments))
           /\ \A t \in Lists : z.used[t] = IF t = k THEN s.used[t] + 1 ELSE s.used[t]
  <1>g. /\ s \in BufsType /\ s.list \in ListsType /\ s.used \in [Lists -> Nat] /\ s.sum \in Nat
        /\ Distinct(s.list) /\ s.loop \in SUBSET Blocks
    BY GoodType
  <1>u. \A t \in Lists : s.used[t] = Len(s.list[t]) /\ s.used[t] \in Nat /\ s.list[t] \in Seq(Blocks)
                         /\ Len(s.list[t]) \in Nat /\ (s.list[t] # <<>> <=> Len(s.list[t]) > 0)
    BY <1>g, EmptySeq DEF Good, ListsType
  <1>n. i \in Nat /\ k \in Nat /\ i..k \subseteq Lists
    BY ListNumbers
  <1>1. PICK r : r = lruin(s, i, b)
    OBVIOUS
  <1>2. /\ Good(r) /\ r.loop = s.loop
        /\ \A S : Held(r.list, S) = Held(s.list, S) \cup If(i, S, b)
        /\ i = OTHLRU0 => Order(r.list) = Order(s.list) \cup ({b} \X Held(s.list, Segments))
    <2>1. /\ Good(r) /\ r.loop = s.loop
          /\ \A S : Held(r.list, S) = Held(s.list, S) \cup If(i, S, b)
      BY <1>1, lruinKeeps
    <2>2. i = OTHLRU0 => Order(r.list) = Order(s.list) \cup ({b} \X Held(s.list, Segments))
      BY <1>1, lruinKeeps
    <2>. QED
      BY <2>1, <2>2
  <1>r. \A S : i \notin S => Ranked(r.list, S) = Ranked(s.list, S)
    BY <1>1, lruinKeeps
  <1>3. r.list = Inserted(s.list, i, b) /\ r.sum = s.sum + Counted(i)
    BY <1>g, <1>1 DEF lruin, BufsType, Inserted
  <1> DEFINE L == r.list
             before(t) == {u \in i..(t - 1) : s.list[u] # <<>>}
             in(t) == IF before(t) = {} THEN b ELSE Last(s.list[Max(before(t))])
             prev == [t \in (i + 1)..k |-> Max({u \in i..(t - 1) : Len(L[u]) > 0})]
             K == [t \in Lists |->
                     IF t = k THEN <<in(t)>> \o s.list[t]
                     ELSE IF t \in i..k /\ s.list[t] # <<>> THEN <<in(t)>> \o Front(s.list[t])
                     ELSE s.list[t]]
             U == [s.used EXCEPT ![k] = @ + 1]
  <1>4. z = [list |-> K, used |-> U, loop |-> s.loop, sum |-> s.sum + Counted(k), fault |-> FALSE]
    BY <1>g DEF PushedAlong, BufsType
  <1>5. /\ L \in ListsType /\ Distinct(L) /\ \A t \in Lists \ {i} : L[t] = s.list[t]
        /\ L[i] \in Seq(Blocks) /\ Len(L[i]) = Len(s.list[i]) + 1 /\ L[i][1] = b
        /\ \A j \in 2..(Len(s.list[i]) + 1) : L[i][j] = s.list[i][j - 1]
        /\ L[i] = <<b>> \o s.list[i]
    <2>1. L[i] = <<b>> \o s.list[i] /\ \A t \in Lists \ {i} : L[t] = s.list[t]
      BY <1>g, <1>3 DEF Inserted, ListsType
    <2>2. /\ <<b>> \o s.list[i] \in Seq(Blocks) /\ Len(<<b>> \o s.list[i]) = Len(s.list[i]) + 1
          /\ (<<b>> \o s.list[i])[1] = b
          /\ \A j \in 2..(Len(s.list[i]) + 1) : (<<b>> \o s.list[i])[j] = s.list[i][j - 1]
      BY <1>u, Joined
    <2>3. L \in ListsType /\ Distinct(L)
      BY <1>2, GoodType
    <2>. QED
      BY <2>1, <2>2, <2>3
  <1>6. ASSUME NEW t \in (i + 1)..k
        PROVE  /\ prev[t] \in i..(t - 1) /\ Len(L[prev[t]]) > 0
               /\ \A u \in (prev[t] + 1)..(t - 1) : Len(L[u]) = 0
               /\ in(t) = L[prev[t]][Len(L[prev[t]])] /\ in(t) \in Blocks
    <2> DEFINE P == {u \in i..(t - 1) : Len(L[u]) > 0}
    <2>n. t \in Nat /\ t - 1 \in Nat /\ t - 1 >= i /\ i..(t - 1) \subseteq Lists
      BY <1>n
    <2>1. P \in SUBSET (0..(t - 1)) /\ i \in P
      <3>1. Len(L[i]) > 0
        BY <1>5, <1>u
      <3>. QED
        BY <1>n, <2>n, <3>1
    <2>2. Max(P) \in P /\ \A u \in P : Max(P) >= u
      <3>. HIDE DEF P
      <3>. QED
        BY <2>n, <2>1, MaxIsGreatest
    <2>3. prev[t] = Max(P)
      OBVIOUS
    <2>4. prev[t] \in i..(t - 1) /\ Len(L[prev[t]]) > 0 /\ prev[t] \in Lists /\ prev[t] \in Nat
      BY <1>n, <2>n, <2>2, <2>3
    <2>5. ASSUME NEW u \in (prev[t] + 1)..(t - 1) PROVE Len(L[u]) = 0
      <3>1. u \in i..(t - 1) /\ u > prev[t] /\ u \in Lists
        BY <1>n, <2>n, <2>4
      <3>2. u \notin P
        BY <2>2, <2>3, <2>4, <3>1
      <3>3. Len(L[u]) \in Nat
        BY <1>5, <3>1 DEF ListsType
      <3>. QED
        BY <3>1, <3>2, <3>3
    <2>6. P = before(t) \cup {i}
      <3>1. ASSUME NEW u \in i..(t - 1), u # i PROVE Len(L[u]) > 0 <=> s.list[u] # <<>>
        BY <1>5, <1>u, <2>n, <3>1
      <3>. QED
        BY <2>1, <3>1
    <2>7. CASE before(t) = {}
      <3>1. in(t) = b /\ P = {i}
        BY <2>6, <2>7
      <3>2. prev[t] = i
        BY <2>2, <2>3, <3>1
      <3>3. i \in i..(t - 1)
        BY <1>n, <2>n
      <3>4. ~(Len(s.list[i]) > 0)
        BY <1>u, <2>7, <3>3
      <3>5. Len(s.list[i]) = 0
        BY <1>u, <3>4
      <3>6. Len(L[i]) = 1
        BY <1>5, <3>5
      <3>. QED
        BY <1>5, <2>4, <2>5, <3>1, <3>2, <3>6
    <2>8. CASE before(t) # {}
      <3>1. before(t) \in SUBSET (0..(t - 1))
        BY <1>n, <2>n
      <3>2. Max(before(t)) \in before(t) /\ \A u \in before(t) : Max(before(t)) >= u
        <4>1. PICK B : B = before(t)
          OBVIOUS
        <4>2. Max(B) \in B /\ \A u \in B : Max(B) >= u
          BY <2>n, <2>8, <3>1, <4>1, MaxIsGreatest
        <4>. QED
          BY <4>1, <4>2
      <3>3. PICK m : m = Max(before(t))
        OBVIOUS
      <3>4. m \in i..(t - 1) /\ s.list[m] # <<>> /\ m \in Lists /\ m \in Nat /\ m >= i
        BY <1>n, <2>n, <3>2, <3>3
      <3>5. prev[t] = m
        <4>1. m \in P /\ \A u \in P : m >= u
          BY <2>6, <3>2, <3>3, <3>4
        <4>. QED
          <5>1. prev[t] >= m /\ m >= prev[t]
            BY <2>2, <2>3, <4>1
          <5>2. prev[t] \in Int /\ m \in Int
            BY <2>4, <3>4
          <5> DEFINE x == prev[t]
          <5>. HIDE DEF x
          <5>3. x >= m /\ m >= x /\ x \in Int
            BY <5>1, <5>2 DEF x
          <5>4. x = m
            BY <5>2, <5>3
          <5>. QED
            BY <5>4 DEF x
      <3>6. in(t) = Last(s.list[m])
        BY <2>8, <3>3
      <3>7. Last(s.list[m]) = s.list[m][Len(s.list[m])] /\ Last(s.list[m]) \in Blocks
        BY <1>u, <3>4, Ends
      <3>8. L[m][Len(L[m])] = s.list[m][Len(s.list[m])]
        <4>1. CASE m = i
          <5>1. /\ Len(L[i]) \in 2..(Len(s.list[i]) + 1) /\ Len(L[i]) - 1 = Len(s.list[i])
            BY <1>5, <1>u, <3>4, <4>1
          <5>2. L[i][Len(L[i])] = s.list[i][Len(L[i]) - 1]
            BY <1>5, <5>1
          <5>. QED
            BY <4>1, <5>1, <5>2
        <4>2. CASE m # i
          BY <1>5, <3>4, <4>2
        <4>. QED
          BY <4>1, <4>2
      <3>. QED
        BY <2>4, <2>5, <3>5, <3>6, <3>7, <3>8
    <2>. QED
      BY <2>7, <2>8
  <1>7. before(i) = {} /\ in(i) = b
    BY <1>n
  <1>8. \A t \in i..k : in(t) \in Blocks
    <2>1. \A t \in i..k : t = i \/ t \in (i + 1)..k
      BY <1>n
    <2>. QED
      BY <1>6, <1>7, <2>1
  <1>9. ASSUME NEW t \in Lists
        PROVE  K[t] = IF t = k THEN <<in(t)>> \o s.list[t]
                      ELSE IF t \in i..k /\ s.list[t] # <<>> THEN <<in(t)>> \o Front(s.list[t])
                      ELSE s.list[t]
    OBVIOUS
  <1>. HIDE DEF K, prev, before, in
  <1>10. ASSUME NEW t \in Lists, t \notin i..k PROVE K[t] = L[t]
    <2>1. t # i /\ t # k
      BY <1>n, <1>10
    <2>. QED
      BY <1>5, <1>9, <1>10, <2>1
  <1>11. ASSUME i = k PROVE K[i] = L[i]
    BY <1>5, <1>7, <1>9, <1>11
  <1>12. ASSUME i # k
         PROVE  /\ K[i] \in Seq(Blocks) /\ Len(K[i]) = Len(s.list[i])
                /\ \A j \in 1..Len(s.list[i]) : K[i][j] = L[i][j]
    <2>0. i \in i..k
      BY <1>n
    <2>1. CASE s.list[i] = <<>>
      <3>1. K[i] = s.list[i] /\ Len(s.list[i]) = 0
        BY <1>9, <1>12, <2>1
      <3>. QED
        BY <1>u, <3>1
    <2>2. CASE s.list[i] # <<>>
      <3>1. K[i] = <<b>> \o Front(s.list[i])
        BY <1>7, <1>9, <1>12, <2>0, <2>2
      <3>2. PICK f : f = Front(s.list[i])
        OBVIOUS
      <3>3. /\ f \in Seq(Blocks) /\ Len(f) = Len(s.list[i]) - 1 /\ Len(s.list[i]) \in Nat
            /\ \A j \in 1..(Len(s.list[i]) - 1) : f[j] = s.list[i][j]
        BY <1>u, <2>2, <3>2, Ends
      <3>4. /\ <<b>> \o f \in Seq(Blocks) /\ Len(<<b>> \o f) = Len(f) + 1 /\ (<<b>> \o f)[1] = b
            /\ \A j \in 2..(Len(f) + 1) : (<<b>> \o f)[j] = f[j - 1]
        BY <3>3, Joined
      <3>5. K[i] \in Seq(Blocks) /\ Len(K[i]) = Len(s.list[i])
        BY <3>1, <3>2, <3>3, <3>4
      <3>6. ASSUME NEW j \in 1..Len(s.list[i]) PROVE K[i][j] = L[i][j]
        <4>1. CASE j = 1
          BY <1>5, <3>1, <3>2, <3>4, <4>1
        <4>2. CASE j # 1
          <5>1. j \in 2..(Len(f) + 1) /\ j - 1 \in 1..(Len(s.list[i]) - 1) /\ j \in 2..(Len(s.list[i]) + 1)
            BY <3>3, <4>2
          <5>. QED
            BY <1>5, <3>1, <3>2, <3>3, <3>4, <5>1
        <4>. QED
          BY <4>1, <4>2
      <3>. QED
        BY <3>5, <3>6
    <2>. QED
      BY <2>1, <2>2
  <1>13. ASSUME NEW t \in (i + 1)..(k - 1)
         PROVE  /\ t \in Lists /\ K[t] \in Seq(Blocks) /\ Len(K[t]) = Len(L[t])
                /\ \A j \in 1..Len(L[t]) : K[t][j] = IF j = 1 THEN in(t) ELSE L[t][j - 1]
    <2>0. t \in i..k /\ t # k /\ t \in Lists /\ t # i /\ t \in (i + 1)..k
      BY <1>n
    <2>a. L[t] = s.list[t] /\ in(t) \in Blocks
      BY <1>5, <1>8, <2>0
    <2>1. CASE s.list[t] = <<>>
      <3>1. K[t] = s.list[t] /\ Len(s.list[t]) = 0
        BY <1>9, <2>0, <2>1
      <3>. QED
        BY <1>u, <2>0, <2>a, <3>1
    <2>2. CASE s.list[t] # <<>>
      <3>1. PICK x : x = in(t)
        OBVIOUS
      <3>2. PICK f : f = Front(s.list[t])
        OBVIOUS
      <3>3. /\ f \in Seq(Blocks) /\ Len(f) = Len(s.list[t]) - 1 /\ Len(s.list[t]) \in Nat
            /\ \A j \in 1..(Len(s.list[t]) - 1) : f[j] = s.list[t][j]
        BY <1>u, <2>0, <2>2, <3>2, Ends
      <3>4. K[t] = <<x>> \o f /\ x \in Blocks
        BY <1>9, <2>0, <2>2, <2>a, <3>1, <3>2
      <3>5. /\ <<x>> \o f \in Seq(Blocks) /\ Len(<<x>> \o f) = Len(f) + 1 /\ (<<x>> \o f)[1] = x
            /\ \A j \in 2..(Len(f) + 1) : (<<x>> \o f)[j] = f[j - 1]
        BY <3>3, <3>4, Joined
      <3>6. K[t] \in Seq(Blocks) /\ Len(K[t]) = Len(L[t])
        BY <2>a, <3>3, <3>4, <3>5
      <3>7. ASSUME NEW j \in 1..Len(L[t]) PROVE K[t][j] = IF j = 1 THEN x ELSE L[t][j - 1]
        <4>1. CASE j = 1
          BY <3>4, <3>5, <4>1
        <4>2. CASE j # 1
          <5>1. j \in 2..(Len(f) + 1) /\ j - 1 \in 1..(Len(s.list[t]) - 1)
            BY <2>a, <3>3, <4>2
          <5>. QED
            BY <2>a, <3>3, <3>4, <3>5, <4>2, <5>1
        <4>. QED
          BY <4>1, <4>2
      <3>. QED
        BY <2>0, <3>1, <3>6, <3>7
    <2>. QED
      BY <2>1, <2>2
  <1>14. ASSUME i # k
         PROVE  /\ K[k] \in Seq(Blocks) /\ Len(K[k]) = Len(L[k]) + 1
                /\ \A j \in 1..(Len(L[k]) + 1) : K[k][j] = IF j = 1 THEN in(k) ELSE L[k][j - 1]
    <2>0. k \in i..k
      BY <1>n
    <2>1. L[k] = s.list[k] /\ in(k) \in Blocks /\ s.list[k] \in Seq(Blocks) /\ Len(s.list[k]) \in Nat
      BY <1>5, <1>8, <1>u, <1>14, <2>0
    <2>2. PICK x : x = in(k)
      OBVIOUS
    <2>3. K[k] = <<x>> \o s.list[k] /\ x \in Blocks
      BY <1>9, <2>1, <2>2
    <2>4. /\ <<x>> \o s.list[k] \in Seq(Blocks) /\ Len(<<x>> \o s.list[k]) = Len(s.list[k]) + 1
          /\ (<<x>> \o s.list[k])[1] = x
          /\ \A j \in 2..(Len(s.list[k]) + 1) : (<<x>> \o s.list[k])[j] = s.list[k][j - 1]
      BY <2>1, <2>3, Joined
    <2>5. ASSUME NEW j \in 1..(Len(L[k]) + 1) PROVE K[k][j] = IF j = 1 THEN x ELSE L[k][j - 1]
      <3>1. CASE j = 1
        BY <2>3, <2>4, <3>1
      <3>2. CASE j # 1
        <4>1. j \in 2..(Len(s.list[k]) + 1)
          BY <2>1, <3>2
        <4>. QED
          BY <2>1, <2>3, <2>4, <3>2, <4>1
      <3>. QED
        BY <3>1, <3>2
    <2>. QED
      BY <2>1, <2>2, <2>3, <2>4, <2>5
  <1>l. \A t \in Lists : Len(L[t]) \in Nat
    BY <1>5 DEF ListsType
  <1>15. K \in ListsType
    <2>1. ASSUME NEW t \in Lists PROVE K[t] \in Seq(Blocks)
      <3>0. L[t] \in Seq(Blocks)
        BY <1>5 DEF ListsType
      <3>1. CASE t \notin i..k \/ (t = i /\ i = k)
        BY <1>10, <1>11, <3>0, <3>1
      <3>2. CASE t = i /\ i # k
        BY <1>12, <3>2
      <3>3. CASE t = k /\ i # k
        BY <1>14, <3>3
      <3>4. CASE t \in (i + 1)..(k - 1)
        BY <1>13, <3>4
      <3>. QED
        BY <1>n, <3>1, <3>2, <3>3, <3>4
    <2>2. K = [t \in Lists |-> K[t]]
      BY DEF K
    <2>. QED
      BY <2>1, <2>2 DEF ListsType
  <1>16. Shifted(L, K, i, k, prev)
    <2>1. \A t \in (i + 1)..k :
             /\ prev[t] \in i..(t - 1) /\ Len(L[prev[t]]) > 0
             /\ \A u \in (prev[t] + 1)..(t - 1) : Len(L[u]) = 0
      BY <1>6
    <2>2. ASSUME NEW t \in Lists \ {i, k} PROVE Len(K[t]) = Len(L[t])
      <3>1. t \notin i..k \/ t \in (i + 1)..(k - 1)
        BY <1>n
      <3>. QED
        BY <1>10, <1>13, <3>1
    <2>3. i = k => Len(K[i]) = Len(L[i])
      BY <1>11
    <2>4. i # k => Len(K[i]) = Len(L[i]) - 1 /\ Len(K[k]) = Len(L[k]) + 1
      <3>1. Len(L[i]) - 1 = Len(s.list[i])
        BY <1>5, <1>u
      <3>. QED
        BY <1>12, <1>14, <3>1
    <2>5. ASSUME NEW t \in Lists \ ((i + 1)..k), NEW j \in 1..Len(K[t]) PROVE K[t][j] = L[t][j]
      <3>1. t \notin i..k \/ t = i
        BY <1>n
      <3>2. CASE t \notin i..k
        BY <1>10, <3>2
      <3>3. CASE t = i /\ i = k
        BY <1>11, <3>3
      <3>4. CASE t = i /\ i # k
        BY <1>12, <3>4
      <3>. QED
        BY <3>1, <3>2, <3>3, <3>4
    <2>6. ASSUME NEW t \in (i + 1)..k, NEW j \in 1..Len(K[t])
          PROVE  K[t][j] = IF j = 1 THEN L[prev[t]][Len(L[prev[t]])] ELSE L[t][j - 1]
      <3>0. in(t) = L[prev[t]][Len(L[prev[t]])] /\ i # k
        BY <1>6, <1>n
      <3>1. CASE t = k
        BY <1>14, <3>0, <3>1
      <3>2. CASE t # k
        <4>1. t \in (i + 1)..(k - 1)
          BY <1>n, <3>2
        <4>. QED
          BY <1>13, <3>0, <4>1
      <3>. QED
        BY <3>1, <3>2
    <2>. QED
      BY <2>1, <2>2, <2>3, <2>4, <2>5, <2>6 DEF Shifted
  <1>17. SameBuffers(r.list, K, i..k)
    <2>1. Len(L[i]) > 0
      BY <1>5, <1>u
    <2>2. SameBuffers(L, K, i..k)
      <3>. HIDE DEF L
      <3>. QED
        BY <1>5, <1>15, <1>16, <2>1, ShiftedKeeps
    <2>. QED
      BY <2>2
  <1>18. U \in [Lists -> Nat] /\ \A t \in Lists : U[t] = IF t = k THEN s.used[t] + 1 ELSE s.used[t]
    BY <1>g, <1>u
  <1>19. \A t \in Lists : U[t] = Len(K[t])
    <2>1. ASSUME NEW t \in Lists PROVE Len(K[t]) = IF t = k THEN Len(s.list[t]) + 1 ELSE Len(s.list[t])
      <3>1. CASE t \notin i..k
        BY <1>5, <1>10, <1>n, <3>1
      <3>2. CASE t = i /\ i = k
        BY <1>5, <1>11, <3>2
      <3>3. CASE t = i /\ i # k
        BY <1>12, <3>3
      <3>4. CASE t = k /\ i # k
        BY <1>5, <1>14, <3>4
      <3>5. CASE t \in (i + 1)..(k - 1)
        <4>1. t # i /\ t # k
          BY <1>n, <3>5
        <4>. QED
          BY <1>5, <1>13, <3>5, <4>1
      <3>. QED
        BY <1>n, <3>1, <3>2, <3>3, <3>4, <3>5
    <2>. QED
      BY <1>u, <1>18, <2>1
  <1>. HIDE DEF U
  <1>20. s.sum + Counted(k) = r.sum /\ r.sum \in Nat
    <2>1. i \in Segments <=> k \in Segments
      <3>1. i \in i..k /\ k \in i..k
        BY <1>n
      <3>2. Segments \cap GhostLists = {}
        BY ListNumbers DEF GhostLists
      <3>. QED
        BY <3>1, <3>2
    <2>. QED
      BY <1>2, <1>3, <2>1, GoodType DEF Counted
  <1>21. z \in BufsType /\ z.list = K /\ z.used = U /\ z.loop = r.loop /\ z.sum = r.sum
    BY <1>g, <1>2, <1>4, <1>15, <1>18, <1>20 DEF BufsType
  <1>22. /\ Good(z) /\ \A S : Whole(S, i..k) => Held(z.list, S) = Held(r.list, S)
         /\ \A S : Whole(S, i..k) => Ranked(z.list, S) = Ranked(r.list, S)
         /\ Order(z.list) = Order(r.list)
    <2>1. \A t \in Lists : z.used[t] = Len(K[t])
      BY <1>19, <1>21
    <2>2. PICK R : R = i..k
      OBVIOUS
    <2>3. R \subseteq Segments \/ R \subseteq GhostLists
      BY <2>2
    <2>4. SameBuffers(r.list, K, R)
      BY <1>17, <2>2
    <2>5. Good(r) /\ z \in BufsType /\ z.list = K /\ z.loop = r.loop /\ z.sum = r.sum
      BY <1>2, <1>21
    <2>6. /\ Good(z) /\ \A S : Whole(S, R) => Held(z.list, S) = Held(r.list, S)
          /\ \A S : Whole(S, R) => Ranked(z.list, S) = Ranked(r.list, S)
          /\ Order(z.list) = Order(r.list)
      BY <1>15, <2>1, <2>3, <2>4, <2>5, MoveKeeps, ZenonT(30)
    <2>. QED
      BY <2>2, <2>6
  <1>. QED
    BY <1>2, <1>r, <1>18, <1>21, <1>22

----------------------------------------------------------------------------
(* The operations of pgref on the partitions. *)

SeqPart(s)    == Held(s.list, SeqLists)
OthPart(s)    == Held(s.list, Segments)
GhostPart(s) == Held(s.list, GhostLists)

(* SegmentsBounded, of any buffers.                                        *)
Within(s) ==
    /\ s.used[SEQMRU] <= ALLsegInitSize[SEQMRU]
    /\ \A i \in Segments \ {LastSeg} :
          ALLsegInitSize[i] > 0 => s.used[i] <= ALLsegInitSize[i]

Fine(s) == Good(s) /\ Within(s)

(* What an operation does to the partitions: it takes the block b out of   *)
(* its own, puts it into the one called p, or leaves them as they are.     *)
Took(s, z, b) ==
    /\ Fine(z)
    /\ SeqPart(z) = SeqPart(s) \ {b} /\ OthPart(z) = OthPart(s) \ {b}
    /\ z.loop = s.loop \ {b} /\ GhostPart(z) = GhostPart(s) \ {b}
    /\ Order(z.list) = Without(Order(s.list), {b})
    /\ SeqOrder(z.list) = Without(SeqOrder(s.list), {b})

With(S, c, b) == IF c THEN S \cup {b} ELSE S

Placed(s, z, p, b) ==
    /\ Fine(z)
    /\ SeqPart(z) = With(SeqPart(s), p = "SEQ", b) /\ OthPart(z) = With(OthPart(s), p = "OTHERS", b)
    /\ z.loop = With(s.loop, p = "LOOP", b) /\ GhostPart(z) = With(GhostPart(s), p = "GHOST", b)
    /\ Order(z.list) = IF p = "OTHERS" THEN Order(s.list) \cup ({b} \X OthPart(s))
                       ELSE Order(s.list)

(* And it puts it in front of the others of its kind. *)
Put(s, z, p, b) ==
    /\ Placed(s, z, p, b)
    /\ SeqOrder(z.list) \subseteq IF p = "SEQ" THEN SeqOrder(s.list) \cup ({b} \X SeqPart(s))
                                 ELSE SeqOrder(s.list)

Same(s, z) ==
    /\ Fine(z)
    /\ SeqPart(z) = SeqPart(s) /\ OthPart(z) = OthPart(s)
    /\ z.loop = s.loop /\ GhostPart(z) = GhostPart(s)
    /\ Order(z.list) = Order(s.list) /\ SeqOrder(z.list) = SeqOrder(s.list)

----------------------------------------------------------------------------
(* The sizes that main sees to.                                            *)
LEMMA Sizes ==
    ASSUME ALLsegInitSize \in InitSizes
    PROVE  /\ \A i \in 0..LastSeg : ALLsegInitSize[i] \in Nat
           /\ ALLsegInitSize[SEQMRU] \in Nat /\ ALLsegInitSize[FREEMRU] \in Nat
           /\ ALLsegInitSize[SEQMRU] > 0 /\ ALLsegInitSize[OTHLRU0] > 0
           /\ rLRUsegInitSizeSum(ALLsegInitSize) \in Nat
           /\ rLRUsegInitSizeSum(ALLsegInitSize) > MINIMUMLRUSIZE
           /\ ALLsegInitSize[SEQMRU] + ALLsegInitSize[FREEMRU]
                 + rLRUsegInitSizeSum(ALLsegInitSize) = cachesize
           /\ MINIMUMLRUSIZE \in Nat /\ cachesize \in Nat /\ cachesize > 0
  <1> DEFINE A == ALLsegInitSize
             r == rLRUsegInitSizeSum(A)
  <1>1. /\ A \in [0..LastSeg -> Nat] /\ A[SEQMRU] > 0 /\ A[OTHLRU0] > 0
        /\ A[SEQMRU] + A[FREEMRU] + r = cachesize
        /\ r \in (MINIMUMLRUSIZE + 1)..cachesize
        /\ MINIMUMLRUSIZE \in Nat /\ cachesize \in Nat
    BY CacheAssumption
  <1>2. A[SEQMRU] \in Nat /\ A[FREEMRU] \in Nat
    BY <1>1, ListNumbers
  <1>. HIDE DEF r
  <1>3. r \in Nat /\ r > MINIMUMLRUSIZE /\ cachesize > 0
    BY <1>1
  <1>. QED
    BY <1>1, <1>2, <1>3 DEF r

(* The lists a move goes through are of one partition, so that it changes  *)
(* none of the others.                                                     *)
LEMMA MovesInOne ==
    ASSUME NEW R, R \subseteq Segments \/ R \subseteq GhostLists
    PROVE  Whole(SeqLists, R) /\ Whole(Segments, R) /\ Whole(GhostLists, R)
  <1>1. Segments \cap GhostLists = {} /\ SeqLists \cap GhostLists = {} /\ SeqLists \cap Segments = {}
    BY ListNumbers DEF SeqLists, GhostLists
  <1>2. CASE R \subseteq Segments
    BY <1>1, <1>2 DEF Whole
  <1>3. CASE R \subseteq GhostLists
    BY <1>1, <1>3 DEF Whole
  <1>. QED
    BY <1>2, <1>3

(* The partitions have no block in common, and make up all there is.       *)
LEMMA Partitions ==
    ASSUME NEW s, Good(s)
    PROVE  /\ All(s) = SeqPart(s) \cup OthPart(s) \cup GhostPart(s) \cup s.loop
           /\ SeqPart(s) \cap OthPart(s) = {} /\ SeqPart(s) \cap GhostPart(s) = {}
           /\ OthPart(s) \cap GhostPart(s) = {}
           /\ s.loop \cap (SeqPart(s) \cup OthPart(s) \cup GhostPart(s)) = {}
           /\ Held(s.list, 0..LastSeg) = SeqPart(s) \cup OthPart(s)
           /\ Held(s.list, Lists) = SeqPart(s) \cup OthPart(s) \cup GhostPart(s)
           /\ Order(s.list) \subseteq OthPart(s) \X OthPart(s)
  <1>1. /\ s.list \in ListsType /\ Distinct(s.list)
        /\ s.loop \cap Held(s.list, Lists) = {}
        /\ SeqLists \cup Segments = 0..LastSeg
    BY GoodType
  <1>2. Lists = (SeqLists \cup Segments) \cup GhostLists
    BY ListNumbers DEF SeqLists, GhostLists
  <1>3. Segments \cap GhostLists = {} /\ SeqLists \cap GhostLists = {} /\ SeqLists \cap Segments = {}
    BY ListNumbers DEF SeqLists, GhostLists
  <1>4. Held(s.list, SeqLists \cup Segments) = SeqPart(s) \cup OthPart(s)
    BY <1>1, HeldUnion DEF SeqPart, OthPart
  <1>5. Held(s.list, (SeqLists \cup Segments) \cup GhostLists)
           = Held(s.list, SeqLists \cup Segments) \cup GhostPart(s)
    BY <1>1, HeldUnion DEF GhostPart
  <1>6. Held(s.list, Lists) = SeqPart(s) \cup OthPart(s) \cup GhostPart(s)
    BY <1>2, <1>4, <1>5, Zenon
  <1>7. SeqPart(s) \cap OthPart(s) = {} /\ SeqPart(s) \cap GhostPart(s) = {} /\ OthPart(s) \cap GhostPart(s) = {}
    BY <1>1, <1>3, HeldUnion DEF SeqPart, OthPart, GhostPart
  <1>8. Held(s.list, 0..LastSeg) = SeqPart(s) \cup OthPart(s)
    BY <1>1, <1>4, Zenon
  <1>9. Order(s.list) \subseteq OthPart(s) \X OthPart(s)
    BY DEF Order, Ranked, OthPart
  <1>10. All(s) = SeqPart(s) \cup OthPart(s) \cup GhostPart(s) \cup s.loop
    BY <1>6, Zenon DEF All
  <1>11. s.loop \cap (SeqPart(s) \cup OthPart(s) \cup GhostPart(s)) = {}
    BY <1>1, <1>6, Zenon
  <1>. QED
    BY <1>6, <1>7, <1>8, <1>9, <1>10, <1>11

(* A block that is in no segment is in no pair of the order.               *)
LEMMA OrderWithout ==
    ASSUME NEW s, Good(s), NEW b
    PROVE  /\ b \notin OthPart(s) => Without(Order(s.list), {b}) = Order(s.list)
           /\ b \notin SeqPart(s) => Without(SeqOrder(s.list), {b}) = SeqOrder(s.list)
  <1>1. Order(s.list) \subseteq OthPart(s) \X OthPart(s)
    BY Partitions
  <1>2. SeqOrder(s.list) \subseteq SeqPart(s) \X SeqPart(s)
    BY DEF SeqOrder, Ranked, SeqPart
  <1>. HIDE DEF OthPart, SeqPart
  <1>. QED
    BY <1>1, <1>2 DEF Without

(* A segment or list with a length has a last buffer, its own.             *)
LEMMA LastHeld ==
    ASSUME NEW s, Good(s), NEW t \in Lists
    PROVE  /\ s.used[t] \in Nat /\ s.list[t] \in Seq(Blocks) /\ Len(s.list[t]) = s.used[t]
           /\ s.list[t] = <<>> <=> s.used[t] = 0
           /\ s.used[t] > 0 =>
                 /\ Last(s.list[t]) \in Held(s.list, {t}) /\ Head(s.list[t]) \in Held(s.list, {t})
                 /\ Last(s.list[t]) \in All(s) /\ Head(s.list[t]) \in All(s) /\ s.list[t] # <<>>
                 /\ LruOf(s, t) = Last(s.list[t]) /\ MruOf(s, t) = Head(s.list[t])
           /\ \A S : t \in S => Held(s.list, {t}) \subseteq Held(s.list, S)
  <1>1. /\ s.list \in ListsType /\ s.used \in [Lists -> Nat] /\ s.used[t] = Len(s.list[t])
    BY GoodType DEF Good
  <1>2. s.list[t] \in Seq(Blocks) /\ s.used[t] \in Nat
    BY <1>1 DEF ListsType
  <1>3. s.list[t] = <<>> <=> s.used[t] = 0
    BY <1>1, <1>2, EmptySeq, Zenon
  <1>4. ASSUME s.used[t] > 0
        PROVE  /\ Last(s.list[t]) \in Held(s.list, {t}) /\ Head(s.list[t]) \in Held(s.list, {t})
               /\ Last(s.list[t]) \in All(s) /\ Head(s.list[t]) \in All(s) /\ s.list[t] # <<>>
               /\ LruOf(s, t) = Last(s.list[t]) /\ MruOf(s, t) = Head(s.list[t])
    <2>1. /\ Last(s.list[t]) = s.list[t][Len(s.list[t])] /\ Last(s.list[t]) \in Blocks
          /\ Head(s.list[t]) = s.list[t][1] /\ Head(s.list[t]) \in Blocks
      BY <1>1, <1>2, <1>4, Ends
    <2>2. 1 \in 1..Len(s.list[t]) /\ Len(s.list[t]) \in 1..Len(s.list[t])
      BY <1>1, <1>2, <1>4
    <2>3. \A i \in 1..Len(s.list[t]) : s.list[t][i] \in Held(s.list, {t})
      BY <1>1, HeldInLists
    <2>4. Held(s.list, {t}) \subseteq Held(s.list, Lists)
      BY <1>1, HeldInLists DEF Held
    <2>5. s.list[t] # <<>>
      BY <1>1, <1>2, <1>3, <1>4
    <2>6. LruOf(s, t) = Last(s.list[t]) /\ MruOf(s, t) = Head(s.list[t])
      BY <2>5 DEF LruOf, MruOf
    <2>7. Last(s.list[t]) \in Held(s.list, {t}) /\ Head(s.list[t]) \in Held(s.list, {t})
      BY <2>1, <2>2, <2>3
    <2>. QED
      BY <2>1, <2>4, <2>5, <2>6, <2>7 DEF All
  <1>5. \A S : t \in S => Held(s.list, {t}) \subseteq Held(s.list, S)
    BY DEF Held
  <1>. QED
    BY <1>1, <1>2, <1>3, <1>4, <1>5

----------------------------------------------------------------------------
(* Leaves: a block leaves the partition it is in.                          *)
LEMMA LeavesTakes ==
    ASSUME ALLsegInitSize \in InitSizes, NEW s, Fine(s), NEW b \in All(s), NEW z, z = Leaves(s, b)
    PROVE  Took(s, z, b) /\ b \notin All(z) /\ b \in Blocks
  <1>g. Good(s) /\ Within(s)
    BY DEF Fine
  <1>1. /\ Good(z) /\ z.loop = s.loop \ {b}
        /\ \A S : Held(z.list, S) = Held(s.list, S) \ {b}
        /\ Order(z.list) = Without(Order(s.list), {b})
        /\ SeqOrder(z.list) = Without(SeqOrder(s.list), {b})
        /\ \A t \in Lists :
              z.used[t] = IF b \in Held(s.list, {t}) THEN s.used[t] - 1 ELSE s.used[t]
    <2>1. /\ Good(z) /\ z.loop = s.loop \ {b} /\ Loses(s.list, z.list, b)
          /\ \A t \in Lists :
                z.used[t] = IF b \in Held(s.list, {t}) THEN s.used[t] - 1 ELSE s.used[t]
      BY <1>g, LeavesKeeps
    <2>. QED
      BY <2>1, Zenon DEF Loses, Order, SeqOrder
  <1>2. \A t \in Lists : z.used[t] <= s.used[t] /\ s.used[t] \in Nat /\ z.used[t] \in Nat
    <2>1. ASSUME NEW t \in Lists
          PROVE  s.used[t] \in Nat /\ z.used[t] \in Nat
                 /\ (z.used[t] = s.used[t] - 1 \/ z.used[t] = s.used[t])
      BY <1>g, <1>1, LastHeld
    <2>. QED
      BY <2>1
  <1>3. Within(z)
    <2>1. SEQMRU \in Lists /\ \A i \in Segments \ {LastSeg} : i \in Lists /\ i \in 0..LastSeg
      BY ListNumbers
    <2>2. ALLsegInitSize[SEQMRU] \in Nat /\ \A i \in 0..LastSeg : ALLsegInitSize[i] \in Nat
      BY Sizes
    <2>3. z.used[SEQMRU] <= ALLsegInitSize[SEQMRU]
      BY <1>g, <1>2, <2>1, <2>2 DEF Within
    <2>4. ASSUME NEW i \in Segments \ {LastSeg}, ALLsegInitSize[i] > 0
          PROVE  z.used[i] <= ALLsegInitSize[i]
      <3>1. s.used[i] <= ALLsegInitSize[i]
        BY <1>g, <2>4 DEF Within
      <3>. QED
        BY <1>2, <2>1, <2>2, <3>1
    <2>. QED
      BY <2>3, <2>4 DEF Within
  <1>4. b \notin All(z)
    BY <1>1 DEF All
  <1>5. b \in Blocks
    BY <1>g, GoodType
  <1>. QED
    BY <1>1, <1>3, <1>4, <1>5 DEF Took, Fine, SeqPart, OthPart, GhostPart

(* loopQin: a block comes into the partition for looping references.       *)
LEMMA loopQinPuts ==
    ASSUME NEW s, Fine(s), NEW b \in Blocks \ All(s), NEW z, z = loopQin(s, b)
    PROVE  Put(s, z, "LOOP", b)
  <1>1. Good(z) /\ z.loop = s.loop \cup {b} /\ z.list = s.list /\ z.used = s.used
    BY loopQinKeeps DEF Fine
  <1>2. Within(z)
    BY <1>1 DEF Fine, Within
  <1>. QED
    BY <1>1, <1>2 DEF Put, Placed, Fine, With, SeqPart, OthPart, GhostPart

(* lruin, of a list of the partition for sequential references or of the   *)
(* ghosts.                                                                 *)
LEMMA lruinPuts ==
    ASSUME ALLsegInitSize \in InitSizes, NEW s, Fine(s), NEW b \in Blocks \ All(s),
           NEW t \in SeqLists \cup GhostLists, NEW z, z = lruin(s, t, b),
           t = SEQMRU => s.used[SEQMRU] < ALLsegInitSize[SEQMRU]
    PROVE  /\ Placed(s, z, IF t \in SeqLists THEN "SEQ" ELSE "GHOST", b)
           /\ t # FREEMRU => Put(s, z, IF t \in SeqLists THEN "SEQ" ELSE "GHOST", b)
           /\ SeqOrder(z.list) \subseteq SeqOrder(s.list) \cup AtFront(s.list, SeqLists, t, b)
  <1>g. Good(s) /\ Within(s)
    BY DEF Fine
  <1>n. /\ t \in Lists /\ t \notin Segments /\ SeqLists \cap GhostLists = {}
        /\ SEQMRU \in Lists /\ SEQMRU \notin Segments /\ Segments \subseteq Lists
    BY ListNumbers DEF SeqLists, GhostLists
  <1>1. /\ Good(z) /\ z.loop = s.loop
        /\ \A S : Held(z.list, S) = Held(s.list, S) \cup If(t, S, b)
        /\ \A u \in Lists : z.used[u] = s.used[u] + (IF u = t THEN 1 ELSE 0)
    BY <1>g, <1>n, lruinKeeps
  <1>o. Order(z.list) = Order(s.list) /\ (t \notin SeqLists => SeqOrder(z.list) = SeqOrder(s.list))
    <2>1. \A S : t \notin S => Ranked(z.list, S) = Ranked(s.list, S)
      BY <1>g, <1>n, lruinKeeps
    <2>. QED
      BY <1>n, <2>1 DEF Order, SeqOrder
  <1>q. SeqOrder(z.list) \subseteq SeqOrder(s.list) \cup AtFront(s.list, SeqLists, t, b)
    <2>1. \A S : Ranked(z.list, S) \subseteq Ranked(s.list, S) \cup AtFront(s.list, S, t, b)
      BY <1>g, <1>n, lruinKeeps
    <2>. QED
      BY <2>1 DEF SeqOrder
  <1>2. If(t, SeqLists, b) = (IF t \in SeqLists THEN {b} ELSE {}) /\ If(t, Segments, b) = {}
        /\ If(t, GhostLists, b) = (IF t \in SeqLists THEN {} ELSE {b})
    BY <1>n DEF If
  <1>3. Within(z)
    <2>0. \A u \in Lists : s.used[u] \in Nat
      BY <1>g, LastHeld
    <2>1. z.used[SEQMRU] <= ALLsegInitSize[SEQMRU]
      <3>1. ALLsegInitSize[SEQMRU] \in Nat /\ s.used[SEQMRU] \in Nat
        BY <1>n, <2>0, Sizes
      <3>2. CASE t = SEQMRU
        BY <1>1, <1>n, <3>1, <3>2
      <3>3. CASE t # SEQMRU
        BY <1>g, <1>1, <1>n, <3>1, <3>3 DEF Within
      <3>. QED
        BY <3>2, <3>3
    <2>2. \A i \in Segments : z.used[i] = s.used[i]
      BY <1>1, <1>n, <2>0
    <2>. QED
      BY <1>g, <2>1, <2>2 DEF Within
  <1>4. SeqPart(z) = With(SeqPart(s), t \in SeqLists, b) /\ OthPart(z) = OthPart(s)
        /\ GhostPart(z) = With(GhostPart(s), t \notin SeqLists, b)
    BY <1>1, <1>2 DEF SeqPart, OthPart, GhostPart, With
  <1>5. CASE t \in SeqLists
    <2>1. Placed(s, z, "SEQ", b)
      BY <1>1, <1>3, <1>4, <1>5, <1>o DEF Placed, Fine, With
    <2>2. ASSUME t # FREEMRU PROVE AtFront(s.list, SeqLists, t, b) = {b} \X SeqPart(s)
      <3>1. t = SEQMRU
        BY <1>5, <2>2 DEF SeqLists
      <3>2. {u \in SeqLists : t <= u} = SeqLists /\ {u \in SeqLists : u < t} = {}
        BY <3>1, ListNumbers DEF SeqLists
      <3>3. Held(s.list, {}) = {}
        BY DEF Held
      <3>. QED
        BY <3>2, <3>3, Zenon DEF AtFront, SeqPart
    <2>. QED
      BY <1>5, <1>q, <2>1, <2>2 DEF Put
  <1>6. CASE t \notin SeqLists
    <2>1. Placed(s, z, "GHOST", b)
      BY <1>1, <1>3, <1>4, <1>6, <1>o DEF Placed, Fine, With
    <2>. QED
      BY <1>6, <1>o, <1>q, <2>1 DEF Put
  <1>. QED
    BY <1>5, <1>6

(* The last buffer of the first list is behind the others of that list and *)
(* in front of those of the free ones.                                     *)
LEMMA LastOfFirst ==
    ASSUME NEW s, Good(s), s.used[SEQMRU] > 0, NEW c, c = Last(s.list[SEQMRU])
    PROVE  /\ \A y \in Held(s.list, {FREEMRU}) : <<c, y>> \in SeqOrder(s.list)
           /\ \A x \in Held(s.list, {SEQMRU}) \ {c} : <<x, c>> \in SeqOrder(s.list)
  <1>n. SEQMRU \in Lists /\ FREEMRU \in Lists /\ SEQMRU = 0 /\ FREEMRU = 1
    BY ListNumbers
  <1>1. /\ s.list \in ListsType /\ s.list[SEQMRU] \in Seq(Blocks) /\ Len(s.list[SEQMRU]) \in Nat
        /\ Len(s.list[SEQMRU]) > 0
    <2>1. s.list \in ListsType /\ s.list[SEQMRU] \in Seq(Blocks) /\ Len(s.list[SEQMRU]) = s.used[SEQMRU]
      BY <1>n, LastHeld, GoodType
    <2>. QED
      BY <2>1
  <1> DEFINE n == Len(s.list[SEQMRU])
             f == <<SEQMRU, n>>
  <1>2. f \in Places(s.list) /\ At(s.list, f) = c /\ f[1] = SEQMRU /\ f[2] = n
    <2>1. Last(s.list[SEQMRU]) = s.list[SEQMRU][n]
      BY <1>1, Ends
    <2>2. n \in 1..Len(s.list[SEQMRU])
      BY <1>1
    <2>3. f \in Places(s.list) /\ At(s.list, f) = s.list[SEQMRU][n]
      BY <1>1, <1>n, <2>2, PlaceIntro
    <2>. QED
      BY <2>1, <2>3
  <1>. HIDE DEF f
  <1>3. SEQMRU \in SeqLists /\ FREEMRU \in SeqLists /\ c \in Held(s.list, SeqLists)
    BY <1>2 DEF SeqLists, Held
  <1>4. ASSUME NEW y \in Held(s.list, {FREEMRU}) PROVE <<c, y>> \in SeqOrder(s.list)
    <2>1. PICK q \in Places(s.list) : q[1] = FREEMRU /\ y = At(s.list, q)
      BY DEF Held
    <2>2. Lex(f, q)
      BY <1>2, <1>n, <2>1 DEF Lex
    <2>3. y \in Held(s.list, SeqLists)
      BY <1>3, <2>1 DEF Held
    <2>. QED
      BY <1>2, <1>3, <2>1, <2>2, <2>3 DEF SeqOrder, Ranked
  <1>5. ASSUME NEW x \in Held(s.list, {SEQMRU}) \ {c} PROVE <<x, c>> \in SeqOrder(s.list)
    <2>1. PICK p \in Places(s.list) : p[1] = SEQMRU /\ x = At(s.list, p)
      BY DEF Held
    <2>2. p = <<SEQMRU, p[2]>> /\ p[2] \in 1..n /\ p # f
      BY <1>1, <1>2, <2>1, PlaceType
    <2>3. p[2] # n
      BY <2>2 DEF f
    <2>4. Lex(p, f)
      BY <1>1, <1>2, <2>1, <2>2, <2>3 DEF Lex
    <2>5. x \in Held(s.list, SeqLists)
      BY <1>3, <2>1 DEF Held
    <2>. QED
      BY <1>2, <1>3, <2>1, <2>4, <2>5 DEF SeqOrder, Ranked
  <1>. QED
    BY <1>4, <1>5

(* InsertSeq: a block comes into the partition for sequential references.  *)
(* The buffer handed over to the free ones is there, since the partition   *)
(* is not empty when it is full.                                           *)
LEMMA InsertSeqPuts ==
    ASSUME ALLsegInitSize \in InitSizes, NEW s, Fine(s), NEW b \in Blocks \ All(s),
           NEW z, z = InsertSeq(s, b)
    PROVE  Put(s, z, "SEQ", b)
  <1>g. Good(s) /\ Within(s)
    BY DEF Fine
  <1>n. /\ SEQMRU \in Lists /\ FREEMRU \in Lists /\ SEQMRU \in SeqLists /\ FREEMRU \in SeqLists
        /\ FREEMRU # SEQMRU
    BY ListNumbers DEF SeqLists
  <1>u. /\ s.used[SEQMRU] \in Nat /\ ALLsegInitSize[SEQMRU] \in Nat /\ ALLsegInitSize[SEQMRU] > 0
        /\ s.used[SEQMRU] <= ALLsegInitSize[SEQMRU]
    BY <1>g, <1>n, Sizes, LastHeld DEF Within
  <1>1. CASE s.used[SEQMRU] < ALLsegInitSize[SEQMRU]
    <2>1. z = lruin(s, SEQMRU, b)
      BY <1>1 DEF InsertSeq
    <2>. QED
      BY <1>1, <1>n, <2>1, lruinPuts
  <1>2. CASE ~(s.used[SEQMRU] < ALLsegInitSize[SEQMRU])
    <2>1. PICK c : c = Last(s.list[SEQMRU])
      OBVIOUS
    <2>2. /\ s.list[SEQMRU] # <<>> /\ c \in Held(s.list, {SEQMRU}) /\ c \in All(s) /\ c \in Blocks
          /\ Held(s.list, {SEQMRU}) \subseteq SeqPart(s)
      <3>1. s.used[SEQMRU] > 0
        BY <1>2, <1>u
      <3>2. Held(s.list, {SEQMRU}) \subseteq SeqPart(s)
        BY <1>g, <1>n, LastHeld DEF SeqPart
      <3>3. s.list[SEQMRU] # <<>>
        BY <1>g, <1>n, <3>1, LastHeld, Zenon
      <3>4. c \in Held(s.list, {SEQMRU}) /\ c \in All(s)
        BY <1>g, <1>n, <2>1, <3>1, LastHeld
      <3>5. c \in Blocks
        BY <1>g, <3>4, GoodType
      <3>. QED
        BY <3>2, <3>3, <3>4, <3>5
    <2>3. PICK u : u = Leaves(s, c)
      OBVIOUS
    <2>4. PICK v : v = lruin(u, FREEMRU, c)
      OBVIOUS
    <2>5. z = lruin(v, SEQMRU, b)
      BY <1>2, <2>1, <2>2, <2>3, <2>4 DEF InsertSeq
    <2>6. Took(s, u, c) /\ c \notin All(u)
      BY <2>2, <2>3, LeavesTakes
    <2>7. /\ Placed(u, v, "SEQ", c)
          /\ SeqOrder(v.list) \subseteq SeqOrder(u.list) \cup AtFront(u.list, SeqLists, FREEMRU, c)
      BY <1>n, <2>2, <2>4, <2>6, lruinPuts DEF Took
    <2>8. SeqPart(v) = SeqPart(s)
      BY <2>2, <2>6, <2>7 DEF Took, Placed, With
    <2>o. SeqOrder(v.list) \subseteq SeqOrder(s.list)
      <3>1. SeqOrder(u.list) \subseteq SeqOrder(s.list)
        BY <2>6 DEF Took, Without
      <3>2. \A S : Held(u.list, S) = Held(s.list, S) \ {c}
        <4>1. Loses(s.list, u.list, c)
          BY <1>g, <2>2, <2>3, LeavesKeeps
        <4>. QED
          BY <4>1, Zenon DEF Loses
      <3>3. {w \in SeqLists : FREEMRU <= w} = {FREEMRU} /\ {w \in SeqLists : w < FREEMRU} = {SEQMRU}
        BY ListNumbers DEF SeqLists
      <3>4. AtFront(u.list, SeqLists, FREEMRU, c)
               = ({c} \X (Held(s.list, {FREEMRU}) \ {c})) \cup ((Held(s.list, {SEQMRU}) \ {c}) \X {c})
        BY <3>2, <3>3, Zenon DEF AtFront
      <3>5. /\ \A y \in Held(s.list, {FREEMRU}) : <<c, y>> \in SeqOrder(s.list)
            /\ \A x \in Held(s.list, {SEQMRU}) \ {c} : <<x, c>> \in SeqOrder(s.list)
        <4>1. s.used[SEQMRU] > 0
          BY <1>u, <1>2
        <4>. QED
          BY <1>g, <2>1, <4>1, LastOfFirst
      <3>6. AtFront(u.list, SeqLists, FREEMRU, c) \subseteq SeqOrder(s.list)
        <4> DEFINE A == Held(s.list, {FREEMRU})
                   B == Held(s.list, {SEQMRU})
                   O == SeqOrder(s.list)
        <4>1. (\A y \in A : <<c, y>> \in O) /\ (\A x \in B \ {c} : <<x, c>> \in O)
          BY <3>5
        <4>2. AtFront(u.list, SeqLists, FREEMRU, c) = ({c} \X (A \ {c})) \cup ((B \ {c}) \X {c})
          BY <3>4
        <4>. HIDE DEF A, B, O
        <4>3. ({c} \X (A \ {c})) \cup ((B \ {c}) \X {c}) \subseteq O
          BY <4>1
        <4>. QED
          BY <4>2, <4>3 DEF O
      <3>. QED
        BY <2>7, <3>1, <3>6
    <2>9. /\ OthPart(v) = OthPart(s) /\ v.loop = s.loop /\ GhostPart(v) = GhostPart(s)
          /\ Order(v.list) = Order(s.list)
      <3>1. c \notin OthPart(s) /\ c \notin s.loop /\ c \notin GhostPart(s)
        BY <1>g, <2>2, Partitions
      <3>2. Without(Order(s.list), {c}) = Order(s.list)
        BY <1>g, <3>1, OrderWithout
      <3>. QED
        BY <2>6, <2>7, <3>1, <3>2 DEF Took, Placed, With
    <2>10. Fine(v) /\ b \notin All(v)
      <3>1. Fine(v) /\ Good(v)
        BY <2>7 DEF Placed, Fine
      <3>2. All(v) = All(s)
        BY <1>g, <3>1, <2>8, <2>9, Partitions
      <3>. QED
        BY <3>1, <3>2
    <2>11. v.used[SEQMRU] < ALLsegInitSize[SEQMRU]
      <3>1. Good(u)
        BY <2>6 DEF Took, Fine
      <3>2. u.used[SEQMRU] = s.used[SEQMRU] - 1
        BY <1>g, <1>n, <2>2, <2>3, LeavesKeeps
      <3>3. v.used[SEQMRU] = u.used[SEQMRU] + 0
        BY <1>n, <2>2, <2>4, <2>6, <3>1, lruinKeeps
      <3>. QED
        BY <1>u, <3>2, <3>3
    <2>12. Put(v, z, "SEQ", b)
      BY <1>n, <2>5, <2>10, <2>11, lruinPuts
    <2>. QED
      BY <2>8, <2>9, <2>o, <2>12 DEF Put, Placed, With
  <1>. QED
    BY <1>1, <1>2

(* The numbers of a segment's ghosts.                                      *)
LEMMA SegmentNumbers ==
    /\ \A i \in Segments : /\ i \in Lists /\ i \in Int /\ i <= LastSeg
                           /\ (i # LastSeg <=> i < LastSeg) /\ GhostOf(i) \in GhostSegs
                           /\ SegmentOf(GhostOf(i)) = i
                           /\ (GhostOf(i) < LastGhost <=> i < LastSeg)
    /\ \A j \in GhostSegs : /\ j \in Lists /\ j \in GhostLists /\ j \in Int /\ j <= LastGhost
                            /\ j # FREEGHOST /\ SegmentOf(j) \in Segments
                            /\ (j < LastGhost => j + 1 \in GhostSegs)
    /\ OTHLRU0 \in Segments /\ LastSeg \in Segments /\ LastSeg \in Nat /\ OTHLRU0 <= LastSeg
    /\ \A i, k \in Segments : i..k \subseteq Segments
    /\ LastGhost \in GhostSegs /\ LastGhost \in Nat
    /\ \A j, k \in GhostSegs : j..k \subseteq GhostSegs /\ j..k \subseteq GhostLists
    /\ GhostLists = {FREEGHOST} \cup GhostSegs /\ FREEGHOST \notin GhostSegs
    /\ SEQMRU \notin Segments /\ SEQMRU \notin GhostLists
    /\ Segments \cap GhostLists = {}
  BY ListNumbers DEF GhostLists, GhostOf, SegmentOf

(* Some segment, the last one at the latest, takes one more buffer.        *)
LEMMA StopSegStops ==
    ASSUME NEW s
    PROVE  StopSeg(s) \in Segments /\ ~Overflows(s, StopSeg(s))
  <1> DEFINE S == {i \in Segments : ~Overflows(s, i)}
  <1>1. S \in SUBSET Nat
    BY ListNumbers
  <1>2. LastSeg \in S
    BY SegmentNumbers DEF Overflows
  <1>3. Min(S) \in S
    <2>. HIDE DEF S
    <2>. QED
      BY <1>1, <1>2, MinIsLeast
  <1>. QED
    BY <1>3 DEF StopSeg

(* PushedAlong, in the segments or their ghosts, as far as a list that     *)
(* takes one more.                                                         *)
LEMMA PushedAlongPuts ==
    ASSUME ALLsegInitSize \in InitSizes, NEW s, Fine(s), NEW b \in Blocks \ All(s),
           NEW i, NEW k, i <= k, NEW z, z = PushedAlong(s, i, k, b),
           \/ i = OTHLRU0 /\ k \in Segments /\ ~Overflows(s, k)
           \/ i \in GhostSegs /\ k \in GhostSegs
    PROVE  /\ Put(s, z, IF k \in Segments THEN "OTHERS" ELSE "GHOST", b)
           /\ \A t \in Lists : z.used[t] = IF t = k THEN s.used[t] + 1 ELSE s.used[t]
  <1>g. Good(s) /\ Within(s)
    BY DEF Fine
  <1>n. /\ i \in Lists /\ k \in Lists
        /\ (i..k \subseteq Segments \/ i..k \subseteq GhostLists)
        /\ k # SEQMRU /\ SEQMRU \in Lists
    <2>1. CASE i = OTHLRU0 /\ k \in Segments
      BY <2>1, ListNumbers
    <2>2. CASE i \in GhostSegs /\ k \in GhostSegs
      <3>1. /\ i \in (NUMofLRUSEGs + 3)..(2 * NUMofLRUSEGs + 2)
            /\ k \in (NUMofLRUSEGs + 3)..(2 * NUMofLRUSEGs + 2)
        BY <2>2, ListNumbers, Zenon
      <3>2. i..k \subseteq FREEGHOST..LastGhost
        BY <3>1, ListNumbers
      <3>. QED
        BY <3>1, <3>2, ListNumbers DEF GhostLists
    <2>. QED
      BY <2>1, <2>2
  <1>1. /\ Good(z) /\ z.loop = s.loop
        /\ \A S : Whole(S, i..k) => Held(z.list, S) = Held(s.list, S) \cup If(i, S, b)
        /\ i = OTHLRU0 => Order(z.list) = Order(s.list) \cup ({b} \X Held(s.list, Segments))
        /\ \A t \in Lists : z.used[t] = IF t = k THEN s.used[t] + 1 ELSE s.used[t]
    BY <1>g, <1>n, PushedAlongKeeps, SMTT(30)
  <1>r. \A S : Whole(S, i..k) /\ i \notin S => Ranked(z.list, S) = Ranked(s.list, S)
    BY <1>g, <1>n, PushedAlongKeeps, SMTT(30)
  <1>2. Whole(SeqLists, i..k) /\ Whole(Segments, i..k) /\ Whole(GhostLists, i..k)
    BY <1>n, MovesInOne
  <1>3. \A t \in Lists : s.used[t] \in Nat
    BY <1>g, LastHeld
  <1>4. Within(z)
    <2>1. z.used[SEQMRU] <= ALLsegInitSize[SEQMRU]
      <3>1. s.used[SEQMRU] <= ALLsegInitSize[SEQMRU]
        BY <1>g, Zenon DEF Within
      <3>2. z.used[SEQMRU] = s.used[SEQMRU]
        BY <1>1, <1>n
      <3>. QED
        BY <3>1, <3>2
    <2>2. ASSUME NEW t \in Segments \ {LastSeg}, ALLsegInitSize[t] > 0
          PROVE  z.used[t] <= ALLsegInitSize[t]
      <3>1. t \in Lists /\ t < LastSeg
        BY SegmentNumbers
      <3>2. CASE t = k
        <4>1. ~Overflows(s, k)
          BY <3>2, SegmentNumbers
        <4>2. ~(s.used[k] + 1 > ALLsegInitSize[k])
          BY <2>2, <3>1, <3>2, <4>1 DEF Overflows
        <4>3. ALLsegInitSize[k] \in Nat /\ s.used[k] \in Nat
          BY <1>3, <3>1, <3>2, Sizes, ListNumbers
        <4>. QED
          BY <1>1, <3>1, <3>2, <4>2, <4>3
      <3>3. CASE t # k
        BY <1>g, <1>1, <2>2, <3>1, <3>3 DEF Within
      <3>. QED
        BY <3>2, <3>3
    <2>. QED
      BY <2>1, <2>2 DEF Within
  <1>5. CASE i = OTHLRU0 /\ k \in Segments
    <2>1. i \in Segments /\ i \notin SeqLists /\ i \notin GhostLists
      BY <1>5, SegmentNumbers, ListNumbers DEF SeqLists
    <2>2. If(i, SeqLists, b) = {} /\ If(i, Segments, b) = {b} /\ If(i, GhostLists, b) = {}
      BY <2>1 DEF If
    <2>3. SeqPart(z) = SeqPart(s) /\ OthPart(z) = OthPart(s) \cup {b} /\ GhostPart(z) = GhostPart(s)
      BY <1>1, <1>2, <2>2 DEF SeqPart, OthPart, GhostPart
    <2>4. Order(z.list) = Order(s.list) \cup ({b} \X OthPart(s))
      BY <1>1, <1>5, Zenon DEF OthPart
    <2>5. Put(s, z, "OTHERS", b)
      BY <1>1, <1>2, <1>4, <1>r, <2>1, <2>3, <2>4 DEF Put, Placed, Fine, With, SeqOrder
    <2>. QED
      BY <1>1, <1>5, <2>5
  <1>6. CASE i \in GhostSegs /\ k \in GhostSegs
    <2>1. i \notin Segments /\ i \notin SeqLists /\ i \in GhostLists /\ k \notin Segments
      BY <1>6, SegmentNumbers, ListNumbers, SMTT(30) DEF SeqLists
    <2>2. If(i, SeqLists, b) = {} /\ If(i, Segments, b) = {} /\ If(i, GhostLists, b) = {b}
      BY <2>1 DEF If
    <2>3. SeqPart(z) = SeqPart(s) /\ OthPart(z) = OthPart(s) /\ GhostPart(z) = GhostPart(s) \cup {b}
      BY <1>1, <1>2, <2>2 DEF SeqPart, OthPart, GhostPart
    <2>4. Put(s, z, "GHOST", b)
      BY <1>1, <1>2, <1>4, <1>r, <2>1, <2>3 DEF Put, Placed, Fine, With, Order, SeqOrder
    <2>. QED
      BY <1>1, <2>1, <2>4
  <1>. QED
    BY <1>5, <1>6

(* PushOth: a block comes to the front of the stack of other references.   *)
LEMMA PushOthPuts ==
    ASSUME ALLsegInitSize \in InitSizes, NEW s, Fine(s), NEW b \in Blocks \ All(s),
           NEW z, z = PushOth(s, b)
    PROVE  /\ Put(s, z, "OTHERS", b)
           /\ \A t \in Lists : z.used[t] = IF t = StopSeg(s) THEN s.used[t] + 1 ELSE s.used[t]
  <1>1. PICK k : k = StopSeg(s)
    OBVIOUS
  <1>2. k \in Segments /\ ~Overflows(s, k)
    BY <1>1, StopSegStops
  <1>3. z = PushedAlong(s, OTHLRU0, k, b)
    BY <1>1 DEF PushOth
  <1>4. OTHLRU0 <= k
    BY <1>2, ListNumbers
  <1>5. /\ Put(s, z, IF k \in Segments THEN "OTHERS" ELSE "GHOST", b)
        /\ \A t \in Lists : z.used[t] = IF t = k THEN s.used[t] + 1 ELSE s.used[t]
    BY <1>2, <1>3, <1>4, PushedAlongPuts
  <1>. QED
    BY <1>1, <1>2, <1>5

(* PushGhost: a block comes to the ghosts of a segment.                    *)
LEMMA PushGhostPuts ==
    ASSUME ALLsegInitSize \in InitSizes, NEW s, Fine(s), NEW b \in Blocks \ All(s),
           NEW j \in GhostSegs, NEW z, z = PushGhost(s, j, b)
    PROVE  Put(s, z, "GHOST", b)
  <1> DEFINE S == {k \in j..LastGhost : ~GhostOverflows(s, k)}
  <1>1. S \in SUBSET Nat
    BY ListNumbers
  <1>2. LastGhost \in S
    BY SegmentNumbers DEF GhostOverflows
  <1>3. Min(S) \in S
    <2>. HIDE DEF S
    <2>. QED
      BY <1>1, <1>2, MinIsLeast
  <1>4. PICK k : k = Min(S)
    OBVIOUS
  <1>5. k \in GhostSegs /\ j <= k /\ k \notin Segments
    BY <1>3, <1>4, SegmentNumbers
  <1>6. z = PushedAlong(s, j, k, b)
    BY <1>4 DEF PushGhost
  <1>7. Put(s, z, IF k \in Segments THEN "OTHERS" ELSE "GHOST", b)
    BY <1>5, <1>6, PushedAlongPuts
  <1>. QED
    BY <1>5, <1>7

(* PulledUp, in the segments or their ghosts.                              *)
LEMMA PulledUpSame ==
    ASSUME ALLsegInitSize \in InitSizes, NEW s, Fine(s), NEW i, NEW k, i <= k,
           \/ /\ i \in Segments /\ k \in Segments
              /\ i < LastSeg /\ ALLsegInitSize[i] > 0 => s.used[i] < ALLsegInitSize[i]
           \/ i \in GhostSegs /\ k \in GhostSegs,
           \A t \in (i + 1)..k : s.used[t] > 0, NEW z, z = PulledUp(s, i, k)
    PROVE  Same(s, z)
  <1>g. Good(s) /\ Within(s)
    BY DEF Fine
  <1>n. /\ i \in Lists /\ k \in Lists
        /\ (i..k \subseteq Segments \/ i..k \subseteq GhostLists)
        /\ i # SEQMRU /\ k # SEQMRU /\ SEQMRU \in Lists
    <2>1. CASE i \in Segments /\ k \in Segments
      <3>1. i \in Lists /\ k \in Lists /\ i..k \subseteq Segments /\ SEQMRU \notin Segments
        BY <2>1, SegmentNumbers
      <3>. QED
        BY <2>1, <3>1, ListNumbers
    <2>2. CASE i \in GhostSegs /\ k \in GhostSegs
      <3>1. i \in Lists /\ k \in Lists /\ i..k \subseteq GhostLists /\ i \in GhostLists
            /\ k \in GhostLists /\ SEQMRU \notin GhostLists
        BY <2>2, SegmentNumbers
      <3>. QED
        BY <3>1, ListNumbers
    <2>. QED
      BY <2>1, <2>2
  <1>1. /\ Good(z) /\ z.loop = s.loop /\ Order(z.list) = Order(s.list)
        /\ \A S : Whole(S, i..k) => Held(z.list, S) = Held(s.list, S)
        /\ \A t \in Lists : z.used[t] = IF i = k \/ t \notin {i, k} THEN s.used[t]
                                        ELSE IF t = i THEN s.used[t] + 1 ELSE s.used[t] - 1
    BY <1>g, <1>n, PulledUpKeeps
  <1>r. \A S : Whole(S, i..k) => Ranked(z.list, S) = Ranked(s.list, S)
    BY <1>g, <1>n, PulledUpKeeps
  <1>2. Whole(SeqLists, i..k) /\ Whole(Segments, i..k) /\ Whole(GhostLists, i..k)
    BY <1>n, MovesInOne
  <1>3. \A t \in Lists : s.used[t] \in Nat
    BY <1>g, LastHeld
  <1>4. Within(z)
    <2>1. z.used[SEQMRU] <= ALLsegInitSize[SEQMRU]
      <3>1. s.used[SEQMRU] <= ALLsegInitSize[SEQMRU]
        BY <1>g, Zenon DEF Within
      <3>2. z.used[SEQMRU] = s.used[SEQMRU]
        BY <1>1, <1>n
      <3>. QED
        BY <3>1, <3>2
    <2>2. ASSUME NEW t \in Segments \ {LastSeg}, ALLsegInitSize[t] > 0
          PROVE  z.used[t] <= ALLsegInitSize[t]
      <3>1. t \in Lists /\ t < LastSeg /\ t \notin GhostSegs
        BY SegmentNumbers
      <3>2. s.used[t] <= ALLsegInitSize[t] /\ s.used[t] \in Nat /\ ALLsegInitSize[t] \in Nat
        BY <1>g, <1>3, <2>2, <3>1, Sizes, ListNumbers DEF Within
      <3>3. CASE t = i /\ i # k
        <4>1. s.used[t] < ALLsegInitSize[t]
          BY <2>2, <3>1, <3>3
        <4>2. z.used[t] = s.used[t] + 1
          BY <1>1, <3>1, <3>3
        <4>. QED
          BY <3>2, <4>1, <4>2
      <3>4. CASE t # i \/ i = k
        <4>1. z.used[t] = s.used[t] \/ z.used[t] = s.used[t] - 1
          BY <1>1, <3>1, <3>4
        <4>. QED
          BY <3>2, <4>1
      <3>. QED
        BY <3>3, <3>4
    <2>. QED
      BY <2>1, <2>2 DEF Within
  <1>5. SeqPart(z) = SeqPart(s) /\ OthPart(z) = OthPart(s) /\ GhostPart(z) = GhostPart(s)
    BY <1>1, <1>2 DEF SeqPart, OthPart, GhostPart
  <1>6. SeqOrder(z.list) = SeqOrder(s.list)
    BY <1>2, <1>r DEF SeqOrder
  <1>. QED
    BY <1>1, <1>4, <1>5, <1>6 DEF Same, Fine

(* The searches for the list to pull buffers up from.                      *)
LEMMA PullEnds ==
    ASSUME NEW i, NEW last,
           (i \in Segments /\ last = LastSeg) \/ (i \in GhostSegs /\ last = LastGhost),
           NEW S, S \subseteq i..last, i \in S
    PROVE  /\ Max(S) \in S /\ i <= Max(S)
           /\ i \in Segments => Max(S) \in Segments
           /\ i \in GhostSegs => Max(S) \in GhostSegs
  <1>1. last \in Nat /\ S \in SUBSET (0..last) /\ i \in Nat
    BY ListNumbers
  <1>2. PICK m : m = Max(S)
    OBVIOUS
  <1>m. m \in S /\ m \in i..last /\ i <= m
    BY <1>1, <1>2, MaxIsGreatest
  <1>3. Segments \cap GhostSegs = {}
    BY ListNumbers
  <1>4. CASE i \in Segments /\ last = LastSeg
    <2>1. i..last \subseteq Segments
      BY <1>4, ListNumbers
    <2>. QED
      BY <1>2, <1>m, <1>3, <1>4, <2>1
  <1>5. CASE i \in GhostSegs /\ last = LastGhost
    <2>1. i..last \subseteq GhostSegs
      BY <1>5, ListNumbers
    <2>. QED
      BY <1>2, <1>m, <1>3, <1>5, <2>1
  <1>. QED
    BY <1>4, <1>5

(* When buffers move up, in the segments or in the ghosts' lists, no part  *)
(* of the cache changes.                                                   *)
LEMMA PullsSame ==
    ASSUME ALLsegInitSize \in InitSizes, NEW s, Fine(s)
    PROVE  /\ \A i \in Segments :
                 (i < LastSeg /\ ALLsegInitSize[i] > 0 => s.used[i] < ALLsegInitSize[i])
                 => PullEnd(s, i) \in Segments /\ Same(s, PulledUp(s, i, PullEnd(s, i)))
           /\ \A i \in Segments : Same(s, PullGhosts(s, i))
           /\ \A j \in GhostSegs : Same(s, PullFromGhost(s, j))
  <1>1. ASSUME NEW i \in Segments,
               i < LastSeg /\ ALLsegInitSize[i] > 0 => s.used[i] < ALLsegInitSize[i]
        PROVE  PullEnd(s, i) \in Segments /\ Same(s, PulledUp(s, i, PullEnd(s, i)))
    <2> DEFINE S == {k \in i..LastSeg : \A t \in (i + 1)..k : s.used[t] > 0}
    <2>1. i \in S /\ S \subseteq i..LastSeg
      BY SegmentNumbers
    <2>2. PICK k : k = Max(S)
      OBVIOUS
    <2>3. k \in S /\ i <= k /\ k \in Segments
      <3>. HIDE DEF S
      <3>. QED
        BY <2>1, <2>2, PullEnds
    <2>4. PullEnd(s, i) = k
      BY <2>2 DEF PullEnd
    <2>5. \A t \in (i + 1)..k : s.used[t] > 0
      BY <2>3
    <2>6. Same(s, PulledUp(s, i, k))
      BY <1>1, <2>3, <2>5, PulledUpSame
    <2>. QED
      BY <2>3, <2>4, <2>6
  <1>2. ASSUME NEW i \in Segments PROVE Same(s, PullGhosts(s, i))
    <2>1. PICK j : j = GhostOf(i)
      OBVIOUS
    <2> DEFINE S == {k \in j..LastGhost : \A t \in (j + 1)..k :
                        s.used[t] > 0 /\ ALLsegInitSize[SegmentOf(t - 1)] > 0}
    <2>2. j \in GhostSegs /\ j \in S /\ S \subseteq j..LastGhost
      <3>1. j \in GhostSegs /\ j \in Nat /\ LastGhost \in Nat /\ j <= LastGhost
        BY <2>1, SegmentNumbers, ListNumbers
      <3>2. (j + 1)..j = {} /\ j \in j..LastGhost
        BY <3>1
      <3>. QED
        BY <3>1, <3>2
    <2>3. PICK k : k = Max(S)
      OBVIOUS
    <2>4. k \in S /\ j <= k /\ k \in GhostSegs
      <3>. HIDE DEF S
      <3>. QED
        BY <2>2, <2>3, PullEnds
    <2>5. PullGhosts(s, i) = PulledUp(s, j, k)
      BY <2>1, <2>3 DEF PullGhosts
    <2>6. \A t \in (j + 1)..k : s.used[t] > 0
      BY <2>4
    <2>7. Same(s, PulledUp(s, j, k))
      BY <2>2, <2>4, <2>6, PulledUpSame
    <2>. QED
      BY <2>5, <2>7
  <1>3. ASSUME NEW j \in GhostSegs PROVE Same(s, PullFromGhost(s, j))
    <2> DEFINE S == {k \in j..LastGhost : \A t \in (j + 1)..k : s.used[t] > 0}
    <2>2. j \in S /\ S \subseteq j..LastGhost
      BY SegmentNumbers
    <2>3. PICK k : k = Max(S)
      OBVIOUS
    <2>4. k \in S /\ j <= k /\ k \in GhostSegs
      <3>. HIDE DEF S
      <3>. QED
        BY <2>2, <2>3, PullEnds
    <2>5. PullFromGhost(s, j) = PulledUp(s, j, k)
      BY <2>3 DEF PullFromGhost
    <2>6. \A t \in (j + 1)..k : s.used[t] > 0
      BY <2>4
    <2>7. Same(s, PulledUp(s, j, k))
      BY <2>2, <2>4, <2>6, PulledUpSame
    <2>. QED
      BY <2>5, <2>7
  <1>. QED
    BY <1>1, <1>2, <1>3

(* The search from the last list downwards ends at a list in use, when     *)
(* there is one.                                                           *)
LEMMA BottomFound ==
    ASSUME NEW s, Good(s), NEW last \in Lists, NEW t \in 0..last, s.used[t] > 0
    PROVE  /\ BottomOf(s, last) \in t..last /\ s.used[BottomOf(s, last)] > 0
           /\ \A u \in 0..last : s.used[u] > 0 => u <= BottomOf(s, last)
  <1> DEFINE S == {u \in 0..last : s.used[u] > 0} \cup {0}
  <1>1. last \in Nat /\ S \in SUBSET (0..last) /\ t \in S
    BY ListNumbers
  <1>2. PICK m : m = Max(S)
    OBVIOUS
  <1>3. m \in S /\ \A u \in S : m >= u
    <2>. HIDE DEF S
    <2>. QED
      BY <1>1, <1>2, MaxIsGreatest
  <1>4. m \in t..last
    BY <1>1, <1>3
  <1>5. s.used[m] > 0
    <2>1. CASE m = 0
      BY <1>4, <2>1
    <2>2. CASE m # 0
      BY <1>3, <2>2
    <2>. QED
      BY <2>1, <2>2
  <1>6. \A u \in 0..last : s.used[u] > 0 => u <= m
    BY <1>1, <1>3, <1>4
  <1>7. BottomOf(s, last) = m
    BY <1>2 DEF BottomOf
  <1>. QED
    BY <1>4, <1>5, <1>6, <1>7

(* The list of a block: it is in no other.                                 *)
LEMMA ListOfHolds ==
    ASSUME NEW s, Good(s), NEW S \in SUBSET Lists, NEW b \in Held(s.list, S)
    PROVE  ListOf(s, b) \in S /\ b \in Held(s.list, {ListOf(s, b)})
  <1>1. s.list \in ListsType /\ Distinct(s.list)
    BY GoodType
  <1>2. PICK p \in Places(s.list) : p[1] \in S /\ b = At(s.list, p)
    BY DEF Held
  <1>3. p[1] \in Lists /\ Contains(s.list[p[1]], b)
    BY <1>1, <1>2, PlaceType DEF Contains, At
  <1>4. PICK t : t = ListOf(s, b)
    OBVIOUS
  <1>5. t \in Lists /\ Contains(s.list[t], b)
    BY <1>3, <1>4 DEF ListOf
  <1>6. PICK i \in 1..Len(s.list[t]) : s.list[t][i] = b
    BY <1>5 DEF Contains
  <1>7. <<t, i>> \in Places(s.list) /\ At(s.list, <<t, i>>) = b
    BY <1>1, <1>5, <1>6, PlaceIntro
  <1>8. <<t, i>> = p
    BY <1>1, <1>2, <1>7 DEF Distinct
  <1>9. t \in S
    BY <1>2, <1>8
  <1>10. b \in Held(s.list, {t})
    BY <1>7 DEF Held
  <1>. QED
    BY <1>4, <1>9, <1>10

(* A partition that holds a block has a list in use.                       *)
LEMMA HeldIsUsed ==
    ASSUME NEW s, Good(s), NEW S \in SUBSET Lists
    PROVE  Held(s.list, S) # {} <=> \E t \in S : s.used[t] > 0
  <1>1. s.list \in ListsType
    BY GoodType
  <1>2. ASSUME Held(s.list, S) # {} PROVE \E t \in S : s.used[t] > 0
    <2>1. PICK p \in Places(s.list) : p[1] \in S
      BY <1>2 DEF Held
    <2>2. p[2] \in 1..Len(s.list[p[1]]) /\ Len(s.list[p[1]]) \in Nat /\ p[1] \in Lists
      BY <1>1, <2>1, PlaceType
    <2>3. s.used[p[1]] = Len(s.list[p[1]])
      BY <2>2 DEF Good
    <2>. QED
      BY <2>1, <2>2, <2>3
  <1>3. ASSUME NEW t \in S, s.used[t] > 0 PROVE Held(s.list, S) # {}
    <2>1. Last(s.list[t]) \in Held(s.list, {t}) /\ Held(s.list, {t}) \subseteq Held(s.list, S)
      BY <1>3, LastHeld
    <2>. QED
      BY <2>1
  <1>. QED
    BY <1>2, <1>3

(* The victim, taken out, becomes a ghost.                                 *)
LEMMA GhostedPuts ==
    ASSUME ALLsegInitSize \in InitSizes, NEW s, Fine(s), NEW v, v.bufp \in Blocks \ All(s),
           NEW z, z = Ghosted(s, v)
    PROVE  Put(s, z, "GHOST", v.bufp)
  <1>1. PICK b : b = v.bufp
    OBVIOUS
  <1>2. b \in Blocks \ All(s)
    BY <1>1
  <1>3. CASE v.where \in Segments
    <2>1. PICK j : j = GhostOf(v.where)
      OBVIOUS
    <2>2. j \in GhostSegs
      BY <1>3, <2>1, SegmentNumbers
    <2>3. z = PushGhost(s, j, b)
      BY <1>1, <1>3, <2>1 DEF Ghosted
    <2>. QED
      BY <1>1, <1>2, <2>2, <2>3, PushGhostPuts
  <1>4. CASE v.where \notin Segments
    <2>1. PICK j : j = FREEGHOST
      OBVIOUS
    <2>2. j \in GhostLists /\ j \notin SeqLists /\ j # SEQMRU /\ j # FREEMRU
      BY <2>1, ListNumbers DEF GhostLists, SeqLists
    <2>3. z = lruin(s, j, b)
      BY <1>1, <1>4, <2>1 DEF Ghosted
    <2>4. Put(s, z, IF j \in SeqLists THEN "SEQ" ELSE "GHOST", b)
      BY <1>2, <2>2, <2>3, lruinPuts
    <2>. QED
      BY <1>1, <2>2, <2>4
  <1>. QED
    BY <1>3, <1>4

(* PlaceOthers: the ghosts of the segment that has become longer are not   *)
(* empty when they are too many, and one of them goes to the next.         *)
LEMMA PlaceOthersPuts ==
    ASSUME ALLsegInitSize \in InitSizes, NEW s, Fine(s), NEW b \in Blocks \ All(s),
           PlaceOthers(s, b)
    PROVE  \E z : Put(s, z, "OTHERS", b) /\ Become(z)
  <1>g. Good(s) /\ Within(s)
    BY DEF Fine
  <1>1. PICK i : i = StopSeg(s)
    OBVIOUS
  <1>2. PICK t : t = PushOth(s, b)
    OBVIOUS
  <1>3. PICK j : j = GhostOf(i)
    OBVIOUS
  <1>4. /\ i \in Segments /\ ~Overflows(s, i) /\ i \in Lists /\ j \in GhostSegs /\ j \in Lists
        /\ (j < LastGhost => i < LastSeg /\ j + 1 \in GhostSegs) /\ j \in GhostLists
    BY <1>1, <1>3, StopSegStops, SegmentNumbers
  <1>5. /\ Put(s, t, "OTHERS", b)
        /\ t.used[i] = s.used[i] + 1
    BY <1>1, <1>2, <1>4, PushOthPuts
  <1>6. Fine(t) /\ Good(t)
    BY <1>5 DEF Put, Placed, Fine
  <1>7. CASE j < LastGhost /\ ALLsegInitSize[i] > 0 /\ t.used[j] + t.used[i] > ALLsegInitSize[i]
    <2>1. PICK g : g = LruOf(t, j)
      OBVIOUS
    <2>2. t.used[j] > 0
      <3>1. ~(s.used[i] + 1 > ALLsegInitSize[i])
        BY <1>4, <1>7 DEF Overflows
      <3>2. s.used[i] \in Nat /\ t.used[j] \in Nat /\ ALLsegInitSize[i] \in Nat
        <4>1. s.used[i] \in Nat /\ t.used[j] \in Nat
          BY <1>g, <1>4, <1>6, LastHeld, Zenon
        <4>2. ALLsegInitSize[i] \in Nat
          BY <1>4, Sizes, ListNumbers
        <4>. QED
          BY <4>1, <4>2
      <3>. QED
        BY <1>5, <1>7, <3>1, <3>2
    <2>3. g \in All(t) /\ g \in Held(t.list, {j}) /\ Held(t.list, {j}) \subseteq GhostPart(t)
      <3>1. g = Last(t.list[j])
        BY <1>4, <1>6, <2>1, <2>2, LastHeld, Zenon
      <3>2. Last(t.list[j]) \in All(t) /\ Last(t.list[j]) \in Held(t.list, {j})
        BY <1>4, <1>6, <2>2, LastHeld, Zenon
      <3>3. Held(t.list, {j}) \subseteq GhostPart(t)
        BY <1>4, <1>6, LastHeld DEF GhostPart
      <3>. QED
        BY <3>1, <3>2, <3>3
    <2>4. g # NoBuf
      BY <1>6, <2>3, GoodType
    <2>5. PICK u : u = Leaves(t, g)
      OBVIOUS
    <2>6. Took(t, u, g) /\ g \notin All(u) /\ g \in Blocks
      BY <1>6, <2>3, <2>5, LeavesTakes
    <2>7. PICK k : k = j + 1
      OBVIOUS
    <2>8. PICK z : z = PushGhost(u, k, g)
      OBVIOUS
    <2>9. Put(u, z, "GHOST", g)
      BY <1>4, <1>7, <2>6, <2>7, <2>8, PushGhostPuts DEF Took
    <2>10. /\ SeqPart(z) = SeqPart(t) /\ OthPart(z) = OthPart(t) /\ z.loop = t.loop
           /\ GhostPart(z) = GhostPart(t) /\ Order(z.list) = Order(t.list)
           /\ SeqOrder(z.list) \subseteq SeqOrder(t.list)
      <3>1. g \in GhostPart(t)
        BY <2>3
      <3>2. g \notin SeqPart(t) /\ g \notin OthPart(t) /\ g \notin t.loop
        BY <1>6, <3>1, Partitions
      <3>3. Without(Order(t.list), {g}) = Order(t.list)
        BY <1>6, <3>2, OrderWithout
      <3>. QED
        BY <2>6, <2>9, <3>1, <3>2, <3>3 DEF Took, Put, Placed, With, Without
    <2>11. Put(s, z, "OTHERS", b)
      BY <1>5, <2>9, <2>10 DEF Put, Placed
    <2>12. Become(z)
      BY <1>1, <1>2, <1>3, <1>7, <2>1, <2>4, <2>5, <2>7, <2>8 DEF PlaceOthers
    <2>. QED
      BY <2>11, <2>12
  <1>8. CASE ~(j < LastGhost /\ ALLsegInitSize[i] > 0 /\ t.used[j] + t.used[i] > ALLsegInitSize[i])
    <2>1. Become(t)
      BY <1>1, <1>2, <1>3, <1>8 DEF PlaceOthers
    <2>. QED
      BY <1>5, <2>1
  <1>. QED
    BY <1>7, <1>8

----------------------------------------------------------------------------
(* Counting the blocks.                                                    *)
RealPart(s) == (SeqPart(s) \cup OthPart(s)) \cup s.loop

(* Disjoint finite sets are counted one by one. *)
LEMMA DisjointUnion ==
    ASSUME NEW S, NEW T, IsFiniteSet(S), IsFiniteSet(T), S \cap T = {}
    PROVE  /\ IsFiniteSet(S \cup T) /\ Cardinality(S \cup T) = Cardinality(S) + Cardinality(T)
           /\ Cardinality(S) \in Nat /\ Cardinality(T) \in Nat
  <1>1. /\ IsFiniteSet(S \cup T)
        /\ Cardinality(S \cup T) = Cardinality(S) + Cardinality(T) - Cardinality(S \cap T)
    BY FS_Union, Zenon
  <1>2. Cardinality(S \cap T) = 0
    BY FS_EmptySet, Zenon
  <1>3. Cardinality(S) \in Nat /\ Cardinality(T) \in Nat
    BY FS_CardinalityType
  <1>. QED
    BY <1>1, <1>2, <1>3

(* The sizes of the parts of the cache, and that OthersUsed, which         *)
(* deallocator computes, is the size of one.                               *)
LEMMA PartSizes ==
    ASSUME NEW s, Good(s)
    PROVE  /\ IsFiniteSet(SeqPart(s)) /\ IsFiniteSet(OthPart(s)) /\ IsFiniteSet(s.loop)
           /\ IsFiniteSet(GhostPart(s)) /\ IsFiniteSet(RealPart(s))
           /\ Cardinality(SeqPart(s)) \in Nat /\ Cardinality(OthPart(s)) \in Nat
           /\ Cardinality(s.loop) \in Nat /\ Cardinality(GhostPart(s)) \in Nat
           /\ Cardinality(RealPart(s))
                 = Cardinality(SeqPart(s)) + Cardinality(OthPart(s)) + Cardinality(s.loop)
           /\ OthersUsed(s) = Cardinality(OthPart(s))
           /\ Cardinality(SeqPart(s)) <= s.used[SEQMRU] + s.used[FREEMRU]
  <1>g. s.list \in ListsType /\ IsFiniteSet(s.loop) /\ Distinct(s.list) /\ s.sum = Cardinality(Summed(s))
    BY GoodType
  <1>1. IsFiniteSet(SeqPart(s)) /\ IsFiniteSet(OthPart(s)) /\ IsFiniteSet(GhostPart(s))
    BY <1>g, HeldFinite DEF SeqPart, OthPart, GhostPart
  <1>2. /\ SeqPart(s) \cap OthPart(s) = {} /\ (SeqPart(s) \cup OthPart(s)) \cap s.loop = {}
        /\ OthPart(s) \cap s.loop = {}
    <2>1. /\ SeqPart(s) \cap OthPart(s) = {}
          /\ s.loop \cap (SeqPart(s) \cup OthPart(s) \cup GhostPart(s)) = {}
      BY Partitions
    <2>. QED
      BY <2>1
  <1>3. /\ IsFiniteSet(SeqPart(s) \cup OthPart(s))
        /\ Cardinality(SeqPart(s) \cup OthPart(s)) = Cardinality(SeqPart(s)) + Cardinality(OthPart(s))
        /\ Cardinality(SeqPart(s)) \in Nat /\ Cardinality(OthPart(s)) \in Nat
    BY <1>1, <1>2, DisjointUnion, Zenon
  <1>4. /\ IsFiniteSet(RealPart(s))
        /\ Cardinality(RealPart(s)) = Cardinality(SeqPart(s) \cup OthPart(s)) + Cardinality(s.loop)
        /\ Cardinality(s.loop) \in Nat
    BY <1>g, <1>2, <1>3, DisjointUnion, Zenon DEF RealPart
  <1>5. Cardinality(Summed(s)) = Cardinality(OthPart(s)) + Cardinality(s.loop)
    BY <1>g, <1>1, <1>2, DisjointUnion, Zenon DEF Summed, OthPart
  <1>6. OthersUsed(s) = Cardinality(OthPart(s))
    BY <1>g, <1>3, <1>4, <1>5 DEF OthersUsed
  <1>7. Cardinality(SeqPart(s)) <= s.used[SEQMRU] + s.used[FREEMRU]
    <2> DEFINE H0 == Held(s.list, {SEQMRU})
               H1 == Held(s.list, {FREEMRU})
    <2>1. SEQMRU \in Lists /\ FREEMRU \in Lists /\ {SEQMRU} \cap {FREEMRU} = {}
      BY ListNumbers
    <2>2. SeqPart(s) = H0 \cup H1
      <3>1. SeqLists = {SEQMRU} \cup {FREEMRU}
        BY DEF SeqLists
      <3>2. Held(s.list, {SEQMRU} \cup {FREEMRU}) = H0 \cup H1
        BY <1>g, HeldUnion
      <3>. QED
        BY <3>1, <3>2, Zenon DEF SeqPart
    <2>3. H0 \cap H1 = {}
      BY <1>g, <2>1, HeldUnion
    <2>4. /\ IsFiniteSet(H0) /\ Cardinality(H0) <= s.used[SEQMRU] /\ s.used[SEQMRU] \in Nat
          /\ IsFiniteSet(H1) /\ Cardinality(H1) <= s.used[FREEMRU] /\ s.used[FREEMRU] \in Nat
      <3>1. s.used[SEQMRU] = Len(s.list[SEQMRU]) /\ s.used[FREEMRU] = Len(s.list[FREEMRU])
        BY <2>1 DEF Good
      <3>2. s.used[SEQMRU] \in Nat /\ s.used[FREEMRU] \in Nat
        BY <2>1, LastHeld
      <3>3. /\ IsFiniteSet(H0) /\ Cardinality(H0) <= Len(s.list[SEQMRU])
            /\ IsFiniteSet(H1) /\ Cardinality(H1) <= Len(s.list[FREEMRU])
        BY <1>g, <2>1, HeldFinite
      <3>. QED
        BY <3>1, <3>2, <3>3
    <2>. HIDE DEF H0, H1
    <2>5. Cardinality(H0 \cup H1) = Cardinality(H0) + Cardinality(H1)
          /\ Cardinality(H0) \in Nat /\ Cardinality(H1) \in Nat
      BY <2>3, <2>4, DisjointUnion, Zenon
    <2>6. Cardinality(SeqPart(s)) = Cardinality(H0) + Cardinality(H1)
      BY <2>2, <2>5, Zenon
    <2>. QED
      BY <2>4, <2>5, <2>6
  <1>8. Cardinality(GhostPart(s)) \in Nat
    BY <1>1, FS_CardinalityType
  <1>. QED
    BY <1>g, <1>1, <1>3, <1>4, <1>6, <1>7, <1>8

----------------------------------------------------------------------------
(* The victim.  deallocator answers with the looping partition only when   *)
(* there is a block in it, but for one case, and with the others only when *)
(* the looping one is small.                                               *)
NoneCached(s) == s.loop = {} /\ s.used[SEQMRU] = 0 /\ s.used[OTHLRU1] # 0

LEMMA deallocatorAnswers ==
    ASSUME NEW s, NEW p, NEW where \in deallocator(s, p)
    PROVE  \/ /\ where = LOOPQUEUE
              /\ Cardinality(s.loop) >= LoopLimit \/ s.loop # {} \/ NoneCached(s)
           \/ where = SEQMRU /\ (s.used[SEQMRU] # 0 \/ ~(Cardinality(s.loop) >= LoopLimit))
           \/ where = OTHLRU0 /\ ~(Cardinality(s.loop) >= LoopLimit)
  <1>1. CASE Cardinality(s.loop) >= LoopLimit
    <2>1. where \in LoopOrSeq(s) \/ where = LOOPQUEUE
      BY <1>1 DEF deallocator
    <2>. QED
      BY <1>1, <2>1 DEF LoopOrSeq
  <1>2. CASE ~(Cardinality(s.loop) >= LoopLimit) /\ p = "LOOP" /\ s.loop # {}
    <2>1. where \in LoopOrSeq(s) \/ where = OTHLRU0
      BY <1>2 DEF deallocator
    <2>. QED
      BY <1>2, <2>1 DEF LoopOrSeq
  <1>3. CASE ~(Cardinality(s.loop) >= LoopLimit) /\ ~(p = "LOOP" /\ s.loop # {})
    <2>1. \/ where = OTHLRU0 \/ where = SEQMRU \/ (where = LOOPQUEUE /\ s.loop # {})
          \/ where = NeitherGain(s) /\ s.used[OTHLRU1] # 0
      BY <1>3 DEF deallocator
    <2>2. \/ NeitherGain(s) = LOOPQUEUE /\ (s.loop # {} \/ s.used[SEQMRU] = 0)
          \/ NeitherGain(s) = SEQMRU
      BY DEF NeitherGain
    <2>. QED
      BY <1>3, <2>1, <2>2 DEF NoneCached
  <1>. QED
    BY <1>1, <1>2, <1>3

LastInOrder(s, b) == \A c \in OthPart(s) \ {b} : <<c, b>> \in Order(s.list)

(* The last buffer of the lowest segment in use is the one whose reference *)
(* is the longest ago of all the segments'.                                *)
LEMMA BottomIsLast ==
    ASSUME NEW s, Good(s), OthPart(s) # {}, NEW b, b = LruOf(s, BottomOf(s, LastSeg))
    PROVE  b \in OthPart(s) /\ LastInOrder(s, b)
  <1>1. s.list \in ListsType /\ Distinct(s.list) /\ Segments \subseteq Lists
    BY GoodType
  <1>2. PICK t \in Segments : s.used[t] > 0
    <2>1. Held(s.list, Segments) # {} <=> \E t \in Segments : s.used[t] > 0
      BY <1>1, HeldIsUsed
    <2>. QED
      BY <2>1, Zenon DEF OthPart
  <1>3. PICK m : m = BottomOf(s, LastSeg)
    OBVIOUS
  <1>4. m \in t..LastSeg /\ s.used[m] > 0 /\ \A u \in 0..LastSeg : s.used[u] > 0 => u <= m
    <2>1. LastSeg \in Lists /\ t \in 0..LastSeg
      BY ListNumbers
    <2>. QED
      BY <1>2, <1>3, <2>1, BottomFound, Zenon
  <1>5. m \in Segments /\ m \in Lists /\ m \in Nat
    BY <1>4, ListNumbers
  <1>6. b = Last(s.list[m]) /\ Last(s.list[m]) \in Held(s.list, {m})
    BY <1>3, <1>4, <1>5, LastHeld, Zenon
  <1>7. b \in OthPart(s)
    <2>1. \A S : m \in S => Held(s.list, {m}) \subseteq Held(s.list, S)
      BY <1>5, LastHeld, Zenon
    <2>. QED
      BY <1>5, <1>6, <2>1 DEF OthPart
  <1>8. PICK n : n = Len(s.list[m])
    OBVIOUS
  <1>9. s.list[m] \in Seq(Blocks) /\ n > 0 /\ n \in Nat /\ n \in 1..Len(s.list[m])
    <2>1. s.list[m] \in Seq(Blocks) /\ Len(s.list[m]) = s.used[m] /\ s.used[m] \in Nat
      BY <1>5, LastHeld, Zenon
    <2>. QED
      BY <1>4, <1>8, <2>1
  <1>10. b = s.list[m][n]
    BY <1>6, <1>8, <1>9, Ends
  <1>11. PICK p : p = <<m, n>>
    OBVIOUS
  <1>12. p \in Places(s.list) /\ At(s.list, p) = b /\ p[1] = m /\ p[2] = n
    BY <1>1, <1>5, <1>9, <1>10, <1>11, PlaceIntro
  <1>13. ASSUME NEW c \in OthPart(s) \ {b} PROVE <<c, b>> \in Order(s.list)
    <2>1. PICK q \in Places(s.list) : q[1] \in Segments /\ c = At(s.list, q)
      BY DEF OthPart, Held
    <2>2. q = <<q[1], q[2]>> /\ q[1] \in Nat /\ q[2] \in 1..Len(s.list[q[1]]) /\ q[1] \in Lists
          /\ Len(s.list[q[1]]) \in Nat
      BY <1>1, <2>1, PlaceType
    <2>3. q[1] <= m
      <3>1. s.used[q[1]] = Len(s.list[q[1]]) /\ q[1] \in 0..LastSeg
        BY <2>1, <2>2, ListNumbers DEF Good
      <3>2. s.used[q[1]] > 0
        BY <2>2, <3>1
      <3>. QED
        BY <1>4, <3>1, <3>2
    <2>4. q # p
      BY <1>12, <2>1
    <2>5. Lex(q, p)
      <3>1. CASE q[1] = m
        <4>1. q[2] # n /\ q[2] \in 1..n
          BY <1>8, <1>11, <2>2, <2>4, <3>1
        <4>. QED
          BY <1>9, <1>12, <3>1, <4>1 DEF Lex
      <3>2. CASE q[1] # m
        BY <1>5, <1>12, <2>2, <2>3, <3>2 DEF Lex
      <3>. QED
        BY <3>1, <3>2
    <2>. QED
      BY <1>5, <1>7, <1>12, <2>1, <2>5 DEF Order, Ranked, OthPart
  <1>. QED
    BY <1>7, <1>13 DEF LastInOrder

(* Where a victim comes from.  The sizes see to it that there is one       *)
(* wherever it is looked for but in that case, and that the segments have  *)
(* more than the minimum when they are to give one up.                     *)
VictimOf(s, v) ==
    \/ v.bufp = MruOf(s, FREEMRU) /\ s.used[FREEMRU] > 0
    \/ v.bufp = LruOf(s, SEQMRU) /\ s.used[SEQMRU] > 0
    \/ v.bufp \in s.loop
    \/ v.bufp = LruOf(s, BottomOf(s, LastSeg)) /\ Cardinality(OthPart(s)) > MINIMUMLRUSIZE

(* From a full cache every victim that may be chosen is a cached block, of *)
(* the other references the last one, or there is none because loopQout is *)
(* asked of an empty queue.                                                *)
LEMMA VictimsFound ==
    ASSUME ALLsegInitSize \in InitSizes, NEW s, Fine(s), Cardinality(RealPart(s)) = cachesize,
           NEW p \in Patterns, NEW v \in Victims(s, p)
    PROVE  v.pattern \in Patterns /\ (VictimOf(s, v) \/ (v.bufp = NoBuf /\ NoneCached(s)))
  <1>g. Good(s) /\ Within(s)
    BY DEF Fine
  <1> DEFINE q  == Cardinality(SeqPart(s))
             o  == Cardinality(OthPart(s))
             l  == Cardinality(s.loop)
             u0 == s.used[SEQMRU]
             u1 == s.used[FREEMRU]
             i0 == ALLsegInitSize[SEQMRU]
             i1 == ALLsegInitSize[FREEMRU]
             r  == rLRUsegInitSizeSum(ALLsegInitSize)
  <1>1. /\ q \in Nat /\ o \in Nat /\ l \in Nat /\ q + o + l = cachesize
        /\ OthersUsed(s) = o /\ q <= u0 + u1
    BY <1>g, PartSizes
  <1>2. /\ i0 \in Nat /\ i1 \in Nat /\ i0 > 0 /\ r \in Nat /\ r > MINIMUMLRUSIZE
        /\ i0 + i1 + r = cachesize /\ MINIMUMLRUSIZE \in Nat /\ cachesize \in Nat
    BY Sizes
  <1>3. u0 \in Nat /\ u1 \in Nat /\ u0 <= i0
    <2>1. SEQMRU \in Lists /\ FREEMRU \in Lists
      BY ListNumbers
    <2>2. u0 \in Nat /\ u1 \in Nat
      BY <1>g, <2>1, LastHeld, Zenon
    <2>. QED
      BY <1>g, <2>2 DEF Within
  <1>4. LoopLimit = r - MINIMUMLRUSIZE
    BY DEF LoopLimit
  <1>5. l > 0 => s.loop # {}
    <2>1. Cardinality({}) = 0
      BY FS_EmptySet
    <2>. QED
      BY <2>1
  <1>p. p \in {"SEQ", "LOOP", "OTHERS"} /\ "SEQ" \in Patterns
    BY DEF Patterns
  <1>6. ASSUME NEW pat \in Patterns, s.loop # {}, v \in FromLoop(s, pat)
        PROVE  v.pattern \in Patterns /\ VictimOf(s, v)
    BY <1>6 DEF FromLoop, Victim, VictimOf
  <1>7. ASSUME NEW pat \in Patterns, v \in FromList(s, SEQMRU, pat), u0 > 0
        PROVE  v.pattern \in Patterns /\ VictimOf(s, v)
    BY <1>7 DEF FromList, Victim, VictimOf
  <1>8. ASSUME NEW pat \in Patterns, v \in FromList(s, BottomOf(s, LastSeg), pat), o > MINIMUMLRUSIZE
        PROVE  v.pattern \in Patterns /\ VictimOf(s, v)
    BY <1>8 DEF FromList, Victim, VictimOf
  <1>. HIDE DEF q, o, l, u0, u1, i0, i1, r
  <1>9. CASE u0 + u1 > i0 + i1
    <2>1. v = Victim(MruOf(s, FREEMRU), FREEMRU, p)
      BY <1>9 DEF Victims, u0, u1, i0, i1
    <2>2. u1 > 0
      BY <1>2, <1>3, <1>9
    <2>. QED
      BY <2>1, <2>2 DEF Victim, VictimOf, u1
  <1>10. CASE ~(u0 + u1 > i0 + i1) /\ p = "SEQ"
    <2>1. v \in SeqVictims(s)
      BY <1>10 DEF Victims, u0, u1, i0, i1
    <2>2. CASE u0 >= i0
      <3>1. v \in FromList(s, SEQMRU, "SEQ")
        BY <2>1, <2>2 DEF SeqVictims, u0, i0
      <3>2. u0 > 0
        BY <1>2, <1>3, <2>2
      <3>. QED
        BY <1>7, <1>p, <3>1, <3>2
    <2>3. CASE ~(u0 >= i0) /\ o <= MINIMUMLRUSIZE
      <3>1. v \in FromLoop(s, "SEQ")
        BY <1>1, <2>1, <2>3 DEF SeqVictims, u0, i0
      <3>2. l > 0
        BY <1>1, <1>2, <1>3, <1>10, <2>3
      <3>. QED
        BY <1>5, <1>6, <1>p, <3>1, <3>2
    <2>4. CASE ~(u0 >= i0) /\ ~(o <= MINIMUMLRUSIZE)
      <3>1. v \in FromList(s, BottomOf(s, LastSeg), "SEQ")
            \/ (s.loop # {} /\ v \in FromLoop(s, "SEQ"))
        BY <1>1, <2>1, <2>4 DEF SeqVictims, u0, i0
      <3>2. o > MINIMUMLRUSIZE
        BY <1>1, <1>2, <2>4
      <3>. QED
        BY <1>6, <1>8, <1>p, <3>1, <3>2
    <2>. QED
      BY <2>2, <2>3, <2>4
  <1>11. CASE ~(u0 + u1 > i0 + i1) /\ p # "SEQ"
    <2>1. PICK where \in deallocator(s, p) : v \in DeallocVictims(s, p, where)
      BY <1>11 DEF Victims, u0, u1, i0, i1
    <2>2. LOOPQUEUE # OTHLRU0 /\ LOOPQUEUE # SEQMRU /\ SEQMRU # OTHLRU0
      BY ListNumbers
    <2>3. ~(l >= LoopLimit) => o > MINIMUMLRUSIZE
      BY <1>1, <1>2, <1>3, <1>4, <1>11
    <2>4. l >= LoopLimit => s.loop # {}
      BY <1>1, <1>2, <1>4, <1>5
    <2>5. CASE where = LOOPQUEUE /\ (l >= LoopLimit \/ s.loop # {} \/ NoneCached(s))
      <3>1. v \in FromLoop(s, p)
        BY <2>1, <2>2, <2>5 DEF DeallocVictims
      <3>2. v.pattern \in Patterns
        BY <3>1 DEF FromLoop, Victim
      <3>3. CASE s.loop # {}
        BY <1>6, <3>1, <3>3
      <3>4. CASE s.loop = {}
        <4>1. v.bufp = NoBuf
          BY <3>1, <3>4 DEF FromLoop, Victim
        <4>. QED
          BY <2>4, <2>5, <3>2, <3>4, <4>1
      <3>. QED
        BY <3>3, <3>4
    <2>6. CASE where = SEQMRU /\ (u0 # 0 \/ ~(l >= LoopLimit))
      <3>1. CASE u0 = 0
        <4>1. v \in FromList(s, BottomOf(s, LastSeg), "SEQ")
          BY <2>1, <2>2, <2>6, <3>1 DEF DeallocVictims, u0
        <4>. QED
          BY <1>8, <1>p, <2>3, <2>6, <3>1, <4>1
      <3>2. CASE u0 # 0
        <4>1. v \in FromList(s, SEQMRU, "SEQ")
          BY <2>1, <2>2, <2>6, <3>2 DEF DeallocVictims, u0
        <4>2. u0 > 0
          BY <1>3, <3>2
        <4>. QED
          BY <1>7, <1>p, <4>1, <4>2
      <3>. QED
        BY <3>1, <3>2
    <2>7. CASE where = OTHLRU0 /\ ~(l >= LoopLimit)
      <3>1. v \in FromList(s, BottomOf(s, LastSeg), p)
        BY <2>1, <2>7 DEF DeallocVictims
      <3>. QED
        BY <1>8, <2>3, <2>7, <3>1
    <2>. QED
      BY <2>1, <2>5, <2>6, <2>7, deallocatorAnswers DEF l, u0
  <1>. QED
    BY <1>9, <1>10, <1>11

(* So the victim is a block of the cache, and one of the segments only     *)
(* when it is last in the LRU order and they have more than the minimum.   *)
LEMMA VictimsCached ==
    ASSUME NEW s, Good(s), NEW v, VictimOf(s, v)
    PROVE  /\ v.bufp \in RealPart(s) /\ v.bufp \in All(s)
           /\ v.bufp \in OthPart(s) =>
                 LastInOrder(s, v.bufp) /\ Cardinality(OthPart(s)) > MINIMUMLRUSIZE
  <1>1. PICK b : b = v.bufp
    OBVIOUS
  <1>2. /\ All(s) = SeqPart(s) \cup OthPart(s) \cup GhostPart(s) \cup s.loop
        /\ SeqPart(s) \cap OthPart(s) = {} /\ s.loop \cap OthPart(s) = {}
    <2>1. /\ All(s) = SeqPart(s) \cup OthPart(s) \cup GhostPart(s) \cup s.loop
          /\ SeqPart(s) \cap OthPart(s) = {}
          /\ s.loop \cap (SeqPart(s) \cup OthPart(s) \cup GhostPart(s)) = {}
      BY Partitions
    <2>. QED
      BY <2>1
  <1>3. ASSUME NEW t \in SeqLists, s.used[t] > 0
        PROVE  LruOf(s, t) \in SeqPart(s) /\ MruOf(s, t) \in SeqPart(s)
    <2>1. t \in Lists
      BY ListNumbers DEF SeqLists
    <2>2. /\ Last(s.list[t]) \in Held(s.list, {t}) /\ Head(s.list[t]) \in Held(s.list, {t})
          /\ LruOf(s, t) = Last(s.list[t]) /\ MruOf(s, t) = Head(s.list[t])
          /\ \A S : t \in S => Held(s.list, {t}) \subseteq Held(s.list, S)
      BY <1>3, <2>1, LastHeld, Zenon
    <2>. QED
      BY <2>2 DEF SeqPart
  <1>4. CASE b \in SeqPart(s) \/ b \in s.loop
    BY <1>1, <1>2, <1>4 DEF RealPart
  <1>5. CASE b = MruOf(s, FREEMRU) /\ s.used[FREEMRU] > 0
    BY <1>3, <1>4, <1>5 DEF SeqLists
  <1>6. CASE b = LruOf(s, SEQMRU) /\ s.used[SEQMRU] > 0
    BY <1>3, <1>4, <1>6 DEF SeqLists
  <1>7. CASE b = LruOf(s, BottomOf(s, LastSeg)) /\ Cardinality(OthPart(s)) > MINIMUMLRUSIZE
    <2>1. OthPart(s) # {}
      <3>1. Cardinality({}) = 0 /\ MINIMUMLRUSIZE \in Nat
        BY FS_EmptySet, CacheAssumption
      <3>. QED
        BY <1>7, <3>1
    <2>2. b \in OthPart(s) /\ LastInOrder(s, b)
      BY <1>7, <2>1, BottomIsLast
    <2>. QED
      BY <1>1, <1>2, <1>7, <2>2 DEF RealPart
  <1>. QED
    BY <1>1, <1>4, <1>5, <1>6, <1>7 DEF VictimOf

----------------------------------------------------------------------------
(* The inductive invariant.                                                *)
IInv ==
    /\ ALLsegInitSize \in InitSizes
    /\ Fine(Bufs)
    /\ allocBufInCache \in 0..cachesize /\ allocBufInGhost \in 0..cachesize
    /\ Cardinality(RealPart(Bufs)) = allocBufInCache
    /\ Cardinality(GhostPart(Bufs)) = allocBufInGhost
    /\ GhostPart(Bufs) # {} => allocBufInCache = cachesize
    /\ fault \in BOOLEAN /\ FaultsOnlyAtEqualGains

(* The variables' view of the buffers, and the properties'.                *)
LEMMA Views ==
    Good(Bufs) =>
        /\ Bufs.list = lrulist /\ Bufs.used = ALLsegUsedSize /\ Bufs.loop = loopQ
        /\ Bufs.sum = rLRUsegLoopQUsedSum
        /\ \A S \in SUBSET Lists : BlocksIn(S) = Held(lrulist, S)
        /\ BlocksIn({SEQMRU, FREEMRU}) = SeqPart(Bufs) /\ BlocksIn(Segments) = OthPart(Bufs)
        /\ BlocksIn(0..LastSeg) = SeqPart(Bufs) \cup OthPart(Bufs)
        /\ Real = RealPart(Bufs) /\ Ghost = GhostPart(Bufs)
        /\ OthersCached = Cardinality(OthPart(Bufs))
  <1> SUFFICES ASSUME Good(Bufs)
               PROVE  /\ Bufs.list = lrulist /\ Bufs.used = ALLsegUsedSize /\ Bufs.loop = loopQ
                      /\ Bufs.sum = rLRUsegLoopQUsedSum
                      /\ \A S \in SUBSET Lists : BlocksIn(S) = Held(lrulist, S)
                      /\ BlocksIn({SEQMRU, FREEMRU}) = SeqPart(Bufs)
                      /\ BlocksIn(Segments) = OthPart(Bufs)
                      /\ BlocksIn(0..LastSeg) = SeqPart(Bufs) \cup OthPart(Bufs)
                      /\ Real = RealPart(Bufs) /\ Ghost = GhostPart(Bufs)
                      /\ OthersCached = Cardinality(OthPart(Bufs))
    OBVIOUS
  <1>1. /\ Bufs.list = lrulist /\ Bufs.used = ALLsegUsedSize /\ Bufs.loop = loopQ
        /\ Bufs.sum = rLRUsegLoopQUsedSum
    BY DEF Bufs
  <1>. HIDE DEF Bufs
  <1>2. /\ Bufs.list \in ListsType
        /\ Segments \subseteq Lists /\ SeqLists \subseteq Lists /\ GhostLists \subseteq Lists
        /\ 0..LastSeg \subseteq Lists
    BY GoodType
  <1>3. \A S \in SUBSET Lists : BlocksIn(S) = Held(lrulist, S)
    BY <1>1, <1>2, HeldInLists DEF BlocksIn
  <1>4. /\ BlocksIn({SEQMRU, FREEMRU}) = SeqPart(Bufs) /\ BlocksIn(Segments) = OthPart(Bufs)
        /\ Ghost = GhostPart(Bufs)
    BY <1>1, <1>2, <1>3 DEF SeqPart, OthPart, GhostPart, SeqLists, Ghost, GhostLists
  <1>5. BlocksIn(0..LastSeg) = SeqPart(Bufs) \cup OthPart(Bufs)
    <2>1. Held(Bufs.list, 0..LastSeg) = SeqPart(Bufs) \cup OthPart(Bufs)
      BY Partitions
    <2>2. BlocksIn(0..LastSeg) = Held(lrulist, 0..LastSeg)
      BY <1>2, <1>3
    <2>. QED
      BY <1>1, <2>1, <2>2, Zenon
  <1>6. Real = RealPart(Bufs)
    BY <1>1, <1>5, Zenon DEF Real, RealPart
  <1>7. OthersCached = Cardinality(OthPart(Bufs))
    BY <1>1, PartSizes DEF OthersCached, OthersUsed
  <1>. QED
    BY <1>1, <1>2, <1>3, <1>4, <1>5, <1>6, <1>7

(* What a reference to b does to the partitions when v leaves: its own     *)
(* place when b = v, the cache when not.                                   *)
Referred(x, y, p, b, v) ==
    /\ Fine(y)
    /\ SeqPart(y) = With(SeqPart(x) \ {v}, p = "SEQ", b)
    /\ OthPart(y) = With(OthPart(x) \ {v}, p = "OTHERS", b)
    /\ y.loop = With(x.loop \ {v}, p = "LOOP", b)
    /\ Order(y.list) = IF p = "OTHERS"
                       THEN Without(Order(x.list), {v}) \cup ({b} \X (OthPart(x) \ {v}))
                       ELSE Without(Order(x.list), {v})
    /\ SeqOrder(y.list) \subseteq
          IF p = "SEQ" THEN Without(SeqOrder(x.list), {v}) \cup ({b} \X (SeqPart(x) \ {v}))
          ELSE Without(SeqOrder(x.list), {v})

(* Taking one block out and putting another in is a reference of the       *)
(* abstract cache.                                                         *)
LEMMA TookAndPut ==
    ASSUME NEW x, NEW s, NEW y, NEW p \in Patterns, NEW b, NEW v, Took(x, s, v), Put(s, y, p, b)
    PROVE  Referred(x, y, p, b, v) /\ GhostPart(y) = GhostPart(x) \ {v}
  <1>1. p # "GHOST"
    BY DEF Patterns
  <1>2. GhostPart(y) = GhostPart(x) \ {v}
    BY <1>1 DEF Took, Put, Placed, With
  <1>3. /\ SeqPart(s) = SeqPart(x) \ {v} /\ OthPart(s) = OthPart(x) \ {v}
        /\ s.loop = x.loop \ {v} /\ Order(s.list) = Without(Order(x.list), {v})
        /\ SeqOrder(s.list) = Without(SeqOrder(x.list), {v})
    BY DEF Took
  <1>4. /\ SeqPart(y) = With(SeqPart(s), p = "SEQ", b)
        /\ OthPart(y) = With(OthPart(s), p = "OTHERS", b)
        /\ y.loop = With(s.loop, p = "LOOP", b)
        /\ Order(y.list) = IF p = "OTHERS" THEN Order(s.list) \cup ({b} \X OthPart(s))
                           ELSE Order(s.list)
        /\ Fine(y)
        /\ SeqOrder(y.list) \subseteq IF p = "SEQ" THEN SeqOrder(s.list) \cup ({b} \X SeqPart(s))
                                     ELSE SeqOrder(s.list)
    BY DEF Put, Placed
  <1>5. Referred(x, y, p, b, v)
    BY <1>3, <1>4, Zenon DEF Referred
  <1>. QED
    BY <1>2, <1>5

(* Same, and Put after it.                                                 *)
LEMMA SameAndPut ==
    ASSUME NEW s, Good(s), NEW u, NEW y, NEW p, NEW b, Same(s, u), b \notin All(s)
    PROVE  b \notin All(u) /\ (Put(u, y, p, b) => Put(s, y, p, b))
  <1>1. Good(u)
    BY DEF Same, Fine
  <1>2. All(u) = All(s)
    BY <1>1, Partitions DEF Same
  <1>3. ASSUME Put(u, y, p, b) PROVE Put(s, y, p, b)
    BY <1>3 DEF Same, Put, Placed
  <1>. QED
    BY <1>2, <1>3

(* The hits: the block leaves its partition and comes into the one that    *)
(* the detector says.                                                      *)
HitAs(b, p) ==
    /\ b \in RealPart(Bufs)
    /\ \E y : Become(y) /\ Referred(Bufs, y, p, b, b) /\ GhostPart(y) = GhostPart(Bufs)
    /\ UNCHANGED <<allocBufInCache, allocBufInGhost>>

HitKept(b) == \E p \in Patterns : HitAs(b, p)

(* Every kind of hit. *)
LEMMA HitsKeep ==
    ASSUME IInv, NEW b \in Blocks, NEW q \in Patterns,
           HitSeq(b) \/ HitOthers(b) \/ HitTurnsLoop(b) \/ HitLoop(b, q)
    PROVE  /\ HitSeq(b) => HitAs(b, "SEQ")
           /\ HitOthers(b) => HitAs(b, "OTHERS")
           /\ HitTurnsLoop(b) => HitAs(b, "LOOP")
           /\ HitLoop(b, q) => HitAs(b, IF q = "LOOP" THEN "LOOP" ELSE "OTHERS")
  <1>1. PICK x : x = Bufs
    OBVIOUS
  <1>i. ALLsegInitSize \in InitSizes
    BY DEF IInv
  <1>2. Fine(x) /\ Good(x) /\ Within(x)
    BY <1>1 DEF IInv, Fine
  <1>3. b \in RealPart(x)
    <2>1. b \in BlocksIn(0..LastSeg) \/ b \in loopQ
      BY DEF HitSeq, HitOthers, HitTurnsLoop, HitLoop
    <2>2. BlocksIn(0..LastSeg) = SeqPart(x) \cup OthPart(x) /\ loopQ = x.loop
      BY <1>1, <1>2, Views
    <2>. QED
      BY <2>1, <2>2 DEF RealPart
  <1>4. b \in All(x) /\ GhostPart(x) \ {b} = GhostPart(x)
    <2>1. /\ All(x) = SeqPart(x) \cup OthPart(x) \cup GhostPart(x) \cup x.loop
          /\ SeqPart(x) \cap GhostPart(x) = {} /\ OthPart(x) \cap GhostPart(x) = {}
          /\ x.loop \cap (SeqPart(x) \cup OthPart(x) \cup GhostPart(x)) = {}
      BY <1>2, Partitions
    <2>. QED
      BY <1>3, <2>1 DEF RealPart
  <1>5. PICK s : s = Leaves(x, b)
    OBVIOUS
  <1>6. Took(x, s, b) /\ Fine(s) /\ Good(s) /\ b \in Blocks \ All(s)
    BY <1>i, <1>2, <1>4, <1>5, LeavesTakes DEF Took, Fine
  <1>7. ASSUME NEW y, NEW p \in Patterns, Become(y), Put(s, y, p, b),
               UNCHANGED <<allocBufInCache, allocBufInGhost>>
        PROVE  HitAs(b, p)
    <2>1. Referred(x, y, p, b, b) /\ GhostPart(y) = GhostPart(x)
      <3>1. Took(x, s, b) /\ Put(s, y, p, b)
        BY <1>6, <1>7
      <3>2. Referred(x, y, p, b, b) /\ GhostPart(y) = GhostPart(x) \ {b}
        BY <3>1, TookAndPut
      <3>. QED
        BY <1>4, <3>2
    <2>. QED
      BY <1>1, <1>3, <1>7, <2>1 DEF HitAs
  <1>p. "SEQ" \in Patterns /\ "LOOP" \in Patterns /\ "OTHERS" \in Patterns
    BY DEF Patterns
  <1>8. ASSUME HitSeq(b) PROVE HitAs(b, "SEQ")
    <2>1. PICK y : y = InsertSeq(s, b)
      OBVIOUS
    <2>2. Become(y) /\ UNCHANGED <<allocBufInCache, allocBufInGhost>>
      BY <1>1, <1>5, <1>8, <2>1 DEF HitSeq
    <2>3. Put(s, y, "SEQ", b)
      BY <1>i, <1>6, <2>1, InsertSeqPuts
    <2>. QED
      BY <1>7, <1>p, <2>2, <2>3
  <1>9. ASSUME HitOthers(b) PROVE HitAs(b, "OTHERS")
    <2>1. PICK y : y = PushOth(s, b)
      OBVIOUS
    <2>2. Become(y) /\ UNCHANGED <<allocBufInCache, allocBufInGhost>>
      BY <1>1, <1>5, <1>9, <2>1 DEF HitOthers
    <2>3. Put(s, y, "OTHERS", b)
      BY <1>i, <1>6, <2>1, PushOthPuts
    <2>. QED
      BY <1>7, <1>p, <2>2, <2>3
  <1>10. ASSUME HitTurnsLoop(b) PROVE HitAs(b, "LOOP")
    <2>1. PICK t : t = ListOf(x, b)
      OBVIOUS
    <2>2. UNCHANGED <<allocBufInCache, allocBufInGhost>>
      BY <1>10 DEF HitTurnsLoop
    <2>3. CASE t \notin Segments
      <3>1. PICK y : y = loopQin(s, b)
        OBVIOUS
      <3>2. Become(y)
        BY <1>1, <1>5, <1>10, <2>1, <2>3, <3>1 DEF HitTurnsLoop
      <3>3. Put(s, y, "LOOP", b)
        BY <1>6, <3>1, loopQinPuts
      <3>. QED
        BY <1>7, <1>p, <2>2, <3>2, <3>3
    <2>4. CASE t \in Segments
      <3>1. PICK k : k = PullEnd(s, t)
        OBVIOUS
      <3>2. PICK u : u = PulledUp(s, t, k)
        OBVIOUS
      <3>3. PICK g : g = PullGhosts(u, k)
        OBVIOUS
      <3>4. PICK y : y = loopQin(g, b)
        OBVIOUS
      <3>5. Become(y)
        BY <1>1, <1>5, <1>10, <2>1, <2>4, <3>1, <3>2, <3>3, <3>4 DEF HitTurnsLoop
      <3>6. t < LastSeg /\ ALLsegInitSize[t] > 0 => s.used[t] < ALLsegInitSize[t]
        <4>1. b \in Held(x.list, {t})
          <5>1. b \in Held(x.list, 0..LastSeg) /\ 0..LastSeg \subseteq Lists
            <6>1. b \in BlocksIn(0..LastSeg)
              BY <1>10 DEF HitTurnsLoop
            <6>2. BlocksIn(0..LastSeg) = SeqPart(x) \cup OthPart(x)
              BY <1>1, <1>2, Views
            <6>3. Held(x.list, 0..LastSeg) = SeqPart(x) \cup OthPart(x)
              BY <1>2, Partitions
            <6>. QED
              BY <1>2, <6>1, <6>2, <6>3, GoodType
          <5>. QED
            BY <1>2, <2>1, <5>1, ListOfHolds
        <4>2. t \in Lists /\ (t < LastSeg => t \in Segments \ {LastSeg}) /\ t \in 0..LastSeg
          BY <2>4, ListNumbers
        <4>3. s.used[t] = x.used[t] - 1
          BY <1>2, <1>4, <1>5, <4>1, <4>2, LeavesKeeps
        <4>4. x.used[t] \in Nat /\ ALLsegInitSize[t] \in Nat
          <5>1. x.used[t] \in Nat
            BY <1>2, <4>2, LastHeld, Zenon
          <5>2. ALLsegInitSize[t] \in Nat
            BY <1>i, <4>2, Sizes
          <5>. QED
            BY <5>1, <5>2
        <4>5. t < LastSeg /\ ALLsegInitSize[t] > 0 => x.used[t] <= ALLsegInitSize[t]
          BY <1>2, <4>2 DEF Within
        <4>. QED
          BY <4>3, <4>4, <4>5
      <3>7. k \in Segments /\ Same(s, u)
        BY <1>i, <1>6, <2>4, <3>1, <3>2, <3>6, PullsSame
      <3>8. Fine(u) /\ Good(u)
        BY <3>7 DEF Same, Fine
      <3>9. Same(u, g)
        BY <1>i, <3>3, <3>7, <3>8, PullsSame
      <3>10. b \notin All(u) /\ b \notin All(g)
        BY <1>6, <3>7, <3>8, <3>9, SameAndPut
      <3>11. Put(g, y, "LOOP", b)
        BY <3>4, <3>9, <3>10, loopQinPuts DEF Same
      <3>12. Put(u, y, "LOOP", b)
        BY <3>8, <3>9, <3>10, <3>11, SameAndPut
      <3>13. Put(s, y, "LOOP", b)
        BY <1>6, <3>7, <3>12, SameAndPut
      <3>. QED
        BY <1>7, <1>p, <2>2, <3>5, <3>13
    <2>. QED
      BY <2>3, <2>4
  <1>11. ASSUME HitLoop(b, q)
         PROVE  HitAs(b, IF q = "LOOP" THEN "LOOP" ELSE "OTHERS")
    <2>1. UNCHANGED <<allocBufInCache, allocBufInGhost>>
      BY <1>11 DEF HitLoop
    <2>2. CASE q = "LOOP"
      <3>1. PICK y : y = loopQin(s, b)
        OBVIOUS
      <3>2. Become(y)
        BY <1>1, <1>5, <1>11, <2>2, <3>1 DEF HitLoop
      <3>3. Put(s, y, "LOOP", b)
        BY <1>6, <3>1, loopQinPuts
      <3>. QED
        BY <1>7, <1>p, <2>1, <2>2, <3>2, <3>3
    <2>3. CASE q # "LOOP"
      <3>1. PlaceOthers(s, b)
        BY <1>1, <1>5, <1>11, <2>3 DEF HitLoop
      <3>2. PICK y : Put(s, y, "OTHERS", b) /\ Become(y)
        BY <1>i, <1>6, <3>1, PlaceOthersPuts
      <3>. QED
        BY <1>7, <1>p, <2>1, <2>3, <3>2
    <2>. QED
      BY <2>2, <2>3
  <1>. QED
    BY <1>8, <1>9, <1>10, <1>11

(* A miss while buffers are left: there are no ghosts yet, so the block is *)
(* nowhere.                                                                *)
FillAs(b, p) ==
    /\ b \notin RealPart(Bufs) /\ GhostPart(Bufs) = {} /\ Warm
    /\ \E y : Become(y) /\ Referred(Bufs, y, p, b, b) /\ GhostPart(y) = GhostPart(Bufs)
    /\ allocBufInCache' = allocBufInCache + 1
    /\ UNCHANGED allocBufInGhost

FillKept(b) == \E p \in Patterns : FillAs(b, p)

(* A miss while buffers are left. *)
LEMMA FillsKeep ==
    ASSUME IInv, NEW b \in Blocks, NEW q \in Patterns, MissWarm(b, q)
    PROVE  FillAs(b, IF q = "OTHERS" THEN "OTHERS" ELSE "SEQ")
  <1>1. PICK x : x = Bufs
    OBVIOUS
  <1>i. ALLsegInitSize \in InitSizes
    BY DEF IInv
  <1>2. Fine(x) /\ Good(x)
    BY <1>1 DEF IInv, Fine
  <1>3. b \notin RealPart(x)
    <2>1. b \notin BlocksIn(0..LastSeg) /\ b \notin loopQ
      BY DEF MissWarm, Missed
    <2>2. BlocksIn(0..LastSeg) = SeqPart(x) \cup OthPart(x) /\ loopQ = x.loop
      BY <1>1, <1>2, Views
    <2>. QED
      BY <2>1, <2>2 DEF RealPart
  <1>4. GhostPart(x) = {} /\ Warm /\ UNCHANGED allocBufInGhost
        /\ allocBufInCache' = allocBufInCache + 1
    <2>1. Warm /\ UNCHANGED allocBufInGhost /\ allocBufInCache' = allocBufInCache + 1
      BY DEF MissWarm
    <2>2. allocBufInCache # cachesize
      <3>1. allocBufInCache \in Int /\ cachesize \in Int
        BY Sizes, <1>i DEF IInv
      <3>. QED
        BY <2>1, <3>1 DEF Warm
    <2>. QED
      BY <1>1, <2>1, <2>2 DEF IInv
  <1>5. b \notin All(x)
    <2>1. All(x) = SeqPart(x) \cup OthPart(x) \cup GhostPart(x) \cup x.loop
      BY <1>2, Partitions
    <2>. QED
      BY <1>3, <1>4, <2>1 DEF RealPart
  <1>6. ASSUME NEW y, NEW p \in Patterns, Become(y), Put(x, y, p, b)
        PROVE  FillAs(b, p)
    <2>1. SeqPart(x) \ {b} = SeqPart(x) /\ OthPart(x) \ {b} = OthPart(x) /\ x.loop \ {b} = x.loop
      BY <1>3 DEF RealPart
    <2>2. Without(Order(x.list), {b}) = Order(x.list) /\ Without(SeqOrder(x.list), {b}) = SeqOrder(x.list)
      BY <1>2, <1>3, OrderWithout DEF RealPart
    <2>3. Took(x, x, b)
      BY <1>2, <1>4, <2>1, <2>2 DEF Took
    <2>4. Referred(x, y, p, b, b) /\ GhostPart(y) = GhostPart(x) \ {b}
      BY <1>6, <2>3, TookAndPut
    <2>. QED
      BY <1>1, <1>3, <1>4, <1>6, <2>4 DEF FillAs
  <1>7. CASE q = "OTHERS"
    <2>1. PICK y : y = PushOth(x, b)
      OBVIOUS
    <2>2. Become(y)
      BY <1>1, <1>7, <2>1 DEF MissWarm
    <2>3. Put(x, y, "OTHERS", b)
      BY <1>i, <1>2, <1>5, <2>1, PushOthPuts
    <2>. QED
      BY <1>6, <1>7, <2>2, <2>3 DEF Patterns
  <1>8. CASE q # "OTHERS"
    <2>1. PICK y : y = InsertSeq(x, b)
      OBVIOUS
    <2>2. Become(y)
      BY <1>1, <1>8, <2>1 DEF MissWarm
    <2>3. Put(x, y, "SEQ", b)
      BY <1>i, <1>2, <1>5, <2>1, InsertSeqPuts
    <2>. QED
      BY <1>6, <1>8, <2>2, <2>3 DEF Patterns
  <1>. QED
    BY <1>7, <1>8

(* The buffer taken from the ghosts for a block: when all are allocated,   *)
(* there is one to take.                                                   *)
GhostGone(x, b, H) ==
    \/ b \in GhostPart(x) /\ H = GhostPart(x) \ {b}
    \/ b \notin GhostPart(x) /\ allocBufInGhost < cachesize /\ H = GhostPart(x)
    \/ /\ b \notin GhostPart(x) /\ ~(allocBufInGhost < cachesize)
       /\ LastGhostBlock \in GhostPart(x) /\ H = GhostPart(x) \ {LastGhostBlock}

SameReal(x, s) ==
    /\ SeqPart(s) = SeqPart(x) /\ OthPart(s) = OthPart(x) /\ s.loop = x.loop
    /\ Order(s.list) = Order(x.list) /\ SeqOrder(s.list) = SeqOrder(x.list)

(* A ghost that is taken out changes nothing of the cache.                 *)
LEMMA GhostLeaves ==
    ASSUME ALLsegInitSize \in InitSizes, NEW x, Fine(x), NEW g \in GhostPart(x),
           NEW s, s = Leaves(x, g)
    PROVE  /\ Fine(s) /\ SameReal(x, s) /\ GhostPart(s) = GhostPart(x) \ {g}
           /\ g \notin All(s) /\ All(s) \subseteq All(x)
  <1>1. Good(x)
    BY DEF Fine
  <1>2. g \in All(x) /\ g \notin SeqPart(x) /\ g \notin OthPart(x) /\ g \notin x.loop
    BY <1>1, Partitions
  <1>3. Took(x, s, g) /\ g \notin All(s)
    BY <1>2, LeavesTakes
  <1>4. Without(Order(x.list), {g}) = Order(x.list) /\ Without(SeqOrder(x.list), {g}) = SeqOrder(x.list)
    BY <1>1, <1>2, OrderWithout
  <1>5. SameReal(x, s)
    BY <1>2, <1>3, <1>4 DEF Took, SameReal
  <1>6. All(s) \subseteq All(x)
    <2>1. Good(s)
      BY <1>3 DEF Took, Fine
    <2>2. All(s) = SeqPart(s) \cup OthPart(s) \cup GhostPart(s) \cup s.loop
      BY <2>1, Partitions
    <2>3. All(x) = SeqPart(x) \cup OthPart(x) \cup GhostPart(x) \cup x.loop
      BY <1>1, Partitions
    <2>. QED
      BY <1>3, <1>5, <2>2, <2>3 DEF Took, SameReal
  <1>. QED
    BY <1>3, <1>5, <1>6 DEF Took

(* Taking a ghost's buffer leaves the real buffers as they are, and at     *)
(* most one ghost goes.                                                    *)
LEMMA GhostTakenLeaves ==
    ASSUME IInv, NEW b \in Blocks, NEW x, x = Bufs, b \notin RealPart(x), NEW s, s = GhostTaken(b)
    PROVE  Fine(s) /\ SameReal(x, s) /\ b \notin All(s) /\ GhostGone(x, b, GhostPart(s))
  <1>i. ALLsegInitSize \in InitSizes
    BY DEF IInv
  <1>2. Fine(x) /\ Good(x)
    BY DEF IInv, Fine
  <1>3. /\ All(x) = SeqPart(x) \cup OthPart(x) \cup GhostPart(x) \cup x.loop
        /\ b \notin SeqPart(x) /\ b \notin OthPart(x) /\ b \notin x.loop
    BY <1>2, Partitions DEF RealPart
  <1>4. /\ {FREEGHOST} \in SUBSET Lists /\ GhostSegs \in SUBSET Lists /\ GhostLists \in SUBSET Lists
        /\ GhostLists = {FREEGHOST} \cup GhostSegs
    BY SegmentNumbers, ListNumbers DEF GhostLists
  <1>5. /\ BlocksIn({FREEGHOST}) = Held(x.list, {FREEGHOST})
        /\ BlocksIn(GhostSegs) = Held(x.list, GhostSegs)
        /\ BlocksIn(FREEGHOST..LastGhost) = GhostPart(x)
        /\ x.used = ALLsegUsedSize
    BY <1>2, <1>4, Views DEF GhostPart, GhostLists
  <1>6. GhostPart(x) = Held(x.list, {FREEGHOST}) \cup Held(x.list, GhostSegs)
    <2>1. x.list \in ListsType
      BY <1>2, GoodType
    <2>2. Held(x.list, {FREEGHOST} \cup GhostSegs)
             = Held(x.list, {FREEGHOST}) \cup Held(x.list, GhostSegs)
      BY <2>1, HeldUnion
    <2>. QED
      BY <1>4, <2>2, Zenon DEF GhostPart
  <1>7. CASE b \in Held(x.list, {FREEGHOST})
    <2>1. s = Leaves(x, b)
      BY <1>5, <1>7 DEF GhostTaken
    <2>2. b \in GhostPart(x)
      BY <1>6, <1>7
    <2>. QED
      BY <1>i, <1>2, <2>1, <2>2, GhostLeaves DEF GhostGone
  <1>8. CASE b \notin Held(x.list, {FREEGHOST}) /\ b \in Held(x.list, GhostSegs)
    <2>1. PICK u : u = Leaves(x, b)
      OBVIOUS
    <2>2. PICK j : j = ListOf(x, b)
      OBVIOUS
    <2>3. s = PullFromGhost(u, j)
      BY <1>5, <1>8, <2>1, <2>2 DEF GhostTaken
    <2>4. j \in GhostSegs
      BY <1>2, <1>4, <1>8, <2>2, ListOfHolds
    <2>5. b \in GhostPart(x)
      BY <1>6, <1>8
    <2>6. /\ Fine(u) /\ SameReal(x, u) /\ GhostPart(u) = GhostPart(x) \ {b}
          /\ b \notin All(u)
      BY <1>i, <1>2, <2>1, <2>5, GhostLeaves
    <2>7. Same(u, s)
      BY <1>i, <2>3, <2>4, <2>6, PullsSame
    <2>8. b \notin All(s)
      BY <2>6, <2>7, SameAndPut DEF Fine
    <2>. QED
      BY <2>5, <2>6, <2>7, <2>8 DEF Same, SameReal, GhostGone
  <1>9. CASE b \notin GhostPart(x) /\ allocBufInGhost < cachesize
    <2>1. s = x
      BY <1>5, <1>6, <1>9 DEF GhostTaken, GetsNewBuffer
    <2>. QED
      BY <1>2, <1>3, <1>9, <2>1 DEF SameReal, GhostGone
  <1>10. CASE b \notin GhostPart(x) /\ ~(allocBufInGhost < cachesize)
    <2>1. PICK g : g = LastGhostBlock
      OBVIOUS
    <2>2. s = Leaves(x, g)
      BY <1>5, <1>6, <1>10, <2>1 DEF GhostTaken, GetsNewBuffer
    <2>3. PICK t \in GhostLists : x.used[t] > 0
      <3>1. GhostPart(x) # {}
        <4>1. Cardinality(GhostPart(x)) = allocBufInGhost /\ allocBufInGhost \in 0..cachesize
          BY DEF IInv
        <4>2. cachesize \in Nat /\ cachesize > 0 /\ Cardinality({}) = 0
          BY <1>i, Sizes, FS_EmptySet
        <4>. QED
          BY <1>10, <4>1, <4>2
      <3>2. Held(x.list, GhostLists) # {} <=> \E t \in GhostLists : x.used[t] > 0
        BY <1>2, <1>4, HeldIsUsed
      <3>. QED
        BY <3>1, <3>2, Zenon DEF GhostPart
    <2>4. PICK m : m = IF ALLsegUsedSize[FREEGHOST] > 0 THEN FREEGHOST ELSE BottomOf(x, LastGhost)
      OBVIOUS
    <2>5. m \in GhostLists /\ m \in Lists /\ x.used[m] > 0
      <3>1. CASE ALLsegUsedSize[FREEGHOST] > 0
        BY <1>4, <1>5, <2>4, <3>1
      <3>2. CASE ~(ALLsegUsedSize[FREEGHOST] > 0)
        <4>1. t \in 0..LastGhost /\ LastGhost \in Lists
          BY ListNumbers DEF GhostLists
        <4>2. BottomOf(x, LastGhost) \in t..LastGhost /\ x.used[BottomOf(x, LastGhost)] > 0
          BY <1>2, <2>3, <4>1, BottomFound, Zenon
        <4>3. m \in t..LastGhost /\ x.used[m] > 0
          BY <2>4, <3>2, <4>2
        <4>. QED
          BY <4>3, ListNumbers DEF GhostLists
      <3>. QED
        BY <3>1, <3>2
    <2>6. g = LruOf(x, m)
      BY <2>1, <2>4 DEF LastGhostBlock
    <2>7. g \in GhostPart(x)
      <3>1. /\ Last(x.list[m]) \in Held(x.list, {m}) /\ LruOf(x, m) = Last(x.list[m])
            /\ \A S : m \in S => Held(x.list, {m}) \subseteq Held(x.list, S)
        BY <1>2, <2>5, LastHeld, Zenon
      <3>. QED
        BY <2>5, <2>6, <3>1 DEF GhostPart
    <2>8. /\ Fine(s) /\ SameReal(x, s) /\ GhostPart(s) = GhostPart(x) \ {g}
          /\ All(s) \subseteq All(x)
      BY <1>i, <1>2, <2>2, <2>7, GhostLeaves
    <2>9. b \notin All(s)
      BY <1>3, <1>10, <2>8
    <2>. QED
      BY <1>10, <2>1, <2>7, <2>8, <2>9 DEF GhostGone
  <1>. QED
    BY <1>6, <1>7, <1>8, <1>9, <1>10

(* It changes the sizes of ghost lists only.                               *)
LEMMA GhostTakenSizes ==
    ASSUME IInv, NEW b \in Blocks, NEW x, x = Bufs, b \notin RealPart(x), NEW s, s = GhostTaken(b)
    PROVE  \A t \in 0..LastSeg : s.used[t] = x.used[t]
  <1>1. Fine(x) /\ Good(x) /\ ALLsegInitSize \in InitSizes
    BY DEF IInv, Fine
  <1>2. x.used \in [Lists -> Nat] /\ 0..LastSeg \subseteq Lists
    BY <1>1, GoodType
  <1>3. /\ GhostLists \in SUBSET Lists /\ GhostLists \cap 0..LastSeg = {}
        /\ {FREEGHOST} \in SUBSET Lists /\ {FREEGHOST} \subseteq GhostLists
        /\ GhostSegs \in SUBSET Lists /\ GhostSegs \subseteq GhostLists
    BY SegmentNumbers, ListNumbers DEF GhostLists
  <1>4. ASSUME NEW g \in GhostPart(x)
        PROVE  \A t \in 0..LastSeg : Leaves(x, g).used[t] = x.used[t]
    <2>1. g # NoBuf /\ g \notin x.loop
      BY <1>1, Partitions, GoodType
    <2>2. ListOf(x, g) \in GhostLists
      BY <1>1, <1>3, ListOfHolds DEF GhostPart
    <2>3. PICK r \in GhostLists : r = ListOf(x, g)
      BY <2>2
    <2>4. Leaves(x, g) = [x EXCEPT !.list[r] = Unlinked(@, g), !.used[r] = @ - 1, !.sum = @ - Counted(r)]
      BY <2>1, <2>3 DEF Leaves
    <2>5. PICK U : U = [x.used EXCEPT ![r] = @ - 1]
      OBVIOUS
    <2>6. Leaves(x, g).used = U
      BY <1>1, <2>4, <2>5, GoodType DEF BufsType
    <2>7. \A t \in 0..LastSeg : t # r
      BY <1>3
    <2>. QED
      BY <1>2, <2>5, <2>6, <2>7
  <1>5. /\ BlocksIn({FREEGHOST}) = Held(x.list, {FREEGHOST})
        /\ BlocksIn(GhostSegs) = Held(x.list, GhostSegs)
        /\ BlocksIn(FREEGHOST..LastGhost) = GhostPart(x)
    BY <1>1, <1>3, Views DEF GhostPart, GhostLists
  <1>6. Held(x.list, {FREEGHOST}) \subseteq GhostPart(x) /\ Held(x.list, GhostSegs) \subseteq GhostPart(x)
    BY <1>3 DEF GhostPart, Held
  <1>7. CASE b \in Held(x.list, {FREEGHOST})
    BY <1>4, <1>5, <1>6, <1>7 DEF GhostTaken
  <1>8. CASE b \notin Held(x.list, {FREEGHOST}) /\ b \in Held(x.list, GhostSegs)
    <2>1. PICK u : u = Leaves(x, b)
      OBVIOUS
    <2>2. PICK j : j = ListOf(x, b)
      OBVIOUS
    <2>3. s = PullFromGhost(u, j)
      BY <1>5, <1>8, <2>1, <2>2 DEF GhostTaken
    <2>4. j \in GhostSegs
      BY <1>1, <1>3, <1>8, <2>2, ListOfHolds
    <2> DEFINE S == {k \in j..LastGhost : \A t \in (j + 1)..k : u.used[t] > 0}
    <2>5. j \in S /\ S \subseteq j..LastGhost
      BY <2>4, SegmentNumbers
    <2>6. PICK k : k = Max(S)
      OBVIOUS
    <2>7. k \in GhostSegs
      <3>. HIDE DEF S
      <3>. QED
        BY <2>4, <2>5, <2>6, PullEnds
    <2>8. s = PulledUp(u, j, k)
      BY <2>3, <2>6 DEF PullFromGhost
    <2>9. Fine(u)
      BY <1>1, <1>6, <1>8, <2>1, GhostLeaves
    <2>10. u.used \in [Lists -> Nat] /\ u \in BufsType
      BY <2>9, GoodType DEF Fine
    <2>11. \A t \in 0..LastSeg : t # j /\ t # k /\ t \in Lists
      BY <1>2, <1>3, <2>4, <2>7
    <2>12. CASE j = k
      BY <1>4, <1>6, <1>8, <2>1, <2>8, <2>12 DEF PulledUp
    <2>13. CASE j # k
      <3>1. s.used = [u.used EXCEPT ![j] = @ + 1, ![k] = @ - 1]
        BY <2>8, <2>10, <2>13 DEF PulledUp, BufsType
      <3>2. \A t \in 0..LastSeg : s.used[t] = u.used[t]
        BY <2>10, <2>11, <3>1
      <3>. QED
        BY <1>4, <1>6, <1>8, <2>1, <3>2
    <2>. QED
      BY <2>12, <2>13
  <1>9. CASE b \notin GhostPart(x)
    <2>1. GhostGone(x, b, GhostPart(s))
      BY GhostTakenLeaves
    <2>2. s = x \/ s = Leaves(x, LastGhostBlock)
      BY <1>5, <1>6, <1>9 DEF GhostTaken
    <2>3. CASE GetsNewBuffer(b)
      <3>1. s = x
        BY <1>5, <1>6, <1>9, <2>3 DEF GhostTaken
      <3>. QED
        BY <3>1
    <2>4. CASE ~GetsNewBuffer(b)
      <3>1. LastGhostBlock \in GhostPart(x)
        BY <1>5, <1>9, <2>1, <2>4 DEF GhostGone, GetsNewBuffer
      <3>2. s = x \/ \A t \in 0..LastSeg : s.used[t] = x.used[t]
        BY <1>4, <2>2, <3>1
      <3>. QED
        BY <3>2
    <2>. QED
      BY <2>3, <2>4
  <1>10. GhostPart(x) = Held(x.list, {FREEGHOST}) \cup Held(x.list, GhostSegs)
    <2>1. GhostLists = {FREEGHOST} \cup GhostSegs /\ x.list \in ListsType
      BY <1>1, GoodType, SegmentNumbers, ListNumbers DEF GhostLists
    <2>2. Held(x.list, {FREEGHOST} \cup GhostSegs)
            = Held(x.list, {FREEGHOST}) \cup Held(x.list, GhostSegs)
      BY <2>1, HeldUnion
    <2>. QED
      BY <2>1, <2>2, Zenon DEF GhostPart
  <1>. QED
    BY <1>7, <1>8, <1>9, <1>10

(* A miss when there are no buffers left: a victim goes, and is put in     *)
(* front of its ghosts.                                                    *)
Replaced(y, p, b, v, H) ==
    /\ v \in RealPart(Bufs) /\ Referred(Bufs, y, p, b, v)
    /\ v \in OthPart(Bufs) =>
          LastInOrder(Bufs, v) /\ Cardinality(OthPart(Bufs)) > MINIMUMLRUSIZE
    /\ GhostGone(Bufs, b, H) /\ GhostPart(y) = H \cup {v}

ReplaceAs(b, p, v, H) ==
    /\ b \notin RealPart(Bufs) /\ ~Warm
    /\ \E y : Become(y) /\ Replaced(y, p, b, v, H)
    /\ UNCHANGED allocBufInCache
    /\ allocBufInGhost' = IF b \notin GhostPart(Bufs) /\ allocBufInGhost < cachesize
                          THEN allocBufInGhost + 1 ELSE allocBufInGhost

ReplaceKept(b) == \E v, H : \E p \in Patterns : ReplaceAs(b, p, v, H)

(* A victim of the queue is a looping block, one of a list is not.         *)
LEMMA VictimsWhere ==
    ASSUME NEW s, Good(s), NEW p, NEW v \in Victims(s, p)
    PROVE  /\ v.where = LOOPQUEUE => v.bufp \in s.loop \cup {NoBuf}
           /\ v.where # LOOPQUEUE =>
                 \E t \in 0..LastSeg : v.bufp \in {MruOf(s, t), LruOf(s, t)}
           /\ v.pattern \in {p, "SEQ"}
  <1> DEFINE Fit(w) ==
                /\ w.where = LOOPQUEUE => w.bufp \in s.loop \cup {NoBuf}
                /\ w.where # LOOPQUEUE =>
                      \E t \in 0..LastSeg : w.bufp \in {MruOf(s, t), LruOf(s, t)}
                /\ w.pattern \in {p, "SEQ"}
  <1>1. ASSUME NEW q \in {p, "SEQ"}, NEW w \in FromLoop(s, q) PROVE Fit(w)
    BY <1>1 DEF FromLoop, Victim
  <1>2. ASSUME NEW q \in {p, "SEQ"}, NEW t \in 0..LastSeg, NEW w \in FromList(s, t, q)
        PROVE  Fit(w)
    <2>1. w.where # LOOPQUEUE
      BY <1>2, ListNumbers DEF FromList, Victim, LOOPQUEUE, MAXLRU, LastSeg
    <2>. QED
      BY <1>2, <2>1 DEF FromList, Victim
  <1>3. SEQMRU \in 0..LastSeg /\ FREEMRU \in 0..LastSeg /\ BottomOf(s, LastSeg) \in 0..LastSeg
    <2> DEFINE S == {u \in 0..LastSeg : s.used[u] > 0} \cup {0}
    <2>1. LastSeg \in Nat /\ S \in SUBSET (0..LastSeg) /\ 0 \in S
      BY ListNumbers
    <2>2. Max(S) \in S
      <3>. HIDE DEF S
      <3>. QED
        BY <2>1, MaxIsGreatest
    <2>. QED
      BY <2>1, <2>2, ListNumbers DEF BottomOf
  <1>4. Fit(Victim(MruOf(s, FREEMRU), FREEMRU, p))
    BY <1>3, ListNumbers DEF Victim, LOOPQUEUE, MAXLRU, LastSeg
  <1>5. ASSUME v \in SeqVictims(s) PROVE Fit(v)
    BY <1>1, <1>2, <1>3, <1>5 DEF SeqVictims
  <1>6. ASSUME NEW where, v \in DeallocVictims(s, p, where) PROVE Fit(v)
    BY <1>1, <1>2, <1>3, <1>6 DEF DeallocVictims
  <1>7. Fit(v)
    BY <1>4, <1>5, <1>6 DEF Victims
  <1>. QED
    BY <1>7

(* A miss in a full cache: one victim, which becomes a ghost. *)
LEMMA ReplacesKeep ==
    ASSUME IInv, NEW b \in Blocks, NEW q \in Patterns, ~Warm, Missed(b),
           NEW v \in Victims(GhostTaken(b), q), Replaces(b, GhostTaken(b), v)
    PROVE  /\ ReplaceAs(b, v.pattern, v.bufp, GhostPart(GhostTaken(b)))
           /\ v.pattern \in Patterns
           /\ v.where = LOOPQUEUE <=> v.bufp \in loopQ
  <1>1. PICK x : x = Bufs
    OBVIOUS
  <1>i. ALLsegInitSize \in InitSizes
    BY DEF IInv
  <1>2. Fine(x) /\ Good(x)
    BY <1>1 DEF IInv, Fine
  <1>3. b \notin RealPart(x)
    <2>1. b \notin BlocksIn(0..LastSeg) /\ b \notin loopQ
      BY DEF Missed
    <2>2. BlocksIn(0..LastSeg) = SeqPart(x) \cup OthPart(x) /\ loopQ = x.loop
      BY <1>1, <1>2, Views
    <2>. QED
      BY <2>1, <2>2 DEF RealPart
  <1>4. PICK s : s = GhostTaken(b)
    OBVIOUS
  <1>5. Fine(s) /\ SameReal(x, s) /\ b \notin All(s) /\ GhostGone(x, b, GhostPart(s)) /\ Good(s)
    BY <1>1, <1>3, <1>4, GhostTakenLeaves DEF Fine
  <1>6. ~Warm
    OBVIOUS
  <1>7. RealPart(s) = RealPart(x) /\ Cardinality(RealPart(s)) = cachesize
    <2>1. RealPart(s) = RealPart(x)
      BY <1>5 DEF SameReal, RealPart
    <2>2. Cardinality(RealPart(x)) = allocBufInCache /\ allocBufInCache \in 0..cachesize
      BY <1>1 DEF IInv
    <2>3. allocBufInCache = cachesize
      BY <1>6, <1>i, <2>2, Sizes DEF Warm
    <2>. QED
      BY <2>1, <2>2, <2>3, Zenon
  <1>8. v \in Victims(s, q) /\ Replaces(b, s, v)
    BY <1>4
  <1>9. v.pattern \in Patterns /\ VictimOf(s, v)
    BY <1>i, <1>5, <1>7, <1>8, VictimsFound DEF Replaces
  <1>10. PICK c : c = v.bufp
    OBVIOUS
  <1>11. /\ c \in RealPart(s) /\ c \in All(s)
         /\ c \in OthPart(s) => LastInOrder(s, c) /\ Cardinality(OthPart(s)) > MINIMUMLRUSIZE
    BY <1>5, <1>9, <1>10, VictimsCached
  <1>12. PICK u : u = Leaves(s, c)
    OBVIOUS
  <1>13. Took(s, u, c) /\ c \notin All(u) /\ c \in Blocks
    BY <1>i, <1>5, <1>11, <1>12, LeavesTakes
  <1>14. Fine(u) /\ Good(u) /\ u.fault = FALSE
    <2>1. Fine(u) /\ Good(u)
      BY <1>13 DEF Took, Fine
    <2>. QED
      BY <2>1, GoodType
  <1>15. PICK g : g = Ghosted(u, v)
    OBVIOUS
  <1>16. Put(u, g, "GHOST", c)
    BY <1>i, <1>10, <1>13, <1>14, <1>15, GhostedPuts
  <1>18. /\ Fine(g) /\ Good(g)
         /\ SeqPart(g) = SeqPart(x) \ {c} /\ OthPart(g) = OthPart(x) \ {c} /\ g.loop = x.loop \ {c}
         /\ Order(g.list) = Without(Order(x.list), {c})
         /\ GhostPart(g) = GhostPart(s) \cup {c}
         /\ SeqOrder(g.list) \subseteq Without(SeqOrder(x.list), {c})
    BY <1>5, <1>13, <1>16 DEF Took, Put, Placed, With, SameReal, Fine
  <1>19. b \notin All(g)
    <2>1. b # c /\ b \notin SeqPart(x) /\ b \notin OthPart(x) /\ b \notin x.loop
      BY <1>3, <1>7, <1>11 DEF RealPart
    <2>2. b \notin GhostPart(s)
      BY <1>5, Partitions
    <2>3. All(g) = SeqPart(g) \cup OthPart(g) \cup GhostPart(g) \cup g.loop
      BY <1>18, Partitions
    <2>. QED
      BY <1>18, <2>1, <2>2, <2>3
  <1>20. ASSUME NEW y, NEW p \in Patterns, Put(g, y, p, b)
         PROVE  Replaced(y, p, b, c, GhostPart(s))
    <2>1. Referred(x, y, p, b, c)
      <3>1. /\ SeqPart(y) = With(SeqPart(g), p = "SEQ", b)
            /\ OthPart(y) = With(OthPart(g), p = "OTHERS", b)
            /\ y.loop = With(g.loop, p = "LOOP", b)
            /\ Order(y.list) = IF p = "OTHERS" THEN Order(g.list) \cup ({b} \X OthPart(g))
                               ELSE Order(g.list)
            /\ Fine(y)
        BY <1>20 DEF Put, Placed
      <3>2. SeqOrder(y.list) \subseteq
              IF p = "SEQ" THEN Without(SeqOrder(x.list), {c}) \cup ({b} \X (SeqPart(x) \ {c}))
              ELSE Without(SeqOrder(x.list), {c})
        BY <1>18, <1>20 DEF Put
      <3>. QED
        BY <1>18, <3>1, <3>2, Zenon DEF Referred
    <2>2. GhostPart(y) = GhostPart(s) \cup {c}
      <3>1. p # "GHOST"
        BY DEF Patterns
      <3>. QED
        BY <1>18, <1>20, <3>1 DEF Put, Placed, With
    <2>3. c \in OthPart(x) => LastInOrder(x, c) /\ Cardinality(OthPart(x)) > MINIMUMLRUSIZE
      BY <1>5, <1>11, Zenon DEF SameReal, LastInOrder
    <2>4. c \in RealPart(x)
      BY <1>7, <1>11
    <2>. QED
      BY <1>1, <1>5, <2>1, <2>2, <2>3, <2>4, Zenon DEF Replaced
  <1>21. UNCHANGED allocBufInCache
         /\ allocBufInGhost' = IF GetsNewBuffer(b) THEN allocBufInGhost + 1 ELSE allocBufInGhost
    BY <1>8 DEF Replaces
  <1>22. GetsNewBuffer(b) <=> b \notin GhostPart(Bufs) /\ allocBufInGhost < cachesize
    <2>1. Ghost = GhostPart(Bufs)
      BY <1>1, <1>2, Views
    <2>. QED
      BY <2>1 DEF Ghost, GetsNewBuffer
  <1>23. ASSUME NEW y, NEW p \in Patterns, Put(g, y, p, b), Become(y)
         PROVE  ReplaceAs(b, p, c, GhostPart(s))
    <2>1. Replaced(y, p, b, c, GhostPart(s))
      BY <1>20, <1>23
    <2>. QED
      BY <1>1, <1>3, <1>6, <1>21, <1>22, <1>23, <2>1 DEF ReplaceAs
  <1>24. /\ v.pattern = "LOOP" => Become(loopQin(g, b))
         /\ v.pattern = "SEQ" => Become(InsertSeq(g, b))
         /\ v.pattern = "OTHERS" => PlaceOthers(g, b)
    BY <1>8, <1>10, <1>12, <1>14, <1>15 DEF Replaces
  <1>25. ASSUME v.pattern = "LOOP" PROVE ReplaceAs(b, "LOOP", c, GhostPart(s))
    <2>1. Put(g, loopQin(g, b), "LOOP", b)
      BY <1>18, <1>19, loopQinPuts
    <2>2. "LOOP" \in Patterns /\ Become(loopQin(g, b))
      BY <1>24, <1>25 DEF Patterns
    <2>. QED
      BY <1>23, <2>1, <2>2
  <1>26. ASSUME v.pattern = "SEQ" PROVE ReplaceAs(b, "SEQ", c, GhostPart(s))
    <2>1. Put(g, InsertSeq(g, b), "SEQ", b)
      BY <1>i, <1>18, <1>19, InsertSeqPuts
    <2>2. "SEQ" \in Patterns /\ Become(InsertSeq(g, b))
      BY <1>24, <1>26 DEF Patterns
    <2>. QED
      BY <1>23, <2>1, <2>2
  <1>27. ASSUME v.pattern = "OTHERS" PROVE ReplaceAs(b, "OTHERS", c, GhostPart(s))
    <2>1. PICK y : Put(g, y, "OTHERS", b) /\ Become(y)
      BY <1>i, <1>18, <1>19, <1>24, <1>27, PlaceOthersPuts
    <2>2. "OTHERS" \in Patterns
      BY DEF Patterns
    <2>. QED
      BY <1>23, <2>1, <2>2
  <1>28. ReplaceAs(b, v.pattern, v.bufp, GhostPart(s))
    <2>1. v.pattern = "LOOP" \/ v.pattern = "SEQ" \/ v.pattern = "OTHERS"
      BY <1>9 DEF Patterns
    <2>. QED
      BY <1>10, <1>25, <1>26, <1>27, <2>1
  <1>29. v.where = LOOPQUEUE <=> c \in s.loop
    <2>1. c # NoBuf
      BY <1>13, CacheAssumption
    <2>2. CASE v.where = LOOPQUEUE
      BY <1>5, <1>8, <1>10, <2>1, <2>2, VictimsWhere
    <2>3. CASE v.where # LOOPQUEUE
      <3>1. PICK t \in 0..LastSeg : c \in {MruOf(s, t), LruOf(s, t)}
        BY <1>5, <1>8, <1>10, <2>3, VictimsWhere
      <3>2. t \in Lists /\ s.list \in ListsType /\ s.list[t] # <<>>
        <4>1. t \in Lists /\ s.list \in ListsType
          BY <1>5, <3>1, GoodType
        <4>2. s.list[t] # <<>>
          BY <2>1, <3>1 DEF MruOf, LruOf
        <4>. QED
          BY <4>1, <4>2
      <3>3. c \in All(s) /\ c \notin s.loop
        <4>1. c \in Held(s.list, {t})
          <5>1. s.used[t] > 0
            <6>1. s.used[t] \in Nat /\ (s.list[t] = <<>> <=> s.used[t] = 0)
              BY <1>5, <3>2, LastHeld, Zenon
            <6>. QED
              BY <3>2, <6>1
          <5>2. /\ Last(s.list[t]) \in Held(s.list, {t}) /\ Head(s.list[t]) \in Held(s.list, {t})
                /\ LruOf(s, t) = Last(s.list[t]) /\ MruOf(s, t) = Head(s.list[t])
            BY <1>5, <3>2, <5>1, LastHeld
          <5>. QED
            BY <3>1, <5>2
        <4>3. Held(s.list, {t}) \subseteq Held(s.list, 0..LastSeg)
          BY <3>1 DEF Held
        <4>2. Held(s.list, 0..LastSeg) = SeqPart(s) \cup OthPart(s)
          BY <1>5, Partitions
        <4>. QED
          BY <1>5, <4>1, <4>2, <4>3, Partitions
      <3>. QED
        BY <2>3, <3>3
    <2>. QED
      BY <2>2, <2>3
  <1>30. loopQ = s.loop
    <2>1. loopQ = x.loop
      BY <1>1, <1>2, Views
    <2>. QED
      BY <1>5, <2>1 DEF SameReal
  <1>. QED
    BY <1>4, <1>9, <1>10, <1>28, <1>29, <1>30

(* No victim is found only where FaultsOnlyAtEqualGains has it.            *)
LEMMA NoVictim ==
    ASSUME IInv, NEW b \in Blocks, NEW q \in Patterns, ~Warm, Missed(b),
           NEW v \in Victims(GhostTaken(b), q), v.bufp = NoBuf
    PROVE  NoneToPrefer
  <1>1. PICK x : x = Bufs
    OBVIOUS
  <1>i. ALLsegInitSize \in InitSizes
    BY DEF IInv
  <1>2. Fine(x) /\ Good(x)
    BY <1>1 DEF IInv, Fine
  <1>3. b \notin RealPart(x) /\ loopQ = x.loop /\ ALLsegUsedSize = x.used
    <2>1. b \notin BlocksIn(0..LastSeg) /\ b \notin loopQ
      BY DEF Missed
    <2>2. /\ BlocksIn(0..LastSeg) = SeqPart(x) \cup OthPart(x) /\ loopQ = x.loop
          /\ ALLsegUsedSize = x.used
      BY <1>1, <1>2, Views
    <2>. QED
      BY <2>1, <2>2 DEF RealPart
  <1>4. PICK s : s = GhostTaken(b)
    OBVIOUS
  <1>5. Fine(s) /\ SameReal(x, s) /\ Good(s) /\ \A t \in 0..LastSeg : s.used[t] = x.used[t]
    BY <1>1, <1>3, <1>4, GhostTakenLeaves, GhostTakenSizes DEF Fine
  <1>6. Cardinality(RealPart(s)) = cachesize
    <2>1. RealPart(s) = RealPart(x)
      BY <1>5 DEF SameReal, RealPart
    <2>2. Cardinality(RealPart(x)) = allocBufInCache /\ allocBufInCache \in 0..cachesize
      BY <1>1 DEF IInv
    <2>3. allocBufInCache = cachesize
      BY <1>i, <2>2, Sizes DEF Warm
    <2>. QED
      BY <2>1, <2>2, <2>3, Zenon
  <1>7. VictimOf(s, v) \/ NoneCached(s)
    BY <1>i, <1>4, <1>5, <1>6, VictimsFound
  <1>8. ~VictimOf(s, v)
    BY <1>5, VictimsCached, GoodType
  <1>9. s.loop = {} /\ s.used[SEQMRU] = 0 /\ s.used[OTHLRU1] # 0
    BY <1>7, <1>8 DEF NoneCached
  <1>10. SEQMRU \in 0..LastSeg /\ OTHLRU1 \in 0..LastSeg /\ 0..LastSeg \subseteq Lists
    BY ListNumbers
  <1>11. s.used[OTHLRU1] \in Nat
    BY <1>5, <1>10, GoodType
  <1>. QED
    BY <1>3, <1>5, <1>9, <1>10, <1>11 DEF NoneToPrefer, SameReal

(* A step that changes no buffer, but may be the one the process dies of.  *)
Stays ==
    /\ UNCHANGED <<ALLsegInitSize, lrulist, ALLsegUsedSize, loopQ, rLRUsegLoopQUsedSum,
                   allocBufInCache, allocBufInGhost>>
    /\ fault' = fault \/ (fault' = TRUE /\ NoneToPrefer)

LEMMA MissDiesStays ==
    ASSUME IInv, NEW b \in Blocks, NEW p \in Patterns, MissDies(b, p)
    PROVE  Stays /\ fault' = TRUE /\ NoneToPrefer
  <1>1. NoneToPrefer
    BY NoVictim DEF MissDies
  <1>2. PICK t : t = Faulty(Bufs)
    OBVIOUS
  <1>3. Become(t) /\ UNCHANGED <<allocBufInCache, allocBufInGhost>>
    BY <1>2 DEF MissDies
  <1>4. /\ t.list = lrulist /\ t.used = ALLsegUsedSize /\ t.loop = loopQ
        /\ t.sum = rLRUsegLoopQUsedSum /\ t.fault = TRUE
    BY <1>2 DEF Faulty, Bufs
  <1>. QED
    BY <1>1, <1>3, <1>4 DEF Become, Stays

(* Every step is a reference, one of the three, or leaves all as it is.    *)
StepKept ==
    (\E b \in Blocks : HitKept(b) \/ FillKept(b) \/ ReplaceKept(b)) \/ Stays

(* Every step is of one of these kinds. *)
LEMMA NextKept ==
    ASSUME IInv, Next
    PROVE  StepKept
  <1>0. CASE Dead
    BY <1>0 DEF Dead, vars, StepKept, Stays
  <1>r. SUFFICES ASSUME NEW b \in Blocks,
                        \/ HitSeq(b) \/ HitOthers(b) \/ HitTurnsLoop(b)
                        \/ \E p \in Patterns : \/ HitLoop(b, p) \/ MissWarm(b, p)
                                               \/ MissFull(b, p) \/ MissDies(b, p)
                 PROVE  StepKept
    BY <1>0 DEF Next
  <1>2. CASE HitSeq(b) \/ HitOthers(b) \/ HitTurnsLoop(b)
    <2>1. "SEQ" \in Patterns
      BY DEF Patterns
    <2>2. HitAs(b, "SEQ") \/ HitAs(b, "OTHERS") \/ HitAs(b, "LOOP")
      BY <1>2, <2>1, HitsKeep
    <2>. QED
      BY <2>2 DEF StepKept, HitKept, Patterns
  <1>3. ASSUME NEW p \in Patterns, HitLoop(b, p) PROVE StepKept
    <2>1. HitAs(b, IF p = "LOOP" THEN "LOOP" ELSE "OTHERS")
      BY <1>3, HitsKeep
    <2>. QED
      BY <2>1 DEF StepKept, HitKept, Patterns
  <1>4. ASSUME NEW p \in Patterns, MissWarm(b, p) PROVE StepKept
    <2>1. FillAs(b, IF p = "OTHERS" THEN "OTHERS" ELSE "SEQ")
      BY <1>4, FillsKeep
    <2>. QED
      BY <2>1 DEF StepKept, FillKept, Patterns
  <1>5. ASSUME NEW p \in Patterns, MissFull(b, p) PROVE StepKept
    <2>1. PICK v \in Victims(GhostTaken(b), p) :
             ~Warm /\ Missed(b) /\ Replaces(b, GhostTaken(b), v)
      BY <1>5 DEF MissFull
    <2>2. /\ ReplaceAs(b, v.pattern, v.bufp, GhostPart(GhostTaken(b)))
          /\ v.pattern \in Patterns
      BY <2>1, ReplacesKeep
    <2>. QED
      BY <2>2 DEF StepKept, ReplaceKept
  <1>6. ASSUME NEW p \in Patterns, MissDies(b, p) PROVE StepKept
    BY <1>6, MissDiesStays DEF StepKept
  <1>. QED
    BY <1>r, <1>2, <1>3, <1>4, <1>5, <1>6

(* The variables after the step are the buffers an operation has made.     *)
LEMMA BecomeBufs ==
    ASSUME NEW y, Fine(y), Become(y)
    PROVE  /\ Bufs' = y /\ UNCHANGED ALLsegInitSize /\ fault' = FALSE
           /\ Fine(Bufs)' /\ SeqPart(Bufs)' = SeqPart(y) /\ OthPart(Bufs)' = OthPart(y)
           /\ RealPart(Bufs)' = RealPart(y) /\ GhostPart(Bufs)' = GhostPart(y)
           /\ Good(Bufs)'
  <1>1. /\ lrulist' = y.list /\ ALLsegUsedSize' = y.used /\ loopQ' = y.loop
        /\ rLRUsegLoopQUsedSum' = y.sum /\ fault' = y.fault /\ UNCHANGED ALLsegInitSize
    BY DEF Become
  <1>2. y \in BufsType /\ y.fault = FALSE /\ Good(y) /\ Within(y)
    BY GoodType DEF Fine
  <1>3. y = [list |-> y.list, used |-> y.used, loop |-> y.loop, sum |-> y.sum, fault |-> y.fault]
    BY <1>2 DEF BufsType
  <1>4. Bufs' = y
    BY <1>1, <1>2, <1>3 DEF Bufs
  <1>. HIDE DEF Bufs
  <1>5. Good(Bufs)'
    BY <1>2, <1>4
  <1>6. Within(Bufs)'
    BY <1>1, <1>2, <1>4 DEF Within
  <1>7. SeqPart(Bufs)' = SeqPart(y) /\ OthPart(Bufs)' = OthPart(y) /\ GhostPart(Bufs)' = GhostPart(y)
        /\ RealPart(Bufs)' = RealPart(y)
    BY <1>4
  <1>. QED
    BY <1>1, <1>2, <1>4, <1>5, <1>6, <1>7 DEF Fine

----------------------------------------------------------------------------
(* One element instead of another.                                         *)
LEMMA Exchanged ==
    ASSUME NEW S, IsFiniteSet(S), NEW v \in S, NEW b, b \notin S
    PROVE  /\ Cardinality(S \ {v}) = Cardinality(S) - 1
           /\ Cardinality((S \ {v}) \cup {b}) = Cardinality(S)
           /\ Cardinality(S \cup {b}) = Cardinality(S) + 1
           /\ Cardinality(S) \in Nat
  <1>1. /\ IsFiniteSet(S \ {v}) /\ Cardinality(S \ {v}) = Cardinality(S) - 1
        /\ Cardinality(S) \in Nat
    BY FS_RemoveElement, FS_CardinalityType
  <1>2. b \notin S \ {v}
    OBVIOUS
  <1>3. Cardinality((S \ {v}) \cup {b}) = Cardinality(S \ {v}) + 1
    BY <1>1, <1>2, FS_AddElement
  <1>4. Cardinality(S \cup {b}) = Cardinality(S) + 1
    BY FS_AddElement
  <1>. QED
    BY <1>1, <1>3, <1>4

(* The cache's blocks after a reference.                                   *)
LEMMA ReferredReal ==
    ASSUME NEW x, NEW y, NEW p \in Patterns, NEW b, NEW v, Referred(x, y, p, b, v)
    PROVE  RealPart(y) = (RealPart(x) \ {v}) \cup {b}
  <1>1. /\ SeqPart(y) = With(SeqPart(x) \ {v}, p = "SEQ", b)
        /\ OthPart(y) = With(OthPart(x) \ {v}, p = "OTHERS", b)
        /\ y.loop = With(x.loop \ {v}, p = "LOOP", b)
    BY DEF Referred
  <1>2. CASE p = "SEQ"
    BY <1>1, <1>2 DEF With, RealPart
  <1>3. CASE p = "OTHERS"
    BY <1>1, <1>3 DEF With, RealPart
  <1>4. CASE p = "LOOP"
    BY <1>1, <1>4 DEF With, RealPart
  <1>. QED
    BY <1>2, <1>3, <1>4 DEF Patterns

(* A reference without a victim adds the block referenced. *)
LEMMA ReferredKeeps ==
    ASSUME NEW x, NEW y, NEW p \in Patterns, NEW b, Referred(x, y, p, b, b)
    PROVE  RealPart(y) = RealPart(x) \cup {b}
  BY ReferredReal

(* And the number of ghosts, when the victim has come to them.             *)
LEMMA GhostGoneSize ==
    ASSUME IInv, NEW x, x = Bufs, NEW b, NEW H, GhostGone(x, b, H), NEW v \in RealPart(x)
    PROVE  Cardinality(H \cup {v}) =
               IF b \notin GhostPart(x) /\ allocBufInGhost < cachesize
               THEN allocBufInGhost + 1 ELSE allocBufInGhost
  <1>1. Good(x) /\ Cardinality(GhostPart(x)) = allocBufInGhost
    BY DEF IInv, Fine
  <1>2. IsFiniteSet(GhostPart(x))
    BY <1>1, PartSizes
  <1>3. v \notin GhostPart(x)
    <2>1. /\ SeqPart(x) \cap GhostPart(x) = {} /\ OthPart(x) \cap GhostPart(x) = {}
          /\ x.loop \cap (SeqPart(x) \cup OthPart(x) \cup GhostPart(x)) = {}
      BY <1>1, Partitions
    <2>. QED
      BY <2>1 DEF RealPart
  <1>4. ASSUME NEW g \in GhostPart(x), H = GhostPart(x) \ {g}
        PROVE  Cardinality(H \cup {v}) = allocBufInGhost
    <2>1. Cardinality((GhostPart(x) \ {g}) \cup {v}) = Cardinality(GhostPart(x))
      <3>1. PICK S : S = GhostPart(x)
        OBVIOUS
      <3>2. IsFiniteSet(S) /\ g \in S /\ v \notin S
        BY <1>2, <1>3, <3>1
      <3>3. Cardinality((S \ {g}) \cup {v}) = Cardinality(S)
        BY <3>2, Exchanged, Zenon
      <3>. QED
        BY <3>1, <3>3, Zenon
    <2>2. H \cup {v} = (GhostPart(x) \ {g}) \cup {v}
      BY <1>4, Zenon
    <2>. QED
      BY <1>1, <2>1, <2>2, Zenon
  <1>5. CASE b \in GhostPart(x) /\ H = GhostPart(x) \ {b}
    BY <1>4, <1>5
  <1>6. CASE b \notin GhostPart(x) /\ allocBufInGhost < cachesize /\ H = GhostPart(x)
    <2>1. Cardinality(GhostPart(x) \cup {v}) = Cardinality(GhostPart(x)) + 1
      BY <1>2, <1>3, FS_AddElement
    <2>. QED
      BY <1>1, <1>6, <2>1
  <1>7. CASE /\ b \notin GhostPart(x) /\ ~(allocBufInGhost < cachesize)
             /\ LastGhostBlock \in GhostPart(x) /\ H = GhostPart(x) \ {LastGhostBlock}
    BY <1>4, <1>7
  <1>. QED
    BY <1>5, <1>6, <1>7 DEF GhostGone

(* The invariant at the beginning: all lists are empty.                    *)
LEMMA EmptyLists ==
    ASSUME Init
    PROVE  /\ Fine(Bufs) /\ SeqPart(Bufs) = {} /\ OthPart(Bufs) = {} /\ Bufs.loop = {}
           /\ GhostPart(Bufs) = {} /\ RealPart(Bufs) = {} /\ Order(Bufs.list) = {}
           /\ SeqOrder(Bufs.list) = {}
           /\ ALLsegInitSize \in InitSizes
  <1>1. /\ ALLsegInitSize \in InitSizes /\ Bufs.list = [t \in Lists |-> <<>>]
        /\ Bufs.used = [t \in Lists |-> 0] /\ Bufs.loop = {} /\ Bufs.sum = 0
        /\ Bufs = [list |-> Bufs.list, used |-> Bufs.used, loop |-> Bufs.loop, sum |-> Bufs.sum,
                   fault |-> FALSE]
    BY DEF Init, Bufs
  <1>. HIDE DEF Bufs
  <1>2. Bufs.list \in ListsType /\ \A t \in Lists : Len(Bufs.list[t]) = 0
    BY <1>1 DEF ListsType
  <1>3. Bufs \in BufsType
    <2>1. Bufs.used \in [Lists -> Nat] /\ Bufs.loop \in SUBSET Blocks /\ Bufs.sum \in Nat
      BY <1>1
    <2> DEFINE L == Bufs.list
               U == Bufs.used
               Q == Bufs.loop
               n == Bufs.sum
    <2>2. Bufs = [list |-> L, used |-> U, loop |-> Q, sum |-> n, fault |-> FALSE]
      BY <1>1
    <2>3. L \in ListsType /\ U \in [Lists -> Nat] /\ Q \in SUBSET Blocks /\ n \in Nat
      BY <1>2, <2>1
    <2>. HIDE DEF L, U, Q, n
    <2>. QED
      BY <2>2, <2>3 DEF BufsType
  <1>4. Places(Bufs.list) = {}
    BY <1>2 DEF Places
  <1>5. \A S : Held(Bufs.list, S) = {}
    BY <1>4 DEF Held
  <1>6. Order(Bufs.list) = {} /\ SeqOrder(Bufs.list) = {}
    BY <1>4 DEF Order, SeqOrder, Ranked
  <1>7. Distinct(Bufs.list)
    BY <1>4 DEF Distinct
  <1>8. Summed(Bufs) = {}
    BY <1>1, <1>5 DEF Summed
  <1>9. Bufs.sum = Cardinality(Summed(Bufs)) /\ IsFiniteSet(Bufs.loop)
    BY <1>1, <1>8, FS_EmptySet, Zenon
  <1>10. \A t \in Lists : Bufs.used[t] = Len(Bufs.list[t])
    BY <1>1, <1>2
  <1>11. Good(Bufs)
    BY <1>1, <1>3, <1>5, <1>7, <1>9, <1>10 DEF Good
  <1>12. Within(Bufs)
    <2>1. SEQMRU \in Lists /\ \A i \in Segments \ {LastSeg} : i \in Lists /\ i \in 0..LastSeg
      BY ListNumbers
    <2>2. ALLsegInitSize[SEQMRU] \in Nat /\ \A i \in 0..LastSeg : ALLsegInitSize[i] \in Nat
      BY <1>1, Sizes
    <2>. QED
      BY <1>1, <2>1, <2>2 DEF Within
  <1>. QED
    BY <1>1, <1>5, <1>6, <1>11, <1>12 DEF Fine, SeqPart, OthPart, GhostPart, RealPart

(* The empty cache. *)
LEMMA IInvInit ==
    Init => IInv
  <1> SUFFICES ASSUME Init PROVE IInv
    OBVIOUS
  <1>1. /\ Fine(Bufs) /\ GhostPart(Bufs) = {} /\ RealPart(Bufs) = {}
        /\ ALLsegInitSize \in InitSizes
    BY EmptyLists
  <1>2. /\ allocBufInCache = 0 /\ allocBufInGhost = 0
        /\ fault \in BOOLEAN /\ FaultsOnlyAtEqualGains
    BY DEF Init, FaultsOnlyAtEqualGains
  <1>3. Cardinality({}) = 0 /\ 0 \in 0..cachesize
    BY FS_EmptySet, CacheAssumption
  <1>. HIDE DEF Bufs
  <1>. QED
    BY <1>1, <1>2, <1>3 DEF IInv

(* And after every step.                                                   *)
LEMMA IInvKept ==
    ASSUME IInv, StepKept
    PROVE  IInv'
  <1>1. PICK x : x = Bufs
    OBVIOUS
  <1>2. /\ ALLsegInitSize \in InitSizes /\ Fine(x) /\ Good(x)
        /\ allocBufInCache \in 0..cachesize /\ allocBufInGhost \in 0..cachesize
        /\ Cardinality(RealPart(x)) = allocBufInCache
        /\ Cardinality(GhostPart(x)) = allocBufInGhost
        /\ GhostPart(x) # {} => allocBufInCache = cachesize
    BY <1>1 DEF IInv, Fine
  <1>3. IsFiniteSet(RealPart(x)) /\ cachesize \in Nat
    BY <1>2, PartSizes, CacheAssumption
  <1>4. CASE Stays
    <2>1. Bufs' = Bufs /\ UNCHANGED <<ALLsegInitSize, allocBufInCache, allocBufInGhost>>
      BY <1>4 DEF Stays, Bufs
    <2>2. NoneToPrefer' <=> NoneToPrefer
      BY <1>4 DEF Stays, NoneToPrefer, Warm
    <2>. HIDE DEF Bufs
    <2>3. fault' \in BOOLEAN /\ FaultsOnlyAtEqualGains'
      <3>1. CASE fault' = fault
        BY <2>2, <3>1, Zenon DEF IInv, FaultsOnlyAtEqualGains
      <3>2. CASE fault' = TRUE /\ NoneToPrefer
        BY <2>2, <3>2, Zenon DEF FaultsOnlyAtEqualGains
      <3>. QED
        BY <1>4, <3>1, <3>2, Zenon DEF Stays
    <2>4. Fine(Bufs)'
      BY <2>1 DEF IInv, Fine, Within
    <2>. QED
      BY <2>1, <2>3, <2>4 DEF IInv
  <1>r. SUFFICES ASSUME NEW b \in Blocks, HitKept(b) \/ FillKept(b) \/ ReplaceKept(b)
                 PROVE  IInv'
    BY <1>4 DEF StepKept
  <1>5. ASSUME NEW y, Fine(y), Become(y),
               allocBufInCache' \in 0..cachesize, allocBufInGhost' \in 0..cachesize,
               Cardinality(RealPart(y)) = allocBufInCache',
               Cardinality(GhostPart(y)) = allocBufInGhost',
               GhostPart(y) # {} => allocBufInCache' = cachesize
        PROVE  IInv'
    <2>1. /\ UNCHANGED ALLsegInitSize /\ Fine(Bufs)'
          /\ RealPart(Bufs)' = RealPart(y) /\ GhostPart(Bufs)' = GhostPart(y)
          /\ fault' = FALSE
      BY <1>5, BecomeBufs
    <2>2. FaultsOnlyAtEqualGains'
      BY <2>1 DEF FaultsOnlyAtEqualGains
    <2>. HIDE DEF Bufs
    <2>. QED
      BY <1>2, <1>5, <2>1, <2>2 DEF IInv
  <1>6. CASE HitKept(b)
    <2>1. PICK y : \E p \in Patterns :
                      Become(y) /\ Referred(x, y, p, b, b) /\ GhostPart(y) = GhostPart(x)
      BY <1>1, <1>6 DEF HitKept, HitAs
    <2>2. b \in RealPart(x) /\ UNCHANGED <<allocBufInCache, allocBufInGhost>>
      BY <1>1, <1>6 DEF HitKept, HitAs
    <2>3. RealPart(y) = RealPart(x) \cup {b}
      BY <2>1, ReferredKeeps
    <2>4. RealPart(y) = RealPart(x)
      BY <2>2, <2>3
    <2>5. Fine(y)
      BY <2>1 DEF Referred
    <2>. QED
      BY <1>2, <1>5, <2>1, <2>2, <2>4, <2>5
  <1>7. CASE FillKept(b)
    <2>1. PICK y : \E p \in Patterns :
                      Become(y) /\ Referred(x, y, p, b, b) /\ GhostPart(y) = GhostPart(x)
      BY <1>1, <1>7 DEF FillKept, FillAs
    <2>2. /\ b \notin RealPart(x) /\ GhostPart(x) = {} /\ allocBufInCache < cachesize
          /\ allocBufInCache' = allocBufInCache + 1 /\ UNCHANGED allocBufInGhost
      BY <1>1, <1>7 DEF FillKept, FillAs, Warm
    <2>3. RealPart(y) = RealPart(x) \cup {b}
      BY <2>1, ReferredKeeps
    <2>5. Cardinality(RealPart(x) \cup {b}) = Cardinality(RealPart(x)) + 1
      BY <1>3, <2>2, FS_AddElement
    <2>6. Cardinality(RealPart(y)) = allocBufInCache' /\ allocBufInCache' \in 0..cachesize
      BY <1>2, <1>3, <2>2, <2>3, <2>5
    <2>7. Fine(y)
      BY <2>1 DEF Referred
    <2>. QED
      BY <1>2, <1>5, <2>1, <2>2, <2>6, <2>7
  <1>8. CASE ReplaceKept(b)
    <2>1. PICK y, v, H : \E p \in Patterns : Become(y) /\ Replaced(y, p, b, v, H)
      BY <1>8 DEF ReplaceKept, ReplaceAs
    <2>2. /\ v \in RealPart(x) /\ GhostGone(x, b, H) /\ GhostPart(y) = H \cup {v}
          /\ \E p \in Patterns : Referred(x, y, p, b, v)
          /\ Become(y)
      BY <1>1, <2>1 DEF Replaced
    <2>3. /\ b \notin RealPart(x) /\ ~(allocBufInCache < cachesize) /\ UNCHANGED allocBufInCache
          /\ allocBufInGhost' = IF b \notin GhostPart(x) /\ allocBufInGhost < cachesize
                                THEN allocBufInGhost + 1 ELSE allocBufInGhost
      BY <1>1, <1>8 DEF ReplaceKept, ReplaceAs, Warm
    <2>4. RealPart(y) = (RealPart(x) \ {v}) \cup {b}
      BY <2>2, ReferredReal
    <2>5. Cardinality((RealPart(x) \ {v}) \cup {b}) = Cardinality(RealPart(x))
      BY <1>3, <2>2, <2>3, Exchanged
    <2>6. Cardinality(RealPart(y)) = allocBufInCache' /\ allocBufInCache' = cachesize
      BY <1>2, <1>3, <2>3, <2>4, <2>5
    <2>7. Cardinality(GhostPart(y)) = allocBufInGhost'
      BY <1>1, <2>2, <2>3, GhostGoneSize
    <2>8. allocBufInGhost' \in 0..cachesize
      BY <1>2, <1>3, <2>3
    <2>9. Fine(y)
      BY <2>2 DEF Referred
    <2>. QED
      BY <1>3, <1>5, <2>2, <2>6, <2>7, <2>8, <2>9
  <1>. QED
    BY <1>r, <1>6, <1>7, <1>8

----------------------------------------------------------------------------
(* The invariant in every state.                                           *)
LEMMA IInvStep ==
    IInv /\ [Next]_vars => IInv'
  <1> SUFFICES ASSUME IInv, [Next]_vars PROVE IInv'
    OBVIOUS
  <1>1. CASE Next
    BY <1>1, NextKept, IInvKept
  <1>2. CASE UNCHANGED vars
    BY <1>2, IInvKept DEF vars, StepKept, Stays
  <1>. QED
    BY <1>1, <1>2

(* The inductive invariant holds in every state.                           *)
THEOREM Invariant == Spec => []IInv
  BY IInvInit, IInvStep, PTL DEF Spec

LEMMA IInvTypes == IInv => TypeOK
  <1> SUFFICES ASSUME IInv PROVE TypeOK
    OBVIOUS
  <1>1. Good(Bufs)
    BY DEF IInv, Fine
  <1>2. /\ Bufs.list = lrulist /\ Bufs.used = ALLsegUsedSize /\ Bufs.loop = loopQ
        /\ Bufs.sum = rLRUsegLoopQUsedSum
    BY <1>1, Views
  <1>3. /\ Bufs.list \in ListsType /\ Bufs.used \in [Lists -> Nat] /\ Bufs.loop \in SUBSET Blocks
        /\ Bufs.sum \in Nat
    BY <1>1, GoodType
  <1>. HIDE DEF Bufs
  <1>. QED
    BY <1>2, <1>3 DEF IInv, TypeOK, ListsType

(* The variables have their types, and never more than cachesize buffers   *)
(* of either kind are allocated.                                           *)
THEOREM TypeCorrect == Spec => []TypeOK
  BY IInvTypes, Invariant, PTL

(* A block is in one place only, and the sizes counted beside the lists    *)
(* are theirs.                                                             *)
THEOREM OncePlaced == Spec => []BuffersOnce
  <1>1. IInv => BuffersOnce
    <2> SUFFICES ASSUME IInv PROVE BuffersOnce
      OBVIOUS
    <2>1. Good(Bufs)
      BY DEF IInv, Fine
    <2>2. /\ Bufs.list = lrulist /\ Bufs.used = ALLsegUsedSize /\ Bufs.loop = loopQ
          /\ Bufs.sum = rLRUsegLoopQUsedSum
          /\ \A S \in SUBSET Lists : BlocksIn(S) = Held(lrulist, S)
      BY <2>1, Views
    <2>3. /\ Bufs.list \in ListsType /\ Distinct(Bufs.list)
          /\ Bufs.loop \cap Held(Bufs.list, Lists) = {}
          /\ Bufs.sum = Cardinality(Summed(Bufs)) /\ Segments \subseteq Lists
          /\ \A t \in Lists : Bufs.used[t] = Len(Bufs.list[t])
      BY <2>1, GoodType DEF Good
    <2>. HIDE DEF Bufs
    <2>4. ASSUME NEW t \in Lists, NEW u \in Lists,
                 NEW i \in 1..Len(lrulist[t]), NEW j \in 1..Len(lrulist[u]),
                 lrulist[t][i] = lrulist[u][j]
          PROVE  t = u /\ i = j
      <3>1. <<t, i>> \in Places(lrulist) /\ At(lrulist, <<t, i>>) = lrulist[t][i]
        BY <2>2, <2>3, PlaceIntro
      <3>2. <<u, j>> \in Places(lrulist) /\ At(lrulist, <<u, j>>) = lrulist[u][j]
        BY <2>2, <2>3, PlaceIntro
      <3>3. <<t, i>> = <<u, j>>
        BY <2>2, <2>3, <2>4, <3>1, <3>2 DEF Distinct
      <3>. QED
        BY <3>3
    <2>5. loopQ \cap BlocksIn(Lists) = {}
      BY <2>2, <2>3
    <2>6. rLRUsegLoopQUsedSum = Cardinality(BlocksIn(Segments) \cup loopQ)
      <3>1. BlocksIn(Segments) = Held(Bufs.list, Segments)
        BY <2>2, <2>3
      <3>. QED
        BY <2>2, <2>3, <3>1, Zenon DEF Summed
    <2>7. \A t \in Lists : ALLsegUsedSize[t] = Len(lrulist[t])
      BY <2>2, <2>3
    <2>. QED
      BY <2>4, <2>5, <2>6, <2>7 DEF BuffersOnce
  <1>. QED
    BY <1>1, Invariant, PTL

(* No buffer gets lost, and real ones and ghosts change places only in     *)
(* exchange.                                                               *)
THEOREM NoneLost == Spec => []BuffersKept
  <1>1. IInv => BuffersKept
    <2> SUFFICES ASSUME IInv PROVE BuffersKept
      OBVIOUS
    <2>1. Real = RealPart(Bufs) /\ Ghost = GhostPart(Bufs)
      BY Views DEF IInv, Fine
    <2>. QED
      BY <2>1, Zenon DEF IInv, BuffersKept
  <1>. QED
    BY <1>1, Invariant, PTL

(* Every search for a victim finds a buffer, but for loopQout when the     *)
(* gains compare neither above nor below and there is neither a looping    *)
(* nor a sequential block.                                                 *)
THEOREM DiesOnlyAtEqualGains == Spec => []FaultsOnlyAtEqualGains
  <1>1. IInv => FaultsOnlyAtEqualGains
    BY DEF IInv
  <1>. QED
    BY <1>1, Invariant, PTL

(* The partition for sequential references and the segments but the last   *)
(* keep within their sizes.                                                *)
THEOREM WithinSizes == Spec => []SegmentsBounded
  <1>1. IInv => SegmentsBounded
    <2> SUFFICES ASSUME IInv PROVE SegmentsBounded
      OBVIOUS
    <2>1. Bufs.used = ALLsegUsedSize /\ Within(Bufs)
      BY Views DEF IInv, Fine
    <2>. HIDE DEF Bufs
    <2>. QED
      BY <2>1 DEF Within, SegmentsBounded
  <1>. QED
    BY <1>1, Invariant, PTL

----------------------------------------------------------------------------
(* InFront is the order of the places.                                     *)
LEMMA InFrontIsOrder ==
    Good(Bufs) => InFront = Order(Bufs.list)
  <1> SUFFICES ASSUME Good(Bufs) PROVE InFront = Order(Bufs.list)
    OBVIOUS
  <1>1. /\ Bufs.list = lrulist /\ BlocksIn(Segments) = OthPart(Bufs)
        /\ Bufs.list \in ListsType /\ Segments \subseteq Lists
    BY Views, GoodType
  <1>. HIDE DEF Bufs
  <1>2. BlocksIn(Segments) = Held(lrulist, Segments)
    BY <1>1 DEF OthPart
  <1>3. ASSUME NEW pr
        PROVE  (\E t, u \in Segments : \E i \in 1..Len(lrulist[t]), j \in 1..Len(lrulist[u]) :
                   /\ pr = <<lrulist[t][i], lrulist[u][j]>>
                   /\ t < u \/ (t = u /\ i < j))
               <=> \E p, q \in Places(lrulist) :
                      /\ p[1] \in Segments /\ q[1] \in Segments /\ Lex(p, q)
                      /\ pr = <<At(lrulist, p), At(lrulist, q)>>
    <2>1. ASSUME NEW t \in Segments, NEW u \in Segments,
                 NEW i \in 1..Len(lrulist[t]), NEW j \in 1..Len(lrulist[u]),
                 pr = <<lrulist[t][i], lrulist[u][j]>>, t < u \/ (t = u /\ i < j)
          PROVE  \E p, q \in Places(lrulist) :
                    /\ p[1] \in Segments /\ q[1] \in Segments /\ Lex(p, q)
                    /\ pr = <<At(lrulist, p), At(lrulist, q)>>
      <3>1. <<t, i>> \in Places(lrulist) /\ At(lrulist, <<t, i>>) = lrulist[t][i]
        BY <1>1, <2>1, PlaceIntro
      <3>2. <<u, j>> \in Places(lrulist) /\ At(lrulist, <<u, j>>) = lrulist[u][j]
        BY <1>1, <2>1, PlaceIntro
      <3>3. Lex(<<t, i>>, <<u, j>>)
        BY <2>1 DEF Lex
      <3>4. <<t, i>>[1] \in Segments /\ <<u, j>>[1] \in Segments
        BY <2>1
      <3>. QED
        BY <2>1, <3>1, <3>2, <3>3, <3>4
    <2>2. ASSUME NEW p \in Places(lrulist), NEW q \in Places(lrulist),
                 p[1] \in Segments, q[1] \in Segments, Lex(p, q),
                 pr = <<At(lrulist, p), At(lrulist, q)>>
          PROVE  \E t, u \in Segments : \E i \in 1..Len(lrulist[t]), j \in 1..Len(lrulist[u]) :
                    /\ pr = <<lrulist[t][i], lrulist[u][j]>>
                    /\ t < u \/ (t = u /\ i < j)
      <3>1. p[2] \in 1..Len(lrulist[p[1]]) /\ q[2] \in 1..Len(lrulist[q[1]])
        BY <1>1, PlaceType
      <3>2. pr = <<lrulist[p[1]][p[2]], lrulist[q[1]][q[2]]>>
        BY <2>2 DEF At
      <3>3. p[1] < q[1] \/ (p[1] = q[1] /\ p[2] < q[2])
        BY <2>2 DEF Lex
      <3>. QED
        BY <2>2, <3>1, <3>2, <3>3
    <2>. QED
      BY <2>1, <2>2
  <1>. QED
    <2>1. \A t \in Segments : t..LastSeg \subseteq Segments
      BY DEF Segments, LastSeg, OTHLRU0, REALLRU
    <2>2. \A t, u \in Segments : t < u \/ t = u => u \in t..LastSeg
      BY DEF Segments, LastSeg, OTHLRU0, REALLRU
    <2> DEFINE Near(pr) == \E t \in Segments : \E u \in t..LastSeg :
                              \E i \in 1..Len(lrulist[t]), j \in 1..Len(lrulist[u]) :
                                 /\ pr = <<lrulist[t][i], lrulist[u][j]>>
                                 /\ t < u \/ (t = u /\ i < j)
               First(pr) == \E p, q \in Places(lrulist) :
                               /\ p[1] \in Segments /\ q[1] \in Segments /\ Lex(p, q)
                               /\ pr = <<At(lrulist, p), At(lrulist, q)>>
               Pairs == BlocksIn(Segments) \X BlocksIn(Segments)
    <2>3. ASSUME NEW pr PROVE Near(pr) <=> First(pr)
      <3>1. Near(pr) <=> (\E t, u \in Segments :
                            \E i \in 1..Len(lrulist[t]), j \in 1..Len(lrulist[u]) :
                               /\ pr = <<lrulist[t][i], lrulist[u][j]>>
                               /\ t < u \/ (t = u /\ i < j))
        BY <2>1, <2>2
      <3>. QED
        BY <1>3, <3>1
    <2>4. InFront = {pr \in Pairs : Near(pr)}
      BY DEF InFront
    <2>5. Order(Bufs.list) = {pr \in Pairs : First(pr)}
      BY <1>1, <1>2, Zenon DEF Order, Ranked
    <2>. HIDE DEF Near, First, Pairs
    <2>. QED
      BY <2>3, <2>4, <2>5

(* The views of the next state.                                            *)
View ==
    /\ Bufs.list = lrulist /\ Bufs.loop = loopQ
    /\ BlocksIn({SEQMRU, FREEMRU}) = SeqPart(Bufs) /\ BlocksIn(Segments) = OthPart(Bufs)
    /\ Real = RealPart(Bufs) /\ Ghost = GhostPart(Bufs)
    /\ OthersCached = Cardinality(OthPart(Bufs))
    /\ InFront = Order(Bufs.list)

(* Of good buffers the abstract cache sees the parts. *)
LEMMA ViewOfGood ==
    /\ IInv => View
    /\ IInv' => View'
  <1>1. IInv => View
    BY Views, InFrontIsOrder DEF View, IInv, Fine
  <1>. QED
    BY <1>1, PTL

(* And of the buffers an operation has made.                               *)
LEMMA ViewOfNext ==
    ASSUME IInv', NEW y, Fine(y), Become(y)
    PROVE  /\ lrulist' = y.list /\ loopQ' = y.loop
           /\ BlocksIn({SEQMRU, FREEMRU})' = SeqPart(y) /\ BlocksIn(Segments)' = OthPart(y)
           /\ Real' = RealPart(y) /\ Ghost' = GhostPart(y)
           /\ OthersCached' = Cardinality(OthPart(y)) /\ InFront' = Order(y.list)
  <1>1. View'
    BY ViewOfGood
  <1>2. Bufs' = y
    BY BecomeBufs
  <1>. HIDE DEF Bufs
  <1>. QED
    BY <1>1, <1>2 DEF View

(* A block of the others leaves them on a miss only when there are more    *)
(* than the minimum.                                                       *)
THEOREM MinimumKept == Spec => MissKeepsMinimum
  <1>1. IInv /\ [Next]_vars =>
           [Real' # Real /\ OthersCached' < OthersCached => OthersCached' >= MINIMUMLRUSIZE]_vars
    <2> SUFFICES ASSUME IInv, Next, Real' # Real, OthersCached' < OthersCached
                 PROVE  OthersCached' >= MINIMUMLRUSIZE
      OBVIOUS
    <2>1. PICK x : x = Bufs
      OBVIOUS
    <2>2. Good(x) /\ IInv' /\ StepKept
      BY <2>1, NextKept, IInvKept DEF IInv, Fine
    <2>3. View /\ Real = RealPart(x) /\ OthersCached = Cardinality(OthPart(x))
      BY <2>1, ViewOfGood DEF View
    <2>4. /\ IsFiniteSet(OthPart(x)) /\ Cardinality(OthPart(x)) \in Nat /\ MINIMUMLRUSIZE \in Nat
      BY <2>2, PartSizes, CacheAssumption
    <2>5. ASSUME NEW y, NEW p \in Patterns, NEW b, NEW v, Become(y), Referred(x, y, p, b, v),
                 b \notin RealPart(x),
                 v \in OthPart(x) => Cardinality(OthPart(x)) > MINIMUMLRUSIZE
          PROVE  OthersCached' >= MINIMUMLRUSIZE
      <3>1. Fine(y) /\ OthPart(y) = With(OthPart(x) \ {v}, p = "OTHERS", b)
        BY <2>5 DEF Referred
      <3>2. OthersCached' = Cardinality(OthPart(y))
        BY <2>2, <2>5, <3>1, ViewOfNext
      <3>3. b \notin OthPart(x)
        BY <2>5 DEF RealPart
      <3>4. PICK O : O = OthPart(x)
        OBVIOUS
      <3>5. CASE v \in O
        <4>1. Cardinality(O \ {v}) = Cardinality(O) - 1 /\ Cardinality((O \ {v}) \cup {b}) = Cardinality(O)
          BY <2>4, <3>3, <3>4, <3>5, Exchanged, ZenonT(30)
        <4>2. OthPart(y) = O \ {v} \/ OthPart(y) = (O \ {v}) \cup {b}
          BY <3>1, <3>4 DEF With
        <4>3. OthersCached' = Cardinality(O) - 1 \/ OthersCached' = Cardinality(O)
          BY <3>2, <4>1, <4>2, Zenon
        <4>. QED
          BY <2>4, <2>5, <3>4, <3>5, <4>3
      <3>6. CASE v \notin O
        <4>1. O \ {v} = O
          BY <3>6
        <4>2. OthPart(y) = O \/ OthPart(y) = O \cup {b}
          BY <3>1, <3>4, <4>1 DEF With
        <4>3. Cardinality(O \cup {b}) = Cardinality(O) + 1
          BY <2>4, <3>3, <3>4, FS_AddElement
        <4>4. OthersCached' = Cardinality(O) \/ OthersCached' = Cardinality(O) + 1
          BY <3>2, <4>2, <4>3, Zenon
        <4>. QED
          BY <2>3, <2>4, <3>4, <4>4
      <3>. QED
        BY <3>5, <3>6
    <2>s. ~Stays
      BY DEF Stays, Real, BlocksIn
    <2>6. PICK b \in Blocks : HitKept(b) \/ FillKept(b) \/ ReplaceKept(b)
      BY <2>2, <2>s DEF StepKept
    <2>7. CASE HitKept(b)
      <3>1. PICK y : \E p \in Patterns : Become(y) /\ Referred(x, y, p, b, b)
        BY <2>1, <2>7 DEF HitKept, HitAs
      <3>2. b \in RealPart(x) /\ RealPart(y) = RealPart(x) \cup {b} /\ Fine(y)
        <4>1. RealPart(y) = RealPart(x) \cup {b}
          BY <3>1, ReferredKeeps
        <4>. QED
          BY <2>1, <2>7, <3>1, <4>1 DEF HitKept, HitAs, Referred
      <3>3. Real' = RealPart(y)
        BY <2>2, <3>1, <3>2, ViewOfNext
      <3>. QED
        BY <2>3, <3>2, <3>3
    <2>8. CASE FillKept(b)
      <3>1. PICK y : \E p \in Patterns : Become(y) /\ Referred(x, y, p, b, b)
        BY <2>1, <2>8 DEF FillKept, FillAs
      <3>2. b \notin RealPart(x) /\ b \notin OthPart(x)
        BY <2>1, <2>8 DEF FillKept, FillAs, RealPart
      <3>. QED
        BY <2>5, <3>1, <3>2
    <2>9. CASE ReplaceKept(b)
      <3>1. PICK y, v, H : \E p \in Patterns : Become(y) /\ Replaced(y, p, b, v, H)
        BY <2>9 DEF ReplaceKept, ReplaceAs
      <3>2. /\ \E p \in Patterns : Become(y) /\ Referred(x, y, p, b, v)
            /\ v \in OthPart(x) => Cardinality(OthPart(x)) > MINIMUMLRUSIZE
        BY <2>1, <3>1 DEF Replaced
      <3>3. b \notin RealPart(x)
        BY <2>1, <2>9 DEF ReplaceKept, ReplaceAs
      <3>. QED
        BY <2>5, <3>2, <3>3
    <2>. QED
      BY <2>6, <2>7, <2>8, <2>9
  <1>. QED
    BY <1>1, Invariant, PTL DEF Spec, MissKeepsMinimum

----------------------------------------------------------------------------
(* The cache of three partitions.  A reference is one of PartitionedCache. *)
LEMMA ReferredRefines ==
    ASSUME IInv, IInv', NEW y, NEW p \in Patterns, NEW b, NEW v,
           Become(y), Referred(Bufs, y, p, b, v)
    PROVE  Abstract!Referenced(b, v)
  <1>1. PICK x : x = Bufs
    OBVIOUS
  <1>2. /\ BlocksIn({SEQMRU, FREEMRU}) = SeqPart(x) /\ BlocksIn(Segments) = OthPart(x)
        /\ InFront = Order(x.list) /\ loopQ = x.loop
    BY <1>1, ViewOfGood DEF View
  <1>3. /\ Fine(y)
        /\ SeqPart(y) = With(SeqPart(x) \ {v}, p = "SEQ", b)
        /\ OthPart(y) = With(OthPart(x) \ {v}, p = "OTHERS", b)
        /\ y.loop = With(x.loop \ {v}, p = "LOOP", b)
        /\ Order(y.list) = IF p = "OTHERS"
                           THEN Without(Order(x.list), {v}) \cup ({b} \X (OthPart(x) \ {v}))
                           ELSE Without(Order(x.list), {v})
    BY <1>1 DEF Referred
  <1>4. /\ BlocksIn({SEQMRU, FREEMRU})' = SeqPart(y) /\ BlocksIn(Segments)' = OthPart(y)
        /\ InFront' = Order(y.list) /\ loopQ' = y.loop
    BY <1>3, ViewOfNext
  <1>5. Abstract!NewerWithout(v) = Without(Order(x.list), {v})
    <2>1. \A pr : v \notin {pr[1], pr[2]} <=> pr[1] \notin {v} /\ pr[2] \notin {v}
      OBVIOUS
    <2>. QED
      BY <1>2, <2>1 DEF Abstract!NewerWithout, Without
  <1>6. CASE p = "SEQ"
    BY <1>2, <1>3, <1>4, <1>5, <1>6, Zenon DEF Abstract!Referenced, With
  <1>7. CASE p = "OTHERS"
    BY <1>2, <1>3, <1>4, <1>5, <1>7, Zenon DEF Abstract!Referenced, With
  <1>8. CASE p = "LOOP"
    BY <1>2, <1>3, <1>4, <1>5, <1>8, Zenon DEF Abstract!Referenced, With
  <1>. QED
    BY <1>6, <1>7, <1>8 DEF Patterns

(* The abstract cache counts as this one does. *)
LEMMA CountsAlike == \A S : Abstract!Cardinality(S) = Cardinality(S)
  BY Zenon DEF Abstract!Cardinality, Cardinality

(* The cached blocks and the blocks that may be given up are the abstract  *)
(* cache's.                                                                *)
LEMMA CachedRefines ==
    ASSUME IInv, NEW x, x = Bufs
    PROVE  /\ Abstract!Cached = RealPart(x)
           /\ Ghost = GhostPart(x) /\ Cardinality(Abstract!Cached) = allocBufInCache
           /\ Cardinality(Ghost) = allocBufInGhost
           /\ \A v \in RealPart(x) : (v \in OthPart(x) => LastInOrder(x, v)) => v \in Abstract!Victims
  <1>1. /\ BlocksIn({SEQMRU, FREEMRU}) = SeqPart(x) /\ BlocksIn(Segments) = OthPart(x)
        /\ InFront = Order(x.list) /\ loopQ = x.loop /\ Ghost = GhostPart(x)
    BY ViewOfGood DEF View
  <1>2. Abstract!Cached = RealPart(x)
    BY <1>1, Zenon DEF Abstract!Cached, RealPart
  <1>3. Cardinality(Abstract!Cached) = allocBufInCache /\ Cardinality(Ghost) = allocBufInGhost
    BY <1>1, <1>2, Zenon DEF IInv
  <1>4. ASSUME NEW v \in RealPart(x), v \in OthPart(x) => LastInOrder(x, v)
        PROVE  v \in Abstract!Victims
    <2>1. CASE v \in OthPart(x)
      <3>1. v \in Abstract!LeastRecent
        BY <1>1, <1>4, <2>1 DEF Abstract!LeastRecent, LastInOrder
      <3>. QED
        BY <3>1 DEF Abstract!Victims
    <2>2. CASE v \notin OthPart(x)
      BY <1>1, <1>4, <2>2 DEF Abstract!Victims, RealPart
    <2>. QED
      BY <2>1, <2>2
  <1>. QED
    BY <1>1, <1>2, <1>3, <1>4

(* Every step of the buffer cache is one of the abstract cache's, or none. *)
LEMMA StepRefines ==
    ASSUME IInv, IInv', StepKept
    PROVE  [Abstract!Next]_(Abstract!vars)
  <1>s. CASE Stays
    BY <1>s DEF Stays, Abstract!vars, BlocksIn, InFront, Ghost
  <1>1. PICK x : x = Bufs
    OBVIOUS
  <1>2. /\ Abstract!Cached = RealPart(x)
        /\ Ghost = GhostPart(x) /\ Cardinality(Abstract!Cached) = allocBufInCache
        /\ Cardinality(Ghost) = allocBufInGhost
        /\ \A v \in RealPart(x) : (v \in OthPart(x) => LastInOrder(x, v)) => v \in Abstract!Victims
    BY <1>1, CachedRefines
  <1>3. allocBufInCache \in 0..cachesize /\ allocBufInGhost \in 0..cachesize /\ cachesize \in Nat
    BY CacheAssumption DEF IInv
  <1>4. ASSUME NEW y, NEW p \in Patterns, NEW b, NEW v, Become(y), Referred(x, y, p, b, v)
        PROVE  Abstract!Referenced(b, v) /\ Ghost' = GhostPart(y)
    <2>1. Fine(y)
      BY <1>4 DEF Referred
    <2>2. Ghost' = GhostPart(y)
      BY <1>4, <2>1, ViewOfNext
    <2>3. Abstract!Referenced(b, v)
      BY <1>1, <1>4, ReferredRefines
    <2>. QED
      BY <2>2, <2>3
  <1>5. SUFFICES ASSUME NEW b \in Blocks, HitKept(b) \/ FillKept(b) \/ ReplaceKept(b)
                 PROVE  Abstract!Next
    BY <1>s DEF StepKept
  <1>6. CASE HitKept(b)
    <2>0. PICK y : \E p \in Patterns :
             Become(y) /\ Referred(x, y, p, b, b) /\ GhostPart(y) = GhostPart(x)
      BY <1>1, <1>6 DEF HitKept, HitAs
    <2>1. PICK p \in Patterns :
             Become(y) /\ Referred(x, y, p, b, b) /\ GhostPart(y) = GhostPart(x)
      BY <2>0
    <2>2. b \in RealPart(x)
      BY <1>1, <1>6 DEF HitKept, HitAs
    <2>3. Abstract!Referenced(b, b) /\ Ghost' = Ghost
      BY <1>2, <1>4, <2>1
    <2>4. Abstract!Hit(b)
      BY <1>2, <2>2, <2>3 DEF Abstract!Hit
    <2>. QED
      BY <2>4 DEF Abstract!Next
  <1>7. CASE FillKept(b)
    <2>0. PICK y : \E p \in Patterns :
             Become(y) /\ Referred(x, y, p, b, b) /\ GhostPart(y) = GhostPart(x)
      BY <1>1, <1>7 DEF FillKept, FillAs
    <2>1. PICK p \in Patterns :
             Become(y) /\ Referred(x, y, p, b, b) /\ GhostPart(y) = GhostPart(x)
      BY <2>0
    <2>2. b \notin RealPart(x) /\ GhostPart(x) = {} /\ allocBufInCache < cachesize
      BY <1>1, <1>7 DEF FillKept, FillAs, Warm
    <2>3. Abstract!Referenced(b, b) /\ Ghost' = Ghost
      BY <1>2, <1>4, <2>1
    <2>4. b \notin Abstract!Cached \cup Ghost /\ Cardinality(Abstract!Cached) < cachesize
      BY <1>2, <2>2
    <2>5. Abstract!Cardinality(Abstract!Cached) < cachesize
      BY <2>4, CountsAlike, Zenon
    <2>6. Abstract!Fill(b)
      BY <2>3, <2>4, <2>5, Zenon DEF Abstract!Fill
    <2>. QED
      BY <2>6 DEF Abstract!Next
  <1>8. CASE ReplaceKept(b)
    <2>1. PICK y, v, H : \E p \in Patterns : Become(y) /\ Replaced(y, p, b, v, H)
      BY <1>8 DEF ReplaceKept, ReplaceAs
    <2>2. PICK p \in Patterns : Become(y) /\ Replaced(y, p, b, v, H)
      BY <2>1
    <2>3. /\ v \in RealPart(x) /\ Referred(x, y, p, b, v)
          /\ v \in OthPart(x) => LastInOrder(x, v)
          /\ GhostGone(x, b, H) /\ GhostPart(y) = H \cup {v}
      BY <1>1, <2>2 DEF Replaced
    <2>4. b \notin Abstract!Cached /\ Cardinality(Abstract!Cached) = cachesize
      BY <1>1, <1>2, <1>3, <1>8 DEF ReplaceKept, ReplaceAs, Warm
    <2>5. Abstract!Referenced(b, v) /\ Ghost' = H \cup {v}
      BY <1>4, <2>2, <2>3
    <2>6. v \in Abstract!Cached /\ v \in Abstract!Victims
      BY <1>2, <2>3
    <2>7. IF b \in Ghost THEN Ghost' = (Ghost \ {b}) \cup {v}
          ELSE IF Cardinality(Ghost) < cachesize THEN Ghost' = Ghost \cup {v}
          ELSE \E g \in Ghost : Ghost' = (Ghost \ {g}) \cup {v}
      BY <1>2, <2>3, <2>5, Zenon DEF GhostGone
    <2>8. /\ Abstract!Cardinality(Abstract!Cached) = cachesize
          /\ Abstract!Cardinality(Ghost) = Cardinality(Ghost)
      BY <2>4, CountsAlike, Zenon
    <2>9. Abstract!Replace(b)
      BY <2>4, <2>5, <2>6, <2>7, <2>8, Zenon DEF Abstract!Replace
    <2>. QED
      BY <2>9 DEF Abstract!Next
  <1>. QED
    BY <1>5, <1>6, <1>7, <1>8

(* The buffer cache is a cache of three partitions: it gives up one block  *)
(* at a time, only when it is full, the other references in LRU order, and *)
(* it remembers as ghosts the blocks it gave up last.                      *)
THEOREM ImplementsCache == Spec => IsPartitionedCache
  <1>1. Init => Abstract!Init
    <2> SUFFICES ASSUME Init PROVE Abstract!Init
      OBVIOUS
    <2>1. /\ SeqPart(Bufs) = {} /\ OthPart(Bufs) = {} /\ Bufs.loop = {}
          /\ GhostPart(Bufs) = {} /\ Order(Bufs.list) = {}
      BY EmptyLists
    <2>2. View
      BY IInvInit, ViewOfGood
    <2>3. loopQ = {}
      BY DEF Init
    <2>. HIDE DEF Bufs
    <2>. QED
      BY <2>1, <2>2, <2>3 DEF View, Abstract!Init
  <1>2. IInv /\ IInv' /\ [Next]_vars => [Abstract!Next]_(Abstract!vars)
    <2> SUFFICES ASSUME IInv, IInv', [Next]_vars
                 PROVE  [Abstract!Next]_(Abstract!vars)
      OBVIOUS
    <2>1. CASE Next
      BY <2>1, NextKept, StepRefines
    <2>2. CASE UNCHANGED vars
      BY <2>2 DEF vars, Abstract!vars, BlocksIn, InFront, Ghost
    <2>. QED
      BY <2>1, <2>2
  <1>. QED
    BY <1>1, <1>2, Invariant, PTL DEF Spec, IsPartitionedCache, Abstract!Spec

=============================================================================
