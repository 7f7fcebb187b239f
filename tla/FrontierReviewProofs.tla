------------------------ MODULE FrontierReviewProofs ------------------------
(***************************************************************************)
(* Proofs about the review of a set of functions in packets, for any       *)
(* functions, files and lengths of source.                                 *)
(***************************************************************************)
EXTENDS FrontierReview, FiniteSetTheorems, NaturalsInduction, WellFoundedInduction, TLAPS

-----------------------------------------------------------------------------
(* Numbers                                                                  *)

(* A set of naturals that is not empty has a least element. *)
LEMMA LeastElement ==
    ASSUME NEW S \in SUBSET Nat, S # {}
    PROVE  \E n \in S : \A m \in S : n <= m
<1>1. PICK n \in S : \A m \in Nat : <<m, n>> \in OpToRel(<, Nat) => m \notin S
  BY NatLessThanWellFounded, WFMin
<1>2. \A m \in S : ~(m < n)
  BY <1>1 DEF OpToRel
<1>3. \A m \in S : m \in Nat /\ n \in Nat
  BY <1>1
<1>4. \A m \in S : n <= m
  BY <1>2, <1>3
<1> QED
  BY <1>1, <1>4

LEMMA LeastIs ==
    ASSUME NEW S \in SUBSET Nat, S # {}
    PROVE  Least(S) \in S /\ \A m \in S : Least(S) <= m
BY LeastElement DEF Least

(* The powers of two, from the number of subsets of a set. *)
LEMMA PowerOfTwo ==
    ASSUME NEW n \in Nat
    PROVE  /\ 2 ^ n \in Nat
           /\ 2 ^ 0 = 1
           /\ 2 ^ (n + 1) = 2 * 2 ^ n
<1> DEFINE S == 1..n
           N == n + 1
           A == SUBSET S
           B == {T \cup {N} : T \in A}
<1>1. /\ IsFiniteSet(S) /\ Cardinality(S) = n
      /\ IsFiniteSet(1..N) /\ Cardinality(1..N) = N
  BY FS_Interval
<1>2. IsFiniteSet(A) /\ Cardinality(A) = 2 ^ n
  BY <1>1, FS_SUBSET
<1>3. IsFiniteSet(SUBSET (1..N)) /\ Cardinality(SUBSET (1..N)) = 2 ^ N
  BY <1>1, FS_SUBSET
<1>4. 2 ^ n \in Nat
  BY <1>2, FS_CardinalityType
<1>5. SUBSET {} = {{}} /\ IsFiniteSet({}) /\ Cardinality({}) = 0
  BY FS_EmptySet
<1>6. 2 ^ 0 = 1
  <2>1. Cardinality(SUBSET {}) = 2 ^ 0
    BY <1>5, FS_SUBSET
  <2>2. Cardinality({{}}) = 1
    BY FS_Singleton
  <2> QED
    BY <1>5, <2>1, <2>2
<1>7. N \notin S
  OBVIOUS
<1>8. SUBSET (1..N) = A \cup B
  <2>1. ASSUME NEW T \in SUBSET (1..N), N \in T PROVE T \in B
    <3>1. T \ {N} \in A /\ (T \ {N}) \cup {N} = T
      BY <2>1
    <3> QED
      BY <3>1
  <2>2. ASSUME NEW T \in SUBSET (1..N), N \notin T PROVE T \in A
    BY <2>2
  <2>3. A \cup B \subseteq SUBSET (1..N)
    <3>1. S \subseteq 1..N /\ N \in 1..N
      OBVIOUS
    <3> QED
      BY <3>1
  <2> QED
    BY <2>1, <2>2, <2>3
<1>9. A \cap B = {}
  BY <1>7
<1>10. IsFiniteSet(B) /\ Cardinality(B) = Cardinality(A)
  <2> DEFINE f == [T \in A |-> T \cup {N}]
  <2>1. f \in Bijection(A, B)
    <3>1. f \in [A -> B] /\ \A b \in B : \E a \in A : f[a] = b
      OBVIOUS
    <3>2. ASSUME NEW a \in A, NEW b \in A, f[a] = f[b] PROVE a = b
      <4>1. a \cup {N} = b \cup {N} /\ N \notin a /\ N \notin b
        BY <3>2, <1>7
      <4> QED
        BY <4>1
    <3> QED
      BY <3>1, <3>2 DEF Bijection, Injection, Surjection, IsInjective
  <2>2. ExistsBijection(A, B)
    BY <2>1 DEF ExistsBijection
  <2> QED
    BY <2>2, <1>2, FS_Bijection
<1>11. Cardinality(A \cup B) = Cardinality(A) + Cardinality(B) - Cardinality(A \cap B)
  BY <1>2, <1>10, FS_Union
<1>12. Cardinality(A \cap B) = 0
  BY <1>9, FS_EmptySet
<1> HIDE DEF A, B
<1>13. Cardinality(SUBSET (1..N)) = 2 ^ n + 2 ^ n
  <2>1. Cardinality(A) \in Nat /\ Cardinality(A) = 2 ^ n /\ Cardinality(B) = 2 ^ n
    BY <1>2, <1>4, <1>10
  <2>2. Cardinality(A \cup B) = 2 ^ n + 2 ^ n - 0
    BY <1>11, <1>12, <2>1
  <2>3. Cardinality(A \cup B) = 2 ^ n + 2 ^ n
    BY <1>4, <2>2
  <2> QED
    BY <1>8, <2>3, Zenon
<1>14. 2 ^ (n + 1) = 2 ^ n + 2 ^ n
  BY <1>3, <1>13
<1> QED
  BY <1>4, <1>6, <1>14

LEMMA PowerPositive ==
    ASSUME NEW n \in Nat
    PROVE  2 ^ n > 0
<1>1. IsFiniteSet(1..n) /\ Cardinality(1..n) = n
  BY FS_Interval
<1>2. IsFiniteSet(SUBSET (1..n)) /\ Cardinality(SUBSET (1..n)) = 2 ^ n
  BY <1>1, FS_SUBSET
<1>3. SUBSET (1..n) # {}
  OBVIOUS
<1>4. 2 ^ n # 0
  BY <1>2, <1>3, FS_EmptySet
<1>5. 2 ^ n \in Nat
  BY PowerOfTwo
<1> QED
  BY <1>4, <1>5

LEMMA CountedFromZero ==
    ASSUME NEW n \in Nat
    PROVE  IsFiniteSet(0..(n - 1)) /\ Cardinality(0..(n - 1)) = n
<1>1. /\ IsFiniteSet(0..(n - 1))
      /\ Cardinality(0..(n - 1)) = IF 0 > n - 1 THEN 0 ELSE n - 1 - 0 + 1
  BY FS_Interval, 0 \in Int, n - 1 \in Int
<1> QED
  BY <1>1

(* The elements of a finite set of numbers are ranked 0, 1, ..., n - 1. *)
Rank(S, f) == Cardinality({g \in S : g < f})

LEMMA RankBijective ==
    ASSUME NEW S \in SUBSET Nat, IsFiniteSet(S)
    PROVE  [f \in S |-> Rank(S, f)] \in Bijection(S, 0..(Cardinality(S) - 1))
<1> DEFINE n == Cardinality(S)
           r == [f \in S |-> Rank(S, f)]
           Lower(f) == {g \in S : g < f}
<1>1. n \in Nat
  BY FS_CardinalityType
<1>2. ASSUME NEW f \in S PROVE IsFiniteSet(Lower(f)) /\ Rank(S, f) \in 0..(n - 1)
  <2>1. Lower(f) \in SUBSET S /\ f \notin Lower(f)
    OBVIOUS
  <2>2. IsFiniteSet(Lower(f)) /\ Cardinality(Lower(f)) <= n /\ Cardinality(Lower(f)) # n
    BY <2>1, FS_Subset
  <2>3. Cardinality(Lower(f)) \in Nat
    BY <2>2, FS_CardinalityType
  <2> QED
    BY <1>1, <2>2, <2>3 DEF Rank
<1>3. ASSUME NEW f \in S, NEW g \in S, f < g PROVE Rank(S, f) < Rank(S, g)
  <2>0. \A x \in S : x \in Nat
    OBVIOUS
  <2>1. Lower(f) \in SUBSET Lower(g) /\ f \in Lower(g) /\ f \notin Lower(f)
    <3>1. f \in Nat /\ g \in Nat
      BY <2>0
    <3>2. \A x \in S : x < f => x < g
      BY <1>3, <2>0, <3>1
    <3>3. ~(f < f)
      BY <3>1
    <3> QED
      BY <1>3, <3>2, <3>3
  <2>2. Cardinality(Lower(f)) <= Cardinality(Lower(g)) /\ Cardinality(Lower(f)) # Cardinality(Lower(g))
    BY <1>2, <2>1, FS_Subset
  <2> QED
    BY <1>1, <1>2, <2>2 DEF Rank
<1>4. r \in Injection(S, 0..(n - 1))
  <2>1. r \in [S -> 0..(n - 1)]
    BY <1>2
  <2>2. ASSUME NEW f \in S, NEW g \in S, f # g PROVE r[f] # r[g]
    <3>1. f < g \/ g < f
      BY <2>2
    <3>2. Rank(S, f) \in Int /\ Rank(S, g) \in Int
      <4>1. Rank(S, f) \in 0..(n - 1) /\ Rank(S, g) \in 0..(n - 1)
        BY <1>2
      <4> QED
        BY <1>1, <4>1
    <3>3. Rank(S, f) # Rank(S, g)
      BY <1>3, <3>1, <3>2
    <3> QED
      BY <3>3
  <2> QED
    BY <2>1, <2>2 DEF Injection, IsInjective
<1>5. IsFiniteSet(0..(n - 1)) /\ Cardinality(0..(n - 1)) = n
  BY <1>1, CountedFromZero
<1> QED
  BY <1>4, <1>5, FS_Injection DEF Bijection

(* The two halves of a set have half of it, rounded down and up. *)
LEMMA HalvesOf ==
    ASSUME NEW S \in SUBSET Nat, IsFiniteSet(S)
    PROVE  /\ UNION Halves(S) = S
           /\ \A h \in Halves(S) :
                 /\ h \in SUBSET S /\ h # {} /\ IsFiniteSet(h) /\ Cardinality(h) \in Nat
                 /\ 2 * Cardinality(h) <= Cardinality(S) + 1
<1> DEFINE n == Cardinality(S)
           k == n \div 2
           F == FirstHalf(S)
           r == [f \in S |-> Rank(S, f)]
<1>1. n \in Nat
  BY FS_CardinalityType
<1>2. k \in Nat /\ k <= n /\ 2 * k <= n /\ n <= 2 * k + 1
  BY <1>1
<1>3. F = {f \in S : r[f] < k} /\ F \in SUBSET S
  BY DEF FirstHalf, Rank
<1>4. r \in Bijection(S, 0..(n - 1))
  BY RankBijective
<1> HIDE DEF r, k, F, n
<1>5. [f \in F |-> r[f]] \in Bijection(F, 0..(k - 1))
  <2>1. \A f \in S : r[f] \in 0..(n - 1)
    BY <1>4 DEF Bijection, Injection
  <2>2. \A f \in F : r[f] \in 0..(k - 1)
    BY <1>1, <1>2, <1>3, <2>1
  <2>3. \A f, g \in F : r[f] = r[g] => f = g
    BY <1>3, <1>4 DEF Bijection, Injection, IsInjective
  <2>4. ASSUME NEW i \in 0..(k - 1) PROVE \E f \in F : r[f] = i
    <3>1. i \in 0..(n - 1) /\ i < k
      BY <1>1, <1>2
    <3>2. PICK f \in S : r[f] = i
      BY <1>4, <3>1 DEF Bijection, Surjection
    <3> QED
      BY <1>3, <3>1, <3>2
  <2> QED
    BY <2>2, <2>3, <2>4 DEF Bijection, Injection, Surjection, IsInjective
<1>6. IsFiniteSet(F) /\ IsFiniteSet(S \ F)
  BY <1>3, FS_Subset
<1>7. Cardinality(F) = k
  <2>1. IsFiniteSet(0..(k - 1)) /\ Cardinality(0..(k - 1)) = k
    BY <1>2, CountedFromZero
  <2>2. ExistsBijection(F, 0..(k - 1))
    BY <1>5 DEF ExistsBijection
  <2> QED
    BY <1>6, <2>1, <2>2, FS_Bijection
<1>8. Cardinality(S \ F) = n - k
  <2>1. F \cap S = F
    BY <1>3
  <2> QED
    BY <1>6, <1>7, <2>1, FS_Difference DEF n
<1>9. Halves(S) = {F, S \ F} \ {{}}
  BY DEF Halves, F
<1>10. UNION Halves(S) = S
  <2>1. F \cup (S \ F) = S
    BY <1>3
  <2> QED
    BY <1>9, <2>1
<1>11. ASSUME NEW h \in Halves(S)
       PROVE  /\ h \in SUBSET S /\ h # {} /\ IsFiniteSet(h) /\ Cardinality(h) \in Nat
              /\ 2 * Cardinality(h) <= n + 1
  <2>1. (h = F \/ h = S \ F) /\ h # {}
    BY <1>9
  <2>2. CASE h = F
    BY <1>1, <1>2, <1>3, <1>6, <1>7, <2>1, <2>2
  <2>3. CASE h = S \ F
    BY <1>1, <1>2, <1>6, <1>8, <2>1, <2>3
  <2> QED
    BY <2>1, <2>2, <2>3
<1> QED
  BY <1>10, <1>11 DEF n

-----------------------------------------------------------------------------
(* Pieces of source and chunks of them *)

LEMMA PiecesAre ==
    ASSUME NEW fs \in SUBSET Functions
    PROVE  /\ \A p \in Pieces(fs) : /\ p[1] \in fs /\ p[2] \in 1..Lines[p[1]]
                                    /\ p[1] \in Nat /\ p[2] \in Nat /\ p = <<p[1], p[2]>>
           /\ \A f \in fs : \A l \in 1..Lines[f] : <<f, l>> \in Pieces(fs)
           /\ IsFiniteSet(Pieces(fs))
           /\ Pieces(fs) \in SUBSET Pieces(Functions)
<1>1. \A f \in Functions : f \in Nat /\ Lines[f] \in Nat
  BY FrontierConstants
<1>2. ASSUME NEW p \in Pieces(fs)
      PROVE  /\ p[1] \in fs /\ p[2] \in 1..Lines[p[1]]
             /\ p[1] \in Nat /\ p[2] \in Nat /\ p = <<p[1], p[2]>>
  <2>1. PICK f \in fs : p \in {f} \X (1..Lines[f])
    BY DEF Pieces
  <2>2. p[1] = f /\ p[2] \in 1..Lines[f] /\ p = <<p[1], p[2]>>
    BY <2>1
  <2> QED
    BY <1>1, <2>1, <2>2
<1>3. \A f \in fs : \A l \in 1..Lines[f] : <<f, l>> \in Pieces(fs)
  BY DEF Pieces
<1>4. IsFiniteSet(Pieces(fs))
  <2> DEFINE Of == [f \in fs |-> {f} \X (1..Lines[f])]
             T == {{f} \X (1..Lines[f]) : f \in fs}
  <2>1. IsFiniteSet(fs)
    BY FrontierConstants, FS_Subset
  <2>2. Of \in Surjection(fs, T)
    BY DEF Surjection
  <2>3. IsFiniteSet(T)
    BY <2>1, <2>2, FS_Surjection
  <2>4. ASSUME NEW t \in T PROVE IsFiniteSet(t)
    <3>1. PICK f \in fs : t = {f} \X (1..Lines[f])
      OBVIOUS
    <3>2. IsFiniteSet({f}) /\ IsFiniteSet(1..Lines[f])
      <4>1. Lines[f] \in Int /\ 1 \in Int
        BY <1>1
      <4> QED
        BY <4>1, FS_Singleton, FS_Interval
    <3> QED
      BY <3>1, <3>2, FS_Product
  <2> QED
    BY <2>3, <2>4, FS_UNION DEF Pieces
<1>5. Pieces(fs) \in SUBSET Pieces(Functions)
  BY DEF Pieces
<1> QED
  BY <1>2, <1>3, <1>4, <1>5

LEMMA BeforeOrders ==
    ASSUME NEW p \in Pieces(Functions), NEW q \in Pieces(Functions)
    PROVE  /\ ~Before(p, p)
           /\ p # q => Before(p, q) \/ Before(q, p)
           /\ \A r \in Pieces(Functions) : Before(p, q) /\ Before(q, r) => Before(p, r)
<1>1. \A r \in Pieces(Functions) : r[1] \in Nat /\ r[2] \in Nat /\ r = <<r[1], r[2]>>
  BY PiecesAre
<1>2. ~Before(p, p)
  BY <1>1 DEF Before
<1>3. ASSUME p # q PROVE Before(p, q) \/ Before(q, p)
  <2>1. p[1] # q[1] \/ p[2] # q[2]
    BY <1>1, <1>3
  <2> QED
    BY <1>1, <2>1 DEF Before
<1>4. ASSUME NEW r \in Pieces(Functions), Before(p, q), Before(q, r) PROVE Before(p, r)
  BY <1>1, <1>4 DEF Before
<1> QED
  BY <1>2, <1>3, <1>4

(* Every piece is in a chunk, and of two chunks one lies before the other. *)
LEMMA ChunksAre ==
    ASSUME NEW fs \in SUBSET Functions, NEW b \in Budgets
    PROVE  /\ UNION Chunks(fs, b) = Pieces(fs)
           /\ IsFiniteSet(Chunks(fs, b))
           /\ \A c \in Chunks(fs, b) : c # {} /\ c \in SUBSET Pieces(fs)
           /\ \A c, d \in Chunks(fs, b) : c # d =>
                 \/ \A p \in c, q \in d : Before(p, q)
                 \/ \A p \in c, q \in d : Before(q, p)
<1> DEFINE all == Pieces(fs)
           Earlier(p) == {e \in ChunkEnds(fs, b) : Before(e, p)}
           rank(p) == Cardinality(Earlier(p))
           Chunk(k) == {p \in all : rank(p) = k}
<1>1. ChunkEnds(fs, b) \in SUBSET all
  BY DEF ChunkEnds
<1>2. all \in SUBSET Pieces(Functions) /\ IsFiniteSet(all)
  BY PiecesAre
<1>3. Chunks(fs, b) = {Chunk(k) : k \in {rank(p) : p \in all}}
  BY DEF Chunks
<1>4. ASSUME NEW p \in all PROVE IsFiniteSet(Earlier(p)) /\ rank(p) \in Nat
  <2>1. Earlier(p) \in SUBSET all
    BY <1>1
  <2> QED
    BY <1>2, <2>1, FS_Subset, FS_CardinalityType
<1>5. ASSUME NEW p \in all, NEW q \in all, rank(p) < rank(q) PROVE Before(p, q)
  <2>1. CASE p = q
    BY <1>4, <1>5, <2>1
  <2>2. CASE Before(q, p)
    <3>1. Earlier(q) \in SUBSET Earlier(p)
      BY <1>1, <1>2, <2>2, BeforeOrders
    <3>2. rank(q) <= rank(p)
      BY <1>4, <3>1, FS_Subset
    <3> QED
      BY <1>4, <1>5, <3>2
  <2> QED
    BY <1>2, <2>1, <2>2, BeforeOrders
<1> HIDE DEF rank
<1>6. UNION Chunks(fs, b) = all
  BY <1>3
<1>7. ASSUME NEW c \in Chunks(fs, b)
      PROVE  c # {} /\ c \in SUBSET all /\ \E k \in Int : c = Chunk(k)
  <2>1. PICK p \in all : c = Chunk(rank(p))
    BY <1>3
  <2>2. rank(p) \in Nat
    BY <1>4
  <2>3. rank(p) \in Int
    BY <2>2
  <2> QED
    BY <2>1, <2>3
<1>8. IsFiniteSet(Chunks(fs, b))
  <2>1. Chunks(fs, b) \in SUBSET SUBSET all
    BY <1>7
  <2> QED
    BY <1>2, <2>1, FS_SUBSET, FS_Subset
<1>9. ASSUME NEW c \in Chunks(fs, b), NEW d \in Chunks(fs, b), c # d
      PROVE  (\A p \in c, q \in d : Before(p, q)) \/ (\A p \in c, q \in d : Before(q, p))
  <2>1. PICK k \in Int : c = Chunk(k)
    BY <1>7
  <2>2. PICK l \in Int : d = Chunk(l)
    BY <1>7
  <2>3. k < l \/ l < k
    BY <1>9, <2>1, <2>2
  <2>4. CASE k < l
    BY <1>5, <2>1, <2>2, <2>4
  <2>5. CASE l < k
    BY <1>5, <2>1, <2>2, <2>5
  <2> QED
    BY <2>3, <2>4, <2>5
<1> QED
  BY <1>6, <1>7, <1>8, <1>9

(* PacketIndex numbers the kept chunks from nextIndex on. *)
LEMMA PacketsNumbered ==
    ASSUME NEW fs \in SUBSET Functions, NEW b \in Budgets, NEW kept \in SUBSET Chunks(fs, b),
           nextIndex \in Nat
    PROVE  /\ Cardinality(kept) \in Nat
           /\ \A c \in kept : /\ PacketIndex(kept, c) \in Nat
                              /\ nextIndex <= PacketIndex(kept, c)
                              /\ PacketIndex(kept, c) < nextIndex + Cardinality(kept)
           /\ \A c, d \in kept : PacketIndex(kept, c) = PacketIndex(kept, d) => c = d
<1> DEFINE Ahead(c) == {d \in kept : \E q \in d : \A p \in c : Before(q, p)}
<1>1. IsFiniteSet(kept) /\ Cardinality(kept) \in Nat
  BY ChunksAre, FS_Subset, FS_CardinalityType
<1>2. /\ \A c \in kept : c # {} /\ \A p \in c : p \in Pieces(Functions)
      /\ \A c, d \in kept : c # d =>
            (\A p \in c, q \in d : Before(p, q)) \/ (\A p \in c, q \in d : Before(q, p))
  BY ChunksAre, PiecesAre
<1>3. ASSUME NEW c \in kept
      PROVE  /\ Ahead(c) \in SUBSET kept /\ c \notin Ahead(c) /\ IsFiniteSet(Ahead(c))
             /\ Cardinality(Ahead(c)) \in Nat /\ Cardinality(Ahead(c)) < Cardinality(kept)
  <2>1. Ahead(c) \in SUBSET kept
    OBVIOUS
  <2>2. c \notin Ahead(c)
    BY <1>2, BeforeOrders
  <2>3. IsFiniteSet(Ahead(c)) /\ Cardinality(Ahead(c)) <= Cardinality(kept)
        /\ Cardinality(Ahead(c)) # Cardinality(kept)
    BY <1>1, <2>1, <2>2, FS_Subset
  <2>4. Cardinality(Ahead(c)) \in Nat
    BY <2>3, FS_CardinalityType
  <2> QED
    BY <1>1, <2>1, <2>2, <2>3, <2>4
<1>4. \A c \in kept : PacketIndex(kept, c) = nextIndex + Cardinality(Ahead(c))
  BY DEF PacketIndex
<1>5. ASSUME NEW c \in kept, NEW d \in kept, \A p \in c, q \in d : Before(p, q)
      PROVE  Cardinality(Ahead(c)) < Cardinality(Ahead(d))
  <2>1. c \in Ahead(d)
    BY <1>2, <1>5
  <2>2. Ahead(c) \in SUBSET Ahead(d)
    <3> SUFFICES ASSUME NEW e \in Ahead(c) PROVE e \in Ahead(d)
      OBVIOUS
    <3>1. PICK q \in e : \A p \in c : Before(q, p)
      OBVIOUS
    <3>2. PICK p \in c : TRUE
      BY <1>2
    <3>3. ASSUME NEW r \in d PROVE Before(q, r)
      <4>1. Before(q, p) /\ Before(p, r)
        BY <1>5, <3>1
      <4>2. q \in Pieces(Functions) /\ p \in Pieces(Functions) /\ r \in Pieces(Functions)
        BY <1>2
      <4> QED
        BY <4>1, <4>2, BeforeOrders
    <3> QED
      BY <3>3
  <2>3. IsFiniteSet(Ahead(d)) /\ c \notin Ahead(c)
    BY <1>3
  <2>4. /\ Cardinality(Ahead(c)) <= Cardinality(Ahead(d))
        /\ Cardinality(Ahead(d)) = Cardinality(Ahead(c)) => Ahead(d) = Ahead(c)
    BY <2>2, <2>3, FS_Subset
  <2>5. Ahead(d) # Ahead(c)
    BY <2>1, <2>3
  <2>6. Cardinality(Ahead(c)) \in Nat /\ Cardinality(Ahead(d)) \in Nat
    BY <1>3
  <2> QED
    BY <2>4, <2>5, <2>6
<1> HIDE DEF Ahead
<1>6. ASSUME NEW c \in kept, NEW d \in kept, c # d
      PROVE  Cardinality(Ahead(c)) # Cardinality(Ahead(d))
  <2>1. Cardinality(Ahead(c)) \in Nat /\ Cardinality(Ahead(d)) \in Nat
    BY <1>3
  <2>2. CASE \A p \in c, q \in d : Before(p, q)
    <3>1. Cardinality(Ahead(c)) < Cardinality(Ahead(d))
      BY <1>5, <2>2
    <3> QED
      BY <2>1, <3>1
  <2>3. CASE \A p \in c, q \in d : Before(q, p)
    <3>1. Cardinality(Ahead(d)) < Cardinality(Ahead(c))
      BY <1>5, <2>3
    <3> QED
      BY <2>1, <3>1
  <2> QED
    BY <1>2, <1>6, <2>2, <2>3
<1>7. ASSUME NEW c \in kept
      PROVE  /\ PacketIndex(kept, c) \in Nat /\ nextIndex <= PacketIndex(kept, c)
             /\ PacketIndex(kept, c) < nextIndex + Cardinality(kept)
  <2>1. Cardinality(Ahead(c)) \in Nat /\ Cardinality(Ahead(c)) < Cardinality(kept)
    BY <1>3
  <2> QED
    BY <1>1, <1>4, <2>1
<1>8. ASSUME NEW c \in kept, NEW d \in kept, PacketIndex(kept, c) = PacketIndex(kept, d)
      PROVE  c = d
  <2>1. Cardinality(Ahead(c)) \in Nat /\ Cardinality(Ahead(d)) \in Nat
    BY <1>3
  <2>2. Cardinality(Ahead(c)) = Cardinality(Ahead(d))
    BY <1>4, <1>8, <2>1
  <2> QED
    BY <1>6, <2>2
<1> QED
  BY <1>1, <1>7, <1>8

-----------------------------------------------------------------------------
(* The invariant.  Failed are the functions a failure is reported for.     *)

Failed == {g[1] : g \in failures}

(* The function is still to be put into packets. *)
Awaits(f) == (\E g \in groups : f \in g) \/ (\E t \in todo : f \in t[2])

Typed ==
    /\ phase \in {"build", "review", "done"}
    /\ \A t \in todo : t[1] \in Int /\ t[1] >= -1 /\ t[2] \in SUBSET Functions /\ t[2] # {}
    /\ candidates \in SUBSET Functions
    /\ \A g \in groups : g \in SUBSET candidates /\ g # {}
    /\ \A f \in scheduled : Lines[f] > 0
    /\ overflowed \in SUBSET Failed
    /\ \A w \in wave \cup leaves : w.index \in Nat /\ w.pieces \in SUBSET Pieces(Functions)
    /\ nextIndex \in Nat /\ waves \in Nat

Phases ==
    /\ groups # {} => candidates # {}
    /\ candidates # {} \/ todo # {} => phase = "build"
    /\ phase = "done" => wave = {}

(* No two packets of a review have the same index. *)
IndicesUnique ==
    /\ \A w \in wave \cup leaves : w.index < nextIndex
    /\ \A v, w \in wave \cup leaves : v.index = w.index => v = w

LeavesAnswered ==
    \A w \in leaves : /\ w.index \in DOMAIN answers
                      /\ answers[w.index] # "ok" => FunctionsOf(w) \in SUBSET Failed

CoveredByLeaves == \A p \in covered : \E w \in leaves : p \in w.pieces

(* Of a function that has not failed, every line is covered or in a packet *)
(* of the wave, unless the function is still to be put into packets; and   *)
(* it has lines, unless it is about to be reported as missing.             *)
Accounted ==
    \A f \in Functions \ Failed :
        /\ Lines[f] > 0 \/ Awaits(f) \/ f \in Missing
        /\ Awaits(f) \/ \A l \in 1..Lines[f] :
              <<f, l>> \in covered \/ \E w \in wave : <<f, l>> \in w.pieces

(* After n turns, at most one more than an n-th half of the functions. *)
Small(fs, n) == (Cardinality(fs) - 1) * 2 ^ n < Cardinality(Functions)

Halved ==
    /\ \A t \in todo : Small(t[2], waves)
    /\ Small(candidates, waves)
    /\ \A w \in wave : Small(FunctionsOf(w), waves)

(* Whatever is under way after a turn comes from a packet that was split. *)
Underway == candidates # {} \/ todo # {} \/ wave # {}
Turned == waves > 0 /\ Underway => 2 ^ (waves - 1) < Cardinality(Functions)

FrontierInv ==
    /\ Typed /\ Phases
    /\ IndicesUnique /\ LeavesAnswered /\ CoveredByLeaves /\ Accounted
    /\ Halved /\ Turned /\ WavesBounded

-----------------------------------------------------------------------------
(* Sizes *)

LEMMA FunctionsCounted ==
    ASSUME NEW fs \in SUBSET Functions
    PROVE  /\ fs \in SUBSET Nat /\ IsFiniteSet(fs) /\ Cardinality(fs) \in Nat
           /\ Cardinality(Functions) \in Nat /\ Cardinality(fs) <= Cardinality(Functions)
BY FrontierConstants, FS_Subset, FS_CardinalityType

LEMMA SmallSubset ==
    ASSUME NEW fs \in SUBSET Functions, NEW gs \in SUBSET fs, NEW n \in Nat, Small(fs, n)
    PROVE  Small(gs, n)
<1> DEFINE a == Cardinality(gs)
           b == Cardinality(fs)
           p == 2 ^ n
           m == Cardinality(Functions)
<1>1. a \in Nat /\ b \in Nat /\ p \in Nat /\ m \in Nat /\ a <= b
  BY FunctionsCounted, FS_Subset, PowerOfTwo
<1>2. (b - 1) * p < m
  BY DEF Small
<1> HIDE DEF a, b, p, m
<1>3. (a - 1) * p <= (b - 1) * p
  BY <1>1
<1>4. (a - 1) * p < m
  BY <1>1, <1>2, <1>3
<1> QED
  BY <1>4 DEF Small, a, p, m

(* A half of a small set is small after one more turn, and a set that can  *)
(* be halved has two elements.                                             *)
LEMMA SmallHalf ==
    ASSUME NEW fs \in SUBSET Functions, NEW n \in Nat, Small(fs, n)
    PROVE  /\ \A h \in Halves(fs) : Small(h, n + 1)
           /\ Cardinality(fs) > 1 => 2 ^ n < Cardinality(Functions)
<1> DEFINE b == Cardinality(fs)
           p == 2 ^ n
           m == Cardinality(Functions)
<1>1. b \in Nat /\ p \in Nat /\ m \in Nat /\ 2 ^ (n + 1) = 2 * p
  BY FunctionsCounted, PowerOfTwo
<1>2. (b - 1) * p < m
  BY DEF Small
<1>3. ASSUME NEW h \in Halves(fs) PROVE Small(h, n + 1)
  <2> DEFINE a == Cardinality(h)
  <2>1. a \in Nat /\ 2 * a <= b + 1
    BY FunctionsCounted, HalvesOf
  <2> HIDE DEF a, b, p, m
  <2>2. 2 * (a - 1) <= b - 1
    BY <1>1, <2>1
  <2>3. (2 * (a - 1)) * p <= (b - 1) * p
    BY <1>1, <2>1, <2>2
  <2>4. (a - 1) * (2 * p) = (2 * (a - 1)) * p
    BY <1>1, <2>1
  <2>5. (a - 1) * (2 * p) < m
    BY <1>1, <1>2, <2>1, <2>3, <2>4
  <2> QED
    BY <1>1, <2>5 DEF Small, a, m
<1>4. ASSUME b > 1 PROVE p < m
  <2> HIDE DEF b, p, m
  <2>1. 1 * p <= (b - 1) * p
    BY <1>1, <1>4
  <2> QED
    BY <1>1, <1>2, <2>1
<1> QED
  BY <1>3, <1>4

-----------------------------------------------------------------------------
(* The choices of the builder *)

LEMMA NextCallIs ==
    ASSUME Typed, todo # {}
    PROVE  NextCall \in todo
<1> DEFINE K == {t[1] + 1 : t \in todo}
<1>1. K \in SUBSET Nat /\ K # {}
  BY DEF Typed
<1>2. PICK k \in K : \A j \in K : k <= j
  BY <1>1, LeastElement
<1> DEFINE T == {t \in todo : t[1] + 1 = k}
           L == {Least(t[2]) : t \in T}
<1>3. T # {} /\ \A t \in todo : t[2] \in SUBSET Nat /\ t[2] # {}
  BY <1>2, FrontierConstants DEF Typed
<1>4. L \in SUBSET Nat /\ L # {}
  BY <1>3, LeastIs
<1>5. PICK l \in L : \A j \in L : l <= j
  BY <1>4, LeastElement
<1>6. PICK t \in T : Least(t[2]) = l
  BY <1>5
<1>7. ASSUME NEW u \in todo
      PROVE  t[1] < u[1] \/ (t[1] = u[1] /\ Least(t[2]) <= Least(u[2]))
  <2>1. t[1] \in Int /\ u[1] \in Int /\ t[1] + 1 = k /\ k <= u[1] + 1
    BY <1>2, <1>6 DEF Typed
  <2>2. CASE t[1] = u[1]
    <3>1. u \in T
      BY <2>1, <2>2
    <3>2. l <= Least(u[2])
      BY <1>5, <3>1
    <3> QED
      BY <1>6, <2>2, <3>2
  <2>3. CASE t[1] # u[1]
    BY <2>1, <2>3
  <2> QED
    BY <2>2, <2>3
<1> QED
  BY <1>6, <1>7 DEF NextCall

LEMMA NextGroupIs ==
    ASSUME Typed, groups # {}
    PROVE  /\ NextGroup \in groups /\ NextGroup \in SUBSET candidates
           /\ NextGroup \in SUBSET Functions /\ NextGroup # {}
<1> DEFINE U == UNION groups
<1>1. /\ \A g \in groups : g \in SUBSET Nat /\ g \in SUBSET Functions /\ g # {}
      /\ U \in SUBSET Nat /\ U # {}
  <2>1. candidates \in SUBSET Functions /\ candidates \in SUBSET Nat
    BY FrontierConstants DEF Typed
  <2>2. \A g \in groups : g \in SUBSET candidates /\ g # {}
    BY DEF Typed
  <2>3. PICK g \in groups : TRUE
    OBVIOUS
  <2>4. U # {}
    BY <2>2, <2>3
  <2> QED
    BY <2>1, <2>2, <2>4
<1>2. Least(U) \in U /\ \A f \in U : Least(U) <= f
  BY <1>1, LeastIs
<1>3. PICK g \in groups : Least(U) \in g
  BY <1>2
<1>4. Least(g) \in g /\ \A f \in g : Least(g) <= f
  BY <1>1, LeastIs
<1>5. Least(g) = Least(U)
  <2>1. Least(g) \in U /\ Least(g) \in Nat /\ Least(U) \in Nat
    BY <1>1, <1>3, <1>4
  <2>2. Least(U) <= Least(g) /\ Least(g) <= Least(U)
    BY <1>2, <1>3, <1>4, <2>1
  <2> QED
    BY <2>1, <2>2
<1>6. NextGroup \in groups
  BY <1>5 DEF NextGroup
<1> QED
  BY <1>1, <1>6 DEF Typed

-----------------------------------------------------------------------------
(* The steps *)

LEMMA FailedGrows ==
    ASSUME NEW X, NEW kind, failures' = failures \cup {<<f, kind>> : f \in X}
    PROVE  Failed' = Failed \cup X
<1>1. \A f \in X : <<f, kind>> \in failures' /\ <<f, kind>>[1] = f
  OBVIOUS
<1>2. ASSUME NEW e \in failures' PROVE e[1] \in Failed \cup X
  <2>1. CASE e \in failures
    BY <2>1 DEF Failed
  <2>2. CASE e \notin failures
    BY <1>2, <2>2
  <2> QED
    BY <2>1, <2>2
<1>3. Failed' \subseteq Failed \cup X
  BY <1>2 DEF Failed
<1>4. Failed \subseteq Failed'
  BY DEF Failed
<1>5. X \subseteq Failed'
  BY <1>1 DEF Failed
<1> QED
  BY <1>3, <1>4, <1>5

LEMMA InitHolds == Init => FrontierInv
<1> SUFFICES ASSUME Init PROVE FrontierInv
  OBVIOUS
<1>1. Failed = {}
  BY DEF Init, Failed
<1>2. \A t \in todo : t[1] = -1 /\ t[2] = Functions /\ Functions # {}
  BY DEF Init
<1>3. Typed /\ Phases
  BY <1>1, <1>2 DEF Init, Typed, Phases
<1>4. IndicesUnique /\ LeavesAnswered /\ CoveredByLeaves
  BY DEF Init, IndicesUnique, LeavesAnswered, CoveredByLeaves
<1>5. Accounted
  <2>1. ASSUME NEW f \in Functions PROVE Awaits(f)
    <3>1. <<-1, Functions>> \in todo /\ f \in <<-1, Functions>>[2]
      BY DEF Init
    <3> QED
      BY <3>1 DEF Awaits
  <2> QED
    BY <2>1 DEF Accounted
<1>6. Small(Functions, 0) /\ Small({}, 0)
  <2>1. /\ Cardinality(Functions) \in Nat /\ Cardinality({}) = 0 /\ 2 ^ 0 = 1
    BY FunctionsCounted, PowerOfTwo, FS_EmptySet
  <2> QED
    BY <2>1 DEF Small
<1>7. Halved /\ Turned /\ WavesBounded
  BY <1>2, <1>6 DEF Init, Halved, Turned, WavesBounded
<1> QED
  BY <1>3, <1>4, <1>5, <1>7 DEF FrontierInv

LEMMA BeginKeeps ==
    ASSUME FrontierInv, BuildBegin
    PROVE  FrontierInv'
<1> USE DEF FrontierInv
<1> DEFINE t == NextCall
<1>1. t \in todo
  BY NextCallIs DEF BuildBegin
<1>2. /\ candidates' = t[2] /\ todo' = todo \ {t}
      /\ t[2] \in SUBSET Functions /\ t[2] # {}
      /\ groups' = {{g \in t[2] : File[g] = File[f]} : f \in t[2]}
      /\ scheduled' = {} /\ overflowed' = {} /\ phase' = phase /\ phase = "build"
      /\ wave' = wave /\ nextIndex' = nextIndex /\ failures' = failures
      /\ leaves' = leaves /\ answers' = answers /\ covered' = covered /\ waves' = waves
      /\ candidates = {} /\ groups = {} /\ todo # {}
  BY <1>1 DEF BuildBegin, results, Typed, Phases
<1> HIDE DEF t
<1>3. Failed' = Failed
  BY <1>2 DEF Failed
<1>4. (\A g \in groups' : g \in SUBSET t[2] /\ g # {}) /\ UNION groups' = t[2]
  BY <1>2
<1>5. Typed'
  BY <1>2, <1>3, <1>4 DEF Typed
<1>6. Phases' /\ IndicesUnique' /\ CoveredByLeaves' /\ WavesBounded' /\ LeavesAnswered'
  BY <1>2, <1>3 DEF Phases, IndicesUnique, LeavesAnswered, CoveredByLeaves, WavesBounded, FunctionsOf
<1>7. Accounted'
  <2>1. Missing = {}
    BY <1>2 DEF Missing
  <2>2. \A f : Awaits(f) => Awaits(f)'
    BY <1>2, <1>4 DEF Awaits
  <2> QED
    BY <1>2, <1>3, <2>1, <2>2 DEF Accounted
<1>8. Halved' /\ Turned'
  BY <1>1, <1>2 DEF Halved, Turned, Underway, Small, FunctionsOf
<1> QED
  BY <1>5, <1>6, <1>7, <1>8

LEMMA OverflowKeeps ==
    ASSUME FrontierInv, GroupOverflows
    PROVE  FrontierInv'
<1> USE DEF FrontierInv
<1> DEFINE g == NextGroup
           lost == overflowed' \ overflowed
<1>1. g \in groups /\ g \in SUBSET candidates /\ g \in SUBSET Functions /\ g # {}
  BY NextGroupIs DEF GroupOverflows
<1>2. UNION Halves(g) = g /\ \A h \in Halves(g) : h \in SUBSET g /\ h # {}
  BY <1>1, FunctionsCounted, HalvesOf
<1>3. /\ phase' = phase /\ todo' = todo /\ candidates' = candidates /\ scheduled' = scheduled
      /\ wave' = wave /\ nextIndex' = nextIndex
      /\ leaves' = leaves /\ answers' = answers /\ covered' = covered /\ waves' = waves
      /\ groups # {} /\ candidates # {}
  BY DEF GroupOverflows, results, Phases
<1>4. \/ /\ groups' = (groups \ {g}) \cup Halves(g)
         /\ overflowed' = overflowed /\ failures' = failures
      \/ /\ groups' = groups \ {g}
         /\ overflowed' = overflowed \cup g
         /\ failures' = failures \cup {<<f, "context_overflow">> : f \in g}
  BY DEF GroupOverflows
<1> HIDE DEF g
<1>5. /\ \A f \in Failed : f \in Failed'
      /\ overflowed' \in SUBSET Failed'
      /\ \A f \in Functions \ Failed' : (Awaits(f) => Awaits(f)') /\ f \notin overflowed'
      /\ \A h \in groups' : h \in SUBSET candidates /\ h # {}
  <2>1. CASE /\ groups' = (groups \ {g}) \cup Halves(g)
             /\ overflowed' = overflowed /\ failures' = failures
    <3>1. Failed' = Failed
      BY <2>1 DEF Failed
    <3>2. \A f : Awaits(f) => Awaits(f)'
      <4>1. \A f \in g : \E h \in Halves(g) : f \in h
        BY <1>2
      <4> QED
        BY <1>3, <2>1, <4>1 DEF Awaits
    <3>3. \A h \in groups' : h \in SUBSET candidates /\ h # {}
      BY <1>1, <1>2, <2>1 DEF Typed
    <3> QED
      BY <2>1, <3>1, <3>2, <3>3 DEF Typed
  <2>2. CASE /\ groups' = groups \ {g}
             /\ overflowed' = overflowed \cup g
             /\ failures' = failures \cup {<<f, "context_overflow">> : f \in g}
    <3>1. Failed' = Failed \cup g
      BY <2>2, FailedGrows
    <3>2. \A f : Awaits(f) => Awaits(f)' \/ f \in g
      BY <1>3, <2>2 DEF Awaits
    <3>3. \A h \in groups' : h \in SUBSET candidates /\ h # {}
      BY <2>2 DEF Typed
    <3> QED
      BY <2>2, <3>1, <3>2, <3>3 DEF Typed
  <2> QED
    BY <1>4, <2>1, <2>2
<1>6. Typed'
  BY <1>3, <1>5 DEF Typed
<1>7. Phases' /\ IndicesUnique' /\ CoveredByLeaves' /\ WavesBounded'
  BY <1>3 DEF Phases, IndicesUnique, CoveredByLeaves, WavesBounded
<1>8. LeavesAnswered'
  BY <1>3, <1>5 DEF LeavesAnswered, FunctionsOf
<1>9. Accounted'
  <2> SUFFICES ASSUME NEW f \in Functions \ Failed'
               PROVE  /\ Lines[f] > 0 \/ Awaits(f)' \/ f \in Missing'
                      /\ Awaits(f)' \/ \A l \in 1..Lines[f] :
                            <<f, l>> \in covered' \/ \E w \in wave' : <<f, l>> \in w.pieces
    BY DEF Accounted
  <2>1. f \notin Failed
    BY <1>5
  <2>2. f \in Missing => f \in Missing'
    BY <1>3, <1>5 DEF Missing
  <2> QED
    BY <1>3, <1>5, <2>1, <2>2 DEF Accounted
<1>10. Halved' /\ Turned'
  BY <1>3 DEF Halved, Turned, Underway, Small, FunctionsOf
<1> QED
  BY <1>6, <1>7, <1>8, <1>9, <1>10

LEMMA ChunkedKeeps ==
    ASSUME FrontierInv, GroupChunked
    PROVE  FrontierInv'
<1> USE DEF FrontierInv
<1> DEFINE g == NextGroup
<1>1. g \in groups /\ g \in SUBSET candidates /\ g \in SUBSET Functions /\ g # {}
  BY NextGroupIs DEF GroupChunked
<1>2. PICK b \in Budgets : \E kept \in SUBSET Chunks(g, b) :
         LET lost == {p[1] : p \in UNION (Chunks(g, b) \ kept)} IN
             /\ wave' = wave \cup {[index |-> PacketIndex(kept, c), pieces |-> c] : c \in kept}
             /\ nextIndex' = nextIndex + Cardinality(kept)
             /\ scheduled' = scheduled \cup {p[1] : p \in UNION kept}
             /\ overflowed' = overflowed \cup lost
             /\ failures' = failures \cup {<<f, "context_overflow">> : f \in lost}
  BY DEF GroupChunked
<1> DEFINE chunks == Chunks(g, b)
<1>3. PICK kept \in SUBSET chunks :
         LET lost == {p[1] : p \in UNION (chunks \ kept)} IN
             /\ wave' = wave \cup {[index |-> PacketIndex(kept, c), pieces |-> c] : c \in kept}
             /\ nextIndex' = nextIndex + Cardinality(kept)
             /\ scheduled' = scheduled \cup {p[1] : p \in UNION kept}
             /\ overflowed' = overflowed \cup lost
             /\ failures' = failures \cup {<<f, "context_overflow">> : f \in lost}
  BY <1>2
<1> DEFINE lost == {p[1] : p \in UNION (chunks \ kept)}
           new == {[index |-> PacketIndex(kept, c), pieces |-> c] : c \in kept}
<1>4. /\ wave' = wave \cup new /\ nextIndex' = nextIndex + Cardinality(kept)
      /\ scheduled' = scheduled \cup {p[1] : p \in UNION kept}
      /\ overflowed' = overflowed \cup lost
      /\ failures' = failures \cup {<<f, "context_overflow">> : f \in lost}
  BY <1>3
<1>5. /\ phase' = phase /\ todo' = todo /\ candidates' = candidates /\ groups' = groups \ {g}
      /\ leaves' = leaves /\ answers' = answers /\ covered' = covered /\ waves' = waves
      /\ groups # {} /\ candidates # {}
  BY DEF GroupChunked, results, Phases
<1>6. /\ UNION chunks = Pieces(g)
      /\ \A c \in chunks : c # {} /\ c \in SUBSET Pieces(g) /\ c \in SUBSET Pieces(Functions)
  BY <1>1, ChunksAre, PiecesAre
<1>7. \A w \in new : \E c \in kept : w.index = PacketIndex(kept, c) /\ w.pieces = c
  OBVIOUS
<1>8. \A c \in kept : \E w \in new : w.pieces = c
  <2> TAKE c \in kept
  <2> DEFINE w == [index |-> PacketIndex(kept, c), pieces |-> c]
  <2>1. w \in new /\ w.pieces = c
    OBVIOUS
  <2> QED
    BY <2>1
<1>9. nextIndex \in Nat
  BY DEF Typed
<1>10. /\ Cardinality(kept) \in Nat
       /\ \A c \in kept : /\ PacketIndex(kept, c) \in Nat
                          /\ nextIndex <= PacketIndex(kept, c)
                          /\ PacketIndex(kept, c) < nextIndex + Cardinality(kept)
       /\ \A c, d \in kept : PacketIndex(kept, c) = PacketIndex(kept, d) => c = d
  BY <1>1, <1>9, PacketsNumbered
<1> HIDE DEF g, chunks
<1>11. Failed' = Failed \cup lost
  BY <1>4, FailedGrows
<1>12. \A p \in Pieces(g) : p[1] \in g /\ p[2] \in 1..Lines[p[1]] /\ Lines[p[1]] \in Nat
  BY <1>1, PiecesAre, FrontierConstants
<1>13. \A f \in scheduled' : Lines[f] > 0
  <2>1. ASSUME NEW c \in kept, NEW p \in c PROVE Lines[p[1]] > 0
    BY <1>6, <1>12
  <2> QED
    BY <1>4, <2>1 DEF Typed
<1>14. \A w \in wave' \cup leaves' : w.index \in Nat /\ w.pieces \in SUBSET Pieces(Functions)
  <2>1. \A w \in new : w.index \in Nat /\ w.pieces \in SUBSET Pieces(Functions)
    BY <1>6, <1>7, <1>10
  <2> QED
    BY <1>4, <1>5, <2>1 DEF Typed
<1>15. Typed'
  <2>1. overflowed' \in SUBSET Failed'
    BY <1>4, <1>11 DEF Typed
  <2>2. nextIndex' \in Nat
    BY <1>4, <1>9, <1>10
  <2> QED
    BY <1>5, <1>13, <1>14, <2>1, <2>2 DEF Typed
<1>16. Phases' /\ CoveredByLeaves' /\ WavesBounded'
  BY <1>4, <1>5 DEF Phases, CoveredByLeaves, WavesBounded
<1>17. IndicesUnique'
  <2>1. \A w \in new : nextIndex <= w.index /\ w.index < nextIndex' /\ w.index \in Nat
    BY <1>4, <1>7, <1>10
  <2>2. \A w \in wave \cup leaves : w.index < nextIndex /\ w.index < nextIndex' /\ w.index \in Nat
    BY <1>4, <1>9, <1>10 DEF IndicesUnique, Typed
  <2>3. \A v, w \in new : v.index = w.index => v = w
    BY <1>10
  <2>4. wave' \cup leaves' = (wave \cup leaves) \cup new
    BY <1>4, <1>5
  <2>5. \A v \in wave \cup leaves, w \in new : v.index # w.index
    BY <1>9, <2>1, <2>2
  <2>6. \A w \in wave' \cup leaves' : w.index < nextIndex'
    BY <2>1, <2>2, <2>4
  <2>7. \A v, w \in wave' \cup leaves' : v.index = w.index => v = w
    BY <2>3, <2>4, <2>5 DEF IndicesUnique
  <2> QED
    BY <2>6, <2>7 DEF IndicesUnique
<1>18. LeavesAnswered'
  BY <1>5, <1>11 DEF LeavesAnswered, FunctionsOf
<1>19. Accounted'
  <2> SUFFICES ASSUME NEW f \in Functions \ Failed'
               PROVE  /\ Lines[f] > 0 \/ Awaits(f)' \/ f \in Missing'
                      /\ Awaits(f)' \/ \A l \in 1..Lines[f] :
                            <<f, l>> \in covered' \/ \E w \in wave' : <<f, l>> \in w.pieces
    BY DEF Accounted
  <2>1. f \notin Failed /\ f \notin lost /\ f \notin overflowed'
    BY <1>11, <1>15 DEF Typed
  <2>2. Lines[f] \in Nat
    BY FrontierConstants
  <2>3. CASE f \in g
    <3>1. ASSUME NEW l \in 1..Lines[f] PROVE \E w \in wave' : <<f, l>> \in w.pieces
      <4>1. <<f, l>> \in Pieces(g)
        BY <1>1, <2>3, PiecesAre
      <4>2. PICK c \in chunks : <<f, l>> \in c
        BY <1>6, <4>1
      <4>3. c \in kept
        <5>1. ASSUME c \notin kept PROVE <<f, l>>[1] \in lost
          BY <4>2, <5>1
        <5> QED
          BY <2>1, <5>1
      <4> QED
        BY <1>4, <1>8, <4>2, <4>3
    <3>2. Lines[f] > 0 \/ f \in Missing'
      <4>1. f \in candidates'
        BY <1>1, <1>5, <2>3
      <4>2. f \in scheduled' => Lines[f] > 0
        BY <1>13
      <4> QED
        BY <2>1, <4>1, <4>2 DEF Missing
    <3> QED
      BY <3>1, <3>2
  <2>4. CASE f \notin g
    <3>1. Awaits(f) => Awaits(f)'
      BY <1>5, <2>4 DEF Awaits
    <3>2. f \in Missing => f \in Missing' \/ Lines[f] > 0
      BY <1>5, <1>13, <2>1 DEF Missing
    <3>3. wave \subseteq wave'
      BY <1>4
    <3> QED
      BY <1>5, <2>1, <3>1, <3>2, <3>3 DEF Accounted
  <2> QED
    BY <2>3, <2>4
<1>20. Halved' /\ Turned'
  <2>1. ASSUME NEW w \in new PROVE Small(FunctionsOf(w), waves)
    <3>1. FunctionsOf(w) \in SUBSET candidates
      <4>1. PICK c \in kept : w.pieces = c
        BY <1>7
      <4>2. \A p \in c : p[1] \in g
        BY <1>6, <1>12
      <4> QED
        BY <1>1, <4>1, <4>2 DEF FunctionsOf
    <3> QED
      BY <3>1, SmallSubset DEF Halved, Typed
  <2>2. Halved'
    BY <1>4, <1>5, <2>1 DEF Halved, Small, FunctionsOf
  <2> QED
    BY <1>5, <2>2 DEF Turned, Underway
<1> QED
  BY <1>15, <1>16, <1>17, <1>18, <1>19, <1>20

LEMMA BuildEndKeeps ==
    ASSUME FrontierInv, BuildEnd
    PROVE  FrontierInv'
<1> USE DEF FrontierInv
<1>1. /\ candidates # {} /\ groups = {} /\ candidates' = {} /\ scheduled' = {} /\ overflowed' = {}
      /\ failures' = failures \cup {<<f, "missing_source">> : f \in Missing}
      /\ phase' = IF todo = {} THEN "review" ELSE "build"
      /\ todo' = todo /\ groups' = groups /\ wave' = wave /\ nextIndex' = nextIndex
      /\ leaves' = leaves /\ answers' = answers /\ covered' = covered /\ waves' = waves
  BY DEF BuildEnd, results
<1>2. Failed' = Failed \cup Missing
  BY <1>1, FailedGrows
<1>3. Typed'
  BY <1>1 DEF Typed
<1>4. Phases' /\ IndicesUnique' /\ CoveredByLeaves' /\ WavesBounded'
  BY <1>1 DEF Phases, IndicesUnique, CoveredByLeaves, WavesBounded
<1>5. LeavesAnswered'
  BY <1>1, <1>2 DEF LeavesAnswered, FunctionsOf
<1>6. Accounted'
  <2>1. \A f : Awaits(f) => Awaits(f)'
    BY <1>1 DEF Awaits
  <2> QED
    BY <1>1, <1>2, <2>1 DEF Accounted
<1>7. Halved' /\ Turned'
  <2>1. Small({}, waves)
    BY SmallSubset DEF Halved, Typed
  <2>2. Halved'
    BY <1>1, <2>1 DEF Halved, Small, FunctionsOf
  <2> QED
    BY <1>1, <2>2 DEF Turned, Underway
<1> QED
  BY <1>3, <1>4, <1>5, <1>6, <1>7

LEMMA WaveKeeps ==
    ASSUME FrontierInv, ReviewWave
    PROVE  FrontierInv'
<1> USE DEF FrontierInv
<1>1. PICK answer \in [UniqueContents -> Kinds] :
         LET split == {w \in wave : ShouldSplit(w, answer[w.pieces])}
             leaf  == wave \ split
         IN  /\ leaves' = leaves \cup leaf
             /\ answers' = [i \in DOMAIN answers \cup {w.index : w \in leaf} |->
                              IF \E w \in leaf : w.index = i
                              THEN answer[(CHOOSE w \in leaf : w.index = i).pieces]
                              ELSE answers[i]]
             /\ failures' = failures \cup
                  UNION {{<<f, answer[w.pieces]>> : f \in FunctionsOf(w)} :
                           w \in {v \in leaf : answer[v.pieces] # "ok"}}
             /\ covered' = covered \cup UNION {w.pieces : w \in {v \in leaf : answer[v.pieces] = "ok"}}
             /\ todo' = UNION {{<<w.index, h>> : h \in Halves(FunctionsOf(w))} : w \in split}
             /\ phase' = IF split = {} THEN "review" ELSE "build"
  BY DEF ReviewWave
<1> DEFINE split == {w \in wave : ShouldSplit(w, answer[w.pieces])}
           leaf == wave \ split
           bad == {v \in leaf : answer[v.pieces] # "ok"}
<1>2. /\ leaves' = leaves \cup leaf
      /\ answers' = [i \in DOMAIN answers \cup {w.index : w \in leaf} |->
                       IF \E w \in leaf : w.index = i
                       THEN answer[(CHOOSE w \in leaf : w.index = i).pieces]
                       ELSE answers[i]]
      /\ failures' = failures \cup UNION {{<<f, answer[w.pieces]>> : f \in FunctionsOf(w)} : w \in bad}
      /\ covered' = covered \cup UNION {w.pieces : w \in {v \in leaf : answer[v.pieces] = "ok"}}
      /\ todo' = UNION {{<<w.index, h>> : h \in Halves(FunctionsOf(w))} : w \in split}
      /\ phase' = IF split = {} THEN "review" ELSE "build"
  BY <1>1
<1>3. /\ phase = "review" /\ wave # {} /\ wave' = {} /\ waves' = waves + 1 /\ nextIndex' = nextIndex
      /\ candidates' = candidates /\ groups' = groups /\ scheduled' = scheduled
      /\ overflowed' = overflowed /\ candidates = {} /\ groups = {} /\ todo = {}
  BY DEF ReviewWave, call, Phases
<1>4. \A w \in split : w \in wave /\ Cardinality(FunctionsOf(w)) > 1
  BY DEF ShouldSplit
<1> HIDE DEF split
<1>5. /\ \A f \in Failed : f \in Failed'
      /\ \A w \in bad : \A f \in FunctionsOf(w) : f \in Failed'
  <2>1. \A e \in failures : e \in failures'
    BY <1>2
  <2>2. ASSUME NEW w \in bad, NEW f \in FunctionsOf(w) PROVE f \in Failed'
    <3>1. <<f, answer[w.pieces]>> \in failures'
      BY <1>2
    <3> QED
      BY <3>1 DEF Failed
  <2> QED
    BY <2>1, <2>2 DEF Failed
<1>6. \A w \in wave : FunctionsOf(w) \in SUBSET Functions
  BY PiecesAre DEF Typed, FunctionsOf
<1>7. \A t \in todo' : \E w \in split : t[1] = w.index /\ t[2] \in Halves(FunctionsOf(w))
  BY <1>2
<1>8. ASSUME NEW w \in split
      PROVE  /\ FunctionsOf(w) \in SUBSET Functions /\ w \in wave
             /\ UNION Halves(FunctionsOf(w)) = FunctionsOf(w)
             /\ \A h \in Halves(FunctionsOf(w)) : /\ h \in SUBSET FunctionsOf(w) /\ h # {}
                                                  /\ <<w.index, h>> \in todo'
             /\ \A h \in Halves(FunctionsOf(w)) : Small(h, waves + 1)
             /\ 2 ^ waves < Cardinality(Functions)
  <2>1. FunctionsOf(w) \in SUBSET Functions /\ w \in wave
    BY <1>4, <1>6
  <2>2. /\ UNION Halves(FunctionsOf(w)) = FunctionsOf(w)
        /\ \A h \in Halves(FunctionsOf(w)) : h \in SUBSET FunctionsOf(w) /\ h # {}
    BY <2>1, FunctionsCounted, HalvesOf
  <2>3. \A h \in Halves(FunctionsOf(w)) : <<w.index, h>> \in todo'
    BY <1>2
  <2>4. Small(FunctionsOf(w), waves) /\ waves \in Nat
    BY <2>1 DEF Halved, Typed
  <2> QED
    BY <1>4, <2>1, <2>2, <2>3, <2>4, SmallHalf
<1>9. Typed'
  <2>1. \A t \in todo' : t[1] \in Int /\ t[1] >= -1 /\ t[2] \in SUBSET Functions /\ t[2] # {}
    <3> TAKE t \in todo'
    <3>1. PICK w \in split : t[1] = w.index /\ t[2] \in Halves(FunctionsOf(w))
      BY <1>7
    <3>2. w.index \in Nat
      BY <1>8 DEF Typed
    <3>3. t[2] \in SUBSET Functions /\ t[2] # {}
      BY <1>8, <3>1
    <3> QED
      BY <3>1, <3>2, <3>3
  <2>2. \A w \in wave' \cup leaves' : w.index \in Nat /\ w.pieces \in SUBSET Pieces(Functions)
    BY <1>2, <1>3 DEF Typed
  <2>3. overflowed' \in SUBSET Failed'
    BY <1>3, <1>5 DEF Typed
  <2>4. phase' \in {"build", "review", "done"}
    BY <1>2
  <2> QED
    BY <1>3, <2>1, <2>2, <2>3, <2>4 DEF Typed
<1>10. Phases'
  <2>1. split = {} => todo' = {}
    BY <1>7
  <2> QED
    BY <1>2, <1>3, <2>1 DEF Phases
<1>11. IndicesUnique'
  <2>1. wave' \cup leaves' \subseteq wave \cup leaves
    BY <1>2, <1>3
  <2> QED
    BY <1>3, <2>1 DEF IndicesUnique
<1>12. LeavesAnswered'
  <2> SUFFICES ASSUME NEW w \in leaves'
               PROVE  /\ w.index \in DOMAIN answers'
                      /\ answers'[w.index] # "ok" => FunctionsOf(w) \in SUBSET Failed'
    BY DEF LeavesAnswered, FunctionsOf
  <2>1. CASE \E v \in leaf : v.index = w.index
    <3>1. PICK v \in leaf : v.index = w.index
      BY <2>1
    <3>2. v = w
      BY <1>2, <3>1 DEF IndicesUnique
    <3>3. (CHOOSE u \in leaf : u.index = w.index) = w
      BY <1>2, <3>1, <3>2 DEF IndicesUnique
    <3>4. w.index \in DOMAIN answers' /\ answers'[w.index] = answer[w.pieces]
      BY <1>2, <2>1, <3>1, <3>3
    <3> QED
      BY <1>5, <3>1, <3>2, <3>4
  <2>2. CASE ~\E v \in leaf : v.index = w.index
    <3>1. w \in leaves
      BY <1>2, <2>2
    <3>2. w.index \in DOMAIN answers
      BY <3>1 DEF LeavesAnswered
    <3>3. w.index \in DOMAIN answers' /\ answers'[w.index] = answers[w.index]
      BY <1>2, <2>2, <3>2
    <3> QED
      BY <1>5, <3>1, <3>3 DEF LeavesAnswered
  <2> QED
    BY <2>1, <2>2
<1>13. CoveredByLeaves'
  BY <1>2 DEF CoveredByLeaves
<1>14. Accounted'
  <2> SUFFICES ASSUME NEW f \in Functions \ Failed'
               PROVE  /\ Lines[f] > 0
                      /\ Awaits(f)' \/ \A l \in 1..Lines[f] : <<f, l>> \in covered'
    BY DEF Accounted
  <2>1. f \notin Failed /\ ~Awaits(f) /\ f \notin Missing
    BY <1>3, <1>5 DEF Awaits, Missing
  <2>2. Lines[f] > 0 /\ \A l \in 1..Lines[f] :
           <<f, l>> \in covered \/ \E w \in wave : <<f, l>> \in w.pieces
    BY <2>1 DEF Accounted
  <2>3. ASSUME NEW l \in 1..Lines[f], <<f, l>> \notin covered' PROVE Awaits(f)'
    <3>1. PICK w \in wave : <<f, l>> \in w.pieces
      BY <1>2, <2>2, <2>3
    <3>2. <<f, l>>[1] \in FunctionsOf(w)
      BY <3>1 DEF FunctionsOf
    <3>3. w \notin bad
      BY <1>5, <3>2
    <3>4. w \in split
      BY <1>2, <2>3, <3>1, <3>3
    <3>5. PICK h \in Halves(FunctionsOf(w)) : f \in h
      BY <1>8, <3>2, <3>4
    <3>6. <<w.index, h>> \in todo' /\ f \in <<w.index, h>>[2]
      BY <1>8, <3>4, <3>5
    <3> QED
      BY <3>6 DEF Awaits
  <2> QED
    BY <2>2, <2>3
<1>15. Halved'
  <2>1. ASSUME NEW t \in todo' PROVE Small(t[2], waves + 1)
    <3>1. PICK w \in split : t[2] \in Halves(FunctionsOf(w))
      BY <1>7
    <3> QED
      BY <1>8, <3>1
  <2>2. Small({}, waves + 1)
    <3>1. Cardinality({}) = 0 /\ Cardinality(Functions) \in Nat /\ 2 ^ (waves + 1) \in Nat
      BY FunctionsCounted, FS_EmptySet, PowerOfTwo DEF Typed
    <3>2. PICK w \in wave : TRUE
      BY <1>3
    <3>3. 2 ^ (waves + 1) > 0
      BY PowerPositive DEF Typed
    <3> QED
      BY <3>1, <3>3 DEF Small
  <2> QED
    BY <1>3, <2>1, <2>2 DEF Halved, Small, FunctionsOf
<1>16. Turned'
  <2>1. Underway' => \E w \in split : TRUE
    BY <1>3, <1>7 DEF Underway
  <2>2. (waves + 1) - 1 = waves
    BY DEF Typed
  <2> QED
    BY <1>3, <1>8, <2>1, <2>2 DEF Turned
<1>17. WavesBounded'
  <2>1. waves \in Nat /\ (waves + 1) - 2 = waves - 1 /\ (waves + 1 > 1 => waves > 0)
    BY DEF Typed
  <2>2. waves > 0 => 2 ^ (waves - 1) < Cardinality(Functions)
    BY <1>3 DEF Turned, Underway
  <2> QED
    BY <1>3, <2>1, <2>2 DEF WavesBounded
<1> QED
  BY <1>9, <1>10, <1>11, <1>12, <1>13, <1>14, <1>15, <1>16, <1>17

(* IncrementalGraphReviewer, for any functions and files, whatever fits    *)
(* into a packet and whatever the model answers: no function is dropped    *)
(* silently, what counts as reviewed was reviewed to the last line, and    *)
(* the loop turns at most once more than the halvings that separate all    *)
(* functions.                                                              *)
THEOREM ReviewIsSound == Spec => []ReviewSound
<1>1. Init => FrontierInv
  BY InitHolds
<1>2. FrontierInv /\ [Next]_vars => FrontierInv'
  <2> SUFFICES ASSUME FrontierInv, [Next]_vars PROVE FrontierInv'
    OBVIOUS
  <2>1. CASE UNCHANGED vars
    BY <2>1 DEF vars, call, results, FrontierInv, Typed, Phases, IndicesUnique, LeavesAnswered,
              CoveredByLeaves, Accounted, Awaits, Missing, Halved, Small, Turned, Underway,
              WavesBounded, FunctionsOf, Failed
  <2>2. CASE Finish
    BY <2>2 DEF Finish, call, results, FrontierInv, Typed, Phases, IndicesUnique, LeavesAnswered,
              CoveredByLeaves, Accounted, Awaits, Missing, Halved, Small, Turned, Underway,
              WavesBounded, FunctionsOf, Failed
  <2> QED
    BY <2>1, <2>2, BeginKeeps, OverflowKeeps, ChunkedKeeps, BuildEndKeeps, WaveKeeps DEF Next, Done
<1>3. FrontierInv => ReviewSound
  <2> SUFFICES ASSUME FrontierInv PROVE ReviewedExact
    BY DEF ReviewSound, FrontierInv
  <2> USE DEF FrontierInv
  <2> SUFFICES ASSUME phase = "done"
               PROVE  /\ FailedNodes = {g[1] : g \in failures}
                      /\ \A f \in Functions \ FailedNodes :
                            Lines[f] > 0 /\ Pieces({f}) \subseteq covered
    BY DEF ReviewedExact
  <2>1. wave = {} /\ candidates = {} /\ groups = {} /\ todo = {}
    BY DEF Phases
  <2>2. ASSUME NEW f \in Functions \ Failed
        PROVE  Lines[f] > 0 /\ Pieces({f}) \subseteq covered /\ Succeeded(f)
    <3>1. Lines[f] > 0 /\ \A l \in 1..Lines[f] : <<f, l>> \in covered
      BY <2>1 DEF Accounted, Awaits, Missing
    <3>2. \A p \in Pieces({f}) : p[1] \in {f} /\ p[2] \in 1..Lines[p[1]] /\ p = <<p[1], p[2]>>
      <4>1. {f} \in SUBSET Functions
        OBVIOUS
      <4> QED
        BY <4>1, PiecesAre
    <3>3. Pieces({f}) \subseteq covered
      BY <3>1, <3>2
    <3>4. PICK w \in leaves : <<f, 1>> \in w.pieces
      <4>1. Lines[f] \in Nat
        BY FrontierConstants
      <4>2. 1 \in 1..Lines[f]
        BY <3>1, <4>1
      <4> QED
        BY <3>1, <4>2 DEF CoveredByLeaves
    <3>5. <<f, 1>>[1] \in FunctionsOf(w)
      BY <3>4 DEF FunctionsOf
    <3>6. \A v \in leaves : f \in FunctionsOf(v) => answers[v.index] = "ok"
      BY DEF LeavesAnswered
    <3>7. Succeeded(f)
      BY <3>4, <3>5, <3>6 DEF Succeeded
    <3> QED
      BY <3>1, <3>3, <3>7
  <2> QED
    BY <2>2 DEF FailedNodes, Failed
<1> QED
  BY <1>1, <1>2, <1>3, PTL DEF Spec
=============================================================================
