--------------------------- MODULE MemPoolProofs ----------------------------
(***************************************************************************)
(* A fixed-sized memory pool, for any numbers of tasks, priorities and     *)
(* blocks: the free list, the invariant MemPoolOK, and the refinement of   *)
(* Blocks.                                                                 *)
(***************************************************************************)
EXTENDS MemPool, TaskSystemProofs

-----------------------------------------------------------------------------
(* The free list. *)

\* q are the blocks of the list that starts at block b.
Linked(next, b, q) ==
    /\ q \in Seq(Block) /\ IsInjective(q)
    /\ b = IF q = <<>> THEN INDEX_NULL ELSE q[1]
    /\ \A i \in 1 .. Len(q) :
          next[q[i]] = IF i = Len(q) THEN INDEX_NULL ELSE q[i + 1]

\* One step of the walk through the list.
Walked(next, b, s) ==
    LET c == IF s = <<>> THEN b ELSE next[s[Len(s)]]
    IN  IF c \in Block THEN Append(s, c) ELSE s

\* The walk, step by step.
LEMMA WalksInSteps ==
  ASSUME NEW next, NEW b, blkcnt \in Nat
  PROVE  \E w : /\ w[0] = <<>>
                /\ \A n \in 1 .. blkcnt + 1 : w[n] = Walked(next, b, w[n - 1])
                /\ w[blkcnt + 1] = List(next, b)
<1> DEFINE N == blkcnt + 1
           Body(g, n) == IF n = 0 THEN <<>> ELSE Walked(next, b, g[n - 1])
           Is(g, n) == g = [m \in 0 .. n |-> Body(g, m)]
           T == {n \in 0 .. N : ~ \E g : Is(g, n)}
           walk == CHOOSE g : Is(g, N)
<1>1. N \in Nat
  OBVIOUS
<1>2. List(next, b) = walk[N]
  BY Zenon DEF List, Walked
<1>3. \A n \in 0 .. N : \E g : Is(g, n)
  <2> SUFFICES ASSUME T # {} PROVE FALSE
    OBVIOUS
  <2>1. T \in SUBSET Nat
    BY <1>1
  <2> DEFINE n == Min(T)
  <2>2. n \in T /\ \A m \in T : n <= m
    <3> HIDE DEF T
    <3> QED BY <2>1, SmallestNat
  <2>3. n \in 0 .. N /\ ~ \E g : Is(g, n)
    BY <2>2
  <2> HIDE DEF n
  <2>4. n # 0
    <3>1. Is([m \in 0 .. 0 |-> <<>>], 0)
      OBVIOUS
    <3> QED BY <2>3, <3>1
  <2>5. PICK g : Is(g, n - 1)
    <3>1. n - 1 \in 0 .. N /\ ~(n <= n - 1)
      BY <2>3, <2>4
    <3> QED BY <2>2, <3>1
  <2> DEFINE h == [m \in 0 .. n |-> IF m = n THEN Walked(next, b, g[n - 1]) ELSE g[m]]
  <2>6. ASSUME NEW m \in 0 .. n PROVE h[m] = Body(h, m)
    <3>1. n \in Nat /\ n - 1 \in 0 .. n /\ n - 1 # n
      BY <2>3, <2>4
    <3>2. CASE m = n
      <4>1. h[m] = Walked(next, b, g[n - 1]) /\ h[n - 1] = g[n - 1]
        BY <3>1, <3>2
      <4> HIDE DEF h
      <4> QED BY <2>4, <3>2, <4>1
    <3>3. CASE m # n
      <4>1. m \in 0 .. n - 1 /\ h[m] = g[m] /\ g[m] = Body(g, m)
        BY <2>5, <3>1, <3>3
      <4>2. m # 0 => h[m - 1] = g[m - 1]
        BY <3>1, <4>1
      <4> HIDE DEF h
      <4> QED BY <4>1, <4>2
    <3> QED BY <3>2, <3>3
  <2>7. Is(h, n)
    <3>1. h = [m \in 0 .. n |-> h[m]]
      OBVIOUS
    <3> HIDE DEF h
    <3> QED BY <2>6, <3>1
  <2> QED BY <2>3, <2>7
<1>4. Is(walk, N)
  <2>1. \E g : Is(g, N)
    BY <1>1, <1>3
  <2> QED BY <2>1
<1>5. \A n \in 0 .. N : walk[n] = Body(walk, n)
  <2> HIDE DEF walk
  <2> QED BY <1>4
<1> HIDE DEF walk
<1>6. walk[0] = <<>> /\ \A n \in 1 .. N : walk[n] = Walked(next, b, walk[n - 1])
  BY <1>1, <1>5
<1> QED BY <1>2, <1>6
-----------------------------------------------------------------------------
\* s are the first n blocks of q.
Start(s, q, n) ==
    s \in Seq(Block) /\ Len(s) = n /\ \A i \in 1 .. n : s[i] = q[i]

\* The walk finds the blocks of the list in their order, and stays at the end.
LEMMA WalkFollows ==
  ASSUME NEW next, NEW b, NEW q, Linked(next, b, q), INDEX_NULL \notin Block,
         NEW n \in Nat, n <= Len(q), NEW s, Start(s, q, n)
  PROVE  IF n < Len(q) THEN Start(Walked(next, b, s), q, n + 1)
         ELSE Walked(next, b, s) = s
<1> DEFINE c == IF s = <<>> THEN b ELSE next[s[Len(s)]]
<1>1. q \in Seq(Block) /\ s \in Seq(Block) /\ Len(s) = n
  BY DEF Linked, Start
<1>2. CASE n < Len(q)
  <2>1. c = q[n + 1]
    <3>1. CASE n = 0
      <4>1. s = <<>> /\ q # <<>>
        BY <1>1, <1>2, <3>1
      <4> QED BY <3>1, <4>1 DEF Linked
    <3>2. CASE n # 0
      <4>1. s # <<>> /\ s[n] = q[n] /\ n \in 1 .. Len(q)
        BY <1>1, <1>2, <3>2 DEF Start
      <4>2. next[q[n]] = q[n + 1]
        BY <1>2, <4>1 DEF Linked
      <4> QED BY <1>1, <4>1, <4>2
    <3> QED BY <3>1, <3>2
  <2>2. c \in Block
    BY <1>1, <1>2, <2>1
  <2>3. Walked(next, b, s) = Append(s, c)
    BY <2>2 DEF Walked
  <2> HIDE DEF c
  <2> QED BY <1>1, <1>2, <2>1, <2>2, <2>3 DEF Start
<1>3. CASE n = Len(q)
  <2>1. c = INDEX_NULL
    <3>1. CASE n = 0
      <4>1. s = <<>>
        BY <1>1, <3>1
      <4>2. Len(q) = 0
        BY <1>3, <3>1
      <4>3. q = <<>>
        BY <1>1, <4>2
      <4> QED BY <4>1, <4>3 DEF Linked
    <3>2. CASE n # 0
      <4>1. s # <<>> /\ s[n] = q[n] /\ n \in 1 .. Len(q)
        BY <1>1, <1>3, <3>2 DEF Start
      <4>2. next[q[n]] = INDEX_NULL
        BY <1>3, <4>1 DEF Linked
      <4> QED BY <1>1, <4>1, <4>2
    <3> QED BY <3>1, <3>2
  <2> QED BY <1>3, <2>1 DEF Walked
<1> QED BY <1>1, <1>2, <1>3

\* A list without repetitions has as many blocks as there are, at most.
LEMMA ListBounded ==
  ASSUME blkcnt \in Nat, NEW q \in Seq(Block), IsInjective(q)
  PROVE  Len(q) \in 0 .. blkcnt
<1> DEFINE S == {c \in Block : \E i \in 1 .. Len(q) : q[i] = c}
<1>1. \A c : c \in S <=> \E i \in 1 .. Len(q) : q[i] = c
  OBVIOUS
<1>2. S \subseteq Block
  OBVIOUS
<1>3. Cardinality(S) = Len(q)
  <2> HIDE DEF S
  <2> QED BY <1>1, CountedByLength
<1>4. IsFiniteSet(Block) /\ Cardinality(Block) = blkcnt
  BY FS_Interval DEF Block
<1>5. Cardinality(S) <= Cardinality(Block)
  BY <1>2, <1>4, FS_Subset
<1>6. Len(q) <= blkcnt
  BY <1>3, <1>4, <1>5
<1>7. Len(q) \in Nat
  OBVIOUS
<1> QED BY <1>6, <1>7

\* What the walk finds is the list.
LEMMA ListIs ==
  ASSUME NEW next, NEW b, NEW q, Linked(next, b, q), blkcnt \in Nat,
         INDEX_NULL \notin Block
  PROVE  List(next, b) = q
<1> DEFINE N == blkcnt + 1
           At(n) == IF n <= Len(q) THEN n ELSE Len(q)
<1>1. PICK w : /\ w[0] = <<>>
               /\ \A n \in 1 .. N : w[n] = Walked(next, b, w[n - 1])
               /\ w[N] = List(next, b)
  BY WalksInSteps
<1>2. q \in Seq(Block) /\ Len(q) \in 0 .. blkcnt
  BY ListBounded DEF Linked
<1> DEFINE T == {n \in 0 .. N : ~Start(w[n], q, At(n))}
<1>3. T = {}
  <2> SUFFICES ASSUME T # {} PROVE FALSE
    OBVIOUS
  <2>1. T \in SUBSET Nat
    OBVIOUS
  <2> DEFINE n == Min(T)
  <2>2. n \in T /\ \A m \in T : n <= m
    <3> HIDE DEF T
    <3> QED BY <2>1, SmallestNat
  <2>3. n \in 0 .. N /\ ~Start(w[n], q, At(n))
    BY <2>2
  <2> HIDE DEF n
  <2>4. n # 0
    <3>1. Start(<<>>, q, 0)
      BY DEF Start
    <3>2. At(0) = 0
      BY <1>2
    <3> QED BY <1>1, <2>3, <3>1, <3>2
  <2>5. Start(w[n - 1], q, At(n - 1))
    <3>1. n - 1 \in 0 .. N /\ ~(n <= n - 1)
      BY <2>3, <2>4
    <3> QED BY <2>2, <3>1
  <2>6. At(n - 1) \in Nat /\ At(n - 1) <= Len(q)
    BY <1>2, <2>3, <2>4
  <2>7. w[n] = Walked(next, b, w[n - 1])
    BY <1>1, <2>3, <2>4
  <2> DEFINE m == At(n - 1)
  <2>8. m < Len(q) => At(n) = m + 1
    BY <1>2, <2>3, <2>4
  <2>9. ~(m < Len(q)) => At(n) = m
    BY <1>2, <2>3, <2>4
  <2> HIDE DEF m, At
  <2>10. m = At(n - 1) /\ m \in Nat /\ m <= Len(q)
    BY <2>6 DEF m
  <2>11. IF m < Len(q) THEN Start(Walked(next, b, w[n - 1]), q, m + 1)
         ELSE Walked(next, b, w[n - 1]) = w[n - 1]
    BY <2>5, <2>10, WalkFollows
  <2> QED BY <2>3, <2>5, <2>7, <2>8, <2>9, <2>10, <2>11
<1>4. Start(w[N], q, Len(q))
  <2>1. N \in 0 .. N /\ At(N) = Len(q)
    BY <1>2
  <2> QED BY <1>3, <2>1
<1>5. w[N] = q
  BY <1>2, <1>4 DEF Start
<1> QED BY <1>1, <1>5

-----------------------------------------------------------------------------
(* The blocks of a pool. *)

\* q is the free list of pool p: its blocks, and those that were never used,
\* are counted, and the other blocks are marked.
PoolIs(p, q) ==
    /\ p \in [fblkcnt : Nat, unused : 0 .. blkcnt, freelist : Block \cup {INDEX_NULL},
              next : [Block -> Block \cup {INDEX_NULL, INDEX_ALLOC}]]
    /\ Linked(p.next, p.freelist, q)
    /\ \A i \in 1 .. Len(q) : q[i] < p.unused
    /\ \A c \in Block : c < p.unused =>
          (p.next[c] = INDEX_ALLOC <=> \A i \in 1 .. Len(q) : q[i] # c)
    /\ p.fblkcnt = Len(q) + (blkcnt - p.unused)

\* The blocks nobody holds.
FreeIn(p, q) == {c \in Block : p.unused <= c \/ \E i \in 1 .. Len(q) : q[i] = c}

PoolTypes == blkcnt \in Nat /\ INDEX_NULL \notin Block /\ INDEX_ALLOC \notin Block
                /\ INDEX_NULL # INDEX_ALLOC

LEMMA TypesOfPool ==
  ASSUME MemPoolAssumption
  PROVE  PoolTypes
BY DEF MemPoolAssumption, PoolTypes

LEMMA FreeIs ==
  ASSUME PoolTypes, NEW q, PoolIs(pool, q)
  PROVE  FreeList = q /\ ToSet(FreeList) \cup pool.unused .. blkcnt - 1 = FreeIn(pool, q)
<1>1. FreeList = q
  BY ListIs DEF PoolIs, PoolTypes, FreeList
<1>2. q \in Seq(Block) /\ pool.unused \in 0 .. blkcnt /\ blkcnt \in Nat
  BY DEF PoolIs, Linked, PoolTypes
<1>3. \A c : c \in ToSet(q) <=> \E i \in 1 .. Len(q) : q[i] = c
  BY <1>2 DEF ToSet
<1>4. \A c : c \in ToSet(q) => c \in Block
  BY <1>2, <1>3
<1>5. \A c : c \in pool.unused .. blkcnt - 1 <=> c \in Block /\ pool.unused <= c
  BY <1>2 DEF Block
<1>6. ToSet(q) \cup pool.unused .. blkcnt - 1 = FreeIn(pool, q)
  BY <1>3, <1>4, <1>5 DEF FreeIn
<1> QED BY <1>1, <1>6

\* A block is free exactly if it is counted.
LEMMA FreeCounted ==
  ASSUME PoolTypes, NEW p, NEW q, PoolIs(p, q)
  PROVE  /\ p.fblkcnt = 0 <=> FreeIn(p, q) = {}
         /\ \A c \in Block \ FreeIn(p, q) : c < p.unused /\ p.next[c] = INDEX_ALLOC
         /\ \A c \in Block : c < p.unused /\ p.next[c] = INDEX_ALLOC => c \notin FreeIn(p, q)
<1>1. /\ q \in Seq(Block) /\ Len(q) \in Nat /\ p.unused \in 0 .. blkcnt /\ blkcnt \in Nat
      /\ p.fblkcnt = Len(q) + (blkcnt - p.unused)
  BY DEF PoolIs, Linked, PoolTypes
<1>2. \A c \in Block : c \in 0 .. blkcnt - 1
  BY DEF Block
<1>3. ASSUME p.fblkcnt = 0 PROVE FreeIn(p, q) = {}
  <2>1. Len(q) = 0 /\ p.unused = blkcnt
    BY <1>1, <1>3
  <2> QED BY <1>1, <1>2, <2>1 DEF FreeIn
<1>3a. ASSUME FreeIn(p, q) = {} PROVE p.fblkcnt = 0
  <2>1. Len(q) = 0
    <3>1. \A i \in 1 .. Len(q) : q[i] \in Block
      BY <1>1
    <3>2. \A i \in 1 .. Len(q) : FALSE
      BY <1>3a, <3>1 DEF FreeIn
    <3>3. 1 \notin 1 .. Len(q)
      BY <3>2
    <3> QED BY <1>1, <3>3
  <2>2. p.unused \notin Block
    BY <1>1, <1>3a DEF FreeIn
  <2>3. p.unused = blkcnt
    BY <1>1, <2>2 DEF Block
  <2> QED BY <1>1, <2>1, <2>3
<1>4. \A c \in Block : c < p.unused <=> ~(p.unused <= c)
  BY <1>1, <1>2
<1>5. \A c \in Block : c < p.unused =>
          (p.next[c] = INDEX_ALLOC <=> \A i \in 1 .. Len(q) : q[i] # c)
  BY DEF PoolIs
<1> QED BY <1>3, <1>3a, <1>4, <1>5 DEF FreeIn

\* get_mpf_block takes the first block of the list, or else one never used.
LEMMA Taken ==
  ASSUME PoolTypes, NEW q, PoolIs(pool, q), pool.fblkcnt > 0, get_mpf_block
  PROVE  \E r : /\ PoolIs(pool', r)
                /\ first_block \in FreeIn(pool, q)
                /\ FreeIn(pool', r) = FreeIn(pool, q) \ {first_block}
<1> DEFINE f == first_block
           r == IF q = <<>> THEN q ELSE Tail(q)
<1>1. /\ q \in Seq(Block) /\ IsInjective(q) /\ Len(q) \in Nat /\ pool.unused \in 0 .. blkcnt
      /\ blkcnt \in Nat /\ pool.fblkcnt = Len(q) + (blkcnt - pool.unused)
      /\ pool.next \in [Block -> Block \cup {INDEX_NULL, INDEX_ALLOC}]
      /\ pool.freelist = (IF q = <<>> THEN INDEX_NULL ELSE q[1])
      /\ \A i \in 1 .. Len(q) : q[i] < pool.unused
      /\ \A i \in 1 .. Len(q) :
            pool.next[q[i]] = IF i = Len(q) THEN INDEX_NULL ELSE q[i + 1]
      /\ \A c \in Block : c < pool.unused =>
            (pool.next[c] = INDEX_ALLOC <=> \A i \in 1 .. Len(q) : q[i] # c)
  BY DEF PoolIs, Linked, PoolTypes
<1>2. \A i, j \in 1 .. Len(q) : q[i] = q[j] => i = j
  BY <1>1 DEF IsInjective
<1>3. /\ pool'.freelist = (IF pool.freelist # INDEX_NULL THEN pool.next[pool.freelist]
                           ELSE pool.freelist)
      /\ pool'.unused = (IF pool.freelist # INDEX_NULL THEN pool.unused ELSE pool.unused + 1)
      /\ pool'.fblkcnt = pool.fblkcnt - 1
      /\ pool'.next = [pool.next EXCEPT ![f] = INDEX_ALLOC]
      /\ pool' = [fblkcnt |-> pool'.fblkcnt, unused |-> pool'.unused,
                  freelist |-> pool'.freelist, next |-> pool'.next]
  BY DEF get_mpf_block, PoolIs
<1>3a. pool'.next \in [Block -> Block \cup {INDEX_NULL, INDEX_ALLOC}]
  <2>1. pool.next \in [Block -> Block \cup {INDEX_NULL, INDEX_ALLOC}]
    BY <1>1
  <2>2. pool'.next = [pool.next EXCEPT ![f] = INDEX_ALLOC]
    BY <1>3
  <2> HIDE DEF f
  <2> QED BY <2>1, <2>2
<1>4. CASE q # <<>>
  <2>1. Len(q) >= 1 /\ f = q[1] /\ f \in Block /\ pool.freelist = f /\ f # INDEX_NULL
    <3>1. Len(q) >= 1
      BY <1>1, <1>4
    <3>2. q[1] \in Block
      BY <1>1, <3>1
    <3> QED BY <1>1, <1>4, <3>1, <3>2 DEF first_block, PoolTypes
  <2>2. /\ r \in Seq(Block) /\ Len(r) = Len(q) - 1
        /\ \A i \in 1 .. Len(r) : r[i] = q[i + 1] /\ i + 1 \in 1 .. Len(q)
    BY <1>1, <1>4
  <2> HIDE DEF r, f
  <2>3. IsInjective(r)
    BY <1>2, <2>2 DEF IsInjective
  <2>4. \A i \in 1 .. Len(r) : r[i] # f /\ r[i] \in Block
    BY <1>1, <1>2, <2>1, <2>2
  <2>5. pool'.freelist = (IF r = <<>> THEN INDEX_NULL ELSE r[1])
    <3>1. pool'.freelist = (IF 1 = Len(q) THEN INDEX_NULL ELSE q[2])
      <4>1. pool'.freelist = pool.next[q[1]] /\ 1 \in 1 .. Len(q)
        BY <1>1, <1>3, <2>1
      <4>2. \A i \in 1 .. Len(q) :
               pool.next[q[i]] = IF i = Len(q) THEN INDEX_NULL ELSE q[i + 1]
        BY <1>1
      <4>3. pool.next[q[1]] = IF 1 = Len(q) THEN INDEX_NULL ELSE q[1 + 1]
        BY <4>1, <4>2
      <4> QED BY <4>1, <4>3
    <3>2. CASE Len(q) = 1
      <4>1. r = <<>>
        BY <2>2, <3>2
      <4> QED BY <3>1, <3>2, <4>1
    <3>3. CASE Len(q) # 1
      <4>1. 1 \in 1 .. Len(r) /\ r # <<>>
        BY <2>1, <2>2, <3>3, <1>1
      <4> QED BY <2>2, <3>1, <3>3, <4>1
    <3> QED BY <3>2, <3>3
  <2>6. \A i \in 1 .. Len(r) :
            pool'.next[r[i]] = IF i = Len(r) THEN INDEX_NULL ELSE r[i + 1]
    <3> SUFFICES ASSUME NEW i \in 1 .. Len(r)
                 PROVE  pool'.next[r[i]] = IF i = Len(r) THEN INDEX_NULL ELSE r[i + 1]
      OBVIOUS
    <3>1. pool'.next[r[i]] = pool.next[r[i]]
      BY <1>1, <1>3, <2>4
    <3>2. pool.next[q[i + 1]] = IF i + 1 = Len(q) THEN INDEX_NULL ELSE q[i + 2]
      <4>1. \A j \in 1 .. Len(q) :
               pool.next[q[j]] = IF j = Len(q) THEN INDEX_NULL ELSE q[j + 1]
        BY <1>1
      <4>2. i + 1 \in 1 .. Len(q) /\ i + 1 + 1 = i + 2
        BY <2>2
      <4> QED BY <4>1, <4>2
    <3>3. CASE i = Len(r)
      BY <1>1, <2>2, <3>1, <3>2, <3>3
    <3>4. CASE i # Len(r)
      <4>1. i + 1 \in 1 .. Len(r) /\ i + 1 # Len(q) /\ i + 1 + 1 = i + 2
        BY <1>1, <2>2, <3>4
      <4>2. r[i + 1] = q[i + 2]
        BY <2>2, <4>1
      <4> QED BY <2>2, <3>1, <3>2, <3>4, <4>1, <4>2
    <3> QED BY <3>3, <3>4
  <2>7. Linked(pool'.next, pool'.freelist, r)
    BY <2>2, <2>3, <2>5, <2>6 DEF Linked
  <2>8. \A c : (\E i \in 1 .. Len(r) : r[i] = c) <=> (c # f /\ \E i \in 1 .. Len(q) : q[i] = c)
    <3> SUFFICES ASSUME NEW c
                 PROVE  (\E i \in 1 .. Len(r) : r[i] = c)
                           <=> (c # f /\ \E i \in 1 .. Len(q) : q[i] = c)
      OBVIOUS
    <3>1. ASSUME NEW i \in 1 .. Len(q), q[i] = c, c # f PROVE \E j \in 1 .. Len(r) : r[j] = c
      <4>1. i - 1 \in 1 .. Len(r) /\ i - 1 + 1 = i
        BY <1>1, <2>1, <2>2, <3>1
      <4> QED BY <2>2, <3>1, <4>1
    <3> QED BY <2>2, <2>4, <3>1
  <2>9. pool'.unused = pool.unused
    BY <1>3, <2>1
  <2>10. /\ pool'.next \in [Block -> Block \cup {INDEX_NULL, INDEX_ALLOC}]
         /\ pool'.freelist \in Block \cup {INDEX_NULL}
    <3>1. r # <<>> => r[1] \in Block
      BY <2>2
    <3> QED BY <1>3a, <2>5, <3>1
  <2>11. pool'.fblkcnt \in Nat /\ pool'.fblkcnt = Len(r) + (blkcnt - pool'.unused)
    <3>1. pool'.fblkcnt = pool.fblkcnt - 1 /\ Len(r) = Len(q) - 1 /\ Len(q) \in Nat
          /\ pool.unused \in Nat /\ blkcnt \in Nat /\ pool.unused <= blkcnt
          /\ pool.fblkcnt = Len(q) + (blkcnt - pool.unused) /\ pool'.unused = pool.unused
          /\ Len(q) >= 1
      BY <1>1, <1>3, <2>1, <2>2, <2>9
    <3> QED BY <3>1
  <2>12. \A i \in 1 .. Len(r) : r[i] < pool'.unused
    BY <1>1, <2>2, <2>9
  <2>13. \A c \in Block : c < pool'.unused =>
            (pool'.next[c] = INDEX_ALLOC <=> \A i \in 1 .. Len(r) : r[i] # c)
    <3> SUFFICES ASSUME NEW c \in Block, c < pool'.unused
                 PROVE  pool'.next[c] = INDEX_ALLOC <=> \A i \in 1 .. Len(r) : r[i] # c
      OBVIOUS
    <3>1. CASE c = f
      BY <1>1, <1>3, <2>4, <3>1
    <3>2. CASE c # f
      <4>1. pool'.next[c] = pool.next[c] /\ c < pool.unused
        BY <1>1, <1>3, <2>9, <3>2
      <4>2. pool.next[c] = INDEX_ALLOC <=> \A i \in 1 .. Len(q) : q[i] # c
        BY <1>1, <4>1
      <4>3. (\E i \in 1 .. Len(r) : r[i] = c) <=> \E i \in 1 .. Len(q) : q[i] = c
        BY <2>8, <3>2
      <4> QED BY <4>1, <4>2, <4>3
    <3> QED BY <3>1, <3>2
  <2>14. PoolIs(pool', r)
    BY <1>1, <1>3, <2>7, <2>9, <2>10, <2>11, <2>12, <2>13 DEF PoolIs
  <2>15. f \in FreeIn(pool, q)
    <3>1. 1 \in 1 .. Len(q)
      BY <1>1, <2>1
    <3> QED BY <2>1, <3>1 DEF FreeIn
  <2>16. FreeIn(pool', r) = FreeIn(pool, q) \ {f}
    <3>1. ~(pool.unused <= f)
      <4>1. f < pool.unused /\ f \in Int
        BY <1>1, <2>1 DEF Block
      <4> QED BY <1>1, <4>1
    <3> QED BY <2>8, <2>9, <3>1 DEF FreeIn
  <2> QED BY <2>14, <2>15, <2>16 DEF f
<1>5. CASE q = <<>>
  <2>1. /\ Len(q) = 0 /\ pool.unused < blkcnt /\ f = pool.unused /\ f \in Block
        /\ pool.freelist = INDEX_NULL
    <3>1. Len(q) = 0 /\ pool.freelist = INDEX_NULL
      BY <1>1, <1>5
    <3>2. pool.unused < blkcnt
      BY <1>1, <3>1
    <3>3. f = pool.unused
      BY <3>1 DEF first_block
    <3> QED BY <1>1, <3>1, <3>2, <3>3 DEF Block
  <2> HIDE DEF f
  <2>2. pool'.unused = pool.unused + 1 /\ pool'.freelist = INDEX_NULL
    BY <1>3, <2>1
  <2>3. Linked(pool'.next, pool'.freelist, q)
    BY <1>1, <1>5, <2>1, <2>2 DEF Linked
  <2>4. pool'.next \in [Block -> Block \cup {INDEX_NULL, INDEX_ALLOC}]
    BY <1>3a
  <2>5. pool'.fblkcnt \in Nat /\ pool'.fblkcnt = Len(q) + (blkcnt - pool'.unused)
    BY <1>1, <1>3, <2>1, <2>2
  <2>6. \A c \in Block : c < pool'.unused => c < pool.unused \/ c = f
    BY <1>1, <2>1, <2>2 DEF Block
  <2>7. \A c \in Block : c < pool'.unused =>
            (pool'.next[c] = INDEX_ALLOC <=> \A i \in 1 .. Len(q) : q[i] # c)
    BY <1>1, <1>3, <2>1, <2>6
  <2>8. pool'.unused \in 0 .. blkcnt
    BY <1>1, <2>1, <2>2
  <2>9. PoolIs(pool', q)
    BY <1>3, <2>1, <2>2, <2>3, <2>4, <2>5, <2>7, <2>8 DEF PoolIs
  <2>10. \A c \in Block : pool'.unused <= c <=> pool.unused <= c /\ c # f
    BY <1>1, <2>1, <2>2 DEF Block
  <2>11. f \in FreeIn(pool, q) /\ FreeIn(pool', q) = FreeIn(pool, q) \ {f}
    BY <1>1, <2>1, <2>10 DEF FreeIn
  <2> QED BY <2>9, <2>11 DEF f
<1> QED BY <1>4, <1>5

\* rel_mpf puts the block in front of the list.
LEMMA Returned ==
  ASSUME PoolTypes, NEW q, PoolIs(pool, q), NEW b \in Block \ FreeIn(pool, q),
         pool' = [pool EXCEPT !.fblkcnt = @ + 1, !.next[b] = pool.freelist, !.freelist = b]
  PROVE  \E r : PoolIs(pool', r) /\ FreeIn(pool', r) = FreeIn(pool, q) \cup {b}
<1> DEFINE r == <<b>> \o q
<1>1. /\ q \in Seq(Block) /\ IsInjective(q) /\ Len(q) \in Nat /\ pool.unused \in 0 .. blkcnt
      /\ blkcnt \in Nat /\ pool.fblkcnt = Len(q) + (blkcnt - pool.unused)
      /\ pool.next \in [Block -> Block \cup {INDEX_NULL, INDEX_ALLOC}]
      /\ pool.freelist = (IF q = <<>> THEN INDEX_NULL ELSE q[1])
      /\ \A i \in 1 .. Len(q) : q[i] < pool.unused
      /\ \A i \in 1 .. Len(q) :
            pool.next[q[i]] = IF i = Len(q) THEN INDEX_NULL ELSE q[i + 1]
      /\ \A c \in Block : c < pool.unused =>
            (pool.next[c] = INDEX_ALLOC <=> \A i \in 1 .. Len(q) : q[i] # c)
  BY DEF PoolIs, Linked, PoolTypes
<1>2. \A i, j \in 1 .. Len(q) : q[i] = q[j] => i = j
  BY <1>1 DEF IsInjective
<1>3. /\ pool'.freelist = b /\ pool'.unused = pool.unused
      /\ pool'.fblkcnt = pool.fblkcnt + 1
      /\ pool'.next = [pool.next EXCEPT ![b] = pool.freelist]
      /\ pool' = [fblkcnt |-> pool'.fblkcnt, unused |-> pool'.unused,
                  freelist |-> pool'.freelist, next |-> pool'.next]
  BY DEF PoolIs
<1>4. b < pool.unused /\ \A i \in 1 .. Len(q) : q[i] # b
  BY FreeCounted DEF FreeIn
<1>5. pool.freelist \in Block \cup {INDEX_NULL}
  BY DEF PoolIs
<1>6. /\ pool'.next \in [Block -> Block \cup {INDEX_NULL, INDEX_ALLOC}]
      /\ pool'.next[b] = pool.freelist
      /\ \A c \in Block \ {b} : pool'.next[c] = pool.next[c]
  <2>1. pool.next \in [Block -> Block \cup {INDEX_NULL, INDEX_ALLOC}]
    BY <1>1
  <2>2. pool'.next = [pool.next EXCEPT ![b] = pool.freelist]
    BY <1>3
  <2> QED BY <1>5, <2>1, <2>2
<1>7. /\ r \in Seq(Block) /\ Len(r) = Len(q) + 1 /\ r # <<>> /\ r[1] = b
      /\ \A i \in 1 .. Len(q) : r[i + 1] = q[i]
  BY <1>1
<1> HIDE DEF r
<1>8. \A i \in 1 .. Len(r) : i = 1 \/ (i - 1 \in 1 .. Len(q) /\ r[i] = q[i - 1])
  <2> SUFFICES ASSUME NEW i \in 1 .. Len(r), i # 1
               PROVE  i - 1 \in 1 .. Len(q) /\ r[i] = q[i - 1]
    OBVIOUS
  <2>1. i - 1 \in 1 .. Len(q) /\ i - 1 + 1 = i
    BY <1>1, <1>7
  <2> QED BY <1>7, <2>1
<1>9. \A c : (\E i \in 1 .. Len(r) : r[i] = c) <=> (c = b \/ \E i \in 1 .. Len(q) : q[i] = c)
  <2> SUFFICES ASSUME NEW c
               PROVE  (\E i \in 1 .. Len(r) : r[i] = c)
                         <=> (c = b \/ \E i \in 1 .. Len(q) : q[i] = c)
    OBVIOUS
  <2>1. 1 \in 1 .. Len(r)
    BY <1>1, <1>7
  <2>2. ASSUME NEW i \in 1 .. Len(q), q[i] = c PROVE \E j \in 1 .. Len(r) : r[j] = c
    <3>1. i + 1 \in 1 .. Len(r)
      BY <1>1, <1>7
    <3> QED BY <1>7, <2>2, <3>1
  <2> QED BY <1>7, <1>8, <2>1, <2>2
<1>10. IsInjective(r)
  <2> SUFFICES ASSUME NEW i \in 1 .. Len(r), NEW j \in 1 .. Len(r), r[i] = r[j] PROVE i = j
    BY <1>7 DEF IsInjective
  <2>1. CASE i = 1 \/ j = 1
    BY <1>4, <1>7, <1>8, <2>1
  <2>2. CASE i # 1 /\ j # 1
    <3>1. i - 1 = j - 1
      BY <1>2, <1>8, <2>2
    <3> QED BY <1>1, <1>7, <3>1
  <2> QED BY <2>1, <2>2
<1>11. ASSUME NEW i \in 1 .. Len(r)
       PROVE  pool'.next[r[i]] = IF i = Len(r) THEN INDEX_NULL ELSE r[i + 1]
  <2>1. CASE i = 1
    <3>1. pool'.next[r[i]] = pool.freelist
      BY <1>6, <1>7, <2>1
    <3>2. CASE Len(q) = 0
      <4>1. q = <<>>
        BY <1>1, <3>2
      <4> QED BY <1>1, <1>7, <2>1, <3>1, <3>2, <4>1
    <3>3. CASE Len(q) # 0
      <4>1. q # <<>> /\ 1 \in 1 .. Len(q)
        BY <1>1, <3>3
      <4>2. r[1 + 1] = q[1] /\ i # Len(r)
        BY <1>1, <1>7, <2>1, <4>1
      <4> QED BY <1>1, <2>1, <3>1, <4>1, <4>2
    <3> QED BY <3>2, <3>3
  <2>2. CASE i # 1
    <3>1. i - 1 \in 1 .. Len(q) /\ r[i] = q[i - 1]
      BY <1>8, <2>2
    <3>2. pool'.next[r[i]] = pool.next[q[i - 1]]
      BY <1>1, <1>4, <1>6, <3>1
    <3>3. pool.next[q[i - 1]] = IF i - 1 = Len(q) THEN INDEX_NULL ELSE q[i - 1 + 1]
      BY <1>1, <3>1
    <3>4. i - 1 + 1 = i /\ (i - 1 = Len(q) <=> i = Len(r))
      BY <1>1, <1>7
    <3>5. i # Len(r) => r[i + 1] = q[i]
      <4>1. i # Len(r) => i \in 1 .. Len(q)
        BY <1>1, <1>7
      <4> QED BY <1>7, <4>1
    <3> QED BY <3>2, <3>3, <3>4, <3>5
  <2> QED BY <2>1, <2>2
<1>12. Linked(pool'.next, pool'.freelist, r)
  BY <1>3, <1>7, <1>10, <1>11 DEF Linked
<1>13. pool'.fblkcnt \in Nat /\ pool'.fblkcnt = Len(r) + (blkcnt - pool'.unused)
  <2>1. pool'.fblkcnt = pool.fblkcnt + 1 /\ Len(r) = Len(q) + 1 /\ Len(q) \in Nat
        /\ pool.unused \in Nat /\ blkcnt \in Nat /\ pool.unused <= blkcnt
        /\ pool.fblkcnt = Len(q) + (blkcnt - pool.unused) /\ pool'.unused = pool.unused
    BY <1>1, <1>3, <1>7
  <2> QED BY <2>1
<1>14. \A i \in 1 .. Len(r) : r[i] < pool'.unused
  BY <1>1, <1>3, <1>4, <1>7, <1>8
<1>15. \A c \in Block : c < pool'.unused =>
          (pool'.next[c] = INDEX_ALLOC <=> \A i \in 1 .. Len(r) : r[i] # c)
  <2> SUFFICES ASSUME NEW c \in Block, c < pool'.unused
               PROVE  pool'.next[c] = INDEX_ALLOC <=> \A i \in 1 .. Len(r) : r[i] # c
    OBVIOUS
  <2>1. CASE c = b
    BY <1>5, <1>6, <1>9, <2>1 DEF PoolTypes
  <2>2. CASE c # b
    <3>1. c < pool.unused /\ pool'.next[c] = pool.next[c]
      BY <1>3, <1>6, <2>2
    <3>2. (\E i \in 1 .. Len(r) : r[i] = c) <=> (\E i \in 1 .. Len(q) : q[i] = c)
      BY <1>9, <2>2
    <3>3. pool.next[c] = INDEX_ALLOC <=> \A i \in 1 .. Len(q) : q[i] # c
      <4>1. \A x \in Block : x < pool.unused =>
               (pool.next[x] = INDEX_ALLOC <=> \A i \in 1 .. Len(q) : q[i] # x)
        BY <1>1
      <4> QED BY <3>1, <4>1
    <3> QED BY <3>1, <3>2, <3>3
  <2> QED BY <2>1, <2>2
<1>16. PoolIs(pool', r)
  BY <1>1, <1>3, <1>6, <1>12, <1>13, <1>14, <1>15 DEF PoolIs
<1>17. FreeIn(pool', r) = FreeIn(pool, q) \cup {b}
  BY <1>3, <1>9 DEF FreeIn
<1> QED BY <1>16, <1>17

\* ini_mpf empties the list: all blocks count as never used.
LEMMA Renewed ==
  ASSUME PoolTypes, NEW p, p.next \in [Block -> Block \cup {INDEX_NULL, INDEX_ALLOC}],
         p = [fblkcnt |-> blkcnt, unused |-> 0, freelist |-> INDEX_NULL, next |-> p.next]
  PROVE  PoolIs(p, <<>>) /\ FreeIn(p, <<>>) = Block
<1>1. \A c \in Block : 0 <= c /\ ~(c < 0)
  BY DEF Block
<1>2. blkcnt \in Nat /\ 0 \in 0 .. blkcnt /\ p.unused = 0 /\ p.freelist = INDEX_NULL
      /\ p.fblkcnt = blkcnt /\ blkcnt = 0 + (blkcnt - 0)
  BY DEF PoolTypes
<1>3. Linked(p.next, p.freelist, <<>>)
  BY <1>2 DEF Linked, IsInjective
<1>4. p \in [fblkcnt : Nat, unused : 0 .. blkcnt, freelist : Block \cup {INDEX_NULL},
             next : [Block -> Block \cup {INDEX_NULL, INDEX_ALLOC}]]
  BY <1>2
<1> QED BY <1>1, <1>2, <1>3, <1>4 DEF PoolIs, FreeIn

-----------------------------------------------------------------------------
(* The invariant. *)

Kind    == [w \in Wobj |-> "MPF"]
Waiters == WaitersOf(k, mpf)

\* The tasks in rel_mpf each hold the block that they give back.
GivingOK(g, p, q) ==
    /\ g \in [Task -> Block \cup {INDEX_NULL}]
    /\ \A t \in Task : g[t] # INDEX_NULL => g[t] \notin FreeIn(p, q)
    /\ \A t, u \in Task : g[t] # INDEX_NULL /\ g[t] = g[u] => t = u

\* The pool is in order, nobody waits while a block is free, and the task
\* that was given a block last does not wait.
PoolState(p, g, last, kk, q) ==
    /\ PoolIs(p, q) /\ GivingOK(g, p, q)
    /\ FreeIn(p, q) # {} => WaitersOf(kk, mpf) = {}
    /\ last # <<>> => \E t \in Task : t \notin WaitersOf(kk, mpf)

MemPoolOK == ObjectOK(Kind) /\ \E q : PoolState(pool, giving, p_blk, k, q)

\* What a step has to keep and to be for Blocks.
MemPoolStep(q, r) ==
    /\ KernelOK' /\ Kinds(k', Kind)
    /\ PoolState(pool', giving', p_blk', k', r)
    /\ LET free == FreeIn(pool, q)
           free_ == FreeIn(pool', r)
           waiting == WaitersOf(k, mpf)
           waiting_ == WaitersOf(k', mpf)
       IN  \/ free_ = free /\ waiting_ = waiting /\ p_blk' = p_blk
           \/ \E t \in Task :
                 /\ free = {} /\ t \notin waiting /\ waiting_ = waiting \cup {t}
                 /\ p_blk' = <<>> /\ free_ = free
           \/ \E t \in Task : waiting_ = waiting \ {t} /\ p_blk' = <<>> /\ free_ = free
           \/ \E t \in Task : \E b \in free :
                 /\ free_ = free \ {b} /\ p_blk' = [u \in {t} |-> b] /\ waiting_ = waiting
           \/ \E b \in Block \ free :
                 \/ /\ waiting = {} /\ waiting_ = {}
                    /\ free_ = free \cup {b} /\ p_blk' = <<>>
                 \/ \E t \in waiting : /\ p_blk' = [u \in {t} |-> b]
                                       /\ waiting_ = waiting \ {t} /\ free_ = free
           \/ free_ = Block /\ waiting_ = {} /\ p_blk' = <<>>

LEMMA MemPoolBasics ==
  ASSUME MemPoolAssumption, ObjectOK(Kind)
  PROVE  /\ mpf \in Wobj /\ Kind[mpf] = "MPF" /\ k \in KernelData /\ QueuesOK(k)
         /\ KernelOK /\ Kinds(k, Kind) /\ PoolTypes /\ Waiters \subseteq Task
         /\ k.wait_queue[mpf] = <<>> <=> Waiters = {}
         /\ TSKCTX => Self \in Task /\ Self \notin Waiters /\ ctx = "TASK"
<1>1. KernelOK /\ IInv /\ mpf \in Wobj /\ Kinds(k, Kind) /\ PoolTypes
  BY TypesOfPool DEF MemPoolAssumption, ObjectOK, KernelOK
<1>2. k \in KernelData /\ QueuesOK(k)
  BY <1>1, SoundNow DEF Sound
<1>3. k.wait_queue[mpf] = <<>> <=> Waiters = {}
  BY <1>1, <1>2, QueueTasks DEF Waiters
<1>4. Kind[mpf] = "MPF"
  BY <1>1 DEF Kind
<1>5. ASSUME TSKCTX PROVE Self \in Task /\ Self \notin Waiters /\ ctx = "TASK"
  <2>1. Self \in Task /\ TSTAT_RUNNABLE(k.tstat[Self]) /\ ctx = "TASK"
    BY <1>1, <1>5, Caller DEF Self
  <2>2. k.tstat[Self] = TS_RUNNABLE
    BY <1>2, <2>1, TstatFacts DEF KernelData
  <2>3. ~TSTAT_WAIT_WOBJ(k.tstat[Self])
    BY <2>2, TstatFacts
  <2> QED BY <2>1, <2>3 DEF Waiters, WaitersOf
<1> QED BY <1>1, <1>2, <1>3, <1>4, <1>5 DEF Waiters, WaitersOf

\* Who waits, as Blocks sees it.
LEMMA BlockWaiters ==
  ASSUME MemPoolAssumption, NEW kk, Kinds(kk, Kind)
  PROVE  {t \in Task : "MPF" \in kk.tstat[t]} = WaitersOf(kk, mpf)
<1>1. mpf \in Wobj /\ Kind[mpf] = "MPF" /\ \A v \in Wobj : v = mpf
  BY DEF MemPoolAssumption, Kind
<1>2. Kind[mpf] \in WaitWobj
  BY <1>1 DEF WaitWobj, WaitWobjcb
<1>3. \A t \in Task : Kind[mpf] \in kk.tstat[t] <=> t \in WaitersOf(kk, mpf)
  BY <1>1, <1>2, FlagTells
<1>4. WaitersOf(kk, mpf) \subseteq Task
  BY DEF WaitersOf
<1> QED BY <1>1, <1>3, <1>4

-----------------------------------------------------------------------------
(* The calls. *)

\* A task takes a block.
LEMMA Gets ==
  ASSUME MemPoolAssumption, ObjectOK(Kind), TSKCTX, Get,
         NEW q, PoolState(pool, giving, p_blk, k, q)
  PROVE  \E r : MemPoolStep(q, r)
<1>1. PoolTypes /\ Self \in Task /\ Self \notin Waiters /\ ctx = "TASK"
  BY MemPoolBasics
<1>2. KernelOK' /\ Kinds(k', Kind) /\ WaitersOf(k', mpf) = Waiters
  BY <1>1, QuietCall, SameWaiters DEF Waiters, Get
<1>3. PoolIs(pool, q) /\ GivingOK(giving, pool, q) /\ giving' = giving
  BY DEF PoolState, Get
<1>4. PICK r : /\ PoolIs(pool', r)
               /\ first_block \in FreeIn(pool, q)
               /\ FreeIn(pool', r) = FreeIn(pool, q) \ {first_block}
  BY <1>1, <1>3, Taken DEF Get
<1>5. p_blk' = [u \in {Self} |-> first_block]
  BY DEF Get, get_mpf_block
<1>6. Waiters = {}
  BY <1>4 DEF PoolState, Waiters
<1>7. GivingOK(giving', pool', r)
  BY <1>3, <1>4 DEF GivingOK
<1>8. PoolState(pool', giving', p_blk', k', r)
  BY <1>1, <1>2, <1>4, <1>6, <1>7 DEF PoolState
<1>9. \E t \in Task : \E b \in FreeIn(pool, q) :
         /\ FreeIn(pool', r) = FreeIn(pool, q) \ {b}
         /\ p_blk' = [u \in {t} |-> b] /\ WaitersOf(k', mpf) = WaitersOf(k, mpf)
  BY <1>1, <1>2, <1>4, <1>5 DEF Waiters
<1> QED BY <1>2, <1>8, <1>9 DEF MemPoolStep

\* The caller waits.
LEMMA WaitsForBlock ==
  ASSUME MemPoolAssumption, ObjectOK(Kind), NEW call, MayWait(call),
         NEW limited \in BOOLEAN, Wait(limited),
         NEW q, PoolState(pool, giving, p_blk, k, q)
  PROVE  MemPoolStep(q, q)
<1> DEFINE ts == {"MPF"}
           k1 == wobj_make_wait_tmout(k, mpf, ts, limited)
<1>1. "MPF" \in WaitWobj \ {"MTX"} /\ "MPF" \in WaitWobjcb
  BY DEF WaitWobj, WaitWobjcb
<1>2. BeginsToWait(k1, mpf, ts, limited)
  BY <1>1, MemPoolBasics DEF BeginsToWait
<1>3. ReturnDispatching(k1) /\ pool.fblkcnt = 0 /\ p_blk' = <<>>
      /\ pool' = pool /\ giving' = giving
  BY DEF Wait
<1>4. ts = {Kind[mpf]}
  BY MemPoolBasics
<1> HIDE DEF k1, ts
<1>5. /\ KernelOK' /\ Kinds(k', Kind) /\ WaitsSince(k', mpf, ts)
      /\ Self \notin Waiters /\ WaitersOf(k', mpf) = Waiters \cup {Self}
  BY <1>2, <1>3, <1>4, WaitCall DEF Waiters
<1>6. FreeIn(pool, q) = {}
  BY <1>3, MemPoolBasics, FreeCounted DEF PoolState
<1>7. PoolState(pool', giving', p_blk', k', q)
  BY <1>3, <1>6 DEF PoolState
<1>8. Self \in Task
  BY <1>5 DEF WaitsSince
<1> QED BY <1>3, <1>5, <1>6, <1>7, <1>8 DEF MemPoolStep, Waiters

\* The pool and who waits are as before, or one task less waits.
LEMMA PoolLeftAlone ==
  ASSUME MemPoolAssumption, ObjectOK(Kind), KernelOK', Kinds(k', Kind),
         NEW q, PoolState(pool, giving, p_blk, k, q), pool' = pool, p_blk' = <<>>,
         GivingOK(giving', pool, q),
         \/ WaitersOf(k', mpf) = WaitersOf(k, mpf)
         \/ \E t \in Task : WaitersOf(k', mpf) = WaitersOf(k, mpf) \ {t}
  PROVE  MemPoolStep(q, q)
<1>1. WaitersOf(k', mpf) \subseteq WaitersOf(k, mpf)
  OBVIOUS
<1>2. PoolState(pool', giving', p_blk', k', q)
  BY <1>1 DEF PoolState
<1>3. \/ /\ WaitersOf(k', mpf) = WaitersOf(k, mpf) /\ p_blk = <<>>
      \/ \E t \in Task : WaitersOf(k', mpf) = WaitersOf(k, mpf) \ {t}
  BY DEF PoolState
<1> QED BY <1>2, <1>3 DEF MemPoolStep

\* A task gives its block back.
LEMMA GivesBack ==
  ASSUME MemPoolAssumption, ObjectOK(Kind), rel_mpf,
         NEW q, PoolState(pool, giving, p_blk, k, q)
  PROVE  \E r : MemPoolStep(q, r)
<1> DEFINE free == FreeIn(pool, q)
<1>0. ctx = "TASK" /\ Self # NULL /\ giving[Self] # INDEX_NULL /\ TSKCTX
  BY DEF rel_mpf, InRelMpf, TSKCTX, Self
<1>1. PoolTypes /\ Self \in Task /\ ctx # "INIT" /\ mpf \in Wobj
  BY <1>0, MemPoolBasics
<1>2. PoolIs(pool, q) /\ GivingOK(giving, pool, q)
  BY DEF PoolState
<1>3. PICK b : b = giving[Self]
  OBVIOUS
<1>4. b \in Block \ free
  BY <1>0, <1>1, <1>2, <1>3 DEF GivingOK
<1>5. giving' = [giving EXCEPT ![Self] = INDEX_NULL]
  BY DEF rel_mpf
<1>6. /\ giving' \in [Task -> Block \cup {INDEX_NULL}]
      /\ giving'[Self] = INDEX_NULL
      /\ \A t \in Task \ {Self} : giving'[t] = giving[t]
      /\ \A t \in Task : giving'[t] # INDEX_NULL => giving'[t] # b
  BY <1>0, <1>1, <1>2, <1>3, <1>5 DEF GivingOK
<1>7. GivingOK(giving', pool, q)
  BY <1>2, <1>6 DEF GivingOK
<1>8. CASE k.wait_queue[mpf] # <<>>
  <2> DEFINE t == Head(k.wait_queue[mpf])
  <2>1. ReturnDispatching(FirstServed(mpf)) /\ pool' = pool /\ p_blk' = [u \in {t} |-> b]
    BY <1>3, <1>8 DEF rel_mpf
  <2>2. /\ KernelOK' /\ Kinds(k', Kind) /\ k'.wobj = k.wobj
        /\ t \in Waiters /\ ~TSTAT_WAIT_WOBJ(k'.tstat[t])
        /\ \A u \in Task \ {t} : k'.tstat[u] = k.tstat[u]
    BY <1>1, <1>8, <2>1, ServeCall DEF Waiters, WaitersOf
  <2>3. WaitersOf(k', mpf) = Waiters \ {t} /\ t \in Task
    BY <2>2 DEF WaitersOf, Waiters
  <2> HIDE DEF t
  <2>4. PoolState(pool', giving', p_blk', k', q)
    BY <1>7, <2>1, <2>2, <2>3 DEF PoolState, Waiters
  <2> QED BY <1>4, <2>1, <2>2, <2>3, <2>4 DEF MemPoolStep, Waiters
<1>9. CASE k.wait_queue[mpf] = <<>>
  <2>1. /\ Return(k) /\ p_blk' = <<>>
        /\ pool' = [pool EXCEPT !.fblkcnt = @ + 1, !.next[b] = pool.freelist,
                                !.freelist = b]
    BY <1>3, <1>9 DEF rel_mpf
  <2>2. KernelOK' /\ Kinds(k', Kind) /\ WaitersOf(k', mpf) = Waiters
    BY <1>1, <2>1, QuietCall, SameWaiters DEF Waiters
  <2>3. PICK r : PoolIs(pool', r) /\ FreeIn(pool', r) = free \cup {b}
    BY <1>1, <1>2, <1>4, <2>1, Returned
  <2>4. Waiters = {}
    BY <1>9, MemPoolBasics
  <2>5. GivingOK(giving', pool', r)
    BY <1>2, <1>6, <1>7, <2>3 DEF GivingOK
  <2>6. PoolState(pool', giving', p_blk', k', r)
    BY <2>1, <2>2, <2>3, <2>4, <2>5 DEF PoolState
  <2> QED BY <1>4, <2>1, <2>2, <2>3, <2>4, <2>6 DEF MemPoolStep, Waiters
<1> QED BY <1>8, <1>9

\* The pool is reinitialized.
LEMMA PoolReset ==
  ASSUME MemPoolAssumption, ObjectOK(Kind), ini_mpf,
         NEW q, PoolState(pool, giving, p_blk, k, q)
  PROVE  \E r : MemPoolStep(q, r)
<1>1. /\ ctx = "TASK" /\ ReturnDispatching(init_wait_queue(k, mpf))
      /\ p_blk' = <<>> /\ giving' = giving /\ \A t \in Task : giving[t] = INDEX_NULL
      /\ pool' = [pool EXCEPT !.fblkcnt = blkcnt, !.unused = 0, !.freelist = INDEX_NULL]
  BY DEF ini_mpf, CHECK_TSKCTX_UNL, TSKCTX
<1>2. /\ KernelOK' /\ Kinds(k', Kind) /\ k'.wait_queue = [k.wait_queue EXCEPT ![mpf] = <<>>]
  BY <1>1, MemPoolBasics, ResetCall
<1>3. k' \in KernelData /\ QueuesOK(k')
  BY <1>2 DEF KernelOK, QueuesOK, WaitQueues, OthersByArrival, IInv, TypeOK
<1>4. k'.wait_queue[mpf] = <<>>
  BY <1>2, MemPoolBasics DEF KernelData
<1>5. WaitersOf(k', mpf) = {}
  BY <1>3, <1>4, MemPoolBasics, QueueTasks
<1>6. PoolTypes /\ PoolIs(pool, q) /\ GivingOK(giving, pool, q)
  BY MemPoolBasics DEF PoolState
<1>7. /\ pool'.next \in [Block -> Block \cup {INDEX_NULL, INDEX_ALLOC}]
      /\ pool' = [fblkcnt |-> blkcnt, unused |-> 0, freelist |-> INDEX_NULL,
                  next |-> pool'.next]
  BY <1>1, <1>6 DEF PoolIs
<1>8. PoolIs(pool', <<>>) /\ FreeIn(pool', <<>>) = Block
  BY <1>6, <1>7, Renewed
<1>9. GivingOK(giving', pool', <<>>)
  BY <1>1, <1>6 DEF GivingOK
<1>10. PoolState(pool', giving', p_blk', k', <<>>)
  BY <1>1, <1>5, <1>8, <1>9 DEF PoolState
<1> QED BY <1>1, <1>2, <1>5, <1>8, <1>10 DEF MemPoolStep

\* The first part of rel_mpf: the task has a block to give back.
LEMMA BeginsToGive ==
  ASSUME MemPoolAssumption, ObjectOK(Kind), NEW b \in Block, rel_mpf_check(b),
         NEW q, PoolState(pool, giving, p_blk, k, q)
  PROVE  MemPoolStep(q, q)
<1>1. /\ giving' = [giving EXCEPT ![Self] = b] /\ p_blk' = <<>> /\ pool' = pool
      /\ k' = k /\ UNCHANGED kvars /\ \A t \in Task : giving[t] # b
      /\ b < pool.unused /\ pool.next[b] = INDEX_ALLOC /\ TSKCTX
  BY DEF rel_mpf_check, kvars, CHECK_TSKCTX_UNL
<1>2. Self \in Task /\ PoolTypes
  BY <1>1, MemPoolBasics
<1>3. PoolIs(pool, q) /\ GivingOK(giving, pool, q)
  BY DEF PoolState
<1>4. b \notin FreeIn(pool, q)
  BY <1>1, <1>2, <1>3, FreeCounted
<1>5. /\ giving' \in [Task -> Block \cup {INDEX_NULL}] /\ giving'[Self] = b
      /\ \A t \in Task \ {Self} : giving'[t] = giving[t]
  BY <1>1, <1>2, <1>3 DEF GivingOK
<1>6. GivingOK(giving', pool, q)
  BY <1>1, <1>3, <1>4, <1>5 DEF GivingOK
<1>7. KernelOK' /\ Kinds(k', Kind)
  BY <1>1, KernelStep
<1> QED BY <1>1, <1>6, <1>7, PoolLeftAlone

\* A call of TaskSystem, or a step of something else.
LEMMA PoolElsewhere ==
  ASSUME MemPoolAssumption, ObjectOK(Kind), [KNext]_kvars, pool' = pool,
         giving' = giving, p_blk' = <<>>,
         NEW q, PoolState(pool, giving, p_blk, k, q)
  PROVE  MemPoolStep(q, q)
<1>1. KernelOK' /\ Kinds(k', Kind) /\ Keeps(k', k)
  BY KernelStep
<1>2. \/ WaitersOf(k', mpf) = WaitersOf(k, mpf)
      \/ \E t \in Task : WaitersOf(k', mpf) = WaitersOf(k, mpf) \ {t}
  BY <1>1, WaitersLeave
<1>3. GivingOK(giving', pool, q)
  BY DEF PoolState
<1> QED BY <1>1, <1>2, <1>3, PoolLeftAlone

LEMMA MemPoolMoves ==
  ASSUME MemPoolAssumption, ObjectOK(Kind), [Next]_vars,
         NEW q, PoolState(pool, giving, p_blk, k, q)
  PROVE  \E r : MemPoolStep(q, r)
<1>1. CASE TaskStep
  BY <1>1, PoolElsewhere DEF TaskStep
<1>2. CASE UNCHANGED vars
  <2>1. UNCHANGED kvars /\ k' = k /\ pool' = pool /\ giving' = giving /\ p_blk' = p_blk
    BY <1>2 DEF vars, kvars
  <2>2. KernelOK' /\ Kinds(k', Kind)
    BY <2>1, KernelStep
  <2>3. PoolState(pool', giving', p_blk', k', q)
    BY <2>1
  <2>4. MemPoolStep(q, q)
    BY <2>1, <2>2, <2>3 DEF MemPoolStep
  <2> QED BY <2>4
<1>3. ASSUME NEW call, CHECK_TSKCTX_UNL(call), Get PROVE \E r : MemPoolStep(q, r)
  BY <1>3, Gets DEF CHECK_TSKCTX_UNL
<1>4. ASSUME NEW call, MayWait(call), NEW b \in BOOLEAN, Get \/ Wait(b)
      PROVE  \E r : MemPoolStep(q, r)
  <2>1. CHECK_TSKCTX_UNL(call)
    BY <1>4 DEF MayWait, CHECK_DISPATCH
  <2> QED BY <1>3, <1>4, <2>1, WaitsForBlock
<1>5. TRUE \in BOOLEAN /\ FALSE \in BOOLEAN
  OBVIOUS
<1>6. CASE get_mpf \/ tget_mpf
  BY <1>4, <1>5, <1>6 DEF get_mpf, tget_mpf
<1>7. CASE pget_mpf
  BY <1>3, <1>7 DEF pget_mpf
<1>8. CASE \E b \in Block : rel_mpf_check(b)
  BY <1>8, BeginsToGive
<1>9. CASE rel_mpf
  BY <1>9, GivesBack
<1>10. CASE ini_mpf
  BY <1>10, PoolReset
<1> QED BY <1>1, <1>2, <1>6, <1>7, <1>8, <1>9, <1>10 DEF Next

\* Every step keeps the invariant and is a step of Blocks.
LEMMA MemPoolNext ==
  ASSUME MemPoolAssumption, MemPoolOK, [Next]_vars
  PROVE  MemPoolOK' /\ [Holders!Next]_(Holders!vars)
<1>1. ObjectOK(Kind) /\ Kinds(k, Kind) /\ PoolTypes
  BY MemPoolBasics DEF MemPoolOK
<1>2. PICK q : PoolState(pool, giving, p_blk, k, q)
  BY DEF MemPoolOK
<1>3. PICK r : MemPoolStep(q, r)
  BY <1>1, <1>2, MemPoolMoves
<1>4. KernelOK' /\ Kinds(k', Kind) /\ PoolState(pool', giving', p_blk', k', r)
  BY <1>3 DEF MemPoolStep
<1>5. ObjectOK(Kind)'
  BY <1>4 DEF ObjectOK, Kinds, Kind
<1>6. (\E u : PoolState(pool, giving, p_blk, k, u))'
  BY <1>4 DEF PoolState, PoolIs, Linked, FreeIn, GivingOK, WaitersOf
<1>7. MemPoolOK'
  BY <1>5, <1>6 DEF MemPoolOK
<1>8. ToSet(FreeList) \cup pool.unused .. blkcnt - 1 = FreeIn(pool, q)
  BY <1>1, <1>2, FreeIs DEF PoolState
<1>9. (ToSet(FreeList) \cup pool.unused .. blkcnt - 1)' = FreeIn(pool', r)
  <2>1. PoolIs(pool', r)
    BY <1>4 DEF PoolState
  <2>2. List(pool'.next, pool'.freelist) = r
    BY <1>1, <2>1, ListIs DEF PoolIs, PoolTypes
  <2>3. r \in Seq(Block) /\ pool'.unused \in 0 .. blkcnt /\ blkcnt \in Nat
    BY <1>1, <2>1 DEF PoolIs, Linked, PoolTypes
  <2>4. \A c : c \in ToSet(r) <=> \E i \in 1 .. Len(r) : r[i] = c
    BY <2>3 DEF ToSet
  <2>5. \A c : c \in ToSet(r) => c \in Block
    BY <2>3, <2>4
  <2>6. \A c : c \in pool'.unused .. blkcnt - 1 <=> c \in Block /\ pool'.unused <= c
    BY <2>3 DEF Block
  <2>7. ToSet(r) \cup pool'.unused .. blkcnt - 1 = FreeIn(pool', r)
    BY <2>4, <2>5, <2>6 DEF FreeIn
  <2>8. FreeList' = r
    BY <2>2 DEF FreeList, List
  <2> QED BY <2>7, <2>8
<1>10. {t \in Task : "MPF" \in k.tstat[t]} = WaitersOf(k, mpf)
  BY <1>1, BlockWaiters
<1>11. {t \in Task : "MPF" \in k.tstat[t]}' = WaitersOf(k', mpf)
  BY <1>4, BlockWaiters
<1> DEFINE free == FreeIn(pool, q)
           free_ == FreeIn(pool', r)
           waiting == WaitersOf(k, mpf)
           waiting_ == WaitersOf(k', mpf)
<1>12. \/ free_ = free /\ waiting_ = waiting /\ p_blk' = p_blk
       \/ \E t \in Task :
             /\ free = {} /\ t \notin waiting /\ waiting_ = waiting \cup {t}
             /\ p_blk' = <<>> /\ free_ = free
       \/ \E t \in Task : waiting_ = waiting \ {t} /\ p_blk' = <<>> /\ free_ = free
       \/ \E t \in Task : \E b \in free :
             /\ free_ = free \ {b} /\ p_blk' = [u \in {t} |-> b] /\ waiting_ = waiting
       \/ \E b \in Block \ free :
             \/ /\ waiting = {} /\ waiting_ = {}
                /\ free_ = free \cup {b} /\ p_blk' = <<>>
             \/ \E t \in waiting : /\ p_blk' = [u \in {t} |-> b]
                                   /\ waiting_ = waiting \ {t} /\ free_ = free
       \/ free_ = Block /\ waiting_ = {} /\ p_blk' = <<>>
  BY <1>3 DEF MemPoolStep
<1>13. free \subseteq Block
  BY DEF FreeIn
<1> HIDE DEF free, free_, waiting, waiting_
<1>14. /\ ToSet(FreeList) \cup pool.unused .. blkcnt - 1 = free
       /\ (ToSet(FreeList) \cup pool.unused .. blkcnt - 1)' = free_
       /\ {t \in Task : "MPF" \in k.tstat[t]} = waiting
       /\ {t \in Task : "MPF" \in k.tstat[t]}' = waiting_
  BY <1>8, <1>9, <1>10, <1>11 DEF free, free_, waiting, waiting_
<1>15. ASSUME free_ = free, waiting_ = waiting, p_blk' = p_blk
       PROVE  UNCHANGED Holders!vars
  BY <1>14, <1>15 DEF Holders!vars
<1>16. ASSUME NEW t \in Task, free = {}, t \notin waiting, waiting_ = waiting \cup {t},
              p_blk' = <<>>, free_ = free
       PROVE  Holders!Next
  <2>1. Holders!Wait(t)
    BY <1>14, <1>16 DEF Holders!Wait
  <2> QED BY <2>1 DEF Holders!Next
<1>17. ASSUME NEW t \in Task, waiting_ = waiting \ {t}, p_blk' = <<>>, free_ = free
       PROVE  Holders!Next
  <2>1. Holders!GiveUp(t)
    BY <1>14, <1>17 DEF Holders!GiveUp
  <2> QED BY <2>1 DEF Holders!Next
<1>18. ASSUME NEW t \in Task, NEW b \in free, free_ = free \ {b},
              p_blk' = [u \in {t} |-> b], waiting_ = waiting
       PROVE  Holders!Next
  <2>1. b \in Block
    BY <1>13
  <2>2. Holders!Get(t, b)
    BY <1>14, <1>18 DEF Holders!Get
  <2> QED BY <2>1, <2>2 DEF Holders!Next
<1>19. ASSUME NEW b \in Block \ free,
              \/ /\ waiting = {} /\ waiting_ = {}
                 /\ free_ = free \cup {b} /\ p_blk' = <<>>
              \/ \E t \in waiting : /\ p_blk' = [u \in {t} |-> b]
                                    /\ waiting_ = waiting \ {t} /\ free_ = free
       PROVE  Holders!Next
  <2>1. Holders!GiveBack(b)
    BY <1>14, <1>19 DEF Holders!GiveBack
  <2> QED BY <2>1 DEF Holders!Next
<1>20. ASSUME free_ = Block, waiting_ = {}, p_blk' = <<>> PROVE Holders!Next
  <2>1. Holders!Reset
    BY <1>14, <1>20 DEF Holders!Reset
  <2> QED BY <2>1 DEF Holders!Next
<1> QED BY <1>7, <1>12, <1>15, <1>16, <1>17, <1>18, <1>19, <1>20

LEMMA MemPoolInit ==
  ASSUME MemPoolAssumption, Init
  PROVE  MemPoolOK /\ Holders!Init
<1>1. ObjectOK(Kind) /\ WaitersOf(k, mpf) = {} /\ Kinds(k, Kind)
  BY InitObject DEF Init, ObjectOK
<1>2. PoolTypes
  BY TypesOfPool
<1>3. /\ pool = [fblkcnt |-> blkcnt, unused |-> 0, freelist |-> INDEX_NULL,
                 next |-> pool.next]
      /\ pool.next \in [Block -> Block \cup {INDEX_NULL, INDEX_ALLOC}]
      /\ giving = [t \in Task |-> INDEX_NULL] /\ p_blk = <<>>
  BY DEF Init
<1>4. PoolIs(pool, <<>>) /\ FreeIn(pool, <<>>) = Block
  BY <1>2, <1>3, Renewed
<1>5. GivingOK(giving, pool, <<>>)
  BY <1>3 DEF GivingOK
<1>6. PoolState(pool, giving, p_blk, k, <<>>)
  BY <1>1, <1>3, <1>4, <1>5 DEF PoolState
<1>7. ToSet(FreeList) \cup pool.unused .. blkcnt - 1 = Block
  BY <1>2, <1>4, FreeIs
<1>8. {t \in Task : "MPF" \in k.tstat[t]} = {}
  BY <1>1, BlockWaiters
<1> QED BY <1>1, <1>3, <1>6, <1>7, <1>8 DEF MemPoolOK, Holders!Init

-----------------------------------------------------------------------------
(* Theorems. *)

\* The count that get_mpf decides by, the list, the marks and the blocks
\* about to be given back agree, and nobody waits while a block is free
\* (mempfix.c).
THEOREM PoolCorrect ==
  ASSUME MemPoolAssumption
  PROVE  Spec => []PoolOK
<1>1. MemPoolOK => PoolOK
  <2> SUFFICES ASSUME MemPoolOK PROVE PoolOK
    OBVIOUS
  <2>1. PoolTypes /\ (k.wait_queue[mpf] = <<>> <=> Waiters = {})
    BY MemPoolBasics DEF MemPoolOK
  <2>2. PICK q : PoolState(pool, giving, p_blk, k, q)
    BY DEF MemPoolOK
  <2>3. PoolIs(pool, q) /\ GivingOK(giving, pool, q)
    BY <2>2 DEF PoolState
  <2>4. FreeList = q
    BY <2>1, <2>3, FreeIs
  <2>5. /\ q \in Seq(Block) /\ IsInjective(q) /\ pool.unused \in 0 .. blkcnt /\ blkcnt \in Nat
        /\ pool.fblkcnt = Len(q) + (blkcnt - pool.unused)
        /\ \A c \in Block : c < pool.unused =>
              (pool.next[c] = INDEX_ALLOC <=> \A i \in 1 .. Len(q) : q[i] # c)
    BY <2>1, <2>3 DEF PoolIs, Linked, PoolTypes
  <2>6. \A c : Contains(q, c) <=> \E i \in 1 .. Len(q) : q[i] = c
    BY <2>5 DEF Contains
  <2>7. \A b \in 0 .. pool.unused - 1 :
           pool.next[b] = INDEX_ALLOC <=> ~Contains(FreeList, b)
    <3> SUFFICES ASSUME NEW b \in 0 .. pool.unused - 1
                 PROVE  pool.next[b] = INDEX_ALLOC <=> ~Contains(q, b)
      BY <2>4
    <3>1. b \in Block /\ b < pool.unused
      BY <2>5 DEF Block
    <3> QED BY <2>5, <2>6, <3>1
  <2>8. \A t \in Task : giving[t] # INDEX_NULL => pool.next[giving[t]] = INDEX_ALLOC
    <3>1. \A c \in Block \ FreeIn(pool, q) : pool.next[c] = INDEX_ALLOC
      BY <2>1, <2>3, FreeCounted
    <3> QED BY <2>3, <3>1 DEF GivingOK
  <2>9. ref_mpf.wtskid # NULL => ref_mpf.fblkcnt = 0
    <3>1. ref_mpf.wtskid # NULL => Waiters # {}
      BY <2>1 DEF ref_mpf, wait_tskid
    <3>2. Waiters # {} => FreeIn(pool, q) = {}
      BY <2>2 DEF PoolState, Waiters
    <3>3. FreeIn(pool, q) = {} => pool.fblkcnt = 0
      BY <2>1, <2>3, FreeCounted
    <3> QED BY <3>1, <3>2, <3>3 DEF ref_mpf
  <2>10. pool.unused <= blkcnt /\ ref_mpf.fblkcnt = Len(FreeList) + (blkcnt - pool.unused)
    BY <2>4, <2>5 DEF ref_mpf
  <2> QED BY <2>4, <2>5, <2>7, <2>8, <2>9, <2>10 DEF PoolOK
<1> QED BY <1>1, MemPoolInit, MemPoolNext, PTL DEF Spec

\* Every block has one holder: what is given to a task is free before, and
\* what is given back goes to one waiting task or is free again, whatever
\* ends the waits of tasks meanwhile (mempfix.c).
THEOREM BlocksImplemented ==
  ASSUME MemPoolAssumption
  PROVE  Spec => ImplementsBlocks
<1> QED BY MemPoolInit, MemPoolNext, PTL DEF Spec, ImplementsBlocks, Holders!Spec
=============================================================================
