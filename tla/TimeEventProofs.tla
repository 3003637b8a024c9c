--------------------------- MODULE TimeEventProofs ---------------------------
(***************************************************************************)
(* Time events, for any numbers of alarms, cyclics and waits, any times,   *)
(* either timer, and any figures that FigureAssumption allows: HeapOK,     *)
(* TimerOK, OnTimeOK, and the refinement of EventTimes.                    *)
(*                                                                         *)
(* The heap is proved with keys that are plain numbers: Ahead, the time of *)
(* an event counted from boundary_evttim.  A search along a branch ends    *)
(* where the event belongs (SiftUp, SiftDown), and the events moved on the *)
(* way, with their p_tmevtn, are those of the heap before (Rearranged).    *)
(*                                                                         *)
(* The inductive invariant IInv says besides that no time is ambiguous:    *)
(* every registered event is so near to the clock (InReach) that a         *)
(* difference modulo EVTTIM_MOD is the difference of the times, also after *)
(* the count is read and the clock and boundary_evttim move on.  For this  *)
(* it bounds what the count can be by when it is read, with the timer that *)
(* was set (Resting) or with signal_time running (Busy), and how far       *)
(* adjustments set the clock back (Behind).                                *)
(*                                                                         *)
(* What a step does to the times is then stated in whole numbers: the time *)
(* left for an event, by how much the clock is late, and the system time   *)
(* are kept (Keeps), or all go on by the same (Passed).  These are the     *)
(* steps of EventTimes.                                                    *)
(***************************************************************************)
EXTENDS TimeEvent, SequenceTheorems, FiniteSetTheorems, TLAPS

-----------------------------------------------------------------------------
(* Sets of numbers. *)

\* A set of natural numbers that is not empty has a smallest member.
LEMMA SmallestNat ==
  ASSUME NEW T \in SUBSET Nat, T # {}
  PROVE  Min(T) \in T /\ \A y \in T : Min(T) <= y
<1> DEFINE R == {ss \in Nat \X Nat : ss[1] < ss[2]}
<1>1. IsWellFoundedOn(R, Nat)
  BY NatLessThanWellFounded DEF OpToRel
<1>2. PICK x \in T : \A y \in T : <<y, x>> \notin R
  <2> HIDE DEF R
  <2> QED BY <1>1, WFMin
<1>3. \A y \in T : x <= y
  <2> SUFFICES ASSUME NEW y \in T, y < x PROVE FALSE
    OBVIOUS
  <2>1. <<y, x>> \in R
    OBVIOUS
  <2> QED BY <1>2, <2>1
<1> QED BY <1>3 DEF Min

\* The greatest of the numbers up to n of which n is one.
LEMMA GreatestOf ==
  ASSUME NEW n \in Nat, NEW s \in SUBSET (1 .. n), n \in s
  PROVE  Max(s) = n
<1>1. \A y \in s : n >= y
  OBVIOUS
<1>2. \A x \in s : (\A y \in s : x >= y) => x = n
  OBVIOUS
<1>3. \E x \in s : \A y \in s : x >= y
  BY <1>1
<1> DEFINE m == CHOOSE x \in s : \A y \in s : x >= y
<1>4. m \in s /\ \A y \in s : m >= y
  <2> HIDE DEF m
  <2> QED BY <1>3 DEF m
<1> QED BY <1>2, <1>4 DEF Max

-----------------------------------------------------------------------------
(* Numbers and branches. *)

\* A set of natural numbers below a bound that is not empty has a greatest one.
LEMMA GreatestNat ==
  ASSUME NEW n \in Nat, NEW T \in SUBSET (0 .. n), T # {}
  PROVE  Max(T) \in T /\ \A y \in T : y <= Max(T)
<1> DEFINE U == {n - x : x \in T}
<1>1. U \in SUBSET Nat /\ U # {}
  <2>1. \A x \in T : x \in 0 .. n /\ n - x \in Nat
    OBVIOUS
  <2>2. U \in SUBSET Nat
    BY <2>1
  <2>3. PICK x \in T : TRUE
    OBVIOUS
  <2>4. n - x \in U
    OBVIOUS
  <2> HIDE DEF U
  <2> QED BY <2>2, <2>4
<1>2. Min(U) \in U /\ \A y \in U : Min(U) <= y
  <2> HIDE DEF U
  <2> QED BY <1>1, SmallestNat
<1>3. PICK x \in T : Min(U) = n - x
  BY <1>2
<1>4. \A y \in T : y <= x
  <2> TAKE y \in T
  <2>1. n - y \in U
    OBVIOUS
  <2>2. n - x <= n - y
    <3> HIDE DEF U
    <3> QED BY <1>2, <1>3, <2>1
  <2> QED BY <2>2
<1>5. Max(T) \in T /\ \A y \in T : Max(T) >= y
  BY <1>3, <1>4, Zenon DEF Max
<1>6. T \subseteq Int
  OBVIOUS
<1> QED BY <1>5, <1>6

\* Branch is the function that its definition says: on the numbers up to m there
\* is one, and only one.
LEMMA BranchNodes ==
  \A n \in Nat : Branch[n] = IF n = 0 THEN {} ELSE {n} \cup Branch[n \div 2]
<1> DEFINE Nodes(g, n) == IF n = 0 THEN {} ELSE {n} \cup g[n \div 2]
           Good(g, m) == \A i \in 0 .. m : g[i] = Nodes(g, i)
<1>0. \A n \in Nat \ {0} : n \div 2 \in 0 .. n - 1
  OBVIOUS
<1>1. \A m \in Nat : \E g : Good(g, m)
  <2> DEFINE T == {m \in Nat : ~ \E g : Good(g, m)}
  <2> SUFFICES ASSUME T # {} PROVE FALSE
    OBVIOUS
  <2> DEFINE m == Min(T)
  <2>1. m \in T /\ \A x \in T : m <= x
    <3> HIDE DEF T
    <3>1. T \in SUBSET Nat
      BY DEF T
    <3> QED BY <3>1, SmallestNat
  <2>2. m \in Nat /\ ~ \E g : Good(g, m)
    BY <2>1
  <2> HIDE DEF m
  <2>3. m # 0
    <3>1. Good([i \in 0 .. 0 |-> {}], 0)
      OBVIOUS
    <3> QED BY <2>2, <3>1
  <2>4. PICK g : Good(g, m - 1)
    <3>1. m - 1 \in Nat /\ ~(m <= m - 1)
      BY <2>2, <2>3
    <3> QED BY <2>1, <3>1
  <2> DEFINE h == [i \in 0 .. m |-> IF i = m THEN {m} \cup g[m \div 2] ELSE g[i]]
  <2>5. \A i \in 0 .. m : h[i] = Nodes(h, i)
    <3> TAKE i \in 0 .. m
    <3>1. CASE i = m
      <4>1. m \div 2 \in 0 .. m - 1
        BY <1>0, <2>2, <2>3
      <4>2. h[m \div 2] = g[m \div 2] /\ h[m] = {m} \cup g[m \div 2]
        BY <2>2, <4>1
      <4> HIDE DEF h
      <4> QED BY <2>3, <3>1, <4>2
    <3>2. CASE i # m
      <4>1. i \in 0 .. m - 1 /\ h[i] = g[i] /\ g[i] = Nodes(g, i)
        <5>1. i \in 0 .. m - 1
          BY <2>2, <3>2
        <5>2. h[i] = g[i]
          BY <3>2
        <5>3. g[i] = Nodes(g, i)
          BY <2>4, <5>1
        <5> HIDE DEF h, Nodes
        <5> QED BY <5>1, <5>2, <5>3
      <4>2. i # 0 => i \div 2 \in 0 .. m - 1 /\ i \div 2 # m /\ i \div 2 \in 0 .. m
        BY <1>0, <2>2, <4>1
      <4>3. i # 0 => h[i \div 2] = g[i \div 2]
        BY <4>2
      <4> HIDE DEF h
      <4> QED BY <4>1, <4>3
    <3> QED BY <3>1, <3>2
  <2> HIDE DEF h
  <2> QED BY <2>2, <2>5
<1>2. ASSUME NEW g, NEW h, NEW m \in Nat, NEW k \in Nat, Good(g, m), Good(h, k)
      PROVE  \A i \in Nat : i <= m /\ i <= k => g[i] = h[i]
  <2> DEFINE T == {i \in Nat : i <= m /\ i <= k /\ g[i] # h[i]}
  <2> SUFFICES ASSUME T # {} PROVE FALSE
    OBVIOUS
  <2> DEFINE i == Min(T)
  <2>1. i \in T /\ \A x \in T : i <= x
    <3> HIDE DEF T
    <3>1. T \in SUBSET Nat
      BY DEF T
    <3> QED BY <3>1, SmallestNat
  <2>2. i \in Nat /\ i <= m /\ i <= k /\ g[i] # h[i]
    BY <2>1
  <2> HIDE DEF i
  <2>3. i \in 0 .. m /\ i \in 0 .. k
    BY <2>2
  <2>4. g[i] = Nodes(g, i) /\ h[i] = Nodes(h, i)
    BY <1>2, <2>3
  <2>5. i # 0
    BY <2>2, <2>4
  <2>6. i \div 2 \in Nat /\ i \div 2 <= m /\ i \div 2 <= k /\ ~(i <= i \div 2)
    BY <1>0, <2>2, <2>5
  <2>7. g[i \div 2] = h[i \div 2]
    BY <2>1, <2>6
  <2> QED BY <2>2, <2>4, <2>7
<1> DEFINE gg == [n \in Nat |-> CHOOSE g : Good(g, n)]
           f == [n \in Nat |-> gg[n][n]]
<1>3. \A n \in Nat : Good(gg[n], n)
  <2> HIDE DEF Good
  <2> QED BY <1>1
<1>4. f = [n \in Nat |-> Nodes(f, n)]
  <2> SUFFICES ASSUME NEW n \in Nat PROVE f[n] = Nodes(f, n)
    <3>1. f = [n \in Nat |-> f[n]]
      OBVIOUS
    <3> HIDE DEF f, Nodes
    <3> QED BY <3>1
  <2>1. f[n] = gg[n][n] /\ gg[n][n] = Nodes(gg[n], n)
    <3>1. n \in 0 .. n
      OBVIOUS
    <3> HIDE DEF gg
    <3> QED BY <1>3, <3>1
  <2>2. CASE n = 0
    BY <2>1, <2>2
  <2>3. CASE n # 0
    <3> DEFINE d == n \div 2
    <3>1. d \in Nat /\ d <= d /\ d <= n
      BY <1>0, <2>3
    <3> HIDE DEF d, gg, Good
    <3>2. gg[n][d] = gg[d][d]
      BY <1>2, <1>3, <3>1
    <3>3. f[d] = gg[d][d]
      BY <3>1
    <3> HIDE DEF f
    <3> QED BY <2>1, <2>3, <3>2, <3>3 DEF d
  <2> QED BY <2>2, <2>3
<1>5. Branch = [n \in Nat |-> Nodes(Branch, n)]
  <2>1. Branch = CHOOSE b : b = [n \in Nat |-> Nodes(b, n)]
    BY DEF Branch, PARENT
  <2> HIDE DEF f, Nodes
  <2> QED BY <1>4, <2>1
<1> QED BY <1>5

\* What a branch looks like: it ends at the top, with every node it has its
\* parent, and of the nodes of a branch one is above the other.
BranchOK(n) ==
    LET b == Branch[n] IN
    /\ b \subseteq 1 .. n
    /\ n # 0 => n \in b /\ 1 \in b
    /\ \A i \in b : /\ i # 1 => i \div 2 \in b
                    /\ i # n => \E c \in b : c \div 2 = i
                    /\ \A j \in b : i < j => i <= j \div 2

\* What the branch of every node is.
LEMMA Branches == \A n \in Nat : BranchOK(n)
<1> DEFINE T == {n \in Nat : ~BranchOK(n)}
<1> SUFFICES ASSUME T # {} PROVE FALSE
  OBVIOUS
<1> DEFINE n == Min(T)
<1>1. n \in T /\ \A x \in T : n <= x
  <2> HIDE DEF T
  <2>1. T \in SUBSET Nat
    BY DEF T
  <2> QED BY <2>1, SmallestNat
<1>2. n \in Nat /\ ~BranchOK(n)
  BY <1>1
<1> HIDE DEF n
<1>3. n # 0
  <2>1. Branch[0] = {}
    BY BranchNodes
  <2> QED BY <1>2, <2>1 DEF BranchOK
<1> DEFINE p == n \div 2
           b == Branch[n]
           a == Branch[p]
<1>4. p \in Nat /\ p < n /\ BranchOK(p)
  <2>1. p \in Nat /\ p < n /\ ~(n <= p)
    BY <1>2, <1>3
  <2> QED BY <1>1, <2>1
<1>5. b = {n} \cup a
  BY <1>2, <1>3, BranchNodes
<1>6. /\ a \subseteq 1 .. p
      /\ p # 0 => p \in a /\ 1 \in a
      /\ \A i \in a : /\ i # 1 => i \div 2 \in a
                      /\ i # p => \E c \in a : c \div 2 = i
                      /\ \A j \in a : i < j => i <= j \div 2
  BY <1>4 DEF BranchOK
<1>7. p = 0 => n = 1 /\ a = {}
  <2>1. p = 0 => n = 1
    BY <1>2, <1>3
  <2>2. Branch[0] = {}
    BY BranchNodes
  <2> QED BY <2>1, <2>2
<1>8. b \subseteq 1 .. n
  BY <1>2, <1>3, <1>4, <1>5, <1>6
<1>9. n \in b /\ 1 \in b
  BY <1>5, <1>6, <1>7
<1>10. ASSUME NEW i \in b PROVE i # 1 => i \div 2 \in b
  BY <1>5, <1>6, <1>7
<1>11. ASSUME NEW i \in b, i # n PROVE \E c \in b : c \div 2 = i
  <2>1. CASE i = p
    BY <1>9, <2>1
  <2>2. CASE i # p
    BY <1>5, <1>6, <1>11, <2>2
  <2> QED BY <2>1, <2>2
<1>12. ASSUME NEW i \in b, NEW j \in b, i < j PROVE i <= j \div 2
  <2>1. CASE j = n
    <3>1. i \in a
      BY <1>5, <1>8, <1>12, <2>1
    <3> QED BY <1>6, <2>1, <3>1, <1>4
  <2>2. CASE j # n
    <3>1. j \in a /\ i # n
      BY <1>2, <1>4, <1>5, <1>6, <1>12, <2>2
    <3> QED BY <1>5, <1>6, <1>12, <3>1
  <2> QED BY <2>1, <2>2
<1> HIDE DEF a, p
<1> QED BY <1>2, <1>8, <1>9, <1>10, <1>11, <1>12 DEF BranchOK

-----------------------------------------------------------------------------
(* The way of the hole, K giving the time of every event. *)

\* The order of the heap h, but for the hole at node a.
HoleOrder(h, K, a) ==
    /\ \A n \in 2 .. Len(h) : n # a /\ n \div 2 # a => K[h[n \div 2]] <= K[h[n]]
    /\ a # 1 => \A n \in 2 .. Len(h) : n \div 2 = a => K[h[a \div 2]] <= K[h[n]]

\* Nodes a hole leaves on its way up and down.
WayUp(a, b)   == {n \in Branch[a] : n > b}
WayDown(a, b) == {n \in Branch[b] : a <= n /\ n < b}

\* The child of n on a branch.
Below(n, b) == CHOOSE c \in Branch[b] : c \div 2 = n

\* The node below b on the way up from another.
LEMMA BelowIs ==
  ASSUME NEW b \in Nat, NEW n \in Branch[b], n # b
  PROVE  /\ Below(n, b) \in Branch[b] /\ Below(n, b) \div 2 = n
         /\ \A c \in Branch[b] : c \div 2 = n => c = Below(n, b)
<1> DEFINE d == Below(n, b)
           s == Branch[b]
<1>1. /\ s \subseteq 1 .. b
      /\ \E c \in s : c \div 2 = n
      /\ \A i \in s : \A j \in s : i < j => i <= j \div 2
  BY Branches DEF BranchOK
<1>2. d \in s /\ d \div 2 = n
  BY <1>1, Zenon DEF Below
<1> HIDE DEF d, s
<1>3. ASSUME NEW c \in s, c \div 2 = n PROVE c = d
  <2>1. c \in Nat /\ d \in Nat /\ c # 0 /\ d # 0
    BY <1>1, <1>2
  <2>2. ~(c < d)
    BY <1>1, <1>2, <1>3, <2>1
  <2>3. ~(d < c)
    BY <1>1, <1>2, <1>3, <2>1
  <2> QED BY <2>1, <2>2, <2>3
<1> QED BY <1>2, <1>3 DEF d, s

\* No child of node a is earlier than the event m.
Leads(h, K, m, a) == \A n \in 2 .. Len(h) : n \div 2 = a => K[m] <= K[h[n]]

\* Where the search upward ends.
FoundUp(h, K, m, a, b) ==
    /\ b \in Branch[a]
    /\ b = 1 \/ K[h[b \div 2]] <= K[m]
    /\ \A c \in Branch[a] : c > b => K[m] < K[h[c \div 2]]

\* Where the search downward ends.
FoundDown(h, K, m, a, b) ==
    /\ b \in 1 .. Len(h) /\ a \in Branch[b]
    /\ \A c \in Branch[b] : c > a =>
            /\ K[h[c]] < K[m]
            /\ \A n \in 2 .. Len(h) : n \div 2 = c \div 2 => K[h[c]] <= K[h[n]]
    /\ \A n \in 2 .. Len(h) : n \div 2 = b => K[m] <= K[h[n]]

\* The heap g after m has gone from the hole at a up to b, or down.
MovedUp(g, h, m, a, b) ==
    \A n \in 1 .. Len(h) : g[n] = IF n = b THEN m
                                   ELSE IF n \in WayUp(a, b) THEN h[n \div 2] ELSE h[n]

MovedDown(g, h, m, a, b) ==
    \A n \in 1 .. Len(h) : g[n] = IF n = b THEN m
                                   ELSE IF n \in WayDown(a, b) THEN h[Below(n, b)] ELSE h[n]

\* The first N nodes are in order.
OrderedBy(g, K, N) == \A n \in 2 .. N : K[g[n \div 2]] <= K[g[n]]

\* An event goes up until it is in order.
LEMMA SiftUp ==
  ASSUME NEW h \in Seq(Event), NEW K \in [Event -> Int], NEW m \in Event,
         NEW a \in 1 .. Len(h), NEW b, HoleOrder(h, K, a), FoundUp(h, K, m, a, b),
         b = a => Leads(h, K, m, a), NEW g, MovedUp(g, h, m, a, b)
  PROVE  OrderedBy(g, K, Len(h))
<1> USE DEF FoundUp, Leads, MovedUp, OrderedBy
<1> DEFINE N == Len(h)
           S == Branch[a]
<1>1. /\ N \in Nat /\ a \in Nat /\ S \subseteq 1 .. a
      /\ \A i \in S : i # 1 => i \div 2 \in S
      /\ \A i \in S : \A j \in S : i < j => i <= j \div 2
      /\ a \in S /\ b \in 1 .. a /\ b \in S
  BY Branches DEF BranchOK
<1>2. \A n \in 1 .. N : h[n] \in Event /\ K[h[n]] \in Int
  OBVIOUS
<1>3. K[m] \in Int
  OBVIOUS
<1>4. \A n \in 2 .. N : n \div 2 \in 1 .. N /\ n \div 2 < n
  BY <1>1
<1>5. \A n \in 1 .. N : n \in WayUp(a, b) <=> n \in S /\ n > b
  BY DEF WayUp
<1>6. /\ \A n \in 2 .. N : n # a /\ n \div 2 # a => K[h[n \div 2]] <= K[h[n]]
      /\ a # 1 => \A n \in 2 .. N : n \div 2 = a => K[h[a \div 2]] <= K[h[n]]
  BY DEF HoleOrder
<1> HIDE DEF N, S
<1> SUFFICES ASSUME NEW n \in 2 .. N PROVE K[g[n \div 2]] <= K[g[n]]
  BY DEF N
<1> DEFINE p == n \div 2
<1>7. p \in 1 .. N /\ p < n /\ n \in 1 .. N /\ n \in Nat /\ p \in Nat
  BY <1>1, <1>4
<1>8. /\ g[n] = IF n = b THEN m ELSE IF n \in S /\ n > b THEN h[p] ELSE h[n]
      /\ g[p] = IF p = b THEN m ELSE IF p \in S /\ p > b THEN h[p \div 2] ELSE h[p]
  BY <1>5, <1>7 DEF N
<1>9. ASSUME n \in S, n > b PROVE p \in S /\ p >= b
  <2>1. n # 1 /\ b < n
    BY <1>1, <1>9
  <2> QED BY <1>1, <1>9, <2>1
<1>10. p > b => p \in 2 .. N /\ p \div 2 \in 1 .. N
  BY <1>1, <1>4, <1>7
<1> HIDE DEF p
<1>11. CASE n = b
  <2>1. b # 1 /\ p < b /\ ~(p = b) /\ ~(p > b) /\ p = b \div 2
    BY <1>7, <1>11 DEF p
  <2>2. g[n] = m /\ g[p] = h[b \div 2]
    BY <1>8, <1>11, <2>1
  <2> QED BY <2>1, <2>2 DEF p
<1>12. CASE n \in S /\ n > b
  <2>1. CASE p = b
    <3>1. g[p] = m /\ g[n] = h[p] /\ K[m] < K[h[p]]
      BY <1>7, <1>8, <1>12, <2>1 DEF p, S
    <3> QED BY <1>2, <1>3, <1>7, <3>1 DEF p
  <2>2. CASE p # b
    <3>1. p \in S /\ p > b
      BY <1>1, <1>7, <1>9, <1>12, <2>2
    <3>2. g[p] = h[p \div 2] /\ g[n] = h[p]
      BY <1>7, <1>8, <1>12, <2>2, <3>1
    <3>3. p # a /\ p \div 2 # a
      BY <1>1, <1>7, <1>12, <1>4, <1>10, <3>1
    <3> QED BY <1>6, <1>10, <3>1, <3>2, <3>3 DEF p
  <2> QED BY <2>1, <2>2
<1>13. CASE n # b /\ ~(n \in S /\ n > b)
  <2>0. g[n] = h[n] /\ (b # a => n # a)
    BY <1>1, <1>8, <1>13
  <2>1. CASE p = b
    <3>1. g[p] = m
      BY <1>8, <2>1
    <3>2. CASE b = a
      BY <1>7, <2>0, <2>1, <3>1, <3>2 DEF p, N
    <3>3. CASE b # a
      <4>1. PICK c \in S : c \div 2 = b
        <5>1. b \in S /\ \A i \in Branch[a] : i # a => \E c \in Branch[a] : c \div 2 = i
          BY <1>1, Branches DEF BranchOK, S
        <5> QED BY <3>3, <5>1 DEF S
      <4>2. c > b /\ K[m] < K[h[b]]
        <5>1. c > b
          BY <1>1, <4>1
        <5> QED BY <4>1, <5>1 DEF S
      <4>3. K[h[p]] <= K[h[n]]
        BY <1>6, <2>0, <2>1, <3>3 DEF p
      <4> QED BY <1>2, <1>3, <1>7, <2>0, <2>1, <3>1, <4>2, <4>3 DEF p
    <3> QED BY <3>2, <3>3
  <2>2. CASE p \in S /\ p > b
    <3>1. g[p] = h[p \div 2] /\ p \in 2 .. N /\ p \div 2 \in 1 .. N
      BY <1>1, <1>7, <1>8, <1>10, <2>2
    <3>2. CASE p = a
      <4>1. K[h[a \div 2]] <= K[h[n]]
        BY <1>1, <1>6, <2>2, <3>2 DEF p
      <4> QED BY <2>0, <3>1, <3>2, <4>1 DEF p
    <3>3. CASE p # a
      <4>1. p \div 2 # a /\ n # a
        BY <1>1, <1>4, <2>2, <1>13, <3>1
      <4>2. K[h[p \div 2]] <= K[h[p]] /\ K[h[p]] <= K[h[n]]
        BY <1>6, <3>1, <3>3, <4>1 DEF p
      <4> QED BY <1>2, <1>7, <2>0, <3>1, <4>2 DEF p
    <3> QED BY <3>2, <3>3
  <2>3. CASE p # b /\ ~(p \in S /\ p > b)
    <3>1. g[p] = h[p] /\ n # a /\ p # a
      BY <1>1, <1>8, <1>13, <2>3
    <3> QED BY <1>6, <2>0, <3>1 DEF p
  <2> QED BY <2>1, <2>2, <2>3
<1> QED BY <1>1, <1>7, <1>11, <1>12, <1>13

\* An event goes down until it is in order, always to the earlier child.
LEMMA SiftDown ==
  ASSUME NEW h \in Seq(Event), NEW K \in [Event -> Int], NEW m \in Event,
         NEW a \in 1 .. Len(h), NEW b, HoleOrder(h, K, a), FoundDown(h, K, m, a, b),
         a = 1 \/ K[h[a \div 2]] <= K[m], NEW g, MovedDown(g, h, m, a, b)
  PROVE  OrderedBy(g, K, Len(h))
<1> USE DEF FoundDown, MovedDown, OrderedBy
<1> DEFINE N == Len(h)
           S == Branch[b]
           D == [n \in S |-> Below(n, b)]
<1>1. /\ N \in Nat /\ a \in Nat /\ b \in Nat /\ S \subseteq 1 .. b /\ b <= N
      /\ \A i \in S : i # 1 => i \div 2 \in S
      /\ \A i \in S : \A j \in S : i < j => i <= j \div 2
      /\ b \in S /\ a \in 1 .. b /\ a \in S
  BY Branches DEF BranchOK
<1>2. \A n \in 1 .. N : h[n] \in Event /\ K[h[n]] \in Int
  OBVIOUS
<1>3. K[m] \in Int
  OBVIOUS
<1>4. \A n \in 2 .. N : n \div 2 \in 1 .. N /\ n \div 2 < n
  BY <1>1
<1>5. \A n \in 1 .. N : n \in WayDown(a, b) <=> n \in S /\ a <= n /\ n < b
  BY DEF WayDown
<1>6. /\ \A n \in 2 .. N : n # a /\ n \div 2 # a => K[h[n \div 2]] <= K[h[n]]
      /\ a # 1 => \A n \in 2 .. N : n \div 2 = a => K[h[a \div 2]] <= K[h[n]]
  BY DEF HoleOrder
<1>7. \A n \in S : n # b => /\ D[n] \in S /\ D[n] \div 2 = n
                            /\ \A c \in S : c \div 2 = n => c = D[n]
  BY <1>1, BelowIs
<1>8. \A c \in S : c > a => /\ K[h[c]] < K[m]
                            /\ \A n \in 2 .. N : n \div 2 = c \div 2 => K[h[c]] <= K[h[n]]
  OBVIOUS
<1>9. \A n \in 1 .. N : g[n] = IF n = b THEN m
                               ELSE IF n \in S /\ a <= n /\ n < b THEN h[D[n]] ELSE h[n]
  BY <1>5
<1>10. \A n \in 2 .. N : n \div 2 = b => K[m] <= K[h[n]]
  OBVIOUS
<1> HIDE DEF N, S, D
<1> SUFFICES ASSUME NEW n \in 2 .. N PROVE K[g[n \div 2]] <= K[g[n]]
  BY DEF N
<1> DEFINE p == n \div 2
           c == D[n]
<1>11. p \in 1 .. N /\ p < n /\ n \in 1 .. N /\ n \in Nat /\ p \in Nat
  BY <1>1, <1>4
<1>0. \A x \in Nat : \A y \in Nat \ {0} : x \div 2 = y => x > y
  OBVIOUS
<1>12. ASSUME n \in S, a <= n, n < b
       PROVE  c \in S /\ c \div 2 = n /\ c > n /\ c \in 2 .. N
  <2>1. n # b
    BY <1>12, <1>1
  <2>2. c \in S /\ c \div 2 = n
    BY <1>7, <1>12, <2>1
  <2> HIDE DEF c
  <2>3. c \in 1 .. N
    BY <1>1, <2>2
  <2> QED BY <1>0, <1>11, <2>2, <2>3
<1>13. n \in S => p \in S \/ n = 1
  BY <1>1, <1>11
<1>14. /\ g[n] = IF n = b THEN m ELSE IF n \in S /\ a <= n /\ n < b THEN h[c] ELSE h[n]
       /\ g[p] = IF p = b THEN m ELSE IF p \in S /\ a <= p /\ p < b THEN h[D[p]] ELSE h[p]
  BY <1>9, <1>11
<1> HIDE DEF p, c
<1>15. CASE n = b
  <2>1. CASE a = b
    <3>1. p < a /\ a # 1 /\ p = a \div 2
      BY <1>11, <1>15, <2>1 DEF p
    <3>2. g[n] = m /\ g[p] = h[a \div 2]
      BY <1>1, <1>11, <1>14, <1>15, <2>1, <3>1
    <3> QED BY <3>1, <3>2 DEF p
  <2>2. CASE a # b
    <3>1. p \in S /\ a <= p /\ p < b
      BY <1>1, <1>11, <1>13, <1>15, <2>2 DEF p
    <3>2. D[p] = b
      BY <1>1, <1>7, <1>15, <3>1 DEF p
    <3>3. g[n] = m /\ g[p] = h[b]
      BY <1>14, <1>15, <3>1, <3>2
    <3>4. K[h[b]] < K[m]
      BY <1>1, <1>8, <2>2
    <3>5. K[h[b]] \in Int
      BY <1>1, <1>2
    <3> QED BY <1>3, <3>3, <3>4, <3>5 DEF p
  <2> QED BY <2>1, <2>2
<1>16. CASE n # b /\ n \in S /\ a <= n /\ n < b
  <2>1. g[n] = h[c] /\ c \in S /\ c \div 2 = n /\ c > n /\ c \in 2 .. N
    BY <1>12, <1>14, <1>16
  <2>2. CASE n = a
    <3>1. g[p] = h[a \div 2] /\ a # 1
      BY <1>1, <1>11, <1>14, <2>2 DEF p
    <3>2. K[h[a \div 2]] <= K[h[c]]
      BY <1>6, <2>1, <2>2, <3>1
    <3> QED BY <2>1, <3>1, <3>2 DEF p
  <2>3. CASE n # a
    <3>1. p \in S /\ a <= p /\ p < b
      BY <1>1, <1>11, <1>13, <1>16, <2>3 DEF p
    <3>2. D[p] = n
      BY <1>1, <1>7, <1>16, <3>1 DEF p
    <3>3. g[p] = h[n]
      BY <1>1, <1>14, <3>1, <3>2, <1>11
    <3>4. K[h[n]] <= K[h[c]]
      <4>1. c # a
        BY <1>1, <1>11, <1>16, <2>1
      <4>2. c \div 2 # a
        BY <2>1, <2>3
      <4> QED BY <1>6, <2>1, <4>1, <4>2
    <3> QED BY <2>1, <3>3, <3>4 DEF p
  <2> QED BY <2>2, <2>3
<1>17. CASE n # b /\ ~(n \in S /\ a <= n /\ n < b)
  <2>1. g[n] = h[n] /\ n # a
    BY <1>1, <1>14, <1>17
  <2>2. CASE p = b
    <3>1. g[p] = m /\ K[m] <= K[h[n]]
      BY <1>10, <1>14, <2>2 DEF p
    <3> QED BY <2>1, <3>1 DEF p
  <2>3. CASE p # b /\ p \in S /\ a <= p /\ p < b
    <3>1. g[p] = h[D[p]] /\ D[p] \in S /\ D[p] \div 2 = p
      BY <1>7, <1>14, <2>3
    <3>2. D[p] > a
      <4>1. D[p] \in Nat /\ p \in Nat \ {0}
        <5>1. D[p] \in 1 .. b
          BY <1>1, <3>1
        <5> QED BY <1>1, <1>11, <5>1
      <4>2. D[p] > p
        BY <1>0, <3>1, <4>1
      <4>3. a \in Nat /\ a <= p
        BY <1>1, <2>3
      <4> QED BY <4>1, <4>2, <4>3
    <3>3. K[h[D[p]]] <= K[h[n]]
      BY <1>8, <3>1, <3>2 DEF p
    <3> QED BY <2>1, <3>1, <3>3 DEF p
  <2>4. CASE p # b /\ ~(p \in S /\ a <= p /\ p < b)
    <3>1. g[p] = h[p] /\ p # a
      BY <1>1, <1>14, <2>4
    <3> QED BY <1>6, <2>1, <3>1 DEF p
  <2> QED BY <2>2, <2>3, <2>4
<1> QED BY <1>1, <1>11, <1>15, <1>16, <1>17

-----------------------------------------------------------------------------
(* The operations on the heap, as changes of the record. *)

\* The fields of the data section.
Fields == {"tmevt_heap", "p_tmevtn", "evttim", "boundary_evttim", "current_evttim",
           "monotonic_evttim", "systim_offset", "in_signal_time", "started",
           "hrtcnt_advance", "hrt_event"}

\* A data section whose heap holds events.
IsStore(t) ==
    /\ DOMAIN t = Fields
    /\ t.tmevt_heap \in Seq(Event)
    /\ t.evttim \in [Event -> Evttim]
    /\ t.boundary_evttim \in Evttim

\* The heap is all that an operation on it changes.
HeapOnly(r, t) ==
    /\ DOMAIN r = Fields
    /\ r.evttim = t.evttim /\ r.boundary_evttim = t.boundary_evttim
    /\ r.current_evttim = t.current_evttim /\ r.monotonic_evttim = t.monotonic_evttim
    /\ r.systim_offset = t.systim_offset /\ r.in_signal_time = t.in_signal_time
    /\ r.started = t.started
    /\ r.hrtcnt_advance = t.hrtcnt_advance /\ r.hrt_event = t.hrt_event

\* The data section with another heap, and other nodes of its events.
Changed(t, h, p) == [t EXCEPT !.tmevt_heap = h, !.p_tmevtn = p]

\* Such a change is one of the heap only.
LEMMA HeapOnlyOf ==
  ASSUME NEW t, DOMAIN t = Fields, NEW h, NEW p
  PROVE  /\ HeapOnly(Changed(t, h, p), t)
         /\ Changed(t, h, p).tmevt_heap = h /\ Changed(t, h, p).p_tmevtn = p
BY DEF Fields, HeapOnly, Changed

\* Two changes of the heap are one.
LEMMA HeapOnlyTwice ==
  ASSUME NEW t, NEW r, NEW s, HeapOnly(r, t), HeapOnly(s, r)
  PROVE  HeapOnly(s, t)
BY DEF HeapOnly

\* A change of the heap leaves a data section.
LEMMA StillStore ==
  ASSUME NEW t, NEW r, IsStore(t), HeapOnly(r, t), r.tmevt_heap \in Seq(Event)
  PROVE  IsStore(r)
BY DEF IsStore, HeapOnly

\* r is t with the event of node f[n] in node n, for all nodes of the way that f
\* describes, and event m in node b.
Into(h, f, e) == {n \in DOMAIN f : h[f[n]] = e}

Rearranged(r, t, b, m, f) ==
    /\ HeapOnly(r, t)
    /\ r.tmevt_heap \in Seq(Event) /\ Len(r.tmevt_heap) = Len(t.tmevt_heap)
    /\ \A n \in 1 .. Len(t.tmevt_heap) :
          r.tmevt_heap[n] = IF n = b THEN m
                            ELSE IF n \in DOMAIN f THEN t.tmevt_heap[f[n]] ELSE t.tmevt_heap[n]
    /\ r.p_tmevtn = [e \in DOMAIN t.p_tmevtn \cup {m} |->
                        IF e = m THEN b
                        ELSE IF Into(t.tmevt_heap, f, e) = {} THEN t.p_tmevtn[e]
                        ELSE Max(Into(t.tmevt_heap, f, e))]

FromUp(a, b)   == [n \in WayUp(a, b) |-> n \div 2]
FromDown(a, b) == [n \in WayDown(a, b) |-> Below(n, b)]

\* Place as a change of the record.
Placed(r, s, n, e) ==
    /\ HeapOnly(r, s)
    /\ r.tmevt_heap = [s.tmevt_heap EXCEPT ![n] = e]
    /\ r.p_tmevtn = [x \in DOMAIN s.p_tmevtn \cup {e} |-> IF x = e THEN n ELSE s.p_tmevtn[x]]

\* What Place makes of the heap.
LEMMA Places ==
  ASSUME NEW s, DOMAIN s = Fields, NEW n, NEW e
  PROVE  Placed(Place(s, n, e), s, n, e)
<1> DEFINE h == [s.tmevt_heap EXCEPT ![n] = e]
           p == [x \in DOMAIN s.p_tmevtn \cup {e} |-> IF x = e THEN n ELSE s.p_tmevtn[x]]
           r == Changed(s, h, p)
<1>1. Place(s, n, e) = r
  BY DEF Place, Changed
<1> HIDE DEF h, p
<1>2. HeapOnly(r, s) /\ r.tmevt_heap = h /\ r.p_tmevtn = p
  BY HeapOnlyOf
<1> HIDE DEF r
<1> QED BY <1>1, <1>2 DEF Placed, h, p

\* Slide, for a way described by f.
Slid(r, t, f) ==
    /\ HeapOnly(r, t)
    /\ r.tmevt_heap = [n \in 1 .. Len(t.tmevt_heap) |->
                          IF n \in DOMAIN f THEN t.tmevt_heap[f[n]] ELSE t.tmevt_heap[n]]
    /\ r.p_tmevtn = [e \in DOMAIN t.p_tmevtn |->
                        IF Into(t.tmevt_heap, f, e) = {} THEN t.p_tmevtn[e]
                        ELSE Max(Into(t.tmevt_heap, f, e))]

IsWay(f, t) ==
    /\ DOMAIN f \subseteq 1 .. Len(t.tmevt_heap)
    /\ \A n \in DOMAIN f : f[n] \in 1 .. Len(t.tmevt_heap)

\* A slide and a place rearrange the heap.
LEMMA SlideAndPlace ==
  ASSUME NEW t, IsStore(t), NEW s, NEW f, Slid(s, t, f), IsWay(f, t),
         NEW b \in 1 .. Len(t.tmevt_heap), NEW m \in Event
  PROVE  Rearranged(Place(s, b, m), t, b, m, f)
<1> DEFINE r == Place(s, b, m)
           h == t.tmevt_heap
           N == Len(h)
<1>1. h \in Seq(Event) /\ N \in Nat
  BY DEF IsStore
<1>2. HeapOnly(s, t) /\ s.tmevt_heap = [n \in 1 .. N |-> IF n \in DOMAIN f THEN h[f[n]] ELSE h[n]]
  BY DEF Slid
<1>3. /\ HeapOnly(r, s) /\ r.tmevt_heap = [s.tmevt_heap EXCEPT ![b] = m]
      /\ r.p_tmevtn = [x \in DOMAIN s.p_tmevtn \cup {m} |-> IF x = m THEN b ELSE s.p_tmevtn[x]]
  <2>1. DOMAIN s = Fields
    BY <1>2 DEF HeapOnly
  <2>2. Placed(r, s, b, m)
    BY <2>1, Places
  <2> QED BY <2>2 DEF Placed
<1> HIDE DEF r
<1>4. HeapOnly(r, t)
  BY <1>2, <1>3, HeapOnlyTwice
<1>5. r.tmevt_heap = [n \in 1 .. N |-> IF n = b THEN m ELSE IF n \in DOMAIN f THEN h[f[n]] ELSE h[n]]
  BY <1>2, <1>3
<1>6. r.tmevt_heap \in [1 .. N -> Event]
  <2>1. \A n \in 1 .. N : (IF n = b THEN m ELSE IF n \in DOMAIN f THEN h[f[n]] ELSE h[n]) \in Event
    BY <1>1 DEF IsWay
  <2> QED BY <1>5, <2>1
<1>7. r.tmevt_heap \in Seq(Event) /\ Len(r.tmevt_heap) = N
  BY <1>1, <1>6
<1>8. r.p_tmevtn = [e \in DOMAIN t.p_tmevtn \cup {m} |->
                        IF e = m THEN b
                        ELSE IF Into(h, f, e) = {} THEN t.p_tmevtn[e] ELSE Max(Into(h, f, e))]
  <2>1. s.p_tmevtn = [e \in DOMAIN t.p_tmevtn |->
                         IF Into(h, f, e) = {} THEN t.p_tmevtn[e] ELSE Max(Into(h, f, e))]
    BY DEF Slid
  <2> QED BY <1>3, <2>1
<1> HIDE DEF h, N
<1> QED BY <1>4, <1>5, <1>7, <1>8 DEF Rearranged, h, N, r

\* The hole goes up, and the event is placed.
LEMMA SlideUp ==
  ASSUME NEW t, IsStore(t), NEW a \in 1 .. Len(t.tmevt_heap), NEW b \in Branch[a], NEW m \in Event
  PROVE  Rearranged(Place(Slide(t, a, b), b, m), t, b, m, FromUp(a, b))
<1> DEFINE h == t.tmevt_heap
           W == WayUp(a, b)
           f == FromUp(a, b)
<1>1. /\ h \in Seq(Event) /\ Len(h) \in Nat /\ DOMAIN h = 1 .. Len(h) /\ DOMAIN t = Fields
      /\ a \in Nat /\ b \in 1 .. a /\ Branch[a] \subseteq 1 .. a /\ ~(a < b)
  BY Branches DEF IsStore, BranchOK
<1> DEFINE V == {n \in Branch[IF a < b THEN b ELSE a] : n >= IF a < b THEN a ELSE b} \ {b}
           From(n) == IF b < a THEN n \div 2 ELSE CHOOSE c \in V \cup {b} : c \div 2 = n
           In(e) == {n \in V : h[From(n)] = e}
           hh == [n \in DOMAIN h |-> IF n \in V THEN h[From(n)] ELSE h[n]]
           pp == [e \in DOMAIN t.p_tmevtn |-> IF In(e) = {} THEN t.p_tmevtn[e] ELSE Max(In(e))]
           s == Changed(t, hh, pp)
<1>2. V = W
  BY <1>1 DEF WayUp
<1>3. W # {} => b < a
  BY <1>1 DEF WayUp
<1>4. W \subseteq 1 .. Len(h) /\ \A n \in W : n \div 2 \in 1 .. Len(h)
  <2>1. \A n \in W : n \in 1 .. a /\ n > b
    BY <1>1 DEF WayUp
  <2> HIDE DEF W
  <2> QED BY <1>1, <2>1
<1>5. DOMAIN f = W /\ \A n \in W : f[n] = n \div 2
  BY DEF FromUp
<1> HIDE DEF W, f
<1>6. Slide(t, a, b) = Changed(t, hh, pp)
  BY Zenon DEF Slide, PARENT, Changed
<1>0. V = W /\ \A n \in W : From(n) = n \div 2
  <2> HIDE DEF V
  <2> QED BY <1>2, <1>3
<1> HIDE DEF V, From
<1>7. \A e : In(e) = Into(h, f, e)
  BY <1>0, <1>5 DEF Into
<1>8. hh = [n \in 1 .. Len(h) |-> IF n \in DOMAIN f THEN h[f[n]] ELSE h[n]]
  BY <1>0, <1>1, <1>5
<1>9. pp = [e \in DOMAIN t.p_tmevtn |-> IF Into(h, f, e) = {} THEN t.p_tmevtn[e]
                                        ELSE Max(Into(h, f, e))]
  <2> HIDE DEF In
  <2> QED BY <1>7
<1>10. HeapOnly(s, t) /\ s.tmevt_heap = hh /\ s.p_tmevtn = pp
  <2> HIDE DEF hh, pp
  <2> QED BY <1>1, HeapOnlyOf
<1> HIDE DEF s, hh, pp
<1>11. Slid(s, t, f)
  BY <1>8, <1>9, <1>10 DEF Slid
<1>12. b \in 1 .. Len(h)
  BY <1>1
<1>13. IsWay(f, t)
  BY <1>4, <1>5 DEF IsWay
<1> QED BY <1>6, <1>11, <1>12, <1>13, SlideAndPlace DEF f, s

\* The hole goes down, and the event is placed.
LEMMA SlideDown ==
  ASSUME NEW t, IsStore(t), NEW b \in 1 .. Len(t.tmevt_heap), NEW a \in Branch[b], NEW m \in Event
  PROVE  Rearranged(Place(Slide(t, a, b), b, m), t, b, m, FromDown(a, b))
<1> DEFINE h == t.tmevt_heap
           W == WayDown(a, b)
           f == FromDown(a, b)
<1>1. /\ h \in Seq(Event) /\ Len(h) \in Nat /\ DOMAIN h = 1 .. Len(h) /\ DOMAIN t = Fields
      /\ b \in Nat /\ a \in 1 .. b /\ Branch[b] \subseteq 1 .. b /\ b \in Branch[b] /\ ~(b < a)
  BY Branches DEF IsStore, BranchOK
<1> DEFINE V == {n \in Branch[IF a < b THEN b ELSE a] : n >= IF a < b THEN a ELSE b} \ {b}
           From(n) == IF b < a THEN n \div 2 ELSE CHOOSE c \in V \cup {b} : c \div 2 = n
           In(e) == {n \in V : h[From(n)] = e}
           hh == [n \in DOMAIN h |-> IF n \in V THEN h[From(n)] ELSE h[n]]
           pp == [e \in DOMAIN t.p_tmevtn |-> IF In(e) = {} THEN t.p_tmevtn[e] ELSE Max(In(e))]
           s == Changed(t, hh, pp)
<1>2. V = W
  <2>1. CASE a < b
    BY <1>1, <2>1 DEF WayDown
  <2>2. CASE a = b
    BY <1>1, <2>2 DEF WayDown
  <2> QED BY <1>1, <2>1, <2>2
<1>3. \A n \in W : n \in Branch[b] /\ n # b /\ a <= n /\ n \in 1 .. b
  BY <1>1 DEF WayDown
<1>4. W \cup {b} = {n \in Branch[b] : a <= n}
  BY <1>1 DEF WayDown
<1>5. DOMAIN f = W /\ \A n \in W : f[n] = Below(n, b)
  BY DEF FromDown
<1> HIDE DEF W, f
<1>6. \A n \in W : (CHOOSE c \in W \cup {b} : c \div 2 = n) = Below(n, b)
  <2> TAKE n \in W
  <2> DEFINE d == Below(n, b)
  <2>1. /\ d \in Branch[b] /\ d \div 2 = n
        /\ \A c \in Branch[b] : c \div 2 = n => c = d
    BY <1>1, <1>3, BelowIs
  <2> HIDE DEF d
  <2>2. d \in W \cup {b}
    BY <1>1, <1>3, <1>4, <2>1
  <2>3. \A c \in W \cup {b} : c \div 2 = n <=> c = d
    BY <1>4, <2>1
  <2> QED BY <2>2, <2>3 DEF d
<1>7. W \subseteq 1 .. Len(h) /\ \A n \in W : Below(n, b) \in 1 .. Len(h)
  <2>1. \A n \in W : Below(n, b) \in Branch[b]
    BY <1>1, <1>3, BelowIs
  <2> QED BY <1>1, <1>3, <2>1
<1>8. Slide(t, a, b) = Changed(t, hh, pp)
  BY Zenon DEF Slide, PARENT, Changed
<1>9. \A n \in W : From(n) = f[n]
  <2> HIDE DEF V
  <2> QED BY <1>1, <1>2, <1>5, <1>6
<1> HIDE DEF V, From
<1>10. \A e : In(e) = Into(h, f, e)
  BY <1>2, <1>5, <1>9 DEF Into
<1>11. hh = [n \in 1 .. Len(h) |-> IF n \in DOMAIN f THEN h[f[n]] ELSE h[n]]
  BY <1>1, <1>2, <1>5, <1>9
<1>12. pp = [e \in DOMAIN t.p_tmevtn |-> IF Into(h, f, e) = {} THEN t.p_tmevtn[e]
                                         ELSE Max(Into(h, f, e))]
  <2> HIDE DEF In
  <2> QED BY <1>10
<1>13. HeapOnly(s, t) /\ s.tmevt_heap = hh /\ s.p_tmevtn = pp
  <2> HIDE DEF hh, pp
  <2> QED BY <1>1, HeapOnlyOf
<1> HIDE DEF s, hh, pp
<1>14. Slid(s, t, f)
  BY <1>11, <1>12, <1>13 DEF Slid
<1>15. IsWay(f, t)
  BY <1>5, <1>7 DEF IsWay
<1> QED BY <1>8, <1>14, <1>15, SlideAndPlace DEF f, s

-----------------------------------------------------------------------------
(* The events stay where they say they are. *)

\* Every event of the heap is at its node, and so it is there once.
Located(h, p) ==
    /\ p \in [ToSet(h) -> 1 .. Len(h)]
    /\ \A n \in 1 .. Len(h) : p[h[n]] = n

\* The events at nodes other than a.
Others(h, a) == {h[n] : n \in (1 .. Len(h)) \ {a}}

\* The same but for a hole at node a, while m is on its way into the heap.
LocatedHole(h, p, a, m) ==
    /\ a \in 1 .. Len(h)
    /\ \A n \in 1 .. Len(h) : n # a => p[h[n]] = n /\ h[n] # m /\ h[n] \in DOMAIN p
    /\ DOMAIN p \subseteq Others(h, a) \cup {m}

\* The nodes that f moves to, b in the end, are those that it moves from, and a.
IsMove(f, a, b) ==
    /\ b \notin DOMAIN f
    /\ a \in DOMAIN f \/ (a = b /\ DOMAIN f = {})
    /\ \A n \in DOMAIN f : f[n] \in DOMAIN f \cup {b} /\ f[n] # a
    /\ \A k \in DOMAIN f \cup {b} : k # a => \E n \in DOMAIN f : f[n] = k
    /\ \A n, k \in DOMAIN f : f[n] = f[k] => n = k

\* On the way up every event moves from one node to the next.
LEMMA MovesUp ==
  ASSUME NEW a \in Nat, NEW b \in Branch[a]
  PROVE  IsMove(FromUp(a, b), a, b)
<1> DEFINE S == Branch[a]
           W == WayUp(a, b)
           f == FromUp(a, b)
<1>1. /\ S \subseteq 1 .. a /\ a \in S /\ b \in S /\ b \in 1 .. a
      /\ \A i \in S : i # 1 => i \div 2 \in S
      /\ \A i \in S : i # a => \E c \in S : c \div 2 = i
      /\ \A i \in S : \A j \in S : i < j => i <= j \div 2
  <2>1. BranchOK(a) /\ a # 0
    <3>1. Branch[0] = {}
      BY BranchNodes
    <3> QED BY <3>1, Branches
  <2> QED BY <2>1 DEF BranchOK
<1>2. \A i \in S : \A j \in S : i \div 2 = j \div 2 /\ i # 1 /\ j # 1 => i = j
  <2> TAKE i \in S
  <2> TAKE j \in S
  <2> SUFFICES ASSUME i \div 2 = j \div 2, i # 1, j # 1 PROVE i = j
    OBVIOUS
  <2>1. i \in Nat /\ j \in Nat /\ i # 0 /\ j # 0
    BY <1>1
  <2>2. ~(i < j)
    BY <1>1, <2>1
  <2>3. ~(j < i)
    BY <1>1, <2>1
  <2> QED BY <2>1, <2>2, <2>3
<1>3. \A n : n \in W <=> n \in S /\ n > b
  BY DEF WayUp
<1>4. DOMAIN f = W /\ \A n \in W : f[n] = n \div 2
  BY DEF FromUp
<1>5. \A i \in S : i \in Nat /\ i >= 1 /\ i <= a
  BY <1>1
<1>0. a \in S /\ b \in S /\ b \in Nat /\ b >= 1 /\ b <= a
  BY <1>1
<1> HIDE DEF S, W, f
<1>6. b \notin W
  BY <1>3, <1>0
<1>7. a \in W \/ (a = b /\ W = {})
  <2>1. CASE a = b
    <3>1. \A n \in W : FALSE
      <4> SUFFICES ASSUME NEW n \in W PROVE FALSE
        OBVIOUS
      <4>1. n \in S
        BY <1>3
      <4>2. n \in Nat /\ n <= a
        BY <1>5, <4>1
      <4>3. n > b
        BY <1>3
      <4> QED BY <1>0, <2>1, <4>2, <4>3
    <3> QED BY <2>1, <3>1
  <2>2. CASE a # b
    BY <1>0, <1>3, <2>2
  <2> QED BY <2>1, <2>2
<1>8. \A n \in W : n \div 2 \in W \cup {b} /\ n \div 2 # a
  <2> TAKE n \in W
  <2>1. n \in S /\ n > b /\ n \in Nat /\ n <= a /\ n # 0 /\ n # 1
    <3>1. n \in S /\ n > b
      BY <1>3
    <3> QED BY <1>0, <1>5, <3>1
  <2>2. n \div 2 \in S /\ n \div 2 < n /\ n \div 2 \in Nat /\ b <= n \div 2
    BY <1>1, <2>1
  <2> QED BY <1>1, <1>3, <2>1, <2>2
<1>9. \A k \in W \cup {b} : k # a => \E n \in W : n \div 2 = k
  <2> SUFFICES ASSUME NEW k \in W \cup {b}, k # a PROVE \E n \in W : n \div 2 = k
    OBVIOUS
  <2>1. k \in S /\ k >= b /\ k \in Nat /\ k >= 1
    <3>1. CASE k = b
      BY <1>0, <3>1
    <3>2. CASE k \in W
      <4>1. k \in S /\ k > b
        BY <1>3, <3>2
      <4>2. k \in Nat /\ k >= 1 /\ k <= a
        BY <1>5, <4>1
      <4> QED BY <1>0, <4>1, <4>2
    <3> QED BY <3>1, <3>2
  <2>2. PICK c \in S : c \div 2 = k
    BY <1>1, <2>1
  <2>3. c > k
    BY <1>5, <2>1, <2>2
  <2> QED BY <1>1, <1>3, <1>5, <2>1, <2>2, <2>3
<1>10. \A n, k \in W : n \div 2 = k \div 2 => n = k
  <2>1. \A n \in W : n \in S /\ n # 1
    BY <1>0, <1>3, <1>5
  <2> QED BY <1>2, <2>1
<1> QED BY <1>4, <1>6, <1>7, <1>8, <1>9, <1>10 DEF IsMove, f

\* On the way down as well.
LEMMA MovesDown ==
  ASSUME NEW b \in Nat, NEW a \in Branch[b]
  PROVE  IsMove(FromDown(a, b), a, b)
<1> DEFINE S == Branch[b]
           W == WayDown(a, b)
           f == FromDown(a, b)
<1>1. /\ S \subseteq 1 .. b /\ b \in S /\ a \in S /\ a \in 1 .. b
      /\ \A i \in S : i # 1 => i \div 2 \in S
      /\ \A i \in S : \A j \in S : i < j => i <= j \div 2
  <2>1. BranchOK(b) /\ b # 0
    <3>1. Branch[0] = {}
      BY BranchNodes
    <3> QED BY <3>1, Branches
  <2> QED BY <2>1 DEF BranchOK
<1>2. \A n \in S : n # b => /\ Below(n, b) \in S /\ Below(n, b) \div 2 = n
                            /\ \A c \in S : c \div 2 = n => c = Below(n, b)
  BY BelowIs
<1>3. \A n : n \in W <=> n \in S /\ a <= n /\ n < b
  BY DEF WayDown
<1>4. DOMAIN f = W /\ \A n \in W : f[n] = Below(n, b)
  BY DEF FromDown
<1>5. \A i \in S : i \in Nat /\ i >= 1 /\ i <= b
  BY <1>1
<1>0. a \in S /\ b \in S /\ b \in Nat /\ b >= 1 /\ a \in Nat /\ a >= 1 /\ a <= b
  BY <1>1
<1> HIDE DEF S, W, f
<1>6. b \notin W
  BY <1>3, <1>0
<1>7. a \in W \/ (a = b /\ W = {})
  <2>1. CASE a = b
    <3>1. \A n \in W : FALSE
      <4> SUFFICES ASSUME NEW n \in W PROVE FALSE
        OBVIOUS
      <4>1. n \in S
        BY <1>3
      <4>2. n \in Nat /\ n <= b
        BY <1>5, <4>1
      <4>3. a <= n /\ n < b
        BY <1>3
      <4> QED BY <1>0, <2>1, <4>2, <4>3
    <3> QED BY <2>1, <3>1
  <2>2. CASE a # b
    BY <1>0, <1>3, <2>2
  <2> QED BY <2>1, <2>2
<1>8. \A n \in W : /\ f[n] \in S /\ f[n] \div 2 = n
                   /\ \A c \in S : c \div 2 = n => c = f[n]
  BY <1>2, <1>3, <1>4, <1>6
<1>9. \A n \in W : f[n] \in W \cup {b} /\ f[n] # a
  <2> TAKE n \in W
  <2> DEFINE d == f[n]
  <2>1. d \in S /\ d \div 2 = n /\ d \in Nat /\ d >= 1 /\ d <= b
    BY <1>5, <1>8
  <2>2. n \in Nat /\ n >= 1 /\ a <= n
    BY <1>3, <1>5
  <2> HIDE DEF d
  <2>3. d > n
    BY <2>1, <2>2
  <2>4. d \in W \cup {b} /\ d # a
    BY <1>1, <1>3, <2>1, <2>2, <2>3
  <2> QED BY <2>4 DEF d
<1>10. \A k \in W \cup {b} : k # a => \E n \in W : f[n] = k
  <2> SUFFICES ASSUME NEW k \in W \cup {b}, k # a PROVE \E n \in W : f[n] = k
    OBVIOUS
  <2>1. k \in S /\ k > a /\ k \in Nat /\ k >= 1 /\ k <= b
    <3>1. CASE k = b
      BY <1>0, <3>1
    <3>2. CASE k \in W
      <4>1. k \in S /\ a <= k
        BY <1>3, <3>2
      <4>2. k \in Nat /\ k >= 1 /\ k <= b
        BY <1>5, <4>1
      <4> QED BY <1>0, <4>1, <4>2
    <3> QED BY <3>1, <3>2
  <2>2. k \div 2 \in S /\ a <= k \div 2 /\ k \div 2 < k /\ k \div 2 \in Nat
    BY <1>1, <2>1
  <2>3. k \div 2 \in W
    BY <1>1, <1>3, <2>1, <2>2
  <2> QED BY <1>8, <2>1, <2>3
<1>11. \A n, k \in W : f[n] = f[k] => n = k
  BY <1>8
<1> QED BY <1>4, <1>6, <1>7, <1>9, <1>10, <1>11 DEF IsMove, f

\* When the hole is closed every event is at its node again.
LEMMA Relocated ==
  ASSUME NEW t, IsStore(t), NEW a, NEW b \in 1 .. Len(t.tmevt_heap), NEW m \in Event,
         LocatedHole(t.tmevt_heap, t.p_tmevtn, a, m), NEW f, IsMove(f, a, b), IsWay(f, t),
         NEW r, Rearranged(r, t, b, m, f)
  PROVE  /\ Located(r.tmevt_heap, r.p_tmevtn)
         /\ Registered(r) = Others(t.tmevt_heap, a) \cup {m}
<1> DEFINE h == t.tmevt_heap
           p == t.p_tmevtn
           N == Len(h)
           g == r.tmevt_heap
           q == r.p_tmevtn
           D == DOMAIN f
<1>1. /\ h \in Seq(Event) /\ N \in Nat /\ g \in Seq(Event) /\ Len(g) = N
      /\ \A n \in 1 .. N : g[n] = IF n = b THEN m ELSE IF n \in D THEN h[f[n]] ELSE h[n]
  BY DEF IsStore, Rearranged
<1>2. q = [e \in DOMAIN p \cup {m} |->
              IF e = m THEN b ELSE IF Into(h, f, e) = {} THEN p[e] ELSE Max(Into(h, f, e))]
  BY DEF Rearranged
<1>3. /\ a \in 1 .. N
      /\ \A n \in 1 .. N : n # a => p[h[n]] = n /\ h[n] # m /\ h[n] \in DOMAIN p
      /\ DOMAIN p \subseteq Others(h, a) \cup {m}
  BY DEF LocatedHole
<1>4. /\ b \notin D
      /\ a \in D \/ (a = b /\ D = {})
      /\ \A n \in D : f[n] \in D \cup {b} /\ f[n] # a
      /\ \A k \in D \cup {b} : k # a => \E n \in D : f[n] = k
      /\ \A n, k \in D : f[n] = f[k] => n = k
  BY DEF IsMove
<1>5. D \subseteq 1 .. N /\ \A n \in D : f[n] \in 1 .. N
  BY DEF IsWay
<1> HIDE DEF N, D, g, q, p
<1>6. \A n, k \in 1 .. N : n # a /\ k # a /\ h[n] = h[k] => n = k
  BY <1>3
<1>7. ASSUME NEW n \in D PROVE h[f[n]] # m /\ h[f[n]] \in DOMAIN p /\ q[h[f[n]]] = n
  <2>1. h[f[n]] # m /\ h[f[n]] \in DOMAIN p
    BY <1>3, <1>4, <1>5
  <2>2. Into(h, f, h[f[n]]) = {n}
    <3>1. \A k \in D : h[f[k]] = h[f[n]] <=> k = n
      BY <1>4, <1>5, <1>6
    <3> QED BY <3>1 DEF Into, D
  <2>3. Max({n}) = n
    <3>1. n \in Nat
      BY <1>1, <1>5
    <3>2. {n} \in SUBSET (0 .. n) /\ {n} # {}
      BY <3>1
    <3>3. Max({n}) \in {n}
      BY <3>1, <3>2, GreatestNat
    <3> QED BY <3>3
  <2>4. q[h[f[n]]] = Max(Into(h, f, h[f[n]]))
    <3> DEFINE e == h[f[n]]
    <3>1. e \in DOMAIN p \cup {m} /\ e # m /\ Into(h, f, e) # {}
      BY <2>1, <2>2
    <3> HIDE DEF e, h
    <3> QED BY <1>2, <3>1 DEF e
  <2> QED BY <2>1, <2>2, <2>3, <2>4
<1>8. ASSUME NEW n \in 1 .. N, n # b, n \notin D
      PROVE  n # a /\ h[n] # m /\ h[n] \in DOMAIN p /\ q[h[n]] = n
  <2>1. n # a
    BY <1>4, <1>8
  <2>2. h[n] # m /\ h[n] \in DOMAIN p /\ p[h[n]] = n
    BY <1>3, <2>1
  <2>3. Into(h, f, h[n]) = {}
    <3>1. \A k \in D : h[f[k]] # h[n]
      BY <1>4, <1>5, <1>6, <1>8, <2>1
    <3> QED BY <3>1 DEF Into, D
  <2>4. q[h[n]] = p[h[n]]
    <3> DEFINE e == h[n]
    <3>1. e \in DOMAIN p \cup {m} /\ e # m /\ Into(h, f, e) = {}
      BY <2>2, <2>3
    <3> HIDE DEF e, h
    <3> QED BY <1>2, <3>1 DEF e
  <2> QED BY <2>1, <2>2, <2>4
<1>9. q[m] = b
  <2>1. m \in DOMAIN p \cup {m}
    OBVIOUS
  <2> HIDE DEF h
  <2> QED BY <1>2, <2>1
<1>10. \A n \in 1 .. N : q[g[n]] = n
  BY <1>1, <1>7, <1>8, <1>9
<1>11. \A n \in 1 .. N : g[n] \in Others(h, a) \cup {m} /\ g[n] \in DOMAIN p \cup {m}
  <2> TAKE n \in 1 .. N
  <2>1. CASE n = b
    BY <1>1, <2>1
  <2>2. CASE n # b /\ n \in D
    <3>1. g[n] = h[f[n]] /\ f[n] \in 1 .. N /\ f[n] # a
      BY <1>1, <1>4, <1>5, <2>2
    <3> QED BY <1>7, <2>2, <3>1 DEF Others, N
  <2>3. CASE n # b /\ n \notin D
    <3>1. g[n] = h[n] /\ n # a
      BY <1>1, <1>8, <2>3
    <3> QED BY <1>8, <2>3, <3>1 DEF Others, N
  <2> QED BY <2>1, <2>2, <2>3
<1>12. \A k \in 1 .. N : k # a => \E n \in 1 .. N : g[n] = h[k]
  <2> SUFFICES ASSUME NEW k \in 1 .. N, k # a PROVE \E n \in 1 .. N : g[n] = h[k]
    OBVIOUS
  <2>1. CASE k \in D \cup {b}
    <3>1. PICK n \in D : f[n] = k
      BY <1>4, <2>1
    <3>2. g[n] = h[k] /\ n \in 1 .. N
      BY <1>1, <1>4, <1>5, <3>1
    <3> QED BY <3>2
  <2>2. CASE k \notin D \cup {b}
    BY <1>1, <2>2
  <2> QED BY <2>1, <2>2
<1>13. ToSet(g) = {g[n] : n \in 1 .. N}
  BY <1>1 DEF ToSet
<1>14. g[b] = m /\ b \in 1 .. N
  BY <1>1 DEF N
<1>15. ToSet(g) = Others(h, a) \cup {m}
  <2>1. \A x \in Others(h, a) : x \in ToSet(g)
    BY <1>12, <1>13 DEF Others, N
  <2>2. m \in ToSet(g)
    BY <1>13, <1>14
  <2>3. \A x \in ToSet(g) : x \in Others(h, a) \cup {m}
    BY <1>11, <1>13
  <2> QED BY <2>1, <2>2, <2>3
<1>16. DOMAIN q = DOMAIN p \cup {m}
  <2> HIDE DEF h
  <2> QED BY <1>2
<1>17. DOMAIN q = ToSet(g)
  <2>1. \A x \in Others(h, a) : x \in DOMAIN p
    BY <1>3 DEF Others, N
  <2> QED BY <1>3, <1>15, <1>16, <2>1
<1>18. q \in [ToSet(g) -> 1 .. N]
  <2>1. \A x \in ToSet(g) : q[x] \in 1 .. N
    BY <1>10, <1>13
  <2>2. q = [x \in DOMAIN q |-> q[x]]
    <3> HIDE DEF h
    <3> QED BY <1>2
  <2> QED BY <1>17, <2>1, <2>2
<1> QED BY <1>1, <1>10, <1>15, <1>18 DEF Located, Registered, g, q
-----------------------------------------------------------------------------
(* The searches. *)

\* A branch ends with the branch of any node on it.
LEMMA BranchOfBranch ==
  \A n \in Nat : \A i \in Branch[n] : Branch[i] = {k \in Branch[n] : k <= i}
<1> DEFINE Ends(n) == \A i \in Branch[n] : Branch[i] = {k \in Branch[n] : k <= i}
           T == {n \in Nat : ~Ends(n)}
<1> SUFFICES ASSUME T # {} PROVE FALSE
  OBVIOUS
<1> DEFINE n == Min(T)
<1>1. n \in T /\ \A x \in T : n <= x
  <2> HIDE DEF T
  <2>1. T \in SUBSET Nat
    BY DEF T
  <2> QED BY <2>1, SmallestNat
<1>2. n \in Nat /\ ~Ends(n)
  BY <1>1
<1> HIDE DEF n
<1>3. n # 0
  <2>1. Branch[0] = {}
    BY BranchNodes
  <2> QED BY <1>2, <2>1
<1> DEFINE p == n \div 2
<1>4. p \in Nat /\ p < n /\ Ends(p)
  <2>1. p \in Nat /\ p < n /\ ~(n <= p)
    BY <1>2, <1>3
  <2> QED BY <1>1, <2>1
<1>5. Branch[n] = {n} \cup Branch[p]
  BY <1>2, <1>3, BranchNodes
<1>6. Branch[n] \subseteq 1 .. n /\ Branch[p] \subseteq 1 .. p
  BY <1>2, <1>4, Branches DEF BranchOK
<1> SUFFICES ASSUME NEW i \in Branch[n]
             PROVE  Branch[i] = {k \in Branch[n] : k <= i}
  BY <1>2
<1>7. CASE i = n
  <2>1. \A k \in Branch[n] : k <= n
    BY <1>2, <1>6
  <2> QED BY <1>7, <2>1
<1>8. CASE i # n
  <2>1. i \in Branch[p] /\ i <= p /\ i \in Nat
    BY <1>4, <1>5, <1>6, <1>8
  <2>2. Branch[i] = {k \in Branch[p] : k <= i}
    BY <1>4, <2>1
  <2>3. ~(n <= i)
    BY <1>2, <1>4, <2>1
  <2> QED BY <1>5, <2>2, <2>3
<1> QED BY <1>7, <1>8

\* The time of every event as the kernel compares it.
Ahead(t) == [e \in Event |-> EVTTIM_ADVANCE(t, t.evttim[e])]

\* The times ahead are numbers.
LEMMA AheadOf ==
  ASSUME NEW t, IsStore(t)
  PROVE  /\ Ahead(t) \in [Event -> Int]
         /\ \A e \in Event : Ahead(t)[e] = EVTTIM_ADVANCE(t, t.evttim[e])
<1>1. \A e \in Event : EVTTIM_ADVANCE(t, t.evttim[e]) \in Int
  <2> TAKE e \in Event
  <2>1. t.evttim[e] \in Int /\ t.boundary_evttim \in Int /\ EVTTIM_MOD \in Nat \ {0}
    BY EvttimAssumption DEF IsStore, Evttim
  <2>2. \A x \in Int : x % EVTTIM_MOD \in Int
    BY <2>1
  <2>3. t.evttim[e] - t.boundary_evttim \in Int
    BY <2>1
  <2> QED BY <2>2, <2>3 DEF EVTTIM_ADVANCE
<1> QED BY <1>1 DEF Ahead

\* The search upward.
LEMMA SearchUp ==
  ASSUME NEW t, IsStore(t), NEW a \in 1 .. Len(t.tmevt_heap), NEW m \in Event
  PROVE  FoundUp(t.tmevt_heap, Ahead(t), m, a, tmevt_up(t, a, t.evttim[m]))
<1> DEFINE h == t.tmevt_heap
           K == Ahead(t)
           N == Len(h)
           Fit(i) == EVTTIM_LE(t, node_evttim(t, PARENT(i)), t.evttim[m])
           T == {i \in Branch[a] : i = 1 \/ Fit(i)}
           b == Max(T)
<1>1. h \in Seq(Event) /\ N \in Nat /\ a \in Nat /\ a # 0 /\ a <= N
  BY DEF IsStore
<1>2. /\ Branch[a] \subseteq 1 .. a /\ a \in Branch[a] /\ 1 \in Branch[a]
      /\ \A i \in Branch[a] : i # 1 => i \div 2 \in Branch[a]
  BY <1>1, Branches DEF BranchOK
<1>3. \A i \in Branch[a] : i # 1 => (Fit(i) <=> K[h[i \div 2]] <= K[m])
  <2> SUFFICES ASSUME NEW i \in Branch[a], i # 1
               PROVE  Fit(i) <=> K[h[i \div 2]] <= K[m]
    OBVIOUS
  <2>1. i \div 2 \in 1 .. N
    BY <1>1, <1>2
  <2>2. h[i \div 2] \in Event
    BY <1>1, <2>1
  <2>3. K[h[i \div 2]] = EVTTIM_ADVANCE(t, t.evttim[h[i \div 2]])
    BY <2>2, AheadOf
  <2>4. K[m] = EVTTIM_ADVANCE(t, t.evttim[m])
    BY AheadOf
  <2> HIDE DEF K
  <2> QED BY <2>3, <2>4 DEF EVTTIM_LE, node_evttim, PARENT
<1>4. \A e \in Event : K[e] \in Int
  BY AheadOf
<1> HIDE DEF Fit, K
<1>5. T \in SUBSET (0 .. a) /\ T # {}
  BY <1>2
<1>6. b \in T /\ \A y \in T : y <= b
  <2> HIDE DEF T
  <2> QED BY <1>1, <1>5, GreatestNat
<1>7. b \in Branch[a] /\ (b = 1 \/ Fit(b))
  BY <1>6
<1>8. tmevt_up(t, a, t.evttim[m]) = b
  BY Zenon DEF tmevt_up, Fit
<1>9. \A c \in Branch[a] : c > b => c # 1 /\ ~Fit(c)
  <2> SUFFICES ASSUME NEW c \in Branch[a], c > b PROVE c # 1 /\ ~Fit(c)
    OBVIOUS
  <2>1. c \in Nat /\ b \in Nat /\ b >= 1
    BY <1>1, <1>2, <1>7
  <2>2. ~(c <= b)
    BY <2>1
  <2>3. c \notin T
    BY <1>6, <2>2
  <2> QED BY <2>3
<1> HIDE DEF T, b
<1>10. ASSUME NEW c \in Branch[a], c > b PROVE K[m] < K[h[c \div 2]]
  <2>1. c # 1 /\ ~(K[h[c \div 2]] <= K[m])
    BY <1>3, <1>9, <1>10
  <2>2. c \div 2 \in 1 .. N
    BY <1>1, <1>2, <2>1
  <2>3. h[c \div 2] \in Event
    BY <1>1, <2>2
  <2>4. K[h[c \div 2]] \in Int /\ K[m] \in Int
    BY <1>4, <2>3
  <2> QED BY <2>1, <2>4
<1> QED BY <1>3, <1>7, <1>8, <1>10 DEF FoundUp, K

\* The search downward.
LEMMA SearchDown ==
  ASSUME NEW t, IsStore(t), NEW a \in 1 .. Len(t.tmevt_heap), NEW m \in Event
  PROVE  FoundDown(t.tmevt_heap, Ahead(t), m, a, tmevt_down(t, a, t.evttim[m]))
<1> DEFINE h == t.tmevt_heap
           K == Ahead(t)
           N == Len(h)
           Child(i) == IF /\ LCHILD(i) + 1 <= N
                          /\ EVTTIM_LT(t, node_evttim(t, LCHILD(i) + 1),
                                          node_evttim(t, LCHILD(i)))
                       THEN LCHILD(i) + 1
                       ELSE LCHILD(i)
           S == {i \in a .. N : /\ a \in Branch[i]
                                /\ \A c \in Branch[i] : c > a => c = Child(PARENT(c))}
           Fit(i) == EVTTIM_LE(t, t.evttim[m], node_evttim(t, Child(i)))
           T == {i \in S : LCHILD(i) <= N => Fit(i)}
           b == Min(T)
<1>0. tmevt_down(t, a, t.evttim[m]) = b
  BY Zenon DEF tmevt_down
<1>1. h \in Seq(Event) /\ N \in Nat /\ a \in Nat /\ a >= 1 /\ a <= N
  BY DEF IsStore
<1>2. \A i \in 1 .. N : h[i] \in Event /\ K[h[i]] \in Int /\ K[h[i]] = EVTTIM_ADVANCE(t, node_evttim(t, i))
  <2> TAKE i \in 1 .. N
  <2>1. h[i] \in Event
    BY <1>1
  <2> QED BY <2>1, AheadOf DEF node_evttim
<1>3. K[m] \in Int /\ K[m] = EVTTIM_ADVANCE(t, t.evttim[m])
  BY AheadOf
<1>4. \A i \in 1 .. N : 2 * i <= N => /\ Child(i) \in 2 .. N /\ Child(i) \div 2 = i /\ Child(i) > i
                                      /\ \A n \in 2 .. N : n \div 2 = i => K[h[Child(i)]] <= K[h[n]]
  <2> SUFFICES ASSUME NEW i \in 1 .. N, 2 * i <= N
               PROVE  /\ Child(i) \in 2 .. N /\ Child(i) \div 2 = i /\ Child(i) > i
                      /\ \A n \in 2 .. N : n \div 2 = i => K[h[Child(i)]] <= K[h[n]]
    OBVIOUS
  <2> DEFINE l == 2 * i
             r == 2 * i + 1
  <2>1. i \in Nat /\ i >= 1 /\ l \in 2 .. N /\ l \div 2 = i /\ l > i /\ r \div 2 = i /\ r > i /\ r \in Nat /\ r >= 2
    BY <1>1
  <2>2. \A n \in 2 .. N : n \div 2 = i => n = l \/ n = r
    BY <1>1, <2>1
  <2>0. l \in 1 .. N
    BY <1>1, <2>1
  <2>10. r = l + 1
    OBVIOUS
  <2> HIDE DEF l, r, K
  <2>3. K[h[l]] \in Int /\ K[h[l]] = EVTTIM_ADVANCE(t, node_evttim(t, l))
    BY <1>2, <2>0
  <2>4. CASE r <= N /\ K[h[r]] < K[h[l]]
    <3>1. r \in 2 .. N
      BY <1>1, <2>1, <2>4
    <3>4. K[h[r]] \in Int /\ K[h[r]] = EVTTIM_ADVANCE(t, node_evttim(t, r)) /\ r \in 1 .. N
      BY <1>1, <1>2, <3>1
    <3>2. EVTTIM_LT(t, node_evttim(t, r), node_evttim(t, l))
      BY <2>3, <2>4, <3>4 DEF EVTTIM_LT
    <3>3. Child(i) = r
      BY <2>4, <3>2 DEF LCHILD, l, r
    <3>6. K[h[r]] <= K[h[l]] /\ K[h[r]] <= K[h[r]]
      BY <2>3, <2>4, <3>4
    <3>5. \A n \in 2 .. N : n \div 2 = i => K[h[r]] <= K[h[n]]
      BY <2>2, <3>6
    <3> HIDE DEF Child
    <3> QED BY <2>1, <3>1, <3>3, <3>5
  <2>5. CASE ~(r <= N /\ K[h[r]] < K[h[l]])
    <3>1. r <= N => r \in 2 .. N
      BY <1>1, <2>1
    <3>2. ~(r <= N /\ EVTTIM_LT(t, node_evttim(t, r), node_evttim(t, l)))
      <4> SUFFICES ASSUME r <= N PROVE ~EVTTIM_LT(t, node_evttim(t, r), node_evttim(t, l))
        OBVIOUS
      <4>1. r \in 1 .. N
        BY <1>1, <3>1
      <4>2. K[h[r]] = EVTTIM_ADVANCE(t, node_evttim(t, r))
        BY <1>2, <4>1
      <4>3. ~(K[h[r]] < K[h[l]])
        BY <2>5
      <4> QED BY <2>3, <4>2, <4>3 DEF EVTTIM_LT
    <3>3. Child(i) = l
      BY <3>2 DEF LCHILD, l, r
    <3>4. r <= N => K[h[r]] \in Int /\ K[h[l]] <= K[h[r]]
      <4> SUFFICES ASSUME r <= N PROVE K[h[r]] \in Int /\ K[h[l]] <= K[h[r]]
        OBVIOUS
      <4>1. r \in 1 .. N
        BY <1>1, <3>1
      <4>2. K[h[r]] \in Int
        BY <1>2, <4>1
      <4> QED BY <2>3, <2>5, <4>2
    <3>5. \A n \in 2 .. N : n \div 2 = i => K[h[l]] <= K[h[n]]
      <4> SUFFICES ASSUME NEW n \in 2 .. N, n \div 2 = i PROVE K[h[l]] <= K[h[n]]
        OBVIOUS
      <4>1. n = l \/ (n = r /\ r <= N)
        BY <1>1, <2>2
      <4>2. K[h[l]] <= K[h[l]]
        BY <2>3
      <4> QED BY <3>4, <4>1, <4>2
    <3> HIDE DEF Child
    <3> QED BY <2>1, <3>3, <3>5
  <2> QED BY <2>4, <2>5
<1>5. \A i \in 1 .. N : 2 * i <= N => (Fit(i) <=> K[m] <= K[h[Child(i)]])
  <2> SUFFICES ASSUME NEW i \in 1 .. N, 2 * i <= N
               PROVE  Fit(i) <=> K[m] <= K[h[Child(i)]]
    OBVIOUS
  <2>1. Child(i) \in 1 .. N
    BY <1>1, <1>4
  <2> HIDE DEF Child, K
  <2> QED BY <1>2, <1>3, <2>1 DEF EVTTIM_LE
<1> HIDE DEF K, Child, Fit
<1>6. \A i \in S : /\ i \in 1 .. N /\ a <= i /\ a \in Branch[i]
                   /\ \A c \in Branch[i] : c > a => c = Child(c \div 2)
  BY <1>1 DEF PARENT
<1>7. ASSUME NEW i \in 1 .. N, a <= i, a \in Branch[i],
             \A c \in Branch[i] : c > a => c = Child(c \div 2)
      PROVE  i \in S
  BY <1>1, <1>7 DEF PARENT
<1> HIDE DEF S
<1>8. T # {}
  <2> DEFINE M == Max(S)
  <2>1. a \in S
    <3>1. Branch[a] \subseteq 1 .. a /\ a \in Branch[a]
      BY <1>1, Branches DEF BranchOK
    <3>2. \A c \in Branch[a] : ~(c > a)
      BY <1>1, <3>1
    <3> QED BY <1>1, <1>7, <3>1, <3>2
  <2>2. S \in SUBSET (0 .. N)
    BY <1>1, <1>6
  <2>3. M \in S /\ \A y \in S : y <= M
    BY <1>1, <2>1, <2>2, GreatestNat
  <2> HIDE DEF M
  <2>4. M \in 1 .. N /\ a <= M /\ a \in Branch[M] /\ \A c \in Branch[M] : c > a => c = Child(c \div 2)
    BY <1>6, <2>3
  <2>5. ~(2 * M <= N)
    <3> SUFFICES ASSUME 2 * M <= N PROVE FALSE
      OBVIOUS
    <3> DEFINE d == Child(M)
    <3>1. d \in 2 .. N /\ d \div 2 = M /\ d > M
      BY <1>4, <2>4
    <3> HIDE DEF d
    <3>2. Branch[d] = {d} \cup Branch[M]
      <4>1. d \in Nat /\ d # 0
        BY <3>1
      <4> QED BY <3>1, <4>1, BranchNodes
    <3>3. \A c \in Branch[d] : c > a => c = Child(c \div 2)
      <4>1. d = Child(d \div 2)
        BY <3>1 DEF d
      <4> QED BY <2>4, <3>2, <4>1
    <3>4. d \in 1 .. N /\ a <= d
      BY <1>1, <2>4, <3>1
    <3>5. d \in S
      BY <1>7, <2>4, <3>2, <3>3, <3>4
    <3> QED BY <2>3, <2>4, <3>1, <3>4, <3>5
  <2> QED BY <2>3, <2>5 DEF LCHILD
<1>9. T \in SUBSET Nat
  BY <1>6
<1>10. b \in T /\ \A y \in T : b <= y
  <2> HIDE DEF T
  <2> QED BY <1>8, <1>9, SmallestNat
<1>11. /\ b \in S /\ b \in 1 .. N /\ a <= b /\ a \in Branch[b]
       /\ \A c \in Branch[b] : c > a => c = Child(c \div 2)
       /\ 2 * b <= N => Fit(b)
  BY <1>6, <1>10 DEF LCHILD
<1>12. \A i \in S : i < b => 2 * i <= N /\ ~Fit(i)
  <2> SUFFICES ASSUME NEW i \in S, i < b PROVE 2 * i <= N /\ ~Fit(i)
    OBVIOUS
  <2>1. ~(b <= i)
    BY <1>6, <1>11
  <2>2. i \notin T
    BY <1>10, <2>1
  <2> QED BY <2>2 DEF LCHILD
<1> HIDE DEF T, b
<1>13. /\ Branch[b] \subseteq 1 .. b
       /\ \A i \in Branch[b] : i # 1 => i \div 2 \in Branch[b]
       /\ \A i \in Branch[b] : \A j \in Branch[b] : i < j => i <= j \div 2
  BY <1>11, Branches DEF BranchOK
<1>14. ASSUME NEW c \in Branch[b], c > a
       PROVE  /\ K[h[c]] < K[m]
              /\ \A n \in 2 .. N : n \div 2 = c \div 2 => K[h[c]] <= K[h[n]]
  <2> DEFINE i == c \div 2
  <2>1. c \in Nat /\ c >= 2 /\ c <= b /\ c <= N
    BY <1>1, <1>11, <1>13, <1>14
  <2>2. i \in Branch[b] /\ a <= i /\ i < c /\ i \in Nat /\ i >= 1
    BY <1>1, <1>11, <1>13, <1>14, <2>1
  <2> HIDE DEF i
  <2>3. c = Child(i)
    BY <1>11, <1>14 DEF i
  <2>4. i \in 1 .. N /\ i < b
    BY <1>1, <1>11, <2>1, <2>2
  <2>5. Branch[i] = {k \in Branch[b] : k <= i}
    BY <1>11, <2>2, BranchOfBranch
  <2>6. i \in S
    <3>1. a \in Branch[i]
      BY <1>11, <2>2, <2>5
    <3>2. \A k \in Branch[i] : k > a => k = Child(k \div 2)
      BY <1>11, <2>5
    <3> QED BY <1>7, <2>2, <2>4, <3>1, <3>2
  <2>7. 2 * i <= N /\ ~(K[m] <= K[h[c]])
    BY <1>5, <1>12, <2>3, <2>4, <2>6
  <2>8. \A n \in 2 .. N : n \div 2 = i => K[h[c]] <= K[h[n]]
    BY <1>4, <2>3, <2>4, <2>7
  <2>9. K[h[c]] \in Int
    BY <1>1, <1>2, <2>1
  <2> QED BY <1>3, <2>7, <2>8, <2>9 DEF i
<1>15. ASSUME NEW n \in 2 .. N, n \div 2 = b PROVE K[m] <= K[h[n]]
  <2>1. 2 * b <= N
    BY <1>1, <1>11, <1>15
  <2>2. K[m] <= K[h[Child(b)]]
    BY <1>5, <1>11, <2>1
  <2>3. K[h[Child(b)]] <= K[h[n]] /\ Child(b) \in 1 .. N
    BY <1>1, <1>4, <1>11, <1>15, <2>1
  <2>4. K[h[Child(b)]] \in Int /\ K[h[n]] \in Int
    BY <1>1, <1>2, <2>3
  <2> QED BY <1>3, <2>2, <2>3, <2>4
<1> QED BY <1>0, <1>11, <1>14, <1>15 DEF FoundDown, K
-----------------------------------------------------------------------------
(* Insertion and deletion. *)

\* A heap in order, whose events are at the nodes they say.
IsHeap(t) ==
    /\ IsStore(t)
    /\ HeapOrder(t)
    /\ Located(t.tmevt_heap, t.p_tmevtn)

\* r is t with a heap of the events R.
Becomes(r, t, R) == IsHeap(r) /\ HeapOnly(r, t) /\ Registered(r) = R

\* The order of the heap, by the times ahead.
LEMMA OrderIs ==
  ASSUME NEW t, IsStore(t)
  PROVE  HeapOrder(t) <=> \A n \in 2 .. Len(t.tmevt_heap) :
                            Ahead(t)[t.tmevt_heap[n \div 2]] <= Ahead(t)[t.tmevt_heap[n]]
<1> DEFINE h == t.tmevt_heap
           N == Len(h)
           K == Ahead(t)
<1>1. h \in Seq(Event) /\ N \in Nat
  BY DEF IsStore
<1>2. ASSUME NEW n \in 2 .. N
      PROVE  EVTTIM_LE(t, node_evttim(t, PARENT(n)), node_evttim(t, n)) <=> K[h[n \div 2]] <= K[h[n]]
  <2>1. n \div 2 \in 1 .. N /\ n \in 1 .. N
    BY <1>1
  <2>2. h[n \div 2] \in Event /\ h[n] \in Event
    BY <1>1, <2>1
  <2>3. K[h[n \div 2]] = EVTTIM_ADVANCE(t, t.evttim[h[n \div 2]]) /\ K[h[n]] = EVTTIM_ADVANCE(t, t.evttim[h[n]])
    BY <2>2, AheadOf
  <2> HIDE DEF K
  <2> QED BY <2>3 DEF EVTTIM_LE, node_evttim, PARENT
<1> QED BY <1>2, Zenon DEF HeapOrder

\* A change of the heap leaves the times ahead.
LEMMA SameAhead ==
  ASSUME NEW t, NEW r, HeapOnly(r, t)
  PROVE  Ahead(r) = Ahead(t)
BY DEF Ahead, HeapOnly, EVTTIM_ADVANCE

\* The hole is closed by an event that goes up.
LEMMA ClosedUp ==
  ASSUME NEW t, IsStore(t), NEW a \in 1 .. Len(t.tmevt_heap), NEW m \in Event, NEW b,
         LocatedHole(t.tmevt_heap, t.p_tmevtn, a, m),
         HoleOrder(t.tmevt_heap, Ahead(t), a),
         FoundUp(t.tmevt_heap, Ahead(t), m, a, b),
         b = a => Leads(t.tmevt_heap, Ahead(t), m, a)
  PROVE  Becomes(Place(Slide(t, a, b), b, m), t, Others(t.tmevt_heap, a) \cup {m})
<1> DEFINE r == Place(Slide(t, a, b), b, m)
           h == t.tmevt_heap
           N == Len(h)
           K == Ahead(t)
           f == FromUp(a, b)
<1>1. /\ h \in Seq(Event) /\ N \in Nat /\ a \in Nat /\ a # 0
      /\ b \in Branch[a]
      /\ b = 1 \/ K[h[b \div 2]] <= K[m]
      /\ \A c \in Branch[a] : c > b => K[m] < K[h[c \div 2]]
  BY DEF IsStore, FoundUp
<1>2. Branch[a] \subseteq 1 .. a /\ b \in 1 .. N /\ \A i \in Branch[a] : i # 1 => i \div 2 \in Branch[a]
  BY <1>1, Branches DEF BranchOK
<1>3. Rearranged(r, t, b, m, f)
  BY <1>1, SlideUp
<1>4. IsMove(f, a, b)
  BY <1>1, MovesUp
<1>5. IsWay(f, t)
  <2>1. DOMAIN f = WayUp(a, b) /\ \A n \in WayUp(a, b) : f[n] = n \div 2
    BY DEF FromUp
  <2>2. \A n \in WayUp(a, b) : n \in 1 .. N /\ n > b
    BY <1>1, <1>2 DEF WayUp
  <2>3. b \in Nat /\ b >= 1
    BY <1>1, <1>2
  <2>4. \A n \in 1 .. N : n > b => n \div 2 \in 1 .. N
    BY <1>1, <2>3
  <2> HIDE DEF f
  <2> QED BY <2>1, <2>2, <2>4 DEF IsWay
<1> HIDE DEF r, f
<1>6. Located(r.tmevt_heap, r.p_tmevtn) /\ Registered(r) = Others(h, a) \cup {m}
  BY <1>2, <1>3, <1>4, <1>5, Relocated
<1>7. HeapOnly(r, t) /\ r.tmevt_heap \in Seq(Event) /\ Len(r.tmevt_heap) = N
  BY <1>3 DEF Rearranged
<1>8. IsStore(r) /\ Ahead(r) = K
  BY <1>7, StillStore, SameAhead
<1>9. \A n \in 1 .. N : r.tmevt_heap[n] = IF n = b THEN m
                                          ELSE IF n \in WayUp(a, b) THEN h[n \div 2] ELSE h[n]
  BY <1>3 DEF Rearranged, f, FromUp
<1>10. K \in [Event -> Int]
  BY AheadOf
<1> DEFINE g == r.tmevt_heap
<1>11. \A n \in 2 .. N : K[g[n \div 2]] <= K[g[n]]
  <2> HIDE DEF K, g
  <2>1. MovedUp(g, h, m, a, b)
    BY <1>9 DEF g, MovedUp
  <2>2. HoleOrder(h, K, a) /\ FoundUp(h, K, m, a, b) /\ (b = a => Leads(h, K, m, a))
    BY DEF K
  <2> HIDE DEF h
  <2>3. OrderedBy(g, K, Len(h))
    BY <1>1, <1>10, <2>1, <2>2, SiftUp DEF h
  <2> QED BY <2>3 DEF OrderedBy
<1>12. HeapOrder(r)
  BY <1>7, <1>8, <1>11, OrderIs
<1> QED BY <1>6, <1>7, <1>8, <1>12 DEF Becomes, IsHeap, r

\* The hole is closed by an event that goes down.
LEMMA ClosedDown ==
  ASSUME NEW t, IsStore(t), NEW a \in 1 .. Len(t.tmevt_heap), NEW m \in Event, NEW b,
         LocatedHole(t.tmevt_heap, t.p_tmevtn, a, m),
         HoleOrder(t.tmevt_heap, Ahead(t), a),
         FoundDown(t.tmevt_heap, Ahead(t), m, a, b),
         a = 1 \/ Ahead(t)[t.tmevt_heap[a \div 2]] <= Ahead(t)[m]
  PROVE  Becomes(Place(Slide(t, a, b), b, m), t, Others(t.tmevt_heap, a) \cup {m})
<1> DEFINE r == Place(Slide(t, a, b), b, m)
           h == t.tmevt_heap
           N == Len(h)
           K == Ahead(t)
           f == FromDown(a, b)
<1>1. /\ h \in Seq(Event) /\ N \in Nat /\ b \in Nat /\ b # 0
      /\ b \in 1 .. N /\ a \in Branch[b]
      /\ \A c \in Branch[b] : c > a =>
            /\ K[h[c]] < K[m]
            /\ \A n \in 2 .. N : n \div 2 = c \div 2 => K[h[c]] <= K[h[n]]
      /\ \A n \in 2 .. N : n \div 2 = b => K[m] <= K[h[n]]
  BY DEF IsStore, FoundDown
<1>2. Branch[b] \subseteq 1 .. b
  BY <1>1, Branches DEF BranchOK
<1>3. Rearranged(r, t, b, m, f)
  BY <1>1, SlideDown
<1>4. IsMove(f, a, b)
  BY <1>1, MovesDown
<1>5. IsWay(f, t)
  <2>1. DOMAIN f = WayDown(a, b) /\ \A n \in WayDown(a, b) : f[n] = Below(n, b)
    BY DEF FromDown
  <2>2. \A n \in WayDown(a, b) : n \in Branch[b] /\ n # b
    BY <1>1, <1>2 DEF WayDown
  <2>3. \A n \in WayDown(a, b) : Below(n, b) \in Branch[b]
    BY <1>1, <2>2, BelowIs
  <2>4. \A n \in Branch[b] : n \in 1 .. N
    BY <1>1, <1>2
  <2> HIDE DEF f
  <2> QED BY <2>1, <2>2, <2>3, <2>4 DEF IsWay
<1> HIDE DEF r, f
<1>6. Located(r.tmevt_heap, r.p_tmevtn) /\ Registered(r) = Others(h, a) \cup {m}
  BY <1>1, <1>3, <1>4, <1>5, Relocated
<1>7. HeapOnly(r, t) /\ r.tmevt_heap \in Seq(Event) /\ Len(r.tmevt_heap) = N
  BY <1>3 DEF Rearranged
<1>8. IsStore(r) /\ Ahead(r) = K
  BY <1>7, StillStore, SameAhead
<1>9. \A n \in 1 .. N : r.tmevt_heap[n] = IF n = b THEN m
                                          ELSE IF n \in WayDown(a, b) THEN h[Below(n, b)] ELSE h[n]
  BY <1>3 DEF Rearranged, f, FromDown
<1>10. K \in [Event -> Int]
  BY AheadOf
<1> DEFINE g == r.tmevt_heap
<1>11. \A n \in 2 .. N : K[g[n \div 2]] <= K[g[n]]
  <2> HIDE DEF K, g
  <2>1. MovedDown(g, h, m, a, b)
    BY <1>9 DEF g, MovedDown
  <2>2. HoleOrder(h, K, a) /\ FoundDown(h, K, m, a, b) /\ (a = 1 \/ K[h[a \div 2]] <= K[m])
    BY DEF K
  <2> HIDE DEF h
  <2>3. OrderedBy(g, K, Len(h))
    BY <1>1, <1>10, <2>1, <2>2, SiftDown DEF h
  <2> QED BY <2>3 DEF OrderedBy
<1>12. HeapOrder(r)
  BY <1>7, <1>8, <1>11, OrderIs
<1> QED BY <1>6, <1>7, <1>8, <1>12 DEF Becomes, IsHeap, r

\* tmevtb_insert: the new event is put below the last node and goes up.
LEMMA Insertion ==
  ASSUME NEW t, IsHeap(t), NEW e \in Event, e \notin Registered(t)
  PROVE  Becomes(tmevtb_insert(t, e), t, Registered(t) \cup {e})
<1> DEFINE h == t.tmevt_heap
           p == t.p_tmevtn
           N == Len(h)
           l == [t EXCEPT !.tmevt_heap = Append(@, e)]
           g == l.tmevt_heap
           a == Len(g)
           K == Ahead(t)
           b == tmevt_up(l, a, t.evttim[e])
<1>1. /\ h \in Seq(Event) /\ N \in Nat /\ DOMAIN t = Fields /\ IsStore(t)
      /\ p \in [ToSet(h) -> 1 .. N] /\ \A n \in 1 .. N : p[h[n]] = n
  BY DEF IsHeap, IsStore, Located
<1>2. g = Append(h, e) /\ HeapOnly(l, t) /\ l.p_tmevtn = p
  BY <1>1 DEF Fields, HeapOnly
<1>3. tmevtb_insert(t, e) = Place(Slide(l, a, b), b, e)
  BY DEF tmevtb_insert
<1> HIDE DEF l
<1>4. /\ g \in Seq(Event) /\ a = N + 1 /\ g[a] = e /\ \A n \in 1 .. N : g[n] = h[n]
  BY <1>1, <1>2
<1>5. IsStore(l) /\ Ahead(l) = K /\ l.evttim = t.evttim
  BY <1>1, <1>2, <1>4, StillStore, SameAhead DEF HeapOnly
<1> HIDE DEF g
<1>6. ToSet(h) = {h[n] : n \in 1 .. N} /\ Registered(t) = ToSet(h)
  BY <1>1 DEF ToSet, Registered
<1>7. (1 .. a) \ {a} = 1 .. N /\ a \in 1 .. a
  BY <1>1, <1>4
<1>8. Others(g, a) = ToSet(h)
  BY <1>4, <1>6, <1>7 DEF Others
<1>9. LocatedHole(g, l.p_tmevtn, a, e)
  <2>1. \A n \in 1 .. a : n # a => n \in 1 .. N
    BY <1>7
  <2>2. \A n \in 1 .. N : h[n] \in ToSet(h) /\ h[n] # e
    BY <1>6
  <2> QED BY <1>1, <1>2, <1>4, <1>7, <1>8, <2>1, <2>2 DEF LocatedHole
<1>10. \A n \in 2 .. N : K[h[n \div 2]] <= K[h[n]]
  BY <1>1, OrderIs DEF IsHeap
<1>11. \A n \in 2 .. a : n # a => n \in 2 .. N /\ n \div 2 \in 1 .. N /\ n \in 1 .. N
  BY <1>1, <1>4
<1>12. \A n \in 2 .. a : n \div 2 # a
  BY <1>1, <1>4
<1> HIDE DEF K
<1>13. HoleOrder(g, K, a)
  BY <1>4, <1>10, <1>11, <1>12 DEF HoleOrder
<1>14. FoundUp(g, K, e, a, b)
  <2>1. FoundUp(l.tmevt_heap, Ahead(l), e, a, tmevt_up(l, a, l.evttim[e]))
    BY <1>5, <1>7, SearchUp DEF g
  <2> QED BY <1>5, <2>1 DEF g
<1>15. Leads(g, K, e, a)
  BY <1>12 DEF Leads
<1> HIDE DEF b
<1>16. Becomes(Place(Slide(l, a, b), b, e), l, Others(g, a) \cup {e})
  BY <1>5, <1>7, <1>9, <1>13, <1>14, <1>15, ClosedUp DEF g
<1> QED BY <1>2, <1>3, <1>6, <1>8, <1>16, HeapOnlyTwice DEF Becomes

\* The heap without its last node and without the event e, which was at node a.
ShorterOK(s, t, e, a) ==
    /\ IsStore(s) /\ HeapOnly(s, t) /\ Ahead(s) = Ahead(t) /\ s.evttim = t.evttim
    /\ a \in 1 .. Len(t.tmevt_heap) /\ t.tmevt_heap[a] = e /\ t.p_tmevtn[e] = a
    /\ Len(t.tmevt_heap) \in Nat /\ Len(s.tmevt_heap) = Len(t.tmevt_heap) - 1
    /\ \A n \in 1 .. Len(s.tmevt_heap) : s.tmevt_heap[n] = t.tmevt_heap[n]
    /\ s.p_tmevtn = [x \in Registered(t) \ {e} |-> t.p_tmevtn[x]]
    /\ Last(t.tmevt_heap) = t.tmevt_heap[Len(t.tmevt_heap)]
    /\ \A n \in 1 .. Len(t.tmevt_heap) :
          /\ t.tmevt_heap[n] \in Registered(t) /\ t.tmevt_heap[n] \in Event
          /\ t.p_tmevtn[t.tmevt_heap[n]] = n
          /\ n # a => t.tmevt_heap[n] # e
    /\ Registered(t) = {t.tmevt_heap[n] : n \in 1 .. Len(t.tmevt_heap)}

\* The heap without its last node.
LEMMA Shortened ==
  ASSUME NEW t, IsHeap(t), NEW a, NEW e, a \in 1 .. Len(t.tmevt_heap), t.tmevt_heap[a] = e
  PROVE  ShorterOK(Shorter(t, e), t, e, a)
<1> DEFINE h == t.tmevt_heap
           p == t.p_tmevtn
           N == Len(h)
           s == Shorter(t, e)
<1>1. /\ h \in Seq(Event) /\ N \in Nat /\ DOMAIN t = Fields /\ IsStore(t)
      /\ p \in [ToSet(h) -> 1 .. N] /\ \A n \in 1 .. N : p[h[n]] = n
  BY DEF IsHeap, IsStore, Located
<1>2. ToSet(h) = {h[n] : n \in 1 .. N} /\ Registered(t) = ToSet(h)
  BY <1>1 DEF ToSet, Registered
<1>3. s = Changed(t, Front(h), [x \in DOMAIN p \ {e} |-> p[x]])
  BY DEF Shorter, Changed, Restrict
<1>4. /\ HeapOnly(s, t) /\ s.tmevt_heap = Front(h)
      /\ s.p_tmevtn = [x \in DOMAIN p \ {e} |-> p[x]]
  BY <1>1, <1>3, HeapOnlyOf
<1> HIDE DEF s
<1>5. N # 0
  BY <1>1
<1>6. Front(h) \in Seq(Event) /\ Len(Front(h)) = N - 1 /\ \A n \in 1 .. N - 1 : Front(h)[n] = h[n]
  BY <1>1, <1>5 DEF Front
<1>7. IsStore(s) /\ Ahead(s) = Ahead(t) /\ s.evttim = t.evttim
  BY <1>1, <1>4, <1>6, StillStore, SameAhead DEF HeapOnly
<1>8. \A n \in 1 .. N : h[n] \in ToSet(h) /\ h[n] \in Event
  BY <1>1, <1>2
<1>9. \A n \in 1 .. N : n # a => h[n] # e
  BY <1>1
<1>10. DOMAIN p = Registered(t)
  BY <1>1, <1>2
<1> QED BY <1>1, <1>2, <1>4, <1>6, <1>7, <1>8, <1>9, <1>10 DEF ShorterOK, s, Last

\* If e was not at the last node, the event m of that node is on its way.
LEMMA ShorterHole ==
  ASSUME NEW t, IsHeap(t), NEW a, NEW e, NEW s, ShorterOK(s, t, e, a), a <= Len(s.tmevt_heap),
         NEW m, m = Last(t.tmevt_heap)
  PROVE  /\ m \in Event /\ a \in 1 .. Len(s.tmevt_heap)
         /\ LocatedHole(s.tmevt_heap, s.p_tmevtn, a, m)
         /\ HoleOrder(s.tmevt_heap, Ahead(s), a)
         /\ Others(s.tmevt_heap, a) \cup {m} = Registered(t) \ {e}
<1> DEFINE h == t.tmevt_heap
           N == Len(h)
           g == s.tmevt_heap
           M == Len(g)
           K == Ahead(t)
<1>1. /\ IsStore(s) /\ Ahead(s) = K
      /\ a \in 1 .. N /\ h[a] = e /\ N \in Nat /\ M = N - 1 /\ m = h[N]
      /\ \A n \in 1 .. M : g[n] = h[n]
      /\ s.p_tmevtn = [x \in Registered(t) \ {e} |-> t.p_tmevtn[x]]
      /\ \A n \in 1 .. N : /\ h[n] \in Registered(t) /\ h[n] \in Event
                           /\ t.p_tmevtn[h[n]] = n /\ (n # a => h[n] # e)
      /\ Registered(t) = {h[n] : n \in 1 .. N}
  BY DEF ShorterOK
<1>2. \A n \in 2 .. N : K[h[n \div 2]] <= K[h[n]]
  BY OrderIs DEF IsHeap
<1>3. \A x \in Event : K[x] \in Int
  BY AheadOf DEF IsHeap
<1> HIDE DEF K, g, h
<1>4. /\ a \in 1 .. M /\ N \in 1 .. N /\ N # a
      /\ \A n \in 1 .. M : n \in 1 .. N /\ n # N
      /\ \A n \in 2 .. M : n \in 2 .. N /\ n \div 2 \in 1 .. M /\ n \in 1 .. M
      /\ \A n \in 1 .. N : n # N => n \in 1 .. M
  BY <1>1 DEF g
<1>5. m \in Event /\ m # e /\ m \in Registered(t)
  BY <1>1, <1>4
<1>6. DOMAIN s.p_tmevtn = Registered(t) \ {e}
  BY <1>1
<1>7. \A x \in Registered(t) : x # e => s.p_tmevtn[x] = t.p_tmevtn[x]
  BY <1>1
<1>8. Others(g, a) \cup {m} = Registered(t) \ {e}
  <2>1. ASSUME NEW x \in Others(g, a) PROVE x \in Registered(t) \ {e}
    <3>1. PICK n \in 1 .. M : n # a /\ x = g[n]
      BY DEF Others
    <3> QED BY <1>1, <1>4, <3>1
  <2>2. ASSUME NEW x \in Registered(t), x # e PROVE x \in Others(g, a) \cup {m}
    <3>1. PICK n \in 1 .. N : x = h[n]
      BY <1>1
    <3>2. CASE n = N
      BY <1>1, <3>1, <3>2
    <3>3. CASE n # N
      <4>1. n \in 1 .. M /\ x = g[n] /\ n # a
        BY <1>1, <1>4, <2>2, <3>1, <3>3
      <4> QED BY <4>1 DEF Others
    <3> QED BY <3>2, <3>3
  <2> QED BY <1>5, <2>1, <2>2
<1>9. LocatedHole(g, s.p_tmevtn, a, m)
  <2>1. ASSUME NEW n \in 1 .. M, n # a
        PROVE  s.p_tmevtn[g[n]] = n /\ g[n] # m /\ g[n] \in DOMAIN s.p_tmevtn
    <3>1. n \in 1 .. N /\ g[n] = h[n] /\ h[n] # e /\ h[n] \in Registered(t) /\ t.p_tmevtn[h[n]] = n
      BY <1>1, <1>4, <2>1
    <3>2. h[n] # h[N]
      <4>1. t.p_tmevtn[h[N]] = N /\ n # N
        BY <1>1, <1>4
      <4> QED BY <3>1, <4>1
    <3> QED BY <1>1, <1>6, <1>7, <3>1, <3>2
  <2> QED BY <1>4, <1>6, <1>8, <2>1 DEF LocatedHole, g
<1>10. HoleOrder(g, K, a)
  <2>1. ASSUME NEW n \in 2 .. M, n # a, n \div 2 # a PROVE K[g[n \div 2]] <= K[g[n]]
    BY <1>1, <1>2, <1>4
  <2>2. ASSUME a # 1, NEW n \in 2 .. M, n \div 2 = a PROVE K[g[a \div 2]] <= K[g[n]]
    <3>1. a \in 2 .. N /\ a \div 2 \in 1 .. M
      BY <1>1, <1>4, <2>2
    <3>2. K[h[a \div 2]] <= K[h[a]] /\ K[h[a]] <= K[h[n]]
      BY <1>2, <1>4, <2>2, <3>1
    <3>3. K[h[a \div 2]] \in Int /\ K[h[a]] \in Int /\ K[h[n]] \in Int
      BY <1>1, <1>3, <1>4, <3>1
    <3>4. K[h[a \div 2]] <= K[h[n]]
      BY <3>2, <3>3
    <3> QED BY <1>1, <1>4, <3>1, <3>4
  <2> QED BY <2>1, <2>2 DEF HoleOrder, g
<1> QED BY <1>1, <1>4, <1>5, <1>8, <1>9, <1>10 DEF g, h

\* If it was, nothing has to be moved.
LEMMA ShorterEnd ==
  ASSUME NEW t, IsHeap(t), NEW a, NEW e, NEW s, ShorterOK(s, t, e, a), a > Len(s.tmevt_heap)
  PROVE  Becomes(s, t, Registered(t) \ {e})
<1> DEFINE h == t.tmevt_heap
           N == Len(h)
           g == s.tmevt_heap
           M == Len(g)
           K == Ahead(t)
<1>1. /\ IsStore(s) /\ Ahead(s) = K /\ HeapOnly(s, t)
      /\ a \in 1 .. N /\ h[a] = e /\ N \in Nat /\ M = N - 1
      /\ \A n \in 1 .. M : g[n] = h[n]
      /\ s.p_tmevtn = [x \in Registered(t) \ {e} |-> t.p_tmevtn[x]]
      /\ \A n \in 1 .. N : /\ h[n] \in Registered(t) /\ h[n] \in Event
                           /\ t.p_tmevtn[h[n]] = n /\ (n # a => h[n] # e)
      /\ Registered(t) = {h[n] : n \in 1 .. N}
  BY DEF ShorterOK
<1>2. \A n \in 2 .. N : K[h[n \div 2]] <= K[h[n]]
  BY OrderIs DEF IsHeap
<1>3. g \in Seq(Event)
  BY <1>1 DEF IsStore
<1> HIDE DEF K
<1>4. ToSet(g) = {g[n] : n \in 1 .. M}
  BY <1>3 DEF ToSet
<1> HIDE DEF g, h
<1>5. /\ a = N
      /\ \A n \in 1 .. M : n \in 1 .. N /\ n # N
      /\ \A n \in 2 .. M : n \in 2 .. N /\ n \div 2 \in 1 .. M /\ n \in 1 .. M
      /\ \A n \in 1 .. N : n # N => n \in 1 .. M
  BY <1>1 DEF g
<1>6. ToSet(g) = Registered(t) \ {e}
  <2>1. ASSUME NEW x \in ToSet(g) PROVE x \in Registered(t) \ {e}
    <3>1. PICK n \in 1 .. M : x = g[n]
      BY <1>4
    <3> QED BY <1>1, <1>5, <3>1
  <2>2. ASSUME NEW x \in Registered(t), x # e PROVE x \in ToSet(g)
    <3>1. PICK n \in 1 .. N : x = h[n]
      BY <1>1
    <3>2. n \in 1 .. M /\ x = g[n]
      BY <1>1, <1>5, <2>2, <3>1
    <3> QED BY <1>4, <3>2
  <2> QED BY <2>1, <2>2
<1>7. Located(g, s.p_tmevtn)
  <2>1. \A n \in 1 .. M : s.p_tmevtn[g[n]] = n
    BY <1>1, <1>5
  <2>2. \A x \in ToSet(g) : s.p_tmevtn[x] \in 1 .. M
    BY <1>4, <2>1
  <2>3. s.p_tmevtn \in [ToSet(g) -> 1 .. M]
    BY <1>1, <1>6, <2>2
  <2> QED BY <2>1, <2>3 DEF Located
<1>8. HeapOrder(s)
  <2>1. \A n \in 2 .. M : K[g[n \div 2]] <= K[g[n]]
    BY <1>1, <1>2, <1>5
  <2> QED BY <1>1, <2>1, OrderIs DEF g
<1> QED BY <1>1, <1>6, <1>7, <1>8 DEF Becomes, IsHeap, Registered, g

\* tmevtb_delete
LEMMA Deletion ==
  ASSUME NEW t, IsHeap(t), NEW e \in Registered(t)
  PROVE  Becomes(tmevtb_delete(t, e), t, Registered(t) \ {e})
<1> DEFINE h == t.tmevt_heap
           a == t.p_tmevtn[e]
           s == Shorter(t, e)
           m == Last(h)
           K == Ahead(t)
           g == s.tmevt_heap
           up == a > 1 /\ EVTTIM_LT(t, t.evttim[m], node_evttim(t, PARENT(a)))
           b == IF up THEN tmevt_up(s, a, t.evttim[m]) ELSE tmevt_down(s, a, t.evttim[m])
           R == Registered(t) \ {e}
<1>1. a \in 1 .. Len(h) /\ h[a] = e
  BY DEF IsHeap, IsStore, Located, Registered, ToSet
<1>2. ShorterOK(s, t, e, a)
  BY <1>1, Shortened
<1>3. tmevtb_delete(t, e) = IF a > Len(g) THEN s ELSE Place(Slide(s, a, b), b, m)
  BY DEF tmevtb_delete
<1> HIDE DEF s, a
<1>4. CASE a > Len(g)
  BY <1>2, <1>3, <1>4, ShorterEnd
<1>5. CASE ~(a > Len(g))
  <2>1. a <= Len(g) /\ a \in Nat /\ Len(h) \in Nat /\ Len(g) = Len(h) - 1
    BY <1>1, <1>2, <1>5 DEF ShorterOK
  <2>2. /\ m \in Event /\ a \in 1 .. Len(g)
        /\ LocatedHole(g, s.p_tmevtn, a, m)
        /\ HoleOrder(g, Ahead(s), a)
        /\ Others(g, a) \cup {m} = R
    BY <1>2, <2>1, ShorterHole
  <2>3. IsStore(s) /\ HeapOnly(s, t) /\ Ahead(s) = K /\ s.evttim = t.evttim
    BY <1>2 DEF ShorterOK
  <2>4. a > 1 => /\ a \div 2 \in 1 .. Len(g) /\ g[a \div 2] = h[a \div 2] /\ g[a \div 2] \in Event
    <3> SUFFICES ASSUME a > 1
                 PROVE  /\ a \div 2 \in 1 .. Len(g) /\ g[a \div 2] = h[a \div 2] /\ g[a \div 2] \in Event
      OBVIOUS
    <3>1. a \div 2 \in 1 .. Len(g) /\ a \div 2 \in 1 .. Len(h)
      BY <2>1
    <3> QED BY <1>2, <3>1 DEF ShorterOK
  <2>5. a > 1 => (up <=> K[m] < K[g[a \div 2]])
    <3> SUFFICES ASSUME a > 1
                 PROVE  EVTTIM_LT(t, t.evttim[m], node_evttim(t, PARENT(a))) <=> K[m] < K[g[a \div 2]]
      OBVIOUS
    <3>1. K[m] = EVTTIM_ADVANCE(t, t.evttim[m])
      BY <2>2, AheadOf DEF IsHeap
    <3>2. K[g[a \div 2]] = EVTTIM_ADVANCE(t, t.evttim[g[a \div 2]])
      BY <2>4, AheadOf DEF IsHeap
    <3> HIDE DEF K
    <3> QED BY <2>4, <3>1, <3>2 DEF EVTTIM_LT, node_evttim, PARENT
  <2>6. \A x \in Event : K[x] \in Int
    BY AheadOf DEF IsHeap
  <2> HIDE DEF K, g, m, R
  <2>7. CASE up
    <3>1. b = tmevt_up(s, a, s.evttim[m])
      BY <2>3, <2>7
    <3>2. a > 1 /\ K[m] < K[g[a \div 2]]
      BY <2>5, <2>7
    <3> HIDE DEF b, up
    <3>3. FoundUp(g, K, m, a, b)
      BY <2>2, <2>3, <3>1, SearchUp DEF g
    <3>4. b # a
      <4>1. b = 1 \/ K[g[b \div 2]] <= K[m]
        BY <3>3 DEF FoundUp
      <4>2. K[m] \in Int /\ K[g[a \div 2]] \in Int
        BY <2>2, <2>4, <2>6, <3>2
      <4> QED BY <3>2, <4>1, <4>2
    <3>5. Becomes(Place(Slide(s, a, b), b, m), s, Others(g, a) \cup {m})
      BY <2>2, <2>3, <3>3, <3>4, ClosedUp DEF g
    <3> QED BY <1>3, <1>5, <2>2, <2>3, <3>5, HeapOnlyTwice DEF Becomes, m, g, R
  <2>8. CASE ~up
    <3>1. b = tmevt_down(s, a, s.evttim[m])
      BY <2>3, <2>8
    <3>2. a = 1 \/ K[g[a \div 2]] <= K[m]
      <4>1. CASE a > 1
        <5>1. ~(K[m] < K[g[a \div 2]])
          BY <2>5, <2>8, <4>1
        <5>2. K[m] \in Int /\ K[g[a \div 2]] \in Int
          BY <2>2, <2>4, <2>6, <4>1
        <5> QED BY <5>1, <5>2
      <4>2. CASE ~(a > 1)
        BY <2>1, <2>2, <4>2
      <4> QED BY <4>1, <4>2
    <3> HIDE DEF b, up
    <3>3. FoundDown(g, K, m, a, b)
      BY <2>2, <2>3, <3>1, SearchDown DEF g
    <3>5. Becomes(Place(Slide(s, a, b), b, m), s, Others(g, a) \cup {m})
      BY <2>2, <2>3, <3>2, <3>3, ClosedDown DEF g
    <3> QED BY <1>3, <1>5, <2>2, <2>3, <3>5, HeapOnlyTwice DEF Becomes, m, g, R
  <2> QED BY <2>7, <2>8
<1> QED BY <1>4, <1>5

\* tmevtb_delete_top
LEMMA TopDeletion ==
  ASSUME NEW t, IsHeap(t), t.tmevt_heap # <<>>
  PROVE  Becomes(tmevtb_delete_top(t), t, Registered(t) \ {t.tmevt_heap[1]})
<1> DEFINE h == t.tmevt_heap
           e == h[1]
           s == Shorter(t, e)
           m == Last(h)
           K == Ahead(t)
           g == s.tmevt_heap
           b == tmevt_down(s, 1, t.evttim[m])
           R == Registered(t) \ {e}
<1>1. 1 \in 1 .. Len(h) /\ h[1] = e
  BY DEF IsHeap, IsStore
<1>2. ShorterOK(s, t, e, 1)
  BY <1>1, Shortened
<1>3. tmevtb_delete_top(t) = IF g = <<>> THEN s ELSE Place(Slide(s, 1, b), b, m)
  BY DEF tmevtb_delete_top
<1> HIDE DEF s, e
<1>4. IsStore(s) /\ HeapOnly(s, t) /\ Ahead(s) = K /\ s.evttim = t.evttim
  BY <1>2 DEF ShorterOK
<1>5. g \in Seq(Event)
  BY <1>4 DEF IsStore
<1>6. CASE g = <<>>
  <2>1. 1 > Len(g)
    BY <1>6
  <2> QED BY <1>2, <1>3, <1>6, <2>1, ShorterEnd DEF e
<1>7. CASE g # <<>>
  <2>1. 1 <= Len(g)
    BY <1>5, <1>7
  <2>2. /\ m \in Event /\ 1 \in 1 .. Len(g)
        /\ LocatedHole(g, s.p_tmevtn, 1, m)
        /\ HoleOrder(g, Ahead(s), 1)
        /\ Others(g, 1) \cup {m} = R
    BY <1>2, <2>1, ShorterHole
  <2> HIDE DEF K, g, m, R
  <2>3. b = tmevt_down(s, 1, s.evttim[m])
    BY <1>4
  <2> HIDE DEF b
  <2>4. FoundDown(g, K, m, 1, b)
    BY <1>4, <2>2, <2>3, SearchDown DEF g
  <2>5. Becomes(Place(Slide(s, 1, b), b, m), s, Others(g, 1) \cup {m})
    BY <1>4, <2>2, <2>4, ClosedDown DEF g
  <2> QED BY <1>3, <1>4, <1>7, <2>2, <2>5, HeapOnlyTwice DEF Becomes, m, g, R, e
<1> QED BY <1>6, <1>7
-----------------------------------------------------------------------------
(* Arithmetic modulo m. *)

\* The remainder is one.
LEMMA ModRange ==
  ASSUME NEW m \in Nat \ {0}, NEW x \in Int
  PROVE  x % m \in 0 .. m - 1 /\ x % m \in Int
OBVIOUS

\* A remainder is its own.
LEMMA ModSmall ==
  ASSUME NEW m \in Nat \ {0}, NEW x \in 0 .. m - 1
  PROVE  x % m = x
OBVIOUS

\* The remainder of a number of whole rounds and a rest is the rest.
LEMMA ModOf ==
  ASSUME NEW m \in Nat \ {0}, NEW q \in Int, NEW r \in 0 .. m - 1
  PROVE  (q * m + r) % m = r
OBVIOUS

\* The remainder can be taken before an addition,
LEMMA ModAdd ==
  ASSUME NEW m \in Nat \ {0}, NEW x \in Int, NEW y \in Int
  PROVE  (y + (x % m)) % m = (y + x) % m
<1> DEFINE r == x % m
           q == x \div m
           z == y + r
           s == z % m
           k == z \div m
<1>1. r \in 0 .. m - 1 /\ q \in Int /\ x = q * m + r
  OBVIOUS
<1> HIDE DEF r, q
<1>2. z \in Int
  BY <1>1
<1> HIDE DEF z
<1>3. s \in 0 .. m - 1 /\ k \in Int /\ z = k * m + s
  BY <1>2
<1> HIDE DEF s, k
<1>4. y + x = (k + q) * m + s
  <2>1. r = z - y
    BY <1>1 DEF z
  <2>2. (k + q) * m = k * m + q * m
    BY <1>1, <1>3
  <2>3. k * m \in Int /\ q * m \in Int
    BY <1>1, <1>3
  <2> QED BY <1>1, <1>2, <1>3, <2>1, <2>2, <2>3
<1>5. (y + x) % m = s
  <2>1. k + q \in Int
    BY <1>1, <1>3
  <2> QED BY <1>3, <1>4, <2>1, ModOf
<1> QED BY <1>5 DEF s, z, r

\* Whole rounds leave the remainder as it is.
LEMMA ModTimes ==
  ASSUME NEW m \in Nat \ {0}, NEW x \in Int, NEW k \in Int
  PROVE  (x + k * m) % m = x % m
<1> DEFINE r == x % m
           q == x \div m
<1>1. r \in 0 .. m - 1 /\ q \in Int /\ x = q * m + r
  OBVIOUS
<1> HIDE DEF r, q
<1>2. x + k * m = (q + k) * m + r
  <2>1. (q + k) * m = q * m + k * m /\ k * m \in Int /\ q * m \in Int
    BY <1>1
  <2> QED BY <1>1, <2>1
<1>3. (x + k * m) % m = r
  <2>1. q + k \in Int
    BY <1>1
  <2> QED BY <1>1, <1>2, <2>1, ModOf
<1> QED BY <1>3 DEF r

\* The remainder can be taken before a subtraction.
LEMMA ModSub ==
  ASSUME NEW m \in Nat \ {0}, NEW x \in Int, NEW y \in Int
  PROVE  (y - (x % m)) % m = (y - x) % m
<1> DEFINE r == x % m
           q == x \div m
<1>1. r \in 0 .. m - 1 /\ q \in Int /\ x = q * m + r
  OBVIOUS
<1> HIDE DEF r, q
<1>2. y - r = (y - x) + q * m /\ y - x \in Int
  <2>1. q * m \in Int
    BY <1>1
  <2> QED BY <1>1, <2>1
<1>3. (y - r) % m = (y - x) % m
  <2> DEFINE d == y - x
  <2>1. d \in Int
    OBVIOUS
  <2> HIDE DEF d
  <2>2. (d + q * m) % m = d % m
    BY <1>1, <2>1, ModTimes
  <2> QED BY <1>2, <2>2 DEF d
<1> QED BY <1>3 DEF r

\* The value itself if it is one step out of range.
LEMMA ModOnce ==
  ASSUME NEW m \in Nat \ {0}, NEW x \in Int, -m <= x, x < 2 * m
  PROVE  x % m = IF x < 0 THEN x + m ELSE IF x < m THEN x ELSE x - m
<1>1. CASE x < 0
  <2>1. x = (-1) * m + (x + m) /\ x + m \in 0 .. m - 1
    BY <1>1
  <2> QED BY <1>1, <2>1, ModOf
<1>2. CASE 0 <= x /\ x < m
  BY <1>2, ModSmall
<1>3. CASE m <= x
  <2>1. x = 1 * m + (x - m) /\ x - m \in 0 .. m - 1
    BY <1>3
  <2> QED BY <1>3, <2>1, ModOf
<1> QED BY <1>1, <1>2, <1>3
-----------------------------------------------------------------------------
(* The clock. *)

\* How far the events' clock is behind the monotonic one.
Behind(t) == (t.monotonic_evttim - t.current_evttim) % EVTTIM_MOD

\* The clocks: the events' one, the boundary behind it, the monotonic one.
Clock(t) ==
    /\ t.current_evttim \in Evttim /\ t.monotonic_evttim \in Evttim
    /\ t.boundary_evttim = (t.current_evttim - BOUNDARY_MARGIN) % EVTTIM_MOD
    /\ t.systim_offset \in 0 .. SYSTIM_MOD - 1
    /\ t.in_signal_time \in BOOLEAN
    /\ t.started \in [Event -> BOOLEAN]
    /\ t.hrtcnt_advance \in Nat /\ t.hrtcnt_advance < EVTTIM_MOD
    /\ t.hrt_event \in Int
    /\ Behind(t) = 0 \/ Behind(t) < 2 * TMAX_ADJTIM

\* Every event is so near that it cannot be taken for one of another round of
\* the clock: not more than BOUNDARY_MARGIN ago, now and as soon as the count
\* is read, and not later than the longest time asked for.
InReach(t) ==
    \A e \in Registered(t) :
       /\ t.hrtcnt_advance <= Ahead(t)[e]
       /\ Ahead(t)[e] <= BOUNDARY_MARGIN + TMAX_RELTIM + TSTEP_HRTCNT + Behind(t)

\* What is always true of the data section.
Sound(t) == IsHeap(t) /\ Clock(t) /\ InReach(t)

\* The constants as numbers.
LEMMA Figures ==
  /\ EVTTIM_MOD \in Nat \ {0} /\ EVTTIM_MOD \in Int
  /\ TMAX_RELTIM \in Nat /\ BOUNDARY_MARGIN \in Nat /\ LATENCY \in Nat
  /\ TSTEP_HRTCNT \in Nat /\ TSTEP_HRTCNT >= 1
  /\ TMAX_ADJTIM \in Nat /\ TMAX_ADJTIM >= 1
  /\ HRTCNT_BOUND \in Nat /\ HRTCNT_BOUND >= 1
  /\ SYSTIM_MOD \in Nat \ {0} /\ SYSTIM_MOD % EVTTIM_MOD = 0
  /\ BOUNDARY_MARGIN + TMAX_RELTIM + TSTEP_HRTCNT + 2 * TMAX_ADJTIM <= EVTTIM_MOD
  /\ 2 * TMAX_ADJTIM + TSTEP_HRTCNT <= BOUNDARY_MARGIN + 1
  /\ BOUNDARY_MARGIN < EVTTIM_MOD
  /\ HRTCNT_BOUND + LATENCY < EVTTIM_MOD
  /\ SYSTICK \in BOOLEAN
BY EvttimAssumption, FigureAssumption

\* The times ahead, counted from now.
LEMMA AdvanceIs ==
  ASSUME NEW t, Clock(t), NEW v \in Int
  PROVE  EVTTIM_ADVANCE(t, v) = ((v - t.current_evttim) + BOUNDARY_MARGIN) % EVTTIM_MOD
<1> DEFINE c == t.current_evttim
<1>1. c \in Int /\ t.boundary_evttim = (c - BOUNDARY_MARGIN) % EVTTIM_MOD
  BY Figures DEF Clock, Evttim
<1> HIDE DEF c
<1>2. c - BOUNDARY_MARGIN \in Int /\ EVTTIM_MOD \in Nat \ {0} /\ BOUNDARY_MARGIN \in Int
  BY <1>1, Figures
<1>3. (v - ((c - BOUNDARY_MARGIN) % EVTTIM_MOD)) % EVTTIM_MOD = (v - (c - BOUNDARY_MARGIN)) % EVTTIM_MOD
  BY <1>2, ModSub
<1>4. v - (c - BOUNDARY_MARGIN) = (v - c) + BOUNDARY_MARGIN
  BY <1>1, <1>2
<1> QED BY <1>1, <1>3, <1>4 DEF EVTTIM_ADVANCE, c

\* The time of an event that is so far from now.
LEMMA AheadNow ==
  ASSUME NEW t, Clock(t), NEW d \in Int
  PROVE  EVTTIM_ADVANCE(t, (t.current_evttim + d) % EVTTIM_MOD) = (BOUNDARY_MARGIN + d) % EVTTIM_MOD
<1> DEFINE c == t.current_evttim
           m == EVTTIM_MOD
           M == BOUNDARY_MARGIN
           v == (c + d) % m
<1>1. c \in Int /\ m \in Nat \ {0} /\ M \in Int
  BY Figures DEF Clock, Evttim
<1> HIDE DEF c, m, M
<1>2. c + d \in Int /\ M - c \in Int
  BY <1>1
<1>3. v \in Int
  BY <1>1, <1>2, ModRange
<1>4. EVTTIM_ADVANCE(t, v) = ((v - c) + M) % m
  BY <1>3, AdvanceIs DEF c, M, m
<1>5. ((M - c) + v) % m = ((M - c) + (c + d)) % m
  BY <1>1, <1>2, ModAdd
<1>6. (v - c) + M = (M - c) + v /\ (M - c) + (c + d) = M + d
  BY <1>1, <1>3
<1> QED BY <1>4, <1>5, <1>6 DEF c, m, M

\* In what an operation on the clock leaves alone.
ClockOnly(r, t) ==
    /\ DOMAIN r = Fields
    /\ r.tmevt_heap = t.tmevt_heap /\ r.p_tmevtn = t.p_tmevtn /\ r.evttim = t.evttim
    /\ r.in_signal_time = t.in_signal_time /\ r.started = t.started
    /\ r.hrt_event = t.hrt_event /\ r.hrtcnt_advance = t.hrtcnt_advance

\* Other readings of the clocks.
SetClock(t, c, b, o, n) ==
    [t EXCEPT !.current_evttim = c, !.boundary_evttim = b,
              !.systim_offset = o, !.monotonic_evttim = n]

\* Such a change is one of the clocks only.
LEMMA ClockOnlyOf ==
  ASSUME NEW t, DOMAIN t = Fields, NEW c, NEW b, NEW o, NEW n
  PROVE  /\ ClockOnly(SetClock(t, c, b, o, n), t)
         /\ SetClock(t, c, b, o, n).current_evttim = c
         /\ SetClock(t, c, b, o, n).boundary_evttim = b
         /\ SetClock(t, c, b, o, n).systim_offset = o
         /\ SetClock(t, c, b, o, n).monotonic_evttim = n
BY DEF Fields, ClockOnly, SetClock

\* advance_evttim, if the clock does not overtake an event by more than the
\* margin: all events come nearer by d, and the order stays.
Moved(r, t, d) ==
    /\ Sound(r) /\ ClockOnly(r, t) /\ Registered(r) = Registered(t)
    /\ \A e \in Registered(t) : Ahead(r)[e] = Ahead(t)[e] - d
    /\ Behind(r) = IF d > 0 /\ Behind(t) < d THEN 0 ELSE Behind(t) - d
    /\ r.current_evttim = (t.current_evttim + d) % EVTTIM_MOD
    /\ r.monotonic_evttim = IF d > 0 /\ Behind(t) < d THEN r.current_evttim ELSE t.monotonic_evttim
    /\ r.systim_offset = (t.systim_offset
                            + IF d > 0 /\ Behind(t) < d /\ r.current_evttim < t.monotonic_evttim
                              THEN EVTTIM_MOD ELSE 0) % SYSTIM_MOD

\* What advance_evttim does.
LEMMA Moves ==
  ASSUME NEW t, Sound(t), t.hrtcnt_advance = 0, NEW d \in Int, d < EVTTIM_MOD,
         \A e \in Registered(t) : d <= Ahead(t)[e],
         d < 0 => Behind(t) - d < 2 * TMAX_ADJTIM
  PROVE  Moved(advance_evttim(t, d), t, d)
<1> DEFINE m == EVTTIM_MOD
           M == BOUNDARY_MARGIN
           c == t.current_evttim
           n == t.monotonic_evttim
           L == Behind(t)
           K == Ahead(t)
           R == Registered(t)
           now == (c + d) % m
           passed == d > 0 /\ L < d
           carry == IF passed /\ now < n THEN m ELSE 0
           b == (now - M) % m
           o == (t.systim_offset + carry) % SYSTIM_MOD
           nn == IF passed THEN now ELSE n
           r == SetClock(t, now, b, o, nn)
<1>1. advance_evttim(t, d) = r
  BY DEF advance_evttim, SetClock, Behind
<1>2. /\ m \in Nat \ {0} /\ m \in Int /\ M \in Int
      /\ c \in Int /\ n \in Int /\ c \in 0 .. m - 1 /\ n \in 0 .. m - 1
      /\ t.systim_offset \in Int /\ DOMAIN t = Fields /\ Clock(t) /\ IsStore(t)
  <2>1. Clock(t) /\ IsStore(t) /\ DOMAIN t = Fields
    BY DEF Sound, IsHeap, IsStore
  <2>2. m \in Nat \ {0} /\ m \in Int /\ M \in Int /\ SYSTIM_MOD \in Int
    BY Figures
  <2>3. c \in 0 .. m - 1 /\ n \in 0 .. m - 1 /\ t.systim_offset \in 0 .. SYSTIM_MOD - 1
    BY <2>1 DEF Clock, Evttim
  <2> HIDE DEF c, n, m
  <2>4. c \in Int /\ n \in Int /\ t.systim_offset \in Int
    BY <2>2, <2>3
  <2> QED BY <2>1, <2>2, <2>3, <2>4
<1>3. L \in 0 .. m - 1 /\ L \in Int /\ (L = 0 \/ L < 2 * TMAX_ADJTIM)
  <2>1. n - c \in Int
    BY <1>2
  <2>2. L \in 0 .. m - 1
    BY <1>2, <2>1, ModRange DEF Behind
  <2>3. L = 0 \/ L < 2 * TMAX_ADJTIM
    BY DEF Sound, Clock
  <2> QED BY <1>2, <2>2, <2>3
<1>4. now \in 0 .. m - 1 /\ now \in Int /\ c + d \in Int
  <2>1. c + d \in Int
    BY <1>2
  <2> QED BY <1>2, <2>1, ModRange
<1>5. b \in 0 .. m - 1 /\ o \in 0 .. SYSTIM_MOD - 1
  <2>1. now - M \in Int /\ t.systim_offset + carry \in Int /\ SYSTIM_MOD \in Nat \ {0}
    BY <1>2, <1>4, Figures
  <2> QED BY <1>2, <2>1, ModRange
<1>6. nn \in 0 .. m - 1
  BY <1>2, <1>4
<1>7. /\ ClockOnly(r, t) /\ r.current_evttim = now /\ r.boundary_evttim = b
      /\ r.systim_offset = o /\ r.monotonic_evttim = nn
  <2> HIDE DEF now, b, o, nn
  <2> QED BY <1>2, ClockOnlyOf
<1>8. Behind(r) = IF passed THEN 0 ELSE L - d
  <2>1. CASE passed
    <3>1. nn - now = 0
      BY <1>4, <2>1
    <3>2. 0 \in 0 .. m - 1
      BY <1>2
    <3> QED BY <1>2, <1>7, <2>1, <3>1, <3>2, ModSmall DEF Behind
  <2>2. CASE ~passed
    <3>1. Behind(r) = (n - now) % m
      BY <1>7, <2>2 DEF Behind
    <3>2. (n - now) % m = (n - (c + d)) % m
      BY <1>2, <1>4, ModSub
    <3>3. ((-d) + ((n - c) % m)) % m = ((-d) + (n - c)) % m
      <4>1. -d \in Int /\ n - c \in Int
        BY <1>2
      <4> QED BY <1>2, <4>1, ModAdd
    <3>4. n - (c + d) = (-d) + (n - c)
      BY <1>2
    <3>5. (-d) + L = L - d
      BY <1>3
    <3>6. L - d \in 0 .. m - 1
      <4>1. CASE d > 0
        BY <1>2, <1>3, <2>2, <4>1
      <4>2. CASE d = 0
        BY <1>2, <1>3, <4>2
      <4>3. CASE d < 0
        BY <1>2, <1>3, <4>3, Figures
      <4> QED BY <4>1, <4>2, <4>3
    <3> QED BY <1>2, <2>2, <3>1, <3>2, <3>3, <3>4, <3>5, <3>6, ModSmall DEF Behind
  <2> QED BY <2>1, <2>2
<1> HIDE DEF r
<1>9. Clock(r)
  <2>1. t.in_signal_time \in BOOLEAN /\ t.started \in [Event -> BOOLEAN] /\ t.hrtcnt_advance \in Nat
        /\ t.hrtcnt_advance < m /\ t.hrt_event \in Int
    BY DEF Sound, Clock
  <2>2. /\ r.in_signal_time = t.in_signal_time /\ r.started = t.started
        /\ r.hrt_event = t.hrt_event /\ r.hrtcnt_advance = t.hrtcnt_advance
    BY <1>7 DEF ClockOnly
  <2>3. Behind(r) = 0 \/ Behind(r) < 2 * TMAX_ADJTIM
    <3>1. CASE passed
      BY <1>8, <3>1
    <3>2. CASE ~passed /\ d < 0
      BY <1>8, <3>2
    <3>3. CASE ~passed /\ d >= 0
      <4>1. L - d = 0 \/ L - d < 2 * TMAX_ADJTIM
        BY <1>3, <3>3, Figures
      <4> QED BY <1>8, <3>3, <4>1
    <3> QED BY <3>1, <3>2, <3>3
  <2> HIDE DEF now, b, o, nn, passed, m, M, L
  <2> QED BY <1>4, <1>5, <1>6, <1>7, <2>1, <2>2, <2>3 DEF Clock, Evttim, b, m, M
<1>10. /\ r.tmevt_heap = t.tmevt_heap /\ r.p_tmevtn = t.p_tmevtn /\ r.evttim = t.evttim
       /\ DOMAIN r = Fields /\ Registered(r) = R
  BY <1>7 DEF ClockOnly, Registered
<1>11. IsStore(r)
  BY <1>2, <1>5, <1>7, <1>10 DEF IsStore, Evttim
<1>12. \A e \in R : e \in Event
  <2>1. R \subseteq Event
    BY <1>2 DEF IsStore, Registered, ToSet
  <2> QED BY <2>1
<1>13. ASSUME NEW e \in R PROVE Ahead(r)[e] = K[e] - d
  <2> DEFINE v == t.evttim[e]
  <2>1. v \in Int /\ e \in Event
    BY <1>2, <1>12, Figures DEF IsStore, Evttim
  <2> HIDE DEF v
  <2>2. K[e] = ((v - c) + M) % m
    BY <1>2, <2>1, AheadOf, AdvanceIs DEF v
  <2>3. Ahead(r)[e] = ((v - now) + M) % m
    <3>1. Ahead(r)[e] = EVTTIM_ADVANCE(r, v)
      BY <1>10, <1>11, <2>1, AheadOf DEF v
    <3>2. EVTTIM_ADVANCE(r, v) = ((v - r.current_evttim) + M) % m
      BY <1>9, <2>1, AdvanceIs
    <3> QED BY <1>7, <3>1, <3>2
  <2> HIDE DEF K, m, M, c, now
  <2>4. (v - now) + M = (v + M) - now /\ v + M \in Int
    BY <1>2, <1>4, <2>1
  <2>5. ((v + M) - now) % m = ((v + M) - (c + d)) % m
    <3>1. c + d \in Int
      BY <1>2
    <3> QED BY <1>2, <2>4, <3>1, ModSub DEF now
  <2>6. ((-d) + (((v - c) + M) % m)) % m = ((-d) + ((v - c) + M)) % m
    <3>1. -d \in Int /\ (v - c) + M \in Int
      BY <1>2, <2>1
    <3> QED BY <1>2, <3>1, ModAdd
  <2>7. (v + M) - (c + d) = (-d) + ((v - c) + M)
    BY <1>2, <2>1
  <2>8. Ahead(r)[e] = ((-d) + K[e]) % m
    BY <2>2, <2>3, <2>4, <2>5, <2>6, <2>7
  <2>9. K[e] \in Int /\ K[e] >= 0 /\ K[e] < m
    <3>1. (v - c) + M \in Int
      BY <1>2, <2>1
    <3>2. K[e] \in 0 .. m - 1
      BY <1>2, <2>2, <3>1, ModRange
    <3> QED BY <1>2, <3>2
  <2>10. (-d) + K[e] \in 0 .. m - 1
    <3>1. d <= K[e] /\ K[e] <= M + TMAX_RELTIM + TSTEP_HRTCNT + L
      BY DEF Sound, InReach, K, M
    <3>2. K[e] - d < m
      <4>1. CASE d >= 0
        BY <1>2, <2>9, <4>1
      <4>2. CASE d < 0
        <5>1. L - d < 2 * TMAX_ADJTIM
          BY <4>2
        <5>2. M + TMAX_RELTIM + TSTEP_HRTCNT + 2 * TMAX_ADJTIM <= m
          BY Figures DEF M, m
        <5> HIDE DEF L
        <5> QED BY <1>2, <1>3, <2>9, <3>1, <5>1, <5>2, Figures
      <4> QED BY <4>1, <4>2
    <3> QED BY <1>2, <2>9, <3>1, <3>2
  <2>11. ((-d) + K[e]) % m = (-d) + K[e]
    BY <1>2, <2>10, ModSmall
  <2> QED BY <2>8, <2>9, <2>11
<1> HIDE DEF K
<1>14. \A e \in Event : K[e] \in Int
  BY <1>2, AheadOf DEF K
<1>15. IsHeap(r)
  <2>1. \A i \in 1 .. Len(t.tmevt_heap) : t.tmevt_heap[i] \in R
    BY <1>2 DEF IsStore, Registered, ToSet
  <2>2. \A i \in 2 .. Len(t.tmevt_heap) : K[t.tmevt_heap[i \div 2]] <= K[t.tmevt_heap[i]]
    BY <1>2, OrderIs DEF Sound, IsHeap, K
  <2>3. ASSUME NEW i \in 2 .. Len(t.tmevt_heap)
        PROVE  Ahead(r)[t.tmevt_heap[i \div 2]] <= Ahead(r)[t.tmevt_heap[i]]
    <3> DEFINE x == t.tmevt_heap[i \div 2]
               y == t.tmevt_heap[i]
    <3>1. x \in R /\ y \in R /\ K[x] <= K[y]
      <4>1. i \div 2 \in 1 .. Len(t.tmevt_heap) /\ i \in 1 .. Len(t.tmevt_heap)
        BY <1>2 DEF IsStore
      <4> QED BY <2>1, <2>2, <4>1
    <3> HIDE DEF x, y
    <3>2. Ahead(r)[x] = K[x] - d /\ Ahead(r)[y] = K[y] - d /\ K[x] \in Int /\ K[y] \in Int
      BY <1>12, <1>13, <1>14, <3>1
    <3>3. Ahead(r)[x] <= Ahead(r)[y]
      BY <3>1, <3>2
    <3> QED BY <3>3 DEF x, y
  <2>4. HeapOrder(r)
    BY <1>10, <1>11, <2>3, OrderIs
  <2> QED BY <1>10, <1>11, <2>4 DEF Sound, IsHeap
<1>16. InReach(r)
  <2> SUFFICES ASSUME NEW e \in R
               PROVE  /\ r.hrtcnt_advance <= Ahead(r)[e]
                      /\ Ahead(r)[e] <= M + TMAX_RELTIM + TSTEP_HRTCNT + Behind(r)
    BY <1>10 DEF InReach
  <2>1. /\ d <= K[e] /\ K[e] <= M + TMAX_RELTIM + TSTEP_HRTCNT + L /\ K[e] \in Int
        /\ Ahead(r)[e] = K[e] - d
    BY <1>12, <1>13, <1>14 DEF Sound, InReach, K
  <2>2. r.hrtcnt_advance = 0
    BY <1>7 DEF ClockOnly
  <2>3. Behind(r) \in Int /\ Behind(r) >= L - d
    <3>1. CASE passed
      BY <1>3, <1>8, <3>1
    <3>2. CASE ~passed
      BY <1>3, <1>8, <3>2
    <3> QED BY <3>1, <3>2
  <2> HIDE DEF L, passed
  <2>4. TMAX_RELTIM \in Int /\ TSTEP_HRTCNT \in Int /\ M \in Int
    BY Figures DEF M
  <2> QED BY <1>3, <2>1, <2>2, <2>3, <2>4
<1>17. Sound(r)
  BY <1>9, <1>15, <1>16 DEF Sound
<1> QED BY <1>1, <1>7, <1>8, <1>10, <1>13, <1>17 DEF Moved, K

\* The clock, the heap and the times of the events are the same.
SameStore(r, t) ==
    /\ DOMAIN r = Fields
    /\ r.tmevt_heap = t.tmevt_heap /\ r.p_tmevtn = t.p_tmevtn /\ r.evttim = t.evttim
    /\ r.boundary_evttim = t.boundary_evttim /\ r.current_evttim = t.current_evttim
    /\ r.monotonic_evttim = t.monotonic_evttim /\ r.systim_offset = t.systim_offset

\* The data section stays sound when the clock moves within reach.
LEMMA StaysSound ==
  ASSUME NEW t, Sound(t), NEW r, SameStore(r, t),
         r.in_signal_time \in BOOLEAN, r.started \in [Event -> BOOLEAN],
         r.hrt_event \in Int, r.hrtcnt_advance \in Nat, r.hrtcnt_advance < EVTTIM_MOD,
         \A e \in Registered(t) : r.hrtcnt_advance <= Ahead(t)[e]
  PROVE  Sound(r) /\ Registered(r) = Registered(t) /\ Ahead(r) = Ahead(t) /\ Behind(r) = Behind(t)
<1>1. IsHeap(t) /\ Clock(t) /\ InReach(t)
  BY DEF Sound
<1>2. Registered(r) = Registered(t) /\ Behind(r) = Behind(t)
  BY DEF SameStore, Registered, Behind
<1>3. Ahead(r) = Ahead(t)
  BY DEF SameStore, Ahead, EVTTIM_ADVANCE
<1>4. IsStore(r) /\ IsStore(t)
  BY <1>1 DEF IsHeap, IsStore, SameStore
<1>5. HeapOrder(r)
  <2>1. HeapOrder(t)
    BY <1>1 DEF IsHeap
  <2> QED BY <1>3, <1>4, <2>1, OrderIs DEF SameStore
<1>6. IsHeap(r)
  BY <1>1, <1>4, <1>5 DEF IsHeap, SameStore
<1>7. Clock(r)
  BY <1>1, <1>2 DEF Clock, SameStore
<1>8. InReach(r)
  BY <1>1, <1>2, <1>3 DEF InReach
<1> QED BY <1>2, <1>3, <1>6, <1>7, <1>8 DEF Sound

\* Nothing is earlier than the event at the top.
LEMMA TopIsEarliest ==
  ASSUME NEW t, IsHeap(t), NEW e \in Registered(t)
  PROVE  /\ t.tmevt_heap[1] \in Registered(t) /\ t.tmevt_heap # <<>>
         /\ Ahead(t)[t.tmevt_heap[1]] <= Ahead(t)[e]
<1> DEFINE h == t.tmevt_heap
           N == Len(h)
           K == Ahead(t)
<1>1. IsStore(t) /\ h \in Seq(Event) /\ N \in Nat
  BY DEF IsHeap, IsStore
<1>2. PICK k \in 1 .. N : h[k] = e
  BY <1>1 DEF Registered, ToSet
<1>3. \A i \in 1 .. N : h[i] \in Event /\ K[h[i]] \in Int
  BY <1>1, AheadOf
<1>4. \A i \in 2 .. N : K[h[i \div 2]] <= K[h[i]]
  BY <1>1, OrderIs DEF IsHeap
<1>5. h[1] \in Registered(t) /\ h # <<>> /\ 1 \in 1 .. N
  BY <1>1, <1>2 DEF Registered, ToSet
<1> HIDE DEF K, h
<1> DEFINE T == {i \in 1 .. N : ~(K[h[1]] <= K[h[i]])}
<1>6. T = {}
  <2> SUFFICES ASSUME T # {} PROVE FALSE
    OBVIOUS
  <2> DEFINE i == Min(T)
  <2>1. T \in SUBSET Nat
    BY <1>1
  <2>2. i \in T /\ \A x \in T : i <= x
    <3> HIDE DEF T
    <3> QED BY <2>1, SmallestNat
  <2>3. i \in 1 .. N /\ ~(K[h[1]] <= K[h[i]])
    BY <2>2
  <2> HIDE DEF i
  <2>4. i # 1
    BY <1>3, <1>5, <2>3
  <2>5. i \in 2 .. N /\ i \div 2 \in 1 .. N /\ ~(i <= i \div 2)
    BY <1>1, <2>3, <2>4
  <2>6. K[h[1]] <= K[h[i \div 2]]
    BY <2>2, <2>5
  <2>7. K[h[i \div 2]] <= K[h[i]]
    BY <1>4, <2>5
  <2>8. K[h[1]] \in Int /\ K[h[i \div 2]] \in Int /\ K[h[i]] \in Int
    BY <1>3, <1>5, <2>3, <2>5
  <2>9. \A x, y, z \in Int : x <= y /\ y <= z => x <= z
    OBVIOUS
  <2>10. K[h[1]] <= K[h[i]]
    BY <2>6, <2>7, <2>8, <2>9, Zenon
  <2> QED BY <2>3, <2>10
<1>7. K[h[1]] <= K[e]
  BY <1>2, <1>6
<1> QED BY <1>5, <1>7 DEF K, h

\* update_current_evttim: the count is read.
Updated(r, t) ==
    /\ Sound(r) /\ DOMAIN r = Fields /\ Registered(r) = Registered(t)
    /\ r.tmevt_heap = t.tmevt_heap /\ r.p_tmevtn = t.p_tmevtn /\ r.evttim = t.evttim
    /\ r.started = t.started /\ r.in_signal_time = t.in_signal_time
    /\ r.hrt_event = t.hrt_event /\ r.hrtcnt_advance = 0
    /\ \A e \in Registered(t) : Ahead(r)[e] = Ahead(t)[e] - t.hrtcnt_advance
    /\ Behind(r) = IF Behind(t) < t.hrtcnt_advance THEN 0 ELSE Behind(t) - t.hrtcnt_advance
    /\ r.current_evttim = (t.current_evttim + t.hrtcnt_advance) % EVTTIM_MOD
    /\ r.monotonic_evttim = IF Behind(t) < t.hrtcnt_advance THEN r.current_evttim
                                                            ELSE t.monotonic_evttim
    /\ r.systim_offset = (t.systim_offset
                            + IF Behind(t) < t.hrtcnt_advance /\ r.current_evttim < t.monotonic_evttim
                              THEN EVTTIM_MOD ELSE 0) % SYSTIM_MOD

\* What a sound store's fields are.
LEMMA SoundIs ==
  ASSUME NEW t, Sound(t)
  PROVE  /\ DOMAIN t = Fields /\ IsStore(t) /\ Clock(t) /\ IsHeap(t)
         /\ Registered(t) \subseteq Event
         /\ t.hrtcnt_advance \in Nat /\ t.hrtcnt_advance < EVTTIM_MOD /\ t.hrt_event \in Int
         /\ t.current_evttim \in Int /\ t.monotonic_evttim \in Int /\ t.systim_offset \in Int
         /\ t.in_signal_time \in BOOLEAN /\ t.started \in [Event -> BOOLEAN]
         /\ Behind(t) \in Nat /\ Behind(t) < EVTTIM_MOD
         /\ \A e \in Event : Ahead(t)[e] \in Int
<1>1. IsStore(t) /\ Clock(t) /\ IsHeap(t) /\ DOMAIN t = Fields
  BY DEF Sound, IsHeap, IsStore
<1>2. Registered(t) \subseteq Event
  BY <1>1 DEF IsStore, Registered, ToSet
<1>3. t.current_evttim \in Int /\ t.monotonic_evttim \in Int
  BY <1>1, Figures DEF Clock, Evttim
<1>4. t.systim_offset \in Int
  BY <1>1, Figures DEF Clock
<1>5. Behind(t) \in 0 .. EVTTIM_MOD - 1
  <2>1. t.monotonic_evttim - t.current_evttim \in Int
    BY <1>3
  <2> QED BY <2>1, ModRange, Figures DEF Behind
<1>6. \A e \in Event : Ahead(t)[e] \in Int
  BY <1>1, AheadOf
<1> QED BY <1>1, <1>2, <1>3, <1>4, <1>5, <1>6, Figures DEF Clock

\* What update_current_evttim does.
LEMMA Updates ==
  ASSUME NEW t, Sound(t)
  PROVE  Updated(update_current_evttim(t), t)
<1> DEFINE u == [t EXCEPT !.hrtcnt_advance = 0]
           d == t.hrtcnt_advance
           r == advance_evttim(u, d)
<1>1. /\ DOMAIN t = Fields /\ d \in Nat /\ d < EVTTIM_MOD /\ Registered(t) \subseteq Event
      /\ \A e \in Event : Ahead(t)[e] \in Int
  BY SoundIs
<1>2. d % EVTTIM_MOD = d
  <2>1. d \in 0 .. EVTTIM_MOD - 1
    BY <1>1, Figures
  <2> QED BY <2>1, ModSmall, Figures
<1>3. /\ SameStore(u, t) /\ u.hrtcnt_advance = 0
      /\ u.in_signal_time = t.in_signal_time /\ u.started = t.started
      /\ u.hrt_event = t.hrt_event
  BY <1>1 DEF SameStore, Fields
<1> HIDE DEF u
<1>4. \A e \in Registered(t) : d <= Ahead(t)[e] /\ 0 <= Ahead(t)[e]
  <2>1. \A e \in Registered(t) : d <= Ahead(t)[e] /\ Ahead(t)[e] \in Int
    BY <1>1 DEF Sound, InReach
  <2> HIDE DEF d
  <2> QED BY <1>1, <2>1
<1>5. Sound(u) /\ Registered(u) = Registered(t) /\ Ahead(u) = Ahead(t) /\ Behind(u) = Behind(t)
  <2>1. 0 \in Nat /\ 0 < EVTTIM_MOD
    BY Figures
  <2> QED BY <1>3, <1>4, <2>1, SoundIs, StaysSound
<1>6. update_current_evttim(t) = r
  BY <1>2 DEF update_current_evttim, u
<1>7. Moved(r, u, d)
  <2>1. d \in Int /\ ~(d < 0)
    BY <1>1
  <2> HIDE DEF d
  <2> QED BY <1>1, <1>3, <1>4, <1>5, <2>1, Moves
<1> HIDE DEF r
<1>8. Behind(t) < d => d > 0
  BY SoundIs
<1>9. ~(d > 0 /\ Behind(t) < d) <=> ~(Behind(t) < d)
  BY <1>8
<1> HIDE DEF d
<1>10. /\ Behind(r) = IF Behind(t) < d THEN 0 ELSE Behind(t) - d
       /\ r.current_evttim = (t.current_evttim + d) % EVTTIM_MOD
       /\ r.monotonic_evttim = IF Behind(t) < d THEN r.current_evttim ELSE t.monotonic_evttim
       /\ r.systim_offset = (t.systim_offset
                            + IF Behind(t) < d /\ r.current_evttim < t.monotonic_evttim
                              THEN EVTTIM_MOD ELSE 0) % SYSTIM_MOD
  <2>1. d > 0 /\ Behind(t) < d <=> Behind(t) < d
    BY <1>9
  <2>2. /\ Behind(r) = IF d > 0 /\ Behind(t) < d THEN 0 ELSE Behind(t) - d
        /\ r.current_evttim = (t.current_evttim + d) % EVTTIM_MOD
        /\ r.monotonic_evttim = IF d > 0 /\ Behind(t) < d THEN r.current_evttim
                                ELSE t.monotonic_evttim
        /\ r.systim_offset = (t.systim_offset
                            + IF d > 0 /\ Behind(t) < d /\ r.current_evttim < t.monotonic_evttim
                              THEN EVTTIM_MOD ELSE 0) % SYSTIM_MOD
    BY <1>3, <1>5, <1>7 DEF Moved, SameStore
  <2>3. CASE Behind(t) < d
    BY <1>8, <2>2, <2>3
  <2>4. CASE ~(Behind(t) < d)
    BY <2>2, <2>4
  <2> QED BY <2>3, <2>4
<1>11. /\ Sound(r) /\ ClockOnly(r, u) /\ Registered(r) = Registered(t)
       /\ \A e \in Registered(t) : Ahead(r)[e] = Ahead(t)[e] - d
  BY <1>5, <1>7 DEF Moved
<1>12. /\ DOMAIN r = Fields
       /\ r.tmevt_heap = t.tmevt_heap /\ r.p_tmevtn = t.p_tmevtn /\ r.evttim = t.evttim
       /\ r.started = t.started /\ r.in_signal_time = t.in_signal_time
       /\ r.hrt_event = t.hrt_event /\ r.hrtcnt_advance = 0
  BY <1>3, <1>11 DEF ClockOnly, SameStore
<1> QED BY <1>6, <1>10, <1>11, <1>12 DEF Updated, d

-----------------------------------------------------------------------------
(* What the application sees of a store. *)

\* How far an event is from now, modulo the number of values.
LEMMA ApartIs ==
  ASSUME NEW t, Sound(t), NEW e \in Event
  PROVE  /\ (t.evttim[e] - t.current_evttim) % EVTTIM_MOD
               = IF Ahead(t)[e] < BOUNDARY_MARGIN THEN (Ahead(t)[e] - BOUNDARY_MARGIN) + EVTTIM_MOD
                                                  ELSE Ahead(t)[e] - BOUNDARY_MARGIN
         /\ Ahead(t)[e] \in 0 .. EVTTIM_MOD - 1
<1> DEFINE m == EVTTIM_MOD
           M == BOUNDARY_MARGIN
           x == t.evttim[e] - t.current_evttim
           A == Ahead(t)[e]
<1>1. x \in Int /\ t.evttim[e] \in Int
  BY SoundIs, Figures DEF IsStore, Evttim
<1>2. m \in Nat \ {0} /\ M \in Nat /\ M < m
  BY Figures
<1>3. A = (x + M) % m
  BY <1>1, SoundIs, AheadOf, AdvanceIs
<1> HIDE DEF x, m, M, A
<1>4. A \in 0 .. m - 1
  <2>1. x + M \in Int
    BY <1>1, <1>2
  <2> QED BY <1>2, <1>3, <2>1, ModRange
<1>5. x % m = (A - M) % m
  <2>1. ((-M) + ((x + M) % m)) % m = ((-M) + (x + M)) % m
    <3>1. -M \in Int /\ x + M \in Int
      BY <1>1, <1>2
    <3> QED BY <1>2, <3>1, ModAdd
  <2>2. (-M) + (x + M) = x
    BY <1>1, <1>2
  <2>3. (-M) + A = A - M
    BY <1>2, <1>4
  <2> QED BY <1>3, <2>1, <2>2, <2>3
<1>6. (A - M) % m = IF A < M THEN (A - M) + m ELSE A - M
  <2>1. A - M \in Int /\ -m <= A - M /\ A - M < 2 * m
    BY <1>2, <1>4
  <2>2. (A - M) % m = IF A - M < 0 THEN (A - M) + m ELSE IF A - M < m THEN A - M ELSE (A - M) - m
    BY <1>2, <2>1, ModOnce
  <2>3. A - M < m /\ (A - M < 0 <=> A < M)
    BY <1>2, <1>4
  <2> QED BY <2>2, <2>3
<1> QED BY <1>4, <1>5, <1>6 DEF m, M, x, A

\* The time that is left, in the kernel's own numbers.
LEMMA LeftIs ==
  ASSUME NEW t, Sound(t), NEW e \in Event
  PROVE  /\ Left(t, e) = (Ahead(t)[e] - BOUNDARY_MARGIN) - t.hrtcnt_advance
         /\ Left(t, e) \in Int
<1> DEFINE m == EVTTIM_MOD
           M == BOUNDARY_MARGIN
           x == t.evttim[e] - t.current_evttim
           A == Ahead(t)[e]
<1>1. t.hrtcnt_advance \in Int
  BY SoundIs
<1>2. m \in Nat \ {0} /\ M \in Nat /\ M < m
  BY Figures
<1>3. x % m = (IF A < M THEN (A - M) + m ELSE A - M) /\ A \in 0 .. m - 1
  BY ApartIs
<1> HIDE DEF x, m, M, A
<1>7. Signed(x % m) = A - M
  <2>1. CASE A < M
    <3>1. x % m = (A - M) + m /\ (A - M) + m >= m - M
      BY <1>2, <1>3, <2>1
    <3>2. ((A - M) + m) - m = A - M
      BY <1>2, <1>3
    <3> QED BY <3>1, <3>2 DEF Signed, m, M
  <2>2. CASE ~(A < M)
    <3>1. x % m = A - M /\ ~(A - M >= m - M)
      BY <1>2, <1>3, <2>2
    <3> QED BY <3>1 DEF Signed, m, M
  <2> QED BY <2>1, <2>2
<1>8. Left(t, e) = (A - M) - t.hrtcnt_advance
  BY <1>7 DEF Left, x, m
<1> QED BY <1>1, <1>2, <1>3, <1>8 DEF A, M

\* The system time, if the count were not read.
Gone(t) == IF Behind(t) < t.hrtcnt_advance THEN t.hrtcnt_advance - Behind(t) ELSE 0

\* The system time, from the clocks and the count not yet read.
LEMMA SystimIs ==
  ASSUME NEW t, Sound(t)
  PROVE  /\ systim_now(t) = ((t.systim_offset + t.monotonic_evttim) + Gone(t)) % SYSTIM_MOD
         /\ systim_now(t) \in 0 .. SYSTIM_MOD - 1
<1> DEFINE r == update_current_evttim(t)
           m == EVTTIM_MOD
           d == t.hrtcnt_advance
           L == Behind(t)
           n == t.monotonic_evttim
           c == t.current_evttim
           o == t.systim_offset
           now == r.current_evttim
           carry == IF L < d /\ now < n THEN m ELSE 0
<1>1. /\ now = (c + d) % m
      /\ r.monotonic_evttim = IF L < d THEN now ELSE n
      /\ r.systim_offset = (o + carry) % SYSTIM_MOD
  BY Updates DEF Updated
<1>2. /\ c \in Int /\ n \in Int /\ o \in Int /\ d \in Nat /\ d < m /\ L \in Nat /\ L < m
      /\ n \in 0 .. m - 1 /\ L = (n - c) % m
  <2>1. n \in 0 .. m - 1
    BY SoundIs DEF Clock, Evttim
  <2> QED BY <2>1, SoundIs DEF Behind
<1>3. m \in Nat \ {0} /\ m \in Int /\ SYSTIM_MOD \in Nat \ {0}
  BY Figures
<1>4. systim_now(t) = (r.systim_offset + r.monotonic_evttim) % SYSTIM_MOD
  BY DEF systim_now
<1> HIDE DEF r, m, d, L, n, c, o
<1>5. now \in 0 .. m - 1 /\ now \in Int /\ carry \in Int
  <2>1. c + d \in Int
    BY <1>2
  <2>2. now \in 0 .. m - 1
    BY <1>1, <1>3, <2>1, ModRange
  <2> QED BY <1>3, <2>2
<1> HIDE DEF carry, now
<1>6. r.monotonic_evttim \in Int
  BY <1>1, <1>2, <1>5
<1>7. (r.systim_offset + r.monotonic_evttim) % SYSTIM_MOD
         = ((o + carry) + r.monotonic_evttim) % SYSTIM_MOD
  <2> DEFINE y == r.monotonic_evttim
             x == o + carry
  <2>1. x \in Int /\ y \in Int
    BY <1>2, <1>5, <1>6
  <2> HIDE DEF x, y
  <2>2. (y + (x % SYSTIM_MOD)) % SYSTIM_MOD = (y + x) % SYSTIM_MOD
    BY <1>3, <2>1, ModAdd
  <2>3. y + (x % SYSTIM_MOD) = (x % SYSTIM_MOD) + y /\ y + x = x + y
    <3>1. x % SYSTIM_MOD \in Int
      BY <1>3, <2>1, ModRange
    <3> QED BY <2>1, <3>1
  <2> QED BY <1>1, <2>2, <2>3 DEF x, y
<1>8. carry + r.monotonic_evttim = n + (IF L < d THEN d - L ELSE 0)
  <2>1. CASE ~(L < d)
    BY <1>1, <1>2, <2>1 DEF carry
  <2>2. CASE L < d
    <3>1. now = (n + (d - L)) % m
      <4> DEFINE q == n + d
      <4>1. q \in Int /\ n - c \in Int
        BY <1>2
      <4>2. (q - L) % m = (q - (n - c)) % m
        BY <1>2, <1>3, <4>1, ModSub
      <4>3. q - (n - c) = c + d /\ q - L = n + (d - L)
        BY <1>2
      <4> HIDE DEF q
      <4> QED BY <1>1, <4>2, <4>3
    <3>2. n + (d - L) \in Int /\ -m <= n + (d - L) /\ n + (d - L) < 2 * m /\ ~(n + (d - L) < 0)
      BY <1>2, <1>3, <2>2
    <3>3. now = IF n + (d - L) < m THEN n + (d - L) ELSE (n + (d - L)) - m
      BY <1>3, <3>1, <3>2, ModOnce
    <3>4. CASE n + (d - L) < m
      <4>1. now = n + (d - L) /\ ~(now < n)
        BY <1>2, <2>2, <3>3, <3>4
      <4> QED BY <1>1, <1>2, <2>2, <4>1 DEF carry
    <3>5. CASE ~(n + (d - L) < m)
      <4>1. now = (n + (d - L)) - m /\ now < n
        BY <1>2, <1>3, <2>2, <3>3, <3>5
      <4>2. carry = m /\ r.monotonic_evttim = now
        BY <1>1, <2>2, <4>1 DEF carry
      <4> QED BY <1>2, <1>3, <2>2, <4>1, <4>2
    <3> QED BY <3>4, <3>5
  <2> QED BY <2>1, <2>2
<1>9. (o + carry) + r.monotonic_evttim = (o + n) + Gone(t)
  <2>1. (o + carry) + r.monotonic_evttim = o + (carry + r.monotonic_evttim)
    BY <1>2, <1>5, <1>6
  <2>2. Gone(t) = IF L < d THEN d - L ELSE 0
    BY DEF Gone, L, d
  <2>3. Gone(t) \in Int
    BY <1>2, <2>2
  <2> QED BY <1>2, <1>8, <2>1, <2>2, <2>3
<1>10. systim_now(t) \in 0 .. SYSTIM_MOD - 1
  <2>1. (o + carry) + r.monotonic_evttim \in Int
    BY <1>2, <1>5, <1>6
  <2> QED BY <1>3, <1>4, <1>7, <2>1, ModRange
<1> QED BY <1>4, <1>7, <1>9, <1>10 DEF o, n

\* The time left as the reference calls report it.
LEMMA LefttimIs ==
  ASSUME NEW t, Sound(t), NEW e \in Registered(t)
  PROVE  tmevt_lefttim(t, e) = IF Left(t, e) - TSTEP_HRTCNT > 0 THEN Left(t, e) - TSTEP_HRTCNT ELSE 0
<1> DEFINE r == update_current_evttim(t)
           m == EVTTIM_MOD
           M == BOUNDARY_MARGIN
           S == TSTEP_HRTCNT
           A == Ahead(r)[e]
           v == t.evttim[e]
           ub == calc_current_evttim_ub(r)
<1>1. /\ Sound(r) /\ r.evttim = t.evttim /\ A = Ahead(t)[e] - t.hrtcnt_advance
      /\ Registered(r) = Registered(t)
  BY Updates DEF Updated
<1>2. /\ e \in Event /\ Clock(r) /\ IsStore(r) /\ r.current_evttim \in Int
      /\ A \in Int /\ Ahead(t)[e] \in Int /\ t.hrtcnt_advance \in Int
  BY <1>1, SoundIs
<1>3. /\ m \in Nat \ {0} /\ M \in Nat /\ S \in Nat /\ M + S < m
  BY Figures
<1>4. Left(t, e) = A - M
  <2>1. Left(t, e) = (Ahead(t)[e] - M) - t.hrtcnt_advance
    BY <1>2, LeftIs
  <2> HIDE DEF A, M, r
  <2> QED BY <1>1, <1>2, <1>3, <2>1
<1>5. tmevt_lefttim(t, e) = IF EVTTIM_LE(r, v, ub) THEN 0 ELSE (v - ub) % m
  BY DEF tmevt_lefttim
<1>6. EVTTIM_ADVANCE(r, v) = A /\ v \in Int
  <2>1. v \in Int
    BY <1>1, <1>2, Figures DEF IsStore, Evttim
  <2> QED BY <1>1, <1>2, <2>1, AheadOf
<1>7. EVTTIM_ADVANCE(r, ub) = M + S
  <2>1. EVTTIM_ADVANCE(r, ub) = (M + S) % m
    BY <1>2, <1>3, AheadNow DEF calc_current_evttim_ub
  <2>2. M + S \in 0 .. m - 1
    BY <1>3
  <2> QED BY <1>3, <2>1, <2>2, ModSmall
<1>8. EVTTIM_LE(r, v, ub) <=> A <= M + S
  BY <1>6, <1>7 DEF EVTTIM_LE
<1>9. A \in 0 .. m - 1
  <2>1. EVTTIM_ADVANCE(r, v) = ((v - r.current_evttim) + M) % m
    BY <1>2, <1>6, AdvanceIs
  <2>2. (v - r.current_evttim) + M \in Int
    BY <1>2, <1>3, <1>6
  <2> HIDE DEF A, M, m, v, r
  <2> QED BY <1>3, <1>6, <2>1, <2>2, ModRange
<1>10. A > M + S => (v - ub) % m = A - (M + S)
  <2> SUFFICES ASSUME A > M + S PROVE (v - ub) % m = A - (M + S)
    OBVIOUS
  <2> DEFINE c == r.current_evttim
             x == (v - c) + M
  <2>0. EVTTIM_ADVANCE(r, v) = x % m
    BY <1>2, <1>6, AdvanceIs
  <2>1. c \in Int /\ x \in Int /\ A = x % m /\ ub = (c + S) % m /\ c + S \in Int
    <3>1. ub = (c + S) % m
      BY DEF calc_current_evttim_ub
    <3> HIDE DEF A, ub, v, r, M, m, S
    <3>2. c \in Int /\ v - c \in Int
      BY <1>2, <1>6
    <3> HIDE DEF c
    <3> QED BY <1>3, <1>6, <2>0, <3>1, <3>2
  <2> HIDE DEF A, c, x, ub, m, M, S, v
  <2>2. (v - ub) % m = (v - (c + S)) % m
    BY <1>3, <1>6, <2>1, ModSub
  <2>3. v - (c + S) = (-(M + S)) + x
    BY <1>3, <1>6, <2>1 DEF x
  <2>4. ((-(M + S)) + (x % m)) % m = ((-(M + S)) + x) % m
    <3>1. -(M + S) \in Int
      BY <1>3
    <3> QED BY <1>3, <2>1, <3>1, ModAdd
  <2>5. (-(M + S)) + A = A - (M + S) /\ A - (M + S) \in 0 .. m - 1
    BY <1>2, <1>3, <1>9
  <2>6. (A - (M + S)) % m = A - (M + S)
    BY <1>3, <2>5, ModSmall
  <2> QED BY <2>1, <2>2, <2>3, <2>4, <2>5, <2>6
<1> HIDE DEF A, ub, m, M, S, v, r
<1>11. CASE A <= M + S
  <2>1. ~(Left(t, e) - S > 0)
    BY <1>2, <1>3, <1>4, <1>11
  <2> QED BY <1>5, <1>8, <1>11, <2>1 DEF S
<1>12. CASE ~(A <= M + S)
  <2>1. A > M + S /\ Left(t, e) - S = A - (M + S) /\ Left(t, e) - S > 0
    BY <1>2, <1>3, <1>4, <1>12
  <2> QED BY <1>5, <1>8, <1>10, <1>12, <2>1 DEF S
<1> QED BY <1>11, <1>12

-----------------------------------------------------------------------------
(* The timer. *)

\* Between two runs of signal_time: the timer interrupts in time for every
\* event, and the count is read before it has gone round.
Resting(t) ==
    IF SYSTICK
    THEN /\ t.hrtcnt_advance = 0
         /\ \A e \in Registered(t) : Ahead(t)[e] > BOUNDARY_MARGIN - 2 * TMAX_ADJTIM
    ELSE /\ t.hrt_event + t.hrtcnt_advance <= HRTCNT_BOUND
         /\ t.hrt_event >= -LATENCY
         /\ \A e \in Registered(t) :
               t.hrt_event <= 0
                  \/ t.hrt_event <= (Ahead(t)[e] - BOUNDARY_MARGIN) - t.hrtcnt_advance

\* While signal_time runs.
Busy(t) == IF SYSTICK THEN t.hrtcnt_advance = 0 ELSE t.hrtcnt_advance <= LATENCY

\* The data section between two steps.
State(t) == Sound(t) /\ IF t.in_signal_time THEN Busy(t) ELSE Resting(t)

\* Nothing but the flags, the timer and the count differ.
Alike(r, t) ==
    /\ Sound(r) /\ SameStore(r, t)
    /\ Registered(r) = Registered(t) /\ Ahead(r) = Ahead(t) /\ Behind(r) = Behind(t)

\* Nothing but the timer differs.
Timed(r, t) ==
    /\ Alike(r, t)
    /\ r.in_signal_time = t.in_signal_time /\ r.started = t.started
    /\ r.hrtcnt_advance = t.hrtcnt_advance

\* Setting the timer.
LEMMA SetTimer ==
  ASSUME NEW t, Sound(t), NEW x \in Int
  PROVE  Timed([t EXCEPT !.hrt_event = x], t) /\ [t EXCEPT !.hrt_event = x].hrt_event = x
<1> DEFINE r == [t EXCEPT !.hrt_event = x]
<1>1. DOMAIN t = Fields
  BY SoundIs
<1>2. /\ SameStore(r, t) /\ r.in_signal_time = t.in_signal_time /\ r.started = t.started
      /\ r.hrtcnt_advance = t.hrtcnt_advance /\ r.hrt_event = x
  BY <1>1 DEF SameStore, Fields
<1> HIDE DEF r
<1>3. \A e \in Registered(t) : r.hrtcnt_advance <= Ahead(t)[e]
  BY <1>2 DEF Sound, InReach
<1>4. /\ r.in_signal_time \in BOOLEAN /\ r.started \in [Event -> BOOLEAN]
      /\ r.hrt_event \in Int /\ r.hrtcnt_advance \in Nat /\ r.hrtcnt_advance < EVTTIM_MOD
  BY <1>2, SoundIs
<1>5. Sound(r) /\ Registered(r) = Registered(t) /\ Ahead(r) = Ahead(t) /\ Behind(r) = Behind(t)
  BY <1>2, <1>3, <1>4, StaysSound
<1> QED BY <1>2, <1>5 DEF Timed, Alike, r

\* The time now, as the kernel compares it.
LEMMA NowIs ==
  ASSUME NEW t, Sound(t)
  PROVE  EVTTIM_ADVANCE(t, t.current_evttim) = BOUNDARY_MARGIN
<1> DEFINE c == t.current_evttim
           m == EVTTIM_MOD
<1>1. c \in 0 .. m - 1 /\ c \in Int /\ m \in Nat \ {0} /\ Clock(t)
  BY SoundIs, Figures DEF Clock, Evttim
<1>2. c + 0 = c /\ c % m = c
  <2> HIDE DEF c, m
  <2> QED BY <1>1, ModSmall
<1>3. EVTTIM_ADVANCE(t, (c + 0) % m) = (BOUNDARY_MARGIN + 0) % m
  BY <1>1, AheadNow
<1>4. BOUNDARY_MARGIN + 0 = BOUNDARY_MARGIN /\ BOUNDARY_MARGIN % m = BOUNDARY_MARGIN
  <2>1. BOUNDARY_MARGIN \in 0 .. m - 1
    BY Figures
  <2> HIDE DEF m
  <2> QED BY <1>1, <2>1, Figures, ModSmall
<1> QED BY <1>2, <1>3, <1>4

\* set_hrt_event, just after the count has been read.
LEMMA Sets ==
  ASSUME NEW t, Sound(t), t.hrtcnt_advance = 0,
         SYSTICK => \A e \in Registered(t) : Ahead(t)[e] > BOUNDARY_MARGIN - 2 * TMAX_ADJTIM
  PROVE  Timed(set_hrt_event(t), t) /\ Resting(set_hrt_event(t))
<1>1. CASE SYSTICK
  <2>1. set_hrt_event(t) = t
    BY <1>1 DEF set_hrt_event, target_hrt_raise_event, target_hrt_set_event
  <2>2. Resting(t)
    BY <1>1 DEF Resting
  <2>3. Timed(t, t)
    BY SoundIs DEF Timed, Alike, SameStore
  <2> QED BY <2>1, <2>2, <2>3
<1>2. CASE ~SYSTICK
  <2> DEFINE h == t.tmevt_heap
             d == (top_evttim(t) - t.current_evttim) % EVTTIM_MOD
             le == EVTTIM_LE(t, top_evttim(t), t.current_evttim)
             x == IF h = <<>> THEN HRTCNT_BOUND
                  ELSE IF le THEN 0
                  ELSE IF d > HRTCNT_BOUND THEN HRTCNT_BOUND ELSE d
             r == [t EXCEPT !.hrt_event = x]
  <2>1. set_hrt_event(t) = r
    BY <1>2 DEF set_hrt_event, target_hrt_raise_event, target_hrt_set_event
  <2>2. /\ x \in Int /\ x <= HRTCNT_BOUND /\ x >= 0
        /\ \A e \in Registered(t) : x <= 0 \/ x <= Ahead(t)[e] - BOUNDARY_MARGIN
    <3>1. CASE h = <<>>
      <4>1. Registered(t) = {}
        BY <3>1 DEF Registered, ToSet
      <4>2. x = HRTCNT_BOUND
        BY <3>1
      <4> QED BY <4>1, <4>2, Figures
    <3>2. CASE h # <<>>
      <4> DEFINE g == h[1]
                 A == Ahead(t)[g]
                 M == BOUNDARY_MARGIN
      <4>1. g \in Registered(t) /\ g \in Event /\ top_evttim(t) = t.evttim[g]
        <5>1. h \in Seq(Event) /\ h # <<>>
          BY <3>2, SoundIs DEF IsStore
        <5>2. 1 \in 1 .. Len(h)
          BY <5>1
        <5> QED BY <5>1, <5>2 DEF Registered, ToSet, top_evttim, node_evttim
      <4>2. \A e \in Registered(t) : A <= Ahead(t)[e] /\ Ahead(t)[e] \in Int
        BY SoundIs, TopIsEarliest
      <4>3. le <=> A <= M
        <5>1. EVTTIM_ADVANCE(t, t.evttim[g]) = A
          BY <4>1, SoundIs, AheadOf
        <5> QED BY <4>1, <5>1, NowIs DEF EVTTIM_LE
      <4>4. d = (IF A < M THEN (A - M) + EVTTIM_MOD ELSE A - M) /\ A \in Int /\ M \in Int
        <5>1. A \in Int
          BY <4>1, SoundIs
        <5> QED BY <4>1, <5>1, ApartIs, Figures
      <4> HIDE DEF d, le, h, g, A, M
      <4>5. CASE le
        <5>1. x = 0
          BY <3>2, <4>5
        <5> QED BY <5>1, Figures
      <4>6. CASE ~le
        <5>1. d = A - M /\ A > M
          BY <4>3, <4>4, <4>6
        <5>2. x = IF d > HRTCNT_BOUND THEN HRTCNT_BOUND ELSE d
          BY <3>2, <4>6
        <5>3. x \in Int /\ x <= HRTCNT_BOUND /\ x >= 0 /\ x <= A - M
          BY <4>4, <5>1, <5>2, Figures
        <5> HIDE DEF x
        <5>4. ASSUME NEW e \in Registered(t) PROVE x <= Ahead(t)[e] - M
          BY <4>2, <4>4, <5>3
        <5> QED BY <5>3, <5>4 DEF M
      <4> QED BY <4>5, <4>6
    <3> QED BY <3>1, <3>2
  <2> HIDE DEF x
  <2>3. Timed(r, t) /\ r.hrt_event = x
    BY <2>2, SetTimer
  <2> HIDE DEF r
  <2>4. r.hrtcnt_advance = 0 /\ Registered(r) = Registered(t) /\ Ahead(r) = Ahead(t)
    BY <2>3 DEF Timed, Alike
  <2>5. \A e \in Registered(t) : Ahead(t)[e] - BOUNDARY_MARGIN \in Int
    BY SoundIs, Figures
  <2>6. \A e \in Registered(t) : (Ahead(t)[e] - BOUNDARY_MARGIN) - 0 = Ahead(t)[e] - BOUNDARY_MARGIN
    BY <2>5
  <2>7. x + 0 = x /\ x >= -LATENCY
    BY <2>2, Figures
  <2> QED BY <1>2, <2>1, <2>2, <2>3, <2>4, <2>6, <2>7 DEF Resting
<1> QED BY <1>1, <1>2

-----------------------------------------------------------------------------
(* What an operation keeps of what the application sees. *)

\* How far the clock is behind, had the count been read.
Late(t) ==
    IF Behind(t) - t.hrtcnt_advance > 0 THEN Behind(t) - t.hrtcnt_advance ELSE 0

\* The system time is the same, and the time left for the events R.
Keeps(r, t, R) ==
    /\ systim_now(r) = systim_now(t) /\ Late(r) = Late(t)
    /\ \A x \in R : Left(r, x) = Left(t, x)

\* Fewer events are kept too.
LEMMA KeepsFewer ==
  ASSUME NEW r, NEW t, NEW R, NEW Q, Keeps(r, t, R), Q \subseteq R
  PROVE  Keeps(r, t, Q)
BY DEF Keeps

\* What two steps keep is kept.
LEMMA KeepsTwice ==
  ASSUME NEW r, NEW s, NEW t, NEW R, NEW Q, Keeps(r, s, Q), Keeps(s, t, R), R \subseteq Q
  PROVE  Keeps(r, t, R)
BY DEF Keeps

\* The clock is as it was, the flags apart.
SameClock(r, t) ==
    /\ r.monotonic_evttim = t.monotonic_evttim /\ r.current_evttim = t.current_evttim
    /\ r.systim_offset = t.systim_offset
    /\ r.hrtcnt_advance = t.hrtcnt_advance

\* If no clock changes, events keep the time left if they keep the time ahead.
LEMMA ClockKeeps ==
  ASSUME NEW r, NEW t, Sound(r), Sound(t), SameClock(r, t), NEW R, R \subseteq Event,
         \A x \in R : Ahead(r)[x] = Ahead(t)[x]
  PROVE  Keeps(r, t, R)
<1>1. Behind(r) = Behind(t)
  BY DEF SameClock, Behind
<1>2. Late(r) = Late(t) /\ Gone(r) = Gone(t)
  BY <1>1 DEF Late, Gone, SameClock
<1>3. systim_now(r) = systim_now(t)
  <2>1. systim_now(r) = ((r.systim_offset + r.monotonic_evttim) + Gone(r)) % SYSTIM_MOD
    BY SystimIs
  <2>2. systim_now(t) = ((t.systim_offset + t.monotonic_evttim) + Gone(t)) % SYSTIM_MOD
    BY SystimIs
  <2> QED BY <1>2, <2>1, <2>2 DEF SameClock
<1>4. ASSUME NEW x \in R PROVE Left(r, x) = Left(t, x)
  <2>1. Left(r, x) = (Ahead(r)[x] - BOUNDARY_MARGIN) - r.hrtcnt_advance
    BY LeftIs
  <2>2. Left(t, x) = (Ahead(t)[x] - BOUNDARY_MARGIN) - t.hrtcnt_advance
    BY LeftIs
  <2> QED BY <2>1, <2>2 DEF SameClock
<1> QED BY <1>2, <1>3, <1>4 DEF Keeps

\* Setting the timer keeps the times.
LEMMA TimedKeeps ==
  ASSUME NEW r, NEW t, Sound(t), Timed(r, t)
  PROVE  Keeps(r, t, Registered(t))
<1>1. Sound(r) /\ SameClock(r, t) /\ \A x \in Registered(t) : Ahead(r)[x] = Ahead(t)[x]
  BY DEF Timed, Alike, SameStore, SameClock
<1> QED BY <1>1, SoundIs, ClockKeeps

\* Reading the count keeps the times: they count from now.
LEMMA UpdateKeeps ==
  ASSUME NEW r, NEW t, Sound(t), r = update_current_evttim(t)
  PROVE  Updated(r, t) /\ Keeps(r, t, Registered(t))
<1> DEFINE d == t.hrtcnt_advance
           L == Behind(t)
<1>1. Updated(r, t)
  BY Updates
<1>2. /\ Sound(r) /\ r.hrtcnt_advance = 0
      /\ \A e \in Registered(t) : Ahead(r)[e] = Ahead(t)[e] - d
      /\ Behind(r) = IF L < d THEN 0 ELSE L - d
  BY <1>1 DEF Updated
<1>3. d \in Int /\ L \in Int /\ \A e \in Registered(t) : e \in Event /\ Ahead(t)[e] \in Int
  <2>1. d \in Nat /\ L \in Nat
    BY SoundIs
  <2>2. \A e \in Registered(t) : e \in Event /\ Ahead(t)[e] \in Int
    BY SoundIs
  <2> QED BY <2>1, <2>2
<1>4. Late(r) = Late(t)
  <2>1. Late(r) = IF Behind(r) - 0 > 0 THEN Behind(r) - 0 ELSE 0
    BY <1>2 DEF Late
  <2>2. Late(t) = IF L - d > 0 THEN L - d ELSE 0
    BY DEF Late
  <2> HIDE DEF d, L
  <2>3. CASE L < d
    BY <1>2, <1>3, <2>1, <2>2, <2>3
  <2>4. CASE ~(L < d)
    BY <1>2, <1>3, <2>1, <2>2, <2>4
  <2> QED BY <2>3, <2>4
<1>5. systim_now(r) = systim_now(t)
  <2>1. systim_now(t) = (r.systim_offset + r.monotonic_evttim) % SYSTIM_MOD
    BY DEF systim_now
  <2>2. systim_now(r) = ((r.systim_offset + r.monotonic_evttim) + Gone(r)) % SYSTIM_MOD
    BY <1>2, SystimIs
  <2>3. Gone(r) = 0
    <3>1. Behind(r) \in Nat
      BY <1>2, SoundIs
    <3> QED BY <1>2, <3>1 DEF Gone
  <2>4. r.systim_offset + r.monotonic_evttim \in Int
    BY <1>2, SoundIs
  <2>5. (r.systim_offset + r.monotonic_evttim) + 0 = r.systim_offset + r.monotonic_evttim
    BY <2>4
  <2> QED BY <2>1, <2>2, <2>3, <2>5
<1>6. ASSUME NEW x \in Registered(t) PROVE Left(r, x) = Left(t, x)
  <2>1. x \in Event /\ Ahead(t)[x] \in Int /\ Ahead(r)[x] = Ahead(t)[x] - d
    BY <1>2, <1>3
  <2>2. Left(r, x) = (Ahead(r)[x] - BOUNDARY_MARGIN) - 0
    BY <1>2, <2>1, LeftIs
  <2>3. Left(t, x) = (Ahead(t)[x] - BOUNDARY_MARGIN) - d
    BY <2>1, LeftIs
  <2> HIDE DEF d
  <2> QED BY <1>3, <2>1, <2>2, <2>3, Figures
<1> QED BY <1>1, <1>4, <1>5, <1>6 DEF Keeps

-----------------------------------------------------------------------------
(* Events come and go. *)

\* The clock, the flags and the timer are as they were.
Rest(r, t) ==
    /\ SameClock(r, t) /\ r.boundary_evttim = t.boundary_evttim
    /\ r.in_signal_time = t.in_signal_time /\ r.started = t.started
    /\ r.hrt_event = t.hrt_event /\ DOMAIN r = Fields

\* The clocks and flags do not change with the heap.
LEMMA RestClock ==
  ASSUME NEW r, NEW t, Clock(t), Rest(r, t)
  PROVE  Clock(r) /\ Behind(r) = Behind(t)
<1>1. Behind(r) = Behind(t)
  BY DEF Rest, SameClock, Behind
<1> QED BY <1>1 DEF Rest, SameClock, Clock

\* A heap with no more events than it had.
Reduced(r, t, R) ==
    /\ Sound(r) /\ Registered(r) = R /\ Rest(r, t) /\ r.evttim = t.evttim
    /\ Ahead(r) = Ahead(t) /\ Behind(r) = Behind(t) /\ Keeps(r, t, R)

\* A heap of fewer events is sound.
LEMMA Fewer ==
  ASSUME NEW r, NEW t, Sound(t), NEW R, R \subseteq Registered(t), Becomes(r, t, R)
  PROVE  Reduced(r, t, R)
<1>1. IsHeap(r) /\ HeapOnly(r, t) /\ Registered(r) = R
  BY DEF Becomes
<1>2. Rest(r, t) /\ SameClock(r, t) /\ r.evttim = t.evttim
  BY <1>1 DEF HeapOnly, Rest, SameClock
<1>3. Ahead(r) = Ahead(t)
  BY <1>1, SameAhead
<1>4. Clock(r) /\ Behind(r) = Behind(t)
  BY <1>2, SoundIs, RestClock
<1>5. Sound(r)
  <2>1. InReach(r)
    BY <1>1, <1>2, <1>3, <1>4 DEF Sound, InReach, SameClock
  <2> QED BY <1>1, <1>4, <2>1 DEF Sound
<1>6. Keeps(r, t, R)
  <2>1. R \subseteq Event
    BY SoundIs
  <2> QED BY <1>2, <1>3, <1>5, <2>1, ClockKeeps
<1> QED BY <1>1, <1>2, <1>3, <1>4, <1>5, <1>6 DEF Reduced

\* An event more, so far ahead.
Joined(r, t, e, a) ==
    /\ Sound(r) /\ Registered(r) = Registered(t) \cup {e} /\ Rest(r, t)
    /\ Ahead(r)[e] = a /\ \A x \in Registered(t) : Ahead(r)[x] = Ahead(t)[x]
    /\ Behind(r) = Behind(t) /\ Keeps(r, t, Registered(t))

\* Inserting an event that is in reach.
LEMMA Inserts ==
  ASSUME NEW t, Sound(t), NEW e \in Event, e \notin Registered(t), NEW v \in Evttim,
         NEW a \in Int, EVTTIM_ADVANCE(t, v) = a, t.hrtcnt_advance <= a,
         a <= BOUNDARY_MARGIN + TMAX_RELTIM + TSTEP_HRTCNT + Behind(t)
  PROVE  Joined(tmevtb_insert([t EXCEPT !.evttim[e] = v], e), t, e, a)
<1> DEFINE u == [t EXCEPT !.evttim[e] = v]
           h == t.tmevt_heap
           K == Ahead(t)
<1>1. /\ DOMAIN t = Fields /\ IsStore(t) /\ Clock(t) /\ IsHeap(t) /\ Registered(t) \subseteq Event
      /\ InReach(t)
  BY SoundIs DEF Sound
<1>2. /\ DOMAIN u = Fields /\ u.evttim = [t.evttim EXCEPT ![e] = v]
      /\ u.tmevt_heap = h /\ u.p_tmevtn = t.p_tmevtn /\ Rest(u, t)
  BY <1>1 DEF Fields, Rest, SameClock
<1> HIDE DEF u
<1>3. t.evttim \in [Event -> Evttim] /\ h \in Seq(Event)
  BY <1>1 DEF IsStore
<1>4. u.evttim \in [Event -> Evttim] /\ u.evttim[e] = v
      /\ \A x \in Event : x # e => u.evttim[x] = t.evttim[x]
  BY <1>2, <1>3
<1>5. IsStore(u) /\ Registered(u) = Registered(t)
  BY <1>1, <1>2, <1>4 DEF IsStore, Rest, Registered
<1>6. Ahead(u)[e] = a /\ \A x \in Event : x # e => Ahead(u)[x] = K[x]
  <2>1. \A w : EVTTIM_ADVANCE(u, w) = EVTTIM_ADVANCE(t, w)
    BY <1>2 DEF EVTTIM_ADVANCE, Rest
  <2>2. Ahead(u)[e] = EVTTIM_ADVANCE(u, u.evttim[e])
    BY <1>5, AheadOf
  <2>3. ASSUME NEW x \in Event, x # e PROVE Ahead(u)[x] = K[x]
    <3>1. Ahead(u)[x] = EVTTIM_ADVANCE(u, u.evttim[x])
      BY <1>5, AheadOf
    <3>2. K[x] = EVTTIM_ADVANCE(t, t.evttim[x])
      BY <1>1, AheadOf
    <3> QED BY <1>4, <2>1, <2>3, <3>1, <3>2
  <2> QED BY <1>4, <2>1, <2>2, <2>3
<1> HIDE DEF K
<1>7. IsHeap(u)
  <2>1. \A i \in 1 .. Len(h) : h[i] \in Event /\ h[i] # e
    <3>1. \A i \in 1 .. Len(h) : h[i] \in Registered(t)
      BY <1>3 DEF Registered, ToSet
    <3> QED BY <1>1, <3>1
  <2>2. \A n \in 2 .. Len(h) : K[h[n \div 2]] <= K[h[n]]
    BY <1>1, OrderIs DEF IsHeap, K
  <2>3. \A n \in 2 .. Len(h) : n \in 1 .. Len(h) /\ n \div 2 \in 1 .. Len(h)
    BY <1>3
  <2>4. \A n \in 2 .. Len(h) : Ahead(u)[h[n \div 2]] <= Ahead(u)[h[n]]
    BY <1>6, <2>1, <2>2, <2>3
  <2>5. HeapOrder(u)
    BY <1>2, <1>5, <2>4, OrderIs
  <2> QED BY <1>1, <1>2, <1>5, <2>5 DEF IsHeap
<1> DEFINE r == tmevtb_insert(u, e)
<1>8. IsHeap(r) /\ HeapOnly(r, u) /\ Registered(r) = Registered(t) \cup {e}
  BY <1>5, <1>7, Insertion DEF Becomes
<1>9. Ahead(r) = Ahead(u)
  BY <1>8, SameAhead
<1> HIDE DEF r
<1>10. Rest(r, t) /\ SameClock(r, t)
  BY <1>2, <1>8 DEF Rest, SameClock, HeapOnly
<1>11. Clock(r) /\ Behind(r) = Behind(t)
  BY <1>1, <1>10, RestClock
<1>12. Ahead(r)[e] = a /\ \A x \in Registered(t) : Ahead(r)[x] = K[x]
  <2>1. \A x \in Registered(t) : x \in Event /\ x # e
    BY <1>1
  <2> QED BY <1>6, <1>9, <2>1
<1>13. InReach(r)
  <2>1. r.hrtcnt_advance = t.hrtcnt_advance
    BY <1>10 DEF SameClock
  <2> SUFFICES ASSUME NEW x \in Registered(r)
               PROVE  /\ t.hrtcnt_advance <= Ahead(r)[x]
                      /\ Ahead(r)[x] <= BOUNDARY_MARGIN + TMAX_RELTIM + TSTEP_HRTCNT + Behind(t)
    BY <1>11, <2>1 DEF InReach
  <2>2. CASE x = e
    BY <1>12, <2>2
  <2>3. CASE x \in Registered(t)
    <3>1. Ahead(r)[x] = Ahead(t)[x]
      BY <1>12, <2>3 DEF K
    <3> QED BY <1>1, <2>3, <3>1 DEF InReach
  <2> QED BY <1>8, <2>2, <2>3
<1>14. Sound(r)
  BY <1>8, <1>11, <1>13 DEF Sound
<1>15. Keeps(r, t, Registered(t))
  BY <1>1, <1>10, <1>12, <1>14, ClockKeeps DEF K
<1> QED BY <1>8, <1>10, <1>11, <1>12, <1>14, <1>15 DEF Joined, K, r, u

-----------------------------------------------------------------------------
(* The functions that calls are made of. *)

\* While signal_time runs the timer need not be set.
LEMMA NowBusy ==
  ASSUME NEW t, t.hrtcnt_advance = 0
  PROVE  Busy(t)
BY Figures DEF Busy

\* Nothing becomes due, and the timer stays right, when the count is read.
LEMMA RestsUpdated ==
  ASSUME NEW t, Sound(t), Resting(t), NEW r, Updated(r, t)
  PROVE  Resting(r)
<1>1. /\ Registered(r) = Registered(t) /\ r.hrt_event = t.hrt_event /\ r.hrtcnt_advance = 0
      /\ \A e \in Registered(t) : Ahead(r)[e] = Ahead(t)[e] - t.hrtcnt_advance
  BY DEF Updated
<1>2. t.hrtcnt_advance \in Nat /\ t.hrt_event \in Int
      /\ \A e \in Registered(t) : Ahead(t)[e] \in Int
  <2>1. Registered(t) \subseteq Event
    BY SoundIs
  <2> QED BY <2>1, SoundIs
<1>3. CASE SYSTICK
  <2>1. /\ t.hrtcnt_advance = 0
        /\ \A e \in Registered(t) : Ahead(t)[e] > BOUNDARY_MARGIN - 2 * TMAX_ADJTIM
    BY <1>3 DEF Resting
  <2>2. \A e \in Registered(t) : Ahead(r)[e] = Ahead(t)[e]
    BY <1>1, <1>2, <2>1
  <2> QED BY <1>1, <1>3, <2>1, <2>2 DEF Resting
<1>4. CASE ~SYSTICK
  <2>1. /\ t.hrt_event + t.hrtcnt_advance <= HRTCNT_BOUND /\ t.hrt_event >= -LATENCY
        /\ \A e \in Registered(t) :
               t.hrt_event <= 0
                  \/ t.hrt_event <= (Ahead(t)[e] - BOUNDARY_MARGIN) - t.hrtcnt_advance
    BY <1>4 DEF Resting
  <2>2. r.hrt_event + 0 <= HRTCNT_BOUND
    BY <1>1, <1>2, <2>1, Figures
  <2>3. ASSUME NEW e \in Registered(t)
        PROVE  r.hrt_event <= 0 \/ r.hrt_event <= (Ahead(r)[e] - BOUNDARY_MARGIN) - 0
    <3>1. Ahead(r)[e] = Ahead(t)[e] - t.hrtcnt_advance /\ Ahead(t)[e] \in Int
      BY <1>1, <1>2
    <3>2. (Ahead(r)[e] - BOUNDARY_MARGIN) - 0 = (Ahead(t)[e] - BOUNDARY_MARGIN) - t.hrtcnt_advance
      BY <1>2, <3>1, Figures
    <3> QED BY <1>1, <2>1, <3>2
  <2> QED BY <1>1, <1>4, <2>1, <2>2, <2>3 DEF Resting
<1> QED BY <1>3, <1>4

\* Reading the count between two steps.
LEMMA StateUpdated ==
  ASSUME NEW t, State(t), NEW r, r = update_current_evttim(t)
  PROVE  State(r) /\ Updated(r, t) /\ Keeps(r, t, Registered(t))
<1>1. Updated(r, t) /\ Keeps(r, t, Registered(t))
  BY UpdateKeeps DEF State
<1>2. Sound(r) /\ r.in_signal_time = t.in_signal_time /\ r.hrtcnt_advance = 0
  BY <1>1 DEF Updated
<1>3. ~t.in_signal_time => Resting(r)
  BY <1>1, RestsUpdated DEF State
<1> QED BY <1>1, <1>2, <1>3, NowBusy DEF State

\* The top of the heap: the only event whose node is 1.
LEMMA TopIs ==
  ASSUME NEW t, IsHeap(t), NEW e \in Registered(t)
  PROVE  /\ t.p_tmevtn[e] = 1 <=> e = t.tmevt_heap[1]
         /\ Head(t.tmevt_heap) = t.tmevt_heap[1]
         /\ t.tmevt_heap # <<>> /\ t.tmevt_heap[1] \in Registered(t)
<1> DEFINE h == t.tmevt_heap
<1>1. h \in Seq(Event) /\ Len(h) \in Nat /\ \A n \in 1 .. Len(h) : t.p_tmevtn[h[n]] = n
  BY DEF IsHeap, IsStore, Located
<1>2. PICK k \in 1 .. Len(h) : h[k] = e
  BY <1>1 DEF Registered, ToSet
<1>3. 1 \in 1 .. Len(h) /\ h # <<>>
  BY <1>1, <1>2
<1>4. h[1] \in Registered(t)
  BY <1>1, <1>3 DEF Registered, ToSet
<1>5. t.p_tmevtn[h[1]] = 1 /\ t.p_tmevtn[e] = k
  BY <1>1, <1>2, <1>3
<1>6. Head(h) = h[1]
  BY <1>1, <1>3
<1> QED BY <1>2, <1>3, <1>4, <1>5, <1>6

\* tmevtb_enqueue_reltim: an event is registered so long from now.
Enqueued(r, t, e, time) ==
    /\ State(r) /\ r.hrtcnt_advance = 0
    /\ Registered(r) = Registered(t) \cup {e}
    /\ r.started = t.started /\ r.in_signal_time = t.in_signal_time
    /\ Keeps(r, t, Registered(t)) /\ Left(r, e) = TSTEP_HRTCNT + time

\* What tmevtb_enqueue_reltim does.
LEMMA Enqueues ==
  ASSUME NEW t, State(t), NEW e \in Event, e \notin Registered(t), NEW time \in 0 .. TMAX_RELTIM
  PROVE  Enqueued(tmevtb_enqueue_reltim(t, e, time), t, e, time)
<1> DEFINE now == update_current_evttim(t)
           m == EVTTIM_MOD
           M == BOUNDARY_MARGIN
           S == TSTEP_HRTCNT
           at == (calc_current_evttim_ub(now) + time) % m
           in == tmevtb_insert([now EXCEPT !.evttim[e] = at], e)
           top == ~in.in_signal_time /\ in.p_tmevtn[e] = 1
           a == M + (S + time)
           r == IF top THEN set_hrt_event(in) ELSE in
<1>1. tmevtb_enqueue_reltim(t, e, time) = r
  BY DEF tmevtb_enqueue_reltim
<1>2. State(now) /\ Updated(now, t) /\ Keeps(now, t, Registered(t))
  BY StateUpdated
<1>3. /\ Sound(now) /\ Registered(now) = Registered(t) /\ now.hrtcnt_advance = 0
      /\ now.started = t.started /\ now.in_signal_time = t.in_signal_time
  BY <1>2 DEF Updated
<1>4. /\ m \in Nat \ {0} /\ M \in Nat /\ S \in Nat /\ S >= 1 /\ time \in Nat /\ time <= TMAX_RELTIM
      /\ TMAX_RELTIM \in Nat /\ M + TMAX_RELTIM + S + 2 * TMAX_ADJTIM <= m
      /\ TMAX_ADJTIM \in Nat /\ TMAX_ADJTIM >= 1
  BY Figures
<1> DEFINE c == now.current_evttim
<1>5. c \in Int /\ Clock(now) /\ Behind(now) \in Nat
  BY <1>3, SoundIs
<1>6. at = (c + (S + time)) % m /\ at \in Evttim
  <2>1. at = (((c + S) % m) + time) % m
    BY DEF calc_current_evttim_ub
  <2> HIDE DEF now, c, m, S, at
  <2>2. c + S \in Int
    BY <1>4, <1>5
  <2>3. (time + ((c + S) % m)) % m = (time + (c + S)) % m
    <3> DEFINE x == c + S
    <3>1. x \in Int /\ time \in Int /\ m \in Nat \ {0}
      BY <1>4, <2>2
    <3> HIDE DEF x
    <3>2. (time + (x % m)) % m = (time + x) % m
      BY <3>1, ModAdd
    <3> QED BY <3>2 DEF x
  <2>4. time + ((c + S) % m) = ((c + S) % m) + time /\ time + (c + S) = c + (S + time)
    <3>1. (c + S) % m \in Int
      BY <1>4, <2>2, ModRange
    <3> QED BY <1>4, <1>5, <3>1
  <2>5. c + (S + time) \in Int
    BY <1>4, <1>5
  <2>6. (c + (S + time)) % m \in 0 .. m - 1
    BY <1>4, <2>5, ModRange
  <2> QED BY <2>1, <2>3, <2>4, <2>6 DEF Evttim, m
<1> HIDE DEF now, at
<1>7. EVTTIM_ADVANCE(now, at) = a /\ a \in Int
  <2>1. S + time \in Int
    BY <1>4
  <2>2. EVTTIM_ADVANCE(now, (c + (S + time)) % m) = (M + (S + time)) % m
    BY <1>5, <2>1, AheadNow
  <2>3. a \in 0 .. m - 1
    <3> HIDE DEF m, M, S
    <3> QED BY <1>4
  <2> QED BY <1>4, <1>6, <2>2, <2>3, ModSmall
<1>8. Joined(in, now, e, a)
  <2>1. now.hrtcnt_advance <= a /\ a <= M + TMAX_RELTIM + S + Behind(now)
    <3> HIDE DEF m, M, S
    <3> QED BY <1>3, <1>4, <1>5
  <2> QED BY <1>3, <1>6, <1>7, <2>1, Inserts
<1> HIDE DEF in
<1>9. /\ Sound(in) /\ Registered(in) = Registered(t) \cup {e} /\ Ahead(in)[e] = a
      /\ \A x \in Registered(t) : Ahead(in)[x] = Ahead(now)[x]
      /\ in.started = t.started /\ in.in_signal_time = t.in_signal_time
      /\ in.hrt_event = now.hrt_event /\ in.hrtcnt_advance = 0
      /\ Keeps(in, now, Registered(t))
  BY <1>3, <1>8 DEF Joined, Rest, SameClock
<1>10. Keeps(in, t, Registered(t))
  BY <1>2, <1>9, KeepsTwice
<1>11. Left(in, e) = S + time
  <2>1. Left(in, e) = (a - M) - 0
    BY <1>9, LeftIs
  <2> HIDE DEF M, S
  <2> QED BY <1>4, <2>1
<1>12. SYSTICK /\ ~t.in_signal_time =>
          \A x \in Registered(in) : Ahead(in)[x] > M - 2 * TMAX_ADJTIM
  <2> SUFFICES ASSUME SYSTICK, ~t.in_signal_time, NEW x \in Registered(in)
               PROVE  Ahead(in)[x] > M - 2 * TMAX_ADJTIM
    OBVIOUS
  <2>1. CASE x = e
    <3> HIDE DEF M, S, m
    <3> QED BY <1>4, <1>9, <2>1
  <2>2. CASE x \in Registered(t)
    <3>1. Resting(now)
      BY <1>2, <1>3 DEF State
    <3>2. Ahead(now)[x] > M - 2 * TMAX_ADJTIM
      BY <1>3, <2>2, <3>1 DEF Resting
    <3> QED BY <1>9, <2>2, <3>2
  <2> QED BY <1>9, <2>1, <2>2
<1>13. CASE top
  <2>1. r = set_hrt_event(in) /\ ~t.in_signal_time
    BY <1>9, <1>13
  <2>2. Timed(set_hrt_event(in), in) /\ Resting(set_hrt_event(in))
    BY <1>9, <1>12, <2>1, Sets
  <2>3. Keeps(r, in, Registered(in)) /\ Sound(in)
    BY <1>9, <2>1, <2>2, TimedKeeps
  <2>4. Keeps(r, t, Registered(t)) /\ Left(r, e) = S + time
    <3>1. Keeps(r, in, Registered(t))
      BY <1>9, <2>3, KeepsFewer
    <3>2. Left(r, e) = Left(in, e)
      BY <1>9, <2>3 DEF Keeps
    <3> QED BY <1>10, <1>11, <3>1, <3>2, KeepsTwice
  <2>5. /\ Sound(r) /\ Registered(r) = Registered(t) \cup {e} /\ r.hrtcnt_advance = 0
        /\ r.started = t.started /\ r.in_signal_time = t.in_signal_time
    BY <1>9, <2>1, <2>2 DEF Timed, Alike
  <2> HIDE DEF r
  <2>6. State(r)
    BY <2>1, <2>2, <2>5 DEF State
  <2> QED BY <1>1, <2>4, <2>5, <2>6 DEF Enqueued
<1>14. CASE ~top
  <2>1. r = in
    BY <1>14
  <2>2. CASE t.in_signal_time
    <3>1. State(in)
      BY <1>9, <2>2, NowBusy DEF State
    <3> QED BY <1>1, <1>9, <1>10, <1>11, <2>1, <3>1 DEF Enqueued
  <2>3. CASE ~t.in_signal_time
    <3>1. in.p_tmevtn[e] # 1
      BY <1>9, <1>14, <2>3
    <3>2. Resting(now)
      BY <1>2, <1>3, <2>3 DEF State
    <3>3. CASE SYSTICK
      <4>1. Resting(in)
        BY <1>9, <1>12, <2>3, <3>3 DEF Resting
      <4>2. State(in)
        BY <1>9, <2>3, <4>1 DEF State
      <4> QED BY <1>1, <1>9, <1>10, <1>11, <2>1, <4>2 DEF Enqueued
    <3>4. CASE ~SYSTICK
      <4>1. /\ in.hrt_event + 0 <= HRTCNT_BOUND /\ in.hrt_event >= -LATENCY
            /\ \A x \in Registered(t) : in.hrt_event <= 0 \/ in.hrt_event <= (Ahead(in)[x] - M) - 0
        BY <1>3, <1>9, <3>2, <3>4 DEF Resting
      <4> DEFINE g == in.tmevt_heap[1]
      <4>2. g \in Registered(t) /\ Ahead(in)[g] <= Ahead(in)[e] /\ g \in Event
        <5>1. e \in Registered(in) /\ IsHeap(in)
          BY <1>9 DEF Sound
        <5>2. g \in Registered(in) /\ g # e
          BY <3>1, <5>1, TopIs
        <5>3. Ahead(in)[g] <= Ahead(in)[e]
          BY <5>1, TopIsEarliest
        <5>4. Registered(t) \subseteq Event
          BY SoundIs DEF State
        <5> QED BY <1>9, <5>2, <5>3, <5>4
      <4> HIDE DEF g
      <4>3. Ahead(in)[g] \in Int /\ Ahead(in)[e] \in Int /\ in.hrt_event \in Int
        BY <1>9, <4>2, SoundIs
      <4>4. in.hrt_event <= 0 \/ in.hrt_event <= (Ahead(in)[e] - M) - 0
        BY <1>4, <4>1, <4>2, <4>3
      <4>5. Resting(in)
        BY <1>9, <3>4, <4>1, <4>4 DEF Resting
      <4>6. State(in)
        BY <1>9, <2>3, <4>5 DEF State
      <4> QED BY <1>1, <1>9, <1>10, <1>11, <2>1, <4>6 DEF Enqueued
    <3> QED BY <3>3, <3>4
  <2> QED BY <2>2, <2>3
<1> QED BY <1>13, <1>14

\* tmevtb_dequeue: an event is taken out.
Dequeued(r, t, e) ==
    /\ State(r)
    /\ Registered(r) = Registered(t) \ {e}
    /\ r.started = t.started /\ r.in_signal_time = t.in_signal_time
    /\ r.hrtcnt_advance = t.hrtcnt_advance \/ r.hrtcnt_advance = 0
    /\ Keeps(r, t, Registered(t) \ {e})

\* With fewer events the timer is still right.
LEMMA StateReduced ==
  ASSUME NEW t, State(t), NEW r, NEW R, R \subseteq Registered(t), Reduced(r, t, R)
  PROVE  State(r)
<1>1. /\ Sound(r) /\ Registered(r) = R /\ Ahead(r) = Ahead(t)
      /\ r.in_signal_time = t.in_signal_time
      /\ r.hrt_event = t.hrt_event /\ r.hrtcnt_advance = t.hrtcnt_advance
  BY DEF Reduced, Rest, SameClock
<1>2. Resting(t) => Resting(r)
  BY <1>1 DEF Resting
<1>3. Busy(t) => Busy(r)
  BY <1>1 DEF Busy
<1> QED BY <1>1, <1>2, <1>3 DEF State

\* What tmevtb_dequeue does.
LEMMA Dequeues ==
  ASSUME NEW t, State(t), NEW e \in Registered(t)
  PROVE  Dequeued(tmevtb_dequeue(t, e), t, e)
<1> DEFINE out == tmevtb_delete(t, e)
           now == update_current_evttim(out)
           top == ~out.in_signal_time /\ t.p_tmevtn[e] = 1
           r == IF top THEN set_hrt_event(now) ELSE out
           R == Registered(t) \ {e}
<1>1. tmevtb_dequeue(t, e) = r
  BY DEF tmevtb_dequeue
<1>2. Reduced(out, t, R)
  <2>1. Becomes(out, t, R)
    BY Deletion DEF State, Sound
  <2> HIDE DEF out
  <2> QED BY <2>1, Fewer DEF State
<1> HIDE DEF out
<1>3. State(out)
  BY <1>2, StateReduced
<1>4. /\ Registered(out) = R /\ out.started = t.started /\ out.in_signal_time = t.in_signal_time
      /\ out.hrtcnt_advance = t.hrtcnt_advance /\ Keeps(out, t, R)
  BY <1>2 DEF Reduced, Rest, SameClock
<1>5. CASE top
  <2>1. r = set_hrt_event(now) /\ ~out.in_signal_time
    BY <1>5
  <2>2. State(now) /\ Updated(now, out) /\ Keeps(now, out, R)
    BY <1>3, <1>4, StateUpdated
  <2> HIDE DEF now
  <2>3. /\ Registered(now) = R /\ now.started = t.started /\ now.in_signal_time = t.in_signal_time
        /\ now.hrtcnt_advance = 0 /\ Sound(now)
    BY <1>4, <2>2 DEF Updated
  <2>4. Resting(now)
    BY <1>4, <2>1, <2>2, <2>3 DEF State
  <2>5. SYSTICK => \A x \in Registered(now) : Ahead(now)[x] > BOUNDARY_MARGIN - 2 * TMAX_ADJTIM
    BY <2>4 DEF Resting
  <2>6. Timed(r, now) /\ Resting(r)
    BY <2>1, <2>3, <2>5, Sets
  <2> HIDE DEF r
  <2>7. Keeps(r, now, R)
    BY <2>3, <2>6, TimedKeeps
  <2>8. Keeps(r, t, R)
    <3>1. Keeps(now, t, R)
      BY <1>4, <2>2, KeepsTwice
    <3> QED BY <2>7, <3>1, KeepsTwice
  <2>9. /\ Sound(r) /\ Registered(r) = R /\ r.hrtcnt_advance = 0
        /\ r.started = t.started /\ r.in_signal_time = t.in_signal_time
    BY <2>3, <2>6 DEF Timed, Alike
  <2>10. State(r)
    BY <1>4, <2>1, <2>6, <2>9 DEF State
  <2> QED BY <1>1, <2>8, <2>9, <2>10 DEF Dequeued
<1>6. CASE ~top
  <2>1. r = out
    BY <1>6
  <2> QED BY <1>1, <1>3, <1>4, <2>1 DEF Dequeued
<1> QED BY <1>5, <1>6

-----------------------------------------------------------------------------
(* Time passes. *)

\* What the application sees when d has passed, or less than nothing.
Passed(r, t, d) ==
    /\ \A x \in Registered(t) : Left(r, x) = Left(t, x) - d
    /\ Late(r) = IF Late(t) > d THEN Late(t) - d ELSE 0
    /\ systim_now(r) = (systim_now(t) + (IF d > Late(t) THEN d - Late(t) ELSE 0)) % SYSTIM_MOD

\* The count goes on by d: so much time passes.
LEMMA CountPasses ==
  ASSUME NEW t, Sound(t), NEW r, Alike(r, t), NEW d \in Nat,
         r.hrtcnt_advance = t.hrtcnt_advance + d
  PROVE  Passed(r, t, d)
<1> DEFINE g == t.hrtcnt_advance
           L == Behind(t)
           o == t.systim_offset + t.monotonic_evttim
           more == IF d > Late(t) THEN d - Late(t) ELSE 0
<1>1. /\ Sound(r) /\ Ahead(r) = Ahead(t) /\ Behind(r) = L
      /\ r.systim_offset = t.systim_offset /\ r.monotonic_evttim = t.monotonic_evttim
  BY DEF Alike, SameStore
<1>2. g \in Nat /\ L \in Nat /\ o \in Int /\ SYSTIM_MOD \in Nat \ {0}
  BY SoundIs, Figures
<1>3. \A x \in Registered(t) : x \in Event /\ Ahead(t)[x] \in Int
  <2>1. Registered(t) \subseteq Event
    BY SoundIs
  <2> QED BY <2>1, SoundIs
<1>4. ASSUME NEW x \in Registered(t) PROVE Left(r, x) = Left(t, x) - d
  <2>1. Left(r, x) = (Ahead(t)[x] - BOUNDARY_MARGIN) - (g + d)
    BY <1>1, <1>3, LeftIs
  <2>2. Left(t, x) = (Ahead(t)[x] - BOUNDARY_MARGIN) - g
    BY <1>3, LeftIs
  <2> HIDE DEF g
  <2> QED BY <1>2, <1>3, <2>1, <2>2, Figures
<1>5. Late(t) = IF L - g > 0 THEN L - g ELSE 0
  BY DEF Late
<1>6. Late(r) = IF L - (g + d) > 0 THEN L - (g + d) ELSE 0
  BY <1>1 DEF Late
<1>7. Gone(t) = IF L < g THEN g - L ELSE 0
  BY DEF Gone
<1>8. Gone(r) = IF L < g + d THEN (g + d) - L ELSE 0
  BY <1>1 DEF Gone
<1> HIDE DEF g, L, o
<1>9. Late(r) = IF Late(t) > d THEN Late(t) - d ELSE 0
  BY <1>2, <1>5, <1>6
<1>10. Gone(r) = Gone(t) + more /\ Gone(t) \in Int /\ more \in Int
  BY <1>2, <1>5, <1>7, <1>8
<1>11. systim_now(r) = (o + Gone(r)) % SYSTIM_MOD
  BY <1>1, SystimIs DEF o
<1>12. systim_now(t) = (o + Gone(t)) % SYSTIM_MOD
  BY SystimIs DEF o
<1> HIDE DEF more
<1>13. systim_now(r) = (systim_now(t) + more) % SYSTIM_MOD
  <2> DEFINE x == o + Gone(t)
  <2>1. x \in Int /\ o + Gone(r) = more + x
    BY <1>2, <1>10
  <2> HIDE DEF x
  <2>2. (more + (x % SYSTIM_MOD)) % SYSTIM_MOD = (more + x) % SYSTIM_MOD
    BY <1>2, <1>10, <2>1, ModAdd
  <2>3. more + (x % SYSTIM_MOD) = (x % SYSTIM_MOD) + more
    <3>1. x % SYSTIM_MOD \in Int
      BY <1>2, <2>1, ModRange
    <3> QED BY <1>10, <3>1
  <2> QED BY <1>11, <1>12, <2>1, <2>2, <2>3 DEF x
<1> QED BY <1>4, <1>9, <1>13 DEF Passed, more

\* The flags and the count differ.
LEMMA CountIs ==
  ASSUME NEW t, Sound(t), NEW g \in Nat, g < EVTTIM_MOD, \A e \in Registered(t) : g <= Ahead(t)[e],
         NEW h \in Int, NEW s \in BOOLEAN, NEW r, SameStore(r, t), r.hrtcnt_advance = g,
         r.hrt_event = h, r.in_signal_time = s, r.started = t.started
  PROVE  Alike(r, t)
<1>1. r.started \in [Event -> BOOLEAN]
  BY SoundIs
<1>2. Sound(r) /\ Registered(r) = Registered(t) /\ Ahead(r) = Ahead(t) /\ Behind(r) = Behind(t)
  BY <1>1, StaysSound
<1> QED BY <1>2 DEF Alike

\* A move of the clock is a passing of time.
LEMMA MovePasses ==
  ASSUME NEW t, Sound(t), t.hrtcnt_advance = 0, NEW d \in Int, d < EVTTIM_MOD,
         \A e \in Registered(t) : d <= Ahead(t)[e], NEW r, Moved(r, t, d)
  PROVE  Passed(r, t, d)
<1> DEFINE L == Behind(t)
           o == t.systim_offset + t.monotonic_evttim
<1>1. /\ Sound(r) /\ Registered(r) = Registered(t) /\ r.hrtcnt_advance = 0
      /\ \A e \in Registered(t) : Ahead(r)[e] = Ahead(t)[e] - d
      /\ Behind(r) = IF d > 0 /\ L < d THEN 0 ELSE L - d
      /\ r.current_evttim = (t.current_evttim + d) % EVTTIM_MOD
      /\ r.monotonic_evttim = IF d > 0 /\ L < d THEN r.current_evttim ELSE t.monotonic_evttim
      /\ r.systim_offset = (t.systim_offset
                            + IF d > 0 /\ L < d /\ r.current_evttim < t.monotonic_evttim
                              THEN EVTTIM_MOD ELSE 0) % SYSTIM_MOD
  BY DEF Moved, ClockOnly
<1>2. L \in Nat /\ o \in Int /\ SYSTIM_MOD \in Nat \ {0}
  BY SoundIs, Figures
<1>3. \A x \in Registered(t) : x \in Event /\ Ahead(t)[x] \in Int
  <2>1. Registered(t) \subseteq Event
    BY SoundIs
  <2> QED BY <2>1, SoundIs
<1>4. ASSUME NEW x \in Registered(t) PROVE Left(r, x) = Left(t, x) - d
  <2>1. Left(r, x) = ((Ahead(t)[x] - d) - BOUNDARY_MARGIN) - 0
    BY <1>1, <1>3, LeftIs
  <2>2. Left(t, x) = (Ahead(t)[x] - BOUNDARY_MARGIN) - 0
    BY <1>3, LeftIs
  <2> QED BY <1>3, <2>1, <2>2, Figures
<1>5. Late(t) = L
  <2>1. Late(t) = IF L - 0 > 0 THEN L - 0 ELSE 0
    BY DEF Late
  <2> HIDE DEF L
  <2> QED BY <1>2, <2>1
<1>6. Late(r) = Behind(r)
  <2>1. Late(r) = IF Behind(r) - 0 > 0 THEN Behind(r) - 0 ELSE 0
    BY <1>1 DEF Late
  <2>2. Behind(r) \in Nat
    BY <1>1, SoundIs
  <2> QED BY <2>1, <2>2
<1>7. systim_now(r) = (r.systim_offset + r.monotonic_evttim) % SYSTIM_MOD
  <2>1. systim_now(r) = ((r.systim_offset + r.monotonic_evttim) + Gone(r)) % SYSTIM_MOD
    BY <1>1, SystimIs
  <2>2. Gone(r) = 0
    <3>1. Behind(r) \in Nat
      BY <1>1, SoundIs
    <3> QED BY <1>1, <3>1 DEF Gone
  <2>3. r.systim_offset + r.monotonic_evttim \in Int
    BY <1>1, SoundIs
  <2>4. (r.systim_offset + r.monotonic_evttim) + 0 = r.systim_offset + r.monotonic_evttim
    BY <2>3
  <2> QED BY <2>1, <2>2, <2>4
<1>8. CASE d > 0
  <2> DEFINE s == [t EXCEPT !.hrtcnt_advance = d]
             u == update_current_evttim(s)
  <2>1. d \in Nat /\ d = 0 + d
    BY <1>8
  <2>2. DOMAIN t = Fields /\ t.hrt_event \in Int /\ t.in_signal_time \in BOOLEAN
    BY SoundIs
  <2>3. /\ SameStore(s, t) /\ s.hrtcnt_advance = d /\ s.hrt_event = t.hrt_event
        /\ s.in_signal_time = t.in_signal_time /\ s.started = t.started
    BY <2>2 DEF SameStore, Fields
  <2> HIDE DEF s
  <2>4. Alike(s, t)
    BY <2>1, <2>2, <2>3, CountIs
  <2>5. s.hrtcnt_advance = t.hrtcnt_advance + d
    BY <2>1, <2>3
  <2>6. Passed(s, t, d)
    BY <2>1, <2>4, <2>5, CountPasses
  <2>7. Updated(u, s)
    BY <2>4, Updates DEF Alike
  <2>8. Behind(s) = L /\ s.current_evttim = t.current_evttim
        /\ s.monotonic_evttim = t.monotonic_evttim /\ s.systim_offset = t.systim_offset
    BY <2>4 DEF Alike, SameStore
  <2> HIDE DEF u
  <2>9. u.current_evttim = r.current_evttim
    BY <1>1, <2>3, <2>7, <2>8 DEF Updated
  <2>10. u.monotonic_evttim = r.monotonic_evttim
    BY <1>1, <1>8, <2>3, <2>7, <2>8, <2>9 DEF Updated
  <2>11. u.systim_offset = r.systim_offset
    BY <1>1, <1>8, <2>3, <2>7, <2>8, <2>9 DEF Updated
  <2>12. systim_now(s) = (u.systim_offset + u.monotonic_evttim) % SYSTIM_MOD
    BY DEF systim_now, u
  <2>13. systim_now(r) = systim_now(s)
    BY <1>7, <2>10, <2>11, <2>12
  <2>14. Late(r) = IF Late(t) > d THEN Late(t) - d ELSE 0
    <3> HIDE DEF L
    <3> QED BY <1>1, <1>2, <1>5, <1>6, <1>8
  <2> QED BY <1>4, <2>6, <2>13, <2>14 DEF Passed
<1>9. CASE ~(d > 0)
  <2>1. /\ Behind(r) = L - d /\ r.monotonic_evttim = t.monotonic_evttim
        /\ r.systim_offset = (t.systim_offset + 0) % SYSTIM_MOD
    BY <1>1, <1>9
  <2>2. r.systim_offset = t.systim_offset
    <3>1. t.systim_offset \in 0 .. SYSTIM_MOD - 1
      BY SoundIs DEF Clock
    <3>2. t.systim_offset + 0 = t.systim_offset /\ t.systim_offset % SYSTIM_MOD = t.systim_offset
      BY <1>2, <3>1, ModSmall
    <3> QED BY <2>1, <3>2
  <2>3. systim_now(r) = o % SYSTIM_MOD
    BY <1>7, <2>1, <2>2
  <2>4. systim_now(t) = o % SYSTIM_MOD
    <3>1. systim_now(t) = (o + Gone(t)) % SYSTIM_MOD
      BY SystimIs
    <3>2. Gone(t) = 0
      BY <1>2 DEF Gone
    <3> HIDE DEF o
    <3>3. o + 0 = o
      BY <1>2
    <3> QED BY <3>1, <3>2, <3>3
  <2>5. ~(d > Late(t))
    BY <1>2, <1>5, <1>9
  <2>6. systim_now(r) = (systim_now(t) + 0) % SYSTIM_MOD
    <3>1. systim_now(t) \in 0 .. SYSTIM_MOD - 1
      BY SystimIs
    <3>2. systim_now(t) + 0 = systim_now(t) /\ systim_now(t) % SYSTIM_MOD = systim_now(t)
      BY <1>2, <3>1, ModSmall
    <3> QED BY <2>3, <2>4, <3>2
  <2>7. Late(r) = IF Late(t) > d THEN Late(t) - d ELSE 0
    <3> HIDE DEF L
    <3>1. CASE L > d
      BY <1>5, <1>6, <2>1, <3>1
    <3>2. CASE ~(L > d)
      <4>1. L = 0 /\ d = 0
        BY <1>2, <1>9, <3>2
      <4> QED BY <1>5, <1>6, <2>1, <4>1
    <3> QED BY <3>1, <3>2
  <2> QED BY <1>4, <2>5, <2>6, <2>7 DEF Passed
<1> QED BY <1>8, <1>9

\* The same after an operation that keeps what is seen.
LEMMA KeepsPasses ==
  ASSUME NEW r, NEW s, NEW t, NEW d, Registered(s) = Registered(t),
         Keeps(s, t, Registered(t)), Passed(r, s, d)
  PROVE  Passed(r, t, d)
BY DEF Keeps, Passed

\* Time passes, and what keeps the times follows.
LEMMA PassesKeeps ==
  ASSUME NEW r, NEW s, NEW t, NEW d, Registered(s) = Registered(t),
         Passed(s, t, d), Keeps(r, s, Registered(s))
  PROVE  Passed(r, t, d)
BY DEF Keeps, Passed

-----------------------------------------------------------------------------
(* The adjustment of the time, the timer's interrupt, and signal_time. *)

\* The time that is k later, as the kernel compares it.
LEMMA LaterIs ==
  ASSUME NEW t, Sound(t), NEW v \in Int, NEW k \in Int
  PROVE  EVTTIM_ADVANCE(t, (v + k) % EVTTIM_MOD) = (EVTTIM_ADVANCE(t, v) + k) % EVTTIM_MOD
<1> DEFINE m == EVTTIM_MOD
           c == t.current_evttim
           M == BOUNDARY_MARGIN
           w == (v + k) % m
           x == (v - c) + M
<1>1. m \in Nat \ {0} /\ c \in Int /\ M \in Int /\ Clock(t)
  BY SoundIs, Figures
<1>2. v + k \in Int
  OBVIOUS
<1>3. w \in Int
  BY <1>1, <1>2, ModRange
<1>4. EVTTIM_ADVANCE(t, w) = ((w - c) + M) % m
  BY <1>1, <1>3, AdvanceIs
<1>5. EVTTIM_ADVANCE(t, v) = x % m
  BY <1>1, AdvanceIs
<1> HIDE DEF m, c, M
<1>6. x \in Int /\ M - c \in Int
  BY <1>1
<1>7. ((w - c) + M) % m = (k + x) % m
  <2>1. ((M - c) + ((v + k) % m)) % m = ((M - c) + (v + k)) % m
    BY <1>1, <1>2, <1>6, ModAdd
  <2> HIDE DEF w
  <2>2. (w - c) + M = (M - c) + w
    BY <1>1, <1>3
  <2>3. (M - c) + (v + k) = k + x
    BY <1>1
  <2> QED BY <2>1, <2>2, <2>3 DEF w
<1> HIDE DEF x
<1>8. (k + (x % m)) % m = (k + x) % m
  BY <1>1, <1>6, ModAdd
<1>9. k + (x % m) = (x % m) + k
  <2>1. x % m \in Int
    BY <1>1, <1>6, ModRange
  <2> QED BY <2>1
<1> QED BY <1>4, <1>5, <1>7, <1>8, <1>9 DEF m, w

\* An event is late as the kernel sees it when it is so late.
LEMMA DueIs ==
  ASSUME NEW t, Sound(t), t.tmevt_heap # <<>>
  PROVE  /\ t.tmevt_heap[1] \in Registered(t) /\ t.tmevt_heap[1] \in Event
         /\ top_evttim(t) = t.evttim[t.tmevt_heap[1]] /\ top_evttim(t) \in Int
         /\ EVTTIM_ADVANCE(t, top_evttim(t)) = Ahead(t)[t.tmevt_heap[1]]
         /\ EVTTIM_LE(t, top_evttim(t), t.current_evttim)
              <=> Ahead(t)[t.tmevt_heap[1]] <= BOUNDARY_MARGIN
<1> DEFINE h == t.tmevt_heap
<1>1. h \in Seq(Event) /\ h # <<>> /\ IsStore(t)
  BY SoundIs DEF IsStore
<1>2. 1 \in 1 .. Len(h)
  BY <1>1
<1>3. h[1] \in Registered(t) /\ h[1] \in Event /\ top_evttim(t) = t.evttim[h[1]]
  BY <1>1, <1>2 DEF Registered, ToSet, top_evttim, node_evttim
<1>4. EVTTIM_ADVANCE(t, t.evttim[h[1]]) = Ahead(t)[h[1]]
  BY <1>1, <1>3, AheadOf
<1>5. t.evttim[h[1]] \in Int
  BY <1>1, <1>3, Figures DEF IsStore, Evttim
<1> QED BY <1>3, <1>4, <1>5, NowIs DEF EVTTIM_LE

\* Put forward, no event is later than the largest adjustment.
LEMMA Forward ==
  ASSUME NEW t, Sound(t), NEW d \in Int, d > 0, ~check_adjtim(t, d), NEW e \in Registered(t)
  PROVE  Ahead(t)[e] > BOUNDARY_MARGIN - TMAX_ADJTIM
<1> DEFINE g == t.tmevt_heap[1]
           A == Ahead(t)[g]
           M == BOUNDARY_MARGIN
           J == TMAX_ADJTIM
           m == EVTTIM_MOD
<1>1. t.tmevt_heap # <<>> /\ A <= Ahead(t)[e] /\ e \in Event
  BY SoundIs, TopIsEarliest
<1>2. /\ EVTTIM_ADVANCE(t, top_evttim(t)) = A /\ top_evttim(t) \in Int /\ g \in Event
  BY <1>1, DueIs
<1>3. /\ m \in Nat \ {0} /\ M \in Nat /\ J \in Nat /\ M < m
      /\ A \in Int /\ A >= 0 /\ Ahead(t)[e] \in Int
  <2>1. A \in 0 .. m - 1
    BY <1>2, ApartIs
  <2> HIDE DEF A, m
  <2>2. m \in Nat \ {0} /\ M < m
    BY Figures DEF m
  <2> QED BY <1>1, <2>1, <2>2, SoundIs, Figures
<1>4. ~EVTTIM_LE(t, (top_evttim(t) + J) % m, t.current_evttim)
  BY <1>1 DEF check_adjtim
<1>5. ~((A + J) % m <= M)
  <2>1. EVTTIM_ADVANCE(t, (top_evttim(t) + J) % m) = (A + J) % m
    <3> DEFINE v == top_evttim(t)
    <3>1. v \in Int /\ J \in Int
      BY <1>2, <1>3
    <3> HIDE DEF v, J
    <3>2. EVTTIM_ADVANCE(t, (v + J) % m) = (EVTTIM_ADVANCE(t, v) + J) % m
      BY <3>1, LaterIs
    <3> QED BY <1>2, <3>2 DEF v
  <2> QED BY <1>4, <2>1, NowIs DEF EVTTIM_LE
<1> HIDE DEF A, M, J, m
<1>6. A > M - J
  <2> SUFFICES ASSUME ~(A > M - J) PROVE FALSE
    OBVIOUS
  <2>1. A + J \in 0 .. m - 1 /\ A + J <= M
    BY <1>3
  <2>2. (A + J) % m = A + J
    BY <1>3, <2>1, ModSmall
  <2> QED BY <1>5, <2>1, <2>2
<1>7. Ahead(t)[e] > M - J
  BY <1>1, <1>3, <1>6
<1> QED BY <1>7 DEF M, J

\* adj_tim, if it is not refused.
Adjusted(r, t, d) ==
    /\ State(r) /\ Registered(r) = Registered(t)
    /\ r.started = t.started /\ r.in_signal_time = t.in_signal_time /\ r.hrtcnt_advance = 0
    /\ Passed(r, t, d)
    /\ d > 0 => \A x \in Registered(t) : Left(t, x) > -TMAX_ADJTIM
    /\ d < 0 => Late(t) < TMAX_ADJTIM

\* What adj_tim does when it is not refused.
LEMMA Adjusts ==
  ASSUME NEW t, State(t), NEW d \in -TMAX_ADJTIM .. TMAX_ADJTIM,
         NEW now, now = update_current_evttim(t), ~check_adjtim(now, d),
         NEW moved, moved = advance_evttim(now, d)
  PROVE  Adjusted(IF now.in_signal_time THEN moved ELSE set_hrt_event(moved), t, d)
<1> DEFINE M == BOUNDARY_MARGIN
           J == TMAX_ADJTIM
           r == IF now.in_signal_time THEN moved ELSE set_hrt_event(moved)
<1>1. State(now) /\ Updated(now, t) /\ Keeps(now, t, Registered(t)) /\ Sound(t)
  BY StateUpdated DEF State
<1>2. /\ Sound(now) /\ now.hrtcnt_advance = 0 /\ Registered(now) = Registered(t)
      /\ now.started = t.started /\ now.in_signal_time = t.in_signal_time
  BY <1>1 DEF Updated
<1>3. /\ M \in Nat /\ J \in Nat /\ J >= 1 /\ 2 * J <= M /\ M < EVTTIM_MOD
      /\ d \in Int /\ -J <= d /\ d <= J /\ EVTTIM_MOD \in Int
  <2>1. 2 * J + TSTEP_HRTCNT <= M + 1 /\ TSTEP_HRTCNT \in Nat /\ TSTEP_HRTCNT >= 1
    BY Figures
  <2>2. M \in Nat /\ J \in Nat /\ J >= 1 /\ M < EVTTIM_MOD /\ EVTTIM_MOD \in Int
    BY Figures
  <2>3. d \in Int /\ -J <= d /\ d <= J
    BY <2>2
  <2> HIDE DEF M, J
  <2> QED BY <2>1, <2>2, <2>3
<1>4. \A x \in Registered(now) : x \in Event /\ Ahead(now)[x] \in Int /\ 0 <= Ahead(now)[x]
  <2>1. Registered(now) \subseteq Event
    BY <1>2, SoundIs
  <2> QED BY <1>2, <2>1, SoundIs DEF Sound, InReach
<1>5. d > 0 => \A x \in Registered(now) : Ahead(now)[x] > M - J
  BY <1>2, <1>3, Forward
<1>6. d < 0 => Behind(now) < J
  <2>1. CASE d < 0
    <3>1. ~(Behind(now) >= J)
      BY <1>3, <2>1 DEF check_adjtim, Behind
    <3> QED BY <1>2, <1>3, <3>1, SoundIs
  <2> QED BY <2>1
<1> HIDE DEF M, J
<1>7. Moved(moved, now, d)
  <2>1. d < EVTTIM_MOD
    BY <1>3
  <2>2. \A x \in Registered(now) : d <= Ahead(now)[x]
    <3> TAKE x \in Registered(now)
    <3>1. CASE d > 0
      <4>1. Ahead(now)[x] > M - J /\ Ahead(now)[x] \in Int
        BY <1>4, <1>5, <3>1
      <4> QED BY <1>3, <4>1
    <3>2. CASE ~(d > 0)
      BY <1>3, <1>4, <3>2
    <3> QED BY <3>1, <3>2
  <2>3. d < 0 => Behind(now) - d < 2 * TMAX_ADJTIM
    <3>1. Behind(now) \in Nat
      BY <1>2, SoundIs
    <3>2. d < 0 => Behind(now) - d < 2 * J
      BY <1>3, <1>6, <3>1
    <3> QED BY <3>2 DEF J
  <2> QED BY <1>2, <1>3, <2>1, <2>2, <2>3, Moves
<1>8. Passed(moved, now, d)
  <2>1. d < EVTTIM_MOD
    BY <1>3
  <2>2. \A x \in Registered(now) : d <= Ahead(now)[x]
    <3> TAKE x \in Registered(now)
    <3>1. CASE d > 0
      <4>1. Ahead(now)[x] > M - J /\ Ahead(now)[x] \in Int
        BY <1>4, <1>5, <3>1
      <4> QED BY <1>3, <4>1
    <3>2. CASE ~(d > 0)
      BY <1>3, <1>4, <3>2
    <3> QED BY <3>1, <3>2
  <2> QED BY <1>2, <1>3, <1>7, <2>1, <2>2, MovePasses
<1>9. /\ Sound(moved) /\ Registered(moved) = Registered(t) /\ moved.started = t.started
      /\ moved.in_signal_time = t.in_signal_time /\ moved.hrtcnt_advance = 0
      /\ \A x \in Registered(t) : Ahead(moved)[x] = Ahead(now)[x] - d
  BY <1>2, <1>7 DEF Moved, ClockOnly
<1>10. Passed(moved, t, d)
  BY <1>1, <1>2, <1>8, KeepsPasses
<1>11. d > 0 => \A x \in Registered(t) : Left(t, x) > -J
  <2> SUFFICES ASSUME d > 0, NEW x \in Registered(t) PROVE Left(t, x) > -J
    OBVIOUS
  <2>1. Left(t, x) = Left(now, x)
    BY <1>1 DEF Keeps
  <2>2. Left(now, x) = (Ahead(now)[x] - M) - 0 /\ Ahead(now)[x] > M - J /\ Ahead(now)[x] \in Int
    BY <1>2, <1>4, <1>5, LeftIs DEF M
  <2> QED BY <1>3, <2>1, <2>2
<1>12. d < 0 => Late(t) < J
  <2>1. Late(t) = Late(now)
    BY <1>1 DEF Keeps
  <2>2. Late(now) = IF Behind(now) - 0 > 0 THEN Behind(now) - 0 ELSE 0
    BY <1>2 DEF Late
  <2>3. Behind(now) \in Nat
    BY <1>2, SoundIs
  <2> QED BY <1>3, <1>6, <2>1, <2>2, <2>3
<1>13. CASE t.in_signal_time
  <2>1. r = moved
    BY <1>2, <1>13
  <2>2. State(moved)
    BY <1>9, <1>13, NowBusy DEF State
  <2> QED BY <1>9, <1>10, <1>11, <1>12, <2>1, <2>2 DEF Adjusted, J
<1>14. CASE ~t.in_signal_time
  <2>1. r = set_hrt_event(moved)
    BY <1>2, <1>14
  <2>2. SYSTICK => \A x \in Registered(moved) : Ahead(moved)[x] > BOUNDARY_MARGIN - 2 * TMAX_ADJTIM
    <3> SUFFICES ASSUME SYSTICK, NEW x \in Registered(t)
                 PROVE  Ahead(moved)[x] > M - 2 * J
      BY <1>9 DEF M, J
    <3>1. Ahead(moved)[x] = Ahead(now)[x] - d /\ Ahead(now)[x] \in Int
      BY <1>2, <1>4, <1>9
    <3>2. CASE d > 0
      <4>1. Ahead(now)[x] > M - J
        BY <1>2, <1>5, <3>2
      <4> QED BY <1>3, <3>1, <4>1
    <3>3. CASE ~(d > 0)
      <4>1. Resting(now)
        BY <1>1, <1>2, <1>14 DEF State
      <4>2. Ahead(now)[x] > M - 2 * J
        BY <1>2, <4>1 DEF Resting, M, J
      <4> QED BY <1>3, <3>1, <3>3, <4>2
    <3> QED BY <3>2, <3>3
  <2>3. Timed(r, moved) /\ Resting(r)
    BY <1>9, <2>1, <2>2, Sets
  <2> HIDE DEF r
  <2>4. /\ Sound(r) /\ Registered(r) = Registered(t) /\ r.started = t.started
        /\ r.in_signal_time = t.in_signal_time /\ r.hrtcnt_advance = 0
    BY <1>9, <2>3 DEF Timed, Alike
  <2>5. Keeps(r, moved, Registered(moved))
    BY <1>9, <2>3, TimedKeeps
  <2>6. Passed(r, t, d)
    BY <1>9, <1>10, <2>5, PassesKeeps
  <2>7. State(r)
    BY <1>14, <2>3, <2>4 DEF State
  <2> QED BY <1>11, <1>12, <2>4, <2>6, <2>7 DEF Adjusted, J, r
<1> QED BY <1>13, <1>14

\* count: the timer counts on.
Counted(r, t) ==
    /\ State(r) /\ Registered(r) = Registered(t)
    /\ r.started = t.started /\ r.in_signal_time = t.in_signal_time
    /\ Passed(r, t, 1)

\* The count goes on by one, and the interrupt comes nearer.
Ticked(t, idle) == [t EXCEPT !.hrtcnt_advance = @ + 1,
                             !.hrt_event = IF idle THEN @ - 1 ELSE @]

\* What the timer does.
LEMMA Counts ==
  ASSUME NEW t, State(t), ~SYSTICK, NEW idle \in BOOLEAN, idle = ~t.in_signal_time,
         \A e \in Registered(t) : Left(t, e) > -BOUNDARY_MARGIN,
         IF idle THEN t.hrt_event > -LATENCY ELSE t.hrtcnt_advance < LATENCY
  PROVE  Counted(Ticked(t, idle), t)
<1> DEFINE g == t.hrtcnt_advance
           h == t.hrt_event
           k == IF idle THEN h - 1 ELSE h
           r == Ticked(t, idle)
<1>1. /\ Sound(t) /\ DOMAIN t = Fields /\ g \in Nat /\ h \in Int /\ t.in_signal_time \in BOOLEAN
      /\ Registered(t) \subseteq Event
  BY SoundIs DEF State
<1>2. /\ SameStore(r, t) /\ r.hrtcnt_advance = g + 1 /\ r.hrt_event = k
      /\ r.in_signal_time = t.in_signal_time /\ r.started = t.started
  BY <1>1 DEF SameStore, Fields, Ticked
<1> HIDE DEF r
<1>3. k \in Int /\ g + 1 \in Nat
  BY <1>1
<1>4. idle => g + h <= HRTCNT_BOUND /\ h > -LATENCY
  <2> SUFFICES ASSUME idle PROVE g + h <= HRTCNT_BOUND /\ h > -LATENCY
    OBVIOUS
  <2>1. h + g <= HRTCNT_BOUND
    BY DEF State, Resting
  <2>2. h + g = g + h
    BY <1>1
  <2> QED BY <2>1, <2>2
<1>5. ~idle => g < LATENCY
  OBVIOUS
<1> HIDE DEF g, h
<1>6. g + 1 < EVTTIM_MOD
  <2>1. HRTCNT_BOUND + LATENCY < EVTTIM_MOD /\ HRTCNT_BOUND \in Nat /\ LATENCY \in Nat
        /\ EVTTIM_MOD \in Int /\ HRTCNT_BOUND >= 1
    BY Figures
  <2>2. CASE idle
    BY <1>1, <1>4, <2>1, <2>2
  <2>3. CASE ~idle
    BY <1>1, <1>5, <2>1, <2>3
  <2> QED BY <2>2, <2>3
<1>7. \A e \in Registered(t) :
         Ahead(t)[e] \in Int /\ g + 1 <= Ahead(t)[e]
  <2> TAKE e \in Registered(t)
  <2>1. e \in Event /\ Ahead(t)[e] \in Int
    BY <1>1, SoundIs
  <2>2. Left(t, e) = (Ahead(t)[e] - BOUNDARY_MARGIN) - g /\ Left(t, e) > -BOUNDARY_MARGIN
    BY <1>1, <2>1, LeftIs DEF g
  <2> QED BY <1>1, <2>1, <2>2, Figures
<1> HIDE DEF k
<1>8. Alike(r, t)
  BY <1>1, <1>2, <1>3, <1>6, <1>7, CountIs
<1>9. Passed(r, t, 1)
  <2>1. r.hrtcnt_advance = t.hrtcnt_advance + 1 /\ 1 \in Nat
    BY <1>2 DEF g
  <2> QED BY <1>1, <1>8, <2>1, CountPasses
<1>10. Sound(r) /\ Registered(r) = Registered(t) /\ Ahead(r) = Ahead(t)
  BY <1>8 DEF Alike
<1>11. State(r)
  <2>1. CASE idle
    <3>1. /\ h + g <= HRTCNT_BOUND
          /\ \A e \in Registered(t) : h <= 0 \/ h <= (Ahead(t)[e] - BOUNDARY_MARGIN) - g
      BY <2>1 DEF State, Resting, h, g
    <3>2. k = h - 1
      BY <2>1 DEF k
    <3>3. k + (g + 1) <= HRTCNT_BOUND /\ k >= -LATENCY
      BY <1>1, <1>4, <2>1, <3>1, <3>2, Figures
    <3>4. ASSUME NEW e \in Registered(t)
          PROVE  k <= 0 \/ k <= (Ahead(t)[e] - BOUNDARY_MARGIN) - (g + 1)
      <4>1. h <= 0 \/ h <= (Ahead(t)[e] - BOUNDARY_MARGIN) - g
        BY <3>1
      <4>2. Ahead(t)[e] \in Int
        BY <1>7
      <4> QED BY <1>1, <3>2, <4>1, <4>2, Figures
    <3>5. Resting(r)
      BY <1>2, <1>10, <3>3, <3>4 DEF Resting
    <3> QED BY <1>2, <1>10, <2>1, <3>5 DEF State
  <2>2. CASE ~idle
    <3>1. g + 1 <= LATENCY
      BY <1>1, <1>5, <2>2, Figures
    <3>2. Busy(r)
      BY <1>2, <3>1 DEF Busy
    <3> QED BY <1>1, <1>2, <1>10, <2>2, <3>2 DEF State
  <2> QED BY <2>1, <2>2
<1> QED BY <1>2, <1>9, <1>10, <1>11 DEF Counted, r

\* target_hrt_handler: with the SysTick timer a tick has passed.
Handled(r, t) ==
    /\ State(r) /\ Registered(r) = Registered(t)
    /\ r.started = t.started /\ r.in_signal_time = TRUE /\ r.hrtcnt_advance = 0
    /\ IF SYSTICK THEN Passed(r, t, TSTEP_HRTCNT) ELSE Keeps(r, t, Registered(t))

\* What target_hrt_handler does up to the first reading.
LEMMA Handles ==
  ASSUME NEW t, State(t), ~t.in_signal_time,
         NEW counted, counted = IF SYSTICK THEN [t EXCEPT !.hrtcnt_advance = @ + TSTEP_HRTCNT]
                                           ELSE [t EXCEPT !.hrt_event = 0]
  PROVE  Handled(update_current_evttim([counted EXCEPT !.in_signal_time = TRUE]), t)
<1> DEFINE s == [counted EXCEPT !.in_signal_time = TRUE]
           r == update_current_evttim(s)
           S == TSTEP_HRTCNT
<1>1. /\ Sound(t) /\ DOMAIN t = Fields /\ t.hrtcnt_advance \in Nat /\ t.hrtcnt_advance < EVTTIM_MOD
      /\ t.hrt_event \in Int /\ Registered(t) \subseteq Event
  BY SoundIs DEF State
<1>2. SYSTICK => S \in Nat /\ S < EVTTIM_MOD /\ t.hrtcnt_advance = 0
                 /\ \A e \in Registered(t) : S <= Ahead(t)[e]
  <2> SUFFICES ASSUME SYSTICK
               PROVE  S \in Nat /\ S < EVTTIM_MOD /\ t.hrtcnt_advance = 0
                      /\ \A e \in Registered(t) : S <= Ahead(t)[e]
    OBVIOUS
  <2>1. /\ t.hrtcnt_advance = 0
        /\ \A e \in Registered(t) : Ahead(t)[e] > BOUNDARY_MARGIN - 2 * TMAX_ADJTIM
    BY DEF State, Resting
  <2>2. S \in Nat /\ S < EVTTIM_MOD
    BY Figures
  <2>3. ASSUME NEW e \in Registered(t) PROVE S <= Ahead(t)[e]
    <3>1. Ahead(t)[e] \in Int /\ Ahead(t)[e] > BOUNDARY_MARGIN - 2 * TMAX_ADJTIM
      BY <1>1, <2>1, SoundIs
    <3> QED BY <3>1, Figures
  <2> QED BY <2>1, <2>2, <2>3
<1>3. \A e \in Registered(t) : t.hrtcnt_advance <= Ahead(t)[e]
  BY DEF State, Sound, InReach
<1>4. CASE SYSTICK
  <2>1. /\ SameStore(s, t) /\ s.hrtcnt_advance = t.hrtcnt_advance + S
        /\ s.hrt_event = t.hrt_event /\ s.in_signal_time = TRUE /\ s.started = t.started
    BY <1>1, <1>4 DEF SameStore, Fields
  <2> HIDE DEF s
  <2>2. s.hrtcnt_advance = S
    BY <1>2, <1>4, <2>1
  <2>3. Alike(s, t)
    BY <1>1, <1>2, <1>4, <2>1, <2>2, CountIs
  <2>4. Passed(s, t, S)
    BY <1>1, <1>2, <1>4, <2>1, <2>3, CountPasses
  <2>5. Updated(r, s) /\ Keeps(r, s, Registered(s))
    BY <2>3, UpdateKeeps DEF Alike
  <2> HIDE DEF r
  <2>6. /\ Sound(r) /\ Registered(r) = Registered(t) /\ r.started = t.started
        /\ r.in_signal_time = TRUE /\ r.hrtcnt_advance = 0
    BY <2>1, <2>3, <2>5 DEF Updated, Alike
  <2>7. Passed(r, t, S)
    BY <2>3, <2>4, <2>5, PassesKeeps DEF Alike
  <2> QED BY <1>4, <2>6, <2>7, NowBusy DEF Handled, State, r, s
<1>5. CASE ~SYSTICK
  <2>1. /\ SameStore(s, t) /\ s.hrtcnt_advance = t.hrtcnt_advance
        /\ s.hrt_event = 0 /\ s.in_signal_time = TRUE /\ s.started = t.started
    BY <1>1, <1>5 DEF SameStore, Fields
  <2> HIDE DEF s
  <2>2. Alike(s, t)
    <3> DEFINE g == t.hrtcnt_advance
    <3>1. /\ Sound(t) /\ g \in Nat /\ g < EVTTIM_MOD /\ \A e \in Registered(t) : g <= Ahead(t)[e]
          /\ SameStore(s, t) /\ s.hrtcnt_advance = g
          /\ s.hrt_event = 0 /\ s.in_signal_time = TRUE /\ s.started = t.started
          /\ 0 \in Int /\ TRUE \in BOOLEAN
      BY <1>1, <1>3, <2>1
    <3> HIDE DEF g
    <3> QED BY <3>1, CountIs
  <2>3. Keeps(s, t, Registered(t))
    <3>1. Sound(s) /\ SameClock(s, t) /\ \A x \in Registered(t) : Ahead(s)[x] = Ahead(t)[x]
      BY <2>1, <2>2 DEF Alike, SameStore, SameClock
    <3> QED BY <1>1, <3>1, ClockKeeps
  <2>4. Updated(r, s) /\ Keeps(r, s, Registered(s))
    BY <2>2, UpdateKeeps DEF Alike
  <2> HIDE DEF r
  <2>5. /\ Sound(r) /\ Registered(r) = Registered(t) /\ r.started = t.started
        /\ r.in_signal_time = TRUE /\ r.hrtcnt_advance = 0
    BY <2>1, <2>2, <2>4 DEF Updated, Alike
  <2>6. Keeps(r, t, Registered(t))
    BY <2>2, <2>3, <2>4, KeepsTwice DEF Alike
  <2> QED BY <1>5, <2>5, <2>6, NowBusy DEF Handled, State, r, s
<1> QED BY <1>4, <1>5

\* The flags of the events, which the kernel's time does not depend on.
Flagged(r, t) ==
    /\ State(r) /\ Alike(r, t) /\ r.hrt_event = t.hrt_event /\ Registered(r) = Registered(t)
    /\ r.in_signal_time = t.in_signal_time /\ r.hrtcnt_advance = t.hrtcnt_advance
    /\ Keeps(r, t, Registered(t))

\* The flag of an event.
Mark(t, e, b) == [t EXCEPT !.started[e] = b]

\* A change of a flag concerns neither the heap nor the times.
LEMMA Flags ==
  ASSUME NEW t, State(t), NEW e \in Event, NEW b \in BOOLEAN
  PROVE  /\ Flagged(Mark(t, e, b), t)
         /\ Mark(t, e, b).started = [t.started EXCEPT ![e] = b]
<1> DEFINE r == Mark(t, e, b)
<1>1. /\ Sound(t) /\ DOMAIN t = Fields /\ t.hrtcnt_advance \in Nat /\ t.hrtcnt_advance < EVTTIM_MOD
      /\ t.hrt_event \in Int /\ t.in_signal_time \in BOOLEAN /\ t.started \in [Event -> BOOLEAN]
      /\ Registered(t) \subseteq Event
  BY SoundIs DEF State
<1>2. /\ SameStore(r, t) /\ r.hrtcnt_advance = t.hrtcnt_advance
      /\ r.hrt_event = t.hrt_event /\ r.in_signal_time = t.in_signal_time
      /\ r.started = [t.started EXCEPT ![e] = b]
  BY <1>1 DEF SameStore, Fields, Mark
<1> HIDE DEF r
<1>3. r.started \in [Event -> BOOLEAN]
  BY <1>1, <1>2
<1>4. \A x \in Registered(t) : t.hrtcnt_advance <= Ahead(t)[x]
  BY <1>1 DEF Sound, InReach
<1>5. Sound(r) /\ Registered(r) = Registered(t) /\ Ahead(r) = Ahead(t) /\ Behind(r) = Behind(t)
  BY <1>1, <1>2, <1>3, <1>4, StaysSound
<1>6. Keeps(r, t, Registered(t))
  <2>1. SameClock(r, t)
    BY <1>2 DEF SameStore, SameClock
  <2> QED BY <1>1, <1>5, <2>1, ClockKeeps
<1>7. State(r)
  <2>1. Resting(t) => Resting(r)
    BY <1>2, <1>5 DEF Resting
  <2>2. Busy(t) => Busy(r)
    BY <1>2 DEF Busy
  <2> QED BY <1>2, <1>5, <2>1, <2>2 DEF State
<1> QED BY <1>2, <1>5, <1>6, <1>7 DEF Flagged, Alike, r

\* signal_time_call: the earliest event is due, and it is called.
Called(r, t, e) ==
    /\ State(r) /\ r.in_signal_time = t.in_signal_time /\ r.hrtcnt_advance = t.hrtcnt_advance
    /\ e \in Registered(t) /\ e \in Event
    /\ Left(t, e) <= 0 /\ \A x \in Registered(t) : Left(t, e) <= Left(t, x)
    /\ Keeps(r, t, Registered(t) \ {e})
    /\ IF e \in Cyclic
       THEN /\ Registered(r) = Registered(t) /\ r.started = t.started
            /\ Left(r, e) = Left(t, e) + cyctim[e]
       ELSE /\ Registered(r) = Registered(t) \ {e}
            /\ r.started = [t.started EXCEPT ![e] = FALSE]

\* What signal_time does with the earliest event, if it is due.
LEMMA Calls ==
  ASSUME NEW t, State(t), t.in_signal_time, t.tmevt_heap # <<>>,
         EVTTIM_LE(t, top_evttim(t), t.current_evttim),
         NEW e, e = Head(t.tmevt_heap), NEW out, out = tmevtb_delete_top(t)
  PROVE  Called(IF e \in Cyclic THEN call_cyclic(out, e) ELSE call_once(out, e), t, e)
<1> DEFINE R == Registered(t)
           A == Ahead(t)[e]
           M == BOUNDARY_MARGIN
           g == t.hrtcnt_advance
           v == t.evttim[e]
<1>1. Sound(t) /\ IsHeap(t) /\ Busy(t)
  BY DEF State, Sound
<1>2. /\ e = t.tmevt_heap[1] /\ e \in R /\ e \in Event /\ top_evttim(t) = v /\ v \in Int
      /\ EVTTIM_ADVANCE(t, v) = A /\ A <= M
  <2>1. /\ t.tmevt_heap[1] \in R /\ t.tmevt_heap[1] \in Event
    BY <1>1, DueIs
  <2>2. e = t.tmevt_heap[1]
    BY <1>1, <2>1, TopIs
  <2> QED BY <1>1, <2>2, DueIs
<1>3. /\ A \in Int /\ M \in Nat /\ g \in Nat /\ g <= A /\ EVTTIM_MOD \in Nat \ {0}
  <2>1. g <= A
    BY <1>1, <1>2 DEF Sound, InReach
  <2> QED BY <1>1, <1>2, <2>1, SoundIs, Figures
<1>4. Left(t, e) = (A - M) - g
  BY <1>1, <1>2, LeftIs
<1>5. Left(t, e) <= 0
  <2> HIDE DEF A, M, g
  <2> QED BY <1>2, <1>3, <1>4
<1>6. ASSUME NEW x \in R PROVE Left(t, e) <= Left(t, x)
  <2>1. A <= Ahead(t)[x] /\ x \in Event /\ Ahead(t)[x] \in Int
    BY <1>1, <1>2, SoundIs, TopIsEarliest
  <2>2. Left(t, x) = (Ahead(t)[x] - M) - g
    BY <1>1, <2>1, LeftIs
  <2> HIDE DEF A, M, g
  <2> QED BY <1>3, <1>4, <2>1, <2>2
<1>7. Reduced(out, t, R \ {e})
  <2>1. Becomes(out, t, R \ {e})
    BY <1>1, <1>2, TopDeletion
  <2> QED BY <1>1, <2>1, Fewer
<1>8. /\ State(out) /\ Sound(out) /\ Registered(out) = R \ {e} /\ out.evttim[e] = v
      /\ Ahead(out)[e] = A /\ Behind(out) = Behind(t) /\ out.hrtcnt_advance = g
      /\ out.in_signal_time = t.in_signal_time /\ out.started = t.started
      /\ Keeps(out, t, R \ {e}) /\ EVTTIM_ADVANCE(out, v) = A
  <2>1. State(out)
    BY <1>7, StateReduced
  <2>2. EVTTIM_ADVANCE(out, v) = A
    BY <1>2, <1>7 DEF Reduced, Rest, EVTTIM_ADVANCE
  <2> QED BY <1>7, <2>1, <2>2 DEF Reduced, Rest, SameClock
<1>9. CASE e \in Cyclic
  <2> DEFINE k == cyctim[e]
             w == (v + k) % EVTTIM_MOD
             u == [out EXCEPT !.evttim[e] = w]
             r == tmevtb_insert(u, e)
  <2>1. k \in Int /\ k >= 1 /\ k <= TMAX_RELTIM /\ TMAX_RELTIM \in Nat
    <3>1. k \in 1 .. TMAX_RELTIM
      BY <1>9, EventAssumption
    <3> QED BY <3>1, Figures
  <2>2. call_cyclic(out, e) = r
    <3>1. [out EXCEPT !.evttim[e] = (@ + cyctim[e]) % EVTTIM_MOD] = u
      BY <1>8
    <3> QED BY <3>1 DEF call_cyclic
  <2>3. w \in Evttim
    <3>1. v + k \in Int
      BY <1>2, <2>1
    <3> HIDE DEF k, v
    <3> QED BY <1>3, <3>1, ModRange DEF Evttim
  <2> HIDE DEF k, u
  <2>4. EVTTIM_ADVANCE(out, w) = A + k
    <3>1. EVTTIM_ADVANCE(out, w) = (A + k) % EVTTIM_MOD
      <4> HIDE DEF A, v
      <4>1. EVTTIM_ADVANCE(out, w) = (EVTTIM_ADVANCE(out, v) + k) % EVTTIM_MOD
        BY <1>2, <1>8, <2>1, LaterIs
      <4> QED BY <1>8, <4>1
    <3>2. A + k \in 0 .. EVTTIM_MOD - 1
      <4> HIDE DEF A, M, g
      <4>1. M + TMAX_RELTIM < EVTTIM_MOD
        BY Figures DEF M
      <4> QED BY <1>2, <1>3, <2>1, <4>1
    <3> HIDE DEF A
    <3> QED BY <1>3, <3>1, <3>2, ModSmall
  <2>5. A + k \in Int /\ g <= A + k /\ A + k <= M + TMAX_RELTIM + TSTEP_HRTCNT + Behind(out)
    <3>1. TSTEP_HRTCNT \in Nat /\ Behind(out) \in Nat
      BY <1>8, SoundIs, Figures
    <3> HIDE DEF A, M, g
    <3> QED BY <1>2, <1>3, <2>1, <3>1
  <2>6. Joined(r, out, e, A + k)
    <3>1. e \notin Registered(out)
      BY <1>8
    <3> QED BY <1>2, <1>8, <2>3, <2>4, <2>5, <3>1, Inserts DEF u
  <2> HIDE DEF r
  <2>7. /\ Sound(r) /\ Registered(r) = R /\ r.started = t.started
        /\ r.in_signal_time = t.in_signal_time /\ r.hrtcnt_advance = g
        /\ Ahead(r)[e] = A + k /\ Keeps(r, out, R \ {e})
    <3>1. (R \ {e}) \cup {e} = R
      BY <1>2
    <3> QED BY <1>8, <2>6, <3>1 DEF Joined, Rest, SameClock
  <2>8. State(r)
    <3>1. Busy(r)
      BY <1>1, <2>7 DEF Busy
    <3> QED BY <2>7, <3>1 DEF State
  <2>9. Keeps(r, t, R \ {e})
    BY <1>8, <2>7, KeepsTwice
  <2>10. Left(r, e) = Left(t, e) + k
    <3>1. Left(r, e) = ((A + k) - M) - g
      BY <1>2, <2>7, LeftIs
    <3> HIDE DEF A, M, g
    <3> QED BY <1>3, <1>4, <2>1, <3>1
  <2> QED BY <1>2, <1>5, <1>6, <1>9, <2>2, <2>7, <2>8, <2>9, <2>10 DEF Called, k
<1>10. CASE e \notin Cyclic
  <2> DEFINE r == Mark(out, e, FALSE)
  <2>1. call_once(out, e) = r
    BY DEF call_once, Mark
  <2>2. Flagged(r, out) /\ r.started = [t.started EXCEPT ![e] = FALSE]
    <3>1. State(out) /\ e \in Event /\ FALSE \in BOOLEAN /\ out.started = t.started
      BY <1>2, <1>8
    <3>2. Flagged(r, out) /\ r.started = [out.started EXCEPT ![e] = FALSE]
      BY <3>1, Flags
    <3> QED BY <3>1, <3>2
  <2> HIDE DEF r
  <2>3. /\ State(r) /\ Registered(r) = R \ {e}
        /\ r.in_signal_time = t.in_signal_time /\ r.hrtcnt_advance = g
        /\ Keeps(r, out, R \ {e})
    BY <1>8, <2>2 DEF Flagged
  <2>4. Keeps(r, t, R \ {e})
    BY <1>8, <2>3, KeepsTwice
  <2> QED BY <1>2, <1>5, <1>6, <1>10, <2>1, <2>2, <2>3, <2>4 DEF Called
<1> QED BY <1>9, <1>10

\* signal_time_end: nothing is due, and the timer is set.
Ended(r, t) ==
    /\ State(r) /\ Registered(r) = Registered(t) /\ r.started = t.started
    /\ r.in_signal_time = FALSE /\ Keeps(r, t, Registered(t))

\* What signal_time does at its end.
LEMMA Ends ==
  ASSUME NEW t, State(t), t.hrtcnt_advance = 0,
         t.tmevt_heap # <<>> => ~EVTTIM_LE(t, top_evttim(t), t.current_evttim)
  PROVE  Ended([set_hrt_event(t) EXCEPT !.in_signal_time = FALSE], t)
<1> DEFINE s == set_hrt_event(t)
           r == [s EXCEPT !.in_signal_time = FALSE]
<1>1. Sound(t) /\ Registered(t) \subseteq Event
  BY SoundIs DEF State
<1>2. \A x \in Registered(t) : Ahead(t)[x] > BOUNDARY_MARGIN
  <2> TAKE x \in Registered(t)
  <2> DEFINE A == Ahead(t)[t.tmevt_heap[1]]
  <2>1. t.tmevt_heap # <<>> /\ A <= Ahead(t)[x]
    BY <1>1, TopIsEarliest DEF Sound
  <2>2. ~(A <= BOUNDARY_MARGIN) /\ t.tmevt_heap[1] \in Event
    BY <1>1, <2>1, DueIs
  <2>3. A \in Int /\ Ahead(t)[x] \in Int
    BY <1>1, <2>2, SoundIs
  <2> HIDE DEF A
  <2> QED BY <2>1, <2>2, <2>3, Figures
<1>3. SYSTICK => \A x \in Registered(t) : Ahead(t)[x] > BOUNDARY_MARGIN - 2 * TMAX_ADJTIM
  <2>1. \A x \in Registered(t) : Ahead(t)[x] \in Int
    BY <1>1, SoundIs
  <2> QED BY <1>2, <2>1, Figures
<1>4. Timed(s, t) /\ Resting(s)
  BY <1>1, <1>3, Sets
<1>5. Keeps(s, t, Registered(t))
  BY <1>1, <1>4, TimedKeeps
<1>6. /\ Sound(s) /\ Registered(s) = Registered(t) /\ s.started = t.started
      /\ s.hrtcnt_advance = 0
  BY <1>4 DEF Timed, Alike
<1> HIDE DEF s
<1>7. /\ DOMAIN s = Fields /\ s.hrt_event \in Int
      /\ \A x \in Registered(s) : s.hrtcnt_advance <= Ahead(s)[x]
  BY <1>6, SoundIs DEF Sound, InReach
<1>8. /\ SameStore(r, s) /\ r.hrtcnt_advance = 0 /\ r.hrt_event = s.hrt_event
      /\ r.in_signal_time = FALSE /\ r.started = s.started
  BY <1>6, <1>7 DEF SameStore, Fields
<1> HIDE DEF r
<1>9. Alike(r, s)
  <2>1. 0 \in Nat /\ 0 < EVTTIM_MOD /\ FALSE \in BOOLEAN
    BY Figures
  <2> QED BY <1>6, <1>7, <1>8, <2>1, CountIs
<1>10. /\ Sound(r) /\ Registered(r) = Registered(s) /\ Ahead(r) = Ahead(s)
  BY <1>9 DEF Alike
<1>11. Keeps(r, s, Registered(s))
  <2>1. SameClock(r, s) /\ Registered(s) \subseteq Event
    BY <1>1, <1>6, <1>8 DEF SameStore, SameClock
  <2> QED BY <1>6, <1>10, <2>1, ClockKeeps
<1>12. Keeps(r, t, Registered(t))
  BY <1>5, <1>6, <1>11, KeepsTwice
<1>13. Resting(r)
  BY <1>4, <1>6, <1>8, <1>10 DEF Resting
<1> QED BY <1>6, <1>8, <1>10, <1>12, <1>13 DEF Ended, State, r, s

-----------------------------------------------------------------------------
(* The boot. *)

\* Starting the cyclics of a sequence one by one.
LEMMA StartsInOrder ==
  ASSUME NEW h0, NEW q \in Seq(Event)
  PROVE  \E a : /\ a[0] = h0
                /\ \A n \in 1 .. Len(q) : a[n] = start_cyclic(a[n - 1], q[n])
                /\ a[Len(q)] = FoldLeft(start_cyclic, h0, q)
<1> DEFINE N == Len(q)
           Value(g, s) == IF s = {} THEN h0
                         ELSE start_cyclic(g[s \ {Max(s)}], q[Max(s)])
           Iterates(g, n) == g = [s \in SUBSET (1 .. n) |-> Value(g, s)]
           T == {n \in 0 .. N : ~ \E g : Iterates(g, n)}
           iter == CHOOSE g : Iterates(g, N)
           a == [n \in 0 .. N |-> iter[1 .. n]]
<1>1. N \in Nat
  OBVIOUS
<1>2. FoldLeft(start_cyclic, h0, q) = iter[1 .. N]
  <2>1. FoldLeft(start_cyclic, h0, q) =
          (CHOOSE g : g = [s \in SUBSET (DOMAIN q) |->
                IF s = {} THEN h0 ELSE start_cyclic(g[s \ {Max(s)}], q[Max(s)])])[DOMAIN q]
    BY Zenon DEF FoldLeft, MapThenFoldSet
  <2>2. DOMAIN q = 1 .. N
    OBVIOUS
  <2> QED BY <2>1, <2>2
<1>3. \A n \in 0 .. N : \E g : Iterates(g, n)
  <2> SUFFICES ASSUME T # {} PROVE FALSE
    OBVIOUS
  <2>1. T \in SUBSET Nat
    BY <1>1
  <2> DEFINE n == Min(T)
  <2>2. n \in T /\ \A m \in T : n <= m
    <3> HIDE DEF T
    <3> QED BY <2>1, SmallestNat
  <2>3. n \in 0 .. N /\ ~ \E g : Iterates(g, n)
    BY <2>2
  <2> HIDE DEF n
  <2>4. n # 0
    <3>1. Iterates([s \in SUBSET (1 .. 0) |-> h0], 0)
      OBVIOUS
    <3> QED BY <2>3, <3>1
  <2>5. PICK g : Iterates(g, n - 1)
    <3>1. n - 1 \in 0 .. N /\ ~(n <= n - 1)
      BY <2>3, <2>4
    <3> QED BY <2>2, <3>1
  <2> DEFINE h == [s \in SUBSET (1 .. n) |->
                      IF n \in s THEN start_cyclic(g[s \ {n}], q[n]) ELSE g[s]]
  <2>6. ASSUME NEW s \in SUBSET (1 .. n) PROVE h[s] = Value(h, s)
    <3>1. n \in Nat /\ n - 1 \in Nat
      BY <2>3, <2>4
    <3>2. CASE n \in s
      <4>1. Max(s) = n
        BY <3>1, <3>2, GreatestOf
      <4>2. s \ {n} \in SUBSET (1 .. n) /\ n \notin s \ {n} /\ s # {}
        BY <3>2
      <4>3. h[s \ {n}] = g[s \ {n}]
        BY <4>2
      <4>4. h[s] = start_cyclic(g[s \ {n}], q[n])
        BY <3>2
      <4> HIDE DEF h
      <4> QED BY <4>1, <4>2, <4>3, <4>4
    <3>3. CASE n \notin s
      <4>1. s \in SUBSET (1 .. (n - 1))
        BY <3>1, <3>3
      <4>2. h[s] = Value(g, s)
        <5>1. h[s] = g[s]
          BY <3>3
        <5> HIDE DEF h, Value
        <5> QED BY <2>5, <4>1, <5>1
      <4>3. s \ {Max(s)} \in SUBSET (1 .. n) /\ n \notin s \ {Max(s)}
        BY <3>3
      <4>4. h[s \ {Max(s)}] = g[s \ {Max(s)}]
        BY <4>3
      <4> HIDE DEF h
      <4> QED BY <4>2, <4>4
    <3> QED BY <3>2, <3>3
  <2>7. Iterates(h, n)
    <3>1. h = [s \in SUBSET (1 .. n) |-> h[s]]
      OBVIOUS
    <3> HIDE DEF h, Value
    <3> QED BY <2>6, <3>1
  <2> QED BY <2>3, <2>7
<1>4. Iterates(iter, N)
  <2> HIDE DEF Iterates
  <2> QED BY <1>1, <1>3
<1> HIDE DEF iter
<1>5. iter[1 .. 0] = h0
  <2>1. 1 .. 0 = {} /\ 1 .. 0 \in SUBSET (1 .. N)
    OBVIOUS
  <2> QED BY <1>4, <2>1
<1>6. ASSUME NEW n \in 1 .. N
      PROVE  iter[1 .. n] = start_cyclic(iter[1 .. (n - 1)], q[n])
  <2>1. /\ 1 .. n \in SUBSET (1 .. N) /\ 1 .. n # {} /\ (1 .. n) \ {n} = 1 .. (n - 1)
        /\ n \in Nat /\ n \in 1 .. n /\ 1 .. n \in SUBSET (1 .. n)
    <3>1. n \in Nat /\ 1 <= n /\ n <= N
      BY <1>1
    <3>2. n \in 1 .. n
      BY <3>1
    <3>5. 1 .. n # {}
      BY <3>2
    <3>3. (1 .. n) \ {n} = 1 .. (n - 1)
      BY <3>1
    <3>4. \A i \in 1 .. n : i \in 1 .. N
      BY <1>1, <3>1
    <3> QED BY <3>1, <3>2, <3>3, <3>4, <3>5
  <2>2. Max(1 .. n) = n
    BY <2>1, GreatestOf
  <2>3. iter[1 .. n] = Value(iter, 1 .. n)
    <3> HIDE DEF Value
    <3> QED BY <1>4, <2>1
  <2> QED BY <2>1, <2>2, <2>3
<1>7. a[0] = h0 /\ a[N] = FoldLeft(start_cyclic, h0, q)
  BY <1>1, <1>2, <1>5
<1>8. \A n \in 1 .. N : a[n] = start_cyclic(a[n - 1], q[n])
  <2> SUFFICES ASSUME NEW n \in 1 .. N PROVE a[n] = start_cyclic(a[n - 1], q[n])
    OBVIOUS
  <2>1. n \in 0 .. N /\ n - 1 \in 0 .. N
    BY <1>1
  <2>2. a[n] = iter[1 .. n] /\ a[n - 1] = iter[1 .. (n - 1)]
    BY <2>1
  <2> QED BY <1>6, <2>2
<1> HIDE DEF a
<1> QED BY <1>7, <1>8


\* The store when the cyclics R have been started.
Booted(t, R) ==
    /\ Sound(t) /\ Registered(t) = R /\ R \subseteq Cyclic
    /\ \A x \in Event : t.started[x] <=> x \in R
    /\ t.current_evttim = 0 /\ t.monotonic_evttim = 0 /\ t.systim_offset = 0
    /\ t.hrtcnt_advance = 0 /\ t.hrt_event = 0 /\ t.in_signal_time = FALSE
    /\ \A x \in R : Ahead(t)[x] = BOUNDARY_MARGIN + cycphs[x]

\* The first times as numbers.
LEMMA Phases ==
  /\ Cyclic \subseteq Event /\ TA_STA \subseteq Cyclic /\ IsFiniteSet(TA_STA)
  /\ \A x \in Cyclic : cycphs[x] \in Nat /\ cycphs[x] <= TMAX_RELTIM
                       /\ cycphs[x] \in 0 .. EVTTIM_MOD - 1
<1>1. \A x \in Cyclic : cycphs[x] \in 0 .. TMAX_RELTIM
  BY EventAssumption
<1>2. TMAX_RELTIM \in Nat /\ TMAX_RELTIM < EVTTIM_MOD /\ EVTTIM_MOD \in Int
  BY Figures
<1>3. \A x \in Cyclic : cycphs[x] \in Nat /\ cycphs[x] <= TMAX_RELTIM
                       /\ cycphs[x] \in 0 .. EVTTIM_MOD - 1
  BY <1>1, <1>2
<1> QED BY <1>3, EventAssumption

\* With the SysTick timer no event started at boot is late.
LEMMA BootedRests ==
  ASSUME NEW t, NEW R, Booted(t, R)
  PROVE  /\ State(t)
         /\ \A x \in Registered(t) : Ahead(t)[x] > BOUNDARY_MARGIN - 2 * TMAX_ADJTIM
<1>1. \A x \in R : cycphs[x] \in Nat /\ Ahead(t)[x] = BOUNDARY_MARGIN + cycphs[x]
  BY Phases DEF Booted
<1>2. \A x \in R : Ahead(t)[x] > BOUNDARY_MARGIN - 2 * TMAX_ADJTIM
  <2> TAKE x \in R
  <2>1. cycphs[x] \in Nat /\ Ahead(t)[x] = BOUNDARY_MARGIN + cycphs[x]
    BY <1>1
  <2> QED BY <2>1, Figures
<1>3. /\ t.hrt_event + t.hrtcnt_advance <= HRTCNT_BOUND /\ t.hrt_event >= -LATENCY
      /\ t.hrt_event <= 0
  BY Figures DEF Booted
<1>4. Resting(t)
  BY <1>2, <1>3 DEF Booted, Resting
<1> QED BY <1>2, <1>4 DEF Booted, State

\* What start_cyclic does.
LEMMA Starts ==
  ASSUME NEW t, NEW R, Booted(t, R), NEW e \in Cyclic, e \notin R
  PROVE  Booted(start_cyclic(t, e), R \cup {e})
<1> DEFINE s == Mark(t, e, TRUE)
           k == cycphs[e]
           M == BOUNDARY_MARGIN
           m == EVTTIM_MOD
           r == tmevtb_insert([s EXCEPT !.evttim[e] = k], e)
<1>1. /\ e \in Event /\ k \in Nat /\ k <= TMAX_RELTIM /\ k \in 0 .. m - 1 /\ k \in Int
      /\ m \in Nat \ {0} /\ M \in Nat /\ M + TMAX_RELTIM < m /\ TMAX_RELTIM \in Nat
  <2>1. e \in Event /\ k \in Nat /\ k <= TMAX_RELTIM /\ k \in 0 .. m - 1
    BY Phases
  <2>2. m \in Nat \ {0} /\ M \in Nat /\ M + TMAX_RELTIM < m /\ TMAX_RELTIM \in Nat
    BY Figures
  <2> QED BY <2>1, <2>2
<1>2. start_cyclic(t, e) = r
  BY DEF start_cyclic, Mark
<1>3. Flagged(s, t) /\ s.started = [t.started EXCEPT ![e] = TRUE]
  <2>1. State(t) /\ TRUE \in BOOLEAN
    BY BootedRests
  <2> HIDE DEF s
  <2> QED BY <1>1, <2>1, Flags DEF s
<1> HIDE DEF s
<1>4. /\ Sound(s) /\ Registered(s) = R /\ Ahead(s) = Ahead(t) /\ Behind(s) = Behind(t)
      /\ s.current_evttim = 0 /\ s.monotonic_evttim = 0 /\ s.systim_offset = 0
      /\ s.hrtcnt_advance = 0 /\ s.hrt_event = 0 /\ s.in_signal_time = FALSE
  BY <1>3 DEF Flagged, Alike, SameStore, Booted
<1>5. EVTTIM_ADVANCE(s, k) = M + k
  <2>1. EVTTIM_ADVANCE(s, (s.current_evttim + k) % m) = (M + k) % m
    BY <1>1, <1>4, SoundIs, AheadNow
  <2> HIDE DEF k, m, M
  <2>2. (0 + k) % m = k
    <3>1. 0 + k = k
      BY <1>1
    <3> QED BY <1>1, <3>1, ModSmall
  <2>3. (M + k) % m = M + k
    <3>1. M + k \in 0 .. m - 1
      BY <1>1
    <3> QED BY <1>1, <3>1, ModSmall
  <2> QED BY <1>4, <2>1, <2>2, <2>3
<1>6. Joined(r, s, e, M + k)
  <2>1. k \in Evttim
    BY <1>1 DEF Evttim
  <2>2. M + k \in Int /\ s.hrtcnt_advance <= M + k
        /\ M + k <= BOUNDARY_MARGIN + TMAX_RELTIM + TSTEP_HRTCNT + Behind(s)
    <3>1. TSTEP_HRTCNT \in Nat /\ Behind(s) \in Nat
      BY <1>4, SoundIs, Figures
    <3> HIDE DEF k
    <3> QED BY <1>1, <1>4, <3>1
  <2> HIDE DEF k
  <2> QED BY <1>1, <1>4, <1>5, <2>1, <2>2, Inserts
<1> HIDE DEF r
<1>7. /\ Sound(r) /\ Registered(r) = R \cup {e} /\ r.started = s.started
      /\ r.current_evttim = 0 /\ r.monotonic_evttim = 0 /\ r.systim_offset = 0
      /\ r.hrtcnt_advance = 0 /\ r.hrt_event = 0 /\ r.in_signal_time = FALSE
      /\ Ahead(r)[e] = M + k /\ \A x \in R : Ahead(r)[x] = Ahead(t)[x]
  BY <1>4, <1>6 DEF Joined, Rest, SameClock
<1>8. \A x \in Event : r.started[x] <=> x \in R \cup {e}
  <2>1. t.started \in [Event -> BOOLEAN] /\ \A x \in Event : t.started[x] <=> x \in R
    BY SoundIs DEF Booted
  <2>2. r.started = [t.started EXCEPT ![e] = TRUE]
    BY <1>3, <1>7
  <2> SUFFICES ASSUME NEW x \in Event PROVE r.started[x] <=> x \in R \cup {e}
    OBVIOUS
  <2>3. CASE x = e
    <3>1. r.started[x] = TRUE
      BY <2>1, <2>2, <2>3
    <3> QED BY <2>3, <3>1
  <2>4. CASE x # e
    <3>1. r.started[x] = t.started[x]
      BY <2>1, <2>2, <2>4
    <3> QED BY <2>1, <2>4, <3>1
  <2> QED BY <2>3, <2>4
<1>9. \A x \in R \cup {e} : Ahead(r)[x] = M + cycphs[x]
  BY <1>7 DEF Booted
<1> QED BY <1>2, <1>7, <1>8, <1>9 DEF Booted

\* Before any cyclic is initialized.
LEMMA BootedEmpty == Booted(initialize_tmevt, {})
<1> DEFINE t == initialize_tmevt
<1>1. /\ DOMAIN t = Fields /\ t.tmevt_heap = <<>> /\ t.p_tmevtn = <<>>
      /\ t.evttim = [e \in Event |-> 0]
      /\ t.boundary_evttim = (0 - BOUNDARY_MARGIN) % EVTTIM_MOD
      /\ t.current_evttim = 0 /\ t.monotonic_evttim = 0 /\ t.systim_offset = 0
      /\ t.in_signal_time = FALSE /\ t.started = [e \in Event |-> FALSE]
      /\ t.hrtcnt_advance = 0 /\ t.hrt_event = 0
  BY DEF initialize_tmevt, Fields
<1> HIDE DEF t
<1>2. /\ EVTTIM_MOD \in Nat \ {0} /\ BOUNDARY_MARGIN \in Nat /\ SYSTIM_MOD \in Nat \ {0}
      /\ 0 \in 0 .. EVTTIM_MOD - 1 /\ 0 \in 0 .. SYSTIM_MOD - 1
  BY Figures
<1>3. t.boundary_evttim \in Evttim
  <2>1. 0 - BOUNDARY_MARGIN \in Int
    BY <1>2
  <2> QED BY <1>1, <1>2, <2>1, ModRange DEF Evttim
<1>4. ToSet(t.tmevt_heap) = {} /\ Len(t.tmevt_heap) = 0
  BY <1>1 DEF ToSet
<1>5. IsStore(t)
  <2>1. t.evttim \in [Event -> Evttim]
    BY <1>1, <1>2 DEF Evttim
  <2>2. t.tmevt_heap \in Seq(Event)
    BY <1>1
  <2> QED BY <1>1, <1>3, <2>1, <2>2 DEF IsStore
<1>6. Located(t.tmevt_heap, t.p_tmevtn)
  <2>1. t.p_tmevtn \in [{} -> 1 .. 0]
    BY <1>1
  <2> QED BY <1>1, <1>4, <2>1 DEF Located
<1>7. HeapOrder(t)
  BY <1>4 DEF HeapOrder
<1>8. Behind(t) = 0
  <2>1. 0 - 0 = 0
    OBVIOUS
  <2> QED BY <1>1, <1>2, <2>1, ModSmall DEF Behind
<1>9. Clock(t)
  <2>1. t.started \in [Event -> BOOLEAN]
    BY <1>1
  <2>2. t.current_evttim \in Evttim /\ t.monotonic_evttim \in Evttim
    BY <1>1, <1>2 DEF Evttim
  <2>3. t.boundary_evttim = (t.current_evttim - BOUNDARY_MARGIN) % EVTTIM_MOD
    BY <1>1
  <2>4. t.systim_offset \in 0 .. SYSTIM_MOD - 1 /\ t.in_signal_time \in BOOLEAN
    BY <1>1, <1>2
  <2>5. t.hrtcnt_advance \in Nat /\ t.hrtcnt_advance < EVTTIM_MOD /\ t.hrt_event \in Int
    BY <1>1, <1>2
  <2> QED BY <1>8, <2>1, <2>2, <2>3, <2>4, <2>5 DEF Clock
<1>10. Registered(t) = {}
  BY <1>4 DEF Registered
<1>11. Sound(t)
  BY <1>5, <1>6, <1>7, <1>9, <1>10 DEF Sound, IsHeap, InReach
<1>12. \A x \in Event : t.started[x] <=> x \in {}
  BY <1>1
<1> QED BY <1>1, <1>10, <1>11, <1>12 DEF Booted, t

\* The cyclics to be started, in any order.
LEMMA Orders ==
  ASSUME NEW order \in SetToSeqs(TA_STA)
  PROVE  /\ order \in Seq(Cyclic) /\ order \in Seq(Event) /\ Len(order) \in Nat
         /\ \A i, j \in 1 .. Len(order) : order[i] = order[j] => i = j
         /\ {order[i] : i \in 1 .. Len(order)} = TA_STA
<1> DEFINE N == Cardinality(TA_STA)
<1>1. IsFiniteSet(TA_STA) /\ TA_STA \subseteq Cyclic /\ Cyclic \subseteq Event
  BY Phases
<1>2. N \in Nat
  BY <1>1, FS_CardinalityType
<1>3. order \in [1 .. N -> TA_STA] /\ \A i, j \in 1 .. N : i # j => order[i] # order[j]
  BY DEF SetToSeqs, IsInjective
<1> HIDE DEF N
<1>4. order \in Seq(TA_STA) /\ Len(order) = N
  BY <1>2, <1>3
<1>5. order \in Surjection(1 .. N, TA_STA)
  <2>1. order \in Injection(1 .. N, TA_STA)
    BY <1>3 DEF Injection, IsInjective
  <2>2. Cardinality(1 .. N) = N /\ IsFiniteSet(1 .. N)
    BY <1>2, FS_Interval
  <2> QED BY <1>1, <2>1, <2>2, FS_Injection DEF N
<1>6. {order[i] : i \in 1 .. N} = TA_STA
  BY <1>3, <1>5 DEF Surjection
<1> QED BY <1>1, <1>2, <1>3, <1>4, <1>6

\* When all are, in whatever order.
LEMMA BootIs ==
  ASSUME NEW order \in SetToSeqs(TA_STA)
  PROVE  Booted(initialize_cyclic(order), TA_STA)
<1> DEFINE N == Len(order)
           First(n) == {order[i] : i \in 1 .. n}
<1>1. /\ order \in Seq(Cyclic) /\ order \in Seq(Event) /\ N \in Nat
      /\ \A i, j \in 1 .. N : order[i] = order[j] => i = j
      /\ First(N) = TA_STA
  BY Orders
<1>2. PICK a : /\ a[0] = initialize_tmevt
               /\ \A n \in 1 .. N : a[n] = start_cyclic(a[n - 1], order[n])
               /\ a[N] = FoldLeft(start_cyclic, initialize_tmevt, order)
  BY <1>1, StartsInOrder
<1> DEFINE T == {n \in 0 .. N : ~Booted(a[n], First(n))}
<1>3. Booted(a[0], First(0))
  <2>1. First(0) = {}
    OBVIOUS
  <2> QED BY <1>2, <2>1, BootedEmpty
<1>4. ASSUME NEW n \in 1 .. N, Booted(a[n - 1], First(n - 1))
      PROVE  Booted(a[n], First(n))
  <2>1. n \in Nat /\ n >= 1 /\ n <= N
    BY <1>1
  <2>2. \A i \in 1 .. (n - 1) : i \in 1 .. N /\ i # n
    BY <1>1, <2>1
  <2>3. order[n] \notin First(n - 1) /\ order[n] \in Cyclic
    BY <1>1, <2>2
  <2>4. First(n) = First(n - 1) \cup {order[n]}
    <3>1. 1 .. n = (1 .. (n - 1)) \cup {n}
      BY <2>1
    <3> QED BY <3>1
  <2> HIDE DEF First
  <2>5. Booted(start_cyclic(a[n - 1], order[n]), First(n - 1) \cup {order[n]})
    BY <1>4, <2>3, Starts
  <2> QED BY <1>2, <2>4, <2>5
<1> HIDE DEF First
<1>5. T = {}
  <2> SUFFICES ASSUME T # {} PROVE FALSE
    OBVIOUS
  <2>1. T \in SUBSET Nat
    BY <1>1
  <2> DEFINE n == Min(T)
  <2>2. n \in T /\ \A x \in T : n <= x
    <3> HIDE DEF T
    <3> QED BY <2>1, SmallestNat
  <2> HIDE DEF n
  <2>3. n \in 0 .. N /\ ~Booted(a[n], First(n))
    BY <2>2
  <2>4. n # 0
    BY <1>3, <2>3
  <2>5. n - 1 \in 0 .. N /\ n \in 1 .. N /\ ~(n <= n - 1)
    BY <1>1, <2>3, <2>4
  <2>6. Booted(a[n - 1], First(n - 1))
    BY <2>2, <2>5
  <2> QED BY <1>4, <2>3, <2>5, <2>6
<1>6. Booted(a[N], First(N))
  BY <1>1, <1>5
<1>7. First(N) = TA_STA
  BY <1>1
<1> QED BY <1>2, <1>6, <1>7 DEF initialize_cyclic

-----------------------------------------------------------------------------
(* The invariant, and the steps. *)

\* The inductive invariant: signal_time reads the count before it ends, and a
\* callback has been called when the CPU is unlocked.
IInv ==
    /\ State(tm) /\ Registered(tm) = StartedEvents
    /\ sig \in {"idle", "loop", "call"} /\ callflag \in BOOLEAN
    /\ tm.in_signal_time = (sig # "idle")
    /\ sig = "loop" /\ ~callflag => tm.hrtcnt_advance = 0
    /\ sig = "call" => callflag

\* The events that are started are those registered.
LEMMA StartedIs ==
  ASSUME IInv, NEW e \in Event
  PROVE  tm.started[e] <=> e \in Registered(tm)
BY DEF IInv, StartedEvents

\* What the invariant says of the data section.
LEMMA InvSound ==
  ASSUME IInv
  PROVE  /\ State(tm) /\ Sound(tm) /\ Registered(tm) \subseteq Event
         /\ tm.started \in [Event -> BOOLEAN]
<1>1. State(tm) /\ Sound(tm)
  BY DEF IInv, State
<1> QED BY <1>1, SoundIs

\* A call, by a task or a handler, that leaves the heap in step with the flags.
LEMMA CallStep ==
  ASSUME IInv, CHECK_UNL, State(tm'), Registered(tm') = StartedEvents',
         tm'.in_signal_time = tm.in_signal_time, UNCHANGED <<sig, callflag>>
  PROVE  IInv'
<1>1. sig # "loop"
  BY DEF CHECK_UNL
<1> QED BY <1>1 DEF IInv

\* The flags after a step.
LEMMA StartedAfter ==
  ASSUME NEW R, R \subseteq Event, \A x \in Event : tm'.started[x] <=> x \in R
  PROVE  StartedEvents' = R
BY DEF StartedEvents

\* What sta_alm, sta_cyc and the wait with a time limit do.
Begun(e, time) ==
    /\ State(tm') /\ Registered(tm') = Registered(tm) \cup {e}
    /\ StartedEvents' = Registered(tm) \cup {e}
    /\ tm'.in_signal_time = tm.in_signal_time
    /\ Keeps(tm', tm, Registered(tm) \ {e}) /\ Left(tm', e) = TSTEP_HRTCNT + time

\* A start does so.
LEMMA StartStep ==
  ASSUME IInv, NEW e \in Event, NEW time \in 0 .. TMAX_RELTIM, Start(e, time)
  PROVE  Begun(e, time) /\ UNCHANGED <<sig, callflag>>
<1> DEFINE R == Registered(tm)
           out == IF tm.started[e] THEN tmevtb_dequeue(tm, e) ELSE Mark(tm, e, TRUE)
<1>1. tm' = tmevtb_enqueue_reltim(out, e, time) /\ UNCHANGED <<sig, callflag>>
  BY DEF Start, Call, Mark
<1>2. State(tm) /\ R \subseteq Event /\ tm.started \in [Event -> BOOLEAN]
  BY InvSound
<1>3. /\ State(out) /\ Registered(out) = R \ {e} /\ out.in_signal_time = tm.in_signal_time
      /\ \A x \in Event : out.started[x] <=> x \in R \cup {e}
      /\ Keeps(out, tm, R \ {e})
  <2>1. CASE tm.started[e]
    <3>1. e \in R
      BY <2>1, StartedIs
    <3>2. Dequeued(out, tm, e)
      <4>1. Dequeued(tmevtb_dequeue(tm, e), tm, e)
        BY <1>2, <3>1, Dequeues
      <4> QED BY <2>1, <4>1
    <3> HIDE DEF out
    <3>3. out.started = tm.started
      BY <3>2 DEF Dequeued
    <3>4. \A x \in Event : out.started[x] <=> x \in R \cup {e}
      BY <3>1, <3>3, StartedIs
    <3> QED BY <3>2, <3>4 DEF Dequeued
  <2>2. CASE ~tm.started[e]
    <3>1. e \notin R
      BY <2>2, StartedIs
    <3>2. Flagged(out, tm) /\ out.started = [tm.started EXCEPT ![e] = TRUE]
      <4>1. out = Mark(tm, e, TRUE) /\ TRUE \in BOOLEAN
        BY <2>2
      <4> HIDE DEF out
      <4> QED BY <1>2, <4>1, Flags
    <3> HIDE DEF out
    <3>3. R \ {e} = R
      BY <3>1
    <3>4. ASSUME NEW x \in Event PROVE out.started[x] <=> x \in R \cup {e}
      <4>1. CASE x = e
        <5>1. out.started[x] = TRUE
          BY <1>2, <3>2, <4>1
        <5> QED BY <4>1, <5>1
      <4>2. CASE x # e
        <5>1. out.started[x] = tm.started[x]
          BY <1>2, <3>2, <4>2
        <5> QED BY <4>2, <5>1, StartedIs
      <4> QED BY <4>1, <4>2
    <3> QED BY <3>2, <3>3, <3>4 DEF Flagged
  <2> QED BY <2>1, <2>2
<1> HIDE DEF out
<1>4. Enqueued(tm', out, e, time)
  <2>1. e \notin Registered(out)
    BY <1>3
  <2> QED BY <1>1, <1>3, <2>1, Enqueues
<1>5. Registered(tm') = R \cup {e} /\ (R \ {e}) \cup {e} = R \cup {e}
  BY <1>3, <1>4 DEF Enqueued
<1>6. \A x \in Event : tm'.started[x] <=> x \in R \cup {e}
  BY <1>3, <1>4 DEF Enqueued
<1>7. StartedEvents' = R \cup {e}
  BY <1>2, <1>6, StartedAfter
<1>8. Keeps(tm', tm, R \ {e})
  <2>1. Keeps(tm', out, R \ {e})
    BY <1>3, <1>4 DEF Enqueued
  <2> QED BY <1>3, <2>1, KeepsTwice
<1> QED BY <1>1, <1>3, <1>4, <1>5, <1>7, <1>8 DEF Begun, Enqueued

\* What stp_alm, stp_cyc and the end of a wait do.
Stopped(e) ==
    /\ e \in Registered(tm)
    /\ State(tm') /\ Registered(tm') = Registered(tm) \ {e}
    /\ StartedEvents' = Registered(tm) \ {e}
    /\ tm'.in_signal_time = tm.in_signal_time
    /\ Keeps(tm', tm, Registered(tm) \ {e})

\* A stop does so.
LEMMA StopStep ==
  ASSUME IInv, NEW e \in Event, Stop(e)
  PROVE  Stopped(e) /\ UNCHANGED <<sig, callflag>>
<1> DEFINE R == Registered(tm)
           out == Mark(tm, e, FALSE)
<1>1. tm.started[e] /\ tm' = tmevtb_dequeue(out, e) /\ UNCHANGED <<sig, callflag>>
  BY DEF Stop, Call, Mark
<1>2. State(tm) /\ R \subseteq Event /\ tm.started \in [Event -> BOOLEAN] /\ e \in R
  BY <1>1, InvSound, StartedIs
<1>3. Flagged(out, tm) /\ out.started = [tm.started EXCEPT ![e] = FALSE]
  <2>1. FALSE \in BOOLEAN
    OBVIOUS
  <2> QED BY <1>2, <2>1, Flags
<1> HIDE DEF out
<1>4. State(out) /\ Registered(out) = R /\ out.in_signal_time = tm.in_signal_time
      /\ Keeps(out, tm, R \ {e})
  <2>1. Keeps(out, tm, R)
    BY <1>3 DEF Flagged
  <2> QED BY <1>3, <2>1, KeepsFewer DEF Flagged
<1>5. Dequeued(tm', out, e)
  BY <1>1, <1>2, <1>4, Dequeues
<1>6. \A x \in Event : tm'.started[x] <=> x \in R \ {e}
  <2>1. tm'.started = [tm.started EXCEPT ![e] = FALSE]
    BY <1>3, <1>5 DEF Dequeued
  <2> TAKE x \in Event
  <2>2. CASE x = e
    <3>1. tm'.started[x] = FALSE
      BY <1>2, <2>1, <2>2
    <3> QED BY <2>2, <3>1
  <2>3. CASE x # e
    <3>1. tm'.started[x] = tm.started[x]
      BY <1>2, <2>1, <2>3
    <3> QED BY <2>3, <3>1, StartedIs
  <2> QED BY <2>2, <2>3
<1>7. StartedEvents' = R \ {e}
  <2>1. R \ {e} \subseteq Event
    BY <1>2
  <2> QED BY <1>6, <2>1, StartedAfter
<1>8. Keeps(tm', tm, R \ {e})
  <2>1. Keeps(tm', out, R \ {e})
    BY <1>4, <1>5 DEF Dequeued
  <2> QED BY <1>4, <2>1, KeepsTwice
<1> QED BY <1>1, <1>2, <1>4, <1>5, <1>7, <1>8 DEF Stopped, Dequeued

\* The flags are as they were.
LEMMA SameStarted ==
  ASSUME IInv, tm'.started = tm.started
  PROVE  StartedEvents' = Registered(tm)
BY DEF IInv, StartedEvents

\* What calls do that read the clock.
Read ==
    /\ State(tm') /\ Registered(tm') = Registered(tm) /\ StartedEvents' = Registered(tm)
    /\ tm'.in_signal_time = tm.in_signal_time
    /\ Keeps(tm', tm, Registered(tm))

\* Reading the count does so.
LEMMA ReadStep ==
  ASSUME IInv, tm' = update_current_evttim(tm)
  PROVE  Read /\ tm'.hrtcnt_advance = 0
<1>1. State(tm') /\ Updated(tm', tm) /\ Keeps(tm', tm, Registered(tm))
  BY InvSound, StateUpdated
<1> QED BY <1>1, SameStarted DEF Read, Updated

\* set_tim: the system time is set, and the events are as they were.
SystimSet ==
    /\ State(tm') /\ Registered(tm') = Registered(tm) /\ StartedEvents' = Registered(tm)
    /\ tm'.in_signal_time = tm.in_signal_time
    /\ Late(tm') = Late(tm) /\ \A x \in Registered(tm) : Left(tm', x) = Left(tm, x)
    /\ systim_now(tm') \in 0 .. SYSTIM_MOD - 1

\* set_tim does so.
LEMMA SetStep ==
  ASSUME IInv, set_tim
  PROVE  SystimSet /\ CHECK_UNL /\ UNCHANGED <<sig, callflag>>
<1> DEFINE now == update_current_evttim(tm)
<1>1. PICK systim \in Systims :
         /\ tm' = [now EXCEPT !.systim_offset = (systim - now.monotonic_evttim) % SYSTIM_MOD]
         /\ UNCHANGED <<sig, callflag>>
  BY DEF set_tim, Call
<1>2. CHECK_UNL
  BY DEF set_tim, TSKCTX, CHECK_UNL
<1> DEFINE o == (systim - now.monotonic_evttim) % SYSTIM_MOD
<1>3. /\ State(tm) /\ Sound(tm) /\ State(now) /\ Updated(now, tm) /\ Keeps(now, tm, Registered(tm))
      /\ Registered(tm) \subseteq Event
  BY InvSound, StateUpdated
<1> HIDE DEF now
<1>4. o \in 0 .. SYSTIM_MOD - 1
  <2>1. systim \in 0 .. SYSTIM_MOD - 1 /\ SYSTIM_MOD \in Nat \ {0}
    BY ArgumentAssumption, Figures
  <2>2. now.monotonic_evttim \in Int
    BY <1>3, SoundIs DEF State
  <2>3. systim - now.monotonic_evttim \in Int
    BY <2>1, <2>2
  <2> QED BY <2>1, <2>3, ModRange
<1> HIDE DEF o
<1>5. tm' = [now EXCEPT !.systim_offset = o]
  BY <1>1 DEF o
<1>6. /\ Sound(now) /\ DOMAIN now = Fields /\ Registered(now) = Registered(tm)
      /\ now.started = tm.started /\ now.in_signal_time = tm.in_signal_time
      /\ now.hrtcnt_advance = 0
  BY <1>3 DEF Updated
<1>7. /\ DOMAIN tm' = Fields /\ tm'.systim_offset = o
      /\ tm'.tmevt_heap = now.tmevt_heap /\ tm'.p_tmevtn = now.p_tmevtn
      /\ tm'.evttim = now.evttim /\ tm'.boundary_evttim = now.boundary_evttim
      /\ tm'.current_evttim = now.current_evttim
      /\ tm'.monotonic_evttim = now.monotonic_evttim
      /\ tm'.hrtcnt_advance = now.hrtcnt_advance
      /\ tm'.hrt_event = now.hrt_event /\ tm'.in_signal_time = now.in_signal_time
      /\ tm'.started = now.started
  BY <1>5, <1>6 DEF Fields
<1>8. Registered(tm') = Registered(tm) /\ Ahead(tm') = Ahead(now) /\ Behind(tm') = Behind(now)
  BY <1>6, <1>7 DEF Registered, Ahead, EVTTIM_ADVANCE, Behind
<1>9. IsStore(tm') /\ IsStore(now)
  BY <1>6, <1>7, SoundIs DEF IsStore
<1>10. HeapOrder(tm')
  <2>1. HeapOrder(now)
    BY <1>6 DEF Sound, IsHeap
  <2> QED BY <1>7, <1>8, <1>9, <2>1, OrderIs
<1>11. IsHeap(tm')
  BY <1>6, <1>7, <1>9, <1>10 DEF Sound, IsHeap
<1>12. Clock(tm')
  BY <1>4, <1>6, <1>7, <1>8 DEF Sound, Clock
<1>13. InReach(tm')
  BY <1>6, <1>7, <1>8 DEF Sound, InReach
<1>14. Sound(tm')
  BY <1>11, <1>12, <1>13 DEF Sound
<1>15. State(tm')
  <2>1. Resting(now) => Resting(tm')
    BY <1>6, <1>7, <1>8 DEF Resting
  <2>2. Busy(now) => Busy(tm')
    BY <1>7 DEF Busy
  <2> QED BY <1>3, <1>7, <1>14, <2>1, <2>2 DEF State
<1>16. Late(tm') = Late(tm)
  <2>1. Late(tm') = Late(now)
    BY <1>7, <1>8 DEF Late
  <2> QED BY <1>3, <2>1 DEF Keeps
<1>17. ASSUME NEW x \in Registered(tm) PROVE Left(tm', x) = Left(tm, x)
  <2>1. Left(tm', x) = Left(now, x)
    BY <1>7 DEF Left
  <2> QED BY <1>3, <2>1 DEF Keeps
<1>18. systim_now(tm') \in 0 .. SYSTIM_MOD - 1
  BY <1>14, SystimIs
<1>19. StartedEvents' = Registered(tm)
  BY <1>6, <1>7, SameStarted
<1> QED BY <1>1, <1>2, <1>6, <1>7, <1>8, <1>15, <1>16, <1>17, <1>18, <1>19 DEF SystimSet

\* adj_tim: refused, or time is put forward or back.
LEMMA AdjustStep ==
  ASSUME IInv, adj_tim
  PROVE  /\ CHECK_UNL /\ UNCHANGED <<sig, callflag>> /\ StartedEvents' = Registered(tm)
         /\ Read \/ \E d \in -TMAX_ADJTIM .. TMAX_ADJTIM : Adjusted(tm', tm, d)
<1> DEFINE now == update_current_evttim(tm)
<1>1. PICK d \in Adjtims :
         IF check_adjtim(now, d)
         THEN Call(now)
         ELSE Call(IF now.in_signal_time THEN advance_evttim(now, d)
                                         ELSE set_hrt_event(advance_evttim(now, d)))
  BY DEF adj_tim
<1>2. CHECK_UNL /\ UNCHANGED <<sig, callflag>>
  BY <1>1 DEF adj_tim, Call
<1>3. d \in -TMAX_ADJTIM .. TMAX_ADJTIM
  BY ArgumentAssumption
<1>4. CASE check_adjtim(now, d)
  <2>1. tm' = now
    BY <1>1, <1>4 DEF Call
  <2>2. Read
    BY <2>1, ReadStep
  <2> QED BY <1>2, <2>2 DEF Read
<1>5. CASE ~check_adjtim(now, d)
  <2> DEFINE moved == advance_evttim(now, d)
  <2>1. tm' = IF now.in_signal_time THEN moved ELSE set_hrt_event(moved)
    BY <1>1, <1>5 DEF Call
  <2> HIDE DEF moved
  <2>2. PICK n, q : n = now /\ q = moved
    OBVIOUS
  <2>3. Adjusted(IF n.in_signal_time THEN q ELSE set_hrt_event(q), tm, d)
    <3>1. n = update_current_evttim(tm) /\ ~check_adjtim(n, d) /\ q = advance_evttim(n, d)
      BY <1>5, <2>2 DEF moved
    <3> QED BY <1>3, <3>1, InvSound, Adjusts
  <2>4. Adjusted(tm', tm, d)
    BY <2>1, <2>2, <2>3
  <2>5. StartedEvents' = Registered(tm)
    BY <2>4, SameStarted DEF Adjusted
  <2> QED BY <1>2, <1>3, <2>4, <2>5
<1> QED BY <1>4, <1>5

\* The timer counts.
LEMMA CountStep ==
  ASSUME IInv, count
  PROVE  /\ Counted(tm', tm) /\ StartedEvents' = Registered(tm)
         /\ CHECK_UNL /\ UNCHANGED <<sig, callflag>>
<1> DEFINE idle == sig = "idle"
<1>1. /\ ~SYSTICK /\ sig # "loop" /\ \A e \in Registered(tm) : Left(tm, e) > -BOUNDARY_MARGIN
      /\ IF idle THEN tm.hrt_event > -LATENCY ELSE tm.hrtcnt_advance < LATENCY
      /\ tm' = [tm EXCEPT !.hrtcnt_advance = @ + 1,
                          !.hrt_event = IF idle THEN @ - 1 ELSE @]
      /\ UNCHANGED <<sig, callflag>>
  BY DEF count
<1>2. idle \in BOOLEAN /\ idle = ~tm.in_signal_time
  BY DEF IInv
<1>a. tm' = Ticked(tm, idle)
  BY <1>1 DEF Ticked
<1> HIDE DEF idle
<1>b. IF idle THEN tm.hrt_event > -LATENCY ELSE tm.hrtcnt_advance < LATENCY
  BY <1>1 DEF idle
<1>c. State(tm)
  BY InvSound
<1>d. Counted(Ticked(tm, idle), tm)
  BY <1>1, <1>2, <1>b, <1>c, Counts
<1>3. Counted(tm', tm)
  BY <1>a, <1>d
<1>4. StartedEvents' = Registered(tm)
  BY <1>3, SameStarted DEF Counted
<1> QED BY <1>1, <1>3, <1>4 DEF CHECK_UNL

\* The interrupt is accepted.
LEMMA HandlerStep ==
  ASSUME IInv, target_hrt_handler
  PROVE  /\ Handled(tm', tm) /\ StartedEvents' = Registered(tm)
         /\ sig' = "loop" /\ callflag' = FALSE
<1> DEFINE counted == IF SYSTICK THEN [tm EXCEPT !.hrtcnt_advance = @ + TSTEP_HRTCNT]
                                 ELSE [tm EXCEPT !.hrt_event = 0]
<1>1. /\ sig = "idle" /\ sig' = "loop" /\ callflag' = FALSE
      /\ tm' = update_current_evttim([counted EXCEPT !.in_signal_time = TRUE])
  BY DEF target_hrt_handler
<1>2. ~tm.in_signal_time /\ State(tm)
  BY <1>1 DEF IInv
<1>3. PICK c : c = counted
  OBVIOUS
<1>4. Handled(update_current_evttim([c EXCEPT !.in_signal_time = TRUE]), tm)
  <2>1. c = IF SYSTICK THEN [tm EXCEPT !.hrtcnt_advance = @ + TSTEP_HRTCNT]
                       ELSE [tm EXCEPT !.hrt_event = 0]
    BY <1>3
  <2> QED BY <1>2, <2>1, Handles
<1> HIDE DEF counted
<1>5. Handled(tm', tm)
  BY <1>1, <1>3, <1>4
<1>6. StartedEvents' = Registered(tm)
  BY <1>5, SameStarted DEF Handled
<1> QED BY <1>1, <1>5, <1>6

\* The earliest event is called.
LEMMA EventCallStep ==
  ASSUME IInv, signal_time_call
  PROVE  \E e \in Event :
            /\ Called(tm', tm, e)
            /\ StartedEvents' = Registered(tm')
            /\ tm.in_signal_time /\ sig' = "call" /\ callflag' = TRUE
<1> DEFINE e == Head(tm.tmevt_heap)
           out == tmevtb_delete_top(tm)
<1>1. /\ sig = "loop" /\ TopIsDue /\ sig' = "call" /\ callflag' = TRUE
      /\ tm' = IF e \in Cyclic THEN call_cyclic(out, e) ELSE call_once(out, e)
  BY DEF signal_time_call
<1>2. tm.in_signal_time /\ State(tm) /\ tm.started \in [Event -> BOOLEAN]
      /\ Registered(tm) \subseteq Event
  BY <1>1, InvSound DEF IInv
<1>3. PICK x, o : x = e /\ o = out
  OBVIOUS
<1>4. Called(IF x \in Cyclic THEN call_cyclic(o, x) ELSE call_once(o, x), tm, x)
  <2>1. tm.tmevt_heap # <<>> /\ EVTTIM_LE(tm, top_evttim(tm), tm.current_evttim)
        /\ x = Head(tm.tmevt_heap) /\ o = tmevtb_delete_top(tm)
    BY <1>1, <1>3 DEF TopIsDue
  <2> QED BY <1>2, <2>1, Calls
<1> HIDE DEF e, out
<1>5. Called(tm', tm, x)
  BY <1>1, <1>3, <1>4
<1>6. x \in Event /\ x \in Registered(tm)
  BY <1>5 DEF Called
<1>7. StartedEvents' = Registered(tm')
  <2>1. CASE x \in Cyclic
    BY <1>5, <2>1, SameStarted DEF Called
  <2>2. CASE x \notin Cyclic
    <3>1. tm'.started = [tm.started EXCEPT ![x] = FALSE] /\ Registered(tm') = Registered(tm) \ {x}
      BY <1>5, <2>2 DEF Called
    <3>2. ASSUME NEW y \in Event PROVE tm'.started[y] <=> y \in Registered(tm) \ {x}
      <4>1. CASE y = x
        <5>1. tm'.started[y] = FALSE
          BY <1>2, <3>1, <4>1
        <5> QED BY <4>1, <5>1
      <4>2. CASE y # x
        <5>1. tm'.started[y] = tm.started[y]
          BY <1>2, <3>1, <4>2
        <5> QED BY <4>2, <5>1, StartedIs
      <4> QED BY <4>1, <4>2
    <3>3. Registered(tm) \ {x} \subseteq Event
      BY <1>2
    <3>4. StartedEvents' = Registered(tm) \ {x}
      BY <3>2, <3>3, StartedAfter
    <3> QED BY <3>1, <3>4
  <2> QED BY <2>1, <2>2
<1> QED BY <1>1, <1>2, <1>5, <1>6, <1>7

\* Nothing is due any more.
LEMMA EndStep ==
  ASSUME IInv, signal_time_end
  PROVE  /\ Ended(tm', tm) /\ StartedEvents' = Registered(tm)
         /\ sig' = "idle" /\ UNCHANGED callflag
<1>1. /\ sig = "loop" /\ ~TopIsDue /\ ~callflag
      /\ tm' = [set_hrt_event(tm) EXCEPT !.in_signal_time = FALSE]
      /\ sig' = "idle" /\ UNCHANGED callflag
  BY DEF signal_time_end
<1>2. State(tm) /\ tm.hrtcnt_advance = 0
  BY <1>1 DEF IInv
<1>3. Ended(tm', tm)
  <2>1. tm.tmevt_heap # <<>> => ~EVTTIM_LE(tm, top_evttim(tm), tm.current_evttim)
    BY <1>1 DEF TopIsDue
  <2> QED BY <1>1, <1>2, <2>1, Ends
<1>4. StartedEvents' = Registered(tm)
  BY <1>3, SameStarted DEF Ended
<1> QED BY <1>1, <1>3, <1>4

\* A call of a reference, which reads the clock.
LEMMA ReferStep ==
  ASSUME IInv, get_tim \/ ref_alm \/ ref_cyc \/ ref_tsk
  PROVE  Read /\ CHECK_UNL /\ UNCHANGED <<sig, callflag>>
<1>1. TSKCTX /\ tm' = update_current_evttim(tm) /\ UNCHANGED <<sig, callflag>>
  BY DEF get_tim, ref_alm, ref_cyc, ref_tsk, Refer, Call
<1>2. CHECK_UNL
  BY <1>1 DEF TSKCTX, CHECK_UNL
<1> QED BY <1>1, <1>2, ReadStep

\* A start of an event, whoever asks for it.
LEMMA BeginStep ==
  ASSUME IInv, sta_alm \/ sta_cyc \/ make_wait_tmout
  PROVE  /\ \E e \in Event, time \in 0 .. TMAX_RELTIM : Begun(e, time)
         /\ CHECK_UNL /\ UNCHANGED <<sig, callflag>>
<1>1. CHECK_UNL
  BY DEF sta_alm, sta_cyc, make_wait_tmout, TSKCTX, CHECK_UNL
<1>2. \E e \in Event, time \in 0 .. TMAX_RELTIM : Start(e, time)
  <2>1. Reltims \subseteq 0 .. TMAX_RELTIM /\ Event = Alarm \cup Cyclic \cup Wait
        /\ \A e \in Cyclic : cycphs[e] \in 0 .. TMAX_RELTIM
    BY ArgumentAssumption, EventAssumption
  <2>2. CASE sta_alm
    BY <2>1, <2>2 DEF sta_alm
  <2>3. CASE sta_cyc
    BY <2>1, <2>3 DEF sta_cyc
  <2>4. CASE make_wait_tmout
    BY <2>1, <2>4 DEF make_wait_tmout
  <2> QED BY <2>2, <2>3, <2>4
<1> QED BY <1>1, <1>2, StartStep

\* stp_alm, stp_cyc, and the end of a wait with a time limit.
LEMMA CeaseStep ==
  ASSUME IInv, stp_alm \/ stp_cyc \/ wait_dequeue_tmevtb
  PROVE  /\ \E e \in Event : Stopped(e)
         /\ CHECK_UNL /\ UNCHANGED <<sig, callflag>>
<1>1. CHECK_UNL
  BY DEF stp_alm, stp_cyc, wait_dequeue_tmevtb, TSKCTX, CHECK_UNL
<1>2. \E e \in Event : Stop(e)
  BY EventAssumption DEF stp_alm, stp_cyc, wait_dequeue_tmevtb
<1> QED BY <1>1, <1>2, StopStep

\* Every step keeps the invariant.
LEMMA NextInv ==
  ASSUME IInv, [Next]_vars
  PROVE  IInv'
<1>1. CASE sta_alm \/ sta_cyc \/ make_wait_tmout
  BY <1>1, BeginStep, CallStep DEF Begun
<1>2. CASE stp_alm \/ stp_cyc \/ wait_dequeue_tmevtb
  BY <1>2, CeaseStep, CallStep DEF Stopped
<1>3. CASE get_tim \/ ref_alm \/ ref_cyc \/ ref_tsk
  BY <1>3, ReferStep, CallStep DEF Read
<1>4. CASE set_tim
  BY <1>4, SetStep, CallStep DEF SystimSet
<1>5. CASE adj_tim
  BY <1>5, AdjustStep, CallStep DEF Read, Adjusted
<1>6. CASE count
  BY <1>6, CountStep, CallStep DEF Counted
<1>7. CASE target_hrt_handler
  BY <1>7, HandlerStep DEF Handled, IInv
<1>8. CASE signal_time_call
  BY <1>8, EventCallStep DEF Called, IInv
<1>9. CASE callback_return
  <2>1. sig = "call" /\ sig' = "loop" /\ UNCHANGED <<tm, callflag>>
    BY <1>9 DEF callback_return
  <2> QED BY <2>1 DEF IInv, StartedEvents
<1>10. CASE signal_time_again
  <2>1. sig = "loop" /\ UNCHANGED sig /\ callflag' = FALSE /\ tm' = update_current_evttim(tm)
    BY <1>10 DEF signal_time_again
  <2>2. Read /\ tm'.hrtcnt_advance = 0
    BY <2>1, ReadStep
  <2> QED BY <2>1, <2>2 DEF Read, IInv
<1>11. CASE signal_time_end
  BY <1>11, EndStep DEF Ended, IInv
<1>12. CASE UNCHANGED vars
  BY <1>12 DEF vars, IInv, StartedEvents
<1> QED BY <1>1, <1>2, <1>3, <1>4, <1>5, <1>6, <1>7, <1>8, <1>9, <1>10, <1>11, <1>12 DEF Next

\* The store after the boot.
LEMMA InitIs ==
  ASSUME Init
  PROVE  /\ IInv /\ StartedEvents = TA_STA
         /\ \A x \in TA_STA : Left(tm, x) = cycphs[x]
         /\ Late(tm) = 0 /\ systim_now(tm) = 0
<1>1. PICK order \in SetToSeqs(TA_STA) : tm = set_hrt_event(initialize_cyclic(order))
  BY DEF Init
<1> DEFINE t == initialize_cyclic(order)
<1>2. sig = "idle" /\ callflag = FALSE
  BY DEF Init
<1>3. Booted(t, TA_STA)
  BY BootIs
<1> HIDE DEF t
<1>4. Sound(t) /\ Registered(t) = TA_STA /\ t.hrtcnt_advance = 0 /\ t.in_signal_time = FALSE
  BY <1>3 DEF Booted
<1>5. SYSTICK => \A x \in Registered(t) : Ahead(t)[x] > BOUNDARY_MARGIN - 2 * TMAX_ADJTIM
  BY <1>3, BootedRests
<1>6. tm = set_hrt_event(t)
  BY <1>1 DEF t
<1>7. Timed(tm, t) /\ Resting(tm)
  BY <1>4, <1>5, <1>6, Sets
<1>8. /\ Sound(tm) /\ Registered(tm) = TA_STA /\ tm.started = t.started
      /\ tm.in_signal_time = FALSE /\ tm.hrtcnt_advance = 0
      /\ Ahead(tm) = Ahead(t) /\ tm.current_evttim = 0 /\ tm.monotonic_evttim = 0
      /\ tm.systim_offset = 0
  BY <1>3, <1>4, <1>7 DEF Timed, Alike, SameStore, Booted
<1>9. TA_STA \subseteq Event
  BY Phases
<1>10. StartedEvents = TA_STA
  BY <1>3, <1>8, <1>9 DEF Booted, StartedEvents
<1>11. State(tm)
  BY <1>7, <1>8 DEF State
<1>12. IInv
  BY <1>2, <1>8, <1>10, <1>11 DEF IInv
<1>13. ASSUME NEW x \in TA_STA PROVE Left(tm, x) = cycphs[x]
  <2>1. Ahead(tm)[x] = BOUNDARY_MARGIN + cycphs[x] /\ cycphs[x] \in Nat /\ x \in Event
    BY <1>3, <1>8, Phases DEF Booted
  <2>2. Left(tm, x) = (Ahead(tm)[x] - BOUNDARY_MARGIN) - 0
    BY <1>8, <2>1, LeftIs
  <2> QED BY <2>1, <2>2, Figures
<1>14. Behind(tm) = 0
  <2>1. 0 - 0 = 0 /\ 0 \in 0 .. EVTTIM_MOD - 1 /\ EVTTIM_MOD \in Nat \ {0}
    BY Figures
  <2> QED BY <1>8, <2>1, ModSmall DEF Behind
<1>15. Late(tm) = 0
  BY <1>8, <1>14 DEF Late
<1>16. systim_now(tm) = 0
  <2>1. Gone(tm) = 0
    BY <1>8, <1>14 DEF Gone
  <2>2. systim_now(tm) = ((0 + 0) + 0) % SYSTIM_MOD
    BY <1>8, <2>1, SystimIs
  <2>3. (0 + 0) + 0 = 0 /\ 0 \in 0 .. SYSTIM_MOD - 1 /\ SYSTIM_MOD \in Nat \ {0}
    BY Figures
  <2> QED BY <2>2, <2>3, ModSmall
<1> QED BY <1>10, <1>12, <1>13, <1>15, <1>16

\* The invariant holds in every state.
LEMMA Invariance == Spec => []IInv
<1>1. Init => IInv
  BY InitIs
<1>2. IInv /\ [Next]_vars => IInv'
  BY NextInv
<1> QED BY <1>1, <1>2, PTL DEF Spec
-----------------------------------------------------------------------------
(* What the invariant says of the heap, the timer and the times. *)

\* The heap.
LEMMA HeapHolds ==
  ASSUME IInv
  PROVE  HeapOK
<1> DEFINE h == tm.tmevt_heap
<1>1. /\ Sound(tm) /\ IsHeap(tm) /\ IsStore(tm) /\ Clock(tm) /\ Registered(tm) = StartedEvents
      /\ sig \in {"idle", "loop", "call"} /\ callflag \in BOOLEAN
      /\ tm.in_signal_time = (sig # "idle")
  BY InvSound, SoundIs DEF IInv
<1>2. HeapOrder(tm) /\ Located(h, tm.p_tmevtn)
  BY <1>1 DEF IsHeap
<1>3. BackPointers(tm) /\ tm.p_tmevtn \in [Registered(tm) -> 1 .. Len(h)]
  BY <1>2 DEF Located, BackPointers, Registered
<1>4. /\ h \in Seq(Event) /\ tm.evttim \in [Event -> Evttim]
      /\ tm.boundary_evttim \in Evttim
  BY <1>1 DEF IsStore
<1>5. /\ tm.current_evttim \in Evttim /\ tm.monotonic_evttim \in Evttim
      /\ tm.systim_offset \in 0 .. SYSTIM_MOD - 1 /\ tm.started \in [Event -> BOOLEAN]
  BY <1>1 DEF Clock
<1>6. TypeOK
  BY <1>1, <1>3, <1>4, <1>5 DEF TypeOK
<1> QED BY <1>1, <1>2, <1>3, <1>6 DEF HeapOK

\* The timer.
LEMMA TimerHolds ==
  ASSUME IInv
  PROVE  TimerOK
<1>1. /\ State(tm) /\ Sound(tm) /\ IsHeap(tm) /\ Registered(tm) \subseteq Event
      /\ tm.hrtcnt_advance \in Nat /\ tm.hrtcnt_advance < EVTTIM_MOD /\ tm.hrt_event \in Int
      /\ tm.in_signal_time = (sig # "idle")
  BY InvSound, SoundIs DEF IInv
<1>2. CountRead
  BY <1>1 DEF CountRead
<1>3. ASSUME ~SYSTICK, sig = "idle"
      PROVE  /\ tm.hrt_event <= HRTCNT_BOUND
             /\ \A e \in Registered(tm) :
                   tm.hrt_event <= IF Left(tm, e) > 0 THEN Left(tm, e) ELSE 0
  <2>1. /\ tm.hrt_event + tm.hrtcnt_advance <= HRTCNT_BOUND
        /\ \A e \in Registered(tm) :
              tm.hrt_event <= 0
                 \/ tm.hrt_event <= (Ahead(tm)[e] - BOUNDARY_MARGIN) - tm.hrtcnt_advance
    BY <1>1, <1>3 DEF State, Resting
  <2>2. tm.hrt_event <= HRTCNT_BOUND
    BY <1>1, <2>1, Figures
  <2>3. ASSUME NEW e \in Registered(tm)
        PROVE  tm.hrt_event <= IF Left(tm, e) > 0 THEN Left(tm, e) ELSE 0
    <3>1. Left(tm, e) = (Ahead(tm)[e] - BOUNDARY_MARGIN) - tm.hrtcnt_advance /\ Left(tm, e) \in Int
      BY <1>1, LeftIs
    <3>2. tm.hrt_event <= 0 \/ tm.hrt_event <= Left(tm, e)
      BY <2>1, <3>1
    <3> QED BY <1>1, <3>1, <3>2
  <2> QED BY <2>2, <2>3
<1>4. TimerSet
  <2> SUFFICES ASSUME ~SYSTICK, sig = "idle"
               PROVE  /\ tm.hrt_event <= HRTCNT_BOUND
                      /\ tm.tmevt_heap # <<>> =>
                           tm.hrt_event <= IF Left(tm, tm.tmevt_heap[1]) > 0
                                           THEN Left(tm, tm.tmevt_heap[1]) ELSE 0
    BY DEF TimerSet
  <2>1. tm.tmevt_heap # <<>> => tm.tmevt_heap[1] \in Registered(tm)
    <3>1. tm.tmevt_heap \in Seq(Event)
      BY <1>1 DEF IsHeap, IsStore
    <3>2. tm.tmevt_heap # <<>> => 1 \in 1 .. Len(tm.tmevt_heap)
      BY <3>1
    <3> QED BY <3>1, <3>2 DEF Registered, ToSet
  <2> QED BY <1>3, <2>1
<1> QED BY <1>2, <1>4 DEF TimerOK

\* The time left, and when events are late.
LEMMA OnTimeHolds ==
  ASSUME IInv
  PROVE  OnTimeOK
<1>1. /\ State(tm) /\ Sound(tm) /\ Registered(tm) \subseteq Event
      /\ Registered(tm) = StartedEvents
      /\ tm.in_signal_time = (sig # "idle")
  BY InvSound DEF IInv
<1>2. OnTick
  <2> SUFFICES ASSUME SYSTICK, sig = "idle", NEW e \in StartedEvents
               PROVE  Left(tm, e) > -2 * TMAX_ADJTIM
    BY DEF OnTick
  <2>1. tm.hrtcnt_advance = 0 /\ Ahead(tm)[e] > BOUNDARY_MARGIN - 2 * TMAX_ADJTIM
    BY <1>1 DEF State, Resting
  <2>2. Left(tm, e) = (Ahead(tm)[e] - BOUNDARY_MARGIN) - tm.hrtcnt_advance
    BY <1>1, LeftIs
  <2>3. Ahead(tm)[e] \in Int
    BY <1>1, SoundIs
  <2> QED BY <2>1, <2>2, <2>3, Figures
<1>3. LefttimOK
  <2> SUFFICES ASSUME NEW e \in StartedEvents
               PROVE  tmevt_lefttim(tm, e) = IF Left(tm, e) - TSTEP_HRTCNT > 0
                                             THEN Left(tm, e) - TSTEP_HRTCNT ELSE 0
    BY DEF LefttimOK
  <2> QED BY <1>1, LefttimIs
<1> QED BY <1>2, <1>3 DEF OnTimeOK

\* The heap of every state of the kernel: in order, every event at the node it
\* says, and in it exactly the events of started alarms, started cyclics and
\* waits with a time limit, though the clock wraps around and callbacks,
\* handlers and tasks start and stop events in any order.
\* time_event.c:165-366, alarm.c:137, cyclic.c:147, wait.h:155.
THEOREM HeapCorrect == Spec => []HeapOK
<1>1. IInv => HeapOK
  BY HeapHolds
<1> QED BY <1>1, Invariance, PTL

\* The free-running timer never interrupts later than the first event is due
\* while signal_time does not run, nor later than its count can be told apart,
\* and the count is read before it has gone round.
\* time_event.c:380, 492, 518, 638.
THEOREM TimerCorrect == Spec => []TimerOK
<1>1. IInv => TimerOK
  BY TimerHolds
<1> QED BY <1>1, Invariance, PTL

\* With the SysTick timer no event is late by more than two adjustments when
\* signal_time has ended, and what the reference calls report is the time
\* that is left for at least.
\* time_event.c:526-575.
THEOREM OnTimeCorrect == Spec => []OnTimeOK
<1>1. IInv => OnTimeOK
  BY OnTimeHolds
<1> QED BY <1>1, Invariance, PTL

-----------------------------------------------------------------------------
(* The steps, as EventTimes sees them. *)

\* left, lag and systim of EventTimes.
TimesLeft == [e \in StartedEvents |-> Left(tm, e)]
TimesLag == IF Lag > 0 THEN Lag ELSE 0
TimesSystim == systim_now(tm)

\* The lag is what Late says.
LEMMA LagIs == TimesLag = Late(tm) /\ TimesLag' = Late(tm')
BY DEF TimesLag, Lag, Late, Behind

\* A step that keeps all the times is none of EventTimes.
LEMMA KeepsStutters ==
  ASSUME IInv, StartedEvents' = Registered(tm), Keeps(tm', tm, Registered(tm))
  PROVE  UNCHANGED Times!vars
<1>1. StartedEvents' = StartedEvents
  BY DEF IInv
<1>2. \A x \in StartedEvents : Left(tm', x) = Left(tm, x)
  BY DEF IInv, Keeps
<1>3. TimesLeft' = TimesLeft
  BY <1>1, <1>2 DEF TimesLeft
<1>4. TimesLag' = TimesLag /\ TimesSystim' = TimesSystim
  BY LagIs DEF Keeps, TimesSystim
<1> QED BY <1>3, <1>4 DEF Times!vars, TimesLeft, TimesLag, TimesSystim

\* Time that passes is time that passes there.
LEMMA PassedMoves ==
  ASSUME IInv, StartedEvents' = Registered(tm), NEW d \in Int, Passed(tm', tm, d)
  PROVE  Times!Move(d)
<1>1. StartedEvents' = StartedEvents
  BY DEF IInv
<1>2. \A x \in StartedEvents : Left(tm', x) = Left(tm, x) - d
  BY DEF IInv, Passed
<1>3. TimesLeft' = [x \in StartedEvents |-> TimesLeft[x] - d]
  BY <1>1, <1>2 DEF TimesLeft
<1>4. StartedEvents = DOMAIN TimesLeft
  BY DEF TimesLeft
<1>5. TimesLag' = IF TimesLag > d THEN TimesLag - d ELSE 0
  BY LagIs DEF Passed
<1>6. TimesSystim' = (TimesSystim + (IF d > TimesLag THEN d - TimesLag ELSE 0)) % SYSTIM_MOD
  BY LagIs DEF Passed, TimesSystim
<1> QED BY <1>3, <1>4, <1>5, <1>6
        DEF Times!Move, Times!Started, TimesLeft, TimesLag, TimesSystim

\* An event is started there.
LEMMA BeginTimes ==
  ASSUME IInv, NEW e \in Event, NEW time \in 0 .. TMAX_RELTIM, Begun(e, time)
  PROVE  Times!Start(e, time)
<1>1. /\ StartedEvents' = StartedEvents \cup {e} /\ Registered(tm) = StartedEvents
      /\ Keeps(tm', tm, StartedEvents \ {e}) /\ Left(tm', e) = TSTEP_HRTCNT + time
  BY DEF IInv, Begun
<1>2. \A x \in StartedEvents \ {e} : Left(tm', x) = Left(tm, x)
  BY <1>1 DEF Keeps
<1>3. TimesLeft' = [f \in StartedEvents \cup {e} |->
                       IF f = e THEN TSTEP_HRTCNT + time ELSE TimesLeft[f]]
  BY <1>1, <1>2 DEF TimesLeft
<1>4. StartedEvents = DOMAIN TimesLeft
  BY DEF TimesLeft
<1>5. TimesLag' = TimesLag /\ TimesSystim' = TimesSystim
  BY <1>1, LagIs DEF Keeps, TimesSystim
<1> QED BY <1>3, <1>4, <1>5
        DEF Times!Start, Times!Started, TimesLeft, TimesLag, TimesSystim

\* An event is stopped there.
LEMMA StopTimes ==
  ASSUME IInv, NEW e \in Event, Stopped(e)
  PROVE  Times!Stop(e)
<1>1. /\ StartedEvents' = StartedEvents \ {e} /\ e \in StartedEvents
      /\ Keeps(tm', tm, StartedEvents \ {e})
  BY DEF IInv, Stopped
<1>2. \A x \in StartedEvents \ {e} : Left(tm', x) = Left(tm, x)
  BY <1>1 DEF Keeps
<1>3. TimesLeft' = [f \in StartedEvents \ {e} |-> TimesLeft[f]]
  BY <1>1, <1>2 DEF TimesLeft
<1>4. StartedEvents = DOMAIN TimesLeft
  BY DEF TimesLeft
<1>5. TimesLag' = TimesLag /\ TimesSystim' = TimesSystim
  BY <1>1, LagIs DEF Keeps, TimesSystim
<1> QED BY <1>1, <1>3, <1>4, <1>5
        DEF Times!Stop, Times!Started, TimesLeft, TimesLag, TimesSystim

\* The system time is set there.
LEMMA SetTimes ==
  ASSUME IInv, SystimSet
  PROVE  Times!Set
<1>1. StartedEvents' = StartedEvents /\ \A x \in StartedEvents : Left(tm', x) = Left(tm, x)
  BY DEF IInv, SystimSet
<1>2. TimesLeft' = TimesLeft
  BY <1>1 DEF TimesLeft
<1>3. TimesLag' = TimesLag /\ TimesSystim' \in 0 .. SYSTIM_MOD - 1
  BY LagIs DEF SystimSet, TimesSystim
<1> QED BY <1>2, <1>3 DEF Times!Set, TimesLeft, TimesLag, TimesSystim

\* An adjustment is one there.
LEMMA AdjustTimes ==
  ASSUME IInv, StartedEvents' = Registered(tm),
         NEW d \in -TMAX_ADJTIM .. TMAX_ADJTIM, Adjusted(tm', tm, d)
  PROVE  Times!Adjust
<1>1. d \in Int
  BY Figures
<1>2. Times!Move(d)
  BY <1>1, PassedMoves DEF Adjusted
<1>3. d > 0 => \A x \in StartedEvents : TimesLeft[x] > -TMAX_ADJTIM
  BY DEF Adjusted, IInv, TimesLeft
<1>4. d < 0 => TimesLag < TMAX_ADJTIM
  BY LagIs DEF Adjusted
<1>5. StartedEvents = DOMAIN TimesLeft
  BY DEF TimesLeft
<1> QED BY <1>2, <1>3, <1>4, <1>5
        DEF Times!Adjust, Times!Started, TimesLeft, TimesLag, TimesSystim

\* The earliest event is called there.
LEMMA CallTimes ==
  ASSUME IInv, NEW e \in Event, Called(tm', tm, e), StartedEvents' = Registered(tm')
  PROVE  Times!Call(e)
<1>1. /\ Registered(tm) = StartedEvents /\ e \in StartedEvents
      /\ Keeps(tm', tm, StartedEvents \ {e})
      /\ Left(tm, e) <= 0 /\ \A x \in StartedEvents : Left(tm, e) <= Left(tm, x)
  BY DEF IInv, Called
<1>2. \A x \in StartedEvents \ {e} : Left(tm', x) = Left(tm, x)
  BY <1>1 DEF Keeps
<1>3. StartedEvents = DOMAIN TimesLeft /\ TimesLeft[e] <= 0
      /\ \A x \in StartedEvents : TimesLeft[e] <= TimesLeft[x]
  BY <1>1 DEF TimesLeft
<1>5. e \in Cyclic => TimesLeft' = [TimesLeft EXCEPT ![e] = @ + cyctim[e]]
  <2> SUFFICES ASSUME e \in Cyclic PROVE TimesLeft' = [TimesLeft EXCEPT ![e] = @ + cyctim[e]]
    OBVIOUS
  <2>1. StartedEvents' = StartedEvents /\ Left(tm', e) = Left(tm, e) + cyctim[e]
    BY <1>1 DEF Called
  <2> QED BY <1>1, <1>2, <2>1 DEF TimesLeft
<1>6. e \notin Cyclic => TimesLeft' = [f \in StartedEvents \ {e} |-> TimesLeft[f]]
  <2> SUFFICES ASSUME e \notin Cyclic
               PROVE  TimesLeft' = [f \in StartedEvents \ {e} |-> TimesLeft[f]]
    OBVIOUS
  <2>1. StartedEvents' = StartedEvents \ {e}
    BY <1>1 DEF Called
  <2> QED BY <1>1, <1>2, <2>1 DEF TimesLeft
<1>7. TimesLag' = TimesLag /\ TimesSystim' = TimesSystim
  BY <1>1, LagIs DEF Keeps, TimesSystim
<1> QED BY <1>1, <1>3, <1>5, <1>6, <1>7
        DEF Times!Call, Times!Started, TimesLeft, TimesLag, TimesSystim

\* Every step is one there, or changes nothing there.
LEMMA NextTimes ==
  ASSUME IInv, [Next]_vars
  PROVE  [Times!Next]_(Times!vars)
<1>1. CASE sta_alm \/ sta_cyc \/ make_wait_tmout
  BY <1>1, BeginStep, BeginTimes DEF Times!Next
<1>2. CASE stp_alm \/ stp_cyc \/ wait_dequeue_tmevtb
  BY <1>2, CeaseStep, StopTimes DEF Times!Next
<1>3. ASSUME Read PROVE UNCHANGED Times!vars
  BY <1>3, KeepsStutters DEF Read
<1>4. CASE get_tim \/ ref_alm \/ ref_cyc \/ ref_tsk
  BY <1>3, <1>4, ReferStep
<1>5. CASE set_tim
  BY <1>5, SetStep, SetTimes DEF Times!Next
<1>6. CASE adj_tim
  BY <1>3, <1>6, AdjustStep, AdjustTimes DEF Times!Next
<1>7. CASE count
  <2>1. Times!Move(1)
    BY <1>7, CountStep, PassedMoves DEF Counted
  <2> QED BY <2>1 DEF Times!Next, Times!Pass
<1>8. CASE target_hrt_handler
  <2>1. Handled(tm', tm) /\ StartedEvents' = Registered(tm)
    BY <1>8, HandlerStep
  <2>2. CASE SYSTICK
    <3>1. Times!Move(TSTEP_HRTCNT)
      BY <2>1, <2>2, PassedMoves, Figures DEF Handled
    <3> QED BY <3>1 DEF Times!Next, Times!Pass
  <2>3. CASE ~SYSTICK
    BY <2>1, <2>3, KeepsStutters DEF Handled
  <2> QED BY <2>2, <2>3
<1>9. CASE signal_time_call
  BY <1>9, EventCallStep, CallTimes DEF Times!Next
<1>10. ASSUME UNCHANGED tm PROVE UNCHANGED Times!vars
  BY <1>10 DEF Times!vars, StartedEvents, Lag
<1>11. CASE callback_return \/ UNCHANGED vars
  BY <1>10, <1>11 DEF callback_return, vars
<1>12. CASE signal_time_again
  BY <1>3, <1>12, ReadStep DEF signal_time_again
<1>13. CASE signal_time_end
  BY <1>13, EndStep, KeepsStutters DEF Ended
<1> QED BY <1>1, <1>2, <1>4, <1>5, <1>6, <1>7, <1>8, <1>9, <1>11, <1>12, <1>13 DEF Next

\* The first state is the first there.
LEMMA InitTimes ==
  ASSUME Init
  PROVE  Times!Init
<1>1. TimesLeft = [e \in TA_STA |-> cycphs[e]]
  BY InitIs DEF TimesLeft
<1>2. TimesLag = 0 /\ TimesSystim = 0
  BY InitIs DEF TimesLag, TimesSystim, Lag, Late, Behind
<1> QED BY <1>1, <1>2 DEF Times!Init, TimesLeft, TimesLag, TimesSystim

\* The heap, the clock that wraps around and the timer implement EventTimes:
\* no event is called before its time is up, each in its turn, cyclic ones
\* without drift, and the system time goes on with the events' clock, stands
\* still while it is set back, and is otherwise changed by set_tim alone.
\* time_event.c:374-400, 475-495, 599-638.
THEOREM TimesImplemented == Spec => ImplementsEventTimes
<1>1. Init => Times!Init
  BY InitTimes
<1>2. IInv /\ [Next]_vars => [Times!Next]_(Times!vars)
  BY NextTimes
<1> QED BY <1>1, <1>2, Invariance, PTL DEF Spec, ImplementsEventTimes, Times!Spec
=============================================================================
