-------------------------- MODULE TaskSystemProofs --------------------------
(***************************************************************************)
(* TaskSystem keeps its invariants for every number of tasks, every        *)
(* priority assignment and every choice of calls.                          *)
(*                                                                         *)
(* The inductive invariant IInv is the conjunction of the invariants that  *)
(* TLC checks with two facts: no task holds or awaits a mutex, which the   *)
(* calls of this module never make a task do, and the tasks not yet        *)
(* initialized by the boot are dormant.  A task may wait for any other     *)
(* object, so that the proofs about the objects can build on these.  No    *)
(* invariant is inductive alone: p_schedtsk is a task at all only because  *)
(* the ready queue is right, a dispatch gives the processor to a runnable  *)
(* task only because p_schedtsk is right, and a time event block is        *)
(* dequeued only because the states are right.                             *)
(*                                                                         *)
(* The proof follows the code's layers.  Consistent and TasksOK are the    *)
(* part of IInv about the kernel's data alone; a service call maps data    *)
(* with both to data with both (Wake, Sleep, Update, Terminate, and the    *)
(* lemmas about Sched), and the ways a call ends (Return,                  *)
(* ReturnDispatching, exit_and_dispatch, DispatchEnabled) make of that the *)
(* invariant after the step.                                               *)
(*                                                                         *)
(* What rests on IInv follows it: what a step does to the wait queues, to  *)
(* the processor of a task that has disabled dispatching, and to the       *)
(* termination of a task that has forbidden it.                            *)
(*                                                                         *)
(* The last part is about KernelObject: what the calls on an object do to  *)
(* the tasks, for every object.  A task begins to wait in a queue, the     *)
(* first of a queue is served, and all of a queue are released, one by     *)
(* one, when the object is initialized again.  Sound is what each of these *)
(* keeps of the kernel's data; IInv and the wait queues stay right through *)
(* the step that ends with such data.                                      *)
(***************************************************************************)
EXTENDS KernelObject, SequenceTheorems, FiniteSetTheorems, TLAPS

-----------------------------------------------------------------------------
(* Queues. *)

\* A set of natural numbers that is not empty has a smallest member.
LEMMA SmallestNat ==
  ASSUME NEW T \in SUBSET Nat, T # {}
  PROVE  Min(T) \in T /\ \A y \in T : Min(T) <= y
<1> DEFINE R == {ss \in Nat \X Nat : ss[1] < ss[2]}
<1>1. IsWellFoundedOn(R, Nat)
  BY NatLessThanWellFounded DEF OpToRel
<1>2. PICK x \in T : \A y \in T : <<y, x>> \notin R
  <2> HIDE DEF R
  <2> QED BY <1>1, WFMin
<1>3. \A y \in T : x <= y
  <2> SUFFICES ASSUME NEW y \in T, y < x PROVE FALSE
    OBVIOUS
  <2>1. <<y, x>> \in R
    OBVIOUS
  <2> QED BY <1>2, <2>1
<1> QED BY <1>3 DEF Min

\* The greatest of the numbers up to n of which n is one.
LEMMA GreatestOf ==
  ASSUME NEW n \in Nat, NEW s \in SUBSET (1 .. n), n \in s
  PROVE  Max(s) = n
<1>1. \A y \in s : n >= y
  OBVIOUS
<1>2. \A x \in s : (\A y \in s : x >= y) => x = n
  OBVIOUS
<1>3. \E x \in s : \A y \in s : x >= y
  BY <1>1
<1> DEFINE m == CHOOSE x \in s : \A y \in s : x >= y
<1>4. m \in s /\ \A y \in s : m >= y
  <2> HIDE DEF m
  <2> QED BY <1>3 DEF m
<1> QED BY <1>2, <1>4 DEF Max

\* A search of a queue of length n finds the first of the places it looks for.
LEMMA FirstPlace ==
  ASSUME NEW n \in Nat, NEW I \in SUBSET (1 .. n), I # {}
  PROVE  Min(I) \in I /\ \A j \in I : Min(I) <= j
<1>1. I \in SUBSET Nat
  OBVIOUS
<1> QED BY <1>1, SmallestNat

\* What is left of a queue from which the first occurrence of x is unlinked.
LEMMA RemoveFirstAt ==
  ASSUME NEW S, NEW s \in Seq(S), NEW x, Contains(s, x)
  PROVE  LET r == RemoveFirst(s, x) IN
         /\ r \in Seq(S) /\ Len(r) = Len(s) - 1
         /\ \E i \in 1 .. Len(s) :
               /\ s[i] = x
               /\ \A j \in 1 .. Len(r) : r[j] = IF j < i THEN s[j] ELSE s[j + 1]
<1> DEFINE I == {j \in 1 .. Len(s) : s[j] = x}
           i == Min(I)
           u == SubSeq(s, 1, i - 1)
           v == SubSeq(s, i + 1, Len(s))
           r == u \o v
<1>1. I # {} /\ I \in SUBSET (1 .. Len(s)) /\ Len(s) \in Nat
  BY DEF Contains
<1>2. i \in 1 .. Len(s) /\ s[i] = x
  <2>1. Min(I) \in I
    <3> HIDE DEF I
    <3> QED BY <1>1, FirstPlace
  <2> QED BY <2>1
<1>3. RemoveFirst(s, x) = r
  BY <1>1 DEF RemoveFirst, RemoveAt, SelectInSeq
<1> HIDE DEF i, I
<1>4. u \in Seq(S) /\ Len(u) = i - 1 /\ \A j \in 1 .. i - 1 : u[j] = s[j]
  <2>1. \A j \in 1 .. i - 1 : s[j] \in S
    BY <1>2
  <2> QED BY <1>2, <2>1, SubSeqProperties
<1>5. /\ v \in Seq(S) /\ Len(v) = Len(s) - i
      /\ \A j \in 1 .. Len(s) - i : v[j] = s[i + j]
  <2>1. \A j \in i + 1 .. Len(s) : s[j] \in S
    BY <1>2
  <2>2. v \in Seq(S) /\ Len(v) = Len(s) - i
    BY <1>2, <2>1, SubSeqProperties
  <2>3. \A j \in 1 .. Len(s) - (i + 1) + 1 : v[j] = s[(i + 1) + j - 1]
    BY <1>2, <2>1, SubSeqProperties
  <2>4. Len(s) - (i + 1) + 1 = Len(s) - i
        /\ \A j \in 1 .. Len(s) - i : (i + 1) + j - 1 = i + j
    BY <1>2
  <2> HIDE DEF v
  <2> QED BY <2>2, <2>3, <2>4
<1> HIDE DEF u, v
<1>6. /\ r \in Seq(S) /\ Len(r) = Len(s) - 1
      /\ \A j \in 1 .. Len(u) + Len(v) :
            r[j] = IF j <= Len(u) THEN u[j] ELSE v[j - Len(u)]
  <2>1. /\ r \in Seq(S) /\ Len(r) = Len(u) + Len(v)
        /\ \A j \in 1 .. Len(u) + Len(v) :
              r[j] = IF j <= Len(u) THEN u[j] ELSE v[j - Len(u)]
    BY <1>4, <1>5, ConcatProperties
  <2> QED BY <1>2, <2>1, <1>4, <1>5
<1>7. \A j \in 1 .. Len(r) : r[j] = IF j < i THEN s[j] ELSE s[j + 1]
  <2> SUFFICES ASSUME NEW j \in 1 .. Len(r)
               PROVE  r[j] = IF j < i THEN s[j] ELSE s[j + 1]
    OBVIOUS
  <2>1. r[j] = IF j <= i - 1 THEN u[j] ELSE v[j - (i - 1)]
    BY <1>2, <1>4, <1>5, <1>6
  <2> QED BY <2>1, <1>2, <1>4, <1>5, <1>6
<1> HIDE DEF r
<1> QED BY <1>2, <1>3, <1>6, <1>7

\* Unlinking the only occurrence of x from a queue leaves the others in their
\* order: the first one stays first if it is not x (RemoveFirst is the effect
\* of queue_delete on one queue, queue.h).
LEMMA RemoveFirstProperties ==
  ASSUME NEW S, NEW s \in Seq(S), NEW x \in S, IsInjective(s)
  PROVE  /\ RemoveFirst(s, x) \in Seq(S)
         /\ IsInjective(RemoveFirst(s, x))
         /\ \A y \in S : Contains(RemoveFirst(s, x), y)
                           <=> Contains(s, y) /\ y # x
         /\ s # <<>> /\ Head(s) # x =>
               RemoveFirst(s, x) # <<>> /\ Head(RemoveFirst(s, x)) = Head(s)
<1>1. CASE ~Contains(s, x)
  BY <1>1 DEF RemoveFirst, Contains
<1>2. CASE Contains(s, x)
  <2> DEFINE r == RemoveFirst(s, x)
  <2>1. /\ r \in Seq(S) /\ Len(r) = Len(s) - 1
        /\ \E i \in 1 .. Len(s) :
              /\ s[i] = x
              /\ \A j \in 1 .. Len(r) : r[j] = IF j < i THEN s[j] ELSE s[j + 1]
    BY <1>2, RemoveFirstAt
  <2> HIDE DEF r
  <2>2. PICK i \in 1 .. Len(s) :
           /\ s[i] = x
           /\ \A j \in 1 .. Len(r) : r[j] = IF j < i THEN s[j] ELSE s[j + 1]
    BY <2>1
  <2> DEFINE old(j) == IF j < i THEN j ELSE j + 1
  <2>8. /\ r \in Seq(S) /\ Len(r) = Len(s) - 1
        /\ DOMAIN r = 1 .. Len(r) /\ DOMAIN s = 1 .. Len(s)
    BY <2>1
  <2>9. \A j \in 1 .. Len(r) : old(j) \in 1 .. Len(s) /\ old(j) # i
                                /\ r[j] = s[old(j)]
    BY <2>2, <2>8
  <2>10. \A a, b \in 1 .. Len(r) : old(a) = old(b) => a = b
    BY <2>8
  <2> HIDE DEF old
  <2>11. IsInjective(r)
    <3> SUFFICES ASSUME NEW a \in 1 .. Len(r), NEW b \in 1 .. Len(r), r[a] = r[b]
                 PROVE  a = b
      BY <2>8 DEF IsInjective
    <3>1. s[old(a)] = s[old(b)]
      BY <2>9
    <3>2. old(a) \in DOMAIN s /\ old(b) \in DOMAIN s
      BY <2>8, <2>9
    <3>3. old(a) = old(b)
      BY <3>1, <3>2 DEF IsInjective
    <3> QED BY <3>3, <2>10
  <2>12. ASSUME NEW y \in S PROVE Contains(r, y) <=> Contains(s, y) /\ y # x
    <3>1. ASSUME Contains(r, y) PROVE Contains(s, y) /\ y # x
      <4>1. PICK j \in 1 .. Len(r) : r[j] = y
        BY <3>1 DEF Contains
      <4>2. old(j) \in 1 .. Len(s) /\ old(j) # i /\ y = s[old(j)]
        BY <4>1, <2>9
      <4> QED BY <4>2, <2>2, <2>8 DEF Contains, IsInjective
    <3>2. ASSUME Contains(s, y), y # x PROVE Contains(r, y)
      <4>1. PICK j \in 1 .. Len(s) : s[j] = y
        BY <3>2 DEF Contains
      <4>2. CASE j < i
        BY <4>1, <4>2, <2>2, <2>8 DEF Contains
      <4>3. CASE j > i
        <5>1. j - 1 \in 1 .. Len(r) /\ r[j - 1] = s[j]
          BY <4>1, <4>3, <2>2, <2>8
        <5> QED BY <4>1, <5>1 DEF Contains
      <4> QED BY <4>1, <4>2, <4>3, <2>2, <3>2
    <3> QED BY <3>1, <3>2
  <2>13. s # <<>> /\ Head(s) # x => r # <<>> /\ Head(r) = Head(s)
    BY <2>2, <2>8
  <2> QED BY <2>8, <2>11, <2>12, <2>13 DEF r
<1> QED BY <1>1, <1>2

\* A task that is in no position of a queue can be linked at either end.
LEMMA AppendQueue ==
  ASSUME NEW S, NEW s \in Seq(S), NEW x \in S, IsInjective(s), ~Contains(s, x)
  PROVE  /\ Append(s, x) \in Seq(S) /\ Append(s, x) # <<>>
         /\ IsInjective(Append(s, x))
         /\ \A y \in S : Contains(Append(s, x), y) <=> Contains(s, y) \/ y = x
         /\ Head(Append(s, x)) = IF s = <<>> THEN x ELSE Head(s)
<1>1. /\ Append(s, x) \in Seq(S) /\ Append(s, x) # <<>>
      /\ Len(Append(s, x)) = Len(s) + 1
      /\ \A i \in 1 .. Len(s) : Append(s, x)[i] = s[i]
      /\ Append(s, x)[Len(s) + 1] = x
  BY AppendProperties
<1>2. IsInjective(Append(s, x))
  BY <1>1 DEF IsInjective, Contains
<1>3. \A y \in S : Contains(Append(s, x), y) <=> Contains(s, y) \/ y = x
  BY <1>1 DEF Contains
<1> QED BY <1>1, <1>2, <1>3, HeadTailAppend

LEMMA PrependQueue ==
  ASSUME NEW S, NEW s \in Seq(S), NEW x \in S, IsInjective(s), ~Contains(s, x)
  PROVE  /\ <<x>> \o s \in Seq(S) /\ <<x>> \o s # <<>>
         /\ IsInjective(<<x>> \o s)
         /\ \A y \in S : Contains(<<x>> \o s, y) <=> Contains(s, y) \/ y = x
         /\ Head(<<x>> \o s) = x
<1> DEFINE r == <<x>> \o s
<1>1. /\ r \in Seq(S) /\ Len(r) = Len(s) + 1
      /\ \A i \in 1 .. Len(s) + 1 : r[i] = IF i = 1 THEN x ELSE s[i - 1]
  BY ConcatProperties, <<x>> \in Seq(S)
<1> HIDE DEF r
<1>2. IsInjective(r)
  <2> SUFFICES ASSUME NEW i \in 1 .. Len(s) + 1, NEW j \in 1 .. Len(s) + 1,
                      r[i] = r[j]
               PROVE  i = j
    BY <1>1 DEF IsInjective
  <2>1. \A n \in 2 .. Len(s) + 1 : r[n] = s[n - 1] /\ n - 1 \in DOMAIN s
    BY <1>1
  <2>2. \A n \in DOMAIN s : s[n] # x
    BY DEF Contains
  <2>3. CASE i = 1 \/ j = 1
    BY <1>1, <2>1, <2>2, <2>3
  <2>4. CASE i # 1 /\ j # 1
    <3>1. i - 1 = j - 1
      BY <2>1, <2>4 DEF IsInjective
    <3> QED BY <3>1
  <2> QED BY <2>3, <2>4
<1>3. \A y \in S : Contains(r, y) <=> Contains(s, y) \/ y = x
  <2>1. ASSUME NEW i \in 1 .. Len(s) PROVE i + 1 \in 1 .. Len(r) /\ r[i + 1] = s[i]
    BY <1>1
  <2>2. \A y \in S : Contains(s, y) => Contains(r, y)
    BY <2>1 DEF Contains
  <2>3. ASSUME NEW y \in S, NEW i \in 1 .. Len(r), r[i] = y, y # x
        PROVE  Contains(s, y)
    <3>1. i - 1 \in 1 .. Len(s) /\ s[i - 1] = y
      BY <1>1, <2>3
    <3> QED BY <3>1 DEF Contains
  <2>4. Contains(r, x)
    <3>1. 1 \in 1 .. Len(r) /\ r[1] = x
      BY <1>1
    <3> QED BY <3>1 DEF Contains
  <2> QED BY <2>2, <2>3, <2>4 DEF Contains
<1>4. r # <<>> /\ Head(r) = x
  BY <1>1
<1> QED BY <1>1, <1>2, <1>3, <1>4 DEF r

\* A queue without a member is empty.
LEMMA EmptyQueue ==
  ASSUME NEW S, NEW s \in Seq(S), \A x \in S : ~Contains(s, x)
  PROVE  s = <<>>
<1>1. ASSUME s # <<>> PROVE FALSE
  <2>1. 1 \in 1 .. Len(s) /\ s[1] \in S
    BY <1>1
  <2> QED BY <2>1 DEF Contains
<1> QED BY <1>1

\* The first task of a queue is one of its members.
LEMMA HeadInQueue ==
  ASSUME NEW S, NEW s \in Seq(S), s # <<>>
  PROVE  Head(s) \in S /\ Contains(s, Head(s))
<1>1. 1 \in 1 .. Len(s) /\ s[1] \in S /\ Head(s) = s[1]
  OBVIOUS
<1> QED BY <1>1 DEF Contains

\* Inserting x at place i of a queue.
LEMMA InsertAtProperties ==
  ASSUME NEW S, NEW s \in Seq(S), NEW x \in S, NEW i \in 1 .. Len(s)
  PROVE  LET r == InsertAt(s, i, x) IN
         /\ r \in Seq(S) /\ Len(r) = Len(s) + 1
         /\ \A j \in 1 .. Len(s) + 1 :
               r[j] = IF j < i THEN s[j] ELSE IF j = i THEN x ELSE s[j - 1]
<1> DEFINE u == SubSeq(s, 1, i - 1)
           v == SubSeq(s, i, Len(s))
           w == u \o <<x>>
           r == w \o v
<1>1. InsertAt(s, i, x) = r
  BY DEF InsertAt
<1>2. Len(s) \in Nat /\ i \in Int /\ i >= 1 /\ i <= Len(s)
  OBVIOUS
<1>3. u \in Seq(S) /\ Len(u) = i - 1 /\ \A j \in 1 .. i - 1 : u[j] = s[j]
  <2>1. \A j \in 1 .. i - 1 : s[j] \in S
    BY <1>2
  <2> QED BY <1>2, <2>1, SubSeqProperties
<1>4. /\ v \in Seq(S) /\ Len(v) = Len(s) - i + 1
      /\ \A j \in 1 .. Len(s) - i + 1 : v[j] = s[i + j - 1]
  <2>1. \A j \in i .. Len(s) : s[j] \in S
    BY <1>2
  <2> QED BY <1>2, <2>1, SubSeqProperties
<1> HIDE DEF u, v
<1>5. /\ w \in Seq(S) /\ Len(w) = i
      /\ \A j \in 1 .. i : w[j] = IF j < i THEN s[j] ELSE x
  <2>1. <<x>> \in Seq(S) /\ Len(<<x>>) = 1 /\ <<x>>[1] = x
    OBVIOUS
  <2>2. /\ w \in Seq(S) /\ Len(w) = Len(u) + 1
        /\ \A j \in 1 .. Len(u) + 1 :
              w[j] = IF j <= Len(u) THEN u[j] ELSE <<x>>[j - Len(u)]
    BY <1>3, <2>1, ConcatProperties
  <2> QED BY <1>2, <1>3, <2>1, <2>2
<1> HIDE DEF w
<1>6. /\ r \in Seq(S) /\ Len(r) = Len(w) + Len(v)
      /\ \A j \in 1 .. Len(w) + Len(v) :
            r[j] = IF j <= Len(w) THEN w[j] ELSE v[j - Len(w)]
  BY <1>4, <1>5, ConcatProperties
<1> HIDE DEF r
<1>7. ASSUME NEW j \in 1 .. Len(s) + 1
      PROVE  r[j] = IF j < i THEN s[j] ELSE IF j = i THEN x ELSE s[j - 1]
  <2>1. r[j] = IF j <= i THEN w[j] ELSE v[j - i]
    BY <1>2, <1>4, <1>5, <1>6
  <2>2. CASE j <= i
    BY <1>2, <1>5, <2>1, <2>2
  <2>3. CASE j > i
    <3>1. j - i \in 1 .. Len(s) - i + 1 /\ i + (j - i) - 1 = j - 1
      BY <1>2, <2>3
    <3>2. v[j - i] = s[i + (j - i) - 1]
      BY <1>4, <3>1
    <3> QED BY <1>2, <2>1, <2>3, <3>1, <3>2
  <2> QED BY <1>2, <2>2, <2>3
<1> QED BY <1>1, <1>2, <1>4, <1>5, <1>6, <1>7

\* r is the queue s with x inserted at place i.
Inserted(r, s, x, i) ==
    /\ Len(r) = Len(s) + 1
    /\ \A j \in 1 .. Len(s) + 1 :
          r[j] = IF j < i THEN s[j] ELSE IF j = i THEN x ELSE s[j - 1]

\* r is the queue s without its member x, which was at place i.
Removed(r, s, x, i) ==
    /\ Len(r) = Len(s) - 1 /\ s[i] = x
    /\ \A j \in 1 .. Len(r) : r[j] = IF j < i THEN s[j] ELSE s[j + 1]

\* A queue with one more task has all the others, each once.
LEMMA InsertedQueue ==
  ASSUME NEW S, NEW s \in Seq(S), NEW r \in Seq(S), NEW x \in S,
         NEW i \in 1 .. Len(s) + 1, Inserted(r, s, x, i),
         IsInjective(s), ~Contains(s, x)
  PROVE  /\ r # <<>> /\ IsInjective(r)
         /\ \A y \in S : Contains(r, y) <=> Contains(s, y) \/ y = x
<1> DEFINE new(j) == IF j < i THEN j ELSE j + 1
<1>1. /\ Len(r) = Len(s) + 1 /\ DOMAIN r = 1 .. Len(r) /\ DOMAIN s = 1 .. Len(s)
      /\ Len(s) \in Nat
      /\ \A j \in 1 .. Len(s) + 1 :
            r[j] = IF j < i THEN s[j] ELSE IF j = i THEN x ELSE s[j - 1]
  BY DEF Inserted
<1>2. r # <<>> /\ i \in 1 .. Len(r) /\ r[i] = x
  BY <1>1
<1>3. ASSUME NEW j \in 1 .. Len(r), j # i
      PROVE  \E l \in 1 .. Len(s) : new(l) = j /\ r[j] = s[l]
  <2>1. CASE j < i
    BY <1>1, <2>1
  <2>2. CASE j > i
    <3>1. j - 1 \in 1 .. Len(s) /\ new(j - 1) = j
      BY <1>1, <2>2
    <3> QED BY <1>1, <2>2, <3>1
  <2> QED BY <1>1, <1>3, <2>1, <2>2
<1>4. \A l \in 1 .. Len(s) : new(l) \in 1 .. Len(r) /\ r[new(l)] = s[l]
  BY <1>1
<1> HIDE DEF new
<1>5. \A l \in 1 .. Len(s) : s[l] # x
  BY <1>1 DEF Contains
<1>6. IsInjective(r)
  <2> SUFFICES ASSUME NEW a \in 1 .. Len(r), NEW b \in 1 .. Len(r), r[a] = r[b]
               PROVE  a = b
    BY <1>1 DEF IsInjective
  <2>1. CASE a # i /\ b # i
    <3>1. PICK l \in 1 .. Len(s) : new(l) = a /\ r[a] = s[l]
      BY <1>3, <2>1
    <3>2. PICK m \in 1 .. Len(s) : new(m) = b /\ r[b] = s[m]
      BY <1>3, <2>1
    <3>3. l = m
      BY <1>1, <3>1, <3>2 DEF IsInjective
    <3> QED BY <3>1, <3>2, <3>3
  <2>2. CASE a = i \/ b = i
    BY <1>2, <1>3, <1>5, <2>2
  <2> QED BY <2>1, <2>2
<1>7. ASSUME NEW y \in S PROVE Contains(r, y) <=> Contains(s, y) \/ y = x
  <2>1. ASSUME Contains(r, y), y # x PROVE Contains(s, y)
    <3>1. PICK j \in 1 .. Len(r) : r[j] = y
      BY <2>1 DEF Contains
    <3> QED BY <1>2, <1>3, <2>1, <3>1 DEF Contains
  <2>2. ASSUME Contains(s, y) PROVE Contains(r, y)
    <3>1. PICK l \in 1 .. Len(s) : s[l] = y
      BY <2>2 DEF Contains
    <3> QED BY <1>4, <3>1 DEF Contains
  <2>3. Contains(r, x)
    BY <1>2 DEF Contains
  <2> QED BY <2>1, <2>2, <2>3
<1> QED BY <1>2, <1>6, <1>7

-----------------------------------------------------------------------------
(* Priorities. *)

\* Of a set of priorities one is the highest: of the sets of those above a
\* member of S, one is minimal, and it is empty.
LEMMA HighestPri ==
  ASSUME NEW S \in SUBSET Pri, S # {}
  PROVE  \E x \in S : \A y \in S : x <= y
<1> DEFINE above(x) == {y \in S : y < x}
           T == {above(x) : x \in S}
<1>1. S \subseteq Int
  BY PriAssumption DEF Pri
<1>2. IsFiniteSet(Pri)
  BY PriAssumption, FS_Interval DEF Pri
<1>3. IsWellFoundedOn(StrictSubsetOrdering(Pri), SUBSET Pri)
  BY <1>2, FS_StrictSubsetOrderingWellFounded, FS_FiniteSubsetsOfFinite
<1>4. T \subseteq SUBSET Pri /\ T # {}
  OBVIOUS
<1>5. PICK x \in S : \A y \in S :
               <<above(y), above(x)>> \notin StrictSubsetOrdering(Pri)
  <2>1. \E U \in T : \A V \in T : <<V, U>> \notin StrictSubsetOrdering(Pri)
    <3> HIDE DEF T
    <3> QED BY <1>3, <1>4, WFMin
  <2> QED BY <2>1
<1>6. ASSUME NEW y \in S, y < x PROVE FALSE
  <2>1. above(y) \subseteq above(x) /\ y \in above(x) /\ y \notin above(y)
    <3>1. \A z \in S : z < y => z < x
      BY <1>1, <1>6
    <3>2. ~(y < y)
      BY <1>1
    <3> QED BY <1>6, <3>1, <3>2, Zenon
  <2>2. above(y) \in SUBSET Pri /\ above(x) \in SUBSET Pri
    OBVIOUS
  <2> HIDE DEF above
  <2> QED BY <1>5, <2>1, <2>2 DEF StrictSubsetOrdering
<1> QED BY <1>1, <1>6

-----------------------------------------------------------------------------
(* The operators on the ready queue. *)

\* Nothing but the ready queue, its bitmap and p_schedtsk differs.
SameBut3(k1, kk) ==
    /\ k1.tstat = kk.tstat /\ k1.bpriority = kk.bpriority
    /\ k1.priority = kk.priority
    /\ k1.actque = kk.actque /\ k1.wupque = kk.wupque
    /\ k1.raster = kk.raster /\ k1.enater = kk.enater
    /\ k1.p_lastmtx = kk.p_lastmtx /\ k1.tmevtb = kk.tmevtb
    /\ k1.wobj = kk.wobj /\ k1.wait_queue = kk.wait_queue
    /\ k1.p_loctsk = kk.p_loctsk /\ k1.p_runtsk = kk.p_runtsk
    /\ k1.enadsp = kk.enadsp /\ k1.dspflg = kk.dspflg

\* What the ready queue is depends on these fields alone.
LEMMA SameQueues ==
  ASSUME NEW k1, NEW kk, NEW R,
         k1.ready_queue = kk.ready_queue, k1.ready_primap = kk.ready_primap,
         k1.priority = kk.priority
  PROVE  /\ ReadyQueue(kk, R) => ReadyQueue(k1, R)
         /\ \A t : HighestPrecedence(kk, t) => HighestPrecedence(k1, t)
         /\ k1.p_schedtsk = kk.p_schedtsk /\ Scheduled(kk, R) => Scheduled(k1, R)
<1>1. ReadyQueue(kk, R) => ReadyQueue(k1, R)
  BY DEF ReadyQueue
<1>2. \A t : HighestPrecedence(kk, t) => HighestPrecedence(k1, t)
  BY DEF HighestPrecedence
<1> QED BY <1>1, <1>2 DEF Scheduled

\* make_runnable links a task behind those of its priority and keeps
\* p_schedtsk the task of the highest precedence.
LEMMA MakeRunnable ==
  ASSUME NEW kk \in KernelData, NEW R \in SUBSET Task, NEW t \in Task \ R,
         ReadyQueue(kk, R)
  PROVE  /\ make_runnable(kk, t) \in KernelData
         /\ SameBut3(make_runnable(kk, t), kk)
         /\ ReadyQueue(make_runnable(kk, t), R \cup {t})
         /\ kk.dspflg /\ Scheduled(kk, R) =>
               Scheduled(make_runnable(kk, t), R \cup {t})
         /\ ~kk.dspflg => make_runnable(kk, t).p_schedtsk = kk.p_schedtsk
<1> DEFINE pri == kk.priority[t]
           k1 == make_runnable(kk, t)
           rq == kk.ready_queue
<1>1. pri \in Pri /\ rq \in [Pri -> Seq(Task)] /\ kk.ready_primap \in SUBSET Pri
      /\ kk.priority \in [Task -> Pri] /\ kk.p_schedtsk \in Task \cup {NULL}
  BY DEF KernelData
<1>2. /\ k1.ready_queue = [rq EXCEPT ![pri] = Append(rq[pri], t)]
      /\ k1.ready_primap = kk.ready_primap \cup {pri}
      /\ k1.p_schedtsk =
            IF kk.dspflg /\ (kk.p_schedtsk = NULL \/ pri < kk.priority[kk.p_schedtsk])
            THEN t ELSE kk.p_schedtsk
      /\ SameBut3(k1, kk)
  BY DEF make_runnable, SameBut3, KernelData
<1>3. k1 \in KernelData
  <2> DEFINE q  == [rq EXCEPT ![pri] = Append(rq[pri], t)]
             pm == kk.ready_primap \cup {pri}
             sc == IF kk.dspflg /\ (kk.p_schedtsk = NULL
                                      \/ pri < kk.priority[kk.p_schedtsk])
                   THEN t ELSE kk.p_schedtsk
  <2>1. Append(rq[pri], t) \in Seq(Task)
    BY <1>1, AppendProperties
  <2>2. q \in [Pri -> Seq(Task)] /\ pm \in SUBSET Pri /\ sc \in Task \cup {NULL}
    BY <1>1, <2>1
  <2>3. k1 = [kk EXCEPT !.ready_queue = q, !.ready_primap = pm, !.p_schedtsk = sc]
    BY DEF make_runnable, KernelData
  <2> HIDE DEF q, pm, sc, k1
  <2> QED BY <2>2, <2>3 DEF KernelData
<1> DEFINE rq1 == k1.ready_queue
<1>4. /\ \A p \in Pri : p # pri => rq1[p] = rq[p]
      /\ rq1[pri] = Append(rq[pri], t)
  BY <1>1, <1>2
<1>5. /\ IsInjective(rq[pri]) /\ ~Contains(rq[pri], t) /\ rq[pri] \in Seq(Task)
  BY <1>1 DEF ReadyQueue
<1>6. /\ rq1[pri] # <<>> /\ IsInjective(rq1[pri])
      /\ \A y \in Task : Contains(rq1[pri], y) <=> Contains(rq[pri], y) \/ y = t
      /\ Head(rq1[pri]) = IF rq[pri] = <<>> THEN t ELSE Head(rq[pri])
  <2> DEFINE q == rq[pri]
  <2>1. rq1[pri] = Append(q, t) /\ q \in Seq(Task) /\ IsInjective(q) /\ ~Contains(q, t)
    BY <1>4, <1>5
  <2> HIDE DEF q, rq1
  <2>2. /\ rq1[pri] # <<>> /\ IsInjective(rq1[pri])
        /\ \A y \in Task : Contains(rq1[pri], y) <=> Contains(q, y) \/ y = t
        /\ Head(rq1[pri]) = IF q = <<>> THEN t ELSE Head(q)
    BY <2>1, AppendQueue
  <2> QED BY <2>2 DEF q
<1>7. k1.priority = kk.priority /\ k1.dspflg = kk.dspflg
  BY <1>2 DEF SameBut3
<1>8. ReadyQueue(k1, R \cup {t})
  <2> HIDE DEF rq1, k1, pri
  <2>1. ASSUME NEW p \in Pri, NEW u \in Task
        PROVE  Contains(rq1[p], u) <=> u \in R \cup {t} /\ k1.priority[u] = p
    <3>1. Contains(rq[p], u) <=> u \in R /\ kk.priority[u] = p
      BY DEF ReadyQueue
    <3>2. CASE p = pri
      BY <3>1, <3>2, <1>6, <1>7 DEF pri
    <3>3. CASE p # pri
      BY <3>1, <3>3, <1>4, <1>7 DEF pri
    <3> QED BY <3>2, <3>3
  <2>2. \A p \in Pri : IsInjective(rq1[p])
    BY <1>4, <1>6 DEF ReadyQueue
  <2>3. k1.ready_primap = {p \in Pri : rq1[p] # <<>>}
    <3>1. kk.ready_primap = {p \in Pri : rq[p] # <<>>}
      BY DEF ReadyQueue
    <3> QED BY <3>1, <1>1, <1>2, <1>4, <1>6
  <2> QED BY <2>1, <2>2, <2>3 DEF ReadyQueue, rq1
<1>9. ASSUME kk.dspflg, Scheduled(kk, R) PROVE Scheduled(k1, R \cup {t})
  <2> DEFINE s == kk.p_schedtsk
  <2>1. \A p \in Pri : p \in Int
    BY PriAssumption DEF Pri
  <2>2. CASE s = NULL
    <3>1. R = {} /\ k1.p_schedtsk = t
      BY <1>2, <1>9, <2>2 DEF Scheduled
    <3>2. \A p \in Pri : rq[p] = <<>>
      BY <3>1, <1>1, EmptyQueue DEF ReadyQueue
    <3>3. rq1[pri] # <<>> /\ Head(rq1[pri]) = t
      BY <3>2, <1>1, <1>6
    <3>4. \A p \in Pri : p < pri => rq1[p] = <<>>
      BY <3>2, <1>4, <1>1, <2>1
    <3>5. HighestPrecedence(k1, t)
      BY <3>3, <3>4, <1>7 DEF HighestPrecedence, rq1
    <3> QED BY <3>1, <3>5, TaskAssumption DEF Scheduled
  <2>3. CASE s # NULL /\ pri < kk.priority[s]
    <3>1. HighestPrecedence(kk, s) /\ s \in Task
      BY <1>9, <2>3 DEF Scheduled
    <3>2. rq[pri] = <<>> /\ \A p \in Pri : p < pri => rq[p] = <<>>
      BY <3>1, <2>3, <2>1, <1>1 DEF HighestPrecedence
    <3> HIDE DEF rq1, k1, pri
    <3>3. /\ rq1[pri] # <<>> /\ Head(rq1[pri]) = t
          /\ \A p \in Pri : p < pri => rq1[p] = <<>>
      BY <3>2, <1>4, <1>6, <1>1, <2>1
    <3>4. HighestPrecedence(k1, t)
      BY <3>3, <1>7 DEF HighestPrecedence, rq1, pri
    <3> QED BY <3>4, <1>2, <1>9, <2>3, TaskAssumption DEF Scheduled
  <2>4. CASE s # NULL /\ ~(pri < kk.priority[s])
    <3>1. HighestPrecedence(kk, s) /\ s \in R
      BY <1>9, <2>4 DEF Scheduled
    <3>2. HighestPrecedence(k1, s)
      BY <3>1, <2>4, <2>1, <1>1, <1>4, <1>6, <1>7 DEF HighestPrecedence
    <3> QED BY <3>1, <3>2, <1>2, <2>4 DEF Scheduled
  <2> QED BY <2>2, <2>3, <2>4
<1>10. ~kk.dspflg => k1.p_schedtsk = kk.p_schedtsk
  BY <1>2
<1> QED BY <1>2, <1>3, <1>8, <1>9, <1>10

\* queue_delete takes a task out of the ready queue and touches only the
\* queue of the task's priority.
LEMMA QueueDelete ==
  ASSUME NEW kk \in KernelData, NEW R \in SUBSET Task, NEW t \in R,
         ReadyQueue(kk, R)
  PROVE  LET rq == kk.ready_queue
             rq0 == queue_delete(rq, t)
         IN  /\ rq0 \in [Pri -> Seq(Task)]
             /\ \A p \in Pri :
                   /\ IsInjective(rq0[p])
                   /\ \A u \in Task : Contains(rq0[p], u)
                          <=> u \in R \ {t} /\ kk.priority[u] = p
                   /\ rq[p] # <<>> /\ Head(rq[p]) # t =>
                          rq0[p] # <<>> /\ Head(rq0[p]) = Head(rq[p])
                   /\ p # kk.priority[t] => rq0[p] = rq[p]
                   /\ rq[p] = <<>> => rq0[p] = <<>>
<1> DEFINE rq == kk.ready_queue
           rq0 == queue_delete(rq, t)
<1>1. rq \in [Pri -> Seq(Task)] /\ kk.priority \in [Task -> Pri] /\ t \in Task
  BY DEF KernelData
<1>2. DOMAIN rq = Pri /\ \A p \in Pri : rq0[p] = RemoveFirst(rq[p], t)
  BY <1>1 DEF queue_delete
<1>3. ASSUME NEW p \in Pri
      PROVE  /\ rq0[p] \in Seq(Task) /\ IsInjective(rq0[p])
             /\ \A u \in Task : Contains(rq0[p], u)
                    <=> u \in R \ {t} /\ kk.priority[u] = p
             /\ rq[p] # <<>> /\ Head(rq[p]) # t =>
                    rq0[p] # <<>> /\ Head(rq0[p]) = Head(rq[p])
             /\ p # kk.priority[t] => rq0[p] = rq[p]
             /\ rq[p] = <<>> => rq0[p] = <<>>
  <2>1. rq[p] \in Seq(Task) /\ IsInjective(rq[p])
    BY <1>1 DEF ReadyQueue
  <2>2. \A u \in Task : Contains(rq[p], u) <=> u \in R /\ kk.priority[u] = p
    BY DEF ReadyQueue
  <2>3. /\ RemoveFirst(rq[p], t) \in Seq(Task)
        /\ IsInjective(RemoveFirst(rq[p], t))
        /\ \A u \in Task : Contains(RemoveFirst(rq[p], t), u)
                           <=> Contains(rq[p], u) /\ u # t
        /\ rq[p] # <<>> /\ Head(rq[p]) # t =>
               /\ RemoveFirst(rq[p], t) # <<>>
               /\ Head(RemoveFirst(rq[p], t)) = Head(rq[p])
    BY <1>1, <2>1, RemoveFirstProperties
  <2>4. ~Contains(rq[p], t) => RemoveFirst(rq[p], t) = rq[p]
    BY DEF Contains, RemoveFirst
  <2>5. p # kk.priority[t] \/ rq[p] = <<>> => ~Contains(rq[p], t)
    BY <2>2, <1>1 DEF Contains
  <2> HIDE DEF rq, rq0
  <2> QED BY <1>2, <2>2, <2>3, <2>4, <2>5
<1>4. rq0 \in [Pri -> Seq(Task)]
  BY <1>1, <1>3 DEF queue_delete
<1> QED BY <1>3, <1>4

\* primap_search finds the task of the highest precedence.
LEMMA SearchSchedtsk ==
  ASSUME NEW kk \in KernelData, NEW R \in SUBSET Task, ReadyQueue(kk, R),
         R # {}
  PROVE  /\ search_schedtsk(kk) \in R
         /\ HighestPrecedence(kk, search_schedtsk(kk))
<1> DEFINE pm == kk.ready_primap
           m == Min(pm)
           rq == kk.ready_queue
<1>0. Pri \subseteq Int
  BY PriAssumption DEF Pri
<1>1. /\ rq \in [Pri -> Seq(Task)] /\ kk.priority \in [Task -> Pri]
      /\ pm = {p \in Pri : rq[p] # <<>>} /\ pm \subseteq Pri /\ Pri \subseteq Int
      /\ \A p \in Pri : \A u \in Task : Contains(rq[p], u)
                                     <=> u \in R /\ kk.priority[u] = p
  BY <1>0 DEF KernelData, ReadyQueue
<1>2. pm # {}
  <2>1. PICK t \in R : TRUE
    OBVIOUS
  <2>2. kk.priority[t] \in Pri /\ Contains(rq[kk.priority[t]], t)
    BY <1>1
  <2> QED BY <1>1, <2>2 DEF Contains
<1>3. m \in pm /\ \A p \in pm : m <= p
  <2>1. \E x \in pm : \A p \in pm : x <= p
    <3> HIDE DEF pm
    <3> QED BY <1>1, <1>2, HighestPri
  <2> HIDE DEF pm
  <2> QED BY <2>1 DEF Min
<1>4. Head(rq[m]) \in Task /\ Contains(rq[m], Head(rq[m]))
  <2> HIDE DEF rq, m, pm
  <2>1. rq[m] \in Seq(Task) /\ rq[m] # <<>>
    BY <1>1, <1>3
  <2> QED BY <2>1, HeadInQueue
<1>5. Head(rq[m]) \in R /\ kk.priority[Head(rq[m])] = m
  <2> DEFINE u == Head(rq[m])
  <2>1. m \in Pri /\ u \in Task /\ Contains(rq[m], u)
    BY <1>1, <1>3, <1>4
  <2> HIDE DEF u, m, rq, pm
  <2>2. u \in R /\ kk.priority[u] = m
    BY <1>1, <2>1
  <2> QED BY <2>2 DEF u
<1>6. \A p \in Pri : p < m => rq[p] = <<>>
  <2> SUFFICES ASSUME NEW p \in Pri, p < m, rq[p] # <<>> PROVE FALSE
    OBVIOUS
  <2>1. p \in pm
    BY <1>1
  <2>2. m <= p /\ p \in Int /\ m \in Int
    <3> HIDE DEF m, rq, pm
    <3> QED BY <1>1, <1>3, <2>1
  <2> HIDE DEF m, rq, pm
  <2> QED BY <2>2
<1> QED BY <1>1, <1>3, <1>5, <1>6 DEF search_schedtsk, HighestPrecedence

\* make_non_runnable unlinks a task and, when it was p_schedtsk, finds the
\* next one without losing precedence.
LEMMA MakeNonRunnable ==
  ASSUME NEW kk \in KernelData, NEW R \in SUBSET Task, NEW t \in R,
         ReadyQueue(kk, R)
  PROVE  LET k1 == make_non_runnable(kk, t) IN
         /\ k1 \in KernelData
         /\ SameBut3(k1, kk)
         /\ ReadyQueue(k1, R \ {t})
         /\ Scheduled(kk, R) => Scheduled(k1, R \ {t})
         /\ kk.p_schedtsk # t => k1.p_schedtsk = kk.p_schedtsk
<1> DEFINE pri == kk.priority[t]
           rq == kk.ready_queue
           rq0 == queue_delete(rq, t)
           pm0 == kk.ready_primap \ (IF rq0[pri] = <<>> THEN {pri} ELSE {})
           k0 == [kk EXCEPT !.ready_queue = rq0, !.ready_primap = pm0]
           k1 == make_non_runnable(kk, t)
           next == IF kk.p_schedtsk # t THEN kk.p_schedtsk
                   ELSE IF rq0[pri] # <<>> THEN Head(rq0[pri])
                   ELSE IF pm0 = {} THEN NULL
                   ELSE search_schedtsk(k0)
<1>1. /\ rq \in [Pri -> Seq(Task)] /\ kk.priority \in [Task -> Pri]
      /\ kk.ready_primap \in SUBSET Pri /\ kk.p_schedtsk \in Task \cup {NULL}
      /\ t \in Task /\ pri \in Pri
      /\ kk.ready_primap = {p \in Pri : rq[p] # <<>>}
  BY DEF KernelData, ReadyQueue
<1>2. /\ rq0 \in [Pri -> Seq(Task)]
      /\ \A p \in Pri :
            /\ IsInjective(rq0[p])
            /\ \A u \in Task : Contains(rq0[p], u)
                   <=> u \in R \ {t} /\ kk.priority[u] = p
            /\ rq[p] # <<>> /\ Head(rq[p]) # t =>
                   rq0[p] # <<>> /\ Head(rq0[p]) = Head(rq[p])
            /\ p # kk.priority[t] => rq0[p] = rq[p]
            /\ rq[p] = <<>> => rq0[p] = <<>>
  BY QueueDelete
<1>3. pm0 = {p \in Pri : rq0[p] # <<>>}
  <2> HIDE DEF rq0, rq
  <2> QED BY <1>1, <1>2
<1>4. k0 \in KernelData /\ SameBut3(k0, kk) /\ k0.ready_queue = rq0
      /\ k0.ready_primap = pm0 /\ k0.p_schedtsk = kk.p_schedtsk
  <2> pm0 \in SUBSET Pri
    BY <1>1
  <2> HIDE DEF rq0, pm0
  <2> QED BY <1>2 DEF KernelData, SameBut3
<1>5. ReadyQueue(k0, R \ {t})
  <2> HIDE DEF rq0, pm0, k0
  <2> QED BY <1>2, <1>3, <1>4 DEF ReadyQueue, SameBut3
<1>6. k1 = [k0 EXCEPT !.p_schedtsk = next]
  BY <1>4 DEF make_non_runnable
<1>7. R \ {t} = {} \/ pm0 # {}
  <2> SUFFICES ASSUME NEW u \in R \ {t}, pm0 = {} PROVE FALSE
    OBVIOUS
  <2>1. kk.priority[u] \in Pri /\ Contains(rq0[kk.priority[u]], u)
    BY <1>1, <1>2
  <2>2. rq0[kk.priority[u]] # <<>>
    BY <2>1 DEF Contains
  <2> QED BY <2>1, <2>2, <1>3
<1>8. rq0[pri] # <<>> => /\ Head(rq0[pri]) \in R \ {t}
                         /\ kk.priority[Head(rq0[pri])] = pri
  <2> SUFFICES ASSUME rq0[pri] # <<>>
               PROVE /\ Head(rq0[pri]) \in R \ {t}
                     /\ kk.priority[Head(rq0[pri])] = pri
    OBVIOUS
  <2> HIDE DEF rq0, pri
  <2>1. rq0[pri] \in Seq(Task)
    BY <1>1, <1>2
  <2>2. Head(rq0[pri]) \in Task /\ Contains(rq0[pri], Head(rq0[pri]))
    BY <2>1, HeadInQueue
  <2> QED BY <1>1, <1>2, <2>2
<1>9. pm0 # {} => /\ search_schedtsk(k0) \in R \ {t}
                  /\ HighestPrecedence(k0, search_schedtsk(k0))
  <2> SUFFICES ASSUME pm0 # {}
               PROVE  /\ search_schedtsk(k0) \in R \ {t}
                      /\ HighestPrecedence(k0, search_schedtsk(k0))
    OBVIOUS
  <2> HIDE DEF rq0, pm0, k0
  <2>1. PICK p \in Pri : rq0[p] # <<>>
    BY <1>3
  <2>2. rq0[p] \in Seq(Task) /\ Head(rq0[p]) \in Task /\ Contains(rq0[p], Head(rq0[p]))
    BY <1>2, <2>1, HeadInQueue
  <2>3. R \ {t} # {} /\ R \ {t} \in SUBSET Task
    BY <1>2, <2>2
  <2> QED BY <2>3, <1>4, <1>5, SearchSchedtsk
<1>10. next \in Task \cup {NULL}
  <2> HIDE DEF rq0, pm0, k0
  <2> QED BY <1>1, <1>8, <1>9
<1>11. /\ k1 \in KernelData /\ SameBut3(k1, kk) /\ k1.p_schedtsk = next
       /\ k1.ready_queue = rq0 /\ k1.ready_primap = pm0
  <2> HIDE DEF rq0, pm0, next, k0, k1
  <2> QED BY <1>4, <1>6, <1>10 DEF KernelData, SameBut3
<1>12. ReadyQueue(k1, R \ {t})
  <2> HIDE DEF rq0, pm0, k0, k1
  <2> QED BY <1>4, <1>5, <1>11, SameQueues DEF SameBut3
<1>13. ASSUME Scheduled(kk, R) PROVE Scheduled(k1, R \ {t})
  <2> DEFINE s == kk.p_schedtsk
  <2>0. Pri \subseteq Int
    BY PriAssumption DEF Pri
  <2>1. s \in R /\ HighestPrecedence(kk, s)
    BY <1>13 DEF Scheduled
  <2>2. CASE s # t
    <3>1. k1.p_schedtsk = s
      BY <1>11, <2>2
    <3> HIDE DEF rq0, pm0, k0, k1
    <3>2. k1.priority = kk.priority /\ kk.priority[s] \in Pri
      BY <1>1, <1>11, <2>1 DEF SameBut3
    <3> HIDE DEF s, next
    <3>3. /\ rq[kk.priority[s]] # <<>> /\ Head(rq[kk.priority[s]]) = s
          /\ \A p \in Pri : p < kk.priority[s] => rq[p] = <<>>
      BY <2>1 DEF HighestPrecedence
    <3>4. /\ rq0[kk.priority[s]] # <<>> /\ Head(rq0[kk.priority[s]]) = s
          /\ \A p \in Pri : p < kk.priority[s] => rq0[p] = <<>>
      BY <1>2, <2>2, <3>2, <3>3
    <3>5. HighestPrecedence(k1, s)
      BY <1>11, <3>2, <3>4 DEF HighestPrecedence
    <3> QED BY <3>1, <3>5, <2>1, <2>2, TaskAssumption DEF Scheduled
  <2>3. CASE s = t /\ rq0[pri] # <<>>
    <3>1. k1.p_schedtsk = Head(rq0[pri])
      BY <1>11, <2>3
    <3> DEFINE h == Head(rq0[pri])
    <3>2. h \in R \ {t} /\ kk.priority[h] = pri
      BY <1>8, <2>3
    <3> HIDE DEF rq0, pm0, k0, k1, h
    <3>3. HighestPrecedence(k1, h)
      BY <1>2, <1>11, <2>1, <2>3, <3>2 DEF HighestPrecedence, SameBut3, h
    <3> QED BY <3>1, <3>2, <3>3, TaskAssumption DEF Scheduled, h
  <2>4. CASE s = t /\ rq0[pri] = <<>> /\ pm0 = {}
    BY <1>7, <1>11, <2>4 DEF Scheduled
  <2>5. CASE s = t /\ rq0[pri] = <<>> /\ pm0 # {}
    <3> DEFINE h == search_schedtsk(k0)
    <3>1. k1.p_schedtsk = h
      BY <1>11, <2>5
    <3>2. h \in R \ {t} /\ HighestPrecedence(k0, h)
      BY <1>9, <2>5
    <3> HIDE DEF rq0, pm0, k0, k1, h
    <3>3. HighestPrecedence(k1, h)
      BY <1>4, <1>11, <3>2 DEF HighestPrecedence, SameBut3
    <3> QED BY <3>1, <3>2, <3>3, TaskAssumption DEF Scheduled
  <2> HIDE DEF rq0, pm0, k0, k1
  <2> QED BY <2>2, <2>3, <2>4, <2>5
<1>14. kk.p_schedtsk # t => k1.p_schedtsk = kk.p_schedtsk
  BY <1>11
<1> QED BY <1>11, <1>12, <1>13, <1>14

\* When dispatching becomes possible again set_dspflg finds the task of the
\* highest precedence, whatever became runnable meanwhile.
LEMMA SetDspflg ==
  ASSUME NEW kk \in KernelData, NEW R \in SUBSET Task, ReadyQueue(kk, R),
         R # {}
  PROVE  LET k1 == set_dspflg(kk) IN
         /\ k1 \in KernelData
         /\ k1.dspflg = TRUE
         /\ ReadyQueue(k1, R) /\ Scheduled(k1, R)
         /\ SameBut3([k1 EXCEPT !.dspflg = kk.dspflg], kk)
<1> DEFINE h == search_schedtsk(kk)
           k1 == set_dspflg(kk)
<1>1. h \in R /\ HighestPrecedence(kk, h)
  BY SearchSchedtsk
<1>2. /\ k1 = [kk EXCEPT !.dspflg = TRUE, !.p_schedtsk = h]
  BY DEF set_dspflg
<1>3. /\ k1 \in KernelData /\ k1.dspflg = TRUE /\ k1.p_schedtsk = h
      /\ k1.ready_queue = kk.ready_queue /\ k1.ready_primap = kk.ready_primap
      /\ k1.priority = kk.priority
      /\ SameBut3([k1 EXCEPT !.dspflg = kk.dspflg], kk)
  <2> HIDE DEF h, k1
  <2> QED BY <1>1, <1>2 DEF KernelData, SameBut3
<1>4. ReadyQueue(k1, R) /\ HighestPrecedence(k1, h)
  <2> HIDE DEF h, k1
  <2> QED BY <1>1, <1>3, SameQueues
<1> QED BY <1>1, <1>3, <1>4, TaskAssumption DEF Scheduled

\* Rotating a queue moves its first task to the end.
LEMMA RotateQueue ==
  ASSUME NEW S, NEW s \in Seq(S), IsInjective(s), Len(s) >= 2
  PROVE  LET r == Append(Tail(s), Head(s)) IN
         /\ r \in Seq(S) /\ r # <<>> /\ IsInjective(r)
         /\ \A y \in S : Contains(r, y) <=> Contains(s, y)
<1> DEFINE r == Append(Tail(s), Head(s))
           n == Len(s)
<1>1. /\ r \in Seq(S) /\ Len(r) = n /\ n \in Nat
      /\ \A i \in 1 .. n - 1 : r[i] = s[i + 1]
      /\ r[n] = s[1]
  <2>1. /\ Tail(s) \in Seq(S) /\ Len(Tail(s)) = n - 1 /\ Head(s) = s[1]
        /\ \A i \in 1 .. n - 1 : Tail(s)[i] = s[i + 1]
        /\ Head(s) \in S
    OBVIOUS
  <2> QED BY <2>1, AppendProperties
<1> HIDE DEF r
<1>2. IsInjective(r)
  <2> SUFFICES ASSUME NEW i \in 1 .. n, NEW j \in 1 .. n, r[i] = r[j]
               PROVE  i = j
    BY <1>1 DEF IsInjective
  <2> DEFINE old(a) == IF a = n THEN 1 ELSE a + 1
  <2>1. \A a \in 1 .. n : old(a) \in 1 .. n /\ r[a] = s[old(a)]
    BY <1>1
  <2>2. old(i) = old(j)
    <3>1. old(i) \in DOMAIN s /\ old(j) \in DOMAIN s /\ s[old(i)] = s[old(j)]
      BY <2>1
    <3> HIDE DEF old
    <3> QED BY <3>1 DEF IsInjective
  <2> QED BY <1>1, <2>2
<1>3. ASSUME NEW y \in S PROVE Contains(r, y) <=> Contains(s, y)
  <2>1. ASSUME NEW i \in 1 .. n, r[i] = y PROVE Contains(s, y)
    <3>1. CASE i = n
      BY <1>1, <2>1, <3>1 DEF Contains
    <3>2. CASE i < n
      <4>1. i + 1 \in 1 .. Len(s) /\ s[i + 1] = y
        BY <1>1, <2>1, <3>2
      <4> QED BY <4>1 DEF Contains
    <3> QED BY <1>1, <3>1, <3>2
  <2>2. ASSUME NEW i \in 1 .. n, s[i] = y PROVE Contains(r, y)
    <3>1. CASE i = 1
      BY <1>1, <2>2, <3>1 DEF Contains
    <3>2. CASE i > 1
      <4>1. i - 1 \in 1 .. Len(r) /\ r[i - 1] = y
        BY <1>1, <2>2, <3>2
      <4> QED BY <4>1 DEF Contains
    <3> QED BY <1>1, <3>1, <3>2
  <2> QED BY <1>1, <2>1, <2>2 DEF Contains
<1>4. r # <<>>
  BY <1>1
<1> QED BY <1>1, <1>2, <1>3, <1>4 DEF r

\* rotate_ready_queue gives the turn to the next task of a priority.
LEMMA RotateReadyQueue ==
  ASSUME NEW kk \in KernelData, NEW R \in SUBSET Task, ReadyQueue(kk, R),
         NEW pri \in Pri
  PROVE  LET k1 == rotate_ready_queue(kk, pri) IN
         /\ k1 \in KernelData
         /\ SameBut3(k1, kk)
         /\ ReadyQueue(k1, R)
         /\ kk.dspflg /\ Scheduled(kk, R) => Scheduled(k1, R)
         /\ ~kk.dspflg => k1.p_schedtsk = kk.p_schedtsk
<1> DEFINE rq == kk.ready_queue
           q == rq[pri]
           r == Append(Tail(q), Head(q))
           k1 == rotate_ready_queue(kk, pri)
           rq1 == [rq EXCEPT ![pri] = r]
           next == IF kk.dspflg /\ kk.p_schedtsk = Head(q) THEN Head(r)
                   ELSE kk.p_schedtsk
<1>0. rq \in [Pri -> Seq(Task)] /\ q \in Seq(Task) /\ IsInjective(q)
      /\ kk.p_schedtsk \in Task \cup {NULL} /\ kk.priority \in [Task -> Pri]
  BY DEF KernelData, ReadyQueue
<1>1. CASE Len(q) < 2
  BY <1>1 DEF rotate_ready_queue, SameBut3
<1>2. CASE Len(q) >= 2
  <2>1. /\ r \in Seq(Task) /\ r # <<>> /\ IsInjective(r)
        /\ \A y \in Task : Contains(r, y) <=> Contains(q, y)
    BY <1>0, <1>2, RotateQueue
  <2>2. k1 = [kk EXCEPT !.ready_queue = rq1, !.p_schedtsk = next]
    <3>1. ~(Len(q) < 2)
      BY <1>0, <1>2
    <3>2. k1 = [kk EXCEPT !.ready_queue[pri] = r,
                          !.p_schedtsk = IF kk.dspflg /\ @ = Head(q)
                                         THEN Head(r) ELSE @]
      BY <3>1, Zenon DEF rotate_ready_queue
    <3> DEFINE hq == Head(q)
               hr == Head(r)
    <3>3. next = IF kk.dspflg /\ kk.p_schedtsk = hq THEN hr ELSE kk.p_schedtsk
      OBVIOUS
    <3>4. k1 = [kk EXCEPT !.ready_queue[pri] = r,
                          !.p_schedtsk = IF kk.dspflg /\ @ = hq
                                         THEN hr ELSE @]
      BY <3>2
    <3> HIDE DEF r, hq, hr, next, k1
    <3> QED BY <3>3, <3>4 DEF KernelData
  <2>3. rq1 \in [Pri -> Seq(Task)] /\ rq1[pri] = r
        /\ \A p \in Pri : p # pri => rq1[p] = rq[p]
    BY <1>0, <2>1
  <2>4. Head(r) \in Task /\ Contains(q, Head(r))
    BY <2>1, HeadInQueue
  <2>5. next \in Task \cup {NULL}
    BY <1>0, <2>4
  <2>6. /\ k1 \in KernelData /\ SameBut3(k1, kk)
        /\ k1.ready_queue = rq1 /\ k1.ready_primap = kk.ready_primap
        /\ k1.p_schedtsk = next /\ k1.priority = kk.priority
    <3> HIDE DEF rq1, next, k1
    <3> QED BY <2>2, <2>3, <2>5 DEF KernelData, SameBut3
  <2> q # <<>>
    BY <1>2
  <2>7. ReadyQueue(k1, R)
    <3> HIDE DEF rq1, next, k1, r
    <3>1. \A p \in Pri : IsInjective(rq1[p]) /\ (rq1[p] = <<>> <=> rq[p] = <<>>)
      BY <2>1, <2>3 DEF ReadyQueue
    <3>2. \A p \in Pri : \A u \in Task : Contains(rq1[p], u) <=> Contains(rq[p], u)
      BY <2>1, <2>3
    <3> QED BY <2>6, <3>1, <3>2 DEF ReadyQueue
  <2>8. ASSUME kk.dspflg, Scheduled(kk, R) PROVE Scheduled(k1, R)
    <3> DEFINE s == kk.p_schedtsk
               h == Head(r)
    <3>1. CASE s = Head(q) /\ s # NULL
      <4>1. k1.p_schedtsk = h
        BY <2>6, <2>8, <3>1
      <4>2. HighestPrecedence(kk, s) /\ s \in R
        BY <2>8, <3>1 DEF Scheduled
      <4>3. Contains(q, s)
        BY <1>0, <3>1, HeadInQueue
      <4>4. kk.priority[s] = pri
        BY <4>2, <4>3 DEF ReadyQueue
      <4>5. h \in R /\ kk.priority[h] = pri
        BY <2>4 DEF ReadyQueue
      <4>6. \A p \in Pri : p < pri => rq[p] = <<>> /\ p # pri
        BY <4>2, <4>4, PriAssumption DEF HighestPrecedence, Pri
      <4> HIDE DEF rq1, k1, r, q, next, h, s
      <4>7. HighestPrecedence(k1, h)
        BY <2>1, <2>3, <2>6, <4>5, <4>6 DEF HighestPrecedence, h
      <4> QED BY <4>1, <4>5, <4>7, TaskAssumption DEF Scheduled
    <3>2. CASE s # Head(q) /\ s # NULL
      <4>1. k1.p_schedtsk = s
        BY <2>6, <2>8, <3>2
      <4>2. HighestPrecedence(kk, s) /\ s \in R
        BY <2>8, <3>2 DEF Scheduled
      <4>3. kk.priority[s] # pri
        BY <4>2, <3>2 DEF HighestPrecedence
      <4>4. kk.priority[s] \in Pri
        BY <4>2, <1>0
      <4>5. \A p \in Pri : rq[p] = <<>> => p # pri
        OBVIOUS
      <4> HIDE DEF rq1, k1, r, q, next, s
      <4>6. HighestPrecedence(k1, s)
        BY <2>3, <2>6, <4>2, <4>3, <4>4, <4>5 DEF HighestPrecedence
      <4> QED BY <4>1, <4>2, <4>6, TaskAssumption DEF Scheduled
    <3>3. CASE s = NULL
      <4>1. Head(q) \in Task /\ Contains(q, Head(q))
        BY <1>0, HeadInQueue
      <4>2. Head(q) \in R
        BY <4>1 DEF ReadyQueue
      <4> QED BY <4>2, <2>8, <3>3 DEF Scheduled
    <3> QED BY <3>1, <3>2, <3>3
  <2>9. ~kk.dspflg => k1.p_schedtsk = kk.p_schedtsk
    BY <2>6
  <2> QED BY <2>6, <2>7, <2>8, <2>9
<1>3. Len(q) < 2 \/ Len(q) >= 2
  BY <1>0
<1> QED BY <1>1, <1>2, <1>3

\* Nothing but the ready queue, its bitmap, p_schedtsk and the priorities
\* differs.
SameBut4(k1, kk) ==
    /\ k1.tstat = kk.tstat /\ k1.bpriority = kk.bpriority
    /\ k1.actque = kk.actque /\ k1.wupque = kk.wupque
    /\ k1.raster = kk.raster /\ k1.enater = kk.enater
    /\ k1.p_lastmtx = kk.p_lastmtx /\ k1.tmevtb = kk.tmevtb
    /\ k1.wobj = kk.wobj /\ k1.wait_queue = kk.wait_queue
    /\ k1.p_loctsk = kk.p_loctsk /\ k1.p_runtsk = kk.p_runtsk
    /\ k1.enadsp = kk.enadsp /\ k1.dspflg = kk.dspflg

\* change_priority moves a runnable task to the queue of its new priority
\* and settles which task has the highest precedence by looking at the task
\* itself and at p_schedtsk only.
LEMMA ChangePriority ==
  ASSUME NEW kk \in KernelData, NEW R \in SUBSET Task, NEW t \in R,
         ReadyQueue(kk, R), TSTAT_RUNNABLE(kk.tstat[t]),
         NEW newpri \in Pri, NEW mtxmode \in BOOLEAN
  PROVE  LET k2 == change_priority(kk, t, newpri, mtxmode) IN
         /\ k2 \in KernelData
         /\ SameBut4(k2, kk)
         /\ k2.priority = [kk.priority EXCEPT ![t] = newpri]
         /\ ReadyQueue(k2, R)
         /\ kk.dspflg /\ Scheduled(kk, R) => Scheduled(k2, R)
         /\ ~kk.dspflg => k2.p_schedtsk = kk.p_schedtsk
<1> DEFINE oldpri == kk.priority[t]
           rq == kk.ready_queue
           rq0 == queue_delete(rq, t)
           pm0 == kk.ready_primap \ (IF rq0[oldpri] = <<>> THEN {oldpri} ELSE {})
           k0 == [kk EXCEPT !.priority[t] = newpri]
           lq == IF mtxmode THEN <<t>> \o rq0[newpri] ELSE Append(rq0[newpri], t)
           rq1 == [rq0 EXCEPT ![newpri] = lq]
           pm1 == pm0 \cup {newpri}
           k1 == [k0 EXCEPT !.ready_queue = rq1, !.ready_primap = pm1]
           s == kk.p_schedtsk
           next == IF kk.dspflg /\ s = t /\ newpri >= oldpri
                   THEN search_schedtsk(k1)
                   ELSE IF kk.dspflg /\ s # t /\ newpri <= kk.priority[s]
                   THEN Head(rq1[newpri])
                   ELSE s
           k2 == change_priority(kk, t, newpri, mtxmode)
<1>0. newpri \in Int /\ \A p \in Pri : p \in Int
  BY PriAssumption DEF Pri
<1>1. /\ rq \in [Pri -> Seq(Task)] /\ kk.priority \in [Task -> Pri]
      /\ kk.ready_primap \in SUBSET Pri /\ s \in Task \cup {NULL}
      /\ t \in Task /\ oldpri \in Pri
      /\ kk.ready_primap = {p \in Pri : rq[p] # <<>>}
  BY DEF KernelData, ReadyQueue
<1>2. /\ rq0 \in [Pri -> Seq(Task)]
      /\ \A p \in Pri :
            /\ IsInjective(rq0[p])
            /\ \A u \in Task : Contains(rq0[p], u)
                   <=> u \in R \ {t} /\ kk.priority[u] = p
            /\ rq[p] # <<>> /\ Head(rq[p]) # t =>
                   rq0[p] # <<>> /\ Head(rq0[p]) = Head(rq[p])
            /\ p # kk.priority[t] => rq0[p] = rq[p]
            /\ rq[p] = <<>> => rq0[p] = <<>>
  BY QueueDelete
<1>3. pm0 = {p \in Pri : rq0[p] # <<>>}
  <2> HIDE DEF rq0, rq
  <2> QED BY <1>1, <1>2
<1>4. /\ lq \in Seq(Task) /\ lq # <<>> /\ IsInjective(lq)
      /\ \A y \in Task : Contains(lq, y) <=> Contains(rq0[newpri], y) \/ y = t
      /\ rq0[newpri] = <<>> => Head(lq) = t
  <2> DEFINE q == rq0[newpri]
  <2>1. q \in Seq(Task) /\ IsInjective(q) /\ ~Contains(q, t) /\ t \in Task
    <3> HIDE DEF rq0
    <3> QED BY <1>1, <1>2
  <2> HIDE DEF q
  <2>2. /\ <<t>> \o q \in Seq(Task) /\ <<t>> \o q # <<>>
        /\ IsInjective(<<t>> \o q)
        /\ \A y \in Task : Contains(<<t>> \o q, y) <=> Contains(q, y) \/ y = t
        /\ Head(<<t>> \o q) = t
    BY <2>1, PrependQueue
  <2>3. /\ Append(q, t) \in Seq(Task) /\ Append(q, t) # <<>>
        /\ IsInjective(Append(q, t))
        /\ \A y \in Task : Contains(Append(q, t), y) <=> Contains(q, y) \/ y = t
        /\ Head(Append(q, t)) = IF q = <<>> THEN t ELSE Head(q)
    BY <2>1, AppendQueue
  <2>4. CASE mtxmode
    BY <2>2, <2>4 DEF q
  <2>5. CASE ~mtxmode
    BY <2>3, <2>5 DEF q
  <2> QED BY <2>4, <2>5
<1>5. /\ rq1 \in [Pri -> Seq(Task)] /\ rq1[newpri] = lq
      /\ \A p \in Pri : p # newpri => rq1[p] = rq0[p]
  <2> HIDE DEF rq0, lq
  <2> QED BY <1>2, <1>4
<1>6. /\ k1 \in KernelData /\ SameBut4(k1, kk)
      /\ k1.ready_queue = rq1 /\ k1.ready_primap = pm1
      /\ k1.priority = [kk.priority EXCEPT ![t] = newpri]
      /\ k1.p_schedtsk = s
  <2> pm1 \in SUBSET Pri
    BY <1>1
  <2> HIDE DEF rq1, pm1
  <2> QED BY <1>1, <1>5 DEF KernelData, SameBut4
<1>7. ReadyQueue(k1, R)
  <2> HIDE DEF rq0, rq1, pm0, lq, k1
  <2>1. \A p \in Pri : IsInjective(rq1[p])
    BY <1>2, <1>4, <1>5
  <2>2. pm1 = {p \in Pri : rq1[p] # <<>>}
    BY <1>3, <1>4, <1>5
  <2>3. ASSUME NEW p \in Pri, NEW u \in Task
        PROVE  Contains(rq1[p], u) <=> u \in R /\ k1.priority[u] = p
    <3>1. k1.priority[u] = IF u = t THEN newpri ELSE kk.priority[u]
      BY <1>1, <1>6
    <3>2. Contains(rq0[p], u) <=> u \in R \ {t} /\ kk.priority[u] = p
      BY <1>2
    <3>3. CASE p = newpri
      BY <1>4, <1>5, <3>1, <3>2, <3>3
    <3>4. CASE p # newpri
      BY <1>5, <3>1, <3>2, <3>4
    <3> QED BY <3>3, <3>4
  <2> HIDE DEF pm1
  <2> QED BY <1>6, <2>1, <2>2, <2>3 DEF ReadyQueue
<1>8. /\ search_schedtsk(k1) \in R
      /\ HighestPrecedence(k1, search_schedtsk(k1))
  <2> HIDE DEF k1
  <2> QED BY <1>6, <1>7, SearchSchedtsk
<1>9. /\ Head(rq1[newpri]) \in R /\ k1.priority[Head(rq1[newpri])] = newpri
  <2> HIDE DEF rq1, k1, lq
  <2>1. rq1[newpri] \in Seq(Task) /\ rq1[newpri] # <<>>
    BY <1>4, <1>5
  <2>2. Head(rq1[newpri]) \in Task /\ Contains(rq1[newpri], Head(rq1[newpri]))
    BY <2>1, HeadInQueue
  <2> QED BY <1>6, <1>7, <2>2 DEF ReadyQueue
<1>10. k2 = [k1 EXCEPT !.p_schedtsk = next]
  <2>1. k1.p_schedtsk = s /\ k1.ready_queue = rq1
    BY <1>6
  <2> QED BY <2>1 DEF change_priority
<1>11. next \in Task \cup {NULL}
  <2> HIDE DEF k1, rq1
  <2> QED BY <1>1, <1>8, <1>9
<1>12. /\ k2 \in KernelData /\ SameBut4(k2, kk) /\ k2.p_schedtsk = next
       /\ k2.ready_queue = rq1 /\ k2.ready_primap = pm1
       /\ k2.priority = k1.priority
  <2> HIDE DEF k1, k2, rq1, pm1, next
  <2> QED BY <1>6, <1>10, <1>11 DEF KernelData, SameBut4
<1>13. ReadyQueue(k2, R) /\ \A u : HighestPrecedence(k1, u) => HighestPrecedence(k2, u)
  <2> HIDE DEF k1, k2, rq1, pm1
  <2> QED BY <1>6, <1>7, <1>12, SameQueues
<1>14. ASSUME kk.dspflg, Scheduled(kk, R) PROVE Scheduled(k2, R)
  <2>1. s \in R /\ HighestPrecedence(kk, s) /\ s # NULL
    BY <1>14, TaskAssumption DEF Scheduled
  <2> DEFINE ps == kk.priority[s]
  <2>2. /\ rq[ps] # <<>> /\ Head(rq[ps]) = s
        /\ \A p \in Pri : p < ps => rq[p] = <<>>
        /\ ps \in Pri /\ ps \in Int
    BY <1>0, <1>1, <2>1 DEF HighestPrecedence
  <2>7. \A p \in Pri : p < ps => rq0[p] = <<>>
    BY <1>2, <2>2
  <2>8. s # t => rq0[ps] # <<>> /\ Head(rq0[ps]) = s
    <3> HIDE DEF rq0, rq
    <3> QED BY <1>2, <2>2
  <2>9. \A p \in Pri : p < newpri /\ newpri <= ps => p < ps /\ p # newpri
    <3> SUFFICES ASSUME NEW p \in Pri, p < newpri, newpri <= ps
                 PROVE  p < ps /\ p # newpri
      OBVIOUS
    <3>1. p \in Int /\ newpri \in Int /\ ps \in Int
      BY <1>0, <2>2
    <3> HIDE DEF ps
    <3> QED BY <3>1
  <2>10. \A p \in Pri : p < ps /\ ~(newpri <= ps) => p # newpri
    <3> HIDE DEF ps
    <3> QED BY <1>0, <2>2
  <2>11. ~(newpri <= ps) => ps # newpri
    <3> HIDE DEF ps
    <3> QED BY <1>0, <2>2
  <2>3. CASE s = t /\ newpri >= oldpri
    <3> HIDE DEF k1
    <3>1. k2.p_schedtsk = search_schedtsk(k1)
      BY <1>12, <1>14, <2>3
    <3> HIDE DEF k2
    <3> QED BY <1>8, <1>13, <3>1, TaskAssumption DEF Scheduled
  <2>4. CASE s = t /\ ~(newpri >= oldpri)
    <3>1. k2.p_schedtsk = t
      BY <1>12, <2>4
    <3>2. rq0[newpri] = <<>> /\ \A p \in Pri : p < newpri => rq0[p] = <<>> /\ p # newpri
      <4>1. newpri < ps /\ newpri <= ps
        <5>1. ~(newpri >= ps)
          BY <2>4
        <5> HIDE DEF ps
        <5> QED BY <1>0, <2>2, <5>1
      <4> HIDE DEF rq0, ps
      <4> QED BY <4>1, <2>7, <2>9
    <3>3. k1.priority[t] = newpri
      BY <1>1, <1>6
    <3> HIDE DEF rq0, rq1, k1, k2, lq
    <3>4. HighestPrecedence(k1, t)
      BY <1>4, <1>5, <1>6, <3>2, <3>3 DEF HighestPrecedence
    <3> QED BY <3>1, <3>4, <1>13, TaskAssumption DEF Scheduled
  <2>5. CASE s # t /\ newpri <= kk.priority[s]
    <3> DEFINE h == Head(rq1[newpri])
    <3>1. k2.p_schedtsk = h
      BY <1>12, <1>14, <2>5
    <3>2. \A p \in Pri : p < newpri => rq0[p] = <<>> /\ p # newpri
      BY <2>5, <2>7, <2>9
    <3> HIDE DEF rq0, rq1, k1, k2, lq
    <3>3. HighestPrecedence(k1, h)
      BY <1>4, <1>5, <1>6, <1>9, <3>2 DEF HighestPrecedence
    <3> QED BY <3>1, <3>3, <1>9, <1>13, TaskAssumption DEF Scheduled
  <2>6. CASE s # t /\ ~(newpri <= kk.priority[s])
    <3>1. k2.p_schedtsk = s
      BY <1>12, <2>6
    <3>2. /\ rq0[ps] # <<>> /\ Head(rq0[ps]) = s /\ ps # newpri
          /\ \A p \in Pri : p < ps => rq0[p] = <<>> /\ p # newpri
      <4> HIDE DEF rq0
      <4> QED BY <2>6, <2>7, <2>8, <2>10, <2>11
    <3>3. k1.priority[s] = ps
      BY <1>1, <1>6, <2>6, <2>1
    <3> HIDE DEF rq0, rq1, k1, k2, lq
    <3>4. HighestPrecedence(k1, s)
      BY <1>5, <1>6, <3>2, <3>3, <2>2 DEF HighestPrecedence
    <3> QED BY <3>1, <3>4, <2>1, <1>13, TaskAssumption DEF Scheduled
  <2> QED BY <2>3, <2>4, <2>5, <2>6
<1>15. ~kk.dspflg => k2.p_schedtsk = kk.p_schedtsk
  BY <1>12
<1> QED BY <1>6, <1>12, <1>13, <1>14, <1>15

-----------------------------------------------------------------------------
(* Queues in the order of priorities. *)

\* The tasks of a queue are in the order of their priorities.
Sorted(kk, q) ==
    \A i, j \in DOMAIN q : i < j => kk.priority[q[i]] <= kk.priority[q[j]]

\* A task inserted behind those of its own and of higher priorities keeps the
\* order.
LEMMA SortedInsert ==
  ASSUME NEW kk \in KernelData, NEW q \in Seq(Task), NEW r \in Seq(Task),
         NEW t \in Task, NEW i \in 1 .. Len(q) + 1, Inserted(r, q, t, i),
         Sorted(kk, q),
         \A j \in 1 .. i - 1 : kk.priority[q[j]] <= kk.priority[t],
         i <= Len(q) => kk.priority[t] < kk.priority[q[i]]
  PROVE  Sorted(kk, r)
<1> SUFFICES ASSUME NEW a \in DOMAIN r, NEW b \in DOMAIN r, a < b
             PROVE  kk.priority[r[a]] <= kk.priority[r[b]]
  BY DEF Sorted
<1>1. /\ Len(r) = Len(q) + 1 /\ DOMAIN r = 1 .. Len(q) + 1 /\ DOMAIN q = 1 .. Len(q)
      /\ Len(q) \in Nat
      /\ \A j \in 1 .. Len(q) + 1 :
            r[j] = IF j < i THEN q[j] ELSE IF j = i THEN t ELSE q[j - 1]
  BY DEF Inserted
<1>2. \A u \in Task : kk.priority[u] \in Int
  BY PriAssumption DEF KernelData, Pri
<1>3. \A j \in 1 .. Len(q) : kk.priority[q[j]] \in Int
  BY <1>1, <1>2
<1>4. \A j, l \in 1 .. Len(q) : j < l => kk.priority[q[j]] <= kk.priority[q[l]]
  BY <1>1 DEF Sorted
<1>5. \A j \in i .. Len(q) : kk.priority[t] < kk.priority[q[j]]
  <2> SUFFICES ASSUME NEW j \in i .. Len(q) PROVE kk.priority[t] < kk.priority[q[j]]
    OBVIOUS
  <2>1. i \in 1 .. Len(q) /\ j \in 1 .. Len(q) /\ kk.priority[t] < kk.priority[q[i]]
    BY <1>1
  <2>2. kk.priority[q[i]] <= kk.priority[q[j]]
    BY <1>3, <1>4, <2>1
  <2>3. /\ kk.priority[t] \in Int /\ kk.priority[q[i]] \in Int
        /\ kk.priority[q[j]] \in Int
    BY <1>2, <1>3, <2>1
  <2> QED BY <2>1, <2>2, <2>3
<1>6. CASE b < i
  BY <1>1, <1>4, <1>6
<1>7. CASE b = i
  BY <1>1, <1>7
<1>8. CASE b > i
  <2>1. b - 1 \in 1 .. Len(q) /\ r[b] = q[b - 1] /\ b - 1 \in i .. Len(q)
    BY <1>1, <1>8
  <2>2. CASE a < i
    BY <1>1, <1>4, <2>1, <2>2
  <2>3. CASE a = i
    <3>1. r[a] = t
      BY <1>1, <2>3
    <3> QED BY <1>2, <1>3, <1>5, <2>1, <3>1
  <2>4. CASE a > i
    <3>1. a - 1 \in 1 .. Len(q) /\ r[a] = q[a - 1] /\ a - 1 < b - 1
      BY <1>1, <2>4
    <3> QED BY <1>4, <2>1, <3>1
  <2> QED BY <1>1, <2>2, <2>3, <2>4
<1> QED BY <1>1, <1>6, <1>7, <1>8

\* A queue in order from which a task is taken is in order.
LEMMA SortedRemove ==
  ASSUME NEW kk, NEW q \in Seq(Task), NEW r \in Seq(Task), NEW t,
         NEW i \in 1 .. Len(q), Removed(r, q, t, i), Sorted(kk, q)
  PROVE  Sorted(kk, r)
<1> SUFFICES ASSUME NEW a \in DOMAIN r, NEW b \in DOMAIN r, a < b
             PROVE  kk.priority[r[a]] <= kk.priority[r[b]]
  BY DEF Sorted
<1> DEFINE old(j) == IF j < i THEN j ELSE j + 1
<1>1. /\ DOMAIN r = 1 .. Len(r) /\ DOMAIN q = 1 .. Len(q) /\ Len(r) = Len(q) - 1
      /\ Len(q) \in Nat /\ Len(r) \in Nat
  BY DEF Removed
<1>2. \A j \in 1 .. Len(r) : old(j) \in DOMAIN q /\ r[j] = q[old(j)]
  BY <1>1 DEF Removed
<1>3. old(a) < old(b)
  BY <1>1
<1> HIDE DEF old
<1> QED BY <1>1, <1>2, <1>3 DEF Sorted

\* Nothing but the wait queues differs.
SameButQueues(k1, kk) ==
    /\ k1.tstat = kk.tstat /\ k1.bpriority = kk.bpriority
    /\ k1.priority = kk.priority
    /\ k1.actque = kk.actque /\ k1.wupque = kk.wupque
    /\ k1.raster = kk.raster /\ k1.enater = kk.enater
    /\ k1.p_lastmtx = kk.p_lastmtx /\ k1.tmevtb = kk.tmevtb
    /\ k1.wobj = kk.wobj /\ k1.ready_queue = kk.ready_queue
    /\ k1.ready_primap = kk.ready_primap /\ k1.p_schedtsk = kk.p_schedtsk
    /\ k1.p_loctsk = kk.p_loctsk /\ k1.p_runtsk = kk.p_runtsk
    /\ k1.enadsp = kk.enadsp /\ k1.dspflg = kk.dspflg

\* queue_insert_tpri finds that place.
LEMMA QueueInsertTpri ==
  ASSUME NEW kk \in KernelData, NEW q \in Seq(Task), NEW t \in Task
  PROVE  LET r == queue_insert_tpri(kk, q, t) IN
         /\ r \in Seq(Task)
         /\ \E i \in 1 .. Len(q) + 1 :
               /\ Inserted(r, q, t, i)
               /\ \A j \in 1 .. i - 1 : kk.priority[q[j]] <= kk.priority[t]
               /\ i <= Len(q) => kk.priority[t] < kk.priority[q[i]]
<1> DEFINE r == queue_insert_tpri(kk, q, t)
           I == {j \in 1 .. Len(q) : kk.priority[t] < kk.priority[q[j]]}
<1>1. \A u \in Task : kk.priority[u] \in Int
  BY PriAssumption DEF KernelData, Pri
<1>2. Len(q) \in Nat /\ \A j \in 1 .. Len(q) : q[j] \in Task
  OBVIOUS
<1>3. ASSUME I = {}
      PROVE  /\ r \in Seq(Task)
      /\ \E l \in 1 .. Len(q) + 1 :
            /\ Inserted(r, q, t, l)
            /\ \A j \in 1 .. l - 1 : kk.priority[q[j]] <= kk.priority[t]
            /\ l <= Len(q) => kk.priority[t] < kk.priority[q[l]]
  <2>1. r = Append(q, t)
    BY <1>3 DEF queue_insert_tpri, SelectInSeq
  <2>2. \A j \in 1 .. (Len(q) + 1) - 1 : kk.priority[q[j]] <= kk.priority[t]
    BY <1>1, <1>2, <1>3
  <2> HIDE DEF r
  <2>3. r \in Seq(Task) /\ Inserted(r, q, t, Len(q) + 1)
    BY <1>2, <2>1 DEF Inserted
  <2> QED BY <1>2, <2>2, <2>3
<1>4. ASSUME I # {}
      PROVE  /\ r \in Seq(Task)
      /\ \E l \in 1 .. Len(q) + 1 :
            /\ Inserted(r, q, t, l)
            /\ \A j \in 1 .. l - 1 : kk.priority[q[j]] <= kk.priority[t]
            /\ l <= Len(q) => kk.priority[t] < kk.priority[q[l]]
  <2> DEFINE i == Min(I)
  <2>1. i \in I /\ \A j \in I : i <= j
    <3>1. I \in SUBSET (1 .. Len(q))
      OBVIOUS
    <3> HIDE DEF I
    <3> QED BY <1>2, <1>4, <3>1, FirstPlace
  <2>2. r = InsertAt(q, i, t)
    <3>1. SelectInSeq(q, LAMBDA u : kk.priority[t] < kk.priority[u]) = i
      BY <1>4 DEF SelectInSeq
    <3>2. i # 0
      BY <2>1
    <3> QED BY <3>1, <3>2 DEF queue_insert_tpri
  <2> HIDE DEF i, r
  <2>3. i \in 1 .. Len(q) /\ kk.priority[t] < kk.priority[q[i]]
    BY <2>1
  <2>4. r \in Seq(Task) /\ Inserted(r, q, t, i)
    BY <2>2, <2>3, InsertAtProperties DEF Inserted
  <2>5. \A j \in 1 .. i - 1 : kk.priority[q[j]] <= kk.priority[t]
    <3> SUFFICES ASSUME NEW j \in 1 .. i - 1, ~(kk.priority[q[j]] <= kk.priority[t])
                 PROVE  FALSE
      OBVIOUS
    <3>1. j \in 1 .. Len(q) /\ j < i
      BY <1>2, <2>3
    <3>2. kk.priority[q[j]] \in Int /\ kk.priority[t] \in Int
      BY <1>1, <1>2, <3>1
    <3>3. j \in I
      BY <3>1, <3>2
    <3> QED BY <2>1, <2>3, <3>1, <3>3
  <2> QED BY <1>2, <2>3, <2>4, <2>5
<1> HIDE DEF r, I
<1>5. /\ r \in Seq(Task)
      /\ \E l \in 1 .. Len(q) + 1 :
            /\ Inserted(r, q, t, l)
            /\ \A j \in 1 .. l - 1 : kk.priority[q[j]] <= kk.priority[t]
            /\ l <= Len(q) => kk.priority[t] < kk.priority[q[l]]
  BY <1>3, <1>4
<1> QED BY <1>5 DEF r

\* wobj_queue_insert links a task in the queue of an object, which stays in
\* order.
LEMMA WobjQueueInsert ==
  ASSUME NEW kk \in KernelData, NEW w \in Wobj, NEW t \in Task
  PROVE  LET k1 == wobj_queue_insert(kk, w, t)
             q  == kk.wait_queue[w]
             r  == k1.wait_queue[w]
         IN  /\ k1 \in KernelData /\ SameButQueues(k1, kk)
             /\ \A v \in Wobj \ {w} : k1.wait_queue[v] = kk.wait_queue[v]
             /\ IsInjective(q) /\ ~Contains(q, t) =>
                   /\ r # <<>> /\ IsInjective(r)
                   /\ \A u \in Task : Contains(r, u) <=> Contains(q, u) \/ u = t
             /\ w \in TA_TPRI /\ Sorted(kk, q) => Sorted(kk, r)
<1> DEFINE k1 == wobj_queue_insert(kk, w, t)
           q  == kk.wait_queue[w]
           r  == IF w \in TA_TPRI THEN queue_insert_tpri(kk, q, t) ELSE Append(q, t)
<1>1. q \in Seq(Task)
  BY DEF KernelData
<1>2. k1 = [kk EXCEPT !.wait_queue[w] = r]
  BY DEF wobj_queue_insert
<1>3. /\ r \in Seq(Task)
      /\ \E i \in 1 .. Len(q) + 1 : Inserted(r, q, t, i)
      /\ w \in TA_TPRI /\ Sorted(kk, q) => Sorted(kk, r)
  <2> HIDE DEF q
  <2>1. CASE w \in TA_TPRI
    <3>1. /\ r \in Seq(Task)
          /\ \E i \in 1 .. Len(q) + 1 :
               /\ Inserted(r, q, t, i)
               /\ \A j \in 1 .. i - 1 : kk.priority[q[j]] <= kk.priority[t]
               /\ i <= Len(q) => kk.priority[t] < kk.priority[q[i]]
      BY <1>1, <2>1, QueueInsertTpri
    <3> HIDE DEF r
    <3> QED BY <1>1, <3>1, SortedInsert
  <2>2. CASE w \notin TA_TPRI
    <3>1. r = Append(q, t)
      BY <2>2
    <3>2. r \in Seq(Task) /\ Inserted(r, q, t, Len(q) + 1) /\ Len(q) \in Nat
      BY <1>1, <3>1 DEF Inserted
    <3> HIDE DEF r
    <3> QED BY <2>2, <3>2
  <2> QED BY <2>1, <2>2
<1> HIDE DEF r
<1>4. k1 \in KernelData /\ SameButQueues(k1, kk) /\ k1.wait_queue[w] = r
      /\ \A v \in Wobj \ {w} : k1.wait_queue[v] = kk.wait_queue[v]
  <2> DEFINE wq == [kk.wait_queue EXCEPT ![w] = r]
  <2> HIDE DEF k1
  <2>1. k1 \in KernelData
    <3>1. k1 = [kk EXCEPT !.wait_queue = wq]
      BY <1>2
    <3>2. wq \in [Wobj -> Seq(Task)]
      BY <1>3 DEF KernelData
    <3> HIDE DEF wq
    <3> QED BY <3>1, <3>2 DEF KernelData
  <2>2. k1.wait_queue[w] = r /\ \A v \in Wobj \ {w} : k1.wait_queue[v] = kk.wait_queue[v]
    BY <1>2 DEF KernelData
  <2>3. SameButQueues(k1, kk)
    BY <1>2 DEF KernelData, SameButQueues
  <2> QED BY <2>1, <2>2, <2>3
<1>5. IsInjective(q) /\ ~Contains(q, t) =>
         /\ r # <<>> /\ IsInjective(r)
         /\ \A u \in Task : Contains(r, u) <=> Contains(q, u) \/ u = t
  <2> HIDE DEF q
  <2> QED BY <1>1, <1>3, InsertedQueue
<1> HIDE DEF k1
<1> QED BY <1>3, <1>4, <1>5 DEF k1

\* queue_delete takes a task out of the wait queue it is in, if any.
LEMMA WaitQueueDelete ==
  ASSUME NEW kk \in KernelData, NEW t \in Task
  PROVE  LET k1 == [kk EXCEPT !.wait_queue = queue_delete(@, t)] IN
         /\ k1 \in KernelData /\ SameButQueues(k1, kk)
         /\ \A w \in Wobj :
               LET q == kk.wait_queue[w]
                   r == k1.wait_queue[w]
               IN  /\ IsInjective(q) =>
                         /\ IsInjective(r)
                         /\ \A u \in Task : Contains(r, u) <=> Contains(q, u) /\ u # t
                   /\ \A k2 : Sorted(k2, q) => Sorted(k2, r)
                   /\ ~Contains(q, t) => r = q
<1> DEFINE wq == queue_delete(kk.wait_queue, t)
           k1 == [kk EXCEPT !.wait_queue = wq]
<1>1. kk.wait_queue \in [Wobj -> Seq(Task)]
  BY DEF KernelData
<1>2. ASSUME NEW w \in Wobj
      PROVE  /\ wq[w] = RemoveFirst(kk.wait_queue[w], t) /\ wq[w] \in Seq(Task)
             /\ ~Contains(kk.wait_queue[w], t) => wq[w] = kk.wait_queue[w]
             /\ \A k2 : Sorted(k2, kk.wait_queue[w]) => Sorted(k2, wq[w])
  <2> DEFINE q == kk.wait_queue[w]
             r == RemoveFirst(q, t)
  <2>1. wq[w] = r /\ q \in Seq(Task)
    BY <1>1 DEF queue_delete
  <2>2. ~Contains(q, t) => r = q
    BY <2>1 DEF RemoveFirst, Contains
  <2>3. Contains(q, t) => /\ r \in Seq(Task)
                          /\ \E i \in 1 .. Len(q) : Removed(r, q, t, i)
    <3> HIDE DEF q
    <3> QED BY <2>1, RemoveFirstAt DEF Removed
  <2>4. r \in Seq(Task) /\ \A k2 : Sorted(k2, q) => Sorted(k2, r)
    <3> HIDE DEF q, r
    <3> QED BY <2>1, <2>2, <2>3, SortedRemove
  <2> QED BY <2>1, <2>2, <2>4
<1>3. wq \in [Wobj -> Seq(Task)]
  <2>1. wq = [w \in Wobj |-> RemoveFirst(kk.wait_queue[w], t)]
    BY <1>1 DEF queue_delete
  <2> HIDE DEF wq
  <2> QED BY <1>2, <2>1
<1> HIDE DEF wq
<1>4. k1 \in KernelData /\ SameButQueues(k1, kk) /\ k1.wait_queue = wq
  <2>1. k1 \in KernelData
    BY <1>3 DEF KernelData
  <2>2. k1.wait_queue = wq
    BY DEF KernelData
  <2>3. SameButQueues(k1, kk)
    BY DEF KernelData, SameButQueues
  <2> QED BY <2>1, <2>2, <2>3
<1> HIDE DEF k1
<1>5. ASSUME NEW w \in Wobj, IsInjective(kk.wait_queue[w])
      PROVE  /\ IsInjective(wq[w])
             /\ \A u \in Task : Contains(wq[w], u) <=> Contains(kk.wait_queue[w], u) /\ u # t
  BY <1>1, <1>2, <1>5, RemoveFirstProperties
<1> QED BY <1>2, <1>4, <1>5 DEF k1, wq

-----------------------------------------------------------------------------
(* What the calls maintain of the wait queues. *)

\* wobj_change_priority moves only tasks that wait in the queue of a WOBJCB;
\* one that waits in another queue (RDTQ, RPDQ) waits in order of arrival.
OthersByArrival(kk) ==
    \A t \in Task :
        TSTAT_WAIT_WOBJ(kk.tstat[t]) /\ ~TSTAT_WAIT_WOBJCB(kk.tstat[t]) =>
           kk.wobj[t] \notin TA_TPRI

QueuesOK(kk) == WaitQueues(kk) /\ OthersByArrival(kk)

\* No task waits for an object that did not, or for another one.
NoNewWaits(k1, kk) ==
    \A t \in Task : TSTAT_WAIT_WOBJ(k1.tstat[t]) =>
        /\ k1.tstat[t] \cap WaitWobj = kk.tstat[t] \cap WaitWobj
        /\ k1.wobj[t] = kk.wobj[t]

\* The waits for objects are the same.
SameWaits(k1, kk) ==
    /\ k1.wait_queue = kk.wait_queue /\ k1.wobj = kk.wobj
    /\ k1.priority = kk.priority
    /\ \A u \in Task : k1.tstat[u] \cap WaitWobj = kk.tstat[u] \cap WaitWobj

\* Task t does not wait, or no longer, and the others wait as before.
Released(k1, kk, t) ==
    /\ k1.wait_queue = wait_dequeue_wobj(kk, t).wait_queue
    /\ k1.wobj = kk.wobj
    /\ ~TSTAT_WAIT_WOBJ(k1.tstat[t])
    /\ \A u \in Task \ {t} :
          /\ k1.tstat[u] \cap WaitWobj = kk.tstat[u] \cap WaitWobj
          /\ k1.priority[u] = kk.priority[u]

\* WaitQueues with the order as a predicate on a queue.
LEMMA WaitQueuesSorted ==
  ASSUME NEW kk \in KernelData
  PROVE  WaitQueues(kk) <=>
            \A w \in Wobj :
               /\ \A t \in Task :
                     Contains(kk.wait_queue[w], t) <=>
                        TSTAT_WAIT_WOBJ(kk.tstat[t]) /\ kk.wobj[t] = w
               /\ IsInjective(kk.wait_queue[w])
               /\ w \in TA_TPRI => Sorted(kk, kk.wait_queue[w])
BY DEF WaitQueues, Sorted

\* The kind of a wait is in the flags for the objects.
LEMMA WaitKind ==
  ASSUME NEW ts, NEW su, ts \cap WaitWobj = su \cap WaitWobj
  PROVE  /\ TSTAT_WAIT_WOBJ(ts) <=> TSTAT_WAIT_WOBJ(su)
         /\ TSTAT_WAIT_WOBJCB(ts) <=> TSTAT_WAIT_WOBJCB(su)
BY DEF TSTAT_WAIT_WOBJ, TSTAT_WAIT_WOBJCB, WaitWobj

\* A queue whose tasks keep their priorities stays in order.
LEMMA SameOrder ==
  ASSUME NEW kk, NEW k1, NEW q \in Seq(Task), Sorted(kk, q),
         \A u \in Task : Contains(q, u) => k1.priority[u] = kk.priority[u]
  PROVE  Sorted(k1, q)
<1>1. \A j \in DOMAIN q : q[j] \in Task /\ Contains(q, q[j])
  BY DEF Contains
<1> QED BY <1>1 DEF Sorted

LEMMA QueuesSame ==
  ASSUME NEW kk \in KernelData, NEW k1 \in KernelData, SameWaits(k1, kk),
         QueuesOK(kk)
  PROVE  QueuesOK(k1) /\ NoNewWaits(k1, kk)
<1>1. \A u \in Task :
         /\ TSTAT_WAIT_WOBJ(k1.tstat[u]) <=> TSTAT_WAIT_WOBJ(kk.tstat[u])
         /\ TSTAT_WAIT_WOBJCB(k1.tstat[u]) <=> TSTAT_WAIT_WOBJCB(kk.tstat[u])
  BY WaitKind DEF SameWaits
<1>2. WaitQueues(k1)
  BY <1>1 DEF QueuesOK, WaitQueues, SameWaits
<1>3. OthersByArrival(k1)
  BY <1>1 DEF QueuesOK, OthersByArrival, SameWaits
<1> QED BY <1>2, <1>3 DEF QueuesOK, NoNewWaits, SameWaits

LEMMA QueuesReleased ==
  ASSUME NEW kk \in KernelData, NEW k1 \in KernelData, NEW t \in Task,
         Released(k1, kk, t), QueuesOK(kk)
  PROVE  QueuesOK(k1) /\ NoNewWaits(k1, kk)
<1>1. /\ ~TSTAT_WAIT_WOBJ(k1.tstat[t]) /\ k1.wobj = kk.wobj
      /\ \A u \in Task \ {t} :
         /\ TSTAT_WAIT_WOBJ(k1.tstat[u]) <=> TSTAT_WAIT_WOBJ(kk.tstat[u])
         /\ TSTAT_WAIT_WOBJCB(k1.tstat[u]) <=> TSTAT_WAIT_WOBJCB(kk.tstat[u])
         /\ k1.priority[u] = kk.priority[u]
  BY WaitKind DEF Released
<1>2. ASSUME NEW w \in Wobj
      PROVE  /\ \A u \in Task : Contains(k1.wait_queue[w], u) <=>
                                   Contains(kk.wait_queue[w], u) /\ u # t
             /\ IsInjective(k1.wait_queue[w])
             /\ w \in TA_TPRI => Sorted(kk, k1.wait_queue[w])
  <2> DEFINE k2 == [kk EXCEPT !.wait_queue = queue_delete(@, t)]
  <2>1. /\ IsInjective(kk.wait_queue[w])
        /\ w \in TA_TPRI => Sorted(kk, kk.wait_queue[w])
        /\ ~TSTAT_WAIT_WOBJ(kk.tstat[t]) => ~Contains(kk.wait_queue[w], t)
    BY WaitQueuesSorted DEF QueuesOK
  <2>2. CASE TSTAT_WAIT_WOBJ(kk.tstat[t])
    <3>1. k1.wait_queue = k2.wait_queue
      BY <2>2 DEF Released, wait_dequeue_wobj
    <3>2. /\ IsInjective(k2.wait_queue[w])
          /\ \A u \in Task : Contains(k2.wait_queue[w], u) <=>
                                Contains(kk.wait_queue[w], u) /\ u # t
          /\ Sorted(kk, kk.wait_queue[w]) => Sorted(kk, k2.wait_queue[w])
      BY <2>1, WaitQueueDelete
    <3> HIDE DEF k2
    <3> QED BY <2>1, <3>1, <3>2
  <2>3. CASE ~TSTAT_WAIT_WOBJ(kk.tstat[t])
    <3>1. k1.wait_queue = kk.wait_queue
      BY <2>3 DEF Released, wait_dequeue_wobj
    <3> QED BY <2>1, <2>3, <3>1
  <2> QED BY <2>2, <2>3
<1>3. WaitQueues(k1)
  <2> SUFFICES ASSUME NEW w \in Wobj
               PROVE  /\ \A u \in Task :
                            Contains(k1.wait_queue[w], u) <=>
                               TSTAT_WAIT_WOBJ(k1.tstat[u]) /\ k1.wobj[u] = w
                      /\ IsInjective(k1.wait_queue[w])
                      /\ w \in TA_TPRI => Sorted(k1, k1.wait_queue[w])
    BY WaitQueuesSorted
  <2>1. \A u \in Task : Contains(kk.wait_queue[w], u) <=>
                           TSTAT_WAIT_WOBJ(kk.tstat[u]) /\ kk.wobj[u] = w
    BY WaitQueuesSorted DEF QueuesOK
  <2>2. \A u \in Task : Contains(k1.wait_queue[w], u) <=>
                           TSTAT_WAIT_WOBJ(k1.tstat[u]) /\ k1.wobj[u] = w
    BY <1>1, <1>2, <2>1
  <2>3. ASSUME w \in TA_TPRI PROVE Sorted(k1, k1.wait_queue[w])
    <3>1. k1.wait_queue[w] \in Seq(Task)
      BY DEF KernelData
    <3> QED BY <1>1, <1>2, <2>3, <3>1, SameOrder
  <2> QED BY <1>2, <2>2, <2>3
<1>4. OthersByArrival(k1)
  BY <1>1 DEF QueuesOK, OthersByArrival
<1>5. NoNewWaits(k1, kk)
  BY <1>1 DEF NoNewWaits, Released
<1> QED BY <1>3, <1>4, <1>5 DEF QueuesOK

\* A task that waited for nothing is linked in the queue of object w.
LEMMA QueuesLinked ==
  ASSUME NEW kk \in KernelData, NEW k0 \in KernelData, NEW t \in Task,
         NEW w \in Wobj, QueuesOK(kk), ~TSTAT_WAIT_WOBJ(kk.tstat[t]),
         k0.wait_queue = kk.wait_queue, k0.wobj = kk.wobj,
         k0.priority = kk.priority,
         \A u \in Task \ {t} : k0.tstat[u] \cap WaitWobj = kk.tstat[u] \cap WaitWobj,
         TSTAT_WAIT_WOBJ(k0.tstat[t]),
         TSTAT_WAIT_WOBJCB(k0.tstat[t]) \/ w \notin TA_TPRI
  PROVE  LET k1 == [wobj_queue_insert(k0, w, t) EXCEPT !.wobj[t] = w] IN
         /\ k1 \in KernelData /\ QueuesOK(k1)
         /\ k1.wobj = [kk.wobj EXCEPT ![t] = w]
         /\ k1.wait_queue = wobj_queue_insert(k0, w, t).wait_queue
         /\ SameButQueues([k1 EXCEPT !.wobj = kk.wobj], k0)
<1> DEFINE k2 == wobj_queue_insert(k0, w, t)
           k1 == [k2 EXCEPT !.wobj[t] = w]
<1>1. /\ k2 \in KernelData /\ SameButQueues(k2, k0)
      /\ \A v \in Wobj \ {w} : k2.wait_queue[v] = k0.wait_queue[v]
      /\ IsInjective(k0.wait_queue[w]) /\ ~Contains(k0.wait_queue[w], t) =>
            /\ IsInjective(k2.wait_queue[w])
            /\ \A u \in Task : Contains(k2.wait_queue[w], u) <=>
                                  Contains(k0.wait_queue[w], u) \/ u = t
      /\ w \in TA_TPRI /\ Sorted(k0, k0.wait_queue[w]) => Sorted(k0, k2.wait_queue[w])
  BY WobjQueueInsert
<1> HIDE DEF k2
<1>2. /\ k1 \in KernelData /\ k1.wait_queue = k2.wait_queue
      /\ k1.wobj = [kk.wobj EXCEPT ![t] = w]
      /\ k1.tstat = k0.tstat /\ k1.priority = kk.priority
  BY <1>1 DEF KernelData, SameButQueues
<1>3. SameButQueues([k1 EXCEPT !.wobj = kk.wobj], k0)
  BY <1>1 DEF KernelData, SameButQueues
<1> HIDE DEF k1
<1>4. \A u \in Task \ {t} :
         /\ TSTAT_WAIT_WOBJ(k1.tstat[u]) <=> TSTAT_WAIT_WOBJ(kk.tstat[u])
         /\ TSTAT_WAIT_WOBJCB(k1.tstat[u]) <=> TSTAT_WAIT_WOBJCB(kk.tstat[u])
         /\ k1.wobj[u] = kk.wobj[u]
  <2>1. \A u \in Task \ {t} : k1.wobj[u] = kk.wobj[u]
    BY <1>2 DEF KernelData
  <2> QED BY <1>2, <2>1, WaitKind
<1>5. /\ TSTAT_WAIT_WOBJ(k1.tstat[t]) /\ k1.wobj[t] = w
      /\ TSTAT_WAIT_WOBJCB(k1.tstat[t]) \/ w \notin TA_TPRI
  BY <1>2 DEF KernelData
<1>6. \A v \in Wobj :
         /\ \A u \in Task : Contains(kk.wait_queue[v], u) <=>
                               TSTAT_WAIT_WOBJ(kk.tstat[u]) /\ kk.wobj[u] = v
         /\ IsInjective(kk.wait_queue[v])
         /\ v \in TA_TPRI => Sorted(kk, kk.wait_queue[v])
  BY WaitQueuesSorted DEF QueuesOK
<1>7. ASSUME NEW v \in Wobj
      PROVE  /\ \A u \in Task :
                   Contains(k1.wait_queue[v], u) <=>
                      TSTAT_WAIT_WOBJ(k1.tstat[u]) /\ k1.wobj[u] = v
             /\ IsInjective(k1.wait_queue[v])
             /\ v \in TA_TPRI => Sorted(k1, k1.wait_queue[v])
  <2>1. CASE v = w
    <3>1. ~Contains(kk.wait_queue[w], t) /\ IsInjective(kk.wait_queue[w])
      BY <1>6
    <3>2. /\ IsInjective(k1.wait_queue[w])
          /\ \A u \in Task : Contains(k1.wait_queue[w], u) <=>
                                Contains(kk.wait_queue[w], u) \/ u = t
      BY <1>1, <1>2, <3>1
    <3>3. w \in TA_TPRI => Sorted(k1, k1.wait_queue[w])
      BY <1>1, <1>2, <1>6 DEF Sorted
    <3> QED BY <1>4, <1>5, <1>6, <2>1, <3>2, <3>3
  <2>2. CASE v # w
    <3>1. k1.wait_queue[v] = kk.wait_queue[v]
      BY <1>1, <1>2, <2>2
    <3>2. v \in TA_TPRI => Sorted(k1, k1.wait_queue[v])
      BY <1>2, <1>6, <3>1 DEF Sorted
    <3> QED BY <1>4, <1>5, <1>6, <2>2, <3>1, <3>2
  <2> QED BY <2>1, <2>2
<1>8. WaitQueues(k1)
  BY <1>2, <1>7, WaitQueuesSorted
<1>9. OthersByArrival(k1)
  BY <1>4, <1>5 DEF QueuesOK, OthersByArrival
<1> QED BY <1>2, <1>3, <1>8, <1>9 DEF QueuesOK, k1, k2

\* A task that is not runnable and has its priority changed goes to its new
\* place in the queue it waits in.
LEMMA ChangePriorityWaiting ==
  ASSUME NEW kk \in KernelData, NEW t \in Task, NEW newpri \in Pri, NEW mtxmode,
         ~TSTAT_RUNNABLE(kk.tstat[t])
  PROVE  LET k0 == [kk EXCEPT !.priority[t] = newpri]
             k1 == change_priority(kk, t, newpri, mtxmode)
         IN  /\ k1 \in KernelData /\ SameButQueues(k1, k0)
             /\ QueuesOK(kk) => QueuesOK(k1) /\ NoNewWaits(k1, kk)
<1> DEFINE k0 == [kk EXCEPT !.priority[t] = newpri]
           k1 == change_priority(kk, t, newpri, mtxmode)
           kd == [k0 EXCEPT !.wait_queue = queue_delete(@, t)]
           w  == kk.wobj[t]
<1>1. /\ k0 \in KernelData /\ k0.wait_queue = kk.wait_queue /\ k0.wobj = kk.wobj
      /\ k0.tstat = kk.tstat
      /\ \A u \in Task \ {t} : k0.priority[u] = kk.priority[u]
  BY DEF KernelData
<1>2. w \in TA_TPRI => w \in Wobj
  BY WobjAssumption
<1>3. k1 = IF TSTAT_WAIT_WOBJCB(kk.tstat[t]) /\ w \in TA_TPRI
           THEN wobj_queue_insert(kd, w, t) ELSE k0
  BY DEF change_priority, wobj_change_priority
<1> HIDE DEF k0, k1, w
<1>4. ASSUME QueuesOK(kk), NEW v \in Wobj
      PROVE  /\ \A u \in Task : Contains(k0.wait_queue[v], u) <=>
                                   TSTAT_WAIT_WOBJ(kk.tstat[u]) /\ kk.wobj[u] = v
             /\ IsInjective(k0.wait_queue[v])
             /\ v \in TA_TPRI => Sorted(kk, k0.wait_queue[v])
  BY <1>1, <1>4, WaitQueuesSorted DEF QueuesOK
<1>5. CASE ~(TSTAT_WAIT_WOBJCB(kk.tstat[t]) /\ w \in TA_TPRI)
  <2>1. k1 = k0
    BY <1>3, <1>5
  <2>2. k1 \in KernelData /\ SameButQueues(k1, k0)
    BY <1>1, <2>1 DEF SameButQueues
  <2>3. ASSUME QueuesOK(kk) PROVE QueuesOK(k1)
    <3>1. ASSUME NEW v \in Wobj, v \in TA_TPRI PROVE Sorted(k0, k0.wait_queue[v])
      <4>1. ~Contains(k0.wait_queue[v], t)
        BY <1>4, <1>5, <2>3, <3>1 DEF QueuesOK, OthersByArrival, w
      <4>2. k0.wait_queue[v] \in Seq(Task)
        BY <1>1 DEF KernelData
      <4>3. \A u \in Task : Contains(k0.wait_queue[v], u) => k0.priority[u] = kk.priority[u]
        BY <1>1, <4>1
      <4> QED BY <1>4, <2>3, <3>1, <4>2, <4>3, SameOrder
    <3>2. WaitQueues(k0)
      BY <1>1, <1>4, <2>3, <3>1, WaitQueuesSorted
    <3>3. OthersByArrival(k0)
      BY <1>1, <2>3 DEF QueuesOK, OthersByArrival
    <3> QED BY <2>1, <3>2, <3>3 DEF QueuesOK
  <2>4. NoNewWaits(k1, kk)
    BY <1>1, <2>1 DEF NoNewWaits
  <2> QED BY <2>2, <2>3, <2>4 DEF k0, k1
<1>6. CASE TSTAT_WAIT_WOBJCB(kk.tstat[t]) /\ w \in TA_TPRI
  <2>1. k1 = wobj_queue_insert(kd, w, t) /\ w \in Wobj
    BY <1>2, <1>3, <1>6
  <2>2. /\ kd \in KernelData /\ SameButQueues(kd, k0)
        /\ \A v \in Wobj :
              /\ IsInjective(k0.wait_queue[v]) =>
                    /\ IsInjective(kd.wait_queue[v])
                    /\ \A u \in Task : Contains(kd.wait_queue[v], u) <=>
                                          Contains(k0.wait_queue[v], u) /\ u # t
              /\ \A k2 : Sorted(k2, k0.wait_queue[v]) => Sorted(k2, kd.wait_queue[v])
              /\ ~Contains(k0.wait_queue[v], t) => kd.wait_queue[v] = k0.wait_queue[v]
    BY <1>1, WaitQueueDelete
  <2> HIDE DEF kd
  <2>3. /\ k1 \in KernelData /\ SameButQueues(k1, kd)
        /\ \A v \in Wobj \ {w} : k1.wait_queue[v] = kd.wait_queue[v]
        /\ IsInjective(kd.wait_queue[w]) /\ ~Contains(kd.wait_queue[w], t) =>
              /\ IsInjective(k1.wait_queue[w])
              /\ \A u \in Task : Contains(k1.wait_queue[w], u) <=>
                                    Contains(kd.wait_queue[w], u) \/ u = t
        /\ w \in TA_TPRI /\ Sorted(kd, kd.wait_queue[w]) => Sorted(kd, k1.wait_queue[w])
    BY <2>1, <2>2, WobjQueueInsert
  <2>4. SameButQueues(k1, k0) /\ k1.tstat = kk.tstat /\ k1.wobj = kk.wobj
        /\ k1.priority = k0.priority /\ kd.priority = k0.priority
    BY <1>1, <2>2, <2>3 DEF SameButQueues
  <2>5. ASSUME QueuesOK(kk) PROVE QueuesOK(k1)
    <3>1. ASSUME NEW v \in Wobj
          PROVE  /\ \A u \in Task : Contains(k1.wait_queue[v], u) <=>
                                       TSTAT_WAIT_WOBJ(k1.tstat[u]) /\ k1.wobj[u] = v
                 /\ IsInjective(k1.wait_queue[v])
                 /\ v \in TA_TPRI => Sorted(k1, k1.wait_queue[v])
      <4>1. TSTAT_WAIT_WOBJ(kk.tstat[t])
        BY <1>6 DEF TSTAT_WAIT_WOBJ, TSTAT_WAIT_WOBJCB, WaitWobj
      <4>2. /\ \A u \in Task : Contains(kd.wait_queue[v], u) <=>
                     /\ TSTAT_WAIT_WOBJ(kk.tstat[u]) /\ kk.wobj[u] = v /\ u # t
            /\ IsInjective(kd.wait_queue[v]) /\ kd.wait_queue[v] \in Seq(Task)
        BY <1>4, <2>2, <2>5 DEF KernelData
      <4>3. v \in TA_TPRI => Sorted(kd, kd.wait_queue[v])
        <5>1. \A u \in Task : Contains(kd.wait_queue[v], u) => kd.priority[u] = kk.priority[u]
          BY <1>1, <2>4, <4>2
        <5> QED BY <1>4, <2>2, <2>5, <4>2, <5>1, SameOrder
      <4>4. CASE v = w
        <5>1. ~Contains(kd.wait_queue[w], t) /\ IsInjective(kd.wait_queue[w])
          BY <4>2, <4>4
        <5>2. /\ IsInjective(k1.wait_queue[w])
              /\ \A u \in Task : Contains(k1.wait_queue[w], u) <=>
                                    Contains(kd.wait_queue[w], u) \/ u = t
          BY <2>3, <5>1
        <5>3. w \in TA_TPRI => Sorted(k1, k1.wait_queue[w])
          BY <2>3, <2>4, <4>3, <4>4 DEF Sorted
        <5>4. w = kk.wobj[t]
          BY DEF w
        <5> QED BY <2>4, <4>1, <4>2, <4>4, <5>2, <5>3, <5>4
      <4>5. CASE v # w
        <5>1. k1.wait_queue[v] = kd.wait_queue[v] /\ kk.wobj[t] # v
          BY <2>3, <4>5 DEF w
        <5>2. v \in TA_TPRI => Sorted(k1, k1.wait_queue[v])
          BY <2>4, <4>3, <5>1 DEF Sorted
        <5> QED BY <2>4, <4>2, <5>1, <5>2
      <4> QED BY <4>4, <4>5
    <3>2. WaitQueues(k1)
      BY <2>3, <3>1, WaitQueuesSorted
    <3>3. OthersByArrival(k1)
      BY <2>4, <2>5 DEF QueuesOK, OthersByArrival
    <3> QED BY <3>2, <3>3 DEF QueuesOK
  <2>6. NoNewWaits(k1, kk)
    BY <2>4 DEF NoNewWaits
  <2> QED BY <2>3, <2>4, <2>5, <2>6 DEF k0, k1
<1> QED BY <1>5, <1>6

\* The first task of a queue is taken out of it by its removal, and is in no
\* other queue.
LEMMA FirstOfQueue ==
  ASSUME NEW kk \in KernelData, NEW w \in Wobj, QueuesOK(kk),
         kk.wait_queue[w] # <<>>
  PROVE  LET t == Head(kk.wait_queue[w]) IN
         /\ t \in Task /\ TSTAT_WAIT_WOBJ(kk.tstat[t]) /\ kk.wobj[t] = w
         /\ queue_delete(kk.wait_queue, t) = [kk.wait_queue EXCEPT ![w] = Tail(@)]
<1> DEFINE q == kk.wait_queue[w]
           t == Head(q)
<1>1. kk.wait_queue \in [Wobj -> Seq(Task)] /\ q \in Seq(Task) /\ q # <<>>
  BY DEF KernelData
<1>2. t \in Task /\ Contains(q, t)
  <2> HIDE DEF q
  <2>1. 1 \in 1 .. Len(q) /\ q[1] = t /\ t \in Task
    BY <1>1
  <2> QED BY <2>1 DEF Contains
<1>3. \A v \in Wobj :
         /\ IsInjective(kk.wait_queue[v])
         /\ \A u \in Task : Contains(kk.wait_queue[v], u) <=>
                               TSTAT_WAIT_WOBJ(kk.tstat[u]) /\ kk.wobj[u] = v
  BY DEF QueuesOK, WaitQueues
<1>4. TSTAT_WAIT_WOBJ(kk.tstat[t]) /\ kk.wobj[t] = w
  BY <1>2, <1>3
<1>5. RemoveFirst(q, t) = Tail(q)
  <2> DEFINE r == RemoveFirst(q, t)
  <2>1. IsInjective(q)
    BY <1>3
  <2>2. q[1] = t /\ Len(q) \in Nat /\ Len(q) >= 1
    BY <1>1
  <2> HIDE DEF q, t
  <2>3. /\ r \in Seq(Task) /\ Len(r) = Len(q) - 1
        /\ \E i \in 1 .. Len(q) :
              /\ q[i] = t
              /\ \A j \in 1 .. Len(r) : r[j] = IF j < i THEN q[j] ELSE q[j + 1]
    BY <1>1, <1>2, RemoveFirstAt
  <2> HIDE DEF r
  <2>4. \A j \in 1 .. Len(r) : r[j] = q[j + 1]
    <3>1. PICK i \in 1 .. Len(q) :
             /\ q[i] = t
             /\ \A j \in 1 .. Len(r) : r[j] = IF j < i THEN q[j] ELSE q[j + 1]
      BY <2>3
    <3>2. i = 1
      BY <1>1, <2>1, <2>2, <3>1 DEF IsInjective
    <3> QED BY <3>1, <3>2
  <2>5. /\ Tail(q) \in Seq(Task) /\ Len(Tail(q)) = Len(q) - 1
        /\ \A j \in 1 .. Len(Tail(q)) : Tail(q)[j] = q[j + 1]
    BY <1>1, <2>2
  <2>6. r = Tail(q)
    BY <2>3, <2>4, <2>5, SeqEqual
  <2> QED BY <2>6 DEF r
<1>6. \A v \in Wobj \ {w} : RemoveFirst(kk.wait_queue[v], t) = kk.wait_queue[v]
  <2> SUFFICES ASSUME NEW v \in Wobj \ {w}
               PROVE  RemoveFirst(kk.wait_queue[v], t) = kk.wait_queue[v]
    OBVIOUS
  <2>1. ~Contains(kk.wait_queue[v], t)
    BY <1>2, <1>3, <1>4
  <2> HIDE DEF t
  <2> QED BY <2>1 DEF RemoveFirst, Contains
<1>7. queue_delete(kk.wait_queue, t) = [v \in Wobj |-> RemoveFirst(kk.wait_queue[v], t)]
  BY <1>1 DEF queue_delete
<1>8. [kk.wait_queue EXCEPT ![w] = Tail(@)]
         = [v \in Wobj |-> IF v = w THEN Tail(q) ELSE kk.wait_queue[v]]
  BY <1>1
<1> HIDE DEF t, q
<1>9. queue_delete(kk.wait_queue, t) = [kk.wait_queue EXCEPT ![w] = Tail(@)]
  <2>1. \A v \in Wobj : RemoveFirst(kk.wait_queue[v], t)
                           = IF v = w THEN Tail(q) ELSE kk.wait_queue[v]
    BY <1>5, <1>6 DEF q
  <2> QED BY <1>7, <1>8, <2>1
<1> QED BY <1>2, <1>4, <1>9 DEF q, t

\* What the wait queues depend on is the same.
SameQueueFields(k1, kk) ==
    /\ k1.wait_queue = kk.wait_queue /\ k1.wobj = kk.wobj
    /\ k1.tstat = kk.tstat /\ k1.priority = kk.priority

\* The operators on the ready queue leave the wait queues alone.
LEMMA SchedKeepsQueues ==
  ASSUME NEW kk \in KernelData, NEW t
  PROVE  /\ SameQueueFields(make_runnable(kk, t), kk)
         /\ SameQueueFields(make_non_runnable(kk, t), kk)
         /\ SameQueueFields(set_dspflg(kk), kk)
         /\ SameQueueFields(rotate_ready_queue(kk, t), kk)
<1>1. SameQueueFields(make_runnable(kk, t), kk)
  BY DEF make_runnable, KernelData, SameQueueFields
<1>2. SameQueueFields(make_non_runnable(kk, t), kk)
  BY DEF make_non_runnable, KernelData, SameQueueFields
<1>3. SameQueueFields(set_dspflg(kk), kk)
  BY DEF set_dspflg, KernelData, SameQueueFields
<1>4. SameQueueFields(rotate_ready_queue(kk, t), kk)
  BY DEF rotate_ready_queue, KernelData, SameQueueFields
<1> QED BY <1>1, <1>2, <1>3, <1>4

-----------------------------------------------------------------------------
(* Releasing all the tasks of a queue. *)

\* Releasing the tasks of a queue one by one.
LEMMA ReleasesInOrder ==
  ASSUME NEW kk, NEW q \in Seq(Task)
  PROVE  \E a : /\ a[0] = kk
                /\ \A n \in 1 .. Len(q) : a[n] = wait_complete(a[n - 1], q[n])
                /\ a[Len(q)] = FoldLeft(wait_complete, kk, q)
<1> DEFINE N == Len(q)
           Body(g, s) == IF s = {} THEN kk
                         ELSE wait_complete(g[s \ {Max(s)}], q[Max(s)])
           Is(g, n) == g = [s \in SUBSET (1 .. n) |-> Body(g, s)]
           T == {n \in 0 .. N : ~ \E g : Is(g, n)}
           iter == CHOOSE g : Is(g, N)
           a == [n \in 0 .. N |-> iter[1 .. n]]
<1>1. N \in Nat
  OBVIOUS
<1>2. FoldLeft(wait_complete, kk, q) = iter[1 .. N]
  <2>1. FoldLeft(wait_complete, kk, q) =
          (CHOOSE g : g = [s \in SUBSET (DOMAIN q) |->
                IF s = {} THEN kk ELSE wait_complete(g[s \ {Max(s)}], q[Max(s)])])[DOMAIN q]
    BY Zenon DEF FoldLeft, MapThenFoldSet
  <2>2. DOMAIN q = 1 .. N
    OBVIOUS
  <2> QED BY <2>1, <2>2
<1>3. \A n \in 0 .. N : \E g : Is(g, n)
  <2> SUFFICES ASSUME T # {} PROVE FALSE
    OBVIOUS
  <2>1. T \in SUBSET Nat
    BY <1>1
  <2> DEFINE n == Min(T)
  <2>2. n \in T /\ \A m \in T : n <= m
    <3> HIDE DEF T
    <3> QED BY <2>1, SmallestNat
  <2>3. n \in 0 .. N /\ ~ \E g : Is(g, n)
    BY <2>2
  <2> HIDE DEF n
  <2>4. n # 0
    <3>1. Is([s \in SUBSET (1 .. 0) |-> kk], 0)
      OBVIOUS
    <3> QED BY <2>3, <3>1
  <2>5. PICK g : Is(g, n - 1)
    <3>1. n - 1 \in 0 .. N /\ ~(n <= n - 1)
      BY <2>3, <2>4
    <3> QED BY <2>2, <3>1
  <2> DEFINE h == [s \in SUBSET (1 .. n) |->
                      IF n \in s THEN wait_complete(g[s \ {n}], q[n]) ELSE g[s]]
  <2>6. ASSUME NEW s \in SUBSET (1 .. n) PROVE h[s] = Body(h, s)
    <3>1. n \in Nat /\ n - 1 \in Nat
      BY <2>3, <2>4
    <3>2. CASE n \in s
      <4>1. Max(s) = n
        BY <3>1, <3>2, GreatestOf
      <4>2. s \ {n} \in SUBSET (1 .. n) /\ n \notin s \ {n} /\ s # {}
        BY <3>2
      <4>3. h[s \ {n}] = g[s \ {n}]
        BY <4>2
      <4>4. h[s] = wait_complete(g[s \ {n}], q[n])
        BY <3>2
      <4> HIDE DEF h
      <4> QED BY <4>1, <4>2, <4>3, <4>4
    <3>3. CASE n \notin s
      <4>1. s \in SUBSET (1 .. (n - 1))
        BY <3>1, <3>3
      <4>2. h[s] = Body(g, s)
        <5>1. h[s] = g[s]
          BY <3>3
        <5> HIDE DEF h, Body
        <5> QED BY <2>5, <4>1, <5>1
      <4>3. s \ {Max(s)} \in SUBSET (1 .. n) /\ n \notin s \ {Max(s)}
        BY <3>3
      <4>4. h[s \ {Max(s)}] = g[s \ {Max(s)}]
        BY <4>3
      <4> HIDE DEF h
      <4> QED BY <4>2, <4>4
    <3> QED BY <3>2, <3>3
  <2>7. Is(h, n)
    <3>1. h = [s \in SUBSET (1 .. n) |-> h[s]]
      OBVIOUS
    <3> HIDE DEF h, Body
    <3> QED BY <2>6, <3>1
  <2> QED BY <2>3, <2>7
<1>4. Is(iter, N)
  <2> HIDE DEF Is
  <2> QED BY <1>1, <1>3
<1> HIDE DEF iter
<1>5. iter[1 .. 0] = kk
  <2>1. 1 .. 0 = {} /\ 1 .. 0 \in SUBSET (1 .. N)
    OBVIOUS
  <2> QED BY <1>4, <2>1
<1>6. ASSUME NEW n \in 1 .. N
      PROVE  iter[1 .. n] = wait_complete(iter[1 .. (n - 1)], q[n])
  <2>1. /\ 1 .. n \in SUBSET (1 .. N) /\ 1 .. n # {} /\ (1 .. n) \ {n} = 1 .. (n - 1)
        /\ n \in Nat /\ n \in 1 .. n /\ 1 .. n \in SUBSET (1 .. n)
    <3>1. n \in Nat /\ 1 <= n /\ n <= N
      BY <1>1
    <3>2. n \in 1 .. n
      BY <3>1
    <3>5. 1 .. n # {}
      BY <3>2
    <3>3. (1 .. n) \ {n} = 1 .. (n - 1)
      BY <3>1
    <3>4. \A i \in 1 .. n : i \in 1 .. N
      BY <1>1, <3>1
    <3> QED BY <3>1, <3>2, <3>3, <3>4, <3>5
  <2>2. Max(1 .. n) = n
    BY <2>1, GreatestOf
  <2>3. iter[1 .. n] = Body(iter, 1 .. n)
    <3> HIDE DEF Body
    <3> QED BY <1>4, <2>1
  <2> QED BY <2>1, <2>2, <2>3
<1>7. a[0] = kk /\ a[N] = FoldLeft(wait_complete, kk, q)
  BY <1>1, <1>2, <1>5
<1>8. \A n \in 1 .. N : a[n] = wait_complete(a[n - 1], q[n])
  <2> SUFFICES ASSUME NEW n \in 1 .. N PROVE a[n] = wait_complete(a[n - 1], q[n])
    OBVIOUS
  <2>1. n \in 0 .. N /\ n - 1 \in 0 .. N
    BY <1>1
  <2>2. a[n] = iter[1 .. n] /\ a[n - 1] = iter[1 .. (n - 1)]
    BY <2>1
  <2> QED BY <1>6, <2>2
<1> HIDE DEF a
<1> QED BY <1>7, <1>8

-----------------------------------------------------------------------------
(* The invariant. *)

\* No task awaits or holds a mutex.
NoMutexes ==
    \A t \in Task : ~TSTAT_WAIT_MTX(k.tstat[t]) /\ k.p_lastmtx[t] = <<>>

\* A task the boot has yet to initialize is still dormant.
BootOK ==
    ctx = "INIT" =>
        \A i \in 1 .. Len(torder_table) :
            i > booted => TSTAT_DORMANT(k.tstat[torder_table[i]])

IInv ==
    /\ TypeOK
    /\ ReadyQueueOK /\ SchedtskOK /\ NoLostDispatch /\ DspflgOK
    /\ TerminationPending /\ NoLostWakeup /\ TmevtbOK /\ DormantOK
    /\ NoMutexes /\ BootOK

\* The ready queue and p_schedtsk are right.
Consistent(kk) ==
    /\ kk \in KernelData
    /\ ReadyQueue(kk, Runnable(kk))
    /\ kk.dspflg => Scheduled(kk, Runnable(kk))
    /\ ~kk.dspflg => kk.p_schedtsk = kk.p_runtsk /\ kk.p_runtsk \in Runnable(kk)

\* The fields of one task fit together.
TaskOK(kk, t) ==
    /\ ~TSTAT_WAIT_MTX(kk.tstat[t]) /\ kk.p_lastmtx[t] = <<>>
    /\ kk.raster[t] =>
          /\ TSTAT_RUNNABLE(kk.tstat[t])
          /\ kk.enater[t] => t = kk.p_runtsk /\ ~kk.dspflg
    /\ TSTAT_WAIT_SLP(kk.tstat[t]) => ~kk.wupque[t]
    /\ kk.tmevtb[t] => TSTAT_WAITING(kk.tstat[t])
    /\ "DLY" \in kk.tstat[t] => kk.tmevtb[t]
    /\ TSTAT_DORMANT(kk.tstat[t]) =>
          /\ ~kk.actque[t] /\ ~kk.wupque[t] /\ ~kk.raster[t] /\ kk.enater[t]
          /\ kk.bpriority[t] = ipriority[t] /\ kk.priority[t] = ipriority[t]

TasksOK(kk) == \A t \in Task : TaskOK(kk, t)

LEMMA KernelPart == IInv => Consistent(k) /\ TasksOK(k)
<1> SUFFICES ASSUME IInv PROVE Consistent(k) /\ TasksOK(k)
  OBVIOUS
<1>1. Consistent(k)
  <2>1. ~k.dspflg => k.p_schedtsk = k.p_runtsk /\ k.p_runtsk \in Runnable(k)
    BY DEF IInv, TypeOK, KernelData, SchedtskOK, DspflgOK, Runnable
  <2> QED BY <2>1 DEF IInv, TypeOK, ReadyQueueOK, SchedtskOK, Consistent
<1>2. TasksOK(k)
  BY DEF IInv, NoMutexes, TerminationPending, NoLostWakeup, TmevtbOK, DormantOK,
         TasksOK, TaskOK
<1> QED BY <1>1, <1>2

-----------------------------------------------------------------------------
(* Task states. *)

LEMMA TstatFacts ==
  /\ \A ts \in Tstat :
        /\ TSTAT_RUNNABLE(ts) => ts = TS_RUNNABLE
        /\ TSTAT_DORMANT(ts) => ~TSTAT_RUNNABLE(ts) /\ ~TSTAT_WAITING(ts)
        /\ TSTAT_WAITING(ts) => ~TSTAT_RUNNABLE(ts)
        /\ TSTAT_SUSPENDED(ts) => ~TSTAT_RUNNABLE(ts) /\ ~TSTAT_DORMANT(ts)
        /\ TSTAT_WAIT_SLP(ts) => TSTAT_WAITING(ts)
        /\ TSTAT_WAIT_MTX(ts) => TSTAT_WAIT_WOBJ(ts)
        /\ TSTAT_WAIT_WOBJCB(ts) => TSTAT_WAIT_WOBJ(ts)
  /\ \A ts \in {TS_RUNNABLE, TS_DORMANT, TS_SUSPENDED} :
        /\ ts \in Tstat /\ ~TSTAT_WAITING(ts)
        /\ ~TSTAT_WAIT_WOBJ(ts) /\ ~TSTAT_WAIT_MTX(ts)
        /\ ~TSTAT_WAIT_SLP(ts) /\ "DLY" \notin ts
  /\ \A ts \in {TS_WAITING_SLP, TS_WAITING_DLY} :
        /\ ts \in Tstat /\ TSTAT_WAITING(ts)
        /\ ~TSTAT_WAIT_WOBJ(ts) /\ ~TSTAT_WAIT_MTX(ts)
        /\ ~TSTAT_RUNNABLE(ts) /\ ~TSTAT_DORMANT(ts)
  /\ ~TSTAT_WAIT_SLP(TS_WAITING_DLY) /\ "DLY" \notin TS_WAITING_SLP
  /\ TSTAT_RUNNABLE(TS_RUNNABLE) /\ ~TSTAT_DORMANT(TS_RUNNABLE)
  /\ ~TSTAT_RUNNABLE(TS_SUSPENDED) /\ ~TSTAT_DORMANT(TS_SUSPENDED)
  /\ ~TSTAT_RUNNABLE(TS_DORMANT)
BY DEF Tstat, TSTAT_RUNNABLE, TSTAT_DORMANT, TSTAT_WAITING, TSTAT_SUSPENDED,
       TSTAT_WAIT_SLP, TSTAT_WAIT_MTX, TSTAT_WAIT_WOBJ, TSTAT_WAIT_WOBJCB,
       WaitFactor, WaitWobj, WaitWobjcb, TS_RUNNABLE, TS_DORMANT,
       TS_SUSPENDED, TS_WAITING_SLP, TS_WAITING_DLY

-----------------------------------------------------------------------------
(* What a service call does to the kernel's data. *)

\* The scheduler's own fields are the same.
SameSched(k1, kk) ==
    /\ k1.ready_queue = kk.ready_queue /\ k1.ready_primap = kk.ready_primap
    /\ k1.p_schedtsk = kk.p_schedtsk /\ k1.p_runtsk = kk.p_runtsk
    /\ k1.enadsp = kk.enadsp /\ k1.dspflg = kk.dspflg

\* The fields of task u that TaskOK is about are the same.
SameTask(k1, kk, u) ==
    /\ k1.tstat[u] = kk.tstat[u] /\ k1.bpriority[u] = kk.bpriority[u]
    /\ k1.priority[u] = kk.priority[u] /\ k1.actque[u] = kk.actque[u]
    /\ k1.wupque[u] = kk.wupque[u] /\ k1.raster[u] = kk.raster[u]
    /\ k1.enater[u] = kk.enater[u] /\ k1.p_lastmtx[u] = kk.p_lastmtx[u]
    /\ k1.tmevtb[u] = kk.tmevtb[u]

\* Only the fields of task t differ, the ready queue apart.
OnlyTask(k1, kk, t) == \A u \in Task \ {t} : SameTask(k1, kk, u)

LEMMA OtherTask ==
  ASSUME NEW kk, NEW k1, NEW t \in Task, TasksOK(kk), OnlyTask(k1, kk, t),
         k1.p_runtsk = kk.p_runtsk, k1.dspflg = kk.dspflg, TaskOK(k1, t)
  PROVE  TasksOK(k1)
<1> SUFFICES ASSUME NEW u \in Task \ {t} PROVE TaskOK(k1, u)
  BY DEF TasksOK
<1>1. TaskOK(kk, u) /\ SameTask(k1, kk, u)
  BY DEF TasksOK, OnlyTask
<1> QED BY <1>1 DEF TaskOK, SameTask

\* A call that neither makes a task runnable nor stops it.
LEMMA Update ==
  ASSUME NEW kk, NEW k0, Consistent(kk),
         k0 \in KernelData, SameSched(k0, kk), k0.priority = kk.priority,
         Runnable(k0) = Runnable(kk)
  PROVE  Consistent(k0)
<1>1. ReadyQueue(k0, Runnable(k0)) /\ (Scheduled(kk, Runnable(kk)) => Scheduled(k0, Runnable(k0)))
  BY SameQueues DEF Consistent, SameSched
<1> QED BY <1>1 DEF Consistent, SameSched

\* A call that makes t runnable.
LEMMA Wake ==
  ASSUME NEW kk, NEW k0, NEW t \in Task, Consistent(kk),
         k0 \in KernelData, SameSched(k0, kk), k0.priority = kk.priority,
         t \notin Runnable(kk), Runnable(k0) = Runnable(kk) \cup {t}
  PROVE  LET k1 == make_runnable(k0, t) IN
         Consistent(k1) /\ SameBut3(k1, k0)
<1> DEFINE k1 == make_runnable(k0, t)
           R == Runnable(kk)
<1>1. /\ ReadyQueue(k0, R)
      /\ Scheduled(kk, R) => Scheduled(k0, R)
  BY SameQueues DEF Consistent, SameSched
<1>2. R \in SUBSET Task /\ t \in Task \ R
  BY DEF Runnable
<1> HIDE DEF R, k1
<1>3. /\ k1 \in KernelData /\ SameBut3(k1, k0)
      /\ ReadyQueue(k1, R \cup {t})
      /\ k0.dspflg /\ Scheduled(k0, R) => Scheduled(k1, R \cup {t})
      /\ ~k0.dspflg => k1.p_schedtsk = k0.p_schedtsk
  BY <1>1, <1>2, MakeRunnable DEF k1
<1>4. Runnable(k1) = R \cup {t}
  BY <1>3 DEF SameBut3, Runnable, R
<1>5. k1.dspflg = kk.dspflg /\ k0.dspflg = kk.dspflg /\ k1.p_runtsk = kk.p_runtsk
      /\ k0.p_schedtsk = kk.p_schedtsk
  BY <1>3 DEF SameBut3, SameSched
<1> QED BY <1>1, <1>3, <1>4, <1>5 DEF Consistent, R, k1

\* A call that stops t.
LEMMA Sleep ==
  ASSUME NEW kk, NEW k0, NEW t \in Task, Consistent(kk),
         k0 \in KernelData, SameSched(k0, kk), k0.priority = kk.priority,
         t \in Runnable(kk), Runnable(k0) = Runnable(kk) \ {t},
         t = kk.p_runtsk => kk.dspflg
  PROVE  LET k1 == make_non_runnable(k0, t) IN
         Consistent(k1) /\ SameBut3(k1, k0)
<1> DEFINE k1 == make_non_runnable(k0, t)
           R == Runnable(kk)
<1>1. /\ ReadyQueue(k0, R)
      /\ Scheduled(kk, R) => Scheduled(k0, R)
  BY SameQueues DEF Consistent, SameSched
<1>2. R \in SUBSET Task /\ t \in R
  BY DEF Runnable
<1> HIDE DEF R, k1
<1>3. /\ k1 \in KernelData /\ SameBut3(k1, k0)
      /\ ReadyQueue(k1, R \ {t})
      /\ Scheduled(k0, R) => Scheduled(k1, R \ {t})
      /\ k0.p_schedtsk # t => k1.p_schedtsk = k0.p_schedtsk
  BY <1>1, <1>2, MakeNonRunnable DEF k1
<1>4. Runnable(k1) = R \ {t}
  BY <1>3 DEF SameBut3, Runnable, R
<1>5. k1.dspflg = kk.dspflg /\ k0.dspflg = kk.dspflg /\ k1.p_runtsk = kk.p_runtsk
      /\ k0.p_schedtsk = kk.p_schedtsk
  BY <1>3 DEF SameBut3, SameSched
<1> QED BY <1>1, <1>3, <1>4, <1>5 DEF Consistent, R, k1

-----------------------------------------------------------------------------
(* How a call ends. *)

\* What is left to show of the invariant after a step.
LEMMA KernelPartPrime ==
  ASSUME Consistent(k'), TasksOK(k'), DspflgOK', NoLostDispatch', BootOK',
         ctx' \in {"INIT", "TASK", "INT"}, lock_flag' \in BOOLEAN,
         saved_iipm' \in {"ENAALL", "MASKED"}, pendsv' \in BOOLEAN,
         booted' \in 0 .. Len(torder_table)
  PROVE  IInv'
<1>1. TypeOK' /\ ReadyQueueOK' /\ SchedtskOK'
  BY TaskAssumption DEF Consistent, TypeOK, ReadyQueueOK, SchedtskOK, Runnable
<1>2. TerminationPending' /\ NoLostWakeup' /\ TmevtbOK' /\ DormantOK' /\ NoMutexes'
  BY DEF TasksOK, TaskOK, TerminationPending, NoLostWakeup, TmevtbOK,
         DormantOK, NoMutexes
<1> QED BY <1>1, <1>2 DEF IInv

\* The dispatcher gives the processor to a runnable task.
LEMMA Dispatch ==
  ASSUME NEW kk, Consistent(kk), TasksOK(kk)
  PROVE  LET k1 == dispatch(kk) IN
         /\ Consistent(k1) /\ TasksOK(k1)
         /\ k1.dspflg = kk.dspflg /\ k1.enadsp = kk.enadsp
         /\ k1.p_runtsk = k1.p_schedtsk
         /\ k1.p_runtsk # NULL => k1.p_runtsk \in Runnable(k1)
         /\ k1.p_runtsk = NULL => k1.dspflg
<1> DEFINE k1 == dispatch(kk)
<1>1. /\ k1 \in KernelData /\ k1.p_runtsk = kk.p_schedtsk
      /\ k1.ready_queue = kk.ready_queue /\ k1.ready_primap = kk.ready_primap
      /\ k1.p_schedtsk = kk.p_schedtsk
      /\ k1.enadsp = kk.enadsp /\ k1.dspflg = kk.dspflg
      /\ k1.tstat = kk.tstat /\ k1.priority = kk.priority
      /\ \A u : SameTask(k1, kk, u)
  BY DEF Consistent, KernelData, dispatch, SameTask
<1>2. Runnable(k1) = Runnable(kk)
  BY <1>1 DEF Runnable
<1> HIDE DEF k1
<1>3. Consistent(k1)
  <2>1. /\ ReadyQueue(k1, Runnable(k1))
        /\ Scheduled(kk, Runnable(kk)) => Scheduled(k1, Runnable(k1))
    BY <1>1, <1>2, SameQueues DEF Consistent
  <2> QED BY <1>1, <1>2, <2>1 DEF Consistent
<1>4. TasksOK(k1)
  <2> SUFFICES ASSUME NEW u \in Task PROVE TaskOK(k1, u)
    BY DEF TasksOK
  <2>1. TaskOK(kk, u) /\ SameTask(k1, kk, u)
    BY <1>1 DEF TasksOK
  <2>2. ~kk.dspflg => k1.p_runtsk = kk.p_runtsk
    BY <1>1 DEF Consistent
  <2> QED BY <1>1, <2>1, <2>2 DEF TaskOK, SameTask
<1>5. k1.p_runtsk # NULL => k1.p_runtsk \in Runnable(k1)
  BY <1>1, <1>3 DEF Consistent, Scheduled
<1>6. k1.p_runtsk = NULL => k1.dspflg
  BY <1>1, <1>3, TaskAssumption DEF Consistent, Runnable
<1> QED BY <1>1, <1>3, <1>4, <1>5, <1>6 DEF k1

\* The running task and what it allows are the same.
SameRunning(k1) ==
    k1.p_runtsk = k.p_runtsk /\ k1.dspflg = k.dspflg /\ k1.enadsp = k.enadsp

\* The processor changes hands only where dispatching is or becomes possible.
Steady == ~k.dspflg /\ k'.p_runtsk # k.p_runtsk => k'.dspflg

\* The task that was running is still runnable.
StillRunnable(k1) == k1.p_runtsk # NULL => k1.p_runtsk \in Runnable(k1)

LEMMA EndReturn ==
  ASSUME NEW k1, IInv, ctx # "INIT", Consistent(k1), TasksOK(k1),
         SameRunning(k1), StillRunnable(k1), k1.p_schedtsk = k.p_schedtsk,
         Return(k1)
  PROVE  IInv' /\ Steady
<1>1. k' = k1 /\ UNCHANGED cpu
  BY DEF Return
<1>2. DspflgOK'
  BY <1>1 DEF IInv, DspflgOK, SameRunning, StillRunnable, cpu, Runnable
<1>3. NoLostDispatch'
  BY <1>1 DEF IInv, NoLostDispatch, SameRunning, cpu
<1>4. BootOK'
  BY <1>1 DEF BootOK, cpu
<1>5. Steady
  BY <1>1 DEF Steady, SameRunning
<1> QED BY <1>1, <1>2, <1>3, <1>4, <1>5, KernelPartPrime DEF IInv, TypeOK, cpu

LEMMA EndReturnDispatching ==
  ASSUME NEW k1, IInv, ctx # "INIT", Consistent(k1), TasksOK(k1),
         SameRunning(k1), ctx = "INT" => StillRunnable(k1),
         ReturnDispatching(k1)
  PROVE  IInv' /\ Steady
<1>1. CASE ctx = "TASK"
  <2>1. k' = dispatch(k1) /\ pendsv' = pendsv
        /\ UNCHANGED <<ctx, lock_flag, saved_iipm, booted>>
    BY <1>1 DEF ReturnDispatching, IInv, TypeOK
  <2>2. /\ Consistent(k') /\ TasksOK(k')
        /\ k'.dspflg = k.dspflg /\ k'.enadsp = k.enadsp
        /\ k'.p_runtsk = k'.p_schedtsk
        /\ k'.p_runtsk # NULL => k'.p_runtsk \in Runnable(k')
        /\ k'.p_runtsk = NULL => k'.dspflg
    BY <2>1, Dispatch DEF SameRunning
  <2>3. DspflgOK'
    BY <2>1, <2>2 DEF IInv, DspflgOK, Runnable
  <2>4. NoLostDispatch'
    BY <1>1, <2>1, <2>2 DEF IInv, NoLostDispatch
  <2>5. BootOK'
    BY <2>1 DEF BootOK
  <2>6. Steady
    BY <2>1, <2>2 DEF Steady, SameRunning, Consistent, dispatch
  <2> QED BY <2>1, <2>2, <2>3, <2>4, <2>5, <2>6, KernelPartPrime DEF IInv, TypeOK
<1>2. CASE ctx = "INT"
  <2>1. /\ k' = k1 /\ pendsv' = (pendsv \/ k1.p_runtsk # k1.p_schedtsk)
        /\ UNCHANGED <<ctx, lock_flag, saved_iipm, booted>>
    BY <1>2 DEF ReturnDispatching, IInv, TypeOK
  <2>2. DspflgOK'
    BY <1>2, <2>1 DEF IInv, DspflgOK, SameRunning, StillRunnable, Runnable
  <2>3. k1.p_runtsk # k1.p_schedtsk => k1.dspflg
    BY DEF Consistent
  <2>4. NoLostDispatch'
    BY <1>2, <2>1, <2>3 DEF IInv, NoLostDispatch, DspflgOK, SameRunning
  <2>5. BootOK'
    BY <2>1 DEF BootOK
  <2>6. pendsv' \in BOOLEAN
    BY <2>1 DEF IInv, TypeOK
  <2>7. Steady
    BY <2>1 DEF Steady, SameRunning
  <2> QED BY <2>1, <2>2, <2>4, <2>5, <2>6, <2>7, KernelPartPrime DEF IInv, TypeOK
<1> QED BY <1>1, <1>2 DEF IInv, TypeOK

LEMMA EndExit ==
  ASSUME NEW k1, IInv, ctx = "TASK", Consistent(k1), TasksOK(k1),
         k1.dspflg, k1.enadsp, exit_and_dispatch(k1)
  PROVE  IInv' /\ Steady /\ k'.dspflg
<1>1. /\ k' = dispatch(k1) /\ lock_flag' = FALSE /\ saved_iipm' = "ENAALL"
      /\ UNCHANGED <<ctx, pendsv, booted>>
  BY DEF exit_and_dispatch
<1>2. /\ Consistent(k') /\ TasksOK(k')
      /\ k'.dspflg /\ k'.enadsp
      /\ k'.p_runtsk = k'.p_schedtsk
      /\ k'.p_runtsk # NULL => k'.p_runtsk \in Runnable(k')
  BY <1>1, Dispatch
<1>3. DspflgOK'
  BY <1>1, <1>2 DEF DspflgOK, Runnable
<1>4. NoLostDispatch'
  BY <1>1, <1>2 DEF IInv, NoLostDispatch
<1>5. BootOK'
  BY <1>1 DEF BootOK
<1>6. Steady
  BY <1>2 DEF Steady
<1> QED BY <1>1, <1>2, <1>3, <1>4, <1>5, <1>6, KernelPartPrime DEF IInv, TypeOK

-----------------------------------------------------------------------------
(* Activation and termination. *)

\* The priority of a task that is not in the ready queue does not matter.
LEMMA UnlinkedTask ==
  ASSUME NEW k1, NEW kk, NEW R \in SUBSET Task, NEW t \in Task \ R,
         ReadyQueue(kk, R),
         k1.ready_queue = kk.ready_queue, k1.ready_primap = kk.ready_primap,
         k1.p_schedtsk = kk.p_schedtsk,
         \A u \in Task \ {t} : k1.priority[u] = kk.priority[u],
         \A u \in Task : k1.priority[u] \in Pri
  PROVE  ReadyQueue(k1, R) /\ (Scheduled(kk, R) => Scheduled(k1, R))
<1>1. ReadyQueue(k1, R)
  <2>1. ASSUME NEW p \in Pri, NEW u \in Task
        PROVE  Contains(k1.ready_queue[p], u) <=> u \in R /\ k1.priority[u] = p
    <3>1. Contains(kk.ready_queue[p], u) <=> u \in R /\ kk.priority[u] = p
      BY DEF ReadyQueue
    <3>2. u \in R => k1.priority[u] = kk.priority[u]
      OBVIOUS
    <3> QED BY <3>1, <3>2
  <2> QED BY <2>1 DEF ReadyQueue
<1>2. ASSUME Scheduled(kk, R) PROVE Scheduled(k1, R)
  <2>1. CASE kk.p_schedtsk = NULL
    BY <1>2, <2>1 DEF Scheduled
  <2>2. CASE kk.p_schedtsk # NULL
    <3>1. kk.p_schedtsk \in R /\ HighestPrecedence(kk, kk.p_schedtsk)
      BY <1>2, <2>2 DEF Scheduled
    <3>2. k1.priority[kk.p_schedtsk] = kk.priority[kk.p_schedtsk]
      BY <3>1
    <3>3. HighestPrecedence(k1, kk.p_schedtsk)
      BY <3>1, <3>2 DEF HighestPrecedence
    <3> QED BY <3>1, <3>3, <2>2 DEF Scheduled
  <2> QED BY <2>1, <2>2
<1> QED BY <1>1, <1>2

\* make_dormant resets the fields of one task.
LEMMA MakeDormant ==
  ASSUME NEW kk \in KernelData, NEW t \in Task
  PROVE  LET k1 == make_dormant(kk, t) IN
         /\ k1 \in KernelData /\ SameSched(k1, kk) /\ OnlyTask(k1, kk, t)
         /\ k1.tstat[t] = TS_DORMANT /\ k1.bpriority[t] = ipriority[t]
         /\ k1.priority[t] = ipriority[t] /\ ~k1.wupque[t] /\ ~k1.raster[t]
         /\ k1.enater[t] /\ k1.actque = kk.actque
         /\ k1.tmevtb = kk.tmevtb /\ k1.p_lastmtx = kk.p_lastmtx
<1> DEFINE k1 == make_dormant(kk, t)
<1>1. TS_DORMANT \in Tstat
  BY TstatFacts
<1>2. ipriority[t] \in Pri
  BY PriAssumption
<1>3. k1 \in KernelData
  BY <1>1, <1>2 DEF make_dormant, KernelData
<1>4. SameSched(k1, kk) /\ k1.actque = kk.actque
      /\ k1.tmevtb = kk.tmevtb /\ k1.p_lastmtx = kk.p_lastmtx
  BY DEF make_dormant, KernelData, SameSched
<1>5. /\ k1.tstat[t] = TS_DORMANT /\ k1.bpriority[t] = ipriority[t]
      /\ k1.priority[t] = ipriority[t] /\ ~k1.wupque[t] /\ ~k1.raster[t]
      /\ k1.enater[t]
  BY DEF make_dormant, KernelData
<1>6. OnlyTask(k1, kk, t)
  BY DEF make_dormant, KernelData, OnlyTask, SameTask
<1> QED BY <1>3, <1>4, <1>5, <1>6

\* Activating a dormant task, whatever was left of its request.
LEMMA Activate ==
  ASSUME NEW kk, NEW k0, NEW t \in Task, Consistent(kk),
         k0 \in KernelData, SameSched(k0, kk), OnlyTask(k0, kk, t),
         \A u \in Task \ {t} : TaskOK(kk, u),
         TSTAT_DORMANT(kk.tstat[t]), k0.tstat[t] = kk.tstat[t],
         k0.priority = kk.priority,
         ~k0.raster[t], ~k0.wupque[t], ~k0.tmevtb[t], k0.p_lastmtx[t] = <<>>
  PROVE  LET k1 == make_active(k0, t) IN
         /\ Consistent(k1) /\ TasksOK(k1)
         /\ k1.p_runtsk = kk.p_runtsk /\ k1.dspflg = kk.dspflg
         /\ k1.enadsp = kk.enadsp
         /\ Runnable(k1) = Runnable(kk) \cup {t}
<1> DEFINE k2 == [k0 EXCEPT !.tstat[t] = TS_RUNNABLE]
           k1 == make_runnable(k2, t)
<1>1. /\ k2 \in KernelData /\ SameSched(k2, k0) /\ k2.tstat[t] = TS_RUNNABLE
      /\ \A u \in Task \ {t} : SameTask(k2, k0, u)
      /\ k2.priority = k0.priority /\ k2.raster = k0.raster
      /\ k2.wupque = k0.wupque /\ k2.tmevtb = k0.tmevtb
      /\ k2.p_lastmtx = k0.p_lastmtx
  BY TstatFacts DEF KernelData, SameSched, SameTask
<1> HIDE DEF k2
<1>2. SameSched(k2, kk) /\ OnlyTask(k2, kk, t)
  BY <1>1 DEF SameSched, OnlyTask, SameTask
<1>3. t \notin Runnable(kk) /\ Runnable(k2) = Runnable(kk) \cup {t}
  <2>1. TSTAT_RUNNABLE(TS_RUNNABLE) /\ ~TSTAT_RUNNABLE(kk.tstat[t])
    BY TstatFacts DEF Consistent, KernelData
  <2> QED BY <1>1, <1>2, <2>1 DEF Runnable, OnlyTask, SameTask
<1>4. Consistent(k1) /\ SameBut3(k1, k2)
  BY <1>1, <1>2, <1>3, Wake
<1> HIDE DEF k1
<1>5. /\ k1.p_runtsk = kk.p_runtsk /\ k1.dspflg = kk.dspflg
      /\ k1.enadsp = kk.enadsp /\ Runnable(k1) = Runnable(k2)
  BY <1>2, <1>4 DEF SameBut3, SameSched, Runnable
<1>6. TasksOK(k1)
  <2> SUFFICES ASSUME NEW u \in Task PROVE TaskOK(k1, u)
    BY DEF TasksOK
  <2>1. SameTask(k1, k2, u)
    BY <1>4 DEF SameBut3, SameTask
  <2>2. CASE u = t
    BY <1>1, <2>1, <2>2, TstatFacts DEF TaskOK, SameTask
  <2>3. CASE u # t
    <3>1. TaskOK(kk, u) /\ SameTask(k2, kk, u)
      BY <1>2, <2>3 DEF OnlyTask
    <3> QED BY <1>5, <2>1, <3>1 DEF TaskOK, SameTask
  <2> QED BY <2>2, <2>3
<1> QED BY <1>3, <1>4, <1>5, <1>6 DEF make_active, k1, k2

\* A wait that ends leaves neither the wait queue nor the time events linked,
\* in whichever order the two are unlinked.
Dequeued(k1, kk, t) ==
    /\ SameSched(k1, kk) /\ OnlyTask(k1, kk, t)
    /\ k1.tstat = kk.tstat /\ k1.priority = kk.priority /\ ~k1.tmevtb[t]
    /\ k1.raster = kk.raster /\ k1.enater = kk.enater
    /\ k1.p_lastmtx = kk.p_lastmtx
    /\ k1.wobj = kk.wobj /\ k1.wait_queue = wait_dequeue_wobj(kk, t).wait_queue

LEMMA WaitDequeue ==
  ASSUME NEW kk \in KernelData, NEW t \in Task
  PROVE  LET k1 == wait_dequeue_tmevtb(wait_dequeue_wobj(kk, t), t)
             k2 == wait_dequeue_wobj(wait_dequeue_tmevtb(kk, t), t)
         IN  /\ k1 \in KernelData /\ Dequeued(k1, kk, t)
             /\ k2 \in KernelData /\ Dequeued(k2, kk, t)
<1> DEFINE W(k0) == wait_dequeue_wobj(k0, t)
           T(k0) == wait_dequeue_tmevtb(k0, t)
<1>1. ASSUME NEW k0 \in KernelData
      PROVE  W(k0) \in KernelData /\ SameButQueues(W(k0), k0)
  <2>1. CASE TSTAT_WAIT_WOBJ(k0.tstat[t])
    BY <2>1, WaitQueueDelete DEF wait_dequeue_wobj
  <2>2. CASE ~TSTAT_WAIT_WOBJ(k0.tstat[t])
    BY <2>2 DEF wait_dequeue_wobj, SameButQueues
  <2> QED BY <2>1, <2>2
<1>2. ASSUME NEW k0 \in KernelData
      PROVE  /\ T(k0) \in KernelData /\ SameSched(T(k0), k0)
             /\ OnlyTask(T(k0), k0, t)
             /\ T(k0).tstat = k0.tstat /\ T(k0).priority = k0.priority
             /\ ~T(k0).tmevtb[t] /\ T(k0).raster = k0.raster
             /\ T(k0).enater = k0.enater /\ T(k0).p_lastmtx = k0.p_lastmtx
             /\ T(k0).wobj = k0.wobj /\ T(k0).wait_queue = k0.wait_queue
  BY DEF wait_dequeue_tmevtb, KernelData, SameSched, OnlyTask, SameTask
<1>3. W(T(kk)).wait_queue = W(kk).wait_queue
  <2>1. T(kk).tstat = kk.tstat /\ T(kk).wait_queue = kk.wait_queue /\ T(kk) \in KernelData
    BY <1>2
  <2> HIDE DEF T
  <2>2. \A k0 \in KernelData :
           W(k0).wait_queue = IF TSTAT_WAIT_WOBJ(k0.tstat[t])
                              THEN queue_delete(k0.wait_queue, t) ELSE k0.wait_queue
    BY DEF wait_dequeue_wobj, KernelData
  <2> QED BY <2>1, <2>2
<1>4. W(kk) \in KernelData /\ T(kk) \in KernelData
  BY <1>1, <1>2
<1>5. T(W(kk)) \in KernelData /\ W(T(kk)) \in KernelData
  BY <1>1, <1>2, <1>4
<1> HIDE DEF W, T
<1>6. Dequeued(T(W(kk)), kk, t)
  <2>1. SameButQueues(W(kk), kk)
    BY <1>1
  <2> QED BY <1>2, <1>4, <2>1 DEF SameButQueues, SameSched, OnlyTask, SameTask,
                                  Dequeued, W
<1>7. Dequeued(W(T(kk)), kk, t)
  <2>1. SameButQueues(W(T(kk)), T(kk))
    BY <1>1, <1>4
  <2> QED BY <1>2, <1>3, <2>1 DEF SameButQueues, SameSched, OnlyTask, SameTask,
                                  Dequeued, W
<1> QED BY <1>5, <1>6, <1>7 DEF W, T

\* task_terminate leaves nothing of the task behind, wherever it was, and
\* starts it again if it was asked to.
LEMMA Terminate ==
  ASSUME NEW kk, NEW t \in Task, Consistent(kk),
         \A u \in Task \ {t} : TaskOK(kk, u),
         kk.p_lastmtx[t] = <<>>,
         kk.tmevtb[t] => TSTAT_WAITING(kk.tstat[t]),
         t = kk.p_runtsk => kk.dspflg
  PROVE  LET k4 == task_terminate(kk, t) IN
         /\ Consistent(k4) /\ TasksOK(k4)
         /\ k4.p_runtsk = kk.p_runtsk /\ k4.dspflg = kk.dspflg
         /\ k4.enadsp = kk.enadsp
         /\ Runnable(kk) \ {t} \subseteq Runnable(k4)
<1> DEFINE ts == kk.tstat[t]
           R == Runnable(kk)
           k1 == IF TSTAT_RUNNABLE(ts) THEN make_non_runnable(kk, t)
                 ELSE IF TSTAT_WAITING(ts)
                 THEN wait_dequeue_tmevtb(wait_dequeue_wobj(kk, t), t)
                 ELSE kk
           k3 == make_dormant(k1, t)
           k0 == [k3 EXCEPT !.actque[t] = FALSE]
           k4 == IF k3.actque[t] THEN make_active(k0, t) ELSE k3
<1>1. task_terminate(kk, t) = k4
  BY DEF task_terminate
<1>2. /\ R \in SUBSET Task /\ (t \in R <=> TSTAT_RUNNABLE(ts)) /\ kk \in KernelData
      /\ ts \in Tstat
  BY DEF Runnable, Consistent, KernelData
<1>3. /\ k1 \in KernelData /\ k1.tstat = kk.tstat /\ k1.priority = kk.priority
      /\ k1.dspflg = kk.dspflg /\ k1.p_runtsk = kk.p_runtsk
      /\ k1.enadsp = kk.enadsp
      /\ \A u \in Task \ {t} : SameTask(k1, kk, u)
      /\ ~k1.tmevtb[t] /\ k1.p_lastmtx[t] = <<>> /\ kk.p_lastmtx[t] = <<>>
      /\ ReadyQueue(k1, R \ {t})
      /\ kk.dspflg => Scheduled(k1, R \ {t})
      /\ ~kk.dspflg => k1.p_schedtsk = kk.p_schedtsk
  <2>1. CASE TSTAT_RUNNABLE(ts)
    <3>1. k1 = make_non_runnable(kk, t)
      BY <2>1
    <3>2. /\ k1 \in KernelData /\ SameBut3(k1, kk)
          /\ ReadyQueue(k1, R \ {t})
          /\ Scheduled(kk, R) => Scheduled(k1, R \ {t})
          /\ kk.p_schedtsk # t => k1.p_schedtsk = kk.p_schedtsk
      <4> HIDE DEF k1, R
      <4> QED BY <1>2, <2>1, <3>1, MakeNonRunnable DEF Consistent, R
    <3>3. ~kk.tmevtb[t]
      BY <1>2, <2>1, TstatFacts
    <3> HIDE DEF k1, R
    <3> QED BY <3>2, <3>3 DEF SameBut3, SameTask, Consistent, R
  <2>2. CASE ~TSTAT_RUNNABLE(ts)
    <3>1. /\ k1 \in KernelData /\ SameSched(k1, kk) /\ k1.priority = kk.priority
          /\ k1.tstat = kk.tstat /\ ~k1.tmevtb[t]
          /\ k1.p_lastmtx = kk.p_lastmtx
          /\ \A u \in Task \ {t} : SameTask(k1, kk, u)
      <4>1. CASE TSTAT_WAITING(ts)
        <5>1. k1 = wait_dequeue_tmevtb(wait_dequeue_wobj(kk, t), t)
          BY <2>2, <4>1
        <5> HIDE DEF k1
        <5> QED BY <1>2, <5>1, WaitDequeue DEF Dequeued, OnlyTask
      <4>2. CASE ~TSTAT_WAITING(ts)
        BY <1>2, <2>2, <4>2 DEF SameSched, SameTask
      <4> QED BY <4>1, <4>2
    <3>2. R \ {t} = R
      BY <1>2, <2>2
    <3> HIDE DEF k1
    <3>3. ReadyQueue(k1, R) /\ (Scheduled(kk, R) => Scheduled(k1, R))
      BY <3>1, SameQueues DEF SameSched, Consistent
    <3> QED BY <3>1, <3>2, <3>3 DEF SameSched, Consistent
  <2> QED BY <2>1, <2>2
<1> HIDE DEF k1
<1>4. /\ k3 \in KernelData /\ SameSched(k3, k1)
      /\ k3.tstat[t] = TS_DORMANT /\ k3.bpriority[t] = ipriority[t]
      /\ k3.priority[t] = ipriority[t] /\ ~k3.wupque[t] /\ ~k3.raster[t]
      /\ k3.enater[t] /\ k3.tmevtb = k1.tmevtb /\ k3.p_lastmtx = k1.p_lastmtx
      /\ \A u \in Task \ {t} : SameTask(k3, k1, u)
  BY <1>3, MakeDormant DEF OnlyTask
<1> HIDE DEF k3
<1>5. \A u \in Task \ {t} : SameTask(k3, kk, u)
  BY <1>3, <1>4 DEF SameTask
<1>6. Runnable(k3) = R \ {t}
  BY <1>4, <1>5, TstatFacts DEF Runnable, SameTask
<1>7. Consistent(k3)
  <2>1. ReadyQueue(k3, R \ {t}) /\ (Scheduled(k1, R \ {t}) => Scheduled(k3, R \ {t}))
    <3>1. \A u \in Task \ {t} : k3.priority[u] = k1.priority[u]
      BY <1>4 DEF SameTask
    <3>2. \A u \in Task : k3.priority[u] \in Pri
      BY <1>4 DEF KernelData
    <3>3. R \ {t} \in SUBSET Task /\ t \in Task \ (R \ {t})
      BY <1>2
    <3> HIDE DEF R
    <3> QED BY <1>3, <1>4, <3>1, <3>2, <3>3, UnlinkedTask DEF SameSched
  <2>2. ~kk.dspflg => kk.p_runtsk \in R \ {t}
    BY DEF Consistent
  <2> HIDE DEF R
  <2> QED BY <1>3, <1>4, <1>6, <2>1, <2>2 DEF Consistent, SameSched
<1>8. \A u \in Task \ {t} : TaskOK(k3, u)
  BY <1>3, <1>4, <1>5 DEF TaskOK, SameTask, SameSched
<1>9. k3.p_runtsk = kk.p_runtsk /\ k3.dspflg = kk.dspflg /\ k3.enadsp = kk.enadsp
  BY <1>3, <1>4 DEF SameSched
<1>10. CASE k3.actque[t]
  <2>1. /\ k0 \in KernelData /\ SameSched(k0, k3) /\ OnlyTask(k0, k3, t)
        /\ k0.tstat = k3.tstat /\ k0.priority = k3.priority
        /\ k0.raster = k3.raster /\ k0.wupque = k3.wupque
        /\ k0.tmevtb = k3.tmevtb /\ k0.p_lastmtx = k3.p_lastmtx
    BY <1>4 DEF KernelData, SameSched, OnlyTask, SameTask
  <2>2. TSTAT_DORMANT(k3.tstat[t])
    BY <1>4 DEF TSTAT_DORMANT
  <2> DEFINE k5 == make_active(k0, t)
  <2> HIDE DEF k0
  <2>3. /\ Consistent(k5) /\ TasksOK(k5)
        /\ k5.p_runtsk = k3.p_runtsk /\ k5.dspflg = k3.dspflg
        /\ k5.enadsp = k3.enadsp
        /\ Runnable(k5) = Runnable(k3) \cup {t}
    BY <1>3, <1>4, <1>7, <1>8, <2>1, <2>2, Activate
  <2>4. k4 = k5
    BY <1>10 DEF k0
  <2> HIDE DEF k4, k5
  <2> QED BY <1>1, <1>6, <1>9, <2>3, <2>4
<1>11. CASE ~k3.actque[t]
  <2>1. TaskOK(k3, t)
    BY <1>3, <1>4, <1>11, TstatFacts DEF TaskOK
  <2>2. TasksOK(k3)
    BY <1>8, <2>1 DEF TasksOK
  <2>3. k4 = k3
    BY <1>11
  <2> HIDE DEF k4
  <2> QED BY <1>1, <1>6, <1>7, <1>9, <2>2, <2>3
<1> QED BY <1>10, <1>11

-----------------------------------------------------------------------------
(* The kinds of service calls. *)

\* The caller is a runnable task, and the one that should run.
LEMMA Caller ==
  ASSUME IInv
  PROVE  /\ StillRunnable(k)
         /\ TSKCTX => /\ k.p_runtsk \in Task /\ k.p_runtsk \in Runnable(k)
                      /\ TSTAT_RUNNABLE(k.tstat[k.p_runtsk])
                      /\ k.p_schedtsk = k.p_runtsk /\ ctx = "TASK"
  BY DEF IInv, TypeOK, KernelData, DspflgOK, NoLostDispatch, Runnable, TSKCTX,
         StillRunnable

\* A call that changes the fields of one task and leaves it where it is.
LEMMA FieldUpdate ==
  ASSUME NEW k1, NEW t \in Task, IInv, ctx # "INIT",
         k1 \in KernelData, SameSched(k1, k), OnlyTask(k1, k, t),
         k1.priority = k.priority,
         TSTAT_RUNNABLE(k1.tstat[t]) <=> TSTAT_RUNNABLE(k.tstat[t]),
         TaskOK(k1, t), Return(k1)
  PROVE  IInv' /\ Steady
<1>1. Runnable(k1) = Runnable(k)
  BY DEF Runnable, OnlyTask, SameTask
<1>2. Consistent(k) /\ TasksOK(k)
  BY KernelPart
<1>3. Consistent(k1)
  BY <1>1, <1>2, Update
<1>4. TasksOK(k1)
  BY <1>2, OtherTask DEF SameSched
<1>5. SameRunning(k1) /\ k1.p_schedtsk = k.p_schedtsk
  BY DEF SameSched, SameRunning
<1>6. StillRunnable(k1)
  BY <1>1, <1>5, Caller DEF StillRunnable, SameRunning
<1> QED BY <1>3, <1>4, <1>5, <1>6, EndReturn

\* One task is made runnable.
LEMMA MadeRunnable ==
  ASSUME NEW kk, NEW k0, NEW t \in Task, Consistent(kk), TasksOK(kk),
         k0 \in KernelData, SameSched(k0, kk), OnlyTask(k0, kk, t),
         k0.priority = kk.priority,
         ~TSTAT_RUNNABLE(kk.tstat[t]), k0.tstat[t] = TS_RUNNABLE,
         TaskOK(k0, t)
  PROVE  LET k1 == make_runnable(k0, t) IN
         /\ Consistent(k1) /\ TasksOK(k1) /\ SameBut3(k1, k0)
         /\ Runnable(k1) = Runnable(kk) \cup {t}
<1> DEFINE k1 == make_runnable(k0, t)
<1>1. t \notin Runnable(kk) /\ Runnable(k0) = Runnable(kk) \cup {t}
  BY TstatFacts DEF Runnable, OnlyTask, SameTask
<1>2. Consistent(k1) /\ SameBut3(k1, k0)
  BY <1>1, Wake
<1> HIDE DEF k1
<1>3. Runnable(k1) = Runnable(k0) /\ k1.p_runtsk = kk.p_runtsk
      /\ k1.dspflg = kk.dspflg
  BY <1>2 DEF SameBut3, SameSched, Runnable
<1>4. OnlyTask(k1, kk, t) /\ SameTask(k1, k0, t)
  BY <1>2 DEF SameBut3, OnlyTask, SameTask
<1>5. TaskOK(k1, t)
  BY <1>3, <1>4 DEF TaskOK, SameTask, SameSched
<1>6. TasksOK(k1)
  BY <1>3, <1>4, <1>5, OtherTask
<1> QED BY <1>1, <1>2, <1>3, <1>6 DEF k1

\* A call that makes one task runnable.
LEMMA WakeUp ==
  ASSUME NEW k0, NEW t \in Task, IInv, ctx # "INIT",
         k0 \in KernelData, SameSched(k0, k), OnlyTask(k0, k, t),
         k0.priority = k.priority,
         ~TSTAT_RUNNABLE(k.tstat[t]), k0.tstat[t] = TS_RUNNABLE,
         TaskOK(k0, t), ReturnDispatching(make_runnable(k0, t))
  PROVE  IInv' /\ Steady
<1> DEFINE k1 == make_runnable(k0, t)
<1>1. /\ Consistent(k1) /\ TasksOK(k1) /\ SameBut3(k1, k0)
      /\ Runnable(k1) = Runnable(k) \cup {t}
  BY KernelPart, MadeRunnable
<1> HIDE DEF k1
<1>2. SameRunning(k1)
  BY <1>1 DEF SameBut3, SameSched, SameRunning
<1>3. StillRunnable(k1)
  BY <1>1, <1>2, Caller DEF StillRunnable, SameRunning
<1> QED BY <1>1, <1>2, <1>3, EndReturnDispatching DEF k1

\* Task t stops, with its time event block registered or not.
LEMMA Stopped ==
  ASSUME NEW k0, NEW k2, NEW t \in Task, Consistent(k), TasksOK(k),
         k0 \in KernelData, SameSched(k0, k), OnlyTask(k0, k, t),
         k0.priority = k.priority,
         TSTAT_RUNNABLE(k.tstat[t]), ~TSTAT_RUNNABLE(k0.tstat[t]),
         t = k.p_runtsk => k.dspflg,
         k2 = make_non_runnable(k0, t)
           \/ \E b \in BOOLEAN :
                 k2 = [make_non_runnable(k0, t) EXCEPT !.tmevtb[t] = b],
         TaskOK([k0 EXCEPT !.tmevtb[t] = k2.tmevtb[t]], t)
  PROVE  /\ Consistent(k2) /\ TasksOK(k2) /\ SameRunning(k2)
         /\ SameQueueFields(k2, k0)
<1> DEFINE k1 == make_non_runnable(k0, t)
           k3 == [k0 EXCEPT !.tmevtb[t] = k2.tmevtb[t]]
<1>1. t \in Runnable(k) /\ Runnable(k0) = Runnable(k) \ {t}
  BY DEF Runnable, OnlyTask, SameTask
<1>2. Consistent(k) /\ TasksOK(k)
  OBVIOUS
<1>3. Consistent(k1) /\ SameBut3(k1, k0)
  BY <1>1, <1>2, Sleep
<1>4. k2 = k1 \/ \E b \in BOOLEAN : k2 = [k1 EXCEPT !.tmevtb[t] = b]
  OBVIOUS
<1> HIDE DEF k1
<1>5. /\ k2 \in KernelData /\ SameSched(k2, k1) /\ k2.priority = k1.priority
      /\ k2.tstat = k1.tstat /\ OnlyTask(k2, k1, t)
      /\ k2.bpriority = k1.bpriority /\ k2.actque = k1.actque
      /\ k2.wupque = k1.wupque /\ k2.raster = k1.raster
      /\ k2.enater = k1.enater /\ k2.p_lastmtx = k1.p_lastmtx
  <2>1. k1 \in KernelData
    BY <1>3 DEF Consistent
  <2>2. CASE k2 = k1
    BY <2>1, <2>2 DEF SameSched, OnlyTask, SameTask
  <2>3. CASE \E b \in BOOLEAN : k2 = [k1 EXCEPT !.tmevtb[t] = b]
    <3>1. PICK b \in BOOLEAN : k2 = [k1 EXCEPT !.tmevtb[t] = b]
      BY <2>3
    <3>2. k2 \in KernelData
      BY <2>1, <3>1 DEF KernelData
    <3>3. SameSched(k2, k1)
      BY <2>1, <3>1 DEF KernelData, SameSched
    <3>4. OnlyTask(k2, k1, t)
      BY <2>1, <3>1 DEF KernelData, OnlyTask, SameTask
    <3>5. /\ k2.priority = k1.priority
          /\ k2.tstat = k1.tstat
          /\ k2.bpriority = k1.bpriority /\ k2.actque = k1.actque
          /\ k2.wupque = k1.wupque /\ k2.raster = k1.raster
          /\ k2.enater = k1.enater /\ k2.p_lastmtx = k1.p_lastmtx
      BY <2>1, <3>1 DEF KernelData
    <3> QED BY <3>2, <3>3, <3>4, <3>5
  <2> QED BY <1>4, <2>2, <2>3
<1>6. Runnable(k2) = Runnable(k1)
  BY <1>5 DEF Runnable
<1>7. Consistent(k2)
  BY <1>3, <1>5, <1>6, Update
<1>8. SameRunning(k2)
  BY <1>3, <1>5 DEF SameBut3, SameSched, SameRunning
<1>9. OnlyTask(k2, k, t)
  BY <1>3, <1>5 DEF SameBut3, OnlyTask, SameTask
<1>10. TaskOK(k2, t)
  <2>1. /\ k3.tstat = k0.tstat /\ k3.bpriority = k0.bpriority
        /\ k3.priority = k0.priority /\ k3.actque = k0.actque
        /\ k3.wupque = k0.wupque /\ k3.raster = k0.raster
        /\ k3.enater = k0.enater /\ k3.p_lastmtx = k0.p_lastmtx
        /\ k3.tmevtb[t] = k2.tmevtb[t]
        /\ k3.p_runtsk = k0.p_runtsk /\ k3.dspflg = k0.dspflg
    BY DEF KernelData
  <2>2. k0.p_runtsk = k2.p_runtsk /\ k0.dspflg = k2.dspflg
    BY <1>8 DEF SameRunning, SameSched
  <2> HIDE DEF k3
  <2>3. TaskOK(k3, t)
    BY DEF k3
  <2> QED BY <1>3, <1>5, <2>1, <2>2, <2>3 DEF TaskOK, SameBut3
<1>11. TasksOK(k2)
  BY <1>2, <1>8, <1>9, <1>10, OtherTask DEF SameRunning
<1>12. SameQueueFields(k2, k0)
  <2>1. SameQueueFields(k1, k0)
    BY SchedKeepsQueues DEF k1
  <2>2. CASE k2 = k1
    BY <2>1, <2>2
  <2>3. CASE \E b \in BOOLEAN : k2 = [k1 EXCEPT !.tmevtb[t] = b]
    <3>1. k2.wait_queue = k1.wait_queue /\ k2.wobj = k1.wobj
      BY <1>3, <2>3 DEF Consistent, KernelData
    <3> QED BY <1>5, <2>1, <3>1 DEF SameQueueFields
  <2> QED BY <1>4, <2>2, <2>3
<1> QED BY <1>7, <1>8, <1>11, <1>12

\* A call by which a task stops.
LEMMA Stop ==
  ASSUME NEW k0, NEW k2, NEW t \in Task, IInv, ctx = "TASK",
         k0 \in KernelData, SameSched(k0, k), OnlyTask(k0, k, t),
         k0.priority = k.priority,
         TSTAT_RUNNABLE(k.tstat[t]), ~TSTAT_RUNNABLE(k0.tstat[t]),
         t = k.p_runtsk => k.dspflg,
         k2 = make_non_runnable(k0, t)
           \/ \E b \in BOOLEAN :
                 k2 = [make_non_runnable(k0, t) EXCEPT !.tmevtb[t] = b],
         TaskOK([k0 EXCEPT !.tmevtb[t] = k2.tmevtb[t]], t),
         ReturnDispatching(k2)
  PROVE  IInv' /\ Steady
<1>1. Consistent(k) /\ TasksOK(k)
  BY KernelPart
<1>2. Consistent(k2) /\ TasksOK(k2) /\ SameRunning(k2)
  BY <1>1, Stopped
<1> QED BY <1>2, EndReturnDispatching

-----------------------------------------------------------------------------
(* The boot. *)

LEMMA InitIInv == KInit => IInv
<1> SUFFICES ASSUME KInit PROVE IInv
  OBVIOUS
<1>1. k = InitKernel /\ ctx = "INIT" /\ lock_flag = TRUE
      /\ saved_iipm = "ENAALL" /\ pendsv = FALSE /\ booted = 0
  BY DEF KInit
<1>2. Runnable(k) = {}
  BY <1>1, TstatFacts DEF InitKernel, Runnable
<1>3. k \in KernelData
  <2>1. TS_DORMANT \in Tstat
    BY TstatFacts
  <2>2. <<>> \in Seq(Task) /\ <<>> \in Seq(Mtx)
    OBVIOUS
  <2> QED BY <1>1, <2>1, <2>2, PriAssumption DEF InitKernel, KernelData
<1>4. TypeOK
  <2>1. Len(torder_table) \in Nat
    BY TorderAssumption
  <2>2. booted \in 0 .. Len(torder_table)
    BY <1>1, <2>1
  <2> QED BY <1>1, <1>3, <2>2 DEF TypeOK
<1>5. ReadyQueueOK
  <2>1. \A p \in Pri : k.ready_queue[p] = <<>>
    BY <1>1 DEF InitKernel
  <2>2. k.ready_primap = {}
    BY <1>1 DEF InitKernel
  <2>3. IsInjective(<<>>) /\ \A u : ~Contains(<<>>, u)
    BY DEF IsInjective, Contains
  <2> QED BY <1>2, <2>1, <2>2, <2>3 DEF ReadyQueueOK, ReadyQueue
<1>6. SchedtskOK
  BY <1>1, <1>2 DEF InitKernel, SchedtskOK, Scheduled
<1>7. DspflgOK /\ NoLostDispatch
  BY <1>1 DEF InitKernel, DspflgOK, NoLostDispatch
<1>8. TerminationPending /\ TmevtbOK /\ DormantOK /\ NoMutexes /\ BootOK /\ NoLostWakeup
  <2>1. \A t \in Task : k.tstat[t] = TS_DORMANT
    BY <1>1 DEF InitKernel
  <2>2. TSTAT_DORMANT(TS_DORMANT)
    BY DEF TSTAT_DORMANT
  <2>3. \A i \in 1 .. Len(torder_table) : torder_table[i] \in Task
    BY TorderAssumption
  <2>4. \A t \in Task : /\ ~k.raster[t] /\ ~k.tmevtb[t] /\ ~k.wupque[t]
                        /\ ~k.actque[t] /\ k.enater[t] /\ k.p_lastmtx[t] = <<>>
                        /\ k.bpriority[t] = ipriority[t]
                        /\ k.priority[t] = ipriority[t]
    BY <1>1 DEF InitKernel
  <2> QED BY <2>1, <2>2, <2>3, <2>4, TstatFacts DEF TerminationPending, TmevtbOK,
             DormantOK, NoMutexes, BootOK, NoLostWakeup
<1> QED BY <1>4, <1>5, <1>6, <1>7, <1>8 DEF IInv

LEMMA BootStep ==
  ASSUME IInv, initialize_task
  PROVE  IInv' /\ Steady /\ k'.p_runtsk = k.p_runtsk
<1> DEFINE t == torder_table[booted + 1]
           k0 == [k EXCEPT !.actque[t] = FALSE]
           k1 == make_dormant(k0, t)
           k2 == [k1 EXCEPT !.p_lastmtx[t] = <<>>]
<1>1. /\ ctx = "INIT" /\ booted \in Nat /\ Len(torder_table) \in Nat
      /\ booted < Len(torder_table)
      /\ k' = IF t \in TA_ACT THEN make_active(k2, t) ELSE k2
      /\ booted' = booted + 1
      /\ UNCHANGED <<ctx, lock_flag, saved_iipm, pendsv>>
  BY TorderAssumption DEF initialize_task, IInv, TypeOK
<1>2. t \in Task /\ TSTAT_DORMANT(k.tstat[t])
  <2>1. booted + 1 \in 1 .. Len(torder_table) /\ booted + 1 > booted
    BY <1>1
  <2> QED BY <1>1, <2>1, TorderAssumption DEF IInv, BootOK
<1>3. Consistent(k) /\ TasksOK(k) /\ StillRunnable(k)
  BY KernelPart, Caller
<1> HIDE DEF t
<1>4. k0 \in KernelData /\ SameSched(k0, k) /\ OnlyTask(k0, k, t)
      /\ k0.tmevtb = k.tmevtb
  BY <1>2, <1>3 DEF Consistent, KernelData, SameSched, OnlyTask, SameTask
<1> HIDE DEF k0
<1>5. /\ k1 \in KernelData /\ SameSched(k1, k0) /\ OnlyTask(k1, k0, t)
      /\ k1.tstat[t] = TS_DORMANT /\ k1.bpriority[t] = ipriority[t]
      /\ k1.priority[t] = ipriority[t] /\ ~k1.wupque[t] /\ ~k1.raster[t]
      /\ k1.enater[t] /\ k1.actque = k0.actque /\ k1.tmevtb = k0.tmevtb
  BY <1>2, <1>4, MakeDormant
<1> HIDE DEF k1
<1>6. /\ k2 \in KernelData /\ SameSched(k2, k1) /\ OnlyTask(k2, k1, t)
      /\ k2.tstat = k1.tstat /\ k2.bpriority = k1.bpriority
      /\ k2.priority = k1.priority /\ k2.wupque = k1.wupque
      /\ k2.raster = k1.raster /\ k2.enater = k1.enater
      /\ k2.actque = k1.actque /\ k2.tmevtb = k1.tmevtb
      /\ k2.p_lastmtx[t] = <<>>
  <2>1. <<>> \in Seq(Mtx)
    OBVIOUS
  <2> QED BY <1>2, <1>5, <2>1 DEF KernelData, SameSched, OnlyTask, SameTask
<1> HIDE DEF k2
<1>7. /\ SameSched(k2, k) /\ OnlyTask(k2, k, t)
  BY <1>4, <1>5, <1>6 DEF SameSched, OnlyTask, SameTask
<1>8. /\ k.tstat[t] = TS_DORMANT /\ k.priority[t] = ipriority[t]
      /\ ~k.tmevtb[t] /\ ~k.actque[t]
  BY <1>2, <1>3, TstatFacts DEF TasksOK, TaskOK, TSTAT_DORMANT, Consistent, KernelData
<1>9. k2.priority = k.priority
  <2>1. \A u \in Task : k2.priority[u] = k.priority[u]
    BY <1>5, <1>6, <1>7, <1>8 DEF OnlyTask, SameTask
  <2>2. k2.priority \in [Task -> Pri] /\ k.priority \in [Task -> Pri]
    BY <1>3, <1>6 DEF KernelData, Consistent
  <2> QED BY <2>1, <2>2
<1>10. k2.tstat[t] = k.tstat[t] /\ ~k2.tmevtb[t]
  BY <1>4, <1>5, <1>6, <1>8
<1>11. /\ Consistent(k') /\ TasksOK(k') /\ k'.p_runtsk = k.p_runtsk
       /\ k'.dspflg = k.dspflg /\ k'.enadsp = k.enadsp
       /\ Runnable(k) \subseteq Runnable(k')
       /\ \A u \in Task \ {t} : k'.tstat[u] = k.tstat[u]
  <2>1. CASE t \in TA_ACT
    <3> DEFINE k3 == make_active(k2, t)
    <3>1. /\ Consistent(k3) /\ TasksOK(k3)
          /\ k3.p_runtsk = k.p_runtsk /\ k3.dspflg = k.dspflg
          /\ k3.enadsp = k.enadsp
          /\ Runnable(k3) = Runnable(k) \cup {t}
      BY <1>2, <1>3, <1>5, <1>6, <1>7, <1>9, <1>10, Activate DEF TasksOK
    <3>2. \A u \in Task \ {t} : k3.tstat[u] = k2.tstat[u]
      BY <1>2, <1>6 DEF make_active, make_runnable, KernelData
    <3>3. k' = k3
      BY <1>1, <2>1
    <3> HIDE DEF k3
    <3> QED BY <1>7, <3>1, <3>2, <3>3 DEF OnlyTask, SameTask
  <2>2. CASE t \notin TA_ACT
    <3>1. k' = k2
      BY <1>1, <2>2
    <3>2. Runnable(k2) = Runnable(k)
      BY <1>7, <1>10 DEF Runnable, OnlyTask, SameTask
    <3>3. Consistent(k2)
      BY <1>3, <1>6, <1>7, <1>9, <3>2, Update
    <3>4. ~k2.actque[t]
      BY <1>2, <1>3, <1>4, <1>5, <1>6 DEF k0, Consistent, KernelData
    <3>5. TaskOK(k2, t)
      BY <1>5, <1>6, <1>10, <3>4, TstatFacts DEF TaskOK
    <3>6. TasksOK(k2)
      BY <1>2, <1>3, <1>7, <3>5, OtherTask DEF SameSched
    <3> QED BY <1>7, <3>1, <3>2, <3>3, <3>6 DEF SameSched, OnlyTask, SameTask
  <2> QED BY <2>1, <2>2
<1>12. DspflgOK'
  BY <1>1, <1>3, <1>11 DEF IInv, DspflgOK, StillRunnable, Runnable
<1>13. NoLostDispatch'
  BY <1>1 DEF IInv, NoLostDispatch
<1>14. BootOK'
  <2> SUFFICES ASSUME NEW i \in 1 .. Len(torder_table), i > booted'
               PROVE  TSTAT_DORMANT(k'.tstat[torder_table[i]])
    BY DEF BootOK
  <2>1. i > booted /\ i # booted + 1 /\ booted + 1 \in 1 .. Len(torder_table)
    BY <1>1
  <2>2. torder_table[i] \in Task \ {t}
    BY <2>1, TorderAssumption DEF t
  <2>3. TSTAT_DORMANT(k.tstat[torder_table[i]])
    BY <1>1, <2>1 DEF IInv, BootOK
  <2> QED BY <1>11, <2>2, <2>3
<1>15. Steady
  BY <1>11 DEF Steady
<1> QED BY <1>1, <1>11, <1>12, <1>13, <1>14, <1>15, KernelPartPrime DEF IInv, TypeOK

LEMMA StartDispatchStep ==
  ASSUME IInv, start_dispatch
  PROVE  IInv' /\ Steady
<1>1. /\ ctx = "INIT" /\ ctx' = "TASK" /\ k' = dispatch(k) /\ lock_flag' = FALSE
      /\ UNCHANGED <<saved_iipm, pendsv, booted>>
  BY DEF start_dispatch
<1>2. /\ Consistent(k') /\ TasksOK(k')
      /\ k'.dspflg = k.dspflg /\ k'.enadsp = k.enadsp
      /\ k'.p_runtsk = k'.p_schedtsk
      /\ k'.p_runtsk # NULL => k'.p_runtsk \in Runnable(k')
      /\ k'.p_runtsk = NULL => k'.dspflg
  BY <1>1, KernelPart, Dispatch
<1>3. DspflgOK'
  BY <1>1, <1>2 DEF IInv, DspflgOK, Runnable
<1>4. NoLostDispatch' /\ BootOK'
  BY <1>1, <1>2 DEF IInv, NoLostDispatch, BootOK
<1>5. Steady
  BY <1>1, KernelPart DEF Steady, Consistent, dispatch, KernelData
<1> QED BY <1>1, <1>2, <1>3, <1>4, <1>5, KernelPartPrime DEF IInv, TypeOK

-----------------------------------------------------------------------------
(* One lemma per service call. *)

LEMMA ActTskStep ==
  ASSUME IInv, NEW t \in Task, act_tsk(t)
  PROVE  IInv' /\ Steady
<1>1. Consistent(k) /\ TasksOK(k) /\ StillRunnable(k) /\ k \in KernelData
  BY KernelPart, Caller DEF Consistent
<1>2. ctx # "INIT"
  BY DEF act_tsk, CHECK_UNL, TSKCTX
<1>3. CASE TSTAT_DORMANT(k.tstat[t]) /\ ReturnDispatching(make_active(k, t))
  <2> DEFINE k1 == make_active(k, t)
  <2>1. SameSched(k, k) /\ OnlyTask(k, k, t)
    BY DEF SameSched, OnlyTask, SameTask
  <2>2. ~k.raster[t] /\ ~k.wupque[t] /\ ~k.tmevtb[t] /\ k.p_lastmtx[t] = <<>>
    BY <1>1, <1>3, TstatFacts DEF TasksOK, TaskOK, KernelData
  <2>3. /\ Consistent(k1) /\ TasksOK(k1)
        /\ k1.p_runtsk = k.p_runtsk /\ k1.dspflg = k.dspflg
        /\ k1.enadsp = k.enadsp
        /\ Runnable(k1) = Runnable(k) \cup {t}
    BY <1>1, <1>3, <2>1, <2>2, Activate DEF TasksOK
  <2> HIDE DEF k1
  <2>4. SameRunning(k1) /\ StillRunnable(k1)
    BY <1>1, <2>3 DEF SameRunning, StillRunnable
  <2> QED BY <1>2, <1>3, <2>3, <2>4, EndReturnDispatching DEF k1
<1>4. CASE ~TSTAT_DORMANT(k.tstat[t]) /\ Return([k EXCEPT !.actque[t] = TRUE])
  <2> DEFINE k1 == [k EXCEPT !.actque[t] = TRUE]
  <2>1. k1 \in KernelData /\ SameSched(k1, k) /\ OnlyTask(k1, k, t)
    BY <1>1 DEF KernelData, SameSched, OnlyTask, SameTask
  <2>2. /\ k1.tstat = k.tstat /\ k1.priority = k.priority
        /\ k1.p_lastmtx = k.p_lastmtx /\ k1.raster = k.raster
        /\ k1.enater = k.enater /\ k1.wupque = k.wupque /\ k1.tmevtb = k.tmevtb
    BY <1>1 DEF KernelData
  <2>3. Return(k1)
    BY <1>4
  <2> HIDE DEF k1
  <2>4. TaskOK(k1, t)
    BY <1>1, <1>4, <2>1, <2>2 DEF TasksOK, TaskOK, SameSched
  <2> QED BY <1>2, <2>1, <2>2, <2>3, <2>4, FieldUpdate
<1> QED BY <1>3, <1>4 DEF act_tsk

LEMMA CanActStep ==
  ASSUME IInv, NEW t \in Task, can_act(t)
  PROVE  IInv' /\ Steady
<1> DEFINE k1 == [k EXCEPT !.actque[t] = FALSE]
<1>1. Consistent(k) /\ TasksOK(k) /\ k \in KernelData
  BY KernelPart DEF Consistent
<1>2. ctx # "INIT" /\ Return(k1)
  BY DEF can_act, CHECK_TSKCTX_UNL, TSKCTX
<1>3. k1 \in KernelData /\ SameSched(k1, k) /\ OnlyTask(k1, k, t)
  BY <1>1 DEF KernelData, SameSched, OnlyTask, SameTask
<1>4. /\ k1.tstat = k.tstat /\ k1.priority = k.priority
      /\ k1.p_lastmtx = k.p_lastmtx /\ k1.raster = k.raster
      /\ k1.enater = k.enater /\ k1.wupque = k.wupque /\ k1.tmevtb = k.tmevtb
      /\ k1.bpriority = k.bpriority /\ ~k1.actque[t]
  BY <1>1 DEF KernelData
<1> HIDE DEF k1
<1>5. TaskOK(k1, t)
  BY <1>1, <1>3, <1>4 DEF TasksOK, TaskOK, SameSched
<1> QED BY <1>2, <1>3, <1>4, <1>5, FieldUpdate

\* A call that changes wupque and nothing else.
LEMMA WupqueUpdate ==
  ASSUME IInv, ctx # "INIT", NEW t \in Task, NEW b \in BOOLEAN,
         ~TSTAT_DORMANT(k.tstat[t]), b => ~TSTAT_WAIT_SLP(k.tstat[t]),
         Return([k EXCEPT !.wupque[t] = b])
  PROVE  IInv' /\ Steady
<1> DEFINE k1 == [k EXCEPT !.wupque[t] = b]
<1>1. Consistent(k) /\ TasksOK(k) /\ k \in KernelData
  BY KernelPart DEF Consistent
<1>2. Return(k1)
  OBVIOUS
<1>3. k1 \in KernelData /\ SameSched(k1, k) /\ OnlyTask(k1, k, t)
  BY <1>1 DEF KernelData, SameSched, OnlyTask, SameTask
<1>4. /\ k1.tstat = k.tstat /\ k1.priority = k.priority
      /\ k1.p_lastmtx = k.p_lastmtx /\ k1.raster = k.raster
      /\ k1.enater = k.enater /\ k1.wupque[t] = b /\ k1.tmevtb = k.tmevtb
  BY <1>1 DEF KernelData
<1> HIDE DEF k1
<1>5. TaskOK(k1, t)
  BY <1>1, <1>3, <1>4 DEF TasksOK, TaskOK, SameSched
<1> QED BY <1>2, <1>3, <1>4, <1>5, FieldUpdate

\* The running task begins a wait that needs no object.
LEMMA WaitStep ==
  ASSUME IInv, ctx = "TASK", TSKCTX, k.dspflg, ~k.raster[k.p_runtsk],
         NEW ts \in {TS_WAITING_SLP, TS_WAITING_DLY}, NEW b \in BOOLEAN,
         ts = TS_WAITING_SLP => ~k.wupque[k.p_runtsk],
         ts = TS_WAITING_DLY => b,
         ReturnDispatching(
            [make_non_runnable([k EXCEPT !.tstat[k.p_runtsk] = ts], k.p_runtsk)
                EXCEPT !.tmevtb[k.p_runtsk] = b])
  PROVE  IInv' /\ Steady
<1> DEFINE t == k.p_runtsk
           k0 == [k EXCEPT !.tstat[t] = ts]
           k1 == make_non_runnable(k0, t)
           k2 == [k1 EXCEPT !.tmevtb[t] = b]
           k3 == [k0 EXCEPT !.tmevtb[t] = k2.tmevtb[t]]
<1>1. Consistent(k) /\ TasksOK(k) /\ k \in KernelData
  BY KernelPart DEF Consistent
<1>2. t \in Task /\ t \in Runnable(k) /\ TSTAT_RUNNABLE(k.tstat[t])
  BY Caller
<1>3. ts \in Tstat /\ ~TSTAT_RUNNABLE(ts) /\ TSTAT_WAITING(ts)
      /\ ~TSTAT_WAIT_MTX(ts) /\ ~TSTAT_DORMANT(ts)
      /\ (TSTAT_WAIT_SLP(ts) => ts = TS_WAITING_SLP)
      /\ ("DLY" \in ts => ts = TS_WAITING_DLY)
  BY TstatFacts
<1> HIDE DEF t
<1>4. k0 \in KernelData /\ SameSched(k0, k) /\ OnlyTask(k0, k, t)
  BY <1>1, <1>2, <1>3 DEF KernelData, SameSched, OnlyTask, SameTask
<1>5. /\ k0.tstat[t] = ts /\ k0.priority = k.priority /\ k0.raster = k.raster
      /\ k0.wupque = k.wupque /\ k0.p_lastmtx = k.p_lastmtx
  BY <1>1, <1>2 DEF KernelData
<1> HIDE DEF k0
<1>6. Consistent(k1) /\ SameBut3(k1, k0)
  <2>1. Runnable(k0) = Runnable(k) \ {t}
    BY <1>2, <1>3, <1>4, <1>5 DEF Runnable, OnlyTask, SameTask
  <2> QED BY <1>1, <1>2, <1>4, <1>5, <2>1, Sleep
<1> HIDE DEF k1
<1>7. k2.tmevtb[t] = b
  BY <1>2, <1>6 DEF Consistent, KernelData
<1>8. /\ k3.tstat = k0.tstat /\ k3.raster = k0.raster /\ k3.wupque = k0.wupque
      /\ k3.p_lastmtx = k0.p_lastmtx /\ k3.tmevtb[t] = b
  BY <1>2, <1>4, <1>7 DEF KernelData
<1>9. TaskOK(k3, t)
  <2> HIDE DEF k3
  <2>1. k.p_lastmtx[t] = <<>>
    BY <1>1, <1>2 DEF TasksOK, TaskOK
  <2>2. ~k.raster[t] /\ (ts = TS_WAITING_SLP => ~k.wupque[t])
    BY DEF t
  <2> QED BY <1>3, <1>5, <1>8, <2>1, <2>2 DEF TaskOK
<1>10. ReturnDispatching(k2)
  BY DEF t, k0, k1
<1>11. k2 = [make_non_runnable(k0, t) EXCEPT !.tmevtb[t] = b]
  BY DEF k1
<1> HIDE DEF k2
<1>12. TaskOK([k0 EXCEPT !.tmevtb[t] = k2.tmevtb[t]], t)
  BY <1>9
<1> QED BY <1>2, <1>3, <1>4, <1>5, <1>10, <1>11, <1>12, Stop

LEMMA SlpTskStep ==
  ASSUME IInv, slp_tsk \/ tslp_tsk
  PROVE  IInv' /\ Steady
<1> DEFINE t == k.p_runtsk
<1>1. /\ TSKCTX /\ k.dspflg /\ ~k.raster[t] /\ ctx = "TASK" /\ t \in Task
      /\ ~TSTAT_DORMANT(k.tstat[t])
  BY Caller, TstatFacts DEF slp_tsk, tslp_tsk, CHECK_DISPATCH, CHECK_TSKCTX_UNL,
     IInv, TypeOK, KernelData
<1>2. CASE k.wupque[t] /\ Return([k EXCEPT !.wupque[t] = FALSE])
  BY <1>1, <1>2, WupqueUpdate
<1>3. ASSUME NEW b \in BOOLEAN, ~k.wupque[t],
             ReturnDispatching(make_wait_tmout(k, TS_WAITING_SLP, b))
      PROVE  IInv' /\ Steady
  <2>1. TS_WAITING_SLP # TS_WAITING_DLY
    BY TstatFacts DEF TS_WAITING_DLY
  <2> QED BY <1>1, <1>3, <2>1, WaitStep DEF make_wait_tmout
<1> QED BY <1>2, <1>3 DEF slp_tsk, tslp_tsk, make_wait

LEMMA DlyTskStep ==
  ASSUME IInv, dly_tsk
  PROVE  IInv' /\ Steady
<1>1. TSKCTX /\ k.dspflg /\ ~k.raster[k.p_runtsk] /\ ctx = "TASK"
  BY Caller DEF dly_tsk, CHECK_DISPATCH, CHECK_TSKCTX_UNL
<1>2. TS_WAITING_SLP # TS_WAITING_DLY
  BY TstatFacts DEF TS_WAITING_DLY
<1> QED BY <1>1, <1>2, WaitStep DEF dly_tsk

\* A task whose wait has been given up is made runnable, or is left suspended:
\* the end of every wait.
LEMMA WaitEnds ==
  ASSUME NEW kk, NEW k0, NEW t \in Task, Consistent(kk), TasksOK(kk),
         TSTAT_WAITING(kk.tstat[t]),
         k0 \in KernelData, SameSched(k0, kk), OnlyTask(k0, kk, t),
         k0.tstat = kk.tstat, k0.priority = kk.priority, ~k0.tmevtb[t],
         k0.raster = kk.raster, k0.p_lastmtx = kk.p_lastmtx
  PROVE  LET k1 == make_non_wait(k0, t) IN
         /\ Consistent(k1) /\ TasksOK(k1)
         /\ k1.p_runtsk = kk.p_runtsk /\ k1.dspflg = kk.dspflg
         /\ k1.enadsp = kk.enadsp
         /\ Runnable(kk) \subseteq Runnable(k1)
         /\ k1.wait_queue = k0.wait_queue /\ k1.wobj = k0.wobj
         /\ k1.priority = kk.priority
         /\ ~TSTAT_WAITING(k1.tstat[t]) /\ ~TSTAT_WAIT_WOBJ(k1.tstat[t])
         /\ \A u \in Task \ {t} : k1.tstat[u] = kk.tstat[u]
<1> DEFINE kr == [k0 EXCEPT !.tstat[t] = TS_RUNNABLE]
           ks == [k0 EXCEPT !.tstat[t] = TS_SUSPENDED]
           k1 == make_non_wait(k0, t)
<1>1. kk \in KernelData
  BY DEF Consistent
<1>2. /\ ~TSTAT_RUNNABLE(kk.tstat[t]) /\ ~TSTAT_DORMANT(kk.tstat[t])
  BY <1>1, TstatFacts DEF KernelData
<1>3. ~kk.raster[t] /\ kk.p_lastmtx[t] = <<>>
  BY <1>1, <1>2 DEF TasksOK, TaskOK
<1>4. /\ TS_RUNNABLE \in Tstat /\ TS_SUSPENDED \in Tstat
      /\ TSTAT_RUNNABLE(TS_RUNNABLE) /\ ~TSTAT_DORMANT(TS_RUNNABLE)
      /\ ~TSTAT_RUNNABLE(TS_SUSPENDED) /\ ~TSTAT_DORMANT(TS_SUSPENDED)
      /\ \A ts \in {TS_RUNNABLE, TS_SUSPENDED} :
            /\ ~TSTAT_WAIT_MTX(ts) /\ ~TSTAT_WAIT_SLP(ts) /\ "DLY" \notin ts
            /\ ~TSTAT_WAITING(ts) /\ ~TSTAT_WAIT_WOBJ(ts)
  BY TstatFacts
<1>5. ASSUME NEW ts \in {TS_RUNNABLE, TS_SUSPENDED}, NEW k2,
             k2 = [k0 EXCEPT !.tstat[t] = ts]
      PROVE  /\ k2 \in KernelData /\ SameSched(k2, kk) /\ OnlyTask(k2, kk, t)
             /\ k2.tstat[t] = ts /\ k2.priority = kk.priority /\ TaskOK(k2, t)
             /\ k2.wait_queue = k0.wait_queue /\ k2.wobj = k0.wobj
             /\ \A u \in Task \ {t} : k2.tstat[u] = kk.tstat[u]
  <2>1. k2 \in KernelData
    BY <1>4, <1>5 DEF KernelData
  <2>2. SameSched(k2, k0) /\ OnlyTask(k2, k0, t)
    BY <1>5 DEF KernelData, SameSched, OnlyTask, SameTask
  <2>3. /\ k2.tstat[t] = ts /\ k2.priority = k0.priority
        /\ k2.tmevtb = k0.tmevtb /\ k2.raster = k0.raster
        /\ k2.p_lastmtx = k0.p_lastmtx
        /\ k2.wait_queue = k0.wait_queue /\ k2.wobj = k0.wobj
    BY <1>5 DEF KernelData
  <2>4. SameSched(k2, kk) /\ OnlyTask(k2, kk, t)
    BY <2>2 DEF SameSched, OnlyTask, SameTask
  <2>5. TaskOK(k2, t)
    BY <1>3, <1>4, <2>3 DEF TaskOK
  <2> QED BY <2>1, <2>3, <2>4, <2>5 DEF OnlyTask, SameTask
<1>6. CASE TSTAT_SUSPENDED(k0.tstat[t])
  <2>1. k1 = ks
    BY <1>6 DEF make_non_wait
  <2>2. /\ k1 \in KernelData /\ SameSched(k1, kk) /\ OnlyTask(k1, kk, t)
        /\ k1.tstat[t] = TS_SUSPENDED /\ k1.priority = kk.priority /\ TaskOK(k1, t)
        /\ k1.wait_queue = k0.wait_queue /\ k1.wobj = k0.wobj
        /\ \A u \in Task \ {t} : k1.tstat[u] = kk.tstat[u]
    BY <1>5, <2>1
  <2> HIDE DEF k1
  <2>3. Runnable(k1) = Runnable(kk)
    BY <1>2, <1>4, <2>2 DEF Runnable
  <2>4. Consistent(k1) /\ TasksOK(k1)
    BY <2>2, <2>3, Update, OtherTask DEF SameSched
  <2> QED BY <1>4, <2>2, <2>3, <2>4 DEF SameSched, k1
<1>7. CASE ~TSTAT_SUSPENDED(k0.tstat[t])
  <2>1. k1 = make_runnable(kr, t)
    BY <1>7 DEF make_non_wait
  <2>2. /\ kr \in KernelData /\ SameSched(kr, kk) /\ OnlyTask(kr, kk, t)
        /\ kr.tstat[t] = TS_RUNNABLE /\ kr.priority = kk.priority /\ TaskOK(kr, t)
        /\ kr.wait_queue = k0.wait_queue /\ kr.wobj = k0.wobj
        /\ \A u \in Task \ {t} : kr.tstat[u] = kk.tstat[u]
    BY <1>5
  <2> HIDE DEF kr, k1
  <2>3. /\ Consistent(k1) /\ TasksOK(k1) /\ SameBut3(k1, kr)
        /\ Runnable(k1) = Runnable(kk) \cup {t}
    BY <1>2, <2>1, <2>2, MadeRunnable
  <2> QED BY <1>4, <2>2, <2>3 DEF SameSched, SameBut3, k1
<1> QED BY <1>6, <1>7

LEMMA EndOfWait ==
  ASSUME IInv, ctx # "INIT", NEW t \in Task, TSTAT_WAITING(k.tstat[t]),
         NEW k0 \in KernelData, SameSched(k0, k), OnlyTask(k0, k, t),
         k0.tstat = k.tstat, k0.priority = k.priority, ~k0.tmevtb[t],
         k0.raster = k.raster, k0.p_lastmtx = k.p_lastmtx,
         ReturnDispatching(make_non_wait(k0, t))
  PROVE  IInv' /\ Steady
<1> DEFINE k1 == make_non_wait(k0, t)
<1>1. Consistent(k) /\ TasksOK(k)
  BY KernelPart
<1>2. /\ Consistent(k1) /\ TasksOK(k1)
      /\ k1.p_runtsk = k.p_runtsk /\ k1.dspflg = k.dspflg
      /\ k1.enadsp = k.enadsp
      /\ Runnable(k) \subseteq Runnable(k1)
  BY <1>1, WaitEnds
<1> HIDE DEF k1
<1>3. SameRunning(k1) /\ StillRunnable(k1)
  BY <1>2, Caller DEF SameRunning, StillRunnable
<1> QED BY <1>2, <1>3, EndReturnDispatching DEF k1

\* The same with the time event block alone to be unlinked.
LEMMA TmevtbDequeue ==
  ASSUME NEW kk \in KernelData, NEW t \in Task
  PROVE  LET k0 == wait_dequeue_tmevtb(kk, t) IN
         /\ k0 \in KernelData /\ SameSched(k0, kk) /\ OnlyTask(k0, kk, t)
         /\ k0.tstat = kk.tstat /\ k0.priority = kk.priority /\ ~k0.tmevtb[t]
         /\ k0.raster = kk.raster /\ k0.p_lastmtx = kk.p_lastmtx
         /\ k0.wobj = kk.wobj /\ k0.wait_queue = kk.wait_queue
  BY DEF wait_dequeue_tmevtb, KernelData, SameSched, OnlyTask, SameTask

LEMMA WupTskStep ==
  ASSUME IInv, NEW t \in Task, wup_tsk(t)
  PROVE  IInv' /\ Steady
<1>1. ctx # "INIT" /\ ~TSTAT_DORMANT(k.tstat[t]) /\ k.tstat[t] \in Tstat
  BY DEF wup_tsk, CHECK_UNL, TSKCTX, IInv, TypeOK, KernelData
<1>2. CASE TSTAT_WAIT_SLP(k.tstat[t]) /\ ReturnDispatching(wait_complete(k, t))
  <2> DEFINE k0 == wait_dequeue_tmevtb(k, t)
  <2>1. /\ k0 \in KernelData /\ SameSched(k0, k) /\ OnlyTask(k0, k, t)
        /\ k0.tstat = k.tstat /\ k0.priority = k.priority /\ ~k0.tmevtb[t]
        /\ k0.raster = k.raster /\ k0.p_lastmtx = k.p_lastmtx
    BY TmevtbDequeue DEF IInv, TypeOK
  <2>2. ReturnDispatching(make_non_wait(k0, t))
    BY <1>2 DEF wait_complete
  <2>3. TSTAT_WAITING(k.tstat[t])
    BY <1>1, <1>2, TstatFacts
  <2> HIDE DEF k0
  <2> QED BY <1>1, <2>1, <2>2, <2>3, EndOfWait
<1>3. CASE ~TSTAT_WAIT_SLP(k.tstat[t]) /\ Return([k EXCEPT !.wupque[t] = TRUE])
  BY <1>1, <1>3, WupqueUpdate
<1> QED BY <1>2, <1>3 DEF wup_tsk

LEMMA CanWupStep ==
  ASSUME IInv, NEW t \in Task, can_wup(t)
  PROVE  IInv' /\ Steady
  BY WupqueUpdate DEF can_wup, CHECK_TSKCTX_UNL, TSKCTX

LEMMA EndOfWaitSteps ==
  ASSUME IInv, NEW t \in Task, rel_wai(t) \/ wait_tmout(t) \/ wait_tmout_ok(t)
  PROVE  IInv' /\ Steady
<1>1. k \in KernelData /\ (k.tmevtb[t] => TSTAT_WAITING(k.tstat[t]))
  BY DEF IInv, TypeOK, TmevtbOK
<1>2. ctx # "INIT" /\ TSTAT_WAITING(k.tstat[t])
  BY <1>1 DEF rel_wai, wait_tmout, wait_tmout_ok, CHECK_UNL, TSKCTX
<1>3. ASSUME NEW k0 \in KernelData, Dequeued(k0, k, t),
             ReturnDispatching(make_non_wait(k0, t))
      PROVE  IInv' /\ Steady
  BY <1>2, <1>3, EndOfWait DEF Dequeued
<1>4. CASE rel_wai(t)
  BY <1>1, <1>3, <1>4, WaitDequeue DEF rel_wai
<1>5. CASE wait_tmout(t)
  BY <1>1, <1>3, <1>5, WaitDequeue DEF wait_tmout
<1>6. CASE wait_tmout_ok(t)
  <2> DEFINE k0 == wait_dequeue_tmevtb(k, t)
  <2>1. /\ k0 \in KernelData /\ SameSched(k0, k) /\ OnlyTask(k0, k, t)
        /\ k0.tstat = k.tstat /\ k0.priority = k.priority /\ ~k0.tmevtb[t]
        /\ k0.raster = k.raster /\ k0.p_lastmtx = k.p_lastmtx
    BY <1>1, TmevtbDequeue
  <2>2. ReturnDispatching(make_non_wait(k0, t))
    BY <1>6 DEF wait_tmout_ok
  <2> HIDE DEF k0
  <2> QED BY <1>2, <2>1, <2>2, EndOfWait
<1> QED BY <1>4, <1>5, <1>6

\* A state that waits for the same thing as state ts, or for nothing as ts.
SameWait(su, ts) ==
    /\ su \in Tstat /\ ~TSTAT_RUNNABLE(su) /\ ~TSTAT_DORMANT(su)
    /\ TSTAT_WAITING(su) <=> TSTAT_WAITING(ts)
    /\ TSTAT_WAIT_MTX(su) <=> TSTAT_WAIT_MTX(ts)
    /\ su \cap WaitWobj = ts \cap WaitWobj
    /\ TSTAT_WAIT_SLP(su) <=> TSTAT_WAIT_SLP(ts)
    /\ "DLY" \in su <=> "DLY" \in ts

\* Suspending or resuming a task that waits does not end its wait.
LEMMA SuspendedWait ==
  ASSUME NEW ts \in Tstat
  PROVE  /\ ~TSTAT_RUNNABLE(ts) /\ ~TSTAT_SUSPENDED(ts) /\ ~TSTAT_DORMANT(ts) =>
               SameWait(ts \cup TS_SUSPENDED, ts)
         /\ TSTAT_SUSPENDED(ts) /\ TSTAT_WAITING(ts) =>
               SameWait(ts \ TS_SUSPENDED, ts)
BY DEF Tstat, TSTAT_RUNNABLE, TSTAT_DORMANT, TSTAT_WAITING, TSTAT_SUSPENDED,
       TSTAT_WAIT_SLP, TSTAT_WAIT_MTX, WaitFactor, WaitWobj, WaitWobjcb,
       TS_RUNNABLE, TS_DORMANT, TS_SUSPENDED, TS_WAITING_SLP, SameWait

\* A call that adds or removes the flag for suspension and nothing else.
LEMMA SuspendUpdate ==
  ASSUME IInv, ctx # "INIT", NEW t \in Task, NEW ts,
         Return([k EXCEPT !.tstat[t] = ts]),
         \/ /\ ~TSTAT_RUNNABLE(k.tstat[t]) /\ ~TSTAT_SUSPENDED(k.tstat[t])
            /\ ~TSTAT_DORMANT(k.tstat[t]) /\ ts = k.tstat[t] \cup TS_SUSPENDED
         \/ /\ TSTAT_SUSPENDED(k.tstat[t]) /\ TSTAT_WAITING(k.tstat[t])
            /\ ts = k.tstat[t] \ TS_SUSPENDED
  PROVE  IInv' /\ Steady
<1> DEFINE k1 == [k EXCEPT !.tstat[t] = ts]
<1>1. Consistent(k) /\ TasksOK(k) /\ k \in KernelData /\ k.tstat[t] \in Tstat
  BY KernelPart DEF Consistent, KernelData
<1>2. SameWait(ts, k.tstat[t])
  BY <1>1, SuspendedWait
<1>3. ~TSTAT_RUNNABLE(k.tstat[t])
  BY <1>1, TstatFacts
<1>4. k1 \in KernelData /\ SameSched(k1, k) /\ OnlyTask(k1, k, t)
  BY <1>1, <1>2 DEF KernelData, SameSched, OnlyTask, SameTask, SameWait
<1>5. /\ k1.tstat[t] = ts /\ k1.priority = k.priority
      /\ k1.p_lastmtx = k.p_lastmtx /\ k1.raster = k.raster
      /\ k1.enater = k.enater /\ k1.wupque = k.wupque /\ k1.tmevtb = k.tmevtb
  BY <1>1 DEF KernelData
<1>6. Return(k1)
  OBVIOUS
<1> HIDE DEF k1
<1>7. TaskOK(k1, t)
  BY <1>1, <1>2, <1>3, <1>4, <1>5 DEF TasksOK, TaskOK, SameWait
<1> QED BY <1>2, <1>3, <1>4, <1>5, <1>6, <1>7, FieldUpdate DEF SameWait

LEMMA SusTskStep ==
  ASSUME IInv, NEW t \in Task, sus_tsk(t)
  PROVE  IInv' /\ Steady
<1>1. ctx = "TASK" /\ ~TSTAT_DORMANT(k.tstat[t]) /\ ~k.raster[t]
      /\ (t = k.p_runtsk => k.dspflg)
  BY DEF sus_tsk, CHECK_TSKCTX_UNL, TSKCTX
<1>2. Consistent(k) /\ TasksOK(k) /\ k \in KernelData
  BY KernelPart DEF Consistent
<1>3. CASE /\ TSTAT_RUNNABLE(k.tstat[t])
           /\ ReturnDispatching(
                 make_non_runnable([k EXCEPT !.tstat[t] = TS_SUSPENDED], t))
  <2> DEFINE k0 == [k EXCEPT !.tstat[t] = TS_SUSPENDED]
             k2 == make_non_runnable(k0, t)
             k3 == [k0 EXCEPT !.tmevtb[t] = k2.tmevtb[t]]
  <2>1. /\ TS_SUSPENDED \in Tstat /\ ~TSTAT_RUNNABLE(TS_SUSPENDED)
        /\ ~TSTAT_DORMANT(TS_SUSPENDED) /\ ~TSTAT_WAIT_MTX(TS_SUSPENDED)
        /\ ~TSTAT_WAIT_SLP(TS_SUSPENDED) /\ "DLY" \notin TS_SUSPENDED
    BY TstatFacts
  <2>2. /\ k0 \in KernelData /\ SameSched(k0, k) /\ OnlyTask(k0, k, t)
        /\ k0.tstat[t] = TS_SUSPENDED /\ k0.priority = k.priority
        /\ k0.raster = k.raster /\ k0.p_lastmtx = k.p_lastmtx
        /\ k0.tmevtb = k.tmevtb
    BY <1>2, <2>1 DEF KernelData, SameSched, OnlyTask, SameTask
  <2>3. ~k.tmevtb[t]
    BY <1>2, <1>3, TstatFacts DEF TasksOK, TaskOK, KernelData
  <2>4. ReturnDispatching(k2)
    BY <1>3
  <2> HIDE DEF k0
  <2>5. k2.tmevtb[t] = FALSE
    <3>1. Runnable(k0) = Runnable(k) \ {t} /\ t \in Runnable(k)
      BY <1>3, <2>1, <2>2 DEF Runnable, OnlyTask, SameTask
    <3>2. SameBut3(k2, k0)
      BY <1>1, <1>2, <2>2, <3>1, Sleep
    <3> QED BY <2>2, <2>3, <3>2 DEF SameBut3, KernelData
  <2>6. /\ k3.tstat = k0.tstat /\ k3.raster = k0.raster
        /\ k3.p_lastmtx = k0.p_lastmtx /\ k3.tmevtb[t] = FALSE
    BY <2>2, <2>5 DEF KernelData
  <2>7. TaskOK(k3, t)
    <3> HIDE DEF k3
    <3>1. k.p_lastmtx[t] = <<>>
      BY <1>2 DEF TasksOK, TaskOK
    <3> QED BY <1>1, <2>1, <2>2, <2>6, <3>1 DEF TaskOK
  <2>8. k2 = make_non_runnable(k0, t)
    OBVIOUS
  <2> HIDE DEF k2
  <2>9. TaskOK([k0 EXCEPT !.tmevtb[t] = k2.tmevtb[t]], t)
    BY <2>7
  <2> QED BY <1>1, <1>3, <2>1, <2>2, <2>4, <2>8, <2>9, Stop
<1>4. CASE /\ ~TSTAT_RUNNABLE(k.tstat[t]) /\ ~TSTAT_SUSPENDED(k.tstat[t])
           /\ Return([k EXCEPT !.tstat[t] = k.tstat[t] \cup TS_SUSPENDED])
  BY <1>1, <1>4, SuspendUpdate
<1> QED BY <1>3, <1>4 DEF sus_tsk

LEMMA RsmTskStep ==
  ASSUME IInv, NEW t \in Task, rsm_tsk(t)
  PROVE  IInv' /\ Steady
<1>1. ctx # "INIT" /\ TSTAT_SUSPENDED(k.tstat[t])
  BY DEF rsm_tsk, CHECK_TSKCTX_UNL, TSKCTX
<1>2. Consistent(k) /\ TasksOK(k) /\ k \in KernelData /\ k.tstat[t] \in Tstat
  BY KernelPart DEF Consistent, KernelData
<1>3. ~TSTAT_RUNNABLE(k.tstat[t])
  BY <1>1, <1>2, TstatFacts
<1>4. CASE /\ ~TSTAT_WAITING(k.tstat[t])
           /\ ReturnDispatching(
                 make_runnable([k EXCEPT !.tstat[t] = TS_RUNNABLE], t))
  <2> DEFINE k0 == [k EXCEPT !.tstat[t] = TS_RUNNABLE]
  <2>1. /\ TS_RUNNABLE \in Tstat /\ TSTAT_RUNNABLE(TS_RUNNABLE)
        /\ ~TSTAT_DORMANT(TS_RUNNABLE) /\ ~TSTAT_WAIT_MTX(TS_RUNNABLE)
        /\ ~TSTAT_WAIT_SLP(TS_RUNNABLE) /\ "DLY" \notin TS_RUNNABLE
    BY TstatFacts
  <2>2. /\ k0 \in KernelData /\ SameSched(k0, k) /\ OnlyTask(k0, k, t)
        /\ k0.tstat[t] = TS_RUNNABLE /\ k0.priority = k.priority
        /\ k0.raster = k.raster /\ k0.p_lastmtx = k.p_lastmtx
        /\ k0.tmevtb = k.tmevtb
    BY <1>2, <2>1 DEF KernelData, SameSched, OnlyTask, SameTask
  <2>3. ReturnDispatching(make_runnable(k0, t))
    BY <1>4
  <2> HIDE DEF k0
  <2>4. k.p_lastmtx[t] = <<>> /\ ~k.raster[t] /\ ~k.tmevtb[t]
    BY <1>2, <1>3, <1>4 DEF TasksOK, TaskOK
  <2>5. TaskOK(k0, t)
    BY <2>1, <2>2, <2>4 DEF TaskOK
  <2> QED BY <1>1, <1>3, <2>2, <2>3, <2>5, WakeUp
<1>5. CASE /\ TSTAT_WAITING(k.tstat[t])
           /\ Return([k EXCEPT !.tstat[t] = k.tstat[t] \ TS_SUSPENDED])
  BY <1>1, <1>5, SuspendUpdate
<1> QED BY <1>4, <1>5 DEF rsm_tsk

\* The task a call terminates and the task that called.
LEMMA TerminateStep ==
  ASSUME IInv, ctx = "TASK", NEW t \in Task, t # k.p_runtsk,
         ReturnDispatching(task_terminate(k, t))
  PROVE  IInv' /\ Steady
<1> DEFINE k1 == task_terminate(k, t)
<1>1. Consistent(k) /\ TasksOK(k)
  BY KernelPart
<1>2. /\ Consistent(k1) /\ TasksOK(k1)
      /\ k1.p_runtsk = k.p_runtsk /\ k1.dspflg = k.dspflg
      /\ k1.enadsp = k.enadsp
  BY <1>1, Terminate DEF TasksOK, TaskOK
<1>3. ReturnDispatching(k1)
  OBVIOUS
<1> HIDE DEF k1
<1> QED BY <1>2, <1>3, EndReturnDispatching DEF SameRunning

\* Dispatching becomes possible again.
LEMMA DspflgSet ==
  ASSUME IInv, TSKCTX, NEW kk \in KernelData,
         kk.enadsp = TRUE, kk.dspflg = k.dspflg, kk.p_runtsk = k.p_runtsk,
         kk.ready_queue = k.ready_queue, kk.ready_primap = k.ready_primap,
         kk.tstat = k.tstat, kk.priority = k.priority,
         \A u : SameTask(kk, k, u)
  PROVE  LET k2 == set_dspflg(kk) IN
         /\ Consistent(k2)
         /\ \A u \in Task \ {k.p_runtsk} : TaskOK(k2, u)
         /\ TaskOK(k, k.p_runtsk)
         /\ SameTask(k2, k, k.p_runtsk)
         /\ k2.dspflg = TRUE /\ k2.enadsp = TRUE /\ k2.p_runtsk = k.p_runtsk
<1> DEFINE k2 == set_dspflg(kk)
<1>1. Consistent(k) /\ TasksOK(k) /\ k.p_runtsk \in Task /\ k.p_runtsk \in Runnable(k)
  BY KernelPart, Caller
<1>2. Runnable(kk) = Runnable(k) /\ Runnable(k) \in SUBSET Task
  BY DEF Runnable
<1>3. ReadyQueue(kk, Runnable(kk))
  BY <1>1, <1>2, SameQueues DEF Consistent
<1>4. /\ k2 \in KernelData /\ k2.dspflg = TRUE
      /\ ReadyQueue(k2, Runnable(kk)) /\ Scheduled(k2, Runnable(kk))
  BY <1>1, <1>2, <1>3, SetDspflg
<1>5. /\ k2.tstat = kk.tstat /\ k2.p_runtsk = kk.p_runtsk /\ k2.enadsp = kk.enadsp
      /\ \A u : SameTask(k2, kk, u)
  BY DEF set_dspflg, KernelData, SameTask
<1> HIDE DEF k2
<1>6. Runnable(k2) = Runnable(kk)
  BY <1>5 DEF Runnable
<1>7. Consistent(k2)
  BY <1>4, <1>6 DEF Consistent
<1>8. \A u : SameTask(k2, k, u)
  BY <1>5 DEF SameTask
<1>9. ASSUME NEW u \in Task \ {k.p_runtsk} PROVE TaskOK(k2, u)
  <2>1. TaskOK(k, u) /\ SameTask(k2, k, u)
    BY <1>1, <1>8 DEF TasksOK
  <2> QED BY <1>4, <1>5, <2>1 DEF TaskOK, SameTask
<1> QED BY <1>1, <1>4, <1>5, <1>7, <1>8, <1>9 DEF TasksOK, k2

\* The running task ends, with dispatching possible.
LEMMA ExitStep ==
  ASSUME IInv, TSKCTX, NEW k2, Consistent(k2),
         \A u \in Task \ {k.p_runtsk} : TaskOK(k2, u),
         SameTask(k2, k, k.p_runtsk),
         k2.dspflg = TRUE, k2.enadsp = TRUE, k2.p_runtsk = k.p_runtsk,
         exit_and_dispatch(task_terminate(k2, k.p_runtsk))
  PROVE  IInv' /\ Steady /\ k'.dspflg
<1> DEFINE t == k.p_runtsk
           k4 == task_terminate(k2, t)
<1>1. t \in Task /\ TaskOK(k, t) /\ ctx = "TASK"
  BY KernelPart, Caller DEF TasksOK
<1>2. exit_and_dispatch(k4)
  OBVIOUS
<1>3. /\ k2.p_lastmtx[t] = <<>>
      /\ k2.tmevtb[t] => TSTAT_WAITING(k2.tstat[t])
  BY <1>1 DEF TaskOK, SameTask
<1>4. /\ Consistent(k4) /\ TasksOK(k4) /\ k4.dspflg = k2.dspflg
      /\ k4.enadsp = k2.enadsp
  <2>1. \A u \in Task \ {t} : TaskOK(k2, u)
    OBVIOUS
  <2>2. t = k2.p_runtsk => k2.dspflg
    OBVIOUS
  <2> HIDE DEF t
  <2> QED BY <1>1, <1>3, <2>1, <2>2, Terminate
<1> HIDE DEF k4
<1> QED BY <1>1, <1>2, <1>4, EndExit

LEMMA ExtTskStep ==
  ASSUME IInv, ext_tsk
  PROVE  IInv' /\ Steady /\ k'.dspflg
<1>1. TSKCTX
  BY DEF ext_tsk
<1>2. Consistent(k) /\ TasksOK(k) /\ k \in KernelData
  BY KernelPart DEF Consistent
<1>3. CASE k.dspflg
  <2>1. exit_and_dispatch(task_terminate(k, k.p_runtsk))
    BY <1>3 DEF ext_tsk
  <2>2. k.dspflg = TRUE /\ k.enadsp = TRUE
    BY <1>2, <1>3 DEF IInv, DspflgOK, KernelData
  <2>3. SameTask(k, k, k.p_runtsk) /\ \A u \in Task \ {k.p_runtsk} : TaskOK(k, u)
    BY <1>2 DEF SameTask, TasksOK
  <2> QED BY <1>1, <1>2, <2>1, <2>2, <2>3, ExitStep
<1>4. CASE ~k.dspflg
  <2> DEFINE kk == [k EXCEPT !.enadsp = TRUE]
             k2 == set_dspflg(kk)
  <2>1. /\ kk \in KernelData /\ kk.enadsp = TRUE /\ kk.dspflg = k.dspflg
        /\ kk.p_runtsk = k.p_runtsk
        /\ kk.ready_queue = k.ready_queue /\ kk.ready_primap = k.ready_primap
        /\ kk.tstat = k.tstat /\ kk.priority = k.priority
        /\ \A u : SameTask(kk, k, u)
    BY <1>2 DEF KernelData, SameTask
  <2>2. exit_and_dispatch(task_terminate(k2, k.p_runtsk))
    BY <1>4 DEF ext_tsk
  <2> HIDE DEF kk
  <2>3. /\ Consistent(k2)
        /\ \A u \in Task \ {k.p_runtsk} : TaskOK(k2, u)
        /\ SameTask(k2, k, k.p_runtsk)
        /\ k2.dspflg = TRUE /\ k2.enadsp = TRUE /\ k2.p_runtsk = k.p_runtsk
    BY <1>1, <2>1, DspflgSet
  <2> HIDE DEF k2
  <2> QED BY <1>1, <2>2, <2>3, ExitStep
<1> QED BY <1>3, <1>4

LEMMA DispatchEnabledStep ==
  ASSUME IInv, TSKCTX, NEW kk \in KernelData,
         kk.enadsp = TRUE, kk.dspflg = k.dspflg, kk.p_runtsk = k.p_runtsk,
         kk.ready_queue = k.ready_queue, kk.ready_primap = k.ready_primap,
         kk.tstat = k.tstat, kk.priority = k.priority,
         \A u : SameTask(kk, k, u),
         DispatchEnabled(kk)
  PROVE  IInv' /\ Steady
<1> DEFINE k2 == set_dspflg(kk)
           t == k.p_runtsk
<1>1. /\ Consistent(k2)
      /\ \A u \in Task \ {t} : TaskOK(k2, u)
      /\ TaskOK(k, t) /\ SameTask(k2, k, t)
      /\ k2.dspflg = TRUE /\ k2.enadsp = TRUE /\ k2.p_runtsk = t
  BY DspflgSet
<1>2. SameTask(kk, k, t)
  OBVIOUS
<1>3. CASE exit_and_dispatch(task_terminate(k2, t))
  <2> HIDE DEF k2
  <2> QED BY <1>1, <1>3, ExitStep
<1>4. CASE /\ ~(kk.raster[t] /\ kk.enater[t])
           /\ k' = dispatch(k2) /\ saved_iipm' = "ENAALL"
           /\ UNCHANGED <<ctx, lock_flag, pendsv, booted>>
  <2> HIDE DEF k2
  <2>1. TaskOK(k2, t)
    BY <1>1, <1>2, <1>4 DEF TaskOK, SameTask
  <2>2. TasksOK(k2)
    BY <1>1, <2>1 DEF TasksOK
  <2>3. /\ Consistent(k') /\ TasksOK(k')
        /\ k'.dspflg /\ k'.enadsp
        /\ k'.p_runtsk = k'.p_schedtsk
        /\ k'.p_runtsk # NULL => k'.p_runtsk \in Runnable(k')
    BY <1>1, <1>4, <2>2, Dispatch
  <2>4. DspflgOK'
    BY <1>4, <2>3 DEF DspflgOK, Runnable
  <2>5. ctx = "TASK"
    BY DEF TSKCTX
  <2>6. NoLostDispatch' /\ BootOK'
    BY <1>4, <2>3, <2>5 DEF IInv, NoLostDispatch, BootOK
  <2> QED BY <1>4, <2>3, <2>4, <2>6, KernelPartPrime DEF IInv, TypeOK, Steady
<1> QED BY <1>3, <1>4 DEF DispatchEnabled

LEMMA RasTerStep ==
  ASSUME IInv, NEW t \in Task, ras_ter(t)
  PROVE  IInv' /\ Steady
<1> DEFINE k1 == [k EXCEPT !.raster[t] = TRUE]
           k2 == IF TSTAT_WAITING(k.tstat[t])
                 THEN wait_dequeue_tmevtb(wait_dequeue_wobj(k1, t), t) ELSE k1
           k0 == [k2 EXCEPT !.tstat[t] = TS_RUNNABLE]
<1>1. ctx = "TASK" /\ t # k.p_runtsk /\ ~TSTAT_DORMANT(k.tstat[t])
  BY DEF ras_ter, CHECK_TSKCTX_UNL, TSKCTX
<1>2. Consistent(k) /\ TasksOK(k) /\ k \in KernelData /\ TaskOK(k, t)
  BY KernelPart DEF Consistent, TasksOK
<1>3. /\ k1 \in KernelData /\ SameSched(k1, k) /\ OnlyTask(k1, k, t)
      /\ k1.tstat = k.tstat /\ k1.priority = k.priority
      /\ k1.raster[t] = TRUE /\ k1.enater = k.enater /\ k1.wupque = k.wupque
      /\ k1.tmevtb = k.tmevtb /\ k1.p_lastmtx = k.p_lastmtx
  BY <1>2 DEF KernelData, SameSched, OnlyTask, SameTask
<1>4. CASE ReturnDispatching(task_terminate(k, t))
  BY <1>1, <1>4, TerminateStep
<1>5. CASE ~k.enater[t] /\ TSTAT_RUNNABLE(k.tstat[t]) /\ Return(k1)
  <2> HIDE DEF k1
  <2>1. TaskOK(k1, t)
    BY <1>1, <1>2, <1>3, <1>5, TstatFacts DEF TaskOK, KernelData
  <2> QED BY <1>1, <1>3, <1>5, <2>1, FieldUpdate
<1>6. CASE /\ ~k.enater[t] /\ ~TSTAT_RUNNABLE(k.tstat[t])
           /\ ReturnDispatching(make_runnable(k0, t))
  <2> HIDE DEF k1
  <2>1. /\ k2 \in KernelData /\ SameSched(k2, k) /\ OnlyTask(k2, k, t)
        /\ k2.priority = k.priority /\ k2.enater = k.enater
        /\ k2.raster[t] = TRUE /\ k2.p_lastmtx = k.p_lastmtx
        /\ ~k2.tmevtb[t]
    <3>2. CASE TSTAT_WAITING(k.tstat[t])
      <4>1. k2 = wait_dequeue_tmevtb(wait_dequeue_wobj(k1, t), t)
        BY <3>2
      <4> HIDE DEF k2
      <4>2. k2 \in KernelData /\ Dequeued(k2, k1, t)
        BY <1>3, <4>1, WaitDequeue
      <4> QED BY <1>3, <4>2 DEF Dequeued, SameSched, OnlyTask, SameTask
    <3>3. CASE ~TSTAT_WAITING(k.tstat[t])
      BY <1>2, <1>3, <3>3 DEF TaskOK
    <3> QED BY <3>2, <3>3
  <2> HIDE DEF k2
  <2>2. /\ TS_RUNNABLE \in Tstat /\ TSTAT_RUNNABLE(TS_RUNNABLE)
        /\ ~TSTAT_DORMANT(TS_RUNNABLE) /\ ~TSTAT_WAIT_MTX(TS_RUNNABLE)
        /\ ~TSTAT_WAIT_SLP(TS_RUNNABLE) /\ "DLY" \notin TS_RUNNABLE
    BY TstatFacts
  <2>3. k0 \in KernelData /\ SameSched(k0, k2) /\ OnlyTask(k0, k2, t)
    BY <2>1, <2>2 DEF KernelData, SameSched, OnlyTask, SameTask
  <2>4. /\ k0.tstat[t] = TS_RUNNABLE /\ k0.priority = k2.priority
        /\ k0.enater = k2.enater /\ k0.raster = k2.raster
        /\ k0.p_lastmtx = k2.p_lastmtx /\ k0.tmevtb = k2.tmevtb
    BY <2>1 DEF KernelData
  <2>5. ReturnDispatching(make_runnable(k0, t))
    BY <1>6
  <2> HIDE DEF k0
  <2>6. SameSched(k0, k) /\ OnlyTask(k0, k, t) /\ k0.priority = k.priority
    BY <2>1, <2>3, <2>4 DEF SameSched, OnlyTask, SameTask
  <2>7. TaskOK(k0, t)
    BY <1>2, <1>6, <2>1, <2>2, <2>4 DEF TaskOK
  <2> QED BY <1>1, <1>6, <2>3, <2>4, <2>5, <2>6, <2>7, WakeUp
<1> QED BY <1>4, <1>5, <1>6 DEF ras_ter

LEMMA TerTskStep ==
  ASSUME IInv, NEW t \in Task, ter_tsk(t)
  PROVE  IInv' /\ Steady
  BY TerminateStep DEF ter_tsk, CHECK_TSKCTX_UNL, TSKCTX

\* A call of the running task that says whether it may be terminated.
LEMMA EnaterUpdate ==
  ASSUME IInv, TSKCTX, NEW b \in BOOLEAN,
         b => ~(k.raster[k.p_runtsk] /\ k.dspflg),
         Return([k EXCEPT !.enater[k.p_runtsk] = b])
  PROVE  IInv' /\ Steady
<1> DEFINE t == k.p_runtsk
           k1 == [k EXCEPT !.enater[t] = b]
<1>1. t \in Task /\ TSTAT_RUNNABLE(k.tstat[t]) /\ ctx = "TASK"
  BY Caller
<1>2. k \in KernelData /\ TaskOK(k, t)
  BY <1>1, KernelPart DEF Consistent, TasksOK
<1>3. k1 \in KernelData /\ SameSched(k1, k) /\ OnlyTask(k1, k, t)
  BY <1>1, <1>2 DEF KernelData, SameSched, OnlyTask, SameTask
<1>4. /\ k1.tstat = k.tstat /\ k1.priority = k.priority
      /\ k1.p_lastmtx = k.p_lastmtx /\ k1.raster = k.raster
      /\ k1.enater[t] = b /\ k1.wupque = k.wupque /\ k1.tmevtb = k.tmevtb
  BY <1>1, <1>2 DEF KernelData
<1>5. Return(k1) /\ (b => ~(k.raster[t] /\ k.dspflg))
  OBVIOUS
<1>6. ~TSTAT_DORMANT(k.tstat[t])
  BY <1>1, <1>2, TstatFacts DEF KernelData
<1>7. t = k1.p_runtsk /\ k1.dspflg = k.dspflg
  BY <1>3 DEF SameSched
<1> HIDE DEF k1
<1>8. TaskOK(k1, t)
  <2> HIDE DEF t
  <2> QED BY <1>1, <1>2, <1>4, <1>5, <1>6, <1>7 DEF TaskOK
<1> QED BY <1>1, <1>3, <1>4, <1>5, <1>8, FieldUpdate

LEMMA DisTerStep ==
  ASSUME IInv, dis_ter
  PROVE  IInv' /\ Steady
  BY EnaterUpdate DEF dis_ter, CHECK_TSKCTX_UNL

LEMMA EnaTerStep ==
  ASSUME IInv, ena_ter
  PROVE  IInv' /\ Steady
<1>1. TSKCTX
  BY DEF ena_ter, CHECK_TSKCTX_UNL
<1>2. CASE /\ k.dspflg
           /\ exit_and_dispatch(task_terminate(k, k.p_runtsk))
  <2>1. Consistent(k) /\ TasksOK(k) /\ k \in KernelData
    BY KernelPart DEF Consistent
  <2>2. k.dspflg = TRUE /\ k.enadsp = TRUE
    BY <1>2, <2>1 DEF IInv, DspflgOK, KernelData
  <2>3. SameTask(k, k, k.p_runtsk) /\ \A u \in Task \ {k.p_runtsk} : TaskOK(k, u)
    BY <2>1 DEF SameTask, TasksOK
  <2> QED BY <1>1, <1>2, <2>1, <2>2, <2>3, ExitStep
<1>3. CASE /\ ~(k.raster[k.p_runtsk] /\ k.dspflg)
           /\ Return([k EXCEPT !.enater[k.p_runtsk] = TRUE])
  BY <1>1, <1>3, EnaterUpdate
<1> QED BY <1>2, <1>3 DEF ena_ter

LEMMA ChgPriStep ==
  ASSUME IInv, NEW t \in Task, NEW newbpri \in Pri, chg_pri(t, newbpri)
  PROVE  IInv' /\ Steady
<1> DEFINE k1 == [k EXCEPT !.bpriority[t] = newbpri]
           k2 == change_priority(k1, t, newbpri, FALSE)
<1>1. ctx = "TASK" /\ ~TSTAT_DORMANT(k.tstat[t])
  BY DEF chg_pri, CHECK_TSKCTX_UNL, TSKCTX
<1>2. Consistent(k) /\ TasksOK(k) /\ k \in KernelData /\ TaskOK(k, t)
  BY KernelPart DEF Consistent, TasksOK
<1>3. ReturnDispatching(k2)
  BY <1>2 DEF chg_pri, TaskOK
<1>4. /\ k1 \in KernelData /\ SameSched(k1, k) /\ OnlyTask(k1, k, t)
      /\ k1.tstat = k.tstat /\ k1.priority = k.priority
      /\ k1.raster = k.raster /\ k1.enater = k.enater /\ k1.wupque = k.wupque
      /\ k1.tmevtb = k.tmevtb /\ k1.p_lastmtx = k.p_lastmtx
      /\ k1.actque = k.actque
  BY <1>2 DEF KernelData, SameSched, OnlyTask, SameTask
<1> HIDE DEF k1
<1>5. Runnable(k1) = Runnable(k) /\ Runnable(k) \in SUBSET Task
  BY <1>4 DEF Runnable
<1>6. Consistent(k1)
  BY <1>2, <1>4, <1>5, Update
<1>7. /\ k2 \in KernelData /\ SameRunning(k2) /\ k2.tstat = k.tstat
      /\ k2.actque = k.actque /\ k2.wupque = k.wupque /\ k2.raster = k.raster
      /\ k2.enater = k.enater /\ k2.p_lastmtx = k.p_lastmtx
      /\ k2.tmevtb = k.tmevtb
      /\ \A u \in Task \ {t} : k2.bpriority[u] = k.bpriority[u]
                                 /\ k2.priority[u] = k.priority[u]
      /\ ReadyQueue(k2, Runnable(k))
      /\ k.dspflg => Scheduled(k2, Runnable(k))
      /\ ~k.dspflg => k2.p_schedtsk = k.p_schedtsk
  <2>1. CASE TSTAT_RUNNABLE(k.tstat[t])
    <3> DEFINE R == Runnable(k)
    <3>1. t \in R /\ R \in SUBSET Task /\ ReadyQueue(k1, R)
          /\ (k.dspflg => Scheduled(k1, R)) /\ k1.dspflg = k.dspflg
      BY <1>4, <1>5, <1>6, <2>1 DEF Runnable, Consistent, SameSched
    <3> HIDE DEF R
    <3>5. TSTAT_RUNNABLE(k1.tstat[t]) /\ k1 \in KernelData /\ FALSE \in BOOLEAN
      BY <1>4, <2>1
    <3>6. ASSUME NEW b \in BOOLEAN
          PROVE  LET k3 == change_priority(k1, t, newbpri, b) IN
                 /\ k3 \in KernelData /\ SameBut4(k3, k1)
                 /\ k3.priority = [k1.priority EXCEPT ![t] = newbpri]
                 /\ ReadyQueue(k3, R)
                 /\ k1.dspflg /\ Scheduled(k1, R) => Scheduled(k3, R)
                 /\ ~k1.dspflg => k3.p_schedtsk = k1.p_schedtsk
      BY <3>1, <3>5, ChangePriority
    <3>2. /\ k2 \in KernelData /\ SameBut4(k2, k1)
          /\ k2.priority = [k1.priority EXCEPT ![t] = newbpri]
          /\ ReadyQueue(k2, R)
          /\ k1.dspflg /\ Scheduled(k1, R) => Scheduled(k2, R)
          /\ ~k1.dspflg => k2.p_schedtsk = k1.p_schedtsk
      BY <3>5, <3>6
    <3> HIDE DEF k2
    <3>3. \A u \in Task \ {t} : k2.priority[u] = k1.priority[u]
      BY <1>4, <3>2 DEF KernelData
    <3> QED BY <1>4, <3>1, <3>2, <3>3 DEF R, SameBut4, SameSched, SameRunning,
                                          OnlyTask, SameTask
  <2>2. CASE ~TSTAT_RUNNABLE(k.tstat[t])
    <3> DEFINE k0 == [k1 EXCEPT !.priority[t] = newbpri]
    <3>1. t \notin Runnable(k)
      BY <2>2 DEF Runnable
    <3>2. k2 \in KernelData /\ SameButQueues(k2, k0)
      BY <1>4, <2>2, ChangePriorityWaiting
    <3> HIDE DEF k2
    <3>3. SameSched(k2, k1)
      BY <1>4, <3>2 DEF KernelData, SameSched, SameButQueues
    <3>4. /\ k2.tstat = k1.tstat /\ k2.bpriority = k1.bpriority
          /\ k2.actque = k1.actque /\ k2.wupque = k1.wupque
          /\ k2.raster = k1.raster /\ k2.enater = k1.enater
          /\ k2.p_lastmtx = k1.p_lastmtx /\ k2.tmevtb = k1.tmevtb
          /\ \A u \in Task \ {t} : k2.priority[u] = k1.priority[u]
      BY <1>4, <3>2 DEF KernelData, SameButQueues
    <3>5. \A u \in Task : k2.priority[u] \in Pri
      BY <3>2 DEF KernelData
    <3>6. ReadyQueue(k2, Runnable(k))
          /\ (Scheduled(k1, Runnable(k)) => Scheduled(k2, Runnable(k)))
      BY <1>5, <1>6, <3>1, <3>3, <3>4, <3>5, UnlinkedTask DEF Consistent, SameSched
    <3> QED BY <1>4, <1>5, <1>6, <3>2, <3>3, <3>4, <3>6 DEF SameSched, SameRunning,
                                      OnlyTask, SameTask, Consistent
  <2> QED BY <2>1, <2>2
<1> HIDE DEF k2
<1>8. Runnable(k2) = Runnable(k)
  BY <1>7 DEF Runnable
<1>9. Consistent(k2)
  BY <1>2, <1>7, <1>8 DEF Consistent, SameRunning
<1>10. OnlyTask(k2, k, t)
  BY <1>7 DEF OnlyTask, SameTask
<1>11. TaskOK(k2, t)
  BY <1>1, <1>2, <1>7 DEF TaskOK, SameRunning
<1>12. TasksOK(k2)
  BY <1>2, <1>7, <1>10, <1>11, OtherTask DEF SameRunning
<1> QED BY <1>1, <1>3, <1>7, <1>9, <1>12, EndReturnDispatching

LEMMA RotRdqStep ==
  ASSUME IInv, NEW pri \in Pri, rot_rdq(pri)
  PROVE  IInv' /\ Steady
<1> DEFINE k1 == rotate_ready_queue(k, pri)
           R == Runnable(k)
<1>1. ctx # "INIT" /\ ReturnDispatching(k1)
  BY DEF rot_rdq, CHECK_UNL, TSKCTX
<1>2. Consistent(k) /\ TasksOK(k) /\ k \in KernelData /\ StillRunnable(k)
  BY KernelPart, Caller DEF Consistent
<1>3. R \in SUBSET Task /\ ReadyQueue(k, R)
  BY <1>2 DEF Consistent, Runnable
<1> HIDE DEF R
<1>4. /\ k1 \in KernelData /\ SameBut3(k1, k) /\ ReadyQueue(k1, R)
      /\ k.dspflg /\ Scheduled(k, R) => Scheduled(k1, R)
      /\ ~k.dspflg => k1.p_schedtsk = k.p_schedtsk
  BY <1>2, <1>3, RotateReadyQueue
<1> HIDE DEF k1
<1>5. Runnable(k1) = R /\ SameRunning(k1)
  BY <1>4 DEF R, Runnable, SameBut3, SameRunning
<1>6. Consistent(k1)
  BY <1>2, <1>4, <1>5 DEF Consistent, SameRunning, R
<1>7. StillRunnable(k1)
  BY <1>2, <1>5 DEF StillRunnable, SameRunning, R
<1>8. TasksOK(k1)
  <2> SUFFICES ASSUME NEW u \in Task PROVE TaskOK(k1, u)
    BY DEF TasksOK
  <2>1. TaskOK(k, u) /\ SameTask(k1, k, u)
    BY <1>2, <1>4 DEF TasksOK, SameBut3, SameTask
  <2> QED BY <1>5, <2>1 DEF TaskOK, SameTask, SameRunning
<1> QED BY <1>1, <1>5, <1>6, <1>7, <1>8, EndReturnDispatching

\* A call of the running task after which dispatching is not possible.
LEMMA DspflgCleared ==
  ASSUME IInv, TSKCTX, NEW k1 \in KernelData, k1.dspflg = FALSE,
         k1.ready_queue = k.ready_queue, k1.ready_primap = k.ready_primap,
         k1.p_schedtsk = k.p_schedtsk, k1.p_runtsk = k.p_runtsk,
         k1.tstat = k.tstat, k1.priority = k.priority,
         \A u : SameTask(k1, k, u),
         k' = k1, UNCHANGED <<ctx, lock_flag, pendsv, booted>>,
         saved_iipm' \in {"ENAALL", "MASKED"},
         ~(k1.enadsp /\ saved_iipm' = "ENAALL")
  PROVE  IInv' /\ Steady
<1>1. /\ Consistent(k) /\ TasksOK(k) /\ k.p_runtsk \in Runnable(k)
      /\ k.p_schedtsk = k.p_runtsk /\ ctx = "TASK" /\ k.p_runtsk # NULL
  BY KernelPart, Caller DEF TSKCTX
<1>2. Runnable(k1) = Runnable(k)
  BY DEF Runnable
<1>3. ReadyQueue(k1, Runnable(k1))
  BY <1>1, <1>2, SameQueues DEF Consistent
<1>4. Consistent(k1)
  BY <1>1, <1>2, <1>3 DEF Consistent
<1>5. TasksOK(k1)
  <2> SUFFICES ASSUME NEW u \in Task PROVE TaskOK(k1, u)
    BY DEF TasksOK
  <2>1. TaskOK(k, u) /\ SameTask(k1, k, u)
    BY <1>1 DEF TasksOK
  <2> QED BY <2>1 DEF TaskOK, SameTask
<1>6. DspflgOK'
  BY <1>1, <1>2 DEF DspflgOK, Runnable
<1>7. NoLostDispatch' /\ BootOK'
  BY <1>1 DEF IInv, NoLostDispatch, BootOK
<1>8. Steady
  BY DEF Steady
<1> QED BY <1>4, <1>5, <1>6, <1>7, <1>8, KernelPartPrime DEF IInv, TypeOK

LEMMA DisDspStep ==
  ASSUME IInv, dis_dsp
  PROVE  IInv' /\ Steady
<1> DEFINE k1 == [k EXCEPT !.enadsp = FALSE, !.dspflg = FALSE]
<1>1. k \in KernelData
  BY KernelPart DEF Consistent
<1>2. /\ k1 \in KernelData /\ k1.dspflg = FALSE /\ k1.enadsp = FALSE
      /\ k1.ready_queue = k.ready_queue /\ k1.ready_primap = k.ready_primap
      /\ k1.p_schedtsk = k.p_schedtsk /\ k1.p_runtsk = k.p_runtsk
      /\ k1.tstat = k.tstat /\ k1.priority = k.priority
      /\ \A u : SameTask(k1, k, u)
  BY <1>1 DEF KernelData, SameTask
<1>3. TSKCTX /\ k' = k1 /\ UNCHANGED cpu
  BY DEF dis_dsp, CHECK_TSKCTX_UNL, Return
<1> HIDE DEF k1
<1>4. saved_iipm' \in {"ENAALL", "MASKED"} /\ UNCHANGED <<ctx, lock_flag, pendsv, booted>>
  BY <1>3 DEF cpu, IInv, TypeOK
<1> QED BY <1>2, <1>3, <1>4, DspflgCleared

LEMMA EnaDspStep ==
  ASSUME IInv, ena_dsp
  PROVE  IInv' /\ Steady
<1> DEFINE k1 == [k EXCEPT !.enadsp = TRUE]
<1>1. k \in KernelData
  BY KernelPart DEF Consistent
<1>2. /\ k1 \in KernelData /\ k1.dspflg = k.dspflg /\ k1.enadsp = TRUE
      /\ k1.ready_queue = k.ready_queue /\ k1.ready_primap = k.ready_primap
      /\ k1.p_schedtsk = k.p_schedtsk /\ k1.p_runtsk = k.p_runtsk
      /\ k1.tstat = k.tstat /\ k1.priority = k.priority
      /\ \A u : SameTask(k1, k, u)
  BY <1>1 DEF KernelData, SameTask
<1>3. TSKCTX
  BY DEF ena_dsp, CHECK_TSKCTX_UNL
<1>4. CASE DispatchEnabled(k1)
  <2> HIDE DEF k1
  <2> QED BY <1>2, <1>3, <1>4, DispatchEnabledStep
<1>5. CASE saved_iipm # "ENAALL" /\ Return(k1)
  <2> HIDE DEF k1
  <2>1. k1.dspflg = FALSE
    BY <1>1, <1>2, <1>5 DEF IInv, DspflgOK, KernelData
  <2>2. k' = k1 /\ UNCHANGED <<ctx, lock_flag, saved_iipm, pendsv, booted>>
    BY <1>5 DEF Return, cpu
  <2>3. saved_iipm' \in {"ENAALL", "MASKED"} /\ saved_iipm' # "ENAALL"
    BY <1>5, <2>2 DEF IInv, TypeOK
  <2> QED BY <1>2, <1>3, <2>1, <2>2, <2>3, DspflgCleared
<1> QED BY <1>4, <1>5 DEF ena_dsp

LEMMA ChgIpmStep ==
  ASSUME IInv, NEW iipm \in {"ENAALL", "MASKED"}, chg_ipm(iipm)
  PROVE  IInv' /\ Steady
<1>1. k \in KernelData
  BY KernelPart DEF Consistent
<1>2. TSKCTX
  BY DEF chg_ipm, CHECK_TSKCTX_UNL
<1>3. CASE k.enadsp /\ DispatchEnabled(k)
  <2>1. k.enadsp = TRUE /\ \A u : SameTask(k, k, u)
    BY <1>1, <1>3 DEF KernelData, SameTask
  <2> QED BY <1>1, <1>2, <1>3, <2>1, DispatchEnabledStep
<1>4. CASE /\ ~(iipm = "ENAALL" /\ k.enadsp)
           /\ k' = [k EXCEPT !.dspflg = FALSE] /\ saved_iipm' = iipm
           /\ UNCHANGED <<ctx, lock_flag, pendsv, booted>>
  <2> DEFINE k1 == [k EXCEPT !.dspflg = FALSE]
  <2>1. /\ k1 \in KernelData /\ k1.dspflg = FALSE /\ k1.enadsp = k.enadsp
        /\ k1.ready_queue = k.ready_queue /\ k1.ready_primap = k.ready_primap
        /\ k1.p_schedtsk = k.p_schedtsk /\ k1.p_runtsk = k.p_runtsk
        /\ k1.tstat = k.tstat /\ k1.priority = k.priority
        /\ \A u : SameTask(k1, k, u)
    BY <1>1 DEF KernelData, SameTask
  <2>2. k' = k1
    BY <1>4
  <2> HIDE DEF k1
  <2> QED BY <1>2, <1>4, <2>1, <2>2, DspflgCleared
<1> QED BY <1>3, <1>4 DEF chg_ipm

LEMMA LockCpuStep ==
  ASSUME IInv, loc_cpu \/ unl_cpu
  PROVE  IInv' /\ Steady
<1>1. lock_flag' \in BOOLEAN /\ UNCHANGED <<k, ctx, saved_iipm, pendsv, booted>>
  BY DEF loc_cpu, unl_cpu
<1>2. Consistent(k') /\ TasksOK(k')
  BY <1>1, KernelPart
<1>3. DspflgOK' /\ NoLostDispatch' /\ BootOK'
  BY <1>1 DEF IInv, DspflgOK, NoLostDispatch, BootOK
<1>4. Steady
  BY <1>1 DEF Steady
<1> QED BY <1>1, <1>2, <1>3, <1>4, KernelPartPrime DEF IInv, TypeOK

\* A task that is interrupted is the one that should run, and it goes on
\* only if that is still so.
LEMMA InterruptStep ==
  ASSUME IInv, InterruptEntry \/ InterruptReturn
  PROVE  IInv' /\ Steady
<1>1. UNCHANGED <<k, lock_flag, saved_iipm, pendsv, booted>>
      /\ ctx \in {"TASK", "INT"} /\ ctx' \in {"TASK", "INT"}
  BY DEF InterruptEntry, InterruptReturn
<1>2. Consistent(k') /\ TasksOK(k')
  BY <1>1, KernelPart
<1>3. DspflgOK' /\ BootOK'
  BY <1>1 DEF IInv, DspflgOK, BootOK
<1>4. NoLostDispatch'
  BY <1>1 DEF IInv, NoLostDispatch, InterruptEntry, InterruptReturn, DspflgOK
<1>5. Steady
  BY <1>1 DEF Steady
<1> QED BY <1>1, <1>2, <1>3, <1>4, <1>5, KernelPartPrime DEF IInv, TypeOK

LEMMA PendsvStep ==
  ASSUME IInv, pendsv_handler
  PROVE  IInv' /\ Steady
<1>1. /\ k' = dispatch(k) /\ ctx' = "TASK" /\ pendsv' = FALSE
      /\ UNCHANGED <<lock_flag, saved_iipm, booted>>
  BY DEF pendsv_handler
<1>2. /\ Consistent(k') /\ TasksOK(k')
      /\ k'.dspflg = k.dspflg /\ k'.enadsp = k.enadsp
      /\ k'.p_runtsk = k'.p_schedtsk
      /\ k'.p_runtsk # NULL => k'.p_runtsk \in Runnable(k')
      /\ k'.p_runtsk = NULL => k'.dspflg
  BY <1>1, KernelPart, Dispatch
<1>3. DspflgOK'
  BY <1>1, <1>2 DEF IInv, DspflgOK, Runnable
<1>4. NoLostDispatch' /\ BootOK'
  BY <1>1, <1>2 DEF NoLostDispatch, BootOK
<1>5. Steady
  BY <1>1, KernelPart DEF Steady, Consistent, dispatch, KernelData
<1> QED BY <1>1, <1>2, <1>3, <1>4, <1>5, KernelPartPrime DEF IInv, TypeOK

-----------------------------------------------------------------------------
(* The invariant holds in every step. *)

LEMMA NextStep == IInv /\ [KNext]_kvars => IInv' /\ Steady
<1> SUFFICES ASSUME IInv, [KNext]_kvars PROVE IInv' /\ Steady
  OBVIOUS
<1>1. CASE initialize_task
  BY <1>1, BootStep
<1>2. CASE start_dispatch
  BY <1>2, StartDispatchStep
<1>3. CASE InterruptEntry \/ InterruptReturn
  BY <1>3, InterruptStep
<1>4. CASE pendsv_handler
  BY <1>4, PendsvStep
<1>5. CASE SystemCall
  <2>1. CASE slp_tsk \/ tslp_tsk
    BY <2>1, SlpTskStep
  <2>2. CASE dly_tsk
    BY <2>2, DlyTskStep
  <2>3. CASE ext_tsk
    BY <2>3, ExtTskStep
  <2>4. CASE dis_ter
    BY <2>4, DisTerStep
  <2>5. CASE ena_ter
    BY <2>5, EnaTerStep
  <2>6. CASE loc_cpu \/ unl_cpu
    BY <2>6, LockCpuStep
  <2>7. CASE dis_dsp
    BY <2>7, DisDspStep
  <2>8. CASE ena_dsp
    BY <2>8, EnaDspStep
  <2>9. CASE \E iipm \in {"ENAALL", "MASKED"} : chg_ipm(iipm)
    BY <2>9, ChgIpmStep
  <2>10. CASE \E p \in Pri : rot_rdq(p)
    BY <2>10, RotRdqStep
  <2> QED BY <1>5, <2>1, <2>2, <2>3, <2>4, <2>5, <2>6, <2>7, <2>8, <2>9, <2>10
          DEF SystemCall
<1>6. CASE \E t \in Task : TaskCall(t)
  <2> SUFFICES ASSUME NEW t \in Task, TaskCall(t) PROVE IInv' /\ Steady
    BY <1>6
  <2>1. CASE act_tsk(t)
    BY <2>1, ActTskStep
  <2>2. CASE can_act(t)
    BY <2>2, CanActStep
  <2>3. CASE wup_tsk(t)
    BY <2>3, WupTskStep
  <2>4. CASE can_wup(t)
    BY <2>4, CanWupStep
  <2>5. CASE rel_wai(t) \/ wait_tmout(t) \/ wait_tmout_ok(t)
    BY <2>5, EndOfWaitSteps
  <2>6. CASE sus_tsk(t)
    BY <2>6, SusTskStep
  <2>7. CASE rsm_tsk(t)
    BY <2>7, RsmTskStep
  <2>8. CASE ras_ter(t)
    BY <2>8, RasTerStep
  <2>9. CASE ter_tsk(t)
    BY <2>9, TerTskStep
  <2>10. CASE \E p \in Pri : chg_pri(t, p)
    BY <2>10, ChgPriStep
  <2> QED BY <2>1, <2>2, <2>3, <2>4, <2>5, <2>6, <2>7, <2>8, <2>9, <2>10
          DEF TaskCall
<1>7. CASE UNCHANGED kvars
  <2>1. Consistent(k') /\ TasksOK(k')
    BY <1>7, KernelPart DEF kvars
  <2>2. DspflgOK' /\ NoLostDispatch' /\ BootOK'
    BY <1>7 DEF IInv, DspflgOK, NoLostDispatch, BootOK, kvars
  <2> QED BY <1>7, <2>1, <2>2, KernelPartPrime DEF IInv, TypeOK, Steady, kvars
<1> QED BY <1>1, <1>2, <1>3, <1>4, <1>5, <1>6, <1>7 DEF KNext

\* Of the calls that may be made with the CPU locked only the end of the task
\* gives up the processor, and no step that does so leaves the CPU locked.
LEMMA LockedStep ==
  ASSUME IInv, [KNext]_kvars, k'.p_runtsk # k.p_runtsk
  PROVE  ~lock_flag' /\ (lock_flag => k'.dspflg)
<1>1. CASE initialize_task
  <2>1. k'.p_runtsk = k.p_runtsk
    BY <1>1, BootStep
  <2> QED BY <2>1
<1>2. CASE start_dispatch
  <2>1. k' = dispatch(k) /\ lock_flag' = FALSE
    BY <1>2 DEF start_dispatch
  <2>2. k'.dspflg = k.dspflg /\ k'.p_runtsk = k.p_schedtsk
    BY <2>1, KernelPart DEF dispatch, Consistent, KernelData
  <2>3. ~k.dspflg => k.p_schedtsk = k.p_runtsk
    BY DEF IInv, SchedtskOK
  <2> QED BY <2>1, <2>2, <2>3, KernelPart DEF Consistent, KernelData
<1>3. CASE ext_tsk
  BY <1>3, ExtTskStep DEF ext_tsk, exit_and_dispatch
<1>4. CASE loc_cpu \/ unl_cpu \/ InterruptEntry \/ InterruptReturn \/ UNCHANGED kvars
  BY <1>4 DEF loc_cpu, unl_cpu, InterruptEntry, InterruptReturn, kvars
<1>5. CASE pendsv_handler
  BY <1>5 DEF pendsv_handler
<1>6. ASSUME NEW kk, ~lock_flag, Return(kk) \/ ReturnDispatching(kk) \/ exit_and_dispatch(kk)
      PROVE  ~lock_flag'
  BY <1>6 DEF Return, ReturnDispatching, exit_and_dispatch, cpu
<1>7. ASSUME NEW kk, ~lock_flag, DispatchEnabled(kk) PROVE ~lock_flag'
  BY <1>6, <1>7 DEF DispatchEnabled
<1>8. CASE SystemCall
  <2>1. CASE slp_tsk \/ tslp_tsk \/ dly_tsk
    BY <1>6, <2>1 DEF slp_tsk, tslp_tsk, dly_tsk, CHECK_DISPATCH, CHECK_TSKCTX_UNL
  <2>2. CASE dis_ter \/ ena_ter \/ dis_dsp
    BY <1>6, <2>2 DEF dis_ter, ena_ter, dis_dsp, CHECK_TSKCTX_UNL
  <2>3. CASE ena_dsp
    BY <1>6, <1>7, <2>3 DEF ena_dsp, CHECK_TSKCTX_UNL
  <2>4. CASE \E iipm \in {"ENAALL", "MASKED"} : chg_ipm(iipm)
    BY <1>7, <2>4 DEF chg_ipm, CHECK_TSKCTX_UNL
  <2>5. CASE \E p \in Pri : rot_rdq(p)
    BY <1>6, <2>5 DEF rot_rdq, CHECK_UNL
  <2> QED BY <1>3, <1>4, <1>8, <2>1, <2>2, <2>3, <2>4, <2>5 DEF SystemCall
<1>9. CASE \E t \in Task : TaskCall(t)
  <2> SUFFICES ASSUME NEW t \in Task, TaskCall(t) PROVE ~lock_flag /\ ~lock_flag'
    BY <1>9
  <2>1. CASE act_tsk(t) \/ can_act(t) \/ wup_tsk(t) \/ can_wup(t)
    BY <1>6, <2>1 DEF act_tsk, can_act, wup_tsk, can_wup, CHECK_UNL, CHECK_TSKCTX_UNL
  <2>2. CASE rel_wai(t) \/ wait_tmout(t) \/ wait_tmout_ok(t)
    BY <1>6, <2>2 DEF rel_wai, wait_tmout, wait_tmout_ok, CHECK_UNL
  <2>3. CASE sus_tsk(t) \/ rsm_tsk(t)
    BY <1>6, <2>3 DEF sus_tsk, rsm_tsk, CHECK_TSKCTX_UNL
  <2>4. CASE ras_ter(t) \/ ter_tsk(t)
    BY <1>6, <2>4 DEF ras_ter, ter_tsk, CHECK_TSKCTX_UNL
  <2>5. CASE \E p \in Pri : chg_pri(t, p)
    BY <1>6, <2>5 DEF chg_pri, CHECK_TSKCTX_UNL
  <2> QED BY <2>1, <2>2, <2>3, <2>4, <2>5 DEF TaskCall
<1> QED BY <1>1, <1>2, <1>3, <1>4, <1>5, <1>8, <1>9 DEF KNext

\* The invariant holds in every state the kernel reaches.
THEOREM Invariant == KSpec => []IInv
<1>1. KInit => IInv
  BY InitIInv
<1>2. IInv /\ [KNext]_kvars => IInv'
  BY NextStep
<1> QED BY <1>1, <1>2, PTL DEF KSpec

-----------------------------------------------------------------------------
(* The properties, for every configuration. *)

\* Every variable of the kernel keeps a value of its C type; p_schedtsk and
\* p_runtsk, which are read out of the queues, always name a task or none.
THEOREM TypeCorrect == KSpec => []TypeOK
<1>1. IInv => TypeOK
  BY DEF IInv
<1> QED BY <1>1, Invariant, PTL

\* Whatever the calls and their order, a task is linked in the ready queue,
\* once and in the queue of its current priority, exactly while it is runnable,
\* and the bitmap shows which queues have a task.
THEOREM ReadyQueueCorrect == KSpec => []ReadyQueueOK
<1>1. IInv => ReadyQueueOK
  BY DEF IInv
<1> QED BY <1>1, Invariant, PTL

\* p_schedtsk, maintained call by call, is always the task that a search of
\* the ready queue would find, or the running task while dispatching is disabled.
THEOREM SchedtskCorrect == KSpec => []SchedtskOK
<1>1. IInv => SchedtskOK
  BY DEF IInv
<1> QED BY <1>1, Invariant, PTL

\* No call forgets its dispatch: the task that computes is always the one that
\* should, and a handler that changed that leaves PendSV pending and unmasked.
THEOREM DispatchNotLost == KSpec => []NoLostDispatch
<1>1. IInv => NoLostDispatch
  BY DEF IInv
<1> QED BY <1>1, Invariant, PTL

\* dspflg is always the conjunction of the two ways to disable dispatching,
\* and a task that has disabled it is never stopped or terminated meanwhile.
THEOREM DspflgCorrect == KSpec => []DspflgOK
<1>1. IInv => DspflgOK
  BY DEF IInv
<1> QED BY <1>1, Invariant, PTL

\* A termination request is never lost: it is pending only for a runnable task
\* that forbids termination, or that runs with dispatching disabled.
THEOREM TerminationNotLost == KSpec => []TerminationPending
<1>1. IInv => TerminationPending
  BY DEF IInv
<1> QED BY <1>1, Invariant, PTL

\* No task sleeps while a wake-up request for it is queued.
THEOREM WakeupNotLost == KSpec => []NoLostWakeup
<1>1. IInv => NoLostWakeup
  BY DEF IInv
<1> QED BY <1>1, Invariant, PTL

\* A time event block on a task's stack is never registered after the wait it
\* belongs to, whichever of the ways of ending a wait has ended it.
THEOREM TimeEventOfWait == KSpec => []TmevtbOK
<1>1. IInv => TmevtbOK
  BY DEF IInv
<1> QED BY <1>1, Invariant, PTL

\* A task that ends leaves nothing behind for its next activation, whatever
\* state it was in and whatever requests it had.
THEOREM DormantCorrect == KSpec => []DormantOK
<1>1. IInv => DormantOK
  BY DEF IInv
<1> QED BY <1>1, Invariant, PTL

\* No request is lost and none is carried over, see the three theorems of its
\* parts: whoever asks a task to wake up, to start or to end is answered once.
THEOREM RequestsCorrect == KSpec => []RequestsOK
<1>1. IInv => RequestsOK
  BY DEF IInv, RequestsOK
<1> QED BY <1>1, Invariant, PTL

\* The processor is where it should be, after every call and interrupt, for
\* any number of tasks and priorities.
THEOREM DispatchCorrect == KSpec => []DispatchOK
<1>1. IInv => DispatchOK
  BY DEF IInv, DispatchOK
<1> QED BY <1>1, Invariant, PTL

\* A task that has disabled dispatching, with dis_dsp or by masking
\* interrupts, or that has locked the CPU, keeps the processor until
\* dispatching is possible and the CPU unlocked again: an interrupt handler
\* that makes another task runnable, or chg_pri, rot_rdq and the like, never
\* move p_schedtsk (task.c) while dspflg is cleared; of the calls a task may
\* make with the CPU locked only ext_tsk gives the processor up, and it
\* undoes the lock.
THEOREM ProcessorKept == KSpec => KeepsProcessor
<1>1. IInv /\ [KNext]_kvars =>
         [(lock_flag \/ ~k.dspflg) /\ k'.p_runtsk # k.p_runtsk =>
             k'.dspflg /\ ~lock_flag']_kvars
  BY NextStep, LockedStep DEF Steady
<1> QED BY <1>1, Invariant, PTL DEF KSpec, KeepsProcessor

-----------------------------------------------------------------------------
(* Wait queues: no step of this module makes a task wait for an object, so *)
(* the queues stay right and lose tasks only.                              *)

\* The waits of all tasks, but one at most, are the same.
OneWaitEnds(k1, kk) ==
    \E t : \A u \in Task \ {t} :
        k1.tstat[u] \cap WaitWobj = kk.tstat[u] \cap WaitWobj

\* The wait queues are right after as before, with no task added and one
\* less at most.
Keeps(k1, kk) ==
    /\ k1 \in KernelData /\ QueuesOK(k1)
    /\ NoNewWaits(k1, kk) /\ OneWaitEnds(k1, kk)

LEMMA KeepsTrans ==
  ASSUME NEW kk, NEW k1, NEW k2, Keeps(k1, kk), Keeps(k2, k1),
         k2.tstat = kk.tstat
  PROVE  Keeps(k2, kk)
<1> SUFFICES ASSUME NEW t \in Task, TSTAT_WAIT_WOBJ(k2.tstat[t])
             PROVE  /\ k2.tstat[t] \cap WaitWobj = kk.tstat[t] \cap WaitWobj
                    /\ k2.wobj[t] = kk.wobj[t]
  <2>1. OneWaitEnds(k2, kk)
    BY DEF OneWaitEnds
  <2> QED BY <2>1 DEF Keeps, NoNewWaits
<1>1. k2.tstat[t] \cap WaitWobj = k1.tstat[t] \cap WaitWobj /\ k2.wobj[t] = k1.wobj[t]
  BY DEF Keeps, NoNewWaits
<1>2. TSTAT_WAIT_WOBJ(k1.tstat[t])
  BY <1>1 DEF TSTAT_WAIT_WOBJ
<1> QED BY <1>1, <1>2 DEF Keeps, NoNewWaits

LEMMA KeepsSame ==
  ASSUME NEW kk \in KernelData, NEW k1 \in KernelData, QueuesOK(kk),
         SameWaits(k1, kk) \/ SameQueueFields(k1, kk)
  PROVE  Keeps(k1, kk)
<1>1. SameWaits(k1, kk)
  BY DEF SameWaits, SameQueueFields
<1> QED BY <1>1, QueuesSame DEF Keeps, SameWaits, OneWaitEnds

LEMMA KeepsReleased ==
  ASSUME NEW kk \in KernelData, NEW k1 \in KernelData, QueuesOK(kk),
         NEW t \in Task, Released(k1, kk, t)
  PROVE  Keeps(k1, kk)
  BY QueuesReleased DEF Keeps, Released, OneWaitEnds

\* A task that waits for no object before and after a call that leaves the
\* other tasks alone.
LEMMA NotWaiting ==
  ASSUME NEW kk, NEW k1, NEW t \in Task,
         k1.wait_queue = kk.wait_queue, k1.wobj = kk.wobj,
         ~TSTAT_WAIT_WOBJ(kk.tstat[t]), ~TSTAT_WAIT_WOBJ(k1.tstat[t]),
         \A u \in Task \ {t} :
            k1.tstat[u] = kk.tstat[u] /\ k1.priority[u] = kk.priority[u]
  PROVE  Released(k1, kk, t)
  BY DEF Released, wait_dequeue_wobj

\* However a call ends, the dispatcher changes p_runtsk alone.
Ends(k1) == Return(k1) \/ ReturnDispatching(k1) \/ exit_and_dispatch(k1)

LEMMA EndFields ==
  ASSUME NEW k1, k' \in KernelData, Ends(k1)
  PROVE  SameQueueFields(k', k1)
<1>1. CASE k' = k1
  BY <1>1 DEF SameQueueFields
<1>2. CASE k' = dispatch(k1)
  <2>1. k' = [k1 EXCEPT !.p_runtsk = k1.p_schedtsk]
    BY <1>2 DEF dispatch
  <2>2. DOMAIN k1 = DOMAIN k'
    BY <2>1
  <2> QED BY <2>1, <2>2 DEF KernelData, SameQueueFields
<1> QED BY <1>1, <1>2 DEF Ends, Return, ReturnDispatching, exit_and_dispatch

LEMMA EndReleased ==
  ASSUME NEW k1, NEW t \in Task, k \in KernelData, QueuesOK(k),
         k' \in KernelData, Ends(k1), Released(k1, k, t)
  PROVE  Keeps(k', k)
<1>1. SameQueueFields(k', k1)
  BY EndFields
<1>2. Released(k', k, t)
  BY <1>1 DEF SameQueueFields, Released
<1> QED BY <1>2, KeepsReleased

LEMMA EndSame ==
  ASSUME NEW k1, k \in KernelData, QueuesOK(k), k' \in KernelData, Ends(k1),
         SameWaits(k1, k) \/ SameQueueFields(k1, k)
  PROVE  Keeps(k', k)
<1>1. SameQueueFields(k', k1)
  BY EndFields
<1>2. SameWaits(k', k)
  BY <1>1 DEF SameQueueFields, SameWaits
<1> QED BY <1>2, KeepsSame

\* The flags for the waits for objects.
LEMMA WaitFlags ==
  /\ \A ts \in Tstat : ~TSTAT_WAITING(ts) => ~TSTAT_WAIT_WOBJ(ts)
  /\ \A ts \in Tstat : TSTAT_WAIT_SLP(ts) => ~TSTAT_WAIT_WOBJ(ts)
  /\ \A ts \in Tstat : ts \ TS_SUSPENDED = TS_WAITING_DLY => ~TSTAT_WAIT_WOBJ(ts)
BY DEF Tstat, TSTAT_WAITING, TSTAT_WAIT_SLP, TSTAT_WAIT_WOBJ, WaitFactor,
       WaitWobj, WaitWobjcb, TS_RUNNABLE, TS_DORMANT, TS_SUSPENDED,
       TS_WAITING_SLP, TS_WAITING_DLY

LEMMA DormantFields ==
  ASSUME NEW kk \in KernelData, NEW t \in Task
  PROVE  LET k1 == make_dormant(kk, t) IN
         /\ k1 \in KernelData
         /\ k1.wait_queue = kk.wait_queue /\ k1.wobj = kk.wobj
         /\ k1.tstat = [kk.tstat EXCEPT ![t] = TS_DORMANT]
         /\ \A u \in Task \ {t} : k1.priority[u] = kk.priority[u]
<1>1. make_dormant(kk, t) \in KernelData
  BY MakeDormant
<1>2. /\ make_dormant(kk, t).wait_queue = kk.wait_queue
      /\ make_dormant(kk, t).wobj = kk.wobj
      /\ make_dormant(kk, t).tstat = [kk.tstat EXCEPT ![t] = TS_DORMANT]
  BY DEF make_dormant, KernelData
<1>3. \A u \in Task \ {t} : make_dormant(kk, t).priority[u] = kk.priority[u]
  BY DEF make_dormant, KernelData
<1> QED BY <1>1, <1>2, <1>3

\* task_terminate takes the task out of the queue it waits in.
LEMMA TerminateReleases ==
  ASSUME NEW kk, NEW t \in Task, Consistent(kk), kk.p_lastmtx[t] = <<>>
  PROVE  Released(task_terminate(kk, t), kk, t)
<1> DEFINE ts == kk.tstat[t]
           k1 == IF TSTAT_RUNNABLE(ts) THEN make_non_runnable(kk, t)
                 ELSE IF TSTAT_WAITING(ts)
                 THEN wait_dequeue_tmevtb(wait_dequeue_wobj(kk, t), t)
                 ELSE kk
           k3 == make_dormant(k1, t)
           k0 == [k3 EXCEPT !.actque[t] = FALSE]
           k5 == [k0 EXCEPT !.tstat[t] = TS_RUNNABLE]
           k4 == IF k3.actque[t] THEN make_active(k0, t) ELSE k3
<1>1. task_terminate(kk, t) = k4
  BY DEF task_terminate
<1>2. ts \in Tstat /\ kk \in KernelData
  BY DEF Consistent, KernelData
<1>3. /\ k1 \in KernelData
      /\ k1.wait_queue = wait_dequeue_wobj(kk, t).wait_queue
      /\ k1.wobj = kk.wobj /\ k1.tstat = kk.tstat /\ k1.priority = kk.priority
  <2>1. CASE TSTAT_RUNNABLE(ts)
    <3>1. ~TSTAT_WAIT_WOBJ(ts)
      BY <1>2, <2>1, TstatFacts, WaitFlags
    <3>2. k1 = make_non_runnable(kk, t) /\ wait_dequeue_wobj(kk, t) = kk
      BY <2>1, <3>1 DEF wait_dequeue_wobj
    <3>3. t \in Runnable(kk) /\ Runnable(kk) \in SUBSET Task
      BY <2>1 DEF Runnable
    <3>4. make_non_runnable(kk, t) \in KernelData
      BY <1>2, <3>3, MakeNonRunnable DEF Consistent
    <3> HIDE DEF k1
    <3> QED BY <1>2, <3>2, <3>4, SchedKeepsQueues DEF SameQueueFields
  <2>2. CASE ~TSTAT_RUNNABLE(ts) /\ TSTAT_WAITING(ts)
    <3>1. k1 = wait_dequeue_tmevtb(wait_dequeue_wobj(kk, t), t)
      BY <2>2
    <3> HIDE DEF k1
    <3>2. k1 \in KernelData /\ Dequeued(k1, kk, t)
      BY <1>2, <3>1, WaitDequeue
    <3> QED BY <3>2 DEF Dequeued
  <2>3. CASE ~TSTAT_RUNNABLE(ts) /\ ~TSTAT_WAITING(ts)
    BY <1>2, <2>3, WaitFlags DEF wait_dequeue_wobj
  <2> QED BY <2>1, <2>2, <2>3
<1> HIDE DEF k1
<1>4. /\ k3 \in KernelData /\ k3.wait_queue = k1.wait_queue /\ k3.wobj = k1.wobj
      /\ k3.tstat = [k1.tstat EXCEPT ![t] = TS_DORMANT]
      /\ \A u \in Task \ {t} : k3.priority[u] = k1.priority[u]
  BY <1>3, DormantFields
<1> HIDE DEF k3
<1>5. /\ k5 \in KernelData /\ k5.wait_queue = k3.wait_queue /\ k5.wobj = k3.wobj
      /\ k5.tstat = [k3.tstat EXCEPT ![t] = TS_RUNNABLE]
      /\ k5.priority = k3.priority
  BY <1>4 DEF KernelData, Tstat
<1>6. make_active(k0, t) = make_runnable(k5, t)
  BY DEF make_active
<1> HIDE DEF k5, k0
<1>7. SameQueueFields(k4, k3) \/ SameQueueFields(k4, k5)
  BY <1>5, <1>6, SchedKeepsQueues DEF SameQueueFields
<1> HIDE DEF k4
<1>8. /\ k4.wait_queue = wait_dequeue_wobj(kk, t).wait_queue /\ k4.wobj = kk.wobj
      /\ k4.tstat[t] \in {TS_DORMANT, TS_RUNNABLE}
      /\ \A u \in Task \ {t} :
            k4.tstat[u] = kk.tstat[u] /\ k4.priority[u] = kk.priority[u]
  <2>1. k1.tstat \in [Task -> Tstat]
    BY <1>3 DEF KernelData
  <2>2. CASE SameQueueFields(k4, k3)
    <3>1. /\ k4.wait_queue = k3.wait_queue /\ k4.wobj = k3.wobj
          /\ k4.tstat = k3.tstat /\ k4.priority = k3.priority
      BY <2>2 DEF SameQueueFields
    <3> QED BY <1>3, <1>4, <2>1, <3>1
  <2>3. CASE SameQueueFields(k4, k5)
    <3>1. /\ k4.wait_queue = k5.wait_queue /\ k4.wobj = k5.wobj
          /\ k4.tstat = k5.tstat /\ k4.priority = k5.priority
      BY <2>3 DEF SameQueueFields
    <3> QED BY <1>3, <1>4, <1>5, <2>1, <3>1
  <2> QED BY <1>7, <2>2, <2>3
<1> QED BY <1>1, <1>8, TstatFacts DEF Released

-----------------------------------------------------------------------------
(* One lemma per kind of call. *)

LEMMA Now == IInv => Consistent(k) /\ TasksOK(k) /\ k \in KernelData
BY KernelPart DEF Consistent

\* A task becomes runnable, or stops being runnable, and waits for no object
\* before or after.
LEMMA KeepsLinked ==
  ASSUME NEW kk \in KernelData, NEW t \in Task, NEW ts \in Tstat,
         NEW k0 \in KernelData, NEW k1,
         ~TSTAT_WAIT_WOBJ(kk.tstat[t]), ~TSTAT_WAIT_WOBJ(ts),
         k0.wait_queue = kk.wait_queue, k0.wobj = kk.wobj,
         k0.tstat = [kk.tstat EXCEPT ![t] = ts],
         \A u \in Task \ {t} : k0.priority[u] = kk.priority[u],
         SameQueueFields(k1, k0)
  PROVE  Released(k1, kk, t)
<1>1. kk.tstat \in [Task -> Tstat]
  BY DEF KernelData
<1>2. /\ k1.wait_queue = kk.wait_queue /\ k1.wobj = kk.wobj
      /\ k1.tstat = [kk.tstat EXCEPT ![t] = ts] /\ k1.priority = k0.priority
  BY DEF SameQueueFields
<1>3. \A u \in Task \ {t} :
         k1.tstat[u] = kk.tstat[u] /\ k1.priority[u] = kk.priority[u]
  BY <1>1, <1>2
<1>4. ~TSTAT_WAIT_WOBJ(k1.tstat[t])
  BY <1>1, <1>2
<1> QED BY <1>2, <1>3, <1>4, NotWaiting

LEMMA BootQueues ==
  ASSUME IInv, QueuesOK(k), k' \in KernelData, initialize_task
  PROVE  Keeps(k', k)
<1> DEFINE t  == torder_table[booted + 1]
           k1 == make_dormant([k EXCEPT !.actque[t] = FALSE], t)
           k2 == [k1 EXCEPT !.p_lastmtx[t] = <<>>]
           k3 == [k2 EXCEPT !.tstat[t] = TS_RUNNABLE]
<1>1. k \in KernelData /\ t \in Task /\ TSTAT_DORMANT(k.tstat[t])
  <2>1. booted + 1 \in 1 .. Len(torder_table) /\ booted + 1 > booted
    BY TorderAssumption DEF initialize_task, IInv, TypeOK
  <2> QED BY <2>1, Now, TorderAssumption DEF initialize_task, IInv, BootOK
<1>2. k' = IF t \in TA_ACT THEN make_active(k2, t) ELSE k2
  BY DEF initialize_task
<1> HIDE DEF t
<1>3. /\ k2 \in KernelData /\ k2.wait_queue = k.wait_queue /\ k2.wobj = k.wobj
      /\ k2.tstat = [k.tstat EXCEPT ![t] = TS_DORMANT]
      /\ \A u \in Task \ {t} : k2.priority[u] = k.priority[u]
  <2> DEFINE ka == [k EXCEPT !.actque[t] = FALSE]
  <2>1. /\ ka \in KernelData /\ ka.wait_queue = k.wait_queue /\ ka.wobj = k.wobj
        /\ ka.tstat = k.tstat /\ ka.priority = k.priority
    BY <1>1 DEF KernelData
  <2>5. k1 = make_dormant(ka, t)
    OBVIOUS
  <2> HIDE DEF ka, k1
  <2>2. /\ k1 \in KernelData /\ k1.wait_queue = k.wait_queue /\ k1.wobj = k.wobj
        /\ k1.tstat = [k.tstat EXCEPT ![t] = TS_DORMANT]
        /\ \A u \in Task \ {t} : k1.priority[u] = k.priority[u]
    BY <1>1, <2>1, <2>5, DormantFields
  <2>3. <<>> \in Seq(Mtx)
    OBVIOUS
  <2>4. /\ k2 \in KernelData /\ k2.wait_queue = k1.wait_queue
        /\ k2.wobj = k1.wobj /\ k2.tstat = k1.tstat /\ k2.priority = k1.priority
    BY <1>1, <2>2, <2>3 DEF KernelData
  <2> HIDE DEF k2
  <2> QED BY <2>2, <2>4
<1> HIDE DEF k2
<1>4. /\ k3 \in KernelData /\ k3.wait_queue = k.wait_queue /\ k3.wobj = k.wobj
      /\ k3.tstat = [k2.tstat EXCEPT ![t] = TS_RUNNABLE]
      /\ k3.priority = k2.priority
  BY <1>1, <1>3 DEF KernelData, Tstat
<1>5. make_active(k2, t) = make_runnable(k3, t)
  BY DEF make_active
<1>6. k3.tstat = [k.tstat EXCEPT ![t] = TS_RUNNABLE]
  BY <1>1, <1>3, <1>4 DEF KernelData
<1> HIDE DEF k3
<1>7. ~TSTAT_WAIT_WOBJ(k.tstat[t])
  BY <1>1, TstatFacts, WaitFlags DEF KernelData
<1>8. CASE t \in TA_ACT
  <2>1. SameQueueFields(k', k3)
    BY <1>2, <1>4, <1>5, <1>8, SchedKeepsQueues
  <2>2. Released(k', k, t)
    BY <1>1, <1>3, <1>4, <1>6, <1>7, <2>1, KeepsLinked, TstatFacts
  <2> QED BY <1>1, <2>2, KeepsReleased
<1>9. CASE t \notin TA_ACT
  <2>1. SameQueueFields(k', k2)
    BY <1>2, <1>9 DEF SameQueueFields
  <2>2. Released(k', k, t)
    BY <1>1, <1>3, <1>7, <2>1, KeepsLinked, TstatFacts
  <2> QED BY <1>1, <2>2, KeepsReleased
<1> QED BY <1>8, <1>9

LEMMA ActTskQueues ==
  ASSUME IInv, QueuesOK(k), k' \in KernelData, NEW t \in Task, act_tsk(t)
  PROVE  Keeps(k', k)
<1>1. k \in KernelData /\ k.tstat[t] \in Tstat
  BY Now DEF KernelData
<1>2. CASE TSTAT_DORMANT(k.tstat[t]) /\ ReturnDispatching(make_active(k, t))
  <2> DEFINE k0 == [k EXCEPT !.tstat[t] = TS_RUNNABLE]
  <2>1. /\ k0 \in KernelData /\ k0.wait_queue = k.wait_queue /\ k0.wobj = k.wobj
        /\ k0.tstat = [k.tstat EXCEPT ![t] = TS_RUNNABLE]
        /\ k0.priority = k.priority
    BY <1>1 DEF KernelData, Tstat
  <2>2. Ends(make_runnable(k0, t))
    BY <1>2 DEF make_active, Ends
  <2> HIDE DEF k0
  <2>3. ~TSTAT_WAIT_WOBJ(k.tstat[t])
    BY <1>1, <1>2, TstatFacts, WaitFlags
  <2>4. SameQueueFields(make_runnable(k0, t), k0)
    BY <2>1, SchedKeepsQueues
  <2>5. Released(make_runnable(k0, t), k, t)
    BY <1>1, <2>1, <2>3, <2>4, KeepsLinked, TstatFacts
  <2> QED BY <1>1, <2>2, <2>5, EndReleased
<1>3. CASE Return([k EXCEPT !.actque[t] = TRUE])
  <2> DEFINE k0 == [k EXCEPT !.actque[t] = TRUE]
  <2>1. SameQueueFields(k0, k) /\ Ends(k0)
    BY <1>1, <1>3 DEF KernelData, SameQueueFields, Ends
  <2> QED BY <1>1, <2>1, EndSame
<1> QED BY <1>2, <1>3 DEF act_tsk

\* slp_tsk, tslp_tsk, dly_tsk.
LEMMA SleepQueues ==
  ASSUME IInv, QueuesOK(k), k' \in KernelData,
         TSKCTX, NEW ts \in {TS_WAITING_SLP, TS_WAITING_DLY}, NEW b \in BOOLEAN,
         ReturnDispatching(
            [make_non_runnable([k EXCEPT !.tstat[k.p_runtsk] = ts], k.p_runtsk)
                EXCEPT !.tmevtb[k.p_runtsk] = b])
  PROVE  Keeps(k', k)
<1> DEFINE t  == k.p_runtsk
           k0 == [k EXCEPT !.tstat[t] = ts]
           k1 == make_non_runnable(k0, t)
           k2 == [k1 EXCEPT !.tmevtb[t] = b]
<1>1. k \in KernelData /\ k.tstat[t] \in Tstat /\ t \in Task /\ TSTAT_RUNNABLE(k.tstat[t])
  BY Now, Caller DEF KernelData
<1>2. Ends(k2)
  BY DEF Ends
<1> HIDE DEF t
<1>3. /\ k0 \in KernelData /\ k0.wait_queue = k.wait_queue /\ k0.wobj = k.wobj
      /\ k0.tstat = [k.tstat EXCEPT ![t] = ts] /\ k0.priority = k.priority
  BY <1>1, TstatFacts DEF KernelData
<1> HIDE DEF k0
<1>4. SameQueueFields(k1, k0)
  BY <1>3, SchedKeepsQueues
<1>5. DOMAIN k1 = DOMAIN k0
  BY <1>3 DEF make_non_runnable, KernelData
<1> HIDE DEF k1
<1>6. SameQueueFields(k2, k0)
  BY <1>3, <1>4, <1>5 DEF SameQueueFields, KernelData
<1> HIDE DEF k2
<1>7. ~TSTAT_WAIT_WOBJ(k.tstat[t])
  BY <1>1, TstatFacts, WaitFlags
<1>8. Released(k2, k, t)
  BY <1>1, <1>3, <1>6, <1>7, KeepsLinked, TstatFacts
<1> QED BY <1>1, <1>2, <1>8, EndReleased

LEMMA SlpTskQueues ==
  ASSUME IInv, QueuesOK(k), k' \in KernelData, slp_tsk \/ tslp_tsk \/ dly_tsk
  PROVE  Keeps(k', k)
<1> DEFINE t == k.p_runtsk
           k0 == [k EXCEPT !.wupque[t] = FALSE]
<1>1. TSKCTX /\ k \in KernelData
  BY Now DEF slp_tsk, tslp_tsk, dly_tsk, CHECK_DISPATCH, CHECK_TSKCTX_UNL
<1>2. CASE Return(k0)
  <2>1. SameQueueFields(k0, k) /\ Ends(k0)
    BY <1>1, <1>2 DEF KernelData, SameQueueFields, Ends
  <2> QED BY <1>1, <2>1, EndSame
<1>3. CASE ReturnDispatching(make_wait(k, TS_WAITING_SLP))
  BY <1>1, <1>3, SleepQueues DEF make_wait, make_wait_tmout
<1>4. CASE ReturnDispatching(make_wait_tmout(k, TS_WAITING_SLP, TRUE))
  BY <1>1, <1>4, SleepQueues DEF make_wait_tmout
<1>5. CASE ReturnDispatching([make_non_runnable([k EXCEPT !.tstat[t] = TS_WAITING_DLY], t)
                                EXCEPT !.tmevtb[t] = TRUE])
  BY <1>1, <1>5, SleepQueues
<1> QED BY <1>2, <1>3, <1>4, <1>5 DEF slp_tsk, tslp_tsk, dly_tsk

\* wup_tsk, rel_wai and the time events of waiting tasks.
LEMMA WakeQueues ==
  ASSUME IInv, QueuesOK(k), k' \in KernelData, NEW t \in Task,
         TSTAT_WAITING(k.tstat[t]),
         NEW k0 \in KernelData, SameSched(k0, k), OnlyTask(k0, k, t),
         k0.tstat = k.tstat, k0.priority = k.priority, ~k0.tmevtb[t],
         k0.raster = k.raster, k0.p_lastmtx = k.p_lastmtx,
         k0.wobj = k.wobj, k0.wait_queue = wait_dequeue_wobj(k, t).wait_queue,
         ReturnDispatching(make_non_wait(k0, t))
  PROVE  Keeps(k', k)
<1> DEFINE k1 == make_non_wait(k0, t)
<1>1. Consistent(k) /\ TasksOK(k) /\ k \in KernelData
  BY Now
<1>2. /\ k1.wait_queue = k0.wait_queue /\ k1.wobj = k0.wobj
      /\ k1.priority = k.priority /\ ~TSTAT_WAIT_WOBJ(k1.tstat[t])
      /\ \A u \in Task \ {t} : k1.tstat[u] = k.tstat[u]
  BY <1>1, WaitEnds
<1>3. Ends(k1)
  BY DEF Ends
<1> HIDE DEF k1
<1>4. Released(k1, k, t)
  BY <1>2 DEF Released
<1> QED BY <1>1, <1>3, <1>4, EndReleased

LEMMA WupTskQueues ==
  ASSUME IInv, QueuesOK(k), k' \in KernelData, NEW t \in Task,
         wup_tsk(t) \/ wait_tmout_ok(t)
  PROVE  Keeps(k', k)
<1>1. k \in KernelData /\ k.tstat[t] \in Tstat
  BY Now DEF KernelData
<1>2. CASE ReturnDispatching(make_non_wait(wait_dequeue_tmevtb(k, t), t))
           /\ TSTAT_WAITING(k.tstat[t]) /\ ~TSTAT_WAIT_WOBJ(k.tstat[t])
  <2> DEFINE k0 == wait_dequeue_tmevtb(k, t)
  <2>1. /\ k0 \in KernelData /\ SameSched(k0, k) /\ OnlyTask(k0, k, t)
        /\ k0.tstat = k.tstat /\ k0.priority = k.priority /\ ~k0.tmevtb[t]
        /\ k0.raster = k.raster /\ k0.p_lastmtx = k.p_lastmtx
        /\ k0.wobj = k.wobj /\ k0.wait_queue = k.wait_queue
    BY <1>1, TmevtbDequeue
  <2>2. wait_dequeue_wobj(k, t) = k
    BY <1>2 DEF wait_dequeue_wobj
  <2>3. ReturnDispatching(make_non_wait(k0, t))
    BY <1>2
  <2> HIDE DEF k0
  <2> QED BY <1>2, <2>1, <2>2, <2>3, WakeQueues
<1>3. CASE Return([k EXCEPT !.wupque[t] = TRUE])
  <2> DEFINE k0 == [k EXCEPT !.wupque[t] = TRUE]
  <2>1. SameQueueFields(k0, k) /\ Ends(k0)
    BY <1>1, <1>3 DEF KernelData, SameQueueFields, Ends
  <2> QED BY <1>1, <2>1, EndSame
<1>4. CASE TSTAT_WAIT_SLP(k.tstat[t]) /\ ReturnDispatching(wait_complete(k, t))
  BY <1>1, <1>2, <1>4, TstatFacts, WaitFlags DEF wait_complete
<1>5. CASE wait_tmout_ok(t)
  <2>1. k.tmevtb[t] /\ k.tstat[t] \ TS_SUSPENDED = TS_WAITING_DLY
        /\ ReturnDispatching(make_non_wait(wait_dequeue_tmevtb(k, t), t))
    BY <1>5 DEF wait_tmout_ok
  <2>2. TSTAT_WAITING(k.tstat[t])
    BY <2>1, Now DEF TasksOK, TaskOK
  <2> QED BY <1>1, <1>2, <2>1, <2>2, WaitFlags
<1> QED BY <1>3, <1>4, <1>5 DEF wup_tsk

LEMMA RelWaiQueues ==
  ASSUME IInv, QueuesOK(k), k' \in KernelData, NEW t \in Task,
         rel_wai(t) \/ wait_tmout(t)
  PROVE  Keeps(k', k)
<1> DEFINE ka == wait_dequeue_tmevtb(wait_dequeue_wobj(k, t), t)
           kb == wait_dequeue_wobj(wait_dequeue_tmevtb(k, t), t)
<1>1. /\ ka \in KernelData /\ Dequeued(ka, k, t)
      /\ kb \in KernelData /\ Dequeued(kb, k, t)
  BY Now, WaitDequeue
<1>2. /\ TSTAT_WAITING(k.tstat[t])
      /\ \/ ReturnDispatching(make_non_wait(ka, t))
         \/ ReturnDispatching(make_non_wait(kb, t))
  BY Now DEF rel_wai, wait_tmout, TasksOK, TaskOK
<1> HIDE DEF ka, kb
<1> QED BY <1>1, <1>2, WakeQueues DEF Dequeued

LEMMA SusTskQueues ==
  ASSUME IInv, QueuesOK(k), k' \in KernelData, NEW t \in Task, sus_tsk(t)
  PROVE  Keeps(k', k)
<1> DEFINE ts == k.tstat[t]
           k0 == [k EXCEPT !.tstat[t] = TS_SUSPENDED]
           k1 == [k EXCEPT !.tstat[t] = ts \cup TS_SUSPENDED]
<1>1. k \in KernelData /\ ts \in Tstat
  BY Now DEF KernelData
<1>2. CASE TSTAT_RUNNABLE(ts) /\ ReturnDispatching(make_non_runnable(k0, t))
  <2>1. /\ k0 \in KernelData /\ k0.wait_queue = k.wait_queue /\ k0.wobj = k.wobj
        /\ k0.tstat = [k.tstat EXCEPT ![t] = TS_SUSPENDED]
        /\ k0.priority = k.priority
    BY <1>1 DEF KernelData, Tstat
  <2>2. Ends(make_non_runnable(k0, t))
    BY <1>2 DEF Ends
  <2> HIDE DEF k0
  <2>3. ~TSTAT_WAIT_WOBJ(k.tstat[t])
    BY <1>1, <1>2, TstatFacts, WaitFlags
  <2>4. SameQueueFields(make_non_runnable(k0, t), k0)
    BY <2>1, SchedKeepsQueues
  <2>5. Released(make_non_runnable(k0, t), k, t)
    BY <1>1, <2>1, <2>3, <2>4, KeepsLinked, TstatFacts
  <2> QED BY <1>1, <2>2, <2>5, EndReleased
<1>3. CASE Return(k1)
  <2>1. /\ k1.wait_queue = k.wait_queue /\ k1.wobj = k.wobj
        /\ k1.priority = k.priority
        /\ k1.tstat = [k.tstat EXCEPT ![t] = ts \cup TS_SUSPENDED]
    BY <1>1 DEF KernelData
  <2>2. (ts \cup TS_SUSPENDED) \cap WaitWobj = ts \cap WaitWobj
    BY DEF TS_SUSPENDED, WaitWobj, WaitWobjcb
  <2>3. SameWaits(k1, k) /\ Ends(k1)
    <3>1. Ends(k1)
      BY <1>3 DEF Ends
    <3> HIDE DEF k1
    <3>2. k.tstat \in [Task -> Tstat]
      BY <1>1 DEF KernelData
    <3>3. \A u \in Task : k1.tstat[u] = IF u = t THEN ts \cup TS_SUSPENDED ELSE k.tstat[u]
      BY <2>1, <3>2
    <3> QED BY <2>1, <2>2, <3>1, <3>3 DEF SameWaits
  <2> QED BY <1>1, <2>3, EndSame
<1> QED BY <1>2, <1>3 DEF sus_tsk

LEMMA RsmTskQueues ==
  ASSUME IInv, QueuesOK(k), k' \in KernelData, NEW t \in Task, rsm_tsk(t)
  PROVE  Keeps(k', k)
<1> DEFINE ts == k.tstat[t]
           k0 == [k EXCEPT !.tstat[t] = TS_RUNNABLE]
           k1 == [k EXCEPT !.tstat[t] = ts \ TS_SUSPENDED]
<1>1. k \in KernelData /\ ts \in Tstat
  BY Now DEF KernelData
<1>2. CASE ~TSTAT_WAITING(ts) /\ ReturnDispatching(make_runnable(k0, t))
  <2>1. /\ k0 \in KernelData /\ k0.wait_queue = k.wait_queue /\ k0.wobj = k.wobj
        /\ k0.tstat = [k.tstat EXCEPT ![t] = TS_RUNNABLE]
        /\ k0.priority = k.priority
    BY <1>1 DEF KernelData, Tstat
  <2>2. Ends(make_runnable(k0, t))
    BY <1>2 DEF Ends
  <2> HIDE DEF k0
  <2>3. ~TSTAT_WAIT_WOBJ(k.tstat[t])
    BY <1>1, <1>2, WaitFlags
  <2>4. SameQueueFields(make_runnable(k0, t), k0)
    BY <2>1, SchedKeepsQueues
  <2>5. Released(make_runnable(k0, t), k, t)
    BY <1>1, <2>1, <2>3, <2>4, KeepsLinked, TstatFacts
  <2> QED BY <1>1, <2>2, <2>5, EndReleased
<1>3. CASE Return(k1)
  <2>1. /\ k1.wait_queue = k.wait_queue /\ k1.wobj = k.wobj
        /\ k1.priority = k.priority
        /\ k1.tstat = [k.tstat EXCEPT ![t] = ts \ TS_SUSPENDED]
    BY <1>1 DEF KernelData
  <2>2. (ts \ TS_SUSPENDED) \cap WaitWobj = ts \cap WaitWobj
    BY DEF TS_SUSPENDED, WaitWobj, WaitWobjcb
  <2>3. SameWaits(k1, k) /\ Ends(k1)
    <3>1. Ends(k1)
      BY <1>3 DEF Ends
    <3> HIDE DEF k1
    <3>2. k.tstat \in [Task -> Tstat]
      BY <1>1 DEF KernelData
    <3>3. \A u \in Task : k1.tstat[u] = IF u = t THEN ts \ TS_SUSPENDED ELSE k.tstat[u]
      BY <2>1, <3>2
    <3> QED BY <2>1, <2>2, <3>1, <3>3 DEF SameWaits
  <2> QED BY <1>1, <2>3, EndSame
<1> QED BY <1>2, <1>3 DEF rsm_tsk

\* ter_tsk, and ras_ter of a task that permits it.
LEMMA TerTskQueues ==
  ASSUME IInv, QueuesOK(k), k' \in KernelData, NEW t \in Task,
         ReturnDispatching(task_terminate(k, t))
  PROVE  Keeps(k', k)
<1>1. Consistent(k) /\ k \in KernelData /\ k.p_lastmtx[t] = <<>>
  BY Now DEF TasksOK, TaskOK
<1>2. Ends(task_terminate(k, t))
  BY DEF Ends
<1> QED BY <1>1, <1>2, TerminateReleases, EndReleased

LEMMA RasTerQueues ==
  ASSUME IInv, QueuesOK(k), k' \in KernelData, NEW t \in Task, ras_ter(t)
  PROVE  Keeps(k', k)
<1> DEFINE ts == k.tstat[t]
           k1 == [k EXCEPT !.raster[t] = TRUE]
           kd == wait_dequeue_tmevtb(wait_dequeue_wobj(k1, t), t)
           k2 == IF TSTAT_WAITING(ts) THEN kd ELSE k1
           k3 == [k2 EXCEPT !.tstat[t] = TS_RUNNABLE]
<1>1. k \in KernelData /\ ts \in Tstat /\ Consistent(k)
  BY Now DEF KernelData
<1>2. /\ k1 \in KernelData /\ SameQueueFields(k1, k)
  BY <1>1 DEF KernelData, SameQueueFields
<1>3. CASE ReturnDispatching(task_terminate(k, t))
  BY <1>3, TerTskQueues
<1>4. CASE Return(k1)
  BY <1>1, <1>2, <1>4, EndSame DEF Ends
<1>5. CASE ReturnDispatching(make_runnable(k3, t))
  <2>1. kd \in KernelData /\ Dequeued(kd, k1, t)
    BY <1>2, WaitDequeue
  <2>2. wait_dequeue_wobj(k1, t).wait_queue = wait_dequeue_wobj(k, t).wait_queue
    BY <1>1, <1>2 DEF SameQueueFields, wait_dequeue_wobj, KernelData
  <2> HIDE DEF k1, kd
  <2>3. /\ k2 \in KernelData /\ k2.tstat = k.tstat /\ k2.priority = k.priority
        /\ k2.wobj = k.wobj
        /\ k2.wait_queue = wait_dequeue_wobj(k, t).wait_queue
    <3>1. CASE TSTAT_WAITING(ts)
      BY <1>2, <2>1, <2>2, <3>1 DEF Dequeued, SameQueueFields
    <3>2. CASE ~TSTAT_WAITING(ts)
      BY <1>1, <1>2, <3>2, WaitFlags DEF SameQueueFields, wait_dequeue_wobj
    <3> QED BY <3>1, <3>2
  <2> HIDE DEF k2
  <2>4. /\ k3 \in KernelData /\ k3.priority = k2.priority /\ k3.wobj = k2.wobj
        /\ k3.wait_queue = k2.wait_queue
        /\ k3.tstat = [k2.tstat EXCEPT ![t] = TS_RUNNABLE]
    BY <2>3 DEF KernelData, Tstat
  <2>5. Ends(make_runnable(k3, t))
    BY <1>5 DEF Ends
  <2> HIDE DEF k3
  <2> DEFINE k4 == make_runnable(k3, t)
  <2>6. SameQueueFields(k4, k3)
    BY <2>4, SchedKeepsQueues
  <2>7. Ends(k4)
    BY <2>5
  <2> HIDE DEF k4
  <2>8. /\ k4.tstat[t] = TS_RUNNABLE
        /\ \A u \in Task \ {t} : k4.tstat[u] = k.tstat[u]
    BY <1>1, <2>3, <2>4, <2>6 DEF KernelData, SameQueueFields
  <2>9. Released(k4, k, t)
    BY <2>3, <2>4, <2>6, <2>8, TstatFacts DEF SameQueueFields, Released
  <2> QED BY <1>1, <2>7, <2>9, EndReleased
<1> QED BY <1>3, <1>4, <1>5 DEF ras_ter

\* A task that ends by itself, with dispatching enabled.
LEMMA ExitQueues ==
  ASSUME IInv, QueuesOK(k), k' \in KernelData, TSKCTX,
         NEW k2, Consistent(k2), SameQueueFields(k2, k),
         k2.p_lastmtx = k.p_lastmtx,
         exit_and_dispatch(task_terminate(k2, k.p_runtsk))
  PROVE  Keeps(k', k)
<1> DEFINE t  == k.p_runtsk
           k1 == task_terminate(k2, t)
<1>1. k \in KernelData /\ t \in Task /\ k.p_lastmtx[t] = <<>>
  BY Now, Caller DEF TasksOK, TaskOK
<1>2. Ends(k1)
  BY DEF Ends
<1> HIDE DEF t
<1>3. Released(k1, k2, t)
  BY <1>1, TerminateReleases
<1> HIDE DEF k1
<1>4. wait_dequeue_wobj(k2, t).wait_queue = wait_dequeue_wobj(k, t).wait_queue
  BY <1>1 DEF SameQueueFields, wait_dequeue_wobj, KernelData, Consistent
<1>5. Released(k1, k, t)
  BY <1>3, <1>4 DEF SameQueueFields, Released
<1> QED BY <1>1, <1>2, <1>5, EndReleased

LEMMA ExtTskQueues ==
  ASSUME IInv, QueuesOK(k), k' \in KernelData, ext_tsk
  PROVE  Keeps(k', k)
<1> DEFINE kk == [k EXCEPT !.enadsp = TRUE]
           k2 == set_dspflg(kk)
<1>1. TSKCTX /\ k \in KernelData
  BY Now DEF ext_tsk
<1>2. CASE k.dspflg
  <2>1. exit_and_dispatch(task_terminate(k, k.p_runtsk))
    BY <1>2 DEF ext_tsk
  <2>2. SameQueueFields(k, k)
    BY DEF SameQueueFields
  <2> QED BY <1>1, <2>1, <2>2, Now, ExitQueues
<1>3. CASE ~k.dspflg
  <2>1. /\ kk \in KernelData /\ SameQueueFields(kk, k)
        /\ kk.p_lastmtx = k.p_lastmtx /\ kk.enadsp = TRUE
        /\ kk.dspflg = k.dspflg /\ kk.p_runtsk = k.p_runtsk
        /\ kk.ready_queue = k.ready_queue /\ kk.ready_primap = k.ready_primap
        /\ kk.tstat = k.tstat /\ kk.priority = k.priority
        /\ \A u : SameTask(kk, k, u)
    BY <1>1 DEF KernelData, SameQueueFields, SameTask
  <2>2. exit_and_dispatch(task_terminate(k2, k.p_runtsk))
    BY <1>3 DEF ext_tsk
  <2> HIDE DEF kk
  <2>3. Consistent(k2)
    BY <1>1, <2>1, DspflgSet
  <2>4. SameQueueFields(k2, kk)
    BY <2>1, SchedKeepsQueues
  <2>5. k2.p_lastmtx = kk.p_lastmtx
    BY <2>1 DEF set_dspflg, KernelData
  <2> HIDE DEF k2
  <2> QED BY <1>1, <2>1, <2>2, <2>3, <2>4, <2>5, ExitQueues DEF SameQueueFields
<1> QED BY <1>2, <1>3

\* ena_dsp, chg_ipm.
LEMMA DispatchEnabledQueues ==
  ASSUME IInv, QueuesOK(k), k' \in KernelData, TSKCTX, NEW kk \in KernelData,
         kk.enadsp = TRUE, kk.dspflg = k.dspflg, kk.p_runtsk = k.p_runtsk,
         kk.ready_queue = k.ready_queue, kk.ready_primap = k.ready_primap,
         SameQueueFields(kk, k), \A u : SameTask(kk, k, u),
         kk.p_lastmtx = k.p_lastmtx, DispatchEnabled(kk)
  PROVE  Keeps(k', k)
<1> DEFINE k2 == set_dspflg(kk)
<1>1. Consistent(k2)
  BY DspflgSet DEF SameQueueFields
<1>2. SameQueueFields(k2, k)
  BY SchedKeepsQueues DEF SameQueueFields
<1>3. k2.p_lastmtx = k.p_lastmtx
  BY DEF set_dspflg, KernelData
<1>4. \/ exit_and_dispatch(task_terminate(k2, k.p_runtsk))
      \/ k' = dispatch(k2)
  BY DEF DispatchEnabled
<1> HIDE DEF k2
<1>5. CASE k' = dispatch(k2)
  <2>1. k2 \in KernelData
    BY <1>1 DEF Consistent
  <2>2. SameQueueFields(k', k2)
    BY <1>5, <2>1 DEF dispatch, KernelData, SameQueueFields
  <2>3. SameQueueFields(k', k)
    BY <1>2, <2>2 DEF SameQueueFields
  <2> QED BY <2>3, Now, KeepsSame
<1> QED BY <1>1, <1>2, <1>3, <1>4, <1>5, ExitQueues

LEMMA EnaTerQueues ==
  ASSUME IInv, QueuesOK(k), k' \in KernelData, ena_ter
  PROVE  Keeps(k', k)
<1> DEFINE t  == k.p_runtsk
           k0 == [k EXCEPT !.enater[t] = TRUE]
<1>1. TSKCTX /\ k \in KernelData /\ Consistent(k)
  BY Now DEF ena_ter, CHECK_TSKCTX_UNL
<1>2. CASE exit_and_dispatch(task_terminate(k, t))
  <2>1. SameQueueFields(k, k)
    BY DEF SameQueueFields
  <2> QED BY <1>1, <1>2, <2>1, ExitQueues
<1>3. CASE Return(k0)
  <2>1. SameQueueFields(k0, k) /\ Ends(k0)
    BY <1>1, <1>3 DEF KernelData, SameQueueFields, Ends
  <2> QED BY <1>1, <2>1, EndSame
<1> QED BY <1>2, <1>3 DEF ena_ter

\* The calls that change a request or a permission and nothing else.
LEMMA FieldQueues ==
  ASSUME IInv, QueuesOK(k), k' \in KernelData,
         \/ \E t \in Task : can_act(t) \/ can_wup(t)
         \/ dis_ter \/ dis_dsp
  PROVE  Keeps(k', k)
<1>1. k \in KernelData
  BY Now
<1>2. \A t \in Task :
         /\ SameQueueFields([k EXCEPT !.actque[t] = FALSE], k)
         /\ SameQueueFields([k EXCEPT !.wupque[t] = FALSE], k)
         /\ SameQueueFields([k EXCEPT !.enater[k.p_runtsk] = FALSE], k)
         /\ SameQueueFields([k EXCEPT !.enadsp = FALSE, !.dspflg = FALSE], k)
  BY <1>1 DEF KernelData, SameQueueFields
<1>3. CASE \E t \in Task : can_act(t)
  BY <1>1, <1>2, <1>3, EndSame DEF can_act, Ends
<1>4. CASE \E t \in Task : can_wup(t)
  BY <1>1, <1>2, <1>4, EndSame DEF can_wup, Ends
<1>5. CASE dis_ter
  <2>1. SameQueueFields([k EXCEPT !.enater[k.p_runtsk] = FALSE], k)
    BY <1>1 DEF KernelData, SameQueueFields
  <2> QED BY <1>1, <1>5, <2>1, EndSame DEF dis_ter, Ends
<1>6. CASE dis_dsp
  <2>1. SameQueueFields([k EXCEPT !.enadsp = FALSE, !.dspflg = FALSE], k)
    BY <1>1 DEF KernelData, SameQueueFields
  <2> QED BY <1>1, <1>6, <2>1, EndSame DEF dis_dsp, Ends
<1> QED BY <1>3, <1>4, <1>5, <1>6

LEMMA RotRdqQueues ==
  ASSUME IInv, QueuesOK(k), k' \in KernelData, NEW pri \in Pri, rot_rdq(pri)
  PROVE  Keeps(k', k)
<1>1. k \in KernelData
  BY Now
<1>2. SameQueueFields(rotate_ready_queue(k, pri), k)
  BY <1>1, SchedKeepsQueues
<1> QED BY <1>1, <1>2, EndSame DEF rot_rdq, Ends

LEMMA EnaDspQueues ==
  ASSUME IInv, QueuesOK(k), k' \in KernelData,
         ena_dsp \/ \E iipm \in {"ENAALL", "MASKED"} : chg_ipm(iipm)
  PROVE  Keeps(k', k)
<1> DEFINE k1 == [k EXCEPT !.enadsp = TRUE]
           k2 == [k EXCEPT !.dspflg = FALSE]
<1>1. TSKCTX /\ k \in KernelData
  BY Now DEF ena_dsp, chg_ipm, CHECK_TSKCTX_UNL
<1>2. /\ k1 \in KernelData /\ SameQueueFields(k1, k)
      /\ k1.p_lastmtx = k.p_lastmtx /\ k1.enadsp = TRUE
      /\ k1.dspflg = k.dspflg /\ k1.p_runtsk = k.p_runtsk
      /\ k1.ready_queue = k.ready_queue /\ k1.ready_primap = k.ready_primap
      /\ \A u : SameTask(k1, k, u)
  BY <1>1 DEF KernelData, SameQueueFields, SameTask
<1>3. SameQueueFields(k2, k)
  BY <1>1 DEF KernelData, SameQueueFields
<1>4. CASE DispatchEnabled(k1)
  <2> HIDE DEF k1
  <2> QED BY <1>1, <1>2, <1>4, DispatchEnabledQueues
<1>5. CASE Return(k1)
  BY <1>1, <1>2, <1>5, EndSame DEF Ends
<1>6. CASE k.enadsp /\ DispatchEnabled(k)
  <2>1. SameQueueFields(k, k) /\ \A u : SameTask(k, k, u)
    BY DEF SameQueueFields, SameTask
  <2>2. k.enadsp = TRUE
    BY <1>1, <1>6 DEF KernelData
  <2> QED BY <1>1, <1>6, <2>1, <2>2, DispatchEnabledQueues
<1>7. CASE k' = k2
  BY <1>1, <1>3, <1>7, KeepsSame
<1> HIDE DEF k1, k2
<1>8. CASE ena_dsp
  BY <1>4, <1>5, <1>8 DEF ena_dsp, k1
<1>9. CASE \E iipm \in {"ENAALL", "MASKED"} : chg_ipm(iipm)
  <2> PICK iipm \in {"ENAALL", "MASKED"} : chg_ipm(iipm)
    BY <1>9
  <2> QED BY <1>6, <1>7 DEF chg_ipm, k2
<1> QED BY <1>8, <1>9

\* A task that is not runnable keeps its place in its wait queue, or gets
\* the one of its new priority.
LEMMA ChgPriQueues ==
  ASSUME IInv, QueuesOK(k), k' \in KernelData, NEW t \in Task,
         NEW newbpri \in Pri, chg_pri(t, newbpri)
  PROVE  Keeps(k', k)
<1> DEFINE k1 == [k EXCEPT !.bpriority[t] = newbpri]
           k2 == change_priority(k1, t, newbpri, FALSE)
           R  == Runnable(k1)
<1>1. k \in KernelData /\ Consistent(k) /\ k.tstat[t] \in Tstat
  BY Now DEF KernelData
<1>2. /\ k1 \in KernelData /\ SameQueueFields(k1, k)
      /\ k1.ready_queue = k.ready_queue /\ k1.ready_primap = k.ready_primap
  BY <1>1 DEF KernelData, SameQueueFields
<1>3. Return(k1) \/ ReturnDispatching(k2)
  BY DEF chg_pri
<1>4. CASE Return(k1)
  BY <1>1, <1>2, <1>4, EndSame DEF Ends
<1> HIDE DEF k1
<1>5. CASE ReturnDispatching(k2) /\ TSTAT_RUNNABLE(k.tstat[t])
  <2>1. R \in SUBSET Task /\ t \in R /\ R = Runnable(k)
    BY <1>2, <1>5 DEF Runnable, SameQueueFields
  <2>2. ReadyQueue(k1, R)
    BY <1>1, <1>2, <2>1, SameQueues DEF Consistent, SameQueueFields
  <2>3. TSTAT_RUNNABLE(k1.tstat[t])
    BY <1>2, <1>5 DEF SameQueueFields
  <2> HIDE DEF R
  <2>4. /\ SameBut4(k2, k1)
        /\ k2.priority = [k1.priority EXCEPT ![t] = newbpri]
    <3>1. ASSUME NEW b \in BOOLEAN
          PROVE  LET k3 == change_priority(k1, t, newbpri, b) IN
                 /\ SameBut4(k3, k1)
                 /\ k3.priority = [k1.priority EXCEPT ![t] = newbpri]
      BY <1>2, <2>1, <2>2, <2>3, ChangePriority
    <3>2. FALSE \in BOOLEAN
      OBVIOUS
    <3> QED BY <3>1, <3>2
  <2>5. Ends(k2)
    BY <1>5 DEF Ends
  <2> HIDE DEF k2
  <2>6. \A u \in Task \ {t} : k2.priority[u] = k.priority[u]
    BY <1>1, <1>2, <2>4 DEF KernelData, SameQueueFields
  <2>7. ~TSTAT_WAIT_WOBJ(k.tstat[t])
    BY <1>1, <1>5, TstatFacts, WaitFlags
  <2>8. Released(k2, k, t)
    BY <1>2, <2>4, <2>6, <2>7, NotWaiting DEF SameQueueFields, SameBut4
  <2> QED BY <1>1, <2>5, <2>8, EndReleased
<1>6. CASE ReturnDispatching(k2) /\ ~TSTAT_RUNNABLE(k.tstat[t])
  <2>1. ~TSTAT_RUNNABLE(k1.tstat[t])
    BY <1>2, <1>6 DEF SameQueueFields
  <2>2. Keeps(k1, k)
    BY <1>1, <1>2, KeepsSame
  <2> DEFINE k3 == [k1 EXCEPT !.priority[t] = newbpri]
  <2>6. /\ k2 \in KernelData /\ QueuesOK(k2) /\ NoNewWaits(k2, k1)
        /\ SameButQueues(k2, k3)
    BY <1>2, <2>1, <2>2, ChangePriorityWaiting DEF Keeps
  <2>7. k2.tstat = k1.tstat
    <3>1. k3.tstat = k1.tstat
      BY <1>2 DEF KernelData
    <3> HIDE DEF k3
    <3> QED BY <2>6, <3>1 DEF SameButQueues
  <2>3. Keeps(k2, k1)
    BY <2>6, <2>7 DEF Keeps, OneWaitEnds
  <2>4. SameQueueFields(k', k2)
    BY <1>6, EndFields DEF Ends
  <2> HIDE DEF k2
  <2>5. Keeps(k', k2)
    BY <2>3, <2>4, KeepsSame DEF Keeps
  <2>8. k2.tstat = k.tstat /\ k'.tstat = k.tstat
    BY <1>2, <2>4, <2>7 DEF SameQueueFields
  <2> QED BY <2>2, <2>3, <2>5, <2>8, KeepsTrans
<1> QED BY <1>3, <1>4, <1>5, <1>6

\* No step of this module makes a task wait for an object, and none spoils
\* the queues of those that do.
LEMMA QueuesStep ==
  ASSUME IInv, QueuesOK(k), [KNext]_kvars
  PROVE  Keeps(k', k)
<1>1. k \in KernelData /\ k' \in KernelData
  BY Now, NextStep DEF IInv, TypeOK
<1>2. CASE initialize_task
  BY <1>1, <1>2, BootQueues
<1>3. CASE start_dispatch \/ InterruptEntry \/ InterruptReturn \/ pendsv_handler
           \/ loc_cpu \/ unl_cpu \/ UNCHANGED kvars
  <2>1. k' = k \/ k' = dispatch(k)
    BY <1>3 DEF start_dispatch, InterruptEntry, InterruptReturn, pendsv_handler,
                loc_cpu, unl_cpu, kvars
  <2>2. SameQueueFields(k', k)
    BY <1>1, <2>1 DEF dispatch, KernelData, SameQueueFields
  <2> QED BY <1>1, <2>2, KeepsSame
<1>4. CASE slp_tsk \/ tslp_tsk \/ dly_tsk
  BY <1>1, <1>4, SlpTskQueues
<1>5. CASE ext_tsk \/ ena_ter
  BY <1>1, <1>5, ExtTskQueues, EnaTerQueues
<1>6. CASE dis_ter \/ dis_dsp
  BY <1>1, <1>6, FieldQueues
<1>7. CASE ena_dsp \/ \E iipm \in {"ENAALL", "MASKED"} : chg_ipm(iipm)
  BY <1>1, <1>7, EnaDspQueues
<1>8. CASE \E p \in Pri : rot_rdq(p)
  BY <1>1, <1>8, RotRdqQueues
<1>9. CASE SystemCall
  BY <1>3, <1>4, <1>5, <1>6, <1>7, <1>8, <1>9 DEF SystemCall
<1>10. ASSUME NEW t \in Task, TaskCall(t) PROVE Keeps(k', k)
  <2>1. CASE act_tsk(t)
    BY <1>1, <2>1, ActTskQueues
  <2>2. CASE can_act(t) \/ can_wup(t)
    BY <1>1, <2>2, FieldQueues
  <2>3. CASE wup_tsk(t) \/ wait_tmout_ok(t)
    BY <1>1, <2>3, WupTskQueues
  <2>4. CASE rel_wai(t) \/ wait_tmout(t)
    BY <1>1, <2>4, RelWaiQueues
  <2>5. CASE sus_tsk(t)
    BY <1>1, <2>5, SusTskQueues
  <2>6. CASE rsm_tsk(t)
    BY <1>1, <2>6, RsmTskQueues
  <2>7. CASE ras_ter(t)
    BY <1>1, <2>7, RasTerQueues
  <2>8. CASE ter_tsk(t)
    BY <1>1, <2>8, TerTskQueues DEF ter_tsk
  <2>9. CASE \E p \in Pri : chg_pri(t, p)
    BY <1>1, <2>9, ChgPriQueues
  <2> QED BY <1>10, <2>1, <2>2, <2>3, <2>4, <2>5, <2>6, <2>7, <2>8, <2>9
          DEF TaskCall
<1> QED BY <1>2, <1>3, <1>9, <1>10 DEF KNext

-----------------------------------------------------------------------------
(* The queues of every state, and with them the choice of the task to run. *)

\* At first nobody waits.
LEMMA InitQueues ==
  ASSUME KInit
  PROVE  QueuesOK(k) /\ \A t \in Task : ~TSTAT_WAIT_WOBJ(k.tstat[t])
<1>1. \A w \in Wobj : k.wait_queue[w] = <<>>
  BY DEF KInit, InitKernel
<1>2. \A t \in Task : k.tstat[t] = TS_DORMANT
  BY DEF KInit, InitKernel
<1>3. \A t \in Task : ~TSTAT_WAIT_WOBJ(k.tstat[t])
  BY <1>2, TstatFacts
<1>4. \A w \in Wobj, t \in Task : ~Contains(k.wait_queue[w], t)
  BY <1>1 DEF Contains
<1>5. \A w \in Wobj : IsInjective(k.wait_queue[w])
  BY <1>1 DEF IsInjective
<1>6. \A w \in Wobj : DOMAIN k.wait_queue[w] = {}
  BY <1>1
<1> QED BY <1>3, <1>4, <1>5, <1>6 DEF QueuesOK, WaitQueues, OthersByArrival

\* All that the objects tasks wait for rely on: whatever the calls of this
\* module do, in tasks and in interrupt handlers, the wait queues, the ready
\* queue and the dispatch stay right.
THEOREM SchedulingCorrect == KSpec => []SchedulingOK
<1>1. KInit => QueuesOK(k)
  BY InitQueues
<1>2. IInv /\ QueuesOK(k) /\ [KNext]_kvars => QueuesOK(k)'
  <2> SUFFICES ASSUME IInv, QueuesOK(k), [KNext]_kvars PROVE QueuesOK(k')
    BY DEF QueuesOK, WaitQueues, OthersByArrival
  <2> QED BY QueuesStep DEF Keeps
<1>3. IInv /\ QueuesOK(k) => SchedulingOK
  BY DEF IInv, QueuesOK, SchedulingOK, DispatchOK
<1> QED BY <1>1, <1>2, <1>3, InitIInv, NextStep, PTL DEF KSpec

-----------------------------------------------------------------------------
(* Permission to be terminated. *)

\* The permissions are the same.
SameEnater(k1, kk) == DOMAIN k1 = DOMAIN kk /\ k1.enater = kk.enater

LEMMA SchedKeepsEnater ==
  ASSUME NEW kk, NEW t, NEW u, "enater" \in DOMAIN kk
  PROVE  /\ SameEnater(make_runnable(kk, t), kk)
         /\ SameEnater(make_non_runnable(kk, t), kk)
         /\ SameEnater(set_dspflg(kk), kk)
         /\ SameEnater(rotate_ready_queue(kk, t), kk)
         /\ SameEnater(wait_dequeue_wobj(kk, t), kk)
         /\ SameEnater(wait_dequeue_tmevtb(kk, t), kk)
         /\ SameEnater(make_active(kk, t), kk)
         /\ SameEnater(make_non_wait(kk, t), kk)
         /\ SameEnater(dispatch(kk), kk)
<1>1. SameEnater(make_runnable(kk, t), kk)
  BY DEF make_runnable, SameEnater
<1>2. SameEnater(make_non_runnable(kk, t), kk)
  BY DEF make_non_runnable, SameEnater
<1>3. SameEnater(set_dspflg(kk), kk)
  BY DEF set_dspflg, SameEnater
<1>4. SameEnater(rotate_ready_queue(kk, t), kk)
  BY DEF rotate_ready_queue, SameEnater
<1>5. SameEnater(wait_dequeue_wobj(kk, t), kk)
  BY DEF wait_dequeue_wobj, SameEnater
<1>6. SameEnater(wait_dequeue_tmevtb(kk, t), kk)
  BY DEF wait_dequeue_tmevtb, SameEnater
<1>7. SameEnater(make_active(kk, t), kk)
  BY DEF make_active, make_runnable, SameEnater
<1>8. SameEnater(make_non_wait(kk, t), kk)
  BY DEF make_non_wait, make_runnable, SameEnater
<1>9. SameEnater(dispatch(kk), kk)
  BY DEF dispatch, SameEnater
<1> QED BY <1>1, <1>2, <1>3, <1>4, <1>5, <1>6, <1>7, <1>8, <1>9

LEMMA ChangePriorityEnater ==
  ASSUME NEW kk, NEW t, NEW newpri, NEW mtxmode, "enater" \in DOMAIN kk
  PROVE  SameEnater(change_priority(kk, t, newpri, mtxmode), kk)
<1> DEFINE k0 == [kk EXCEPT !.priority[t] = newpri]
           w  == kk.wobj[t]
           ka == [k0 EXCEPT !.wait_queue = queue_delete(@, t)]
           kb == wobj_queue_insert(ka, w, t)
           k2 == change_priority(kk, t, newpri, mtxmode)
<1>1. SameEnater(k0, kk)
  BY DEF SameEnater
<1>2. SameEnater(ka, k0)
  BY <1>1 DEF SameEnater
<1>3. SameEnater(kb, ka)
  BY <1>1, <1>2 DEF SameEnater, wobj_queue_insert
<1>4. SameEnater(wobj_change_priority(k0, w, t), kk)
  <2>1. wobj_change_priority(k0, w, t) = kb \/ wobj_change_priority(k0, w, t) = k0
    BY DEF wobj_change_priority
  <2> HIDE DEF ka, kb, k0
  <2> QED BY <1>1, <1>2, <1>3, <2>1 DEF SameEnater
<1>5. CASE TSTAT_RUNNABLE(kk.tstat[t])
  BY <1>5 DEF change_priority, SameEnater
<1>6. CASE ~TSTAT_RUNNABLE(kk.tstat[t])
  <2>1. k2 = k0 \/ k2 = wobj_change_priority(k0, w, t)
    BY <1>6 DEF change_priority
  <2> HIDE DEF k0, k2
  <2>2. SameEnater(k2, kk)
    BY <1>1, <1>4, <2>1
  <2> QED BY <2>2 DEF k2
<1> QED BY <1>5, <1>6

\* Only the permission of the task that ends is set.
LEMMA TerminateEnater ==
  ASSUME NEW kk \in KernelData, NEW t \in Task, kk.p_lastmtx[t] = <<>>
  PROVE  LET k1 == task_terminate(kk, t) IN
         /\ DOMAIN k1 = DOMAIN kk
         /\ \A u \in Task \ {t} : k1.enater[u] = kk.enater[u]
<1> DEFINE k1 == IF TSTAT_RUNNABLE(kk.tstat[t]) THEN make_non_runnable(kk, t)
                 ELSE IF TSTAT_WAITING(kk.tstat[t])
                 THEN wait_dequeue_tmevtb(wait_dequeue_wobj(kk, t), t)
                 ELSE kk
           k3 == make_dormant(k1, t)
           k0 == [k3 EXCEPT !.actque[t] = FALSE]
           k4 == IF k3.actque[t] THEN make_active(k0, t) ELSE k3
<1>1. task_terminate(kk, t) = k4
  BY DEF task_terminate
<1>2. "enater" \in DOMAIN kk /\ kk.enater \in [Task -> BOOLEAN]
  BY DEF KernelData
<1>3. SameEnater(k1, kk)
  <2>1. SameEnater(wait_dequeue_wobj(kk, t), kk)
    BY <1>2, SchedKeepsEnater
  <2>2. SameEnater(wait_dequeue_tmevtb(wait_dequeue_wobj(kk, t), t), kk)
    BY <1>2, <2>1, SchedKeepsEnater DEF SameEnater
  <2>3. SameEnater(make_non_runnable(kk, t), kk) /\ SameEnater(kk, kk)
    BY <1>2, SchedKeepsEnater DEF SameEnater
  <2> QED BY <2>2, <2>3
<1> HIDE DEF k1
<1>4. DOMAIN k3 = DOMAIN k1 /\ k3.enater = [k1.enater EXCEPT ![t] = TRUE]
  BY <1>2, <1>3 DEF make_dormant, SameEnater
<1> HIDE DEF k3
<1>5. SameEnater(k0, k3)
  BY <1>2, <1>3, <1>4 DEF SameEnater
<1> HIDE DEF k0
<1>6. SameEnater(make_active(k0, t), k0)
  BY <1>2, <1>3, <1>4, <1>5, SchedKeepsEnater DEF SameEnater
<1>7. SameEnater(k4, k3)
  BY <1>5, <1>6 DEF SameEnater
<1> HIDE DEF k4
<1> QED BY <1>1, <1>2, <1>3, <1>4, <1>7 DEF SameEnater

\* The calls that end no task.
LEMMA EnaterKept ==
  ASSUME NEW k1, SameEnater(k1, k), k \in KernelData, k' = k1 \/ k' = dispatch(k1)
  PROVE  k'.enater = k.enater
<1>1. "enater" \in DOMAIN k1
  BY DEF SameEnater, KernelData
<1>2. SameEnater(dispatch(k1), k1)
  BY <1>1, SchedKeepsEnater
<1> QED BY <1>2 DEF SameEnater

LEMMA CallEnater ==
  ASSUME IInv, NEW t \in Task,
         \/ act_tsk(t) \/ can_act(t) \/ wup_tsk(t) \/ can_wup(t) \/ rel_wai(t)
         \/ sus_tsk(t) \/ rsm_tsk(t) \/ wait_tmout(t) \/ wait_tmout_ok(t)
         \/ \E p \in Pri : chg_pri(t, p)
  PROVE  k'.enater = k.enater
<1> DEFINE Set(k1) == SameEnater(k1, k) /\ "enater" \in DOMAIN k1
<1>1. k \in KernelData /\ Set(k)
  BY Now DEF KernelData, SameEnater
<1>2. ASSUME NEW k1, Set(k1), Ends(k1) PROVE k'.enater = k.enater
  BY <1>1, <1>2, EnaterKept DEF Ends, Return, ReturnDispatching, exit_and_dispatch
<1>3. ASSUME NEW k1, Set(k1)
      PROVE  /\ Set(make_runnable(k1, t)) /\ Set(make_non_runnable(k1, t))
             /\ Set(make_active(k1, t)) /\ Set(make_non_wait(k1, t))
             /\ Set(wait_dequeue_wobj(k1, t)) /\ Set(wait_dequeue_tmevtb(k1, t))
             /\ \A p \in Pri : \A b \in BOOLEAN : Set(change_priority(k1, t, p, b))
  BY <1>3, SchedKeepsEnater, ChangePriorityEnater DEF SameEnater
<1>4. /\ Set([k EXCEPT !.actque[t] = TRUE]) /\ Set([k EXCEPT !.actque[t] = FALSE])
      /\ Set([k EXCEPT !.wupque[t] = TRUE]) /\ Set([k EXCEPT !.wupque[t] = FALSE])
      /\ \A ts : Set([k EXCEPT !.tstat[t] = ts])
      /\ \A p : Set([k EXCEPT !.bpriority[t] = p])
  BY <1>1 DEF SameEnater
<1> HIDE DEF Set
<1>5. CASE act_tsk(t) \/ can_act(t)
  BY <1>1, <1>2, <1>3, <1>4, <1>5 DEF act_tsk, can_act, Ends
<1>6. CASE wup_tsk(t) \/ can_wup(t) \/ wait_tmout_ok(t)
  BY <1>1, <1>2, <1>3, <1>4, <1>6 DEF wup_tsk, can_wup, wait_tmout_ok, wait_complete, Ends
<1>7. CASE rel_wai(t) \/ wait_tmout(t)
  BY <1>1, <1>2, <1>3, <1>4, <1>7 DEF rel_wai, wait_tmout, Ends
<1>8. CASE sus_tsk(t) \/ rsm_tsk(t)
  BY <1>1, <1>2, <1>3, <1>4, <1>8 DEF sus_tsk, rsm_tsk, Ends
<1>9. CASE \E p \in Pri : chg_pri(t, p)
  <2> PICK p \in Pri : chg_pri(t, p)
    BY <1>9
  <2> DEFINE k1 == [k EXCEPT !.bpriority[t] = p]
  <2>1. Return(k1) \/ ReturnDispatching(change_priority(k1, t, p, FALSE))
    BY DEF chg_pri
  <2>2. Set(k1)
    BY <1>4
  <2> HIDE DEF k1
  <2>3. Set(change_priority(k1, t, p, FALSE))
    <3>1. FALSE \in BOOLEAN
      OBVIOUS
    <3> QED BY <1>3, <2>2, <3>1
  <2> QED BY <1>2, <2>1, <2>2, <2>3 DEF Ends
<1> QED BY <1>5, <1>6, <1>7, <1>8, <1>9

\* The calls that end the task u set its permission and no other.
LEMMA EnderEnater ==
  ASSUME NEW k2 \in KernelData, NEW u \in Task, k2.enater = k.enater,
         k2.p_lastmtx[u] = <<>>,
         k' = task_terminate(k2, u) \/ k' = dispatch(task_terminate(k2, u))
  PROVE  \A t \in Task \ {u} : k'.enater[t] = k.enater[t]
<1> DEFINE k1 == task_terminate(k2, u)
<1>1. /\ DOMAIN k1 = DOMAIN k2
      /\ \A t \in Task \ {u} : k1.enater[t] = k2.enater[t]
  BY TerminateEnater
<1>2. "enater" \in DOMAIN k1
  BY <1>1 DEF KernelData
<1> HIDE DEF k1
<1>3. dispatch(k1).enater = k1.enater
  BY <1>2, SchedKeepsEnater DEF SameEnater
<1> QED BY <1>1, <1>3 DEF k1

\* The calls by which a task permits, forbids or ends what concerns itself.
LEMMA OwnEnater ==
  ASSUME IInv, ext_tsk \/ dis_ter \/ ena_ter \/ ena_dsp \/ dis_dsp
               \/ \E iipm \in {"ENAALL", "MASKED"} : chg_ipm(iipm)
  PROVE  \A t \in Task \ {k.p_runtsk} : k'.enater[t] = k.enater[t]
<1> DEFINE r  == k.p_runtsk
           ka == [k EXCEPT !.enadsp = TRUE]
           ks == set_dspflg(k)
           kb == set_dspflg(ka)
<1>1. k \in KernelData /\ r \in Task /\ k.p_lastmtx[r] = <<>> /\ TSKCTX
      /\ k.enater \in [Task -> BOOLEAN]
  BY Now, Caller DEF TasksOK, TaskOK, KernelData, ext_tsk, dis_ter, ena_ter,
                     ena_dsp, dis_dsp, chg_ipm, CHECK_TSKCTX_UNL
<1>2. /\ ka \in KernelData /\ ka.enater = k.enater /\ ka.p_lastmtx[r] = <<>>
  BY <1>1 DEF KernelData
<1>3. ASSUME NEW kk \in KernelData, kk.enater = k.enater, kk.p_lastmtx[r] = <<>>,
             kk = k \/ kk = ka
      PROVE  set_dspflg(kk) \in KernelData /\ set_dspflg(kk).enater = k.enater
             /\ set_dspflg(kk).p_lastmtx[r] = <<>>
  <2>1. kk.ready_queue = k.ready_queue /\ kk.ready_primap = k.ready_primap
        /\ kk.priority = k.priority /\ Runnable(kk) = Runnable(k)
    BY <1>1, <1>3 DEF KernelData, Runnable
  <2>2. r \in Runnable(k) /\ Runnable(k) \in SUBSET Task
    BY <1>1, Caller DEF Runnable
  <2>3. ReadyQueue(kk, Runnable(k))
    BY <2>1, SameQueues, Now DEF Consistent
  <2>4. set_dspflg(kk) \in KernelData
    BY <1>3, <2>2, <2>3, SetDspflg
  <2>5. set_dspflg(kk).enater = kk.enater /\ set_dspflg(kk).p_lastmtx = kk.p_lastmtx
    BY <1>3 DEF set_dspflg, KernelData
  <2> QED BY <1>3, <2>4, <2>5
<1>4. ks \in KernelData /\ ks.enater = k.enater /\ ks.p_lastmtx[r] = <<>>
  BY <1>1, <1>3
<1>5. kb \in KernelData /\ kb.enater = k.enater /\ kb.p_lastmtx[r] = <<>>
  BY <1>2, <1>3
<1> DEFINE End(kk) == k' = task_terminate(kk, r) \/ k' = dispatch(task_terminate(kk, r))
           Kept(kk) == k' = kk \/ k' = dispatch(kk)
<1>6. \/ End(k) \/ End(ks) \/ End(kb) \/ Kept(ka) \/ Kept(ks) \/ Kept(kb)
      \/ k' = [k EXCEPT !.dspflg = FALSE]
      \/ k' = [k EXCEPT !.enadsp = FALSE, !.dspflg = FALSE]
      \/ \E b \in BOOLEAN : k' = [k EXCEPT !.enater[r] = b]
  <2>1. CASE ext_tsk
    BY <2>1 DEF ext_tsk, exit_and_dispatch
  <2>2. CASE dis_ter \/ ena_ter
    BY <2>2 DEF dis_ter, ena_ter, exit_and_dispatch, Return
  <2>3. CASE ena_dsp
    BY <2>3, <1>1 DEF ena_dsp, DispatchEnabled, exit_and_dispatch, Return, KernelData
  <2>4. CASE dis_dsp
    BY <2>4 DEF dis_dsp, Return
  <2>5. CASE \E iipm \in {"ENAALL", "MASKED"} : chg_ipm(iipm)
    BY <2>5 DEF chg_ipm, DispatchEnabled, exit_and_dispatch
  <2> QED BY <2>1, <2>2, <2>3, <2>4, <2>5
<1> HIDE DEF r, ka, ks, kb
<1>7. CASE End(k) \/ End(ks) \/ End(kb)
  BY <1>1, <1>4, <1>5, <1>7, EnderEnater DEF r
<1>8. ASSUME NEW kk \in KernelData, kk.enater = k.enater, Kept(kk)
      PROVE  k'.enater = k.enater
  BY <1>8, SchedKeepsEnater DEF SameEnater, KernelData
<1>9. CASE Kept(ka) \/ Kept(ks) \/ Kept(kb)
  BY <1>2, <1>4, <1>5, <1>8, <1>9
<1>10. CASE \/ k' = [k EXCEPT !.dspflg = FALSE]
            \/ k' = [k EXCEPT !.enadsp = FALSE, !.dspflg = FALSE]
            \/ \E b \in BOOLEAN : k' = [k EXCEPT !.enater[r] = b]
  BY <1>1, <1>10 DEF KernelData, r
<1> QED BY <1>6, <1>7, <1>9, <1>10

LEMMA RasTerEnater ==
  ASSUME IInv, NEW u \in Task, ras_ter(u) \/ ter_tsk(u)
  PROVE  /\ \A t \in Task \ {u} : k'.enater[t] = k.enater[t]
         /\ ras_ter(u) => k.enater[u] \/ k'.enater = k.enater
<1> DEFINE k1 == [k EXCEPT !.raster[u] = TRUE]
           kd == wait_dequeue_tmevtb(wait_dequeue_wobj(k1, u), u)
           k2 == IF TSTAT_WAITING(k.tstat[u]) THEN kd ELSE k1
           k3 == [k2 EXCEPT !.tstat[u] = TS_RUNNABLE]
           Set(kk) == SameEnater(kk, k) /\ "enater" \in DOMAIN kk
<1>1. k \in KernelData /\ k.p_lastmtx[u] = <<>>
  BY Now DEF TasksOK, TaskOK
<1>2. Set(k1)
  BY <1>1 DEF SameEnater, KernelData
<1>3. ASSUME NEW kk, Set(kk)
      PROVE  /\ Set(wait_dequeue_tmevtb(kk, u)) /\ Set(wait_dequeue_wobj(kk, u))
             /\ Set(make_runnable(kk, u)) /\ Set(dispatch(kk))
  BY <1>3, SchedKeepsEnater DEF SameEnater
<1>4. Set(k2)
  <2> HIDE DEF Set, k1
  <2> QED BY <1>2, <1>3
<1> HIDE DEF k1, k2
<1>5. Set(k3)
  BY <1>4 DEF SameEnater
<1>6. Set(make_runnable(k3, u)) /\ Set(dispatch(make_runnable(k3, u)))
  <2> HIDE DEF Set, k3
  <2> QED BY <1>3, <1>5
<1>7. CASE ReturnDispatching(task_terminate(k, u))
           /\ (ras_ter(u) => k.enater[u] \/ k'.enater = k.enater)
  <2>1. k' = task_terminate(k, u) \/ k' = dispatch(task_terminate(k, u))
    BY <1>7 DEF ReturnDispatching
  <2>2. \A t \in Task \ {u} : k'.enater[t] = k.enater[t]
    BY <1>1, <2>1, EnderEnater
  <2> QED BY <1>7, <2>2
<1>8. CASE Return(k1) \/ ReturnDispatching(make_runnable(k3, u))
  BY <1>2, <1>6, <1>8 DEF Return, ReturnDispatching, SameEnater
<1>9. ras_ter(u) \/ ter_tsk(u)
  OBVIOUS
<1>10. CASE ter_tsk(u) /\ ~ras_ter(u)
  BY <1>7, <1>10 DEF ter_tsk
<1>11. CASE ras_ter(u)
  BY <1>7, <1>8, <1>11 DEF ras_ter, k1, k2
<1> QED BY <1>9, <1>10, <1>11

LEMMA BootEnater ==
  ASSUME IInv, initialize_task, NEW t \in Task, ~k.enater[t]
  PROVE  ~k'.enater[t]
<1> DEFINE u  == torder_table[booted + 1]
           k0 == [k EXCEPT !.actque[u] = FALSE]
           k1 == make_dormant(k0, u)
           k2 == [k1 EXCEPT !.p_lastmtx[u] = <<>>]
<1>1. k \in KernelData /\ u \in Task /\ k.enater[u]
  <2>1. booted + 1 \in 1 .. Len(torder_table) /\ booted + 1 > booted
    BY TorderAssumption DEF initialize_task, IInv, TypeOK
  <2>2. u \in Task /\ TSTAT_DORMANT(k.tstat[u])
    BY <2>1, TorderAssumption DEF initialize_task, IInv, BootOK
  <2> QED BY <2>2, Now DEF TasksOK, TaskOK
<1>2. k' = make_active(k2, u) \/ k' = k2
  BY DEF initialize_task
<1> HIDE DEF u
<1>3. DOMAIN k0 = DOMAIN k /\ k0.enater = k.enater /\ k.enater \in [Task -> BOOLEAN]
      /\ "enater" \in DOMAIN k
  BY <1>1 DEF KernelData
<1> HIDE DEF k0
<1>4. DOMAIN k1 = DOMAIN k0 /\ k1.enater = [k0.enater EXCEPT ![u] = TRUE]
  <2>1. "enater" \in DOMAIN k0
    BY <1>3
  <2> QED BY <2>1 DEF make_dormant
<1> HIDE DEF k1
<1>5. SameEnater(k2, k1)
  BY <1>3, <1>4 DEF SameEnater
<1> HIDE DEF k2
<1>6. SameEnater(make_active(k2, u), k2)
  <2>1. "enater" \in DOMAIN k2
    BY <1>3, <1>4, <1>5 DEF SameEnater
  <2> QED BY <2>1, SchedKeepsEnater
<1>7. k'.enater = [k.enater EXCEPT ![u] = TRUE]
  BY <1>2, <1>3, <1>4, <1>5, <1>6 DEF SameEnater
<1> QED BY <1>1, <1>3, <1>7

LEMMA EnaterStep ==
  ASSUME IInv, [KNext]_kvars, NEW t \in Task, ~k.enater[t], k'.enater[t]
  PROVE  t = k.p_runtsk \/ ter_tsk(t)
<1>1. k \in KernelData
  BY Now
<1>2. CASE initialize_task
  BY <1>2, BootEnater
<1>3. CASE start_dispatch \/ InterruptEntry \/ InterruptReturn \/ pendsv_handler
           \/ loc_cpu \/ unl_cpu \/ UNCHANGED kvars
  <2>1. k' = k \/ k' = dispatch(k)
    BY <1>3 DEF start_dispatch, InterruptEntry, InterruptReturn, pendsv_handler,
                loc_cpu, unl_cpu, kvars
  <2> QED BY <1>1, <2>1, EnaterKept DEF SameEnater
<1>4. CASE slp_tsk \/ tslp_tsk \/ dly_tsk
  <2> DEFINE r == k.p_runtsk
             Set(kk) == SameEnater(kk, k) /\ "enater" \in DOMAIN kk
  <2>1. Set(k) /\ Set([k EXCEPT !.wupque[r] = FALSE])
        /\ \A ts : Set([k EXCEPT !.tstat[r] = ts])
    BY <1>1 DEF KernelData, SameEnater
  <2>2. \A ts : Set(make_non_runnable([k EXCEPT !.tstat[r] = ts], r))
    BY <2>1, SchedKeepsEnater DEF SameEnater
  <2>3. \A ts, b : Set([make_non_runnable([k EXCEPT !.tstat[r] = ts], r)
                           EXCEPT !.tmevtb[r] = b])
    BY <2>2 DEF SameEnater
  <2>4. \E kk : Set(kk) /\ (k' = kk \/ k' = dispatch(kk))
    <3> HIDE DEF Set
    <3> QED BY <1>4, <2>1, <2>3 DEF slp_tsk, tslp_tsk, dly_tsk, make_wait,
                       make_wait_tmout, Return, ReturnDispatching
  <2> QED BY <1>1, <2>4, EnaterKept
<1>5. CASE ext_tsk \/ dis_ter \/ ena_ter \/ ena_dsp \/ dis_dsp
           \/ \E iipm \in {"ENAALL", "MASKED"} : chg_ipm(iipm)
  BY <1>5, OwnEnater
<1>6. CASE \E p \in Pri : rot_rdq(p)
  <2> PICK p \in Pri : rot_rdq(p)
    BY <1>6
  <2>1. SameEnater(rotate_ready_queue(k, p), k)
    BY <1>1, SchedKeepsEnater DEF KernelData
  <2> QED BY <1>1, <2>1, EnaterKept DEF rot_rdq, ReturnDispatching
<1>7. CASE SystemCall
  BY <1>3, <1>4, <1>5, <1>6, <1>7 DEF SystemCall
<1>8. ASSUME NEW u \in Task, TaskCall(u) PROVE t = k.p_runtsk \/ ter_tsk(t)
  <2>1. CASE ras_ter(u) \/ ter_tsk(u)
    BY <2>1, RasTerEnater
  <2>2. CASE ~(ras_ter(u) \/ ter_tsk(u))
    BY <1>8, <2>2, CallEnater DEF TaskCall
  <2> QED BY <2>1, <2>2
<1> QED BY <1>2, <1>3, <1>7, <1>8 DEF KNext

\* Termination is forbidden by the task itself and only ter_tsk overrides it:
\* no other call of task_term.c, and no other path that ends a task, permits
\* the termination of a task that forbids it.
THEOREM TerminationForbidden == KSpec => TerminationDisabled
<1>1. IInv /\ [KNext]_kvars =>
         [\A t \in Task : ~k.enater[t] /\ k'.enater[t] =>
            t = k.p_runtsk \/ ter_tsk(t)]_kvars
  BY EnaterStep
<1> QED BY <1>1, Invariant, PTL DEF KSpec, TerminationDisabled

-----------------------------------------------------------------------------
(* The calls on an object: the kernel's data. *)

\* The ready queue, the tasks and the wait queues are right.
Sound(kk) == Consistent(kk) /\ TasksOK(kk) /\ QueuesOK(kk)

\* The running task and whether it may be preempted are the same.
SameRun(k1, kk) ==
    /\ k1.p_runtsk = kk.p_runtsk /\ k1.dspflg = kk.dspflg
    /\ k1.enadsp = kk.enadsp

\* The invariant, with the wait queues.
KernelOK == IInv /\ QueuesOK(k)

LEMMA SoundNow ==
  ASSUME KernelOK
  PROVE  Sound(k) /\ k \in KernelData
BY Now DEF KernelOK, Sound

\* A call that ends with sound data ends well.
LEMMA EndSound ==
  ASSUME NEW k1, IInv, ctx # "INIT", Sound(k1), SameRun(k1, k),
         ctx = "INT" => StillRunnable(k1), ReturnDispatching(k1)
  PROVE  /\ IInv' /\ QueuesOK(k') /\ k' \in KernelData
         /\ SameQueueFields(k', k1)
<1>1. IInv'
  BY EndReturnDispatching DEF Sound, SameRun, SameRunning
<1>2. k' \in KernelData /\ k1 \in KernelData
  BY <1>1 DEF IInv, TypeOK, Sound, Consistent
<1>3. SameQueueFields(k', k1)
  BY <1>2, EndFields DEF Ends
<1>4. QueuesOK(k')
  BY <1>2, <1>3, KeepsSame DEF Sound, Keeps
<1> QED BY <1>1, <1>2, <1>3, <1>4

\* A call that changes nothing of the kernel's data ends well.
LEMMA EndUnchanged ==
  ASSUME KernelOK, ctx # "INIT", Return(k) \/ ReturnDispatching(k)
  PROVE  /\ IInv' /\ QueuesOK(k') /\ k' \in KernelData
         /\ SameQueueFields(k', k)
<1>1. Sound(k)
  BY SoundNow
<1>3. CASE Return(k)
  <2>1. k' = k /\ UNCHANGED cpu
    BY <1>3 DEF Return
  <2>2. UNCHANGED kvars
    BY <2>1 DEF cpu, kvars
  <2>3. IInv'
    BY <2>2, NextStep DEF KernelOK
  <2> QED BY <2>1, <2>3, SoundNow DEF KernelOK, SameQueueFields
<1>4. CASE ReturnDispatching(k)
  <2>1. ctx = "INT" => StillRunnable(k)
    BY Caller DEF StillRunnable, KernelOK
  <2> QED BY <1>1, <1>4, <2>1, EndSound DEF KernelOK, SameRun
<1> QED BY <1>3, <1>4

\* Nothing that the tasks and the ready queue depend on differs.
SameTasks(k1, kk) ==
    SameSched(k1, kk) /\ k1.tstat = kk.tstat /\ k1.priority = kk.priority
      /\ \A u \in Task : SameTask(k1, kk, u)

LEMMA QueuesApart ==
  ASSUME NEW kk, NEW k1 \in KernelData, Consistent(kk), TasksOK(kk),
         SameTasks(k1, kk)
  PROVE  Consistent(k1) /\ TasksOK(k1)
<1>1. Runnable(k1) = Runnable(kk)
  BY DEF SameTasks, Runnable
<1>2. Consistent(k1)
  BY <1>1, Update DEF SameTasks
<1>3. TasksOK(k1)
  <2> SUFFICES ASSUME NEW u \in Task PROVE TaskOK(k1, u)
    BY DEF TasksOK
  <2>1. TaskOK(kk, u) /\ SameTask(k1, kk, u)
    BY DEF TasksOK, SameTasks
  <2>2. k1.p_runtsk = kk.p_runtsk /\ k1.dspflg = kk.dspflg
    BY DEF SameTasks, SameSched
  <2> QED BY <2>1, <2>2 DEF TaskOK, SameTask
<1> QED BY <1>2, <1>3

-----------------------------------------------------------------------------
(* Beginning to wait. *)

\* The waits for objects, one of them in a queue whose tasks are never moved
\* unless its flag tells so.
LEMMA ObjectFlags ==
  ASSUME NEW f \in WaitWobj \ {"MTX"}
  PROVE  /\ {f} \in Tstat /\ {f} \cap WaitWobj = {f}
         /\ TSTAT_WAITING({f}) /\ TSTAT_WAIT_WOBJ({f})
         /\ ~TSTAT_RUNNABLE({f}) /\ ~TSTAT_DORMANT({f})
         /\ ~TSTAT_WAIT_MTX({f}) /\ ~TSTAT_WAIT_SLP({f}) /\ "DLY" \notin {f}
         /\ f \in WaitWobjcb => TSTAT_WAIT_WOBJCB({f})
BY DEF Tstat, TSTAT_WAITING, TSTAT_WAIT_WOBJ, TSTAT_RUNNABLE, TSTAT_DORMANT,
       TSTAT_WAIT_MTX, TSTAT_WAIT_SLP, TSTAT_WAIT_WOBJCB, WaitFactor, WaitWobj,
       WaitWobjcb, TS_DORMANT, TS_SUSPENDED, TS_WAITING_SLP

\* kk is the data after the caller has begun to wait in queue w, with a time
\* limit if b; ts is what its tstat becomes, the flag of the object.
BeginsToWait(kk, w, ts, b) ==
    /\ w \in Wobj /\ b \in BOOLEAN
    /\ \E f \in WaitWobj \ {"MTX"} : ts = {f} /\ (f \in WaitWobjcb \/ w \notin TA_TPRI)
    /\ kk = wobj_make_wait_tmout(k, w, ts, b)

\* The caller waits in queue w, and nothing else has changed.
WaitsSince(kk, w, ts) ==
    /\ Self \in Task /\ k.tstat[Self] = TS_RUNNABLE
    /\ kk.tstat = [k.tstat EXCEPT ![Self] = ts]
    /\ kk.wobj = [k.wobj EXCEPT ![Self] = w]
    /\ kk.priority = k.priority
    /\ \A v \in Wobj \ {w} : kk.wait_queue[v] = k.wait_queue[v]

LEMMA WaitBegins ==
  ASSUME KernelOK, TSKCTX, k.dspflg, ~k.raster[Self], NEW w, NEW ts, NEW b, NEW kk,
         BeginsToWait(kk, w, ts, b)
  PROVE  Sound(kk) /\ SameRun(kk, k) /\ WaitsSince(kk, w, ts)
<1>0. /\ w \in Wobj /\ b \in BOOLEAN /\ kk = wobj_make_wait_tmout(k, w, ts, b)
      /\ \E f \in WaitWobj \ {"MTX"} : ts = {f} /\ (f \in WaitWobjcb \/ w \notin TA_TPRI)
  BY DEF BeginsToWait
<1> PICK f \in WaitWobj \ {"MTX"} : ts = {f} /\ (f \in WaitWobjcb \/ w \notin TA_TPRI)
  BY <1>0
<1> w \in Wobj /\ b \in BOOLEAN
  BY <1>0
<1> DEFINE t  == k.p_runtsk
           k0 == [k EXCEPT !.tstat[t] = ts]
           k2 == make_wait_tmout(k, ts, b)
           k3 == [k0 EXCEPT !.tmevtb[t] = k2.tmevtb[t]]
           k1 == [wobj_queue_insert(k2, w, t) EXCEPT !.wobj[t] = w]
<1>1. Sound(k) /\ Consistent(k) /\ TasksOK(k) /\ QueuesOK(k) /\ k \in KernelData
  BY SoundNow DEF Sound
<1>2. /\ t \in Task /\ t \in Runnable(k) /\ TSTAT_RUNNABLE(k.tstat[t])
      /\ ~k.raster[t]
  BY Caller DEF KernelOK, Self
<1>3. /\ ts \in Tstat /\ ts \cap WaitWobj = ts /\ TSTAT_WAIT_WOBJ(ts)
      /\ ~TSTAT_RUNNABLE(ts) /\ TSTAT_WAITING(ts) /\ ~TSTAT_DORMANT(ts)
      /\ ~TSTAT_WAIT_MTX(ts) /\ ~TSTAT_WAIT_SLP(ts) /\ "DLY" \notin ts
      /\ TSTAT_WAIT_WOBJCB(ts) \/ w \notin TA_TPRI
  BY ObjectFlags
<1>4. k2 = [make_non_runnable(k0, t) EXCEPT !.tmevtb[t] = b]
  BY DEF make_wait_tmout
<1>5. wobj_make_wait_tmout(k, w, ts, b) = k1
  BY DEF wobj_make_wait_tmout
<1> HIDE DEF t
<1>6. k0 \in KernelData /\ SameSched(k0, k) /\ OnlyTask(k0, k, t)
  BY <1>1, <1>2, <1>3 DEF KernelData, SameSched, OnlyTask, SameTask
<1>7. /\ k0.tstat = [k.tstat EXCEPT ![t] = ts] /\ k0.priority = k.priority
      /\ k0.raster = k.raster /\ k0.p_lastmtx = k.p_lastmtx
      /\ k0.wobj = k.wobj /\ k0.wait_queue = k.wait_queue
  BY <1>1, <1>2 DEF KernelData
<1>8. k0.tstat[t] = ts
  BY <1>1, <1>2, <1>7 DEF KernelData
<1> HIDE DEF k0, k2
<1>9. k2 = make_non_runnable(k0, t)
        \/ \E c \in BOOLEAN : k2 = [make_non_runnable(k0, t) EXCEPT !.tmevtb[t] = c]
  BY <1>4
<1>10. TaskOK(k3, t)
  <2>1. /\ k3.tstat = k0.tstat /\ k3.raster = k0.raster
        /\ k3.p_lastmtx = k0.p_lastmtx
    BY <1>6 DEF KernelData
  <2> HIDE DEF k3
  <2>2. k.p_lastmtx[t] = <<>>
    BY <1>1, <1>2 DEF TasksOK, TaskOK
  <2> QED BY <1>2, <1>3, <1>7, <1>8, <2>1, <2>2 DEF TaskOK
<1>11. /\ Consistent(k2) /\ TasksOK(k2) /\ SameRunning(k2)
       /\ SameQueueFields(k2, k0)
  <2>1. t = k.p_runtsk => k.dspflg
    OBVIOUS
  <2> QED BY <1>1, <1>2, <1>3, <1>6, <1>7, <1>8, <1>9, <1>10, <2>1, Stopped DEF k3
<1>12. /\ k2 \in KernelData /\ k2.wait_queue = k.wait_queue /\ k2.wobj = k.wobj
       /\ k2.priority = k.priority /\ k2.tstat = [k.tstat EXCEPT ![t] = ts]
  BY <1>7, <1>11 DEF SameQueueFields, Consistent
<1>13. /\ \A u \in Task \ {t} : k2.tstat[u] \cap WaitWobj = k.tstat[u] \cap WaitWobj
       /\ k2.tstat[t] = {f} /\ ~TSTAT_WAIT_WOBJ(k.tstat[t])
       /\ k.tstat[t] = TS_RUNNABLE
  <2>1. k.tstat \in [Task -> Tstat]
    BY <1>1 DEF KernelData
  <2>2. k.tstat[t] = TS_RUNNABLE
    BY <1>2, <2>1, TstatFacts
  <2>3. k2.tstat[t] = {f} /\ \A u \in Task \ {t} : k2.tstat[u] = k.tstat[u]
    BY <1>2, <1>12, <2>1
  <2> QED BY <2>2, <2>3, TstatFacts
<1>14. /\ k1 \in KernelData /\ QueuesOK(k1)
       /\ k1.wobj = [k.wobj EXCEPT ![t] = w]
       /\ k1.wait_queue = wobj_queue_insert(k2, w, t).wait_queue
       /\ SameButQueues([k1 EXCEPT !.wobj = k.wobj], k2)
  BY <1>1, <1>2, <1>3, <1>12, <1>13, QueuesLinked
<1>15. \A v \in Wobj \ {w} : k1.wait_queue[v] = k.wait_queue[v]
  <2>1. \A v \in Wobj \ {w} :
           wobj_queue_insert(k2, w, t).wait_queue[v] = k2.wait_queue[v]
    BY <1>2, <1>12, WobjQueueInsert
  <2> HIDE DEF k1
  <2> QED BY <1>12, <1>14, <2>1
<1> HIDE DEF k1
<1>16. SameTasks(k1, k2)
  <2> DEFINE k4 == [k1 EXCEPT !.wobj = k.wobj]
  <2>1. /\ SameSched(k4, k1) /\ k4.tstat = k1.tstat /\ k4.priority = k1.priority
        /\ \A u \in Task : SameTask(k4, k1, u)
    BY <1>14 DEF KernelData, SameSched, SameTask
  <2>2. SameButQueues(k4, k2)
    BY <1>14
  <2> HIDE DEF k4
  <2> QED BY <2>1, <2>2 DEF SameTasks, SameSched, SameTask, SameButQueues
<1>17. Consistent(k1) /\ TasksOK(k1)
  BY <1>11, <1>14, <1>16, QueuesApart
<1>18. SameRun(k1, k)
  BY <1>11, <1>16 DEF SameRun, SameRunning, SameTasks, SameSched
<1>19. k1.tstat = [k.tstat EXCEPT ![t] = ts] /\ k1.priority = k.priority
  BY <1>12, <1>16 DEF SameTasks
<1>20. kk = k1
  BY <1>0, <1>5
<1>21. Self = t
  BY DEF Self, t
<1>22. Sound(kk) /\ SameRun(kk, k)
  BY <1>14, <1>17, <1>18, <1>20 DEF Sound
<1>23. Self \in Task /\ k.tstat[Self] = TS_RUNNABLE
  BY <1>2, <1>13, <1>21
<1>24. kk.tstat = [k.tstat EXCEPT ![Self] = ts] /\ kk.priority = k.priority
  BY <1>19, <1>20, <1>21
<1>25. kk.wobj = [k.wobj EXCEPT ![Self] = w]
  BY <1>14, <1>20, <1>21
<1>26. \A v \in Wobj \ {w} : kk.wait_queue[v] = k.wait_queue[v]
  BY <1>15, <1>20
<1> QED BY <1>22, <1>23, <1>24, <1>25, <1>26 DEF WaitsSince

-----------------------------------------------------------------------------
(* Ending a wait. *)

\* The wait of task t is complete, in data whose queues are replaced.
LEMMA Completed ==
  ASSUME NEW kk, Consistent(kk), TasksOK(kk), NEW t \in Task,
         TSTAT_WAITING(kk.tstat[t]), NEW wq \in [Wobj -> Seq(Task)]
  PROVE  LET k1 == wait_complete([kk EXCEPT !.wait_queue = wq], t) IN
         /\ Consistent(k1) /\ TasksOK(k1) /\ SameRun(k1, kk)
         /\ Runnable(kk) \subseteq Runnable(k1)
         /\ k1.wait_queue = wq /\ k1.wobj = kk.wobj /\ k1.priority = kk.priority
         /\ ~TSTAT_WAITING(k1.tstat[t]) /\ ~TSTAT_WAIT_WOBJ(k1.tstat[t])
         /\ \A u \in Task \ {t} : k1.tstat[u] = kk.tstat[u]
<1> DEFINE kq == [kk EXCEPT !.wait_queue = wq]
           k0 == wait_dequeue_tmevtb(kq, t)
<1>1. kk \in KernelData
  BY DEF Consistent
<1>2. /\ kq \in KernelData /\ SameSched(kq, kk) /\ OnlyTask(kq, kk, t)
      /\ kq.tstat = kk.tstat /\ kq.priority = kk.priority
      /\ kq.raster = kk.raster /\ kq.p_lastmtx = kk.p_lastmtx
      /\ kq.wobj = kk.wobj /\ kq.wait_queue = wq
  BY <1>1 DEF KernelData, SameSched, OnlyTask, SameTask
<1>3. wait_complete(kq, t) = make_non_wait(k0, t)
  BY DEF wait_complete
<1> HIDE DEF kq
<1>4. /\ k0 \in KernelData /\ SameSched(k0, kq) /\ OnlyTask(k0, kq, t)
      /\ k0.tstat = kq.tstat /\ k0.priority = kq.priority /\ ~k0.tmevtb[t]
      /\ k0.raster = kq.raster /\ k0.p_lastmtx = kq.p_lastmtx
      /\ k0.wobj = kq.wobj /\ k0.wait_queue = kq.wait_queue
  BY <1>2, TmevtbDequeue
<1> HIDE DEF k0
<1>5. SameSched(k0, kk) /\ OnlyTask(k0, kk, t)
  BY <1>2, <1>4 DEF SameSched, OnlyTask, SameTask
<1> DEFINE k1 == make_non_wait(k0, t)
<1>6. /\ Consistent(k1) /\ TasksOK(k1)
      /\ k1.p_runtsk = kk.p_runtsk /\ k1.dspflg = kk.dspflg
      /\ k1.enadsp = kk.enadsp
      /\ Runnable(kk) \subseteq Runnable(k1)
      /\ k1.wait_queue = k0.wait_queue /\ k1.wobj = k0.wobj
      /\ k1.priority = kk.priority
      /\ ~TSTAT_WAITING(k1.tstat[t]) /\ ~TSTAT_WAIT_WOBJ(k1.tstat[t])
      /\ \A u \in Task \ {t} : k1.tstat[u] = kk.tstat[u]
  BY <1>2, <1>4, <1>5, WaitEnds
<1> HIDE DEF k1
<1> QED BY <1>2, <1>3, <1>4, <1>6 DEF SameRun, k1, kq

\* The same in data whose queues stay.
LEMMA CompletedThere ==
  ASSUME NEW kk, Consistent(kk), TasksOK(kk), NEW t \in Task,
         TSTAT_WAITING(kk.tstat[t])
  PROVE  LET k1 == wait_complete(kk, t) IN
         /\ Consistent(k1) /\ TasksOK(k1) /\ SameRun(k1, kk)
         /\ Runnable(kk) \subseteq Runnable(k1)
         /\ k1.wait_queue = kk.wait_queue /\ k1.wobj = kk.wobj
         /\ k1.priority = kk.priority
         /\ ~TSTAT_WAITING(k1.tstat[t])
         /\ \A u \in Task \ {t} : k1.tstat[u] = kk.tstat[u]
<1> DEFINE wq == kk.wait_queue
<1>1. wq \in [Wobj -> Seq(Task)] /\ [kk EXCEPT !.wait_queue = wq] = kk
  BY DEF Consistent, KernelData
<1> HIDE DEF wq
<1> DEFINE k2 == wait_complete([kk EXCEPT !.wait_queue = wq], t)
<1>2. /\ Consistent(k2) /\ TasksOK(k2) /\ SameRun(k2, kk)
      /\ Runnable(kk) \subseteq Runnable(k2)
      /\ k2.wait_queue = wq /\ k2.wobj = kk.wobj /\ k2.priority = kk.priority
      /\ ~TSTAT_WAITING(k2.tstat[t])
      /\ \A u \in Task \ {t} : k2.tstat[u] = kk.tstat[u]
  BY <1>1, Completed
<1>3. wait_complete(kk, t) = k2
  BY <1>1
<1> HIDE DEF k2
<1> QED BY <1>2, <1>3 DEF wq

\* The first task of a queue is served.
LEMMA FirstServes ==
  ASSUME KernelOK, NEW w \in Wobj, k.wait_queue[w] # <<>>
  PROVE  LET t  == Head(k.wait_queue[w])
             k1 == FirstServed(w)
         IN  /\ Sound(k1) /\ SameRun(k1, k) /\ StillRunnable(k1)
             /\ t \in Task /\ TSTAT_WAIT_WOBJ(k.tstat[t]) /\ k.wobj[t] = w
             /\ k1.wait_queue = [k.wait_queue EXCEPT ![w] = Tail(@)]
             /\ k1.wobj = k.wobj /\ k1.priority = k.priority
             /\ ~TSTAT_WAITING(k1.tstat[t]) /\ ~TSTAT_WAIT_WOBJ(k1.tstat[t])
             /\ \A u \in Task \ {t} : k1.tstat[u] = k.tstat[u]
<1> DEFINE t  == Head(k.wait_queue[w])
           wq == [k.wait_queue EXCEPT ![w] = Tail(@)]
           k1 == wait_complete([k EXCEPT !.wait_queue = wq], t)
<1>1. Consistent(k) /\ TasksOK(k) /\ QueuesOK(k) /\ k \in KernelData
  BY SoundNow DEF Sound
<1>2. /\ t \in Task /\ TSTAT_WAIT_WOBJ(k.tstat[t]) /\ k.wobj[t] = w
      /\ queue_delete(k.wait_queue, t) = wq
  BY <1>1, FirstOfQueue
<1>3. wq \in [Wobj -> Seq(Task)]
  <2>1. k.wait_queue \in [Wobj -> Seq(Task)] /\ Tail(k.wait_queue[w]) \in Seq(Task)
    BY <1>1 DEF KernelData
  <2> QED BY <2>1
<1>4. FirstServed(w) = k1
  <2>1. [k EXCEPT !.wait_queue[w] = Tail(@)] = [k EXCEPT !.wait_queue = wq]
    OBVIOUS
  <2> QED BY <2>1 DEF FirstServed
<1>5. TSTAT_WAITING(k.tstat[t])
  BY <1>2 DEF TSTAT_WAITING, TSTAT_WAIT_WOBJ, WaitFactor
<1>9. wait_dequeue_wobj(k, t).wait_queue = wq
  <2>1. wait_dequeue_wobj(k, t) = [k EXCEPT !.wait_queue = queue_delete(@, t)]
    BY <1>2 DEF wait_dequeue_wobj
  <2> QED BY <1>1, <1>2, <2>1 DEF KernelData
<1> HIDE DEF t, wq
<1>6. /\ Consistent(k1) /\ TasksOK(k1) /\ SameRun(k1, k)
      /\ Runnable(k) \subseteq Runnable(k1)
      /\ k1.wait_queue = wq /\ k1.wobj = k.wobj /\ k1.priority = k.priority
      /\ ~TSTAT_WAITING(k1.tstat[t]) /\ ~TSTAT_WAIT_WOBJ(k1.tstat[t])
      /\ \A u \in Task \ {t} : k1.tstat[u] = k.tstat[u]
  BY <1>1, <1>2, <1>3, <1>5, Completed
<1> HIDE DEF k1
<1>7. QueuesOK(k1)
  <2>1. Released(k1, k, t)
    BY <1>6, <1>9 DEF Released
  <2>2. k1 \in KernelData
    BY <1>6 DEF Consistent
  <2> QED BY <1>1, <1>2, <2>1, <2>2, QueuesReleased
<1>8. StillRunnable(k1)
  BY <1>6, Caller DEF StillRunnable, SameRun, KernelOK
<1> QED BY <1>2, <1>4, <1>6, <1>7, <1>8 DEF Sound, t, wq, k1

\* A task is served wherever it is in its queue.
LEMMA AnyServes ==
  ASSUME NEW kk, Sound(kk), NEW w \in Wobj, NEW t \in Task,
         TSTAT_WAIT_WOBJ(kk.tstat[t]), kk.wobj[t] = w,
         NEW k1, k1 = wait_complete([kk EXCEPT !.wait_queue[w] = RemoveFirst(@, t)], t)
  PROVE  /\ Sound(k1) /\ SameRun(k1, kk) /\ Runnable(kk) \subseteq Runnable(k1)
         /\ k1.wobj = kk.wobj /\ k1.priority = kk.priority
         /\ ~TSTAT_WAITING(k1.tstat[t]) /\ ~TSTAT_WAIT_WOBJ(k1.tstat[t])
         /\ \A u \in Task \ {t} : k1.tstat[u] = kk.tstat[u]
<1> DEFINE wq == queue_delete(kk.wait_queue, t)
<1>1. Consistent(kk) /\ TasksOK(kk) /\ QueuesOK(kk) /\ kk \in KernelData
  BY DEF Sound, Consistent
<1>2. kk.wait_queue \in [Wobj -> Seq(Task)]
  BY <1>1 DEF KernelData
<1>3. \A v \in Wobj \ {w} : RemoveFirst(kk.wait_queue[v], t) = kk.wait_queue[v]
  <2> SUFFICES ASSUME NEW v \in Wobj \ {w}
               PROVE  RemoveFirst(kk.wait_queue[v], t) = kk.wait_queue[v]
    OBVIOUS
  <2>1. ~Contains(kk.wait_queue[v], t)
    BY <1>1 DEF QueuesOK, WaitQueues
  <2> QED BY <2>1 DEF RemoveFirst, Contains
<1>4. wq = [kk.wait_queue EXCEPT ![w] = RemoveFirst(@, t)]
  BY <1>2, <1>3 DEF queue_delete
<1>5. wq \in [Wobj -> Seq(Task)]
  <2>1. \A v \in Wobj : RemoveFirst(kk.wait_queue[v], t) \in Seq(Task)
    BY <1>1, <1>2, RemoveFirstProperties DEF QueuesOK, WaitQueues
  <2> QED BY <1>2, <2>1 DEF queue_delete
<1>6. wait_dequeue_wobj(kk, t).wait_queue = wq
  <2>1. wait_dequeue_wobj(kk, t) = [kk EXCEPT !.wait_queue = wq]
    BY DEF wait_dequeue_wobj
  <2> HIDE DEF wq
  <2> QED BY <1>1, <2>1 DEF KernelData
<1>7. k1 = wait_complete([kk EXCEPT !.wait_queue = wq], t)
  <2>1. [kk EXCEPT !.wait_queue[w] = RemoveFirst(@, t)]
           = [kk EXCEPT !.wait_queue = [kk.wait_queue EXCEPT ![w] = RemoveFirst(@, t)]]
    OBVIOUS
  <2> HIDE DEF wq
  <2> QED BY <1>4, <2>1
<1>8. TSTAT_WAITING(kk.tstat[t])
  BY DEF TSTAT_WAITING, TSTAT_WAIT_WOBJ, WaitFactor
<1> HIDE DEF wq
<1> DEFINE k2 == wait_complete([kk EXCEPT !.wait_queue = wq], t)
<1>9. /\ Consistent(k1) /\ TasksOK(k1) /\ SameRun(k1, kk)
      /\ Runnable(kk) \subseteq Runnable(k1)
      /\ k1.wait_queue = wq /\ k1.wobj = kk.wobj /\ k1.priority = kk.priority
      /\ ~TSTAT_WAITING(k1.tstat[t]) /\ ~TSTAT_WAIT_WOBJ(k1.tstat[t])
      /\ \A u \in Task \ {t} : k1.tstat[u] = kk.tstat[u]
  <2>1. /\ Consistent(k2) /\ TasksOK(k2) /\ SameRun(k2, kk)
        /\ Runnable(kk) \subseteq Runnable(k2)
        /\ k2.wait_queue = wq /\ k2.wobj = kk.wobj /\ k2.priority = kk.priority
        /\ ~TSTAT_WAITING(k2.tstat[t]) /\ ~TSTAT_WAIT_WOBJ(k2.tstat[t])
        /\ \A u \in Task \ {t} : k2.tstat[u] = kk.tstat[u]
    BY <1>1, <1>5, <1>8, Completed
  <2> HIDE DEF k2
  <2> QED BY <1>7, <2>1 DEF k2
<1>10. QueuesOK(k1)
  <2>1. Released(k1, kk, t)
    BY <1>6, <1>9 DEF Released
  <2>2. k1 \in KernelData
    BY <1>9 DEF Consistent
  <2> QED BY <1>1, <2>1, <2>2, QueuesReleased
<1> QED BY <1>9, <1>10 DEF Sound

-----------------------------------------------------------------------------
(* Releasing a whole queue. *)

\* How far the release of the queue q of w has come after its first n tasks.
ReleasedFirst(k1, kk, w, q, n) ==
    /\ Consistent(k1) /\ TasksOK(k1) /\ SameRun(k1, kk)
    /\ Runnable(kk) \subseteq Runnable(k1)
    /\ k1.wait_queue = [kk.wait_queue EXCEPT ![w] = <<>>]
    /\ k1.wobj = kk.wobj /\ k1.priority = kk.priority
    /\ \A i \in 1 .. n : ~TSTAT_WAITING(k1.tstat[q[i]])
    /\ \A u \in Task : (\A i \in 1 .. n : q[i] # u) => k1.tstat[u] = kk.tstat[u]

LEMMA NextReleased ==
  ASSUME NEW kk, NEW ka, NEW w \in Wobj, NEW q \in Seq(Task), IsInjective(q),
         \A i \in 1 .. Len(q) : TSTAT_WAITING(kk.tstat[q[i]]),
         kk.wait_queue \in [Wobj -> Seq(Task)],
         NEW n \in 1 .. Len(q), ReleasedFirst(ka, kk, w, q, n - 1)
  PROVE  ReleasedFirst(wait_complete(ka, q[n]), kk, w, q, n)
<1> DEFINE t  == q[n]
           wq == [kk.wait_queue EXCEPT ![w] = <<>>]
           k1 == wait_complete(ka, t)
<1>1. n \in Nat /\ 1 <= n /\ n <= Len(q) /\ Len(q) \in Nat /\ t \in Task
  OBVIOUS
<1>2. \A i \in 1 .. n - 1 : i \in DOMAIN q /\ q[i] # t
  <2>1. \A i, j \in DOMAIN q : q[i] = q[j] => i = j
    BY DEF IsInjective
  <2>2. \A i \in 1 .. n - 1 : i \in DOMAIN q /\ n \in DOMAIN q /\ i # n
    BY <1>1
  <2> QED BY <2>1, <2>2
<1>3. /\ Consistent(ka) /\ TasksOK(ka) /\ SameRun(ka, kk)
      /\ Runnable(kk) \subseteq Runnable(ka)
      /\ ka.wait_queue = wq /\ ka.wobj = kk.wobj /\ ka.priority = kk.priority
      /\ \A i \in 1 .. n - 1 : ~TSTAT_WAITING(ka.tstat[q[i]])
      /\ \A u \in Task : (\A i \in 1 .. n - 1 : q[i] # u) => ka.tstat[u] = kk.tstat[u]
  BY DEF ReleasedFirst
<1>4. TSTAT_WAITING(ka.tstat[t])
  BY <1>1, <1>2, <1>3
<1> HIDE DEF wq, t
<1>7. /\ Consistent(k1) /\ TasksOK(k1) /\ SameRun(k1, ka)
      /\ Runnable(ka) \subseteq Runnable(k1)
      /\ k1.wait_queue = wq /\ k1.wobj = ka.wobj /\ k1.priority = ka.priority
      /\ ~TSTAT_WAITING(k1.tstat[t])
      /\ \A u \in Task \ {t} : k1.tstat[u] = ka.tstat[u]
  <2>1. t \in Task /\ Consistent(ka) /\ TasksOK(ka) /\ ka.wait_queue = wq
    BY <1>1, <1>3
  <2> QED BY <1>4, <2>1, CompletedThere
<1> HIDE DEF k1
<1>8. \A i \in 1 .. n : ~TSTAT_WAITING(k1.tstat[q[i]])
  <2> SUFFICES ASSUME NEW i \in 1 .. n PROVE ~TSTAT_WAITING(k1.tstat[q[i]])
    OBVIOUS
  <2>1. CASE i = n
    BY <1>7, <2>1 DEF t
  <2>2. CASE i # n
    <3>1. i \in 1 .. n - 1
      BY <1>1, <2>2
    <3>2. q[i] \in Task \ {t}
      BY <1>2, <3>1
    <3> QED BY <1>3, <1>7, <3>1, <3>2
  <2> QED BY <2>1, <2>2
<1>9. \A u \in Task : (\A i \in 1 .. n : q[i] # u) => k1.tstat[u] = kk.tstat[u]
  <2> SUFFICES ASSUME NEW u \in Task, \A i \in 1 .. n : q[i] # u
               PROVE  k1.tstat[u] = kk.tstat[u]
    OBVIOUS
  <2>1. n \in 1 .. n /\ \A i \in 1 .. n - 1 : i \in 1 .. n
    BY <1>1
  <2>2. u # t /\ \A i \in 1 .. n - 1 : q[i] # u
    BY <2>1 DEF t
  <2> QED BY <1>3, <1>7, <2>2
<1>10. SameRun(k1, kk) /\ Runnable(kk) \subseteq Runnable(k1)
  BY <1>3, <1>7 DEF SameRun
<1> QED BY <1>3, <1>7, <1>8, <1>9, <1>10 DEF ReleasedFirst, wq, k1, t

\* The queue of w is empty afterwards, and those that were in it do not wait.
LEMMA AllReleased ==
  ASSUME NEW kk, Sound(kk), NEW w \in Wobj
  PROVE  LET k1 == init_wait_queue(kk, w) IN
         /\ Sound(k1) /\ SameRun(k1, kk)
         /\ k1.wait_queue = [kk.wait_queue EXCEPT ![w] = <<>>]
         /\ k1.wobj = kk.wobj /\ k1.priority = kk.priority
         /\ \A u \in Task :
               IF TSTAT_WAIT_WOBJ(kk.tstat[u]) /\ kk.wobj[u] = w
               THEN ~TSTAT_WAITING(k1.tstat[u])
               ELSE k1.tstat[u] = kk.tstat[u]
<1> DEFINE q  == kk.wait_queue[w]
           k0 == [kk EXCEPT !.wait_queue[w] = <<>>]
           k1 == init_wait_queue(kk, w)
           wq == [kk.wait_queue EXCEPT ![w] = <<>>]
<1>1. /\ Consistent(kk) /\ TasksOK(kk) /\ QueuesOK(kk) /\ kk \in KernelData
      /\ kk.wait_queue \in [Wobj -> Seq(Task)] /\ q \in Seq(Task)
  BY DEF Sound, Consistent, KernelData
<1>2. /\ \A v \in Wobj : \A u \in Task :
            Contains(kk.wait_queue[v], u) <=> TSTAT_WAIT_WOBJ(kk.tstat[u]) /\ kk.wobj[u] = v
      /\ \A v \in Wobj : IsInjective(kk.wait_queue[v])
  BY <1>1 DEF QueuesOK, WaitQueues
<1>3. \A i \in 1 .. Len(q) : q[i] \in Task /\ TSTAT_WAITING(kk.tstat[q[i]])
  <2> SUFFICES ASSUME NEW i \in 1 .. Len(q)
               PROVE  q[i] \in Task /\ TSTAT_WAITING(kk.tstat[q[i]])
    OBVIOUS
  <2>1. q[i] \in Task /\ Contains(q, q[i])
    BY <1>1 DEF Contains
  <2>2. TSTAT_WAIT_WOBJ(kk.tstat[q[i]])
    BY <1>2, <2>1
  <2> QED BY <2>1, <2>2 DEF TSTAT_WAITING, TSTAT_WAIT_WOBJ, WaitFactor
<1>4. PICK a : /\ a[0] = k0
               /\ \A n \in 1 .. Len(q) : a[n] = wait_complete(a[n - 1], q[n])
               /\ a[Len(q)] = FoldLeft(wait_complete, k0, q)
  <2> HIDE DEF k0, q
  <2> QED BY <1>1, ReleasesInOrder
<1>5. a[Len(q)] = k1
  BY <1>4 DEF init_wait_queue
<1>6. <<>> \in Seq(Task)
  OBVIOUS
<1>7. ReleasedFirst(k0, kk, w, q, 0)
  <2>1. /\ k0 \in KernelData /\ SameTasks(k0, kk) /\ k0.wobj = kk.wobj
        /\ k0.wait_queue = wq
    BY <1>1, <1>6 DEF KernelData, SameTasks, SameSched, SameTask
  <2> HIDE DEF k0, q
  <2>2. Consistent(k0) /\ TasksOK(k0)
    BY <1>1, <2>1, QueuesApart
  <2>3. SameRun(k0, kk) /\ Runnable(kk) \subseteq Runnable(k0)
    BY <2>1 DEF SameRun, SameTasks, SameSched, Runnable
  <2> QED BY <2>1, <2>2, <2>3 DEF ReleasedFirst, SameTasks
<1> HIDE DEF k0, k1
<1>8. \A n \in 0 .. Len(q) : ReleasedFirst(a[n], kk, w, q, n)
  <2> DEFINE T == {n \in 0 .. Len(q) : ~ReleasedFirst(a[n], kk, w, q, n)}
  <2> SUFFICES ASSUME T # {} PROVE FALSE
    OBVIOUS
  <2>1. T \in SUBSET Nat /\ Len(q) \in Nat
    BY <1>1
  <2> DEFINE n == Min(T)
  <2>2. n \in T /\ \A m \in T : n <= m
    <3> HIDE DEF T
    <3> QED BY <2>1, SmallestNat
  <2>3. n \in 0 .. Len(q) /\ ~ReleasedFirst(a[n], kk, w, q, n)
    BY <2>2
  <2> HIDE DEF n
  <2>4. n # 0
    BY <1>4, <1>7, <2>3
  <2>5. n - 1 \in 0 .. Len(q) /\ n \in 1 .. Len(q) /\ ~(n <= n - 1)
    BY <2>1, <2>3, <2>4
  <2>6. ReleasedFirst(a[n - 1], kk, w, q, n - 1)
    BY <2>2, <2>5
  <2>7. IsInjective(q)
    BY <1>2
  <2> HIDE DEF q, T
  <2>8. ReleasedFirst(wait_complete(a[n - 1], q[n]), kk, w, q, n)
    BY <1>1, <1>3, <2>5, <2>6, <2>7, NextReleased
  <2>9. a[n] = wait_complete(a[n - 1], q[n])
    BY <1>4, <2>5
  <2> QED BY <2>3, <2>8, <2>9
<1>9. ReleasedFirst(k1, kk, w, q, Len(q))
  <2>1. Len(q) \in 0 .. Len(q)
    BY <1>1
  <2> QED BY <1>5, <1>8, <2>1
<1>10. \A u \in Task :
          IF TSTAT_WAIT_WOBJ(kk.tstat[u]) /\ kk.wobj[u] = w
          THEN ~TSTAT_WAITING(k1.tstat[u])
          ELSE k1.tstat[u] = kk.tstat[u]
  <2> SUFFICES ASSUME NEW u \in Task
               PROVE  IF Contains(q, u) THEN ~TSTAT_WAITING(k1.tstat[u])
                      ELSE k1.tstat[u] = kk.tstat[u]
    BY <1>2
  <2> HIDE DEF q
  <2>1. CASE Contains(q, u)
    <3>1. PICK i \in 1 .. Len(q) : q[i] = u
      BY <2>1 DEF Contains
    <3> QED BY <1>9, <2>1, <3>1 DEF ReleasedFirst
  <2>2. CASE ~Contains(q, u)
    <3>1. \A i \in 1 .. Len(q) : q[i] # u
      BY <2>2 DEF Contains
    <3> QED BY <1>9, <2>2, <3>1 DEF ReleasedFirst
  <2> QED BY <2>1, <2>2
<1>11. /\ Consistent(k1) /\ TasksOK(k1) /\ SameRun(k1, kk)
       /\ k1.wait_queue = wq /\ k1.wobj = kk.wobj /\ k1.priority = kk.priority
       /\ k1 \in KernelData
  BY <1>9 DEF ReleasedFirst, Consistent
<1>12. \A u \in Task :
          IF TSTAT_WAIT_WOBJ(kk.tstat[u]) /\ kk.wobj[u] = w
          THEN ~TSTAT_WAIT_WOBJ(k1.tstat[u])
          ELSE k1.tstat[u] = kk.tstat[u]
  BY <1>10 DEF TSTAT_WAITING, TSTAT_WAIT_WOBJ, WaitFactor
<1>13. QueuesOK(k1)
  <2>1. ASSUME NEW v \in Wobj
        PROVE  /\ \A u \in Task : Contains(k1.wait_queue[v], u) <=>
                     TSTAT_WAIT_WOBJ(k1.tstat[u]) /\ k1.wobj[u] = v
               /\ IsInjective(k1.wait_queue[v])
               /\ v \in TA_TPRI => Sorted(k1, k1.wait_queue[v])
    <3>1. CASE v = w
      <4>1. k1.wait_queue[v] = <<>>
        BY <1>1, <1>11, <3>1
      <4>2. /\ \A u : ~Contains(<<>>, u) /\ IsInjective(<<>>)
            /\ Sorted(k1, <<>>)
        BY DEF Contains, IsInjective, Sorted
      <4>3. \A u \in Task : ~(TSTAT_WAIT_WOBJ(k1.tstat[u]) /\ k1.wobj[u] = v)
        BY <1>11, <1>12, <3>1
      <4> QED BY <4>1, <4>2, <4>3
    <3>2. CASE v # w
      <4>1. k1.wait_queue[v] = kk.wait_queue[v]
        BY <1>1, <1>11, <3>2
      <4>2. \A u \in Task : TSTAT_WAIT_WOBJ(k1.tstat[u]) /\ k1.wobj[u] = v
               <=> TSTAT_WAIT_WOBJ(kk.tstat[u]) /\ kk.wobj[u] = v
        BY <1>11, <1>12, <3>2
      <4>3. v \in TA_TPRI => Sorted(k1, k1.wait_queue[v])
        <5>1. v \in TA_TPRI => Sorted(kk, kk.wait_queue[v])
          BY <1>1, WaitQueuesSorted DEF QueuesOK
        <5> QED BY <1>11, <4>1, <5>1 DEF Sorted
      <4> QED BY <1>2, <4>1, <4>2, <4>3
    <3> QED BY <3>1, <3>2
  <2>2. WaitQueues(k1)
    BY <1>11, <2>1, WaitQueuesSorted
  <2>3. OthersByArrival(k1)
    <3> SUFFICES ASSUME NEW u \in Task, TSTAT_WAIT_WOBJ(k1.tstat[u]),
                        ~TSTAT_WAIT_WOBJCB(k1.tstat[u])
                 PROVE  k1.wobj[u] \notin TA_TPRI
      BY DEF OthersByArrival
    <3>1. k1.tstat[u] = kk.tstat[u]
      BY <1>12
    <3> QED BY <1>1, <1>11, <3>1 DEF QueuesOK, OthersByArrival
  <2> QED BY <2>2, <2>3 DEF QueuesOK
<1> QED BY <1>10, <1>11, <1>13 DEF Sound, k1

-----------------------------------------------------------------------------
(* An object's tasks wait in queue w with the flag kind[w]. *)

Kinds(kk, kind) ==
    \A t \in Task : TSTAT_WAIT_WOBJ(kk.tstat[t]) =>
        /\ kk.wobj[t] \in Wobj
        /\ kk.tstat[t] \cap WaitWobj = {kind[kk.wobj[t]]}

\* The invariant that every object's is built on.
ObjectOK(kind) == KernelOK /\ Kinds(k, kind)

\* A call that makes no task wait.
LEMMA KindsReleased ==
  ASSUME NEW kk, NEW k1, NEW kind, Kinds(kk, kind), k1.wobj = kk.wobj,
         \A t \in Task : k1.tstat[t] = kk.tstat[t] \/ ~TSTAT_WAIT_WOBJ(k1.tstat[t])
  PROVE  Kinds(k1, kind)
<1> SUFFICES ASSUME NEW t \in Task, TSTAT_WAIT_WOBJ(k1.tstat[t])
             PROVE  /\ k1.wobj[t] \in Wobj
                    /\ k1.tstat[t] \cap WaitWobj = {kind[k1.wobj[t]]}
  BY DEF Kinds
<1>1. k1.tstat[t] = kk.tstat[t]
  OBVIOUS
<1> QED BY <1>1 DEF Kinds

-----------------------------------------------------------------------------
(* Who waits for an object, as its calls and the reports tell. *)

WaitersOf(kk, w) == {t \in Task : TSTAT_WAIT_WOBJ(kk.tstat[t]) /\ kk.wobj[t] = w}

\* A queue holds the tasks that wait in it, the one to be served first.
LEMMA QueueTasks ==
  ASSUME NEW kk \in KernelData, QueuesOK(kk), NEW w \in Wobj,
         NEW q, q = kk.wait_queue[w]
  PROVE  /\ q \in Seq(Task) /\ IsInjective(q)
         /\ \A t : t \in WaitersOf(kk, w) <=> \E i \in 1 .. Len(q) : q[i] = t
         /\ q = <<>> <=> WaitersOf(kk, w) = {}
         /\ q # <<>> => /\ Head(q) \in WaitersOf(kk, w)
                        /\ w \in TA_TPRI => \A t \in WaitersOf(kk, w) :
                              kk.priority[Head(q)] <= kk.priority[t]
<1>1. /\ \A t \in Task : Contains(q, t) <=> t \in WaitersOf(kk, w)
      /\ IsInjective(q) /\ (w \in TA_TPRI => Sorted(kk, q))
  BY WaitQueuesSorted DEF QueuesOK, WaitersOf
<1>2. q \in Seq(Task) /\ kk.priority \in [Task -> Nat]
  BY PriAssumption DEF KernelData, Pri
<1>3. \A t : t \in WaitersOf(kk, w) <=> \E i \in 1 .. Len(q) : q[i] = t
  <2>1. \A i \in 1 .. Len(q) : q[i] \in Task
    BY <1>2
  <2> QED BY <1>1, <2>1 DEF Contains, WaitersOf
<1>4. q = <<>> <=> WaitersOf(kk, w) = {}
  <2>1. q = <<>> <=> Len(q) = 0
    BY <1>2
  <2>2. Len(q) \in Nat
    BY <1>2
  <2>3. CASE Len(q) = 0
    BY <1>3, <2>1, <2>3
  <2>4. CASE Len(q) # 0
    <3>1. 1 \in 1 .. Len(q)
      BY <2>2, <2>4
    <3> QED BY <1>3, <2>1, <2>4, <3>1
  <2> QED BY <2>3, <2>4
<1>5. ASSUME q # <<>>
      PROVE  /\ Head(q) \in WaitersOf(kk, w)
             /\ w \in TA_TPRI => \A t \in WaitersOf(kk, w) :
                   kk.priority[Head(q)] <= kk.priority[t]
  <2>1. Len(q) \in Nat /\ 1 \in 1 .. Len(q) /\ Head(q) = q[1]
    BY <1>2, <1>5
  <2>2. Head(q) \in WaitersOf(kk, w)
    BY <1>3, <2>1
  <2>3. ASSUME w \in TA_TPRI, NEW t \in WaitersOf(kk, w)
        PROVE  kk.priority[Head(q)] <= kk.priority[t]
    <3>1. PICK i \in 1 .. Len(q) : q[i] = t
      BY <1>3
    <3>2. kk.priority[t] \in Nat
      BY <1>2 DEF WaitersOf
    <3>3. CASE i = 1
      BY <2>1, <3>1, <3>2, <3>3
    <3>4. CASE i # 1
      <4>1. 1 < i /\ i \in DOMAIN q /\ 1 \in DOMAIN q
        BY <1>2, <2>1, <3>4
      <4>2. Sorted(kk, q)
        BY <1>1, <2>3
      <4>3. kk.priority[q[1]] <= kk.priority[q[i]]
        BY <4>1, <4>2 DEF Sorted
      <4> QED BY <2>1, <3>1, <4>3
    <3> QED BY <3>3, <3>4
  <2>4. w \in TA_TPRI => \A t \in WaitersOf(kk, w) :
           kk.priority[Head(q)] <= kk.priority[t]
    BY <2>3
  <2> QED BY <2>2, <2>4
<1> QED BY <1>1, <1>2, <1>3, <1>4, <1>5

\* What ref_tsk reports of the tasks is what the call for the object reports.
LEMMA ReportedFirst ==
  ASSUME KernelOK, NEW w \in Wobj, NEW Waits, Waits = {t \in Task : ref_tsk(t).wobjid = w}
  PROVE  /\ Waits = WaitersOf(k, w)
         /\ IF Waits = {} THEN wait_tskid(w) = NULL
            ELSE /\ wait_tskid(w) \in Waits
                 /\ w \in TA_TPRI =>
                       \A t \in Waits : get_pri(wait_tskid(w)) <= get_pri(t)
<1>1. Waits = WaitersOf(k, w)
  BY WobjAssumption DEF WaitersOf, ref_tsk
<1>2. k \in KernelData /\ QueuesOK(k)
  BY SoundNow DEF Sound
<1> QED BY <1>1, <1>2, QueueTasks DEF wait_tskid, get_pri

\* The flag of an object tells who waits for it.
LEMMA FlagTells ==
  ASSUME NEW kk, NEW kind, Kinds(kk, kind), NEW w \in Wobj, NEW t \in Task,
         kind[w] \in WaitWobj, \A v \in Wobj : kind[v] = kind[w] => v = w
  PROVE  kind[w] \in kk.tstat[t] <=> t \in WaitersOf(kk, w)
<1>1. CASE TSTAT_WAIT_WOBJ(kk.tstat[t])
  <2>1. kk.wobj[t] \in Wobj /\ kk.tstat[t] \cap WaitWobj = {kind[kk.wobj[t]]}
    BY <1>1 DEF Kinds
  <2> QED BY <1>1, <2>1 DEF WaitersOf
<1>2. CASE ~TSTAT_WAIT_WOBJ(kk.tstat[t])
  BY <1>2 DEF WaitersOf, TSTAT_WAIT_WOBJ
<1> QED BY <1>1, <1>2

\* A call of task management or of the dispatcher ends one wait at most.
LEMMA WaitersLeave ==
  ASSUME NEW kk, NEW k1, Keeps(k1, kk), NEW w
  PROVE  \/ WaitersOf(k1, w) = WaitersOf(kk, w)
         \/ \E t \in Task : WaitersOf(k1, w) = WaitersOf(kk, w) \ {t}
<1>1. PICK t : \A u \in Task \ {t} : k1.tstat[u] \cap WaitWobj = kk.tstat[u] \cap WaitWobj
  BY DEF Keeps, OneWaitEnds
<1>2. \A u \in Task \ {t} : u \in WaitersOf(k1, w) <=> u \in WaitersOf(kk, w)
  <2> SUFFICES ASSUME NEW u \in Task \ {t}
               PROVE  u \in WaitersOf(k1, w) <=> u \in WaitersOf(kk, w)
    OBVIOUS
  <2>1. TSTAT_WAIT_WOBJ(k1.tstat[u]) <=> TSTAT_WAIT_WOBJ(kk.tstat[u])
    BY <1>1, WaitKind
  <2>2. TSTAT_WAIT_WOBJ(k1.tstat[u]) => k1.wobj[u] = kk.wobj[u]
    BY DEF Keeps, NoNewWaits
  <2> QED BY <2>1, <2>2 DEF WaitersOf
<1>3. WaitersOf(k1, w) \subseteq WaitersOf(kk, w)
  <2> SUFFICES ASSUME NEW u \in Task, TSTAT_WAIT_WOBJ(k1.tstat[u]), k1.wobj[u] = w
               PROVE  u \in WaitersOf(kk, w)
    BY DEF WaitersOf
  <2>1. k1.tstat[u] \cap WaitWobj = kk.tstat[u] \cap WaitWobj /\ k1.wobj[u] = kk.wobj[u]
    BY DEF Keeps, NoNewWaits
  <2> QED BY <2>1, WaitKind DEF WaitersOf
<1>4. WaitersOf(k1, w) \subseteq Task /\ WaitersOf(kk, w) \subseteq Task
  BY DEF WaitersOf
<1>5. CASE t \in WaitersOf(kk, w) /\ t \notin WaitersOf(k1, w)
  <2>1. WaitersOf(k1, w) = WaitersOf(kk, w) \ {t}
    BY <1>2, <1>3, <1>4, <1>5
  <2> QED BY <1>4, <1>5, <2>1
<1>6. CASE t \notin WaitersOf(kk, w) \/ t \in WaitersOf(k1, w)
  BY <1>2, <1>3, <1>4, <1>6
<1> QED BY <1>5, <1>6

\* Data that agree on the tasks agree on who waits.
LEMMA SameWaiters ==
  ASSUME NEW kk, NEW k1, SameQueueFields(k1, kk), NEW w
  PROVE  WaitersOf(k1, w) = WaitersOf(kk, w)
BY DEF WaitersOf, SameQueueFields

-----------------------------------------------------------------------------
(* The calls. *)

\* A call of task management, of synchronization or of the dispatcher.
LEMMA KernelStep ==
  ASSUME NEW kind, ObjectOK(kind), [KNext]_kvars
  PROVE  KernelOK' /\ Kinds(k', kind) /\ Keeps(k', k)
<1>1. Keeps(k', k) /\ IInv'
  BY QueuesStep, NextStep DEF ObjectOK, KernelOK
<1>2. KernelOK'
  BY <1>1 DEF KernelOK, Keeps, QueuesOK, WaitQueues, OthersByArrival
<1>3. Kinds(k', kind)
  <2> SUFFICES ASSUME NEW t \in Task, TSTAT_WAIT_WOBJ(k'.tstat[t])
               PROVE  /\ k'.wobj[t] \in Wobj
                      /\ k'.tstat[t] \cap WaitWobj = {kind[k'.wobj[t]]}
    BY DEF Kinds
  <2>1. k'.tstat[t] \cap WaitWobj = k.tstat[t] \cap WaitWobj /\ k'.wobj[t] = k.wobj[t]
    BY <1>1 DEF Keeps, NoNewWaits
  <2>2. TSTAT_WAIT_WOBJ(k.tstat[t])
    BY <2>1, WaitKind
  <2> QED BY <2>1, <2>2 DEF ObjectOK, Kinds
<1> QED BY <1>1, <1>2, <1>3

LEMMA KernelOKPrime ==
  ASSUME IInv', QueuesOK(k')
  PROVE  KernelOK'
BY DEF KernelOK, QueuesOK, WaitQueues, OthersByArrival

\* A call that leaves the tasks alone.
LEMMA QuietCall ==
  ASSUME NEW kind, ObjectOK(kind), ctx # "INIT", Return(k) \/ ReturnDispatching(k)
  PROVE  KernelOK' /\ Kinds(k', kind) /\ SameQueueFields(k', k)
<1>1. IInv' /\ QueuesOK(k') /\ SameQueueFields(k', k)
  BY EndUnchanged DEF ObjectOK
<1>2. Kinds(k', kind)
  BY <1>1 DEF ObjectOK, Kinds, SameQueueFields
<1> QED BY <1>1, <1>2, KernelOKPrime

\* A call by which the caller waits.
LEMMA WaitCall ==
  ASSUME NEW kind, ObjectOK(kind), NEW call, MayWait(call), NEW w, NEW ts, NEW b,
         NEW k1, BeginsToWait(k1, w, ts, b), ts = {kind[w]}, ReturnDispatching(k1)
  PROVE  /\ KernelOK' /\ Kinds(k', kind) /\ WaitsSince(k', w, ts)
         /\ ~TSTAT_WAIT_WOBJ(k.tstat[Self]) /\ TSTAT_WAIT_WOBJ(ts)
         /\ w \in Wobj /\ WaitersOf(k', w) = WaitersOf(k, w) \cup {Self}
         /\ Self \notin WaitersOf(k, w) /\ k'.tstat = k1.tstat
         /\ \A v \in Wobj \ {w} : WaitersOf(k', v) = WaitersOf(k, v)
<1>1. KernelOK /\ Kinds(k, kind) /\ IInv
  BY DEF ObjectOK, KernelOK
<1>2. TSKCTX /\ k.dspflg /\ ~k.raster[Self] /\ ctx = "TASK"
  BY DEF MayWait, CHECK_DISPATCH, CHECK_TSKCTX_UNL, TSKCTX
<1>3. Sound(k1) /\ SameRun(k1, k) /\ WaitsSince(k1, w, ts)
  BY <1>1, <1>2, WaitBegins
<1>4. IInv' /\ QueuesOK(k') /\ SameQueueFields(k', k1)
  BY <1>1, <1>2, <1>3, EndSound
<1>5. WaitsSince(k', w, ts)
  BY <1>3, <1>4 DEF SameQueueFields, WaitsSince
<1>6. k.tstat \in [Task -> Tstat] /\ k.wobj \in [Task -> Wobj \cup {NULL}]
  BY <1>1, Now DEF KernelData
<1>7. w \in Wobj /\ ts \cap WaitWobj = ts /\ TSTAT_WAIT_WOBJ(ts)
  BY ObjectFlags DEF BeginsToWait
<1>8. /\ Self \in Task /\ ~TSTAT_WAIT_WOBJ(k.tstat[Self])
      /\ k'.tstat[Self] = ts /\ k'.wobj[Self] = w
      /\ \A u \in Task \ {Self} : k'.tstat[u] = k.tstat[u] /\ k'.wobj[u] = k.wobj[u]
  BY <1>5, <1>6, TstatFacts DEF WaitsSince
<1>9. Kinds(k', kind)
  <2> SUFFICES ASSUME NEW t \in Task, TSTAT_WAIT_WOBJ(k'.tstat[t])
               PROVE  /\ k'.wobj[t] \in Wobj
                      /\ k'.tstat[t] \cap WaitWobj = {kind[k'.wobj[t]]}
    BY DEF Kinds
  <2>1. CASE t = Self
    BY <1>7, <1>8, <2>1
  <2>2. CASE t # Self
    BY <1>1, <1>8, <2>2 DEF Kinds
  <2> QED BY <2>1, <2>2
<1>10. /\ WaitersOf(k', w) = WaitersOf(k, w) \cup {Self} /\ Self \notin WaitersOf(k, w)
       /\ \A v \in Wobj \ {w} : WaitersOf(k', v) = WaitersOf(k, v)
  BY <1>7, <1>8 DEF WaitersOf
<1>11. k'.tstat = k1.tstat
  BY <1>4 DEF SameQueueFields
<1> QED BY <1>4, <1>5, <1>7, <1>8, <1>9, <1>10, <1>11, KernelOKPrime

\* A call by which the first task of a queue is served.
LEMMA ServeCall ==
  ASSUME NEW kind, ObjectOK(kind), NEW w \in Wobj, k.wait_queue[w] # <<>>,
         ctx # "INIT", ReturnDispatching(FirstServed(w))
  PROVE  LET t == Head(k.wait_queue[w]) IN
         /\ KernelOK' /\ Kinds(k', kind) /\ k'.tstat = FirstServed(w).tstat
         /\ t \in Task /\ TSTAT_WAIT_WOBJ(k.tstat[t]) /\ k.wobj[t] = w
         /\ k'.wait_queue = [k.wait_queue EXCEPT ![w] = Tail(@)]
         /\ k'.wobj = k.wobj /\ k'.priority = k.priority
         /\ ~TSTAT_WAITING(k'.tstat[t]) /\ ~TSTAT_WAIT_WOBJ(k'.tstat[t])
         /\ \A u \in Task \ {t} : k'.tstat[u] = k.tstat[u]
<1> DEFINE t  == Head(k.wait_queue[w])
           k1 == FirstServed(w)
<1>1. KernelOK /\ Kinds(k, kind) /\ IInv
  BY DEF ObjectOK, KernelOK
<1>2. /\ Sound(k1) /\ SameRun(k1, k) /\ StillRunnable(k1)
      /\ t \in Task /\ TSTAT_WAIT_WOBJ(k.tstat[t]) /\ k.wobj[t] = w
      /\ k1.wait_queue = [k.wait_queue EXCEPT ![w] = Tail(@)]
      /\ k1.wobj = k.wobj /\ k1.priority = k.priority
      /\ ~TSTAT_WAITING(k1.tstat[t]) /\ ~TSTAT_WAIT_WOBJ(k1.tstat[t])
      /\ \A u \in Task \ {t} : k1.tstat[u] = k.tstat[u]
  BY <1>1, FirstServes
<1> HIDE DEF k1, t
<1>3. IInv' /\ QueuesOK(k') /\ SameQueueFields(k', k1)
  BY <1>1, <1>2, EndSound DEF k1
<1>4. /\ k'.wait_queue = [k.wait_queue EXCEPT ![w] = Tail(@)]
      /\ k'.wobj = k.wobj /\ k'.priority = k.priority
      /\ ~TSTAT_WAITING(k'.tstat[t]) /\ ~TSTAT_WAIT_WOBJ(k'.tstat[t])
      /\ \A u \in Task \ {t} : k'.tstat[u] = k.tstat[u]
  BY <1>2, <1>3 DEF SameQueueFields
<1>5. Kinds(k', kind)
  BY <1>1, <1>2, <1>4, KindsReleased
<1>6. k'.tstat = FirstServed(w).tstat
  BY <1>3 DEF SameQueueFields, k1
<1> QED BY <1>2, <1>3, <1>4, <1>5, <1>6, KernelOKPrime DEF t

\* A call by which all tasks of a queue are released.
LEMMA ResetCall ==
  ASSUME NEW kind, ObjectOK(kind), NEW w \in Wobj, ctx = "TASK",
         ReturnDispatching(init_wait_queue(k, w))
  PROVE  /\ KernelOK' /\ Kinds(k', kind)
         /\ k'.wait_queue = [k.wait_queue EXCEPT ![w] = <<>>]
         /\ k'.wobj = k.wobj /\ k'.priority = k.priority
         /\ \A u \in Task :
               IF TSTAT_WAIT_WOBJ(k.tstat[u]) /\ k.wobj[u] = w
               THEN ~TSTAT_WAITING(k'.tstat[u])
               ELSE k'.tstat[u] = k.tstat[u]
<1> DEFINE k1 == init_wait_queue(k, w)
<1>1. KernelOK /\ Kinds(k, kind) /\ IInv /\ Sound(k)
  BY SoundNow DEF ObjectOK, KernelOK
<1>2. /\ Sound(k1) /\ SameRun(k1, k)
      /\ k1.wait_queue = [k.wait_queue EXCEPT ![w] = <<>>]
      /\ k1.wobj = k.wobj /\ k1.priority = k.priority
      /\ \A u \in Task :
            IF TSTAT_WAIT_WOBJ(k.tstat[u]) /\ k.wobj[u] = w
            THEN ~TSTAT_WAITING(k1.tstat[u])
            ELSE k1.tstat[u] = k.tstat[u]
  BY <1>1, AllReleased
<1> HIDE DEF k1
<1>3. IInv' /\ QueuesOK(k') /\ SameQueueFields(k', k1)
  BY <1>1, <1>2, EndSound DEF k1
<1>4. /\ k'.wait_queue = [k.wait_queue EXCEPT ![w] = <<>>]
      /\ k'.wobj = k.wobj /\ k'.priority = k.priority
      /\ \A u \in Task :
            IF TSTAT_WAIT_WOBJ(k.tstat[u]) /\ k.wobj[u] = w
            THEN ~TSTAT_WAITING(k'.tstat[u])
            ELSE k'.tstat[u] = k.tstat[u]
  BY <1>2, <1>3 DEF SameQueueFields
<1>5. \A u \in Task : k'.tstat[u] = k.tstat[u] \/ ~TSTAT_WAIT_WOBJ(k'.tstat[u])
  BY <1>4 DEF TSTAT_WAITING, TSTAT_WAIT_WOBJ, WaitFactor
<1>6. Kinds(k', kind)
  BY <1>1, <1>4, <1>5, KindsReleased
<1> QED BY <1>3, <1>4, <1>6, KernelOKPrime

\* At first.
LEMMA InitObject ==
  ASSUME KInit
  PROVE  /\ KernelOK /\ \A kind : ObjectOK(kind)
         /\ \A w : WaitersOf(k, w) = {}
         /\ \A t \in Task : ~TSTAT_WAIT_WOBJ(k.tstat[t])
BY InitIInv, InitQueues DEF KernelOK, ObjectOK, Kinds, WaitersOf

\* In words of the properties that runs check.
LEMMA KernelScheduling == KernelOK => SchedulingOK
BY DEF KernelOK, IInv, QueuesOK, SchedulingOK, DispatchOK

-----------------------------------------------------------------------------
(* The reports on tasks and on the system. *)

\* The elements of a sequence without repetitions, counted by its length.
LEMMA CountedByLength ==
  ASSUME NEW T, NEW q \in Seq(T), IsInjective(q), NEW S,
         \A t : t \in S <=> \E i \in 1 .. Len(q) : q[i] = t
  PROVE  Cardinality(S) = Len(q)
<1>1. Len(q) \in Nat /\ DOMAIN q = 1 .. Len(q)
  OBVIOUS
<1>2. q \in [1 .. Len(q) -> S]
  OBVIOUS
<1>3. q \in Bijection(1 .. Len(q), S)
  BY <1>2 DEF Bijection, Injection, Surjection
<1> QED BY <1>1, <1>3, FS_CountingElements DEF ExistsBijection

\* get_tst reports a task as running or ready exactly if it is runnable.
LEMMA ReportedState ==
  ASSUME KernelOK, NEW t \in Task
  PROVE  /\ get_tst(t) \in {"RUN", "RDY"} <=> TSTAT_RUNNABLE(k.tstat[t])
         /\ get_tst(t) = "RUN" <=> t = k.p_runtsk
         /\ get_tst(t) = "DMT" <=> TSTAT_DORMANT(k.tstat[t])
<1>1. k.tstat[t] \in Tstat
  BY SoundNow DEF KernelData
<1>2. TSTAT_RUNNABLE(k.tstat[t]) <=>
         /\ ~TSTAT_DORMANT(k.tstat[t]) /\ ~TSTAT_SUSPENDED(k.tstat[t])
         /\ ~TSTAT_WAITING(k.tstat[t])
  BY <1>1 DEF Tstat, TSTAT_RUNNABLE, TSTAT_DORMANT, TSTAT_SUSPENDED, TSTAT_WAITING,
              TS_DORMANT, TS_RUNNABLE, TS_SUSPENDED, WaitFactor, WaitWobj, WaitWobjcb
<1>3. t = k.p_runtsk => TSTAT_RUNNABLE(k.tstat[t])
  BY TaskAssumption DEF KernelOK, IInv, DspflgOK
<1> QED BY <1>2, <1>3 DEF get_tst

\* The tasks that get_nth lists.
LEMMA ListedTasks ==
  ASSUME KernelOK, NEW p \in Pri,
         NEW S, S = {t \in Task : get_tst(t) \in {"RUN", "RDY"} /\ get_pri(t) = p}
  PROVE  /\ {get_nth(p, n) : n \in 0 .. get_lod(p) - 1} = S
         /\ get_lod(p) = Cardinality(S)
         /\ get_lod(p) \in Nat
<1> DEFINE q == k.ready_queue[p]
<1>1. q \in Seq(Task) /\ IsInjective(q)
  BY SoundNow DEF Sound, Consistent, ReadyQueue, KernelData
<1>2. \A t \in Task : Contains(q, t) <=> t \in S
  BY SoundNow, ReportedState DEF Sound, Consistent, ReadyQueue, Runnable, get_pri
<1>3. get_lod(p) = Len(q) /\ \A n \in 0 .. Len(q) - 1 : get_nth(p, n) = q[n + 1]
  BY DEF get_lod, get_nth
<1> HIDE DEF q
<1>4. Len(q) \in Nat /\ \A i \in 1 .. Len(q) : q[i] \in Task
  BY <1>1
<1>5. \A t : t \in S <=> \E i \in 1 .. Len(q) : q[i] = t
  BY <1>2, <1>4 DEF Contains
<1>6. Cardinality(S) = Len(q)
  BY <1>1, <1>5, CountedByLength
<1>7. ASSUME NEW t PROVE t \in S <=> \E n \in 0 .. Len(q) - 1 : get_nth(p, n) = t
  <2>1. ASSUME NEW i \in 1 .. Len(q)
        PROVE  i - 1 \in 0 .. Len(q) - 1 /\ get_nth(p, i - 1) = q[i]
    BY <1>3, <1>4
  <2>2. ASSUME NEW n \in 0 .. Len(q) - 1
        PROVE  n + 1 \in 1 .. Len(q) /\ get_nth(p, n) = q[n + 1]
    BY <1>3, <1>4
  <2> QED BY <1>5, <2>1, <2>2
<1> QED BY <1>3, <1>4, <1>6, <1>7

\* The reports agree in every state that the objects' invariants allow.
LEMMA ReportsOfKernel == KernelOK => ReportsAgree
<1> SUFFICES ASSUME KernelOK PROVE ReportsAgree
  OBVIOUS
<1>1. \A p \in Pri :
         {get_nth(p, n) : n \in 0 .. get_lod(p) - 1}
            = {t \in Task : get_tst(t) \in {"RUN", "RDY"} /\ get_pri(t) = p}
  BY ListedTasks
<1>2. \A p \in Pri : get_lod(p)
         = Cardinality({t \in Task : get_tst(t) \in {"RUN", "RDY"} /\ get_pri(t) = p})
  BY ListedTasks
<1>3. \A t \in Task : get_tst(t) = "RUN" <=> get_tid = t
  BY ReportedState DEF get_tid
<1>4. ASSUME NEW t \in Task, get_tst(t) = "RUN", ~sns_dpn
      PROVE  /\ get_nth(get_pri(t), 0) = t
             /\ \A p \in Pri : p < get_pri(t) => get_lod(p) = 0
  <2>1. t = k.p_runtsk /\ ctx = "TASK" /\ k.dspflg
    BY <1>4, ReportedState DEF sns_dpn, sns_ctx
  <2>2. t = k.p_schedtsk /\ t # NULL
    BY <2>1, TaskAssumption DEF KernelOK, IInv, NoLostDispatch
  <2>3. HighestPrecedence(k, t)
    BY <2>1, <2>2 DEF KernelOK, IInv, SchedtskOK, Scheduled
  <2>4. /\ k.priority[t] \in Pri
        /\ \A p \in Pri : k.ready_queue[p] \in Seq(Task)
    BY SoundNow DEF KernelData
  <2> DEFINE q == k.ready_queue[k.priority[t]]
  <2>5. q # <<>> /\ Head(q) = t /\ q \in Seq(Task)
    BY <2>3, <2>4 DEF HighestPrecedence
  <2>6. 0 < Len(q) /\ q[0 + 1] = t
    BY <2>5
  <2>7. get_nth(get_pri(t), 0) = t
    BY <2>6 DEF get_nth, get_pri
  <2>8. \A p \in Pri : p < get_pri(t) => get_lod(p) = 0
    BY <2>3 DEF HighestPrecedence, get_pri, get_lod
  <2> QED BY <2>7, <2>8
<1>5. \A t \in Task : get_tst(t) = "DMT" => ~ref_tsk(t).actcnt /\ ~ref_tsk(t).dister
  BY ReportedState DEF KernelOK, IInv, DormantOK, ref_tsk
<1>6. sns_dsp => sns_dpn /\ get_tid # NULL
  BY DEF KernelOK, IInv, DspflgOK, sns_dsp, sns_dpn, get_tid
<1>7. \A t \in Task : ref_tsk(t).lefttmo = "LIMITED" => get_tst(t) \in {"WAI", "WAS"}
  <2>1. ASSUME NEW t \in Task, k.tmevtb[t] PROVE get_tst(t) \in {"WAI", "WAS"}
    <3>1. TSTAT_WAITING(k.tstat[t])
      BY <2>1 DEF KernelOK, IInv, TmevtbOK
    <3>2. ~TSTAT_DORMANT(k.tstat[t])
      BY <3>1, SoundNow, TstatFacts DEF KernelData
    <3> QED BY <3>1, <3>2 DEF get_tst
  <2> QED BY <2>1 DEF ref_tsk
<1>8. ASSUME NEW t \in Task, ref_tsk(t).raster
      PROVE  /\ get_tst(t) \in {"RUN", "RDY"}
             /\ ref_tsk(t).dister \/ (get_tid = t /\ sns_dpn)
             /\ get_tid = t => sns_ter \/ sns_dpn
  <2>1. k.raster[t] /\ ref_tsk(t).dister = ~k.enater[t]
    BY <1>8 DEF ref_tsk
  <2>2. TSTAT_RUNNABLE(k.tstat[t])
    BY <2>1 DEF KernelOK, IInv, TerminationPending
  <2>3. k.enater[t] => t = k.p_runtsk /\ ~k.dspflg
    BY <2>1 DEF KernelOK, IInv, TerminationPending
  <2> QED BY <2>1, <2>2, <2>3, ReportedState DEF get_tid, sns_dpn, sns_ter
<1> QED BY <1>1, <1>2, <1>3, <1>4, <1>5, <1>6, <1>7, <1>8 DEF ReportsAgree

\* What get_tst, get_tid, get_lod, get_nth, get_pri, sns_dpn, sns_dsp, sns_ter
\* and the requests and the time limit that ref_tsk shows say of one state
\* agrees, although each looks at other data (task_refer.c, sys_manage.c).
THEOREM ReportsCorrect == KSpec => []ReportsAgree
<1>1. KInit => KernelOK
  BY InitObject
<1>2. KernelOK /\ [KNext]_kvars => KernelOK'
  <2> SUFFICES ASSUME KernelOK, [KNext]_kvars PROVE KernelOK'
    OBVIOUS
  <2> QED BY NextStep, QueuesStep, KernelOKPrime DEF KernelOK, Keeps
<1> QED BY <1>1, <1>2, ReportsOfKernel, PTL DEF KSpec
=============================================================================
