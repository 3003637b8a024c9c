--------------------------- MODULE DataQueueProofs --------------------------
(***************************************************************************)
(* A data queue, for any numbers of tasks, priorities and data, and any    *)
(* capacity: the ring buffer, the invariant DataQueueOK, and the           *)
(* refinement of Fifo.                                                     *)
(***************************************************************************)
EXTENDS DataQueue, TaskSystemProofs

-----------------------------------------------------------------------------
(* Ring buffers. *)

\* An index that has run past the end of the ring once.
LEMMA Wraps ==
  ASSUME NEW n \in Nat \ {0}, NEW a \in 0 .. 2 * n - 1
  PROVE  a % n = IF a < n THEN a ELSE a - n
OBVIOUS

-----------------------------------------------------------------------------
(* The ring buffer. *)

\* What is in the ring q, the oldest first.
ContentsOf(q) == [i \in 1 .. q.count |-> q.mb[(q.head + i - 1) % dtqcnt]]

\* Head, tail and count delimit one part of the ring.
Delimited(q) ==
    /\ q \in [mb : [0 .. dtqcnt - 1 -> Data \cup {NULL}], count : Nat,
              head : Nat, tail : Nat]
    /\ q.count <= dtqcnt
    /\ dtqcnt = 0 => q.count = 0
    /\ dtqcnt > 0 => q.head < dtqcnt /\ q.tail = (q.head + q.count) % dtqcnt

\* The place of a value in the ring, without a division.
Place(q, i) == IF q.head + i - 1 < dtqcnt THEN q.head + i - 1 ELSE q.head + i - 1 - dtqcnt

LEMMA Places ==
  ASSUME DataQueueAssumption, NEW q, Delimited(q), dtqcnt > 0
  PROVE  /\ q.head \in 0 .. dtqcnt - 1 /\ q.tail \in 0 .. dtqcnt - 1
         /\ q.tail = Place(q, q.count + 1)
         /\ \A i \in 1 .. dtqcnt :
               (q.head + i - 1) % dtqcnt = Place(q, i) /\ Place(q, i) \in 0 .. dtqcnt - 1
         /\ \A i \in 1 .. dtqcnt : q.mb[Place(q, i)] \in Data \cup {NULL}
<1> DEFINE h == q.head
           c == q.count
<1>1. h \in Nat /\ c \in Nat /\ dtqcnt \in Nat \ {0} /\ c <= dtqcnt /\ h < dtqcnt
      /\ q.tail = (h + c) % dtqcnt
  BY DEF Delimited, DataQueueAssumption
<1>2. q.mb \in [0 .. dtqcnt - 1 -> Data \cup {NULL}]
  BY DEF Delimited
<1>3. \A i \in 1 .. dtqcnt : (h + i - 1) % dtqcnt = Place(q, i) /\ Place(q, i) \in 0 .. dtqcnt - 1
  <2> SUFFICES ASSUME NEW i \in 1 .. dtqcnt
               PROVE  (h + i - 1) % dtqcnt = Place(q, i) /\ Place(q, i) \in 0 .. dtqcnt - 1
    OBVIOUS
  <2> DEFINE a == h + i - 1
  <2>1. a \in 0 .. 2 * dtqcnt - 1 /\ a - dtqcnt < dtqcnt
    BY <1>1
  <2>2. a % dtqcnt = IF a < dtqcnt THEN a ELSE a - dtqcnt
    BY <1>1, <2>1, Wraps
  <2> QED BY <1>1, <2>1, <2>2 DEF Place
<1>4. q.tail = Place(q, c + 1) /\ q.tail \in 0 .. dtqcnt - 1
  <2> DEFINE a == h + c
  <2>1. a \in 0 .. 2 * dtqcnt - 1 /\ a - dtqcnt < dtqcnt /\ a = h + (c + 1) - 1
    BY <1>1
  <2>2. a % dtqcnt = IF a < dtqcnt THEN a ELSE a - dtqcnt
    BY <1>1, <2>1, Wraps
  <2> QED BY <1>1, <2>1, <2>2 DEF Place
<1> HIDE DEF c
<1>5. \A i \in 1 .. dtqcnt : q.mb[Place(q, i)] \in Data \cup {NULL}
  BY <1>2, <1>3
<1> QED BY <1>1, <1>3, <1>4, <1>5 DEF c

\* The contents by their places.
LEMMA ContentsAre ==
  ASSUME DataQueueAssumption, NEW q, Delimited(q)
  PROVE  /\ q.count \in Nat /\ ContentsOf(q) \in Seq(Data \cup {NULL})
         /\ Len(ContentsOf(q)) = q.count
         /\ \A i \in 1 .. q.count : ContentsOf(q)[i] = q.mb[Place(q, i)]
<1>1. q.count \in Nat /\ dtqcnt \in Nat /\ q.count <= dtqcnt /\ (dtqcnt = 0 => q.count = 0)
  BY DEF Delimited, DataQueueAssumption
<1> DEFINE n == q.count
<1> HIDE DEF n
<1>2. ASSUME NEW i \in 1 .. n
      PROVE  /\ ContentsOf(q)[i] = q.mb[Place(q, i)]
             /\ q.mb[Place(q, i)] \in Data \cup {NULL}
  <2>1. i \in 1 .. dtqcnt /\ dtqcnt > 0
    BY <1>1 DEF n
  <2>2. ContentsOf(q)[i] = q.mb[(q.head + i - 1) % dtqcnt]
    BY DEF ContentsOf, n
  <2> QED BY <2>1, <2>2, Places
<1>3. ContentsOf(q) = [i \in 1 .. n |-> q.mb[(q.head + i - 1) % dtqcnt]]
  BY DEF ContentsOf, n
<1>4. DOMAIN ContentsOf(q) = 1 .. n /\ n \in Nat
  BY <1>1, <1>3 DEF n
<1>5. ContentsOf(q) \in [1 .. n -> Data \cup {NULL}]
  <2>1. ContentsOf(q) = [i \in 1 .. n |-> ContentsOf(q)[i]]
    BY <1>3
  <2>2. \A i \in 1 .. n : ContentsOf(q)[i] \in Data \cup {NULL}
    BY <1>2
  <2> QED BY <2>1, <2>2
<1>6. ContentsOf(q) \in Seq(Data \cup {NULL}) /\ Len(ContentsOf(q)) = n
  BY <1>4, <1>5
<1> QED BY <1>1, <1>2, <1>6 DEF n

\* Different places, and the next one.
LEMMA PlacesApart ==
  ASSUME DataQueueAssumption, NEW q, Delimited(q), dtqcnt > 0
  PROVE  /\ \A i, j \in 1 .. dtqcnt : Place(q, i) = Place(q, j) => i = j
         /\ \A i \in 1 .. dtqcnt : next_index(Place(q, i)) = Place(q, i + 1)
         /\ Place(q, dtqcnt + 1) = q.head /\ Place(q, 1) = q.head
<1>1. q.head \in Nat /\ q.head < dtqcnt /\ dtqcnt \in Nat \ {0}
  BY DEF Delimited, DataQueueAssumption
<1> QED BY <1>1 DEF Place, next_index

LEMMA DataEnqueued ==
  ASSUME DataQueueAssumption, NEW q, Delimited(q), q.count < dtqcnt,
         NEW d \in Data \cup {NULL}, NEW r, r = enqueue_data(q, d)
  PROVE  /\ Delimited(r) /\ ContentsOf(r) = Append(ContentsOf(q), d)
         /\ r.mb = [q.mb EXCEPT ![q.tail] = d] /\ r.count = q.count + 1
         /\ r.head = q.head /\ r.tail = next_index(q.tail)
<1> DEFINE c == q.count
<1>1. /\ c \in Nat /\ dtqcnt \in Nat /\ dtqcnt \in Nat \ {0} /\ c < dtqcnt /\ dtqcnt > 0 /\ c + 1 \in 1 .. dtqcnt
      /\ q.mb \in [0 .. dtqcnt - 1 -> Data \cup {NULL}] /\ q.head \in Nat /\ q.head < dtqcnt
  BY DEF Delimited, DataQueueAssumption
<1>2. q.tail \in 0 .. dtqcnt - 1 /\ q.tail = Place(q, c + 1)
  BY <1>1, Places
<1>3. /\ r = [q EXCEPT !.mb = [@ EXCEPT ![q.tail] = d], !.count = c + 1,
                       !.tail = next_index(q.tail)]
      /\ "mb" \in DOMAIN q /\ "count" \in DOMAIN q /\ "tail" \in DOMAIN q /\ "head" \in DOMAIN q
  BY DEF enqueue_data, Delimited
<1>4. /\ r.mb = [q.mb EXCEPT ![q.tail] = d] /\ r.count = c + 1
      /\ r.head = q.head /\ r.tail = next_index(q.tail)
      /\ r = [mb |-> r.mb, count |-> r.count, head |-> r.head, tail |-> r.tail]
  BY <1>3 DEF Delimited
<1> HIDE DEF c
<1>5. r.mb \in [0 .. dtqcnt - 1 -> Data \cup {NULL}]
  BY <1>1, <1>2, <1>4
<1>6. r.tail = Place(q, c + 2) /\ r.tail \in Nat
  <2>1. next_index(Place(q, c + 1)) = Place(q, (c + 1) + 1)
    BY <1>1, PlacesApart
  <2>2. (c + 1) + 1 = c + 2
    BY <1>1
  <2> QED BY <1>1, <1>2, <1>4, <2>1, <2>2 DEF next_index
<1>7. r.tail = (r.head + r.count) % dtqcnt
  <2> DEFINE a == q.head + (c + 1)
  <2>1. a \in 0 .. 2 * dtqcnt - 1 /\ a = q.head + (c + 2) - 1
    BY <1>1
  <2>2. a % dtqcnt = IF a < dtqcnt THEN a ELSE a - dtqcnt
    <3> HIDE DEF a
    <3> QED BY <1>1, <2>1, Wraps
  <2>3. r.head + r.count = a
    BY <1>4
  <2>4. Place(q, c + 2) = IF a < dtqcnt THEN a ELSE a - dtqcnt
    BY <1>1, <2>1 DEF Place
  <2> HIDE DEF a
  <2> QED BY <1>6, <2>2, <2>3, <2>4
<1>8. Delimited(r)
  <2>1. r \in [mb : [0 .. dtqcnt - 1 -> Data \cup {NULL}], count : Nat, head : Nat, tail : Nat]
    BY <1>1, <1>4, <1>5, <1>6
  <2> QED BY <1>1, <1>4, <1>7, <2>1 DEF Delimited
<1>9. \A i : Place(r, i) = Place(q, i)
  BY <1>4 DEF Place
<1>10. ASSUME NEW i \in 1 .. c PROVE ContentsOf(r)[i] = ContentsOf(q)[i]
  <2>1. i \in 1 .. dtqcnt /\ i # c + 1 /\ i \in 1 .. c + 1
    BY <1>1
  <2>2. Place(q, i) # q.tail /\ Place(q, i) \in 0 .. dtqcnt - 1
    <3>1. Place(q, i) \in 0 .. dtqcnt - 1
      BY <1>1, <2>1, Places
    <3>2. Place(q, i) # Place(q, c + 1)
      BY <1>1, <2>1, PlacesApart
    <3> QED BY <1>2, <3>1, <3>2
  <2>3. ContentsOf(r)[i] = r.mb[Place(r, i)]
    BY <1>4, <1>8, <2>1, ContentsAre
  <2>4. ContentsOf(q)[i] = q.mb[Place(q, i)]
    BY ContentsAre DEF c
  <2> QED BY <1>1, <1>4, <1>9, <2>2, <2>3, <2>4
<1>11. ContentsOf(r)[c + 1] = d
  <2>1. ContentsOf(r)[c + 1] = r.mb[Place(r, c + 1)]
    <3>1. c + 1 \in 1 .. r.count
      BY <1>1, <1>4
    <3> QED BY <1>8, <3>1, ContentsAre
  <2> QED BY <1>1, <1>2, <1>4, <1>9, <2>1
<1>12. /\ ContentsOf(q) \in Seq(Data \cup {NULL}) /\ Len(ContentsOf(q)) = c
       /\ ContentsOf(r) \in Seq(Data \cup {NULL}) /\ Len(ContentsOf(r)) = c + 1
  BY <1>4, <1>8, ContentsAre DEF c
<1>13. ContentsOf(r) = Append(ContentsOf(q), d)
  <2> DEFINE C == ContentsOf(q)
             R == ContentsOf(r)
  <2>1. \A i \in 1 .. c : R[i] = C[i]
    BY <1>10
  <2> HIDE DEF C, R
  <2> QED BY <1>1, <1>11, <1>12, <2>1 DEF C, R
<1> QED BY <1>4, <1>8, <1>13 DEF c

LEMMA DataDequeued ==
  ASSUME DataQueueAssumption, NEW q, Delimited(q), q.count > 0,
         NEW r, r = dequeue_data(q)
  PROVE  /\ Delimited(r) /\ r.count = q.count - 1 /\ r.count < dtqcnt
         /\ ContentsOf(q) # <<>> /\ Head(ContentsOf(q)) = q.mb[q.head]
         /\ ContentsOf(r) = Tail(ContentsOf(q))
         /\ q.mb[q.head] \in Data \cup {NULL}
         /\ r.mb = q.mb /\ r.head = next_index(q.head) /\ r.tail = q.tail
<1> DEFINE c == q.count
<1>1. /\ c \in Nat /\ dtqcnt \in Nat /\ dtqcnt \in Nat \ {0} /\ c <= dtqcnt /\ dtqcnt > 0 /\ c > 0
      /\ 1 \in 1 .. dtqcnt /\ 1 \in 1 .. c
      /\ q.mb \in [0 .. dtqcnt - 1 -> Data \cup {NULL}] /\ q.head \in Nat /\ q.head < dtqcnt
  BY DEF Delimited, DataQueueAssumption
<1>2. /\ r = [q EXCEPT !.count = c - 1, !.head = next_index(q.head)]
      /\ "mb" \in DOMAIN q /\ "count" \in DOMAIN q /\ "tail" \in DOMAIN q /\ "head" \in DOMAIN q
  BY DEF dequeue_data, Delimited
<1>3. /\ r.mb = q.mb /\ r.count = c - 1
      /\ r.head = next_index(q.head) /\ r.tail = q.tail /\ q.tail \in Nat
      /\ r = [mb |-> r.mb, count |-> r.count, head |-> r.head, tail |-> r.tail]
      /\ q.tail = (q.head + c) % dtqcnt
  BY <1>1, <1>2 DEF Delimited
<1> HIDE DEF c
<1>4. Place(q, 1) = q.head /\ r.head \in Nat /\ r.head < dtqcnt
  BY <1>1, <1>3, PlacesApart DEF next_index
<1>5. r.tail = (r.head + r.count) % dtqcnt
  <2> DEFINE a == q.head + c
             b == r.head + r.count
  <2>1. /\ a \in 0 .. 2 * dtqcnt - 1 /\ b \in 0 .. 2 * dtqcnt - 1
        /\ q.head \in Nat /\ q.head < dtqcnt /\ dtqcnt \in Nat \ {0}
        /\ c \in 1 .. dtqcnt
    <3>1. /\ q.head \in Nat /\ q.head < dtqcnt /\ dtqcnt \in Nat \ {0}
          /\ c \in 1 .. dtqcnt
      BY <1>1
    <3>2. a \in 0 .. 2 * dtqcnt - 1
      BY <3>1
    <3>3. r.count \in 0 .. dtqcnt - 1
      BY <1>3, <3>1
    <3>4. b \in 0 .. 2 * dtqcnt - 1
      BY <1>4, <3>1, <3>3
    <3> QED BY <3>1, <3>2, <3>4
  <2>2. r.head = IF q.head + 1 >= dtqcnt THEN 0 ELSE q.head + 1
    BY <1>3 DEF next_index
  <2>3. (IF a < dtqcnt THEN a ELSE a - dtqcnt) = (IF b < dtqcnt THEN b ELSE b - dtqcnt)
    <3>1. CASE q.head + 1 >= dtqcnt
      <4>1. q.head = dtqcnt - 1 /\ r.head = 0 /\ b = c - 1
        BY <1>3, <2>1, <2>2, <3>1
      <4>2. a = dtqcnt + (c - 1)
        BY <2>1, <4>1
      <4> HIDE DEF a, b
      <4> QED BY <2>1, <4>1, <4>2
    <3>2. CASE ~(q.head + 1 >= dtqcnt)
      <4>1. b = a
        BY <1>3, <2>1, <2>2, <3>2
      <4> HIDE DEF a, b
      <4> QED BY <4>1
    <3> QED BY <3>1, <3>2
  <2> HIDE DEF a, b
  <2>4. a % dtqcnt = IF a < dtqcnt THEN a ELSE a - dtqcnt
    BY <2>1, Wraps
  <2>5. b % dtqcnt = IF b < dtqcnt THEN b ELSE b - dtqcnt
    BY <2>1, Wraps
  <2> QED BY <1>3, <2>3, <2>4, <2>5 DEF a, b
<1>6. Delimited(r)
  <2>1. r \in [mb : [0 .. dtqcnt - 1 -> Data \cup {NULL}], count : Nat, head : Nat, tail : Nat]
    BY <1>1, <1>3, <1>4
  <2> QED BY <1>1, <1>3, <1>4, <1>5, <2>1 DEF Delimited
<1>7. ASSUME NEW i \in 1 .. c - 1 PROVE ContentsOf(r)[i] = ContentsOf(q)[i + 1]
  <2>1. i + 1 \in 1 .. c /\ i \in Nat /\ i <= dtqcnt - 1
    BY <1>1
  <2>2. Place(r, i) = Place(q, i + 1)
    <3>1. r.head = IF q.head + 1 >= dtqcnt THEN 0 ELSE q.head + 1
      BY <1>3 DEF next_index
    <3>2. q.head \in Nat /\ q.head < dtqcnt /\ dtqcnt \in Nat
      BY <1>1
    <3> QED BY <2>1, <3>1, <3>2 DEF Place
  <2>3. ContentsOf(r)[i] = r.mb[Place(r, i)]
    BY <1>3, <1>6, ContentsAre
  <2>4. ContentsOf(q)[i + 1] = q.mb[Place(q, i + 1)]
    BY <2>1, ContentsAre DEF c
  <2> QED BY <1>3, <2>2, <2>3, <2>4
<1>8. ContentsOf(q)[1] = q.mb[q.head]
  BY <1>1, <1>4, ContentsAre DEF c
<1>9. /\ ContentsOf(q) \in Seq(Data \cup {NULL}) /\ Len(ContentsOf(q)) = c
      /\ ContentsOf(r) \in Seq(Data \cup {NULL}) /\ Len(ContentsOf(r)) = c - 1
  BY <1>3, <1>6, ContentsAre DEF c
<1>10. /\ ContentsOf(r) = Tail(ContentsOf(q)) /\ ContentsOf(q) # <<>>
       /\ Head(ContentsOf(q)) = q.mb[q.head]
  <2> DEFINE C == ContentsOf(q)
             R == ContentsOf(r)
  <2>1. \A i \in 1 .. c - 1 : R[i] = C[i + 1]
    BY <1>7
  <2> HIDE DEF C, R
  <2>2. C # <<>> /\ Head(C) = C[1] /\ Tail(C) \in Seq(Data \cup {NULL}) /\ Len(Tail(C)) = c - 1
    BY <1>1, <1>9 DEF C
  <2>3. \A i \in 1 .. c - 1 : Tail(C)[i] = C[i + 1]
    BY <1>1, <1>9 DEF C
  <2>4. R = Tail(C)
    BY <1>9, <2>1, <2>2, <2>3 DEF C, R
  <2> QED BY <1>8, <2>2, <2>4 DEF C, R
<1>11. q.mb[q.head] \in Data \cup {NULL}
  BY <1>1
<1> QED BY <1>1, <1>3, <1>6, <1>10, <1>11 DEF c

\* Overwriting the oldest of a full ring.
LEMMA DataForced ==
  ASSUME DataQueueAssumption, NEW q, Delimited(q), dtqcnt > 0,
         NEW d \in Data \cup {NULL}, NEW r, r = force_enqueue_data(q, d)
  PROVE  /\ Delimited(r)
         /\ q.count < dtqcnt => ContentsOf(r) = Append(ContentsOf(q), d)
         /\ q.count = dtqcnt => /\ r.count = dtqcnt /\ ContentsOf(q) # <<>>
                                /\ ContentsOf(r) = Append(Tail(ContentsOf(q)), d)
<1> DEFINE c == q.count
<1>1. /\ c \in Nat /\ dtqcnt \in Nat /\ c <= dtqcnt
      /\ q.mb \in [0 .. dtqcnt - 1 -> Data \cup {NULL}] /\ q.head \in Nat /\ q.head < dtqcnt
  BY DEF Delimited, DataQueueAssumption
<1>2. CASE c < dtqcnt
  <2>1. r = enqueue_data(q, d)
    <3>1. ~(q.count >= dtqcnt)
      BY <1>1, <1>2
    <3> QED BY <3>1 DEF force_enqueue_data, enqueue_data, Delimited
  <2>2. Delimited(r) /\ ContentsOf(r) = Append(ContentsOf(q), d)
    BY <1>2, <2>1, DataEnqueued
  <2>3. q.count # dtqcnt
    BY <1>1, <1>2
  <2> QED BY <2>2, <2>3
<1>3. CASE c = dtqcnt
  <2>1. q.tail = q.head
    <3>1. q.tail = Place(q, dtqcnt + 1)
      BY <1>3, Places
    <3> QED BY <3>1, PlacesApart
  <2> DEFINE s == dequeue_data(q)
             e == enqueue_data(s, d)
  <2>2. /\ Delimited(s) /\ s.count = c - 1 /\ s.count < dtqcnt
        /\ ContentsOf(q) # <<>> /\ ContentsOf(s) = Tail(ContentsOf(q))
        /\ s.mb = q.mb /\ s.head = next_index(q.head) /\ s.tail = q.tail
    BY <1>1, <1>3, DataDequeued
  <2>3. /\ Delimited(e) /\ ContentsOf(e) = Append(ContentsOf(s), d)
        /\ e.mb = [s.mb EXCEPT ![s.tail] = d] /\ e.count = s.count + 1
        /\ e.head = s.head /\ e.tail = next_index(s.tail)
    <3> HIDE DEF s
    <3> QED BY <2>2, DataEnqueued
  <2> HIDE DEF s, e
  <2>4. r = e /\ r.count = dtqcnt
    <3>1. q.count >= dtqcnt /\ q.count = dtqcnt
      BY <1>1, <1>3
    <3>2. /\ r.mb = [q.mb EXCEPT ![q.tail] = d] /\ r.count = dtqcnt
          /\ r.head = next_index(q.tail) /\ r.tail = next_index(q.tail)
          /\ r = [mb |-> r.mb, count |-> r.count, head |-> r.head, tail |-> r.tail]
      BY <3>1 DEF force_enqueue_data, Delimited
    <3>3. e = [mb |-> e.mb, count |-> e.count, head |-> e.head, tail |-> e.tail]
      BY <2>3 DEF Delimited
    <3>4. e.count = dtqcnt
      BY <1>1, <1>3, <2>2, <2>3
    <3> QED BY <2>1, <2>2, <2>3, <3>2, <3>3, <3>4
  <2> QED BY <1>1, <1>3, <2>2, <2>3, <2>4
<1> QED BY <1>1, <1>2, <1>3

-----------------------------------------------------------------------------
(* The invariant, and how the state maps to Fifo. *)

Kind        == [w \in Wobj |-> IF w = swait_queue THEN "SDTQ" ELSE "RDTQ"]
WaitSend    == WaitersOf(k, swait_queue)
WaitReceive == WaitersOf(k, rwait_queue)

\* Whoever waits to receive finds neither data nor a sender, and only a full
\* ring makes a task wait to send.
DataQueueOK ==
    /\ ObjectOK(Kind)
    /\ Delimited(dtq)
    /\ winfo_data \in [Task -> Data \cup {NULL}] /\ p_data \in [Task -> Data \cup {NULL}]
    /\ WaitReceive # {} => dtq.count = 0 /\ WaitSend = {}
    /\ WaitSend # {} => dtq.count = dtqcnt

\* What a step has to keep.
DataQueueStep ==
    /\ KernelOK' /\ Kinds(k', Kind)
    /\ Delimited(dtq')
    /\ winfo_data' \in [Task -> Data \cup {NULL}] /\ p_data' \in [Task -> Data \cup {NULL}]
    /\ WaitersOf(k', rwait_queue) # {} => dtq'.count = 0 /\ WaitersOf(k', swait_queue) = {}
    /\ WaitersOf(k', swait_queue) # {} => dtq'.count = dtqcnt

\* What it has to be.
Permitted == [Queue!Next]_(Queue!vars) /\ ServesInTurn

LEMMA DataQueueKept ==
  ASSUME DataQueueStep
  PROVE  DataQueueOK'
<1>1. ObjectOK(Kind)'
  BY DEF DataQueueStep, ObjectOK, Kinds, Kind
<1>2. /\ WaitSend' = WaitersOf(k', swait_queue) /\ WaitReceive' = WaitersOf(k', rwait_queue)
      /\ (Delimited(dtq))' <=> Delimited(dtq')
  BY DEF WaitSend, WaitReceive, WaitersOf, Delimited
<1> QED BY <1>1, <1>2 DEF DataQueueStep, DataQueueOK

LEMMA Basics ==
  ASSUME DataQueueAssumption, DataQueueOK
  PROVE  /\ swait_queue \in Wobj /\ rwait_queue \in Wobj /\ swait_queue # rwait_queue
         /\ Kind[swait_queue] = "SDTQ" /\ Kind[rwait_queue] = "RDTQ"
         /\ k \in KernelData /\ QueuesOK(k) /\ KernelOK /\ Kinds(k, Kind) /\ ObjectOK(Kind)
         /\ dtqcnt \in Nat /\ dtq.count \in Nat /\ dtq.count <= dtqcnt
         /\ Senders = <<>> <=> WaitSend = {}
         /\ Receivers = <<>> <=> WaitReceive = {}
         /\ Senders # <<>> => Head(Senders) \in WaitSend
         /\ Receivers # <<>> => Head(Receivers) \in WaitReceive
         /\ WaitSend \subseteq Task /\ WaitReceive \subseteq Task
<1>1. /\ KernelOK /\ Kinds(k, Kind) /\ ObjectOK(Kind)
      /\ swait_queue \in Wobj /\ rwait_queue \in Wobj /\ swait_queue # rwait_queue
  BY DEF DataQueueAssumption, DataQueueOK, ObjectOK
<1>2. k \in KernelData /\ QueuesOK(k)
  BY <1>1, SoundNow DEF Sound
<1>3. /\ Senders = <<>> <=> WaitSend = {}
      /\ Senders # <<>> => Head(Senders) \in WaitSend
  BY <1>1, <1>2, QueueTasks DEF Senders, WaitSend
<1>4. /\ Receivers = <<>> <=> WaitReceive = {}
      /\ Receivers # <<>> => Head(Receivers) \in WaitReceive
  BY <1>1, <1>2, QueueTasks DEF Receivers, WaitReceive
<1>5. Kind[swait_queue] = "SDTQ" /\ Kind[rwait_queue] = "RDTQ"
  BY <1>1 DEF Kind
<1>6. dtqcnt \in Nat /\ dtq.count \in Nat /\ dtq.count <= dtqcnt
  BY DEF DataQueueAssumption, DataQueueOK, Delimited
<1>7. WaitSend \subseteq Task /\ WaitReceive \subseteq Task
  BY DEF WaitSend, WaitReceive, WaitersOf
<1> QED BY <1>1, <1>2, <1>3, <1>4, <1>5, <1>6, <1>7

\* Who waits to send, as Fifo sees it.
LEMMA WaitingAre ==
  ASSUME DataQueueAssumption, NEW kk, Kinds(kk, Kind)
  PROVE  {t \in Task : "SDTQ" \in kk.tstat[t]} = WaitersOf(kk, swait_queue)
<1>1. /\ swait_queue \in Wobj /\ Kind[swait_queue] = "SDTQ"
      /\ \A v \in Wobj : Kind[v] = Kind[swait_queue] => v = swait_queue
  BY DEF DataQueueAssumption, Kind
<1>2. Kind[swait_queue] \in WaitWobj
  BY <1>1 DEF WaitWobj, WaitWobjcb
<1>3. \A t \in Task : Kind[swait_queue] \in kk.tstat[t] <=> t \in WaitersOf(kk, swait_queue)
  BY <1>1, <1>2, FlagTells
<1>4. WaitersOf(kk, swait_queue) \subseteq Task
  BY DEF WaitersOf
<1> QED BY <1>1, <1>3, <1>4

Offered == [t \in WaitingToSend |-> winfo_data[t]]

LEMMA OfferedAre ==
  ASSUME DataQueueAssumption, DataQueueOK
  PROVE  Offered = [t \in WaitSend |-> winfo_data[t]] /\ DOMAIN Offered = WaitSend
<1>1. WaitingToSend = WaitSend
  BY Basics, WaitingAre DEF WaitingToSend, WaitSend
<1> QED BY <1>1 DEF Offered

LEMMA OfferedPrime ==
  ASSUME DataQueueAssumption, Kinds(k', Kind)
  PROVE  Offered' = [t \in WaitersOf(k', swait_queue) |-> winfo_data'[t]]
<1>1. {t \in Task : "SDTQ" \in k'.tstat[t]} = WaitersOf(k', swait_queue)
  BY WaitingAre
<1>2. Offered' = [t \in {u \in Task : "SDTQ" \in k'.tstat[u]} |-> winfo_data'[t]]
  BY DEF Offered, WaitingToSend
<1> QED BY <1>1, <1>2

\* The data of the waits end with the waits.
LEMMA OffersKept ==
  ASSUME DataQueueAssumption, DataQueueOK, Kinds(k', Kind), NEW kk, kk.tstat = k'.tstat,
         NEW t, NEW d \in Data \cup {NULL}, Offers(kk, t, d)
  PROVE  /\ winfo_data' \in [Task -> Data \cup {NULL}]
         /\ \A u \in WaitersOf(k', swait_queue) :
               winfo_data'[u] = IF u = t THEN d ELSE winfo_data[u]
<1>1. {u \in Task : "SDTQ" \in k'.tstat[u]} = WaitersOf(k', swait_queue)
  BY WaitingAre
<1>2. winfo_data \in [Task -> Data \cup {NULL}]
  BY DEF DataQueueOK
<1> QED BY <1>1, <1>2 DEF Offers

LEMMA OffersLeft ==
  ASSUME DataQueueAssumption, DataQueueOK, Kinds(k', Kind), NEW kk, kk.tstat = k'.tstat,
         Offers(kk, NULL, NULL)
  PROVE  /\ winfo_data' \in [Task -> Data \cup {NULL}]
         /\ \A u \in WaitersOf(k', swait_queue) : winfo_data'[u] = winfo_data[u]
<1>1. WaitersOf(k', swait_queue) \subseteq Task /\ NULL \notin Task
  BY TaskAssumption DEF WaitersOf
<1> QED BY <1>1, OffersKept

\* The task t stops waiting, the others go on to offer the same.
LEMMA OfferedWithout ==
  ASSUME DataQueueAssumption, DataQueueOK, Kinds(k', Kind), NEW t,
         WaitersOf(k', swait_queue) = WaitSend \ {t},
         \A u \in WaitersOf(k', swait_queue) : winfo_data'[u] = winfo_data[u]
  PROVE  Offered' = Queue!Without(t)
<1>1. Queue!Without(t) = [u \in WaitSend \ {t} |-> winfo_data[u]]
  BY OfferedAre DEF Queue!Without, Queue!Waiting, Offered
<1>2. Offered' = [u \in WaitSend \ {t} |-> winfo_data'[u]]
  BY OfferedPrime
<1> QED BY <1>1, <1>2

LEMMA OfferedSame ==
  ASSUME DataQueueAssumption, DataQueueOK, Kinds(k', Kind),
         WaitersOf(k', swait_queue) = WaitSend,
         \A u \in WaitersOf(k', swait_queue) : winfo_data'[u] = winfo_data[u]
  PROVE  Offered' = Offered
BY OfferedAre, OfferedPrime

\* What is stored.
LEMMA StoredAre ==
  ASSUME DataQueueAssumption, DataQueueOK
  PROVE  /\ Contents = ContentsOf(dtq) /\ Contents' = ContentsOf(dtq')
         /\ Contents \in Seq(Data \cup {NULL}) /\ Len(Contents) = dtq.count
         /\ Contents = <<>> <=> dtq.count = 0
<1>1. Contents = ContentsOf(dtq) /\ Contents' = ContentsOf(dtq')
  BY DEF Contents, ContentsOf
<1>2. ContentsOf(dtq) \in Seq(Data \cup {NULL}) /\ Len(ContentsOf(dtq)) = dtq.count
  BY ContentsAre DEF DataQueueOK
<1>3. ContentsOf(dtq) = <<>> <=> dtq.count = 0
  BY <1>2
<1> QED BY <1>1, <1>2, <1>3

-----------------------------------------------------------------------------
(* What a call does with the tasks. *)

\* A call that leaves the tasks alone.
LEMMA DataQuiet ==
  ASSUME DataQueueAssumption, DataQueueOK, ctx # "INIT", Leave(k)
  PROVE  /\ KernelOK' /\ Kinds(k', Kind)
         /\ WaitersOf(k', swait_queue) = WaitSend /\ WaitersOf(k', rwait_queue) = WaitReceive
         /\ Senders' = Senders /\ Receivers' = Receivers
         /\ winfo_data' \in [Task -> Data \cup {NULL}] /\ Offered' = Offered
<1>1. KernelOK' /\ Kinds(k', Kind) /\ SameQueueFields(k', k)
  BY Basics, QuietCall DEF Leave
<1>2. /\ WaitersOf(k', swait_queue) = WaitSend /\ WaitersOf(k', rwait_queue) = WaitReceive
      /\ Senders' = Senders /\ Receivers' = Receivers /\ k.tstat = k'.tstat
  BY <1>1, SameWaiters DEF WaitSend, WaitReceive, SameQueueFields, Senders, Receivers
<1>3. /\ winfo_data' \in [Task -> Data \cup {NULL}]
      /\ \A u \in WaitersOf(k', swait_queue) : winfo_data'[u] = winfo_data[u]
  BY <1>1, <1>2, OffersLeft DEF Leave
<1> QED BY <1>1, <1>2, <1>3, OfferedSame

\* A call that serves the first of the tasks that wait to send.
LEMMA SenderServed ==
  ASSUME DataQueueAssumption, DataQueueOK, ctx # "INIT", Senders # <<>>,
         Leave(FirstServed(swait_queue))
  PROVE  LET t == Head(Senders) IN
         /\ KernelOK' /\ Kinds(k', Kind) /\ t \in WaitSend
         /\ WaitersOf(k', swait_queue) = WaitSend \ {t}
         /\ WaitersOf(k', rwait_queue) = WaitReceive
         /\ Senders' = Tail(Senders) /\ Receivers' = Receivers
         /\ winfo_data' \in [Task -> Data \cup {NULL}] /\ Offered' = Queue!Without(t)
<1> DEFINE t == Head(Senders)
<1>1. /\ KernelOK' /\ Kinds(k', Kind) /\ k'.tstat = FirstServed(swait_queue).tstat
      /\ k'.wobj = k.wobj /\ t \in WaitSend /\ ~TSTAT_WAIT_WOBJ(k'.tstat[t])
      /\ k.wobj[t] = swait_queue
      /\ k'.wait_queue = [k.wait_queue EXCEPT ![swait_queue] = Tail(@)]
      /\ \A u \in Task \ {t} : k'.tstat[u] = k.tstat[u]
  BY Basics, ServeCall DEF Leave, Senders, WaitSend, WaitersOf
<1> HIDE DEF t
<1>2. /\ WaitersOf(k', swait_queue) = WaitSend \ {t}
      /\ WaitersOf(k', rwait_queue) = WaitReceive
  BY <1>1, Basics DEF WaitersOf, WaitSend, WaitReceive
<1>3. Senders' = Tail(Senders) /\ Receivers' = Receivers
  BY <1>1, Basics DEF Senders, Receivers, KernelData
<1>4. /\ winfo_data' \in [Task -> Data \cup {NULL}]
      /\ \A u \in WaitersOf(k', swait_queue) : winfo_data'[u] = winfo_data[u]
  BY <1>1, OffersLeft DEF Leave
<1>5. Offered' = Queue!Without(t)
  BY <1>1, <1>2, <1>4, OfferedWithout
<1> QED BY <1>1, <1>2, <1>3, <1>4, <1>5 DEF t

\* A call that serves the first of the tasks that wait to receive.
LEMMA ReceiverServed ==
  ASSUME DataQueueAssumption, DataQueueOK, ctx # "INIT", Receivers # <<>>,
         Leave(FirstServed(rwait_queue))
  PROVE  LET t == Head(Receivers) IN
         /\ KernelOK' /\ Kinds(k', Kind) /\ t \in WaitReceive
         /\ WaitersOf(k', swait_queue) = WaitSend
         /\ WaitersOf(k', rwait_queue) = WaitReceive \ {t}
         /\ Senders' = Senders /\ Receivers' = Tail(Receivers)
         /\ winfo_data' \in [Task -> Data \cup {NULL}] /\ Offered' = Offered
<1> DEFINE t == Head(Receivers)
<1>1. /\ KernelOK' /\ Kinds(k', Kind) /\ k'.tstat = FirstServed(rwait_queue).tstat
      /\ k'.wobj = k.wobj /\ t \in WaitReceive /\ ~TSTAT_WAIT_WOBJ(k'.tstat[t])
      /\ k.wobj[t] = rwait_queue
      /\ k'.wait_queue = [k.wait_queue EXCEPT ![rwait_queue] = Tail(@)]
      /\ \A u \in Task \ {t} : k'.tstat[u] = k.tstat[u]
  BY Basics, ServeCall DEF Leave, Receivers, WaitReceive, WaitersOf
<1> HIDE DEF t
<1>2. /\ WaitersOf(k', rwait_queue) = WaitReceive \ {t}
      /\ WaitersOf(k', swait_queue) = WaitSend
  BY <1>1, Basics DEF WaitersOf, WaitSend, WaitReceive
<1>3. Receivers' = Tail(Receivers) /\ Senders' = Senders
  BY <1>1, Basics DEF Senders, Receivers, KernelData
<1>4. /\ winfo_data' \in [Task -> Data \cup {NULL}]
      /\ \A u \in WaitersOf(k', swait_queue) : winfo_data'[u] = winfo_data[u]
  BY <1>1, OffersLeft DEF Leave
<1>5. Offered' = Offered
  BY <1>1, <1>2, <1>4, OfferedSame
<1> QED BY <1>1, <1>2, <1>3, <1>4, <1>5 DEF t

-----------------------------------------------------------------------------
(* The calls. *)

\* Past the ring, to a task that waits to receive.
LEMMA HandCall ==
  ASSUME DataQueueAssumption, DataQueueOK, ctx # "INIT", NEW d \in Data, HandOver(d)
  PROVE  DataQueueStep /\ Permitted
<1> DEFINE t == Head(Receivers)
<1>1. /\ Receivers # <<>> /\ p_data' = [p_data EXCEPT ![t] = d] /\ dtq' = dtq
      /\ Leave(FirstServed(rwait_queue))
  BY DEF HandOver
<1>2. /\ KernelOK' /\ Kinds(k', Kind) /\ t \in WaitReceive
      /\ WaitersOf(k', swait_queue) = WaitSend
      /\ WaitersOf(k', rwait_queue) = WaitReceive \ {t}
      /\ Senders' = Senders /\ Receivers' = Tail(Receivers)
      /\ winfo_data' \in [Task -> Data \cup {NULL}] /\ Offered' = Offered
  BY <1>1, ReceiverServed
<1> HIDE DEF t
<1>3. dtq.count = 0 /\ WaitSend = {}
  BY <1>2 DEF DataQueueOK
<1>4. p_data' \in [Task -> Data \cup {NULL}]
  BY <1>1 DEF DataQueueOK
<1>5. DataQueueStep
  BY <1>1, <1>2, <1>3, <1>4 DEF DataQueueStep, DataQueueOK
<1>6. Contents = <<>> /\ Contents' = Contents
  BY <1>1, <1>3, StoredAre
<1>7. Queue!Hand(t, d)
  BY <1>1, <1>2, <1>3, <1>6, OfferedAre
     DEF Queue!Hand, Queue!Receives, Queue!Waiting, Offered
<1>8. t \in Task
  BY <1>2, Basics
<1>9. ServesInTurn
  BY <1>1, <1>2 DEF ServesInTurn
<1> QED BY <1>5, <1>7, <1>8, <1>9 DEF Permitted, Queue!Next

\* Into the ring.
LEMMA PutCall ==
  ASSUME DataQueueAssumption, DataQueueOK, ctx # "INIT", NEW d \in Data,
         Receivers = <<>>, dtq.count < dtqcnt, dtq' = enqueue_data(dtq, d),
         Leave(k), p_data' = p_data
  PROVE  DataQueueStep /\ Permitted
<1>1. /\ KernelOK' /\ Kinds(k', Kind)
      /\ WaitersOf(k', swait_queue) = WaitSend /\ WaitersOf(k', rwait_queue) = WaitReceive
      /\ winfo_data' \in [Task -> Data \cup {NULL}] /\ Offered' = Offered
  BY DataQuiet
<1>2. WaitReceive = {} /\ WaitSend = {}
  BY Basics DEF DataQueueOK
<1>3. /\ Delimited(dtq') /\ ContentsOf(dtq') = Append(ContentsOf(dtq), d)
  BY DataEnqueued DEF DataQueueOK
<1>4. DataQueueStep
  BY <1>1, <1>2, <1>3 DEF DataQueueStep, DataQueueOK
<1>5. Contents' = Append(Contents, d) /\ Len(Contents) # dtqcnt
  BY <1>3, StoredAre, Basics
<1>6. Queue!Put(d)
  BY <1>1, <1>5 DEF Queue!Put, Queue!Full, Offered
<1> QED BY <1>4, <1>6 DEF Permitted, Queue!Next, ServesInTurn

\* Into the ring, over the oldest if it is full.
LEMMA ForceCall ==
  ASSUME DataQueueAssumption, DataQueueOK, ctx # "INIT", NEW d \in Data, dtqcnt > 0,
         force_send_data(d)
  PROVE  DataQueueStep /\ Permitted
<1>1. CASE HandOver(d)
  BY <1>1, HandCall
<1>2. CASE /\ Receivers = <<>> /\ dtq' = force_enqueue_data(dtq, d)
           /\ Leave(k) /\ p_data' = p_data
  <2>1. CASE dtq.count < dtqcnt
    <3>1. ~(dtq.count >= dtqcnt)
      BY <2>1, Basics
    <3>2. dtq' = enqueue_data(dtq, d)
      BY <1>2, <3>1 DEF force_enqueue_data, enqueue_data, DataQueueOK, Delimited
    <3> QED BY <1>2, <2>1, <3>2, PutCall
  <2>2. CASE dtq.count = dtqcnt
    <3>1. /\ KernelOK' /\ Kinds(k', Kind)
          /\ WaitersOf(k', swait_queue) = WaitSend /\ WaitersOf(k', rwait_queue) = WaitReceive
          /\ winfo_data' \in [Task -> Data \cup {NULL}] /\ Offered' = Offered
      BY <1>2, DataQuiet
    <3>2. WaitReceive = {}
      BY <1>2, Basics
    <3>3. /\ Delimited(dtq') /\ dtq'.count = dtqcnt /\ ContentsOf(dtq) # <<>>
          /\ ContentsOf(dtq') = Append(Tail(ContentsOf(dtq)), d)
      BY <1>2, <2>2, DataForced DEF DataQueueOK
    <3>4. DataQueueStep
      BY <1>2, <3>1, <3>2, <3>3 DEF DataQueueStep, DataQueueOK
    <3>5. /\ Contents' = Append(Tail(Contents), d) /\ Contents # <<>>
          /\ Len(Contents) = dtqcnt
      BY <2>2, <3>3, StoredAre
    <3>6. Queue!Force(d)
      BY <1>2, <3>1, <3>5 DEF Queue!Force, Queue!Full, Offered
    <3> QED BY <1>2, <3>4, <3>6 DEF Permitted, Queue!Next, ServesInTurn
  <2> QED BY <2>1, <2>2, Basics
<1> QED BY <1>1, <1>2 DEF force_send_data

\* What is received comes from the ring, or from a task that waits to send.
LEMMA ReceiveCall ==
  ASSUME DataQueueAssumption, DataQueueOK, TSKCTX, receive_data
  PROVE  DataQueueStep /\ Permitted
<1>1. PICK t \in Task : t = Self
  BY Basics, Caller DEF KernelOK, Self
<1>2. ctx # "INIT"
  BY DEF TSKCTX
<1>3. ASSUME dtq.count > 0
      PROVE  /\ Contents # <<>> /\ Head(Contents) = dtq.mb[dtq.head] /\ WaitReceive = {}
             /\ dtq.mb[dtq.head] \in Data \cup {NULL}
  BY <1>3, DataDequeued, StoredAre DEF DataQueueOK
<1>4. CASE /\ dtq.count > 0 /\ p_data' = [p_data EXCEPT ![Self] = dtq.mb[dtq.head]]
           /\ Senders = <<>> /\ dtq' = dequeue_data(dtq) /\ Leave(k)
  <2>1. /\ KernelOK' /\ Kinds(k', Kind) /\ Senders' = Senders /\ Receivers' = Receivers
        /\ WaitersOf(k', swait_queue) = WaitSend /\ WaitersOf(k', rwait_queue) = WaitReceive
        /\ winfo_data' \in [Task -> Data \cup {NULL}] /\ Offered' = Offered
    BY <1>2, <1>4, DataQuiet
  <2>2. WaitSend = {} /\ p_data' \in [Task -> Data \cup {NULL}]
    BY <1>3, <1>4, Basics DEF DataQueueOK
  <2>3. Delimited(dtq') /\ Contents' = Tail(Contents)
    BY <1>4, DataDequeued, StoredAre DEF DataQueueOK
  <2>4. DataQueueStep
    BY <1>3, <1>4, <2>1, <2>2, <2>3 DEF DataQueueStep
  <2>5. Queue!Take(t)
    BY <1>1, <1>3, <1>4, <2>1, <2>2, <2>3, OfferedAre
       DEF Queue!Take, Queue!Receives, Queue!Waiting, Offered
  <2> QED BY <2>1, <2>4, <2>5 DEF Permitted, Queue!Next, ServesInTurn
<1> DEFINE u == Head(Senders)
<1>5. CASE /\ dtq.count > 0 /\ p_data' = [p_data EXCEPT ![Self] = dtq.mb[dtq.head]]
           /\ Senders # <<>> /\ Leave(FirstServed(swait_queue))
           /\ dtq' = enqueue_data(dequeue_data(dtq), winfo_data[u])
  <2>1. /\ KernelOK' /\ Kinds(k', Kind) /\ u \in WaitSend
        /\ WaitersOf(k', swait_queue) = WaitSend \ {u}
        /\ WaitersOf(k', rwait_queue) = WaitReceive
        /\ Senders' = Tail(Senders) /\ Receivers' = Receivers
        /\ winfo_data' \in [Task -> Data \cup {NULL}] /\ Offered' = Queue!Without(u)
    BY <1>2, <1>5, SenderServed
  <2> HIDE DEF u
  <2>2. /\ p_data' \in [Task -> Data \cup {NULL}] /\ winfo_data[u] \in Data \cup {NULL}
        /\ dtq.count = dtqcnt /\ Offered[u] = winfo_data[u] /\ u \in DOMAIN Offered
    BY <1>3, <1>5, <2>1, OfferedAre, Basics DEF DataQueueOK
  <2> DEFINE s == dequeue_data(dtq)
  <2>3. /\ Delimited(s) /\ s.count = dtq.count - 1 /\ s.count < dtqcnt
        /\ ContentsOf(s) = Tail(ContentsOf(dtq))
    BY <1>5, DataDequeued DEF DataQueueOK
  <2>4. PICK x \in Data \cup {NULL} : x = winfo_data[u] /\ dtq' = enqueue_data(s, x)
    BY <1>5, <2>2
  <2> HIDE DEF s
  <2>5. /\ Delimited(dtq') /\ dtq'.count = s.count + 1
        /\ ContentsOf(dtq') = Append(ContentsOf(s), winfo_data[u])
    <3>1. dtq' = enqueue_data(s, x)
      BY <2>4
    <3>2. /\ Delimited(dtq') /\ dtq'.count = s.count + 1
          /\ ContentsOf(dtq') = Append(ContentsOf(s), x)
      BY <2>3, <3>1, DataEnqueued
    <3> QED BY <2>4, <3>2
  <2>6. dtq'.count = dtqcnt /\ Contents' = Append(Tail(Contents), Offered[u])
    BY <2>2, <2>3, <2>5, StoredAre, Basics
  <2>7. DataQueueStep
    BY <1>3, <1>5, <2>1, <2>2, <2>5, <2>6 DEF DataQueueStep
  <2>8. Queue!Take(t)
    BY <1>1, <1>3, <1>5, <2>1, <2>2, <2>6
       DEF Queue!Take, Queue!Receives, Queue!Waiting, Offered
  <2> QED BY <1>5, <2>1, <2>7, <2>8 DEF Permitted, Queue!Next, ServesInTurn
<1>6. CASE /\ dtq.count = 0 /\ Senders # <<>> /\ Leave(FirstServed(swait_queue))
           /\ p_data' = [p_data EXCEPT ![Self] = winfo_data[u]] /\ dtq' = dtq
  <2>1. /\ KernelOK' /\ Kinds(k', Kind) /\ u \in WaitSend
        /\ WaitersOf(k', swait_queue) = WaitSend \ {u}
        /\ WaitersOf(k', rwait_queue) = WaitReceive
        /\ Senders' = Tail(Senders) /\ Receivers' = Receivers
        /\ winfo_data' \in [Task -> Data \cup {NULL}] /\ Offered' = Queue!Without(u)
    BY <1>2, <1>6, SenderServed
  <2> HIDE DEF u
  <2>2. /\ p_data' \in [Task -> Data \cup {NULL}] /\ WaitReceive = {}
        /\ dtq.count = dtqcnt /\ Offered[u] = winfo_data[u] /\ u \in DOMAIN Offered
    BY <1>6, <2>1, OfferedAre, Basics DEF DataQueueOK
  <2>3. DataQueueStep
    BY <1>6, <2>1, <2>2 DEF DataQueueStep, DataQueueOK
  <2>4. Contents = <<>> /\ Contents' = Contents
    BY <1>6, StoredAre
  <2>5. PICK v \in DOMAIN Offered : v = u
    BY <2>2
  <2>6. Queue!Meet(t, v)
    BY <1>1, <1>6, <2>1, <2>2, <2>4, <2>5 DEF Queue!Meet, Queue!Receives, Offered
  <2>7. Queue!Next
    BY <2>6 DEF Queue!Next, Queue!Waiting, Offered
  <2> QED BY <1>6, <2>1, <2>3, <2>7 DEF Permitted, ServesInTurn
<1>7. \/ /\ dtq.count > 0 /\ p_data' = [p_data EXCEPT ![Self] = dtq.mb[dtq.head]]
         /\ Senders = <<>> /\ dtq' = dequeue_data(dtq) /\ Leave(k)
      \/ /\ dtq.count > 0 /\ p_data' = [p_data EXCEPT ![Self] = dtq.mb[dtq.head]]
         /\ Senders # <<>> /\ Leave(FirstServed(swait_queue))
         /\ dtq' = enqueue_data(dequeue_data(dtq), winfo_data[u])
      \/ /\ dtq.count = 0 /\ Senders # <<>> /\ Leave(FirstServed(swait_queue))
         /\ p_data' = [p_data EXCEPT ![Self] = winfo_data[u]] /\ dtq' = dtq
  BY Zenon DEF receive_data
<1> QED BY <1>4, <1>5, <1>6, <1>7

\* The caller waits for room for what it sends.
LEMMA WaitToSendCall ==
  ASSUME DataQueueAssumption, DataQueueOK, NEW call, MayWait(call),
         NEW d \in Data, NEW b \in BOOLEAN, WaitToSend(d, b)
  PROVE  DataQueueStep /\ Permitted
<1> DEFINE ts == {"SDTQ"}
           k1 == wobj_make_wait_tmout(k, swait_queue, ts, b)
<1>1. "SDTQ" \in WaitWobj \ {"MTX"} /\ "SDTQ" \in WaitWobjcb
  BY DEF WaitWobj, WaitWobjcb
<1>2. BeginsToWait(k1, swait_queue, ts, b)
  BY <1>1, Basics DEF BeginsToWait
<1>3. /\ ReturnDispatching(k1) /\ ~CanSend /\ Offers(k1, Self, d)
      /\ dtq' = dtq /\ p_data' = p_data
  BY DEF WaitToSend
<1>4. ts = {Kind[swait_queue]}
  BY Basics
<1> HIDE DEF k1, ts
<1>5. /\ KernelOK' /\ Kinds(k', Kind) /\ WaitsSince(k', swait_queue, ts)
      /\ Self \notin WaitSend /\ WaitersOf(k', swait_queue) = WaitSend \cup {Self}
      /\ WaitersOf(k', rwait_queue) = WaitReceive /\ k'.tstat = k1.tstat
  BY <1>2, <1>3, <1>4, Basics, WaitCall DEF WaitSend, WaitReceive
<1>6. PICK t \in Task : t = Self
  BY <1>5 DEF WaitsSince
<1>7. dtq.count = dtqcnt /\ WaitReceive = {}
  BY <1>3, Basics DEF CanSend
<1>8. /\ winfo_data' \in [Task -> Data \cup {NULL}]
      /\ \A u \in WaitersOf(k', swait_queue) :
            winfo_data'[u] = IF u = t THEN d ELSE winfo_data[u]
  BY <1>3, <1>5, <1>6, OffersKept
<1>9. Offered' = [u \in WaitSend \cup {t} |-> IF u = t THEN d ELSE Offered[u]]
  <2>1. \A u \in WaitSend \cup {t} : winfo_data'[u] = IF u = t THEN d ELSE Offered[u]
    BY <1>5, <1>6, <1>8, OfferedAre
  <2> QED BY <1>5, <1>6, <2>1, OfferedPrime
<1>10. DataQueueStep
  BY <1>3, <1>5, <1>7, <1>8 DEF DataQueueStep, DataQueueOK
<1>11. Contents' = Contents /\ Len(Contents) = dtqcnt
  BY <1>3, <1>7, StoredAre
<1>12. Queue!Offer(t, d)
  BY <1>3, <1>5, <1>6, <1>9, <1>11, OfferedAre
     DEF Queue!Offer, Queue!Full, Queue!Waiting, Offered
<1> QED BY <1>3, <1>6, <1>10, <1>12 DEF Permitted, Queue!Next, ServesInTurn

\* The caller waits for data.
LEMMA WaitToReceiveCall ==
  ASSUME DataQueueAssumption, DataQueueOK, NEW call, MayWait(call),
         NEW b \in BOOLEAN, WaitToReceive(b)
  PROVE  DataQueueStep /\ Permitted
<1> DEFINE ts == {"RDTQ"}
           k1 == wobj_make_wait_tmout(k, rwait_queue, ts, b)
<1>1. "RDTQ" \in WaitWobj \ {"MTX"} /\ rwait_queue \notin TA_TPRI
  BY DEF WaitWobj, WaitWobjcb, DataQueueAssumption
<1>2. BeginsToWait(k1, rwait_queue, ts, b)
  BY <1>1, Basics DEF BeginsToWait
<1>3. /\ ReturnDispatching(k1) /\ ~CanReceive /\ Offers(k1, NULL, NULL)
      /\ dtq' = dtq /\ p_data' = p_data
  BY DEF WaitToReceive, Leave
<1>4. ts = {Kind[rwait_queue]}
  BY Basics
<1> HIDE DEF k1, ts
<1>5. /\ KernelOK' /\ Kinds(k', Kind)
      /\ WaitersOf(k', swait_queue) = WaitSend /\ k'.tstat = k1.tstat
  BY <1>2, <1>3, <1>4, Basics, WaitCall DEF WaitSend, WaitReceive
<1>6. dtq.count = 0 /\ WaitSend = {}
  BY <1>3, Basics DEF CanReceive
<1>7. /\ winfo_data' \in [Task -> Data \cup {NULL}]
      /\ \A u \in WaitersOf(k', swait_queue) : winfo_data'[u] = winfo_data[u]
  BY <1>3, <1>5, OffersLeft
<1>8. Offered' = Offered
  BY <1>5, <1>7, OfferedSame
<1>9. DataQueueStep
  BY <1>3, <1>5, <1>6, <1>7 DEF DataQueueStep, DataQueueOK
<1>10. Contents' = Contents
  BY <1>3, StoredAre
<1> QED BY <1>3, <1>8, <1>9, <1>10 DEF Permitted, Queue!vars, ServesInTurn, Offered

\* All waiting tasks are released.
LEMMA ResetQueue ==
  ASSUME DataQueueAssumption, DataQueueOK, ini_dtq
  PROVE  DataQueueStep /\ Permitted
<1> DEFINE k1 == init_wait_queue(k, swait_queue)
           k2 == init_wait_queue(k1, rwait_queue)
<1>1. /\ ctx = "TASK" /\ ReturnDispatching(k2) /\ Offers(k2, NULL, NULL)
      /\ dtq' = [dtq EXCEPT !.count = 0, !.head = 0, !.tail = 0] /\ p_data' = p_data
  BY DEF ini_dtq, Leave, CHECK_TSKCTX_UNL, TSKCTX
<1>2. Sound(k) /\ IInv /\ k.wait_queue \in [Wobj -> Seq(Task)]
  BY Basics, SoundNow DEF KernelOK, KernelData
<1>3. /\ Sound(k1) /\ SameRun(k1, k) /\ k1.wobj = k.wobj
      /\ k1.wait_queue = [k.wait_queue EXCEPT ![swait_queue] = <<>>]
      /\ \A u \in Task : k1.tstat[u] = k.tstat[u] \/ ~TSTAT_WAITING(k1.tstat[u])
  BY <1>2, Basics, AllReleased
<1> HIDE DEF k1
<1>4. /\ Sound(k2) /\ SameRun(k2, k1) /\ k2.wobj = k1.wobj
      /\ k2.wait_queue = [k1.wait_queue EXCEPT ![rwait_queue] = <<>>]
      /\ \A u \in Task : k2.tstat[u] = k1.tstat[u] \/ ~TSTAT_WAITING(k2.tstat[u])
  <2>1. rwait_queue \in Wobj
    BY Basics
  <2>2. PICK kk : kk = k1
    OBVIOUS
  <2> DEFINE k3 == init_wait_queue(kk, rwait_queue)
  <2>3. /\ Sound(k3) /\ SameRun(k3, kk) /\ k3.wobj = kk.wobj
        /\ k3.wait_queue = [kk.wait_queue EXCEPT ![rwait_queue] = <<>>]
        /\ \A u \in Task :
              IF TSTAT_WAIT_WOBJ(kk.tstat[u]) /\ kk.wobj[u] = rwait_queue
              THEN ~TSTAT_WAITING(k3.tstat[u]) ELSE k3.tstat[u] = kk.tstat[u]
    <3>1. Sound(kk)
      BY <1>3, <2>2
    <3> HIDE <2>2
    <3> QED BY <2>1, <3>1, AllReleased
  <2>4. k3 = k2
    BY <2>2
  <2> HIDE DEF k2, k3
  <2> QED BY <2>2, <2>3, <2>4
<1> HIDE DEF k2
<1>5. SameRun(k2, k)
  BY <1>3, <1>4 DEF SameRun
<1>6. IInv' /\ QueuesOK(k') /\ k' \in KernelData /\ SameQueueFields(k', k2)
  BY <1>1, <1>2, <1>4, <1>5, EndSound
<1>7. KernelOK'
  BY <1>6, KernelOKPrime
<1>8. Kinds(k', Kind)
  <2>1. \A u \in Task : k'.tstat[u] = k.tstat[u] \/ ~TSTAT_WAIT_WOBJ(k'.tstat[u])
    BY <1>3, <1>4, <1>6 DEF SameQueueFields, TSTAT_WAITING, TSTAT_WAIT_WOBJ, WaitFactor
  <2> QED BY <1>3, <1>4, <1>6, <2>1, Basics, KindsReleased DEF SameQueueFields
<1>9. k'.wait_queue[swait_queue] = <<>> /\ k'.wait_queue[rwait_queue] = <<>>
  BY <1>2, <1>3, <1>4, <1>6, Basics DEF SameQueueFields
<1>10. WaitersOf(k', swait_queue) = {} /\ WaitersOf(k', rwait_queue) = {}
  BY <1>6, <1>9, Basics, QueueTasks
<1>11. k2.tstat = k'.tstat
  BY <1>6 DEF SameQueueFields
<1>12. winfo_data' \in [Task -> Data \cup {NULL}]
  BY <1>1, <1>8, <1>11, OffersLeft
<1>13. Offered' = <<>>
  BY <1>8, <1>10, OfferedPrime
<1>14. Delimited(dtq') /\ dtq'.count = 0
  <2>1. dtq \in [mb : [0 .. dtqcnt - 1 -> Data \cup {NULL}], count : Nat,
                 head : Nat, tail : Nat] /\ dtqcnt \in Nat
    BY DEF DataQueueOK, Delimited, DataQueueAssumption
  <2>2. /\ dtq'.count = 0 /\ dtq'.head = 0 /\ dtq'.tail = 0
        /\ dtq' \in [mb : [0 .. dtqcnt - 1 -> Data \cup {NULL}], count : Nat,
                     head : Nat, tail : Nat]
    BY <1>1, <2>1
  <2>3. dtqcnt > 0 => 0 % dtqcnt = 0
    BY <2>1, Wraps
  <2> QED BY <2>1, <2>2, <2>3 DEF Delimited
<1>15. DataQueueStep
  BY <1>1, <1>7, <1>8, <1>10, <1>12, <1>14 DEF DataQueueStep, DataQueueOK
<1>16. Contents' = <<>>
  <2>1. ContentsOf(dtq') \in Seq(Data \cup {NULL}) /\ Len(ContentsOf(dtq')) = 0
    BY <1>14, ContentsAre
  <2> QED BY <2>1, StoredAre
<1>17. Queue!Clear
  BY <1>1, <1>13, <1>16 DEF Queue!Clear, Offered
<1> QED BY <1>1, <1>15, <1>17 DEF Permitted, Queue!Next, ServesInTurn

\* A call of TaskSystem, or a step of something else.
LEMMA Elsewhere ==
  ASSUME DataQueueAssumption, DataQueueOK, [KNext]_kvars, dtq' = dtq, p_data' = p_data,
         winfo_data' \in [Task -> Data \cup {NULL}],
         \A t \in WaitersOf(k', swait_queue) : winfo_data'[t] = winfo_data[t]
  PROVE  DataQueueStep /\ Permitted
<1>1. KernelOK' /\ Kinds(k', Kind) /\ Keeps(k', k)
  BY Basics, KernelStep
<1>2. \/ WaitersOf(k', swait_queue) = WaitSend
      \/ \E t \in WaitSend : WaitersOf(k', swait_queue) = WaitSend \ {t}
  BY <1>1, WaitersLeave DEF WaitSend
<1>3. WaitersOf(k', rwait_queue) \subseteq WaitReceive
  BY <1>1, WaitersLeave DEF WaitReceive
<1>4. DataQueueStep
  BY <1>1, <1>2, <1>3 DEF DataQueueStep, DataQueueOK
<1>5. Contents' = Contents
  BY StoredAre
<1>6. CASE WaitersOf(k', swait_queue) = WaitSend
  <2>1. Offered' = Offered
    BY <1>1, <1>6, OfferedSame
  <2> QED BY <1>4, <1>5, <2>1 DEF Permitted, Queue!vars, ServesInTurn, Offered
<1>7. CASE \E t \in WaitSend : WaitersOf(k', swait_queue) = WaitSend \ {t}
  <2>1. PICK t \in WaitSend : WaitersOf(k', swait_queue) = WaitSend \ {t}
    BY <1>7
  <2>2. Offered' = Queue!Without(t) /\ t \in DOMAIN Offered
    BY <1>1, <2>1, OfferedWithout, OfferedAre
  <2>3. Queue!Withdraw(t) /\ t \in Queue!Waiting
    BY <1>5, <2>2 DEF Queue!Withdraw, Queue!Waiting, Offered
  <2> QED BY <1>4, <2>3 DEF Permitted, Queue!Next, ServesInTurn
<1> QED BY <1>2, <1>6, <1>7

\* Every step keeps the invariant and is a step of Fifo.
LEMMA DataQueueNext ==
  ASSUME DataQueueAssumption, DataQueueOK, [Next]_vars
  PROVE  DataQueueOK' /\ Permitted
<1>1. CASE TaskStep
  <2>1. [KNext]_kvars /\ dtq' = dtq /\ p_data' = p_data /\ Offers(k', NULL, NULL)
    BY <1>1 DEF TaskStep
  <2>2. Kinds(k', Kind)
    BY <2>1, Basics, KernelStep
  <2>3. /\ winfo_data' \in [Task -> Data \cup {NULL}]
        /\ \A t \in WaitersOf(k', swait_queue) : winfo_data'[t] = winfo_data[t]
    BY <2>1, <2>2, OffersLeft
  <2> QED BY <2>1, <2>3, Elsewhere, DataQueueKept
<1>2. CASE UNCHANGED vars
  <2>1. winfo_data' \in [Task -> Data \cup {NULL}] /\ winfo_data' = winfo_data
    BY <1>2 DEF vars, DataQueueOK
  <2> QED BY <1>2, <2>1, Elsewhere, DataQueueKept DEF vars
<1>3. ASSUME NEW d \in Data, ctx # "INIT", send_data(d)
      PROVE  DataQueueStep /\ Permitted
  BY <1>3, HandCall, PutCall DEF send_data
<1>4. ASSUME NEW call, MayWait(call)
      PROVE  ctx # "INIT" /\ TSKCTX
  BY <1>4 DEF MayWait, CHECK_DISPATCH, CHECK_TSKCTX_UNL, TSKCTX
<1>5. ASSUME NEW call, MayWait(call), NEW d \in Data, NEW b \in BOOLEAN,
             send_data(d) \/ WaitToSend(d, b)
      PROVE  DataQueueStep /\ Permitted
  BY <1>3, <1>4, <1>5, WaitToSendCall
<1>6. ASSUME NEW call, MayWait(call), NEW b \in BOOLEAN, receive_data \/ WaitToReceive(b)
      PROVE  DataQueueStep /\ Permitted
  BY <1>4, <1>6, ReceiveCall, WaitToReceiveCall
<1>7. TRUE \in BOOLEAN /\ FALSE \in BOOLEAN
  OBVIOUS
<1>8. CASE \E d \in Data : snd_dtq(d) \/ psnd_dtq(d) \/ tsnd_dtq(d) \/ fsnd_dtq(d)
  <2>1. PICK d \in Data : snd_dtq(d) \/ psnd_dtq(d) \/ tsnd_dtq(d) \/ fsnd_dtq(d)
    BY <1>8
  <2>2. CASE snd_dtq(d) \/ tsnd_dtq(d)
    BY <1>5, <1>7, <2>2, DataQueueKept DEF snd_dtq, tsnd_dtq
  <2>3. CASE psnd_dtq(d)
    BY <1>3, <2>3, DataQueueKept DEF psnd_dtq, CHECK_UNL, TSKCTX
  <2>4. CASE fsnd_dtq(d)
    BY <2>4, ForceCall, DataQueueKept DEF fsnd_dtq, CHECK_UNL, TSKCTX
  <2> QED BY <2>1, <2>2, <2>3, <2>4
<1>9. CASE rcv_dtq \/ trcv_dtq
  BY <1>6, <1>7, <1>9, DataQueueKept DEF rcv_dtq, trcv_dtq
<1>10. CASE prcv_dtq
  BY <1>10, ReceiveCall, DataQueueKept DEF prcv_dtq, CHECK_TSKCTX_UNL
<1>11. CASE ini_dtq
  BY <1>11, ResetQueue, DataQueueKept
<1> QED BY <1>1, <1>2, <1>8, <1>9, <1>10, <1>11 DEF Next

LEMMA DataQueueInit ==
  ASSUME DataQueueAssumption, Init
  PROVE  DataQueueOK /\ Queue!Init
<1>1. ObjectOK(Kind) /\ WaitSend = {} /\ WaitReceive = {} /\ Kinds(k, Kind)
  BY InitObject DEF Init, WaitSend, WaitReceive, ObjectOK
<1>2. Delimited(dtq) /\ dtq.count = 0
  <2>1. /\ dtq = [mb |-> [i \in 0 .. dtqcnt - 1 |-> NULL], count |-> 0, head |-> 0, tail |-> 0]
        /\ dtqcnt \in Nat
    BY DEF Init, DataQueueAssumption
  <2>2. dtqcnt > 0 => 0 % dtqcnt = 0
    BY <2>1, Wraps
  <2> QED BY <2>1, <2>2 DEF Delimited
<1>3. DataQueueOK
  BY <1>1, <1>2 DEF Init, DataQueueOK
<1>4. Contents = <<>> /\ Offered = <<>>
  BY <1>1, <1>2, <1>3, StoredAre, OfferedAre
<1> QED BY <1>3, <1>4 DEF Init, Queue!Init, Offered

-----------------------------------------------------------------------------
(* Theorems. *)

\* Head, tail and count of the ring stay together, no task waits for data that
\* is there or to send to a ring with room, and who was served is in the ready
\* queue (dataqueue.c).
THEOREM DataNotIdle ==
  ASSUME DataQueueAssumption
  PROVE  Spec => []DataOK
<1>1. DataQueueOK => DataOK
  <2> SUFFICES ASSUME DataQueueOK PROVE DataOK
    OBVIOUS
  <2>1. RingOK
    BY DEF DataQueueOK, Delimited, RingOK, QueueTypeOK
  <2>2. SchedulingOK
    BY Basics, KernelScheduling
  <2>3. /\ wait_tskid(swait_queue) # NULL => WaitSend # {}
        /\ wait_tskid(rwait_queue) # NULL => WaitReceive # {}
    BY Basics DEF wait_tskid, Senders, Receivers
  <2>4. /\ ref_dtq.stskid = wait_tskid(swait_queue) /\ ref_dtq.sdtqcnt = dtq.count
        /\ ref_dtq.rtskid = wait_tskid(rwait_queue)
    BY DEF ref_dtq
  <2>5. WaitSend = {} => wait_tskid(swait_queue) = NULL
    BY Basics DEF wait_tskid, Senders
  <2>6. NoIdleData
    BY <2>3, <2>4, <2>5 DEF NoIdleData, DataQueueOK
  <2> QED BY <2>1, <2>2, <2>6 DEF DataOK
<1> QED BY <1>1, DataQueueInit, DataQueueNext, PTL DEF Spec

\* Of the tasks that wait, the first in its queue is served, one at a time
\* (send_data, receive_data).
THEOREM TasksServedInTurn ==
  ASSUME DataQueueAssumption
  PROVE  Spec => ServedInTurn
<1>1. ASSUME DataQueueOK, [Next]_vars PROVE [ServesInTurn]_vars
  BY <1>1, DataQueueNext DEF Permitted
<1> QED BY <1>1, DataQueueInit, DataQueueNext, PTL DEF Spec, ServedInTurn

\* The ring and the two queues of tasks are a bounded FIFO: nothing is lost,
\* sent twice or reordered, and a task whose wait ends without an answer has
\* sent nothing (dataqueue.c).
THEOREM FifoImplemented ==
  ASSUME DataQueueAssumption
  PROVE  Spec => ImplementsFifo
<1>1. ASSUME DataQueueOK, [Next]_vars PROVE [Queue!Next]_(Queue!vars)
  BY <1>1, DataQueueNext DEF Permitted
<1> QED BY <1>1, DataQueueInit, DataQueueNext, PTL DEF Spec, ImplementsFifo, Queue!Spec
=============================================================================
