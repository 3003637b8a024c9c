-------------------------- MODULE SerialPortProofs --------------------------
(***************************************************************************)
(* A port of the serial driver keeps PortOK for any number of tasks, any   *)
(* priorities, any sizes of the buffers, and whatever is written, received *)
(* and set with serial_ctl_por.                                            *)
(*                                                                         *)
(* The wait queues make PortOK inductive.  A call is in the critical       *)
(* region of a semaphore from wai_sem on, whether it waits there or has    *)
(* the permit (SndCalls, RcvCalls).  SemOK says that all calls in the      *)
(* region but one at most wait, and that the permit is in one of three     *)
(* places: free, with that one call, or with the callback, which is where  *)
(* it is exactly while the buffer is full or empty.                        *)
(*                                                                         *)
(* The port also implements SerialLine.  LineInv adds to the invariant     *)
(* that the rings are rings when the port is closed too, and that what     *)
(* calls have still to write, and what has come in, is text.               *)
(***************************************************************************)
EXTENDS SerialPort, SequenceTheorems, FiniteSetTheorems, TLAPS

-----------------------------------------------------------------------------
(* Queues: what TaskSystemProofs says of them is needed here too. *)

\* A set of natural numbers that is not empty has a smallest member.
LEMMA SmallestNat ==
  ASSUME NEW T \in SUBSET Nat, T # {}
  PROVE  Min(T) \in T /\ \A y \in T : Min(T) <= y
<1> DEFINE R == {ss \in Nat \X Nat : ss[1] < ss[2]}
<1>1. IsWellFoundedOn(R, Nat)
  BY NatLessThanWellFounded DEF OpToRel
<1>2. PICK x \in T : \A y \in T : <<y, x>> \notin R
  <2> HIDE DEF R
  <2> QED BY <1>1, WFMin
<1>3. \A y \in T : x <= y
  <2> SUFFICES ASSUME NEW y \in T, y < x PROVE FALSE
    OBVIOUS
  <2>1. <<y, x>> \in R
    OBVIOUS
  <2> QED BY <1>2, <2>1
<1> QED BY <1>3 DEF Min

\* A search of a queue of length n finds the first of the places it looks for.
LEMMA FirstPlace ==
  ASSUME NEW n \in Nat, NEW I \in SUBSET (1 .. n), I # {}
  PROVE  Min(I) \in I /\ \A j \in I : Min(I) <= j
<1>1. I \in SUBSET Nat
  OBVIOUS
<1> QED BY <1>1, SmallestNat

\* What is left of a queue from which the first occurrence of x is unlinked.
LEMMA RemoveFirstAt ==
  ASSUME NEW S, NEW s \in Seq(S), NEW x, Contains(s, x)
  PROVE  LET r == RemoveFirst(s, x) IN
         /\ r \in Seq(S) /\ Len(r) = Len(s) - 1
         /\ \E i \in 1 .. Len(s) :
               /\ s[i] = x
               /\ \A j \in 1 .. Len(r) : r[j] = IF j < i THEN s[j] ELSE s[j + 1]
<1> DEFINE I == {j \in 1 .. Len(s) : s[j] = x}
           i == Min(I)
           u == SubSeq(s, 1, i - 1)
           v == SubSeq(s, i + 1, Len(s))
           r == u \o v
<1>1. I # {} /\ I \in SUBSET (1 .. Len(s)) /\ Len(s) \in Nat
  BY DEF Contains
<1>2. i \in 1 .. Len(s) /\ s[i] = x
  <2>1. Min(I) \in I
    <3> HIDE DEF I
    <3> QED BY <1>1, FirstPlace
  <2> QED BY <2>1
<1>3. RemoveFirst(s, x) = r
  BY <1>1 DEF RemoveFirst, RemoveAt, SelectInSeq
<1> HIDE DEF i, I
<1>4. u \in Seq(S) /\ Len(u) = i - 1 /\ \A j \in 1 .. i - 1 : u[j] = s[j]
  <2>1. \A j \in 1 .. i - 1 : s[j] \in S
    BY <1>2
  <2> QED BY <1>2, <2>1, SubSeqProperties
<1>5. /\ v \in Seq(S) /\ Len(v) = Len(s) - i
      /\ \A j \in 1 .. Len(s) - i : v[j] = s[i + j]
  <2>1. \A j \in i + 1 .. Len(s) : s[j] \in S
    BY <1>2
  <2>2. v \in Seq(S) /\ Len(v) = Len(s) - i
    BY <1>2, <2>1, SubSeqProperties
  <2>3. \A j \in 1 .. Len(s) - (i + 1) + 1 : v[j] = s[(i + 1) + j - 1]
    BY <1>2, <2>1, SubSeqProperties
  <2>4. Len(s) - (i + 1) + 1 = Len(s) - i
        /\ \A j \in 1 .. Len(s) - i : (i + 1) + j - 1 = i + j
    BY <1>2
  <2> HIDE DEF v
  <2> QED BY <2>2, <2>3, <2>4
<1> HIDE DEF u, v
<1>6. /\ r \in Seq(S) /\ Len(r) = Len(s) - 1
      /\ \A j \in 1 .. Len(u) + Len(v) :
            r[j] = IF j <= Len(u) THEN u[j] ELSE v[j - Len(u)]
  <2>1. /\ r \in Seq(S) /\ Len(r) = Len(u) + Len(v)
        /\ \A j \in 1 .. Len(u) + Len(v) :
              r[j] = IF j <= Len(u) THEN u[j] ELSE v[j - Len(u)]
    BY <1>4, <1>5, ConcatProperties
  <2> QED BY <1>2, <2>1, <1>4, <1>5
<1>7. \A j \in 1 .. Len(r) : r[j] = IF j < i THEN s[j] ELSE s[j + 1]
  <2> SUFFICES ASSUME NEW j \in 1 .. Len(r)
               PROVE  r[j] = IF j < i THEN s[j] ELSE s[j + 1]
    OBVIOUS
  <2>1. r[j] = IF j <= i - 1 THEN u[j] ELSE v[j - (i - 1)]
    BY <1>2, <1>4, <1>5, <1>6
  <2> QED BY <2>1, <1>2, <1>4, <1>5, <1>6
<1> HIDE DEF r
<1> QED BY <1>2, <1>3, <1>6, <1>7

\* Unlinking the only occurrence of x from a queue leaves the others in their
\* order: the first one stays first if it is not x (RemoveFirst is the effect
\* of queue_delete on one queue, queue.h).
LEMMA RemoveFirstProperties ==
  ASSUME NEW S, NEW s \in Seq(S), NEW x \in S, IsInjective(s)
  PROVE  /\ RemoveFirst(s, x) \in Seq(S)
         /\ IsInjective(RemoveFirst(s, x))
         /\ \A y \in S : Contains(RemoveFirst(s, x), y)
                           <=> Contains(s, y) /\ y # x
         /\ s # <<>> /\ Head(s) # x =>
               RemoveFirst(s, x) # <<>> /\ Head(RemoveFirst(s, x)) = Head(s)
<1>1. CASE ~Contains(s, x)
  BY <1>1 DEF RemoveFirst, Contains
<1>2. CASE Contains(s, x)
  <2> DEFINE r == RemoveFirst(s, x)
  <2>1. /\ r \in Seq(S) /\ Len(r) = Len(s) - 1
        /\ \E i \in 1 .. Len(s) :
              /\ s[i] = x
              /\ \A j \in 1 .. Len(r) : r[j] = IF j < i THEN s[j] ELSE s[j + 1]
    BY <1>2, RemoveFirstAt
  <2> HIDE DEF r
  <2>2. PICK i \in 1 .. Len(s) :
           /\ s[i] = x
           /\ \A j \in 1 .. Len(r) : r[j] = IF j < i THEN s[j] ELSE s[j + 1]
    BY <2>1
  <2> DEFINE old(j) == IF j < i THEN j ELSE j + 1
  <2>8. /\ r \in Seq(S) /\ Len(r) = Len(s) - 1
        /\ DOMAIN r = 1 .. Len(r) /\ DOMAIN s = 1 .. Len(s)
    BY <2>1
  <2>9. \A j \in 1 .. Len(r) : old(j) \in 1 .. Len(s) /\ old(j) # i
                                /\ r[j] = s[old(j)]
    BY <2>2, <2>8
  <2>10. \A a, b \in 1 .. Len(r) : old(a) = old(b) => a = b
    BY <2>8
  <2> HIDE DEF old
  <2>11. IsInjective(r)
    <3> SUFFICES ASSUME NEW a \in 1 .. Len(r), NEW b \in 1 .. Len(r), r[a] = r[b]
                 PROVE  a = b
      BY <2>8 DEF IsInjective
    <3>1. s[old(a)] = s[old(b)]
      BY <2>9
    <3>2. old(a) \in DOMAIN s /\ old(b) \in DOMAIN s
      BY <2>8, <2>9
    <3>3. old(a) = old(b)
      BY <3>1, <3>2 DEF IsInjective
    <3> QED BY <3>3, <2>10
  <2>12. ASSUME NEW y \in S PROVE Contains(r, y) <=> Contains(s, y) /\ y # x
    <3>1. ASSUME Contains(r, y) PROVE Contains(s, y) /\ y # x
      <4>1. PICK j \in 1 .. Len(r) : r[j] = y
        BY <3>1 DEF Contains
      <4>2. old(j) \in 1 .. Len(s) /\ old(j) # i /\ y = s[old(j)]
        BY <4>1, <2>9
      <4> QED BY <4>2, <2>2, <2>8 DEF Contains, IsInjective
    <3>2. ASSUME Contains(s, y), y # x PROVE Contains(r, y)
      <4>1. PICK j \in 1 .. Len(s) : s[j] = y
        BY <3>2 DEF Contains
      <4>2. CASE j < i
        BY <4>1, <4>2, <2>2, <2>8 DEF Contains
      <4>3. CASE j > i
        <5>1. j - 1 \in 1 .. Len(r) /\ r[j - 1] = s[j]
          BY <4>1, <4>3, <2>2, <2>8
        <5> QED BY <4>1, <5>1 DEF Contains
      <4> QED BY <4>1, <4>2, <4>3, <2>2, <3>2
    <3> QED BY <3>1, <3>2
  <2>13. s # <<>> /\ Head(s) # x => r # <<>> /\ Head(r) = Head(s)
    BY <2>2, <2>8
  <2> QED BY <2>8, <2>11, <2>12, <2>13 DEF r
<1> QED BY <1>1, <1>2

\* A task that is in no position of a queue can be linked at either end.
LEMMA AppendQueue ==
  ASSUME NEW S, NEW s \in Seq(S), NEW x \in S, IsInjective(s), ~Contains(s, x)
  PROVE  /\ Append(s, x) \in Seq(S) /\ Append(s, x) # <<>>
         /\ IsInjective(Append(s, x))
         /\ \A y \in S : Contains(Append(s, x), y) <=> Contains(s, y) \/ y = x
         /\ Head(Append(s, x)) = IF s = <<>> THEN x ELSE Head(s)
<1>1. /\ Append(s, x) \in Seq(S) /\ Append(s, x) # <<>>
      /\ Len(Append(s, x)) = Len(s) + 1
      /\ \A i \in 1 .. Len(s) : Append(s, x)[i] = s[i]
      /\ Append(s, x)[Len(s) + 1] = x
  BY AppendProperties
<1>2. IsInjective(Append(s, x))
  BY <1>1 DEF IsInjective, Contains
<1>3. \A y \in S : Contains(Append(s, x), y) <=> Contains(s, y) \/ y = x
  BY <1>1 DEF Contains
<1> QED BY <1>1, <1>2, <1>3, HeadTailAppend

\* The first task of a queue is one of its members.
LEMMA HeadInQueue ==
  ASSUME NEW S, NEW s \in Seq(S), s # <<>>
  PROVE  Head(s) \in S /\ Contains(s, Head(s))
<1>1. 1 \in 1 .. Len(s) /\ s[1] \in S /\ Head(s) = s[1]
  OBVIOUS
<1> QED BY <1>1 DEF Contains

\* Inserting x at place i of a queue.
LEMMA InsertAtProperties ==
  ASSUME NEW S, NEW s \in Seq(S), NEW x \in S, NEW i \in 1 .. Len(s)
  PROVE  LET r == InsertAt(s, i, x) IN
         /\ r \in Seq(S) /\ Len(r) = Len(s) + 1
         /\ \A j \in 1 .. Len(s) + 1 :
               r[j] = IF j < i THEN s[j] ELSE IF j = i THEN x ELSE s[j - 1]
<1> DEFINE u == SubSeq(s, 1, i - 1)
           v == SubSeq(s, i, Len(s))
           w == u \o <<x>>
           r == w \o v
<1>1. InsertAt(s, i, x) = r
  BY DEF InsertAt
<1>2. Len(s) \in Nat /\ i \in Int /\ i >= 1 /\ i <= Len(s)
  OBVIOUS
<1>3. u \in Seq(S) /\ Len(u) = i - 1 /\ \A j \in 1 .. i - 1 : u[j] = s[j]
  <2>1. \A j \in 1 .. i - 1 : s[j] \in S
    BY <1>2
  <2> QED BY <1>2, <2>1, SubSeqProperties
<1>4. /\ v \in Seq(S) /\ Len(v) = Len(s) - i + 1
      /\ \A j \in 1 .. Len(s) - i + 1 : v[j] = s[i + j - 1]
  <2>1. \A j \in i .. Len(s) : s[j] \in S
    BY <1>2
  <2> QED BY <1>2, <2>1, SubSeqProperties
<1> HIDE DEF u, v
<1>5. /\ w \in Seq(S) /\ Len(w) = i
      /\ \A j \in 1 .. i : w[j] = IF j < i THEN s[j] ELSE x
  <2>1. <<x>> \in Seq(S) /\ Len(<<x>>) = 1 /\ <<x>>[1] = x
    OBVIOUS
  <2>2. /\ w \in Seq(S) /\ Len(w) = Len(u) + 1
        /\ \A j \in 1 .. Len(u) + 1 :
              w[j] = IF j <= Len(u) THEN u[j] ELSE <<x>>[j - Len(u)]
    BY <1>3, <2>1, ConcatProperties
  <2> QED BY <1>2, <1>3, <2>1, <2>2
<1> HIDE DEF w
<1>6. /\ r \in Seq(S) /\ Len(r) = Len(w) + Len(v)
      /\ \A j \in 1 .. Len(w) + Len(v) :
            r[j] = IF j <= Len(w) THEN w[j] ELSE v[j - Len(w)]
  BY <1>4, <1>5, ConcatProperties
<1> HIDE DEF r
<1>7. ASSUME NEW j \in 1 .. Len(s) + 1
      PROVE  r[j] = IF j < i THEN s[j] ELSE IF j = i THEN x ELSE s[j - 1]
  <2>1. r[j] = IF j <= i THEN w[j] ELSE v[j - i]
    BY <1>2, <1>4, <1>5, <1>6
  <2>2. CASE j <= i
    BY <1>2, <1>5, <2>1, <2>2
  <2>3. CASE j > i
    <3>1. j - i \in 1 .. Len(s) - i + 1 /\ i + (j - i) - 1 = j - 1
      BY <1>2, <2>3
    <3>2. v[j - i] = s[i + (j - i) - 1]
      BY <1>4, <3>1
    <3> QED BY <1>2, <2>1, <2>3, <3>1, <3>2
  <2> QED BY <1>2, <2>2, <2>3
<1> QED BY <1>1, <1>2, <1>4, <1>5, <1>6, <1>7

\* r is the queue s with x inserted at place i.
Inserted(r, s, x, i) ==
    /\ Len(r) = Len(s) + 1
    /\ \A j \in 1 .. Len(s) + 1 :
          r[j] = IF j < i THEN s[j] ELSE IF j = i THEN x ELSE s[j - 1]

\* A queue with one more task has all the others, each once.
LEMMA InsertedQueue ==
  ASSUME NEW S, NEW s \in Seq(S), NEW r \in Seq(S), NEW x \in S,
         NEW i \in 1 .. Len(s) + 1, Inserted(r, s, x, i),
         IsInjective(s), ~Contains(s, x)
  PROVE  /\ r # <<>> /\ IsInjective(r)
         /\ \A y \in S : Contains(r, y) <=> Contains(s, y) \/ y = x
<1> DEFINE new(j) == IF j < i THEN j ELSE j + 1
<1>1. /\ Len(r) = Len(s) + 1 /\ DOMAIN r = 1 .. Len(r) /\ DOMAIN s = 1 .. Len(s)
      /\ Len(s) \in Nat
      /\ \A j \in 1 .. Len(s) + 1 :
            r[j] = IF j < i THEN s[j] ELSE IF j = i THEN x ELSE s[j - 1]
  BY DEF Inserted
<1>2. r # <<>> /\ i \in 1 .. Len(r) /\ r[i] = x
  BY <1>1
<1>3. ASSUME NEW j \in 1 .. Len(r), j # i
      PROVE  \E l \in 1 .. Len(s) : new(l) = j /\ r[j] = s[l]
  <2>1. CASE j < i
    BY <1>1, <2>1
  <2>2. CASE j > i
    <3>1. j - 1 \in 1 .. Len(s) /\ new(j - 1) = j
      BY <1>1, <2>2
    <3> QED BY <1>1, <2>2, <3>1
  <2> QED BY <1>1, <1>3, <2>1, <2>2
<1>4. \A l \in 1 .. Len(s) : new(l) \in 1 .. Len(r) /\ r[new(l)] = s[l]
  BY <1>1
<1> HIDE DEF new
<1>5. \A l \in 1 .. Len(s) : s[l] # x
  BY <1>1 DEF Contains
<1>6. IsInjective(r)
  <2> SUFFICES ASSUME NEW a \in 1 .. Len(r), NEW b \in 1 .. Len(r), r[a] = r[b]
               PROVE  a = b
    BY <1>1 DEF IsInjective
  <2>1. CASE a # i /\ b # i
    <3>1. PICK l \in 1 .. Len(s) : new(l) = a /\ r[a] = s[l]
      BY <1>3, <2>1
    <3>2. PICK m \in 1 .. Len(s) : new(m) = b /\ r[b] = s[m]
      BY <1>3, <2>1
    <3>3. l = m
      BY <1>1, <3>1, <3>2 DEF IsInjective
    <3> QED BY <3>1, <3>2, <3>3
  <2>2. CASE a = i \/ b = i
    BY <1>2, <1>3, <1>5, <2>2
  <2> QED BY <2>1, <2>2
<1>7. ASSUME NEW y \in S PROVE Contains(r, y) <=> Contains(s, y) \/ y = x
  <2>1. ASSUME Contains(r, y), y # x PROVE Contains(s, y)
    <3>1. PICK j \in 1 .. Len(r) : r[j] = y
      BY <2>1 DEF Contains
    <3> QED BY <1>2, <1>3, <2>1, <3>1 DEF Contains
  <2>2. ASSUME Contains(s, y) PROVE Contains(r, y)
    <3>1. PICK l \in 1 .. Len(s) : s[l] = y
      BY <2>2 DEF Contains
    <3> QED BY <1>4, <3>1 DEF Contains
  <2>3. Contains(r, x)
    BY <1>2 DEF Contains
  <2> QED BY <2>1, <2>2, <2>3
<1> QED BY <1>2, <1>6, <1>7

-----------------------------------------------------------------------------
(* The invariant. *)

\* The port and a call have the fields that they have at first.
IsPort(port) ==
    /\ port.openflag \in BOOLEAN /\ port.snd_stopped \in BOOLEAN
    /\ DOMAIN port = {"openflag", "errorflag", "ioctl", "rcv", "rcv_fc_chr",
                      "rcv_stopped", "snd", "snd_stopped", "rcv_sem", "snd_sem",
                      "cbr", "tx"}

\* A ring buffer, whose indices and count delimit one part of it.
IsRing(r, n) ==
    /\ DOMAIN r = {"buffer", "read_ptr", "write_ptr", "count"}
    /\ DOMAIN r.buffer = 0 .. n - 1
    /\ r.read_ptr \in 0 .. n - 1 /\ RingOK(r, n)

\* Where a call may be.  A call that writes has not emptied the receive
\* buffer; one that still has to take the permit of that buffer has none.
CallOK(c) ==
    /\ DOMAIN c = {"op", "pc", "str", "len", "empty", "c"}
    /\ c.empty \in BOOLEAN
    /\ \/ c.op = "none" /\ c.pc = "none" /\ c.empty
       \/ c.op = "write" /\ c.pc \in {"wai", "chr", "crwai", "lf", "sig"} /\ c.empty
       \/ c.op = "read" /\ c.pc \in {"wai", "chr", "crwai", "lf", "sig", "rea"}
       \/ c.op = "read" /\ c.pc \in {"rwai", "ret"} /\ c.empty
       \/ c.op = "read" /\ c.pc = "rsig" /\ ~c.empty

\* The calls between wai_sem and sig_sem, for each buffer.
InSnd(c) == c.pc \in {"chr", "lf", "sig"}
InRcv(c) == c.pc \in {"rea", "rsig"} \/ (c.op = "read" /\ ~c.empty)

SndCalls(cc) == {t \in Task : InSnd(cc[t])}
RcvCalls(cc) == {t \in Task : InRcv(cc[t])}

\* All tasks of W wait, or all but h.
NoneHas(sem, W)   == \A t \in W : Contains(sem.queue, t)
OneHas(sem, W, h) ==
    h \in W /\ ~Contains(sem.queue, h) /\ \A t \in W \ {h} : Contains(sem.queue, t)

\* A semaphore with the tasks W in its critical region.  Where cb holds, it is
\* the callback that has the permit.
SemOK(sem, W, cb) ==
    /\ DOMAIN sem = {"cnt", "queue"}
    /\ sem.queue \in Seq(Task) /\ IsInjective(sem.queue)
    /\ \A t \in Task : Contains(sem.queue, t) => t \in W
    /\ \/ sem.cnt = 1 /\ ~cb /\ sem.queue = <<>> /\ NoneHas(sem, W)
       \/ sem.cnt = 0 /\ ~cb /\ \E h \in W : OneHas(sem, W, h)
       \/ sem.cnt = 0 /\ cb /\ NoneHas(sem, W)

\* Who waits, waits where its call has left it.
QueuedOK(port, cc) ==
    \A t \in Task :
        /\ Contains(port.snd_sem.queue, t) => cc[t].pc \in {"chr", "lf"}
        /\ Contains(port.rcv_sem.queue, t) => cc[t].pc = "rea" /\ cc[t].empty

\* The send callback is enabled while there is something for it to send.
CallbackOn(port) ==
    (port.snd.count > 0 /\ ~port.snd_stopped) \/ port.rcv_fc_chr # NUL => "SND" \in port.cbr

CallsOK(cc) == cc = [t \in Task |-> cc[t]] /\ \A t \in Task : CallOK(cc[t])

SemsOK(port, cc) ==
    /\ SemOK(port.snd_sem, SndCalls(cc), port.snd.count = snd_bufsz)
    /\ SemOK(port.rcv_sem, RcvCalls(cc), port.rcv.count = 0)

OpenOK(port, cc) ==
    /\ IsPort(port) /\ CallsOK(cc) /\ QueuedOK(port, cc) /\ SemsOK(port, cc)
    /\ IsRing(port.snd, snd_bufsz) /\ IsRing(port.rcv, rcv_bufsz)
    /\ port.errorflag = FALSE /\ CallbackOn(port)

ClosedOK(port, cc) ==
    /\ IsPort(port)
    /\ port.snd_sem = ClosedPort.snd_sem /\ port.rcv_sem = ClosedPort.rcv_sem
    /\ cc = [t \in Task |-> Idle]

PortInv ==
    ~ended => IF p.openflag THEN OpenOK(p, call) ELSE ClosedOK(p, call)
-----------------------------------------------------------------------------
(* Ring buffers. *)

\* A character more, of a buffer that is not full.
LEMMA Stored ==
  ASSUME NEW n \in Nat \ {0}, NEW r, IsRing(r, n), r.count # n, NEW ch
  PROVE  IsRing(Store(r, n, ch), n) /\ Store(r, n, ch).count = r.count + 1
<1> DEFINE s == Store(r, n, ch)
<1>1. /\ r.count \in 0 .. n /\ r.read_ptr \in 0 .. n - 1
      /\ r.write_ptr = (r.read_ptr + r.count) % n
  BY DEF IsRing, RingOK
<1>2. /\ DOMAIN s = {"buffer", "read_ptr", "write_ptr", "count"}
      /\ s.read_ptr = r.read_ptr /\ s.write_ptr = INC_PTR(r.write_ptr, n)
      /\ s.count = r.count + 1 /\ DOMAIN s.buffer = 0 .. n - 1
  BY DEF IsRing, Store
<1> HIDE DEF s
<1>3. INC_PTR(r.write_ptr, n) = (r.read_ptr + (r.count + 1)) % n
  <2>1. ASSUME NEW a \in Nat, NEW b \in Nat, a < n, b < n
        PROVE  INC_PTR((a + b) % n, n) = (a + (b + 1)) % n
    <3>1. a + b \in 0 .. 2 * n - 1 /\ a + (b + 1) \in 0 .. 2 * n - 1
      BY <2>1
    <3>2. /\ (a + b) % n = IF a + b < n THEN a + b ELSE a + b - n
          /\ (a + (b + 1)) % n = IF a + (b + 1) < n THEN a + (b + 1) ELSE a + (b + 1) - n
      BY <3>1
    <3> QED BY <2>1, <3>2 DEF INC_PTR
  <2>2. /\ r.read_ptr \in Nat /\ r.count \in Nat /\ r.read_ptr < n /\ r.count < n
    BY <1>1
  <2> QED BY <1>1, <2>1, <2>2
<1>4. RingOK(s, n)
  BY <1>1, <1>2, <1>3 DEF RingOK
<1> QED BY <1>1, <1>2, <1>4 DEF IsRing, s

\* The first character is taken out of a buffer that is not empty.
LEMMA Dropped ==
  ASSUME NEW n \in Nat \ {0}, NEW r, IsRing(r, n), r.count # 0
  PROVE  IsRing(Drop(r, n), n) /\ Drop(r, n).count = r.count - 1
<1> DEFINE s == Drop(r, n)
<1>1. /\ r.count \in 0 .. n /\ r.read_ptr \in 0 .. n - 1
      /\ r.write_ptr = (r.read_ptr + r.count) % n
  BY DEF IsRing, RingOK
<1>2. /\ DOMAIN s = {"buffer", "read_ptr", "write_ptr", "count"}
      /\ s.read_ptr = INC_PTR(r.read_ptr, n) /\ s.write_ptr = r.write_ptr
      /\ s.count = r.count - 1 /\ DOMAIN s.buffer = 0 .. n - 1
  BY DEF IsRing, Drop
<1> HIDE DEF s
<1>3. INC_PTR(r.read_ptr, n) \in 0 .. n - 1
      /\ r.write_ptr = (INC_PTR(r.read_ptr, n) + (r.count - 1)) % n
  <2>1. ASSUME NEW a \in Nat, NEW b \in Nat, a < n, b > 0, b <= n
        PROVE  /\ INC_PTR(a, n) \in 0 .. n - 1
               /\ (a + b) % n = (INC_PTR(a, n) + (b - 1)) % n
    <3>1. a + b \in 0 .. 2 * n - 1 /\ b - 1 \in 0 .. 2 * n - 1
      BY <2>1
    <3>2. /\ (a + b) % n = IF a + b < n THEN a + b ELSE a + b - n
          /\ (b - 1) % n = IF b - 1 < n THEN b - 1 ELSE b - 1 - n
      BY <3>1
    <3>3. CASE a + 1 = n
      <4>1. INC_PTR(a, n) = 0 /\ 0 + (b - 1) = b - 1 /\ b - 1 < n /\ ~(a + b < n)
            /\ a + b - n = b - 1
        BY <2>1, <3>3 DEF INC_PTR
      <4> QED BY <2>1, <3>2, <4>1
    <3>4. CASE a + 1 # n
      <4>1. INC_PTR(a, n) = a + 1 /\ (a + 1) + (b - 1) = a + b
        BY <2>1, <3>4 DEF INC_PTR
      <4> QED BY <2>1, <3>4, <4>1
    <3> QED BY <3>3, <3>4
  <2>2. /\ r.read_ptr \in Nat /\ r.count \in Nat /\ r.read_ptr < n
        /\ r.count > 0 /\ r.count <= n
    BY <1>1
  <2> QED BY <1>1, <2>1, <2>2
<1>4. RingOK(s, n) /\ s.read_ptr \in 0 .. n - 1
  BY <1>1, <1>2, <1>3 DEF RingOK
<1> QED BY <1>1, <1>2, <1>4 DEF IsRing, s

\* The places of a buffer are different, and one after the other.
LEMMA PlacesApart ==
  ASSUME NEW n \in Nat \ {0}, NEW a \in 0 .. n - 1
  PROVE  /\ \A i \in 0 .. n : (a + i) % n \in 0 .. n - 1
         /\ \A i, j \in 0 .. n - 1 : (a + i) % n = (a + j) % n => i = j
         /\ \A i \in 0 .. n - 1 : (INC_PTR(a, n) + i) % n = (a + (i + 1)) % n
<1>1. \A i \in 0 .. n : a + i \in 0 .. 2 * n - 1
  OBVIOUS
<1>2. \A b \in 0 .. 2 * n - 1 : b % n = IF b < n THEN b ELSE b - n
  OBVIOUS
<1>3. \A i \in 0 .. n : (a + i) % n = IF a + i < n THEN a + i ELSE a + i - n
  BY <1>1, <1>2
<1>4. \A i, j \in 0 .. n - 1 : (a + i) % n = (a + j) % n => i = j
  BY <1>3
<1>5. ASSUME NEW i \in 0 .. n - 1 PROVE (INC_PTR(a, n) + i) % n = (a + (i + 1)) % n
  <2>1. CASE a + 1 = n
    <3>1. INC_PTR(a, n) = 0 /\ 0 + i = i /\ i \in 0 .. 2 * n - 1
      BY <2>1 DEF INC_PTR
    <3>2. (a + (i + 1)) % n = IF a + (i + 1) < n THEN a + (i + 1) ELSE a + (i + 1) - n
      BY <1>3
    <3>3. i % n = IF i < n THEN i ELSE i - n
      BY <1>2, <3>1
    <3>4. a + (i + 1) >= n /\ a + (i + 1) - n = i /\ i < n
      BY <2>1
    <3> QED BY <3>1, <3>2, <3>3, <3>4
  <2>2. CASE a + 1 # n
    <3>1. INC_PTR(a, n) + i = a + (i + 1)
      BY <2>2 DEF INC_PTR
    <3> QED BY <3>1
  <2> QED BY <2>1, <2>2
<1> QED BY <1>3, <1>4, <1>5

\* What is stored comes after what is there.
LEMMA StoredLast ==
  ASSUME NEW n \in Nat \ {0}, NEW r, IsRing(r, n), r.count # n, NEW ch
  PROVE  Contents(Store(r, n, ch), n) = Append(Contents(r, n), ch)
<1> DEFINE s == Store(r, n, ch)
           a == r.read_ptr
           m == r.count
           at(i) == (a + i - 1) % n
<1>1. /\ m \in 0 .. n - 1 /\ a \in 0 .. n - 1 /\ r.write_ptr = (a + m) % n
      /\ DOMAIN r.buffer = 0 .. n - 1
  BY DEF IsRing, RingOK
<1>2. /\ s.read_ptr = a /\ s.count = m + 1
      /\ s.buffer = [r.buffer EXCEPT ![r.write_ptr] = ch]
  BY DEF IsRing, Store
<1> HIDE DEF s, a, m
<1>3. \A i \in 1 .. m + 1 : a + i - 1 = a + (i - 1) /\ i - 1 \in 0 .. n - 1
  BY <1>1
<1>4. r.write_ptr \in DOMAIN r.buffer /\ at(m + 1) = r.write_ptr
  BY <1>1, <1>3, PlacesApart
<1>5. ASSUME NEW i \in 1 .. m PROVE s.buffer[at(i)] = r.buffer[at(i)]
  <2>1. i - 1 \in 0 .. n - 1 /\ m \in 0 .. n - 1 /\ i - 1 # m /\ a + i - 1 = a + (i - 1)
    BY <1>1, <1>3
  <2>2. PICK j : j = i - 1
    OBVIOUS
  <2>3. j \in 0 .. n - 1 /\ j \in 0 .. n /\ j # m /\ m \in 0 .. n - 1
    BY <2>1, <2>2
  <2>4. \A x, y \in 0 .. n - 1 : (a + x) % n = (a + y) % n => x = y
    BY <1>1, PlacesApart
  <2>5. (a + j) % n # (a + m) % n
    BY <2>3, <2>4
  <2>6. (a + j) % n \in 0 .. n - 1
    BY <1>1, <2>3, PlacesApart
  <2> QED BY <1>1, <1>2, <2>1, <2>2, <2>5, <2>6
<1>6. s.buffer[at(m + 1)] = ch
  BY <1>2, <1>4
<1>7. /\ Contents(s, n) = [i \in 1 .. m + 1 |-> s.buffer[at(i)]]
      /\ Contents(r, n) = [i \in 1 .. m |-> r.buffer[at(i)]]
  BY <1>2 DEF Contents, a, m
<1> HIDE DEF at
<1>8. Append(Contents(r, n), ch) = [i \in 1 .. m + 1 |-> IF i = m + 1 THEN ch ELSE r.buffer[at(i)]]
  <2>1. m \in Nat /\ Len([i \in 1 .. m |-> r.buffer[at(i)]]) = m
    BY <1>1
  <2>2. Append([i \in 1 .. m |-> r.buffer[at(i)]], ch)
          = [i \in 1 .. m + 1 |-> IF i = m + 1 THEN ch ELSE r.buffer[at(i)]]
    BY <2>1 
  <2> QED BY <1>7, <2>2
<1>9. ASSUME NEW i \in 1 .. m + 1
      PROVE  s.buffer[at(i)] = IF i = m + 1 THEN ch ELSE r.buffer[at(i)]
  <2>1. i = m + 1 \/ i \in 1 .. m
    BY <1>1
  <2> QED BY <1>5, <1>6, <2>1
<1> QED BY <1>7, <1>8, <1>9 DEF s

\* The first character is taken out, the others stay.
LEMMA DroppedFirst ==
  ASSUME NEW n \in Nat \ {0}, NEW r, IsRing(r, n), r.count # 0
  PROVE  /\ Contents(r, n) # <<>> /\ Head(Contents(r, n)) = First(r)
         /\ Contents(Drop(r, n), n) = Tail(Contents(r, n))
<1> DEFINE s == Drop(r, n)
           a == r.read_ptr
           b == INC_PTR(a, n)
           m == r.count
           at(i) == (a + i - 1) % n
           bt(i) == (b + i - 1) % n
           C == Contents(r, n)
<1>1. m \in 1 .. n /\ a \in 0 .. n - 1 /\ DOMAIN r.buffer = 0 .. n - 1
  BY DEF IsRing, RingOK
<1>2. /\ s.read_ptr = b /\ s.count = m - 1
      /\ s.buffer = [r.buffer EXCEPT ![a] = NUL]
  BY DEF IsRing, Drop
<1> HIDE DEF s
<1>3. /\ C = [i \in 1 .. m |-> r.buffer[at(i)]]
      /\ Contents(s, n) = [i \in 1 .. m - 1 |-> s.buffer[bt(i)]]
  BY <1>2 DEF Contents
<1> HIDE DEF a, m, C, b
<1> HIDE DEF at, bt
<1>4. Len(C) = m /\ C # <<>> /\ Head(C) = r.buffer[at(1)]
  <2>1. m \in Nat /\ 1 \in 1 .. m
    BY <1>1
  <2>2. DOMAIN C = 1 .. m /\ C[1] = r.buffer[at(1)]
    BY <1>3, <2>1
  <2>3. Len(C) = m
    BY <1>3, <2>1
  <2> QED BY <2>1, <2>2, <2>3
<1>5. at(1) = a
  <2>1. a + 1 - 1 = a /\ a \in 0 .. 2 * n - 1
    BY <1>1
  <2>2. a % n = a
    BY <1>1
  <2> QED BY <2>1, <2>2 DEF at
<1>6. ASSUME NEW i \in 1 .. m - 1
      PROVE  s.buffer[bt(i)] = r.buffer[at(i + 1)]
  <2>1. /\ i - 1 \in 0 .. n - 1 /\ i \in 0 .. n - 1 /\ i # 0 /\ 0 \in 0 .. n - 1
        /\ b + i - 1 = b + (i - 1) /\ a + (i + 1) - 1 = a + i /\ a + ((i - 1) + 1) = a + i
        /\ a + 0 = a /\ i \in 0 .. n
    BY <1>1 DEF b, INC_PTR
  <2>2. (b + (i - 1)) % n = (a + ((i - 1) + 1)) % n
    BY <1>1, <2>1, PlacesApart DEF b
  <2>3. \A x, y \in 0 .. n - 1 : (a + x) % n = (a + y) % n => x = y
    BY <1>1, PlacesApart
  <2>4. (a + i) % n # (a + 0) % n
    BY <2>1, <2>3
  <2>5. (a + i) % n \in 0 .. n - 1
    BY <1>1, <2>1, PlacesApart
  <2>6. a % n = a
    BY <1>1
  <2> QED BY <1>1, <1>2, <2>1, <2>2, <2>4, <2>5, <2>6 DEF at, bt
<1>7. Tail(C) = [i \in 1 .. m - 1 |-> r.buffer[at(i + 1)]]
  BY <1>1, <1>3, <1>4
<1>8. Contents(s, n) = Tail(C)
  BY <1>3, <1>6, <1>7
<1> QED BY <1>4, <1>5, <1>8 DEF C, First, a, s

-----------------------------------------------------------------------------
(* Semaphores. *)

\* What sig_sem and wai_sem make of the semaphore.
Signalled(sem) == IF sem.queue # <<>> THEN [sem EXCEPT !.queue = Tail(@)]
                                      ELSE [sem EXCEPT !.cnt = 1]

Awaited(sem, t) ==
    LET q == sem.queue
        i == SelectInSeq(q, LAMBDA u : tskpri[t] < tskpri[u])
    IN  IF sem.cnt > 0 THEN [sem EXCEPT !.cnt = @ - 1]
        ELSE [sem EXCEPT !.queue = IF i = 0 THEN Append(q, t) ELSE InsertAt(q, i, t)]

\* The task taken off a queue is its first, and the others stay.
LEMMA TailQueue ==
  ASSUME NEW S, NEW s \in Seq(S), s # <<>>, IsInjective(s)
  PROVE  /\ Tail(s) \in Seq(S) /\ IsInjective(Tail(s))
         /\ Head(s) \in S /\ Contains(s, Head(s))
         /\ \A y \in S : Contains(Tail(s), y) <=> Contains(s, y) /\ y # Head(s)
<1> DEFINE r == Tail(s)
<1>1. /\ r \in Seq(S) /\ Len(r) = Len(s) - 1 /\ Len(s) \in Nat
      /\ \A i \in 1 .. Len(r) : r[i] = s[i + 1]
      /\ DOMAIN r = 1 .. Len(r) /\ DOMAIN s = 1 .. Len(s)
      /\ Head(s) = s[1] /\ 1 \in 1 .. Len(s)
  OBVIOUS
<1> HIDE DEF r
<1>2. IsInjective(r)
  <2>1. \A i, j \in 1 .. Len(s) : s[i] = s[j] => i = j
    BY <1>1 DEF IsInjective
  <2>2. ASSUME NEW i \in 1 .. Len(r), NEW j \in 1 .. Len(r), r[i] = r[j] PROVE i = j
    <3>1. i + 1 \in 1 .. Len(s) /\ j + 1 \in 1 .. Len(s) /\ s[i + 1] = s[j + 1]
      BY <1>1, <2>2
    <3> QED BY <2>1, <3>1
  <2> QED BY <1>1, <2>2 DEF IsInjective
<1>3. ASSUME NEW y \in S PROVE Contains(r, y) <=> Contains(s, y) /\ y # Head(s)
  <2>1. ASSUME Contains(r, y) PROVE Contains(s, y) /\ y # Head(s)
    <3>1. PICK i \in 1 .. Len(r) : r[i] = y
      BY <2>1 DEF Contains
    <3>2. i + 1 \in 1 .. Len(s) /\ s[i + 1] = y /\ i + 1 # 1
      BY <1>1, <3>1
    <3> QED BY <1>1, <3>2 DEF Contains, IsInjective
  <2>2. ASSUME Contains(s, y), y # Head(s) PROVE Contains(r, y)
    <3>1. PICK i \in 1 .. Len(s) : s[i] = y
      BY <2>2 DEF Contains
    <3>2. i - 1 \in 1 .. Len(r) /\ r[i - 1] = s[i]
      BY <1>1, <2>2, <3>1
    <3> QED BY <3>1, <3>2 DEF Contains
  <2> QED BY <2>1, <2>2
<1>4. Head(s) \in S /\ Contains(s, Head(s))
  BY HeadInQueue
<1> QED BY <1>1, <1>2, <1>3, <1>4 DEF r

\* A task that waits is linked into the queue, wherever its priority puts it.
LEMMA LinkedQueue ==
  ASSUME NEW sem, NEW t \in Task, DOMAIN sem = {"cnt", "queue"}, sem.cnt = 0,
         sem.queue \in Seq(Task), IsInjective(sem.queue), ~Contains(sem.queue, t)
  PROVE  LET a == Awaited(sem, t) IN
         /\ DOMAIN a = {"cnt", "queue"} /\ a.cnt = 0
         /\ a.queue \in Seq(Task) /\ IsInjective(a.queue)
         /\ \A y \in Task : Contains(a.queue, y) <=> Contains(sem.queue, y) \/ y = t
<1> DEFINE q == sem.queue
           I == {j \in 1 .. Len(q) : tskpri[t] < tskpri[q[j]]}
           i == IF I # {} THEN Min(I) ELSE 0
           r == IF i = 0 THEN Append(q, t) ELSE InsertAt(q, i, t)
           a == Awaited(sem, t)
<1>1. DOMAIN a = {"cnt", "queue"} /\ a.cnt = 0 /\ a.queue = r
  <2>1. SelectInSeq(q, LAMBDA u : tskpri[t] < tskpri[u]) = i
    BY DEF SelectInSeq
  <2>2. a = [sem EXCEPT !.queue = r]
    <3> HIDE DEF i
    <3> QED BY <2>1 DEF Awaited
  <2> HIDE DEF r, a
  <2> QED BY <2>2
<1>2. q \in Seq(Task) /\ IsInjective(q) /\ ~Contains(q, t)
  OBVIOUS
<1> HIDE DEF a
<1>3. CASE I = {}
  <2>1. r = Append(q, t)
    BY <1>3
  <2> HIDE DEF r, q
  <2>2. /\ r \in Seq(Task) /\ IsInjective(r)
        /\ \A y \in Task : Contains(r, y) <=> Contains(q, y) \/ y = t
    BY <1>2, <2>1, AppendQueue
  <2> QED BY <1>1, <2>2 DEF a, q
<1>4. CASE I # {}
  <2>1. I \in SUBSET (1 .. Len(q)) /\ Len(q) \in Nat
    OBVIOUS
  <2>2. i \in 1 .. Len(q)
    <3>1. Min(I) \in I
      <4> HIDE DEF I
      <4> QED BY <1>4, <2>1, FirstPlace
    <3> QED BY <1>4, <2>1, <3>1
  <2>3. r = InsertAt(q, i, t)
    BY <2>2
  <2> HIDE DEF i, I, r, q
  <2>4. /\ r \in Seq(Task) /\ Inserted(r, q, t, i)
    BY <1>2, <2>2, <2>3, InsertAtProperties DEF Inserted
  <2>5. i \in 1 .. Len(q) + 1
    BY <1>2, <2>2
  <2>6. IsInjective(r) /\ \A y \in Task : Contains(r, y) <=> Contains(q, y) \/ y = t
    BY <1>2, <2>4, <2>5, InsertedQueue
  <2> QED BY <1>1, <2>4, <2>6 DEF a, q
<1> QED BY <1>3, <1>4

\* wai_sem brings a task into the region: it gets the permit or waits.
LEMMA Claimed ==
  ASSUME NEW sem, NEW W \in SUBSET Task, NEW cb \in BOOLEAN, SemOK(sem, W, cb),
         NEW t \in Task \ W
  PROVE  /\ SemOK(Awaited(sem, t), W \cup {t}, cb)
         /\ \A y \in Task : Contains(Awaited(sem, t).queue, y) =>
                               Contains(sem.queue, y) \/ y = t
<1> DEFINE q == sem.queue
           a == Awaited(sem, t)
<1>1. /\ DOMAIN sem = {"cnt", "queue"} /\ q \in Seq(Task) /\ IsInjective(q)
      /\ \A y \in Task : Contains(q, y) => y \in W
      /\ ~Contains(q, t)
  BY DEF SemOK
<1>2. CASE sem.cnt = 1
  <2>1. ~cb /\ q = <<>> /\ NoneHas(sem, W)
    BY <1>2 DEF SemOK
  <2>2. DOMAIN a = {"cnt", "queue"} /\ a.cnt = 0 /\ a.queue = q
    BY <1>1, <1>2 DEF Awaited
  <2>3. OneHas(a, W \cup {t}, t)
    BY <1>1, <2>1, <2>2 DEF OneHas, NoneHas
  <2> QED BY <1>1, <2>1, <2>2, <2>3 DEF SemOK
<1>3. CASE sem.cnt = 0
  <2>1. \/ ~cb /\ \E h \in W : OneHas(sem, W, h)
        \/ cb /\ NoneHas(sem, W)
    BY <1>3 DEF SemOK
  <2>2. /\ DOMAIN a = {"cnt", "queue"} /\ a.cnt = 0
        /\ a.queue \in Seq(Task) /\ IsInjective(a.queue)
        /\ \A y \in Task : Contains(a.queue, y) <=> Contains(q, y) \/ y = t
    BY <1>1, <1>3, LinkedQueue
  <2> HIDE DEF a
  <2>3. ASSUME NEW h \in W, OneHas(sem, W, h) PROVE OneHas(a, W \cup {t}, h)
    BY <1>1, <2>2, <2>3 DEF OneHas
  <2>4. NoneHas(sem, W) => NoneHas(a, W \cup {t})
    BY <2>2 DEF NoneHas
  <2>5. SemOK(a, W \cup {t}, cb)
    <3>1. \A y \in Task : Contains(a.queue, y) => y \in W \cup {t}
      BY <1>1, <2>2
    <3> QED BY <2>1, <2>2, <2>3, <2>4, <3>1 DEF SemOK
  <2> QED BY <2>2, <2>5 DEF a
<1> QED BY <1>2, <1>3 DEF SemOK

\* The first task in the queue gets the permit that is given back, or nobody.
LEMMA Passed ==
  ASSUME NEW sem, NEW W \in SUBSET Task, SemOK(sem, W, TRUE)
  PROVE  /\ sem.queue # <<>> \/ sem.cnt = 0
         /\ SemOK(Signalled(sem), W, FALSE)
         /\ \A y \in Task : Contains(Signalled(sem).queue, y) => Contains(sem.queue, y)
<1> DEFINE q == sem.queue
           a == Signalled(sem)
<1>1. /\ DOMAIN sem = {"cnt", "queue"} /\ q \in Seq(Task) /\ IsInjective(q)
      /\ \A y \in Task : Contains(q, y) => y \in W
      /\ NoneHas(sem, W) /\ sem.cnt = 0
  BY DEF SemOK
<1>2. CASE q = <<>>
  <2>1. DOMAIN a = {"cnt", "queue"} /\ a.cnt = 1 /\ a.queue = q
    BY <1>1, <1>2 DEF Signalled
  <2> QED BY <1>1, <1>2, <2>1 DEF SemOK, NoneHas
<1>3. CASE q # <<>>
  <2>1. DOMAIN a = {"cnt", "queue"} /\ a.cnt = 0 /\ a.queue = Tail(q)
    BY <1>1, <1>3 DEF Signalled
  <2> DEFINE h == Head(q)
  <2>2. /\ Tail(q) \in Seq(Task) /\ IsInjective(Tail(q)) /\ h \in Task /\ Contains(q, h)
        /\ \A y \in Task : Contains(Tail(q), y) <=> Contains(q, y) /\ y # h
    <3> HIDE DEF q
    <3> QED BY <1>1, <1>3, TailQueue
  <2> HIDE DEF a, h
  <2>3. h \in W /\ OneHas(a, W, h)
    BY <1>1, <2>1, <2>2 DEF OneHas, NoneHas
  <2>4. SemOK(a, W, FALSE)
    BY <1>1, <2>1, <2>2, <2>3 DEF SemOK
  <2>5. \A y \in Task : Contains(a.queue, y) => Contains(q, y)
    BY <2>1, <2>2
  <2> QED BY <1>1, <2>4, <2>5 DEF a
<1> QED BY <1>2, <1>3

\* The task that has the permit leaves it to the callback.
LEMMA LeftToCallback ==
  ASSUME NEW sem, NEW W \in SUBSET Task, NEW t \in W, SemOK(sem, W, FALSE),
         ~Contains(sem.queue, t)
  PROVE  SemOK(sem, W \ {t}, TRUE)
<1>1. sem.cnt = 0 /\ \E h \in W : OneHas(sem, W, h)
  BY DEF SemOK, NoneHas
<1>2. OneHas(sem, W, t)
  BY <1>1 DEF OneHas
<1>3. NoneHas(sem, W \ {t})
  BY <1>2 DEF OneHas, NoneHas
<1> QED BY <1>1, <1>3 DEF SemOK

\* A task in the region that does not wait has the permit: the callback has
\* it not, and a signal passes it on.
LEMMA GivenBack ==
  ASSUME NEW sem, NEW W \in SUBSET Task, NEW t \in W, NEW cb \in BOOLEAN,
         SemOK(sem, W, cb), ~Contains(sem.queue, t)
  PROVE  /\ cb = FALSE
         /\ sem.queue # <<>> \/ sem.cnt = 0
         /\ SemOK(Signalled(sem), W \ {t}, FALSE)
         /\ \A y \in Task : Contains(Signalled(sem).queue, y) => Contains(sem.queue, y)
<1>1. cb = FALSE
  BY DEF SemOK, NoneHas
<1>2. SemOK(sem, W \ {t}, TRUE)
  BY <1>1, LeftToCallback
<1> QED BY <1>1, <1>2, Passed

\* The semaphore a is sem without the task t in its queue.
Without(a, sem, t) == a = [sem EXCEPT !.queue = RemoveFirst(@, t)]

\* The others that waited go on waiting.
OthersIn(a, sem, t) ==
    \A y \in Task : Contains(a.queue, y) <=> Contains(sem.queue, y) /\ y # t

WaitsIn(sem, W, t) == t \in W => Contains(sem.queue, t)

\* A task that gives up waiting leaves the queue and the region.
LEMMA GaveUp ==
  ASSUME NEW sem, NEW W \in SUBSET Task, NEW cb \in BOOLEAN, SemOK(sem, W, cb),
         NEW t \in Task, WaitsIn(sem, W, t), NEW a, Without(a, sem, t)
  PROVE  SemOK(a, W \ {t}, cb) /\ OthersIn(a, sem, t)
<1> DEFINE q == sem.queue
           r == RemoveFirst(q, t)
<1>1. /\ DOMAIN sem = {"cnt", "queue"} /\ q \in Seq(Task) /\ IsInjective(q)
      /\ \A y \in Task : Contains(q, y) => y \in W
  BY DEF SemOK
<1>2. DOMAIN a = {"cnt", "queue"} /\ a.cnt = sem.cnt /\ a.queue = r
  BY <1>1 DEF Without
<1>3. /\ r \in Seq(Task) /\ IsInjective(r)
      /\ \A y \in Task : Contains(r, y) <=> Contains(q, y) /\ y # t
  <2> HIDE DEF q
  <2> QED BY <1>1, RemoveFirstProperties
<1>4. ASSUME ~Contains(q, t) PROVE SemOK(a, W, cb)
  <2>1. r = q
    BY <1>4 DEF RemoveFirst, Contains
  <2> HIDE DEF r
  <2>2. DOMAIN a = {"cnt", "queue"} /\ a.cnt = sem.cnt /\ a.queue = sem.queue
    BY <1>2, <2>1
  <2> QED BY <2>2 DEF SemOK, NoneHas, OneHas
<1>5. ASSUME Contains(q, t) PROVE SemOK(a, W \ {t}, cb)
  <2>1. q # <<>>
    BY <1>5 DEF Contains
  <2> HIDE DEF r
  <2>2. ASSUME NEW h \in W, OneHas(sem, W, h) PROVE h \in W \ {t} /\ OneHas(a, W \ {t}, h)
    BY <1>2, <1>3, <1>5, <2>2 DEF OneHas
  <2>3. NoneHas(sem, W) => NoneHas(a, W \ {t})
    BY <1>2, <1>3 DEF NoneHas
  <2>4. \A y \in Task : Contains(a.queue, y) => y \in W \ {t}
    BY <1>1, <1>2, <1>3
  <2>5. \/ sem.cnt = 0 /\ ~cb /\ \E h \in W : OneHas(sem, W, h)
        \/ sem.cnt = 0 /\ cb /\ NoneHas(sem, W)
    BY <2>1 DEF SemOK
  <2>6. a.cnt = sem.cnt /\ DOMAIN a = {"cnt", "queue"} /\ a.queue = r
    BY <1>2
  <2>7. \/ a.cnt = 0 /\ ~cb /\ \E h \in W \ {t} : OneHas(a, W \ {t}, h)
        \/ a.cnt = 0 /\ cb /\ NoneHas(a, W \ {t})
    BY <2>2, <2>3, <2>5, <2>6
  <2> QED BY <1>3, <2>4, <2>6, <2>7 DEF SemOK
<1>6. \A y \in Task : Contains(a.queue, y) <=> Contains(q, y) /\ y # t
  <2> HIDE DEF r, q
  <2> QED BY <1>2, <1>3
<1>7. ~Contains(q, t) => W \ {t} = W
  BY DEF WaitsIn
<1> QED BY <1>4, <1>5, <1>6, <1>7 DEF OthersIn
-----------------------------------------------------------------------------
(* What the operators of the port do to it. *)

\* The buffers, their semaphores and the flags are the same.
SameBuffers(q, port) ==
    /\ q.openflag = port.openflag /\ q.errorflag = port.errorflag
    /\ q.rcv = port.rcv /\ q.snd = port.snd /\ q.snd_stopped = port.snd_stopped
    /\ q.rcv_sem = port.rcv_sem /\ q.snd_sem = port.snd_sem

\* The receiving side is the same.
SameReceiver(q, port) ==
    /\ q.openflag = port.openflag /\ q.errorflag = port.errorflag
    /\ q.rcv = port.rcv /\ q.rcv_sem = port.rcv_sem /\ q.rcv_fc_chr = port.rcv_fc_chr
    /\ q.snd_stopped = port.snd_stopped

\* sig_sem does not fail while the permit is not there.
LEMMA SigSnd ==
  ASSUME NEW port, IsPort(port), port.snd_sem.queue # <<>> \/ port.snd_sem.cnt = 0
  PROVE  LET q == sig_sem(port, "snd_sem") IN
         /\ IsPort(q) /\ SameReceiver(q, port)
         /\ q.snd_sem = Signalled(port.snd_sem)
         /\ q.snd = port.snd /\ q.cbr = port.cbr
<1> DEFINE q == sig_sem(port, "snd_sem")
<1>1. q = [port EXCEPT !.snd_sem = Signalled(port.snd_sem)]
  BY DEF sig_sem, Signalled
<1> HIDE DEF q
<1>2. /\ IsPort(q) /\ q.snd_sem = Signalled(port.snd_sem)
      /\ q.snd = port.snd /\ q.cbr = port.cbr
  BY <1>1 DEF IsPort
<1>3. SameReceiver(q, port)
  BY <1>1 DEF IsPort, SameReceiver
<1> QED BY <1>2, <1>3 DEF q

LEMMA SigRcv ==
  ASSUME NEW port, IsPort(port), port.rcv_sem.queue # <<>> \/ port.rcv_sem.cnt = 0
  PROVE  LET q == sig_sem(port, "rcv_sem") IN
         /\ IsPort(q) /\ q.rcv_sem = Signalled(port.rcv_sem)
         /\ q.openflag = port.openflag /\ q.errorflag = port.errorflag
         /\ q.rcv = port.rcv /\ q.rcv_fc_chr = port.rcv_fc_chr
         /\ q.snd = port.snd /\ q.snd_stopped = port.snd_stopped
         /\ q.snd_sem = port.snd_sem /\ q.cbr = port.cbr
<1> DEFINE q == sig_sem(port, "rcv_sem")
<1>1. q = [port EXCEPT !.rcv_sem = Signalled(port.rcv_sem)]
  BY DEF sig_sem, Signalled
<1> HIDE DEF q
<1> QED BY <1>1 DEF IsPort, q

LEMMA WaiSnd ==
  ASSUME NEW port, IsPort(port), NEW t
  PROVE  LET q == wai_sem(port, "snd_sem", t) IN
         /\ IsPort(q) /\ SameReceiver(q, port)
         /\ q.snd_sem = Awaited(port.snd_sem, t)
         /\ q.snd = port.snd /\ q.cbr = port.cbr
<1> DEFINE q == wai_sem(port, "snd_sem", t)
<1>1. q = [port EXCEPT !.snd_sem = Awaited(port.snd_sem, t)]
  BY DEF wai_sem, Awaited
<1> HIDE DEF q
<1>2. /\ IsPort(q) /\ q.snd_sem = Awaited(port.snd_sem, t)
      /\ q.snd = port.snd /\ q.cbr = port.cbr
  BY <1>1 DEF IsPort
<1>3. SameReceiver(q, port)
  BY <1>1 DEF IsPort, SameReceiver
<1> QED BY <1>2, <1>3 DEF q

LEMMA WaiRcv ==
  ASSUME NEW port, IsPort(port), NEW t
  PROVE  LET q == wai_sem(port, "rcv_sem", t) IN
         /\ IsPort(q) /\ q.rcv_sem = Awaited(port.rcv_sem, t)
         /\ q.openflag = port.openflag /\ q.errorflag = port.errorflag
         /\ q.rcv = port.rcv /\ q.rcv_fc_chr = port.rcv_fc_chr
         /\ q.snd = port.snd /\ q.snd_stopped = port.snd_stopped
         /\ q.snd_sem = port.snd_sem /\ q.cbr = port.cbr
<1> DEFINE q == wai_sem(port, "rcv_sem", t)
<1>1. q = [port EXCEPT !.rcv_sem = Awaited(port.rcv_sem, t)]
  BY DEF wai_sem, Awaited
<1> HIDE DEF q
<1> QED BY <1>1 DEF IsPort, q

\* serial_snd_chr sends, or enables the callback.
LEMMA SndChr ==
  ASSUME NEW port, IsPort(port), NEW ch
  PROVE  LET q == serial_snd_chr(port, ch) IN
         /\ IsPort(q) /\ SameBuffers(q, port) /\ q.rcv_fc_chr = port.rcv_fc_chr
         /\ q.cbr = IF Writable(port) THEN port.cbr ELSE port.cbr \cup {"SND"}
<1> DEFINE q == serial_snd_chr(port, ch)
<1>1. CASE Writable(port)
  <2>1. q = [port EXCEPT !.tx = ch]
    BY <1>1 DEF serial_snd_chr, sio_snd_chr
  <2> HIDE DEF q
  <2>2. IsPort(q) /\ SameBuffers(q, port) /\ q.rcv_fc_chr = port.rcv_fc_chr /\ q.cbr = port.cbr
    BY <2>1 DEF IsPort, SameBuffers
  <2> QED BY <1>1, <2>2 DEF q
<1>2. CASE ~Writable(port)
  <2>1. q = [port EXCEPT !.cbr = port.cbr \cup {"SND"}]
    BY <1>2 DEF serial_snd_chr
  <2> HIDE DEF q
  <2>2. /\ IsPort(q) /\ SameBuffers(q, port) /\ q.rcv_fc_chr = port.rcv_fc_chr
        /\ q.cbr = port.cbr \cup {"SND"}
    BY <2>1 DEF IsPort, SameBuffers
  <2> QED BY <1>2, <2>2 DEF q
<1> QED BY <1>1, <1>2

\* A STOP or START that is noted has the callback enabled.
LEMMA SendFc ==
  ASSUME NEW port, IsPort(port), CallbackOn(port), NEW ch
  PROVE  LET q == send_fc(port, ch) IN
         IsPort(q) /\ SameBuffers(q, port) /\ CallbackOn(q)
<1> DEFINE s == serial_snd_chr(port, ch)
           q == send_fc(port, ch)
<1>1. /\ IsPort(s) /\ SameBuffers(s, port) /\ s.rcv_fc_chr = port.rcv_fc_chr
      /\ s.cbr = IF Writable(port) THEN port.cbr ELSE port.cbr \cup {"SND"}
  BY SndChr
<1>2. q = [s EXCEPT !.rcv_fc_chr = IF Writable(port) THEN @ ELSE ch]
  BY DEF send_fc
<1> HIDE DEF s, q
<1>3. IsPort(q) /\ SameBuffers(q, port) /\ q.cbr = s.cbr
  BY <1>1, <1>2 DEF IsPort, SameBuffers
<1>4. Writable(port) => q.rcv_fc_chr = port.rcv_fc_chr
  BY <1>1, <1>2 DEF IsPort
<1>5. CallbackOn(q)
  BY <1>1, <1>3, <1>4 DEF CallbackOn, SameBuffers
<1> QED BY <1>3, <1>5 DEF q

\* wri_chr sends the character or stores it, and only the latter may fill the
\* buffer; what is stored while nothing stops it has the callback enabled.
LEMMA WriChr ==
  ASSUME NEW port, IsPort(port), CallbackOn(port), IsRing(port.snd, snd_bufsz),
         port.snd.count # snd_bufsz, NEW ch
  PROVE  LET q == wri_chr(port, ch) IN
         /\ IsPort(q) /\ SameReceiver(q, port) /\ q.snd_sem = port.snd_sem
         /\ CallbackOn(q) /\ IsRing(q.snd, snd_bufsz)
         /\ q.snd.count = snd_bufsz <=> Fills(port)
<1> DEFINE s == serial_snd_chr(port, ch)
           u == IF port.snd.count = 0 /\ ~port.snd_stopped THEN s ELSE port
           q == wri_chr(port, ch)
<1>0. snd_bufsz \in Nat \ {0} /\ port.snd.count \in Nat
  BY SerialAssumption DEF IsRing, RingOK
<1>1. /\ IsPort(s) /\ SameBuffers(s, port) /\ s.rcv_fc_chr = port.rcv_fc_chr
      /\ s.cbr = IF Writable(port) THEN port.cbr ELSE port.cbr \cup {"SND"}
  BY SndChr
<1>2. q = IF AtOnce(port) THEN u ELSE [u EXCEPT !.snd = Store(@, snd_bufsz, ch)]
  BY DEF wri_chr
<1> HIDE DEF s, q
<1>3. /\ IsPort(u) /\ SameBuffers(u, port) /\ u.rcv_fc_chr = port.rcv_fc_chr
      /\ "SND" \in port.cbr => "SND" \in u.cbr
  BY <1>1 DEF SameBuffers
<1>4. port.snd.count = 0 /\ ~port.snd_stopped /\ ~Writable(port) => "SND" \in u.cbr
  BY <1>1
<1> HIDE DEF u
<1>5. SameReceiver(u, port) /\ u.snd = port.snd /\ u.snd_sem = port.snd_sem
      /\ u.snd_stopped = port.snd_stopped
  BY <1>3 DEF SameBuffers, SameReceiver
<1>6. CASE AtOnce(port)
  <2>1. q = u /\ ~Fills(port)
    BY <1>2, <1>6 DEF Fills
  <2>2. CallbackOn(q)
    BY <1>3, <1>5, <2>1 DEF CallbackOn
  <2> QED BY <1>3, <1>5, <2>1, <2>2 DEF q
<1>7. CASE ~AtOnce(port)
  <2> DEFINE r == Store(port.snd, snd_bufsz, ch)
  <2>1. q = [u EXCEPT !.snd = r]
    BY <1>2, <1>5, <1>7
  <2>2. IsRing(r, snd_bufsz) /\ r.count = port.snd.count + 1
    BY <1>0, Stored
  <2> HIDE DEF r
  <2>3. /\ IsPort(q) /\ SameReceiver(q, port) /\ q.snd_sem = port.snd_sem
        /\ q.snd = r /\ q.cbr = u.cbr
    BY <1>3, <1>5, <2>1 DEF IsPort, SameReceiver
  <2>4. CallbackOn(q)
    <3>1. port.snd.count # 0 \/ port.snd_stopped \/ ~Writable(port)
      BY <1>7 DEF AtOnce
    <3>2. port.snd.count # 0 => port.snd.count > 0
      BY <1>0
    <3>3. q.snd_stopped = port.snd_stopped /\ q.rcv_fc_chr = port.rcv_fc_chr
      BY <2>3 DEF SameReceiver
    <3> QED BY <1>3, <1>4, <2>3, <3>1, <3>2, <3>3 DEF CallbackOn
  <2>5. q.snd.count = snd_bufsz <=> Fills(port)
    BY <1>7, <2>2, <2>3 DEF Fills
  <2> QED BY <2>2, <2>3, <2>4, <2>5 DEF q
<1> QED BY <1>6, <1>7

\* send_first passes on the permit if the buffer was full.
LEMMA SendFirst ==
  ASSUME NEW port, IsPort(port), IsRing(port.snd, snd_bufsz), port.snd.count # 0,
         NEW W \in SUBSET Task, SemOK(port.snd_sem, W, port.snd.count = snd_bufsz)
  PROVE  LET q == send_first(port) IN
         /\ IsPort(q) /\ SameReceiver(q, port) /\ q.cbr = port.cbr
         /\ IsRing(q.snd, snd_bufsz) /\ q.snd.count = port.snd.count - 1
         /\ SemOK(q.snd_sem, W, q.snd.count = snd_bufsz)
         /\ \A y \in Task : Contains(q.snd_sem.queue, y) => Contains(port.snd_sem.queue, y)
<1> DEFINE s == sio_snd_chr(port, First(port.snd))
           u == IF port.snd.count = snd_bufsz THEN sig_sem(s, "snd_sem") ELSE s
           r == Drop(port.snd, snd_bufsz)
           q == send_first(port)
<1>0. snd_bufsz \in Nat \ {0} /\ port.snd.count \in 0 .. snd_bufsz
  BY SerialAssumption DEF IsRing, RingOK
<1>1. /\ IsPort(s) /\ SameReceiver(s, port) /\ s.cbr = port.cbr
      /\ s.snd = port.snd /\ s.snd_sem = port.snd_sem
  <2>1. s = [port EXCEPT !.tx = First(port.snd)]
    BY DEF sio_snd_chr
  <2> HIDE DEF s
  <2> QED BY <2>1 DEF IsPort, SameReceiver
<1>2. q = [u EXCEPT !.snd = Drop(@, snd_bufsz)]
  BY DEF send_first
<1> HIDE DEF s, q
<1>3. /\ IsPort(u) /\ SameReceiver(u, port) /\ u.cbr = port.cbr /\ u.snd = port.snd
      /\ SemOK(u.snd_sem, W, FALSE)
      /\ \A y \in Task : Contains(u.snd_sem.queue, y) => Contains(port.snd_sem.queue, y)
  <2>1. CASE port.snd.count = snd_bufsz
    <3>1. SemOK(port.snd_sem, W, TRUE)
      BY <2>1
    <3>2. /\ port.snd_sem.queue # <<>> \/ port.snd_sem.cnt = 0
          /\ SemOK(Signalled(port.snd_sem), W, FALSE)
          /\ \A y \in Task : Contains(Signalled(port.snd_sem).queue, y) =>
                                Contains(port.snd_sem.queue, y)
      BY <3>1, Passed
    <3>3. /\ IsPort(u) /\ SameReceiver(u, s) /\ u.snd_sem = Signalled(s.snd_sem)
          /\ u.snd = s.snd /\ u.cbr = s.cbr
      BY <1>1, <2>1, <3>2, SigSnd
    <3> HIDE DEF u
    <3>4. SameReceiver(u, port)
      BY <1>1, <3>3 DEF SameReceiver
    <3> QED BY <1>1, <3>2, <3>3, <3>4
  <2>2. CASE port.snd.count # snd_bufsz
    <3>1. SemOK(port.snd_sem, W, FALSE)
      BY <2>2
    <3> QED BY <1>1, <2>2, <3>1
  <2> QED BY <2>1, <2>2
<1> HIDE DEF u
<1>4. IsRing(r, snd_bufsz) /\ r.count = port.snd.count - 1
  BY <1>0, Dropped
<1>5. r.count # snd_bufsz
  BY <1>0, <1>4
<1>6. q = [u EXCEPT !.snd = r]
  BY <1>2, <1>3
<1> HIDE DEF r
<1>7. /\ IsPort(q) /\ SameReceiver(q, port) /\ q.cbr = port.cbr
      /\ q.snd = r /\ q.snd_sem = u.snd_sem
  BY <1>3, <1>6 DEF IsPort, SameReceiver
<1>8. SemOK(q.snd_sem, W, q.snd.count = snd_bufsz)
  BY <1>3, <1>5, <1>7
<1> QED BY <1>3, <1>4, <1>7, <1>8 DEF q

-----------------------------------------------------------------------------
(* Calls. *)

LEMMA IdleOK == CallOK(Idle) /\ ~InSnd(Idle) /\ ~InRcv(Idle)
BY DEF CallOK, Idle, InSnd, InRcv

\* The call of t becomes c.
Becomes(cc1, cc, t, c) == cc1 = [cc EXCEPT ![t] = c]

\* A step of one call changes the regions by that call.
LEMMA OneCall ==
  ASSUME NEW cc, CallsOK(cc), NEW t \in Task, NEW c, CallOK(c),
         NEW cc1, Becomes(cc1, cc, t, c)
  PROVE  /\ CallsOK(cc1)
         /\ cc1[t] = c /\ \A u \in Task : u # t => cc1[u] = cc[u]
         /\ SndCalls(cc1) = IF InSnd(c) THEN SndCalls(cc) \cup {t} ELSE SndCalls(cc) \ {t}
         /\ RcvCalls(cc1) = IF InRcv(c) THEN RcvCalls(cc) \cup {t} ELSE RcvCalls(cc) \ {t}
<1>1. cc1[t] = c /\ \A u \in Task : u # t => cc1[u] = cc[u]
  BY DEF CallsOK, Becomes
<1>2. CallsOK(cc1)
  <2>1. cc1 = [u \in Task |-> cc1[u]]
    BY DEF CallsOK, Becomes
  <2>2. \A u \in Task : CallOK(cc1[u])
    BY <1>1 DEF CallsOK
  <2> QED BY <2>1, <2>2 DEF CallsOK
<1>3. SndCalls(cc1) = IF InSnd(c) THEN SndCalls(cc) \cup {t} ELSE SndCalls(cc) \ {t}
  <2>1. \A u \in Task : InSnd(cc1[u]) <=> IF u = t THEN InSnd(c) ELSE InSnd(cc[u])
    BY <1>1
  <2> QED BY <2>1 DEF SndCalls
<1>4. RcvCalls(cc1) = IF InRcv(c) THEN RcvCalls(cc) \cup {t} ELSE RcvCalls(cc) \ {t}
  <2>1. \A u \in Task : InRcv(cc1[u]) <=> IF u = t THEN InRcv(c) ELSE InRcv(cc[u])
    BY <1>1
  <2> QED BY <2>1 DEF RcvCalls
<1> QED BY <1>1, <1>2, <1>3, <1>4

\* A call whose characters are written is in the region of the receive buffer
\* if it reads and has not emptied it.
LEMMA ResumedOK ==
  ASSUME NEW c, CallOK(c), c.op # "none"
  PROVE  /\ CallOK(Resumed(c)) /\ ~InSnd(Resumed(c))
         /\ InRcv(Resumed(c)) <=> c.op = "read" /\ ~c.empty
<1> DEFINE d == Resumed(c)
<1>1. CASE c.op = "write"
  <2>1. d = Idle
    BY <1>1 DEF Resumed
  <2> QED BY <1>1, <2>1, IdleOK
<1>2. CASE c.op # "write"
  <2>0. c.op = "read" /\ c.empty \in BOOLEAN /\ DOMAIN c = {"op", "pc", "str", "len", "empty", "c"}
    BY <1>2 DEF CallOK
  <2>1. CASE c.len > 0
    <3>1. d = [c EXCEPT !.pc = IF c.empty THEN "rwai" ELSE "rea", !.str = <<>>]
      BY <1>2, <2>1 DEF Resumed
    <3> HIDE DEF d
    <3>2. /\ DOMAIN d = {"op", "pc", "str", "len", "empty", "c"}
          /\ d.op = "read" /\ d.empty = c.empty /\ d.pc = IF c.empty THEN "rwai" ELSE "rea"
      BY <2>0, <3>1
    <3>3. CallOK(d) /\ ~InSnd(d) /\ (InRcv(d) <=> ~c.empty)
      BY <2>0, <3>2 DEF CallOK, InSnd, InRcv
    <3> QED BY <2>0, <3>3 DEF d
  <2>2. CASE ~(c.len > 0) /\ c.empty
    <3>1. d = [c EXCEPT !.pc = "ret", !.str = <<>>]
      BY <1>2, <2>2 DEF Resumed
    <3> HIDE DEF d
    <3>2. /\ DOMAIN d = {"op", "pc", "str", "len", "empty", "c"}
          /\ d.op = "read" /\ d.empty = c.empty /\ d.pc = "ret"
      BY <2>0, <3>1
    <3>3. CallOK(d) /\ ~InSnd(d) /\ ~InRcv(d)
      BY <2>0, <2>2, <3>2 DEF CallOK, InSnd, InRcv
    <3> QED BY <2>0, <2>2, <3>3 DEF d
  <2>3. CASE ~(c.len > 0) /\ ~c.empty
    <3>1. d = [c EXCEPT !.pc = "rsig", !.str = <<>>]
      BY <1>2, <2>3 DEF Resumed
    <3> HIDE DEF d
    <3>2. /\ DOMAIN d = {"op", "pc", "str", "len", "empty", "c"}
          /\ d.op = "read" /\ d.empty = c.empty /\ d.pc = "rsig"
      BY <2>0, <3>1
    <3>3. CallOK(d) /\ ~InSnd(d) /\ InRcv(d)
      BY <2>0, <2>3, <3>2 DEF CallOK, InSnd, InRcv
    <3> QED BY <2>0, <2>3, <3>3 DEF d
  <2> QED BY <2>1, <2>2, <2>3
<1> QED BY <1>1, <1>2

\* After a character the call keeps the permit of the send buffer if it has
\* not filled it.
LEMMA WrittenOK ==
  ASSUME NEW c, CallOK(c), c.pc \in {"chr", "lf"}, NEW full \in BOOLEAN
  PROVE  LET w == Written(c, full) IN
         /\ CallOK(w) /\ (InSnd(w) <=> ~full) /\ (InRcv(w) <=> InRcv(c))
<1> DEFINE d == [c EXCEPT !.str = Tail(@)]
           w == Written(c, full)
<1>0. /\ c.op \in {"write", "read"} /\ c.empty \in BOOLEAN /\ (c.op = "write" => c.empty)
      /\ DOMAIN c = {"op", "pc", "str", "len", "empty", "c"}
      /\ InRcv(c) <=> c.op = "read" /\ ~c.empty
  BY DEF CallOK, InRcv
<1>1. /\ DOMAIN d = {"op", "pc", "str", "len", "empty", "c"}
      /\ d.op = c.op /\ d.empty = c.empty /\ d.pc = c.pc
  BY <1>0
<1>2. w = IF d.str # <<>> THEN [d EXCEPT !.pc = IF full THEN "wai" ELSE "chr"]
          ELSE IF full THEN Resumed(d) ELSE [d EXCEPT !.pc = "sig"]
  BY DEF Written
<1> HIDE DEF d, w
<1>3. CallOK(d)
  BY <1>0, <1>1 DEF CallOK
<1>4. ASSUME NEW pc \in {"wai", "chr", "sig"}, w = [d EXCEPT !.pc = pc]
      PROVE  CallOK(w) /\ (InSnd(w) <=> pc # "wai") /\ (InRcv(w) <=> InRcv(c))
  <2>1. /\ DOMAIN w = {"op", "pc", "str", "len", "empty", "c"}
        /\ w.op = c.op /\ w.empty = c.empty /\ w.pc = pc
    BY <1>1, <1>4
  <2>2. CallOK(w)
    BY <1>0, <2>1 DEF CallOK
  <2> QED BY <1>0, <2>1, <2>2 DEF InSnd, InRcv
<1>5. CASE d.str # <<>>
  BY <1>2, <1>4, <1>5 DEF w
<1>6. CASE d.str = <<>> /\ full
  <2>1. w = Resumed(d)
    BY <1>2, <1>6
  <2>2. CallOK(w) /\ ~InSnd(w) /\ (InRcv(w) <=> d.op = "read" /\ ~d.empty)
    BY <1>0, <1>1, <1>3, <2>1, ResumedOK
  <2> QED BY <1>0, <1>1, <1>6, <2>2 DEF w
<1>7. CASE d.str = <<>> /\ ~full
  BY <1>2, <1>4, <1>7 DEF w
<1> QED BY <1>5, <1>6, <1>7
-----------------------------------------------------------------------------
(* The steps of a task, in an open port. *)

\* What a task that is to take a step is known to be.
LEMMA Runner ==
  ASSUME OpenOK(p, call), NEW t \in Task, NEW pc, Runs(t, pc)
  PROVE  /\ CallOK(call[t]) /\ call[t].pc = pc /\ DOMAIN call = Task
         /\ ~Contains(p.rcv_sem.queue, t) /\ ~Contains(p.snd_sem.queue, t)
         /\ t \in SndCalls(call) <=> InSnd(call[t])
         /\ t \in RcvCalls(call) <=> InRcv(call[t])
         /\ SndCalls(call) \in SUBSET Task /\ RcvCalls(call) \in SUBSET Task
<1>1. CallOK(call[t]) /\ DOMAIN call = Task
  BY DEF OpenOK, CallsOK
<1>2. call[t].pc = pc /\ ~Contains(p.rcv_sem.queue, t) /\ ~Contains(p.snd_sem.queue, t)
  BY DEF Runs, Waits
<1> QED BY <1>1, <1>2 DEF SndCalls, RcvCalls

\* The queues are right after a step of t that puts no other task into one.
LEMMA QueuedAfter ==
  ASSUME NEW port, NEW cc, QueuedOK(port, cc), NEW t \in Task, NEW q, NEW cc1,
         \A u \in Task : u # t => cc1[u] = cc[u],
         \A u \in Task : u # t /\ Contains(q.snd_sem.queue, u)
                            => Contains(port.snd_sem.queue, u),
         \A u \in Task : u # t /\ Contains(q.rcv_sem.queue, u)
                            => Contains(port.rcv_sem.queue, u),
         Contains(q.snd_sem.queue, t) => cc1[t].pc \in {"chr", "lf"},
         Contains(q.rcv_sem.queue, t) => cc1[t].pc = "rea" /\ cc1[t].empty
  PROVE  QueuedOK(q, cc1)
BY DEF QueuedOK

\* A task comes into the region of the send buffer.
LEMMA WaiSndStep ==
  ASSUME OpenOK(p, call), NEW t \in Task, wai_snd_sem(t)
  PROVE  OpenOK(p', call') /\ p'.openflag = p.openflag
<1> DEFINE pc == call[t].pc
           c  == [call[t] EXCEPT !.pc = IF @ = "wai" THEN "chr" ELSE "lf"]
<1>1. /\ CallOK(call[t]) /\ pc \in {"wai", "crwai"} /\ DOMAIN call = Task
      /\ ~Contains(p.rcv_sem.queue, t) /\ ~Contains(p.snd_sem.queue, t)
      /\ t \in SndCalls(call) <=> InSnd(call[t])
      /\ t \in RcvCalls(call) <=> InRcv(call[t])
      /\ SndCalls(call) \in SUBSET Task /\ RcvCalls(call) \in SUBSET Task
  BY Runner DEF wai_snd_sem
<1>2. Becomes(call', call, t, c) /\ p' = wai_sem(p, "snd_sem", t)
  BY <1>1 DEF wai_snd_sem, Becomes
<1>3. c.pc \in {"chr", "lf"} /\ c.op = call[t].op /\ c.empty = call[t].empty
      /\ DOMAIN c = {"op", "pc", "str", "len", "empty", "c"}
  BY <1>1 DEF CallOK
<1> HIDE DEF c
<1>4. CallOK(c) /\ InSnd(c) /\ ~InSnd(call[t]) /\ (InRcv(c) <=> InRcv(call[t]))
  BY <1>1, <1>3 DEF CallOK, InSnd, InRcv
<1>5. /\ CallsOK(call') /\ call'[t] = c /\ \A u \in Task : u # t => call'[u] = call[u]
      /\ SndCalls(call') = SndCalls(call) \cup {t} /\ t \notin SndCalls(call)
      /\ RcvCalls(call') = RcvCalls(call)
  <2>1. CallsOK(call)
    BY DEF OpenOK
  <2>2. /\ CallsOK(call') /\ call'[t] = c /\ \A u \in Task : u # t => call'[u] = call[u]
        /\ SndCalls(call') = (IF InSnd(c) THEN SndCalls(call) \cup {t} ELSE SndCalls(call) \ {t})
        /\ RcvCalls(call') = (IF InRcv(c) THEN RcvCalls(call) \cup {t} ELSE RcvCalls(call) \ {t})
    BY <1>2, <1>4, <2>1, OneCall
  <2> QED BY <1>1, <1>4, <2>2
<1>6. /\ IsPort(p') /\ SameReceiver(p', p)
      /\ p'.snd_sem = Awaited(p.snd_sem, t)
      /\ p'.snd = p.snd /\ p'.cbr = p.cbr
  <2>1. IsPort(p)
    BY DEF OpenOK
  <2> QED BY <1>2, <2>1, WaiSnd
<1>7. /\ SemOK(p'.snd_sem, SndCalls(call'), p.snd.count = snd_bufsz)
      /\ \A y \in Task : Contains(p'.snd_sem.queue, y) =>
                               Contains(p.snd_sem.queue, y) \/ y = t
  <2>0. PICK cb \in BOOLEAN : cb = (p.snd.count = snd_bufsz)
    OBVIOUS
  <2>1. SemOK(p.snd_sem, SndCalls(call), cb)
    BY <2>0 DEF OpenOK, SemsOK
  <2>2. t \in Task \ SndCalls(call)
    BY <1>5
  <2>3. /\ SemOK(Awaited(p.snd_sem, t), SndCalls(call) \cup {t}, cb)
        /\ \A y \in Task : Contains(Awaited(p.snd_sem, t).queue, y) =>
                               Contains(p.snd_sem.queue, y) \/ y = t
    BY <1>1, <2>1, <2>2, Claimed
  <2> QED BY <1>5, <1>6, <2>0, <2>3
<1>8. p'.openflag = p.openflag /\ p'.rcv_sem = p.rcv_sem /\ p'.rcv = p.rcv
      /\ p'.errorflag = p.errorflag /\ p'.rcv_fc_chr = p.rcv_fc_chr
      /\ p'.snd_stopped = p.snd_stopped
  BY <1>6 DEF SameReceiver
<1>9. QueuedOK(p', call')
  <2>1. QueuedOK(p, call)
    BY DEF OpenOK
  <2> QED BY <1>1, <1>3, <1>5, <1>7, <1>8, <2>1, QueuedAfter
<1>10. SemsOK(p', call')
  BY <1>5, <1>6, <1>7, <1>8 DEF OpenOK, SemsOK
<1>11. CallbackOn(p')
  BY <1>6, <1>8 DEF OpenOK, CallbackOn
<1> QED BY <1>5, <1>6, <1>8, <1>9, <1>10, <1>11 DEF OpenOK
\* A task comes into the region of the receive buffer.
LEMMA WaiRcvStep ==
  ASSUME OpenOK(p, call), NEW t \in Task, wai_rcv_sem(t)
  PROVE  OpenOK(p', call') /\ p'.openflag = p.openflag
<1> DEFINE c == [call[t] EXCEPT !.pc = "rea"]
<1>1. /\ CallOK(call[t]) /\ call[t].pc = "rwai" /\ DOMAIN call = Task
      /\ ~Contains(p.rcv_sem.queue, t) /\ ~Contains(p.snd_sem.queue, t)
      /\ t \in SndCalls(call) <=> InSnd(call[t])
      /\ t \in RcvCalls(call) <=> InRcv(call[t])
      /\ SndCalls(call) \in SUBSET Task /\ RcvCalls(call) \in SUBSET Task
  BY Runner DEF wai_rcv_sem
<1>2. Becomes(call', call, t, c) /\ p' = wai_sem(p, "rcv_sem", t)
  BY <1>1 DEF wai_rcv_sem, Becomes
<1>3. c.pc = "rea" /\ c.op = call[t].op /\ c.empty = call[t].empty
      /\ DOMAIN c = {"op", "pc", "str", "len", "empty", "c"}
  BY <1>1 DEF CallOK
<1> HIDE DEF c
<1>4. /\ CallOK(c) /\ ~InSnd(c) /\ ~InSnd(call[t]) /\ InRcv(c) /\ ~InRcv(call[t])
      /\ c.empty = TRUE
  BY <1>1, <1>3 DEF CallOK, InSnd, InRcv
<1>5. /\ CallsOK(call') /\ call'[t] = c /\ \A u \in Task : u # t => call'[u] = call[u]
      /\ RcvCalls(call') = RcvCalls(call) \cup {t} /\ t \notin RcvCalls(call)
      /\ SndCalls(call') = SndCalls(call)
  <2>1. CallsOK(call)
    BY DEF OpenOK
  <2>2. /\ CallsOK(call') /\ call'[t] = c /\ \A u \in Task : u # t => call'[u] = call[u]
        /\ SndCalls(call') = (IF InSnd(c) THEN SndCalls(call) \cup {t} ELSE SndCalls(call) \ {t})
        /\ RcvCalls(call') = (IF InRcv(c) THEN RcvCalls(call) \cup {t} ELSE RcvCalls(call) \ {t})
    BY <1>2, <1>4, <2>1, OneCall
  <2> QED BY <1>1, <1>4, <2>2
<1>6. /\ IsPort(p') /\ p'.rcv_sem = Awaited(p.rcv_sem, t)
      /\ p'.openflag = p.openflag /\ p'.errorflag = p.errorflag
      /\ p'.rcv = p.rcv /\ p'.rcv_fc_chr = p.rcv_fc_chr
      /\ p'.snd = p.snd /\ p'.snd_stopped = p.snd_stopped
      /\ p'.snd_sem = p.snd_sem /\ p'.cbr = p.cbr
  <2>1. IsPort(p)
    BY DEF OpenOK
  <2> QED BY <1>2, <2>1, WaiRcv
<1>7. /\ SemOK(p'.rcv_sem, RcvCalls(call'), p.rcv.count = 0)
      /\ \A y \in Task : Contains(p'.rcv_sem.queue, y) =>
                               Contains(p.rcv_sem.queue, y) \/ y = t
  <2>0. PICK cb \in BOOLEAN : cb = (p.rcv.count = 0)
    OBVIOUS
  <2>1. SemOK(p.rcv_sem, RcvCalls(call), cb)
    BY <2>0 DEF OpenOK, SemsOK
  <2>2. t \in Task \ RcvCalls(call)
    BY <1>5
  <2>3. /\ SemOK(Awaited(p.rcv_sem, t), RcvCalls(call) \cup {t}, cb)
        /\ \A y \in Task : Contains(Awaited(p.rcv_sem, t).queue, y) =>
                               Contains(p.rcv_sem.queue, y) \/ y = t
    BY <1>1, <2>1, <2>2, Claimed
  <2> QED BY <1>5, <1>6, <2>0, <2>3
<1>8. QueuedOK(p', call')
  <2>1. QueuedOK(p, call)
    BY DEF OpenOK
  <2> QED BY <1>1, <1>3, <1>4, <1>5, <1>6, <1>7, <2>1, QueuedAfter
<1>9. SemsOK(p', call')
  BY <1>5, <1>6, <1>7 DEF OpenOK, SemsOK
<1>10. CallbackOn(p')
  BY <1>6 DEF OpenOK, CallbackOn
<1> QED BY <1>5, <1>6, <1>8, <1>9, <1>10 DEF OpenOK

\* A task that has the permit of the send buffer writes a character, and
\* leaves the permit to the callback if it has filled the buffer.
LEMMA WritesStep ==
  ASSUME OpenOK(p, call), NEW t \in Task, NEW pc \in {"chr", "lf"}, Runs(t, pc),
         NEW ch, p' = wri_chr(p, ch), NEW c, CallOK(c), Becomes(call', call, t, c),
         InSnd(c) <=> ~Fills(p), InRcv(c) <=> InRcv(call[t])
  PROVE  OpenOK(p', call') /\ p'.openflag = p.openflag
<1>1. /\ CallOK(call[t]) /\ call[t].pc = pc
      /\ ~Contains(p.rcv_sem.queue, t) /\ ~Contains(p.snd_sem.queue, t)
      /\ t \in SndCalls(call) /\ (t \in RcvCalls(call) <=> InRcv(call[t]))
      /\ SndCalls(call) \in SUBSET Task /\ RcvCalls(call) \in SUBSET Task
  BY Runner DEF InSnd
<1>2. /\ CallsOK(call') /\ \A u \in Task : u # t => call'[u] = call[u]
      /\ SndCalls(call') = (IF Fills(p) THEN SndCalls(call) \ {t} ELSE SndCalls(call))
      /\ RcvCalls(call') = RcvCalls(call)
  <2>1. CallsOK(call)
    BY DEF OpenOK
  <2>2. /\ CallsOK(call') /\ \A u \in Task : u # t => call'[u] = call[u]
        /\ SndCalls(call') = (IF InSnd(c) THEN SndCalls(call) \cup {t} ELSE SndCalls(call) \ {t})
        /\ RcvCalls(call') = (IF InRcv(c) THEN RcvCalls(call) \cup {t} ELSE RcvCalls(call) \ {t})
    BY <2>1, OneCall
  <2> QED BY <1>1, <2>2
<1>3. p.snd.count # snd_bufsz /\ SemOK(p.snd_sem, SndCalls(call), FALSE)
  <2>1. PICK cb \in BOOLEAN : cb = (p.snd.count = snd_bufsz)
    OBVIOUS
  <2>2. SemOK(p.snd_sem, SndCalls(call), cb)
    BY <2>1 DEF OpenOK, SemsOK
  <2>3. cb = FALSE
    BY <1>1, <2>2 DEF SemOK, NoneHas
  <2> QED BY <2>1, <2>2, <2>3
<1>4. /\ IsPort(p') /\ SameReceiver(p', p) /\ p'.snd_sem = p.snd_sem
      /\ CallbackOn(p') /\ IsRing(p'.snd, snd_bufsz)
      /\ p'.snd.count = snd_bufsz <=> Fills(p)
  <2>1. IsPort(p) /\ CallbackOn(p) /\ IsRing(p.snd, snd_bufsz)
    BY DEF OpenOK
  <2> QED BY <1>3, <2>1, WriChr
<1>5. p'.openflag = p.openflag /\ p'.rcv_sem = p.rcv_sem /\ p'.rcv = p.rcv
      /\ p'.errorflag = p.errorflag
  BY <1>4 DEF SameReceiver
<1>6. SemOK(p'.snd_sem, SndCalls(call'), p'.snd.count = snd_bufsz)
  <2>1. CASE Fills(p)
    <3>1. SemOK(p.snd_sem, SndCalls(call) \ {t}, TRUE)
      BY <1>1, <1>3, LeftToCallback
    <3>2. (p'.snd.count = snd_bufsz) = TRUE
      BY <1>4, <2>1
    <3> QED BY <1>2, <1>4, <2>1, <3>1, <3>2
  <2>2. CASE ~Fills(p)
    <3>1. (p'.snd.count = snd_bufsz) = FALSE
      BY <1>4, <2>2
    <3> QED BY <1>2, <1>3, <1>4, <2>2, <3>1
  <2> QED BY <2>1, <2>2
<1>7. SemOK(p'.rcv_sem, RcvCalls(call'), p'.rcv.count = 0)
  BY <1>2, <1>5 DEF OpenOK, SemsOK
<1>8. QueuedOK(p', call')
  <2>1. QueuedOK(p, call)
    BY DEF OpenOK
  <2> QED BY <1>1, <1>2, <1>4, <1>5, <2>1, QueuedAfter
<1> QED BY <1>2, <1>4, <1>5, <1>6, <1>7, <1>8 DEF OpenOK, SemsOK

LEMMA WriChrStep ==
  ASSUME OpenOK(p, call), NEW t \in Task, serial_wri_chr(t)
  PROVE  OpenOK(p', call') /\ p'.openflag = p.openflag
<1> DEFINE ch == Head(call[t].str)
<1>1. PICK f \in BOOLEAN : f <=> Fills(p)
  OBVIOUS
<1>2. ASSUME Runs(t, "chr"), p' = wri_chr(p, CR),
             call' = [call EXCEPT ![t].pc = IF Fills(p) THEN "crwai" ELSE "lf"]
      PROVE  OpenOK(p', call') /\ p'.openflag = p.openflag
  <2> DEFINE c == [call[t] EXCEPT !.pc = IF Fills(p) THEN "crwai" ELSE "lf"]
  <2>1. CallOK(call[t]) /\ call[t].pc = "chr" /\ DOMAIN call = Task
    BY <1>2, Runner
  <2>2. Becomes(call', call, t, c)
    BY <1>2, <2>1 DEF Becomes
  <2>3. /\ c.pc = (IF Fills(p) THEN "crwai" ELSE "lf") /\ c.op = call[t].op
        /\ c.empty = call[t].empty /\ DOMAIN c = {"op", "pc", "str", "len", "empty", "c"}
    BY <2>1 DEF CallOK
  <2> HIDE DEF c
  <2>4. CallOK(c) /\ (InSnd(c) <=> ~Fills(p)) /\ (InRcv(c) <=> InRcv(call[t]))
    BY <2>1, <2>3 DEF CallOK, InSnd, InRcv
  <2> QED BY <1>2, <2>2, <2>4, WritesStep
<1>3. ASSUME NEW pc \in {"chr", "lf"}, Runs(t, pc), p' = wri_chr(p, ch),
             call' = [call EXCEPT ![t] = Written(@, Fills(p))]
      PROVE  OpenOK(p', call') /\ p'.openflag = p.openflag
  <2> DEFINE c == Written(call[t], f)
  <2>1. CallOK(call[t]) /\ call[t].pc = pc /\ DOMAIN call = Task
    BY <1>3, Runner
  <2>2. Becomes(call', call, t, c)
    <3>1. f = Fills(p)
      BY <1>1 DEF Fills
    <3> QED BY <1>3, <3>1 DEF Becomes
  <2>3. CallOK(c) /\ (InSnd(c) <=> ~f) /\ (InRcv(c) <=> InRcv(call[t]))
    BY <2>1, WrittenOK
  <2> HIDE DEF c, ch
  <2> QED BY <1>1, <1>3, <2>2, <2>3, WritesStep
<1> QED BY <1>2, <1>3 DEF serial_wri_chr

\* A task gives the permit of the send buffer back.
LEMMA SigSndStep ==
  ASSUME OpenOK(p, call), NEW t \in Task, sig_snd_sem(t)
  PROVE  OpenOK(p', call') /\ p'.openflag = p.openflag
<1> DEFINE c == Resumed(call[t])
<1>1. /\ CallOK(call[t]) /\ call[t].pc = "sig"
      /\ ~Contains(p.rcv_sem.queue, t) /\ ~Contains(p.snd_sem.queue, t)
      /\ t \in SndCalls(call) /\ (t \in RcvCalls(call) <=> InRcv(call[t]))
      /\ SndCalls(call) \in SUBSET Task /\ RcvCalls(call) \in SUBSET Task
  BY Runner DEF InSnd, sig_snd_sem
<1>2. Becomes(call', call, t, c) /\ p' = sig_sem(p, "snd_sem")
  BY DEF sig_snd_sem, Becomes
<1>3. CallOK(c) /\ ~InSnd(c) /\ (InRcv(c) <=> InRcv(call[t]))
  <2>1. call[t].op # "none" /\ (InRcv(call[t]) <=> call[t].op = "read" /\ ~call[t].empty)
    BY <1>1 DEF CallOK, InRcv
  <2> QED BY <1>1, <2>1, ResumedOK
<1> HIDE DEF c
<1>4. /\ CallsOK(call') /\ \A u \in Task : u # t => call'[u] = call[u]
      /\ SndCalls(call') = SndCalls(call) \ {t} /\ RcvCalls(call') = RcvCalls(call)
  <2>1. CallsOK(call)
    BY DEF OpenOK
  <2>2. /\ CallsOK(call') /\ \A u \in Task : u # t => call'[u] = call[u]
        /\ SndCalls(call') = (IF InSnd(c) THEN SndCalls(call) \cup {t} ELSE SndCalls(call) \ {t})
        /\ RcvCalls(call') = (IF InRcv(c) THEN RcvCalls(call) \cup {t} ELSE RcvCalls(call) \ {t})
    BY <1>2, <1>3, <2>1, OneCall
  <2> QED BY <1>1, <1>3, <2>2
<1>5. /\ p.snd.count # snd_bufsz
      /\ p.snd_sem.queue # <<>> \/ p.snd_sem.cnt = 0
      /\ SemOK(Signalled(p.snd_sem), SndCalls(call) \ {t}, FALSE)
      /\ \A y \in Task : Contains(Signalled(p.snd_sem).queue, y) => Contains(p.snd_sem.queue, y)
  <2>1. PICK cb \in BOOLEAN : cb = (p.snd.count = snd_bufsz)
    OBVIOUS
  <2>2. SemOK(p.snd_sem, SndCalls(call), cb)
    BY <2>1 DEF OpenOK, SemsOK
  <2> QED BY <1>1, <2>1, <2>2, GivenBack
<1>6. /\ IsPort(p') /\ SameReceiver(p', p) /\ p'.snd_sem = Signalled(p.snd_sem)
      /\ p'.snd = p.snd /\ p'.cbr = p.cbr
  <2>1. IsPort(p)
    BY DEF OpenOK
  <2> QED BY <1>2, <1>5, <2>1, SigSnd
<1>7. p'.openflag = p.openflag /\ p'.rcv_sem = p.rcv_sem /\ p'.rcv = p.rcv
      /\ p'.errorflag = p.errorflag /\ p'.rcv_fc_chr = p.rcv_fc_chr
      /\ p'.snd_stopped = p.snd_stopped
  BY <1>6 DEF SameReceiver
<1>8. SemOK(p'.snd_sem, SndCalls(call'), p'.snd.count = snd_bufsz)
  <2>1. (p'.snd.count = snd_bufsz) = FALSE
    BY <1>5, <1>6
  <2> QED BY <1>4, <1>5, <1>6, <2>1
<1>9. SemOK(p'.rcv_sem, RcvCalls(call'), p'.rcv.count = 0)
  BY <1>4, <1>7 DEF OpenOK, SemsOK
<1>10. QueuedOK(p', call')
  <2>1. QueuedOK(p, call)
    BY DEF OpenOK
  <2> QED BY <1>1, <1>4, <1>5, <1>6, <1>7, <2>1, QueuedAfter
<1>11. CallbackOn(p')
  BY <1>6, <1>7 DEF OpenOK, CallbackOn
<1> QED BY <1>4, <1>6, <1>7, <1>8, <1>9, <1>10, <1>11 DEF OpenOK, SemsOK

\* A task gives the permit of the receive buffer back.
LEMMA SigRcvStep ==
  ASSUME OpenOK(p, call), NEW t \in Task, sig_rcv_sem(t)
  PROVE  OpenOK(p', call') /\ p'.openflag = p.openflag
<1>1. /\ CallOK(call[t]) /\ call[t].pc = "rsig"
      /\ ~Contains(p.rcv_sem.queue, t) /\ ~Contains(p.snd_sem.queue, t)
      /\ t \notin SndCalls(call) /\ t \in RcvCalls(call)
      /\ SndCalls(call) \in SUBSET Task /\ RcvCalls(call) \in SUBSET Task
  BY Runner DEF InSnd, InRcv, sig_rcv_sem
<1>2. Becomes(call', call, t, Idle) /\ p' = sig_sem(p, "rcv_sem")
  BY DEF sig_rcv_sem, Becomes
<1>3. /\ CallsOK(call') /\ \A u \in Task : u # t => call'[u] = call[u]
      /\ SndCalls(call') = SndCalls(call) /\ RcvCalls(call') = RcvCalls(call) \ {t}
  <2>1. CallsOK(call)
    BY DEF OpenOK
  <2>2. /\ CallsOK(call') /\ \A u \in Task : u # t => call'[u] = call[u]
        /\ SndCalls(call') = (IF InSnd(Idle) THEN SndCalls(call) \cup {t} ELSE SndCalls(call) \ {t})
        /\ RcvCalls(call') = (IF InRcv(Idle) THEN RcvCalls(call) \cup {t} ELSE RcvCalls(call) \ {t})
    BY <1>2, <2>1, IdleOK, OneCall
  <2> QED BY <1>1, <2>2, IdleOK
<1>4. /\ p.rcv.count # 0
      /\ p.rcv_sem.queue # <<>> \/ p.rcv_sem.cnt = 0
      /\ SemOK(Signalled(p.rcv_sem), RcvCalls(call) \ {t}, FALSE)
      /\ \A y \in Task : Contains(Signalled(p.rcv_sem).queue, y) => Contains(p.rcv_sem.queue, y)
  <2>1. PICK cb \in BOOLEAN : cb = (p.rcv.count = 0)
    OBVIOUS
  <2>2. SemOK(p.rcv_sem, RcvCalls(call), cb)
    BY <2>1 DEF OpenOK, SemsOK
  <2> QED BY <1>1, <2>1, <2>2, GivenBack
<1>5. /\ IsPort(p') /\ p'.rcv_sem = Signalled(p.rcv_sem)
      /\ p'.openflag = p.openflag /\ p'.errorflag = p.errorflag
      /\ p'.rcv = p.rcv /\ p'.rcv_fc_chr = p.rcv_fc_chr
      /\ p'.snd = p.snd /\ p'.snd_stopped = p.snd_stopped
      /\ p'.snd_sem = p.snd_sem /\ p'.cbr = p.cbr
  <2>1. IsPort(p)
    BY DEF OpenOK
  <2> QED BY <1>2, <1>4, <2>1, SigRcv
<1>6. SemOK(p'.rcv_sem, RcvCalls(call'), p'.rcv.count = 0)
  <2>1. (p'.rcv.count = 0) = FALSE
    BY <1>4, <1>5
  <2> QED BY <1>3, <1>4, <1>5, <2>1
<1>7. SemOK(p'.snd_sem, SndCalls(call'), p'.snd.count = snd_bufsz)
  BY <1>3, <1>5 DEF OpenOK, SemsOK
<1>8. QueuedOK(p', call')
  <2>1. QueuedOK(p, call)
    BY DEF OpenOK
  <2> QED BY <1>1, <1>3, <1>4, <1>5, <2>1, QueuedAfter
<1>9. CallbackOn(p')
  BY <1>5 DEF OpenOK, CallbackOn
<1> QED BY <1>3, <1>5, <1>6, <1>7, <1>8, <1>9 DEF OpenOK, SemsOK

\* A reader that has emptied the buffer has no permit to give back.
LEMMA RetStep ==
  ASSUME OpenOK(p, call), NEW t \in Task, return_empty(t)
  PROVE  OpenOK(p', call') /\ p'.openflag = p.openflag
<1>1. /\ CallOK(call[t]) /\ call[t].pc = "ret"
      /\ ~Contains(p.rcv_sem.queue, t) /\ ~Contains(p.snd_sem.queue, t)
      /\ t \in SndCalls(call) <=> InSnd(call[t])
      /\ t \in RcvCalls(call) <=> InRcv(call[t])
  BY Runner DEF return_empty
<1>2. t \notin SndCalls(call) /\ t \notin RcvCalls(call)
  BY <1>1 DEF CallOK, InSnd, InRcv
<1>3. Becomes(call', call, t, Idle) /\ p' = p
  BY DEF return_empty, Becomes
<1>4. CallsOK(call) /\ QueuedOK(p, call)
  BY DEF OpenOK
<1>5. /\ CallsOK(call') /\ \A u \in Task : u # t => call'[u] = call[u]
      /\ SndCalls(call') = SndCalls(call) /\ RcvCalls(call') = RcvCalls(call)
  <2>1. /\ CallsOK(call') /\ \A u \in Task : u # t => call'[u] = call[u]
        /\ SndCalls(call') = (IF InSnd(Idle) THEN SndCalls(call) \cup {t} ELSE SndCalls(call) \ {t})
        /\ RcvCalls(call') = (IF InRcv(Idle) THEN RcvCalls(call) \cup {t} ELSE RcvCalls(call) \ {t})
    BY <1>3, <1>4, IdleOK, OneCall
  <2> QED BY <1>2, <2>1, IdleOK
<1>6. QueuedOK(p', call')
  BY <1>1, <1>3, <1>4, <1>5, QueuedAfter
<1>7. SemsOK(p', call')
  BY <1>3, <1>5 DEF OpenOK, SemsOK
<1> QED BY <1>3, <1>5, <1>6, <1>7 DEF OpenOK

\* A reader takes a character, and leaves the permit of the receive buffer to
\* the callback if it has emptied the buffer.
LEMMA ReaChrStep ==
  ASSUME OpenOK(p, call), NEW t \in Task, serial_rea_chr(t)
  PROVE  OpenOK(p', call') /\ p'.openflag = p.openflag
<1> DEFINE ch == First(p.rcv)
           r  == Drop(p.rcv, rcv_bufsz)
           p1 == [p EXCEPT !.rcv = Drop(@, rcv_bufsz)]
           d  == [call[t] EXCEPT !.len = @ - 1, !.empty = p1.rcv.count = 0, !.c = ch]
           c  == IF "ECHO" \in p.ioctl THEN [d EXCEPT !.pc = "wai", !.str = <<ch>>]
                                       ELSE Resumed(d)
<1>1. /\ CallOK(call[t]) /\ call[t].pc = "rea"
      /\ ~Contains(p.rcv_sem.queue, t) /\ ~Contains(p.snd_sem.queue, t)
      /\ t \notin SndCalls(call) /\ t \in RcvCalls(call)
      /\ SndCalls(call) \in SUBSET Task /\ RcvCalls(call) \in SUBSET Task
  BY Runner DEF InSnd, InRcv, serial_rea_chr
<1>2. p.rcv.count # 0 /\ SemOK(p.rcv_sem, RcvCalls(call), FALSE)
  <2>1. PICK cb \in BOOLEAN : cb = (p.rcv.count = 0)
    OBVIOUS
  <2>2. SemOK(p.rcv_sem, RcvCalls(call), cb)
    BY <2>1 DEF OpenOK, SemsOK
  <2>3. cb = FALSE
    BY <1>1, <2>2 DEF SemOK, NoneHas
  <2> QED BY <2>1, <2>2, <2>3
<1>3. IsRing(r, rcv_bufsz)
  BY <1>2, SerialAssumption, Dropped DEF OpenOK
<1>4. /\ IsPort(p1) /\ p1.rcv = r /\ CallbackOn(p1)
      /\ p1.openflag = p.openflag /\ p1.errorflag = p.errorflag
      /\ p1.snd = p.snd /\ p1.rcv_sem = p.rcv_sem /\ p1.snd_sem = p.snd_sem
  <2> HIDE DEF r
  <2>1. /\ IsPort(p1) /\ p1.rcv = Drop(p.rcv, rcv_bufsz)
        /\ p1.openflag = p.openflag /\ p1.errorflag = p.errorflag
        /\ p1.snd = p.snd /\ p1.rcv_sem = p.rcv_sem /\ p1.snd_sem = p.snd_sem
        /\ p1.snd_stopped = p.snd_stopped /\ p1.cbr = p.cbr /\ p1.rcv_fc_chr = p.rcv_fc_chr
    BY DEF IsPort, OpenOK
  <2> HIDE DEF p1
  <2>2. CallbackOn(p1)
    BY <2>1 DEF CallbackOn, OpenOK
  <2> QED BY <2>1, <2>2 DEF r
<1>5. Becomes(call', call, t, c)
  BY DEF serial_rea_chr, Becomes
<1>6. /\ p' = p1 \/ p' = [send_fc(p1, FC_START) EXCEPT !.rcv_stopped = FALSE]
  BY DEF serial_rea_chr
<1>7. PICK e \in BOOLEAN : e = (r.count = 0)
  OBVIOUS
<1>8. /\ DOMAIN d = {"op", "pc", "str", "len", "empty", "c"}
      /\ d.op = "read" /\ d.pc = "rea" /\ d.empty = e
  <2>1. DOMAIN call[t] = {"op", "pc", "str", "len", "empty", "c"} /\ call[t].op = "read"
    BY <1>1 DEF CallOK
  <2>2. d = [call[t] EXCEPT !.len = @ - 1, !.empty = e, !.c = ch]
    BY <1>4, <1>7
  <2> HIDE DEF d, ch
  <2> QED BY <1>1, <2>1, <2>2
<1> HIDE DEF p1, r, d
<1>9. CallOK(c) /\ ~InSnd(c) /\ (InRcv(c) <=> ~e)
  <2>1. CallOK(d)
    BY <1>8 DEF CallOK
  <2>2. CASE "ECHO" \in p.ioctl
    <3>1. c = [d EXCEPT !.pc = "wai", !.str = <<ch>>]
      BY <2>2
    <3> HIDE DEF c, ch
    <3>2. /\ DOMAIN c = {"op", "pc", "str", "len", "empty", "c"}
          /\ c.op = "read" /\ c.pc = "wai" /\ c.empty = e
      BY <1>8, <3>1
    <3> QED BY <3>2 DEF CallOK, InSnd, InRcv
  <2>3. CASE "ECHO" \notin p.ioctl
    <3>1. c = Resumed(d)
      BY <2>3
    <3> HIDE DEF c
    <3> QED BY <1>8, <2>1, <3>1, ResumedOK
  <2> QED BY <2>2, <2>3
<1> HIDE DEF c
<1>10. /\ CallsOK(call') /\ \A u \in Task : u # t => call'[u] = call[u]
       /\ SndCalls(call') = SndCalls(call)
       /\ RcvCalls(call') = (IF e THEN RcvCalls(call) \ {t} ELSE RcvCalls(call))
  <2>1. CallsOK(call)
    BY DEF OpenOK
  <2>2. /\ CallsOK(call') /\ \A u \in Task : u # t => call'[u] = call[u]
        /\ SndCalls(call') = (IF InSnd(c) THEN SndCalls(call) \cup {t} ELSE SndCalls(call) \ {t})
        /\ RcvCalls(call') = (IF InRcv(c) THEN RcvCalls(call) \cup {t} ELSE RcvCalls(call) \ {t})
    BY <1>5, <1>9, <2>1, OneCall
  <2> QED BY <1>1, <1>9, <2>2
<1>11. IsPort(p') /\ SameBuffers(p', p1) /\ CallbackOn(p')
  <2>1. CASE p' = p1
    BY <1>4, <2>1 DEF SameBuffers
  <2>2. CASE p' = [send_fc(p1, FC_START) EXCEPT !.rcv_stopped = FALSE]
    <3> DEFINE s == send_fc(p1, FC_START)
    <3>1. IsPort(s) /\ SameBuffers(s, p1) /\ CallbackOn(s)
      BY <1>4, SendFc
    <3>2. p' = [s EXCEPT !.rcv_stopped = FALSE]
      BY <2>2
    <3> HIDE DEF s
    <3>3. /\ IsPort(p') /\ SameBuffers(p', s)
          /\ p'.cbr = s.cbr /\ p'.rcv_fc_chr = s.rcv_fc_chr
      BY <3>1, <3>2 DEF IsPort, SameBuffers
    <3> QED BY <3>1, <3>3 DEF SameBuffers, CallbackOn
  <2> QED BY <1>6, <2>1, <2>2
<1>12. /\ p'.openflag = p.openflag /\ p'.errorflag = p.errorflag
       /\ p'.rcv = r /\ p'.snd = p.snd
       /\ p'.rcv_sem = p.rcv_sem /\ p'.snd_sem = p.snd_sem
  BY <1>4, <1>11 DEF SameBuffers
<1>13. SemOK(p'.rcv_sem, RcvCalls(call'), p'.rcv.count = 0)
  <2>1. CASE e
    <3>1. SemOK(p.rcv_sem, RcvCalls(call) \ {t}, TRUE)
      BY <1>1, <1>2, LeftToCallback
    <3>2. (p'.rcv.count = 0) = TRUE
      BY <1>7, <1>12, <2>1
    <3> QED BY <1>10, <1>12, <2>1, <3>1, <3>2
  <2>2. CASE ~e
    <3>1. (p'.rcv.count = 0) = FALSE
      BY <1>7, <1>12, <2>2
    <3> QED BY <1>2, <1>10, <1>12, <2>2, <3>1
  <2> QED BY <2>1, <2>2
<1>14. SemOK(p'.snd_sem, SndCalls(call'), p'.snd.count = snd_bufsz)
  BY <1>10, <1>12 DEF OpenOK, SemsOK
<1>15. QueuedOK(p', call')
  <2>1. QueuedOK(p, call)
    BY DEF OpenOK
  <2> QED BY <1>1, <1>10, <1>12, <2>1, QueuedAfter
<1> QED BY <1>3, <1>10, <1>11, <1>12, <1>13, <1>14, <1>15 DEF OpenOK, SemsOK

\* A wait that is ended takes the call out of the region it waits to enter.
\* It has no other permit, unless it is a reader that echoes.
LEMMA RelWaiStep ==
  ASSUME EchoReleases = FALSE, OpenOK(p, call), NEW t \in Task, rel_wai(t)
  PROVE  OpenOK(p', call') /\ p'.openflag = p.openflag
<1>1. /\ CallOK(call[t]) /\ DOMAIN call = Task
      /\ t \in SndCalls(call) <=> InSnd(call[t])
      /\ t \in RcvCalls(call) <=> InRcv(call[t])
      /\ SndCalls(call) \in SUBSET Task /\ RcvCalls(call) \in SUBSET Task
      /\ Contains(p.snd_sem.queue, t) => call[t].pc \in {"chr", "lf"}
      /\ Contains(p.rcv_sem.queue, t) => call[t].pc = "rea" /\ call[t].empty
  BY DEF OpenOK, CallsOK, QueuedOK, SndCalls, RcvCalls
<1>2. Contains(p.snd_sem.queue, t) \/ Contains(p.rcv_sem.queue, t)
  BY DEF rel_wai, Waits
<1>3. ~KeepsPermit(t)
  BY DEF rel_wai
<1>4. /\ Becomes(call', call, t, Idle)
      /\ p' = [p EXCEPT !.rcv_sem = [p.rcv_sem EXCEPT !.queue = RemoveFirst(@, t)],
                        !.snd_sem = [p.snd_sem EXCEPT !.queue = RemoveFirst(@, t)]]
  BY DEF rel_wai, Becomes
<1>5. /\ IsPort(p')
      /\ p'.openflag = p.openflag /\ p'.errorflag = p.errorflag
      /\ p'.rcv = p.rcv /\ p'.rcv_fc_chr = p.rcv_fc_chr
      /\ p'.snd = p.snd /\ p'.snd_stopped = p.snd_stopped /\ p'.cbr = p.cbr
      /\ Without(p'.snd_sem, p.snd_sem, t) /\ Without(p'.rcv_sem, p.rcv_sem, t)
  BY <1>4 DEF OpenOK, IsPort, Without
<1>6. /\ CallsOK(call') /\ \A u \in Task : u # t => call'[u] = call[u]
      /\ SndCalls(call') = SndCalls(call) \ {t} /\ RcvCalls(call') = RcvCalls(call) \ {t}
  <2>1. CallsOK(call)
    BY DEF OpenOK
  <2>2. /\ CallsOK(call') /\ \A u \in Task : u # t => call'[u] = call[u]
        /\ SndCalls(call') = (IF InSnd(Idle) THEN SndCalls(call) \cup {t} ELSE SndCalls(call) \ {t})
        /\ RcvCalls(call') = (IF InRcv(Idle) THEN RcvCalls(call) \cup {t} ELSE RcvCalls(call) \ {t})
    BY <1>4, <2>1, IdleOK, OneCall
  <2> QED BY <2>2, IdleOK
<1>7. t \in SndCalls(call) => Contains(p.snd_sem.queue, t)
  BY <1>1, <1>2 DEF InSnd
<1>8. t \in RcvCalls(call) => Contains(p.rcv_sem.queue, t)
  BY <1>1, <1>2, <1>3 DEF InRcv, KeepsPermit
<1>9. /\ SemOK(p'.snd_sem, SndCalls(call'), p'.snd.count = snd_bufsz)
      /\ \A y \in Task : Contains(p'.snd_sem.queue, y) <=> Contains(p.snd_sem.queue, y) /\ y # t
  <2>1. PICK cb \in BOOLEAN : cb = (p.snd.count = snd_bufsz)
    OBVIOUS
  <2>2. SemOK(p.snd_sem, SndCalls(call), cb)
    BY <2>1 DEF OpenOK, SemsOK
  <2>3. /\ SemOK(p'.snd_sem, SndCalls(call) \ {t}, cb)
        /\ \A y \in Task : Contains(p'.snd_sem.queue, y) <=> Contains(p.snd_sem.queue, y) /\ y # t
    <3>1. SndCalls(call) \in SUBSET Task /\ Without(p'.snd_sem, p.snd_sem, t)
      BY <1>1, <1>5
    <3>2. PICK sem : sem = p.snd_sem
      OBVIOUS
    <3>3. PICK a : a = p'.snd_sem
      OBVIOUS
    <3>4. PICK W \in SUBSET Task : W = SndCalls(call)
      BY <3>1
    <3>5. SemOK(sem, W, cb)
      BY <2>2, <3>2, <3>4
    <3>6. WaitsIn(sem, W, t)
      BY <1>7, <3>2, <3>4 DEF WaitsIn
    <3>7. Without(a, sem, t)
      BY <3>1, <3>2, <3>3
    <3>8. SemOK(a, W \ {t}, cb) /\ OthersIn(a, sem, t)
      BY <3>5, <3>6, <3>7, GaveUp
    <3> QED BY <3>2, <3>3, <3>4, <3>8 DEF OthersIn
  <2> QED BY <1>5, <1>6, <2>1, <2>3
<1>10. /\ SemOK(p'.rcv_sem, RcvCalls(call'), p'.rcv.count = 0)
       /\ \A y \in Task : Contains(p'.rcv_sem.queue, y) <=> Contains(p.rcv_sem.queue, y) /\ y # t
  <2>1. PICK cb \in BOOLEAN : cb = (p.rcv.count = 0)
    OBVIOUS
  <2>2. SemOK(p.rcv_sem, RcvCalls(call), cb)
    BY <2>1 DEF OpenOK, SemsOK
  <2>3. /\ SemOK(p'.rcv_sem, RcvCalls(call) \ {t}, cb)
        /\ \A y \in Task : Contains(p'.rcv_sem.queue, y) <=> Contains(p.rcv_sem.queue, y) /\ y # t
    <3>1. RcvCalls(call) \in SUBSET Task /\ Without(p'.rcv_sem, p.rcv_sem, t)
      BY <1>1, <1>5
    <3>2. PICK sem : sem = p.rcv_sem
      OBVIOUS
    <3>3. PICK a : a = p'.rcv_sem
      OBVIOUS
    <3>4. PICK W \in SUBSET Task : W = RcvCalls(call)
      BY <3>1
    <3>5. SemOK(sem, W, cb)
      BY <2>2, <3>2, <3>4
    <3>6. WaitsIn(sem, W, t)
      BY <1>8, <3>2, <3>4 DEF WaitsIn
    <3>7. Without(a, sem, t)
      BY <3>1, <3>2, <3>3
    <3>8. SemOK(a, W \ {t}, cb) /\ OthersIn(a, sem, t)
      BY <3>5, <3>6, <3>7, GaveUp
    <3> QED BY <3>2, <3>3, <3>4, <3>8 DEF OthersIn
  <2> QED BY <1>5, <1>6, <2>1, <2>3
<1>11. QueuedOK(p', call')
  <2>1. QueuedOK(p, call)
    BY DEF OpenOK
  <2> QED BY <1>6, <1>9, <1>10, <2>1, QueuedAfter
<1>12. CallbackOn(p')
  BY <1>5 DEF OpenOK, CallbackOn
<1> QED BY <1>5, <1>6, <1>9, <1>10, <1>11, <1>12 DEF OpenOK, SemsOK
-----------------------------------------------------------------------------
(* Opening, closing and setting, and the callbacks. *)

\* Nobody is in a region while all calls are idle.
LEMMA AllIdle ==
  ASSUME NEW cc, cc = [t \in Task |-> Idle]
  PROVE  CallsOK(cc) /\ SndCalls(cc) = {} /\ RcvCalls(cc) = {}
<1>1. \A t \in Task : cc[t] = Idle
  OBVIOUS
<1>2. CallsOK(cc)
  <2>1. cc = [t \in Task |-> cc[t]]
    OBVIOUS
  <2> QED BY <1>1, <2>1, IdleOK DEF CallsOK
<1>3. SndCalls(cc) = {} /\ RcvCalls(cc) = {}
  BY <1>1, IdleOK DEF SndCalls, RcvCalls
<1> QED BY <1>2, <1>3

\* An empty ring is a ring.
LEMMA EmptyRingOK ==
  ASSUME NEW n \in Nat \ {0}
  PROVE  IsRing(EmptyRing(n), n) /\ EmptyRing(n).count = 0
<1>1. 0 % n = 0
  BY SMT
<1>2. 0 + 0 = 0
  BY SMT
<1> QED BY <1>1, <1>2 DEF IsRing, RingOK, EmptyRing

\* The semaphores of a closed port are those of one nobody has used.
LEMMA OpnPorStep ==
  ASSUME ClosedOK(p, call), serial_opn_por
  PROVE  OpenOK(p', call') /\ p'.openflag
<1>1. call' = call /\ call = [t \in Task |-> Idle]
  BY DEF ClosedOK, serial_opn_por
<1>2. p' = [ClosedPort EXCEPT !.openflag = TRUE, !.ioctl = DefaultIoctl,
                              !.rcv_sem = p.rcv_sem, !.snd_sem = p.snd_sem,
                              !.cbr = p.cbr \cup {"RCV"}, !.tx = p.tx]
  BY DEF serial_opn_por
<1>3. /\ p'.openflag = TRUE /\ p'.errorflag = FALSE /\ p'.snd_stopped = FALSE
      /\ p'.rcv = EmptyRing(rcv_bufsz) /\ p'.snd = EmptyRing(snd_bufsz)
      /\ p'.rcv_fc_chr = NUL /\ p'.rcv_sem = p.rcv_sem /\ p'.snd_sem = p.snd_sem
      /\ IsPort(p')
  BY <1>2 DEF ClosedPort, IsPort
<1>4. /\ p.rcv_sem = [cnt |-> 0, queue |-> <<>>]
      /\ p.snd_sem = [cnt |-> 1, queue |-> <<>>]
  BY DEF ClosedOK, ClosedPort
<1>5. CallsOK(call') /\ SndCalls(call') = {} /\ RcvCalls(call') = {}
  BY <1>1, AllIdle
<1>6. /\ IsRing(p'.snd, snd_bufsz) /\ p'.snd.count = 0 /\ snd_bufsz # 0
      /\ IsRing(p'.rcv, rcv_bufsz) /\ p'.rcv.count = 0
  BY <1>3, EmptyRingOK, SerialAssumption
<1>7. /\ <<>> \in Seq(Task) /\ IsInjective(<<>>) /\ \A t \in Task : ~Contains(<<>>, t)
  BY DEF IsInjective, Contains
<1>8. SemOK(p'.snd_sem, SndCalls(call'), p'.snd.count = snd_bufsz)
  <2>1. SemOK(p.snd_sem, {}, FALSE)
    BY <1>4, <1>7 DEF SemOK, NoneHas
  <2>2. (p'.snd.count = snd_bufsz) = FALSE
    BY <1>6
  <2> QED BY <1>3, <1>5, <2>1, <2>2
<1>9. SemOK(p'.rcv_sem, RcvCalls(call'), p'.rcv.count = 0)
  <2>1. SemOK(p.rcv_sem, {}, TRUE)
    BY <1>4, <1>7 DEF SemOK, NoneHas
  <2>2. (p'.rcv.count = 0) = TRUE
    BY <1>6
  <2> QED BY <1>3, <1>5, <2>1, <2>2
<1>10. QueuedOK(p', call')
  BY <1>3, <1>4, <1>7 DEF QueuedOK
<1>11. CallbackOn(p')
  BY <1>3, <1>6 DEF CallbackOn
<1> QED BY <1>3, <1>5, <1>6, <1>8, <1>9, <1>10, <1>11 DEF OpenOK, SemsOK

LEMMA ClsPorStep ==
  ASSUME OpenOK(p, call), serial_cls_por
  PROVE  ClosedOK(p', call') /\ ~p'.openflag
<1>1. /\ p' = [p EXCEPT !.openflag = FALSE, !.rcv_sem = ClosedPort.rcv_sem,
                        !.snd_sem = ClosedPort.snd_sem]
      /\ call' = [t \in Task |-> Idle] /\ IsPort(p)
  BY DEF OpenOK, serial_cls_por
<1>2. /\ p'.openflag = FALSE /\ p'.snd_sem = ClosedPort.snd_sem
      /\ p'.rcv_sem = ClosedPort.rcv_sem /\ IsPort(p')
  BY <1>1 DEF IsPort
<1> QED BY <1>1, <1>2 DEF ClosedOK

\* A step that leaves calls, buffers and permits alone.
LEMMA QuietStep ==
  ASSUME OpenOK(p, call), call' = call, IsPort(p'), SameBuffers(p', p), CallbackOn(p')
  PROVE  OpenOK(p', call') /\ p'.openflag = p.openflag
<1>1. /\ p'.openflag = p.openflag /\ p'.errorflag = p.errorflag
      /\ p'.rcv = p.rcv /\ p'.snd = p.snd
      /\ p'.rcv_sem = p.rcv_sem /\ p'.snd_sem = p.snd_sem
  BY DEF SameBuffers
<1> QED BY <1>1 DEF OpenOK, QueuedOK, SemsOK

\* A callback sends: the calls stay, and the receiving side.
LEMMA SendsStep ==
  ASSUME OpenOK(p, call), call' = call, IsPort(p'),
         p'.openflag = p.openflag, p'.errorflag = p.errorflag,
         p'.rcv = p.rcv, p'.rcv_sem = p.rcv_sem, CallbackOn(p'),
         IsRing(p'.snd, snd_bufsz),
         SemOK(p'.snd_sem, SndCalls(call), p'.snd.count = snd_bufsz),
         \A y \in Task : Contains(p'.snd_sem.queue, y) => Contains(p.snd_sem.queue, y)
  PROVE  OpenOK(p', call')
<1>1. QueuedOK(p', call')
  BY DEF OpenOK, QueuedOK
<1>2. SemsOK(p', call')
  BY DEF OpenOK, SemsOK
<1> QED BY <1>1, <1>2 DEF OpenOK

\* The port sends the first character of the send buffer, which is not empty.
LEMMA SendFirstStep ==
  ASSUME OpenOK(p, call), NEW port, IsPort(port), p.snd.count # 0,
         port.snd = p.snd, port.snd_sem = p.snd_sem
  PROVE  LET q == send_first(port) IN
         /\ IsPort(q) /\ SameReceiver(q, port) /\ q.cbr = port.cbr
         /\ IsRing(q.snd, snd_bufsz) /\ q.snd.count = p.snd.count - 1
         /\ SemOK(q.snd_sem, SndCalls(call), q.snd.count = snd_bufsz)
         /\ \A y \in Task : Contains(q.snd_sem.queue, y) => Contains(p.snd_sem.queue, y)
<1>1. SemOK(p.snd_sem, SndCalls(call), p.snd.count = snd_bufsz) /\ IsRing(p.snd, snd_bufsz)
  BY DEF OpenOK, SemsOK
<1>2. PICK W \in SUBSET Task : W = SndCalls(call)
  BY DEF SndCalls
<1>3. SemOK(port.snd_sem, W, port.snd.count = snd_bufsz) /\ IsRing(port.snd, snd_bufsz)
  BY <1>1, <1>2
<1>4. PICK q : q = send_first(port)
  OBVIOUS
<1>5. /\ IsPort(q) /\ SameReceiver(q, port) /\ q.cbr = port.cbr
      /\ IsRing(q.snd, snd_bufsz) /\ q.snd.count = port.snd.count - 1
      /\ SemOK(q.snd_sem, W, q.snd.count = snd_bufsz)
      /\ \A y \in Task : Contains(q.snd_sem.queue, y) => Contains(port.snd_sem.queue, y)
  BY <1>3, <1>4, SendFirst
<1> QED BY <1>2, <1>4, <1>5

\* The transmitter has become free.
LEMMA IrdySndStep ==
  ASSUME OpenOK(p, call), sio_irdy_snd
  PROVE  OpenOK(p', call') /\ p'.openflag = p.openflag
<1>1. call' = call /\ "SND" \in p.cbr /\ IsPort(p) /\ CallbackOn(p)
  BY DEF OpenOK, sio_irdy_snd
<1>2. CASE p.rcv_fc_chr # NUL
  <2> DEFINE s == sio_snd_chr(p, p.rcv_fc_chr)
  <2>1. p' = [s EXCEPT !.rcv_fc_chr = NUL] /\ s = [p EXCEPT !.tx = p.rcv_fc_chr]
    BY <1>2 DEF sio_irdy_snd, sio_snd_chr
  <2> HIDE DEF s
  <2>2. IsPort(s) /\ SameBuffers(s, p) /\ s.cbr = p.cbr
    BY <1>1, <2>1 DEF IsPort, SameBuffers
  <2>3. IsPort(p') /\ SameBuffers(p', p) /\ p'.cbr = p.cbr
    BY <2>1, <2>2 DEF IsPort, SameBuffers
  <2>4. CallbackOn(p')
    BY <1>1, <2>3 DEF CallbackOn
  <2> QED BY <1>1, <2>3, <2>4, QuietStep
<1>3. CASE p.rcv_fc_chr = NUL /\ ~p.snd_stopped /\ p.snd.count > 0
  <2>1. p' = send_first(p) /\ p.snd.count # 0
    BY <1>3 DEF sio_irdy_snd
  <2>2. /\ IsPort(p') /\ SameReceiver(p', p) /\ p'.cbr = p.cbr
        /\ IsRing(p'.snd, snd_bufsz)
        /\ SemOK(p'.snd_sem, SndCalls(call), p'.snd.count = snd_bufsz)
        /\ \A y \in Task : Contains(p'.snd_sem.queue, y) => Contains(p.snd_sem.queue, y)
    BY <1>1, <2>1, SendFirstStep
  <2>3. CallbackOn(p')
    BY <1>1, <2>2 DEF CallbackOn
  <2>4. /\ p'.openflag = p.openflag /\ p'.errorflag = p.errorflag
        /\ p'.rcv = p.rcv /\ p'.rcv_sem = p.rcv_sem
    BY <2>2 DEF SameReceiver
  <2> QED BY <1>1, <2>2, <2>3, <2>4, SendsStep
<1>4. CASE p.rcv_fc_chr = NUL /\ ~(~p.snd_stopped /\ p.snd.count > 0)
  <2>1. p' = [p EXCEPT !.cbr = p.cbr \ {"SND"}]
    BY <1>4 DEF sio_irdy_snd
  <2>2. IsPort(p') /\ SameBuffers(p', p) /\ p'.rcv_fc_chr = p.rcv_fc_chr
    BY <1>1, <2>1 DEF IsPort, SameBuffers
  <2>3. CallbackOn(p')
    BY <1>4, <2>2 DEF CallbackOn, SameBuffers
  <2> QED BY <1>1, <2>2, <2>3, QuietStep
<1> QED BY <1>2, <1>3, <1>4

\* A START lets the send buffer go on.
LEMMA RestartedStep ==
  ASSUME OpenOK(p, call), call' = call, p' = Restarted
  PROVE  OpenOK(p', call') /\ p'.openflag = p.openflag
<1> DEFINE p1 == [p EXCEPT !.snd_stopped = FALSE]
           p2 == IF Writable(p1) THEN send_first(p1) ELSE p1
<1>1. IsPort(p) /\ CallbackOn(p) /\ p.snd.count \in 0 .. snd_bufsz
  BY DEF OpenOK, IsRing, RingOK
<1>2. /\ p' = IF p.snd.count = 0 THEN p1
              ELSE IF p2.snd.count = 0 THEN p2
              ELSE [p2 EXCEPT !.cbr = @ \cup {"SND"}]
  BY DEF Restarted
<1>3. /\ IsPort(p1) /\ p1.openflag = p.openflag /\ p1.errorflag = p.errorflag
      /\ p1.rcv = p.rcv /\ p1.rcv_sem = p.rcv_sem /\ p1.rcv_fc_chr = p.rcv_fc_chr
      /\ p1.snd = p.snd /\ p1.snd_sem = p.snd_sem /\ p1.cbr = p.cbr
  BY <1>1 DEF IsPort
<1>4. /\ IsRing(p.snd, snd_bufsz)
      /\ SemOK(p.snd_sem, SndCalls(call), p.snd.count = snd_bufsz)
  BY DEF OpenOK, SemsOK
<1> HIDE DEF p1
<1>5. CASE p.snd.count = 0
  <2>1. p' = p1
    BY <1>2, <1>5
  <2>2. CallbackOn(p')
    BY <1>1, <1>3, <1>5, <2>1 DEF CallbackOn
  <2> QED BY <1>3, <1>4, <2>1, <2>2, SendsStep
<1>6. CASE p.snd.count # 0
  <2>1. /\ IsPort(p2) /\ p2.openflag = p.openflag /\ p2.errorflag = p.errorflag
        /\ p2.rcv = p.rcv /\ p2.rcv_sem = p.rcv_sem /\ p2.rcv_fc_chr = p.rcv_fc_chr
        /\ p2.cbr = p.cbr
        /\ IsRing(p2.snd, snd_bufsz)
        /\ SemOK(p2.snd_sem, SndCalls(call), p2.snd.count = snd_bufsz)
        /\ \A y \in Task : Contains(p2.snd_sem.queue, y) => Contains(p.snd_sem.queue, y)
    <3>1. CASE Writable(p1)
      <4> DEFINE q == send_first(p1)
      <4>1. /\ IsPort(q) /\ SameReceiver(q, p1) /\ q.cbr = p1.cbr
            /\ IsRing(q.snd, snd_bufsz)
            /\ SemOK(q.snd_sem, SndCalls(call), q.snd.count = snd_bufsz)
            /\ \A y \in Task : Contains(q.snd_sem.queue, y) => Contains(p.snd_sem.queue, y)
        BY <1>3, <1>6, SendFirstStep
      <4>2. p2 = q
        BY <3>1
      <4> HIDE DEF q, p2
      <4> QED BY <1>3, <4>1, <4>2 DEF SameReceiver
    <3>2. CASE ~Writable(p1)
      BY <1>3, <1>4, <3>2
    <3> QED BY <3>1, <3>2
  <2> HIDE DEF p2
  <2>2. CASE p2.snd.count = 0
    <3>1. p' = p2
      BY <1>2, <1>6, <2>2
    <3>2. CallbackOn(p')
      BY <1>1, <2>1, <2>2, <3>1 DEF CallbackOn
    <3> QED BY <2>1, <3>1, <3>2, SendsStep
  <2>3. CASE p2.snd.count # 0
    <3>1. p' = [p2 EXCEPT !.cbr = p2.cbr \cup {"SND"}]
      BY <1>2, <1>6, <2>3
    <3>2. /\ IsPort(p') /\ p'.openflag = p.openflag /\ p'.errorflag = p.errorflag
          /\ p'.rcv = p.rcv /\ p'.rcv_sem = p.rcv_sem
          /\ p'.snd = p2.snd /\ p'.snd_sem = p2.snd_sem /\ "SND" \in p'.cbr
      BY <2>1, <3>1 DEF IsPort
    <3>3. CallbackOn(p')
      BY <3>2 DEF CallbackOn
    <3>4. /\ IsRing(p'.snd, snd_bufsz)
          /\ SemOK(p'.snd_sem, SndCalls(call), p'.snd.count = snd_bufsz)
          /\ \A y \in Task : Contains(p'.snd_sem.queue, y) => Contains(p.snd_sem.queue, y)
      BY <2>1, <3>2
    <3> QED BY <3>2, <3>3, <3>4, SendsStep
  <2> QED BY <2>2, <2>3
<1> QED BY <1>5, <1>6

\* A character comes into the receive buffer, which is not full.  The first one
\* brings the permit that the callback has had while the buffer was empty.
LEMMA ReceivedStep ==
  ASSUME OpenOK(p, call), call' = call, NEW ch, p' = Received(ch), p.rcv.count # rcv_bufsz
  PROVE  OpenOK(p', call') /\ p'.openflag = p.openflag
<1> DEFINE p1 == IF p.rcv.count = 0 THEN sig_sem(p, "rcv_sem") ELSE p
           r  == Store(p.rcv, rcv_bufsz, ch)
           p2 == [p1 EXCEPT !.rcv = Store(@, rcv_bufsz, ch)]
<1>1. /\ IsPort(p) /\ CallbackOn(p) /\ IsRing(p.rcv, rcv_bufsz)
      /\ p.rcv.count \in 0 .. rcv_bufsz /\ rcv_bufsz \in Nat \ {0}
      /\ SemOK(p.rcv_sem, RcvCalls(call), p.rcv.count = 0)
  BY SerialAssumption DEF OpenOK, IsRing, RingOK, SemsOK
<1>2. \/ p' = p2
      \/ p' = [send_fc(p2, FC_STOP) EXCEPT !.rcv_stopped = TRUE]
  BY DEF Received
<1>3. /\ IsPort(p1) /\ p1.rcv = p.rcv
      /\ p1.openflag = p.openflag /\ p1.errorflag = p.errorflag
      /\ p1.rcv_fc_chr = p.rcv_fc_chr /\ p1.snd = p.snd
      /\ p1.snd_stopped = p.snd_stopped /\ p1.snd_sem = p.snd_sem /\ p1.cbr = p.cbr
      /\ SemOK(p1.rcv_sem, RcvCalls(call), FALSE)
      /\ \A y \in Task : Contains(p1.rcv_sem.queue, y) => Contains(p.rcv_sem.queue, y)
  <2>1. CASE p.rcv.count = 0
    <3>1. PICK W \in SUBSET Task : W = RcvCalls(call)
      BY DEF RcvCalls
    <3>2. SemOK(p.rcv_sem, W, TRUE)
      BY <1>1, <2>1, <3>1
    <3>3. /\ p.rcv_sem.queue # <<>> \/ p.rcv_sem.cnt = 0
          /\ SemOK(Signalled(p.rcv_sem), W, FALSE)
          /\ \A y \in Task : Contains(Signalled(p.rcv_sem).queue, y) =>
                                Contains(p.rcv_sem.queue, y)
      BY <3>2, Passed
    <3> DEFINE q == sig_sem(p, "rcv_sem")
    <3>4. /\ IsPort(q) /\ q.rcv_sem = Signalled(p.rcv_sem)
          /\ q.openflag = p.openflag /\ q.errorflag = p.errorflag
          /\ q.rcv = p.rcv /\ q.rcv_fc_chr = p.rcv_fc_chr
          /\ q.snd = p.snd /\ q.snd_stopped = p.snd_stopped
          /\ q.snd_sem = p.snd_sem /\ q.cbr = p.cbr
      BY <1>1, <3>3, SigRcv
    <3>5. p1 = q
      BY <2>1
    <3> HIDE DEF q, p1
    <3> QED BY <3>1, <3>3, <3>4, <3>5
  <2>2. CASE p.rcv.count # 0
    <3>1. SemOK(p.rcv_sem, RcvCalls(call), FALSE)
      BY <1>1, <2>2
    <3>2. p1 = p
      BY <2>2
    <3> HIDE DEF p1
    <3> QED BY <1>1, <3>1, <3>2
  <2> QED BY <2>1, <2>2
<1> HIDE DEF p1
<1>4. IsRing(r, rcv_bufsz) /\ r.count # 0
  <2>1. IsRing(r, rcv_bufsz) /\ r.count = p.rcv.count + 1
    BY <1>1, Stored
  <2> HIDE DEF r
  <2> QED BY <1>1, <2>1
<1>5. p2 = [p1 EXCEPT !.rcv = r]
  BY <1>3
<1> HIDE DEF p2, r
<1>6. /\ IsPort(p2) /\ p2.rcv = r
      /\ p2.openflag = p.openflag /\ p2.errorflag = p.errorflag
      /\ p2.snd = p.snd /\ p2.rcv_sem = p1.rcv_sem /\ p2.snd_sem = p.snd_sem
      /\ CallbackOn(p2)
  <2>1. /\ IsPort(p2) /\ p2.rcv = r
        /\ p2.openflag = p.openflag /\ p2.errorflag = p.errorflag
        /\ p2.snd = p.snd /\ p2.rcv_sem = p1.rcv_sem /\ p2.snd_sem = p.snd_sem
        /\ p2.rcv_fc_chr = p.rcv_fc_chr /\ p2.snd_stopped = p.snd_stopped /\ p2.cbr = p.cbr
    BY <1>3, <1>5 DEF IsPort
  <2> QED BY <1>1, <2>1 DEF CallbackOn
<1>7. IsPort(p') /\ SameBuffers(p', p2) /\ CallbackOn(p')
  <2>1. CASE p' = p2
    BY <1>6, <2>1 DEF SameBuffers
  <2>2. CASE p' = [send_fc(p2, FC_STOP) EXCEPT !.rcv_stopped = TRUE]
    <3> DEFINE s == send_fc(p2, FC_STOP)
    <3>1. IsPort(s) /\ SameBuffers(s, p2) /\ CallbackOn(s)
      BY <1>6, SendFc
    <3>2. p' = [s EXCEPT !.rcv_stopped = TRUE]
      BY <2>2
    <3> HIDE DEF s
    <3>3. /\ IsPort(p') /\ SameBuffers(p', s)
          /\ p'.cbr = s.cbr /\ p'.rcv_fc_chr = s.rcv_fc_chr
      BY <3>1, <3>2 DEF IsPort, SameBuffers
    <3> QED BY <3>1, <3>3 DEF SameBuffers, CallbackOn
  <2> QED BY <1>2, <2>1, <2>2
<1>8. /\ p'.openflag = p.openflag /\ p'.errorflag = p.errorflag
      /\ p'.rcv = r /\ p'.snd = p.snd
      /\ p'.rcv_sem = p1.rcv_sem /\ p'.snd_sem = p.snd_sem
  BY <1>6, <1>7 DEF SameBuffers
<1>9. SemOK(p'.rcv_sem, RcvCalls(call'), p'.rcv.count = 0)
  <2>1. (p'.rcv.count = 0) = FALSE
    BY <1>4, <1>8
  <2> QED BY <1>3, <1>8, <2>1
<1>10. SemsOK(p', call')
  BY <1>8, <1>9 DEF OpenOK, SemsOK
<1>11. QueuedOK(p', call')
  BY <1>3, <1>8 DEF OpenOK, QueuedOK
<1> QED BY <1>4, <1>7, <1>8, <1>10, <1>11 DEF OpenOK

\* A character comes in.
LEMMA IrdyRcvStep ==
  ASSUME OpenOK(p, call), NEW ch, sio_irdy_rcv(ch)
  PROVE  OpenOK(p', call') /\ p'.openflag = p.openflag
<1>1. call' = call /\ IsPort(p) /\ CallbackOn(p)
  BY DEF OpenOK, sio_irdy_rcv
<1>2. \/ p' = [p EXCEPT !.snd_stopped = TRUE]
      \/ p' = Restarted
      \/ p' = p
      \/ p.rcv.count # rcv_bufsz /\ p' = Received(ch)
  BY DEF sio_irdy_rcv
<1>3. CASE p' = [p EXCEPT !.snd_stopped = TRUE]
  <2>1. /\ IsPort(p') /\ p'.openflag = p.openflag /\ p'.errorflag = p.errorflag
        /\ p'.rcv = p.rcv /\ p'.rcv_sem = p.rcv_sem /\ p'.rcv_fc_chr = p.rcv_fc_chr
        /\ p'.snd = p.snd /\ p'.snd_sem = p.snd_sem /\ p'.cbr = p.cbr
        /\ p'.snd_stopped = TRUE
    BY <1>1, <1>3 DEF IsPort
  <2>2. CallbackOn(p')
    BY <1>1, <2>1 DEF CallbackOn
  <2>3. /\ IsRing(p.snd, snd_bufsz)
        /\ SemOK(p.snd_sem, SndCalls(call), p.snd.count = snd_bufsz)
    BY DEF OpenOK, SemsOK
  <2> QED BY <1>1, <2>1, <2>2, <2>3, SendsStep
<1>4. CASE p' = Restarted
  BY <1>1, <1>4, RestartedStep
<1>5. CASE p' = p
  BY <1>1, <1>5
<1>6. CASE p.rcv.count # rcv_bufsz /\ p' = Received(ch)
  BY <1>1, <1>6, ReceivedStep
<1> QED BY <1>2, <1>3, <1>4, <1>5, <1>6

\* A call that starts is in no region yet.
LEMMA StartsStep ==
  ASSUME OpenOK(p, call), p' = p, NEW t \in Task, call[t] = Idle,
         NEW c, CallOK(c), ~InSnd(c), ~InRcv(c), Becomes(call', call, t, c)
  PROVE  OpenOK(p', call')
<1>1. CallsOK(call) /\ QueuedOK(p, call)
  BY DEF OpenOK
<1>2. /\ CallsOK(call') /\ \A u \in Task : u # t => call'[u] = call[u]
      /\ SndCalls(call') = SndCalls(call) \ {t} /\ RcvCalls(call') = RcvCalls(call) \ {t}
  <2>1. /\ CallsOK(call') /\ \A u \in Task : u # t => call'[u] = call[u]
        /\ SndCalls(call') = (IF InSnd(c) THEN SndCalls(call) \cup {t} ELSE SndCalls(call) \ {t})
        /\ RcvCalls(call') = (IF InRcv(c) THEN RcvCalls(call) \cup {t} ELSE RcvCalls(call) \ {t})
    BY <1>1, OneCall
  <2> QED BY <2>1
<1>3. t \notin SndCalls(call) /\ t \notin RcvCalls(call)
  BY IdleOK DEF SndCalls, RcvCalls
<1>4. SndCalls(call') = SndCalls(call) /\ RcvCalls(call') = RcvCalls(call)
  BY <1>2, <1>3
<1>5. ~Contains(p.snd_sem.queue, t) /\ ~Contains(p.rcv_sem.queue, t)
  BY <1>1 DEF QueuedOK, Idle
<1>6. QueuedOK(p', call')
  BY <1>1, <1>2, <1>5, QueuedAfter
<1>7. SemsOK(p', call')
  BY <1>4 DEF OpenOK, SemsOK
<1> QED BY <1>2, <1>6, <1>7 DEF OpenOK

LEMMA WriDatStep ==
  ASSUME OpenOK(p, call), NEW t \in Task, NEW str, serial_wri_dat(t, str)
  PROVE  OpenOK(p', call') /\ p'.openflag = p.openflag
<1>1. PICK c : c = [Idle EXCEPT !.op = "write", !.pc = "wai", !.str = str]
  OBVIOUS
<1>2. call[t] = Idle /\ p' = p /\ Becomes(call', call, t, c)
  BY <1>1 DEF serial_wri_dat, Becomes
<1>3. /\ DOMAIN c = {"op", "pc", "str", "len", "empty", "c"}
      /\ c.op = "write" /\ c.pc = "wai" /\ c.empty = TRUE
  BY <1>1 DEF Idle
<1>4. CallOK(c) /\ ~InSnd(c) /\ ~InRcv(c)
  BY <1>3 DEF CallOK, InSnd, InRcv
<1> QED BY <1>2, <1>4, StartsStep

LEMMA ReaDatStep ==
  ASSUME OpenOK(p, call), NEW t \in Task, NEW len, serial_rea_dat(t, len)
  PROVE  OpenOK(p', call') /\ p'.openflag = p.openflag
<1>1. PICK c : c = [Idle EXCEPT !.op = "read", !.pc = "rwai", !.len = len]
  OBVIOUS
<1>2. call[t] = Idle /\ p' = p /\ Becomes(call', call, t, c)
  BY <1>1 DEF serial_rea_dat, Becomes
<1>3. /\ DOMAIN c = {"op", "pc", "str", "len", "empty", "c"}
      /\ c.op = "read" /\ c.pc = "rwai" /\ c.empty = TRUE
  BY <1>1 DEF Idle
<1>4. CallOK(c) /\ ~InSnd(c) /\ ~InRcv(c)
  BY <1>3 DEF CallOK, InSnd, InRcv
<1> QED BY <1>2, <1>4, StartsStep

LEMMA CtlPorStep ==
  ASSUME OpenOK(p, call), NEW ioctl, serial_ctl_por(ioctl)
  PROVE  OpenOK(p', call') /\ p'.openflag = p.openflag
<1>1. call' = call /\ p' = [p EXCEPT !.ioctl = ioctl] /\ IsPort(p) /\ CallbackOn(p)
  BY DEF OpenOK, serial_ctl_por
<1>2. /\ IsPort(p') /\ SameBuffers(p', p)
      /\ p'.cbr = p.cbr /\ p'.rcv_fc_chr = p.rcv_fc_chr
  BY <1>1 DEF IsPort, SameBuffers
<1>3. CallbackOn(p')
  BY <1>1, <1>2 DEF CallbackOn, SameBuffers
<1> QED BY <1>1, <1>2, <1>3, QuietStep

LEMMA TransmittedStep ==
  ASSUME OpenOK(p, call), transmitted
  PROVE  OpenOK(p', call') /\ p'.openflag = p.openflag
<1>1. call' = call /\ p' = [p EXCEPT !.tx = NUL] /\ IsPort(p) /\ CallbackOn(p)
  BY DEF OpenOK, transmitted
<1>2. /\ IsPort(p') /\ SameBuffers(p', p)
      /\ p'.cbr = p.cbr /\ p'.rcv_fc_chr = p.rcv_fc_chr
  BY <1>1 DEF IsPort, SameBuffers
<1>3. CallbackOn(p')
  BY <1>1, <1>2 DEF CallbackOn, SameBuffers
<1> QED BY <1>1, <1>2, <1>3, QuietStep

\* Of a closed port only the transmitter goes on.
LEMMA ClosedStep ==
  ASSUME ClosedOK(p, call), ~p.openflag, NEW t \in Task
  PROVE  /\ ~TaskStep(t) /\ ~rel_wai(t)
         /\ \A str \in Strings : ~serial_wri_dat(t, str)
         /\ \A len \in Lengths : ~serial_rea_dat(t, len)
<1>1. call[t].pc = "none" /\ p.rcv_sem.queue = <<>> /\ p.snd_sem.queue = <<>>
  BY DEF ClosedOK, ClosedPort, Idle
<1>2. ~Waits(t)
  BY <1>1 DEF Waits, Contains
<1>3. ~TaskStep(t)
  BY <1>1 DEF TaskStep, Runs, wai_snd_sem, serial_wri_chr, sig_snd_sem, wai_rcv_sem,
              serial_rea_chr, sig_rcv_sem, return_empty
<1> QED BY <1>2, <1>3 DEF rel_wai, serial_wri_dat, serial_rea_dat

LEMMA ClosedTransmitted ==
  ASSUME ClosedOK(p, call), transmitted
  PROVE  ClosedOK(p', call') /\ p'.openflag = p.openflag
<1>1. call' = call /\ p' = [p EXCEPT !.tx = NUL] /\ IsPort(p)
  BY DEF ClosedOK, transmitted
<1>2. /\ IsPort(p') /\ p'.openflag = p.openflag
      /\ p'.snd_sem = p.snd_sem /\ p'.rcv_sem = p.rcv_sem
  BY <1>1 DEF IsPort
<1> QED BY <1>1, <1>2 DEF ClosedOK
-----------------------------------------------------------------------------
(* The invariant is kept. *)

\* A step of a task while the port is open.
LEMMA TaskStepKeeps ==
  ASSUME EchoReleases = FALSE, OpenOK(p, call), NEW t \in Task,
         \/ TaskStep(t) \/ rel_wai(t)
         \/ \E str \in Strings : serial_wri_dat(t, str)
         \/ \E len \in Lengths : serial_rea_dat(t, len)
  PROVE  OpenOK(p', call') /\ p'.openflag = p.openflag
<1>1. CASE wai_snd_sem(t)
  BY <1>1, WaiSndStep
<1>2. CASE serial_wri_chr(t)
  BY <1>2, WriChrStep
<1>3. CASE sig_snd_sem(t)
  BY <1>3, SigSndStep
<1>4. CASE wai_rcv_sem(t)
  BY <1>4, WaiRcvStep
<1>5. CASE serial_rea_chr(t)
  BY <1>5, ReaChrStep
<1>6. CASE sig_rcv_sem(t)
  BY <1>6, SigRcvStep
<1>7. CASE rel_wai(t)
  BY <1>7, RelWaiStep
<1>8. CASE \E str \in Strings : serial_wri_dat(t, str)
  BY <1>8, WriDatStep
<1>9. CASE \E len \in Lengths : serial_rea_dat(t, len)
  BY <1>9, ReaDatStep
<1>10. CASE return_empty(t)
  BY <1>10, RetStep
<1> QED BY <1>1, <1>2, <1>3, <1>4, <1>5, <1>6, <1>7, <1>8, <1>9, <1>10 DEF TaskStep

LEMMA OpenKeeps ==
  ASSUME EchoReleases = FALSE, PortInv, ~ended, p.openflag, Next
  PROVE  PortInv'
<1>1. OpenOK(p, call) /\ p.openflag = TRUE
  BY DEF PortInv, OpenOK, IsPort
<1> SUFFICES ASSUME ~ended'
             PROVE  IF p'.openflag THEN OpenOK(p', call') ELSE ClosedOK(p', call')
  BY DEF PortInv, OpenOK, ClosedOK, IsPort, CallsOK, QueuedOK, SemsOK, SndCalls, RcvCalls,
         CallbackOn
<1>2. CASE Running(serial_opn_por)
  BY <1>2 DEF Running, serial_opn_por
<1>3. CASE Running(serial_cls_por)
  BY <1>1, <1>3, ClsPorStep DEF Running
<1>4. CASE \E ioctl \in Ioctls : Running(serial_ctl_por(ioctl))
  BY <1>1, <1>4, CtlPorStep DEF Running
<1>5. CASE \E t \in Task :
              \/ Running(TaskStep(t)) \/ Running(rel_wai(t))
              \/ \E str \in Strings : Running(serial_wri_dat(t, str))
              \/ \E len \in Lengths : Running(serial_rea_dat(t, len))
  BY <1>1, <1>5, TaskStepKeeps DEF Running
<1>6. CASE Running(sio_irdy_snd)
  BY <1>1, <1>6, IrdySndStep DEF Running
<1>7. CASE \E c \in RcvChars : Running(sio_irdy_rcv(c))
  BY <1>1, <1>7, IrdyRcvStep DEF Running
<1>8. CASE Running(transmitted)
  BY <1>1, <1>8, TransmittedStep DEF Running
<1>9. ~ext_ker /\ ~(ended /\ serial_get_chr /\ UNCHANGED ended)
  BY DEF ext_ker
<1> QED BY <1>2, <1>3, <1>4, <1>5, <1>6, <1>7, <1>8, <1>9 DEF Next

LEMMA ClosedKeeps ==
  ASSUME PortInv, ~ended, ~p.openflag, Next
  PROVE  PortInv'
<1>1. ClosedOK(p, call)
  BY DEF PortInv
<1> SUFFICES ASSUME ~ended'
             PROVE  IF p'.openflag THEN OpenOK(p', call') ELSE ClosedOK(p', call')
  BY DEF PortInv, OpenOK, ClosedOK, IsPort, CallsOK, QueuedOK, SemsOK, SndCalls, RcvCalls,
         CallbackOn
<1>2. CASE Running(serial_opn_por)
  BY <1>1, <1>2, OpnPorStep DEF Running
<1>3. CASE Running(transmitted)
  BY <1>1, <1>3, ClosedTransmitted DEF Running
<1>4. ~ext_ker /\ ~(ended /\ serial_get_chr /\ UNCHANGED ended)
  BY DEF ext_ker
<1>5. ~Running(serial_cls_por) /\ ~Running(sio_irdy_snd)
  BY DEF Running, serial_cls_por, sio_irdy_snd
<1>6. \A ioctl \in Ioctls : ~Running(serial_ctl_por(ioctl))
  BY DEF Running, serial_ctl_por
<1>7. \A c \in RcvChars : ~Running(sio_irdy_rcv(c))
  BY DEF Running, sio_irdy_rcv
<1>8. ~\E t \in Task :
          \/ Running(TaskStep(t)) \/ Running(rel_wai(t))
          \/ \E str \in Strings : Running(serial_wri_dat(t, str))
          \/ \E len \in Lengths : Running(serial_rea_dat(t, len))
  BY <1>1, ClosedStep DEF Running
<1> QED BY <1>2, <1>3, <1>4, <1>5, <1>6, <1>7, <1>8 DEF Next

LEMMA PortStep ==
  ASSUME EchoReleases = FALSE, PortInv, [Next]_vars
  PROVE  PortInv'
<1>1. CASE UNCHANGED vars
  BY <1>1 DEF vars, PortInv, OpenOK, ClosedOK, IsPort, CallsOK, QueuedOK, SemsOK, SndCalls,
              RcvCalls, CallbackOn
<1>2. CASE Next /\ ended
  <2>1. ended'
    BY <1>2 DEF Next, Running, ext_ker
  <2> QED BY <2>1 DEF PortInv
<1>3. CASE Next /\ ~ended /\ p.openflag
  BY <1>3, OpenKeeps
<1>4. CASE Next /\ ~ended /\ ~p.openflag
  BY <1>4, ClosedKeeps
<1> QED BY <1>1, <1>2, <1>3, <1>4
-----------------------------------------------------------------------------
(* The invariant says that the port is right. *)

\* Of a semaphore that is right there is one permit.
LEMMA PermitThere ==
  ASSUME NEW sem, NEW W \in SUBSET Task, NEW cb \in BOOLEAN, SemOK(sem, W, cb),
         NEW H, H = {t \in W : ~Contains(sem.queue, t)}
  PROVE  /\ sem.cnt + Cardinality(H) + (IF cb THEN 1 ELSE 0) = 1
         /\ sem.queue # <<>> => sem.cnt = 0
<1>1. ASSUME NoneHas(sem, W) PROVE Cardinality(H) = 0
  <2>1. H = {}
    BY <1>1 DEF NoneHas
  <2> QED BY <2>1, FS_EmptySet
<1>2. ASSUME NEW h \in W, OneHas(sem, W, h) PROVE Cardinality(H) = 1
  <2>1. H = {h}
    BY <1>2 DEF OneHas
  <2> QED BY <2>1, FS_Singleton
<1>3. \/ sem.cnt = 1 /\ ~cb /\ sem.queue = <<>> /\ Cardinality(H) = 0
      \/ sem.cnt = 0 /\ ~cb /\ Cardinality(H) = 1
      \/ sem.cnt = 0 /\ cb /\ Cardinality(H) = 0
  BY <1>1, <1>2 DEF SemOK
<1> QED BY <1>3

\* Who is in the region of the send buffer and does not wait has its permit.
LEMMA SndHolders ==
  ASSUME OpenOK(p, call)
  PROVE  {t \in Task : HoldsSnd(t)} =
         {t \in SndCalls(call) : ~Contains(p.snd_sem.queue, t)}
<1>1. ASSUME NEW t \in Task
      PROVE  HoldsSnd(t) <=> InSnd(call[t]) /\ ~Contains(p.snd_sem.queue, t)
  <2>1. Contains(p.rcv_sem.queue, t) => call[t].pc = "rea"
    BY DEF OpenOK, QueuedOK
  <2> QED BY <2>1 DEF HoldsSnd, Runs, Waits, InSnd
<1> QED BY <1>1 DEF SndCalls

LEMMA RcvHolders ==
  ASSUME OpenOK(p, call)
  PROVE  {t \in Task : HoldsRcv(t)} =
         {t \in RcvCalls(call) : ~Contains(p.rcv_sem.queue, t)}
<1>1. ASSUME NEW t \in Task
      PROVE  HoldsRcv(t) <=> InRcv(call[t]) /\ ~Contains(p.rcv_sem.queue, t)
  <2>1. /\ Contains(p.rcv_sem.queue, t) => call[t].pc = "rea" /\ call[t].empty
        /\ Contains(p.snd_sem.queue, t) => call[t].pc \in {"chr", "lf"}
    BY DEF OpenOK, QueuedOK
  <2> QED BY <2>1 DEF HoldsRcv, Runs, Waits, InRcv, KeepsPermit
<1> QED BY <1>1 DEF RcvCalls

LEMMA PermitsThere ==
  ASSUME OpenOK(p, call)
  PROVE  /\ OnePermit(p.snd_sem, HoldsSnd, p.snd.count = snd_bufsz)
         /\ OnePermit(p.rcv_sem, HoldsRcv, p.rcv.count = 0)
<1>1. OnePermit(p.snd_sem, HoldsSnd, p.snd.count = snd_bufsz)
  <2>1. PICK cb \in BOOLEAN : cb = (p.snd.count = snd_bufsz)
    OBVIOUS
  <2>2. SemOK(p.snd_sem, SndCalls(call), cb)
    BY <2>1 DEF OpenOK, SemsOK
  <2>3. PICK H : H = {t \in Task : HoldsSnd(t)}
    OBVIOUS
  <2>4. H = {t \in SndCalls(call) : ~Contains(p.snd_sem.queue, t)}
    BY <2>3, SndHolders
  <2>5. /\ p.snd_sem.cnt + Cardinality(H) + (IF cb THEN 1 ELSE 0) = 1
        /\ p.snd_sem.queue # <<>> => p.snd_sem.cnt = 0
    <3>1. SndCalls(call) \in SUBSET Task
      BY DEF SndCalls
    <3> QED BY <2>2, <2>4, <3>1, PermitThere
  <2> QED BY <2>1, <2>3, <2>5 DEF OnePermit
<1>2. OnePermit(p.rcv_sem, HoldsRcv, p.rcv.count = 0)
  <2>1. PICK cb \in BOOLEAN : cb = (p.rcv.count = 0)
    OBVIOUS
  <2>2. SemOK(p.rcv_sem, RcvCalls(call), cb)
    BY <2>1 DEF OpenOK, SemsOK
  <2>3. PICK H : H = {t \in Task : HoldsRcv(t)}
    OBVIOUS
  <2>4. H = {t \in RcvCalls(call) : ~Contains(p.rcv_sem.queue, t)}
    BY <2>3, RcvHolders
  <2>5. /\ p.rcv_sem.cnt + Cardinality(H) + (IF cb THEN 1 ELSE 0) = 1
        /\ p.rcv_sem.queue # <<>> => p.rcv_sem.cnt = 0
    <3>1. RcvCalls(call) \in SUBSET Task
      BY DEF RcvCalls
    <3> QED BY <2>2, <2>4, <3>1, PermitThere
  <2> QED BY <2>1, <2>3, <2>5 DEF OnePermit
<1> QED BY <1>1, <1>2

LEMMA PortInvOK == PortInv => PortOK
<1> SUFFICES ASSUME PortInv, p.openflag, ~ended
             PROVE  /\ OnePermit(p.snd_sem, HoldsSnd, p.snd.count = snd_bufsz)
                    /\ OnePermit(p.rcv_sem, HoldsRcv, p.rcv.count = 0)
                    /\ ~p.errorflag
                    /\ RingOK(p.snd, snd_bufsz) /\ RingOK(p.rcv, rcv_bufsz)
                    /\ CallbackOn(p)
  BY DEF PortOK, CallbackOn
<1>1. OpenOK(p, call)
  BY DEF PortInv
<1>2. ~p.errorflag /\ CallbackOn(p) /\ RingOK(p.snd, snd_bufsz) /\ RingOK(p.rcv, rcv_bufsz)
  BY <1>1 DEF OpenOK, IsRing
<1> QED BY <1>1, <1>2, PermitsThere

LEMMA PortInit == Init => PortInv
<1> SUFFICES ASSUME Init PROVE ~p.openflag /\ ClosedOK(p, call)
  BY DEF PortInv
<1>1. p = ClosedPort /\ call = [t \in Task |-> Idle]
  BY DEF Init
<1>2. IsPort(p) /\ ~p.openflag
  BY <1>1 DEF IsPort, ClosedPort
<1> QED BY <1>1, <1>2 DEF ClosedOK

\* As long as nobody ends a wait of the echo with rel_wai or ras_ter, an open
\* port is right whatever tasks and interrupt handlers do in between: each
\* permit is in one place and there when the buffer allows (so that no signal
\* fails, no reader finds the buffer empty and no writer finds it full), the
\* ring buffers are consistent, and the send callback is enabled while there
\* is something to send.
THEOREM PortCorrect == ASSUME EchoReleases = FALSE PROVE Spec => []PortOK
<1>1. Init => PortInv
  BY PortInit
<1>2. PortInv /\ [Next]_vars => PortInv'
  BY PortStep
<1>3. PortInv => PortOK
  BY PortInvOK
<1> QED BY <1>1, <1>2, <1>3, PTL DEF Spec
-----------------------------------------------------------------------------
(* The characters on their way: what the operators of the port do to them. *)

Out(port) == Contents(port.snd, snd_bufsz)
In(port)  == Contents(port.rcv, rcv_bufsz)

\* The tasks that wait for a semaphore.
Queued(port) ==
    {t \in Task : Contains(port.rcv_sem.queue, t) \/ Contains(port.snd_sem.queue, t)}

SameText(q, port) ==
    /\ q.snd = port.snd /\ q.rcv = port.rcv
    /\ q.tx = port.tx /\ q.rcv_fc_chr = port.rcv_fc_chr

SameSems(q, port) == q.rcv_sem = port.rcv_sem /\ q.snd_sem = port.snd_sem

LEMMA SameQueued ==
  ASSUME NEW q, NEW port, SameSems(q, port)
  PROVE  Queued(q) = Queued(port)
BY DEF SameSems, Queued

\* A semaphore of an open port has a queue of tasks.
LEMMA QueueOf ==
  ASSUME NEW port, NEW cc, SemsOK(port, cc), NEW s \in {"snd_sem", "rcv_sem"}
  PROVE  /\ DOMAIN port[s] = {"cnt", "queue"}
         /\ port[s].queue \in Seq(Task) /\ IsInjective(port[s].queue)
         /\ port[s].cnt \in {0, 1}
<1>1. CASE s = "snd_sem"
  BY <1>1 DEF SemsOK, SemOK
<1>2. CASE s = "rcv_sem"
  BY <1>2 DEF SemsOK, SemOK
<1> QED BY <1>1, <1>2

\* A signal ends waits only.
LEMMA SigQuiet ==
  ASSUME NEW port, IsPort(port), NEW cc, SemsOK(port, cc), NEW s \in {"snd_sem", "rcv_sem"}
  PROVE  LET q == sig_sem(port, s) IN
         IsPort(q) /\ SameText(q, port) /\ Queued(q) \subseteq Queued(port)
<1> DEFINE q == sig_sem(port, s)
<1>1. IsPort(port)
  OBVIOUS
<1>2. IsPort(q) /\ SameText(q, port)
  BY <1>1 DEF SameText, IsPort, sig_sem
<1>3. \A o \in {"snd_sem", "rcv_sem"} : o # s => q[o] = port[o]
  BY <1>1 DEF IsPort, sig_sem
<1>4. q[s].queue = port[s].queue \/ (port[s].queue # <<>> /\ q[s].queue = Tail(port[s].queue))
  BY <1>1, QueueOf DEF IsPort, sig_sem
<1> HIDE DEF q
<1>5. \A y \in Task : Contains(q[s].queue, y) => Contains(port[s].queue, y)
  BY <1>4, QueueOf, TailQueue
<1>6. Queued(q) \subseteq Queued(port)
  BY <1>3, <1>5 DEF Queued
<1> QED BY <1>2, <1>6 DEF q

\* A task that takes a permit which is not there waits.
LEMMA WaiQueue ==
  ASSUME NEW port, IsPort(port), NEW cc, SemsOK(port, cc), NEW s \in {"snd_sem", "rcv_sem"},
         NEW t \in Task, ~Contains(port[s].queue, t)
  PROVE  LET q == wai_sem(port, s, t) IN
         /\ SameText(q, port)
         /\ \/ Queued(q) = Queued(port)
            \/ port[s].cnt = 0 /\ Queued(q) = Queued(port) \cup {t}
<1> DEFINE q == wai_sem(port, s, t)
           a == Awaited(port[s], t)
<1>1. IsPort(port)
  OBVIOUS
<1>2. q = [port EXCEPT ![s] = a]
  BY DEF wai_sem, Awaited
<1>3. /\ DOMAIN port[s] = {"cnt", "queue"} /\ port[s].cnt \in {0, 1}
      /\ port[s].queue \in Seq(Task) /\ IsInjective(port[s].queue)
  BY QueueOf
<1>4. \/ port[s].cnt = 1 /\ a.queue = port[s].queue
      \/ /\ port[s].cnt = 0
         /\ \A y \in Task : Contains(a.queue, y) <=> Contains(port[s].queue, y) \/ y = t
  <2>1. CASE port[s].cnt = 1
    BY <1>3, <2>1 DEF Awaited
  <2>2. CASE port[s].cnt = 0
    <3> DEFINE sem == port[s]
    <3>1. /\ DOMAIN sem = {"cnt", "queue"} /\ sem.cnt = 0 /\ sem.queue \in Seq(Task)
          /\ IsInjective(sem.queue) /\ ~Contains(sem.queue, t)
      BY <1>3, <2>2
    <3> HIDE DEF sem
    <3>2. \A y \in Task : Contains(Awaited(sem, t).queue, y) <=> Contains(sem.queue, y) \/ y = t
      BY <3>1, LinkedQueue
    <3> QED BY <2>2, <3>2 DEF sem
  <2> QED BY <1>3, <2>1, <2>2
<1> HIDE DEF q, a
<1>5. /\ SameText(q, port) /\ q[s] = a
      /\ \A o \in {"snd_sem", "rcv_sem"} : o # s => q[o] = port[o]
  BY <1>1, <1>2 DEF IsPort, SameText
<1>6. port[s].cnt = 1 => Queued(q) = Queued(port)
  BY <1>4, <1>5 DEF Queued
<1>7. port[s].cnt = 0 => Queued(q) = Queued(port) \cup {t}
  BY <1>4, <1>5 DEF Queued
<1> QED BY <1>3, <1>5, <1>6, <1>7 DEF q

\* A STOP or START goes out at once, or is noted.
LEMMA SendFcText ==
  ASSUME NEW port, IsPort(port), NEW ch
  PROVE  LET q == send_fc(port, ch) IN
         /\ q.snd = port.snd /\ q.rcv = port.rcv /\ q.rcv_fc_chr \in {port.rcv_fc_chr, ch}
         /\ q.tx = port.tx \/ (port.tx = NUL /\ q.tx = ch)
         /\ SameSems(q, port)
<1> DEFINE s == serial_snd_chr(port, ch)
           q == send_fc(port, ch)
<1>1. /\ s.snd = port.snd /\ s.rcv = port.rcv /\ s.rcv_fc_chr = port.rcv_fc_chr
      /\ s.tx = port.tx \/ (port.tx = NUL /\ s.tx = ch)
      /\ SameSems(s, port) /\ DOMAIN s = DOMAIN port
  BY DEF IsPort, SameSems, serial_snd_chr, sio_snd_chr, Writable
<1>2. q = [s EXCEPT !.rcv_fc_chr = IF Writable(port) THEN @ ELSE ch]
  BY DEF send_fc
<1> HIDE DEF s, q
<1>3. /\ q.snd = s.snd /\ q.rcv = s.rcv /\ q.tx = s.tx
      /\ q.rcv_fc_chr \in {s.rcv_fc_chr, ch} /\ SameSems(q, port)
  BY <1>1, <1>2 DEF IsPort, SameSems
<1> QED BY <1>1, <1>3 DEF q

\* The first character of the buffer goes out, and a wait for room may end.
LEMMA SendFirstText ==
  ASSUME NEW port, IsPort(port), NEW cc, SemsOK(port, cc)
  PROVE  LET q == send_first(port) IN
         /\ q.snd = Drop(port.snd, snd_bufsz) /\ q.tx = First(port.snd)
         /\ q.rcv = port.rcv /\ q.rcv_fc_chr = port.rcv_fc_chr
         /\ Queued(q) \subseteq Queued(port)
         /\ DOMAIN q = DOMAIN port
<1> DEFINE s == sio_snd_chr(port, First(port.snd))
           g == sig_sem(s, "snd_sem")
           q == send_first(port)
<1>1. /\ SemsOK(s, cc) /\ s.snd = port.snd /\ s.tx = First(port.snd)
      /\ s.rcv = port.rcv /\ s.rcv_fc_chr = port.rcv_fc_chr /\ SameSems(s, port)
      /\ IsPort(s) /\ IsPort(port)
  <2>1. s = [port EXCEPT !.tx = First(port.snd)]
    BY DEF sio_snd_chr
  <2>2. IsPort(port)
    OBVIOUS
  <2> HIDE DEF s
  <2>3. /\ IsPort(s) /\ SameBuffers(s, port) /\ s.cbr = port.cbr
        /\ s.tx = First(port.snd) /\ s.rcv_fc_chr = port.rcv_fc_chr
    BY <2>1, <2>2 DEF IsPort, SameBuffers
  <2>4. SemsOK(s, cc)
    BY <2>3 DEF SameBuffers, SemsOK
  <2> QED BY <2>2, <2>3, <2>4 DEF SameBuffers, SameSems
<1>2. q = [g EXCEPT !.snd = Drop(@, snd_bufsz)] \/ q = [s EXCEPT !.snd = Drop(@, snd_bufsz)]
  BY DEF send_first
<1>3. IsPort(g) /\ SameText(g, s) /\ Queued(g) \subseteq Queued(s)
  <2> HIDE DEF s
  <2> QED BY <1>1, SigQuiet
<1>4. Queued(s) = Queued(port)
  BY <1>1, SameQueued
<1> HIDE DEF s, g, q
<1>5. /\ q.snd = Drop(s.snd, snd_bufsz) /\ q.tx = s.tx
      /\ q.rcv = s.rcv /\ q.rcv_fc_chr = s.rcv_fc_chr
      /\ SameSems(q, g) \/ SameSems(q, s)
  BY <1>1, <1>2, <1>3 DEF SameText, SameSems, IsPort
<1>6. DOMAIN q = DOMAIN port
  BY <1>1, <1>2, <1>3 DEF IsPort
<1>7. Queued(q) = Queued(g) \/ Queued(q) = Queued(s)
  BY <1>5, SameQueued
<1> QED BY <1>1, <1>3, <1>4, <1>5, <1>6, <1>7 DEF q

\* A character goes out at once, if none is before it, or into the buffer.
LEMMA WriChrText ==
  ASSUME NEW port, IsPort(port), NEW ch
  PROVE  LET q == wri_chr(port, ch) IN
         /\ q.rcv = port.rcv /\ q.rcv_fc_chr = port.rcv_fc_chr /\ SameSems(q, port)
         /\ \/ /\ port.snd.count = 0 /\ port.tx = NUL
               /\ q.tx = ch /\ q.snd = port.snd
            \/ q.tx = port.tx /\ q.snd = Store(port.snd, snd_bufsz, ch)
<1> DEFINE s == serial_snd_chr(port, ch)
           q == wri_chr(port, ch)
<1>1. /\ s.snd = port.snd /\ s.rcv = port.rcv /\ s.rcv_fc_chr = port.rcv_fc_chr
      /\ s.tx = IF port.tx = NUL THEN ch ELSE port.tx
      /\ SameSems(s, port) /\ DOMAIN s = DOMAIN port
  BY DEF IsPort, SameSems, serial_snd_chr, sio_snd_chr, Writable
<1>2. \/ AtOnce(port) /\ q = s
      \/ /\ ~AtOnce(port) /\ port.snd.count = 0 /\ ~port.snd_stopped
         /\ q = [s EXCEPT !.snd = Store(@, snd_bufsz, ch)]
      \/ q = [port EXCEPT !.snd = Store(@, snd_bufsz, ch)]
  BY DEF wri_chr, AtOnce
<1> HIDE DEF s, q
<1>3. CASE AtOnce(port) /\ q = s
  BY <1>1, <1>3 DEF AtOnce, Writable, q
<1>4. CASE /\ ~AtOnce(port) /\ port.snd.count = 0 /\ ~port.snd_stopped
           /\ q = [s EXCEPT !.snd = Store(@, snd_bufsz, ch)]
  <2>1. port.tx # NUL
    BY <1>4 DEF AtOnce, Writable
  <2>2. /\ q.snd = Store(s.snd, snd_bufsz, ch) /\ q.tx = s.tx
        /\ q.rcv = s.rcv /\ q.rcv_fc_chr = s.rcv_fc_chr /\ SameSems(q, port)
    BY <1>1, <1>4 DEF IsPort, SameSems
  <2> QED BY <1>1, <2>1, <2>2 DEF q
<1>5. CASE q = [port EXCEPT !.snd = Store(@, snd_bufsz, ch)]
  <2>1. /\ q.snd = Store(port.snd, snd_bufsz, ch) /\ q.tx = port.tx
        /\ q.rcv = port.rcv /\ q.rcv_fc_chr = port.rcv_fc_chr /\ SameSems(q, port)
    BY <1>5 DEF IsPort, SameSems
  <2> QED BY <2>1 DEF q
<1> QED BY <1>2, <1>3, <1>4, <1>5
-----------------------------------------------------------------------------
(* The state of SerialLine. *)

\* What a call has still to put, and where; only a reader has read something.
TextOK(c) ==
    /\ \E S : c.str \in Seq(S)
    /\ c.str # <<>> <=> c.pc \in {"wai", "chr", "crwai", "lf"}
    /\ c.op # "read" => c.c = NUL

LineOK(port, cc) ==
    /\ port.rcv_fc_chr \in {NUL, FC_STOP, FC_START}
    /\ \A t \in Task : TextOK(cc[t])

LineInv ==
    /\ PortInv /\ IsPort(p) /\ DOMAIN call = Task
    /\ IsRing(p.snd, snd_bufsz) /\ IsRing(p.rcv, rcv_bufsz)
    /\ LineOK(p, call)

Calls(cc) == {t \in Task : cc[t].op # "none"}
Todo(cc)  == [t \in Task |-> cc[t].str]
Crs(cc)   == {t \in Task : cc[t].pc \in {"crwai", "lf"}}
Taken(cc) == [t \in Task |-> cc[t].c]

Waiting(port, cc) ==
    {t \in Task : /\ cc[t].op # "none"
                  /\ Contains(port.rcv_sem.queue, t) \/ Contains(port.snd_sem.queue, t)}

SameCalls(cc1, cc) ==
    Calls(cc1) = Calls(cc) /\ Todo(cc1) = Todo(cc) /\ Crs(cc1) = Crs(cc) /\ Taken(cc1) = Taken(cc)

\* A step of an open port.
OpenStep ==
    /\ LineInv /\ OpenOK(p, call) /\ OpenOK(p', call')
    /\ p.openflag /\ p'.openflag = p.openflag
    /\ ~ended /\ ended' = ended

\* A step of SerialLine that keeps the rest of LineInv.
LineStep == LineOK(p', call') /\ [Line!Next]_(Line!vars)

\* Who waits is in a call.
LEMMA WaitingQueued ==
  ASSUME NEW port, NEW cc, OpenOK(port, cc)
  PROVE  Waiting(port, cc) = Queued(port)
<1>1. ASSUME NEW t \in Task, cc[t].pc \in {"chr", "lf", "rea"} PROVE cc[t].op # "none"
  <2>1. CallOK(cc[t])
    BY DEF OpenOK, CallsOK
  <2> QED BY <1>1, <2>1 DEF CallOK
<1>2. \A t \in Task : Contains(port.rcv_sem.queue, t) \/ Contains(port.snd_sem.queue, t)
                        => cc[t].pc \in {"chr", "lf", "rea"}
  BY DEF OpenOK, QueuedOK
<1> QED BY <1>1, <1>2 DEF Waiting, Queued

LEMMA ContentsLen ==
  ASSUME NEW n \in Nat \ {0}, NEW r, IsRing(r, n)
  PROVE  Len(Contents(r, n)) = r.count /\ (Contents(r, n) = <<>> <=> r.count = 0)
<1>1. r.count \in Nat
  BY DEF IsRing, RingOK
<1>2. DOMAIN Contents(r, n) = 1 .. r.count
  BY DEF Contents
<1>3. Len(Contents(r, n)) = r.count
  BY <1>1 DEF Contents
<1>4. r.count = 0 => Contents(r, n) = <<>>
  BY DEF Contents
<1>5. r.count # 0 => Contents(r, n) # <<>>
  BY <1>1, <1>3
<1> QED BY <1>3, <1>4, <1>5

\* The calls, after a step of the task t alone.
LEMMA OneCallLine ==
  ASSUME LineInv, NEW t \in Task, NEW c, Becomes(call', call, t, c), TextOK(c)
  PROVE  /\ Calls(call') = IF c.op = "none" THEN Calls(call) \ {t} ELSE Calls(call) \cup {t}
         /\ Todo(call') = [Todo(call) EXCEPT ![t] = c.str]
         /\ Taken(call') = [Taken(call) EXCEPT ![t] = c.c]
         /\ Crs(call') = IF c.pc \in {"crwai", "lf"} THEN Crs(call) \cup {t} ELSE Crs(call) \ {t}
         /\ \A u \in Task : TextOK(call'[u])
<1>1. \A u \in Task : call'[u] = IF u = t THEN c ELSE call[u]
  BY DEF Becomes, LineInv
<1>2. \A u \in Task : TextOK(call'[u])
  BY <1>1 DEF LineInv, LineOK
<1>3. /\ Calls(call') = IF c.op = "none" THEN Calls(call) \ {t} ELSE Calls(call) \cup {t}
      /\ Crs(call') = IF c.pc \in {"crwai", "lf"} THEN Crs(call) \cup {t} ELSE Crs(call) \ {t}
  BY <1>1 DEF Calls, Crs
<1>4. Todo(call') = [Todo(call) EXCEPT ![t] = c.str]
  BY <1>1 DEF Todo
<1>5. Taken(call') = [Taken(call) EXCEPT ![t] = c.c]
  BY <1>1 DEF Taken
<1> QED BY <1>2, <1>3, <1>4, <1>5

\* A step that SerialLine does not see.
LEMMA SameCall ==
  ASSUME LineInv, NEW t \in Task, NEW c, Becomes(call', call, t, c), TextOK(c),
         c.op = call[t].op, c.str = call[t].str, c.c = call[t].c,
         c.pc \in {"crwai", "lf"} <=> call[t].pc \in {"crwai", "lf"}
  PROVE  SameCalls(call', call) /\ \A u \in Task : TextOK(call'[u])
<1>1. \A u \in Task : call'[u] = IF u = t THEN c ELSE call[u]
  BY DEF Becomes, LineInv
<1>2. \A u \in Task : TextOK(call'[u])
  BY <1>1 DEF LineInv, LineOK
<1>3. Calls(call') = Calls(call) /\ Crs(call') = Crs(call)
  BY <1>1 DEF Calls, Crs
<1>4. Todo(call') = Todo(call)
  BY <1>1 DEF Todo
<1>5. Taken(call') = Taken(call)
  BY <1>1 DEF Taken
<1> QED BY <1>2, <1>3, <1>4, <1>5 DEF SameCalls
-----------------------------------------------------------------------------
(* The steps of SerialLine. *)

\* A STOP or START may go out.
Flow == p'.tx = p.tx \/ (p.tx = NUL /\ p'.tx \in {FC_STOP, FC_START})

LEMMA TransferLine ==
  ASSUME OpenStep, LineOK(p', call'),
         \/ Line!Control \/ Line!Send \/ Line!Receive
         \/ \E t \in Task : \/ Line!Begin(t) \/ Line!Wait(t) \/ Line!Return(t)
                            \/ Line!PutCR(t) \/ Line!Put(t) \/ Line!Read(t)
  PROVE  LineStep
<1>1. p.openflag /\ p'.openflag = p.openflag /\ ~ended /\ ended' = ended
  BY DEF OpenStep
<1>2. Line!Transfer
  BY <1>1 DEF Line!Transfer
<1>3. Line!Next
  BY <1>1, <1>2 DEF Line!Next
<1> QED BY <1>3 DEF LineStep

LEMMA ControlLine ==
  ASSUME OpenStep, LineOK(p', call'), Out(p') = Out(p), In(p') = In(p), Flow,
         Queued(p') \subseteq Queued(p), SameCalls(call', call)
  PROVE  LineStep
<1>1. Waiting(p', call') \subseteq Waiting(p, call)
  BY WaitingQueued DEF OpenStep
<1>2. Line!FlowControl
  BY DEF Flow, Line!FlowControl
<1>3. Line!Wakes
  BY <1>1 DEF Line!Wakes, Waiting, Waits
<1>4. Line!Control
  BY <1>2, <1>3 DEF Line!Control, Out, In, SameCalls, Calls, Todo, Crs, Taken
<1> QED BY <1>4, TransferLine

\* Nothing is put, sent, read or received.
LEMMA QuietLine ==
  ASSUME OpenStep, SameText(p', p), Queued(p') \subseteq Queued(p), SameCalls(call', call),
         \A t \in Task : TextOK(call'[t])
  PROVE  LineStep
<1>1. LineOK(p', call')
  BY DEF OpenStep, LineInv, LineOK, SameText
<1>2. Out(p') = Out(p) /\ In(p') = In(p) /\ Flow
  BY DEF SameText, Out, In, Flow
<1> QED BY <1>1, <1>2, ControlLine

LEMMA BeginLine ==
  ASSUME OpenStep, NEW t \in Task, NEW c, Becomes(call', call, t, c), TextOK(c), p' = p,
         call[t].op = "none", call[t].c = NUL, call[t].pc = "none",
         c.op # "none", c.str \in Strings \cup {<<>>}, c.c = NUL, c.pc \notin {"crwai", "lf"}
  PROVE  LineStep
<1>1. /\ Calls(call') = Calls(call) \cup {t} /\ t \notin Calls(call)
      /\ Todo(call') = [Todo(call) EXCEPT ![t] = c.str]
      /\ Taken(call') = [Taken(call) EXCEPT ![t] = c.c]
      /\ Crs(call') = Crs(call)
      /\ \A u \in Task : TextOK(call'[u])
  <2>1. t \notin Crs(call) /\ t \notin Calls(call)
    BY DEF Crs, Calls
  <2>2. LineInv
    BY DEF OpenStep
  <2>3. /\ Calls(call') = IF c.op = "none" THEN Calls(call) \ {t} ELSE Calls(call) \cup {t}
        /\ Todo(call') = [Todo(call) EXCEPT ![t] = c.str]
        /\ Taken(call') = [Taken(call) EXCEPT ![t] = c.c]
        /\ Crs(call') = IF c.pc \in {"crwai", "lf"} THEN Crs(call) \cup {t} ELSE Crs(call) \ {t}
        /\ \A u \in Task : TextOK(call'[u])
    BY <2>2, OneCallLine
  <2>4. Calls(call') = Calls(call) \cup {t}
    BY <2>3
  <2>5. Crs(call') = Crs(call)
    BY <2>1, <2>3
  <2> QED BY <2>1, <2>3, <2>4, <2>5
<1>2. Taken(call') = Taken(call)
  BY <1>1 DEF Taken
<1>3. Waiting(p', call') = Waiting(p, call)
  BY WaitingQueued DEF OpenStep
<1>4. LineOK(p', call')
  BY <1>1 DEF OpenStep, LineInv, LineOK
<1>5. Line!Begin(t)
  <2>1. \E s \in Strings \cup {<<>>} : Todo(call') = [Todo(call) EXCEPT ![t] = s]
    BY <1>1
  <2> QED BY <1>1, <1>2, <1>3, <2>1
          DEF Line!Begin, Calls, Todo, Taken, Crs, Waiting, Waits
<1> QED BY <1>4, <1>5, TransferLine

LEMMA WaitLine ==
  ASSUME OpenStep, NEW t \in Task, SameText(p', p), Queued(p') = Queued(p) \cup {t},
         SameCalls(call', call), \A u \in Task : TextOK(call'[u]),
         call[t].op # "none",
         \/ p.snd.count = snd_bufsz \/ p.rcv.count = 0
         \/ \E h \in Task : h # t /\ call[h].op # "none"
  PROVE  LineStep
<1>1. LineOK(p', call')
  BY DEF OpenStep, LineInv, LineOK, SameText
<1>2. Waiting(p', call') = Waiting(p, call) \cup {t}
  BY WaitingQueued DEF OpenStep
<1>3. Out(p') = Out(p) /\ In(p') = In(p)
  BY DEF SameText, Out, In
<1>4. Len(Out(p)) = snd_bufsz \/ In(p) = <<>> \/ Calls(call) # {t}
  <2>1. Len(Out(p)) = p.snd.count /\ (In(p) = <<>> <=> p.rcv.count = 0)
    BY ContentsLen, SerialAssumption DEF Out, In, OpenStep, LineInv
  <2>2. ASSUME NEW h \in Task, h # t, call[h].op # "none" PROVE Calls(call) # {t}
    BY <2>2 DEF Calls
  <2> QED BY <2>1, <2>2
<1>5. t \in Calls(call)
  BY DEF Calls
<1>6. Line!Wait(t)
  BY <1>2, <1>3, <1>4, <1>5
     DEF Line!Wait, Out, In, SameText, SameCalls, Calls, Todo, Taken, Crs, Waiting, Waits
<1> QED BY <1>1, <1>6, TransferLine

\* The call of t ends.
LEMMA ReturnLine ==
  ASSUME OpenStep, NEW t \in Task, SameText(p', p), Becomes(call', call, t, Idle),
         call[t].op # "none", call[t].str = <<>> \/ t \in Queued(p),
         Queued(p') \subseteq Queued(p) \ {t}
  PROVE  LineStep
<1>1. Idle.op = "none" /\ Idle.str = <<>> /\ Idle.c = NUL /\ Idle.pc = "none" /\ TextOK(Idle)
  <2>1. <<>> \in Seq({})
    OBVIOUS
  <2> QED BY <2>1 DEF Idle, TextOK
<1>2. /\ Calls(call') = Calls(call) \ {t}
      /\ Todo(call') = [Todo(call) EXCEPT ![t] = <<>>]
      /\ Taken(call') = [Taken(call) EXCEPT ![t] = NUL]
      /\ Crs(call') = Crs(call) \ {t}
      /\ \A u \in Task : TextOK(call'[u])
  BY <1>1, OneCallLine DEF OpenStep
<1>3. LineOK(p', call')
  BY <1>2 DEF OpenStep, LineInv, LineOK, SameText
<1>4. Waiting(p', call') \subseteq Waiting(p, call) \ {t} /\ Waiting(p, call) = Queued(p)
  BY WaitingQueued DEF OpenStep
<1>5. Todo(call)[t] = <<>> \/ t \in Waiting(p, call)
  BY <1>4 DEF Todo
<1>6. t \in Calls(call)
  BY DEF Calls
<1>7. Out(p') = Out(p) /\ In(p') = In(p) /\ p'.tx = p.tx
  BY DEF SameText, Out, In
<1>8. Line!Return(t)
  BY <1>2, <1>4, <1>5, <1>6, <1>7
     DEF Line!Return, Out, In, Calls, Todo, Taken, Crs, Waiting, Waits
<1> QED BY <1>3, <1>8, TransferLine

\* Who has the permit of a buffer finds room or characters in it.
LEMMA HolderServed ==
  ASSUME OpenOK(p, call), NEW t \in Task, ~Waits(t)
  PROVE  /\ InSnd(call[t]) => p.snd.count # snd_bufsz
         /\ InRcv(call[t]) => p.rcv.count # 0
<1>1. ~Contains(p.snd_sem.queue, t) /\ ~Contains(p.rcv_sem.queue, t)
  BY DEF Waits
<1>2. ASSUME InSnd(call[t]) PROVE p.snd.count # snd_bufsz
  <2>1. PICK cb \in BOOLEAN : cb = (p.snd.count = snd_bufsz)
    OBVIOUS
  <2>2. SemOK(p.snd_sem, SndCalls(call), cb) /\ t \in SndCalls(call)
    BY <1>2, <2>1 DEF OpenOK, SemsOK, SndCalls
  <2>3. cb = FALSE
    BY <1>1, <2>2 DEF SemOK, NoneHas
  <2> QED BY <2>1, <2>3
<1>3. ASSUME InRcv(call[t]) PROVE p.rcv.count # 0
  <2>1. PICK cb \in BOOLEAN : cb = (p.rcv.count = 0)
    OBVIOUS
  <2>2. SemOK(p.rcv_sem, RcvCalls(call), cb) /\ t \in RcvCalls(call)
    BY <1>3, <2>1 DEF OpenOK, SemsOK, RcvCalls
  <2>3. cb = FALSE
    BY <1>1, <2>2 DEF SemOK, NoneHas
  <2> QED BY <2>1, <2>3
<1> QED BY <1>2, <1>3

\* A character that is put goes out at once or into the buffer.
LEMMA EmitLine ==
  ASSUME OpenStep, NEW ch, p' = wri_chr(p, ch), p.snd.count # snd_bufsz
  PROVE  /\ In(p') = In(p) /\ p'.rcv_fc_chr = p.rcv_fc_chr /\ Queued(p') = Queued(p)
         /\ \/ Out(p) = <<>> /\ p.tx = NUL /\ p'.tx = ch /\ Out(p') = Out(p)
            \/ Len(Out(p)) < snd_bufsz /\ Out(p') = Append(Out(p), ch) /\ p'.tx = p.tx
<1>1. IsPort(p) /\ IsRing(p.snd, snd_bufsz) /\ snd_bufsz \in Nat \ {0}
  BY SerialAssumption DEF OpenStep, LineInv
<1>2. /\ p'.rcv = p.rcv /\ p'.rcv_fc_chr = p.rcv_fc_chr /\ SameSems(p', p)
      /\ \/ /\ p.snd.count = 0 /\ p.tx = NUL
            /\ p'.tx = ch /\ p'.snd = p.snd
         \/ p'.tx = p.tx /\ p'.snd = Store(p.snd, snd_bufsz, ch)
  BY <1>1, WriChrText
<1>3. In(p') = In(p) /\ Queued(p') = Queued(p)
  BY <1>2, SameQueued DEF In
<1>4. CASE p.snd.count = 0 /\ p.tx = NUL /\ p'.tx = ch /\ p'.snd = p.snd
  <2>1. Out(p) = <<>>
    BY <1>1, <1>4, ContentsLen DEF Out
  <2> QED BY <1>2, <1>3, <1>4, <2>1 DEF Out
<1>5. CASE p'.tx = p.tx /\ p'.snd = Store(p.snd, snd_bufsz, ch)
  <2>1. Contents(Store(p.snd, snd_bufsz, ch), snd_bufsz) = Append(Contents(p.snd, snd_bufsz), ch)
    BY <1>1, StoredLast
  <2>2. Len(Out(p)) = p.snd.count
    BY <1>1, ContentsLen DEF Out
  <2>3. p.snd.count < snd_bufsz
    BY <1>1 DEF IsRing, RingOK
  <2>4. Out(p') = Append(Out(p), ch)
    BY <1>5, <2>1 DEF Out
  <2> QED BY <1>2, <1>3, <1>5, <2>2, <2>3, <2>4
<1> QED BY <1>2, <1>4, <1>5

\* A task puts the CR before its LF.
LEMMA PutCRLine ==
  ASSUME OpenStep, NEW t \in Task, p' = wri_chr(p, CR), p.snd.count # snd_bufsz,
         NEW c, Becomes(call', call, t, c), TextOK(c),
         c.op = call[t].op, c.str = call[t].str, c.c = call[t].c, c.pc \in {"crwai", "lf"},
         call[t].op # "none", call[t].pc = "chr", call[t].str # <<>>,
         Head(call[t].str) = LF, t \notin Queued(p)
  PROVE  LineStep
<1>1. /\ In(p') = In(p) /\ p'.rcv_fc_chr = p.rcv_fc_chr /\ Queued(p') = Queued(p)
      /\ \/ Out(p) = <<>> /\ p.tx = NUL /\ p'.tx = CR /\ Out(p') = Out(p)
         \/ Len(Out(p)) < snd_bufsz /\ Out(p') = Append(Out(p), CR) /\ p'.tx = p.tx
  BY EmitLine
<1>2. \A u \in Task : call'[u] = IF u = t THEN c ELSE call[u]
  BY DEF Becomes, OpenStep, LineInv
<1>3. LineOK(p', call')
  BY <1>1, <1>2 DEF OpenStep, LineInv, LineOK
<1>4. Calls(call') = Calls(call) /\ Crs(call') = Crs(call) \cup {t} /\ t \notin Crs(call)
  BY <1>2 DEF Calls, Crs
<1>5. Todo(call') = Todo(call)
  BY <1>2 DEF Todo
<1>6. Taken(call') = Taken(call)
  BY <1>2 DEF Taken
<1>7. /\ Waiting(p', call') = Waiting(p, call) /\ t \notin Waiting(p, call)
  BY <1>1, WaitingQueued DEF OpenStep
<1>8. Todo(call)[t] # <<>> /\ Head(Todo(call)[t]) = LF
  BY DEF Todo
<1>9. Line!Emit(CR)
  BY <1>1 DEF Line!Emit, Out
<1>10. Line!PutCR(t)
  BY <1>1, <1>4, <1>5, <1>6, <1>7, <1>8, <1>9
     DEF Line!PutCR, In, Calls, Todo, Taken, Crs, Waiting, Waits
<1> QED BY <1>3, <1>10, TransferLine

\* A task puts a character of its text.
LEMMA PutLine ==
  ASSUME OpenStep, NEW t \in Task, call[t].str # <<>>,
         p' = wri_chr(p, Head(call[t].str)), p.snd.count # snd_bufsz,
         NEW c, Becomes(call', call, t, c), TextOK(c),
         c.str = Tail(call[t].str), c.c = call[t].c, c.pc \notin {"crwai", "lf"},
         call[t].op # "none", t \notin Queued(p),
         \/ c.op # "none"
         \/ c.op = "none" /\ Len(call[t].str) = 1 /\ call[t].c = NUL
  PROVE  LineStep
<1>1. /\ In(p') = In(p) /\ p'.rcv_fc_chr = p.rcv_fc_chr /\ Queued(p') = Queued(p)
      /\ \/ Out(p) = <<>> /\ p.tx = NUL /\ p'.tx = Head(call[t].str) /\ Out(p') = Out(p)
         \/ /\ Len(Out(p)) < snd_bufsz /\ Out(p') = Append(Out(p), Head(call[t].str))
            /\ p'.tx = p.tx
  BY EmitLine
<1>2. \A u \in Task : call'[u] = IF u = t THEN c ELSE call[u]
  BY DEF Becomes, OpenStep, LineInv
<1>3. LineOK(p', call')
  BY <1>1, <1>2 DEF OpenStep, LineInv, LineOK
<1>4. Crs(call') = Crs(call) \ {t}
  BY <1>2 DEF Crs
<1>5. Todo(call') = [Todo(call) EXCEPT ![t] = Tail(call[t].str)]
  BY <1>2 DEF Todo
<1>6. Taken(call') = Taken(call)
  BY <1>2 DEF Taken
<1>7. /\ Waiting(p', call') = Waiting(p, call) /\ t \notin Waiting(p, call)
  BY <1>1, WaitingQueued DEF OpenStep
<1>8. Todo(call)[t] = call[t].str /\ Taken(call)[t] = call[t].c
  BY DEF Todo, Taken
<1>9. Todo(call') = [Todo(call) EXCEPT ![t] = Tail(@)]
  BY <1>5, <1>8
<1>10. \/ Calls(call') = Calls(call)
       \/ Len(Todo(call)[t]) = 1 /\ Taken(call)[t] = NUL /\ Calls(call') = Calls(call) \ {t}
  <2>1. c.op # "none" => Calls(call') = Calls(call)
    BY <1>2 DEF Calls
  <2>2. c.op = "none" => Calls(call') = Calls(call) \ {t}
    BY <1>2 DEF Calls
  <2> QED BY <1>8, <2>1, <2>2
<1>11. Line!Emit(Head(Todo(call)[t]))
  BY <1>1, <1>8 DEF Line!Emit, Out
<1>12. Todo(call)[t] # <<>>
  BY <1>8
<1>13. /\ [u \in Task |-> call'[u].str] = [[u \in Task |-> call[u].str] EXCEPT ![t] = Tail(@)]
       /\ [u \in Task |-> call[u].str][t] # <<>>
       /\ Line!Emit(Head([u \in Task |-> call[u].str][t]))
  BY <1>9, <1>11, <1>12 DEF Todo
<1>14. \/ {u \in Task : call'[u].op # "none"} = {u \in Task : call[u].op # "none"}
       \/ /\ Len([u \in Task |-> call[u].str][t]) = 1 /\ [u \in Task |-> call[u].c][t] = NUL
          /\ {u \in Task : call'[u].op # "none"} = {u \in Task : call[u].op # "none"} \ {t}
  BY <1>10 DEF Calls, Todo, Taken
<1>15. /\ Contents(p'.rcv, rcv_bufsz) = Contents(p.rcv, rcv_bufsz)
       /\ [u \in Task |-> call'[u].c] = [u \in Task |-> call[u].c]
       /\ {u \in Task : call'[u].pc \in {"crwai", "lf"}}
             = {u \in Task : call[u].pc \in {"crwai", "lf"}} \ {t}
  BY <1>1, <1>4, <1>6 DEF In, Taken, Crs
<1>16. /\ {u \in Task : call[u].op # "none" /\ Waits(u)}' = {u \in Task : call[u].op # "none" /\ Waits(u)}
       /\ t \notin {u \in Task : call[u].op # "none" /\ Waits(u)}
  BY <1>7 DEF Waiting, Waits
<1>17. Line!Put(t)
  BY <1>13, <1>14, <1>15, <1>16 DEF Line!Put
<1> QED BY <1>3, <1>17, TransferLine

\* A task takes the first character.
LEMMA ReadLine ==
  ASSUME OpenStep, NEW t \in Task, p.rcv.count # 0, p'.rcv = Drop(p.rcv, rcv_bufsz),
         p'.snd = p.snd, Flow, SameSems(p', p),
         p'.rcv_fc_chr \in {NUL, FC_STOP, FC_START},
         NEW c, Becomes(call', call, t, c), TextOK(c),
         c.str \in {<<>>, <<First(p.rcv)>>}, c.c = First(p.rcv), c.op # "none",
         c.pc \notin {"crwai", "lf"}, call[t].pc = "rea",
         call[t].op # "none", call[t].str = <<>>, t \notin Queued(p)
  PROVE  LineStep
<1>1. In(p) # <<>> /\ Head(In(p)) = First(p.rcv) /\ In(p') = Tail(In(p))
  <2>1. /\ Contents(p.rcv, rcv_bufsz) # <<>>
        /\ Head(Contents(p.rcv, rcv_bufsz)) = First(p.rcv)
        /\ Contents(Drop(p.rcv, rcv_bufsz), rcv_bufsz) = Tail(Contents(p.rcv, rcv_bufsz))
    BY SerialAssumption, DroppedFirst DEF OpenStep, LineInv
  <2> QED BY <2>1 DEF In
<1>2. \A u \in Task : call'[u] = IF u = t THEN c ELSE call[u]
  BY DEF Becomes, OpenStep, LineInv
<1>3. LineOK(p', call')
  BY <1>2 DEF OpenStep, LineInv, LineOK
<1>4. Calls(call') = Calls(call) /\ Crs(call') = Crs(call) /\ t \in Calls(call)
  BY <1>2 DEF Calls, Crs
<1>5. Todo(call') = [Todo(call) EXCEPT ![t] = c.str]
  BY <1>2 DEF Todo
<1>6. Taken(call') = [Taken(call) EXCEPT ![t] = Head(In(p))]
  <2>1. Taken(call') = [Taken(call) EXCEPT ![t] = c.c]
    BY <1>2 DEF Taken
  <2> QED BY <1>1, <2>1
<1>7. Queued(p') = Queued(p)
  BY SameQueued
<1>8. Waiting(p', call') = Waiting(p, call) /\ t \notin Waiting(p, call)
  BY <1>7, WaitingQueued DEF OpenStep
<1>9. Todo(call)[t] = <<>>
  BY DEF Todo
<1>10. \E s \in {<<>>, <<Head(In(p))>>} : Todo(call') = [Todo(call) EXCEPT ![t] = s]
  BY <1>1, <1>5
<1>11. Line!FlowControl
  BY DEF Flow, Line!FlowControl
<1>12. Out(p') = Out(p)
  BY DEF Out
<1>13. Line!Read(t)
  BY <1>1, <1>4, <1>6, <1>8, <1>9, <1>10, <1>11, <1>12
     DEF Line!Read, Out, In, Calls, Todo, Taken, Crs, Waiting, Waits
<1> QED BY <1>3, <1>13, TransferLine

\* The first character of the buffer is sent.
LEMMA SendLine ==
  ASSUME OpenStep, call' = call, p.tx = NUL, p.snd.count # 0,
         p'.snd = Drop(p.snd, snd_bufsz), p'.tx = First(p.snd),
         p'.rcv = p.rcv, p'.rcv_fc_chr = p.rcv_fc_chr, Queued(p') \subseteq Queued(p)
  PROVE  LineStep
<1>1. Out(p) # <<>> /\ Head(Out(p)) = First(p.snd) /\ Out(p') = Tail(Out(p))
  <2>1. /\ Contents(p.snd, snd_bufsz) # <<>>
        /\ Head(Contents(p.snd, snd_bufsz)) = First(p.snd)
        /\ Contents(Drop(p.snd, snd_bufsz), snd_bufsz) = Tail(Contents(p.snd, snd_bufsz))
    BY SerialAssumption, DroppedFirst DEF OpenStep, LineInv
  <2> QED BY <2>1 DEF Out
<1>2. LineOK(p', call')
  BY DEF OpenStep, LineInv, LineOK
<1>3. Waiting(p', call') \subseteq Waiting(p, call)
  BY WaitingQueued DEF OpenStep
<1>4. Line!Wakes
  BY <1>3 DEF Line!Wakes, Waiting, Waits
<1>5. In(p') = In(p)
  BY DEF In
<1>6. Line!Send
  BY <1>1, <1>4, <1>5 DEF Line!Send, Out, In
<1> QED BY <1>2, <1>6, TransferLine

\* A character comes in.
LEMMA ReceiveLine ==
  ASSUME OpenStep, call' = call, NEW ch \in RcvChars, p.rcv.count # rcv_bufsz,
         p'.rcv = Store(p.rcv, rcv_bufsz, ch), p'.snd = p.snd, Flow,
         p'.rcv_fc_chr \in {NUL, FC_STOP, FC_START}, Queued(p') \subseteq Queued(p)
  PROVE  LineStep
<1>1. IsRing(p.rcv, rcv_bufsz) /\ rcv_bufsz \in Nat \ {0}
  BY SerialAssumption DEF OpenStep, LineInv
<1>2. In(p') = Append(In(p), ch) /\ Len(In(p)) < rcv_bufsz
  <2>1. Contents(Store(p.rcv, rcv_bufsz, ch), rcv_bufsz) = Append(Contents(p.rcv, rcv_bufsz), ch)
    BY <1>1, StoredLast
  <2>2. Len(In(p)) = p.rcv.count
    BY <1>1, ContentsLen DEF In
  <2>3. p.rcv.count < rcv_bufsz
    BY <1>1 DEF IsRing, RingOK
  <2> QED BY <2>1, <2>2, <2>3 DEF In
<1>3. LineOK(p', call')
  BY DEF OpenStep, LineInv, LineOK
<1>4. Waiting(p', call') \subseteq Waiting(p, call)
  BY WaitingQueued DEF OpenStep
<1>5. Line!Wakes /\ Line!FlowControl
  BY <1>4 DEF Line!Wakes, Waiting, Waits, Flow, Line!FlowControl
<1>6. Out(p') = Out(p)
  BY DEF Out
<1>7. Line!Receive
  BY <1>2, <1>5, <1>6 DEF Line!Receive, Out, In
<1> QED BY <1>3, <1>7, TransferLine
-----------------------------------------------------------------------------
(* The steps of a task, as steps of SerialLine. *)

LEMMA IdleLine == TextOK(Idle) /\ Idle.op = "none" /\ Idle.pc = "none" /\ Idle.c = NUL
<1>1. <<>> \in Seq({})
  OBVIOUS
<1> QED BY <1>1 DEF TextOK, Idle

\* A call whose characters are written ends, or goes on reading.
LEMMA ResumedLine ==
  ASSUME NEW c, CallOK(c), c.op # "none"
  PROVE  LET r == Resumed(c) IN
         /\ c.op = "write" => r = Idle
         /\ c.op = "read" => /\ r.op = "read" /\ r.c = c.c /\ r.str = <<>>
                             /\ r.pc \in {"rwai", "rea", "ret", "rsig"} /\ TextOK(r)
<1> DEFINE r == Resumed(c)
<1>1. c.op = "write" => r = Idle
  BY DEF Resumed
<1>2. ASSUME c.op = "read"
      PROVE  /\ r.op = "read" /\ r.c = c.c /\ r.str = <<>>
             /\ r.pc \in {"rwai", "rea", "ret", "rsig"} /\ TextOK(r)
  <2>1. PICK pc \in {"rwai", "rea", "ret", "rsig"} : r = [c EXCEPT !.pc = pc, !.str = <<>>]
    BY <1>2 DEF Resumed
  <2> HIDE DEF r
  <2>2. DOMAIN c = {"op", "pc", "str", "len", "empty", "c"}
    BY DEF CallOK
  <2>3. r.op = "read" /\ r.c = c.c /\ r.str = <<>> /\ r.pc = pc
    BY <1>2, <2>1, <2>2
  <2>4. <<>> \in Seq({})
    OBVIOUS
  <2> QED BY <2>3, <2>4 DEF TextOK
<1> QED BY <1>1, <1>2

\* A character of the text is put, and the last may end the call.
LEMMA WrittenLine ==
  ASSUME NEW c, CallOK(c), c.op # "none", TextOK(c), c.str # <<>>, NEW full \in BOOLEAN
  PROVE  LET w == Written(c, full) IN
         /\ TextOK(w) /\ w.str = Tail(c.str) /\ w.c = c.c /\ w.pc \notin {"crwai", "lf"}
         /\ w.op # "none" \/ (w.op = "none" /\ Len(c.str) = 1 /\ c.c = NUL)
<1> DEFINE d == [c EXCEPT !.str = Tail(@)]
           w == Written(c, full)
<1>0. PICK S : c.str \in Seq(S)
  BY DEF TextOK
<1>1. /\ DOMAIN c = {"op", "pc", "str", "len", "empty", "c"} /\ c.op \in {"write", "read"}
      /\ c.empty \in BOOLEAN
  BY DEF CallOK
<1>2. Tail(c.str) \in Seq(S) /\ (Tail(c.str) = <<>> => Len(c.str) = 1)
  <2>1. Len(Tail(c.str)) = Len(c.str) - 1 /\ Tail(c.str) \in Seq(S) /\ Len(c.str) \in Nat
    BY <1>0, HeadTailProperties
  <2>2. Len(<<>>) = 0
    OBVIOUS
  <2>3. Tail(c.str) = <<>> => Len(Tail(c.str)) = 0
    BY <2>2
  <2> QED BY <2>1, <2>3
<1>3. /\ DOMAIN d = DOMAIN c /\ d.op = c.op /\ d.pc = c.pc /\ d.empty = c.empty /\ d.c = c.c
      /\ d.str = Tail(c.str) /\ CallOK(d)
  <2>1. /\ DOMAIN d = DOMAIN c /\ d.op = c.op /\ d.pc = c.pc /\ d.empty = c.empty /\ d.c = c.c
        /\ d.str = Tail(c.str)
    BY <1>1
  <2> HIDE DEF d
  <2> QED BY <2>1 DEF CallOK
<1>4. w = IF d.str # <<>> THEN [d EXCEPT !.pc = IF full THEN "wai" ELSE "chr"]
          ELSE IF full THEN Resumed(d) ELSE [d EXCEPT !.pc = "sig"]
  BY DEF Written
<1> HIDE DEF d, w
<1>5. ASSUME NEW pc \in {"wai", "chr", "sig"}, w = [d EXCEPT !.pc = pc],
             d.str # <<>> <=> pc # "sig"
      PROVE  /\ TextOK(w) /\ w.str = Tail(c.str) /\ w.c = c.c /\ w.pc \notin {"crwai", "lf"}
             /\ w.op # "none"
  <2>1. w.op = c.op /\ w.pc = pc /\ w.c = c.c /\ w.str = Tail(c.str)
    BY <1>1, <1>3, <1>5
  <2>2. TextOK(w)
    BY <1>2, <1>3, <1>5, <2>1 DEF TextOK
  <2> QED BY <1>1, <2>1, <2>2
<1>6. CASE d.str # <<>>
  BY <1>4, <1>5, <1>6 DEF w
<1>7. CASE d.str = <<>> /\ ~full
  BY <1>4, <1>5, <1>7 DEF w
<1>8. CASE d.str = <<>> /\ full
  <2>1. /\ c.op = "write" => w = Idle
        /\ c.op = "read" => /\ w.op = "read" /\ w.c = c.c /\ w.str = <<>>
                            /\ w.pc \in {"rwai", "rea", "ret", "rsig"} /\ TextOK(w)
    BY <1>1, <1>3, <1>4, <1>8, ResumedLine
  <2>2. c.op = "write" => c.c = NUL
    BY DEF TextOK
  <2>3. Idle.str = <<>>
    BY DEF Idle
  <2> QED BY <1>1, <1>2, <1>3, <1>8, <2>1, <2>2, <2>3, IdleLine DEF w
<1> QED BY <1>6, <1>7, <1>8

\* What a task in a step of an open port is known to be.
LEMMA LineRunner ==
  ASSUME OpenStep, NEW t \in Task, NEW pc, Runs(t, pc), pc # "none"
  PROVE  /\ CallOK(call[t]) /\ call[t].pc = pc /\ TextOK(call[t]) /\ call[t].op # "none"
         /\ DOMAIN call = Task /\ t \notin Queued(p) /\ ~Waits(t)
         /\ ~Contains(p.rcv_sem.queue, t) /\ ~Contains(p.snd_sem.queue, t)
<1>1. /\ CallOK(call[t]) /\ call[t].pc = pc /\ DOMAIN call = Task /\ ~Waits(t)
      /\ ~Contains(p.rcv_sem.queue, t) /\ ~Contains(p.snd_sem.queue, t)
  BY Runner DEF OpenStep, Runs
<1>2. call[t].op # "none"
  BY <1>1 DEF CallOK
<1>3. TextOK(call[t])
  BY DEF OpenStep, LineInv, LineOK
<1> QED BY <1>1, <1>2, <1>3 DEF Queued

\* A permit that is not there is with the callback or with another call.
LEMMA NoPermit ==
  ASSUME OpenOK(p, call), NEW t \in Task
  PROVE  /\ p.snd_sem.cnt = 0 /\ ~InSnd(call[t]) =>
               p.snd.count = snd_bufsz \/ \E h \in Task : h # t /\ call[h].op # "none"
         /\ p.rcv_sem.cnt = 0 /\ ~InRcv(call[t]) =>
               p.rcv.count = 0 \/ \E h \in Task : h # t /\ call[h].op # "none"
<1>1. ASSUME NEW h \in Task, InSnd(call[h]) \/ InRcv(call[h]) PROVE call[h].op # "none"
  <2>1. CallOK(call[h])
    BY DEF OpenOK, CallsOK
  <2> QED BY <1>1, <2>1 DEF CallOK, InSnd, InRcv
<1>2. ASSUME p.snd_sem.cnt = 0, ~InSnd(call[t])
      PROVE  p.snd.count = snd_bufsz \/ \E h \in Task : h # t /\ call[h].op # "none"
  <2>1. \/ p.snd.count = snd_bufsz
        \/ \E h \in SndCalls(call) : OneHas(p.snd_sem, SndCalls(call), h)
    BY <1>2 DEF OpenOK, SemsOK, SemOK
  <2>2. ASSUME NEW h \in SndCalls(call) PROVE h \in Task /\ h # t /\ call[h].op # "none"
    BY <1>1, <1>2, <2>2 DEF SndCalls
  <2> QED BY <2>1, <2>2
<1>3. ASSUME p.rcv_sem.cnt = 0, ~InRcv(call[t])
      PROVE  p.rcv.count = 0 \/ \E h \in Task : h # t /\ call[h].op # "none"
  <2>1. \/ p.rcv.count = 0
        \/ \E h \in RcvCalls(call) : OneHas(p.rcv_sem, RcvCalls(call), h)
    BY <1>3 DEF OpenOK, SemsOK, SemOK
  <2>2. ASSUME NEW h \in RcvCalls(call) PROVE h \in Task /\ h # t /\ call[h].op # "none"
    BY <1>1, <1>3, <2>2 DEF RcvCalls
  <2> QED BY <2>1, <2>2
<1> QED BY <1>2, <1>3

\* A task takes a permit, or waits for it.
LEMMA WaiLine ==
  ASSUME OpenStep, NEW t \in Task, NEW s \in {"snd_sem", "rcv_sem"}, p' = wai_sem(p, s, t),
         ~Contains(p[s].queue, t), SameCalls(call', call), \A u \in Task : TextOK(call'[u]),
         call[t].op # "none",
         p[s].cnt = 0 => \/ p.snd.count = snd_bufsz \/ p.rcv.count = 0
                         \/ \E h \in Task : h # t /\ call[h].op # "none"
  PROVE  LineStep
<1>1. IsPort(p) /\ SemsOK(p, call)
  BY DEF OpenStep, OpenOK
<1>2. /\ SameText(p', p)
      /\ \/ Queued(p') = Queued(p)
         \/ p[s].cnt = 0 /\ Queued(p') = Queued(p) \cup {t}
  BY <1>1, WaiQueue
<1>3. CASE Queued(p') = Queued(p)
  <2>1. Queued(p') \subseteq Queued(p)
    BY <1>3
  <2> QED BY <1>2, <2>1, QuietLine
<1>4. CASE p[s].cnt = 0 /\ Queued(p') = Queued(p) \cup {t}
  BY <1>2, <1>4, WaitLine
<1> QED BY <1>2, <1>3, <1>4

LEMMA WaiSndLine ==
  ASSUME OpenStep, NEW t \in Task, wai_snd_sem(t)
  PROVE  LineStep
<1> DEFINE c == [call[t] EXCEPT !.pc = IF @ = "wai" THEN "chr" ELSE "lf"]
<1>1. /\ CallOK(call[t]) /\ call[t].pc \in {"wai", "crwai"} /\ TextOK(call[t])
      /\ call[t].op # "none" /\ DOMAIN call = Task /\ ~Contains(p.snd_sem.queue, t)
  BY LineRunner DEF wai_snd_sem
<1>2. Becomes(call', call, t, c) /\ p' = wai_sem(p, "snd_sem", t)
  BY <1>1 DEF wai_snd_sem, Becomes
<1>3. /\ c.str = call[t].str /\ c.c = call[t].c /\ c.op = call[t].op
      /\ c.pc = IF call[t].pc = "wai" THEN "chr" ELSE "lf"
  BY <1>1 DEF CallOK
<1> HIDE DEF c
<1>4. TextOK(c)
  BY <1>1, <1>3 DEF TextOK
<1>5. SameCalls(call', call) /\ \A u \in Task : TextOK(call'[u])
  BY <1>1, <1>2, <1>3, <1>4, SameCall DEF OpenStep
<1>6. p.snd_sem.cnt = 0 => p.snd.count = snd_bufsz \/ \E h \in Task : h # t /\ call[h].op # "none"
  BY <1>1, NoPermit DEF OpenStep, InSnd
<1> QED BY <1>1, <1>2, <1>5, <1>6, WaiLine

LEMMA WaiRcvLine ==
  ASSUME OpenStep, NEW t \in Task, wai_rcv_sem(t)
  PROVE  LineStep
<1> DEFINE c == [call[t] EXCEPT !.pc = "rea"]
<1>1. /\ CallOK(call[t]) /\ call[t].pc = "rwai" /\ TextOK(call[t])
      /\ call[t].op # "none" /\ DOMAIN call = Task /\ ~Contains(p.rcv_sem.queue, t)
  BY LineRunner DEF wai_rcv_sem
<1>2. Becomes(call', call, t, c) /\ p' = wai_sem(p, "rcv_sem", t)
  BY <1>1 DEF wai_rcv_sem, Becomes
<1>3. /\ c.str = call[t].str /\ c.c = call[t].c /\ c.op = call[t].op /\ c.pc = "rea"
  BY <1>1 DEF CallOK
<1> HIDE DEF c
<1>4. TextOK(c)
  BY <1>1, <1>3 DEF TextOK
<1>5. SameCalls(call', call) /\ \A u \in Task : TextOK(call'[u])
  BY <1>1, <1>2, <1>3, <1>4, SameCall DEF OpenStep
<1>6. ~InRcv(call[t])
  BY <1>1 DEF CallOK, InRcv
<1>7. p.rcv_sem.cnt = 0 => p.rcv.count = 0 \/ \E h \in Task : h # t /\ call[h].op # "none"
  BY <1>6, NoPermit DEF OpenStep
<1> QED BY <1>1, <1>2, <1>5, <1>7, WaiLine

\* A task gives a permit back.
LEMMA SigLine ==
  ASSUME OpenStep, NEW s \in {"snd_sem", "rcv_sem"}, p' = sig_sem(p, s)
  PROVE  SameText(p', p) /\ Queued(p') \subseteq Queued(p)
<1>1. IsPort(p) /\ SemsOK(p, call)
  BY DEF OpenStep, OpenOK
<1> QED BY <1>1, SigQuiet

LEMMA SigSndLine ==
  ASSUME OpenStep, NEW t \in Task, sig_snd_sem(t)
  PROVE  LineStep
<1> DEFINE c == Resumed(call[t])
<1>1. /\ CallOK(call[t]) /\ call[t].pc = "sig" /\ TextOK(call[t]) /\ call[t].op # "none"
      /\ t \notin Queued(p)
  BY LineRunner DEF sig_snd_sem
<1>2. Becomes(call', call, t, c) /\ p' = sig_sem(p, "snd_sem")
  BY DEF sig_snd_sem, Becomes
<1>3. /\ call[t].op = "write" => c = Idle
      /\ call[t].op = "read" => /\ c.op = "read" /\ c.c = call[t].c /\ c.str = <<>>
                                /\ c.pc \in {"rwai", "rea", "ret", "rsig"} /\ TextOK(c)
  BY <1>1, ResumedLine
<1>4. SameText(p', p) /\ Queued(p') \subseteq Queued(p)
  BY <1>2, SigLine
<1>5. call[t].str = <<>>
  BY <1>1 DEF TextOK
<1> HIDE DEF c
<1>6. CASE call[t].op = "write"
  <2>1. Becomes(call', call, t, Idle) /\ Queued(p') \subseteq Queued(p) \ {t}
    BY <1>1, <1>2, <1>3, <1>4, <1>6
  <2> QED BY <1>1, <1>4, <1>5, <2>1, ReturnLine
<1>7. CASE call[t].op = "read"
  <2>1. SameCalls(call', call) /\ \A u \in Task : TextOK(call'[u])
    BY <1>1, <1>2, <1>3, <1>5, <1>7, SameCall DEF OpenStep
  <2> QED BY <1>4, <2>1, QuietLine
<1> QED BY <1>1, <1>6, <1>7 DEF CallOK

LEMMA SigRcvLine ==
  ASSUME OpenStep, NEW t \in Task, sig_rcv_sem(t)
  PROVE  LineStep
<1>1. call[t].pc = "rsig" /\ TextOK(call[t]) /\ call[t].op # "none" /\ t \notin Queued(p)
  BY LineRunner DEF sig_rcv_sem
<1>2. Becomes(call', call, t, Idle) /\ p' = sig_sem(p, "rcv_sem")
  BY DEF sig_rcv_sem, Becomes
<1>3. SameText(p', p) /\ Queued(p') \subseteq Queued(p)
  BY <1>2, SigLine
<1>4. call[t].str = <<>>
  BY <1>1 DEF TextOK
<1>5. Queued(p') \subseteq Queued(p) \ {t}
  BY <1>1, <1>3
<1> QED BY <1>1, <1>2, <1>3, <1>4, <1>5, ReturnLine

LEMMA RetLine ==
  ASSUME OpenStep, NEW t \in Task, return_empty(t)
  PROVE  LineStep
<1>1. call[t].pc = "ret" /\ TextOK(call[t]) /\ call[t].op # "none" /\ t \notin Queued(p)
  BY LineRunner DEF return_empty
<1>2. Becomes(call', call, t, Idle) /\ p' = p
  BY DEF return_empty, Becomes
<1>3. SameText(p', p) /\ Queued(p') = Queued(p)
  BY <1>2 DEF SameText
<1>4. call[t].str = <<>>
  BY <1>1 DEF TextOK
<1>5. Queued(p') \subseteq Queued(p) \ {t}
  BY <1>1, <1>3
<1> QED BY <1>1, <1>2, <1>3, <1>4, <1>5, ReturnLine

LEMMA RelWaiLine ==
  ASSUME OpenStep, NEW t \in Task, rel_wai(t)
  PROVE  LineStep
<1>1. Becomes(call', call, t, Idle)
  BY DEF rel_wai, Becomes
<1>2. IsPort(p) /\ SemsOK(p, call)
  BY DEF OpenStep, OpenOK
<1>3. p' = [p EXCEPT !.rcv_sem.queue = RemoveFirst(@, t), !.snd_sem.queue = RemoveFirst(@, t)]
  BY DEF rel_wai
<1>4. SameText(p', p)
  BY <1>2, <1>3 DEF SameText, IsPort
<1>5. \A s \in {"snd_sem", "rcv_sem"} :
         /\ DOMAIN p[s] = {"cnt", "queue"}
         /\ p[s].queue \in Seq(Task) /\ IsInjective(p[s].queue)
  BY <1>2, QueueOf
<1>6. \A s \in {"snd_sem", "rcv_sem"} : p'[s].queue = RemoveFirst(p[s].queue, t)
  BY <1>2, <1>3, <1>5 DEF IsPort
<1>7. ASSUME NEW s \in {"snd_sem", "rcv_sem"}, NEW y \in Task
      PROVE  Contains(p'[s].queue, y) => Contains(p[s].queue, y) /\ y # t
  <2> DEFINE q == p[s].queue
             r == p'[s].queue
  <2>1. q \in Seq(Task) /\ IsInjective(q) /\ r = RemoveFirst(q, t)
    BY <1>5, <1>6
  <2> HIDE DEF q, r
  <2>2. Contains(r, y) => Contains(q, y) /\ y # t
    BY <2>1, RemoveFirstProperties
  <2> QED BY <2>2 DEF q, r
<1>8. Queued(p') \subseteq Queued(p) \ {t}
  BY <1>7 DEF Queued
<1>9. t \in Queued(p)
  BY DEF rel_wai, Waits, Queued
<1>10. call[t].op # "none"
  BY <1>9, WaitingQueued DEF OpenStep, Waiting
<1> QED BY <1>1, <1>4, <1>8, <1>9, <1>10, ReturnLine

LEMMA WriDatLine ==
  ASSUME OpenStep, NEW t \in Task, NEW str \in Strings, serial_wri_dat(t, str)
  PROVE  LineStep
<1>1. PICK c : c = [Idle EXCEPT !.op = "write", !.pc = "wai", !.str = str]
  OBVIOUS
<1>2. call[t] = Idle /\ p' = p /\ Becomes(call', call, t, c)
  BY <1>1 DEF serial_wri_dat, Becomes
<1>3. c.op = "write" /\ c.pc = "wai" /\ c.str = str /\ c.c = NUL
  BY <1>1 DEF Idle
<1>4. str \in Seq(Range(str)) /\ str # <<>>
  BY SerialAssumption
<1>5. TextOK(c)
  BY <1>3, <1>4 DEF TextOK
<1> QED BY <1>2, <1>3, <1>5, IdleLine, BeginLine

LEMMA ReaDatLine ==
  ASSUME OpenStep, NEW t \in Task, NEW len, serial_rea_dat(t, len)
  PROVE  LineStep
<1>1. PICK c : c = [Idle EXCEPT !.op = "read", !.pc = "rwai", !.len = len]
  OBVIOUS
<1>2. call[t] = Idle /\ p' = p /\ Becomes(call', call, t, c)
  BY <1>1 DEF serial_rea_dat, Becomes
<1>3. c.op = "read" /\ c.pc = "rwai" /\ c.str = <<>> /\ c.c = NUL
  BY <1>1 DEF Idle
<1>4. <<>> \in Seq({})
  OBVIOUS
<1>5. TextOK(c)
  BY <1>3, <1>4 DEF TextOK
<1> QED BY <1>2, <1>3, <1>5, IdleLine, BeginLine

\* Of a task that writes, the CR in front of its LF, or the character itself.
LEMMA WriChrLine ==
  ASSUME OpenStep, NEW t \in Task, serial_wri_chr(t)
  PROVE  LineStep
<1> DEFINE ch == Head(call[t].str)
<1>0. PICK f \in BOOLEAN : f <=> Fills(p)
  OBVIOUS
<1>1. ASSUME NEW pc \in {"chr", "lf"}, Runs(t, pc)
      PROVE  /\ CallOK(call[t]) /\ call[t].pc = pc /\ DOMAIN call = Task
             /\ TextOK(call[t]) /\ call[t].str # <<>> /\ call[t].op # "none"
             /\ t \notin Queued(p) /\ p.snd.count # snd_bufsz
  <2>1. /\ CallOK(call[t]) /\ call[t].pc = pc /\ DOMAIN call = Task /\ TextOK(call[t])
        /\ call[t].op # "none" /\ t \notin Queued(p) /\ ~Waits(t)
    BY <1>1, LineRunner
  <2>2. p.snd.count # snd_bufsz
    BY <2>1, HolderServed DEF InSnd, OpenStep
  <2>3. call[t].str # <<>>
    BY <2>1 DEF TextOK
  <2> QED BY <2>1, <2>2, <2>3
<1>2. ASSUME Runs(t, "chr"), ch = LF, p' = wri_chr(p, CR),
             call' = [call EXCEPT ![t].pc = IF Fills(p) THEN "crwai" ELSE "lf"]
      PROVE  LineStep
  <2> DEFINE c == [call[t] EXCEPT !.pc = IF Fills(p) THEN "crwai" ELSE "lf"]
  <2>1. /\ CallOK(call[t]) /\ call[t].pc = "chr" /\ DOMAIN call = Task
        /\ TextOK(call[t]) /\ call[t].str # <<>> /\ call[t].op # "none"
        /\ t \notin Queued(p) /\ p.snd.count # snd_bufsz
    BY <1>1, <1>2
  <2>2. Becomes(call', call, t, c)
    BY <1>2, <2>1 DEF Becomes
  <2>3. c.str = call[t].str /\ c.c = call[t].c /\ c.op = call[t].op /\ c.pc \in {"crwai", "lf"}
    BY <2>1 DEF CallOK
  <2> HIDE DEF c
  <2>4. TextOK(c)
    BY <2>1, <2>3 DEF TextOK
  <2> QED BY <1>2, <2>1, <2>2, <2>3, <2>4, PutCRLine
<1>3. ASSUME NEW pc \in {"chr", "lf"}, Runs(t, pc), p' = wri_chr(p, ch),
             call' = [call EXCEPT ![t] = Written(@, Fills(p))]
      PROVE  LineStep
  <2> DEFINE c == Written(call[t], f)
  <2>1. /\ CallOK(call[t]) /\ DOMAIN call = Task
        /\ TextOK(call[t]) /\ call[t].str # <<>> /\ call[t].op # "none"
        /\ t \notin Queued(p) /\ p.snd.count # snd_bufsz
    BY <1>1, <1>3
  <2>2. Becomes(call', call, t, c)
    <3>1. f = Fills(p)
      BY <1>0 DEF Fills
    <3> QED BY <1>3, <3>1 DEF Becomes
  <2>3. /\ TextOK(c) /\ c.str = Tail(call[t].str) /\ c.c = call[t].c /\ c.pc \notin {"crwai", "lf"}
        /\ c.op # "none" \/ (c.op = "none" /\ Len(call[t].str) = 1 /\ call[t].c = NUL)
    BY <2>1, WrittenLine
  <2> HIDE DEF c
  <2> QED BY <1>3, <2>1, <2>2, <2>3, PutLine
<1> QED BY <1>2, <1>3 DEF serial_wri_chr

\* A STOP or START goes out with a step, or is noted.
LEMMA FlowLine ==
  ASSUME LineInv, NEW ch \in {FC_STOP, FC_START}, NEW q, IsPort(q), NEW b,
         q.tx = p.tx, q.rcv_fc_chr = p.rcv_fc_chr,
         p' = q \/ p' = [send_fc(q, ch) EXCEPT !.rcv_stopped = b]
  PROVE  /\ p'.snd = q.snd /\ p'.rcv = q.rcv /\ SameSems(p', q) /\ Flow
         /\ p'.rcv_fc_chr \in {NUL, FC_STOP, FC_START}
<1> DEFINE s == send_fc(q, ch)
<1>1. p.rcv_fc_chr \in {NUL, FC_STOP, FC_START}
  BY DEF LineInv, LineOK
<1>2. CASE p' = q
  BY <1>1, <1>2 DEF SameSems, Flow
<1>3. CASE p' = [s EXCEPT !.rcv_stopped = b]
  <2>1. /\ s.snd = q.snd /\ s.rcv = q.rcv /\ s.rcv_fc_chr \in {q.rcv_fc_chr, ch}
        /\ s.tx = q.tx \/ (q.tx = NUL /\ s.tx = ch)
        /\ SameSems(s, q)
    BY SendFcText
  <2> HIDE DEF s
  <2>2. /\ p'.snd = s.snd /\ p'.rcv = s.rcv /\ p'.rcv_fc_chr = s.rcv_fc_chr /\ p'.tx = s.tx
        /\ SameSems(p', s)
    BY <1>3 DEF SameSems
  <2> QED BY <1>1, <2>1, <2>2 DEF SameSems, Flow
<1> QED BY <1>2, <1>3

\* A reader takes the first character.
LEMMA ReaChrLine ==
  ASSUME OpenStep, NEW t \in Task, serial_rea_chr(t)
  PROVE  LineStep
<1> DEFINE ch == First(p.rcv)
           p1 == [p EXCEPT !.rcv = Drop(@, rcv_bufsz)]
           d  == [call[t] EXCEPT !.len = @ - 1, !.empty = p1.rcv.count = 0, !.c = ch]
           c  == IF "ECHO" \in p.ioctl THEN [d EXCEPT !.pc = "wai", !.str = <<ch>>]
                                       ELSE Resumed(d)
<1>1. /\ CallOK(call[t]) /\ call[t].pc = "rea" /\ call[t].op # "none" /\ DOMAIN call = Task
      /\ call[t].str = <<>> /\ t \notin Queued(p) /\ p.rcv.count # 0
  <2>1. /\ CallOK(call[t]) /\ call[t].pc = "rea" /\ call[t].op # "none" /\ DOMAIN call = Task
        /\ TextOK(call[t]) /\ t \notin Queued(p) /\ ~Waits(t)
    BY LineRunner DEF serial_rea_chr
  <2>2. p.rcv.count # 0
    BY <2>1, HolderServed DEF InRcv, OpenStep
  <2>3. call[t].str = <<>>
    BY <2>1 DEF TextOK
  <2> QED BY <2>1, <2>2, <2>3
<1>2. /\ IsPort(p1) /\ p1.rcv = Drop(p.rcv, rcv_bufsz) /\ p1.snd = p.snd
      /\ p1.tx = p.tx /\ p1.rcv_fc_chr = p.rcv_fc_chr /\ SameSems(p1, p)
  BY DEF OpenStep, LineInv, IsPort, SameSems
<1>3. Becomes(call', call, t, c)
  BY DEF serial_rea_chr, Becomes
<1>4. p' = p1 \/ p' = [send_fc(p1, FC_START) EXCEPT !.rcv_stopped = FALSE]
  BY DEF serial_rea_chr
<1>5. /\ CallOK(d) /\ d.op = "read" /\ d.c = ch
      /\ DOMAIN d = {"op", "pc", "str", "len", "empty", "c"}
  <2>1. PICK e \in BOOLEAN : e = (p1.rcv.count = 0)
    OBVIOUS
  <2>2. /\ DOMAIN call[t] = {"op", "pc", "str", "len", "empty", "c"} /\ call[t].op = "read"
    BY <1>1 DEF CallOK
  <2>3. d = [call[t] EXCEPT !.len = @ - 1, !.empty = e, !.c = ch]
    BY <2>1
  <2> HIDE DEF d, ch
  <2>4. /\ DOMAIN d = {"op", "pc", "str", "len", "empty", "c"}
        /\ d.op = "read" /\ d.pc = "rea" /\ d.empty = e /\ d.c = ch
    BY <1>1, <2>2, <2>3
  <2> QED BY <2>4 DEF CallOK
<1>6. /\ TextOK(c) /\ c.str \in {<<>>, <<ch>>} /\ c.c = ch /\ c.op # "none"
      /\ c.pc \notin {"crwai", "lf"}
  <2> HIDE DEF d
  <2>1. CASE "ECHO" \in p.ioctl
    <3>1. c = [d EXCEPT !.pc = "wai", !.str = <<ch>>]
      BY <2>1
    <3> HIDE DEF c, ch
    <3>2. c.op = "read" /\ c.pc = "wai" /\ c.str = <<ch>> /\ c.c = ch
      BY <1>5, <3>1
    <3>3. <<ch>> \in Seq({ch}) /\ <<ch>> # <<>>
      OBVIOUS
    <3> QED BY <3>2, <3>3 DEF TextOK
  <2>2. CASE "ECHO" \notin p.ioctl
    <3>1. c = Resumed(d)
      BY <2>2
    <3> HIDE DEF c, ch
    <3> QED BY <1>5, <3>1, ResumedLine
  <2> QED BY <2>1, <2>2
<1> HIDE DEF d, c, p1
<1>7. /\ p'.snd = p.snd /\ p'.rcv = Drop(p.rcv, rcv_bufsz) /\ SameSems(p', p) /\ Flow
      /\ p'.rcv_fc_chr \in {NUL, FC_STOP, FC_START}
  <2>1. /\ p'.snd = p1.snd /\ p'.rcv = p1.rcv /\ SameSems(p', p1) /\ Flow
        /\ p'.rcv_fc_chr \in {NUL, FC_STOP, FC_START}
    BY <1>2, <1>4, FlowLine DEF OpenStep
  <2> QED BY <1>2, <2>1 DEF SameSems
<1> QED BY <1>1, <1>3, <1>6, <1>7, ReadLine DEF ch
-----------------------------------------------------------------------------
(* The callbacks, as steps of SerialLine. *)

LEMMA SameCallLine ==
  ASSUME OpenStep, call' = call
  PROVE  SameCalls(call', call) /\ \A t \in Task : TextOK(call'[t])
BY DEF SameCalls, OpenStep, LineInv, LineOK

\* A STOP or START that was noted goes out, or the first character does.
LEMMA IrdySndLine ==
  ASSUME OpenStep, sio_irdy_snd
  PROVE  LineStep
<1>1. /\ call' = call /\ p.tx = NUL /\ IsPort(p) /\ SemsOK(p, call)
      /\ SameCalls(call', call) /\ \A t \in Task : TextOK(call'[t])
  BY SameCallLine DEF OpenStep, OpenOK, sio_irdy_snd, Writable
<1>2. CASE p.rcv_fc_chr # NUL
  <2> DEFINE s == sio_snd_chr(p, p.rcv_fc_chr)
  <2>1. p' = [s EXCEPT !.rcv_fc_chr = NUL] /\ s = [p EXCEPT !.tx = p.rcv_fc_chr]
    BY <1>2 DEF sio_irdy_snd, sio_snd_chr
  <2> HIDE DEF s
  <2>2. s.snd = p.snd /\ s.rcv = p.rcv /\ s.tx = p.rcv_fc_chr /\ SameSems(s, p) /\ DOMAIN s = DOMAIN p
    BY <1>1, <2>1 DEF IsPort, SameSems
  <2>3. /\ p'.snd = p.snd /\ p'.rcv = p.rcv /\ p'.tx = p.rcv_fc_chr /\ p'.rcv_fc_chr = NUL
        /\ SameSems(p', p)
    BY <1>1, <2>1, <2>2 DEF IsPort, SameSems
  <2>4. LineOK(p', call')
    BY <1>1, <2>3 DEF LineOK
  <2>5. Flow
    BY <1>1, <1>2, <2>3 DEF OpenStep, LineInv, LineOK, Flow
  <2>6. Queued(p') \subseteq Queued(p)
    BY <2>3, SameQueued
  <2>7. Out(p') = Out(p) /\ In(p') = In(p)
    BY <2>3 DEF Out, In
  <2> QED BY <1>1, <2>4, <2>5, <2>6, <2>7, ControlLine
<1>3. CASE p.rcv_fc_chr = NUL /\ ~p.snd_stopped /\ p.snd.count > 0
  <2>1. p' = send_first(p) /\ p.snd.count # 0
    BY <1>3 DEF sio_irdy_snd
  <2>2. /\ p'.snd = Drop(p.snd, snd_bufsz) /\ p'.tx = First(p.snd)
        /\ p'.rcv = p.rcv /\ p'.rcv_fc_chr = p.rcv_fc_chr /\ Queued(p') \subseteq Queued(p)
    BY <1>1, <2>1, SendFirstText
  <2> QED BY <1>1, <2>1, <2>2, SendLine
<1>4. CASE p.rcv_fc_chr = NUL /\ ~(~p.snd_stopped /\ p.snd.count > 0)
  <2>1. p' = [p EXCEPT !.cbr = p.cbr \ {"SND"}]
    BY <1>4 DEF sio_irdy_snd
  <2>2. SameText(p', p) /\ SameSems(p', p)
    BY <1>1, <2>1 DEF SameText, SameSems, IsPort
  <2>3. Queued(p') \subseteq Queued(p)
    BY <2>2, SameQueued
  <2> QED BY <1>1, <2>2, <2>3, QuietLine
<1> QED BY <1>2, <1>3, <1>4

\* Nothing, or the first character, goes out when the port is restarted.
LEMMA RestartedLine ==
  ASSUME OpenStep, call' = call, p' = Restarted
  PROVE  LineStep
<1> DEFINE p1 == [p EXCEPT !.snd_stopped = FALSE]
           q  == send_first(p1)
<1>1. /\ IsPort(p) /\ SemsOK(p, call)
      /\ SameCalls(call', call) /\ \A t \in Task : TextOK(call'[t])
  BY SameCallLine DEF OpenStep, OpenOK
<1>2. IsPort(p1) /\ SameText(p1, p) /\ SameSems(p1, p) /\ SemsOK(p1, call)
  <2>1. IsPort(p1) /\ SameText(p1, p) /\ SameSems(p1, p)
    BY <1>1 DEF IsPort, SameText, SameSems
  <2> HIDE DEF p1
  <2> QED BY <1>1, <2>1 DEF SemsOK, SameText, SameSems
<1>3. \/ p' = p1 \/ p' = [p1 EXCEPT !.cbr = @ \cup {"SND"}]
      \/ p.tx = NUL /\ p.snd.count # 0 /\ (p' = q \/ p' = [q EXCEPT !.cbr = @ \cup {"SND"}])
  <2>1. Writable(p1) <=> p.tx = NUL
    BY <1>2 DEF Writable, SameText
  <2> HIDE DEF p1
  <2> QED BY <2>1 DEF Restarted, p1
<1> HIDE DEF p1, q
<1>4. CASE p' = p1 \/ p' = [p1 EXCEPT !.cbr = @ \cup {"SND"}]
  <2>1. SameText(p', p) /\ SameSems(p', p)
    BY <1>2, <1>4 DEF SameText, SameSems, IsPort
  <2>2. Queued(p') \subseteq Queued(p)
    BY <2>1, SameQueued
  <2> QED BY <1>1, <2>1, <2>2, QuietLine
<1>5. CASE p.tx = NUL /\ p.snd.count # 0 /\ (p' = q \/ p' = [q EXCEPT !.cbr = @ \cup {"SND"}])
  <2>1. /\ q.snd = Drop(p.snd, snd_bufsz) /\ q.tx = First(p.snd)
        /\ q.rcv = p.rcv /\ q.rcv_fc_chr = p.rcv_fc_chr
        /\ Queued(q) \subseteq Queued(p1) /\ DOMAIN q = DOMAIN p1
    BY <1>2, SendFirstText DEF q, SameText
  <2>2. Queued(p1) = Queued(p)
    BY <1>2, SameQueued
  <2>3. /\ p'.snd = q.snd /\ p'.tx = q.tx /\ p'.rcv = q.rcv /\ p'.rcv_fc_chr = q.rcv_fc_chr
        /\ SameSems(p', q)
    BY <1>2, <1>5, <2>1 DEF IsPort, SameSems
  <2>4. Queued(p') \subseteq Queued(p)
    BY <2>1, <2>2, <2>3, SameQueued
  <2> QED BY <1>5, <2>1, <2>3, <2>4, SendLine
<1> QED BY <1>3, <1>4, <1>5

\* A character comes in behind those that wait to be read, and a STOP may go
\* out.
LEMMA ReceivedLine ==
  ASSUME OpenStep, call' = call, NEW ch \in RcvChars, p.rcv.count # rcv_bufsz,
         p' = Received(ch)
  PROVE  LineStep
<1> DEFINE p1 == IF p.rcv.count = 0 THEN sig_sem(p, "rcv_sem") ELSE p
           p2 == [p1 EXCEPT !.rcv = Store(@, rcv_bufsz, ch)]
<1>1. IsPort(p) /\ SemsOK(p, call)
  BY DEF OpenStep, OpenOK
<1>2. p' = p2 \/ p' = [send_fc(p2, FC_STOP) EXCEPT !.rcv_stopped = TRUE]
  BY DEF Received
<1>3. IsPort(p1) /\ SameText(p1, p) /\ Queued(p1) \subseteq Queued(p)
  <2>1. LET q == sig_sem(p, "rcv_sem") IN
        IsPort(q) /\ SameText(q, p) /\ Queued(q) \subseteq Queued(p)
    BY <1>1, SigQuiet
  <2>2. SameText(p, p)
    BY DEF SameText
  <2> QED BY <1>1, <2>1, <2>2
<1> HIDE DEF p1
<1>4. /\ IsPort(p2) /\ p2.rcv = Store(p.rcv, rcv_bufsz, ch) /\ p2.snd = p.snd
      /\ p2.tx = p.tx /\ p2.rcv_fc_chr = p.rcv_fc_chr /\ SameSems(p2, p1)
  BY <1>3 DEF SameText, SameSems, IsPort
<1> HIDE DEF p2
<1>5. /\ p'.snd = p2.snd /\ p'.rcv = p2.rcv /\ SameSems(p', p2) /\ Flow
      /\ p'.rcv_fc_chr \in {NUL, FC_STOP, FC_START}
  BY <1>2, <1>4, FlowLine DEF OpenStep
<1>6. Queued(p') \subseteq Queued(p)
  BY <1>3, <1>4, <1>5, SameQueued
<1> QED BY <1>4, <1>5, <1>6, ReceiveLine

LEMMA IrdyRcvLine ==
  ASSUME OpenStep, NEW ch \in RcvChars, sio_irdy_rcv(ch)
  PROVE  LineStep
<1>1. /\ call' = call /\ IsPort(p)
      /\ SameCalls(call', call) /\ \A t \in Task : TextOK(call'[t])
  BY SameCallLine DEF OpenStep, LineInv, sio_irdy_rcv
<1>2. \/ p' = [p EXCEPT !.snd_stopped = TRUE]
      \/ p' = Restarted
      \/ p' = p
      \/ p.rcv.count # rcv_bufsz /\ p' = Received(ch)
  BY DEF sio_irdy_rcv
<1>3. CASE p' = p \/ p' = [p EXCEPT !.snd_stopped = TRUE]
  <2>1. SameText(p', p) /\ SameSems(p', p)
    BY <1>1, <1>3 DEF SameText, SameSems, IsPort
  <2>2. Queued(p') \subseteq Queued(p)
    BY <2>1, SameQueued
  <2> QED BY <1>1, <2>1, <2>2, QuietLine
<1>4. CASE p' = Restarted
  BY <1>1, <1>4, RestartedLine
<1>5. CASE p.rcv.count # rcv_bufsz /\ p' = Received(ch)
  BY <1>1, <1>5, ReceivedLine
<1> QED BY <1>2, <1>3, <1>4, <1>5

LEMMA CtlPorLine ==
  ASSUME OpenStep, NEW ioctl, serial_ctl_por(ioctl)
  PROVE  LineStep
<1>1. /\ call' = call /\ p' = [p EXCEPT !.ioctl = ioctl] /\ IsPort(p)
      /\ SameCalls(call', call) /\ \A t \in Task : TextOK(call'[t])
  BY SameCallLine DEF OpenStep, LineInv, serial_ctl_por
<1>2. SameText(p', p) /\ SameSems(p', p)
  BY <1>1 DEF SameText, SameSems, IsPort
<1>3. Queued(p') \subseteq Queued(p)
  BY <1>2, SameQueued
<1> QED BY <1>1, <1>2, <1>3, QuietLine
-----------------------------------------------------------------------------
(* The other steps, as steps of SerialLine. *)

\* A port is opened with empty buffers.
LEMMA OpnPorLine ==
  ASSUME LineInv, ~ended, ended' = ended, serial_opn_por
  PROVE  LineStep
<1>1. /\ call' = call /\ ~p.openflag
      /\ p' = [ClosedPort EXCEPT !.openflag = TRUE, !.ioctl = DefaultIoctl,
                                 !.rcv_sem = p.rcv_sem, !.snd_sem = p.snd_sem,
                                 !.cbr = p.cbr \cup {"RCV"}, !.tx = p.tx]
  BY DEF serial_opn_por
<1>2. /\ p'.rcv = EmptyRing(rcv_bufsz) /\ p'.snd = EmptyRing(snd_bufsz)
      /\ p'.rcv_fc_chr = NUL /\ p'.tx = p.tx /\ SameSems(p', p)
      /\ p.openflag = FALSE /\ p'.openflag = TRUE
  BY <1>1 DEF ClosedPort, SameSems, LineInv, IsPort
<1>3. In(p') = <<>> /\ Out(p') = <<>>
  BY <1>2, EmptyRingOK, ContentsLen, SerialAssumption DEF In, Out
<1>4. LineOK(p', call')
  BY <1>1, <1>2 DEF LineInv, LineOK
<1>5. UNCHANGED Line!callers
  BY <1>1, <1>2 DEF Line!callers, Waits, SameSems
<1>6. Line!Open
  BY <1>1, <1>2, <1>3, <1>5 DEF Line!Open, In, Out
<1> QED BY <1>4, <1>6 DEF LineStep, Line!Next

\* All calls end.
LEMMA NoCallsLine ==
  ASSUME call' = [t \in Task |-> Idle]
  PROVE  Line!NoCalls /\ \A t \in Task : TextOK(call'[t])
<1>1. \A t \in Task : /\ call'[t].op = "none" /\ call'[t].pc = "none" /\ call'[t].c = NUL
                      /\ call'[t].str = <<>> /\ TextOK(call'[t])
  BY IdleLine DEF Idle
<1>2. {t \in Task : call'[t].op # "none"} = {} /\ {t \in Task : call'[t].pc \in {"crwai", "lf"}} = {}
  BY <1>1
<1>3. {t \in Task : call[t].op # "none" /\ Waits(t)}' = {}
  BY <1>1
<1>4. [t \in Task |-> call'[t].str] = [t \in Task |-> <<>>]
  BY <1>1
<1>5. [t \in Task |-> call'[t].c] = [t \in Task |-> NUL]
  BY <1>1
<1> QED BY <1>1, <1>2, <1>3, <1>4, <1>5 DEF Line!NoCalls, Line!NoTodo, Line!NoTaken

LEMMA ClsPorLine ==
  ASSUME LineInv, ~ended, ended' = ended, serial_cls_por
  PROVE  LineStep
<1>1. call' = [t \in Task |-> Idle] /\ p.openflag = TRUE
  BY DEF serial_cls_por, LineInv, IsPort
<1>2. SameText(p', p) /\ p'.openflag = FALSE
  BY DEF serial_cls_por, SameText, LineInv, IsPort
<1>3. Line!NoCalls /\ \A t \in Task : TextOK(call'[t])
  BY <1>1, NoCallsLine
<1>4. LineOK(p', call')
  BY <1>2, <1>3 DEF LineInv, LineOK, SameText
<1>5. Line!Close
  BY <1>1, <1>2, <1>3 DEF Line!Close, SameText
<1> QED BY <1>4, <1>5 DEF LineStep, Line!Next

LEMMA EndLine ==
  ASSUME LineInv, ext_ker
  PROVE  LineStep
<1>1. call' = [t \in Task |-> Idle] /\ p' = p /\ ~ended /\ ended' = TRUE
  BY DEF ext_ker
<1>2. Line!NoCalls /\ \A t \in Task : TextOK(call'[t])
  BY <1>1, NoCallsLine
<1>3. LineOK(p', call')
  BY <1>1, <1>2 DEF LineInv, LineOK
<1>4. Line!End
  BY <1>1, <1>2 DEF Line!End
<1> QED BY <1>1, <1>3, <1>4 DEF LineStep, Line!Next

\* The transmitter has sent its character, of a closed port too.
LEMMA SentLine ==
  ASSUME LineInv, ~ended, ended' = ended, transmitted
  PROVE  LineStep
<1>1. call' = call /\ p.tx # NUL /\ p' = [p EXCEPT !.tx = NUL] /\ IsPort(p)
  BY DEF LineInv, transmitted
<1>2. /\ p'.snd = p.snd /\ p'.rcv = p.rcv /\ p'.tx = NUL /\ p'.rcv_fc_chr = p.rcv_fc_chr
      /\ SameSems(p', p) /\ p'.openflag = p.openflag
  BY <1>1 DEF IsPort, SameSems
<1>3. LineOK(p', call')
  BY <1>1, <1>2 DEF LineInv, LineOK
<1>4. UNCHANGED Line!callers
  BY <1>1, <1>2 DEF Line!callers, Waits, SameSems
<1>5. Line!Sent
  BY <1>1, <1>2, <1>4 DEF Line!Sent
<1>6. Line!Transfer
  BY <1>5 DEF Line!Transfer
<1> QED BY <1>2, <1>3, <1>6 DEF LineStep, Line!Next

\* What was not sent when the kernel ended is taken in its order.
LEMMA GetChrLine ==
  ASSUME LineInv, ended, ended' = ended, serial_get_chr
  PROVE  LineStep /\ IsPort(p') /\ IsRing(p'.snd, snd_bufsz) /\ p'.rcv = p.rcv
<1>1. /\ call' = call /\ p.snd.count # 0 /\ p' = [p EXCEPT !.snd = Drop(@, snd_bufsz)]
      /\ p.openflag
      /\ IsPort(p) /\ IsRing(p.snd, snd_bufsz) /\ snd_bufsz \in Nat \ {0}
  BY SerialAssumption DEF LineInv, serial_get_chr
<1>2. /\ IsPort(p') /\ p'.snd = Drop(p.snd, snd_bufsz) /\ p'.rcv = p.rcv
      /\ p'.tx = p.tx /\ p'.rcv_fc_chr = p.rcv_fc_chr
      /\ SameSems(p', p) /\ p'.openflag = p.openflag
  BY <1>1 DEF IsPort, SameSems
<1>3. IsRing(p'.snd, snd_bufsz)
  BY <1>1, <1>2, Dropped
<1>4. /\ Contents(p.snd, snd_bufsz) # <<>>
      /\ Contents(p'.snd, snd_bufsz) = Tail(Contents(p.snd, snd_bufsz))
  BY <1>1, <1>2, DroppedFirst
<1>5. LineOK(p', call')
  BY <1>1, <1>2 DEF LineInv, LineOK
<1>6. UNCHANGED Line!callers
  BY <1>1, <1>2 DEF Line!callers, Waits, SameSems
<1>7. Line!Unsent
  BY <1>1, <1>2, <1>4, <1>6 DEF Line!Unsent
<1> QED BY <1>2, <1>3, <1>5, <1>7 DEF LineStep, Line!Next

\* A step of a task while the port is open.
LEMMA TaskStepLine ==
  ASSUME OpenStep, NEW t \in Task,
         \/ TaskStep(t) \/ rel_wai(t)
         \/ \E str \in Strings : serial_wri_dat(t, str)
         \/ \E len \in Lengths : serial_rea_dat(t, len)
  PROVE  LineStep
<1>1. CASE wai_snd_sem(t)
  BY <1>1, WaiSndLine
<1>2. CASE serial_wri_chr(t)
  BY <1>2, WriChrLine
<1>3. CASE sig_snd_sem(t)
  BY <1>3, SigSndLine
<1>4. CASE wai_rcv_sem(t)
  BY <1>4, WaiRcvLine
<1>5. CASE serial_rea_chr(t)
  BY <1>5, ReaChrLine
<1>6. CASE sig_rcv_sem(t)
  BY <1>6, SigRcvLine
<1>7. CASE rel_wai(t)
  BY <1>7, RelWaiLine
<1>8. CASE \E str \in Strings : serial_wri_dat(t, str)
  BY <1>8, WriDatLine
<1>9. CASE \E len \in Lengths : serial_rea_dat(t, len)
  BY <1>9, ReaDatLine
<1>10. CASE return_empty(t)
  BY <1>10, RetLine
<1> QED BY <1>1, <1>2, <1>3, <1>4, <1>5, <1>6, <1>7, <1>8, <1>9, <1>10 DEF TaskStep

\* A task is in a call of an open port only.
LEMMA TasksOpen ==
  ASSUME LineInv, ~ended, NEW t \in Task,
         \/ TaskStep(t) \/ rel_wai(t)
         \/ \E str \in Strings : serial_wri_dat(t, str)
         \/ \E len \in Lengths : serial_rea_dat(t, len)
  PROVE  OpenOK(p, call) /\ p.openflag
<1>1. CASE p.openflag
  BY <1>1 DEF LineInv, PortInv
<1>2. CASE ~p.openflag
  <2>1. ClosedOK(p, call)
    BY <1>2 DEF LineInv, PortInv
  <2> QED BY <1>2, <2>1, ClosedStep
<1> QED BY <1>1, <1>2

\* Every step is a step of SerialLine.
LEMMA NextLine ==
  ASSUME EchoReleases = FALSE, LineInv, Next
  PROVE  LineStep
<1>1. CASE Running(serial_opn_por)
  BY <1>1, OpnPorLine DEF Running
<1>2. CASE Running(serial_cls_por)
  BY <1>2, ClsPorLine DEF Running
<1>3. CASE \E ioctl \in Ioctls : Running(serial_ctl_por(ioctl))
  <2>1. PICK ioctl \in Ioctls : serial_ctl_por(ioctl) /\ ~ended /\ ended' = ended
    BY <1>3 DEF Running
  <2>2. p.openflag /\ OpenOK(p, call)
    BY <2>1 DEF serial_ctl_por, LineInv, PortInv
  <2>3. OpenStep
    BY <2>1, <2>2, CtlPorStep DEF OpenStep
  <2> QED BY <2>1, <2>3, CtlPorLine
<1>4. CASE \E t \in Task :
              \/ Running(TaskStep(t)) \/ Running(rel_wai(t))
              \/ \E str \in Strings : Running(serial_wri_dat(t, str))
              \/ \E len \in Lengths : Running(serial_rea_dat(t, len))
  <2>1. PICK t \in Task :
              \/ Running(TaskStep(t)) \/ Running(rel_wai(t))
              \/ \E str \in Strings : Running(serial_wri_dat(t, str))
              \/ \E len \in Lengths : Running(serial_rea_dat(t, len))
    BY <1>4
  <2>2. /\ ~ended /\ ended' = ended
        /\ \/ TaskStep(t) \/ rel_wai(t)
           \/ \E str \in Strings : serial_wri_dat(t, str)
           \/ \E len \in Lengths : serial_rea_dat(t, len)
    BY <2>1 DEF Running
  <2>3. OpenOK(p, call) /\ p.openflag
    BY <2>2, TasksOpen
  <2>4. OpenOK(p', call') /\ p'.openflag = p.openflag
    BY <2>2, <2>3, TaskStepKeeps
  <2>5. OpenStep
    BY <2>2, <2>3, <2>4 DEF OpenStep
  <2> QED BY <2>2, <2>5, TaskStepLine
<1>5. CASE Running(sio_irdy_snd)
  <2>1. sio_irdy_snd /\ ~ended /\ ended' = ended
    BY <1>5 DEF Running
  <2>2. p.openflag /\ OpenOK(p, call)
    BY <2>1 DEF sio_irdy_snd, LineInv, PortInv
  <2>3. OpenStep
    BY <2>1, <2>2, IrdySndStep DEF OpenStep
  <2> QED BY <2>1, <2>3, IrdySndLine
<1>6. CASE \E c \in RcvChars : Running(sio_irdy_rcv(c))
  <2>1. PICK c \in RcvChars : sio_irdy_rcv(c) /\ ~ended /\ ended' = ended
    BY <1>6 DEF Running
  <2>2. p.openflag /\ OpenOK(p, call)
    BY <2>1 DEF sio_irdy_rcv, LineInv, PortInv
  <2>3. OpenStep
    BY <2>1, <2>2, IrdyRcvStep DEF OpenStep
  <2> QED BY <2>1, <2>3, IrdyRcvLine
<1>7. CASE Running(transmitted)
  BY <1>7, SentLine DEF Running
<1>8. CASE ext_ker
  BY <1>8, EndLine
<1>9. CASE ended /\ serial_get_chr /\ UNCHANGED ended
  BY <1>9, GetChrLine
<1> QED BY <1>1, <1>2, <1>3, <1>4, <1>5, <1>6, <1>7, <1>8, <1>9 DEF Next

\* An open port is closed by serial_cls_por only.
LEMMA StaysOpen ==
  ASSUME EchoReleases = FALSE, OpenOK(p, call), p.openflag, Next, ~ended, ~ended',
         ~Running(serial_cls_por)
  PROVE  p'.openflag
<1>1. CASE \E ioctl \in Ioctls : Running(serial_ctl_por(ioctl))
  BY <1>1, CtlPorStep DEF Running
<1>2. CASE \E t \in Task :
              \/ Running(TaskStep(t)) \/ Running(rel_wai(t))
              \/ \E str \in Strings : Running(serial_wri_dat(t, str))
              \/ \E len \in Lengths : Running(serial_rea_dat(t, len))
  BY <1>2, TaskStepKeeps DEF Running
<1>3. CASE Running(sio_irdy_snd)
  BY <1>3, IrdySndStep DEF Running
<1>4. CASE \E c \in RcvChars : Running(sio_irdy_rcv(c))
  BY <1>4, IrdyRcvStep DEF Running
<1>5. CASE Running(transmitted)
  BY <1>5, TransmittedStep DEF Running
<1>6. ~Running(serial_opn_por) /\ ~ext_ker
  BY DEF Running, serial_opn_por, ext_ker
<1> QED BY <1>1, <1>2, <1>3, <1>4, <1>5, <1>6 DEF Next

\* Of an open port PortInv says that the buffers are rings, of one that is
\* closed or ended they are as they were left.
LEMMA RingsKept ==
  ASSUME EchoReleases = FALSE, LineInv, PortInv', Next
  PROVE  /\ IsPort(p') /\ DOMAIN call' = Task
         /\ IsRing(p'.snd, snd_bufsz) /\ IsRing(p'.rcv, rcv_bufsz)
<1>0. /\ IsPort(p) /\ DOMAIN call = Task
      /\ IsRing(p.snd, snd_bufsz) /\ IsRing(p.rcv, rcv_bufsz)
  BY DEF LineInv
<1>1. CASE ~ended' /\ p'.openflag
  <2>1. OpenOK(p', call')
    BY <1>1 DEF PortInv, OpenOK, IsPort, CallsOK, QueuedOK, SemsOK, SndCalls, RcvCalls,
                CallbackOn
  <2> QED BY <2>1 DEF OpenOK, CallsOK
<1>2. CASE ~ended' /\ ~p'.openflag
  <2>1. IsPort(p') /\ call' = [t \in Task |-> Idle]
    BY <1>2 DEF PortInv, ClosedOK, IsPort
  <2>2. ~ended
    BY <1>2 DEF Next, Running, ext_ker
  <2>3. CASE Running(serial_cls_por)
    <3>1. p'.snd = p.snd /\ p'.rcv = p.rcv
      BY <1>0, <2>3 DEF Running, serial_cls_por, IsPort
    <3> QED BY <1>0, <2>1, <3>1
  <2>4. CASE ~p.openflag
    <3>1. ClosedOK(p, call)
      BY <2>2, <2>4 DEF LineInv, PortInv
    <3>2. Running(transmitted)
      <4>1. ~Running(serial_opn_por)
        <5> SUFFICES ASSUME serial_opn_por PROVE FALSE
          BY DEF Running
        <5>1. p'.openflag
          BY <3>1, OpnPorStep
        <5> QED BY <1>2, <5>1
      <4>2. ~Running(serial_cls_por) /\ ~Running(sio_irdy_snd)
        BY <2>4 DEF Running, serial_cls_por, sio_irdy_snd
      <4>3. \A ioctl \in Ioctls : ~Running(serial_ctl_por(ioctl))
        BY <2>4 DEF Running, serial_ctl_por
      <4>4. \A c \in RcvChars : ~Running(sio_irdy_rcv(c))
        BY <2>4 DEF Running, sio_irdy_rcv
      <4>5. ~\E t \in Task :
                \/ Running(TaskStep(t)) \/ Running(rel_wai(t))
                \/ \E str \in Strings : Running(serial_wri_dat(t, str))
                \/ \E len \in Lengths : Running(serial_rea_dat(t, len))
        BY <2>4, <3>1, ClosedStep DEF Running
      <4>6. ~ext_ker
        BY <1>2 DEF ext_ker
      <4> QED BY <2>2, <4>1, <4>2, <4>3, <4>4, <4>5, <4>6 DEF Next
    <3>3. p'.snd = p.snd /\ p'.rcv = p.rcv
      BY <1>0, <3>2 DEF Running, transmitted, IsPort
    <3> QED BY <1>0, <2>1, <3>3
  <2>5. p.openflag => Running(serial_cls_por)
    <3>1. p.openflag => OpenOK(p, call)
      BY <2>2 DEF LineInv, PortInv
    <3> QED BY <1>2, <2>2, <3>1, StaysOpen
  <2> QED BY <2>3, <2>4, <2>5
<1>3. CASE ended'
  <2>1. CASE ~ended
    <3>1. p' = p /\ call' = [t \in Task |-> Idle]
      BY <1>3, <2>1 DEF Next, Running, ext_ker
    <3> QED BY <1>0, <3>1
  <2>2. CASE ended
    <3>1. serial_get_chr /\ ended' = ended
      BY <2>2 DEF Next, Running, ext_ker
    <3>2. /\ IsPort(p') /\ IsRing(p'.snd, snd_bufsz) /\ p'.rcv = p.rcv
      BY <2>2, <3>1, GetChrLine
    <3>3. call' = call
      BY <3>1 DEF serial_get_chr
    <3> QED BY <1>0, <3>2, <3>3
  <2> QED BY <2>1, <2>2
<1> QED BY <1>1, <1>2, <1>3
-----------------------------------------------------------------------------
LEMMA LineInit == Init => LineInv /\ Line!Init
<1> SUFFICES ASSUME Init PROVE LineInv /\ Line!Init
  OBVIOUS
<1>1. p = ClosedPort /\ call = [t \in Task |-> Idle] /\ PortInv
  BY PortInit DEF Init
<1>2. /\ IsPort(p) /\ p.rcv = EmptyRing(rcv_bufsz) /\ p.snd = EmptyRing(snd_bufsz)
      /\ p.rcv_fc_chr = NUL /\ p.tx = NUL
  BY <1>1 DEF ClosedPort, IsPort
<1>3. /\ IsRing(p.rcv, rcv_bufsz) /\ IsRing(p.snd, snd_bufsz)
      /\ Contents(p.rcv, rcv_bufsz) = <<>> /\ Contents(p.snd, snd_bufsz) = <<>>
  BY <1>2, EmptyRingOK, ContentsLen, SerialAssumption
<1>4. LineOK(p, call)
  BY <1>1, <1>2, IdleLine DEF LineOK
<1>5. Line!Init
  <2>1. \A t \in Task : /\ call[t].op = "none" /\ call[t].pc = "none"
                        /\ call[t].str = <<>> /\ call[t].c = NUL
    BY <1>1 DEF Idle
  <2>2. /\ {t \in Task : call[t].op # "none"} = {}
        /\ {t \in Task : call[t].op # "none" /\ Waits(t)} = {}
        /\ {t \in Task : call[t].pc \in {"crwai", "lf"}} = {}
    BY <2>1
  <2>3. [t \in Task |-> call[t].str] = [t \in Task |-> <<>>]
    BY <2>1
  <2>4. [t \in Task |-> call[t].c] = [t \in Task |-> NUL]
    BY <2>1
  <2>5. p.openflag = FALSE /\ ended = FALSE
    BY <1>1 DEF Init, ClosedPort
  <2> QED BY <1>2, <1>3, <2>2, <2>3, <2>4, <2>5 DEF Line!Init, Line!NoTodo, Line!NoTaken
<1> QED BY <1>1, <1>2, <1>3, <1>4, <1>5 DEF LineInv

LEMMA LineKept ==
  ASSUME EchoReleases = FALSE, LineInv, [Next]_vars
  PROVE  LineInv' /\ [Line!Next]_(Line!vars)
<1>1. CASE UNCHANGED vars
  <2>1. LineInv'
    BY <1>1 DEF vars, LineInv, LineOK, PortInv, OpenOK, ClosedOK, IsPort, CallsOK, QueuedOK,
                SemsOK, SndCalls, RcvCalls, CallbackOn
  <2>2. UNCHANGED Line!vars
    BY <1>1 DEF vars, Line!vars, Line!callers, Waits
  <2> QED BY <2>1, <2>2
<1>2. CASE Next
  <2>1. LineStep
    BY <1>2, NextLine
  <2>2. PortInv'
    BY <1>2, PortStep DEF LineInv
  <2>3. /\ IsPort(p') /\ DOMAIN call' = Task
        /\ IsRing(p'.snd, snd_bufsz) /\ IsRing(p'.rcv, rcv_bufsz)
    BY <1>2, <2>2, RingsKept
  <2>4. LineInv'
    BY <2>1, <2>2, <2>3 DEF LineStep, LineInv, LineOK, IsPort
  <2> QED BY <2>1, <2>4 DEF LineStep
<1> QED BY <1>1, <1>2

\* The port implements SerialLine: as long as nobody ends a wait of the echo,
\* what tasks put, a CR before an LF where that is set, goes out in that order,
\* and what comes in is read in that order, past any number of waits, signals,
\* flow control characters and restarts, for all sizes of the ring buffers.
\* Each character is put by its task, taken from its buffer and sent or read
\* once: while the port is open and the kernel runs none is lost or doubled,
\* and a call does not end before it has put all it had, unless its wait is
\* released, the port closed or the kernel ended.
THEOREM LineImplemented == ASSUME EchoReleases = FALSE PROVE Spec => ImplementsLine
<1>1. Init => LineInv /\ Line!Init
  BY LineInit
<1>2. LineInv /\ [Next]_vars => LineInv' /\ [Line!Next]_(Line!vars)
  BY LineKept
<1> QED BY <1>1, <1>2, PTL DEF Spec, ImplementsLine, Line!Spec
=============================================================================
