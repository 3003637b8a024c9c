--------------------------- MODULE EventFlagProofs --------------------------
(***************************************************************************)
(* An event flag, for any numbers of tasks, priorities and bits: the       *)
(* invariant EventFlagOK, and the refinement of Events.  The hard part is  *)
(* set_flg, which walks through the queue and releases tasks on the way.   *)
(***************************************************************************)
EXTENDS EventFlag, TaskSystemProofs

Kind    == [w \in Wobj |-> "FLG"]
Waiters == WaitersOf(k, flg)

\* Whoever waits waits for events that have not come, and one task only where
\* a second one is refused.
EventFlagOK ==
    /\ ObjectOK(Kind)
    /\ flgptn \subseteq Bits
    /\ winfo = [t \in Task |-> winfo[t]]
    /\ \A t \in Waiters : winfo[t] \in WaitFor /\ ~Cond(flgptn, winfo[t])
    /\ "TA_WMUL" \notin flgatr => \A t, u \in Waiters : t = u

\* What a step has to keep and to be for Events.
EventFlagStep ==
    /\ KernelOK' /\ Kinds(k', Kind)
    /\ flgptn' \subseteq Bits
    /\ winfo' = [t \in Task |-> winfo'[t]]
    /\ \A t \in WaitersOf(k', flg) : winfo'[t] \in WaitFor /\ ~Cond(flgptn', winfo'[t])
    /\ "TA_WMUL" \notin flgatr' => \A t, u \in WaitersOf(k', flg) : t = u

Permitted == [Flag!Next]_(Flag!vars)

-----------------------------------------------------------------------------
(* The walk of set_flg. *)

\* The walk through a queue, task by task.
LEMMA ChecksInOrder ==
  ASSUME NEW st, NEW q \in Seq(Task)
  PROVE  \E a : /\ a[0] = st
                /\ \A n \in 1 .. Len(q) : a[n] = Check(a[n - 1], q[n])
                /\ a[Len(q)] = FoldLeft(Check, st, q)
<1> DEFINE N == Len(q)
           Body(g, s) == IF s = {} THEN st
                         ELSE Check(g[s \ {Max(s)}], q[Max(s)])
           Is(g, n) == g = [s \in SUBSET (1 .. n) |-> Body(g, s)]
           T == {n \in 0 .. N : ~ \E g : Is(g, n)}
           iter == CHOOSE g : Is(g, N)
           a == [n \in 0 .. N |-> iter[1 .. n]]
<1>1. N \in Nat
  OBVIOUS
<1>2. FoldLeft(Check, st, q) = iter[1 .. N]
  <2>1. FoldLeft(Check, st, q) =
          (CHOOSE g : g = [s \in SUBSET (DOMAIN q) |->
                IF s = {} THEN st ELSE Check(g[s \ {Max(s)}], q[Max(s)])])[DOMAIN q]
    BY Zenon DEF FoldLeft, MapThenFoldSet
  <2>2. DOMAIN q = 1 .. N
    OBVIOUS
  <2> QED BY <2>1, <2>2
<1>3. \A n \in 0 .. N : \E g : Is(g, n)
  <2> SUFFICES ASSUME T # {} PROVE FALSE
    OBVIOUS
  <2>1. T \in SUBSET Nat
    BY <1>1
  <2> DEFINE n == Min(T)
  <2>2. n \in T /\ \A m \in T : n <= m
    <3> HIDE DEF T
    <3> QED BY <2>1, SmallestNat
  <2>3. n \in 0 .. N /\ ~ \E g : Is(g, n)
    BY <2>2
  <2> HIDE DEF n
  <2>4. n # 0
    <3>1. Is([s \in SUBSET (1 .. 0) |-> st], 0)
      OBVIOUS
    <3> QED BY <2>3, <3>1
  <2>5. PICK g : Is(g, n - 1)
    <3>1. n - 1 \in 0 .. N /\ ~(n <= n - 1)
      BY <2>3, <2>4
    <3> QED BY <2>2, <3>1
  <2> DEFINE h == [s \in SUBSET (1 .. n) |->
                      IF n \in s THEN Check(g[s \ {n}], q[n]) ELSE g[s]]
  <2>6. ASSUME NEW s \in SUBSET (1 .. n) PROVE h[s] = Body(h, s)
    <3>1. n \in Nat /\ n - 1 \in Nat
      BY <2>3, <2>4
    <3>2. CASE n \in s
      <4>1. Max(s) = n
        BY <3>1, <3>2, GreatestOf
      <4>2. s \ {n} \in SUBSET (1 .. n) /\ n \notin s \ {n} /\ s # {}
        BY <3>2
      <4>3. h[s \ {n}] = g[s \ {n}]
        BY <4>2
      <4>4. h[s] = Check(g[s \ {n}], q[n])
        BY <3>2
      <4> HIDE DEF h
      <4> QED BY <4>1, <4>2, <4>3, <4>4
    <3>3. CASE n \notin s
      <4>1. s \in SUBSET (1 .. (n - 1))
        BY <3>1, <3>3
      <4>2. h[s] = Body(g, s)
        <5>1. h[s] = g[s]
          BY <3>3
        <5> HIDE DEF h, Body
        <5> QED BY <2>5, <4>1, <5>1
      <4>3. s \ {Max(s)} \in SUBSET (1 .. n) /\ n \notin s \ {Max(s)}
        BY <3>3
      <4>4. h[s \ {Max(s)}] = g[s \ {Max(s)}]
        BY <4>3
      <4> HIDE DEF h
      <4> QED BY <4>2, <4>4
    <3> QED BY <3>2, <3>3
  <2>7. Is(h, n)
    <3>1. h = [s \in SUBSET (1 .. n) |-> h[s]]
      OBVIOUS
    <3> HIDE DEF h, Body
    <3> QED BY <2>6, <3>1
  <2> QED BY <2>3, <2>7
<1>4. Is(iter, N)
  <2> HIDE DEF Is
  <2> QED BY <1>1, <1>3
<1> HIDE DEF iter
<1>5. iter[1 .. 0] = st
  <2>1. 1 .. 0 = {} /\ 1 .. 0 \in SUBSET (1 .. N)
    OBVIOUS
  <2> QED BY <1>4, <2>1
<1>6. ASSUME NEW n \in 1 .. N
      PROVE  iter[1 .. n] = Check(iter[1 .. (n - 1)], q[n])
  <2>1. /\ 1 .. n \in SUBSET (1 .. N) /\ 1 .. n # {} /\ (1 .. n) \ {n} = 1 .. (n - 1)
        /\ n \in Nat /\ n \in 1 .. n /\ 1 .. n \in SUBSET (1 .. n)
    <3>1. n \in Nat /\ 1 <= n /\ n <= N
      BY <1>1
    <3>2. n \in 1 .. n
      BY <3>1
    <3>5. 1 .. n # {}
      BY <3>2
    <3>3. (1 .. n) \ {n} = 1 .. (n - 1)
      BY <3>1
    <3>4. \A i \in 1 .. n : i \in 1 .. N
      BY <1>1, <3>1
    <3> QED BY <3>1, <3>2, <3>3, <3>4, <3>5
  <2>2. Max(1 .. n) = n
    BY <2>1, GreatestOf
  <2>3. iter[1 .. n] = Body(iter, 1 .. n)
    <3> HIDE DEF Body
    <3> QED BY <1>4, <2>1
  <2> QED BY <2>1, <2>2, <2>3
<1>7. a[0] = st /\ a[N] = FoldLeft(Check, st, q)
  BY <1>1, <1>2, <1>5
<1>8. \A n \in 1 .. N : a[n] = Check(a[n - 1], q[n])
  <2> SUFFICES ASSUME NEW n \in 1 .. N PROVE a[n] = Check(a[n - 1], q[n])
    OBVIOUS
  <2>1. n \in 0 .. N /\ n - 1 \in 0 .. N
    BY <1>1
  <2>2. a[n] = iter[1 .. n] /\ a[n - 1] = iter[1 .. (n - 1)]
    BY <2>1
  <2> QED BY <1>6, <2>2
<1> HIDE DEF a
<1> QED BY <1>7, <1>8

\* The waiting tasks whose condition the pattern p meets.
Hit(p) == {t \in Waiters : Cond(p, winfo[t])}

\* The walk with the pattern p has looked at the first n tasks of the queue q
\* and served the tasks T: those whose condition is met, or one of them if
\* that clears the pattern.
Walked(st, q, n, p, T) ==
    /\ T \subseteq Hit(p)
    /\ Sound(st.kk) /\ SameRun(st.kk, k) /\ Runnable(k) \subseteq Runnable(st.kk)
    /\ st.kk.wobj = k.wobj /\ st.kk.priority = k.priority
    /\ \A t \in T : ~TSTAT_WAITING(st.kk.tstat[t])
    /\ \A u \in Task \ T : st.kk.tstat[u] = k.tstat[u]
    /\ st.got = [t \in T |-> p]
    /\ st.ptn = IF T = {} THEN p ELSE AfterCond(p)
    /\ st.done <=> "TA_CLR" \in flgatr /\ T # {}
    /\ "TA_CLR" \in flgatr => \A t, u \in T : t = u
    /\ st.done \/ \A t : t \in T <=> \E i \in 1 .. n : q[i] = t /\ Cond(p, winfo[t])

LEMMA NextWalked ==
  ASSUME NEW q \in Seq(Task), IsInjective(q),
         \A t : t \in Waiters <=> \E i \in 1 .. Len(q) : q[i] = t, flg \in Wobj,
         NEW n \in 1 .. Len(q), NEW st, NEW p, NEW T, Walked(st, q, n - 1, p, T)
  PROVE  \E S : Walked(Check(st, q[n]), q, n, p, S)
<1> DEFINE t  == q[n]
           k1 == wait_complete([st.kk EXCEPT !.wait_queue[flg] = RemoveFirst(@, t)], t)
           r  == [kk   |-> k1,
                  ptn  |-> AfterCond(st.ptn),
                  got  |-> [u \in DOMAIN st.got \cup {t} |->
                               IF u = t THEN st.ptn ELSE st.got[u]],
                  done |-> "TA_CLR" \in flgatr]
<1>1. n \in Nat /\ 1 <= n /\ n <= Len(q) /\ Len(q) \in Nat /\ t \in Task /\ t \in Waiters
  OBVIOUS
<1>2. Check(st, t) = IF st.done \/ ~Cond(st.ptn, winfo[t]) THEN st ELSE r
  BY DEF Check
<1> HIDE DEF r
<1>3. \A u : (\E i \in 1 .. n : q[i] = u /\ Cond(p, winfo[u]))
         <=> (\E i \in 1 .. n - 1 : q[i] = u /\ Cond(p, winfo[u]))
                \/ (u = t /\ Cond(p, winfo[t]))
  <2>1. \A i : i \in 1 .. n <=> i \in 1 .. n - 1 \/ i = n
    BY <1>1
  <2> QED BY <2>1
<1>4. CASE st.done
  <2>1. Walked(st, q, n, p, T)
    BY <1>4 DEF Walked
  <2> QED BY <1>2, <1>4, <2>1
<1>5. ASSUME ~st.done
      PROVE  /\ st.ptn = p /\ ("TA_CLR" \in flgatr => T = {})
             /\ \A u : u \in T <=> \E i \in 1 .. n - 1 : q[i] = u /\ Cond(p, winfo[u])
  BY <1>5 DEF Walked, AfterCond
<1>6. CASE ~st.done /\ ~Cond(st.ptn, winfo[t])
  <2>1. \A u : u \in T <=> \E i \in 1 .. n : q[i] = u /\ Cond(p, winfo[u])
    BY <1>3, <1>5, <1>6
  <2>2. Walked(st, q, n, p, T)
    BY <2>1 DEF Walked
  <2> QED BY <1>2, <1>6, <2>2
<1>7. CASE ~st.done /\ Cond(st.ptn, winfo[t])
  <2> DEFINE S == T \cup {t}
  <2>1. st.ptn = p /\ t \in Hit(p) /\ Cond(p, winfo[t])
    BY <1>1, <1>5, <1>7 DEF Hit
  <2>2. t \notin T
    <3>1. \A i \in 1 .. n - 1 : i \in DOMAIN q /\ n \in DOMAIN q /\ i # n
      BY <1>1
    <3>2. \A i \in 1 .. n - 1 : q[i] # t
      BY <3>1 DEF IsInjective
    <3> QED BY <1>5, <1>7, <3>2
  <2>3. /\ Sound(st.kk) /\ TSTAT_WAIT_WOBJ(st.kk.tstat[t]) /\ st.kk.wobj[t] = flg
    BY <1>1, <2>2 DEF Walked, Waiters, WaitersOf
  <2> HIDE DEF t
  <2>4. /\ Sound(k1) /\ SameRun(k1, st.kk) /\ Runnable(st.kk) \subseteq Runnable(k1)
        /\ k1.wobj = st.kk.wobj /\ k1.priority = st.kk.priority
        /\ ~TSTAT_WAITING(k1.tstat[t])
        /\ \A u \in Task \ {t} : k1.tstat[u] = st.kk.tstat[u]
    BY <1>1, <2>3, AnyServes
  <2> HIDE DEF k1
  <2>5. r.kk = k1 /\ r.ptn = AfterCond(p) /\ (r.done <=> "TA_CLR" \in flgatr)
    BY <2>1 DEF r
  <2>6. r.got = [u \in S |-> p]
    <3>1. st.got = [u \in T |-> p]
      BY DEF Walked
    <3>2. r.got = [u \in DOMAIN st.got \cup {t} |-> IF u = t THEN p ELSE st.got[u]]
      BY <2>1 DEF r
    <3> QED BY <3>1, <3>2
  <2>7. /\ Sound(r.kk) /\ SameRun(r.kk, k) /\ Runnable(k) \subseteq Runnable(r.kk)
        /\ r.kk.wobj = k.wobj /\ r.kk.priority = k.priority
    BY <2>4, <2>5 DEF Walked, SameRun
  <2>8. /\ \A u \in S : ~TSTAT_WAITING(r.kk.tstat[u])
        /\ \A u \in Task \ S : r.kk.tstat[u] = k.tstat[u]
    <3>1. T \subseteq Task /\ t \notin T
      BY <2>2 DEF Walked, Hit, Waiters, WaitersOf
    <3> QED BY <2>4, <2>5, <3>1 DEF Walked
  <2>9. \A u : u \in S <=> \E i \in 1 .. n : q[i] = u /\ Cond(p, winfo[u])
    BY <1>3, <1>5, <1>7, <2>1
  <2>10. S # {} /\ S \subseteq Hit(p) /\ ("TA_CLR" \in flgatr => S = {t})
    BY <1>5, <1>7, <2>1 DEF Walked
  <2> HIDE DEF S, r
  <2>11. Walked(r, q, n, p, S)
    BY <2>5, <2>6, <2>7, <2>8, <2>9, <2>10 DEF Walked
  <2> QED BY <1>2, <1>7, <2>11 DEF t
<1> QED BY <1>4, <1>6, <1>7

\* What the walk comes to.
LEMMA WalkEnds ==
  ASSUME EventFlagAssumption, EventFlagOK, NEW p, NEW st,
         st = [kk |-> k, ptn |-> p, got |-> <<>>, done |-> FALSE],
         NEW r, r = FoldLeft(Check, st, k.wait_queue[flg])
  PROVE  \E T : /\ Walked(r, k.wait_queue[flg], Len(k.wait_queue[flg]), p, T)
                /\ r.done \/ T = Hit(p)
<1> DEFINE q == k.wait_queue[flg]
<1>1. flg \in Wobj /\ KernelOK /\ Sound(k) /\ k \in KernelData /\ QueuesOK(k)
  BY SoundNow DEF EventFlagAssumption, EventFlagOK, ObjectOK, Sound
<1>2. /\ q \in Seq(Task) /\ IsInjective(q)
      /\ \A t : t \in Waiters <=> \E i \in 1 .. Len(q) : q[i] = t
  BY <1>1, QueueTasks DEF Waiters
<1> HIDE DEF q
<1>3. PICK a : /\ a[0] = st
               /\ \A n \in 1 .. Len(q) : a[n] = Check(a[n - 1], q[n])
               /\ a[Len(q)] = FoldLeft(Check, st, q)
  BY <1>2, ChecksInOrder
<1>4. a[Len(q)] = r
  BY <1>3 DEF q
<1>5. Walked(a[0], q, 0, p, {})
  <2>1. a[0].kk = k /\ a[0].ptn = p /\ a[0].got = <<>> /\ a[0].done = FALSE
    BY <1>3
  <2>2. <<>> = [t \in {} |-> p]
    OBVIOUS
  <2>3. ~(\E i \in 1 .. 0 : TRUE)
    OBVIOUS
  <2> QED BY <1>1, <2>1, <2>2, <2>3 DEF Walked, SameRun
<1>6. \A n \in 0 .. Len(q) : \E T : Walked(a[n], q, n, p, T)
  <2> DEFINE B == {n \in 0 .. Len(q) : ~ \E T : Walked(a[n], q, n, p, T)}
  <2> SUFFICES ASSUME B # {} PROVE FALSE
    OBVIOUS
  <2>1. B \in SUBSET Nat /\ Len(q) \in Nat
    BY <1>2
  <2> DEFINE n == Min(B)
  <2>2. n \in B /\ \A m \in B : n <= m
    <3> HIDE DEF B
    <3> QED BY <2>1, SmallestNat
  <2>3. n \in 0 .. Len(q) /\ ~ \E T : Walked(a[n], q, n, p, T)
    BY <2>2
  <2> HIDE DEF n
  <2>4. n # 0
    BY <1>5, <2>3
  <2>5. n - 1 \in 0 .. Len(q) /\ n \in 1 .. Len(q) /\ ~(n <= n - 1)
    BY <2>1, <2>3, <2>4
  <2>6. PICK T : Walked(a[n - 1], q, n - 1, p, T)
    BY <2>2, <2>5
  <2>7. \E S : Walked(Check(a[n - 1], q[n]), q, n, p, S)
    BY <1>1, <1>2, <2>5, <2>6, NextWalked
  <2>8. a[n] = Check(a[n - 1], q[n])
    BY <1>3, <2>5
  <2> QED BY <2>3, <2>7, <2>8
<1>7. Len(q) \in 0 .. Len(q)
  BY <1>2
<1>8. PICK T : Walked(r, q, Len(q), p, T)
  BY <1>4, <1>6, <1>7
<1>9. r.done \/ T = Hit(p)
  BY <1>2, <1>8 DEF Walked, Hit
<1> QED BY <1>8, <1>9 DEF q

-----------------------------------------------------------------------------
(* How the state maps to Events. *)

LEMMA EventFlagKept ==
  ASSUME EventFlagStep
  PROVE  EventFlagOK'
<1>1. ObjectOK(Kind)'
  BY DEF EventFlagStep, ObjectOK, Kinds, Kind
<1>2. Waiters' = WaitersOf(k', flg)
  BY DEF Waiters, WaitersOf
<1>3. \A t \in WaitersOf(k', flg) : (~Cond(flgptn, winfo[t]))' <=> ~Cond(flgptn', winfo'[t])
  BY DEF Cond
<1>4. (winfo = [t \in Task |-> winfo[t]])'
  BY DEF EventFlagStep
<1> QED BY <1>1, <1>2, <1>3, <1>4 DEF EventFlagStep, EventFlagOK

LEMMA Basics ==
  ASSUME EventFlagAssumption, EventFlagOK
  PROVE  /\ flg \in Wobj /\ Kind[flg] = "FLG" /\ k \in KernelData /\ QueuesOK(k)
         /\ KernelOK /\ Kinds(k, Kind) /\ ObjectOK(Kind)
         /\ iflgptn \subseteq Bits /\ flgptn \subseteq Bits /\ Waiters \subseteq Task
         /\ k.wait_queue[flg] = <<>> <=> Waiters = {}
<1>1. KernelOK /\ flg \in Wobj /\ Kinds(k, Kind) /\ ObjectOK(Kind)
  BY DEF EventFlagAssumption, EventFlagOK, ObjectOK
<1>2. k \in KernelData /\ QueuesOK(k)
  BY <1>1, SoundNow DEF Sound
<1>3. k.wait_queue[flg] = <<>> <=> Waiters = {}
  BY <1>1, <1>2, QueueTasks DEF Waiters
<1>4. Kind[flg] = "FLG"
  BY <1>1 DEF Kind
<1>5. iflgptn \subseteq Bits /\ flgptn \subseteq Bits /\ Waiters \subseteq Task
  BY DEF EventFlagAssumption, EventFlagOK, Waiters, WaitersOf
<1> QED BY <1>1, <1>2, <1>3, <1>4, <1>5

\* Who waits, as Events sees it.
LEMMA WaitingAre ==
  ASSUME EventFlagAssumption, NEW kk, Kinds(kk, Kind)
  PROVE  {t \in Task : "FLG" \in kk.tstat[t]} = WaitersOf(kk, flg)
<1>1. flg \in Wobj /\ Kind[flg] = "FLG" /\ \A v \in Wobj : v = flg
  BY DEF EventFlagAssumption, Kind
<1>2. Kind[flg] \in WaitWobj
  BY <1>1 DEF WaitWobj, WaitWobjcb
<1>3. \A t \in Task : Kind[flg] \in kk.tstat[t] <=> t \in WaitersOf(kk, flg)
  BY <1>1, <1>2, FlagTells
<1>4. WaitersOf(kk, flg) \subseteq Task
  BY DEF WaitersOf
<1> QED BY <1>1, <1>3, <1>4

\* For what each task waits.
Waits == [t \in {u \in Task : "FLG" \in k.tstat[u]} |-> winfo[t]]

LEMMA WaitsAre ==
  ASSUME EventFlagAssumption, EventFlagOK
  PROVE  Waits = [t \in Waiters |-> winfo[t]] /\ DOMAIN Waits = Waiters
<1>1. {t \in Task : "FLG" \in k.tstat[t]} = Waiters
  BY Basics, WaitingAre DEF Waiters
<1> QED BY <1>1 DEF Waits

LEMMA WaitsPrime ==
  ASSUME EventFlagAssumption, Kinds(k', Kind)
  PROVE  /\ Waits' = [t \in WaitersOf(k', flg) |-> winfo'[t]]
         /\ DOMAIN Waits' = WaitersOf(k', flg)
<1>1. {t \in Task : "FLG" \in k'.tstat[t]} = WaitersOf(k', flg)
  BY WaitingAre
<1>2. Waits' = [t \in {u \in Task : "FLG" \in k'.tstat[u]} |-> winfo'[t]]
  BY DEF Waits
<1> QED BY <1>1, <1>2

\* The data of the waits end with the waits.
LEMMA InfoKept ==
  ASSUME EventFlagAssumption, NEW k1, Kinds(k', Kind),
         winfo' = [t \in Task |-> IF "FLG" \in k1.tstat[t] THEN winfo[t] ELSE NULL],
         k1.tstat = k'.tstat
  PROVE  \A t \in WaitersOf(k', flg) : winfo'[t] = winfo[t]
<1>1. {t \in Task : "FLG" \in k'.tstat[t]} = WaitersOf(k', flg)
  BY WaitingAre
<1> QED BY <1>1

\* The tasks T stop waiting, the others wait on for the same.
LEMMA WaitsWithout ==
  ASSUME EventFlagAssumption, EventFlagOK, Kinds(k', Kind), NEW T,
         WaitersOf(k', flg) = Waiters \ T,
         \A t \in WaitersOf(k', flg) : winfo'[t] = winfo[t]
  PROVE  Waits' = Flag!Without(T)
<1>1. Flag!Without(T) = [t \in Waiters \ T |-> winfo[t]]
  BY WaitsAre DEF Flag!Without, Flag!Waiting, Waits
<1>2. Waits' = [t \in Waiters \ T |-> winfo'[t]]
  BY WaitsPrime
<1> QED BY <1>1, <1>2

-----------------------------------------------------------------------------
(* The calls. *)

LEMMA Conditions ==
  ASSUME NEW p, NEW w
  PROVE  /\ Flag!Come(w, p) <=> Cond(p, w)
         /\ \A c : Cond(p \cap c, w) => Cond(p, w)
         /\ w \in WaitFor => ~Cond({}, w)
<1>1. w.waiptn \cap p = p \cap w.waiptn
  OBVIOUS
<1>2. Flag!Come(w, p) <=> Cond(p, w)
  BY <1>1 DEF Flag!Come, Cond
<1>3. \A c : Cond(p \cap c, w) => Cond(p, w)
  <2> SUFFICES ASSUME NEW c, Cond(p \cap c, w) PROVE Cond(p, w)
    OBVIOUS
  <2>1. CASE w.wfmode = "TWF_ORW"
    BY <2>1 DEF Cond
  <2>2. CASE w.wfmode # "TWF_ORW"
    BY <2>2 DEF Cond
  <2> QED BY <2>1, <2>2
<1>4. ASSUME w \in WaitFor PROVE ~Cond({}, w)
  <2>1. w.waiptn # {} /\ w.waiptn \subseteq w.waiptn
    BY <1>4 DEF WaitFor
  <2>2. ~(w.waiptn \subseteq {}) /\ {} \cap w.waiptn = {}
    BY <2>1
  <2> QED BY <2>2 DEF Cond
<1> QED BY <1>2, <1>3, <1>4

LEMMA SetCall ==
  ASSUME EventFlagAssumption, EventFlagOK, NEW setptn \in SUBSET Bits, set_flg(setptn)
  PROVE  EventFlagStep /\ Permitted
<1> DEFINE p  == flgptn \cup setptn
           st == [kk |-> k, ptn |-> p, got |-> <<>>, done |-> FALSE]
           r  == FoldLeft(Check, st, k.wait_queue[flg])
<1>1. /\ ReturnDispatching(r.kk) /\ flgatr' = flgatr /\ flgptn' = r.ptn /\ p_flgptn' = r.got
      /\ winfo' = [t \in Task |-> IF "FLG" \in r.kk.tstat[t] THEN winfo[t] ELSE NULL]
      /\ ctx # "INIT"
  BY DEF set_flg, Leave, CHECK_UNL, TSKCTX
<1>2. PICK T : /\ Walked(r, k.wait_queue[flg], Len(k.wait_queue[flg]), p, T)
               /\ r.done \/ T = Hit(p)
  BY WalkEnds
<1> HIDE DEF r
<1>3. /\ Sound(r.kk) /\ SameRun(r.kk, k) /\ Runnable(k) \subseteq Runnable(r.kk)
      /\ r.kk.wobj = k.wobj /\ \A t \in T : ~TSTAT_WAITING(r.kk.tstat[t])
      /\ \A u \in Task \ T : r.kk.tstat[u] = k.tstat[u]
      /\ T \subseteq Hit(p) /\ r.got = [t \in T |-> p]
      /\ r.ptn = IF T = {} THEN p ELSE AfterCond(p)
      /\ r.done <=> "TA_CLR" \in flgatr /\ T # {}
      /\ "TA_CLR" \in flgatr => \A t, u \in T : t = u
  BY <1>2 DEF Walked
<1>4. KernelOK' /\ SameQueueFields(k', r.kk)
  <2>1. StillRunnable(r.kk)
    BY <1>3, Basics, Caller DEF StillRunnable, SameRun, KernelOK
  <2> QED BY <1>1, <1>3, <2>1, Basics, EndSound, KernelOKPrime DEF KernelOK
<1>5. /\ k'.tstat = r.kk.tstat /\ k'.wobj = k.wobj
      /\ \A t \in T : ~TSTAT_WAIT_WOBJ(k'.tstat[t])
      /\ \A u \in Task \ T : k'.tstat[u] = k.tstat[u]
  BY <1>3, <1>4 DEF SameQueueFields, TSTAT_WAITING, TSTAT_WAIT_WOBJ, WaitFactor
<1>6. Kinds(k', Kind)
  <2>1. \A t \in Task : k'.tstat[t] = k.tstat[t] \/ ~TSTAT_WAIT_WOBJ(k'.tstat[t])
    BY <1>5
  <2> QED BY <1>5, <2>1, Basics, KindsReleased
<1>7. WaitersOf(k', flg) = Waiters \ T
  BY <1>5 DEF WaitersOf, Waiters
<1>8. \A t \in WaitersOf(k', flg) : winfo'[t] = winfo[t]
  BY <1>1, <1>5, <1>6, InfoKept
<1>9. Waits' = Flag!Without(T)
  BY <1>6, <1>7, <1>8, WaitsWithout
<1>10. Hit(p) = {t \in DOMAIN Waits : Flag!Come(Waits[t], p)}
  BY WaitsAre, Conditions DEF Hit
<1>11. p \subseteq Bits /\ r.ptn \subseteq Bits
  BY <1>3, Basics DEF AfterCond
<1>12. \A t \in WaitersOf(k', flg) : winfo'[t] \in WaitFor /\ ~Cond(flgptn', winfo'[t])
  <2> SUFFICES ASSUME NEW t \in Waiters \ T
               PROVE  winfo[t] \in WaitFor /\ ~Cond(r.ptn, winfo[t])
    BY <1>1, <1>7, <1>8
  <2>1. winfo[t] \in WaitFor
    BY DEF EventFlagOK
  <2>2. CASE r.done
    <3>1. r.ptn = {}
      BY <1>3, <2>2 DEF AfterCond
    <3> QED BY <2>1, <3>1, Conditions
  <2>3. CASE ~r.done
    <3>1. ~Cond(p, winfo[t])
      BY <1>2, <2>3 DEF Hit
    <3>2. r.ptn = p
      BY <1>3, <2>3 DEF AfterCond
    <3> QED BY <2>1, <3>1, <3>2
  <2> QED BY <2>2, <2>3
<1>13. EventFlagStep
  <2>1. "TA_WMUL" \notin flgatr' => \A t, u \in WaitersOf(k', flg) : t = u
    BY <1>1, <1>7 DEF EventFlagOK
  <2>2. flgptn' \subseteq Bits
    BY <1>1, <1>11
  <2>3. winfo' = [t \in Task |-> winfo'[t]]
    BY <1>1
  <2> QED BY <1>4, <1>6, <1>12, <2>1, <2>2, <2>3 DEF EventFlagStep
<1> HIDE DEF p
<1>14. Flag!Serve(T, p)
  BY <1>1, <1>3, <1>9 DEF Flag!Serve, Flag!Left, AfterCond, Waits
<1>15. Flag!Set(setptn)
  <2>1. CASE ~r.done
    <3>1. T = {t \in DOMAIN Waits : Flag!Come(Waits[t], p)}
      BY <1>2, <1>10, <2>1
    <3>2. T = {} \/ "TA_CLR" \notin flgatr
      BY <1>3, <2>1
    <3> QED BY <1>14, <3>1, <3>2 DEF Flag!Set, Flag!Waiting, Waits, p
  <2>2. CASE r.done
    <3>1. PICK t \in T : T = {t} /\ "TA_CLR" \in flgatr
      BY <1>3, <2>2
    <3>2. t \in {u \in DOMAIN Waits : Flag!Come(Waits[u], p)}
      BY <1>3, <1>10
    <3> QED BY <1>14, <3>1, <3>2 DEF Flag!Set, Flag!Waiting, Waits, p
  <2> QED BY <2>1, <2>2
<1> QED BY <1>1, <1>13, <1>15 DEF Permitted, Flag!Next

\* A call that leaves the tasks alone.
LEMMA FlagQuiet ==
  ASSUME EventFlagAssumption, EventFlagOK, ctx # "INIT", Leave(k)
  PROVE  /\ KernelOK' /\ Kinds(k', Kind) /\ WaitersOf(k', flg) = Waiters
         /\ flgatr' = flgatr /\ Waits' = Waits
         /\ winfo' = [t \in Task |-> winfo'[t]]
         /\ \A t \in Waiters : winfo'[t] = winfo[t]
<1>1. KernelOK' /\ Kinds(k', Kind) /\ SameQueueFields(k', k)
  BY Basics, QuietCall DEF Leave
<1>2. WaitersOf(k', flg) = Waiters /\ k.tstat = k'.tstat
  BY <1>1, SameWaiters DEF Waiters, SameQueueFields
<1>3. flgatr' = flgatr /\ \A t \in Waiters : winfo'[t] = winfo[t]
  BY <1>1, <1>2, InfoKept DEF Leave
<1>4. Waits' = Waits
  BY <1>1, <1>2, <1>3, WaitsAre, WaitsPrime
<1>5. winfo' = [t \in Task |-> winfo'[t]]
  BY DEF Leave
<1> QED BY <1>1, <1>2, <1>3, <1>4, <1>5

LEMMA ClearCall ==
  ASSUME EventFlagAssumption, EventFlagOK, NEW clrptn \in SUBSET Bits, clr_flg(clrptn)
  PROVE  EventFlagStep /\ Permitted
<1>1. /\ KernelOK' /\ Kinds(k', Kind) /\ WaitersOf(k', flg) = Waiters
      /\ flgatr' = flgatr /\ Waits' = Waits
      /\ winfo' = [t \in Task |-> winfo'[t]]
      /\ \A t \in Waiters : winfo'[t] = winfo[t]
  BY FlagQuiet DEF clr_flg, CHECK_TSKCTX_UNL, TSKCTX
<1>2. flgptn' = flgptn \cap clrptn /\ p_flgptn' = <<>>
  BY DEF clr_flg
<1>3. \A t \in Waiters : winfo[t] \in WaitFor /\ ~Cond(flgptn \cap clrptn, winfo[t])
  BY Conditions DEF EventFlagOK
<1>4. EventFlagStep
  BY <1>1, <1>2, <1>3, Basics DEF EventFlagStep, EventFlagOK
<1>5. Flag!Clear(clrptn)
  BY <1>1, <1>2 DEF Flag!Clear, Waits
<1> QED BY <1>1, <1>4, <1>5 DEF Permitted, Flag!Next

\* The events have come: the caller gets them and goes on.
LEMMA GetCall ==
  ASSUME EventFlagAssumption, EventFlagOK, TSKCTX, NEW w \in WaitFor, Satisfied(w)
  PROVE  EventFlagStep /\ Permitted
<1>1. /\ KernelOK' /\ Kinds(k', Kind) /\ WaitersOf(k', flg) = Waiters
      /\ flgatr' = flgatr /\ Waits' = Waits
      /\ winfo' = [t \in Task |-> winfo'[t]]
      /\ \A t \in Waiters : winfo'[t] = winfo[t]
  BY FlagQuiet DEF Satisfied, TSKCTX
<1>2. /\ Cond(flgptn, w) /\ flgptn' = AfterCond(flgptn)
      /\ p_flgptn' = [t \in {Self} |-> flgptn]
  BY DEF Satisfied
<1>3. \A t \in Waiters : winfo[t] \in WaitFor /\ ~Cond(AfterCond(flgptn), winfo[t])
  BY Conditions DEF EventFlagOK, AfterCond
<1>4. EventFlagStep
  BY <1>1, <1>2, <1>3, Basics DEF EventFlagStep, EventFlagOK, AfterCond
<1>5. PICK t \in Task : t = Self
  BY Basics, Caller DEF KernelOK, Self
<1>6. Flag!Get(t, w)
  BY <1>1, <1>2, <1>5, Conditions DEF Flag!Get, Flag!Left, AfterCond, Waits
<1> QED BY <1>1, <1>4, <1>5, <1>6 DEF Permitted, Flag!Next

\* The caller waits for events that have not come.
LEMMA AwaitCall ==
  ASSUME EventFlagAssumption, EventFlagOK, NEW call, MayWait(call), MayAwait,
         NEW w \in WaitFor, NEW b \in BOOLEAN, WaitForFlag(w, b)
  PROVE  EventFlagStep /\ Permitted
<1> DEFINE ts == {"FLG"}
           k1 == wobj_make_wait_tmout(k, flg, ts, b)
<1>1. "FLG" \in WaitWobj \ {"MTX"} /\ "FLG" \in WaitWobjcb
  BY DEF WaitWobj, WaitWobjcb
<1>2. BeginsToWait(k1, flg, ts, b)
  BY <1>1, Basics DEF BeginsToWait
<1>3. /\ ReturnDispatching(k1) /\ ~Cond(flgptn, w) /\ winfo' = [winfo EXCEPT ![Self] = w]
      /\ p_flgptn' = <<>> /\ flgatr' = flgatr /\ flgptn' = flgptn
  BY DEF WaitForFlag
<1>4. ts = {Kind[flg]}
  BY Basics
<1> HIDE DEF k1, ts
<1>5. /\ KernelOK' /\ Kinds(k', Kind) /\ WaitsSince(k', flg, ts)
      /\ Self \notin Waiters /\ WaitersOf(k', flg) = Waiters \cup {Self}
  BY <1>2, <1>3, <1>4, Basics, WaitCall DEF Waiters
<1>6. PICK t \in Task : t = Self
  BY <1>5 DEF WaitsSince
<1>7. /\ winfo' = [u \in Task |-> winfo'[u]] /\ winfo'[t] = w
      /\ \A u \in Task \ {t} : winfo'[u] = winfo[u]
  BY <1>3, <1>6 DEF EventFlagOK
<1>8. Waits' = [u \in Waiters \cup {t} |-> IF u = t THEN w ELSE Waits[u]]
  <2>1. \A u \in Waiters \cup {t} : winfo'[u] = IF u = t THEN w ELSE Waits[u]
    BY <1>7, WaitsAre, Basics
  <2> QED BY <1>5, <1>6, <2>1, WaitsPrime
<1>9. flgatr' = flgatr /\ ("TA_WMUL" \in flgatr \/ Waiters = {})
  BY <1>3, Basics DEF MayAwait
<1>10. EventFlagStep
  <2>1. \A u \in WaitersOf(k', flg) : winfo'[u] \in WaitFor /\ ~Cond(flgptn', winfo'[u])
    BY <1>3, <1>5, <1>6, <1>7, Basics DEF EventFlagOK
  <2>2. "TA_WMUL" \notin flgatr' => \A u, v \in WaitersOf(k', flg) : u = v
    BY <1>5, <1>9
  <2> QED BY <1>3, <1>5, <1>7, <2>1, <2>2, Basics DEF EventFlagStep
<1>11. "TA_WMUL" \in flgatr \/ Waits = <<>>
  <2>1. CASE Waiters = {}
    BY <2>1, WaitsAre
  <2> QED BY <1>9, <2>1
<1>12. Flag!Await(t, w)
  BY <1>3, <1>8, <1>11, Conditions, WaitsAre DEF Flag!Await, Flag!Waiting, Waits
<1> QED BY <1>3, <1>6, <1>10, <1>12 DEF Permitted, Flag!Next

\* All waiting tasks are released.
LEMMA ResetFlag ==
  ASSUME EventFlagAssumption, EventFlagOK, ini_flg
  PROVE  EventFlagStep /\ Permitted
<1> DEFINE k1 == init_wait_queue(k, flg)
<1>1. /\ ctx = "TASK" /\ ReturnDispatching(k1) /\ flgptn' = iflgptn
      /\ p_flgptn' = <<>> /\ flgatr' = flgatr
      /\ winfo' = [t \in Task |-> IF "FLG" \in k1.tstat[t] THEN winfo[t] ELSE NULL]
  BY DEF ini_flg, Leave, CHECK_TSKCTX_UNL, TSKCTX
<1>2. /\ KernelOK' /\ Kinds(k', Kind) /\ k'.wait_queue = [k.wait_queue EXCEPT ![flg] = <<>>]
  BY <1>1, Basics, ResetCall
<1>3. k' \in KernelData /\ QueuesOK(k')
  BY <1>2 DEF KernelOK, QueuesOK, WaitQueues, OthersByArrival, IInv, TypeOK
<1>4. k'.wait_queue[flg] = <<>>
  BY <1>2, Basics DEF KernelData
<1>5. WaitersOf(k', flg) = {}
  BY <1>3, <1>4, Basics, QueueTasks
<1>6. Waits' = <<>>
  BY <1>2, <1>5, WaitsPrime
<1>7. EventFlagStep
  BY <1>1, <1>2, <1>5, Basics DEF EventFlagStep
<1>8. Flag!Reset
  BY <1>1, <1>6 DEF Flag!Reset, Waits
<1> QED BY <1>1, <1>7, <1>8 DEF Permitted, Flag!Next

\* A call of TaskSystem, or a step of something else.
LEMMA Elsewhere ==
  ASSUME EventFlagAssumption, EventFlagOK, [KNext]_kvars,
         flgptn' = flgptn, flgatr' = flgatr, winfo' = [t \in Task |-> winfo'[t]],
         \A t \in WaitersOf(k', flg) : winfo'[t] = winfo[t],
         p_flgptn' = <<>> \/ UNCHANGED <<k, p_flgptn>>
  PROVE  EventFlagStep /\ Permitted
<1>1. KernelOK' /\ Kinds(k', Kind) /\ Keeps(k', k)
  BY Basics, KernelStep
<1>2. \/ WaitersOf(k', flg) = Waiters
      \/ \E t \in Task : WaitersOf(k', flg) = Waiters \ {t}
  BY <1>1, WaitersLeave DEF Waiters
<1>3. WaitersOf(k', flg) \subseteq Waiters
  BY <1>2
<1>4. EventFlagStep
  BY <1>1, <1>3 DEF EventFlagStep, EventFlagOK
<1>5. CASE WaitersOf(k', flg) = Waiters
  <2>1. Waits' = Waits
    BY <1>1, <1>5, WaitsAre, WaitsPrime
  <2>2. CASE p_flgptn' = <<>>
    <3>1. flgptn \cap Bits = flgptn
      BY Basics
    <3>2. Flag!Clear(Bits)
      BY <2>1, <2>2, <3>1 DEF Flag!Clear, Waits
    <3> QED BY <1>4, <3>2 DEF Permitted, Flag!Next
  <2>3. CASE UNCHANGED p_flgptn
    BY <1>4, <2>1, <2>3 DEF Permitted, Flag!vars, Waits
  <2> QED BY <2>2, <2>3
<1>6. CASE \E t \in Task : WaitersOf(k', flg) = Waiters \ {t}
  <2>1. PICK t \in Task : WaitersOf(k', flg) = Waiters \ {t}
    BY <1>6
  <2>2. CASE UNCHANGED <<k, p_flgptn>>
    <3>1. WaitersOf(k', flg) = Waiters
      BY <2>2 DEF Waiters
    <3> QED BY <1>5, <3>1
  <2>3. CASE p_flgptn' = <<>>
    <3> DEFINE T == {t} \cap Waiters
    <3>1. WaitersOf(k', flg) = Waiters \ T
      BY <2>1
    <3>2. Waits' = Flag!Without(T)
      BY <1>1, <3>1, WaitsWithout
    <3>3. Flag!GiveUp({t} \cap DOMAIN Waits)
      BY <2>3, <3>2, WaitsAre DEF Flag!GiveUp, Waits
    <3> QED BY <1>4, <2>1, <3>3 DEF Permitted, Flag!Next, Flag!Waiting, Waits
  <2> QED BY <2>2, <2>3
<1> QED BY <1>2, <1>5, <1>6

\* Every step keeps the invariant and is a step of Events.
LEMMA EventFlagNext ==
  ASSUME EventFlagAssumption, EventFlagOK, [Next]_vars
  PROVE  EventFlagOK' /\ Permitted
<1>1. CASE TaskStep
  <2>1. /\ [KNext]_kvars /\ p_flgptn' = <<>> /\ flgatr' = flgatr /\ flgptn' = flgptn
        /\ winfo' = [t \in Task |-> IF "FLG" \in k'.tstat[t] THEN winfo[t] ELSE NULL]
    BY <1>1 DEF TaskStep
  <2>2. Kinds(k', Kind)
    BY <2>1, Basics, KernelStep
  <2>3. \A t \in WaitersOf(k', flg) : winfo'[t] = winfo[t]
    BY <2>1, <2>2, InfoKept
  <2>4. winfo' = [t \in Task |-> winfo'[t]]
    BY <2>1
  <2> QED BY <2>1, <2>3, <2>4, Elsewhere, EventFlagKept
<1>2. CASE UNCHANGED vars
  <2>1. winfo' = [t \in Task |-> winfo'[t]]
    BY <1>2 DEF vars, EventFlagOK
  <2>2. k' = k /\ winfo' = winfo /\ [KNext]_kvars
    BY <1>2 DEF vars, kvars
  <2> QED BY <1>2, <2>1, <2>2, Elsewhere, EventFlagKept DEF vars
<1>3. CASE \E ptn \in SUBSET Bits : set_flg(ptn) \/ clr_flg(ptn)
  BY <1>3, SetCall, ClearCall, EventFlagKept
<1>4. ASSUME NEW call, NEW w \in WaitFor, CHECK_TSKCTX_UNL(call), Satisfied(w)
      PROVE  EventFlagStep /\ Permitted
  BY <1>4, GetCall DEF CHECK_TSKCTX_UNL
<1>5. ASSUME NEW call, NEW w \in WaitFor, MayWait(call), MayAwait, NEW b \in BOOLEAN,
             Satisfied(w) \/ WaitForFlag(w, b)
      PROVE  EventFlagStep /\ Permitted
  <2>1. CHECK_TSKCTX_UNL(call)
    BY <1>5 DEF MayWait, CHECK_DISPATCH
  <2> QED BY <1>4, <1>5, <2>1, AwaitCall
<1>6. TRUE \in BOOLEAN /\ FALSE \in BOOLEAN
  OBVIOUS
<1>7. CASE \E w \in WaitFor : wai_flg(w) \/ pol_flg(w) \/ twai_flg(w)
  <2>1. PICK w \in WaitFor : wai_flg(w) \/ pol_flg(w) \/ twai_flg(w)
    BY <1>7
  <2>2. CASE wai_flg(w) \/ twai_flg(w)
    BY <1>5, <1>6, <2>2, EventFlagKept DEF wai_flg, twai_flg
  <2>3. CASE pol_flg(w)
    BY <1>4, <2>3, EventFlagKept DEF pol_flg
  <2> QED BY <2>1, <2>2, <2>3
<1>8. CASE ini_flg
  BY <1>8, ResetFlag, EventFlagKept
<1> QED BY <1>1, <1>2, <1>3, <1>7, <1>8 DEF Next

LEMMA EventFlagInit ==
  ASSUME EventFlagAssumption, Init
  PROVE  EventFlagOK /\ Flag!Init
<1>1. ObjectOK(Kind) /\ Waiters = {} /\ Kinds(k, Kind)
  BY InitObject DEF Init, Waiters, ObjectOK
<1>2. EventFlagOK
  BY <1>1 DEF Init, EventFlagOK, EventFlagAssumption
<1>3. Waits = <<>>
  BY <1>1, <1>2, WaitsAre
<1> QED BY <1>2, <1>3 DEF Init, Flag!Init, Waits

-----------------------------------------------------------------------------
(* Theorems. *)

\* No task waits for events that have come, even those that came while others
\* were served before it, and without TA_WMUL one task waits at most; the tasks
\* that one call takes out of any places of the queue are all ready afterwards
\* (set_flg, check_flg_cond).
THEOREM EventsNotMissed ==
  ASSUME EventFlagAssumption
  PROVE  Spec => []NoMissedEvent
<1>1. EventFlagOK => NoMissedEvent
  <2> SUFFICES ASSUME EventFlagOK PROVE NoMissedEvent
    OBVIOUS
  <2> DEFINE Ws == {t \in Task : ref_tsk(t).wobjid = flg}
  <2> HIDE DEF Ws
  <2>1. /\ Ws = Waiters
        /\ Ws # {} => wait_tskid(flg) \in Ws
    BY Basics, ReportedFirst DEF Ws, Waiters
  <2>2. ref_flg.flgptn = flgptn /\ ref_flg.wtskid = wait_tskid(flg)
    BY DEF ref_flg
  <2>3. SchedulingOK
    BY Basics, KernelScheduling
  <2>4. \A t \in Waiters : ~Cond(flgptn, winfo[t])
    BY DEF EventFlagOK
  <2>5. "TA_WMUL" \notin flgatr => \A t \in Waiters : wait_tskid(flg) = t
    BY <2>1 DEF EventFlagOK
  <2> QED BY <2>1, <2>2, <2>3, <2>4, <2>5 DEF NoMissedEvent, Ws
<1> QED BY <1>1, EventFlagInit, EventFlagNext, PTL DEF Spec

\* set_flg, which walks through a queue and releases tasks on the way, serves
\* all tasks whose events have come in one step and with one pattern, or one
\* of them where that clears the pattern (eventflag.c).
THEOREM EventsImplemented ==
  ASSUME EventFlagAssumption
  PROVE  Spec => ImplementsEvents
<1> QED BY EventFlagInit, EventFlagNext, PTL
        DEF Spec, ImplementsEvents, Flag!Spec, Permitted
=============================================================================
