-------------------------- MODULE SemaphoreProofs ---------------------------
(***************************************************************************)
(* A semaphore, for any numbers of tasks, priorities and permits: the      *)
(* invariant SemaphoreOK, and the refinement of Permits.                   *)
(***************************************************************************)
EXTENDS Semaphore, TaskSystemProofs

Kind    == [w \in Wobj |-> "SEM"]
Waiters == WaitersOf(k, sem)

\* The permits that are there are counted, and while one is nobody waits.
SemaphoreOK ==
    /\ ObjectOK(Kind)
    /\ semcnt \in 0 .. maxsem
    /\ semcnt > 0 => Waiters = {}

\* What a step has to keep and to be for Permits.
SemaphoreStep ==
    /\ KernelOK' /\ Kinds(k', Kind)
    /\ semcnt' \in 0 .. maxsem
    /\ semcnt' > 0 => WaitersOf(k', sem) = {}

Permitted == [Stock!Next]_(Stock!vars)

-----------------------------------------------------------------------------
LEMMA WaitersPrime == Waiters' = WaitersOf(k', sem)
BY DEF Waiters, WaitersOf

LEMMA SemaphoreKept ==
  ASSUME SemaphoreStep
  PROVE  SemaphoreOK'
<1>1. ObjectOK(Kind)'
  BY DEF SemaphoreStep, ObjectOK, Kinds, Kind
<1> QED BY <1>1, WaitersPrime DEF SemaphoreStep, SemaphoreOK

LEMMA Basics ==
  ASSUME SemaphoreAssumption, SemaphoreOK
  PROVE  /\ sem \in Wobj /\ Kind[sem] = "SEM" /\ k \in KernelData /\ QueuesOK(k)
         /\ KernelOK /\ Kinds(k, Kind) /\ ObjectOK(Kind)
         /\ isemcnt \in 0 .. maxsem /\ maxsem \in Nat /\ semcnt \in Nat
         /\ k.wait_queue[sem] = <<>> <=> Waiters = {}
<1>1. KernelOK /\ sem \in Wobj /\ Kinds(k, Kind) /\ ObjectOK(Kind)
  BY DEF SemaphoreAssumption, SemaphoreOK, ObjectOK
<1>2. k \in KernelData /\ QueuesOK(k)
  BY <1>1, SoundNow DEF Sound
<1>3. k.wait_queue[sem] = <<>> <=> Waiters = {}
  BY <1>1, <1>2, QueueTasks DEF Waiters
<1>4. Kind[sem] = "SEM"
  BY <1>1 DEF Kind
<1>5. isemcnt \in 0 .. maxsem /\ maxsem \in Nat /\ semcnt \in Nat
  BY DEF SemaphoreAssumption, SemaphoreOK
<1> QED BY <1>1, <1>2, <1>3, <1>4, <1>5

\* Who waits, as Permits sees it.
LEMMA WaitingAre ==
  ASSUME SemaphoreAssumption, NEW kk, Kinds(kk, Kind)
  PROVE  {t \in Task : "SEM" \in kk.tstat[t]} = WaitersOf(kk, sem)
<1>1. sem \in Wobj /\ Kind[sem] = "SEM" /\ \A v \in Wobj : v = sem
  BY DEF SemaphoreAssumption, Kind
<1>2. Kind[sem] \in WaitWobj
  BY <1>1 DEF WaitWobj, WaitWobjcb
<1>3. \A t \in Task : Kind[sem] \in kk.tstat[t] <=> t \in WaitersOf(kk, sem)
  BY <1>1, <1>2, FlagTells
<1>4. WaitersOf(kk, sem) \subseteq Task
  BY DEF WaitersOf
<1> QED BY <1>1, <1>3, <1>4

-----------------------------------------------------------------------------
(* The calls. *)

\* A permit is taken, or added while nobody waits: no task is touched.
LEMMA CountChanges ==
  ASSUME SemaphoreAssumption, SemaphoreOK, ctx # "INIT", Return(k),
         \/ semcnt >= 1 /\ semcnt' = semcnt - 1
         \/ /\ k.wait_queue[sem] = <<>> /\ semcnt < maxsem
            /\ semcnt' = semcnt + 1
  PROVE  SemaphoreStep /\ Permitted
<1>1. KernelOK' /\ Kinds(k', Kind) /\ WaitersOf(k', sem) = Waiters
  BY Basics, QuietCall, SameWaiters DEF Waiters
<1>2. Waiters = {}
  BY Basics DEF SemaphoreOK
<1>3. {t \in Task : "SEM" \in k.tstat[t]} = Waiters
  BY Basics, WaitingAre DEF Waiters
<1>4. {t \in Task : "SEM" \in k.tstat[t]}' = WaitersOf(k', sem)
  BY <1>1, WaitingAre
<1>5. SemaphoreStep
  BY <1>1, <1>2, Basics DEF SemaphoreStep, SemaphoreOK
<1>6. Permitted
  <2>1. CASE semcnt >= 1 /\ semcnt' = semcnt - 1
    <3>1. Stock!Take
      BY <1>1, <1>3, <1>4, <2>1, Basics DEF Stock!Take
    <3> QED BY <3>1 DEF Permitted, Stock!Next
  <2>2. CASE semcnt < maxsem /\ semcnt' = semcnt + 1
    <3>1. Stock!Give
      BY <1>1, <1>2, <1>3, <1>4, <2>2 DEF Stock!Give
    <3> QED BY <3>1 DEF Permitted, Stock!Next
  <2> QED BY <2>1, <2>2
<1> QED BY <1>5, <1>6

\* The permit goes to the first waiting task.
LEMMA Served ==
  ASSUME SemaphoreAssumption, SemaphoreOK, ctx # "INIT", k.wait_queue[sem] # <<>>,
         ReturnDispatching(FirstServed(sem)), semcnt' = semcnt
  PROVE  SemaphoreStep /\ Permitted
<1> DEFINE t == Head(k.wait_queue[sem])
<1>1. /\ KernelOK' /\ Kinds(k', Kind) /\ k'.wobj = k.wobj
      /\ t \in Waiters /\ ~TSTAT_WAIT_WOBJ(k'.tstat[t])
      /\ \A u \in Task \ {t} : k'.tstat[u] = k.tstat[u]
  BY Basics, ServeCall DEF Waiters, WaitersOf
<1>2. WaitersOf(k', sem) = Waiters \ {t}
  BY <1>1 DEF WaitersOf, Waiters
<1>3. {u \in Task : "SEM" \in k.tstat[u]} = Waiters
  BY Basics, WaitingAre DEF Waiters
<1>4. {u \in Task : "SEM" \in k.tstat[u]}' = WaitersOf(k', sem)
  BY <1>1, WaitingAre
<1> HIDE DEF t
<1>5. SemaphoreStep
  BY <1>1, <1>2 DEF SemaphoreStep, SemaphoreOK
<1>6. Stock!Give
  BY <1>1, <1>2, <1>3, <1>4 DEF Stock!Give
<1> QED BY <1>5, <1>6 DEF Permitted, Stock!Next

\* The caller waits.
LEMMA Waits ==
  ASSUME SemaphoreAssumption, SemaphoreOK, NEW call, MayWait(call),
         NEW b \in BOOLEAN, Wait(b)
  PROVE  SemaphoreStep /\ Permitted
<1> DEFINE ts == {"SEM"}
           k1 == wobj_make_wait_tmout(k, sem, ts, b)
<1>1. "SEM" \in WaitWobj \ {"MTX"} /\ "SEM" \in WaitWobjcb
  BY DEF WaitWobj, WaitWobjcb
<1>2. BeginsToWait(k1, sem, ts, b)
  BY <1>1, Basics DEF BeginsToWait
<1>3. ReturnDispatching(k1) /\ semcnt = 0 /\ semcnt' = semcnt
  BY DEF Wait
<1>4. ts = {Kind[sem]}
  BY Basics
<1> HIDE DEF k1, ts
<1>5. /\ KernelOK' /\ Kinds(k', Kind) /\ WaitsSince(k', sem, ts)
      /\ Self \notin Waiters /\ WaitersOf(k', sem) = Waiters \cup {Self}
  BY <1>2, <1>3, <1>4, Basics, WaitCall DEF Waiters
<1>6. {u \in Task : "SEM" \in k.tstat[u]} = Waiters
  BY Basics, WaitingAre DEF Waiters
<1>7. {u \in Task : "SEM" \in k.tstat[u]}' = WaitersOf(k', sem)
  BY <1>5, WaitingAre
<1>8. SemaphoreStep
  BY <1>3, <1>5, Basics DEF SemaphoreStep
<1>9. PICK t \in Task : t = Self
  BY <1>5 DEF WaitsSince
<1>10. Stock!Wait(t)
  BY <1>3, <1>5, <1>6, <1>7, <1>9 DEF Stock!Wait
<1> QED BY <1>8, <1>9, <1>10 DEF Permitted, Stock!Next

\* All waiting tasks are released.
LEMMA Reset ==
  ASSUME SemaphoreAssumption, SemaphoreOK, ini_sem
  PROVE  SemaphoreStep /\ Permitted
<1>1. ctx = "TASK" /\ ReturnDispatching(init_wait_queue(k, sem)) /\ semcnt' = isemcnt
  BY DEF ini_sem, CHECK_TSKCTX_UNL, TSKCTX
<1>2. /\ KernelOK' /\ Kinds(k', Kind) /\ k'.wait_queue = [k.wait_queue EXCEPT ![sem] = <<>>]
  BY <1>1, Basics, ResetCall
<1>3. k' \in KernelData /\ QueuesOK(k')
  BY <1>2 DEF KernelOK, QueuesOK, WaitQueues, OthersByArrival, IInv, TypeOK
<1>4. k'.wait_queue[sem] = <<>>
  BY <1>2, Basics DEF KernelData
<1>5. WaitersOf(k', sem) = {}
  BY <1>3, <1>4, Basics, QueueTasks
<1>6. {u \in Task : "SEM" \in k.tstat[u]}' = {}
  BY <1>2, <1>5, WaitingAre
<1>7. SemaphoreStep
  BY <1>1, <1>2, <1>5, Basics DEF SemaphoreStep
<1>8. Stock!Reset
  BY <1>1, <1>6 DEF Stock!Reset
<1> QED BY <1>7, <1>8 DEF Permitted, Stock!Next

\* A call of TaskSystem, or a step of something else.
LEMMA Elsewhere ==
  ASSUME SemaphoreAssumption, SemaphoreOK, [KNext]_kvars, semcnt' = semcnt
  PROVE  SemaphoreStep /\ Permitted
<1>1. KernelOK' /\ Kinds(k', Kind) /\ Keeps(k', k)
  BY Basics, KernelStep
<1>2. \/ WaitersOf(k', sem) = Waiters
      \/ \E t \in Task : WaitersOf(k', sem) = Waiters \ {t}
  BY <1>1, WaitersLeave DEF Waiters
<1>3. {u \in Task : "SEM" \in k.tstat[u]} = Waiters
  BY Basics, WaitingAre DEF Waiters
<1>4. {u \in Task : "SEM" \in k.tstat[u]}' = WaitersOf(k', sem)
  BY <1>1, WaitingAre
<1>5. SemaphoreStep
  BY <1>1, <1>2 DEF SemaphoreStep, SemaphoreOK
<1>6. CASE WaitersOf(k', sem) = Waiters
  BY <1>3, <1>4, <1>5, <1>6 DEF Permitted, Stock!vars
<1>7. CASE \E t \in Task : WaitersOf(k', sem) = Waiters \ {t}
  <2>1. PICK t \in Task : WaitersOf(k', sem) = Waiters \ {t}
    BY <1>7
  <2>2. Stock!GiveUp(t)
    BY <1>3, <1>4, <2>1 DEF Stock!GiveUp
  <2> QED BY <1>5, <2>1, <2>2 DEF Permitted, Stock!Next
<1> QED BY <1>2, <1>6, <1>7

\* Every step keeps the invariant and is a step of Permits.
LEMMA SemaphoreNext ==
  ASSUME SemaphoreAssumption, SemaphoreOK, [Next]_vars
  PROVE  SemaphoreOK' /\ Permitted
<1>1. CASE KNext /\ UNCHANGED semcnt
  BY <1>1, Elsewhere, SemaphoreKept
<1>2. CASE UNCHANGED vars
  BY <1>2, Elsewhere, SemaphoreKept DEF vars
<1>3. CASE sig_sem
  <2>1. ctx # "INIT"
    BY <1>3 DEF sig_sem, CHECK_UNL, TSKCTX
  <2>2. CASE k.wait_queue[sem] # <<>>
    BY <1>3, <2>1, <2>2, Served, SemaphoreKept DEF sig_sem
  <2>3. CASE k.wait_queue[sem] = <<>>
    BY <1>3, <2>1, <2>3, CountChanges, SemaphoreKept DEF sig_sem
  <2> QED BY <2>2, <2>3
<1>4. ASSUME NEW call, CHECK_TSKCTX_UNL(call), Acquire
      PROVE  SemaphoreStep /\ Permitted
  BY <1>4, CountChanges DEF Acquire, CHECK_TSKCTX_UNL, TSKCTX
<1>5. ASSUME NEW call, MayWait(call), NEW b \in BOOLEAN, Acquire \/ Wait(b)
      PROVE  SemaphoreStep /\ Permitted
  <2>1. CHECK_TSKCTX_UNL(call)
    BY <1>5 DEF MayWait, CHECK_DISPATCH
  <2> QED BY <1>4, <1>5, <2>1, Waits
<1>6. TRUE \in BOOLEAN /\ FALSE \in BOOLEAN
  OBVIOUS
<1>7. CASE wai_sem \/ twai_sem
  BY <1>5, <1>6, <1>7, SemaphoreKept DEF wai_sem, twai_sem
<1>8. CASE pol_sem
  BY <1>4, <1>8, SemaphoreKept DEF pol_sem
<1>9. CASE ini_sem
  BY <1>9, Reset, SemaphoreKept
<1> QED BY <1>1, <1>2, <1>3, <1>7, <1>8, <1>9 DEF Next

LEMMA SemaphoreInit ==
  ASSUME SemaphoreAssumption, Init
  PROVE  SemaphoreOK /\ Stock!Init
<1>1. ObjectOK(Kind) /\ Waiters = {} /\ Kinds(k, Kind)
  BY InitObject DEF Init, Waiters, ObjectOK
<1>2. {u \in Task : "SEM" \in k.tstat[u]} = {}
  BY <1>1, WaitingAre DEF Waiters
<1> QED BY <1>1, <1>2 DEF Init, SemaphoreOK, Stock!Init, SemaphoreAssumption

-----------------------------------------------------------------------------
(* Theorems. *)

\* No task waits for a permit that is there, and what ref_sem and ref_tsk
\* report of the semaphore agrees (semaphore.c).
THEOREM PermitsNotIdle ==
  ASSUME SemaphoreAssumption
  PROVE  Spec => []NoIdlePermit
<1>1. SemaphoreOK => NoIdlePermit
  <2> SUFFICES ASSUME SemaphoreOK PROVE NoIdlePermit
    OBVIOUS
  <2> DEFINE Ws == {t \in Task : ref_tsk(t).wobjid = sem}
  <2> HIDE DEF Ws
  <2>1. /\ Ws = Waiters
        /\ IF Ws = {} THEN wait_tskid(sem) = NULL
           ELSE /\ wait_tskid(sem) \in Ws
                /\ sem \in TA_TPRI => \A t \in Ws : get_pri(wait_tskid(sem)) <= get_pri(t)
    BY Basics, ReportedFirst DEF Ws, Waiters
  <2>2. ref_sem.semcnt = semcnt /\ ref_sem.wtskid = wait_tskid(sem)
    BY DEF ref_sem
  <2>3. semcnt <= maxsem /\ (Ws # {} => semcnt = 0)
    BY <2>1 DEF SemaphoreOK
  <2> QED BY <2>1, <2>2, <2>3 DEF NoIdlePermit, Ws
<1> QED BY <1>1, SemaphoreInit, SemaphoreNext, PTL DEF Spec

\* A semaphore is a stock of permits, of which each is given once and none is
\* lost, whatever ends the waits of tasks meanwhile (semaphore.c).
THEOREM PermitsImplemented ==
  ASSUME SemaphoreAssumption
  PROVE  Spec => ImplementsPermits
<1> QED BY SemaphoreInit, SemaphoreNext, PTL
        DEF Spec, ImplementsPermits, Stock!Spec, Permitted
=============================================================================
