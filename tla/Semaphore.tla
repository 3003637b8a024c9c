----------------------------- MODULE Semaphore -----------------------------
(***************************************************************************)
(* A semaphore (kernel/semaphore.c), used by tasks and interrupt handlers. *)
(***************************************************************************)
EXTENDS KernelObject

CONSTANTS
    sem,      \* its wait queue, a member of Wobj
    isemcnt,  \* SEMINIB.isemcnt, the number of permits at first
    maxsem    \* SEMINIB.maxsem, the greatest number

SemaphoreAssumption ==
    /\ NoMutexAssumption
    /\ Wobj = {sem}
    /\ isemcnt \in Nat /\ maxsem \in Nat \ {0} /\ isemcnt <= maxsem

VARIABLE semcnt  \* SEMCB.semcnt

vars == <<kvars, semcnt>>

-----------------------------------------------------------------------------
\* Mutant: the permit is counted before the queue is looked at.
sig_sem_CountFirst ==
    /\ CHECK_UNL("sig_sem")
    /\ \/ /\ semcnt < maxsem
          /\ semcnt' = semcnt + 1
          /\ Return(k)
       \/ /\ semcnt = maxsem /\ k.wait_queue[sem] # <<>>
          /\ ReturnDispatching(FirstServed(sem))
          /\ UNCHANGED semcnt

sig_sem ==
    /\ CHECK_UNL("sig_sem")
    /\ \/ /\ k.wait_queue[sem] # <<>>
          /\ ReturnDispatching(FirstServed(sem))
          /\ UNCHANGED semcnt
       \/ /\ k.wait_queue[sem] = <<>> /\ semcnt < maxsem
          /\ semcnt' = semcnt + 1
          /\ Return(k)

Acquire ==
    /\ semcnt >= 1
    /\ semcnt' = semcnt - 1
    /\ Return(k)

Wait(limited) ==
    /\ semcnt = 0
    /\ ReturnDispatching(wobj_make_wait_tmout(k, sem, {"SEM"}, limited))
    /\ UNCHANGED semcnt

wai_sem == MayWait("wai_sem") /\ (Acquire \/ Wait(FALSE))
pol_sem == CHECK_TSKCTX_UNL("pol_sem") /\ Acquire

\* With TMO_POL it is pol_sem, with TMO_FEVR wai_sem.
twai_sem == MayWait("twai_sem") /\ (Acquire \/ Wait(TRUE))

\* Mutant: the permits come back while the waiting tasks stay.
ini_sem_StillWaiting ==
    /\ CHECK_TSKCTX_UNL("ini_sem")
    /\ Return(k)
    /\ semcnt' = isemcnt

ini_sem ==
    /\ CHECK_TSKCTX_UNL("ini_sem")
    /\ ReturnDispatching(init_wait_queue(k, sem))
    /\ semcnt' = isemcnt

\* What it reports.
ref_sem == [wtskid |-> wait_tskid(sem), semcnt |-> semcnt]

-----------------------------------------------------------------------------
\* initialize_semaphore
Init == KInit /\ semcnt = isemcnt

Next ==
    \/ KNext /\ UNCHANGED semcnt
    \/ sig_sem \/ wai_sem \/ pol_sem \/ twai_sem \/ ini_sem

Spec == Init /\ [][Next]_vars

-----------------------------------------------------------------------------
\* No task waits for a permit that is there, whatever ended the waits of the
\* others, and ref_sem names a waiting task exactly while ref_tsk says of
\* some task that it waits for the semaphore, one of the highest priority
\* where the queue is in priority order.
NoIdlePermit ==
    LET Waits == {t \in Task : ref_tsk(t).wobjid = sem} IN
    /\ ref_sem.semcnt <= maxsem
    /\ IF Waits = {} THEN ref_sem.wtskid = NULL
       ELSE /\ ref_sem.semcnt = 0
            /\ ref_sem.wtskid \in Waits
            /\ sem \in TA_TPRI =>
                  \A t \in Waits : get_pri(ref_sem.wtskid) <= get_pri(t)

\* Each permit returned goes to one taker: none is lost, none is given twice.
Stock == INSTANCE Permits WITH
            stock   <- semcnt,
            waiting <- {t \in Task : "SEM" \in k.tstat[t]}

ImplementsPermits == Stock!Spec
=============================================================================
