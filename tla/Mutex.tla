-------------------------------- MODULE Mutex --------------------------------
(***************************************************************************)
(* Mutexes (kernel/mutex.c), composed with the tasks of TaskSystem.        *)
(*                                                                         *)
(* A mutex is FIFO, in priority order, or has a priority ceiling (then its *)
(* queue is in priority order too): the current priority of a task is      *)
(* the highest of its base priority and the ceilings of the mutexes it     *)
(* holds.  Task management reaches this module through three function      *)
(* pointers, the operators substituted for TaskSystem's constants.         *)
(*                                                                         *)
(* The list of mutexes a task holds, TCB.p_lastmtx and MTXCB.p_prevmtx, is *)
(* the sequence p_lastmtx, newest first.                                   *)
(***************************************************************************)
EXTENDS Sched

CONSTANTS
    TA_ACT, TA_NOACTQUE, torder_table, Calls,  \* as in TaskSystem
    TA_CEILING,  \* the mutexes with a priority ceiling
    ceilpri      \* MTXINIB.ceilpri of those

CeilingAssumption ==
    TA_CEILING \subseteq Mtx \cap TA_TPRI /\ ceilpri \in [TA_CEILING -> Pri]

VARIABLES k, ctx, lock_flag, saved_iipm, pendsv, booted  \* as in TaskSystem

vars == <<k, ctx, lock_flag, saved_iipm, pendsv, booted>>

-----------------------------------------------------------------------------
(* What task management calls. *)

\* The ceilings of the mutexes that t holds.
HeldCeilings(kk, t) ==
    {ceilpri[m] : m \in TA_CEILING \cap ToSet(kk.p_lastmtx[t])}

\* Mutant: the mutex the task waits for is not looked at.
mutex_check_ceilpri_Held(kk, t, bpri) ==
    \A c \in HeldCeilings(kk, t) : bpri >= c

mutex_check_ceilpri(kk, t, bpri) ==
    /\ \A c \in HeldCeilings(kk, t) : bpri >= c
    /\ TSTAT_WAIT_MTX(kk.tstat[t]) /\ kk.wobj[t] \in TA_CEILING =>
          bpri >= ceilpri[kk.wobj[t]]

mutex_scan_ceilmtx(kk, t) == HeldCeilings(kk, t) # {}

mutex_calc_priority(kk, t) == Min({kk.bpriority[t]} \cup HeldCeilings(kk, t))

mutex_drop_priority(kk, t, m) ==
    LET newpri == mutex_calc_priority(kk, t) IN
    IF m \in TA_CEILING /\ ceilpri[m] = kk.priority[t]
       /\ newpri # kk.priority[t]
    THEN change_priority(kk, t, newpri, TRUE)
    ELSE kk

mutex_acquire(kk, t, m) ==
    LET k1 == [kk EXCEPT !.p_loctsk[m] = t, !.p_lastmtx[t] = <<m>> \o @] IN
    IF m \in TA_CEILING /\ ceilpri[m] < kk.priority[t]
    THEN change_priority(k1, t, ceilpri[m], TRUE)
    ELSE k1

\* Mutant: the mutex is left free, for whoever locks it first.
mutex_release_Free(kk, m) ==
    LET k1 == [kk EXCEPT !.wait_queue[m] = Tail(@), !.p_loctsk[m] = NULL]
    IN  IF kk.wait_queue[m] = <<>> THEN [kk EXCEPT !.p_loctsk[m] = NULL]
        ELSE wait_complete(k1, Head(kk.wait_queue[m]))

\* The first task of the queue becomes the owner, at the ceiling.
mutex_release(kk, m) ==
    LET t  == Head(kk.wait_queue[m])
        k1 == [wait_dequeue_tmevtb([kk EXCEPT !.wait_queue[m] = Tail(@)], t)
                  EXCEPT !.p_loctsk[m] = t,
                         !.p_lastmtx[t] = <<m>> \o @,
                         !.priority[t] =
                            IF m \in TA_CEILING /\ ceilpri[m] < @
                            THEN ceilpri[m] ELSE @]
    IN  IF kk.wait_queue[m] = <<>> THEN [kk EXCEPT !.p_loctsk[m] = NULL]
        ELSE make_non_wait(k1, t)

mutex_release_all(kk, t) ==
    FoldLeft(mutex_release, [kk EXCEPT !.p_lastmtx[t] = <<>>],
             kk.p_lastmtx[t])

K == INSTANCE TaskSystem WITH
        mtxhook_check_ceilpri <- mutex_check_ceilpri,
        mtxhook_scan_ceilmtx  <- mutex_scan_ceilmtx,
        mtxhook_release_all   <- mutex_release_all

-----------------------------------------------------------------------------
(* The service calls. *)

Self == k.p_runtsk

\* What the three calls that lock do, E_ILUSE apart.
CeilingAllows(m) == m \in TA_CEILING => k.bpriority[Self] >= ceilpri[m]
LockFree(m) ==
    /\ CeilingAllows(m)
    /\ k.p_loctsk[m] = NULL
    /\ K!Return(mutex_acquire(k, Self, m))

loc_mtx(m) ==
    /\ K!CHECK_DISPATCH("loc_mtx")
    /\ ~k.raster[Self]
    /\ \/ LockFree(m)
       \/ /\ CeilingAllows(m)
          /\ k.p_loctsk[m] \notin {NULL, Self}
          /\ K!ReturnDispatching(
                wobj_make_wait_tmout(k, m, {"MTX"}, FALSE))

ploc_mtx(m) ==
    /\ K!CHECK_TSKCTX_UNL("ploc_mtx")
    /\ LockFree(m)

tloc_mtx(m) ==
    /\ K!CHECK_DISPATCH("tloc_mtx")
    /\ ~k.raster[Self]
    /\ \/ LockFree(m)
       \/ /\ CeilingAllows(m)
          /\ k.p_loctsk[m] \notin {NULL, Self}
          /\ K!ReturnDispatching(
                wobj_make_wait_tmout(k, m, {"MTX"}, TRUE))

\* Only the mutex locked last.
unl_mtx(m) ==
    /\ K!CHECK_TSKCTX_UNL("unl_mtx")
    /\ k.p_lastmtx[Self] # <<>> /\ Head(k.p_lastmtx[Self]) = m
    /\ LET k1 == [k EXCEPT !.p_lastmtx[Self] = Tail(@)]
       IN  K!ReturnDispatching(
              mutex_release(mutex_drop_priority(k1, Self, m), m))

\* Mutant: the owner keeps the priority of the mutex taken away from it.
ini_mtx_NotDropped(m) ==
    LET k1 == init_wait_queue(k, m)
        t  == k1.p_loctsk[m]
    IN  /\ K!CHECK_TSKCTX_UNL("ini_mtx")
        /\ K!ReturnDispatching(IF t = NULL THEN k1
                               ELSE [k1 EXCEPT !.p_loctsk[m] = NULL,
                                               !.p_lastmtx[t] = RemoveFirst(@, m)])

\* Releases the waiting tasks without the mutex, and takes it away from its
\* owner, out of the middle of the list if need be.
ini_mtx(m) ==
    LET k1 == init_wait_queue(k, m)
        t  == k1.p_loctsk[m]
        k2 == [k1 EXCEPT !.p_loctsk[m] = NULL,
                         !.p_lastmtx[t] = RemoveFirst(@, m)]
    IN  /\ K!CHECK_TSKCTX_UNL("ini_mtx")
        /\ K!ReturnDispatching(IF t = NULL THEN k1
                               ELSE mutex_drop_priority(k2, t, m))

Init == K!KInit

Next ==
    \/ K!KNext
    \/ \E m \in Mtx : \/ loc_mtx(m) \/ ploc_mtx(m) \/ tloc_mtx(m)
                      \/ unl_mtx(m) \/ ini_mtx(m)

Spec == Init /\ [][Next]_vars

-----------------------------------------------------------------------------
(* Safety. *)

\* The list of a task and the owner of a mutex say the same, over every way
\* a mutex changes hands: a mutex is in the list of its owner, once, and in
\* no other, and a dormant task holds none.
MutexListOK ==
    /\ \A t \in Task :
          /\ IsInjective(k.p_lastmtx[t])
          /\ \A m \in Mtx : Contains(k.p_lastmtx[t], m) <=> k.p_loctsk[m] = t
          /\ TSTAT_DORMANT(k.tstat[t]) => k.p_lastmtx[t] = <<>>

\* The current priority of a task is the highest of its base priority and
\* the ceilings it holds, whatever changes either of them, and in whatever
\* order mutexes come and go.
PriorityOK ==
    \A t \in Task :
        k.priority[t] = Min({k.bpriority[t]}
                              \cup {ceilpri[m] : m \in {n \in TA_CEILING :
                                                         k.p_loctsk[n] = t}})

\* No task holds or awaits a mutex whose ceiling is below the task's base
\* priority: loc_mtx and chg_pri, each in its own way, keep it so.
CeilingOK ==
    \A m \in TA_CEILING : \A t \in Task :
        k.p_loctsk[m] = t \/ Contains(k.wait_queue[m], t) =>
            k.bpriority[t] >= ceilpri[m]

\* A task waits for a mutex only while another task holds it, so that a
\* release is still to come.
WaitersHaveOwner ==
    \A m \in Mtx : k.wait_queue[m] # <<>> =>
        k.p_loctsk[m] \in Task \ ToSet(k.wait_queue[m])

\* Who has a mutex is known to both sides, as long as a task waits for it
\* somebody is there to release it, and the priority of the owner is the
\* ceiling's: after every lock, hand-over, initialization and termination.
MutexOK == MutexListOK /\ WaitersHaveOwner /\ PriorityOK

\* What TaskSystem promises of queues and dispatching holds also through the
\* changes of priority made here.  mutex.c:355 asserts part of it: taking a
\* mutex never makes another task the one that should run.
SchedulingOK == K!SchedulingOK

\* The protocol of the ceilings, while base priorities change and waits end
\* in every way: every ceiling is respected by who holds or awaits the mutex,
\* priorities follow, and the scheduler notices.
CeilingsOK == PriorityOK /\ CeilingOK /\ SchedulingOK

\* The mutex goes to the task that is first in its queue, and no task gets
\* it while another one holds it.
HandsOver ==
    \A m \in Mtx : k'.p_loctsk[m] # k.p_loctsk[m] /\ k.p_loctsk[m] # NULL =>
        IF k.wait_queue[m] = <<>> \/ ini_mtx(m) THEN k'.p_loctsk[m] = NULL
        ELSE k'.p_loctsk[m] = Head(k.wait_queue[m])

HandedOver == [][HandsOver]_vars
=============================================================================
