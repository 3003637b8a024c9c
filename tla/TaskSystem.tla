----------------------------- MODULE TaskSystem -----------------------------
(***************************************************************************)
(* Tasks, dispatching and interrupts of the ASP3 kernel: the service calls *)
(* of task_manage.c, task_sync.c, task_term.c and sys_manage.c, chg_ipm,   *)
(* the boot of the kernel and the dispatcher of the ARM-M target.          *)
(*                                                                         *)
(* One action is one service call: the kernel runs it with the CPU locked, *)
(* so no kernel interrupt and no other task comes in between.  A call that *)
(* dispatches ends with another task running, which goes on from its own   *)
(* call.  A call whose checks fail (E_CTX, E_OBJ, E_QOVR, ...) changes no  *)
(* state and is not a step.                                                *)
(*                                                                         *)
(* The application is every task and every interrupt handler doing         *)
(* anything it may do at any moment, within the calls named in Calls.      *)
(***************************************************************************)
EXTENDS Sched

CONSTANTS
    TA_ACT,       \* the tasks the kernel activates at boot
    TA_NOACTQUE,  \* the tasks whose activation requests are not queued
    torder_table, \* the tasks, in the order the boot initializes them
    Calls,        \* the service calls the application makes
    \* The function pointers through which task management reaches the
    \* mutexes (mutex.c), called only for a task that holds or awaits one.
    mtxhook_check_ceilpri(_, _, _),
    mtxhook_scan_ceilmtx(_, _),
    mtxhook_release_all(_, _)

ASSUME AttributeAssumption == TA_ACT \subseteq Task /\ TA_NOACTQUE \subseteq Task
ASSUME TorderAssumption ==
    /\ torder_table \in Seq(Task)
    /\ \A i, j \in DOMAIN torder_table :
          torder_table[i] = torder_table[j] => i = j

VARIABLES
    k,          \* the kernel's data section, see Sched
    ctx,        \* "INIT" in the boot, "TASK", or "INT" in an interrupt handler
    lock_flag,  \* the CPU is locked by the application (loc_cpu)
    saved_iipm, \* the interrupt priority mask: "ENAALL" or "MASKED"
    pendsv,     \* a dispatch is requested for the end of the interrupts
    booted      \* number of tasks the boot has initialized

cpu  == <<ctx, lock_flag, saved_iipm, pendsv, booted>>
kvars == <<k, ctx, lock_flag, saved_iipm, pendsv, booted>>

-----------------------------------------------------------------------------
(* Who may call. *)

\* The running task calls (an idle processor calls nothing).
TSKCTX == ctx = "TASK" /\ k.p_runtsk # NULL
CHECK_TSKCTX_UNL(call) == call \in Calls /\ TSKCTX /\ ~lock_flag
CHECK_UNL(call) == call \in Calls /\ ~lock_flag /\ (TSKCTX \/ ctx = "INT")
CHECK_DISPATCH(call) == CHECK_TSKCTX_UNL(call) /\ k.dspflg

-----------------------------------------------------------------------------
(* How a call ends. *)

\* Mutant: a preempted task loses its place in the ready queue.
dispatch_Requeue(kk) ==
    LET t == kk.p_runtsk
        k1 == [kk EXCEPT !.p_runtsk = kk.p_schedtsk]
    IN  IF t # NULL /\ t # kk.p_schedtsk /\ t \in Runnable(kk)
        THEN [k1 EXCEPT !.ready_queue[kk.priority[t]] =
                           Append(RemoveFirst(@, t), t)]
        ELSE k1

\* The dispatcher gives the processor to the task that should run.
dispatch(kk) == [kk EXCEPT !.p_runtsk = kk.p_schedtsk]

\* Ends without a dispatch.
Return(kk) == k' = kk /\ UNCHANGED cpu

\* Ends with a dispatch: at once in a task, and by the PendSV exception
\* after the interrupt handlers otherwise.
ReturnDispatching(kk) ==
    /\ k' = IF ctx = "TASK" THEN dispatch(kk) ELSE kk
    /\ pendsv' = (pendsv \/ (ctx = "INT" /\ kk.p_runtsk # kk.p_schedtsk))
    /\ UNCHANGED <<ctx, lock_flag, saved_iipm, booted>>

\* The calling task has ended: its context is given up and the next task
\* runs, with the CPU unlocked and no interrupt masked.
exit_and_dispatch(kk) ==
    /\ k' = dispatch(kk)
    /\ lock_flag' = FALSE
    /\ saved_iipm' = "ENAALL"
    /\ UNCHANGED <<ctx, pendsv, booted>>

task_terminate(kk, t) ==
    LET ts == kk.tstat[t]
        k1 == IF TSTAT_RUNNABLE(ts) THEN make_non_runnable(kk, t)
              ELSE IF TSTAT_WAITING(ts)
              THEN wait_dequeue_tmevtb(wait_dequeue_wobj(kk, t), t)
              ELSE kk
        k2 == IF kk.p_lastmtx[t] # <<>> THEN mtxhook_release_all(k1, t) ELSE k1
        k3 == make_dormant(k2, t)
    IN  IF k3.actque[t]
        THEN make_active([k3 EXCEPT !.actque[t] = FALSE], t)
        ELSE k3

-----------------------------------------------------------------------------
(* Boot: initialize_task, then start_dispatch.  The tasks are initialized  *)
(* one by one; nothing else runs meanwhile.                                *)

InitKernel ==
    [tstat |-> [t \in Task |-> TS_DORMANT],
     bpriority |-> ipriority,
     priority |-> ipriority,
     actque |-> [t \in Task |-> FALSE],
     wupque |-> [t \in Task |-> FALSE],
     raster |-> [t \in Task |-> FALSE],
     enater |-> [t \in Task |-> TRUE],
     p_lastmtx |-> [t \in Task |-> <<>>],
     tmevtb |-> [t \in Task |-> FALSE],
     wobj |-> [t \in Task |-> NULL],
     ready_queue |-> [p \in Pri |-> <<>>],
     ready_primap |-> {},
     wait_queue |-> [w \in Wobj |-> <<>>],
     p_loctsk |-> [m \in Mtx |-> NULL],
     p_runtsk |-> NULL,
     p_schedtsk |-> NULL,
     enadsp |-> TRUE,
     dspflg |-> TRUE]

KInit ==
    /\ k = InitKernel
    /\ ctx = "INIT"
    /\ lock_flag = TRUE
    /\ saved_iipm = "ENAALL"
    /\ pendsv = FALSE
    /\ booted = 0

initialize_task ==
    /\ ctx = "INIT"
    /\ booted < Len(torder_table)
    /\ LET t  == torder_table[booted + 1]
           k1 == make_dormant([k EXCEPT !.actque[t] = FALSE], t)
           k2 == [k1 EXCEPT !.p_lastmtx[t] = <<>>]
       IN  k' = IF t \in TA_ACT THEN make_active(k2, t) ELSE k2
    /\ booted' = booted + 1
    /\ UNCHANGED <<ctx, lock_flag, saved_iipm, pendsv>>

start_dispatch ==
    /\ ctx = "INIT"
    /\ booted = Len(torder_table)
    /\ ctx' = "TASK"
    /\ k' = dispatch(k)
    /\ lock_flag' = FALSE
    /\ UNCHANGED <<saved_iipm, pendsv, booted>>

-----------------------------------------------------------------------------
(* Task management. *)

act_tsk(t) ==
    /\ CHECK_UNL("act_tsk")
    /\ \/ /\ TSTAT_DORMANT(k.tstat[t])
          /\ ReturnDispatching(make_active(k, t))
       \/ /\ ~TSTAT_DORMANT(k.tstat[t])
          /\ t \notin TA_NOACTQUE
          /\ ~k.actque[t]
          /\ Return([k EXCEPT !.actque[t] = TRUE])

can_act(t) ==
    /\ CHECK_TSKCTX_UNL("can_act")
    /\ Return([k EXCEPT !.actque[t] = FALSE])

chg_pri(t, newbpri) ==
    LET k1 == [k EXCEPT !.bpriority[t] = newbpri]
        holds == k.p_lastmtx[t] # <<>>
    IN  /\ CHECK_TSKCTX_UNL("chg_pri")
        /\ ~TSTAT_DORMANT(k.tstat[t])
        /\ (holds \/ TSTAT_WAIT_MTX(k.tstat[t])) =>
              mtxhook_check_ceilpri(k, t, newbpri)
        /\ \/ /\ holds /\ mtxhook_scan_ceilmtx(k1, t)
              /\ Return(k1)
           \/ /\ ~(holds /\ mtxhook_scan_ceilmtx(k1, t))
              /\ ReturnDispatching(change_priority(k1, t, newbpri, FALSE))

-----------------------------------------------------------------------------
(* Synchronization attached to the task. *)

slp_tsk ==
    LET t == k.p_runtsk IN
    /\ CHECK_DISPATCH("slp_tsk")
    /\ ~k.raster[t]
    /\ \/ /\ k.wupque[t]
          /\ Return([k EXCEPT !.wupque[t] = FALSE])
       \/ /\ ~k.wupque[t]
          /\ ReturnDispatching(make_wait(k, TS_WAITING_SLP))

\* With a time limit; with TMO_POL it waits for nothing, and with TMO_FEVR
\* it is slp_tsk.
tslp_tsk ==
    LET t == k.p_runtsk IN
    /\ CHECK_DISPATCH("tslp_tsk")
    /\ ~k.raster[t]
    /\ \/ /\ k.wupque[t]
          /\ Return([k EXCEPT !.wupque[t] = FALSE])
       \/ /\ ~k.wupque[t]
          /\ ReturnDispatching(make_wait_tmout(k, TS_WAITING_SLP, TRUE))

wup_tsk(t) ==
    LET ts == k.tstat[t] IN
    /\ CHECK_UNL("wup_tsk")
    /\ ~TSTAT_DORMANT(ts)
    /\ \/ /\ TSTAT_WAIT_SLP(ts)
          /\ ReturnDispatching(wait_complete(k, t))
       \/ /\ ~TSTAT_WAIT_SLP(ts) /\ ~k.wupque[t]
          /\ Return([k EXCEPT !.wupque[t] = TRUE])

can_wup(t) ==
    /\ CHECK_TSKCTX_UNL("can_wup")
    /\ ~TSTAT_DORMANT(k.tstat[t])
    /\ Return([k EXCEPT !.wupque[t] = FALSE])

\* Mutant: the time event block stays registered.
rel_wai_TmevtbLeft(t) ==
    /\ CHECK_UNL("rel_wai")
    /\ TSTAT_WAITING(k.tstat[t])
    /\ ReturnDispatching(make_non_wait(wait_dequeue_wobj(k, t), t))

rel_wai(t) ==
    /\ CHECK_UNL("rel_wai")
    /\ TSTAT_WAITING(k.tstat[t])
    /\ ReturnDispatching(
          make_non_wait(wait_dequeue_tmevtb(wait_dequeue_wobj(k, t), t), t))

\* Mutant: the flag is added (|=) where the state is replaced.
sus_tsk_Added(t) ==
    LET ts == k.tstat[t] IN
    /\ CHECK_TSKCTX_UNL("sus_tsk")
    /\ t = k.p_runtsk => k.dspflg
    /\ ~TSTAT_DORMANT(ts) /\ ~k.raster[t] /\ ~TSTAT_SUSPENDED(ts)
    /\ LET k1 == [k EXCEPT !.tstat[t] = ts \cup TS_SUSPENDED]
       IN  \/ TSTAT_RUNNABLE(ts) /\ ReturnDispatching(make_non_runnable(k1, t))
           \/ ~TSTAT_RUNNABLE(ts) /\ Return(k1)

sus_tsk(t) ==
    LET ts == k.tstat[t] IN
    /\ CHECK_TSKCTX_UNL("sus_tsk")
    /\ t = k.p_runtsk => k.dspflg
    /\ ~TSTAT_DORMANT(ts)
    /\ ~k.raster[t]
    /\ \/ /\ TSTAT_RUNNABLE(ts)
          /\ ReturnDispatching(
                make_non_runnable([k EXCEPT !.tstat[t] = TS_SUSPENDED], t))
       \/ /\ ~TSTAT_RUNNABLE(ts) /\ ~TSTAT_SUSPENDED(ts)
          /\ Return([k EXCEPT !.tstat[t] = ts \cup TS_SUSPENDED])

rsm_tsk(t) ==
    LET ts == k.tstat[t] IN
    /\ CHECK_TSKCTX_UNL("rsm_tsk")
    /\ TSTAT_SUSPENDED(ts)
    /\ \/ /\ ~TSTAT_WAITING(ts)
          /\ ReturnDispatching(
                make_runnable([k EXCEPT !.tstat[t] = TS_RUNNABLE], t))
       \/ /\ TSTAT_WAITING(ts)
          /\ Return([k EXCEPT !.tstat[t] = ts \ TS_SUSPENDED])

dly_tsk ==
    LET t == k.p_runtsk IN
    /\ CHECK_DISPATCH("dly_tsk")
    /\ ~k.raster[t]
    /\ ReturnDispatching(
          [make_non_runnable([k EXCEPT !.tstat[t] = TS_WAITING_DLY], t)
              EXCEPT !.tmevtb[t] = TRUE])

\* The callbacks of the time events of the waiting tasks, run by the timer
\* interrupt, which takes the event out of the heap first.
wait_tmout(t) ==
    /\ ctx = "INT" /\ ~lock_flag
    /\ k.tmevtb[t] /\ k.tstat[t] \ TS_SUSPENDED # TS_WAITING_DLY
    /\ ReturnDispatching(
          make_non_wait(wait_dequeue_wobj(wait_dequeue_tmevtb(k, t), t), t))

wait_tmout_ok(t) ==
    /\ ctx = "INT" /\ ~lock_flag
    /\ k.tmevtb[t] /\ k.tstat[t] \ TS_SUSPENDED = TS_WAITING_DLY
    /\ ReturnDispatching(make_non_wait(wait_dequeue_tmevtb(k, t), t))

-----------------------------------------------------------------------------
(* Task termination. *)

\* May be called with the CPU locked, dispatching disabled or interrupts
\* masked, and undoes all three.  It is also where a task's main returns to.
ext_tsk ==
    LET k1 == IF k.dspflg THEN k ELSE set_dspflg([k EXCEPT !.enadsp = TRUE])
    IN  /\ "ext_tsk" \in Calls /\ TSKCTX
        /\ exit_and_dispatch(task_terminate(k1, k.p_runtsk))

ras_ter(t) ==
    LET ts == k.tstat[t]
        k1 == [k EXCEPT !.raster[t] = TRUE]
        k2 == IF TSTAT_WAITING(ts)
              THEN wait_dequeue_tmevtb(wait_dequeue_wobj(k1, t), t) ELSE k1
    IN  /\ CHECK_TSKCTX_UNL("ras_ter")
        /\ t # k.p_runtsk
        /\ ~TSTAT_DORMANT(ts)
        /\ \/ /\ k.enater[t]
              /\ ReturnDispatching(task_terminate(k, t))
           \/ /\ ~k.enater[t] /\ TSTAT_RUNNABLE(ts)
              /\ Return(k1)
           \/ /\ ~k.enater[t] /\ ~TSTAT_RUNNABLE(ts)
              /\ ReturnDispatching(
                    make_runnable([k2 EXCEPT !.tstat[t] = TS_RUNNABLE], t))

dis_ter ==
    /\ CHECK_TSKCTX_UNL("dis_ter")
    /\ Return([k EXCEPT !.enater[k.p_runtsk] = FALSE])

ena_ter ==
    LET t == k.p_runtsk IN
    /\ CHECK_TSKCTX_UNL("ena_ter")
    /\ \/ /\ k.raster[t] /\ k.dspflg
          /\ exit_and_dispatch(task_terminate(k, t))
       \/ /\ ~(k.raster[t] /\ k.dspflg)
          /\ Return([k EXCEPT !.enater[t] = TRUE])

ter_tsk(t) ==
    /\ CHECK_TSKCTX_UNL("ter_tsk")
    /\ t # k.p_runtsk
    /\ ~TSTAT_DORMANT(k.tstat[t])
    /\ ReturnDispatching(task_terminate(k, t))

-----------------------------------------------------------------------------
(* System state management and the interrupt priority mask. *)

rot_rdq(pri) ==
    /\ CHECK_UNL("rot_rdq")
    /\ ReturnDispatching(rotate_ready_queue(k, pri))

loc_cpu ==
    /\ CHECK_UNL("loc_cpu")
    /\ lock_flag' = TRUE
    /\ UNCHANGED <<k, ctx, saved_iipm, pendsv, booted>>

unl_cpu ==
    /\ lock_flag /\ (TSKCTX \/ ctx = "INT")
    /\ lock_flag' = FALSE
    /\ UNCHANGED <<k, ctx, saved_iipm, pendsv, booted>>

dis_dsp ==
    /\ CHECK_TSKCTX_UNL("dis_dsp")
    /\ Return([k EXCEPT !.enadsp = FALSE, !.dspflg = FALSE])

\* Mutant: a termination request that came meanwhile is forgotten.
DispatchEnabled_Forgets(k1) ==
    /\ k' = dispatch(set_dspflg(k1))
    /\ saved_iipm' = "ENAALL"
    /\ UNCHANGED <<ctx, lock_flag, pendsv, booted>>

\* Mutant: terminates the task that should run, not the one that is running.
DispatchEnabled_Schedtsk(k1) ==
    LET k2 == set_dspflg(k1)
        t  == k1.p_runtsk
    IN  \/ /\ k1.raster[t] /\ k1.enater[t]
           /\ exit_and_dispatch(task_terminate(k2, k2.p_schedtsk))
        \/ /\ ~(k1.raster[t] /\ k1.enater[t])
           /\ k' = dispatch(k2)
           /\ saved_iipm' = "ENAALL"
           /\ UNCHANGED <<ctx, lock_flag, pendsv, booted>>

\* What ena_dsp and chg_ipm do when dispatching becomes possible: a
\* termination request that came meanwhile takes effect now.
DispatchEnabled(k1) ==
    LET k2 == set_dspflg(k1)
        t  == k1.p_runtsk
    IN  \/ /\ k1.raster[t] /\ k1.enater[t]
           /\ exit_and_dispatch(task_terminate(k2, t))
        \/ /\ ~(k1.raster[t] /\ k1.enater[t])
           /\ k' = dispatch(k2)
           /\ saved_iipm' = "ENAALL"
           /\ UNCHANGED <<ctx, lock_flag, pendsv, booted>>

ena_dsp ==
    LET k1 == [k EXCEPT !.enadsp = TRUE] IN
    /\ CHECK_TSKCTX_UNL("ena_dsp")
    /\ \/ /\ saved_iipm = "ENAALL"
          /\ DispatchEnabled(k1)
       \/ /\ saved_iipm # "ENAALL"
          /\ Return(k1)

chg_ipm(iipm) ==
    /\ CHECK_TSKCTX_UNL("chg_ipm")
    /\ \/ /\ iipm = "ENAALL" /\ k.enadsp
          /\ DispatchEnabled(k)
       \/ /\ ~(iipm = "ENAALL" /\ k.enadsp)
          /\ k' = [k EXCEPT !.dspflg = FALSE]
          /\ saved_iipm' = iipm
          /\ UNCHANGED <<ctx, lock_flag, pendsv, booted>>

-----------------------------------------------------------------------------
(* Interrupts.  "INT" stands for the whole nest of interrupt handlers: a   *)
(* handler that interrupts another only makes more calls.                  *)

InterruptEntry ==
    /\ ctx = "TASK" /\ ~lock_flag
    /\ ctx' = "INT"
    /\ UNCHANGED <<k, lock_flag, saved_iipm, pendsv, booted>>

\* Mutant: returns to the interrupted task although PendSV is pending.
InterruptReturn_Pending ==
    /\ ctx = "INT" /\ ~lock_flag
    /\ ctx' = "TASK"
    /\ UNCHANGED <<k, lock_flag, saved_iipm, pendsv, booted>>

\* The outermost handler returns to the task, with the CPU unlocked as the
\* kernel requires of it.  The PendSV exception has the lowest priority: it
\* runs between the last handler and the task, unless the task has masked it.
InterruptReturn ==
    /\ ctx = "INT" /\ ~lock_flag
    /\ ~(pendsv /\ saved_iipm = "ENAALL")
    /\ ctx' = "TASK"
    /\ UNCHANGED <<k, lock_flag, saved_iipm, pendsv, booted>>

pendsv_handler ==
    /\ ctx = "INT" /\ ~lock_flag
    /\ pendsv /\ saved_iipm = "ENAALL"
    /\ ctx' = "TASK"
    /\ k' = dispatch(k)
    /\ pendsv' = FALSE
    /\ UNCHANGED <<lock_flag, saved_iipm, booted>>

-----------------------------------------------------------------------------
TaskCall(t) ==
    \/ act_tsk(t) \/ can_act(t) \/ wup_tsk(t) \/ can_wup(t) \/ rel_wai(t)
    \/ sus_tsk(t) \/ rsm_tsk(t) \/ ras_ter(t) \/ ter_tsk(t)
    \/ wait_tmout(t) \/ wait_tmout_ok(t)
    \/ \E p \in Pri : chg_pri(t, p)

SystemCall ==
    \/ slp_tsk \/ tslp_tsk \/ dly_tsk
    \/ ext_tsk \/ dis_ter \/ ena_ter
    \/ loc_cpu \/ unl_cpu \/ dis_dsp \/ ena_dsp
    \/ \E iipm \in {"ENAALL", "MASKED"} : chg_ipm(iipm)
    \/ \E p \in Pri : rot_rdq(p)

KNext ==
    \/ initialize_task \/ start_dispatch
    \/ InterruptEntry \/ InterruptReturn \/ pendsv_handler
    \/ SystemCall
    \/ \E t \in Task : TaskCall(t)

KSpec == KInit /\ [][KNext]_kvars

\* The boot proceeds; a handler that locks the CPU unlocks it, the handlers
\* come to an end whatever they did before, and then the processor takes the
\* pending PendSV exception by itself.  Nothing is assumed of the tasks.
KFairSpec ==
    /\ KSpec
    /\ WF_kvars(initialize_task \/ start_dispatch)
    /\ WF_kvars(ctx = "INT" /\ unl_cpu)
    /\ SF_kvars(InterruptReturn \/ pendsv_handler)

-----------------------------------------------------------------------------
(* Type invariant. *)

\* Every variable of the kernel has a value of its C type.
TypeOK ==
    /\ k \in KernelData
    /\ ctx \in {"INIT", "TASK", "INT"}
    /\ lock_flag \in BOOLEAN
    /\ saved_iipm \in {"ENAALL", "MASKED"}
    /\ pendsv \in BOOLEAN
    /\ booted \in 0 .. Len(torder_table)

-----------------------------------------------------------------------------
(* Safety. *)

\* The ready queue and its bitmap say which tasks are runnable: a task is
\* linked, once, in the queue of its current priority exactly while it is
\* runnable, and a bit is set exactly while its queue has a task.  Every
\* path that changes a state or a priority has to keep the three in step.
ReadyQueueOK == ReadyQueue(k, Runnable(k))

\* p_schedtsk, which the kernel updates call by call and hardly ever
\* searches for, is the task of the highest precedence whenever dispatching
\* is possible, and the running task while it is not (task.h).
SchedtskOK ==
    IF k.dspflg THEN Scheduled(k, Runnable(k))
    ELSE k.p_schedtsk = k.p_runtsk /\ k.p_runtsk # NULL

\* No call forgets its dispatch: a task computes only if it is the one that
\* should, and when an interrupt handler has made another task the one that
\* should, the PendSV exception is pending, and not masked.
NoLostDispatch ==
    /\ ctx = "TASK" => k.p_runtsk = k.p_schedtsk
    /\ ctx = "INT" /\ k.p_runtsk # k.p_schedtsk => pendsv
    /\ pendsv => ctx = "INT" /\ saved_iipm = "ENAALL"

\* The flag dspflg says that neither dis_dsp nor the interrupt priority mask
\* forbids dispatching, and whatever forbids it is the running task's doing:
\* it is gone when the processor is idle.
DspflgOK ==
    /\ k.dspflg <=> k.enadsp /\ saved_iipm = "ENAALL"
    /\ k.p_runtsk = NULL => k.dspflg
    /\ k.p_runtsk # NULL => TSTAT_RUNNABLE(k.tstat[k.p_runtsk])

\* A termination request (ras_ter) is never lost: the task it was made to is
\* never left waiting or suspended, and once the task permits termination
\* again the request is pending only because the task has disabled
\* dispatching, with a call still to come (ena_dsp, chg_ipm, ext_tsk) that
\* honours it.
TerminationPending ==
    \A t \in Task : k.raster[t] =>
        /\ TSTAT_RUNNABLE(k.tstat[t])
        /\ k.enater[t] => t = k.p_runtsk /\ ~k.dspflg

\* No task sleeps on a wake-up request that has already been made.
NoLostWakeup ==
    \A t \in Task : TSTAT_WAIT_SLP(k.tstat[t]) => ~k.wupque[t]

\* The time event block of a wait lives on the stack of the waiting call, so
\* it is registered only while the task waits, however the wait may end;
\* and a delayed task always has one to end its delay.
TmevtbOK ==
    \A t \in Task :
        /\ k.tmevtb[t] => TSTAT_WAITING(k.tstat[t])
        /\ "DLY" \in k.tstat[t] => k.tmevtb[t]

\* A dormant task carries nothing over from its last activation to the next
\* one, and no request to activate it is left behind.
DormantOK ==
    \A t \in Task : TSTAT_DORMANT(k.tstat[t]) =>
        /\ ~k.actque[t] /\ ~k.wupque[t] /\ ~k.raster[t] /\ k.enater[t]
        /\ k.bpriority[t] = ipriority[t] /\ k.priority[t] = ipriority[t]

\* What tasks are asked for, to wake up, to be activated or to end, is asked
\* once: the request is neither lost nor kept for another life of the task,
\* in whatever order task_sync.c and task_term.c take and cancel requests.
RequestsOK == TerminationPending /\ NoLostWakeup /\ DormantOK

\* The processor is where it should be: task.c keeps p_schedtsk right, every
\* call ends with the dispatch this makes necessary, and dspflg says when
\* none may be made.
DispatchOK == SchedtskOK /\ NoLostDispatch /\ DspflgOK

\* All that the modules of the objects tasks wait for have to leave intact,
\* whatever they do to tasks: wait queues, ready queue and dispatch.
SchedulingOK == TypeOK /\ WaitQueues(k) /\ ReadyQueueOK /\ DispatchOK

-----------------------------------------------------------------------------
(* What a step may not do. *)

\* A task that has disabled dispatching, with dis_dsp or by masking
\* interrupts, or that has locked the CPU, keeps the processor until
\* dispatching is possible and the CPU unlocked again, whatever interrupt
\* handlers wake up meanwhile; when it loses it by ending, both are undone.
KeepsProcessor ==
    [][(lock_flag \/ ~k.dspflg) /\ k'.p_runtsk # k.p_runtsk =>
          k'.dspflg /\ ~lock_flag']_kvars

\* t is somewhere before u in a ready queue.
Precedes(kk, t, u) ==
    \E p \in Pri : \E i, j \in DOMAIN kk.ready_queue[p] :
        i < j /\ kk.ready_queue[p][i] = t /\ kk.ready_queue[p][j] = u

\* First come, first served among tasks of the same priority: two runnable
\* tasks change places only by a rotation, or when the one that was ahead
\* had its priority set or was restarted by a termination.
OrderKept ==
    [][\A t, u \in Task : Precedes(k, t, u) /\ Precedes(k', u, t) =>
          \/ \E p \in Pri : rot_rdq(p) \/ chg_pri(t, p)
          \/ k.actque[t] /\ ~k'.actque[t]]_kvars

\* Termination is forbidden by the task itself and only ter_tsk overrides
\* it: while the task forbids it, no other call ends it or permits it.
TerminationDisabled ==
    [][\A t \in Task : ~k.enater[t] /\ k'.enater[t] =>
          t = k.p_runtsk \/ ter_tsk(t)]_kvars

-----------------------------------------------------------------------------
(* Liveness. *)

\* While dispatching is possible, the task that should run gets the
\* processor, or a call makes another one the task that should run.
SchedtskRuns ==
    \A t \in Task : k.dspflg /\ k.p_schedtsk = t
                      ~> k.p_runtsk = t \/ ~k.dspflg \/ k.p_schedtsk # t
=============================================================================
