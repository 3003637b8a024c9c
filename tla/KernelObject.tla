---------------------------- MODULE KernelObject ----------------------------
(***************************************************************************)
(* What the modules of the objects that tasks wait for have in common: the *)
(* tasks, dispatching and interrupts of TaskSystem, without mutexes, and   *)
(* the calls that report the state of a task and of the system             *)
(* (task_refer.c and the get_ and sns_ calls).  One object is modelled at  *)
(* a time: no call touches two.                                            *)
(***************************************************************************)
EXTENDS TaskSystem

\* The function pointers of task management are not set where no mutex is
\* configured, and not followed.
NoMutexAssumption == Mtx = {}

Self == k.p_runtsk

\* Mutant: the task stays linked in the queue.
FirstServed_Linked(w) == wait_complete(k, Head(k.wait_queue[w]))

\* Mutant: the task that came last is served.
FirstServed_Last(w) ==
    wait_complete([k EXCEPT !.wait_queue[w] = Front(@)], Last(k.wait_queue[w]))

\* The kernel's data after the first task of a queue has ended its wait.
FirstServed(w) ==
    wait_complete([k EXCEPT !.wait_queue[w] = Tail(@)], Head(k.wait_queue[w]))

\* A call that may make the caller wait.
MayWait(call) == CHECK_DISPATCH(call) /\ ~k.raster[Self]

-----------------------------------------------------------------------------
(* Reports on a task. *)

\* Mutant: the task that should run is taken for the one that runs.
get_tst_Should(t) ==
    IF k.tstat[t] = TS_RUNNABLE THEN IF t = k.p_schedtsk THEN "RUN" ELSE "RDY"
    ELSE IF TSTAT_DORMANT(k.tstat[t]) THEN "DMT"
    ELSE IF ~TSTAT_SUSPENDED(k.tstat[t]) THEN "WAI"
    ELSE IF TSTAT_WAITING(k.tstat[t]) THEN "WAS" ELSE "SUS"

\* TTS_WAS, TTS_SUS, TTS_WAI, TTS_RUN, TTS_RDY, TTS_DMT
get_tst(t) ==
    LET ts == k.tstat[t] IN
    IF TSTAT_DORMANT(ts) THEN "DMT"
    ELSE IF TSTAT_SUSPENDED(ts) THEN IF TSTAT_WAITING(ts) THEN "WAS" ELSE "SUS"
    ELSE IF TSTAT_WAITING(ts) THEN "WAI"
    ELSE IF t = k.p_runtsk THEN "RUN" ELSE "RDY"

\* Of a dormant task only its state and the activation requests are reported.
get_pri(t) == k.priority[t]

\* The fields of T_RTSK; tskwait, wobjid and lefttmo count only in a wait.
ref_tsk(t) ==
    LET ts == k.tstat[t] IN
    [tskstat |-> get_tst(t),
     tskpri  |-> k.priority[t], tskbpri |-> k.bpriority[t],
     tskwait |-> ts \cap WaitFactor,
     wobjid  |-> IF TSTAT_WAIT_WOBJ(ts) THEN k.wobj[t] ELSE NULL,
     lefttmo |-> IF k.tmevtb[t] THEN "LIMITED" ELSE "TMO_FEVR",
     actcnt  |-> k.actque[t], wupcnt |-> k.wupque[t],
     raster  |-> k.raster[t], dister |-> ~k.enater[t]]

\* The first task of a queue, or TSK_NONE.
wait_tskid(w) == IF k.wait_queue[w] = <<>> THEN NULL ELSE Head(k.wait_queue[w])

-----------------------------------------------------------------------------
(* Reports on the system. *)

get_tid == k.p_runtsk

get_lod(pri) == Len(k.ready_queue[pri])

get_nth(pri, nth) ==
    IF nth < Len(k.ready_queue[pri]) THEN k.ready_queue[pri][nth + 1] ELSE NULL

sns_ctx == ctx # "TASK"
sns_loc == lock_flag
sns_dsp == ~k.enadsp
sns_dpn == sns_ctx \/ sns_loc \/ ~k.dspflg
sns_ter == ~(k.p_runtsk # NULL /\ k.enater[k.p_runtsk])

\* What the calls report of one state agrees, although each looks at other
\* data: the ready queue lists the tasks reported as running or ready, each
\* once; the running task is the one get_tid names and, where sns_dpn says
\* that dispatching is not held back, the first of the tasks get_nth lists;
\* dispatching is disabled (sns_dsp) by a running task only, and sns_dpn says so
\* too; a dormant task is reported without requests, a time limit only for a
\* waiting task, and a termination request only for a running or ready task
\* that forbids it (sns_ter, if it is the running one) or that runs with
\* dispatching held back.
ReportsAgree ==
    /\ \A p \in Pri :
          {get_nth(p, n) : n \in 0 .. get_lod(p) - 1}
             = {t \in Task : get_tst(t) \in {"RUN", "RDY"} /\ get_pri(t) = p}
    /\ \A p \in Pri : get_lod(p)
             = Cardinality({t \in Task : get_tst(t) \in {"RUN", "RDY"} /\ get_pri(t) = p})
    /\ \A t \in Task : get_tst(t) = "RUN" <=> get_tid = t
    /\ \A t \in Task : get_tst(t) = "RUN" /\ ~sns_dpn =>
          get_nth(get_pri(t), 0) = t /\ \A p \in Pri : p < get_pri(t) => get_lod(p) = 0
    /\ sns_dsp => sns_dpn /\ get_tid # NULL
    /\ \A t \in Task : get_tst(t) = "DMT" => ~ref_tsk(t).actcnt /\ ~ref_tsk(t).dister
    /\ \A t \in Task : ref_tsk(t).lefttmo = "LIMITED" => get_tst(t) \in {"WAI", "WAS"}
    /\ \A t \in Task : ref_tsk(t).raster =>
          /\ get_tst(t) \in {"RUN", "RDY"}
          /\ ref_tsk(t).dister \/ (get_tid = t /\ sns_dpn)
          /\ get_tid = t => sns_ter \/ sns_dpn
=============================================================================
