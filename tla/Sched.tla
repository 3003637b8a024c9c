------------------------------- MODULE Sched -------------------------------
(***************************************************************************)
(* The scheduler of the ASP3 kernel (kernel/task.c, task.h) and the common *)
(* part of all waiting (kernel/wait.c, wait.h), as operators on a record   *)
(* kk that holds the kernel's data section.  Every operator is one C       *)
(* function of the same name: it takes the data and returns the data after *)
(* the call.  The kernel runs all of them with the CPU locked, so a        *)
(* service call is one composition of them.                                *)
(*                                                                         *)
(* The fields of kk.                                                       *)
(*   tstat, bpriority, priority, actque, wupque, raster, enater            *)
(*                the TCB's fields, as functions on Task                   *)
(*   p_lastmtx    the mutexes a task holds, newest first: the list that    *)
(*                starts at TCB.p_lastmtx and follows MTXCB.p_prevmtx      *)
(*   tmevtb       WINFO.p_tmevtb # NULL: the time event block on the       *)
(*                waiting task's stack is registered with the time events  *)
(*   wobj         WINFO_WOBJ.p_wobjcb, the object the task waits for       *)
(*   ready_queue, ready_primap, wait_queue, p_loctsk                       *)
(*                the queues, the bitmap and the owner of every mutex      *)
(*   p_runtsk, p_schedtsk, enadsp, dspflg                                  *)
(*                the kernel's variables of these names                    *)
(***************************************************************************)
EXTENDS Integers, FiniteSets, SequencesExt

CONSTANTS
    Task,        \* the tasks of the configuration
    NULL,        \* the null pointer
    TNUM_TPRI,   \* number of task priorities; 0 is the highest
    ipriority,   \* TINIB.ipriority, the priority of a task when it starts
    Wobj,        \* the objects with a wait queue (WOBJCB)
    TA_TPRI,     \* those whose queue is in priority order
    Mtx          \* those that are mutexes

Pri == 0 .. TNUM_TPRI - 1

ASSUME TaskAssumption == NULL \notin Task
ASSUME PriAssumption == TNUM_TPRI \in Nat \ {0} /\ ipriority \in [Task -> Pri]
ASSUME WobjAssumption == NULL \notin Wobj /\ TA_TPRI \subseteq Wobj
                            /\ Mtx \subseteq Wobj

-----------------------------------------------------------------------------
(* Task states.  TCB.tstat is a word of flags; here it is the set of them. *)

TS_DORMANT   == {}
TS_RUNNABLE  == {"RUNNABLE"}
TS_SUSPENDED == {"SUSPENDED"}
TS_WAITING_SLP == {"SLP"}
TS_WAITING_DLY == {"DLY"}

\* Waiting in the queue of a WOBJCB, in another queue, and in no queue.
WaitWobjcb == {"SEM", "FLG", "SDTQ", "SPDQ", "MTX", "MPF"}
WaitWobj   == WaitWobjcb \cup {"RDTQ", "RPDQ"}
WaitFactor == WaitWobj \cup {"SLP", "DLY"}

TSTAT_DORMANT(ts)   == ts = TS_DORMANT
TSTAT_RUNNABLE(ts)  == "RUNNABLE" \in ts
TSTAT_SUSPENDED(ts) == "SUSPENDED" \in ts
TSTAT_WAITING(ts)   == ts \cap WaitFactor # {}
TSTAT_WAIT_SLP(ts)  == ts \ TS_SUSPENDED = TS_WAITING_SLP
TSTAT_WAIT_MTX(ts)  == ts \ TS_SUSPENDED = {"MTX"}
TSTAT_WAIT_WOBJ(ts)   == ts \cap WaitWobj # {}
TSTAT_WAIT_WOBJCB(ts) == ts \cap WaitWobjcb # {}

\* The states a task can be in: one of the three plain ones, or waiting for
\* one thing, suspended or not.
Tstat == {TS_DORMANT, TS_RUNNABLE, TS_SUSPENDED}
           \cup {{w} : w \in WaitFactor}
           \cup {{w, "SUSPENDED"} : w \in WaitFactor}

-----------------------------------------------------------------------------
(* The kernel's data section. *)

KernelData ==
    [tstat : [Task -> Tstat], bpriority : [Task -> Pri], priority : [Task -> Pri],
     actque : [Task -> BOOLEAN], wupque : [Task -> BOOLEAN],
     raster : [Task -> BOOLEAN], enater : [Task -> BOOLEAN],
     p_lastmtx : [Task -> Seq(Mtx)], tmevtb : [Task -> BOOLEAN],
     wobj : [Task -> Wobj \cup {NULL}],
     ready_queue : [Pri -> Seq(Task)], ready_primap : SUBSET Pri,
     wait_queue : [Wobj -> Seq(Task)], p_loctsk : [Mtx -> Task \cup {NULL}],
     p_runtsk : Task \cup {NULL}, p_schedtsk : Task \cup {NULL},
     enadsp : BOOLEAN, dspflg : BOOLEAN]

-----------------------------------------------------------------------------
(* The ready queue. *)

\* Unlink t from whichever of the queues its task_queue field is linked in.
queue_delete(queues, t) == [q \in DOMAIN queues |-> RemoveFirst(queues[q], t)]

\* The bit of the bitmap found by primap_search is the smallest one set.
search_schedtsk(kk) == Head(kk.ready_queue[Min(kk.ready_primap)])

\* Mutant: p_schedtsk is updated even while dispatching is disabled.
make_runnable_Eager(kk, t) ==
    LET pri == kk.priority[t] IN
    [kk EXCEPT !.ready_queue[pri] = Append(@, t),
               !.ready_primap = @ \cup {pri},
               !.p_schedtsk = IF @ = NULL \/ pri < kk.priority[@]
                              THEN t ELSE @]

make_runnable(kk, t) ==
    LET pri == kk.priority[t] IN
    [kk EXCEPT !.ready_queue[pri] = Append(@, t),
               !.ready_primap = @ \cup {pri},
               !.p_schedtsk =
                   IF kk.dspflg /\ (@ = NULL \/ pri < kk.priority[@])
                   THEN t ELSE @]

\* Mutant: the bit of a queue that has become empty stays set.
make_non_runnable_BitLeft(kk, t) ==
    LET pri == kk.priority[t]
        rq  == queue_delete(kk.ready_queue, t)
        k1  == [kk EXCEPT !.ready_queue = rq]
    IN  [k1 EXCEPT !.p_schedtsk =
            IF @ # t THEN @
            ELSE IF rq[pri] # <<>> THEN Head(rq[pri])
            ELSE NULL]

make_non_runnable(kk, t) ==
    LET pri == kk.priority[t]
        rq  == queue_delete(kk.ready_queue, t)
        pm  == kk.ready_primap \ (IF rq[pri] = <<>> THEN {pri} ELSE {})
        k1  == [kk EXCEPT !.ready_queue = rq, !.ready_primap = pm]
    IN  [k1 EXCEPT !.p_schedtsk =
            IF @ # t THEN @
            ELSE IF rq[pri] # <<>> THEN Head(rq[pri])
            ELSE IF pm = {} THEN NULL
            ELSE search_schedtsk(k1)]

set_dspflg(kk) ==
    [kk EXCEPT !.dspflg = TRUE, !.p_schedtsk = search_schedtsk(kk)]

make_dormant(kk, t) ==
    [kk EXCEPT !.tstat[t] = TS_DORMANT,
               !.bpriority[t] = ipriority[t],
               !.priority[t] = ipriority[t],
               !.wupque[t] = FALSE,
               !.raster[t] = FALSE,
               !.enater[t] = TRUE]

make_active(kk, t) == make_runnable([kk EXCEPT !.tstat[t] = TS_RUNNABLE], t)

rotate_ready_queue(kk, pri) ==
    LET q == kk.ready_queue[pri]
        r == Append(Tail(q), Head(q))
    IN  IF Len(q) < 2 THEN kk
        ELSE [kk EXCEPT !.ready_queue[pri] = r,
                        !.p_schedtsk = IF kk.dspflg /\ @ = Head(q)
                                       THEN Head(r) ELSE @]

-----------------------------------------------------------------------------
(* Wait queues. *)

\* Behind the last task of the same or a higher priority.
queue_insert_tpri(kk, queue, t) ==
    LET i == SelectInSeq(queue,
                         LAMBDA u : kk.priority[t] < kk.priority[u])
    IN  IF i = 0 THEN Append(queue, t) ELSE InsertAt(queue, i, t)

wobj_queue_insert(kk, w, t) ==
    [kk EXCEPT !.wait_queue[w] = IF w \in TA_TPRI
                                 THEN queue_insert_tpri(kk, @, t)
                                 ELSE Append(@, t)]

wobj_change_priority(kk, w, t) ==
    IF w \in TA_TPRI
    THEN wobj_queue_insert(
            [kk EXCEPT !.wait_queue = queue_delete(@, t)], w, t)
    ELSE kk

\* Mutant: a task set to the priority it has is not seen to go behind the
\* others (> for >=).
change_priority_Lowered(kk, t, newpri, mtxmode) ==
    LET oldpri == kk.priority[t]
        k0  == [kk EXCEPT !.priority[t] = newpri]
        rq0 == queue_delete(kk.ready_queue, t)
        pm0 == kk.ready_primap \ (IF rq0[oldpri] = <<>> THEN {oldpri} ELSE {})
        k1  == [k0 EXCEPT
                  !.ready_queue = [rq0 EXCEPT ![newpri] =
                                     IF mtxmode THEN <<t>> \o @
                                     ELSE Append(@, t)],
                  !.ready_primap = pm0 \cup {newpri}]
        sched == kk.p_schedtsk
    IN  IF TSTAT_RUNNABLE(kk.tstat[t])
        THEN [k1 EXCEPT !.p_schedtsk =
                IF kk.dspflg /\ sched = t /\ newpri > oldpri
                THEN search_schedtsk(k1)
                ELSE IF kk.dspflg /\ sched # t /\ newpri <= kk.priority[sched]
                THEN Head(k1.ready_queue[newpri])
                ELSE sched]
        ELSE k0

change_priority(kk, t, newpri, mtxmode) ==
    LET oldpri == kk.priority[t]
        k0  == [kk EXCEPT !.priority[t] = newpri]
        rq0 == queue_delete(kk.ready_queue, t)
        pm0 == kk.ready_primap \ (IF rq0[oldpri] = <<>> THEN {oldpri} ELSE {})
        k1  == [k0 EXCEPT
                  !.ready_queue = [rq0 EXCEPT ![newpri] =
                                     IF mtxmode THEN <<t>> \o @
                                     ELSE Append(@, t)],
                  !.ready_primap = pm0 \cup {newpri}]
        sched == kk.p_schedtsk
    IN  IF TSTAT_RUNNABLE(kk.tstat[t])
        THEN [k1 EXCEPT !.p_schedtsk =
                IF kk.dspflg /\ sched = t /\ newpri >= oldpri
                THEN search_schedtsk(k1)
                ELSE IF kk.dspflg /\ sched # t /\ newpri <= kk.priority[sched]
                THEN Head(k1.ready_queue[newpri])
                ELSE sched]
        ELSE IF TSTAT_WAIT_WOBJCB(kk.tstat[t])
        THEN wobj_change_priority(k0, kk.wobj[t], t)
        ELSE k0

-----------------------------------------------------------------------------
(* Beginning and ending a wait. *)

\* The running task waits; its time event block is registered when there is
\* a time limit.
make_wait_tmout(kk, ts, limited) ==
    LET t == kk.p_runtsk IN
    [make_non_runnable([kk EXCEPT !.tstat[t] = ts], t)
        EXCEPT !.tmevtb[t] = limited]

make_wait(kk, ts) == make_wait_tmout(kk, ts, FALSE)

wobj_make_wait_tmout(kk, w, ts, limited) ==
    LET t == kk.p_runtsk
    IN  [wobj_queue_insert(make_wait_tmout(kk, ts, limited), w, t)
            EXCEPT !.wobj[t] = w]

make_non_wait(kk, t) ==
    IF TSTAT_SUSPENDED(kk.tstat[t])
    THEN [kk EXCEPT !.tstat[t] = TS_SUSPENDED]
    ELSE make_runnable([kk EXCEPT !.tstat[t] = TS_RUNNABLE], t)

wait_dequeue_wobj(kk, t) ==
    IF TSTAT_WAIT_WOBJ(kk.tstat[t])
    THEN [kk EXCEPT !.wait_queue = queue_delete(@, t)]
    ELSE kk

wait_dequeue_tmevtb(kk, t) == [kk EXCEPT !.tmevtb[t] = FALSE]

wait_complete(kk, t) == make_non_wait(wait_dequeue_tmevtb(kk, t), t)

\* Every task of w's queue is released, first to last.
init_wait_queue(kk, w) ==
    FoldLeft(wait_complete, [kk EXCEPT !.wait_queue[w] = <<>>],
             kk.wait_queue[w])

-----------------------------------------------------------------------------
(* What the operators on the ready queue maintain, for the set R of the    *)
(* tasks that should be linked in it.                                      *)

\* Each task of R, and no other, is linked, once, in the queue of its
\* priority, and a bit is set exactly while its queue has a task.
ReadyQueue(kk, R) ==
    /\ \A p \in Pri : \A t \in Task :
          Contains(kk.ready_queue[p], t) <=> t \in R /\ kk.priority[t] = p
    /\ \A p \in Pri : IsInjective(kk.ready_queue[p])
    /\ kk.ready_primap = {p \in Pri : kk.ready_queue[p] # <<>>}

\* t is first in the queue of its priority and no queue of a higher
\* priority has a task.
HighestPrecedence(kk, t) ==
    /\ kk.ready_queue[kk.priority[t]] # <<>>
    /\ Head(kk.ready_queue[kk.priority[t]]) = t
    /\ \A p \in Pri : p < kk.priority[t] => kk.ready_queue[p] = <<>>

\* p_schedtsk is the task of R with the highest precedence.
Scheduled(kk, R) ==
    IF kk.p_schedtsk = NULL THEN R = {}
    ELSE kk.p_schedtsk \in R /\ HighestPrecedence(kk, kk.p_schedtsk)

Runnable(kk) == {t \in Task : TSTAT_RUNNABLE(kk.tstat[t])}

-----------------------------------------------------------------------------
(* What the operators on the wait queues maintain. *)

\* Each task that waits for an object, and no other, is linked, once, in the
\* queue of that object, and a queue in priority order is sorted.
WaitQueues(kk) ==
    \A w \in Wobj :
        /\ \A t \in Task :
              Contains(kk.wait_queue[w], t) <=>
                 TSTAT_WAIT_WOBJ(kk.tstat[t]) /\ kk.wobj[t] = w
        /\ IsInjective(kk.wait_queue[w])
        /\ w \in TA_TPRI =>
              \A i, j \in DOMAIN kk.wait_queue[w] : i < j =>
                 kk.priority[kk.wait_queue[w][i]] <= kk.priority[kk.wait_queue[w][j]]
=============================================================================
