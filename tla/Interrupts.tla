----------------------------- MODULE Interrupts -----------------------------
(***************************************************************************)
(* The interrupt model of the kernel ("TOPPERS標準割込み処理モデル") on the *)
(* processors of the ARM-M target, instruction by instruction: the CPU     *)
(* lock, the interrupt priority mask, the entry to and the return from     *)
(* interrupt and CPU exception handlers, PendSV, SVC, the dispatcher and   *)
(* the idle loop.  An interrupt may come before every instruction.         *)
(*                                                                         *)
(* The processor has BASEPRI from ARMv7-M on.  On ARMv6-M its part is      *)
(* played by the enable bits of the interrupt controller (NVIC), with a    *)
(* set of interrupts for every priority mask.                              *)
(*                                                                         *)
(* Of the kernel there is which task runs, which should and whether it may *)
(* be dispatched; TaskSystem has the rest, in steps that are a whole       *)
(* locked region here.                                                     *)
(***************************************************************************)
EXTENDS Integers, SequencesExt

CONSTANTS
    TARGET_ARCH_THUMB,   \* 3 for ARMv6-M, from 4 on ARMv7-M and ARMv8-M
    TBITW_IPRI,          \* the width of an interrupt priority
    TMIN_INTPRI,         \* the most important priority the kernel manages
    IntNo,               \* the interrupts with a handler
    intpri,              \* their priorities, negative numbers
    TA_ENAINT,           \* those enabled from the beginning
    Task, NULL,
    Calls, Ipms,         \* service calls made, and arguments of chg_ipm
    CpuExceptions        \* whether there are any

TIPM_ENAALL == 0

InterruptsAssumption ==
    /\ TBITW_IPRI \in 1 .. 8
    /\ TMIN_INTPRI \in 1 - 2^TBITW_IPRI .. -1
    /\ IsFiniteSet(IntNo) /\ IntNo \cap {"thread", "PendSV", "exc"} = {}
    /\ intpri \in [IntNo -> -(2^TBITW_IPRI) .. -1]
    /\ TA_ENAINT \subseteq IntNo
    /\ Ipms \subseteq 1 - 2^TBITW_IPRI .. TIPM_ENAALL    \* VALID_INTPRI_CHGIPM
    /\ NULL \notin Task

VARIABLES
    ctx,        \* the contexts, each interrupted by the next one; the last runs
    hw,         \* the variables of the CPU lock and the registers
    tsk,        \* p_runtsk, p_schedtsk, dspflg and the contexts of the tasks
    disabled    \* what dis_int was called for last

vars == <<ctx, hw, tsk, disabled>>

V6 == TARGET_ARCH_THUMB = 3

-----------------------------------------------------------------------------
(* Priorities.  In the NVIC a smaller number is more important.            *)

INT_NVIC_PRI(ipm) == (2^TBITW_IPRI + ipm) * 2^(8 - TBITW_IPRI)

\* The internal form: what BASEPRI is set to, or an index of the sets.
INT_IPM(ipm) == IF V6 THEN ipm + 2^TBITW_IPRI ELSE INT_NVIC_PRI(ipm)

IIPM_ENAALL == IF V6 THEN INT_IPM(TIPM_ENAALL) ELSE 0
IIPM_LOCK   == INT_IPM(TMIN_INTPRI)

KernelManaged == {i \in IntNo : intpri[i] >= TMIN_INTPRI}

\* CPU exceptions cannot be masked; anything interrupts a thread.
Priority(f) ==
    CASE f.who = "thread" -> 256
      [] f.who = "exc"    -> -1
      [] f.who = "PendSV" -> INT_NVIC_PRI(-1)
      [] OTHER            -> INT_NVIC_PRI(intpri[f.who])

Accepts(pri) ==
    /\ \A k \in DOMAIN ctx : pri < Priority(ctx[k])
    /\ V6 \/ hw.basepri = 0 \/ pri < hw.basepri

AcceptsPendSV == hw.pendsv /\ Accepts(INT_NVIC_PRI(-1))

Accepted == {i \in hw.ena : Accepts(INT_NVIC_PRI(intpri[i]))}

\* iipm_enable_irq_tbl of the configuration.
iipm_enable_irq_tbl == [iipm \in 0 .. 2^TBITW_IPRI |->
                           {i \in IntNo : intpri[i] <= iipm - 2^TBITW_IPRI}]

-----------------------------------------------------------------------------
(* Code: a sequence of instructions, each with an operand.                 *)

lock_cpu_v6m   == <<<<"CLRENA", 0>>, <<"SETENA", IIPM_LOCK>>, <<"lock_flag", TRUE>>>>
unlock_cpu_v6m == <<<<"lock_flag", FALSE>>, <<"SETENA_current", 0>>>>
t_set_ipm_v6m(ipm) ==
    <<<<"current", INT_IPM(ipm)>>, <<"CLRENA", 0>>, <<"SETENA_current", 0>>>>

lock_cpu ==
    IF V6 THEN lock_cpu_v6m
    ELSE <<<<"get_basepri", 0>>, <<"basepri_max", IIPM_LOCK>>,
           <<"save_iipm", 0>>, <<"lock_flag", TRUE>>>>

lock_cpu_dsp ==
    IF V6 THEN lock_cpu_v6m
    ELSE <<<<"basepri", IIPM_LOCK>>, <<"saved_iipm", IIPM_ENAALL>>, <<"lock_flag", TRUE>>>>

\* Mutant: the mask is restored first.
unlock_cpu_MaskFirst ==
    IF V6 THEN Reverse(unlock_cpu_v6m)
    ELSE <<<<"restore_iipm", 0>>, <<"lock_flag", FALSE>>>>

unlock_cpu ==
    IF V6 THEN unlock_cpu_v6m
    ELSE <<<<"lock_flag", FALSE>>, <<"restore_iipm", 0>>>>

unlock_cpu_dsp ==
    <<<<"lock_flag", FALSE>>, <<IF V6 THEN "SETENA" ELSE "basepri", IIPM_ENAALL>>>>

t_set_ipm(ipm) ==
    IF V6 THEN t_set_ipm_v6m(ipm)
    ELSE IF ipm = TIPM_ENAALL THEN <<<<"saved_iipm", IIPM_ENAALL>>>>
    ELSE <<<<"saved_iipm", INT_IPM(ipm)>>, <<"basepri_max", INT_IPM(ipm)>>>>

\* To the unlocked state, from a thread that has none of its own to restore.
idle_loop ==
    IF V6 THEN unlock_cpu ELSE unlock_cpu_dsp

start_r == unlock_cpu_dsp

core_int_entry == IF V6 THEN <<>> ELSE <<<<"push_basepri", 0>>>>
core_int_exit  ==
    (IF V6 THEN unlock_cpu ELSE <<<<"lock_flag", FALSE>>, <<"pop_basepri", 0>>>>)
        \o <<<<"return", 0>>>>

pendsv_handler ==
    (IF V6 THEN <<<<"CLRENA", 0>>, <<"SETENA", IIPM_LOCK>>>> ELSE <<<<"basepri", IIPM_LOCK>>>>)
        \o <<<<"switch", 0>>>>

\* A context: who runs, its code, two registers (the variables of lock_cpu
\* and of the entry), and its CPU lock and mask as the program sees them.
Context(who, code) ==
    [who |-> who, code |-> code, iipm |-> 0, entry |-> 0, flag |-> FALSE,
     lock |-> FALSE, ipm |-> TIPM_ENAALL]

\* What is kept of a task that does not run: how it goes on, and whether by
\* a return from an exception.
Fresh == [exc |-> FALSE, f |-> Context("thread", start_r)]

-----------------------------------------------------------------------------
disable_int_v6m(h, i) ==
    [h EXCEPT !.ena = @ \ {i}, !.masks = [m \in DOMAIN @ |-> @[m] \ {i}]]

enable_int_v6m(h, i) ==
    LET masks == [m \in DOMAIN h.masks |->
                     IF i \in iipm_enable_irq_tbl[m] THEN h.masks[m] \cup {i} ELSE h.masks[m]]
    IN  [h EXCEPT !.masks = masks, !.ena = @ \cup masks[IIPM_LOCK]]

\* Mutant: the interrupt is left in the sets of the masks.
disable_int_MasksLeft(h, i) == [h EXCEPT !.ena = @ \ {i}]

disable_int(h, i) == IF V6 THEN disable_int_v6m(h, i) ELSE [h EXCEPT !.ena = @ \ {i}]

enable_int(h, i) == IF V6 THEN enable_int_v6m(h, i) ELSE [h EXCEPT !.ena = @ \cup {i}]

config_int(h, i) ==
    IF i \in TA_ENAINT THEN enable_int(disable_int(h, i), i) ELSE disable_int(h, i)

core_initialize ==
    [lock_flag |-> TRUE, basepri |-> IF V6 THEN 0 ELSE IIPM_LOCK, saved_iipm |-> 0,
     masks     |-> IF V6 THEN [m \in 0 .. 2^TBITW_IPRI |-> IF m > IIPM_LOCK THEN IntNo ELSE {}]
                   ELSE <<>>,
     current   |-> IIPM_ENAALL, ena |-> {}, pend |-> {}, pendsv |-> FALSE]

\* start_dispatch, after the interrupts are configured, with nothing to run.
Init ==
    /\ LET h == FoldLeft(config_int, core_initialize, SetToSeq(IntNo))
       IN  hw = IF V6 THEN [h EXCEPT !.ena = h.masks[IIPM_LOCK]] ELSE h
    /\ ctx = <<Context("thread", idle_loop)>>
    /\ tsk = [runtsk |-> NULL, schedtsk |-> NULL, dspflg |-> TRUE,
              saved |-> [t \in Task |-> Fresh]]
    /\ disabled = IntNo \ TA_ENAINT

-----------------------------------------------------------------------------
(* One instruction of the running context.                                 *)

Running == Last(ctx)
Thread  == Len(ctx) = 1

Goes(f) == ctx' = [ctx EXCEPT ![Len(ctx)] = f]

Rest == [Running EXCEPT !.code = Tail(@)]

Masked(basepri, iipm) ==
    IF iipm # 0 /\ (basepri = 0 \/ iipm < basepri) THEN iipm ELSE basepri

\* The registers and variables after instruction o with operand a.
After(o, a) ==
    CASE o = "basepri_max"    -> [hw EXCEPT !.basepri = Masked(@, a)]
      [] o = "basepri"        -> [hw EXCEPT !.basepri = a]
      [] o = "restore_iipm"   -> [hw EXCEPT !.basepri = hw.saved_iipm]
      [] o = "pop_basepri"    -> [hw EXCEPT !.basepri = Running.entry]
      [] o = "saved_iipm"     -> [hw EXCEPT !.saved_iipm = a]
      [] o = "save_iipm"      -> [hw EXCEPT !.saved_iipm = Running.iipm]
      [] o = "lock_flag"      -> [hw EXCEPT !.lock_flag = a]
      [] o = "CLRENA"         -> [hw EXCEPT !.ena = {}]
      [] o = "SETENA"         -> [hw EXCEPT !.ena = @ \cup hw.masks[a]]
      [] o = "SETENA_current" -> [hw EXCEPT !.ena = @ \cup hw.masks[hw.current]]
      [] o = "current"        -> [hw EXCEPT !.current = a]
      [] o = "dis_int"        -> disable_int(hw, a)
      [] o = "ena_int"        -> enable_int(hw, a)
      [] o = "ras_int"        -> [hw EXCEPT !.pend = @ \cup {a}]
      [] o = "clr_int"        -> [hw EXCEPT !.pend = @ \ {a}]
      \* request_dispatch_retint
      [] o = "request"        -> [hw EXCEPT !.pendsv = @ \/ tsk.runtsk # tsk.schedtsk]
      [] OTHER                -> hw

Kernel == {"ready", "wait", "terminate", "request", "dispatch", "exit", "set_dspflg", "clr_dspflg"}
IntOps == {"dis_int", "ena_int", "ras_int", "clr_int"}
Jumps  == {"dispatch", "exit", "svc", "switch", "return", "return_exc", "return_thread"}

\* What p_schedtsk may be afterwards: it is frozen while dispatching is
\* disabled, only a task that waits or ends may leave none, and one that ends
\* may be started again at once by a request to activate it.
ScheduledBy(o) ==
    CASE o = "wait"                                     -> (Task \cup {NULL}) \ {tsk.runtsk}
      [] o = "terminate"                                -> Task \cup {NULL}
      [] o = "set_dspflg" \/ (o = "ready" /\ tsk.dspflg) -> Task
      [] OTHER                                          -> {tsk.schedtsk}

Execute ==
    /\ Running.code # <<>>
    /\ LET o == Head(Running.code)[1]
           a == Head(Running.code)[2]
       IN  /\ o \notin Jumps
           /\ hw' = After(o, a)
           /\ Goes([Rest EXCEPT !.iipm  = IF o = "get_basepri" THEN hw.basepri
                                          ELSE IF o = "save_iipm" THEN 0 ELSE @,
                                !.entry = IF o = "push_basepri" THEN hw.basepri ELSE @,
                                !.ipm   = IF o \in {"set_dspflg", "clr_dspflg"} THEN a ELSE @])
           /\ \E t \in ScheduledBy(o) :
                 tsk' = [tsk EXCEPT !.schedtsk = t,
                                    !.dspflg = (@ \/ o = "set_dspflg") /\ o # "clr_dspflg"]
           /\ disabled' = IF o = "dis_int" THEN disabled \cup {a}
                          ELSE IF o = "ena_int" THEN disabled \ {a} ELSE disabled

-----------------------------------------------------------------------------
(* The dispatcher. *)

\* The thread goes on with task p_runtsk, of which nothing is kept then.
Resume(run, saved) ==
    /\ tsk' = [tsk EXCEPT !.runtsk = run, !.saved = IF run = NULL THEN saved
                                                    ELSE [saved EXCEPT ![run] = Fresh]]
    /\ ctx' = <<IF run = NULL THEN Context("thread", idle_loop) ELSE saved[run].f>>

\* dispatcher_0: to Handler mode for a context that an exception saved.
dispatcher(saved) ==
    LET t == tsk.schedtsk IN
    /\ IF t # NULL /\ saved[t].exc
       THEN /\ tsk' = [tsk EXCEPT !.runtsk = t, !.saved = saved]
            /\ ctx' = <<Context("thread", <<<<"svc", 0>>>>)>>
       ELSE Resume(t, saved)
    /\ UNCHANGED <<hw, disabled>>

At(o) == Running.code # <<>> /\ Head(Running.code)[1] = o

do_dispatch ==
    /\ At("dispatch") /\ Thread
    /\ IF tsk.runtsk = tsk.schedtsk THEN Goes(Rest) /\ UNCHANGED <<hw, tsk, disabled>>
       ELSE dispatcher([tsk.saved EXCEPT ![tsk.runtsk] = [exc |-> FALSE, f |-> Rest]])

exit_and_dispatch ==
    /\ At("exit") /\ Thread
    /\ dispatcher([tsk.saved EXCEPT ![tsk.runtsk] = Fresh])

\* Nothing interrupts it.
svc_handler ==
    /\ At("svc")
    /\ Resume(tsk.runtsk, tsk.saved)
    /\ hw' = IF V6 THEN [hw EXCEPT !.lock_flag = FALSE, !.ena = @ \cup hw.masks[IIPM_ENAALL]]
             ELSE [hw EXCEPT !.lock_flag = FALSE, !.basepri = IIPM_ENAALL]
    /\ UNCHANGED disabled

TakePendSV ==
    /\ AcceptsPendSV
    /\ ctx' = Append(ctx, Context("PendSV", pendsv_handler))
    /\ hw' = [hw EXCEPT !.pendsv = FALSE]
    /\ UNCHANGED <<tsk, disabled>>

\* The part of pendsv_handler that saves a context and chooses another one.
Switch ==
    LET t     == tsk.schedtsk
        saved == IF tsk.runtsk = NULL THEN tsk.saved
                 ELSE [tsk.saved EXCEPT ![tsk.runtsk] = [exc |-> TRUE, f |-> ctx[1]]]
    IN  /\ At("switch")
        /\ tsk' = [tsk EXCEPT !.runtsk = t, !.saved = saved]
        /\ Goes([Running EXCEPT !.code =
                    IF t = NULL THEN <<<<"return_thread", 0>>>>
                    ELSE IF ~saved[t].exc THEN <<<<"lock_flag", TRUE>>, <<"return_thread", 0>>>>
                    ELSE IF V6 THEN <<<<"SETENA", IIPM_ENAALL>>, <<"return_exc", 0>>>>
                    ELSE <<<<"return_exc", 0>>>>])
        /\ UNCHANGED <<hw, disabled>>

\* From PendSV: a context that PendSV saved goes on with all interrupts
\* enabled (FAULTMASK is set meanwhile), others on their own.
ReturnFromPendSV ==
    /\ At("return_exc") \/ At("return_thread")
    /\ Resume(tsk.runtsk, tsk.saved)
    /\ hw' = IF At("return_exc") /\ ~V6 THEN [hw EXCEPT !.basepri = IIPM_ENAALL] ELSE hw
    /\ UNCHANGED disabled

-----------------------------------------------------------------------------
(* Interrupts: requests by the devices, and the handlers, which define_inh  *)
(* all enters by core_int_entry.                                           *)

Request(i) == hw' = [hw EXCEPT !.pend = @ \cup {i}] /\ UNCHANGED <<ctx, tsk, disabled>>

TakeInterrupt(i) ==
    /\ i \in hw.pend \cap Accepted
    /\ ctx' = Append(ctx, Context(i, core_int_entry))
    /\ hw' = [hw EXCEPT !.pend = @ \ {i}]
    /\ UNCHANGED <<tsk, disabled>>

HandlerEnds ==
    /\ Running.who \in IntNo /\ Running.code = <<>>
    /\ Goes([Running EXCEPT !.code = core_int_exit, !.lock = FALSE])
    /\ UNCHANGED <<hw, tsk, disabled>>

ReturnFromInterrupt == At("return") /\ ctx' = Front(ctx) /\ UNCHANGED <<hw, tsk, disabled>>

-----------------------------------------------------------------------------
(* CPU exceptions, anywhere but in one of them; no interrupt is accepted    *)
(* until the return, so that core_exc_entry is a step at either end.       *)

core_exc_entry ==
    /\ CpuExceptions /\ Running.who # "exc"
    /\ ctx' = Append(ctx, [Context("exc", <<>>) EXCEPT
                              !.entry = IF V6 THEN hw.current ELSE hw.basepri,
                              !.flag  = hw.lock_flag])
    /\ UNCHANGED <<hw, tsk, disabled>>

core_exc_exit ==
    /\ Running.who = "exc" /\ Running.code = <<>>
    /\ ctx' = Front(ctx)
    /\ hw' = IF ~V6 THEN [hw EXCEPT !.lock_flag = Running.flag, !.basepri = Running.entry]
             ELSE [hw EXCEPT !.lock_flag = Running.flag,
                             !.ena = hw.masks[IF Running.flag THEN IIPM_LOCK ELSE Running.entry]]
    /\ UNCHANGED <<tsk, disabled>>

\* xsns_dpn, of the exception that runs; it may not be called elsewhere.
exc_sense_intmask == Running.entry = IIPM_ENAALL /\ ~(V6 /\ Running.flag) /\ Len(ctx) = 2
xsns_dpn == ~(exc_sense_intmask /\ tsk.dspflg)

-----------------------------------------------------------------------------
(* Service calls.  Those that may be called with the CPU locked lock it    *)
(* themselves when it is not.                                              *)

LockUnless(locked)   == IF locked THEN <<>> ELSE lock_cpu
UnlockUnless(locked) == IF locked THEN <<>> ELSE unlock_cpu

InTask    == Thread /\ Running.who = "thread" /\ tsk.runtsk # NULL
InHandler == Running.who \in KernelManaged \/ (Running.who = "exc" /\ ~xsns_dpn)

Begin(call, code) ==
    /\ call \in Calls /\ Running.code = <<>>
    /\ Goes([Running EXCEPT !.code = code])
    /\ UNCHANGED <<hw, tsk, disabled>>

CHECK_UNL == ~hw.lock_flag

\* A call that may make a task ready: act_tsk, for one.
act_tsk ==
    /\ CHECK_UNL
    /\ \/ /\ InTask
          /\ Begin("act_tsk", lock_cpu \o <<<<"ready", 0>>, <<"dispatch", 0>>>> \o unlock_cpu)
       \/ /\ InHandler
          /\ Begin("act_tsk", lock_cpu \o <<<<"ready", 0>>, <<"request", 0>>>> \o unlock_cpu)

\* A call that makes the task wait.
slp_tsk ==
    /\ InTask /\ CHECK_UNL /\ tsk.dspflg
    /\ Begin("slp_tsk", lock_cpu_dsp \o <<<<"wait", 0>>, <<"dispatch", 0>>>> \o unlock_cpu_dsp)

ext_tsk ==
    /\ InTask
    /\ Begin("ext_tsk",
             LockUnless(hw.lock_flag)
                \o (IF tsk.dspflg THEN <<>> ELSE t_set_ipm(TIPM_ENAALL)
                                                   \o <<<<"set_dspflg", TIPM_ENAALL>>>>)
                \o <<<<"terminate", 0>>, <<"exit", 0>>>>)

chg_ipm(ipm) ==
    /\ InTask /\ CHECK_UNL /\ "chg_ipm" \in Calls /\ Running.code = <<>>
    /\ Goes([Running EXCEPT
                !.code = lock_cpu \o t_set_ipm(ipm)
                            \o (IF ipm = TIPM_ENAALL THEN <<<<"set_dspflg", ipm>>, <<"dispatch", 0>>>>
                                ELSE <<<<"clr_dspflg", ipm>>>>)
                            \o unlock_cpu])
    /\ UNCHANGED <<hw, tsk, disabled>>

\* loc_cpu and unl_cpu.
LockCall(lock) ==
    /\ InTask \/ Running.who \in KernelManaged
    /\ "loc_cpu" \in Calls /\ Running.code = <<>> /\ Running.lock # lock
    /\ Goes([Running EXCEPT
                !.lock = lock,
                !.code = IF lock THEN LockUnless(hw.lock_flag) ELSE UnlockUnless(~hw.lock_flag)])
    /\ UNCHANGED <<hw, tsk, disabled>>

\* dis_int, ena_int, ras_int and clr_int.
IntCall(o, i) ==
    /\ InTask \/ Running.who \in KernelManaged
    /\ o \in Calls /\ Running.code = <<>>
    /\ Goes([Running EXCEPT !.code = LockUnless(hw.lock_flag) \o <<<<o, i>>>>
                                        \o UnlockUnless(hw.lock_flag)])
    /\ UNCHANGED <<hw, tsk, disabled>>

-----------------------------------------------------------------------------
\* What the running context does.
Step ==
    \/ Execute
    \/ do_dispatch \/ exit_and_dispatch \/ svc_handler
    \/ Switch \/ ReturnFromPendSV
    \/ HandlerEnds \/ ReturnFromInterrupt
    \/ core_exc_entry \/ core_exc_exit
    \/ act_tsk \/ slp_tsk \/ ext_tsk
    \/ \E ipm \in Ipms : chg_ipm(ipm)
    \/ \E lock \in BOOLEAN : LockCall(lock)
    \/ \E o \in IntOps, i \in IntNo : IntCall(o, i)

\* An exception that is accepted comes before the next instruction.
Next ==
    \/ \E i \in IntNo : Request(i) \/ TakeInterrupt(i)
    \/ TakePendSV
    \/ ~AcceptsPendSV /\ hw.pend \cap Accepted = {} /\ Step

Spec == Init /\ [][Next]_vars

-----------------------------------------------------------------------------
(* Properties. *)

\* In a locked region of the kernel, or of the program.
Critical(f) ==
    IF f.code = <<>> THEN f.lock ELSE Head(f.code)[1] \in Kernel \cup IntOps \cup {"switch"}

\* Nothing the kernel manages comes between the steps of a locked region;
\* and between the calls the interrupts that are accepted are those of the
\* model, no more and no less, and the CPU lock flag tells the program's own
\* state, whatever interrupts, dispatches and exceptions have gone before.
StandardModelOK ==
    /\ \A k, l \in DOMAIN ctx :
          k < l /\ Critical(ctx[k]) => ctx[l].who \notin KernelManaged \cup {"PendSV"}
                                            /\ ~Critical(ctx[l])
    /\ Critical(Running) =>
          Accepted \cap KernelManaged = {} /\ (hw.lock_flag \/ At("switch"))
    /\ Running.code = <<>> /\ Running.who # "exc" =>
          /\ hw.lock_flag = Running.lock
          /\ Accepted \cap KernelManaged =
                IF Running.lock THEN {}
                ELSE {i \in KernelManaged \ disabled :
                         /\ intpri[i] < ctx[1].ipm
                         /\ \A k \in 2 .. Len(ctx) : INT_NVIC_PRI(intpri[i]) < Priority(ctx[k])}

\* The CPU lock masks the interrupts of priority TMIN_INTPRI and below ("CPU
\* ロックは，basepriをTMIN_INTPRIの優先度の割込みを禁止する値に設定する．basepri
\* が存在しないARMv6-MではNVICの割り込み許可ビットを操作する"), so that their
\* handlers start with the CPU unlocked ("assert(!sense_lock())" in signal_time).
StartsUnlocked == \A i \in KernelManaged : TakeInterrupt(i) => ~hw.lock_flag
LockMasks == [][StartsUnlocked]_vars
=============================================================================
