----------------------------- MODULE TimeEvent -----------------------------
(***************************************************************************)
(* Time events, the system time, alarms and cyclics of the ASP3 kernel     *)
(* (kernel/time_event.c, time_manage.c, alarm.c, cyclic.c) over a timer.   *)
(*                                                                         *)
(* tm is the data section; beside the fields of TimeHeap:                  *)
(*   current_evttim, monotonic_evttim, systim_offset, in_signal_time       *)
(*                   the kernel's variables of these names                 *)
(*   started         ALMCB.almsta, CYCCB.cycsta; for the event of a wait,  *)
(*                   that the task waits with a time limit                 *)
(*   hrtcnt_advance  target_hrt_get_current() - current_hrtcnt: how far    *)
(*                   the count has gone since the kernel last read it      *)
(*   hrt_event       counts until the timer's interrupt; 0 or less: it is  *)
(*                   pending for so long.  0 while it is served            *)
(*                                                                         *)
(* Two timers can be configured.  SYSTICK: core_timer.c, an interrupt at   *)
(* every tick, the count is the number of ticks the handler has seen times *)
(* TSTEP_HRTCNT, and what the kernel asks of the timer is ignored.         *)
(* Otherwise a free-running count and an interrupt when the kernel wants   *)
(* it, as target_timer.h asks of a driver.                                 *)
(*                                                                         *)
(* Time does not pass while the CPU is locked: a call, and signal_time     *)
(* between two handlers, takes no time.                                    *)
(***************************************************************************)
EXTENDS TimeHeap

CONSTANTS
    Alarm, Cyclic, Wait,  \* events of alarms, of cyclics and of waiting tasks
    cyctim, cycphs,       \* CYCINIB: period and first time of a cyclic
    TA_STA,               \* the cyclics started at boot
    SYSTICK,              \* USE_SYSTICK_AS_TIMETICK
    TSTEP_HRTCNT, HRTCNT_BOUND, BOUNDARY_MARGIN,
    TMAX_RELTIM, TMAX_ADJTIM,   \* TMIN_ADJTIM is -TMAX_ADJTIM
    SYSTIM_MOD,           \* the number of values of SYSTIM
    Reltims, Adjtims, Systims,  \* bounds: the arguments the application uses
    LATENCY               \* bound: the interrupt waits and a handler runs less
                          \* than so many counts (not for SYSTICK)

ASSUME EventAssumption ==
    /\ Event = Alarm \cup Cyclic \cup Wait
    /\ Alarm \cap Cyclic = {} /\ Alarm \cap Wait = {} /\ Cyclic \cap Wait = {}
    /\ TA_STA \subseteq Cyclic /\ IsFiniteSet(TA_STA)
    /\ cycphs \in [Cyclic -> 0 .. TMAX_RELTIM]
    /\ cyctim \in [Cyclic -> 1 .. TMAX_RELTIM]
ASSUME ArgumentAssumption ==
    /\ Reltims \subseteq 0 .. TMAX_RELTIM
    /\ Adjtims \subseteq -TMAX_ADJTIM .. TMAX_ADJTIM
    /\ Systims \subseteq 0 .. SYSTIM_MOD - 1
\* The kernel's figures: 4000000000 + 1000 + 2 * 1000000 <= 2^32 - 200000000,
\* and 4000000002 < 2^32.
ASSUME FigureAssumption ==
    /\ {TMAX_RELTIM, BOUNDARY_MARGIN, LATENCY} \subseteq Nat
    /\ {TSTEP_HRTCNT, TMAX_ADJTIM, HRTCNT_BOUND, SYSTIM_MOD} \subseteq Nat \ {0}
    /\ TMAX_RELTIM + TSTEP_HRTCNT + 2 * TMAX_ADJTIM
          <= EVTTIM_MOD - BOUNDARY_MARGIN
    /\ 2 * TMAX_ADJTIM + TSTEP_HRTCNT <= BOUNDARY_MARGIN + 1
    /\ HRTCNT_BOUND + LATENCY < EVTTIM_MOD
    /\ SYSTICK \in BOOLEAN /\ SYSTIM_MOD % EVTTIM_MOD = 0

VARIABLES
    tm,        \* the data section
    sig,       \* signal_time: not running, in its loops, or in a callback
               \* that has unlocked the CPU
    callflag   \* its local variable

vars == <<tm, sig, callflag>>

-----------------------------------------------------------------------------
(* The timer. *)

target_hrt_set_event(t, hrtcnt) ==
    IF SYSTICK THEN t ELSE [t EXCEPT !.hrt_event = hrtcnt]

target_hrt_raise_event(t) == target_hrt_set_event(t, 0)

-----------------------------------------------------------------------------
(* time_event.c, the second half.  d can be negative in adj_tim only. *)
\* Mutant: the upper half of the system time is not carried to.
advance_evttim_NoCarry(t, d) ==
    LET now == (t.current_evttim + d) % EVTTIM_MOD
        passed == d > 0 /\ (t.monotonic_evttim - t.current_evttim) % EVTTIM_MOD < d
    IN  [t EXCEPT !.current_evttim = now,
                  !.boundary_evttim = (now - BOUNDARY_MARGIN) % EVTTIM_MOD,
                  !.monotonic_evttim = IF passed THEN now ELSE @]

\* The events' clock moves by d; the monotonic one follows if it is passed.
advance_evttim(t, d) ==
    LET now == (t.current_evttim + d) % EVTTIM_MOD
        passed == d > 0 /\ (t.monotonic_evttim - t.current_evttim) % EVTTIM_MOD < d
        carry == IF passed /\ now < t.monotonic_evttim THEN EVTTIM_MOD ELSE 0
    IN  [t EXCEPT !.current_evttim = now,
                  !.boundary_evttim = (now - BOUNDARY_MARGIN) % EVTTIM_MOD,
                  !.systim_offset = (@ + carry) % SYSTIM_MOD,
                  !.monotonic_evttim = IF passed THEN now ELSE @]

update_current_evttim(t) ==
    advance_evttim([t EXCEPT !.hrtcnt_advance = 0], t.hrtcnt_advance % EVTTIM_MOD)
\* Mutant: the time is taken from the beginning of the timer's step.
calc_current_evttim_ub_Down(t) == t.current_evttim

calc_current_evttim_ub(t) == (t.current_evttim + TSTEP_HRTCNT) % EVTTIM_MOD

set_hrt_event(t) ==
    LET hrtcnt == (top_evttim(t) - t.current_evttim) % EVTTIM_MOD
    IN  IF t.tmevt_heap = <<>>
        THEN target_hrt_set_event(t, HRTCNT_BOUND)
        ELSE IF EVTTIM_LE(t, top_evttim(t), t.current_evttim)
        THEN target_hrt_raise_event(t)
        ELSE target_hrt_set_event(t, IF hrtcnt > HRTCNT_BOUND
                                     THEN HRTCNT_BOUND ELSE hrtcnt)
\* Mutant: the timer is only set if no other event is registered.
tmevtb_enqueue_reltim_First(t, e, time) ==
    LET now == update_current_evttim(t)
        at == (calc_current_evttim_ub(now) + time) % EVTTIM_MOD
        in == tmevtb_insert([now EXCEPT !.evttim[e] = at], e)
    IN  IF ~in.in_signal_time /\ t.tmevt_heap = <<>> THEN set_hrt_event(in) ELSE in

tmevtb_enqueue_reltim(t, e, time) ==
    LET now == update_current_evttim(t)
        at == (calc_current_evttim_ub(now) + time) % EVTTIM_MOD
        in == tmevtb_insert([now EXCEPT !.evttim[e] = at], e)
    IN  IF ~in.in_signal_time /\ in.p_tmevtn[e] = 1 THEN set_hrt_event(in) ELSE in

tmevtb_dequeue(t, e) ==
    LET out == tmevtb_delete(t, e)
    IN  IF ~out.in_signal_time /\ t.p_tmevtn[e] = 1
        THEN set_hrt_event(update_current_evttim(out))
        ELSE out
\* Mutant: whatever is late already, time can be put forward.
check_adjtim_Backward(t, adjtim) ==
    /\ adjtim < 0
    /\ (t.monotonic_evttim - t.current_evttim) % EVTTIM_MOD >= TMAX_ADJTIM

\* TRUE if the adjustment must be refused.
check_adjtim(t, adjtim) ==
    IF adjtim > 0
    THEN /\ t.tmevt_heap # <<>>
         /\ EVTTIM_LE(t, (top_evttim(t) + TMAX_ADJTIM) % EVTTIM_MOD, t.current_evttim)
    ELSE /\ adjtim < 0
         /\ (t.monotonic_evttim - t.current_evttim) % EVTTIM_MOD >= TMAX_ADJTIM
tmevt_lefttim(t, e) ==
    LET now == update_current_evttim(t)
        ub == calc_current_evttim_ub(now)
    IN  IF EVTTIM_LE(now, t.evttim[e], ub) THEN 0 ELSE (t.evttim[e] - ub) % EVTTIM_MOD

\* What get_tim answers.
systim_now(t) ==
    LET now == update_current_evttim(t)
    IN  (now.systim_offset + now.monotonic_evttim) % SYSTIM_MOD

-----------------------------------------------------------------------------
(* The boot: initialize_tmevt, initialize_cyclic, and the end of sta_ker. *)

initialize_tmevt ==
    [tmevt_heap |-> <<>>, p_tmevtn |-> <<>>,
     evttim |-> [e \in Event |-> 0],
     boundary_evttim |-> (0 - BOUNDARY_MARGIN) % EVTTIM_MOD,
     current_evttim |-> 0, monotonic_evttim |-> 0, systim_offset |-> 0,
     in_signal_time |-> FALSE, started |-> [e \in Event |-> FALSE],
     hrtcnt_advance |-> 0, hrt_event |-> 0]

start_cyclic(t, e) ==
    tmevtb_insert([t EXCEPT !.started[e] = TRUE, !.evttim[e] = cycphs[e]], e)

\* Cyclics are initialized in the order of their numbers: any order.
initialize_cyclic(order) == FoldLeft(start_cyclic, initialize_tmevt, order)

Init ==
    /\ \E order \in SetToSeqs(TA_STA) : tm = set_hrt_event(initialize_cyclic(order))
    /\ sig = "idle"
    /\ callflag = FALSE

-----------------------------------------------------------------------------
(* Service calls.  A task can make one when signal_time does not run, an   *)
(* interrupt handler also while a callback has the CPU unlocked, and so    *)
(* can the handler that the callback runs.                                 *)

TSKCTX == sig = "idle"
CHECK_UNL == sig # "loop"

Call(t) == tm' = t /\ UNCHANGED <<sig, callflag>>

Start(e, time) ==
    LET out == IF tm.started[e] THEN tmevtb_dequeue(tm, e)
                                ELSE [tm EXCEPT !.started[e] = TRUE]
    IN  Call(tmevtb_enqueue_reltim(out, e, time))

Stop(e) ==
    /\ tm.started[e]
    /\ Call(tmevtb_dequeue([tm EXCEPT !.started[e] = FALSE], e))

sta_alm == CHECK_UNL /\ \E e \in Alarm, almtim \in Reltims : Start(e, almtim)
stp_alm == CHECK_UNL /\ \E e \in Alarm : Stop(e)

sta_cyc == TSKCTX /\ \E e \in Cyclic : Start(e, cycphs[e])
stp_cyc == TSKCTX /\ \E e \in Cyclic : Stop(e)

\* A task begins to wait with a time limit; a task or handler ends the wait.
make_wait_tmout ==
    /\ TSKCTX
    /\ \E e \in Wait, tmout \in Reltims :
          ~tm.started[e] /\ Start(e, tmout)
wait_dequeue_tmevtb == CHECK_UNL /\ \E e \in Wait : Stop(e)

set_tim ==
    /\ TSKCTX
    /\ \E systim \in Systims :
          LET now == update_current_evttim(tm)
          IN  Call([now EXCEPT !.systim_offset =
                                  (systim - now.monotonic_evttim) % SYSTIM_MOD])

get_tim == TSKCTX /\ Call(update_current_evttim(tm))

\* What the reference calls do besides answering tmevt_lefttim.
Refer(events) ==
    TSKCTX /\ \E e \in events : tm.started[e] /\ Call(update_current_evttim(tm))

ref_alm == Refer(Alarm)
ref_cyc == Refer(Cyclic)
ref_tsk == Refer(Wait)

\* Mutant: events that the adjustment makes due are left to the old setting.
adj_tim_NotSet ==
    /\ CHECK_UNL
    /\ \E adjtim \in Adjtims :
          LET now == update_current_evttim(tm)
          IN  Call(IF check_adjtim(now, adjtim) THEN now
                                                ELSE advance_evttim(now, adjtim))

adj_tim ==
    /\ CHECK_UNL
    /\ \E adjtim \in Adjtims :
          LET now == update_current_evttim(tm)
              moved == advance_evttim(now, adjtim)
          IN  IF check_adjtim(now, adjtim)
              THEN Call(now)
              ELSE Call(IF now.in_signal_time THEN moved ELSE set_hrt_event(moved))

-----------------------------------------------------------------------------
(* Time, and the interrupt of the timer. *)

\* How far away an event is, as the code sees it, and now.
Signed(n) == IF n >= EVTTIM_MOD - BOUNDARY_MARGIN THEN n - EVTTIM_MOD ELSE n
Left(t, e) == Signed((t.evttim[e] - t.current_evttim) % EVTTIM_MOD) - t.hrtcnt_advance

\* The timer counts.  Interrupts are served within bounds: no event ever waits
\* longer than BOUNDARY_MARGIN (200 s) for its handler.
count ==
    /\ ~SYSTICK
    /\ sig # "loop"
    /\ \A e \in Registered(tm) : Left(tm, e) > -BOUNDARY_MARGIN
    /\ IF sig = "idle" THEN tm.hrt_event > -LATENCY ELSE tm.hrtcnt_advance < LATENCY
    /\ tm' = [tm EXCEPT !.hrtcnt_advance = @ + 1,
                        !.hrt_event = IF sig = "idle" THEN @ - 1 ELSE @]
    /\ UNCHANGED <<sig, callflag>>

\* The interrupt is accepted and signal_time begins, to its first reading.
target_hrt_handler ==
    /\ sig = "idle"
    /\ SYSTICK \/ tm.hrt_event <= 0
    /\ LET counted == IF SYSTICK THEN [tm EXCEPT !.hrtcnt_advance = @ + TSTEP_HRTCNT]
                                 ELSE [tm EXCEPT !.hrt_event = 0]
       IN  tm' = update_current_evttim([counted EXCEPT !.in_signal_time = TRUE])
    /\ sig' = "loop"
    /\ callflag' = FALSE

TopIsDue == tm.tmevt_heap # <<>> /\ EVTTIM_LE(tm, top_evttim(tm), tm.current_evttim)

call_cyclic(t, e) ==
    tmevtb_insert([t EXCEPT !.evttim[e] = (@ + cyctim[e]) % EVTTIM_MOD], e)
\* Mutant: the alarm still counts as started when its handler runs.
call_once_Started(t, e) == t

\* call_alarm, and the change of a task's state in wait_tmout.
call_once(t, e) == [t EXCEPT !.started[e] = FALSE]

\* The callback of the earliest event, to where it unlocks the CPU.
signal_time_call ==
    /\ sig = "loop"
    /\ TopIsDue
    /\ LET e == Head(tm.tmevt_heap)
       IN  \E out \in {tmevtb_delete_top(tm)} :
              tm' = IF e \in Cyclic THEN call_cyclic(out, e) ELSE call_once(out, e)
    /\ sig' = "call"
    /\ callflag' = TRUE

\* The callback locks the CPU again and returns.
callback_return ==
    /\ sig = "call"
    /\ sig' = "loop"
    /\ UNCHANGED <<tm, callflag>>

\* Time has passed in the callbacks: once more.
signal_time_again ==
    /\ sig = "loop"
    /\ ~TopIsDue
    /\ callflag
    /\ tm' = update_current_evttim(tm)
    /\ callflag' = FALSE
    /\ UNCHANGED sig
signal_time_end ==
    /\ sig = "loop"
    /\ ~TopIsDue
    /\ ~callflag
    /\ tm' = [set_hrt_event(tm) EXCEPT !.in_signal_time = FALSE]
    /\ sig' = "idle"
    /\ UNCHANGED callflag

signal_time == signal_time_call \/ callback_return \/ signal_time_again
                 \/ signal_time_end

Next ==
    \/ sta_alm \/ stp_alm \/ sta_cyc \/ stp_cyc
    \/ make_wait_tmout \/ wait_dequeue_tmevtb
    \/ set_tim \/ get_tim \/ adj_tim
    \/ ref_alm \/ ref_cyc \/ ref_tsk
    \/ count \/ target_hrt_handler
    \/ signal_time_call \/ callback_return
    \/ signal_time_again \/ signal_time_end

Spec == Init /\ [][Next]_vars

\* A pending interrupt is accepted, and handlers come to an end.
FairSpec == Spec /\ WF_vars(target_hrt_handler) /\ WF_vars(signal_time)
-----------------------------------------------------------------------------
(* Properties. *)

TypeOK ==
    /\ tm.tmevt_heap \in Seq(Event)
    /\ tm.p_tmevtn \in [Registered(tm) -> 1 .. Len(tm.tmevt_heap)]
    /\ tm.evttim \in [Event -> Evttim]
    /\ tm.started \in [Event -> BOOLEAN]
    /\ {tm.boundary_evttim, tm.current_evttim, tm.monotonic_evttim} \subseteq Evttim
    /\ tm.systim_offset \in 0 .. SYSTIM_MOD - 1
    /\ tm.in_signal_time = (sig # "idle")
    /\ sig \in {"idle", "loop", "call"}
    /\ callflag \in BOOLEAN

StartedEvents == {e \in Event : tm.started[e]}

\* Whatever a callback, a handler and a task start and stop, an event is in the
\* heap if and only if its alarm, cyclic or wait is started, at its node, and
\* the heap is in order though times wrap around and the boundary moves.
\* alarm.c:137, cyclic.c:147, wait.h:155: the flag decides whether the event
\* is taken out of the heap.
HeapOK ==
    /\ TypeOK
    /\ HeapOrder(tm)
    /\ BackPointers(tm)
    /\ Registered(tm) = StartedEvents

\* Outside signal_time the timer interrupts no later than the first event, and
\* in any case before its count wraps around; so no event is forgotten when
\* another one is started, stopped or called.  time_event.c:492, 518, 638,
\* time_manage.c:175: who changes the first event sets the timer.
TimerSet ==
    ~SYSTICK /\ sig = "idle" =>
       /\ tm.hrt_event <= HRTCNT_BOUND
       /\ tm.tmevt_heap # <<>> =>
             LET left == Left(tm, tm.tmevt_heap[1])
             IN  tm.hrt_event <= IF left > 0 THEN left ELSE 0

\* The kernel reads the count before it has gone round: the difference at
\* time_event.c:380 is the time that has passed.
CountRead == tm.hrtcnt_advance < EVTTIM_MOD

\* What keeps a free-running timer in step with the events.
TimerOK == TimerSet /\ CountRead

\* Adjustments make no event later than twice the largest one, time_event.c:536;
\* otherwise an event is called at its tick.
OnTick ==
    SYSTICK /\ sig = "idle" =>
       \A e \in StartedEvents : Left(tm, e) > -2 * TMAX_ADJTIM

\* The time left as ref_alm, ref_cyc and ref_tsk report it: never more than
\* there is, and 0 for an event that is due.  time_event.c:551-575.
LefttimOK ==
    sig = "idle" =>
       \A e \in StartedEvents :
          tmevt_lefttim(tm, e) =
             LET left == Left(tm, e) - TSTEP_HRTCNT IN IF left > 0 THEN left ELSE 0

\* What the application sees of the events' times.
OnTimeOK == OnTick /\ LefttimOK

\* An event that is due is called, unless it is stopped, started anew or put
\* off by an adjustment, whatever handlers do in between.  time_event.c:599-638:
\* the loops end with nothing due, and the timer is set for what comes.
Due(e) == tm.started[e] /\ Left(tm, e) <= 0
DueIsCalled == \A e \in Event \ Cyclic : []<>~Due(e)

\* Events come no earlier than they were asked for, in the order of their
\* times, a cyclic one without drift, and the system time goes on without a
\* step: modulo 2^32, with a heap and a timer that is set now and then, the
\* kernel does what EventTimes says.  time_event.c:112-114, 374-400, 475-495.
Lag == ((tm.monotonic_evttim - tm.current_evttim) % EVTTIM_MOD) - tm.hrtcnt_advance

Times == INSTANCE EventTimes WITH
            left <- [e \in StartedEvents |-> Left(tm, e)],
            lag <- IF Lag > 0 THEN Lag ELSE 0,
            systim <- systim_now(tm)

ImplementsEventTimes == Times!Spec
=============================================================================
