---------------------------- MODULE MCTimeEvents ----------------------------
(***************************************************************************)
(* TimeEvent and its heap for TLC, in three scenarios of which the initial *)
(* state chooses one.  "tick": an alarm, a cyclic and a wait over the      *)
(* SysTick timer.  "systim": one alarm over a free-running timer, with a   *)
(* system time that is wider than the event time, as it is in the kernel.  *)
(* "heap": MCTimeHeap, the heap by itself.                                 *)
(***************************************************************************)
EXTENDS Integers, TLC

CONSTANTS A, W, C

VARIABLES tm, sig, callflag,    \* as in TimeEvent
          scenario

vars == <<tm, sig, callflag, scenario>>

BOUNDARY_MARGIN == 3
TMAX_ADJTIM == 1
Adjtims == {-1, 1}

T == INSTANCE TimeEvent WITH
        Event <- {A, W, C}, Alarm <- {A}, Cyclic <- {C}, Wait <- {W},
        TA_STA <- {C}, cyctim <- C :> 2, cycphs <- C :> 1,
        EVTTIM_MOD <- 10, SYSTIM_MOD <- 10,
        SYSTICK <- TRUE, TSTEP_HRTCNT <- 2, HRTCNT_BOUND <- 4, LATENCY <- 2,
        TMAX_RELTIM <- 3, Reltims <- {0, 1, 3}, Systims <- {}

S == INSTANCE TimeEvent WITH
        Event <- {A}, Alarm <- {A}, Cyclic <- {}, Wait <- {},
        TA_STA <- {}, cyctim <- <<>>, cycphs <- <<>>,
        EVTTIM_MOD <- 8, SYSTIM_MOD <- 24,
        SYSTICK <- FALSE, TSTEP_HRTCNT <- 1, HRTCNT_BOUND <- 3, LATENCY <- 2,
        TMAX_RELTIM <- 2, Reltims <- {0, 1, 2}, Systims <- {0, 7}

H == INSTANCE MCTimeHeap WITH
        Event <- 1 .. 6, EVTTIM_MOD <- 8, KEY_BOUND <- 2

ASSUME HeapAssumption == H!KeyAssumption

MCInit ==
    \/ scenario = "tick" /\ T!Init
    \/ scenario = "systim" /\ S!Init
    \/ scenario = "heap" /\ H!Init /\ sig = "idle" /\ callflag = FALSE

MCNext ==
    /\ UNCHANGED scenario
    /\ \/ scenario = "systim" /\ S!Next
       \/ scenario = "tick" /\ T!Next
       \/ scenario = "heap" /\ H!Next /\ UNCHANGED <<sig, callflag>>

MCSpec == MCInit /\ [][MCNext]_vars

-----------------------------------------------------------------------------
\* HeapOK of TimeEvent, through callbacks that start and stop events, and of
\* MCTimeHeap, for every heap: time_event.c:165-366.
HeapOK ==
    /\ scenario = "tick" => T!HeapOK
    /\ scenario = "systim" => S!HeapOK
    /\ scenario = "heap" => H!HeapOK

\* OnTimeOK of TimeEvent: what the application sees of the time left and of
\* when an event is called, with both timers.  time_event.c:526-575.
OnTimeOK ==
    /\ scenario = "tick" => T!OnTimeOK
    /\ scenario = "systim" => S!OnTimeOK

\* An operation on the heap concerns one event, and the one taken from the top
\* is an earliest: time_event.c:331, 342, 362.
OneEvent == [][scenario = "heap" => H!OneEventStep]_tm

\* ImplementsEventTimes of TimeEvent with the SysTick timer and with a system
\* time wider than the event time: every step is one of EventTimes, or changes
\* nothing of it.  time_event.c:374-400, 475-495, time_manage.c:93-185.
ImplementsEventTimes ==
    /\ scenario = "tick" => T!Times!Init
    /\ scenario = "systim" => S!Times!Init
    /\ [][/\ scenario = "tick" => [T!Times!Next]_(T!Times!vars)
          /\ scenario = "systim" => [S!Times!Next]_(S!Times!vars)]_vars
=============================================================================
