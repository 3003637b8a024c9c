----------------------------- MODULE EventTimes -----------------------------
(***************************************************************************)
(* What the kernel promises about time events and the system time: the     *)
(* manual's view, in whole numbers that do not wrap around, with neither   *)
(* heap nor timer.  TimeEvent implements it.                               *)
(*                                                                         *)
(* Every started event has a time left; it may be called when none is      *)
(* left, and the earliest first.  The system time is that of a clock that  *)
(* never goes back: when adj_tim sets the events' clock back, it stands    *)
(* still until the events' clock has caught up.                            *)
(***************************************************************************)
EXTENDS Integers

CONSTANTS
    Event, Cyclic,      \* the events, and those that are cyclic
    cyctim, cycphs,     \* period and first time of the cyclic ones
    TA_STA,             \* the cyclic ones started at boot
    TSTEP_HRTCNT,       \* the step in which the timer counts
    TMAX_RELTIM,        \* the longest time an event can be started with
    TMAX_ADJTIM,        \* the largest adjustment
    SYSTIM_MOD          \* the number of values of the system time

VARIABLES
    left,      \* for each started event: the time until it occurs
    lag,       \* how far the events' clock is behind the system time
    systim     \* the system time

vars == <<left, lag, systim>>

Started == DOMAIN left

Init ==
    /\ left = [e \in TA_STA |-> cycphs[e]]
    /\ lag = 0
    /\ systim = 0

\* The events' clock goes on by d, or back.
Move(d) ==
    /\ left' = [e \in Started |-> left[e] - d]
    /\ lag' = IF lag > d THEN lag - d ELSE 0
    /\ systim' = (systim + (IF d > lag THEN d - lag ELSE 0)) % SYSTIM_MOD

Pass == \E d \in {1, TSTEP_HRTCNT} : Move(d)

\* Not when an event is late already, or the clock is far behind.
Adjust ==
    \E d \in -TMAX_ADJTIM .. TMAX_ADJTIM :
       /\ d > 0 => \A e \in Started : left[e] > -TMAX_ADJTIM
       /\ d < 0 => lag < TMAX_ADJTIM
       /\ Move(d)

Set ==
    /\ systim' \in 0 .. SYSTIM_MOD - 1
    /\ UNCHANGED <<left, lag>>

\* At least t passes: the step the count is in has begun already.
Start(e, t) ==
    /\ left' = [f \in Started \cup {e} |->
                   IF f = e THEN TSTEP_HRTCNT + t ELSE left[f]]
    /\ UNCHANGED <<lag, systim>>

Stop(e) ==
    /\ e \in Started
    /\ left' = [f \in Started \ {e} |-> left[f]]
    /\ UNCHANGED <<lag, systim>>

\* A cyclic event is due again one period after it was due, not after it was
\* called.
Call(e) ==
    /\ e \in Started
    /\ left[e] <= 0
    /\ \A f \in Started : left[e] <= left[f]
    /\ IF e \in Cyclic
       THEN left' = [left EXCEPT ![e] = @ + cyctim[e]]
       ELSE left' = [f \in Started \ {e} |-> left[f]]
    /\ UNCHANGED <<lag, systim>>

Next ==
    \/ Pass
    \/ Adjust
    \/ Set
    \/ \E e \in Event :
          \/ \E t \in 0 .. TMAX_RELTIM : Start(e, t)
          \/ Stop(e)
          \/ Call(e)

Spec == Init /\ [][Next]_vars
=============================================================================
