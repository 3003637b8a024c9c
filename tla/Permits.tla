------------------------------ MODULE Permits ------------------------------
(***************************************************************************)
(* What a semaphore promises: a stock of at most maxsem permits; each is   *)
(* given to one taker, who need not wait while there is one; each that is  *)
(* returned goes to one waiting task, or into the stock.  Semaphore        *)
(* implements it.                                                          *)
(***************************************************************************)
EXTENDS Integers

CONSTANTS Task, isemcnt, maxsem

VARIABLES
    stock,    \* the permits nobody has
    waiting   \* the tasks that wait for one

vars == <<stock, waiting>>

Init == stock = isemcnt /\ waiting = {}

Take ==
    /\ stock > 0
    /\ stock' = stock - 1
    /\ UNCHANGED waiting

Wait(t) ==
    /\ stock = 0 /\ t \notin waiting
    /\ waiting' = waiting \cup {t}
    /\ UNCHANGED stock

\* To a task that waits, whose wait ends; into the stock only if none waits.
Give ==
    \/ /\ waiting = {} /\ stock < maxsem
       /\ stock' = stock + 1
       /\ UNCHANGED waiting
    \/ \E t \in waiting : waiting' = waiting \ {t} /\ UNCHANGED stock

\* A wait that ends without a permit costs none.
GiveUp(t) ==
    /\ waiting' = waiting \ {t}
    /\ UNCHANGED stock

Reset == stock' = isemcnt /\ waiting' = {}

Next ==
    \/ Take \/ Give \/ Reset
    \/ \E t \in Task : Wait(t) \/ GiveUp(t)

Spec == Init /\ [][Next]_vars
=============================================================================
