------------------------------- MODULE Blocks -------------------------------
(***************************************************************************)
(* What a memory pool promises, without its lists: a block has one holder  *)
(* at a time, who need not wait while a block is free; a block given back  *)
(* goes to one waiting task, or is free.  MemPool implements it.           *)
(***************************************************************************)
CONSTANTS Task, Block

VARIABLES
    free,     \* the blocks nobody holds
    waiting,  \* the tasks that wait for one
    given     \* the task that the last step gave a block, and the block

vars == <<free, waiting, given>>

Init == free = Block /\ waiting = {} /\ given = <<>>

Get(t, b) ==
    /\ b \in free
    /\ free' = free \ {b}
    /\ given' = [u \in {t} |-> b]
    /\ UNCHANGED waiting

Wait(t) ==
    /\ free = {} /\ t \notin waiting
    /\ waiting' = waiting \cup {t}
    /\ given' = <<>> /\ UNCHANGED free

GiveBack(b) ==
    /\ b \in Block \ free
    /\ \/ /\ waiting = {}
          /\ free' = free \cup {b}
          /\ given' = <<>> /\ UNCHANGED waiting
       \/ \E t \in waiting :
             /\ given' = [u \in {t} |-> b]
             /\ waiting' = waiting \ {t}
             /\ UNCHANGED free

GiveUp(t) == waiting' = waiting \ {t} /\ given' = <<>> /\ UNCHANGED free

Reset == free' = Block /\ waiting' = {} /\ given' = <<>>

Next ==
    \/ \E t \in Task : Wait(t) \/ GiveUp(t) \/ \E b \in Block : Get(t, b)
    \/ \E b \in Block : GiveBack(b)
    \/ Reset

Spec == Init /\ [][Next]_vars
=============================================================================
