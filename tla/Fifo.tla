-------------------------------- MODULE Fifo --------------------------------
(***************************************************************************)
(* What a data queue promises its tasks, with neither a ring buffer nor    *)
(* queues of tasks: data come out in the order they went in, each once, to *)
(* one task; what a waiting task offers goes in as soon as there is room,  *)
(* or never if the task gives up.  DataQueue implements it.                *)
(***************************************************************************)
EXTENDS Integers, Sequences

CONSTANTS
    Task, Data,
    NULL,       \* no data yet
    Capacity    \* how many data the queue stores

VARIABLES
    stored,  \* the data that went in, oldest first
    offers,  \* for each task waiting to send: its data
    got      \* what each task received last

vars == <<stored, offers, got>>

Full    == Len(stored) = Capacity
Waiting == DOMAIN offers
Without(t) == [u \in Waiting \ {t} |-> offers[u]]

Init ==
    /\ stored = <<>>
    /\ offers = <<>>
    /\ got = [t \in Task |-> NULL]

Receives(t, d) == got' = [got EXCEPT ![t] = d]

\* Data goes in, or past an empty queue to a task.
Put(d) ==
    /\ ~Full
    /\ stored' = Append(stored, d)
    /\ UNCHANGED <<offers, got>>

Hand(t, d) ==
    /\ stored = <<>> /\ Waiting = {}
    /\ Receives(t, d)
    /\ UNCHANGED <<stored, offers>>

\* Only a full queue makes a task wait.
Offer(t, d) ==
    /\ Full /\ t \notin Waiting
    /\ offers' = [u \in Waiting \cup {t} |-> IF u = t THEN d ELSE offers[u]]
    /\ UNCHANGED <<stored, got>>

Withdraw(t) ==
    /\ offers' = Without(t)
    /\ UNCHANGED <<stored, got>>

\* The oldest data comes out, and an offer takes the room it leaves.
Take(t) ==
    /\ stored # <<>>
    /\ Receives(t, Head(stored))
    /\ \/ /\ Waiting = {}
          /\ stored' = Tail(stored)
          /\ UNCHANGED offers
       \/ \E u \in Waiting :
             /\ stored' = Append(Tail(stored), offers[u])
             /\ offers' = Without(u)

\* From a task that waits to one that receives: nothing is ever stored.
Meet(t, u) ==
    /\ stored = <<>>
    /\ Receives(t, offers[u])
    /\ offers' = Without(u)
    /\ UNCHANGED stored

\* Data that must go in replaces the oldest.
Force(d) ==
    /\ Full /\ stored # <<>>
    /\ stored' = Append(Tail(stored), d)
    /\ UNCHANGED <<offers, got>>

Clear ==
    /\ stored' = <<>>
    /\ offers' = <<>>
    /\ UNCHANGED got

Next ==
    \/ \E d \in Data : Put(d) \/ Force(d)
    \/ \E t \in Task : Take(t) \/ \E d \in Data : Offer(t, d) \/ Hand(t, d)
    \/ \E u \in Waiting : Withdraw(u) \/ \E t \in Task : Meet(t, u)
    \/ Clear

Spec == Init /\ [][Next]_vars
=============================================================================
