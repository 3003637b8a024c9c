------------------------------ MODULE PriFifo ------------------------------
(***************************************************************************)
(* What a priority data queue promises its tasks, without the list of      *)
(* blocks that stores the data: data of a higher priority comes out before *)
(* any other, data of one priority in the order it went in; what a waiting *)
(* task offers goes in as soon as there is room, or never.  PriDataQueue   *)
(* implements it.                                                          *)
(***************************************************************************)
EXTENDS FiniteSetsExt, Sequences

CONSTANTS
    Task, Data,
    Priority,   \* the priorities of data; a smaller number goes first
    Capacity    \* how many data the queue stores

VARIABLES
    stored,  \* for each priority the data that went in, oldest first
    offers,  \* for each task waiting to send: its data and its priority
    got      \* the task that was given something by the last step, and what

vars == <<stored, offers, got>>

Message == [data : Data, datapri : Priority]
Waiting == DOMAIN offers
Without(T) == [u \in Waiting \ T |-> offers[u]]

Full    == MapThenSumSet(LAMBDA p : Len(stored[p]), Priority) = Capacity
Present == {p \in Priority : stored[p] # <<>>}
With(s, m) == [s EXCEPT ![m.datapri] = Append(@, m.data)]

Init ==
    /\ stored = [p \in Priority |-> <<>>]
    /\ offers = <<>>
    /\ got = <<>>

Put(m) ==
    /\ ~Full
    /\ stored' = With(stored, m)
    /\ got' = <<>> /\ UNCHANGED offers

\* Only an empty queue hands over what is sent.
Hand(t, m) ==
    /\ Present = {} /\ Waiting = {}
    /\ got' = [u \in {t} |-> m]
    /\ UNCHANGED <<stored, offers>>

Offer(t, m) ==
    /\ Full /\ t \notin Waiting
    /\ offers' = [u \in Waiting \cup {t} |-> IF u = t THEN m ELSE offers[u]]
    /\ got' = <<>> /\ UNCHANGED stored

Withdraw(T) == offers' = Without(T) /\ got' = <<>> /\ UNCHANGED stored

\* The first data comes out, and an offer takes the room it leaves.
Take(t) ==
    /\ Present # {}
    /\ LET p    == Min(Present)
           rest == [stored EXCEPT ![p] = Tail(@)]
       IN  /\ got' = [u \in {t} |-> [data |-> Head(stored[p]), datapri |-> p]]
           /\ \/ Waiting = {} /\ stored' = rest /\ UNCHANGED offers
              \/ \E u \in Waiting : stored' = With(rest, offers[u])
                                     /\ offers' = Without({u})

\* From a task that waits to one that receives: nothing is ever stored.
Meet(t, u) ==
    /\ Present = {}
    /\ got' = [v \in {t} |-> offers[u]]
    /\ offers' = Without({u})
    /\ UNCHANGED stored

Clear == stored' = [p \in Priority |-> <<>>] /\ offers' = <<>> /\ got' = <<>>

Next ==
    \/ \E m \in Message : Put(m) \/ \E t \in Task : Hand(t, m) \/ Offer(t, m)
    \/ \E t \in Task : Take(t) \/ Withdraw({t} \cap Waiting)
    \/ \E u \in Waiting, t \in Task : Meet(t, u)
    \/ Clear

Spec == Init /\ [][Next]_vars
=============================================================================
