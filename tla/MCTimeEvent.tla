---------------------------- MODULE MCTimeEvent ----------------------------
(* Constants with which TLC checks TimeEvent over a free-running timer. *)
EXTENDS TimeEvent

CONSTANTS A, C, W

\* The cyclic's period, and the time of its first call.
Period1 == [e \in Cyclic |-> 1]

\* Two states that differ only in the time of an event that is not in the heap
\* are one: every operation that registers the event sets its time before
\* anything reads it.
Seen == <<[tm EXCEPT !.evttim = [e \in Registered(tm) |-> @[e]]], sig, callflag>>
=============================================================================
