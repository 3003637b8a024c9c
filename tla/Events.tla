------------------------------- MODULE Events -------------------------------
(***************************************************************************)
(* What an event flag promises, with neither a queue of tasks nor a loop   *)
(* over it: whoever waits for events that have come together is served in  *)
(* the same step, with the same pattern; but where serving clears the      *)
(* pattern, one task gets the events and nobody else sees them.            *)
(***************************************************************************)
CONSTANTS Task, Bits, iflgptn, Wait

VARIABLES
    clears, multi,  \* TA_CLR, TA_WMUL: how this flag is configured
    flag,           \* the events that have come
    waits,          \* for each waiting task: what it waits for
    served          \* the tasks served by the last step, with what they saw

vars == <<clears, multi, flag, waits, served>>

Come(w, p) == IF w.wfmode = "TWF_ORW" THEN w.waiptn \cap p # {}
                                      ELSE w.waiptn \subseteq p
Waiting    == DOMAIN waits
Without(T) == [t \in Waiting \ T |-> waits[t]]
Left(p)    == IF clears THEN {} ELSE p

Init ==
    /\ clears \in BOOLEAN /\ multi \in BOOLEAN
    /\ flag = iflgptn /\ waits = <<>> /\ served = <<>>

Serve(T, p) ==
    /\ served' = [t \in T |-> p]
    /\ waits' = Without(T)
    /\ flag' = IF T = {} THEN p ELSE Left(p)

Set(S) ==
    LET p   == flag \cup S
        hit == {t \in Waiting : Come(waits[t], p)}
    IN  \/ (hit = {} \/ ~clears) /\ Serve(hit, p)
        \/ clears /\ \E t \in hit : Serve({t}, p)

Clear(S) == flag' = flag \cap S /\ served' = <<>> /\ UNCHANGED waits

Get(t, w) ==
    /\ Come(w, flag)
    /\ served' = [u \in {t} |-> flag]
    /\ flag' = Left(flag)
    /\ UNCHANGED waits

Await(t, w) ==
    /\ ~Come(w, flag)
    /\ multi \/ waits = <<>>
    /\ waits' = [u \in Waiting \cup {t} |-> IF u = t THEN w ELSE waits[u]]
    /\ served' = <<>>
    /\ UNCHANGED flag

GiveUp(T) == waits' = Without(T) /\ served' = <<>> /\ UNCHANGED flag

Reset == flag' = iflgptn /\ waits' = <<>> /\ served' = <<>>

Next ==
    /\ \/ \E S \in SUBSET Bits : Set(S) \/ Clear(S)
       \/ \E t \in Task : GiveUp({t} \cap Waiting) \/ \E w \in Wait : Get(t, w) \/ Await(t, w)
       \/ Reset
    /\ UNCHANGED <<clears, multi>>

Spec == Init /\ [][Next]_vars
=============================================================================
