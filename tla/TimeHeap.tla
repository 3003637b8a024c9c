------------------------------ MODULE TimeHeap ------------------------------
(***************************************************************************)
(* The heap of time events (kernel/time_event.c, the first half), as       *)
(* operators on a record tm with, among others, the fields                 *)
(*   tmevt_heap   tmevt_heap[1] ... p_last_tmevtn, the heap's nodes: each  *)
(*                the time event block whose node it is                    *)
(*   p_tmevtn     TMEVTB.p_tmevtn, the number of its node for every block  *)
(*                in the heap; that of other blocks is stale and never read*)
(*   evttim       TMEVTB.evttim, when the event occurs, modulo 2^32        *)
(*   boundary_evttim   the time that counts as the earliest of all         *)
(* TimeEvent gives tm its other fields.                                    *)
(***************************************************************************)
EXTENDS Integers, SequencesExt

CONSTANTS
    Event,        \* the time event blocks
    EVTTIM_MOD    \* 2^32, the number of values of EVTTIM

ASSUME EvttimAssumption == EVTTIM_MOD \in Nat \ {0}

Evttim == 0 .. EVTTIM_MOD - 1

EVTTIM_ADVANCE(tm, t) == (t - tm.boundary_evttim) % EVTTIM_MOD
EVTTIM_LT(tm, t1, t2) == EVTTIM_ADVANCE(tm, t1) < EVTTIM_ADVANCE(tm, t2)
\* Mutant: times are compared as numbers.
EVTTIM_LE_Plain(tm, t1, t2) == t1 <= t2

EVTTIM_LE(tm, t1, t2) == EVTTIM_ADVANCE(tm, t1) <= EVTTIM_ADVANCE(tm, t2)

PARENT(n) == n \div 2
LCHILD(n) == 2 * n

node_evttim(tm, n) == tm.evttim[tm.tmevt_heap[n]]
top_evttim(tm) == node_evttim(tm, 1)
Registered(tm) == ToSet(tm.tmevt_heap)

\* The event block e is at node n, and says so.
Place(tm, n, e) ==
    [tm EXCEPT !.tmevt_heap[n] = e,
               !.p_tmevtn = [x \in DOMAIN @ \cup {e} |-> IF x = e THEN n ELSE @[x]]]

\* The last node is no longer in use and e no longer has a node.
Shorter(tm, e) == [tm EXCEPT !.tmevt_heap = Front(@),
                             !.p_tmevtn = Restrict(@, DOMAIN @ \ {e})]

\* The nodes from n up to the top.
Branch[n \in Nat] == IF n = 0 THEN {} ELSE {n} \cup Branch[PARENT(n)]

\* The hole goes from node a to node b along the branch they are both on: the
\* event of each node on that way goes into the node the hole was at before.
Slide(tm, a, b) ==
    LET Way == {n \in Branch[IF a < b THEN b ELSE a] : n >= IF a < b THEN a ELSE b} \ {b}
        From(n) == IF b < a THEN PARENT(n) ELSE CHOOSE c \in Way \cup {b} : PARENT(c) = n
        Into(e) == {n \in Way : tm.tmevt_heap[From(n)] = e}
    IN  [tm EXCEPT
           !.tmevt_heap = [n \in DOMAIN @ |-> IF n \in Way THEN @[From(n)] ELSE @[n]],
           !.p_tmevtn = [e \in DOMAIN @ |-> IF Into(e) = {} THEN @[e] ELSE Max(Into(e))]]

\* Where an event that occurs at t belongs: the search goes from node n towards
\* the top and ends at the first node whose parent's event is not later.
tmevt_up(tm, n, t) ==
    Max({i \in Branch[n] : i = 1 \/ EVTTIM_LE(tm, node_evttim(tm, PARENT(i)), t)})

\* The same towards the leaves: always to the child whose event is earlier, and
\* to the first node that has no child with an earlier event than this one.
tmevt_down(tm, n, t) ==
    LET last == Len(tm.tmevt_heap)
        Child(i) == IF /\ LCHILD(i) + 1 <= last
                       /\ EVTTIM_LT(tm, node_evttim(tm, LCHILD(i) + 1),
                                        node_evttim(tm, LCHILD(i)))
                    THEN LCHILD(i) + 1
                    ELSE LCHILD(i)
        Searched == {i \in n .. last : /\ n \in Branch[i]
                                      /\ \A c \in Branch[i] : c > n => c = Child(PARENT(c))}
    IN  Min({i \in Searched : LCHILD(i) <= last
                                 => EVTTIM_LE(tm, t, node_evttim(tm, Child(i)))})

tmevtb_insert(tm, e) ==
    LET longer == [tm EXCEPT !.tmevt_heap = Append(@, e)]
        last == Len(longer.tmevt_heap)
        n == tmevt_up(longer, last, tm.evttim[e])
    IN  Place(Slide(longer, last, n), n, e)
\* Mutant: the last event, which comes from another branch, only goes down.
tmevtb_delete_Down(tm, e) ==
    LET a == tm.p_tmevtn[e]
        moved == Last(tm.tmevt_heap)
        shorter == Shorter(tm, e)
        b == tmevt_down(shorter, a, tm.evttim[moved])
    IN  IF a > Len(shorter.tmevt_heap)
        THEN shorter
        ELSE Place(Slide(shorter, a, b), b, moved)

\* The last event takes the place of the one deleted and is brought in order.
tmevtb_delete(tm, e) ==
    LET a == tm.p_tmevtn[e]
        moved == Last(tm.tmevt_heap)
        shorter == Shorter(tm, e)
        t == tm.evttim[moved]
        up == a > 1 /\ EVTTIM_LT(tm, t, node_evttim(tm, PARENT(a)))
        b == IF up THEN tmevt_up(shorter, a, t) ELSE tmevt_down(shorter, a, t)
    IN  IF a > Len(shorter.tmevt_heap)
        THEN shorter
        ELSE Place(Slide(shorter, a, b), b, moved)
\* Mutant: the last event is not put where the hole ends.
tmevtb_delete_top_Lost(tm) ==
    LET shorter == Shorter(tm, tm.tmevt_heap[1])
    IN  IF shorter.tmevt_heap = <<>>
        THEN shorter
        ELSE Slide(shorter, 1, tmevt_down(shorter, 1, tm.evttim[Last(tm.tmevt_heap)]))

tmevtb_delete_top(tm) ==
    LET moved == Last(tm.tmevt_heap)
        shorter == Shorter(tm, tm.tmevt_heap[1])
        b == tmevt_down(shorter, 1, tm.evttim[moved])
    IN  IF shorter.tmevt_heap = <<>>
        THEN shorter
        ELSE Place(Slide(shorter, 1, b), b, moved)

-----------------------------------------------------------------------------
(* What the heap promises. *)

\* No event is above an earlier one.  time_event.c:184-201, 225-250: the
\* searches for the place of an event, upward and downward, stop where
\* this would be so again.
HeapOrder(tm) ==
    \A n \in 2 .. Len(tm.tmevt_heap) :
       EVTTIM_LE(tm, node_evttim(tm, PARENT(n)), node_evttim(tm, n))

\* An event in the heap is where it says it is, so it is there once and
\* tmevtb_delete takes out the right one.  time_event.c:193, 243, 275, 314,
\* 332, 363: every move of an event must bring its p_tmevtn up to date.
BackPointers(tm) ==
    \A n \in 1 .. Len(tm.tmevt_heap) : tm.p_tmevtn[tm.tmevt_heap[n]] = n
=============================================================================
