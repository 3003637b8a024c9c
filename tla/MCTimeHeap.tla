----------------------------- MODULE MCTimeHeap -----------------------------
(***************************************************************************)
(* The heap of time events by itself, for TLC: any insertions and          *)
(* deletions of events whose times are fixed in the initial state, so that *)
(* every shape of a heap of this size, with any ties, is met.              *)
(***************************************************************************)
EXTENDS TimeHeap, FiniteSets

CONSTANT
    KEY_BOUND   \* bound: event times are boundary_evttim + 0 .. KEY_BOUND

KeyAssumption == Event = 1 .. Cardinality(Event) /\ KEY_BOUND < EVTTIM_MOD

VARIABLE tm

\* The boundary is such that later times are smaller numbers.
BOUNDARY == EVTTIM_MOD - 2

Init ==
    \E key \in [Event -> 0 .. KEY_BOUND] :
       /\ \A e \in Event \ {1} : key[e - 1] <= key[e]
       /\ tm = [tmevt_heap |-> <<>>,
                p_tmevtn |-> <<>>,
                evttim |-> [e \in Event |-> (BOUNDARY + key[e]) % EVTTIM_MOD],
                boundary_evttim |-> BOUNDARY]

Insert(e) == e \notin Registered(tm) /\ tm' = tmevtb_insert(tm, e)
Delete(e) == e \in Registered(tm) /\ tm' = tmevtb_delete(tm, e)
DeleteTop == Registered(tm) # {} /\ tm' = tmevtb_delete_top(tm)

Next == DeleteTop \/ \E e \in Event : Insert(e) \/ Delete(e)

Spec == Init /\ [][Next]_tm

-----------------------------------------------------------------------------
\* The parent's event is never later, time_event.c:174-251 and 307.
Ordered == HeapOrder(tm)

\* Deleting an event by its block always finds it, time_event.c:284.
Located == BackPointers(tm)

\* Both must hold for the next deletion to find its event and keep the order.
HeapOK == Ordered /\ Located

\* An operation puts in or takes out one event and loses or doubles no other,
\* and what it takes from the top is an earliest: time_event.c:331, 342, 362.
OneEventStep ==
    /\ Cardinality(Registered(tm')) = Len(tm'.tmevt_heap)
    /\ \A e \in Event : Insert(e) => Registered(tm') = Registered(tm) \cup {e}
    /\ \A e \in Event : Delete(e) => Registered(tm') = Registered(tm) \ {e}
    /\ DeleteTop
          => \E e \in Registered(tm) :
                /\ Registered(tm') = Registered(tm) \ {e}
                /\ \A f \in Registered(tm) :
                      EVTTIM_LE(tm, tm.evttim[e], tm.evttim[f])
=============================================================================
