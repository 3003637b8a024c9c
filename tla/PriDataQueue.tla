---------------------------- MODULE PriDataQueue ----------------------------
(***************************************************************************)
(* A priority data queue (kernel/pridataq.c): the data are stored in an    *)
(* array of blocks, linked in a list that is sorted by priority; a block   *)
(* is taken from the list of the free ones, or, when that is empty, from   *)
(* the part of the array that was never used.                              *)
(***************************************************************************)
EXTENDS KernelObject

CONSTANTS
    swait_queue, rwait_queue,  \* the two queues of tasks, members of Wobj
    pdqcnt,                    \* PDQINIB.pdqcnt, the capacity
    Data,                      \* the values sent
    DataPri                    \* their priorities, TMIN_DPRI .. maxdpri

PriDataQueueAssumption ==
    /\ NoMutexAssumption
    /\ Wobj = {swait_queue, rwait_queue} /\ swait_queue # rwait_queue
    /\ rwait_queue \notin TA_TPRI
    /\ pdqcnt \in Nat
    /\ NULL \notin Data \cup 0 .. pdqcnt

VARIABLES
    pdq,      \* PDQCB.count, p_head, unused, p_freelist, and p_pdqmb as mb
    winfo,    \* data and datapri of WINFO_SPDQ, on a waiting sender's stack
    p_data    \* the task to which the last call gave something, and what

vars == <<kvars, pdq, winfo, p_data>>

Block     == 0 .. pdqcnt - 1
Message   == [data : Data, datapri : DataPri]
Senders   == k.wait_queue[swait_queue]
Receivers == k.wait_queue[rwait_queue]

-----------------------------------------------------------------------------
(* The blocks. *)

\* The blocks of the list that starts at block b.
List(mb, b) ==
    LET from[n \in 0 .. pdqcnt + 1, c \in Block \cup {NULL}] ==
            IF n = 0 \/ c = NULL THEN <<>> ELSE <<c>> \o from[n - 1, mb[c].p_next]
    IN  from[pdqcnt + 1, b]

\* Mutant: the block goes before those of its own priority (>= for >).
enqueue_pridata_Before(q, m) ==
    LET b    == IF q.p_freelist # NULL THEN q.p_freelist ELSE q.unused
        list == List(q.mb, q.p_head)
        pos  == SelectInSeq(list, LAMBDA c : q.mb[c].datapri >= m.datapri)
        next == IF pos = 0 THEN NULL ELSE list[pos]
        n    == IF pos = 0 THEN Len(list) ELSE pos - 1
        q1   == [q EXCEPT
                   !.p_freelist = IF @ # NULL THEN q.mb[b].p_next ELSE @,
                   !.unused = IF q.p_freelist # NULL THEN @ ELSE @ + 1,
                   !.mb[b] = [p_next |-> next, data |-> m.data, datapri |-> m.datapri],
                   !.count = @ + 1]
    IN  IF n = 0 THEN [q1 EXCEPT !.p_head = b]
                 ELSE [q1 EXCEPT !.mb[list[n]].p_next = b]

enqueue_pridata(q, m) ==
    LET free == q.p_freelist # NULL
        b    == IF free THEN q.p_freelist ELSE q.unused
        list == List(q.mb, q.p_head)
        pos  == SelectInSeq(list, LAMBDA c : q.mb[c].datapri > m.datapri)
        next == IF pos = 0 THEN NULL ELSE list[pos]
        n    == IF pos = 0 THEN Len(list) ELSE pos - 1
        q1   == [q EXCEPT !.p_freelist = IF free THEN q.mb[b].p_next ELSE @,
                          !.unused = IF free THEN @ ELSE @ + 1,
                          !.mb[b] = [p_next |-> next, data |-> m.data, datapri |-> m.datapri],
                          !.count = @ + 1]
    IN  IF n = 0 THEN [q1 EXCEPT !.p_head = b]
                 ELSE [q1 EXCEPT !.mb[list[n]].p_next = b]

first_pridata(q) ==
    [data |-> q.mb[q.p_head].data, datapri |-> q.mb[q.p_head].datapri]

\* What a block holds besides its link is not read once it is free.
Unlinked(next) == [p_next |-> next, data |-> NULL, datapri |-> NULL]

dequeue_pridata(q) ==
    [q EXCEPT !.p_head = q.mb[q.p_head].p_next,
              !.count = @ - 1,
              !.mb[q.p_head] = Unlinked(q.p_freelist),
              !.p_freelist = q.p_head]

-----------------------------------------------------------------------------
(* Sending and receiving, as far as the calls have it in common. *)

\* A call that ends with the data kk; what a task offered is gone with the
\* stack frame of the call that waited.
Offers(kk, t, m) ==
    winfo' = [u \in Task |-> IF "SPDQ" \notin kk.tstat[u] THEN NULL
                             ELSE IF u = t THEN m ELSE winfo[u]]

Leave(kk) == ReturnDispatching(kk) /\ Offers(kk, NULL, NULL)

\* The case that it returns true.
send_pridata(m) ==
    \/ /\ Receivers # <<>>
       /\ p_data' = [t \in {Head(Receivers)} |-> m]
       /\ Leave(FirstServed(rwait_queue))
       /\ UNCHANGED pdq
    \/ /\ Receivers = <<>> /\ pdq.count < pdqcnt
       /\ pdq' = enqueue_pridata(pdq, m)
       /\ p_data' = <<>>
       /\ Leave(k)

CanSend == Receivers # <<>> \/ pdq.count < pdqcnt

\* The case that it returns true.
receive_pridata ==
    \/ /\ pdq.count > 0
       /\ p_data' = [t \in {Self} |-> first_pridata(pdq)]
       /\ \/ /\ Senders = <<>>
             /\ pdq' = dequeue_pridata(pdq)
             /\ Leave(k)
          \/ /\ Senders # <<>>
             /\ pdq' = enqueue_pridata(dequeue_pridata(pdq), winfo[Head(Senders)])
             /\ Leave(FirstServed(swait_queue))
    \/ /\ pdq.count = 0 /\ Senders # <<>>
       /\ p_data' = [t \in {Self} |-> winfo[Head(Senders)]]
       /\ Leave(FirstServed(swait_queue))
       /\ UNCHANGED pdq

CanReceive == pdq.count > 0 \/ Senders # <<>>

WaitToSend(m, limited) ==
    LET kk == wobj_make_wait_tmout(k, swait_queue, {"SPDQ"}, limited) IN
    /\ ~CanSend
    /\ ReturnDispatching(kk)
    /\ Offers(kk, Self, m)
    /\ p_data' = <<>> /\ UNCHANGED pdq

WaitToReceive(limited) ==
    /\ ~CanReceive
    /\ Leave(wobj_make_wait_tmout(k, rwait_queue, {"RPDQ"}, limited))
    /\ p_data' = <<>> /\ UNCHANGED pdq

-----------------------------------------------------------------------------
(* The service calls.  With TMO_POL, tsnd_pdq and trcv_pdq are psnd_pdq    *)
(* and prcv_pdq called from a task; with TMO_FEVR, snd_pdq and rcv_pdq.    *)

snd_pdq(m) == MayWait("snd_pdq") /\ (send_pridata(m) \/ WaitToSend(m, FALSE))

psnd_pdq(m) == CHECK_UNL("psnd_pdq") /\ send_pridata(m)

tsnd_pdq(m) == MayWait("tsnd_pdq") /\ (send_pridata(m) \/ WaitToSend(m, TRUE))

rcv_pdq == MayWait("rcv_pdq") /\ (receive_pridata \/ WaitToReceive(FALSE))

prcv_pdq == CHECK_TSKCTX_UNL("prcv_pdq") /\ receive_pridata

trcv_pdq == MayWait("trcv_pdq") /\ (receive_pridata \/ WaitToReceive(TRUE))

\* Mutant: the free list is kept, although all blocks are unused again.
ini_pdq_FreelistLeft ==
    /\ CHECK_TSKCTX_UNL("ini_pdq")
    /\ Leave(init_wait_queue(init_wait_queue(k, swait_queue), rwait_queue))
    /\ pdq' = [pdq EXCEPT !.count = 0, !.p_head = NULL, !.unused = 0]
    /\ p_data' = <<>>

ini_pdq ==
    /\ CHECK_TSKCTX_UNL("ini_pdq")
    /\ Leave(init_wait_queue(init_wait_queue(k, swait_queue), rwait_queue))
    /\ pdq' = [mb |-> [b \in Block |-> Unlinked(NULL)],
               count |-> 0, p_head |-> NULL, unused |-> 0, p_freelist |-> NULL]
    /\ p_data' = <<>>

\* What it reports.
ref_pdq == [stskid |-> wait_tskid(swait_queue), rtskid |-> wait_tskid(rwait_queue),
            spdqcnt |-> pdq.count]

-----------------------------------------------------------------------------
\* initialize_pridataq
Init ==
    /\ KInit
    /\ pdq = [mb |-> [b \in Block |-> Unlinked(NULL)],
              count |-> 0, p_head |-> NULL, unused |-> 0, p_freelist |-> NULL]
    /\ winfo = [t \in Task |-> NULL]
    /\ p_data = <<>>

\* The calls of TaskSystem, which end waits in their own ways.
TaskStep ==
    /\ KNext
    /\ Offers(k', NULL, NULL)
    /\ p_data' = <<>> /\ UNCHANGED pdq

Next ==
    \/ TaskStep
    \/ \E m \in Message : snd_pdq(m) \/ psnd_pdq(m) \/ tsnd_pdq(m)
    \/ rcv_pdq \/ prcv_pdq \/ trcv_pdq
    \/ ini_pdq

Spec == Init /\ [][Next]_vars

-----------------------------------------------------------------------------
Stored == List(pdq.mb, pdq.p_head)
Freed  == List(pdq.mb, pdq.p_freelist)

\* No block is lost or in two lists: the stored data and the free list share
\* out the blocks used so far, the count and the order of the list are right,
\* and no task waits for data or for room that is there or was given to it.
PridataOK ==
    /\ SchedulingOK
    /\ IsInjective(Stored \o Freed)
    /\ ToSet(Stored \o Freed) = 0 .. pdq.unused - 1
    /\ pdq.unused <= pdqcnt
    /\ Len(Stored) = ref_pdq.spdqcnt
    /\ \A i, j \in 1 .. Len(Stored) :
          i < j => pdq.mb[Stored[i]].datapri <= pdq.mb[Stored[j]].datapri
    /\ ref_pdq.rtskid # NULL => ref_pdq.spdqcnt = 0 /\ ref_pdq.stskid = NULL
    /\ ref_pdq.stskid # NULL => ref_pdq.spdqcnt = pdqcnt

\* The tasks see a queue ordered by priority, first in first out within one.
Contents(p) ==
    LET blocks == SelectSeq(Stored, LAMBDA b : pdq.mb[b].datapri = p)
    IN  [i \in 1 .. Len(blocks) |-> pdq.mb[blocks[i]].data]

Queue == INSTANCE PriFifo WITH
            Capacity <- pdqcnt,
            Priority <- DataPri,
            stored   <- [p \in DataPri |-> Contents(p)],
            offers   <- [t \in {u \in Task : "SPDQ" \in k.tstat[u]} |-> winfo[t]],
            got      <- p_data

ImplementsPriFifo == Queue!Spec
=============================================================================
