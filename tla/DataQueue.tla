----------------------------- MODULE DataQueue -----------------------------
(***************************************************************************)
(* A data queue (kernel/dataqueue.c): a ring buffer, possibly of no        *)
(* capacity, with a queue of tasks that wait to send and one of tasks that *)
(* wait to receive.                                                        *)
(***************************************************************************)
EXTENDS KernelObject

CONSTANTS
    swait_queue, rwait_queue,  \* the two queues of tasks, members of Wobj
    dtqcnt,                    \* DTQINIB.dtqcnt, the capacity
    Data                       \* the values sent

DataQueueAssumption ==
    /\ NoMutexAssumption
    /\ Wobj = {swait_queue, rwait_queue} /\ swait_queue # rwait_queue
    /\ rwait_queue \notin TA_TPRI
    /\ dtqcnt \in Nat
    /\ NULL \notin Data

VARIABLES
    dtq,         \* the ring: DTQCB.count, head, tail, and p_dtqmb as mb
    winfo_data,  \* WINFO_SDTQ.data, on the stack of a task that waits to send
    p_data       \* where each task receives: what the last call put there

vars == <<kvars, dtq, winfo_data, p_data>>

Senders   == k.wait_queue[swait_queue]
Receivers == k.wait_queue[rwait_queue]

-----------------------------------------------------------------------------
(* The ring buffer. *)

next_index(i) == IF i + 1 >= dtqcnt THEN 0 ELSE i + 1

enqueue_data(q, d) ==
    [q EXCEPT !.mb[q.tail] = d, !.count = @ + 1, !.tail = next_index(@)]

\* Mutant: the oldest data stays the first to come out.
force_enqueue_data_HeadLeft(q, d) ==
    [q EXCEPT !.mb[q.tail] = d, !.tail = next_index(@),
              !.count = IF @ < dtqcnt THEN @ + 1 ELSE @]

force_enqueue_data(q, d) ==
    LET tail == next_index(q.tail)
        full == q.count >= dtqcnt
    IN  [q EXCEPT !.mb[q.tail] = d, !.tail = tail,
                  !.count = IF full THEN @ ELSE @ + 1,
                  !.head = IF full THEN tail ELSE @]

dequeue_data(q) == [q EXCEPT !.count = @ - 1, !.head = next_index(@)]

-----------------------------------------------------------------------------
(* Sending and receiving, as far as the calls have it in common. *)

\* What a task offered is gone with the stack frame of the call that waited.
Offers(kk, t, d) ==
    winfo_data' = [u \in Task |-> IF "SDTQ" \notin kk.tstat[u] THEN NULL
                                  ELSE IF u = t THEN d ELSE winfo_data[u]]

\* A call that goes on with kk, and with the dispatch it makes necessary.
Leave(kk) ==
    /\ ReturnDispatching(kk)
    /\ Offers(kk, NULL, NULL)

\* Data goes to the first of the tasks that wait to receive.
HandOver(d) ==
    /\ Receivers # <<>>
    /\ p_data' = [p_data EXCEPT ![Head(Receivers)] = d]
    /\ Leave(FirstServed(rwait_queue))
    /\ UNCHANGED dtq

\* The case that it returns true.
send_data(d) ==
    \/ HandOver(d)
    \/ /\ Receivers = <<>> /\ dtq.count < dtqcnt
       /\ dtq' = enqueue_data(dtq, d)
       /\ Leave(k)
       /\ UNCHANGED p_data

CanSend == Receivers # <<>> \/ dtq.count < dtqcnt

force_send_data(d) ==
    \/ HandOver(d)
    \/ /\ Receivers = <<>>
       /\ dtq' = force_enqueue_data(dtq, d)
       /\ Leave(k)
       /\ UNCHANGED p_data

\* Mutant: the room left in the ring is not given to a waiting sender.
receive_data_SendersLeft ==
    \/ /\ dtq.count > 0
       /\ p_data' = [p_data EXCEPT ![Self] = dtq.mb[dtq.head]]
       /\ dtq' = dequeue_data(dtq)
       /\ Leave(k)
    \/ /\ dtq.count = 0 /\ Senders # <<>>
       /\ p_data' = [p_data EXCEPT ![Self] = winfo_data[Head(Senders)]]
       /\ Leave(FirstServed(swait_queue))
       /\ UNCHANGED dtq

\* Mutant: the task that began to wait last is served.
receive_data_LastServed ==
    LET t == Last(Senders) IN
    /\ dtq.count = 0 /\ Senders # <<>>
    /\ p_data' = [p_data EXCEPT ![Self] = winfo_data[t]]
    /\ Leave(wait_complete([k EXCEPT !.wait_queue[swait_queue] = Front(@)], t))
    /\ UNCHANGED dtq

\* The case that it returns true.
receive_data ==
    \/ /\ dtq.count > 0
       /\ p_data' = [p_data EXCEPT ![Self] = dtq.mb[dtq.head]]
       /\ \/ /\ Senders = <<>>
             /\ dtq' = dequeue_data(dtq)
             /\ Leave(k)
          \/ /\ Senders # <<>>
             /\ dtq' = enqueue_data(dequeue_data(dtq), winfo_data[Head(Senders)])
             /\ Leave(FirstServed(swait_queue))
    \/ /\ dtq.count = 0 /\ Senders # <<>>
       /\ p_data' = [p_data EXCEPT ![Self] = winfo_data[Head(Senders)]]
       /\ Leave(FirstServed(swait_queue))
       /\ UNCHANGED dtq

CanReceive == dtq.count > 0 \/ Senders # <<>>

\* The caller waits to send d, or to receive.
WaitToSend(d, limited) ==
    LET kk == wobj_make_wait_tmout(k, swait_queue, {"SDTQ"}, limited) IN
    /\ ~CanSend
    /\ ReturnDispatching(kk)
    /\ Offers(kk, Self, d)
    /\ UNCHANGED <<dtq, p_data>>

WaitToReceive(limited) ==
    /\ ~CanReceive
    /\ Leave(wobj_make_wait_tmout(k, rwait_queue, {"RDTQ"}, limited))
    /\ UNCHANGED <<dtq, p_data>>

-----------------------------------------------------------------------------
(* The service calls.  With TMO_POL, tsnd_dtq and trcv_dtq are psnd_dtq    *)
(* and prcv_dtq called from a task; with TMO_FEVR, snd_dtq and rcv_dtq.    *)

snd_dtq(d) ==
    /\ MayWait("snd_dtq")
    /\ send_data(d) \/ WaitToSend(d, FALSE)

psnd_dtq(d) ==
    /\ CHECK_UNL("psnd_dtq")
    /\ send_data(d)

tsnd_dtq(d) ==
    /\ MayWait("tsnd_dtq")
    /\ send_data(d) \/ WaitToSend(d, TRUE)

fsnd_dtq(d) ==
    /\ CHECK_UNL("fsnd_dtq")
    /\ dtqcnt > 0
    /\ force_send_data(d)

rcv_dtq ==
    /\ MayWait("rcv_dtq")
    /\ receive_data \/ WaitToReceive(FALSE)

prcv_dtq ==
    /\ CHECK_TSKCTX_UNL("prcv_dtq")
    /\ receive_data

trcv_dtq ==
    /\ MayWait("trcv_dtq")
    /\ receive_data \/ WaitToReceive(TRUE)

ini_dtq ==
    /\ CHECK_TSKCTX_UNL("ini_dtq")
    /\ Leave(init_wait_queue(init_wait_queue(k, swait_queue), rwait_queue))
    /\ dtq' = [dtq EXCEPT !.count = 0, !.head = 0, !.tail = 0]
    /\ UNCHANGED p_data

\* What it reports.
ref_dtq == [stskid |-> wait_tskid(swait_queue), rtskid |-> wait_tskid(rwait_queue),
            sdtqcnt |-> dtq.count]

-----------------------------------------------------------------------------
Init ==
    /\ KInit
    /\ dtq = [mb |-> [i \in 0 .. dtqcnt - 1 |-> NULL],
              count |-> 0, head |-> 0, tail |-> 0]
    /\ winfo_data = [t \in Task |-> NULL]
    /\ p_data = [t \in Task |-> NULL]

\* The calls of TaskSystem, which end waits in their own ways.
TaskStep ==
    /\ KNext
    /\ Offers(k', NULL, NULL)
    /\ UNCHANGED <<dtq, p_data>>

Next ==
    \/ TaskStep
    \/ \E d \in Data : snd_dtq(d) \/ psnd_dtq(d) \/ tsnd_dtq(d) \/ fsnd_dtq(d)
    \/ rcv_dtq \/ prcv_dtq \/ trcv_dtq
    \/ ini_dtq

Spec == Init /\ [][Next]_vars

-----------------------------------------------------------------------------
(* Properties. *)

\* Every variable of the queue has a value of its C type.
QueueTypeOK ==
    /\ dtq \in [mb : [0 .. dtqcnt - 1 -> Data \cup {NULL}], count : Nat,
                head : Nat, tail : Nat]
    /\ winfo_data \in [Task -> Data \cup {NULL}]
    /\ p_data \in [Task -> Data \cup {NULL}]

\* Head, tail and count are kept separately, also through overwriting and
\* reinitialization: they must always delimit the same part of the ring.
RingOK ==
    /\ QueueTypeOK
    /\ dtq.count <= dtqcnt
    /\ dtqcnt = 0 => dtq.count = 0
    /\ dtqcnt > 0 => /\ dtq.head < dtqcnt
                     /\ dtq.tail = (dtq.head + dtq.count) % dtqcnt

\* No task waits for what is there, whichever way the waits of other tasks
\* ended: ref_dtq, as everyone sees it, reports a task waiting to receive only
\* with no data and no sender, and one waiting to send only of a full queue.
NoIdleData ==
    /\ ref_dtq.rtskid # NULL => ref_dtq.sdtqcnt = 0 /\ ref_dtq.stskid = NULL
    /\ ref_dtq.stskid # NULL => ref_dtq.sdtqcnt = dtqcnt

\* Neither data nor room for it lies idle or gets lost in the ring, and who
\* was served is in the ready queue, to be dispatched if it should run.
DataOK == RingOK /\ NoIdleData /\ SchedulingOK

\* A task that waits is served only when it is the first in its queue, and
\* one at a time.
ServesInTurn ==
    p_data' # p_data =>
        /\ ToSet(Senders') # ToSet(Senders) =>
              Senders # <<>> /\ Senders' = Tail(Senders)
        /\ ToSet(Receivers') # ToSet(Receivers) =>
              Receivers # <<>> /\ Receivers' = Tail(Receivers)

ServedInTurn == [][ServesInTurn]_vars

\* What the tasks see of the ring is a bounded FIFO: nothing is lost, sent
\* twice or reordered, and a task whose wait ends without an answer has sent
\* nothing.
Contents ==
    [i \in 1 .. dtq.count |-> dtq.mb[(dtq.head + i - 1) % dtqcnt]]
WaitingToSend == {t \in Task : "SDTQ" \in k.tstat[t]}

Queue == INSTANCE Fifo WITH
            Capacity <- dtqcnt,
            stored   <- Contents,
            offers   <- [t \in WaitingToSend |-> winfo_data[t]],
            got      <- p_data

ImplementsFifo == Queue!Spec
=============================================================================
