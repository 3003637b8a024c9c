---------------------------- MODULE MCDataQueue ----------------------------
(***************************************************************************)
(* Data queues for TLC, in three scenarios of which the initial state      *)
(* chooses one.  "ring": a ring of two places that is filled, overwritten, *)
(* emptied and cleared.  "sync": no ring, and waits of all kinds that end  *)
(* in all kinds of ways, the senders' queue in priority order.  "pri": a   *)
(* priority data queue.  The variables of the latter two end in 2.  A      *)
(* kernel that is not chosen does not take a step.                         *)
(***************************************************************************)
EXTENDS DataQueue, TLC

CONSTANTS A, B, C, D1, D2

PriOf      == [t \in Task |-> IF t = A THEN 0 ELSE 1]
OrderThree == <<A, B, C>>

\* No mutex is configured, so the function pointers are never followed.
NoCeilpriCheck(kk, t, p) == TRUE
NoCeilmtxScan(kk, t) == FALSE
NoReleaseAll(kk, t) == kk

RingCalls == {"snd_dtq", "psnd_dtq", "fsnd_dtq", "rcv_dtq", "prcv_dtq", "ini_dtq",
              "ter_tsk"}
SyncCalls == {"tsnd_dtq", "psnd_dtq", "trcv_dtq", "ini_dtq", "rel_wai",
              "chg_pri"}
PriCalls  == {"snd_pdq", "psnd_pdq", "tsnd_pdq", "rcv_pdq", "prcv_pdq", "trcv_pdq",
              "ini_pdq", "rel_wai"}

\* Nothing depends on the values sent.
Symmetry == Permutations({D1, D2})

VARIABLES
    scenario,                   \* "ring", "sync" or "pri"
    k2, ctx2, lock2, iipm2, pendsv2, booted2,
    q2, winfo2, p_data2         \* dtq and winfo_data, or pdq and winfo

vars2 == <<k2, ctx2, lock2, iipm2, pendsv2, booted2, q2, winfo2, p_data2>>

Y == INSTANCE DataQueue WITH
        dtqcnt <- 0, TA_TPRI <- {swait_queue}, Calls <- SyncCalls,
        k <- k2, ctx <- ctx2, lock_flag <- lock2, saved_iipm <- iipm2,
        pendsv <- pendsv2, booted <- booted2, dtq <- q2,
        winfo_data <- winfo2, p_data <- p_data2

\* Two tasks: the third one is never started.
P == INSTANCE PriDataQueue WITH
        TA_ACT <- {A, B}, TA_TPRI <- {swait_queue}, Calls <- PriCalls,
        pdqcnt <- 3, DataPri <- {1, 2},
        k <- k2, ctx <- ctx2, lock_flag <- lock2, saved_iipm <- iipm2,
        pendsv <- pendsv2, booted <- booted2, pdq <- q2, winfo <- winfo2,
        p_data <- p_data2

ASSUME QueueAssumption == DataQueueAssumption /\ Y!DataQueueAssumption
                          /\ P!PriDataQueueAssumption

MCInit ==
    /\ Init
    /\ \/ scenario \in {"ring", "sync"} /\ Y!Init
       \/ scenario = "pri" /\ P!Init

MCNext ==
    /\ UNCHANGED scenario
    /\ \/ scenario = "ring" /\ Next /\ UNCHANGED vars2
       \/ scenario = "sync" /\ Y!Next /\ UNCHANGED vars
       \/ scenario = "pri" /\ P!Next /\ UNCHANGED vars

allvars == <<scenario, vars, vars2>>

MCSpec == MCInit /\ [][MCNext]_allvars

-----------------------------------------------------------------------------
\* A data queue without a ring, from task to task: DataOK of DataQueue,
\* dataqueue.c:227-301.
SyncDataOK == scenario = "sync" => Y!DataOK

\* ServedInTurn and ImplementsFifo of DataQueue, without a ring: every step is
\* one of Fifo, or changes nothing of it.  dataqueue.c:227-301, wait.c:80-197.
SyncImplementsFifo ==
    /\ scenario = "sync" => Y!Queue!Init
    /\ [][scenario = "sync" => Y!ServesInTurn /\ [Y!Queue!Next]_(Y!Queue!vars)]_allvars

\* PriDataQueue: every block is in one list, in order, and no task waits for
\* data or for room that is there, pridataq.c:162-330.
PridataOK == scenario = "pri" => P!PridataOK

\* PriDataQueue: data comes by priority, and in the order it was sent within
\* one priority, pridataq.c:162-330.
ImplementsPriFifo ==
    /\ scenario = "pri" => P!Queue!Init
    /\ [][scenario = "pri" => [P!Queue!Next]_(P!Queue!vars)]_allvars
=============================================================================
