------------------------------ MODULE MCMutex ------------------------------
(***************************************************************************)
(* Mutex for TLC, in two scenarios of which the initial state chooses one. *)
(* "lock": M1 has a ceiling and M2 none, and mutexes are locked, unlocked, *)
(* initialized and left by tasks that end.  "wait": both have a ceiling,   *)
(* base priorities change and waits are released or time out.              *)
(***************************************************************************)
EXTENDS Naturals, TLC

CONSTANTS A, B, C, M1, M2, NULL

VARIABLES k, ctx, lock_flag, saved_iipm, pendsv, booted,   \* as in TaskSystem
          scenario

vars == <<k, ctx, lock_flag, saved_iipm, pendsv, booted, scenario>>

Task         == {A, B, C}
TNUM_TPRI    == 3
ipriority    == [t \in Task |-> IF t = A THEN 1 ELSE 2]
TA_ACT       == Task
TA_NOACTQUE  == Task
torder_table == <<A, B, C>>
Mtx          == {M1, M2}
Wobj         == Mtx
TA_TPRI      == Mtx

LockCalls == {"loc_mtx", "unl_mtx", "ini_mtx", "ter_tsk", "ext_tsk",
              "act_tsk", "chg_pri"}
WaitCalls == {"tloc_mtx", "ploc_mtx", "unl_mtx", "chg_pri", "rel_wai",
              "dis_dsp", "ena_dsp"}

L == INSTANCE Mutex WITH
        TA_CEILING <- {M1}, ceilpri <- M1 :> 1, Calls <- LockCalls

W == INSTANCE Mutex WITH
        TA_CEILING <- {M1, M2}, ceilpri <- M1 :> 0 @@ M2 :> 1, Calls <- WaitCalls

ASSUME MutexAssumption == L!CeilingAssumption /\ W!CeilingAssumption

MCInit ==
    \/ scenario = "lock" /\ L!Init
    \/ scenario = "wait" /\ W!Init

MCNext ==
    /\ UNCHANGED scenario
    /\ \/ scenario = "lock" /\ L!Next
       \/ scenario = "wait" /\ W!Next

MCSpec == MCInit /\ [][MCNext]_vars

-----------------------------------------------------------------------------
\* Owners and lists, waiting tasks and owners, and priorities and ceilings
\* agree: MutexOK of Mutex, after every call of mutex.c.
MutexOK ==
    /\ scenario = "lock" => L!MutexOK
    /\ scenario = "wait" => W!MutexOK

\* Ceilings are respected and the scheduler follows every change of priority:
\* CeilingsOK of Mutex, mutex.c:151-248 and 344-355.
CeilingsOK ==
    /\ scenario = "lock" => L!CeilingsOK
    /\ scenario = "wait" => W!CeilingsOK

\* The mutex goes to the first of its queue, and to nobody while it is held:
\* HandedOver of Mutex, mutex.c:276-321.
HandedOver ==
    [][/\ scenario = "lock" => L!HandsOver
       /\ scenario = "wait" => W!HandsOver]_vars
=============================================================================
