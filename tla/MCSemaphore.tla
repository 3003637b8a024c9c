---------------------------- MODULE MCSemaphore ----------------------------
(***************************************************************************)
(* Semaphore for TLC, with the calls that change the order of tasks.       *)
(***************************************************************************)
EXTENDS Semaphore

CONSTANTS A, B, C

PriThree   == [t \in Task |-> IF t = C THEN 0 ELSE 1]
OrderThree == <<A, B, C>>

\* No mutex is configured, so the function pointers are never followed.
NoCeilpriCheck(kk, t, p) == TRUE
NoCeilmtxScan(kk, t) == FALSE
NoReleaseAll(kk, t) == kk

SemCalls == {"sig_sem", "wai_sem", "pol_sem", "twai_sem", "ini_sem",
             "act_tsk", "chg_pri", "sus_tsk", "rsm_tsk", "rel_wai", "ext_tsk",
             "ter_tsk", "rot_rdq", "dis_dsp", "ena_dsp"}

ASSUME SemAssumption == SemaphoreAssumption
=============================================================================
