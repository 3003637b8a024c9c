---------------------------- MODULE MCTaskSystem ----------------------------
(* Constants with which TLC checks TaskSystem.  No mutex is configured, so *)
(* the function pointers are never followed.                               *)
EXTENDS TaskSystem

CONSTANTS A, B

PriTwo == [t \in Task |-> IF t = A THEN 0 ELSE 1]

OrderTwo == <<A, B>>

NoCeilpriCheck(kk, t, p) == TRUE
NoCeilmtxScan(kk, t) == FALSE
NoReleaseAll(kk, t) == kk

AllCalls == {"act_tsk", "can_act", "chg_pri", "slp_tsk", "tslp_tsk",
             "wup_tsk", "can_wup", "rel_wai", "sus_tsk", "rsm_tsk",
             "dly_tsk", "ext_tsk", "ras_ter", "dis_ter", "ena_ter",
             "ter_tsk", "rot_rdq", "loc_cpu", "dis_dsp", "ena_dsp",
             "chg_ipm"}
=============================================================================
