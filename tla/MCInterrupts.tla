---------------------------- MODULE MCInterrupts ----------------------------
(***************************************************************************)
(* Interrupts for TLC, on one of two architectures that the initial state  *)
(* chooses: ARMv7-M with an interrupt more important than PendSV, masks    *)
(* and CPU exceptions, and ARMv6-M, with variables that end in 2, with     *)
(* calls that enable and disable interrupts.  The processor that is not    *)
(* chosen does not take a step.  The constants of ARMv6-M leave out what   *)
(* does not work on it: chg_ipm, for which there is a specification of its *)
(* own, CPU exceptions, and interrupts that PendSV does not keep out.      *)
(***************************************************************************)
EXTENDS Interrupts, TLC

CONSTANTS A, B, I1, I2

VARIABLES architecture, ctx2, hw2, tsk2, disabled2

vars2 == <<ctx2, hw2, tsk2, disabled2>>

\* ARMv7-M: I2 is more important than PendSV.
Intpri      == I1 :> -1 @@ I2 :> -2
MinIntpri   == -3
MasksOfCalls == {0, -1, -2}

\* The tasks do the same things.
Symmetry == Permutations({A, B})

N6 == INSTANCE Interrupts WITH
         TARGET_ARCH_THUMB <- 3, intpri <- I1 :> -1 @@ I2 :> -1,
         Calls <- {"act_tsk", "slp_tsk", "ext_tsk", "dis_int", "ena_int", "clr_int"},
         CpuExceptions <- FALSE,
         ctx <- ctx2, hw <- hw2, tsk <- tsk2, disabled <- disabled2

\* ARMv6-M with chg_ipm.
C6 == INSTANCE Interrupts WITH
         TARGET_ARCH_THUMB <- 3, intpri <- I1 :> -1 @@ I2 :> -1,
         Calls <- {"chg_ipm", "act_tsk"}, CpuExceptions <- FALSE,
         ctx <- ctx2, hw <- hw2, tsk <- tsk2, disabled <- disabled2

ASSUME ArchitectureAssumption ==
    InterruptsAssumption /\ N6!InterruptsAssumption /\ C6!InterruptsAssumption

MCInit ==
    /\ architecture \in {"ARMv7-M", "ARMv6-M"}
    /\ Init /\ N6!Init

MCNext ==
    /\ UNCHANGED architecture
    /\ \/ architecture = "ARMv7-M" /\ Next /\ UNCHANGED vars2
       \/ architecture = "ARMv6-M" /\ N6!Next /\ UNCHANGED vars

MCSpec == MCInit /\ [][MCNext]_<<architecture, vars, vars2>>

ChgIpmSpec ==
    /\ architecture = "ARMv6-M" /\ Init /\ C6!Init
    /\ [][C6!Next /\ UNCHANGED <<architecture, vars>>]_<<architecture, vars, vars2>>

-----------------------------------------------------------------------------
\* StandardModelOK of Interrupts with the enable bits of the interrupt
\* controller in the place of BASEPRI, core_kernel_impl_v6m.h and
\* core_support_v6m.S.
StandardModelV6 == N6!StandardModelOK

\* LockMasks of Interrupts on ARMv6-M with chg_ipm: handlers that the kernel
\* manages start with the CPU unlocked, core_kernel_impl_v6m.h:108-175.
LockMasksV6 == [][C6!StartsUnlocked]_vars2
=============================================================================
