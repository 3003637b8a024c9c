--------------------------- MODULE MCKernelObjects ---------------------------
(***************************************************************************)
(* An event flag and a memory pool for TLC, each in a kernel of its own,   *)
(* that of the pool with variables that end in 2.  The initial state       *)
(* chooses one; the other does not take a step.                            *)
(***************************************************************************)
EXTENDS EventFlag

CONSTANTS A, B, C, INDEX_NULL, INDEX_ALLOC

PriOf      == [t \in Task |-> IF t = A THEN 0 ELSE 1]
OrderThree == <<A, B, C>>

\* No mutex is configured, so the function pointers are never followed.
NoCeilpriCheck(kk, t, p) == TRUE
NoCeilmtxScan(kk, t) == FALSE
NoReleaseAll(kk, t) == kk

VARIABLES
    object,                     \* "flg" or "mpf"
    k2, ctx2, lock2, iipm2, pendsv2, booted2,
    pool, giving, p_blk

poolvars == <<k2, ctx2, lock2, iipm2, pendsv2, booted2, pool, giving, p_blk>>

FlgCalls == {"set_flg", "clr_flg", "wai_flg", "pol_flg", "twai_flg", "ini_flg",
             "rel_wai"}
MpfCalls == {"get_mpf", "pget_mpf", "tget_mpf", "rel_mpf", "ini_mpf",
             "rel_wai", "chg_pri"}

Mpf == INSTANCE MemPool WITH
          Calls <- MpfCalls, mpf <- flg, blkcnt <- 2,
          k <- k2, ctx <- ctx2, lock_flag <- lock2, saved_iipm <- iipm2,
          pendsv <- pendsv2, booted <- booted2

ASSUME ObjectAssumption == EventFlagAssumption /\ Mpf!MemPoolAssumption

-----------------------------------------------------------------------------
MCInit ==
    /\ Init /\ Mpf!Init
    /\ \/ object = "flg"
       \/ object = "mpf" /\ flgatr = {}

MCNext ==
    /\ UNCHANGED object
    /\ \/ object = "flg" /\ Next /\ UNCHANGED poolvars
       \/ object = "mpf" /\ Mpf!Next /\ UNCHANGED vars

MCSpec == MCInit /\ [][MCNext]_<<object, vars, poolvars>>

-----------------------------------------------------------------------------
\* MemPool: count, list and marks agree on which blocks are free, and no task
\* waits while one is, mempfix.c:145-380.
PoolOK == Mpf!PoolOK

\* MemPool: every block has one holder, mempfix.c:145-380.
ImplementsBlocks == Mpf!ImplementsBlocks
=============================================================================
