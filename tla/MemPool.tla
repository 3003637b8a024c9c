------------------------------ MODULE MemPool ------------------------------
(***************************************************************************)
(* A fixed-sized memory pool (kernel/mempfix.c).  rel_mpf looks at the     *)
(* block before it locks the CPU, so it takes two steps, between which     *)
(* interrupt handlers and other tasks run.                                 *)
(***************************************************************************)
EXTENDS KernelObject

CONSTANTS
    mpf,                       \* its wait queue, a member of Wobj
    blkcnt,                    \* MPFINIB.blkcnt, the number of blocks
    INDEX_NULL, INDEX_ALLOC    \* the two special values of MPFMB.next

Block == 0 .. blkcnt - 1

\* No task is terminated by others here: it would take its block along.
MemPoolAssumption ==
    /\ NoMutexAssumption
    /\ Wobj = {mpf}
    /\ blkcnt \in Nat \ {0}
    /\ INDEX_NULL # INDEX_ALLOC /\ {INDEX_NULL, INDEX_ALLOC} \cap Block = {}
    /\ Calls \cap {"ter_tsk", "ras_ter"} = {}

VARIABLES
    pool,    \* MPFCB.fblkcnt, unused, freelist, and next of every MPFMB
    giving,  \* the block that a task in rel_mpf is about to give back
    p_blk    \* the task that the last call gave a block, and the block

vars == <<kvars, pool, giving, p_blk>>

-----------------------------------------------------------------------------
InRelMpf == ctx = "TASK" /\ Self # NULL /\ giving[Self] # INDEX_NULL

\* The block get_mpf_block gives.
first_block == IF pool.freelist # INDEX_NULL THEN pool.freelist ELSE pool.unused

\* Mutant: a block of the free list is taken for a block of the unused part.
get_mpf_block_Unused ==
    /\ p_blk' = [t \in {Self} |-> first_block]
    /\ pool' = [pool EXCEPT
                  !.freelist = IF @ # INDEX_NULL THEN pool.next[@] ELSE @,
                  !.unused = @ + 1,
                  !.fblkcnt = @ - 1,
                  !.next[first_block] = INDEX_ALLOC]

get_mpf_block ==
    /\ p_blk' = [t \in {Self} |-> first_block]
    /\ pool' = [pool EXCEPT
                  !.freelist = IF @ # INDEX_NULL THEN pool.next[@] ELSE @,
                  !.unused = IF pool.freelist # INDEX_NULL THEN @ ELSE @ + 1,
                  !.fblkcnt = @ - 1,
                  !.next[first_block] = INDEX_ALLOC]

Get == pool.fblkcnt > 0 /\ get_mpf_block /\ Return(k) /\ UNCHANGED giving

Wait(limited) ==
    /\ pool.fblkcnt = 0
    /\ ReturnDispatching(wobj_make_wait_tmout(k, mpf, {"MPF"}, limited))
    /\ p_blk' = <<>> /\ UNCHANGED <<pool, giving>>

get_mpf  == ~InRelMpf /\ MayWait("get_mpf") /\ (Get \/ Wait(FALSE))
pget_mpf == ~InRelMpf /\ CHECK_TSKCTX_UNL("pget_mpf") /\ Get

\* With TMO_POL it is pget_mpf, with TMO_FEVR get_mpf.
tget_mpf == ~InRelMpf /\ MayWait("tget_mpf") /\ (Get \/ Wait(TRUE))

\* The part before lock_cpu.  The application gives a block back once: the
\* check could not tell two tasks apart that do so at the same time.
rel_mpf_check(b) ==
    /\ ~InRelMpf /\ CHECK_TSKCTX_UNL("rel_mpf")
    /\ b < pool.unused /\ pool.next[b] = INDEX_ALLOC
    /\ \A t \in Task : giving[t] # b
    /\ giving' = [giving EXCEPT ![Self] = b]
    /\ p_blk' = <<>>
    /\ UNCHANGED <<kvars, pool>>

\* The part with the CPU locked.
rel_mpf ==
    /\ InRelMpf /\ ~lock_flag
    /\ giving' = [giving EXCEPT ![Self] = INDEX_NULL]
    /\ \/ /\ k.wait_queue[mpf] # <<>>
          /\ ReturnDispatching(FirstServed(mpf))
          /\ p_blk' = [t \in {Head(k.wait_queue[mpf])} |-> giving[Self]]
          /\ UNCHANGED pool
       \/ /\ k.wait_queue[mpf] = <<>>
          /\ Return(k)
          /\ p_blk' = <<>>
          /\ pool' = [pool EXCEPT !.fblkcnt = @ + 1,
                                  !.next[giving[Self]] = pool.freelist,
                                  !.freelist = giving[Self]]

\* Mutant: the free list outlives the reinitialization.
ini_mpf_FreelistLeft ==
    /\ ~InRelMpf /\ CHECK_TSKCTX_UNL("ini_mpf")
    /\ \A t \in Task : giving[t] = INDEX_NULL
    /\ ReturnDispatching(init_wait_queue(k, mpf))
    /\ pool' = [pool EXCEPT !.fblkcnt = blkcnt, !.unused = 0]
    /\ p_blk' = <<>> /\ UNCHANGED giving

\* The application reinitializes the pool when nobody is giving back.
ini_mpf ==
    /\ ~InRelMpf /\ CHECK_TSKCTX_UNL("ini_mpf")
    /\ \A t \in Task : giving[t] = INDEX_NULL
    /\ ReturnDispatching(init_wait_queue(k, mpf))
    /\ pool' = [pool EXCEPT !.fblkcnt = blkcnt, !.unused = 0, !.freelist = INDEX_NULL]
    /\ p_blk' = <<>> /\ UNCHANGED giving

\* What it reports.
ref_mpf == [wtskid |-> wait_tskid(mpf), fblkcnt |-> pool.fblkcnt]

-----------------------------------------------------------------------------
\* initialize_mempfix
Init ==
    /\ KInit
    /\ pool = [fblkcnt |-> blkcnt, unused |-> 0, freelist |-> INDEX_NULL,
               next |-> [b \in Block |-> INDEX_NULL]]
    /\ giving = [t \in Task |-> INDEX_NULL]
    /\ p_blk = <<>>

\* The calls of TaskSystem; a task in rel_mpf can only be interrupted.
TaskStep ==
    /\ KNext
    /\ InRelMpf => ctx' = "INT"
    /\ p_blk' = <<>> /\ UNCHANGED <<pool, giving>>

Next ==
    \/ TaskStep
    \/ get_mpf \/ pget_mpf \/ tget_mpf
    \/ \E b \in Block : rel_mpf_check(b)
    \/ rel_mpf \/ ini_mpf

Spec == Init /\ [][Next]_vars

-----------------------------------------------------------------------------
\* The blocks of the list that starts at block b, found one by one.
List(next, b) ==
    LET walk[n \in 0 .. blkcnt + 1] ==
            IF n = 0 THEN <<>>
            ELSE LET s == walk[n - 1]
                     c == IF s = <<>> THEN b ELSE next[s[Len(s)]]
                 IN  IF c \in Block THEN Append(s, c) ELSE s
    IN  walk[blkcnt + 1]

FreeList == List(pool.next, pool.freelist)

\* The count that get_mpf decides by is the number of the blocks that are in
\* the list or were never used, the blocks marked as allocated are exactly
\* those in neither, a block about to be given back is still one of them, and
\* nobody waits while a block is free.
PoolOK ==
    /\ pool.unused <= blkcnt
    /\ IsInjective(FreeList)
    /\ ref_mpf.fblkcnt = Len(FreeList) + (blkcnt - pool.unused)
    /\ \A b \in 0 .. pool.unused - 1 :
          pool.next[b] = INDEX_ALLOC <=> ~Contains(FreeList, b)
    /\ \A t \in Task : giving[t] # INDEX_NULL => pool.next[giving[t]] = INDEX_ALLOC
    /\ ref_mpf.wtskid # NULL => ref_mpf.fblkcnt = 0

\* Every block has one holder: it is never given to a task while another
\* one, or the pool, still has it.
Holders == INSTANCE Blocks WITH
              free    <- ToSet(FreeList) \cup pool.unused .. blkcnt - 1,
              waiting <- {t \in Task : "MPF" \in k.tstat[t]},
              given   <- p_blk

ImplementsBlocks == Holders!Spec
=============================================================================
