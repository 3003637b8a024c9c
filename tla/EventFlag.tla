----------------------------- MODULE EventFlag -----------------------------
(***************************************************************************)
(* An event flag (kernel/eventflag.c), set by tasks and interrupt handlers *)
(* and awaited by tasks.  A bit pattern is the set of its bits.            *)
(***************************************************************************)
EXTENDS KernelObject

CONSTANTS
    flg,      \* its wait queue, a member of Wobj
    Bits,     \* the bits used
    iflgptn   \* FLGINIB.iflgptn, the pattern at first

EventFlagAssumption ==
    NoMutexAssumption /\ Wobj = {flg} /\ iflgptn \subseteq Bits

VARIABLES
    flgatr,    \* FLGINIB.flgatr, of TA_CLR and TA_WMUL
    flgptn,    \* FLGCB.flgptn
    winfo,     \* waiptn and wfmode of WINFO_FLG, on a waiting task's stack
    p_flgptn   \* the patterns the last call gave to tasks, by task

vars == <<kvars, flgatr, flgptn, winfo, p_flgptn>>

\* What a task can wait for.
WaitFor == [waiptn : (SUBSET Bits) \ {{}}, wfmode : {"TWF_ORW", "TWF_ANDW"}]

-----------------------------------------------------------------------------
(* Checking and setting. *)

\* check_flg_cond, the condition and what is left of a pattern that met it.
Cond(ptn, w) == IF w.wfmode = "TWF_ORW" THEN ptn \cap w.waiptn # {}
                                        ELSE w.waiptn \subseteq ptn
AfterCond(ptn) == IF "TA_CLR" \in flgatr THEN {} ELSE ptn

\* A call that ends with the data kk.  The block of a wait is gone when the
\* wait is over.
Leave(kk) ==
    /\ ReturnDispatching(kk)
    /\ winfo' = [t \in Task |-> IF "FLG" \in kk.tstat[t] THEN winfo[t] ELSE NULL]
    /\ UNCHANGED flgatr

\* Mutant: the walk goes on with the cleared pattern of the first task.
Check_NoBreak(st, t) ==
    IF ~Cond(st.ptn, winfo[t]) THEN st
    ELSE [kk   |-> wait_complete([st.kk EXCEPT !.wait_queue[flg] = RemoveFirst(@, t)], t),
          ptn  |-> st.ptn,
          got  |-> [u \in DOMAIN st.got \cup {t} |-> IF u = t THEN st.ptn ELSE st.got[u]],
          done |-> FALSE]

\* The walk through the queue: st is the state after the tasks before t.
\* A task released when the pattern has been cleared ends the walk.
Check(st, t) ==
    IF st.done \/ ~Cond(st.ptn, winfo[t]) THEN st
    ELSE [kk   |-> wait_complete([st.kk EXCEPT !.wait_queue[flg] = RemoveFirst(@, t)], t),
          ptn  |-> AfterCond(st.ptn),
          got  |-> [u \in DOMAIN st.got \cup {t} |-> IF u = t THEN st.ptn ELSE st.got[u]],
          done |-> "TA_CLR" \in flgatr]

\* Mutant: only the first task of the queue is looked at.
set_flg_First(setptn) ==
    LET q  == k.wait_queue[flg]
        st == [kk |-> k, ptn |-> flgptn \cup setptn, got |-> <<>>, done |-> FALSE]
        r  == IF q = <<>> THEN st ELSE Check(st, Head(q))
    IN  /\ CHECK_UNL("set_flg")
        /\ Leave(r.kk)
        /\ flgptn' = r.ptn
        /\ p_flgptn' = r.got

set_flg(setptn) ==
    LET r == FoldLeft(Check, [kk |-> k, ptn |-> flgptn \cup setptn,
                              got |-> <<>>, done |-> FALSE], k.wait_queue[flg])
    IN  /\ CHECK_UNL("set_flg")
        /\ Leave(r.kk)
        /\ flgptn' = r.ptn
        /\ p_flgptn' = r.got

clr_flg(clrptn) ==
    /\ CHECK_TSKCTX_UNL("clr_flg")
    /\ flgptn' = flgptn \cap clrptn
    /\ p_flgptn' = <<>>
    /\ Leave(k)

-----------------------------------------------------------------------------
(* Waiting.  Without TA_WMUL a second task may not wait (E_ILUSE). *)

MayAwait == "TA_WMUL" \in flgatr \/ k.wait_queue[flg] = <<>>

Satisfied(w) ==
    /\ Cond(flgptn, w)
    /\ flgptn' = AfterCond(flgptn)
    /\ p_flgptn' = [t \in {Self} |-> flgptn]
    /\ Leave(k)

WaitForFlag(w, limited) ==
    LET kk == wobj_make_wait_tmout(k, flg, {"FLG"}, limited) IN
    /\ ~Cond(flgptn, w)
    /\ ReturnDispatching(kk)
    /\ winfo' = [winfo EXCEPT ![Self] = w]
    /\ p_flgptn' = <<>>
    /\ UNCHANGED <<flgatr, flgptn>>

wai_flg(w) ==
    MayWait("wai_flg") /\ MayAwait /\ (Satisfied(w) \/ WaitForFlag(w, FALSE))

pol_flg(w) == CHECK_TSKCTX_UNL("pol_flg") /\ MayAwait /\ Satisfied(w)

\* With TMO_POL it is pol_flg, with TMO_FEVR wai_flg.
twai_flg(w) ==
    MayWait("twai_flg") /\ MayAwait /\ (Satisfied(w) \/ WaitForFlag(w, TRUE))

ini_flg ==
    /\ CHECK_TSKCTX_UNL("ini_flg")
    /\ Leave(init_wait_queue(k, flg))
    /\ flgptn' = iflgptn
    /\ p_flgptn' = <<>>

\* What it reports.
ref_flg == [wtskid |-> wait_tskid(flg), flgptn |-> flgptn]

-----------------------------------------------------------------------------
\* initialize_eventflag
Init ==
    /\ KInit
    /\ flgatr \in SUBSET {"TA_CLR", "TA_WMUL"}
    /\ flgptn = iflgptn
    /\ winfo = [t \in Task |-> NULL]
    /\ p_flgptn = <<>>

\* The calls of TaskSystem, which end waits in their own ways.
TaskStep ==
    /\ KNext
    /\ winfo' = [t \in Task |-> IF "FLG" \in k'.tstat[t] THEN winfo[t] ELSE NULL]
    /\ p_flgptn' = <<>>
    /\ UNCHANGED <<flgatr, flgptn>>

Next ==
    \/ TaskStep
    \/ \E ptn \in SUBSET Bits : set_flg(ptn) \/ clr_flg(ptn)
    \/ \E w \in WaitFor : wai_flg(w) \/ pol_flg(w) \/ twai_flg(w)
    \/ ini_flg

Spec == Init /\ [][Next]_vars

-----------------------------------------------------------------------------
\* No task waits for events that have come: neither for those that came while
\* others were served before it, nor for those left behind by a task whose
\* wait ended otherwise.  Without TA_WMUL one task waits at most.  Tasks that
\* one call takes out of any places of the queue are all ready afterwards.
NoMissedEvent ==
    /\ SchedulingOK
    /\ \A t \in Task : ref_tsk(t).wobjid = flg => ~Cond(ref_flg.flgptn, winfo[t])
    /\ "TA_WMUL" \notin flgatr =>
          \A t \in Task : ref_tsk(t).wobjid = flg => ref_flg.wtskid = t

\* Every task is told of events that satisfied what it waited for, and where
\* they are cleared for one task no other one is told of the same.
Flag == INSTANCE Events WITH
            Wait   <- WaitFor,
            clears <- "TA_CLR" \in flgatr,
            multi  <- "TA_WMUL" \in flgatr,
            flag   <- flgptn,
            waits  <- [t \in {u \in Task : "FLG" \in k.tstat[u]} |-> winfo[t]],
            served <- p_flgptn

ImplementsEvents == Flag!Spec
=============================================================================
