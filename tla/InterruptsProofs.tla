-------------------------- MODULE InterruptsProofs --------------------------
(***************************************************************************)
(* The interrupt model of the kernel, on every processor that has BASEPRI  *)
(* and for any numbers of tasks and interrupts and any priorities: the     *)
(* invariant StandardModelOK.                                              *)
(*                                                                         *)
(* It is not inductive: which interrupts are accepted depends on BASEPRI,  *)
(* on what lock_cpu has read before and on what the interrupted contexts   *)
(* will restore.  IInv says for every context which points of its code it  *)
(* may be at, and what the mask, lock_flag and saved_iipm are there.       *)
(***************************************************************************)
EXTENDS Interrupts, SequenceTheorems, FiniteSetTheorems, TLAPS

-----------------------------------------------------------------------------
(* Sets of numbers. *)

\* A set of natural numbers that is not empty has a smallest member.
LEMMA SmallestNat ==
  ASSUME NEW T \in SUBSET Nat, T # {}
  PROVE  Min(T) \in T /\ \A y \in T : Min(T) <= y
<1> DEFINE R == {ss \in Nat \X Nat : ss[1] < ss[2]}
<1>1. IsWellFoundedOn(R, Nat)
  BY NatLessThanWellFounded DEF OpToRel
<1>2. PICK x \in T : \A y \in T : <<y, x>> \notin R
  <2> HIDE DEF R
  <2> QED BY <1>1, WFMin
<1>3. \A y \in T : x <= y
  <2> SUFFICES ASSUME NEW y \in T, y < x PROVE FALSE
    OBVIOUS
  <2>1. <<y, x>> \in R
    OBVIOUS
  <2> QED BY <1>2, <2>1
<1> QED BY <1>3 DEF Min

\* The greatest of the numbers up to n of which n is one.
LEMMA GreatestOf ==
  ASSUME NEW n \in Nat, NEW s \in SUBSET (1 .. n), n \in s
  PROVE  Max(s) = n
<1>1. \A y \in s : n >= y
  OBVIOUS
<1>2. \A x \in s : (\A y \in s : x >= y) => x = n
  OBVIOUS
<1>3. \E x \in s : \A y \in s : x >= y
  BY <1>1
<1> DEFINE m == CHOOSE x \in s : \A y \in s : x >= y
<1>4. m \in s /\ \A y \in s : m >= y
  <2> HIDE DEF m
  <2> QED BY <1>3 DEF m
<1> QED BY <1>2, <1>4 DEF Max

-----------------------------------------------------------------------------
(* Points of the code: what a context has still to execute.                *)

Begins(c, o, a) == c # <<>> /\ Head(c) = <<o, a>>

\* BASEPRI for a priority mask.
MaskOf(ipm) == IF ipm = TIPM_ENAALL THEN 0 ELSE INT_NVIC_PRI(ipm)

\* The ends of unlock_cpu, unlock_cpu_dsp and core_int_exit.
Restores(c)   == Begins(c, "restore_iipm", 0) /\ Tail(c) = <<>>
Unlocks(c)    == Begins(c, "lock_flag", FALSE) /\ Restores(Tail(c))
EnablesAll(c) == Begins(c, "basepri", 0) /\ Tail(c) = <<>>
UnlocksAll(c) == Begins(c, "lock_flag", FALSE) /\ EnablesAll(Tail(c))
Returns(c)    == Begins(c, "return", 0)
Leaves(c)     == Begins(c, "pop_basepri", 0) /\ Returns(Tail(c))
Exits(c)      == Begins(c, "lock_flag", FALSE) /\ Leaves(Tail(c))

\* From an operation of the kernel to the end of the call.
Dispatches(c)    == Begins(c, "dispatch", 0) /\ Unlocks(Tail(c))
DispatchesAll(c) == Begins(c, "dispatch", 0) /\ UnlocksAll(Tail(c))
Requests(c)      == Begins(c, "request", 0) /\ Unlocks(Tail(c))
Ends(c)          == Begins(c, "exit", 0)
Terminates(c)    == Begins(c, "terminate", 0) /\ Ends(Tail(c))
Permits(c)       == Begins(c, "set_dspflg", 0) /\ (Terminates(Tail(c)) \/ Dispatches(Tail(c)))
Forbids(c, ipm)  == Begins(c, "clr_dspflg", ipm) /\ Unlocks(Tail(c))
Raises(c, ipm)   == Begins(c, "basepri_max", MaskOf(ipm)) /\ Forbids(Tail(c), ipm)

Masks == Ipms \ {TIPM_ENAALL}

\* What the calls do with the CPU locked, from the beginning.
Body(f, c) ==
    \/ c = <<>> /\ f.lock
    \/ /\ c # <<>> /\ Head(c) \in IntOps \X IntNo
       /\ IF f.lock THEN Tail(c) = <<>> ELSE Unlocks(Tail(c))
    \/ /\ Begins(c, "ready", 0) /\ ~f.lock
       /\ IF f.who = "thread" THEN Dispatches(Tail(c)) ELSE Requests(Tail(c))
    \/ /\ f.who = "thread"
       /\ \/ f.ipm = TIPM_ENAALL /\ ~f.lock /\ Begins(c, "wait", 0) /\ DispatchesAll(Tail(c))
          \/ f.ipm = TIPM_ENAALL /\ Terminates(c)
          \/ /\ Begins(c, "saved_iipm", 0) /\ Permits(Tail(c))
             /\ f.lock => Terminates(Tail(Tail(c)))
          \/ \E ipm \in Masks : /\ Begins(c, "saved_iipm", MaskOf(ipm)) /\ ~f.lock
                                /\ Raises(Tail(c), ipm)

\* The steps of lock_cpu and lock_cpu_dsp.
Flags(f, c)   == Begins(c, "lock_flag", TRUE) /\ Body(f, Tail(c))
Saves(f, c)   == Begins(c, "save_iipm", 0) /\ Flags(f, Tail(c))
Locks(f, c)   == Begins(c, "basepri_max", IIPM_LOCK) /\ Saves(f, Tail(c))
Reads(f, c)   == Begins(c, "get_basepri", 0) /\ Locks(f, Tail(c))
SavesAll(f, c) == Begins(c, "saved_iipm", 0) /\ Flags(f, Tail(c))
LocksAll(f, c) == Begins(c, "basepri", IIPM_LOCK) /\ SavesAll(f, Tail(c))

\* Points at which context f may be with the CPU unlocked, the mask of the
\* thread being m: nothing is masked beyond m.
Unlocked(f, m) ==
    \/ f.code = <<>> /\ ~f.lock /\ f.who \notin {"exc", "PendSV"}
    \/ f.who # "PendSV" /\ Reads(f, f.code)
    \/ f.who # "PendSV" /\ Locks(f, f.code) /\ f.iipm = m
    \/ f.who = "thread" /\ LocksAll(f, f.code) /\ m = 0
    \/ f.who \in IntNo /\ Begins(f.code, "push_basepri", 0) /\ Tail(f.code) = <<>> /\ ~f.lock
    \/ f.who \in IntNo /\ ~f.lock /\ (Exits(f.code) \/ Leaves(f.code) \/ Returns(f.code))
    \/ /\ f.who = "PendSV" /\ m = 0
       /\ Begins(f.code, "basepri", IIPM_LOCK) /\ Begins(Tail(f.code), "switch", 0)

\* Points at which the interrupts are masked and lock_flag is not set, z
\* telling whether the right task runs, and r how it goes on.
MaskRaised(f, m, z, r) ==
    \/ f.who # "PendSV" /\ (f.who = "thread" => z)
       /\ \/ Saves(f, f.code) /\ f.iipm = m
          \/ Flags(f, f.code)
          \/ ~f.lock /\ Restores(f.code)
    \/ /\ f.who = "thread" /\ m = 0 /\ z
       /\ \/ SavesAll(f, f.code)
          \/ ~f.lock /\ (UnlocksAll(f.code) \/ EnablesAll(f.code))
    \/ f.who \in IntNo /\ ~f.lock /\ Leaves(f.code)
    \/ /\ f.who = "PendSV" /\ m = 0
       /\ \/ Begins(f.code, "switch", 0)
          \/ /\ z /\ r = "thread" /\ Begins(f.code, "lock_flag", TRUE)
             /\ Begins(Tail(f.code), "return_thread", 0)
          \/ z /\ r = "none" /\ Begins(f.code, "return_thread", 0)
          \/ z /\ r = "exc" /\ Begins(f.code, "return_exc", 0)

\* Points in the locked state, with saved_iipm s.
Locked(f, m, s, z, r) ==
    \/ /\ s = m /\ f.who # "PendSV" /\ (f.who = "thread" => z)
       /\ Body(f, f.code) \/ (~f.lock /\ Unlocks(f.code))
    \/ f.who \in IntNo /\ s = m /\ ~f.lock /\ Exits(f.code)
    \/ f.who \in IntNo \cup {"exc"} /\ s = m /\ ~f.lock /\ Requests(f.code)
    \/ /\ f.who = "thread" /\ s = m
       /\ \/ ~f.lock /\ Dispatches(f.code)
          \/ ~f.lock /\ m = 0 /\ DispatchesAll(f.code)
          \/ m = 0 /\ (Terminates(f.code) \/ Ends(f.code))
          \/ m = 0 /\ z /\ r = "exc" /\ Begins(f.code, "svc", 0)
          \/ ~f.lock /\ m = 0 /\ z /\ UnlocksAll(f.code)
    \/ /\ f.who = "thread" /\ z
       /\ \/ s = 0 /\ Permits(f.code) /\ (f.lock => Terminates(Tail(f.code)))
          \/ \E ipm \in Masks : /\ s = MaskOf(ipm) /\ ~f.lock
                                /\ Raises(f.code, ipm) \/ Forbids(f.code, ipm)
    \/ f.who = "PendSV" /\ m = 0 /\ s = 0 /\ z /\ r = "thread" /\ Begins(f.code, "return_thread", 0)

-----------------------------------------------------------------------------
(* The invariant. *)

\* Where context f is, with BASEPRI b and lock_flag l.
PointOf(f, b, l, m, s, z, r) ==
    \/ Unlocked(f, m) /\ b = m /\ s = m /\ ~l
    \/ MaskRaised(f, m, z, r) /\ b \in 1 .. IIPM_LOCK /\ s = m /\ ~l
    \/ Locked(f, m, s, z, r) /\ b \in 1 .. IIPM_LOCK /\ l
    \/ f.who = "exc" /\ f.code = <<>> /\ ~f.lock /\ b = f.entry /\ l = f.flag

Top     == Len(ctx)
Mask    == MaskOf(ctx[1].ipm)
Settled == tsk.runtsk = tsk.schedtsk
Kind    == IF tsk.runtsk = NULL THEN "none"
           ELSE IF tsk.saved[tsk.runtsk].exc THEN "exc" ELSE "thread"

Point(k, b, l) == PointOf(ctx[k], b, l, Mask, hw.saved_iipm, Settled, Kind)

StackOK ==
    /\ ctx # <<>>
    /\ \A k \in 1 .. Top :
          /\ (ctx[k].who = "thread") = (k = 1)
          /\ ctx[k].who = "PendSV" => k = 2
          /\ ctx[k].who = "exc" => k = Top /\ ~ctx[k].lock
          /\ ctx[k].who \in IntNo =>
                Begins(ctx[k].code, "push_basepri", 0) \/ ctx[k].entry = Mask

PointsOK ==
    /\ Point(Top, hw.basepri, hw.lock_flag)
    /\ Running.who = "exc" =>
          /\ Point(Top - 1, Running.entry, Running.flag)
          /\ Running.code # <<>> => Top = 2 /\ Running.entry = 0
    /\ \A k \in 1 .. Top :
          k < (IF Running.who = "exc" THEN Top - 1 ELSE Top) => Unlocked(ctx[k], Mask)

MaskOK ==
    /\ hw.ena = IntNo \ disabled
    /\ tsk.dspflg => ctx[1].ipm = TIPM_ENAALL
    /\ ctx[1].ipm # TIPM_ENAALL => Settled

\* The contexts of the tasks that do not run.
Resumable(saved) ==
    \A t \in Task : LET f == saved[t].f IN
        /\ f.who = "thread" /\ f.ipm = TIPM_ENAALL
        /\ IF saved[t].exc THEN Unlocked(f, 0)
           ELSE ~f.lock /\ (Unlocks(f.code) \/ UnlocksAll(f.code))

SavedOK == Resumable(tsk.saved)

RequestedOK ==
    Unlocked(ctx[1], Mask) =>
        \/ Settled
        \/ hw.pendsv
        \/ Top > 1 /\ ctx[2].who = "PendSV"
        \/ \E k \in 1 .. Top : ctx[k].code # <<>> /\ Head(ctx[k].code)[1] = "request"

\* The instructions of a processor with BASEPRI, with their operands.
Numeric == {"get_basepri", "basepri_max", "basepri", "save_iipm", "restore_iipm", "push_basepri",
            "pop_basepri", "saved_iipm", "ready", "wait", "terminate", "request", "set_dspflg",
            "clr_dspflg"}
               \cup Jumps

Instruction == ({"lock_flag"} \X BOOLEAN) \cup (IntOps \X IntNo) \cup (Numeric \X Int)

Frame == [who : IntNo \cup {"thread", "PendSV", "exc"}, code : Seq(Instruction),
          iipm : 0 .. 255, entry : 0 .. 255, flag : BOOLEAN, lock : BOOLEAN,
          ipm : Ipms \cup {TIPM_ENAALL}]

Cpu == [lock_flag : BOOLEAN, basepri : 0 .. 255, saved_iipm : 0 .. 255, masks : {<<>>},
        current : {0}, ena : SUBSET IntNo, pend : SUBSET IntNo, pendsv : BOOLEAN]

TypeOK ==
    /\ ctx \in Seq(Frame)
    /\ hw \in Cpu
    /\ tsk \in [runtsk : Task \cup {NULL}, schedtsk : Task \cup {NULL}, dspflg : BOOLEAN,
                saved : [Task -> [exc : BOOLEAN, f : Frame]]]
    /\ disabled \subseteq IntNo

IInv ==
    /\ TypeOK /\ StackOK /\ PointsOK /\ MaskOK /\ SavedOK /\ RequestedOK

-----------------------------------------------------------------------------
(* Levels of the NVIC. *)

\* On a processor with BASEPRI, the kernel manages every handler.
Managed == InterruptsAssumption /\ ~V6 /\ KernelManaged = IntNo

\* The levels of the NVIC are in the order of the priorities, in eight bits.
LEMMA Powers ==
  ASSUME TBITW_IPRI \in 1 .. 8
  PROVE  \E P \in 2 .. 256, Q \in 1 .. 128 :
            /\ P = 2^TBITW_IPRI /\ Q = 2^(8 - TBITW_IPRI) /\ P * Q = 256
            /\ \A x \in Int : /\ (P + x) * Q \in Int
                              /\ x \in 1 - P .. -1 => (P + x) * Q \in 1 .. 255
                              /\ x \in 0 - P .. -1 => (P + x) * Q \in 0 .. 255
                              /\ \A y \in Int : (x < y) = ((P + x) * Q < (P + y) * Q)
<1>1. CASE TBITW_IPRI = 1
  <2>1. 2^1 = 2 /\ 2^(8 - 1) = 128
    OBVIOUS
  <2> QED BY <1>1, <2>1
<1>2. CASE TBITW_IPRI = 2
  <2>1. 2^2 = 4 /\ 2^(8 - 2) = 64
    OBVIOUS
  <2> QED BY <1>2, <2>1
<1>3. CASE TBITW_IPRI = 3
  <2>1. 2^3 = 8 /\ 2^(8 - 3) = 32
    OBVIOUS
  <2> QED BY <1>3, <2>1
<1>4. CASE TBITW_IPRI = 4
  <2>1. 2^4 = 16 /\ 2^(8 - 4) = 16
    OBVIOUS
  <2> QED BY <1>4, <2>1
<1>5. CASE TBITW_IPRI = 5
  <2>1. 2^5 = 32 /\ 2^(8 - 5) = 8
    OBVIOUS
  <2> QED BY <1>5, <2>1
<1>6. CASE TBITW_IPRI = 6
  <2>1. 2^6 = 64 /\ 2^(8 - 6) = 4
    OBVIOUS
  <2> QED BY <1>6, <2>1
<1>7. CASE TBITW_IPRI = 7
  <2>1. 2^7 = 128 /\ 2^(8 - 7) = 2
    OBVIOUS
  <2> QED BY <1>7, <2>1
<1>8. CASE TBITW_IPRI = 8
  <2>1. 2^8 = 256 /\ 2^(8 - 8) = 1
    OBVIOUS
  <2> QED BY <1>8, <2>1
<1>9. TBITW_IPRI \in {1, 2, 3, 4, 5, 6, 7, 8}
  OBVIOUS
<1> QED BY ONLY <1>1, <1>2, <1>3, <1>4, <1>5, <1>6, <1>7, <1>8, <1>9

\* The lock keeps every handler out, and the levels of the masks of chg_ipm
\* keep out the handlers that the masks do.
LEMMA Levels ==
  ASSUME Managed
  PROVE  /\ IIPM_LOCK \in 1 .. 255 /\ IIPM_ENAALL = 0
         /\ INT_NVIC_PRI(-1) \in IIPM_LOCK .. 255
         /\ \A ipm \in Ipms \cup {TIPM_ENAALL} :
               /\ MaskOf(ipm) \in 0 .. 255 /\ MaskOf(ipm) <= INT_NVIC_PRI(-1)
               /\ (MaskOf(ipm) = 0) = (ipm = TIPM_ENAALL)
               /\ ipm # TIPM_ENAALL => INT_IPM(ipm) = MaskOf(ipm)
         /\ \A i \in IntNo :
               /\ INT_NVIC_PRI(intpri[i]) \in IIPM_LOCK .. INT_NVIC_PRI(-1)
               /\ \A ipm \in Ipms \ {TIPM_ENAALL} :
                     (INT_NVIC_PRI(intpri[i]) < MaskOf(ipm)) = (intpri[i] < ipm)
<1>1. PICK P \in 2 .. 256, Q \in 1 .. 128 :
            /\ P = 2^TBITW_IPRI /\ Q = 2^(8 - TBITW_IPRI) /\ P * Q = 256
            /\ \A x \in Int : /\ (P + x) * Q \in Int
                              /\ x \in 1 - P .. -1 => (P + x) * Q \in 1 .. 255
                              /\ x \in 0 - P .. -1 => (P + x) * Q \in 0 .. 255
                              /\ \A y \in Int : (x < y) = ((P + x) * Q < (P + y) * Q)
  BY Powers DEF Managed, InterruptsAssumption
<1>2. \A x : INT_NVIC_PRI(x) = (P + x) * Q
  BY <1>1 DEF INT_NVIC_PRI
<1>3. /\ TMIN_INTPRI \in 1 - P .. -1 /\ intpri \in [IntNo -> 0 - P .. -1]
      /\ Ipms \subseteq 1 - P .. 0
  BY <1>1 DEF Managed, InterruptsAssumption, TIPM_ENAALL
<1>4. \A i \in IntNo : intpri[i] \in TMIN_INTPRI .. -1
  <2>1. \A i \in IntNo : intpri[i] >= TMIN_INTPRI
    BY DEF Managed, KernelManaged
  <2> QED BY <1>3, <2>1
<1>5. \A x \in Int : INT_NVIC_PRI(x) \in Int /\ (x \in 1 - P .. -1 => INT_NVIC_PRI(x) \in 1 .. 255)
  BY <1>1, <1>2
<1>6. \A x, y \in Int : (x < y) = (INT_NVIC_PRI(x) < INT_NVIC_PRI(y))
  BY <1>1, <1>2
<1> HIDE DEF INT_NVIC_PRI
<1>7. IIPM_LOCK = INT_NVIC_PRI(TMIN_INTPRI) /\ IIPM_ENAALL = 0 /\ ~V6
  BY DEF IIPM_LOCK, INT_IPM, IIPM_ENAALL, Managed
<1>8. IIPM_LOCK \in 1 .. 255 /\ INT_NVIC_PRI(-1) \in IIPM_LOCK .. 255
  <2>1. TMIN_INTPRI \in Int /\ TMIN_INTPRI <= -1 /\ -1 \in 1 - P .. -1
    BY <1>1, <1>3
  <2>2. INT_NVIC_PRI(TMIN_INTPRI) <= INT_NVIC_PRI(-1)
    BY <2>1, <1>5, <1>6
  <2> QED BY <2>1, <2>2, <1>3, <1>5, <1>7
<1>9. ASSUME NEW ipm \in Ipms \cup {TIPM_ENAALL}
      PROVE  /\ MaskOf(ipm) \in 0 .. 255 /\ MaskOf(ipm) <= INT_NVIC_PRI(-1)
             /\ (MaskOf(ipm) = 0) = (ipm = TIPM_ENAALL)
             /\ ipm # TIPM_ENAALL => INT_IPM(ipm) = MaskOf(ipm)
  <2>1. CASE ipm = TIPM_ENAALL
    BY <2>1, <1>8 DEF MaskOf
  <2>2. CASE ipm # TIPM_ENAALL
    <3>1. ipm \in 1 - P .. -1 /\ ipm \in Int /\ ipm <= -1
      BY <2>2, <1>1, <1>3 DEF TIPM_ENAALL
    <3>2. INT_NVIC_PRI(ipm) \in 1 .. 255 /\ INT_NVIC_PRI(ipm) <= INT_NVIC_PRI(-1)
      BY <3>1, <1>5, <1>6, <1>8
    <3> QED BY <2>2, <3>2, <1>7 DEF MaskOf, INT_IPM
  <2> QED BY <2>1, <2>2
<1>10. ASSUME NEW i \in IntNo
       PROVE  /\ INT_NVIC_PRI(intpri[i]) \in IIPM_LOCK .. INT_NVIC_PRI(-1)
              /\ \A ipm \in Ipms \ {TIPM_ENAALL} :
                    (INT_NVIC_PRI(intpri[i]) < MaskOf(ipm)) = (intpri[i] < ipm)
  <2>1. intpri[i] \in Int /\ TMIN_INTPRI <= intpri[i] /\ intpri[i] <= -1 /\ TMIN_INTPRI \in Int
    BY <1>3, <1>4
  <2>2. INT_NVIC_PRI(TMIN_INTPRI) <= INT_NVIC_PRI(intpri[i])
    BY <2>1, <1>5, <1>6
  <2>3. INT_NVIC_PRI(intpri[i]) <= INT_NVIC_PRI(-1)
    BY <2>1, <1>5, <1>6
  <2>4. \A ipm \in Ipms \ {TIPM_ENAALL} : ipm \in Int /\ MaskOf(ipm) = INT_NVIC_PRI(ipm)
    BY <1>3 DEF MaskOf
  <2> QED BY <2>1, <2>2, <2>3, <2>4, <1>5, <1>6, <1>7
<1> QED BY <1>7, <1>8, <1>9, <1>10

LEMMA LockLevel ==
  ASSUME Managed
  PROVE  IIPM_LOCK \in 1 .. 255 /\ IIPM_LOCK # 0
BY Levels

-----------------------------------------------------------------------------
(* One instruction after the other. *)

\* What an instruction leaves alone of the context that executes it.
Same(f, g) == g.who = f.who /\ g.lock = f.lock /\ g.flag = f.flag

\* What a call has to do depends on the context by its kind only.
LEMMA BodySame ==
  ASSUME NEW f, NEW g, NEW c, Same(f, g), g.ipm = f.ipm
  PROVE  Body(f, c) = Body(g, c)
BY Zenon DEF Body, Same

\* The context of a thread, a handler or PendSV before an instruction: entry
\* and flag are what the invariant says of them.
Registers(f, m, z) ==
    /\ f \in Frame /\ m \in 0 .. 255 /\ (m # 0 => z)
    /\ f.who = "thread" => m = MaskOf(f.ipm)
    /\ f.who = "exc" => f.entry = 0 /\ ~f.flag /\ m = 0
    /\ f.who \in IntNo => Begins(f.code, "push_basepri", 0) \/ f.entry = m

\* Context f becomes g by instruction o with operand a.
Executes(f, g, o, a, b) ==
    /\ f.code # <<>> /\ Head(f.code) = <<o, a>> /\ g.code = Tail(f.code)
    /\ Same(f, g)
    /\ g.iipm  = IF o = "get_basepri" THEN b ELSE IF o = "save_iipm" THEN 0 ELSE f.iipm
    /\ g.entry = IF o = "push_basepri" THEN b ELSE f.entry
    /\ g.ipm   = IF o \in {"set_dspflg", "clr_dspflg"} THEN a ELSE f.ipm

\* And BASEPRI b and saved_iipm s after it.
BasepriAfter(f, o, a, b, s) ==
    CASE o = "basepri_max"          -> Masked(b, a)
      [] o = "basepri"              -> a
      [] o = "restore_iipm" -> s
      [] o = "pop_basepri"      -> f.entry
      [] OTHER                      -> b

SavedAfter(f, o, a, s) ==
    CASE o = "saved_iipm"        -> a
      [] o = "save_iipm" -> f.iipm
      [] OTHER                   -> s

\* One step: b, s and l are BASEPRI, saved_iipm and lock_flag, m the mask of the
\* thread, z whether the right task runs; b2 to z2 what they are afterwards.
Does(f, g, o, a, b, b2, s, s2, l, l2, m, m2, z, z2) ==
    /\ Registers(f, m, z) /\ Executes(f, g, o, a, b) /\ o \notin Jumps
    /\ b2 = BasepriAfter(f, o, a, b, s)
    /\ s2 = SavedAfter(f, o, a, s)
    /\ l2 = (IF o = "lock_flag" THEN a ELSE l)
    /\ m2 = (IF o \in {"set_dspflg", "clr_dspflg"} THEN MaskOf(a) ELSE m)
    /\ z \in BOOLEAN /\ z2 \in BOOLEAN
    /\ o \notin {"ready", "wait", "terminate", "set_dspflg"} \/ (o = "ready" /\ m # 0) => z2 = z

\* The instruction executed is the one at the head.
LEMMA Instr ==
  ASSUME NEW f, NEW g, NEW o, NEW a, NEW b, NEW p, NEW d,
         Executes(f, g, o, a, b), Begins(f.code, p, d)
  PROVE  o = p /\ a = d
<1>1. Head(f.code) = <<o, a>> /\ Head(f.code) = <<p, d>>
  BY DEF Executes, Begins
<1> QED BY <1>1

\* An instruction changes in its context what it names and nothing else.
LEMMA Keeps ==
  ASSUME NEW f, NEW g, NEW o, NEW a, NEW b, Executes(f, g, o, a, b)
  PROVE  /\ g.code = Tail(f.code) /\ Same(f, g)
         /\ o \notin {"set_dspflg", "clr_dspflg"} => g.ipm = f.ipm
         /\ o \notin {"get_basepri", "save_iipm"} => g.iipm = f.iipm
         /\ o # "push_basepri" => g.entry = f.entry
         /\ o \in {"get_basepri"} => g.iipm = b
         /\ o \in {"push_basepri"} => g.entry = b
BY DEF Executes

LEMMA BodyKept ==
  ASSUME NEW f, NEW g, NEW o, NEW a, NEW b, NEW c, Executes(f, g, o, a, b),
         o \notin {"set_dspflg", "clr_dspflg"}
  PROVE  Body(g, c) = Body(f, c)
BY Keeps, BodySame

\* The value that a handler restores stays what it has pushed.
LEMMA EntryKept ==
  ASSUME NEW f, NEW g, NEW o, NEW a, NEW b, NEW m, NEW z, Registers(f, m, z),
         Executes(f, g, o, a, b), o # "push_basepri"
  PROVE  f.who \in IntNo => f.entry = m /\ g.entry = m
<1>1. ~Begins(f.code, "push_basepri", 0)
  BY Instr
<1> QED BY <1>1, Keeps DEF Registers

\* basepri_max only raises the mask.
LEMMA MaskedBy ==
  ASSUME NEW b \in 0 .. 255, NEW iipm \in 1 .. 255
  PROVE  Masked(b, iipm) \in 1 .. iipm /\ (b # 0 => Masked(b, iipm) \in 1 .. b)
BY DEF Masked

LEMMA Whos ==
  ASSUME Managed, NEW f, f.who \in IntNo
  PROVE  f.who \notin {"thread", "PendSV", "exc"}
BY DEF Managed, InterruptsAssumption

\* From an unlocked point the way is to an unlocked point or to the mask.
LEMMA FromUnlocked ==
  ASSUME Managed, NEW f, NEW g, NEW o, NEW a, NEW b, NEW b2, NEW s, NEW s2, NEW l, NEW l2,
         NEW m, NEW m2, NEW z, NEW z2, NEW r,
         Does(f, g, o, a, b, b2, s, s2, l, l2, m, m2, z, z2),
         Unlocked(f, m), b = m, s = m, f.who = "thread" => z
  PROVE  /\ o \notin Kernel \cup IntOps /\ (o = "lock_flag" => ~a) /\ s2 = s
         /\ \/ Unlocked(g, m) /\ b2 = m
            \/ MaskRaised(g, m, z, r) /\ b2 \in 1 .. IIPM_LOCK
         /\ f.who \in IntNo => g.entry = m
<1> USE DEF Does
<1>0. /\ g.code = Tail(f.code) /\ g.who = f.who /\ g.lock = f.lock /\ m \in 0 .. 255 /\ f.code # <<>>
      /\ f.who \in IntNo => Begins(f.code, "push_basepri", 0) \/ f.entry = m
  BY Keeps DEF Same, Registers, Executes
<1>1. CASE f.who # "PendSV" /\ Reads(f, f.code)
  <2>1. o = "get_basepri" /\ a = 0 /\ Locks(f, g.code)
    BY <1>0, <1>1, Instr DEF Reads
  <2>2. Locks(g, g.code)
    <3>1. \A c : Body(g, c) = Body(f, c)
      BY <2>1, BodyKept
    <3> QED BY <2>1, <3>1 DEF Locks, Saves, Flags
  <2>3. g.iipm = m /\ b2 = m /\ s2 = s /\ g.entry = f.entry
    BY <2>1, Keeps DEF BasepriAfter, SavedAfter
  <2>4. Unlocked(g, m)
    BY <1>0, <1>1, <2>2, <2>3 DEF Unlocked
  <2>5. f.who \in IntNo => f.entry = m
    BY <2>1, EntryKept
  <2> QED BY <2>1, <2>3, <2>4, <2>5 DEF Kernel, IntOps
<1>2. CASE f.who # "PendSV" /\ Locks(f, f.code) /\ f.iipm = m
  <2>1. o = "basepri_max" /\ a = IIPM_LOCK /\ Saves(f, g.code)
    BY <1>0, <1>2, Instr DEF Locks
  <2>2. Saves(g, g.code)
    <3>1. \A c : Body(g, c) = Body(f, c)
      BY <2>1, BodyKept
    <3> QED BY <2>1, <3>1 DEF Saves, Flags
  <2>3. g.iipm = m /\ b2 = Masked(b, IIPM_LOCK) /\ s2 = s /\ g.entry = f.entry
    BY <1>2, <2>1, Keeps DEF BasepriAfter, SavedAfter
  <2>4. b2 \in 1 .. IIPM_LOCK
    <3>1. b \in 0 .. 255 /\ IIPM_LOCK \in 1 .. 255
      BY <1>0, LockLevel
    <3>2. Masked(b, IIPM_LOCK) \in 1 .. IIPM_LOCK
      BY <3>1, MaskedBy, Zenon
    <3> QED BY <2>3, <3>2
  <2>5. MaskRaised(g, m, z, r)
    BY <1>0, <1>2, <2>2, <2>3 DEF MaskRaised
  <2>6. f.who \in IntNo => f.entry = m
    BY <2>1, EntryKept
  <2> QED BY <2>1, <2>3, <2>4, <2>5, <2>6 DEF Kernel, IntOps
<1>3. CASE f.who = "thread" /\ LocksAll(f, f.code) /\ m = 0
  <2>1. o = "basepri" /\ a = IIPM_LOCK /\ SavesAll(f, g.code)
    BY <1>0, <1>3, Instr DEF LocksAll
  <2>2. SavesAll(g, g.code)
    <3>1. \A c : Body(g, c) = Body(f, c)
      BY <2>1, BodyKept
    <3> QED BY <2>1, <3>1 DEF SavesAll, Flags
  <2>3. b2 = IIPM_LOCK /\ s2 = s
    BY <2>1 DEF BasepriAfter, SavedAfter
  <2>4. MaskRaised(g, m, z, r)
    BY <1>0, <1>3, <2>2, <2>3 DEF MaskRaised
  <2>5. IIPM_LOCK \in 1 .. IIPM_LOCK /\ f.who \notin IntNo
    BY <1>3, Levels, Whos
  <2> QED BY <2>1, <2>3, <2>4, <2>5 DEF Kernel, IntOps
<1>4. CASE /\ f.who \in IntNo /\ Begins(f.code, "push_basepri", 0) /\ Tail(f.code) = <<>>
           /\ ~f.lock
  <2>1. o = "push_basepri" /\ g.code = <<>>
    BY <1>0, <1>4, Instr
  <2>2. g.entry = m /\ b2 = m /\ s2 = s
    BY <2>1, Keeps DEF BasepriAfter, SavedAfter
  <2>3. Unlocked(g, m)
    BY <1>0, <1>4, <2>1, Whos DEF Unlocked
  <2> QED BY <2>1, <2>2, <2>3 DEF Kernel, IntOps
<1>5. CASE f.who \in IntNo /\ ~f.lock /\ Exits(f.code)
  <2>1. o = "lock_flag" /\ a = FALSE /\ Leaves(g.code)
    BY <1>0, <1>5, Instr DEF Exits
  <2>2. f.entry = m
    BY <1>0, <1>5, <2>1, Instr
  <2>3. g.entry = m /\ b2 = m /\ s2 = s
    BY <2>1, <2>2, Keeps DEF BasepriAfter, SavedAfter
  <2>4. Unlocked(g, m)
    BY <1>0, <1>5, <2>1 DEF Unlocked
  <2> QED BY <2>1, <2>3, <2>4 DEF Kernel, IntOps
<1>6. CASE f.who \in IntNo /\ ~f.lock /\ Leaves(f.code)
  <2>1. o = "pop_basepri" /\ Returns(g.code)
    BY <1>0, <1>6, Instr DEF Leaves
  <2>2. f.entry = m
    BY <1>0, <1>6, <2>1, Instr
  <2>3. g.entry = m /\ b2 = m /\ s2 = s
    BY <2>1, <2>2, Keeps DEF BasepriAfter, SavedAfter
  <2>4. Unlocked(g, m)
    BY <1>0, <1>6, <2>1 DEF Unlocked
  <2> QED BY <2>1, <2>3, <2>4 DEF Kernel, IntOps
<1>7. CASE f.who \in IntNo /\ ~f.lock /\ Returns(f.code)
  BY <1>7, Instr DEF Returns, Jumps
<1>8. CASE /\ f.who = "PendSV" /\ m = 0
           /\ Begins(f.code, "basepri", IIPM_LOCK) /\ Begins(Tail(f.code), "switch", 0)
  <2>1. o = "basepri" /\ a = IIPM_LOCK
    BY <1>8, Instr
  <2>2. b2 = IIPM_LOCK /\ s2 = s
    BY <2>1 DEF BasepriAfter, SavedAfter
  <2>3. MaskRaised(g, m, z, r)
    BY <1>0, <1>8 DEF MaskRaised
  <2>4. IIPM_LOCK \in 1 .. IIPM_LOCK /\ f.who \notin IntNo
    BY <1>8, Levels, Whos
  <2> QED BY <2>1, <2>2, <2>3, <2>4 DEF Kernel, IntOps
<1> QED BY <1>0, <1>1, <1>2, <1>3, <1>4, <1>5, <1>6, <1>7, <1>8 DEF Unlocked

\* What an instruction leads to.
StepOK(f, g, o, a, b2, l2, m, m2, s2, z2, r) ==
    /\ PointOf(g, b2, l2, m2, s2, z2, r)
    /\ f.who \in IntNo => g.entry = m
    /\ f.who # "thread" => s2 = m
    /\ m2 # 0 => z2
    /\ f.who = "thread" => z2 \/ ~Unlocked(g, m2)
    /\ o \in {"wait", "terminate", "set_dspflg", "clr_dspflg"} => f.who = "thread"
    /\ o = "ready" => f.who = "thread" \/ Begins(g.code, "request", 0)
    /\ o = "set_dspflg" => a = TIPM_ENAALL
    /\ o = "clr_dspflg" => a \in Masks
    /\ o \in IntOps => a \in IntNo

\* With the mask raised the way is into the locked state, or out of it to an
\* unlocked point.
LEMMA FromRaised ==
  ASSUME Managed, NEW f, NEW g, NEW o, NEW a, NEW b, NEW b2, NEW s, NEW s2, NEW l, NEW l2,
         NEW m, NEW m2, NEW z, NEW z2, NEW r,
         Does(f, g, o, a, b, b2, s, s2, l, l2, m, m2, z, z2), l = FALSE,
         MaskRaised(f, m, z, r), b \in 1 .. IIPM_LOCK, s = m
  PROVE  StepOK(f, g, o, a, b2, l2, m, m2, s2, z2, r)
<1> USE DEF Does
<1> SUFFICES /\ o \notin Kernel \cup IntOps /\ PointOf(g, b2, l2, m, s2, z, r) /\ s2 = m
             /\ f.who \in IntNo => g.entry = m
             /\ f.who = "thread" => z
  <2>1. o \notin Kernel => m2 = m /\ z2 = z
    BY DEF Kernel
  <2>2. m # 0 => z
    BY DEF Registers
  <2> QED BY <2>1, <2>2 DEF StepOK, Kernel
<1>0. /\ g.code = Tail(f.code) /\ g.who = f.who /\ g.lock = f.lock /\ g.flag = f.flag
      /\ m \in 0 .. 255 /\ f.code # <<>>
      /\ f.who \in IntNo => Begins(f.code, "push_basepri", 0) \/ f.entry = m
      /\ f.who = "exc" => f.entry = 0 /\ ~f.flag /\ m = 0
  BY Keeps DEF Same, Registers, Executes
<1>1. CASE f.who # "PendSV" /\ (f.who = "thread" => z) /\ Saves(f, f.code) /\ f.iipm = m
  <2>1. o = "save_iipm" /\ a = 0 /\ Flags(f, g.code)
    BY <1>0, <1>1, Instr DEF Saves
  <2>2. Flags(g, g.code)
    <3>1. \A c : Body(g, c) = Body(f, c)
      BY <2>1, BodyKept
    <3> QED BY <2>1, <3>1 DEF Flags
  <2>3. b2 = b /\ s2 = m /\ g.entry = f.entry /\ l2 = FALSE
    BY <1>1, <2>1, Keeps DEF BasepriAfter, SavedAfter
  <2>4. MaskRaised(g, m, z, r)
    BY <1>0, <1>1, <2>2 DEF MaskRaised
  <2>5. f.who \in IntNo => f.entry = m
    BY <2>1, EntryKept
  <2> QED BY <1>1, <2>1, <2>3, <2>4, <2>5 DEF Kernel, IntOps, PointOf
<1>2. CASE f.who # "PendSV" /\ (f.who = "thread" => z) /\ Flags(f, f.code)
  <2>1. o = "lock_flag" /\ Body(f, g.code)
    BY <1>0, <1>2, Instr DEF Flags
  <2>2. Body(g, g.code)
    BY <2>1, BodyKept
  <2>6. l2 = TRUE
    <3>1. a = TRUE
      BY <1>2, Instr DEF Flags
    <3> QED BY <2>1, <3>1, Zenon
  <2>3. b2 = b /\ s2 = m /\ g.entry = f.entry
    BY <1>2, <2>1, Keeps DEF BasepriAfter, SavedAfter
  <2>4. Locked(g, m, s2, z, r)
    BY <1>0, <1>2, <2>2, <2>3 DEF Locked
  <2>5. f.who \in IntNo => f.entry = m
    BY <2>1, EntryKept
  <2> QED BY <1>2, <2>1, <2>3, <2>4, <2>5, <2>6 DEF Kernel, IntOps, PointOf
<1>3. CASE f.who # "PendSV" /\ (f.who = "thread" => z) /\ ~f.lock /\ Restores(f.code)
  <2>1. o = "restore_iipm" /\ a = 0 /\ g.code = <<>>
    BY <1>0, <1>3, Instr DEF Restores
  <2>3. b2 = m /\ s2 = m /\ g.entry = f.entry /\ l2 = FALSE
    BY <1>3, <2>1, Keeps DEF BasepriAfter, SavedAfter
  <2>4. CASE f.who # "exc"
    <3>1. Unlocked(g, m)
      BY <1>0, <1>3, <2>1, <2>4 DEF Unlocked
    <3> QED BY <1>0, <1>3, <2>1, <2>3, <3>1, Instr DEF Kernel, IntOps, PointOf
  <2>5. CASE f.who = "exc"
    <3>1. g.flag = FALSE /\ g.entry = 0 /\ m = 0
      BY <1>0, <2>3, <2>5 DEF Registers, Frame
    <3> QED BY <1>0, <1>3, <2>1, <2>3, <2>5, <3>1, Whos DEF Kernel, IntOps, PointOf
  <2> QED BY <2>4, <2>5
<1>4. CASE f.who = "thread" /\ m = 0 /\ z /\ SavesAll(f, f.code)
  <2>1. o = "saved_iipm" /\ a = 0 /\ Flags(f, g.code)
    BY <1>0, <1>4, Instr DEF SavesAll
  <2>2. Flags(g, g.code)
    <3>1. \A c : Body(g, c) = Body(f, c)
      BY <2>1, BodyKept
    <3> QED BY <2>1, <3>1 DEF Flags
  <2>3. b2 = b /\ s2 = m /\ l2 = FALSE
    BY <1>4, <2>1 DEF BasepriAfter, SavedAfter
  <2>4. MaskRaised(g, m, z, r)
    BY <1>0, <1>4, <2>2 DEF MaskRaised
  <2>5. f.who \notin IntNo
    BY <1>4, Whos
  <2> QED BY <1>4, <2>1, <2>3, <2>4, <2>5 DEF Kernel, IntOps, PointOf
<1>5. CASE f.who = "thread" /\ m = 0 /\ z /\ ~f.lock /\ UnlocksAll(f.code)
  <2>1. o = "lock_flag" /\ a = FALSE /\ EnablesAll(g.code)
    BY <1>0, <1>5, Instr DEF UnlocksAll
  <2>3. b2 = b /\ s2 = m /\ l2 = FALSE
    BY <1>5, <2>1 DEF BasepriAfter, SavedAfter
  <2>4. MaskRaised(g, m, z, r)
    BY <1>0, <1>5, <2>1 DEF MaskRaised
  <2>5. f.who \notin IntNo
    BY <1>5, Whos
  <2> QED BY <1>5, <2>1, <2>3, <2>4, <2>5 DEF Kernel, IntOps, PointOf
<1>6. CASE f.who = "thread" /\ m = 0 /\ z /\ ~f.lock /\ EnablesAll(f.code)
  <2>1. o = "basepri" /\ a = 0 /\ g.code = <<>>
    BY <1>0, <1>6, Instr DEF EnablesAll
  <2>3. b2 = m /\ s2 = m /\ l2 = FALSE
    BY <1>6, <2>1 DEF BasepriAfter, SavedAfter
  <2>4. Unlocked(g, m)
    BY <1>0, <1>6, <2>1 DEF Unlocked
  <2>5. f.who \notin IntNo
    BY <1>6, Whos
  <2> QED BY <1>6, <2>1, <2>3, <2>4, <2>5 DEF Kernel, IntOps, PointOf
<1>7. CASE f.who \in IntNo /\ ~f.lock /\ Leaves(f.code)
  <2>1. o = "pop_basepri" /\ a = 0 /\ Returns(g.code)
    BY <1>0, <1>7, Instr DEF Leaves
  <2>2. f.entry = m
    BY <1>0, <1>7, <2>1, Instr
  <2>3. b2 = m /\ s2 = m /\ g.entry = m /\ l2 = FALSE
    BY <1>7, <2>1, <2>2, Keeps DEF BasepriAfter, SavedAfter
  <2>4. Unlocked(g, m)
    BY <1>0, <1>7, <2>1 DEF Unlocked
  <2>5. f.who # "thread"
    BY <1>7, Whos
  <2> QED BY <1>7, <2>1, <2>3, <2>4, <2>5 DEF Kernel, IntOps, PointOf
<1>8. CASE /\ f.who = "PendSV" /\ m = 0 /\ z /\ r = "thread" /\ Begins(f.code, "lock_flag", TRUE)
           /\ Begins(Tail(f.code), "return_thread", 0)
  <2>1. o = "lock_flag" /\ a = TRUE
    BY <1>8, Instr
  <2>3. b2 = b /\ s2 = 0 /\ l2 = TRUE
    BY <1>8, <2>1 DEF BasepriAfter, SavedAfter
  <2>4. Locked(g, m, s2, z, r)
    BY <1>0, <1>8, <2>3 DEF Locked
  <2>5. f.who \notin IntNo
    BY <1>8, Whos
  <2> QED BY <1>8, <2>1, <2>3, <2>4, <2>5 DEF Kernel, IntOps, PointOf
<1>9. CASE /\ f.who = "PendSV" /\ m = 0
           /\ \/ Begins(f.code, "switch", 0)
              \/ z /\ r = "none" /\ Begins(f.code, "return_thread", 0)
              \/ z /\ r = "exc" /\ Begins(f.code, "return_exc", 0)
  BY <1>9, Instr DEF Jumps
<1> QED BY <1>1, <1>2, <1>3, <1>4, <1>5, <1>6, <1>7, <1>8, <1>9 DEF MaskRaised

\* The dispatcher is not called with the CPU unlocked.
LEMMA NotUnlocked ==
  ASSUME NEW f, NEW m, NEW o, o \in {"dispatch", "exit", "terminate"}, f.who = "thread",
         Managed, Begins(f.code, o, 0)
  PROVE  ~Unlocked(f, m)
<1>1. f.code # <<>> /\ Head(f.code)[1] = o
  BY DEF Begins
<1>2. \A p, d : Begins(f.code, p, d) => p = o
  BY DEF Begins
<1>3. f.who \notin IntNo
  BY Whos
<1> QED BY <1>1, <1>2, <1>3 DEF Unlocked, Reads, Locks, LocksAll

\* A task that ends has left the ready queue; it goes on to the dispatcher.
LEMMA FromTerminate ==
  ASSUME Managed, NEW f, NEW g, NEW o, NEW a, NEW b, NEW b2, NEW s, NEW s2, NEW l2,
         NEW m, NEW m2, NEW z, NEW z2, NEW r,
         Does(f, g, o, a, b, b2, s, s2, TRUE, l2, m, m2, z, z2), b \in 1 .. IIPM_LOCK,
         s = m, m = 0, f.who = "thread", Terminates(f.code)
  PROVE  StepOK(f, g, o, a, b2, l2, m, m2, s2, z2, r)
<1> USE DEF Does
<1>1. g.code = Tail(f.code) /\ g.who = "thread" /\ f.who \notin IntNo
  BY Keeps, Whos DEF Same
<1>2. o = "terminate" /\ Ends(g.code)
  BY <1>1, Instr DEF Terminates
<1>3. b2 = b /\ s2 = s
  BY <1>2 DEF BasepriAfter, SavedAfter
<1>4. l2 = TRUE /\ m2 = m
  BY <1>2, Zenon
<1>5. Locked(g, m, s2, z2, r)
  BY <1>1, <1>2, <1>3 DEF Locked
<1>6. ~Unlocked(g, m2)
  BY <1>1, <1>2, NotUnlocked DEF Ends
<1>7. PointOf(g, b2, l2, m2, s2, z2, r)
  BY <1>3, <1>4, <1>5 DEF PointOf
<1> QED BY <1>1, <1>2, <1>4, <1>6, <1>7 DEF StepOK, IntOps

\* From a point within a call, and from any other point of the locked state.
LEMMA FromBody ==
  ASSUME Managed, NEW f, NEW g, NEW o, NEW a, NEW b, NEW b2, NEW s, NEW s2, NEW l2,
         NEW m, NEW m2, NEW z, NEW z2, NEW r,
         Does(f, g, o, a, b, b2, s, s2, TRUE, l2, m, m2, z, z2), b \in 1 .. IIPM_LOCK,
         s = m, f.who # "PendSV", f.who = "thread" => z, Body(f, f.code)
  PROVE  StepOK(f, g, o, a, b2, l2, m, m2, s2, z2, r)
<1> USE DEF Does
<1>0. /\ g.code = Tail(f.code) /\ g.who = f.who /\ g.lock = f.lock
      /\ m \in 0 .. 255 /\ f.code # <<>> /\ Head(f.code) = <<o, a>>
      /\ f.who = "thread" => m = MaskOf(f.ipm)
      /\ m # 0 => z
  BY Keeps DEF Same, Registers, Executes
<1>e. o # "push_basepri" => (f.who \in IntNo => g.entry = m)
  BY EntryKept
<1>1. CASE /\ f.code # <<>> /\ Head(f.code) \in IntOps \X IntNo
           /\ IF f.lock THEN Tail(f.code) = <<>> ELSE Unlocks(Tail(f.code))
  <2>1. o \in IntOps /\ a \in IntNo
    BY <1>0, <1>1
  <2>2. /\ o \notin {"push_basepri", "basepri_max", "basepri", "restore_iipm", "pop_basepri",
                     "saved_iipm", "save_iipm", "lock_flag", "set_dspflg", "clr_dspflg", "ready",
                     "wait", "terminate"}
    BY <2>1 DEF IntOps
  <2>3. b2 = b /\ s2 = s
    BY <2>2 DEF BasepriAfter, SavedAfter
  <2>4. l2 = TRUE /\ m2 = m /\ z2 = z
    BY <2>2, Zenon
  <2>5. f.lock => g.code = <<>>
    BY <1>0, <1>1
  <2>6. ~f.lock => Unlocks(g.code)
    BY <1>0, <1>1
  <2>7. Locked(g, m, s2, z2, r)
    BY <1>0, <2>3, <2>4, <2>5, <2>6 DEF Locked, Body
  <2>8. PointOf(g, b2, l2, m2, s2, z2, r)
    BY <2>3, <2>4, <2>7 DEF PointOf
  <2>9. m2 # 0 => z2
    BY <1>0, <2>4
  <2>10. f.who = "thread" => z2
    BY <2>4
  <2> QED BY <1>e, <2>3, <2>1, <2>2, <2>8, <2>9, <2>10 DEF StepOK
<1>2. CASE /\ Begins(f.code, "ready", 0) /\ ~f.lock
           /\ IF f.who = "thread" THEN Dispatches(Tail(f.code)) ELSE Requests(Tail(f.code))
  <2>1. o = "ready"
    BY <1>2, Instr
  <2>3. b2 = b /\ s2 = s
    BY <2>1 DEF BasepriAfter, SavedAfter
  <2>4. l2 = TRUE /\ m2 = m
    BY <2>1, Zenon
  <2>5. CASE f.who = "thread"
    <3>1. Dispatches(g.code)
      BY <1>0, <1>2, <2>5
    <3>2. Locked(g, m, s2, z2, r)
      BY <1>0, <1>2, <2>3, <2>5, <3>1 DEF Locked
    <3>3. ~Unlocked(g, m2)
      BY <1>0, <2>5, <3>1, NotUnlocked DEF Dispatches
    <3>4. PointOf(g, b2, l2, m2, s2, z2, r)
      BY <2>3, <2>4, <3>2 DEF PointOf
    <3>5. m2 # 0 => z2
      BY <1>0, <2>1, <2>4, <2>5
    <3> QED BY <1>e, <2>1, <2>5, <3>3, <3>4, <3>5 DEF StepOK, IntOps
  <2>6. CASE f.who # "thread"
    <3>1. Requests(g.code)
      BY <1>0, <1>2, <2>6
    <3>2. f.who \in IntNo \cup {"exc"}
      BY <2>6 DEF Registers, Frame
    <3>3. Locked(g, m, s2, z2, r)
      BY <1>0, <1>2, <2>3, <3>1, <3>2 DEF Locked
    <3>4. PointOf(g, b2, l2, m2, s2, z2, r)
      BY <2>3, <2>4, <3>3 DEF PointOf
    <3>5. m2 # 0 => z2
      BY <1>0, <2>1, <2>4
    <3> QED BY <1>e, <2>3, <2>1, <2>6, <3>1, <3>4, <3>5 DEF StepOK, IntOps, Requests
  <2> QED BY <2>5, <2>6
<1>3. CASE /\ f.who = "thread" /\ f.ipm = TIPM_ENAALL /\ ~f.lock
           /\ Begins(f.code, "wait", 0) /\ DispatchesAll(Tail(f.code))
  <2>1. o = "wait"
    BY <1>3, Instr
  <2>3. b2 = b /\ s2 = s
    BY <2>1 DEF BasepriAfter, SavedAfter
  <2>4. l2 = TRUE /\ m2 = m
    BY <2>1, Zenon
  <2>5. m = 0
    BY <1>0, <1>3 DEF MaskOf
  <2>6. DispatchesAll(g.code)
    BY <1>0, <1>3
  <2>7. Locked(g, m, s2, z2, r)
    BY <1>0, <1>3, <2>3, <2>5, <2>6 DEF Locked
  <2>8. ~Unlocked(g, m2)
    BY <1>0, <1>3, <2>6, NotUnlocked DEF DispatchesAll
  <2>9. PointOf(g, b2, l2, m2, s2, z2, r)
    BY <2>3, <2>4, <2>7 DEF PointOf
  <2> QED BY <1>3, <1>e, <2>1, <2>4, <2>5, <2>8, <2>9 DEF StepOK, IntOps
<1>4. CASE f.who = "thread" /\ f.ipm = TIPM_ENAALL /\ Terminates(f.code)
  <2>1. m = 0
    BY <1>0, <1>4 DEF MaskOf
  <2> HIDE DEF Does
  <2> QED BY <1>4, <2>1, FromTerminate
<1>5. CASE /\ f.who = "thread" /\ Begins(f.code, "saved_iipm", 0) /\ Permits(Tail(f.code))
           /\ f.lock => Terminates(Tail(Tail(f.code)))
  <2>1. o = "saved_iipm" /\ a = 0
    BY <1>5, Instr
  <2>3. b2 = b /\ s2 = 0
    BY <2>1 DEF BasepriAfter, SavedAfter
  <2>4. l2 = TRUE /\ m2 = m /\ z2 = z
    BY <2>1, Zenon
  <2>7. Locked(g, m, s2, z2, r)
    BY <1>0, <1>5, <2>3, <2>4 DEF Locked
  <2>9. PointOf(g, b2, l2, m2, s2, z2, r)
    BY <2>3, <2>4, <2>7 DEF PointOf
  <2>10. z2
    BY <1>5, <2>4
  <2> QED BY <1>e, <1>5, <2>1, <2>9, <2>10 DEF StepOK, IntOps
<1>6. ASSUME NEW ipm \in Masks, f.who = "thread", Begins(f.code, "saved_iipm", MaskOf(ipm)),
             ~f.lock, Raises(Tail(f.code), ipm)
      PROVE  StepOK(f, g, o, a, b2, l2, m, m2, s2, z2, r)
  <2>1. o = "saved_iipm" /\ a = MaskOf(ipm)
    BY <1>6, Instr
  <2>3. b2 = b /\ s2 = MaskOf(ipm)
    BY <2>1 DEF BasepriAfter, SavedAfter
  <2>4. l2 = TRUE /\ m2 = m /\ z2 = z
    BY <2>1, Zenon
  <2>7. Locked(g, m, s2, z2, r)
    BY <1>0, <1>6, <2>3, <2>4 DEF Locked
  <2>9. PointOf(g, b2, l2, m2, s2, z2, r)
    BY <2>3, <2>4, <2>7 DEF PointOf
  <2>10. z2
    BY <1>6, <2>4
  <2> QED BY <1>e, <1>6, <2>1, <2>9, <2>10 DEF StepOK, IntOps
<1> QED BY <1>0, <1>1, <1>2, <1>3, <1>4, <1>5, <1>6 DEF Body

LEMMA FromLocked ==
  ASSUME Managed, NEW f, NEW g, NEW o, NEW a, NEW b, NEW b2, NEW s, NEW s2, NEW l2,
         NEW m, NEW m2, NEW z, NEW z2, NEW r,
         Does(f, g, o, a, b, b2, s, s2, TRUE, l2, m, m2, z, z2), b \in 1 .. IIPM_LOCK,
         Locked(f, m, s, z, r)
  PROVE  StepOK(f, g, o, a, b2, l2, m, m2, s2, z2, r)
<1> USE DEF Does
<1>0. /\ g.code = Tail(f.code) /\ g.who = f.who /\ g.lock = f.lock
      /\ m \in 0 .. 255 /\ f.code # <<>> /\ (m # 0 => z)
  BY Keeps DEF Same, Registers, Executes
<1>e. o # "push_basepri" => (f.who \in IntNo => g.entry = m)
  BY EntryKept
<1>1. CASE /\ s = m /\ f.who # "PendSV" /\ (f.who = "thread" => z) /\ Body(f, f.code)
  <2> USE <1>1
  <2> HIDE DEF Does
  <2> QED BY FromBody
<1>2. CASE /\ s = m /\ f.who # "PendSV" /\ (f.who = "thread" => z) /\ ~f.lock /\ Unlocks(f.code)
  <2>1. o = "lock_flag" /\ a = FALSE /\ Restores(g.code)
    BY <1>0, <1>2, Instr DEF Unlocks
  <2>2. b2 = b /\ s2 = s
    BY <2>1 DEF BasepriAfter, SavedAfter
  <2>3. l2 = FALSE /\ m2 = m /\ z2 = z
    BY <2>1, Zenon
  <2>4. MaskRaised(g, m, z, r)
    BY <1>0, <1>2, <2>1 DEF MaskRaised
  <2>5. PointOf(g, b2, l2, m2, s2, z2, r)
    BY <1>2, <2>2, <2>3, <2>4 DEF PointOf
  <2>6. f.who = "thread" => z2
    BY <1>2, <2>3
  <2>7. m2 # 0 => z2
    BY <1>0, <2>3
  <2> QED BY <1>e, <1>2, <2>2, <2>1, <2>5, <2>6, <2>7 DEF StepOK, IntOps
<1>3. CASE f.who \in IntNo /\ s = m /\ ~f.lock /\ Exits(f.code)
  <2>1. o = "lock_flag" /\ a = FALSE /\ Leaves(g.code)
    BY <1>0, <1>3, Instr DEF Exits
  <2>2. b2 = b /\ s2 = s
    BY <2>1 DEF BasepriAfter, SavedAfter
  <2>3. l2 = FALSE /\ m2 = m /\ z2 = z
    BY <2>1, Zenon
  <2>4. MaskRaised(g, m, z, r)
    BY <1>0, <1>3, <2>1 DEF MaskRaised
  <2>5. PointOf(g, b2, l2, m2, s2, z2, r)
    BY <1>3, <2>2, <2>3, <2>4 DEF PointOf
  <2>6. f.who # "thread"
    BY <1>3, Whos
  <2>7. m2 # 0 => z2
    BY <1>0, <2>3
  <2> QED BY <1>e, <1>3, <2>2, <2>1, <2>5, <2>6, <2>7 DEF StepOK, IntOps
<1>4. CASE f.who \in IntNo \cup {"exc"} /\ s = m /\ ~f.lock /\ Requests(f.code)
  <2>1. o = "request" /\ Unlocks(g.code)
    BY <1>0, <1>4, Instr DEF Requests
  <2>2. b2 = b /\ s2 = s
    BY <2>1 DEF BasepriAfter, SavedAfter
  <2>3. l2 = TRUE /\ m2 = m /\ z2 = z
    BY <2>1, Zenon
  <2>6. f.who # "thread" /\ f.who # "PendSV"
    BY <1>4, Whos
  <2>4. Locked(g, m, s2, z, r)
    BY <1>0, <1>4, <2>1, <2>2, <2>6 DEF Locked
  <2>5. PointOf(g, b2, l2, m2, s2, z2, r)
    BY <1>4, <2>2, <2>3, <2>4 DEF PointOf
  <2>7. m2 # 0 => z2
    BY <1>0, <2>3
  <2> QED BY <1>e, <1>4, <2>2, <2>1, <2>5, <2>6, <2>7 DEF StepOK, IntOps
<1>5. CASE /\ f.who = "thread" /\ s = m
           /\ \/ ~f.lock /\ Dispatches(f.code)
              \/ ~f.lock /\ m = 0 /\ DispatchesAll(f.code)
              \/ m = 0 /\ Ends(f.code)
              \/ m = 0 /\ z /\ r = "exc" /\ Begins(f.code, "svc", 0)
  BY <1>5, Instr DEF Dispatches, DispatchesAll, Ends, Jumps
<1>t. CASE f.who = "thread" /\ s = m /\ m = 0 /\ Terminates(f.code)
  <2> HIDE DEF Does
  <2> QED BY <1>t, FromTerminate
<1>6. CASE f.who = "thread" /\ s = m /\ ~f.lock /\ m = 0 /\ z /\ UnlocksAll(f.code)
  <2>1. o = "lock_flag" /\ a = FALSE /\ EnablesAll(g.code)
    BY <1>0, <1>6, Instr DEF UnlocksAll
  <2>2. b2 = b /\ s2 = s
    BY <2>1 DEF BasepriAfter, SavedAfter
  <2>3. l2 = FALSE /\ m2 = m /\ z2 = z
    BY <2>1, Zenon
  <2>4. MaskRaised(g, m, z, r)
    BY <1>0, <1>6, <2>1 DEF MaskRaised
  <2>5. PointOf(g, b2, l2, m2, s2, z2, r)
    BY <1>6, <2>2, <2>3, <2>4 DEF PointOf
  <2>6. z2
    BY <1>6, <2>3
  <2> QED BY <1>e, <1>6, <2>1, <2>5, <2>6 DEF StepOK, IntOps
<1>7. CASE /\ f.who = "thread" /\ z /\ s = 0 /\ Permits(f.code)
           /\ f.lock => Terminates(Tail(f.code))
  <2>1. o = "set_dspflg" /\ a = 0
    BY <1>0, <1>7, Instr DEF Permits
  <2>2. b2 = b /\ s2 = s
    BY <2>1 DEF BasepriAfter, SavedAfter
  <2>3. l2 = TRUE
    BY <2>1, Zenon
  <2>4. m2 = 0
    BY <2>1 DEF MaskOf, TIPM_ENAALL
  <2>5. CASE Terminates(g.code)
    <3>1. Locked(g, m2, s2, z2, r)
      BY <1>0, <1>7, <2>2, <2>4, <2>5 DEF Locked
    <3>2. ~Unlocked(g, m2)
      BY <1>0, <1>7, <2>5, NotUnlocked DEF Terminates
    <3>3. PointOf(g, b2, l2, m2, s2, z2, r)
      BY <1>7, <2>2, <2>3, <3>1 DEF PointOf
    <3> QED BY <1>7, <1>e, <2>1, <2>4, <3>2, <3>3 DEF StepOK, IntOps, TIPM_ENAALL
  <2>6. CASE ~Terminates(g.code)
    <3>1. Dispatches(g.code) /\ ~g.lock
      BY <1>0, <1>7, <2>6 DEF Permits
    <3>2. Locked(g, m2, s2, z2, r)
      BY <1>0, <1>7, <2>2, <2>4, <3>1 DEF Locked
    <3>3. ~Unlocked(g, m2)
      BY <1>0, <1>7, <3>1, NotUnlocked DEF Dispatches
    <3>4. PointOf(g, b2, l2, m2, s2, z2, r)
      BY <1>7, <2>2, <2>3, <3>2 DEF PointOf
    <3> QED BY <1>7, <1>e, <2>1, <2>4, <3>3, <3>4 DEF StepOK, IntOps, TIPM_ENAALL
  <2> QED BY <2>5, <2>6
<1>8. ASSUME NEW ipm \in Masks, f.who = "thread", z, s = MaskOf(ipm), ~f.lock, Raises(f.code, ipm)
      PROVE  StepOK(f, g, o, a, b2, l2, m, m2, s2, z2, r)
  <2>1. o = "basepri_max" /\ a = MaskOf(ipm) /\ Forbids(g.code, ipm)
    BY <1>0, <1>8, Instr DEF Raises
  <2>2. b2 = Masked(b, MaskOf(ipm)) /\ s2 = s
    BY <2>1 DEF BasepriAfter, SavedAfter
  <2>3. l2 = TRUE /\ m2 = m /\ z2 = z
    BY <2>1, Zenon
  <2>4. b2 \in 1 .. IIPM_LOCK
    <3>1. MaskOf(ipm) \in 1 .. 255
      BY Levels DEF Masks
    <3>2. b \in 0 .. 255 /\ b # 0
      BY LockLevel
    <3>3. Masked(b, MaskOf(ipm)) \in 1 .. b
      BY <3>1, <3>2, MaskedBy, Zenon
    <3> QED BY <2>2, <3>2, <3>3, LockLevel
  <2>5. Locked(g, m, s2, z, r)
    BY <1>0, <1>8, <2>1, <2>2 DEF Locked
  <2>6. PointOf(g, b2, l2, m2, s2, z2, r)
    BY <1>8, <2>3, <2>4, <2>5 DEF PointOf
  <2>7. z2
    BY <1>8, <2>3
  <2> QED BY <1>e, <1>8, <2>1, <2>6, <2>7 DEF StepOK, IntOps
<1>9. ASSUME NEW ipm \in Masks, f.who = "thread", z, s = MaskOf(ipm), ~f.lock, Forbids(f.code, ipm)
      PROVE  StepOK(f, g, o, a, b2, l2, m, m2, s2, z2, r)
  <2>1. o = "clr_dspflg" /\ a = ipm /\ Unlocks(g.code)
    BY <1>0, <1>9, Instr DEF Forbids
  <2>2. b2 = b /\ s2 = s
    BY <2>1 DEF BasepriAfter, SavedAfter
  <2>3. l2 = TRUE /\ z2 = z
    BY <2>1, Zenon
  <2>4. m2 = s2
    BY <1>9, <2>1, <2>2
  <2>5. Locked(g, m2, s2, z, r)
    BY <1>0, <1>9, <2>1, <2>4 DEF Locked
  <2>6. PointOf(g, b2, l2, m2, s2, z2, r)
    BY <1>9, <2>2, <2>3, <2>5 DEF PointOf
  <2>7. z2
    BY <1>9, <2>3
  <2> QED BY <1>9, <1>e, <2>1, <2>6, <2>7 DEF StepOK, IntOps
<1>10. CASE /\ f.who = "PendSV" /\ m = 0 /\ s = 0 /\ z /\ r = "thread"
            /\ Begins(f.code, "return_thread", 0)
  BY <1>10, Instr DEF Jumps
<1> QED BY <1>1, <1>2, <1>3, <1>4, <1>5, <1>t, <1>6, <1>7, <1>8, <1>9, <1>10 DEF Locked

-----------------------------------------------------------------------------
(* The stack of contexts. *)

\* What the invariant says of the stack.
LEMMA StackFacts ==
  ASSUME Managed, IInv
  PROVE  /\ Top \in Nat \ {0} /\ DOMAIN ctx = 1 .. Top /\ Running = ctx[Top]
         /\ \A k \in 1 .. Top : ctx[k] \in Frame
         /\ Running \in Frame /\ ctx[1].who = "thread"
         /\ Mask \in 0 .. 255 /\ (Mask = 0) = (ctx[1].ipm = TIPM_ENAALL)
         /\ Mask # 0 => Settled
         /\ Running.who = "thread" => Top = 1
<1>1. ctx \in Seq(Frame) /\ ctx # <<>>
  BY DEF IInv, TypeOK, StackOK
<1>2. Top \in Nat \ {0} /\ DOMAIN ctx = 1 .. Top /\ Running = ctx[Top]
  BY <1>1 DEF Running, Last, Top
<1>3. \A k \in 1 .. Top : ctx[k] \in Frame
  BY <1>1, <1>2
<1>4. ctx[1].ipm \in Ipms \cup {TIPM_ENAALL}
  BY <1>2, <1>3 DEF Frame
<1>5. Mask \in 0 .. 255 /\ (Mask = 0) = (ctx[1].ipm = TIPM_ENAALL)
  BY <1>4, Levels DEF Mask
<1>6. Mask # 0 => Settled
  BY <1>5 DEF IInv, MaskOK
<1>7. ctx[1].who = "thread" /\ (Running.who = "thread" => Top = 1)
  <2>1. 1 \in 1 .. Top /\ Top \in 1 .. Top
    BY <1>2
  <2> QED BY ONLY <2>1, <1>2, IInv DEF IInv, StackOK
<1> QED BY <1>2, <1>3, <1>5, <1>6, <1>7

\* The context below a CPU exception handler that makes calls is unlocked.
LEMMA ExceptionCalls ==
  ASSUME Managed, IInv, Running.who = "exc", Running.code # <<>>
  PROVE  /\ Top = 2 /\ Running.entry = 0 /\ ~Running.flag
         /\ Unlocked(ctx[1], Mask) /\ Mask = 0 /\ hw.saved_iipm = 0
<1>1. Top = 2 /\ Running.entry = 0 /\ Point(1, 0, Running.flag)
  <2>1. /\ Top = 2 /\ Running.entry = 0
        /\ Point(Top - 1, Running.entry, Running.flag)
    BY DEF IInv, PointsOK
  <2>2. Top - 1 = 1
    BY <2>1
  <2> QED BY <2>1, <2>2
<1>2. ctx[1].who = "thread"
  BY StackFacts
<1> QED BY <1>1, <1>2, LockLevel DEF Point, PointOf

\* A thread that runs unlocked is the right one: otherwise PendSV comes first.
LEMMA RunsRight ==
  ASSUME Managed, IInv, ~AcceptsPendSV, Running.who = "thread", Unlocked(Running, Mask),
         hw.basepri = Mask
  PROVE  Settled
<1>1. Top = 1 /\ Running = ctx[1] /\ ctx[1].who = "thread" /\ DOMAIN ctx = 1 .. 1
  BY StackFacts
<1>2. Settled \/ hw.pendsv \/ (Running.code # <<>> /\ Head(Running.code)[1] = "request")
  BY <1>1 DEF IInv, RequestedOK
<1>3. ~(Running.code # <<>> /\ Head(Running.code)[1] = "request")
  <2>1. \A o, a : Begins(Running.code, o, a) => Head(Running.code)[1] = o
    BY DEF Begins
  <2>2. Running.who \notin IntNo
    BY Whos
  <2> QED BY <2>1, <2>2 DEF Unlocked, Reads, Locks, LocksAll
<1>4. ASSUME hw.pendsv, Mask = 0 PROVE FALSE
  <2>2. INT_NVIC_PRI(-1) < 256
    BY Levels, LockLevel
  <2>3. Accepts(INT_NVIC_PRI(-1))
    BY <1>1, <1>4, <2>2 DEF Accepts, Priority
  <2> QED BY <1>4, <2>3 DEF AcceptsPendSV
<1> QED BY <1>2, <1>3, <1>4, StackFacts

\* The running context goes on and the others stay where they are.
GoesOn ==
    /\ Top' = Top /\ DOMAIN ctx' = DOMAIN ctx
    /\ \A k \in 1 .. Top : k # Top => ctx'[k] = ctx[k]
    /\ Running'.who = Running.who /\ Running' = ctx'[Top]
    /\ Running' \in Frame => ctx' \in Seq(Frame)

\* A step that changes the running context alone.
LEMMA GoesFacts ==
  ASSUME Managed, IInv, NEW g, Goes(g)
  PROVE  /\ Top' = Top /\ DOMAIN ctx' = DOMAIN ctx
         /\ \A k \in 1 .. Top : k # Top => ctx'[k] = ctx[k]
         /\ Running' = g /\ ctx'[Top] = g
         /\ g \in Frame => ctx' \in Seq(Frame)
<1>1. ctx \in Seq(Frame) /\ Top \in Nat \ {0} /\ DOMAIN ctx = 1 .. Top
  BY StackFacts DEF IInv, TypeOK
<1>2. ctx' = [ctx EXCEPT ![Top] = g]
  BY DEF Goes, Top
<1>3. Top' = Top /\ DOMAIN ctx' = DOMAIN ctx
  BY <1>1, <1>2 DEF Top
<1>4. \A k \in 1 .. Top : k # Top => ctx'[k] = ctx[k]
  BY <1>1, <1>2
<1>8. ctx'[Top] = g
  <2>1. Top \in DOMAIN ctx
    BY <1>1
  <2> QED BY ONLY <2>1, <1>2
<1>5. Running' = ctx'[Top']
  BY DEF Running, Last, Top
<1>6. g \in Frame => ctx' \in Seq(Frame)
  BY <1>1, <1>2
<1>7. ctx'[Top] = g /\ Running' = g
  BY <1>3, <1>5, <1>8, Zenon
<1> QED BY <1>3, <1>4, <1>6, <1>7, Zenon

\* The registers and the context after an instruction.
LEMMA Executing ==
  ASSUME Managed, IInv, Execute, NEW o, NEW a, Head(Running.code) = <<o, a>>
  PROVE  /\ o \notin Jumps /\ GoesOn
         /\ Does(Running, Running', o, a, hw.basepri, hw'.basepri, hw.saved_iipm, hw'.saved_iipm,
                 hw.lock_flag, hw'.lock_flag, Mask,
                 IF o \in {"set_dspflg", "clr_dspflg"} THEN MaskOf(a) ELSE Mask,
                 Settled, Settled')
<1> DEFINE f == Running
           g == [Rest EXCEPT !.iipm  = IF o = "get_basepri" THEN hw.basepri
                                       ELSE IF o = "save_iipm" THEN 0 ELSE @,
                             !.entry = IF o = "push_basepri" THEN hw.basepri ELSE @,
                             !.ipm   = IF o \in {"set_dspflg", "clr_dspflg"} THEN a ELSE @]
<1>1. f \in Frame /\ f.code # <<>> /\ o = Head(f.code)[1] /\ a = Head(f.code)[2]
  BY StackFacts DEF Execute
<1>2. /\ o \notin Jumps /\ hw' = After(o, a) /\ Goes(g)
      /\ \E t \in ScheduledBy(o) :
             tsk' = [tsk EXCEPT !.schedtsk = t,
                                !.dspflg = (@ \/ o = "set_dspflg") /\ o # "clr_dspflg"]
  BY <1>1, Zenon DEF Execute
<1>3. Running' = g /\ GoesOn
  <2>1. Running' = g
    BY <1>2, GoesFacts
  <2>2. g.who = f.who
    BY <1>1 DEF Frame, Rest
  <2> HIDE DEF g
  <2> QED BY <1>2, <2>1, <2>2, GoesFacts, StackFacts DEF GoesOn
<1>4. Executes(f, g, o, a, hw.basepri)
  <2>1. /\ g.who = f.who /\ g.lock = f.lock /\ g.flag = f.flag /\ g.code = Tail(f.code)
        /\ g.iipm  = IF o = "get_basepri" THEN hw.basepri ELSE IF o = "save_iipm" THEN 0 ELSE f.iipm
        /\ g.entry = IF o = "push_basepri" THEN hw.basepri ELSE f.entry
        /\ g.ipm   = IF o \in {"set_dspflg", "clr_dspflg"} THEN a ELSE f.ipm
    BY <1>1 DEF Frame, Rest
  <2> HIDE DEF g
  <2> QED BY <1>1, <2>1 DEF Executes, Same
<1>5. Registers(f, Mask, Settled)
  <2>1. f.who = "thread" => Mask = MaskOf(f.ipm)
    BY StackFacts DEF Mask
  <2>2. f.who = "exc" => f.entry = 0 /\ ~f.flag /\ Mask = 0
    BY <1>1, ExceptionCalls
  <2>3. f.who \in IntNo => Begins(f.code, "push_basepri", 0) \/ f.entry = Mask
    <3>1. Top \in 1 .. Top /\ f = ctx[Top]
      BY StackFacts
    <3> QED BY <3>1 DEF IInv, StackOK
  <2> QED BY <1>1, <2>1, <2>2, <2>3, StackFacts DEF Registers
<1>6. /\ hw'.basepri = BasepriAfter(f, o, a, hw.basepri, hw.saved_iipm)
      /\ hw'.saved_iipm = SavedAfter(f, o, a, hw.saved_iipm)
      /\ hw'.lock_flag = IF o = "lock_flag" THEN a ELSE hw.lock_flag
  <2>1. ~V6
    BY DEF Managed
  <2>2. hw' = After(o, a)
    BY <1>2
  <2>3. hw \in Cpu
    BY DEF IInv, TypeOK
  <2> QED BY <2>1, <2>2, <2>3 DEF Cpu, After, BasepriAfter, SavedAfter, disable_int, enable_int
<1>7. Settled \in BOOLEAN /\ Settled' \in BOOLEAN
  BY DEF Settled
<1>8. o \notin {"ready", "wait", "terminate", "set_dspflg"} \/ (o = "ready" /\ Mask # 0) => Settled' = Settled
  <2>1. PICK t \in ScheduledBy(o) :
             tsk' = [tsk EXCEPT !.schedtsk = t,
                                !.dspflg = (@ \/ o = "set_dspflg") /\ o # "clr_dspflg"]
    BY <1>2, Zenon
  <2>2. Mask # 0 => ~tsk.dspflg
    BY StackFacts DEF IInv, MaskOK
  <2>3. o \notin {"ready", "wait", "terminate", "set_dspflg"} \/ (o = "ready" /\ Mask # 0) => t = tsk.schedtsk
    BY <2>1, <2>2 DEF ScheduledBy
  <2>4. tsk'.runtsk = tsk.runtsk /\ tsk'.schedtsk = t
    BY <2>1 DEF IInv, TypeOK
  <2> QED BY <2>3, <2>4 DEF Settled
<1> HIDE DEF g
<1> QED BY <1>2, <1>3, <1>4, <1>5, <1>6, <1>7, <1>8 DEF Does

\* And it is at a right point of its code then, with the mask m2.
GoesRight(m2) ==
    /\ Running.who \in IntNo => \/ Begins(Running'.code, "push_basepri", 0)
                                \/ Running'.entry = Mask
    /\ PointOf(Running', hw'.basepri, hw'.lock_flag, m2, hw'.saved_iipm, Settled', Kind')

ExceptionRight ==
    /\ Running'.entry = Running.entry /\ Running'.flag = Running.flag /\ ~Running'.lock
    /\ Running'.code # <<>> => Top = 2 /\ Running.entry = 0
    /\ PointOf(ctx[Top - 1], Running.entry, Running.flag, Mask,
               hw'.saved_iipm, Settled', Kind')

\* The stack after such a step, when the context is at a right point.
LEMMA Moves ==
  ASSUME Managed, IInv, GoesOn, GoesRight(Mask'), Running.who = "exc" => ExceptionRight,
         Top # 1 => Mask' = Mask
  PROVE  StackOK' /\ PointsOK'
<1>0. /\ Top \in Nat \ {0} /\ DOMAIN ctx = 1 .. Top /\ Running = ctx[Top]
      /\ ctx[1].who = "thread"
  BY StackFacts
<1>1. /\ Top' = Top /\ DOMAIN ctx' = 1 .. Top
      /\ \A k \in 1 .. Top : k # Top => ctx'[k] = ctx[k]
      /\ Running'.who = Running.who /\ Running' = ctx'[Top]
  BY <1>0 DEF GoesOn
<1>2. \A k \in 1 .. Top : ctx'[k].who = ctx[k].who
  BY <1>0, <1>1
<1>3. StackOK'
  <2>1. ctx' # <<>>
    BY <1>0, <1>1
  <2>2. ASSUME NEW k \in 1 .. Top
        PROVE  /\ (ctx'[k].who = "thread") = (k = 1)
               /\ ctx'[k].who = "PendSV" => k = 2
               /\ ctx'[k].who = "exc" => k = Top /\ ~ctx'[k].lock
               /\ ctx'[k].who \in IntNo => \/ Begins(ctx'[k].code, "push_basepri", 0)
                                           \/ ctx'[k].entry = Mask'
    <3>1. /\ (ctx[k].who = "thread") = (k = 1)
          /\ ctx[k].who = "PendSV" => k = 2
          /\ ctx[k].who = "exc" => k = Top /\ ~ctx[k].lock
          /\ ctx[k].who \in IntNo => \/ Begins(ctx[k].code, "push_basepri", 0)
                                     \/ ctx[k].entry = Mask
      BY DEF IInv, StackOK
    <3>2. ctx'[k].who = ctx[k].who
      BY <1>2
    <3>3. ctx[k].who \in IntNo => Mask' = Mask
      <4>1. ctx[k].who \in IntNo => k # 1
        BY <1>0, Whos
      <4> QED BY <1>0, <4>1
    <3>4. CASE k = Top
      BY <1>0, <1>1, <3>1, <3>2, <3>3, <3>4 DEF GoesRight, ExceptionRight
    <3>5. CASE k # Top
      BY <1>1, <3>1, <3>3, <3>5
    <3> QED BY <3>4, <3>5
  <2> QED BY <1>1, <2>1, <2>2 DEF StackOK
<1>4. PointsOK'
  <2>1. Point(Top, hw.basepri, hw.lock_flag)'
    BY <1>1 DEF Point, GoesRight
  <2>2. ASSUME Running'.who = "exc"
        PROVE  /\ Point(Top - 1, Running.entry, Running.flag)'
               /\ Running'.code # <<>> => Top' = 2 /\ Running'.entry = 0
    <3>1. Running.who = "exc"
      BY <1>1, <2>2
    <3>2. Top # 1
      BY <1>0, <3>1
    <3>3. Mask' = Mask /\ Top - 1 \in 1 .. Top /\ Top - 1 # Top
      BY <1>0, <3>2
    <3>4. ctx'[Top - 1] = ctx[Top - 1]
      BY <1>1, <3>3
    <3>5. PointOf(ctx'[Top' - 1], Running'.entry, Running'.flag, Mask',
                  hw'.saved_iipm, Settled', Kind')
      BY <1>1, <3>1, <3>3, <3>4 DEF ExceptionRight
    <3> QED BY <1>1, <3>1, <3>5 DEF Point, ExceptionRight
  <2>3. ASSUME NEW k \in 1 .. Top,
               k < (IF Running'.who = "exc" THEN Top - 1 ELSE Top)
        PROVE  Unlocked(ctx'[k], Mask')
    <3>1. Unlocked(ctx[k], Mask)
      BY <1>0, <1>1, <2>3 DEF IInv, PointsOK
    <3>2. k # Top /\ Top # 1
      BY <1>0, <2>3
    <3> QED BY <1>1, <3>1, <3>2
  <2> QED BY <1>1, <2>1, <2>2, <2>3 DEF PointsOK
<1> QED BY <1>3, <1>4

\* What an instruction leads to, wherever the running context is.
LEMMA ExecuteStep ==
  ASSUME Managed, IInv, Execute, ~AcceptsPendSV, NEW o, NEW a, NEW m2,
         Head(Running.code) = <<o, a>>,
         m2 = IF o \in {"set_dspflg", "clr_dspflg"} THEN MaskOf(a) ELSE Mask
  PROVE  StepOK(Running, Running', o, a, hw'.basepri, hw'.lock_flag, Mask, m2,
                hw'.saved_iipm, Settled', Kind)
<1> DEFINE l == hw.lock_flag
           P(l1) == Does(Running, Running', o, a, hw.basepri, hw'.basepri, hw.saved_iipm,
                         hw'.saved_iipm, l1, hw'.lock_flag, Mask, m2, Settled, Settled')
<1>1. P(l)
  BY Executing
<1>2. Running.code # <<>> /\ Running = ctx[Top] /\ l \in BOOLEAN
  BY StackFacts DEF Execute, IInv, TypeOK, Cpu
<1>3. PointOf(Running, hw.basepri, l, Mask, hw.saved_iipm, Settled, Kind)
  BY <1>2 DEF IInv, PointsOK, Point
<1>4. Mask # 0 => Settled
  BY StackFacts
<1> HIDE DEF P
<1>5. CASE Unlocked(Running, Mask) /\ hw.basepri = Mask /\ hw.saved_iipm = Mask /\ ~l
  <2>1. Running.who = "thread" => Settled
    BY <1>5, RunsRight
  <2>2. /\ o \notin Kernel \cup IntOps /\ (o = "lock_flag" => ~a) /\ hw'.saved_iipm = hw.saved_iipm
        /\ \/ Unlocked(Running', Mask) /\ hw'.basepri = Mask
           \/ MaskRaised(Running', Mask, Settled, Kind) /\ hw'.basepri \in 1 .. IIPM_LOCK
        /\ Running.who \in IntNo => Running'.entry = Mask
    BY <1>1, <1>5, <2>1, FromUnlocked DEF P
  <2>3. m2 = Mask /\ Settled' = Settled /\ ~hw'.lock_flag
    BY <1>1, <1>5, <2>2 DEF P, Does, Kernel
  <2>4. PointOf(Running', hw'.basepri, hw'.lock_flag, m2, hw'.saved_iipm, Settled', Kind)
    BY <1>5, <2>2, <2>3 DEF PointOf
  <2> QED BY <1>4, <1>5, <2>1, <2>2, <2>3, <2>4 DEF StepOK, Kernel
<1>6. CASE MaskRaised(Running, Mask, Settled, Kind) /\ hw.basepri \in 1 .. IIPM_LOCK
           /\ hw.saved_iipm = Mask /\ ~l
  <2>1. l = FALSE
    BY <1>2, <1>6
  <2> QED BY <1>1, <1>6, <2>1, FromRaised DEF P
<1>7. CASE Locked(Running, Mask, hw.saved_iipm, Settled, Kind)
           /\ hw.basepri \in 1 .. IIPM_LOCK /\ l
  <2>1. P(TRUE)
    BY <1>1, <1>2, <1>7
  <2> QED BY <1>7, <2>1, FromLocked DEF P
<1> QED BY <1>2, <1>3, <1>5, <1>6, <1>7 DEF PointOf

\* What an instruction does to the task and to the mask of the thread.
Executed(o, a, m2) ==
    /\ Running.code # <<>> /\ <<o, a>> \in Instruction /\ hw' = After(o, a)
    /\ \E t \in ScheduledBy(o) :
          tsk' = [tsk EXCEPT !.schedtsk = t,
                             !.dspflg = (@ \/ o = "set_dspflg") /\ o # "clr_dspflg"]
    /\ disabled' = IF o = "dis_int" THEN disabled \cup {a}
                   ELSE IF o = "ena_int" THEN disabled \ {a} ELSE disabled
    /\ Kind' = Kind /\ Mask' = m2 /\ m2 \in 0 .. 255
    /\ ctx'[1].ipm = IF o \in {"set_dspflg", "clr_dspflg"} THEN a ELSE ctx[1].ipm

\* What is known of the state after an instruction.
LEMMA ExecuteFacts ==
  ASSUME Managed, IInv, Execute, ~AcceptsPendSV, NEW o, NEW a, NEW m2,
         Head(Running.code) = <<o, a>>,
         m2 = IF o \in {"set_dspflg", "clr_dspflg"} THEN MaskOf(a) ELSE Mask
  PROVE  Executed(o, a, m2)
<1>1. Running \in Frame /\ Running.code # <<>> /\ Top \in Nat \ {0} /\ Running = ctx[Top]
  BY StackFacts DEF Execute
<1>2. <<o, a>> \in Instruction
  <2>1. Running.code \in Seq(Instruction)
    BY <1>1 DEF Frame
  <2>2. Head(Running.code) \in Instruction
    BY <1>1, <2>1
  <2> QED BY <2>2
<1>3. o = Head(Running.code)[1] /\ a = Head(Running.code)[2]
  OBVIOUS
<1>4. /\ hw' = After(o, a)
      /\ \E t \in ScheduledBy(o) :
               tsk' = [tsk EXCEPT !.schedtsk = t,
                                  !.dspflg = (@ \/ o = "set_dspflg") /\ o # "clr_dspflg"]
      /\ disabled' = IF o = "dis_int" THEN disabled \cup {a}
                     ELSE IF o = "ena_int" THEN disabled \ {a} ELSE disabled
  BY <1>3, Zenon DEF Execute
<1>5. Kind' = Kind
  <2>1. tsk'.runtsk = tsk.runtsk /\ tsk'.saved = tsk.saved
    BY <1>4 DEF IInv, TypeOK
  <2> QED BY <2>1 DEF Kind
<1>6. GoesOn /\ Executes(Running, Running', o, a, hw.basepri)
  BY Executing DEF Does
<1>7. /\ o \in {"set_dspflg", "clr_dspflg"} => Running.who = "thread"
      /\ o = "set_dspflg" => a = TIPM_ENAALL
      /\ o = "clr_dspflg" => a \in Masks
  BY ExecuteStep DEF StepOK
<1>8. ctx'[1].ipm = IF o \in {"set_dspflg", "clr_dspflg"} THEN a ELSE ctx[1].ipm
  <2>1. CASE Top = 1
    <3>1. ctx'[1] = Running' /\ ctx[1] = Running
      BY <1>1, <1>6, <2>1 DEF GoesOn
    <3>2. Running'.ipm = IF o \in {"set_dspflg", "clr_dspflg"} THEN a ELSE Running.ipm
      BY <1>6 DEF Executes
    <3> QED BY <3>1, <3>2, Zenon
  <2>2. CASE Top # 1
    <3>1. 1 \in 1 .. Top
      BY <1>1
    <3>2. ctx'[1] = ctx[1]
      BY <1>6, <2>2, <3>1 DEF GoesOn
    <3>3. o \notin {"set_dspflg", "clr_dspflg"}
      BY <1>7, <2>2, StackFacts
    <3> QED BY <3>2, <3>3
  <2> QED BY <2>1, <2>2
<1>9. Mask' = m2
  BY <1>8 DEF Mask
<1>10. m2 \in 0 .. 255
  <2>1. Mask \in 0 .. 255
    BY StackFacts
  <2>2. o \in {"set_dspflg", "clr_dspflg"} => MaskOf(a) \in 0 .. 255
    BY <1>7, Levels DEF Masks
  <2> QED BY <2>1, <2>2
<1> QED BY <1>1, <1>2, <1>4, <1>5, <1>8, <1>9, <1>10, Zenon DEF Executed

\* An exception handler does not push BASEPRI.
LEMMA NoPush ==
  ASSUME Managed, NEW f, NEW b, NEW l, NEW m, NEW s, NEW z, NEW r, PointOf(f, b, l, m, s, z, r),
         f.who = "exc", f.code # <<>>
  PROVE  ~\E a : Begins(f.code, "push_basepri", a)
<1> SUFFICES ASSUME NEW a, Begins(f.code, "push_basepri", a)
             PROVE  FALSE
  OBVIOUS
<1>1. \A p, d : Begins(f.code, p, d) => p = "push_basepri"
  BY DEF Begins
<1>2. Head(f.code) \notin IntOps \X IntNo /\ f.who \notin IntNo
  BY Whos DEF Begins, IntOps
<1>3. ~Unlocked(f, m)
  BY <1>1, <1>2 DEF Unlocked, Reads, Locks
<1>4. ~MaskRaised(f, m, z, r)
  BY <1>1, <1>2 DEF MaskRaised, Saves, Flags, Restores
<1>5. ~Locked(f, m, s, z, r)
  BY <1>1, <1>2 DEF Locked, Body, Unlocks, Requests
<1> QED BY <1>3, <1>4, <1>5 DEF PointOf

\* The contexts are at right points after an instruction.
LEMMA ExecuteStack ==
  ASSUME Managed, IInv, Execute, ~AcceptsPendSV, NEW o, NEW a, Head(Running.code) = <<o, a>>
  PROVE  StackOK' /\ PointsOK'
<1>0. PICK m2 : m2 = IF o \in {"set_dspflg", "clr_dspflg"} THEN MaskOf(a) ELSE Mask
  OBVIOUS
<1>1. /\ StepOK(Running, Running', o, a, hw'.basepri, hw'.lock_flag, Mask, m2,
                hw'.saved_iipm, Settled', Kind)
      /\ Kind' = Kind /\ Mask' = m2
  <2>1. StepOK(Running, Running', o, a, hw'.basepri, hw'.lock_flag, Mask, m2,
               hw'.saved_iipm, Settled', Kind)
    BY <1>0, ExecuteStep
  <2>2. Executed(o, a, m2)
    BY <1>0, ExecuteFacts
  <2> QED BY <2>1, <2>2 DEF Executed
<1>2. GoesOn /\ Executes(Running, Running', o, a, hw.basepri)
  BY Executing DEF Does
<1>3. Running.code # <<>>
  BY DEF Execute
<1>4. Top # 1 => m2 = Mask
  BY <1>0, <1>1, StackFacts DEF StepOK
<1>5. GoesRight(Mask')
  BY <1>1 DEF GoesRight, StepOK
<1>6. ASSUME Running.who = "exc"
      PROVE  ExceptionRight
  <2>1. /\ Top = 2 /\ Running.entry = 0 /\ ~Running.flag
        /\ Unlocked(ctx[1], Mask) /\ Mask = 0
    BY <1>3, <1>6, ExceptionCalls
  <2>2. hw'.saved_iipm = Mask
    BY <1>1, <1>6 DEF StepOK
  <2>3. PointOf(ctx[1], Running.entry, Running.flag, Mask, hw'.saved_iipm, Settled', Kind')
    BY <2>1, <2>2 DEF PointOf
  <2>4. Running'.entry = Running.entry /\ Running'.flag = Running.flag /\ ~Running'.lock
    <3>1. ~\E d : Begins(Running.code, "push_basepri", d)
      <4>1. PointOf(Running, hw.basepri, hw.lock_flag, Mask, hw.saved_iipm, Settled, Kind)
        BY StackFacts DEF IInv, PointsOK, Point
      <4> QED BY <1>3, <1>6, <4>1, NoPush
    <3>2. o # "push_basepri" => Running'.entry = Running.entry
      BY <1>2, Keeps
    <3>3. Running'.entry = 0
      <4>1. CASE o # "push_basepri"
        BY <2>1, <3>2, <4>1
      <4>2. CASE o = "push_basepri"
        BY <3>1, <1>3, <4>2 DEF Begins
      <4> QED BY <4>1, <4>2
    <3>4. ~Running.lock
      <4>1. Running = ctx[Top] /\ Top \in 1 .. Top
        BY StackFacts
      <4> QED BY <1>6, <4>1 DEF IInv, StackOK
    <3> QED BY <1>2, <2>1, <3>3, <3>4, Keeps DEF Same
  <2>5. Top - 1 = 1
    BY <2>1
  <2> QED BY <2>1, <2>3, <2>4, <2>5 DEF ExceptionRight
<1> QED BY <1>1, <1>2, <1>4, <1>5, <1>6, Moves

\* The registers after an instruction.
LEMMA AfterTypes ==
  ASSUME Managed, hw \in Cpu, NEW o, NEW a, <<o, a>> \in Instruction,
         After(o, a).basepri \in 0 .. 255, After(o, a).saved_iipm \in 0 .. 255
  PROVE  /\ After(o, a) \in Cpu
         /\ After(o, a).ena = IF o = "dis_int" THEN hw.ena \ {a}
                              ELSE IF o = "ena_int" THEN hw.ena \cup {a} ELSE hw.ena
         /\ After(o, a).pendsv = IF o = "request" THEN hw.pendsv \/ tsk.runtsk # tsk.schedtsk
                                 ELSE hw.pendsv
<1> DEFINE h == After(o, a)
<1>0. ~V6
  BY DEF Managed
<1>1. o \notin {"CLRENA", "SETENA", "SETENA_current", "current"}
  BY DEF Instruction, Numeric, Jumps, IntOps
<1>2. (o = "lock_flag" => a \in BOOLEAN) /\ (o \in IntOps => a \in IntNo)
  BY DEF Instruction, Numeric, Jumps, IntOps
<1>3. CASE o \in {"basepri_max", "basepri", "restore_iipm", "pop_basepri"}
  <2>1. \E v : h = [hw EXCEPT !.basepri = v]
    BY <1>3 DEF After
  <2> HIDE DEF h
  <2>2. h.basepri \in 0 .. 255
    BY DEF h
  <2>3. h \in Cpu /\ h.ena = hw.ena /\ h.pendsv = hw.pendsv
    BY <2>1, <2>2 DEF Cpu
  <2> QED BY <1>3, <2>3 DEF h
<1>4. CASE o \in {"saved_iipm", "save_iipm"}
  <2>1. \E v : h = [hw EXCEPT !.saved_iipm = v]
    BY <1>4 DEF After
  <2> HIDE DEF h
  <2>2. h.saved_iipm \in 0 .. 255
    BY DEF h
  <2>3. h \in Cpu /\ h.ena = hw.ena /\ h.pendsv = hw.pendsv
    BY <2>1, <2>2 DEF Cpu
  <2> QED BY <1>4, <2>3 DEF h
<1>5. CASE o = "lock_flag"
  <2>1. h = [hw EXCEPT !.lock_flag = a]
    BY <1>5 DEF After
  <2>3. h \in Cpu /\ h.ena = hw.ena /\ h.pendsv = hw.pendsv
    BY <1>2, <1>5, <2>1 DEF Cpu
  <2> QED BY <1>5, <2>3
<1>6. CASE o \in IntOps
  <2>0. a \in IntNo
    BY <1>2, <1>6
  <2>1. o = "dis_int" => h = [hw EXCEPT !.ena = @ \ {a}]
    BY <1>0 DEF After, disable_int
  <2>2. o = "ena_int" => h = [hw EXCEPT !.ena = @ \cup {a}]
    BY <1>0 DEF After, enable_int
  <2>3. o = "ras_int" => h = [hw EXCEPT !.pend = @ \cup {a}]
    BY DEF After
  <2>4. o = "clr_int" => h = [hw EXCEPT !.pend = @ \ {a}]
    BY DEF After
  <2> HIDE DEF h
  <2>5. CASE o = "dis_int"
    <3>0. PICK e : e = hw.ena \ {a}
      OBVIOUS
    <3>2. e \in SUBSET IntNo
      BY <3>0 DEF Cpu
    <3>3. h = [hw EXCEPT !.ena = e]
      BY <2>1, <2>5, <3>0
    <3>4. h \in Cpu /\ h.ena = e /\ h.pendsv = hw.pendsv
      BY <3>2, <3>3 DEF Cpu
    <3>1. h \in Cpu /\ h.ena = hw.ena \ {a} /\ h.pendsv = hw.pendsv
      BY <3>0, <3>4
    <3> QED BY <2>5, <3>1 DEF h
  <2>6. CASE o = "ena_int"
    <3>0. PICK e : e = hw.ena \cup {a}
      OBVIOUS
    <3>2. e \in SUBSET IntNo
      BY <2>0, <3>0 DEF Cpu
    <3>3. h = [hw EXCEPT !.ena = e]
      BY <2>2, <2>6, <3>0
    <3>4. h \in Cpu /\ h.ena = e /\ h.pendsv = hw.pendsv
      BY <3>2, <3>3 DEF Cpu
    <3>1. h \in Cpu /\ h.ena = hw.ena \cup {a} /\ h.pendsv = hw.pendsv
      BY <3>0, <3>4
    <3> QED BY <2>6, <3>1 DEF h
  <2>7. CASE o \in {"ras_int", "clr_int"}
    <3>2. \E p \in SUBSET IntNo : h = [hw EXCEPT !.pend = p]
      <4>1. hw.pend \cup {a} \in SUBSET IntNo /\ hw.pend \ {a} \in SUBSET IntNo
        BY <2>0 DEF Cpu
      <4> QED BY <2>3, <2>4, <2>7, <4>1
    <3>3. PICK p \in SUBSET IntNo : h = [hw EXCEPT !.pend = p]
      BY <3>2
    <3>1. h \in Cpu /\ h.ena = hw.ena /\ h.pendsv = hw.pendsv
      BY <3>3 DEF Cpu
    <3> QED BY <2>7, <3>1 DEF h
  <2> QED BY <1>6, <2>5, <2>6, <2>7 DEF IntOps
<1>7. CASE o = "request"
  <2>1. h = [hw EXCEPT !.pendsv = @ \/ tsk.runtsk # tsk.schedtsk]
    BY <1>7 DEF After
  <2>2. h \in Cpu /\ h.ena = hw.ena /\ h.pendsv = (hw.pendsv \/ tsk.runtsk # tsk.schedtsk)
    BY <2>1 DEF Cpu
  <2> QED BY <1>7, <2>2
<1>8. CASE o \notin {"basepri_max", "basepri", "restore_iipm", "pop_basepri", "saved_iipm",
                     "save_iipm", "lock_flag", "request"} \cup IntOps
  <2>1. h = hw
    BY <1>1, <1>8 DEF After, IntOps
  <2> QED BY <1>8, <2>1 DEF IntOps
<1> QED BY <1>3, <1>4, <1>5, <1>6, <1>7, <1>8

\* The frame of the running context stays well-formed.
LEMMA ExecuteTypes ==
  ASSUME Managed, IInv, Execute, ~AcceptsPendSV, NEW o, NEW a, Head(Running.code) = <<o, a>>
  PROVE  TypeOK' /\ MaskOK'
<1>0. PICK m2 : m2 = IF o \in {"set_dspflg", "clr_dspflg"} THEN MaskOf(a) ELSE Mask
  OBVIOUS
<1>1. StepOK(Running, Running', o, a, hw'.basepri, hw'.lock_flag, Mask, m2,
             hw'.saved_iipm, Settled', Kind)
  BY <1>0, ExecuteStep
<1>2. Executed(o, a, m2)
  BY <1>0, ExecuteFacts
<1>a. Running.code # <<>> /\ <<o, a>> \in Instruction /\ hw' = After(o, a)
  BY <1>2 DEF Executed
<1>b. \E t \in ScheduledBy(o) :
            tsk' = [tsk EXCEPT !.schedtsk = t,
                               !.dspflg = (@ \/ o = "set_dspflg") /\ o # "clr_dspflg"]
  BY <1>2, Zenon DEF Executed
<1>c. disabled' = IF o = "dis_int" THEN disabled \cup {a}
                  ELSE IF o = "ena_int" THEN disabled \ {a} ELSE disabled
  BY <1>2, Zenon DEF Executed
<1>d. Mask' = m2 /\ m2 \in 0 .. 255
  BY <1>2 DEF Executed
<1>e. ctx'[1].ipm = IF o \in {"set_dspflg", "clr_dspflg"} THEN a ELSE ctx[1].ipm
  BY <1>2, Zenon DEF Executed
<1>3. /\ Top \in Nat \ {0} /\ Running \in Frame /\ Mask \in 0 .. 255 /\ IIPM_LOCK \in 1 .. 255
      /\ \A ipm \in Masks : MaskOf(ipm) \in 0 .. 255
      /\ hw \in Cpu
  BY StackFacts, Levels DEF Masks, IInv, TypeOK
<1>4. Running' \in Frame
  <2> DEFINE g == [Rest EXCEPT !.iipm  = IF o = "get_basepri" THEN hw.basepri
                                         ELSE IF o = "save_iipm" THEN 0 ELSE @,
                               !.entry = IF o = "push_basepri" THEN hw.basepri ELSE @,
                               !.ipm   = IF o \in {"set_dspflg", "clr_dspflg"} THEN a ELSE @]
  <2>1. o = Head(Running.code)[1] /\ a = Head(Running.code)[2]
    OBVIOUS
  <2>2. Goes(g)
    BY <2>1, Zenon DEF Execute
  <2>3. Running' = g
    BY <2>2, GoesFacts
  <2>4. Tail(Running.code) \in Seq(Instruction)
    BY <1>a, <1>3 DEF Frame
  <2>5. o \in {"set_dspflg", "clr_dspflg"} => a \in Ipms \cup {TIPM_ENAALL}
    BY <1>1 DEF StepOK, Masks
  <2>6. hw.basepri \in 0 .. 255
    BY <1>3 DEF Cpu
  <2>7. g \in Frame
    <3>1. \E i, e, p : /\ i \in 0 .. 255 /\ e \in 0 .. 255 /\ p \in Ipms \cup {TIPM_ENAALL}
                       /\ g = [Running EXCEPT !.code = Tail(@), !.iipm = i, !.entry = e, !.ipm = p]
      <4>1. PICK i : i = IF o = "get_basepri" THEN hw.basepri
                         ELSE IF o = "save_iipm" THEN 0 ELSE Running.iipm
        OBVIOUS
      <4>2. PICK e : e = IF o = "push_basepri" THEN hw.basepri ELSE Running.entry
        OBVIOUS
      <4>3. PICK p : p = IF o \in {"set_dspflg", "clr_dspflg"} THEN a ELSE Running.ipm
        OBVIOUS
      <4>4. i \in 0 .. 255 /\ e \in 0 .. 255 /\ p \in Ipms \cup {TIPM_ENAALL}
        BY <1>3, <2>5, <2>6, <4>1, <4>2, <4>3 DEF Frame
      <4>5. g = [Running EXCEPT !.code = Tail(@), !.iipm = i, !.entry = e, !.ipm = p]
        BY <1>3, <4>1, <4>2, <4>3 DEF Frame, Rest
      <4> HIDE DEF g
      <4> QED BY <4>4, <4>5, Zenon
    <3> HIDE DEF g
    <3>2. PICK i, e, p : /\ i \in 0 .. 255 /\ e \in 0 .. 255 /\ p \in Ipms \cup {TIPM_ENAALL}
                         /\ g = [Running EXCEPT !.code = Tail(@), !.iipm = i, !.entry = e, !.ipm = p]
      BY <3>1, Zenon
    <3>3. Running \in Frame
      BY <1>3
    <3> QED BY <3>3, <2>4, <3>2 DEF Frame
  <2> QED BY <2>3, <2>7
<1>5. hw'.basepri \in 0 .. 255 /\ hw'.saved_iipm \in 0 .. 255
  <2>1. PointOf(Running', hw'.basepri, hw'.lock_flag, m2, hw'.saved_iipm, Settled', Kind)
    BY <1>1 DEF StepOK
  <2>2. Running'.entry \in 0 .. 255 /\ Running'.who = Running.who
    BY <1>4, Executing DEF Frame, GoesOn
  <2>3. hw'.basepri \in 0 .. 255
    <3>1. \/ hw'.basepri = m2 \/ hw'.basepri \in 1 .. IIPM_LOCK
          \/ hw'.basepri = Running'.entry
      BY <2>1, Zenon DEF PointOf
    <3>2. m2 \in 0 .. 255 /\ IIPM_LOCK \in 1 .. 255
      BY <1>d, <1>3
    <3>3. \A b \in 1 .. IIPM_LOCK : b \in 0 .. 255
      BY <3>2
    <3> QED BY <2>2, <3>1, <3>2, <3>3
  <2>4. CASE Running.who = "thread"
    <3>1. hw'.saved_iipm = 0 \/ hw'.saved_iipm = m2 \/ \E ipm \in Masks : hw'.saved_iipm = MaskOf(ipm)
      BY <2>1, <2>2, <2>4 DEF PointOf, Locked
    <3>2. 0 \in 0 .. 255
      OBVIOUS
    <3>3. m2 \in 0 .. 255 /\ \A ipm \in Masks : MaskOf(ipm) \in 0 .. 255
      BY <1>d, <1>3
    <3>4. ASSUME NEW ipm \in Masks, hw'.saved_iipm = MaskOf(ipm)
          PROVE  hw'.saved_iipm \in 0 .. 255
      BY <3>3, <3>4
    <3> QED BY <2>3, <3>1, <3>2, <3>3, <3>4
  <2>5. CASE Running.who # "thread"
    <3>1. hw'.saved_iipm = Mask
      BY <1>1, <2>5 DEF StepOK
    <3> QED BY <1>3, <2>3, <3>1
  <2> QED BY <2>3, <2>4, <2>5
<1>6. /\ hw' \in Cpu
      /\ hw'.ena = IF o = "dis_int" THEN hw.ena \ {a}
                   ELSE IF o = "ena_int" THEN hw.ena \cup {a} ELSE hw.ena
  BY <1>a, <1>3, <1>5, AfterTypes
<1>7. o \in {"dis_int", "ena_int"} => a \in IntNo
  BY <1>1 DEF StepOK, IntOps
<1>8. hw.ena = IntNo \ disabled /\ disabled \subseteq IntNo
  BY DEF IInv, TypeOK, MaskOK
<1>9. hw'.ena = IntNo \ disabled' /\ disabled' \subseteq IntNo
  BY <1>c, <1>6, <1>7, <1>8
<1>10. PICK t \in ScheduledBy(o) :
            tsk' = [tsk EXCEPT !.schedtsk = t,
                               !.dspflg = (@ \/ o = "set_dspflg") /\ o # "clr_dspflg"]
  BY <1>b, Zenon
<1>11. /\ tsk \in [runtsk : Task \cup {NULL}, schedtsk : Task \cup {NULL}, dspflg : BOOLEAN,
                   saved : [Task -> [exc : BOOLEAN, f : Frame]]]
  BY DEF IInv, TypeOK
<1>12. tsk' \in [runtsk : Task \cup {NULL}, schedtsk : Task \cup {NULL}, dspflg : BOOLEAN,
                 saved : [Task -> [exc : BOOLEAN, f : Frame]]]
  <2>1. t \in Task \cup {NULL}
    BY <1>10, <1>11 DEF ScheduledBy
  <2> QED BY <1>10, <1>11, <2>1
<1>13. TypeOK'
  <2>1. ctx' \in Seq(Frame)
    BY <1>4, Executing DEF GoesOn
  <2> QED BY <1>6, <1>9, <1>12, <2>1 DEF TypeOK
<1>14. MaskOK'
  <2>1. tsk'.dspflg = ((tsk.dspflg \/ o = "set_dspflg") /\ o # "clr_dspflg")
    BY <1>10, <1>11
  <2>2. tsk'.dspflg => ctx'[1].ipm = TIPM_ENAALL
    <3>1. o = "set_dspflg" => a = TIPM_ENAALL
      BY <1>1 DEF StepOK
    <3>2. tsk.dspflg => ctx[1].ipm = TIPM_ENAALL
      BY DEF IInv, MaskOK
    <3> QED BY <1>e, <2>1, <3>1, <3>2
  <2>3. ctx'[1].ipm # TIPM_ENAALL => Settled'
    <3>1. m2 # 0 => Settled'
      BY <1>1 DEF StepOK
    <3>2. ctx'[1].ipm \in Ipms \cup {TIPM_ENAALL}
      <4>1. 1 \in 1 .. Top' /\ ctx' \in Seq(Frame)
        BY <1>3, <1>13, Executing DEF GoesOn, TypeOK
      <4>2. ctx'[1] \in Frame
        BY <4>1 DEF Top
      <4> QED BY <4>2 DEF Frame
    <3>3. Mask' = MaskOf(ctx'[1].ipm)
      BY DEF Mask
    <3> QED BY <1>d, <3>1, <3>2, <3>3, Levels
  <2> QED BY <1>9, <2>2, <2>3 DEF MaskOK
<1> QED BY <1>13, <1>14

\* No instruction breaks the invariant.
LEMMA ExecuteKeeps ==
  ASSUME Managed, IInv, Execute, ~AcceptsPendSV
  PROVE  IInv'
<1>1. PICK o, a : Head(Running.code) = <<o, a>>
  <2>1. Running.code \in Seq(Instruction) /\ Running.code # <<>>
    BY StackFacts DEF Execute, Frame
  <2>2. Head(Running.code) \in Instruction
    BY <2>1
  <2> QED BY <2>2 DEF Instruction
<1>0. PICK m2 : m2 = IF o \in {"set_dspflg", "clr_dspflg"} THEN MaskOf(a) ELSE Mask
  OBVIOUS
<1>2. /\ StepOK(Running, Running', o, a, hw'.basepri, hw'.lock_flag, Mask, m2,
                hw'.saved_iipm, Settled', Kind)
      /\ Executed(o, a, m2)
  BY <1>0, <1>1, ExecuteStep, ExecuteFacts
<1>3. GoesOn /\ Does(Running, Running', o, a, hw.basepri, hw'.basepri, hw.saved_iipm,
                     hw'.saved_iipm, hw.lock_flag, hw'.lock_flag, Mask, m2, Settled, Settled')
  BY <1>0, <1>1, Executing
<1>4. TypeOK' /\ MaskOK' /\ StackOK' /\ PointsOK'
  BY <1>1, ExecuteTypes, ExecuteStack
<1>5. PICK t \in ScheduledBy(o) :
            tsk' = [tsk EXCEPT !.schedtsk = t,
                               !.dspflg = (@ \/ o = "set_dspflg") /\ o # "clr_dspflg"]
  BY <1>2, Zenon DEF Executed
<1>6. /\ tsk'.saved = tsk.saved /\ tsk'.runtsk = tsk.runtsk /\ tsk'.schedtsk = t
  BY <1>5 DEF IInv, TypeOK
<1>7. SavedOK'
  BY <1>6 DEF IInv, SavedOK
<1>8. RequestedOK'
  <2> SUFFICES ASSUME Unlocked(ctx'[1], Mask')
               PROVE  \/ Settled'
                      \/ hw'.pendsv
                      \/ Top' > 1 /\ ctx'[2].who = "PendSV"
                      \/ \E k \in 1 .. Top' : ctx'[k].code # <<>> /\ Head(ctx'[k].code)[1] = "request"
    BY DEF RequestedOK
  <2>1. /\ Top \in Nat \ {0} /\ Running = ctx[Top] /\ Top' = Top /\ Running' = ctx'[Top]
        /\ \A k \in 1 .. Top : k # Top => ctx'[k] = ctx[k]
        /\ Running'.who = Running.who /\ ctx[1].who = "thread"
    BY <1>3, StackFacts DEF GoesOn
  <2>2. CASE Top = 1
    <3>1. Running' = ctx'[1] /\ Running.who = "thread" /\ Mask' = m2
      BY <1>2, <2>1, <2>2 DEF Executed
    <3>2. Settled' \/ ~Unlocked(Running', m2)
      BY <1>2, <3>1 DEF StepOK
    <3> QED BY <3>1, <3>2
  <2>3. CASE Top # 1
    <3>1. Running.who # "thread" /\ 1 \in 1 .. Top /\ 2 \in 1 .. Top /\ Top \in 1 .. Top
      BY <2>1, <2>3, StackFacts
    <3>2. o \notin {"wait", "terminate", "set_dspflg", "clr_dspflg"}
      BY <1>2, <3>1 DEF StepOK
    <3>3. m2 = Mask /\ Mask' = m2 /\ ctx'[1] = ctx[1]
      BY <1>0, <1>2, <2>1, <2>3, <3>1, <3>2 DEF Executed
    <3>4. CASE o = "ready"
      <4>1. Begins(Running'.code, "request", 0)
        BY <1>2, <3>1, <3>4 DEF StepOK
      <4>2. Running'.code # <<>> /\ Head(Running'.code)[1] = "request"
        BY <4>1 DEF Begins
      <4> QED BY <2>1, <3>1, <4>2
    <3>5. CASE o = "request"
      <4>1. hw'.pendsv = (hw.pendsv \/ tsk.runtsk # tsk.schedtsk)
        <5>1. hw' = After(o, a)
          BY <1>2 DEF Executed
        <5> QED BY <3>5, <5>1 DEF After, IInv, TypeOK, Cpu
      <4>2. t = tsk.schedtsk
        BY <1>5, <3>5 DEF ScheduledBy
      <4> QED BY <1>6, <4>1, <4>2 DEF Settled
    <3>6. CASE o \notin {"ready", "request"}
      <4>1. Settled' = Settled
        BY <1>3, <3>2, <3>6 DEF Does
      <4>2. hw'.pendsv = hw.pendsv
        <5>1. hw' = After(o, a) /\ <<o, a>> \in Instruction
          BY <1>2 DEF Executed
        <5>2. hw' \in Cpu /\ hw \in Cpu
          BY <1>4 DEF IInv, TypeOK
        <5>3. hw'.basepri \in 0 .. 255 /\ hw'.saved_iipm \in 0 .. 255
          BY <5>2 DEF Cpu
        <5> QED BY <3>6, <5>1, <5>2, <5>3, AfterTypes
      <4>3. \/ Settled
            \/ hw.pendsv
            \/ Top > 1 /\ ctx[2].who = "PendSV"
            \/ \E k \in 1 .. Top : ctx[k].code # <<>> /\ Head(ctx[k].code)[1] = "request"
        <5>1. Unlocked(ctx[1], Mask)
          BY <3>3
        <5>2. RequestedOK
          BY DEF IInv
        <5> QED BY <5>1, <5>2, Zenon DEF RequestedOK
      <4>4. ctx'[2].who = ctx[2].who
        BY <2>1, <3>1
      <4>5. ASSUME NEW k \in 1 .. Top, ctx[k].code # <<>>, Head(ctx[k].code)[1] = "request"
            PROVE  ctx'[k] = ctx[k]
        <5>1. k # Top
          <6>1. Head(ctx[Top].code)[1] = o
            BY <1>1, <2>1
          <6> QED BY <3>6, <4>5, <6>1
        <5> QED BY <2>1, <5>1
      <4> QED BY <2>1, <4>1, <4>2, <4>3, <4>4, <4>5
    <3> QED BY <3>4, <3>5, <3>6
  <2> QED BY <2>2, <2>3
<1> QED BY <1>4, <1>7, <1>8 DEF IInv

-----------------------------------------------------------------------------
(* The code of the calls, put together. *)

\* One to four instructions before others.
LEMMA OneThen ==
  ASSUME NEW S, NEW x \in S, NEW t \in Seq(S)
  PROVE  <<x>> \o t \in Seq(S) /\ <<x>> \o t # <<>> /\ Head(<<x>> \o t) = x /\ Tail(<<x>> \o t) = t
OBVIOUS

LEMMA TwoThen ==
  ASSUME NEW S, NEW x \in S, NEW y \in S, NEW t \in Seq(S)
  PROVE  /\ <<x, y>> \o t \in Seq(S) /\ <<x, y>> \o t # <<>>
         /\ Head(<<x, y>> \o t) = x /\ Tail(<<x, y>> \o t) = <<y>> \o t
<1>1. <<x, y>> = <<x>> \o <<y>>
  <2> DEFINE p == <<x>> \o <<y>>
             q == <<x, y>>
  <2>1. p \in Seq(S) /\ q \in Seq(S) /\ Len(p) = 2 /\ Len(q) = 2
    OBVIOUS
  <2>2. p[1] = q[1] /\ p[2] = q[2]
    OBVIOUS
  <2> HIDE DEF p, q
  <2>3. \A i \in 1 .. Len(q) : q[i] = p[i]
    BY <2>1, <2>2
  <2>4. q = p
    BY <2>1, <2>3, SeqEqual
  <2> QED BY <2>4 DEF p, q
<1>2. <<x>> \in Seq(S) /\ <<y>> \in Seq(S) /\ <<y>> \o t \in Seq(S)
  OBVIOUS
<1>3. <<x, y>> \o t = <<x>> \o (<<y>> \o t)
  BY <1>1, <1>2, ConcatAssociative
<1> QED BY <1>2, <1>3, OneThen

LEMMA ThreeThen ==
  ASSUME NEW S, NEW x \in S, NEW y \in S, NEW z \in S, NEW t \in Seq(S)
  PROVE  /\ <<x, y, z>> \o t \in Seq(S) /\ <<x, y, z>> \o t # <<>>
         /\ Head(<<x, y, z>> \o t) = x /\ Tail(<<x, y, z>> \o t) = <<y, z>> \o t
<1>1. <<x, y, z>> = <<x>> \o <<y, z>>
  OBVIOUS
<1>2. <<x>> \in Seq(S) /\ <<y, z>> \in Seq(S) /\ <<y, z>> \o t \in Seq(S)
  BY TwoThen
<1>3. <<x, y, z>> \o t = <<x>> \o (<<y, z>> \o t)
  BY <1>1, <1>2, ConcatAssociative
<1> QED BY <1>2, <1>3, OneThen

LEMMA FourThen ==
  ASSUME NEW S, NEW x \in S, NEW y \in S, NEW z \in S, NEW w \in S, NEW t \in Seq(S)
  PROVE  /\ <<x, y, z, w>> \o t \in Seq(S) /\ <<x, y, z, w>> \o t # <<>>
         /\ Head(<<x, y, z, w>> \o t) = x /\ Tail(<<x, y, z, w>> \o t) = <<y, z, w>> \o t
<1>1. <<x, y, z, w>> = <<x>> \o <<y, z, w>>
  <2> DEFINE p == <<x>> \o <<y, z, w>>
             q == <<x, y, z, w>>
  <2>1. p \in Seq(S) /\ q \in Seq(S) /\ Len(p) = 4 /\ Len(q) = 4
    OBVIOUS
  <2>2. p[1] = q[1] /\ p[2] = q[2] /\ p[3] = q[3] /\ p[4] = q[4]
    OBVIOUS
  <2> HIDE DEF p, q
  <2>3. \A i \in 1 .. Len(q) : q[i] = p[i]
    BY <2>1, <2>2
  <2>4. q = p
    BY <2>1, <2>3, SeqEqual
  <2> QED BY <2>4 DEF p, q
<1>2. <<x>> \in Seq(S) /\ <<y, z, w>> \in Seq(S) /\ <<y, z, w>> \o t \in Seq(S)
  BY ThreeThen
<1>3. <<x, y, z, w>> \o t = <<x>> \o (<<y, z, w>> \o t)
  BY <1>1, <1>2, ConcatAssociative
<1> QED BY <1>2, <1>3, OneThen

\* Pairs of instructions by themselves.
LEMMA PairCode ==
  ASSUME NEW x, NEW y
  PROVE  <<x, y>> # <<>> /\ Head(<<x, y>>) = x /\ Tail(<<x, y>>) = <<y>>
         /\ <<y>> # <<>> /\ Head(<<y>>) = y /\ Tail(<<y>>) = <<>>
OBVIOUS

LEMMA PairSeq ==
  ASSUME NEW S, NEW x \in S, NEW y \in S
  PROVE  <<x, y>> \in Seq(S)
OBVIOUS

\* The instructions of the calls.
LEMMA Words ==
  ASSUME Managed
  PROVE  /\ \A o \in Numeric, a \in Int : <<o, a>> \in Instruction
         /\ \A a \in BOOLEAN : <<"lock_flag", a>> \in Instruction
         /\ \A o \in IntOps, i \in IntNo : <<o, i>> \in Instruction
         /\ IIPM_LOCK \in Int /\ 0 \in Int /\ IIPM_ENAALL = 0
<1>1. IIPM_LOCK \in Int /\ IIPM_ENAALL = 0
  BY Levels
<1> QED BY <1>1 DEF Instruction

\* lock_cpu and lock_cpu_dsp lead to the body of the call.
LEMMA LockCode ==
  ASSUME Managed, NEW f, NEW t \in Seq(Instruction), Body(f, t)
  PROVE  lock_cpu \o t \in Seq(Instruction) /\ Reads(f, lock_cpu \o t)
<1> DEFINE x == <<"get_basepri", 0>>
           y == <<"basepri_max", IIPM_LOCK>>
           z == <<"save_iipm", 0>>
           w == <<"lock_flag", TRUE>>
<1>1. lock_cpu = <<x, y, z, w>>
  BY DEF lock_cpu, Managed
<1>2. x \in Instruction /\ y \in Instruction /\ z \in Instruction /\ w \in Instruction
  BY Words DEF Numeric, Jumps
<1> HIDE DEF x, y, z, w
<1>3. Begins(<<w>> \o t, "lock_flag", TRUE) /\ Tail(<<w>> \o t) = t
  BY <1>2, OneThen DEF Begins, w
<1>4. Begins(<<z, w>> \o t, "save_iipm", 0) /\ Tail(<<z, w>> \o t) = <<w>> \o t
  <2>1. /\ <<z, w>> \o t # <<>> /\ Head(<<z, w>> \o t) = z
        /\ Tail(<<z, w>> \o t) = <<w>> \o t
    BY <1>2, TwoThen
  <2> QED BY <2>1 DEF Begins, z
<1>5. Begins(<<y, z, w>> \o t, "basepri_max", IIPM_LOCK) /\ Tail(<<y, z, w>> \o t) = <<z, w>> \o t
  <2>1. /\ <<y, z, w>> \o t # <<>> /\ Head(<<y, z, w>> \o t) = y
        /\ Tail(<<y, z, w>> \o t) = <<z, w>> \o t
    BY <1>2, ThreeThen
  <2> QED BY <2>1 DEF Begins, y
<1>6. /\ Begins(<<x, y, z, w>> \o t, "get_basepri", 0) /\ Tail(<<x, y, z, w>> \o t) = <<y, z, w>> \o t
      /\ <<x, y, z, w>> \o t \in Seq(Instruction)
  <2>1. /\ <<x, y, z, w>> \o t \in Seq(Instruction) /\ <<x, y, z, w>> \o t # <<>>
        /\ Head(<<x, y, z, w>> \o t) = x /\ Tail(<<x, y, z, w>> \o t) = <<y, z, w>> \o t
    BY <1>2, FourThen, SMTT(60)
  <2> QED BY <2>1 DEF Begins, x
<1> QED BY <1>1, <1>3, <1>4, <1>5, <1>6 DEF Reads, Locks, Saves, Flags

LEMMA LockAllCode ==
  ASSUME Managed, NEW f, NEW t \in Seq(Instruction), Body(f, t)
  PROVE  lock_cpu_dsp \o t \in Seq(Instruction) /\ LocksAll(f, lock_cpu_dsp \o t)
<1> DEFINE y == <<"basepri", IIPM_LOCK>>
           z == <<"saved_iipm", 0>>
           w == <<"lock_flag", TRUE>>
<1>1. lock_cpu_dsp = <<y, z, w>>
  BY Words DEF lock_cpu_dsp, Managed
<1>2. y \in Instruction /\ z \in Instruction /\ w \in Instruction
  BY Words DEF Numeric, Jumps
<1> HIDE DEF y, z, w
<1>3. Begins(<<w>> \o t, "lock_flag", TRUE) /\ Tail(<<w>> \o t) = t
  BY <1>2, OneThen DEF Begins, w
<1>4. Begins(<<z, w>> \o t, "saved_iipm", 0) /\ Tail(<<z, w>> \o t) = <<w>> \o t
  BY <1>2, TwoThen DEF Begins, z
<1>5. /\ Begins(<<y, z, w>> \o t, "basepri", IIPM_LOCK) /\ Tail(<<y, z, w>> \o t) = <<z, w>> \o t
      /\ <<y, z, w>> \o t \in Seq(Instruction)
  <2>1. /\ <<y, z, w>> \o t \in Seq(Instruction) /\ <<y, z, w>> \o t # <<>>
        /\ Head(<<y, z, w>> \o t) = y /\ Tail(<<y, z, w>> \o t) = <<z, w>> \o t
    BY <1>2, ThreeThen
  <2> QED BY <2>1 DEF Begins, y
<1> QED BY <1>1, <1>3, <1>4, <1>5 DEF LocksAll, SavesAll, Flags

\* unlock_cpu and unlock_cpu_dsp are the ends that the points know.
LEMMA UnlockCode ==
  ASSUME Managed
  PROVE  /\ Unlocks(unlock_cpu) /\ UnlocksAll(unlock_cpu_dsp)
         /\ unlock_cpu \in Seq(Instruction) /\ unlock_cpu_dsp \in Seq(Instruction)
<1> DEFINE x == <<"lock_flag", FALSE>>
           y == <<"restore_iipm", 0>>
           z == <<"basepri", 0>>
<1>1. unlock_cpu = <<x, y>> /\ unlock_cpu_dsp = <<x, z>>
  BY Words DEF unlock_cpu, unlock_cpu_dsp, Managed
<1>2. x \in Instruction /\ y \in Instruction /\ z \in Instruction
  BY Words DEF Numeric, Jumps
<1> HIDE DEF x, y, z
<1>3. unlock_cpu \in Seq(Instruction) /\ unlock_cpu_dsp \in Seq(Instruction)
  BY <1>1, <1>2
<1>4. Begins(<<x, y>>, "lock_flag", FALSE) /\ Begins(<<x, z>>, "lock_flag", FALSE)
  BY PairCode DEF Begins, x
<1>5. Begins(<<y>>, "restore_iipm", 0) /\ Begins(<<z>>, "basepri", 0)
  BY PairCode DEF Begins, y, z
<1> QED BY <1>1, <1>3, <1>4, <1>5, PairCode DEF Unlocks, Restores, UnlocksAll, EnablesAll

\* The end of a handler.
LEMMA ExitCode ==
  ASSUME Managed
  PROVE  Exits(core_int_exit) /\ core_int_exit \in Seq(Instruction)
<1> DEFINE x == <<"lock_flag", FALSE>>
           y == <<"pop_basepri", 0>>
           z == <<"return", 0>>
<1>1. core_int_exit = <<x, y>> \o <<z>>
  BY DEF core_int_exit, Managed
<1>2. x \in Instruction /\ y \in Instruction /\ z \in Instruction
  BY Words DEF Numeric, Jumps
<1> HIDE DEF x, y, z
<1>0. <<z>> \in Seq(Instruction)
  BY <1>2
<1>3. Begins(<<y>> \o <<z>>, "pop_basepri", 0) /\ Tail(<<y>> \o <<z>>) = <<z>>
  BY <1>0, <1>2, OneThen DEF Begins, y
<1>4. /\ Begins(<<x, y>> \o <<z>>, "lock_flag", FALSE)
      /\ Tail(<<x, y>> \o <<z>>) = <<y>> \o <<z>> /\ <<x, y>> \o <<z>> \in Seq(Instruction)
  <2>1. /\ <<x, y>> \o <<z>> \in Seq(Instruction) /\ <<x, y>> \o <<z>> # <<>>
        /\ Head(<<x, y>> \o <<z>>) = x /\ Tail(<<x, y>> \o <<z>>) = <<y>> \o <<z>>
    BY <1>0, <1>2, TwoThen
  <2> QED BY <2>1 DEF Begins, x
<1>5. Begins(<<z>>, "return", 0)
  BY PairCode DEF Begins, z
<1> QED BY <1>1, <1>3, <1>4, <1>5 DEF Exits, Leaves, Returns

\* One or two instructions and the end.
LEMMA ThenCode ==
  ASSUME NEW o, NEW a, <<o, a>> \in Instruction, NEW t \in Seq(Instruction)
  PROVE  /\ Begins(<<<<o, a>>>> \o t, o, a) /\ Tail(<<<<o, a>>>> \o t) = t
         /\ <<<<o, a>>>> \o t \in Seq(Instruction)
BY OneThen DEF Begins

\* x is instruction o with operand a.
Is(x, o, a) == x = <<o, a>>
Joined(c, x, y, t) == c = <<x, y>> \o t

LEMMA ThenCode2 ==
  ASSUME NEW x \in Instruction, NEW y \in Instruction, NEW t \in Seq(Instruction),
         NEW c, Joined(c, x, y, t), NEW o, NEW a, Is(x, o, a), NEW p, NEW d, Is(y, p, d)
  PROVE  c \in Seq(Instruction) /\ Begins(c, o, a) /\ Begins(Tail(c), p, d) /\ Tail(Tail(c)) = t
<1>1. c \in Seq(Instruction) /\ c # <<>> /\ Head(c) = x /\ Tail(c) = <<y>> \o t
  <2>1. /\ <<x, y>> \o t \in Seq(Instruction) /\ <<x, y>> \o t # <<>>
        /\ Head(<<x, y>> \o t) = x /\ Tail(<<x, y>> \o t) = <<y>> \o t
    BY TwoThen
  <2> QED BY <2>1 DEF Joined
<1>2. <<y>> \o t # <<>> /\ Head(<<y>> \o t) = y /\ Tail(<<y>> \o t) = t
  BY OneThen
<1> QED BY <1>1, <1>2 DEF Begins, Is

-----------------------------------------------------------------------------
(* Where a call begins, and other steps of the running context alone. *)

\* The running context goes to a right point, and nothing else changes.
LEMMA GoesKeeps ==
  ASSUME Managed, IInv, NEW g \in Frame, Goes(g), UNCHANGED <<hw, tsk, disabled>>,
         g.who = Running.who, g.ipm = Running.ipm, g.entry = Running.entry, g.flag = Running.flag,
         ~Begins(Running.code, "push_basepri", 0),
         Running.code # <<>> => Head(Running.code)[1] # "request",
         g.who = "exc" => ~g.lock /\ Top = 2 /\ g.entry = 0,
         PointOf(g, hw.basepri, hw.lock_flag, Mask, hw.saved_iipm, Settled, Kind),
         Unlocked(g, Mask) => Settled \/ Unlocked(Running, Mask) \/ Top # 1
  PROVE  IInv'
<1>1. /\ Top' = Top /\ DOMAIN ctx' = DOMAIN ctx
      /\ \A k \in 1 .. Top : k # Top => ctx'[k] = ctx[k]
      /\ Running' = g /\ ctx'[Top] = g /\ ctx' \in Seq(Frame)
  BY GoesFacts
<1>2. GoesOn
  BY <1>1 DEF GoesOn
<1>3. /\ Top \in Nat \ {0} /\ Running = ctx[Top] /\ 1 \in 1 .. Top /\ Top \in 1 .. Top
      /\ ctx[1].who = "thread"
  BY StackFacts
<1>4. ctx'[1].ipm = ctx[1].ipm
  BY <1>1, <1>3
<1>5. Mask' = Mask /\ Settled' = Settled /\ Kind' = Kind /\ hw' = hw /\ tsk' = tsk
  BY <1>4 DEF Mask, Settled, Kind
<1>6. GoesRight(Mask')
  <2>1. Running.who \in IntNo => Running.entry = Mask
    BY <1>3 DEF IInv, StackOK
  <2> QED BY <1>1, <1>5, <2>1 DEF GoesRight
<1>7. Running.who = "exc" => ExceptionRight
  <2>1. Running.who = "exc" =>
           PointOf(ctx[Top - 1], Running.entry, Running.flag, Mask, hw.saved_iipm, Settled, Kind)
    BY DEF IInv, PointsOK, Point
  <2> QED BY <1>1, <1>5, <2>1 DEF ExceptionRight
<1>8. StackOK' /\ PointsOK'
  BY <1>2, <1>5, <1>6, <1>7, Moves
<1>9. TypeOK'
  BY <1>1, <1>5 DEF IInv, TypeOK
<1>10. MaskOK' /\ SavedOK'
  BY <1>4, <1>5 DEF IInv, MaskOK, SavedOK
<1>11. RequestedOK'
  <2> SUFFICES ASSUME Unlocked(ctx'[1], Mask)
               PROVE  \/ Settled
                      \/ hw.pendsv
                      \/ Top > 1 /\ ctx'[2].who = "PendSV"
                      \/ \E k \in 1 .. Top : ctx'[k].code # <<>> /\ Head(ctx'[k].code)[1] = "request"
    BY <1>1, <1>5 DEF RequestedOK
  <2>1. Settled \/ Unlocked(ctx[1], Mask)
    <3>1. CASE Top = 1
      BY <1>1, <1>3, <3>1
    <3>2. CASE Top # 1
      BY <1>1, <1>3, <3>2
    <3> QED BY <3>1, <3>2
  <2>2. \/ Settled
        \/ hw.pendsv
        \/ Top > 1 /\ ctx[2].who = "PendSV"
        \/ \E k \in 1 .. Top : ctx[k].code # <<>> /\ Head(ctx[k].code)[1] = "request"
    BY <2>1 DEF IInv, RequestedOK
  <2>3. Top > 1 => ctx'[2].who = ctx[2].who
    BY <1>1, <1>3
  <2>4. ASSUME NEW k \in 1 .. Top, ctx[k].code # <<>>, Head(ctx[k].code)[1] = "request"
        PROVE  ctx'[k] = ctx[k]
    BY <1>1, <1>3, <2>4
  <2> QED BY <2>2, <2>3, <2>4
<1> QED BY <1>8, <1>9, <1>10, <1>11 DEF IInv

\* Between the calls.
LEMMA AtRest ==
  ASSUME Managed, IInv, Running.code = <<>>
  PROVE  /\ Running.who # "PendSV"
         /\ Running.who # "exc" => /\ hw.lock_flag = Running.lock /\ hw.saved_iipm = Mask
                                   /\ Running.lock => hw.basepri \in 1 .. IIPM_LOCK
                                   /\ Running.lock /\ Running.who = "thread" => Settled
                                   /\ ~Running.lock => hw.basepri = Mask /\ Unlocked(Running, Mask)
         /\ Running.who = "exc" => /\ ~Running.lock /\ hw.basepri = Running.entry
                                   /\ hw.lock_flag = Running.flag
<1>1. \A o, a : ~Begins(Running.code, o, a)
  BY DEF Begins
<1>2. /\ PointOf(Running, hw.basepri, hw.lock_flag, Mask, hw.saved_iipm, Settled, Kind)
      /\ Running.who = "exc" => ~Running.lock
  <2>1. Running = ctx[Top] /\ Top \in 1 .. Top
    BY StackFacts
  <2> QED BY <2>1 DEF IInv, PointsOK, Point, StackOK
<1>3. ~MaskRaised(Running, Mask, Settled, Kind)
  BY <1>1 DEF MaskRaised, Saves, Flags, Restores, SavesAll, UnlocksAll, EnablesAll, Leaves
<1>4. Unlocked(Running, Mask) => ~Running.lock /\ Running.who \notin {"exc", "PendSV"}
  BY <1>1 DEF Unlocked, Reads, Locks, LocksAll, Exits, Leaves, Returns
<1>5. Locked(Running, Mask, hw.saved_iipm, Settled, Kind) =>
         /\ Running.lock /\ hw.saved_iipm = Mask /\ Running.who # "PendSV"
         /\ Running.who = "thread" => Settled
  BY <1>1 DEF Locked, Unlocks, Exits, Requests, Dispatches, DispatchesAll, Ends, Terminates,
              UnlocksAll, Permits, Raises, Forbids, Body
<1>6. hw.lock_flag \in BOOLEAN /\ Running.lock \in BOOLEAN /\ Running.flag \in BOOLEAN
  BY StackFacts DEF IInv, TypeOK, Cpu, Frame
<1>7. CASE Unlocked(Running, Mask) /\ hw.basepri = Mask /\ hw.saved_iipm = Mask /\ ~hw.lock_flag
  BY <1>4, <1>6, <1>7
<1>8. CASE /\ Locked(Running, Mask, hw.saved_iipm, Settled, Kind) /\ hw.basepri \in 1 .. IIPM_LOCK
           /\ hw.lock_flag
  BY <1>2, <1>5, <1>6, <1>8
<1>9. CASE Running.who = "exc" /\ ~Running.lock /\ hw.basepri = Running.entry
           /\ hw.lock_flag = Running.flag
  BY <1>9
<1> QED BY <1>2, <1>3, <1>7, <1>8, <1>9 DEF PointOf

\* A call that locks the CPU first.
LEMMA LockFirst ==
  ASSUME Managed, IInv, Running.code = <<>>, ~hw.lock_flag, UNCHANGED <<hw, tsk, disabled>>,
         NEW g \in Frame, Goes(g), Reads(g, g.code) \/ (LocksAll(g, g.code) /\ g.who = "thread" /\ Mask = 0),
         g.who = Running.who, g.ipm = Running.ipm, g.entry = Running.entry, g.flag = Running.flag,
         Running.who = "exc" => ~g.lock /\ Top = 2 /\ Running.entry = 0
  PROVE  IInv'
<1>1. Running.who # "PendSV" /\ Unlocked(g, Mask)
  BY AtRest DEF Unlocked
<1>2. Running.who # "exc" => hw.saved_iipm = Mask /\ hw.basepri = Mask /\ Unlocked(Running, Mask)
  BY AtRest
<1>3. Running.who = "exc" => hw.saved_iipm = Mask /\ hw.basepri = Mask
  <2>1. ASSUME Running.who = "exc"
        PROVE  hw.saved_iipm = Mask /\ hw.basepri = Mask
    <3>1. hw.basepri = 0 /\ ~Running.flag /\ Top - 1 = 1
      BY <2>1, AtRest
    <3>2. PointOf(ctx[1], 0, Running.flag, Mask, hw.saved_iipm, Settled, Kind)
      BY <2>1, <3>1 DEF IInv, PointsOK, Point
    <3>3. ctx[1].who = "thread"
      BY StackFacts
    <3>4. Mask = 0 /\ hw.saved_iipm = Mask
      BY <3>1, <3>2, <3>3, LockLevel DEF PointOf
    <3> QED BY <3>1, <3>4
  <2> QED BY <2>1
<1>4. PointOf(g, hw.basepri, hw.lock_flag, Mask, hw.saved_iipm, Settled, Kind)
  BY <1>1, <1>2, <1>3 DEF PointOf
<1>5. Unlocked(Running, Mask) \/ Top # 1
  <2>1. Running.who = "exc" => Top # 1
    OBVIOUS
  <2> QED BY <1>2, <2>1
<1>6. ~Begins(Running.code, "push_basepri", 0)
  BY DEF Begins
<1> QED BY <1>4, <1>5, <1>6, GoesKeeps

LEMMA LockSeq ==
  ASSUME Managed
  PROVE  /\ lock_cpu \in Seq(Instruction) /\ lock_cpu_dsp \in Seq(Instruction)
         /\ lock_cpu \o <<>> = lock_cpu
<1> DEFINE x == <<"get_basepri", 0>>
           y == <<"basepri_max", IIPM_LOCK>>
           z == <<"save_iipm", 0>>
           w == <<"lock_flag", TRUE>>
           v == <<"basepri", IIPM_LOCK>>
           u == <<"saved_iipm", 0>>
<1>1. lock_cpu = <<x, y, z, w>> /\ lock_cpu_dsp = <<v, u, w>>
  BY Words DEF lock_cpu, lock_cpu_dsp, Managed
<1>2. /\ x \in Instruction /\ y \in Instruction /\ z \in Instruction /\ w \in Instruction
      /\ v \in Instruction /\ u \in Instruction
  BY Words DEF Numeric, Jumps
<1> HIDE DEF x, y, z, w, v, u
<1>3. lock_cpu \in Seq(Instruction) /\ lock_cpu_dsp \in Seq(Instruction)
  BY <1>1, <1>2
<1> QED BY <1>3, ConcatEmptySeq

\* The calls: each begins at a right point.
LEMMA ActTskKeeps ==
  ASSUME Managed, IInv, act_tsk
  PROVE  IInv'
<1>1. /\ ~hw.lock_flag /\ Running.code = <<>> /\ UNCHANGED <<hw, tsk, disabled>>
      /\ Running \in Frame
  BY StackFacts DEF act_tsk, Begin, CHECK_UNL
<1>2. ~Running.lock
  BY <1>1, AtRest
<1>3. CASE InTask /\ Begin("act_tsk", lock_cpu \o <<<<"ready", 0>>, <<"dispatch", 0>>>> \o unlock_cpu)
  <2> DEFINE t == <<<<"ready", 0>>, <<"dispatch", 0>>>> \o unlock_cpu
             c == lock_cpu \o t
             g == [Running EXCEPT !.code = c]
  <2>1. <<"ready", 0>> \in Instruction /\ <<"dispatch", 0>> \in Instruction
    BY Words DEF Numeric, Jumps
  <2>2. /\ t \in Seq(Instruction) /\ Begins(t, "ready", 0) /\ Begins(Tail(t), "dispatch", 0)
        /\ Tail(Tail(t)) = unlock_cpu
    <3>1. unlock_cpu \in Seq(Instruction)
      BY UnlockCode
    <3>2. PICK x, y : Is(x, "ready", 0) /\ Is(y, "dispatch", 0)
      BY DEF Is
    <3>3. Joined(t, x, y, unlock_cpu)
      BY <3>2 DEF Is, Joined
    <3>4. x \in Instruction /\ y \in Instruction
      BY <2>1, <3>2 DEF Is
    <3> HIDE DEF t
    <3> QED BY <3>1, <3>2, <3>3, <3>4, ThenCode2
  <2>3. (lock_cpu \o <<<<"ready", 0>>, <<"dispatch", 0>>>>) \o unlock_cpu = c
    <3> DEFINE m == <<<<"ready", 0>>, <<"dispatch", 0>>>>
    <3>1. m \in Seq(Instruction)
      BY <2>1, PairSeq
    <3>2. lock_cpu \in Seq(Instruction) /\ unlock_cpu \in Seq(Instruction)
      BY LockSeq, UnlockCode
    <3> HIDE DEF m
    <3>3. (lock_cpu \o m) \o unlock_cpu = lock_cpu \o (m \o unlock_cpu)
      BY <3>1, <3>2, ConcatAssociative
    <3> QED BY <3>3 DEF m
  <2>4. Goes(g)
    BY <1>3, <2>3 DEF Begin
  <2> HIDE DEF t
  <2>5. Running.who = "thread" /\ Top = 1
    BY <1>3, StackFacts DEF InTask
  <2>6. ASSUME NEW f, f.who = "thread", ~f.lock
        PROVE  Body(f, t)
    BY <2>2, <2>6, UnlockCode DEF Body, Dispatches
  <2>7. c \in Seq(Instruction)
    BY <1>2, <2>2, <2>5, <2>6, LockCode
  <2> HIDE DEF c
  <2>8. g \in Frame /\ g.code = c /\ g.who = Running.who /\ g.lock = Running.lock
        /\ g.ipm = Running.ipm /\ g.entry = Running.entry /\ g.flag = Running.flag
    BY <1>1, <2>7 DEF Frame
  <2> HIDE DEF g
  <2>9. Reads(g, g.code)
    BY <1>2, <2>2, <2>5, <2>6, <2>8, LockCode DEF c
  <2> QED BY <1>1, <2>4, <2>5, <2>8, <2>9, LockFirst
<1>4. CASE InHandler /\ Begin("act_tsk", lock_cpu \o <<<<"ready", 0>>, <<"request", 0>>>> \o unlock_cpu)
  <2> DEFINE t == <<<<"ready", 0>>, <<"request", 0>>>> \o unlock_cpu
             c == lock_cpu \o t
             g == [Running EXCEPT !.code = c]
  <2>1. <<"ready", 0>> \in Instruction /\ <<"request", 0>> \in Instruction
    BY Words DEF Numeric, Jumps
  <2>2. /\ t \in Seq(Instruction) /\ Begins(t, "ready", 0) /\ Begins(Tail(t), "request", 0)
        /\ Tail(Tail(t)) = unlock_cpu
    <3>1. unlock_cpu \in Seq(Instruction)
      BY UnlockCode
    <3>2. PICK x, y : Is(x, "ready", 0) /\ Is(y, "request", 0)
      BY DEF Is
    <3>3. Joined(t, x, y, unlock_cpu)
      BY <3>2 DEF Is, Joined
    <3>4. x \in Instruction /\ y \in Instruction
      BY <2>1, <3>2 DEF Is
    <3> HIDE DEF t
    <3> QED BY <3>1, <3>2, <3>3, <3>4, ThenCode2
  <2>3. (lock_cpu \o <<<<"ready", 0>>, <<"request", 0>>>>) \o unlock_cpu = c
    <3> DEFINE m == <<<<"ready", 0>>, <<"request", 0>>>>
    <3>1. m \in Seq(Instruction)
      BY <2>1, PairSeq
    <3>2. lock_cpu \in Seq(Instruction) /\ unlock_cpu \in Seq(Instruction)
      BY LockSeq, UnlockCode
    <3> HIDE DEF m
    <3>3. (lock_cpu \o m) \o unlock_cpu = lock_cpu \o (m \o unlock_cpu)
      BY <3>1, <3>2, ConcatAssociative
    <3> QED BY <3>3 DEF m
  <2>4. Goes(g)
    BY <1>4, <2>3 DEF Begin
  <2> HIDE DEF t
  <2>5. Running.who # "thread"
    BY <1>4, Whos DEF InHandler, Managed
  <2>6. ASSUME NEW f, f.who # "thread", ~f.lock
        PROVE  Body(f, t)
    BY <2>2, <2>6, UnlockCode DEF Body, Requests
  <2>7. c \in Seq(Instruction)
    BY <1>2, <2>2, <2>5, <2>6, LockCode
  <2> HIDE DEF c
  <2>8. g \in Frame /\ g.code = c /\ g.who = Running.who /\ g.lock = Running.lock
        /\ g.ipm = Running.ipm /\ g.entry = Running.entry /\ g.flag = Running.flag
    BY <1>1, <2>7 DEF Frame
  <2> HIDE DEF g
  <2>9. Reads(g, g.code)
    BY <1>2, <2>2, <2>5, <2>6, <2>8, LockCode DEF c
  <2>10. Running.who = "exc" => Top = 2 /\ Running.entry = 0
    <3>1. Running.who = "exc" => exc_sense_intmask
      BY <1>4, Whos DEF InHandler, Managed, xsns_dpn
    <3> QED BY <3>1, Levels DEF exc_sense_intmask, Top
  <2> QED BY <1>1, <1>2, <2>4, <2>8, <2>9, <2>10, LockFirst
<1> QED BY <1>3, <1>4 DEF act_tsk

LEMMA SlpTskKeeps ==
  ASSUME Managed, IInv, slp_tsk
  PROVE  IInv'
<1>1. /\ ~hw.lock_flag /\ Running.code = <<>> /\ UNCHANGED <<hw, tsk, disabled>>
      /\ Running \in Frame /\ tsk.dspflg /\ Running.who = "thread" /\ Top = 1
  BY StackFacts DEF slp_tsk, Begin, CHECK_UNL, InTask
<1>2. ~Running.lock
  BY <1>1, AtRest
<1>3. Mask = 0 /\ Running.ipm = TIPM_ENAALL
  <2>1. Running = ctx[1]
    BY <1>1, StackFacts
  <2> QED BY <1>1, <2>1, StackFacts DEF IInv, MaskOK
<1> DEFINE t == <<<<"wait", 0>>, <<"dispatch", 0>>>> \o unlock_cpu_dsp
           c == lock_cpu_dsp \o t
           g == [Running EXCEPT !.code = c]
<1>4. <<"wait", 0>> \in Instruction /\ <<"dispatch", 0>> \in Instruction
  BY Words DEF Numeric, Jumps
<1>5. /\ t \in Seq(Instruction) /\ Begins(t, "wait", 0) /\ Begins(Tail(t), "dispatch", 0)
      /\ Tail(Tail(t)) = unlock_cpu_dsp
  <2>1. unlock_cpu_dsp \in Seq(Instruction)
    BY UnlockCode
  <2>2. PICK x, y : Is(x, "wait", 0) /\ Is(y, "dispatch", 0)
    BY DEF Is
  <2>3. Joined(t, x, y, unlock_cpu_dsp)
    BY <2>2 DEF Is, Joined
  <2>4. x \in Instruction /\ y \in Instruction
    BY <1>4, <2>2 DEF Is
  <2> HIDE DEF t
  <2> QED BY <2>1, <2>2, <2>3, <2>4, ThenCode2
<1>6. (lock_cpu_dsp \o <<<<"wait", 0>>, <<"dispatch", 0>>>>) \o unlock_cpu_dsp = c
  <2> DEFINE m == <<<<"wait", 0>>, <<"dispatch", 0>>>>
  <2>1. m \in Seq(Instruction)
    BY <1>4, PairSeq
  <2>2. lock_cpu_dsp \in Seq(Instruction) /\ unlock_cpu_dsp \in Seq(Instruction)
    BY LockSeq, UnlockCode
  <2> HIDE DEF m
  <2>3. (lock_cpu_dsp \o m) \o unlock_cpu_dsp = lock_cpu_dsp \o (m \o unlock_cpu_dsp)
    BY <2>1, <2>2, ConcatAssociative
  <2> QED BY <2>3 DEF m
<1>7. Goes(g)
  BY <1>6 DEF slp_tsk, Begin
<1> HIDE DEF t
<1>8. ASSUME NEW f, f.who = "thread", ~f.lock, f.ipm = TIPM_ENAALL
      PROVE  Body(f, t)
  BY <1>5, <1>8, UnlockCode DEF Body, DispatchesAll
<1>9. c \in Seq(Instruction)
  BY <1>1, <1>2, <1>3, <1>5, <1>8, LockAllCode
<1> HIDE DEF c
<1>10. g \in Frame /\ g.code = c /\ g.who = Running.who /\ g.lock = Running.lock
       /\ g.ipm = Running.ipm /\ g.entry = Running.entry /\ g.flag = Running.flag
  BY <1>1, <1>9 DEF Frame
<1> HIDE DEF g
<1>11. LocksAll(g, g.code)
  BY <1>1, <1>2, <1>3, <1>5, <1>8, <1>10, LockAllCode DEF c
<1> QED BY <1>1, <1>3, <1>7, <1>10, <1>11, LockFirst

\* A call that locks the CPU unless it is locked.
LEMMA LockUnlessKeeps ==
  ASSUME Managed, IInv, Running.code = <<>>, Running.who # "exc", UNCHANGED <<hw, tsk, disabled>>,
         NEW t \in Seq(Instruction), Body(Running, t),
         Goes([Running EXCEPT !.code = LockUnless(hw.lock_flag) \o t])
  PROVE  IInv'
<1> DEFINE c == LockUnless(hw.lock_flag) \o t
           g == [Running EXCEPT !.code = c]
<1>1. Running \in Frame /\ hw.lock_flag \in BOOLEAN
  BY StackFacts DEF IInv, TypeOK, Cpu
<1>2. CASE hw.lock_flag
  <2>1. c = t
    BY <1>2, ConcatEmptySeq DEF LockUnless
  <2> HIDE DEF c
  <2>0. c \in Seq(Instruction)
    BY <2>1
  <2>a. g \in Frame /\ g.code = c /\ g.who = Running.who /\ g.lock = Running.lock
        /\ g.ipm = Running.ipm /\ g.entry = Running.entry /\ g.flag = Running.flag
    BY <1>1, <2>0 DEF Frame
  <2>2. g \in Frame /\ g.code = t /\ g.who = Running.who /\ g.lock = Running.lock
        /\ g.ipm = Running.ipm /\ g.entry = Running.entry /\ g.flag = Running.flag
    BY <2>1, <2>a
  <2>3. Goes(g)
    BY DEF c
  <2> HIDE DEF g
  <2>4. Body(g, g.code)
    BY <2>2, BodySame DEF Same
  <2>5. /\ Running.lock /\ hw.saved_iipm = Mask /\ hw.basepri \in 1 .. IIPM_LOCK
        /\ Running.who # "PendSV" /\ (Running.who = "thread" => Settled)
    BY <1>2, AtRest
  <2>6. PointOf(g, hw.basepri, hw.lock_flag, Mask, hw.saved_iipm, Settled, Kind)
    BY <1>2, <2>2, <2>4, <2>5 DEF PointOf, Locked
  <2>7. Settled \/ Top # 1
    BY <2>5, StackFacts
  <2>8. ~Begins(Running.code, "push_basepri", 0)
    BY DEF Begins
  <2> QED BY <2>2, <2>3, <2>6, <2>7, <2>8, GoesKeeps
<1>3. CASE ~hw.lock_flag
  <2>1. c = lock_cpu \o t
    BY <1>3 DEF LockUnless
  <2>2. c \in Seq(Instruction) /\ Reads(Running, c)
    BY <2>1, LockCode
  <2> HIDE DEF c
  <2>3. g \in Frame /\ g.code = c /\ g.who = Running.who /\ g.lock = Running.lock
        /\ g.ipm = Running.ipm /\ g.entry = Running.entry /\ g.flag = Running.flag
    BY <1>1, <2>2 DEF Frame
  <2>4. Goes(g)
    BY DEF c
  <2> HIDE DEF g
  <2>5. Body(g, t)
    BY <2>3, BodySame DEF Same
  <2>6. Reads(g, g.code)
    BY <2>1, <2>3, <2>5, LockCode
  <2> QED BY <1>3, <2>3, <2>4, <2>6, LockFirst
<1> QED BY <1>1, <1>2, <1>3

LEMMA ExtTskKeeps ==
  ASSUME Managed, IInv, ext_tsk
  PROVE  IInv'
<1>1. /\ Running.code = <<>> /\ UNCHANGED <<hw, tsk, disabled>> /\ Running \in Frame
      /\ Running.who = "thread" /\ Top = 1
  BY StackFacts DEF ext_tsk, Begin, InTask
<1>2. tsk.dspflg => Running.ipm = TIPM_ENAALL
  <2>1. Running = ctx[1]
    BY <1>1, StackFacts
  <2> QED BY <2>1 DEF IInv, MaskOK
<1> DEFINE e == <<<<"terminate", 0>>, <<"exit", 0>>>>
           x == IF tsk.dspflg THEN <<>>
                ELSE t_set_ipm(TIPM_ENAALL) \o <<<<"set_dspflg", TIPM_ENAALL>>>>
           t == x \o e
<1>3. /\ <<"exit", 0>> \in Instruction /\ <<"terminate", 0>> \in Instruction
      /\ <<"saved_iipm", 0>> \in Instruction /\ <<"set_dspflg", 0>> \in Instruction
  BY Words DEF Numeric, Jumps
<1>4. Terminates(e) /\ e \in Seq(Instruction)
  <2>1. PICK p, q : Is(p, "terminate", 0) /\ Is(q, "exit", 0)
    BY DEF Is
  <2>2. p \in Instruction /\ q \in Instruction /\ e = <<p, q>>
    BY <1>3, <2>1 DEF Is
  <2> HIDE DEF e
  <2>3. /\ e # <<>> /\ Head(e) = p /\ e \in Seq(Instruction)
        /\ Tail(e) = <<q>> /\ Tail(e) # <<>> /\ Head(Tail(e)) = q
    BY <2>2
  <2> QED BY <2>1, <2>3 DEF Terminates, Ends, Begins, Is
<1>5. t_set_ipm(TIPM_ENAALL) = <<<<"saved_iipm", 0>>>>
  BY Words DEF t_set_ipm, Managed
<1> HIDE DEF e
<1>6. x \in Seq(Instruction) /\ t \in Seq(Instruction) /\ Body(Running, t)
  <2>1. CASE tsk.dspflg
    <3>1. x = <<>> /\ t = e
      BY <1>4, <2>1, ConcatEmptySeq
    <3> HIDE DEF x, t
    <3> QED BY <1>1, <1>2, <1>4, <2>1, <3>1 DEF Body
  <2>2. CASE ~tsk.dspflg
    <3>1. PICK p, q : Is(p, "saved_iipm", 0) /\ Is(q, "set_dspflg", 0)
      BY DEF Is
    <3>2. p \in Instruction /\ q \in Instruction /\ x = <<p>> \o <<q>>
      BY <1>3, <1>5, <2>2, <3>1 DEF Is, TIPM_ENAALL
    <3> HIDE DEF x
    <3>3. <<p>> \in Seq(Instruction) /\ <<q>> \in Seq(Instruction) /\ x \in Seq(Instruction)
      BY <3>2
    <3>4. t = <<p>> \o (<<q>> \o e)
      BY <1>4, <3>2, <3>3, ConcatAssociative
    <3> HIDE DEF t
    <3>5. <<q>> \o e \in Seq(Instruction) /\ <<q>> \o e # <<>> /\ Head(<<q>> \o e) = q
          /\ Tail(<<q>> \o e) = e
      BY <1>4, <3>2, OneThen
    <3>6. t \in Seq(Instruction) /\ t # <<>> /\ Head(t) = p /\ Tail(t) = <<q>> \o e
      BY <3>2, <3>4, <3>5, OneThen
    <3>7. Begins(t, "saved_iipm", 0) /\ Permits(Tail(t)) /\ Terminates(Tail(Tail(t)))
      BY <1>4, <3>1, <3>5, <3>6 DEF Begins, Is, Permits
    <3> QED BY <1>1, <3>3, <3>6, <3>7 DEF Body
  <2> QED BY <2>1, <2>2
<1>7. (LockUnless(hw.lock_flag) \o x) \o e = LockUnless(hw.lock_flag) \o t
  <2>1. LockUnless(hw.lock_flag) \in Seq(Instruction)
    BY LockSeq DEF LockUnless
  <2>2. x \in Seq(Instruction)
    BY <1>6
  <2> HIDE DEF x
  <2> QED BY <1>4, <2>1, <2>2, ConcatAssociative
<1>8. Goes([Running EXCEPT !.code = LockUnless(hw.lock_flag) \o t])
  <2>1. Goes([Running EXCEPT !.code = (LockUnless(hw.lock_flag) \o x) \o e])
    BY DEF ext_tsk, Begin, e
  <2> HIDE DEF x, t
  <2> QED BY <1>7, <2>1
<1> HIDE DEF t
<1> QED BY <1>1, <1>6, <1>8, LockUnlessKeeps

LEMMA IntCallKeeps ==
  ASSUME Managed, IInv, NEW o \in IntOps, NEW i \in IntNo, IntCall(o, i)
  PROVE  IInv'
<1>1. /\ Running.code = <<>> /\ UNCHANGED <<hw, tsk, disabled>> /\ Running \in Frame
      /\ Running.who # "exc"
  BY StackFacts, Whos DEF IntCall, InTask, Managed
<1>2. hw.lock_flag = Running.lock
  BY <1>1, AtRest
<1>3. PICK p : Is(p, o, i) /\ p = <<o, i>> /\ p \in Instruction
  BY Words DEF Is
<1> DEFINE u == UnlockUnless(hw.lock_flag)
           t == <<p>> \o u
<1>4. u \in Seq(Instruction) /\ LockUnless(hw.lock_flag) \in Seq(Instruction)
  BY LockSeq, UnlockCode DEF LockUnless, UnlockUnless
<1>5. IF Running.lock THEN u = <<>> ELSE Unlocks(u)
  BY <1>2, UnlockCode DEF UnlockUnless
<1> HIDE DEF u
<1>6. t \in Seq(Instruction) /\ t # <<>> /\ Head(t) = p /\ Tail(t) = u
  BY <1>3, <1>4, OneThen
<1>7. LockUnless(hw.lock_flag) \o <<p>> \o u = LockUnless(hw.lock_flag) \o t
  <2>1. <<p>> \in Seq(Instruction)
    BY <1>3
  <2> QED BY <1>4, <2>1, ConcatAssociative
<1>8. Goes([Running EXCEPT !.code = LockUnless(hw.lock_flag) \o t])
  <2>1. Goes([Running EXCEPT !.code = LockUnless(hw.lock_flag) \o <<<<o, i>>>> \o u])
    BY DEF IntCall, u
  <2>2. Goes([Running EXCEPT !.code = LockUnless(hw.lock_flag) \o <<p>> \o u])
    BY <1>3, <2>1
  <2> HIDE DEF t
  <2> QED BY <1>7, <2>2
<1> HIDE DEF t
<1>9. Body(Running, t)
  <2>1. p \in IntOps \X IntNo
    BY <1>3
  <2> QED BY <1>5, <1>6, <2>1 DEF Body
<1> QED BY <1>1, <1>6, <1>8, <1>9, LockUnlessKeeps

LEMMA ChgIpmKeeps ==
  ASSUME Managed, IInv, NEW ipm \in Ipms, chg_ipm(ipm)
  PROVE  IInv'
<1>1. /\ Running.code = <<>> /\ UNCHANGED <<hw, tsk, disabled>> /\ Running \in Frame
      /\ Running.who = "thread" /\ ~hw.lock_flag
  BY StackFacts DEF chg_ipm, InTask, CHECK_UNL
<1>2. ~Running.lock
  BY <1>1, AtRest
<1> DEFINE s == t_set_ipm(ipm)
           r == IF ipm = TIPM_ENAALL THEN <<<<"set_dspflg", ipm>>, <<"dispatch", 0>>>>
                ELSE <<<<"clr_dspflg", ipm>>>>
           t == s \o (r \o unlock_cpu)
<1>3. /\ Goes([Running EXCEPT !.code = lock_cpu \o s \o r \o unlock_cpu])
      /\ LockUnless(hw.lock_flag) = lock_cpu
  BY <1>1 DEF chg_ipm, LockUnless
<1>4. unlock_cpu \in Seq(Instruction) /\ Unlocks(unlock_cpu) /\ lock_cpu \in Seq(Instruction)
  BY UnlockCode, LockSeq
<1>5. /\ s \in Seq(Instruction) /\ r \in Seq(Instruction)
      /\ s \o (r \o unlock_cpu) \in Seq(Instruction)
      /\ Body(Running, s \o (r \o unlock_cpu))
  <2>1. CASE ipm = TIPM_ENAALL
    <3>1. PICK p, q, w : Is(p, "saved_iipm", 0) /\ Is(q, "set_dspflg", 0) /\ Is(w, "dispatch", 0)
      BY DEF Is
    <3>2. p \in Instruction /\ q \in Instruction /\ w \in Instruction
      BY <3>1, Words DEF Is, Numeric, Jumps
    <3>3. s = <<p>> /\ r = <<q, w>>
      BY <2>1, <3>1, Words DEF Is, t_set_ipm, Managed, TIPM_ENAALL
    <3> HIDE DEF s, r
    <3>4. Joined(r \o unlock_cpu, q, w, unlock_cpu)
      BY <3>3 DEF Joined
    <3>5. PICK c : c = r \o unlock_cpu
      OBVIOUS
    <3>6. c \in Seq(Instruction) /\ Begins(c, "set_dspflg", 0) /\ Begins(Tail(c), "dispatch", 0)
          /\ Tail(Tail(c)) = unlock_cpu
      <4>1. Joined(c, q, w, unlock_cpu)
        BY <3>4, <3>5
      <4> QED BY <1>4, <3>1, <3>2, <4>1, ThenCode2
    <3>7. Permits(c)
      BY <1>4, <3>6 DEF Permits, Dispatches
    <3>8. /\ s \o c \in Seq(Instruction) /\ s \o c # <<>> /\ Head(s \o c) = p /\ Tail(s \o c) = c
      BY <3>2, <3>3, <3>6, OneThen
    <3>9. Begins(s \o c, "saved_iipm", 0)
      BY <3>1, <3>8 DEF Begins, Is
    <3>10. Body(Running, s \o c)
      BY <1>1, <1>2, <3>7, <3>8, <3>9 DEF Body
    <3>11. s \in Seq(Instruction) /\ r \in Seq(Instruction)
      BY <3>2, <3>3
    <3> QED BY <3>5, <3>8, <3>10, <3>11
  <2>2. CASE ipm # TIPM_ENAALL
    <3>0. ipm \in Masks /\ INT_IPM(ipm) = MaskOf(ipm) /\ MaskOf(ipm) \in Int /\ ipm \in Int
      <4>1. ipm \in Masks
        BY <2>2 DEF Masks
      <4>2. ipm \in Int
        BY DEF Managed, InterruptsAssumption
      <4> QED BY <2>2, <4>1, <4>2, Levels
    <3>1. PICK p, q, w : Is(p, "saved_iipm", MaskOf(ipm)) /\ Is(q, "basepri_max", MaskOf(ipm))
                         /\ Is(w, "clr_dspflg", ipm)
      BY DEF Is
    <3>2. p \in Instruction /\ q \in Instruction /\ w \in Instruction
      BY <3>0, <3>1, Words DEF Is, Numeric, Jumps
    <3>3. s = <<p, q>> /\ r = <<w>>
      BY <2>2, <3>0, <3>1 DEF Is, t_set_ipm, Managed
    <3> HIDE DEF s, r
    <3>4. PICK c : c = r \o unlock_cpu
      OBVIOUS
    <3>5. c \in Seq(Instruction) /\ c # <<>> /\ Head(c) = w /\ Tail(c) = unlock_cpu
      BY <1>4, <3>2, <3>3, <3>4, OneThen
    <3>6. Forbids(c, ipm)
      BY <1>4, <3>1, <3>5 DEF Forbids, Begins, Is
    <3>7. PICK d : d = s \o c
      OBVIOUS
    <3>8. d \in Seq(Instruction) /\ Begins(d, "saved_iipm", MaskOf(ipm))
          /\ Begins(Tail(d), "basepri_max", MaskOf(ipm)) /\ Tail(Tail(d)) = c
      <4>1. Joined(d, p, q, c)
        BY <3>3, <3>7 DEF Joined
      <4> QED BY <3>1, <3>2, <3>5, <4>1, ThenCode2
    <3>9. Raises(Tail(d), ipm)
      BY <3>6, <3>8 DEF Raises
    <3>10. Body(Running, d)
      BY <1>1, <1>2, <3>0, <3>8, <3>9 DEF Body
    <3>11. s \in Seq(Instruction) /\ r \in Seq(Instruction)
      BY <3>2, <3>3
    <3> QED BY <3>4, <3>7, <3>8, <3>10, <3>11
  <2> QED BY <2>1, <2>2
<1> HIDE DEF s, r
<1>6. lock_cpu \o s \o r \o unlock_cpu = lock_cpu \o t
  <2>1. lock_cpu \o s \in Seq(Instruction) /\ r \o unlock_cpu \in Seq(Instruction)
    BY <1>4, <1>5
  <2>2. (lock_cpu \o s \o r) \o unlock_cpu = (lock_cpu \o s) \o (r \o unlock_cpu)
    BY <1>4, <1>5, <2>1, ConcatAssociative
  <2>3. (lock_cpu \o s) \o (r \o unlock_cpu) = lock_cpu \o (s \o (r \o unlock_cpu))
    BY <1>4, <1>5, <2>1, ConcatAssociative
  <2> QED BY <2>2, <2>3
<1>7. Goes([Running EXCEPT !.code = LockUnless(hw.lock_flag) \o t])
  <2> HIDE DEF t
  <2> QED BY <1>3, <1>6
<1>8. t \in Seq(Instruction) /\ Body(Running, t)
  BY <1>5
<1> HIDE DEF t
<1> QED BY <1>1, <1>7, <1>8, LockUnlessKeeps

LEMMA LockCallKeeps ==
  ASSUME Managed, IInv, NEW lock \in BOOLEAN, LockCall(lock)
  PROVE  IInv'
<1>1. /\ Running.code = <<>> /\ UNCHANGED <<hw, tsk, disabled>> /\ Running \in Frame
      /\ Running.who # "exc" /\ Running.lock # lock /\ Running.lock \in BOOLEAN
  BY StackFacts, Whos DEF LockCall, InTask, Managed, Frame
<1>2. /\ hw.lock_flag = Running.lock /\ Running.who # "PendSV" /\ hw.saved_iipm = Mask
      /\ Running.lock => hw.basepri \in 1 .. IIPM_LOCK
      /\ Running.lock /\ Running.who = "thread" => Settled
  BY <1>1, AtRest
<1>3. ~Begins(Running.code, "push_basepri", 0)
  BY <1>1 DEF Begins
<1>4. CASE lock = TRUE
  <2> DEFINE g == [Running EXCEPT !.lock = TRUE, !.code = lock_cpu]
  <2>1. ~Running.lock /\ ~hw.lock_flag
    BY <1>1, <1>2, <1>4
  <2>2. Goes(g)
    BY <1>4, <2>1 DEF LockCall, LockUnless
  <2>3. lock_cpu \in Seq(Instruction)
    BY LockSeq
  <2>4. g \in Frame /\ g.code = lock_cpu /\ g.who = Running.who /\ g.lock = TRUE
        /\ g.ipm = Running.ipm /\ g.entry = Running.entry /\ g.flag = Running.flag
    BY <1>1, <2>3 DEF Frame
  <2> HIDE DEF g
  <2>5. Body(g, <<>>)
    BY <2>4 DEF Body
  <2>6. Reads(g, g.code)
    <3>1. lock_cpu \o <<>> = lock_cpu /\ <<>> \in Seq(Instruction)
      BY LockSeq
    <3> QED BY <2>4, <2>5, <3>1, LockCode
  <2> QED BY <1>1, <2>1, <2>2, <2>4, <2>6, LockFirst
<1>5. CASE lock = FALSE
  <2> DEFINE g == [Running EXCEPT !.lock = FALSE, !.code = unlock_cpu]
  <2>1. Running.lock /\ hw.lock_flag
    BY <1>1, <1>2, <1>5
  <2>2. Goes(g)
    BY <1>5, <2>1 DEF LockCall, UnlockUnless
  <2>a. unlock_cpu \in Seq(Instruction)
    BY UnlockCode
  <2>3. Unlocks(unlock_cpu)
    BY UnlockCode
  <2>4. g \in Frame /\ g.code = unlock_cpu /\ g.who = Running.who /\ g.lock = FALSE
        /\ g.ipm = Running.ipm /\ g.entry = Running.entry /\ g.flag = Running.flag
    BY <1>1, <2>a DEF Frame
  <2> HIDE DEF g
  <2>5. PointOf(g, hw.basepri, hw.lock_flag, Mask, hw.saved_iipm, Settled, Kind)
    BY <1>2, <2>1, <2>3, <2>4 DEF PointOf, Locked
  <2>6. Settled \/ Top # 1
    BY <1>2, <2>1, StackFacts
  <2> QED BY <1>1, <1>3, <2>2, <2>4, <2>5, <2>6, GoesKeeps
<1> QED BY <1>4, <1>5

LEMMA HandlerEndsKeeps ==
  ASSUME Managed, IInv, HandlerEnds
  PROVE  IInv'
<1>1. /\ Running.code = <<>> /\ UNCHANGED <<hw, tsk, disabled>> /\ Running \in Frame
      /\ Running.who \in IntNo /\ Running.who \notin {"thread", "PendSV", "exc"}
  BY StackFacts, Whos DEF HandlerEnds
<1>2. /\ hw.lock_flag = Running.lock /\ hw.saved_iipm = Mask
      /\ Running.lock => hw.basepri \in 1 .. IIPM_LOCK
      /\ ~Running.lock => hw.basepri = Mask
  BY <1>1, AtRest
<1>3. ~Begins(Running.code, "push_basepri", 0)
  BY <1>1 DEF Begins
<1> DEFINE g == [Running EXCEPT !.code = core_int_exit, !.lock = FALSE]
<1>4. Goes(g)
  BY DEF HandlerEnds
<1>5. core_int_exit \in Seq(Instruction) /\ Exits(core_int_exit)
  BY ExitCode
<1>6. g \in Frame /\ g.code = core_int_exit /\ g.who = Running.who /\ ~g.lock
      /\ g.ipm = Running.ipm /\ g.entry = Running.entry /\ g.flag = Running.flag
  BY <1>1, <1>5 DEF Frame
<1> HIDE DEF g
<1>7. PointOf(g, hw.basepri, hw.lock_flag, Mask, hw.saved_iipm, Settled, Kind)
  <2>1. CASE Running.lock
    BY <1>1, <1>2, <1>5, <1>6, <2>1 DEF PointOf, Locked
  <2>2. CASE ~Running.lock
    BY <1>1, <1>2, <1>5, <1>6, <2>2 DEF PointOf, Unlocked
  <2> QED BY <2>1, <2>2
<1>8. Top # 1
  BY <1>1, StackFacts
<1> QED BY <1>1, <1>3, <1>4, <1>6, <1>7, <1>8, GoesKeeps

-----------------------------------------------------------------------------
(* The dispatcher. *)

\* A task that starts, and the idle loop, go on in the same way.
LEMMA FreshFrame ==
  ASSUME Managed
  PROVE  LET f == Context("thread", start_r)
         IN  /\ f \in Frame /\ f.who = "thread" /\ f.ipm = TIPM_ENAALL /\ ~f.lock
             /\ UnlocksAll(f.code) /\ Fresh = [exc |-> FALSE, f |-> f]
             /\ Context("thread", idle_loop) = f
<1>1. unlock_cpu_dsp \in Seq(Instruction) /\ UnlocksAll(unlock_cpu_dsp)
  BY UnlockCode
<1>2. start_r = unlock_cpu_dsp /\ idle_loop = unlock_cpu_dsp
  BY DEF start_r, idle_loop, Managed
<1> QED BY <1>1, <1>2 DEF Context, Frame, Fresh, TIPM_ENAALL

\* A task that is not kept any more may start again.
LEMMA FreshSaved ==
  ASSUME Managed, NEW saved \in [Task -> [exc : BOOLEAN, f : Frame]], NEW t \in Task,
         Resumable(saved)
  PROVE  /\ [saved EXCEPT ![t] = Fresh] \in [Task -> [exc : BOOLEAN, f : Frame]]
         /\ Resumable([saved EXCEPT ![t] = Fresh])
<1> DEFINE s == [saved EXCEPT ![t] = Fresh]
<1>1. PICK f : f = Context("thread", start_r)
  OBVIOUS
<1>2. f \in Frame /\ f.who = "thread" /\ f.ipm = TIPM_ENAALL /\ ~f.lock /\ UnlocksAll(f.code)
      /\ Fresh = [exc |-> FALSE, f |-> f]
  BY <1>1, FreshFrame
<1>3. s \in [Task -> [exc : BOOLEAN, f : Frame]]
  BY <1>2
<1>4. s[t].f = f /\ ~s[t].exc /\ \A u \in Task : u # t => s[u] = saved[u]
  BY <1>2
<1> HIDE DEF s
<1>5. Resumable(s)
  BY <1>2, <1>4 DEF Resumable
<1> QED BY <1>3, <1>5 DEF s

\* The thread goes on with another context, alone.
LEMMA Replaced ==
  ASSUME Managed, IInv, NEW f \in Frame, ctx' = <<f>>, f.who = "thread", f.ipm = TIPM_ENAALL,
         hw' \in Cpu, hw'.ena = hw.ena, disabled' = disabled,
         tsk' \in [runtsk : Task \cup {NULL}, schedtsk : Task \cup {NULL}, dspflg : BOOLEAN,
                   saved : [Task -> [exc : BOOLEAN, f : Frame]]],
         SavedOK',
         PointOf(f, hw'.basepri, hw'.lock_flag, 0, hw'.saved_iipm, Settled', Kind'),
         Settled'
  PROVE  IInv'
<1>1. ctx' \in Seq(Frame) /\ ctx' # <<>> /\ ctx'[1] = f /\ Top' = 1 /\ Running' = f
  BY DEF Top, Running, Last
<1>2. Mask' = 0
  BY <1>1 DEF Mask, MaskOf
<1>3. TypeOK'
  BY <1>1 DEF IInv, TypeOK
<1>4. StackOK'
  <2>1. f.who \notin IntNo
    BY Whos
  <2> QED BY <1>1, <2>1 DEF StackOK
<1>5. PointsOK'
  <2>1. Point(Top, hw.basepri, hw.lock_flag)'
    BY <1>1, <1>2 DEF Point
  <2>2. \A k \in 1 .. 1 : ~(k < 1)
    OBVIOUS
  <2> QED BY <1>1, <2>1, <2>2 DEF PointsOK
<1>6. MaskOK'
  BY <1>1 DEF IInv, MaskOK
<1>7. RequestedOK'
  BY DEF RequestedOK
<1> QED BY <1>3, <1>4, <1>5, <1>6, <1>7 DEF IInv

\* Where the thread calls the dispatcher.
LEMMA AtDispatch ==
  ASSUME Managed, IInv, Thread, NEW o \in {"dispatch", "exit"}, At(o)
  PROVE  /\ hw.lock_flag /\ hw.basepri \in 1 .. IIPM_LOCK /\ hw.saved_iipm = Mask
         /\ Running = ctx[1] /\ Running.who = "thread" /\ Running \in Frame /\ Top = 1
         /\ o = "dispatch" => /\ ~Running.lock
                              /\ \/ Unlocks(Tail(Running.code))
                                 \/ UnlocksAll(Tail(Running.code)) /\ Mask = 0
         /\ o = "exit" => Mask = 0
<1>1. Top = 1 /\ Running = ctx[1] /\ Running.who = "thread" /\ Running \in Frame
  BY StackFacts DEF Thread, Top
<1>2. PointOf(Running, hw.basepri, hw.lock_flag, Mask, hw.saved_iipm, Settled, Kind)
  BY <1>1, StackFacts DEF IInv, PointsOK, Point
<1>3. \A p, d : Begins(Running.code, p, d) => p = o
  BY DEF Begins, At
<1>4. ~(Head(Running.code) \in IntOps \X IntNo) /\ Running.who \notin IntNo /\ Running.code # <<>>
  <2>1. Head(Running.code)[1] = o /\ Running.code # <<>>
    BY DEF At
  <2>2. \A p \in IntOps \X IntNo : p[1] \in IntOps
    OBVIOUS
  <2> QED BY <1>1, <2>1, <2>2, Whos DEF IntOps
<1>5. ~Unlocked(Running, Mask)
  BY <1>1, <1>3, <1>4 DEF Unlocked, Reads, Locks, LocksAll
<1>6. ~MaskRaised(Running, Mask, Settled, Kind)
  BY <1>1, <1>3, <1>4 DEF MaskRaised, Saves, Flags, Restores, SavesAll, UnlocksAll, EnablesAll
<1>7. Locked(Running, Mask, hw.saved_iipm, Settled, Kind) /\ hw.basepri \in 1 .. IIPM_LOCK
      /\ hw.lock_flag
  BY <1>1, <1>2, <1>5, <1>6 DEF PointOf
<1>8. ~Body(Running, Running.code)
  BY <1>3, <1>4 DEF Body, Terminates
<1>9. /\ hw.saved_iipm = Mask
      /\ \/ ~Running.lock /\ Dispatches(Running.code)
         \/ ~Running.lock /\ Mask = 0 /\ DispatchesAll(Running.code)
         \/ Mask = 0 /\ Ends(Running.code)
  BY <1>1, <1>3, <1>4, <1>7, <1>8
     DEF Locked, Unlocks, UnlocksAll, Terminates, Permits, Raises, Forbids
<1>10. /\ Dispatches(Running.code) => o = "dispatch" /\ Unlocks(Tail(Running.code))
       /\ DispatchesAll(Running.code) => o = "dispatch" /\ UnlocksAll(Tail(Running.code))
       /\ Ends(Running.code) => o = "exit"
  BY <1>3 DEF Dispatches, DispatchesAll, Ends
<1> QED BY <1>1, <1>7, <1>9, <1>10

\* The dispatcher goes on with the task that should run.
LEMMA DispatcherKeeps ==
  ASSUME Managed, IInv, NEW saved \in [Task -> [exc : BOOLEAN, f : Frame]], dispatcher(saved),
         Mask = 0, hw.saved_iipm = 0, hw.lock_flag, hw.basepri \in 1 .. IIPM_LOCK,
         Resumable(saved)
  PROVE  IInv'
<1> DEFINE t == tsk.schedtsk
           Tsk == [runtsk : Task \cup {NULL}, schedtsk : Task \cup {NULL}, dspflg : BOOLEAN,
                   saved : [Task -> [exc : BOOLEAN, f : Frame]]]
<1>1. hw' = hw /\ disabled' = disabled /\ hw \in Cpu /\ tsk \in Tsk /\ t \in Task \cup {NULL}
      /\ NULL \notin Task
  BY DEF dispatcher, IInv, TypeOK, Managed, InterruptsAssumption
<1>2. CASE t # NULL /\ saved[t].exc
  <2> DEFINE f == Context("thread", <<<<"svc", 0>>>>)
  <2>1. tsk' = [tsk EXCEPT !.runtsk = t, !.saved = saved] /\ ctx' = <<f>> /\ t \in Task
    BY <1>1, <1>2 DEF dispatcher
  <2>2. /\ tsk' \in Tsk /\ tsk'.runtsk = t /\ tsk'.schedtsk = t /\ tsk'.saved = saved
    BY <1>1, <2>1
  <2>3. Settled' /\ Kind' = "exc"
    BY <1>1, <1>2, <2>1, <2>2 DEF Settled, Kind
  <2>4. SavedOK'
    BY <2>2 DEF SavedOK
  <2>5. f \in Frame /\ f.who = "thread" /\ f.ipm = TIPM_ENAALL /\ Begins(f.code, "svc", 0)
    <3>1. PICK p : Is(p, "svc", 0)
      BY DEF Is
    <3>2. p \in Instruction
      BY <3>1, Words DEF Is, Numeric, Jumps
    <3>3. f = Context("thread", <<p>>)
      BY <3>1 DEF Is
    <3>4. <<p>> \in Seq(Instruction) /\ <<p>> # <<>> /\ Head(<<p>>) = p
      BY <3>2
    <3> HIDE DEF f
    <3> QED BY <3>1, <3>3, <3>4 DEF Context, Frame, Begins, Is, TIPM_ENAALL
  <2> HIDE DEF f
  <2>6. PointOf(f, hw'.basepri, hw'.lock_flag, 0, hw'.saved_iipm, Settled', Kind')
    BY <1>1, <2>3, <2>5 DEF PointOf, Locked
  <2> QED BY <1>1, <2>1, <2>2, <2>3, <2>4, <2>5, <2>6, Replaced
<1>3. CASE ~(t # NULL /\ saved[t].exc)
  <2>1. Resume(t, saved)
    BY <1>3 DEF dispatcher
  <2>2. CASE t = NULL
    <3>1. tsk' = [tsk EXCEPT !.runtsk = NULL, !.saved = saved]
          /\ ctx' = <<Context("thread", start_r)>>
      BY <2>1, <2>2, FreshFrame DEF Resume
    <3>2. PICK f : f = Context("thread", start_r)
      OBVIOUS
    <3>3. f \in Frame /\ f.who = "thread" /\ f.ipm = TIPM_ENAALL /\ ~f.lock /\ UnlocksAll(f.code)
      BY <3>2, FreshFrame
    <3>4. tsk' \in Tsk /\ tsk'.runtsk = NULL /\ tsk'.schedtsk = NULL /\ tsk'.saved = saved
      BY <1>1, <2>2, <3>1
    <3>5. Settled' /\ SavedOK'
      BY <3>4 DEF Settled, SavedOK
    <3>6. PointOf(f, hw'.basepri, hw'.lock_flag, 0, hw'.saved_iipm, Settled', Kind')
      BY <1>1, <3>3, <3>5 DEF PointOf, Locked
    <3> QED BY <1>1, <3>1, <3>2, <3>3, <3>4, <3>5, <3>6, Replaced
  <2>3. CASE t # NULL
    <3>0. t \in Task /\ ~saved[t].exc
      BY <1>1, <1>3, <2>3
    <3>1. tsk' = [tsk EXCEPT !.runtsk = t, !.saved = [saved EXCEPT ![t] = Fresh]]
          /\ ctx' = <<saved[t].f>>
      BY <2>1, <2>3 DEF Resume
    <3>2. PICK f : f = saved[t].f
      OBVIOUS
    <3>3. f \in Frame /\ f.who = "thread" /\ f.ipm = TIPM_ENAALL /\ ~f.lock
          /\ (Unlocks(f.code) \/ UnlocksAll(f.code))
      BY <3>0, <3>2 DEF Resumable
    <3>4. [saved EXCEPT ![t] = Fresh] \in [Task -> [exc : BOOLEAN, f : Frame]]
      BY <3>0, FreshSaved
    <3>5. tsk' \in Tsk /\ tsk'.runtsk = t /\ tsk'.schedtsk = t
          /\ tsk'.saved = [saved EXCEPT ![t] = Fresh]
      BY <1>1, <3>0, <3>1, <3>4
    <3>6. Settled'
      BY <3>5 DEF Settled
    <3>7. SavedOK'
      <4>1. Resumable([saved EXCEPT ![t] = Fresh])
        BY <3>0, FreshSaved
      <4> QED BY <3>5, <4>1 DEF SavedOK
    <3>8. PointOf(f, hw'.basepri, hw'.lock_flag, 0, hw'.saved_iipm, Settled', Kind')
      BY <1>1, <3>3, <3>6 DEF PointOf, Locked
    <3> QED BY <1>1, <3>1, <3>2, <3>3, <3>5, <3>6, <3>7, <3>8, Replaced
  <2> QED BY <2>2, <2>3
<1> QED BY <1>2, <1>3

LEMMA DoDispatchKeeps ==
  ASSUME Managed, IInv, do_dispatch
  PROVE  IInv'
<1>1. /\ hw.lock_flag /\ hw.basepri \in 1 .. IIPM_LOCK /\ hw.saved_iipm = Mask
      /\ Running = ctx[1] /\ Running.who = "thread" /\ Running \in Frame /\ Top = 1
      /\ ~Running.lock
      /\ \/ Unlocks(Tail(Running.code))
         \/ UnlocksAll(Tail(Running.code)) /\ Mask = 0
  BY AtDispatch DEF do_dispatch
<1>2. At("dispatch") /\ Running.code # <<>>
  BY DEF do_dispatch, At
<1>3. /\ Rest \in Frame /\ Rest.code = Tail(Running.code) /\ Rest.who = Running.who
      /\ Rest.lock = Running.lock /\ Rest.ipm = Running.ipm /\ Rest.entry = Running.entry
      /\ Rest.flag = Running.flag
  <2>1. Tail(Running.code) \in Seq(Instruction)
    BY <1>1, <1>2 DEF Frame
  <2>2. PICK c : c = Tail(Running.code)
    OBVIOUS
  <2>3. Rest = [Running EXCEPT !.code = c]
    BY <2>2 DEF Rest
  <2>4. c \in Seq(Instruction) /\ Running \in Frame
    BY <1>1, <2>1, <2>2
  <2> QED BY <2>2, <2>3, <2>4 DEF Frame
<1>4. CASE Settled
  <2>1. Goes(Rest) /\ UNCHANGED <<hw, tsk, disabled>>
    BY <1>4 DEF do_dispatch, Settled
  <2>2. PointOf(Rest, hw.basepri, hw.lock_flag, Mask, hw.saved_iipm, Settled, Kind)
    BY <1>1, <1>3, <1>4 DEF PointOf, Locked
  <2>3. ~Begins(Running.code, "push_basepri", 0) /\ Head(Running.code)[1] # "request"
    BY <1>2 DEF At, Begins
  <2>4. Rest.who # "exc"
    BY <1>1, <1>3
  <2> QED BY <1>3, <1>4, <2>1, <2>2, <2>3, <2>4, GoesKeeps
<1>5. CASE ~Settled
  <2> DEFINE saved == [tsk.saved EXCEPT ![tsk.runtsk] = [exc |-> FALSE, f |-> Rest]]
  <2>1. dispatcher(saved)
    BY <1>5 DEF do_dispatch, Settled
  <2>2. Mask = 0 /\ Running.ipm = TIPM_ENAALL
    BY <1>1, <1>5, StackFacts
  <2>3. Resumable(tsk.saved) /\ tsk.saved \in [Task -> [exc : BOOLEAN, f : Frame]]
    BY DEF IInv, SavedOK, TypeOK
  <2>4. saved \in [Task -> [exc : BOOLEAN, f : Frame]]
    BY <1>3, <2>3
  <2>5. Resumable(saved)
    <3>1. ASSUME NEW t \in Task
          PROVE  LET f == saved[t].f IN
                    /\ f.who = "thread" /\ f.ipm = TIPM_ENAALL
                    /\ IF saved[t].exc THEN Unlocked(f, 0)
                       ELSE ~f.lock /\ (Unlocks(f.code) \/ UnlocksAll(f.code))
      <4>1. CASE t = tsk.runtsk
        <5>1. saved[t] = [exc |-> FALSE, f |-> Rest]
          BY <2>3, <4>1
        <5>2. saved[t].f = Rest /\ ~saved[t].exc
          BY <5>1
        <5> HIDE DEF saved
        <5> QED BY <1>1, <1>3, <2>2, <5>2
      <4>2. CASE t # tsk.runtsk
        <5>1. saved[t] = tsk.saved[t]
          BY <2>3, <4>2
        <5> HIDE DEF saved
        <5> QED BY <2>3, <5>1 DEF Resumable
      <4> QED BY <4>1, <4>2
    <3> HIDE DEF saved
    <3> QED BY <3>1 DEF Resumable
  <2> HIDE DEF saved
  <2> QED BY <1>1, <2>1, <2>2, <2>4, <2>5, DispatcherKeeps
<1> QED BY <1>4, <1>5

LEMMA ExitKeeps ==
  ASSUME Managed, IInv, exit_and_dispatch
  PROVE  IInv'
<1>1. hw.lock_flag /\ hw.basepri \in 1 .. IIPM_LOCK /\ hw.saved_iipm = Mask /\ Mask = 0
  BY AtDispatch DEF exit_and_dispatch
<1>2. Resumable(tsk.saved) /\ tsk.saved \in [Task -> [exc : BOOLEAN, f : Frame]]
  BY DEF IInv, SavedOK, TypeOK
<1> DEFINE saved == [tsk.saved EXCEPT ![tsk.runtsk] = Fresh]
<1>3. saved \in [Task -> [exc : BOOLEAN, f : Frame]] /\ Resumable(saved)
  <2>1. CASE tsk.runtsk \in Task
    BY <1>2, <2>1, FreshSaved
  <2>2. CASE tsk.runtsk \notin Task
    <3>1. saved = tsk.saved
      BY <1>2, <2>2
    <3> HIDE DEF saved
    <3> QED BY <1>2, <3>1
  <2> QED BY <2>1, <2>2
<1>4. dispatcher(saved)
  BY DEF exit_and_dispatch
<1> HIDE DEF saved
<1> QED BY <1>1, <1>3, <1>4, DispatcherKeeps

\* Which of the three kinds the context of the task to run is.
LEMMA KindFacts ==
  ASSUME Managed, IInv
  PROVE  /\ Kind = "none" => tsk.runtsk = NULL
         /\ Kind \in {"exc", "thread"} => tsk.runtsk \in Task
         /\ Kind = "exc" => tsk.saved[tsk.runtsk].exc
         /\ Kind = "thread" => ~tsk.saved[tsk.runtsk].exc
BY DEF Kind, IInv, TypeOK, Managed, InterruptsAssumption

\* The thread goes on with the task that runs.
LEMMA ResumeKeeps ==
  ASSUME Managed, IInv, Resume(tsk.runtsk, tsk.saved), disabled' = disabled, Settled,
         hw' \in Cpu, hw'.ena = hw.ena, hw'.saved_iipm = 0,
         \/ Kind = "none" /\ hw'.basepri \in 1 .. IIPM_LOCK /\ ~hw'.lock_flag
         \/ Kind = "thread" /\ hw'.basepri \in 1 .. IIPM_LOCK /\ hw'.lock_flag
         \/ Kind = "exc" /\ hw'.basepri = 0 /\ ~hw'.lock_flag
  PROVE  IInv'
<1> DEFINE t == tsk.runtsk
           Tsk == [runtsk : Task \cup {NULL}, schedtsk : Task \cup {NULL}, dspflg : BOOLEAN,
                   saved : [Task -> [exc : BOOLEAN, f : Frame]]]
<1>1. /\ tsk \in Tsk /\ NULL \notin Task /\ Resumable(tsk.saved)
      /\ tsk.saved \in [Task -> [exc : BOOLEAN, f : Frame]]
  BY DEF IInv, TypeOK, SavedOK, Managed, InterruptsAssumption
<1>2. CASE Kind = "none" /\ hw'.basepri \in 1 .. IIPM_LOCK /\ ~hw'.lock_flag
  <2>1. t = NULL
    BY <1>2, KindFacts
  <2>2. tsk' = [tsk EXCEPT !.runtsk = NULL, !.saved = tsk.saved]
        /\ ctx' = <<Context("thread", start_r)>>
    BY <2>1, FreshFrame DEF Resume
  <2>3. PICK f : f = Context("thread", start_r)
    OBVIOUS
  <2>4. f \in Frame /\ f.who = "thread" /\ f.ipm = TIPM_ENAALL /\ ~f.lock /\ UnlocksAll(f.code)
    BY <2>3, FreshFrame
  <2>5. tsk' \in Tsk /\ tsk'.runtsk = tsk.runtsk /\ tsk'.schedtsk = tsk.schedtsk
        /\ tsk'.saved = tsk.saved
    BY <1>1, <2>1, <2>2
  <2>6. Settled' /\ SavedOK'
    BY <1>1, <2>5 DEF Settled, SavedOK
  <2>7. PointOf(f, hw'.basepri, hw'.lock_flag, 0, hw'.saved_iipm, Settled', Kind')
    BY <1>2, <2>4, <2>6 DEF PointOf, MaskRaised
  <2> QED BY <2>2, <2>3, <2>4, <2>5, <2>6, <2>7, Replaced
<1>3. CASE Kind # "none"
  <2>1. t \in Task /\ (Kind = "exc" => tsk.saved[t].exc) /\ (Kind = "thread" => ~tsk.saved[t].exc)
    BY <1>3, KindFacts
  <2>2. tsk' = [tsk EXCEPT !.runtsk = t, !.saved = [tsk.saved EXCEPT ![t] = Fresh]]
        /\ ctx' = <<tsk.saved[t].f>>
    BY <1>1, <2>1 DEF Resume
  <2>3. PICK f : f = tsk.saved[t].f
    OBVIOUS
  <2>4. f \in Frame /\ f.who = "thread" /\ f.ipm = TIPM_ENAALL
    BY <1>1, <2>1, <2>3 DEF Resumable
  <2>5. [tsk.saved EXCEPT ![t] = Fresh] \in [Task -> [exc : BOOLEAN, f : Frame]]
    BY <1>1, <2>1, FreshSaved
  <2>6. tsk' \in Tsk /\ tsk'.runtsk = tsk.runtsk /\ tsk'.schedtsk = tsk.schedtsk
        /\ tsk'.saved = [tsk.saved EXCEPT ![t] = Fresh]
    BY <1>1, <2>1, <2>2, <2>5
  <2>7. Settled'
    BY <2>6 DEF Settled
  <2>8. SavedOK'
    <3>1. Resumable([tsk.saved EXCEPT ![t] = Fresh])
      BY <1>1, <2>1, FreshSaved
    <3> QED BY <2>6, <3>1 DEF SavedOK
  <2>9. PointOf(f, hw'.basepri, hw'.lock_flag, 0, hw'.saved_iipm, Settled', Kind')
    <3>1. CASE Kind = "exc"
      <4>1. Unlocked(f, 0)
        BY <1>1, <2>1, <2>3, <3>1 DEF Resumable
      <4> QED BY <3>1, <4>1 DEF PointOf
    <3>2. CASE Kind = "thread"
      <4>1. ~f.lock /\ (Unlocks(f.code) \/ UnlocksAll(f.code))
        BY <1>1, <2>1, <2>3, <3>2 DEF Resumable
      <4> QED BY <2>4, <2>7, <3>2, <4>1 DEF PointOf, Locked
    <3> QED BY <1>3, <3>1, <3>2
  <2> QED BY <2>2, <2>3, <2>4, <2>6, <2>7, <2>8, <2>9, Replaced
<1> QED BY <1>2, <1>3

\* Where an instruction that is not executed as others are may stand.
LEMMA AtJump ==
  ASSUME Managed, IInv, NEW o \in {"svc", "switch", "return", "return_exc", "return_thread"}, At(o)
  PROVE  /\ o = "svc" => /\ Mask = 0 /\ Settled /\ Kind = "exc" /\ hw.saved_iipm = 0 /\ Top = 1
         /\ o = "return" => /\ Running.who \in IntNo /\ Unlocked(Running, Mask)
                            /\ hw.basepri = Mask /\ hw.saved_iipm = Mask /\ ~hw.lock_flag
         /\ o \in {"switch", "return_exc", "return_thread"} =>
               /\ Running.who = "PendSV" /\ Top = 2 /\ Mask = 0 /\ hw.saved_iipm = 0
               /\ hw.basepri \in 1 .. IIPM_LOCK
         /\ o = "switch" => ~hw.lock_flag
         /\ o = "return_exc" => Settled /\ Kind = "exc" /\ ~hw.lock_flag
         /\ o = "return_thread" => /\ Settled
                                   /\ \/ Kind = "none" /\ ~hw.lock_flag
                                      \/ Kind = "thread" /\ hw.lock_flag
<1>0. Running \in Frame /\ Running = ctx[Top] /\ Top \in 1 .. Top
  BY StackFacts
<1>1. PointOf(Running, hw.basepri, hw.lock_flag, Mask, hw.saved_iipm, Settled, Kind)
  BY <1>0 DEF IInv, PointsOK, Point
<1>2. \A p, d : Begins(Running.code, p, d) => p = o
  BY DEF Begins, At
<1>3. Running.code # <<>> /\ ~(Head(Running.code) \in IntOps \X IntNo)
  <2>1. Head(Running.code)[1] = o /\ Running.code # <<>>
    BY DEF At
  <2>2. \A p \in IntOps \X IntNo : p[1] \in IntOps
    OBVIOUS
  <2> QED BY <2>1, <2>2 DEF IntOps
<1>4. ~Body(Running, Running.code)
  BY <1>2, <1>3 DEF Body, Terminates
<1>5. Running.who = "thread" => Top = 1
  BY StackFacts
<1>6. Running.who = "PendSV" => Top = 2
  BY <1>0 DEF IInv, StackOK
<1>7. Unlocked(Running, Mask) => o = "return" /\ Running.who \in IntNo
  BY <1>2, <1>3 DEF Unlocked, Reads, Locks, LocksAll, Exits, Leaves, Returns
<1>8. MaskRaised(Running, Mask, Settled, Kind) =>
         /\ Running.who = "PendSV" /\ Mask = 0
         /\ \/ o = "switch"
            \/ Settled /\ Kind = "none" /\ o = "return_thread"
            \/ Settled /\ Kind = "exc" /\ o = "return_exc"
  BY <1>2 DEF MaskRaised, Saves, Flags, Restores, SavesAll, UnlocksAll, EnablesAll, Leaves
<1>9. Locked(Running, Mask, hw.saved_iipm, Settled, Kind) =>
         \/ /\ Running.who = "thread" /\ Mask = 0 /\ Settled /\ Kind = "exc" /\ o = "svc"
            /\ hw.saved_iipm = 0
         \/ /\ Running.who = "PendSV" /\ Mask = 0 /\ hw.saved_iipm = 0 /\ Settled /\ Kind = "thread"
            /\ o = "return_thread"
  BY <1>2, <1>4 DEF Locked, Unlocks, Exits, Requests, Dispatches, DispatchesAll, Ends, Terminates,
                    UnlocksAll, Permits, Raises, Forbids
<1> QED BY <1>1, <1>3, <1>5, <1>6, <1>7, <1>8, <1>9 DEF PointOf

\* The registers with another lock_flag and BASEPRI.
With(h, l, b) == [h EXCEPT !.lock_flag = l, !.basepri = b]

\* The registers with another lock_flag and BASEPRI.
LEMMA CpuWith ==
  ASSUME NEW h \in Cpu, NEW b \in 0 .. 255, NEW l \in BOOLEAN
  PROVE  With(h, l, b) \in Cpu
BY DEF Cpu, With

LEMMA SvcKeeps ==
  ASSUME Managed, IInv, svc_handler
  PROVE  IInv'
<1>1. Mask = 0 /\ Settled /\ Kind = "exc" /\ hw.saved_iipm = 0
  BY AtJump DEF svc_handler
<1>2. hw' = [hw EXCEPT !.lock_flag = FALSE, !.basepri = 0] /\ hw \in Cpu
  BY Levels DEF svc_handler, Managed, IInv, TypeOK
<1>3. hw' \in Cpu /\ hw'.ena = hw.ena /\ hw'.saved_iipm = hw.saved_iipm /\ hw'.basepri = 0
      /\ ~hw'.lock_flag
  <2>1. hw' \in Cpu
    <3>1. hw'.lock_flag = FALSE /\ hw'.lock_flag \in BOOLEAN
      BY <1>2 DEF Cpu
    <3>2. hw' = With(hw, hw'.lock_flag, 0)
      BY <1>2, <3>1, Zenon DEF With
    <3>3. PICK l \in BOOLEAN : hw' = With(hw, l, 0)
      BY ONLY <3>1, <3>2, Zenon
    <3>4. hw \in Cpu /\ 0 \in 0 .. 255
      BY <1>2
    <3> QED BY ONLY <3>3, <3>4, CpuWith
  <2>2. hw'.ena = hw.ena
    BY <1>2 DEF Cpu
  <2>3. hw'.saved_iipm = hw.saved_iipm
    BY <1>2 DEF Cpu
  <2>4. hw'.basepri = 0
    BY <1>2 DEF Cpu
  <2>5. ~hw'.lock_flag
    BY <1>2 DEF Cpu
  <2> QED BY <2>1, <2>2, <2>3, <2>4, <2>5
<1>4. Resume(tsk.runtsk, tsk.saved) /\ disabled' = disabled
  BY DEF svc_handler
<1> QED BY <1>1, <1>3, <1>4, ResumeKeeps

LEMMA ReturnFromPendSVKeeps ==
  ASSUME Managed, IInv, ReturnFromPendSV
  PROVE  IInv'
<1>1. hw \in Cpu /\ Resume(tsk.runtsk, tsk.saved) /\ disabled' = disabled /\ ~V6
  BY DEF ReturnFromPendSV, Managed, IInv, TypeOK
<1>2. CASE At("return_exc")
  <2>1. Settled /\ Kind = "exc" /\ ~hw.lock_flag /\ hw.saved_iipm = 0
    BY <1>2, AtJump
  <2>2. hw' = [hw EXCEPT !.basepri = 0]
    BY <1>1, <1>2, Levels DEF ReturnFromPendSV
  <2>3. hw' \in Cpu /\ hw'.ena = hw.ena /\ hw'.saved_iipm = hw.saved_iipm /\ hw'.basepri = 0
        /\ hw'.lock_flag = hw.lock_flag
    <3>1. 0 \in 0 .. 255
      OBVIOUS
    <3> QED BY <1>1, <2>2, <3>1 DEF Cpu
  <2> QED BY <1>1, <2>1, <2>3, ResumeKeeps
<1>3. CASE At("return_thread")
  <2>1. Settled /\ hw.saved_iipm = 0 /\ hw.basepri \in 1 .. IIPM_LOCK
        /\ \/ Kind = "none" /\ ~hw.lock_flag
           \/ Kind = "thread" /\ hw.lock_flag
    BY <1>3, AtJump
  <2>2. ~At("return_exc")
    BY <1>3 DEF At
  <2>3. hw' = hw
    BY <2>2 DEF ReturnFromPendSV
  <2> QED BY <1>1, <2>1, <2>3, ResumeKeeps
<1> QED BY <1>2, <1>3 DEF ReturnFromPendSV

\* PendSV saves the context that it has interrupted.
LEMMA SwitchKeeps ==
  ASSUME Managed, IInv, Switch
  PROVE  IInv'
<1> DEFINE t == tsk.schedtsk
           saved == IF tsk.runtsk = NULL THEN tsk.saved
                    ELSE [tsk.saved EXCEPT ![tsk.runtsk] = [exc |-> TRUE, f |-> ctx[1]]]
           Tsk == [runtsk : Task \cup {NULL}, schedtsk : Task \cup {NULL}, dspflg : BOOLEAN,
                   saved : [Task -> [exc : BOOLEAN, f : Frame]]]
           c == IF t = NULL THEN <<<<"return_thread", 0>>>>
                ELSE IF ~saved[t].exc THEN <<<<"lock_flag", TRUE>>, <<"return_thread", 0>>>>
                ELSE <<<<"return_exc", 0>>>>
           g == [Running EXCEPT !.code = c]
<1>1. /\ Running.who = "PendSV" /\ Top = 2 /\ Mask = 0 /\ hw.saved_iipm = 0
      /\ hw.basepri \in 1 .. IIPM_LOCK /\ ~hw.lock_flag
  BY AtJump DEF Switch
<1>2. tsk' = [tsk EXCEPT !.runtsk = t, !.saved = saved] /\ Goes(g) /\ hw' = hw
      /\ disabled' = disabled /\ t \in Task \cup {NULL}
  <2>1. ~V6
    BY DEF Managed
  <2> QED BY <2>1 DEF Switch, IInv, TypeOK
<1>3. /\ Unlocked(ctx[1], 0) /\ ctx[1].who = "thread" /\ ctx[1].ipm = TIPM_ENAALL
      /\ ctx[1] \in Frame /\ Running \in Frame
  <2>1. 1 \in 1 .. Top /\ 1 < (IF Running.who = "exc" THEN Top - 1 ELSE Top)
    BY <1>1
  <2>2. Unlocked(ctx[1], Mask)
    BY <2>1 DEF IInv, PointsOK
  <2> QED BY <1>1, <2>1, <2>2, StackFacts
<1>4. tsk \in Tsk /\ Resumable(tsk.saved) /\ NULL \notin Task
  BY DEF IInv, TypeOK, SavedOK, Managed, InterruptsAssumption
<1>5. saved \in [Task -> [exc : BOOLEAN, f : Frame]] /\ Resumable(saved)
  <2>1. CASE tsk.runtsk = NULL
    BY <1>4, <2>1
  <2>2. CASE tsk.runtsk # NULL
    <3>1. saved \in [Task -> [exc : BOOLEAN, f : Frame]]
      BY <1>3, <1>4, <2>2
    <3>2. ASSUME NEW u \in Task
          PROVE  LET f == saved[u].f IN
                    /\ f.who = "thread" /\ f.ipm = TIPM_ENAALL
                    /\ IF saved[u].exc THEN Unlocked(f, 0)
                       ELSE ~f.lock /\ (Unlocks(f.code) \/ UnlocksAll(f.code))
      <4>1. CASE u = tsk.runtsk
        <5>1. saved[u] = [exc |-> TRUE, f |-> ctx[1]]
          BY <1>4, <2>2, <4>1
        <5>2. saved[u].f = ctx[1] /\ saved[u].exc
          BY <5>1
        <5> HIDE DEF saved
        <5> QED BY <1>3, <5>2
      <4>2. CASE u # tsk.runtsk
        <5>1. saved[u] = tsk.saved[u]
          BY <1>4, <2>2, <4>2
        <5> HIDE DEF saved
        <5> QED BY <1>4, <5>1 DEF Resumable
      <4> QED BY <4>1, <4>2
    <3> HIDE DEF saved
    <3> QED BY <3>1, <3>2 DEF Resumable
  <2> QED BY <2>1, <2>2
<1> HIDE DEF saved
<1>6. /\ tsk' \in Tsk /\ tsk'.runtsk = t /\ tsk'.schedtsk = t /\ tsk'.saved = saved
      /\ tsk'.dspflg = tsk.dspflg
  BY <1>2, <1>4, <1>5
<1>7. Settled' /\ SavedOK'
  BY <1>5, <1>6 DEF Settled, SavedOK
<1>8. /\ c \in Seq(Instruction)
      /\ \/ Kind' = "none" /\ Begins(c, "return_thread", 0)
         \/ /\ Kind' = "thread" /\ Begins(c, "lock_flag", TRUE)
            /\ Begins(Tail(c), "return_thread", 0)
         \/ Kind' = "exc" /\ Begins(c, "return_exc", 0)
  <2>0. PICK p, q, r : Is(p, "return_thread", 0) /\ Is(q, "lock_flag", TRUE) /\ Is(r, "return_exc", 0)
    BY DEF Is
  <2>1. p \in Instruction /\ q \in Instruction /\ r \in Instruction
    BY <2>0, Words DEF Is, Numeric, Jumps
  <2>2. c = IF t = NULL THEN <<p>> ELSE IF ~saved[t].exc THEN <<q, p>> ELSE <<r>>
    BY <2>0 DEF Is
  <2>3. Kind' = IF t = NULL THEN "none" ELSE IF saved[t].exc THEN "exc" ELSE "thread"
    BY <1>6 DEF Kind
  <2> HIDE DEF c
  <2>4. CASE t = NULL
    <3>1. c = <<p>> /\ c \in Seq(Instruction) /\ c # <<>> /\ Head(c) = p
      BY <2>1, <2>2, <2>4
    <3> QED BY <2>0, <2>3, <2>4, <3>1 DEF Begins, Is
  <2>5. CASE t # NULL /\ ~saved[t].exc
    <3>1. c = <<q, p>> /\ c \in Seq(Instruction)
      BY <2>1, <2>2, <2>5
    <3>2. c # <<>> /\ Head(c) = q /\ Tail(c) = <<p>> /\ <<p>> # <<>> /\ Head(<<p>>) = p
      BY <3>1, PairCode
    <3> QED BY <2>0, <2>3, <2>5, <3>1, <3>2 DEF Begins, Is
  <2>6. CASE t # NULL /\ saved[t].exc
    <3>1. c = <<r>> /\ c \in Seq(Instruction) /\ c # <<>> /\ Head(c) = r
      BY <2>1, <2>2, <2>6
    <3> QED BY <2>0, <2>3, <2>6, <3>1 DEF Begins, Is
  <2> QED BY <2>4, <2>5, <2>6
<1> HIDE DEF c
<1>9. g \in Frame /\ g.code = c /\ g.who = Running.who /\ g.entry = Running.entry
  <2>1. c \in Seq(Instruction)
    BY <1>8
  <2>2. Running \in Frame
    BY <1>3
  <2> QED BY <2>1, <2>2 DEF Frame
<1> HIDE DEF g
<1>10. GoesOn /\ Running' = g
  BY <1>2, <1>9, GoesFacts, StackFacts DEF GoesOn
<1>11. ctx'[1] = ctx[1] /\ Mask' = Mask
  <2>1. ctx'[1] = ctx[1]
    BY <1>1, <1>10 DEF GoesOn
  <2> QED BY <2>1 DEF Mask
<1>12. MaskRaised(g, 0, Settled', Kind')
  BY <1>1, <1>7, <1>8, <1>9 DEF MaskRaised
<1>13. GoesRight(Mask')
  <2>1. Running.who \notin IntNo
    BY <1>1, Whos
  <2> QED BY <1>1, <1>2, <1>10, <1>11, <1>12, <2>1 DEF GoesRight, PointOf
<1>14. StackOK' /\ PointsOK'
  BY <1>1, <1>10, <1>11, <1>13, Moves
<1>15. TypeOK'
  BY <1>2, <1>6, <1>9, <1>10 DEF IInv, TypeOK, GoesOn
<1>16. MaskOK' /\ RequestedOK'
  BY <1>2, <1>6, <1>7, <1>11 DEF IInv, MaskOK, RequestedOK
<1> QED BY <1>7, <1>14, <1>15, <1>16 DEF IInv

-----------------------------------------------------------------------------
(* Entry to and return from handlers. *)

\* The stack with one context more.
LEMMA PushFacts ==
  ASSUME Managed, IInv, NEW g \in Frame, ctx' = Append(ctx, g)
  PROVE  /\ ctx' \in Seq(Frame) /\ Top' = Top + 1
         /\ \A k \in 1 .. Top : ctx'[k] = ctx[k]
         /\ ctx'[Top'] = g /\ Running' = g /\ Mask' = Mask /\ ctx'[1] = ctx[1]
<1>1. ctx \in Seq(Frame) /\ Top \in Nat \ {0} /\ Top = Len(ctx)
  BY StackFacts DEF IInv, TypeOK, Top
<1>2. /\ ctx' \in Seq(Frame) /\ Len(ctx') = Len(ctx) + 1
      /\ \A k \in 1 .. Len(ctx) : ctx'[k] = ctx[k]
      /\ ctx'[Len(ctx) + 1] = g
  BY <1>1, AppendProperties
<1>3. Top' = Top + 1
  BY <1>2 DEF Top
<1>4. \A k \in 1 .. Top : ctx'[k] = ctx[k]
  BY <1>1, <1>2
<1>5. ctx'[Top'] = g
  BY <1>1, <1>2, <1>3
<1>6. Running' = ctx'[Top']
  BY DEF Running, Last, Top
<1>7. ctx'[1] = ctx[1]
  BY <1>1, <1>4
<1>8. Mask' = Mask
  BY <1>7 DEF Mask
<1> QED BY <1>2, <1>3, <1>4, <1>5, <1>6, <1>7, <1>8

\* A context is put on the stack.
LEMMA Pushes ==
  ASSUME Managed, IInv, NEW g \in Frame, ctx' = Append(ctx, g),
         Running.who # "exc", g.who # "thread", g.who = "PendSV" => Top = 1,
         g.who = "exc" => ~g.lock /\ g.code = <<>>,
         g.who \in IntNo => Begins(g.code, "push_basepri", 0),
         PointOf(g, hw'.basepri, hw'.lock_flag, Mask, hw'.saved_iipm, Settled', Kind'),
         IF g.who = "exc"
         THEN PointOf(Running, g.entry, g.flag, Mask, hw'.saved_iipm, Settled', Kind')
         ELSE Unlocked(Running, Mask)
  PROVE  StackOK' /\ PointsOK'
<1>1. /\ ctx' # <<>> /\ Top' = Top + 1 /\ \A k \in 1 .. Top : ctx'[k] = ctx[k]
      /\ ctx'[Top'] = g /\ Running' = g /\ Mask' = Mask
  BY PushFacts, StackFacts DEF Top
<1>2. Top \in Nat \ {0} /\ Running = ctx[Top] /\ Top \in 1 .. Top
  BY StackFacts
<1>3. \A k \in 1 .. Top' : k \in 1 .. Top \/ k = Top'
  BY <1>1, <1>2
<1>4. StackOK'
  <2>1. ASSUME NEW k \in 1 .. Top'
        PROVE  /\ (ctx'[k].who = "thread") = (k = 1)
               /\ ctx'[k].who = "PendSV" => k = 2
               /\ ctx'[k].who = "exc" => k = Top' /\ ~ctx'[k].lock
               /\ ctx'[k].who \in IntNo => \/ Begins(ctx'[k].code, "push_basepri", 0)
                                           \/ ctx'[k].entry = Mask'
    <3>1. CASE k \in 1 .. Top
      <4>1. /\ (ctx[k].who = "thread") = (k = 1)
            /\ ctx[k].who = "PendSV" => k = 2
            /\ ctx[k].who = "exc" => k = Top
            /\ ctx[k].who \in IntNo => \/ Begins(ctx[k].code, "push_basepri", 0)
                                       \/ ctx[k].entry = Mask
        BY <3>1 DEF IInv, StackOK
      <4>2. ctx[k].who # "exc"
        BY <1>2, <4>1
      <4> QED BY <1>1, <3>1, <4>1, <4>2
    <3>2. CASE k = Top'
      <4>1. k # 1 /\ (Top = 1 => k = 2)
        BY <1>1, <1>2, <3>2
      <4> QED BY <1>1, <3>2, <4>1
    <3> QED BY <1>3, <3>1, <3>2
  <2> QED BY <1>1, <2>1 DEF StackOK
<1>5. PointsOK'
  <2>1. Point(Top, hw.basepri, hw.lock_flag)'
    BY <1>1 DEF Point
  <2>2. Top' - 1 = Top
    BY <1>1, <1>2
  <2>3. Running'.who = "exc" => /\ Point(Top - 1, Running.entry, Running.flag)'
                                /\ Running'.code = <<>>
    <3>1. ctx'[Top' - 1] = Running
      BY <1>1, <1>2, <2>2
    <3> QED BY <1>1, <3>1 DEF Point
  <2>4. ASSUME NEW k \in 1 .. Top', k < (IF Running'.who = "exc" THEN Top' - 1 ELSE Top')
        PROVE  Unlocked(ctx'[k], Mask')
    <3>1. k \in 1 .. Top /\ ctx'[k] = ctx[k]
      <4>1. k # Top'
        BY <1>2, <2>2, <2>4
      <4> QED BY <1>1, <1>3, <4>1
    <3>2. CASE k = Top
      BY <1>1, <1>2, <2>2, <2>4, <3>1, <3>2
    <3>3. CASE k # Top
      <4>1. k < Top
        BY <1>2, <3>1, <3>3
      <4>2. Unlocked(ctx[k], Mask)
        BY <3>1, <4>1 DEF IInv, PointsOK
      <4> QED BY <1>1, <3>1, <4>2
    <3> QED BY <3>2, <3>3
  <2> QED BY <2>1, <2>3, <2>4 DEF PointsOK
<1> QED BY <1>4, <1>5

\* The stack with one context less.
LEMMA PopFacts ==
  ASSUME Managed, IInv, Top # 1, ctx' = Front(ctx)
  PROVE  /\ ctx' \in Seq(Frame) /\ ctx' # <<>> /\ Top' = Top - 1 /\ Top' \in 1 .. Top
         /\ \A k \in 1 .. Top' : ctx'[k] = ctx[k]
         /\ Running' = ctx[Top'] /\ Mask' = Mask /\ ctx'[1] = ctx[1]
<1>1. ctx \in Seq(Frame) /\ Top \in Nat \ {0} /\ Top = Len(ctx)
  BY StackFacts DEF IInv, TypeOK, Top
<1>2. ctx' = SubSeq(ctx, 1, Len(ctx) - 1) /\ Len(ctx) - 1 \in 1 .. Len(ctx)
  BY <1>1 DEF Front
<1>3. /\ ctx' \in Seq(Frame) /\ Len(ctx') = Len(ctx) - 1
      /\ \A k \in 1 .. Len(ctx) - 1 : ctx'[k] = ctx[k]
  BY <1>1, <1>2
<1>4. Top' = Top - 1 /\ Top' \in 1 .. Top /\ ctx' # <<>>
  <2>1. Top' = Len(ctx')
    BY DEF Top
  <2>2. Top' = Top - 1 /\ Top' \in 1 .. Top
    BY <1>1, <1>2, <1>3, <2>1
  <2>3. ctx' # <<>>
    BY <1>1, <1>3, <2>1, <2>2
  <2> QED BY <2>2, <2>3
<1>5. \A k \in 1 .. Top' : ctx'[k] = ctx[k]
  BY <1>1, <1>3, <1>4
<1>6. Running' = ctx'[Top']
  BY DEF Running, Last, Top
<1>7. 1 \in 1 .. Top' /\ Top' \in 1 .. Top'
  BY <1>1, <1>4
<1>8. Running' = ctx[Top'] /\ ctx'[1] = ctx[1]
  BY <1>5, <1>6, <1>7
<1>9. Mask' = Mask
  BY <1>8 DEF Mask
<1> QED BY <1>3, <1>4, <1>5, <1>8, <1>9

\* The running context is taken from the stack.
LEMMA Pops ==
  ASSUME Managed, IInv, Top # 1, ctx' = Front(ctx),
         PointOf(ctx[Top - 1], hw'.basepri, hw'.lock_flag, Mask, hw'.saved_iipm, Settled', Kind')
  PROVE  StackOK' /\ PointsOK'
<1>1. /\ ctx' # <<>> /\ Top' = Top - 1 /\ Top' \in 1 .. Top
      /\ \A k \in 1 .. Top' : ctx'[k] = ctx[k]
      /\ Running' = ctx[Top'] /\ Mask' = Mask
  BY PopFacts
<1>2. Top \in Nat \ {0} /\ Running = ctx[Top]
  BY StackFacts
<1>3. \A k \in 1 .. Top' : k \in 1 .. Top /\ k # Top
  BY <1>1, <1>2
<1>4. ASSUME NEW k \in 1 .. Top'
      PROVE  /\ (ctx[k].who = "thread") = (k = 1)
             /\ ctx[k].who = "PendSV" => k = 2
             /\ ctx[k].who # "exc"
             /\ ctx[k].who \in IntNo => \/ Begins(ctx[k].code, "push_basepri", 0)
                                        \/ ctx[k].entry = Mask
  BY <1>3 DEF IInv, StackOK
<1>5. StackOK'
  BY <1>1, <1>4 DEF StackOK
<1>6. PointsOK'
  <2>1. Running'.who # "exc"
    <3>1. Top' \in 1 .. Top'
      BY <1>1, <1>2
    <3> QED BY <1>1, <1>4, <3>1
  <2>2. Point(Top, hw.basepri, hw.lock_flag)'
    <3>1. Top' \in 1 .. Top' /\ Top' = Top - 1
      BY <1>1, <1>2
    <3> QED BY <1>1, <3>1 DEF Point
  <2>3. ASSUME NEW k \in 1 .. Top', k < Top'
        PROVE  Unlocked(ctx'[k], Mask')
    <3>1. k \in 1 .. Top /\ k < (IF Running.who = "exc" THEN Top - 1 ELSE Top)
      BY <1>1, <1>2, <2>3
    <3>2. Unlocked(ctx[k], Mask)
      BY <3>1 DEF IInv, PointsOK
    <3> QED BY <1>1, <3>2
  <2> QED BY <2>1, <2>2, <2>3 DEF PointsOK
<1> QED BY <1>5, <1>6

\* A context that begins.
LEMMA NewFrame ==
  ASSUME Managed, NEW who \in IntNo \cup {"thread", "PendSV", "exc"}, NEW code \in Seq(Instruction)
  PROVE  /\ Context(who, code) \in Frame /\ Context(who, code).who = who
         /\ Context(who, code).code = code /\ ~Context(who, code).lock
BY DEF Context, Frame, TIPM_ENAALL

\* What no step above the thread touches.
LEMMA Undisturbed ==
  ASSUME Managed, IInv, ctx' \in Seq(Frame), ctx'[1] = ctx[1], hw' \in Cpu, hw'.ena = hw.ena,
         tsk' = tsk, disabled' = disabled
  PROVE  /\ TypeOK' /\ MaskOK' /\ SavedOK' /\ Settled' = Settled /\ Kind' = Kind /\ Mask' = Mask
         /\ (Unlocked(ctx[1], Mask) => Settled) => RequestedOK'
<1>1. TypeOK'
  BY DEF IInv, TypeOK
<1>2. MaskOK' /\ Settled' = Settled
  BY DEF IInv, MaskOK, Settled
<1>3. SavedOK' /\ Kind' = Kind /\ Mask' = Mask
  BY DEF IInv, SavedOK, Kind, Mask
<1>4. ASSUME Unlocked(ctx[1], Mask) => Settled
      PROVE  RequestedOK'
  BY <1>2, <1>3, <1>4 DEF RequestedOK
<1> QED BY <1>1, <1>2, <1>3, <1>4

LEMMA RequestKeeps ==
  ASSUME Managed, IInv, NEW i \in IntNo, Request(i)
  PROVE  IInv'
<1>1. hw' = [hw EXCEPT !.pend = @ \cup {i}] /\ hw \in Cpu /\ ctx' = ctx /\ tsk' = tsk
      /\ disabled' = disabled
  BY DEF Request, IInv, TypeOK
<1>2. /\ hw' \in Cpu /\ hw'.ena = hw.ena /\ hw'.pendsv = hw.pendsv
      /\ hw'.basepri = hw.basepri /\ hw'.saved_iipm = hw.saved_iipm
      /\ hw'.lock_flag = hw.lock_flag
  <2>1. hw' \in Cpu
    <3>1. PICK p \in SUBSET IntNo : p = hw.pend \cup {i}
      BY <1>1 DEF Cpu
    <3>2. hw' = [hw EXCEPT !.pend = p]
      BY <1>1, <3>1
    <3> QED BY <1>1, <3>2 DEF Cpu
  <2>2. /\ hw'.ena = hw.ena /\ hw'.pendsv = hw.pendsv
        /\ hw'.basepri = hw.basepri /\ hw'.saved_iipm = hw.saved_iipm
        /\ hw'.lock_flag = hw.lock_flag
    BY <1>1, Zenon DEF Cpu
  <2> QED BY <2>1, <2>2
<1>3. TypeOK' /\ MaskOK' /\ SavedOK' /\ Settled' = Settled /\ Kind' = Kind /\ Mask' = Mask
  BY <1>1, <1>2, Undisturbed DEF IInv, TypeOK
<1>4. Top' = Top /\ Running' = Running
  BY <1>1 DEF Top, Running
<1>5. StackOK'
  BY <1>1, <1>3, <1>4 DEF IInv, StackOK
<1>6. PointsOK'
  BY <1>1, <1>2, <1>3, <1>4 DEF IInv, PointsOK, Point
<1>7. RequestedOK'
  BY <1>1, <1>2, <1>3, <1>4 DEF IInv, RequestedOK
<1> QED BY <1>3, <1>5, <1>6, <1>7 DEF IInv

\* An exception of the priority of PendSV, or of an interrupt, is accepted
\* only where nothing is masked beyond the mask of the thread.
LEMMA AcceptedAt ==
  ASSUME Managed, IInv, NEW pri \in IIPM_LOCK .. INT_NVIC_PRI(-1), Accepts(pri)
  PROVE  /\ Unlocked(Running, Mask) /\ hw.basepri = Mask /\ hw.saved_iipm = Mask
         /\ ~hw.lock_flag /\ Running.who # "exc"
         /\ pri = INT_NVIC_PRI(-1) => Top = 1 /\ Mask = 0
<1>1. /\ Running = ctx[Top] /\ Top \in DOMAIN ctx /\ Running \in Frame /\ Top \in Nat \ {0}
      /\ DOMAIN ctx = 1 .. Top
  BY StackFacts
<1>2. pri < Priority(Running) /\ (hw.basepri = 0 \/ pri < hw.basepri)
  BY <1>1 DEF Accepts, Managed
<1>3. IIPM_LOCK \in 1 .. 255 /\ INT_NVIC_PRI(-1) \in IIPM_LOCK .. 255 /\ pri \in Int
      /\ IIPM_LOCK <= pri /\ pri <= INT_NVIC_PRI(-1)
  BY Levels
<1>4. Running.who # "exc"
  <2>1. ASSUME Running.who = "exc" PROVE Priority(Running) = -1
    BY <2>1 DEF Priority
  <2>2. 0 - 1 = -1
    OBVIOUS
  <2> QED BY <1>2, <1>3, <2>1
<1>5. PointOf(Running, hw.basepri, hw.lock_flag, Mask, hw.saved_iipm, Settled, Kind)
  BY <1>1 DEF IInv, PointsOK, Point
<1>6. ~(hw.basepri \in 1 .. IIPM_LOCK)
  BY <1>2, <1>3
<1>7. /\ Unlocked(Running, Mask) /\ hw.basepri = Mask /\ hw.saved_iipm = Mask /\ ~hw.lock_flag
  BY <1>4, <1>5, <1>6 DEF PointOf
<1>8. ASSUME pri = INT_NVIC_PRI(-1) PROVE Top = 1 /\ Mask = 0
  <2>1. Running.who # "PendSV"
    BY <1>2, <1>3, <1>8 DEF Priority
  <2>2. Running.who \notin IntNo
    <3>1. ASSUME Running.who \in IntNo PROVE FALSE
      <4>1. Priority(Running) = INT_NVIC_PRI(intpri[Running.who])
        BY <3>1, Whos DEF Priority
      <4>2. INT_NVIC_PRI(intpri[Running.who]) \in IIPM_LOCK .. INT_NVIC_PRI(-1)
        BY <3>1, Levels
      <4> QED BY <1>2, <1>3, <1>8, <4>1, <4>2
    <3> QED BY <3>1
  <2>3. Running.who = "thread"
    BY <1>1, <1>4, <2>1, <2>2 DEF Frame
  <2>4. Top = 1
    BY <2>3, StackFacts
  <2>5. ctx[1].ipm \in Ipms \cup {TIPM_ENAALL}
    BY <1>1, <2>4 DEF Frame
  <2>6. Mask \in 0 .. 255 /\ Mask <= INT_NVIC_PRI(-1)
    BY <2>5, Levels DEF Mask
  <2> QED BY <1>2, <1>3, <1>7, <1>8, <2>4, <2>6
<1> QED BY <1>4, <1>7, <1>8

LEMMA TakePendSVKeeps ==
  ASSUME Managed, IInv, TakePendSV
  PROVE  IInv'
<1> DEFINE g == Context("PendSV", pendsv_handler)
<1>1. /\ Unlocked(Running, Mask) /\ hw.basepri = 0 /\ hw.saved_iipm = 0 /\ Mask = 0
      /\ ~hw.lock_flag /\ Running.who # "exc" /\ Top = 1
  <2>1. INT_NVIC_PRI(-1) \in IIPM_LOCK .. INT_NVIC_PRI(-1)
    BY Levels
  <2>2. Accepts(INT_NVIC_PRI(-1))
    BY DEF TakePendSV, AcceptsPendSV
  <2> QED BY <2>1, <2>2, AcceptedAt
<1>2. /\ ctx' = Append(ctx, g) /\ hw' = [hw EXCEPT !.pendsv = FALSE] /\ hw \in Cpu
      /\ tsk' = tsk /\ disabled' = disabled
  BY DEF TakePendSV, IInv, TypeOK
<1>3. /\ pendsv_handler \in Seq(Instruction) /\ Begins(pendsv_handler, "basepri", IIPM_LOCK)
      /\ Begins(Tail(pendsv_handler), "switch", 0)
  <2>0. PICK p, q : Is(p, "basepri", IIPM_LOCK) /\ Is(q, "switch", 0)
    BY DEF Is
  <2>1. p \in Instruction /\ q \in Instruction
    BY <2>0, Words DEF Is, Numeric, Jumps
  <2>2. pendsv_handler = <<p>> \o <<q>>
    BY <2>0 DEF pendsv_handler, Is, Managed
  <2>3. <<q>> \in Seq(Instruction) /\ <<q>> # <<>> /\ Head(<<q>>) = q
    BY <2>1
  <2>4. /\ pendsv_handler \in Seq(Instruction) /\ pendsv_handler # <<>>
        /\ Head(pendsv_handler) = p /\ Tail(pendsv_handler) = <<q>>
    BY <2>1, <2>2, <2>3, OneThen
  <2> QED BY <2>0, <2>3, <2>4 DEF Begins, Is
<1>4. g \in Frame /\ g.who = "PendSV" /\ g.code = pendsv_handler
  BY <1>3, NewFrame
<1> HIDE DEF g
<1>5. hw' \in Cpu /\ hw'.ena = hw.ena /\ hw'.basepri = 0 /\ hw'.saved_iipm = 0 /\ ~hw'.lock_flag
  <2>1. PICK p \in BOOLEAN : hw' = [hw EXCEPT !.pendsv = p]
    BY <1>2
  <2> QED BY <1>1, <1>2, <2>1 DEF Cpu
<1>6. /\ ctx' \in Seq(Frame) /\ ctx'[1] = ctx[1] /\ Top' = 2 /\ ctx'[2] = g
  <2>1. ctx' \in Seq(Frame) /\ ctx'[1] = ctx[1] /\ Top' = Top + 1 /\ ctx'[Top'] = g
    BY <1>2, <1>4, PushFacts
  <2>2. Top' = 2
    BY <1>1, <2>1
  <2> QED BY <2>1, <2>2
<1>7. TypeOK' /\ MaskOK' /\ SavedOK' /\ Settled' = Settled /\ Kind' = Kind /\ Mask' = Mask
  BY <1>2, <1>5, <1>6, Undisturbed
<1>8. Unlocked(g, Mask)
  BY <1>1, <1>3, <1>4 DEF Unlocked
<1>9. PointOf(g, hw'.basepri, hw'.lock_flag, Mask, hw'.saved_iipm, Settled', Kind')
  BY <1>1, <1>5, <1>8 DEF PointOf
<1>10. g.who \notin IntNo /\ g.who # "thread" /\ g.who # "exc"
  BY <1>4, Whos
<1>11. StackOK' /\ PointsOK'
  BY <1>1, <1>2, <1>4, <1>9, <1>10, Pushes
<1>12. RequestedOK'
  BY <1>4, <1>6 DEF RequestedOK
<1> QED BY <1>7, <1>11, <1>12 DEF IInv

\* What the stack keeps of the requests when a context is put on it.
LEMMA PushRequested ==
  ASSUME Managed, IInv, NEW g \in Frame, ctx' = Append(ctx, g), tsk' = tsk,
         hw'.pendsv = hw.pendsv
  PROVE  RequestedOK'
<1>1. /\ Top' = Top + 1 /\ \A k \in 1 .. Top : ctx'[k] = ctx[k]
      /\ Mask' = Mask /\ ctx'[1] = ctx[1]
  BY PushFacts
<1>2. Top \in Nat \ {0} /\ \A k \in 1 .. Top : k \in 1 .. Top'
  BY <1>1, StackFacts
<1>3. Settled' = Settled
  BY DEF Settled
<1>4. ASSUME Unlocked(ctx[1], Mask)
      PROVE  \/ Settled
             \/ hw.pendsv
             \/ Top' > 1 /\ ctx'[2].who = "PendSV"
             \/ \E k \in 1 .. Top' : ctx'[k].code # <<>> /\ Head(ctx'[k].code)[1] = "request"
  <2>1. \/ Settled
        \/ hw.pendsv
        \/ Top > 1 /\ ctx[2].who = "PendSV"
        \/ \E k \in 1 .. Top : ctx[k].code # <<>> /\ Head(ctx[k].code)[1] = "request"
    BY <1>4 DEF IInv, RequestedOK
  <2>2. Top > 1 => 2 \in 1 .. Top /\ Top' > 1
    BY <1>1, <1>2
  <2> QED BY <1>1, <1>2, <2>1, <2>2
<1> QED BY <1>1, <1>3, <1>4 DEF RequestedOK

LEMMA TakeInterruptKeeps ==
  ASSUME Managed, IInv, NEW i \in IntNo, TakeInterrupt(i)
  PROVE  IInv'
<1> DEFINE g == Context(i, core_int_entry)
<1>1. /\ Unlocked(Running, Mask) /\ hw.basepri = Mask /\ hw.saved_iipm = Mask
      /\ ~hw.lock_flag /\ Running.who # "exc"
  <2>1. INT_NVIC_PRI(intpri[i]) \in IIPM_LOCK .. INT_NVIC_PRI(-1)
    BY Levels
  <2>2. Accepts(INT_NVIC_PRI(intpri[i]))
    BY DEF TakeInterrupt, Accepted
  <2> QED BY <2>1, <2>2, AcceptedAt
<1>2. /\ ctx' = Append(ctx, g) /\ hw' = [hw EXCEPT !.pend = @ \ {i}] /\ hw \in Cpu
      /\ tsk' = tsk /\ disabled' = disabled
  BY DEF TakeInterrupt, IInv, TypeOK
<1>3. /\ core_int_entry \in Seq(Instruction) /\ Begins(core_int_entry, "push_basepri", 0)
      /\ Tail(core_int_entry) = <<>>
  <2>0. PICK p : Is(p, "push_basepri", 0)
    BY DEF Is
  <2>1. p \in Instruction
    BY <2>0, Words DEF Is, Numeric, Jumps
  <2>2. core_int_entry = <<p>>
    BY <2>0 DEF core_int_entry, Is, Managed
  <2>3. core_int_entry # <<>> /\ Head(core_int_entry) = p /\ Tail(core_int_entry) = <<>>
        /\ core_int_entry \in Seq(Instruction)
    BY <2>1, <2>2
  <2> QED BY <2>0, <2>3 DEF Begins, Is
<1>4. g \in Frame /\ g.who = i /\ g.code = core_int_entry /\ ~g.lock
  BY <1>3, NewFrame
<1> HIDE DEF g
<1>5. /\ hw' \in Cpu /\ hw'.ena = hw.ena /\ hw'.basepri = Mask /\ hw'.saved_iipm = Mask
      /\ ~hw'.lock_flag /\ hw'.pendsv = hw.pendsv
  <2>1. hw' \in Cpu
    BY <1>2 DEF Cpu
  <2>2. /\ hw'.ena = hw.ena /\ hw'.basepri = hw.basepri /\ hw'.saved_iipm = hw.saved_iipm
        /\ hw'.lock_flag = hw.lock_flag /\ hw'.pendsv = hw.pendsv
    BY <1>2, Zenon DEF Cpu
  <2> QED BY <1>1, <2>1, <2>2
<1>6. ctx' \in Seq(Frame) /\ ctx'[1] = ctx[1]
  BY <1>2, <1>4, PushFacts
<1>7. TypeOK' /\ MaskOK' /\ SavedOK' /\ Settled' = Settled /\ Kind' = Kind /\ Mask' = Mask
  BY <1>2, <1>5, <1>6, Undisturbed
<1>8. Unlocked(g, Mask)
  BY <1>3, <1>4 DEF Unlocked
<1>9. PointOf(g, hw'.basepri, hw'.lock_flag, Mask, hw'.saved_iipm, Settled', Kind')
  BY <1>5, <1>8 DEF PointOf
<1>10. g.who \notin {"thread", "PendSV", "exc"} /\ g.who \in IntNo
  BY <1>4, Whos
<1>11. StackOK' /\ PointsOK'
  BY <1>1, <1>2, <1>3, <1>4, <1>9, <1>10, Pushes
<1>12. RequestedOK'
  BY <1>2, <1>4, <1>5, PushRequested
<1> QED BY <1>7, <1>11, <1>12 DEF IInv

LEMMA ExceptionEntryKeeps ==
  ASSUME Managed, IInv, core_exc_entry
  PROVE  IInv'
<1> DEFINE g == [Context("exc", <<>>) EXCEPT !.entry = hw.basepri, !.flag = hw.lock_flag]
<1>1. Running.who # "exc" /\ hw \in Cpu
  BY DEF core_exc_entry, IInv, TypeOK
<1>2. ctx' = Append(ctx, g) /\ hw' = hw /\ tsk' = tsk /\ disabled' = disabled
  <2>1. ~V6
    BY DEF Managed
  <2> QED BY <2>1, Zenon DEF core_exc_entry
<1>3. /\ g \in Frame /\ g.who = "exc" /\ g.code = <<>> /\ ~g.lock
      /\ g.entry = hw.basepri /\ g.flag = hw.lock_flag
  <2>1. <<>> \in Seq(Instruction)
    OBVIOUS
  <2>2. PICK f \in Frame : /\ f = Context("exc", <<>>)
                           /\ f.who = "exc" /\ f.code = <<>> /\ ~f.lock
    BY <2>1, NewFrame
  <2>3. f \in Frame /\ f.who = "exc" /\ f.code = <<>> /\ ~f.lock
    BY <2>2
  <2>4. g = [f EXCEPT !.entry = hw.basepri, !.flag = hw.lock_flag]
    BY <2>2
  <2>5. PICK b \in 0 .. 255, l \in BOOLEAN : b = hw.basepri /\ l = hw.lock_flag
    BY <1>1 DEF Cpu
  <2>6. g = [f EXCEPT !.entry = b, !.flag = l]
    BY <2>4, <2>5, Zenon
  <2> HIDE DEF g
  <2>7. g \in Frame
    BY <2>3, <2>6 DEF Frame
  <2>8. g.who = "exc" /\ g.code = <<>> /\ ~g.lock /\ g.entry = b /\ g.flag = l
    BY <2>3, <2>6 DEF Frame
  <2> QED BY <2>5, <2>7, <2>8
<1> HIDE DEF g
<1>4. ctx' \in Seq(Frame) /\ ctx'[1] = ctx[1]
  BY <1>2, <1>3, PushFacts
<1>5. TypeOK' /\ MaskOK' /\ SavedOK' /\ Settled' = Settled /\ Kind' = Kind /\ Mask' = Mask
  BY <1>1, <1>2, <1>4, Undisturbed
<1>6. PointOf(Running, g.entry, g.flag, Mask, hw'.saved_iipm, Settled', Kind')
  BY <1>2, <1>3, <1>5, StackFacts DEF IInv, PointsOK, Point
<1>7. PointOf(g, hw'.basepri, hw'.lock_flag, Mask, hw'.saved_iipm, Settled', Kind')
  BY <1>2, <1>3 DEF PointOf
<1>8. g.who \notin IntNo
  BY <1>3, Whos
<1>9. StackOK' /\ PointsOK'
  BY <1>1, <1>2, <1>3, <1>6, <1>7, <1>8, Pushes
<1>10. RequestedOK'
  BY <1>2, <1>3, PushRequested
<1> QED BY <1>5, <1>9, <1>10 DEF IInv

\* ... and when one is taken from it.
LEMMA PopRequested ==
  ASSUME Managed, IInv, Top # 1, ctx' = Front(ctx), tsk' = tsk, hw'.pendsv = hw.pendsv,
         Running.who # "PendSV",
         Running.code = <<>> \/ Head(Running.code)[1] # "request"
  PROVE  RequestedOK'
<1>1. /\ Top' = Top - 1 /\ Top' \in 1 .. Top /\ \A k \in 1 .. Top' : ctx'[k] = ctx[k]
      /\ Mask' = Mask /\ ctx'[1] = ctx[1]
  BY PopFacts
<1>2. Top \in Nat \ {0} /\ Running = ctx[Top]
  BY StackFacts
<1>3. Settled' = Settled
  BY DEF Settled
<1>4. \A k \in 1 .. Top : k \in 1 .. Top' \/ k = Top
  BY <1>1, <1>2
<1>5. ASSUME Unlocked(ctx[1], Mask)
      PROVE  \/ Settled
             \/ hw.pendsv
             \/ Top' > 1 /\ ctx'[2].who = "PendSV"
             \/ \E k \in 1 .. Top' : ctx'[k].code # <<>> /\ Head(ctx'[k].code)[1] = "request"
  <2>1. \/ Settled
        \/ hw.pendsv
        \/ Top > 1 /\ ctx[2].who = "PendSV"
        \/ \E k \in 1 .. Top : ctx[k].code # <<>> /\ Head(ctx[k].code)[1] = "request"
    BY <1>5 DEF IInv, RequestedOK
  <2>2. CASE Top > 1 /\ ctx[2].who = "PendSV"
    <3>1. Top # 2
      BY <1>2, <2>2
    <3>2. 2 \in 1 .. Top' /\ Top' > 1
      BY <1>1, <1>2, <2>2, <3>1
    <3> QED BY <1>1, <2>2, <3>2
  <2>3. ASSUME NEW k \in 1 .. Top, ctx[k].code # <<>>, Head(ctx[k].code)[1] = "request"
        PROVE  k \in 1 .. Top' /\ ctx'[k] = ctx[k]
    <3>1. k # Top
      BY <1>2, <2>3
    <3> QED BY <1>1, <1>4, <3>1
  <2> QED BY <2>1, <2>2, <2>3
<1> QED BY <1>1, <1>3, <1>5 DEF RequestedOK

LEMMA ReturnFromInterruptKeeps ==
  ASSUME Managed, IInv, ReturnFromInterrupt
  PROVE  IInv'
<1>1. /\ Running.who \in IntNo /\ hw.basepri = Mask /\ hw.saved_iipm = Mask /\ ~hw.lock_flag
      /\ Head(Running.code)[1] = "return"
  <2>1. At("return")
    BY DEF ReturnFromInterrupt
  <2> QED BY <2>1, AtJump DEF At
<1>2. Running.who \notin {"thread", "PendSV", "exc"}
  BY <1>1, Whos
<1>3. ctx' = Front(ctx) /\ hw' = hw /\ tsk' = tsk /\ disabled' = disabled /\ hw \in Cpu
  BY DEF ReturnFromInterrupt, IInv, TypeOK
<1>4. Top # 1
  BY <1>2, StackFacts
<1>5. Unlocked(ctx[Top - 1], Mask)
  <2>1. Top - 1 \in 1 .. Top /\ Top - 1 < (IF Running.who = "exc" THEN Top - 1 ELSE Top)
    BY <1>2, <1>4, StackFacts
  <2> QED BY <2>1 DEF IInv, PointsOK
<1>6. ctx' \in Seq(Frame) /\ ctx'[1] = ctx[1]
  BY <1>3, <1>4, PopFacts
<1>7. TypeOK' /\ MaskOK' /\ SavedOK'
  BY <1>3, <1>6, Undisturbed
<1>8. StackOK' /\ PointsOK'
  <2>1. PointOf(ctx[Top - 1], hw'.basepri, hw'.lock_flag, Mask, hw'.saved_iipm, Settled', Kind')
    BY <1>1, <1>3, <1>5 DEF PointOf
  <2> QED BY <1>3, <1>4, <2>1, Pops
<1>9. RequestedOK'
  BY <1>1, <1>2, <1>3, <1>4, PopRequested
<1> QED BY <1>7, <1>8, <1>9 DEF IInv

LEMMA ExceptionExitKeeps ==
  ASSUME Managed, IInv, core_exc_exit
  PROVE  IInv'
<1>1. Running.who = "exc" /\ Running.code = <<>> /\ Running \in Frame /\ hw \in Cpu
  BY StackFacts DEF core_exc_exit, IInv, TypeOK
<1>2. ctx' = Front(ctx) /\ tsk' = tsk /\ disabled' = disabled
  BY DEF core_exc_exit
<1>3. PICK b \in 0 .. 255, l \in BOOLEAN : b = Running.entry /\ l = Running.flag
  BY <1>1 DEF Frame
<1>4. hw' = With(hw, l, b)
  BY <1>3, Zenon DEF core_exc_exit, Managed, With
<1>5. hw' \in Cpu /\ hw'.ena = hw.ena /\ hw'.basepri = b /\ hw'.lock_flag = l
      /\ hw'.saved_iipm = hw.saved_iipm /\ hw'.pendsv = hw.pendsv
  <2>1. hw \in Cpu /\ b \in 0 .. 255 /\ l \in BOOLEAN
    BY <1>1
  <2>2. hw' \in Cpu
    BY ONLY <2>1, <1>4, CpuWith
  <2>3. hw' = [hw EXCEPT !.lock_flag = l, !.basepri = b]
    BY <1>4 DEF With
  <2>4. hw'.ena = hw.ena
    BY <2>1, <2>3 DEF Cpu
  <2>5. hw'.basepri = b
    BY <2>1, <2>3 DEF Cpu
  <2>6. hw'.lock_flag = l
    BY <2>1, <2>3 DEF Cpu
  <2>7. hw'.saved_iipm = hw.saved_iipm
    BY <2>1, <2>3 DEF Cpu
  <2>8. hw'.pendsv = hw.pendsv
    BY <2>1, <2>3 DEF Cpu
  <2> QED BY <2>2, <2>4, <2>5, <2>6, <2>7, <2>8
<1>6. Top # 1
  BY <1>1, StackFacts
<1>7. ctx' \in Seq(Frame) /\ ctx'[1] = ctx[1]
  BY <1>2, <1>6, PopFacts
<1>8. TypeOK' /\ MaskOK' /\ SavedOK' /\ Settled' = Settled /\ Kind' = Kind
  BY <1>2, <1>5, <1>7, Undisturbed
<1>9. StackOK' /\ PointsOK'
  <2>1. PointOf(ctx[Top - 1], b, l, Mask, hw.saved_iipm, Settled, Kind)
    BY <1>1, <1>3 DEF IInv, PointsOK, Point
  <2>2. PointOf(ctx[Top - 1], hw'.basepri, hw'.lock_flag, Mask, hw'.saved_iipm, Settled', Kind')
    BY <1>5, <1>8, <2>1
  <2> QED BY <1>2, <1>6, <2>2, Pops
<1>10. RequestedOK'
  BY <1>1, <1>2, <1>5, <1>6, PopRequested
<1> QED BY <1>8, <1>9, <1>10 DEF IInv

-----------------------------------------------------------------------------
(* Every step keeps the invariant. *)

LEMMA StepKeeps ==
  ASSUME Managed, IInv, [Next]_vars
  PROVE  IInv'
<1>1. CASE UNCHANGED vars
  <2>1. ctx' = ctx /\ hw' = hw /\ tsk' = tsk /\ disabled' = disabled
    BY <1>1 DEF vars
  <2> QED BY <2>1 DEF IInv, TypeOK, StackOK, PointsOK, MaskOK, SavedOK, RequestedOK, Point,
                      Top, Mask, Settled, Kind, Running
<1>2. ASSUME NEW i \in IntNo, Request(i) \/ TakeInterrupt(i)
      PROVE  IInv'
  BY <1>2, RequestKeeps, TakeInterruptKeeps
<1>3. CASE TakePendSV
  BY <1>3, TakePendSVKeeps
<1>4. CASE ~AcceptsPendSV /\ Step
  <2>1. CASE Execute
    BY <1>4, <2>1, ExecuteKeeps
  <2>2. CASE do_dispatch \/ exit_and_dispatch \/ svc_handler \/ Switch \/ ReturnFromPendSV
    BY <2>2, DoDispatchKeeps, ExitKeeps, SvcKeeps, SwitchKeeps, ReturnFromPendSVKeeps
  <2>3. CASE HandlerEnds \/ ReturnFromInterrupt \/ core_exc_entry \/ core_exc_exit
    BY <1>4, <2>3, HandlerEndsKeeps, ReturnFromInterruptKeeps, ExceptionEntryKeeps,
       ExceptionExitKeeps
  <2>4. CASE act_tsk \/ slp_tsk \/ ext_tsk
    BY <1>4, <2>4, ActTskKeeps, SlpTskKeeps, ExtTskKeeps
  <2>5. ASSUME NEW ipm \in Ipms, chg_ipm(ipm)
        PROVE  IInv'
    BY <1>4, <2>5, ChgIpmKeeps
  <2>6. ASSUME NEW lock \in BOOLEAN, LockCall(lock)
        PROVE  IInv'
    BY <1>4, <2>6, LockCallKeeps
  <2>7. ASSUME NEW o \in IntOps, NEW i \in IntNo, IntCall(o, i)
        PROVE  IInv'
    BY <1>4, <2>7, IntCallKeeps
  <2> QED BY <1>4, <2>1, <2>2, <2>3, <2>4, <2>5, <2>6, <2>7, Zenon DEF Step
<1> QED BY <1>1, <1>2, <1>3, <1>4 DEF Next

-----------------------------------------------------------------------------
(* The start of the kernel. *)

\* Configuring the interrupts of a sequence one by one.
LEMMA ConfiguresInOrder ==
  ASSUME NEW h0, NEW q \in Seq(IntNo)
  PROVE  \E a : /\ a[0] = h0
                /\ \A n \in 1 .. Len(q) : a[n] = config_int(a[n - 1], q[n])
                /\ a[Len(q)] = FoldLeft(config_int, h0, q)
<1> DEFINE N == Len(q)
           Value(g, s) == IF s = {} THEN h0
                         ELSE config_int(g[s \ {Max(s)}], q[Max(s)])
           Iterates(g, n) == g = [s \in SUBSET (1 .. n) |-> Value(g, s)]
           T == {n \in 0 .. N : ~ \E g : Iterates(g, n)}
           iter == CHOOSE g : Iterates(g, N)
           a == [n \in 0 .. N |-> iter[1 .. n]]
<1>1. N \in Nat
  OBVIOUS
<1>2. FoldLeft(config_int, h0, q) = iter[1 .. N]
  <2>1. FoldLeft(config_int, h0, q) =
          (CHOOSE g : g = [s \in SUBSET (DOMAIN q) |->
                IF s = {} THEN h0 ELSE config_int(g[s \ {Max(s)}], q[Max(s)])])[DOMAIN q]
    BY Zenon DEF FoldLeft, MapThenFoldSet
  <2>2. DOMAIN q = 1 .. N
    OBVIOUS
  <2> QED BY <2>1, <2>2
<1>3. \A n \in 0 .. N : \E g : Iterates(g, n)
  <2> SUFFICES ASSUME T # {} PROVE FALSE
    OBVIOUS
  <2>1. T \in SUBSET Nat
    BY <1>1
  <2> DEFINE n == Min(T)
  <2>2. n \in T /\ \A m \in T : n <= m
    <3> HIDE DEF T
    <3> QED BY <2>1, SmallestNat
  <2>3. n \in 0 .. N /\ ~ \E g : Iterates(g, n)
    BY <2>2
  <2> HIDE DEF n
  <2>4. n # 0
    <3>1. Iterates([s \in SUBSET (1 .. 0) |-> h0], 0)
      OBVIOUS
    <3> QED BY <2>3, <3>1
  <2>5. PICK g : Iterates(g, n - 1)
    <3>1. n - 1 \in 0 .. N /\ ~(n <= n - 1)
      BY <2>3, <2>4
    <3> QED BY <2>2, <3>1
  <2> DEFINE h == [s \in SUBSET (1 .. n) |->
                      IF n \in s THEN config_int(g[s \ {n}], q[n]) ELSE g[s]]
  <2>6. ASSUME NEW s \in SUBSET (1 .. n) PROVE h[s] = Value(h, s)
    <3>1. n \in Nat /\ n - 1 \in Nat
      BY <2>3, <2>4
    <3>2. CASE n \in s
      <4>1. Max(s) = n
        BY <3>1, <3>2, GreatestOf
      <4>2. s \ {n} \in SUBSET (1 .. n) /\ n \notin s \ {n} /\ s # {}
        BY <3>2
      <4>3. h[s \ {n}] = g[s \ {n}]
        BY <4>2
      <4>4. h[s] = config_int(g[s \ {n}], q[n])
        BY <3>2
      <4> HIDE DEF h
      <4> QED BY <4>1, <4>2, <4>3, <4>4
    <3>3. CASE n \notin s
      <4>1. s \in SUBSET (1 .. (n - 1))
        BY <3>1, <3>3
      <4>2. h[s] = Value(g, s)
        <5>1. h[s] = g[s]
          BY <3>3
        <5> HIDE DEF h, Value
        <5> QED BY <2>5, <4>1, <5>1
      <4>3. s \ {Max(s)} \in SUBSET (1 .. n) /\ n \notin s \ {Max(s)}
        BY <3>3
      <4>4. h[s \ {Max(s)}] = g[s \ {Max(s)}]
        BY <4>3
      <4> HIDE DEF h
      <4> QED BY <4>2, <4>4
    <3> QED BY <3>2, <3>3
  <2>7. Iterates(h, n)
    <3>1. h = [s \in SUBSET (1 .. n) |-> h[s]]
      OBVIOUS
    <3> HIDE DEF h, Value
    <3> QED BY <2>6, <3>1
  <2> QED BY <2>3, <2>7
<1>4. Iterates(iter, N)
  <2> HIDE DEF Iterates
  <2> QED BY <1>1, <1>3
<1> HIDE DEF iter
<1>5. iter[1 .. 0] = h0
  <2>1. 1 .. 0 = {} /\ 1 .. 0 \in SUBSET (1 .. N)
    OBVIOUS
  <2> QED BY <1>4, <2>1
<1>6. ASSUME NEW n \in 1 .. N
      PROVE  iter[1 .. n] = config_int(iter[1 .. (n - 1)], q[n])
  <2>1. /\ 1 .. n \in SUBSET (1 .. N) /\ 1 .. n # {} /\ (1 .. n) \ {n} = 1 .. (n - 1)
        /\ n \in Nat /\ n \in 1 .. n /\ 1 .. n \in SUBSET (1 .. n)
    <3>1. n \in Nat /\ 1 <= n /\ n <= N
      BY <1>1
    <3>2. n \in 1 .. n
      BY <3>1
    <3>5. 1 .. n # {}
      BY <3>2
    <3>3. (1 .. n) \ {n} = 1 .. (n - 1)
      BY <3>1
    <3>4. \A i \in 1 .. n : i \in 1 .. N
      BY <1>1, <3>1
    <3> QED BY <3>1, <3>2, <3>3, <3>4, <3>5
  <2>2. Max(1 .. n) = n
    BY <2>1, GreatestOf
  <2>3. iter[1 .. n] = Value(iter, 1 .. n)
    <3> HIDE DEF Value
    <3> QED BY <1>4, <2>1
  <2> QED BY <2>1, <2>2, <2>3
<1>7. a[0] = h0 /\ a[N] = FoldLeft(config_int, h0, q)
  BY <1>1, <1>2, <1>5
<1>8. \A n \in 1 .. N : a[n] = config_int(a[n - 1], q[n])
  <2> SUFFICES ASSUME NEW n \in 1 .. N PROVE a[n] = config_int(a[n - 1], q[n])
    OBVIOUS
  <2>1. n \in 0 .. N /\ n - 1 \in 0 .. N
    BY <1>1
  <2>2. a[n] = iter[1 .. n] /\ a[n - 1] = iter[1 .. (n - 1)]
    BY <2>1
  <2> QED BY <1>6, <2>2
<1> HIDE DEF a
<1> QED BY <1>7, <1>8

\* What config_int does to the enable bits.
LEMMA ConfigInt ==
  ASSUME Managed, NEW h \in Cpu, NEW i \in IntNo
  PROVE  /\ config_int(h, i) \in Cpu
         /\ config_int(h, i).ena = IF i \in TA_ENAINT THEN h.ena \cup {i} ELSE h.ena \ {i}
         /\ config_int(h, i).basepri = h.basepri /\ config_int(h, i).saved_iipm = h.saved_iipm
         /\ config_int(h, i).lock_flag = h.lock_flag
<1> DEFINE d == [h EXCEPT !.ena = @ \ {i}]
           g == [d EXCEPT !.ena = @ \cup {i}]
<1>1. ~V6
  BY DEF Managed
<1>2. disable_int(h, i) = d /\ enable_int(d, i) = g
  BY <1>1 DEF disable_int, enable_int
<1>3. config_int(h, i) = IF i \in TA_ENAINT THEN g ELSE d
  BY <1>2, Zenon DEF config_int
<1>4. d \in Cpu /\ d.ena = h.ena \ {i} /\ d.basepri = h.basepri
  BY DEF Cpu
<1>5. d.saved_iipm = h.saved_iipm /\ d.lock_flag = h.lock_flag
  BY DEF Cpu
<1> HIDE DEF d
<1>6. g.ena = h.ena \cup {i} /\ g.basepri = h.basepri
  BY <1>4 DEF Cpu
<1>7. g.saved_iipm = h.saved_iipm /\ g.lock_flag = h.lock_flag
  BY <1>4, <1>5 DEF Cpu
<1>8. g \in Cpu
  <2>1. PICK e \in SUBSET IntNo : e = d.ena \cup {i}
    BY <1>4 DEF Cpu
  <2>2. g = [d EXCEPT !.ena = e]
    BY <2>1
  <2> HIDE DEF g
  <2> QED BY <1>4, <2>2 DEF Cpu
<1> HIDE DEF g
<1> QED BY <1>3, <1>4, <1>5, <1>6, <1>7, <1>8

\* SetToSeq lists every interrupt.
LEMMA AllListed ==
  ASSUME Managed
  PROVE  /\ SetToSeq(IntNo) \in Seq(IntNo)
         /\ \A i \in IntNo : \E n \in 1 .. Len(SetToSeq(IntNo)) : SetToSeq(IntNo)[n] = i
<1> DEFINE N == Cardinality(IntNo)
           q == SetToSeq(IntNo)
<1>1. IsFiniteSet(IntNo) /\ N \in Nat
  BY FS_CardinalityType DEF Managed, InterruptsAssumption
<1>2. \E f \in [1 .. N -> IntNo] : IsInjective(f)
  <2>1. ExistsBijection(1 .. N, IntNo)
    BY <1>1, FS_CardinalityType
  <2> QED BY <2>1 DEF ExistsBijection, Bijection, Injection
<1>3. q \in [1 .. N -> IntNo] /\ IsInjective(q)
  BY <1>2 DEF SetToSeq
<1> HIDE DEF q
<1>4. q \in Surjection(1 .. N, IntNo)
  <2>1. q \in Injection(1 .. N, IntNo)
    BY <1>3 DEF Injection
  <2>2. Cardinality(1 .. N) = N
    BY <1>1, FS_Interval
  <2> QED BY <1>1, <2>1, <2>2, FS_Injection
<1>5. q \in Seq(IntNo) /\ Len(q) = N
  BY <1>1, <1>3
<1>6. \A i \in IntNo : \E n \in 1 .. N : q[n] = i
  BY <1>4 DEF Surjection
<1> QED BY <1>5, <1>6 DEF q

\* The registers before the dispatcher starts.
LEMMA Configured ==
  ASSUME Managed
  PROVE  LET h == FoldLeft(config_int, core_initialize, SetToSeq(IntNo))
         IN  /\ h \in Cpu /\ h.ena = TA_ENAINT /\ h.basepri = IIPM_LOCK
             /\ h.saved_iipm = 0 /\ h.lock_flag
<1> DEFINE q == SetToSeq(IntNo)
           N == Len(q)
<1>1. q \in Seq(IntNo) /\ \A i \in IntNo : \E n \in 1 .. N : q[n] = i
  BY AllListed
<1>2. PICK a : /\ a[0] = core_initialize
               /\ \A n \in 1 .. N : a[n] = config_int(a[n - 1], q[n])
               /\ a[N] = FoldLeft(config_int, core_initialize, q)
  <2> HIDE DEF q
  <2> QED BY <1>1, ConfiguresInOrder
<1> HIDE DEF q
<1>3. TA_ENAINT \subseteq IntNo
  BY DEF Managed, InterruptsAssumption
<1> DEFINE Right(h, n) == /\ h \in Cpu /\ h.basepri = IIPM_LOCK /\ h.saved_iipm = 0 /\ h.lock_flag
                          /\ h.ena \subseteq TA_ENAINT
                          /\ \A j \in 1 .. n : q[j] \in TA_ENAINT => q[j] \in h.ena
           T == {n \in 0 .. N : ~Right(a[n], n)}
<1>4. N \in Nat
  BY <1>1
<1>5. Right(a[0], 0)
  <2>1. core_initialize = [lock_flag |-> TRUE, basepri |-> IIPM_LOCK, saved_iipm |-> 0,
                           masks |-> <<>>, current |-> 0, ena |-> {}, pend |-> {},
                           pendsv |-> FALSE]
    BY Levels DEF core_initialize, Managed
  <2>2. core_initialize \in Cpu
    BY <2>1, LockLevel DEF Cpu
  <2>3. /\ core_initialize.basepri = IIPM_LOCK /\ core_initialize.saved_iipm = 0
        /\ core_initialize.lock_flag /\ core_initialize.ena = {}
    BY <2>1
  <2>4. \A j \in 1 .. 0 : FALSE
    OBVIOUS
  <2> QED BY <1>2, <2>2, <2>3, <2>4
<1>6. ASSUME NEW n \in 1 .. N, Right(a[n - 1], n - 1)
      PROVE  Right(a[n], n)
  <2>1. a[n] = config_int(a[n - 1], q[n])
    BY <1>2
  <2>0. q[n] \in IntNo
    BY <1>1
  <2>2. /\ a[n] \in Cpu /\ a[n].basepri = IIPM_LOCK /\ a[n].saved_iipm = 0 /\ a[n].lock_flag
        /\ a[n].ena = IF q[n] \in TA_ENAINT THEN a[n - 1].ena \cup {q[n]}
                      ELSE a[n - 1].ena \ {q[n]}
    <3>1. PICK h \in Cpu, i \in IntNo : h = a[n - 1] /\ i = q[n]
      BY <1>6, <2>0
    <3>2. h.basepri = IIPM_LOCK /\ h.saved_iipm = 0 /\ h.lock_flag
      BY <1>6, <3>1
    <3>3. a[n] = config_int(h, i)
      BY <2>1, <3>1
    <3>4. /\ config_int(h, i) \in Cpu
          /\ config_int(h, i).ena = IF i \in TA_ENAINT THEN h.ena \cup {i} ELSE h.ena \ {i}
          /\ config_int(h, i).basepri = h.basepri /\ config_int(h, i).saved_iipm = h.saved_iipm
      BY ConfigInt
    <3>5. config_int(h, i).lock_flag
      BY <3>2, ConfigInt
    <3> QED BY <3>1, <3>2, <3>3, <3>4, <3>5, Zenon
  <2>3. ASSUME NEW j \in 1 .. n, q[j] \in TA_ENAINT
        PROVE  q[j] \in a[n].ena
    <3>1. CASE j = n
      BY <2>2, <2>3, <3>1
    <3>2. CASE j # n
      <4>1. j \in 1 .. (n - 1)
        BY <1>4, <3>2
      <4>2. q[j] \in a[n - 1].ena
        BY <1>6, <2>3, <4>1
      <4> QED BY <2>2, <2>3, <4>2
    <3> QED BY <3>1, <3>2
  <2>4. a[n].ena \subseteq TA_ENAINT
    BY <1>6, <2>2
  <2> QED BY <2>2, <2>3, <2>4
<1>7. T = {}
  <2> SUFFICES ASSUME T # {} PROVE FALSE
    OBVIOUS
  <2>1. T \in SUBSET Nat
    BY <1>4
  <2> DEFINE n == Min(T)
  <2>2. n \in T /\ \A m \in T : n <= m
    <3> HIDE DEF T
    <3> QED BY <2>1, SmallestNat
  <2> HIDE DEF n, Right
  <2>3. n \in 0 .. N /\ ~Right(a[n], n)
    BY <2>2
  <2>4. n # 0
    BY <1>5, <2>3
  <2>5. n - 1 \in 0 .. N /\ n \in 1 .. N /\ ~(n <= n - 1)
    BY <1>4, <2>3, <2>4
  <2>6. Right(a[n - 1], n - 1)
    BY <2>2, <2>5
  <2> QED BY <1>6, <2>3, <2>5, <2>6
<1>8. Right(a[N], N)
  <2> HIDE DEF Right
  <2> QED BY <1>4, <1>7
<1>9. a[N].ena = TA_ENAINT
  <2>1. \A i \in TA_ENAINT : i \in a[N].ena
    BY <1>1, <1>3, <1>8
  <2> QED BY <1>8, <2>1
<1> QED BY <1>2, <1>8, <1>9 DEF q

\* The invariant holds when the dispatcher starts.
LEMMA InitRight ==
  ASSUME Managed, Init
  PROVE  IInv
<1>1. PICK h : h = FoldLeft(config_int, core_initialize, SetToSeq(IntNo))
  OBVIOUS
<1>2. h \in Cpu /\ h.ena = TA_ENAINT /\ h.basepri = IIPM_LOCK /\ h.saved_iipm = 0 /\ h.lock_flag
  BY <1>1, Configured
<1>3. hw = h /\ disabled = IntNo \ TA_ENAINT
  BY <1>1 DEF Init, Managed
<1>4. PICK f : f = Context("thread", start_r)
  OBVIOUS
<1>5. /\ f \in Frame /\ f.who = "thread" /\ f.ipm = TIPM_ENAALL /\ ~f.lock /\ UnlocksAll(f.code)
      /\ Fresh = [exc |-> FALSE, f |-> f]
  BY <1>4, FreshFrame
<1>6. ctx = <<f>>
  BY <1>4, FreshFrame DEF Init
<1>7. /\ tsk.runtsk = NULL /\ tsk.schedtsk = NULL /\ tsk.saved = [t \in Task |-> Fresh]
      /\ tsk \in [runtsk : Task \cup {NULL}, schedtsk : Task \cup {NULL}, dspflg : BOOLEAN,
                  saved : [Task -> [exc : BOOLEAN, f : Frame]]]
  BY <1>5 DEF Init
<1>8. ctx \in Seq(Frame) /\ ctx # <<>> /\ ctx[1] = f /\ Top = 1 /\ Running = f
  BY <1>5, <1>6 DEF Top, Running, Last
<1>9. Mask = 0 /\ Settled
  BY <1>5, <1>7, <1>8 DEF Mask, MaskOf, Settled
<1>10. TypeOK
  BY <1>2, <1>3, <1>7, <1>8 DEF TypeOK
<1>11. StackOK
  <2>1. f.who \notin IntNo
    BY <1>5, Whos
  <2> QED BY <1>5, <1>8, <2>1 DEF StackOK
<1>12. PointsOK
  <2>1. IIPM_LOCK \in 1 .. IIPM_LOCK
    BY LockLevel
  <2>2. PointOf(f, hw.basepri, hw.lock_flag, 0, hw.saved_iipm, Settled, Kind)
    BY <1>2, <1>3, <1>5, <1>9, <2>1 DEF PointOf, Locked
  <2>3. Point(Top, hw.basepri, hw.lock_flag)
    BY <1>8, <1>9, <2>2 DEF Point
  <2>4. \A k \in 1 .. 1 : ~(k < 1)
    OBVIOUS
  <2> QED BY <1>5, <1>8, <2>3, <2>4 DEF PointsOK
<1>13. MaskOK
  <2>1. hw.ena = IntNo \ disabled
    BY <1>2, <1>3 DEF Managed, InterruptsAssumption
  <2> QED BY <1>5, <1>8, <1>9, <2>1 DEF MaskOK
<1>14. SavedOK
  <2>1. \A t \in Task : tsk.saved[t] = [exc |-> FALSE, f |-> f]
    BY <1>5, <1>7
  <2>2. \A t \in Task : tsk.saved[t].f = f /\ ~tsk.saved[t].exc
    BY <2>1
  <2> QED BY <1>5, <2>2 DEF SavedOK, Resumable
<1>15. RequestedOK
  BY <1>9 DEF RequestedOK
<1> QED BY <1>10, <1>11, <1>12, <1>13, <1>14, <1>15 DEF IInv

-----------------------------------------------------------------------------
(* What the invariant says of the model. *)

\* A context at an unlocked point is in no critical section.
LEMMA UnlockedNotCritical ==
  ASSUME Managed, NEW f, NEW m, Unlocked(f, m)
  PROVE  ~Critical(f)
<1>1. CASE f.code = <<>>
  <2>1. \A o, a : ~Begins(f.code, o, a)
    BY <1>1 DEF Begins
  <2>2. ~f.lock
    BY <2>1 DEF Unlocked, Reads, Locks, LocksAll, Exits, Leaves, Returns
  <2> QED BY <1>1, <2>2 DEF Critical
<1>2. CASE f.code # <<>>
  <2>1. \A o, a : Begins(f.code, o, a) => Head(f.code)[1] = o
    BY DEF Begins
  <2>2. Head(f.code)[1] \in {"get_basepri", "basepri_max", "basepri", "push_basepri", "lock_flag",
                             "pop_basepri", "return"}
    BY <1>2, <2>1 DEF Unlocked, Reads, Locks, LocksAll, Exits, Leaves, Returns
  <2>3. Head(f.code)[1] \notin Kernel \cup IntOps \cup {"switch"}
    BY <2>2 DEF Kernel, IntOps
  <2> QED BY <1>2, <2>3 DEF Critical
<1> QED BY <1>1, <1>2

\* With the mask raised and the flag not set only the dispatcher of PendSV is
\* in one.
LEMMA RaisedCritical ==
  ASSUME Managed, NEW f, NEW m, NEW z, NEW r, MaskRaised(f, m, z, r), Critical(f)
  PROVE  f.code # <<>> /\ Head(f.code)[1] = "switch"
<1>1. \A o, a : Begins(f.code, o, a) => f.code # <<>> /\ Head(f.code)[1] = o
  BY DEF Begins
<1>2. /\ f.code # <<>>
      /\ Head(f.code)[1] \in {"save_iipm", "lock_flag", "restore_iipm", "saved_iipm", "basepri",
                              "pop_basepri", "switch", "return_thread", "return_exc"}
  BY <1>1 DEF MaskRaised, Saves, Flags, Restores, SavesAll, UnlocksAll, EnablesAll, Leaves
<1>3. Head(f.code)[1] \in Kernel \cup IntOps \cup {"switch"}
  BY <1>2 DEF Critical
<1> QED BY <1>2, <1>3 DEF Kernel, IntOps

\* With BASEPRI at the level of the CPU lock, or above, nothing is accepted.
LEMMA NothingAccepted ==
  ASSUME Managed, IInv, hw.basepri \in 1 .. IIPM_LOCK
  PROVE  Accepted \cap KernelManaged = {}
<1> SUFFICES ASSUME NEW i \in IntNo, Accepts(INT_NVIC_PRI(intpri[i])) PROVE FALSE
  BY DEF Accepted, Managed
<1>1. INT_NVIC_PRI(intpri[i]) \in IIPM_LOCK .. INT_NVIC_PRI(-1) /\ INT_NVIC_PRI(-1) \in IIPM_LOCK .. 255
      /\ IIPM_LOCK \in 1 .. 255
  BY Levels
<1>2. hw.basepri = 0 \/ INT_NVIC_PRI(intpri[i]) < hw.basepri
  BY DEF Accepts, Managed
<1> QED BY <1>1, <1>2

\* An interrupt is accepted where the mask of the thread allows it.
LEMMA AcceptedByMask ==
  ASSUME Managed, IInv, hw.basepri = Mask, NEW i \in IntNo
  PROVE  Accepts(INT_NVIC_PRI(intpri[i])) =
            /\ intpri[i] < ctx[1].ipm
            /\ \A k \in 2 .. Len(ctx) : INT_NVIC_PRI(intpri[i]) < Priority(ctx[k])
<1> DEFINE pri == INT_NVIC_PRI(intpri[i])
<1>1. /\ Top \in Nat \ {0} /\ DOMAIN ctx = 1 .. Top /\ Top = Len(ctx) /\ ctx[1] \in Frame
      /\ ctx[1].who = "thread" /\ (Mask = 0) = (ctx[1].ipm = TIPM_ENAALL)
  BY StackFacts DEF Top
<1>2. pri \in 1 .. 255
  BY Levels
<1>3. ctx[1].ipm \in Ipms \cup {TIPM_ENAALL}
  BY <1>1 DEF Frame
<1>4. (Mask = 0 \/ pri < Mask) = (intpri[i] < ctx[1].ipm)
  <2>1. CASE ctx[1].ipm = TIPM_ENAALL
    <3>1. intpri[i] \in Int /\ intpri[i] < 0
      <4>1. PICK P : P = 2^TBITW_IPRI /\ P \in 2 .. 256
        BY Powers DEF Managed, InterruptsAssumption
      <4>2. intpri \in [IntNo -> 0 - P .. -1]
        BY <4>1 DEF Managed, InterruptsAssumption
      <4> QED BY <4>1, <4>2
    <3> QED BY <1>1, <2>1, <3>1 DEF TIPM_ENAALL
  <2>2. CASE ctx[1].ipm # TIPM_ENAALL
    <3>1. (pri < MaskOf(ctx[1].ipm)) = (intpri[i] < ctx[1].ipm)
      BY <1>3, <2>2, Levels
    <3> QED BY <1>1, <2>2, <3>1 DEF Mask
  <2> QED BY <2>1, <2>2
<1>5. Priority(ctx[1]) = 256
  BY <1>1 DEF Priority
<1>6. (\A k \in DOMAIN ctx : pri < Priority(ctx[k])) =
         (\A k \in 2 .. Len(ctx) : pri < Priority(ctx[k]))
  <2> HIDE DEF pri
  <2>1. \A k \in 1 .. Top : k = 1 \/ k \in 2 .. Top
    BY <1>1
  <2>2. \A k \in 2 .. Top : k \in 1 .. Top
    OBVIOUS
  <2>3. pri < 256
    BY <1>2
  <2> QED BY <1>1, <1>5, <2>1, <2>2, <2>3
<1>7. Accepts(pri) = /\ \A k \in DOMAIN ctx : pri < Priority(ctx[k])
                     /\ Mask = 0 \/ pri < Mask
  BY DEF Accepts, Managed
<1> HIDE DEF pri
<1>8. Accepts(pri) = /\ intpri[i] < ctx[1].ipm
                     /\ \A k \in 2 .. Len(ctx) : pri < Priority(ctx[k])
  BY <1>4, <1>6, <1>7, Zenon
<1> QED BY <1>8 DEF pri

\* The invariant implies the interrupt model.
LEMMA Implies ==
  ASSUME Managed, IInv
  PROVE  StandardModelOK
<1>0. /\ Top \in Nat \ {0} /\ DOMAIN ctx = 1 .. Top /\ Running = ctx[Top]
      /\ Top \in 1 .. Top /\ KernelManaged = IntNo
  BY StackFacts DEF Managed
<1>1. PointOf(Running, hw.basepri, hw.lock_flag, Mask, hw.saved_iipm, Settled, Kind)
  BY <1>0 DEF IInv, PointsOK, Point
<1>2. ASSUME NEW j \in 1 .. Top, NEW l \in 1 .. Top, j < l, Critical(ctx[j])
      PROVE  ctx[l].who \notin KernelManaged \cup {"PendSV"} /\ ~Critical(ctx[l])
  <2>1. ~Unlocked(ctx[j], Mask)
    BY <1>2, UnlockedNotCritical
  <2>2. ~(j < (IF Running.who = "exc" THEN Top - 1 ELSE Top))
    BY <2>1 DEF IInv, PointsOK
  <2>3. Running.who = "exc" /\ l = Top /\ j = Top - 1
    <3>1. j < Top
      BY <1>0, <1>2
    <3>2. Running.who = "exc"
      BY <2>2, <3>1
    <3> QED BY <1>0, <1>2, <2>2, <3>2
  <2>4. Running.code = <<>>
    <3>1. ASSUME Running.code # <<>> PROVE FALSE
      <4>1. Top = 2 /\ Unlocked(ctx[1], Mask)
        BY <2>3, <3>1, ExceptionCalls
      <4>2. j = 1
        BY <2>3, <4>1
      <4> QED BY <2>1, <4>1, <4>2
    <3> QED BY <3>1
  <2>5. ~Running.lock
    BY <1>0, <2>3 DEF IInv, StackOK
  <2>6. ctx[l] = Running /\ Running.who \notin IntNo
    BY <1>0, <2>3, Whos
  <2> QED BY <1>0, <2>3, <2>4, <2>5, <2>6 DEF Critical
<1>3. ASSUME Critical(Running)
      PROVE  Accepted \cap KernelManaged = {} /\ (hw.lock_flag \/ At("switch"))
  <2>1. ~Unlocked(Running, Mask)
    BY <1>3, UnlockedNotCritical
  <2>2. ~(Running.code = <<>> /\ ~Running.lock)
    BY <1>3 DEF Critical
  <2>3. hw.basepri \in 1 .. IIPM_LOCK
    BY <1>1, <2>1, <2>2 DEF PointOf
  <2>4. hw.lock_flag \/ At("switch")
    BY <1>1, <1>3, <2>1, <2>2, RaisedCritical DEF PointOf, At
  <2> QED BY <2>3, <2>4, NothingAccepted
<1>4. ASSUME Running.code = <<>>, Running.who # "exc"
      PROVE  /\ hw.lock_flag = Running.lock
             /\ Accepted \cap KernelManaged =
                   IF Running.lock THEN {}
                   ELSE {i \in KernelManaged \ disabled :
                            /\ intpri[i] < ctx[1].ipm
                            /\ \A k \in 2 .. Len(ctx) : INT_NVIC_PRI(intpri[i]) < Priority(ctx[k])}
  <2>1. hw.lock_flag = Running.lock
    BY <1>4, AtRest
  <2>2. CASE Running.lock
    <3>1. hw.basepri \in 1 .. IIPM_LOCK
      BY <1>4, <2>2, AtRest
    <3> QED BY <2>1, <2>2, <3>1, NothingAccepted
  <2>3. CASE ~Running.lock
    <3>1. hw.basepri = Mask
      BY <1>4, <2>3, AtRest
    <3>2. hw.ena = IntNo \ disabled
      BY DEF IInv, MaskOK
    <3>3. Accepted \cap KernelManaged =
             {i \in KernelManaged \ disabled : Accepts(INT_NVIC_PRI(intpri[i]))}
      BY <1>0, <3>2 DEF Accepted
    <3>4. \A i \in KernelManaged \ disabled :
             Accepts(INT_NVIC_PRI(intpri[i])) =
                /\ intpri[i] < ctx[1].ipm
                /\ \A k \in 2 .. Len(ctx) : INT_NVIC_PRI(intpri[i]) < Priority(ctx[k])
      BY <1>0, <3>1, AcceptedByMask
    <3> QED BY <2>1, <2>3, <3>3, <3>4
  <2> QED BY <2>2, <2>3
<1> QED BY <1>0, <1>2, <1>3, <1>4, Zenon DEF StandardModelOK

-----------------------------------------------------------------------------
\* The standard interrupt model holds on every processor with BASEPRI all of
\* whose handlers the kernel manages: core_kernel_impl.h:200-290 and
\* core_support.S:147-482.
THEOREM StandardModelCorrect ==
  ASSUME Managed
  PROVE  Spec => []StandardModelOK
<1>1. Init => IInv
  BY InitRight
<1>2. IInv /\ [Next]_vars => IInv'
  BY StepKeeps
<1>3. IInv => StandardModelOK
  BY Implies
<1> QED BY <1>1, <1>2, <1>3, PTL DEF Spec

\* On such a processor every handler starts with the CPU unlocked, as
\* signal_time asserts, through calls of chg_ipm, which break this on ARMv6-M:
\* core_kernel_impl.h:355-365, core_kernel_impl_v6m.h:171.
THEOREM HandlersStartUnlocked ==
  ASSUME Managed
  PROVE  Spec => LockMasks
<1>1. Init => IInv
  BY InitRight
<1>2. IInv /\ [Next]_vars => IInv'
  BY StepKeeps
<1>3. IInv => StartsUnlocked
  <2> SUFFICES ASSUME IInv, NEW i \in KernelManaged, TakeInterrupt(i)
               PROVE  ~hw.lock_flag
    BY DEF StartsUnlocked
  <2> DEFINE pri == INT_NVIC_PRI(intpri[i])
  <2>1. i \in IntNo /\ Accepts(pri)
    BY DEF TakeInterrupt, Accepted, KernelManaged
  <2>2. pri \in IIPM_LOCK .. INT_NVIC_PRI(-1)
    BY <2>1, Levels
  <2> HIDE DEF pri
  <2> QED BY <2>1, <2>2, AcceptedAt
<1> QED BY <1>1, <1>2, <1>3, PTL DEF Spec, LockMasks
=============================================================================
