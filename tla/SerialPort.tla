----------------------------- MODULE SerialPort -----------------------------
(***************************************************************************)
(* A port of the serial interface driver (syssvc/serial.c): two ring       *)
(* buffers between tasks that write and read characters and the callbacks  *)
(* of the SIO driver (target_serial.cpp).  A semaphore of one permit       *)
(* guards each buffer.  A task holds the permit of the send buffer from    *)
(* wai_sem to sig_sem, except that it leaves the permit to the send        *)
(* callback when it has filled the buffer; a reader that has emptied the   *)
(* receive buffer leaves its permit to the receive callback likewise.      *)
(*                                                                         *)
(* The tasks interleave at every point where the CPU is not locked, in any *)
(* order: their priorities only order the queues of the semaphores.        *)
(***************************************************************************)
EXTENDS Integers, FiniteSets, SequencesExt

CONSTANTS
    Task,                    \* the tasks that use the port
    tskpri,                  \* their priorities
    rcv_bufsz, snd_bufsz,    \* the sizes of the buffers
    NUL, CR, LF, FC_STOP, FC_START,
    RcvChars,                \* the characters that come in
    Strings,                 \* what tasks write
    Lengths,                 \* how many characters tasks read
    Ioctls,                  \* the settings given to serial_ctl_por
    EchoReleases             \* whether a wait of the echo may be ended by others

\* A call that is to write or read no characters does nothing.
ASSUME SerialAssumption ==
    /\ rcv_bufsz \in Nat \ {0} /\ snd_bufsz \in Nat \ {0}
    /\ tskpri \in [Task -> Nat]
    /\ \A s \in Strings : s \in Seq(Range(s)) /\ s # <<>>
    /\ Lengths \subseteq Nat \ {0}
    /\ EchoReleases \in BOOLEAN

VARIABLES
    p,     \* the port: SPCB, the two semaphores, and the SIO port (below)
    call,  \* for each task: where it is in serial_wri_dat or serial_rea_dat
    ended  \* the kernel has ended

vars == <<p, call, ended>>

DefaultIoctl == {"ECHO", "CRLF", "FCSND", "FCRCV"}

BUFCNT_STOP(bufsz)  == (bufsz * 3) \div 4
BUFCNT_START(bufsz) == bufsz \div 2

-----------------------------------------------------------------------------
(* The ring buffers. *)

EmptyRing(bufsz) ==
    [buffer |-> [i \in 0 .. bufsz - 1 |-> NUL], read_ptr |-> 0, write_ptr |-> 0,
     count |-> 0]

INC_PTR(ptr, bufsz) == IF ptr + 1 = bufsz THEN 0 ELSE ptr + 1

Store(r, bufsz, c) ==
    [r EXCEPT !.buffer[r.write_ptr] = c, !.write_ptr = INC_PTR(@, bufsz), !.count = @ + 1]

First(r) == r.buffer[r.read_ptr]

\* The character that is taken out is left in the array, where it is never
\* looked at again; it is cleared here.
Drop(r, bufsz) ==
    [r EXCEPT !.buffer[r.read_ptr] = NUL, !.read_ptr = INC_PTR(@, bufsz), !.count = @ - 1]

-----------------------------------------------------------------------------
(* The semaphores "rcv_sem" and "snd_sem": their permits and the tasks     *)
(* that wait, in priority order (serial.cfg).                              *)

\* A signal when the permit is there fails, which the port remembers.
sig_sem(port, s) ==
    IF port[s].queue # <<>> THEN [port EXCEPT ![s].queue = Tail(@)]
    ELSE IF port[s].cnt = 0 THEN [port EXCEPT ![s].cnt = 1]
    ELSE [port EXCEPT !.errorflag = TRUE]

wai_sem(port, s, t) ==
    LET q == port[s].queue
        i == SelectInSeq(q, LAMBDA u : tskpri[t] < tskpri[u])
    IN  IF port[s].cnt > 0 THEN [port EXCEPT ![s].cnt = @ - 1]
        ELSE [port EXCEPT ![s].queue = IF i = 0 THEN Append(q, t) ELSE InsertAt(q, i, t)]

Waits(t) == Contains(p.rcv_sem.queue, t) \/ Contains(p.snd_sem.queue, t)

-----------------------------------------------------------------------------
(* The SIO port: cbr, the callbacks that are enabled, and tx, the          *)
(* character in the transmitter.                                           *)

sio_snd_chr(port, c) == [port EXCEPT !.tx = c]

Writable(port) == port.tx = NUL

\* Where the transmitter is not free the callback is enabled.
serial_snd_chr(port, c) ==
    IF Writable(port) THEN sio_snd_chr(port, c)
                      ELSE [port EXCEPT !.cbr = @ \cup {"SND"}]

\* A STOP or START that cannot be sent at once is noted.
send_fc(port, c) ==
    [serial_snd_chr(port, c) EXCEPT !.rcv_fc_chr = IF Writable(port) THEN @ ELSE c]

\* The locked part of serial_wri_chr: whether the character goes out at
\* once, and otherwise into the buffer, which it may fill.
AtOnce(port) == port.snd.count = 0 /\ ~port.snd_stopped /\ Writable(port)
Fills(port)  == ~AtOnce(port) /\ port.snd.count + 1 = snd_bufsz

wri_chr(port, c) ==
    LET tried == IF port.snd.count = 0 /\ ~port.snd_stopped
                 THEN serial_snd_chr(port, c) ELSE port
    IN  IF AtOnce(port) THEN tried
        ELSE [tried EXCEPT !.snd = Store(@, snd_bufsz, c)]

\* The first character of the send buffer is sent; a task may fill the room
\* it leaves in a full buffer.
send_first(port) ==
    LET sent == sio_snd_chr(port, First(port.snd))
        room == IF port.snd.count = snd_bufsz THEN sig_sem(sent, "snd_sem") ELSE sent
    IN  [room EXCEPT !.snd = Drop(@, snd_bufsz)]

-----------------------------------------------------------------------------
(* Opening and closing, with dispatching disabled. *)

ClosedPort ==
    [openflag |-> FALSE, errorflag |-> FALSE, ioctl |-> {},
     rcv |-> EmptyRing(rcv_bufsz), rcv_fc_chr |-> NUL, rcv_stopped |-> FALSE,
     snd |-> EmptyRing(snd_bufsz), snd_stopped |-> FALSE,
     rcv_sem |-> [cnt |-> 0, queue |-> <<>>], snd_sem |-> [cnt |-> 1, queue |-> <<>>],
     cbr |-> {}, tx |-> NUL]

Idle == [op |-> "none", pc |-> "none", str |-> <<>>, len |-> 0, empty |-> TRUE, c |-> NUL]

serial_opn_por ==
    /\ ~p.openflag
    /\ p' = [ClosedPort EXCEPT !.openflag = TRUE, !.ioctl = DefaultIoctl,
                               !.rcv_sem = p.rcv_sem, !.snd_sem = p.snd_sem,
                               !.cbr = p.cbr \cup {"RCV"}, !.tx = p.tx]
    /\ UNCHANGED call

\* Reinitializing the semaphores ends the waits for them with E_DLT, and so
\* the calls.  The application closes the port when no task is busy in it.
serial_cls_por ==
    /\ p.openflag
    /\ \A t \in Task : call[t] = Idle \/ Waits(t)
    /\ p' = [p EXCEPT !.openflag = FALSE, !.rcv_sem = ClosedPort.rcv_sem,
                      !.snd_sem = ClosedPort.snd_sem]
    /\ call' = [t \in Task |-> Idle]

serial_ctl_por(ioctl) ==
    /\ p.openflag /\ ~p.errorflag
    /\ p' = [p EXCEPT !.ioctl = ioctl]
    /\ UNCHANGED call

\* What it reports.
serial_ref_por == [reacnt |-> p.rcv.count, wricnt |-> p.snd.count]

-----------------------------------------------------------------------------
(* serial_wri_dat, and serial_wri_chr called by it and for an echo.  pc is *)
(*   wai    before wai_sem(snd_semid)       chr  before serial_wri_chr     *)
(*   crwai  before the wai_sem after a CR   lf   before the LF itself      *)
(*   sig    before sig_sem(snd_semid)                                      *)

Runs(t, pc) == call[t].pc = pc /\ ~Waits(t)

serial_wri_dat(t, str) ==
    /\ call[t] = Idle /\ p.openflag /\ ~p.errorflag
    /\ call' = [call EXCEPT ![t] = [Idle EXCEPT !.op = "write", !.pc = "wai", !.str = str]]
    /\ UNCHANGED p

wai_snd_sem(t) ==
    /\ Runs(t, "wai") \/ Runs(t, "crwai")
    /\ p' = wai_sem(p, "snd_sem", t)
    /\ call' = [call EXCEPT ![t].pc = IF @ = "wai" THEN "chr" ELSE "lf"]

\* What a call does after its characters have been written: a reader goes on
\* reading, as long as it has not read enough.
Resumed(c) ==
    IF c.op = "write" THEN Idle
    ELSE [c EXCEPT !.str = <<>>,
                   !.pc = IF c.len > 0 THEN IF c.empty THEN "rwai" ELSE "rea"
                          ELSE IF c.empty THEN "ret" ELSE "rsig"]

\* Mutant: the permit is given back although the buffer is full.
Written_Signals(c, full) ==
    LET d == [c EXCEPT !.str = Tail(@)] IN
    IF d.str # <<>> THEN [d EXCEPT !.pc = IF full THEN "wai" ELSE "chr"]
                    ELSE [d EXCEPT !.pc = "sig"]

\* The call c after a character, which has filled the buffer or not.
Written(c, full) ==
    LET d == [c EXCEPT !.str = Tail(@)] IN
    IF d.str # <<>> THEN [d EXCEPT !.pc = IF full THEN "wai" ELSE "chr"]
    ELSE IF full THEN Resumed(d)
    ELSE [d EXCEPT !.pc = "sig"]

serial_wri_chr(t) ==
    LET c == Head(call[t].str) IN
    \/ /\ Runs(t, "chr") /\ c = LF /\ "CRLF" \in p.ioctl
       /\ p' = wri_chr(p, CR)
       /\ call' = [call EXCEPT ![t].pc = IF Fills(p) THEN "crwai" ELSE "lf"]
    \/ /\ Runs(t, "lf") \/ (Runs(t, "chr") /\ ~(c = LF /\ "CRLF" \in p.ioctl))
       /\ p' = wri_chr(p, c)
       /\ call' = [call EXCEPT ![t] = Written(@, Fills(p))]

sig_snd_sem(t) ==
    /\ Runs(t, "sig")
    /\ p' = sig_sem(p, "snd_sem")
    /\ call' = [call EXCEPT ![t] = Resumed(@)]

-----------------------------------------------------------------------------
(* serial_rea_dat.  pc is rwai before wai_sem(rcv_semid), rea before       *)
(* serial_rea_chr, rsig before sig_sem(rcv_semid), ret before the return   *)
(* of a call that has emptied the buffer.                                  *)

serial_rea_dat(t, len) ==
    /\ call[t] = Idle /\ p.openflag /\ ~p.errorflag
    /\ call' = [call EXCEPT ![t] = [Idle EXCEPT !.op = "read", !.pc = "rwai", !.len = len]]
    /\ UNCHANGED p

wai_rcv_sem(t) ==
    /\ Runs(t, "rwai")
    /\ p' = wai_sem(p, "rcv_sem", t)
    /\ call' = [call EXCEPT ![t].pc = "rea"]

\* The character read is echoed, or the loop goes on.
serial_rea_chr(t) ==
    LET c    == First(p.rcv)
        p1   == [p EXCEPT !.rcv = Drop(@, rcv_bufsz)]
        more == p1.rcv_stopped /\ p1.rcv.count <= BUFCNT_START(rcv_bufsz)
        d    == [call[t] EXCEPT !.len = @ - 1, !.empty = p1.rcv.count = 0, !.c = c]
    IN  /\ Runs(t, "rea")
        /\ p' = IF more THEN [send_fc(p1, FC_START) EXCEPT !.rcv_stopped = FALSE] ELSE p1
        /\ call' = [call EXCEPT ![t] = IF "ECHO" \in p.ioctl
                                       THEN [d EXCEPT !.pc = "wai", !.str = <<c>>]
                                       ELSE Resumed(d)]

sig_rcv_sem(t) ==
    /\ Runs(t, "rsig")
    /\ p' = sig_sem(p, "rcv_sem")
    /\ call' = [call EXCEPT ![t] = Idle]

return_empty(t) ==
    /\ Runs(t, "ret")
    /\ call' = [call EXCEPT ![t] = Idle]
    /\ UNCHANGED p

\* A wait is ended by rel_wai or ras_ter.  The call gives up where it is: a
\* reader that waits in the echo, with characters left, keeps the permit of
\* the receive buffer for good.
KeepsPermit(t) == call[t].op = "read" /\ call[t].pc # "rea" /\ ~call[t].empty

rel_wai(t) ==
    /\ Waits(t)
    /\ KeepsPermit(t) => EchoReleases
    /\ p' = [p EXCEPT !.rcv_sem.queue = RemoveFirst(@, t), !.snd_sem.queue = RemoveFirst(@, t)]
    /\ call' = [call EXCEPT ![t] = Idle]

-----------------------------------------------------------------------------
(* The callbacks, from interrupt handlers.  A closed port has none.        *)

\* Called when the transmitter is free.
sio_irdy_snd ==
    /\ p.openflag /\ "SND" \in p.cbr /\ Writable(p)
    /\ p' = IF p.rcv_fc_chr # NUL
            THEN [sio_snd_chr(p, p.rcv_fc_chr) EXCEPT !.rcv_fc_chr = NUL]
            ELSE IF ~p.snd_stopped /\ p.snd.count > 0 THEN send_first(p)
            ELSE [p EXCEPT !.cbr = @ \ {"SND"}]
    /\ UNCHANGED call

\* Mutant: where the transmitter is not free the callback is not enabled.
Restarted_NotEnabled ==
    LET p1 == [p EXCEPT !.snd_stopped = FALSE]
    IN  IF p.snd.count > 0 /\ Writable(p1) THEN send_first(p1) ELSE p1

\* Mutant: a character is taken out of the buffer although the transmitter,
\* which is not free, does not take it.
Restarted_Unchecked ==
    LET p1 == [p EXCEPT !.snd_stopped = FALSE]
        p2 == [send_first(p1) EXCEPT !.tx = IF Writable(p1) THEN @ ELSE p1.tx]
    IN  IF p.snd.count = 0 THEN p1
        ELSE IF p2.snd.count = 0 THEN p2
        ELSE [p2 EXCEPT !.cbr = @ \cup {"SND"}]

\* Restarts: the loop ends when the transmitter, which takes one character,
\* is not free, or when the buffer is empty.
Restarted ==
    LET p1 == [p EXCEPT !.snd_stopped = FALSE]
        p2 == IF Writable(p1) THEN send_first(p1) ELSE p1
    IN  IF p.snd.count = 0 THEN p1
        ELSE IF p2.snd.count = 0 THEN p2
        ELSE [p2 EXCEPT !.cbr = @ \cup {"SND"}]

Received(c) ==
    LET p1   == IF p.rcv.count = 0 THEN sig_sem(p, "rcv_sem") ELSE p
        p2   == [p1 EXCEPT !.rcv = Store(@, rcv_bufsz, c)]
        stop == "FCRCV" \in p.ioctl /\ ~p.rcv_stopped
                    /\ p2.rcv.count >= BUFCNT_STOP(rcv_bufsz)
    IN  IF stop THEN [send_fc(p2, FC_STOP) EXCEPT !.rcv_stopped = TRUE] ELSE p2

sio_irdy_rcv(c) ==
    /\ p.openflag /\ "RCV" \in p.cbr
    /\ p' = IF "FCSND" \in p.ioctl /\ c = FC_STOP THEN [p EXCEPT !.snd_stopped = TRUE]
            ELSE IF p.snd_stopped /\ (c = FC_START \/ "FCANY" \in p.ioctl) THEN Restarted
            ELSE IF "FCSND" \in p.ioctl /\ c = FC_START THEN p
            ELSE IF p.rcv.count = rcv_bufsz THEN p
            ELSE Received(c)
    /\ UNCHANGED call

\* The transmitter has sent its character.
transmitted == p.tx # NUL /\ p' = [p EXCEPT !.tx = NUL] /\ UNCHANGED call

-----------------------------------------------------------------------------
(* When the kernel has ended, logtask_terminate takes what was not sent.   *)

ext_ker ==
    /\ ~ended
    /\ ended' = TRUE
    /\ call' = [t \in Task |-> Idle]
    /\ UNCHANGED p

serial_get_chr ==
    /\ p.openflag /\ p.snd.count > 0
    /\ p' = [p EXCEPT !.snd = Drop(@, snd_bufsz)]
    /\ UNCHANGED call

-----------------------------------------------------------------------------
\* serial_initialize
Init == p = ClosedPort /\ call = [t \in Task |-> Idle] /\ ended = FALSE

TaskStep(t) ==
    \/ wai_snd_sem(t) \/ serial_wri_chr(t) \/ sig_snd_sem(t)
    \/ wai_rcv_sem(t) \/ serial_rea_chr(t) \/ sig_rcv_sem(t) \/ return_empty(t)

Running(A) == ~ended /\ A /\ UNCHANGED ended

Next ==
    \/ Running(serial_opn_por) \/ Running(serial_cls_por)
    \/ \E ioctl \in Ioctls : Running(serial_ctl_por(ioctl))
    \/ \E t \in Task :
          \/ Running(TaskStep(t)) \/ Running(rel_wai(t))
          \/ \E str \in Strings : Running(serial_wri_dat(t, str))
          \/ \E len \in Lengths : Running(serial_rea_dat(t, len))
    \/ Running(sio_irdy_snd) \/ \E c \in RcvChars : Running(sio_irdy_rcv(c))
    \/ Running(transmitted)
    \/ ext_ker
    \/ ended /\ serial_get_chr /\ UNCHANGED ended

Spec == Init /\ [][Next]_vars

-----------------------------------------------------------------------------
(* Properties. *)

HoldsSnd(t) == Runs(t, "chr") \/ Runs(t, "lf") \/ Runs(t, "sig")
HoldsRcv(t) == Runs(t, "rea") \/ call[t].pc = "rsig" \/ KeepsPermit(t)

\* One of: the permit is there, one task has it, the callback has to give it
\* back.  Who waits does so for none that is there.
OnePermit(sem, Holds(_), callback) ==
    /\ sem.cnt + Cardinality({t \in Task : Holds(t)}) + (IF callback THEN 1 ELSE 0) = 1
    /\ sem.queue # <<>> => sem.cnt = 0

RingOK(r, bufsz) ==
    r.count \in 0 .. bufsz /\ r.write_ptr = (r.read_ptr + r.count) % bufsz

\* The permits agree with the buffers, whatever tasks and callbacks do in
\* between, so that no signal fails and nothing is taken from an empty or put
\* into a full buffer; and the send callback is enabled while there is
\* something for it to send.
PortOK ==
    p.openflag /\ ~ended =>
        /\ OnePermit(p.snd_sem, HoldsSnd, p.snd.count = snd_bufsz)
        /\ OnePermit(p.rcv_sem, HoldsRcv, p.rcv.count = 0)
        /\ ~p.errorflag
        /\ RingOK(p.snd, snd_bufsz) /\ RingOK(p.rcv, rcv_bufsz)
        /\ (p.snd.count > 0 /\ ~p.snd_stopped) \/ p.rcv_fc_chr # NUL => "SND" \in p.cbr

\* rcv_stopped says whether the other side has been sent a STOP ("STOPを送った
\* 状態か？"): when the STOP or START that is yet to be sent has gone out, it
\* tells the other side what rcv_stopped says.
StopSent ==
    /\ p.rcv_fc_chr = FC_STOP => p.rcv_stopped
    /\ p.rcv_fc_chr = FC_START => ~p.rcv_stopped

Contents(r, bufsz) == [i \in 1 .. r.count |-> r.buffer[(r.read_ptr + i - 1) % bufsz]]

Line == INSTANCE SerialLine WITH
            out   <- Contents(p.snd, snd_bufsz),
            in    <- Contents(p.rcv, rcv_bufsz),
            line  <- p.tx,
            open  <- p.openflag,
            calls <- {t \in Task : call[t].op # "none"},
            waits <- {t \in Task : call[t].op # "none" /\ Waits(t)},
            todo  <- [t \in Task |-> call[t].str],
            crs   <- {t \in Task : call[t].pc \in {"crwai", "lf"}},
            taken <- [t \in Task |-> call[t].c]

\* Characters go out in the order in which tasks put them, and are read in
\* the order in which they came in, each once: none is lost or doubled in a
\* buffer or between a buffer and a task or the transmitter, whatever tasks,
\* callbacks and flow control do meanwhile.
ImplementsLine == Line!Spec
=============================================================================
