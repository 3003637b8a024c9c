------------------------------ MODULE LogTask ------------------------------
(***************************************************************************)
(* The log task (syssvc/logtask.c) between the system log and a serial     *)
(* port: it reads an entry, writes it to the port character by character,  *)
(* and waits there when the send buffer is full.  When the wait is         *)
(* released, or the port has been closed, it goes on with the character    *)
(* after the one that was refused.  Entries are recorded meanwhile by any  *)
(* task and handler, another task waits in logtask_flush, and when the     *)
(* kernel ends logtask_terminate puts out what is left.                    *)
(*                                                                         *)
(* Of the port there is what SerialLine says of its sending, to the log    *)
(* task alone; the application closes it at most once and does not open    *)
(* it again.                                                               *)
(***************************************************************************)
EXTENDS SysLog

CONSTANTS
    MaxLog,       \* how often something is recorded (a bound of the model)
    MaxRelease,   \* how often a wait for room is released (another bound)
    snd_bufsz,    \* the size of the port's send buffer
    LineLength,   \* how many characters a line has
    Masks,        \* masks that are set by the application
    Counts        \* arguments of logtask_flush

LogTaskAssumption == LineLength \in Nat \ {0}

VARIABLES
    log,     \* the data of SysLog
    nlog,    \* the number of calls of syslog_wri_log
    task,    \* the log task: lines that it has to write, and how far it is
    port,    \* the send buffer, and the character that is being sent
    told,    \* the lines that the port has sent
    low,     \* the lines that the low-level output has put out in their place
    failed,  \* how many characters the port has refused
    flush,   \* a task in logtask_flush
    ended    \* the kernel has ended: "no", "draining" the send buffer, "yes"

vars == <<log, nlog, task, port, told, low, failed, flush, ended>>

NoChar == [line |-> EntryLine(NoEntry), i |-> 0]
Char(line, i) == [line |-> line, i |-> i]

\* Told is a line when its last character is out.
LastOf(c) == IF c.i = LineLength THEN <<c.line>> ELSE <<>>

Init ==
    /\ log = syslog_initialize /\ nlog = 0
    /\ task = [pc |-> "start", lines |-> <<>>, i |-> 1]
    /\ port = [open |-> FALSE, out |-> <<>>, tx |-> NoChar]
    /\ told = <<>> /\ low = <<>> /\ failed = 0
    /\ flush = [pc |-> "none", count |-> 0]
    /\ ended = "no"

-----------------------------------------------------------------------------
(* Any task or handler. *)

Record(prio) ==
    /\ nlog < MaxLog
    /\ nlog' = nlog + 1
    /\ log' = syslog_wri_log(log, prio, nlog + 1)
    /\ UNCHANGED <<task, port, told, low, failed, flush>>

Mask(logmask, lowmask) ==
    /\ log' = syslog_msk_log(log, logmask, lowmask)
    /\ UNCHANGED <<nlog, task, port, told, low, failed, flush>>

syslog_fls_log ==
    /\ low' = low \o AllLines(log) /\ log' = Emptied(log)
    /\ UNCHANGED <<nlog, task, port, told, failed, flush>>

-----------------------------------------------------------------------------
(* The log task.  pc is start, mask, say in the beginning, then read or    *)
(* write.                                                                  *)

OpenPort ==
    /\ task.pc = "start"
    /\ port' = [port EXCEPT !.open = TRUE] /\ task' = [task EXCEPT !.pc = "mask"]
    /\ UNCHANGED <<log, nlog, told, low, failed, flush>>

SetMasks ==
    /\ task.pc = "mask"
    /\ log' = syslog_msk_log(log, LOG_UPTO(LOG_NOTICE), LOG_UPTO(LOG_EMERG))
    /\ task' = [task EXCEPT !.pc = "say"]
    /\ UNCHANGED <<nlog, port, told, low, failed, flush>>

SayStarted ==
    /\ task.pc = "say" /\ nlog < MaxLog
    /\ nlog' = nlog + 1 /\ log' = syslog_wri_log(log, LOG_NOTICE, nlog + 1)
    /\ task' = [task EXCEPT !.pc = "read"]
    /\ UNCHANGED <<port, told, low, failed, flush>>

ReadEntry ==
    /\ task.pc = "read" /\ log.count > 0
    /\ task' = [pc |-> "write", lines |-> ReadLines(log), i |-> 1]
    /\ log' = syslog_rea_log(log)
    /\ UNCHANGED <<nlog, port, told, low, failed, flush>>

\* The line without a character.
Broken(line) == [line EXCEPT !.is = "broken"]

\* The log task after a character, with the lines that it has to write.
Written(lines) ==
    [pc    |-> IF lines = <<>> THEN "read" ELSE "write",
     lines |-> lines,
     i     |-> IF task.i < LineLength THEN task.i + 1 ELSE 1]

\* One character: into the transmitter, or into the send buffer when there
\* is room in it.  An error is ignored.
logtask_putc ==
    /\ task.pc = "write"
    /\ LET c    == Char(Head(task.lines), task.i)
           last == task.i = LineLength
       IN  \/ /\ port.open
              /\ \/ /\ port.out = <<>> /\ port.tx = NoChar
                    /\ port' = [port EXCEPT !.tx = c] /\ told' = told \o LastOf(c)
                 \/ /\ ~(port.out = <<>> /\ port.tx = NoChar) /\ Len(port.out) < snd_bufsz
                    /\ port' = [port EXCEPT !.out = Append(@, c)] /\ UNCHANGED told
              /\ task' = Written(IF last THEN Tail(task.lines) ELSE task.lines)
              /\ UNCHANGED failed
           \/ /\ port.open => Len(port.out) = snd_bufsz /\ failed < MaxRelease
              /\ task' = Written((IF last THEN <<>> ELSE <<Broken(c.line)>>) \o Tail(task.lines))
              /\ failed' = failed + 1
              /\ UNCHANGED <<port, told>>
    /\ UNCHANGED <<log, nlog, low, flush>>

-----------------------------------------------------------------------------
(* The port: external.  The application may close it. *)

serial_cls_por ==
    /\ port.open /\ port' = [port EXCEPT !.open = FALSE]
    /\ UNCHANGED <<log, nlog, task, told, low, failed, flush>>

Send ==
    /\ port.open /\ port.tx = NoChar /\ port.out # <<>>
    /\ port' = [port EXCEPT !.tx = Head(port.out), !.out = Tail(@)]
    /\ told' = told \o LastOf(Head(port.out))
    /\ UNCHANGED <<log, nlog, task, low, failed, flush>>

Sent ==
    /\ port.tx # NoChar
    /\ port' = [port EXCEPT !.tx = NoChar]
    /\ UNCHANGED <<log, nlog, task, told, low, failed, flush>>

-----------------------------------------------------------------------------
(* logtask_flush looks at the log, and for a count of zero then at the     *)
(* port; otherwise it looks again later.  A port that is not open ends it  *)
(* with an error.                                                          *)

FlushCall(count) ==
    /\ flush.pc = "none" /\ flush' = [pc |-> "log", count |-> count]
    /\ UNCHANGED <<log, nlog, task, port, told, low, failed>>

FlushLog ==
    /\ flush.pc = "log" /\ log.count <= flush.count
    /\ flush' = [flush EXCEPT !.pc = IF flush.count = 0 THEN "port" ELSE "none"]
    /\ UNCHANGED <<log, nlog, task, port, told, low, failed>>

FlushPort ==
    /\ flush.pc = "port"
    /\ flush' = [flush EXCEPT !.pc = IF ~port.open \/ port.out = <<>> THEN "none" ELSE "log"]
    /\ UNCHANGED <<log, nlog, task, port, told, low, failed>>

-----------------------------------------------------------------------------
(* The end of the kernel stops the tasks and the port.                     *)

ext_ker ==
    /\ ended = "no" /\ ended' = "draining"
    /\ task' = [pc |-> "none", lines |-> <<>>, i |-> 1]
    /\ UNCHANGED <<log, nlog, port, told, low, failed, flush>>

DrainPort ==
    /\ ended = "draining" /\ port.open /\ port.out # <<>>
    /\ low' = low \o LastOf(Head(port.out)) /\ port' = [port EXCEPT !.out = Tail(@)]
    /\ UNCHANGED <<log, nlog, task, told, failed, flush, ended>>

DrainLog ==
    /\ ended = "draining" /\ (port.open => port.out = <<>>)
    /\ low' = low \o AllLines(log) /\ log' = Emptied(log) /\ ended' = "yes"
    /\ UNCHANGED <<nlog, task, port, told, failed, flush>>

-----------------------------------------------------------------------------
Running(A) == ended = "no" /\ A /\ UNCHANGED ended

Next ==
    \/ \E prio \in Prio : Running(Record(prio))
    \/ \E m \in Masks : Running(Mask(m, LOG_UPTO(LOG_EMERG)))
    \/ Running(syslog_fls_log)
    \/ Running(OpenPort) \/ Running(SetMasks) \/ Running(SayStarted)
    \/ Running(ReadEntry) \/ Running(logtask_putc)
    \/ Running(serial_cls_por) \/ Running(Send) \/ Running(Sent)
    \/ \E count \in Counts : Running(FlushCall(count))
    \/ Running(FlushLog) \/ Running(FlushPort)
    \/ ext_ker \/ DrainPort \/ DrainLog

Spec == Init /\ [][Next]_vars

-----------------------------------------------------------------------------
(* Properties. *)

\* The lines in the port: those whose last character is in the send buffer.
LinesIn(out) ==
    LET last == SelectSeq(out, LAMBDA c : c.i = LineLength)
    IN  [k \in 1 .. Len(last) |-> last[k].line]

J == INSTANCE Journal WITH
         Size <- TCNT_SYSLOG_BUFFER,
         mask <- log.logmask, kept <- Contents(log), lost <- log.lost,
         read <- task.lines, sent <- LinesIn(port.out),
         open <- port.open, ended <- ended # "no"

\* Every entry recorded is told in its order and whole or counted as lost,
\* through a full log, a full port, flushes and the end of the kernel, except
\* for a line of which the port refuses a character, lines in a port that is
\* closed, and what the log task has read when the kernel ends.
ImplementsJournal == J!Spec
=============================================================================
