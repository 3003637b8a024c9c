------------------------------ MODULE TLogTask ------------------------------
(***************************************************************************)
(* The system log as TECS components: the cell tSysLog (syssvc/tSysLog.c,  *)
(* tSysLog.cdl) with the adapter through which C calls it                  *)
(* (tSysLogAdapter.c), the cell tLogTaskMain (tLogTaskMain.c) and the      *)
(* low-level output over the SIO port (tPutLogSIOPort.c).                  *)
(*                                                                         *)
(* The functions do what those of syslog.c and logtask.c do, and their     *)
(* steps are those of LogTask, with two differences: the cell starts with  *)
(* its masks set, and the log task leaves them as they are.  The cell's    *)
(* VAR_lowMask is kept as SysLog keeps it, as its complement.              *)
(***************************************************************************)
EXTENDS Integers, Sequences

CONSTANTS
    ATTR_logBufferSize, ATTR_initLogMask, ATTR_initLowMask,
    Prio, LOG_EMERG, LOG_NOTICE,
    MaxLog, MaxRelease, snd_bufsz, LineLength, Masks, Counts    \* as in LogTask

VARIABLES
    VAR,     \* the variables of the cell tSysLog
    nlog, body, port, told, low, failed, waiter, ended    \* as in LogTask

Log == INSTANCE LogTask WITH
           log <- VAR, task <- body, flush <- waiter,
           TCNT_SYSLOG_BUFFER <- ATTR_logBufferSize

vars == <<VAR, nlog, body, port, told, low, failed, waiter, ended>>

-----------------------------------------------------------------------------
(* The cell tSysLog. *)

eSysLog_write(priority)        == Log!Record(priority)
eSysLog_read                   == Log!ReadEntry
eSysLog_mask(logMask, lowMask) == Log!Mask(logMask, lowMask)
eSysLog_refer                  == Log!syslog_ref_log(VAR)
eSysLog_flush                  == Log!syslog_fls_log

\* Whether eSysLog_write puts the entry out at once.
LowLevel(priority) == Log!LowLevel(VAR, priority)

-----------------------------------------------------------------------------
(* The adapter passes the calls on. *)

syslog_wri_log(prio)             == eSysLog_write(prio)
syslog_rea_log                   == eSysLog_read
syslog_msk_log(logmask, lowmask) == eSysLog_mask(logmask, lowmask)
syslog_ref_log                   == eSysLog_refer
syslog_fls_log                   == eSysLog_flush

-----------------------------------------------------------------------------
(* The cell tLogTaskMain. *)

eLogTaskBody_open ==
    /\ body.pc = "start"
    /\ port' = [port EXCEPT !.open = TRUE] /\ body' = [body EXCEPT !.pc = "say"]
    /\ UNCHANGED <<VAR, nlog, told, low, failed, waiter>>

eLogTaskBody_main ==
    eLogTaskBody_open \/ Log!SayStarted \/ syslog_rea_log \/ Log!logtask_putc

\* Looks at the log, and then at the port, by their entries refer.
eLogTask_flush ==
    \/ Log!FlushLog \/ Log!FlushPort
    \/ \E count \in Counts : Log!FlushCall(count)

\* Both go through ePutLog_putChar, which waits until the port takes the
\* character.
eLogTaskTerminate_main == Log!DrainPort \/ Log!DrainLog

-----------------------------------------------------------------------------
Init ==
    /\ VAR = [Log!syslog_initialize EXCEPT
                 !.logmask = ATTR_initLogMask, !.lowmask_not = Prio \ ATTR_initLowMask]
    /\ nlog = 0 /\ body = [pc |-> "start", lines |-> <<>>, i |-> 1]
    /\ port = [open |-> FALSE, out |-> <<>>, tx |-> Log!NoChar]
    /\ told = <<>> /\ low = <<>> /\ failed = 0
    /\ waiter = [pc |-> "none", count |-> 0] /\ ended = "no"

Next ==
    \/ \E prio \in Prio : Log!Running(syslog_wri_log(prio))
    \/ \E m \in Masks : Log!Running(syslog_msk_log(m, Log!LOG_UPTO(LOG_EMERG)))
    \/ Log!Running(syslog_fls_log)
    \/ Log!Running(eLogTaskBody_main)
    \/ Log!Running(Log!serial_cls_por) \/ Log!Running(Log!Send) \/ Log!Running(Log!Sent)
    \/ Log!Running(eLogTask_flush)
    \/ Log!ext_ker \/ eLogTaskTerminate_main

Spec == Init /\ [][Next]_vars
=============================================================================
