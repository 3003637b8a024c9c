----------------------------- MODULE MCServices -----------------------------
(***************************************************************************)
(* The system services for TLC, in four scenarios of which the initial     *)
(* state chooses one.  Two are of a port of the serial interface driver,   *)
(* with the constants of the configuration.  "tasks": two tasks at once,   *)
(* with the settings a port is opened with, read X, and STOP and START     *)
(* come in.  "chars": one at a time reads X and LF, with other settings    *)
(* too.  "log": the log task and the system log, over what SerialLine says *)
(* of a port.  "cells": the same as TECS components.                       *)
(***************************************************************************)
EXTENDS MCSerialPort

VARIABLES
    scenario,
    log, nlog, task, port, told, low, failed, flush, log_ended    \* of LogTask

logvars == <<log, nlog, task, port, told, low, failed, flush, log_ended>>

L == INSTANCE LogTask WITH
        ended <- log_ended,
        TCNT_SYSLOG_BUFFER <- 2, MaxLog <- 4, MaxRelease <- 1, snd_bufsz <- 2, LineLength <- 2,
        Prio <- {0, 5, 6}, LOG_EMERG <- 0, LOG_NOTICE <- 5,
        Masks <- {{0}, {0, 5, 6}}, Counts <- {0, 1}

\* LOG_UPTO(LOG_DEBUG) and LOG_UPTO(LOG_EMERG), the attributes' defaults.
T == INSTANCE TLogTask WITH
        VAR <- log, body <- task, waiter <- flush, ended <- log_ended,
        ATTR_logBufferSize <- 2, ATTR_initLogMask <- {0, 5, 6}, ATTR_initLowMask <- {0},
        MaxLog <- 4, MaxRelease <- 1, snd_bufsz <- 2, LineLength <- 2,
        Prio <- {0, 5, 6}, LOG_EMERG <- 0, LOG_NOTICE <- 5,
        Masks <- {{0}, {0, 5, 6}}, Counts <- {0, 1}

ASSUME LogAssumption == L!SysLogAssumption /\ L!LogTaskAssumption

\* In the port's scenarios the log stays as it is at first, and vice versa.
MCInit ==
    /\ scenario \in {"tasks", "chars", "log", "cells"} /\ Init
    /\ IF scenario = "cells" THEN T!Init ELSE L!Init

MCNext ==
    /\ UNCHANGED scenario
    /\ \/ scenario = "tasks" /\ Next /\ UNCHANGED logvars
          /\ p'.ioctl \in {{}, DefaultIoctl} /\ LF \notin Range(p'.rcv.buffer)
       \/ scenario = "chars" /\ Next /\ UNCHANGED logvars
          /\ Cardinality({t \in Task : call'[t] # Idle}) <= 1 /\ ~p'.snd_stopped
       \/ scenario = "log" /\ L!Next /\ UNCHANGED vars
       \/ scenario = "cells" /\ T!Next /\ UNCHANGED vars

MCSpec == MCInit /\ [][MCNext]_<<vars, logvars, scenario>>

-----------------------------------------------------------------------------
\* ImplementsJournal of LogTask, and of TLogTask in the same variables:
\* whatever is recorded is put out in its order and whole or counted as lost,
\* but for what a port refuses or is closed with and for what the log task has
\* in hand when the kernel ends; also what the cell records before its log
\* task runs.  syslog.c, logtask.c,
\* tSysLog.c:103-231, tLogTaskMain.c:73-184.
ImplementsJournal == L!ImplementsJournal
=============================================================================
