------------------------------- MODULE SysLog -------------------------------
(***************************************************************************)
(* The system log (syssvc/syslog.c): a ring buffer that overwrites its     *)
(* oldest entry when it is full and counts how many entries it has lost.   *)
(* Interrupts are disabled from the beginning to the end of every call.    *)
(* An operator takes the data and gives the data after the call.           *)
(***************************************************************************)
EXTENDS Integers, SequencesExt

CONSTANTS
    TCNT_SYSLOG_BUFFER,    \* how many entries the buffer takes
    Prio,                  \* the priorities; smaller numbers are more important
    LOG_EMERG, LOG_NOTICE

SysLogAssumption ==
    /\ TCNT_SYSLOG_BUFFER \in Nat \ {0}
    /\ {LOG_EMERG, LOG_NOTICE} \subseteq Prio

NoEntry == 0

LOG_UPTO(prio) == {q \in Prio : q <= prio}

\* The mask of the low-level output is kept inverted, so that everything
\* is put out before the initialization.
syslog_initialize ==
    [buffer |-> [i \in 0 .. TCNT_SYSLOG_BUFFER - 1 |-> NoEntry], count |-> 0,
     head |-> 0, tail |-> 0, lost |-> 0, logmask |-> {}, lowmask_not |-> {}]

NextPlace(i) == IF i + 1 >= TCNT_SYSLOG_BUFFER THEN 0 ELSE i + 1

\* Mutant: the head stays where it is when its entry is overwritten.
wri_log_HeadLeft(log, e) ==
    [log EXCEPT !.buffer[log.tail] = e, !.tail = NextPlace(@),
                !.count = IF @ < TCNT_SYSLOG_BUFFER THEN @ + 1 ELSE @,
                !.lost  = IF log.count < TCNT_SYSLOG_BUFFER THEN @ ELSE @ + 1]

\* Entry e is recorded.
wri_log(log, e) ==
    LET tail == NextPlace(log.tail)
        put  == [log EXCEPT !.buffer[log.tail] = e, !.tail = tail]
    IN  IF log.count < TCNT_SYSLOG_BUFFER THEN [put EXCEPT !.count = @ + 1]
        ELSE [put EXCEPT !.head = tail, !.lost = @ + 1]

syslog_wri_log(log, prio, e) == IF prio \in log.logmask THEN wri_log(log, e) ELSE log

\* Whether it is put out at once.
LowLevel(log, prio) == prio \notin log.lowmask_not

First(log) == log.buffer[log.head]

\* An entry that has been read stays in its place, where nothing reads it.
syslog_rea_log(log) ==
    [log EXCEPT !.count = @ - 1, !.buffer[log.head] = NoEntry, !.head = NextPlace(@), !.lost = 0]

syslog_msk_log(log, logmask, lowmask) ==
    [log EXCEPT !.logmask = logmask, !.lowmask_not = Prio \ lowmask]

syslog_ref_log(log) ==
    [count |-> log.count, lost |-> log.lost, logmask |-> log.logmask,
     lowmask |-> Prio \ log.lowmask_not]

Contents(log) ==
    [i \in 1 .. log.count |-> log.buffer[(log.head + i - 1) % TCNT_SYSLOG_BUFFER]]

-----------------------------------------------------------------------------
(* What is put out: lines, for entries and for how many were lost.         *)

EntryLine(e) == [is |-> "entry", n |-> e]
LostLine(n)  == [is |-> "lost", n |-> n]

\* The line on the losses comes before that of the entry read after them.
ReadLines(log) ==
    (IF log.lost > 0 THEN <<LostLine(log.lost)>> ELSE <<>>) \o <<EntryLine(First(log))>>

\* fls_log and logtask_terminate read until there is nothing left.
AllLines(log) ==
    IF log.count = 0 THEN <<>>
    ELSE ReadLines(log) \o [i \in 1 .. log.count - 1 |-> EntryLine(Contents(log)[i + 1])]

Emptied(log) ==
    [log EXCEPT !.buffer = syslog_initialize.buffer, !.count = 0, !.head = log.tail,
                !.lost = IF log.count = 0 THEN @ ELSE 0]
=============================================================================
