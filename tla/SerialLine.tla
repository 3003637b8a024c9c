----------------------------- MODULE SerialLine -----------------------------
(***************************************************************************)
(* What a serial port promises, with neither rings, semaphores nor         *)
(* callbacks: two queues of characters of limited length.  A task that     *)
(* writes puts its characters one by one, a CR before an LF where that is  *)
(* set, past an empty queue if the line is free; they are sent in the      *)
(* order in which they were put.  STOP and START are sent before them.     *)
(* A task that reads takes the characters in the order in which they came  *)
(* in, and may write each as an echo.                                      *)
(*                                                                         *)
(* No character is lost or doubled on the way.  Those that came in and are *)
(* not read, or were put and are not sent, are dropped when the port is    *)
(* opened again; those put and not sent when the kernel has ended are      *)
(* handed over one by one; and a call that ends early, since its wait is   *)
(* released, the port closed or the kernel ended, puts no more.            *)
(***************************************************************************)
EXTENDS Integers, Sequences

CONSTANTS
    Task, NUL, CR, LF, FC_STOP, FC_START, RcvChars, Strings, rcv_bufsz, snd_bufsz

VARIABLES
    out,    \* the characters put and not sent, oldest first
    in,     \* those received and not read
    line,   \* the character that is being sent
    calls,  \* the tasks that write or read
    waits,  \* those of them that wait, for room, for characters or for others
    todo,   \* what each of them has still to put
    crs,    \* those that have put the CR and not the LF after it
    taken,  \* what each task read last in its call
    open, ended    \* the port is open, the kernel has ended

callers == <<calls, waits, todo, crs, taken>>
vars    == <<out, in, line, callers, open, ended>>

NoTodo  == [t \in Task |-> <<>>]
NoTaken == [t \in Task |-> NUL]

Init ==
    /\ out = <<>> /\ in = <<>> /\ line = NUL
    /\ calls = {} /\ waits = {} /\ todo = NoTodo /\ crs = {} /\ taken = NoTaken
    /\ open = FALSE /\ ended = FALSE

\* A STOP or START may be sent with another step.
FlowControl == line' = line \/ (line = NUL /\ line' \in {FC_STOP, FC_START})

\* Character c goes out at once, or into the queue.
Emit(c) ==
    \/ out = <<>> /\ line = NUL /\ line' = c /\ UNCHANGED out
    \/ Len(out) < snd_bufsz /\ out' = Append(out, c) /\ UNCHANGED line

\* A step may end waits of others.
Wakes == waits' \subseteq waits

\* A task begins to write, or to read.
Begin(t) ==
    /\ t \notin calls /\ calls' = calls \cup {t}
    /\ \E s \in Strings \cup {<<>>} : todo' = [todo EXCEPT ![t] = s]
    /\ UNCHANGED <<out, in, line, waits, crs, taken>>

Wait(t) ==
    /\ t \in calls
    /\ Len(out) = snd_bufsz \/ in = <<>> \/ calls # {t}
    /\ waits' = waits \cup {t}
    /\ UNCHANGED <<out, in, line, calls, todo, crs, taken>>

PutCR(t) ==
    /\ t \notin waits
    /\ todo[t] # <<>> /\ Head(todo[t]) = LF /\ t \notin crs
    /\ Emit(CR) /\ crs' = crs \cup {t}
    /\ UNCHANGED <<in, calls, waits, todo, taken>>

\* The last character may end the call of a task that writes.
Put(t) ==
    /\ t \notin waits /\ todo[t] # <<>>
    /\ Emit(Head(todo[t])) /\ todo' = [todo EXCEPT ![t] = Tail(@)] /\ crs' = crs \ {t}
    /\ \/ UNCHANGED calls
       \/ Len(todo[t]) = 1 /\ taken[t] = NUL /\ calls' = calls \ {t}
    /\ UNCHANGED <<in, waits, taken>>

Read(t) ==
    /\ t \in calls \ waits /\ todo[t] = <<>>
    /\ in # <<>> /\ in' = Tail(in) /\ taken' = [taken EXCEPT ![t] = Head(in)]
    /\ \E s \in {<<>>, <<Head(in)>>} : todo' = [todo EXCEPT ![t] = s]
    /\ FlowControl
    /\ UNCHANGED <<out, calls, waits, crs>>

\* The call of t ends: it has put all it had, or its wait is released.
Return(t) ==
    /\ t \in calls /\ (todo[t] = <<>> \/ t \in waits)
    /\ calls' = calls \ {t} /\ todo' = [todo EXCEPT ![t] = <<>>]
    /\ crs' = crs \ {t} /\ taken' = [taken EXCEPT ![t] = NUL]
    /\ waits' \subseteq waits \ {t}
    /\ UNCHANGED <<out, in, line>>

Send ==
    /\ out # <<>> /\ line = NUL
    /\ line' = Head(out) /\ out' = Tail(out)
    /\ Wakes
    /\ UNCHANGED <<in, calls, todo, crs, taken>>

Sent == line # NUL /\ line' = NUL /\ UNCHANGED <<out, in, callers>>

Receive ==
    /\ Len(in) < rcv_bufsz /\ \E c \in RcvChars : in' = Append(in, c)
    /\ FlowControl /\ Wakes
    /\ UNCHANGED <<out, calls, todo, crs, taken>>

\* A STOP or START alone, or another task's turn.
Control == FlowControl /\ Wakes /\ UNCHANGED <<out, in, calls, todo, crs, taken>>

\* All calls end.
NoCalls == calls' = {} /\ waits' = {} /\ todo' = NoTodo /\ crs' = {} /\ taken' = NoTaken

Open ==
    /\ ~open /\ open' = TRUE
    /\ out' = <<>> /\ in' = <<>>
    /\ UNCHANGED <<line, callers, ended>>

Close == open /\ open' = FALSE /\ NoCalls /\ UNCHANGED <<out, in, line, ended>>

End == ended' = TRUE /\ NoCalls /\ UNCHANGED <<out, in, line, open>>

\* After the end.
Unsent ==
    /\ open /\ out # <<>> /\ out' = Tail(out)
    /\ UNCHANGED <<in, line, callers, open, ended>>

Transfer ==
    \/ open /\ (Control \/ Send \/ Receive \/ \E t \in Task : Begin(t))
    \/ Sent
    \/ \E t \in Task : Wait(t) \/ Return(t) \/ PutCR(t) \/ Put(t) \/ Read(t)

Next ==
    \/ ~ended /\ (Open \/ Close \/ End \/ (Transfer /\ UNCHANGED <<open, ended>>))
    \/ ended /\ Unsent

Spec == Init /\ [][Next]_vars
=============================================================================
