------------------------------ MODULE Journal ------------------------------
(***************************************************************************)
(* What the system log promises, without a ring and a task that prints:    *)
(* the calls that record are numbered, and every entry of a priority that  *)
(* is not masked is told in its order and whole, by the serial port or by  *)
(* the low-level output, or counted as lost, and the count is told before  *)
(* the entries after it.  Exceptions are                                   *)
(*   - a line of which the port refuses a character, since it is closed or *)
(*     a wait for room in it is released: the line is told without the     *)
(*     character, or not at all, and nobody is told;                       *)
(*   - lines that are in the port when it is closed;                       *)
(*   - what the log task has read and not passed on when the kernel ends.  *)
(***************************************************************************)
EXTENDS Integers, Sequences

CONSTANTS Size, Prio

VARIABLES
    nlog,   \* how often something was to be recorded
    mask,   \* the priorities that are recorded
    kept,   \* the entries recorded and not read
    lost,   \* how many were lost since the last one was read
    read,   \* lines that were read and are not wholly in the serial port
    sent,   \* lines wholly in the port and not out
    told,   \* what the serial port has told
    low,    \* what the low-level output has told of the entries read
    failed, \* how many characters the port has refused
    open, ended    \* the port is open, the kernel has ended

log   == <<nlog, mask, kept, lost>>
lines == <<read, sent, told, low, failed>>
vars  == <<log, lines, open, ended>>

Line(e)      == [is |-> "entry", n |-> e]
Broken(line) == [line EXCEPT !.is = "broken"]

\* What reading the first n entries gives.
Lines(n) ==
    (IF lost > 0 THEN <<[is |-> "lost", n |-> lost]>> ELSE <<>>)
        \o [i \in 1 .. n |-> Line(kept[i])]

Init ==
    /\ nlog = 0 /\ mask \in SUBSET Prio /\ kept = <<>> /\ lost = 0
    /\ read = <<>> /\ sent = <<>> /\ told = <<>> /\ low = <<>> /\ failed = 0
    /\ open = FALSE /\ ended = FALSE

Record ==
    /\ nlog' = nlog + 1
    /\ \/ mask # Prio /\ UNCHANGED <<kept, lost>>
       \/ mask # {} /\ IF Len(kept) < Size
                       THEN kept' = Append(kept, nlog') /\ UNCHANGED lost
                       ELSE kept' = Append(Tail(kept), nlog') /\ lost' = lost + 1
    /\ UNCHANGED <<mask, lines>>

Mask == mask' \in SUBSET Prio /\ UNCHANGED <<nlog, kept, lost, lines>>

Take ==
    /\ kept # <<>> /\ read = <<>>
    /\ read' = Lines(1) /\ kept' = Tail(kept) /\ lost' = 0
    /\ UNCHANGED <<nlog, mask, sent, told, low, failed>>

\* A line goes into the port, or out at once.
Pass ==
    /\ open /\ read # <<>> /\ read' = Tail(read)
    /\ \/ sent' = Append(sent, Head(read)) /\ UNCHANGED told
       \/ sent = <<>> /\ told' = Append(told, Head(read)) /\ UNCHANGED sent
    /\ UNCHANGED <<log, low, failed>>

\* The port refuses a character of the line.
Spoil ==
    /\ read # <<>> /\ failed' = failed + 1
    /\ \/ read' = Tail(read)
       \/ read' = <<Broken(Head(read))>> \o Tail(read)
    /\ UNCHANGED <<log, sent, told, low>>

Tell ==
    /\ open /\ sent # <<>>
    /\ told' = Append(told, Head(sent)) /\ sent' = Tail(sent)
    /\ UNCHANGED <<log, read, low, failed>>

Flush ==
    /\ kept # <<>>
    /\ low' = low \o Lines(Len(kept)) /\ kept' = <<>> /\ lost' = 0
    /\ UNCHANGED <<nlog, mask, read, sent, told, failed>>

\* The low-level output takes over from the port.
TakeOver ==
    /\ open /\ sent # <<>>
    /\ low' = Append(low, Head(sent)) /\ sent' = Tail(sent)
    /\ UNCHANGED <<log, read, told, failed>>

OpenClose == open' = ~open /\ UNCHANGED <<log, lines, ended>>

\* The log task stops.
End == ended' = TRUE /\ read' = <<>> /\ UNCHANGED <<log, sent, told, low, failed, open>>

Next ==
    \/ /\ ~ended
       /\ \/ (Mask \/ Record \/ Take \/ Pass \/ Spoil \/ Tell \/ Flush)
             /\ UNCHANGED <<open, ended>>
          \/ OpenClose \/ End
    \/ /\ ended
       /\ TakeOver \/ ((open => sent = <<>>) /\ Flush)
       /\ UNCHANGED <<open, ended>>

Spec == Init /\ [][Next]_vars
=============================================================================
