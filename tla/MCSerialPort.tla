---------------------------- MODULE MCSerialPort ----------------------------
(* Constants with which TLC checks SerialPort. *)
EXTENDS SerialPort, TLC

CONSTANTS A, B, X

\* The tasks do the same things.
Symmetry == Permutations(Task)

SamePri == [t \in Task |-> 1]

\* A line end: with the CR before it, what the buffer takes.
LineEnds == {<<LF>>}
\* One character more than a buffer of two takes.
LineStrings == {<<LF, X>>}
Lines == {X, FC_STOP, FC_START}
Chars == {X, LF, FC_STOP, FC_START}
=============================================================================
