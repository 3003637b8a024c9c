--------------------------- MODULE MCTSerialPort ---------------------------
(* Constants with which TLC checks TSerialPort. *)
EXTENDS TSerialPort

CONSTANTS A, B, X

\* One character more than the buffer takes.
Long == {<<X, LF>>}

Lines == {X, FC_STOP, FC_START}

\* Any character restarts, and none is echoed.
AnyIoctl == {{"FCSND", "FCANY", "FCRCV"}}
=============================================================================
