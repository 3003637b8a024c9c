---------------------------- MODULE TSerialPort ----------------------------
(***************************************************************************)
(* The serial interface driver as TECS components: the cell tSerialPort    *)
(* (syssvc/tSerialPortMain.c, tSerialPort.cdl) and the adapter through     *)
(* which applications in C call it (syssvc/tSerialAdapter.c).  The         *)
(* functions of the cell do what those of syssvc/serial.c do, on the       *)
(* variables of the cell instead of an SPCB.  The semaphores of the cell   *)
(* have the attribute TA_NULL: their queues are in order of arrival.       *)
(***************************************************************************)
EXTENDS Integers, Sequences

CONSTANTS
    Task, receiveBufferSize, sendBufferSize,
    NUL, CR, LF, FC_STOP, FC_START,
    RcvChars, Strings, Lengths, Ioctls

VARIABLES
    VAR,    \* the variables of the cell, its semaphores and its SIO port
    call, ended

vars == <<VAR, call, ended>>

\* Equal priorities leave the order of arrival.
Port == INSTANCE SerialPort WITH
            p <- VAR, rcv_bufsz <- receiveBufferSize, snd_bufsz <- sendBufferSize,
            tskpri <- [t \in Task |-> 0], EchoReleases <- FALSE

-----------------------------------------------------------------------------
(* The cell.  The parts of a call between which others can come are those  *)
(* of SerialPort.                                                          *)

eSerialPort_open  == Port!serial_opn_por
eSerialPort_close == Port!serial_cls_por

eSerialPort_write(t, buffer) == Port!serial_wri_dat(t, buffer)
serialPort_writeChar(t)      == Port!serial_wri_chr(t)
cSendSemaphore(t)            == Port!wai_snd_sem(t) \/ Port!sig_snd_sem(t)

eSerialPort_read(t, length) == Port!serial_rea_dat(t, length)
serialPort_readChar(t)      == Port!serial_rea_chr(t)
cReceiveSemaphore(t)        == Port!wai_rcv_sem(t) \/ Port!sig_rcv_sem(t)

\* gen_ercd_wait: a call whose wait is released ends with the error.
gen_ercd_wait(t) == Port!rel_wai(t)

\* eSerialPort_read has emptied the buffer.
return_empty(t) == Port!return_empty(t)

eSerialPort_control(ioctl) == Port!serial_ctl_por(ioctl)
eSerialPort_refer          == Port!serial_ref_por

eiSIOCBR_readySend       == Port!sio_irdy_snd
eiSIOCBR_readyReceive(c) == Port!sio_irdy_rcv(c)

enSerialPortManage_getChar == Port!serial_get_chr

-----------------------------------------------------------------------------
(* The adapter passes the calls on. *)

serial_opn_por         == eSerialPort_open
serial_cls_por         == eSerialPort_close
serial_rea_dat(t, len) == eSerialPort_read(t, len)
serial_wri_dat(t, buf) == eSerialPort_write(t, buf)
serial_ctl_por(ioctl)  == eSerialPort_control(ioctl)
serial_ref_por         == eSerialPort_refer

-----------------------------------------------------------------------------
Init == Port!Init

TaskStep(t) ==
    \/ serialPort_writeChar(t) \/ cSendSemaphore(t)
    \/ serialPort_readChar(t) \/ cReceiveSemaphore(t) \/ return_empty(t)

Running(A) == ~ended /\ A /\ UNCHANGED ended

Next ==
    \/ Running(serial_opn_por) \/ Running(serial_cls_por)
    \/ \E ioctl \in Ioctls : Running(serial_ctl_por(ioctl))
    \/ \E t \in Task :
          \/ Running(TaskStep(t)) \/ Running(gen_ercd_wait(t))
          \/ \E buf \in Strings : Running(serial_wri_dat(t, buf))
          \/ \E len \in Lengths : Running(serial_rea_dat(t, len))
    \/ Running(eiSIOCBR_readySend)
    \/ \E c \in RcvChars : Running(eiSIOCBR_readyReceive(c))
    \/ Running(Port!transmitted)
    \/ Port!ext_ker
    \/ ended /\ enSerialPortManage_getChar /\ UNCHANGED ended

\* Tasks that do not wait run, the transmitter works, an enabled callback
\* comes, and a port that was stopped is told to go on.
FairSpec ==
    /\ Init /\ [][Next]_vars
    /\ \A t \in Task : WF_vars(Running(TaskStep(t)))
    /\ WF_vars(Running(Port!transmitted)) /\ WF_vars(Running(eiSIOCBR_readySend))
    /\ WF_vars(Running(eiSIOCBR_readyReceive(FC_START)))

-----------------------------------------------------------------------------
(* Properties. *)

\* The other side in the end sends nothing but that the port may go on.
Quiet == <>[][\A c \in RcvChars \ {FC_START} : ~eiSIOCBR_readyReceive(c)]_vars

\* A task that writes gets through, however full the buffer, whatever came in
\* before, and whoever else reads and writes.
WriterReturns ==
    Quiet => \A t \in Task : call[t].op = "write" ~> call[t] = Port!Idle \/ ended
=============================================================================
