# Verification of the ASP3 kernel for mbed

The repository is a port of TOPPERS/ASP3, a real-time kernel after the µITRON
profile, to ARM-M processors under mbed. This directory holds TLA+ modules that
model the kernel, the TLC configurations that check them on small instances, and
proofs, checked by TLAPS, that hold for any number of tasks and priorities, objects
of any size and, for the serial driver, any text.

Paths below are relative to `src/asp3/`.

## The system

The kernel is one address space and one processor. Tasks run in priority order,
first come first served within a priority; interrupt handlers run above all
tasks and make many of the same service calls. A service call locks the CPU
(masks the kernel's interrupts) before it looks at the kernel's data and
unlocks it at its end, so that calls are atomic to each other. Everything
difficult is in how such calls follow each other: what one leaves behind for
the next, for the interrupt return, for a task that is not running.

| component | state it keeps | operations | what makes it correct |
|---|---|---|---|
| scheduler, `kernel/task.c`, `task.h` | `tstat`, priorities, `ready_queue`, `ready_primap`, `p_runtsk`, `p_schedtsk`, `dspflg` | make_runnable, make_non_runnable, make_dormant, make_active, change_priority, rotate_ready_queue, task_terminate | queues, bitmap and states agree; `p_schedtsk` has the highest precedence; FIFO in a priority |
| waiting, `kernel/wait.c`, `wait.h` | wait queues, `WINFO` on the waiting task's stack | make_wait, wait_complete, wait_tmout, init_wait_queue | a wait is ended once and leaves nothing registered; queues in priority order stay so |
| task calls, `kernel/task_manage.c`, `task_sync.c`, `task_term.c` | `actque`, `wupque`, `raster`, `enater` | act_tsk ... ter_tsk | requests are neither lost nor carried over to the next life |
| system state, `kernel/sys_manage.c`, `interrupt.c` | `enadsp`, lock flag, interrupt priority mask | rot_rdq, loc_cpu, dis_dsp, ena_dsp, chg_ipm | `dspflg` is the conjunction of the permissions; no dispatch is lost |
| dispatcher, `arch/arm_m_gcc/common` | `p_runtsk`, PendSV pending, contexts | do_dispatch, exit_and_dispatch, pendsv_handler, idle loop | the task that should run gets the processor |
| CPU lock and interrupts, `arch/arm_m_gcc/common` | BASEPRI, or on ARMv6-M the enable bits of the NVIC; `lock_flag`, `saved_iipm`, the nested contexts | lock_cpu, unlock_cpu, t_set_ipm, core_int_entry, core_int_exit, core_exc_entry, dis_int ... | no interrupt of the kernel enters a locked region; the mask at a call's end is that of its begin |
| mutexes, `kernel/mutex.c` | owner, list per task, wait queue | loc_mtx, ploc_mtx, tloc_mtx, unl_mtx, ini_mtx, three hooks | owner and list agree; priority is that of the ceilings |
| data queues, `kernel/dataqueue.c` | ring buffer, two wait queues | snd, psnd, tsnd, fsnd, rcv, prcv, trcv, ini | a FIFO; nobody waits for what is there; a wait that fails has sent nothing |
| semaphores, `kernel/semaphore.c` | count, wait queue | sig, wai, pol, twai, ini, ref | no task waits while there is a permit; none is lost or made |
| event flags, `kernel/eventflag.c` | bit pattern, what each task waits for | set, clr, wai, pol, twai, ini, ref | a task whose condition is met does not wait; clearing serves one task |
| priority data queues, `kernel/pridataq.c` | an array of blocks, a sorted list and a free list over it, two wait queues | snd, psnd, tsnd, rcv, prcv, trcv, ini, ref | by priority, FIFO in a priority; no block in two lists |
| memory pools, `kernel/mempfix.c` | the index list of free blocks, wait queue | get, pget, tget, rel, ini, ref | a block has one owner; no task waits while there is a block |
| time events, `kernel/time_event.c`, `time_manage.c` | heap of events, event time modulo 2^32, `in_signal_time` | enqueue, dequeue, signal_time, set_tim, adj_tim | events come in order, not early, and always come; the system time does not go back |
| alarms, cyclics, `kernel/alarm.c`, `cyclic.c` | `almsta`, `cycsta`, an event each | sta, stp, the callbacks | a stopped handler is not called |
| serial driver, `syssvc/serial.c`, and the TECS component `tSerialPort` | two ring buffers, two semaphores, flow control | opn, cls, wri, rea, ctl, ref, get_chr, callbacks of the device | the semaphore says whether the buffer has room or data; characters keep their order; a writer gets through |
| system log, `syssvc/syslog.c`, `logtask.c` | a ring buffer, lost count, masks; the log task's place | wri_log, rea_log, msk_log, ref_log, fput_log, log task, logtask_flush, logtask_terminate | order kept, losses counted |

They interact through direct calls under the CPU lock and through shared
fields: every object ends in `wait.c` and the scheduler; task management calls
mutexes through three function pointers (`mtxhook_*`); the timer interrupt
calls back into waits, alarms and cyclics; interrupt handlers leave a dispatch
request (PendSV) for the interrupt return. The serial driver and the log task
are clients of the service calls.

## The modules

`Sched` is a module of operators on a record `kk`, the kernel's data section.
One operator is one C function, of the same name: it takes the data and gives
the data after the call, and a service call is a composition of operators, in
the order of the code. A queue of TCBs is a sequence. A task state word is the
set of its flags. The list of mutexes of a task (`p_lastmtx`, `p_prevmtx`) is a
sequence, newest first. Of the block with which a task waits (`WINFO`) the model
keeps which object it waits for and whether a time event is registered; the
value a call returns is not kept, since no property is about it.

`TaskSystem` extends `Sched` with variables and actions: `k` is the record,
`ctx` says whether the processor boots, runs a task (or idles) or is in
interrupt handlers, `lock_flag` is the application's CPU lock (that of a call is
the atomicity of its action), `saved_iipm` the interrupt priority mask, `pendsv`
the pending exception and `booted` the progress of the boot. An action is one
service call with its checks (`CHECK_...`), what it does, and how it ends:

  - `Return` ends without a dispatch;
  - `ReturnDispatching` is `if (p_runtsk != p_schedtsk) dispatch()` in a task,
    and a PendSV request in an interrupt handler;
  - `exit_and_dispatch` gives up the context of a task that has ended.

The application is every task and handler making any call of `Calls`, with any
arguments, at any moment. A call that fails one of its checks changes nothing
and is not a step. The time itself is not in this module: the time limit of a
wait may pass at any moment in a handler (`wait_tmout`, `wait_tmout_ok`).

The specification's own definitions begin with K (`KInit`, `KNext`, `KSpec`,
`KFairSpec`, `kvars`), because other modules extend this one and have an `Init` and a
`Next` themselves.

`Mutex` has the operators of `mutex.c`, hands them to an instance of
`TaskSystem` (`K`) as the three hooks, and adds its own service calls to that
instance's next-state relation. So a task that holds mutexes can be terminated,
suspended, have its priority changed and so on, by every action of `TaskSystem`.

`TimeHeap` has the operators of the heap of time events, over a record with the
heap as a sequence of the blocks in its nodes. `Branch` has the nodes from a node up to
the top; a search ends at the last node of a branch, or the first, where the code's loop would
stop, and the events on the way move by one node (`Slide`).
`TimeEvent` extends it by the event time, the system time, the timer and
`signal_time`, alarms, cyclics and the time limits of waits. All arithmetic is
modulo `EVTTIM_MOD` (2^32) and `SYSTIM_MOD` (2^64) where the code's is. `sig` is
where `signal_time` stands: in its loops with the CPU locked, or in a callback that
has unlocked it; in a callback, and when `signal_time` does not run, calls of
alarms and adjustments can come, those of tasks only in the latter case. The count of the timer
and `current_hrtcnt` appear only by their difference, `hrtcnt_advance`. The
build files select the SysTick timer, which interrupts at every tick and ignores
what the kernel asks of it; `target_timer.h` also provides for a free-running
count with a programmed interrupt. `SYSTICK` selects the one or the other. 

`EventTimes` is the abstract specification: for every started event the time
left, an integer that does not wrap around; a system time; and how far
adjustments have put the events' clock behind it. `TimeEvent` implements it
(`ImplementsEventTimes`): the time left is the difference of `evttim` and
`current_evttim`, read as a signed number around the boundary, less
`hrtcnt_advance`; the system time is what `get_tim` would answer.

`DataQueue` adds to `KernelObject` (below) the ring buffer (`dtq`), the data
that waiting senders hold on their stacks (`winfo_data`, gone when the wait ends)
and the variable each task receives in (`p_data`). The queue of receivers is a
second member of `Wobj`. A receiver that waited is modelled to have its data when
the sender ends its wait: the code puts it in `WINFO_RDTQ.data`, from which the
receiver alone copies it when it runs. `send_data` and `receive_data` are the cases
in which the C functions return true; `WaitToSend` and `WaitToReceive` the others.
`Fifo` is the abstract specification, without indices and without queues of tasks:
what is stored, what waiting tasks offer, what each task got.

`KernelObject` is what the modules of the objects have in common: it extends
`TaskSystem`, with no mutexes, by the service of the first task of a queue and the calls
that only report (`get_tst`, `ref_tsk`, `get_pri`, `sns_*`). It extends and
does not instantiate, so that what is proved of `TaskSystem` can be used for the objects. `Semaphore`,
`EventFlag`, `PriDataQueue` and `MemPool` extend it by their object, one action per
call. Each has an abstract specification that it implements, in which there are no
queues of tasks, no lists and no indices:

| detailed | abstract | the mapping |
|---|---|---|
| `Semaphore` | `Permits` | the count; who waits |
| `EventFlag` | `Events` | the pattern; what each task waits for |
| `PriDataQueue` | `PriFifo` | the list, read along its links, as a sequence per priority; what waiting senders offer |
| `MemPool` | `Blocks` | free are the blocks of the free list and of the unused part; who waits |
| `DataQueue` | `Fifo` | the ring read from `head` |

An event flag's pattern is a set of bits; its attributes are chosen by the initial
state. `set_flg` walks through the queue as the code does (`Check`), with the pattern
as the earlier tasks have left it. `rel_mpf` is two steps, because its check that the
block is allocated (mempfix.c:318) precedes the lock: `giving` says which
block a task has checked and not yet given back. The application gives a block back
once, and does not initialize a pool of which a block is being given back; no
task is terminated by others there, for it would take its block along.

`SerialPort` models `serial.c` at the points where the CPU is unlocked: `call`
says where each task is in `serial_wri_dat` or `serial_rea_dat`, and the callbacks
`sio_irdy_snd` and `sio_irdy_rcv` come between. The two semaphores are part of
it, with tasks queued by priority. Of the device (`target_serial.cpp`) there is whether it sends,
which callbacks it has been asked for, and what has gone out. A port is closed only while
no task is in the middle of a call other than waiting, there is no callback after
that, and the callback for sending comes only when the device can take a
character: the driver's header asks as much. `SerialLine` is the abstract
specification, with two queues of characters of limited length and no indices, semaphores or
callbacks. A task begins a call, puts its characters one by one (a carriage return before
a line feed where that is set), and returns when it has put all. `Send` moves the first of the queue to the
line, `Receive` appends to the other queue where there is room, `Read` takes its first, which may be put as an echo;
flow control goes outside the order. These are all the ways a character can take: none is lost or doubled between a
task, a buffer and the line. What is dropped is bound to its occasion: what is left in both queues, when the port is
opened again (`Open`, enabled while it is not open); the rest of a call whose wait is released (`Return`, for a task that waits), or
that the closing of the port or the end of the kernel ends (`Close`, `End`). What is unsent at the end is handed
over one by one (`Unsent`, enabled after `End` only). `TSerialPort` is the TECS component: the names of `tSerialPortMain.c`
over the same cell, its semaphores' queues in order of arrival, and fairness.

`SysLog` has the operators of `syslog.c`; `LogTask` the log task between the log and
a port, of which it has what `SerialLine` says of its sending, and a task in
`logtask_flush`. The abstract `Journal` says what becomes of an entry: told in its order and whole,
by the port or by the low-level output, or counted as lost, with the count told before the entries after it.
Three exceptions are in the code, and in `Journal`:

  - `logtask_putc` ignores the error of `serial_wri_dat` (logtask.c:80, tLogTaskMain.c:57). When the application has closed
    the port, or the wait for room is released, the log task goes on with the next character, and the line
    is told without one (`Spoil`, `Broken`) or not at all, uncounted. `failed` counts the characters refused, so that
    no line can be spoilt without a refusal. The port's `errorflag`, the third cause of an error, is never set: `PortOK`;
  - what is in the port when it is closed stays there: the application does not open it again in this model;
  - lines the log task has read and not passed on when the kernel ends (`End`, once, and then only the draining
    of the port and the log goes on).

Also, `logtask_flush(0)` may return while the log task holds an entry, which
`logtask.h:68-71` says. The masks at first record nothing and put everything
out at once. `TLogTask` is the log as TECS components (`tSysLog.c`,
`tSysLogAdapter.c`, `tLogTaskMain.c`): the steps of `LogTask` under the names of the cells,
which start with their masks set where `logtask.c` sets them when its task runs.

`Interrupts` goes below `TaskSystem`: one action is one instruction of the CPU lock,
of the entry to and the exit from handlers, of `do_dispatch`, PendSV, SVC and the idle
loop, on ARMv7-M and on ARMv6-M. `ctx` is the stack of contexts, `hw` the registers.
An interrupt that is accepted comes before the next instruction. Entry to and exit from the handler of a CPU exception
are one step each. What the kernel decides in a locked region is an arbitrary choice of `p_schedtsk`: `TaskSystem`
models that, in steps that are a whole locked region here. A task that ends may
leave any task or none, itself included if a request restarts it. `StandardModelOK`,
which `StandardModelV6` states for ARMv6-M, says why this is sound: nothing enters such a region.

The modules whose names end in `Proofs` hold the theorems (see The proofs): one
each on top of `TaskSystem` (with `KernelObject`),
`Semaphore`, `EventFlag`, `DataQueue`, `MemPool`, `TimeEvent`, `SerialPort` and `Interrupts`.

The MC modules give constants for TLC. Where several instances of one specification, or several small
specifications, answer one question, they are scenarios of one run: the MC module
declares the variables, makes an instance (`INSTANCE ... WITH`) for each scenario, the
initial state chooses one (`scenario`, `object`, `architecture`), and the variables
that it does not have stay as they are. Where the scenarios have kernels of their own, the variables of
the second one end in 2; the kernel that is not chosen does not take a step. The scenarios of a module
have the same tasks and objects, because TLC evaluates a definition of constants once for all
instances. The properties of such a module have the
names they have in the specifications, and state them for the scenario at hand. `MCTimeHeap`
adds a next-state relation to `TimeHeap`, any insertion and deletion.

Operators whose comment begins with "Mutant" are variants of the definition that
follows them, with a mistake someone might make there. Nothing uses them; they
show, at least one per property and run, that the property notices the mistake.

## The runs

| run | instance | question |
|---|---|---|
| TaskSystemAll | 2 tasks, 2 priorities, every call, with fairness | Is any request (wake-up, activation, termination) lost or kept too long? Does a wait leave its time event behind? Does a task that disabled dispatching or locked the CPU keep the processor, and one that forbids termination live? Does the task that should run get the processor? |
| Mutex | 3 tasks. "lock": a mutex with a ceiling and one in priority order, locks, terminations. "wait": two ceilings, polled and timed locks, changes of priority | Do owner, list and priority agree, through hand-over, ini_mtx and termination? Are ceilings respected? Does a mutex go to the first that waits? |
| TimeEvents | "tick": SysTick, an alarm, a cyclic, a wait. "systim": a free-running timer, one alarm, set_tim, a system time wider than the event time. "heap": 6 events with 3 different times | Do events come in order, at their tick and never early? Do flags and heap agree when callbacks stop and start events? Does the system time go on without a step? Is the heap a heap after any insertion and deletion? |
| TimeEventHrt | a free-running timer; an alarm, a cyclic, a wait; set_tim, an adjustment; fairness | Are heap and flags in step? Is the timer always set for the first event? Is its count read before it wraps around? Is what is due called? |
| Semaphore | 3 tasks, 3 priorities, at most 2 permits; the semaphore's calls and those that change the order of tasks | Do ready queue, bitmap and `p_schedtsk` agree, with waits for an object among the rest? Is a dispatch ever forgotten? Is the order within a priority kept? Do the reports agree with each other? Is a permit lost, or given twice? |
| DataQueue | 3 tasks, 2 values. "ring": 2 places, forced sending, clearing, handlers that send, terminations. "sync": no place, senders by priority, time limits, released waits, changes of priority. "pri": a priority data queue with 3 places and 2 data priorities, 2 tasks | Is it a FIFO, within a priority for the latter? Does a task ever wait for what is there? Is each data received once, in turn? Do the lists over blocks hold together? |
| KernelObjects | 3 tasks. "flg": an event flag, 2 bits, all four attributes. "mpf": a memory pool of 2 blocks | Does a task wait for what is there? Does set_flg miss one of the tasks it walks past? Is a block given twice or lost? |
| Services | Buffers of 2 characters both ways, calls that read 1 or write LF. "tasks": 2 tasks at once, the settings a port is opened with (echo, CR before LF, flow control both ways), waits released, X, STOP and START come in. "chars": one call at a time, X and LF come in, also with the settings without echo. "log", "cells": a log of 2 entries, 4 records, 2 masks, a flush, a port of 2 characters that refuses one at most while it is open and may be closed, the end of the kernel, in C and as TECS components | Do buffer, semaphore and transmitter agree after every callback? Does a reader that leaves characters behind pass its permit on? Is a character lost, doubled or moved on its way? Is an entry moved, or lost uncounted without a refusal? |
| TSerialPort | 2 tasks, buffers of 1 character, a string of 2, with fairness | Does a task that writes more than the buffer holds always return? |
| Interrupts | 2 tasks, 2 interrupts. ARMv7-M: one of them above PendSV, chg_ipm, CPU exceptions. ARMv6-M: dis_int, ena_int, clr_int | Does anything of the kernel's enter a locked region? Is the mask at the end of every way out that of the task's or handler's? |
| SerialStop (violation) | 1 task, receive buffer of 4 | see Findings |
| InterruptsChgIpm (violation) | ARMv6-M with chg_ipm | see Findings |

All state spaces are finite without further bounds, because the kernel's own
limits are small: one activation and one wake-up can be queued. Two tasks are
enough for questions about one task and another one that acts on it; order
needs three, with two in one priority and priorities above and below to move to
and from. Three tasks and two mutexes give every shape of the mutex code: an
owner, two waiting tasks whose order matters, a mutex in the middle of a list.
A ring of two places has a middle, an end that wraps around and room for a
sender to fill; without a place every transfer is from task to task. Two values
tell apart any two data whose order could be confused, since no call looks at them.
The scenarios of one module differ in `Calls`: every combination of calls over three
tasks is too large to be of use, and each takes the calls that its
properties depend on (those that change the order of tasks are in Semaphore); the calls of tasks that no object is concerned with are all in
TaskSystemAll. The objects need no more than a few permits, bits, blocks and places: enough
that there are none, one and one more, that a free list has an order that differs from the
array's, and that one call can serve one task and leave another.
A port's buffers in Services are of two characters, and its calls read one: a reader leaves a character behind and passes its permit
on (`sig_rcv_sem`), or empties the buffer and leaves the permit to the callback; the order of two characters that came in is at stake; every
index wraps around. A line feed with the carriage return before it fills the send buffer. With both tasks and every character at
once the states are too many, hence the two scenarios: two tasks contend for permits over characters that are alike
but for what they echo, and one call at a time tells characters apart. A port's STOP and START limits are three quarters and
half of the size: one and one for two places, different figures for four (SerialStop). Four
records (`MaxLog`) overflow a log of two entries twice while the log task has none in hand; one released wait (`MaxRelease`) breaks one
line in any place, and a closed port refuses any number of characters.

Fairness of `TaskSystem` (`KFairSpec`) is that of the hardware, the boot and handlers that
keep the kernel's rules: a handler that has locked the CPU unlocks it, interrupt
handlers come to an end, and PendSV is then taken. The latter two are strong
fairness, because other interrupts may come again and again in between, and each
ends. No task is assumed to make
any call. `SchedtskRuns` therefore promises no more than that the task that should run
gets the processor or ceases to be the one that should.

The figures of `TimeEvent` are miniatures of the kernel's (event time modulo 6, 8 or
10 in place of 2^32, a margin of 2 or 3 in place of 200 s, a longest time of 1, 2 or 3 in
place of 4000 s, adjustments of 1 in place of 1 s), chosen so that
the first part of `FigureAssumption` holds with equality: that every event stays in the
half-open range of the modular comparison is then at stake in every run. The kernel's figures satisfy the same assumption. Six events make a
heap in which an event taken out is replaced by one of another branch, so that
it may have to go up; the other runs need no more than three. `Reltims`, `Adjtims`
and `Systims` are the arguments used. `count` assumes that interrupts are
served in time: at most `LATENCY` counts late, and no event later than the margin.
Time does not pass while the CPU is locked.

`FairSpec` of `TimeEvent` is fair to the timer interrupt, which stays pending until
it is accepted, and to `signal_time`, which goes on when its callbacks return.
Neither time nor any call is assumed to go on. `DueIsCalled` leaves out cyclics,
whose period may be so short that they are due again when they have been called.

`FairSpec` of `TSerialPort` is that of a device that works and of tasks that get the
processor: a task that does not wait goes on, a character that is being sent is out some
day, a callback that was asked for comes when the device can take a character, and the other side that has
stopped the port lets it go on. `WriterReturns` also presumes that the other side
some day sends nothing else (`Quiet`): START and STOP are answered before text is
sent, and an unlimited stream that must be answered starves it.

Symmetry is used for the values sent through data queues and for tasks that
are alike (Services, Interrupts), in runs without liveness. Elsewhere tasks differ in priority and attributes.
TimeEventHrt has a view (`Seen` of MCTimeEvent): the time of an event that is not in the heap
is left out, because whatever registers an event sets its time first, and no property reads it
otherwise. So states with the same view have the same successors and properties.
Deadlock is checked, since with an idle processor an interrupt can always come, except
in Services, TSerialPort and SerialStop: after `ext_ker` these systems stop.

## Findings

Two runs show that the code departs from what it says of itself:

  - SerialStop: `serial_rea_chr` (serial.c:537) sends START, but leaves a STOP that
    is still noted in `rcv_fc_chr`. The STOP then goes out last, while `rcv_stopped`
    says that the other side may send; no START will follow.
  - InterruptsChgIpm: on ARMv6-M `t_set_ipm` enables interrupts in the middle of
    `chg_ipm` (core_kernel_impl_v6m.h:171), which has the CPU locked.

What follows was met in writing the modules and has no run; each can be seen by changing the
constants named. It is why the ARMv6-M scenario leaves out CPU exceptions and
interrupts that are more important than PendSV, and why `EchoReleases` is FALSE.

| where | what | to see it |
|---|---|---|
| core_support_v6m.S:254 | the CPU lock of ARMv6-M does not keep out PendSV while an interrupt above it is served | `V6` with `intpri` -1 and -2, `Calls` {act_tsk} |
| core_kernel_v6m.trb:206 | `intpri <= prio` leaves the interrupts of priority `TMIN_INTPRI` enabled while the CPU is locked; core_user.txt:50, 110-111 count them to those disabled | `V6` with `intpri` -1 and -3, `Calls` {loc_cpu} |
| core_support_v6m.S:147, 166 | a CPU exception between the two steps of `lock_cpu` | `V6` with `CpuExceptions`, `Calls` {act_tsk, loc_cpu} |
| core_kernel_impl.c:360 | `define_inh` sets `core_int_entry` for handlers outside the kernel's management too, whose exit sets `lock_flag` to 0; core_user.txt:63-64, 74-77 exclude them | read; such handlers are not modelled |
| serial.c:593 | `serial_rea_dat`, released from the wait for the echo's space, returns without giving back the permit of the receive buffer | SerialPort with `EchoReleases`, ECHO in `Ioctls`, buffers of 2 and 1, `Lengths` {1}: `PortOK` |

## The proofs

They hold for every number of tasks, priorities, permits, bits, places, blocks,
alarms, cyclics and characters, interrupts and levels of interrupt priority, all times and figures
of the timer that the assumptions allow, every configuration of the boot, and every set of calls.

| module | theorem | what it states |
|---|---|---|
| `TaskSystemProofs` | TypeCorrect | `TypeOK` |
| | ReadyQueueCorrect | `ReadyQueueOK` |
| | DispatchCorrect | `DispatchOK`, made of SchedtskCorrect, DispatchNotLost, DspflgCorrect |
| | RequestsCorrect | `RequestsOK`, made of TerminationNotLost, WakeupNotLost, DormantCorrect |
| | TimeEventOfWait | `TmevtbOK` |
| | SchedulingCorrect | `SchedulingOK`, what the user sees of dispatching, a corollary of the invariant |
| | ProcessorKept | the action property `KeepsProcessor`, for disabled dispatching and for the CPU lock |
| | TerminationForbidden | the action property `TerminationDisabled` |
| | ReportsCorrect | `ReportsAgree`: get_tst, get_tid, get_lod, get_nth, get_pri, sns_dsp, sns_dpn, sns_ter and the requests, time limit and dis_ter of ref_tsk |
| `SemaphoreProofs` | PermitsNotIdle | `NoIdlePermit` |
| | PermitsImplemented | `ImplementsPermits`: `Semaphore` implements `Permits` |
| `EventFlagProofs` | EventsNotMissed | `NoMissedEvent` |
| | EventsImplemented | `ImplementsEvents`: `EventFlag` implements `Events` |
| `DataQueueProofs` | DataNotIdle | `DataOK` |
| | TasksServedInTurn | the action property `ServedInTurn` |
| | FifoImplemented | `ImplementsFifo`: `DataQueue` implements `Fifo` |
| `MemPoolProofs` | PoolCorrect | `PoolOK` |
| | BlocksImplemented | `ImplementsBlocks`: `MemPool` implements `Blocks` |
| `TimeEventProofs` | HeapCorrect | `HeapOK` |
| | TimerCorrect | `TimerOK` |
| | OnTimeCorrect | `OnTimeOK` |
| | TimesImplemented | `ImplementsEventTimes`: `TimeEvent` implements `EventTimes` |
| `SerialPortProofs` | PortCorrect | `PortOK`, if `EchoReleases` is FALSE |
| | LineImplemented | `ImplementsLine`: `SerialPort` implements `SerialLine`, in which no character is lost or doubled while the port is open and the kernel runs, if `EchoReleases` is FALSE |
| `InterruptsProofs` | StandardModelCorrect | `StandardModelOK`, on processors with BASEPRI |
| | HandlersStartUnlocked | `LockMasks`, on processors with BASEPRI |

### Tasks

None of the properties of `TaskSystem` is inductive alone. `make_runnable`
appends to the queue of a priority and compares with `p_schedtsk`: that is right
only if no task is linked yet (`ReadyQueueOK`), if `p_schedtsk` has the highest
precedence (`SchedtskOK`) and if `dspflg` says when it may be stale
(`DspflgOK`). A termination reaches a task that waits with a time event
(`TmevtbOK`) and must leave a dormant task with initial values (`DormantOK`).
`IInv` is their conjunction, with `NoMutexes` (no task holds a mutex or waits for
one) and `BootOK` (a task the boot has yet to initialize is dormant). Tasks may wait
for other objects: the modules of the objects extend this one and use its proofs.

  - The first lemmas of `TaskSystemProofs` are about sequences (what an insertion, a removal, a
    change of place does to a queue without duplicates). Proof modules that do not build on
    this one have the few that they need, too.
  - The next part states, for each operator of `Sched`, what it
    does to `ReadyQueue(kk, R)`, `Scheduled(kk, R)` and `QueuesOK(kk)`, where `R` is the
    set of tasks that ought to be linked. The parameter `R` lets a lemma speak of the
    middle of a call, where the state of a task and the queues disagree.
  - `IInv` is split into a part about the kernel's data (`Consistent`, `TasksOK`) and
    the rest. A call maps data with that part to data with it, and the ways a call
    ends make the invariant of it. There is a lemma per action, then `NextStep` by
    cases on the disjuncts of `KNext`, `Invariant` by induction, and the theorems as
    conjuncts of `IInv`.
  - The action properties follow: `Steady` says that no step takes the processor from
    a task that has disabled dispatching and leaves dispatching disabled. `LockedStep` says the same of the CPU
    lock: of the calls that may be made with the CPU locked only `ext_tsk` gives up the processor, and it unlocks.

### Objects

The last part of `TaskSystemProofs` is about the three things every object does: a task begins to
wait, the first of a queue is served, all of a queue are released. Each takes
`Sound` data to `Sound` data and changes the set `WaitersOf(kk, w)` by the tasks concerned. A step of
`TaskSystem` alone can only take tasks out of that set (`rel_wai`, `ter_tsk`, a time limit). With
`ObjectOK(kind)`, which adds that tasks wait only for objects that exist and how, the
invariant of an object is a few lines about its own variables:

| invariant | says besides `ObjectOK` |
|---|---|
| `SemaphoreOK` | the count is in range; above zero, nobody waits |
| `EventFlagOK` | whoever waits has a condition that the pattern does not satisfy; one task only without `TA_WMUL` |
| `DataQueueOK` | head, tail and count delimit a part of the ring (`Delimited`); receivers wait only at an empty queue, senders only at a full one, never both |
| `MemPoolOK` | there is a sequence `q` of distinct blocks that the free list links (`PoolIs`, `Linked`); what is being given back is neither in it nor unused (`GivingOK`); nobody waits while a block is free |

The walk of `set_flg` is a fold: `Walked` says which tasks have been released, and with which
pattern, after `n` places of the queue. The free list of the model is read by a
recursive function (`List`). That the function finds `q`, and that the fold does what
`Walked` says, is an induction over their steps, proved by the least counterexample (`SmallestNat`):
the library's induction theorems take an operator as a parameter and cannot be used here.

A refinement is proved with the invariant: each lemma about an action has the invariant
after the step and the step of the abstract specification in its conclusion
(`Permitted`). Where a call passes something from one task to the next, the waiting
tasks before and after are compared as sets, and the functions over them (`Offered`, `Waits`)
argument by argument.

### Time events

`HeapOK` asks whether a heap is in order whose keys are compared modulo 2^32, from a boundary
that moves. The proof goes through `Ahead`, the times counted from the boundary, which are plain numbers:

  - The heap by itself (`SiftUp`, `SiftDown`, `HeapOrder` with keys in the integers): a hole
    goes along a branch, each event on the way moves by one node, and where the search
    ends the event fits. What deletion puts into the hole is the last event, from another branch, so
    it may have to go either way. `Located` says that heap and `p_tmevtn` are inverse to each other;
    `Rearranged` says what `Slide` and `Place` make of both.
  - The clock: `InReach` says that every registered event is at most `BOUNDARY_MARGIN` before the clock,
    after the count that has not been read yet as well, and at most
    `TMAX_RELTIM` + `TSTEP_HRTCNT` after it, and what the clock has been set back by (`Behind`) more. By
    `FigureAssumption` this is less than one round. A difference modulo 2^32 is then the difference, a
    move of the clock moves all `Ahead` by the same and changes no comparison, and the heap stays one (`StaysSound`).
  - The bounds: the count cannot run away because the timer is set (`Resting`: the interrupt comes
    in time for the first event, and before the count wraps around) or `signal_time` is running
    (`Busy`), which reads it before it ends. With SysTick, `Resting` says that nothing is later than two
    adjustments: `check_adjtim` refuses the third.

`IInv` is the conjunction (`State`), with "registered if and only if started" and what `sig` and
`callflag` say about the count. Every function of `time_event.c` has a lemma about what it makes
of such data, with or without `in_signal_time`, in whole numbers: `Left`, `Late` and the system time
are kept (`Keeps`) or go on by d (`Passed`). TimerCorrect and OnTimeCorrect follow at once, and the refinement needs
no more than one short lemma per action of `EventTimes`.

### Serial port

`PortOK` says where the permit of each semaphore is, but not who waits for it. `PortInv` adds
the wait queues: `SndCalls` and `RcvCalls` are the calls between `wai_sem` and `sig_sem`, `SemOK` says
that all of them but one at most wait, and that the permit is free, with that one call, or with the
callback, exactly while the buffer is full or empty. Four lemmas say what happens to a permit
(`Claimed`, `Passed`, `LeftToCallback`, `GaveUp`); each step of a call or callback is one of
them for each buffer, or none. `QueuedOK` says that a call waits only where its `pc` allows it. An
open port keeps `OpenOK`, and a closed one `ClosedOK`: nobody is in a call.

`LineInv` adds what the refinement needs: the rings stay rings when the port is
closed or has ended, what is noted to be sent is flow control, and a call has something to put exactly
where its `pc` says so (`TextOK`). The refinement mapping reads a ring
as a sequence (`Contents`). `StoredLast` and `DroppedFirst` say that `Store` appends to it and `Drop`
takes its first, wherever the indices are; they rest on `PlacesApart` (places fewer
than the size apart are different modulo the size). A step of a call or callback is then a
step of the line because of the permits: only a call that has the permit puts a
character into the buffer or takes one, so there is room, or there is a character
(`HolderServed`). It waits only where the permit is not free (`NoPermit`), so where there is no room, no
character or another call. For each action of the line a lemma says which change of the port is that action (`BeginLine`, `WaitLine`, `PutLine`,
`ReadLine`, `ReturnLine`, `SendLine`, `ReceiveLine` ...), and for each action of the port one that it is such
a change; all end in `LineStep`. `SameText` says what leaves the characters alone. That `Unsent` is possible only after
the end and `Open` only of a closed port needs no invariant: `openflag` and `ended` are variables of both.

### Interrupts

`StandardModelOK` says what is accepted between the calls and within a locked region. That
depends on BASEPRI, and BASEPRI on the code that has run: on what `lock_cpu` has read
before an interrupt came, on what the handlers below have pushed, and on the contexts that
the dispatcher and PendSV have saved. `IInv` therefore says of every context which points of its
code it may be at, and what the registers are there:

  - `Unlocked`, `MaskRaised` and `Locked` are the points at which nothing is masked beyond the
    mask of the thread, at which BASEPRI is at the level of the lock but `lock_flag`
    is not set (or not any more), and those in the locked state. A predicate like
    `Unlocks(c)` describes the code that a context has still to execute.
  - `PointsOK`: the running context is at one of them, with the BASEPRI, `lock_flag` and
    `saved_iipm` that belong to it, and all contexts below are at `Unlocked` points. A CPU
    exception may have come at any point; what it has pushed describes the context below it.
  - `StackOK`: the thread is at the bottom, PendSV comes directly above it, an exception is on
    top, and every handler has pushed the thread's mask.
  - `MaskOK`, `SavedOK`: a mask other than `TIPM_ENAALL` forbids dispatching; a task that does
    not run will go on at an unlocked point (saved by PendSV) or at the end of a
    call (saved by the dispatcher).
  - `RequestedOK`: where the thread is unlocked and not the one that should run, PendSV is
    pending, or a handler above is about to request it. This is why a thread that
    runs at an unlocked point is the right one, without which `do_dispatch`
    could resume the wrong context.

An instruction is treated in two stages: `FromUnlocked`, `FromRaised` and `FromLocked` say
for a context alone, with the registers as parameters, that it leads from one point to another
(`StepOK`); `Moves` puts the context back on the stack. A call is a lemma that its code begins at a
right point, the dispatcher and PendSV have a lemma for each way on, and entry and return are
`Pushes` and `Pops`. The hypothesis of the theorems, `Managed`, is the module's assumption, a processor with BASEPRI, and
that the kernel manages every handler (the exit from others unlocks the CPU, see above).

### Assumptions, and what is only model-checked

The proofs assume the named assumptions of the modules (`TaskAssumption`,
`PriAssumption`, `WobjAssumption`, `AttributeAssumption`, `TorderAssumption`, `SerialAssumption`, `EvttimAssumption`,
`EventAssumption`, `ArgumentAssumption`, `FigureAssumption`). Those of
the objects and of `Interrupts` (`SemaphoreAssumption`, `EventFlagAssumption`, `DataQueueAssumption`,
`MemPoolAssumption`, `InterruptsAssumption`) are
operators, since MC modules instantiate the modules and assert them of their instances with ASSUME; in the
theorems they are hypotheses. PortCorrect and LineImplemented have the hypothesis that `EchoReleases` is FALSE,
because with TRUE `PortOK` fails (see Findings). `SerialAssumption` leaves out calls that are
to write or read no characters: they do nothing. The theorems about time rest on the guards
of `count`: interrupts are served within `LATENCY` counts and no event waits longer than
`BOUNDARY_MARGIN`, without which the code's comparison modulo 2^32 is wrong.

Only model-checked:

  - liveness (`SchedtskRuns`, `DueIsCalled`, `WriterReturns`), which is out of reach of the prover;
  - the order of tasks within a priority (`OrderKept`);
  - mutexes (`MutexOK`, `CeilingsOK`, `HandedOver`) and priority data queues (`PridataOK`, `ImplementsPriFifo`);
  - that an operation on the heap concerns one event (`OneEvent`);
  - what becomes of log entries (`ImplementsJournal`);
  - the interrupt model on ARMv6-M (`StandardModelV6`), where the enable bits of the NVIC
    take the place of BASEPRI and the code of the lock is another.

## Not modelled

  - The registers of the timer, and the few counts that pass between reading the
    timer and setting it; `fch_hrt`, which only reads it.
  - The return code of a wait that was ended (`wercd`), and the calls that are refused.
  - Saving and restoring registers, stacks and the floating-point context in the
    dispatcher, and the boot code.
  - The vector table, default handlers and trace hooks; `prb_int`, which only reads.
  - Handlers of interrupts outside the kernel's management.
  - The log task's own termination and restart by the application, and a port that is opened again while
    the log task uses it.
  - The text of the log's lines, and the two ways of putting out a character.
  - The banner, the histogram and the test services: output and measurements.
  - The configurator (Ruby), which runs on the host and whose results are the constants
    of the modules; samples; the C library's functions.
  - Two objects at once, other than mutexes: no call touches two, and a task waits for one.

## Plan

Done: all modules; the proofs about tasks, semaphores, event flags, data queues, memory
pools, time events and the serial port, the refinements of `EventTimes` and `SerialLine` among
them, and about the interrupt model on processors with BASEPRI.

Next, proofs, in this order:

 1. `PridataOK` and `ImplementsPriFifo`, after the pattern of `MemPoolProofs`.
 2. `MutexOK` and `CeilingsOK`, with `CeilingAssumption` as a hypothesis.

Left for TLC: liveness.
