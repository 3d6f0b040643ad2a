# A TLA+ model of xcontiki

xcontiki is a small cooperative operating system in C, derived from Contiki: a
kernel that runs event-driven processes, timers, and a scheduler of stackless
threads (protothreads), driven by one main loop. These modules state what that
code does and what it can be relied on for. TLC checks the properties on small
instances; TLAPS proves the central ones for every instance.

## 1. Inventory

### 1.1 How the parts interact

`main` calls `xcontiki__main` forever. Each pass runs every task of the
protothreads scheduler that is due, asks for a poll of the event-timer process
and calls `process_next_event` once if anything waits. Everything is
single-threaded; the only concurrency in the usual sense is interrupts, which
may call `poll` and put bytes into ring buffers. What makes the kernel hard is
re-entrancy. A process thread runs to completion, but on its way it may start,
exit and call other processes, whose threads may do the same, while the kernel
is in the middle of walking its list of processes.

    main loop --> scheduler --> tasks ------------.
        |                                         v
        |-- request_poll --> [event timers] --> [process kernel] <--> threads
        '-- process_next_event ----------------->    |                  |
                                                     '- event queue     '- timers

### 1.2 Components

**Process kernel** (`Process.c`, `Process_priv.h`). State: the linked list of
processes; per process the bits `running`, `called`, `needspoll`,
`marked_to_exit`; `poll_requested`; `current_process_ptr`; the static flag
`is_another_marked_to_exit`; the activations on the C stack. Operations: start,
exit, poll, post via the queue, post synchronously, process_next_event. Hard:
every walk of the list calls threads that change the list; `exit_process`
nests in itself and shares a static flag; `current_process_ptr` is one global
for any depth of calls; `poll` comes at any time. Correct when: the executing
thread is the current process; the list stays a simple list; a walk reaches
all it must; no condemned process outlives its exit; polls and events are
neither lost nor starved.

**Event queue** (`Process.c`, `Process_priv.h`). State: three arrays and two
8-bit counters. Operations: post, take, initialise. Hard: the wrap of the ring
and of the counters. Correct when it is a bounded first-in, first-out queue.

**Process threads** (`Process.h`) and **protothreads** (`Protothread.h`). A
protothread is one switch over the line where it blocked last. The THREAD macro keeps
that line for each process, but lends it to a static variable of the file while a
thread is called. Hard: the line outlives an exit; calls of threads of one file nest,
also of the same thread, and all use the one variable; a child protothread must be
waited for only while it goes on. Correct when each thread goes on where it blocked itself.

**Main loop** (`xcontiki.c`, `main.c`). State: whether the next pass initialises the
system. Hard: everything else depends on it, although tasks and interrupts call the kernel between
its statements and the system may be initialised while it runs. Correct when whatever
waits in the kernel is taken, and the event timers are looked at, again and again.

**Event numbers** (`Process.c:53-55`). One 8-bit counter; it wraps.

**Timers** (`Timer.c`, `Timer.h`). State per timer: start, interval, the previous
difference, three flags; per timer object the number of its timer. Operations: set, reset, restart, expired, remaining,
remove, set_interval, set_start. Hard: the clock wraps, an expiry is noticed only
when somebody looks; a removed object keeps its number. Correct when a timer is never early and, looked at often
enough, never late, and no two objects share one.

**Event timers** (`Etimer.c`). State per event timer: a timer, an owner, two
flags; a process that posts the TIMER events. Operations: set, reset, restart,
adjust, stop, remove; the process on POLL and on EXITED. Hard: a full queue, the
exit of the owner, stop and remove racing an event already queued, the numbers
of removed timers. Correct when each expiry of a running event timer is posted to
its owner exactly once.

**Protothreads scheduler** (`ProtothreadsScheduler.c`). State per task: last
result, last time, previous difference. Correct when a task that yields or waits
runs in every pass and a task that ended runs again once per interval.

**Ring buffers** (`Ringbuf.c`, `RingbufIndex.c`). One producer and one consumer,
one of them an interrupt, and no lock. Correct when a bounded queue.

**Circular lists** (`CircularList.c`). A list through a moving head. Correct
when it is a cycle of the elements added and not removed.

**Clock** (`Clock.c`). A counter that wraps, and busy waits on it. Correct when a
wait is neither too short nor longer than needed.

**Watchdog, assertions, sleepyhead, configuration.** Empty on Linux, or they only print.

**Tests, project files, the vendored test tool.** Not modelled.

### 1.3 Where testing falls short

`PROJECT.json` lists the hazards, each at its line, with the properties that cover
it or the reason why there is none. The unit tests of the repository exercise the
timers, the scheduler and the clock one call at a time. The kernel, where most
hazards lie, has three: a start, an exit and a broadcast, none of which nests calls
or changes the list while it is walked.

## 2. Plan

| order | module | models | state |
|---|---|---|---|
| 1 | `ProcessKernel` | the kernel with nested calls | done |
| 2 | `EventQueue`, `BoundedFifo` | the queue's ring, and what it promises | done |
| 3 | `ProcessKernelProofs`, `DataProofs` | types, the current process, the queue's refinement | done |
| 4 | `Timer`, `TimerHistory`, `TimerProofs` | timers over a wrapping clock; never early, and exact if looked at within a wrap | done |
| 5 | `Etimer`, `EtimerHistory`, `EtimerProofs` | event timers composed with timers, owners and a bounded queue | done |
| 6 | `RingbufIndex`, `Ringbuf`, `CircularList` | one producer and one consumer, implementing `BoundedFifo`; a list that stays a cycle | done |
| 7 | `ProtothreadsScheduler`, `SchedulerHistory` | tasks that run in every pass or once per interval | done |
| 8 | `Xcontiki` | the main loop, tasks, interrupts and initialisation over the kernel | done |
| 9 | `Protothread`, `ProcessThreads`, `PrivateThreads` | the threads of a file share one continuation and do not notice | done |
| 10 | `PollInterrupt`, `TimerObjects`, `ClockWait` | bits that share a byte with an interrupt; objects over timers; busy waits | done |
| 11 | `SchedulerProofs`, `InterruptProofs`, `ProcessThreadsProofs`; more in `ProcessKernelProofs`, `DataProofs` and `TimerProofs` | see section 5 | done |
| 12 | `XcontikiProofs` | the whole program implements the kernel, whose invariants it inherits | done |
| 13 | more in `EtimerProofs`, `DataProofs`, `InterruptProofs`, `ProcessThreadsProofs` | the time of event timers, circular lists, busy waits, child protothreads | done |

`EventQueue` refines `BoundedFifo`; `ProcessKernel` and `Etimer` use the queue as a
sequence, which that refinement justifies; `Etimer` composes `Timer` with the part of
the kernel that it uses; `ProcessThreads` refines `PrivateThreads`; `Xcontiki` drives the
kernel, and in it the process of `Etimer` is a process that makes any calls.

## 3. The modules

### 3.1 ProcessKernel

`stack` is the C stack. Each frame is an activation that is suspended in a call:

| frame | C function | what it keeps |
|---|---|---|
| `thread` | the thread function of a process | the process, the event |
| `sync` | `post_synchronous_event` | `caller` |
| `exit` | `exit_process` | cursors `p`, `q`; `fromprocess`; `old_current_process_ptr`; where it is |
| `event` | `do_event` | cursor `p`, the event, where it is |
| `poll` | `do_poll` | cursor `p`, where it is |

The last frame executes. If it is a thread it makes a kernel call (`Start`,
`Exit`, `Post`, `PostSync`) or returns (`ReturnToCall`, `ReturnToExit`); otherwise
exactly one of the actions of `KernelStep` goes on with the C code to the next
call, loop turn or return. An empty stack is the main loop or a task; it may
call the same functions, or `NextEvent`. `Poll` is an interrupt as well and may happen
between any two steps.

The list is a sequence with, in `stale`, the `next` pointer a block keeps after it
was unlinked: a walk whose cursor stands on such a block goes on from there, as the C
code does. `ExitUnlink` leaves the pointer, `Start` overwrites it by linking
the block at the head.

`queue` is the pending events as a sequence. The data argument of an event is
left out: the kernel only passes it on. Results YIELDED and WAITING, and EXITED
and ENDED, are told apart nowhere in the kernel.  Calls that return early without
a change (start of a listed process, exit of an unlisted one, a post to a full
queue, a synchronous event to a process that is not called) are not steps: they are
stuttering.

`Initialize` comes at rest, also when the system has run: it empties the list and the queue and
leaves the bits, the `next` pointers and `poll_requested` as they are.

`due` is a history variable: which process each walk still has to reach, and whose
poll is pending. It does not influence the other variables.

An application is any sequence of calls, with two bounds. `MaxCalls` is the number
of kernel calls that threads make between two rests of the kernel; without it one thread
could nest calls forever. `NumEvents` is the size of the queue.

### 3.2 EventQueue and BoundedFifo

`EventQueue` has the arrays and the two counters with their width (`Wrap`), the cast
in the slot computation, and re-initialisation. `BoundedFifo` is a sequence with
at most `Capacity` items. The refinement maps the slots from `fevent` on to the sequence.

### 3.3 Timer and TimerHistory

`Timer` has the arrays of `Timer.c` and one action per function. `clock` is the
reading of the clock, which wraps at `Wrap`; sums and differences wrap with it
(`Plus`, `Minus`). `Looked(T, X)` is what looking at the timers `T` does when those
in `X` are found expired: `expired`, `remaining`, the early return of `reset` and the
sleepyhead thread all share it. Timer 0 stands for no timer and is not in
`Timer`; the functions return at once for it.

`TimerHistory` has the same steps, and beside them the real time: `age` is how
long ago the interval of a timer began, `gap` how long nobody has looked at it.
A timer is `tracked` as long as the documentation says what it means: from a set, restart
or reset on, until it is removed, its start is overwritten, or its interval is
changed after it expired. The properties compare the answers of the code, which knows the
wrapping clock only, with the age.

### 3.4 Etimer and EtimerHistory

`Etimer` has `timer`, `process_ptr` and `etimer_flags` of `Etimer.c` and takes `Timer` as an
instance. The library's process is the variable `et`: 0 while its thread waits,
otherwise the event timer that its loop looks at next, so that each turn of the loop is a
step, and clock ticks and polls from interrupts come between them. Since that
thread calls no other thread, nothing else does (`Quiet`). `polled` is the `needspoll` bit of the
library's process. Of the kernel there is what the library sees: the processes that
run (`alive`), those that have exited but whose threads execute
still (`leaving`: in their EXIT handler, or because they asked for the exit themselves), and the
queue with the event timer each event is about.

`EtimerHistory` adds `left`: how long it is until an event timer is to expire by
the words of `Etimer.h`, negative when it is overdue. The inputs are those the documentation
allows: threads of running processes make the calls, with numbers that `set` has
given out. `MaxLate` is how long an overdue event timer is followed. For `OnTime` it may not
exceed `Wrap`: a reset a whole wrap after the expiry finds a start that no
reading of the clock can tell from a later one, and the interval it begins is shorter by
a wrap or longer.  `Prompt` lets time pass only while every event timer is looked at once in
a wrap, which is what the polls of the main loop are for. `Calls` chooses the
calls that threads make, `LastCalls` those of threads whose process has exited.

`ExpirationTime` is what `expiration_time` answers; `left` says what it should answer.

### 3.5 ProtothreadsScheduler and SchedulerHistory

`ProtothreadsScheduler` has the arrays of `ProtothreadsScheduler.c` and its loop over the
tasks: `i` is the task, `at` whether the loop is about to look at it (`StartFirst`,
`GoOn`, `Look`), about to read the clock a second time (`StartAgain`), or has
called it (`Return`, with any result). The clock ticks between any two steps, so a task
takes any time, and the two readings for one task may differ. The result of a pass is left out:
its only caller ignores it. Initialisation comes between two passes only, as in `xcontiki__main`.

`SchedulerHistory` adds the real time since a task was started (`age`) and since
its difference was last taken (`gap`), as `TimerHistory` does for timers. The scheduler has its own
copy of the test for an expiry, but unlike a timer it measures a task only while the
task is not running: one that takes a whole wrap of the clock may be started late.

### 3.6 RingbufIndex, Ringbuf, CircularList

Both rings have two users, of whom one may be an interrupt; `putting` and `getting`
say how far each is. A user of `RingbufIndex` peeks, uses the slot of its own array, and moves the
ring on (`PeekPut`, `Store`, `Put`), and both functions check once more; the user who takes may also call `get`
at once and use the slot that it returns, if the other user has not gone round the ring meanwhile. `Ringbuf` does the same within one
call, without a second check. Every access to what both users see is a step of its own. A
user that is told that there is no room or no item does not go on. Pointers are read and
written at once, which the code's comments require of the platform. The refinement maps the
slots from `get_ptr` on to the queue of `BoundedFifo`, whose capacity is one less than the size.

`CircularList` has the head and the `next` pointer of every element, also of those
that are in no list, and `added`, the elements that should be in it. A call is one step: the
library is documented as not for interrupts.

`MCLibrary` puts these side by side with `EventQueue`, `ProcessThreads`, `PollInterrupt` and `ClockWait` for one run. They share
nothing; a behaviour works on one of them, which `which` says.

### 3.7 Xcontiki

`at` is the statement that `xcontiki__main` comes to next, `first_run` its static flag. Where the
stack of the kernel is empty the main loop, or a task of the scheduler, executes: `TaskCalls` are the
tasks' kernel calls, at most `MaxTaskCalls` in a pass, and `ThreadCalls`, `ThreadReturns` and
`Kernel` go on with what one of them has called. `Interrupt` comes anywhere. `InitAgain` is
`xcontiki__init`, which an application may call at any time; only the value of the flag at
the next pass counts, so that the model calls it there.

### 3.8 Protothread, ProcessThreads, PrivateThreads

`Protothread` says of each macro where the switch enters, what it leaves to resume
at, and whether a condition or a child is tested first (`Enters`, `Leaves`, `Tests`); lines
are numbers, as in C. `ProcessThreads` adds the wrapper of THREAD. `frames` are the calls of threads, of which only the last
executes, `at` a handler above BEGIN (`entry`), in the body, in a condition (`test`) or in a child; from any of these it may
make a call that ends in the call of another thread of any file, or of its own (`Call`).

`PrivateThreads` is the same without a shared variable: each call has its continuation
(`pt`) from the call to the body and from the blocking macro to the return. It makes one exception: if
meanwhile, which can only be from a handler, a condition or a child, a thread of the same file is
called, the continuation is disowned and anything may be resumed. That code does this is easy to
overlook: the thread then resumes at another's line, which is no case of its switch, and falls
out at END.

### 3.9 PollInterrupt

Every statement of the kernel that writes `running`, `called`, `needspoll` or `marked_to_exit`, those of `do_poll`,
`do_event`, `call_process`, `exit_process` and `start`, each a load and a store (`LoadBits`, `StoreBits`) of the word in
which the four are bit-fields. The interrupt comes between any two. `pc` is the statement, `Written` what it makes of the word that was loaded,
`Following` the statement after it. Tasks start processes and exit them, and a thread may end on any event, so that the list
changes before a round of polls (`listed`), and during one (`ahead` is what its loop may still come to). In `exit_process` the others are told (`Notify`), may end on
EXITED (`AnswerExited`) and are exited in their turn. What is not here are calls that threads make
and the order of the list, which `ProcessKernel` has, with the poll and each write as one step. The end of the rounds of `exit_process`
(`ScanReturns`) is by `ExitsAllMarked` of that module.

`asked` are the listed processes whose poll was asked for since they were called with POLL, `undone` those of them whose poll came between
the load and the store of a word of the same process in which no poll was pending. The store then clears the bit, and the property excepts it.
Where a poll was pending before, the new one is undone without harm, since the store keeps the old one.

### 3.10 TimerObjects and ClockWait

`TimerObjects` has the objects of `XCONTIKI_OS_SYS_TIMER__NEW_STATIC` over the actions of `Timer`: `id` is
the number that an object keeps, also after a removal. `MCTimers` runs it beside `TimerHistory`. `ClockWait` has the loop that `wait` and
`delay_usec` share, between whose readings any time passes; `elapsed` is the real time.

## 4. What TLC checks

| run | instance | properties | distinct states |
|---|---|---|---|
| `kernel_exits` | 3 processes, 2 nested calls; initialize, start, exit, sync | `CurrentIsThread`, `ListIsSimple`, `ExitsAllMarked` | 627 000 |
| `kernel_events` | 3 processes, 1 nested call; start, exit, post | `TypeOK`, `WalksReachAll` | 1 060 000 |
| `kernel_polls` | 2 processes, every call, events MSG, EXIT and INIT | `Settled`, `PollIsPending` | 2 450 000 |
| `xcontiki` | 2 processes, one the event timers'; a call of a task and one of a thread in a pass; initialisation again; with fairness | `SystemOK`, `DrivesKernel`, `AlwaysRestsAgain`, `PollIsServed`, `EventsAreTaken`, `EtimersAreLookedAt` | 399 000 |
| `library` | event queue of 4 slots whose counters wrap at 7; rings of 4 slots; lists of up to 4 elements; 3 threads in 2 files, calls 3 deep; polls of 3 processes that are started and exited; waits under a clock that wraps at 7 | `TypeOK`, `IsFifo`, `PeekHolds`, `RingIsFifo`, `IsCycle`, `ContinuationsArePrivate`, `ChildHasBlocked`, `PollIsNotForgotten`, `WaitIsExact` | 1 508 000 |
| `timer_history` | 2 timers, clock wraps at 3, followed to age 7; or used through 3 timer objects | `HistoryOK`, `NeverEarly`, `ExactIfSeen`, `SleepyheadSeesAll`, `TimersAreExclusive` | 1 680 000 |
| `etimer_time` | 2 event timers, 2 timers, 1 process, looked at once in a wrap; with fairness | `ExpirationIsKnown`, `NotEarly`, `OnTime`, `NothingLost`, `EachFires` | 686 000 |
| `etimer_exits` | 2 event timers, 1 timer, 2 processes that exit, every call | `HistoryOK`, `NoOrphans` | 296 000 |
| `scheduler` | 3 tasks with intervals 0, 1 and 2, clock wraps at 3, followed to age 4; with fairness | `HistoryOK`, `NotEarly`, `OnTime`, `EachRuns` | 409 000 |

In short, they show:

  - kernel: however calls nest, the executing thread is the current process; every
    walk reaches all it must; no process that was to exit outlives `exit_process`;
    no poll is forgotten, and when the kernel rests every process on its list can get the next event;
  - main loop: whatever tasks and interrupts do in between, and also after the system was
    initialised again, the kernel is called as long as something waits, comes to
    rest, starves neither polls nor events, and has the event timers looked at;
  - threads: although the threads of a file share one continuation, each goes on where it blocked, with the one
    exception stated; a child that has ended is not run again;
  - polls from interrupts: a poll can be lost only by a write of another bit of the same process that
    it comes into the middle of; the bits with which `do_poll` serves polls are written in an order that
    loses none, whatever is started, exited or ends meanwhile;
  - timer objects have a timer each unless one is used after it was removed; a busy wait is exact;
  - queue: it is a bounded first-in, first-out queue, also across the wrap of its counters;
  - timers: none is ever early, whatever the order of calls and however seldom one
    looks. One that is looked at within each wrap is exact to the tick;
  - event timers: an event is posted at the first look after its time, never before. A full
    queue puts it off and does not lose it, and none is put off forever unless the
    queue is full whenever it is looked at. An exit takes the event timers of its process along;
  - scheduler: a task that has ended is not started before its interval has passed, is
    started at the first look after that if it is looked at once in a wrap, and no
    task is starved by the others;
  - rings: without a lock, each slot is written before it is read and read before it is
    written again, and what a user was told stays true until it is done;
  - lists: any sequence of additions and removals leaves one cycle through the head, on
    which the loops of the library end.

Some statements of the documentation and of the code's comments do not hold.
Three have a run in which TLC finds a behaviour of the code that contradicts them:

| run | statement | what happens |
|---|---|---|
| `kernel_restart` | a process starts with its BEGIN | exited while it waited, it resumes at the wait |
| `kernel_zombie` | start never starts a running process | one restarted while its exit is announced leaves the list running |
| `etimer_shared` | an event is posted when its event timer expires | `remove` frees the timer but keeps its number, so two event timers may share it and one fires early |

These were met while modelling and have no run of their own:

  - between events `get_current_process` is the last process called, which may have
    exited (`Process.h:404`);
  - a process that ends on EXITED is called again by the next EXITED of the same exit (`Process.h:126`);
  - the sleepyhead thread keeps the distance to the farthest expiry, its comment says the nearest
    (`Timer.c:237`, `Timer.c:253`). Nothing uses it;
  - `reset_with_new_interval` is said to give accurate timers without drift
    (`Etimer.h:119-120`), but adds the new interval to the start, not the one that passed
    (`Etimer.c:128`): an interval of 1 after one of 0 ends at once. With
    `"reset_with_new_interval"` among the calls of `etimer_time` TLC finds `NotEarly` violated;
  - `adjust` forward makes the event timer expire at once, because the previous difference
    was measured from the old start (`Etimer.c:162`). With `"adjust"` among the calls of `etimer_time`
    TLC finds `NotEarly` violated;
  - without a free timer `set` hands out an event timer with timer 0, which counts as expired: it fires at once
    (`Etimer.c:116`). With one timer less in `etimer_time` TLC finds `NotEarly` violated;
  - `reset` before the expiry is said to have no effect (`Etimer.h:106-107`), but makes
    the caller the owner and sets a stopped event timer going again;
  - a handler above BEGIN, a condition or a child that lets a thread of the same file be called makes its own
    thread resume at the other's line, where it ends (`Process.h:277`). `PrivateThreads` excepts it;
  - a poll from an interrupt is lost if it comes while the kernel writes `running`, `called` or `marked_to_exit` of its process, though `poll` is
    meant for interrupts (`Process.h`, bit-fields at 332-335). `PollIsNotForgotten` excepts it, and fails without `undone`;
  - `delay_usec` waits for microseconds (`Clock.h:124`), rounded to ticks of `FREQUENCY`, of which there
    are 1000 in a second, but `get_timer` counts the microseconds of `clock()`: it waits a thousandth;
  - a timer object that is used after its removal uses whatever object's timer it has been given since (`Timer.h:103`, `117`);
  - `PAUSE` ignores that the queue may be full, in which case nothing wakes the process;
  - a ring that `NEW_STATIC` defines has the mask 0, and is empty and full at once, until init is called; `get` of
    `Ringbuf` answers 255 where its header says -1;
  - an EXIT handler that sets an event timer leaves one without a process: event timers are
    removed when EXITED is sent, which is before. With `"set"` in `LastCalls`, `NoOrphans` fails.

Why the bounds are enough. Three processes are the fewest in which one exits, a second
reacts and a third must not be forgotten. One nested call in a handler is what each
walk needs to lose its place; the second one, in `kernel_exits`, lets an exit nest
in an exit. One slot makes the queue full and empty in turn; that longer
queues keep the order is `library`'s question, where four slots and a wrap at
seven reach every combination of the counters. The least value of `Wrap` that the
configuration allows is used, so that an error of one shows. For the timers
three clock readings are enough to tell an interval, a difference and its previous one
apart, intervals run up to a whole wrap less one, and an age of 7 is past the
second wrap. Two event timers are the fewest of which one is passed over or given the
other's timer; two processes are needed for an exit that must leave the
other's event timers alone, one suffices where time is the question. In
`etimer_exits` there are fewer timers than event timers, so that the path without
a free timer is taken. The scheduler's tasks have no interval, one of less and one of more than half
a wrap, and an age of 4 is past the first wrap. A ring of four slots is full with three, so
the pointers take every relative position. In `xcontiki` the event timers' process and one
other suffice for one to be polled in each pass while the other's events and polls wait, and one call of a task and of a
thread in each pass for either to come at the worst moment. Three threads in two files are one that shares the
continuation and one that does not; between them they have each blocking macro, and three calls are the
fewest in which a thread is called again below another one. Three timer objects have two timers, so that
one must take over what another has removed. The theorems remove the bounds for the properties they state.

Symmetry of the processes is used in the safety runs: no process is on the
list at first and nothing orders them. It is not used where liveness is checked.

Deadlock is not checked in the runs of the kernel and of the main loop: when nothing waits the system is idle,
and a task may be all that runs. Nor is it in those of the event timers, where
`Prompt` forbids time to pass over a timer that nobody looks at; that this does not hide
a loop that hangs is part of `EachFires`, which assumes that time passes. In
`library` it is not because a wait that has ended does nothing more. In
`scheduler` and `timer_history` it is checked.

### Fairness

`System` of `Xcontiki` assumes that the processor goes on: `WF(MainLoop)`, `WF(Kernel)`, and `WF(ThreadReturns)`, that
a thread returns once its bounded calls are made. Nothing is
assumed of what the application does: no call is ever forced.

`FairSpec` of `ProcessKernel` is what the kernel needs of its surroundings: its code runs on (`WF(KernelStep)`), threads
return (`WF(Return)`), and `SF(NextEvent)`: `process_next_event` is called if, again and
again, something waits while the kernel is at rest. This is not assumed of the main loop but checked: `DrivesKernel` says
that `System` implements `FairSpec`. The strong fairness is due to the tasks, whose calls come between
two passes, so that `NextEvent` is enabled again and again rather than forever.

`FairSpec` of `EtimerHistory` assumes what the main loop does in each pass: it asks for a
poll (`WF(RequestPoll)`), the kernel calls the polled thread (`WF(LoopBegin)`), whose loop
runs to its end (`WF(Turn)`), and an event is taken if one waits (`SF(Take)`: the
library's loop and the application come in between). Time passes (`WF(Pass)`).

`FairSpec` of `SchedulerHistory`: the loop goes on and a task that was called returns
(`WF(Loop)`; the main loop calls the scheduler in every pass and threads must not
block), and time passes (`WF(Pass)`). `EachRuns` excepts a task only if it has an interval, has ended, and
again and again a whole wrap hides between two looks at this very task; a task without an interval
is never excepted, nor is one because of another.

## 5. What is proved

`ProcessKernelProofs`, for any set of processes, any queue size, any bound on the calls,
and any subset of the calls and events:

  - `TypeCorrect`: `TypeOK` always holds. That no cursor is dereferenced when null and
    the queue never exceeds its arrays is part of it.
  - `CurrentCorrect`: `CurrentIsThread` always holds. A thread's call may run any
    number of other threads at any depth; on return current_process_ptr is the thread again.
  - `ListIsSimpleCorrect`: `ListIsSimple` always holds, by the test of `Start` and the form of `Without`.
  - `ExitsAllMarkedCorrect`: `ExitsAllMarked` always holds. However exits nest, and whatever the threads they call
    start and exit, `exit_process` leaves no condemned process on the list.
  - `SettledCorrect`: `Settled` always holds. At rest the bits of every listed process are those of one that runs.
  - `WalksReachAllCorrect`: `WalksReachAll` always holds. No broadcast, notification or round of polls ends while a
    process that it is for is still on the list and has not been reached.
  - `PollIsPendingCorrect`: `PollIsPending` always holds.

The invariant of the first two is `IInv == TypeOK /\ StackShape /\ CurrentIsThread`. `CurrentIsThread` alone is
not inductive: when a call returns, `current` is what a frame has kept, and
nothing in the current state says that it is the thread below. `StackShape`
says it of every frame: a `sync` or `exit` frame above a thread keeps that thread as
its `caller` or `old`; an `exit` frame above a call of `call_process` keeps the process called; a
`thread` frame never lies under a frame that no call creates. Each action
pushes, pops or rewrites the last frame only, so the proof has one lemma per change of
the stack and one step per action.

For the exits the invariant (`ExitInv`) accounts for every bit by a frame: a condemned process on the list is ahead of
the innermost scan of `exit_process` or has another round coming (`InScan`); `another` is set only during
an exit, and nothing is condemned outside of one (`Rounds`); a listed process that does not run is one that an `exit` frame has stopped and
not yet unlinked (`RunningOK`); and a `called` bit on the list belongs to a call on the stack or to a condemned process (`CalledOK`). Without the
last two neither is the first inductive, since a scan decides by these bits. At rest there are no frames, hence `Settled`.

For the walks the list alone does not say what a cursor will come to: the block it is at may be unlinked, linked again at the
head, or both, while a thread runs. `Reaches(c, p)` says it without recursion: `p` is in every set of blocks that
contains `c` and is closed under following the list, or the `->next` left in an unlinked block. `Start` and `ExitUnlink` preserve
it for every listed `p` other than the block unlinked (`StartKeepsReach`, `UnlinkKeepsReach`), and a walk that goes
on from `c` reaches all that it did but `c` itself (`WalkGoesOn`). The invariant (`WalkInv`) is that whatever is in `due` is owed by its
frame in this sense (`DueOK`), and that broadcasts and rounds of polls have no thread below them (`BottomUp`), so
that while `do_event` or `do_poll` executes every listed process runs and is in no call (`BottomIsQuiet`): the
process the walk is at is called, not skipped.

`XcontikiProofs`, for any processes, any queue and any number of calls by the tasks:

  - `SystemOKCorrect`: `SystemOK` always holds.
  - `KernelIsDriven`: `System` implements the `Spec` of `ProcessKernel`. Each statement of `xcontiki__main`, each call of a
    task and each interrupt is a step that the kernel leaves to its surroundings, or none of the kernel's. This is the safety
    half of `DrivesKernel`; that the loop is also fair to the kernel is left to TLC.
  - `SystemKeepsProcesses`, `SystemKeepsPromises`: all seven invariants of the kernel hold in the whole program.

`DataProofs`. The event queue, for every capacity and width with `2 * NumEvents - 2 < Wrap` (which is what the
8-bit counters require: at most 128 events):

  - `TypeCorrect`: the counters keep their ranges, hence no cast loses anything.
  - `QueueIsFifo`: `EventQueue` implements `BoundedFifo`. Each step of the ring is a step of the queue; the
    work is in the modular arithmetic that shows a post to reach the slot after the last pending
    one, and a take to shift the sequence.

Ring buffers, for every size and both rings:

  - `PeekCorrect`: what a user was told holds until it moves the ring on.
  - `RingCorrect`: either ring implements `BoundedFifo`. The invariant adds what the slots hold that a user is
    working on and the slots between the pointers; the work is in the remainders again.

Circular lists, for any finite set of elements: `CycleCorrect`, that `IsCycle` always holds. `IsCycle` speaks of following the
pointers some number of times, of which no step preserves anything directly: an addition
or a removal shifts the numbers. The invariant (`Cycle`) says the same without numbers: the pointers lead from the list's elements to
the list's elements, no two to the same one, and no part of the list other than all of it is closed under them. That the second
implies the first is induction over the length of a path. It is done with sets: a set of
numbers that has 0 and with each number the next is `Nat` (`NatSet`), hence the recursive function of the
path exists (`OnePath`, `Loop`) and obeys its equation (`ArrivalIs`).

`TimerProofs`, for any number of timers, any width of the clock, any calls and any
`MaxAge`:

  - `TypeCorrect`: starts, intervals and differences stay clock readings.
  - `NeverEarlyCorrect`: no timer expires before its interval has passed.
  - `ExactCorrect`: a timer that is looked at once in a wrap answers the time that is left.
  - `SleepyheadCorrect`: the sleepyhead thread passes over no timer that has yet to expire.
  - `ExclusiveCorrect`: for any number of objects as well, an object that was not removed has a timer for itself, as
    long as no removed one is used again.

None of the first four is inductive, since the code keeps differences of readings only. The
invariant `IInv` says of each tracked timer what these are worth in real time (`Known`): one
that has been seen to expire is at least as old as its interval; otherwise its age is the
difference from its start plus some number of whole wraps (`OnTrack`); and
while it has been looked at within each wrap, `previous_diff` is its age at the last look.
From the last two it follows that the code's test, a difference at least the interval or
smaller than the one before, is true only when the age has reached the interval, and then
always. There is one lemma per way in which a timer changes (set, looked at, reset,
forgotten, aged by a tick), and one step per action.

`EtimerProofs`, for any number of event timers, timers, processes and events, any width of
the clock and any calls:

  - `TypeCorrect`: `HistoryOK` always holds. That a queue that is full gets no event, and that
    a call never uses a timer that does not exist, is part of it.
  - `OrphansCorrect`: `NoOrphans` always holds, provided that no process sets, resets or restarts an
    event timer once it has exited (`NoLastArming`). Without the proviso it is
    false. The invariant adds that an event timer that runs is allocated, since the loop
    that answers an exit looks for allocated ones.
  - `NothingLostCorrect`: `NothingLost`, an action property.
  - `NotEarlyCorrect`: `NotEarly` holds, and `ExpirationCorrect`: `ExpirationIsKnown` always does, if there is a timer for
    every event timer (`EnoughTimers`) and the calls are `set`, `reset`, `restart`, `stop` and those of the kernel
    that neither remove event timers nor change an interval (`PlainCalls`). No
    bound on the clock is needed: it may wrap any number of times between two polls, and resets may come at any time.
  - `OnTimeCorrect`: `OnTime` holds if in addition every event timer is looked at once in a wrap (`Prompt`) and followed
    for at most a wrap after it expired (`MaxLate <= Wrap`).

The hypotheses exclude what is false of the code, as section 4 shows: after a `remove`, or the exit that does the same, two event
timers can share a timer; without a free timer an event timer is given timer 0 and fires at once; `adjust`
forward expires at once, and `reset_with_new_interval` moves the start by the new interval.

The invariant (`TimeInv`) is like that of the timers, but the age of an event timer is not counted from a set: a `reset`
leaves a start in the past. The age is therefore defined as the interval less the time that
is left, which may be more than what the clock shows by any number of wraps (`OnTrack`). An event timer that was seen to expire has no time
left; of one that was not, `previous_diff` is at most its age, so that a difference smaller than the one before means that a
wrap has been completed and the age has reached the interval. While all are looked at in time, the age has
grown by less than a wrap since the last look, and the code's test is exact. `InOrder` says that both tables
are filled in the same order, hence that no two event timers share a timer.

`ProcessThreadsProofs`, for any processes in any files, any lines and macros and any depth of calls:

  - `ThreadsTypeCorrect`: continuations are 0 or lines that block.
  - `ContinuationsCorrect`: `ProcessThreads` implements `PrivateThreads`. The invariant is that of the calls whose
    continuation is in use and their own no file has two, and that such a call is the topmost of its file (`Topmost`). So
    what `process_pt` of the file holds when a call goes on is what that call left there.
  - `ChildHasBlockedCorrect`: `ChildHasBlocked` always holds. The invariant (`ChildInv`) adds that a call which is in a condition
    still finds in `process_pt` the line of that condition (`ConditionsAreOwn`). Without it a call could return as blocked
    at a SPAWN that it never came to, with a child that has ended.

`InterruptProofs`. Polls, for any number of processes: `PollCorrect`, that `PollIsNotForgotten` always holds. It is not inductive for two reasons.
A store brings back the word that was loaded, so the invariant says what that word may lack (`LoadedOK`): nothing, except a poll that came since
and is in `undone`, or the bit of a poll that `do_poll` is about to serve itself. And `do_poll` clears the bit before `call_process` tests
`running` and `called`: the poll would be lost if that test failed. It does not, because `do_poll` finds no process in a call (`CalledOK`: on the list
`called` is set only by a call or a notification that goes on, or on a process that is condemned), and has set `running` itself
(`RunningOK`). `PlacesOK` has the types, and which events and processes go with which statements. Busy waits, for any
wait, any width of the clock, any frequency up to one tick in a microsecond (`ClockOK`) and interrupts of
any length: `WaitIsExactCorrect`, that `WaitIsExact` always holds. The invariant (`WaitInv`) is that until a whole wrap hides between two
readings the last difference is the real time of the last reading, was less than the interval, and is less than a wrap ago.

`SchedulerProofs`, for any tasks, intervals and width of the clock, and any `MaxAge` of at least a wrap:

  - `TypeCorrect`: starts and differences stay clock readings.
  - `NotEarlyCorrect`: a task that has ended does not start again before its interval has passed.
  - `OnTimeCorrect`: it is not passed over at a look once its interval has passed, if it is looked at once in a wrap.

The invariant says what the arrays are worth in real time (`Known`): as long as no whole wrap has gone by since the last
look, the difference that was stored and the time since then add up to the present difference, or to one wrap more, and that sum is the age.

The assumptions are those of the modules (`NullAssumption`, `CapacityAssumption`, ...); TLC
evaluates them in each run. Hypotheses of theorems are `SizeOK` of the rings, `ListOK` (the elements of lists are finitely many and
NULL is none), `ClockOK`, and those named above for the event timers. The
runs' instances satisfy them.

Every invariant and every safety property that the runs find to hold is stated by a theorem. Only model-checked are the properties
that need fairness: `AlwaysRestsAgain`, `PollIsServed`, `EventsAreTaken`, `EtimersAreLookedAt`, `EachRuns`,
`EachFires` and the fairness in `DrivesKernel`. Fairness rests on ENABLED, which the prover does not know. Of event timers with
removals and exits the theorems say nothing about time, and neither do the runs, except for the violation in `etimer_shared`.

## 6. What is not modelled, and why

The data of events, the names of processes and the debug output change nothing the
kernel decides. Builds with assertions switched off are modelled, so that what
follows a failed assertion is in the model. `CONF_STATS` is off by default. `CONTEXT_BEGIN` and `CONTEXT_END` name identifiers that do not
exist and cannot be compiled. In `ProcessKernel` a poll comes between steps, not within the
read-modify-write of a bit-field, which is in `PollInterrupt`, where in turn threads make no calls: a poll in the middle of a
write of a nested call is in neither.

`alloc_event` is an increment of a number that nothing else reads. The watchdog is empty on Linux, `assert.c` prints
and stops, `Sleepyhead.c` is empty, `get_seconds` is the C library's clock, `set_next_wake_up` is empty, and neither
it nor `wake_up` is called by anybody. The configuration and umbrella headers are includes and constants. The tests, the project
files and the vendored test tool are no part of the system.

Tasks that set event timers while `current_process_ptr` is stale are not in `Etimer`: the
owner is then a matter of which process was called last, and nothing is promised of it.
