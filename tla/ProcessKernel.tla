---------------------------- MODULE ProcessKernel ----------------------------
(***************************************************************************)
(* The process kernel of xcontiki: xcontiki_os_sys_Process.c and           *)
(* xcontiki_os_sys_Process_priv.h.                                         *)
(*                                                                         *)
(* The kernel is single-threaded but re-entrant: a process thread runs to  *)
(* completion, yet while it runs it may call the kernel, and the kernel    *)
(* may call other threads (or the same one) before that call returns.      *)
(* Every C activation that is suspended in such a nested call is a frame   *)
(* of `stack`; the last frame is the code that executes.  An empty stack   *)
(* is the main loop, or a task of the protothreads scheduler, outside      *)
(* xcontiki_os_sys_Process__process_next_event.                            *)
(*                                                                         *)
(* The body of a thread is application code: it makes any sequence of the  *)
(* kernel calls in AppCalls and then returns.                              *)
(***************************************************************************)
EXTENDS Naturals, Sequences

CONSTANTS
    Process,    \* the process control blocks of the application
    NULL,       \* the null pointer
    NumEvents,  \* XCONTIKI_OS_SYS_PROCESS__CONF_NUMEVENTS
    Posted,     \* the events the application posts
    AppCalls,   \* the kernel calls the application makes
    MaxCalls    \* bound: kernel calls made by threads between two rests

ASSUME NullAssumption     == NULL \notin Process
ASSUME CapacityAssumption == NumEvents \in Nat \ {0}
ASSUME PostedAssumption   == Posted \subseteq {"INIT", "EXIT", "MSG"}
ASSUME MaxCallsAssumption == MaxCalls \in Nat

VARIABLES
    list,           \* list_of_processes, followed through ->next
    stale,          \* the ->next left in a block that is not in the list
    running, called, needspoll, marked,   \* the bit fields of a block
    poll_requested,
    current,        \* current_process_ptr
    another,        \* is_another_marked_to_exit, static in exit_process
    queue,          \* the pending events, oldest first (module EventQueue)
    pt,             \* process_thread_<name>_pt: where the thread resumes
    stack,          \* suspended activations, the executing one last
    calls,          \* kernel calls made by threads since the last rest
    due             \* history: <<d, p>> if the walk of the list made by frame d
                    \* must still reach p; <<0, p>> if p's poll is pending

flags == <<running, called, needspoll, marked>>
vars == <<list, stale, flags, poll_requested, current, another, queue, pt,
          stack, calls, due>>

BROADCAST == NULL       \* XCONTIKI_OS_SYS_PROCESS__BROADCAST is NULL too
Ptr       == Process \cup {NULL}
Event     == {"INIT", "POLL", "EXIT", "EXITED", "MSG"}

\* What a thread returns: YIELDED or WAITING, and EXITED or ENDED, are told
\* apart by no test in the kernel; YIELDED and ENDED stand for the two pairs.
Result == {"YIELDED", "ENDED"}

\* Frames.  A "sync" frame is post_synchronous_event, keeping its caller's
\* process; a "thread" frame is p's thread, handling ev.
SyncFrame   == [fn : {"sync"}, caller : Ptr]
ThreadFrame == [fn : {"thread"}, p : Process, ev : Event]

\* exit_process, with its cursors: p scans the list and q is the process that
\* is told that p exits.  p is dereferenced past the scan.
ExitFrame   == [fn : {"exit"}, at : {"scan"},
                p : Ptr, q : Ptr, from : Ptr, old : Ptr]
       \cup    [fn : {"exit"}, at : {"notify", "unlink"},
                p : Process, q : Ptr, from : Ptr, old : Ptr]

\* process_next_event with do_event, whose cursor p walks a broadcast, and
\* do_poll.
EventFrame  == [fn : {"event"}, at : {"take", "each"}, p : Ptr, ev : Event]
       \cup    [fn : {"event"}, at : {"deliver", "advance"},
                p : Process, ev : Event]
PollFrame   == [fn : {"poll"}, at : {"look"}, p : Ptr]
       \cup    [fn : {"poll"}, at : {"advance"}, p : Process]

Frame == SyncFrame \cup ThreadFrame \cup ExitFrame \cup EventFrame \cup PollFrame

\* Types: the queue fits its arrays, and no cursor is dereferenced when null.
TypeOK ==
    /\ list \in Seq(Process)
    /\ stale \in [Process -> Ptr]
    /\ running \in [Process -> BOOLEAN]
    /\ called \in [Process -> BOOLEAN]
    /\ needspoll \in [Process -> BOOLEAN]
    /\ marked \in [Process -> BOOLEAN]
    /\ poll_requested \in BOOLEAN
    /\ current \in Ptr
    /\ another \in BOOLEAN
    /\ queue \in Seq([to : Ptr, ev : Posted]) /\ Len(queue) <= NumEvents
    /\ pt \in [Process -> {"BEGIN", "BLOCKED"}]
    /\ stack \in Seq(Frame)
    /\ calls \in Nat
    /\ due \in SUBSET (Nat \X Process)
-----------------------------------------------------------------------------
(***************************************************************************)
(* The process list and the stack.                                         *)
(***************************************************************************)
Listed      == {list[i] : i \in 1..Len(list)}
First       == IF list = <<>> THEN NULL ELSE list[1]
Position(p) == CHOOSE i \in 1..Len(list) : list[i] = p

\* Fault: exit_process clears the ->next of the block it unlinks.
NextCleared(p) ==
    IF p \notin Listed \/ Position(p) = Len(list) THEN NULL
    ELSE list[Position(p) + 1]

\* p->next: the successor in the list, or what is left in an unlinked block.
Next_(p) ==
    IF p \notin Listed THEN stale[p]
    ELSE IF Position(p) = Len(list) THEN NULL ELSE list[Position(p) + 1]

IsRunning(p) == running[p] \/ called[p]

Top       == stack[Len(stack)]
Below     == stack[Len(stack) - 1]
Popped    == SubSeq(stack, 1, Len(stack) - 1)
With(f)   == [stack EXCEPT ![Len(stack)] = f]
Active(fn) == stack # <<>> /\ Top.fn = fn
AtRest    == stack = <<>>

\* The frame d starts a walk that must reach the processes S.
Walk(d, S) == {<<d, p>> : p \in S}

\* The bound on nested calls starts anew whenever the kernel comes to rest.
Rewind == calls' = IF stack' = <<>> THEN 0 ELSE calls

\* call_process: the thread runs if the process runs and is not in a call.
\* s is the caller's stack, run the process' running bit as it stands there.
CallProcess(s, run, p, ev) ==
    IF run /\ ~called[p]
    THEN /\ current' = p
         /\ called'  = [called EXCEPT ![p] = TRUE]
         /\ stack'   = Append(s, [fn |-> "thread", p |-> p, ev |-> ev])
         /\ due'     = due \ {<<IF ev = "POLL" THEN 0 ELSE Len(s), p>>,
                               <<Len(s), p>>}
    ELSE /\ stack' = s
         /\ UNCHANGED <<current, called, due>>

\* exit_process up to its first scan of the list.
EnterExit(s, p, from) ==
    /\ marked' = [marked EXCEPT ![p] = TRUE]
    /\ another' = FALSE
    /\ stack' = Append(s, [fn |-> "exit", at |-> "scan", p |-> First,
                           q |-> NULL, from |-> from, old |-> current])
-----------------------------------------------------------------------------
(***************************************************************************)
(* Kernel calls, made by a thread or, when the kernel is at rest, by a     *)
(* task of the scheduler.                                                  *)
(***************************************************************************)
MayCall(op) ==
    /\ op \in AppCalls
    /\ AtRest \/ (Active("thread") /\ calls < MaxCalls)

Count == calls' = IF AtRest THEN 0 ELSE calls + 1

\* Fault: start looks at the bits of the process, not at the list.
StartedBits(p) == IsRunning(p)

\* start bails out for a process it finds on the list.
Started(p) == p \in Listed

\* xcontiki_os_sys_Process__start: a listed process is left alone; otherwise
\* it becomes the head of the list and gets a synchronous INIT event.
Start(p) ==
    /\ MayCall("start")
    /\ ~Started(p)
    /\ list' = <<p>> \o list
    /\ running' = [running EXCEPT ![p] = TRUE]
    /\ marked' = [marked EXCEPT ![p] = FALSE]
    /\ called' = [called EXCEPT ![p] = TRUE]
    /\ current' = p
    /\ stack' = stack \o << [fn |-> "sync", caller |-> current],
                            [fn |-> "thread", p |-> p, ev |-> "INIT"] >>
    /\ Count
    /\ UNCHANGED <<stale, needspoll, poll_requested, another, queue, pt, due>>

\* xcontiki_os_sys_Process__exit, on a process that is in the list.
Exit(p) ==
    /\ MayCall("exit")
    /\ p \in Listed
    /\ EnterExit(stack, p, current)
    /\ Count
    /\ UNCHANGED <<list, stale, running, called, needspoll, poll_requested,
                   current, queue, pt, due>>

\* Fault: the test for a full queue comes one event too late.
QueueOverfull == Len(queue) > NumEvents

QueueFull == Len(queue) = NumEvents

\* xcontiki_os_sys_Process__post_event_via_queue, when it returns ERR_OK.
Post(r, ev) ==
    /\ MayCall("post")
    /\ ~QueueFull
    /\ queue' = Append(queue, [to |-> r, ev |-> ev])
    /\ Count
    /\ UNCHANGED <<list, stale, flags, poll_requested, current, another, pt,
                   stack, due>>

\* xcontiki_os_sys_Process__post_synchronous_event, on a process it calls.
PostSync(p, ev) ==
    /\ MayCall("sync")
    /\ running[p] /\ ~called[p]
    /\ CallProcess(Append(stack, [fn |-> "sync", caller |-> current]),
                   TRUE, p, ev)
    /\ Count
    /\ UNCHANGED <<list, stale, running, needspoll, marked, poll_requested,
                   another, queue, pt>>

\* xcontiki_os_sys_Process__poll: at any time, since it is also called from
\* interrupt handlers.
Poll(p) ==
    /\ "poll" \in AppCalls
    /\ IsRunning(p)
    /\ needspoll' = [needspoll EXCEPT ![p] = TRUE]
    /\ poll_requested' = TRUE
    /\ due' = due \cup Walk(0, {p} \cap Listed)
    /\ UNCHANGED <<list, stale, running, called, marked, current, another,
                   queue, pt, stack, calls>>

\* xcontiki_os_sys_Process__initialize_the_process_module, also when the system
\* has run before.  The bits and the ->next of a block stay as they are, and so
\* does poll_requested.
Initialize ==
    /\ "initialize" \in AppCalls
    /\ AtRest
    /\ queue' = <<>>
    /\ current' = NULL
    /\ list' = <<>>
    /\ stale' = [p \in Process |-> Next_(p)]
    /\ due' = {}
    /\ UNCHANGED <<flags, poll_requested, another, pt, stack, calls>>
-----------------------------------------------------------------------------
(***************************************************************************)
(* What follows a thread's return.                                         *)
(***************************************************************************)
\* The protothread keeps where to resume: after BEGIN when it has ended.
Saved(ret) == pt' = [pt EXCEPT ![Top.p] = IF ret = "ENDED" THEN "BEGIN"
                                                           ELSE "BLOCKED"]

\* The rest of call_process.  exit_process(p, p) leaves an unlisted process
\* alone, its called bit still set.
ReturnToCall(ret) ==
    /\ Active("thread")
    /\ Len(stack) = 1 \/ Below.fn # "exit"
    /\ Saved(ret)
    /\ IF ret = "ENDED" \/ Top.ev = "EXIT"
       THEN /\ IF Top.p \in Listed
               THEN EnterExit(Popped, Top.p, Top.p)
               ELSE stack' = Popped /\ UNCHANGED <<marked, another>>
            /\ UNCHANGED called
       ELSE /\ called' = [called EXCEPT ![Top.p] = FALSE]
            /\ stack' = Popped
            /\ UNCHANGED <<marked, another>>
    /\ Rewind
    /\ UNCHANGED <<list, stale, running, needspoll, poll_requested, current,
                   queue, due>>

\* Fault: the round that a thread ending on EXITED calls for is not asked.
AnswerNoRound(q, ret) ==
    IF ret = "ENDED"
    THEN marked' = [marked EXCEPT ![q] = TRUE] /\ UNCHANGED <<called, another>>
    ELSE called' = [called EXCEPT ![q] = FALSE] /\ UNCHANGED <<marked, another>>

\* Fault: the call of a thread that has handled EXITED is not closed.
AnswerStaysCalled(q, ret) ==
    /\ marked' = [marked EXCEPT ![q] = (ret = "ENDED") \/ marked[q]]
    /\ another' = (ret = "ENDED" \/ another)
    /\ UNCHANGED called

\* What exit_process does with the answer of q to EXITED: a thread that ends
\* is marked, to exit in a later round.
AnswerExited(q, ret) ==
    IF ret = "ENDED"
    THEN /\ marked' = [marked EXCEPT ![q] = TRUE]
         /\ another' = TRUE
         /\ UNCHANGED called
    ELSE /\ called' = [called EXCEPT ![q] = FALSE]
         /\ UNCHANGED <<marked, another>>

\* The thread was called by exit_process, with EXITED or with EXIT.
ReturnToExit(ret) ==
    /\ Active("thread")
    /\ Len(stack) > 1 /\ Below.fn = "exit"
    /\ Saved(ret)
    /\ IF Below.at = "notify"
       THEN /\ stack' = [Popped EXCEPT ![Len(Popped)].q = Next_(Below.q)]
            /\ AnswerExited(Below.q, ret)
       ELSE /\ stack' = Popped
            /\ UNCHANGED <<called, marked, another>>
    /\ UNCHANGED <<list, stale, running, needspoll, poll_requested, current,
                   queue, calls, due>>

\* Fault: post_synchronous_event leaves the process it called as current.
SyncForgetsCaller ==
    /\ Active("sync")
    /\ stack' = Popped
    /\ Rewind
    /\ UNCHANGED <<list, stale, flags, poll_requested, current, another, queue,
                   pt, due>>

\* post_synchronous_event restores its caller after call_process.
SyncReturn ==
    /\ Active("sync")
    /\ current' = Top.caller
    /\ stack' = Popped
    /\ Rewind
    /\ UNCHANGED <<list, stale, flags, poll_requested, another, queue, pt, due>>
-----------------------------------------------------------------------------
(***************************************************************************)
(* exit_process, on top of the stack.                                      *)
(***************************************************************************)
ExitAt(at) == Active("exit") /\ Top.at = at

\* A marked process that runs stops, and the others are to be notified.
ExitStop ==
    /\ ExitAt("scan")
    /\ Top.p # NULL /\ marked[Top.p] /\ IsRunning(Top.p)
    /\ running' = [running EXCEPT ![Top.p] = FALSE]
    /\ called'  = [called EXCEPT ![Top.p] = FALSE]
    /\ stack' = With([Top EXCEPT !.at = "notify", !.q = First])
    /\ due' = due \cup Walk(Len(stack), {q \in Listed : running'[q]})
    /\ UNCHANGED <<list, stale, needspoll, marked, poll_requested, current,
                   another, queue, pt, calls>>

\* Any other process on the list: a marked one that does not run is only
\* unlinked, an unmarked one is passed over.
ExitSkip ==
    /\ ExitAt("scan")
    /\ Top.p # NULL /\ ~(marked[Top.p] /\ IsRunning(Top.p))
    /\ stack' = With(IF marked[Top.p] THEN [Top EXCEPT !.at = "unlink"]
                                      ELSE [Top EXCEPT !.p = Next_(Top.p)])
    /\ UNCHANGED <<list, stale, flags, poll_requested, current, another,
                   queue, pt, calls, due>>

\* EXITED goes to every other process whose running bit is set, called or not.
ExitNotify ==
    /\ ExitAt("notify")
    /\ Top.q # NULL
    /\ IF Top.q # Top.p /\ running[Top.q]
       THEN /\ current' = Top.q
            /\ called' = [called EXCEPT ![Top.q] = TRUE]
            /\ stack' = Append(stack,
                           [fn |-> "thread", p |-> Top.q, ev |-> "EXITED"])
            /\ due' = due \ {<<Len(stack), Top.q>>}
       ELSE /\ stack' = With([Top EXCEPT !.q = Next_(Top.q)])
            /\ UNCHANGED <<current, called, due>>
    /\ UNCHANGED <<list, stale, running, needspoll, marked, poll_requested,
                   another, queue, pt, calls>>

\* All are notified: EXIT goes to the process itself, unless it asked to exit
\* or no process did, and for the first process of this exit_process only.
ExitNotified ==
    /\ ExitAt("notify")
    /\ Top.q = NULL
    /\ LET after == With([Top EXCEPT !.at = "unlink", !.from = NULL])
       IN  IF Top.from # NULL /\ Top.from # Top.p
           THEN /\ current' = Top.p
                /\ stack' = Append(after,
                               [fn |-> "thread", p |-> Top.p, ev |-> "EXIT"])
           ELSE /\ stack' = after
                /\ UNCHANGED current
    /\ UNCHANGED <<list, stale, flags, poll_requested, another, queue, pt,
                   calls, due>>

Without(p) == [i \in 1..(Len(list) - 1) |->
                 IF i < Position(p) THEN list[i] ELSE list[i + 1]]

\* The process leaves the list, if a nested exit_process has not removed it,
\* and the scan goes on from the pointer it keeps.
ExitUnlink ==
    /\ ExitAt("unlink")
    /\ IF Top.p \in Listed
       THEN /\ list' = Without(Top.p)
            /\ stale' = [stale EXCEPT ![Top.p] = Next_(Top.p)]
       ELSE UNCHANGED <<list, stale>>
    /\ marked' = [marked EXCEPT ![Top.p] = FALSE]
    /\ due' = {d \in due : d[2] # Top.p}
    /\ stack' = With([Top EXCEPT !.at = "scan", !.p = Next_(Top.p)])
    /\ UNCHANGED <<running, called, needspoll, poll_requested, current,
                   another, queue, pt, calls>>

\* Fault: the flag that asks for another round is not reset.
ExitRoundKeepsFlag ==
    /\ ExitAt("scan")
    /\ Top.p = NULL
    /\ another
    /\ stack' = With([Top EXCEPT !.p = First])
    /\ UNCHANGED <<list, stale, flags, poll_requested, current, another, queue,
                   pt, calls, due>>

\* The end of a scan: another round if a thread ended on EXITED.
ExitRound ==
    /\ ExitAt("scan")
    /\ Top.p = NULL
    /\ another
    /\ another' = FALSE
    /\ stack' = With([Top EXCEPT !.p = First])
    /\ UNCHANGED <<list, stale, flags, poll_requested, current, queue, pt,
                   calls, due>>

ExitReturn ==
    /\ ExitAt("scan")
    /\ Top.p = NULL
    /\ ~another
    /\ current' = Top.old
    /\ stack' = Popped
    /\ Rewind
    /\ UNCHANGED <<list, stale, flags, poll_requested, another, queue, pt, due>>
-----------------------------------------------------------------------------
(***************************************************************************)
(* process_next_event: do_poll if requested, then do_event.                *)
(***************************************************************************)
\* do_poll is called with the stack s.
EnterPoll(s) ==
    /\ poll_requested' = FALSE
    /\ stack' = Append(s, [fn |-> "poll", at |-> "look", p |-> First])
    /\ due' = due \cup Walk(Len(s) + 1, {p \in Listed : needspoll[p]})

\* Fault: only the events in the queue are counted as waiting.
WaitingEvents == queue # <<>>

\* number_of_events_waiting() > 0
Waiting == queue # <<>> \/ poll_requested

\* Fault: process_next_event takes no event when it has polled.
NextEventOrPoll ==
    /\ AtRest
    /\ Waiting
    /\ IF poll_requested
       THEN EnterPoll(<<>>)
       ELSE /\ stack' = << [fn |-> "event", at |-> "take", p |-> NULL,
                            ev |-> "MSG"] >>
            /\ UNCHANGED <<poll_requested, due>>
    /\ UNCHANGED <<list, stale, flags, current, another, queue, pt, calls>>

\* The main loop calls process_next_event if anything waits.
NextEvent ==
    /\ AtRest
    /\ Waiting
    /\ LET event == [fn |-> "event", at |-> "take", p |-> NULL, ev |-> "MSG"]
       IN  IF poll_requested
           THEN EnterPoll(<<event>>)
           ELSE stack' = <<event>> /\ UNCHANGED <<poll_requested, due>>
    /\ UNCHANGED <<list, stale, flags, current, another, queue, pt, calls>>

EventAt(at) == Active("event") /\ Top.at = at

\* The oldest event leaves the queue.  A broadcast walks the list; any other
\* goes to its receiver, which an INIT event makes running.
TakeBroadcast ==
    /\ EventAt("take")
    /\ queue # <<>> /\ Head(queue).to = BROADCAST
    /\ queue' = Tail(queue)
    /\ stack' = With([Top EXCEPT !.at = "each", !.p = First,
                                 !.ev = Head(queue).ev])
    /\ due' = due \cup Walk(Len(stack), Listed)
    /\ UNCHANGED <<list, stale, flags, poll_requested, current, another, pt,
                   calls>>

TakeDirect ==
    /\ EventAt("take")
    /\ queue # <<>> /\ Head(queue).to # BROADCAST
    /\ queue' = Tail(queue)
    /\ LET p  == Head(queue).to
           ev == Head(queue).ev
       IN  /\ running' = [running EXCEPT ![p] = (ev = "INIT") \/ running[p]]
           /\ CallProcess(With([Top EXCEPT !.at = "each", !.ev = ev]),
                          running'[p], p, ev)
    /\ UNCHANGED <<list, stale, needspoll, marked, poll_requested, another,
                   pt, calls>>

EventReturn ==
    /\ \/ EventAt("take") /\ queue = <<>>
       \/ EventAt("each") /\ Top.p = NULL
    /\ stack' = Popped
    /\ Rewind
    /\ UNCHANGED <<list, stale, flags, poll_requested, current, another,
                   queue, pt, due>>

\* One turn of the broadcast loop: polls first, then the process.
BroadcastPoll ==
    /\ EventAt("each") /\ Top.p # NULL
    /\ poll_requested
    /\ EnterPoll(With([Top EXCEPT !.at = "deliver"]))
    /\ UNCHANGED <<list, stale, flags, current, another, queue, pt, calls>>

BroadcastDeliver ==
    /\ \/ EventAt("each") /\ Top.p # NULL /\ ~poll_requested
       \/ EventAt("deliver")
    /\ CallProcess(With([Top EXCEPT !.at = "advance"]), running[Top.p],
                   Top.p, Top.ev)
    /\ UNCHANGED <<list, stale, running, needspoll, marked, poll_requested,
                   another, queue, pt, calls>>

BroadcastAdvance ==
    /\ EventAt("advance")
    /\ stack' = With([Top EXCEPT !.at = "each", !.p = Next_(Top.p)])
    /\ UNCHANGED <<list, stale, flags, poll_requested, current, another,
                   queue, pt, calls, due>>

\* do_poll: a process that needs it is made running and gets POLL.
PollAt(at) == Active("poll") /\ Top.at = at

PollDeliver ==
    /\ PollAt("look")
    /\ Top.p # NULL /\ needspoll[Top.p]
    /\ running' = [running EXCEPT ![Top.p] = TRUE]
    /\ needspoll' = [needspoll EXCEPT ![Top.p] = FALSE]
    /\ CallProcess(With([Top EXCEPT !.at = "advance"]), TRUE, Top.p, "POLL")
    /\ UNCHANGED <<list, stale, marked, poll_requested, another, queue, pt,
                   calls>>

PollAdvance ==
    /\ \/ PollAt("advance")
       \/ PollAt("look") /\ Top.p # NULL /\ ~needspoll[Top.p]
    /\ stack' = With([Top EXCEPT !.at = "look", !.p = Next_(Top.p)])
    /\ UNCHANGED <<list, stale, flags, poll_requested, current, another,
                   queue, pt, calls, due>>

\* Fault: do_poll clears the request when it ends, not when it begins.
PollReturnClears ==
    /\ PollAt("look") /\ Top.p = NULL
    /\ poll_requested' = FALSE
    /\ stack' = Popped
    /\ UNCHANGED <<list, stale, flags, current, another, queue, pt, calls, due>>

PollReturn ==
    /\ PollAt("look") /\ Top.p = NULL
    /\ stack' = Popped
    /\ UNCHANGED <<list, stale, flags, poll_requested, current, another,
                   queue, pt, calls, due>>
-----------------------------------------------------------------------------
Init ==
    /\ list = <<>>
    /\ stale = [p \in Process |-> NULL]
    /\ running = [p \in Process |-> FALSE]
    /\ called = running /\ needspoll = running /\ marked = running
    /\ poll_requested = FALSE
    /\ current = NULL
    /\ another = FALSE
    /\ queue = <<>>
    /\ pt = [p \in Process |-> "BEGIN"]
    /\ stack = <<>>
    /\ calls = 0
    /\ due = {}

AppCall ==
    \/ \E p \in Process : Start(p) \/ Exit(p) \/ Poll(p)
    \/ \E r \in Ptr, ev \in Posted : Post(r, ev)
    \/ \E p \in Process, ev \in Posted : PostSync(p, ev)

Return == \E ret \in Result : ReturnToCall(ret) \/ ReturnToExit(ret)

KernelStep ==
    \/ SyncReturn
    \/ ExitStop \/ ExitSkip \/ ExitNotify \/ ExitNotified
    \/ ExitUnlink \/ ExitRound \/ ExitReturn
    \/ TakeBroadcast \/ TakeDirect \/ EventReturn
    \/ BroadcastPoll \/ BroadcastDeliver \/ BroadcastAdvance
    \/ PollDeliver \/ PollAdvance \/ PollReturn

Next == AppCall \/ Return \/ KernelStep \/ NextEvent \/ Initialize

Spec == Init /\ [][Next]_vars

\* The C code runs on, and a thread returns once its bounded calls are made.
\* xcontiki__main calls process_next_event in each of its passes, and a pass
\* lets the tasks make finitely many calls: if something waits at the end of
\* infinitely many of them it is called again and again.
Fairness == WF_vars(KernelStep) /\ WF_vars(Return) /\ SF_vars(NextEvent)
FairSpec == Spec /\ Fairness
-----------------------------------------------------------------------------
(***************************************************************************)
(* What the kernel keeps.                                                  *)
(***************************************************************************)
\* Whatever calls a thread has made, directly or through the threads those
\* calls ran, get_current_process names that thread when it executes: each
\* nested call puts current_process_ptr back before it returns.
CurrentIsThread == Active("thread") => current = Top.p

\* The list of processes is linked without repetition: start never links a
\* block twice, which would lose the rest of the list or close a cycle.
ListIsSimple == \A i, j \in 1..Len(list) : list[i] = list[j] => i = j

\* Between two calls of process_next_event a process on the list can get the
\* next event: it runs, no call of it is under way and it is not condemned.
Settled == AtRest => \A p \in Listed : running[p] /\ ~called[p] /\ ~marked[p]

\* A broadcast reaches every process listed when it is taken, EXITED every
\* process running when an exit begins, and a round of polls every process
\* that needs it, whoever exits, starts or restarts during the walk; only a
\* process that leaves the list first is excused.
WalkEnds ==
    \/ ExitAt("notify") /\ Top.q = NULL
    \/ EventAt("each") /\ Top.p = NULL
    \/ PollAt("look") /\ Top.p = NULL
WalksReachAll == WalkEnds => \A d \in due : d[1] # Len(stack)

\* exit_process returns only when every process condemned in the meantime,
\* by a nested exit or by ending on EXITED, has left the list.
ExitsAllMarked ==
    (ExitAt("scan") /\ Top.p = NULL /\ ~another) => \A p \in Listed : ~marked[p]

\* A poll asked of a listed process is never forgotten: until POLL is delivered
\* or the process exits, poll_requested is set or a round of polls that will
\* still come to the process is under way.
PollIsPending ==
    \A p \in Process : <<0, p>> \in due =>
        /\ needspoll[p]
        /\ \/ poll_requested
           \/ \E d \in 1..Len(stack) : stack[d].fn = "poll" /\ <<d, p>> \in due

\* The kernel always comes back to the main loop: no exit, broadcast or round
\* of polls goes on forever while threads keep to a bounded number of calls.
AlwaysRestsAgain == []<>AtRest

\* A poll asked of a listed process is delivered, unless the process exits.
PollIsServed == \A p \in Process : <<0, p>> \in due ~> <<0, p>> \notin due

\* Events do not starve: even if polls are asked for all the time, a queue that
\* stays non-empty has its oldest event taken, again and again.
EventsAreTaken ==
    <>[](queue # <<>>) => []<><<TakeBroadcast \/ TakeDirect>>_vars
-----------------------------------------------------------------------------
(***************************************************************************)
(* What the documentation says and the code does not keep.                 *)
(***************************************************************************)
\* Process.h:267, THREAD: "A process always start with the
\* XCONTIKI_OS_SYS_PROCESS__BEGIN() macro".  start does not reset the
\* protothread: a process that was exited while it waited gets INIT there.
StartsAtBegin == (Active("thread") /\ Top.ev = "INIT") => pt[Top.p] = "BEGIN"

\* Process.c:67, start: "First make sure that we don't try to start a process
\* that is already running."  A process restarted while its exit is announced
\* is unlinked by that exit and runs on; start then starts it again.
StartsOnlyStopped == [][\A p \in Process : Start(p) => ~IsRunning(p)]_vars
=============================================================================
