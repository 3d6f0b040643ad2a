---------------------------- MODULE PollInterrupt ----------------------------
(***************************************************************************)
(* xcontiki_os_sys_Process__poll from an interrupt handler, which comes    *)
(* between any two instructions of the kernel.                             *)
(*                                                                         *)
(* running, called, needspoll and marked_to_exit of a process are          *)
(* bit-fields of one word.  To write one of them the kernel loads the word *)
(* and stores it: an interrupt in between has its own write undone.  The   *)
(* interrupt handler itself is not interrupted by the kernel.              *)
(*                                                                         *)
(* do_poll, do_event, call_process, exit_process and start write the bits, *)
(* and each of their writes is here.  start and exit are called by tasks   *)
(* of the scheduler, or a thread ends; threads make no other calls of the  *)
(* kernel.  What becomes of polls when calls nest is in ProcessKernel,     *)
(* where a poll is one step and so are the kernel's writes.                *)
(***************************************************************************)
EXTENDS Integers

CONSTANT NumProcesses

ASSUME NumProcessesAssumption == NumProcesses \in Nat \ {0}

VARIABLES
    listed,         \* the processes in list_of_processes
    bits,           \* the bits of a process that are set
    poll_requested,
    pc,             \* the kernel's next statement
    p,              \* the process whose bits it writes, or whose thread it calls
    ev,             \* the event, or "EXIT" when a task exits a process
    ahead,          \* what the loop of do_poll may still come to
    leaving, rest,  \* the process that exit_process exits, and those that are
                    \* still to be told
    loaded,         \* the word between load and store, a set of bits
    asked,          \* history: listed processes whose poll has been asked for
                    \* since they were called with POLL
    undone          \* history: those whose poll came between a load and a store

walks    == <<listed, ahead, leaving, rest>>
promises == <<asked, undone>>
pollVars == <<bits, poll_requested, pc, p, ev, loaded, walks, promises>>

Block == 1..NumProcesses
Bits  == {"running", "called", "needspoll", "marked_to_exit"}
EMPTY == {"empty"}      \* nothing is loaded

Runs(q) == bits[q] \cap {"running", "called"} # {}
-----------------------------------------------------------------------------
(***************************************************************************)
(* The statements that write a bit, in do_poll ("poll run", "poll clear"), *)
(* do_event ("init"), call_process ("call", "return"), exit_process        *)
(* ("condemn", "stop", "uncall", "tell", "told", "sentence", "unmark") and *)
(* start ("start run", "start uncall", "start unmark").                    *)
(***************************************************************************)
SetsRunning   == {"poll run", "init", "start run"}
ClearsRunning == {"stop"}
SetsCalled    == {"call", "tell"}
ClearsCalled  == {"return", "uncall", "told", "start uncall"}
SetsMarked    == {"condemn", "sentence"}
ClearsMarked  == {"unmark", "start unmark"}
ClearsPoll    == {"poll clear"}

AtWrite ==
    pc \in UNION {SetsRunning, ClearsRunning, SetsCalled, ClearsCalled,
                  SetsMarked, ClearsMarked, ClearsPoll}

\* What the statement makes of the word b.
Written(b) ==
    CASE pc \in SetsRunning   -> b \cup {"running"}
      [] pc \in ClearsRunning -> b \ {"running"}
      [] pc \in SetsCalled    -> b \cup {"called"}
      [] pc \in ClearsCalled  -> b \ {"called"}
      [] pc \in SetsMarked    -> b \cup {"marked_to_exit"}
      [] pc \in ClearsMarked  -> b \ {"marked_to_exit"}
      [] pc \in ClearsPoll    -> b \ {"needspoll"}

\* Where call_process, and an exit, return to.
Back == IF ev = "POLL" THEN "walk" ELSE "idle"

Following ==
    CASE pc = "poll run"                       -> "poll clear"
      [] pc \in {"poll clear", "init"}         -> "test"
      [] pc = "call"                           -> "thread"
      [] pc = "return"                         -> Back
      [] pc \in {"condemn", "unmark"}          -> "scan"
      [] pc = "stop"                           -> "uncall"
      [] pc \in {"uncall", "told", "sentence"} -> "notify"
      [] pc = "tell"                           -> "exited"
      [] pc = "start run"                      -> "start uncall"
      [] pc = "start uncall"                   -> "start unmark"
      [] pc = "start unmark"                   -> "test"

LoadBits ==
    /\ AtWrite /\ loaded = EMPTY
    /\ loaded' = bits[p]
    /\ UNCHANGED <<bits, poll_requested, pc, p, ev, walks, promises>>

StoreBits ==
    /\ AtWrite /\ loaded # EMPTY
    /\ bits' = [bits EXCEPT ![p] = Written(loaded)]
    /\ loaded' = EMPTY
    /\ pc' = Following
    /\ UNCHANGED <<poll_requested, p, ev, walks, promises>>
-----------------------------------------------------------------------------
\* do_poll, up to its loop.
DoPoll ==
    /\ pc = "idle" /\ poll_requested
    /\ poll_requested' = FALSE
    /\ pc' = "walk" /\ ev' = "POLL"
    /\ ahead' = listed
    /\ UNCHANGED <<listed, leaving, rest, bits, p, loaded, promises>>

\* A turn of its loop.  Nothing is put into the list behind the process it is at,
\* but a block that was unlinked meanwhile may still be come to.
LookAt(q) ==
    /\ pc = "walk" /\ q \in ahead
    /\ ahead' = ahead \ {q}
    /\ p' = q
    /\ pc' = IF "needspoll" \in bits[q] THEN "poll run" ELSE "walk"
    /\ UNCHANGED <<listed, leaving, rest, bits, poll_requested, ev, loaded, promises>>

\* Fault: do_poll clears the request when it has walked the list.
DoPollReturnClears ==
    /\ pc = "walk" /\ ahead \cap listed = {}
    /\ pc' = "idle"
    /\ ahead' = {}
    /\ poll_requested' = FALSE
    /\ UNCHANGED <<listed, leaving, rest, bits, p, ev, loaded, promises>>

DoPollReturn ==
    /\ pc = "walk" /\ ahead \cap listed = {}
    /\ pc' = "idle"
    /\ ahead' = {}
    /\ UNCHANGED <<listed, leaving, rest, bits, poll_requested, p, ev, loaded, promises>>

\* do_event has an event for the process q.  INIT makes q run, listed or not.
DoEvent(q) ==
    /\ pc = "idle"
    /\ p' = q
    /\ \/ ev' = "MSG" /\ pc' = "test"
       \/ ev' = "INIT" /\ pc' = "init"
    /\ UNCHANGED <<bits, poll_requested, loaded, walks, promises>>

CallProcess ==
    /\ pc = "test"
    /\ pc' = IF bits[p] \cap {"running", "called"} = {"running"} THEN "call" ELSE Back
    /\ UNCHANGED <<bits, poll_requested, p, ev, loaded, walks, promises>>

\* The thread handles its event; with POLL all polls so far are served.  Then it
\* waits, or it has ended and call_process exits the process.
Thread ==
    /\ pc = "thread"
    /\ \/ pc' = "return"
       \/ pc' = IF p \in listed THEN "condemn" ELSE Back
    /\ IF ev = "POLL"
       THEN asked' = asked \ {p} /\ undone' = undone \ {p}
       ELSE UNCHANGED promises
    /\ UNCHANGED <<bits, poll_requested, p, ev, loaded, walks>>
-----------------------------------------------------------------------------
\* A task starts the process q: it is put in the list, its bits are written, and
\* it is called with INIT.
StartProcess(q) ==
    /\ pc = "idle" /\ q \notin listed
    /\ listed' = listed \cup {q}
    /\ pc' = "start run" /\ p' = q /\ ev' = "INIT"
    /\ UNCHANGED <<bits, poll_requested, loaded, ahead, leaving, rest, promises>>

\* A task exits the process q.
ExitProcess(q) ==
    /\ pc = "idle" /\ q \in listed
    /\ pc' = "condemn" /\ p' = q /\ ev' = "EXIT"
    /\ UNCHANGED <<bits, poll_requested, loaded, walks, promises>>

Condemned(q) == q \in listed /\ "marked_to_exit" \in bits[q]

\* The loop of exit_process comes to a condemned process, in this round or in
\* another one.  If it runs all others are to be told.
ScanFinds(q) ==
    /\ pc = "scan" /\ Condemned(q)
    /\ p' = q /\ leaving' = q
    /\ rest' = IF Runs(q) THEN listed \ {q} ELSE {}
    /\ pc' = IF Runs(q) THEN "stop" ELSE "notify"
    /\ UNCHANGED <<listed, ahead, bits, poll_requested, ev, loaded, promises>>

ScanReturns ==
    /\ pc = "scan" /\ ~\E q \in listed : Condemned(q)
    /\ pc' = Back
    /\ UNCHANGED <<bits, poll_requested, p, ev, loaded, walks, promises>>

Notify(q) ==
    /\ pc = "notify" /\ q \in rest
    /\ rest' = rest \ {q}
    /\ p' = q
    /\ pc' = IF "running" \in bits[q] THEN "tell" ELSE "notify"
    /\ UNCHANGED <<listed, ahead, leaving, bits, poll_requested, ev, loaded, promises>>

\* The thread handles EXITED, and may end on it.
AnswerExited ==
    /\ pc = "exited"
    /\ pc' \in {"told", "sentence"}
    /\ UNCHANGED <<bits, poll_requested, p, ev, loaded, walks, promises>>

\* All have been told.  The thread of the process itself, if it is told EXIT now,
\* changes no bit.
Unlink ==
    /\ pc = "notify" /\ rest = {}
    /\ listed' = listed \ {leaving}
    /\ asked' = asked \ {leaving} /\ undone' = undone \ {leaving}
    /\ pc' = "unmark" /\ p' = leaving
    /\ UNCHANGED <<ahead, leaving, rest, bits, poll_requested, ev, loaded>>
-----------------------------------------------------------------------------
\* The interrupt: xcontiki_os_sys_Process__poll.  Nothing is promised to a process
\* that is not in the list.  The poll is undone if the kernel has loaded the bits
\* of the process and found no poll among them.
Interrupt(q) ==
    /\ Runs(q)
    /\ bits' = [bits EXCEPT ![q] = @ \cup {"needspoll"}]
    /\ poll_requested' = TRUE
    /\ asked' = asked \cup ({q} \cap listed)
    /\ undone' = IF loaded # EMPTY /\ q = p /\ "needspoll" \notin loaded
                 THEN undone \cup ({q} \cap listed) ELSE undone \ {q}
    /\ UNCHANGED <<pc, p, ev, loaded, walks>>

PollInit ==
    /\ listed = {} /\ ahead = {} /\ leaving = 1 /\ rest = {}
    /\ bits = [q \in Block |-> {}]
    /\ poll_requested = FALSE
    /\ pc = "idle" /\ p = 1 /\ ev = "MSG"
    /\ loaded = EMPTY
    /\ asked = {} /\ undone = {}

PollNext ==
    \/ LoadBits \/ StoreBits
    \/ DoPoll \/ DoPollReturn
    \/ CallProcess \/ Thread
    \/ ScanReturns \/ AnswerExited \/ Unlink
    \/ \E q \in Block :
           LookAt(q) \/ DoEvent(q) \/ StartProcess(q) \/ ExitProcess(q)
           \/ ScanFinds(q) \/ Notify(q) \/ Interrupt(q)

PollSpec == PollInit /\ [][PollNext]_pollVars
-----------------------------------------------------------------------------
\* The kernel will come to q: in the round of polls that goes on, or in one that
\* poll_requested asks for.
WillLook(q) ==
    "needspoll" \in bits[q] /\ (poll_requested \/ q \in ahead)

WillCall(q) ==
    /\ p = q /\ ev = "POLL"
    /\ pc \in {"poll run", "poll clear", "test", "call", "thread"}

\* A poll from an interrupt is not forgotten: between any two instructions each
\* process in the list whose poll was asked for is about to be called with POLL,
\* or will be looked at with its bit set.  A poll may be lost if it comes while
\* the kernel writes another bit of the same process, between load and store,
\* and no poll of the process was pending then.  Nothing else loses one; the
\* writes by which do_poll itself serves a poll do not, nor do those to other
\* processes.
PollIsNotForgotten ==
    \A q \in asked : WillLook(q) \/ WillCall(q) \/ q \in undone
=============================================================================
