---------------------------- MODULE ProcessThreads ----------------------------
(***************************************************************************)
(* The threads of processes: XCONTIKI_OS_SYS_PROCESS__THREAD and the       *)
(* protothread macros of xcontiki_os_sys_Process.h.                        *)
(*                                                                         *)
(* A thread is a wrapper around the protothread.  The wrapper copies the   *)
(* state kept for the process, process_thread_<name>_pt, to process_pt,    *)
(* which is one static variable of the file, calls the protothread, whose  *)
(* macros all use process_pt, and copies process_pt back.  Any call that   *)
(* the application makes may end in the call of any thread, also in one of *)
(* the same process: EXITED is sent to a process whose thread is in a call *)
(* (module ProcessKernel).                                                 *)
(***************************************************************************)
EXTENDS Protothread

CONSTANTS
    FileOf,     \* the file, a translation unit, that defines a process
    MaxDepth    \* bound: threads that are in a call at the same time

VARIABLES
    process_pt,     \* of each file
    thread_pt,      \* process_thread_<name>_pt
    child_pt,       \* TRUE if the child protothread has blocked, FALSE if 0
    frames,         \* the calls of threads, the executing one last
    lost            \* history: processes with a continuation not their own

threadVars == <<process_pt, thread_pt, child_pt, frames, lost>>

File == {FileOf[p] : p \in Process}

\* entry: above BEGIN; test: in the condition of a wait; child: in the child
\* protothread.  own is history: process_pt holds this call's continuation.
Frame == [p : Process, at : {"entry", "body", "test", "child"}, own : BOOLEAN]

\* Types.
ThreadsOK ==
    /\ process_pt \in [File -> Continuation]
    /\ thread_pt \in [Process -> Continuation]
    /\ child_pt \in [Process -> BOOLEAN]
    /\ frames \in Seq(Frame)
    /\ lost \subseteq Process

Top    == frames[Len(frames)]
Rest   == SubSeq(frames, 1, Len(frames) - 1)
At(at) == frames # <<>> /\ Top.at = at
Pt     == process_pt[FileOf[Top.p]]     \* process_pt, to the executing thread

SetPt(L) == process_pt' = [process_pt EXCEPT ![FileOf[Top.p]] = L]

Goes(at, own) == frames' = Append(Rest, [p |-> Top.p, at |-> at, own |-> own])

\* Fault: the wrapper does not copy process_pt back when the thread waits.
ReturnUnsaved(L) ==
    /\ frames' = Rest
    /\ UNCHANGED thread_pt

\* The thread returns with L in process_pt, and the wrapper copies it back.
Return(L) ==
    /\ thread_pt' = [thread_pt EXCEPT ![Top.p] = L]
    /\ frames' = Rest

Disowned(file) ==
    [i \in 1..Len(frames) |->
        IF FileOf[frames[i].p] = file /\ frames[i].at # "body"
        THEN [frames[i] EXCEPT !.own = FALSE] ELSE frames[i]]

\* The kernel calls the thread of p, whatever executes.
Call(p) ==
    /\ Len(frames) < MaxDepth
    /\ process_pt' = [process_pt EXCEPT ![FileOf[p]] = thread_pt[p]]
    /\ frames' = Append(Disowned(FileOf[p]),
                        [p |-> p, at |-> "entry", own |-> TRUE])
    /\ UNCHANGED <<thread_pt, child_pt, lost>>

\* BEGIN, after the handlers.  A line of another thread is no case of the
\* switch, so that the thread runs into END.
Begin ==
    /\ At("entry")
    /\ Enters(Top.p, Pt) # "END"
    /\ Goes(Enters(Top.p, Pt), Top.own \/ Enters(Top.p, Pt) = "body")
    /\ UNCHANGED <<process_pt, thread_pt, child_pt, lost>>

BeginAtEnd ==
    /\ At("entry")
    /\ Enters(Top.p, Pt) = "END"
    /\ SetPt(0) /\ Return(0)
    /\ lost' = lost \ {Top.p}
    /\ UNCHANGED child_pt

\* YIELD and YIELD_UNTIL store their line and return; RESTART, EXIT and END
\* store 0 and return.
Leave ==
    /\ At("body")
    /\ \E L \in Leaves(Top.p) : SetPt(L) /\ Return(L)
    /\ lost' = lost \ {Top.p}
    /\ UNCHANGED child_pt

\* WAIT_UNTIL stores its line and tests; SPAWN initialises the child before.
Test ==
    /\ At("body")
    /\ \E L \in Tests(Top.p) :
          /\ SetPt(L)
          /\ Goes(Enters(Top.p, L), TRUE)
          /\ child_pt' = [child_pt EXCEPT ![Top.p] = Macro[L] # "SPAWN" /\ @]
    /\ lost' = lost \ {Top.p}
    /\ UNCHANGED thread_pt

\* The condition of WAIT_UNTIL or YIELD_UNTIL holds.
TestHolds ==
    /\ At("test")
    /\ Goes("body", TRUE)
    /\ UNCHANGED <<process_pt, thread_pt, child_pt, lost>>

\* The thread returns with process_pt as it is.
Waits ==
    /\ Return(Pt)
    /\ lost' = IF Top.own THEN lost ELSE lost \cup {Top.p}
    /\ UNCHANGED process_pt

TestFails ==
    /\ At("test")
    /\ Waits
    /\ UNCHANGED child_pt

\* The child protothread returns to WAIT_THREAD: it has blocked, which its own
\* continuation shows, or it is at an end.
ChildReturns(result) ==
    /\ At("child")
    /\ child_pt' = [child_pt EXCEPT ![Top.p] = result < EXITED]
    /\ IF Schedules(result)
       THEN Waits
       ELSE Goes("body", TRUE) /\ UNCHANGED <<process_pt, thread_pt, lost>>

ThreadsInit ==
    /\ process_pt = [f \in File |-> 0]
    /\ thread_pt = [p \in Process |-> 0]
    /\ child_pt = [p \in Process |-> FALSE]
    /\ frames = <<>>
    /\ lost = {}

ThreadsNext ==
    \/ \E p \in Process : Call(p)
    \/ Begin \/ BeginAtEnd \/ Leave \/ Test \/ TestHolds \/ TestFails
    \/ \E result \in {WAITING, YIELDED, EXITED, ENDED} : ChildReturns(result)

ThreadsSpec == ThreadsInit /\ [][ThreadsNext]_threadVars
-----------------------------------------------------------------------------
\* A call's continuation, as far as it is in use and its own.
Private(f) ==
    [p |-> f.p, at |-> f.at, own |-> f.own,
     pt |-> IF f.own /\ f.at # "body" THEN process_pt[FileOf[f.p]] ELSE -1]

Threads == INSTANCE PrivateThreads
             WITH resume <- thread_pt, blocked <- child_pt,
                  frames <- [i \in 1..Len(frames) |-> Private(frames[i])]

\* THREAD and the macros: although all threads of a file share one process_pt,
\* and calls of them nest, each goes on where it blocked itself, as if it had
\* process_pt for itself, unless it lets a thread of its file be called before
\* BEGIN, in a condition or in a child.
ContinuationsArePrivate == Threads!Spec

\* SPAWN: a process that waits for a child protothread waits for one that has
\* blocked.  A child that has ended is not waited for, which would run it
\* again from its beginning.
ChildHasBlocked ==
    \A p \in Process :
        (/\ p \notin lost /\ \A i \in 1..Len(frames) : frames[i].p # p
         /\ thread_pt[p] \in Lines[p] /\ Macro[thread_pt[p]] = "SPAWN")
        => child_pt[p]
=============================================================================
