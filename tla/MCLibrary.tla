----------------------------- MODULE MCLibrary -----------------------------
(***************************************************************************)
(* The smaller parts for TLC: the queue of the process module, the data    *)
(* structures of os/lib, the threads of processes, polls from interrupts   *)
(* and the waits of the clock.  They share nothing here.  A behaviour      *)
(* works on one of them, so that their states add up instead of            *)
(* multiplying.                                                            *)
(***************************************************************************)
EXTENDS EventQueue, Ringbuf, CircularList, ProcessThreads, PollInterrupt,
        ClockWait, TLC

CONSTANTS p1, p2, p3    \* the processes of the threads

VARIABLE which          \* the one that the behaviour works on

Works(on) == which = on /\ UNCHANGED which

LibraryInit ==
    /\ Init /\ RingInit /\ ThreadsInit /\ PollInit /\ ListInit
    /\ which \in {"events", "indices", "bytes", "list", "threads", "polls", "wait"}
    /\ WaitInit /\ (which # "wait" => interval = 1)

LibraryNext ==
    \/ /\ Works("events") /\ Next
       /\ UNCHANGED <<ringVars, list, threadVars, pollVars, waitVars>>
    \/ /\ \/ Works("indices") /\ IndexNext
          \/ Works("bytes") /\ ByteNext
       /\ UNCHANGED <<vars, list, threadVars, pollVars, waitVars>>
    \/ /\ Works("list") /\ ListNext
       /\ UNCHANGED <<vars, ringVars, threadVars, pollVars, waitVars>>
    \/ /\ Works("threads") /\ ThreadsNext
       /\ UNCHANGED <<vars, ringVars, list, pollVars, waitVars>>
    \/ /\ Works("polls") /\ PollNext
       /\ UNCHANGED <<vars, ringVars, list, threadVars, waitVars>>
    \/ /\ Works("wait") /\ WaitNext
       /\ UNCHANGED <<vars, ringVars, list, threadVars, pollVars>>

LibrarySpec ==
    /\ LibraryInit
    /\ [][LibraryNext]_<<vars, ringVars, list, threadVars, pollVars, waitVars, which>>

\* p1 and p2 are in one file.  Between them they have every kind of line.
MCLines  == p1 :> {1, 2} @@ p2 :> {3, 4} @@ p3 :> {5}
MCMacro  == <<"YIELD", "SPAWN", "YIELD_UNTIL", "SPAWN", "WAIT_UNTIL">>
MCFileOf == p1 :> 1 @@ p2 :> 1 @@ p3 :> 2
=============================================================================
