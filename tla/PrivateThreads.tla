---------------------------- MODULE PrivateThreads ----------------------------
(***************************************************************************)
(* What XCONTIKI_OS_SYS_PROCESS__THREAD promises: every call of a thread   *)
(* has a continuation of its own, from the call on until the body executes *)
(* and from a blocking macro on until the return.  One case is excepted:   *)
(* if meanwhile, that is from a handler above BEGIN, from a condition or   *)
(* from a child protothread, a thread of the same file is called, the      *)
(* continuation is disowned and nothing is known of it.                    *)
(***************************************************************************)
EXTENDS Protothread

CONSTANTS
    FileOf,     \* the file, a translation unit, that defines a process
    MaxDepth    \* bound: threads that are in a call at the same time

VARIABLES
    resume,     \* where the thread of a process goes on
    blocked,    \* whether its child protothread has blocked
    frames      \* the calls of threads, the executing one last

NONE == -1      \* no continuation is kept: the body, or a disowned one

Init ==
    /\ resume = [p \in Process |-> 0]
    /\ blocked = [p \in Process |-> FALSE]
    /\ frames = <<>>

Top     == frames[Len(frames)]
Rest    == SubSeq(frames, 1, Len(frames) - 1)
At(at)  == frames # <<>> /\ Top.at = at
Kept(L) == IF Top.own THEN {L} ELSE Continuation

Goes(at, own, L) ==
    frames' = Append(Rest, [p |-> Top.p, at |-> at, own |-> own, pt |-> L])

Return(L) ==
    /\ resume' = [resume EXCEPT ![Top.p] = L]
    /\ frames' = Rest

Disowned(file) ==
    [i \in 1..Len(frames) |->
        IF FileOf[frames[i].p] = file /\ frames[i].at # "body"
        THEN [p |-> frames[i].p, at |-> frames[i].at, own |-> FALSE, pt |-> NONE]
        ELSE frames[i]]

Call(p) ==
    /\ Len(frames) < MaxDepth
    /\ frames' = Append(Disowned(FileOf[p]),
                    [p |-> p, at |-> "entry", own |-> TRUE, pt |-> resume[p]])
    /\ UNCHANGED <<resume, blocked>>

Begin ==
    /\ At("entry")
    /\ \E L \in Kept(Top.pt) :
          CASE Enters(Top.p, L) = "END"  -> Return(0)
            [] Enters(Top.p, L) = "body" -> Goes("body", TRUE, NONE) /\ UNCHANGED resume
            [] OTHER -> Goes(Enters(Top.p, L), Top.own, Top.pt) /\ UNCHANGED resume
    /\ UNCHANGED blocked

Leave ==
    /\ At("body")
    /\ \E L \in Leaves(Top.p) : Return(L)
    /\ UNCHANGED blocked

Test ==
    /\ At("body")
    /\ \E L \in Tests(Top.p) :
          /\ Goes(Enters(Top.p, L), TRUE, L)
          /\ blocked' = [blocked EXCEPT ![Top.p] = Macro[L] # "SPAWN" /\ @]
    /\ UNCHANGED resume

Passes ==
    /\ At("test") \/ At("child")
    /\ Goes("body", TRUE, NONE)
    /\ blocked' = [blocked EXCEPT ![Top.p] = Top.at # "child" /\ @]
    /\ UNCHANGED resume

Waits ==
    /\ At("test") \/ At("child")
    /\ \E L \in Kept(Top.pt) : Return(L)
    /\ blocked' = [blocked EXCEPT ![Top.p] = Top.at = "child" \/ @]

Next == (\E p \in Process : Call(p)) \/ Begin \/ Leave \/ Test \/ Passes \/ Waits

Spec == Init /\ [][Next]_<<resume, blocked, frames>>
=============================================================================
