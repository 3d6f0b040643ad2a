----------------------------- MODULE Protothread -----------------------------
(***************************************************************************)
(* The macros of xcontiki_os_sys_Protothread.h.  A protothread is a        *)
(* function whose body is one switch over local_continuation: 0 or the     *)
(* number of the line where it blocked last.  Each line that blocks has    *)
(* one macro; what the body does between two of them is the application's. *)
(***************************************************************************)
EXTENDS Integers, Sequences

CONSTANTS
    Process,
    Lines,      \* the lines of a process' thread that hold a blocking macro
    Macro       \* the macro of each line

ASSUME LinesAssumption ==
    /\ Lines \in [Process -> SUBSET (Nat \ {0})]
    /\ \A p, q \in Process : p # q => Lines[p] \cap Lines[q] = {}
    /\ \A p \in Process : \A L \in Lines[p] :
            Macro[L] \in {"YIELD", "YIELD_UNTIL", "WAIT_UNTIL", "SPAWN"}

WAITING == 0
YIELDED == 1
EXITED  == 2
ENDED   == 3

Continuation == {0} \cup UNION {Lines[p] : p \in Process}

\* Fault: a protothread that has exited counts as one that goes on.
SchedulesExited(result) == result <= EXITED

\* SCHEDULE(f), the condition on which WAIT_THREAD waits.
Schedules(result) == result < EXITED

\* Where the switch of BEGIN enters the thread of p: the body, the condition
\* of a wait, the call of the child protothread that SPAWN waits for, or, for
\* a line of another function, past everything at END.
Enters(p, L) ==
    IF L # 0 /\ L \notin Lines[p] THEN "END"
    ELSE IF L = 0 \/ Macro[L] = "YIELD" THEN "body"
    ELSE IF Macro[L] = "SPAWN" THEN "child" ELSE "test"

\* The macros that return from the body, with what they leave to resume at:
\* YIELD and YIELD_UNTIL, and RESTART, EXIT and END.
Leaves(p) == {0} \cup {L \in Lines[p] : Macro[L] \in {"YIELD", "YIELD_UNTIL"}}

\* Those that go on to a condition first: WAIT_UNTIL and SPAWN.
Tests(p) == {L \in Lines[p] : Macro[L] \in {"WAIT_UNTIL", "SPAWN"}}
=============================================================================
