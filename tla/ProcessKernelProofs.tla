------------------------- MODULE ProcessKernelProofs -------------------------
(***************************************************************************)
(* What ProcessKernel keeps for every set of processes, every size of the  *)
(* event queue and every choice of the calls the application makes.        *)
(***************************************************************************)
EXTENDS ProcessKernel, SequenceTheorems, TLAPS

\* The last frame of a non-empty stack, and what replaces or removes it.
LEMMA StackFacts ==
    ASSUME NEW s \in Seq(Frame), s # <<>>
    PROVE  /\ Len(s) \in Nat \ {0}
           /\ s[Len(s)] \in Frame
           /\ SubSeq(s, 1, Len(s) - 1) \in Seq(Frame)
           /\ Len(SubSeq(s, 1, Len(s) - 1)) = Len(s) - 1
           /\ \A i \in 1..(Len(s) - 1) : SubSeq(s, 1, Len(s) - 1)[i] = s[i]
<1>1. Len(s) \in Nat \ {0} /\ \A i \in 1..Len(s) : s[i] \in Frame
  BY EmptySeq, ElementOfSeq
<1>2. \A i \in 1..(Len(s) - 1) : s[i] \in Frame
  BY <1>1
<1>3. PICK n \in Nat : n = Len(s) - 1
  BY <1>1
<1>4. /\ SubSeq(s, 1, n) \in Seq(Frame)
      /\ Len(SubSeq(s, 1, n)) = IF 1 <= n THEN n - 1 + 1 ELSE 0
      /\ \A i \in 1..(n - 1 + 1) : SubSeq(s, 1, n)[i] = s[1 + i - 1]
  <2>1. n \in Int /\ 1 \in Int /\ \A i \in 1..n : s[i] \in Frame
    BY <1>2, <1>3
  <2>. QED
    BY <2>1, SubSeqProperties
<1>5. n - 1 + 1 = n /\ \A i \in 1..n : 1 + i - 1 = i
  BY <1>3
<1>6. Len(SubSeq(s, 1, n)) = n
  BY <1>3, <1>4
<1>7. \A i \in 1..n : SubSeq(s, 1, n)[i] = s[i]
  BY <1>4, <1>5
<1>. QED
  BY <1>1, <1>3, <1>4, <1>6, <1>7

LEMMA FrameKinds ==
    ASSUME NEW f \in Frame
    PROVE  /\ f.fn = "sync" => f \in SyncFrame
           /\ f.fn = "thread" => f \in ThreadFrame
           /\ f.fn = "exit" => f \in ExitFrame
           /\ f.fn = "event" => f \in EventFrame
           /\ f.fn = "poll" => f \in PollFrame
  BY DEF Frame, SyncFrame, ThreadFrame, ExitFrame, EventFrame, PollFrame

LEMMA Exitframes ==
    ASSUME NEW f \in ExitFrame, NEW p \in Ptr
    PROVE  /\ [f EXCEPT !.at = "scan", !.p = p] \in ExitFrame
           /\ [f EXCEPT !.q = p] \in ExitFrame
           /\ f.p # NULL => [f EXCEPT !.at = "notify", !.q = p] \in ExitFrame
           /\ f.p # NULL => [f EXCEPT !.at = "unlink", !.from = NULL] \in ExitFrame
           /\ f.p # NULL => [f EXCEPT !.at = "unlink"] \in ExitFrame
           /\ f.at = "scan" => [f EXCEPT !.p = p] \in ExitFrame
  BY NullAssumption DEF ExitFrame, Ptr

\* The shape of the stack.  A thread is suspended in post_synchronous_event
\* or in exit_process, which keep its process; exit_process is suspended in a
\* thread only, the one of its cursor q while it notifies.
Suspended(below, above) ==
    /\ below.fn = "thread" => /\ above.fn \in {"sync", "exit"}
                              /\ above.fn = "sync" => above.caller = below.p
                              /\ above.fn = "exit" => above.old = below.p
    /\ below.fn = "exit" => /\ above.fn = "thread" /\ below.at # "scan"
                            /\ below.at = "notify" => above.p = below.q

Shaped(s) == \A i \in 1..(Len(s) - 1) : Suspended(s[i], s[i + 1])

StackShape == Shaped(stack)

IInv == TypeOK /\ StackShape /\ CurrentIsThread

USE NullAssumption, CapacityAssumption, PostedAssumption, MaxCallsAssumption

LEMMA Pointers ==
    ASSUME TypeOK
    PROVE  /\ First \in Ptr
           /\ Listed \subseteq Process
           /\ \A p \in Process : Next_(p) \in Ptr
<1>1. /\ Len(list) \in Nat
      /\ \A i \in 1..Len(list) : list[i] \in Process
      /\ list # <<>> => Len(list) # 0
  BY ElementOfSeq, EmptySeq DEF TypeOK
<1>2. First \in Ptr
  BY <1>1 DEF First, Ptr
<1>3. Listed \subseteq Process
  BY <1>1 DEF Listed
<1>4. ASSUME NEW p \in Listed PROVE Position(p) \in 1..Len(list)
  BY DEF Listed, Position
<1>5. ASSUME NEW p \in Process PROVE Next_(p) \in Ptr
  <2>1. CASE p \notin Listed
    BY <2>1 DEF Next_, TypeOK
  <2>2. CASE p \in Listed
    <3>1. Position(p) # Len(list) => Position(p) + 1 \in 1..Len(list)
      BY <1>1, <1>4, <2>2
    <3>. QED
      BY <1>1, <2>2, <3>1 DEF Next_, Ptr
  <2>. QED
    BY <2>1, <2>2
<1>. QED
  BY <1>2, <1>3, <1>5

LEMMA Unlinking ==
    ASSUME TypeOK, NEW p \in Listed
    PROVE  Without(p) \in Seq(Process)
<1>1. Len(list) \in Nat /\ \A i \in 1..Len(list) : list[i] \in Process
  BY ElementOfSeq DEF TypeOK
<1>2. Position(p) \in 1..Len(list)
  BY DEF Listed, Position
<1>3. Len(list) - 1 \in Nat
  BY <1>1, <1>2
<1>4. \A i \in 1..(Len(list) - 1) : i \in 1..Len(list) /\ i + 1 \in 1..Len(list)
  BY <1>1
<1>5. Without(p) \in [1..(Len(list) - 1) -> Process]
  BY <1>1, <1>4 DEF Without
<1>. QED
  BY <1>3, <1>5

LEMMA PushFrame ==
    ASSUME NEW s \in Seq(Frame), NEW f \in Frame, Shaped(s),
           s # <<>> => Suspended(s[Len(s)], f)
    PROVE  /\ Append(s, f) \in Seq(Frame)
           /\ Append(s, f) # <<>>
           /\ Len(Append(s, f)) = Len(s) + 1
           /\ Append(s, f)[Len(s) + 1] = f
           /\ Shaped(Append(s, f))
<1>1. Len(s) \in Nat /\ (s # <<>> <=> Len(s) # 0)
  BY LenProperties, EmptySeq
<1>2. /\ Append(s, f) \in Seq(Frame)
      /\ Append(s, f) # <<>>
      /\ Len(Append(s, f)) = Len(s) + 1
      /\ \A i \in 1..Len(s) : Append(s, f)[i] = s[i]
      /\ Append(s, f)[Len(s) + 1] = f
  BY AppendProperties
<1>3. ASSUME NEW i \in 1..Len(s)
      PROVE Suspended(Append(s, f)[i], Append(s, f)[i + 1])
  <2>1. CASE i = Len(s)
    BY <1>1, <1>2, <2>1
  <2>2. CASE i # Len(s)
    <3>1. i \in 1..(Len(s) - 1) /\ i + 1 \in 1..Len(s)
      BY <1>1, <2>2
    <3>. QED
      BY <1>2, <3>1 DEF Shaped
  <2>. QED
    BY <2>1, <2>2
<1>4. Len(s) + 1 - 1 = Len(s)
  BY <1>1
<1>. QED
  BY <1>2, <1>3, <1>4 DEF Shaped

LEMMA PopFrame ==
    ASSUME NEW s \in Seq(Frame), s # <<>>, Shaped(s)
    PROVE  /\ s[Len(s)] \in Frame
           /\ SubSeq(s, 1, Len(s) - 1) \in Seq(Frame)
           /\ Len(SubSeq(s, 1, Len(s) - 1)) = Len(s) - 1
           /\ Len(s) \in Nat \ {0}
           /\ Shaped(SubSeq(s, 1, Len(s) - 1))
           /\ SubSeq(s, 1, Len(s) - 1) # <<>> =>
                /\ Len(s) > 1
                /\ SubSeq(s, 1, Len(s) - 1)[Len(s) - 1] = s[Len(s) - 1]
                /\ s[Len(s) - 1] \in Frame
                /\ Suspended(s[Len(s) - 1], s[Len(s)])
<1>. DEFINE t == SubSeq(s, 1, Len(s) - 1)
<1>1. /\ Len(s) \in Nat \ {0}
      /\ s[Len(s)] \in Frame
      /\ t \in Seq(Frame)
      /\ Len(t) = Len(s) - 1
      /\ \A i \in 1..(Len(s) - 1) : t[i] = s[i]
  BY StackFacts
<1>2. t # <<>> => Len(t) \in Nat \ {0}
  BY <1>1, EmptySeq
<1>. HIDE DEF t
<1>3. t # <<>> => Len(s) > 1 /\ Len(s) - 1 \in 1..(Len(s) - 1)
  BY <1>1, <1>2
<1>4. \A i \in 1..(Len(t) - 1) : i \in 1..(Len(s) - 1) /\ i + 1 \in 1..(Len(s) - 1)
  BY <1>1
<1>5. Shaped(t)
  BY <1>1, <1>4 DEF Shaped
<1>6. t # <<>> => t[Len(s) - 1] = s[Len(s) - 1] /\ t[Len(s) - 1] \in Frame
  BY <1>1, <1>3, ElementOfSeq
<1>7. t # <<>> => Suspended(s[Len(s) - 1], s[Len(s) - 1 + 1])
  BY <1>3 DEF Shaped
<1>8. Len(s) - 1 + 1 = Len(s)
  BY <1>1
<1>. QED
  BY <1>1, <1>3, <1>5, <1>6, <1>7, <1>8 DEF t

LEMMA ReplaceFrame ==
    ASSUME NEW s \in Seq(Frame), s # <<>>, NEW f \in Frame, Shaped(s),
           Len(s) > 1 => Suspended(s[Len(s) - 1], f)
    PROVE  /\ [s EXCEPT ![Len(s)] = f] \in Seq(Frame)
           /\ [s EXCEPT ![Len(s)] = f] # <<>>
           /\ Len([s EXCEPT ![Len(s)] = f]) = Len(s)
           /\ [s EXCEPT ![Len(s)] = f][Len(s)] = f
           /\ Shaped([s EXCEPT ![Len(s)] = f])
<1>. DEFINE t == [s EXCEPT ![Len(s)] = f]
<1>1. Len(s) \in Nat \ {0}
  BY EmptySeq
<1>2. Len(s) \in 1..Len(s)
  BY <1>1
<1>3. /\ t \in Seq(Frame)
      /\ Len(t) = Len(s)
      /\ \A i \in 1..Len(s) : t[i] = IF i = Len(s) THEN f ELSE s[i]
  BY <1>2, ExceptSeq
<1>. HIDE DEF t
<1>4. t # <<>>
  BY <1>1, <1>3, EmptySeq
<1>5. ASSUME NEW i \in 1..(Len(s) - 1) PROVE Suspended(t[i], t[i + 1])
  <2>1. i \in 1..Len(s) /\ i + 1 \in 1..Len(s) /\ i # Len(s)
    BY <1>1
  <2>2. t[i] = s[i] /\ Suspended(s[i], s[i + 1])
    BY <1>3, <2>1 DEF Shaped
  <2>3. CASE i + 1 = Len(s)
    <3>1. i = Len(s) - 1 /\ Len(s) > 1
      BY <1>1, <2>3
    <3>. QED
      BY <1>3, <2>1, <2>2, <2>3, <3>1
  <2>4. CASE i + 1 # Len(s)
    BY <1>3, <2>1, <2>2, <2>4
  <2>. QED
    BY <2>3, <2>4
<1>. QED
  BY <1>2, <1>3, <1>4, <1>5 DEF t, Shaped

\* The part of the invariant that concerns a stack s whose last frame executes
\* with current_process_ptr = c.
Executes(s, c) ==
    /\ s \in Seq(Frame)
    /\ Shaped(s)
    /\ s # <<>> /\ s[Len(s)].fn = "thread" => c = s[Len(s)].p

LEMMA PushExecutes ==
    ASSUME NEW s \in Seq(Frame), NEW f \in Frame, NEW c, Shaped(s),
           s # <<>> => Suspended(s[Len(s)], f),
           f.fn = "thread" => c = f.p
    PROVE  Executes(Append(s, f), c)
  BY PushFrame DEF Executes

LEMMA ReplaceExecutes ==
    ASSUME NEW s \in Seq(Frame), s # <<>>, NEW f \in Frame, NEW c, Shaped(s),
           f.fn # "thread", f.fn = s[Len(s)].fn,
           f.fn = "sync" => f.caller = s[Len(s)].caller,
           f.fn = "exit" => f.old = s[Len(s)].old
    PROVE  /\ Executes([s EXCEPT ![Len(s)] = f], c)
           /\ [s EXCEPT ![Len(s)] = f] # <<>>
           /\ [s EXCEPT ![Len(s)] = f][Len([s EXCEPT ![Len(s)] = f])] = f
<1>1. Len(s) \in Nat \ {0}
  BY EmptySeq
<1>2. Len(s) > 1 => Suspended(s[Len(s) - 1], f)
  <2>1. SUFFICES ASSUME Len(s) > 1 PROVE Suspended(s[Len(s) - 1], f)
    OBVIOUS
  <2>2. Len(s) - 1 \in 1..(Len(s) - 1) /\ Len(s) - 1 + 1 = Len(s)
    BY <1>1, <2>1
  <2>3. Suspended(s[Len(s) - 1], s[Len(s)])
    BY <2>2 DEF Shaped
  <2>. QED
    BY <2>3 DEF Suspended
<1>. QED
  BY <1>2, ReplaceFrame DEF Executes

\* Popping leaves a stack whose last frame is not a thread's, or the thread's
\* whose process the popped frame kept.
LEMMA PopExecutes ==
    ASSUME NEW s \in Seq(Frame), s # <<>>, NEW c, Shaped(s),
           s[Len(s)].fn = "sync" => c = s[Len(s)].caller,
           s[Len(s)].fn = "exit" => c = s[Len(s)].old
    PROVE  Executes(SubSeq(s, 1, Len(s) - 1), c)
  BY PopFrame DEF Executes, Suspended

\* call_process keeps the invariant wherever it is called from.
LEMMA CallProcessKeeps ==
    ASSUME TypeOK, NEW s \in Seq(Frame), Shaped(s), s # <<>>,
           s[Len(s)].fn \in {"sync", "event", "poll"},
           NEW run \in BOOLEAN, NEW p \in Process, NEW ev \in Event,
           CallProcess(s, run, p, ev)
    PROVE  /\ Executes(stack', current')
           /\ current' \in Ptr
           /\ called' \in [Process -> BOOLEAN]
           /\ due' \in SUBSET (Nat \X Process)
<1>1. CASE run /\ ~called[p]
  <2>. DEFINE f == [fn |-> "thread", p |-> p, ev |-> ev]
  <2>1. f \in Frame
    BY DEF Frame, ThreadFrame
  <2>2. Suspended(s[Len(s)], f)
    BY DEF Suspended
  <2>3. Executes(Append(s, f), p)
    BY <2>1, <2>2, PushExecutes
  <2>. QED
    BY <1>1, <2>3 DEF CallProcess, TypeOK, Ptr
<1>2. CASE ~(run /\ ~called[p])
  BY <1>2 DEF CallProcess, TypeOK, Executes
<1>. QED
  BY <1>1, <1>2

\* So does entering exit_process from a thread that executes, or for a thread
\* that call_process has seen return.
LEMMA EnterExitKeeps ==
    ASSUME TypeOK, NEW s \in Seq(Frame), Shaped(s), NEW p \in Process,
           NEW from \in Ptr,
           s # <<>> => s[Len(s)].fn # "exit",
           s # <<>> /\ s[Len(s)].fn = "thread" => current = s[Len(s)].p,
           EnterExit(s, p, from)
    PROVE  /\ \A c : Executes(stack', c)
           /\ marked' \in [Process -> BOOLEAN]
           /\ another' \in BOOLEAN
<1>. DEFINE f == [fn |-> "exit", at |-> "scan", p |-> First, q |-> NULL,
                  from |-> from, old |-> current]
<1>1. f \in Frame
  BY Pointers DEF Frame, ExitFrame, TypeOK, Ptr
<1>2. s # <<>> => Suspended(s[Len(s)], f)
  BY DEF Suspended
<1>3. \A c : Executes(Append(s, f), c)
  BY <1>1, <1>2, PushExecutes
<1>. QED
  BY <1>3 DEF EnterExit, TypeOK

LEMMA Concludes ==
    ASSUME Executes(stack', current')
    PROVE  StackShape' /\ CurrentIsThread' /\ stack' \in Seq(Frame)
  BY DEF Executes, StackShape, CurrentIsThread, Active, Top

LEMMA TypeInit == Init => IInv
<1>. SUFFICES ASSUME Init PROVE IInv
  OBVIOUS
<1>1. /\ stack \in Seq(Frame) /\ list \in Seq(Process)
      /\ queue \in Seq([to : Ptr, ev : Posted]) /\ Len(queue) = 0
      /\ Len(stack) = 0
  BY DEF Init
<1>2. TypeOK
  <2>1. /\ running \in [Process -> BOOLEAN] /\ called \in [Process -> BOOLEAN]
        /\ needspoll \in [Process -> BOOLEAN] /\ marked \in [Process -> BOOLEAN]
    BY DEF Init
  <2>2. /\ stale \in [Process -> Ptr]
        /\ pt \in [Process -> {"BEGIN", "BLOCKED"}]
        /\ current \in Ptr
        /\ calls \in Nat
        /\ due \in SUBSET (Nat \X Process)
        /\ poll_requested \in BOOLEAN /\ another \in BOOLEAN
    BY DEF Init, Ptr
  <2>. QED
    BY <1>1, <2>1, <2>2 DEF TypeOK
<1>3. StackShape /\ CurrentIsThread
  BY <1>1 DEF Init, StackShape, Shaped, CurrentIsThread, Active
<1>. QED
  BY <1>2, <1>3 DEF IInv

\* The kernel calls of a thread or of a task.
LEMMA CallsKeep ==
    ASSUME IInv, AppCall PROVE IInv'
<1>. USE DEF IInv
<1>0. /\ stack \in Seq(Frame) /\ Shaped(stack)
      /\ Len(stack) \in Nat
      /\ Listed \subseteq Process
  BY Pointers, LenProperties DEF TypeOK, StackShape
<1>c. Count => calls' \in Nat
  BY DEF Count, TypeOK
<1>1. ASSUME NEW p \in Process, Start(p) PROVE IInv'
  <2>. DEFINE f == [fn |-> "sync", caller |-> current]
              g == [fn |-> "thread", p |-> p, ev |-> "INIT"]
  <2>1. f \in Frame /\ g \in Frame
    BY DEF Frame, SyncFrame, ThreadFrame, Event, TypeOK
  <2>2. stack # <<>> => Suspended(stack[Len(stack)], f)
    BY <1>1 DEF Start, MayCall, AtRest, Active, Top, CurrentIsThread, Suspended
  <2>3. /\ Append(stack, f) \in Seq(Frame) /\ Shaped(Append(stack, f))
        /\ Append(stack, f) # <<>>
        /\ Append(stack, f)[Len(Append(stack, f))] = f
    BY <1>0, <2>1, <2>2, PushFrame
  <2>4. Suspended(f, g)
    BY DEF Suspended
  <2>. HIDE DEF f, g
  <2>5. Executes(Append(Append(stack, f), g), p)
    BY <2>1, <2>3, <2>4, PushExecutes DEF g
  <2>6. stack \o <<f, g>> = Append(Append(stack, f), g)
    BY <1>0, <2>1, <2>3
  <2>7. Executes(stack', current')
    BY <1>1, <2>5, <2>6 DEF Start, f, g
  <2>8. TypeOK'
    BY <1>1, <1>c, <2>7, Concludes DEF Start, TypeOK, Ptr
  <2>. QED
    BY <2>7, <2>8, Concludes
<1>2. ASSUME NEW p \in Process, Exit(p) PROVE IInv'
  <2>1. stack # <<>> => /\ stack[Len(stack)].fn = "thread"
                        /\ current = stack[Len(stack)].p
    BY <1>2 DEF Exit, MayCall, AtRest, Active, Top, CurrentIsThread
  <2>2. current \in Ptr
    BY DEF TypeOK
  <2>3. /\ Executes(stack', current')
        /\ marked' \in [Process -> BOOLEAN]
        /\ another' \in BOOLEAN
    BY <1>0, <1>2, <2>1, <2>2, EnterExitKeeps DEF Exit
  <2>4. TypeOK'
    BY <1>2, <1>c, <2>3, Concludes DEF Exit, TypeOK
  <2>. QED
    BY <2>3, <2>4, Concludes
<1>3. ASSUME NEW r \in Ptr, NEW ev \in Posted, Post(r, ev) PROVE IInv'
  <2>1. /\ queue' \in Seq([to : Ptr, ev : Posted])
        /\ Len(queue') <= NumEvents
    <3>1. [to |-> r, ev |-> ev] \in [to : Ptr, ev : Posted]
      OBVIOUS
    <3>2. Len(queue) \in Nat
      BY LenProperties DEF TypeOK
    <3>. QED
      BY <1>3, <3>1, <3>2, AppendProperties DEF Post, QueueFull, TypeOK
  <2>2. TypeOK'
    BY <1>3, <1>c, <2>1 DEF Post, TypeOK, flags
  <2>. QED
    BY <1>3, <2>2 DEF Post, StackShape, Shaped, CurrentIsThread, Active, Top
<1>4. ASSUME NEW p \in Process, NEW ev \in Posted, PostSync(p, ev) PROVE IInv'
  <2>. DEFINE f == [fn |-> "sync", caller |-> current]
              s == Append(stack, f)
  <2>1. f \in Frame
    BY DEF Frame, SyncFrame, TypeOK
  <2>2. stack # <<>> => Suspended(stack[Len(stack)], f)
    BY <1>4 DEF PostSync, MayCall, AtRest, Active, Top, CurrentIsThread, Suspended
  <2>3. s \in Seq(Frame) /\ Shaped(s) /\ s # <<>> /\ s[Len(s)] = f
    BY <1>0, <2>1, <2>2, PushFrame
  <2>4. ev \in Event
    BY DEF Event
  <2>5. CallProcess(s, TRUE, p, ev)
    BY <1>4 DEF PostSync
  <2>6. s[Len(s)].fn \in {"sync", "event", "poll"}
    BY <2>3
  <2>. HIDE DEF s
  <2>7. /\ Executes(stack', current')
        /\ current' \in Ptr
        /\ called' \in [Process -> BOOLEAN]
        /\ due' \in SUBSET (Nat \X Process)
    BY <2>3, <2>4, <2>5, <2>6, CallProcessKeeps
  <2>8. TypeOK'
    BY <1>4, <1>c, <2>7, Concludes DEF PostSync, TypeOK
  <2>. QED
    BY <2>7, <2>8, Concludes
<1>5. ASSUME NEW p \in Process, Poll(p) PROVE IInv'
  <2>1. TypeOK'
    BY <1>0, <1>5 DEF Poll, TypeOK, Walk
  <2>. QED
    BY <1>5, <2>1 DEF Poll, StackShape, Shaped, CurrentIsThread, Active, Top
<1>. QED
  BY <1>1, <1>2, <1>3, <1>4, <1>5 DEF AppCall

\* The frame on top, popped or replaced.
LEMMA TopFrame ==
    ASSUME IInv, stack # <<>>
    PROVE  /\ Top \in Frame /\ Top = stack[Len(stack)]
           /\ stack \in Seq(Frame) /\ Shaped(stack)
           /\ Popped \in Seq(Frame) /\ Shaped(Popped)
           /\ Popped # <<>> => /\ Popped[Len(Popped)] = Below
                               /\ Below \in Frame
                               /\ Suspended(Below, Top)
           /\ Len(stack) = 1 => Popped = <<>>
           /\ Len(Popped) = Len(stack) - 1
           /\ Len(stack) \in Nat \ {0}
<1>1. stack \in Seq(Frame) /\ Shaped(stack)
  BY DEF IInv, TypeOK, StackShape
<1>2. /\ stack[Len(stack)] \in Frame
      /\ Popped \in Seq(Frame) /\ Shaped(Popped)
      /\ Len(Popped) = Len(stack) - 1
      /\ Len(stack) \in Nat \ {0}
      /\ Popped # <<>> => /\ Popped[Len(stack) - 1] = stack[Len(stack) - 1]
                          /\ stack[Len(stack) - 1] \in Frame
                          /\ Suspended(stack[Len(stack) - 1], stack[Len(stack)])
  BY <1>1, PopFrame DEF Popped
<1>3. Len(stack) = 1 => Popped = <<>>
  BY <1>2, EmptySeq
<1>. QED
  BY <1>1, <1>2, <1>3 DEF Top, Below

\* A thread that returns to call_process or to exit_process.
LEMMA ReturnKeeps ==
    ASSUME IInv, Return PROVE IInv'
<1>. USE DEF IInv
<1>1. ASSUME NEW ret \in Result, ReturnToCall(ret) PROVE IInv'
  <2>1. stack # <<>> /\ Top.fn = "thread" /\ Top \in ThreadFrame
    BY <1>1, TopFrame, FrameKinds DEF ReturnToCall, Active
  <2>2. Top.p \in Process
    BY <2>1 DEF ThreadFrame
  <2>3. /\ Popped \in Seq(Frame) /\ Shaped(Popped)
        /\ Popped # <<>> => Popped[Len(Popped)].fn \notin {"exit", "thread"}
    BY <1>1, <2>1, TopFrame DEF ReturnToCall, Suspended
  <2>4. pt' \in [Process -> {"BEGIN", "BLOCKED"}]
    BY <1>1 DEF ReturnToCall, Saved, TypeOK
  <2>5. calls' \in Nat
    BY <1>1 DEF ReturnToCall, Rewind, TypeOK
  <2>6. current' = current
    BY <1>1 DEF ReturnToCall
  <2>7. CASE (ret = "ENDED" \/ Top.ev = "EXIT") /\ Top.p \in Listed
    <3>1. EnterExit(Popped, Top.p, Top.p) /\ called' = called
      BY <1>1, <2>7 DEF ReturnToCall
    <3>2. Top.p \in Ptr
      BY <2>2 DEF Ptr
    <3>3. /\ Executes(stack', current')
          /\ marked' \in [Process -> BOOLEAN]
          /\ another' \in BOOLEAN
      BY <2>2, <2>3, <3>1, <3>2, EnterExitKeeps
    <3>4. TypeOK'
      BY <1>1, <2>4, <2>5, <3>1, <3>3, Concludes DEF ReturnToCall, TypeOK
    <3>. QED
      BY <3>3, <3>4, Concludes
  <2>8. CASE ~((ret = "ENDED" \/ Top.ev = "EXIT") /\ Top.p \in Listed)
    <3>1. /\ stack' = Popped
          /\ called' \in [Process -> BOOLEAN]
          /\ marked' = marked /\ another' = another
      BY <1>1, <2>8 DEF ReturnToCall, TypeOK
    <3>2. Executes(stack', current')
      BY <2>3, <3>1 DEF Executes
    <3>3. TypeOK'
      BY <1>1, <2>4, <2>5, <3>1, <3>2, Concludes DEF ReturnToCall, TypeOK
    <3>. QED
      BY <3>2, <3>3, Concludes
  <2>. QED
    BY <2>7, <2>8
<1>2. ASSUME NEW ret \in Result, ReturnToExit(ret) PROVE IInv'
  <2>1. stack # <<>> /\ Top.fn = "thread" /\ Top \in ThreadFrame
    BY <1>2, TopFrame, FrameKinds DEF ReturnToExit, Active
  <2>2. /\ Popped # <<>> /\ Popped \in Seq(Frame) /\ Shaped(Popped)
        /\ Popped[Len(Popped)] = Below
        /\ Below \in Frame /\ Below.fn = "exit"
        /\ Below.at = "notify" => Below.q \in Process
    <3>1. Popped # <<>>
      BY <1>2, <2>1, TopFrame, EmptySeq DEF ReturnToExit
    <3>. QED
      BY <1>2, <2>1, <3>1, TopFrame DEF ReturnToExit, Suspended, ThreadFrame
  <2>3. Below \in ExitFrame
    BY <2>2, FrameKinds
  <2>4. Executes(stack', current')
    <3>1. CASE Below.at = "notify"
      <4>. DEFINE f == [Below EXCEPT !.q = Next_(Below.q)]
      <4>1. f \in ExitFrame /\ f.fn = "exit" /\ f.old = Below.old
        BY <2>2, <2>3, <3>1, Pointers, Exitframes DEF ExitFrame
      <4>2. f \in Frame
        BY <4>1 DEF Frame
      <4>3. stack' = [Popped EXCEPT ![Len(Popped)] = f]
        BY <1>2, <2>2, <3>1 DEF ReturnToExit
      <4>. HIDE DEF f
      <4>. QED
        BY <2>2, <4>1, <4>2, <4>3, ReplaceExecutes
    <3>2. CASE Below.at # "notify"
      BY <1>2, <2>2, <3>2 DEF ReturnToExit, Executes
    <3>. QED
      BY <3>1, <3>2
  <2>5. pt' \in [Process -> {"BEGIN", "BLOCKED"}]
    BY <1>2 DEF ReturnToExit, Saved, TypeOK
  <2>6. /\ called' \in [Process -> BOOLEAN]
        /\ marked' \in [Process -> BOOLEAN]
        /\ another' \in BOOLEAN
    BY <1>2, <2>2 DEF ReturnToExit, AnswerExited, TypeOK
  <2>7. TypeOK'
    BY <1>2, <2>4, <2>5, <2>6, Concludes DEF ReturnToExit, TypeOK
  <2>. QED
    BY <2>4, <2>7, Concludes
<1>. QED
  BY <1>1, <1>2 DEF Return

\* The steps of exit_process and post_synchronous_event.
LEMMA ExitKeeps ==
    ASSUME IInv,
           \/ SyncReturn \/ ExitStop \/ ExitSkip \/ ExitNotify \/ ExitNotified
           \/ ExitUnlink \/ ExitRound \/ ExitReturn
    PROVE  IInv'
<1>. USE DEF IInv
<1>1. ASSUME SyncReturn PROVE IInv'
  <2>1. stack # <<>> /\ Top.fn = "sync" /\ Top.caller \in Ptr
    BY <1>1, TopFrame, FrameKinds DEF SyncReturn, Active, SyncFrame
  <2>2. Executes(stack', current')
    BY <1>1, <2>1, TopFrame, PopExecutes DEF SyncReturn, Popped
  <2>3. TypeOK'
    BY <1>1, <2>1, <2>2, Concludes DEF SyncReturn, TypeOK, Rewind, flags
  <2>. QED
    BY <2>2, <2>3, Concludes
<1>e. ASSUME Active("exit")
      PROVE  /\ stack # <<>> /\ Top.fn = "exit" /\ Top \in ExitFrame
             /\ Top.p \in Ptr /\ Top.q \in Ptr /\ Top.old \in Ptr
             /\ Top.at # "scan" => Top.p \in Process
             /\ Top.p # NULL => Top.p \in Process
             /\ Top.q # NULL => Top.q \in Process
  BY <1>e, TopFrame, FrameKinds DEF Active, ExitFrame, Ptr
\* Replacing the frame by another of the same activation of exit_process.
<1>w. ASSUME Active("exit"), NEW f \in ExitFrame, f.old = Top.old, NEW c
      PROVE  /\ Executes(With(f), c)
             /\ With(f) # <<>> /\ With(f)[Len(With(f))] = f
             /\ With(f) \in Seq(Frame) /\ Shaped(With(f))
  <2>1. f \in Frame /\ f.fn = "exit"
    BY DEF Frame, ExitFrame
  <2>. QED
    BY <1>e, <1>w, <2>1, TopFrame, ReplaceExecutes DEF With, Executes
<1>2. ASSUME ExitStop PROVE IInv'
  <2>. DEFINE f == [Top EXCEPT !.at = "notify", !.q = First]
  <2>1. Active("exit") /\ Top.p \in Process
    BY <1>2, <1>e DEF ExitStop, ExitAt
  <2>2. f \in ExitFrame /\ f.old = Top.old
    BY <1>e, <2>1, Pointers, Exitframes DEF ExitFrame
  <2>3. stack' = With(f)
    BY <1>2 DEF ExitStop
  <2>. HIDE DEF f
  <2>4. Executes(stack', current')
    BY <1>w, <2>1, <2>2, <2>3
  <2>5. due' \in SUBSET (Nat \X Process)
    BY <1>2, <1>e, <2>1, TopFrame, Pointers DEF ExitStop, Walk, TypeOK
  <2>6. TypeOK'
    BY <1>2, <2>4, <2>5, Concludes DEF ExitStop, TypeOK
  <2>. QED
    BY <2>4, <2>6, Concludes
<1>3. ASSUME ExitSkip PROVE IInv'
  <2>. DEFINE f == IF marked[Top.p] THEN [Top EXCEPT !.at = "unlink"]
                                    ELSE [Top EXCEPT !.p = Next_(Top.p)]
  <2>1. Active("exit") /\ Top.p \in Process /\ Top.at = "scan"
    BY <1>3, <1>e DEF ExitSkip, ExitAt
  <2>2. f \in ExitFrame /\ f.old = Top.old
    BY <1>e, <2>1, Pointers, Exitframes DEF ExitFrame
  <2>3. stack' = With(f)
    BY <1>3 DEF ExitSkip
  <2>. HIDE DEF f
  <2>4. Executes(stack', current')
    BY <1>w, <2>1, <2>2, <2>3
  <2>5. TypeOK'
    BY <1>3, <2>4, Concludes DEF ExitSkip, TypeOK, flags
  <2>. QED
    BY <2>4, <2>5, Concludes
<1>4. ASSUME ExitNotify PROVE IInv'
  <2>1. Active("exit") /\ Top.q \in Process /\ Top.at = "notify"
    BY <1>4, <1>e DEF ExitNotify, ExitAt
  <2>2. CASE Top.q # Top.p /\ running[Top.q]
    <3>. DEFINE f == [fn |-> "thread", p |-> Top.q, ev |-> "EXITED"]
    <3>1. /\ current' = Top.q /\ stack' = Append(stack, f)
          /\ called' = [called EXCEPT ![Top.q] = TRUE]
          /\ due' = due \ {<<Len(stack), Top.q>>}
      BY <1>4, <2>2 DEF ExitNotify
    <3>2. f \in Frame /\ Suspended(Top, f)
      BY <1>e, <2>1 DEF Frame, ThreadFrame, Event, Suspended
    <3>3. Executes(stack', current')
      BY <3>1, <3>2, TopFrame, PushExecutes, <2>1 DEF Active
    <3>4. TypeOK'
      BY <1>4, <2>1, <3>1, <3>3, Concludes DEF ExitNotify, TypeOK, Ptr
    <3>. QED
      BY <3>3, <3>4, Concludes
  <2>3. CASE ~(Top.q # Top.p /\ running[Top.q])
    <3>. DEFINE f == [Top EXCEPT !.q = Next_(Top.q)]
    <3>1. f \in ExitFrame /\ f.old = Top.old
      BY <1>e, <2>1, Pointers, Exitframes DEF ExitFrame
    <3>2. stack' = With(f) /\ UNCHANGED <<current, called, due>>
      BY <1>4, <2>3 DEF ExitNotify
    <3>. HIDE DEF f
    <3>3. Executes(stack', current')
      BY <1>w, <2>1, <3>1, <3>2
    <3>4. TypeOK'
      BY <1>4, <3>2, <3>3, Concludes DEF ExitNotify, TypeOK
    <3>. QED
      BY <3>3, <3>4, Concludes
  <2>. QED
    BY <2>2, <2>3
<1>5. ASSUME ExitNotified PROVE IInv'
  <2>. DEFINE f == [Top EXCEPT !.at = "unlink", !.from = NULL]
  <2>1. Active("exit") /\ Top.p \in Process /\ Top.at = "notify"
    BY <1>5, <1>e DEF ExitNotified, ExitAt
  <2>2. f \in ExitFrame /\ f.old = Top.old /\ f.fn = "exit" /\ f.at = "unlink"
    BY <1>e, <2>1, Exitframes DEF ExitFrame, Ptr
  <2>3. \/ /\ current' = Top.p
           /\ stack' = Append(With(f), [fn |-> "thread", p |-> Top.p, ev |-> "EXIT"])
        \/ stack' = With(f) /\ current' = current
    BY <1>5 DEF ExitNotified
  <2>. HIDE DEF f
  <2>4. Executes(stack', current')
    <3>. DEFINE g == [fn |-> "thread", p |-> Top.p, ev |-> "EXIT"]
    <3>1. g \in Frame /\ Suspended(f, g)
      BY <2>1, <2>2 DEF Frame, ThreadFrame, Event, Suspended
    <3>2. Executes(Append(With(f), g), Top.p)
      BY <1>w, <2>1, <2>2, <3>1, PushExecutes
    <3>. QED
      BY <1>w, <2>1, <2>2, <2>3, <3>2
  <2>5. current' \in Ptr
    BY <2>1, <2>3 DEF TypeOK, Ptr
  <2>6. TypeOK'
    BY <1>5, <2>4, <2>5, Concludes DEF ExitNotified, TypeOK, flags
  <2>. QED
    BY <2>4, <2>6, Concludes
<1>6. ASSUME ExitUnlink PROVE IInv'
  <2>. DEFINE f == [Top EXCEPT !.at = "scan", !.p = Next_(Top.p)]
  <2>1. Active("exit") /\ Top.p \in Process
    BY <1>6, <1>e DEF ExitUnlink, ExitAt
  <2>2. Next_(Top.p) \in Ptr
    BY <2>1, Pointers
  <2>3. f \in ExitFrame /\ f.old = Top.old
    BY <1>e, <2>1, <2>2, Exitframes DEF ExitFrame
  <2>4. stack' = With(f)
    BY <1>6 DEF ExitUnlink
  <2>. HIDE DEF f
  <2>5. Executes(stack', current')
    BY <1>w, <2>1, <2>3, <2>4
  <2>6. list' \in Seq(Process) /\ stale' \in [Process -> Ptr]
    BY <1>6, <2>1, <2>2, Unlinking DEF ExitUnlink, TypeOK
  <2>7. TypeOK'
    BY <1>6, <2>5, <2>6, Concludes DEF ExitUnlink, TypeOK
  <2>. QED
    BY <2>5, <2>7, Concludes
<1>7. ASSUME ExitRound PROVE IInv'
  <2>. DEFINE f == [Top EXCEPT !.p = First]
  <2>1. Active("exit") /\ Top.at = "scan"
    BY <1>7 DEF ExitRound, ExitAt
  <2>2. f \in ExitFrame /\ f.old = Top.old
    BY <1>e, <2>1, Pointers, Exitframes DEF ExitFrame
  <2>3. stack' = With(f)
    BY <1>7 DEF ExitRound
  <2>. HIDE DEF f
  <2>4. Executes(stack', current')
    BY <1>w, <2>1, <2>2, <2>3
  <2>5. TypeOK'
    BY <1>7, <2>4, Concludes DEF ExitRound, TypeOK, flags
  <2>. QED
    BY <2>4, <2>5, Concludes
<1>8. ASSUME ExitReturn PROVE IInv'
  <2>1. Active("exit") /\ current' = Top.old /\ stack' = Popped
    BY <1>8 DEF ExitReturn, ExitAt
  <2>2. Executes(stack', current')
    BY <1>e, <2>1, TopFrame, PopExecutes DEF Popped
  <2>3. TypeOK'
    BY <1>8, <1>e, <2>1, <2>2, Concludes DEF ExitReturn, TypeOK, Rewind, flags
  <2>. QED
    BY <2>2, <2>3, Concludes
<1>. QED
  BY <1>1, <1>2, <1>3, <1>4, <1>5, <1>6, <1>7, <1>8

\* The steps of process_next_event, do_event and do_poll.
LEMMA EventKeeps ==
    ASSUME IInv,
           \/ NextEvent
           \/ TakeBroadcast \/ TakeDirect \/ EventReturn
           \/ BroadcastPoll \/ BroadcastDeliver \/ BroadcastAdvance
           \/ PollDeliver \/ PollAdvance \/ PollReturn
    PROVE  IInv'
<1>. USE DEF IInv
<1>p. ASSUME NEW s \in Seq(Frame), Shaped(s), s # <<>>,
             s[Len(s)].fn = "event", EnterPoll(s)
      PROVE  /\ Executes(stack', current')
             /\ poll_requested' \in BOOLEAN
             /\ due' \in SUBSET (Nat \X Process)
  <2>. DEFINE f == [fn |-> "poll", at |-> "look", p |-> First]
  <2>1. f \in Frame
    BY Pointers DEF Frame, PollFrame
  <2>2. Suspended(s[Len(s)], f)
    BY <1>p DEF Suspended
  <2>3. Executes(Append(s, f), current')
    BY <1>p, <2>1, <2>2, PushExecutes
  <2>4. Len(s) + 1 \in Nat
    BY <1>p, LenProperties
  <2>5. Executes(stack', current') /\ poll_requested' \in BOOLEAN
    BY <1>p, <2>3 DEF EnterPoll
  <2>6. due' \in SUBSET (Nat \X Process)
    BY <1>p, <2>4, Pointers DEF EnterPoll, Walk, TypeOK
  <2>. QED
    BY <2>5, <2>6
<1>v. ASSUME stack # <<>>, Top.fn \in {"event", "poll"},
             NEW f \in Frame, f.fn = Top.fn, NEW c
      PROVE  /\ Executes(With(f), c)
             /\ With(f) # <<>> /\ With(f)[Len(With(f))] = f
             /\ With(f) \in Seq(Frame) /\ Shaped(With(f))
  BY <1>v, TopFrame, ReplaceExecutes DEF With, Executes
<1>d. ASSUME Active("event")
      PROVE  /\ stack # <<>> /\ Top.fn = "event" /\ Top \in EventFrame
             /\ Top.p \in Ptr /\ Top.ev \in Event
             /\ Top.at \in {"deliver", "advance"} => Top.p \in Process
             /\ Top.p # NULL => Top.p \in Process
  BY <1>d, TopFrame, FrameKinds DEF Active, EventFrame, Ptr
<1>l. ASSUME Active("poll")
      PROVE  /\ stack # <<>> /\ Top.fn = "poll" /\ Top \in PollFrame
             /\ Top.p \in Ptr
             /\ Top.at = "advance" => Top.p \in Process
             /\ Top.p # NULL => Top.p \in Process
  BY <1>l, TopFrame, FrameKinds DEF Active, PollFrame, Ptr
<1>h. ASSUME queue # <<>>
      PROVE  /\ Head(queue) \in [to : Ptr, ev : Posted]
             /\ Tail(queue) \in Seq([to : Ptr, ev : Posted])
             /\ Len(Tail(queue)) <= NumEvents
  <2>1. Len(queue) \in Nat /\ Len(queue) <= NumEvents
    BY LenProperties DEF TypeOK
  <2>2. queue \in Seq([to : Ptr, ev : Posted])
    BY DEF TypeOK
  <2>3. /\ Head(queue) \in [to : Ptr, ev : Posted]
        /\ Tail(queue) \in Seq([to : Ptr, ev : Posted])
        /\ Len(Tail(queue)) = Len(queue) - 1
    BY <1>h, <2>2, HeadTailProperties
  <2>. QED
    BY <2>1, <2>3
<1>1. ASSUME NextEvent PROVE IInv'
  <2>. DEFINE f == [fn |-> "event", at |-> "take", p |-> NULL, ev |-> "MSG"]
  <2>1. f \in Frame
    BY DEF Frame, EventFrame, Ptr, Event
  <2>2. <<f>> \in Seq(Frame) /\ Len(<<f>>) = 1 /\ <<f>>[1] = f /\ <<f>> # <<>>
    BY <2>1
  <2>3. Shaped(<<f>>)
    BY <2>2 DEF Shaped
  <2>4. \/ EnterPoll(<<f>>)
        \/ stack' = <<f>> /\ UNCHANGED <<poll_requested, due>>
    BY <1>1 DEF NextEvent
  <2>5. f.fn = "event"
    OBVIOUS
  <2>. HIDE DEF f
  <2>6. /\ Executes(stack', current')
        /\ poll_requested' \in BOOLEAN
        /\ due' \in SUBSET (Nat \X Process)
    <3>1. CASE EnterPoll(<<f>>)
      BY <1>p, <2>2, <2>3, <2>5, <3>1
    <3>2. CASE stack' = <<f>> /\ UNCHANGED <<poll_requested, due>>
      BY <2>2, <2>3, <2>5, <3>2 DEF Executes, TypeOK
    <3>. QED
      BY <2>4, <3>1, <3>2
  <2>7. TypeOK'
    BY <1>1, <2>6, Concludes DEF NextEvent, TypeOK, flags
  <2>. QED
    BY <2>6, <2>7, Concludes
<1>2. ASSUME TakeBroadcast PROVE IInv'
  <2>. DEFINE f == [Top EXCEPT !.at = "each", !.p = First, !.ev = Head(queue).ev]
  <2>1. Active("event") /\ Top.at = "take"
    BY <1>2 DEF TakeBroadcast, EventAt
  <2>2. f \in Frame /\ f.fn = "event"
    BY <1>2, <1>d, <1>h, <2>1, Pointers DEF TakeBroadcast, EventFrame, Frame, Event
  <2>3. stack' = With(f)
    BY <1>2 DEF TakeBroadcast
  <2>. HIDE DEF f
  <2>4. Executes(stack', current')
    BY <1>d, <1>v, <2>1, <2>2, <2>3
  <2>5. due' \in SUBSET (Nat \X Process)
    BY <1>2, <1>d, <2>1, TopFrame, Pointers DEF TakeBroadcast, Walk, TypeOK
  <2>6. TypeOK'
    BY <1>2, <1>h, <2>4, <2>5, Concludes DEF TakeBroadcast, TypeOK, flags
  <2>. QED
    BY <2>4, <2>6, Concludes
<1>3. ASSUME TakeDirect PROVE IInv'
  <2>1. Active("event") /\ Top.at = "take" /\ queue # <<>>
    BY <1>3 DEF TakeDirect, EventAt
  <2>2. PICK p \in Process, ev \in Posted : p = Head(queue).to /\ ev = Head(queue).ev
    BY <1>3, <1>h DEF TakeDirect, BROADCAST, Ptr
  <2>. DEFINE f == [Top EXCEPT !.at = "each", !.ev = ev]
  <2>3. f \in Frame /\ f.fn = "event" /\ ev \in Event
    BY <1>d, <2>1 DEF EventFrame, Frame, Event
  <2>4. /\ running' = [running EXCEPT ![p] = (ev = "INIT") \/ running[p]]
        /\ CallProcess(With(f), running'[p], p, ev)
    BY <1>3, <2>2 DEF TakeDirect
  <2>5. running' \in [Process -> BOOLEAN] /\ running'[p] \in BOOLEAN
    BY <2>4 DEF TypeOK
  <2>. HIDE DEF f
  <2>6. /\ With(f) \in Seq(Frame) /\ Shaped(With(f)) /\ With(f) # <<>>
        /\ With(f)[Len(With(f))].fn \in {"sync", "event", "poll"}
    BY <1>d, <1>v, <2>1, <2>3
  <2>7. /\ Executes(stack', current')
        /\ current' \in Ptr
        /\ called' \in [Process -> BOOLEAN]
        /\ due' \in SUBSET (Nat \X Process)
    BY <2>3, <2>4, <2>5, <2>6, CallProcessKeeps
  <2>8. TypeOK'
    BY <1>3, <1>h, <2>1, <2>5, <2>7, Concludes DEF TakeDirect, TypeOK
  <2>. QED
    BY <2>7, <2>8, Concludes
<1>4. ASSUME EventReturn PROVE IInv'
  <2>1. Active("event") /\ stack' = Popped /\ current' = current
    BY <1>4 DEF EventReturn, EventAt
  <2>2. Executes(stack', current')
    BY <1>d, <2>1, TopFrame, PopExecutes DEF Popped
  <2>3. TypeOK'
    BY <1>4, <2>2, Concludes DEF EventReturn, TypeOK, Rewind, flags
  <2>. QED
    BY <2>2, <2>3, Concludes
<1>5. ASSUME BroadcastPoll PROVE IInv'
  <2>. DEFINE f == [Top EXCEPT !.at = "deliver"]
  <2>1. Active("event") /\ Top.at = "each" /\ Top.p \in Process
    BY <1>5, <1>d DEF BroadcastPoll, EventAt
  <2>2. f \in Frame /\ f.fn = "event"
    BY <1>d, <2>1 DEF EventFrame, Frame
  <2>3. EnterPoll(With(f))
    BY <1>5 DEF BroadcastPoll
  <2>. HIDE DEF f
  <2>4. /\ With(f) \in Seq(Frame) /\ Shaped(With(f)) /\ With(f) # <<>>
        /\ With(f)[Len(With(f))].fn = "event"
    BY <1>d, <1>v, <2>1, <2>2
  <2>5. /\ Executes(stack', current')
        /\ poll_requested' \in BOOLEAN
        /\ due' \in SUBSET (Nat \X Process)
    BY <1>p, <2>3, <2>4
  <2>6. TypeOK'
    BY <1>5, <2>5, Concludes DEF BroadcastPoll, TypeOK, flags
  <2>. QED
    BY <2>5, <2>6, Concludes
<1>6. ASSUME BroadcastDeliver PROVE IInv'
  <2>. DEFINE f == [Top EXCEPT !.at = "advance"]
  <2>1. Active("event") /\ Top.p \in Process /\ Top.ev \in Event
    BY <1>6, <1>d DEF BroadcastDeliver, EventAt
  <2>2. f \in Frame /\ f.fn = "event"
    BY <1>d, <2>1 DEF EventFrame, Frame
  <2>3. CallProcess(With(f), running[Top.p], Top.p, Top.ev)
    BY <1>6 DEF BroadcastDeliver
  <2>. HIDE DEF f
  <2>4. /\ With(f) \in Seq(Frame) /\ Shaped(With(f)) /\ With(f) # <<>>
        /\ With(f)[Len(With(f))].fn \in {"sync", "event", "poll"}
    BY <1>d, <1>v, <2>1, <2>2
  <2>5. running[Top.p] \in BOOLEAN
    BY <2>1 DEF TypeOK
  <2>6. /\ Executes(stack', current')
        /\ current' \in Ptr
        /\ called' \in [Process -> BOOLEAN]
        /\ due' \in SUBSET (Nat \X Process)
    BY <2>1, <2>3, <2>4, <2>5, CallProcessKeeps
  <2>7. TypeOK'
    BY <1>6, <2>6, Concludes DEF BroadcastDeliver, TypeOK
  <2>. QED
    BY <2>6, <2>7, Concludes
<1>7. ASSUME BroadcastAdvance PROVE IInv'
  <2>. DEFINE f == [Top EXCEPT !.at = "each", !.p = Next_(Top.p)]
  <2>1. Active("event") /\ Top.p \in Process
    BY <1>7, <1>d DEF BroadcastAdvance, EventAt
  <2>2. Next_(Top.p) \in Ptr
    BY <2>1, Pointers
  <2>3. f \in Frame /\ f.fn = "event"
    BY <1>d, <2>1, <2>2 DEF EventFrame, Frame
  <2>4. stack' = With(f)
    BY <1>7 DEF BroadcastAdvance
  <2>. HIDE DEF f
  <2>5. Executes(stack', current')
    BY <1>d, <1>v, <2>1, <2>3, <2>4
  <2>6. TypeOK'
    BY <1>7, <2>5, Concludes DEF BroadcastAdvance, TypeOK, flags
  <2>. QED
    BY <2>5, <2>6, Concludes
<1>8. ASSUME PollDeliver PROVE IInv'
  <2>. DEFINE f == [Top EXCEPT !.at = "advance"]
  <2>1. Active("poll") /\ Top.p \in Process /\ "POLL" \in Event
    BY <1>8, <1>l DEF PollDeliver, PollAt, Event
  <2>2. f \in Frame /\ f.fn = "poll"
    BY <1>l, <2>1 DEF PollFrame, Frame
  <2>3. CallProcess(With(f), TRUE, Top.p, "POLL")
    BY <1>8 DEF PollDeliver
  <2>. HIDE DEF f
  <2>4. /\ With(f) \in Seq(Frame) /\ Shaped(With(f)) /\ With(f) # <<>>
        /\ With(f)[Len(With(f))].fn \in {"sync", "event", "poll"}
    BY <1>l, <1>v, <2>1, <2>2
  <2>5. /\ Executes(stack', current')
        /\ current' \in Ptr
        /\ called' \in [Process -> BOOLEAN]
        /\ due' \in SUBSET (Nat \X Process)
    BY <2>1, <2>3, <2>4, CallProcessKeeps
  <2>6. TypeOK'
    BY <1>8, <2>5, Concludes DEF PollDeliver, TypeOK
  <2>. QED
    BY <2>5, <2>6, Concludes
<1>9. ASSUME PollAdvance PROVE IInv'
  <2>. DEFINE f == [Top EXCEPT !.at = "look", !.p = Next_(Top.p)]
  <2>1. Active("poll") /\ Top.p \in Process
    BY <1>9, <1>l DEF PollAdvance, PollAt
  <2>2. Next_(Top.p) \in Ptr
    BY <2>1, Pointers
  <2>3. f \in Frame /\ f.fn = "poll"
    BY <1>l, <2>1, <2>2 DEF PollFrame, Frame
  <2>4. stack' = With(f)
    BY <1>9 DEF PollAdvance
  <2>. HIDE DEF f
  <2>5. Executes(stack', current')
    BY <1>l, <1>v, <2>1, <2>3, <2>4
  <2>6. TypeOK'
    BY <1>9, <2>5, Concludes DEF PollAdvance, TypeOK, flags
  <2>. QED
    BY <2>5, <2>6, Concludes
<1>10. ASSUME PollReturn PROVE IInv'
  <2>1. Active("poll") /\ stack' = Popped /\ current' = current
    BY <1>10 DEF PollReturn, PollAt
  <2>2. Executes(stack', current')
    BY <1>l, <2>1, TopFrame, PopExecutes DEF Popped
  <2>3. TypeOK'
    BY <1>10, <2>2, Concludes DEF PollReturn, TypeOK, flags
  <2>. QED
    BY <2>2, <2>3, Concludes
<1>. QED
  BY <1>1, <1>2, <1>3, <1>4, <1>5, <1>6, <1>7, <1>8, <1>9, <1>10

LEMMA InitializeKeeps == IInv /\ Initialize => IInv'
<1>. SUFFICES ASSUME IInv, Initialize PROVE IInv'
  OBVIOUS
<1>1. TypeOK /\ stack = <<>> /\ stack' = stack
  BY DEF IInv, Initialize, AtRest
<1>2. [p \in Process |-> Next_(p)] \in [Process -> Ptr]
  BY <1>1, Pointers
<1>3. <<>> \in Seq(Process) /\ <<>> \in Seq([to : Ptr, ev : Posted]) /\ Len(<<>>) = 0
  OBVIOUS
<1>4. TypeOK'
  BY <1>1, <1>2, <1>3 DEF Initialize, TypeOK, flags, Ptr
<1>5. StackShape' /\ CurrentIsThread'
  BY <1>1, <1>3 DEF StackShape, Shaped, CurrentIsThread, Active
<1>. QED
  BY <1>4, <1>5 DEF IInv

\* The invariant is inductive.
LEMMA NextKeeps == IInv /\ [Next]_vars => IInv'
<1>1. IInv /\ Next => IInv'
  BY CallsKeep, ReturnKeeps, ExitKeeps, EventKeeps, InitializeKeeps
     DEF Next, KernelStep
<1>2. IInv /\ UNCHANGED vars => IInv'
  BY DEF IInv, TypeOK, StackShape, Shaped, CurrentIsThread, Active, Top,
         vars, flags
<1>. QED
  BY <1>1, <1>2

\* For any number of processes, any calls and any events: the types, and with
\* them that the queue never overruns its arrays and that no walk of the list
\* dereferences a null pointer.
THEOREM TypeCorrect == Spec => []TypeOK
<1>1. IInv => TypeOK
  BY DEF IInv
<1>. QED
  BY <1>1, TypeInit, NextKeeps, PTL DEF Spec

\* get_current_process names the executing thread, whatever nests.
THEOREM CurrentCorrect == Spec => []CurrentIsThread
<1>1. IInv => CurrentIsThread
  BY DEF IInv
<1>. QED
  BY <1>1, TypeInit, NextKeeps, PTL DEF Spec

LEMMA LinkingSimple ==
    ASSUME TypeOK, ListIsSimple, NEW p \in Process, Start(p)
    PROVE  ListIsSimple'
<1>1. p \notin Listed /\ list \in Seq(Process) /\ list' = <<p>> \o list
  BY DEF Start, Started, TypeOK
<1>2. Len(list) \in Nat /\ <<p>> \in Seq(Process) /\ Len(<<p>>) = 1 /\ <<p>>[1] = p
  BY <1>1, LenProperties
<1>3. /\ Len(list') = 1 + Len(list)
      /\ \A i \in 1..Len(list') : list'[i] = IF i <= 1 THEN p ELSE list[i - 1]
  BY <1>1, <1>2
<1>4. ASSUME NEW i \in 1..Len(list'), NEW j \in 1..Len(list'), list'[i] = list'[j]
      PROVE  i = j
  <2>1. /\ i # 1 => i - 1 \in 1..Len(list) /\ list'[i] = list[i - 1]
        /\ j # 1 => j - 1 \in 1..Len(list) /\ list'[j] = list[j - 1]
        /\ i = 1 => list'[i] = p
        /\ j = 1 => list'[j] = p
    BY <1>2, <1>3
  <2>2. \A k \in 1..Len(list) : list[k] # p
    BY <1>1 DEF Listed
  <2>3. CASE i # 1 /\ j # 1
    <3>1. i - 1 = j - 1
      BY <1>4, <2>1, <2>3 DEF ListIsSimple
    <3>. QED
      BY <1>2, <1>3, <3>1
  <2>. QED
    BY <1>4, <2>1, <2>2, <2>3
<1>. QED
  BY <1>4 DEF ListIsSimple

LEMMA UnlinkingSimple ==
    ASSUME TypeOK, ListIsSimple, NEW p \in Listed, list' = Without(p)
    PROVE  ListIsSimple'
<1>1. /\ Len(list) \in Nat
      /\ Position(p) \in 1..Len(list)
  BY LenProperties DEF TypeOK, Listed, Position
<1>2. Len(list) - 1 \in Nat
  BY <1>1
<1>3. /\ Len(list') = Len(list) - 1
      /\ \A i \in 1..Len(list') :
            list'[i] = IF i < Position(p) THEN list[i] ELSE list[i + 1]
  BY <1>2 DEF Without
<1>. DEFINE From(i) == IF i < Position(p) THEN i ELSE i + 1
<1>4. \A i \in 1..Len(list') : From(i) \in 1..Len(list) /\ list'[i] = list[From(i)]
  BY <1>1, <1>3
<1>5. \A i, j \in 1..Len(list') : From(i) = From(j) => i = j
  BY <1>1, <1>3
<1>. QED
  BY <1>4, <1>5 DEF ListIsSimple

\* Nothing ever links a block that is on the list, whatever the order in which
\* processes start, exit and start again in the threads that do either: the
\* list never gets a cycle, which the kernel's loops would not leave.
THEOREM ListIsSimpleCorrect == Spec => []ListIsSimple
<1>1. Init => ListIsSimple
  BY DEF Init, ListIsSimple
<1>2. IInv /\ ListIsSimple /\ [Next]_vars => ListIsSimple'
  <2>. SUFFICES ASSUME IInv, ListIsSimple, [Next]_vars PROVE ListIsSimple'
    OBVIOUS
  <2>0. TypeOK
    BY DEF IInv
  <2>1. CASE \E p \in Process : Start(p)
    BY <2>0, <2>1, LinkingSimple
  <2>2. CASE ExitUnlink
    <3>1. \/ Top.p \in Listed /\ list' = Without(Top.p)
          \/ list' = list
      BY <2>2 DEF ExitUnlink
    <3>. QED
      BY <2>0, <3>1, UnlinkingSimple DEF ListIsSimple
  <2>3. CASE Initialize
    BY <2>3 DEF Initialize, ListIsSimple
  <2>4. CASE list' = list
    BY <2>4 DEF ListIsSimple
  <2>5. ASSUME AppCall PROVE (\E p \in Process : Start(p)) \/ list' = list
    BY <2>5 DEF AppCall, Exit, Poll, Post, PostSync
  <2>6. ASSUME Return PROVE list' = list
    BY <2>6 DEF Return, ReturnToCall, ReturnToExit
  <2>7. ASSUME KernelStep PROVE ExitUnlink \/ list' = list
    BY <2>7 DEF KernelStep, SyncReturn, ExitStop, ExitSkip, ExitNotify,
         ExitNotified, ExitRound, ExitReturn, TakeBroadcast, TakeDirect,
         EventReturn, BroadcastPoll, BroadcastDeliver, BroadcastAdvance,
         PollDeliver, PollAdvance, PollReturn
  <2>8. ASSUME NextEvent \/ UNCHANGED vars PROVE list' = list
    BY <2>8 DEF NextEvent, vars
  <2>. QED
    BY <2>1, <2>2, <2>3, <2>4, <2>5, <2>6, <2>7, <2>8 DEF Next
<1>. QED
  BY <1>1, <1>2, TypeInit, NextKeeps, PTL DEF Spec
-----------------------------------------------------------------------------
(***************************************************************************)
(* The list as an order: what comes after a block, and what a walk that    *)
(* has come to a block has still ahead of it.                              *)
(***************************************************************************)
Before(p, q) == \E i, j \in 1..Len(list) : i < j /\ list[i] = p /\ list[j] = q

\* Nothing is ahead of a walk that has left the list.
Ahead(c) == {q \in Listed : c \in Listed /\ (c = q \/ Before(c, q))}

LEMMA ListOrder ==
    ASSUME TypeOK, ListIsSimple
    PROVE  /\ \A p, q \in Listed : p = q \/ Before(p, q) \/ Before(q, p)
           /\ \A p, q \in Process : Before(p, q) => p \in Listed /\ q \in Listed /\ p # q
           /\ \A p, q, r \in Process : Before(p, q) /\ Before(q, r) => Before(p, r)
<1>1. Len(list) \in Nat
  BY LenProperties DEF TypeOK
<1>2. \A p, q \in Listed : p = q \/ Before(p, q) \/ Before(q, p)
  <2>. SUFFICES ASSUME NEW i \in 1..Len(list), NEW j \in 1..Len(list)
                PROVE  \/ list[i] = list[j]
                       \/ Before(list[i], list[j]) \/ Before(list[j], list[i])
    BY DEF Listed
  <2>1. i = j \/ i < j \/ j < i
    BY <1>1
  <2>. QED
    BY <2>1 DEF Before
<1>3. ASSUME NEW p \in Process, NEW q \in Process, Before(p, q)
      PROVE  p \in Listed /\ q \in Listed /\ p # q
  <2>1. PICK i \in 1..Len(list), j \in 1..Len(list) : i < j /\ list[i] = p /\ list[j] = q
    BY <1>3 DEF Before
  <2>2. i # j
    BY <1>1, <2>1
  <2>. QED
    BY <2>1, <2>2 DEF Listed, ListIsSimple
<1>4. ASSUME NEW p \in Process, NEW q \in Process, NEW r \in Process,
             Before(p, q), Before(q, r)
      PROVE  Before(p, r)
  <2>1. PICK i \in 1..Len(list), j \in 1..Len(list) : i < j /\ list[i] = p /\ list[j] = q
    BY <1>4 DEF Before
  <2>2. PICK k \in 1..Len(list), l \in 1..Len(list) : k < l /\ list[k] = q /\ list[l] = r
    BY <1>4 DEF Before
  <2>3. j = k
    BY <2>1, <2>2 DEF ListIsSimple
  <2>4. i < l
    BY <1>1, <2>1, <2>2, <2>3
  <2>. QED
    BY <2>1, <2>2, <2>4 DEF Before
<1>. QED
  BY <1>2, <1>3, <1>4

\* p->next of a listed block, and the head of the list.
LEMMA NextInOrder ==
    ASSUME TypeOK, ListIsSimple
    PROVE  /\ \A p \in Listed : /\ Next_(p) # NULL => Before(p, Next_(p))
                                /\ \A q \in Listed : Before(p, q) =>
                                      /\ Next_(p) # NULL
                                      /\ q = Next_(p) \/ Before(Next_(p), q)
           /\ \A q \in Listed : /\ First \in Listed
                                /\ q = First \/ Before(First, q)
<1>1. /\ Len(list) \in Nat
      /\ \A i \in 1..Len(list) : list[i] \in Process
      /\ list # <<>> <=> Len(list) # 0
  BY ElementOfSeq, EmptySeq, LenProperties DEF TypeOK
<1>2. ASSUME NEW p \in Listed
      PROVE  /\ Next_(p) # NULL => Before(p, Next_(p))
             /\ \A q \in Listed : Before(p, q) =>
                   /\ Next_(p) # NULL
                   /\ q = Next_(p) \/ Before(Next_(p), q)
  <2>1. PICK n \in 1..Len(list) : n = Position(p) /\ list[n] = p
    BY DEF Listed, Position
  <2>2. CASE n = Len(list)
    <3>1. Next_(p) = NULL
      BY <2>1, <2>2 DEF Next_
    <3>2. ASSUME NEW q \in Listed, Before(p, q) PROVE FALSE
      <4>1. PICK i \in 1..Len(list), j \in 1..Len(list) : i < j /\ list[i] = p /\ list[j] = q
        BY <3>2 DEF Before
      <4>2. i = n
        BY <2>1, <4>1 DEF ListIsSimple
      <4>. QED
        BY <1>1, <2>2, <4>1, <4>2
    <3>. QED
      BY <3>1, <3>2
  <2>3. CASE n # Len(list)
    <3>1. Next_(p) = list[n + 1] /\ n + 1 \in 1..Len(list) /\ n < n + 1
      BY <1>1, <2>1, <2>3 DEF Next_
    <3>2. Next_(p) # NULL /\ Before(p, Next_(p))
      BY <1>1, <2>1, <3>1 DEF Before
    <3>3. ASSUME NEW q \in Listed, Before(p, q)
          PROVE  q = Next_(p) \/ Before(Next_(p), q)
      <4>1. PICK i \in 1..Len(list), j \in 1..Len(list) : i < j /\ list[i] = p /\ list[j] = q
        BY <3>3 DEF Before
      <4>2. i = n
        BY <2>1, <4>1 DEF ListIsSimple
      <4>3. j = n + 1 \/ n + 1 < j
        BY <1>1, <4>1, <4>2
      <4>. QED
        BY <3>1, <4>1, <4>3 DEF Before
    <3>. QED
      BY <3>2, <3>3
  <2>. QED
    BY <2>2, <2>3
<1>3. ASSUME NEW q \in Listed PROVE First \in Listed /\ (q = First \/ Before(First, q))
  <2>1. PICK j \in 1..Len(list) : list[j] = q
    BY DEF Listed
  <2>2. 1 \in 1..Len(list) /\ First = list[1] /\ (j = 1 \/ 1 < j)
    BY <1>1, <2>1 DEF First
  <2>. QED
    BY <2>1, <2>2 DEF Before, Listed
<1>. QED
  BY <1>2, <1>3

\* Linking y at the head leaves the order of the others.
LEMMA OrderLinked ==
    ASSUME TypeOK, ListIsSimple, NEW y \in Process, Start(y)
    PROVE  /\ y \notin Listed /\ Listed' = Listed \cup {y}
           /\ \A p, q \in Listed : Before(p, q)' <=> Before(p, q)
           /\ \A q \in Listed : Before(y, q)'
<1>1. y \notin Listed /\ list \in Seq(Process) /\ list' = <<y>> \o list
  BY DEF Start, Started, TypeOK
<1>2. Len(list) \in Nat /\ <<y>> \in Seq(Process) /\ Len(<<y>>) = 1 /\ <<y>>[1] = y
  BY <1>1, LenProperties
<1>3. /\ Len(list') = 1 + Len(list)
      /\ \A i \in 1..Len(list') : list'[i] = IF i <= 1 THEN y ELSE list[i - 1]
  BY <1>1, <1>2
<1>4. \A i \in 1..Len(list) : i + 1 \in 1..Len(list') /\ list'[i + 1] = list[i]
  BY <1>2, <1>3
<1>5. \A i \in 1..Len(list') : \/ i = 1 /\ list'[i] = y
                               \/ i - 1 \in 1..Len(list) /\ list'[i] = list[i - 1]
  BY <1>2, <1>3
<1>6. 1 \in 1..Len(list') /\ list'[1] = y
  BY <1>2, <1>3
<1>7. Listed' = Listed \cup {y}
  BY <1>4, <1>5, <1>6 DEF Listed
<1>8. ASSUME NEW q \in Listed PROVE Before(y, q)'
  <2>1. PICK j \in 1..Len(list) : list[j] = q
    BY DEF Listed
  <2>2. 1 < j + 1 /\ j + 1 \in 1..Len(list') /\ list'[j + 1] = q
    BY <1>2, <1>4, <2>1
  <2>. QED
    BY <1>6, <2>2 DEF Before
<1>9. ASSUME NEW p \in Listed, NEW q \in Listed, Before(p, q) PROVE Before(p, q)'
  <2>1. PICK i \in 1..Len(list), j \in 1..Len(list) : i < j /\ list[i] = p /\ list[j] = q
    BY <1>9 DEF Before
  <2>2. i + 1 < j + 1
    BY <1>2, <2>1
  <2>. QED
    BY <1>4, <2>1, <2>2 DEF Before
<1>10. ASSUME NEW p \in Listed, NEW q \in Listed, Before(p, q)' PROVE Before(p, q)
  <2>1. PICK i \in 1..Len(list'), j \in 1..Len(list') : i < j /\ list'[i] = p /\ list'[j] = q
    BY <1>10 DEF Before
  <2>2. i - 1 \in 1..Len(list) /\ j - 1 \in 1..Len(list)
        /\ list[i - 1] = p /\ list[j - 1] = q
    BY <1>1, <1>5, <2>1
  <2>3. i - 1 < j - 1
    BY <1>3, <2>1
  <2>. QED
    BY <2>2, <2>3 DEF Before
<1>. QED
  BY <1>1, <1>7, <1>8, <1>9, <1>10

\* So does unlinking y.
LEMMA OrderUnlinked ==
    ASSUME TypeOK, ListIsSimple, NEW y \in Listed, list' = Without(y)
    PROVE  /\ Listed' = Listed \ {y}
           /\ \A p, q \in Listed \ {y} : Before(p, q)' <=> Before(p, q)
<1>1. PICK n \in 1..Len(list) : n = Position(y) /\ list[n] = y
  BY DEF Listed, Position
<1>2. Len(list) \in Nat /\ Len(list) - 1 \in Nat
  BY <1>1, LenProperties DEF TypeOK
<1>3. /\ Len(list') = Len(list) - 1
      /\ \A i \in 1..Len(list') : list'[i] = IF i < n THEN list[i] ELSE list[i + 1]
  BY <1>1, <1>2 DEF Without
\* From says where an element comes from, To where it goes.
<1>. DEFINE From(i) == IF i < n THEN i ELSE i + 1
            To(i)   == IF i < n THEN i ELSE i - 1
<1>4. \A i \in 1..Len(list') : /\ From(i) \in 1..Len(list) /\ From(i) # n
                               /\ list'[i] = list[From(i)]
  BY <1>2, <1>3
<1>5. \A i, j \in 1..Len(list') : i < j => From(i) < From(j)
  BY <1>2, <1>3
<1>6. \A i \in 1..Len(list) : i # n => /\ To(i) \in 1..Len(list')
                                       /\ list'[To(i)] = list[i]
  <2>1. ASSUME NEW i \in 1..Len(list), i # n
        PROVE  To(i) \in 1..Len(list') /\ From(To(i)) = i
    BY <1>2, <1>3, <2>1
  <2>. QED
    BY <1>4, <2>1
<1>7. \A i, j \in 1..Len(list) : i < j /\ i # n /\ j # n => To(i) < To(j)
  BY <1>2, <1>3
<1>8. \A i \in 1..Len(list) : list[i] = y => i = n
  BY <1>1 DEF ListIsSimple
<1>. HIDE DEF From, To
<1>9. Listed' = Listed \ {y}
  <2>1. ASSUME NEW x \in Listed' PROVE x \in Listed \ {y}
    BY <1>4, <1>8 DEF Listed
  <2>2. ASSUME NEW x \in Listed \ {y} PROVE x \in Listed'
    BY <1>1, <1>6 DEF Listed
  <2>. QED
    BY <2>1, <2>2
<1>10. ASSUME NEW p \in Listed \ {y}, NEW q \in Listed \ {y}, Before(p, q)'
       PROVE  Before(p, q)
  <2>1. PICK i \in 1..Len(list'), j \in 1..Len(list') : i < j /\ list'[i] = p /\ list'[j] = q
    BY <1>10 DEF Before
  <2>. QED
    BY <1>4, <1>5, <2>1 DEF Before
<1>11. ASSUME NEW p \in Listed \ {y}, NEW q \in Listed \ {y}, Before(p, q)
       PROVE  Before(p, q)'
  <2>1. PICK i \in 1..Len(list), j \in 1..Len(list) : i < j /\ list[i] = p /\ list[j] = q
    BY <1>11 DEF Before
  <2>2. i # n /\ j # n
    BY <1>1, <2>1
  <2>. QED
    BY <1>6, <1>7, <2>1, <2>2 DEF Before
<1>. QED
  BY <1>9, <1>10, <1>11
-----------------------------------------------------------------------------
(***************************************************************************)
(* What a step does to the stack, frame by frame.                          *)
(***************************************************************************)
Upto(k) == \A i \in 1..k : stack'[i] = stack[i]

Pushed(f)       == /\ Len(stack') = Len(stack) + 1 /\ Upto(Len(stack))
                   /\ stack'[Len(stack) + 1] = f
PushedTwo(f, g) == /\ Len(stack') = Len(stack) + 2 /\ Upto(Len(stack))
                   /\ stack'[Len(stack) + 1] = f /\ stack'[Len(stack) + 2] = g
PoppedOne       == Len(stack') = Len(stack) - 1 /\ Upto(Len(stack) - 1)
Turned(f)       == /\ Len(stack') = Len(stack) /\ Upto(Len(stack) - 1)
                   /\ stack'[Len(stack)] = f
TurnedPushed(f, g) == /\ Len(stack') = Len(stack) + 1 /\ Upto(Len(stack) - 1)
                      /\ stack'[Len(stack)] = f /\ stack'[Len(stack) + 1] = g
PoppedTurned(f) == /\ Len(stack') = Len(stack) - 1 /\ Upto(Len(stack) - 2)
                   /\ stack'[Len(stack) - 1] = f

LEMMA Appended ==
    ASSUME NEW S, NEW s \in Seq(S), NEW f
    PROVE  /\ Append(s, f) \in Seq(S \cup {f})
           /\ Len(Append(s, f)) = Len(s) + 1
           /\ \A i \in 1..Len(s) : Append(s, f)[i] = s[i]
           /\ Append(s, f)[Len(s) + 1] = f
<1>1. s \in Seq(S \cup {f})
  OBVIOUS
<1>. QED
  BY <1>1, AppendProperties

LEMMA Replaced ==
    ASSUME NEW S, NEW s \in Seq(S), Len(s) # 0, NEW f
    PROVE  /\ [s EXCEPT ![Len(s)] = f] \in Seq(S \cup {f})
           /\ Len([s EXCEPT ![Len(s)] = f]) = Len(s)
           /\ \A i \in 1..(Len(s) - 1) : [s EXCEPT ![Len(s)] = f][i] = s[i]
           /\ [s EXCEPT ![Len(s)] = f][Len(s)] = f
<1>1. s \in Seq(S \cup {f}) /\ Len(s) \in Nat /\ Len(s) \in 1..Len(s)
  BY LenProperties
<1>. QED
  BY <1>1, ExceptSeq

LEMMA StackMoves ==
    ASSUME stack \in Seq(Frame)
    PROVE  /\ Len(stack) \in Nat
           /\ \A f : stack' = Append(stack, f) => Pushed(f)
           /\ \A f, g : stack' = Append(Append(stack, f), g) => PushedTwo(f, g)
<1>1. Len(stack) \in Nat
  BY LenProperties
<1>2. ASSUME NEW f, stack' = Append(stack, f) PROVE Pushed(f)
  BY <1>2, Appended DEF Pushed, Upto
<1>3. ASSUME NEW f, NEW g, stack' = Append(Append(stack, f), g) PROVE PushedTwo(f, g)
  <2>. DEFINE s == Append(stack, f)
  <2>1. /\ s \in Seq(Frame \cup {f}) /\ Len(s) = Len(stack) + 1
        /\ \A i \in 1..Len(stack) : s[i] = stack[i]
        /\ s[Len(stack) + 1] = f
    BY Appended
  <2>. HIDE DEF s
  <2>2. /\ Len(stack') = Len(s) + 1
        /\ \A i \in 1..Len(s) : stack'[i] = s[i]
        /\ stack'[Len(s) + 1] = g
    BY <1>3, <2>1, Appended DEF s
  <2>3. Len(s) + 1 = Len(stack) + 2 /\ Len(stack) + 1 \in 1..Len(s)
    BY <1>1, <2>1
  <2>4. \A i \in 1..Len(stack) : i \in 1..Len(s)
    BY <1>1, <2>1
  <2>. QED
    BY <2>1, <2>2, <2>3, <2>4 DEF PushedTwo, Upto
<1>. QED
  BY <1>1, <1>2, <1>3

LEMMA TopMoves ==
    ASSUME stack \in Seq(Frame), stack # <<>>
    PROVE  /\ Len(stack) \in Nat \ {0}
           /\ stack' = Popped => PoppedOne
           /\ \A f : stack' = With(f) => Turned(f)
           /\ \A f : stack' = Append(Popped, f) => Turned(f)
           /\ \A f, g : stack' = Append(With(f), g) => TurnedPushed(f, g)
           /\ \A f : Len(stack) > 1 /\ stack' = [Popped EXCEPT ![Len(Popped)] = f]
                        => PoppedTurned(f)
<1>1. /\ Len(stack) \in Nat \ {0}
      /\ Popped \in Seq(Frame)
      /\ Len(Popped) = Len(stack) - 1
      /\ \A i \in 1..(Len(stack) - 1) : Popped[i] = stack[i]
  BY StackFacts DEF Popped
<1>2. ASSUME NEW f PROVE /\ With(f) \in Seq(Frame \cup {f})
                         /\ Len(With(f)) = Len(stack)
                         /\ \A i \in 1..(Len(stack) - 1) : With(f)[i] = stack[i]
                         /\ With(f)[Len(stack)] = f
  BY <1>1, Replaced DEF With
<1>3. ASSUME NEW f, stack' = Append(Popped, f) PROVE Turned(f)
  <2>1. Len(Popped) + 1 = Len(stack)
    BY <1>1
  <2>. QED
    BY <1>1, <1>3, <2>1, Appended DEF Turned, Upto
<1>4. ASSUME NEW f, NEW g, stack' = Append(With(f), g) PROVE TurnedPushed(f, g)
  <2>. DEFINE s == With(f)
  <2>. HIDE DEF s
  <2>1. /\ s \in Seq(Frame \cup {f}) /\ Len(s) = Len(stack)
        /\ \A i \in 1..(Len(stack) - 1) : s[i] = stack[i]
        /\ s[Len(stack)] = f
    BY <1>2 DEF s
  <2>2. /\ Len(stack') = Len(s) + 1
        /\ \A i \in 1..Len(s) : stack'[i] = s[i]
        /\ stack'[Len(s) + 1] = g
    BY <1>4, <2>1, Appended DEF s
  <2>3. Len(stack) \in 1..Len(s) /\ \A i \in 1..(Len(stack) - 1) : i \in 1..Len(s)
    BY <1>1, <2>1
  <2>. QED
    BY <2>1, <2>2, <2>3 DEF TurnedPushed, Upto
<1>5. ASSUME NEW f, Len(stack) > 1, stack' = [Popped EXCEPT ![Len(Popped)] = f]
      PROVE  PoppedTurned(f)
  <2>1. Len(Popped) # 0 /\ Len(Popped) - 1 = Len(stack) - 2
    BY <1>1, <1>5
  <2>2. /\ Len(stack') = Len(Popped)
        /\ \A i \in 1..(Len(Popped) - 1) : stack'[i] = Popped[i]
        /\ stack'[Len(Popped)] = f
    BY <1>1, <1>5, <2>1, Replaced
  <2>3. \A i \in 1..(Len(stack) - 2) : i \in 1..(Len(stack) - 1)
    BY <1>1
  <2>. QED
    BY <1>1, <2>1, <2>2, <2>3 DEF PoppedTurned, Upto
<1>6. stack' = Popped => PoppedOne
  BY <1>1 DEF PoppedOne, Upto
<1>7. ASSUME NEW f, stack' = With(f) PROVE Turned(f)
  BY <1>2, <1>7 DEF Turned, Upto
<1>. QED
  BY <1>1, <1>3, <1>4, <1>5, <1>6, <1>7
\* The fields of a frame that has been updated.
LEMMA ExitUpdates ==
    ASSUME NEW f \in ExitFrame, NEW x
    PROVE  /\ LET g == [f EXCEPT !.at = "notify", !.q = x]
              IN  g.fn = "exit" /\ g.at = "notify" /\ g.p = f.p /\ g.q = x
           /\ LET g == [f EXCEPT !.at = "unlink"]
              IN  g.fn = "exit" /\ g.at = "unlink" /\ g.p = f.p
           /\ LET g == [f EXCEPT !.at = "unlink", !.from = NULL]
              IN  g.fn = "exit" /\ g.at = "unlink" /\ g.p = f.p
           /\ LET g == [f EXCEPT !.at = "scan", !.p = x]
              IN  g.fn = "exit" /\ g.at = "scan" /\ g.p = x
           /\ LET g == [f EXCEPT !.p = x]
              IN  g.fn = "exit" /\ g.at = f.at /\ g.p = x
           /\ LET g == [f EXCEPT !.q = x]
              IN  g.fn = "exit" /\ g.at = f.at /\ g.p = f.p /\ g.q = x
  BY DEF ExitFrame

LEMMA EventUpdates ==
    ASSUME NEW f \in EventFrame, NEW x, NEW y
    PROVE  /\ LET g == [f EXCEPT !.at = "each", !.p = x, !.ev = y]
              IN  g.fn = "event" /\ g.at = "each" /\ g.p = x
           /\ LET g == [f EXCEPT !.at = "each", !.ev = y]
              IN  g.fn = "event" /\ g.at = "each" /\ g.p = f.p
           /\ LET g == [f EXCEPT !.at = "deliver"]
              IN  g.fn = "event" /\ g.at = "deliver" /\ g.p = f.p
           /\ LET g == [f EXCEPT !.at = "advance"]
              IN  g.fn = "event" /\ g.at = "advance" /\ g.p = f.p
           /\ LET g == [f EXCEPT !.at = "each", !.p = x]
              IN  g.fn = "event" /\ g.at = "each" /\ g.p = x
  BY DEF EventFrame

LEMMA PollUpdates ==
    ASSUME NEW f \in PollFrame, NEW x
    PROVE  /\ LET g == [f EXCEPT !.at = "advance"]
              IN  g.fn = "poll" /\ g.at = "advance" /\ g.p = f.p
           /\ LET g == [f EXCEPT !.at = "look", !.p = x]
              IN  g.fn = "poll" /\ g.at = "look" /\ g.p = x
  BY DEF PollFrame

\* The frames of the activations that a step begins.
IsThread(f, p)   == f.fn = "thread" /\ f.p = p
IsScan(f, p)     == f.fn = "exit" /\ f.at = "scan" /\ f.p = p
IsNotify(f, p, q) == f.fn = "exit" /\ f.at = "notify" /\ f.p = p /\ f.q = q
IsUnlink(f, p)   == f.fn = "exit" /\ f.at = "unlink" /\ f.p = p
IsEvent(f, at, p) == f.fn = "event" /\ f.at = at /\ f.p = p
IsPoll(f, at, p) == f.fn = "poll" /\ f.at = at /\ f.p = p

LEMMA CallMoves ==
    ASSUME IInv
    PROVE  /\ \A p \in Process : Start(p) =>
                \E f, g : PushedTwo(f, g) /\ f.fn = "sync" /\ IsThread(g, p)
           /\ \A p \in Process, ev \in Posted : PostSync(p, ev) =>
                \E f, g : PushedTwo(f, g) /\ f.fn = "sync" /\ IsThread(g, p)
           /\ \A p \in Process : Exit(p) =>
                \E f : Pushed(f) /\ IsScan(f, First)
<1>0. stack \in Seq(Frame)
  BY DEF IInv, TypeOK
<1>1. ASSUME NEW p \in Process, Start(p)
      PROVE  \E f, g : PushedTwo(f, g) /\ f.fn = "sync" /\ IsThread(g, p)
  <2>. DEFINE f == [fn |-> "sync", caller |-> current]
              g == [fn |-> "thread", p |-> p, ev |-> "INIT"]
  <2>1. f \in Frame /\ g \in Frame
    BY DEF IInv, Frame, SyncFrame, ThreadFrame, Event, TypeOK
  <2>2. f.fn = "sync" /\ IsThread(g, p)
    BY DEF IsThread
  <2>3. stack' = stack \o <<f, g>>
    BY <1>1 DEF Start
  <2>. HIDE DEF f, g
  <2>4. stack \o <<f, g>> = Append(Append(stack, f), g)
    BY <1>0, <2>1
  <2>. QED
    BY <1>0, <2>2, <2>3, <2>4, StackMoves
<1>2. ASSUME NEW p \in Process, NEW ev \in Posted, PostSync(p, ev)
      PROVE  \E f, g : PushedTwo(f, g) /\ f.fn = "sync" /\ IsThread(g, p)
  <2>. DEFINE f == [fn |-> "sync", caller |-> current]
              g == [fn |-> "thread", p |-> p, ev |-> ev]
  <2>1. f.fn = "sync" /\ IsThread(g, p)
    BY DEF IsThread
  <2>2. stack' = Append(Append(stack, f), g)
    BY <1>2 DEF PostSync, CallProcess
  <2>. HIDE DEF f, g
  <2>. QED
    BY <1>0, <2>1, <2>2, StackMoves
<1>3. ASSUME NEW p \in Process, Exit(p) PROVE \E f : Pushed(f) /\ IsScan(f, First)
  <2>. DEFINE f == [fn |-> "exit", at |-> "scan", p |-> First, q |-> NULL,
                    from |-> current, old |-> current]
  <2>1. IsScan(f, First)
    BY DEF IsScan
  <2>2. stack' = Append(stack, f)
    BY <1>3 DEF Exit, EnterExit
  <2>. HIDE DEF f
  <2>. QED
    BY <1>0, <2>1, <2>2, StackMoves
<1>. QED
  BY <1>1, <1>2, <1>3

\* A thread that returns, to call_process or to exit_process.
LEMMA ReturnMoves ==
    ASSUME IInv, NEW ret \in Result
    PROVE  /\ ReturnToCall(ret) =>
                /\ stack # <<>> /\ Top.fn = "thread" /\ Top.p \in Process
                /\ Len(stack) > 1 => Below.fn # "exit"
                /\ \/ /\ \E f : Turned(f) /\ IsScan(f, First)
                      /\ marked' = [marked EXCEPT ![Top.p] = TRUE]
                      /\ another' = FALSE /\ called' = called
                   \/ /\ PoppedOne /\ UNCHANGED <<marked, another, called>>
                      /\ Top.p \notin Listed
                   \/ /\ PoppedOne /\ UNCHANGED <<marked, another>>
                      /\ called' = [called EXCEPT ![Top.p] = FALSE]
           /\ ReturnToExit(ret) =>
                /\ stack # <<>> /\ Top.fn = "thread" /\ Top.p \in Process
                /\ Len(stack) > 1 /\ Below.fn = "exit"
                /\ \/ /\ Below.at = "notify" /\ Top.p = Below.q
                      /\ \E f : /\ PoppedTurned(f)
                                /\ IsNotify(f, Below.p, Next_(Below.q))
                      /\ AnswerExited(Top.p, ret)
                   \/ /\ Below.at = "unlink"
                      /\ PoppedOne /\ UNCHANGED <<called, marked, another>>
<1>1. ASSUME ReturnToCall(ret)
      PROVE  /\ stack # <<>> /\ Top.fn = "thread" /\ Top.p \in Process
             /\ Len(stack) > 1 => Below.fn # "exit"
             /\ \/ /\ \E f : Turned(f) /\ IsScan(f, First)
                   /\ marked' = [marked EXCEPT ![Top.p] = TRUE]
                   /\ another' = FALSE /\ called' = called
                \/ /\ PoppedOne /\ UNCHANGED <<marked, another, called>>
                   /\ Top.p \notin Listed
                \/ /\ PoppedOne /\ UNCHANGED <<marked, another>>
                   /\ called' = [called EXCEPT ![Top.p] = FALSE]
  <2>1. /\ stack # <<>> /\ Top.fn = "thread" /\ Top \in ThreadFrame
        /\ stack \in Seq(Frame)
    BY <1>1, TopFrame, FrameKinds DEF ReturnToCall, Active
  <2>2. Top.p \in Process /\ (Len(stack) > 1 => Below.fn # "exit")
    BY <1>1, <2>1, TopFrame DEF ReturnToCall, ThreadFrame
  <2>3. CASE (ret = "ENDED" \/ Top.ev = "EXIT") /\ Top.p \in Listed
    <3>. DEFINE f == [fn |-> "exit", at |-> "scan", p |-> First, q |-> NULL,
                      from |-> Top.p, old |-> current]
    <3>1. IsScan(f, First)
      BY DEF IsScan
    <3>2. /\ stack' = Append(Popped, f)
          /\ marked' = [marked EXCEPT ![Top.p] = TRUE]
          /\ another' = FALSE /\ called' = called
      BY <1>1, <2>3 DEF ReturnToCall, EnterExit
    <3>. HIDE DEF f
    <3>3. Turned(f)
      BY <2>1, <3>2, TopMoves
    <3>. QED
      BY <2>1, <2>2, <3>1, <3>2, <3>3
  <2>4. CASE (ret = "ENDED" \/ Top.ev = "EXIT") /\ Top.p \notin Listed
    <3>1. stack' = Popped /\ UNCHANGED <<marked, another, called>>
      BY <1>1, <2>4 DEF ReturnToCall
    <3>. QED
      BY <2>1, <2>2, <2>4, <3>1, TopMoves
  <2>5. CASE ~(ret = "ENDED" \/ Top.ev = "EXIT")
    <3>1. /\ stack' = Popped /\ UNCHANGED <<marked, another>>
          /\ called' = [called EXCEPT ![Top.p] = FALSE]
      BY <1>1, <2>5 DEF ReturnToCall
    <3>. QED
      BY <2>1, <2>2, <3>1, TopMoves
  <2>. QED
    BY <2>3, <2>4, <2>5
<1>2. ASSUME ReturnToExit(ret)
      PROVE  /\ stack # <<>> /\ Top.fn = "thread" /\ Top.p \in Process
             /\ Len(stack) > 1 /\ Below.fn = "exit"
             /\ \/ /\ Below.at = "notify" /\ Top.p = Below.q
                   /\ \E f : /\ PoppedTurned(f)
                             /\ IsNotify(f, Below.p, Next_(Below.q))
                   /\ AnswerExited(Top.p, ret)
                \/ /\ Below.at = "unlink"
                   /\ PoppedOne /\ UNCHANGED <<called, marked, another>>
  <2>1. /\ stack # <<>> /\ Top.fn = "thread" /\ Top \in ThreadFrame
        /\ stack \in Seq(Frame)
        /\ Len(stack) > 1 /\ Below.fn = "exit"
    BY <1>2, TopFrame, FrameKinds DEF ReturnToExit, Active
  <2>2. /\ Popped # <<>> /\ Popped[Len(Popped)] = Below
        /\ Below \in Frame /\ Suspended(Below, Top)
    <3>1. Popped # <<>>
      BY <2>1, TopFrame, EmptySeq
    <3>. QED
      BY <2>1, <3>1, TopFrame
  <2>3. /\ Below \in ExitFrame /\ Top.p \in Process
        /\ Below.at \in {"notify", "unlink"}
        /\ Below.at = "notify" => Top.p = Below.q
    <3>1. Below \in ExitFrame
      BY <2>1, <2>2, FrameKinds
    <3>. QED
      BY <2>1, <2>2, <3>1 DEF Suspended, ExitFrame, ThreadFrame
  <2>4. CASE Below.at = "notify"
    <3>. DEFINE f == [Below EXCEPT !.q = Next_(Below.q)]
    <3>1. IsNotify(f, Below.p, Next_(Below.q))
      BY <2>3, <2>4, ExitUpdates DEF IsNotify
    <3>2. stack' = [Popped EXCEPT ![Len(Popped)] = f]
      BY <1>2, <2>2, <2>4 DEF ReturnToExit
    <3>. HIDE DEF f
    <3>3. PoppedTurned(f)
      BY <2>1, <3>2, TopMoves
    <3>4. AnswerExited(Top.p, ret)
      BY <1>2, <2>3, <2>4 DEF ReturnToExit
    <3>. QED
      BY <2>1, <2>3, <2>4, <3>1, <3>3, <3>4
  <2>5. CASE Below.at = "unlink"
    <3>1. stack' = Popped /\ UNCHANGED <<called, marked, another>>
      BY <1>2, <2>5 DEF ReturnToExit
    <3>. QED
      BY <2>1, <2>3, <2>5, <3>1, TopMoves
  <2>. QED
    BY <2>3, <2>4, <2>5
<1>. QED
  BY <1>1, <1>2
\* The steps of exit_process, whose frame is on top.
LEMMA ExitMoves ==
    ASSUME IInv
    PROVE  /\ SyncReturn => stack # <<>> /\ Top.fn = "sync" /\ PoppedOne
           /\ Active("exit") => /\ stack # <<>> /\ Top.fn = "exit"
                                /\ Top.p \in Ptr /\ Top.q \in Ptr
                                /\ Top.at # "scan" => Top.p \in Process
           /\ ExitStop => \E f : Turned(f) /\ IsNotify(f, Top.p, First)
           /\ ExitSkip => \E f : /\ Turned(f)
                                 /\ IF marked[Top.p] THEN IsUnlink(f, Top.p)
                                    ELSE IsScan(f, Next_(Top.p))
           /\ ExitNotify => IF Top.q # Top.p /\ running[Top.q]
                            THEN \E f : Pushed(f) /\ IsThread(f, Top.q)
                            ELSE \E f : /\ Turned(f)
                                        /\ IsNotify(f, Top.p, Next_(Top.q))
           /\ ExitNotified => \/ \E f : Turned(f) /\ IsUnlink(f, Top.p)
                              \/ \E f, g : /\ TurnedPushed(f, g)
                                           /\ IsUnlink(f, Top.p)
                                           /\ IsThread(g, Top.p)
           /\ ExitUnlink => \E f : Turned(f) /\ IsScan(f, Next_(Top.p))
           /\ ExitRound => \E f : Turned(f) /\ IsScan(f, First)
           /\ ExitReturn => PoppedOne
<1>0. stack \in Seq(Frame)
  BY DEF IInv, TypeOK
<1>e. ASSUME Active("exit")
      PROVE  /\ stack # <<>> /\ Top.fn = "exit" /\ Top \in ExitFrame
             /\ Top.p \in Ptr /\ Top.q \in Ptr
             /\ Top.at # "scan" => Top.p \in Process
  BY <1>e, TopFrame, FrameKinds DEF Active, ExitFrame, Ptr
<1>1. SyncReturn => stack # <<>> /\ Top.fn = "sync" /\ PoppedOne
  BY <1>0, TopMoves DEF SyncReturn, Active
<1>2. ASSUME ExitStop PROVE \E f : Turned(f) /\ IsNotify(f, Top.p, First)
  <2>. DEFINE f == [Top EXCEPT !.at = "notify", !.q = First]
  <2>1. Active("exit") /\ stack' = With(f)
    BY <1>2 DEF ExitStop, ExitAt
  <2>2. IsNotify(f, Top.p, First)
    BY <1>e, <2>1, ExitUpdates DEF IsNotify
  <2>. HIDE DEF f
  <2>. QED
    BY <1>0, <1>e, <2>1, <2>2, TopMoves
<1>3. ASSUME ExitSkip
      PROVE  \E f : /\ Turned(f)
                    /\ IF marked[Top.p] THEN IsUnlink(f, Top.p)
                                        ELSE IsScan(f, Next_(Top.p))
  <2>. DEFINE f == [Top EXCEPT !.at = "unlink"]
              g == [Top EXCEPT !.p = Next_(Top.p)]
  <2>1. /\ Active("exit") /\ Top.at = "scan"
        /\ stack' = With(IF marked[Top.p] THEN f ELSE g)
    BY <1>3 DEF ExitSkip, ExitAt
  <2>2. IsUnlink(f, Top.p) /\ IsScan(g, Next_(Top.p))
    BY <1>e, <2>1, ExitUpdates DEF IsUnlink, IsScan
  <2>. HIDE DEF f, g
  <2>. QED
    BY <1>0, <1>e, <2>1, <2>2, TopMoves
<1>4. ASSUME ExitNotify
      PROVE  IF Top.q # Top.p /\ running[Top.q]
             THEN \E f : Pushed(f) /\ IsThread(f, Top.q)
             ELSE \E f : Turned(f) /\ IsNotify(f, Top.p, Next_(Top.q))
  <2>. DEFINE f == [fn |-> "thread", p |-> Top.q, ev |-> "EXITED"]
              g == [Top EXCEPT !.q = Next_(Top.q)]
  <2>1. /\ Active("exit") /\ Top.at = "notify"
        /\ Top.q # Top.p /\ running[Top.q] => stack' = Append(stack, f)
        /\ ~(Top.q # Top.p /\ running[Top.q]) => stack' = With(g)
    BY <1>4 DEF ExitNotify, ExitAt
  <2>2. IsThread(f, Top.q) /\ IsNotify(g, Top.p, Next_(Top.q))
    BY <1>e, <2>1, ExitUpdates DEF IsNotify, IsThread
  <2>. HIDE DEF f, g
  <2>. QED
    BY <1>0, <1>e, <2>1, <2>2, TopMoves, StackMoves
<1>5. ASSUME ExitNotified
      PROVE  \/ \E f : Turned(f) /\ IsUnlink(f, Top.p)
             \/ \E f, g : /\ TurnedPushed(f, g) /\ IsUnlink(f, Top.p)
                          /\ IsThread(g, Top.p)
  <2>. DEFINE f == [Top EXCEPT !.at = "unlink", !.from = NULL]
              g == [fn |-> "thread", p |-> Top.p, ev |-> "EXIT"]
  <2>1. /\ Active("exit")
        /\ stack' = Append(With(f), g) \/ stack' = With(f)
    BY <1>5 DEF ExitNotified, ExitAt
  <2>2. IsUnlink(f, Top.p) /\ IsThread(g, Top.p)
    BY <1>e, <2>1, ExitUpdates DEF IsUnlink, IsThread
  <2>. HIDE DEF f, g
  <2>. QED
    BY <1>0, <1>e, <2>1, <2>2, TopMoves
<1>6. ASSUME ExitUnlink PROVE \E f : Turned(f) /\ IsScan(f, Next_(Top.p))
  <2>. DEFINE f == [Top EXCEPT !.at = "scan", !.p = Next_(Top.p)]
  <2>1. Active("exit") /\ stack' = With(f)
    BY <1>6 DEF ExitUnlink, ExitAt
  <2>2. IsScan(f, Next_(Top.p))
    BY <1>e, <2>1, ExitUpdates DEF IsScan
  <2>. HIDE DEF f
  <2>. QED
    BY <1>0, <1>e, <2>1, <2>2, TopMoves
<1>7. ASSUME ExitRound PROVE \E f : Turned(f) /\ IsScan(f, First)
  <2>. DEFINE f == [Top EXCEPT !.p = First]
  <2>1. Active("exit") /\ Top.at = "scan" /\ stack' = With(f)
    BY <1>7 DEF ExitRound, ExitAt
  <2>2. IsScan(f, First)
    BY <1>e, <2>1, ExitUpdates DEF IsScan
  <2>. HIDE DEF f
  <2>. QED
    BY <1>0, <1>e, <2>1, <2>2, TopMoves
<1>8. ExitReturn => PoppedOne
  BY <1>0, <1>e, TopMoves DEF ExitReturn, ExitAt
<1>. QED
  BY <1>1, <1>2, <1>3, <1>4, <1>5, <1>6, <1>7, <1>8, <1>e

\* call_process, called by the frame on top, which goes on as f.
Delivers(run, p, ev, f) ==
    IF run /\ ~called[p]
    THEN /\ \E g : TurnedPushed(f, g) /\ IsThread(g, p)
         /\ called' = [called EXCEPT ![p] = TRUE]
         /\ due' = due \ {<<IF ev = "POLL" THEN 0 ELSE Len(stack), p>>,
                          <<Len(stack), p>>}
    ELSE Turned(f) /\ UNCHANGED <<called, due>>

LEMMA DeliverMoves ==
    ASSUME stack \in Seq(Frame), stack # <<>>, NEW f, NEW run, NEW p, NEW ev,
           CallProcess(With(f), run, p, ev)
    PROVE  Delivers(run, p, ev, f)
<1>1. CASE run /\ ~called[p]
  <2>. DEFINE g == [fn |-> "thread", p |-> p, ev |-> ev]
  <2>1. IsThread(g, p)
    BY DEF IsThread
  <2>2. /\ called' = [called EXCEPT ![p] = TRUE]
        /\ stack' = Append(With(f), g)
        /\ due' = due \ {<<IF ev = "POLL" THEN 0 ELSE Len(With(f)), p>>,
                         <<Len(With(f)), p>>}
    BY <1>1 DEF CallProcess
  <2>. HIDE DEF g
  <2>3. Len(With(f)) = Len(stack)
    <3>1. Len(stack) \in Nat \ {0}
      BY TopMoves
    <3>. QED
      BY <3>1, Replaced DEF With
  <2>4. TurnedPushed(f, g)
    BY <2>2, TopMoves
  <2>5. due' = due \ {<<IF ev = "POLL" THEN 0 ELSE Len(stack), p>>,
                      <<Len(stack), p>>}
    BY <2>2, <2>3
  <2>. QED
    BY <1>1, <2>1, <2>2, <2>4, <2>5 DEF Delivers
<1>2. CASE ~(run /\ ~called[p])
  <2>1. stack' = With(f) /\ UNCHANGED <<called, due>>
    BY <1>2 DEF CallProcess
  <2>. QED
    BY <1>2, <2>1, TopMoves DEF Delivers
<1>. QED
  BY <1>1, <1>2

\* The steps of process_next_event, do_event and do_poll.
LEMMA EventMoves ==
    ASSUME IInv
    PROVE  /\ Active("event") => /\ stack # <<>> /\ Top.fn = "event" /\ Top.p \in Ptr
                                 /\ Top.at \in {"deliver", "advance"} => Top.p \in Process
           /\ Active("poll") => /\ stack # <<>> /\ Top.fn = "poll" /\ Top.p \in Ptr
                                /\ Top.at = "advance" => Top.p \in Process
           /\ NextEvent => \/ \E f : Pushed(f) /\ f.fn = "event" /\ f.at = "take"
                           \/ \E f, g : /\ PushedTwo(f, g)
                                        /\ f.fn = "event" /\ f.at = "take"
                                        /\ IsPoll(g, "look", First)
           /\ TakeBroadcast => \E f : Turned(f) /\ IsEvent(f, "each", First)
           /\ TakeDirect =>
                \E p \in Process, ev \in Posted : \E f :
                    /\ running' = [running EXCEPT ![p] = (ev = "INIT") \/ running[p]]
                    /\ Delivers(running'[p], p, ev, f)
                    /\ IsEvent(f, "each", Top.p)
           /\ BroadcastPoll => \E f, g : /\ TurnedPushed(f, g)
                                         /\ IsEvent(f, "deliver", Top.p)
                                         /\ IsPoll(g, "look", First)
           /\ BroadcastDeliver =>
                /\ Active("event") /\ Top.p \in Process
                /\ \E f : /\ Delivers(running[Top.p], Top.p, Top.ev, f)
                          /\ IsEvent(f, "advance", Top.p)
           /\ BroadcastAdvance => \E f : Turned(f) /\ IsEvent(f, "each", Next_(Top.p))
           /\ PollDeliver => \E f : /\ Delivers(TRUE, Top.p, "POLL", f)
                                    /\ IsPoll(f, "advance", Top.p)
           /\ PollAdvance => \E f : Turned(f) /\ IsPoll(f, "look", Next_(Top.p))
           /\ EventReturn => Active("event") /\ PoppedOne
           /\ PollReturn => Active("poll") /\ PoppedOne
<1>0. stack \in Seq(Frame)
  BY DEF IInv, TypeOK
<1>e. ASSUME Active("event")
      PROVE  /\ stack # <<>> /\ Top.fn = "event" /\ Top \in EventFrame /\ Top.p \in Ptr
             /\ Top.at \in {"deliver", "advance"} => Top.p \in Process
  BY <1>e, TopFrame, FrameKinds DEF Active, EventFrame, Ptr
<1>l. ASSUME Active("poll")
      PROVE  /\ stack # <<>> /\ Top.fn = "poll" /\ Top \in PollFrame /\ Top.p \in Ptr
             /\ Top.at = "advance" => Top.p \in Process
  BY <1>l, TopFrame, FrameKinds DEF Active, PollFrame, Ptr
<1>1. ASSUME NextEvent
      PROVE  \/ \E f : Pushed(f) /\ f.fn = "event" /\ f.at = "take"
             \/ \E f, g : /\ PushedTwo(f, g) /\ f.fn = "event" /\ f.at = "take"
                          /\ IsPoll(g, "look", First)
  <2>. DEFINE f == [fn |-> "event", at |-> "take", p |-> NULL, ev |-> "MSG"]
              g == [fn |-> "poll", at |-> "look", p |-> First]
  <2>1. f.fn = "event" /\ f.at = "take" /\ IsPoll(g, "look", First)
    BY DEF IsPoll
  <2>2. f \in Frame
    BY DEF Frame, EventFrame, Ptr, Event
  <2>3. stack = <<>> /\ (stack' = Append(<<f>>, g) \/ stack' = <<f>>)
    BY <1>1 DEF NextEvent, EnterPoll, AtRest
  <2>. HIDE DEF f, g
  <2>4. <<f>> = Append(stack, f)
    BY <2>2, <2>3
  <2>. QED
    BY <1>0, <2>1, <2>3, <2>4, StackMoves
<1>2. ASSUME TakeBroadcast PROVE \E f : Turned(f) /\ IsEvent(f, "each", First)
  <2>. DEFINE f == [Top EXCEPT !.at = "each", !.p = First, !.ev = Head(queue).ev]
  <2>1. Active("event") /\ stack' = With(f)
    BY <1>2 DEF TakeBroadcast, EventAt
  <2>2. IsEvent(f, "each", First)
    BY <1>e, <2>1, EventUpdates DEF IsEvent
  <2>. HIDE DEF f
  <2>. QED
    BY <1>0, <1>e, <2>1, <2>2, TopMoves
<1>3. ASSUME TakeDirect
      PROVE  \E p \in Process, ev \in Posted : \E f :
                 /\ running' = [running EXCEPT ![p] = (ev = "INIT") \/ running[p]]
                 /\ Delivers(running'[p], p, ev, f)
                 /\ IsEvent(f, "each", Top.p)
  <2>1. Active("event") /\ queue # <<>> /\ queue \in Seq([to : Ptr, ev : Posted])
    BY <1>3 DEF TakeDirect, EventAt, IInv, TypeOK
  <2>2. Head(queue) \in [to : Ptr, ev : Posted]
    BY <2>1, HeadTailProperties
  <2>3. PICK p \in Process, ev \in Posted : p = Head(queue).to /\ ev = Head(queue).ev
    BY <1>3, <2>2 DEF TakeDirect, BROADCAST, Ptr
  <2>. DEFINE f == [Top EXCEPT !.at = "each", !.ev = ev]
  <2>4. /\ running' = [running EXCEPT ![p] = (ev = "INIT") \/ running[p]]
        /\ CallProcess(With(f), running'[p], p, ev)
    BY <1>3, <2>3 DEF TakeDirect
  <2>5. IsEvent(f, "each", Top.p)
    BY <1>e, <2>1, EventUpdates DEF IsEvent
  <2>. HIDE DEF f
  <2>6. Delivers(running'[p], p, ev, f)
    BY <1>0, <1>e, <2>1, <2>4, DeliverMoves
  <2>. QED
    BY <2>4, <2>5, <2>6
<1>4. ASSUME BroadcastPoll
      PROVE  \E f, g : /\ TurnedPushed(f, g) /\ IsEvent(f, "deliver", Top.p)
                       /\ IsPoll(g, "look", First)
  <2>. DEFINE f == [Top EXCEPT !.at = "deliver"]
              g == [fn |-> "poll", at |-> "look", p |-> First]
  <2>1. Active("event") /\ stack' = Append(With(f), g)
    BY <1>4 DEF BroadcastPoll, EventAt, EnterPoll
  <2>2. IsEvent(f, "deliver", Top.p) /\ IsPoll(g, "look", First)
    BY <1>e, <2>1, EventUpdates DEF IsEvent, IsPoll
  <2>. HIDE DEF f, g
  <2>. QED
    BY <1>0, <1>e, <2>1, <2>2, TopMoves
<1>5. ASSUME BroadcastDeliver
      PROVE  /\ Active("event") /\ Top.p \in Process
             /\ \E f : /\ Delivers(running[Top.p], Top.p, Top.ev, f)
                       /\ IsEvent(f, "advance", Top.p)
  <2>. DEFINE f == [Top EXCEPT !.at = "advance"]
  <2>1. /\ Active("event")
        /\ CallProcess(With(f), running[Top.p], Top.p, Top.ev)
        /\ Top.p # NULL \/ Top.at = "deliver"
    BY <1>5 DEF BroadcastDeliver, EventAt
  <2>2. IsEvent(f, "advance", Top.p) /\ Top.p \in Process
    BY <1>e, <2>1, EventUpdates DEF IsEvent, Ptr
  <2>. HIDE DEF f
  <2>. QED
    BY <1>0, <1>e, <2>1, <2>2, DeliverMoves
<1>6. ASSUME BroadcastAdvance PROVE \E f : Turned(f) /\ IsEvent(f, "each", Next_(Top.p))
  <2>. DEFINE f == [Top EXCEPT !.at = "each", !.p = Next_(Top.p)]
  <2>1. Active("event") /\ stack' = With(f)
    BY <1>6 DEF BroadcastAdvance, EventAt
  <2>2. IsEvent(f, "each", Next_(Top.p))
    BY <1>e, <2>1, EventUpdates DEF IsEvent
  <2>. HIDE DEF f
  <2>. QED
    BY <1>0, <1>e, <2>1, <2>2, TopMoves
<1>7. ASSUME PollDeliver
      PROVE  \E f : Delivers(TRUE, Top.p, "POLL", f) /\ IsPoll(f, "advance", Top.p)
  <2>. DEFINE f == [Top EXCEPT !.at = "advance"]
  <2>1. Active("poll") /\ CallProcess(With(f), TRUE, Top.p, "POLL")
    BY <1>7 DEF PollDeliver, PollAt
  <2>2. IsPoll(f, "advance", Top.p)
    BY <1>l, <2>1, PollUpdates DEF IsPoll
  <2>. HIDE DEF f
  <2>. QED
    BY <1>0, <1>l, <2>1, <2>2, DeliverMoves
<1>8. ASSUME PollAdvance PROVE \E f : Turned(f) /\ IsPoll(f, "look", Next_(Top.p))
  <2>. DEFINE f == [Top EXCEPT !.at = "look", !.p = Next_(Top.p)]
  <2>1. Active("poll") /\ stack' = With(f)
    BY <1>8 DEF PollAdvance, PollAt
  <2>2. IsPoll(f, "look", Next_(Top.p))
    BY <1>l, <2>1, PollUpdates DEF IsPoll
  <2>. HIDE DEF f
  <2>. QED
    BY <1>0, <1>l, <2>1, <2>2, TopMoves
<1>9. /\ EventReturn => Active("event") /\ PoppedOne
      /\ PollReturn => Active("poll") /\ PoppedOne
  BY <1>0, <1>e, <1>l, TopMoves DEF EventReturn, EventAt, PollReturn, PollAt
<1>. QED
  BY <1>e, <1>l, <1>1, <1>2, <1>3, <1>4, <1>5, <1>6, <1>7, <1>8, <1>9
-----------------------------------------------------------------------------
(***************************************************************************)
(* What the stack says of the exits and the calls under way.               *)
(***************************************************************************)
\* The innermost exit_process is at c.
Scans(c) == \E d \in 1..Len(stack) :
               /\ stack[d].fn = "exit" /\ stack[d].p = c
               /\ \A e \in 1..Len(stack) : e > d => stack[e].fn # "exit"

AnyExit == \E d \in 1..Len(stack) : stack[d].fn = "exit"

\* An exit_process has stopped p and has not unlinked it, above the frame b.
StopsAbove(b, p) == \E d \in 1..Len(stack) :
                       /\ d > b /\ stack[d].fn = "exit"
                       /\ stack[d].at # "scan" /\ stack[d].p = p
Stops(p) == StopsAbove(0, p)

\* A call of p is under way that is not the one with EXIT.
AboveUnlink(d) == d > 1 /\ stack[d - 1].fn = "exit" /\ stack[d - 1].at = "unlink"
InCall(p) == \E d \in 1..Len(stack) :
                stack[d].fn = "thread" /\ stack[d].p = p /\ ~AboveUnlink(d)

\* A step that ends no exit and no call, and begins no exit.
ScansKept   == \A c : Scans(c)' => Scans(c)
StopsKept   == \A b \in Nat : \A p : StopsAbove(b, p) => StopsAbove(b, p)'
CallsKept   == \A p : InCall(p) => InCall(p)'
Undisturbed == ScansKept /\ (AnyExit => AnyExit') /\ StopsKept /\ CallsKept

USE DEF Upto

LEMMA StackKept == stack' = stack => Undisturbed
  BY DEF Undisturbed, ScansKept, StopsKept, CallsKept, AnyExit, Scans, StopsAbove,
         InCall, AboveUnlink

LEMMA PushKept ==
    ASSUME Len(stack) \in Nat, NEW f, Pushed(f)
    PROVE  /\ f.fn # "exit" => Undisturbed
           /\ f.fn = "exit" => AnyExit' /\ \A c : Scans(c)' => c = f.p
           /\ StopsKept /\ CallsKept
           /\ f.fn = "thread" /\ ~(Len(stack) # 0 /\ Top.fn = "exit" /\ Top.at = "unlink")
                => InCall(f.p)'
<1>. DEFINE n == Len(stack)
<1>1. /\ n \in Nat /\ Len(stack') = n + 1 /\ stack'[n + 1] = f
      /\ \A i \in 1..n : stack'[i] = stack[i]
      /\ \A i \in 1..Len(stack') : i \in 1..n \/ i = n + 1
      /\ \A i \in 1..n : i \in 1..Len(stack') /\ (i > 1 => i - 1 \in 1..n)
      /\ n + 1 \in 1..Len(stack')
  BY DEF Pushed
<1>. HIDE DEF n
<1>2. StopsKept /\ CallsKept /\ (AnyExit => AnyExit')
  BY <1>1 DEF StopsKept, CallsKept, AnyExit, StopsAbove, InCall, AboveUnlink, n
<1>3. f.fn # "exit" => ScansKept
  BY <1>1 DEF ScansKept, Scans, n
<1>4. f.fn = "exit" => AnyExit' /\ \A c : Scans(c)' => c = f.p
  <2>1. f.fn = "exit" => AnyExit'
    BY <1>1 DEF AnyExit
  <2>2. ASSUME f.fn = "exit", NEW c, Scans(c)' PROVE c = f.p
    <3>1. PICK d \in 1..Len(stack') :
             /\ stack'[d].p = c
             /\ \A e \in 1..Len(stack') : e > d => stack'[e].fn # "exit"
      BY <2>2 DEF Scans
    <3>2. d = n + 1
      BY <1>1, <2>2, <3>1
    <3>. QED
      BY <1>1, <3>1, <3>2
  <2>. QED
    BY <2>1, <2>2
<1>5. f.fn = "thread" /\ ~(n # 0 /\ Top.fn = "exit" /\ Top.at = "unlink") => InCall(f.p)'
  <2>1. n + 1 > 1 => n \in 1..n /\ n # 0 /\ n + 1 - 1 = n
    BY <1>1
  <2>. QED
    BY <1>1, <2>1 DEF InCall, AboveUnlink, Top, n
<1>. QED
  BY <1>2, <1>3, <1>4, <1>5 DEF Undisturbed, n

LEMMA PushTwoKept ==
    ASSUME Len(stack) \in Nat, NEW f, NEW g, PushedTwo(f, g),
           f.fn # "exit", g.fn # "exit"
    PROVE  /\ Undisturbed
           /\ g.fn = "thread" => InCall(g.p)'
<1>. DEFINE n == Len(stack)
<1>1. /\ n \in Nat /\ Len(stack') = n + 2
      /\ stack'[n + 1] = f /\ stack'[n + 2] = g
      /\ \A i \in 1..n : stack'[i] = stack[i]
      /\ \A i \in 1..Len(stack') : i \in 1..n \/ i = n + 1 \/ i = n + 2
      /\ \A i \in 1..n : i \in 1..Len(stack') /\ (i > 1 => i - 1 \in 1..n)
      /\ n + 2 \in 1..Len(stack') /\ n + 2 - 1 = n + 1
  BY DEF PushedTwo
<1>. HIDE DEF n
<1>2. StopsKept /\ CallsKept /\ (AnyExit => AnyExit')
  BY <1>1 DEF StopsKept, CallsKept, AnyExit, StopsAbove, InCall, AboveUnlink, n
<1>3. ScansKept
  BY <1>1 DEF ScansKept, Scans, n
<1>4. g.fn = "thread" => InCall(g.p)'
  BY <1>1 DEF InCall, AboveUnlink
<1>. QED
  BY <1>2, <1>3, <1>4 DEF Undisturbed

LEMMA PopKept ==
    ASSUME Len(stack) \in Nat \ {0}, PoppedOne
    PROVE  /\ Top.fn # "exit" => ScansKept /\ StopsKept /\ (AnyExit => AnyExit')
           /\ Top.fn = "exit" /\ Top.at = "scan" => StopsKept
           /\ Top.fn # "thread" => CallsKept
           /\ Len(stack) > 1 /\ Below.fn = "exit" /\ Below.at = "unlink" => CallsKept
           /\ \A p : p # Top.p /\ InCall(p) => InCall(p)'
<1>. DEFINE n == Len(stack)
<1>1. /\ n \in Nat \ {0} /\ Len(stack') = n - 1 /\ Top = stack[n] /\ Below = stack[n - 1]
      /\ \A i \in 1..(n - 1) : stack'[i] = stack[i]
      /\ \A i \in 1..n : i \in 1..Len(stack') \/ i = n
      /\ \A i \in 1..Len(stack') : i \in 1..n /\ i \in 1..(n - 1) /\ (i > 1 => i - 1 \in 1..(n - 1))
  BY DEF PoppedOne, Top, Below
<1>. HIDE DEF n
<1>2. Top.fn # "exit" => ScansKept
  BY <1>1 DEF ScansKept, Scans, n
<1>3. Top.fn # "exit" \/ Top.at = "scan" => StopsKept
  BY <1>1 DEF StopsKept, StopsAbove, n
<1>4. Top.fn # "exit" => (AnyExit => AnyExit')
  BY <1>1 DEF AnyExit, n
<1>5. ASSUME NEW p, InCall(p), ~InCall(p)'
      PROVE  p = Top.p /\ Top.fn = "thread" /\ ~AboveUnlink(n)
  <2>1. PICK d \in 1..n : stack[d].fn = "thread" /\ stack[d].p = p /\ ~AboveUnlink(d)
    BY <1>5 DEF InCall, n
  <2>2. d = n
    <3>1. SUFFICES ASSUME d \in 1..Len(stack') PROVE FALSE
      BY <1>1
    <3>2. ~AboveUnlink(d)'
      BY <1>1, <2>1, <3>1 DEF AboveUnlink
    <3>. QED
      BY <1>1, <1>5, <2>1, <3>1, <3>2 DEF InCall
  <2>. QED
    BY <1>1, <2>1, <2>2
<1>6. n > 1 /\ Below.fn = "exit" /\ Below.at = "unlink" => AboveUnlink(n)
  BY <1>1 DEF AboveUnlink
<1>. QED
  BY <1>2, <1>3, <1>4, <1>5, <1>6 DEF CallsKept, n
LEMMA TurnKept ==
    ASSUME Len(stack) \in Nat \ {0}, NEW f, Turned(f)
    PROVE  /\ Top.fn # "exit" /\ f.fn # "exit" => ScansKept /\ (AnyExit => AnyExit')
           /\ f.fn = "exit" => AnyExit' /\ \A c : Scans(c)' => c = f.p
           /\ Top.fn # "exit" => StopsKept
           /\ \A b \in Nat : \A p : (Top.p # p \/ Top.at = "scan") /\ StopsAbove(b, p)
                                  => StopsAbove(b, p)'
           /\ f.fn = "exit" /\ f.at # "scan" =>
                /\ f.p = Top.p => StopsKept
                /\ \A b \in Nat : b < Len(stack) => StopsAbove(b, f.p)'
           /\ Top.fn # "thread" => CallsKept
           /\ \A p : p # Top.p /\ InCall(p) => InCall(p)'
<1>. DEFINE n == Len(stack)
<1>1. /\ n \in Nat \ {0} /\ Len(stack') = n /\ Top = stack[n] /\ stack'[n] = f
      /\ \A i \in 1..(n - 1) : stack'[i] = stack[i]
      /\ \A i \in 1..n : i \in 1..(n - 1) \/ i = n
      /\ \A i \in 1..n : i \in 1..Len(stack') /\ (i > 1 => i - 1 \in 1..(n - 1))
      /\ n \in 1..n
  BY DEF Turned, Top
<1>. HIDE DEF n
<1>2. Top.fn # "exit" /\ f.fn # "exit" => ScansKept
  BY <1>1 DEF ScansKept, Scans, n
<1>3. Top.fn # "exit" /\ f.fn # "exit" => (AnyExit => AnyExit')
  BY <1>1 DEF AnyExit, n
<1>4. f.fn = "exit" => AnyExit'
  BY <1>1 DEF AnyExit
<1>5. ASSUME f.fn = "exit", NEW c, Scans(c)' PROVE c = f.p
  <2>1. PICK d \in 1..Len(stack') :
           /\ stack'[d].p = c
           /\ \A e \in 1..Len(stack') : e > d => stack'[e].fn # "exit"
    BY <1>5 DEF Scans
  <2>2. d = n
    BY <1>1, <1>5, <2>1
  <2>. QED
    BY <1>1, <2>1, <2>2
<1>6. ASSUME NEW b \in Nat, NEW p, StopsAbove(b, p),
             \/ Top.fn # "exit" \/ Top.p # p \/ Top.at = "scan"
             \/ f.fn = "exit" /\ f.at # "scan" /\ f.p = Top.p
      PROVE  StopsAbove(b, p)'
  <2>1. PICK d \in 1..n : /\ d > b /\ stack[d].fn = "exit"
                          /\ stack[d].at # "scan" /\ stack[d].p = p
    BY <1>6 DEF StopsAbove, n
  <2>. QED
    BY <1>1, <1>6, <2>1 DEF StopsAbove
<1>7. f.fn = "exit" /\ f.at # "scan" => \A b \in Nat : b < n => StopsAbove(b, f.p)'
  BY <1>1 DEF StopsAbove
<1>8. ASSUME NEW p, InCall(p), ~InCall(p)' PROVE p = Top.p /\ Top.fn = "thread"
  <2>1. PICK d \in 1..n : stack[d].fn = "thread" /\ stack[d].p = p /\ ~AboveUnlink(d)
    BY <1>8 DEF InCall, n
  <2>2. d = n
    <3>1. SUFFICES ASSUME d \in 1..(n - 1) PROVE FALSE
      BY <1>1
    <3>2. ~AboveUnlink(d)'
      BY <1>1, <2>1, <3>1 DEF AboveUnlink
    <3>. QED
      BY <1>1, <1>8, <2>1, <3>1, <3>2 DEF InCall
  <2>. QED
    BY <1>1, <2>1, <2>2
<1>. QED
  BY <1>2, <1>3, <1>4, <1>5, <1>6, <1>7, <1>8 DEF CallsKept, StopsKept, n

LEMMA TurnPushKept ==
    ASSUME Len(stack) \in Nat \ {0}, NEW f, NEW g, TurnedPushed(f, g),
           Top.fn # "thread", g.fn # "exit"
    PROVE  /\ Top.fn # "exit" /\ f.fn # "exit" => Undisturbed
           /\ f.fn = "exit" => AnyExit' /\ \A c : Scans(c)' => c = f.p
           /\ f.fn = "exit" /\ f.at # "scan" /\ f.p = Top.p => StopsKept
           /\ CallsKept
           /\ f.fn # "exit" /\ g.fn = "thread" => InCall(g.p)'
<1>. DEFINE n == Len(stack)
<1>1. /\ n \in Nat \ {0} /\ Len(stack') = n + 1 /\ Top = stack[n]
      /\ stack'[n] = f /\ stack'[n + 1] = g
      /\ \A i \in 1..(n - 1) : stack'[i] = stack[i]
      /\ \A i \in 1..n : i \in 1..(n - 1) \/ i = n
      /\ \A i \in 1..Len(stack') : i \in 1..(n - 1) \/ i = n \/ i = n + 1
      /\ \A i \in 1..n : i \in 1..Len(stack') /\ (i > 1 => i - 1 \in 1..(n - 1))
      /\ n \in 1..n /\ n + 1 \in 1..Len(stack') /\ n + 1 - 1 = n
  BY DEF TurnedPushed, Top
<1>. HIDE DEF n
<1>2. ASSUME Top.fn # "exit", f.fn # "exit", NEW c, Scans(c)' PROVE Scans(c)
  <2>1. PICK d \in 1..Len(stack') :
           /\ stack'[d].fn = "exit" /\ stack'[d].p = c
           /\ \A e \in 1..Len(stack') : e > d => stack'[e].fn # "exit"
    BY <1>2 DEF Scans
  <2>2. d \in 1..(n - 1)
    BY <1>1, <1>2, <2>1
  <2>3. ASSUME NEW e \in 1..n, e > d PROVE stack[e].fn # "exit"
    <3>1. e \in 1..(n - 1) => stack'[e].fn # "exit"
      BY <1>1, <2>1, <2>3
    <3>. QED
      BY <1>1, <1>2, <3>1
  <2>4. d \in 1..n /\ stack[d].fn = "exit" /\ stack[d].p = c
    BY <1>1, <2>1, <2>2
  <2>. QED
    BY <2>3, <2>4 DEF Scans, n
<1>3. Top.fn # "exit" /\ f.fn # "exit" => (AnyExit => AnyExit')
  BY <1>1 DEF AnyExit, n
<1>4. f.fn = "exit" => AnyExit'
  BY <1>1 DEF AnyExit
<1>5. ASSUME f.fn = "exit", NEW c, Scans(c)' PROVE c = f.p
  <2>1. PICK d \in 1..Len(stack') :
           /\ stack'[d].fn = "exit" /\ stack'[d].p = c
           /\ \A e \in 1..Len(stack') : e > d => stack'[e].fn # "exit"
    BY <1>5 DEF Scans
  <2>2. d = n
    BY <1>1, <1>5, <2>1
  <2>. QED
    BY <1>1, <2>1, <2>2
<1>6. Top.fn # "exit" \/ (f.fn = "exit" /\ f.at # "scan" /\ f.p = Top.p) => StopsKept
  BY <1>1 DEF StopsAbove, StopsKept, n
<1>7. CallsKept
  <2>1. SUFFICES ASSUME NEW p, InCall(p) PROVE InCall(p)'
    BY DEF CallsKept
  <2>2. PICK d \in 1..n : stack[d].fn = "thread" /\ stack[d].p = p /\ ~AboveUnlink(d)
    BY <2>1 DEF InCall, n
  <2>3. d \in 1..(n - 1)
    BY <1>1, <2>2
  <2>4. ~AboveUnlink(d)'
    BY <1>1, <2>2, <2>3 DEF AboveUnlink
  <2>. QED
    BY <1>1, <2>2, <2>3, <2>4 DEF InCall
<1>8. f.fn # "exit" /\ g.fn = "thread" => InCall(g.p)'
  BY <1>1 DEF InCall, AboveUnlink
<1>. QED
  BY <1>2, <1>3, <1>4, <1>5, <1>6, <1>7, <1>8 DEF Undisturbed, ScansKept

\* A thread that returns to exit_process from EXITED.
LEMMA PopTurnKept ==
    ASSUME Len(stack) \in Nat \ {0}, Len(stack) > 1, NEW f, PoppedTurned(f),
           Top.fn = "thread", Below.fn = "exit", f.fn = "exit",
           f.p = Below.p, f.at # "scan"
    PROVE  /\ AnyExit' /\ ScansKept /\ StopsKept
           /\ \A p : p # Top.p /\ InCall(p) => InCall(p)'
<1>. DEFINE n == Len(stack)
            m == Len(stack) - 1
<1>1. /\ n \in Nat /\ m \in Nat \ {0} /\ Len(stack') = m /\ n = m + 1
      /\ Top = stack[n] /\ Below = stack[m] /\ stack'[m] = f
      /\ \A i \in 1..(m - 1) : stack'[i] = stack[i]
      /\ \A i \in 1..m : i \in 1..(m - 1) \/ i = m
      /\ \A i \in 1..n : i \in 1..m \/ i = n
      /\ \A i \in 1..m : i \in 1..n /\ i \in 1..Len(stack') /\ (i > 1 => i - 1 \in 1..(m - 1))
      /\ m \in 1..m
  BY DEF PoppedTurned, Top, Below
<1>. HIDE DEF n, m
<1>2. AnyExit'
  BY <1>1 DEF AnyExit
<1>3. ScansKept
  BY <1>1 DEF ScansKept, Scans, n
<1>4. StopsKept
  BY <1>1 DEF StopsAbove, StopsKept, n
<1>5. ASSUME NEW p, p # Top.p, InCall(p) PROVE InCall(p)'
  <2>1. PICK d \in 1..n : stack[d].fn = "thread" /\ stack[d].p = p /\ ~AboveUnlink(d)
    BY <1>5 DEF InCall, n
  <2>2. d \in 1..(m - 1)
    BY <1>1, <1>5, <2>1
  <2>3. ~AboveUnlink(d)'
    BY <1>1, <2>1, <2>2 DEF AboveUnlink
  <2>. QED
    BY <1>1, <2>1, <2>2, <2>3 DEF InCall
<1>. QED
  BY <1>2, <1>3, <1>4, <1>5
-----------------------------------------------------------------------------
(***************************************************************************)
(* Condemned processes.                                                    *)
(***************************************************************************)
Condemned == {p \in Listed : marked[p]}

\* The scan of the innermost exit_process has every condemned process ahead of
\* it, unless another round is asked for.
InScan == ~another => \A c : Scans(c) => Condemned \subseteq Ahead(c)

\* There is a condemned process, or another round is asked for, only while an
\* exit_process is under way; the bits of a listed process tell of an
\* exit_process or of a call that is.
Rounds    == another \/ Condemned # {} => AnyExit
RunningOK == \A p \in Listed : running[p] \/ Stops(p)
CalledOK  == \A p \in Listed : called[p] => marked[p] \/ InCall(p)

ExitInv == InScan /\ Rounds /\ RunningOK /\ CalledOK
KInv    == IInv /\ ListIsSimple /\ ExitInv

\* A step that leaves the list, the marks and the exits alone.
LEMMA UndisturbedKeeps ==
    ASSUME ExitInv, Undisturbed, UNCHANGED <<list, marked, another>>,
           \A p \in Listed : running[p] => running'[p],
           \A p \in Listed : called'[p] => called[p] \/ InCall(p)'
    PROVE  ExitInv'
<1>1. Listed' = Listed /\ Condemned' = Condemned /\ \A c : Ahead(c)' = Ahead(c)
  BY DEF Listed, Condemned, Ahead, Before
<1>2. InScan'
  BY <1>1 DEF ExitInv, InScan, Undisturbed, ScansKept
<1>3. Rounds' /\ RunningOK' /\ CalledOK'
  BY <1>1 DEF ExitInv, Rounds, RunningOK, CalledOK, Undisturbed, StopsKept, Stops, CallsKept
<1>. QED
  BY <1>2, <1>3 DEF ExitInv

\* Entering exit_process, for p, from a thread of p or of another process that
\* is suspended or has returned.
LEMMA EnterKeeps ==
    ASSUME KInv, list' = list, UNCHANGED <<running, called>>,
           NEW p \in Process, marked' = [marked EXCEPT ![p] = TRUE],
           AnyExit', \A c : Scans(c)' => c = First, StopsKept,
           \A q : q # p /\ InCall(q) => InCall(q)'
    PROVE  ExitInv'
<1>1. /\ Listed' = Listed /\ \A c : Ahead(c)' = Ahead(c)
      /\ Listed \subseteq Process /\ marked \in [Process -> BOOLEAN]
  BY Pointers DEF KInv, IInv, TypeOK, Listed, Ahead, Before
<1>2. Listed \subseteq Ahead(First)
  BY NextInOrder DEF KInv, IInv, Ahead
<1>3. InScan'
  BY <1>1, <1>2 DEF InScan, Condemned
<1>4. Rounds' /\ RunningOK'
  BY <1>1 DEF KInv, ExitInv, Rounds, RunningOK, StopsKept, Stops
<1>5. CalledOK'
  BY <1>1 DEF KInv, ExitInv, CalledOK
<1>. QED
  BY <1>3, <1>4, <1>5 DEF ExitInv

LEMMA StartKeepsExits ==
    ASSUME KInv, NEW p \in Process, Start(p) PROVE ExitInv'
<1>1. TypeOK /\ ListIsSimple /\ IInv /\ ExitInv
  BY DEF KInv, IInv
<1>2. Undisturbed /\ InCall(p)'
  <2>1. PICK f, g : PushedTwo(f, g) /\ f.fn = "sync" /\ IsThread(g, p)
    BY <1>1, CallMoves
  <2>2. Len(stack) \in Nat
    BY <1>1, StackMoves DEF TypeOK
  <2>. QED
    BY <2>1, <2>2, PushTwoKept DEF IsThread
<1>3. /\ p \notin Listed /\ Listed' = Listed \cup {p}
      /\ \A q, r \in Listed : Before(q, r)' <=> Before(q, r)
      /\ Listed \subseteq Process
  BY <1>1, OrderLinked, Pointers
<1>4. /\ running' = [running EXCEPT ![p] = TRUE]
      /\ marked' = [marked EXCEPT ![p] = FALSE]
      /\ called' = [called EXCEPT ![p] = TRUE]
      /\ another' = another
      /\ running \in [Process -> BOOLEAN] /\ marked \in [Process -> BOOLEAN]
      /\ called \in [Process -> BOOLEAN]
  BY <1>1 DEF Start, TypeOK
<1>5. Condemned' = Condemned
  BY <1>3, <1>4 DEF Condemned
<1>6. ASSUME ~another', NEW c, Scans(c)', NEW q \in Condemned'
      PROVE  q \in Ahead(c)'
  <2>1. q \in Ahead(c)
    BY <1>1, <1>2, <1>4, <1>5, <1>6 DEF ExitInv, InScan, Undisturbed, ScansKept
  <2>2. q \in Listed /\ c \in Listed /\ (c = q \/ Before(c, q))
    BY <2>1 DEF Ahead
  <2>. QED
    BY <1>3, <2>2 DEF Ahead
<1>7. InScan'
  BY <1>6 DEF InScan
<1>8. Rounds'
  BY <1>1, <1>2, <1>4, <1>5 DEF ExitInv, Rounds, Undisturbed
<1>9. RunningOK'
  BY <1>1, <1>2, <1>3, <1>4 DEF ExitInv, RunningOK, Undisturbed, StopsKept, Stops
<1>10. CalledOK'
  BY <1>1, <1>2, <1>3, <1>4 DEF ExitInv, CalledOK, Undisturbed, CallsKept
<1>. QED
  BY <1>7, <1>8, <1>9, <1>10 DEF ExitInv

LEMMA CallsKeepExits ==
    ASSUME KInv, AppCall PROVE ExitInv'
<1>1. /\ IInv /\ ExitInv /\ Len(stack) \in Nat /\ Listed \subseteq Process
      /\ called \in [Process -> BOOLEAN]
  BY StackMoves, Pointers DEF KInv, IInv, TypeOK
<1>2. ASSUME NEW p \in Process, Exit(p) PROVE ExitInv'
  <2>1. PICK f : Pushed(f) /\ IsScan(f, First)
    BY <1>1, <1>2, CallMoves
  <2>2. AnyExit' /\ (\A c : Scans(c)' => c = First) /\ StopsKept /\ CallsKept
    BY <1>1, <2>1, PushKept DEF IsScan
  <2>3. /\ list' = list /\ UNCHANGED <<running, called>>
        /\ marked' = [marked EXCEPT ![p] = TRUE]
    BY <1>2 DEF Exit, EnterExit
  <2>. QED
    BY <2>2, <2>3, EnterKeeps DEF CallsKept
<1>3. ASSUME NEW p \in Process, NEW ev \in Posted, PostSync(p, ev) PROVE ExitInv'
  <2>1. PICK f, g : PushedTwo(f, g) /\ f.fn = "sync" /\ IsThread(g, p)
    BY <1>1, <1>3, CallMoves
  <2>2. Undisturbed /\ InCall(p)'
    BY <1>1, <2>1, PushTwoKept DEF IsThread
  <2>3. /\ UNCHANGED <<list, marked, another, running>>
        /\ called' = [called EXCEPT ![p] = TRUE] \/ called' = called
    BY <1>3 DEF PostSync, CallProcess
  <2>4. \A q \in Listed : called'[q] => called[q] \/ InCall(q)'
    BY <1>1, <2>2, <2>3
  <2>. QED
    BY <1>1, <2>2, <2>3, <2>4, UndisturbedKeeps
<1>4. ASSUME UNCHANGED <<list, marked, another, running, called, stack>> PROVE ExitInv'
  BY <1>1, <1>4, StackKept, UndisturbedKeeps
<1>5. ASSUME NEW p \in Process, Poll(p) PROVE ExitInv'
  BY <1>4, <1>5 DEF Poll
<1>6. ASSUME NEW r \in Ptr, NEW ev \in Posted, Post(r, ev) PROVE ExitInv'
  BY <1>4, <1>6 DEF Post, flags
<1>. QED
  BY <1>2, <1>3, <1>5, <1>6, StartKeepsExits DEF AppCall

LEMMA ReturnKeepsExits ==
    ASSUME KInv, Return PROVE ExitInv'
<1>1. /\ IInv /\ ExitInv /\ TypeOK /\ Listed \subseteq Process
      /\ called \in [Process -> BOOLEAN] /\ marked \in [Process -> BOOLEAN]
  BY Pointers DEF KInv, IInv, TypeOK
<1>n. stack # <<>> => Len(stack) \in Nat \ {0}
  BY <1>1, TopMoves DEF TypeOK
<1>l. UNCHANGED <<list, running>> /\ Listed' = Listed /\ \A c : Ahead(c)' = Ahead(c)
  BY DEF Return, ReturnToCall, ReturnToExit, Listed, Ahead, Before
<1>2. ASSUME NEW ret \in Result, ReturnToCall(ret) PROVE ExitInv'
  <2>1. /\ Len(stack) \in Nat \ {0} /\ Top.fn = "thread" /\ Top.p \in Process
        /\ \/ /\ \E f : Turned(f) /\ IsScan(f, First)
              /\ marked' = [marked EXCEPT ![Top.p] = TRUE]
              /\ another' = FALSE /\ called' = called
           \/ /\ PoppedOne /\ UNCHANGED <<marked, another, called>>
              /\ Top.p \notin Listed
           \/ /\ PoppedOne /\ UNCHANGED <<marked, another>>
              /\ called' = [called EXCEPT ![Top.p] = FALSE]
    BY <1>1, <1>2, <1>n, ReturnMoves
  <2>2. CASE /\ \E f : Turned(f) /\ IsScan(f, First)
             /\ marked' = [marked EXCEPT ![Top.p] = TRUE]
             /\ another' = FALSE /\ called' = called
    <3>1. /\ AnyExit' /\ (\A c : Scans(c)' => c = First) /\ StopsKept
          /\ \A q : q # Top.p /\ InCall(q) => InCall(q)'
      BY <2>1, <2>2, TurnKept DEF IsScan
    <3>. QED
      BY <1>l, <2>1, <2>2, <3>1, EnterKeeps
  <2>3. CASE /\ PoppedOne /\ UNCHANGED <<marked, another>>
             /\ \/ called' = called /\ Top.p \notin Listed
                \/ called' = [called EXCEPT ![Top.p] = FALSE]
    <3>1. /\ ScansKept /\ StopsKept /\ (AnyExit => AnyExit')
          /\ \A q : q # Top.p /\ InCall(q) => InCall(q)'
      BY <2>1, <2>3, PopKept
    <3>2. Condemned' = Condemned
      BY <1>l, <2>3 DEF Condemned
    <3>3. InScan' /\ Rounds' /\ RunningOK'
      BY <1>1, <1>l, <2>3, <3>1, <3>2
         DEF ExitInv, InScan, Rounds, RunningOK, ScansKept, StopsKept, Stops
    <3>4. CalledOK'
      BY <1>1, <1>l, <2>1, <2>3, <3>1 DEF ExitInv, CalledOK
    <3>. QED
      BY <3>3, <3>4 DEF ExitInv
  <2>. QED
    BY <2>1, <2>2, <2>3
<1>3. ASSUME NEW ret \in Result, ReturnToExit(ret) PROVE ExitInv'
  <2>1. /\ Len(stack) \in Nat \ {0} /\ Top.fn = "thread" /\ Top.p \in Process
        /\ Len(stack) > 1 /\ Below.fn = "exit"
        /\ \/ /\ Below.at = "notify"
              /\ \E f : PoppedTurned(f) /\ IsNotify(f, Below.p, Next_(Below.q))
              /\ AnswerExited(Top.p, ret)
           \/ /\ Below.at = "unlink"
              /\ PoppedOne /\ UNCHANGED <<called, marked, another>>
    BY <1>1, <1>3, <1>n, ReturnMoves
  <2>2. CASE /\ Below.at = "notify"
             /\ \E f : PoppedTurned(f) /\ IsNotify(f, Below.p, Next_(Below.q))
             /\ AnswerExited(Top.p, ret)
    <3>1. /\ AnyExit' /\ ScansKept /\ StopsKept
          /\ \A q : q # Top.p /\ InCall(q) => InCall(q)'
      BY <2>1, <2>2, PopTurnKept DEF IsNotify
    <3>2. \/ /\ marked' = [marked EXCEPT ![Top.p] = TRUE]
             /\ another' = TRUE /\ called' = called
          \/ /\ called' = [called EXCEPT ![Top.p] = FALSE]
             /\ UNCHANGED <<marked, another>>
      BY <2>2 DEF AnswerExited
    <3>3. Rounds' /\ RunningOK'
      BY <1>1, <1>l, <3>1 DEF ExitInv, Rounds, RunningOK, StopsKept, Stops
    <3>4. ~another' => marked' = marked /\ another' = another
      BY <3>2
    <3>5. InScan'
      BY <1>1, <1>l, <3>1, <3>4 DEF ExitInv, InScan, Condemned, ScansKept
    <3>6. CalledOK'
      BY <1>1, <1>l, <2>1, <3>1, <3>2 DEF ExitInv, CalledOK
    <3>. QED
      BY <3>3, <3>5, <3>6 DEF ExitInv
  <2>3. CASE /\ Below.at = "unlink"
             /\ PoppedOne /\ UNCHANGED <<called, marked, another>>
    <3>1. Undisturbed
      BY <2>1, <2>3, PopKept DEF Undisturbed
    <3>. QED
      BY <1>1, <1>l, <2>3, <3>1, UndisturbedKeeps
  <2>. QED
    BY <2>1, <2>2, <2>3
<1>. QED
  BY <1>2, <1>3 DEF Return
\* exit_process scans on from a process that is not condemned, or no longer.
LEMMA ScanGoesOn ==
    ASSUME TypeOK, ListIsSimple, NEW p, NEW q \in Ahead(p), q # p
    PROVE  Next_(p) \in Listed /\ q \in Ahead(Next_(p))
<1>1. p \in Listed /\ q \in Listed /\ Before(p, q)
  BY DEF Ahead
<1>2. Next_(p) # NULL /\ Before(p, Next_(p)) /\ (q = Next_(p) \/ Before(Next_(p), q))
  BY <1>1, NextInOrder
<1>3. Next_(p) \in Listed
  BY <1>2 DEF Before, Listed
<1>. QED
  BY <1>1, <1>2, <1>3 DEF Ahead

LEMMA ExitStepsKeepExits ==
    ASSUME KInv,
           \/ SyncReturn \/ ExitStop \/ ExitSkip \/ ExitNotify \/ ExitNotified
           \/ ExitUnlink \/ ExitRound \/ ExitReturn
    PROVE  ExitInv'
<1>1. /\ IInv /\ ExitInv /\ TypeOK /\ ListIsSimple /\ Listed \subseteq Process
      /\ called \in [Process -> BOOLEAN] /\ marked \in [Process -> BOOLEAN]
      /\ running \in [Process -> BOOLEAN]
  BY Pointers DEF KInv, IInv, TypeOK
<1>l. ASSUME list' = list
      PROVE  Listed' = Listed /\ \A c : Ahead(c)' = Ahead(c)
  BY <1>l DEF Listed, Ahead, Before
<1>n. stack # <<>> => Len(stack) \in Nat \ {0}
  BY <1>1, TopMoves DEF TypeOK
<1>e. ASSUME Active("exit")
      PROVE  /\ Len(stack) \in Nat \ {0} /\ Top.fn = "exit"
             /\ Top.p \in Ptr /\ Top.q \in Ptr
             /\ Top.at # "scan" => Top.p \in Process
             /\ Scans(Top.p)
             /\ ~another => Condemned \subseteq Ahead(Top.p)
  <2>1. /\ stack # <<>> /\ Top.fn = "exit" /\ Top.p \in Ptr /\ Top.q \in Ptr
        /\ Top.at # "scan" => Top.p \in Process
    BY <1>1, <1>e, ExitMoves
  <2>2. Len(stack) \in 1..Len(stack) /\ \A e \in 1..Len(stack) : ~(e > Len(stack))
    BY <1>n, <2>1
  <2>3. Scans(Top.p)
    BY <2>1, <2>2 DEF Scans, Top
  <2>. QED
    BY <1>1, <1>n, <2>1, <2>3 DEF ExitInv, InScan
<1>2. CASE SyncReturn
  <2>1. stack # <<>> /\ Top.fn = "sync" /\ PoppedOne
    BY <1>1, <1>2, ExitMoves
  <2>2. Undisturbed
    BY <1>n, <2>1, PopKept DEF Undisturbed
  <2>. QED
    BY <1>1, <1>2, <2>2, UndisturbedKeeps DEF SyncReturn, flags
<1>3. CASE ExitStop
  <2>1. Active("exit") /\ Top.at = "scan" /\ Top.p # NULL
    BY <1>3 DEF ExitStop, ExitAt
  <2>2. PICK f : Turned(f) /\ IsNotify(f, Top.p, First)
    BY <1>1, <1>3, ExitMoves
  <2>p. PICK p \in Process : p = Top.p
    BY <1>e, <2>1 DEF Ptr
  <2>3. /\ AnyExit' /\ (\A c : Scans(c)' => c = p) /\ StopsKept /\ CallsKept
        /\ \A b \in Nat : b < Len(stack) => StopsAbove(b, f.p)'
    BY <1>e, <2>1, <2>2, <2>p, TurnKept DEF IsNotify, StopsKept
  <2>s. Stops(p)'
    <3>1. StopsAbove(0, f.p)' /\ p = f.p
      BY <1>e, <2>1, <2>2, <2>p, <2>3 DEF IsNotify
    <3>. QED
      BY <3>1 DEF Stops
  <2>4. /\ UNCHANGED <<list, marked, another>>
        /\ running' = [running EXCEPT ![p] = FALSE]
        /\ called' = [called EXCEPT ![p] = FALSE]
    BY <1>3, <2>p DEF ExitStop
  <2>5. InScan'
    BY <1>e, <1>l, <2>1, <2>p, <2>3, <2>4 DEF InScan, Condemned
  <2>6. Rounds' /\ RunningOK'
    BY <1>1, <1>l, <2>3, <2>s, <2>4 DEF ExitInv, Rounds, RunningOK, StopsKept, Stops
  <2>7. CalledOK'
    BY <1>1, <1>l, <2>3, <2>4 DEF ExitInv, CalledOK, CallsKept
  <2>. QED
    BY <2>5, <2>6, <2>7 DEF ExitInv
<1>4. CASE ExitSkip
  <2>1. Active("exit") /\ Top.at = "scan"
    BY <1>4 DEF ExitSkip, ExitAt
  <2>2. PICK f : /\ Turned(f)
                 /\ IF marked[Top.p] THEN IsUnlink(f, Top.p)
                                     ELSE IsScan(f, Next_(Top.p))
    BY <1>1, <1>4, ExitMoves
  <2>3. /\ AnyExit' /\ (\A c : Scans(c)' => c = f.p) /\ StopsKept /\ CallsKept
    BY <1>e, <2>1, <2>2, TurnKept DEF IsUnlink, IsScan, StopsKept
  <2>4. UNCHANGED <<list, marked, another, running, called>>
    BY <1>4 DEF ExitSkip, flags
  <2>5. ~another => Condemned \subseteq Ahead(f.p)
    <3>1. CASE marked[Top.p]
      BY <1>e, <2>1, <2>2, <3>1 DEF IsUnlink
    <3>2. CASE ~marked[Top.p]
      <4>1. SUFFICES ASSUME ~another, NEW q \in Condemned PROVE q \in Ahead(f.p)
        OBVIOUS
      <4>2. q \in Ahead(Top.p) /\ q # Top.p
        BY <1>e, <2>1, <3>2, <4>1 DEF Condemned
      <4>. QED
        BY <1>1, <2>2, <3>2, <4>2, ScanGoesOn DEF IsScan
    <3>. QED
      BY <3>1, <3>2
  <2>6. InScan'
    BY <1>l, <2>3, <2>4, <2>5 DEF InScan, Condemned
  <2>7. Rounds' /\ RunningOK' /\ CalledOK'
    BY <1>1, <1>l, <2>3, <2>4
       DEF ExitInv, Rounds, RunningOK, CalledOK, StopsKept, Stops, CallsKept
  <2>. QED
    BY <2>6, <2>7 DEF ExitInv
<1>5. CASE ExitNotify
  <2>1. Active("exit") /\ Top.at = "notify" /\ Top.q # NULL
    BY <1>5 DEF ExitNotify, ExitAt
  <2>2. UNCHANGED <<list, marked, another, running>>
    BY <1>5 DEF ExitNotify
  <2>3. CASE Top.q # Top.p /\ running[Top.q]
    <3>p. PICK p : p = Top.q
      OBVIOUS
    <3>1. PICK f : Pushed(f) /\ IsThread(f, p)
      BY <1>1, <1>5, <2>3, <3>p, ExitMoves
    <3>2. Undisturbed /\ InCall(p)'
      BY <1>e, <2>1, <3>1, PushKept DEF IsThread
    <3>3. called' = [called EXCEPT ![p] = TRUE]
      BY <1>5, <2>3, <3>p DEF ExitNotify
    <3>4. \A q \in Listed : called'[q] => called[q] \/ InCall(q)'
      BY <1>1, <3>2, <3>3
    <3>. QED
      BY <1>1, <2>2, <3>2, <3>4, UndisturbedKeeps
  <2>4. CASE ~(Top.q # Top.p /\ running[Top.q])
    <3>1. PICK f : Turned(f) /\ IsNotify(f, Top.p, Next_(Top.q))
      BY <1>1, <1>5, <2>4, ExitMoves
    <3>2. AnyExit' /\ (\A c : Scans(c)' => c = Top.p) /\ CallsKept /\ StopsKept
      BY <1>e, <2>1, <3>1, TurnKept DEF IsNotify
    <3>4. called' = called
      BY <1>5, <2>4 DEF ExitNotify
    <3>5. InScan'
      BY <1>e, <1>l, <2>1, <2>2, <3>2 DEF InScan, Condemned
    <3>6. Rounds' /\ RunningOK' /\ CalledOK'
      BY <1>1, <1>l, <2>2, <3>2, <3>4
         DEF ExitInv, Rounds, RunningOK, CalledOK, StopsKept, Stops, CallsKept
    <3>. QED
      BY <3>5, <3>6 DEF ExitInv
  <2>. QED
    BY <2>3, <2>4
<1>6. CASE ExitNotified
  <2>1. Active("exit") /\ Top.at = "notify"
    BY <1>6 DEF ExitNotified, ExitAt
  <2>2. UNCHANGED <<list, marked, another, running, called>>
    BY <1>6 DEF ExitNotified, flags
  <2>3. AnyExit' /\ (\A c : Scans(c)' => c = Top.p) /\ StopsKept /\ CallsKept
    <3>1. CASE \E f : Turned(f) /\ IsUnlink(f, Top.p)
      BY <1>e, <2>1, <3>1, TurnKept DEF IsUnlink
    <3>2. CASE \E f, g : /\ TurnedPushed(f, g) /\ IsUnlink(f, Top.p)
                         /\ IsThread(g, Top.p)
      BY <1>e, <2>1, <3>2, TurnPushKept DEF IsUnlink, IsThread
    <3>. QED
      BY <1>1, <1>6, <3>1, <3>2, ExitMoves
  <2>4. InScan'
    BY <1>e, <1>l, <2>1, <2>2, <2>3 DEF InScan, Condemned
  <2>5. Rounds' /\ RunningOK' /\ CalledOK'
    BY <1>1, <1>l, <2>2, <2>3
       DEF ExitInv, Rounds, RunningOK, CalledOK, StopsKept, Stops, CallsKept
  <2>. QED
    BY <2>4, <2>5 DEF ExitInv
<1>7. CASE ExitUnlink
  <2>1. Active("exit") /\ Top.at = "unlink" /\ Top.p \in Process
    BY <1>7, <1>e DEF ExitUnlink, ExitAt
  <2>2. PICK f : Turned(f) /\ IsScan(f, Next_(Top.p))
    BY <1>1, <1>7, ExitMoves
  <2>3. /\ AnyExit' /\ (\A c : Scans(c)' => c = Next_(Top.p)) /\ CallsKept
        /\ \A p : Top.p # p /\ Stops(p) => Stops(p)'
    BY <1>e, <2>1, <2>2, TurnKept DEF IsScan, Stops
  <2>4. /\ UNCHANGED <<another, running, called>>
        /\ marked' = [marked EXCEPT ![Top.p] = FALSE]
        /\ Top.p \in Listed => list' = Without(Top.p)
        /\ Top.p \notin Listed => list' = list
    BY <1>7 DEF ExitUnlink
  <2>5. /\ Listed' = Listed \ {Top.p}
        /\ \A p, q \in Listed' : Before(p, q) => Before(p, q)'
    <3>1. CASE Top.p \in Listed
      BY <1>1, <2>4, <3>1, OrderUnlinked
    <3>2. CASE Top.p \notin Listed
      BY <1>l, <2>4, <3>2 DEF Before
    <3>. QED
      BY <3>1, <3>2
  <2>6. Condemned' \subseteq Condemned /\ Top.p \notin Condemned'
    BY <1>1, <2>4, <2>5 DEF Condemned
  <2>n. PICK n : n = Next_(Top.p)
    OBVIOUS
  <2>7. ASSUME ~another, NEW q \in Condemned' PROVE q \in Ahead(n)'
    <3>1. q \in Ahead(Top.p) /\ q # Top.p /\ q \in Listed'
      BY <1>e, <2>1, <2>6, <2>7 DEF Condemned
    <3>2. n \in Listed /\ q \in Ahead(n)
      BY <1>1, <2>n, <3>1, ScanGoesOn
    <3>3. n # Top.p
      <4>1. Top.p \in Listed /\ n # NULL
        BY <1>1, <3>1, <3>2 DEF Ahead
      <4>2. Before(Top.p, n)
        BY <1>1, <2>n, <4>1, NextInOrder
      <4>. QED
        BY <1>1, <2>1, <3>2, <4>2, ListOrder
    <3>4. n \in Listed' /\ (n = q \/ Before(n, q)')
      BY <2>5, <3>1, <3>2, <3>3 DEF Ahead
    <3>. QED
      BY <3>1, <3>4 DEF Ahead
  <2>8. InScan'
    BY <2>3, <2>4, <2>7, <2>n DEF InScan
  <2>9. Rounds' /\ RunningOK'
    BY <1>1, <2>3, <2>4, <2>5 DEF ExitInv, Rounds, RunningOK
  <2>10. CalledOK'
    BY <1>1, <2>3, <2>4, <2>5 DEF ExitInv, CalledOK, CallsKept
  <2>. QED
    BY <2>8, <2>9, <2>10 DEF ExitInv
<1>8. CASE ExitRound
  <2>1. Active("exit") /\ Top.at = "scan"
    BY <1>8 DEF ExitRound, ExitAt
  <2>2. PICK f : Turned(f) /\ IsScan(f, First)
    BY <1>1, <1>8, ExitMoves
  <2>3. AnyExit' /\ (\A c : Scans(c)' => c = First) /\ StopsKept /\ CallsKept
    BY <1>e, <2>1, <2>2, TurnKept DEF IsScan, StopsKept
  <2>4. UNCHANGED <<list, marked, running, called>>
    BY <1>8 DEF ExitRound, flags
  <2>5. Condemned \subseteq Ahead(First)
    BY <1>1, NextInOrder DEF Condemned, Ahead
  <2>6. InScan'
    BY <1>l, <2>3, <2>4, <2>5 DEF InScan, Condemned
  <2>7. Rounds' /\ RunningOK' /\ CalledOK'
    BY <1>1, <1>l, <2>3, <2>4
       DEF ExitInv, Rounds, RunningOK, CalledOK, StopsKept, Stops, CallsKept
  <2>. QED
    BY <2>6, <2>7 DEF ExitInv
<1>9. CASE ExitReturn
  <2>1. Active("exit") /\ Top.at = "scan" /\ Top.p = NULL /\ ~another
    BY <1>9 DEF ExitReturn, ExitAt
  <2>2. StopsKept /\ CallsKept
    BY <1>1, <1>9, <1>e, <2>1, ExitMoves, PopKept
  <2>3. UNCHANGED <<list, marked, another, running, called>>
    BY <1>9 DEF ExitReturn, flags
  <2>4. Condemned = {}
    BY <1>1, <1>e, <2>1 DEF Ahead
  <2>5. Condemned' = {}
    BY <1>l, <2>3, <2>4 DEF Condemned
  <2>6. InScan' /\ Rounds'
    BY <2>1, <2>3, <2>5 DEF InScan, Rounds
  <2>7. RunningOK' /\ CalledOK'
    BY <1>1, <1>l, <2>2, <2>3
       DEF ExitInv, RunningOK, CalledOK, StopsKept, Stops, CallsKept
  <2>. QED
    BY <2>6, <2>7 DEF ExitInv
<1>. QED
  BY <1>2, <1>3, <1>4, <1>5, <1>6, <1>7, <1>8, <1>9
LEMMA DeliverKeepsExits ==
    ASSUME KInv, Len(stack) \in Nat \ {0}, Top.fn \notin {"exit", "thread"},
           NEW run, NEW p, NEW ev, NEW f, f.fn # "exit", Delivers(run, p, ev, f),
           UNCHANGED <<list, marked, another>>,
           \A q \in Listed : running[q] => running'[q]
    PROVE  ExitInv'
<1>1. /\ ExitInv /\ Listed \subseteq Process /\ called \in [Process -> BOOLEAN]
  BY Pointers DEF KInv, IInv, TypeOK
<1>2. CASE run /\ ~called[p]
  <2>1. PICK g : TurnedPushed(f, g) /\ IsThread(g, p)
    BY <1>2 DEF Delivers
  <2>2. Undisturbed /\ InCall(p)'
    BY <2>1, TurnPushKept DEF IsThread
  <2>3. called' = [called EXCEPT ![p] = TRUE]
    BY <1>2 DEF Delivers
  <2>4. \A q \in Listed : called'[q] => called[q] \/ InCall(q)'
    BY <1>1, <2>2, <2>3
  <2>. QED
    BY <1>1, <2>2, <2>4, UndisturbedKeeps
<1>3. CASE ~(run /\ ~called[p])
  <2>1. Turned(f) /\ called' = called
    BY <1>3 DEF Delivers
  <2>2. Undisturbed
    BY <2>1, TurnKept DEF Undisturbed
  <2>. QED
    BY <1>1, <2>1, <2>2, UndisturbedKeeps
<1>. QED
  BY <1>2, <1>3

LEMMA EventStepsKeepExits ==
    ASSUME KInv,
           \/ NextEvent
           \/ TakeBroadcast \/ TakeDirect \/ EventReturn
           \/ BroadcastPoll \/ BroadcastDeliver \/ BroadcastAdvance
           \/ PollDeliver \/ PollAdvance \/ PollReturn
    PROVE  ExitInv'
<1>1. /\ IInv /\ ExitInv /\ Len(stack) \in Nat /\ running \in [Process -> BOOLEAN]
  BY StackMoves DEF KInv, IInv, TypeOK
<1>2. UNCHANGED <<list, marked, another>>
  BY DEF NextEvent, TakeBroadcast, TakeDirect, EventReturn, BroadcastPoll,
         BroadcastDeliver, BroadcastAdvance, PollDeliver, PollAdvance,
         PollReturn, flags
<1>3. ASSUME Active("event") \/ Active("poll")
      PROVE  Len(stack) \in Nat \ {0} /\ Top.fn \in {"event", "poll"}
  BY <1>1, <1>3, EventMoves, TopMoves DEF IInv, TypeOK
<1>4. ASSUME Undisturbed, UNCHANGED <<running, called>> PROVE ExitInv'
  BY <1>1, <1>2, <1>4, UndisturbedKeeps
<1>5. CASE NextEvent
  <2>1. Undisturbed
    BY <1>1, <1>5, EventMoves, PushKept, PushTwoKept DEF IsPoll
  <2>. QED
    BY <1>4, <1>5, <2>1 DEF NextEvent, flags
<1>6. CASE TakeBroadcast \/ BroadcastAdvance \/ PollAdvance
  <2>1. (Active("event") \/ Active("poll")) /\ UNCHANGED <<running, called>>
    BY <1>6 DEF TakeBroadcast, BroadcastAdvance, PollAdvance, EventAt, PollAt, flags
  <2>2. PICK f : Turned(f) /\ f.fn \in {"event", "poll"}
    BY <1>1, <1>6, EventMoves DEF IsEvent, IsPoll
  <2>3. Undisturbed
    BY <1>3, <2>1, <2>2, TurnKept DEF Undisturbed
  <2>. QED
    BY <1>4, <2>1, <2>3
<1>7. CASE EventReturn \/ PollReturn
  <2>1. /\ Active("event") \/ Active("poll")
        /\ PoppedOne /\ UNCHANGED <<running, called>>
    BY <1>1, <1>7, EventMoves DEF EventReturn, PollReturn, flags
  <2>2. Undisturbed
    BY <1>3, <2>1, PopKept DEF Undisturbed
  <2>. QED
    BY <1>4, <2>1, <2>2
<1>8. CASE BroadcastPoll
  <2>1. Active("event") /\ UNCHANGED <<running, called>>
    BY <1>8 DEF BroadcastPoll, EventAt, flags
  <2>2. PICK f, g : /\ TurnedPushed(f, g) /\ IsEvent(f, "deliver", Top.p)
                    /\ IsPoll(g, "look", First)
    BY <1>1, <1>8, EventMoves
  <2>3. Undisturbed
    BY <1>3, <2>1, <2>2, TurnPushKept DEF IsEvent, IsPoll
  <2>. QED
    BY <1>4, <2>1, <2>3
<1>9. CASE TakeDirect
  <2>0. PICK p \in Process, ev \in Posted : \E f :
            /\ running' = [running EXCEPT ![p] = (ev = "INIT") \/ running[p]]
            /\ Delivers(running'[p], p, ev, f)
            /\ IsEvent(f, "each", Top.p)
    BY <1>1, <1>9, EventMoves
  <2>1. PICK f : /\ running' = [running EXCEPT ![p] = (ev = "INIT") \/ running[p]]
                 /\ Delivers(running'[p], p, ev, f)
                 /\ IsEvent(f, "each", Top.p)
    BY <2>0
  <2>2. Active("event")
    BY <1>9 DEF TakeDirect, EventAt
  <2>3. \A q \in Listed : running[q] => running'[q]
    BY <1>1, <2>1
  <2>. QED
    BY <1>2, <1>3, <2>1, <2>2, <2>3, DeliverKeepsExits DEF IsEvent
<1>10. CASE BroadcastDeliver
  <2>1. PICK f : Delivers(running[Top.p], Top.p, Top.ev, f) /\ IsEvent(f, "advance", Top.p)
    BY <1>1, <1>10, EventMoves
  <2>2. Active("event") /\ running' = running
    BY <1>10 DEF BroadcastDeliver, EventAt
  <2>. QED
    BY <1>2, <1>3, <2>1, <2>2, DeliverKeepsExits DEF IsEvent
<1>11. CASE PollDeliver
  <2>1. PICK f : Delivers(TRUE, Top.p, "POLL", f) /\ IsPoll(f, "advance", Top.p)
    BY <1>1, <1>11, EventMoves
  <2>2. Active("poll") /\ \A q \in Listed : running[q] => running'[q]
    BY <1>1, <1>11 DEF PollDeliver, PollAt
  <2>. QED
    BY <1>2, <1>3, <2>1, <2>2, DeliverKeepsExits DEF IsPoll
<1>. QED
  BY <1>5, <1>6, <1>7, <1>8, <1>9, <1>10, <1>11

\* When the system is initialised again nothing is under way.
LEMMA InitializeKeepsExits ==
    ASSUME KInv, Initialize PROVE ExitInv'
<1>1. Listed' = {}
  BY DEF Initialize, Listed
<1>2. /\ stack = <<>> /\ stack' = <<>> /\ another' = another /\ Len(<<>>) = 0
  BY DEF Initialize, AtRest
<1>3. ~AnyExit
  BY <1>2 DEF AnyExit
<1>4. ~another
  BY <1>3 DEF KInv, ExitInv, Rounds
<1>. QED
  BY <1>1, <1>2, <1>4 DEF ExitInv, InScan, Rounds, RunningOK, CalledOK, Condemned

LEMMA ExitInvInit == Init => ExitInv
  BY DEF Init, ExitInv, InScan, Rounds, RunningOK, CalledOK, Condemned, Listed

LEMMA ExitInvKept == KInv /\ [Next]_vars => ExitInv'
<1>1. KInv /\ UNCHANGED vars => ExitInv'
  <2>. SUFFICES ASSUME KInv, UNCHANGED vars PROVE ExitInv'
    OBVIOUS
  <2>1. ExitInv /\ UNCHANGED <<list, marked, another, running, called, stack>>
    BY DEF KInv, vars, flags
  <2>. QED
    BY <2>1, StackKept, UndisturbedKeeps
<1>. QED
  BY <1>1, CallsKeepExits, ReturnKeepsExits, ExitStepsKeepExits,
     EventStepsKeepExits, InitializeKeepsExits DEF Next, KernelStep

LEMMA KernelInvariant == Spec => []KInv
<1>1. Init => ExitInv
  BY ExitInvInit
<1>2. IInv /\ ListIsSimple /\ ExitInv /\ [Next]_vars => ExitInv'
  BY ExitInvKept DEF KInv
<1>3. Spec => []IInv
  BY TypeInit, NextKeeps, PTL DEF Spec
<1>4. KInv <=> IInv /\ ListIsSimple /\ ExitInv
  BY DEF KInv
<1>. QED
  BY <1>1, <1>2, <1>3, <1>4, ListIsSimpleCorrect, PTL DEF Spec

\* exit_process never returns while a process that a nested exit condemned, or
\* that ended on EXITED, is still on the list: whatever the threads start, exit
\* and call while it is under way, every such process is ahead of its scan or
\* has another round coming.
THEOREM ExitsAllMarkedCorrect == Spec => []ExitsAllMarked
<1>1. KInv => ExitsAllMarked
  <2>1. SUFFICES ASSUME KInv, ExitAt("scan"), Top.p = NULL, ~another,
                        NEW p \in Listed, marked[p]
                 PROVE  FALSE
    BY DEF ExitsAllMarked
  <2>2. /\ IInv /\ stack # <<>> /\ Top.fn = "exit" /\ Len(stack) \in Nat \ {0}
        /\ Listed \subseteq Process
    BY <2>1, TopMoves, Pointers DEF ExitAt, Active, KInv, IInv, TypeOK
  <2>3. Len(stack) \in 1..Len(stack) /\ \A e \in 1..Len(stack) : ~(e > Len(stack))
    BY <2>2
  <2>4. Scans(NULL)
    BY <2>1, <2>2, <2>3 DEF Scans, Top
  <2>5. p \in Ahead(NULL)
    BY <2>1, <2>4 DEF KInv, ExitInv, InScan, Condemned
  <2>. QED
    BY <2>2, <2>5 DEF Ahead
<1>. QED
  BY <1>1, KernelInvariant, PTL

\* At rest nothing is left over from the calls made before: the bits of a
\* listed process are those of one that runs, since no exit and no call that
\* could account for any other value is under way.
THEOREM SettledCorrect == Spec => []Settled
<1>1. KInv => Settled
  <2>1. SUFFICES ASSUME KInv, AtRest, NEW p \in Listed
                 PROVE  running[p] /\ ~called[p] /\ ~marked[p]
    BY DEF Settled
  <2>2. stack = <<>> /\ Len(<<>>) = 0
    BY <2>1 DEF AtRest
  <2>3. ~AnyExit /\ ~Stops(p) /\ ~InCall(p)
    BY <2>2 DEF AnyExit, Stops, StopsAbove, InCall
  <2>. QED
    BY <2>1, <2>3 DEF KInv, ExitInv, Rounds, RunningOK, CalledOK, Condemned
<1>. QED
  BY <1>1, KernelInvariant, PTL
-----------------------------------------------------------------------------
(***************************************************************************)
(* Walks of the list.  A walk may have come to a block that has left the   *)
(* list: it goes on from the ->next that is left in it.                    *)
(***************************************************************************)
\* The blocks that a walk at p comes to, p's own excepted, in so far as one
\* list shows them.
Follows(p) == IF p \in Listed THEN {q \in Listed : Before(p, q)}
                              ELSE {stale[p]} \ {NULL}

Closed(S) == \A p \in S : Follows(p) \subseteq S

\* A walk that has come to c is at p or will come to it: p is in every set
\* that the walk cannot leave.
Reaches(c, p) ==
    c # NULL /\ \A S \in SUBSET Process : c \in S /\ Closed(S) => p \in S

LEMMA HeadReaches ==
    ASSUME TypeOK, ListIsSimple, NEW p \in Listed
    PROVE  Reaches(First, p)
<1>1. First \in Listed /\ (p = First \/ Before(First, p)) /\ Listed \subseteq Process
  BY NextInOrder, Pointers
<1>. QED
  BY <1>1 DEF Reaches, Closed, Follows

\* A walk that goes on from c to c->next reaches all that it had to, but c.
LEMMA WalkGoesOn ==
    ASSUME TypeOK, ListIsSimple, NEW c \in Process, NEW p \in Process,
           Reaches(c, p), p # c
    PROVE  Reaches(Next_(c), p)
<1>1. Next_(c) \in Ptr /\ Listed \subseteq Process
  BY Pointers
<1>2. ASSUME NEW S \in SUBSET Process, Closed(S), Next_(c) # NULL => Next_(c) \in S
      PROVE  p \in S
  <2>1. Follows(c) \subseteq S
    <3>1. CASE c \notin Listed
      BY <1>2, <3>1 DEF Follows, Next_
    <3>2. CASE c \in Listed
      <4>1. SUFFICES ASSUME NEW q \in Listed, Before(c, q) PROVE q \in S
        BY <3>2 DEF Follows
      <4>2. /\ Next_(c) # NULL /\ Before(c, Next_(c))
            /\ q = Next_(c) \/ Before(Next_(c), q)
        BY <3>2, <4>1, NextInOrder
      <4>3. Next_(c) \in Listed /\ Next_(c) \in S
        BY <1>2, <4>2 DEF Before, Listed
      <4>4. Follows(Next_(c)) \subseteq S
        BY <1>2, <4>3 DEF Closed
      <4>. QED
        BY <4>1, <4>2, <4>3, <4>4 DEF Follows
    <3>. QED
      BY <3>1, <3>2
  <2>2. Closed(S \cup {c})
    BY <1>2, <2>1 DEF Closed
  <2>3. p \in S \cup {c}
    BY <2>2 DEF Reaches
  <2>. QED
    BY <2>3
<1>3. Next_(c) # NULL
  <2>1. SUFFICES ASSUME Next_(c) = NULL PROVE FALSE
    OBVIOUS
  <2>2. Closed({})
    BY DEF Closed
  <2>. QED
    BY <1>2, <2>1, <2>2
<1>. QED
  BY <1>2, <1>3 DEF Reaches

\* What a walk reaches it still reaches when another block leaves the list,
\* although the walk may be at that block, or come to it.
LEMMA UnlinkKeepsReach ==
    ASSUME TypeOK, ListIsSimple, NEW y \in Listed, list' = Without(y),
           stale' = [stale EXCEPT ![y] = Next_(y)],
           NEW c, NEW p \in Process, Reaches(c, p), p # y
    PROVE  Reaches(c, p)'
<1>1. /\ Listed' = Listed \ {y}
      /\ \A q, r \in Listed \ {y} : Before(q, r)' <=> Before(q, r)
      /\ y \in Process /\ Listed \subseteq Process /\ stale \in [Process -> Ptr]
  BY OrderUnlinked, Pointers DEF TypeOK
<1>2. /\ stale'[y] = Next_(y)
      /\ \A q \in Process \ {y} : stale'[q] = stale[q]
  BY <1>1
<1>f. ASSUME NEW q \in Process
      PROVE  /\ q \in Listed /\ q # y => Follows(q)' = Follows(q) \ {y}
             /\ q \notin Listed => Follows(q)' = Follows(q)
             /\ Follows(y)' = {Next_(y)} \ {NULL}
  BY <1>1, <1>2 DEF Follows
<1>3. ASSUME NEW S \in SUBSET Process, c \in S, Closed(S)' PROVE p \in S
  \* A set closed before: y is missing from S only if y came after some block
  \* of S, and then so does all that comes after y.
  <2>. DEFINE T == S \cup {y}
  <2>c. \A q \in S : Follows(q)' \subseteq S
    BY <1>3 DEF Closed
  <2>1. ASSUME NEW q \in S, q # y PROVE Follows(q) \subseteq T
    <3>1. Follows(q)' \subseteq S
      BY <2>c
    <3>. QED
      BY <1>f, <3>1, <2>1
  <2>2. CASE y \in S
    <3>1. Follows(y) \subseteq S
      <4>1. SUFFICES ASSUME NEW r \in Listed, Before(y, r) PROVE r \in S
        BY DEF Follows
      <4>2. PICK n : n = Next_(y)
        OBVIOUS
      <4>3. n # NULL /\ Before(y, n) /\ (r = n \/ Before(n, r))
        BY <4>1, <4>2, NextInOrder
      <4>4. n \in Listed /\ n # y /\ r # y
        BY <1>1, <4>1, <4>3, ListOrder, NextInOrder DEF Before, Listed
      <4>5. n \in S
        BY <1>f, <1>1, <2>2, <2>c, <4>2, <4>3
      <4>6. r = n \/ r \in Follows(n)'
        BY <1>f, <1>1, <4>1, <4>3, <4>4 DEF Follows
      <4>. QED
        BY <2>c, <4>5, <4>6
    <3>2. Closed(S)
      BY <2>1, <2>2, <3>1 DEF Closed
    <3>. QED
      BY <1>3, <3>2 DEF Reaches
  <2>3. CASE \E q \in S : q \in Listed /\ Before(q, y)
    <3>1. PICK q \in S : q \in Listed /\ Before(q, y)
      BY <2>3
    <3>2. q # y
      BY <1>1, <3>1, ListOrder
    <3>3. Follows(y) \subseteq Follows(q) \ {y}
      BY <1>1, <3>1, ListOrder DEF Follows
    <3>4. Follows(y) \subseteq S
      BY <1>f, <1>1, <2>c, <3>1, <3>2, <3>3
    <3>5. Closed(T)
      BY <2>1, <3>4 DEF Closed
    <3>6. p \in T
      BY <1>1, <1>3, <3>5 DEF Reaches
    <3>. QED
      BY <3>6
  <2>4. CASE y \notin S /\ \A q \in S : q \in Listed => ~Before(q, y)
    <3>1. ASSUME NEW q \in S PROVE Follows(q) \subseteq S
      <4>1. q # y /\ Follows(q)' \subseteq S
        BY <2>4, <2>c
      <4>2. y \notin Follows(q) \/ q \notin Listed
        BY <2>4, <3>1 DEF Follows
      <4>. QED
        BY <1>f, <4>1, <4>2
    <3>2. Closed(S)
      BY <3>1 DEF Closed
    <3>. QED
      BY <1>3, <3>2 DEF Reaches
  <2>. QED
    BY <2>2, <2>3, <2>4
<1>. QED
  BY <1>3 DEF Reaches

\* Nor does a walk miss anything when a block is linked at the head, even if it
\* is at that block's earlier self: it then walks the list anew.
LEMMA StartKeepsReach ==
    ASSUME TypeOK, ListIsSimple, NEW y \in Process, Start(y),
           NEW c, NEW p \in Listed, Reaches(c, p)
    PROVE  Reaches(c, p)'
<1>1. /\ y \notin Listed /\ Listed' = Listed \cup {y} /\ stale' = stale
      /\ \A q, r \in Listed : Before(q, r)' <=> Before(q, r)
      /\ \A r \in Listed : Before(y, r)'
  BY OrderLinked DEF Start
<1>2. ASSUME NEW S \in SUBSET Process, c \in S, Closed(S)' PROVE p \in S
  <2>c. \A q \in S : Follows(q)' \subseteq S
    BY <1>2 DEF Closed
  <2>1. CASE y \in S
    <3>1. p \in Follows(y)'
      BY <1>1 DEF Follows
    <3>. QED
      BY <2>1, <2>c, <3>1
  <2>2. CASE y \notin S
    <3>1. ASSUME NEW q \in S PROVE Follows(q) \subseteq S
      <4>1. q # y
        BY <2>2
      <4>2. Follows(q) \subseteq Follows(q)'
        BY <1>1, <4>1 DEF Follows
      <4>. QED
        BY <2>c, <4>2
    <3>2. Closed(S)
      BY <3>1 DEF Closed
    <3>. QED
      BY <1>2, <3>2 DEF Reaches
  <2>. QED
    BY <2>1, <2>2
<1>. QED
  BY <1>2 DEF Reaches
-----------------------------------------------------------------------------
(***************************************************************************)
(* Walks under way.                                                        *)
(***************************************************************************)
\* The frames whose walk has processes to reach, where it is, and whether it is
\* done with the process it is at.
Walking(f) == \/ f.fn = "exit" /\ f.at = "notify"
              \/ f.fn = "event" /\ f.at # "take"
              \/ f.fn = "poll"
Cursor(f)  == IF f.fn = "exit" THEN f.q ELSE f.p
Passed(d)  == IF stack[d].fn = "exit" THEN d < Len(stack)
                                      ELSE stack[d].at = "advance"

\* The walk of the frame d will reach p, and will find it to be one of those it
\* is for.
Owed(d, p) ==
    /\ d \in 1..Len(stack)
    /\ Walking(stack[d])
    /\ Reaches(Cursor(stack[d]), p)
    /\ Passed(d) => p # Cursor(stack[d])
    /\ stack[d].fn = "exit" => p # stack[d].p /\ (running[p] \/ StopsAbove(d, p))
    /\ stack[d].fn = "poll" => needspoll[p]

DueOK == \A d \in Nat, p \in Process :
            <<d, p>> \in due => p \in Listed /\ (d # 0 => Owed(d, p))

\* Broadcasts and rounds of polls run at the bottom of the stack: no thread and
\* no exit is suspended below them.
BottomUp == \A d \in 1..Len(stack) : stack[d].fn \in {"event", "poll"} =>
               \A e \in 1..Len(stack) : e < d => stack[e].fn = "event"

WalkInv == BottomUp /\ DueOK /\ PollIsPending

\* What is owed by a frame that stays as it is remains owed, if the process is
\* not unlinked, stopped or polled.
LEMMA OwedKept ==
    ASSUME NEW d \in Nat, NEW p \in Process, Owed(d, p),
           Len(stack) \in Nat, d \in 1..Len(stack'), stack'[d] = stack[d],
           \/ d < Len(stack) \/ stack[d].fn # "exit"
           \/ Len(stack') = Len(stack),
           \A c : Reaches(c, p) => Reaches(c, p)',
           StopsKept \/ (StopsAbove(d, p) => StopsAbove(d, p)'),
           running[p] => running'[p] \/ StopsAbove(d, p)',
           stack[d].fn = "poll" => needspoll'[p]
    PROVE  Owed(d, p)'
<1>1. d \in 1..Len(stack) /\ Walking(stack[d])
  BY DEF Owed
<1>2. Reaches(Cursor(stack[d]), p)'
  <2>1. PICK c : c = Cursor(stack[d])
    OBVIOUS
  <2>2. Cursor(stack'[d]) = c
    BY <2>1
  <2>3. Reaches(c, p)'
    BY <2>1 DEF Owed
  <2>. QED
    BY <2>2, <2>3
<1>3. Passed(d)' => Passed(d)
  BY <1>1 DEF Passed
<1>4. StopsAbove(d, p) => StopsAbove(d, p)'
  BY DEF StopsKept
<1>. QED
  BY <1>1, <1>2, <1>3, <1>4 DEF Owed

LEMMA ReachUnchanged ==
    ASSUME list' = list, stale' = stale, NEW c, NEW p
    PROVE  Reaches(c, p)' <=> Reaches(c, p)
  BY DEF Reaches, Closed, Follows, Listed, Before

\* While do_event or do_poll executes, every listed process runs and is not in
\* a call.
LEMMA BottomIsQuiet ==
    ASSUME KInv, BottomUp, Active("event") \/ Active("poll"), NEW p \in Listed
    PROVE  running[p] /\ ~called[p] /\ ~marked[p]
<1>1. /\ Len(stack) \in Nat \ {0} /\ stack[Len(stack)].fn \in {"event", "poll"}
  BY EventMoves, TopMoves DEF KInv, IInv, TypeOK, Top
<1>2. \A d \in 1..Len(stack) : stack[d].fn \in {"event", "poll"}
  <2>1. ASSUME NEW d \in 1..Len(stack) PROVE stack[d].fn \in {"event", "poll"}
    <3>1. d < Len(stack) \/ d = Len(stack)
      BY <1>1
    <3>2. Len(stack) \in 1..Len(stack)
      BY <1>1
    <3>. QED
      BY <1>1, <3>1, <3>2 DEF BottomUp
  <2>. QED
    BY <2>1
<1>3. ~AnyExit /\ ~Stops(p) /\ ~InCall(p)
  BY <1>2 DEF AnyExit, Stops, StopsAbove, InCall
<1>. QED
  BY <1>3 DEF KInv, ExitInv, Rounds, RunningOK, CalledOK, Condemned

\* The order of the frames, step by step.
LEMMA BottomUpKept ==
    ASSUME BottomUp, Len(stack) \in Nat
    PROVE  /\ stack' = stack => BottomUp'
           /\ \A f : Pushed(f) /\ f.fn \notin {"event", "poll"} => BottomUp'
           /\ \A f : Pushed(f) /\ Len(stack) = 0 => BottomUp'
           /\ \A f, g : PushedTwo(f, g) /\ ((Len(stack) = 0 /\ f.fn = "event")
                     \/ (f.fn \notin {"event", "poll"} /\ g.fn \notin {"event", "poll"}))
                            => BottomUp'
           /\ Len(stack) # 0 /\ PoppedOne => BottomUp'
           /\ \A f : Len(stack) # 0 /\ Turned(f)
                     /\ (f.fn \notin {"event", "poll"} \/ Top.fn \in {"event", "poll"})
                            => BottomUp'
           /\ \A f, g : Len(stack) # 0 /\ TurnedPushed(f, g)
                     /\ (f.fn \notin {"event", "poll"} \/ Top.fn \in {"event", "poll"})
                     /\ (g.fn \notin {"event", "poll"} \/ f.fn = "event")
                            => BottomUp'
           /\ \A f : Len(stack) > 1 /\ PoppedTurned(f) /\ f.fn \notin {"event", "poll"}
                            => BottomUp'
<1>. DEFINE n == Len(stack)
<1>0. n \in Nat
  OBVIOUS
<1>s. ASSUME \A d \in 1..Len(stack') : stack'[d].fn \in {"event", "poll"} =>
                \A e \in 1..Len(stack') : e < d => stack'[e].fn = "event"
      PROVE  BottomUp'
  BY <1>s DEF BottomUp
\* The frames that stay keep their order.
<1>k. ASSUME NEW k \in Nat, k <= n, \A i \in 1..k : stack'[i] = stack[i],
             NEW d \in 1..k, stack'[d].fn \in {"event", "poll"},
             NEW e \in Nat, e # 0, e < d
      PROVE  stack'[e].fn = "event"
  <2>1. d \in 1..n /\ e \in 1..n /\ e \in 1..k
    BY <1>0, <1>k
  <2>. QED
    BY <1>k, <2>1 DEF BottomUp
<1>1. stack' = stack => BottomUp'
  BY DEF BottomUp
<1>2. ASSUME NEW f, Pushed(f), f.fn \notin {"event", "poll"} \/ n = 0 PROVE BottomUp'
  <2>1. \A d \in 1..Len(stack') : d \in 1..n \/ d = n + 1
    BY <1>0, <1>2 DEF Pushed
  <2>2. ASSUME NEW d \in 1..Len(stack'), stack'[d].fn \in {"event", "poll"},
               NEW e \in 1..Len(stack'), e < d
        PROVE  stack'[e].fn = "event"
    <3>1. d \in 1..n
      BY <1>0, <1>2, <2>1, <2>2 DEF Pushed
    <3>. QED
      BY <1>0, <1>2, <1>k, <2>2, <3>1 DEF Pushed
  <2>. QED
    BY <1>s, <2>2
<1>3. ASSUME NEW f, NEW g, PushedTwo(f, g),
             \/ n = 0 /\ f.fn = "event"
             \/ f.fn \notin {"event", "poll"} /\ g.fn \notin {"event", "poll"}
      PROVE  BottomUp'
  <2>1. \A d \in 1..Len(stack') : d \in 1..n \/ d = n + 1 \/ d = n + 2
    BY <1>0, <1>3 DEF PushedTwo
  <2>2. ASSUME NEW d \in 1..Len(stack'), stack'[d].fn \in {"event", "poll"},
               NEW e \in 1..Len(stack'), e < d
        PROVE  stack'[e].fn = "event"
    <3>1. CASE d \in 1..n
      BY <1>0, <1>3, <1>k, <2>2, <3>1 DEF PushedTwo
    <3>2. CASE d \notin 1..n
      <4>1. n = 0 /\ f.fn = "event" /\ stack'[1] = f
        BY <1>0, <1>3, <2>1, <2>2, <3>2 DEF PushedTwo
      <4>2. e = 1
        BY <2>1, <2>2, <4>1
      <4>. QED
        BY <4>1, <4>2
    <3>. QED
      BY <3>1, <3>2
  <2>. QED
    BY <1>s, <2>2
<1>4. ASSUME n # 0, PoppedOne PROVE BottomUp'
  <2>1. n - 1 \in Nat /\ n - 1 <= n /\ Len(stack') = n - 1
    BY <1>0, <1>4 DEF PoppedOne
  <2>. QED
    BY <1>4, <1>s, <1>k, <2>1 DEF PoppedOne
<1>5. ASSUME NEW f, n # 0, \A i \in 1..(n - 1) : stack'[i] = stack[i],
             f.fn \notin {"event", "poll"} \/ Top.fn \in {"event", "poll"},
             stack'[n] = f, Len(stack') = n
      PROVE  BottomUp'
  <2>1. n - 1 \in Nat /\ n - 1 <= n /\ n \in 1..n /\ Top = stack[n]
    BY <1>0, <1>5 DEF Top
  <2>2. \A d \in 1..Len(stack') : d \in 1..(n - 1) \/ d = n
    BY <1>0, <1>5
  <2>3. ASSUME NEW d \in 1..Len(stack'), stack'[d].fn \in {"event", "poll"},
               NEW e \in 1..Len(stack'), e < d
        PROVE  stack'[e].fn = "event"
    <3>1. CASE d \in 1..(n - 1)
      BY <1>5, <1>k, <2>1, <2>3, <3>1
    <3>2. CASE d = n
      <4>1. e \in 1..(n - 1) /\ e \in 1..n /\ e < n
        BY <1>0, <1>5, <2>3, <3>2
      <4>2. stack[e].fn = "event"
        BY <1>5, <2>1, <2>3, <3>2, <4>1 DEF BottomUp
      <4>. QED
        BY <1>5, <4>1, <4>2
    <3>. QED
      BY <2>2, <3>1, <3>2
  <2>. QED
    BY <1>s, <2>3
<1>6. ASSUME NEW f, NEW g, n # 0, TurnedPushed(f, g),
             f.fn \notin {"event", "poll"} \/ Top.fn \in {"event", "poll"},
             g.fn \notin {"event", "poll"} \/ f.fn = "event"
      PROVE  BottomUp'
  <2>1. /\ n - 1 \in Nat /\ n - 1 <= n /\ n \in 1..n /\ Top = stack[n]
        /\ stack'[n] = f /\ stack'[n + 1] = g /\ Len(stack') = n + 1
        /\ \A i \in 1..(n - 1) : stack'[i] = stack[i]
    BY <1>0, <1>6 DEF Top, TurnedPushed
  <2>2. \A d \in 1..Len(stack') : d \in 1..(n - 1) \/ d = n \/ d = n + 1
    BY <1>0, <2>1
  <2>3. ASSUME NEW e \in 1..(n - 1), Top.fn \in {"event", "poll"}
        PROVE  stack'[e].fn = "event"
    <3>1. e \in 1..n /\ e < n
      BY <1>0
    <3>. QED
      BY <2>1, <2>3, <3>1 DEF BottomUp
  <2>4. ASSUME NEW d \in 1..Len(stack'), stack'[d].fn \in {"event", "poll"},
               NEW e \in 1..Len(stack'), e < d
        PROVE  stack'[e].fn = "event"
    <3>1. CASE d \in 1..(n - 1)
      BY <2>1, <1>k, <2>4, <3>1
    <3>2. CASE d = n
      <4>1. e \in 1..(n - 1)
        BY <1>0, <2>4, <3>2
      <4>. QED
        BY <1>6, <2>1, <2>3, <2>4, <3>2, <4>1
    <3>3. CASE d = n + 1
      <4>1. f.fn = "event" /\ Top.fn \in {"event", "poll"}
        BY <1>6, <2>1, <2>4, <3>3
      <4>2. e \in 1..(n - 1) \/ e = n
        BY <1>0, <2>2, <2>4, <3>3
      <4>. QED
        BY <2>1, <2>3, <4>1, <4>2
    <3>. QED
      BY <2>2, <3>1, <3>2, <3>3
  <2>. QED
    BY <1>s, <2>4
<1>7. ASSUME NEW f, n > 1, PoppedTurned(f), f.fn \notin {"event", "poll"}
      PROVE  BottomUp'
  <2>. DEFINE k == n - 2
  <2>1. /\ k \in Nat /\ k <= n
        /\ stack'[n - 1] = f /\ Len(stack') = n - 1
        /\ \A i \in 1..k : stack'[i] = stack[i]
    BY <1>0, <1>7 DEF PoppedTurned
  <2>2. \A d \in 1..Len(stack') : d \in 1..k \/ d = n - 1
    BY <1>0, <2>1
  <2>4. \A e \in 1..Len(stack') : e \in Nat /\ e # 0
    BY <1>0, <2>1
  <2>. HIDE DEF k
  <2>3. ASSUME NEW d \in 1..Len(stack'), stack'[d].fn \in {"event", "poll"},
               NEW e \in 1..Len(stack'), e < d
        PROVE  stack'[e].fn = "event"
    <3>1. d \in 1..k
      BY <1>7, <2>1, <2>2, <2>3
    <3>. QED
      BY <2>1, <1>k, <2>3, <2>4, <3>1
  <2>. QED
    BY <1>s, <2>3
<1>8. ASSUME NEW f, n # 0, Turned(f),
             f.fn \notin {"event", "poll"} \/ Top.fn \in {"event", "poll"}
      PROVE  BottomUp'
  BY <1>5, <1>8 DEF Turned
<1>. QED
  BY <1>1, <1>2, <1>3, <1>4, <1>6, <1>7, <1>8
\* Nothing is owed by a frame that does not walk, nor beyond the top.
LEMMA NothingOwed ==
    ASSUME DueOK, Len(stack) \in Nat, NEW d \in Nat, NEW p \in Process,
           <<d, p>> \in due
    PROVE  /\ p \in Listed /\ d <= Len(stack)
           /\ d = Len(stack) /\ d # 0 => Walking(Top) /\ Cursor(Top) # NULL
  BY DEF DueOK, Owed, Reaches, Top

\* A step that changes nothing that is owed: the frames up to k stay, and no
\* frame above k walks.
LEMMA QuietStep ==
    ASSUME DueOK, PollIsPending, Len(stack) \in Nat, Len(stack') \in Nat,
           UNCHANGED <<list, stale, due, poll_requested, needspoll>>,
           \A p \in Process : running[p] => running'[p],
           StopsKept, NEW k \in Nat, k <= Len(stack'), Upto(k),
           \/ k = Len(stack) /\ (k = 0 \/ Top.fn # "exit" \/ Len(stack') = Len(stack))
           \/ k = Len(stack) - 1 /\ ~(Walking(Top) /\ Cursor(Top) # NULL)
    PROVE  DueOK' /\ PollIsPending'
<1>1. Listed' = Listed
  BY DEF Listed
<1>2. ASSUME NEW d \in Nat, NEW p \in Process, <<d, p>> \in due
      PROVE  p \in Listed /\ d <= k
  BY <1>2, NothingOwed
<1>3. ASSUME NEW d \in Nat, NEW p \in Process, <<d, p>> \in due, d # 0
      PROVE  Owed(d, p)'
  <2>1. Owed(d, p) /\ d \in 1..k /\ d \in 1..Len(stack') /\ stack'[d] = stack[d]
    BY <1>2, <1>3 DEF DueOK
  <2>2. \/ d < Len(stack) \/ stack[d].fn # "exit"
        \/ Len(stack') = Len(stack)
    BY <2>1 DEF Top
  <2>3. running[p] => running'[p] \/ StopsAbove(d, p)'
    OBVIOUS
  <2>4. stack[d].fn = "poll" => needspoll'[p]
    BY <2>1 DEF Owed
  <2>5. \A c : Reaches(c, p) => Reaches(c, p)'
    BY ReachUnchanged
  <2>. QED
    BY <2>1, <2>2, <2>3, <2>4, <2>5, OwedKept
<1>4. DueOK'
  BY <1>1, <1>2, <1>3 DEF DueOK
<1>5. ASSUME NEW p \in Process, <<0, p>> \in due
      PROVE  /\ needspoll[p]
             /\ \/ poll_requested
                \/ \E d \in 1..Len(stack') : stack'[d].fn = "poll" /\ <<d, p>> \in due
  <2>1. needspoll[p] /\ (poll_requested \/ \E d \in 1..Len(stack) :
                                             stack[d].fn = "poll" /\ <<d, p>> \in due)
    BY <1>5 DEF PollIsPending
  <2>2. ASSUME NEW d \in 1..Len(stack), stack[d].fn = "poll", <<d, p>> \in due
        PROVE  d \in 1..Len(stack') /\ stack'[d].fn = "poll"
    <3>1. d \in Nat /\ d <= k
      BY <1>2, <2>2
    <3>. QED
      BY <2>2, <3>1
  <2>. QED
    BY <2>1, <2>2
<1>6. PollIsPending'
  BY <1>5 DEF PollIsPending
<1>. QED
  BY <1>4, <1>6

\* A call is made by a thread, or with an empty stack.
LEMMA CallersTop ==
    ASSUME TypeOK, NEW op, MayCall(op)
    PROVE  Len(stack) = 0 \/ Top.fn = "thread"
<1>1. Len(<<>>) = 0
  OBVIOUS
<1>. QED
  BY <1>1 DEF MayCall, AtRest, Active

LEMMA StartKeepsWalks ==
    ASSUME KInv, WalkInv, NEW y \in Process, Start(y) PROVE WalkInv'
<1>1. /\ TypeOK /\ ListIsSimple /\ IInv /\ Len(stack) \in Nat
      /\ BottomUp /\ DueOK /\ PollIsPending
      /\ running \in [Process -> BOOLEAN] /\ Listed \subseteq Process
  BY StackMoves, Pointers DEF KInv, IInv, TypeOK, WalkInv
<1>2. PICK f, g : PushedTwo(f, g) /\ f.fn = "sync" /\ IsThread(g, y)
  BY <1>1, CallMoves
<1>3. StopsKept /\ BottomUp'
  BY <1>1, <1>2, PushTwoKept, BottomUpKept DEF IsThread, Undisturbed
<1>4. /\ UNCHANGED <<due, needspoll, poll_requested>>
      /\ running' = [running EXCEPT ![y] = TRUE]
  BY DEF Start
<1>5. Listed' = Listed \cup {y}
  BY <1>1, OrderLinked
<1>6. Len(stack) = 0 \/ Top.fn = "thread"
  BY <1>1, CallersTop DEF Start
<1>7. ASSUME NEW d \in Nat, NEW p \in Process, <<d, p>> \in due, d # 0
      PROVE  Owed(d, p)'
  <2>1. Owed(d, p) /\ p \in Listed /\ d \in 1..Len(stack)
    BY <1>1, <1>7 DEF DueOK, Owed
  <2>2. d \in 1..Len(stack') /\ stack'[d] = stack[d]
    BY <1>1, <1>2, <2>1 DEF PushedTwo
  <2>3. d < Len(stack) \/ stack[d].fn # "exit"
    BY <1>1, <1>6, <2>1 DEF Top
  <2>4. \A c : Reaches(c, p) => Reaches(c, p)'
    BY <1>1, <2>1, StartKeepsReach
  <2>5. running[p] => running'[p] \/ StopsAbove(d, p)'
    BY <1>1, <1>4
  <2>6. stack[d].fn = "poll" => needspoll'[p]
    BY <1>4, <2>1 DEF Owed
  <2>. QED
    BY <1>1, <1>3, <2>1, <2>2, <2>3, <2>4, <2>5, <2>6, OwedKept
<1>8. DueOK'
  BY <1>1, <1>4, <1>5, <1>7 DEF DueOK
<1>9. ASSUME NEW p \in Process, <<0, p>> \in due, ~poll_requested
      PROVE  \E d \in 1..Len(stack') : stack'[d].fn = "poll" /\ <<d, p>> \in due
  <2>1. PICK d \in 1..Len(stack) : stack[d].fn = "poll" /\ <<d, p>> \in due
    BY <1>1, <1>9 DEF PollIsPending
  <2>. QED
    BY <1>1, <1>2, <2>1 DEF PushedTwo
<1>10. PollIsPending'
  BY <1>1, <1>4, <1>9 DEF PollIsPending
<1>. QED
  BY <1>3, <1>8, <1>10 DEF WalkInv

LEMMA CallsKeepWalks ==
    ASSUME KInv, WalkInv, AppCall PROVE WalkInv'
<1>1. /\ TypeOK /\ IInv /\ Len(stack) \in Nat /\ BottomUp /\ DueOK /\ PollIsPending
      /\ Listed \subseteq Process /\ needspoll \in [Process -> BOOLEAN]
  BY StackMoves, Pointers DEF KInv, IInv, TypeOK, WalkInv
<1>2. ASSUME NEW y \in Process, Exit(y) PROVE WalkInv'
  <2>1. PICK f : Pushed(f) /\ IsScan(f, First)
    BY <1>1, <1>2, CallMoves
  <2>2. StopsKept /\ BottomUp'
    BY <1>1, <2>1, PushKept, BottomUpKept DEF IsScan
  <2>3. UNCHANGED <<list, stale, due, poll_requested, needspoll, running>>
    BY <1>2 DEF Exit
  <2>4. Len(stack) = 0 \/ Top.fn = "thread"
    BY <1>1, <1>2, CallersTop DEF Exit
  <2>5. Len(stack') \in Nat /\ Len(stack) <= Len(stack') /\ Upto(Len(stack))
    BY <1>1, <2>1 DEF Pushed
  <2>. QED
    BY <1>1, <2>2, <2>3, <2>4, <2>5, QuietStep DEF WalkInv
<1>3. ASSUME NEW y \in Process, NEW ev \in Posted, PostSync(y, ev) PROVE WalkInv'
  <2>1. PICK f, g : PushedTwo(f, g) /\ f.fn = "sync" /\ IsThread(g, y)
    BY <1>1, <1>3, CallMoves
  <2>2. StopsKept /\ BottomUp'
    BY <1>1, <2>1, PushTwoKept, BottomUpKept DEF IsThread, Undisturbed
  <2>3. UNCHANGED <<list, stale, poll_requested, needspoll, running>>
    BY <1>3 DEF PostSync
  <2>4. due' = due
    <3>. DEFINE s == Append(stack, [fn |-> "sync", caller |-> current])
    <3>1. Len(s) = Len(stack) + 1
      BY <1>1, Appended DEF TypeOK
    <3>2. CallProcess(s, TRUE, y, ev)
      BY <1>3 DEF PostSync
    <3>. HIDE DEF s
    <3>3. ev # "POLL"
      OBVIOUS
    <3>4. due' = due \ {<<Len(stack) + 1, y>>} \/ due' = due
      BY <3>1, <3>2, <3>3 DEF CallProcess
    <3>5. Len(stack) + 1 \in Nat /\ ~(Len(stack) + 1 <= Len(stack))
      BY <1>1
    <3>6. <<Len(stack) + 1, y>> \notin due
      BY <1>1, <3>5, NothingOwed
    <3>. QED
      BY <3>4, <3>6
  <2>5. Len(stack) = 0 \/ Top.fn = "thread"
    BY <1>1, <1>3, CallersTop DEF PostSync
  <2>6. Len(stack') \in Nat /\ Len(stack) <= Len(stack') /\ Upto(Len(stack))
    BY <1>1, <2>1 DEF PushedTwo
  <2>. QED
    BY <1>1, <2>2, <2>3, <2>4, <2>5, <2>6, QuietStep DEF WalkInv
<1>4. ASSUME NEW r \in Ptr, NEW ev \in Posted, Post(r, ev) PROVE WalkInv'
  <2>1. UNCHANGED <<list, stale, due, poll_requested, needspoll, running, stack>>
    BY <1>4 DEF Post, flags
  <2>2. StopsKept /\ BottomUp'
    BY <1>1, <2>1, StackKept, BottomUpKept DEF Undisturbed
  <2>3. Len(stack') = Len(stack) /\ Upto(Len(stack)) /\ Len(stack) <= Len(stack')
    BY <1>1, <2>1
  <2>. QED
    BY <1>1, <2>1, <2>2, <2>3, QuietStep DEF WalkInv
<1>5. ASSUME NEW y \in Process, Poll(y) PROVE WalkInv'
  <2>1. /\ UNCHANGED <<list, stale, running, stack>>
        /\ needspoll' = [needspoll EXCEPT ![y] = TRUE]
        /\ poll_requested' = TRUE
        /\ due' = due \cup Walk(0, {y} \cap Listed)
    BY <1>5 DEF Poll
  <2>2. StopsKept /\ BottomUp' /\ Listed' = Listed
    BY <1>1, <2>1, StackKept, BottomUpKept DEF Undisturbed, Listed
  <2>3. \A d \in Nat, p \in Process : <<d, p>> \in due' =>
            <<d, p>> \in due \/ (d = 0 /\ p = y /\ y \in Listed)
    BY <2>1 DEF Walk
  <2>4. ASSUME NEW d \in Nat, NEW p \in Process, Owed(d, p) PROVE Owed(d, p)'
    <3>1. d \in 1..Len(stack') /\ stack'[d] = stack[d] /\ Len(stack') = Len(stack)
      BY <2>1, <2>4 DEF Owed
    <3>2. running[p] => running'[p] \/ StopsAbove(d, p)'
      BY <2>1
    <3>3. stack[d].fn = "poll" => needspoll'[p]
      BY <1>1, <2>1, <2>4 DEF Owed
    <3>4. \A c : Reaches(c, p) => Reaches(c, p)'
      BY <2>1, ReachUnchanged
    <3>. QED
      BY <1>1, <2>2, <2>4, <3>1, <3>2, <3>3, <3>4, OwedKept
  <2>5. DueOK'
    BY <1>1, <2>2, <2>3, <2>4 DEF DueOK
  <2>6. PollIsPending'
    BY <1>1, <2>1, <2>3 DEF PollIsPending
  <2>. QED
    BY <2>2, <2>5, <2>6 DEF WalkInv
<1>. QED
  BY <1>2, <1>3, <1>4, <1>5, StartKeepsWalks DEF AppCall

LEMMA ReturnKeepsWalks ==
    ASSUME KInv, WalkInv, Return PROVE WalkInv'
<1>1. /\ TypeOK /\ ListIsSimple /\ IInv /\ Len(stack) \in Nat /\ BottomUp /\ DueOK
      /\ PollIsPending /\ Listed \subseteq Process
      /\ stack # <<>> => Len(stack) \in Nat \ {0}
  BY StackMoves, TopMoves, Pointers DEF KInv, IInv, TypeOK, WalkInv
<1>2. UNCHANGED <<list, stale, due, poll_requested, needspoll, running>>
  BY DEF Return, ReturnToCall, ReturnToExit
<1>3. ASSUME NEW f, Len(stack) \in Nat \ {0}, Top.fn = "thread",
             PoppedOne \/ (Turned(f) /\ f.fn = "exit")
      PROVE  WalkInv'
  <2>1. StopsKept /\ BottomUp'
    BY <1>1, <1>3, PopKept, TurnKept, BottomUpKept
  <2>2. /\ Len(stack) - 1 \in Nat /\ Len(stack') \in Nat
        /\ Len(stack) - 1 <= Len(stack') /\ Upto(Len(stack) - 1)
    BY <1>3 DEF PoppedOne, Turned
  <2>3. ~Walking(Top)
    BY <1>3 DEF Walking
  <2>. QED
    BY <1>1, <1>2, <2>1, <2>2, <2>3, QuietStep DEF WalkInv
<1>4. ASSUME NEW ret \in Result, ReturnToCall(ret) PROVE WalkInv'
  BY <1>1, <1>3, <1>4, ReturnMoves DEF IsScan
<1>5. ASSUME NEW ret \in Result, ReturnToExit(ret) PROVE WalkInv'
  <2>1. /\ Len(stack) \in Nat \ {0} /\ Top.fn = "thread" /\ Top.p \in Process
        /\ Len(stack) > 1 /\ Below.fn = "exit"
        /\ \/ /\ Below.at = "notify" /\ Top.p = Below.q
              /\ \E f : PoppedTurned(f) /\ IsNotify(f, Below.p, Next_(Below.q))
           \/ Below.at = "unlink" /\ PoppedOne
    BY <1>1, <1>5, ReturnMoves
  <2>2. CASE PoppedOne
    BY <1>3, <2>1, <2>2
  <2>3. CASE /\ Below.at = "notify" /\ Top.p = Below.q
             /\ \E f : PoppedTurned(f) /\ IsNotify(f, Below.p, Next_(Below.q))
    <3>1. PICK f : PoppedTurned(f) /\ IsNotify(f, Below.p, Next_(Below.q))
      BY <2>3
    <3>m. PICK m : m = Len(stack) - 1
      OBVIOUS
    <3>2. StopsKept /\ BottomUp'
      BY <1>1, <2>1, <2>3, <3>1, PopTurnKept, BottomUpKept DEF IsNotify
    <3>3. /\ m \in Nat \ {0} /\ Len(stack) = m + 1 /\ Len(stack') = m
          /\ Below = stack[m] /\ stack'[m] = f
          /\ \A i \in 1..(m - 1) : stack'[i] = stack[i]
          /\ Top = stack[m + 1]
      BY <2>1, <3>1, <3>m DEF PoppedTurned, Below, Top
    <3>4. \A d \in Nat, p \in Process : <<d, p>> \in due => p \in Listed /\ d <= m
      <4>1. ~Walking(Top)
        BY <2>1 DEF Walking
      <4>. QED
        BY <1>1, <3>3, <4>1, NothingOwed
    <3>5. ASSUME NEW d \in Nat, NEW p \in Process, <<d, p>> \in due, d # 0
          PROVE  Owed(d, p)'
      <4>1. Owed(d, p) /\ p \in Listed /\ d \in 1..m
        BY <1>1, <3>3, <3>4, <3>5 DEF DueOK
      <4>c. \A c : Reaches(c, p) => Reaches(c, p)'
        BY <1>2, ReachUnchanged
      <4>2. CASE d # m
        <5>1. d \in 1..Len(stack') /\ stack'[d] = stack[d] /\ d < Len(stack)
          BY <3>3, <4>1, <4>2
        <5>2. running[p] => running'[p] \/ StopsAbove(d, p)'
          BY <1>2
        <5>3. stack[d].fn = "poll" => needspoll'[p]
          BY <1>2, <4>1 DEF Owed
        <5>. QED
          BY <1>1, <3>2, <4>1, <4>c, <5>1, <5>2, <5>3, OwedKept
      <4>3. CASE d = m
        <5>1. /\ Reaches(Below.q, p) /\ p # Below.q /\ p # Below.p
              /\ running[p] \/ StopsAbove(m, p)
          BY <2>1, <3>3, <4>1, <4>3 DEF Owed, Cursor, Passed
        <5>2. PICK c : c = Next_(Below.q)
          OBVIOUS
        <5>3. Reaches(c, p)'
          BY <1>1, <2>1, <2>3, <4>c, <5>1, <5>2, WalkGoesOn
        <5>4. f.fn = "exit" /\ f.at = "notify" /\ f.q = c /\ f.p # p
          BY <3>1, <5>1, <5>2 DEF IsNotify
        <5>5. running'[p] \/ StopsAbove(m, p)'
          BY <1>2, <3>2, <3>3, <5>1 DEF StopsKept
        <5>6. Reaches(f.q, p)'
          BY <5>3, <5>4
        <5>. QED
          BY <3>3, <4>3, <5>4, <5>5, <5>6 DEF Owed, Walking, Cursor, Passed
      <4>. QED
        BY <4>2, <4>3
    <3>6. DueOK'
      <4>1. Listed' = Listed
        BY <1>2 DEF Listed
      <4>. QED
        BY <1>2, <3>4, <3>5, <4>1 DEF DueOK
    <3>7. ASSUME NEW p \in Process, <<0, p>> \in due, ~poll_requested
          PROVE  \E d \in 1..Len(stack') : stack'[d].fn = "poll" /\ <<d, p>> \in due
      <4>1. PICK d \in 1..Len(stack) : stack[d].fn = "poll" /\ <<d, p>> \in due
        BY <1>1, <3>7 DEF PollIsPending
      <4>2. d \in Nat /\ d <= m
        BY <1>1, <3>4, <4>1
      <4>3. d # m
        BY <2>1, <3>3, <4>1
      <4>. QED
        BY <3>3, <4>1, <4>2, <4>3
    <3>8. PollIsPending'
      BY <1>1, <1>2, <3>7 DEF PollIsPending
    <3>. QED
      BY <3>2, <3>6, <3>8 DEF WalkInv
  <2>. QED
    BY <2>1, <2>2, <2>3
<1>. QED
  BY <1>4, <1>5 DEF Return

\* The frame n has come to c and owes p.
LEMMA OwedAt ==
    ASSUME NEW n \in Nat, n \in 1..Len(stack'), NEW f, stack'[n] = f, Walking(f),
           NEW c, Cursor(f) = c, NEW p \in Process, Reaches(c, p)',
           p # c \/ IF f.fn = "exit" THEN ~(n < Len(stack')) ELSE f.at # "advance",
           f.fn = "exit" => p # f.p /\ (running'[p] \/ StopsAbove(n, p)'),
           f.fn = "poll" => needspoll'[p]
    PROVE  Owed(n, p)'
<1>1. Cursor(stack'[n]) = c /\ Walking(stack'[n])
  BY DEF Cursor, Walking
<1>2. Passed(n)' => p # c
  BY DEF Passed
<1>. QED
  BY <1>1, <1>2 DEF Owed

\* The frames up to n stay, and owe what they owed; what is owed by the frames
\* above them is shown anew.
LEMMA DueKept ==
    ASSUME DueOK, Len(stack) \in Nat, Len(stack') \in Nat, UNCHANGED <<list, stale>>,
           NEW n \in Nat, Upto(n), n < Len(stack) \/ n = 0, n <= Len(stack'), StopsKept,
           \A p \in Process : <<0, p>> \in due' => <<0, p>> \in due,
           \A d \in 1..n, p \in Process : <<d, p>> \in due' =>
              /\ <<d, p>> \in due
              /\ running[p] => running'[p] \/ StopsAbove(d, p)'
              /\ stack[d].fn = "poll" => needspoll'[p] \/ ~needspoll[p],
           \A d \in Nat, p \in Process : d > n /\ <<d, p>> \in due' =>
              p \in Listed /\ Owed(d, p)'
    PROVE  DueOK'
<1>1. Listed' = Listed
  BY DEF Listed
<1>2. ASSUME NEW d \in 1..n, NEW p \in Process, <<d, p>> \in due'
      PROVE  p \in Listed /\ Owed(d, p)'
  <2>1. /\ d \in Nat /\ d # 0 /\ <<d, p>> \in due /\ Owed(d, p) /\ p \in Listed
        /\ d < Len(stack) /\ d \in 1..Len(stack') /\ stack'[d] = stack[d]
    BY <1>2 DEF DueOK
  <2>2. \A c : Reaches(c, p) => Reaches(c, p)'
    BY ReachUnchanged
  <2>3. running[p] => running'[p] \/ StopsAbove(d, p)'
    BY <1>2
  <2>4. stack[d].fn = "poll" => needspoll'[p]
    BY <1>2, <2>1 DEF Owed
  <2>. QED
    BY <2>1, <2>2, <2>3, <2>4, OwedKept
<1>3. ASSUME NEW d \in Nat, NEW p \in Process, <<d, p>> \in due'
      PROVE  p \in Listed /\ (d # 0 => Owed(d, p)')
  <2>1. d = 0 \/ d \in 1..n \/ d > n
    OBVIOUS
  <2>. QED
    BY <1>2, <1>3, <2>1 DEF DueOK
<1>. QED
  BY <1>1, <1>3 DEF DueOK

\* exit_process turns to f and goes on, or calls a thread.
LEMMA ExitKeepsDue ==
    ASSUME DueOK, PollIsPending, NEW n \in Nat, Len(stack) = n + 1, Top.fn = "exit",
           Len(stack') \in Nat, n + 1 <= Len(stack'), Upto(n), StopsKept,
           UNCHANGED <<list, stale, poll_requested, needspoll>>,
           \A d \in Nat, p \in Process : d # n + 1 => (<<d, p>> \in due' <=> <<d, p>> \in due),
           \A d \in 1..n, p \in Process : running[p] => running'[p] \/ StopsAbove(d, p)',
           \A p \in Process : <<n + 1, p>> \in due' => p \in Listed /\ Owed(n + 1, p)'
    PROVE  DueOK' /\ PollIsPending'
<1>1. ASSUME NEW d \in Nat, NEW p \in Process, d > n, <<d, p>> \in due'
      PROVE  p \in Listed /\ Owed(d, p)'
  <2>1. d = n + 1
    <3>1. SUFFICES ASSUME d # n + 1 PROVE FALSE
      OBVIOUS
    <3>2. <<d, p>> \in due
      BY <1>1, <3>1
    <3>3. d <= Len(stack)
      BY <3>2, NothingOwed
    <3>. QED
      BY <1>1, <3>1, <3>3
  <2>. QED
    BY <1>1, <2>1
<1>2. 0 # n + 1 /\ \A d \in 1..n : d \in Nat /\ d # n + 1
  OBVIOUS
<1>3. DueOK'
  <2>1. n < Len(stack) /\ n <= Len(stack') /\ Len(stack) \in Nat
    OBVIOUS
  <2>2. \A p \in Process : <<0, p>> \in due' => <<0, p>> \in due
    BY <1>2
  <2>3. ASSUME NEW d \in 1..n, NEW p \in Process, <<d, p>> \in due'
        PROVE  /\ <<d, p>> \in due
               /\ running[p] => running'[p] \/ StopsAbove(d, p)'
               /\ stack[d].fn = "poll" => needspoll'[p] \/ ~needspoll[p]
    BY <1>2, <2>3
  <2>. QED
    BY <1>1, <2>1, <2>2, <2>3, DueKept
<1>4. ASSUME NEW p \in Process, <<0, p>> \in due'
      PROVE  /\ needspoll'[p]
             /\ \/ poll_requested'
                \/ \E d \in 1..Len(stack') : stack'[d].fn = "poll" /\ <<d, p>> \in due'
  <2>1. <<0, p>> \in due
    BY <1>2, <1>4
  <2>2. ASSUME NEW d \in 1..Len(stack), stack[d].fn = "poll", <<d, p>> \in due
        PROVE  d \in 1..Len(stack') /\ stack'[d].fn = "poll" /\ <<d, p>> \in due'
    <3>1. d \in Nat /\ d # n + 1 /\ d \in 1..n
      BY <2>2 DEF Top
    <3>. QED
      BY <2>2, <3>1
  <2>. QED
    BY <2>1, <2>2 DEF PollIsPending
<1>. QED
  BY <1>3, <1>4 DEF PollIsPending

LEMMA ExitUnlinkKeepsWalks ==
    ASSUME KInv, WalkInv, ExitUnlink PROVE WalkInv'
<1>1. /\ TypeOK /\ ListIsSimple /\ IInv /\ BottomUp /\ DueOK /\ PollIsPending
      /\ Active("exit") /\ Top.at = "unlink"
      /\ UNCHANGED <<running, needspoll, poll_requested>>
  BY DEF KInv, IInv, WalkInv, ExitUnlink, ExitAt
<1>2. /\ stack # <<>> /\ Top.fn = "exit" /\ Top.p \in Process
      /\ Len(stack) \in Nat \ {0} /\ Listed \subseteq Process
  BY <1>1, ExitMoves, TopMoves, Pointers DEF TypeOK
<1>3. PICK f : Turned(f) /\ IsScan(f, Next_(Top.p))
  BY <1>1, ExitMoves
<1>4. PICK n \in Nat : Len(stack) = n + 1
  <2>1. Len(stack) - 1 \in Nat /\ Len(stack) = (Len(stack) - 1) + 1
    BY <1>2
  <2>. QED
    BY <2>1
<1>5. PICK y \in Process : y = Top.p
  BY <1>2
<1>6. /\ Len(stack') = n + 1 /\ n + 1 \in Nat /\ \A d \in 1..n : stack'[d] = stack[d]
      /\ Top = stack[n + 1]
  BY <1>3, <1>4 DEF Turned, Top
<1>7. BottomUp'
  BY <1>1, <1>2, <1>3, BottomUpKept DEF IsScan
<1>8. /\ due' = {d \in due : d[2] # y}
      /\ \/ y \in Listed /\ list' = Without(y) /\ stale' = [stale EXCEPT ![y] = Next_(y)]
         \/ UNCHANGED <<list, stale>>
  BY <1>5 DEF ExitUnlink
<1>9. \A d \in Nat, p \in Process : <<d, p>> \in due' <=> <<d, p>> \in due /\ p # y
  BY <1>8
<1>10. ASSUME NEW p \in Process, p # y, NEW c, Reaches(c, p) PROVE Reaches(c, p)'
  BY <1>1, <1>8, <1>10, UnlinkKeepsReach, ReachUnchanged
<1>11. ASSUME NEW p \in Listed, p # y PROVE p \in Listed'
  <2>1. CASE UNCHANGED <<list, stale>>
    BY <2>1 DEF Listed
  <2>2. CASE y \in Listed /\ list' = Without(y)
    BY <1>1, <1>11, <2>2, OrderUnlinked
  <2>. QED
    BY <1>8, <2>1, <2>2
<1>12. ASSUME NEW d \in Nat, NEW p \in Process, <<d, p>> \in due
       PROVE  p \in Listed /\ d <= n
  <2>1. ~Walking(Top)
    BY <1>1, <1>2 DEF Walking
  <2>. QED
    BY <1>1, <1>4, <1>12, <2>1, NothingOwed
<1>13. ASSUME NEW d \in Nat, NEW p \in Process, <<d, p>> \in due', d # 0
       PROVE  Owed(d, p)'
  <2>1. <<d, p>> \in due /\ p # y /\ d \in 1..n
    BY <1>9, <1>12, <1>13
  <2>2. Owed(d, p)
    BY <1>1, <1>13, <2>1 DEF DueOK
  <2>3. /\ d \in 1..Len(stack') /\ stack'[d] = stack[d] /\ d < Len(stack)
        /\ Len(stack) \in Nat
    BY <1>4, <1>6, <2>1
  <2>4. StopsAbove(d, p) => StopsAbove(d, p)'
    BY <1>2, <1>3, <1>5, <2>1, TurnKept
  <2>5. running[p] => running'[p] \/ StopsAbove(d, p)'
    BY <1>1
  <2>6. stack[d].fn = "poll" => needspoll'[p]
    BY <1>1, <2>2 DEF Owed
  <2>7. \A c : Reaches(c, p) => Reaches(c, p)'
    BY <1>10, <2>1
  <2>. QED
    BY <2>2, <2>3, <2>4, <2>5, <2>6, <2>7, OwedKept
<1>14. DueOK'
  BY <1>9, <1>11, <1>12, <1>13 DEF DueOK
<1>15. ASSUME NEW p \in Process, <<0, p>> \in due', ~poll_requested
       PROVE  \E d \in 1..Len(stack') : stack'[d].fn = "poll" /\ <<d, p>> \in due'
  <2>1. <<0, p>> \in due /\ p # y
    BY <1>9, <1>15
  <2>2. PICK d \in 1..Len(stack) : stack[d].fn = "poll" /\ <<d, p>> \in due
    BY <1>1, <1>15, <2>1 DEF PollIsPending
  <2>3. d \in Nat /\ d \in 1..n
    BY <1>12, <1>4, <2>2
  <2>4. d \in 1..Len(stack') /\ stack'[d] = stack[d]
    BY <1>6, <2>3
  <2>. QED
    BY <1>9, <2>1, <2>2, <2>3, <2>4
<1>16. PollIsPending'
  BY <1>1, <1>9, <1>15 DEF PollIsPending
<1>. QED
  BY <1>7, <1>14, <1>16 DEF WalkInv

\* The frame on top, and the frames below it.
LEMMA TopAndBelow ==
    ASSUME KInv, WalkInv, stack # <<>>
    PROVE  /\ TypeOK /\ ListIsSimple /\ IInv /\ BottomUp /\ DueOK /\ PollIsPending
           /\ stack \in Seq(Frame) /\ Len(stack) \in Nat \ {0} /\ Listed \subseteq Process
           /\ First \in Ptr /\ \A p \in Process : Next_(p) \in Ptr
           /\ \E n \in Nat : /\ Len(stack) = n + 1 /\ n + 1 \in Nat /\ n + 1 # 0
                             /\ Top = stack[n + 1] /\ n = Len(stack) - 1
<1>1. TypeOK /\ ListIsSimple /\ IInv /\ BottomUp /\ DueOK /\ PollIsPending
  BY DEF KInv, IInv, WalkInv
<1>2. stack \in Seq(Frame) /\ Len(stack) \in Nat \ {0}
  BY <1>1, TopMoves DEF TypeOK
<1>3. /\ Len(stack) - 1 \in Nat /\ Len(stack) = (Len(stack) - 1) + 1
      /\ (Len(stack) - 1) + 1 \in Nat /\ (Len(stack) - 1) + 1 # 0
  BY <1>2
<1>4. Top = stack[(Len(stack) - 1) + 1]
  BY <1>3 DEF Top
<1>. QED
  BY <1>1, <1>2, <1>3, <1>4, Pointers

LEMMA ExitStopKeepsWalks ==
    ASSUME KInv, WalkInv, ExitStop PROVE WalkInv'
<1>1. Active("exit") /\ Top.at = "scan" /\ Top.p # NULL /\ stack # <<>> /\ Top.fn = "exit"
  BY DEF ExitStop, ExitAt, Active
<1>2. /\ TypeOK /\ ListIsSimple /\ IInv /\ BottomUp /\ DueOK /\ PollIsPending
      /\ Len(stack) \in Nat \ {0} /\ Listed \subseteq Process
  BY <1>1, TopAndBelow
<1>3. PICK n \in Nat : /\ Len(stack) = n + 1 /\ n + 1 \in Nat
                       /\ Top = stack[n + 1] /\ n = Len(stack) - 1
  BY <1>1, TopAndBelow
<1>4. PICK f : Turned(f) /\ IsNotify(f, Top.p, First)
  BY <1>2, ExitMoves
<1>5. PICK y \in Process : y = Top.p
  BY <1>1, <1>2, ExitMoves DEF Ptr
<1>6. PICK c : c = First
  OBVIOUS
<1>7. /\ Len(stack') = n + 1 /\ Upto(n) /\ stack'[n + 1] = f
      /\ f.fn = "exit" /\ f.at = "notify" /\ f.p = y /\ f.q = c
  BY <1>3, <1>4, <1>5, <1>6 DEF Turned, IsNotify
<1>8. /\ UNCHANGED <<list, stale, poll_requested, needspoll>>
      /\ running' = [running EXCEPT ![y] = FALSE]
      /\ due' = due \cup Walk(n + 1, {q \in Listed : running'[q]})
      /\ running \in [Process -> BOOLEAN]
  BY <1>2, <1>3, <1>5 DEF ExitStop, TypeOK
<1>9. BottomUp'
  BY <1>2, <1>4, <1>7, BottomUpKept
<1>10. StopsKept /\ \A b \in Nat : b < Len(stack) => StopsAbove(b, f.p)'
  <2>1. f.p = Top.p /\ f.at # "scan"
    BY <1>5, <1>7
  <2>. QED
    BY <1>2, <1>4, <1>7, <2>1, TurnKept
<1>11. ASSUME NEW d \in 1..n, NEW p \in Process, running[p]
       PROVE  running'[p] \/ StopsAbove(d, p)'
  <2>1. CASE p # y
    BY <1>8, <1>11, <2>1
  <2>2. CASE p = y
    <3>1. d \in Nat /\ d < Len(stack)
      BY <1>3
    <3>. QED
      BY <1>7, <1>10, <2>2, <3>1
  <2>. QED
    BY <2>1, <2>2
<1>12. ASSUME NEW p \in Process, <<n + 1, p>> \in due'
       PROVE  p \in Listed /\ Owed(n + 1, p)'
  <2>1. <<n + 1, p>> \notin due
    <3>1. ~Walking(Top)
      BY <1>1 DEF Walking
    <3>. QED
      BY <1>2, <1>3, <3>1, NothingOwed
  <2>2. p \in Listed /\ running'[p]
    BY <1>8, <1>12, <2>1 DEF Walk
  <2>3. p # y
    BY <1>8, <2>2
  <2>4. Reaches(c, p)'
    <3>1. Reaches(c, p)
      BY <1>2, <1>6, <2>2, HeadReaches
    <3>. QED
      BY <1>8, <3>1, ReachUnchanged
  <2>5. n + 1 \in 1..Len(stack') /\ ~(n + 1 < Len(stack'))
    BY <1>7, <1>3
  <2>6. Walking(f) /\ Cursor(f) = c
    BY <1>7 DEF Walking, Cursor
  <2>. QED
    BY <1>3, <1>7, <2>2, <2>3, <2>4, <2>5, <2>6, OwedAt
<1>13. \A d \in Nat, p \in Process : d # n + 1 => (<<d, p>> \in due' <=> <<d, p>> \in due)
  BY <1>8 DEF Walk
<1>14. DueOK' /\ PollIsPending'
  <2>1. Len(stack') \in Nat /\ n + 1 <= Len(stack')
    BY <1>3, <1>7
  <2>. QED
    BY <1>1, <1>2, <1>3, <1>7, <1>8, <1>10, <1>11, <1>12, <1>13, <2>1, ExitKeepsDue
<1>. QED
  BY <1>9, <1>14 DEF WalkInv

LEMMA ExitNotifyKeepsWalks ==
    ASSUME KInv, WalkInv, ExitNotify PROVE WalkInv'
<1>1. Active("exit") /\ Top.at = "notify" /\ Top.q # NULL /\ stack # <<>> /\ Top.fn = "exit"
  BY DEF ExitNotify, ExitAt, Active
<1>2. /\ TypeOK /\ ListIsSimple /\ IInv /\ BottomUp /\ DueOK /\ PollIsPending
      /\ Len(stack) \in Nat \ {0} /\ Listed \subseteq Process
  BY <1>1, TopAndBelow
<1>3. PICK n \in Nat : /\ Len(stack) = n + 1 /\ n + 1 \in Nat /\ n + 1 # 0
                       /\ Top = stack[n + 1] /\ n = Len(stack) - 1
  BY <1>1, TopAndBelow
<1>4. PICK y : y = Top.p
  OBVIOUS
<1>5. PICK q \in Process : q = Top.q
  BY <1>1, <1>2, ExitMoves DEF Ptr
<1>6. UNCHANGED <<list, stale, poll_requested, needspoll, running>>
  BY DEF ExitNotify
<1>7. ASSUME NEW p \in Process, <<n + 1, p>> \in due
      PROVE  p \in Listed /\ Reaches(q, p) /\ p # y /\ running[p]
  <2>1. Owed(n + 1, p) /\ p \in Listed
    BY <1>2, <1>3, <1>7 DEF DueOK
  <2>2. ~StopsAbove(n + 1, p)
    BY <1>3 DEF StopsAbove
  <2>. QED
    BY <1>1, <1>3, <1>4, <1>5, <2>1, <2>2 DEF Owed, Cursor
<1>8. CASE q # y /\ running[q]
  <2>1. PICK f : Pushed(f) /\ IsThread(f, q)
    BY <1>2, <1>4, <1>5, <1>8, ExitMoves
  <2>2. PICK g : g = stack[n + 1]
    OBVIOUS
  <2>3. /\ Len(stack') = n + 2 /\ Upto(n) /\ stack'[n + 1] = g /\ n + 1 < Len(stack')
        /\ Len(stack') \in Nat /\ n + 1 \in 1..Len(stack')
        /\ g.fn = "exit" /\ g.at = "notify" /\ g.p = y /\ g.q = q
    BY <1>1, <1>3, <1>4, <1>5, <2>1, <2>2 DEF Pushed
  <2>4. StopsKept /\ BottomUp'
    BY <1>2, <2>1, PushKept, BottomUpKept DEF IsThread
  <2>5. due' = due \ {<<n + 1, q>>}
    BY <1>3, <1>4, <1>5, <1>8 DEF ExitNotify
  <2>6. ASSUME NEW p \in Process, <<n + 1, p>> \in due'
        PROVE  p \in Listed /\ Owed(n + 1, p)'
    <3>1. p \in Listed /\ Reaches(q, p) /\ p # y /\ p # q /\ running'[p]
      BY <1>6, <1>7, <2>5, <2>6
    <3>2. Reaches(q, p)'
      BY <1>6, <3>1, ReachUnchanged
    <3>3. Walking(g) /\ Cursor(g) = q
      BY <2>3 DEF Walking, Cursor
    <3>. QED
      BY <1>3, <2>3, <3>1, <3>2, <3>3, OwedAt
  <2>7. DueOK' /\ PollIsPending'
    <3>1. \A d \in Nat, p \in Process : d # n + 1 => (<<d, p>> \in due' <=> <<d, p>> \in due)
      BY <2>5
    <3>2. n + 1 <= Len(stack')
      BY <2>3
    <3>. QED
      BY <1>1, <1>2, <1>3, <1>6, <2>3, <2>4, <2>6, <3>1, <3>2, ExitKeepsDue
  <2>. QED
    BY <2>4, <2>7 DEF WalkInv
<1>9. CASE ~(q # y /\ running[q])
  <2>1. PICK f : Turned(f) /\ IsNotify(f, Top.p, Next_(Top.q))
    BY <1>2, <1>4, <1>5, <1>9, ExitMoves
  <2>2. PICK c : c = Next_(q)
    OBVIOUS
  <2>3. /\ Len(stack') = n + 1 /\ Upto(n) /\ stack'[n + 1] = f
        /\ Len(stack') \in Nat /\ n + 1 \in 1..Len(stack') /\ ~(n + 1 < Len(stack'))
        /\ f.fn = "exit" /\ f.at = "notify" /\ f.p = y /\ f.q = c
    BY <1>3, <1>4, <1>5, <2>1, <2>2 DEF Turned, IsNotify
  <2>4. StopsKept /\ BottomUp'
    <3>1. f.p = Top.p /\ f.at # "scan"
      BY <1>4, <2>3
    <3>. QED
      BY <1>2, <2>1, <2>3, <3>1, TurnKept, BottomUpKept
  <2>5. due' = due
    BY <1>4, <1>5, <1>9 DEF ExitNotify
  <2>6. ASSUME NEW p \in Process, <<n + 1, p>> \in due'
        PROVE  p \in Listed /\ Owed(n + 1, p)'
    <3>1. p \in Listed /\ Reaches(q, p) /\ p # y /\ p # q /\ running'[p]
      BY <1>6, <1>7, <1>9, <2>5, <2>6
    <3>2. Reaches(c, p)
      BY <1>2, <2>2, <3>1, WalkGoesOn
    <3>3. Reaches(c, p)'
      BY <1>6, <3>2, ReachUnchanged
    <3>4. Walking(f) /\ Cursor(f) = c
      BY <2>3 DEF Walking, Cursor
    <3>. QED
      BY <1>3, <2>3, <3>1, <3>3, <3>4, OwedAt
  <2>7. DueOK' /\ PollIsPending'
    <3>1. n + 1 <= Len(stack')
      BY <2>3
    <3>. QED
      BY <1>1, <1>2, <1>3, <1>6, <2>3, <2>4, <2>5, <2>6, <3>1, ExitKeepsDue
  <2>. QED
    BY <2>4, <2>7 DEF WalkInv
<1>. QED
  BY <1>8, <1>9

LEMMA ExitStepsKeepWalks ==
    ASSUME KInv, WalkInv,
           \/ SyncReturn \/ ExitStop \/ ExitSkip \/ ExitNotify \/ ExitNotified
           \/ ExitUnlink \/ ExitRound \/ ExitReturn
    PROVE  WalkInv'
\* The steps between two walks.
<1>1. ASSUME stack # <<>>, NEW k \in Nat, Len(stack) = k + 1,
             ~(Walking(Top) /\ Cursor(Top) # NULL),
             UNCHANGED <<list, stale, running, needspoll, poll_requested, due>>,
             StopsKept, BottomUp', Upto(k), Len(stack') \in Nat, k <= Len(stack')
      PROVE  WalkInv'
  <2>1. DueOK /\ PollIsPending /\ Len(stack) \in Nat
    BY <1>1, TopAndBelow
  <2>2. k = Len(stack) - 1
    BY <1>1
  <2>. QED
    BY <1>1, <2>1, <2>2, QuietStep DEF WalkInv
<1>2. ASSUME NEW f, Active("exit"), Turned(f), f.fn = "exit",
             Top.at = "scan" \/ (f.at = "unlink" /\ f.p = Top.p),
             Top.at = "scan" \/ Top.q = NULL,
             UNCHANGED <<list, stale, running, needspoll, poll_requested, due>>
      PROVE  WalkInv'
  <2>1. stack # <<>> /\ Top.fn = "exit" /\ BottomUp /\ Len(stack) \in Nat \ {0}
    BY <1>2, TopAndBelow DEF Active
  <2>2. PICK n \in Nat : Len(stack) = n + 1 /\ n + 1 \in Nat /\ n = Len(stack) - 1
    BY <2>1, TopAndBelow
  <2>3. BottomUp'
    BY <1>2, <2>1, BottomUpKept
  <2>4. StopsKept
    BY <1>2, <2>1, TurnKept DEF StopsKept
  <2>5. Len(stack') = n + 1 /\ Upto(n) /\ n <= Len(stack')
    BY <1>2, <2>2 DEF Turned
  <2>6. ~(Walking(Top) /\ Cursor(Top) # NULL)
    BY <1>2, <2>1 DEF Walking, Cursor
  <2>. QED
    BY <1>1, <1>2, <2>1, <2>2, <2>3, <2>4, <2>5, <2>6
<1>3. ASSUME stack # <<>>, PoppedOne, Top.fn = "sync" \/ (Top.fn = "exit" /\ Top.at = "scan"),
             UNCHANGED <<list, stale, running, needspoll, poll_requested, due>>
      PROVE  WalkInv'
  <2>1. BottomUp /\ Len(stack) \in Nat \ {0}
    BY <1>3, TopAndBelow
  <2>2. PICK n \in Nat : Len(stack) = n + 1 /\ n + 1 \in Nat /\ n = Len(stack) - 1
    BY <1>3, TopAndBelow
  <2>3. BottomUp' /\ StopsKept
    BY <1>3, <2>1, BottomUpKept, PopKept
  <2>4. Len(stack') = n /\ Upto(n) /\ n <= Len(stack')
    BY <1>3, <2>2 DEF PoppedOne
  <2>5. ~(Walking(Top) /\ Cursor(Top) # NULL)
    BY <1>3 DEF Walking
  <2>. QED
    BY <1>1, <1>3, <2>1, <2>2, <2>3, <2>4, <2>5
<1>0. IInv
  BY DEF KInv
<1>4. CASE SyncReturn
  <2>1. /\ stack # <<>> /\ Top.fn = "sync" /\ PoppedOne
        /\ UNCHANGED <<list, stale, running, needspoll, poll_requested, due>>
    BY <1>0, <1>4, ExitMoves DEF SyncReturn, flags
  <2>. QED
    BY <1>3, <2>1
<1>5. CASE ExitSkip
  <2>1. Active("exit") /\ Top.at = "scan"
        /\ UNCHANGED <<list, stale, running, needspoll, poll_requested, due>>
    BY <1>5 DEF ExitSkip, ExitAt, flags
  <2>2. PICK f : Turned(f) /\ f.fn = "exit"
    BY <1>0, <1>5, ExitMoves DEF IsUnlink, IsScan
  <2>. QED
    BY <1>2, <2>1, <2>2
<1>6. CASE ExitRound
  <2>1. Active("exit") /\ Top.at = "scan"
        /\ UNCHANGED <<list, stale, running, needspoll, poll_requested, due>>
    BY <1>6 DEF ExitRound, ExitAt, flags
  <2>2. PICK f : Turned(f) /\ f.fn = "exit"
    BY <1>0, <1>6, ExitMoves DEF IsScan
  <2>. QED
    BY <1>2, <2>1, <2>2
<1>7. CASE ExitReturn
  <2>1. /\ stack # <<>> /\ Top.fn = "exit" /\ Top.at = "scan"
        /\ UNCHANGED <<list, stale, running, needspoll, poll_requested, due>>
    BY <1>7 DEF ExitReturn, ExitAt, Active, flags
  <2>. QED
    BY <1>0, <1>3, <1>7, <2>1, ExitMoves
<1>8. CASE ExitNotified
  <2>1. /\ Active("exit") /\ Top.at = "notify" /\ Top.q = NULL
        /\ stack # <<>> /\ Top.fn = "exit"
        /\ UNCHANGED <<list, stale, running, needspoll, poll_requested, due>>
    BY <1>8 DEF ExitNotified, ExitAt, Active, flags
  <2>2. CASE \E f : Turned(f) /\ IsUnlink(f, Top.p)
    BY <1>2, <2>1, <2>2 DEF IsUnlink
  <2>3. ASSUME NEW f, NEW g, TurnedPushed(f, g), IsUnlink(f, Top.p), IsThread(g, Top.p)
        PROVE  WalkInv'
    <3>1. BottomUp /\ Len(stack) \in Nat \ {0}
      BY <2>1, TopAndBelow
    <3>2. PICK n \in Nat : Len(stack) = n + 1 /\ n + 1 \in Nat /\ n = Len(stack) - 1
      BY <2>1, TopAndBelow
    <3>3. StopsKept
      BY <2>1, <2>3, <3>1, TurnPushKept DEF IsUnlink, IsThread
    <3>4. BottomUp'
      BY <2>3, <3>1, BottomUpKept DEF IsUnlink, IsThread
    <3>5. Len(stack') = n + 2 /\ Upto(n) /\ n <= Len(stack') /\ Len(stack') \in Nat
      BY <2>3, <3>2 DEF TurnedPushed
    <3>6. ~(Walking(Top) /\ Cursor(Top) # NULL)
      BY <2>1 DEF Cursor
    <3>. QED
      BY <1>1, <2>1, <3>2, <3>3, <3>4, <3>5, <3>6
  <2>. QED
    BY <1>0, <1>8, <2>2, <2>3, ExitMoves
<1>. QED
  BY <1>4, <1>5, <1>6, <1>7, <1>8, ExitStopKeepsWalks, ExitNotifyKeepsWalks,
     ExitUnlinkKeepsWalks

\* do_event and do_poll: the frames below the one on top are events, so that
\* no round of polls but the one on top is under way.
LEMMA EventOnTop ==
    ASSUME KInv, WalkInv, Active("event") \/ Active("poll"), NEW n \in Nat,
           Len(stack) = n + 1
    PROVE  /\ \A d \in 1..n : stack[d].fn = "event"
           /\ \A d \in 1..Len(stack) : stack[d].fn = "poll" => d = n + 1 /\ Top.fn = "poll"
           /\ \A p \in Process : <<0, p>> \in due /\ Top.fn = "event"
                                    => needspoll[p] /\ poll_requested
<1>1. BottomUp /\ PollIsPending /\ Top = stack[n + 1] /\ n + 1 \in 1..Len(stack)
  BY DEF WalkInv, Top
<1>2. Top.fn \in {"event", "poll"}
  BY DEF Active
<1>3. \A d \in 1..n : d \in 1..Len(stack) /\ d < n + 1
  OBVIOUS
<1>4. \A d \in 1..n : stack[d].fn = "event"
  BY <1>1, <1>2, <1>3 DEF BottomUp
<1>5. \A d \in 1..Len(stack) : d \in 1..n \/ d = n + 1
  OBVIOUS
<1>6. \A d \in 1..Len(stack) : stack[d].fn = "poll" => d = n + 1 /\ Top.fn = "poll"
  BY <1>1, <1>4, <1>5
<1>. QED
  BY <1>1, <1>4, <1>6 DEF PollIsPending

\* The frames below the one on top owe what they owed.
LEMMA EventKeepsDue ==
    ASSUME KInv, WalkInv, Active("event") \/ Active("poll"), NEW n \in Nat,
           Len(stack) = n + 1, UNCHANGED <<list, stale>>,
           Len(stack') \in Nat, n <= Len(stack'), Upto(n), StopsKept,
           \A p \in Process : running[p] => running'[p],
           \A d \in Nat, p \in Process : d <= n /\ <<d, p>> \in due' => <<d, p>> \in due,
           \A d \in Nat, p \in Process : d > n /\ <<d, p>> \in due' =>
              p \in Listed /\ Owed(d, p)'
    PROVE  DueOK'
<1>1. DueOK /\ \A d \in 1..n : stack[d].fn = "event"
  BY EventOnTop DEF WalkInv
<1>2. n < Len(stack) /\ 0 <= n /\ Len(stack) \in Nat /\ \A d \in 1..n : d \in Nat /\ d <= n
  OBVIOUS
<1>3. \A p \in Process : <<0, p>> \in due' => <<0, p>> \in due
  BY <1>2
<1>4. ASSUME NEW d \in 1..n, NEW p \in Process, <<d, p>> \in due'
      PROVE  /\ <<d, p>> \in due
             /\ running[p] => running'[p] \/ StopsAbove(d, p)'
             /\ stack[d].fn = "poll" => needspoll'[p] \/ ~needspoll[p]
  BY <1>1, <1>2, <1>4
<1>. QED
  BY <1>1, <1>2, <1>3, <1>4, DueKept

\* What the frame on top owes.
LEMMA TopOwes ==
    ASSUME KInv, WalkInv, Active("event") \/ Active("poll"), NEW n \in Nat,
           Len(stack) = n + 1, NEW p \in Process, <<n + 1, p>> \in due
    PROVE  /\ p \in Listed /\ Walking(Top) /\ Reaches(Top.p, p) /\ Top.p # NULL
           /\ Top.at = "advance" => p # Top.p
           /\ Top.fn = "poll" => needspoll[p]
           /\ running[p] /\ ~called[p]
<1>1. DueOK /\ BottomUp /\ Top = stack[n + 1] /\ n + 1 \in Nat /\ n + 1 # 0
  BY DEF WalkInv, Top
<1>2. p \in Listed /\ Owed(n + 1, p) /\ Top.fn \in {"event", "poll"}
  BY <1>1 DEF DueOK, Active
<1>. QED
  BY <1>1, <1>2, BottomIsQuiet DEF Owed, Cursor, Passed, Reaches

LEMMA NextEventKeepsWalks ==
    ASSUME KInv, WalkInv, NextEvent PROVE WalkInv'
<1>1. /\ TypeOK /\ ListIsSimple /\ IInv /\ BottomUp /\ DueOK /\ PollIsPending
      /\ stack \in Seq(Frame)
  BY DEF KInv, IInv, WalkInv, TypeOK
<1>2. stack = <<>> /\ Len(stack) = 0 /\ Len(stack) \in Nat
  BY DEF NextEvent, AtRest
<1>3. UNCHANGED <<list, stale, running, needspoll>>
  BY DEF NextEvent, flags
<1>4. CASE poll_requested
  <2>1. PICK f, g : /\ PushedTwo(f, g) /\ f.fn = "event" /\ IsPoll(g, "look", First)
                    /\ due' = due \cup Walk(2, {p \in Listed : needspoll[p]})
    <3>. DEFINE f == [fn |-> "event", at |-> "take", p |-> NULL, ev |-> "MSG"]
                g == [fn |-> "poll", at |-> "look", p |-> First]
    <3>1. /\ stack' = Append(Append(stack, f), g)
          /\ due' = due \cup Walk(Len(<<f>>) + 1, {p \in Listed : needspoll[p]})
      BY <1>2, <1>4 DEF NextEvent, EnterPoll
    <3>2. Len(<<f>>) + 1 = 2
      OBVIOUS
    <3>3. f.fn = "event" /\ IsPoll(g, "look", First)
      BY DEF IsPoll
    <3>. HIDE DEF f, g
    <3>. QED
      BY <1>1, <3>1, <3>2, <3>3, StackMoves
  <2>2. PICK c : c = First
    OBVIOUS
  <2>3. /\ Len(stack') = 2 /\ stack'[2] = g /\ 2 \in 1..Len(stack')
        /\ g.fn = "poll" /\ g.at = "look" /\ g.p = c
    BY <1>2, <2>1, <2>2 DEF PushedTwo, IsPoll
  <2>4. StopsKept /\ BottomUp'
    BY <1>1, <1>2, <2>1, PushTwoKept, BottomUpKept DEF IsPoll, Undisturbed
  <2>5. ASSUME NEW d \in Nat, NEW p \in Process, <<d, p>> \in due
        PROVE  d = 0 /\ p \in Listed
    <3>1. d <= Len(stack) /\ p \in Listed
      BY <1>1, <1>2, <2>5, NothingOwed
    <3>. QED
      BY <1>2, <3>1
  <2>6. ASSUME NEW d \in Nat, NEW p \in Process, d > 0, <<d, p>> \in due'
        PROVE  p \in Listed /\ Owed(d, p)'
    <3>1. d = 2 /\ p \in Listed /\ needspoll'[p]
      BY <1>3, <2>1, <2>5, <2>6 DEF Walk
    <3>2. Reaches(c, p)'
      <4>1. Reaches(c, p)
        BY <1>1, <2>2, <3>1, HeadReaches
      <4>. QED
        BY <1>3, <4>1, ReachUnchanged
    <3>3. Walking(g) /\ Cursor(g) = c
      BY <2>3 DEF Walking, Cursor
    <3>4. Owed(2, p)'
      BY <2>3, <3>1, <3>2, <3>3, OwedAt
    <3>. QED
      BY <3>1, <3>4
  <2>7. DueOK'
    <3>1. Len(stack') \in Nat /\ 0 <= Len(stack')
      BY <2>3
    <3>2. \A p \in Process : <<0, p>> \in due' => <<0, p>> \in due
      BY <2>1 DEF Walk
    <3>3. 0 \in Nat /\ Upto(0) /\ \A d \in 1..0 : FALSE
      OBVIOUS
    <3>. QED
      BY <1>1, <1>2, <1>3, <2>4, <2>6, <3>1, <3>2, <3>3, DueKept
  <2>8. PollIsPending'
    <3>1. ASSUME NEW p \in Process, <<0, p>> \in due'
          PROVE  needspoll'[p] /\ <<2, p>> \in due'
      <4>1. <<0, p>> \in due
        BY <2>1, <3>1 DEF Walk
      <4>2. p \in Listed /\ needspoll[p]
        BY <1>1, <2>5, <4>1 DEF PollIsPending
      <4>. QED
        BY <1>3, <2>1, <4>2 DEF Walk
    <3>. QED
      BY <2>3, <3>1 DEF PollIsPending
  <2>. QED
    BY <2>4, <2>7, <2>8 DEF WalkInv
<1>5. CASE ~poll_requested
  <2>1. PICK f : Pushed(f) /\ f.fn = "event"
    <3>. DEFINE f == [fn |-> "event", at |-> "take", p |-> NULL, ev |-> "MSG"]
    <3>1. stack' = Append(stack, f) /\ f.fn = "event"
      BY <1>2, <1>5 DEF NextEvent
    <3>. HIDE DEF f
    <3>. QED
      BY <1>1, <3>1, StackMoves
  <2>2. UNCHANGED <<due, poll_requested>>
    BY <1>5 DEF NextEvent
  <2>3. StopsKept /\ BottomUp'
    BY <1>1, <1>2, <2>1, PushKept, BottomUpKept
  <2>4. Len(stack') \in Nat /\ 0 <= Len(stack') /\ Upto(0) /\ 0 \in Nat
    BY <1>2, <2>1 DEF Pushed
  <2>5. DueOK' /\ PollIsPending'
    BY <1>1, <1>2, <1>3, <2>2, <2>3, <2>4, QuietStep
  <2>. QED
    BY <2>3, <2>5 DEF WalkInv
<1>. QED
  BY <1>4, <1>5

\* The frame on top goes on as f and owes what it owed.
LEMMA TurnKeepsWalks ==
    ASSUME KInv, WalkInv, Active("event") \/ Active("poll"), NEW n \in Nat,
           Len(stack) = n + 1, UNCHANGED <<list, stale>>, NEW f,
           Turned(f) \/ \E g : TurnedPushed(f, g) /\ g.fn \notin {"event", "poll", "exit"},
           f.fn = Top.fn, NEW c, f.p = c, Walking(f),
           \A p \in Process : running[p] => running'[p],
           \A d \in Nat, p \in Process : <<d, p>> \in due' => <<d, p>> \in due,
           \A p \in Process : <<n + 1, p>> \in due' =>
                /\ Reaches(c, p)
                /\ f.at = "advance" => p # c
                /\ f.fn = "poll" => needspoll'[p],
           \A p \in Process : <<0, p>> \in due' =>
                /\ needspoll'[p]
                /\ poll_requested /\ f.fn = "poll" => poll_requested'
                /\ f.fn = "poll" /\ <<n + 1, p>> \in due => <<n + 1, p>> \in due',
           f.fn = "event" => poll_requested' = poll_requested
    PROVE  WalkInv'
<1>1. /\ BottomUp /\ DueOK /\ PollIsPending /\ stack # <<>> /\ Len(stack) \in Nat \ {0}
      /\ Top.fn \in {"event", "poll"}
  <2>1. stack # <<>> /\ Top.fn \in {"event", "poll"}
    BY DEF Active
  <2>. QED
    BY <2>1, TopAndBelow
<1>2. /\ Len(stack') \in Nat /\ n + 1 <= Len(stack') /\ n <= Len(stack') /\ Upto(n)
      /\ stack'[n + 1] = f /\ n + 1 \in 1..Len(stack') /\ n + 1 \in Nat
      /\ \A d \in Nat : d <= n + 1 \/ d > Len(stack)
  BY DEF Turned, TurnedPushed
<1>3. StopsKept /\ BottomUp'
  <2>1. CASE Turned(f)
    BY <1>1, <2>1, TurnKept, BottomUpKept
  <2>2. ASSUME NEW g, TurnedPushed(f, g), g.fn \notin {"event", "poll", "exit"}
        PROVE  StopsKept /\ BottomUp'
    BY <1>1, <2>2, TurnPushKept, BottomUpKept DEF Undisturbed
  <2>. QED
    BY <2>1, <2>2
<1>4. ASSUME NEW d \in Nat, NEW p \in Process, d > n, <<d, p>> \in due'
      PROVE  p \in Listed /\ Owed(d, p)'
  <2>1. d <= Len(stack) /\ p \in Listed
    BY <1>1, <1>4, NothingOwed
  <2>2. d = n + 1
    BY <1>4, <2>1
  <2>3. Reaches(c, p)'
    <3>1. Reaches(c, p)
      BY <1>4, <2>2
    <3>. QED
      BY <3>1, ReachUnchanged
  <2>4. Cursor(f) = c /\ f.fn # "exit"
    BY <1>1 DEF Cursor
  <2>5. Owed(n + 1, p)'
    BY <1>2, <1>4, <2>2, <2>3, <2>4, OwedAt
  <2>. QED
    BY <2>1, <2>2, <2>5
<1>5. DueOK'
  <2>1. \A d \in Nat, p \in Process : d <= n /\ <<d, p>> \in due' => <<d, p>> \in due
    OBVIOUS
  <2>. QED
    BY <1>2, <1>3, <1>4, <2>1, EventKeepsDue
<1>6. ASSUME NEW p \in Process, <<0, p>> \in due'
      PROVE  /\ needspoll'[p]
             /\ \/ poll_requested'
                \/ \E d \in 1..Len(stack') : stack'[d].fn = "poll" /\ <<d, p>> \in due'
  <2>1. <<0, p>> \in due
    BY <1>6
  <2>2. needspoll'[p]
    BY <1>6
  <2>3. CASE f.fn = "event"
    BY <2>1, <2>2, <2>3, EventOnTop
  <2>4. CASE f.fn = "poll" /\ poll_requested
    BY <1>6, <2>2, <2>4
  <2>5. CASE f.fn = "poll" /\ ~poll_requested
    <3>1. PICK d \in 1..Len(stack) : stack[d].fn = "poll" /\ <<d, p>> \in due
      BY <1>1, <2>1, <2>5 DEF PollIsPending
    <3>2. d = n + 1
      BY <3>1, EventOnTop
    <3>3. <<n + 1, p>> \in due'
      BY <1>6, <2>5, <3>1, <3>2
    <3>. QED
      BY <1>2, <2>2, <2>5, <3>3
  <2>. QED
    BY <1>1, <2>3, <2>4, <2>5
<1>7. PollIsPending'
  BY <1>6 DEF PollIsPending
<1>. QED
  BY <1>3, <1>5, <1>7 DEF WalkInv

LEMMA TakeBroadcastKeepsWalks ==
    ASSUME KInv, WalkInv, TakeBroadcast PROVE WalkInv'
<1>1. Active("event") /\ Top.at = "take" /\ stack # <<>> /\ Top.fn = "event"
  BY DEF TakeBroadcast, EventAt, Active
<1>2. /\ TypeOK /\ ListIsSimple /\ IInv /\ BottomUp /\ DueOK /\ PollIsPending
      /\ Len(stack) \in Nat \ {0}
  BY <1>1, TopAndBelow
<1>3. PICK n \in Nat : Len(stack) = n + 1 /\ n + 1 \in Nat /\ n + 1 # 0
  BY <1>1, TopAndBelow
<1>4. PICK f : Turned(f) /\ IsEvent(f, "each", First)
  BY <1>2, EventMoves
<1>5. PICK c : c = First
  OBVIOUS
<1>6. /\ Len(stack') = n + 1 /\ Upto(n) /\ stack'[n + 1] = f /\ n + 1 \in 1..Len(stack')
      /\ f.fn = "event" /\ f.at = "each" /\ f.p = c /\ n <= Len(stack') /\ Len(stack') \in Nat
  BY <1>3, <1>4, <1>5 DEF Turned, IsEvent
<1>7. /\ UNCHANGED <<list, stale, running, needspoll, poll_requested>>
      /\ due' = due \cup Walk(n + 1, Listed)
  BY <1>3 DEF TakeBroadcast, flags
<1>8. StopsKept /\ BottomUp'
  BY <1>1, <1>2, <1>4, <1>6, TurnKept, BottomUpKept
<1>9. ASSUME NEW d \in Nat, NEW p \in Process, d > n, <<d, p>> \in due'
      PROVE  p \in Listed /\ Owed(d, p)'
  <2>1. <<d, p>> \notin due
    <3>1. ~Walking(Top)
      BY <1>1 DEF Walking
    <3>. QED
      BY <1>2, <1>3, <1>9, <3>1, NothingOwed
  <2>2. d = n + 1 /\ p \in Listed
    BY <1>7, <1>9, <2>1 DEF Walk
  <2>3. Reaches(c, p)'
    <3>1. Reaches(c, p)
      BY <1>2, <1>5, <2>2, HeadReaches
    <3>. QED
      BY <1>7, <3>1, ReachUnchanged
  <2>4. Walking(f) /\ Cursor(f) = c
    BY <1>6 DEF Walking, Cursor
  <2>5. Owed(n + 1, p)'
    BY <1>3, <1>6, <2>3, <2>4, OwedAt
  <2>. QED
    BY <2>2, <2>5
<1>10. DueOK'
  <2>1. \A d \in Nat, p \in Process : d <= n /\ <<d, p>> \in due' => <<d, p>> \in due
    BY <1>7 DEF Walk
  <2>. QED
    BY <1>1, <1>3, <1>6, <1>7, <1>8, <1>9, <2>1, EventKeepsDue
<1>11. PollIsPending'
  <2>1. \A p \in Process : <<0, p>> \in due' => <<0, p>> \in due
    BY <1>3, <1>7 DEF Walk
  <2>. QED
    BY <1>1, <1>3, <1>7, <2>1, EventOnTop DEF PollIsPending
<1>. QED
  BY <1>8, <1>10, <1>11 DEF WalkInv

LEMMA TakeDirectKeepsWalks ==
    ASSUME KInv, WalkInv, TakeDirect PROVE WalkInv'
<1>1. Active("event") /\ Top.at = "take" /\ stack # <<>> /\ Top.fn = "event"
  BY DEF TakeDirect, EventAt, Active
<1>2. /\ IInv /\ BottomUp /\ DueOK /\ PollIsPending
      /\ Len(stack) \in Nat \ {0} /\ running \in [Process -> BOOLEAN]
  BY <1>1, TopAndBelow DEF TypeOK
<1>3. PICK n \in Nat : Len(stack) = n + 1 /\ n + 1 \in Nat /\ n + 1 # 0
  BY <1>1, TopAndBelow
<1>4. PICK q \in Process, ev \in Posted : \E f :
            /\ running' = [running EXCEPT ![q] = (ev = "INIT") \/ running[q]]
            /\ Delivers(running'[q], q, ev, f)
            /\ IsEvent(f, "each", Top.p)
  BY <1>2, EventMoves
<1>5. PICK f : /\ running' = [running EXCEPT ![q] = (ev = "INIT") \/ running[q]]
               /\ Delivers(running'[q], q, ev, f)
               /\ IsEvent(f, "each", Top.p)
  BY <1>4
<1>6. UNCHANGED <<list, stale, needspoll, poll_requested>>
  BY DEF TakeDirect
<1>7. \A p \in Process : running[p] => running'[p]
  BY <1>2, <1>5
<1>8. <<n + 1, q>> \notin due
  <2>1. ~Walking(Top)
    BY <1>1 DEF Walking
  <2>. QED
    BY <1>2, <1>3, <2>1, NothingOwed
<1>9. due' = due
  <2>1. ev # "POLL"
    OBVIOUS
  <2>2. \/ due' = due
        \/ due' = due \ {<<IF ev = "POLL" THEN 0 ELSE Len(stack), q>>, <<Len(stack), q>>}
    BY <1>5 DEF Delivers
  <2>. QED
    BY <1>3, <1>8, <2>1, <2>2
<1>10. Turned(f) \/ \E g : TurnedPushed(f, g) /\ g.fn = "thread"
  BY <1>5 DEF Delivers, IsThread
<1>11. f.fn = "event"
  BY <1>5 DEF IsEvent
<1>12. /\ StopsKept /\ BottomUp' /\ Upto(n) /\ Len(stack') \in Nat /\ n <= Len(stack')
  <2>1. CASE Turned(f)
    BY <1>1, <1>2, <1>3, <1>11, <2>1, TurnKept, BottomUpKept DEF Turned
  <2>2. ASSUME NEW g, TurnedPushed(f, g), g.fn = "thread"
        PROVE  /\ StopsKept /\ BottomUp' /\ Upto(n) /\ Len(stack') \in Nat /\ n <= Len(stack')
    <3>1. Upto(n) /\ Len(stack') \in Nat /\ n <= Len(stack')
      BY <1>3, <2>2 DEF TurnedPushed
    <3>. QED
      BY <1>1, <1>2, <1>11, <2>2, <3>1, TurnPushKept, BottomUpKept DEF Undisturbed
  <2>. QED
    BY <1>10, <2>1, <2>2
<1>13. DueOK' /\ PollIsPending'
  <2>1. ~(Walking(Top) /\ Cursor(Top) # NULL) /\ n = Len(stack) - 1
    BY <1>1, <1>3 DEF Walking
  <2>. QED
    BY <1>2, <1>3, <1>6, <1>7, <1>9, <1>12, <2>1, QuietStep
<1>. QED
  BY <1>12, <1>13 DEF WalkInv

LEMMA EventEndsKeepWalks ==
    ASSUME KInv, WalkInv, EventReturn \/ PollReturn PROVE WalkInv'
<1>1. /\ Active("event") \/ Active("poll")
      /\ stack # <<>> /\ Top.fn \in {"event", "poll"}
      /\ (Top.fn = "event" /\ Top.at = "take") \/ Top.p = NULL
  BY DEF EventReturn, PollReturn, EventAt, PollAt, Active
<1>2. /\ IInv /\ BottomUp /\ DueOK /\ PollIsPending /\ Len(stack) \in Nat \ {0}
  BY <1>1, TopAndBelow
<1>3. PICK n \in Nat : Len(stack) = n + 1 /\ n = Len(stack) - 1
  BY <1>1, TopAndBelow
<1>4. PoppedOne
  BY <1>2, EventMoves
<1>5. StopsKept /\ BottomUp'
  BY <1>1, <1>2, <1>4, PopKept, BottomUpKept
<1>6. Upto(n) /\ Len(stack') \in Nat /\ n <= Len(stack')
  BY <1>3, <1>4 DEF PoppedOne
<1>7. ~(Walking(Top) /\ Cursor(Top) # NULL)
  BY <1>1 DEF Walking, Cursor
<1>8. UNCHANGED <<list, stale, running, needspoll, poll_requested, due>>
  BY DEF EventReturn, PollReturn, flags
<1>9. DueOK' /\ PollIsPending'
  BY <1>2, <1>3, <1>5, <1>6, <1>7, <1>8, QuietStep
<1>. QED
  BY <1>5, <1>9 DEF WalkInv

LEMMA BroadcastPollKeepsWalks ==
    ASSUME KInv, WalkInv, BroadcastPoll PROVE WalkInv'
<1>1. /\ Active("event") /\ Top.at = "each" /\ Top.p # NULL
      /\ stack # <<>> /\ Top.fn = "event"
  BY DEF BroadcastPoll, EventAt, Active
<1>2. /\ TypeOK /\ ListIsSimple /\ IInv /\ BottomUp /\ DueOK /\ PollIsPending
      /\ Len(stack) \in Nat \ {0} /\ stack \in Seq(Frame)
  BY <1>1, TopAndBelow
<1>3. PICK n \in Nat : Len(stack) = n + 1 /\ n + 1 \in Nat /\ n + 1 # 0
  BY <1>1, TopAndBelow
<1>4. PICK f, g : /\ TurnedPushed(f, g) /\ IsEvent(f, "deliver", Top.p)
                  /\ IsPoll(g, "look", First)
  BY <1>2, EventMoves
<1>5. PICK x, c : x = Top.p /\ c = First
  OBVIOUS
<1>6. /\ Len(stack') = n + 2 /\ Upto(n) /\ stack'[n + 1] = f /\ stack'[n + 2] = g
      /\ n + 1 \in 1..Len(stack') /\ n + 2 \in 1..Len(stack') /\ n + 2 \in Nat
      /\ n <= Len(stack') /\ Len(stack') \in Nat /\ n + 2 # n + 1 /\ n + 2 > n
      /\ f.fn = "event" /\ f.at = "deliver" /\ f.p = x
      /\ g.fn = "poll" /\ g.at = "look" /\ g.p = c
  BY <1>3, <1>4, <1>5 DEF TurnedPushed, IsEvent, IsPoll
<1>7. /\ UNCHANGED <<list, stale, running, needspoll>>
      /\ due' = due \cup Walk(n + 2, {p \in Listed : needspoll[p]})
  <2>. DEFINE s == With([Top EXCEPT !.at = "deliver"])
  <2>1. /\ due' = due \cup Walk(Len(s) + 1, {p \in Listed : needspoll[p]})
        /\ UNCHANGED <<list, stale, running, needspoll>>
    BY DEF BroadcastPoll, EnterPoll, flags
  <2>2. Len(s) = Len(stack)
    BY <1>2, Replaced DEF With
  <2>. HIDE DEF s
  <2>3. Len(s) + 1 = n + 2
    BY <1>3, <2>2
  <2>. QED
    BY <2>1, <2>3
<1>8. StopsKept /\ BottomUp'
  BY <1>1, <1>2, <1>4, <1>6, TurnPushKept, BottomUpKept DEF Undisturbed
<1>9. ASSUME NEW d \in Nat, NEW p \in Process, d > n, <<d, p>> \in due'
      PROVE  p \in Listed /\ Owed(d, p)'
  <2>1. CASE <<d, p>> \in due
    <3>1. d = n + 1
      <4>1. d <= Len(stack)
        BY <1>2, <2>1, NothingOwed
      <4>. QED
        BY <1>3, <1>9, <4>1
    <3>2. p \in Listed /\ Reaches(x, p)
      BY <1>1, <1>3, <1>5, <2>1, <3>1, TopOwes
    <3>3. Reaches(x, p)'
      BY <1>7, <3>2, ReachUnchanged
    <3>4. Walking(f) /\ Cursor(f) = x
      BY <1>6 DEF Walking, Cursor
    <3>5. Owed(n + 1, p)'
      BY <1>3, <1>6, <3>3, <3>4, OwedAt
    <3>. QED
      BY <3>1, <3>2, <3>5
  <2>2. CASE <<d, p>> \notin due
    <3>1. d = n + 2 /\ p \in Listed /\ needspoll'[p]
      BY <1>7, <1>9, <2>2 DEF Walk
    <3>2. Reaches(c, p)
      BY <1>2, <1>5, <3>1, HeadReaches
    <3>3. Reaches(c, p)'
      BY <1>7, <3>2, ReachUnchanged
    <3>4. Walking(g) /\ Cursor(g) = c
      BY <1>6 DEF Walking, Cursor
    <3>5. Owed(n + 2, p)'
      BY <1>6, <3>1, <3>3, <3>4, OwedAt
    <3>. QED
      BY <3>1, <3>5
  <2>. QED
    BY <2>1, <2>2
<1>10. \A d \in Nat, p \in Process : d <= n /\ <<d, p>> \in due' => <<d, p>> \in due
  BY <1>7 DEF Walk
<1>11. DueOK'
  BY <1>1, <1>3, <1>6, <1>7, <1>8, <1>9, <1>10, EventKeepsDue
<1>12. ASSUME NEW p \in Process, <<0, p>> \in due'
       PROVE  needspoll'[p] /\ <<n + 2, p>> \in due'
  <2>1. <<0, p>> \in due
    <3>1. 0 <= n
      OBVIOUS
    <3>. QED
      BY <1>10, <1>12, <3>1
  <2>2. needspoll[p] /\ p \in Listed
    BY <1>2, <2>1 DEF PollIsPending, DueOK
  <2>. QED
    BY <1>7, <2>2 DEF Walk
<1>13. PollIsPending'
  BY <1>6, <1>12 DEF PollIsPending
<1>. QED
  BY <1>8, <1>11, <1>13 DEF WalkInv

LEMMA DeliverKeepsWalks ==
    ASSUME KInv, WalkInv, BroadcastDeliver \/ PollDeliver PROVE WalkInv'
<1>1. /\ Active("event") \/ Active("poll")
      /\ stack # <<>> /\ Top.fn \in {"event", "poll"}
  BY DEF BroadcastDeliver, PollDeliver, EventAt, PollAt, Active
<1>2. /\ IInv /\ DueOK /\ PollIsPending /\ Listed \subseteq Process
      /\ running \in [Process -> BOOLEAN] /\ needspoll \in [Process -> BOOLEAN]
  BY <1>1, TopAndBelow DEF TypeOK
<1>3. PICK n \in Nat : Len(stack) = n + 1 /\ n + 1 \in Nat /\ n + 1 # 0
  BY <1>1, TopAndBelow
<1>4. PICK q \in Process : q = Top.p
  <2>1. Top.p \in Process
    BY <1>2, EventMoves DEF BroadcastDeliver, PollDeliver, PollAt, Ptr
  <2>. QED
    BY <2>1
<1>5. PICK ev, run : \E f :
            /\ Delivers(run, q, ev, f)
            /\ f.fn = Top.fn /\ f.at = "advance" /\ f.p = q
            /\ \/ Top.fn = "event" /\ run = running[q] /\ UNCHANGED <<running, needspoll>>
               \/ /\ Top.fn = "poll" /\ run = TRUE /\ ev = "POLL"
                  /\ running' = [running EXCEPT ![q] = TRUE]
                  /\ needspoll' = [needspoll EXCEPT ![q] = FALSE]
  <2>1. CASE BroadcastDeliver
    <3>1. PICK f : Delivers(running[Top.p], Top.p, Top.ev, f) /\ IsEvent(f, "advance", Top.p)
      BY <1>2, <2>1, EventMoves
    <3>2. Top.fn = "event" /\ UNCHANGED <<running, needspoll>>
      BY <1>2, <2>1, EventMoves DEF BroadcastDeliver
    <3>. QED
      BY <1>4, <3>1, <3>2 DEF IsEvent
  <2>2. CASE PollDeliver
    <3>1. PICK f : Delivers(TRUE, Top.p, "POLL", f) /\ IsPoll(f, "advance", Top.p)
      BY <1>2, <2>2, EventMoves
    <3>2. /\ Top.fn = "poll" /\ running' = [running EXCEPT ![q] = TRUE]
          /\ needspoll' = [needspoll EXCEPT ![q] = FALSE]
      BY <1>4, <2>2 DEF PollDeliver, PollAt, Active
    <3>. QED
      BY <1>4, <3>1, <3>2 DEF IsPoll
  <2>. QED
    BY <2>1, <2>2
<1>6. PICK f :
            /\ Delivers(run, q, ev, f)
            /\ f.fn = Top.fn /\ f.at = "advance" /\ f.p = q
            /\ \/ Top.fn = "event" /\ run = running[q] /\ UNCHANGED <<running, needspoll>>
               \/ /\ Top.fn = "poll" /\ run = TRUE /\ ev = "POLL"
                  /\ running' = [running EXCEPT ![q] = TRUE]
                  /\ needspoll' = [needspoll EXCEPT ![q] = FALSE]
  BY <1>5
<1>7. UNCHANGED <<list, stale, poll_requested>>
  BY DEF BroadcastDeliver, PollDeliver
<1>8. \A p \in Process : running[p] => running'[p]
  BY <1>2, <1>6
\* A listed process is called: it runs and is not in a call.
<1>9. q \in Listed => run /\ ~called[q]
  BY <1>1, <1>2, <1>6, BottomIsQuiet DEF WalkInv
<1>10. /\ \A d \in Nat, p \in Process : <<d, p>> \in due' => <<d, p>> \in due
       /\ \A p \in Process : p # q /\ <<n + 1, p>> \in due => <<n + 1, p>> \in due'
       /\ <<n + 1, q>> \notin due'
       /\ ev = "POLL" => <<0, q>> \notin due'
       /\ Turned(f) \/ \E g : TurnedPushed(f, g) /\ g.fn = "thread"
  <2>1. CASE run /\ ~called[q]
    <3>1. /\ \E g : TurnedPushed(f, g) /\ IsThread(g, q)
          /\ due' = due \ {<<IF ev = "POLL" THEN 0 ELSE Len(stack), q>>, <<Len(stack), q>>}
      BY <1>6, <2>1 DEF Delivers
    <3>2. \A p \in Process : p # q /\ <<n + 1, p>> \in due => <<n + 1, p>> \in due'
      BY <3>1
    <3>. QED
      BY <1>3, <3>1, <3>2 DEF IsThread
  <2>2. CASE ~(run /\ ~called[q])
    <3>1. Turned(f) /\ due' = due
      BY <1>6, <2>2 DEF Delivers
    <3>2. \A d \in Nat : <<d, q>> \notin due
      BY <1>2, <1>9, <2>2 DEF DueOK
    <3>3. 0 \in Nat
      OBVIOUS
    <3>. QED
      BY <1>3, <3>1, <3>2, <3>3
  <2>. QED
    BY <2>1, <2>2
<1>11. ASSUME NEW p \in Process, <<n + 1, p>> \in due'
       PROVE  Reaches(q, p) /\ p # q /\ (f.fn = "poll" => needspoll'[p])
  <2>1. p # q /\ <<n + 1, p>> \in due
    BY <1>3, <1>10, <1>11
  <2>2. Reaches(q, p) /\ (Top.fn = "poll" => needspoll[p])
    BY <1>1, <1>3, <1>4, <2>1, TopOwes
  <2>. QED
    BY <1>2, <1>6, <2>1, <2>2
<1>12. ASSUME NEW p \in Process, <<0, p>> \in due'
       PROVE  /\ needspoll'[p]
              /\ poll_requested /\ f.fn = "poll" => poll_requested'
              /\ f.fn = "poll" /\ <<n + 1, p>> \in due => <<n + 1, p>> \in due'
  <2>1. <<0, p>> \in due
    BY <1>10, <1>12
  <2>2. needspoll[p] /\ p \in Listed
    BY <1>2, <2>1 DEF PollIsPending, DueOK
  <2>3. CASE p # q
    BY <1>2, <1>6, <1>7, <1>10, <2>2, <2>3
  <2>4. CASE p = q
    <3>1. Top.fn = "event" /\ f.fn = "event"
      BY <1>6, <1>10, <1>12, <2>4
    <3>. QED
      BY <1>6, <1>7, <2>2, <2>4, <3>1
  <2>. QED
    BY <2>3, <2>4
<1>13. Walking(f) /\ f.fn = Top.fn
  BY <1>1, <1>6 DEF Walking
<1>14. Turned(f) \/ \E g : TurnedPushed(f, g) /\ g.fn \notin {"event", "poll", "exit"}
  BY <1>10
<1>. QED
  BY <1>1, <1>3, <1>6, <1>7, <1>8, <1>10, <1>11, <1>12, <1>13, <1>14, TurnKeepsWalks

LEMMA AdvanceKeepsWalks ==
    ASSUME KInv, WalkInv, BroadcastAdvance \/ PollAdvance PROVE WalkInv'
<1>1. /\ Active("event") \/ Active("poll")
      /\ stack # <<>> /\ Top.fn \in {"event", "poll"}
  BY DEF BroadcastAdvance, PollAdvance, EventAt, PollAt, Active
<1>2. /\ TypeOK /\ ListIsSimple /\ IInv /\ DueOK /\ PollIsPending /\ Listed \subseteq Process
  BY <1>1, TopAndBelow
<1>3. PICK n \in Nat : Len(stack) = n + 1 /\ n + 1 \in Nat /\ n + 1 # 0
  BY <1>1, TopAndBelow
<1>4. PICK q \in Process : q = Top.p
  <2>1. Top.p \in Process
    BY <1>2, EventMoves DEF BroadcastAdvance, PollAdvance, EventAt, PollAt, Ptr
  <2>. QED
    BY <2>1
<1>5. PICK c : c = Next_(q)
  OBVIOUS
<1>6. PICK f : Turned(f) /\ f.fn = Top.fn /\ f.p = c /\ f.at # "advance" /\ f.at # "take"
  <2>1. CASE BroadcastAdvance
    <3>1. PICK f : Turned(f) /\ IsEvent(f, "each", Next_(Top.p))
      BY <1>2, <2>1, EventMoves
    <3>. QED
      BY <1>4, <1>5, <2>1, <3>1 DEF IsEvent, BroadcastAdvance, EventAt, Active
  <2>2. CASE PollAdvance
    <3>1. PICK f : Turned(f) /\ IsPoll(f, "look", Next_(Top.p))
      BY <1>2, <2>2, EventMoves
    <3>. QED
      BY <1>4, <1>5, <2>2, <3>1 DEF IsPoll, PollAdvance, PollAt, Active
  <2>. QED
    BY <2>1, <2>2
<1>7. UNCHANGED <<list, stale, running, needspoll, poll_requested, due>>
  BY DEF BroadcastAdvance, PollAdvance, flags
<1>8. Top.at = "advance" \/ (Top.fn = "poll" /\ ~needspoll[q])
  BY <1>4 DEF BroadcastAdvance, PollAdvance, EventAt, PollAt, Active
<1>9. ASSUME NEW p \in Process, <<n + 1, p>> \in due
      PROVE  Reaches(c, p) /\ (f.fn = "poll" => needspoll'[p])
  <2>1. Reaches(q, p) /\ p # q /\ (Top.fn = "poll" => needspoll[p])
    BY <1>1, <1>3, <1>4, <1>8, <1>9, TopOwes
  <2>2. Reaches(c, p)
    BY <1>2, <1>5, <2>1, WalkGoesOn
  <2>. QED
    BY <1>6, <1>7, <2>1, <2>2
<1>10. \A p \in Process : <<0, p>> \in due' => needspoll'[p]
  BY <1>2, <1>7 DEF PollIsPending
<1>11. Walking(f) /\ f.fn = Top.fn
  BY <1>1, <1>6 DEF Walking
<1>. QED
  BY <1>1, <1>3, <1>6, <1>7, <1>9, <1>10, <1>11, TurnKeepsWalks

LEMMA EventStepsKeepWalks ==
    ASSUME KInv, WalkInv,
           \/ NextEvent \/ TakeBroadcast \/ TakeDirect \/ EventReturn
           \/ BroadcastPoll \/ BroadcastDeliver \/ BroadcastAdvance
           \/ PollDeliver \/ PollAdvance \/ PollReturn
    PROVE  WalkInv'
BY NextEventKeepsWalks, TakeBroadcastKeepsWalks, TakeDirectKeepsWalks,
   EventEndsKeepWalks, BroadcastPollKeepsWalks, DeliverKeepsWalks, AdvanceKeepsWalks

LEMMA InitializeKeepsWalks ==
    ASSUME WalkInv, Initialize PROVE WalkInv'
BY DEF Initialize, WalkInv, BottomUp, DueOK, PollIsPending

LEMMA WalkInvInit == Init => WalkInv
<1>1. Len(<<>>) = 0
  OBVIOUS
<1>. QED
  BY <1>1 DEF Init, WalkInv, BottomUp, DueOK, PollIsPending

LEMMA WalkInvKept == KInv /\ WalkInv /\ [Next]_vars => WalkInv'
<1>1. KInv /\ WalkInv /\ UNCHANGED vars => WalkInv'
  <2>. SUFFICES ASSUME WalkInv, UNCHANGED vars PROVE WalkInv'
    OBVIOUS
  <2>1. UNCHANGED <<list, stale, running, needspoll, poll_requested, stack, due>>
    BY DEF vars, flags
  <2>2. \A c, p : Reaches(c, p)' <=> Reaches(c, p)
    BY <2>1, ReachUnchanged
  <2>3. Listed' = Listed
    BY <2>1 DEF Listed
  <2>4. \A d, p : StopsAbove(d, p)' <=> StopsAbove(d, p)
    BY <2>1 DEF StopsAbove
  <2>5. ASSUME NEW d \in Nat, NEW p \in Process, Owed(d, p) PROVE Owed(d, p)'
    <3>1. PICK c : c = Cursor(stack[d])
      OBVIOUS
    <3>2. Cursor(stack'[d]) = c /\ Walking(stack'[d]) /\ Reaches(c, p)'
      BY <2>1, <2>2, <2>5, <3>1 DEF Owed
    <3>3. Passed(d)' <=> Passed(d)
      BY <2>1 DEF Passed
    <3>. QED
      BY <2>1, <2>4, <2>5, <3>1, <3>2, <3>3 DEF Owed
  <2>6. DueOK'
    BY <2>1, <2>3, <2>5 DEF DueOK, WalkInv
  <2>. QED
    BY <2>1, <2>6 DEF WalkInv, BottomUp, PollIsPending
<1>. QED
  BY <1>1, CallsKeepWalks, ReturnKeepsWalks, ExitStepsKeepWalks,
     EventStepsKeepWalks, InitializeKeepsWalks DEF Next, KernelStep

LEMMA WalksInvariant == Spec => []WalkInv
  BY WalkInvInit, WalkInvKept, KernelInvariant, PTL DEF Spec

\* No walk of the list ends while it owes a process its event: every block that
\* must still be reached follows the cursor, in the list or through the ->next
\* left in the blocks unlinked under it, and no set of blocks closed under
\* following contains the null pointer that ends a walk.
THEOREM WalksReachAllCorrect == Spec => []WalksReachAll
<1>1. KInv /\ WalkInv => WalksReachAll
  <2>1. SUFFICES ASSUME KInv, WalkInv, WalkEnds, NEW d \in due, d[1] = Len(stack)
                 PROVE  FALSE
    BY DEF WalksReachAll
  <2>2. stack # <<>> /\ Walking(Top) /\ Cursor(Top) = NULL
    BY <2>1 DEF WalkEnds, ExitAt, EventAt, PollAt, Active, Walking, Cursor
  <2>3. Len(stack) \in Nat \ {0} /\ DueOK /\ due \in SUBSET (Nat \X Process)
    <3>1. Len(stack) \in Nat \ {0} /\ DueOK /\ TypeOK
      BY <2>1, <2>2, TopAndBelow
    <3>. QED
      BY <3>1 DEF TypeOK
  <2>4. PICK n \in Nat, p \in Process : d = <<n, p>>
    BY <2>1, <2>3
  <2>5. n = Len(stack) /\ <<n, p>> \in due
    BY <2>1, <2>4
  <2>. QED
    BY <2>2, <2>3, <2>5, NothingOwed
<1>. QED
  BY <1>1, KernelInvariant, WalksInvariant, PTL

\* A poll of a listed process is never lost: as long as it is due, the request
\* stands or the round of polls that took the request over still owes it.
THEOREM PollIsPendingCorrect == Spec => []PollIsPending
<1>1. WalkInv => PollIsPending
  BY DEF WalkInv
<1>. QED
  BY <1>1, WalksInvariant, PTL
=============================================================================
