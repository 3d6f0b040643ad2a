-------------------------- MODULE InterruptProofs --------------------------
(***************************************************************************)
(* What interrupts do to the code they come between.  Polls from interrupt *)
(* handlers: for any number of processes none is forgotten, except those   *)
(* that come while another bit of their process is written.  Busy waits:   *)
(* for clocks of any width, and however long the interrupts take, none is  *)
(* too short.                                                              *)
(***************************************************************************)
EXTENDS PollInterrupt, ClockWait, TLAPS

\* Where a listed process may have its called bit set: in a call, and where
\* exit_process has condemned it.
Calling == {"thread", "return", "condemn", "exited", "told", "sentence",
            "start run", "start uncall"}
Exiting == {"scan", "stop", "uncall", "notify", "tell", "exited", "told",
            "sentence", "unmark"}

PlacesOK ==
    /\ bits \in [Block -> SUBSET Bits]
    /\ listed \subseteq Block /\ ahead \subseteq Block /\ rest \subseteq Block
    /\ p \in Block /\ leaving \in Block
    /\ asked \subseteq listed
    /\ pc \in {"walk", "poll run", "poll clear"} => ev = "POLL"
    /\ pc \in {"init", "start run", "start uncall", "start unmark"} => ev = "INIT"
    /\ pc = "unmark" => p \notin listed

\* A loaded word lacks nothing but a poll, and that is served at once or is among
\* those that are undone.
LoadedOK ==
    loaded # EMPTY =>
        /\ AtWrite
        /\ loaded \subseteq bits[p] /\ bits[p] \subseteq loaded \cup {"needspoll"}
        /\ p \in asked /\ "needspoll" \notin loaded => p \in undone \/ WillCall(p)

CalledOK ==
    \A q \in listed : "called" \in bits[q] =>
        \/ q = p /\ pc \in Calling
        \/ "marked_to_exit" \in bits[q] /\ pc \in Exiting

\* So that call_process finds it, do_poll has made the process run.
RunningOK == pc \in {"poll clear", "test"} /\ ev = "POLL" => "running" \in bits[p]

IInv == PlacesOK /\ LoadedOK /\ CalledOK /\ RunningOK /\ PollIsNotForgotten

-----------------------------------------------------------------------------
\* A load.
LEMMA LoadKeeps == ASSUME IInv, LoadBits PROVE IInv'
<1>. USE DEF IInv, LoadBits, walks, promises
<1>1. PlacesOK' /\ CalledOK' /\ RunningOK'
  BY DEF PlacesOK, CalledOK, RunningOK
<1>2. LoadedOK'
  BY DEF PlacesOK, LoadedOK, AtWrite, PollIsNotForgotten, WillLook, WillCall
<1>3. PollIsNotForgotten'
  BY DEF PollIsNotForgotten, WillLook, WillCall
<1>. QED
  BY <1>1, <1>2, <1>3

\* What a store makes of the word, by the bit that it writes.
LEMMA StoredBits ==
    ASSUME IInv, StoreBits
    PROVE  /\ bits' \in [Block -> SUBSET Bits]
           /\ \A q \in Block \ {p} : bits'[q] = bits[q]
           /\ bits'[p] = Written(loaded)
           /\ pc # "poll clear" => ("needspoll" \in bits'[p] <=> "needspoll" \in loaded)
           /\ "called" \in bits'[p] <=>
                 pc \in SetsCalled \/ (pc \notin ClearsCalled /\ "called" \in bits[p])
           /\ "marked_to_exit" \in bits'[p] <=>
                 \/ pc \in SetsMarked
                 \/ pc \notin ClearsMarked /\ "marked_to_exit" \in bits[p]
           /\ "running" \in bits'[p] <=>
                 pc \in SetsRunning \/ (pc \notin ClearsRunning /\ "running" \in bits[p])
<1>1. /\ bits' = [bits EXCEPT ![p] = Written(loaded)]
      /\ AtWrite /\ p \in Block /\ bits \in [Block -> SUBSET Bits]
      /\ loaded \subseteq bits[p] /\ bits[p] \subseteq loaded \cup {"needspoll"}
  BY DEF StoreBits, IInv, PlacesOK, LoadedOK
<1>. USE DEF SetsRunning, ClearsRunning, SetsCalled, ClearsCalled, SetsMarked,
       ClearsMarked, ClearsPoll
<1>2. \/ pc \in SetsRunning /\ Written(loaded) = loaded \cup {"running"}
      \/ pc \in ClearsRunning /\ Written(loaded) = loaded \ {"running"}
      \/ pc \in SetsCalled /\ Written(loaded) = loaded \cup {"called"}
      \/ pc \in ClearsCalled /\ Written(loaded) = loaded \ {"called"}
      \/ pc \in SetsMarked /\ Written(loaded) = loaded \cup {"marked_to_exit"}
      \/ pc \in ClearsMarked /\ Written(loaded) = loaded \ {"marked_to_exit"}
      \/ pc \in ClearsPoll /\ Written(loaded) = loaded \ {"needspoll"}
  BY <1>1 DEF AtWrite, Written
<1>3. Written(loaded) \in SUBSET Bits
  BY <1>1, <1>2 DEF Bits
<1>4. /\ bits' \in [Block -> SUBSET Bits]
      /\ \A q \in Block \ {p} : bits'[q] = bits[q]
      /\ bits'[p] = Written(loaded)
  BY <1>1, <1>3
<1>. QED
  BY <1>1, <1>2, <1>4

LEMMA StoreKeeps == ASSUME IInv, StoreBits PROVE IInv'
<1>. USE DEF IInv
<1>1. /\ loaded # EMPTY /\ loaded' = EMPTY /\ pc' = Following
      /\ poll_requested' = poll_requested /\ p' = p /\ ev' = ev
      /\ listed' = listed /\ ahead' = ahead /\ leaving' = leaving /\ rest' = rest
      /\ asked' = asked /\ undone' = undone /\ AtWrite
  BY DEF StoreBits, walks, promises
<1>2. \/ pc = "poll run" /\ pc' = "poll clear"
      \/ pc \in {"poll clear", "init", "start unmark"} /\ pc' = "test"
      \/ pc = "call" /\ pc' = "thread"
      \/ pc = "return" /\ pc' = Back
      \/ pc \in {"condemn", "unmark"} /\ pc' = "scan"
      \/ pc = "stop" /\ pc' = "uncall"
      \/ pc \in {"uncall", "told", "sentence"} /\ pc' = "notify"
      \/ pc = "tell" /\ pc' = "exited"
      \/ pc = "start run" /\ pc' = "start uncall"
      \/ pc = "start uncall" /\ pc' = "start unmark"
  <2>1. pc \in {"poll run", "init", "start run", "stop", "call", "tell", "return",
                "uncall", "told", "start uncall", "condemn", "sentence", "unmark",
                "start unmark", "poll clear"}
    BY <1>1 DEF AtWrite, SetsRunning, ClearsRunning, SetsCalled, ClearsCalled,
       SetsMarked, ClearsMarked, ClearsPoll
  <2>2. CASE pc \in {"poll run", "poll clear", "init", "call", "return"}
    BY <1>1, <2>2 DEF Following
  <2>3. CASE pc \in {"start run", "start uncall", "start unmark"}
    BY <1>1, <2>3 DEF Following
  <2>4. CASE pc \in {"condemn", "unmark", "stop"}
    BY <1>1, <2>4 DEF Following
  <2>5. CASE pc \in {"uncall", "told", "sentence", "tell"}
    BY <1>1, <2>5 DEF Following
  <2>. QED
    BY <2>1, <2>2, <2>3, <2>4, <2>5
<1>3. Back \in {"walk", "idle"} /\ (Back = "walk" => ev = "POLL")
  BY DEF Back
<1>4. PlacesOK'
  BY <1>1, <1>2, <1>3, StoredBits DEF PlacesOK
<1>5. LoadedOK'
  BY <1>1 DEF LoadedOK
<1>6. CalledOK'
  <2>. SUFFICES ASSUME NEW q \in listed, "called" \in bits'[q]
                PROVE  \/ q = p /\ pc' \in Calling
                       \/ "marked_to_exit" \in bits'[q] /\ pc' \in Exiting
    BY <1>1 DEF CalledOK
  <2>1. q \in Block /\ p \in Block
    BY DEF PlacesOK
  <2>2. CASE q # p
    <3>1. "called" \in bits[q] /\ bits'[q] = bits[q]
      BY <2>1, <2>2, StoredBits
    <3>2. "marked_to_exit" \in bits[q] /\ pc \in Exiting
      BY <2>2, <3>1 DEF CalledOK
    <3>. QED
      BY <1>2, <3>1, <3>2 DEF Exiting
  <2>3. CASE q = p
    <3>. USE DEF SetsCalled, ClearsCalled, SetsMarked, ClearsMarked
    <3>1. CASE pc \in SetsCalled
      BY <1>2, <2>3, <3>1 DEF Calling
    <3>2. CASE pc \notin SetsCalled
      <4>1. pc \notin ClearsCalled /\ "called" \in bits[p]
        BY <2>3, <3>2, StoredBits
      <4>2. \/ pc \in Calling
            \/ "marked_to_exit" \in bits[p] /\ pc \in Exiting
        BY <2>3, <4>1 DEF CalledOK
      <4>3. pc # "unmark"
        BY <2>3 DEF PlacesOK
      <4>4. \/ pc \in {"condemn", "sentence"}
            \/ pc = "start run"
            \/ pc = "stop" /\ "marked_to_exit" \in bits[p]
        BY <1>2, <3>2, <4>1, <4>2, <4>3 DEF Calling, Exiting
      <4>5. pc \in {"condemn", "sentence", "stop"} => "marked_to_exit" \in bits'[p]
        BY <4>4, StoredBits
      <4>. QED
        BY <1>2, <2>3, <4>4, <4>5 DEF Calling, Exiting
    <3>. QED
      BY <3>1, <3>2
  <2>. QED
    BY <2>2, <2>3
<1>7. RunningOK'
  <2>. SUFFICES ASSUME pc' \in {"poll clear", "test"}, ev = "POLL"
                PROVE  "running" \in bits'[p]
    BY <1>1 DEF RunningOK
  <2>1. pc \in {"poll run", "poll clear"}
    BY <1>2, <1>3 DEF PlacesOK
  <2>2. pc = "poll clear" => "running" \in bits[p]
    BY DEF RunningOK
  <2>. QED
    BY <2>1, <2>2, StoredBits DEF SetsRunning, ClearsRunning
<1>8. PollIsNotForgotten'
  <2>. SUFFICES ASSUME NEW q \in asked, q \notin undone, ~WillCall(q)'
                PROVE  WillLook(q)'
    BY <1>1 DEF PollIsNotForgotten
  <2>1. q \in Block /\ p \in Block
    BY DEF PlacesOK
  <2>2. ~WillCall(q)
    BY <1>1, <1>2 DEF WillCall
  <2>3. WillLook(q)
    BY <2>2 DEF PollIsNotForgotten
  <2>4. CASE q # p
    BY <1>1, <2>1, <2>3, <2>4, StoredBits DEF WillLook
  <2>5. CASE q = p
    <3>1. pc # "poll clear"
      BY <2>2, <2>5 DEF PlacesOK, WillCall
    <3>2. "needspoll" \in loaded
      BY <1>1, <2>2, <2>5 DEF LoadedOK
    <3>. QED
      BY <1>1, <2>3, <2>5, <3>1, <3>2, StoredBits DEF WillLook
  <2>. QED
    BY <2>4, <2>5
<1>. QED
  BY <1>4, <1>5, <1>6, <1>7, <1>8
-----------------------------------------------------------------------------
\* An interrupt asks for a poll: it is pending, or the word that has been loaded
\* is old now.
LEMMA InterruptKeeps ==
    ASSUME IInv, NEW q \in Block, Interrupt(q)
    PROVE  IInv'
<1>. USE DEF IInv
<1>1. /\ bits' = [bits EXCEPT ![q] = @ \cup {"needspoll"}]
      /\ poll_requested' = TRUE
      /\ asked' = asked \cup ({q} \cap listed)
      /\ undone' = IF loaded # EMPTY /\ q = p /\ "needspoll" \notin loaded
                   THEN undone \cup ({q} \cap listed) ELSE undone \ {q}
      /\ pc' = pc /\ p' = p /\ ev' = ev /\ loaded' = loaded
      /\ listed' = listed /\ ahead' = ahead /\ leaving' = leaving /\ rest' = rest
  BY DEF Interrupt, walks
<1>2. /\ bits' \in [Block -> SUBSET Bits]
      /\ \A r \in Block : bits'[r] = IF r = q THEN bits[r] \cup {"needspoll"} ELSE bits[r]
  BY <1>1 DEF PlacesOK, Bits
<1>3. PlacesOK'
  BY <1>1, <1>2 DEF PlacesOK
<1>4. \A r \in Block : \A b \in Bits \ {"needspoll"} : b \in bits'[r] <=> b \in bits[r]
  BY <1>2
<1>5. CalledOK' /\ RunningOK'
  BY <1>1, <1>4 DEF CalledOK, RunningOK, PlacesOK, Bits
<1>6. LoadedOK'
  <2>. SUFFICES ASSUME loaded # EMPTY PROVE LoadedOK'
    BY <1>1 DEF LoadedOK
  <2>1. AtWrite' /\ p \in Block
    BY <1>1 DEF LoadedOK, AtWrite, PlacesOK
  <2>2. loaded \subseteq bits'[p] /\ bits'[p] \subseteq loaded \cup {"needspoll"}
    BY <1>2, <2>1 DEF LoadedOK
  <2>3. p \in asked' /\ "needspoll" \notin loaded => p \in undone' \/ WillCall(p)
    BY <1>1 DEF LoadedOK, PlacesOK
  <2>. QED
    BY <1>1, <2>1, <2>2, <2>3 DEF LoadedOK, WillCall
<1>7. PollIsNotForgotten'
  <2>. SUFFICES ASSUME NEW r \in asked', r \notin undone', ~WillCall(r)
                PROVE  "needspoll" \in bits'[r]
    BY <1>1 DEF PollIsNotForgotten, WillLook, WillCall
  <2>1. r \in Block
    BY <1>1 DEF PlacesOK
  <2>2. CASE r = q
    BY <1>2, <2>1, <2>2
  <2>3. CASE r # q
    BY <1>1, <1>2, <2>1, <2>3 DEF PollIsNotForgotten, WillLook
  <2>. QED
    BY <2>2, <2>3
<1>. QED
  BY <1>3, <1>5, <1>6, <1>7
-----------------------------------------------------------------------------
\* The steps at which nothing is loaded and no bit is written.
Between ==
    \/ DoPoll \/ DoPollReturn \/ CallProcess \/ Thread
    \/ ScanReturns \/ AnswerExited \/ Unlink
    \/ \E q \in Block :
           LookAt(q) \/ DoEvent(q) \/ StartProcess(q) \/ ExitProcess(q)
           \/ ScanFinds(q) \/ Notify(q)

\* What such a step has to keep, by what it says of the variables.
LEMMA NothingLoaded ==
    ASSUME IInv, Between
    PROVE  /\ loaded = EMPTY /\ loaded' = EMPTY /\ bits' = bits
           /\ LoadedOK'
<1>1. loaded' = loaded /\ bits' = bits
  BY DEF Between, DoPoll, DoPollReturn, CallProcess, Thread, ScanReturns, AnswerExited,
     Unlink, LookAt, DoEvent, StartProcess, ExitProcess, ScanFinds, Notify
<1>2. ~AtWrite
  BY DEF Between, DoPoll, DoPollReturn, CallProcess, Thread, ScanReturns, AnswerExited,
     Unlink, LookAt, DoEvent, StartProcess, ExitProcess, ScanFinds, Notify, AtWrite,
     SetsRunning, ClearsRunning, SetsCalled, ClearsCalled, SetsMarked, ClearsMarked,
     ClearsPoll
<1>3. loaded = EMPTY
  BY <1>2 DEF IInv, LoadedOK
<1>. QED
  BY <1>1, <1>3 DEF LoadedOK

\* One that leaves the requests alone and is in no call that it does not go on
\* with forgets no poll.
LEMMA RequestsStay ==
    ASSUME PollIsNotForgotten, bits' = bits, poll_requested' = poll_requested,
           ahead' = ahead,
           \A q \in asked' : /\ q \in asked
                             /\ WillCall(q) => WillCall(q)'
                             /\ q \in undone => q \in undone'
    PROVE  PollIsNotForgotten'
<1>. SUFFICES ASSUME NEW q \in asked', ~WillCall(q)', q \notin undone'
              PROVE  WillLook(q)'
  BY DEF PollIsNotForgotten
<1>1. WillLook(q)
  BY DEF PollIsNotForgotten
<1>. QED
  BY <1>1, Zenon DEF WillLook

\* The rounds of polls.
LEMMA WalkKeeps ==
    ASSUME IInv, DoPoll \/ DoPollReturn \/ \E q \in Block : LookAt(q)
    PROVE  IInv'
<1>. USE DEF IInv
<1>1. bits' = bits /\ LoadedOK' /\ listed' = listed /\ leaving' = leaving
      /\ rest' = rest /\ asked' = asked /\ undone' = undone
  BY NothingLoaded DEF Between, DoPoll, DoPollReturn, LookAt, promises
<1>2. CASE DoPoll
  <2>. USE <1>1, <1>2 DEF DoPoll
  <2>1. PlacesOK' /\ CalledOK' /\ RunningOK'
    BY DEF PlacesOK, CalledOK, RunningOK, Calling, Exiting
  <2>2. PollIsNotForgotten'
    BY DEF PollIsNotForgotten, WillLook, WillCall, PlacesOK
  <2>. QED
    BY <2>1, <2>2
<1>3. CASE DoPollReturn
  <2>. USE <1>1, <1>3 DEF DoPollReturn
  <2>1. PlacesOK' /\ CalledOK' /\ RunningOK'
    BY DEF PlacesOK, CalledOK, RunningOK, Calling, Exiting
  <2>2. PollIsNotForgotten'
    BY DEF PollIsNotForgotten, WillLook, WillCall, PlacesOK
  <2>. QED
    BY <2>1, <2>2
<1>4. ASSUME NEW q \in Block, LookAt(q) PROVE IInv'
  <2>. USE <1>1, <1>4 DEF LookAt
  <2>1. PlacesOK' /\ CalledOK' /\ RunningOK'
    BY DEF PlacesOK, CalledOK, RunningOK, Calling, Exiting
  <2>2. PollIsNotForgotten'
    BY DEF PollIsNotForgotten, WillLook, WillCall, PlacesOK
  <2>. QED
    BY <2>1, <2>2
<1>. QED
  BY <1>2, <1>3, <1>4

\* The calls.  call_process calls a listed process that do_poll comes with: it runs
\* and is in no other call.
LEMMA CallKeeps ==
    ASSUME IInv, CallProcess \/ Thread \/ \E q \in Block : DoEvent(q)
    PROVE  IInv'
<1>. USE DEF IInv
<1>1. /\ bits' = bits /\ LoadedOK' /\ listed' = listed /\ ahead' = ahead
      /\ leaving' = leaving /\ rest' = rest /\ poll_requested' = poll_requested
  BY NothingLoaded DEF Between, CallProcess, Thread, DoEvent, walks
<1>2. Back \in {"walk", "idle"} /\ (Back = "walk" => ev = "POLL")
  BY DEF Back
<1>3. CASE CallProcess
  <2>. USE <1>1, <1>2, <1>3 DEF CallProcess, promises
  <2>1. \A q \in listed : "called" \notin bits[q]
    BY DEF CalledOK, Calling, Exiting
  <2>2. PlacesOK' /\ CalledOK' /\ RunningOK'
    BY <2>1 DEF PlacesOK, CalledOK, RunningOK
  <2>3. p \in asked /\ ev = "POLL" => pc' = "call"
    BY <2>1 DEF PlacesOK, RunningOK
  <2>4. PollIsNotForgotten'
    BY <2>3, RequestsStay DEF WillCall
  <2>. QED
    BY <2>2, <2>4
<1>4. CASE Thread
  <2>. USE <1>1, <1>2, <1>4 DEF Thread, promises
  <2>1. pc' \in {"return", "condemn", "walk", "idle"} /\ (pc' = "walk" => ev = "POLL")
    OBVIOUS
  <2>2. PlacesOK'
    BY <2>1 DEF PlacesOK
  <2>3. CalledOK'
    <3>1. \A q \in listed : "called" \in bits[q] => q = p
      BY DEF CalledOK, Exiting
    <3>2. p \in listed => pc' \in {"return", "condemn"}
      OBVIOUS
    <3>. QED
      BY <3>1, <3>2 DEF CalledOK, Calling
  <2>4. RunningOK'
    BY <2>1 DEF RunningOK
  <2>5. PollIsNotForgotten'
    BY <2>1, RequestsStay DEF WillCall
  <2>. QED
    BY <2>2, <2>3, <2>4, <2>5
<1>5. ASSUME NEW q \in Block, DoEvent(q) PROVE IInv'
  <2>. USE <1>1, <1>5 DEF DoEvent, promises
  <2>1. PlacesOK' /\ RunningOK'
    BY DEF PlacesOK, RunningOK
  <2>2. CalledOK'
    BY DEF CalledOK, Calling, Exiting
  <2>3. PollIsNotForgotten'
    BY RequestsStay DEF WillCall
  <2>. QED
    BY <2>1, <2>2, <2>3
<1>. QED
  BY <1>3, <1>4, <1>5

\* A task starts or exits a process.
LEMMA TaskKeeps ==
    ASSUME IInv, NEW q \in Block, StartProcess(q) \/ ExitProcess(q)
    PROVE  IInv'
<1>. USE DEF IInv
<1>1. bits' = bits /\ LoadedOK'
  BY NothingLoaded DEF Between
<1>2. /\ listed \subseteq listed' /\ listed' \subseteq listed \cup {q} /\ ahead' = ahead
      /\ leaving' = leaving /\ rest' = rest /\ poll_requested' = poll_requested
      /\ asked' = asked /\ undone' = undone
      /\ pc = "idle" /\ p' = q
      /\ \/ pc' = "start run" /\ ev' = "INIT"
         \/ pc' = "condemn" /\ ev' = "EXIT" /\ listed' = listed
  BY DEF StartProcess, ExitProcess, walks, promises
<1>3. PlacesOK' /\ RunningOK'
  BY <1>1, <1>2 DEF PlacesOK, RunningOK
<1>4. CalledOK'
  BY <1>1, <1>2 DEF CalledOK, Calling, Exiting
<1>5. PollIsNotForgotten'
  BY <1>1, <1>2, RequestsStay DEF WillCall
<1>. QED
  BY <1>1, <1>3, <1>4, <1>5

\* The loops of exit_process.
LEMMA ExitKeeps ==
    ASSUME IInv,
           ScanReturns \/ AnswerExited \/ Unlink \/ \E q \in Block : ScanFinds(q) \/ Notify(q)
    PROVE  IInv'
<1>. USE DEF IInv
<1>1. bits' = bits /\ LoadedOK' /\ poll_requested' = poll_requested /\ ev' = ev
      /\ ahead' = ahead
  BY NothingLoaded DEF Between, ScanReturns, AnswerExited, Unlink, ScanFinds, Notify, walks
<1>2. CASE ScanReturns
  <2>. USE <1>1, <1>2 DEF ScanReturns, walks, promises
  <2>1. Back \in {"walk", "idle"} /\ (Back = "walk" => ev = "POLL")
    BY DEF Back
  <2>2. PlacesOK' /\ RunningOK'
    BY <2>1 DEF PlacesOK, RunningOK
  <2>3. \A q \in listed : "called" \notin bits[q]
    BY DEF CalledOK, Calling, Condemned
  <2>4. CalledOK'
    BY <2>3 DEF CalledOK
  <2>5. PollIsNotForgotten'
    BY <2>1, RequestsStay DEF WillCall
  <2>. QED
    BY <2>2, <2>4, <2>5
<1>3. CASE AnswerExited
  <2>. USE <1>1, <1>3 DEF AnswerExited, walks, promises
  <2>1. PlacesOK' /\ RunningOK'
    BY DEF PlacesOK, RunningOK
  <2>2. CalledOK'
    BY DEF CalledOK, Calling, Exiting
  <2>3. PollIsNotForgotten'
    BY RequestsStay DEF WillCall
  <2>. QED
    BY <2>1, <2>2, <2>3
<1>4. CASE Unlink
  <2>. USE <1>1, <1>4 DEF Unlink
  <2>1. PlacesOK' /\ RunningOK'
    BY DEF PlacesOK, RunningOK
  <2>2. CalledOK'
    BY DEF CalledOK, Calling, Exiting
  <2>3. PollIsNotForgotten'
    BY RequestsStay DEF WillCall
  <2>. QED
    BY <2>1, <2>2, <2>3
<1>5. ASSUME NEW q \in Block, ScanFinds(q) \/ Notify(q) PROVE IInv'
  <2>1. /\ pc \in {"scan", "notify"} /\ pc' \in {"stop", "tell", "notify"}
        /\ p' = q /\ listed' = listed /\ asked' = asked /\ undone' = undone
        /\ leaving' \in {leaving, q}
        /\ rest' \subseteq listed \cup rest
    BY <1>5 DEF ScanFinds, Notify, promises
  <2>2. PlacesOK' /\ RunningOK'
    BY <1>1, <2>1 DEF PlacesOK, RunningOK
  <2>3. CalledOK'
    BY <1>1, <2>1 DEF CalledOK, Calling, Exiting
  <2>4. PollIsNotForgotten'
    BY <1>1, <2>1, RequestsStay DEF WillCall
  <2>. QED
    BY <1>1, <2>2, <2>3, <2>4
<1>. QED
  BY <1>2, <1>3, <1>4, <1>5
-----------------------------------------------------------------------------
LEMMA Steps == IInv /\ [PollNext]_pollVars => IInv'
<1>. SUFFICES ASSUME IInv, [PollNext]_pollVars PROVE IInv'
  OBVIOUS
<1>1. CASE UNCHANGED pollVars
  BY <1>1 DEF pollVars, walks, promises, IInv, PlacesOK, LoadedOK, CalledOK, RunningOK,
     PollIsNotForgotten, WillLook, WillCall, AtWrite
<1>. QED
  BY <1>1, LoadKeeps, StoreKeeps, WalkKeeps, CallKeeps, TaskKeeps, ExitKeeps, InterruptKeeps
  DEF PollNext

\* xcontiki_os_sys_Process__poll from an interrupt handler: between any two
\* instructions of do_poll, do_event, call_process, exit_process and start, each
\* poll that was asked for is going to be served, unless it came while another bit
\* of its process was written and none was pending.
THEOREM PollCorrect == PollSpec => []PollIsNotForgotten
<1>1. PollInit => IInv
  BY NumProcessesAssumption
  DEF PollInit, IInv, PlacesOK, LoadedOK, CalledOK, RunningOK, PollIsNotForgotten, Block
<1>2. IInv => PollIsNotForgotten
  BY DEF IInv
<1>. QED
  BY <1>1, <1>2, Steps, PTL DEF PollSpec
-----------------------------------------------------------------------------
(***************************************************************************)
(* The waits of the clock, the interval of which is less than a wrap: the  *)
(* clock ticks at most once in a microsecond (1000 times a second here).   *)
(***************************************************************************)
ClockOK ==
    /\ ClockWrap \in Nat \ {0} /\ Frequency \in Nat /\ Million \in Nat \ {0}
    /\ Frequency <= Million

\* Until a wrap is hidden between two readings, the last reading was at less than
\* interval, so that prev_diff is the real time then; the time since is less than
\* a wrap.  When a wrap has been hidden, it alone has been long enough.
WaitInv ==
    /\ interval \in 0..(ClockWrap - 1) /\ prev_diff \in Nat /\ waiting \in BOOLEAN
    /\ elapsed \in Nat /\ seen \in Nat \cup {-1}
    /\ waiting /\ seen # -1 =>
          /\ prev_diff = seen /\ seen <= elapsed /\ elapsed < seen + ClockWrap
          /\ seen < interval \/ (interval = 0 /\ seen = 0)
    /\ seen = -1 => elapsed >= ClockWrap
    /\ ~waiting => elapsed >= interval

LEMMA Product ==
    ASSUME NEW x \in Nat, NEW a \in Nat, NEW b \in Nat, a <= b PROVE x * a <= x * b
  BY SMT

LEMMA Quotient ==
    ASSUME NEW x \in Nat, NEW m \in Nat \ {0}, NEW w \in Nat, x < w * m
    PROVE  x \div m \in Nat /\ x \div m < w
<1>1. PICK q \in Int : q = x \div m
  OBVIOUS
<1>2. m * q <= x /\ x < m * q + m
  BY <1>1
<1>3. q >= 0
  <2>1. SUFFICES ASSUME q <= -1 PROVE FALSE
    OBVIOUS
  <2>2. m * q <= m * (-1)
    BY <2>1
  <2>. QED
    BY <1>2, <2>2
<1>4. q < w
  <2>1. SUFFICES ASSUME w <= q PROVE FALSE
    OBVIOUS
  <2>2. m * w <= m * q
    BY <1>3, <2>1, Product
  <2>. QED
    BY <1>2, <2>2
<1>. QED
  BY <1>1, <1>3, <1>4

\* A delay is rounded to less than a wrap.
LEMMA TicksFit ==
    ASSUME ClockOK, NEW dt \in 0..(ClockWrap - 1)
    PROVE  Ticks(dt) \in 0..(ClockWrap - 1)
<1>. USE DEF ClockOK
<1>1. dt * Frequency \in Nat /\ dt * Million \in Nat /\ dt * Frequency <= dt * Million
  BY Product
<1>2. Frequency \div 2 \in Nat /\ Frequency \div 2 < Million
  BY SMT
<1>3. dt * Million + Million <= ClockWrap * Million
  <2>1. Million * (dt + 1) <= Million * ClockWrap
    BY Product
  <2>. QED
    BY <2>1
<1>4. PICK x \in Nat : x = dt * Frequency + Frequency \div 2
  BY <1>1, <1>2
<1>5. x < ClockWrap * Million
  BY <1>1, <1>2, <1>3, <1>4
<1>6. x \div Million \in Nat /\ x \div Million < ClockWrap
  BY <1>5, Quotient
<1>. QED
  BY <1>4, <1>6 DEF Ticks

\* What a clock shows that has wrapped once at most.
LEMMA DiffIs ==
    ASSUME ClockOK, elapsed \in Nat, elapsed < 2 * ClockWrap
    PROVE  Diff = IF elapsed < ClockWrap THEN elapsed ELSE elapsed - ClockWrap
<1>. USE DEF ClockOK, Diff
<1>1. CASE elapsed < ClockWrap
  BY <1>1
<1>2. CASE ~(elapsed < ClockWrap)
  <2>1. PICK r \in 0..(ClockWrap - 1) : elapsed = ClockWrap + r
    <3>1. elapsed - ClockWrap \in 0..(ClockWrap - 1) /\ elapsed = ClockWrap + (elapsed - ClockWrap)
      BY <1>2
    <3>. QED
      BY <3>1
  <2>2. (ClockWrap + r) % ClockWrap = r
    BY SMT
  <2>. QED
    BY <1>2, <2>1, <2>2
<1>. QED
  BY <1>1, <1>2

LEMMA ReadKeeps == ASSUME ClockOK, WaitInv, Read PROVE WaitInv'
<1>. USE DEF ClockOK, WaitInv
<1>1. /\ waiting /\ interval' = interval /\ elapsed' = elapsed
      /\ Diff # prev_diff /\ waiting' = ~Done
      /\ prev_diff' = IF Done THEN prev_diff ELSE Diff
      /\ seen' = IF Done \/ seen = -1 THEN seen ELSE elapsed
  BY DEF Read
<1>2. Diff \in 0..(ClockWrap - 1)
  BY DEF Diff
<1>3. CASE seen = -1
  BY <1>1, <1>2, <1>3 DEF Done
<1>4. CASE seen # -1
  <2>1. Diff = IF elapsed < ClockWrap THEN elapsed ELSE elapsed - ClockWrap
    <3>1. elapsed < 2 * ClockWrap
      BY <1>1, <1>4
    <3>. QED
      BY <3>1, DiffIs
  <2>2. CASE Done
    BY <1>1, <1>2, <1>4, <2>1, <2>2 DEF Done
  <2>3. CASE ~Done
    <3>1. /\ prev_diff = seen /\ seen <= elapsed /\ elapsed < seen + ClockWrap
          /\ Diff < interval /\ Diff >= prev_diff
      BY <1>1, <1>2, <1>4, <2>3 DEF Done
    <3>2. elapsed < ClockWrap /\ Diff = elapsed
      BY <2>1, <3>1
    <3>3. waiting' = TRUE /\ prev_diff' = elapsed /\ seen' = elapsed
      BY <1>1, <1>4, <2>3, <3>2
    <3>. QED
      BY <1>1, <3>1, <3>2, <3>3
  <2>. QED
    BY <2>2, <2>3
<1>. QED
  BY <1>3, <1>4

\* A wait or a delay of any number of ticks or microseconds, with interrupts of
\* any length in it, is never too short and goes on after a reading only if it
\* has to; a whole wrap between two readings is the exception.
THEOREM WaitIsExactCorrect ==
    ASSUME ClockOK
    PROVE  WaitSpec => []WaitIsExact
<1>1. WaitInit => WaitInv
  <2>1. SUFFICES ASSUME WaitInit PROVE interval \in 0..(ClockWrap - 1)
    BY DEF WaitInit, WaitInv, ClockOK
  <2>2. CASE interval \in 1..(ClockWrap - 1)
    BY <2>2 DEF ClockOK
  <2>3. CASE interval \in {Ticks(dt) : dt \in 0..(ClockWrap - 1)}
    BY <2>3, TicksFit
  <2>. QED
    BY <2>1, <2>2, <2>3 DEF WaitInit
<1>2. WaitInv /\ Pass => WaitInv'
  BY DEF WaitInv, Pass, ClockOK
<1>3. WaitInv /\ [WaitNext]_waitVars => WaitInv'
  BY <1>2, ReadKeeps DEF WaitNext, waitVars, WaitInv
<1>4. WaitInv => WaitIsExact
  BY DEF WaitInv, WaitIsExact
<1>. QED
  BY <1>1, <1>3, <1>4, PTL DEF WaitSpec
=============================================================================
