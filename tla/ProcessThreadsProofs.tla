------------------------ MODULE ProcessThreadsProofs ------------------------
(***************************************************************************)
(* The threads of a file, which share one process_pt, have continuations   *)
(* of their own, and a process that waits for a child waits for one that   *)
(* has blocked: for any processes, files, lines and depth of calls.        *)
(***************************************************************************)
EXTENDS ProcessThreads, SequenceTheorems, TLAPS

Places == {"entry", "body", "test", "child"}

\* The call's continuation is in process_pt and is its own.
Holds(f) == f.own /\ f.at # "body"

\* No thread of the file of a call whose continuation is held is above it.
TopmostIn(fr) ==
    \A i \in 1..Len(fr) : Holds(fr[i]) =>
        \A j \in (i + 1)..Len(fr) : FileOf[fr[j].p] # FileOf[fr[i].p]

Topmost == TopmostIn(frames)

ThreadInv == ThreadsOK /\ Topmost

\* The calls as PrivateThreads has them, with pt for process_pt.
PrivateFrame == [p : Process, at : Places, own : BOOLEAN, pt : Continuation \cup {-1}]

PrivateOf(f, pt) ==
    [p |-> f.p, at |-> f.at, own |-> f.own,
     pt |-> IF Holds(f) THEN pt[FileOf[f.p]] ELSE -1]

PrivatesOf(fr, pt) == [i \in 1..Len(fr) |-> PrivateOf(fr[i], pt)]

\* pt becomes qt in one file at most.
WritesOnly(pt, qt, file) == \A f \in File : f # file => qt[f] = pt[f]

Pts == [File -> Continuation]

\* A sequence without its last element, and with another last element.
Front(s)   == SubSeq(s, 1, Len(s) - 1)
With(s, e) == Append(Front(s), e)

\* The calls when a thread of the file is called, here and in PrivateThreads.
DisownedIn(fr, file) ==
    [i \in 1..Len(fr) |->
        IF FileOf[fr[i].p] = file /\ fr[i].at # "body"
        THEN [fr[i] EXCEPT !.own = FALSE] ELSE fr[i]]

DisownedPrivates(a, file) ==
    [i \in 1..Len(a) |->
        IF FileOf[a[i].p] = file /\ a[i].at # "body"
        THEN [p |-> a[i].p, at |-> a[i].at, own |-> FALSE, pt |-> -1] ELSE a[i]]
-----------------------------------------------------------------------------
LEMMA FunctionIsSeq ==
    ASSUME NEW S, NEW n \in Nat, NEW f \in [1..n -> S]
    PROVE  f \in Seq(S) /\ Len(f) = n
  OBVIOUS

LEMMA FrontIs ==
    ASSUME NEW S, NEW s \in Seq(S), s # <<>>
    PROVE  /\ Len(s) \in Nat \ {0}
           /\ s[Len(s)] \in S
           /\ Front(s) \in Seq(S)
           /\ Len(Front(s)) = Len(s) - 1
           /\ \A i \in 1..(Len(s) - 1) : Front(s)[i] = s[i]
<1>1. Len(s) \in Nat \ {0} /\ s[Len(s)] \in S
  BY EmptySeq, ElementOfSeq
<1>2. PICK n \in Nat : n = Len(s) - 1
  BY <1>1
<1>3. \A i \in 1..n : i \in 1..Len(s) /\ s[i] \in S
  BY <1>1, <1>2, ElementOfSeq
<1>. DEFINE q == SubSeq(s, 1, n)
<1>4. /\ q \in Seq(S)
      /\ Len(q) = IF 1 <= n THEN n - 1 + 1 ELSE 0
      /\ \A i \in 1..(n - 1 + 1) : q[i] = s[1 + i - 1]
  BY <1>3, SubSeqProperties
<1>5. Front(s) = q
  BY <1>2 DEF Front
<1>. HIDE DEF q
<1>6. Len(q) = n
  BY <1>2, <1>4
<1>7. ASSUME NEW i \in 1..n PROVE q[i] = s[i]
  BY <1>2, <1>4
<1>. QED
  BY <1>1, <1>2, <1>4, <1>5, <1>6, <1>7

LEMMA WithIs ==
    ASSUME NEW S, NEW s \in Seq(S), s # <<>>, NEW e \in S
    PROVE  /\ With(s, e) \in Seq(S)
           /\ Len(With(s, e)) = Len(s)
           /\ \A i \in 1..(Len(s) - 1) : With(s, e)[i] = s[i]
           /\ With(s, e)[Len(s)] = e
<1>1. /\ Len(s) \in Nat \ {0}
      /\ Front(s) \in Seq(S) /\ Len(Front(s)) = Len(s) - 1
      /\ \A i \in 1..(Len(s) - 1) : Front(s)[i] = s[i]
  BY FrontIs
<1>2. With(s, e) = Append(Front(s), e)
  BY DEF With
<1>3. /\ Append(Front(s), e) \in Seq(S)
      /\ Len(Append(Front(s), e)) = Len(Front(s)) + 1
      /\ \A i \in 1..Len(Front(s)) : Append(Front(s), e)[i] = Front(s)[i]
      /\ Append(Front(s), e)[Len(Front(s)) + 1] = e
  BY <1>1, AppendProperties
<1>. QED
  BY <1>1, <1>2, <1>3

LEMMA PrivateTyped ==
    ASSUME NEW pt \in Pts, NEW f \in Frame
    PROVE  PrivateOf(f, pt) \in PrivateFrame
  BY DEF PrivateOf, PrivateFrame, Pts, Frame, Places, File

LEMMA PrivatesTyped ==
    ASSUME NEW pt \in Pts, NEW fr \in Seq(Frame)
    PROVE  /\ Len(fr) \in Nat
           /\ \A i \in 1..Len(fr) : fr[i] \in Frame
           /\ PrivatesOf(fr, pt) \in Seq(PrivateFrame)
           /\ Len(PrivatesOf(fr, pt)) = Len(fr)
           /\ \A i \in 1..Len(fr) : PrivatesOf(fr, pt)[i] = PrivateOf(fr[i], pt)
<1>1. Len(fr) \in Nat /\ \A i \in 1..Len(fr) : fr[i] \in Frame
  BY LenProperties, ElementOfSeq
<1>2. \A i \in 1..Len(fr) : PrivateOf(fr[i], pt) \in PrivateFrame
  BY <1>1, PrivateTyped
<1>3. PrivatesOf(fr, pt) \in [1..Len(fr) -> PrivateFrame]
  BY <1>2 DEF PrivatesOf
<1>4. \A i \in 1..Len(fr) : PrivatesOf(fr, pt)[i] = PrivateOf(fr[i], pt)
  BY DEF PrivatesOf
<1>. QED
  BY <1>1, <1>3, <1>4, FunctionIsSeq

\* A call that holds its continuation has another file than the last one.
LEMMA BelowKeeps ==
    ASSUME NEW fr \in Seq(Frame), fr # <<>>, TopmostIn(fr),
           NEW pt \in Pts, NEW qt \in Pts, WritesOnly(pt, qt, FileOf[fr[Len(fr)].p]),
           NEW i \in 1..(Len(fr) - 1)
    PROVE  PrivateOf(fr[i], qt) = PrivateOf(fr[i], pt)
<1>1. Len(fr) \in Nat \ {0}
  BY EmptySeq
<1>2. i \in 1..Len(fr) /\ Len(fr) \in (i + 1)..Len(fr)
  BY <1>1
<1>3. fr[i] \in Frame
  BY <1>2, ElementOfSeq
<1>4. Holds(fr[i]) => FileOf[fr[i].p] # FileOf[fr[Len(fr)].p]
  BY <1>2 DEF TopmostIn
<1>5. Holds(fr[i]) => qt[FileOf[fr[i].p]] = pt[FileOf[fr[i].p]]
  BY <1>3, <1>4 DEF WritesOnly, Frame, File
<1>. QED
  BY <1>5 DEF PrivateOf

\* The executing thread returns.
LEMMA Popped ==
    ASSUME NEW fr \in Seq(Frame), fr # <<>>, TopmostIn(fr),
           NEW pt \in Pts, NEW qt \in Pts, WritesOnly(pt, qt, FileOf[fr[Len(fr)].p])
    PROVE  /\ Front(fr) \in Seq(Frame)
           /\ TopmostIn(Front(fr))
           /\ PrivatesOf(Front(fr), qt) = Front(PrivatesOf(fr, pt))
<1>. DEFINE gr == Front(fr)
            a  == PrivatesOf(fr, pt)
            r  == Front(a)
            b  == PrivatesOf(gr, qt)
<1>1. /\ Len(fr) \in Nat \ {0}
      /\ gr \in Seq(Frame) /\ Len(gr) = Len(fr) - 1
      /\ \A i \in 1..(Len(fr) - 1) : gr[i] = fr[i]
  BY FrontIs
<1>2. /\ a \in Seq(PrivateFrame) /\ Len(a) = Len(fr)
      /\ \A i \in 1..Len(fr) : a[i] = PrivateOf(fr[i], pt)
  BY PrivatesTyped
<1>. HIDE DEF a, b, gr
<1>3. TopmostIn(gr)
  BY <1>1 DEF TopmostIn
<1>4. a # <<>>
  BY <1>1, <1>2, EmptySeq
<1>5. /\ r \in Seq(PrivateFrame) /\ Len(r) = Len(fr) - 1
      /\ \A i \in 1..(Len(fr) - 1) : r[i] = a[i]
  BY <1>2, <1>4, FrontIs
<1>6. /\ b \in Seq(PrivateFrame) /\ Len(b) = Len(fr) - 1
      /\ \A i \in 1..(Len(fr) - 1) : b[i] = PrivateOf(gr[i], qt)
  BY <1>1, PrivatesTyped DEF b
<1>. HIDE DEF r
<1>7. ASSUME NEW i \in 1..(Len(fr) - 1) PROVE b[i] = r[i]
  <2>1. i \in 1..Len(fr)
    BY <1>1
  <2>2. PrivateOf(fr[i], qt) = PrivateOf(fr[i], pt)
    BY BelowKeeps
  <2>. QED
    BY <1>1, <1>2, <1>5, <1>6, <2>1, <2>2
<1>8. b = r
  BY <1>5, <1>6, <1>7, SeqEqual
<1>. QED
  BY <1>1, <1>3, <1>8 DEF a, b, r, gr

\* The executing thread goes on elsewhere.
LEMMA Replaced ==
    ASSUME NEW fr \in Seq(Frame), fr # <<>>, TopmostIn(fr),
           NEW pt \in Pts, NEW qt \in Pts, WritesOnly(pt, qt, FileOf[fr[Len(fr)].p]),
           NEW f \in Frame, f.p = fr[Len(fr)].p
    PROVE  /\ With(fr, f) \in Seq(Frame)
           /\ TopmostIn(With(fr, f))
           /\ PrivatesOf(With(fr, f), qt) = With(PrivatesOf(fr, pt), PrivateOf(f, qt))
<1>. DEFINE gr == With(fr, f)
            a  == PrivatesOf(fr, pt)
            e  == PrivateOf(f, qt)
            r  == With(a, e)
            b  == PrivatesOf(gr, qt)
<1>1. /\ Len(fr) \in Nat \ {0}
      /\ gr \in Seq(Frame) /\ Len(gr) = Len(fr)
      /\ \A i \in 1..(Len(fr) - 1) : gr[i] = fr[i]
      /\ gr[Len(fr)] = f
  BY FrontIs, WithIs
<1>2. /\ a \in Seq(PrivateFrame) /\ Len(a) = Len(fr)
      /\ \A i \in 1..Len(fr) : a[i] = PrivateOf(fr[i], pt)
  BY PrivatesTyped
<1>3. e \in PrivateFrame
  BY PrivateTyped
<1>. HIDE DEF a, b, e, gr
<1>4. TopmostIn(gr)
  <2>1. ASSUME NEW i \in 1..Len(fr), Holds(gr[i]), NEW j \in (i + 1)..Len(fr)
        PROVE  FileOf[gr[j].p] # FileOf[gr[i].p]
    <3>1. i \in 1..(Len(fr) - 1) /\ j \in 1..Len(fr)
      BY <1>1
    <3>2. gr[i] = fr[i] /\ gr[j].p = fr[j].p
      BY <1>1, <3>1
    <3>. QED
      BY <2>1, <3>1, <3>2 DEF TopmostIn
  <2>. QED
    BY <1>1, <2>1 DEF TopmostIn
<1>5. a # <<>>
  BY <1>1, <1>2, EmptySeq
<1>6. /\ r \in Seq(PrivateFrame) /\ Len(r) = Len(fr)
      /\ \A i \in 1..(Len(fr) - 1) : r[i] = a[i]
      /\ r[Len(fr)] = e
  <2>1. /\ r \in Seq(PrivateFrame) /\ Len(r) = Len(a)
        /\ \A i \in 1..(Len(a) - 1) : r[i] = a[i]
        /\ r[Len(a)] = e
    <3>1. PICK s \in Seq(PrivateFrame), x \in PrivateFrame : s = a /\ x = e
      BY <1>2, <1>3
    <3>2. s # <<>>
      BY <1>5, <3>1
    <3>3. /\ With(s, x) \in Seq(PrivateFrame)
          /\ Len(With(s, x)) = Len(s)
          /\ \A i \in 1..(Len(s) - 1) : With(s, x)[i] = s[i]
          /\ With(s, x)[Len(s)] = x
      BY <3>2, WithIs
    <3>. QED
      BY <3>1, <3>3
  <2>. HIDE DEF r
  <2>. QED
    BY <1>2, <2>1
<1>7. /\ b \in Seq(PrivateFrame) /\ Len(b) = Len(fr)
      /\ \A i \in 1..Len(fr) : b[i] = PrivateOf(gr[i], qt)
  BY <1>1, PrivatesTyped DEF b
<1>. HIDE DEF r
<1>8. ASSUME NEW i \in 1..Len(fr) PROVE b[i] = r[i]
  <2>1. CASE i = Len(fr)
    BY <1>1, <1>6, <1>7, <2>1 DEF e
  <2>2. CASE i # Len(fr)
    <3>1. i \in 1..(Len(fr) - 1)
      BY <1>1, <2>2
    <3>2. PrivateOf(fr[i], qt) = PrivateOf(fr[i], pt)
      BY <3>1, BelowKeeps
    <3>. QED
      BY <1>1, <1>2, <1>6, <1>7, <3>1, <3>2
  <2>. QED
    BY <2>1, <2>2
<1>9. b = r
  BY <1>6, <1>7, <1>8, SeqEqual
<1>. QED
  BY <1>1, <1>4, <1>9 DEF a, b, e, r, gr

LEMMA DisownFrame ==
    ASSUME NEW x \in Frame
    PROVE  [x EXCEPT !.own = FALSE] = [p |-> x.p, at |-> x.at, own |-> FALSE]
<1>1. \A z \in BOOLEAN : [x EXCEPT !.own = z] = [p |-> x.p, at |-> x.at, own |-> z]
  BY SMT DEF Frame
<1>. QED
  BY <1>1, Zenon

LEMMA DisownedTyped ==
    ASSUME NEW fr \in Seq(Frame), NEW file
    PROVE  /\ DisownedIn(fr, file) \in Seq(Frame)
           /\ Len(DisownedIn(fr, file)) = Len(fr)
           /\ \A i \in 1..Len(fr) :
                 /\ DisownedIn(fr, file)[i] =
                      IF FileOf[fr[i].p] = file /\ fr[i].at # "body"
                      THEN [p |-> fr[i].p, at |-> fr[i].at, own |-> FALSE] ELSE fr[i]
                 /\ DisownedIn(fr, file)[i].p = fr[i].p
                 /\ Holds(DisownedIn(fr, file)[i]) =>
                      Holds(fr[i]) /\ FileOf[fr[i].p] # file
<1>. DEFINE d == DisownedIn(fr, file)
<1>1. Len(fr) \in Nat /\ \A i \in 1..Len(fr) : fr[i] \in Frame
  BY LenProperties, ElementOfSeq
<1>2. ASSUME NEW i \in 1..Len(fr)
      PROVE  /\ d[i] = IF FileOf[fr[i].p] = file /\ fr[i].at # "body"
                       THEN [p |-> fr[i].p, at |-> fr[i].at, own |-> FALSE] ELSE fr[i]
             /\ d[i] \in Frame
             /\ d[i].p = fr[i].p
             /\ Holds(d[i]) => Holds(fr[i]) /\ FileOf[fr[i].p] # file
  <2>1. d[i] = IF FileOf[fr[i].p] = file /\ fr[i].at # "body"
               THEN [p |-> fr[i].p, at |-> fr[i].at, own |-> FALSE] ELSE fr[i]
    BY <1>1, DisownFrame DEF DisownedIn
  <2>. HIDE DEF d
  <2>. QED
    BY <1>1, <2>1 DEF Frame, Holds
<1>3. d \in [1..Len(fr) -> Frame]
  BY <1>2 DEF DisownedIn
<1>. QED
  BY <1>1, <1>2, <1>3, FunctionIsSeq

\* A thread is called.
LEMMA Pushed ==
    ASSUME NEW fr \in Seq(Frame), TopmostIn(fr), NEW f \in Frame,
           NEW pt \in Pts, NEW qt \in Pts, WritesOnly(pt, qt, FileOf[f.p])
    PROVE  /\ Append(DisownedIn(fr, FileOf[f.p]), f) \in Seq(Frame)
           /\ TopmostIn(Append(DisownedIn(fr, FileOf[f.p]), f))
           /\ PrivatesOf(Append(DisownedIn(fr, FileOf[f.p]), f), qt) =
                Append(DisownedPrivates(PrivatesOf(fr, pt), FileOf[f.p]),
                       PrivateOf(f, qt))
<1>. DEFINE n  == Len(fr)
            d  == DisownedIn(fr, FileOf[f.p])
            gr == Append(d, f)
            a  == PrivatesOf(fr, pt)
            c  == DisownedPrivates(a, FileOf[f.p])
            e  == PrivateOf(f, qt)
            r  == Append(c, e)
            b  == PrivatesOf(gr, qt)
<1>1. /\ d \in Seq(Frame) /\ Len(d) = n /\ n \in Nat
      /\ \A i \in 1..n :
            /\ d[i] = IF FileOf[fr[i].p] = FileOf[f.p] /\ fr[i].at # "body"
                      THEN [p |-> fr[i].p, at |-> fr[i].at, own |-> FALSE] ELSE fr[i]
            /\ d[i].p = fr[i].p
            /\ Holds(d[i]) => Holds(fr[i]) /\ FileOf[fr[i].p] # FileOf[f.p]
      /\ \A i \in 1..n : fr[i] \in Frame
  BY DisownedTyped, LenProperties, ElementOfSeq
<1>2. /\ a \in Seq(PrivateFrame) /\ Len(a) = n
      /\ \A i \in 1..n : a[i] = PrivateOf(fr[i], pt)
  BY PrivatesTyped
<1>3. e \in PrivateFrame
  BY PrivateTyped
<1>. HIDE DEF n, d, a, c, e, b
<1>4. /\ gr \in Seq(Frame) /\ Len(gr) = n + 1
      /\ \A i \in 1..n : gr[i] = d[i]
      /\ gr[n + 1] = f
  BY <1>1, AppendProperties
<1>. HIDE DEF gr
<1>5. TopmostIn(gr)
  <2>1. ASSUME NEW i \in 1..(n + 1), Holds(gr[i]), NEW j \in (i + 1)..(n + 1)
        PROVE  FileOf[gr[j].p] # FileOf[gr[i].p]
    <3>1. i \in 1..n /\ gr[i] = d[i] /\ gr[i].p = fr[i].p /\ Holds(fr[i])
      BY <1>1, <1>4, <2>1
    <3>2. CASE j = n + 1
      BY <1>1, <1>4, <2>1, <3>1, <3>2
    <3>3. CASE j # n + 1
      <4>1. j \in 1..n /\ j \in (i + 1)..n /\ gr[j].p = fr[j].p
        BY <1>1, <1>4, <3>3
      <4>. QED
        BY <3>1, <4>1 DEF TopmostIn, n
    <3>. QED
      BY <3>2, <3>3
  <2>. QED
    BY <1>4, <2>1 DEF TopmostIn
<1>6. c \in Seq(PrivateFrame) /\ Len(c) = n
      /\ \A i \in 1..n : c[i] = PrivateOf(d[i], qt)
  <2>1. ASSUME NEW i \in 1..n
        PROVE  PrivateOf(d[i], qt) =
                 IF FileOf[a[i].p] = FileOf[f.p] /\ a[i].at # "body"
                 THEN [p |-> a[i].p, at |-> a[i].at, own |-> FALSE, pt |-> -1] ELSE a[i]
    <3>1. /\ fr[i] \in Frame /\ a[i] = PrivateOf(fr[i], pt)
          /\ a[i].p = fr[i].p /\ a[i].at = fr[i].at
      BY <1>1, <1>2 DEF PrivateOf
    <3>2. CASE FileOf[fr[i].p] = FileOf[f.p] /\ fr[i].at # "body"
      <4>1. d[i] = [p |-> fr[i].p, at |-> fr[i].at, own |-> FALSE]
        BY <1>1, <3>2
      <4>2. PrivateOf(d[i], qt) = [p |-> fr[i].p, at |-> fr[i].at, own |-> FALSE, pt |-> -1]
        BY <4>1 DEF PrivateOf, Holds
      <4>. QED
        BY <3>1, <3>2, <4>2
    <3>3. CASE ~(FileOf[fr[i].p] = FileOf[f.p] /\ fr[i].at # "body")
      <4>1. d[i] = fr[i]
        BY <1>1, <3>3
      <4>2. Holds(fr[i]) => qt[FileOf[fr[i].p]] = pt[FileOf[fr[i].p]]
        BY <3>1, <3>3 DEF Holds, WritesOnly, Frame, File
      <4>3. PrivateOf(fr[i], qt) = PrivateOf(fr[i], pt)
        BY <4>2 DEF PrivateOf
      <4>. QED
        BY <3>1, <3>3, <4>1, <4>3
    <3>. QED
      BY <3>2, <3>3
  <2>2. \A i \in 1..n : PrivateOf(d[i], qt) \in PrivateFrame
    BY <1>1, ElementOfSeq, PrivateTyped
  <2>3. c = [i \in 1..n |-> PrivateOf(d[i], qt)]
    BY <1>2, <2>1 DEF c, DisownedPrivates
  <2>4. c \in [1..n -> PrivateFrame] /\ \A i \in 1..n : c[i] = PrivateOf(d[i], qt)
    BY <2>2, <2>3
  <2>. QED
    BY <1>1, <2>4, FunctionIsSeq
<1>7. /\ r \in Seq(PrivateFrame) /\ Len(r) = n + 1
      /\ \A i \in 1..n : r[i] = c[i]
      /\ r[n + 1] = e
  BY <1>3, <1>6, AppendProperties
<1>8. /\ b \in Seq(PrivateFrame) /\ Len(b) = n + 1
      /\ \A i \in 1..(n + 1) : b[i] = PrivateOf(gr[i], qt)
  BY <1>4, PrivatesTyped DEF b
<1>. HIDE DEF r
<1>9. ASSUME NEW i \in 1..(n + 1) PROVE b[i] = r[i]
  <2>1. CASE i = n + 1
    BY <1>1, <1>4, <1>7, <1>8, <2>1 DEF e
  <2>2. CASE i # n + 1
    <3>1. i \in 1..n
      BY <1>1, <2>2
    <3>. QED
      BY <1>4, <1>6, <1>7, <1>8, <3>1
  <2>. QED
    BY <2>1, <2>2
<1>10. b = r
  BY <1>1, <1>7, <1>8, <1>9, SeqEqual
<1>. QED
  BY <1>4, <1>5, <1>10 DEF a, b, c, d, e, r, gr
-----------------------------------------------------------------------------
\* The state that PrivateThreads sees.
Calls == PrivatesOf(frames, process_pt)

LEMMA CallsAre ==
    /\ Calls = [i \in 1..Len(frames) |-> Private(frames[i])]
    /\ Calls' = [i \in 1..Len(frames) |-> Private(frames[i])]'
    /\ Calls' = PrivatesOf(frames', process_pt')
  BY DEF Calls, PrivatesOf, PrivateOf, Private, Holds

\* The executing call.
LEMMA TopCall ==
    ASSUME ThreadInv, frames # <<>>
    PROVE  /\ frames \in Seq(Frame) /\ process_pt \in Pts
           /\ Top \in Frame /\ Top.p \in Process /\ FileOf[Top.p] \in File
           /\ Pt \in Continuation
           /\ Calls # <<>>
           /\ Calls[Len(Calls)] = PrivateOf(Top, process_pt)
<1>1. frames \in Seq(Frame) /\ process_pt \in Pts
  BY DEF ThreadInv, ThreadsOK, Pts
<1>2. Len(frames) \in Nat \ {0} /\ Top \in Frame
  BY <1>1, FrontIs DEF Top
<1>3. Top.p \in Process /\ FileOf[Top.p] \in File
  BY <1>2 DEF Frame, File
<1>4. Pt \in Continuation
  BY <1>1, <1>3 DEF Pt, Pts
<1>5. /\ Calls \in Seq(PrivateFrame) /\ Len(Calls) = Len(frames)
      /\ \A i \in 1..Len(frames) : Calls[i] = PrivateOf(frames[i], process_pt)
  BY <1>1, PrivatesTyped DEF Calls
<1>6. Calls # <<>> /\ Calls[Len(Calls)] = PrivateOf(Top, process_pt)
  BY <1>2, <1>5, EmptySeq DEF Top
<1>. QED
  BY <1>1, <1>2, <1>3, <1>4, <1>6

\* What the two ways to go on make of the calls.
LEMMA ReturnPops ==
    ASSUME ThreadInv, frames # <<>>, process_pt' \in Pts,
           WritesOnly(process_pt, process_pt', FileOf[Top.p]),
           NEW L \in Continuation, Return(L), lost' \subseteq Process,
           child_pt' \in [Process -> BOOLEAN]
    PROVE  ThreadInv' /\ Calls' = Front(Calls)
<1>1. frames \in Seq(Frame) /\ process_pt \in Pts /\ Top.p \in Process
  BY TopCall
<1>2. frames' = Front(frames) /\ TopmostIn(frames)
  BY DEF Return, Rest, Front, ThreadInv, Topmost
<1>3. WritesOnly(process_pt, process_pt', FileOf[frames[Len(frames)].p])
  BY DEF Top
<1>4. /\ frames' \in Seq(Frame) /\ TopmostIn(frames')
      /\ PrivatesOf(frames', process_pt') = Front(Calls)
  BY <1>1, <1>2, <1>3, Popped DEF Calls
<1>5. thread_pt' \in [Process -> Continuation]
  BY <1>1 DEF Return, ThreadInv, ThreadsOK
<1>6. ThreadInv'
  BY <1>4, <1>5 DEF ThreadInv, ThreadsOK, Topmost, TopmostIn, Holds, Pts
<1>. QED
  BY <1>4, <1>6, CallsAre

LEMMA GoesReplaces ==
    ASSUME ThreadInv, frames # <<>>, process_pt' \in Pts,
           WritesOnly(process_pt, process_pt', FileOf[Top.p]),
           NEW at \in Places, NEW own \in BOOLEAN, Goes(at, own),
           thread_pt' = thread_pt, lost' \subseteq Process,
           child_pt' \in [Process -> BOOLEAN]
    PROVE  /\ ThreadInv'
           /\ Calls' = With(Calls, PrivateOf([p |-> Top.p, at |-> at, own |-> own],
                                             process_pt'))
<1>1. frames \in Seq(Frame) /\ process_pt \in Pts /\ Top.p \in Process
  BY TopCall
<1>2. PICK f \in Frame : f = [p |-> Top.p, at |-> at, own |-> own]
  BY <1>1 DEF Frame, Places
<1>3. f.p = frames[Len(frames)].p
  BY <1>2 DEF Top
<1>4. frames' = With(frames, f) /\ TopmostIn(frames)
  BY <1>2 DEF Goes, Rest, With, Front, ThreadInv, Topmost
<1>5. WritesOnly(process_pt, process_pt', FileOf[frames[Len(frames)].p])
  BY DEF Top
<1>6. /\ frames' \in Seq(Frame) /\ TopmostIn(frames')
      /\ PrivatesOf(frames', process_pt') = With(Calls, PrivateOf(f, process_pt'))
  BY <1>1, <1>3, <1>4, <1>5, Replaced DEF Calls
<1>7. ThreadInv'
  BY <1>6 DEF ThreadInv, ThreadsOK, Topmost, TopmostIn, Holds, Pts
<1>. QED
  BY <1>2, <1>6, <1>7, CallsAre
-----------------------------------------------------------------------------
\* Each step is a step of PrivateThreads.
LEMMA AbstractTop ==
    ASSUME ThreadInv, frames # <<>>
    PROVE  /\ Threads!Top = [p |-> Top.p, at |-> Top.at, own |-> Top.own,
                             pt |-> IF Holds(Top) THEN Pt ELSE -1]
           /\ Threads!Rest = Front(Calls)
           /\ \A at : Threads!At(at) <=> Top.at = at
           /\ Top.at \in Places /\ Top.own \in BOOLEAN
<1>1. Calls # <<>> /\ Calls[Len(Calls)] = PrivateOf(Top, process_pt) /\ Top \in Frame
  BY TopCall
<1>2. Threads!Top = Calls[Len(Calls)] /\ Threads!Rest = Front(Calls)
  BY CallsAre DEF Threads!Top, Threads!Rest, Front
<1>3. Threads!Top = [p |-> Top.p, at |-> Top.at, own |-> Top.own,
                     pt |-> IF Holds(Top) THEN Pt ELSE -1]
  BY <1>1, <1>2 DEF PrivateOf, Pt
<1>4. \A at : Threads!At(at) <=> Top.at = at
  BY <1>1, <1>3, CallsAre DEF Threads!At
<1>. QED
  BY <1>1, <1>2, <1>3, <1>4 DEF Frame, Places

\* What is left of an own continuation, or anything, is where a call goes on.
LEMMA PtIsKept ==
    ASSUME ThreadInv, frames # <<>>, Top.at # "body"
    PROVE  Pt \in Threads!Kept(Threads!Top.pt)
<1>1. Pt \in Continuation /\ Top.own \in BOOLEAN
  BY TopCall, AbstractTop
<1>2. Threads!Top.own = Top.own /\ (Top.own => Threads!Top.pt = Pt)
  BY AbstractTop DEF Holds
<1>. QED
  BY <1>1, <1>2 DEF Threads!Kept, Threads!Continuation, Continuation

LEMMA CallStep ==
    ASSUME ThreadInv, NEW p \in Process, Call(p)
    PROVE  ThreadInv' /\ Threads!Call(p)
<1>1. frames \in Seq(Frame) /\ process_pt \in Pts /\ TopmostIn(frames)
      /\ thread_pt \in [Process -> Continuation]
  BY DEF ThreadInv, ThreadsOK, Pts, Topmost
<1>2. PICK f \in Frame : f = [p |-> p, at |-> "entry", own |-> TRUE]
  BY DEF Frame
<1>3. FileOf[f.p] \in File /\ f.p = p
  BY <1>2 DEF File
<1>4. /\ process_pt' \in Pts /\ WritesOnly(process_pt, process_pt', FileOf[f.p])
      /\ process_pt'[FileOf[p]] = thread_pt[p]
  BY <1>1, <1>3 DEF Call, Pts, WritesOnly
<1>5. frames' = Append(DisownedIn(frames, FileOf[f.p]), f)
  BY <1>2, <1>3 DEF Call, Disowned, DisownedIn
<1>6. /\ frames' \in Seq(Frame) /\ TopmostIn(frames')
      /\ PrivatesOf(frames', process_pt')
           = Append(DisownedPrivates(Calls, FileOf[f.p]), PrivateOf(f, process_pt'))
  BY <1>1, <1>4, <1>5, Pushed DEF Calls
<1>7. ThreadInv'
  BY <1>4, <1>6 DEF ThreadInv, ThreadsOK, Call, Topmost, TopmostIn, Holds, Pts
<1>8. PrivateOf(f, process_pt') = [p |-> p, at |-> "entry", own |-> TRUE,
                                   pt |-> thread_pt[p]]
  BY <1>2, <1>4 DEF PrivateOf, Holds
<1>9. Calls' = Append(DisownedPrivates(Calls, FileOf[p]),
                      [p |-> p, at |-> "entry", own |-> TRUE, pt |-> thread_pt[p]])
  BY <1>3, <1>6, <1>8, CallsAre
<1>10. Threads!Disowned(FileOf[p]) = DisownedPrivates(Calls, FileOf[p])
  BY CallsAre DEF Threads!Disowned, DisownedPrivates, Threads!NONE
<1>11. Len(Calls) = Len(frames)
  BY <1>1, PrivatesTyped DEF Calls
<1>. QED
  BY <1>7, <1>9, <1>10, <1>11, CallsAre DEF Call, Threads!Call

LEMMA AbstractReturn ==
    ASSUME ThreadInv, frames # <<>>, process_pt' \in Pts,
           WritesOnly(process_pt, process_pt', FileOf[Top.p]),
           NEW L \in Continuation, Return(L), lost' \subseteq Process,
           child_pt' \in [Process -> BOOLEAN]
    PROVE  ThreadInv' /\ Threads!Return(L)
<1>1. ThreadInv' /\ Calls' = Front(Calls)
  BY ReturnPops
<1>2. Threads!Top.p = Top.p /\ Threads!Rest = Front(Calls)
  BY AbstractTop
<1>3. thread_pt' = [thread_pt EXCEPT ![Top.p] = L]
  BY DEF Return
<1>. QED
  BY <1>1, <1>2, <1>3, CallsAre DEF Threads!Return

LEMMA AbstractGoes ==
    ASSUME ThreadInv, frames # <<>>, process_pt' \in Pts,
           WritesOnly(process_pt, process_pt', FileOf[Top.p]),
           NEW at \in Places, NEW own \in BOOLEAN, Goes(at, own),
           thread_pt' = thread_pt, lost' \subseteq Process,
           child_pt' \in [Process -> BOOLEAN],
           NEW L, L = IF own /\ at # "body" THEN process_pt'[FileOf[Top.p]] ELSE -1
    PROVE  ThreadInv' /\ Threads!Goes(at, own, L)
<1>1. /\ ThreadInv'
      /\ Calls' = With(Calls, PrivateOf([p |-> Top.p, at |-> at, own |-> own],
                                        process_pt'))
  BY GoesReplaces
<1>2. PrivateOf([p |-> Top.p, at |-> at, own |-> own], process_pt')
        = [p |-> Top.p, at |-> at, own |-> own, pt |-> L]
  BY DEF PrivateOf, Holds
<1>3. Threads!Top.p = Top.p /\ Threads!Rest = Front(Calls)
  BY AbstractTop
<1>4. Calls' = Append(Threads!Rest, [p |-> Threads!Top.p, at |-> at, own |-> own, pt |-> L])
  BY <1>1, <1>2, <1>3 DEF With
<1>. QED
  BY <1>1, <1>4, CallsAre DEF Threads!Goes

\* The facts of a state that every step of a thread starts from.
LEMMA Facts ==
    ASSUME ThreadInv, frames # <<>>
    PROVE  /\ Top.p \in Process /\ FileOf[Top.p] \in File /\ Pt \in Continuation
           /\ Top.own \in BOOLEAN /\ Top.at \in Places
           /\ process_pt \in Pts /\ thread_pt \in [Process -> Continuation]
           /\ child_pt \in [Process -> BOOLEAN] /\ lost \subseteq Process
           /\ WritesOnly(process_pt, process_pt, FileOf[Top.p])
           /\ Threads!Top = [p |-> Top.p, at |-> Top.at, own |-> Top.own,
                             pt |-> IF Holds(Top) THEN Pt ELSE -1]
           /\ \A at : Threads!At(at) <=> Top.at = at
<1>1. /\ child_pt \in [Process -> BOOLEAN] /\ lost \subseteq Process
      /\ thread_pt \in [Process -> Continuation]
  BY DEF ThreadInv, ThreadsOK
<1>. QED
  BY <1>1, TopCall, AbstractTop DEF WritesOnly

LEMMA SetPtKeeps ==
    ASSUME ThreadInv, frames # <<>>, NEW L \in Continuation, SetPt(L)
    PROVE  /\ process_pt' \in Pts /\ process_pt'[FileOf[Top.p]] = L
           /\ WritesOnly(process_pt, process_pt', FileOf[Top.p])
  BY Facts DEF SetPt, Pts, WritesOnly

LEMMA EntersTyped ==
    ASSUME NEW p \in Process, NEW L \in Continuation
    PROVE  /\ Enters(p, L) \in {"END", "body", "test", "child"}
           /\ Threads!Enters(p, L) = Enters(p, L)
  BY DEF Enters, Threads!Enters

LEMMA LinesAre ==
    ASSUME NEW p \in Process
    PROVE  /\ Leaves(p) \subseteq Continuation /\ Tests(p) \subseteq Continuation
           /\ Threads!Leaves(p) = Leaves(p) /\ Threads!Tests(p) = Tests(p)
           /\ \A L \in Tests(p) : Enters(p, L) \in {"test", "child"}
  BY LinesAssumption DEF Leaves, Tests, Continuation, Enters, Threads!Leaves, Threads!Tests

LEMMA BeginStep ==
    ASSUME ThreadInv, Begin
    PROVE  ThreadInv' /\ Threads!Begin
<1>1. /\ frames # <<>> /\ Top.at = "entry"
      /\ Enters(Top.p, Pt) # "END"
      /\ Goes(Enters(Top.p, Pt), Top.own \/ Enters(Top.p, Pt) = "body")
      /\ process_pt' = process_pt /\ thread_pt' = thread_pt
      /\ child_pt' = child_pt /\ lost' = lost
  BY DEF Begin, At
<1>. DEFINE at  == Enters(Top.p, Pt)
            own == Top.own \/ at = "body"
            L   == IF own /\ at # "body" THEN process_pt'[FileOf[Top.p]] ELSE -1
<1>2. at \in Places /\ at # "entry" /\ own \in BOOLEAN
  BY <1>1, Facts, EntersTyped DEF Places
<1>3. Goes(at, own)
  BY <1>1
<1>4. L = IF own /\ at # "body" THEN Pt ELSE -1
  BY <1>1 DEF Pt
<1>. HIDE DEF at, own, L
<1>5. ThreadInv' /\ Threads!Goes(at, own, L)
  <2>1. L = IF own /\ at # "body" THEN process_pt'[FileOf[Top.p]] ELSE -1
    BY DEF L
  <2>2. WritesOnly(process_pt, process_pt', FileOf[Top.p]) /\ process_pt' \in Pts
        /\ lost' \subseteq Process /\ child_pt' \in [Process -> BOOLEAN]
    BY <1>1, Facts
  <2>. QED
    BY <1>1, <1>2, <1>3, <2>1, <2>2, AbstractGoes
<1>6. Pt \in Threads!Kept(Threads!Top.pt) /\ Threads!At("entry")
  BY <1>1, Facts, PtIsKept
<1>7. Threads!Enters(Threads!Top.p, Pt) = at /\ at # "END"
  BY <1>1, Facts, EntersTyped DEF at
<1>8. CASE at = "body"
  <2>1. own = TRUE /\ L = -1
    BY <1>4, <1>8 DEF own
  <2>2. Threads!Goes("body", TRUE, Threads!NONE) /\ thread_pt' = thread_pt
    BY <1>1, <1>5, <1>8, <2>1 DEF Threads!NONE
  <2>. QED
    BY <1>1, <1>5, <1>6, <1>7, <1>8, <2>2 DEF Threads!Begin
<1>9. CASE at # "body"
  <2>1. own = Top.own /\ Threads!Top.own = Top.own /\ L = Threads!Top.pt
    BY <1>1, <1>4, <1>9, Facts DEF own, Holds
  <2>2. Threads!Goes(at, Threads!Top.own, Threads!Top.pt) /\ thread_pt' = thread_pt
    BY <1>1, <1>5, <2>1
  <2>. QED
    BY <1>1, <1>5, <1>6, <1>7, <1>9, <2>2 DEF Threads!Begin
<1>. QED
  BY <1>8, <1>9

LEMMA BeginAtEndStep ==
    ASSUME ThreadInv, BeginAtEnd
    PROVE  ThreadInv' /\ Threads!Begin
<1>1. /\ frames # <<>> /\ Top.at = "entry" /\ Enters(Top.p, Pt) = "END"
      /\ SetPt(0) /\ Return(0) /\ child_pt' = child_pt
      /\ lost' = lost \ {Top.p}
  BY DEF BeginAtEnd, At
<1>2. 0 \in Continuation
  BY DEF Continuation
<1>3. ThreadInv' /\ Threads!Return(0)
  BY <1>1, <1>2, Facts, SetPtKeeps, AbstractReturn
<1>4. Pt \in Threads!Kept(Threads!Top.pt) /\ Threads!At("entry")
  BY <1>1, Facts, PtIsKept
<1>5. Threads!Enters(Threads!Top.p, Pt) = "END"
  BY <1>1, Facts, EntersTyped
<1>. QED
  BY <1>1, <1>3, <1>4, <1>5 DEF Threads!Begin

LEMMA LeaveStep ==
    ASSUME ThreadInv, Leave
    PROVE  ThreadInv' /\ Threads!Leave
<1>1. /\ frames # <<>> /\ Top.at = "body"
      /\ child_pt' = child_pt /\ lost' = lost \ {Top.p}
  BY DEF Leave, At
<1>2. PICK L \in Leaves(Top.p) : SetPt(L) /\ Return(L)
  BY DEF Leave
<1>3. L \in Continuation /\ L \in Threads!Leaves(Threads!Top.p)
  BY <1>1, Facts, LinesAre
<1>4. ThreadInv' /\ Threads!Return(L)
  BY <1>1, <1>2, <1>3, Facts, SetPtKeeps, AbstractReturn
<1>5. Threads!At("body")
  BY <1>1, Facts
<1>. QED
  BY <1>1, <1>3, <1>4, <1>5 DEF Threads!Leave

LEMMA TestStep ==
    ASSUME ThreadInv, Test
    PROVE  ThreadInv' /\ Threads!Test
<1>1. /\ frames # <<>> /\ Top.at = "body"
      /\ thread_pt' = thread_pt /\ lost' = lost \ {Top.p}
  BY DEF Test, At
<1>2. PICK L \in Tests(Top.p) :
          /\ SetPt(L)
          /\ Goes(Enters(Top.p, L), TRUE)
          /\ child_pt' = [child_pt EXCEPT ![Top.p] = Macro[L] # "SPAWN" /\ @]
  BY DEF Test
<1>3. /\ L \in Continuation /\ L \in Threads!Tests(Threads!Top.p)
      /\ Enters(Top.p, L) \in Places /\ Enters(Top.p, L) # "body"
      /\ Threads!Enters(Threads!Top.p, L) = Enters(Top.p, L)
  BY <1>1, Facts, LinesAre, EntersTyped DEF Places
<1>4. /\ process_pt' \in Pts /\ process_pt'[FileOf[Top.p]] = L
      /\ WritesOnly(process_pt, process_pt', FileOf[Top.p])
  BY <1>1, <1>2, <1>3, SetPtKeeps
<1>5. child_pt' \in [Process -> BOOLEAN] /\ lost' \subseteq Process
  BY <1>1, <1>2, Facts
<1>6. ThreadInv' /\ Threads!Goes(Enters(Top.p, L), TRUE, L)
  BY <1>1, <1>2, <1>3, <1>4, <1>5, AbstractGoes
<1>7. Threads!At("body") /\ Threads!Top.p = Top.p
  BY <1>1, Facts
<1>. QED
  BY <1>1, <1>2, <1>3, <1>6, <1>7 DEF Threads!Test

\* A condition holds, or a child has come to an end.
LEMMA PassesStep ==
    ASSUME ThreadInv, frames # <<>>, Top.at \in {"test", "child"},
           Goes("body", TRUE), process_pt' = process_pt, thread_pt' = thread_pt,
           lost' = lost,
           child_pt' = [child_pt EXCEPT ![Top.p] = Top.at # "child" /\ @]
    PROVE  ThreadInv' /\ Threads!Passes
<1>1. child_pt' \in [Process -> BOOLEAN]
  BY Facts
<1>2. "body" \in Places /\ TRUE \in BOOLEAN
      /\ -1 = IF TRUE /\ "body" # "body" THEN process_pt'[FileOf[Top.p]] ELSE -1
  BY DEF Places
<1>3. ThreadInv' /\ Threads!Goes("body", TRUE, -1)
  BY <1>1, <1>2, Facts, AbstractGoes
<1>4. (Threads!At("test") \/ Threads!At("child"))
      /\ Threads!Top.p = Top.p /\ Threads!Top.at = Top.at
  BY Facts
<1>. QED
  BY <1>3, <1>4 DEF Threads!Passes, Threads!NONE

\* A condition does not hold, or a child has blocked.
LEMMA WaitsStep ==
    ASSUME ThreadInv, frames # <<>>, Top.at \in {"test", "child"}, Waits,
           child_pt' = [child_pt EXCEPT ![Top.p] = Top.at = "child" \/ @]
    PROVE  ThreadInv' /\ Threads!Waits
<1>1. Return(Pt) /\ process_pt' = process_pt /\ lost' \subseteq Process
      /\ child_pt' \in [Process -> BOOLEAN]
  BY Facts DEF Waits
<1>2. ThreadInv' /\ Threads!Return(Pt)
  BY <1>1, Facts, AbstractReturn
<1>3. Pt \in Threads!Kept(Threads!Top.pt)
      /\ (Threads!At("test") \/ Threads!At("child"))
      /\ Threads!Top.p = Top.p /\ Threads!Top.at = Top.at
  BY Facts, PtIsKept
<1>. QED
  BY <1>2, <1>3 DEF Threads!Waits

LEMMA TestHoldsStep ==
    ASSUME ThreadInv, TestHolds
    PROVE  ThreadInv' /\ Threads!Passes
<1>1. /\ frames # <<>> /\ Top.at = "test" /\ Goes("body", TRUE)
      /\ process_pt' = process_pt /\ thread_pt' = thread_pt
      /\ child_pt' = child_pt /\ lost' = lost
  BY DEF TestHolds, At
<1>2. child_pt' = [child_pt EXCEPT ![Top.p] = Top.at # "child" /\ @]
  BY <1>1, Facts
<1>. QED
  BY <1>1, <1>2, PassesStep

LEMMA TestFailsStep ==
    ASSUME ThreadInv, TestFails
    PROVE  ThreadInv' /\ Threads!Waits
<1>1. frames # <<>> /\ Top.at = "test" /\ Waits /\ child_pt' = child_pt
  BY DEF TestFails, At
<1>2. child_pt' = [child_pt EXCEPT ![Top.p] = Top.at = "child" \/ @]
  BY <1>1, Facts
<1>. QED
  BY <1>1, <1>2, WaitsStep

LEMMA ChildReturnsStep ==
    ASSUME ThreadInv, NEW result \in {WAITING, YIELDED, EXITED, ENDED},
           ChildReturns(result)
    PROVE  ThreadInv' /\ (Threads!Passes \/ Threads!Waits)
<1>1. /\ frames # <<>> /\ Top.at = "child"
      /\ child_pt' = [child_pt EXCEPT ![Top.p] = result < EXITED]
  BY DEF ChildReturns, At
<1>2. CASE Schedules(result)
  <2>1. Waits
    BY <1>2 DEF ChildReturns
  <2>2. child_pt' = [child_pt EXCEPT ![Top.p] = Top.at = "child" \/ @]
    BY <1>1, <1>2, Facts DEF Schedules
  <2>. QED
    BY <1>1, <2>1, <2>2, WaitsStep
<1>3. CASE ~Schedules(result)
  <2>1. /\ Goes("body", TRUE) /\ process_pt' = process_pt /\ thread_pt' = thread_pt
        /\ lost' = lost
    BY <1>3 DEF ChildReturns
  <2>2. result \in Int /\ EXITED \in Int /\ ~(result < EXITED)
    BY <1>3 DEF Schedules, WAITING, YIELDED, EXITED, ENDED
  <2>3. (result < EXITED) = (Top.at # "child" /\ child_pt[Top.p])
    BY <1>1, <2>2
  <2>4. child_pt' = [child_pt EXCEPT ![Top.p] = Top.at # "child" /\ @]
    BY <1>1, <2>3
  <2>. QED
    BY <1>1, <2>1, <2>4, PassesStep
<1>. QED
  BY <1>2, <1>3
-----------------------------------------------------------------------------
LEMMA InitStep == ThreadsInit => ThreadInv /\ Threads!Init
<1>1. ASSUME ThreadsInit PROVE ThreadInv
  <2>1. frames = <<>> /\ Len(frames) = 0
    BY <1>1, EmptySeq DEF ThreadsInit
  <2>. QED
    BY <1>1, <2>1 DEF ThreadsInit, ThreadInv, ThreadsOK, Topmost, TopmostIn, Continuation
<1>2. ASSUME ThreadsInit PROVE Threads!Init
  <2>1. [i \in 1..Len(frames) |-> Private(frames[i])] = <<>>
    BY <1>2, EmptySeq DEF ThreadsInit
  <2>. QED
    BY <1>2, <2>1 DEF ThreadsInit, Threads!Init
<1>. QED
  BY <1>1, <1>2

privateVars == <<thread_pt, child_pt, Calls>>

LEMMA NextStep ==
    ThreadInv /\ [ThreadsNext]_threadVars => ThreadInv' /\ [Threads!Next]_privateVars
<1>. SUFFICES ASSUME ThreadInv, [ThreadsNext]_threadVars
              PROVE  ThreadInv' /\ [Threads!Next]_privateVars
  OBVIOUS
<1>1. CASE UNCHANGED threadVars
  BY <1>1 DEF threadVars, privateVars, Calls, ThreadInv, ThreadsOK, Topmost, TopmostIn,
              PrivatesOf, PrivateOf, Holds
<1>2. ASSUME NEW p \in Process, Call(p) PROVE ThreadInv' /\ Threads!Next
  BY <1>2, CallStep DEF Threads!Next
<1>3. CASE Begin
  BY <1>3, BeginStep DEF Threads!Next
<1>4. CASE BeginAtEnd
  BY <1>4, BeginAtEndStep DEF Threads!Next
<1>5. CASE Leave
  BY <1>5, LeaveStep DEF Threads!Next
<1>6. CASE Test
  BY <1>6, TestStep DEF Threads!Next
<1>7. CASE TestHolds
  BY <1>7, TestHoldsStep DEF Threads!Next
<1>8. CASE TestFails
  BY <1>8, TestFailsStep DEF Threads!Next
<1>9. ASSUME NEW result \in {WAITING, YIELDED, EXITED, ENDED}, ChildReturns(result)
      PROVE  ThreadInv' /\ Threads!Next
  BY <1>9, ChildReturnsStep DEF Threads!Next
<1>. QED
  BY <1>1, <1>2, <1>3, <1>4, <1>5, <1>6, <1>7, <1>8, <1>9 DEF ThreadsNext

\* Types of what the threads keep.
THEOREM ThreadsTypeCorrect == ThreadsSpec => []ThreadsOK
<1>1. ThreadInv => ThreadsOK
  BY DEF ThreadInv
<1>. QED
  BY <1>1, InitStep, NextStep, PTL DEF ThreadsSpec

\* The threads of processes implement threads with continuations of their own.
THEOREM ContinuationsCorrect == ThreadsSpec => ContinuationsArePrivate
<1>1. [Threads!Next]_privateVars
        => [Threads!Next]_<<thread_pt, child_pt,
                            [i \in 1..Len(frames) |-> Private(frames[i])]>>
  BY CallsAre DEF privateVars
<1>. QED
  BY <1>1, InitStep, NextStep, PTL DEF ThreadsSpec, ContinuationsArePrivate, Threads!Spec
-----------------------------------------------------------------------------
(***************************************************************************)
(* SPAWN.  A thread that returns without having touched its continuation   *)
(* was in a condition or in a child.  In a condition the continuation, if  *)
(* it is the call's own, is a line that has a condition and so no SPAWN.   *)
(***************************************************************************)
InCondition(f) ==
    f.own /\ f.at = "test" => Enters(f.p, process_pt[FileOf[f.p]]) = "test"

ConditionsAreOwn == \A i \in 1..Len(frames) : InCondition(frames[i])

InCall(p) == \E i \in 1..Len(frames) : frames[i].p = p

BlockedOn(p) ==
    p \notin lost /\ thread_pt[p] \in Lines[p] /\ Macro[thread_pt[p]] = "SPAWN"

ChildInv == ThreadInv /\ ConditionsAreOwn /\ ChildHasBlocked

LEMMA ChildHasBlockedIs ==
    ChildHasBlocked <=> \A p \in Process : ~InCall(p) /\ BlockedOn(p) => child_pt[p]
  BY DEF ChildHasBlocked, InCall, BlockedOn

\* The condition of a call under the executing one is out of that one's reach.
LEMMA ConditionBelow ==
    ASSUME ThreadInv, ConditionsAreOwn, frames # <<>>, NEW i \in 1..(Len(frames) - 1),
           process_pt' \in Pts, WritesOnly(process_pt, process_pt', FileOf[Top.p])
    PROVE  LET f == frames[i] IN
           f.own /\ f.at = "test" => Enters(f.p, process_pt'[FileOf[f.p]]) = "test"
<1>1. frames \in Seq(Frame) /\ Len(frames) \in Nat \ {0}
  BY TopCall, EmptySeq
<1>2. i \in 1..Len(frames) /\ Len(frames) \in (i + 1)..Len(frames)
  BY <1>1
<1>3. frames[i] \in Frame /\ frames[i].p \in Process
  <2>1. frames[i] \in Frame
    BY <1>1, <1>2, ElementOfSeq
  <2>. QED
    BY <2>1 DEF Frame
<1>4. Holds(frames[i]) => FileOf[frames[i].p] # FileOf[Top.p]
  BY <1>2 DEF Top, ThreadInv, Topmost, TopmostIn
<1>5. Holds(frames[i]) => process_pt'[FileOf[frames[i].p]] = process_pt[FileOf[frames[i].p]]
  BY <1>3, <1>4 DEF WritesOnly, File
<1>6. InCondition(frames[i])
  BY <1>2 DEF ConditionsAreOwn
<1>. QED
  BY <1>5, <1>6 DEF InCondition, Holds

\* The executing thread returns with L.
LEMMA ReturnKeepsChild ==
    ASSUME ChildInv, frames # <<>>, process_pt' \in Pts,
           WritesOnly(process_pt, process_pt', FileOf[Top.p]),
           NEW L \in Continuation, Return(L),
           \A p \in Process \ {Top.p} :
                (p \in lost' <=> p \in lost) /\ child_pt'[p] = child_pt[p],
           (L \in Lines[Top.p] /\ Macro[L] = "SPAWN" /\ Top.p \notin lost')
                => child_pt'[Top.p]
    PROVE  ConditionsAreOwn' /\ ChildHasBlocked'
<1>. USE DEF ChildInv
<1>1. /\ frames \in Seq(Frame) /\ Top.p \in Process
      /\ thread_pt \in [Process -> Continuation]
  BY Facts, TopCall
<1>2. /\ Len(frames) \in Nat \ {0} /\ Top = frames[Len(frames)]
      /\ Len(frames') = Len(frames) - 1
      /\ \A i \in 1..(Len(frames) - 1) : frames'[i] = frames[i]
  BY <1>1, FrontIs DEF Return, Rest, Front, Top
<1>3. /\ thread_pt'[Top.p] = L
      /\ \A p \in Process \ {Top.p} : thread_pt'[p] = thread_pt[p]
  BY <1>1 DEF Return
<1>4. ConditionsAreOwn'
  BY <1>2, ConditionBelow DEF ConditionsAreOwn, InCondition
<1>5. ASSUME NEW p \in Process, ~InCall(p)', BlockedOn(p)' PROVE child_pt'[p]
  <2>1. CASE p = Top.p
    BY <1>3, <1>5, <2>1 DEF BlockedOn
  <2>2. CASE p # Top.p
    <3>1. ~InCall(p)
      <4>1. SUFFICES ASSUME NEW i \in 1..Len(frames), frames[i].p = p PROVE FALSE
        BY DEF InCall
      <4>2. i \in 1..(Len(frames) - 1)
        BY <1>2, <2>2, <4>1
      <4>. QED
        BY <1>2, <1>5, <4>1, <4>2 DEF InCall
    <3>2. BlockedOn(p)
      BY <1>3, <1>5, <2>2 DEF BlockedOn
    <3>. QED
      BY <2>2, <3>1, <3>2, ChildHasBlockedIs
  <2>. QED
    BY <2>1, <2>2
<1>6. ChildHasBlocked'
  BY <1>5 DEF ChildHasBlocked, InCall, BlockedOn
<1>. QED
  BY <1>4, <1>6

\* The executing thread goes on elsewhere in its own body.
LEMMA GoesKeepsChild ==
    ASSUME ChildInv, frames # <<>>, process_pt' \in Pts,
           WritesOnly(process_pt, process_pt', FileOf[Top.p]),
           NEW at \in Places, NEW own \in BOOLEAN, Goes(at, own),
           own /\ at = "test" => Enters(Top.p, process_pt'[FileOf[Top.p]]) = "test",
           thread_pt' = thread_pt,
           \A p \in Process \ {Top.p} :
                (p \in lost' <=> p \in lost) /\ child_pt'[p] = child_pt[p]
    PROVE  ConditionsAreOwn' /\ ChildHasBlocked'
<1>. USE DEF ChildInv
<1>1. frames \in Seq(Frame) /\ Top.p \in Process
  BY Facts, TopCall
<1>2. PICK f \in Frame : f = [p |-> Top.p, at |-> at, own |-> own]
  BY <1>1 DEF Frame, Places
<1>3. frames' = With(frames, f)
  BY <1>2 DEF Goes, Rest, With, Front
<1>4. /\ Len(frames) \in Nat \ {0} /\ Top = frames[Len(frames)]
      /\ Len(frames') = Len(frames)
      /\ \A i \in 1..(Len(frames) - 1) : frames'[i] = frames[i]
      /\ frames'[Len(frames)] = f
  <2>1. Len(frames) \in Nat \ {0}
    BY <1>1, EmptySeq
  <2>2. /\ Len(With(frames, f)) = Len(frames)
        /\ \A i \in 1..(Len(frames) - 1) : With(frames, f)[i] = frames[i]
        /\ With(frames, f)[Len(frames)] = f
    BY <1>1, WithIs
  <2>. QED
    BY <1>3, <2>1, <2>2 DEF Top
<1>5. f.p = Top.p /\ f.at = at /\ f.own = own
  BY <1>2
<1>6. ASSUME NEW i \in 1..Len(frames) PROVE InCondition(frames[i])'
  <2>1. CASE i = Len(frames)
    BY <1>4, <1>5, <2>1 DEF InCondition
  <2>2. CASE i # Len(frames)
    <3>1. i \in 1..(Len(frames) - 1)
      BY <1>4, <2>2
    <3>. QED
      BY <1>4, <3>1, ConditionBelow DEF InCondition
  <2>. QED
    BY <2>1, <2>2
<1>7. ConditionsAreOwn'
  BY <1>4, <1>6 DEF ConditionsAreOwn
<1>8. ASSUME NEW p \in Process, ~InCall(p)', BlockedOn(p)' PROVE child_pt'[p]
  <2>1. ~InCall(p) /\ p # Top.p
    <3>1. ASSUME NEW i \in 1..Len(frames) PROVE frames[i].p # p
      BY <1>4, <1>5, <1>8 DEF InCall
    <3>. QED
      BY <1>4, <3>1 DEF InCall
  <2>2. BlockedOn(p)
    BY <1>8, <2>1 DEF BlockedOn
  <2>. QED
    BY <2>1, <2>2, ChildHasBlockedIs
<1>9. ChildHasBlocked'
  BY <1>8 DEF ChildHasBlocked, InCall, BlockedOn
<1>. QED
  BY <1>7, <1>9

\* A call takes process_pt from the calls of its file that are in conditions.
LEMMA CallKeepsChild ==
    ASSUME ChildInv, NEW p \in Process, Call(p)
    PROVE  ConditionsAreOwn' /\ ChildHasBlocked'
<1>. USE DEF ChildInv
<1>1. /\ frames \in Seq(Frame) /\ process_pt \in Pts
      /\ thread_pt \in [Process -> Continuation]
  BY DEF ThreadInv, ThreadsOK, Pts
<1>2. PICK f \in Frame : f = [p |-> p, at |-> "entry", own |-> TRUE]
  BY DEF Frame
<1>. DEFINE n == Len(frames)
            d == DisownedIn(frames, FileOf[p])
<1>3. /\ d \in Seq(Frame) /\ Len(d) = n /\ n \in Nat
      /\ \A i \in 1..n : d[i].p = frames[i].p
      /\ \A i \in 1..n : d[i].own /\ d[i].at = "test" =>
                           d[i] = frames[i] /\ FileOf[frames[i].p] # FileOf[p]
      /\ \A i \in 1..n : frames[i] \in Frame
  <2>1. n \in Nat /\ \A i \in 1..n : frames[i] \in Frame
    BY <1>1, LenProperties, ElementOfSeq
  <2>2. /\ d \in Seq(Frame) /\ Len(d) = n
        /\ \A i \in 1..n :
              /\ d[i] = IF FileOf[frames[i].p] = FileOf[p] /\ frames[i].at # "body"
                        THEN [p |-> frames[i].p, at |-> frames[i].at, own |-> FALSE]
                        ELSE frames[i]
              /\ d[i].p = frames[i].p
              /\ Holds(d[i]) => Holds(frames[i]) /\ FileOf[frames[i].p] # FileOf[p]
    BY <1>1, DisownedTyped
  <2>. HIDE DEF d
  <2>3. ASSUME NEW i \in 1..n, d[i].own, d[i].at = "test"
        PROVE  d[i] = frames[i] /\ FileOf[frames[i].p] # FileOf[p]
    BY <2>2, <2>3 DEF Holds
  <2>. QED
    BY <2>1, <2>2, <2>3
<1>4. frames' = Append(d, f)
  BY <1>2 DEF Call, Disowned, DisownedIn
<1>. HIDE DEF d
<1>5. /\ Len(frames') = n + 1
      /\ \A i \in 1..n : frames'[i] = d[i]
      /\ frames'[n + 1] = f
  BY <1>3, <1>4, AppendProperties
<1>6. \A file \in File : file # FileOf[p] => process_pt'[file] = process_pt[file]
  BY <1>1 DEF Call, Pts
<1>7. ASSUME NEW i \in 1..(n + 1) PROVE InCondition(frames[i])'
  <2>1. CASE i = n + 1
    BY <1>2, <1>5, <2>1 DEF InCondition
  <2>2. CASE i # n + 1
    <3>1. i \in 1..n /\ frames'[i] = d[i]
      BY <1>3, <1>5, <2>2
    <3>2. CASE d[i].own /\ d[i].at = "test"
      <4>1. frames'[i] = frames[i] /\ FileOf[frames[i].p] \in File
            /\ FileOf[frames[i].p] # FileOf[p]
        BY <1>3, <3>1, <3>2 DEF Frame, File
      <4>2. InCondition(frames[i])
        BY <3>1 DEF ConditionsAreOwn
      <4>. QED
        BY <1>6, <4>1, <4>2 DEF InCondition
    <3>. QED
      BY <3>1, <3>2 DEF InCondition
  <2>. QED
    BY <2>1, <2>2
<1>8. ConditionsAreOwn'
  BY <1>5, <1>7 DEF ConditionsAreOwn
<1>9. ASSUME NEW q \in Process, ~InCall(q)', BlockedOn(q)' PROVE child_pt'[q]
  <2>1. ~InCall(q)
    BY <1>3, <1>5, <1>9 DEF InCall
  <2>2. BlockedOn(q) /\ child_pt' = child_pt
    BY <1>9 DEF BlockedOn, Call
  <2>. QED
    BY <2>1, <2>2, ChildHasBlockedIs
<1>10. ChildHasBlocked'
  BY <1>9 DEF ChildHasBlocked, InCall, BlockedOn
<1>. QED
  BY <1>8, <1>10

\* A thread that returns as it is has blocked in a condition of its own, has lost
\* its continuation, or has a child that has blocked.
LEMMA WaitsKeepsChild ==
    ASSUME ChildInv, frames # <<>>, Waits,
           Top.at = "test" \/ child_pt'[Top.p],
           \A p \in Process \ {Top.p} : child_pt'[p] = child_pt[p]
    PROVE  ConditionsAreOwn' /\ ChildHasBlocked'
<1>. USE DEF ChildInv
<1>1. /\ Top.p \in Process /\ Pt \in Continuation /\ Top.own \in BOOLEAN
      /\ process_pt' = process_pt /\ process_pt \in Pts /\ Return(Pt)
      /\ WritesOnly(process_pt, process_pt, FileOf[Top.p])
      /\ lost' = IF Top.own THEN lost ELSE lost \cup {Top.p}
  BY Facts DEF Waits
<1>2. InCondition(Top)
  <2>1. Len(frames) \in 1..Len(frames)
    BY TopCall, EmptySeq
  <2>. QED
    BY <2>1 DEF ConditionsAreOwn, Top
<1>3. ASSUME Pt \in Lines[Top.p], Macro[Pt] = "SPAWN", Top.p \notin lost'
      PROVE  child_pt'[Top.p]
  <2>1. Top.own
    BY <1>1, <1>3
  <2>2. Enters(Top.p, Pt) # "test"
    BY <1>3 DEF Enters
  <2>. QED
    BY <1>2, <2>1, <2>2 DEF InCondition, Pt
<1>4. \A p \in Process \ {Top.p} : p \in lost' <=> p \in lost
  BY <1>1
<1>. QED
  BY <1>1, <1>3, <1>4, ReturnKeepsChild

LEMMA ThreadStepKeepsChild ==
    ASSUME ChildInv, Begin \/ BeginAtEnd \/ Leave \/ Test \/ TestHolds \/ TestFails
    PROVE  ConditionsAreOwn' /\ ChildHasBlocked'
<1>. USE DEF ChildInv
<1>1. frames # <<>>
  BY DEF Begin, BeginAtEnd, Leave, Test, TestHolds, TestFails, At
<1>2. /\ Top.p \in Process /\ FileOf[Top.p] \in File /\ Pt \in Continuation
      /\ Top.own \in BOOLEAN /\ process_pt \in Pts
      /\ child_pt \in [Process -> BOOLEAN]
      /\ WritesOnly(process_pt, process_pt, FileOf[Top.p])
  BY <1>1, Facts
<1>3. CASE Begin
  <2>1. PICK at \in Places, own \in BOOLEAN :
           at = Enters(Top.p, Pt) /\ own = (Top.own \/ at = "body")
    <3>1. Enters(Top.p, Pt) \in Places
      BY <1>2, <1>3, EntersTyped DEF Begin, Places
    <3>. QED
      BY <1>2, <3>1
  <2>2. Goes(at, own)
    BY <1>3, <2>1 DEF Begin
  <2>3. at = "test" => Enters(Top.p, process_pt'[FileOf[Top.p]]) = "test"
    BY <1>3, <2>1 DEF Begin, Pt
  <2>4. process_pt' = process_pt /\ thread_pt' = thread_pt
        /\ lost' = lost /\ child_pt' = child_pt
    BY <1>3 DEF Begin
  <2>5. /\ process_pt' \in Pts /\ WritesOnly(process_pt, process_pt', FileOf[Top.p])
        /\ \A p \in Process \ {Top.p} :
                (p \in lost' <=> p \in lost) /\ child_pt'[p] = child_pt[p]
    BY <1>2, <2>4
  <2>. QED
    BY <1>1, <2>2, <2>3, <2>4, <2>5, GoesKeepsChild
<1>4. CASE BeginAtEnd
  <2>1. /\ SetPt(0) /\ Return(0) /\ lost' = lost \ {Top.p} /\ child_pt' = child_pt
        /\ 0 \in Continuation
    BY <1>4 DEF BeginAtEnd, Continuation
  <2>2. /\ process_pt' \in Pts /\ WritesOnly(process_pt, process_pt', FileOf[Top.p])
    BY <1>1, <2>1, SetPtKeeps
  <2>3. 0 \notin Lines[Top.p]
    BY <1>2, LinesAssumption
  <2>. QED
    BY <1>1, <2>1, <2>2, <2>3, ReturnKeepsChild
<1>5. CASE Leave
  <2>1. PICK L \in Leaves(Top.p) : SetPt(L) /\ Return(L)
    BY <1>5 DEF Leave
  <2>2. L \in Continuation /\ (L \in Lines[Top.p] => Macro[L] # "SPAWN")
    BY <1>2, LinesAre, LinesAssumption DEF Leaves
  <2>3. /\ process_pt' \in Pts /\ WritesOnly(process_pt, process_pt', FileOf[Top.p])
    BY <1>1, <2>1, <2>2, SetPtKeeps
  <2>4. lost' = lost \ {Top.p} /\ child_pt' = child_pt
    BY <1>5 DEF Leave
  <2>. QED
    BY <1>1, <2>1, <2>2, <2>3, <2>4, ReturnKeepsChild
<1>6. CASE Test
  <2>1. PICK L \in Tests(Top.p) :
          /\ SetPt(L)
          /\ Goes(Enters(Top.p, L), TRUE)
          /\ child_pt' = [child_pt EXCEPT ![Top.p] = Macro[L] # "SPAWN" /\ @]
    BY <1>6 DEF Test
  <2>2. L \in Continuation /\ Enters(Top.p, L) \in Places
    BY <1>2, LinesAre DEF Places
  <2>3. /\ process_pt' \in Pts /\ WritesOnly(process_pt, process_pt', FileOf[Top.p])
        /\ process_pt'[FileOf[Top.p]] = L
    BY <1>1, <2>1, <2>2, SetPtKeeps
  <2>4. PICK at \in Places, own \in BOOLEAN : at = Enters(Top.p, L) /\ own = TRUE
    BY <2>2
  <2>5. Goes(at, own)
        /\ (own /\ at = "test" => Enters(Top.p, process_pt'[FileOf[Top.p]]) = "test")
    BY <2>1, <2>3, <2>4
  <2>6. /\ \A p \in Process \ {Top.p} :
                (p \in lost' <=> p \in lost) /\ child_pt'[p] = child_pt[p]
        /\ thread_pt' = thread_pt
    BY <1>2, <1>6, <2>1 DEF Test
  <2>. QED
    BY <1>1, <2>3, <2>5, <2>6, GoesKeepsChild
<1>7. CASE TestHolds
  <2>1. /\ Goes("body", TRUE) /\ process_pt' = process_pt /\ thread_pt' = thread_pt
        /\ child_pt' = child_pt /\ lost' = lost
    BY <1>7 DEF TestHolds
  <2>. QED
    BY <1>1, <1>2, <2>1, GoesKeepsChild DEF Places
<1>8. CASE TestFails
  <2>1. Waits /\ Top.at = "test" /\ child_pt' = child_pt
    BY <1>8 DEF TestFails, At
  <2>. QED
    BY <1>1, <2>1, WaitsKeepsChild
<1>. QED
  BY <1>3, <1>4, <1>5, <1>6, <1>7, <1>8

LEMMA ChildReturnsKeepsChild ==
    ASSUME ChildInv, NEW result \in {WAITING, YIELDED, EXITED, ENDED},
           ChildReturns(result)
    PROVE  ConditionsAreOwn' /\ ChildHasBlocked'
<1>. USE DEF ChildInv
<1>1. frames # <<>>
      /\ child_pt' = [child_pt EXCEPT ![Top.p] = result < EXITED]
  BY DEF ChildReturns, At
<1>2. /\ Top.p \in Process /\ child_pt \in [Process -> BOOLEAN]
      /\ process_pt \in Pts /\ WritesOnly(process_pt, process_pt, FileOf[Top.p])
  BY <1>1, Facts
<1>3. /\ child_pt'[Top.p] <=> Schedules(result)
      /\ \A p \in Process \ {Top.p} : child_pt'[p] = child_pt[p]
  BY <1>1, <1>2 DEF Schedules
<1>4. CASE Schedules(result)
  <2>1. Waits
    BY <1>4 DEF ChildReturns
  <2>. QED
    BY <1>1, <1>3, <1>4, <2>1, WaitsKeepsChild
<1>5. CASE ~Schedules(result)
  <2>1. Goes("body", TRUE) /\ process_pt' = process_pt /\ thread_pt' = thread_pt
        /\ lost' = lost
    BY <1>5 DEF ChildReturns
  <2>. QED
    BY <1>1, <1>2, <1>3, <2>1, GoesKeepsChild DEF Places
<1>. QED
  BY <1>4, <1>5

LEMMA ChildInvKept == ChildInv /\ [ThreadsNext]_threadVars => ChildInv'
<1>. SUFFICES ASSUME ChildInv, [ThreadsNext]_threadVars PROVE ChildInv'
  OBVIOUS
<1>1. ThreadInv'
  BY NextStep DEF ChildInv
<1>2. CASE UNCHANGED threadVars
  BY <1>1, <1>2 DEF threadVars, ChildInv, ConditionsAreOwn, InCondition, ChildHasBlocked
<1>. QED
  BY <1>1, <1>2, CallKeepsChild, ThreadStepKeepsChild, ChildReturnsKeepsChild
  DEF ThreadsNext, ChildInv

\* SPAWN: while none of its calls is under way, a process whose continuation is
\* a SPAWN waits for a child that has blocked, so that it does not run a child
\* again that has ended, however the calls of threads have nested before.
THEOREM ChildHasBlockedCorrect == ThreadsSpec => []ChildHasBlocked
<1>1. ThreadsInit => ChildInv
  <2>1. SUFFICES ASSUME ThreadsInit PROVE ConditionsAreOwn /\ ChildHasBlocked
    BY InitStep DEF ChildInv
  <2>2. frames = <<>> /\ Len(frames) = 0 /\ thread_pt = [p \in Process |-> 0]
    BY <2>1, EmptySeq DEF ThreadsInit
  <2>3. \A p \in Process : thread_pt[p] \notin Lines[p]
    BY <2>2, LinesAssumption
  <2>. QED
    BY <2>2, <2>3 DEF ConditionsAreOwn, ChildHasBlocked
<1>2. ChildInv => ChildHasBlocked
  BY DEF ChildInv
<1>. QED
  BY <1>1, <1>2, ChildInvKept, PTL DEF ThreadsSpec
=============================================================================
