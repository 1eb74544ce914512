--------------------------- MODULE ControlProofs ----------------------------
(***************************************************************************)
(* Theorems about Control, for any preamble, any opening of the far end,   *)
(* any number of messages, any skew of the clocks and any time.            *)
(***************************************************************************)
EXTENDS Control, SequenceTheorems, TLAPS

-----------------------------------------------------------------------------
(***************************************************************************)
(* The inductive invariant.                                                *)
(***************************************************************************)

\* What the far end has said and the near relay has not taken.
Pending == part \o buf \o wire
Unasked == {"preamble", "greet", "noisy", "stranger", "closed"}
Listening == {"await", "loop"}

\* Where a part is in all that the far end says.
Place(x) == 2 * x.n + (IF x.last THEN 1 ELSE 0)
InStep(s) == \A i, j \in 1..Len(s) : Place(s[j]) - Place(s[i]) = j - i

\* No preamble among the bytes read so far, and not too many of them.
Searching ==
  pc = "preamble" =>
    /\ Len(seen) < Len(Preamble) + Slack
    /\ \A k \in 0..Len(seen) - Len(Preamble) : SubSeq(seen, k + 1, k + Len(Preamble)) # Preamble

\* What has been said, and what is shown, where the two relays are.
Phases ==
  /\ pc \in Unasked => said = <<>> /\ far \in {"accept", "gone"} /\ sentAt = 0 /\ Pending = <<>>
  /\ pc \in Unasked \cup {"await", "cut", "refused"} => mirror.n = 0
  /\ pc = "loop" => mirror.n # 0
  /\ pc = "bye" => far = "gone"
  /\ far = "accept" => said = <<>>
  /\ far = "up" => said # <<>>
  /\ mirror.n <= Len(said)

\* The answer comes first and nothing comes after a goodbye.
Told ==
  \A n \in 1..Len(said) :
    /\ n = 1 => said[n].kind \in {"ready", "refused"}
    /\ n > 1 => said[n].kind \in {"update", "bye"}
    /\ said[n].kind = "bye" => n = Len(said) /\ far = "gone"

\* A stretch of what was said, l messages so far, for a relay that shows the record of message m:
\* it begins behind m, and right behind it once m was an update, and while the far end is
\* there it goes up to the end of what was said.
Fits(s, m, l, open) ==
  /\ InStep(s)
  /\ \A i \in 1..Len(s) : s[i].n \in m + 1 .. l
  /\ s # <<>> /\ m > 1 => s[1].n = m + 1
  /\ open => IF s = <<>> THEN m \in {0, 1, l} ELSE s[Len(s)] = [n |-> l, last |-> TRUE]

\* What is pending is such a stretch, and the read in progress has no whole line.
Ordered ==
  pc \in Listening =>
    /\ Fits(Pending, mirror.n, Len(said), far # "gone")
    /\ \A i \in 1..Len(part) : ~part[i].last

\* Times in records lie between the epochs of the two clocks and now, and the question was
\* asked before it was answered.
Clocked ==
  /\ sentAt <= now
  /\ \A n \in 1..Len(said) :
       /\ said[n].kind \in {"ready", "update"} => said[n].at - skew \in 0..now
       /\ said[n].kind = "ready" => said[n].clock - skew \in sentAt..now

IInv ==
  /\ TypeOK /\ Searching /\ Phases /\ Told /\ Ordered /\ Clocked
  /\ PreambleJudged /\ OffsetsWithinLatency /\ StampsHonest /\ ByeMeansAll

-----------------------------------------------------------------------------
(***************************************************************************)
(* Sequences of parts.                                                     *)
(***************************************************************************)

Said == [kind : {"ready", "refused", "update", "bye"}, at : Nat, clock : Nat]

LEMMA PartPlace == \A x \in Part : x.n \in 1..MaxSaid /\ x.last \in BOOLEAN /\ Place(x) \in Int
  BY BoundAssumption DEF Part, Place

LEMMA LineIsParts ==
  ASSUME NEW n \in 1..MaxSaid
  PROVE  Line(n) \in Seq(Part) /\ Len(Line(n)) = 2
         /\ Line(n)[1] = [n |-> n, last |-> FALSE] /\ Line(n)[2] = [n |-> n, last |-> TRUE]
  BY DEF Line, Part

\* Taking the front of a sequence and the rest apart.
LEMMA FrontAndRest ==
  ASSUME NEW S, NEW s \in Seq(S), NEW k \in 0..Len(s)
  PROVE  /\ SubSeq(s, 1, k) \in Seq(S) /\ Len(SubSeq(s, 1, k)) = k
         /\ SubSeq(s, k + 1, Len(s)) \in Seq(S) /\ Len(SubSeq(s, k + 1, Len(s))) = Len(s) - k
         /\ SubSeq(s, 1, k) \o SubSeq(s, k + 1, Len(s)) = s
         /\ \A i \in 1..k : SubSeq(s, 1, k)[i] = s[i]
         /\ \A i \in 1..Len(s) - k : SubSeq(s, k + 1, Len(s))[i] = s[k + i]
<1>1. \A i \in 1..k : s[i] \in S
  BY ElementOfSeq
<1>2. \A i \in k + 1 .. Len(s) : s[i] \in S
  BY ElementOfSeq
<1>3. SubSeq(s, 1, k) \in Seq(S) /\ Len(SubSeq(s, 1, k)) = k
      /\ \A i \in 1..k : SubSeq(s, 1, k)[i] = s[i]
  BY <1>1, SubSeqProperties
<1>4. SubSeq(s, k + 1, Len(s)) \in Seq(S) /\ Len(SubSeq(s, k + 1, Len(s))) = Len(s) - k
      /\ \A i \in 1..Len(s) - k : SubSeq(s, k + 1, Len(s))[i] = s[k + i]
  BY <1>2, SubSeqProperties
<1>5. SubSeq(s, 1, k) \o SubSeq(s, k + 1, Len(s)) = SubSeq(s, 1, Len(s))
  <2>1. 1 \in 1..Len(s) + 1 /\ k \in 1 - 1 .. Len(s) /\ Len(s) \in k..Len(s)
    OBVIOUS
  <2> QED
    BY <2>1, ConcatAdjacentSubSeq, Zenon
<1> QED
  BY <1>3, <1>4, <1>5, SubSeqFull

\* Any stretch of what is in step is in step.
LEMMA StretchInStep ==
  ASSUME NEW s, NEW t, NEW k \in Nat, InStep(s), Len(s) \in Nat, Len(t) \in Nat,
         k + Len(t) <= Len(s), \A i \in 1..Len(t) : t[i] = s[k + i]
  PROVE  InStep(t)
<1> SUFFICES ASSUME NEW i \in 1..Len(t), NEW j \in 1..Len(t)
             PROVE  Place(t[j]) - Place(t[i]) = j - i
  BY DEF InStep
<1>1. k + i \in 1..Len(s) /\ k + j \in 1..Len(s)
  OBVIOUS
<1>2. Place(s[k + j]) - Place(s[k + i]) = (k + j) - (k + i)
  BY <1>1 DEF InStep
<1> QED
  BY <1>2

\* A line is put behind what ends with the one before it.
LEMMA LineInStep ==
  ASSUME NEW s \in Seq(Part), InStep(s), NEW n \in 0..MaxSaid - 1,
         s # <<>> => s[Len(s)] = [n |-> n, last |-> TRUE]
  PROVE  /\ InStep(s \o Line(n + 1))
         /\ s \o Line(n + 1) \in Seq(Part)
         /\ Len(s \o Line(n + 1)) = Len(s) + 2
         /\ (s \o Line(n + 1))[Len(s) + 2] = [n |-> n + 1, last |-> TRUE]
         /\ (s \o Line(n + 1))[Len(s) + 1] = [n |-> n + 1, last |-> FALSE]
         /\ \A i \in 1..Len(s) : (s \o Line(n + 1))[i] = s[i]
<1> DEFINE t == s \o Line(n + 1)
<1>1. n + 1 \in 1..MaxSaid /\ Len(s) \in Nat
  BY BoundAssumption
<1>2. Line(n + 1) \in Seq(Part) /\ Len(Line(n + 1)) = 2
      /\ Line(n + 1)[1] = [n |-> n + 1, last |-> FALSE]
      /\ Line(n + 1)[2] = [n |-> n + 1, last |-> TRUE]
  BY <1>1, LineIsParts
<1>3. t \in Seq(Part) /\ Len(t) = Len(s) + 2 /\ \A i \in 1..Len(s) + 2 :
        t[i] = IF i <= Len(s) THEN s[i] ELSE Line(n + 1)[i - Len(s)]
  <2> DEFINE u == Line(n + 1)
  <2>1. u \in Seq(Part) /\ Len(u) = 2
    BY <1>2
  <2> HIDE DEF u
  <2> HIDE DEF t
  <2>2. s \o u \in Seq(Part) /\ Len(s \o u) = Len(s) + Len(u) /\ \A i \in 1..Len(s) + Len(u) :
          (s \o u)[i] = IF i <= Len(s) THEN s[i] ELSE u[i - Len(s)]
    BY <2>1, ConcatProperties, Zenon
  <2> QED
    BY <2>1, <2>2 DEF t, u
<1>4. t[Len(s) + 1] = [n |-> n + 1, last |-> FALSE] /\ t[Len(s) + 2] = [n |-> n + 1, last |-> TRUE]
      /\ \A i \in 1..Len(s) : t[i] = s[i]
  BY <1>1, <1>2, <1>3
<1>5. Place(t[Len(s) + 1]) = 2 * n + 2 /\ Place(t[Len(s) + 2]) = 2 * n + 3
  <2>1. Place([n |-> n + 1, last |-> FALSE]) = 2 * n + 2
        /\ Place([n |-> n + 1, last |-> TRUE]) = 2 * n + 3
    <3> DEFINE x == [n |-> n + 1, last |-> FALSE]
               y == [n |-> n + 1, last |-> TRUE]
    <3>1. x.n = n + 1 /\ y.n = n + 1 /\ x.last = FALSE /\ y.last = TRUE
      OBVIOUS
    <3>2. 2 * (n + 1) = 2 * n + 2 /\ (2 * n + 2) + 0 = 2 * n + 2 /\ (2 * n + 2) + 1 = 2 * n + 3
      BY <1>1
    <3> QED
      BY <3>1, <3>2 DEF Place
  <2> QED
    BY <1>4, <2>1
<1> HIDE DEF t
<1>6. \A i \in 1..Len(s) : Place(t[i]) = 2 * n + 1 + i - Len(s)
  <2> SUFFICES ASSUME NEW i \in 1..Len(s) PROVE Place(s[i]) = 2 * n + 1 + i - Len(s)
    BY <1>4
  <2>1. s # <<>> /\ Len(s) \in 1..Len(s)
    BY <1>1
  <2>2. Place(s[Len(s)]) = 2 * n + 1
    BY <2>1 DEF Place
  <2>3. Place(s[Len(s)]) - Place(s[i]) = Len(s) - i
    BY <2>1 DEF InStep
  <2>4. Place(s[i]) \in Int
    BY PartPlace, ElementOfSeq
  <2> QED
    BY <1>1, <2>2, <2>3, <2>4
<1>7. \A i \in 1..Len(t) : Place(t[i]) = 2 * n + 1 + i - Len(s)
  <2> SUFFICES ASSUME NEW i \in 1..Len(t) PROVE Place(t[i]) = 2 * n + 1 + i - Len(s)
    OBVIOUS
  <2>1. i \in 1..Len(s) \/ i = Len(s) + 1 \/ i = Len(s) + 2
    BY <1>1, <1>3
  <2> QED
    BY <1>1, <1>5, <1>6, <2>1
<1>8. InStep(t)
  BY <1>1, <1>3, <1>7 DEF InStep
<1> QED
  BY <1>3, <1>4, <1>8 DEF t

\* Two parts compare as their places do.
LEMMA PlacesCompare ==
  ASSUME NEW x \in Part, NEW y \in Part, NEW d \in Nat, Place(y) - Place(x) = d
  PROVE  /\ x.n <= y.n
         /\ x.last /\ d > 0 => x.n < y.n
         /\ d = 1 => y = IF x.last THEN [n |-> x.n + 1, last |-> FALSE]
                         ELSE [n |-> x.n, last |-> TRUE]
<1>1. x.n \in Nat /\ y.n \in Nat /\ x.last \in BOOLEAN /\ y.last \in BOOLEAN
  BY BoundAssumption DEF Part
<1>2. /\ Place(x) = IF x.last THEN 2 * x.n + 1 ELSE 2 * x.n
      /\ Place(y) = IF y.last THEN 2 * y.n + 1 ELSE 2 * y.n
  BY <1>1 DEF Place
<1>3. x = [n |-> x.n, last |-> x.last] /\ y = [n |-> y.n, last |-> y.last]
  BY DEF Part
<1>4. CASE x.last
  <2>1. Place(x) = 2 * x.n + 1
    BY <1>2, <1>4
  <2>2. x.n <= y.n /\ (d > 0 => x.n < y.n) /\ (d = 1 => y.n = x.n + 1)
    BY <1>1, <1>2, <2>1
  <2>3. d = 1 => y.last = FALSE
    BY <1>1, <1>2, <2>1
  <2> QED
    BY <1>3, <1>4, <2>2, <2>3
<1>5. CASE ~x.last
  <2>1. Place(x) = 2 * x.n
    BY <1>2, <1>5
  <2>2. x.n <= y.n /\ (d = 1 => y.n = x.n)
    BY <1>1, <1>2, <2>1
  <2>3. d = 1 => y.last = TRUE
    BY <1>1, <1>2, <2>1
  <2> QED
    BY <1>3, <1>5, <2>2, <2>3
<1> QED
  BY <1>4, <1>5

\* What is in step is told apart by its first part alone.
LEMMA PlacesInStep ==
  ASSUME NEW s \in Seq(Part), InStep(s), NEW i \in 1..Len(s), NEW j \in 1..Len(s), i <= j
  PROVE  /\ s[i].n <= s[j].n
         /\ s[i].last /\ i < j => s[i].n < s[j].n
         /\ j = i + 1 => s[j] = IF s[i].last THEN [n |-> s[i].n + 1, last |-> FALSE]
                                ELSE [n |-> s[i].n, last |-> TRUE]
<1>1. s[i] \in Part /\ s[j] \in Part
  BY ElementOfSeq
<1>2. Place(s[j]) - Place(s[i]) = j - i
  BY DEF InStep
<1>3. j - i \in Nat /\ (i < j => j - i > 0) /\ (j = i + 1 => j - i = 1)
  OBVIOUS
<1> QED
  BY <1>1, <1>2, <1>3, PlacesCompare

-----------------------------------------------------------------------------
(***************************************************************************)
(* What the actions are made of.                                           *)
(***************************************************************************)

\* A record of the other end: its times by the clock over there.
LEMMA RecordOfNow ==
  ASSUME TypeOK, NEW k \in {"ready", "update"}, NEW m \in Record(k)
  PROVE  m \in Said /\ m.kind = k /\ m.at - skew \in 0..now
         /\ (k = "ready" => m.clock - skew = now)
<1>1. now \in Nat /\ now >= 1 /\ skew \in Int /\ skew >= -1 /\ Ages \subseteq Nat
  BY ClockAssumption DEF TypeOK
<1>2. PICK a \in Ages : /\ a <= now /\ a <= FarNow
                        /\ m = [kind |-> k, at |-> FarNow - a,
                                clock |-> IF k = "ready" THEN FarNow ELSE 0]
  BY DEF Record
<1>3. FarNow \in Nat /\ FarNow = now + skew /\ a \in Nat
  BY <1>1, <1>2 DEF FarNow
<1>4. FarNow - a \in Nat
  BY <1>2, <1>3
<1>5. m \in Said
  BY <1>2, <1>3, <1>4 DEF Said
<1>6. m.at - skew \in 0..now
  BY <1>1, <1>2, <1>3
<1>7. k = "ready" => m.clock - skew = now
  BY <1>1, <1>2, <1>3
<1> QED
  BY <1>2, <1>5, <1>6, <1>7

LEMMA BareIsSaid == \A k \in {"refused", "bye"} : Bare(k) \in Said /\ Bare(k).kind = k
  BY DEF Bare, Said

\* Sending leaves a longer list of what was said, and puts a line on the wire.
LEMMA SendStep ==
  ASSUME TypeOK, Len(said) < MaxSaid, NEW m \in Said, Send(m)
  PROVE  /\ said' \in Seq(Said) /\ Len(said') = Len(said) + 1
         /\ said'[Len(said) + 1] = m
         /\ \A n \in 1..Len(said) : said'[n] = said[n]
         /\ wire' = wire \o Line(Len(said) + 1) /\ wire' \in Seq(Part)
         /\ UNCHANGED <<buf, part>>
<1>1. said \in Seq(Said) /\ wire \in Seq(Part)
  BY DEF TypeOK, Said
<1>2. said' = Append(said, m) /\ wire' = wire \o Line(Len(said')) /\ UNCHANGED <<buf, part>>
  BY DEF Send
<1>3. said' \in Seq(Said) /\ Len(said') = Len(said) + 1 /\ said'[Len(said) + 1] = m
      /\ \A n \in 1..Len(said) : said'[n] = said[n]
  BY <1>1, <1>2, AppendProperties
<1>4. Len(said) + 1 \in 1..MaxSaid
  BY <1>1, BoundAssumption
<1>5. Line(Len(said) + 1) \in Seq(Part)
  BY <1>4, LineIsParts
<1>6. wire \o Line(Len(said) + 1) \in Seq(Part)
  BY <1>1, <1>5, ConcatProperties
<1> QED
  BY <1>2, <1>3, <1>6

LEMMA TranslateType ==
  ASSUME now \in Nat, NEW at \in Nat, NEW off \in Int
  PROVE  Translate(at, off) \in Nat /\ Translate(at, off) <= now
  BY DEF Translate

LEMMA OffsetType ==
  ASSUME NEW a \in Int, NEW b \in Int, NEW c \in Int
  PROVE  ClockOffset(a, b, c) \in Int
  BY DEF ClockOffset

\* Where a line ends that begins no more than one part back.
LEMMA FirstLineEnd ==
  ASSUME NEW s \in Seq(Part), InStep(s), HasLine(s)
  PROVE  /\ LineEnd(s) \in 1..Len(s) /\ s[LineEnd(s)].last /\ LineEnd(s) <= 2
         /\ \A j \in 1..LineEnd(s) - 1 : ~s[j].last
<1>1. PICK i \in 1..Len(s) : s[i].last
  BY DEF HasLine
<1>2. \E e \in 1..Len(s) : e <= 2 /\ s[e].last /\ \A j \in 1..e - 1 : ~s[j].last
  <2>1. CASE s[1].last
    BY <1>1, <2>1
  <2>2. CASE ~s[1].last
    <3>1. 1 \in 1..Len(s) /\ 2 \in 1..Len(s)
      BY <1>1, <2>2
    <3>2. s[2].last
      <4>1. 1 <= 2 /\ 2 = 1 + 1
        OBVIOUS
      <4>2. s[2] = IF s[1].last THEN [n |-> s[1].n + 1, last |-> FALSE]
                   ELSE [n |-> s[1].n, last |-> TRUE]
        BY <3>1, <4>1, PlacesInStep, Zenon
      <4> QED
        BY <2>2, <4>2
    <3> QED
      BY <2>2, <3>1, <3>2
  <2> QED
    BY <2>1, <2>2
<1>3. PICK e \in 1..Len(s) : e <= 2 /\ s[e].last /\ \A j \in 1..e - 1 : ~s[j].last
  BY <1>2
<1>4. LineEnd(s) \in 1..Len(s) /\ s[LineEnd(s)].last /\ \A j \in 1..LineEnd(s) - 1 : ~s[j].last
  BY <1>3 DEF LineEnd
<1>5. LineEnd(s) <= e
  BY <1>3, <1>4
<1> QED
  BY <1>3, <1>4, <1>5

-----------------------------------------------------------------------------
(***************************************************************************)
(* What is pending, as it grows and is taken.                              *)
(***************************************************************************)

LEMMA Concat3 ==
  ASSUME NEW a \in Seq(Part), NEW b \in Seq(Part), NEW c \in Seq(Part)
  PROVE  /\ a \o b \o c \in Seq(Part)
         /\ Len(a \o b \o c) = Len(a) + Len(b) + Len(c)
         /\ \A i \in 1..Len(a) : (a \o b \o c)[i] = a[i]
         /\ \A i \in 1..Len(b) : (a \o b \o c)[Len(a) + i] = b[i]
         /\ \A i \in 1..Len(c) : (a \o b \o c)[Len(a) + Len(b) + i] = c[i]
<1>1. a \o b \in Seq(Part) /\ Len(a \o b) = Len(a) + Len(b)
      /\ \A i \in 1..Len(a) + Len(b) : (a \o b)[i] = IF i <= Len(a) THEN a[i] ELSE b[i - Len(a)]
  BY ConcatProperties
<1>2. /\ (a \o b) \o c \in Seq(Part)
      /\ Len((a \o b) \o c) = Len(a \o b) + Len(c)
      /\ \A i \in 1..Len(a \o b) + Len(c) :
           ((a \o b) \o c)[i] = IF i <= Len(a \o b) THEN (a \o b)[i] ELSE c[i - Len(a \o b)]
  BY <1>1, ConcatProperties
<1>3. Len(a) \in Nat /\ Len(b) \in Nat /\ Len(c) \in Nat
  OBVIOUS
<1> DEFINE ab == a \o b
           abc == (a \o b) \o c
<1> HIDE DEF ab, abc
<1>4. /\ Len(ab) = Len(a) + Len(b) /\ Len(abc) = Len(ab) + Len(c)
      /\ \A i \in 1..Len(a) + Len(b) : ab[i] = IF i <= Len(a) THEN a[i] ELSE b[i - Len(a)]
      /\ \A i \in 1..Len(ab) + Len(c) : abc[i] = IF i <= Len(ab) THEN ab[i] ELSE c[i - Len(ab)]
  BY <1>1, <1>2 DEF ab, abc
<1>5. \A i \in 1..Len(a) : abc[i] = a[i]
  BY <1>3, <1>4
<1>6. \A i \in 1..Len(b) : abc[Len(a) + i] = b[i]
  BY <1>3, <1>4
<1>7. \A i \in 1..Len(c) : abc[Len(a) + Len(b) + i] = c[i]
  BY <1>3, <1>4
<1> QED
  BY <1>2, <1>4, <1>5, <1>6, <1>7 DEF ab, abc

\* The read in progress is gone, and k parts of what has arrived are.
LEMMA WhatIsLeft ==
  ASSUME NEW a \in Seq(Part), NEW b \in Seq(Part), NEW c \in Seq(Part), NEW k \in 0..Len(b)
  PROVE  LET t == <<>> \o SubSeq(b, k + 1, Len(b)) \o c
         IN  /\ t \in Seq(Part)
             /\ Len(t) = Len(a \o b \o c) - (Len(a) + k)
             /\ \A i \in 1..Len(t) : t[i] = (a \o b \o c)[Len(a) + k + i]
<1> DEFINE r == SubSeq(b, k + 1, Len(b))
           e == <<>>
           t == e \o r \o c
<1>1. r \in Seq(Part) /\ Len(r) = Len(b) - k /\ \A i \in 1..Len(b) - k : r[i] = b[k + i]
  BY FrontAndRest
<1>2. e \in Seq(Part) /\ Len(e) = 0
  OBVIOUS
<1> HIDE DEF r, e
<1>3. /\ t \in Seq(Part) /\ Len(t) = Len(e) + Len(r) + Len(c)
      /\ \A i \in 1..Len(r) : t[Len(e) + i] = r[i]
      /\ \A i \in 1..Len(c) : t[Len(e) + Len(r) + i] = c[i]
  <2>1. e \in Seq(Part)
    BY <1>2
  <2>2. r \in Seq(Part)
    BY <1>1
  <2> QED
    BY <2>1, <2>2, Concat3
<1> DEFINE s == a \o b \o c
<1>4. /\ Len(s) = Len(a) + Len(b) + Len(c)
      /\ \A i \in 1..Len(b) : s[Len(a) + i] = b[i]
      /\ \A i \in 1..Len(c) : s[Len(a) + Len(b) + i] = c[i]
  BY Concat3
<1>5. Len(a) \in Nat /\ Len(b) \in Nat /\ Len(c) \in Nat
  OBVIOUS
<1> HIDE DEF t, s
<1>6. Len(t) = Len(b) - k + Len(c) /\ Len(t) = Len(s) - (Len(a) + k)
  BY <1>1, <1>2, <1>3, <1>4, <1>5
<1>7. ASSUME NEW i \in 1..Len(t) PROVE t[i] = s[Len(a) + k + i]
  <2>1. CASE i <= Len(b) - k
    <3>1. t[i] = r[i] /\ r[i] = b[k + i]
      BY <1>1, <1>2, <1>3, <1>5, <1>6, <2>1
    <3>2. s[Len(a) + (k + i)] = b[k + i]
      BY <1>4, <1>5, <2>1
    <3> QED
      BY <1>5, <3>1, <3>2
  <2>2. CASE i > Len(b) - k
    <3>1. i - (Len(b) - k) \in 1..Len(c)
      BY <1>5, <1>6, <2>2
    <3>2. t[0 + (Len(b) - k) + (i - (Len(b) - k))] = c[i - (Len(b) - k)]
      BY <1>1, <1>2, <1>3, <3>1
    <3>3. s[Len(a) + Len(b) + (i - (Len(b) - k))] = c[i - (Len(b) - k)]
      BY <1>4, <3>1
    <3>4. 0 + (Len(b) - k) + (i - (Len(b) - k)) = i
          /\ Len(a) + Len(b) + (i - (Len(b) - k)) = Len(a) + k + i
      BY <1>5
    <3> QED
      BY <3>2, <3>3, <3>4
  <2> QED
    BY <1>5, <1>6, <2>1, <2>2
<1> QED
  BY <1>3, <1>6, <1>7 DEF t, s, r, e

\* A message is sent.
LEMMA FitsSent ==
  ASSUME NEW s \in Seq(Part), NEW l \in 0..MaxSaid - 1, NEW m \in 0..l, Fits(s, m, l, TRUE),
         NEW open \in BOOLEAN
  PROVE  Fits(s \o Line(l + 1), m, l + 1, open)
<1> DEFINE t == s \o Line(l + 1)
<1>1. l \in Nat /\ l + 1 \in 1..MaxSaid /\ m \in Nat /\ m <= l
  BY BoundAssumption
<1>2. Len(s) \in Nat /\ (s = <<>> <=> Len(s) = 0)
  BY EmptySeq
<1>3. s # <<>> => s[Len(s)] = [n |-> l, last |-> TRUE]
  BY DEF Fits
<1>4. InStep(s) /\ \A i \in 1..Len(s) : s[i].n \in m + 1 .. l
  BY DEF Fits
<1>5. /\ InStep(t) /\ t \in Seq(Part) /\ Len(t) = Len(s) + 2
      /\ t[Len(s) + 2] = [n |-> l + 1, last |-> TRUE]
      /\ t[Len(s) + 1] = [n |-> l + 1, last |-> FALSE]
      /\ \A i \in 1..Len(s) : t[i] = s[i]
  BY <1>3, <1>4, LineInStep, Zenon
<1> HIDE DEF t
<1>6. \A i \in 1..Len(t) : t[i].n \in m + 1 .. l + 1
  <2> SUFFICES ASSUME NEW i \in 1..Len(t) PROVE t[i].n \in m + 1 .. l + 1
    OBVIOUS
  <2>1. i \in 1..Len(s) \/ i = Len(s) + 1 \/ i = Len(s) + 2
    BY <1>2, <1>5
  <2> QED
    BY <1>1, <1>4, <1>5, <2>1
<1>7. m > 1 => t[1].n = m + 1
  <2>1. CASE s = <<>>
    <3>1. m > 1 => m = l
      BY <1>1, <2>1 DEF Fits
    <3> QED
      BY <1>2, <1>5, <2>1, <3>1
  <2>2. CASE s # <<>>
    <3>1. m > 1 => s[1].n = m + 1
      BY <2>2 DEF Fits
    <3>2. 1 \in 1..Len(s)
      BY <1>2, <2>2
    <3> QED
      BY <1>5, <3>1, <3>2
  <2> QED
    BY <2>1, <2>2
<1>8. t # <<>> /\ t[Len(t)] = [n |-> l + 1, last |-> TRUE]
  BY <1>2, <1>5
<1> QED
  BY <1>5, <1>6, <1>7, <1>8 DEF Fits, t

\* The end of it is lost.
LEMMA FitsCut ==
  ASSUME NEW s \in Seq(Part), NEW m, NEW l, NEW open, Fits(s, m, l, open),
         NEW t \in Seq(Part), Len(t) <= Len(s), \A i \in 1..Len(t) : t[i] = s[i]
  PROVE  Fits(t, m, l, FALSE)
<1>1. InStep(t)
  <2>1. 0 \in Nat /\ Len(s) \in Nat /\ Len(t) \in Nat /\ 0 + Len(t) <= Len(s)
        /\ \A i \in 1..Len(t) : t[i] = s[0 + i]
    OBVIOUS
  <2>2. InStep(s)
    BY DEF Fits
  <2> QED
    BY <2>1, <2>2, StretchInStep, Zenon
<1>2. \A i \in 1..Len(t) : t[i].n \in m + 1 .. l
  BY DEF Fits
<1>3. t # <<>> => s # <<>> /\ t[1] = s[1]
  BY EmptySeq
<1> QED
  BY <1>1, <1>2, <1>3 DEF Fits

\* The answer has been taken, and what was read with it is gone.
LEMMA FitsAnswered ==
  ASSUME NEW s \in Seq(Part), NEW l \in Nat, NEW open \in BOOLEAN, Fits(s, 0, l, open),
         NEW d \in 1..Len(s), NEW i \in 1..d, s[i].last,
         NEW t \in Seq(Part), Len(t) = Len(s) - d, \A j \in 1..Len(t) : t[j] = s[d + j]
  PROVE  Fits(t, 1, l, open)
<1>1. Len(s) \in Nat /\ Len(t) \in Nat /\ d \in Nat /\ (t = <<>> <=> Len(t) = 0) /\ s # <<>>
  BY EmptySeq
<1>2. InStep(s) /\ \A j \in 1..Len(s) : s[j].n \in 1..l
  BY DEF Fits
<1>3. InStep(t)
  <2>1. d + Len(t) <= Len(s)
    BY <1>1
  <2> QED
    BY <1>1, <1>2, <2>1, StretchInStep, Zenon
<1>4. ASSUME NEW j \in 1..Len(t) PROVE t[j].n \in 2..l
  <2>1. i \in 1..Len(s) /\ d + j \in 1..Len(s) /\ i < d + j /\ i <= d + j
    BY <1>1
  <2>2. s[i].n < s[d + j].n
    BY <1>2, <2>1, PlacesInStep
  <2> QED
    BY <1>2, <2>1, <2>2
<1>5. open => IF t = <<>> THEN 1 \in {0, 1, l} ELSE t[Len(t)] = [n |-> l, last |-> TRUE]
  <2>1. t # <<>> => t[Len(t)] = s[Len(s)]
    BY <1>1
  <2>2. open => s[Len(s)] = [n |-> l, last |-> TRUE]
    BY <1>1 DEF Fits
  <2> QED
    BY <2>1, <2>2
<1> QED
  BY <1>3, <1>4, <1>5 DEF Fits

\* An update has been taken.
LEMMA FitsUpdated ==
  ASSUME NEW s \in Seq(Part), NEW l \in Nat, NEW m \in Nat, NEW open \in BOOLEAN,
         Fits(s, m, l, open),
         NEW d \in 1..Len(s), s[d].last,
         NEW t \in Seq(Part), Len(t) = Len(s) - d, \A j \in 1..Len(t) : t[j] = s[d + j]
  PROVE  Fits(t, s[d].n, l, open)
<1>1. Len(s) \in Nat /\ Len(t) \in Nat /\ d \in Nat /\ (t = <<>> <=> Len(t) = 0) /\ s # <<>>
  BY EmptySeq
<1>2. InStep(s) /\ \A j \in 1..Len(s) : s[j].n \in m + 1 .. l
  BY DEF Fits
<1>3. InStep(t)
  <2>1. d + Len(t) <= Len(s)
    BY <1>1
  <2> QED
    BY <1>1, <1>2, <2>1, StretchInStep, Zenon
<1>4. ASSUME NEW j \in 1..Len(t) PROVE t[j].n \in s[d].n + 1 .. l
  <2>1. d + j \in 1..Len(s) /\ d < d + j /\ d <= d + j
    BY <1>1
  <2>2. s[d].n < s[d + j].n
    BY <1>2, <2>1, PlacesInStep
  <2> QED
    BY <1>2, <2>1, <2>2
<1>5. t # <<>> => t[1].n = s[d].n + 1
  <2> SUFFICES ASSUME t # <<>> PROVE t[1].n = s[d].n + 1
    OBVIOUS
  <2>1. 1 \in 1..Len(t) /\ d + 1 \in 1..Len(s) /\ d <= d + 1
    BY <1>1
  <2>2. s[d + 1] = [n |-> s[d].n + 1, last |-> FALSE]
    BY <1>2, <2>1, PlacesInStep
  <2> QED
    BY <2>1, <2>2
<1>6. open => IF t = <<>> THEN s[d].n \in {0, 1, l} ELSE t[Len(t)] = [n |-> l, last |-> TRUE]
  <2>1. t # <<>> => t[Len(t)] = s[Len(s)]
    BY <1>1
  <2>2. open => s[Len(s)] = [n |-> l, last |-> TRUE]
    BY <1>1 DEF Fits
  <2>3. t = <<>> => d = Len(s)
    BY <1>1
  <2> QED
    BY <2>1, <2>2, <2>3
<1> QED
  BY <1>3, <1>4, <1>5, <1>6 DEF Fits

\* A part of a line has been dropped: there was no more than one.
LEMMA FitsDropped ==
  ASSUME NEW s \in Seq(Part), NEW l \in Nat, NEW m \in Nat, NEW open \in BOOLEAN,
         Fits(s, m, l, open),
         NEW d \in 1..Len(s), \A i \in 1..d : ~s[i].last,
         NEW t \in Seq(Part), Len(t) = Len(s) - d, \A j \in 1..Len(t) : t[j] = s[d + j]
  PROVE  Fits(t, m, l, open)
<1>1. Len(s) \in Nat /\ Len(t) \in Nat /\ d \in Nat /\ (t = <<>> <=> Len(t) = 0) /\ s # <<>>
  BY EmptySeq
<1>2. InStep(s) /\ \A j \in 1..Len(s) : s[j].n \in m + 1 .. l
  BY DEF Fits
<1>3. InStep(t)
  <2>1. d + Len(t) <= Len(s)
    BY <1>1
  <2> QED
    BY <1>1, <1>2, <2>1, StretchInStep, Zenon
<1>4. \A j \in 1..Len(t) : t[j].n \in m + 1 .. l
  <2> TAKE j \in 1..Len(t)
  <2>1. d + j \in 1..Len(s)
    BY <1>1
  <2>2. s[d + j].n \in m + 1 .. l
    BY <1>2, <2>1, Zenon
  <2>3. t[j] = s[d + j]
    OBVIOUS
  <2> QED
    BY <2>2, <2>3
<1>5. t # <<>> /\ m > 1 => t[1].n = m + 1
  <2> SUFFICES ASSUME t # <<>>, m > 1 PROVE t[1].n = m + 1
    OBVIOUS
  <2>1. 1 \in 1..Len(t) /\ 1 \in 1..Len(s) /\ 2 \in 1..Len(s) /\ 1 <= 2 /\ 2 = 1 + 1
    BY <1>1
  <2>2. s[2] = [n |-> s[1].n, last |-> TRUE]
    <3>1. s[2] = IF s[1].last THEN [n |-> s[1].n + 1, last |-> FALSE]
                 ELSE [n |-> s[1].n, last |-> TRUE]
      BY <1>2, <2>1, PlacesInStep, Zenon
    <3>2. 1 \in 1..d
      OBVIOUS
    <3> QED
      BY <3>1, <3>2
  <2>3. d = 1
    BY <1>1, <2>1, <2>2
  <2>4. s[1].n = m + 1
    BY <1>1 DEF Fits
  <2> QED
    BY <2>1, <2>2, <2>3, <2>4
<1>6. open => t # <<>> /\ t[Len(t)] = [n |-> l, last |-> TRUE]
  <2>1. t # <<>> => t[Len(t)] = s[Len(s)]
    BY <1>1
  <2>2. open => s[Len(s)] = [n |-> l, last |-> TRUE]
    BY <1>1 DEF Fits
  <2>3. t = <<>> => ~s[Len(s)].last
    BY <1>1
  <2> QED
    BY <2>1, <2>2, <2>3
<1> QED
  BY <1>3, <1>4, <1>5, <1>6 DEF Fits

-----------------------------------------------------------------------------
(***************************************************************************)
(* What the near relay takes.                                              *)
(***************************************************************************)

LEMMA PendingParts ==
  ASSUME TypeOK
  PROVE  /\ part \in Seq(Part) /\ buf \in Seq(Part) /\ wire \in Seq(Part)
         /\ Pending \in Seq(Part) /\ Len(Pending) = Len(part) + Len(buf) + Len(wire)
         /\ \A i \in 1..Len(part) : Pending[i] = part[i]
         /\ \A i \in 1..Len(buf) : Pending[Len(part) + i] = buf[i]
         /\ \A i \in 1..Len(wire) : Pending[Len(part) + Len(buf) + i] = wire[i]
<1>1. part \in Seq(Part) /\ buf \in Seq(Part) /\ wire \in Seq(Part)
  BY DEF TypeOK
<1> DEFINE s == part \o buf \o wire
<1>2. /\ s \in Seq(Part) /\ Len(s) = Len(part) + Len(buf) + Len(wire)
      /\ \A i \in 1..Len(part) : s[i] = part[i]
      /\ \A i \in 1..Len(buf) : s[Len(part) + i] = buf[i]
      /\ \A i \in 1..Len(wire) : s[Len(part) + Len(buf) + i] = wire[i]
  BY <1>1, Concat3
<1>3. Pending = s
  BY DEF Pending
<1> HIDE DEF s
<1> QED
  BY <1>1, <1>2, <1>3

\* The read in progress and the front of what has arrived are the front of what is pending.
LEMMA FrontOfPending ==
  ASSUME TypeOK, NEW k \in 0..Len(buf)
  PROVE  LET got == part \o SubSeq(buf, 1, k)
         IN  /\ got \in Seq(Part) /\ Len(got) = Len(part) + k /\ Len(got) <= Len(Pending)
             /\ \A i \in 1..Len(got) : got[i] = Pending[i]
             /\ got \o SubSeq(buf, k + 1, Len(buf)) \o wire = Pending
<1> DEFINE f == SubSeq(buf, 1, k)
           r == SubSeq(buf, k + 1, Len(buf))
           got == part \o f
<1>1. part \in Seq(Part) /\ buf \in Seq(Part) /\ wire \in Seq(Part)
      /\ Len(part) \in Nat /\ Len(buf) \in Nat /\ Len(wire) \in Nat
  BY DEF TypeOK
<1>2. f \in Seq(Part) /\ Len(f) = k /\ r \in Seq(Part) /\ f \o r = buf
      /\ \A i \in 1..k : f[i] = buf[i]
  BY <1>1, FrontAndRest
<1> HIDE DEF f, r
<1>3. got \in Seq(Part) /\ Len(got) = Len(part) + Len(f)
      /\ \A i \in 1..Len(part) + Len(f) : got[i] = IF i <= Len(part) THEN part[i] ELSE f[i - Len(part)]
  <2>1. f \in Seq(Part)
    BY <1>2
  <2> QED
    BY <1>1, <2>1, ConcatProperties
<1>4. got \o r = part \o buf
  <2>1. f \in Seq(Part) /\ r \in Seq(Part)
    BY <1>2
  <2>2. (part \o f) \o r = part \o (f \o r)
    BY <1>1, <2>1
  <2> QED
    BY <1>2, <2>2
<1> HIDE DEF got
<1>5. ASSUME NEW i \in 1..Len(got) PROVE got[i] = Pending[i]
  <2>1. CASE i <= Len(part)
    <3>1. i \in 1..Len(part) /\ i \in 1..Len(part) + Len(f)
      BY <1>1, <1>2, <1>3, <2>1
    <3>2. got[i] = part[i]
      BY <1>3, <2>1, <3>1
    <3>3. Pending[i] = part[i]
      BY <3>1, PendingParts
    <3> QED
      BY <3>2, <3>3
  <2>2. CASE i > Len(part)
    <3>1. i - Len(part) \in 1..k /\ i - Len(part) \in 1..Len(buf)
      BY <1>1, <1>2, <1>3, <2>2
    <3>2. got[i] = buf[i - Len(part)]
      BY <1>1, <1>2, <1>3, <2>2, <3>1
    <3>3. Pending[Len(part) + (i - Len(part))] = buf[i - Len(part)]
      BY <3>1, PendingParts
    <3>4. Len(part) + (i - Len(part)) = i
      BY <1>1
    <3> QED
      BY <3>2, <3>3, <3>4
  <2> QED
    BY <1>1, <1>2, <1>3, <2>1, <2>2
<1>6. Len(got) <= Len(Pending)
  BY <1>1, <1>2, <1>3, PendingParts
<1>7. got \o r \o wire = Pending
  BY <1>4 DEF Pending
<1> QED
  BY <1>2, <1>3, <1>5, <1>6, <1>7 DEF got, f, r

\* A relay that reads something has been told something.
LEMMA SomethingSaid ==
  ASSUME TypeOK, Ordered, pc \in Listening, buf # <<>>
  PROVE  /\ Pending # <<>> /\ Len(said) \in Nat /\ mirror.n < Len(said)
         /\ said \in Seq(Said) /\ 1 \in 1..Len(said)
<1>1. buf \in Seq(Part) /\ part \in Seq(Part) /\ wire \in Seq(Part)
      /\ said \in Seq(Said) /\ mirror.n \in Nat
  BY BoundAssumption DEF TypeOK, Said
<1>2. Len(buf) >= 1
  BY <1>1, EmptySeq
<1>3. 1 \in 1..Len(Pending)
  BY <1>1, <1>2, PendingParts
<1>4. Pending[1].n \in mirror.n + 1 .. Len(said)
  BY <1>3 DEF Ordered, Fits
<1>5. Len(said) \in Nat
  BY <1>1
<1>6. Pending # <<>>
  BY <1>3, PendingParts
<1> QED
  BY <1>1, <1>4, <1>5, <1>6

\* What read_line hands over begins with the line after the ones taken; when it is a message, it
\* is all of that line.
LEMMA LineTaken ==
  ASSUME TypeOK, Ordered, pc = "loop", buf # <<>>, HasLine(buf)
  PROVE  LET e == LineEnd(buf)
             line == part \o SubSeq(buf, 1, e)
             d == Len(part) + e
         IN  /\ e \in 0..Len(buf) /\ d \in 1..Len(Pending) /\ Pending[d].last
             /\ line[1] = Pending[1]
             /\ line[1].n \in mirror.n + 1 .. Len(said)
             /\ mirror.n > 1 => line[1].n = mirror.n + 1
             /\ Parses(line) => Pending[d].n = line[1].n
<1> DEFINE e == LineEnd(buf)
           line == part \o SubSeq(buf, 1, e)
           d == Len(part) + e
<1>1. part \in Seq(Part) /\ buf \in Seq(Part) /\ wire \in Seq(Part)
      /\ Len(part) \in Nat /\ Len(buf) \in Nat /\ Len(wire) \in Nat
  BY DEF TypeOK
<1>2. Fits(Pending, mirror.n, Len(said), far # "gone")
  BY DEF Ordered, Listening
<1>3. InStep(buf)
  <2>1. Len(part) + Len(buf) <= Len(Pending) /\ Len(Pending) \in Nat
        /\ \A i \in 1..Len(buf) : buf[i] = Pending[Len(part) + i]
    BY <1>1, PendingParts
  <2>2. InStep(Pending)
    BY <1>2 DEF Fits
  <2> QED
    BY <1>1, <2>1, <2>2, StretchInStep, Zenon
<1>4. e \in 1..Len(buf) /\ buf[e].last
  BY <1>1, <1>3, FirstLineEnd
<1> HIDE DEF e
<1>5. e \in 0..Len(buf)
  BY <1>4
<1>6. Len(line) = Len(part) + e /\ Len(line) <= Len(Pending) /\ line \in Seq(Part)
      /\ \A i \in 1..Len(line) : line[i] = Pending[i]
  BY <1>5, FrontOfPending
<1> HIDE DEF line
<1>7. d \in 1..Len(Pending) /\ d \in 1..Len(line) /\ 1 \in 1..Len(line) /\ 1 \in 1..Len(Pending)
  BY <1>1, <1>4, <1>6, PendingParts
<1>8. Pending[d].last
  BY <1>4, PendingParts
<1>9. line[1] = Pending[1] /\ line[d] = Pending[d]
  BY <1>6, <1>7
<1>10. line[1].n \in mirror.n + 1 .. Len(said) /\ (mirror.n > 1 => line[1].n = mirror.n + 1)
  <2>1. Pending # <<>>
    BY <1>7, PendingParts
  <2> QED
    BY <1>2, <1>7, <1>9, <2>1 DEF Fits
<1>11. ASSUME Parses(line) PROVE Pending[d].n = line[1].n
  <2>1. line = Line(line[1].n)
    BY <1>11 DEF Parses
  <2>2. line[1] \in Part
    BY <1>6, <1>7, ElementOfSeq
  <2>3. line[1].n \in 1..MaxSaid
    BY <2>2 DEF Part
  <2>4. Len(line) = 2 /\ line[2] = [n |-> line[1].n, last |-> TRUE]
    BY <2>1, <2>3, LineIsParts
  <2>5. d = 2
    BY <1>6, <2>4
  <2> QED
    BY <1>9, <2>4, <2>5
<1> QED
  BY <1>5, <1>7, <1>8, <1>9, <1>10, <1>11 DEF line, e

-----------------------------------------------------------------------------
(***************************************************************************)
(* Types.                                                                  *)
(***************************************************************************)

LEMMA InitStep == Init => IInv
<1> SUFFICES ASSUME Init PROVE IInv
  OBVIOUS
<1> USE PreambleAssumption, ClockAssumption, BoundAssumption DEF Init
<1>1. TypeOK
  BY DEF TypeOK, NoMirror
<1>2. Pending = <<>>
  BY DEF Pending
<1>3. Searching
  <2>1. Len(seen) = 0 /\ Len(Preamble) \in Nat /\ Len(Preamble) > 0
    BY EmptySeq
  <2> QED
    BY <2>1 DEF Searching
<1>4. Phases /\ Told /\ Ordered
  BY <1>2 DEF Phases, Told, Ordered, Listening, Unasked, NoMirror
<1>5. Clocked /\ OffsetsWithinLatency /\ StampsHonest /\ ByeMeansAll
  BY DEF Clocked, OffsetsWithinLatency, StampsHonest, ByeMeansAll, NoMirror
<1>6. PreambleJudged
  BY DEF PreambleJudged
<1> QED
  BY <1>1, <1>3, <1>4, <1>5, <1>6 DEF IInv

\* What is sent keeps its type, and so do the queues.
LEMMA SendType ==
  ASSUME TypeOK, Len(said) < MaxSaid, NEW m \in Said, Send(m)
  PROVE  /\ said' \in Seq([kind : {"ready", "refused", "update", "bye"}, at : Nat, clock : Nat])
         /\ Len(said') <= MaxSaid
         /\ wire' \in Seq(Part) /\ buf' \in Seq(Part) /\ part' \in Seq(Part)
<1>1. Len(said) \in Nat /\ MaxSaid \in Nat
  BY BoundAssumption DEF TypeOK
<1> QED
  BY <1>1, SendStep DEF TypeOK, Said

LEMMA NearTypes == IInv /\ (Near \/ Preempt) => TypeOK'
<1> SUFFICES ASSUME IInv, Near \/ Preempt PROVE TypeOK'
  OBVIOUS
<1> USE DEF Ended
<1>1. TypeOK /\ Ordered /\ now \in Nat /\ mirror.n \in Nat /\ sentAt \in Nat
  BY BoundAssumption, ClockAssumption DEF IInv, TypeOK
<1>2. CASE ReadByte
  <2>1. CASE io # <<>>
    <3>1. Head(io) \in STRING /\ Tail(io) \in Seq(STRING)
      BY <1>1, <2>1, HeadTailProperties DEF TypeOK
    <3>2. seen' \in Seq(STRING) /\ io' \in Seq(STRING)
      <4>1. seen' = Append(seen, Head(io)) /\ io' = Tail(io)
        BY <1>2, <2>1 DEF ReadByte
      <4>2. seen \in Seq(STRING)
        BY <1>1 DEF TypeOK
      <4> QED
        BY <3>1, <4>1, <4>2, AppendProperties
    <3>3. pc' \in {"preamble", "greet", "noisy", "stranger"}
      BY <1>2, <2>1 DEF ReadByte, Verdict
    <3> QED
      BY <1>1, <1>2, <3>2, <3>3 DEF TypeOK, ReadByte, clocks, farend, stream
  <2>2. CASE io = <<>>
    BY <1>1, <1>2, <2>2 DEF TypeOK, ReadByte, preface, clocks, farend, stream
  <2> QED
    BY <2>1, <2>2
<1>3. CASE Greet
  BY <1>1, <1>3, ClockAssumption DEF TypeOK, Greet, preface, farend, stream
<1>4. CASE Recv
  <2>1. PICK k \in 1..Len(buf) :
          /\ buf' = SubSeq(buf, k + 1, Len(buf))
          /\ \/ /\ part' = part \o SubSeq(buf, 1, k)
                /\ UNCHANGED <<pc, offset, mirror>>
             \/ /\ part' = <<>>
                /\ offset' = [offset EXCEPT !["near"] = ClockOffset(sentAt, now, said[1].clock)]
                /\ mirror' = Shows(1, offset'["near"])
                /\ pc' = "loop"
             \/ /\ part' = <<>>
                /\ pc' = "refused"
                /\ UNCHANGED <<offset, mirror>>
    BY <1>4 DEF Recv
  <2>2. buf' \in Seq(Part) /\ part' \in Seq(Part)
    <3>1. k \in 0..Len(buf) /\ buf \in Seq(Part)
      BY <1>1 DEF TypeOK
    <3>2. SubSeq(buf, k + 1, Len(buf)) \in Seq(Part)
      BY <3>1, FrontAndRest
    <3>3. part \o SubSeq(buf, 1, k) \in Seq(Part)
      BY <1>1, <3>1, FrontOfPending
    <3>4. part' = part \o SubSeq(buf, 1, k) \/ part' = <<>>
      BY <2>1
    <3>5. <<>> \in Seq(Part)
      OBVIOUS
    <3> QED
      BY <2>1, <3>2, <3>3, <3>4, <3>5, Zenon
  <2>3. offset' \in [{"near", "far"} -> Int] /\ mirror' \in [n : 0..MaxSaid, at : Nat]
    <3>1. said[1] \in Said
      <4>1. said \in Seq(Said) /\ 1 \in 1..Len(said)
        BY <1>1, <1>4, SomethingSaid DEF Recv, Listening
      <4> QED
        BY <4>1, ElementOfSeq
    <3>2. ClockOffset(sentAt, now, said[1].clock) \in Int
      <4>1. sentAt \in Int /\ now \in Int /\ said[1].clock \in Int
        BY <1>1, <3>1 DEF Said
      <4> QED
        BY <4>1, OffsetType
    <3>3. offset \in [{"near", "far"} -> Int] /\ mirror \in [n : 0..MaxSaid, at : Nat]
      BY <1>1 DEF TypeOK
    <3>4. ASSUME NEW f \in Int PROVE Shows(1, f) \in [n : 0..MaxSaid, at : Nat]
      <4>1. Translate(said[1].at, f) \in Nat
        BY <1>1, <3>1, <3>4, TranslateType DEF Said
      <4> QED
        BY <4>1, BoundAssumption DEF Shows
    <3> QED
      BY <2>1, <3>2, <3>3, <3>4
  <2>4. pc' \in {"await", "loop", "refused"}
    BY <1>4, <2>1 DEF Recv
  <2> QED
    BY <1>1, <1>4, <2>2, <2>3, <2>4 DEF TypeOK, Recv, preface, farend
<1>5. CASE RecvEnd
  BY <1>1, <1>5 DEF TypeOK, RecvEnd, preface, clocks, farend, stream
<1>6. CASE ReadLine
  <2>1. CASE ~HasLine(buf)
    <3>1. part \o buf \in Seq(Part)
      BY <1>1, ConcatProperties DEF TypeOK
    <3>2. part' = part \o buf /\ buf' = <<>>
          /\ UNCHANGED <<pc, mirror, preface, greeting, clocks, farend, wire>>
      BY <1>6, <2>1 DEF ReadLine
    <3>3. <<>> \in Seq(Part)
      OBVIOUS
    <3> QED
      BY <1>1, <3>1, <3>2, <3>3 DEF TypeOK, preface, clocks, farend
  <2>2. CASE HasLine(buf)
    <3> DEFINE e == LineEnd(buf)
               line == part \o SubSeq(buf, 1, e)
    <3>0. /\ part' = <<>> /\ buf' = SubSeq(buf, e + 1, Len(buf)) /\ Take(line)
          /\ UNCHANGED <<preface, greeting, clocks, farend, wire>>
      BY <1>6, <2>2 DEF ReadLine
    <3>1. e \in 0..Len(buf) /\ line[1].n \in mirror.n + 1 .. Len(said)
      BY <1>1, <1>6, <2>2, LineTaken DEF ReadLine
    <3>2. SubSeq(buf, e + 1, Len(buf)) \in Seq(Part)
      BY <1>1, <3>1, FrontAndRest DEF TypeOK
    <3>3. buf' \in Seq(Part) /\ part' \in Seq(Part)
      BY <3>0, <3>2
    <3> HIDE DEF line, e
    <3>5. line[1].n \in 1..Len(said) /\ Len(said) <= MaxSaid /\ said \in Seq(Said)
      <4>1. Len(said) <= MaxSaid /\ said \in Seq(Said)
        BY <1>1 DEF TypeOK, Said
      <4> QED
        BY <1>1, <3>1, <4>1
    <3>6. Shows(line[1].n, offset["near"]) \in [n : 0..MaxSaid, at : Nat]
      <4>1. said[line[1].n] \in Said /\ offset["near"] \in Int
        BY <1>1, <3>5, ElementOfSeq DEF TypeOK
      <4>2. Translate(said[line[1].n].at, offset["near"]) \in Nat
        BY <1>1, <4>1, TranslateType DEF Said
      <4> QED
        BY <3>5, <4>2, BoundAssumption DEF Shows
    <3>7. mirror' \in [n : 0..MaxSaid, at : Nat] /\ pc' \in {"loop", "bye", "failed"}
      BY <1>1, <1>6, <3>0, <3>6 DEF Take, TypeOK, ReadLine
    <3> QED
      BY <1>1, <3>0, <3>3, <3>7 DEF TypeOK, preface, clocks, farend
  <2> QED
    BY <2>1, <2>2
<1>7. CASE ReadEnd
  BY <1>1, <1>7 DEF TypeOK, ReadEnd, preface, clocks, farend, stream
<1>8. CASE Preempt
  BY <1>1, <1>8 DEF TypeOK, Preempt, preface, clocks, farend
<1> QED
  BY <1>2, <1>3, <1>4, <1>5, <1>6, <1>7, <1>8 DEF Near

LEMMA FarTypes == IInv /\ (Far \/ Arrive \/ Tick \/ UNCHANGED vars) => TypeOK'
<1> SUFFICES ASSUME IInv, Far \/ Arrive \/ Tick \/ UNCHANGED vars PROVE TypeOK'
  OBVIOUS
<1>1. TypeOK
  BY DEF IInv
<1>2. far = "accept" => Len(said) < MaxSaid
  BY BoundAssumption DEF IInv, Phases
<1>3. CASE Refuse
  <2>1. Send(Bare("refused")) /\ Bare("refused") \in Said /\ Len(said) < MaxSaid
    BY <1>2, <1>3, BareIsSaid DEF Refuse
  <2>2. /\ said' \in Seq([kind : {"ready", "refused", "update", "bye"}, at : Nat, clock : Nat])
        /\ Len(said') <= MaxSaid
        /\ wire' \in Seq(Part) /\ buf' \in Seq(Part) /\ part' \in Seq(Part)
    BY <1>1, <2>1, SendType
  <2> QED
    BY <1>1, <1>3, <2>2 DEF TypeOK, Refuse, preface, clocks
<1>4. CASE Accept
  <2>1. PICK m \in Record("ready") : Send(m)
    BY <1>4 DEF Accept
  <2>2. m \in Said /\ Len(said) < MaxSaid
    BY <1>1, <1>2, <1>4, <2>1, RecordOfNow DEF Accept
  <2>3. /\ said' \in Seq([kind : {"ready", "refused", "update", "bye"}, at : Nat, clock : Nat])
        /\ Len(said') <= MaxSaid
        /\ wire' \in Seq(Part) /\ buf' \in Seq(Part) /\ part' \in Seq(Part)
    BY <1>1, <2>1, <2>2, SendType
  <2>4. ClockOffset(FarNow, FarNow, sentAt) \in Int
    BY <1>1, ClockAssumption, OffsetType DEF TypeOK, FarNow
  <2>5. offset' \in [{"near", "far"} -> Int]
    BY <1>1, <1>4, <2>4 DEF TypeOK, Accept
  <2> QED
    BY <1>1, <1>4, <2>3, <2>5 DEF TypeOK, Accept, preface
<1>5. CASE SendUpdate
  <2>1. PICK m \in Record("update") : Send(m)
    BY <1>5 DEF SendUpdate
  <2>2. m \in Said /\ Len(said) < MaxSaid
    BY <1>1, <1>5, <2>1, RecordOfNow DEF SendUpdate
  <2>3. /\ said' \in Seq([kind : {"ready", "refused", "update", "bye"}, at : Nat, clock : Nat])
        /\ Len(said') <= MaxSaid
        /\ wire' \in Seq(Part) /\ buf' \in Seq(Part) /\ part' \in Seq(Part)
    BY <1>1, <2>1, <2>2, SendType
  <2> QED
    BY <1>1, <1>5, <2>3 DEF TypeOK, SendUpdate, preface, clocks
<1>6. CASE SendBye
  <2>1. Send(Bare("bye")) /\ Bare("bye") \in Said /\ Len(said) < MaxSaid
    BY <1>6, BareIsSaid DEF SendBye
  <2>2. /\ said' \in Seq([kind : {"ready", "refused", "update", "bye"}, at : Nat, clock : Nat])
        /\ Len(said') <= MaxSaid
        /\ wire' \in Seq(Part) /\ buf' \in Seq(Part) /\ part' \in Seq(Part)
    BY <1>1, <2>1, SendType
  <2> QED
    BY <1>1, <1>6, <2>2 DEF TypeOK, SendBye, preface, clocks
<1>7. CASE FarDies
  <2>1. wire' \in Seq(Part)
    <3>1. PICK k \in 0..Len(wire) : wire' = SubSeq(wire, 1, k)
      BY <1>7 DEF FarDies
    <3> QED
      BY <1>1, <3>1, FrontAndRest DEF TypeOK
  <2> QED
    BY <1>1, <1>7, <2>1 DEF TypeOK, FarDies, preface, clocks
<1>8. CASE Arrive
  <2>1. PICK k \in 1..Len(wire) : /\ buf' = buf \o SubSeq(wire, 1, k)
                                  /\ wire' = SubSeq(wire, k + 1, Len(wire))
    BY <1>8 DEF Arrive
  <2>2. k \in 0..Len(wire)
    BY <1>1 DEF TypeOK
  <2>3. SubSeq(wire, 1, k) \in Seq(Part) /\ SubSeq(wire, k + 1, Len(wire)) \in Seq(Part)
    BY <1>1, <2>2, FrontAndRest DEF TypeOK
  <2>4. buf \o SubSeq(wire, 1, k) \in Seq(Part)
    BY <1>1, <2>3, ConcatProperties DEF TypeOK
  <2> QED
    BY <1>1, <1>8, <2>1, <2>3, <2>4 DEF TypeOK, Arrive, preface, clocks, farend
<1>9. CASE Tick
  BY <1>1, <1>9, ClockAssumption DEF TypeOK, Tick, preface, farend, stream
<1>10. CASE UNCHANGED vars
  BY <1>1, <1>10 DEF TypeOK, vars, preface, clocks, farend, stream
<1> QED
  BY <1>3, <1>4, <1>5, <1>6, <1>7, <1>8, <1>9, <1>10 DEF Far

-----------------------------------------------------------------------------
(***************************************************************************)
(* The preamble.                                                           *)
(***************************************************************************)

\* A window of the size of the preamble, over what has been read and over all there is.
LEMMA WindowOfFront ==
  ASSUME NEW s \in Seq(STRING), NEW t \in Seq(STRING), NEW k \in Nat,
         k + Len(Preamble) <= Len(s)
  PROVE  /\ SubSeq(s \o t, k + 1, k + Len(Preamble)) = SubSeq(s, k + 1, k + Len(Preamble))
         /\ k + Len(Preamble) <= Len(s \o t)
<1>1. Len(Preamble) \in Nat /\ Len(Preamble) > 0 /\ Len(s) \in Nat /\ Len(t) \in Nat
  BY PreambleAssumption, EmptySeq
<1>2. k + 1 \in 1..Len(s) /\ k + Len(Preamble) \in 1..Len(s)
  BY <1>1
<1>3. Len(s \o t) = Len(s) + Len(t)
  BY ConcatProperties
<1> QED
  BY <1>1, <1>2, <1>3, SubSeqOfConcat1

\* One byte more: what came is the same, and no earlier window changes.
LEMMA OneByteMore ==
  ASSUME NEW s \in Seq(STRING), NEW t \in Seq(STRING), t # <<>>
  PROVE  LET u == Append(s, Head(t))
         IN  /\ u \in Seq(STRING) /\ Tail(t) \in Seq(STRING) /\ Len(u) = Len(s) + 1
             /\ u \o Tail(t) = s \o t
             /\ \A k \in Nat : k + Len(Preamble) <= Len(s) =>
                  SubSeq(u, k + 1, k + Len(Preamble)) = SubSeq(s, k + 1, k + Len(Preamble))
<1> DEFINE h == Head(t)
           r == Tail(t)
           u == Append(s, h)
<1>1. h \in STRING /\ r \in Seq(STRING)
  BY HeadTailProperties
<1>2. u \in Seq(STRING) /\ Len(u) = Len(s) + 1 /\ u = s \o <<h>>
  BY <1>1, AppendProperties, AppendIsConcat
<1>3. t = <<h>> \o r
  BY <1>1
<1>4. <<h>> \in Seq(STRING)
  BY <1>1
<1> HIDE DEF h, r
<1>5. (s \o <<h>>) \o r = s \o (<<h>> \o r)
  BY <1>1, <1>4
<1>6. \A k \in Nat : k + Len(Preamble) <= Len(s) =>
        SubSeq(u, k + 1, k + Len(Preamble)) = SubSeq(s, k + 1, k + Len(Preamble))
  BY <1>2, <1>4, WindowOfFront
<1> QED
  BY <1>1, <1>2, <1>3, <1>5, <1>6 DEF u, r, h

LEMMA NoiseKept ==
  ASSUME UNCHANGED preface
  PROVE  Noise' = Noise /\ seen' = seen /\ io' = io
BY DEF preface, Noise, At, Came

LEMMA ByteRead ==
  ASSUME TypeOK, Searching, ReadByte, io # <<>>
  PROVE  Searching' /\ PreambleJudged'
<1> DEFINE n == Len(Preamble)
           L == Len(seen)
           W(s, k) == SubSeq(s, k + 1, k + n)
<1>1. n \in Nat /\ n > 0 /\ L \in Nat /\ Slack \in Nat
  BY PreambleAssumption, EmptySeq DEF TypeOK
<1>2. seen \in Seq(STRING) /\ io \in Seq(STRING)
  BY DEF TypeOK
<1>3. pc = "preamble" /\ seen' = Append(seen, Head(io)) /\ io' = Tail(io) /\ pc' = Verdict(seen')
  BY DEF ReadByte
<1>4. /\ seen' \in Seq(STRING) /\ io' \in Seq(STRING) /\ Len(seen') = L + 1
      /\ \A k \in Nat : k + n <= L => W(seen', k) = W(seen, k)
  BY <1>2, <1>3, OneByteMore
<1>5. L < n + Slack /\ \A k \in 0..L - n : W(seen, k) # Preamble
  BY <1>3 DEF Searching
\* An earlier occurrence would have been noticed.
<1>6. \A k \in Nat : k + n <= L => W(seen', k) # Preamble
  <2> SUFFICES ASSUME NEW k \in Nat, k + n <= L PROVE W(seen', k) # Preamble
    OBVIOUS
  <2>1. k \in 0..L - n
    BY <1>1
  <2> QED
    BY <1>4, <1>5, <2>1
<1>7. EndsWith(seen', Preamble) <=> L + 1 >= n /\ W(seen', L + 1 - n) = Preamble
  <2>1. (L + 1) - n + 1 = (L + 1 - n) + 1 /\ L + 1 = (L + 1 - n) + n
    BY <1>1
  <2> QED
    BY <1>1, <1>4, <2>1 DEF EndsWith
<1>8. \A k \in Nat : k + n <= L + 1 => (W(Came', k) = W(seen', k) /\ k + n <= Len(Came'))
  BY <1>4, WindowOfFront DEF Came
<1>9. \A k \in Nat : k \in Noise' <=> k <= Slack /\ k + n <= Len(Came') /\ W(Came', k) = Preamble
  BY <1>1 DEF Noise, At
<1>10. \A k \in Noise' : k \in Nat
  BY <1>1 DEF Noise
<1> HIDE DEF W, n, L
<1>11. CASE EndsWith(seen', Preamble)
  <2>1. L + 1 - n \in Nat /\ W(seen', L + 1 - n) = Preamble /\ (L + 1 - n) + n = L + 1
    BY <1>1, <1>7, <1>11
  <2>2. L + 1 - n <= Slack
    BY <1>1, <1>5
  <2>3. L + 1 - n \in Noise'
    BY <1>8, <1>9, <2>1, <2>2, <1>1
  <2>4. \A k \in Noise' : k >= L + 1 - n
    <3> SUFFICES ASSUME NEW k \in Noise', k < L + 1 - n PROVE FALSE
      BY <1>1, <1>10
    <3>1. k \in Nat /\ k + n <= L /\ k + n <= L + 1
      BY <1>1, <1>10
    <3> QED
      BY <1>6, <1>8, <1>9, <3>1
  <2>5. Len(seen') = n \/ Len(seen') > n
    BY <1>1, <1>4, <2>1
  <2>6. CASE Len(seen') = n
    <3>1. pc' = "greet"
      BY <1>3, <1>11, <2>6 DEF Verdict, n
    <3>2. 0 \in Noise'
      BY <1>1, <1>4, <2>3, <2>6
    <3> QED
      BY <3>1, <3>2 DEF Searching, PreambleJudged
  <2>7. CASE Len(seen') > n
    <3>1. Len(seen') # n
      BY <1>1, <1>4, <2>7
    <3>2. pc' = "noisy"
      BY <1>3, <1>11, <2>7, <3>1 DEF Verdict, n
    <3>3. Len(seen') - n > 0 /\ Len(seen') - n = L + 1 - n
      BY <1>1, <1>4, <2>7
    <3> QED
      BY <2>3, <2>4, <3>2, <3>3 DEF Searching, PreambleJudged, n
  <2> QED
    BY <2>5, <2>6, <2>7
<1>12. CASE ~EndsWith(seen', Preamble)
  <2>1. \A k \in Nat : k + n <= L + 1 => W(seen', k) # Preamble
    <3> SUFFICES ASSUME NEW k \in Nat, k + n <= L + 1 PROVE W(seen', k) # Preamble
      OBVIOUS
    <3>1. CASE k + n <= L
      BY <1>6, <3>1
    <3>2. CASE k + n > L
      <4>1. k = L + 1 - n /\ L + 1 >= n
        BY <1>1, <3>2
      <4> QED
        BY <1>7, <1>12, <4>1
    <3> QED
      BY <1>1, <3>1, <3>2
  <2>2. CASE Len(seen') >= n + Slack
    <3>1. Len(seen') = n + Slack /\ L + 1 = n + Slack
      BY <1>1, <1>4, <1>5, <2>2
    <3>2. pc' = "stranger"
      BY <1>3, <1>12, <2>2 DEF Verdict, n
    <3>3. Noise' = {}
      <4> SUFFICES ASSUME NEW k \in Noise' PROVE FALSE
        OBVIOUS
      <4>1. k \in Nat /\ k <= Slack /\ W(Came', k) = Preamble
        BY <1>9, <1>10
      <4>2. k + n <= L + 1
        BY <1>1, <3>1, <4>1
      <4> QED
        BY <1>8, <2>1, <4>1, <4>2
    <3> QED
      BY <3>1, <3>2, <3>3 DEF Searching, PreambleJudged, n
  <2>3. CASE ~(Len(seen') >= n + Slack)
    <3>1. pc' = "preamble"
      BY <1>3, <1>12, <2>3 DEF Verdict, n
    <3>2. Len(seen') < n + Slack
      BY <1>1, <1>4, <2>3
    <3>3. \A k \in 0..Len(seen') - n : W(seen', k) # Preamble
      BY <1>1, <1>4, <2>1
    <3>4. Searching'
      BY <3>2, <3>3 DEF Searching, n, W
    <3> QED
      BY <3>1, <3>4 DEF PreambleJudged
  <2> QED
    BY <2>2, <2>3
<1> QED
  BY <1>11, <1>12

LEMMA SearchStep == IInv /\ [Next]_vars => Searching' /\ PreambleJudged'
<1> SUFFICES ASSUME IInv, [Next]_vars PROVE Searching' /\ PreambleJudged'
  OBVIOUS
<1>1. TypeOK /\ Searching /\ PreambleJudged
  BY DEF IInv
<1>2. CASE ReadByte
  <2>1. CASE io # <<>>
    BY <1>1, <1>2, <2>1, ByteRead
  <2>2. CASE io = <<>>
    <3>1. pc = "preamble" /\ pc' = "closed" /\ UNCHANGED preface
      BY <1>2, <2>2 DEF ReadByte
    <3>2. Noise' = Noise /\ io' = <<>>
      BY <2>2, <3>1, NoiseKept
    <3>3. Noise = {}
      <4> SUFFICES ASSUME NEW k \in Noise PROVE FALSE
        OBVIOUS
      <4>1. Len(seen) \in Nat /\ Len(Preamble) \in Nat /\ Slack \in Nat /\ Came = seen
        BY <1>1, <2>2, PreambleAssumption, ConcatEmptySeq DEF TypeOK, Came
      <4>2. k \in 0..Len(seen) - Len(Preamble)
            /\ SubSeq(seen, k + 1, k + Len(Preamble)) = Preamble
        BY <4>1 DEF Noise, At
      <4> QED
        BY <1>1, <3>1, <4>2 DEF Searching
    <3> QED
      BY <3>1, <3>2, <3>3 DEF Searching, PreambleJudged
  <2> QED
    BY <2>1, <2>2
\* Whatever else happens, the bytes are as they were, and the verdict stands.
<1>3. ASSUME UNCHANGED preface,
             pc' = pc \/ {pc, pc'} \cap {"preamble", "noisy", "stranger", "closed"} = {}
      PROVE  Searching' /\ PreambleJudged'
  <2>1. Noise' = Noise /\ seen' = seen /\ io' = io
    BY <1>3, NoiseKept
  <2>2. CASE pc' = pc
    <3>1. Searching'
      BY <1>1, <2>1, <2>2 DEF Searching
    <3>2. PreambleJudged'
      BY <1>1, <2>1, <2>2 DEF PreambleJudged
    <3> QED
      BY <3>1, <3>2
  <2>3. CASE {pc, pc'} \cap {"preamble", "noisy", "stranger", "closed"} = {}
    <3>1. pc \notin {"preamble", "noisy", "stranger", "closed"}
          /\ pc' \notin {"preamble", "noisy", "stranger", "closed"}
      BY <2>3
    <3>2. 0 \in Noise'
      BY <1>1, <2>1, <3>1 DEF PreambleJudged
    <3> QED
      BY <3>1, <3>2 DEF Searching, PreambleJudged
  <2> QED
    BY <1>3, <2>2, <2>3
<1>4. CASE Greet \/ Recv \/ RecvEnd \/ ReadEnd
  BY <1>3, <1>4 DEF Greet, Recv, RecvEnd, ReadEnd
<1>5. CASE ReadLine
  <2>1. pc = "loop" /\ pc' \in {"loop", "bye", "failed"} /\ UNCHANGED preface
    BY <1>5 DEF ReadLine, Take
  <2> QED
    BY <1>3, <2>1
<1>6. CASE Preempt \/ Far \/ Arrive \/ Tick
  BY <1>3, <1>6 DEF Preempt, Far, Refuse, Accept, SendUpdate, SendBye, FarDies, Arrive, Tick
<1>7. CASE UNCHANGED vars
  BY <1>3, <1>7 DEF vars
<1> QED
  BY <1>2, <1>4, <1>5, <1>6, <1>7 DEF Next, Near

-----------------------------------------------------------------------------
(***************************************************************************)
(* Where the relays are and what has been said.                            *)
(***************************************************************************)

\* A relay that reads nothing yet has nothing to read.
LEMMA NothingPending ==
  ASSUME TypeOK
  PROVE  Pending = <<>> <=> part = <<>> /\ buf = <<>> /\ wire = <<>>
<1>1. part \in Seq(Part) /\ buf \in Seq(Part) /\ wire \in Seq(Part) /\ Pending \in Seq(Part)
      /\ Len(Pending) = Len(part) + Len(buf) + Len(wire)
  BY PendingParts
<1>2. \A q \in Seq(Part) : Len(q) \in Nat /\ (q = <<>> <=> Len(q) = 0)
  BY EmptySeq
<1> QED
  BY <1>1, <1>2

LEMMA PhaseStep == IInv /\ [Next]_vars => Phases'
<1> SUFFICES ASSUME IInv, [Next]_vars PROVE Phases'
  OBVIOUS
<1>1. TypeOK /\ TypeOK' /\ Phases /\ Ordered
  BY NearTypes, FarTypes DEF IInv, Next
<1>2. Len(said) \in Nat /\ mirror.n \in Nat /\ (said = <<>> <=> Len(said) = 0)
  BY <1>1, BoundAssumption DEF TypeOK
<1>3. pc \in Unasked => wire = <<>>
  BY <1>1, NothingPending DEF Phases
<1> USE DEF Unasked
<1>4. CASE ReadByte
  <2>1. pc = "preamble" /\ pc' \in Unasked
    BY <1>4 DEF ReadByte, Verdict
  <2>2. UNCHANGED <<clocks, farend, stream, mirror>> /\ Pending' = Pending
    BY <1>4 DEF ReadByte, Pending, stream
  <2> QED
    BY <1>1, <2>1, <2>2 DEF Phases, clocks, farend
<1>5. CASE Greet
  <2>1. UNCHANGED <<farend, stream, mirror>> /\ Pending' = Pending
    BY <1>5 DEF Greet, Pending, stream
  <2> QED
    BY <1>1, <1>5, <2>1 DEF Phases, Greet, farend
<1>6. CASE Recv
  <2>1. pc = "await" /\ UNCHANGED farend
        /\ \/ UNCHANGED <<pc, mirror>>
           \/ pc' = "loop" /\ mirror' = Shows(1, offset'["near"])
           \/ pc' = "refused" /\ UNCHANGED mirror
    BY <1>6 DEF Recv
  <2>2. 1 \in 1..Len(said)
    BY <1>1, <1>6, SomethingSaid DEF Recv, Listening
  <2> QED
    BY <1>1, <1>2, <2>1, <2>2 DEF Phases, Shows, farend
<1>7. CASE RecvEnd
  BY <1>1, <1>7 DEF Phases, RecvEnd, farend
<1>8. CASE ReadLine
  <2>1. CASE ~HasLine(buf)
    <3>1. pc = "loop" /\ UNCHANGED <<pc, mirror, farend>>
      BY <1>8, <2>1 DEF ReadLine
    <3> QED
      BY <1>1, <3>1 DEF Phases, farend
  <2>2. CASE HasLine(buf)
    <3> DEFINE line == part \o SubSeq(buf, 1, LineEnd(buf))
    <3>1. pc = "loop" /\ Take(line) /\ UNCHANGED farend
      BY <1>8, <2>2 DEF ReadLine
    <3>2. line[1].n \in mirror.n + 1 .. Len(said)
      BY <1>1, <1>8, <2>2, LineTaken DEF ReadLine
    <3> HIDE DEF line
    <3>3. line[1].n \in 1..Len(said)
      BY <1>2, <3>2
    <3>4. CASE pc' = "loop" /\ mirror' = Shows(line[1].n, offset["near"])
      BY <1>1, <1>2, <3>1, <3>3, <3>4 DEF Phases, Shows, farend
    <3>5. CASE pc' = "bye" /\ said[line[1].n].kind = "bye" /\ UNCHANGED mirror
      <4>1. far = "gone"
        BY <3>3, <3>5 DEF IInv, Told
      <4> QED
        BY <1>1, <1>2, <3>1, <3>5, <4>1 DEF Phases, farend
    <3>6. CASE pc' = "failed" /\ UNCHANGED mirror
      BY <1>1, <3>1, <3>6 DEF Phases, farend
    <3> QED
      BY <3>1, <3>4, <3>5, <3>6 DEF Take
  <2> QED
    BY <2>1, <2>2
<1>9. CASE ReadEnd
  BY <1>1, <1>9 DEF Phases, ReadEnd, farend
<1>10. CASE Preempt
  BY <1>1, <1>10 DEF Phases, Preempt, farend
<1>11. CASE Refuse \/ Accept
  <2>1. pc = "await" /\ pc' = "await" /\ far' \in {"up", "drain"} /\ UNCHANGED mirror
    BY <1>11 DEF Refuse, Accept
  <2>2. \E m \in Said : Send(m)
    <3>1. \A m \in Record("ready") : m \in Said
      BY <1>1, RecordOfNow
    <3> QED
      BY <1>11, <3>1, BareIsSaid DEF Refuse, Accept
  <2>3. said' # <<>>
    <3>1. Len(said) < MaxSaid
      BY <1>1, <1>2, <1>11, BoundAssumption DEF Refuse, Accept, Phases
    <3>2. Len(said') = Len(said) + 1 /\ said' \in Seq(Said)
      BY <1>1, <2>2, <3>1, SendStep
    <3> QED
      BY <1>2, <3>2
  <2>4. Len(said') \in Nat
    BY <1>1 DEF TypeOK
  <2> QED
    BY <1>1, <2>1, <2>3, <2>4 DEF Phases
<1>12. CASE SendUpdate \/ SendBye
  <2>1. far = "up" /\ far' \in {"up", "gone"} /\ UNCHANGED <<pc, mirror>>
    BY <1>12 DEF SendUpdate, SendBye
  <2>2. \E m \in Said : Send(m)
    <3>1. \A m \in Record("update") : m \in Said
      BY <1>1, RecordOfNow
    <3> QED
      BY <1>12, <3>1, BareIsSaid DEF SendUpdate, SendBye
  <2>3. said' # <<>> /\ Len(said') = Len(said) + 1
    <3>1. Len(said) < MaxSaid
      BY <1>12 DEF SendUpdate, SendBye
    <3>2. Len(said') = Len(said) + 1 /\ said' \in Seq(Said)
      BY <1>1, <2>2, <3>1, SendStep
    <3> QED
      BY <1>2, <3>2
  <2> QED
    BY <1>1, <1>2, <2>1, <2>3 DEF Phases
<1>13. CASE FarDies
  <2>1. far' = "gone" /\ UNCHANGED <<pc, said, sentAt, mirror, part, buf>>
    BY <1>13 DEF FarDies, clocks
  <2>2. pc \in Unasked => Pending' = Pending
    <3> SUFFICES ASSUME pc \in Unasked PROVE wire' = wire
      BY <2>1 DEF Pending
    <3>1. PICK k \in 0..Len(wire) : wire' = SubSeq(wire, 1, k)
      BY <1>13 DEF FarDies
    <3>2. Len(wire') = 0 /\ wire' \in Seq(Part)
      BY <1>1, <1>3, <3>1, FrontAndRest DEF TypeOK
    <3> QED
      BY <1>3, <3>2, EmptySeq
  <2> QED
    BY <1>1, <2>1, <2>2 DEF Phases
<1>14. CASE Arrive
  <2>1. UNCHANGED <<pc, said, far, sentAt, mirror>> /\ wire # <<>>
    BY <1>14 DEF Arrive, clocks, farend
  <2> QED
    BY <1>1, <1>3, <2>1 DEF Phases
<1>15. CASE Tick \/ UNCHANGED vars
  <2>1. UNCHANGED <<pc, said, far, sentAt, mirror, part, buf, wire>>
    BY <1>15 DEF Tick, vars, clocks, farend, stream
  <2> QED
    BY <1>1, <2>1 DEF Phases, Pending
<1> QED
  BY <1>4, <1>5, <1>6, <1>7, <1>8, <1>9, <1>10, <1>11, <1>12, <1>13, <1>14, <1>15
     DEF Next, Near, Far

\* All that a step may add to what has been said.
LEMMA Speaks ==
  ASSUME IInv, [Next]_vars
  PROVE  \/ UNCHANGED said
         \/ /\ Len(said) < MaxSaid /\ far \in {"accept", "up"}
            /\ UNCHANGED <<pc, mirror, part, buf, now, skew, sentAt>>
            /\ \E m \in Said :
                 /\ Send(m)
                 /\ far = "accept" => m.kind \in {"ready", "refused"} /\ pc = "await"
                 /\ far = "up" => m.kind \in {"update", "bye"}
                 /\ m.kind = "bye" => far' = "gone"
                 /\ m.kind \in {"ready", "update"} => m.at - skew \in 0..now
                 /\ m.kind = "ready" => m.clock - skew = now
<1>1. TypeOK /\ Phases
  BY DEF IInv
<1>2. far = "accept" => Len(said) < MaxSaid
  BY <1>1, BoundAssumption DEF Phases
<1>3. CASE Refuse
  <2>1. Bare("refused") \in Said /\ Bare("refused").kind = "refused"
    BY BareIsSaid
  <2>2. far = "accept" /\ pc = "await" /\ Send(Bare("refused"))
        /\ UNCHANGED <<pc, mirror, part, buf, now, skew, sentAt>>
    BY <1>3 DEF Refuse, Send, clocks
  <2> QED
    BY <1>2, <2>1, <2>2
<1>4. CASE Accept
  <2>1. PICK m \in Record("ready") : Send(m)
    BY <1>4 DEF Accept
  <2>2. m \in Said /\ m.kind = "ready" /\ m.at - skew \in 0..now /\ m.clock - skew = now
    BY <1>1, RecordOfNow
  <2>3. far = "accept" /\ pc = "await" /\ UNCHANGED <<pc, mirror, part, buf, now, skew, sentAt>>
    BY <1>4, <2>1 DEF Accept, Send
  <2> QED
    BY <1>2, <2>1, <2>2, <2>3
<1>5. CASE SendUpdate
  <2>1. PICK m \in Record("update") : Send(m)
    BY <1>5 DEF SendUpdate
  <2>2. m \in Said /\ m.kind = "update" /\ m.at - skew \in 0..now
    BY <1>1, RecordOfNow
  <2>3. far = "up" /\ Len(said) < MaxSaid
        /\ UNCHANGED <<pc, mirror, part, buf, now, skew, sentAt>>
    BY <1>5, <2>1 DEF SendUpdate, Send, clocks
  <2> QED
    BY <2>1, <2>2, <2>3
<1>6. CASE SendBye
  <2>1. Bare("bye") \in Said /\ Bare("bye").kind = "bye"
    BY BareIsSaid
  <2>2. far = "up" /\ Len(said) < MaxSaid /\ Send(Bare("bye")) /\ far' = "gone"
        /\ UNCHANGED <<pc, mirror, part, buf, now, skew, sentAt>>
    BY <1>6 DEF SendBye, Send, clocks
  <2> QED
    BY <2>1, <2>2
<1>7. CASE ReadByte \/ Greet \/ Recv \/ RecvEnd \/ ReadLine \/ ReadEnd \/ Preempt \/ FarDies
           \/ Arrive \/ Tick \/ UNCHANGED vars
  BY <1>7 DEF ReadByte, Greet, Recv, RecvEnd, ReadLine, ReadEnd, Preempt, FarDies, Arrive, Tick,
              vars, farend
<1> QED
  BY <1>3, <1>4, <1>5, <1>6, <1>7 DEF Next, Near, Far

\* Once gone, the far end stays so.
LEMMA GoneStays ==
  ASSUME [Next]_vars, far = "gone"
  PROVE  far' = "gone" /\ UNCHANGED said
BY DEF Next, Near, Far, ReadByte, Greet, Recv, RecvEnd, ReadLine, ReadEnd, Preempt, Refuse, Accept,
       SendUpdate, SendBye, FarDies, Arrive, Tick, vars, farend

LEMMA ToldStep == IInv /\ [Next]_vars => Told'
<1> SUFFICES ASSUME IInv, [Next]_vars PROVE Told'
  OBVIOUS
<1>1. TypeOK /\ Told /\ Phases
  BY DEF IInv
<1>2. CASE UNCHANGED said
  BY <1>1, <1>2, GoneStays DEF Told
<1>3. CASE ~UNCHANGED said
  <2>1. PICK m \in Said :
          /\ Send(m) /\ far \in {"accept", "up"} /\ Len(said) < MaxSaid
          /\ far = "accept" => m.kind \in {"ready", "refused"}
          /\ far = "up" => m.kind \in {"update", "bye"}
          /\ m.kind = "bye" => far' = "gone"
    BY <1>3, Speaks
  <2>2. Len(said') = Len(said) + 1 /\ said'[Len(said) + 1] = m
        /\ \A n \in 1..Len(said) : said'[n] = said[n]
    BY <1>1, <2>1, SendStep
  <2>3. Len(said) \in Nat /\ (said = <<>> <=> Len(said) = 0)
    BY <1>1 DEF TypeOK
  <2>4. (far = "accept" => Len(said) = 0) /\ (far = "up" => Len(said) > 0)
    BY <1>1, <2>3 DEF Phases
  <2>5. ASSUME NEW n \in 1..Len(said')
        PROVE  /\ n = 1 => said'[n].kind \in {"ready", "refused"}
               /\ n > 1 => said'[n].kind \in {"update", "bye"}
               /\ said'[n].kind = "bye" => n = Len(said') /\ far' = "gone"
    <3>1. CASE n \in 1..Len(said)
      <4>1. /\ n = 1 => said[n].kind \in {"ready", "refused"}
            /\ n > 1 => said[n].kind \in {"update", "bye"}
            /\ said[n].kind # "bye"
        BY <1>1, <2>1, <3>1 DEF Told
      <4> QED
        BY <2>2, <3>1, <4>1
    <3>2. CASE n = Len(said) + 1
      BY <2>1, <2>2, <2>3, <2>4, <3>2
    <3> QED
      BY <2>2, <2>3, <3>1, <3>2
  <2> QED
    BY <2>5 DEF Told
<1> QED
  BY <1>2, <1>3

-----------------------------------------------------------------------------
(***************************************************************************)
(* The order of what is pending.                                           *)
(***************************************************************************)

LEMMA OrderedSaid ==
  ASSUME IInv, Far, ~UNCHANGED said, pc \in Listening
  PROVE  Ordered'
<1>1. TypeOK /\ Ordered /\ Phases
  BY DEF IInv
<1>2. [Next]_vars
  BY DEF Next
<1>3. PICK m \in Said : Send(m) /\ Len(said) < MaxSaid /\ far \in {"accept", "up"}
                        /\ UNCHANGED <<pc, mirror, part, buf>>
  BY <1>2, Speaks
<1>4. Len(said') = Len(said) + 1 /\ wire' = wire \o Line(Len(said) + 1)
  BY <1>1, <1>3, SendStep
<1>5. Len(said) \in 0..MaxSaid - 1 /\ mirror.n \in 0..Len(said)
  BY <1>1, <1>3, BoundAssumption DEF TypeOK, Phases
<1>6. Fits(Pending, mirror.n, Len(said), TRUE)
  <2>1. Fits(Pending, mirror.n, Len(said), far # "gone")
    BY <1>1 DEF Ordered
  <2> QED
    BY <1>3, <2>1 DEF Fits
<1>7. Pending' = Pending \o Line(Len(said) + 1)
  <2>1. part \o buf \in Seq(Part) /\ wire \in Seq(Part)
    BY <1>1, ConcatProperties DEF TypeOK
  <2>2. Len(said) + 1 \in 1..MaxSaid
    BY <1>5, BoundAssumption
  <2>3. Line(Len(said) + 1) \in Seq(Part)
    BY <2>2, LineIsParts
  <2> DEFINE pb == part \o buf
             ln == Line(Len(said) + 1)
  <2>4. pb \in Seq(Part) /\ wire \in Seq(Part) /\ ln \in Seq(Part)
    BY <2>1, <2>3
  <2> HIDE DEF pb, ln
  <2>5. pb \o (wire \o ln) = (pb \o wire) \o ln
    BY <2>4
  <2> QED
    BY <1>3, <1>4, <2>5 DEF Pending, pb, ln
<1>8. Pending \in Seq(Part) /\ (far' # "gone") \in BOOLEAN
  BY <1>1, PendingParts
<1>9. Fits(Pending', mirror'.n, Len(said'), far' # "gone")
  BY <1>3, <1>4, <1>5, <1>6, <1>7, <1>8, FitsSent
<1> QED
  BY <1>1, <1>3, <1>9 DEF Ordered

\* The read in progress and the queues change places, or the wire is cut.
LEMMA OrderedMoved ==
  ASSUME IInv, [Next]_vars, pc \in Listening, UNCHANGED <<said, mirror>>,
         \/ Pending' = Pending /\ far' = far
         \/ /\ far' = "gone"
            /\ Pending' \in Seq(Part) /\ Len(Pending') <= Len(Pending)
            /\ \A i \in 1..Len(Pending') : Pending'[i] = Pending[i],
         \A i \in 1..Len(part') : ~part'[i].last
  PROVE  Ordered'
<1>1. Fits(Pending, mirror.n, Len(said), far # "gone") /\ Pending \in Seq(Part)
  BY PendingParts DEF IInv, Ordered
<1>2. CASE Pending' = Pending /\ far' = far
  BY <1>1, <1>2 DEF Ordered
<1>3. CASE /\ far' = "gone"
           /\ Pending' \in Seq(Part) /\ Len(Pending') <= Len(Pending)
           /\ \A i \in 1..Len(Pending') : Pending'[i] = Pending[i]
  <2>1. Fits(Pending', mirror.n, Len(said), FALSE)
    BY <1>1, <1>3, FitsCut
  <2> QED
    BY <1>3, <2>1 DEF Ordered
<1> QED
  BY <1>2, <1>3

LEMMA OrderedRecv ==
  ASSUME IInv, Recv
  PROVE  Ordered'
<1>1. TypeOK /\ Ordered /\ Phases /\ Phases'
  BY PhaseStep DEF IInv, Next, Near
<1>2. PICK k \in 1..Len(buf) :
        /\ buf' = SubSeq(buf, k + 1, Len(buf))
        /\ \/ /\ ~HasLine(part \o SubSeq(buf, 1, k))
              /\ part' = part \o SubSeq(buf, 1, k)
              /\ UNCHANGED <<pc, offset, mirror>>
           \/ /\ HasLine(part \o SubSeq(buf, 1, k))
              /\ part' = <<>>
              /\ mirror' = Shows(1, offset'["near"])
              /\ pc' = "loop"
           \/ /\ part' = <<>>
              /\ pc' = "refused"
              /\ UNCHANGED <<offset, mirror>>
  BY DEF Recv
<1>3. pc = "await" /\ UNCHANGED <<far, said, wire>> /\ mirror.n = 0
  BY <1>1 DEF Recv, farend, Phases
<1> DEFINE got == part \o SubSeq(buf, 1, k)
<1>4. k \in 0..Len(buf) /\ Len(part) \in Nat /\ Len(said) \in Nat
      /\ part \in Seq(Part) /\ buf \in Seq(Part) /\ wire \in Seq(Part)
  BY <1>1 DEF TypeOK
<1>5. /\ got \in Seq(Part) /\ Len(got) = Len(part) + k /\ Len(got) <= Len(Pending)
      /\ \A i \in 1..Len(got) : got[i] = Pending[i]
      /\ got \o SubSeq(buf, k + 1, Len(buf)) \o wire = Pending
  BY <1>1, <1>4, FrontOfPending
<1>6. CASE ~HasLine(got) /\ part' = got /\ UNCHANGED <<pc, offset, mirror>>
  <2>1. Pending' = Pending
    BY <1>2, <1>3, <1>5, <1>6 DEF Pending
  <2>2. \A i \in 1..Len(part') : ~part'[i].last
    BY <1>6 DEF HasLine
  <2> QED
    BY <1>3, <1>6, <2>1, <2>2, OrderedMoved DEF Next, Near, Listening
<1>7. CASE HasLine(got) /\ part' = <<>> /\ mirror' = Shows(1, offset'["near"]) /\ pc' = "loop"
  <2> DEFINE d == Len(part) + k
             t == <<>> \o SubSeq(buf, k + 1, Len(buf)) \o wire
  <2>1. Pending' = t
    BY <1>2, <1>3, <1>7 DEF Pending
  <2>2. t \in Seq(Part) /\ Len(t) = Len(Pending) - d
        /\ \A i \in 1..Len(t) : t[i] = Pending[d + i]
    BY <1>4, WhatIsLeft DEF Pending
  <2> HIDE DEF t
  <2>3. PICK i \in 1..Len(got) : got[i].last
    BY <1>7 DEF HasLine
  <2>4. d \in 1..Len(Pending) /\ i \in 1..d /\ Pending[i].last
    <3> HIDE DEF got
    <3>1. Pending[i] = got[i] /\ Pending[i].last
      BY <1>5, <2>3
    <3>2. Len(Pending) \in Nat /\ Len(got) = d
      BY <1>1, <1>5, PendingParts
    <3> QED
      BY <1>4, <1>5, <2>3, <3>1, <3>2
  <2>5. Fits(Pending, 0, Len(said), far # "gone") /\ Pending \in Seq(Part)
        /\ (far # "gone") \in BOOLEAN
    BY <1>1, <1>3, PendingParts DEF Ordered, Listening
  <2> HIDE DEF d
  <2>6. Fits(t, 1, Len(said), far # "gone")
    BY <1>4, <2>2, <2>4, <2>5, FitsAnswered
  <2>7. mirror'.n = 1
    BY <1>7 DEF Shows
  <2> QED
    BY <1>3, <1>7, <2>1, <2>6, <2>7 DEF Ordered
<1>8. CASE pc' = "refused"
  BY <1>8 DEF Ordered, Listening
<1> QED
  BY <1>2, <1>6, <1>7, <1>8

LEMMA OrderedReadLine ==
  ASSUME IInv, ReadLine
  PROVE  Ordered'
<1>1. TypeOK /\ Ordered /\ Phases
  BY DEF IInv
<1>2. pc = "loop" /\ buf # <<>> /\ UNCHANGED <<far, said, wire>>
  BY DEF ReadLine, farend
<1>3. part \in Seq(Part) /\ buf \in Seq(Part) /\ wire \in Seq(Part)
      /\ Len(part) \in Nat /\ Len(buf) \in Nat /\ Len(said) \in Nat /\ mirror.n \in Nat
  BY <1>1, BoundAssumption DEF TypeOK
<1>4. CASE ~HasLine(buf)
  <2>1. part' = part \o buf /\ buf' = <<>> /\ UNCHANGED <<pc, mirror>>
    BY <1>4 DEF ReadLine
  <2> DEFINE pb == part \o buf
  <2>2. pb \in Seq(Part) /\ Len(pb) = Len(part) + Len(buf)
        /\ \A i \in 1..Len(part) + Len(buf) : pb[i] = IF i <= Len(part) THEN part[i] ELSE buf[i - Len(part)]
    BY <1>3, ConcatProperties
  <2>3. pb \o <<>> = pb
    BY <2>2, ConcatEmptySeq
  <2>4. Pending' = Pending
    BY <1>2, <2>1, <2>3 DEF Pending
  <2> HIDE DEF pb
  <2>5. ASSUME NEW i \in 1..Len(pb) PROVE ~pb[i].last
    <3>1. CASE i <= Len(part)
      <4>1. i \in 1..Len(part) /\ pb[i] = part[i]
        BY <1>3, <2>2, <3>1
      <4> QED
        BY <1>1, <1>2, <4>1 DEF Ordered, Listening
    <3>2. CASE i > Len(part)
      <4>1. i - Len(part) \in 1..Len(buf) /\ pb[i] = buf[i - Len(part)]
        BY <1>3, <2>2, <3>2
      <4> QED
        BY <1>4, <4>1 DEF HasLine
    <3> QED
      BY <1>3, <2>2, <3>1, <3>2
  <2>6. \A i \in 1..Len(part') : ~part'[i].last
    BY <2>1, <2>5 DEF pb
  <2> QED
    BY <1>2, <2>1, <2>4, <2>6, OrderedMoved DEF Next, Near, Listening
<1>5. CASE HasLine(buf)
  <2> DEFINE e == LineEnd(buf)
             line == part \o SubSeq(buf, 1, e)
             d == Len(part) + e
             t == <<>> \o SubSeq(buf, e + 1, Len(buf)) \o wire
  <2>1. part' = <<>> /\ buf' = SubSeq(buf, e + 1, Len(buf)) /\ Take(line)
    BY <1>5 DEF ReadLine
  <2>2. /\ e \in 0..Len(buf) /\ d \in 1..Len(Pending) /\ Pending[d].last
        /\ Parses(line) => Pending[d].n = line[1].n
    BY <1>1, <1>2, <1>5, LineTaken
  <2>3. Pending' = t
    BY <1>2, <2>1 DEF Pending
  <2>4. t \in Seq(Part) /\ Len(t) = Len(Pending) - d
        /\ \A i \in 1..Len(t) : t[i] = Pending[d + i]
    BY <1>3, <2>2, WhatIsLeft DEF Pending
  <2> HIDE DEF t, line, d, e
  <2>5. CASE Parses(line) /\ mirror' = Shows(line[1].n, offset["near"]) /\ UNCHANGED pc
    <3>1. Fits(Pending, mirror.n, Len(said), far # "gone") /\ Pending \in Seq(Part)
          /\ (far # "gone") \in BOOLEAN
      BY <1>1, <1>2, PendingParts DEF Ordered, Listening
    <3>2. Fits(t, Pending[d].n, Len(said), far # "gone")
      BY <1>3, <2>2, <2>4, <3>1, FitsUpdated
    <3>3. mirror'.n = Pending[d].n
      BY <2>2, <2>5 DEF Shows
    <3> QED
      BY <1>2, <2>1, <2>3, <2>5, <3>2, <3>3 DEF Ordered
  <2>6. CASE pc' \in {"bye", "failed"}
    BY <2>6 DEF Ordered, Listening
  <2> QED
    BY <2>1, <2>5, <2>6 DEF Take
<1> QED
  BY <1>4, <1>5

LEMMA OrderedPreempt ==
  ASSUME IInv, Preempt
  PROVE  Ordered'
<1>1. TypeOK /\ Ordered
  BY DEF IInv
<1>2. pc = "loop" /\ part # <<>> /\ part' = <<>> /\ UNCHANGED <<pc, far, said, wire, buf, mirror>>
  BY DEF Preempt, farend
<1>3. part \in Seq(Part) /\ buf \in Seq(Part) /\ wire \in Seq(Part) /\ 0 \in 0..Len(buf)
      /\ Len(part) \in Nat /\ Len(buf) \in Nat /\ Len(said) \in Nat /\ mirror.n \in Nat
      /\ Len(part) > 0 /\ Len(wire) \in Nat
  BY <1>1, <1>2, BoundAssumption DEF TypeOK
<1> DEFINE t == <<>> \o SubSeq(buf, 0 + 1, Len(buf)) \o wire
           d == Len(part)
<1>4. t \in Seq(Part) /\ Len(t) = Len(Pending) - (d + 0)
      /\ \A i \in 1..Len(t) : t[i] = Pending[(d + 0) + i]
  BY <1>3, WhatIsLeft DEF Pending
<1>5. Pending' = t
  <2>1. SubSeq(buf, 1, Len(buf)) = buf
    BY <1>3, SubSeqFull
  <2> QED
    BY <1>2, <2>1 DEF Pending
<1> HIDE DEF t
<1>6. d \in 1..Len(Pending) /\ \A i \in 1..d : ~Pending[i].last
  <2>1. \A i \in 1..d : ~part[i].last
    BY <1>1, <1>2 DEF Ordered, Listening
  <2>2. \A i \in 1..d : Pending[i] = part[i]
    BY <1>1, PendingParts
  <2>3. d \in 1..Len(Pending)
    BY <1>1, <1>3, PendingParts
  <2> QED
    BY <2>1, <2>2, <2>3
<1>7. Fits(Pending, mirror.n, Len(said), far # "gone") /\ Pending \in Seq(Part)
      /\ (far # "gone") \in BOOLEAN
  BY <1>1, <1>2, PendingParts DEF Ordered, Listening
<1>8. d + 0 = d
  BY <1>3
<1> HIDE DEF d
<1>9. Fits(t, mirror.n, Len(said), far # "gone")
  BY <1>3, <1>4, <1>6, <1>7, <1>8, FitsDropped
<1> QED
  BY <1>2, <1>5, <1>9 DEF Ordered

LEMMA OrderStep == IInv /\ [Next]_vars => Ordered'
<1> SUFFICES ASSUME IInv, [Next]_vars PROVE Ordered'
  OBVIOUS
<1>1. TypeOK /\ Phases /\ Ordered
  BY DEF IInv
<1>2. CASE pc' \notin Listening
  BY <1>2 DEF Ordered
<1>3. CASE Greet
  <2>1. pc \in Unasked /\ pc' \in {"await", "cut"} /\ UNCHANGED <<said, far, part, buf, wire, mirror>>
    BY <1>3 DEF Greet, Unasked, farend, stream
  <2>2. Pending' = <<>> /\ said' = <<>> /\ mirror'.n = 0 /\ part' = <<>>
    BY <1>1, <2>1, NothingPending DEF Phases, Pending
  <2>3. Fits(<<>>, 0, 0, far' # "gone")
    BY DEF Fits, InStep
  <2>4. Len(said') = 0 /\ \A i \in 1..Len(part') : ~part'[i].last
    BY <2>2
  <2> QED
    BY <2>2, <2>3, <2>4 DEF Ordered
<1>4. CASE ReadByte
  BY <1>4, <1>2 DEF ReadByte, Verdict, Listening
<1>5. CASE Recv
  BY <1>5, OrderedRecv
<1>6. CASE ReadLine
  BY <1>6, OrderedReadLine
<1>7. CASE RecvEnd \/ ReadEnd
  BY <1>2, <1>7 DEF RecvEnd, ReadEnd, Listening
<1>8. CASE Preempt
  BY <1>8, OrderedPreempt
<1>9. CASE Far /\ ~UNCHANGED said
  <2>1. pc' = pc
    BY <1>9, Speaks
  <2> QED
    BY <1>2, <1>9, <2>1, OrderedSaid
<1>10. CASE FarDies
  <2>1. far' = "gone" /\ UNCHANGED <<pc, said, mirror, part, buf>>
    BY <1>10 DEF FarDies
  <2>2. PICK k \in 0..Len(wire) : wire' = SubSeq(wire, 1, k)
    BY <1>10 DEF FarDies
  <2> DEFINE w == SubSeq(wire, 1, k)
  <2>3. /\ w \in Seq(Part) /\ Len(w) = k /\ \A i \in 1..k : w[i] = wire[i]
    BY <1>1, FrontAndRest DEF TypeOK
  <2>4. part \in Seq(Part) /\ buf \in Seq(Part) /\ wire \in Seq(Part) /\ Len(wire) \in Nat
        /\ Len(part) \in Nat /\ Len(buf) \in Nat
    BY <1>1 DEF TypeOK
  <2> DEFINE s == part \o buf \o w
  <2>5. Pending' = s
    BY <2>1, <2>2 DEF Pending
  <2> HIDE DEF w
  <2>6. w \in Seq(Part)
    BY <2>3
  <2>7. /\ s \in Seq(Part) /\ Len(s) = Len(part) + Len(buf) + Len(w)
        /\ \A i \in 1..Len(part) : s[i] = part[i]
        /\ \A i \in 1..Len(buf) : s[Len(part) + i] = buf[i]
        /\ \A i \in 1..Len(w) : s[Len(part) + Len(buf) + i] = w[i]
    BY <2>4, <2>6, Concat3
  <2>8. /\ Len(Pending) = Len(part) + Len(buf) + Len(wire)
        /\ \A i \in 1..Len(part) : Pending[i] = part[i]
        /\ \A i \in 1..Len(buf) : Pending[Len(part) + i] = buf[i]
        /\ \A i \in 1..Len(wire) : Pending[Len(part) + Len(buf) + i] = wire[i]
    BY <1>1, PendingParts
  <2> HIDE DEF s
  <2>9. Len(s) <= Len(Pending)
    BY <2>3, <2>4, <2>7, <2>8
  <2>10. ASSUME NEW i \in 1..Len(s) PROVE s[i] = Pending[i]
    <3>1. CASE i <= Len(part)
      BY <2>4, <2>7, <2>8, <3>1
    <3>2. CASE i > Len(part) /\ i <= Len(part) + Len(buf)
      <4>1. i - Len(part) \in 1..Len(buf) /\ Len(part) + (i - Len(part)) = i
        BY <2>4, <3>2
      <4> QED
        BY <2>7, <2>8, <4>1
    <3>3. CASE i > Len(part) + Len(buf)
      <4> DEFINE j == i - (Len(part) + Len(buf))
      <4>1. j \in 1..Len(w) /\ j \in 1..k /\ j \in 1..Len(wire) /\ Len(part) + Len(buf) + j = i
        BY <2>3, <2>4, <2>7, <3>3
      <4> HIDE DEF j
      <4>2. s[Len(part) + Len(buf) + j] = w[j]
        BY <2>7, <4>1, Zenon
      <4>3. w[j] = wire[j]
        BY <2>3, <4>1, Zenon
      <4>4. Pending[Len(part) + Len(buf) + j] = wire[j]
        BY <2>8, <4>1, Zenon
      <4> QED
        BY <4>1, <4>2, <4>3, <4>4, Zenon
    <3> QED
      BY <2>3, <2>4, <2>7, <3>1, <3>2, <3>3
  <2>11. CASE pc \in Listening
    <3>1. \A i \in 1..Len(part') : ~part'[i].last
      BY <1>1, <2>1, <2>11 DEF Ordered
    <3> QED
      BY <2>1, <2>5, <2>7, <2>9, <2>10, <2>11, <3>1, OrderedMoved
  <2> QED
    BY <1>2, <2>1, <2>11
<1>11. CASE Arrive
  <2>1. UNCHANGED <<pc, far, said, mirror, part>>
    BY <1>11 DEF Arrive, farend
  <2>2. PICK k \in 1..Len(wire) : /\ buf' = buf \o SubSeq(wire, 1, k)
                                  /\ wire' = SubSeq(wire, k + 1, Len(wire))
    BY <1>11 DEF Arrive
  <2> DEFINE f == SubSeq(wire, 1, k)
             r == SubSeq(wire, k + 1, Len(wire))
  <2>3. k \in 0..Len(wire) /\ wire \in Seq(Part) /\ part \in Seq(Part) /\ buf \in Seq(Part)
    BY <1>1 DEF TypeOK
  <2>4. f \in Seq(Part) /\ r \in Seq(Part) /\ f \o r = wire
    BY <2>3, FrontAndRest
  <2>5. Pending' = part \o (buf \o f) \o r
    BY <2>1, <2>2 DEF Pending
  <2> HIDE DEF f, r
  <2>6. part \o (buf \o f) \o r = part \o buf \o (f \o r)
    <3> DEFINE pb == part \o buf
    <3>1. part \o (buf \o f) = pb \o f
      BY <2>3, <2>4
    <3>2. pb \in Seq(Part)
      BY <2>3, ConcatProperties
    <3> HIDE DEF pb
    <3>3. f \in Seq(Part) /\ r \in Seq(Part)
      BY <2>4
    <3>4. (pb \o f) \o r = pb \o (f \o r)
      BY <3>2, <3>3
    <3> QED
      BY <3>1, <3>4 DEF pb
  <2>7. Pending' = Pending
    BY <2>4, <2>5, <2>6 DEF Pending
  <2>8. CASE pc \in Listening
    <3>1. \A i \in 1..Len(part') : ~part'[i].last
      BY <1>1, <2>1, <2>8 DEF Ordered
    <3> QED
      BY <2>1, <2>7, <2>8, <3>1, OrderedMoved
  <2> QED
    BY <1>2, <2>1, <2>8
<1>12. CASE Tick \/ UNCHANGED vars
  <2>1. UNCHANGED <<pc, far, said, mirror, part, buf, wire>>
    BY <1>12 DEF Tick, vars, farend, stream
  <2> QED
    BY <1>1, <2>1 DEF Ordered, Pending
<1>13. CASE Far /\ UNCHANGED said /\ ~FarDies
  <2>1. \E m \in Said : Send(m)
    <3>1. \A k \in {"ready", "update"} : \A m \in Record(k) : m \in Said
      BY <1>1, RecordOfNow
    <3> QED
      BY <1>13, <3>1, BareIsSaid DEF Far, Refuse, Accept, SendUpdate, SendBye
  <2>2. said \in Seq(Said)
    BY <1>1 DEF TypeOK, Said
  <2>3. PICK m \in Said : said' = Append(said, m)
    BY <2>1 DEF Send
  <2>4. Len(said') = Len(said) + 1 /\ Len(said) \in Nat
    BY <2>2, <2>3
  <2> QED
    BY <1>13, <2>4
<1> QED
  BY <1>3, <1>4, <1>5, <1>6, <1>7, <1>8, <1>9, <1>10, <1>11, <1>12, <1>13 DEF Next, Near

-----------------------------------------------------------------------------
(***************************************************************************)
(* The clocks.                                                             *)
(***************************************************************************)

LEMMA ClockTypes ==
  ASSUME TypeOK
  PROVE  now \in Nat /\ sentAt \in Nat /\ skew \in Int /\ mirror.n \in Nat /\ mirror.at \in Nat
         /\ offset["near"] \in Int /\ offset["far"] \in Int /\ Len(said) \in Nat
         /\ \A n \in 1..Len(said) : said[n] \in Said /\ said[n].at \in Nat /\ said[n].clock \in Nat
<1>1. said \in Seq(Said)
  BY DEF TypeOK, Said
<1>2. \A n \in 1..Len(said) : said[n] \in Said
  BY <1>1, ElementOfSeq
<1>3. \A n \in 1..Len(said) : said[n].at \in Nat /\ said[n].clock \in Nat
  BY <1>2 DEF Said
<1>4. now \in Nat /\ sentAt \in Nat
  BY BoundAssumption, ClockAssumption DEF TypeOK
<1>5. skew \in Int
  BY BoundAssumption, ClockAssumption DEF TypeOK
<1>6. mirror.n \in Nat /\ mirror.at \in Nat
  BY BoundAssumption, ClockAssumption DEF TypeOK
<1>7. offset["near"] \in Int /\ offset["far"] \in Int
  BY BoundAssumption, ClockAssumption DEF TypeOK
<1>8. Len(said) \in Nat
  BY <1>1
<1> QED
  BY <1>2, <1>3, <1>4, <1>5, <1>6, <1>7, <1>8

\* Time passes, the skew stays, and the question is asked once.
LEMMA TimePasses ==
  ASSUME IInv, [Next]_vars
  PROVE  /\ skew' = skew /\ (now' = now \/ now' = now + 1)
         /\ \/ sentAt' = sentAt
            \/ /\ pc = "greet" /\ sentAt' = now /\ now' = now
               /\ UNCHANGED <<said, offset, mirror, far>>
         /\ \A n \in 1..Len(said) : said'[n] = said[n]
         /\ Len(said') >= Len(said)
<1>1. skew' = skew /\ (now' = now \/ now' = now + 1)
      /\ \/ sentAt' = sentAt
         \/ /\ pc = "greet" /\ sentAt' = now /\ now' = now
            /\ UNCHANGED <<said, offset, mirror, far>>
  BY DEF Next, Near, Far, ReadByte, Greet, Recv, RecvEnd, ReadLine, ReadEnd, Preempt, Refuse, Accept,
         SendUpdate, SendBye, FarDies, Arrive, Tick, vars, clocks, farend
<1>2. TypeOK
  BY DEF IInv
<1>3. (\A n \in 1..Len(said) : said'[n] = said[n]) /\ Len(said') >= Len(said)
  <2>1. CASE UNCHANGED said
    BY <1>2, <2>1, ClockTypes
  <2>2. CASE ~UNCHANGED said
    <3>1. PICK m \in Said : Send(m) /\ Len(said) < MaxSaid
      BY <2>2, Speaks
    <3>2. Len(said') = Len(said) + 1 /\ \A n \in 1..Len(said) : said'[n] = said[n]
      BY <1>2, <3>1, SendStep
    <3> QED
      BY <1>2, <3>2, ClockTypes
  <2> QED
    BY <2>1, <2>2
<1> QED
  BY <1>1, <1>3

LEMMA ClockStep == IInv /\ [Next]_vars => Clocked'
<1> SUFFICES ASSUME IInv, [Next]_vars PROVE Clocked'
  OBVIOUS
<1>1. TypeOK /\ Phases /\ Clocked
  BY DEF IInv
<1>2. now \in Nat /\ sentAt \in Nat /\ skew \in Int /\ Len(said) \in Nat
      /\ \A n \in 1..Len(said) : said[n].at \in Nat /\ said[n].clock \in Nat
  BY <1>1, ClockTypes
<1>3. skew' = skew /\ (now' = now \/ now' = now + 1)
      /\ (sentAt' = sentAt \/ (pc = "greet" /\ sentAt' = now /\ now' = now /\ UNCHANGED said))
  BY TimePasses
<1>4. sentAt' <= now'
  BY <1>1, <1>2, <1>3 DEF Clocked
<1>5. CASE UNCHANGED said /\ sentAt' = sentAt
  <2> SUFFICES ASSUME NEW n \in 1..Len(said)
               PROVE  /\ said[n].kind \in {"ready", "update"} => said[n].at - skew \in 0..now'
                      /\ said[n].kind = "ready" => said[n].clock - skew \in sentAt..now'
    BY <1>3, <1>4, <1>5 DEF Clocked
  <2>1. /\ said[n].kind \in {"ready", "update"} => said[n].at - skew \in 0..now
        /\ said[n].kind = "ready" => said[n].clock - skew \in sentAt..now
    BY <1>1 DEF Clocked
  <2> QED
    BY <1>2, <1>3, <2>1
<1>6. CASE pc = "greet" /\ UNCHANGED said
  <2>1. Len(said') = 0
    BY <1>1, <1>6 DEF Phases, Unasked
  <2> QED
    BY <1>4, <2>1 DEF Clocked
<1>7. CASE ~UNCHANGED said
  <2>1. PICK m \in Said :
          /\ Send(m) /\ Len(said) < MaxSaid /\ UNCHANGED <<now, sentAt>>
          /\ m.kind \in {"ready", "update"} => m.at - skew \in 0..now
          /\ m.kind = "ready" => m.clock - skew = now
    BY <1>7, Speaks
  <2>2. Len(said') = Len(said) + 1 /\ said'[Len(said) + 1] = m
        /\ \A n \in 1..Len(said) : said'[n] = said[n]
    BY <1>1, <2>1, SendStep
  <2> SUFFICES ASSUME NEW n \in 1..Len(said')
               PROVE  /\ said'[n].kind \in {"ready", "update"} => said'[n].at - skew \in 0..now
                      /\ said'[n].kind = "ready" => said'[n].clock - skew \in sentAt..now
    BY <1>3, <1>4, <2>1 DEF Clocked
  <2>3. CASE n \in 1..Len(said)
    BY <1>1, <2>2, <2>3 DEF Clocked
  <2>4. CASE n = Len(said) + 1
    <3>1. now \in sentAt..now
      BY <1>1, <1>2 DEF Clocked
    <3> QED
      BY <2>1, <2>2, <2>4, <3>1
  <2> QED
    BY <1>2, <2>2, <2>3, <2>4
<1> QED
  BY <1>3, <1>5, <1>6, <1>7

\* Halving the two readings of one clock errs by no more than half of what lies between.
LEMMA HalfWay ==
  ASSUME NEW a \in Nat, NEW b \in Nat, NEW c \in Int, NEW d \in Int, c - d \in a..b
  PROVE  2 * Abs(ClockOffset(a, b, c) + d) <= b - a + 1
<1> DEFINE h == (a + b) \div 2
           x == c - d
<1>1. h \in Int /\ 2 * h <= a + b /\ a + b <= 2 * h + 1
  OBVIOUS
<1>2. ClockOffset(a, b, c) + d = h - x /\ x \in Int /\ a <= x /\ x <= b
  BY <1>1 DEF ClockOffset
<1> HIDE DEF h, x
<1>3. 2 * (h - x) <= b - a + 1 /\ 2 * (-(h - x)) <= b - a + 1
  BY <1>1, <1>2
<1> QED
  BY <1>1, <1>2, <1>3 DEF Abs

LEMMA OffsetStep == IInv /\ [Next]_vars => OffsetsWithinLatency'
<1> SUFFICES ASSUME IInv, [Next]_vars PROVE OffsetsWithinLatency'
  OBVIOUS
<1>1. TypeOK /\ Phases /\ Ordered /\ Told /\ Clocked /\ OffsetsWithinLatency
  BY DEF IInv
<1>2. now \in Nat /\ sentAt \in Nat /\ skew \in Int /\ offset["near"] \in Int
      /\ offset["far"] \in Int /\ Len(said) \in Nat
  BY <1>1, ClockTypes
<1>3. skew' = skew /\ (now' = now \/ now' = now + 1)
  BY TimePasses
<1>4. CASE pc = "greet"
  <2>1. mirror'.n = 0 /\ far' # "up"
    BY <1>1, <1>4 DEF Phases, Unasked, Next, Near, Far, ReadByte, Greet, Recv, RecvEnd, ReadLine,
       ReadEnd, Preempt, Refuse, Accept, SendUpdate, SendBye, FarDies, Arrive, Tick, vars, farend
  <2> QED
    BY <2>1 DEF OffsetsWithinLatency
<1>5. CASE /\ pc # "greet" /\ UNCHANGED offset
           /\ mirror'.n # 0 => mirror.n # 0
           /\ far' = "up" => far = "up"
  <2>1. sentAt' = sentAt
    BY <1>5, TimePasses
  <2>2. Abs(offset["near"] + skew) \in Int
    BY <1>2 DEF Abs
  <2>3. mirror'.n # 0 => 2 * Abs(offset["near"] + skew) <= now - sentAt + 1
    BY <1>1, <1>5 DEF OffsetsWithinLatency
  <2>4. far' = "up" => offset["far"] - skew \in 0..(now - sentAt)
    BY <1>1, <1>5 DEF OffsetsWithinLatency
  <2>5. mirror'.n # 0 => 2 * Abs(offset["near"] + skew) <= now' - sentAt + 1
    BY <1>2, <1>3, <2>2, <2>3
  <2>6. far' = "up" => offset["far"] - skew \in 0..(now' - sentAt)
    BY <1>2, <1>3, <2>4
  <2>7. Abs(offset["near"] + skew)' = Abs(offset["near"] + skew)
    BY <1>3, <1>5
  <2> QED
    BY <1>3, <1>5, <2>1, <2>5, <2>6, <2>7 DEF OffsetsWithinLatency
<1>6. CASE Recv
  <2>1. pc = "await" /\ UNCHANGED <<now, sentAt, far>>
    BY <1>6 DEF Recv, farend
  <2>2. CASE UNCHANGED <<offset, mirror>>
    BY <1>5, <2>1, <2>2
  <2>3. CASE /\ offset' = [offset EXCEPT !["near"] = ClockOffset(sentAt, now, said[1].clock)]
             /\ said[1].kind = "ready"
    <3>1. 1 \in 1..Len(said)
      BY <1>1, <1>6, SomethingSaid DEF Recv, Listening
    <3>2. said[1].clock \in Int /\ said[1].clock - skew \in sentAt..now
      BY <1>1, <2>3, <3>1, ClockTypes DEF Clocked
    <3>3. 2 * Abs(ClockOffset(sentAt, now, said[1].clock) + skew) <= now - sentAt + 1
      BY <1>2, <3>2, HalfWay
    <3>4. offset'["near"] = ClockOffset(sentAt, now, said[1].clock) /\ offset'["far"] = offset["far"]
      BY <1>1, <2>3 DEF TypeOK
    <3>5. far' = "up" => offset["far"] - skew \in 0..(now - sentAt)
      BY <1>1, <2>1 DEF OffsetsWithinLatency
    <3> QED
      BY <1>3, <2>1, <3>3, <3>4, <3>5 DEF OffsetsWithinLatency
  <2> QED
    BY <1>6, <2>2, <2>3 DEF Recv
<1>7. CASE Accept
  <2>1. /\ offset' = [offset EXCEPT !["far"] = ClockOffset(FarNow, FarNow, sentAt)]
        /\ pc = "await" /\ UNCHANGED <<now, sentAt, mirror>>
    BY <1>7 DEF Accept
  <2>2. mirror.n = 0
    BY <1>1, <2>1 DEF Phases
  <2>3. ClockOffset(FarNow, FarNow, sentAt) = FarNow - sentAt
    <3>1. FarNow \in Int
      BY <1>2 DEF FarNow
    <3>2. (FarNow + FarNow) \div 2 = FarNow
      BY <3>1
    <3> QED
      BY <3>2 DEF ClockOffset
  <2>4. offset'["far"] = now + skew - sentAt
    <3>1. offset'["far"] = ClockOffset(FarNow, FarNow, sentAt)
      BY <1>1, <2>1 DEF TypeOK
    <3>2. offset'["far"] = FarNow - sentAt
      BY <2>3, <3>1
    <3> QED
      BY <1>2, <3>2 DEF FarNow
  <2>5. offset'["far"] - skew \in 0..(now - sentAt)
    BY <1>1, <1>2, <2>4 DEF Clocked
  <2> QED
    BY <1>3, <2>1, <2>2, <2>5 DEF OffsetsWithinLatency
<1>8. CASE ReadLine
  <2>1. pc = "loop" /\ UNCHANGED <<offset, far>>
    BY <1>8 DEF ReadLine, clocks, farend
  <2> QED
    BY <1>1, <1>5, <2>1 DEF Phases
<1>9. CASE /\ pc # "greet"
            /\ \/ ReadByte \/ Greet \/ RecvEnd \/ ReadEnd \/ Preempt \/ Refuse \/ SendUpdate \/ SendBye
               \/ FarDies \/ Arrive \/ Tick \/ UNCHANGED vars
  <2>1. UNCHANGED <<offset, mirror>> /\ (far' = "up" => far = "up")
    BY <1>9 DEF ReadByte, Greet, RecvEnd, ReadEnd, Preempt, Refuse, SendUpdate, SendBye, FarDies,
                 Arrive, Tick, vars, clocks, farend
  <2> QED
    BY <1>5, <1>9, <2>1
<1> QED
  BY <1>4, <1>6, <1>7, <1>8, <1>9 DEF Next, Near, Far

\* A time moved onto this clock is as far off as the offset is.
LEMMA ShiftedTime ==
  ASSUME now \in Nat, NEW at \in Int, NEW off \in Int, NEW d \in Int, at - d \in 0..now,
         NEW b \in Int, 2 * Abs(off + d) <= b
  PROVE  2 * Abs(Translate(at, off) - (at - d)) <= b
<1> DEFINE x == at - d
           y == off + d
           t == Translate(at, off)
<1>1. x \in Int /\ y \in Int /\ 0 <= x /\ x <= now /\ at + off = x + y
  OBVIOUS
<1>2. t = IF x + y < 0 THEN (IF 0 < now THEN 0 ELSE now) ELSE IF x + y < now THEN x + y ELSE now
  BY <1>1 DEF Translate
<1>3. 2 * y <= b /\ 2 * (-y) <= b
  BY <1>1 DEF Abs
<1> HIDE DEF x, y, t
<1>4. t \in Int
  BY <1>1, <1>2
<1>5. 2 * (t - x) <= b /\ 2 * (-(t - x)) <= b
  BY <1>1, <1>2, <1>3
<1>6. 2 * Abs(t - x) <= b
  BY <1>1, <1>4, <1>5 DEF Abs
<1> QED
  BY <1>6 DEF t, x

\* A record that is put on show.
LEMMA StampShown ==
  ASSUME IInv, [Next]_vars, OffsetsWithinLatency', sentAt' = sentAt, now' = now, UNCHANGED said,
         NEW n \in 1..Len(said), said[n].kind \in {"ready", "update"},
         mirror' = Shows(n, offset'["near"]), offset'["near"] \in Int
  PROVE  StampsHonest'
<1>1. TypeOK /\ Clocked
  BY DEF IInv
<1>2. now \in Nat /\ sentAt \in Nat /\ skew \in Int /\ said[n].at \in Nat /\ skew' = skew
  BY <1>1, ClockTypes, TimePasses
<1>3. mirror'.n = n /\ mirror'.at = Translate(said[n].at, offset'["near"])
  BY DEF Shows
<1>4. said[n].at - skew \in 0..now
  BY <1>1 DEF Clocked
<1>5. 2 * Abs(offset'["near"] + skew) <= now - sentAt + 1
  BY <1>2, <1>3 DEF OffsetsWithinLatency
<1>6. 2 * Abs(Translate(said[n].at, offset'["near"]) - (said[n].at - skew)) <= now - sentAt + 1
  <2>1. now - sentAt + 1 \in Int /\ said[n].at \in Int
    BY <1>2
  <2> QED
    BY <1>2, <1>4, <1>5, <2>1, ShiftedTime
<1>7. Translate(said[n].at, offset'["near"]) <= now
  BY <1>2, TranslateType
<1> QED
  BY <1>2, <1>3, <1>6, <1>7 DEF StampsHonest

LEMMA StampStep == IInv /\ [Next]_vars => StampsHonest'
<1> SUFFICES ASSUME IInv, [Next]_vars PROVE StampsHonest'
  OBVIOUS
<1>1. TypeOK /\ TypeOK' /\ Phases /\ Ordered /\ Told /\ StampsHonest /\ OffsetsWithinLatency'
  BY NearTypes, FarTypes, OffsetStep DEF IInv, Next
<1>2. now \in Nat /\ sentAt \in Nat /\ skew \in Int /\ mirror.n \in Nat /\ mirror.at \in Nat
      /\ Len(said) \in Nat /\ \A n \in 1..Len(said) : said[n].at \in Nat
  BY <1>1, ClockTypes
<1>3. offset'["near"] \in Int
  BY <1>1 DEF TypeOK
<1>4. CASE UNCHANGED mirror
  <2>1. CASE mirror.n = 0
    BY <1>4, <2>1 DEF StampsHonest
  <2>2. CASE mirror.n # 0
    <3>1. mirror.n \in 1..Len(said)
      BY <1>1, <1>2, <2>2 DEF Phases
    <3>2. said'[mirror.n] = said[mirror.n] /\ skew' = skew /\ (now' = now \/ now' = now + 1)
      BY <3>1, TimePasses
    <3>3. sentAt' = sentAt
      BY <1>1, <2>2, TimePasses DEF Phases, Unasked
    <3>4. mirror.at <= now
          /\ 2 * Abs(mirror.at - (said[mirror.n].at - skew)) <= now - sentAt + 1
      BY <1>1, <2>2 DEF StampsHonest
    <3>5. Abs(mirror.at - (said[mirror.n].at - skew)) \in Int
      BY <1>2, <3>1 DEF Abs
    <3>6. mirror.at <= now'
          /\ 2 * Abs(mirror.at - (said[mirror.n].at - skew)) <= now' - sentAt + 1
      BY <1>2, <3>2, <3>4, <3>5
    <3> QED
      BY <1>4, <3>2, <3>3, <3>6 DEF StampsHonest
  <2> QED
    BY <2>1, <2>2
<1>5. CASE Recv /\ mirror' = Shows(1, offset'["near"]) /\ said[1].kind = "ready"
  <2>1. UNCHANGED <<now, sentAt, said>>
    BY <1>5 DEF Recv, farend
  <2>2. 1 \in 1..Len(said)
    BY <1>1, <1>5, SomethingSaid DEF Recv, Listening
  <2> QED
    BY <1>3, <1>5, <1>1, <2>1, <2>2, StampShown
<1>6. CASE ReadLine /\ ~UNCHANGED mirror
  <2> DEFINE line == part \o SubSeq(buf, 1, LineEnd(buf))
  <2>1. /\ pc = "loop" /\ HasLine(buf) /\ buf # <<>> /\ UNCHANGED <<now, sentAt, said, offset>>
        /\ said[line[1].n].kind = "update" /\ mirror' = Shows(line[1].n, offset["near"])
    BY <1>6 DEF ReadLine, Take, clocks, farend
  <2>2. line[1].n \in mirror.n + 1 .. Len(said)
    BY <1>1, <2>1, LineTaken
  <2> HIDE DEF line
  <2>3. line[1].n \in 1..Len(said)
    BY <1>2, <2>2
  <2> QED
    BY <1>1, <1>3, <2>1, <2>3, StampShown
<1>7. CASE ReadByte \/ Greet \/ RecvEnd \/ ReadEnd \/ Preempt \/ Far \/ Arrive \/ Tick \/ UNCHANGED vars
  BY <1>4, <1>7 DEF ReadByte, Greet, RecvEnd, ReadEnd, Preempt, Far, Refuse, Accept, SendUpdate,
                    SendBye, FarDies, Arrive, Tick, vars
<1>8. CASE Recv
  BY <1>4, <1>5, <1>8 DEF Recv
<1> QED
  BY <1>4, <1>6, <1>7, <1>8 DEF Next, Near

-----------------------------------------------------------------------------
(***************************************************************************)
(* The goodbye.                                                            *)
(***************************************************************************)

LEMMA ByeStep == IInv /\ [Next]_vars => ByeMeansAll'
<1> SUFFICES ASSUME IInv, [Next]_vars, pc' = "bye" PROVE mirror'.n \in {1, Len(said') - 1}
  BY DEF ByeMeansAll
<1>1. TypeOK /\ Phases /\ Ordered /\ Told /\ ByeMeansAll
  BY DEF IInv
<1>2. CASE pc = "bye"
  <2>1. UNCHANGED said
    BY <1>1, <1>2, GoneStays DEF Phases
  <2>2. UNCHANGED mirror
    BY <1>2 DEF Next, Near, Far, ReadByte, Greet, Recv, RecvEnd, ReadLine, ReadEnd, Preempt, Refuse,
       Accept, SendUpdate, SendBye, FarDies, Arrive, Tick, vars
  <2> QED
    BY <1>1, <1>2, <2>1, <2>2 DEF ByeMeansAll
<1>3. CASE pc # "bye"
  <2>1. ReadLine
    BY <1>3 DEF Next, Near, Far, ReadByte, Verdict, Greet, Recv, RecvEnd, ReadEnd, Preempt, Refuse,
       Accept, SendUpdate, SendBye, FarDies, Arrive, Tick, vars
  <2> DEFINE line == part \o SubSeq(buf, 1, LineEnd(buf))
  <2>2. /\ pc = "loop" /\ HasLine(buf) /\ buf # <<>> /\ UNCHANGED <<said, mirror>>
        /\ said[line[1].n].kind = "bye"
    BY <1>3, <2>1 DEF ReadLine, Take, farend
  <2>3. line[1].n \in mirror.n + 1 .. Len(said) /\ (mirror.n > 1 => line[1].n = mirror.n + 1)
    BY <1>1, <2>2, LineTaken
  <2> HIDE DEF line
  <2>4. mirror.n \in Nat /\ mirror.n # 0 /\ Len(said) \in Nat
    BY <1>1, <2>2, ClockTypes DEF Phases
  <2>5. line[1].n = Len(said)
    <3>1. line[1].n \in 1..Len(said)
      BY <2>3, <2>4
    <3> QED
      BY <1>1, <2>2, <3>1 DEF Told
  <2> QED
    BY <2>2, <2>3, <2>4, <2>5
<1> QED
  BY <1>2, <1>3

-----------------------------------------------------------------------------
(***************************************************************************)
(* The theorems.                                                           *)
(***************************************************************************)

\* The inductive invariant holds in every behaviour of the control stream.
THEOREM ControlInvariance == Spec => []IInv
<1>1. IInv /\ [Next]_vars => IInv'
  <2> SUFFICES ASSUME IInv, [Next]_vars PROVE IInv'
    OBVIOUS
  <2>1. TypeOK'
    BY NearTypes, FarTypes DEF Next
  <2> QED
    BY <2>1, SearchStep, PhaseStep, ToldStep, OrderStep, ClockStep, OffsetStep, StampStep, ByeStep
       DEF IInv
<1> QED
  BY <1>1, InitStep, PTL DEF Spec

\* Whatever arrives, however it is cut, the stream's state keeps its type: in particular
\* recv and read_line always take parts of messages that were sent.
THEOREM ControlTypeCorrect == Spec => []TypeOK
<1>1. IInv => TypeOK
  BY DEF IInv
<1> QED
  BY <1>1, ControlInvariance, PTL

\* expect_preamble accepts exactly what begins with the preamble, counts the noise ahead of
\* its first occurrence rightly, and gives up only where there is none: for every preamble,
\* every opening of the far end and every slack.
THEOREM PreamblesJudged == Spec => []PreambleJudged
<1>1. IInv => PreambleJudged
  BY DEF IInv
<1> QED
  BY <1>1, ControlInvariance, PTL

\* The offsets that the two handshakes take differ from the true ones by half of the round
\* trip at most here, by the way of the question at most over there (clock_offset).
THEOREM OffsetsBounded == Spec => []OffsetsWithinLatency
<1>1. IInv => OffsetsWithinLatency
  BY DEF IInv
<1> QED
  BY <1>1, ControlInvariance, PTL

\* A mirror's time is never in the future and is off by no more than the handshake took,
\* for any skew of at least minus one tick and any age of the record (translate_timestamp).
THEOREM StampsAreHonest == Spec => []StampsHonest
<1>1. IInv => StampsHonest
  BY DEF IInv
<1> QED
  BY <1>1, ControlInvariance, PTL

\* Who hears goodbye has every update, or none at all: no interleaving of arrivals, dropped
\* reads and lines loses one in between (recv, read_line and the select around it).
THEOREM GoodbyeMeansAll == Spec => []ByeMeansAll
<1>1. IInv => ByeMeansAll
  BY DEF IInv
<1> QED
  BY <1>1, ControlInvariance, PTL

-----------------------------------------------------------------------------
(***************************************************************************)
(* The promise of the feed.                                                *)
(***************************************************************************)

\* The kinds of what was said, as the promise knows them.
Kinds == [n \in 1..Len(said) |-> said[n].kind]
Kind == {"ready", "refused", "update", "bye"}

LEMMA KindsOfMessages ==
  ASSUME NEW s \in Seq(Said), NEW t, t = [n \in 1..Len(s) |-> s[n].kind]
  PROVE  /\ t \in Seq(Kind) /\ Len(t) = Len(s) /\ Len(s) \in Nat
         /\ \A n \in 1..Len(s) : t[n] = s[n].kind
<1>1. \A n \in 1..Len(s) : s[n] \in Said
  BY ElementOfSeq
<1>2. \A m \in Said : m.kind \in Kind
  BY DEF Said, Kind
<1>3. Len(s) \in Nat /\ \A n \in 1..Len(s) : s[n].kind \in Kind
  BY <1>1, <1>2
<1> QED
  BY <1>3

LEMMA KindsOfSaid ==
  ASSUME TypeOK
  PROVE  /\ Kinds \in Seq(Kind) /\ Len(Kinds) = Len(said) /\ Len(said) \in Nat
         /\ \A n \in 1..Len(said) : Kinds[n] = said[n].kind
<1>1. said \in Seq(Said)
  BY DEF TypeOK, Said
<1> QED
  BY <1>1, KindsOfMessages DEF Kinds

LEMMA SendSays ==
  ASSUME TypeOK, NEW m \in Said, Send(m), Len(said) < MaxSaid
  PROVE  Len(Kinds') = Len(Kinds) + 1 /\ SubSeq(Kinds', 1, Len(Kinds)) = Kinds
<1>1. /\ Kinds \in Seq(Kind) /\ Len(Kinds) = Len(said) /\ Len(said) \in Nat
      /\ \A n \in 1..Len(said) : Kinds[n] = said[n].kind
  BY KindsOfSaid
<1>2. Kinds' \in Seq(Kind) /\ Len(Kinds') = Len(said')
      /\ \A n \in 1..Len(said') : Kinds'[n] = said'[n].kind
  <2>1. said' \in Seq(Said)
    BY SendStep
  <2> QED
    BY <2>1, KindsOfMessages DEF Kinds
<1>3. Len(said') = Len(said) + 1 /\ \A n \in 1..Len(said) : said'[n] = said[n]
  BY SendStep
<1>4. \A n \in 1..Len(Kinds) : Kinds'[n] = Kinds[n]
  BY <1>1, <1>2, <1>3
<1> DEFINE s == Kinds
           t == Kinds'
<1> HIDE DEF s, t
<1>5. s \in Seq(Kind) /\ t \in Seq(Kind) /\ Len(t) = Len(s) + 1 /\ Len(s) \in Nat
      /\ \A n \in 1..Len(s) : t[n] = s[n]
  BY <1>1, <1>2, <1>3, <1>4 DEF s, t
<1>6. SubSeq(t, 1, Len(s)) \in Seq(Kind) /\ Len(SubSeq(t, 1, Len(s))) = Len(s)
      /\ \A n \in 1..Len(s) : SubSeq(t, 1, Len(s))[n] = t[n]
  <2>1. Len(s) \in 0..Len(t)
    BY <1>5
  <2> QED
    BY <1>5, <2>1, FrontAndRest
<1>7. SubSeq(t, 1, Len(s)) = s
  BY <1>5, <1>6, SeqEqual
<1> QED
  BY <1>5, <1>7 DEF s, t

\* What is put on show is a record that was said, later than the one before.
LEMMA ShowStep ==
  ASSUME IInv, [Next]_vars, ~UNCHANGED mirror
  PROVE  /\ pc \notin Ended /\ pc' \notin Ended /\ UNCHANGED said
         /\ mirror'.n \in mirror.n + 1 .. Len(said)
         /\ said[mirror'.n].kind = IF mirror.n = 0 THEN "ready" ELSE "update"
<1>1. TypeOK /\ Phases /\ Ordered /\ mirror.n \in Nat /\ Len(said) \in Nat
  BY ClockTypes DEF IInv
<1>2. CASE Recv
  <2>1. /\ pc = "await" /\ buf # <<>> /\ UNCHANGED said /\ said[1].kind = "ready" /\ pc' = "loop"
        /\ mirror' = Shows(1, offset'["near"])
    BY <1>2 DEF Recv, farend
  <2>2. mirror.n = 0 /\ mirror'.n = 1 /\ 1 \in 1..Len(said)
    BY <1>1, <2>1, SomethingSaid DEF Phases, Listening, Shows
  <2> QED
    BY <1>1, <2>1, <2>2 DEF Ended
<1>3. CASE ReadLine
  <2> DEFINE line == part \o SubSeq(buf, 1, LineEnd(buf))
  <2>1. /\ pc = "loop" /\ HasLine(buf) /\ buf # <<>> /\ UNCHANGED <<said, pc>>
        /\ said[line[1].n].kind = "update" /\ mirror' = Shows(line[1].n, offset["near"])
    BY <1>3 DEF ReadLine, Take, farend
  <2>2. line[1].n \in mirror.n + 1 .. Len(said)
    BY <1>1, <2>1, LineTaken
  <2> HIDE DEF line
  <2>3. mirror'.n = line[1].n /\ mirror.n # 0
    BY <1>1, <2>1 DEF Shows, Phases
  <2> QED
    BY <2>1, <2>2, <2>3 DEF Ended
<1> QED
  BY <1>2, <1>3 DEF Next, Near, Far, ReadByte, Greet, RecvEnd, ReadEnd, Preempt, Refuse, Accept,
     SendUpdate, SendBye, FarDies, Arrive, Tick, vars

\* A relay that has ended stays so.
LEMMA EndedStays ==
  ASSUME [Next]_vars, pc \in Ended
  PROVE  pc' \in Ended
BY DEF Ended, Next, Near, Far, ReadByte, Greet, Recv, RecvEnd, ReadLine, ReadEnd, Preempt, Refuse, Accept,
   SendUpdate, SendBye, FarDies, Arrive, Tick, vars

LEMMA FeedStep == IInv /\ IInv' /\ [Next]_vars => [Promise!FeedNext]_(Promise!feedvars)
<1> SUFFICES ASSUME IInv, IInv', [Next]_vars PROVE [Promise!FeedNext]_(Promise!feedvars)
  OBVIOUS
<1>1. TypeOK /\ TypeOK'
  BY DEF IInv
<1>2. CASE ~UNCHANGED said
  <2>1. UNCHANGED <<pc, mirror>> /\ Len(said) < MaxSaid /\ \E m \in Said : Send(m)
    BY <1>2, Speaks
  <2>2. Len(Kinds') = Len(Kinds) + 1 /\ SubSeq(Kinds', 1, Len(Kinds)) = Kinds
    BY <1>1, <2>1, SendSays
  <2>3. Promise!Say
    BY <2>1, <2>2 DEF Promise!Say, Kinds
  <2> QED
    BY <2>3 DEF Promise!FeedNext
<1>3. CASE UNCHANGED said /\ ~UNCHANGED mirror
  <2>1. /\ pc \notin Ended /\ pc' \notin Ended
        /\ mirror'.n \in mirror.n + 1 .. Len(said)
        /\ said[mirror'.n].kind = IF mirror.n = 0 THEN "ready" ELSE "update"
    BY <1>3, ShowStep
  <2>2. Len(Kinds) = Len(said) /\ mirror.n \in Nat /\ Len(said) \in Nat
        /\ \A n \in 1..Len(said) : Kinds[n] = said[n].kind
    BY <1>1, KindsOfSaid, ClockTypes
  <2>3. mirror'.n \in mirror.n + 1 .. Len(Kinds)
        /\ Kinds[mirror'.n] = IF mirror.n = 0 THEN "ready" ELSE "update"
    BY <2>1, <2>2
  <2>4. Kinds' = Kinds
    BY <1>3 DEF Kinds
  <2>5. Promise!Show
    <3>1. \E n \in mirror.n + 1 .. Len(Kinds) :
            Kinds[n] = (IF mirror.n = 0 THEN "ready" ELSE "update") /\ mirror'.n = n
      BY <2>3
    <3>2. (pc \in Ended) = FALSE /\ (pc' \in Ended) = FALSE
      BY <2>1
    <3> QED
      BY <3>1, <3>2, <2>4, Zenon DEF Promise!Show, Kinds
  <2> QED
    BY <2>5 DEF Promise!FeedNext
<1>4. CASE UNCHANGED <<said, mirror>>
  <2>1. Kinds' = Kinds
    BY <1>4 DEF Kinds
  <2>2. CASE (pc' \in Ended) = (pc \in Ended)
    BY <1>4, <2>1, <2>2 DEF Promise!feedvars, Kinds
  <2>3. CASE pc' \in Ended
    <3>1. Promise!Stop
      BY <1>4, <2>1, <2>3 DEF Promise!Stop, Kinds
    <3> QED
      BY <3>1 DEF Promise!FeedNext
  <2> QED
    BY <2>2, <2>3, EndedStays
<1> QED
  BY <1>2, <1>3, <1>4

\* The control stream, read the way recv and read_line read it, keeps the promise of a feed:
\* only whole records that were said are shown, each later than the one before, the first
\* being the one in Ready, and none once the loop is over.
THEOREM ControlImplementsFeed == Spec => ImplementsFeed
<1>1. Init => Promise!FeedInit
  <2> SUFFICES ASSUME Init PROVE Promise!FeedInit
    OBVIOUS
  <2>1. said = <<>> /\ Len(said) = 0 /\ mirror.n = 0 /\ pc \notin Ended
    BY DEF Init, NoMirror, Ended
  <2>2. Kinds = <<>>
    BY <2>1 DEF Kinds
  <2> QED
    BY <2>1, <2>2 DEF Promise!FeedInit, Kinds
<1> QED
  BY <1>1, FeedStep, ControlInvariance, PTL DEF Spec, ImplementsFeed, Promise!FeedSpec

=============================================================================
