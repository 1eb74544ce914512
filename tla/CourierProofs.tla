--------------------------- MODULE CourierProofs ----------------------------
(***************************************************************************)
(* Theorems about Courier, for connections of any number of lines and for  *)
(* everything the environment may do.                                      *)
(***************************************************************************)
EXTENDS Courier, SequenceTheorems, TLAPS

-----------------------------------------------------------------------------
(***************************************************************************)
(* The inductive invariant.                                                *)
(***************************************************************************)

\* Lines of the stream that are dealt with: a first line that has been read is not until
\* the session is dialled.
Taken(d) == IF liner[d] = "dial" THEN read[d] - 1 ELSE read[d]

\* A line carries its number, and the writer knows nothing of mirrors.
Numbered ==
  \A d \in Way : \A n \in 1..Len(sent[d]) : sent[d][n].n = n /\ sent[d][n].from # "mirror"

\* Only deliver waits for a first message, and it dials with that in hand.
Seam ==
  /\ liner["back"] \notin {"first", "dial"}
  /\ liner["there"] = "dial" =>
       read["there"] > 0 /\ sent["there"][read["there"]].from \notin {"blank", "bad"}

\* What a reader got are messages that were dealt with, as it must see them, in order.
InOrder ==
  \A d \in Way :
    /\ \A i \in 1..Len(got[d]) :
         LET n == got[d][i].n
         IN n \in 1..Taken(d) /\ IsMessage(sent[d][n]) /\ got[d][i] = Readdressed(sent[d][n])
    /\ \A i, j \in 1..Len(got[d]) : i < j => got[d][i].n < got[d][j].n

\* Unless its liner failed, it got all of them.
Gapless ==
  \A d \in Way :
    liner[d] # "failed" =>
      \A n \in 1..Taken(d) :
        IsMessage(sent[d][n]) => \E i \in 1..Len(got[d]) : got[d][i].n = n

\* While the link holds and deliver has not dropped it, a stream is closed behind all that
\* was written, by a writer that has closed its side.
ClosedBehind ==
  \A d \in Way :
    streamEnd[d] /\ ~torn /\ ~cut => ended[d] /\ copied[d] = Len(sent[d])

\* And its liner has come to the end of it before it says so.
ReadToTheEnd ==
  \A d \in Way :
    gotEnd[d] /\ liner[d] = "done" /\ ~torn /\ ~cut => streamEnd[d] /\ read[d] = copied[d]

IInv == TypeOK /\ Numbered /\ Seam /\ InOrder /\ Gapless /\ ClosedBehind /\ ReadToTheEnd

-----------------------------------------------------------------------------
(***************************************************************************)
(* Types.                                                                  *)
(***************************************************************************)

LEMMA Plain ==
  ASSUME TypeOK, NEW d \in Way
  PROVE  /\ sent[d] \in Seq(Line) /\ got[d] \in Seq(Line)
         /\ Len(sent[d]) \in Nat /\ Len(got[d]) \in Nat /\ MaxLines \in Nat
         /\ read[d] \in Nat /\ copied[d] \in Nat /\ read[d] <= copied[d] /\ copied[d] <= Len(sent[d])
         /\ Len(sent[d]) <= MaxLines
BY BoundsAssumption DEF TypeOK

LEMMA LineKept ==
  \A l \in Line : Readdressed(l) \in Line /\ Readdressed(l).n = l.n
BY DEF Readdressed, Line, ContentKind

LEMMA Ways == Way = {"there", "back"} /\ "there" \in Way /\ "back" \in Way
BY DEF Way

\* A line that is not dealt with yet is one that was written.
LEMMA LineAt ==
  ASSUME TypeOK, NEW d \in Way, NEW n \in 1..Len(sent[d])
  PROVE  sent[d][n] \in Line
<1>1. sent[d] \in Seq(Line)
  BY Plain
<1> QED
  BY <1>1, ElementOfSeq

\* What a process writes is added behind what it wrote before.
LEMMA Grows ==
  ASSUME TypeOK, [Next]_vars, NEW d \in Way
  PROVE  /\ sent'[d] \in Seq(Line) /\ Len(sent'[d]) \in Nat /\ Len(sent[d]) <= Len(sent'[d])
         /\ Len(sent'[d]) <= MaxLines
         /\ \A n \in 1..Len(sent[d]) : sent'[d][n] = sent[d][n]
         /\ \A n \in Len(sent[d]) + 1 .. Len(sent'[d]) :
              sent'[d][n].n = n /\ sent'[d][n].from # "mirror"
         /\ ended[d] => ended'[d] /\ sent'[d] = sent[d]
         /\ sent'[d] = sent[d] \/ \E l \in Written : sent'[d] = Append(sent[d], l)
<1>1. sent \in [Way -> Seq(Line)] /\ ended \in [Way -> BOOLEAN] /\ Len(sent[d]) \in Nat
      /\ sent[d] \in Seq(Line) /\ MaxLines \in Nat /\ Len(sent[d]) <= MaxLines
  BY Plain DEF TypeOK
<1>2. CASE UNCHANGED sent /\ (ended[d] => ended'[d])
  BY <1>1, <1>2
<1>3. CASE \E e \in Way : Write(e)
  <2>1. PICK e \in Way : Write(e)
    BY <1>3
  <2>2. PICK f \in Content : sent' = [sent EXCEPT ![e] = Append(@, [n |-> Len(@) + 1, from |-> f])]
    BY <2>1 DEF Write
  <2>3. UNCHANGED ended /\ ~ended[e] /\ Len(sent[e]) < MaxLines
    BY <2>1 DEF Write
  <2>4. CASE d # e
    <3>1. sent'[d] = sent[d]
      BY <1>1, <2>2, <2>4
    <3> QED
      BY <1>1, <2>3, <3>1
  <2>5. CASE d = e
    <3> DEFINE l == [n |-> Len(sent[d]) + 1, from |-> f]
    <3>1. sent'[d] = Append(sent[d], l)
      BY <1>1, <2>2, <2>5
    <3>2. l \in Line /\ l.n = Len(sent[d]) + 1 /\ l.from # "mirror"
      BY <1>1, <2>3, <2>5, ContentAssumption DEF Line, ContentKind
    <3> HIDE DEF l
    <3>3. /\ Append(sent[d], l) \in Seq(Line) /\ Len(Append(sent[d], l)) = Len(sent[d]) + 1
          /\ \A n \in 1..Len(sent[d]) : Append(sent[d], l)[n] = sent[d][n]
          /\ Append(sent[d], l)[Len(sent[d]) + 1] = l
      BY <1>1, <3>2, AppendProperties
    <3>4. l \in Written
      BY <3>2 DEF Written
    <3> QED
      BY <1>1, <2>3, <2>5, <3>1, <3>2, <3>3, <3>4
  <2> QED
    BY <2>4, <2>5
<1>4. CASE \E e \in Way : CloseSide(e)
  BY <1>1, <1>2, <1>4 DEF CloseSide
<1>5. CASE \E e \in Way : Quit(e)
  BY <1>1, <1>2, <1>5 DEF Quit
<1>6. CASE \/ \E e \in Way : Copier(e) \/ Liner(e)
           \/ Deliver \/ DialFails \/ Cut \/ UNCHANGED vars
  <2>1. UNCHANGED <<sent, ended>>
    BY <1>6 DEF Copier, Copy, EndCopy, CopyFails, Liner, Pass, Ends, EndLines, Deliver, First, NoMessage,
                Dial, DialFails, GiveUp, Cut, procs, vars
  <2> QED
    BY <1>2, <2>1
<1> QED
  BY <1>3, <1>4, <1>5, <1>6 DEF Next

-----------------------------------------------------------------------------
(***************************************************************************)
(* The initial states, and the types.                                      *)
(***************************************************************************)

LEMMA InitStep == Init => IInv
<1> SUFFICES ASSUME Init PROVE IInv
  OBVIOUS
<1> USE BoundsAssumption DEF Init
<1>1. TypeOK
  <2>1. sent \in [Way -> Seq(Line)] /\ got \in [Way -> Seq(Line)]
    OBVIOUS
  <2>2. copier \in [Way -> {"off", "copy", "done", "failed"}]
        /\ liner \in [Way -> {"first", "dial", "lines", "done", "failed"}]
    OBVIOUS
  <2>3. \A d \in Way : read[d] <= copied[d] /\ copied[d] <= Len(sent[d]) /\ Len(sent[d]) <= MaxLines
    OBVIOUS
  <2>4. copied \in [Way -> 0..MaxLines] /\ read \in [Way -> 0..MaxLines]
    OBVIOUS
  <2>5. /\ ended \in [Way -> BOOLEAN] /\ quit \in [Way -> BOOLEAN] /\ torn \in BOOLEAN /\ cut \in BOOLEAN
        /\ streamEnd \in [Way -> BOOLEAN] /\ gotEnd \in [Way -> BOOLEAN]
    OBVIOUS
  <2> QED
    BY <2>1, <2>2, <2>3, <2>4, <2>5 DEF TypeOK
<1>2. \A d \in Way : sent[d] = <<>> /\ got[d] = <<>> /\ read[d] = 0 /\ Taken(d) = 0
                   /\ ~streamEnd[d] /\ ~gotEnd[d] /\ Len(sent[d]) = 0 /\ Len(got[d]) = 0
  BY DEF Taken, Way
<1>3. Numbered /\ InOrder /\ Gapless /\ ClosedBehind /\ ReadToTheEnd
  BY <1>2 DEF Numbered, InOrder, Gapless, ClosedBehind, ReadToTheEnd
<1>4. Seam
  <2>1. "there" \in Way /\ "back" \in Way
    BY Ways
  <2>2. liner["back"] = "lines" /\ liner["there"] = "first"
    BY <2>1
  <2> QED
    BY <2>2 DEF Seam
<1> QED
  BY <1>1, <1>3, <1>4 DEF IInv

\* Which steps take lines, and what they do to the types.
LEMMA TypeStep == IInv /\ [Next]_vars => TypeOK'
<1> SUFFICES ASSUME IInv, [Next]_vars PROVE TypeOK'
  OBVIOUS
<1>1. TypeOK /\ Seam
  BY DEF IInv
<1>2. MaxLines \in Nat /\ "there" \in Way /\ "back" \in Way
  BY BoundsAssumption, Ways
<1>3. \A d \in Way : /\ read[d] \in Nat /\ copied[d] \in Nat /\ Len(sent[d]) \in Nat
                     /\ read[d] <= copied[d] /\ copied[d] <= Len(sent[d]) /\ Len(sent[d]) <= MaxLines
  BY <1>1, Plain
<1>4. sent' \in [Way -> Seq(Line)]
      /\ \A d \in Way : Len(sent'[d]) \in Nat /\ Len(sent[d]) <= Len(sent'[d])
                       /\ Len(sent'[d]) <= MaxLines
  <2>1. sent' = [d \in Way |-> sent'[d]]
    BY <1>1 DEF TypeOK, Next, Write, CloseSide, Quit, Copier, Copy, EndCopy, CopyFails, Liner, Pass, Ends,
       EndLines, Deliver, First, NoMessage, Dial, DialFails, GiveUp, Cut, procs, copies, lines, vars
  <2>2. \A d \in Way : sent'[d] \in Seq(Line) /\ Len(sent'[d]) \in Nat /\ Len(sent[d]) <= Len(sent'[d])
                      /\ Len(sent'[d]) <= MaxLines
    BY <1>1, Grows
  <2> QED
    BY <2>1, <2>2
<1>5. CASE \E d \in Way : Write(d) \/ CloseSide(d) \/ Quit(d)
  <2>1. UNCHANGED <<copies, lines, torn, cut>>
    BY <1>5 DEF Write, CloseSide, Quit
  <2>2. ended' \in [Way -> BOOLEAN] /\ quit' \in [Way -> BOOLEAN]
    BY <1>1, <1>5 DEF TypeOK, Write, CloseSide, Quit
  <2> QED
    BY <1>1, <1>3, <1>4, <2>1, <2>2 DEF TypeOK, copies, lines
<1>6. CASE UNCHANGED vars
  BY <1>1, <1>6 DEF TypeOK, vars, procs, copies, lines
<1>7. CASE Cut
  BY <1>1, <1>3, <1>7 DEF TypeOK, Cut, procs, lines
<1>8. CASE \E d \in Way : Copier(d)
  <2>1. PICK d \in Way : Copier(d)
    BY <1>8
  <2>2. CASE Copy(d)
    <3>1. copied[d] + 1 <= Len(sent[d]) /\ copied[d] + 1 \in 0..MaxLines
      BY <1>1, <1>2, <1>3, <2>2 DEF Copy, TypeOK
    <3>2. copied' \in [Way -> 0..MaxLines]
          /\ \A e \in Way : read[e] <= copied'[e] /\ copied'[e] <= Len(sent[e]) /\ Len(sent[e]) <= MaxLines
      BY <1>1, <1>3, <2>2, <3>1 DEF TypeOK, Copy
    <3> QED
      BY <1>1, <2>2, <3>2 DEF TypeOK, Copy, procs, lines
  <2>3. CASE EndCopy(d)
    BY <1>1, <2>3 DEF TypeOK, EndCopy, procs, lines
  <2>4. CASE CopyFails(d)
    BY <1>1, <2>4 DEF TypeOK, CopyFails, procs, lines
  <2> QED
    BY <2>1, <2>2, <2>3, <2>4 DEF Copier
<1>9. ASSUME NEW d \in Way, NEW n \in 1..Len(sent[d])
      PROVE  Append(got[d], Readdressed(sent[d][n])) \in Seq(Line)
  <2>1. Readdressed(sent[d][n]) \in Line /\ got[d] \in Seq(Line)
    BY <1>1, LineAt, LineKept, Plain
  <2> QED
    BY <2>1, AppendProperties
<1>10. CASE \E d \in Way : Liner(d)
  <2>1. PICK d \in Way : Liner(d)
    BY <1>10
  <2>2. CASE Ends(d)
    BY <1>1, <2>2 DEF TypeOK, Ends, EndLines, procs, copies
  <2>3. CASE Pass(d)
    <3>1. read[d] + 1 \in 1..Len(sent[d]) /\ read[d] + 1 <= copied[d] /\ read[d] + 1 \in 0..MaxLines
      BY <1>2, <1>3, <2>3 DEF Pass, Waiting
    <3>2. read' \in [Way -> 0..MaxLines]
          /\ \A e \in Way : read'[e] <= copied[e] /\ copied[e] <= Len(sent[e]) /\ Len(sent[e]) <= MaxLines
      BY <1>1, <1>3, <2>3, <3>1 DEF TypeOK, Pass
    <3>3. got' \in [Way -> Seq(Line)]
      <4>1. UNCHANGED got \/ got' = [got EXCEPT ![d] = Append(got[d], Readdressed(sent[d][read[d] + 1]))]
        BY <1>1, <2>3 DEF TypeOK, Pass, EndLines, NextLine
      <4>2. Append(got[d], Readdressed(sent[d][read[d] + 1])) \in Seq(Line)
        BY <1>9, <3>1
      <4> QED
        BY <1>1, <4>1, <4>2 DEF TypeOK
    <3>4. UNCHANGED <<procs, copies, torn, cut>>
          /\ liner' \in [Way -> {"first", "dial", "lines", "done", "failed"}]
          /\ gotEnd' \in [Way -> BOOLEAN]
      BY <1>1, <2>3 DEF TypeOK, Pass, EndLines, procs, copies
    <3> QED
      BY <1>1, <3>2, <3>3, <3>4 DEF TypeOK, procs, copies
  <2> QED
    BY <2>1, <2>2, <2>3 DEF Liner
<1>11. CASE NoMessage \/ DialFails
  BY <1>1, <1>2, <1>11 DEF TypeOK, NoMessage, DialFails, GiveUp, procs
<1>12. CASE First
  <2>1. read["there"] + 1 <= copied["there"] /\ read["there"] + 1 \in 0..MaxLines
    BY <1>2, <1>3, <1>12 DEF First, Waiting
  <2>2. read' \in [Way -> 0..MaxLines]
        /\ \A e \in Way : read'[e] <= copied[e] /\ copied[e] <= Len(sent[e]) /\ Len(sent[e]) <= MaxLines
    BY <1>1, <1>2, <1>3, <1>12, <2>1 DEF TypeOK, First
  <2> QED
    BY <1>1, <1>2, <1>12, <2>2 DEF TypeOK, First, GiveUp, procs, copies
<1>13. CASE Dial
  <2>1. read["there"] \in 1..Len(sent["there"])
    BY <1>1, <1>2, <1>3, <1>13 DEF Dial, Seam
  <2>2. got' \in [Way -> Seq(Line)]
    BY <1>1, <1>2, <1>9, <1>13, <2>1 DEF TypeOK, Dial
  <2> QED
    BY <1>1, <1>2, <1>13, <2>2 DEF TypeOK, Dial, procs
<1> QED
  BY <1>5, <1>6, <1>7, <1>8, <1>10, <1>11, <1>12, <1>13 DEF Next, Deliver

LEMMA NumberedStep == IInv /\ [Next]_vars => Numbered'
<1> SUFFICES ASSUME IInv, [Next]_vars PROVE Numbered'
  OBVIOUS
<1>1. TypeOK /\ Numbered
  BY DEF IInv
<1> SUFFICES ASSUME NEW d \in Way, NEW n \in 1..Len(sent'[d])
             PROVE  sent'[d][n].n = n /\ sent'[d][n].from # "mirror"
  BY DEF Numbered
<1>2. Len(sent[d]) \in Nat
  BY <1>1, Plain
<1>3. CASE n \in 1..Len(sent[d])
  BY <1>1, <1>3, Grows DEF Numbered
<1>4. CASE n \in Len(sent[d]) + 1 .. Len(sent'[d])
  BY <1>1, <1>4, Grows
<1> QED
  BY <1>1, <1>2, <1>3, <1>4, Grows

-----------------------------------------------------------------------------
(***************************************************************************)
(* What a step does to the lines that are dealt with.                      *)
(***************************************************************************)

\* The next line is a message and goes to the reader.
Gets(d) ==
  /\ liner[d] \in {"dial", "lines"} /\ liner'[d] = "lines"
  /\ Taken(d) + 1 \in 1..Len(sent[d]) /\ Taken(d)' = Taken(d) + 1
  /\ IsMessage(sent[d][Taken(d) + 1])
  /\ got'[d] = Append(got[d], Readdressed(sent[d][Taken(d) + 1]))

\* The next line is blank.
Skips(d) ==
  /\ UNCHANGED <<got[d], liner[d]>>
  /\ Taken(d) + 1 \in 1..Len(sent[d]) /\ Taken(d)' = Taken(d) + 1
  /\ ~IsMessage(sent[d][Taken(d) + 1])

\* No line is dealt with, or one that cannot be passed on.
Rests(d) ==
  /\ UNCHANGED got[d]
  /\ liner[d] = "failed" => liner'[d] = "failed"
  /\ Taken(d)' \in Nat /\ Taken(d) <= Taken(d)'
  /\ Taken(d)' = Taken(d) \/ liner'[d] = "failed"

LEMMA TakenIsNat ==
  ASSUME TypeOK, Seam, NEW d \in Way
  PROVE  Taken(d) \in Nat /\ Taken(d) <= Len(sent[d])
<1>1. read[d] \in Nat /\ read[d] <= Len(sent[d]) /\ Len(sent[d]) \in Nat
  BY Plain
<1>2. liner[d] = "dial" => read[d] > 0
  BY Ways DEF Seam
<1> QED
  BY <1>1, <1>2 DEF Taken

LEMMA Advances ==
  ASSUME IInv, [Next]_vars, NEW d \in Way
  PROVE  \/ Gets(d) /\ UNCHANGED sent
         \/ Skips(d) /\ UNCHANGED sent
         \/ Rests(d)
<1>1. TypeOK /\ Seam
  BY DEF IInv
<1>2. /\ read[d] \in Nat /\ read[d] <= copied[d] /\ copied[d] <= Len(sent[d]) /\ Len(sent[d]) \in Nat
      /\ copied[d] \in Nat /\ Taken(d) \in Nat
  BY <1>1, Plain, TakenIsNat
<1>3. read \in [Way -> 0..MaxLines] /\ got \in [Way -> Seq(Line)]
      /\ liner \in [Way -> {"first", "dial", "lines", "done", "failed"}]
  BY <1>1 DEF TypeOK
<1>5. CASE UNCHANGED <<read, got, liner>>
  BY <1>2, <1>5 DEF Rests, Taken
<1>6. ASSUME NEW e \in Way, Pass(e)
      PROVE  \/ Gets(d) /\ UNCHANGED sent
             \/ Skips(d) /\ UNCHANGED sent
             \/ Rests(d)
  <2>1. liner[e] = "lines" /\ Waiting(e) /\ read' = [read EXCEPT ![e] = @ + 1] /\ UNCHANGED sent
    BY <1>6 DEF Pass, EndLines, procs
  <2>2. CASE d # e
    <3>1. read'[d] = read[d] /\ got'[d] = got[d] /\ liner'[d] = liner[d]
      BY <1>3, <1>6, <2>1, <2>2 DEF Pass, EndLines
    <3> QED
      BY <1>2, <3>1 DEF Rests, Taken
  <2>3. CASE d = e
    <3>1. read'[d] = read[d] + 1 /\ Taken(d) = read[d] /\ read[d] + 1 \in 1..Len(sent[d])
      BY <1>2, <1>3, <2>1, <2>3 DEF Taken, Waiting
    <3>3. CASE NextLine(d).from = "blank" /\ UNCHANGED <<liner, got>>
      BY <2>1, <3>1, <3>3, <2>3 DEF Skips, Taken, IsMessage, NextLine
    <3>4. CASE /\ NextLine(d).from \notin {"blank", "bad"}
               /\ got' = [got EXCEPT ![d] = Append(@, Readdressed(NextLine(d)))] /\ UNCHANGED liner
      <4>1. got'[d] = Append(got[d], Readdressed(sent[d][Taken(d) + 1]))
        BY <1>3, <3>1, <3>4 DEF NextLine
      <4>3. Taken(d)' = Taken(d) + 1
        BY <2>1, <2>3, <3>1, <3>4 DEF Taken
      <4>4. IsMessage(sent[d][Taken(d) + 1])
        BY <3>1, <3>4 DEF IsMessage, NextLine
      <4> QED
        BY <2>1, <2>3, <3>1, <3>4, <4>1, <4>3, <4>4 DEF Gets
    <3>5. CASE EndLines(d, "failed")
      <4>1. liner'[d] = "failed" /\ UNCHANGED got
        BY <1>3, <3>5 DEF EndLines
      <4> QED
        BY <1>2, <2>1, <2>3, <3>1, <4>1 DEF Rests, Taken
    <3> QED
      BY <1>6, <2>3, <3>3, <3>4, <3>5 DEF Pass
  <2> QED
    BY <2>2, <2>3
<1>7. ASSUME NEW e \in Way, Ends(e) PROVE Rests(d)
  <2>1. liner[e] = "lines" /\ UNCHANGED <<read, got>>
        /\ (liner' = [liner EXCEPT ![e] = "done"] \/ liner' = [liner EXCEPT ![e] = "failed"])
    BY <1>7 DEF Ends, EndLines
  <2>2. liner[d] = "failed" => liner'[d] = "failed"
    BY <1>3, <2>1
  <2>3. liner[d] = "dial" <=> liner'[d] = "dial"
    BY <1>3, <2>1
  <2> QED
    BY <1>2, <2>1, <2>2, <2>3 DEF Rests, Taken
<1>8. CASE First
  <2>1. liner["there"] = "first" /\ read' = [read EXCEPT !["there"] = @ + 1] /\ UNCHANGED got
        /\ (liner' = [liner EXCEPT !["there"] = "dial"] \/ liner' = [liner EXCEPT !["there"] = "failed"])
    BY <1>8 DEF First, GiveUp
  <2>2. CASE d = "there"
    BY <1>2, <1>3, <2>1, <2>2 DEF Rests, Taken
  <2>3. CASE d # "there"
    BY <1>2, <1>3, <2>1, <2>3 DEF Rests, Taken
  <2> QED
    BY <2>2, <2>3
<1>9. CASE NoMessage \/ DialFails
  <2>1. /\ liner["there"] = "first" \/ liner' = [liner EXCEPT !["there"] = "failed"]
        /\ liner["there"] \in {"first", "dial"} /\ UNCHANGED <<read, got>>
        /\ (liner' = [liner EXCEPT !["there"] = "done"] \/ liner' = [liner EXCEPT !["there"] = "failed"])
    BY <1>9 DEF NoMessage, DialFails, GiveUp
  <2>2. CASE d = "there"
    BY <1>2, <1>3, <2>1, <2>2 DEF Rests, Taken
  <2>3. CASE d # "there"
    BY <1>2, <1>3, <2>1, <2>3 DEF Rests, Taken
  <2> QED
    BY <2>2, <2>3
<1>10. CASE Dial
  <2>1. /\ liner["there"] = "dial" /\ UNCHANGED <<sent, read>>
        /\ liner' = [liner EXCEPT !["there"] = "lines"]
        /\ got' = [got EXCEPT !["there"] = Append(@, Readdressed(sent["there"][read["there"]]))]
    BY <1>10 DEF Dial, procs
  <2>2. CASE d = "there"
    <3>1. Taken(d) = read[d] - 1 /\ read[d] > 0 /\ sent[d][read[d]].from \notin {"blank", "bad"}
      BY <1>1, <2>1, <2>2 DEF Taken, Seam
    <3>2. Taken(d) + 1 = read[d] /\ read[d] \in 1..Len(sent[d])
      BY <1>2, <3>1
    <3>3. liner'[d] = "lines" /\ got'[d] = Append(got[d], Readdressed(sent[d][read[d]]))
      BY <1>3, <2>1, <2>2
    <3>4. Taken(d)' = read[d]
      BY <2>1, <3>3 DEF Taken
    <3> QED
      BY <2>1, <2>2, <3>1, <3>2, <3>3, <3>4 DEF Gets, IsMessage
  <2>3. CASE d # "there"
    <3>1. liner'[d] = liner[d] /\ got'[d] = got[d]
      BY <1>3, <2>1, <2>3
    <3> QED
      BY <1>2, <2>1, <3>1 DEF Rests, Taken
  <2> QED
    BY <2>2, <2>3
<1>11. CASE (\E e \in Way : Write(e) \/ CloseSide(e) \/ Quit(e) \/ Copier(e)) \/ Cut \/ UNCHANGED vars
  BY <1>5, <1>11 DEF Write, CloseSide, Quit, Copier, Copy, EndCopy, CopyFails, Cut, vars, lines
<1> QED
  BY <1>6, <1>7, <1>8, <1>9, <1>10, <1>11 DEF Next, Liner, Deliver

LEMMA SeamStep == IInv /\ [Next]_vars => Seam'
<1> SUFFICES ASSUME IInv, [Next]_vars PROVE Seam'
  OBVIOUS
<1>1. TypeOK /\ Seam /\ TypeOK'
  BY TypeStep DEF IInv
<1>2. liner \in [Way -> {"first", "dial", "lines", "done", "failed"}] /\ "there" \in Way /\ "back" \in Way
      /\ read \in [Way -> 0..MaxLines] /\ read["there"] \in Nat /\ read["there"] <= copied["there"]
      /\ copied["there"] <= Len(sent["there"]) /\ Len(sent["there"]) \in Nat /\ copied["there"] \in Nat
  BY <1>1, Ways, Plain DEF TypeOK
<1>3. CASE First
  <2>1. liner'["back"] = liner["back"] /\ read'["there"] = read["there"] + 1 /\ UNCHANGED sent
        /\ (liner'["there"] = "dial" => NextLine("there").from \notin {"blank", "bad"})
    BY <1>2, <1>3 DEF First, GiveUp, procs
  <2> QED
    BY <1>1, <1>2, <2>1 DEF Seam, NextLine
<1>4. CASE ~First
  <2>1. (liner'["there"] = "dial" => liner["there"] = "dial" /\ read'["there"] = read["there"])
        /\ liner'["back"] \notin {"first", "dial"}
    <3>1. CASE UNCHANGED <<liner, read>>
      BY <1>1, <3>1 DEF Seam
    <3>2. CASE NoMessage \/ DialFails \/ Dial
      BY <1>1, <1>2, <3>2 DEF Seam, NoMessage, DialFails, GiveUp, Dial
    <3>3. CASE \E d \in Way : Liner(d)
      BY <1>1, <1>2, <3>3 DEF Seam, Liner, Pass, Ends, EndLines
    <3> QED
      BY <1>4, <3>1, <3>2, <3>3 DEF Next, Deliver, Write, CloseSide, Quit, Copier, Copy, EndCopy,
         CopyFails, Cut, vars, lines
  <2>2. liner["there"] = "dial" => sent'["there"][read["there"]] = sent["there"][read["there"]]
    BY <1>1, <1>2, Grows DEF Seam
  <2> QED
    BY <1>1, <2>1, <2>2 DEF Seam
<1> QED
  BY <1>3, <1>4

\* A message that is received goes behind all that was received before.
LEMMA InOrderStep == IInv /\ [Next]_vars => InOrder'
<1> SUFFICES ASSUME IInv, [Next]_vars PROVE InOrder'
  OBVIOUS
<1>1. TypeOK /\ Seam /\ InOrder /\ Numbered
  BY DEF IInv
<1> SUFFICES ASSUME NEW d \in Way
             PROVE  /\ \A i \in 1..Len(got'[d]) :
                         LET n == got'[d][i].n
                         IN  /\ n \in 1..Taken(d)' /\ IsMessage(sent'[d][n])
                             /\ got'[d][i] = Readdressed(sent'[d][n])
                    /\ \A i, j \in 1..Len(got'[d]) : i < j => got'[d][i].n < got'[d][j].n
  BY DEF InOrder, Taken
<1>2. got[d] \in Seq(Line) /\ Len(got[d]) \in Nat /\ Len(sent[d]) \in Nat
      /\ Taken(d) \in Nat /\ Taken(d) <= Len(sent[d])
  BY <1>1, Plain, TakenIsNat
<1>3. \A i \in 1..Len(got[d]) :
        /\ got[d][i].n \in 1..Taken(d) /\ IsMessage(sent[d][got[d][i].n])
        /\ got[d][i] = Readdressed(sent[d][got[d][i].n])
  BY <1>1 DEF InOrder
<1>4. \A i, j \in 1..Len(got[d]) : i < j => got[d][i].n < got[d][j].n
  BY <1>1 DEF InOrder
<1>5. CASE Skips(d) \/ Rests(d)
  <2>1. got'[d] = got[d] /\ Taken(d)' \in Nat /\ Taken(d) <= Taken(d)'
    BY <1>2, <1>5 DEF Skips, Rests
  <2>2. \A i \in 1..Len(got[d]) : sent'[d][got[d][i].n] = sent[d][got[d][i].n]
    <3>1. \A i \in 1..Len(got[d]) : got[d][i].n \in 1..Len(sent[d])
      BY <1>2, <1>3
    <3>2. \A n \in 1..Len(sent[d]) : sent'[d][n] = sent[d][n]
      BY <1>1, Grows
    <3> QED
      BY <3>1, <3>2, Zenon
  <2>3. \A i \in 1..Len(got[d]) : got[d][i].n \in 1..Taken(d)'
    BY <1>2, <1>3, <2>1
  <2> QED
    BY <1>3, <1>4, <2>1, <2>2, <2>3
<1>6. CASE Gets(d) /\ UNCHANGED sent
  <2> DEFINE m == Taken(d) + 1
             l == Readdressed(sent[d][m])
             g == Append(got[d], l)
  <2>1. m \in 1..Len(sent[d]) /\ Taken(d)' = m /\ IsMessage(sent[d][m]) /\ got'[d] = g
    BY <1>6 DEF Gets
  <2>2. l \in Line /\ l.n = m
    <3>1. sent[d][m] \in Line /\ sent[d][m].n = m
      BY <1>1, <2>1, LineAt DEF Numbered
    <3> QED
      BY <3>1, LineKept
  <2>3. l = Readdressed(sent[d][m]) /\ m = Taken(d) + 1
    OBVIOUS
  <2> HIDE DEF l
  <2>4. Len(g) = Len(got[d]) + 1 /\ g[Len(got[d]) + 1] = l
        /\ \A i \in 1..Len(got[d]) : g[i] = got[d][i]
    BY <1>2, <2>2, AppendProperties
  <2> HIDE DEF g, m
  <2>5. \A i \in 1..Len(g) : i \in 1..Len(got[d]) \/ i = Len(got[d]) + 1
    BY <1>2, <2>4
  <2>6. \A i \in 1..Len(g) :
          /\ g[i].n \in 1..m /\ IsMessage(sent[d][g[i].n])
          /\ g[i] = Readdressed(sent[d][g[i].n])
    <3> SUFFICES ASSUME NEW i \in 1..Len(g)
                 PROVE  /\ g[i].n \in 1..m /\ IsMessage(sent[d][g[i].n])
                        /\ g[i] = Readdressed(sent[d][g[i].n])
      OBVIOUS
    <3>1. CASE i \in 1..Len(got[d])
      <4>1. g[i] = got[d][i] /\ got[d][i].n \in 1..m
        <5>1. g[i] = got[d][i]
          BY <2>4, <3>1
        <5>2. got[d][i].n \in 1..Taken(d)
          BY <1>3, <3>1
        <5>3. 1..Taken(d) \subseteq 1..m
          BY <1>2, <2>3
        <5> QED
          BY <5>1, <5>2, <5>3
      <4> QED
        BY <1>3, <3>1, <4>1
    <3>2. CASE i = Len(got[d]) + 1
      BY <2>1, <2>2, <2>3, <2>4, <3>2
    <3> QED
      BY <2>5, <3>1, <3>2
  <2>7. \A i, j \in 1..Len(g) : i < j => g[i].n < g[j].n
    <3> SUFFICES ASSUME NEW i \in 1..Len(g), NEW j \in 1..Len(g), i < j PROVE g[i].n < g[j].n
      OBVIOUS
    <3>1. i \in 1..Len(got[d]) /\ g[i] = got[d][i]
      BY <1>2, <2>4
    <3>2. CASE j \in 1..Len(got[d])
      BY <1>4, <2>4, <3>1, <3>2
    <3>3. CASE j = Len(got[d]) + 1
      <4>1. got[d][i].n \in 1..Taken(d)
        BY <1>3, <3>1
      <4> QED
        BY <1>2, <2>2, <2>3, <2>4, <3>1, <3>3, <4>1
    <3> QED
      BY <2>5, <3>2, <3>3
  <2> QED
    BY <1>6, <2>1, <2>6, <2>7
<1> QED
  BY <1>5, <1>6, Advances

\* What is dealt with is got or blank, unless the liner fails.
LEMMA GaplessStep == IInv /\ [Next]_vars => Gapless'
<1> SUFFICES ASSUME IInv, [Next]_vars PROVE Gapless'
  OBVIOUS
<1>1. TypeOK /\ Seam /\ Gapless /\ Numbered
  BY DEF IInv
<1> SUFFICES ASSUME NEW d \in Way, liner'[d] # "failed", NEW n \in 1..Taken(d)', IsMessage(sent'[d][n])
             PROVE  \E i \in 1..Len(got'[d]) : got'[d][i].n = n
  BY DEF Gapless, Taken
<1>2. got[d] \in Seq(Line) /\ Len(got[d]) \in Nat /\ Len(sent[d]) \in Nat
      /\ Taken(d) \in Nat /\ Taken(d) <= Len(sent[d])
  BY <1>1, Plain, TakenIsNat
<1>3. ASSUME n \in 1..Taken(d), liner[d] # "failed" PROVE \E i \in 1..Len(got[d]) : got[d][i].n = n
  <2>1. sent'[d][n] = sent[d][n]
    <3>1. n \in 1..Len(sent[d])
      BY <1>2, <1>3
    <3> QED
      BY <1>1, <3>1, Grows
  <2> QED
    BY <1>1, <1>3, <2>1 DEF Gapless
<1>4. CASE Rests(d)
  BY <1>2, <1>3, <1>4 DEF Rests
<1>5. CASE Skips(d) /\ UNCHANGED sent
  <2>1. n # Taken(d) + 1
    BY <1>5 DEF Skips
  <2>2. n \in 1..Taken(d) /\ liner[d] # "failed"
    BY <1>2, <1>5, <2>1 DEF Skips
  <2> QED
    BY <1>3, <1>5, <2>2 DEF Skips
<1>6. CASE Gets(d) /\ UNCHANGED sent
  <2> DEFINE m == Taken(d) + 1
             l == Readdressed(sent[d][m])
             g == Append(got[d], l)
  <2>1. m \in 1..Len(sent[d]) /\ Taken(d)' = m /\ got'[d] = g /\ liner[d] # "failed"
    BY <1>6 DEF Gets
  <2>2. l \in Line /\ l.n = m
    <3>1. sent[d][m] \in Line /\ sent[d][m].n = m
      BY <1>1, <2>1, LineAt DEF Numbered
    <3> QED
      BY <3>1, LineKept
  <2>3. m = Taken(d) + 1
    OBVIOUS
  <2> HIDE DEF l
  <2>4. Len(g) = Len(got[d]) + 1 /\ g[Len(got[d]) + 1] = l
        /\ \A i \in 1..Len(got[d]) : g[i] = got[d][i]
    BY <1>2, <2>2, AppendProperties
  <2> HIDE DEF g, m
  <2>5. CASE n = m
    BY <1>2, <2>1, <2>2, <2>4, <2>5
  <2>6. CASE n # m
    <3>1. n \in 1..Taken(d)
      BY <1>2, <2>1, <2>3, <2>6
    <3>2. PICK i \in 1..Len(got[d]) : got[d][i].n = n
      BY <1>3, <2>1, <3>1
    <3> QED
      BY <1>2, <2>1, <2>4, <3>2
  <2> QED
    BY <2>5, <2>6
<1> QED
  BY <1>4, <1>5, <1>6, Advances

-----------------------------------------------------------------------------
(***************************************************************************)
(* The ends.                                                               *)
(***************************************************************************)

LEMMA ClosedStep == IInv /\ [Next]_vars => ClosedBehind'
<1> SUFFICES ASSUME IInv, [Next]_vars PROVE ClosedBehind'
  OBVIOUS
<1>1. TypeOK /\ ClosedBehind /\ TypeOK'
  BY TypeStep DEF IInv
<1> SUFFICES ASSUME NEW d \in Way, streamEnd'[d], ~torn', ~cut'
             PROVE  ended'[d] /\ copied'[d] = Len(sent'[d])
  BY DEF ClosedBehind
<1>2. streamEnd \in [Way -> BOOLEAN] /\ copied \in [Way -> 0..MaxLines]
  BY <1>1 DEF TypeOK
<1>3. ASSUME streamEnd[d], ~torn, ~cut, copied'[d] = copied[d] PROVE ended'[d] /\ copied'[d] = Len(sent'[d])
  BY <1>1, <1>3, Grows DEF ClosedBehind
<1>4. CASE \E e \in Way : Copy(e)
  <2>1. PICK e \in Way : Copy(e)
    BY <1>4
  <2>2. streamEnd[d] /\ ~torn /\ ~cut
    BY <2>1 DEF Copy
  <2>3. d # e
    BY <1>1, <2>1, <2>2, Plain DEF Copy, ClosedBehind
  <2>4. copied'[d] = copied[d]
    BY <1>2, <2>1, <2>3 DEF Copy
  <2> QED
    BY <1>3, <2>2, <2>4
<1>5. CASE \E e \in Way : EndCopy(e)
  <2>1. PICK e \in Way : EndCopy(e)
    BY <1>5
  <2>2. ended[e] /\ copied[e] = Len(sent[e]) /\ UNCHANGED <<sent, ended, copied, torn, cut>>
        /\ streamEnd' = [streamEnd EXCEPT ![e] = TRUE]
    BY <2>1 DEF EndCopy, procs
  <2>3. CASE d = e
    BY <2>2, <2>3
  <2>4. CASE d # e
    <3>1. streamEnd[d]
      BY <1>2, <2>2, <2>4
    <3> QED
      BY <1>3, <2>2, <3>1
  <2> QED
    BY <2>3, <2>4
<1>6. CASE UNCHANGED <<streamEnd, copied, torn, cut>>
  BY <1>3, <1>6
<1>7. CASE torn' \/ cut'
  BY <1>7
<1>8. CASE \E e \in Way : Pass(e) \/ Ends(e) \/ Write(e) \/ CloseSide(e) \/ Quit(e) \/ CopyFails(e)
  BY <1>6, <1>8 DEF Pass, Ends, EndLines, Write, CloseSide, Quit, CopyFails, copies
<1>9. CASE Deliver \/ DialFails \/ Cut \/ UNCHANGED vars
  BY <1>6, <1>7, <1>9 DEF Deliver, First, NoMessage, Dial, DialFails, GiveUp, Cut, vars, copies
<1> QED
  BY <1>4, <1>5, <1>8, <1>9 DEF Next, Copier, Liner

LEMMA ReadStep == IInv /\ [Next]_vars => ReadToTheEnd'
<1> SUFFICES ASSUME IInv, [Next]_vars PROVE ReadToTheEnd'
  OBVIOUS
<1>1. TypeOK /\ ClosedBehind /\ ReadToTheEnd /\ Seam
  BY DEF IInv
<1> SUFFICES ASSUME NEW d \in Way, gotEnd'[d], liner'[d] = "done", ~torn', ~cut'
             PROVE  streamEnd'[d] /\ read'[d] = copied'[d]
  BY DEF ReadToTheEnd
<1>2. /\ streamEnd \in [Way -> BOOLEAN] /\ copied \in [Way -> 0..MaxLines] /\ gotEnd \in [Way -> BOOLEAN]
      /\ liner \in [Way -> {"first", "dial", "lines", "done", "failed"}] /\ read \in [Way -> 0..MaxLines]
  BY <1>1 DEF TypeOK
<1>3. ASSUME gotEnd[d], liner[d] = "done", ~torn, ~cut, read'[d] = read[d], copied'[d] = copied[d],
             streamEnd[d] => streamEnd'[d]
      PROVE  streamEnd'[d] /\ read'[d] = copied'[d]
  BY <1>1, <1>3 DEF ReadToTheEnd
<1>4. CASE \E e \in Way : Copy(e)
  <2>1. PICK e \in Way : Copy(e)
    BY <1>4
  <2>2. gotEnd[d] /\ liner[d] = "done" /\ ~torn /\ ~cut /\ UNCHANGED <<streamEnd, read>>
    BY <2>1 DEF Copy, lines
  <2>3. d # e
    <3>1. streamEnd[d]
      BY <1>1, <2>2 DEF ReadToTheEnd
    <3> QED
      BY <1>1, <2>1, <2>2, <3>1, Plain DEF Copy, ClosedBehind
  <2>4. copied'[d] = copied[d]
    BY <1>2, <2>1, <2>3 DEF Copy
  <2> QED
    BY <1>3, <2>2, <2>4
<1>5. CASE \E e \in Way : EndCopy(e)
  BY <1>2, <1>3, <1>5 DEF EndCopy, lines
<1>6. CASE \E e \in Way : Pass(e)
  <2>1. PICK e \in Way : Pass(e)
    BY <1>6
  <2>2. liner[e] = "lines" /\ (UNCHANGED liner \/ liner' = [liner EXCEPT ![e] = "failed"])
        /\ (UNCHANGED gotEnd \/ gotEnd' = [gotEnd EXCEPT ![e] = TRUE])
        /\ read' = [read EXCEPT ![e] = @ + 1] /\ UNCHANGED <<streamEnd, copied, torn, cut>>
    BY <2>1 DEF Pass, EndLines, copies
  <2>3. d # e
    BY <1>2, <2>2
  <2>4. liner[d] = "done" /\ gotEnd[d] /\ read'[d] = read[d]
    BY <1>2, <2>2, <2>3
  <2> QED
    BY <1>3, <2>2, <2>4
<1>7. CASE \E e \in Way : Ends(e)
  <2>1. PICK e \in Way : Ends(e)
    BY <1>7
  <2>2. /\ liner[e] = "lines" /\ ~Waiting(e) /\ (streamEnd[e] \/ cut)
        /\ UNCHANGED <<streamEnd, copied, read, torn, cut>>
        /\ (liner' = [liner EXCEPT ![e] = "done"] \/ liner' = [liner EXCEPT ![e] = "failed"])
        /\ gotEnd' = [gotEnd EXCEPT ![e] = TRUE]
    BY <2>1 DEF Ends, EndLines, copies
  <2>3. CASE d # e
    BY <1>2, <1>3, <2>2, <2>3
  <2>4. CASE d = e
    <3>1. streamEnd[d] /\ read[d] <= copied[d] /\ ~(read[d] < copied[d]) /\ read[d] \in Nat /\ copied[d] \in Nat
      BY <1>1, <2>2, <2>4, Plain DEF Waiting
    <3> QED
      BY <2>2, <3>1
  <2> QED
    BY <2>3, <2>4
<1>8. CASE First \/ Dial
  <2>1. CASE torn'
    BY <2>1
  <2>2. CASE ~torn'
    <3>1. /\ liner["there"] \in {"first", "dial"} /\ UNCHANGED <<gotEnd, cut>> /\ (torn => torn')
          /\ liner' = [liner EXCEPT !["there"] = "dial"] \/ liner' = [liner EXCEPT !["there"] = "lines"]
          /\ UNCHANGED read \/ read' = [read EXCEPT !["there"] = @ + 1]
          /\ UNCHANGED <<streamEnd, copied>>
      BY <1>8, <2>2 DEF First, Dial, GiveUp, copies
    <3>2. d # "there" /\ liner[d] = "done" /\ read'[d] = read[d]
      BY <1>2, <3>1
    <3> QED
      BY <1>3, <2>2, <3>1, <3>2
  <2> QED
    BY <2>1, <2>2
<1>9. CASE UNCHANGED <<copied, streamEnd, liner, read, gotEnd, torn, cut>>
  BY <1>3, <1>9
<1>10. CASE torn' \/ cut'
  BY <1>10
<1>11. CASE \E e \in Way : Write(e) \/ CloseSide(e) \/ Quit(e) \/ CopyFails(e)
  BY <1>9, <1>11 DEF Write, CloseSide, Quit, CopyFails, copies, lines
<1>12. CASE NoMessage \/ DialFails \/ Cut \/ UNCHANGED vars
  BY <1>9, <1>10, <1>12 DEF NoMessage, DialFails, GiveUp, Cut, vars, copies, lines
<1> QED
  BY <1>4, <1>5, <1>6, <1>7, <1>8, <1>11, <1>12 DEF Next, Copier, Liner, Deliver

-----------------------------------------------------------------------------
(***************************************************************************)
(* The theorems.                                                           *)
(***************************************************************************)

\* The inductive invariant holds in every behaviour of a relayed connection.
THEOREM CourierInductive == Spec => []IInv
<1>1. IInv /\ [Next]_vars => IInv'
  BY TypeStep, NumberedStep, SeamStep, InOrderStep, GaplessStep, ClosedStep, ReadStep DEF IInv
<1> QED
  BY <1>1, InitStep, PTL DEF Spec

\* Copiers never get ahead of what was written nor liners of what was copied, whatever is
\* cut, refused or torn (pump and deliver).
THEOREM CourierTypeCorrect == Spec => []TypeOK
<1>1. IInv => TypeOK
  BY DEF IInv
<1> QED
  BY <1>1, CourierInductive, PTL

\* An end that is told by a liner that is done comes behind every message, on connections of
\* any length (copy, then shutdown; relay_lines, then shutdown).
THEOREM EndsMeanAll == Spec => []EndMeansAll
<1>1. IInv => EndMeansAll
  <2> SUFFICES ASSUME IInv, NEW d \in Way, gotEnd[d], liner[d] = "done", ~torn, ~cut
               PROVE  /\ ended[d]
                      /\ \A n \in 1..Len(sent[d]) : IsMessage(sent[d][n]) =>
                           \E i \in 1..Len(got[d]) : got[d][i] = Readdressed(sent[d][n])
    BY DEF EndMeansAll
  <2>1. streamEnd[d] /\ read[d] = copied[d] /\ ended[d] /\ copied[d] = Len(sent[d])
    BY DEF IInv, ReadToTheEnd, ClosedBehind
  <2>2. Taken(d) = Len(sent[d])
    BY <2>1 DEF Taken
  <2> SUFFICES ASSUME NEW n \in 1..Len(sent[d]), IsMessage(sent[d][n])
               PROVE  \E i \in 1..Len(got[d]) : got[d][i] = Readdressed(sent[d][n])
    BY <2>1
  <2>3. PICK i \in 1..Len(got[d]) : got[d][i].n = n
    BY <2>2 DEF IInv, Gapless
  <2>4. got[d][i] = Readdressed(sent[d][n])
    BY <2>3 DEF IInv, InOrder
  <2> QED
    BY <2>4
<1> QED
  BY <1>1, CourierInductive, PTL

-----------------------------------------------------------------------------
(***************************************************************************)
(* The promise of a conversation.                                          *)
(***************************************************************************)

\* All that was dealt with behind the last line that was got is blank.
LEMMA BlankSince ==
  ASSUME IInv, NEW d \in Way, liner[d] # "failed"
  PROVE  /\ Heard(d) \in 0..Taken(d)
         /\ \A k \in Heard(d) + 1 .. Taken(d) : ~IsMessage(sent[d][k])
<1>1. TypeOK /\ Seam /\ InOrder /\ Gapless
  BY DEF IInv
<1>2. got[d] \in Seq(Line) /\ Len(got[d]) \in Nat /\ Taken(d) \in Nat
  BY <1>1, Plain, TakenIsNat
<1>3. \A i \in 1..Len(got[d]) : got[d][i].n \in 1..Taken(d)
  BY <1>1 DEF InOrder
<1>4. \A i, j \in 1..Len(got[d]) : i < j => got[d][i].n < got[d][j].n
  BY <1>1 DEF InOrder
<1>5. \A i \in 1..Len(got[d]) : got[d][i].n <= Heard(d)
  <2> SUFFICES ASSUME NEW i \in 1..Len(got[d]) PROVE got[d][i].n <= Heard(d)
    OBVIOUS
  <2>1. got[d] # <<>> /\ Len(got[d]) \in 1..Len(got[d])
    BY <1>2
  <2>2. Heard(d) = got[d][Len(got[d])].n
    BY <2>1 DEF Heard
  <2>3. CASE i = Len(got[d])
    BY <1>3, <2>2, <2>3
  <2>4. CASE i < Len(got[d])
    BY <1>3, <1>4, <2>1, <2>2, <2>4
  <2> QED
    BY <1>2, <2>3, <2>4
<1>6. Heard(d) \in 0..Taken(d)
  <2>1. CASE got[d] = <<>>
    BY <1>2, <2>1 DEF Heard
  <2>2. CASE got[d] # <<>>
    <3>1. Len(got[d]) \in 1..Len(got[d])
      BY <1>2, <2>2, EmptySeq
    <3> QED
      BY <1>2, <1>3, <2>2, <3>1 DEF Heard
  <2> QED
    BY <2>1, <2>2
<1> SUFFICES ASSUME NEW k \in Heard(d) + 1 .. Taken(d), IsMessage(sent[d][k]) PROVE FALSE
  BY <1>6
<1>7. k \in 1..Taken(d)
  BY <1>2, <1>6
<1>8. PICK i \in 1..Len(got[d]) : got[d][i].n = k
  BY <1>1, <1>7 DEF Gapless
<1> QED
  BY <1>2, <1>5, <1>6, <1>8

\* One direction either does nothing, or is written to, or hands on its next message.
LEMMA DirectionStep ==
  ASSUME IInv, [Next]_vars, NEW d \in Way
  PROVE  \/ UNCHANGED <<sent[d], got[d]>>
         \/ UNCHANGED got[d] /\ \E l \in Written : sent'[d] = Append(sent[d], l)
         \/ /\ UNCHANGED sent[d]
            /\ \E n \in Heard(d) + 1 .. Len(sent[d]) :
                 /\ IsMessage(sent[d][n])
                 /\ \A k \in Heard(d) + 1 .. n - 1 : ~IsMessage(sent[d][k])
                 /\ got'[d] = Append(got[d], Readdressed(sent[d][n]))
                 /\ Heard(d)' = n
<1>1. TypeOK /\ Seam /\ Numbered
  BY DEF IInv
<1>2. CASE Skips(d) \/ Rests(d)
  BY <1>1, <1>2, Grows DEF Skips, Rests
<1>3. CASE Gets(d) /\ UNCHANGED sent
  <2> DEFINE m == Taken(d) + 1
             l == Readdressed(sent[d][m])
             g == Append(got[d], l)
  <2>1. m \in 1..Len(sent[d]) /\ IsMessage(sent[d][m]) /\ got'[d] = g /\ liner[d] # "failed"
    BY <1>3 DEF Gets
  <2>2. l \in Line /\ l.n = m
    <3>1. sent[d][m] \in Line /\ sent[d][m].n = m
      BY <1>1, <2>1, LineAt DEF Numbered
    <3> QED
      BY <3>1, LineKept
  <2>3. Heard(d) \in 0..Taken(d) /\ \A k \in Heard(d) + 1 .. Taken(d) : ~IsMessage(sent[d][k])
    BY <2>1, BlankSince
  <2>4. Taken(d) \in Nat /\ Len(sent[d]) \in Nat /\ got[d] \in Seq(Line) /\ Len(got[d]) \in Nat
    BY <1>1, TakenIsNat, Plain
  <2>5. m \in Heard(d) + 1 .. Len(sent[d]) /\ m - 1 = Taken(d)
    BY <2>1, <2>3, <2>4
  <2>6. Heard(d)' = m
    <3> HIDE DEF l
    <3>1. Len(g) = Len(got[d]) + 1 /\ g[Len(got[d]) + 1] = l
      BY <2>2, <2>4, AppendProperties
    <3>2. g # <<>>
      BY <2>4, <3>1
    <3> HIDE DEF g, m
    <3>3. Heard(d)' = IF g = <<>> THEN 0 ELSE g[Len(g)].n
      BY <2>1 DEF Heard
    <3> QED
      BY <2>2, <3>1, <3>2, <3>3
  <2> QED
    BY <1>3, <2>1, <2>3, <2>5, <2>6
<1> QED
  BY <1>2, <1>3, Advances

LEMMA ThereStep == IInv /\ [Next]_vars => [There!Send \/ There!Receive]_(There!cvars)
<1> SUFFICES ASSUME IInv, [Next]_vars PROVE [There!Send \/ There!Receive]_(There!cvars)
  OBVIOUS
<1> QED
  BY DirectionStep, Ways DEF There!Send, There!Receive, There!cvars, Heard

LEMMA BackStep == IInv /\ [Next]_vars => [Back!Send \/ Back!Receive]_(Back!cvars)
<1> SUFFICES ASSUME IInv, [Next]_vars PROVE [Back!Send \/ Back!Receive]_(Back!cvars)
  OBVIOUS
<1> QED
  BY DirectionStep, Ways DEF Back!Send, Back!Receive, Back!cvars, Heard

\* Both directions keep the promise of a conversation, with any number of lines of every kind,
\* across the seam between the line deliver reads and those relay_lines does.
THEOREM CourierConverses == Spec => Conversations
<1>1. Init => There!CInit /\ Back!CInit
  BY Ways DEF Init, There!CInit, Back!CInit, Heard
<1> QED
  BY <1>1, ThereStep, BackStep, CourierInductive, PTL DEF Spec, Conversations, There!CSpec, Back!CSpec

=============================================================================
