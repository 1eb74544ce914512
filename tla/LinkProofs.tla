----------------------------- MODULE LinkProofs -----------------------------
(***************************************************************************)
(* Proofs about Link, for every value of its constants.                    *)
(***************************************************************************)
EXTENDS Link, SequenceTheorems, TLAPS

(***************************************************************************)
(* The inductive invariant.                                                *)
(***************************************************************************)

\* What a relay has put up and taken down is determined by where it is.
Phases ==
  \A e \in End :
    /\ pc[e] \in Handshake \cup {"record", "bye", "leave", "done", "refused", "cut", "answered", "abandoned"}
         => Bare(e)
    /\ pc[e] \in {"unkey", "unsock"} => ~Shown(e)
    /\ pc[e] = "unsock" => ~key[e]
    /\ pc[e] \in {"watch", "handlers", "loop", "debounce", "withdraw", "unkey", "unsock"}
         => sock[e] = "ours"

\* Once a goodbye is on its way, its sender is on its way out with nothing left behind.
Told ==
  \A e \in End : InTransit("bye", Peer(e)) => Bare(e) /\ pc[e] \in {"leave"} \cup Ended

\* The two relays keep to their own halves of the handshake.
Roles ==
  /\ pc["near"] = "resolve" => pc["far"] = "unborn"
  /\ pc["near"] # "unborn"
  /\ pc["far"] \notin {"resolve", "greet", "await", "refused"}

\* Nothing is published, and no Ready is sent, before the far end has agreed.
Agreed ==
  /\ pc["far"] \in {"unborn", "accept", "drain", "answered", "abandoned", "cut"} => agreement["far"] = 0
  /\ InTransit("ready", "near") => agreement["far"] # 0
  /\ \A e \in End :
       pc[e] \in Publishing \cup Loop \cup Closing \/ ~Bare(e) => agreement["far"] # 0

\* A record that is sent is a record that was written.
Stamped ==
  \A e \in End : \A m \in Range(chan[e]) : m.type \in {"attach", "update"} => m.stamp # 0

\* A transport that nothing else broke ended with the relay at its other end; so the one
\* that found it ended, or was let go by that, is not the first to end.
Endings ==
  /\ \A e \in End : closed[e] => dropped \/ pc[Peer(e)] \in Ended
  /\ ~dropped /\ pc["far"] = "answered" => pc["near"] \in Ended
  /\ ~dropped /\ pc["near"] = "cut" => pc["far"] \in Ended

IInv ==
  /\ TypeOK
  /\ Phases
  /\ Told
  /\ Roles
  /\ Agreed
  /\ Stamped
  /\ Endings
  /\ ReasonIsHeard

-----------------------------------------------------------------------------
(***************************************************************************)
(* Queues: what a send, a read and a cut leave in one.                     *)
(***************************************************************************)

LEMMA AppendLemma ==
  ASSUME NEW S, NEW q \in Seq(S), NEW m \in S
  PROVE  /\ Append(q, m) \in Seq(S)
         /\ Range(Append(q, m)) = Range(q) \cup {m}
<1>1. /\ Append(q, m) \in Seq(S)
      /\ DOMAIN Append(q, m) = 1..(Len(q) + 1)
      /\ DOMAIN q = 1..Len(q)
      /\ Len(q) \in Nat
      /\ \A i \in 1..Len(q) : Append(q, m)[i] = q[i]
      /\ Append(q, m)[Len(q) + 1] = m
  BY AppendProperties, LenProperties
<1> QED BY <1>1, SMT DEF Range

LEMMA TailLemma ==
  ASSUME NEW S, NEW q \in Seq(S), q # <<>>
  PROVE  /\ Head(q) \in Range(q)
         /\ Head(q) \in S
         /\ Tail(q) \in Seq(S)
         /\ Range(Tail(q)) \subseteq Range(q)
<1>1. /\ Head(q) \in S
      /\ Tail(q) \in Seq(S)
      /\ DOMAIN Tail(q) = 1..(Len(q) - 1)
      /\ DOMAIN q = 1..Len(q)
      /\ Len(q) \in Nat \ {0}
      /\ \A i \in 1..(Len(q) - 1) : Tail(q)[i] = q[i + 1]
  BY HeadTailProperties, LenProperties, EmptySeq
<1>2. Head(q) = q[1]
  BY <1>1
<1> QED BY <1>1, <1>2, SMT DEF Range

LEMMA SubSeqLemma ==
  ASSUME NEW S, NEW q \in Seq(S), NEW i \in Nat \ {0}, NEW j \in 0..Len(q)
  PROVE  /\ SubSeq(q, i, j) \in Seq(S)
         /\ Range(SubSeq(q, i, j)) \subseteq Range(q)
<1>1. /\ Len(q) \in Nat
      /\ DOMAIN q = 1..Len(q)
      /\ \A k \in 1..Len(q) : q[k] \in S
  BY LenProperties, ElementOfSeq
<1>2. /\ SubSeq(q, i, j) \in Seq(S)
      /\ Len(SubSeq(q, i, j)) = IF i <= j THEN j - i + 1 ELSE 0
      /\ \A k \in 1..(j - i + 1) : SubSeq(q, i, j)[k] = q[i + k - 1]
  BY <1>1, SubSeqProperties
<1>3. DOMAIN SubSeq(q, i, j) = 1..Len(SubSeq(q, i, j))
  BY <1>2, LenProperties
<1> QED BY <1>1, <1>2, <1>3, SMT DEF Range

-----------------------------------------------------------------------------
(***************************************************************************)
(* Type correctness.                                                       *)
(***************************************************************************)

LEMMA SentType ==
  ASSUME TypeOK, NEW e \in End, NEW m \in Message
  PROVE  /\ Sent(e, m) \in [End -> Seq(Message)]
         /\ \A x \in End : Range(Sent(e, m)[x]) \subseteq Range(chan[x]) \cup {m}
         /\ Range(Sent(e, m)[e]) = Range(chan[e])
<1>1. /\ Append(chan[Peer(e)], m) \in Seq(Message)
      /\ Range(Append(chan[Peer(e)], m)) = Range(chan[Peer(e)]) \cup {m}
  BY AppendLemma DEF TypeOK, End, Peer
<1> QED BY <1>1 DEF TypeOK, Sent, End, Peer

LEMMA ExitType ==
  ASSUME TypeOK, NEW e \in End, NEW how \in Ended, Exit(e, how)
  PROVE  TypeOK' /\ \A x \in End : Range(chan'[x]) \subseteq Range(chan[x])
<1>1. PICK n \in 0..Len(chan[Peer(e)]) :
        chan' = [chan EXCEPT ![e] = <<>>, ![Peer(e)] = SubSeq(@, 1, n)]
  BY DEF Exit
<1>2. /\ Peer(e) \in End /\ Peer(e) # e
      /\ chan[Peer(e)] \in Seq(Message) /\ chan[e] \in Seq(Message)
  BY DEF TypeOK, End, Peer
<1>3. /\ SubSeq(chan[Peer(e)], 1, n) \in Seq(Message)
      /\ Range(SubSeq(chan[Peer(e)], 1, n)) \subseteq Range(chan[Peer(e)])
  BY <1>2, SubSeqLemma
<1>4. <<>> \in Seq(Message) /\ Range(<<>>) = {}
  BY EmptySeq DEF Range
<1>5. chan'[e] = <<>> /\ chan'[Peer(e)] = SubSeq(chan[Peer(e)], 1, n)
  BY <1>1, <1>2 DEF TypeOK
<1>6. chan' \in [End -> Seq(Message)]
  BY <1>1, <1>2, <1>3, <1>4 DEF TypeOK
<1>7. \A x \in End : x = e \/ x = Peer(e)
  BY DEF End, Peer
<1>8. \A x \in End : Range(chan'[x]) \subseteq Range(chan[x])
  BY <1>3, <1>4, <1>5, <1>7
<1>9. pc' \in [End -> Alive \cup {"unborn"} \cup Ended]
  BY DEF TypeOK, Exit, Goto
<1>10. /\ sig' \in [End -> BOOLEAN] /\ closed' \in [End -> BOOLEAN]
       /\ sock' \in [End -> {"none", "stale", "other", "ours"}]
  BY DEF TypeOK, Exit
<1>11. changes' \in [End -> 0..WatchCap] /\ inbound' \in [End -> 0..StreamCap]
  BY BoundsAssumption DEF TypeOK, Exit
<1>12. UNCHANGED <<offered, agreement, mirror, key, session, stamp, now, dropped>>
  BY DEF Exit, sessions
<1>13. TypeOK'
  BY <1>6, <1>9, <1>10, <1>11, <1>12 DEF TypeOK
<1> QED BY <1>8, <1>13

LEMMA BitsType ==
  ASSUME TypeOK
  PROVE  /\ \A e \in End : Notified(e) \in [End -> 0..WatchCap]
         /\ Tick \in Stamp
         /\ Stamp \subseteq 0..MaxNow
         /\ 0 \in 0..MaxNow
         /\ \A t \in MsgType, n \in 0..MaxNow : Msg(t, n) \in Message
<1>1. \A e \in End : Notified(e) \in [End -> 0..WatchCap]
  BY BoundsAssumption DEF TypeOK, Notified
<1>2. Tick \in Stamp
  BY BoundsAssumption DEF TypeOK, Tick, Stamp
<1> QED BY <1>1, <1>2, BoundsAssumption DEF Stamp, Msg, Message

LEMMA HeadType ==
  ASSUME TypeOK, NEW e \in End, chan[e] # <<>>
  PROVE  /\ Head(chan[e]) \in Message /\ Head(chan[e]) \in Range(chan[e])
         /\ Head(chan[e]).stamp \in 0..MaxNow
         /\ Tail(chan[e]) \in Seq(Message)
         /\ Range(Tail(chan[e])) \subseteq Range(chan[e])
<1>1. chan[e] \in Seq(Message)
  BY DEF TypeOK
<1>2. /\ Head(chan[e]) \in Message /\ Head(chan[e]) \in Range(chan[e])
      /\ Tail(chan[e]) \in Seq(Message)
      /\ Range(Tail(chan[e])) \subseteq Range(chan[e])
  BY <1>1, TailLemma
<1> QED BY <1>2 DEF Message

\* Break leaves the shape of the state alone.
LEMMA BreakType ==
  ASSUME TypeOK, NEW e \in End, Break(e),
         chan' \in [End -> Seq(Message)], UNCHANGED <<inbound, closed, dropped>>
  PROVE  TypeOK'
<1>1. pc' \in [End -> Alive \cup {"unborn"} \cup Ended]
  BY DEF TypeOK, Break, Goto, Alive, Closing
<1>2. changes' \in [End -> 0..WatchCap] /\ sig' \in [End -> BOOLEAN]
  BY BoundsAssumption DEF TypeOK, Break
<1>3. UNCHANGED <<offered, agreement, mirror, key, sock, session, stamp, now>>
  BY DEF Break, files, sessions
<1> QED BY <1>1, <1>2, <1>3 DEF TypeOK

\* A step from one label to another that leaves everything else alone but what its case
\* names keeps pc in its range.
LEMMA GotoType ==
  ASSUME TypeOK, NEW e \in End, NEW l \in Alive, Goto(e, l)
  PROVE  pc' \in [End -> Alive \cup {"unborn"} \cup Ended]
BY DEF TypeOK, Goto

LEMMA TypeStep == TypeOK /\ [Next]_vars => TypeOK'
<1> SUFFICES ASSUME TypeOK, [Next]_vars
             PROVE  TypeOK'
  OBVIOUS
<1> USE BitsType, BoundsAssumption
<1>1. CASE Near
  <2>1. CASE Resolve
    <3>1. CASE Exit("near", "failed")
      BY <3>1, ExitType DEF End, Ended
    <3>2. CASE ~Exit("near", "failed")
      BY <2>1, <3>2 DEF Resolve, TypeOK, files, sessions, wire, End, Alive, Handshake
    <3> QED BY <3>1, <3>2
  <2>2. CASE StartList
    BY <2>2 DEF StartList, TypeOK, files, sessions, wire, End, Alive, Handshake
  <2>3. CASE Greet
    <3>1. Msg(IF offered = 0 THEN "list" ELSE "attach", offered) \in Message
      BY DEF TypeOK, MsgType
    <3>2. chan' \in [End -> Seq(Message)]
      BY <2>3, <3>1, SentType DEF Greet, End
    <3>3. pc' \in [End -> Alive \cup {"unborn"} \cup Ended]
      BY <2>3, GotoType DEF Greet, End, Alive, Handshake
    <3> QED BY <2>3, <3>2, <3>3 DEF Greet, TypeOK, files, sessions
  <2>4. CASE HearReady
    <3>1. chan' \in [End -> Seq(Message)]
      <4>1. PICK n \in 1..Len(chan["near"]) :
              chan' = [chan EXCEPT !["near"] = SubSeq(@, n + 1, Len(@))]
        BY <2>4 DEF HearReady
      <4>2. chan["near"] \in Seq(Message) /\ Len(chan["near"]) \in Nat
        BY LenProperties DEF TypeOK, End
      <4>3. SubSeq(chan["near"], n + 1, Len(chan["near"])) \in Seq(Message)
        BY <4>2, SubSeqLemma
      <4> QED BY <4>1, <4>3 DEF TypeOK, End
    <3>2. pc' \in [End -> Alive \cup {"unborn"} \cup Ended]
      BY <2>4, GotoType DEF HearReady, End, Alive, Publishing
    <3>3. agreement' \in [End -> 0..MaxNow]
      BY <2>4, HeadType DEF HearReady, TypeOK, End
    <3> QED BY <2>4, <3>1, <3>2, <3>3 DEF HearReady, TypeOK, files, sessions
  <2>5. CASE HearRefused
    BY <2>5, ExitType DEF HearRefused, End, Ended
  <2>6. CASE HearSessions
    BY <2>6, ExitType DEF HearSessions, End, Ended
  <2> QED BY <1>1, <2>1, <2>2, <2>3, <2>4, <2>5, <2>6 DEF Near, Hear
<1>2. CASE Far
  <2>1. ASSUME NEW m \in Message, NEW l \in Alive, Answer(m, l),
               agreement' \in [End -> 0..MaxNow]
        PROVE  TypeOK'
    <3>1. chan' \in [End -> Seq(Message)]
      <4>1. Sent("far", m) \in [End -> Seq(Message)]
        BY <2>1, SentType DEF End
      <4>2. Tail(chan["far"]) \in Seq(Message)
        BY <2>1, HeadType DEF Answer, End
      <4> QED BY <2>1, <4>1, <4>2 DEF Answer, End
    <3>2. pc' \in [End -> Alive \cup {"unborn"} \cup Ended]
      BY <2>1, GotoType DEF Answer, End
    <3> QED BY <2>1, <3>1, <3>2 DEF Answer, TypeOK, files, sessions
  <2>2. /\ Msg("refused", 0) \in Message /\ Msg("sessions", 0) \in Message
        /\ Msg("ready", stamp["far"]) \in Message
        /\ "drain" \in Alive /\ "record" \in Alive
    BY DEF TypeOK, MsgType, Alive, Handshake, Publishing, End
  <2>3. CASE Refuse
    BY <2>1, <2>2, <2>3 DEF Refuse, TypeOK
  <2>4. CASE AnswerList
    BY <2>1, <2>2, <2>4 DEF AnswerList, TypeOK
  <2>5. CASE Accept
    <3>1. agreement' \in [End -> 0..MaxNow]
      BY <2>5, HeadType DEF Accept, TypeOK, End
    <3> QED BY <2>1, <2>2, <2>5, <3>1 DEF Accept
  <2>6. CASE Drained
    BY <2>6, ExitType DEF Drained, End, Ended
  <2> QED BY <1>2, <2>3, <2>4, <2>5, <2>6 DEF Far, Hello
<1>3. ASSUME NEW e \in End, Setup(e) PROVE TypeOK'
  <2>1. CASE Cut(e)
    BY <2>1, ExitType DEF Cut, Ended
  <2>2. CASE PublishRecord(e)
    <3>1. CASE Exit(e, "failed")
      BY <3>1, ExitType DEF Ended
    <3>2. CASE ~Exit(e, "failed")
      <4>1. pc' \in [End -> Alive \cup {"unborn"} \cup Ended]
        BY <2>2, <3>2, GotoType DEF PublishRecord, Alive, Publishing
      <4>2. mirror' \in [End -> [src : 0..MaxNow, at : 0..MaxNow]]
        <5>1. mirror' = [mirror EXCEPT ![e] = [src |-> agreement[e], at |-> agreement[e]]]
          BY <2>2, <3>2 DEF PublishRecord
        <5>2. agreement[e] \in 0..MaxNow
          BY DEF TypeOK
        <5> QED BY <5>1, <5>2 DEF TypeOK
      <4> QED BY <2>2, <3>2, <4>1, <4>2 DEF PublishRecord, TypeOK, sessions, wire
    <3> QED BY <3>1, <3>2
  <2>3. CASE PublishKey(e)
    <3>1. pc' \in [End -> Alive \cup {"unborn"} \cup Ended]
      BY <2>3, GotoType DEF PublishKey, Alive, Publishing
    <3> QED BY <2>3, <3>1 DEF PublishKey, TypeOK, sessions, wire
  <2>4. CASE Bind(e)
    <3>1. CASE Exit(e, "failed")
      BY <3>1, ExitType DEF Ended
    <3>2. CASE ~Exit(e, "failed")
      <4>1. pc' \in [End -> Alive \cup {"unborn"} \cup Ended]
        BY <2>4, <3>2, GotoType DEF Bind, Alive, Publishing
      <4> QED BY <2>4, <3>2, <4>1 DEF Bind, TypeOK, sessions, wire
    <3> QED BY <3>1, <3>2
  <2>5. CASE Watch(e)
    <3>1. pc' \in [End -> Alive \cup {"unborn"} \cup Ended]
      BY <2>5, GotoType DEF Watch, Alive, Publishing
    <3> QED BY <2>5, <3>1 DEF Watch, TypeOK, files, sessions, wire
  <2>6. CASE InstallHandlers(e)
    <3>1. pc' \in [End -> Alive \cup {"unborn"} \cup Ended]
      BY <2>6, GotoType DEF InstallHandlers, Alive, Loop
    <3> QED BY <2>6, <3>1 DEF InstallHandlers, TypeOK, files, sessions, wire
  <2> QED BY <1>3, <2>1, <2>2, <2>3, <2>4, <2>5, <2>6 DEF Setup
<1>4. ASSUME NEW e \in End, Push(e) PROVE TypeOK'
  <2>1. CASE Break(e) /\ UNCHANGED wire
    BY <2>1, BreakType DEF wire, TypeOK
  <2>2. CASE ~(Break(e) /\ UNCHANGED wire)
    <3>1. Msg("update", stamp[e]) \in Message
      BY DEF TypeOK, MsgType
    <3>2. chan' \in [End -> Seq(Message)]
      BY <1>4, <2>2, <3>1, SentType DEF Push
    <3>3. pc' \in [End -> Alive \cup {"unborn"} \cup Ended]
      BY <1>4, <2>2, GotoType DEF Push, Alive, Loop
    <3> QED BY <1>4, <2>2, <3>2, <3>3 DEF Push, TypeOK, files, sessions
  <2> QED BY <2>1, <2>2
<1>5. ASSUME NEW e \in End, Withdraw(e) PROVE TypeOK'
  <2>1. CASE RemoveRecord(e)
    <3>1. pc' \in [End -> Alive \cup {"unborn"} \cup Ended]
      BY <2>1, GotoType DEF RemoveRecord, Alive, Closing
    <3> QED BY <2>1, <3>1 DEF RemoveRecord, NoMirror, TypeOK, sessions, wire
  <2>2. CASE RemoveKey(e)
    <3>1. pc' \in [End -> Alive \cup {"unborn"} \cup Ended]
      BY <2>2, GotoType DEF RemoveKey, Alive, Closing
    <3> QED BY <2>2, <3>1 DEF RemoveKey, TypeOK, sessions, wire
  <2>3. CASE RemoveSocket(e)
    <3>1. pc' \in [End -> Alive \cup {"unborn"} \cup Ended]
      BY <2>3, GotoType DEF RemoveSocket, Alive, Closing
    <3> QED BY <2>3, <3>1 DEF RemoveSocket, TypeOK, sessions, wire
  <2>4. CASE SayBye(e)
    <3>1. Msg("bye", 0) \in Message
      BY DEF MsgType
    <3>2. chan' \in [End -> Seq(Message)]
      BY <2>4, <3>1, SentType DEF SayBye
    <3>3. pc' \in [End -> Alive \cup {"unborn"} \cup Ended]
      BY <2>4, GotoType DEF SayBye, Alive, Closing
    <3> QED BY <2>4, <3>2, <3>3 DEF SayBye, TypeOK, files, sessions
  <2>5. CASE Leave(e)
    BY <2>5, ExitType DEF Leave, Ended
  <2> QED BY <1>5, <2>1, <2>2, <2>3, <2>4, <2>5 DEF Withdraw
<1>6. ASSUME NEW e \in End, Arm(e) PROVE TypeOK'
  <2>1. CASE AcceptLocal(e)
    <3>1. CASE Exit(e, "failed")
      BY <3>1, ExitType DEF Ended
    <3>2. CASE ~Exit(e, "failed")
      <4>1. inbound' \in [End -> 0..StreamCap]
        <5>1. inbound[Peer(e)] < StreamCap /\ inbound' = [inbound EXCEPT ![Peer(e)] = @ + 1]
          BY <2>1, <3>2 DEF AcceptLocal
        <5>2. inbound[Peer(e)] \in 0..StreamCap /\ inbound \in [End -> 0..StreamCap]
          BY DEF TypeOK, End, Peer
        <5>3. inbound[Peer(e)] + 1 \in 0..StreamCap
          BY <5>1, <5>2
        <5> QED BY <5>1, <5>2, <5>3
      <4> QED BY <2>1, <3>2, <4>1 DEF AcceptLocal, TypeOK, relay, files, sessions
    <3> QED BY <3>1, <3>2
  <2>2. CASE AcceptInbound(e)
    <3>1. CASE Exit(e, "failed")
      BY <3>1, ExitType DEF Ended
    <3>2. CASE ~Exit(e, "failed")
      <4>1. inbound' \in [End -> 0..StreamCap]
        <5>1. inbound[e] > 0 /\ inbound' = [inbound EXCEPT ![e] = @ - 1]
          BY <2>2, <3>2 DEF AcceptInbound
        <5>2. inbound[e] \in 0..StreamCap /\ inbound \in [End -> 0..StreamCap]
          BY DEF TypeOK
        <5>3. inbound[e] - 1 \in 0..StreamCap
          BY <5>1, <5>2
        <5> QED BY <5>1, <5>2, <5>3
      <4> QED BY <2>2, <3>2, <4>1 DEF AcceptInbound, TypeOK, relay, files, sessions
    <3> QED BY <3>1, <3>2
  <2>3. CASE LinkClosed(e)
    BY <2>3, BreakType DEF LinkClosed, wire, TypeOK
  <2>4. CASE ReadUpdate(e)
    <3>1. chan' \in [End -> Seq(Message)]
      BY <2>4, HeadType DEF ReadUpdate, TypeOK
    <3>2. mirror' \in [End -> [src : 0..MaxNow, at : 0..MaxNow]]
      BY <2>4, HeadType DEF ReadUpdate, TypeOK
    <3>3. changes' \in [End -> 0..WatchCap]
      BY <2>4 DEF ReadUpdate
    <3> QED BY <2>4, <3>1, <3>2, <3>3 DEF ReadUpdate, TypeOK, relay, sessions
  <2>5. CASE ReadBye(e)
    <3>1. chan' \in [End -> Seq(Message)]
      BY <2>5, HeadType DEF ReadBye, TypeOK
    <3> QED BY <2>5, <3>1, BreakType DEF ReadBye
  <2>6. CASE ReadEof(e)
    BY <2>6, BreakType DEF ReadEof, wire, TypeOK
  <2>7. CASE TakeChange(e)
    <3>1. pc' \in [End -> Alive \cup {"unborn"} \cup Ended]
      BY <2>7, GotoType DEF TakeChange, Alive, Loop
    <3>2. changes' \in [End -> 0..WatchCap]
      <4>1. changes[e] > 0 /\ changes' = [changes EXCEPT ![e] = @ - 1]
        BY <2>7 DEF TakeChange
      <4>2. changes[e] \in 0..WatchCap /\ changes \in [End -> 0..WatchCap]
        BY DEF TypeOK
      <4>3. changes[e] - 1 \in 0..WatchCap
        BY <4>1, <4>2
      <4> QED BY <4>1, <4>2, <4>3
    <3> QED BY <2>7, <3>1, <3>2 DEF TakeChange, TypeOK, files, sessions, wire
  <2>8. CASE Heartbeat(e)
    <3>1. mirror' \in [End -> [src : 0..MaxNow, at : 0..MaxNow]]
      BY <2>8 DEF Heartbeat, TypeOK
    <3>2. now' \in Stamp /\ changes' \in [End -> 0..WatchCap]
      BY <2>8 DEF Heartbeat
    <3> QED BY <2>8, <3>1, <3>2 DEF Heartbeat, TypeOK, relay, wire
  <2>9. CASE SignalArm(e)
    BY <2>9, BreakType DEF SignalArm, wire, TypeOK
  <2> QED BY <1>6, <2>1, <2>2, <2>3, <2>4, <2>5, <2>6, <2>7, <2>8, <2>9
          DEF Arm, Incoming, ReadControl
<1>7. ASSUME NEW e \in End, Environment(e) PROVE TypeOK'
  <2>1. CASE Rewrite(e)
    <3>1. now' \in Stamp /\ stamp' \in [End -> Stamp] /\ changes' \in [End -> 0..WatchCap]
      BY <2>1 DEF Rewrite, TypeOK
    <3> QED BY <2>1, <3>1 DEF Rewrite, TypeOK, relay, files, wire
  <2>2. CASE SessionEnds(e)
    <3>1. session' \in [End -> {"here", "gone", "reused"}] /\ changes' \in [End -> 0..WatchCap]
      BY <2>2 DEF SessionEnds, TypeOK
    <3> QED BY <2>2, <3>1 DEF SessionEnds, TypeOK, relay, files, wire
  <2>3. CASE Foreign(e)
    BY <2>3 DEF Foreign, TypeOK, relay, files, sessions, wire
  <2>4. CASE Terminate(e)
    <3>1. CASE Exit(e, "killed")
      BY <3>1, ExitType DEF Ended
    <3>2. CASE ~Exit(e, "killed")
      BY <2>4, <3>2 DEF Terminate, TypeOK, files, sessions, wire
    <3> QED BY <3>1, <3>2
  <2>5. CASE Kill(e) \/ Fault(e)
    BY <2>5, ExitType DEF Kill, Fault, Ended
  <2> QED BY <1>7, <2>1, <2>2, <2>3, <2>4, <2>5 DEF Environment
<1>8. CASE LinkDrops
  <2>1. chan' \in [End -> Seq(Message)]
    <3>1. PICK n \in 0..Len(chan["near"]), f \in 0..Len(chan["far"]) :
            chan' = [e \in End |-> SubSeq(chan[e], 1, IF e = "near" THEN n ELSE f)]
      BY <1>8 DEF LinkDrops
    <3>2. ASSUME NEW e \in End
          PROVE  SubSeq(chan[e], 1, IF e = "near" THEN n ELSE f) \in Seq(Message)
      <4>1. chan[e] \in Seq(Message) /\ (IF e = "near" THEN n ELSE f) \in 0..Len(chan[e])
        BY DEF TypeOK, End
      <4> QED BY <4>1, SubSeqLemma
    <3> QED BY <3>1, <3>2
  <2> QED BY <1>8, <2>1 DEF LinkDrops, TypeOK, relay, files, sessions
<1>9. ASSUME NEW e \in End, Sweep(e) PROVE TypeOK'
  BY <1>9 DEF Sweep, NoMirror, TypeOK, relay, sessions, wire
<1>10. CASE UNCHANGED vars
  BY <1>10 DEF vars, relay, files, sessions, wire, TypeOK
<1> QED BY <1>1, <1>2, <1>3, <1>4, <1>5, <1>6, <1>7, <1>8, <1>9, <1>10 DEF Next, Sequel

LEMMA InitType == Init => TypeOK
<1> SUFFICES ASSUME Init PROVE TypeOK
  OBVIOUS
<1>1. chan \in [End -> Seq(Message)]
  BY EmptySeq DEF Init
<1>2. pc \in [End -> Alive \cup {"unborn"} \cup Ended]
  BY DEF Init, End, Alive, Handshake
<1>3. sock \in [End -> {"none", "stale", "other", "ours"}]
  BY DEF Init
<1>4. 1 \in Stamp /\ 0 \in 0..MaxNow /\ 0 \in 0..WatchCap /\ 0 \in 0..StreamCap
  BY BoundsAssumption DEF Stamp
<1>5. mirror \in [End -> [src : 0..MaxNow, at : 0..MaxNow]]
  BY <1>4 DEF Init, NoMirror
<1>6. session \in [End -> {"here", "gone", "reused"}]
  BY DEF Init
<1> QED BY <1>1, <1>2, <1>3, <1>4, <1>5, <1>6 DEF Init, TypeOK

\* TypeOK: every variable keeps to its set, and the watcher's channel, the queue of
\* streams and the clock to their bounds.
THEOREM TypeCorrect == Spec => []TypeOK
BY InitType, TypeStep, PTL DEF Spec

-----------------------------------------------------------------------------
(***************************************************************************)
(* The inductive invariant is preserved.  The steps of a relay between its *)
(* bind and the end of its loop share one argument, the ends of a process  *)
(* another; the others are taken one by one.                               *)
(***************************************************************************)

Serving == {"watch", "handlers", "loop", "debounce", "withdraw"}

LEMMA ServingStep ==
  ASSUME IInv, TypeOK',
         \A e \in End : pc'[e] = pc[e] \/ (pc[e] \in Serving /\ pc'[e] \in Serving),
         \A e \in End : mirror'[e] = mirror[e] \/ pc[e] \in Serving,
         UNCHANGED <<key, sock, agreement, closed, dropped>>,
         \A e \in End : \A m \in Range(chan'[e]) : m \in Range(chan[e]) \/ (m.type = "update" /\ m.stamp # 0)
  PROVE  IInv'
<1>1. \A e \in End, t \in {"bye", "ready"} : InTransit(t, e)' => InTransit(t, e)
  BY DEF InTransit
<1>2. \A e \in End : pc[e] \in Serving \/ (pc'[e] = pc[e] /\ Bare(e)' = Bare(e) /\ Shown(e)' = Shown(e))
  BY DEF Bare, Shown
<1>3. \A e \in End : Peer(e) \in End
  BY DEF Peer, End
<1>4. Phases'
  BY <1>2 DEF IInv, Phases, Serving, Handshake
<1>5. Told'
  <2> SUFFICES ASSUME NEW e \in End, InTransit("bye", Peer(e))'
               PROVE  Bare(e)' /\ pc'[e] \in {"leave"} \cup Ended
    BY DEF Told
  <2>1. InTransit("bye", Peer(e))
    BY <1>1, <1>3
  <2>2. Bare(e) /\ pc[e] \in {"leave"} \cup Ended
    BY <2>1 DEF IInv, Told
  <2> QED BY <1>2, <2>2 DEF Serving, Ended
<1>6. Roles'
  BY DEF IInv, Roles, Serving, End
<1>7. Agreed'
  <2>1. \A e \in End : pc[e] \in Serving => agreement["far"] # 0
    BY DEF IInv, Agreed, Serving, Publishing, Loop, Closing
  <2>2. \A e \in End : (pc[e] \in Publishing \cup Loop \cup Closing \/ ~Bare(e))' => agreement'["far"] # 0
    BY <1>2, <2>1 DEF IInv, Agreed
  <2>3. (pc["far"] \in {"unborn", "accept", "drain", "answered", "abandoned", "cut"})' => agreement'["far"] = 0
    BY DEF IInv, Agreed, Serving, End
  <2>4. InTransit("ready", "near")' => agreement'["far"] # 0
    BY <1>1 DEF IInv, Agreed, End
  <2> QED BY <2>2, <2>3, <2>4 DEF Agreed
<1>10. Stamped'
  BY DEF IInv, Stamped
<1>8. Endings'
  BY <1>3 DEF IInv, Endings, Serving, Ended, End
<1>9. ReasonIsHeard'
  BY DEF IInv, ReasonIsHeard, Serving, End
<1> QED BY <1>4, <1>5, <1>6, <1>7, <1>8, <1>9, <1>10 DEF IInv

LEMMA ExitStep ==
  ASSUME IInv, NEW e \in End, NEW how \in Ended, Exit(e, how),
         pc[e] \in Alive,
         how \notin {"failed", "killed"} => Bare(e),
         e = "far" => how # "refused",
         e = "far" /\ how \in {"answered", "abandoned", "cut"} => agreement["far"] = 0,
         how = "cut" \/ (e = "far" /\ how = "answered") => closed[e]
  PROVE  IInv'
<1>1. TypeOK' /\ \A x \in End : Range(chan'[x]) \subseteq Range(chan[x])
  BY ExitType DEF IInv
<1>2. \A x \in End, t \in {"bye", "ready"} : InTransit(t, x)' => InTransit(t, x)
  BY <1>1 DEF InTransit
<1>3. /\ pc' = [pc EXCEPT ![e] = how]
      /\ closed' = [closed EXCEPT ![Peer(e)] = TRUE]
      /\ sock' = [sock EXCEPT ![e] = IF @ = "ours" THEN "stale" ELSE @]
      /\ UNCHANGED <<mirror, key, agreement, dropped>>
  BY DEF Exit, Goto
<1>4. /\ pc \in [End -> Alive \cup {"unborn"} \cup Ended]
      /\ sock \in [End -> {"none", "stale", "other", "ours"}]
      /\ closed \in [End -> BOOLEAN]
  BY DEF IInv, TypeOK
<1>5. /\ pc'[e] = how
      /\ \A x \in End \ {e} : pc'[x] = pc[x] /\ sock'[x] = sock[x]
      /\ sock'[e] # "ours"
      /\ \A x \in End : closed'[x] => closed[x] \/ x = Peer(e)
  BY <1>3, <1>4
<1>6. /\ \A x \in End : Bare(x) => Bare(x)'
      /\ \A x \in End : Shown(x)' = Shown(x) /\ key'[x] = key[x]
  BY <1>3, <1>5 DEF Bare, Shown
<1>7. pc[e] \notin Ended /\ pc[e] # "unborn"
  BY DEF Alive, Ended, Handshake, Publishing, Loop, Closing
<1>8. /\ Peer("near") = "far" /\ Peer("far") = "near" /\ Peer(e) \in End /\ Peer(Peer(e)) = e
      /\ End = {"near", "far"}
  BY DEF Peer, End
<1>9. Phases'
  <2> SUFFICES ASSUME NEW x \in End
               PROVE  /\ (pc[x] \in Handshake \cup {"record", "bye", "leave", "done", "refused", "cut", "answered", "abandoned"})' => Bare(x)'
                      /\ (pc[x] \in {"unkey", "unsock"})' => ~Shown(x)'
                      /\ (pc[x] = "unsock")' => ~key'[x]
                      /\ (pc[x] \in {"watch", "handlers", "loop", "debounce", "withdraw", "unkey", "unsock"})' => sock'[x] = "ours"
    BY DEF Phases
  <2>1. CASE x = e
    BY <1>5, <1>6, <2>1 DEF Ended, Handshake
  <2>2. CASE x # e
    BY <1>5, <1>6, <2>2 DEF IInv, Phases
  <2> QED BY <2>1, <2>2
<1>10. Told'
  BY <1>2, <1>5, <1>6, <1>8 DEF IInv, Told
<1>11. Roles'
  BY <1>5, <1>7, <1>8 DEF IInv, Roles, Ended
<1>12. Agreed'
  <2>1. \A x \in End : (pc[x] \in Publishing \cup Loop \cup Closing \/ ~Bare(x))' =>
           pc[x] \in Publishing \cup Loop \cup Closing \/ ~Bare(x)
    BY <1>5, <1>6 DEF Ended, Publishing, Loop, Closing
  <2>2. (pc["far"] \in {"unborn", "accept", "drain", "answered", "abandoned", "cut"})' => agreement["far"] = 0
    BY <1>5, <1>8 DEF IInv, Agreed, Ended
  <2> QED BY <1>1, <1>2, <1>3, <1>8, <2>1, <2>2 DEF IInv, Agreed
<1>14. Stamped'
  BY <1>1 DEF IInv, Stamped
<1>13. Endings' /\ ReasonIsHeard'
  BY <1>3, <1>5, <1>7, <1>8 DEF IInv, Endings, ReasonIsHeard
<1> QED BY <1>1, <1>9, <1>10, <1>11, <1>12, <1>13, <1>14 DEF IInv

\* A step of one relay that sends nothing and keeps the handshake's results, from a
\* label where it may have artifacts to another; what it put up or took down is the
\* caller's to show.
LEMMA FilesStep ==
  ASSUME IInv, TypeOK', NEW e \in End, NEW l \in Publishing \cup Closing, Goto(e, l),
         pc[e] \in Publishing \cup Closing,
         UNCHANGED <<chan, agreement, closed, dropped>>,
         \A x \in End \ {e} : mirror'[x] = mirror[x] /\ key'[x] = key[x] /\ sock'[x] = sock[x],
         l \in {"bye", "leave"} => Bare(e)',
         l \in {"record"} => Bare(e)',
         l \in {"unkey", "unsock"} => ~Shown(e)',
         l = "unsock" => ~key'[e],
         l \in {"watch", "handlers", "withdraw", "unkey", "unsock"} => sock'[e] = "ours",
         pc[e] # "leave"
  PROVE  IInv'
<1>1. /\ pc'[e] = l
      /\ \A x \in End \ {e} : pc'[x] = pc[x] /\ (Bare(x)' <=> Bare(x)) /\ (Shown(x)' <=> Shown(x))
  BY DEF IInv, TypeOK, Goto, Bare, Shown
<1>2. /\ l \notin Handshake \cup Ended \cup Loop
      /\ pc[e] \notin Handshake \cup Ended \cup Loop
      /\ l \in {"bye", "leave"} \/ l \notin {"bye", "leave", "done", "refused", "cut", "answered", "abandoned"}
  BY DEF Publishing, Closing, Handshake, Ended, Loop
<1>3. Phases'
  <2> SUFFICES ASSUME NEW x \in End
               PROVE  /\ (pc[x] \in Handshake \cup {"record", "bye", "leave", "done", "refused", "cut", "answered", "abandoned"})' => Bare(x)'
                      /\ (pc[x] \in {"unkey", "unsock"})' => ~Shown(x)'
                      /\ (pc[x] = "unsock")' => ~key'[x]
                      /\ (pc[x] \in {"watch", "handlers", "loop", "debounce", "withdraw", "unkey", "unsock"})' => sock'[x] = "ours"
    BY DEF Phases
  <2>1. CASE x = e
    BY <1>1, <1>2, <2>1 DEF Loop
  <2>2. CASE x # e
    BY <1>1, <2>2 DEF IInv, Phases
  <2> QED BY <2>1, <2>2
<1>4. Told'
  <2> SUFFICES ASSUME NEW x \in End, InTransit("bye", Peer(x))'
               PROVE  Bare(x)' /\ pc'[x] \in {"leave"} \cup Ended
    BY DEF Told
  <2>1. Bare(x) /\ pc[x] \in {"leave"} \cup Ended
    BY DEF IInv, Told, InTransit
  <2>2. x # e
    BY <1>2, <2>1
  <2> QED BY <1>1, <2>1, <2>2
<1>5. Roles'
  BY <1>1, <1>2 DEF IInv, Roles, End, Handshake, Ended
<1>6. Agreed'
  <2>1. agreement["far"] # 0
    BY DEF IInv, Agreed
  <2>2. (pc["far"] \notin {"unborn", "accept", "drain", "answered", "abandoned", "cut"})'
    BY <1>1, <1>2, <2>1 DEF IInv, Agreed, Handshake, Ended, End
  <2> QED BY <2>1, <2>2 DEF IInv, Agreed
<1>7. Endings' /\ ReasonIsHeard'
  BY <1>1, <1>2 DEF IInv, Endings, ReasonIsHeard, End, Ended, Peer
<1>8. Stamped'
  BY DEF IInv, Stamped
<1> QED BY <1>3, <1>4, <1>5, <1>6, <1>7, <1>8 DEF IInv

\* A handshake step of one relay, before either has put anything up.
LEMMA HandshakeStep ==
  ASSUME IInv, TypeOK', NEW e \in End,
         \A x \in End \ {e} : pc'[x] = pc[x],
         pc[e] \in Handshake, pc'[e] \in Handshake \cup {"record"},
         UNCHANGED <<mirror, key, sock, closed, dropped>>,
         \A x \in End : InTransit("bye", x)' => InTransit("bye", x),
         Stamped',
         InTransit("ready", "near")' => agreement'["far"] # 0,
         (pc["far"] \in {"unborn", "accept", "drain", "answered", "abandoned", "cut"})' => agreement'["far"] = 0,
         agreement["far"] # 0 => agreement'["far"] # 0,
         (pc[e] = "record")' => agreement'["far"] # 0,
         pc'[e] \notin {"unborn", "resolve"},
         e = "far" => pc'[e] \notin {"greet", "await"} /\ pc[e] # "unborn"
  PROVE  IInv'
<1>1. /\ pc[e] \notin Ended \cup {"leave"}
      /\ pc'[e] \notin Ended \cup Loop \cup Closing \cup (Publishing \ {"record"})
  BY DEF Handshake, Publishing, Loop, Closing, Ended
<1>2. \A x \in End : (Bare(x)' <=> Bare(x)) /\ (Shown(x)' <=> Shown(x))
  BY DEF Bare, Shown
<1>3. Bare(e)
  BY DEF IInv, Phases
<1>4. Phases'
  <2> SUFFICES ASSUME NEW x \in End
               PROVE  /\ (pc[x] \in Handshake \cup {"record", "bye", "leave", "done", "refused", "cut", "answered", "abandoned"})' => Bare(x)'
                      /\ (pc[x] \in {"unkey", "unsock"})' => ~Shown(x)'
                      /\ (pc[x] = "unsock")' => ~key'[x]
                      /\ (pc[x] \in {"watch", "handlers", "loop", "debounce", "withdraw", "unkey", "unsock"})' => sock'[x] = "ours"
    BY DEF Phases
  <2>1. CASE x = e
    BY <1>1, <1>2, <1>3, <2>1 DEF Handshake
  <2>2. CASE x # e
    BY <1>2, <2>2 DEF IInv, Phases
  <2> QED BY <2>1, <2>2
<1>5. Told'
  <2> SUFFICES ASSUME NEW x \in End, InTransit("bye", Peer(x))'
               PROVE  Bare(x)' /\ pc'[x] \in {"leave"} \cup Ended
    BY DEF Told
  <2>1. Bare(x) /\ pc[x] \in {"leave"} \cup Ended
    BY DEF IInv, Told, End, Peer
  <2> QED BY <1>1, <1>2, <2>1
<1>6. Roles'
  BY <1>1 DEF IInv, Roles, End, Handshake, Ended
<1>7. Agreed'
  <2>1. ASSUME NEW x \in End, (pc[x] \in Publishing \cup Loop \cup Closing \/ ~Bare(x))'
        PROVE  agreement'["far"] # 0
    <3>1. CASE x = e
      BY <1>1, <1>2, <1>3, <2>1, <3>1
    <3>2. CASE x # e
      BY <1>2, <2>1, <3>2 DEF IInv, Agreed
    <3> QED BY <3>1, <3>2
  <2> QED BY <2>1 DEF Agreed
<1>8. Endings' /\ ReasonIsHeard'
  BY <1>1 DEF IInv, Endings, ReasonIsHeard, End, Ended, Peer
<1> QED BY <1>4, <1>5, <1>6, <1>7, <1>8 DEF IInv

\* Both relays start at once: the near one has resolved, or only lists, and starts the far.
LEMMA StartStep ==
  ASSUME IInv, TypeOK', pc["near"] = "resolve", pc' = [near |-> "greet", far |-> "accept"],
         UNCHANGED <<mirror, key, sock, chan, agreement, closed, dropped>>
  PROVE  IInv'
<1>1. pc["far"] = "unborn"
  BY DEF IInv, Roles
<1>2. pc'["near"] = "greet" /\ pc'["far"] = "accept"
  OBVIOUS
<1>3. \A x \in End : Bare(x)' /\ Bare(x)
  BY <1>1 DEF IInv, Phases, Bare, Shown, End, Handshake
<1>4. Phases'
  BY <1>2, <1>3 DEF Phases, End
<1>5. \A x \in End : ~InTransit("bye", Peer(x))'
  BY <1>1 DEF IInv, Told, InTransit, End, Ended
<1>6. Roles' /\ Endings' /\ ReasonIsHeard'
  BY <1>1, <1>2 DEF IInv, Roles, Endings, ReasonIsHeard, End, Peer, Ended
<1>7. Agreed'
  BY <1>1, <1>2, <1>3 DEF IInv, Agreed, InTransit, End, Publishing, Loop, Closing
<1>8. Stamped'
  BY DEF IInv, Stamped
<1> QED BY <1>4, <1>5, <1>6, <1>7, <1>8 DEF IInv, Told

LEMMA NearStep == ASSUME IInv, TypeOK', Near PROVE IInv'
<1> USE DEF End
<1>1. CASE Resolve
  <2>1. CASE Exit("near", "failed")
    BY <1>1, <2>1, ExitStep DEF Resolve, Ended, Alive, Handshake
  <2>2. CASE ~Exit("near", "failed")
    BY <1>1, <2>2, StartStep DEF Resolve, files, wire
  <2> QED BY <2>1, <2>2
<1>2. CASE StartList
  BY <1>2, StartStep DEF StartList, files, wire
<1>3. CASE Greet
  <2> DEFINE m == Msg(IF offered = 0 THEN "list" ELSE "attach", offered)
  <2>1. m \in Message /\ m.type \notin {"bye", "ready", "update"} /\ (m.type = "attach" => m.stamp # 0)
    BY BitsType DEF IInv, TypeOK, Msg, MsgType
  <2>2. /\ \A x \in End : Range(chan'[x]) \subseteq Range(chan[x]) \cup {m}
        /\ UNCHANGED <<mirror, key, sock, closed, dropped, agreement>>
        /\ pc["near"] = "greet" /\ Goto("near", "await")
    BY <1>3, <2>1, SentType DEF Greet, IInv, files
  <2>3. pc'["near"] = "await" /\ pc'["far"] = pc["far"]
    BY <2>2 DEF IInv, TypeOK, Goto
  <2>4. /\ \A x \in End : InTransit("bye", x)' => InTransit("bye", x)
        /\ InTransit("ready", "near")' => InTransit("ready", "near")
        /\ Stamped'
    BY <2>1, <2>2 DEF InTransit, IInv, Stamped
  <2> QED BY <2>2, <2>3, <2>4, HandshakeStep DEF IInv, Agreed, Handshake
<1>4. CASE HearReady
  <2>1. /\ chan["near"] # <<>> /\ Head(chan["near"]).type = "ready"
        /\ pc["near"] = "await" /\ Goto("near", "record")
        /\ UNCHANGED <<mirror, key, sock, closed, dropped>>
        /\ agreement' = [agreement EXCEPT !["near"] = Head(chan["near"]).stamp]
    BY <1>4 DEF HearReady, files
  <2>2. InTransit("ready", "near")
    BY <2>1, HeadType DEF InTransit, IInv
  <2>3. agreement["far"] # 0 /\ agreement'["far"] = agreement["far"]
    BY <2>1, <2>2 DEF IInv, Agreed, TypeOK
  <2>4. \A x \in End : Range(chan'[x]) \subseteq Range(chan[x])
    <3>1. PICK n \in 1..Len(chan["near"]) :
            chan' = [chan EXCEPT !["near"] = SubSeq(@, n + 1, Len(@))]
      BY <1>4 DEF HearReady
    <3>2. chan["near"] \in Seq(Message) /\ Len(chan["near"]) \in Nat /\ n + 1 \in Nat \ {0}
      BY LenProperties DEF IInv, TypeOK
    <3>3. Range(SubSeq(chan["near"], n + 1, Len(chan["near"]))) \subseteq Range(chan["near"])
      BY <3>2, SubSeqLemma
    <3> QED BY <3>1, <3>3 DEF IInv, TypeOK
  <2>5. pc'["near"] = "record" /\ pc'["far"] = pc["far"]
    BY <2>1 DEF IInv, TypeOK, Goto
  <2>6. /\ \A x \in End : InTransit("bye", x)' => InTransit("bye", x)
        /\ Stamped'
    BY <2>4 DEF InTransit, IInv, Stamped
  <2> QED BY <2>1, <2>3, <2>5, <2>6, HandshakeStep DEF IInv, Agreed, Handshake
<1>5. CASE HearRefused \/ HearSessions
  <2>1. pc["near"] = "await"
    BY <1>5 DEF HearRefused, HearSessions
  <2>2. Bare("near")
    BY <2>1 DEF IInv, Phases, Handshake
  <2> QED BY <1>5, <2>1, <2>2, ExitStep DEF HearRefused, HearSessions, Alive, Ended, Handshake
<1> QED BY <1>1, <1>2, <1>3, <1>4, <1>5 DEF Near, Hear

LEMMA FarStep == ASSUME IInv, TypeOK', Far PROVE IInv'
<1> USE DEF End
<1>1. ASSUME NEW m \in Message, NEW l \in {"drain", "record"}, Answer(m, l),
             m.type \notin {"bye", "attach", "update"}
      PROVE  /\ \A x \in End : InTransit("bye", x)' => InTransit("bye", x)
             /\ Stamped'
             /\ InTransit("ready", "near")' => InTransit("ready", "near") \/ m.type = "ready"
             /\ pc["far"] = "accept" /\ pc'["far"] = l /\ pc'["near"] = pc["near"]
             /\ UNCHANGED <<mirror, key, sock, closed, dropped>>
  <2>1. \A x \in End : Range(chan'[x]) \subseteq Range(chan[x]) \cup {m}
    <3>1. Sent("far", m) \in [End -> Seq(Message)]
          /\ \A x \in End : Range(Sent("far", m)[x]) \subseteq Range(chan[x]) \cup {m}
      BY SentType DEF IInv
    <3>2. Range(Tail(chan["far"])) \subseteq Range(chan["far"])
      BY <1>1, HeadType DEF Answer, IInv
    <3> QED BY <1>1, <3>1, <3>2 DEF Answer
  <2> QED BY <1>1, <2>1 DEF InTransit, IInv, Stamped, Answer, files, Goto, TypeOK
<1>2. /\ Msg("refused", 0) \in Message /\ Msg("sessions", 0) \in Message
      /\ Msg("ready", stamp["far"]) \in Message
      /\ Msg("refused", 0).type = "refused" /\ Msg("sessions", 0).type = "sessions"
      /\ Msg("ready", stamp["far"]).type = "ready"
  BY BitsType DEF IInv, TypeOK, MsgType, Msg
<1>3. CASE Refuse
  <2>1. Answer(Msg("refused", 0), "drain") /\ UNCHANGED agreement
    BY <1>3 DEF Refuse
  <2> QED BY <1>1, <1>2, <2>1, HandshakeStep DEF IInv, Agreed, Handshake
<1>4. CASE AnswerList
  <2>1. Answer(Msg("sessions", 0), "drain") /\ UNCHANGED agreement
    BY <1>4 DEF AnswerList
  <2> QED BY <1>1, <1>2, <2>1, HandshakeStep DEF IInv, Agreed, Handshake
<1>5. CASE Accept
  <2>1. /\ Answer(Msg("ready", stamp["far"]), "record")
        /\ agreement' = [agreement EXCEPT !["far"] = Head(chan["far"]).stamp]
        /\ chan["far"] # <<>> /\ Head(chan["far"]).type = "attach"
    BY <1>5 DEF Accept
  <2>2. agreement'["far"] # 0
    BY <2>1, HeadType DEF IInv, Stamped, TypeOK
  <2> QED BY <1>1, <1>2, <2>1, <2>2, HandshakeStep DEF IInv, Agreed, Handshake
<1>6. CASE Drained
  <2>1. pc["far"] = "drain"
    BY <1>6 DEF Drained
  <2>2. Bare("far") /\ agreement["far"] = 0
    BY <2>1 DEF IInv, Phases, Agreed, Handshake
  <2> QED BY <1>6, <2>1, <2>2, ExitStep DEF Drained, Alive, Ended, Handshake
<1> QED BY <1>3, <1>4, <1>5, <1>6 DEF Far, Hello

LEMMA SetupStep == ASSUME IInv, TypeOK', NEW e \in End, Setup(e) PROVE IInv'
<1>1. CASE Cut(e)
  <2>1. Bare(e) /\ (e = "far" => agreement["far"] = 0)
    BY <1>1 DEF Cut, IInv, Phases, Handshake, Agreed, Roles
  <2> QED BY <1>1, <2>1, ExitStep DEF Cut, Alive, Ended, Handshake
<1>2. CASE PublishRecord(e)
  <2>1. CASE Exit(e, "failed")
    BY <1>2, <2>1, ExitStep DEF PublishRecord, Alive, Ended, Publishing
  <2>2. CASE ~Exit(e, "failed")
    <3>1. /\ pc[e] = "record" /\ Goto(e, "key")
          /\ mirror' = [mirror EXCEPT ![e] = [src |-> agreement[e], at |-> agreement[e]]]
          /\ UNCHANGED <<key, sock, chan, agreement, closed, dropped>>
      BY <1>2, <2>2 DEF PublishRecord, wire
    <3>2. \A x \in End \ {e} : mirror'[x] = mirror[x]
      BY <3>1 DEF IInv, TypeOK
    <3> QED BY <3>1, <3>2, FilesStep DEF Publishing
  <2> QED BY <2>1, <2>2
<1>3. CASE PublishKey(e)
  <2>1. \A x \in End \ {e} : key'[x] = key[x]
    BY <1>3 DEF PublishKey, IInv, TypeOK
  <2> QED BY <1>3, <2>1, FilesStep DEF PublishKey, wire, Publishing
<1>4. CASE Bind(e)
  <2>1. CASE Exit(e, "failed")
    BY <1>4, <2>1, ExitStep DEF Bind, Alive, Ended, Publishing
  <2>2. CASE ~Exit(e, "failed")
    <3>1. /\ pc[e] = "bind" /\ Goto(e, "watch")
          /\ sock' = [sock EXCEPT ![e] = "ours"]
          /\ UNCHANGED <<mirror, key, chan, agreement, closed, dropped>>
      BY <1>4, <2>2 DEF Bind, wire
    <3>2. sock'[e] = "ours" /\ \A x \in End \ {e} : sock'[x] = sock[x]
      BY <3>1 DEF IInv, TypeOK
    <3> QED BY <3>1, <3>2, FilesStep DEF Publishing
  <2> QED BY <2>1, <2>2
<1>5. CASE Watch(e) \/ InstallHandlers(e)
  <2>1. \A x \in End : pc'[x] = pc[x] \/ (pc[x] \in Serving /\ pc'[x] \in Serving)
    BY <1>5 DEF Watch, InstallHandlers, Goto, IInv, TypeOK, Serving
  <2> QED BY <1>5, <2>1, ServingStep DEF Watch, InstallHandlers, files, wire
<1> QED BY <1>1, <1>2, <1>3, <1>4, <1>5 DEF Setup

LEMMA WithdrawStep == ASSUME IInv, TypeOK', NEW e \in End, Withdraw(e) PROVE IInv'
<1> USE DEF Closing
<1>1. CASE RemoveRecord(e)
  <2>1. /\ ~Shown(e)' /\ sock'[e] = "ours"
        /\ \A x \in End \ {e} : mirror'[x] = mirror[x]
    BY <1>1 DEF RemoveRecord, IInv, TypeOK, Phases, Shown
  <2> QED BY <1>1, <2>1, FilesStep DEF RemoveRecord, wire
<1>2. CASE RemoveKey(e)
  <2>1. /\ ~Shown(e)' /\ sock'[e] = "ours" /\ ~key'[e]
        /\ \A x \in End \ {e} : key'[x] = key[x]
    BY <1>2 DEF RemoveKey, IInv, TypeOK, Phases, Shown
  <2> QED BY <1>2, <2>1, FilesStep DEF RemoveKey, wire
<1>3. CASE RemoveSocket(e)
  <2>1. /\ Bare(e)'
        /\ \A x \in End \ {e} : sock'[x] = sock[x]
    BY <1>3 DEF RemoveSocket, IInv, TypeOK, Phases, Shown, Bare
  <2> QED BY <1>3, <2>1, FilesStep DEF RemoveSocket, wire
<1>4. CASE SayBye(e)
  <2> DEFINE m == Msg("bye", 0)
  <2>1. m \in Message /\ m.type = "bye"
    BY BitsType DEF IInv, TypeOK, Msg, MsgType
  <2>2. /\ \A x \in End : Range(chan'[x]) \subseteq Range(chan[x]) \cup {m}
        /\ Range(chan'[e]) = Range(chan[e])
        /\ UNCHANGED <<mirror, key, sock, closed, dropped, agreement>>
        /\ pc[e] = "bye" /\ Goto(e, "leave")
    BY <1>4, <2>1, SentType DEF SayBye, IInv, files
  <2>3. pc'[e] = "leave" /\ \A x \in End \ {e} : pc'[x] = pc[x]
    BY <2>2 DEF IInv, TypeOK, Goto
  <2>4. /\ InTransit("bye", e)' => InTransit("bye", e)
        /\ InTransit("ready", "near")' => InTransit("ready", "near")
        /\ Stamped'
    BY <2>1, <2>2 DEF InTransit, IInv, Stamped, End
  <2>5. \A x \in End : (Bare(x)' <=> Bare(x)) /\ (Shown(x)' <=> Shown(x))
    BY <2>2 DEF Bare, Shown
  <2>6. Bare(e)
    BY <2>2 DEF IInv, Phases
  <2>7. Phases'
    BY <2>2, <2>3, <2>5, <2>6 DEF IInv, Phases
  <2>8. Told'
    <3>1. \A x \in End : Peer(x) = e \/ x = e
      BY DEF End, Peer
    <3> QED BY <2>2, <2>3, <2>4, <2>5, <2>6, <3>1 DEF IInv, Told
  <2>9. Roles' /\ Endings' /\ ReasonIsHeard'
    BY <2>2, <2>3 DEF IInv, Roles, Endings, ReasonIsHeard, End, Peer, Ended
  <2>10. Agreed'
    BY <2>2, <2>3, <2>4, <2>5 DEF IInv, Agreed, End
  <2> QED BY <2>4, <2>7, <2>8, <2>9, <2>10 DEF IInv
<1>5. CASE Leave(e)
  <2>1. Bare(e) /\ pc[e] = "leave"
    BY <1>5 DEF Leave, IInv, Phases
  <2> QED BY <1>5, <2>1, ExitStep DEF Leave, Alive, Ended
<1> QED BY <1>1, <1>2, <1>3, <1>4, <1>5 DEF Withdraw

\* The loop: its arms, and what follows a change.
LEMMA LoopStep == ASSUME IInv, TypeOK', NEW e \in End, Arm(e) \/ Push(e) PROVE IInv'
<1>1. \A l \in Serving : Goto(e, l) /\ pc[e] \in Serving =>
        \A x \in End : pc'[x] = pc[x] \/ (pc[x] \in Serving /\ pc'[x] \in Serving)
  BY DEF Goto, IInv, TypeOK
<1>2. ASSUME Break(e), pc[e] \in Loop, UNCHANGED <<closed, dropped>>,
             \A x \in End : Range(chan'[x]) \subseteq Range(chan[x])
      PROVE  IInv'
  BY <1>1, <1>2, ServingStep DEF Break, files, Serving, Loop
<1>3. CASE AcceptLocal(e)
  <2>1. CASE Exit(e, "failed")
    BY <1>3, <2>1, ExitStep DEF AcceptLocal, Alive, Ended, Loop
  <2>2. CASE ~Exit(e, "failed")
    BY <1>3, <2>2, ServingStep DEF AcceptLocal, relay, files
  <2> QED BY <2>1, <2>2
<1>4. CASE AcceptInbound(e)
  <2>1. CASE Exit(e, "failed")
    BY <1>4, <2>1, ExitStep DEF AcceptInbound, Alive, Ended, Loop
  <2>2. CASE ~Exit(e, "failed")
    BY <1>4, <2>2, ServingStep DEF AcceptInbound, relay, files
  <2> QED BY <2>1, <2>2
<1>5. CASE LinkClosed(e) \/ ReadEof(e) \/ SignalArm(e)
  BY <1>2, <1>5 DEF LinkClosed, ReadEof, SignalArm, wire, Loop
<1>6. CASE ReadUpdate(e)
  <2>1. \A x \in End : Range(chan'[x]) \subseteq Range(chan[x])
    BY <1>6, HeadType DEF ReadUpdate, IInv, TypeOK
  <2>2. \A x \in End : mirror'[x] = mirror[x] \/ pc[x] \in Serving
    BY <1>6 DEF ReadUpdate, IInv, TypeOK, Serving
  <2> QED BY <1>6, <2>1, <2>2, ServingStep DEF ReadUpdate, relay
<1>7. CASE ReadBye(e)
  <2>1. \A x \in End : Range(chan'[x]) \subseteq Range(chan[x])
    BY <1>7, HeadType DEF ReadBye, IInv, TypeOK
  <2> QED BY <1>2, <1>7, <2>1 DEF ReadBye, Loop
<1>8. CASE TakeChange(e)
  BY <1>1, <1>8, ServingStep DEF TakeChange, files, wire, Serving
<1>9. CASE Heartbeat(e)
  <2>1. \A x \in End : mirror'[x] = mirror[x] \/ pc[x] \in Serving
    BY <1>9 DEF Heartbeat, IInv, TypeOK, Serving
  <2> QED BY <1>9, <2>1, ServingStep DEF Heartbeat, relay, wire
<1>10. CASE Push(e)
  <2>1. CASE Break(e) /\ UNCHANGED wire
    BY <1>2, <1>10, <2>1 DEF Push, wire, Loop
  <2>2. CASE ~(Break(e) /\ UNCHANGED wire)
    <3> DEFINE m == Msg("update", stamp[e])
    <3>1. m \in Message /\ m.type = "update" /\ m.stamp # 0
      <4>1. stamp[e] \in Stamp /\ stamp[e] # 0
        BY BoundsAssumption DEF IInv, TypeOK, Stamp
      <4>2. m \in Message
        BY <4>1, BitsType DEF IInv, MsgType
      <4> QED BY <4>1, <4>2 DEF Msg
    <3>2. \A x \in End : Range(chan'[x]) \subseteq Range(chan[x]) \cup {m}
      BY <1>10, <2>2, <3>1, SentType DEF Push, IInv
    <3> QED BY <1>1, <1>10, <2>2, <3>1, <3>2, ServingStep DEF Push, files, Serving
  <2> QED BY <2>1, <2>2
<1> QED BY <1>3, <1>4, <1>5, <1>6, <1>7, <1>8, <1>9, <1>10 DEF Arm, Incoming, ReadControl

LEMMA EnvironmentStep ==
  ASSUME IInv, TypeOK', NEW e \in End, Environment(e) \/ Sweep(e) PROVE IInv'
<1>1. CASE Rewrite(e) \/ SessionEnds(e) \/ Foreign(e)
  BY <1>1, ServingStep DEF Rewrite, SessionEnds, Foreign, relay, files, wire
<1>2. CASE Terminate(e)
  <2>1. CASE Exit(e, "killed")
    <3>1. pc[e] \in Alive
      BY <1>2, <2>1 DEF Terminate, Exit, Goto, IInv, TypeOK, Loop, Alive
    <3> QED BY <2>1, <3>1, ExitStep DEF Ended
  <2>2. CASE ~Exit(e, "killed")
    BY <1>2, <2>2, ServingStep DEF Terminate, files, wire
  <2> QED BY <2>1, <2>2
<1>3. CASE Kill(e)
  BY <1>3, ExitStep DEF Kill, Ended
<1>4. CASE Fault(e)
  BY <1>4, ExitStep DEF Fault, Ended, Alive, Closing
<1>5. CASE Sweep(e)
  <2>1. /\ UNCHANGED <<pc, agreement, key, sock, chan, closed, dropped>>
        /\ \A x \in End : (Bare(x) => Bare(x)') /\ (~Shown(x) => ~Shown(x)')
    BY <1>5 DEF Sweep, relay, wire, Bare, Shown, IInv, TypeOK
  <2>2. Phases' /\ Told' /\ Roles' /\ Endings' /\ ReasonIsHeard'
    BY <2>1 DEF IInv, Phases, Told, Roles, Endings, ReasonIsHeard, InTransit
  <2>3. Agreed' /\ Stamped'
    BY <2>1 DEF IInv, Agreed, Stamped, InTransit
  <2> QED BY <2>2, <2>3 DEF IInv
<1> QED BY <1>1, <1>2, <1>3, <1>4, <1>5 DEF Environment

LEMMA DropStep == ASSUME IInv, TypeOK', LinkDrops PROVE IInv'
<1>1. \A x \in End : Range(chan'[x]) \subseteq Range(chan[x])
  <2>1. PICK n \in 0..Len(chan["near"]), f \in 0..Len(chan["far"]) :
          chan' = [e \in End |-> SubSeq(chan[e], 1, IF e = "near" THEN n ELSE f)]
    BY DEF LinkDrops
  <2>2. ASSUME NEW x \in End
        PROVE  Range(SubSeq(chan[x], 1, IF x = "near" THEN n ELSE f)) \subseteq Range(chan[x])
    <3>1. chan[x] \in Seq(Message) /\ (IF x = "near" THEN n ELSE f) \in 0..Len(chan[x])
      BY DEF IInv, TypeOK, End
    <3> QED BY <3>1, SubSeqLemma
  <2> QED BY <2>1, <2>2
<1>2. /\ UNCHANGED <<pc, agreement, mirror, key, sock>> /\ dropped'
  BY DEF LinkDrops, relay, files
<1>3. \A x \in End : (Bare(x)' <=> Bare(x)) /\ (Shown(x)' <=> Shown(x))
  BY <1>2 DEF Bare, Shown
<1>4. \A x \in End, t \in {"bye", "ready"} : InTransit(t, x)' => InTransit(t, x)
  BY <1>1 DEF InTransit
<1>5. Phases' /\ Roles' /\ Endings' /\ ReasonIsHeard'
  BY <1>2, <1>3 DEF IInv, Phases, Roles, Endings, ReasonIsHeard
<1>6. Told'
  BY <1>2, <1>3, <1>4 DEF IInv, Told, End, Peer
<1>7. Agreed' /\ Stamped'
  BY <1>1, <1>2, <1>3, <1>4 DEF IInv, Agreed, Stamped, End
<1> QED BY <1>5, <1>6, <1>7 DEF IInv

LEMMA InvInit == Init => IInv
<1> SUFFICES ASSUME Init, TypeOK PROVE IInv
  BY InitType
<1>1. \A e \in End : Bare(e) /\ Range(chan[e]) = {}
  BY DEF Init, Bare, Shown, Range
<1>2. pc["near"] = "resolve" /\ pc["far"] = "unborn"
  BY DEF Init
<1>3. Phases /\ Told /\ Roles
  BY <1>1, <1>2 DEF Phases, Told, Roles, InTransit, End, Peer
<1>4. Agreed /\ Stamped /\ Endings /\ ReasonIsHeard
  BY <1>1, <1>2 DEF Init, Agreed, Stamped, Endings, ReasonIsHeard, InTransit, End, Publishing, Loop, Closing
<1> QED BY <1>3, <1>4 DEF IInv

LEMMA InvStep == IInv /\ [Next]_vars => IInv'
<1> SUFFICES ASSUME IInv, [Next]_vars, TypeOK' PROVE IInv'
  BY TypeStep DEF IInv
<1>1. CASE UNCHANGED vars
  BY <1>1, ServingStep DEF vars, relay, files, wire
<1>2. CASE Next
  BY <1>2, NearStep, FarStep, SetupStep, WithdrawStep, LoopStep, EnvironmentStep, DropStep
     DEF Next, Sequel
<1> QED BY <1>1, <1>2

THEOREM Inductive == Spec => []IInv
BY InvInit, InvStep, PTL DEF Spec

-----------------------------------------------------------------------------
(***************************************************************************)
(* What follows from it.                                                   *)
(***************************************************************************)

\* A goodbye is sent, and a relay that ran to its end exits, only after the mirror, the
\* key and the socket are gone: the order of unpublish and Bye at the end of run.
THEOREM WithdrawsBeforeTelling == Spec => []WithdrawnBeforeTold
<1>1. IInv => WithdrawnBeforeTold
  BY DEF IInv, Phases, Told, WithdrawnBeforeTold
<1> QED BY <1>1, Inductive, PTL

\* A handshake that was refused or only listed leaves nothing on either machine, however
\* the two processes end (server_handshake, client_handshake, client_list).
THEOREM RefusalLeavesNothing == Spec => []RefusedLeavesNothing
<1>1. IInv => RefusedLeavesNothing
  BY DEF IInv, Agreed, RefusedLeavesNothing
<1> QED BY <1>1, Inductive, PTL

\* A client whose transport holds never finds the link merely closed when the far end had
\* an answer for it (refused and drain).
THEOREM AnswersAreHeard == Spec => []ReasonIsHeard
<1>1. IInv => ReasonIsHeard
  BY DEF IInv
<1> QED BY <1>1, Inductive, PTL

-----------------------------------------------------------------------------
(***************************************************************************)
(* Steps: what bind and unpublish never touch, and the grant.              *)
(***************************************************************************)

\* A socket that another process serves at the mirror's path stays: bind leaves it and
\* fails, and only a relay that bound gets as far as removing one.
THEOREM SocketsOfOthersKept == Spec => OthersSocketKept
<1>1. ASSUME IInv, [Next]_vars, NEW e \in End, sock[e] = "other"
      PROVE  sock'[e] = "other"
  <2> USE DEF IInv, TypeOK
  <2>1. ASSUME NEW x \in End, NEW how \in Ended, Exit(x, how) PROVE sock'[e] = "other"
    BY <1>1, <2>1 DEF Exit
  <2>2. ASSUME NEW x \in End, Break(x) PROVE sock'[e] = "other"
    BY <1>1, <2>2 DEF Break, files
  <2>3. CASE Near
    BY <1>1, <2>1, <2>3 DEF Near, Hear, Resolve, StartList, Greet, HearReady, HearRefused,
                            HearSessions, files, Ended, End
  <2>4. CASE Far
    BY <1>1, <2>1, <2>4 DEF Far, Hello, Refuse, AnswerList, Accept, Answer, Drained, files, Ended, End
  <2>5. ASSUME NEW x \in End, Setup(x) PROVE sock'[e] = "other"
    BY <1>1, <2>1, <2>5 DEF Setup, Cut, PublishRecord, PublishKey, Bind, Watch, InstallHandlers,
                            files, Ended
  <2>6. ASSUME NEW x \in End, Withdraw(x) PROVE sock'[e] = "other"
    <3>1. pc[x] = "unsock" => x # e
      BY <1>1 DEF Phases
    <3> QED BY <1>1, <2>1, <2>6, <3>1 DEF Withdraw, RemoveRecord, RemoveKey, RemoveSocket, SayBye,
                                          Leave, files, Ended
  <2>7. ASSUME NEW x \in End, Arm(x) \/ Push(x) PROVE sock'[e] = "other"
    BY <1>1, <2>1, <2>2, <2>7 DEF Arm, Incoming, ReadControl, AcceptLocal, AcceptInbound, LinkClosed,
                                  ReadUpdate, ReadBye, ReadEof, TakeChange, Heartbeat, SignalArm,
                                  Push, files, Ended
  <2>8. ASSUME NEW x \in End, Environment(x) \/ Sweep(x) PROVE sock'[e] = "other"
    BY <1>1, <2>1, <2>8 DEF Environment, Rewrite, SessionEnds, Foreign, Terminate, Kill, Fault,
                            Sweep, files, Ended
  <2>9. CASE LinkDrops \/ UNCHANGED vars
    BY <1>1, <2>9 DEF LinkDrops, vars, files
  <2> QED BY <1>1, <2>3, <2>4, <2>5, <2>6, <2>7, <2>8, <2>9 DEF Next, Sequel
<1>2. IInv /\ [Next]_vars => [\A e \in End : sock[e] = "other" => sock'[e] = "other"]_vars
  BY <1>1
<1> QED BY <1>2, Inductive, PTL DEF Spec, OthersSocketKept

\* The relay on e, going on to a label where it is over, finishes; if it was over
\* already the step is invisible.
LEMMA FinishStep ==
  ASSUME TypeOK, NEW e \in End, NEW l \in Closing \cup Ended, Goto(e, l),
         UNCHANGED <<mirror, agreement>>
  PROVE  Granted!Finish(e)
<1>1. {x \in End : Over(x)'} = {x \in End : Over(x)} \cup {e}
  BY DEF TypeOK, Goto, Over
<1>2. {x \in End : Shown(x)'} = {x \in End : Shown(x)}
  BY DEF Shown
<1> QED BY <1>1, <1>2 DEF Granted!Finish

LEMMA ExitFinishes ==
  ASSUME TypeOK, NEW e \in End, NEW how \in Ended, Exit(e, how)
  PROVE  Granted!GNext
BY FinishStep DEF Exit, Granted!GNext

\* A step that shows, agrees and finishes nothing.
LEMMA StillStep ==
  ASSUME \A x \in End : Over(x)' <=> Over(x),
         \A x \in End : Shown(x)' <=> Shown(x),
         (agreement'["far"] # 0) <=> (agreement["far"] # 0)
  PROVE  UNCHANGED Granted!gvars
BY DEF Granted!gvars

\* Only the mirror of e changes.
LEMMA MirrorStep ==
  ASSUME TypeOK, NEW e \in End, \A x \in End : Over(x)' <=> Over(x), UNCHANGED agreement,
         \A x \in End \ {e} : mirror'[x] = mirror[x]
  PROVE  /\ Shown(e)' /\ agreement["far"] # 0 /\ ~Over(e) => Granted!Show(e)
         /\ ~Shown(e)' /\ Over(e) => Granted!Hide(e)
<1>1. {x \in End : Over(x)'} = {x \in End : Over(x)}
  OBVIOUS
<1>2. /\ Shown(e)' => {x \in End : Shown(x)'} = {x \in End : Shown(x)} \cup {e}
      /\ ~Shown(e)' => {x \in End : Shown(x)'} = {x \in End : Shown(x)} \ {e}
  BY DEF Shown
<1> QED BY <1>1, <1>2 DEF Granted!Show, Granted!Hide

LEMMA GrantStep ==
  ASSUME IInv, IInv', [Next]_vars
  PROVE  [Granted!GNext]_(Granted!gvars)
<1> USE DEF End
<1> DEFINE Still == UNCHANGED Granted!gvars
           Step == Still \/ Granted!GNext
<1>0. TypeOK
  BY DEF IInv
\* pc moves where it is over neither before nor after, or nowhere.
<1>1. ASSUME NEW e \in End, NEW l \in Alive \ Closing, Goto(e, l), ~Over(e)
      PROVE  \A x \in End : Over(x)' <=> Over(x)
  BY <1>0, <1>1 DEF Goto, TypeOK, Over, Alive, Ended, Closing, Handshake, Publishing, Loop
<1>2. ASSUME NEW e \in End, NEW l \in Alive \ Closing, Goto(e, l), ~Over(e), UNCHANGED <<mirror, agreement>>
      PROVE  Step
  BY <1>1, <1>2, StillStep DEF Shown
<1>3. ASSUME UNCHANGED <<pc, mirror, agreement>>
      PROVE  Step
  BY <1>3, StillStep DEF Shown, Over
<1>4. ASSUME NEW e \in End, NEW how \in Ended, Exit(e, how)
      PROVE  Step
  BY <1>0, <1>4, ExitFinishes
<1>5. ASSUME NEW e \in End, Break(e)
      PROVE  Step
  BY <1>0, <1>5, FinishStep DEF Break, files, Closing, Granted!GNext
<1>6. CASE Near
  <2>1. CASE (Resolve /\ ~Exit("near", "failed")) \/ StartList
    <3>1. /\ pc["near"] = "resolve" /\ pc["far"] = "unborn"
          /\ pc' = [near |-> "greet", far |-> "accept"] /\ UNCHANGED <<mirror, agreement>>
      BY <2>1 DEF Resolve, StartList, files, IInv, Roles
    <3>2. \A x \in End : Over(x)' <=> Over(x)
      BY <3>1 DEF Over, Closing, Ended
    <3> QED BY <3>1, <3>2, StillStep DEF Shown
  <2>2. CASE Greet
    BY <1>2, <2>2 DEF Greet, files, Over, Closing, Ended, Alive, Handshake
  <2>3. CASE HearReady
    <3>1. \A x \in End : Over(x)' <=> Over(x)
      BY <1>1, <2>3 DEF HearReady, Over, Closing, Ended, Alive, Publishing
    <3> QED BY <1>0, <2>3, <3>1, StillStep DEF HearReady, files, Shown, TypeOK
  <2>4. CASE Exit("near", "failed") \/ HearRefused \/ HearSessions
    BY <1>4, <2>4 DEF HearRefused, HearSessions, Ended
  <2> QED BY <1>6, <2>1, <2>2, <2>3, <2>4 DEF Near, Hear
<1>7. CASE Far
  <2>1. CASE Refuse \/ AnswerList
    BY <1>2, <2>1 DEF Refuse, AnswerList, Answer, files, Over, Closing, Ended, Alive, Handshake
  <2>2. CASE Accept
    <3>1. /\ pc["far"] = "accept" /\ Goto("far", "record") /\ UNCHANGED mirror
          /\ agreement' = [agreement EXCEPT !["far"] = Head(chan["far"]).stamp]
          /\ chan["far"] # <<>> /\ Head(chan["far"]).type = "attach"
      BY <2>2 DEF Accept, Answer, files
    <3>2. ~Over("far") /\ \A x \in End : Over(x)' <=> Over(x)
      BY <1>1, <3>1 DEF Over, Closing, Ended, Alive, Publishing
    <3>3. agreement'["far"] # 0
      BY <1>0, <3>1, HeadType DEF IInv, Stamped, TypeOK
    <3>4. /\ {x \in End : Over(x)} # End
          /\ {x \in End : Over(x)'} = {x \in End : Over(x)}
          /\ {x \in End : Shown(x)'} = {x \in End : Shown(x)}
      BY <3>1, <3>2 DEF Shown
    <3> QED BY <3>3, <3>4 DEF Granted!GNext, Granted!Agree
  <2>3. CASE Drained
    BY <1>4, <2>3 DEF Drained, Ended
  <2> QED BY <1>7, <2>1, <2>2, <2>3 DEF Far, Hello
<1>8. ASSUME NEW e \in End, Setup(e) PROVE Step
  <2>1. CASE Cut(e) \/ Exit(e, "failed")
    BY <1>4, <2>1 DEF Cut, Ended
  <2>2. CASE PublishRecord(e) /\ ~Exit(e, "failed")
    <3>1. /\ pc[e] = "record" /\ Goto(e, "key") /\ UNCHANGED agreement
          /\ mirror' = [mirror EXCEPT ![e] = [src |-> agreement[e], at |-> agreement[e]]]
      BY <2>2 DEF PublishRecord
    <3>2. ~Over(e) /\ agreement["far"] # 0
      BY <3>1 DEF Over, Closing, Ended, IInv, Agreed, Publishing
    <3>3. \A x \in End : Over(x)' <=> Over(x)
      BY <1>1, <3>1, <3>2 DEF Alive, Closing, Publishing
    <3>4. \A x \in End \ {e} : mirror'[x] = mirror[x]
      BY <1>0, <3>1 DEF TypeOK
    <3>5. CASE Shown(e)'
      BY <1>0, <3>1, <3>2, <3>3, <3>4, <3>5, MirrorStep DEF Granted!GNext
    <3>6. CASE ~Shown(e)'
      <4>1. ~Shown(e)
        BY <3>1 DEF IInv, Phases, Bare
      <4> QED BY <3>1, <3>3, <3>4, <3>6, <4>1, StillStep DEF Shown
    <3> QED BY <3>5, <3>6
  <2>3. CASE PublishKey(e) \/ (Bind(e) /\ ~Exit(e, "failed")) \/ Watch(e) \/ InstallHandlers(e)
    BY <1>2, <2>3 DEF PublishKey, Bind, Watch, InstallHandlers, files, Over, Closing, Ended, Alive,
                      Publishing, Loop
  <2> QED BY <1>8, <2>1, <2>2, <2>3 DEF Setup
<1>9. ASSUME NEW e \in End, Withdraw(e) PROVE Step
  <2>1. CASE RemoveRecord(e)
    <3>1. /\ Over(e) /\ UNCHANGED agreement /\ ~Shown(e)'
          /\ \A x \in End \ {e} : mirror'[x] = mirror[x]
          /\ \A x \in End : Over(x)' <=> Over(x)
      BY <1>0, <2>1 DEF RemoveRecord, Over, Closing, Shown, TypeOK, Goto
    <3> QED BY <1>0, <3>1, MirrorStep DEF Granted!GNext
  <2>2. CASE RemoveKey(e) \/ RemoveSocket(e) \/ SayBye(e)
    BY <1>0, <2>2, FinishStep DEF RemoveKey, RemoveSocket, SayBye, files, Closing, Granted!GNext
  <2>3. CASE Leave(e)
    BY <1>4, <2>3 DEF Leave, Ended
  <2> QED BY <1>9, <2>1, <2>2, <2>3 DEF Withdraw
<1>10. ASSUME NEW e \in End, Arm(e) \/ Push(e) PROVE Step
  <2>1. CASE Exit(e, "failed") \/ Break(e)
    BY <1>4, <1>5, <2>1 DEF Ended
  <2>2. CASE ReadUpdate(e) \/ Heartbeat(e)
    <3>1. /\ pc[e] = "loop" /\ UNCHANGED <<pc, agreement>>
          /\ \A x \in End \ {e} : mirror'[x] = mirror[x]
      BY <1>0, <2>2 DEF ReadUpdate, Heartbeat, relay, TypeOK
    <3>2. /\ ~Over(e) /\ agreement["far"] # 0
          /\ \A x \in End : Over(x)' <=> Over(x)
      BY <3>1 DEF Over, Closing, Ended, IInv, Agreed, Loop
    <3>3. mirror'[e].at # 0
      <4>1. CASE ReadUpdate(e)
        <5>1. Head(chan[e]).stamp # 0
          BY <4>1, <1>0, HeadType DEF ReadUpdate, IInv, Stamped
        <5> QED BY <1>0, <4>1, <5>1 DEF ReadUpdate, TypeOK
      <4>2. CASE Heartbeat(e)
        BY <1>0, <4>2, BitsType DEF Heartbeat, TypeOK, Stamp
      <4> QED BY <2>2, <4>1, <4>2
    <3>4. Shown(e)'
      BY <3>3 DEF Shown, NoMirror
    <3> QED BY <1>0, <3>1, <3>2, <3>4, MirrorStep DEF Granted!GNext
  <2>3. CASE ~(Exit(e, "failed") \/ Break(e) \/ ReadUpdate(e) \/ Heartbeat(e))
    BY <1>2, <1>3, <1>10, <2>3
       DEF Arm, Incoming, ReadControl, AcceptLocal, AcceptInbound, LinkClosed, ReadBye, ReadEof,
           TakeChange, SignalArm, Push, relay, files, Over, Closing, Ended, Alive, Loop
  <2> QED BY <2>1, <2>2, <2>3
<1>11. ASSUME NEW e \in End, Environment(e) PROVE Step
  BY <1>3, <1>4, <1>11 DEF Environment, Rewrite, SessionEnds, Foreign, Terminate, Kill, Fault, relay,
                           files, Ended
<1>12. ASSUME NEW e \in End, Sweep(e) PROVE Step
  <2>1. /\ Over(e) /\ UNCHANGED <<pc, agreement>> /\ ~Shown(e)'
        /\ \A x \in End \ {e} : mirror'[x] = mirror[x]
    BY <1>0, <1>12 DEF Sweep, Over, Shown, relay, TypeOK
  <2>2. \A x \in End : Over(x)' <=> Over(x)
    BY <2>1 DEF Over
  <2> QED BY <1>0, <2>1, <2>2, MirrorStep DEF Granted!GNext
<1>13. CASE LinkDrops \/ UNCHANGED vars
  BY <1>3, <1>13 DEF LinkDrops, vars, relay, files
<1> QED BY <1>6, <1>7, <1>8, <1>9, <1>10, <1>11, <1>12, <1>13 DEF Next, Sequel

\* The link keeps the promise of Grant: a mirror is shown only after the far end agreed,
\* only by a relay that is not over, and does not come back once it is withdrawn.
THEOREM LinkImplementsGrant == Spec => ImplementsGrant
<1>1. Init => Granted!GInit
  BY DEF Init, Granted!GInit, Shown, Over, Closing, Ended, End
<1>2. IInv /\ IInv' /\ [Next]_vars => [Granted!GNext]_(Granted!gvars)
  BY GrantStep
<1> QED BY <1>1, <1>2, Inductive, PTL DEF Spec, ImplementsGrant, Granted!GSpec
=============================================================================
