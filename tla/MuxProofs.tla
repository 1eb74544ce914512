----------------------------- MODULE MuxProofs ------------------------------
(***************************************************************************)
(* Theorems about Mux, for every capacity of the channels and any number   *)
(* of connections.                                                         *)
(***************************************************************************)
EXTENDS Mux, TLAPS

\* A transport ends for both machines at once, and a task that has stopped has ended it
\* and left no request behind.
Joined ==
  \A e \in End :
    /\ closed[e] = closed[Peer(e)]
    /\ task[e] = "stopped" => closed[e] /\ requests[e] = 0 /\ ~pending[e]

IInv == TypeOK /\ OneRequest /\ NoStreamLost /\ Joined

-----------------------------------------------------------------------------
(***************************************************************************)
(* Type correctness.                                                       *)
(***************************************************************************)

LEMMA PeerLemma == \A e \in End : Peer(e) \in End /\ Peer(e) # e /\ Peer(Peer(e)) = e
  BY DEF End, Peer

LEMMA TypeInit == Init => TypeOK
  BY BoundsAssumption DEF Init, TypeOK, End

LEMMA TypeStep == TypeOK /\ [Next]_vars => TypeOK'
<1> SUFFICES ASSUME TypeOK, [Next]_vars PROVE TypeOK'
  OBVIOUS
<1> USE BoundsAssumption, PeerLemma
<1>1. ASSUME NEW e \in End, Arm(e) PROVE TypeOK'
  <2>1. CASE AcceptLocal(e)
    BY <2>1 DEF TypeOK, AcceptLocal, Loop
  <2>2. CASE AcceptInbound(e)
    BY <2>2 DEF TypeOK, AcceptInbound, handle
  <2>3. CASE LinkClosed(e)
    BY <2>3 DEF TypeOK, LinkClosed, Loop, handle, count
  <2>4. CASE SignalArm(e)
    BY <2>4 DEF TypeOK, SignalArm, Loop, handle, count
  <2> QED
    BY <1>1, <2>1, <2>2, <2>3, <2>4 DEF Arm
<1>2. ASSUME NEW e \in End, OpenReturns(e) PROVE TypeOK'
  BY <1>2 DEF TypeOK, OpenReturns, Loop, count
<1>3. ASSUME NEW e \in End, Task(e) PROVE TypeOK'
  <2>1. CASE TakeRequest(e)
    BY <2>1 DEF TypeOK, TakeRequest, count
  <2>2. CASE Outbound(e)
    BY <2>2 DEF TypeOK, Outbound, CanOpen
  <2>3. CASE Inbound(e)
    BY <2>3 DEF TypeOK, Inbound, handle, count
  <2>4. CASE Hand(e)
    BY <2>4 DEF TypeOK, Hand, handle, count
  <2>5. ASSUME Stop(e) PROVE TypeOK'
    BY <2>5 DEF TypeOK, Stop, count
  <2>6. CASE ConnEnds(e) \/ HandleDropped(e)
    BY <2>5, <2>6 DEF ConnEnds, HandleDropped
  <2> QED
    BY <1>3, <2>1, <2>2, <2>3, <2>4, <2>6 DEF Task
<1>4. ASSUME NEW e \in End, Connect(e) PROVE TypeOK'
  BY <1>4 DEF TypeOK, Connect, handle
<1>5. ASSUME NEW e \in End, Signal(e) PROVE TypeOK'
  BY <1>5 DEF TypeOK, Signal, handle, count
<1>6. CASE LinkDrops
  BY <1>6 DEF TypeOK, LinkDrops, handle, count
<1>7. CASE UNCHANGED vars
  BY <1>7 DEF TypeOK, vars, handle, count
<1> QED
  BY <1>1, <1>2, <1>3, <1>4, <1>5, <1>6, <1>7 DEF Next

\* The channels stay within their capacities whatever the traffic, and the connection
\* never has more streams of the peer than it lets it open ahead.
THEOREM MuxTypeCorrect == Spec => []TypeOK
<1>1. Init => TypeOK
  BY TypeInit
<1>2. TypeOK /\ [Next]_vars => TypeOK'
  BY TypeStep
<1> QED
  BY <1>1, <1>2, PTL DEF Spec

-----------------------------------------------------------------------------
(***************************************************************************)
(* Requests and streams.                                                   *)
(***************************************************************************)

LEMMA JoinedStep == IInv /\ [Next]_vars => Joined'
<1> SUFFICES ASSUME IInv, [Next]_vars PROVE Joined'
  OBVIOUS
<1> USE PeerLemma DEF IInv, TypeOK, Joined
<1>1. ASSUME NEW e \in End, Arm(e) PROVE Joined'
  <2>1. CASE AcceptLocal(e)
    BY <2>1 DEF AcceptLocal
  <2>2. CASE AcceptInbound(e) \/ LinkClosed(e) \/ SignalArm(e)
    BY <2>2 DEF AcceptInbound, LinkClosed, SignalArm, handle
  <2> QED
    BY <1>1, <2>1, <2>2 DEF Arm
<1>2. ASSUME NEW e \in End, OpenReturns(e) PROVE Joined'
  BY <1>2 DEF OpenReturns
<1>3. ASSUME NEW e \in End, Task(e) PROVE Joined'
  <2>1. CASE TakeRequest(e)
    BY <2>1 DEF TakeRequest
  <2>2. CASE Outbound(e)
    BY <2>2 DEF Outbound
  <2>3. CASE Inbound(e)
    BY <2>3 DEF Inbound, Polls, handle
  <2>4. CASE Hand(e)
    BY <2>4 DEF Hand, handle
  <2>5. ASSUME Stop(e) PROVE Joined'
    <3>1. /\ \A d \in End : closed'[d] = TRUE
          /\ requests'[e] = 0 /\ ~pending'[e]
          /\ \A d \in End \ {e} : /\ task'[d] = task[d]
                                 /\ requests'[d] = requests[d]
                                 /\ pending'[d] = pending[d]
      BY <2>5 DEF Stop
    <3> QED
      BY <3>1
  <2>6. CASE ConnEnds(e) \/ HandleDropped(e)
    BY <2>5, <2>6 DEF ConnEnds, HandleDropped
  <2> QED
    BY <1>3, <2>1, <2>2, <2>3, <2>4, <2>6 DEF Task
<1>4. ASSUME NEW e \in End, Connect(e) \/ Signal(e) PROVE Joined'
  BY <1>4 DEF Connect, Signal, handle
<1>5. CASE LinkDrops
  BY <1>5 DEF LinkDrops, handle
<1>6. CASE UNCHANGED vars
  BY <1>6 DEF vars, handle
<1> QED
  BY <1>1, <1>2, <1>3, <1>4, <1>5, <1>6 DEF Next

LEMMA RequestStep == IInv /\ [Next]_vars => OneRequest'
<1> SUFFICES ASSUME IInv, [Next]_vars PROVE OneRequest'
  OBVIOUS
<1> USE DEF IInv, TypeOK, OneRequest, Asked
<1>1. ASSUME NEW e \in End, Arm(e) PROVE OneRequest'
  <2>1. CASE AcceptLocal(e)
    BY <2>1 DEF AcceptLocal, Loop
  <2>2. CASE AcceptInbound(e)
    BY <2>2 DEF AcceptInbound, handle
  <2>3. CASE LinkClosed(e) \/ SignalArm(e)
    BY <2>3 DEF LinkClosed, SignalArm, Loop, handle
  <2> QED
    BY <1>1, <2>1, <2>2, <2>3 DEF Arm
<1>2. ASSUME NEW e \in End, OpenReturns(e) PROVE OneRequest'
  BY <1>2 DEF OpenReturns, Loop
<1>3. ASSUME NEW e \in End, Task(e) PROVE OneRequest'
  <2>1. CASE TakeRequest(e)
    BY <2>1 DEF TakeRequest
  <2>2. CASE Outbound(e)
    BY <2>2 DEF Outbound
  <2>3. CASE Inbound(e) \/ Hand(e)
    BY <2>3 DEF Inbound, Hand, handle
  <2>4. CASE ConnEnds(e) \/ HandleDropped(e)
    BY <2>4 DEF ConnEnds, HandleDropped, Stop
  <2> QED
    BY <1>3, <2>1, <2>2, <2>3, <2>4 DEF Task
<1>4. ASSUME NEW e \in End, Connect(e) \/ Signal(e) PROVE OneRequest'
  BY <1>4 DEF Connect, Signal, handle
<1>5. CASE LinkDrops
  BY <1>5 DEF LinkDrops, handle
<1>6. CASE UNCHANGED vars
  BY <1>6 DEF vars, handle
<1> QED
  BY <1>1, <1>2, <1>3, <1>4, <1>5, <1>6 DEF Next

LEMMA StreamStep == IInv /\ [Next]_vars => NoStreamLost'
<1> SUFFICES ASSUME IInv, [Next]_vars PROVE NoStreamLost'
  OBVIOUS
<1> USE PeerLemma DEF IInv, TypeOK, NoStreamLost
<1>1. ASSUME NEW e \in End, Arm(e) PROVE NoStreamLost'
  <2>1. CASE AcceptInbound(e)
    <3>1. /\ task' = task /\ arriving' = arriving /\ opened' = opened /\ closed' = closed
          /\ inbound[e] > 0
          /\ \A d \in End : /\ inbound'[d] = IF d = e THEN inbound[d] - 1 ELSE inbound[d]
                            /\ taken'[d] = IF d = e THEN taken[d] + 1 ELSE taken[d]
      BY <2>1 DEF AcceptInbound
    <3>2. SUFFICES ASSUME NEW d \in End, ~closed[d]
                   PROVE  opened[Peer(d)] = arriving[d]
                            + (IF task[d] = "hand" THEN 1 ELSE 0) + inbound'[d] + taken'[d]
      BY <3>1
    <3>3. /\ inbound[d] \in Nat /\ taken[d] \in Nat /\ arriving[d] \in Nat
          /\ opened[Peer(d)] = arriving[d]
               + (IF task[d] = "hand" THEN 1 ELSE 0) + inbound[d] + taken[d]
      BY <3>2, BoundsAssumption
    <3> HIDE DEF IInv, TypeOK, NoStreamLost
    <3>4. CASE d = e
      BY <3>1, <3>3, <3>4
    <3>5. CASE d # e
      BY <3>1, <3>3, <3>5
    <3> QED
      BY <3>4, <3>5
  <2>2. CASE AcceptLocal(e) \/ LinkClosed(e) \/ SignalArm(e)
    BY <2>2 DEF AcceptLocal, LinkClosed, SignalArm, count
  <2> QED
    BY <1>1, <2>1, <2>2 DEF Arm
<1>2. ASSUME NEW e \in End, OpenReturns(e) PROVE NoStreamLost'
  BY <1>2 DEF OpenReturns, count
<1>3. ASSUME NEW e \in End, Task(e) PROVE NoStreamLost'
  <2>1. CASE TakeRequest(e)
    BY <2>1 DEF TakeRequest, count
  <2>2. CASE Outbound(e)
    BY <2>2 DEF Outbound, CanOpen, Joined
  <2>3. CASE Inbound(e)
    BY <2>3, BoundsAssumption DEF Inbound, Polls, count
  <2>4. CASE Hand(e)
    BY <2>4 DEF Hand, count
  <2>5. CASE ConnEnds(e) \/ HandleDropped(e)
    BY <2>5 DEF ConnEnds, HandleDropped, Stop
  <2> QED
    BY <1>3, <2>1, <2>2, <2>3, <2>4, <2>5 DEF Task
<1>4. ASSUME NEW e \in End, Connect(e) \/ Signal(e) PROVE NoStreamLost'
  BY <1>4 DEF Connect, Signal, count
<1>5. CASE LinkDrops
  BY <1>5 DEF LinkDrops
<1>6. CASE UNCHANGED vars
  BY <1>6 DEF vars, count
<1> QED
  BY <1>1, <1>2, <1>3, <1>4, <1>5, <1>6 DEF Next

LEMMA MuxInvInit == Init => IInv
<1> SUFFICES ASSUME Init PROVE IInv
  OBVIOUS
<1>1. OneRequest
  BY DEF Init, OneRequest, Asked
<1>2. NoStreamLost
  BY PeerLemma DEF Init, NoStreamLost
<1>3. Joined
  BY PeerLemma DEF Init, Joined
<1> QED
  BY TypeInit, <1>1, <1>2, <1>3 DEF IInv

LEMMA MuxInvStep == IInv /\ [Next]_vars => IInv'
  BY TypeStep, RequestStep, StreamStep, JoinedStep DEF IInv

\* What holds between the relay, its task and the wire, at every moment of a link.
THEOREM MuxInductive == Spec => []IInv
  BY MuxInvInit, MuxInvStep, PTL DEF Spec

\* A relay that waits for a stream has one request or answer on its way, and one that
\* does not has none: the open channel needs one slot.
THEOREM OneRequestAtATime == Spec => []OneRequest
<1>1. IInv => OneRequest
  BY DEF IInv
<1> QED
  BY <1>1, MuxInductive, PTL

\* A stream is never dropped or counted twice, however many arrive at a full channel.
THEOREM StreamsAreKept == Spec => []NoStreamLost
<1>1. IInv => NoStreamLost
  BY DEF IInv
<1> QED
  BY <1>1, MuxInductive, PTL

=============================================================================
