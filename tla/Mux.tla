--------------------------------- MODULE Mux ---------------------------------
(***************************************************************************)
(* The multiplexer of a link and the select loop that uses it, on both     *)
(* machines.  One task owns the yamux connection: it takes requests for    *)
(* outbound streams from a channel, one at a time, and hands inbound       *)
(* streams to the relay through another, of InboundCap slots.  While it    *)
(* waits for a slot it polls nothing.  The relay in turn waits for the     *)
(* stream it asked for inside an arm of its select, and takes nothing      *)
(* meanwhile.                                                              *)
(*                                                                         *)
(* What travels inside a stream is not here, nor is the control stream     *)
(* (see Link); a relay that is over has left its loop.                     *)
(***************************************************************************)
EXTENDS Naturals

CONSTANTS InboundCap,   \* slots between the task and the relay (16 in the code)
          AckBacklog,   \* streams yamux opens ahead of the peer (256 in yamux)
          Conns         \* local connections each machine makes in all

End == {"near", "far"}

ASSUME BoundsAssumption ==
  /\ InboundCap \in Nat \ {0}
  /\ AckBacklog \in Nat \ {0}
  /\ Conns \in [End -> Nat]

Peer(e) == IF e = "near" THEN "far" ELSE "near"

VARIABLES
  loop,         \* the relay: in its select, waiting for a stream, or over
  task,         \* the mux task: polling, handing a stream over, or stopped
  requests,     \* requests in the open channel
  pending,      \* a request the task has taken and not answered
  reply,        \* the answer on its way back: none, a stream, an error
  arriving,     \* streams of the peer the connection has not yielded yet
  inbound,      \* streams in the inbound channel
  conns,        \* local connections in the listener's backlog
  made,         \* local connections made so far
  opened,       \* streams opened so far
  taken,        \* streams of the peer taken so far
  sig,          \* a signal has been delivered
  closed        \* the transport has ended for this machine

handle == <<requests, pending, reply>>
count == <<conns, made, opened, taken>>
vars == <<loop, task, handle, arriving, inbound, count, sig, closed>>

TypeOK ==
  /\ loop \in [End -> {"select", "open", "over"}]
  /\ task \in [End -> {"poll", "hand", "stopped"}]
  /\ requests \in [End -> Nat]
  /\ pending \in [End -> BOOLEAN]
  /\ reply \in [End -> {"none", "stream", "error"}]
  /\ arriving \in [End -> 0..AckBacklog]
  /\ inbound \in [End -> 0..InboundCap]
  /\ conns \in [End -> Nat]
  /\ made \in [End -> Nat]
  /\ opened \in [End -> Nat]
  /\ taken \in [End -> Nat]
  /\ sig \in [End -> BOOLEAN]
  /\ closed \in [End -> BOOLEAN]

Init ==
  /\ loop = [e \in End |-> "select"]
  /\ task = [e \in End |-> "poll"]
  /\ requests = [e \in End |-> 0]
  /\ pending = [e \in End |-> FALSE]
  /\ reply = [e \in End |-> "none"]
  /\ arriving = [e \in End |-> 0]
  /\ inbound = [e \in End |-> 0]
  /\ conns = [e \in End |-> 0]
  /\ made = [e \in End |-> 0]
  /\ opened = [e \in End |-> 0]
  /\ taken = [e \in End |-> 0]
  /\ sig = [e \in End |-> FALSE]
  /\ closed = [e \in End |-> FALSE]

-----------------------------------------------------------------------------
(***************************************************************************)
(* The relay.                                                              *)
(***************************************************************************)

Loop(e, l) == loop' = [loop EXCEPT ![e] = l]

\* Mutant: the stream is asked for on the side, and the loop goes on.
AcceptLocalSpawned(e) ==
  /\ loop[e] = "select" /\ conns[e] > 0
  /\ conns' = [conns EXCEPT ![e] = @ - 1]
  /\ requests' = [requests EXCEPT ![e] = @ + 1]
  /\ UNCHANGED <<loop, task, pending, reply, arriving, inbound, made, opened, taken, sig, closed>>

\* Mutant: the request goes where nobody will read it.
AcceptLocalHangs(e) ==
  /\ loop[e] = "select" /\ conns[e] > 0
  /\ conns' = [conns EXCEPT ![e] = @ - 1]
  /\ requests' = [requests EXCEPT ![e] = @ + 1]
  /\ Loop(e, "open")
  /\ UNCHANGED <<task, pending, reply, arriving, inbound, made, opened, taken, sig, closed>>

\* A local connection is accepted and a stream asked for; there is nobody to ask once
\* the task has stopped, and the error leaves run.
AcceptLocal(e) ==
  /\ loop[e] = "select" /\ conns[e] > 0
  /\ conns' = [conns EXCEPT ![e] = @ - 1]
  /\ \/ /\ task[e] # "stopped"
        /\ requests' = [requests EXCEPT ![e] = @ + 1]
        /\ Loop(e, "open")
     \/ /\ task[e] = "stopped"
        /\ Loop(e, "over")
        /\ UNCHANGED requests
  /\ UNCHANGED <<task, pending, reply, arriving, inbound, made, opened, taken, sig, closed>>

\* Mux::open returns: a stream, or an error that leaves run.
OpenReturns(e) ==
  /\ loop[e] = "open" /\ reply[e] # "none"
  /\ Loop(e, IF reply[e] = "stream" THEN "select" ELSE "over")
  /\ reply' = [reply EXCEPT ![e] = "none"]
  /\ UNCHANGED <<task, requests, pending, arriving, inbound, count, sig, closed>>

AcceptInbound(e) ==
  /\ loop[e] = "select" /\ inbound[e] > 0
  /\ inbound' = [inbound EXCEPT ![e] = @ - 1]
  /\ taken' = [taken EXCEPT ![e] = @ + 1]
  /\ UNCHANGED <<loop, task, handle, arriving, conns, made, opened, sig, closed>>

\* Mux::accept yields None when the task is gone and the channel empty.
LinkClosed(e) ==
  /\ loop[e] = "select" /\ inbound[e] = 0 /\ task[e] = "stopped"
  /\ Loop(e, "over")
  /\ UNCHANGED <<task, handle, arriving, inbound, count, sig, closed>>

SignalArm(e) ==
  /\ loop[e] = "select" /\ sig[e]
  /\ Loop(e, "over")
  /\ UNCHANGED <<task, handle, arriving, inbound, count, sig, closed>>

-----------------------------------------------------------------------------
(***************************************************************************)
(* The mux task.                                                           *)
(***************************************************************************)

\* The select is biased towards requests, but one may come in after the task has looked
\* and before it polls the connection, so nothing follows from there being one.
TakeRequest(e) ==
  /\ task[e] = "poll" /\ ~pending[e] /\ requests[e] > 0
  /\ requests' = [requests EXCEPT ![e] = @ - 1]
  /\ pending' = [pending EXCEPT ![e] = TRUE]
  /\ UNCHANGED <<loop, task, reply, arriving, inbound, count, sig, closed>>

\* With a request in hand an outbound stream is tried first, whenever one can be had.
CanOpen(e) == pending[e] /\ arriving[Peer(e)] < AckBacklog
Polls(e) == task[e] = "poll" /\ ~CanOpen(e)

\* poll_new_outbound: not before the peer has caught up.  Over a transport that has ended
\* it fails, or makes a stream that leads nowhere if nothing has told it yet.
Outbound(e) ==
  /\ task[e] = "poll" /\ pending[e]
  /\ pending' = [pending EXCEPT ![e] = FALSE]
  /\ \/ /\ ~closed[e] /\ CanOpen(e)
        /\ reply' = [reply EXCEPT ![e] = "stream"]
        /\ arriving' = [arriving EXCEPT ![Peer(e)] = @ + 1]
        /\ opened' = [opened EXCEPT ![e] = @ + 1]
     \/ /\ closed[e]
        /\ \E r \in {"stream", "error"} : reply' = [reply EXCEPT ![e] = r]
        /\ UNCHANGED <<arriving, opened>>
  /\ UNCHANGED <<loop, task, requests, inbound, conns, made, taken, sig, closed>>

\* Mutant: the channel has no bound.
InboundUnbounded(e) ==
  /\ Polls(e) /\ arriving[e] > 0
  /\ arriving' = [arriving EXCEPT ![e] = @ - 1]
  /\ inbound' = [inbound EXCEPT ![e] = @ + 1]
  /\ UNCHANGED <<loop, task, handle, count, sig, closed>>

\* Mutant: a stream that finds the channel full is dropped.
InboundDrops(e) ==
  /\ Polls(e) /\ arriving[e] > 0
  /\ arriving' = [arriving EXCEPT ![e] = @ - 1]
  /\ inbound' = [inbound EXCEPT ![e] = IF @ < InboundCap THEN @ + 1 ELSE @]
  /\ UNCHANGED <<loop, task, handle, count, sig, closed>>

\* The connection yields a stream of the peer's; the task puts it in the channel, or
\* waits for a slot.
Inbound(e) ==
  /\ Polls(e) /\ arriving[e] > 0
  /\ arriving' = [arriving EXCEPT ![e] = @ - 1]
  /\ \/ /\ inbound[e] < InboundCap
        /\ inbound' = [inbound EXCEPT ![e] = @ + 1]
        /\ UNCHANGED task
     \/ /\ inbound[e] = InboundCap
        /\ task' = [task EXCEPT ![e] = "hand"]
        /\ UNCHANGED inbound
  /\ UNCHANGED <<loop, handle, count, sig, closed>>

\* A slot came free.
Hand(e) ==
  /\ task[e] = "hand" /\ loop[e] # "over" /\ inbound[e] < InboundCap
  /\ inbound' = [inbound EXCEPT ![e] = @ + 1]
  /\ task' = [task EXCEPT ![e] = "poll"]
  /\ UNCHANGED <<loop, handle, arriving, count, sig, closed>>

\* The task ends; the connection goes with it, and the requests it has not answered.
Stop(e) ==
  /\ task' = [task EXCEPT ![e] = "stopped"]
  /\ closed' = [d \in End |-> TRUE]
  /\ arriving' = [arriving EXCEPT ![e] = 0]
  /\ requests' = [requests EXCEPT ![e] = 0]
  /\ pending' = [pending EXCEPT ![e] = FALSE]
  /\ reply' = [reply EXCEPT ![e] =
                 IF pending[e] \/ requests[e] > 0 THEN "error" ELSE @]
  /\ UNCHANGED <<loop, inbound, count, sig>>

\* Mutant: a request taken and not answered is forgotten without a word.
ConnEndsSilently(e) ==
  /\ Polls(e) /\ closed[e]
  /\ task' = [task EXCEPT ![e] = "stopped"]
  /\ arriving' = [arriving EXCEPT ![e] = 0]
  /\ requests' = [requests EXCEPT ![e] = 0]
  /\ pending' = [pending EXCEPT ![e] = FALSE]
  /\ UNCHANGED <<loop, reply, inbound, count, sig, closed>>

\* poll_next_inbound yields an error or None: the transport has ended.
ConnEnds(e) ==
  /\ Polls(e) /\ closed[e]
  /\ Stop(e)

\* Mutant: the connection outlives the relay.
HandleDroppedKeeps(e) ==
  /\ loop[e] = "over" /\ task[e] = "poll" /\ ~pending[e] /\ requests[e] = 0
  /\ task' = [task EXCEPT ![e] = "stopped"]
  /\ UNCHANGED <<loop, handle, arriving, inbound, count, sig, closed>>

\* The relay is over and its Mux dropped: the open channel yields None, and a send to
\* the inbound channel fails.
HandleDropped(e) ==
  /\ loop[e] = "over"
  /\ \/ task[e] = "poll" /\ ~pending[e] /\ requests[e] = 0
     \/ task[e] = "hand"
  /\ Stop(e)

-----------------------------------------------------------------------------
(***************************************************************************)
(* The environment.                                                        *)
(***************************************************************************)

\* A local process connects to the mirror.
Connect(e) ==
  /\ loop[e] # "over" /\ made[e] < Conns[e]
  /\ made' = [made EXCEPT ![e] = @ + 1]
  /\ conns' = [conns EXCEPT ![e] = @ + 1]
  /\ UNCHANGED <<loop, task, handle, arriving, inbound, opened, taken, sig, closed>>

Signal(e) ==
  /\ loop[e] # "over" /\ ~sig[e]
  /\ sig' = [sig EXCEPT ![e] = TRUE]
  /\ UNCHANGED <<loop, task, handle, arriving, inbound, count, closed>>

LinkDrops ==
  /\ \E e \in End : ~closed[e]
  /\ closed' = [e \in End |-> TRUE]
  /\ UNCHANGED <<loop, task, handle, arriving, inbound, count, sig>>

-----------------------------------------------------------------------------
Task(e) ==
  \/ TakeRequest(e) \/ Outbound(e) \/ Inbound(e) \/ Hand(e) \/ ConnEnds(e) \/ HandleDropped(e)
Arm(e) == AcceptLocal(e) \/ AcceptInbound(e) \/ LinkClosed(e) \/ SignalArm(e)

Next ==
  \/ \E e \in End : Arm(e) \/ OpenReturns(e) \/ Task(e) \/ Connect(e) \/ Signal(e)
  \/ LinkDrops

Spec == Init /\ [][Next]_vars

\* The task and a relay that waits go on when they can; a ready arm of tokio's select
\* is picked in the end, whichever others are ready.
Fairness ==
  \A e \in End :
    /\ WF_vars(Task(e)) /\ WF_vars(OpenReturns(e))
    /\ SF_vars(AcceptInbound(e)) /\ SF_vars(LinkClosed(e)) /\ SF_vars(SignalArm(e))

FairSpec == Spec /\ Fairness

-----------------------------------------------------------------------------
(***************************************************************************)
(* Properties.                                                             *)
(***************************************************************************)

Asked(e) == requests[e] + (IF pending[e] THEN 1 ELSE 0) + (IF reply[e] = "none" THEN 0 ELSE 1)

\* A relay waits for exactly one answer when it waits for a stream, and for none
\* otherwise: the open channel never fills, and no stream is opened nobody asked for
\* (Mux::open is awaited in place, and the task takes one request at a time).
OneRequest ==
  \A e \in End : Asked(e) = IF loop[e] = "open" THEN 1 ELSE 0

\* While the transport holds, every stream a machine opened is with the other one: on
\* its way, in the task's hand, in the channel, or taken, once each.
NoStreamLost ==
  \A e \in End :
    ~closed[e] =>
      opened[Peer(e)] =
        arriving[e] + (IF task[e] = "hand" THEN 1 ELSE 0) + inbound[e] + taken[e]

\* README.md:70: `down` signals a relay, and the relay ends.
SignalEnds == \A e \in End : sig[e] ~> loop[e] = "over"

\* Mux::open returns, whether or not the link lives.
OpenAnswered == \A e \in End : loop[e] = "open" ~> loop[e] # "open"

\* A link that has ended for one relay, or on the wire, ends for both.
EndSpreads ==
  \A e \in End : loop[e] = "over" \/ closed[e] ~> \A d \in End : loop[d] = "over"

=============================================================================
