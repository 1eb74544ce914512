-------------------------------- MODULE Link --------------------------------
(***************************************************************************)
(* One link of cc-link: the relay process on each machine, the registry    *)
(* directory it publishes its mirror in, and the control stream the two    *)
(* relays share.  The near relay is `cc-link connect` (or `list`), the far *)
(* one the `cc-link serve` it starts over ssh.                             *)
(*                                                                         *)
(* A relay runs through pc: it resolves the session it exports, shakes     *)
(* hands, publishes its mirror one file at a time, binds its socket, and   *)
(* sits in a select loop until a reason to stop; it then removes what it   *)
(* published, says goodbye and exits.  Every await of the code, and every  *)
(* point between two file operations, is a point where another step may    *)
(* come in.  Exit is the end of the process, by any road.                  *)
(***************************************************************************)
EXTENDS Naturals, Sequences, Functions

CONSTANTS MaxNow,       \* clock readings told apart; the clock stops there
          WatchCap,     \* slots of the watcher's channel (8 in the code)
          CtlCap,       \* control messages a relay queues before it waits
          StreamCap,    \* streams queued for a relay (16 in the code)
          Env           \* what the environment does in this instance

EnvKind == {"list", "conn", "foreign", "beat", "kill", "drop", "fault", "term",
            "turnover", "misfit", "timeout", "litter"}

ASSUME BoundsAssumption ==
  /\ MaxNow \in Nat \ {0}
  /\ WatchCap \in Nat \ {0}
  /\ CtlCap \in Nat \ {0}
  /\ StreamCap \in Nat
ASSUME EnvAssumption == Env \subseteq EnvKind

VARIABLES
  pc,           \* where each relay is
  session,      \* the exported session's record: here, gone, or its pid reused
  stamp,        \* that record's updatedAt
  offered,      \* the near record sent in Hello, as resolved; 0 for a listing
  agreement,    \* the peer's record as the handshake delivered it; 0 for none
  mirror,       \* the record this relay published; src = 0 when there is none
  key,          \* its key file exists
  sock,         \* the file at the mirror's socket path
  changes,      \* events queued by the registry watcher
  sig,          \* a signal delivered to a handler and not yet acted on
  chan,         \* control messages on their way to each relay
  inbound,      \* streams the peer opened, not yet accepted
  closed,       \* the transport of this relay has ended
  dropped,      \* it ended without either relay ending it
  now           \* the clock

relay == <<pc, offered, agreement, sig>>
files == <<mirror, key, sock>>
sessions == <<session, stamp, now>>
wire == <<chan, inbound, closed, dropped>>
vars == <<relay, files, sessions, wire, changes>>

-----------------------------------------------------------------------------
End == {"near", "far"}
Peer(e) == IF e = "near" THEN "far" ELSE "near"

Handshake == {"unborn", "resolve", "greet", "await", "accept", "drain"}
Publishing == {"record", "key", "bind", "watch", "handlers"}
Loop == {"loop", "debounce"}
Closing == {"withdraw", "unkey", "unsock", "bye", "leave"}
Ended == {"done", "failed", "killed", "refused", "cut", "answered", "abandoned"}
Alive == (Handshake \ {"unborn"}) \cup Publishing \cup Loop \cup Closing

Stamp == 1..MaxNow
NoMirror == [src |-> 0, at |-> 0]
MsgType == {"attach", "list", "ready", "sessions", "refused", "update", "bye"}
Message == [type : MsgType, stamp : 0..MaxNow]
Msg(t, s) == [type |-> t, stamp |-> s]

\* validate_target: the record is there and still the session that was resolved.
Valid(e) == session[e] = "here"
Shown(e) == mirror[e] # NoMirror
Bare(e) == ~Shown(e) /\ ~key[e] /\ sock[e] # "ours"
InTransit(t, e) == \E m \in Range(chan[e]) : m.type = t
Over(e) == pc[e] \in Closing \cup Ended
Tick == IF now < MaxNow THEN now + 1 ELSE now

TypeOK ==
  /\ pc \in [End -> Alive \cup {"unborn"} \cup Ended]
  /\ session \in [End -> {"here", "gone", "reused"}]
  /\ stamp \in [End -> Stamp]
  /\ offered \in 0..MaxNow
  /\ agreement \in [End -> 0..MaxNow]
  /\ mirror \in [End -> [src : 0..MaxNow, at : 0..MaxNow]]
  /\ key \in [End -> BOOLEAN]
  /\ sock \in [End -> {"none", "stale", "other", "ours"}]
  /\ changes \in [End -> 0..WatchCap]
  /\ sig \in [End -> BOOLEAN]
  /\ chan \in [End -> Seq(Message)]
  /\ inbound \in [End -> 0..StreamCap]
  /\ closed \in [End -> BOOLEAN]
  /\ dropped \in BOOLEAN
  /\ now \in Stamp

\* A relay's pid may have been used before: the socket path of a fresh relay may
\* hold a dead socket, or the live one of a process of another pid domain.
Init ==
  /\ pc = [near |-> "resolve", far |-> "unborn"]
  /\ session = [e \in End |-> "here"]
  /\ stamp = [e \in End |-> 1]
  /\ offered = 0
  /\ agreement = [e \in End |-> 0]
  /\ mirror = [e \in End |-> NoMirror]
  /\ key = [e \in End |-> FALSE]
  /\ sock \in [End -> IF "litter" \in Env THEN {"none", "stale", "other"} ELSE {"none"}]
  /\ changes = [e \in End |-> 0]
  /\ sig = [e \in End |-> FALSE]
  /\ chan = [e \in End |-> <<>>]
  /\ inbound = [e \in End |-> 0]
  /\ closed = [e \in End |-> FALSE]
  /\ dropped = FALSE
  /\ now = 1

-----------------------------------------------------------------------------
\* pc moves on, and nothing else of the relay's own.
Goto(e, l) == pc' = [pc EXCEPT ![e] = l]

\* mux::send: what is written to a stream whose link has ended goes nowhere.
Sent(e, m) == IF closed[e] THEN chan
                           ELSE [chan EXCEPT ![Peer(e)] = Append(@, m)]

\* The registry watcher: try_send, so an event that finds the channel full is dropped.
\* It lives from watch_registry to the drop after the loop.
Watching(e) == pc[e] \in {"handlers"} \cup Loop
\* Mutant: a channel without a bound.
NotifiedUnbounded(e) ==
  IF Watching(e) THEN [changes EXCEPT ![e] = @ + 1] ELSE changes

Notified(e) ==
  IF Watching(e) /\ changes[e] < WatchCap THEN [changes EXCEPT ![e] = @ + 1]
                                          ELSE changes

\* The process ends.  Its transport closes behind it, frames the multiplexer has not
\* written yet go with it, and its socket file stays behind with nobody listening.
Exit(e, how) ==
  /\ Goto(e, how)
  /\ sig' = [sig EXCEPT ![e] = FALSE]
  /\ changes' = [changes EXCEPT ![e] = 0]
  /\ inbound' = [inbound EXCEPT ![e] = 0]
  /\ closed' = [closed EXCEPT ![Peer(e)] = TRUE]
  /\ \E n \in 0..Len(chan[Peer(e)]) :
       chan' = [chan EXCEPT ![e] = <<>>, ![Peer(e)] = SubSeq(@, 1, n)]
  /\ sock' = [sock EXCEPT ![e] = IF @ = "ours" THEN "stale" ELSE @]
  /\ UNCHANGED <<offered, agreement, mirror, key, sessions, dropped>>
-----------------------------------------------------------------------------
(***************************************************************************)
(* The handshake.                                                          *)
(***************************************************************************)

\* connect resolves its own session before it starts the far end; a session that has
\* ended is an error before anything else happens.
Resolve ==
  /\ pc["near"] = "resolve"
  /\ \/ /\ Valid("near")
        /\ pc' = [near |-> "greet", far |-> "accept"]
        /\ offered' = stamp["near"]
        /\ UNCHANGED <<agreement, sig, files, sessions, wire, changes>>
     \/ /\ ~Valid("near")
        /\ Exit("near", "failed")

\* `list` exports nothing and starts the far end at once.
StartList ==
  /\ "list" \in Env
  /\ pc["near"] = "resolve"
  /\ pc' = [near |-> "greet", far |-> "accept"]
  /\ UNCHANGED <<offered, agreement, sig, files, sessions, wire, changes>>

\* Hello, with the record as it was resolved.
Greet ==
  /\ pc["near"] = "greet"
  /\ ~closed["near"]
  /\ chan' = Sent("near", Msg(IF offered = 0 THEN "list" ELSE "attach", offered))
  /\ Goto("near", "await")
  /\ UNCHANGED <<offered, agreement, sig, files, sessions, inbound, closed, dropped, changes>>

\* A handshake read or write meets a link that has ended.
Cut(e) ==
  /\ pc[e] \in {"greet", "accept", "await"}
  /\ closed[e]
  /\ pc[e] = "await" => chan[e] = <<>>
  /\ Exit(e, "cut")

\* server_handshake answers Hello, reading chan["far"] and writing to the near end.
Answer(m, l) ==
  /\ pc["far"] = "accept"
  /\ chan["far"] # <<>>
  /\ chan' = [Sent("far", m) EXCEPT !["far"] = Tail(chan["far"])]
  /\ Goto("far", l)
  /\ UNCHANGED <<offered, sig, files, sessions, inbound, closed, dropped, changes>>

\* The far end refuses: acceptable() rejects the greeting, or the session named does
\* not resolve to one live session.  Either way it stays until the client has read why.
Refuse ==
  /\ \/ "misfit" \in Env
     \/ chan["far"] # <<>> /\ Head(chan["far"]).type = "attach" /\ ~Valid("far")
  /\ Answer(Msg("refused", 0), "drain")
  /\ UNCHANGED agreement

AnswerList ==
  /\ chan["far"] # <<>> /\ Head(chan["far"]).type = "list"
  /\ Answer(Msg("sessions", 0), "drain")
  /\ UNCHANGED agreement

\* The far end resolves the session it was asked for, and keeps the client's record.
Accept ==
  /\ chan["far"] # <<>> /\ Head(chan["far"]).type = "attach"
  /\ Valid("far")
  /\ Answer(Msg("ready", stamp["far"]), "record")
  /\ agreement' = [agreement EXCEPT !["far"] = Head(chan["far"]).stamp]

\* Mutant: exit as soon as the answer is written.
DrainedAtOnce ==
  /\ pc["far"] = "drain"
  /\ Exit("far", "answered")

\* drain: the client has read the answer and closed, or LIST_DRAIN has run out.
Drained ==
  /\ pc["far"] = "drain"
  /\ \/ closed["far"] /\ Exit("far", "answered")
     \/ "timeout" \in Env /\ Exit("far", "abandoned")

\* Mutant: any answer is taken for Ready.
HearReadyAnything ==
  /\ pc["near"] = "await"
  /\ chan["near"] # <<>>
  /\ agreement' = [agreement EXCEPT !["near"] = 1]
  /\ chan' = [chan EXCEPT !["near"] = Tail(@)]
  /\ Goto("near", "record")
  /\ UNCHANGED <<offered, sig, files, sessions, inbound, closed, dropped, changes>>

\* recv buffers what it reads, and the buffer is dropped with whatever followed the line.
HearReady ==
  /\ pc["near"] = "await"
  /\ chan["near"] # <<>> /\ Head(chan["near"]).type = "ready"
  /\ agreement' = [agreement EXCEPT !["near"] = Head(chan["near"]).stamp]
  /\ \E n \in 1..Len(chan["near"]) :
       chan' = [chan EXCEPT !["near"] = SubSeq(@, n + 1, Len(@))]
  /\ Goto("near", "record")
  /\ UNCHANGED <<offered, sig, files, sessions, inbound, closed, dropped, changes>>

HearRefused ==
  /\ pc["near"] = "await"
  /\ chan["near"] # <<>> /\ Head(chan["near"]).type = "refused"
  /\ Exit("near", "refused")

HearSessions ==
  /\ pc["near"] = "await"
  /\ chan["near"] # <<>> /\ Head(chan["near"]).type = "sessions"
  /\ Exit("near", "answered")

-----------------------------------------------------------------------------
(***************************************************************************)
(* Link::establish and the start of Link::run: the mirror goes up.         *)
(***************************************************************************)

\* The record is synthesised from the peer's and written; the key of the session we
\* export is read first, and a session that has gone has none.
PublishRecord(e) ==
  /\ pc[e] = "record"
  /\ \/ /\ session[e] # "gone"
        /\ mirror' = [mirror EXCEPT ![e] = [src |-> agreement[e], at |-> agreement[e]]]
        /\ Goto(e, "key")
        /\ UNCHANGED <<offered, agreement, sig, key, sock, sessions, wire, changes>>
     \/ /\ session[e] = "gone"
        /\ Exit(e, "failed")

PublishKey(e) ==
  /\ pc[e] = "key"
  /\ key' = [key EXCEPT ![e] = TRUE]
  /\ Goto(e, "bind")
  /\ UNCHANGED <<offered, agreement, sig, mirror, sock, sessions, wire, changes>>

\* Mutant: whatever is in the way is unlinked.
BindClobbers(e) ==
  /\ pc[e] = "bind"
  /\ sock' = [sock EXCEPT ![e] = "ours"]
  /\ Goto(e, "watch")
  /\ UNCHANGED <<offered, agreement, sig, mirror, key, sessions, wire, changes>>

\* A dead socket in the way is replaced, a live one is left and the relay gives up.
Bind(e) ==
  /\ pc[e] = "bind"
  /\ \/ /\ sock[e] # "other"
        /\ sock' = [sock EXCEPT ![e] = "ours"]
        /\ Goto(e, "watch")
        /\ UNCHANGED <<offered, agreement, sig, mirror, key, sessions, wire, changes>>
     \/ /\ sock[e] = "other"
        /\ Exit(e, "failed")

\* watch_registry, then the signal handlers.
Watch(e) ==
  /\ pc[e] = "watch"
  /\ Goto(e, "handlers")
  /\ UNCHANGED <<offered, agreement, sig, files, sessions, wire, changes>>

InstallHandlers(e) ==
  /\ pc[e] = "handlers"
  /\ Goto(e, "loop")
  /\ UNCHANGED <<offered, agreement, sig, files, sessions, wire, changes>>

-----------------------------------------------------------------------------
(***************************************************************************)
(* The select loop: one action per arm.                                    *)
(***************************************************************************)

\* The loop breaks with a reason, and the watcher goes with it.
Break(e) ==
  /\ Goto(e, "withdraw")
  /\ changes' = [changes EXCEPT ![e] = 0]
  /\ sig' = [sig EXCEPT ![e] = FALSE]
  /\ UNCHANGED <<offered, agreement, files, sessions>>

\* A local process connects to the mirror, and a stream is opened for it; opening one
\* on a link that has ended is an error that leaves run.
AcceptLocal(e) ==
  /\ "conn" \in Env
  /\ pc[e] = "loop"
  /\ \/ /\ ~closed[e] /\ inbound[Peer(e)] < StreamCap
        /\ inbound' = [inbound EXCEPT ![Peer(e)] = @ + 1]
        /\ UNCHANGED <<relay, files, sessions, chan, closed, dropped, changes>>
     \/ /\ closed[e]
        /\ Exit(e, "failed")

\* A stream from the far end is checked against the session it is for; one that finds
\* the session gone is an error that leaves run.
AcceptInbound(e) ==
  /\ pc[e] = "loop"
  /\ inbound[e] > 0
  /\ \/ /\ Valid(e)
        /\ inbound' = [inbound EXCEPT ![e] = @ - 1]
        /\ UNCHANGED <<relay, files, sessions, chan, closed, dropped, changes>>
     \/ /\ ~Valid(e)
        /\ Exit(e, "failed")

\* mux.accept yields None: the link has closed.
LinkClosed(e) ==
  /\ pc[e] = "loop"
  /\ closed[e] /\ inbound[e] = 0
  /\ Break(e)
  /\ UNCHANGED wire

\* Mutant: updates are applied by a task of their own, which outlives the loop.
ReadUpdateDetached(e) ==
  /\ pc[e] \in {"loop", "unkey"}
  /\ chan[e] # <<>> /\ Head(chan[e]).type = "update"
  /\ mirror' = [mirror EXCEPT ![e] = [src |-> Head(chan[e]).stamp, at |-> Head(chan[e]).stamp]]
  /\ chan' = [chan EXCEPT ![e] = Tail(@)]
  /\ changes' = Notified(e)
  /\ UNCHANGED <<relay, key, sock, sessions, inbound, closed, dropped>>

\* mirror_update: the mirror is rebuilt from the peer's record, in the directory this
\* relay watches.
ReadUpdate(e) ==
  /\ pc[e] = "loop"
  /\ chan[e] # <<>> /\ Head(chan[e]).type = "update"
  /\ mirror' = [mirror EXCEPT ![e] = [src |-> Head(chan[e]).stamp, at |-> Head(chan[e]).stamp]]
  /\ chan' = [chan EXCEPT ![e] = Tail(@)]
  /\ changes' = Notified(e)
  /\ UNCHANGED <<relay, key, sock, sessions, inbound, closed, dropped>>

ReadBye(e) ==
  /\ pc[e] = "loop"
  /\ chan[e] # <<>> /\ Head(chan[e]).type = "bye"
  /\ chan' = [chan EXCEPT ![e] = Tail(@)]
  /\ Break(e)
  /\ UNCHANGED <<inbound, closed, dropped>>

\* The control stream has ended.
ReadEof(e) ==
  /\ pc[e] = "loop"
  /\ closed[e] /\ chan[e] = <<>>
  /\ Break(e)
  /\ UNCHANGED wire

\* The watcher reports a change; the relay lets the registry settle before it looks.
TakeChange(e) ==
  /\ pc[e] = "loop"
  /\ changes[e] > 0
  /\ Len(chan[Peer(e)]) < CtlCap
  /\ changes' = [changes EXCEPT ![e] = @ - 1]
  /\ Goto(e, "debounce")
  /\ UNCHANGED <<offered, agreement, sig, files, sessions, wire>>

\* Mutant: the record captured at the handshake is sent, not the one on disk.
PushCaptured(e) ==
  /\ pc[e] = "debounce"
  /\ \/ /\ Valid(e)
        /\ Goto(e, "loop")
        /\ chan' = Sent(e, Msg("update", agreement[Peer(e)]))
        /\ UNCHANGED <<offered, agreement, sig, files, sessions, inbound, closed, dropped, changes>>
     \/ /\ ~Valid(e) \/ closed[e]
        /\ Break(e)
        /\ UNCHANGED wire

\* After WATCH_DEBOUNCE: the record as it is now goes to the peer, or the exported
\* session has ended and so has the link.  A write to an ended link may be the first
\* sign of it, or may not.
Push(e) ==
  /\ pc[e] = "debounce"
  /\ \/ /\ Valid(e)
        /\ Goto(e, "loop")
        /\ chan' = Sent(e, Msg("update", stamp[e]))
        /\ UNCHANGED <<offered, agreement, sig, files, sessions, inbound, closed, dropped, changes>>
     \/ /\ ~Valid(e) \/ closed[e]
        /\ Break(e)
        /\ UNCHANGED wire

\* Mutant: the watcher leaves out what this relay writes itself.
HeartbeatUnseen(e) ==
  /\ "beat" \in Env
  /\ pc[e] = "loop"
  /\ now' = Tick
  /\ mirror' = [mirror EXCEPT ![e].at = now']
  /\ UNCHANGED <<relay, key, sock, session, stamp, wire, changes>>

\* Mutant: the record is written again as the peer sent it, without the present time.
HeartbeatStale(e) ==
  /\ "beat" \in Env
  /\ pc[e] = "loop"
  /\ now' = Tick
  /\ mirror' = [mirror EXCEPT ![e].at = mirror[e].src]
  /\ changes' = Notified(e)
  /\ UNCHANGED <<relay, key, sock, session, stamp, wire>>

\* touch_activity: the mirror's own timestamp moves to the present.
Heartbeat(e) ==
  /\ "beat" \in Env
  /\ pc[e] = "loop"
  /\ now' = Tick
  /\ mirror' = [mirror EXCEPT ![e].at = now']
  /\ changes' = Notified(e)
  /\ UNCHANGED <<relay, key, sock, session, stamp, wire>>

SignalArm(e) ==
  /\ pc[e] = "loop"
  /\ sig[e]
  /\ Break(e)
  /\ UNCHANGED wire
-----------------------------------------------------------------------------
(***************************************************************************)
(* After the loop: unpublish, in its order, then Bye, then the process     *)
(* ends.  Signals no longer matter: their handlers are installed and       *)
(* nothing reads them.                                                     *)
(***************************************************************************)

RemoveRecord(e) ==
  /\ pc[e] = "withdraw"
  /\ mirror' = [mirror EXCEPT ![e] = NoMirror]
  /\ Goto(e, "unkey")
  /\ UNCHANGED <<offered, agreement, sig, key, sock, sessions, wire, changes>>

RemoveKey(e) ==
  /\ pc[e] = "unkey"
  /\ key' = [key EXCEPT ![e] = FALSE]
  /\ Goto(e, "unsock")
  /\ UNCHANGED <<offered, agreement, sig, mirror, sock, sessions, wire, changes>>

RemoveSocket(e) ==
  /\ pc[e] = "unsock"
  /\ sock' = [sock EXCEPT ![e] = "none"]
  /\ Goto(e, "bye")
  /\ UNCHANGED <<offered, agreement, sig, mirror, key, sessions, wire, changes>>

\* Mutant: the far side is told first.
SayByeFirst(e) ==
  /\ pc[e] = "withdraw"
  /\ chan' = Sent(e, Msg("bye", 0))
  /\ Goto(e, "unkey")
  /\ UNCHANGED <<offered, agreement, sig, files, sessions, inbound, closed, dropped, changes>>

SayBye(e) ==
  /\ pc[e] = "bye"
  /\ chan' = Sent(e, Msg("bye", 0))
  /\ Goto(e, "leave")
  /\ UNCHANGED <<offered, agreement, sig, files, sessions, inbound, closed, dropped, changes>>

Leave(e) ==
  /\ pc[e] = "leave"
  /\ Exit(e, "done")

-----------------------------------------------------------------------------
(***************************************************************************)
(* The environment.  Env says which of these an instance has.              *)
(***************************************************************************)

\* An exported session rewrites its record: a new status, a new name.
Rewrite(e) ==
  /\ session[e] = "here"
  /\ now < MaxNow
  /\ now' = Tick
  /\ stamp' = [stamp EXCEPT ![e] = now']
  /\ changes' = Notified(e)
  /\ UNCHANGED <<relay, files, session, wire>>

\* The exported session ends and its record goes, or another process has taken its pid.
SessionEnds(e) ==
  /\ "turnover" \in Env
  /\ \/ session[e] = "here" /\ session' = [session EXCEPT ![e] = "gone"]
     \/ session[e] = "gone" /\ session' = [session EXCEPT ![e] = "reused"]
  /\ changes' = Notified(e)
  /\ UNCHANGED <<relay, files, stamp, now, wire>>

\* Somebody else writes in the registry directory.
Foreign(e) ==
  /\ "foreign" \in Env
  /\ Watching(e) /\ changes[e] < WatchCap
  /\ changes' = Notified(e)
  /\ UNCHANGED <<relay, files, sessions, wire>>

\* SIGTERM or SIGINT: a relay without handlers dies of it.
Terminate(e) ==
  /\ "term" \in Env
  /\ \/ /\ pc[e] \in Loop
        /\ sig' = [sig EXCEPT ![e] = TRUE]
        /\ UNCHANGED <<pc, offered, agreement, files, sessions, wire, changes>>
     \/ /\ pc[e] \in Alive \ (Loop \cup Closing)
        /\ Exit(e, "killed")

\* SIGKILL, or the machine's own reasons.
Kill(e) ==
  /\ "kill" \in Env
  /\ pc[e] \in Alive
  /\ Exit(e, "killed")

\* A file operation fails: establish, run and unpublish all leave by `?`.
Fault(e) ==
  /\ "fault" \in Env
  /\ pc[e] \in Publishing \cup Loop \cup {"withdraw", "unkey", "unsock"}
  /\ Exit(e, "failed")

\* ssh or the network goes away, with some of what was on its way.
LinkDrops ==
  /\ "drop" \in Env
  /\ pc["far"] # "unborn"
  /\ \E e \in End : ~closed[e]
  /\ closed' = [e \in End |-> TRUE]
  /\ \E n \in 0..Len(chan["near"]), f \in 0..Len(chan["far"]) :
       chan' = [e \in End |-> SubSeq(chan[e], 1, IF e = "near" THEN n ELSE f)]
  /\ dropped' = TRUE
  /\ UNCHANGED <<relay, files, sessions, inbound, changes>>

\* The harness's sweeper removes a record whose process is dead.
Sweep(e) ==
  /\ pc[e] \in Ended
  /\ Shown(e)
  /\ mirror' = [mirror EXCEPT ![e] = NoMirror]
  /\ UNCHANGED <<relay, key, sock, sessions, wire, changes>>

-----------------------------------------------------------------------------
Hear == HearReady \/ HearRefused \/ HearSessions
Hello == Refuse \/ AnswerList \/ Accept
Near == Resolve \/ StartList \/ Greet \/ Hear
Far == Hello \/ Drained
Setup(e) ==
  \/ Cut(e)
  \/ PublishRecord(e) \/ PublishKey(e) \/ Bind(e) \/ Watch(e) \/ InstallHandlers(e)
Withdraw(e) ==
  RemoveRecord(e) \/ RemoveKey(e) \/ RemoveSocket(e) \/ SayBye(e) \/ Leave(e)

\* What a relay does one thing after the other, outside the select.
Sequel(e) ==
  \/ e = "near" /\ Near
  \/ e = "far" /\ Far
  \/ Setup(e) \/ Push(e) \/ Withdraw(e)

\* The arms the far machine makes ready.
ReadControl(e) == ReadUpdate(e) \/ ReadBye(e) \/ ReadEof(e)
Incoming(e) == ReadControl(e) \/ LinkClosed(e) \/ AcceptInbound(e)

Arm(e) == AcceptLocal(e) \/ Incoming(e) \/ TakeChange(e) \/ Heartbeat(e) \/ SignalArm(e)

Environment(e) ==
  Rewrite(e) \/ SessionEnds(e) \/ Foreign(e) \/ Terminate(e) \/ Kill(e) \/ Fault(e)

Next ==
  \/ LinkDrops
  \/ \E e \in End : Sequel(e) \/ Arm(e) \/ Environment(e) \/ Sweep(e)

Spec == Init /\ [][Next]_vars

\* A process that can go on does.  An arm of tokio's select is picked at random among
\* those that are ready, so one that is ready again and again is picked in the end.
\* Nothing is asked of the environment but the hourly timer and the sweeper.
Fairness ==
  \A e \in End :
    /\ WF_vars(Sequel(e)) /\ WF_vars(Sweep(e))
    /\ SF_vars(Incoming(e)) /\ SF_vars(TakeChange(e)) /\ SF_vars(Heartbeat(e))

FairSpec == Spec /\ Fairness

-----------------------------------------------------------------------------
(***************************************************************************)
(* Properties.                                                             *)
(***************************************************************************)

\* A relay tells the far side nothing before its own mirror, key and socket are gone:
\* the kill may land at any moment, so nothing network-bound sits ahead of the removal
\* (the order of unpublish and Bye at the end of run).
WithdrawnBeforeTold ==
  \A e \in End :
    pc[e] \in {"bye", "leave", "done"} \/ InTransit("bye", Peer(e)) => Bare(e)

\* A handshake that was refused, or that only listed, leaves no mirror on either
\* machine, whatever else happens while the refusal is on its way.
RefusedLeavesNothing ==
  pc["far"] \in {"drain", "answered", "abandoned"} =>
    \A e \in End : Bare(e)

\* The far end that has seen its answer drained was heard: over a transport that holds,
\* the client never finds the link merely closed (refused and drain).
ReasonIsHeard ==
  ~dropped /\ pc["near"] = "cut" => pc["far"] # "answered"

\* The live socket of another process at the mirror's path is never unlinked (bind, and
\* unpublish, which is reached only by a relay that bound).
OthersSocketKept ==
  [][\A e \in End : sock[e] = "other" => sock'[e] = "other"]_vars

\* A mirror goes up only after the far end resolved the session it is asked for, only
\* by a relay that is not over, and never comes back once withdrawn.
Granted == INSTANCE Grant WITH
  agreed <- agreement["far"] # 0,
  shown <- {e \in End : Shown(e)},
  over <- {e \in End : Over(e)}
ImplementsGrant == Granted!GSpec

\* The grant ends when the session does, on both machines: once a session exported on
\* either end has gone, or either relay has stopped for any reason, both relays end and
\* neither mirror is left.
GrantEnds ==
  \A e \in End :
    ~Valid(e) \/ Over(e) ~>
      \A m \in End : pc[m] \in Ended \cup {"unborn"} /\ ~Shown(m)

\* What a session writes reaches its mirror: again and again, the link is over or the
\* far machine shows the record as it is now.
Converges ==
  \A e \in End :
    []<>(mirror[Peer(e)].src = stamp[e] \/ (\E m \in End : pc[m] \in Closing \cup Ended))

\* A link without traffic does not go stale in listings: again and again it is over or each
\* mirror's activity is the present, though every update that comes in sets the activity
\* back to the peer session's own (touch_activity against mirror_update).
StaysFresh ==
  \A e \in End : []<>(mirror[e].at = now \/ \E m \in End : Over(m))

-----------------------------------------------------------------------------
(***************************************************************************)
(* What the repository says and the code does not keep.                    *)
(***************************************************************************)

\* docs/design-rationale.md:112: a mirror is withdrawn as soon as the session behind it
\* goes, on either end.  A relay that leaves run by an error must have withdrawn too.
WithdrawnOnError ==
  \A e \in End : pc[e] = "failed" => ~Shown(e)

\* docs/design-rationale.md:122: status is pushed as it changes.  Once the sessions stop
\* changing, the relays stop talking.
Settles ==
  <>[](\A e \in End : ~InTransit("update", e))

=============================================================================
