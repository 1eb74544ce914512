------------------------------ MODULE Control -------------------------------
(***************************************************************************)
(* The control stream of a link as the near relay reads it, from the first *)
(* byte of the pipe to the end: the preamble, the greeting and its answer, *)
(* the clock offset measured across them, and the updates that follow.     *)
(*                                                                         *)
(* Link has the messages of this stream whole.  Here a message is a line   *)
(* that may arrive in two parts, and the code reads lines in two ways:     *)
(* recv, with a BufReader of its own that it drops with whatever it has    *)
(* read past the line, and read_line inside a select, whose future is      *)
(* dropped with the part it has read whenever another arm is taken.  The   *)
(* far relay reads the same way; it is modelled as a writer.               *)
(***************************************************************************)
EXTENDS Integers, Sequences

CONSTANTS Preamble,     \* what both ends write first
          Slack,        \* bytes ahead of it that are still looked at (256 in the code)
          Opening,      \* what may come out of the far end before the multiplexer
          Greeting,     \* what a client may say of itself
          Here,         \* what the far end says of itself
          Skew,         \* far clock minus near clock, in ticks
          MaxNow,       \* ticks of the near clock
          Ages,         \* how long ago the time in a record may be, in ticks
          MaxSaid       \* messages the far end sends

ASSUME PreambleAssumption ==
  Preamble \in Seq(STRING) /\ Preamble # <<>> /\ Slack \in Nat /\ Opening \subseteq Seq(STRING)
ASSUME ClockAssumption == Skew \subseteq {d \in Int : d >= -1} /\ MaxNow \in Nat \ {0} /\ Ages \subseteq Nat
ASSUME BoundAssumption == MaxSaid \in Nat \ {0}

VARIABLES
  pc,           \* where the near relay is, or how it ended
  io,           \* bytes of the pipe not read by expect_preamble
  seen,         \* bytes it has read
  greeting,     \* what this client says in Hello
  now,          \* the near clock
  skew,         \* how far the far clock is ahead
  sentAt,       \* near clock when Hello went
  offset,       \* what each end adds to the other's timestamps
  far,          \* the far relay: to answer, up, refusing, gone
  said,         \* the messages it sent: kind, and the stamp of the record in it
  wire,         \* parts of messages on their way
  buf,          \* parts that have arrived
  part,         \* what the read in progress has taken of a line
  mirror        \* the record shown: number of its message, activity time

preface == <<io, seen>>
clocks == <<now, skew, sentAt, offset>>
farend == <<far, said>>
stream == <<wire, buf, part>>
vars == <<pc, preface, greeting, clocks, farend, stream, mirror>>

Ended == {"noisy", "stranger", "closed", "cut", "refused", "failed", "eof", "bye"}
NoMirror == [n |-> 0, at |-> 0]
Part == [n : 1..MaxSaid, last : BOOLEAN]
Line(n) == <<[n |-> n, last |-> FALSE], [n |-> n, last |-> TRUE]>>
FarNow == now + skew

TypeOK ==
  /\ pc \in {"preamble", "greet", "await", "loop"} \cup Ended
  /\ io \in Seq(STRING) /\ seen \in Seq(STRING)
  /\ now \in 1..MaxNow /\ sentAt \in 0..MaxNow /\ skew \in Skew
  /\ offset \in [{"near", "far"} -> Int]
  /\ greeting \in Greeting
  /\ far \in {"accept", "up", "drain", "gone"}
  /\ said \in Seq([kind : {"ready", "refused", "update", "bye"}, at : Nat, clock : Nat])
  /\ Len(said) <= MaxSaid
  /\ wire \in Seq(Part) /\ buf \in Seq(Part) /\ part \in Seq(Part)
  /\ mirror \in [n : 0..MaxSaid, at : Nat]

Init ==
  /\ pc = "preamble"
  /\ io \in Opening /\ seen = <<>>
  /\ greeting \in Greeting
  /\ now = 1 /\ skew \in Skew /\ sentAt = 0
  /\ offset = [e \in {"near", "far"} |-> 0]
  /\ far = "accept" /\ said = <<>>
  /\ wire = <<>> /\ buf = <<>> /\ part = <<>>
  /\ mirror = NoMirror

-----------------------------------------------------------------------------
(***************************************************************************)
(* The preamble.                                                           *)
(***************************************************************************)

EndsWith(s, t) == Len(s) >= Len(t) /\ SubSeq(s, Len(s) - Len(t) + 1, Len(s)) = t

\* Mutant: one byte more is read.
VerdictLate(s) ==
  CASE EndsWith(s, Preamble) /\ Len(s) = Len(Preamble) -> "greet"
    [] EndsWith(s, Preamble) /\ Len(s) > Len(Preamble) -> "noisy"
    [] ~EndsWith(s, Preamble) /\ Len(s) > Len(Preamble) + Slack -> "stranger"
    [] OTHER -> "preamble"

\* What expect_preamble makes of the bytes it has read so far.
Verdict(s) ==
  CASE EndsWith(s, Preamble) /\ Len(s) = Len(Preamble) -> "greet"
    [] EndsWith(s, Preamble) /\ Len(s) > Len(Preamble) -> "noisy"
    [] ~EndsWith(s, Preamble) /\ Len(s) >= Len(Preamble) + Slack -> "stranger"
    [] OTHER -> "preamble"

ReadByte ==
  /\ pc = "preamble"
  /\ \/ /\ io # <<>>
        /\ seen' = Append(seen, Head(io))
        /\ io' = Tail(io)
        /\ pc' = Verdict(seen')
     \/ /\ io = <<>> /\ far = "gone"
        /\ pc' = "closed"
        /\ UNCHANGED preface
  /\ UNCHANGED <<greeting, clocks, farend, stream, mirror>>

-----------------------------------------------------------------------------
(***************************************************************************)
(* The handshake.                                                          *)
(***************************************************************************)

\* client_handshake: Hello says who asks, and what time it is here.
Greet ==
  /\ pc = "greet"
  /\ \/ /\ far # "gone"
        /\ sentAt' = now
        /\ pc' = "await"
     \/ /\ far = "gone"
        /\ pc' = "cut"
        /\ UNCHANGED sentAt
  /\ UNCHANGED <<preface, greeting, now, skew, offset, farend, stream, mirror>>

\* same_machine: both ends would share one registry.
SameMachine(g) == g.domain = Here.domain /\ g.home = Here.home

\* acceptable: the greeting is one this end can build a link with.
Acceptable(g) ==
  g.protocol = Here.protocol /\ g.platform = "linux" /\ ~SameMachine(g)

\* mux::send: one line into the stream.
Send(m) ==
  /\ said' = Append(said, m)
  /\ wire' = wire \o Line(Len(said'))
  /\ UNCHANGED <<buf, part>>

\* The record of a session over there, by the clock over there.
Record(k) ==
  {[kind |-> k, at |-> FarNow - a, clock |-> IF k = "ready" THEN FarNow ELSE 0] :
     a \in {b \in Ages : b <= now /\ b <= FarNow}}

Bare(k) == [kind |-> k, at |-> 0, clock |-> 0]

\* Mutant: this clock as it was when the question was asked.
EarlyOffset(sent, got, remote) == sent - remote

\* clock_offset: this clock half way between question and answer, against the other's.
ClockOffset(sent, got, remote) == ((sent + got) \div 2) - remote

\* server_handshake: the greeting is not acceptable, or its session cannot be had.
Refuse ==
  /\ far = "accept" /\ pc = "await"
  /\ Send(Bare("refused"))
  /\ far' = "drain"
  /\ UNCHANGED <<pc, preface, greeting, clocks, mirror>>

\* Ready goes out; the offset at this end is taken between two readings of one clock, with
\* no answer in between.
Accept ==
  /\ far = "accept" /\ pc = "await"
  /\ Acceptable(greeting)
  /\ \E m \in Record("ready") : Send(m)
  /\ offset' = [offset EXCEPT !["far"] = ClockOffset(FarNow, FarNow, sentAt)]
  /\ far' = "up"
  /\ UNCHANGED <<pc, preface, greeting, now, skew, sentAt, mirror>>

-----------------------------------------------------------------------------
(***************************************************************************)
(* The far relay and the wire.                                             *)
(***************************************************************************)

\* Its session's record has changed, and goes across as it is.
SendUpdate ==
  /\ far = "up" /\ Len(said) < MaxSaid
  /\ \E m \in Record("update") : Send(m)
  /\ UNCHANGED <<pc, preface, greeting, clocks, far, mirror>>

\* It ends in order, and says so.
SendBye ==
  /\ far = "up" /\ Len(said) < MaxSaid
  /\ Send(Bare("bye"))
  /\ far' = "gone"
  /\ UNCHANGED <<pc, preface, greeting, clocks, mirror>>

\* It ends otherwise, its process or the transport: what has not arrived may be cut short.
FarDies ==
  /\ far # "gone"
  /\ far' = "gone"
  /\ \E k \in 0..Len(wire) : wire' = SubSeq(wire, 1, k)
  /\ UNCHANGED <<pc, preface, greeting, clocks, said, buf, part, mirror>>

Arrive ==
  /\ wire # <<>>
  /\ \E k \in 1..Len(wire) :
       /\ buf' = buf \o SubSeq(wire, 1, k)
       /\ wire' = SubSeq(wire, k + 1, Len(wire))
  /\ UNCHANGED <<pc, preface, greeting, clocks, farend, part, mirror>>

Tick ==
  /\ now < MaxNow
  /\ now' = now + 1
  /\ UNCHANGED <<pc, preface, greeting, skew, sentAt, offset, farend, stream, mirror>>

-----------------------------------------------------------------------------
(***************************************************************************)
(* The near relay reads.                                                   *)
(***************************************************************************)

\* The stream has ended and all of it has been read.
Drained == far = "gone" /\ wire = <<>> /\ buf = <<>>

HasLine(s) == \E i \in 1..Len(s) : s[i].last

\* Where the first line of s ends.
LineEnd(s) == CHOOSE i \in 1..Len(s) : s[i].last /\ \A j \in 1..i-1 : ~s[j].last

\* The bytes of a line are a message exactly when they are all of one.
Parses(s) == s = Line(s[1].n)

\* Mutant: a shift below zero is not caught.
TranslateUnclamped(at, off) == IF at + off < now THEN at + off ELSE now

\* Mutant: the present is not a bound.
TranslateUncapped(at, off) == IF at + off < 0 THEN 0 ELSE at + off

\* translate_timestamp: onto this clock, never before the epoch and never in the future.
Translate(at, off) ==
  LET shifted == IF at + off < 0 THEN 0 ELSE at + off
  IN IF shifted < now THEN shifted ELSE now

Shows(n, off) == [n |-> n, at |-> Translate(said[n].at, off)]

\* recv: takes what has arrived, whatever it is; once it has a line, what is in the
\* BufReader behind it is gone.
Recv ==
  /\ pc = "await" /\ buf # <<>>
  /\ \E k \in 1..Len(buf) :
       LET got == part \o SubSeq(buf, 1, k) IN
       /\ buf' = SubSeq(buf, k + 1, Len(buf))
       /\ \/ /\ ~HasLine(got)
             /\ part' = got
             /\ UNCHANGED <<pc, offset, mirror>>
          \/ /\ HasLine(got) /\ said[1].kind = "ready"
             /\ part' = <<>>
             /\ offset' = [offset EXCEPT !["near"] = ClockOffset(sentAt, now, said[1].clock)]
             /\ mirror' = Shows(1, offset'["near"])
             /\ pc' = "loop"
          \/ /\ HasLine(got) /\ said[1].kind = "refused"
             /\ part' = <<>>
             /\ pc' = "refused"
             /\ UNCHANGED <<offset, mirror>>
  /\ UNCHANGED <<preface, greeting, now, skew, sentAt, farend, wire>>

\* The link closed before the answer was whole.
RecvEnd ==
  /\ pc = "await" /\ Drained
  /\ pc' = "cut"
  /\ UNCHANGED <<preface, greeting, clocks, farend, stream, mirror>>

\* Mutant: a line that is no message is skipped.
TakeLenient(line) ==
  \/ /\ Parses(line) /\ said[line[1].n].kind = "update"
     /\ mirror' = Shows(line[1].n, offset["near"])
     /\ UNCHANGED pc
  \/ /\ Parses(line) /\ said[line[1].n].kind = "bye"
     /\ pc' = "bye"
     /\ UNCHANGED mirror
  \/ /\ ~Parses(line)
     /\ UNCHANGED <<pc, mirror>>

\* A line is whole: an update is applied, a goodbye ends the loop, and one that is no
\* message is an error that leaves run.
Take(line) ==
  \/ /\ Parses(line) /\ said[line[1].n].kind = "update"
     /\ mirror' = Shows(line[1].n, offset["near"])
     /\ UNCHANGED pc
  \/ /\ Parses(line) /\ said[line[1].n].kind = "bye"
     /\ pc' = "bye"
     /\ UNCHANGED mirror
  \/ /\ ~Parses(line)
     /\ pc' = "failed"
     /\ UNCHANGED mirror

\* Mutant: a task of its own reads, and goes on after a line that ended run.
ReadLineDetached ==
  /\ pc \in {"loop", "failed"} /\ buf # <<>> /\ HasLine(buf)
  /\ part' = <<>>
  /\ buf' = SubSeq(buf, LineEnd(buf) + 1, Len(buf))
  /\ Take(part \o SubSeq(buf, 1, LineEnd(buf)))
  /\ UNCHANGED <<preface, greeting, clocks, farend, wire>>

\* read_line in the select: reads on until there is a line or nothing more has arrived.
ReadLine ==
  /\ pc = "loop" /\ buf # <<>>
  /\ \/ /\ ~HasLine(buf)
        /\ part' = part \o buf
        /\ buf' = <<>>
        /\ UNCHANGED <<pc, mirror>>
     \/ /\ HasLine(buf)
        /\ part' = <<>>
        /\ buf' = SubSeq(buf, LineEnd(buf) + 1, Len(buf))
        /\ Take(part \o SubSeq(buf, 1, LineEnd(buf)))
  /\ UNCHANGED <<preface, greeting, clocks, farend, wire>>

\* Another arm of the select is taken, and the read in progress is dropped with its part.
Preempt ==
  /\ pc = "loop" /\ part # <<>>
  /\ part' = <<>>
  /\ UNCHANGED <<pc, preface, greeting, clocks, farend, wire, buf, mirror>>

\* Mutant: only an end between two lines counts.
ReadEndClean ==
  /\ pc = "loop" /\ Drained /\ part = <<>>
  /\ pc' = "eof"
  /\ UNCHANGED <<preface, greeting, clocks, farend, stream, mirror>>

\* The end of the stream: nothing read is the normal end of a link, a part of a line is
\* handed over as if it were one.
ReadEnd ==
  /\ pc = "loop" /\ Drained
  /\ pc' = IF part = <<>> THEN "eof" ELSE "failed"
  /\ UNCHANGED <<preface, greeting, clocks, farend, stream, mirror>>

-----------------------------------------------------------------------------
Near == ReadByte \/ Greet \/ Recv \/ RecvEnd \/ ReadLine \/ ReadEnd
Far == Refuse \/ Accept \/ SendUpdate \/ SendBye \/ FarDies

Next == Near \/ Preempt \/ Far \/ Arrive \/ Tick

Spec == Init /\ [][Next]_vars

\* The near relay goes on while it can, and what was written arrives.  Nothing makes the far
\* end answer, say anything, or end.
FairSpec == Spec /\ WF_vars(Near) /\ WF_vars(Arrive)

-----------------------------------------------------------------------------
(***************************************************************************)
(* Properties.                                                             *)
(***************************************************************************)

Abs(x) == IF x < 0 THEN -x ELSE x

\* The bytes read and not read together: what came out of the far end.
Came == seen \o io
At(k) == SubSeq(Came, k + 1, k + Len(Preamble)) = Preamble
Noise == {k \in 0..Slack : k + Len(Preamble) <= Len(Came) /\ At(k)}

\* expect_preamble accepts exactly a far end that says the preamble first, counts rightly
\* what was written ahead of its first occurrence, and never takes the one case for
\* another, however the noise overlaps the preamble (the sliding ends_with).
PreambleJudged ==
  /\ pc \notin {"preamble", "noisy", "stranger", "closed"} => 0 \in Noise
  /\ pc = "noisy" =>
       LET extra == Len(seen) - Len(Preamble)
       IN extra > 0 /\ extra \in Noise /\ \A k \in Noise : k >= extra
  /\ pc = "stranger" => Noise = {} /\ Len(seen) = Len(Preamble) + Slack
  /\ pc = "closed" => Noise = {} /\ io = <<>>

\* Each end's offset is the true difference of the clocks, give or take the time the
\* handshake took: half of the round trip at the near end, all of the way to it at the far
\* end, which always errs on the side of later (clock_offset in both handshakes).
OffsetsWithinLatency ==
  /\ mirror.n # 0 => 2 * Abs(offset["near"] + skew) <= now - sentAt + 1
  /\ far = "up" => offset["far"] - skew \in 0..(now - sentAt)

\* A mirror's timestamp is never in the future, and off the moment the record was written
\* by no more than the handshake took, though the peer's clock may run ahead or behind
\* (translate_timestamp under the offset of the handshake).
StampsHonest ==
  mirror.n # 0 =>
    /\ mirror.at <= now
    /\ 2 * Abs(mirror.at - (said[mirror.n].at - skew)) <= now - sentAt + 1

\* A relay that hears goodbye shows the last update the far end sent, however arrivals, other
\* arms and reads interleaved - or else it has seen no update at all, those that there were
\* having come with Ready and gone with recv's buffer.
ByeMeansAll ==
  pc = "bye" => mirror.n \in {1, Len(said) - 1}

\* Only whole records the far end sent are shown, each later than the one before, starting
\* with the one in Ready, and none after the loop (recv, read_line and mirror_update).
Promise == INSTANCE Feed WITH
  said <- [n \in 1..Len(said) |-> said[n].kind],
  shown <- mirror.n,
  over <- pc \in Ended
ImplementsFeed == Promise!FeedSpec

\* Once the far end is gone, in whatever state it left the pipe, the near relay ends.
EndIsHeard == far = "gone" ~> pc \in Ended

=============================================================================
