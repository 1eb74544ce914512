------------------------------- MODULE Courier -------------------------------
(***************************************************************************)
(* One relayed connection.  A local process connects to the mirror; pump   *)
(* carries the connection into a stream of the link, deliver takes it out  *)
(* on the other machine and dials the exported session.                    *)
(*                                                                         *)
(* Each direction has a copier, which moves bytes from a connection into   *)
(* the stream as they are, and a liner, which takes lines out of the       *)
(* stream, replaces the reply address of each and writes it to the other   *)
(* connection.  "there" is from the local process to the session, "back"   *)
(* the replies.  pump is the liner of "back" and spawns the copier of      *)
(* "there"; deliver is the copier of "back" and spawns the liner of        *)
(* "there", once it has read a first line and dialled.                     *)
(*                                                                         *)
(* A line is its number and what is in its reply address: the sender's     *)
(* socket, no socket address, a mirror's socket, nothing at all (a blank   *)
(* line), or no message that can be passed on (not a JSON object, or over  *)
(* the limit once rewritten).                                              *)
(***************************************************************************)
EXTENDS Naturals, Sequences

CONSTANTS MaxLines,     \* lines a process writes on one connection
          Content,      \* what its lines may hold
          Env           \* what the environment does in this instance

ContentKind == {"sender", "none", "blank", "bad"}
EnvKind == {"cut", "quit", "refuse"}

ASSUME BoundsAssumption == MaxLines \in Nat
ASSUME ContentAssumption == Content \subseteq ContentKind
ASSUME EnvAssumption == Env \subseteq EnvKind

Way == {"there", "back"}
Opposite(d) == IF d = "there" THEN "back" ELSE "there"

VARIABLES
  sent,         \* lines the writer has written
  ended,        \* the writer has closed its side
  quit,         \* the reader no longer takes anything
  copier,       \* off, copying, done or failed
  copied,       \* lines moved into the stream and not lost in it
  streamEnd,    \* the stream has been closed behind them
  liner,        \* off, waiting for a first line, dialling, in lines, done or failed
  read,         \* lines taken out of the stream
  got,          \* lines written to the reader
  gotEnd,       \* the reader's connection has been closed
  torn,         \* the whole stream was dropped by deliver
  cut           \* the link is gone

procs == <<sent, ended, quit>>
copies == <<copier, copied, streamEnd>>
lines == <<liner, read, got, gotEnd>>
vars == <<procs, copies, lines, torn, cut>>

Line == [n : 1..MaxLines, from : ContentKind \cup {"mirror"}]

TypeOK ==
  /\ sent \in [Way -> Seq(Line)]
  /\ ended \in [Way -> BOOLEAN]
  /\ quit \in [Way -> BOOLEAN]
  /\ copier \in [Way -> {"off", "copy", "done", "failed"}]
  /\ copied \in [Way -> 0..MaxLines]
  /\ streamEnd \in [Way -> BOOLEAN]
  /\ liner \in [Way -> {"first", "dial", "lines", "done", "failed"}]
  /\ read \in [Way -> 0..MaxLines]
  /\ got \in [Way -> Seq(Line)]
  /\ gotEnd \in [Way -> BOOLEAN]
  /\ torn \in BOOLEAN
  /\ cut \in BOOLEAN
  /\ \A d \in Way : read[d] <= copied[d] /\ copied[d] <= Len(sent[d]) /\ Len(sent[d]) <= MaxLines

Init ==
  /\ sent = [d \in Way |-> <<>>]
  /\ ended = [d \in Way |-> FALSE]
  /\ quit = [d \in Way |-> FALSE]
  /\ copier = [d \in Way |-> IF d = "there" THEN "copy" ELSE "off"]
  /\ copied = [d \in Way |-> 0]
  /\ streamEnd = [d \in Way |-> FALSE]
  /\ liner = [d \in Way |-> IF d = "there" THEN "first" ELSE "lines"]
  /\ read = [d \in Way |-> 0]
  /\ got = [d \in Way |-> <<>>]
  /\ gotEnd = [d \in Way |-> FALSE]
  /\ torn = FALSE
  /\ cut = FALSE

-----------------------------------------------------------------------------
\* rewrite_reply_address: an address that is a socket is replaced, the rest is left.
Readdressed(l) == IF l.from = "sender" THEN [l EXCEPT !.from = "mirror"] ELSE l

Dialled == liner["there"] \notin {"first", "dial"} /\ ~torn

-----------------------------------------------------------------------------
(***************************************************************************)
(* The two processes.  The session writes once it has been dialled.        *)
(***************************************************************************)

Write(d) ==
  /\ ~ended[d] /\ Len(sent[d]) < MaxLines
  /\ d = "back" => Dialled
  /\ \E f \in Content :
       sent' = [sent EXCEPT ![d] = Append(@, [n |-> Len(@) + 1, from |-> f])]
  /\ UNCHANGED <<ended, quit, copies, lines, torn, cut>>

\* A session closes its side when it has seen the end, or when it pleases.
CloseSide(d) ==
  /\ ~ended[d]
  /\ d = "back" => Dialled
  /\ ended' = [ended EXCEPT ![d] = TRUE]
  /\ UNCHANGED <<sent, quit, copies, lines, torn, cut>>

\* A process goes away: it writes no more and takes no more.
Quit(d) ==
  /\ "quit" \in Env
  /\ ~quit[d]
  /\ d = "there" => Dialled
  /\ quit' = [quit EXCEPT ![d] = TRUE]
  /\ ended' = [ended EXCEPT ![Opposite(d)] = TRUE]
  /\ UNCHANGED <<sent, copies, lines, torn, cut>>

\* The link goes, with what has not arrived; to a reader that looks like an end.
Cut ==
  /\ "cut" \in Env
  /\ ~cut
  /\ cut' = TRUE
  /\ \E n \in [Way -> 0..MaxLines] :
       /\ \A d \in Way : n[d] \in read[d]..copied[d]
       /\ copied' = n
  /\ UNCHANGED <<procs, copier, streamEnd, lines, torn>>

-----------------------------------------------------------------------------
(***************************************************************************)
(* The copiers: tokio::io::copy, then shutdown.                            *)
(***************************************************************************)

Broken(d) == cut \/ (torn /\ d = "there")

Copy(d) ==
  /\ copier[d] = "copy" /\ ~Broken(d)
  /\ copied[d] < Len(sent[d])
  /\ copied' = [copied EXCEPT ![d] = @ + 1]
  /\ UNCHANGED <<procs, copier, streamEnd, lines, torn, cut>>

\* Mutant: the end overtakes what is still to be copied.
EndCopyEarly(d) ==
  /\ copier[d] = "copy" /\ ~Broken(d)
  /\ ended[d]
  /\ copier' = [copier EXCEPT ![d] = "done"]
  /\ streamEnd' = [streamEnd EXCEPT ![d] = TRUE]
  /\ UNCHANGED <<procs, copied, lines, torn, cut>>

\* Mutant: the stream is left open.
EndCopyOpen(d) ==
  /\ copier[d] = "copy" /\ ~Broken(d)
  /\ ended[d] /\ copied[d] = Len(sent[d])
  /\ copier' = [copier EXCEPT ![d] = "done"]
  /\ UNCHANGED <<procs, copied, streamEnd, lines, torn, cut>>

EndCopy(d) ==
  /\ copier[d] = "copy" /\ ~Broken(d)
  /\ ended[d] /\ copied[d] = Len(sent[d])
  /\ copier' = [copier EXCEPT ![d] = "done"]
  /\ streamEnd' = [streamEnd EXCEPT ![d] = TRUE]
  /\ UNCHANGED <<procs, copied, lines, torn, cut>>

\* There is something to write, or an end to pass on, and no stream to write it to.
CopyFails(d) ==
  /\ copier[d] = "copy" /\ Broken(d)
  /\ copied[d] < Len(sent[d]) \/ ended[d]
  /\ copier' = [copier EXCEPT ![d] = "failed"]
  /\ UNCHANGED <<procs, copied, streamEnd, lines, torn, cut>>

-----------------------------------------------------------------------------
(***************************************************************************)
(* deliver, up to its first message.                                       *)
(***************************************************************************)

Waiting(d) == read[d] < copied[d]
NextLine(d) == sent[d][read[d] + 1]

\* deliver returns, and the stream it owns is dropped whole.
GiveUp(how) ==
  /\ liner' = [liner EXCEPT !["there"] = how]
  /\ torn' = TRUE
  /\ streamEnd' = [streamEnd EXCEPT !["back"] = TRUE]
  /\ UNCHANGED <<procs, copier, copied, got, gotEnd, cut>>

\* The first line must be a message: a blank one is not, and ends the connection.
First ==
  /\ liner["there"] = "first" /\ Waiting("there")
  /\ read' = [read EXCEPT !["there"] = @ + 1]
  /\ \/ /\ NextLine("there").from \notin {"blank", "bad"}
        /\ liner' = [liner EXCEPT !["there"] = "dial"]
        /\ UNCHANGED <<procs, copies, got, gotEnd, torn, cut>>
     \/ /\ NextLine("there").from \in {"blank", "bad"}
        /\ GiveUp("failed")

\* The link went in the middle of a line, and a piece of it has come, which does not parse.
Piece(d) == cut /\ copied[d] < Len(sent[d])

\* The stream ends without a message: nothing is dialled.
NoMessage ==
  /\ liner["there"] = "first" /\ ~Waiting("there")
  /\ streamEnd["there"] \/ cut
  /\ GiveUp("done") \/ (Piece("there") /\ GiveUp("failed"))
  /\ UNCHANGED read

\* Mutant: the first message goes through as it came.
DialRaw ==
  /\ liner["there"] = "dial"
  /\ got' = [got EXCEPT !["there"] = Append(@, sent["there"][read["there"]])]
  /\ liner' = [liner EXCEPT !["there"] = "lines"]
  /\ copier' = [copier EXCEPT !["back"] = "copy"]
  /\ UNCHANGED <<procs, copied, streamEnd, read, gotEnd, torn, cut>>

\* The session is dialled and the first message written.
Dial ==
  /\ liner["there"] = "dial"
  /\ got' = [got EXCEPT !["there"] = Append(@, Readdressed(sent["there"][read["there"]]))]
  /\ liner' = [liner EXCEPT !["there"] = "lines"]
  /\ copier' = [copier EXCEPT !["back"] = "copy"]
  /\ UNCHANGED <<procs, copied, streamEnd, read, gotEnd, torn, cut>>

\* Nobody listens at the session's socket any more.
DialFails ==
  /\ "refuse" \in Env
  /\ liner["there"] = "dial"
  /\ GiveUp("failed")
  /\ UNCHANGED read

-----------------------------------------------------------------------------
(***************************************************************************)
(* The liners: relay_lines.                                                *)
(***************************************************************************)

\* A liner that ends drops its half of the connection, which closes it for the reader.
EndLines(d, how) ==
  /\ liner' = [liner EXCEPT ![d] = how]
  /\ gotEnd' = [gotEnd EXCEPT ![d] = TRUE]
  /\ UNCHANGED <<procs, copies, got, torn, cut>>

\* Mutant: a blank line takes the next one with it.
PassSkips(d) ==
  /\ liner[d] = "lines" /\ Waiting(d)
  /\ NextLine(d).from = "blank"
  /\ read' = [read EXCEPT ![d] = @ + 2]
  /\ UNCHANGED <<procs, copies, liner, got, gotEnd, torn, cut>>

\* A line is read: a blank one is skipped, a message is readdressed and written, and one
\* that cannot be passed on, or a reader that is gone, ends the liner with an error.
Pass(d) ==
  /\ liner[d] = "lines" /\ Waiting(d)
  /\ read' = [read EXCEPT ![d] = @ + 1]
  /\ \/ /\ NextLine(d).from = "blank"
        /\ UNCHANGED <<procs, copies, liner, got, gotEnd, torn, cut>>
     \/ /\ NextLine(d).from \notin {"blank", "bad"} /\ ~quit[d]
        /\ got' = [got EXCEPT ![d] = Append(@, Readdressed(NextLine(d)))]
        /\ UNCHANGED <<procs, copies, liner, gotEnd, torn, cut>>
     \/ /\ NextLine(d).from = "bad" \/ (NextLine(d).from # "blank" /\ quit[d])
        /\ EndLines(d, "failed")

\* The stream has ended: by its copier, by a drop, or with the link.
Ends(d) ==
  /\ liner[d] = "lines" /\ ~Waiting(d)
  /\ streamEnd[d] \/ cut
  /\ EndLines(d, "done") \/ (Piece(d) /\ EndLines(d, "failed"))
  /\ UNCHANGED read

-----------------------------------------------------------------------------
Copier(d) == Copy(d) \/ EndCopy(d) \/ CopyFails(d)
Deliver == First \/ NoMessage \/ Dial
Liner(d) == Pass(d) \/ Ends(d)

Next ==
  \/ \E d \in Way : Write(d) \/ CloseSide(d) \/ Quit(d) \/ Copier(d) \/ Liner(d)
  \/ Deliver \/ DialFails \/ Cut

Spec == Init /\ [][Next]_vars

\* The tasks of the relays go on when they can.  A session that has been told the end
\* closes its own side, and so does a process whose reply side was closed.
Fairness ==
  /\ WF_vars(Deliver)
  /\ \A d \in Way :
       /\ WF_vars(Copier(d)) /\ WF_vars(Liner(d))
       /\ WF_vars(gotEnd[Opposite(d)] /\ CloseSide(d))

FairSpec == Spec /\ Fairness

-----------------------------------------------------------------------------
(***************************************************************************)
(* Properties.                                                             *)
(***************************************************************************)

IsMessage(l) == l.from # "blank"
Written == {l \in Line : l.from # "mirror"}
Heard(d) == IF got[d] = <<>> THEN 0 ELSE got[d][Len(got[d])].n

\* Each direction keeps the promise of a conversation: in order, once each, with none left
\* out, and never with an address of the other machine (rewrite_reply_address on the
\* receiving side).
There == INSTANCE Conversation WITH
  sent <- sent["there"], got <- got["there"], heard <- Heard("there")
Back == INSTANCE Conversation WITH
  sent <- sent["back"], got <- got["back"], heard <- Heard("back")
Conversations == There!CSpec /\ Back!CSpec

\* A reader that is told the end by a liner that is done has had every message: an end
\* never overtakes what was written before it (copy, then shutdown).
EndMeansAll ==
  \A d \in Way :
    gotEnd[d] /\ liner[d] = "done" /\ ~torn /\ ~cut =>
      /\ ended[d]
      /\ \A n \in 1..Len(sent[d]) : IsMessage(sent[d][n]) =>
           \E i \in 1..Len(got[d]) : got[d][i] = Readdressed(sent[d][n])

\* Once either process has closed its side and the other is told, the whole connection
\* winds down: no task of either relay is left behind.
WindsDown ==
  ended["there"] ~>
    \A d \in Way : copier[d] # "copy" /\ liner[d] \in {"done", "failed"}

=============================================================================
