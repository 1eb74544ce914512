---------------------------- MODULE Conversation ----------------------------
(***************************************************************************)
(* What a relayed connection promises in one direction: of the lines the   *)
(* writer wrote, the reader gets those that are messages, in order, each   *)
(* once, none left out before one it gets, and each with the relay's own   *)
(* socket for a reply address.  How many it gets is not promised: either   *)
(* process, or the link, may go away.                                      *)
(***************************************************************************)
EXTENDS Naturals, Sequences

CONSTANT Written,       \* the lines a writer may write
         IsMessage(_),  \* those that are for the reader
         Readdressed(_) \* a message as the reader must see it

VARIABLES sent,         \* lines written
          got,          \* what the reader got
          heard         \* number of the last line it got, 0 for none

cvars == <<sent, got, heard>>

CInit == sent = <<>> /\ got = <<>> /\ heard = 0

Send ==
  /\ \E l \in Written : sent' = Append(sent, l)
  /\ UNCHANGED <<got, heard>>

Receive ==
  /\ \E n \in heard + 1 .. Len(sent) :
       /\ IsMessage(sent[n])
       /\ \A k \in heard + 1 .. n - 1 : ~IsMessage(sent[k])
       /\ got' = Append(got, Readdressed(sent[n]))
       /\ heard' = n
  /\ UNCHANGED sent

CSpec == CInit /\ [][Send \/ Receive]_cvars
=============================================================================
