-------------------------------- MODULE Feed --------------------------------
(***************************************************************************)
(* What the control stream promises a relay about the session it mirrors.  *)
(*                                                                         *)
(* The far end says one thing after the other; some of it may be lost on   *)
(* the way.  What the relay shows is always one of the records that were   *)
(* said, whole, each time a later one, beginning with the one the link was *)
(* agreed on; a relay that has stopped listening shows nothing new.        *)
(***************************************************************************)
EXTENDS Naturals, Sequences

VARIABLES said,         \* kinds of the messages the far end sent, in order
          shown,        \* number of the message whose record is shown, 0 for none
          over          \* the relay listens no more

feedvars == <<said, shown, over>>

FeedInit == said = <<>> /\ shown = 0 /\ over = FALSE

Say ==
  /\ Len(said') = Len(said) + 1
  /\ SubSeq(said', 1, Len(said)) = said
  /\ UNCHANGED <<shown, over>>

Show ==
  /\ ~over
  /\ \E n \in shown + 1 .. Len(said) :
       /\ said[n] = IF shown = 0 THEN "ready" ELSE "update"
       /\ shown' = n
  /\ UNCHANGED <<said, over>>

Stop == over' = TRUE /\ UNCHANGED <<said, shown>>

FeedNext == Say \/ Show \/ Stop

FeedSpec == FeedInit /\ [][FeedNext]_feedvars

=============================================================================
