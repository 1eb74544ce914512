------------------------------- MODULE Grant -------------------------------
(***************************************************************************)
(* What one link promises the two machines it joins.                       *)
(*                                                                         *)
(* A link is a two-way grant: each machine shows a mirror of a session     *)
(* that runs on the other.  A mirror may be shown only once the far end    *)
(* has agreed, only while the relay that fronts it is not over, and once   *)
(* withdrawn it never comes back.                                          *)
(***************************************************************************)

CONSTANT End            \* the two machines

VARIABLES agreed,       \* the far end confirmed the session it exports
          shown,        \* machines on which the mirror is advertised
          over          \* machines whose relay will not act on the link again

gvars == <<agreed, shown, over>>

GTypeOK ==
  /\ agreed \in BOOLEAN
  /\ shown \in SUBSET End
  /\ over \in SUBSET End

GInit ==
  /\ agreed = FALSE
  /\ shown = {}
  /\ over = {}

\* The far end resolves the session it was asked for and says so.
Agree ==
  /\ over # End
  /\ agreed' = TRUE
  /\ UNCHANGED <<shown, over>>

\* A relay that may still act advertises its mirror.
Show(e) ==
  /\ agreed
  /\ e \notin over
  /\ shown' = shown \cup {e}
  /\ UNCHANGED <<agreed, over>>

\* The relay on e stops acting on the link.
Finish(e) ==
  /\ over' = over \cup {e}
  /\ UNCHANGED <<agreed, shown>>

\* The mirror on e is withdrawn, by its relay or by the harness's sweeper.
Hide(e) ==
  /\ e \in over
  /\ shown' = shown \ {e}
  /\ UNCHANGED <<agreed, over>>

GNext ==
  \/ Agree
  \/ \E e \in End : Show(e) \/ Finish(e) \/ Hide(e)

GSpec == GInit /\ [][GNext]_gvars

=============================================================================
