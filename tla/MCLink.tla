------------------------------- MODULE MCLink -------------------------------
(***************************************************************************)
(* Instances of Link for TLC: the environments its runs take.              *)
(***************************************************************************)
EXTENDS Link

\* Everything that can happen to a link.
Harsh == EnvKind

\* A link whose sessions live, change and end, with the hourly timer.
Timed == {"beat", "turnover"}

\* Local processes talk through the mirror while the sessions come and go.
Talking == {"conn", "turnover"}

\* Nothing at all, but that the sessions write their records.
Quiet == {}
=============================================================================
