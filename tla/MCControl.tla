----------------------------- MODULE MCControl ------------------------------
(***************************************************************************)
(* The instance of Control for TLC.                                        *)
(***************************************************************************)
EXTENDS Control

\* A preamble that begins with a letter twice, as cc-link's does.
Magic == <<"c", "c", "/">>

\* What a login shell may write, some of it looking like the preamble.
Chatter == UNION {[1..k -> {"c", "x"}] : k \in 0..3}

\* The preamble after some chatter, a preamble cut short, and two preambles.
Openings ==
  {c \o Magic : c \in Chatter} \cup {c \o <<"c", "c">> : c \in Chatter}
  \cup {<<"x">> \o Magic \o Magic, <<>>}

Local == [protocol |-> 1, platform |-> "linux", domain |-> "there", home |-> "x"]

\* A client like the far end, and what may differ in it.
Clients ==
  {Local,
   [Local EXCEPT !.domain = "here"],
   [Local EXCEPT !.domain = "here", !.platform = "macos"],
   [Local EXCEPT !.domain = "here", !.protocol = 2]}

Skews == {-1, 2}
=============================================================================
