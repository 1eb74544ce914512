------------------------------- MODULE Names --------------------------------
(***************************************************************************)
(* The name of a mirrored session: the part of an ssh destination that is  *)
(* fit to appear in one.  A destination is a sequence of tokens: words,    *)
(* and the characters that mean something to ssh or to an address.         *)
(***************************************************************************)
LOCAL INSTANCE Naturals
LOCAL INSTANCE Sequences

Special == {"@", ":", "/", "[", "]", "%"}

Places(s, c) == {i \in 1..Len(s) : s[i] = c}

\* rsplit(c).next(): what follows the last c, all of s when there is none.
AfterLast(s, c) ==
  LET from == CHOOSE i \in 0..Len(s) : /\ i = 0 \/ s[i] = c
                                       /\ \A j \in Places(s, c) : j <= i
  IN SubSeq(s, from + 1, Len(s))

\* split(c).next(): what precedes the first c, all of s when there is none.
UpTo(s, c) ==
  LET to == CHOOSE i \in 1..Len(s) + 1 : /\ i = Len(s) + 1 \/ s[i] = c
                                         /\ \A j \in Places(s, c) : i <= j
  IN SubSeq(s, 1, to - 1)

\* trim_end_matches(c)
TrimEnd(s, c) ==
  LET last == CHOOSE i \in 0..Len(s) : /\ i = 0 \/ s[i] # c
                                       /\ \A j \in i + 1 .. Len(s) : s[j] = c
  IN SubSeq(s, 1, last)

Sanitized(s) == [i \in 1..Len(s) |-> IF s[i] \in Special THEN "-" ELSE s[i]]

\* Where the address is in what follows the user: in brackets, all of it when it is made of
\* colons, and otherwise up to the port.
\* Mutant: brackets are not looked for.
AddressUnbracketed(s) ==
  IF \E i, j \in Places(s, ":") : i # j THEN s ELSE UpTo(s, ":")
Address(s) ==
  CASE s # <<>> /\ s[1] = "[" -> UpTo(Tail(s), "]")
    [] \E i, j \in Places(s, ":") : i # j /\ (s = <<>> \/ s[1] # "[") -> s
    [] OTHER -> UpTo(s, ":")

\* host_label
HostLabel(s) ==
  LET label == Sanitized(Address(TrimEnd(AfterLast(s, "@"), "/")))
  IN IF label = <<>> THEN <<"peer">> ELSE label

-----------------------------------------------------------------------------
(***************************************************************************)
(* What a destination is made of, and how it is written.                   *)
(***************************************************************************)

Written(d) ==
  (IF d.scheme THEN <<"ssh", ":", "/", "/">> ELSE <<>>)
  \o (IF d.user = <<>> THEN <<>> ELSE d.user \o <<"@">>)
  \o (IF d.bracket THEN <<"[">> \o d.host \o <<"]">> ELSE d.host)
  \o (IF d.port = <<>> THEN <<>> ELSE <<":">> \o d.port)
  \o (IF d.slash THEN <<"/">> ELSE <<>>)

Lacks(s, cs) == \A i \in 1..Len(s) : s[i] \notin cs

\* A destination ssh can make sense of: a name, or an IPv6 address, in brackets unless it is
\* all there is behind the user.  In a user anything goes.
IsDestination(d) ==
  /\ d.user \in Seq(STRING) /\ d.host \in Seq(STRING) /\ d.port \in Seq(STRING)
  /\ {d.scheme, d.bracket, d.slash} \subseteq BOOLEAN
  /\ Lacks(d.port, Special)
  /\ \/ Lacks(d.host, Special \ {"%"})
     \/ /\ Lacks(d.host, {"@", "/", "[", "]"})
        /\ d.bracket \/ (d.port = <<>> /\ \E i, j \in Places(d.host, ":") : i # j)

=============================================================================
