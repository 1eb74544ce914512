----------------------------- MODULE MCRegistry -----------------------------
(***************************************************************************)
(* The instance of Registry for TLC.                                       *)
(***************************************************************************)
EXTENDS Registry, TLC

CONSTANTS p1, p2

\* Everything ssh takes: an address with and without each part, and IPv6 addresses, bare or in
\* the brackets a port needs.
Destinations ==
  LET Users == {<<>>, <<"u">>, <<"u", "@", "corp">>}
      Ports == {<<>>, <<"22">>}
      V6 == {<<"2001", ":", "db8", ":", ":", "1">>, <<":", ":", "1">>,
             <<"fe80", ":", ":", "1", "%", "eth0">>}
  IN [scheme : BOOLEAN, user : Users, host : {<<"h">>, <<>>}, bracket : {FALSE},
      port : Ports, slash : BOOLEAN]
     \cup [scheme : BOOLEAN, user : Users, host : V6, bracket : {TRUE},
           port : Ports, slash : BOOLEAN]
     \cup [scheme : {FALSE}, user : Users, host : V6, bracket : {FALSE},
           port : {<<>>}, slash : {FALSE}]

\* One session over two links, which were given different destinations and export different
\* sessions here.
First == [label |-> "h", host |-> "h", name |-> "a", exports |-> "a"]
Second == [label |-> "h", host |-> "u@h", name |-> "a", exports |-> "b"]

Ask(v, h, s, x) == [verb |-> v, host |-> h, session |-> s, exports |-> x]
Settings ==
  {[build |-> "none", names |-> {"a", "b"}, links |-> {First},
    cmd |-> Ask("connect", Unset, <<"a">>, Unset)],
   [build |-> "here", names |-> {"a"}, links |-> {First, Second},
    cmd |-> Ask("down", "u@h", <<"h", "a">>, "b")]}

Pids == Permutations(Pid)
=============================================================================
