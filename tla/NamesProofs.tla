---------------------------- MODULE NamesProofs -----------------------------
(***************************************************************************)
(* The label of a mirror's name is the host, for destinations of any       *)
(* length.                                                                 *)
(***************************************************************************)
EXTENDS Names, Naturals, Sequences, SequenceTheorems, TLAPS

-----------------------------------------------------------------------------
(***************************************************************************)
(* Cutting a sequence that was put together.                               *)
(***************************************************************************)

\* The places in two sequences, one behind the other.
LEMMA Joined ==
  ASSUME NEW S, NEW s \in Seq(S), NEW t \in Seq(S)
  PROVE  /\ s \o t \in Seq(S) /\ Len(s) \in Nat /\ Len(t) \in Nat /\ Len(s \o t) = Len(s) + Len(t)
         /\ \A i \in 1..Len(s) : (s \o t)[i] = s[i]
         /\ \A i \in Len(s) + 1 .. Len(s) + Len(t) : (s \o t)[i] = t[i - Len(s)]
  OBVIOUS

LEMMA LastJoined ==
  ASSUME NEW S, NEW s \in Seq(S), NEW t \in Seq(S), Len(t) > 0
  PROVE  /\ s \o t \in Seq(S) /\ Len(s) \in Nat /\ Len(t) \in Nat
         /\ Len(s \o t) = Len(s) + Len(t) /\ (s \o t)[Len(s) + Len(t)] = t[Len(t)]
<1>1. Len(s) \in Nat /\ Len(t) \in Nat /\ Len(s) + Len(t) \in Len(s) + 1 .. Len(s) + Len(t)
  OBVIOUS
<1>2. (s \o t)[Len(s) + Len(t)] = t[Len(s) + Len(t) - Len(s)]
  BY <1>1, Joined
<1>3. Len(s) + Len(t) - Len(s) = Len(t)
  BY <1>1
<1> QED
  BY <1>1, <1>2, <1>3, Joined

LEMMA LacksJoined ==
  ASSUME NEW S, NEW s \in Seq(S), NEW t \in Seq(S), NEW C, Lacks(s, C), Lacks(t, C)
  PROVE  s \o t \in Seq(S) /\ Lacks(s \o t, C)
BY Joined DEF Lacks

LEMMA Associates ==
  ASSUME NEW S, NEW r \in Seq(S), NEW s \in Seq(S), NEW t \in Seq(S), NEW u, u = s \o t
  PROVE  (r \o s) \o t = r \o u
<1>1. (r \o s) \o t = r \o (s \o t)
  BY ConcatAssociative
<1> QED
  BY <1>1

LEMMA Regrouped ==
  ASSUME NEW S, NEW p \in Seq(S), NEW r \in Seq(S), NEW s \in Seq(S), NEW t \in Seq(S),
         NEW b, b = r \o s
  PROVE  p \o r \o s \o t = p \o (b \o t)
<1>1. b \in Seq(S)
  OBVIOUS
<1>2. p \o r \o s = p \o b
  BY Associates
<1>3. (p \o b) \o t = p \o (b \o t)
  BY <1>1, Associates
<1> QED
  BY <1>2, <1>3

LEMMA Nested ==
  ASSUME NEW S, NEW p \in Seq(S), NEW r \in Seq(S), NEW s \in Seq(S), NEW t \in Seq(S),
         NEW u, u = s \o t, NEW v, v = r \o u
  PROVE  p \o r \o s \o t = p \o v
<1> DEFINE b == r \o s
<1>1. p \o r \o s \o t = p \o (b \o t)
  <2>1. b = r \o s
    OBVIOUS
  <2> HIDE DEF b
  <2> QED
    BY <2>1, Regrouped, SMTT(60)
<1>2. b \o t = v
  BY Associates
<1> QED
  BY <1>1, <1>2

LEMMA Front ==
  ASSUME NEW S, NEW s \in Seq(S), NEW t \in Seq(S)
  PROVE  SubSeq(s \o t, 1, Len(s)) = s
  OBVIOUS

LEMMA Rest ==
  ASSUME NEW S, NEW s \in Seq(S), NEW t \in Seq(S)
  PROVE  SubSeq(s \o t, Len(s) + 1, Len(s \o t)) = t
  OBVIOUS

\* rsplit: behind the last c.
LEMMA AfterLastJoined ==
  ASSUME NEW S, NEW s \in Seq(S), NEW t \in Seq(S), NEW c,
         s = <<>> \/ s[Len(s)] = c, Lacks(t, {c})
  PROVE  AfterLast(s \o t, c) = t
<1> DEFINE w == s \o t
           P(i) == (i = 0 \/ w[i] = c) /\ \A j \in Places(w, c) : j <= i
<1>1. /\ w \in Seq(S) /\ Len(s) \in Nat /\ Len(t) \in Nat /\ Len(w) = Len(s) + Len(t)
      /\ \A i \in 1..Len(s) : w[i] = s[i]
      /\ \A i \in Len(s) + 1 .. Len(s) + Len(t) : w[i] = t[i - Len(s)]
  BY Joined
<1>2. \A i \in Len(s) + 1 .. Len(w) : w[i] # c
  BY <1>1 DEF Lacks
<1>3. SubSeq(w, Len(s) + 1, Len(w)) = t
  BY Rest
<1> HIDE DEF w
<1>4. P(Len(s))
  BY <1>1, <1>2 DEF Places
<1>5. \A i \in 0..Len(w) : P(i) => i = Len(s)
  BY <1>1, <1>2, <1>4 DEF Places
<1> DEFINE from == CHOOSE i \in 0..Len(w) : P(i)
<1>6. from = Len(s)
  <2>1. Len(s) \in 0..Len(w)
    BY <1>1
  <2> HIDE DEF P
  <2> QED
    BY <1>4, <1>5, <2>1
<1>7. AfterLast(w, c) = SubSeq(w, from + 1, Len(w))
  BY DEF AfterLast
<1> QED
  BY <1>3, <1>6, <1>7 DEF w

\* split: before the first c.
LEMMA UpToJoined ==
  ASSUME NEW S, NEW s \in Seq(S), NEW t \in Seq(S), NEW c,
         t = <<>> \/ t[1] = c, Lacks(s, {c})
  PROVE  UpTo(s \o t, c) = s
<1> DEFINE w == s \o t
           P(i) == (i = Len(w) + 1 \/ w[i] = c) /\ \A j \in Places(w, c) : i <= j
<1>1. /\ w \in Seq(S) /\ Len(s) \in Nat /\ Len(t) \in Nat /\ Len(w) = Len(s) + Len(t)
      /\ \A i \in 1..Len(s) : w[i] = s[i]
      /\ \A i \in Len(s) + 1 .. Len(s) + Len(t) : w[i] = t[i - Len(s)]
  BY Joined
<1>2. \A i \in 1..Len(s) : w[i] # c
  BY <1>1 DEF Lacks
<1>3. SubSeq(w, 1, Len(s)) = s
  BY Front
<1>4. Len(s) + 1 = Len(w) + 1 \/ w[Len(s) + 1] = c
  BY <1>1
<1> HIDE DEF w
<1>5. P(Len(s) + 1)
  BY <1>1, <1>2, <1>4 DEF Places
<1>6. \A i \in 1..Len(w) + 1 : P(i) => i = Len(s) + 1
  BY <1>1, <1>2, <1>4 DEF Places
<1> DEFINE to == CHOOSE i \in 1..Len(w) + 1 : P(i)
<1>7. to = Len(s) + 1
  <2>1. Len(s) + 1 \in 1..Len(w) + 1
    BY <1>1
  <2> HIDE DEF P
  <2> QED
    BY <1>5, <1>6, <2>1
<1>8. UpTo(w, c) = SubSeq(w, 1, to - 1)
  BY DEF UpTo
<1>9. to - 1 = Len(s)
  <2> HIDE DEF to
  <2> QED
    BY <1>1, <1>7
<1> QED
  BY <1>3, <1>8, <1>9 DEF w

\* trim_end_matches: without the c's at the end.
LEMMA TrimEndJoined ==
  ASSUME NEW S, NEW s \in Seq(S), NEW t \in Seq(S), NEW c,
         s = <<>> \/ s[Len(s)] # c, \A i \in 1..Len(t) : t[i] = c
  PROVE  TrimEnd(s \o t, c) = s
<1> DEFINE w == s \o t
           P(i) == (i = 0 \/ w[i] # c) /\ \A j \in i + 1 .. Len(w) : w[j] = c
<1>1. /\ w \in Seq(S) /\ Len(s) \in Nat /\ Len(t) \in Nat /\ Len(w) = Len(s) + Len(t)
      /\ \A i \in 1..Len(s) : w[i] = s[i]
      /\ \A i \in Len(s) + 1 .. Len(s) + Len(t) : w[i] = t[i - Len(s)]
  BY Joined
<1>2. \A i \in Len(s) + 1 .. Len(w) : w[i] = c
  BY <1>1
<1>3. SubSeq(w, 1, Len(s)) = s
  BY Front
<1>4. Len(s) = 0 \/ w[Len(s)] # c
  BY <1>1
<1> HIDE DEF w
<1>5. P(Len(s))
  BY <1>1, <1>2, <1>4
<1>6. \A i \in 0..Len(w) : P(i) => i = Len(s)
  BY <1>1, <1>2, <1>4
<1> DEFINE last == CHOOSE i \in 0..Len(w) : P(i)
<1>7. last = Len(s)
  <2>1. Len(s) \in 0..Len(w)
    BY <1>1
  <2> HIDE DEF P
  <2> QED
    BY <1>5, <1>6, <2>1
<1>8. TrimEnd(w, c) = SubSeq(w, 1, last)
  BY DEF TrimEnd
<1> QED
  BY <1>3, <1>7, <1>8 DEF w

-----------------------------------------------------------------------------
(***************************************************************************)
(* The parts of a destination.                                             *)
(***************************************************************************)

Token == STRING \cup Special \cup {"ssh"}

User(d) == IF d.user = <<>> THEN <<>> ELSE d.user \o <<"@">>
Host(d) == IF d.bracket THEN <<"[">> \o d.host \o <<"]">> ELSE d.host
Port(d) == IF d.port = <<>> THEN <<>> ELSE <<":">> \o d.port
Slash(d) == IF d.slash THEN <<"/">> ELSE <<>>
Scheme(d) == IF d.scheme THEN <<"ssh", ":", "/", "/">> ELSE <<>>

LEMMA WrittenInParts ==
  ASSUME NEW d
  PROVE  Written(d) = Scheme(d) \o User(d) \o Host(d) \o Port(d) \o Slash(d)
BY DEF Written, Scheme, User, Host, Port, Slash

LEMMA TokensOf ==
  ASSUME NEW s \in Seq(STRING)
  PROVE  s \in Seq(Token)
<1>1. STRING \subseteq Token
  BY DEF Token
<1> QED
  BY <1>1, SeqMonotonic

LEMMA OneElement ==
  ASSUME NEW S, NEW c \in S
  PROVE  <<c>> \in Seq(S) /\ Len(<<c>>) = 1 /\ <<c>>[1] = c
  OBVIOUS

LEMMA OneToken ==
  ASSUME NEW c \in Special \cup {"ssh"}
  PROVE  c \in Token /\ <<c>> \in Seq(Token) /\ Len(<<c>>) = 1 /\ <<c>>[1] = c
<1>1. c \in Token
  BY DEF Token
<1> QED
  BY <1>1, OneElement

LEMMA PartTypes ==
  ASSUME NEW d, IsDestination(d)
  PROVE  /\ d.user \in Seq(Token) /\ d.host \in Seq(Token) /\ d.port \in Seq(Token)
         /\ Scheme(d) \in Seq(Token) /\ User(d) \in Seq(Token) /\ Host(d) \in Seq(Token)
         /\ Port(d) \in Seq(Token) /\ Slash(d) \in Seq(Token)
<1>1. d.user \in Seq(Token) /\ d.host \in Seq(Token) /\ d.port \in Seq(Token)
  BY TokensOf DEF IsDestination
<1>2. \A c \in {"@", ":", "/", "[", "]", "ssh"} : c \in Token /\ <<c>> \in Seq(Token)
  BY OneToken DEF Special
<1>3. Scheme(d) \in Seq(Token)
  BY <1>2 DEF Scheme
<1>4. User(d) \in Seq(Token) /\ Port(d) \in Seq(Token) /\ Slash(d) \in Seq(Token)
  BY <1>1, <1>2 DEF User, Port, Slash
<1>5. Host(d) \in Seq(Token)
  BY <1>1, <1>2 DEF Host
<1> QED
  BY <1>1, <1>3, <1>4, <1>5

\* Ahead of the host there is nothing, or something that ends in an at sign.
LEMMA AheadOfHost ==
  ASSUME NEW d, IsDestination(d), d.scheme => d.user # <<>>
  PROVE  LET p == Scheme(d) \o User(d)
         IN p \in Seq(Token) /\ (p = <<>> \/ p[Len(p)] = "@")
<1>1. Scheme(d) \in Seq(Token) /\ User(d) \in Seq(Token) /\ d.user \in Seq(Token)
  BY PartTypes
<1>2. CASE d.user = <<>>
  <2>1. Scheme(d) = <<>> /\ User(d) = <<>>
    BY <1>2 DEF Scheme, User
  <2> QED
    BY <1>1, <2>1
<1>3. CASE d.user # <<>>
  <2> DEFINE at == <<"@">>
             u == d.user \o at
  <2>1. User(d) = u
    BY <1>3 DEF User
  <2>2. at \in Seq(Token) /\ Len(at) = 1 /\ at[1] = "@"
    BY OneToken DEF Special
  <2> HIDE DEF at
  <2>3. Len(u) = Len(d.user) + 1 /\ u[Len(u)] = "@" /\ u \in Seq(Token) /\ Len(d.user) \in Nat
    <3>1. Len(at) > 0
      BY <2>2
    <3>2. /\ u \in Seq(Token) /\ Len(d.user) \in Nat /\ Len(u) = Len(d.user) + Len(at)
          /\ u[Len(d.user) + Len(at)] = at[Len(at)]
      BY <1>1, <2>2, <3>1, LastJoined
    <3> HIDE DEF u
    <3> QED
      BY <2>2, <3>2
  <2> HIDE DEF u
  <2> DEFINE s == Scheme(d)
             p == s \o u
  <2>4. s \in Seq(Token) /\ Len(s) \in Nat
    BY <1>1
  <2> HIDE DEF s
  <2>5. p \in Seq(Token) /\ Len(p) = Len(s) + Len(u) /\ p[Len(s) + Len(u)] = u[Len(u)]
    <3>1. Len(u) > 0
      BY <2>3
    <3> QED
      BY <2>3, <2>4, <3>1, LastJoined
  <2> QED
    BY <2>1, <2>3, <2>5 DEF s
<1> QED
  BY <1>2, <1>3

\* The host and the port hold no at sign, and do not end in a slash.
LEMMA HostAndPort ==
  ASSUME NEW d, IsDestination(d)
  PROVE  LET b == Host(d) \o Port(d)
         IN  /\ b \in Seq(Token) /\ Lacks(b, {"@"})
             /\ b = <<>> \/ b[Len(b)] # "/"
<1> DEFINE b == Host(d) \o Port(d)
<1>1. Host(d) \in Seq(Token) /\ Port(d) \in Seq(Token)
      /\ d.host \in Seq(Token) /\ d.port \in Seq(Token)
  BY PartTypes
<1>2. Lacks(d.host, {"@", "/"}) /\ Lacks(d.port, {"@", "/"})
  BY DEF IsDestination, Lacks, Special
<1>3. \A c \in {"[", "]", ":"} :
        <<c>> \in Seq(Token) /\ Len(<<c>>) = 1 /\ Lacks(<<c>>, {"@", "/"})
  BY OneToken DEF Special, Lacks
<1>4. ASSUME NEW s \in Seq(Token), NEW t \in Seq(Token), Lacks(s, {"@", "/"}), Lacks(t, {"@", "/"})
      PROVE  s \o t \in Seq(Token) /\ Lacks(s \o t, {"@", "/"})
  BY <1>4, LacksJoined
<1>5. Lacks(Host(d), {"@", "/"})
  BY <1>1, <1>2, <1>3, <1>4 DEF Host
<1>6. Lacks(Port(d), {"@", "/"})
  BY <1>1, <1>2, <1>3, <1>4 DEF Port
<1>7. b \in Seq(Token) /\ Lacks(b, {"@", "/"})
  BY <1>1, <1>4, <1>5, <1>6
<1> HIDE DEF b
<1>8. Lacks(b, {"@"}) /\ (b = <<>> \/ b[Len(b)] # "/")
  BY <1>7 DEF Lacks
<1> QED
  BY <1>7, <1>8 DEF b

\* What is left when user and slash are gone leads to the host, in each of its forms.
LEMMA AddressIsHost ==
  ASSUME NEW d, IsDestination(d)
  PROVE  Address(Host(d) \o Port(d)) = d.host
<1> DEFINE h == d.host
           p == Port(d)
           open == <<"[">>
           close == <<"]">>
<1>1. h \in Seq(Token) /\ p \in Seq(Token) /\ Len(h) \in Nat /\ Len(p) \in Nat
  BY PartTypes
<1>2. open \in Seq(Token) /\ Len(open) = 1 /\ open[1] = "[" /\ close \in Seq(Token) /\ Len(close) = 1
      /\ close[1] = "]"
  BY OneToken DEF Special
<1>3. p = <<>> \/ (Len(p) > 0 /\ p[1] = ":")
  <2>1. CASE d.port # <<>>
    <3>1. p = <<":">> \o d.port
      BY <2>1 DEF Port
    <3>2. <<":">> \in Seq(Token) /\ Len(<<":">>) = 1 /\ <<":">>[1] = ":"
      BY OneToken DEF Special
    <3>3. d.port \in Seq(Token)
      BY PartTypes
    <3>4. Len(<<":">> \o d.port) = 1 + Len(d.port) /\ (<<":">> \o d.port)[1] = ":" /\ Len(d.port) \in Nat
      BY <3>2, <3>3, Joined
    <3> QED
      BY <3>1, <3>4
  <2>2. CASE d.port = <<>>
    BY <2>2 DEF Port
  <2> QED
    BY <2>1, <2>2
<1>4. \A i, j \in Places(p, ":") : i = j
  <2> SUFFICES ASSUME NEW i \in Places(p, ":") PROVE i = 1
    OBVIOUS
  <2>1. i \in 1..Len(p) /\ p[i] = ":" /\ p # <<>>
    BY <1>1 DEF Places
  <2> DEFINE c == <<":">>
             q == d.port
  <2>2. p = c \o q
    BY <2>1 DEF Port
  <2>3. c \in Seq(Token) /\ Len(c) = 1 /\ q \in Seq(Token)
    BY OneToken, PartTypes DEF Special
  <2>4. \A k \in 1..Len(q) : q[k] # ":"
    BY DEF IsDestination, Lacks, Special
  <2> HIDE DEF c, q, p
  <2>5. /\ Len(p) = 1 + Len(q) /\ Len(q) \in Nat
        /\ \A k \in 2 .. 1 + Len(q) : p[k] = q[k - 1]
    <3>1. /\ Len(c \o q) = Len(c) + Len(q) /\ Len(q) \in Nat
          /\ \A k \in Len(c) + 1 .. Len(c) + Len(q) : (c \o q)[k] = q[k - Len(c)]
      BY <2>3, Joined
    <3> QED
      BY <2>2, <2>3, <3>1
  <2> QED
    BY <2>1, <2>4, <2>5
<1>5. Address(Host(d) \o p) = h
  <2>1. CASE d.bracket
    <3> DEFINE rest == close \o p
               t == h \o rest
               s == open \o t
    <3>1. Host(d) = open \o h \o close
      BY <2>1 DEF Host
    <3> HIDE DEF h, p, open, close
    <3>2. rest \in Seq(Token) /\ rest[1] = "]"
      BY <1>1, <1>2, Joined
    <3>3. Host(d) \o p = s
      <4>1. open \o h \o close \o p = open \o t
        BY <1>1, <1>2, Nested, SMTT(60)
      <4> QED
        BY <3>1, <4>1
    <3> HIDE DEF rest
    <3>4. t \in Seq(Token)
      BY <1>1, <3>2, Joined
    <3>5. UpTo(t, "]") = h
      <4>1. Lacks(h, {"]"})
        BY DEF IsDestination, Lacks, Special, h
      <4> QED
        BY <1>1, <3>2, <4>1, UpToJoined
    <3> HIDE DEF t
    <3>6. s # <<>> /\ s[1] = "[" /\ Tail(s) = t
      <4>1. s \in Seq(Token) /\ Len(s) = 1 + Len(t) /\ s[1] = "[" /\ Len(t) \in Nat
        <5>1. s \in Seq(Token) /\ Len(s) = Len(open) + Len(t) /\ Len(t) \in Nat
              /\ \A i \in 1..Len(open) : s[i] = open[i]
          BY <1>2, <3>4, Joined
        <5> HIDE DEF s
        <5> QED
          BY <1>2, <5>1
      <4>2. SubSeq(s, Len(open) + 1, Len(s)) = t
        BY <1>2, <3>4, Rest
      <4> HIDE DEF s
      <4>3. s # <<>>
        BY <4>1
      <4>4. Tail(s) = SubSeq(s, 2, Len(s))
        BY <4>1, <4>3, TailIsSubSeq
      <4> QED
        BY <1>2, <4>1, <4>2, <4>3, <4>4
    <3> QED
      BY <3>3, <3>5, <3>6, Zenon DEF Address
  <2>2. CASE ~d.bracket /\ Lacks(h, {"@", "/", "[", "]"}) /\ d.port = <<>> /\ \E i, j \in Places(h, ":") : i # j
    <3>1. Host(d) = h /\ p = <<>>
      BY <2>2 DEF Host, Port
    <3>2. Host(d) \o p = h
      BY <1>1, <3>1
    <3>3. h = <<>> \/ h[1] # "["
      BY <1>1, <2>2 DEF Lacks
    <3> HIDE DEF h, p
    <3> QED
      BY <2>2, <3>2, <3>3, Zenon DEF Address
  <2>3. CASE ~d.bracket /\ Lacks(h, Special \ {"%"})
    <3>1. Host(d) = h
      BY <2>3 DEF Host
    <3> HIDE DEF h, p
    <3> DEFINE s == h \o p
    <3>2. UpTo(s, ":") = h
      <4>1. Lacks(h, {":"})
        BY <2>3 DEF Lacks, Special
      <4> QED
        BY <1>1, <1>3, <4>1, UpToJoined
    <3>3. /\ s \in Seq(Token) /\ Len(s) = Len(h) + Len(p)
          /\ \A i \in 1..Len(h) : s[i] = h[i]
          /\ \A i \in Len(h) + 1 .. Len(h) + Len(p) : s[i] = p[i - Len(h)]
      BY <1>1, Joined
    <3> HIDE DEF s
    <3>4. ~(s # <<>> /\ s[1] = "[")
      <4> SUFFICES ASSUME s # <<>>, s[1] = "[" PROVE FALSE
        OBVIOUS
      <4>1. Len(s) > 0
        BY <3>3
      <4>2. CASE Len(h) > 0
        BY <1>1, <2>3, <3>3, <4>2 DEF Lacks, Special
      <4>3. CASE Len(h) = 0
        <5>1. Len(p) > 0 /\ s[1] = p[1]
          BY <1>1, <3>3, <4>1, <4>3
        <5> QED
          BY <1>3, <5>1
      <4> QED
        BY <1>1, <4>2, <4>3
    <3>5. \A i, j \in Places(s, ":") : i = j
      <4> SUFFICES ASSUME NEW i \in Places(s, ":"), NEW j \in Places(s, ":") PROVE i = j
        OBVIOUS
      <4>1. ASSUME NEW k \in Places(s, ":") PROVE k - Len(h) \in Places(p, ":") /\ k \in Nat
        <5>1. k \in 1..Len(h) + Len(p) /\ s[k] = ":"
          BY <3>3 DEF Places
        <5>2. k \notin 1..Len(h)
          BY <2>3, <3>3, <5>1 DEF Lacks, Special
        <5>3. k - Len(h) \in 1..Len(p) /\ p[k - Len(h)] = ":"
          BY <1>1, <3>3, <5>1, <5>2
        <5> QED
          BY <5>1, <5>3 DEF Places
      <4>2. i - Len(h) = j - Len(h)
        BY <1>4, <4>1
      <4> QED
        BY <1>1, <4>1, <4>2
    <3> QED
      BY <3>1, <3>2, <3>4, <3>5, Zenon DEF Address, s
  <2> QED
    BY <2>1, <2>2, <2>3 DEF IsDestination
<1> QED
  BY <1>5

\* The label of a mirror is the host of the destination it was asked for, whatever the user,
\* the port and the form of the address (host_label) - but for a scheme without a user.
THEOREM LabelOfDestination ==
  ASSUME NEW d, IsDestination(d), d.scheme => d.user # <<>>
  PROVE  HostLabel(Written(d)) = IF d.host = <<>> THEN <<"peer">> ELSE Sanitized(d.host)
<1> DEFINE a == Scheme(d) \o User(d)
           b == Host(d) \o Port(d)
           t == Slash(d)
<1>1. /\ Scheme(d) \in Seq(Token) /\ User(d) \in Seq(Token) /\ Host(d) \in Seq(Token)
      /\ Port(d) \in Seq(Token) /\ t \in Seq(Token) /\ d.host \in Seq(Token)
  BY PartTypes
<1>2. a \in Seq(Token) /\ (a = <<>> \/ a[Len(a)] = "@")
  BY AheadOfHost
<1>3. b \in Seq(Token) /\ Lacks(b, {"@"}) /\ (b = <<>> \/ b[Len(b)] # "/")
  BY HostAndPort
<1>4. \A i \in 1..Len(t) : t[i] = "/"
  BY OneToken DEF Slash, Special
<1>5. Written(d) = a \o (b \o t)
  <2> DEFINE h == Host(d)
             p == Port(d)
  <2>1. Written(d) = a \o h \o p \o t
    BY WrittenInParts
  <2>2. a \in Seq(Token) /\ h \in Seq(Token) /\ p \in Seq(Token) /\ t \in Seq(Token) /\ b = h \o p
    BY <1>1, <1>2
  <2> HIDE DEF a, b, t, h, p
  <2>3. a \o h \o p \o t = a \o (b \o t)
    BY <2>2, Regrouped, SMTT(60)
  <2> QED
    BY <2>1, <2>3
<1>6. Address(b) = d.host
  BY AddressIsHost
<1> HIDE DEF a, b, t
<1>7. AfterLast(a \o (b \o t), "@") = b \o t
  <2>1. b \o t \in Seq(Token) /\ Lacks(b \o t, {"@"})
    <3>1. Lacks(t, {"@"})
      BY <1>4 DEF Lacks
    <3> QED
      BY <1>1, <1>3, <3>1, LacksJoined
  <2> QED
    BY <1>2, <2>1, AfterLastJoined
<1>8. TrimEnd(b \o t, "/") = b
  BY <1>1, <1>3, <1>4, TrimEndJoined
<1>9. HostLabel(Written(d)) = IF Sanitized(d.host) = <<>> THEN <<"peer">> ELSE Sanitized(d.host)
  BY <1>5, <1>6, <1>7, <1>8 DEF HostLabel
<1>10. Sanitized(d.host) = <<>> <=> d.host = <<>>
  <2>1. Len(d.host) \in Nat /\ (d.host = <<>> <=> Len(d.host) = 0)
    BY <1>1
  <2>2. DOMAIN Sanitized(d.host) = 1..Len(d.host) /\ Sanitized(d.host) \in Seq(Token \cup {"-"})
    <3>1. \A i \in 1..Len(d.host) : d.host[i] \in Token
      BY <1>1, ElementOfSeq
    <3> QED
      BY <2>1, <3>1 DEF Sanitized
  <2> QED
    BY <2>1, <2>2
<1> QED
  BY <1>9, <1>10

=============================================================================
