-------------------------- MODULE SupervisorProofs --------------------------
(***************************************************************************)
(* Theorems about Supervisor, for any hosts, calls, pids and births, and   *)
(* every environment.                                                      *)
(***************************************************************************)
EXTENDS Supervisor, SequenceTheorems, TLAPS

\* Main goes through the states of a server, and has a Child only while it waits for it.
Mains ==
  /\ pc[Main] \in {"serve", "close", "wait", "exit", "over", "dead"}
  /\ pc[Main] = "wait" <=> child[Main] # None

\* Whoever has a Child in hand has the map.
Heads == \A t \in Task : pc[t] \in Holding => Has(t)

\* A call that starts a relay starts it for its own host, to which there is no link.
Aims ==
  \A c \in Call :
    /\ pc[c] # "idle" => to[c] \in Host
    /\ pc[c] \in {"look", "reap", "clock"} => links[to[c]] = None /\ dest[child[c]] = to[c]

\* A Child stands for a relay that has not been waited for, and has one owner.
Owned ==
  /\ \A h \in Host :
       links[h] # None => proc[links[h]] \in Running \cup {"zombie"} /\ dest[links[h]] = h
  /\ \A t \in Task :
       child[t] # None =>
         /\ proc[child[t]] \in Running \cup {"zombie"}
         /\ \A h \in Host : links[h] # child[t]

\* A relay that is waited for has been told to end, or has ended.
Waited ==
  \A t \in Task :
    pc[t] = "wait" => proc[child[t]] \notin Running \/ sig[child[t]] # "none"

\* A record is no younger than its process, and older than a process of somebody else.
Dated ==
  \A p \in Pid :
    /\ record[p] <= born[p] /\ born[p] <= births
    /\ proc[p] = "other" => record[p] < born[p]

IInv ==
  /\ TypeOK
  /\ Mains
  /\ Heads
  /\ Aims
  /\ Owned
  /\ Waited
  /\ NoRelayUnowned
  /\ Dated

-----------------------------------------------------------------------------
(***************************************************************************)
(* The queue and the owners.                                               *)
(***************************************************************************)

LEMMA QueueLemma ==
  ASSUME NEW S, NEW q \in Seq(S), NEW t \in S
  PROVE  /\ Append(q, t) \in Seq(S)
         /\ Append(q, t) # <<>>
         /\ q # <<>> => Head(Append(q, t)) = Head(q)
         /\ q # <<>> => Tail(q) \in Seq(S)
         /\ <<>> \in Seq(S)
<1>1. /\ Append(q, t) \in Seq(S)
      /\ Len(Append(q, t)) = Len(q) + 1
      /\ \A i \in 1..Len(q) : Append(q, t)[i] = q[i]
      /\ Len(q) \in Nat
  BY AppendProperties, LenProperties
<1>2. q # <<>> => Len(q) > 0 /\ Tail(q) \in Seq(S)
  BY <1>1, EmptySeq, HeadTailProperties
<1>3. Append(q, t) # <<>> /\ <<>> \in Seq(S)
  BY <1>1, EmptySeq
<1> QED
  BY <1>1, <1>2, <1>3

LEMMA AloneLemma ==
  ASSUME IInv, NEW t \in Task, Has(t)
  PROVE  \A u \in Task : u # t => pc[u] \notin Holding /\ child[u] = None
<1>1. \A u \in Task : u # t => pc[u] \notin Holding
  BY DEF IInv, Heads, Has
<1>2. \A u \in Task : pc[u] \notin Holding => child[u] = None
  BY DEF IInv, TypeOK, Mains, Task, Holding
<1> QED
  BY <1>1, <1>2

LEMMA HeldLemma ==
  ASSUME TypeOK, NEW p
  PROVE  Held(p) <=> (\E h \in Host : links[h] = p) \/ (\E t \in Task : child[t] = p)
  BY DEF TypeOK, Held, Range

LEMMA TypeStep == IInv /\ [Next]_vars => TypeOK'
<1> SUFFICES ASSUME IInv, [Next]_vars PROVE TypeOK'
  OBVIOUS
<1> USE NamesAssumption, BornAssumption, QueueLemma DEF IInv, TypeOK, Task, Holding, Running, Heads, Has, Mains
<1>1. ASSUME NEW c \in Call, NEW h \in Host, NEW tool \in {"attach", "detach"}, Ask(c, tool, h)
      PROVE  TypeOK'
  BY <1>1 DEF Ask, calls, procs
<1>2. ASSUME NEW c \in Call, Open(c) \/ GiveUp(c) \/ Trip(c) \/ Detach(c)
      PROVE  TypeOK'
  <2>1. CASE Start(c)
    BY <2>1 DEF Start, Birth, Goto, calls, procs
  <2>2. CASE Decline(c)
    BY <2>2 DEF Decline, Return, calls, procs
  <2>3. CASE Find(c)
    BY <2>3 DEF Find, Return, calls, procs
  <2>4. CASE Miss(c)
    BY <2>4 DEF Miss, Goto, calls, procs
  <2>5. CASE Reap(c)
    <3>1. CASE Reaped(child[c]) /\ Return(c) /\ UNCHANGED links
      BY <2>5, <3>1 DEF Reap, Reaped, Return
    <3>2. CASE Goto(c, "clock") /\ UNCHANGED <<to, child, links, queue, procs>>
      BY <2>5, <3>2 DEF Reap, Goto, procs
    <3> QED
      BY <2>5, <3>1, <3>2 DEF Reap
  <2>6. CASE Again(c)
    BY <2>6 DEF Again, Goto, calls, procs
  <2>7. CASE GiveUp(c)
    BY <2>7 DEF GiveUp, Return, Dropped, calls, procs
  <2>8. CASE Trip(c)
    BY <2>8 DEF Trip, Return, Dropped, calls, procs
  <2>9. CASE NoLink(c)
    BY <2>9 DEF NoLink, Return, calls, procs
  <2>10. CASE Close(c)
    BY <2>10 DEF Close, Signalled, Goto, Aims
  <2>11. CASE Closed(c)
    BY <2>11 DEF Closed, Reaped, Return, calls, procs
  <2> QED
    BY <1>2, <2>1, <2>2, <2>3, <2>4, <2>5, <2>6, <2>7, <2>8, <2>9, <2>10, <2>11 DEF Open, Detach
<1>3. ASSUME NEW h \in Host, EndOne(h) PROVE TypeOK'
  BY <1>3 DEF EndOne, Signalled, Goto, calls, procs
<1>4. CASE Shutdown
  BY <1>4 DEF Shutdown, Goto, calls, procs
<1>5. CASE EndedOne
  BY <1>5 DEF EndedOne, Reaped, Goto, calls, procs
<1>6. CASE LetGo
  BY <1>6 DEF LetGo, Goto, calls, procs
<1>7. CASE Exit
  BY <1>7 DEF Exit, Gone, Dropped, calls, procs
<1>8. CASE Crash
  BY <1>8 DEF Crash, Gone, calls, procs
<1>9. ASSUME NEW p \in Pid, Relay(p) \/ Kernel(p) \/ Sweep(p)
      PROVE  TypeOK'
  <2>1. CASE Publish(p)
    BY <2>1 DEF Publish, Becomes, calls, procs
  <2>2. CASE Install(p)
    BY <2>2 DEF Install, Becomes, calls, procs
  <2>3. CASE Withdraw(p)
    BY <2>3 DEF Withdraw, Becomes, calls, procs
  <2>4. CASE Leave(p)
    BY <2>4 DEF Leave, Exits, Becomes, calls, procs
  <2>5. CASE Fail(p)
    BY <2>5 DEF Fail, Exits, Becomes, calls, procs
  <2>6. CASE Die(p)
    BY <2>6 DEF Die, Exits, Becomes, calls, procs
  <2>7. CASE ReapOrphan(p)
    BY <2>7 DEF ReapOrphan, Reaped, calls, procs
  <2>8. CASE Reuse(p)
    <3>1. CASE Becomes(p, "other") /\ births < MaxBorn /\ Birth(p)
      BY <2>8, <3>1 DEF Reuse, Becomes, Birth, calls
    <3>2. CASE Becomes(p, "free") /\ UNCHANGED <<born, births>>
      BY <2>8, <3>2 DEF Reuse, Becomes, calls
    <3> QED
      BY <2>8, <3>1, <3>2 DEF Reuse
  <2>9. CASE Sweep(p)
    BY <2>9 DEF Sweep, calls, procs
  <2> QED
    BY <1>9, <2>1, <2>2, <2>3, <2>4, <2>5, <2>6, <2>7, <2>8, <2>9 DEF Relay, Kernel
<1>10. ASSUME NEW h \in Host, DownPick(h) PROVE TypeOK'
  BY <1>10 DEF DownPick, calls, procs
<1>11. CASE DownSignal
  BY <1>11 DEF DownSignal, Signalled, calls, procs
<1>12. CASE UNCHANGED vars
  BY <1>12 DEF vars, calls, procs
<1> QED
  BY <1>1, <1>2, <1>3, <1>4, <1>5, <1>6, <1>7, <1>8, <1>9, <1>10, <1>11, <1>12 DEF Next, CloseAll

LEMMA MainsStep == IInv /\ [Next]_vars => Mains'
<1> SUFFICES ASSUME IInv, [Next]_vars PROVE Mains'
  OBVIOUS
<1> USE NamesAssumption DEF IInv, TypeOK, Mains, Task, Has, Holding, Serving
<1>1. ASSUME NEW c \in Call, NEW h \in Host, NEW tool \in {"attach", "detach"}, Ask(c, tool, h)
      PROVE  Mains'
  BY <1>1 DEF Ask, calls, procs
<1>2. ASSUME NEW c \in Call, Open(c) \/ GiveUp(c) \/ Trip(c) \/ Detach(c)
      PROVE  Mains'
  <2>1. CASE Start(c)
    BY <2>1 DEF Start, Birth, Goto, calls, procs
  <2>2. CASE Decline(c)
    BY <2>2 DEF Decline, Return, calls, procs
  <2>3. CASE Find(c)
    BY <2>3 DEF Find, Return, calls, procs
  <2>4. CASE Miss(c)
    BY <2>4 DEF Miss, Goto, calls, procs
  <2>5. CASE Reap(c)
    BY <2>5 DEF Reap, Reaped, Return, Goto, calls, procs
  <2>6. CASE Again(c)
    BY <2>6 DEF Again, Goto, calls, procs
  <2>7. CASE GiveUp(c)
    BY <2>7 DEF GiveUp, Return, Dropped, calls, procs
  <2>8. CASE Trip(c)
    BY <2>8 DEF Trip, Return, Dropped, calls, procs
  <2>9. CASE NoLink(c)
    BY <2>9 DEF NoLink, Return, calls, procs
  <2>10. CASE Close(c)
    BY <2>10 DEF Close, Signalled, Goto, calls, procs
  <2>11. CASE Closed(c)
    BY <2>11 DEF Closed, Reaped, Return, calls, procs
  <2> QED
    BY <1>2, <2>1, <2>2, <2>3, <2>4, <2>5, <2>6, <2>7, <2>8, <2>9, <2>10, <2>11 DEF Open, Detach
<1>3. ASSUME NEW h \in Host, EndOne(h) PROVE Mains'
  BY <1>3 DEF EndOne, Signalled, Goto, calls, procs
<1>4. CASE Shutdown
  BY <1>4 DEF Shutdown, Goto, calls, procs
<1>5. CASE EndedOne
  BY <1>5 DEF EndedOne, Reaped, Goto, calls, procs
<1>6. CASE LetGo
  BY <1>6 DEF LetGo, Goto, calls, procs
<1>7. CASE Exit
  BY <1>7 DEF Exit, Gone, Dropped, calls, procs
<1>8. CASE Crash
  BY <1>8 DEF Crash, Gone, calls, procs
<1>9. ASSUME NEW p \in Pid, Relay(p) \/ Kernel(p) \/ Sweep(p)
      PROVE  Mains'
  <2>1. CASE Publish(p)
    BY <2>1 DEF Publish, Becomes, calls, procs
  <2>2. CASE Install(p)
    BY <2>2 DEF Install, Becomes, calls, procs
  <2>3. CASE Withdraw(p)
    BY <2>3 DEF Withdraw, Becomes, calls, procs
  <2>4. CASE Leave(p)
    BY <2>4 DEF Leave, Exits, Becomes, calls, procs
  <2>5. CASE Fail(p)
    BY <2>5 DEF Fail, Exits, Becomes, calls, procs
  <2>6. CASE Die(p)
    BY <2>6 DEF Die, Exits, Becomes, calls, procs
  <2>7. CASE ReapOrphan(p)
    BY <2>7 DEF ReapOrphan, Reaped, calls, procs
  <2>8. CASE Reuse(p)
    BY <2>8 DEF Reuse, Becomes, Birth, calls, procs
  <2>9. CASE Sweep(p)
    BY <2>9 DEF Sweep, calls, procs
  <2> QED
    BY <1>9, <2>1, <2>2, <2>3, <2>4, <2>5, <2>6, <2>7, <2>8, <2>9 DEF Relay, Kernel
<1>10. ASSUME NEW h \in Host, DownPick(h) PROVE Mains'
  BY <1>10 DEF DownPick, calls, procs
<1>11. CASE DownSignal
  BY <1>11 DEF DownSignal, Signalled, calls, procs
<1>12. CASE UNCHANGED vars
  BY <1>12 DEF vars, calls, procs
<1> QED
  BY <1>1, <1>2, <1>3, <1>4, <1>5, <1>6, <1>7, <1>8, <1>9, <1>10, <1>11, <1>12 DEF Next, CloseAll

LEMMA HeadsStep == IInv /\ [Next]_vars => Heads'
<1> SUFFICES ASSUME IInv, [Next]_vars PROVE Heads'
  OBVIOUS
<1> USE NamesAssumption, BornAssumption, QueueLemma DEF IInv, TypeOK, Heads, Has, Task, Holding, Mains
<1>1. ASSUME NEW c \in Call, NEW h \in Host, NEW tool \in {"attach", "detach"}, Ask(c, tool, h)
      PROVE  Heads'
  BY <1>1 DEF Ask, calls, procs
<1>2. ASSUME NEW c \in Call, Open(c) \/ GiveUp(c) \/ Trip(c) \/ Detach(c)
      PROVE  Heads'
  <2>1. CASE Start(c)
    BY <2>1 DEF Start, Birth, Goto, calls, procs
  <2>2. CASE Decline(c)
    BY <2>2 DEF Decline, Return, calls, procs
  <2>3. CASE Find(c)
    BY <2>3 DEF Find, Return, calls, procs
  <2>4. CASE Miss(c)
    BY <2>4 DEF Miss, Goto, calls, procs
  <2>5. CASE Reap(c)
    <3>0. \A u \in Task : u # c => pc[u] \notin Holding /\ child[u] = None
      BY <2>5, AloneLemma DEF Reap, IInv, TypeOK, Heads, Mains, Task, Holding
    <3>1. CASE Reaped(child[c]) /\ Return(c) /\ UNCHANGED links
      BY <2>5, <3>0, <3>1 DEF Reap, Reaped, Return
    <3>2. CASE Goto(c, "clock") /\ UNCHANGED <<to, child, links, queue, procs>>
      BY <2>5, <3>0, <3>2 DEF Reap, Goto, procs
    <3> QED
      BY <2>5, <3>1, <3>2 DEF Reap
  <2>6. CASE Again(c)
    BY <2>6 DEF Again, Goto, calls, procs
  <2>7. CASE GiveUp(c)
    <3>0. \A u \in Task : u # c => pc[u] \notin Holding /\ child[u] = None
      BY <2>7, AloneLemma DEF GiveUp, IInv, TypeOK, Heads, Mains, Task, Holding
    <3> QED
      BY <2>7, <3>0 DEF GiveUp, Return
  <2>8. CASE Trip(c)
    BY <2>8 DEF Trip, Return, Dropped, calls, procs
  <2>9. CASE NoLink(c)
    BY <2>9 DEF NoLink, Return, calls, procs
  <2>10. CASE Close(c)
    BY <2>10 DEF Close, Signalled, Goto, calls, procs
  <2>11. CASE Closed(c)
    BY <2>11 DEF Closed, Reaped, Return, calls, procs
  <2> QED
    BY <1>2, <2>1, <2>2, <2>3, <2>4, <2>5, <2>6, <2>7, <2>8, <2>9, <2>10, <2>11 DEF Open, Detach
<1>3. ASSUME NEW h \in Host, EndOne(h) PROVE Heads'
  BY <1>3 DEF EndOne, Signalled, Goto, calls, procs
<1>4. CASE Shutdown
  BY <1>4 DEF Shutdown, Goto, calls, procs
<1>5. CASE EndedOne
  BY <1>5 DEF EndedOne, Reaped, Goto, calls, procs
<1>6. CASE LetGo
  BY <1>6 DEF LetGo, Goto, calls, procs
<1>7. CASE Exit
  BY <1>7 DEF Exit, Gone, Dropped, calls, procs
<1>8. CASE Crash
  BY <1>8 DEF Crash, Gone, calls, procs
<1>9. ASSUME NEW p \in Pid, Relay(p) \/ Kernel(p) \/ Sweep(p)
      PROVE  Heads'
  <2>1. CASE Publish(p)
    BY <2>1 DEF Publish, Becomes, calls, procs
  <2>2. CASE Install(p)
    BY <2>2 DEF Install, Becomes, calls, procs
  <2>3. CASE Withdraw(p)
    BY <2>3 DEF Withdraw, Becomes, calls, procs
  <2>4. CASE Leave(p)
    BY <2>4 DEF Leave, Exits, Becomes, calls, procs
  <2>5. CASE Fail(p)
    BY <2>5 DEF Fail, Exits, Becomes, calls, procs
  <2>6. CASE Die(p)
    BY <2>6 DEF Die, Exits, Becomes, calls, procs
  <2>7. CASE ReapOrphan(p)
    BY <2>7 DEF ReapOrphan, Reaped, calls, procs
  <2>8. CASE Reuse(p)
    BY <2>8 DEF Reuse, Becomes, Birth, calls, procs
  <2>9. CASE Sweep(p)
    BY <2>9 DEF Sweep, calls, procs
  <2> QED
    BY <1>9, <2>1, <2>2, <2>3, <2>4, <2>5, <2>6, <2>7, <2>8, <2>9 DEF Relay, Kernel
<1>10. ASSUME NEW h \in Host, DownPick(h) PROVE Heads'
  BY <1>10 DEF DownPick, calls, procs
<1>11. CASE DownSignal
  BY <1>11 DEF DownSignal, Signalled, calls, procs
<1>12. CASE UNCHANGED vars
  BY <1>12 DEF vars, calls, procs
<1> QED
  BY <1>1, <1>2, <1>3, <1>4, <1>5, <1>6, <1>7, <1>8, <1>9, <1>10, <1>11, <1>12 DEF Next, CloseAll

LEMMA AimsStep == IInv /\ [Next]_vars => Aims'
<1> SUFFICES ASSUME IInv, [Next]_vars PROVE Aims'
  OBVIOUS
<1> USE NamesAssumption DEF IInv, TypeOK, Aims, Task, Holding, Heads, Has
<1>1. ASSUME NEW c \in Call, NEW h \in Host, NEW tool \in {"attach", "detach"}, Ask(c, tool, h)
      PROVE  Aims'
  BY <1>1 DEF Ask, calls, procs
<1>2. ASSUME NEW c \in Call, Open(c) \/ GiveUp(c) \/ Trip(c) \/ Detach(c)
      PROVE  Aims'
  <2>1. CASE Start(c)
    BY <2>1 DEF Start, Birth, Goto, calls, procs
  <2>2. CASE Decline(c)
    BY <2>2 DEF Decline, Return, calls, procs
  <2>3. CASE Find(c)
    <3>0. \A u \in Task : u # c => pc[u] \notin Holding /\ child[u] = None
      BY <2>3, AloneLemma DEF Find, IInv, TypeOK, Heads, Mains, Task, Holding
    <3> QED
      BY <2>3, <3>0 DEF Find, Return, procs
  <2>4. CASE Miss(c)
    BY <2>4 DEF Miss, Goto, calls, procs
  <2>5. CASE Reap(c)
    <3>0. \A u \in Task : u # c => pc[u] \notin Holding /\ child[u] = None
      BY <2>5, AloneLemma DEF Reap, IInv, TypeOK, Heads, Mains, Task, Holding
    <3>1. CASE Reaped(child[c]) /\ Return(c) /\ UNCHANGED links
      BY <2>5, <3>0, <3>1 DEF Reap, Reaped, Return
    <3>2. CASE Goto(c, "clock") /\ UNCHANGED <<to, child, links, queue, procs>>
      BY <2>5, <3>0, <3>2 DEF Reap, Goto, procs
    <3> QED
      BY <2>5, <3>1, <3>2 DEF Reap
  <2>6. CASE Again(c)
    BY <2>6 DEF Again, Goto, calls, procs
  <2>7. CASE GiveUp(c)
    BY <2>7 DEF GiveUp, Return, Dropped, calls, procs
  <2>8. CASE Trip(c)
    BY <2>8 DEF Trip, Return, Dropped, calls, procs
  <2>9. CASE NoLink(c)
    BY <2>9 DEF NoLink, Return, calls, procs
  <2>10. CASE Close(c)
    BY <2>10 DEF Close, Signalled, Goto, calls, procs
  <2>11. CASE Closed(c)
    BY <2>11 DEF Closed, Reaped, Return, calls, procs
  <2> QED
    BY <1>2, <2>1, <2>2, <2>3, <2>4, <2>5, <2>6, <2>7, <2>8, <2>9, <2>10, <2>11 DEF Open, Detach
<1>3. ASSUME NEW h \in Host, EndOne(h) PROVE Aims'
  BY <1>3 DEF EndOne, Signalled, Goto, calls, procs
<1>4. CASE Shutdown
  BY <1>4 DEF Shutdown, Goto, calls, procs
<1>5. CASE EndedOne
  <3>0. \A u \in Task : u # Main => pc[u] \notin Holding /\ child[u] = None
    BY <1>5, AloneLemma DEF EndedOne, IInv, TypeOK, Heads, Mains, Task, Holding
  <3> QED
    BY <1>5, <3>0 DEF EndedOne, Reaped, Goto
<1>6. CASE LetGo
  BY <1>6 DEF LetGo, Goto, calls, procs
<1>7. CASE Exit
  BY <1>7 DEF Exit, Gone, Dropped, calls, procs
<1>8. CASE Crash
  BY <1>8 DEF Crash, Gone, calls, procs
<1>9. ASSUME NEW p \in Pid, Relay(p) \/ Kernel(p) \/ Sweep(p)
      PROVE  Aims'
  <2>1. CASE Publish(p)
    BY <2>1 DEF Publish, Becomes, calls, procs
  <2>2. CASE Install(p)
    BY <2>2 DEF Install, Becomes, calls, procs
  <2>3. CASE Withdraw(p)
    BY <2>3 DEF Withdraw, Becomes, calls, procs
  <2>4. CASE Leave(p)
    BY <2>4 DEF Leave, Exits, Becomes, calls, procs
  <2>5. CASE Fail(p)
    BY <2>5 DEF Fail, Exits, Becomes, calls, procs
  <2>6. CASE Die(p)
    BY <2>6 DEF Die, Exits, Becomes, calls, procs
  <2>7. CASE ReapOrphan(p)
    BY <2>7, HeldLemma DEF ReapOrphan, Reaped, calls
  <2>8. CASE Reuse(p)
    BY <2>8 DEF Reuse, Becomes, Birth, calls, procs
  <2>9. CASE Sweep(p)
    BY <2>9 DEF Sweep, calls, procs
  <2> QED
    BY <1>9, <2>1, <2>2, <2>3, <2>4, <2>5, <2>6, <2>7, <2>8, <2>9 DEF Relay, Kernel
<1>10. ASSUME NEW h \in Host, DownPick(h) PROVE Aims'
  BY <1>10 DEF DownPick, calls, procs
<1>11. CASE DownSignal
  BY <1>11 DEF DownSignal, Signalled, calls, procs
<1>12. CASE UNCHANGED vars
  BY <1>12 DEF vars, calls, procs
<1> QED
  BY <1>1, <1>2, <1>3, <1>4, <1>5, <1>6, <1>7, <1>8, <1>9, <1>10, <1>11, <1>12 DEF Next, CloseAll

LEMMA OwnedStep == IInv /\ [Next]_vars => Owned'
<1> SUFFICES ASSUME IInv, [Next]_vars PROVE Owned'
  OBVIOUS
<1> USE NamesAssumption DEF IInv, TypeOK, Owned, Task, Holding, Heads, Has, Aims, Running, Mains
<1>1. ASSUME NEW c \in Call, NEW h \in Host, NEW tool \in {"attach", "detach"}, Ask(c, tool, h)
      PROVE  Owned'
  BY <1>1 DEF Ask, calls, procs
<1>2. ASSUME NEW c \in Call, Open(c) \/ GiveUp(c) \/ Trip(c) \/ Detach(c)
      PROVE  Owned'
  <2>1. CASE Start(c)
    <3>0. \A u \in Task : u # c => pc[u] \notin Holding /\ child[u] = None
      BY <2>1, AloneLemma DEF Start, IInv, TypeOK, Heads, Mains, Task, Holding
    <3>1. PICK p \in Pid :
            /\ proc[p] = "free"
            /\ proc' = [proc EXCEPT ![p] = "start"]
            /\ dest' = [dest EXCEPT ![p] = to[c]]
            /\ child' = [child EXCEPT ![c] = p]
      BY <2>1 DEF Start
    <3>2. ASSUME NEW h \in Host, links[h] = p PROVE FALSE
      <4>1. links[h] # None /\ proc[links[h]] = "free"
        BY <3>1, <3>2
      <4> QED
        BY <4>1
    <3>3. links' = links
      BY <2>1 DEF Start
    <3>4. \A h \in Host : links'[h] # p /\ links'[h] = links[h]
      BY <3>2, <3>3
    <3>5. /\ child'[c] = p /\ proc'[p] = "start"
          /\ \A t \in Task : t # c => child'[t] = None
          /\ \A r \in Pid : r # p => proc'[r] = proc[r] /\ dest'[r] = dest[r]
      BY <3>0, <3>1
    <3> QED
      BY <3>4, <3>5
  <2>2. CASE Decline(c)
    BY <2>2 DEF Decline, Return, calls, procs
  <2>3. CASE Find(c)
    <3>0. \A u \in Task : u # c => pc[u] \notin Holding /\ child[u] = None
      BY <2>3, AloneLemma DEF Find, IInv, TypeOK, Heads, Mains, Task, Holding
    <3> QED
      BY <2>3, <3>0 DEF Find, Return, procs
  <2>4. CASE Miss(c)
    BY <2>4 DEF Miss, Goto, calls, procs
  <2>5. CASE Reap(c)
    <3>0. \A u \in Task : u # c => pc[u] \notin Holding /\ child[u] = None
      BY <2>5, AloneLemma DEF Reap, IInv, TypeOK, Heads, Mains, Task, Holding
    <3>1. CASE Reaped(child[c]) /\ Return(c) /\ UNCHANGED links
      BY <2>5, <3>0, <3>1 DEF Reap, Reaped, Return
    <3>2. CASE Goto(c, "clock") /\ UNCHANGED <<to, child, links, queue, procs>>
      BY <2>5, <3>0, <3>2 DEF Reap, Goto, procs
    <3> QED
      BY <2>5, <3>1, <3>2 DEF Reap
  <2>6. CASE Again(c)
    BY <2>6 DEF Again, Goto, calls, procs
  <2>7. CASE GiveUp(c)
    BY <2>7 DEF GiveUp, Return, Dropped, calls, procs
  <2>8. CASE Trip(c)
    BY <2>8 DEF Trip, Return, Dropped, calls, procs
  <2>9. CASE NoLink(c)
    BY <2>9 DEF NoLink, Return, calls, procs
  <2>10. CASE Close(c)
    BY <2>10 DEF Close, Signalled, Goto, calls, procs
  <2>11. CASE Closed(c)
    <3>0. \A u \in Task : u # c => pc[u] \notin Holding /\ child[u] = None
      BY <2>11, AloneLemma DEF Closed, IInv, TypeOK, Heads, Mains, Task, Holding
    <3> QED
      BY <2>11, <3>0 DEF Closed, Reaped, Return
  <2> QED
    BY <1>2, <2>1, <2>2, <2>3, <2>4, <2>5, <2>6, <2>7, <2>8, <2>9, <2>10, <2>11 DEF Open, Detach
<1>3. ASSUME NEW h \in Host, EndOne(h) PROVE Owned'
  BY <1>3 DEF EndOne, Signalled, Goto, calls, procs
<1>4. CASE Shutdown
  BY <1>4 DEF Shutdown, Goto, calls, procs
<1>5. CASE EndedOne
  <3>0. \A u \in Task : u # Main => pc[u] \notin Holding /\ child[u] = None
    BY <1>5, AloneLemma DEF EndedOne, IInv, TypeOK, Heads, Mains, Task, Holding
  <3> QED
    BY <1>5, <3>0 DEF EndedOne, Reaped, Goto
<1>6. CASE LetGo
  BY <1>6 DEF LetGo, Goto, calls, procs
<1>7. CASE Exit
  BY <1>7 DEF Exit, Gone, Dropped, calls, procs
<1>8. CASE Crash
  BY <1>8 DEF Crash, Gone, calls, procs
<1>9. ASSUME NEW p \in Pid, Relay(p) \/ Kernel(p) \/ Sweep(p)
      PROVE  Owned'
  <2>1. CASE Publish(p)
    BY <2>1 DEF Publish, Becomes, calls, procs
  <2>2. CASE Install(p)
    BY <2>2 DEF Install, Becomes, calls, procs
  <2>3. CASE Withdraw(p)
    BY <2>3 DEF Withdraw, Becomes, calls, procs
  <2>4. CASE Leave(p)
    BY <2>4 DEF Leave, Exits, Becomes, calls, procs
  <2>5. CASE Fail(p)
    BY <2>5 DEF Fail, Exits, Becomes, calls, procs
  <2>6. CASE Die(p)
    BY <2>6 DEF Die, Exits, Becomes, calls, procs
  <2>7. CASE ReapOrphan(p)
    BY <2>7, HeldLemma DEF ReapOrphan, Reaped, calls
  <2>8. CASE Reuse(p)
    <3>1. CASE Becomes(p, "other") /\ births < MaxBorn /\ Birth(p)
      BY <2>8, <3>1 DEF Reuse, Becomes, Birth, calls
    <3>2. CASE Becomes(p, "free") /\ UNCHANGED <<born, births>>
      BY <2>8, <3>2 DEF Reuse, Becomes, calls
    <3> QED
      BY <2>8, <3>1, <3>2 DEF Reuse
  <2>9. CASE Sweep(p)
    BY <2>9 DEF Sweep, calls, procs
  <2> QED
    BY <1>9, <2>1, <2>2, <2>3, <2>4, <2>5, <2>6, <2>7, <2>8, <2>9 DEF Relay, Kernel
<1>10. ASSUME NEW h \in Host, DownPick(h) PROVE Owned'
  BY <1>10 DEF DownPick, calls, procs
<1>11. CASE DownSignal
  BY <1>11 DEF DownSignal, Signalled, calls, procs
<1>12. CASE UNCHANGED vars
  BY <1>12 DEF vars, calls, procs
<1> QED
  BY <1>1, <1>2, <1>3, <1>4, <1>5, <1>6, <1>7, <1>8, <1>9, <1>10, <1>11, <1>12 DEF Next, CloseAll

LEMMA WaitedStep == IInv /\ [Next]_vars => Waited'
<1> SUFFICES ASSUME IInv, [Next]_vars PROVE Waited'
  OBVIOUS
<1> USE NamesAssumption DEF IInv, TypeOK, Waited, Task, Holding, Heads, Has, Running, Mains
<1>1. ASSUME NEW c \in Call, NEW h \in Host, NEW tool \in {"attach", "detach"}, Ask(c, tool, h)
      PROVE  Waited'
  BY <1>1 DEF Ask, calls, procs
<1>2. ASSUME NEW c \in Call, Open(c) \/ GiveUp(c) \/ Trip(c) \/ Detach(c)
      PROVE  Waited'
  <2>1. CASE Start(c)
    BY <2>1 DEF Start, Birth, Goto, calls, procs
  <2>2. CASE Decline(c)
    BY <2>2 DEF Decline, Return, calls, procs
  <2>3. CASE Find(c)
    BY <2>3 DEF Find, Return, calls, procs
  <2>4. CASE Miss(c)
    BY <2>4 DEF Miss, Goto, calls, procs
  <2>5. CASE Reap(c)
    <3>0. \A u \in Task : u # c => pc[u] \notin Holding /\ child[u] = None
      BY <2>5, AloneLemma DEF Reap, IInv, TypeOK, Heads, Mains, Task, Holding
    <3>1. CASE Reaped(child[c]) /\ Return(c) /\ UNCHANGED links
      BY <2>5, <3>0, <3>1 DEF Reap, Reaped, Return
    <3>2. CASE Goto(c, "clock") /\ UNCHANGED <<to, child, links, queue, procs>>
      BY <2>5, <3>0, <3>2 DEF Reap, Goto, procs
    <3> QED
      BY <2>5, <3>1, <3>2 DEF Reap
  <2>6. CASE Again(c)
    BY <2>6 DEF Again, Goto, calls, procs
  <2>7. CASE GiveUp(c)
    BY <2>7 DEF GiveUp, Return, Dropped, calls, procs
  <2>8. CASE Trip(c)
    BY <2>8 DEF Trip, Return, Dropped, calls, procs
  <2>9. CASE NoLink(c)
    BY <2>9 DEF NoLink, Return, calls, procs
  <2>10. CASE Close(c)
    <3>0. \A u \in Task : u # c => pc[u] \notin Holding /\ child[u] = None
      BY <2>10, AloneLemma DEF Close, IInv, TypeOK, Heads, Mains, Task, Holding
    <3> QED
      BY <2>10, <3>0 DEF Close, Signalled, Goto, Aims
  <2>11. CASE Closed(c)
    BY <2>11 DEF Closed, Reaped, Return, calls, procs
  <2> QED
    BY <1>2, <2>1, <2>2, <2>3, <2>4, <2>5, <2>6, <2>7, <2>8, <2>9, <2>10, <2>11 DEF Open, Detach
<1>3. ASSUME NEW h \in Host, EndOne(h) PROVE Waited'
  BY <1>3 DEF EndOne, Signalled, Goto, calls, procs
<1>4. CASE Shutdown
  BY <1>4 DEF Shutdown, Goto, calls, procs
<1>5. CASE EndedOne
  BY <1>5 DEF EndedOne, Reaped, Goto, calls, procs
<1>6. CASE LetGo
  BY <1>6 DEF LetGo, Goto, calls, procs
<1>7. CASE Exit
  BY <1>7 DEF Exit, Gone, Dropped, calls, procs
<1>8. CASE Crash
  BY <1>8 DEF Crash, Gone, calls, procs
<1>9. ASSUME NEW p \in Pid, Relay(p) \/ Kernel(p) \/ Sweep(p)
      PROVE  Waited'
  <2>1. CASE Publish(p)
    BY <2>1 DEF Publish, Becomes, calls, procs
  <2>2. CASE Install(p)
    BY <2>2 DEF Install, Becomes, calls, procs
  <2>3. CASE Withdraw(p)
    BY <2>3 DEF Withdraw, Becomes, calls, procs
  <2>4. CASE Leave(p)
    BY <2>4 DEF Leave, Exits, Becomes, calls, procs
  <2>5. CASE Fail(p)
    BY <2>5 DEF Fail, Exits, Becomes, calls, procs
  <2>6. CASE Die(p)
    BY <2>6 DEF Die, Exits, Becomes, calls, procs
  <2>7. CASE ReapOrphan(p)
    BY <2>7 DEF ReapOrphan, Reaped, calls, procs
  <2>8. CASE Reuse(p)
    BY <2>8 DEF Reuse, Becomes, Birth, calls, procs
  <2>9. CASE Sweep(p)
    BY <2>9 DEF Sweep, calls, procs
  <2> QED
    BY <1>9, <2>1, <2>2, <2>3, <2>4, <2>5, <2>6, <2>7, <2>8, <2>9 DEF Relay, Kernel
<1>10. ASSUME NEW h \in Host, DownPick(h) PROVE Waited'
  BY <1>10 DEF DownPick, calls, procs
<1>11. CASE DownSignal
  BY <1>11 DEF DownSignal, Signalled, calls, procs
<1>12. CASE UNCHANGED vars
  BY <1>12 DEF vars, calls, procs
<1> QED
  BY <1>1, <1>2, <1>3, <1>4, <1>5, <1>6, <1>7, <1>8, <1>9, <1>10, <1>11, <1>12 DEF Next, CloseAll

LEMMA DatedStep == IInv /\ [Next]_vars => Dated'
<1> SUFFICES ASSUME IInv, [Next]_vars PROVE Dated'
  OBVIOUS
<1> USE NamesAssumption, BornAssumption DEF IInv, TypeOK, Dated
<1>1. ASSUME NEW c \in Call, NEW h \in Host, NEW tool \in {"attach", "detach"}, Ask(c, tool, h)
      PROVE  Dated'
  BY <1>1 DEF Ask, calls, procs
<1>2. ASSUME NEW c \in Call, Open(c) \/ GiveUp(c) \/ Trip(c) \/ Detach(c)
      PROVE  Dated'
  <2>1. CASE Start(c)
    BY <2>1 DEF Start, Birth, Goto, calls, procs
  <2>2. CASE Decline(c)
    BY <2>2 DEF Decline, Return, calls, procs
  <2>3. CASE Find(c)
    BY <2>3 DEF Find, Return, calls, procs
  <2>4. CASE Miss(c)
    BY <2>4 DEF Miss, Goto, calls, procs
  <2>5. CASE Reap(c)
    BY <2>5 DEF Reap, Reaped, Return, Goto, calls, procs
  <2>6. CASE Again(c)
    BY <2>6 DEF Again, Goto, calls, procs
  <2>7. CASE GiveUp(c)
    BY <2>7 DEF GiveUp, Return, Dropped, calls, procs
  <2>8. CASE Trip(c)
    BY <2>8 DEF Trip, Return, Dropped, calls, procs
  <2>9. CASE NoLink(c)
    BY <2>9 DEF NoLink, Return, calls, procs
  <2>10. CASE Close(c)
    BY <2>10 DEF Close, Signalled, Goto, calls, procs
  <2>11. CASE Closed(c)
    BY <2>11 DEF Closed, Reaped, Return, calls, procs
  <2> QED
    BY <1>2, <2>1, <2>2, <2>3, <2>4, <2>5, <2>6, <2>7, <2>8, <2>9, <2>10, <2>11 DEF Open, Detach
<1>3. ASSUME NEW h \in Host, EndOne(h) PROVE Dated'
  BY <1>3 DEF EndOne, Signalled, Goto, calls, procs
<1>4. CASE Shutdown
  BY <1>4 DEF Shutdown, Goto, calls, procs
<1>5. CASE EndedOne
  BY <1>5 DEF EndedOne, Reaped, Goto, calls, procs
<1>6. CASE LetGo
  BY <1>6 DEF LetGo, Goto, calls, procs
<1>7. CASE Exit
  BY <1>7 DEF Exit, Gone, Dropped, calls, procs
<1>8. CASE Crash
  BY <1>8 DEF Crash, Gone, calls, procs
<1>9. ASSUME NEW p \in Pid, Relay(p) \/ Kernel(p) \/ Sweep(p)
      PROVE  Dated'
  <2>1. CASE Publish(p)
    BY <2>1 DEF Publish, Becomes, calls, procs
  <2>2. CASE Install(p)
    BY <2>2 DEF Install, Becomes, calls, procs
  <2>3. CASE Withdraw(p)
    BY <2>3 DEF Withdraw, Becomes, calls, procs
  <2>4. CASE Leave(p)
    BY <2>4 DEF Leave, Exits, Becomes, calls, procs
  <2>5. CASE Fail(p)
    BY <2>5 DEF Fail, Exits, Becomes, calls, procs
  <2>6. CASE Die(p)
    BY <2>6 DEF Die, Exits, Becomes, calls, procs
  <2>7. CASE ReapOrphan(p)
    BY <2>7 DEF ReapOrphan, Reaped, calls, procs
  <2>8. CASE Reuse(p)
    BY <2>8 DEF Reuse, Becomes, Birth, calls, procs
  <2>9. CASE Sweep(p)
    BY <2>9 DEF Sweep, calls, procs
  <2> QED
    BY <1>9, <2>1, <2>2, <2>3, <2>4, <2>5, <2>6, <2>7, <2>8, <2>9 DEF Relay, Kernel
<1>10. ASSUME NEW h \in Host, DownPick(h) PROVE Dated'
  BY <1>10 DEF DownPick, calls, procs
<1>11. CASE DownSignal
  BY <1>11 DEF DownSignal, Signalled, calls, procs
<1>12. CASE UNCHANGED vars
  BY <1>12 DEF vars, calls, procs
<1> QED
  BY <1>1, <1>2, <1>3, <1>4, <1>5, <1>6, <1>7, <1>8, <1>9, <1>10, <1>11, <1>12 DEF Next, CloseAll

LEMMA UnownedStep == IInv /\ [Next]_vars => NoRelayUnowned'
<1> SUFFICES ASSUME IInv, [Next]_vars, NEW q \in Pid,
                    proc'[q] \in Running, sig'[q] = "none", pc'[Main] # "dead"
             PROVE  Held(q)'
  BY DEF NoRelayUnowned
<1>a. /\ \A h \in Host : links'[h] = q => Held(q)'
      /\ \A t \in Task : child'[t] = q => Held(q)'
  BY TypeStep DEF TypeOK, Held, Range
<1>b. ASSUME proc[q] \in Running, sig[q] = "none", pc[Main] # "dead"
      PROVE  (\E h \in Host : links[h] = q) \/ (\E t \in Task : child[t] = q)
  BY <1>b, HeldLemma DEF IInv, NoRelayUnowned
<1>c. ASSUME proc[q] \in Running, sig[q] = "none", pc[Main] # "dead",
             links' = links, child' = child
      PROVE  Held(q)'
  BY <1>a, <1>b, <1>c
<1>d. ASSUME proc[q] \in Running, sig[q] = "none", pc[Main] # "dead",
             \A h \in Host : links[h] = q => Held(q)',
             \A t \in Task : child[t] = q => Held(q)'
      PROVE  Held(q)'
  BY <1>b, <1>d
<1> USE NamesAssumption DEF Task, Running
<1>1. ASSUME NEW c \in Call, NEW h \in Host, NEW tool \in {"attach", "detach"}, Ask(c, tool, h)
      PROVE  Held(q)'
  BY <1>1, <1>c DEF Ask, procs, IInv, TypeOK
<1>2. ASSUME NEW c \in Call, Open(c) \/ GiveUp(c) \/ Trip(c) \/ Detach(c)
      PROVE  Held(q)'
  <2>1. CASE Start(c)
    <3>1. PICK p \in Pid :
            /\ proc[p] = "free" /\ proc' = [proc EXCEPT ![p] = "start"]
            /\ child' = [child EXCEPT ![c] = p]
      BY <2>1 DEF Start
    <3>2. CASE q = p
      BY <3>1, <3>2, <2>1, <1>a DEF IInv, TypeOK
    <3>3. CASE q # p
      <4>1. proc[q] \in Running /\ sig[q] = "none" /\ pc[Main] # "dead"
        BY <3>1, <3>3, <2>1 DEF Start, Goto, IInv, TypeOK, Mains
      <4>2. child[c] = None /\ links' = links
        BY <2>1 DEF Start, IInv, TypeOK, Holding
      <4>3. \A t \in Task : child[t] = q => child'[t] = q
        BY <3>1, <4>2 DEF IInv, TypeOK
      <4> QED
        BY <4>1, <4>2, <4>3, <1>a, <1>d
    <3> QED
      BY <3>2, <3>3
  <2>2. CASE Decline(c)
    <3>1. proc[q] \in Running /\ sig[q] = "none" /\ pc[Main] # "dead"
      BY <2>2 DEF Decline, Return, procs, calls, IInv, TypeOK, Mains
    <3>2. ASSUME NEW x \in Host, links[x] = q PROVE Held(q)'
      BY <2>2, <3>1, <3>2, <1>a DEF Decline, Return, procs, IInv, TypeOK, Owned, Aims, Holding
    <3>3. ASSUME NEW t \in Task, child[t] = q PROVE Held(q)'
      BY <2>2, <3>1, <3>3, <1>a DEF Decline, Return, procs, IInv, TypeOK, Owned, Aims, Mains, Holding
    <3> QED
      BY <3>1, <3>2, <3>3, <1>d
  <2>3. CASE Find(c)
    <3>1. proc[q] \in Running /\ sig[q] = "none" /\ pc[Main] # "dead"
      BY <2>3 DEF Find, Return, procs, calls, IInv, TypeOK, Mains
    <3>2. ASSUME NEW x \in Host, links[x] = q PROVE Held(q)'
      BY <2>3, <3>1, <3>2, <1>a DEF Find, Return, procs, IInv, TypeOK, Owned, Aims, Holding
    <3>3. ASSUME NEW t \in Task, child[t] = q PROVE Held(q)'
      BY <2>3, <3>1, <3>3, <1>a DEF Find, Return, procs, IInv, TypeOK, Owned, Aims, Mains, Holding
    <3> QED
      BY <3>1, <3>2, <3>3, <1>d
  <2>4. CASE Miss(c)
    <3>1. proc[q] \in Running /\ sig[q] = "none" /\ pc[Main] # "dead"
      BY <2>4 DEF Miss, Goto, procs, calls, IInv, TypeOK, Mains
    <3> QED
      BY <2>4, <3>1, <1>c DEF Miss
  <2>5. CASE Reap(c)
    <3>1. proc[q] \in Running /\ sig[q] = "none" /\ pc[Main] # "dead"
      BY <2>5 DEF Reap, Reaped, Return, Goto, procs, calls, IInv, TypeOK, Mains
    <3>2. ASSUME NEW x \in Host, links[x] = q PROVE Held(q)'
      BY <2>5, <3>1, <3>2, <1>a DEF Reap, Reaped, Return, Goto, procs, IInv, TypeOK, Owned, Aims, Holding
    <3>3. ASSUME NEW t \in Task, child[t] = q PROVE Held(q)'
      BY <2>5, <3>1, <3>3, <1>a DEF Reap, Reaped, Return, Goto, procs, IInv, TypeOK, Owned, Aims, Mains, Holding
    <3> QED
      BY <3>1, <3>2, <3>3, <1>d
  <2>6. CASE Again(c)
    <3>1. proc[q] \in Running /\ sig[q] = "none" /\ pc[Main] # "dead"
      BY <2>6 DEF Again, Goto, procs, calls, IInv, TypeOK, Mains
    <3> QED
      BY <2>6, <3>1, <1>c DEF Again
  <2>7. CASE GiveUp(c)
    <3>1. proc[q] \in Running /\ sig[q] = "none" /\ pc[Main] # "dead"
      BY <2>7 DEF GiveUp, Return, Dropped, procs, calls, IInv, TypeOK, Mains
    <3>2. ASSUME NEW x \in Host, links[x] = q PROVE Held(q)'
      BY <2>7, <3>1, <3>2, <1>a DEF GiveUp, Return, Dropped, procs, IInv, TypeOK, Owned, Aims, Holding
    <3>3. ASSUME NEW t \in Task, child[t] = q PROVE Held(q)'
      BY <2>7, <3>1, <3>3, <1>a DEF GiveUp, Return, Dropped, procs, IInv, TypeOK, Owned, Aims, Mains, Holding
    <3> QED
      BY <3>1, <3>2, <3>3, <1>d
  <2>8. CASE Trip(c)
    <3>1. proc[q] \in Running /\ sig[q] = "none" /\ pc[Main] # "dead"
      BY <2>8 DEF Trip, Return, Dropped, procs, calls, IInv, TypeOK, Mains
    <3>2. ASSUME NEW x \in Host, links[x] = q PROVE Held(q)'
      BY <2>8, <3>1, <3>2, <1>a DEF Trip, Return, Dropped, procs, IInv, TypeOK, Owned, Aims, Holding
    <3>3. ASSUME NEW t \in Task, child[t] = q PROVE Held(q)'
      BY <2>8, <3>1, <3>3, <1>a DEF Trip, Return, Dropped, procs, IInv, TypeOK, Owned, Aims, Mains, Holding
    <3> QED
      BY <3>1, <3>2, <3>3, <1>d
  <2>9. CASE NoLink(c)
    <3>1. proc[q] \in Running /\ sig[q] = "none" /\ pc[Main] # "dead"
      BY <2>9 DEF NoLink, Return, procs, calls, IInv, TypeOK, Mains
    <3>2. ASSUME NEW x \in Host, links[x] = q PROVE Held(q)'
      BY <2>9, <3>1, <3>2, <1>a DEF NoLink, Return, procs, IInv, TypeOK, Owned, Aims, Holding
    <3>3. ASSUME NEW t \in Task, child[t] = q PROVE Held(q)'
      BY <2>9, <3>1, <3>3, <1>a DEF NoLink, Return, procs, IInv, TypeOK, Owned, Aims, Mains, Holding
    <3> QED
      BY <3>1, <3>2, <3>3, <1>d
  <2>10. CASE Close(c)
    <3>1. proc[q] \in Running /\ sig[q] = "none" /\ pc[Main] # "dead"
      BY <2>10 DEF Close, Signalled, Goto, procs, calls, IInv, TypeOK, Mains
    <3>2. ASSUME NEW x \in Host, links[x] = q PROVE Held(q)'
      BY <2>10, <3>1, <3>2, <1>a DEF Close, Signalled, Goto, procs, IInv, TypeOK, Owned, Aims, Holding
    <3>3. ASSUME NEW t \in Task, child[t] = q PROVE Held(q)'
      BY <2>10, <3>1, <3>3, <1>a DEF Close, Signalled, Goto, procs, IInv, TypeOK, Owned, Aims, Mains, Holding
    <3> QED
      BY <3>1, <3>2, <3>3, <1>d
  <2>11. CASE Closed(c)
    <3>1. proc[q] \in Running /\ sig[q] = "none" /\ pc[Main] # "dead"
      BY <2>11 DEF Closed, Reaped, Return, procs, calls, IInv, TypeOK, Mains
    <3>2. ASSUME NEW x \in Host, links[x] = q PROVE Held(q)'
      BY <2>11, <3>1, <3>2, <1>a DEF Closed, Reaped, Return, procs, IInv, TypeOK, Owned, Aims, Holding
    <3>3. ASSUME NEW t \in Task, child[t] = q PROVE Held(q)'
      BY <2>11, <3>1, <3>3, <1>a DEF Closed, Reaped, Return, procs, IInv, TypeOK, Owned, Aims, Mains, Holding
    <3> QED
      BY <3>1, <3>2, <3>3, <1>d
  <2> QED
    BY <1>2, <2>1, <2>2, <2>3, <2>4, <2>5, <2>6, <2>7, <2>8, <2>9, <2>10, <2>11 DEF Open, Detach
<1>3. ASSUME NEW h \in Host, EndOne(h) PROVE Held(q)'
  <2>1. proc[q] \in Running /\ sig[q] = "none" /\ pc[Main] # "dead"
    BY <1>3 DEF EndOne, Signalled, Goto, procs, calls, IInv, TypeOK, Mains
  <2>2. ASSUME NEW x \in Host, links[x] = q PROVE Held(q)'
    BY <1>3, <2>1, <2>2, <1>a DEF EndOne, Signalled, Goto, procs, IInv, TypeOK, Owned, Aims, Holding
  <2>3. ASSUME NEW t \in Task, child[t] = q PROVE Held(q)'
    BY <1>3, <2>1, <2>3, <1>a DEF EndOne, Signalled, Goto, procs, IInv, TypeOK, Owned, Aims, Mains, Holding
  <2> QED
    BY <2>1, <2>2, <2>3, <1>d
<1>4. CASE Shutdown
  <2>1. proc[q] \in Running /\ sig[q] = "none" /\ pc[Main] # "dead"
    BY <1>4 DEF Shutdown, Goto, procs, calls, IInv, TypeOK, Mains
  <2> QED
    BY <1>4, <2>1, <1>c DEF Shutdown
<1>5. CASE EndedOne
  <2>1. proc[q] \in Running /\ sig[q] = "none" /\ pc[Main] # "dead"
    BY <1>5 DEF EndedOne, Reaped, Goto, procs, calls, IInv, TypeOK, Mains
  <2>2. ASSUME NEW x \in Host, links[x] = q PROVE Held(q)'
    BY <1>5, <2>1, <2>2, <1>a DEF EndedOne, Reaped, Goto, procs, IInv, TypeOK, Owned, Aims, Holding
  <2>3. ASSUME NEW t \in Task, child[t] = q PROVE Held(q)'
    BY <1>5, <2>1, <2>3, <1>a DEF EndedOne, Reaped, Goto, procs, IInv, TypeOK, Owned, Aims, Mains, Holding
  <2> QED
    BY <2>1, <2>2, <2>3, <1>d
<1>6. CASE LetGo
  <2>1. proc[q] \in Running /\ sig[q] = "none" /\ pc[Main] # "dead"
    BY <1>6 DEF LetGo, Goto, procs, calls, IInv, TypeOK, Mains
  <2> QED
    BY <1>6, <2>1, <1>c DEF LetGo
<1>7. CASE Exit
  <2>1. ~Held(q) /\ proc[q] \in Running /\ sig[q] = "none"
    BY <1>7 DEF Exit, Gone, Dropped, IInv, TypeOK
  <2> QED
    BY <2>1, <1>7 DEF Exit, IInv, NoRelayUnowned
<1>8. CASE Crash
  BY <1>8 DEF Crash, Gone, IInv, TypeOK
<1>9. ASSUME NEW p \in Pid, Relay(p) \/ Kernel(p) \/ Sweep(p)
      PROVE  Held(q)'
  <2>1. proc[q] \in Running /\ sig[q] = "none"
    <3>1. CASE Publish(p)
      BY <3>1 DEF Publish, Becomes, procs, calls, IInv, TypeOK
    <3>2. CASE Install(p)
      BY <3>2 DEF Install, Becomes, procs, calls, IInv, TypeOK
    <3>3. CASE Withdraw(p)
      BY <3>3 DEF Withdraw, Becomes, procs, calls, IInv, TypeOK
    <3>4. CASE Leave(p)
      BY <3>4 DEF Leave, Exits, Becomes, procs, calls, IInv, TypeOK
    <3>5. CASE Fail(p)
      BY <3>5 DEF Fail, Exits, Becomes, procs, calls, IInv, TypeOK
    <3>6. CASE Die(p)
      BY <3>6 DEF Die, Exits, Becomes, procs, calls, IInv, TypeOK
    <3>7. CASE ReapOrphan(p)
      BY <3>7 DEF ReapOrphan, Reaped, procs, calls, IInv, TypeOK
    <3>8. CASE Reuse(p)
      BY <3>8 DEF Reuse, Becomes, Birth, procs, calls, IInv, TypeOK
    <3>9. CASE Sweep(p)
      BY <3>9 DEF Sweep, procs, calls, IInv, TypeOK
    <3> QED
      BY <1>9, <3>1, <3>2, <3>3, <3>4, <3>5, <3>6, <3>7, <3>8, <3>9 DEF Relay, Kernel
  <2>2. UNCHANGED calls
    BY <1>9 DEF Relay, Kernel, Publish, Install, Withdraw, Leave, Fail, Die, ReapOrphan, Reuse, Sweep, Exits
  <2> QED
    BY <2>1, <2>2, <1>c DEF calls
<1>10. ASSUME NEW h \in Host, DownPick(h) PROVE Held(q)'
  BY <1>10, <1>c DEF DownPick, calls, procs
<1>11. CASE DownSignal
  <2>1. proc[q] \in Running /\ sig[q] = "none"
    BY <1>11 DEF DownSignal, Signalled, IInv, TypeOK
  <2> QED
    BY <1>11, <2>1, <1>c DEF DownSignal, calls
<1>12. CASE UNCHANGED vars
  BY <1>12, <1>c DEF vars, calls, procs
<1> QED
  BY <1>1, <1>2, <1>3, <1>4, <1>5, <1>6, <1>7, <1>8, <1>9, <1>10, <1>11, <1>12 DEF Next, CloseAll

-----------------------------------------------------------------------------
(***************************************************************************)
(* The theorems.                                                           *)
(***************************************************************************)

LEMMA SupervisorInit == Init => IInv
<1> SUFFICES ASSUME Init PROVE IInv
  OBVIOUS
<1> USE NamesAssumption, BornAssumption DEF Init, Task
<1>1. TypeOK
  BY EmptySeq DEF TypeOK, Holding, Running
<1>2. Mains /\ Heads /\ Aims /\ Owned /\ Waited
  BY DEF Mains, Heads, Aims, Owned, Waited, Holding
<1>3. NoRelayUnowned /\ Dated
  BY DEF NoRelayUnowned, Dated, Running
<1> QED
  BY <1>1, <1>2, <1>3 DEF IInv

\* What holds between the calls, the map, the relays and the registry at every moment
\* of a server, and after it.
THEOREM SupervisorInductive == Spec => []IInv
<1>1. IInv /\ [Next]_vars => IInv'
  BY TypeStep, MainsStep, HeadsStep, AimsStep, OwnedStep, WaitedStep, UnownedStep, DatedStep
     DEF IInv
<1> QED
  BY SupervisorInit, <1>1, PTL DEF Spec

\* Every variable of the supervisor keeps its type, and a call has a Child exactly while
\* it polls or waits.
THEOREM SupervisorTypeCorrect == Spec => []TypeOK
<1>1. IInv => TypeOK
  BY DEF IInv
<1> QED
  BY <1>1, SupervisorInductive, PTL

\* A relay nobody has told to end is in the map or in the hands of a call, whatever
\* fails between its start and the map (kill_on_drop on open's error paths).
THEOREM RelaysAreOwned == Spec => []NoRelayUnowned
<1>1. IInv => NoRelayUnowned
  BY DEF IInv
<1> QED
  BY <1>1, SupervisorInductive, PTL

LEMMA OneRelay == IInv => OneRelayPerHost
<1> SUFFICES ASSUME IInv, NEW p \in Pid, NEW q \in Pid,
                    proc[p] \in Running, sig[p] = "none",
                    proc[q] \in Running, sig[q] = "none",
                    dest[p] = dest[q], Serving
             PROVE  p = q
  BY DEF OneRelayPerHost
<1>1. ASSUME NEW r \in Pid, proc[r] \in Running, sig[r] = "none"
      PROVE  \/ \E h \in Host : links[h] = r /\ dest[r] = h
             \/ \E c \in Call : child[c] = r /\ links[dest[r]] = None /\ Has(c)
  <2>1. Held(r)
    BY <1>1 DEF IInv, NoRelayUnowned, Serving
  <2>2. CASE \E h \in Host : links[h] = r
    BY <2>2, NamesAssumption DEF IInv, Owned
  <2>3. ASSUME NEW t \in Task, child[t] = r
        PROVE  t \in Call /\ links[dest[r]] = None /\ Has(t)
    <3>1. r # None /\ pc[t] # "wait"
      BY <1>1, <2>3, NamesAssumption DEF IInv, Waited
    <3>2. t # Main
      BY <2>3, <3>1 DEF IInv, Mains
    <3>3. pc[t] \in {"look", "reap", "clock"}
      BY <2>3, <3>1, <3>2 DEF IInv, TypeOK, Task, Holding
    <3> QED
      BY <2>3, <3>2, <3>3 DEF IInv, Aims, Heads, Task, Holding
  <2> QED
    BY <2>1, <2>2, <2>3, HeldLemma DEF IInv
<1> QED
  BY <1>1, NamesAssumption DEF Has

\* Two relays of a server never work on one host at once, for any number of hosts, calls
\* and relays (the map is locked from open's check until the child is in it).
THEOREM RelaysAreSingle == Spec => []OneRelayPerHost
  BY OneRelay, SupervisorInductive, PTL

\* A listed mirror is never one a dead relay left under a pid that was used again.
THEOREM ListingsAreBacked == Spec => []ListedIsBacked
<1>1. IInv => ListedIsBacked
  BY DEF IInv, TypeOK, Dated, ListedIsBacked, Listed
<1> QED
  BY <1>1, SupervisorInductive, PTL

=============================================================================
