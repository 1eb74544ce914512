----------------------------- MODULE Supervisor -----------------------------
(***************************************************************************)
(* The control plane of one session: the MCP server that opens and closes  *)
(* links, the relay processes it starts, their records in the registry,    *)
(* `cc-link down`, and the kernel's and the harness's part in what becomes *)
(* of a relay that died.                                                   *)
(*                                                                         *)
(* Tool calls run concurrently; the links map is behind a tokio mutex,     *)
(* held for the whole of a call, polling and waiting included.  The mutex  *)
(* is fair: queue holds the tasks that asked for it, in order, and its     *)
(* head has it.  The task Main serves until the session ends and then runs *)
(* close_all.  What a relay does in detail is in Link; here it publishes,  *)
(* installs its handlers, withdraws and exits.                             *)
(***************************************************************************)
EXTENDS Naturals, Sequences, FiniteSets, Functions

CONSTANTS Host,         \* hosts to link to
          Call,         \* tool calls that may be in flight
          Main,         \* the server's own task
          Pid,          \* process ids the kernel hands out
          None,         \* no host, no process
          MaxBorn,      \* processes that may be started
          Env           \* what the environment does in this instance

EnvKind == {"fail", "reuse", "down", "refuse", "crash"}

ASSUME NamesAssumption == Main \notin Call /\ None \notin Host \cup Pid
ASSUME BornAssumption == MaxBorn \in Nat
ASSUME EnvAssumption == Env \subseteq EnvKind

Task == Call \cup {Main}

VARIABLES
  pc,           \* where each task is
  to,           \* the host a call is about
  child,        \* the Child value a task owns
  links,        \* the Child the map owns for each host
  queue,        \* tasks that asked for the links map; the head holds it
  proc,         \* what runs under each pid
  dest,         \* the host a relay was started for
  sig,          \* a signal sent to a process that has not acted on it
  born,         \* start time of the latest process with that pid
  births,       \* processes started so far: what a start time is read from
  record,       \* start time in the mirror at <pid>.json; 0 when there is none
  target        \* the pid `down` has picked and not yet signalled

calls == <<pc, to, child, links, queue>>
procs == <<proc, dest, sig, born, births>>
vars == <<calls, procs, record, target>>

-----------------------------------------------------------------------------
Running == {"start", "shown", "up", "bare"}
Holding == {"look", "reap", "clock", "wait"}

\* pid_alive: signal 0 reaches a zombie too.
PidAlive(p) == proc[p] # "free"

\* Mutant: the start time is not compared.
ListedByPid(p) == PidAlive(p) /\ record[p] # 0

\* list_live: the process exists and its start time is the one the record gives.
Listed(p) == PidAlive(p) /\ record[p] # 0 /\ record[p] = born[p]

Held(p) == p \in Range(links) \cup Range(child)
Has(t) == queue # <<>> /\ Head(queue) = t
Serving == pc[Main] \in {"serve", "close", "wait", "exit"}

TypeOK ==
  /\ pc \in [Task -> {"idle", "attach", "detach"} \cup Holding
                     \cup {"serve", "close", "exit", "over", "dead"}]
  /\ to \in [Call -> Host \cup {None}]
  /\ child \in [Task -> Pid \cup {None}]
  /\ links \in [Host -> Pid \cup {None}]
  /\ queue \in Seq(Task)
  /\ proc \in [Pid -> Running \cup {"free", "zombie", "other"}]
  /\ dest \in [Pid -> Host \cup {None}]
  /\ sig \in [Pid -> {"none", "term", "kill"}]
  /\ born \in [Pid -> 0..MaxBorn]
  /\ births \in 0..MaxBorn
  /\ record \in [Pid -> 0..MaxBorn]
  /\ target \in Pid \cup {None}
  /\ \A c \in Call : pc[c] \in Holding <=> child[c] # None

Init ==
  /\ pc = [t \in Task |-> IF t = Main THEN "serve" ELSE "idle"]
  /\ to = [c \in Call |-> None]
  /\ child = [t \in Task |-> None]
  /\ links = [h \in Host |-> None]
  /\ queue = <<>>
  /\ proc = [p \in Pid |-> "free"]
  /\ dest = [p \in Pid |-> None]
  /\ sig = [p \in Pid |-> "none"]
  /\ born = [p \in Pid |-> 0]
  /\ births = 0
  /\ record = [p \in Pid |-> 0]
  /\ target = None

-----------------------------------------------------------------------------
(***************************************************************************)
(* Tool calls.                                                             *)
(***************************************************************************)

\* A call asks for the map.  A call that came while the server served is a task of its own
\* by then, and may be as late as it likes.
Ask(c, tool, h) ==
  /\ Serving /\ pc[c] = "idle"
  /\ pc' = [pc EXCEPT ![c] = tool]
  /\ to' = [to EXCEPT ![c] = h]
  /\ queue' = Append(queue, c)
  /\ UNCHANGED <<child, links, procs, record, target>>

\* Mutant: the Child outlives the call.
ReturnKeeping(c) ==
  /\ pc' = [pc EXCEPT ![c] = "idle"]
  /\ to' = [to EXCEPT ![c] = None]
  /\ queue' = Tail(queue)
  /\ UNCHANGED child

\* The call returns; the guard on the map goes with it, and so does a Child it owns.
Return(c) ==
  /\ pc' = [pc EXCEPT ![c] = "idle"]
  /\ to' = [to EXCEPT ![c] = None]
  /\ child' = [child EXCEPT ![c] = None]
  /\ queue' = Tail(queue)

\* A process begins, and nothing that bore its pid began when it does.
Birth(p) ==
  /\ births' = births + 1
  /\ born' = [born EXCEPT ![p] = births']

\* wait has its status, and the pid is free.
Reaped(p) ==
  /\ proc[p] = "zombie"
  /\ proc' = [proc EXCEPT ![p] = "free"]
  /\ dest' = [dest EXCEPT ![p] = None]
  /\ UNCHANGED <<sig, born, births>>

Goto(t, l) == pc' = [pc EXCEPT ![t] = l]

\* A Child that is dropped is killed: kill_on_drop.
Dropped(P) == [p \in Pid |-> IF p \in P /\ proc[p] \in Running THEN "kill" ELSE sig[p]]

\* Mutant: nobody asks whether there is a link to the host.
StartAnyway(c) ==
  /\ pc[c] = "attach" /\ Has(c)
  /\ \E p \in Pid :
       /\ proc[p] = "free" /\ births < MaxBorn
       /\ proc' = [proc EXCEPT ![p] = "start"]
       /\ dest' = [dest EXCEPT ![p] = to[c]]
       /\ Birth(p)
       /\ child' = [child EXCEPT ![c] = p]
  /\ Goto(c, "look")
  /\ UNCHANGED <<to, links, queue, sig, record, target>>

\* open: no link to this host yet, and a relay is started.
Start(c) ==
  /\ pc[c] = "attach" /\ Has(c)
  /\ links[to[c]] = None
  /\ \E p \in Pid :
       /\ proc[p] = "free" /\ births < MaxBorn
       /\ proc' = [proc EXCEPT ![p] = "start"]
       /\ dest' = [dest EXCEPT ![p] = to[c]]
       /\ Birth(p)
       /\ child' = [child EXCEPT ![c] = p]
  /\ Goto(c, "look")
  /\ UNCHANGED <<to, links, queue, sig, record, target>>

\* "already linked", no session for a parent, or the relay cannot be started.
Decline(c) ==
  /\ pc[c] = "attach" /\ Has(c)
  /\ \/ links[to[c]] # None
     \/ "refuse" \in Env
     \/ births = MaxBorn \/ \A p \in Pid : proc[p] # "free"
  /\ Return(c)
  /\ UNCHANGED <<links, procs, record, target>>

\* The mirror is there: the map takes the child.
Find(c) ==
  /\ pc[c] = "look"
  /\ Listed(child[c])
  /\ links' = [links EXCEPT ![to[c]] = child[c]]
  /\ Return(c)
  /\ UNCHANGED <<procs, record, target>>

Miss(c) ==
  /\ pc[c] = "look"
  /\ ~Listed(child[c])
  /\ Goto(c, "reap")
  /\ UNCHANGED <<to, child, links, queue, procs, record, target>>

\* try_wait: a relay that has exited is reaped and the call fails.
Reap(c) ==
  /\ pc[c] = "reap"
  /\ \/ /\ Reaped(child[c])
        /\ Return(c)
        /\ UNCHANGED links
     \/ /\ proc[child[c]] # "zombie"
        /\ Goto(c, "clock")
        /\ UNCHANGED <<to, child, links, queue, procs>>
  /\ UNCHANGED <<record, target>>

\* Before the deadline: sleep and look again.
Again(c) ==
  /\ pc[c] = "clock"
  /\ Goto(c, "look")
  /\ UNCHANGED <<to, child, links, queue, procs, record, target>>

\* Mutant: the call fails and its relay runs on.
GiveUpLeaving(c) ==
  /\ pc[c] = "clock"
  /\ Return(c)
  /\ UNCHANGED <<links, procs, record, target>>

\* ATTACH_TIMEOUT has passed: start_kill, and the drop kills again.
GiveUp(c) ==
  /\ pc[c] = "clock"
  /\ sig' = Dropped({child[c]})
  /\ Return(c)
  /\ UNCHANGED <<links, proc, dest, born, births, record, target>>

\* The registry cannot be read, or the child not asked: the error drops the Child.
Trip(c) ==
  /\ "refuse" \in Env
  /\ pc[c] \in {"look", "reap"}
  /\ sig' = Dropped({child[c]})
  /\ Return(c)
  /\ UNCHANGED <<links, proc, dest, born, births, record, target>>

\* end: SIGTERM to a child that left the map; the signal is nothing to a zombie.
Signalled(p) ==
  [sig EXCEPT ![p] = IF proc[p] \in Running /\ @ = "none" THEN "term" ELSE @]

\* Mutant: the relay is waited for and not told.
CloseUnsignalled(c) ==
  /\ pc[c] = "detach" /\ Has(c)
  /\ links[to[c]] # None
  /\ child' = [child EXCEPT ![c] = links[to[c]]]
  /\ links' = [links EXCEPT ![to[c]] = None]
  /\ Goto(c, "wait")
  /\ UNCHANGED <<to, queue, procs, record, target>>

NoLink(c) ==
  /\ pc[c] = "detach" /\ Has(c)
  /\ links[to[c]] = None
  /\ Return(c)
  /\ UNCHANGED <<links, procs, record, target>>

Close(c) ==
  /\ pc[c] = "detach" /\ Has(c)
  /\ links[to[c]] # None
  /\ child' = [child EXCEPT ![c] = links[to[c]]]
  /\ links' = [links EXCEPT ![to[c]] = None]
  /\ sig' = Signalled(links[to[c]])
  /\ Goto(c, "wait")
  /\ UNCHANGED <<to, queue, proc, dest, born, births, record, target>>

\* wait: the relay has exited, is reaped, and the call answers "closed".
Closed(c) ==
  /\ pc[c] = "wait"
  /\ Reaped(child[c])
  /\ Return(c)
  /\ UNCHANGED <<links, record, target>>

-----------------------------------------------------------------------------
(***************************************************************************)
(* The end of the server.                                                  *)
(***************************************************************************)

\* The session's stdio closes, or a signal comes: close_all asks for the map.
Shutdown ==
  /\ pc[Main] = "serve"
  /\ Goto(Main, "close")
  /\ queue' = Append(queue, Main)
  /\ UNCHANGED <<to, child, links, procs, record, target>>

\* close_all ends the links one after the other.
EndOne(h) ==
  /\ pc[Main] = "close" /\ Has(Main)
  /\ links[h] # None
  /\ child' = [child EXCEPT ![Main] = links[h]]
  /\ links' = [links EXCEPT ![h] = None]
  /\ sig' = Signalled(links[h])
  /\ Goto(Main, "wait")
  /\ UNCHANGED <<to, queue, proc, dest, born, births, record, target>>

EndedOne ==
  /\ pc[Main] = "wait"
  /\ Reaped(child[Main])
  /\ child' = [child EXCEPT ![Main] = None]
  /\ Goto(Main, "close")
  /\ UNCHANGED <<to, links, queue, record, target>>

\* close_all returns and lets go of the map; a call that waited for it may still get it.
LetGo ==
  /\ pc[Main] = "close" /\ Has(Main)
  /\ \A h \in Host : links[h] = None
  /\ Goto(Main, "exit")
  /\ queue' = Tail(queue)
  /\ UNCHANGED <<to, child, links, procs, record, target>>

\* Every task is gone, with what it owned.
Gone(how) ==
  /\ pc' = [t \in Task |-> IF t = Main THEN how ELSE "idle"]
  /\ to' = [c \in Call |-> None]
  /\ child' = [t \in Task |-> None]
  /\ links' = [h \in Host |-> None]
  /\ queue' = <<>>
  /\ UNCHANGED <<proc, dest, born, births, record, target>>

\* Mutant: relays are not killed with the Child that stands for them.
ExitLeaving ==
  /\ pc[Main] = "exit"
  /\ Gone("over")
  /\ UNCHANGED sig

\* run has returned: the runtime drops the calls that are left, the map with them, and
\* every Child they own.
Exit ==
  /\ pc[Main] = "exit"
  /\ Gone("over")
  /\ sig' = Dropped({p \in Pid : Held(p)})

\* SIGKILL: nothing is dropped, and the relays are orphans.
Crash ==
  /\ "crash" \in Env
  /\ Serving
  /\ Gone("dead")
  /\ UNCHANGED sig

-----------------------------------------------------------------------------
(***************************************************************************)
(* Relays, as seen from outside.                                           *)
(***************************************************************************)

Becomes(p, s) == proc' = [proc EXCEPT ![p] = s]

\* Link::establish: the record goes up before socket and handlers.
Publish(p) ==
  /\ proc[p] = "start" /\ sig[p] = "none"
  /\ Becomes(p, "shown")
  /\ record' = [record EXCEPT ![p] = born[p]]
  /\ UNCHANGED <<calls, dest, sig, born, births, target>>

Install(p) ==
  /\ proc[p] = "shown" /\ sig[p] = "none"
  /\ Becomes(p, "up")
  /\ UNCHANGED <<calls, dest, sig, born, births, record, target>>

\* The loop breaks, of itself or for the signal, and unpublish removes the record if it
\* is still this process's.
Withdraw(p) ==
  /\ proc[p] = "up" /\ sig[p] # "kill"
  /\ Becomes(p, "bare")
  /\ record' = [record EXCEPT ![p] = IF @ = born[p] THEN 0 ELSE @]
  /\ UNCHANGED <<calls, dest, sig, born, births, target>>

\* The process ends, and its pid stays until somebody waits for it.
Exits(p) ==
  /\ Becomes(p, "zombie")
  /\ sig' = [sig EXCEPT ![p] = "none"]
  /\ UNCHANGED <<calls, dest, born, births, record, target>>

Leave(p) == proc[p] = "bare" /\ Exits(p)

\* An error leaves connect, and whatever was published stays.
Fail(p) ==
  /\ "fail" \in Env
  /\ proc[p] \in {"start", "shown", "up"}
  /\ Exits(p)

\* The signal's default action: SIGKILL at any time, SIGTERM while there is no handler.
Die(p) ==
  /\ \/ sig[p] = "kill" /\ proc[p] \in Running
     \/ sig[p] = "term" /\ proc[p] \in {"start", "shown"}
  /\ Exits(p)

\* Nobody owns the Child any more: tokio's orphan queue, or init, reaps it.
ReapOrphan(p) ==
  /\ ~Held(p)
  /\ Reaped(p)
  /\ UNCHANGED <<calls, record, target>>

\* A pid that is free may be given to a process of somebody else.
Reuse(p) ==
  /\ "reuse" \in Env
  /\ \/ /\ proc[p] = "free" /\ births < MaxBorn
        /\ Becomes(p, "other")
        /\ Birth(p)
     \/ /\ proc[p] = "other"
        /\ Becomes(p, "free")
        /\ UNCHANGED <<born, births>>
  /\ UNCHANGED <<calls, dest, sig, record, target>>

\* The harness removes the record of a process that is gone or is another's.
Sweep(p) ==
  /\ record[p] # 0 /\ ~Listed(p)
  /\ record' = [record EXCEPT ![p] = 0]
  /\ UNCHANGED <<calls, procs, target>>

\* `down`: the one mirror listed for the host is picked...
DownPick(h) ==
  /\ "down" \in Env
  /\ target = None
  /\ \E p \in Pid :
       /\ {q \in Pid : Listed(q) /\ dest[q] = h} = {p}
       /\ target' = p
  /\ UNCHANGED <<calls, procs, record>>

\* ...and then its pid is signalled, whoever has it by now.
DownSignal ==
  /\ target # None
  /\ sig' = Signalled(target)
  /\ proc' = [proc EXCEPT ![target] = IF @ = "other" THEN "free" ELSE @]
  /\ target' = None
  /\ UNCHANGED <<calls, dest, born, births, record>>

-----------------------------------------------------------------------------
Open(c) == Start(c) \/ Decline(c) \/ Find(c) \/ Miss(c) \/ Reap(c) \/ Again(c)
Detach(c) == NoLink(c) \/ Close(c) \/ Closed(c)
CloseAll == EndedOne \/ LetGo \/ Exit \/ \E h \in Host : EndOne(h)
Relay(p) == Publish(p) \/ Install(p) \/ Withdraw(p) \/ Leave(p) \/ Fail(p) \/ Die(p)
Kernel(p) == ReapOrphan(p) \/ Reuse(p)

Next ==
  \/ \E c \in Call, h \in Host : Ask(c, "attach", h) \/ Ask(c, "detach", h)
  \/ \E c \in Call : Open(c) \/ GiveUp(c) \/ Trip(c) \/ Detach(c)
  \/ Shutdown \/ CloseAll \/ Crash
  \/ \E p \in Pid : Relay(p) \/ Kernel(p) \/ Sweep(p)
  \/ DownSignal
  \/ \E h \in Host : DownPick(h)

Spec == Init /\ [][Next]_vars

\* Tasks run, the deadline comes, the kernel delivers and reaps, a relay that was told to
\* end does, and the sweeper sweeps.  A relay need not ever publish.
Fairness ==
  /\ \A c \in Call : WF_vars(Open(c)) /\ SF_vars(GiveUp(c)) /\ WF_vars(Detach(c))
  /\ WF_vars(CloseAll)
  /\ \A p \in Pid :
       /\ WF_vars(Die(p)) /\ WF_vars(sig[p] = "term" /\ Withdraw(p)) /\ WF_vars(Leave(p))
       /\ WF_vars(ReapOrphan(p)) /\ WF_vars(Sweep(p))

FairSpec == Spec /\ Fairness

-----------------------------------------------------------------------------
(***************************************************************************)
(* Properties.                                                             *)
(***************************************************************************)

\* No two relays of this server work on one host at once, however calls overlap and time
\* out (open's contains_key, with the map locked until the child is in it).
OneRelayPerHost ==
  \A p, q \in Pid :
    /\ proc[p] \in Running /\ sig[p] = "none"
    /\ proc[q] \in Running /\ sig[q] = "none"
    /\ dest[p] = dest[q] /\ Serving
    => p = q

\* A relay that has not been told to end has an owner that will: the map, or the call
\* that waits for it (open's error paths drop the Child, which kills it).
NoRelayUnowned ==
  \A p \in Pid :
    proc[p] \in Running /\ sig[p] = "none" /\ pc[Main] # "dead" => Held(p)

\* A mirror that is listed is backed by the very process that wrote it, though its pid
\* may have been used again (the start time in list_live's filter).
ListedIsBacked ==
  \A p \in Pid : Listed(p) => proc[p] # "other"

\* Every call is answered, even for a relay that never publishes and never exits.
Answered ==
  \A c \in Call : pc[c] # "idle" ~> pc[c] = "idle"

\* When the server is over, every mirror of its relays goes from the registry, those of
\* relays that were being started included (close_all and kill_on_drop).
EverythingWithdrawn ==
  pc[Main] = "over" ~> \A p \in Pid : record[p] = 0

-----------------------------------------------------------------------------
(***************************************************************************)
(* What the repository says and the code does not keep.                    *)
(***************************************************************************)

\* mcp.rs:225: a relay is signalled and waited for, "so its mirror is gone before we
\* answer".
GoneBeforeAnswer ==
  [][\A c \in Call :
       pc[c] = "wait" /\ pc'[c] = "idle" /\ Serving' => record'[child[c]] = 0]_vars

\* README.md:73 and docs/design-rationale.md:94: the mirror of a relay that dies is
\* collected by the sweeper, for its pid is dead.
DeadMirrorsCollected ==
  \A p \in Pid : proc[p] = "zombie" ~> record[p] = 0 \/ proc[p] \in Running

=============================================================================
