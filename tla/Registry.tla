------------------------------ MODULE Registry ------------------------------
(***************************************************************************)
(* The registry directory of one machine, as a cc-link command uses it.    *)
(*                                                                         *)
(* Sessions and relays come and go, their pids are used again, records of  *)
(* the dead stay until they are swept, and processes of another pid domain *)
(* that share the directory write there too.  One command reads it: it     *)
(* scans the directory entry by entry for the session to export (connect,  *)
(* serve) or the relay to end (down), and then lives with its choice: it   *)
(* pushes the session's record across, hands it connections, or signals    *)
(* the relay.  The mirrors in the directory are those of other relays; the *)
(* command's own is in Link.                                               *)
(***************************************************************************)
EXTENDS Naturals, FiniteSets, Names

CONSTANTS Pid,          \* pids of this machine
          MaxBorn,      \* processes started
          MaxForeign,   \* records of the other domain
          Destination,  \* what a user may give ssh to connect to
          Unset,        \* an option that is not given
          Setting       \* what may be the case: see below

ASSUME BoundAssumption == MaxBorn \in Nat
ASSUME UnsetAssumption == Unset \notin Pid
ASSUME DestinationAssumption == \A d \in Destination : IsDestination(d)

VARIABLES
  born,         \* processes started so far: the next start time
  proc,         \* start time of the process that has the pid now, 0 for nobody
  kind,         \* what it is
  registered,   \* pids of those that have written their record
  file,         \* record in the file of a pid, with who wrote it
  setting,      \* what is the case throughout
  pc,           \* where it is
  there,        \* names in the directory ever since it was opened
  todo,         \* names readdir has not come to
  cur,          \* the entry that is being looked at: pid and record
  live,         \* entries found live, and how many processes there had been
  target,       \* the entry chosen
  pushed,       \* the record sent across in this step
  task,         \* a stream accepted and not dialled: who was registered then
  handed,       \* who is given a connection in this step, and who was registered when it came
  hit,          \* the process signalled
  steady,       \* pids that were live and wanted all through the scan
  ever          \* pids that were at any time of it

machine == <<born, proc, kind, registered>>
outside == <<machine, file>>
scan == <<todo, cur, live>>
vars == <<outside, setting, pc, there, scan, target, pushed, task, handed, hit, steady, ever>>

(***************************************************************************)
(* A setting has the domain in the records of sessions (this one, or none  *)
(* in older builds), the names they may have, the links that relays here   *)
(* may be of (label and host of the destination, name of the session       *)
(* mirrored, what is exported in return), and the command.                 *)
(***************************************************************************)
ASSUME SettingAssumption ==
  \A s \in Setting : s.build \in {"here", "none"} /\ \A m \in s.links : m.name \in s.names

cmd == setting.cmd
Name == setting.names
Remote == setting.links

NoRecord == [start |-> 0, domain |-> "", stub |-> FALSE, name |-> Unset, link |-> Unset, by |-> ""]
NoEntry == [pid |-> Unset, rec |-> NoRecord, at |-> 0]
NoTask == [open |-> FALSE, before |-> 0]
Nobody == [to |-> 0, before |-> 0]
Quiet == pushed' = NoRecord /\ handed' = Nobody

Present == {p \in Pid : file[p] # NoRecord}

-----------------------------------------------------------------------------
(***************************************************************************)
(* What a reader makes of a record.                                        *)
(***************************************************************************)

\* Mutant: a pid that exists is enough.
MatchesPid(p, r) == r # NoRecord /\ proc[p] # 0 /\ r.domain # "there"

\* The process a record tells of is there: its start time is the one recorded, and its domain,
\* where there is one, is this one.
Matches(p, r) == r # NoRecord /\ proc[p] # 0 /\ r.start = proc[p] /\ r.domain # "there"

\* Mirror::matches_mirror: by its name, prefixed or not.
MatchesMirror(r, s) == s \in {<<r.link.label, r.name>>, <<r.name>>}

\* What the command is looking for; comm tells a relay by its process.
Wanted(p, r) ==
  \/ /\ cmd.verb = "connect"
     /\ ~r.stub /\ kind[p] # "relay"
     /\ cmd.session \in {Unset, p, <<r.name>>}
  \/ /\ cmd.verb = "down"
     /\ r.stub
     /\ cmd.host \in {Unset, r.link.host}
     /\ cmd.session = Unset \/ MatchesMirror(r, cmd.session)
     /\ cmd.exports \in {Unset, r.link.exports}

\* Mutant: the start times are not compared.
ValidByPid ==
  LET r == file[target.pid] IN r # NoRecord /\ r.domain = target.rec.domain

\* validate_target: the record in the file is still of the process that was chosen.
Valid ==
  LET r == file[target.pid]
  IN r # NoRecord /\ r.start = target.rec.start /\ r.domain = target.rec.domain

-----------------------------------------------------------------------------
(***************************************************************************)
(* The processes of the machine and of its neighbour.                      *)
(***************************************************************************)

\* A process starts under a free pid, whoever had it before.
Start(p) ==
  /\ proc[p] = 0 /\ born < MaxBorn
  /\ born' = born + 1
  /\ proc' = [proc EXCEPT ![p] = born']
  /\ \E k \in {"session", "relay"} : kind' = [kind EXCEPT ![p] = k]
  /\ UNCHANGED <<registered, file>>

Write(p, r) ==
  /\ file' = [file EXCEPT ![p] = r]
  /\ registered' = registered \cup {p}
  /\ UNCHANGED <<born, proc, kind>>

\* A session writes its record, with the name it has by then.
SessionWrite(p) ==
  /\ kind[p] = "session"
  /\ \E n \in Name :
       Write(p, [start |-> proc[p], domain |-> setting.build, stub |-> FALSE, name |-> n,
                 link |-> Unset, by |-> "session"])

\* Mutant: the record is as the peer sent it, on the relay's process.
MirrorUnmarked(p, m) ==
  [start |-> proc[p], domain |-> "here", stub |-> FALSE, name |-> m.name, link |-> m, by |-> "relay"]

\* synth_record: the process fields of the relay, the name of the peer's session, the marker,
\* the destination and what the link exports in return.
Mirror(p, m) ==
  [start |-> proc[p], domain |-> "here", stub |-> TRUE, name |-> m.name, link |-> m, by |-> "relay"]

\* publish, and write_record when the peer's session has changed.
Publish(p) ==
  /\ kind[p] = "relay"
  /\ \E m \in Remote : Write(p, Mirror(p, m))

Gone(p) ==
  /\ proc' = [proc EXCEPT ![p] = 0]
  /\ kind' = [kind EXCEPT ![p] = "none"]
  /\ registered' = registered \ {p}
  /\ UNCHANGED born

\* A process ends in order, and takes its record with it; unpublish looks whether it is its own.
Leave(p) ==
  /\ proc[p] # 0
  /\ file' = [file EXCEPT ![p] = IF @.start = proc[p] THEN NoRecord ELSE @]
  /\ Gone(p)

Crash(p) ==
  /\ proc[p] # 0
  /\ Gone(p)
  /\ UNCHANGED file

\* The harness removes the record of a process that is gone.
Sweep(p) ==
  /\ file[p] # NoRecord /\ file[p].start # proc[p]
  /\ file' = [file EXCEPT ![p] = NoRecord]
  /\ UNCHANGED machine

\* A process of another domain has this pid there, and writes its record here.  Its start time
\* may be the one in the record it replaces, unless it leaves out its domain.  At most
\* MaxForeign such records are there at a time.
ForeignWrite(p) ==
  /\ Cardinality({q \in Pid : file[q].by = "foreign"}) < MaxForeign
  /\ \E b \in {file[p].start, MaxBorn + 1} \ {0} :
       file' = [file EXCEPT ![p] =
                  [start |-> b, domain |-> IF b > MaxBorn THEN "none" ELSE "there",
                   stub |-> FALSE, name |-> Unset, link |-> Unset, by |-> "foreign"]]
  /\ UNCHANGED machine

\* What the command has to do with: once it has chosen, the pid of its choice.
Watched == IF pc \in {"link", "signal"} THEN {target.pid} ELSE Pid

Around ==
  \E p \in Watched :
    \/ Start(p) \/ SessionWrite(p) \/ Publish(p) \/ Leave(p) \/ Crash(p)
    \/ Sweep(p) \/ ForeignWrite(p)

-----------------------------------------------------------------------------
(***************************************************************************)
(* The command.                                                            *)
(***************************************************************************)

\* list_live opens the directory.
Open ==
  /\ pc = "start"
  /\ pc' = "scan"
  /\ todo' = Pid
  /\ Quiet /\ UNCHANGED <<outside, setting, cur, live, target, task, hit>>

\* Mutant: a file that is not there gives an empty record.
EntryEmpty(p) ==
  /\ pc = "scan" /\ cur = NoEntry /\ p \in todo
  /\ todo' = todo \ {p}
  /\ cur' = [pid |-> p, rec |-> file[p], at |-> 0]
  /\ Quiet /\ UNCHANGED <<outside, setting, pc, live, target, task, hit>>

\* readdir comes to a name, or passes over one that was not there all the time; the pid is alive
\* and the record is read, or they are not.
Entry(p) ==
  /\ pc = "scan" /\ cur = NoEntry /\ p \in todo
  /\ todo' = todo \ {p}
  /\ \/ /\ p \notin there \/ proc[p] = 0
        /\ UNCHANGED cur
     \/ /\ file[p] # NoRecord /\ proc[p] # 0
        /\ cur' = [pid |-> p, rec |-> file[p], at |-> 0]
  /\ Quiet /\ UNCHANGED <<outside, setting, pc, live, target, task, hit>>

Seen == [pid |-> cur.pid, rec |-> cur.rec, at |-> born]

\* Mutant: what was found before is forgotten.
JudgeForgetting ==
  /\ pc = "scan" /\ cur # NoEntry
  /\ cur' = NoEntry
  /\ live' = IF Matches(cur.pid, cur.rec) THEN {Seen} ELSE {}
  /\ Quiet /\ UNCHANGED <<outside, setting, pc, todo, target, task, hit>>

\* The start time of whoever has the pid by now, against the one in the record that was read.
Judge ==
  /\ pc = "scan" /\ cur # NoEntry
  /\ cur' = NoEntry
  /\ live' = IF Matches(cur.pid, cur.rec) THEN live \cup {Seen} ELSE live
  /\ Quiet /\ UNCHANGED <<outside, setting, pc, todo, target, task, hit>>

\* Mutant: the first that fits.
SoleAny(c, all) == c \in all

\* The one that fits, when there is one.
Sole(c, all) == all = {c}

\* resolve_exportable_session, and down: the entries are filtered, and one must be left.
Pick ==
  /\ pc = "scan" /\ todo = {} /\ cur = NoEntry
  /\ LET fits == {c \in live : Wanted(c.pid, c.rec)} IN
     \/ \E c \in fits :
          /\ Sole(c, fits)
          /\ target' = c
          /\ pc' = IF cmd.verb = "down" THEN "signal" ELSE "link"
     \/ /\ \A c \in fits : ~Sole(c, fits)
        /\ pc' = "refused"
        /\ UNCHANGED target
  /\ live' = {}
  /\ Quiet /\ UNCHANGED <<outside, setting, todo, cur, task, hit>>

\* down: whoever has the pid now.
Signal ==
  /\ pc = "signal"
  /\ hit' = proc[target.pid]
  /\ pc' = "done"
  /\ Quiet /\ UNCHANGED <<outside, setting, scan, target, task>>

\* The directory has changed: the record goes across as it is now, or the link ends.
Push ==
  /\ pc = "link"
  /\ \/ /\ Valid
        /\ pushed' = file[target.pid]
        /\ UNCHANGED pc
     \/ /\ ~Valid
        /\ pc' = "done"
        /\ pushed' = NoRecord
  /\ handed' = Nobody
  /\ UNCHANGED <<outside, setting, scan, target, task, hit>>

\* Who has registered under the pid of the session.
Known == IF target.pid \in registered THEN proc[target.pid] ELSE 0

\* Mutant: the session is not looked at.
AcceptUnchecked ==
  /\ pc = "link" /\ ~task.open
  /\ task' = [open |-> TRUE, before |-> Known]
  /\ Quiet /\ UNCHANGED <<outside, setting, pc, scan, target, hit>>

\* A stream from the far end: a task is given the session's socket, or run fails.
Accept ==
  /\ pc = "link" /\ ~task.open
  /\ \/ /\ Valid
        /\ task' = [open |-> TRUE, before |-> Known]
        /\ UNCHANGED pc
     \/ /\ ~Valid
        /\ pc' = "done"
        /\ UNCHANGED task
  /\ Quiet /\ UNCHANGED <<outside, setting, scan, target, hit>>

\* deliver: the first line of the stream has come, and it dials the socket that belongs to the
\* pid.  Whoever has the pid now may have bound it, or nobody listens.
Dial ==
  /\ pc = "link" /\ task.open
  /\ task' = NoTask
  /\ \E q \in {0, proc[target.pid]} : handed' = [to |-> q, before |-> task.before]
  /\ pushed' = NoRecord
  /\ UNCHANGED <<outside, setting, pc, scan, target, hit>>

Doing ==
  \/ Open \/ Judge \/ Pick \/ Signal \/ Push \/ Accept \/ Dial
  \/ \E p \in Pid : Entry(p)

\* Live and wanted, in truth.
Fitting == {p \in Pid : Matches(p, file[p]) /\ Wanted(p, file[p])}

Init ==
  /\ born = 0 /\ proc = [p \in Pid |-> 0] /\ kind = [p \in Pid |-> "none"] /\ registered = {}
  /\ file = [p \in Pid |-> NoRecord]
  /\ setting \in Setting /\ pc = "start"
  /\ there = {} /\ todo = {} /\ cur = NoEntry /\ live = {}
  /\ target = NoEntry
  /\ pushed = NoRecord /\ task = NoTask /\ handed = Nobody
  /\ hit = 0 /\ steady = {} /\ ever = {}

\* What an open directory stream is sure to return: the names that never went away.
Stream ==
  there' = IF pc' # "scan" THEN {} ELSE IF pc = "scan" THEN there \cap Present' ELSE Present

\* What an onlooker sees of the directory while it is scanned.
Onlooker ==
  \/ /\ pc = "start" /\ pc' = "scan"
     /\ steady' = Fitting /\ ever' = Fitting
  \/ /\ pc = "scan"
     /\ steady' = steady \cap Fitting' /\ ever' = ever \cup Fitting'
  \/ /\ pc # "scan" /\ pc' # "scan"
     /\ steady' = {} /\ ever' = {}

Next ==
  /\ \/ /\ pc \notin {"refused", "done"}
        /\ Around
        /\ Quiet /\ UNCHANGED <<setting, pc, scan, target, task, hit>>
     \/ Doing
  /\ Stream /\ Onlooker

Spec == Init /\ [][Next]_vars

-----------------------------------------------------------------------------
(***************************************************************************)
(* Properties.                                                             *)
(***************************************************************************)

Times == 0..MaxBorn

Records ==
  {NoRecord} \cup
  [start : 1..MaxBorn + 1, domain : {"here", "there", "none"}, stub : BOOLEAN,
   name : Name \cup {Unset}, link : Remote \cup {Unset}, by : {"session", "relay", "foreign"}]

Entries == [pid : Pid, rec : Records \ {NoRecord}, at : Times]
Tasks == [open : BOOLEAN, before : Times]
Hands == [to : Times, before : Times]

TypeOK ==
  /\ born \in Times
  /\ proc \in [Pid -> 0..born] /\ kind \in [Pid -> {"none", "session", "relay"}]
  /\ registered \subseteq Pid
  /\ file \in [Pid -> Records]
  /\ setting \in Setting
  /\ pc \in {"start", "scan", "refused", "link", "signal", "done"}
  /\ there \subseteq Pid /\ todo \subseteq Pid
  /\ cur \in Entries \cup {NoEntry} /\ live \subseteq Entries /\ target \in Entries \cup {NoEntry}
  /\ pushed \in Records
  /\ task \in Tasks /\ handed \in Hands
  /\ hit \in Times
  /\ steady \subseteq Pid /\ ever \subseteq Pid

\* A link never exports a mirror, though pids are used again between a record and the look at
\* its process (resolve_exportable_session: "a mirror is never exportable").
NoChain == pc = "link" => target.rec.by = "session"

\* Every record sent across was written by the process the link was first pointed at, whoever
\* has had its pid since, here or in the other domain (validate_target).
PushedPinned ==
  pushed # NoRecord => pushed.by = "session" /\ pushed.start = target.rec.start

\* A connection is handed to the process the link was pointed at, or else to one that had not
\* registered when the stream was accepted: between validate_target and the dial of deliver the
\* socket may have changed hands, but never to a session that was known before.
HandedToPinned ==
  handed.to \in {0, target.rec.start} \/ handed.to # handed.before

\* `down` never signals a process that was there when the mirror was looked at, other than the
\* mirror's relay: only a pid used again since could be hit.
SignalsTheRelay == hit \in {0, target.rec.start} \/ hit > target.at

\* The choice is the only one there was: a second session or mirror that was live and fit all
\* through the scan is not overlooked, in whatever order the entries came and whatever else
\* appeared and vanished ("several matches with no selector is a refusal").
ChoiceIsSole == pc \in {"link", "signal"} => steady \subseteq {target.pid}

\* And it is found: a command is refused only if nothing fit all the time, or not alone.
SoleIsFound == pc = "refused" => \A p \in Pid : ~(steady = {p} /\ ever = {p})

\* The label in a mirror's name is the host of the destination, without user, scheme, port and
\* brackets, and fit for a name - but for a scheme without a user, which the label keeps
\* (host_label).
LabelIsHost ==
  pc = "start" /\ born = 0 =>
    \A d \in Destination :
      (d.scheme => d.user # <<>>) =>
        HostLabel(Written(d)) = IF d.host = <<>> THEN <<"peer">> ELSE Sanitized(d.host)

=============================================================================
