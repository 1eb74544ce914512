--------------------------- MODULE RegistryProofs ---------------------------
(***************************************************************************)
(* Proofs about Registry: whatever the directory does while it is read,    *)
(* the choice is the sole candidate and never a mirror, and what follows   *)
(* goes to the process that was chosen.                                    *)
(***************************************************************************)
EXTENDS Registry, NamesProofs, TLAPS

Writer == {"session", "relay"}

\* What a record says agrees with who wrote it; a foreign one does not pass for one from here.
Genuine(r) ==
  /\ r.by = "session" => ~r.stub /\ r.domain = setting.build /\ r.start \in 1..born
  /\ r.by = "relay" => r.stub /\ r.domain = "here" /\ r.start \in 1..born
  /\ r.by = "foreign" => r.domain = "there" \/ r.start = MaxBorn + 1
  /\ r # NoRecord => r.by \in Writer \cup {"foreign"}

\* One start time under one pid is one process.
Same(p, r) ==
  r.by \in Writer =>
    /\ r.start = proc[p] => r.by = kind[p]
    /\ file[p].by \in Writer /\ file[p].start = r.start => file[p].by = r.by

\* Records, wherever they are, and processes.
Identity ==
  /\ \A p \in Pid : (proc[p] = 0 <=> kind[p] = "none") /\ Genuine(file[p]) /\ Same(p, file[p])
  /\ \A p \in registered : proc[p] # 0 /\ (file[p].by \in Writer => file[p].start = proc[p])
  /\ \A c \in live \cup {cur, target} : c # NoEntry => Genuine(c.rec) /\ Same(c.pid, c.rec)

\* An entry that was found live: from here, and of whoever had the pid then.
Judged(c) ==
  /\ c.rec.domain # "there" /\ c.rec.start # MaxBorn + 1 /\ c.at <= born
  /\ proc[c.pid] \in {0, c.rec.start} \/ proc[c.pid] > c.at

Chosen ==
  /\ \A c \in live : Judged(c)
  /\ target # NoEntry => Judged(target)
  /\ pc \in {"link", "signal"} => target # NoEntry
  /\ pc \in {"start", "scan"} => target = NoEntry /\ task = NoTask
  /\ pc # "done" => hit = 0
  /\ task.before \in {0, target.rec.start}
  /\ NoChain /\ PushedPinned /\ HandedToPinned /\ SignalsTheRelay

\* What the command asks of the record alone.
Asked(p, r) ==
  \/ /\ cmd.verb = "connect"
     /\ ~r.stub
     /\ cmd.session \in {Unset, p, <<r.name>>}
  \/ /\ cmd.verb = "down"
     /\ r.stub
     /\ cmd.host \in {Unset, r.link.host}
     /\ cmd.session = Unset \/ MatchesMirror(r, cmd.session)
     /\ cmd.exports \in {Unset, r.link.exports}

Fits(e) == Matches(e.pid, e.rec) /\ Wanted(e.pid, e.rec)

\* An entry that the steady ones count on, and those that may be chosen.
Found(p) == \E e \in live \cup {cur} : e # NoEntry /\ e.pid = p /\ Fits(e)
Noticed(e) == Asked(e.pid, e.rec) => e.pid \in ever

\* The scan so far, against what an onlooker has seen.
Progress ==
  /\ steady \subseteq there /\ there \subseteq Present /\ steady \subseteq Fitting
  /\ \A p \in steady : p \in todo \/ Found(p)
  /\ \A e \in live \cup {cur} : e # NoEntry => e.pid \notin todo
  /\ \A c, d \in live : c.pid = d.pid => c = d
  /\ \A c \in live : (cur # NoEntry => c.pid # cur.pid) /\ Noticed(c)
  /\ cur # NoEntry /\ Matches(cur.pid, cur.rec) => Noticed(cur)

Scanned ==
  /\ pc = "scan" => Progress
  /\ pc # "scan" => cur = NoEntry /\ live = {}
  /\ ChoiceIsSole /\ SoleIsFound

IInv == TypeOK /\ Identity /\ Chosen /\ Scanned

-----------------------------------------------------------------------------
LEMMA NoRecordFacts ==
  NoRecord \in Records /\ NoRecord.by = "" /\ NoRecord.start = 0
BY DEF NoRecord, Records

LEMMA StartsAreTimes ==
  ASSUME NEW r \in Records PROVE r.start \in 0..MaxBorn + 1
<1>1. CASE r = NoRecord
  <2>1. r.start = 0 BY <1>1, NoRecordFacts
  <2> QED BY <2>1, BoundAssumption
<1>2. CASE r # NoRecord
  <2>1. r.start \in 1..MaxBorn + 1
    BY <1>2 DEF Records
  <2> QED BY <2>1, BoundAssumption
<1> QED BY <1>1, <1>2

LEMMA EntriesAreReal ==
  ASSUME NEW e \in Entries PROVE e # NoEntry /\ e.rec # NoRecord /\ e.rec \in Records /\ e.pid \in Pid
BY UnsetAssumption DEF Entries, NoEntry

LEMMA InitHolds == Init => IInv
<1> SUFFICES ASSUME Init PROVE IInv OBVIOUS
<1>1. TypeOK
  <2>1. 0 \in Times BY BoundAssumption DEF Times
  <2>2. NoTask \in Tasks /\ Nobody \in Hands
    BY <2>1 DEF NoTask, Nobody, Tasks, Hands
  <2>3. born \in Times /\ proc \in [Pid -> 0..born] /\ hit \in Times BY <2>1 DEF Init
  <2>4. kind \in [Pid -> {"none", "session", "relay"}] /\ registered \subseteq Pid BY DEF Init
  <2>5. file \in [Pid -> Records] /\ pushed \in Records BY NoRecordFacts DEF Init
  <2> QED BY <2>2, <2>3, <2>4, <2>5 DEF Init, TypeOK
<1>2. Identity
  BY DEF Init, Identity, Genuine, Same, NoRecord, NoEntry, Writer
<1>3. Chosen
  BY DEF Init, Chosen, NoChain, PushedPinned, HandedToPinned, SignalsTheRelay, NoTask, Nobody,
         NoEntry, NoRecord
<1>4. Scanned
  BY DEF Init, Scanned, Progress, ChoiceIsSole, SoleIsFound
<1> QED BY <1>1, <1>2, <1>3, <1>4 DEF IInv

-----------------------------------------------------------------------------
(***************************************************************************)
(* Type correctness.                                                       *)
(***************************************************************************)

\* What happens to a pid: nothing, a process starts, or it ends.
ProcStep(p) ==
  \/ /\ proc'[p] = proc[p] /\ kind'[p] = kind[p]
     /\ p \in registered' => p \in registered \/ file'[p].start = proc[p]
     /\ p \in registered' => proc[p] # 0
  \/ /\ proc[p] = 0 /\ proc'[p] = born + 1 /\ kind'[p] # "none"
     /\ born' = born + 1 /\ registered' = registered /\ file' = file
  \/ /\ proc'[p] = 0 /\ kind'[p] = "none" /\ p \notin registered'

\* What happens to the file of a pid: nothing, it goes, or somebody writes it.
FileStep(p) ==
  \/ file'[p] = file[p]
  \/ file'[p] = NoRecord
  \/ /\ proc'[p] = proc[p] /\ kind'[p] = kind[p] /\ proc[p] # 0
     /\ file'[p] # NoRecord /\ file'[p].start = proc[p] /\ file'[p].by = kind[p]
     /\ file'[p].stub = (kind[p] = "relay")
     /\ file'[p].domain = IF kind[p] = "relay" THEN "here" ELSE setting.build
  \/ /\ proc'[p] = proc[p] /\ kind'[p] = kind[p]
     /\ registered' = registered
     /\ file'[p] # NoRecord /\ file'[p].by = "foreign" /\ ~file'[p].stub
     /\ file'[p].domain = "there" \/ file'[p].start = MaxBorn + 1

Machine ==
  /\ born' \in Times /\ born' >= born
  /\ proc' \in [Pid -> 0..born'] /\ kind' \in [Pid -> {"none", "session", "relay"}]
  /\ registered' \subseteq Pid /\ file' \in [Pid -> Records]

\* The kinds and the processes of a pid go together.
Kinds ==
  /\ \A p \in Pid : proc[p] = 0 <=> kind[p] = "none"
  /\ \A p \in registered : proc[p] # 0

MachineType ==
  /\ born \in Times
  /\ proc \in [Pid -> 0..born] /\ kind \in [Pid -> {"none", "session", "relay"}]
  /\ registered \subseteq Pid /\ file \in [Pid -> Records] /\ setting \in Setting

LEMMA Surroundings ==
  ASSUME MachineType, Kinds, NEW q \in Pid, setting' = setting,
         \/ Start(q) \/ SessionWrite(q) \/ Publish(q) \/ Leave(q) \/ Crash(q)
         \/ Sweep(q) \/ ForeignWrite(q)
  PROVE  Machine /\ \A p \in Pid : ProcStep(p) /\ FileStep(p)
<1> USE DEF MachineType
<1>1. CASE Start(q)
  <2>1. born' \in Times /\ born' = born + 1 /\ born \in Nat
    BY <1>1, BoundAssumption DEF Start, Times
  <2>2. proc' = [proc EXCEPT ![q] = born'] /\ proc[q] = 0 /\ UNCHANGED <<registered, file>>
    BY <1>1 DEF Start
  <2>3. PICK k \in {"session", "relay"} : kind' = [kind EXCEPT ![q] = k]
    BY <1>1 DEF Start
  <2>4. Machine
    BY <2>1, <2>2, <2>3 DEF Machine
  <2>5. \A p \in Pid : ProcStep(p)
    BY <2>1, <2>2, <2>3 DEF ProcStep, Kinds
  <2>6. \A p \in Pid : FileStep(p)
    BY <2>2 DEF FileStep
  <2> QED BY <2>4, <2>5, <2>6
<1>2. ASSUME NEW r \in Records, Write(q, r), proc[q] # 0,
             r # NoRecord, r.start = proc[q], r.by = kind[q], r.stub = (kind[q] = "relay"),
             r.domain = IF kind[q] = "relay" THEN "here" ELSE setting.build
      PROVE  Machine /\ \A p \in Pid : ProcStep(p) /\ FileStep(p)
  <2>1. /\ file' = [file EXCEPT ![q] = r] /\ registered' = registered \cup {q}
        /\ born' = born /\ proc' = proc /\ kind' = kind
    BY <1>2 DEF Write
  <2>2. Machine
    BY <2>1, BoundAssumption DEF Machine, Times
  <2>3. \A p \in Pid : ProcStep(p)
    BY <2>1, <1>2 DEF ProcStep, Kinds
  <2>4. \A p \in Pid : FileStep(p)
    BY <2>1, <1>2 DEF FileStep
  <2> QED BY <2>2, <2>3, <2>4
<1>3. CASE SessionWrite(q)
  <2>1. PICK n \in Name :
          Write(q, [start |-> proc[q], domain |-> setting.build, stub |-> FALSE, name |-> n,
                    link |-> Unset, by |-> "session"])
    BY <1>3 DEF SessionWrite
  <2>2. kind[q] = "session" /\ proc[q] # 0 /\ proc[q] \in 1..MaxBorn + 1
    BY <1>3, BoundAssumption DEF SessionWrite, Kinds, Times
  <2> DEFINE r == [start |-> proc[q], domain |-> setting.build, stub |-> FALSE, name |-> n,
                   link |-> Unset, by |-> "session"]
  <2>3. setting.build \in {"here", "none"}
    BY SettingAssumption
  <2>4. r \in Records /\ r # NoRecord
    BY <2>2, <2>3 DEF Records, NoRecord
  <2> QED BY <2>1, <2>2, <2>4, <1>2
<1>4. CASE Publish(q)
  <2>1. PICK m \in Remote : Write(q, Mirror(q, m))
    BY <1>4 DEF Publish
  <2>2. kind[q] = "relay" /\ proc[q] # 0 /\ proc[q] \in 1..MaxBorn + 1
    BY <1>4, BoundAssumption DEF Publish, Kinds, Times
  <2>3. m.name \in Name
    BY SettingAssumption DEF Name, Remote
  <2>4. Mirror(q, m) \in Records /\ Mirror(q, m) # NoRecord
    BY <2>2, <2>3 DEF Records, NoRecord, Mirror
  <2> QED BY <2>1, <2>2, <2>4, <1>2 DEF Mirror
<1>5. ASSUME Gone(q), file' = file \/ file' = [file EXCEPT ![q] = NoRecord]
      PROVE  Machine /\ \A p \in Pid : ProcStep(p) /\ FileStep(p)
  <2>a. file' \in [Pid -> Records]
    BY <1>5, NoRecordFacts
  <2>b. born' \in Times /\ born' >= born /\ registered' \subseteq Pid
    BY <1>5, BoundAssumption DEF Gone, Times
  <2>c. proc' \in [Pid -> 0..born'] /\ kind' \in [Pid -> {"none", "session", "relay"}]
    BY <1>5, BoundAssumption DEF Gone, Times
  <2>1. Machine
    BY <2>a, <2>b, <2>c DEF Machine
  <2>2. \A p \in Pid : ProcStep(p)
    BY <1>5 DEF Gone, ProcStep, Kinds
  <2>3. \A p \in Pid : FileStep(p)
    BY <1>5 DEF FileStep
  <2> QED BY <2>1, <2>2, <2>3
<1>6. CASE Leave(q) \/ Crash(q)
  <2>1. Gone(q) /\ (file' = file \/ file' = [file EXCEPT ![q] = NoRecord])
    BY <1>6 DEF Leave, Crash
  <2> QED BY <2>1, <1>5
<1>7. CASE Sweep(q)
  <2>1. UNCHANGED machine /\ file' = [file EXCEPT ![q] = NoRecord]
    BY <1>7 DEF Sweep
  <2>a. file' \in [Pid -> Records]
    BY <2>1, NoRecordFacts
  <2>2. Machine
    BY <2>1, <2>a, BoundAssumption DEF machine, Machine, Times
  <2>3. \A p \in Pid : ProcStep(p)
    BY <2>1 DEF machine, ProcStep, Kinds
  <2>4. \A p \in Pid : FileStep(p)
    BY <2>1 DEF machine, FileStep
  <2> QED BY <2>2, <2>3, <2>4
<1>8. CASE ForeignWrite(q)
  <2>1. PICK b \in {file[q].start, MaxBorn + 1} \ {0} :
          file' = [file EXCEPT ![q] =
                     [start |-> b, domain |-> IF b > MaxBorn THEN "none" ELSE "there",
                      stub |-> FALSE, name |-> Unset, link |-> Unset, by |-> "foreign"]]
    BY <1>8 DEF ForeignWrite
  <2>2. UNCHANGED machine
    BY <1>8 DEF ForeignWrite
  <2> DEFINE r == [start |-> b, domain |-> IF b > MaxBorn THEN "none" ELSE "there",
                   stub |-> FALSE, name |-> Unset, link |-> Unset, by |-> "foreign"]
  <2>a. file[q] \in Records
    BY DEF MachineType
  <2>b. file[q].start \in 0..MaxBorn + 1
    BY <2>a, StartsAreTimes
  <2>3. b \in 1..MaxBorn + 1
    BY <2>1, <2>b, BoundAssumption
  <2> DEFINE d == IF b > MaxBorn THEN "none" ELSE "there"
  <2>c. d \in {"none", "there"} /\ (d = "there" \/ b = MaxBorn + 1)
    BY <2>3, BoundAssumption
  <2>d. r = [start |-> b, domain |-> d, stub |-> FALSE, name |-> Unset, link |-> Unset,
             by |-> "foreign"]
    OBVIOUS
  <2> HIDE DEF d, r
  <2>e. r \in Records
    BY <2>3, <2>c, <2>d DEF Records
  <2>f. r.by = "foreign" /\ ~r.stub /\ r.domain = d /\ r.start = b
    BY <2>d
  <2>4. r # NoRecord /\ r.by = "foreign" /\ ~r.stub
        /\ (r.domain = "there" \/ r.start = MaxBorn + 1)
    BY <2>c, <2>f, NoRecordFacts
  <2>5. file' = [file EXCEPT ![q] = r] BY <2>1 DEF r
  <2>6. Machine
    BY <2>2, <2>e, <2>5, BoundAssumption DEF machine, Machine, Times
  <2>7. \A p \in Pid : ProcStep(p)
    BY <2>2 DEF machine, ProcStep, Kinds
  <2>8. \A p \in Pid : FileStep(p)
    BY <2>2, <2>4, <2>5 DEF machine, FileStep
  <2> QED BY <2>6, <2>7, <2>8
<1> QED BY <1>1, <1>3, <1>4, <1>6, <1>7, <1>8

\* What a step does to the machine and the directory.
OutsideStep == setting' = setting /\ Machine /\ \A p \in Pid : ProcStep(p) /\ FileStep(p)

\* The ways a step goes on, beside Stream and Onlooker.
Env == Around /\ Quiet /\ UNCHANGED <<setting, pc, scan, target, task, hit>>
Acts == Env \/ Doing \/ UNCHANGED vars

LEMMA StepActs == [Next]_vars => Acts /\ (UNCHANGED vars \/ (Stream /\ Onlooker))
BY DEF Next, Acts, Env

LEMMA MachineHolds == IInv => MachineType /\ Kinds
BY DEF IInv, TypeOK, Identity, MachineType, Kinds

LEMMA TargetIsReal == IInv /\ pc \in {"link", "signal"} => target \in Entries /\ target.pid \in Pid
BY EntriesAreReal DEF IInv, TypeOK, Chosen

LEMMA Unmoved ==
  ASSUME MachineType, Kinds, UNCHANGED <<outside, setting>>
  PROVE  OutsideStep
<1>1. UNCHANGED <<born, proc, kind, registered, file, setting>>
  BY DEF outside, machine
<1>2. Machine
  BY <1>1, BoundAssumption DEF Machine, MachineType, Times
<1>3. \A p \in Pid : ProcStep(p)
  BY <1>1 DEF ProcStep, Kinds
<1>4. \A p \in Pid : FileStep(p)
  BY <1>1 DEF FileStep
<1> QED BY <1>1, <1>2, <1>3, <1>4 DEF OutsideStep

LEMMA DoingIsInside == Doing => UNCHANGED <<outside, setting>>
BY DEF Doing, Open, Entry, Judge, Pick, Signal, Push, Accept, Dial

LEMMA Outside == IInv /\ [Next]_vars => OutsideStep
<1> SUFFICES ASSUME IInv, [Next]_vars PROVE OutsideStep
  OBVIOUS
<1>1. MachineType /\ Kinds BY MachineHolds
<1>2. CASE Env
  <2>1. PICK q \in Watched :
          \/ Start(q) \/ SessionWrite(q) \/ Publish(q) \/ Leave(q) \/ Crash(q)
          \/ Sweep(q) \/ ForeignWrite(q)
    BY <1>2 DEF Env, Around
  <2>2. q \in Pid
    BY TargetIsReal DEF Watched
  <2>3. setting' = setting
    BY <1>2 DEF Env
  <2> QED BY <1>1, <2>1, <2>2, <2>3, Surroundings DEF OutsideStep
<1>3. CASE Doing
  BY <1>1, <1>3, Unmoved, DoingIsInside
<1>4. CASE UNCHANGED vars
  BY <1>1, <1>4, Unmoved DEF vars
<1> QED BY <1>2, <1>3, <1>4, StepActs DEF Acts

-----------------------------------------------------------------------------
(***************************************************************************)
(* Records and processes.                                                  *)
(***************************************************************************)

\* An entry that tells the truth about who wrote it still does after a step.
LEMMA TruthStays ==
  ASSUME IInv, OutsideStep, NEW p \in Pid, NEW r \in Records, Genuine(r), Same(p, r)
  PROVE  Genuine(r)' /\ Same(p, r)'
<1>1. ProcStep(p) /\ FileStep(p) /\ setting' = setting
  BY DEF OutsideStep
<1>2. born' >= born /\ born \in Nat /\ born' \in Nat /\ born' <= MaxBorn
  BY BoundAssumption DEF OutsideStep, Machine, IInv, TypeOK, Times
<1>3. Genuine(r)'
  BY <1>1, <1>2, StartsAreTimes, BoundAssumption DEF Genuine
<1>4. ASSUME r.by \in Writer PROVE r.start \in 1..born
  BY <1>4 DEF Genuine, Writer
<1>5. proc[p] = 0 <=> kind[p] = "none"
  BY DEF IInv, Identity
<1>6. ASSUME r.by \in Writer, r.start = proc'[p] PROVE r.by = kind'[p]
  <2>1. r.start # born + 1 /\ r.start # 0 BY <1>4, <1>6, <1>2
  <2> QED BY <1>1, <1>6, <2>1 DEF ProcStep, Same
<1>7. ASSUME r.by \in Writer, file'[p].by \in Writer, file'[p].start = r.start
      PROVE  file'[p].by = r.by
  <2>1. CASE file'[p] = file[p] BY <2>1, <1>7 DEF Same
  <2>2. CASE file'[p] = NoRecord BY <2>2, <1>7, NoRecordFacts DEF Writer
  <2>3. CASE file'[p].start = proc[p] /\ file'[p].by = kind[p]
    BY <2>3, <1>7 DEF Same
  <2>4. CASE file'[p].by = "foreign" BY <2>4, <1>7 DEF Writer
  <2> QED BY <1>1, <2>1, <2>2, <2>3, <2>4 DEF FileStep
<1> QED BY <1>3, <1>6, <1>7 DEF Same

LEMMA FilesTell ==
  ASSUME IInv, OutsideStep, NEW p \in Pid
  PROVE  /\ (proc'[p] = 0 <=> kind'[p] = "none")
         /\ Genuine(file[p])' /\ Same(p, file[p])'
<1>1. ProcStep(p) /\ FileStep(p) /\ setting' = setting
  BY DEF OutsideStep
<1>2. born' >= born /\ born \in Nat /\ born' \in Nat /\ proc[p] \in 0..born /\ born \in Nat
  BY BoundAssumption DEF OutsideStep, Machine, IInv, TypeOK, Times
<1>3. (proc[p] = 0 <=> kind[p] = "none") /\ Genuine(file[p]) /\ Same(p, file[p])
  BY DEF IInv, Identity
<1>4. file[p] \in Records /\ kind[p] \in {"none", "session", "relay"}
  BY DEF IInv, TypeOK
<1>5. proc'[p] = 0 <=> kind'[p] = "none"
  BY <1>1, <1>2, <1>3 DEF ProcStep
<1>6. CASE file'[p] = file[p]
  BY <1>3, <1>4, <1>5, <1>6, TruthStays
<1>7. CASE file'[p] = NoRecord
  BY <1>5, <1>7, NoRecordFacts DEF Genuine, Same, Writer
<1>8. CASE /\ proc'[p] = proc[p] /\ kind'[p] = kind[p] /\ proc[p] # 0
           /\ file'[p] # NoRecord /\ file'[p].start = proc[p] /\ file'[p].by = kind[p]
           /\ file'[p].stub = (kind[p] = "relay")
           /\ file'[p].domain = IF kind[p] = "relay" THEN "here" ELSE setting.build
  <2>1. file'[p].start \in 1..born' BY <1>2, <1>8
  <2>2. Genuine(file[p])'
    BY <1>1, <1>3, <1>4, <1>8, <2>1 DEF Genuine, Writer
  <2>3. Same(p, file[p])'
    BY <1>8 DEF Same
  <2> QED BY <1>5, <2>2, <2>3
<1>9. CASE /\ file'[p] # NoRecord /\ file'[p].by = "foreign" /\ ~file'[p].stub
           /\ file'[p].domain = "there" \/ file'[p].start = MaxBorn + 1
  BY <1>5, <1>9 DEF Genuine, Same, Writer
<1> QED BY <1>1, <1>6, <1>7, <1>8, <1>9 DEF FileStep

LEMMA RegisteredStays ==
  ASSUME IInv, OutsideStep, NEW p \in registered'
  PROVE  proc'[p] # 0 /\ (file'[p].by \in Writer => file'[p].start = proc'[p])
<1>1. p \in Pid BY DEF OutsideStep, Machine
<1>2. ProcStep(p) /\ FileStep(p) BY <1>1 DEF OutsideStep
<1>3. p \in registered => proc[p] # 0 /\ (file[p].by \in Writer => file[p].start = proc[p])
  BY DEF IInv, Identity
<1>4. born \in Nat BY BoundAssumption DEF IInv, TypeOK, Times
<1>5. proc'[p] # 0
  BY <1>2, <1>3, <1>4 DEF ProcStep
<1>6. ASSUME file'[p].by \in Writer PROVE file'[p].start = proc'[p]
  <2>1. CASE p \in registered
    BY <1>2, <1>3, <1>5, <1>6, <2>1, NoRecordFacts DEF ProcStep, FileStep, Writer
  <2>2. CASE p \notin registered
    BY <1>2, <1>6, <2>2 DEF ProcStep
  <2> QED BY <2>1, <2>2
<1> QED BY <1>5, <1>6

-----------------------------------------------------------------------------
(***************************************************************************)
(* Type correctness.                                                       *)
(***************************************************************************)

CommandType ==
  /\ pc \in {"start", "scan", "refused", "link", "signal", "done"}
  /\ todo \subseteq Pid
  /\ cur \in Entries \cup {NoEntry} /\ live \subseteq Entries /\ target \in Entries \cup {NoEntry}
  /\ pushed \in Records
  /\ task \in Tasks /\ handed \in Hands
  /\ hit \in Times

LEMMA ZeroIsTime == 0 \in Times
BY BoundAssumption DEF Times

LEMMA RecordsStay == setting' = setting => Records' = Records /\ Entries' = Entries
BY DEF Records, Entries, Name, Remote

LEMMA ProcIsTime == IInv /\ target.pid \in Pid => proc[target.pid] \in Times
BY BoundAssumption DEF IInv, TypeOK, Times

LEMMA QuietTyped == Quiet => pushed' \in Records /\ handed' \in Hands
<1>2. Nobody \in Hands BY ZeroIsTime DEF Nobody, Hands
<1> QED BY <1>2, NoRecordFacts DEF Quiet

LEMMA CommandTyped == IInv /\ Acts /\ setting' = setting => CommandType'
<1> SUFFICES ASSUME IInv, Acts, setting' = setting PROVE CommandType'
  OBVIOUS
<1> USE RecordsStay
<1>0. CommandType
  BY DEF IInv, TypeOK, CommandType
<1>1. CASE Env
  BY <1>0, <1>1, QuietTyped DEF Env, scan, CommandType
<1>2. CASE Open
  BY <1>0, <1>2, QuietTyped DEF Open, CommandType
<1>3. CASE \E p \in Pid : Entry(p)
  <2>1. PICK p \in Pid : Entry(p) BY <1>3
  <2>2. file[p] \in Records BY DEF IInv, TypeOK
  <2>3. cur' = cur \/ (file[p] # NoRecord /\ cur' = [pid |-> p, rec |-> file[p], at |-> 0])
    BY <2>1 DEF Entry
  <2>4. 0 \in Times BY BoundAssumption DEF Times
  <2>5. cur' \in Entries \cup {NoEntry}
    BY <1>0, <2>2, <2>3, <2>4 DEF Entries, CommandType
  <2> QED BY <1>0, <2>1, <2>5, QuietTyped DEF Entry, CommandType
<1>4. CASE Judge
  <2>1. cur \in Entries BY <1>0, <1>4 DEF Judge, CommandType
  <2>2. born \in Times BY DEF IInv, TypeOK
  <2>3. Seen \in Entries BY <2>1, <2>2 DEF Seen, Entries
  <2>4. live' \subseteq Entries /\ cur' = NoEntry BY <1>0, <1>4, <2>3 DEF Judge, CommandType
  <2> QED BY <1>0, <1>4, <2>4, QuietTyped DEF Judge, CommandType
<1>5. CASE Pick
  <2>1. target' \in Entries \cup {NoEntry} /\ pc' \in {"refused", "link", "signal"}
    BY <1>0, <1>5 DEF Pick, CommandType
  <2>2. live' = {} /\ UNCHANGED <<todo, cur, task, hit>> BY <1>5 DEF Pick
  <2> QED BY <1>0, <1>5, <2>1, <2>2, QuietTyped DEF Pick, CommandType
<1>6. CASE Signal
  <2>1. hit' \in Times BY <1>6, ProcIsTime, TargetIsReal DEF Signal
  <2> QED BY <1>0, <1>6, <2>1, QuietTyped DEF Signal, scan, CommandType
<1>7. CASE Push
  <2>1. pushed' \in Records
    BY <1>7, TargetIsReal, NoRecordFacts DEF Push, IInv, TypeOK
  <2>2. Nobody \in Hands BY ZeroIsTime DEF Nobody, Hands
  <2> QED BY <1>0, <1>7, <2>1, <2>2 DEF Push, scan, CommandType
<1>8. CASE Accept
  <2>1. Known \in Times
    BY <1>8, TargetIsReal, ProcIsTime, ZeroIsTime DEF Accept, Known
  <2>a. [open |-> TRUE, before |-> Known] \in Tasks
    BY <2>1 DEF Tasks
  <2>b. task' = task \/ task' = [open |-> TRUE, before |-> Known]
    BY <1>8 DEF Accept
  <2>2. task' \in Tasks
    BY <1>0, <2>a, <2>b DEF CommandType
  <2> QED BY <1>0, <1>8, <2>2, QuietTyped DEF Accept, scan, CommandType
<1>9. CASE Dial
  <2>1. PICK q \in {0, proc[target.pid]} : handed' = [to |-> q, before |-> task.before]
    BY <1>9 DEF Dial
  <2>2. q \in Times /\ task.before \in Times
    BY <1>0, <1>9, TargetIsReal, ProcIsTime, ZeroIsTime DEF Dial, CommandType, Tasks
  <2>3. handed' \in Hands BY <2>1, <2>2 DEF Hands
  <2>4. task' \in Tasks BY <1>9, ZeroIsTime DEF Dial, NoTask, Tasks
  <2>5. pushed' \in Records BY <1>9, NoRecordFacts DEF Dial
  <2> QED BY <1>0, <1>9, <2>3, <2>4, <2>5 DEF Dial, scan, CommandType
<1>10. CASE UNCHANGED vars
  BY <1>0, <1>10 DEF vars, scan, CommandType
<1> QED BY <1>1, <1>2, <1>3, <1>4, <1>5, <1>6, <1>7, <1>8, <1>9, <1>10 DEF Acts, Doing

LEMMA TypeStays == IInv /\ [Next]_vars => TypeOK'
<1> SUFFICES ASSUME IInv, [Next]_vars PROVE TypeOK'
  OBVIOUS
<1>1. OutsideStep BY Outside
<1>2. CommandType' BY <1>1, StepActs, CommandTyped DEF OutsideStep
<1>3. setting' \in Setting BY <1>1 DEF OutsideStep, IInv, TypeOK
<1>4. Fitting' \subseteq Pid /\ Fitting \subseteq Pid BY DEF Fitting
<1>5. Present' \subseteq Pid BY DEF Present
<1>6. there \subseteq Pid /\ steady \subseteq Pid /\ ever \subseteq Pid BY DEF IInv, TypeOK
<1>7. there' \subseteq Pid /\ steady' \subseteq Pid /\ ever' \subseteq Pid
  <2>1. CASE UNCHANGED vars BY <1>6, <2>1 DEF vars
  <2>2. CASE Stream /\ Onlooker BY <1>4, <1>5, <1>6, <2>2 DEF Stream, Onlooker, Present
  <2> QED BY <2>1, <2>2, StepActs
<1> QED BY <1>1, <1>2, <1>3, <1>7, RecordsStay DEF OutsideStep, Machine, CommandType, TypeOK

-----------------------------------------------------------------------------
(***************************************************************************)
(* Who wrote the records.                                                  *)
(***************************************************************************)

\* Where the entries a command holds come from.
LEMMA Sources ==
  ASSUME IInv, Acts, NEW c \in live' \cup {cur', target'}, c # NoEntry
  PROVE  \/ c \in live \cup {cur, target}
         \/ cur # NoEntry /\ c.pid = cur.pid /\ c.rec = cur.rec
         \/ c.pid \in Pid /\ c.rec = file[c.pid] /\ UNCHANGED <<outside, setting>>
<1>1. CASE Env BY <1>1 DEF Env, scan
<1>2. CASE Open BY <1>2 DEF Open
<1>3. CASE \E p \in Pid : Entry(p)
  <2>1. PICK p \in Pid : Entry(p) BY <1>3
  <2>2. cur' = cur \/ cur' = [pid |-> p, rec |-> file[p], at |-> 0] BY <2>1 DEF Entry
  <2>3. live' = live /\ target' = target /\ UNCHANGED <<outside, setting>> BY <2>1 DEF Entry
  <2> QED BY <2>2, <2>3
<1>4. CASE Judge BY <1>4 DEF Judge, Seen
<1>5. CASE Pick BY <1>5 DEF Pick
<1>6. CASE Signal \/ Push \/ Accept \/ Dial BY <1>6 DEF Signal, Push, Accept, Dial, scan
<1>7. CASE UNCHANGED vars BY <1>7 DEF vars, scan
<1> QED BY <1>1, <1>2, <1>3, <1>4, <1>5, <1>6, <1>7 DEF Acts, Doing

LEMMA IdentityStays == IInv /\ [Next]_vars => Identity'
<1> SUFFICES ASSUME IInv, [Next]_vars PROVE Identity'
  OBVIOUS
<1>1. OutsideStep /\ Acts BY Outside, StepActs
<1>2. \A p \in Pid : (proc'[p] = 0 <=> kind'[p] = "none") /\ Genuine(file[p])' /\ Same(p, file[p])'
  BY <1>1, FilesTell
<1>3. \A p \in registered' : proc'[p] # 0 /\ (file'[p].by \in Writer => file'[p].start = proc'[p])
  BY <1>1, RegisteredStays
<1>4. ASSUME NEW c \in live' \cup {cur', target'}, c # NoEntry
      PROVE  Genuine(c.rec)' /\ Same(c.pid, c.rec)'
  <2>1. ASSUME NEW e \in live \cup {cur, target}, e # NoEntry
        PROVE  Genuine(e.rec)' /\ Same(e.pid, e.rec)'
    <3>1. e \in Entries BY <2>1 DEF IInv, TypeOK
    <3>2. Genuine(e.rec) /\ Same(e.pid, e.rec) BY <2>1 DEF IInv, Identity
    <3> QED BY <1>1, <3>1, <3>2, EntriesAreReal, TruthStays
  <2>2. CASE c \in live \cup {cur, target} BY <1>4, <2>1, <2>2
  <2>3. CASE cur # NoEntry /\ c.pid = cur.pid /\ c.rec = cur.rec BY <2>1, <2>3
  <2>4. CASE c.pid \in Pid /\ c.rec = file[c.pid] /\ UNCHANGED <<outside, setting>>
    <3>1. Genuine(file[c.pid]) /\ Same(c.pid, file[c.pid]) /\ file[c.pid] \in Records
      BY <2>4 DEF IInv, Identity, TypeOK
    <3> QED BY <1>1, <2>4, <3>1, TruthStays
  <2> QED BY <1>1, <1>4, <2>2, <2>3, <2>4, Sources
<1> QED BY <1>2, <1>3, <1>4 DEF Identity

-----------------------------------------------------------------------------
(***************************************************************************)
(* What is done with the choice.                                           *)
(***************************************************************************)

\* A record from here, as it was found live, was written by a process of this machine.
LEMMA JudgedIsOurs ==
  ASSUME IInv, NEW r \in Records, Genuine(r), r # NoRecord,
         r.domain # "there", r.start # MaxBorn + 1
  PROVE  r.by \in Writer /\ r.start \in 1..born
BY DEF Genuine, Writer

\* Whoever gets the pid of an entry later is younger than the look at it.
LEMMA JudgedStays ==
  ASSUME IInv, OutsideStep, NEW c \in Entries, Judged(c)
  PROVE  Judged(c)'
<1>1. c.pid \in Pid BY EntriesAreReal
<1>2. ProcStep(c.pid) BY <1>1 DEF OutsideStep
<1>3. born \in Nat /\ born' \in Nat /\ born' >= born /\ c.at \in Nat
  BY BoundAssumption DEF OutsideStep, Machine, IInv, TypeOK, Times, Entries
<1>4. c.at <= born /\ (proc[c.pid] \in {0, c.rec.start} \/ proc[c.pid] > c.at)
  BY DEF Judged
<1>5. proc'[c.pid] \in {0, c.rec.start} \/ proc'[c.pid] > c.at
  BY <1>2, <1>3, <1>4 DEF ProcStep
<1> QED BY <1>3, <1>4, <1>5 DEF Judged

\* What Valid means: the record is of the process that was chosen.
LEMMA ValidIsPinned ==
  ASSUME IInv, pc = "link", Valid
  PROVE  /\ file[target.pid].by = "session" /\ file[target.pid].start = target.rec.start
         /\ target.pid \in registered => proc[target.pid] = target.rec.start
<1> DEFINE r == file[target.pid]
<1>1. target \in Entries /\ target.pid \in Pid /\ target # NoEntry
  BY TargetIsReal, EntriesAreReal
<1>2. r # NoRecord /\ r.start = target.rec.start /\ r.domain = target.rec.domain
  BY DEF Valid
<1>3. r \in Records /\ Genuine(r)
  BY <1>1 DEF IInv, TypeOK, Identity
<1>4. target.rec.domain # "there" /\ target.rec.start # MaxBorn + 1
  BY <1>1 DEF IInv, Chosen, Judged
<1>5. r.by \in Writer
  BY <1>2, <1>3, <1>4, JudgedIsOurs
<1>6. target.rec.by = "session" /\ Same(target.pid, target.rec)
  BY <1>1 DEF IInv, Chosen, NoChain, Identity
<1>7. r.by = "session"
  BY <1>2, <1>5, <1>6 DEF Same, Writer
<1>8. target.pid \in registered => r.start = proc[target.pid]
  BY <1>5 DEF IInv, Identity
<1> QED BY <1>2, <1>7, <1>8

\* The parts of Chosen that are about the target and what follows from it.
Pinned ==
  /\ target # NoEntry => Judged(target)
  /\ pc \in {"link", "signal"} => target # NoEntry
  /\ pc \in {"start", "scan"} => target = NoEntry /\ task = NoTask
  /\ pc # "done" => hit = 0
  /\ task.before \in {0, target.rec.start}
  /\ NoChain /\ PushedPinned /\ HandedToPinned /\ SignalsTheRelay

LEMMA QuietIsPinned == Quiet => PushedPinned' /\ HandedToPinned'
BY DEF Quiet, Nobody, PushedPinned, HandedToPinned

LEMMA NoTaskFacts == NoTask.before = 0
BY DEF NoTask

\* Steps that leave the choice alone.
LEMMA SameTarget ==
  ASSUME IInv, OutsideStep, target' = target, pc' = pc \/ (pc' = "done" /\ pc \in {"link", "signal"})
  PROVE  /\ (target # NoEntry => Judged(target))'
         /\ (pc \in {"link", "signal"} => target # NoEntry)'
         /\ NoChain'
<1>1. target # NoEntry => target \in Entries BY DEF IInv, TypeOK
<1>2. target # NoEntry => Judged(target) BY DEF IInv, Chosen
<1>3. target # NoEntry => Judged(target)' BY <1>1, <1>2, JudgedStays
<1>4. (pc \in {"link", "signal"} => target # NoEntry) /\ NoChain BY DEF IInv, Chosen
<1> QED BY <1>3, <1>4 DEF NoChain, Judged

LEMMA PinnedStays == IInv /\ OutsideStep /\ Acts => Pinned'
<1> SUFFICES ASSUME IInv, OutsideStep, Acts PROVE Pinned'
  OBVIOUS
<1>0. Pinned BY DEF IInv, Chosen, Pinned
<1>1. ASSUME UNCHANGED <<pc, target, task, hit>>, Quiet PROVE Pinned'
  <2>1. SignalsTheRelay' BY <1>0, <1>1 DEF Pinned, SignalsTheRelay
  <2>2. PushedPinned' /\ HandedToPinned' BY <1>1, QuietIsPinned
  <2> QED BY <1>0, <1>1, <2>1, <2>2, SameTarget DEF Pinned
<1>2. CASE Env
  BY <1>1, <1>2 DEF Env
<1>3. CASE Judge \/ \E p \in Pid : Entry(p)
  BY <1>1, <1>3 DEF Judge, Entry
<1>4. CASE Open
  <2>1. pc = "start" /\ pc' = "scan" /\ UNCHANGED <<target, task, hit>> /\ Quiet
    BY <1>4 DEF Open
  <2>2. target' = NoEntry /\ task' = NoTask /\ hit' = 0
    BY <1>0, <2>1 DEF Pinned
  <2>3. PushedPinned' /\ HandedToPinned' BY <2>1, QuietIsPinned
  <2> QED BY <2>1, <2>2, <2>3, NoTaskFacts DEF Pinned, NoChain, SignalsTheRelay
<1>5. CASE Pick
  <2>1. pc = "scan" /\ task = NoTask /\ hit = 0 /\ target = NoEntry
    BY <1>0, <1>5 DEF Pick, Pinned
  <2>2. task' = NoTask /\ hit' = 0 /\ Quiet /\ UNCHANGED outside
    BY <1>5, <2>1 DEF Pick
  <2>3. PushedPinned' /\ HandedToPinned' BY <2>2, QuietIsPinned
  <2>4. CASE pc' = "refused" /\ UNCHANGED target
    BY <2>1, <2>2, <2>3, <2>4, NoTaskFacts DEF Pinned, NoChain, SignalsTheRelay
  <2>5. CASE \E c \in live : /\ Wanted(c.pid, c.rec) /\ target' = c
                             /\ pc' = IF cmd.verb = "down" THEN "signal" ELSE "link"
    <3>1. PICK c \in live : /\ Wanted(c.pid, c.rec) /\ target' = c
                            /\ pc' = IF cmd.verb = "down" THEN "signal" ELSE "link"
      BY <2>5
    <3>2. c \in Entries /\ c # NoEntry /\ c.rec \in Records /\ c.rec # NoRecord
      BY <3>1, EntriesAreReal DEF IInv, TypeOK
    <3>3. Judged(c) /\ Genuine(c.rec)
      BY <3>1, <3>2 DEF IInv, Chosen, Identity
    <3>4. Judged(c)' BY <3>2, <3>3, JudgedStays
    <3>5. c.rec.by \in Writer
      BY <3>2, <3>3, JudgedIsOurs DEF Judged
    <3>6. pc' = "link" => c.rec.by = "session"
      BY <3>1, <3>3, <3>5 DEF Wanted, Genuine, Writer
    <3>7. pc' \in {"link", "signal"} BY <3>1
    <3>8. (target # NoEntry => Judged(target))' BY <3>1, <3>4 DEF Judged
    <3>9. NoChain' BY <3>1, <3>6 DEF NoChain
    <3> QED BY <2>2, <2>3, <3>1, <3>2, <3>7, <3>8, <3>9, NoTaskFacts DEF Pinned, SignalsTheRelay
  <2> QED BY <1>5, <2>4, <2>5 DEF Pick
<1>6. CASE Signal
  <2>1. pc = "signal" /\ pc' = "done" /\ hit' = proc[target.pid] /\ UNCHANGED <<target, task>> /\ Quiet
    BY <1>6 DEF Signal
  <2>2. SignalsTheRelay' BY <1>0, <2>1 DEF Pinned, Judged, SignalsTheRelay
  <2>3. PushedPinned' /\ HandedToPinned' BY <2>1, QuietIsPinned
  <2> QED BY <1>0, <2>1, <2>2, <2>3, SameTarget DEF Pinned
<1>7. CASE Push
  <2>1. /\ pc = "link" /\ pc' \in {"link", "done"} /\ UNCHANGED <<target, task, hit>>
        /\ handed' = Nobody
        /\ pushed' = NoRecord \/ (Valid /\ pushed' = file[target.pid])
    BY <1>7 DEF Push
  <2>2. PushedPinned' BY <2>1, ValidIsPinned DEF PushedPinned
  <2>3. HandedToPinned' BY <2>1 DEF HandedToPinned, Nobody
  <2>4. SignalsTheRelay' BY <1>0, <2>1 DEF Pinned, SignalsTheRelay
  <2> QED BY <1>0, <2>1, <2>2, <2>3, <2>4, SameTarget DEF Pinned
<1>8. CASE Accept
  <2>1. /\ pc = "link" /\ pc' \in {"link", "done"} /\ UNCHANGED <<target, hit>> /\ Quiet
        /\ task' = task \/ (Valid /\ task' = [open |-> TRUE, before |-> Known])
    BY <1>8 DEF Accept
  <2>2. Valid => Known \in {0, target.rec.start} BY <2>1, ValidIsPinned DEF Known
  <2>3. task'.before \in {0, target.rec.start} BY <1>0, <2>1, <2>2 DEF Pinned
  <2>4. SignalsTheRelay' BY <1>0, <2>1 DEF Pinned, SignalsTheRelay
  <2>5. PushedPinned' /\ HandedToPinned' BY <2>1, QuietIsPinned
  <2> QED BY <1>0, <2>1, <2>3, <2>4, <2>5, SameTarget DEF Pinned
<1>9. CASE Dial
  <2>1. /\ pc = "link" /\ UNCHANGED <<pc, target, hit>> /\ task' = NoTask /\ pushed' = NoRecord
        /\ handed'.before = task.before
    BY <1>9 DEF Dial
  <2>2. HandedToPinned' BY <1>0, <2>1 DEF Pinned, HandedToPinned
  <2>3. PushedPinned' BY <2>1 DEF PushedPinned
  <2>4. SignalsTheRelay' BY <1>0, <2>1 DEF Pinned, SignalsTheRelay
  <2> QED BY <1>0, <2>1, <2>2, <2>3, <2>4, SameTarget, NoTaskFacts DEF Pinned
<1>10. CASE UNCHANGED vars
  <2>1. UNCHANGED <<pc, target, task, hit, pushed, handed>> BY <1>10 DEF vars
  <2>2. PushedPinned' /\ HandedToPinned' /\ SignalsTheRelay'
    BY <1>0, <2>1 DEF Pinned, PushedPinned, HandedToPinned, SignalsTheRelay
  <2> QED BY <1>0, <2>1, <2>2, SameTarget DEF Pinned
<1> QED BY <1>2, <1>3, <1>4, <1>5, <1>6, <1>7, <1>8, <1>9, <1>10 DEF Acts, Doing

LEMMA LiveGrows ==
  ASSUME Acts, NEW c \in live'
  PROVE  c \in live \/ (Judge /\ c = Seen /\ Matches(cur.pid, cur.rec))
<1>1. CASE Env BY <1>1 DEF Env, scan
<1>2. CASE Open BY <1>2 DEF Open
<1>3. CASE \E p \in Pid : Entry(p) BY <1>3 DEF Entry
<1>4. CASE Judge BY <1>4 DEF Judge
<1>5. CASE Pick BY <1>5 DEF Pick
<1>6. CASE Signal \/ Push \/ Accept \/ Dial BY <1>6 DEF Signal, Push, Accept, Dial, scan
<1>7. CASE UNCHANGED vars BY <1>7 DEF vars, scan
<1> QED BY <1>1, <1>2, <1>3, <1>4, <1>5, <1>6, <1>7 DEF Acts, Doing

LEMMA LiveStayJudged ==
  ASSUME IInv, OutsideStep, Acts, NEW c \in live'
  PROVE  Judged(c)'
<1>1. CASE c \in live
  <2>1. c \in Entries /\ Judged(c) BY <1>1 DEF IInv, TypeOK, Chosen
  <2> QED BY <2>1, JudgedStays
<1>2. CASE Judge /\ c = Seen /\ Matches(cur.pid, cur.rec)
  <2>1. cur \in Entries BY <1>2 DEF Judge, IInv, TypeOK
  <2>2. born \in Times /\ born <= MaxBorn BY BoundAssumption DEF IInv, TypeOK, Times
  <2>3. Seen \in Entries BY <2>1, <2>2 DEF Seen, Entries
  <2>4. cur.pid \in Pid /\ proc[cur.pid] \in 0..born
    BY <2>1, EntriesAreReal DEF IInv, TypeOK
  <2>5. born \in Nat BY <2>2, BoundAssumption DEF Times
  <2>6. cur.rec.start = proc[cur.pid] /\ cur.rec.domain # "there" BY <1>2 DEF Matches
  <2>7. Judged(Seen) BY <2>2, <2>4, <2>5, <2>6, BoundAssumption DEF Judged, Seen
  <2> QED BY <1>2, <2>3, <2>7, JudgedStays
<1> QED BY <1>1, <1>2, LiveGrows

LEMMA ChosenStays == IInv /\ [Next]_vars => Chosen'
<1> SUFFICES ASSUME IInv, [Next]_vars PROVE Chosen'
  OBVIOUS
<1>1. OutsideStep /\ Acts BY Outside, StepActs
<1>2. Pinned' BY <1>1, PinnedStays
<1>3. \A c \in live' : Judged(c)' BY <1>1, LiveStayJudged
<1> QED BY <1>2, <1>3 DEF Chosen, Pinned

-----------------------------------------------------------------------------
(***************************************************************************)
(* The scan.                                                               *)
(***************************************************************************)

LEMMA FitsStays ==
  ASSUME IInv, OutsideStep, NEW e \in Entries, Fits(e), e.pid \in Fitting'
  PROVE  Fits(e)'
<1>1. e.pid \in Pid BY EntriesAreReal
<1>2. ProcStep(e.pid) /\ setting' = setting BY <1>1 DEF OutsideStep
<1>3. proc[e.pid] # 0 /\ proc'[e.pid] # 0 BY DEF Fits, Fitting, Matches
<1>4. proc'[e.pid] = proc[e.pid] /\ kind'[e.pid] = kind[e.pid] BY <1>2, <1>3 DEF ProcStep
<1>5. Matches(e.pid, e.rec)' BY <1>4 DEF Fits, Matches
<1>6. Wanted(e.pid, e.rec)' BY <1>2, <1>4 DEF Fits, Wanted, MatchesMirror, cmd
<1> QED BY <1>5, <1>6 DEF Fits

\* A process that starts is not the one a record tells of.
LEMMA MatchesBefore ==
  ASSUME IInv, OutsideStep, NEW e \in Entries, Genuine(e.rec), Matches(e.pid, e.rec)'
  PROVE  Matches(e.pid, e.rec)
<1>1. e.pid \in Pid /\ e.rec # NoRecord /\ e.rec \in Records BY EntriesAreReal
<1>2. ProcStep(e.pid) BY <1>1 DEF OutsideStep
<1>3. e.rec.domain # "there" /\ e.rec.start = proc'[e.pid] /\ proc'[e.pid] # 0 BY DEF Matches
<1>4. born \in Nat /\ born' \in Nat /\ born' <= MaxBorn /\ proc'[e.pid] <= born'
  BY <1>1, BoundAssumption DEF OutsideStep, Machine, IInv, TypeOK, Times
<1>5. e.rec.start # MaxBorn + 1 BY <1>3, <1>4, BoundAssumption
<1>6. e.rec.start \in 1..born BY <1>1, <1>3, <1>5, JudgedIsOurs
<1>7. proc'[e.pid] = proc[e.pid] BY <1>2, <1>3, <1>4, <1>6 DEF ProcStep
<1> QED BY <1>1, <1>3, <1>7 DEF Matches

LEMMA AskedStays ==
  ASSUME NEW p, NEW r, setting' = setting
  PROVE  Asked(p, r)' <=> Asked(p, r)
BY DEF Asked, MatchesMirror, cmd

LEMMA WantedIsAsked ==
  ASSUME NEW p, NEW r, Wanted(p, r) PROVE Asked(p, r)
BY DEF Wanted, Asked

\* What the record alone says is enough when its process is there: a mirror's is a relay.
LEMMA AskedFits ==
  ASSUME IInv, NEW p \in Pid, Matches(p, file[p]), Asked(p, file[p])
  PROVE  p \in Fitting
<1> DEFINE r == file[p]
<1>1. r \in Records /\ Genuine(r) /\ Same(p, r) BY DEF IInv, TypeOK, Identity
<1>2. r # NoRecord /\ r.start = proc[p] /\ r.domain # "there" BY DEF Matches
<1>3. born \in Nat /\ born <= MaxBorn /\ proc[p] <= born
  BY BoundAssumption DEF IInv, TypeOK, Times
<1>4. r.by \in Writer BY <1>1, <1>2, <1>3, BoundAssumption, JudgedIsOurs
<1>5. ~r.stub => kind[p] # "relay" BY <1>1, <1>2, <1>4 DEF Genuine, Same, Writer
<1>6. Wanted(p, r) BY <1>5 DEF Asked, Wanted
<1> QED BY <1>6 DEF Fitting

\* The names and the pids are watched on, whatever the step is.
LEMMA WatchStays ==
  ASSUME IInv, pc = "scan", pc' = "scan", Stream, Onlooker
  PROVE  (steady \subseteq there /\ there \subseteq Present /\ steady \subseteq Fitting)'
<1>1. steady \subseteq there BY DEF IInv, Scanned, Progress
<1>2. there' = there \cap Present' /\ steady' = steady \cap Fitting' BY DEF Stream, Onlooker
<1>3. Fitting' \subseteq Present' BY DEF Fitting, Present, Matches
<1> QED BY <1>1, <1>2, <1>3

\* One case for each step that is part of a scan.
LEMMA ScanActs ==
  ASSUME Acts, pc = "scan", pc' = "scan"
  PROVE  \/ UNCHANGED scan
         \/ \E p \in Pid : Entry(p) /\ cur' # cur /\ live' = live
         \/ \E p \in Pid : Entry(p) /\ cur' = cur /\ live' = live
         \/ Judge
<1>1. CASE Env BY <1>1 DEF Env
<1>2. CASE Open BY <1>2 DEF Open
<1>3. CASE \E p \in Pid : Entry(p) BY <1>3 DEF Entry
<1>4. CASE Pick BY <1>4 DEF Pick
<1>5. CASE Signal \/ Push \/ Accept \/ Dial BY <1>5 DEF Signal, Push, Accept, Dial
<1>6. CASE UNCHANGED vars BY <1>6 DEF vars
<1> QED BY <1>1, <1>2, <1>3, <1>4, <1>5, <1>6 DEF Acts, Doing

LEMMA ProgressStays ==
  ASSUME IInv, [Next]_vars, pc = "scan", pc' = "scan", Stream, Onlooker
  PROVE  Progress'
<1>1. OutsideStep /\ Acts /\ setting' = setting BY Outside, StepActs DEF OutsideStep
<1>2. Progress BY DEF IInv, Scanned
<1>3. (steady \subseteq there /\ there \subseteq Present /\ steady \subseteq Fitting)'
  BY WatchStays
<1>4. steady' \subseteq steady /\ steady' \subseteq Fitting' /\ ever \subseteq ever'
      /\ Fitting' \subseteq ever'
  BY DEF Onlooker
<1>5. live \subseteq Entries /\ cur \in Entries \cup {NoEntry} BY DEF IInv, TypeOK
<1>6. \A e \in live \cup {cur} : e # NoEntry => e \in Entries /\ Genuine(e.rec)
  BY <1>5 DEF IInv, Identity
<1>7. ASSUME NEW p \in steady', NEW e \in live \cup {cur}, e # NoEntry, e.pid = p, Fits(e)
      PROVE  Fits(e)'
  BY <1>1, <1>4, <1>6, <1>7, FitsStays
<1>8. ASSUME NEW e \in live \cup {cur}, Noticed(e) PROVE Noticed(e)'
  BY <1>1, <1>4, <1>8, AskedStays DEF Noticed
<1>9. ASSUME NEW e \in {cur}, e # NoEntry, Matches(e.pid, e.rec)' PROVE Noticed(e)
  BY <1>1, <1>2, <1>6, <1>9, MatchesBefore DEF Progress
<1>10. CASE UNCHANGED scan
  <2>1. todo' = todo /\ cur' = cur /\ live' = live BY <1>10 DEF scan
  <2>2. \A p \in steady' : p \in todo' \/ Found(p)'
    <3> SUFFICES ASSUME NEW p \in steady', p \notin todo PROVE Found(p)' BY <2>1
    <3>1. PICK e \in live \cup {cur} : e # NoEntry /\ e.pid = p /\ Fits(e)
      BY <1>2, <1>4 DEF Progress, Found
    <3>2. Fits(e)' BY <1>7, <3>1
    <3> QED BY <2>1, <3>1, <3>2 DEF Found
  <2>3. \A c \in live' : Noticed(c)' BY <1>2, <1>8, <2>1 DEF Progress
  <2>4. cur' # NoEntry /\ Matches(cur.pid, cur.rec)' => Noticed(cur)'
    BY <1>8, <1>9, <2>1
  <2> QED BY <1>2, <1>3, <2>1, <2>2, <2>3, <2>4 DEF Progress
<1>11. CASE \E q \in Pid : Entry(q) /\ cur' # cur /\ live' = live
  <2>1. PICK q \in Pid : Entry(q) /\ cur' # cur /\ live' = live BY <1>11
  <2>2. /\ cur = NoEntry /\ q \in todo /\ todo' = todo \ {q} /\ live' = live
        /\ cur' = [pid |-> q, rec |-> file[q], at |-> 0] /\ UNCHANGED <<outside, setting>>
        /\ file[q] # NoRecord
    BY <2>1 DEF Entry
  <2>3. cur'.pid = q /\ cur'.rec = file[q] BY <2>2
  <2>4. UNCHANGED <<proc, kind, file, setting>> BY <2>2 DEF outside, machine
  <2>5. cur' # NoEntry BY <2>2, UnsetAssumption DEF NoEntry
  <2>6. \A p \in steady' : p \in todo' \/ Found(p)'
    <3> SUFFICES ASSUME NEW p \in steady', p \notin todo' PROVE Found(p)' OBVIOUS
    <3>1. CASE p = q
      <4>1. q \in Fitting' BY <1>4, <3>1
      <4>2. Matches(q, file[q])' /\ Wanted(q, file[q])' BY <4>1 DEF Fitting
      <4>3. Fits(cur)' BY <2>3, <2>4, <4>2 DEF Fits
      <4> QED BY <2>3, <2>5, <3>1, <4>3 DEF Found
    <3>2. CASE p # q
      <4>1. PICK e \in live \cup {cur} : e # NoEntry /\ e.pid = p /\ Fits(e)
        BY <1>2, <1>4, <2>2, <3>2 DEF Progress, Found
      <4>2. Fits(e)' BY <1>7, <4>1
      <4> QED BY <2>2, <4>1, <4>2 DEF Found
    <3> QED BY <3>1, <3>2
  <2>7. \A e \in live' \cup {cur'} : e # NoEntry => e.pid \notin todo'
    BY <1>2, <2>2, <2>3 DEF Progress
  <2>8. \A c \in live' : c.pid # cur'.pid /\ Noticed(c)'
    <3> SUFFICES ASSUME NEW c \in live PROVE c.pid # cur'.pid /\ Noticed(c)' BY <2>2
    <3>1. c # NoEntry BY <1>5, EntriesAreReal
    <3> QED BY <1>2, <1>8, <2>2, <2>3, <3>1 DEF Progress
  <2>9. Matches(cur.pid, cur.rec)' => Noticed(cur)'
    <3> SUFFICES ASSUME Matches(cur.pid, cur.rec)', Asked(cur.pid, cur.rec)'
                 PROVE  cur'.pid \in ever'
      BY DEF Noticed
    <3>1. Matches(q, file[q]) BY <2>3, <2>4 DEF Matches
    <3>2. Asked(q, file[q]) BY <2>3, <2>4 DEF Asked, MatchesMirror, cmd
    <3>3. q \in Fitting BY <3>1, <3>2, AskedFits
    <3>4. Fitting' = Fitting BY <2>4 DEF Fitting, Matches, Wanted, MatchesMirror, cmd
    <3> QED BY <1>4, <2>3, <3>3, <3>4
  <2>10. \A c, d \in live' : c.pid = d.pid => c = d BY <1>2, <2>2 DEF Progress
  <2> QED BY <1>3, <2>6, <2>7, <2>8, <2>9, <2>10 DEF Progress
<1>12. CASE \E q \in Pid : Entry(q) /\ cur' = cur /\ live' = live
  <2>1. PICK q \in Pid : Entry(q) /\ cur' = cur /\ live' = live BY <1>12
  <2>2. cur = NoEntry /\ cur' = NoEntry /\ todo' = todo \ {q} /\ live' = live
        /\ (q \notin there \/ proc[q] = 0 \/ cur' = [pid |-> q, rec |-> file[q], at |-> 0])
    BY <2>1 DEF Entry
  <2>3. q \notin steady
    BY <1>2, <2>2, UnsetAssumption DEF Progress, Fitting, Matches, NoEntry
  <2>4. \A p \in steady' : p \in todo' \/ Found(p)'
    <3> SUFFICES ASSUME NEW p \in steady', p \notin todo' PROVE Found(p)' OBVIOUS
    <3>1. p # q BY <1>4, <2>3
    <3>2. PICK e \in live \cup {cur} : e # NoEntry /\ e.pid = p /\ Fits(e)
      BY <1>2, <1>4, <2>2, <3>1 DEF Progress, Found
    <3>3. Fits(e)' BY <1>7, <3>2
    <3> QED BY <2>2, <3>2, <3>3 DEF Found
  <2>5. \A c \in live' : Noticed(c)' BY <1>2, <1>8, <2>2 DEF Progress
  <2> QED BY <1>2, <1>3, <2>2, <2>4, <2>5 DEF Progress
<1>13. CASE Judge
  <2>1. cur # NoEntry /\ cur' = NoEntry /\ todo' = todo /\ UNCHANGED <<outside, setting>>
        /\ live' = IF Matches(cur.pid, cur.rec) THEN live \cup {Seen} ELSE live
    BY <1>13 DEF Judge
  <2>a. PICK s : s = Seen OBVIOUS
  <2>2. UNCHANGED <<proc, kind, file, setting>> BY <2>1 DEF outside, machine
  <2>3. s.pid = cur.pid /\ s.rec = cur.rec BY <2>a DEF Seen
  <2>4. live' = IF Matches(cur.pid, cur.rec) THEN live \cup {s} ELSE live BY <2>1, <2>a
  <2>5. s # NoEntry
    BY <1>5, <2>1, <2>3, EntriesAreReal, UnsetAssumption DEF NoEntry
  <2>6. \A p \in steady' : p \in todo' \/ Found(p)'
    <3> SUFFICES ASSUME NEW p \in steady', p \notin todo PROVE Found(p)' BY <2>1
    <3>1. PICK e \in live \cup {cur} : e # NoEntry /\ e.pid = p /\ Fits(e)
      BY <1>2, <1>4 DEF Progress, Found
    <3>2. Fits(e)' BY <1>7, <3>1
    <3>3. CASE e = cur
      <4>1. s \in live' BY <2>4, <3>1, <3>3 DEF Fits
      <4>2. Fits(s)' BY <2>3, <3>2, <3>3 DEF Fits
      <4> QED BY <2>3, <2>5, <3>1, <3>3, <4>1, <4>2 DEF Found
    <3>4. CASE e \in live BY <2>1, <3>1, <3>2, <3>4 DEF Found
    <3> QED BY <3>3, <3>4
  <2>7. ASSUME NEW c \in live', NEW d \in live', c.pid = d.pid PROVE c = d
    BY <1>2, <2>1, <2>3, <2>4, <2>7 DEF Progress
  <2>8. \A c \in live' : c # NoEntry => c.pid \notin todo'
    BY <1>2, <2>1, <2>3, <2>4 DEF Progress
  <2>9. ASSUME NEW c \in live' PROVE Noticed(c)'
    <3>1. CASE c \in live BY <1>2, <1>8, <3>1 DEF Progress
    <3>2. CASE c = s /\ Matches(cur.pid, cur.rec)
      <4>1. Noticed(cur) BY <1>2, <2>1, <3>2 DEF Progress
      <4>2. Noticed(s) BY <2>3, <4>1 DEF Noticed
      <4> QED BY <1>1, <1>4, <3>2, <4>2, AskedStays DEF Noticed
    <3> QED BY <2>4, <3>1, <3>2
  <2> QED BY <1>3, <2>1, <2>6, <2>7, <2>8, <2>9 DEF Progress
<1> QED BY <1>1, <1>10, <1>11, <1>12, <1>13, ScanActs

\* The choice at the end of a scan, or that there is none.
LEMMA PickIsRight ==
  ASSUME IInv, Pick, Onlooker
  PROVE  ChoiceIsSole' /\ SoleIsFound' /\ cur' = NoEntry /\ live' = {}
<1> DEFINE fits == {c \in live : Wanted(c.pid, c.rec)}
<1>1. pc = "scan" /\ todo = {} /\ cur = NoEntry /\ cur' = NoEntry /\ live' = {}
      /\ UNCHANGED <<outside, setting>>
  BY DEF Pick
<1>2. Progress BY <1>1 DEF IInv, Scanned
<1>3. \A p \in steady : \E e \in fits : e.pid = p
  BY <1>1, <1>2 DEF Progress, Found, Fits
<1>4. \A e \in fits : e.pid \in ever
  BY <1>2, WantedIsAsked DEF Progress, Noticed
<1>5. CASE pc' = "refused" /\ \A c \in fits : ~Sole(c, fits)
  <2>1. steady' \subseteq steady /\ ever \subseteq ever' BY <1>1 DEF Onlooker
  <2>2. ASSUME NEW p \in Pid, steady' = {p}, ever' = {p} PROVE FALSE
    <3>1. PICK e \in fits : e.pid = p BY <1>3, <2>1, <2>2
    <3>2. PICK d \in fits : d # e BY <1>5, <3>1 DEF Sole
    <3>3. d.pid # e.pid BY <1>2, <3>1, <3>2 DEF Progress
    <3> QED BY <1>4, <2>1, <2>2, <3>1, <3>2, <3>3
  <2> QED BY <1>1, <1>5, <2>2 DEF ChoiceIsSole, SoleIsFound
<1>6. CASE \E c \in fits : /\ Sole(c, fits) /\ target' = c
                           /\ pc' = IF cmd.verb = "down" THEN "signal" ELSE "link"
  <2>1. steady' \subseteq steady BY <1>1 DEF Onlooker
  <2>2. steady \subseteq {target'.pid} BY <1>3, <1>6 DEF Sole
  <2>3. pc' # "refused" BY <1>6
  <2> QED BY <1>1, <2>1, <2>2, <2>3 DEF ChoiceIsSole, SoleIsFound
<1> QED BY <1>5, <1>6 DEF Pick

\* Out of a scan nothing is looked at, and nobody looks on.
LEMMA OutOfScan ==
  ASSUME IInv, Acts, Onlooker, pc # "scan", pc' # "scan"
  PROVE  cur' = NoEntry /\ live' = {} /\ ChoiceIsSole' /\ SoleIsFound'
<1>1. cur = NoEntry /\ live = {} BY DEF IInv, Scanned
<1>2. UNCHANGED <<cur, live>>
  <2>1. CASE Env BY <2>1 DEF Env, scan
  <2>2. CASE Open \/ Judge \/ Pick \/ \E p \in Pid : Entry(p)
    BY <2>2 DEF Open, Judge, Pick, Entry
  <2>3. CASE Signal \/ Push \/ Accept \/ Dial
    BY <2>3 DEF Signal, Push, Accept, Dial, scan
  <2>4. CASE UNCHANGED vars BY <2>4 DEF vars, scan
  <2> QED BY <2>1, <2>2, <2>3, <2>4 DEF Acts, Doing
<1>3. steady' = {} BY DEF Onlooker
<1> QED BY <1>1, <1>2, <1>3 DEF ChoiceIsSole, SoleIsFound

LEMMA OpenBegins ==
  ASSUME IInv, Acts, Stream, Onlooker, pc # "scan", pc' = "scan"
  PROVE  Progress'
<1>1. Open
  BY DEF Acts, Doing, Env, Judge, Pick, Signal, Push, Accept, Dial, Entry, vars
<1>2. cur = NoEntry /\ live = {} BY DEF IInv, Scanned
<1>3. todo' = Pid /\ cur' = NoEntry /\ live' = {} /\ UNCHANGED <<outside, setting>>
  BY <1>1, <1>2 DEF Open
<1>4. there' = Present /\ steady' = Fitting BY DEF Stream, Onlooker
<1>5. UNCHANGED <<proc, kind, file, setting>> BY <1>3 DEF outside, machine
<1>6. Fitting' = Fitting BY <1>5 DEF Fitting, Matches, Wanted, MatchesMirror, cmd
<1>7. Present' = Present BY <1>5 DEF Present
<1>8. Fitting \subseteq Present /\ Fitting \subseteq Pid BY DEF Fitting, Present, Matches
<1> QED BY <1>3, <1>4, <1>6, <1>7, <1>8 DEF Progress

LEMMA ScannedStays == IInv /\ [Next]_vars => Scanned'
<1> SUFFICES ASSUME IInv, [Next]_vars PROVE Scanned'
  OBVIOUS
<1>1. Acts /\ (UNCHANGED vars \/ (Stream /\ Onlooker)) BY StepActs
<1>2. CASE UNCHANGED vars
  <2>1. UNCHANGED <<born, proc, kind, registered, file, setting, pc, there, todo, cur, live,
                    target, steady, ever>>
    BY <1>2 DEF vars, outside, machine, scan
  <2>2. Fitting' = Fitting BY <2>1 DEF Fitting, Matches, Wanted, MatchesMirror, cmd
  <2>3. Present' = Present BY <2>1 DEF Present
  <2>4. \A e : Fits(e)' <=> Fits(e)
    BY <2>1 DEF Fits, Matches, Wanted, MatchesMirror, cmd
  <2>5. \A e : Noticed(e)' <=> Noticed(e) BY <2>1, AskedStays DEF Noticed
  <2>6. \A p : Found(p)' <=> Found(p) BY <2>1, <2>4 DEF Found
  <2>7. Matches(cur.pid, cur.rec)' <=> Matches(cur.pid, cur.rec) BY <2>1 DEF Matches
  <2>8. Noticed(cur)' <=> Noticed(cur) BY <2>1, AskedStays DEF Noticed
  <2>9. Scanned BY DEF IInv
  <2>10. Progress => Progress'
    BY <2>1, <2>2, <2>3, <2>5, <2>6, <2>7, <2>8 DEF Progress
  <2>11. (ChoiceIsSole /\ SoleIsFound) => (ChoiceIsSole /\ SoleIsFound)'
    BY <2>1 DEF ChoiceIsSole, SoleIsFound
  <2> QED BY <2>1, <2>9, <2>10, <2>11 DEF Scanned
<1>3. CASE Stream /\ Onlooker
  <2>1. CASE pc = "scan" /\ pc' = "scan"
    BY <1>3, <2>1, ProgressStays DEF Scanned, ChoiceIsSole, SoleIsFound
  <2>2. CASE pc # "scan" /\ pc' # "scan"
    BY <1>1, <1>3, <2>2, OutOfScan DEF Scanned
  <2>3. CASE pc # "scan" /\ pc' = "scan"
    BY <1>1, <1>3, <2>3, OpenBegins DEF Scanned, ChoiceIsSole, SoleIsFound
  <2>4. CASE pc = "scan" /\ pc' # "scan"
    <3>1. Pick
      BY <1>1, <2>4 DEF Acts, Doing, Env, Open, Judge, Entry, Signal, Push, Accept, Dial, vars
    <3> QED BY <1>3, <2>4, <3>1, PickIsRight DEF Scanned
  <2> QED BY <2>1, <2>2, <2>3, <2>4
<1> QED BY <1>1, <1>2, <1>3

-----------------------------------------------------------------------------
(***************************************************************************)
(* Theorems.                                                               *)
(***************************************************************************)

\* The inductive invariant holds in every reachable state.
THEOREM Invariance == Spec => []IInv
<1>1. Init => IInv BY InitHolds
<1>2. IInv /\ [Next]_vars => IInv'
  BY TypeStays, IdentityStays, ChosenStays, ScannedStays DEF IInv
<1> QED BY <1>1, <1>2, PTL DEF Spec

\* Every variable keeps its type.
THEOREM Typed == Spec => []TypeOK
<1>1. IInv => TypeOK BY DEF IInv
<1> QED BY Invariance, <1>1, PTL

\* A mirror is never exported (resolve_exportable_session), for any number of pids, processes
\* and foreign records.
THEOREM NeverAMirror == Spec => []NoChain
<1>1. IInv => NoChain BY DEF IInv, Chosen
<1> QED BY Invariance, <1>1, PTL

\* What validate_target lets across is a record of the process that was chosen.
THEOREM PushesPinned == Spec => []PushedPinned
<1>1. IInv => PushedPinned BY DEF IInv, Chosen
<1> QED BY Invariance, <1>1, PTL

\* A connection reaches the process that was chosen, or one that was not known when it came.
THEOREM HandsPinned == Spec => []HandedToPinned
<1>1. IInv => HandedToPinned BY DEF IInv, Chosen
<1> QED BY Invariance, <1>1, PTL

\* The signal of `down` hits the mirror's relay, nobody, or a process younger than the look.
THEOREM SignalsPinned == Spec => []SignalsTheRelay
<1>1. IInv => SignalsTheRelay BY DEF IInv, Chosen
<1> QED BY Invariance, <1>1, PTL

\* No other that was live and fit all through the scan is overlooked.
THEOREM PicksTheSole == Spec => []ChoiceIsSole
<1>1. IInv => ChoiceIsSole BY DEF IInv, Scanned
<1> QED BY Invariance, <1>1, PTL

\* The only one there ever was, and that was there all through the scan, is not refused.
THEOREM FindsTheSole == Spec => []SoleIsFound
<1>1. IInv => SoleIsFound BY DEF IInv, Scanned
<1> QED BY Invariance, <1>1, PTL

\* The label of a mirror is the host it was reached at, for every set of destinations ssh can
\* make sense of and of any length (host_label).
THEOREM LabelsAreHosts == Spec => []LabelIsHost
<1>1. IInv => LabelIsHost BY DestinationAssumption, LabelOfDestination DEF LabelIsHost
<1> QED BY Invariance, <1>1, PTL

=============================================================================
