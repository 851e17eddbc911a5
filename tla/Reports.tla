------------------------------ MODULE Reports ------------------------------
(***************************************************************************)
(* The commands of src/cli/main.cpp over report and baseline files: scan,  *)
(* baseline create and apply, snapshot save and diff, with LoadBaseline    *)
(* and SaveBaseline of src/core/config.cpp.  Shells run commands side by   *)
(* side on the same files, processes gain and lose findings while they     *)
(* are scanned one after the other, calls fail and commands are killed.    *)
(*                                                                         *)
(* A finding is its process path, everything else that is hashed (its      *)
(* body) and whether the hash was made: regions with one fingerprint are   *)
(* one finding.                                                            *)
(***************************************************************************)
EXTENDS Integers

CONSTANTS
  Shells,       \* where commands are run
  NoHash,       \* the empty fingerprint of a finding that could not be hashed
  FileNames,    \* names of report and baseline files
  Pids,         \* process ids, without the 0 that stands for all
  Paths,        \* image paths, in any spelling
  Lower,        \* ToLower
  PathOf,       \* the image path of each process
  SeverityOf,   \* SeverityOf[b] : the severity of findings with body b
  Commands,     \* the commands that are run
  MaxCommands,  \* bound on the commands started
  MaxChanges,   \* bound on the changes of the processes
  Faults        \* whether calls may fail and commands be killed

Bodies == DOMAIN SeverityOf
NoPath == ""
AllPaths == Paths \cup {NoPath}
NoName == ""
Anomaly == [process : AllPaths, body : Bodies, hashed : BOOLEAN]
Hashes == AllPaths \X Bodies
Fingerprints == Hashes \cup {NoHash}

\* The options that were parsed.  pid = 0 stands for --all and for neither option.
CommandLine ==
  [op : {"scan", "create", "apply", "save", "diff"},
   pid : Pids \cup {0}, process : AllPaths, ignore_proc : SUBSET AllPaths,
   baseline : FileNames \cup {NoName}, out : FileNames \cup {NoName}, fail : STRING,
   old : FileNames, new : FileNames]

NoCommand == [op |-> "none"]

ASSUME ReportsAssumption ==
  /\ 0 \notin Pids /\ NoName \notin FileNames /\ NoHash \notin Hashes
  /\ Lower \in [AllPaths -> AllPaths] /\ PathOf \in [Pids -> AllPaths]
  /\ Commands \subseteq CommandLine
  /\ MaxCommands \in Nat /\ MaxChanges \in Nat /\ Faults \in BOOLEAN

VARIABLES
  machine,   \* machine[p] : the bodies of the findings that ScanPid would make now
  changes,   \* how often it changed
  files,     \* the contents of the files
  pc, cmd,   \* the next call of each shell and its command
  base,      \* the baseline it loaded
  todo,      \* the process ids still to scan
  items,     \* the findings of the scan
  old, new,  \* the reports that snapshot diff has read
  code,      \* the exit code
  found,     \* history: the findings before the baseline is applied
  started    \* commands started

target == <<machine, changes>>
vars == <<machine, changes, files, pc, cmd, base, todo, items, old, new, code, found, started>>

\* What a file yields when it is read: fingerprints of a report, or the app and the
\* allowed fingerprints of a baseline.  History: the findings it was made from, and
\* the shell that wrote it.
NoFile == [kind |-> "none", app |-> NoPath, fps |-> {}, whole |-> FALSE, of |-> {}, by |-> {}]
Content ==
  [kind : {"none", "report", "baseline"}, app : AllPaths, fps : SUBSET Fingerprints,
   whole : BOOLEAN, of : SUBSET Anomaly, by : SUBSET Shells]

----------------------------------------------------------------------------
(* Findings, reports and baselines.                                        *)

Fingerprint(a) == IF a.hashed THEN <<Lower[a.process], a.body>> ELSE NoHash
FingerprintsOf(as) == {Fingerprint(a) : a \in as}

SeverityRank ==
  [none |-> 0, low |-> 1, medium |-> 2, high |-> 3, critical |-> 4]
Rank(name) == IF name \in DOMAIN SeverityRank THEN SeverityRank[name] ELSE -1

\* The findings of one process, ignored ones left out.
Findings(p, ignored) ==
  {a \in Anomaly :
     a.process = PathOf[p] /\ a.body \in machine[p] /\ a.hashed /\ PathOf[p] \notin ignored}

\* The hash of any finding may fail.
Hashings(as) ==
  IF Faults THEN {{[a EXCEPT !.hashed = a \in made] : a \in as} : made \in SUBSET as} ELSE {as}

\* The baseline filter at the end of ScanPid.
Unsuppressed(as, fps) == {a \in as : Fingerprint(a) \notin fps}

\* The keys that are looked for are missing in a file of the other kind.  A report's
\* reader passes over an empty fingerprint, a baseline's does not.
Allowed(f) == IF f.kind = "baseline" THEN f.fps ELSE {}
FingerprintsFromReport(f) == IF f.kind = "report" THEN f.fps \ {NoHash} ELSE {}

\* The application that a baseline is for.
AppOf(c, as) ==
  IF c.process # NoPath \/ as = {} THEN c.process ELSE (CHOOSE a \in as : TRUE).process

\* Mutants of Kept: findings of every application, and those of a name that was
\* given only.
KeptOfAll(c, as) == as
KeptOfNamed(c, as) == {a \in as : a.process = c.process}

\* What goes into a baseline.
Kept(c, as) == {a \in as : a.process = AppOf(c, as)}

Rendered(s) ==
  LET c == cmd[s] IN
  IF c.op = "create"
  THEN [kind |-> "baseline", app |-> AppOf(c, items[s]),
        fps |-> FingerprintsOf(Kept(c, items[s])), whole |-> TRUE, of |-> items[s], by |-> {s}]
  ELSE [kind |-> "report", app |-> NoPath,
        fps |-> FingerprintsOf(items[s]), whole |-> TRUE, of |-> items[s], by |-> {s}]

\* What can be read of a file that was cut off: the fingerprints up to some point.  Those
\* of a baseline are all there behind the array's bracket; before it, the array is
\* dropped unless it ends right behind a comma.
Cut(f) ==
  {[f EXCEPT !.fps = part, !.whole = FALSE] : part \in SUBSET f.fps}
  \cup {[f EXCEPT !.app = NoPath, !.fps = {}, !.whole = FALSE]}

\* Mutants of ExitCode: a failed write is told before the findings, and the rank of
\* an unknown threshold is returned.
ExitCodeOfWrite(c, as, rc) ==
  IF c.op = "scan" /\ rc = 0 /\ \E a \in as : Rank(SeverityOf[a.body]) >= Rank(c.fail) THEN 1 ELSE rc

ExitCodeOfRank(c, as, rc) ==
  LET thr == Rank(c.fail) IN
  IF c.op # "scan" THEN rc
  ELSE IF thr < 0 THEN thr
  ELSE IF thr > 0 /\ \E a \in as : Rank(SeverityOf[a.body]) >= thr THEN 1
  ELSE rc

\* The threshold is read last; an unknown one makes 2 of any result.
ExitCode(c, as, rc) ==
  LET thr == Rank(c.fail) IN
  IF c.op # "scan" THEN rc
  ELSE IF thr < 0 THEN 2
  ELSE IF thr > 0 /\ \E a \in as : Rank(SeverityOf[a.body]) >= thr THEN 1
  ELSE rc

\* Mutant of DiffCode: what was removed does not count.
DiffCodeOfAdded(o, n) == IF FingerprintsFromReport(n) \subseteq FingerprintsFromReport(o) THEN 0 ELSE 1

DiffCode(o, n) == IF FingerprintsFromReport(o) = FingerprintsFromReport(n) THEN 0 ELSE 1

----------------------------------------------------------------------------
Init ==
  /\ machine \in [Pids -> SUBSET Bodies] /\ changes = 0
  /\ files = [f \in FileNames |-> NoFile]
  /\ pc = [s \in Shells |-> "idle"] /\ cmd = [s \in Shells |-> NoCommand]
  /\ base = [s \in Shells |-> NoFile] /\ todo = [s \in Shells |-> {}]
  /\ items = [s \in Shells |-> {}] /\ found = [s \in Shells |-> {}]
  /\ old = [s \in Shells |-> NoFile] /\ new = [s \in Shells |-> NoFile]
  /\ code = [s \in Shells |-> 0] /\ started = 0

Goto(s, from, to) == pc[s] = from /\ pc' = [pc EXCEPT ![s] = to]
Exit(s, n) == pc' = [pc EXCEPT ![s] = "exit"] /\ code' = [code EXCEPT ![s] = n]

\* A file that is being written is open to nobody else.
Busy(s, f) == \E t \in Shells \ {s} : pc[t] = "write" /\ cmd[t].out = f
Unreadable(s, f) == files[f].kind = "none" \/ Busy(s, f) \/ Faults

ArgsMissing(c) ==
  \/ c.op = "create" /\ (c.out = NoName \/ (c.pid = 0 /\ c.process = NoPath))
  \/ c.op = "apply" /\ c.baseline = NoName
  \/ c.op = "save" /\ c.out = NoName

AfterExceptions(c) ==
  IF c.op \in {"scan", "apply"} /\ c.baseline # NoName THEN "load" ELSE "scan"
FirstStep(c) ==
  IF c.op = "diff" THEN "old"
  ELSE IF c.op = "scan" /\ c.ignore_proc # {} THEN "exceptions" ELSE AfterExceptions(c)

\* The options are parsed; ScanSystem will go through one process or all of them.
Start(s, c) ==
  /\ pc[s] = "idle" /\ started < MaxCommands /\ ~ArgsMissing(c)
  /\ pc' = [pc EXCEPT ![s] = FirstStep(c)]
  /\ cmd' = [cmd EXCEPT ![s] = c]
  /\ todo' = [todo EXCEPT ![s] = IF c.pid = 0 THEN Pids ELSE {c.pid}]
  /\ started' = started + 1
  /\ UNCHANGED <<target, files, base, items, old, new, code, found>>

Rejected(s, c) ==
  /\ pc[s] = "idle" /\ started < MaxCommands /\ ArgsMissing(c)
  /\ Exit(s, 2) /\ cmd' = [cmd EXCEPT ![s] = c] /\ started' = started + 1
  /\ UNCHANGED <<target, files, base, todo, items, old, new, found>>

LoadExceptions(s) ==
  /\ Goto(s, "exceptions", AfterExceptions(cmd[s]))
  /\ UNCHANGED <<target, files, cmd, base, todo, items, old, new, code, found, started>>

\* Any text is a baseline: what has no "allowed" array allows nothing.
LoadBaseline(s) ==
  /\ Goto(s, "load", "scan")
  /\ files[cmd[s].baseline].kind # "none" /\ ~Busy(s, cmd[s].baseline)
  /\ base' = [base EXCEPT ![s] = files[cmd[s].baseline]]
  /\ UNCHANGED <<target, files, cmd, todo, items, old, new, code, found, started>>

LoadFails(s) ==
  /\ \/ pc[s] = "exceptions" /\ Faults
     \/ pc[s] = "load" /\ Unreadable(s, cmd[s].baseline)
  /\ Exit(s, 2)
  /\ UNCHANGED <<target, files, cmd, base, todo, items, old, new, found, started>>

\* One process; nothing is found in one that cannot be opened.
ScanPid(s, p) ==
  /\ pc[s] = "scan" /\ p \in todo[s]
  /\ todo' = [todo EXCEPT ![s] = @ \ {p}]
  /\ \E as \in Hashings(Findings(p, cmd[s].ignore_proc)) \cup (IF Faults THEN {{}} ELSE {}) :
       /\ found' = [found EXCEPT ![s] = @ \cup as]
       /\ items' = [items EXCEPT ![s] = @ \cup Unsuppressed(as, Allowed(base[s]))]
  /\ UNCHANGED <<target, files, pc, cmd, base, old, new, code, started>>

\* Without a name the report goes to the standard output.
ScanEnds(s) ==
  /\ pc[s] = "scan" /\ todo[s] = {}
  /\ IF cmd[s].out = NoName THEN Exit(s, ExitCode(cmd[s], items[s], 0))
     ELSE Goto(s, "scan", "open") /\ UNCHANGED code
  /\ UNCHANGED <<target, files, cmd, base, todo, items, old, new, found, started>>

\* CREATE_ALWAYS: what the file held is gone before anything is written.
OpenOut(s) ==
  /\ Goto(s, "open", "write") /\ ~Busy(s, cmd[s].out)
  /\ files' = [files EXCEPT ![cmd[s].out] =
                 [Rendered(s) EXCEPT !.app = NoPath, !.fps = {}, !.whole = FALSE]]
  /\ UNCHANGED <<target, cmd, base, todo, items, old, new, code, found, started>>

OpenFails(s) ==
  /\ pc[s] = "open" /\ (Busy(s, cmd[s].out) \/ Faults)
  /\ Exit(s, ExitCode(cmd[s], items[s], 2))
  /\ UNCHANGED <<target, files, cmd, base, todo, items, old, new, found, started>>

WriteOut(s) ==
  /\ pc[s] = "write" /\ Exit(s, ExitCode(cmd[s], items[s], 0))
  /\ files' = [files EXCEPT ![cmd[s].out] = Rendered(s)]
  /\ UNCHANGED <<target, cmd, base, todo, items, old, new, found, started>>

\* Mutant of ShortWriteCode: the number of bytes written is not compared.
UncheckedWriteCode == 0
ShortWriteCode == 2

\* The disk is full.
WriteCut(s) ==
  /\ Faults /\ pc[s] = "write" /\ Exit(s, ExitCode(cmd[s], items[s], ShortWriteCode))
  /\ \E cut \in Cut(Rendered(s)) : files' = [files EXCEPT ![cmd[s].out] = cut]
  /\ UNCHANGED <<target, cmd, base, todo, items, old, new, found, started>>

\* The result of ReadTextFile is not told from an empty report.
Read(s, f, into) ==
  \/ Unreadable(s, f) /\ into = NoFile
  \/ files[f].kind # "none" /\ ~Busy(s, f) /\ into = files[f]

ReadOld(s) ==
  /\ Goto(s, "old", "new")
  /\ \E f \in {files[cmd[s].old], NoFile} :
       Read(s, cmd[s].old, f) /\ old' = [old EXCEPT ![s] = f]
  /\ UNCHANGED <<target, files, cmd, base, todo, items, new, code, found, started>>

ReadNew(s) ==
  /\ pc[s] = "new"
  /\ \E f \in {files[cmd[s].new], NoFile} :
       /\ Read(s, cmd[s].new, f) /\ new' = [new EXCEPT ![s] = f]
       /\ Exit(s, DiffCode(old[s], f))
  /\ UNCHANGED <<target, files, cmd, base, todo, items, old, found, started>>

\* The process of the command ends.
Ends(s) ==
  /\ pc' = [pc EXCEPT ![s] = "idle"] /\ cmd' = [cmd EXCEPT ![s] = NoCommand]
  /\ base' = [base EXCEPT ![s] = NoFile] /\ todo' = [todo EXCEPT ![s] = {}]
  /\ items' = [items EXCEPT ![s] = {}] /\ found' = [found EXCEPT ![s] = {}]
  /\ old' = [old EXCEPT ![s] = NoFile] /\ new' = [new EXCEPT ![s] = NoFile]
  /\ code' = [code EXCEPT ![s] = 0]
  /\ UNCHANGED <<target, files, started>>

Return(s) == pc[s] = "exit" /\ Ends(s)
Killed(s) == Faults /\ pc[s] \notin {"idle", "exit"} /\ Ends(s)

\* A process changes.
Change(p) ==
  /\ changes < MaxChanges /\ changes' = changes + 1
  /\ \E bs \in SUBSET Bodies : machine' = [machine EXCEPT ![p] = bs]
  /\ UNCHANGED <<files, pc, cmd, base, todo, items, old, new, code, found, started>>

Step(s) ==
  \/ \E c \in Commands : Start(s, c) \/ Rejected(s, c)
  \/ LoadExceptions(s) \/ LoadBaseline(s) \/ LoadFails(s)
  \/ \E p \in Pids : ScanPid(s, p)
  \/ ScanEnds(s) \/ OpenOut(s) \/ OpenFails(s) \/ WriteOut(s) \/ WriteCut(s)
  \/ ReadOld(s) \/ ReadNew(s) \/ Return(s) \/ Killed(s)

Next == (\E s \in Shells : Step(s)) \/ (\E p \in Pids : Change(p))

Spec == Init /\ [][Next]_vars

----------------------------------------------------------------------------
(* Properties.                                                             *)

Steps == {"idle", "exceptions", "load", "scan", "open", "write", "old", "new", "exit"}

\* The type of every variable.
TypeOK ==
  /\ machine \in [Pids -> SUBSET Bodies] /\ changes \in 0..MaxChanges
  /\ files \in [FileNames -> Content]
  /\ pc \in [Shells -> Steps] /\ cmd \in [Shells -> Commands \cup {NoCommand}]
  /\ base \in [Shells -> Content] /\ todo \in [Shells -> SUBSET Pids]
  /\ items \in [Shells -> SUBSET Anomaly] /\ found \in [Shells -> SUBSET Anomaly]
  /\ old \in [Shells -> Content] /\ new \in [Shells -> Content]
  /\ code \in [Shells -> 0..2] /\ started \in 0..MaxCommands

\* A baseline hides findings of the application it was made for and of no other,
\* although the application's name is not compared when it is applied, whatever
\* happened to the file and whoever rewrote it; a finding that could not be hashed is
\* hidden only by a baseline that has one, too (main.cpp:218-221, memscan.cpp:612-617).
BaselineHidesOnlyItsApp ==
  \A s \in Shells : \A a \in found[s] \ items[s] :
    IF a.hashed THEN Lower[a.process] = Lower[base[s].app] ELSE \E b \in base[s].of : ~b.hashed

\* A baseline that was written whole hides all that its application had when it was
\* made, from every later scan that loads it (main.cpp:211-224, config.cpp:22-33).
BaselineHidesWhatItSaw ==
  \A s \in Shells : \A a \in base[s].of :
    base[s].kind = "baseline" /\ base[s].whole /\ a.process = base[s].app =>
      \A i \in items[s] : Fingerprint(i) # Fingerprint(a)

Exited(s, ops) == pc[s] = "exit" /\ cmd[s].op \in ops

\* A scan that found something at the threshold, which its baseline was not made
\* from, exits with 1: no failing write and no cut or rewritten baseline hides it
\* (main.cpp:193-203).
NewFindingRaisesAlarm ==
  \A s \in Shells : Exited(s, {"scan"}) /\ Rank(cmd[s].fail) > 0 =>
    \A a \in found[s] :
      /\ Rank(SeverityOf[a.body]) >= Rank(cmd[s].fail)
      /\ \A b \in base[s].of : Fingerprint(b) # Fingerprint(a)
      => code[s] = 1

\* A command that exits with 0 has left its file whole and with everything it found,
\* unless another command has opened the file since (json.cpp:230-242).
ZeroMeansWritten ==
  \A s \in Shells :
    Exited(s, {"scan", "create", "apply", "save"}) /\ code[s] = 0 /\ cmd[s].out # NoName =>
      LET f == files[cmd[s].out] IN f.by = {s} => f.whole /\ f.of = items[s]

Hashed(as) == {a \in as : a.hashed}

\* What the scan that made a snapshot found, of what could be hashed; what cannot be
\* read, or is no snapshot, has nothing.
FoundBy(f) == IF f.kind = "report" THEN FingerprintsOf(Hashed(f.of)) ELSE {}
WholeSnapshot(f) == f.kind = "report" /\ f.whole

\* A diff of two snapshots that were read whole exits with 0 exactly if the scans that
\* made them found the same.  Where only one was, and the other one is cut off, empty,
\* unreadable or no snapshot, 0 still means that nothing is lost of the whole one: the
\* other scan had found all of it (main.cpp:111-161, 258-263).
DiffComparesFindings ==
  \A s \in Shells : Exited(s, {"diff"}) =>
    /\ WholeSnapshot(old[s]) /\ WholeSnapshot(new[s]) =>
         (code[s] = 0) = (FoundBy(old[s]) = FoundBy(new[s]))
    /\ WholeSnapshot(old[s]) /\ code[s] = 0 => FoundBy(old[s]) \subseteq FoundBy(new[s])
    /\ WholeSnapshot(new[s]) /\ code[s] = 0 => FoundBy(new[s]) \subseteq FoundBy(old[s])
=============================================================================
