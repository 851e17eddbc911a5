--------------------------- MODULE ReportsProofs ---------------------------
(***************************************************************************)
(* Theorems of Reports, for any shells, files, processes and commands.     *)
(***************************************************************************)
EXTENDS Reports, TLAPS

(***************************************************************************)
(* The inductive invariant.                                                *)
(***************************************************************************)
\* What a baseline allows is its application's, was found when it was made, and is all
\* of that if the file is whole; a report has nothing but what was found, and all of it
\* if it is whole.
Scoped(f) ==
  /\ \A fp \in Allowed(f) : (fp # NoHash => fp[1] = Lower[f.app]) /\ fp \in FingerprintsOf(f.of)
  /\ f.kind = "baseline" /\ f.whole =>
       \A a \in f.of : a.process = f.app => Fingerprint(a) \in f.fps
  /\ f.kind = "report" => f.fps \subseteq FingerprintsOf(f.of)
  /\ f.kind = "report" /\ f.whole => f.fps = FingerprintsOf(f.of)

\* A shell at work has a command, and in each step the file names it needs.
CommandInv ==
  \A s \in Shells :
    /\ pc[s] # "idle" => cmd[s] \in Commands
    /\ pc[s] = "load" => cmd[s].baseline \in FileNames
    /\ pc[s] \in {"old", "new"} => cmd[s].op = "diff"
    /\ pc[s] \in {"exceptions", "load", "scan", "open", "write"} => cmd[s].op # "diff"
    /\ pc[s] \in {"idle", "exceptions", "load"} => found[s] = {} /\ items[s] = {}

\* The baseline that was loaded decides between the findings and the report.
FilterInv ==
  \A s \in Shells :
    /\ \A a \in found[s] \ items[s] : Fingerprint(a) \in Allowed(base[s])
    /\ \A a \in items[s] : Fingerprint(a) \notin Allowed(base[s])

ScopeInv ==
  /\ \A f \in FileNames : Scoped(files[f])
  /\ \A s \in Shells : Scoped(base[s]) /\ Scoped(old[s]) /\ Scoped(new[s])

Alarming(c, a) == Rank(SeverityOf[a.body]) >= Rank(c.fail)

\* A scan has returned 1 if it reports anything at the threshold.
ExitInv ==
  \A s \in Shells : Exited(s, {"scan"}) /\ Rank(cmd[s].fail) > 0 =>
    \A a \in items[s] : Alarming(cmd[s], a) => code[s] = 1

\* A diff has returned what the reports that it read say.
DiffInv == \A s \in Shells : Exited(s, {"diff"}) => code[s] = DiffCode(old[s], new[s])

IInv ==
  /\ TypeOK /\ CommandInv /\ ScopeInv /\ FilterInv /\ ExitInv /\ DiffInv
  /\ ZeroMeansWritten


(***************************************************************************)
(* What is written and read.                                               *)
(***************************************************************************)
LEMMA FingerprintTyped ==
  ASSUME NEW a \in Anomaly
  PROVE  /\ Fingerprint(a) \in Fingerprints
         /\ Fingerprint(a) = NoHash <=> ~a.hashed
         /\ Fingerprint(a) # NoHash => Fingerprint(a)[1] = Lower[a.process]
<1>1. CASE a.hashed
  <2>1. Fingerprint(a) = <<Lower[a.process], a.body>>
    BY <1>1 DEF Fingerprint
  <2>2. Fingerprint(a) \in Hashes
    BY <2>1, ReportsAssumption DEF Hashes, Anomaly
  <2> QED BY <1>1, <2>1, <2>2, ReportsAssumption DEF Fingerprints
<1>2. CASE ~a.hashed
  BY <1>2 DEF Fingerprint, Fingerprints
<1> QED BY <1>1, <1>2

LEMMA FingerprintsTyped ==
  ASSUME NEW as \in SUBSET Anomaly
  PROVE  FingerprintsOf(as) \in SUBSET Fingerprints
  BY FingerprintTyped DEF FingerprintsOf

LEMMA NoFileScoped == NoFile \in Content /\ Scoped(NoFile) /\ Allowed(NoFile) = {}
  BY DEF NoFile, Content, Scoped, Allowed, AllPaths

LEMMA AppTyped ==
  ASSUME NEW c \in Commands, NEW as \in SUBSET Anomaly
  PROVE  AppOf(c, as) \in AllPaths
<1>1. c.process \in AllPaths
  BY ReportsAssumption DEF CommandLine
<1>2. as # {} => (CHOOSE a \in as : TRUE).process \in AllPaths
  BY DEF Anomaly
<1> QED BY <1>1, <1>2 DEF AppOf

\* A file written whole is typed and scoped.
LEMMA RenderedScoped ==
  ASSUME TypeOK, NEW s \in Shells, cmd[s] \in Commands
  PROVE  Rendered(s) \in Content /\ Scoped(Rendered(s))
<1> DEFINE c == cmd[s]
           as == items[s]
<1>1. as \in SUBSET Anomaly
  BY DEF TypeOK
<1>2. AppOf(c, as) \in AllPaths
  BY <1>1, AppTyped
<1>3. Kept(c, as) \in SUBSET Anomaly /\ Kept(c, as) \subseteq as
  BY <1>1 DEF Kept
<1>4. CASE c.op = "create"
  <2>1. Rendered(s) = [kind |-> "baseline", app |-> AppOf(c, as),
          fps |-> FingerprintsOf(Kept(c, as)), whole |-> TRUE, of |-> as, by |-> {s}]
    BY <1>4 DEF Rendered
  <2>2. FingerprintsOf(Kept(c, as)) \in SUBSET Fingerprints
    BY <1>3, FingerprintsTyped
  <2>3. Rendered(s) \in Content
    BY <1>1, <1>2, <2>1, <2>2 DEF Content
  <2>4. \A fp \in FingerprintsOf(Kept(c, as)) :
          (fp # NoHash => fp[1] = Lower[AppOf(c, as)]) /\ fp \in FingerprintsOf(as)
    BY <1>1, <1>3, FingerprintTyped DEF Kept, FingerprintsOf
  <2>5. \A a \in as : a.process = AppOf(c, as) => Fingerprint(a) \in FingerprintsOf(Kept(c, as))
    BY DEF Kept, FingerprintsOf
  <2> QED BY <2>1, <2>3, <2>4, <2>5 DEF Scoped, Allowed
<1>5. CASE c.op # "create"
  <2>1. Rendered(s) = [kind |-> "report", app |-> NoPath,
          fps |-> FingerprintsOf(as), whole |-> TRUE, of |-> as, by |-> {s}]
    BY <1>5 DEF Rendered
  <2>2. Rendered(s) \in Content
    BY <1>1, <2>1, FingerprintsTyped DEF Content, AllPaths
  <2> QED BY <2>1, <2>2 DEF Scoped, Allowed
<1> QED BY <1>4, <1>5

\* So is a file that has just been emptied, or that was cut off.
LEMMA EmptiedScoped ==
  ASSUME NEW f \in Content
  PROVE  LET e == [f EXCEPT !.app = NoPath, !.fps = {}, !.whole = FALSE]
         IN  e \in Content /\ Scoped(e)
  BY DEF Content, Scoped, Allowed, AllPaths

LEMMA CutScoped ==
  ASSUME NEW f \in Content, Scoped(f), NEW e \in Cut(f)
  PROVE  e \in Content /\ Scoped(e)
<1>1. CASE e = [f EXCEPT !.app = NoPath, !.fps = {}, !.whole = FALSE]
  BY <1>1, EmptiedScoped
<1>2. ASSUME NEW part \in SUBSET f.fps, e = [f EXCEPT !.fps = part, !.whole = FALSE]
      PROVE  e \in Content /\ Scoped(e)
  <2>1. e \in Content
    BY <1>2 DEF Content
  <2>2. /\ e.kind = f.kind /\ e.app = f.app /\ e.of = f.of /\ e.fps = part /\ e.whole = FALSE
    BY <1>2 DEF Content
  <2> QED BY <2>1, <2>2 DEF Scoped, Allowed
<1> QED BY <1>1, <1>2 DEF Cut

LEMMA RankTyped == \A n : Rank(n) \in Int
  BY DEF Rank, SeverityRank

LEMMA ExitCodeTyped ==
  ASSUME NEW c, NEW as, NEW rc \in 0..2
  PROVE  ExitCode(c, as, rc) \in 0..2
<1>1. ExitCode(c, as, rc) = rc \/ ExitCode(c, as, rc) = 1 \/ ExitCode(c, as, rc) = 2
  <2>1. CASE c.op # "scan"
    BY <2>1 DEF ExitCode
  <2>2. CASE c.op = "scan" /\ Rank(c.fail) < 0
    BY <2>2 DEF ExitCode
  <2>3. CASE c.op = "scan" /\ ~(Rank(c.fail) < 0)
    BY <2>3, Zenon DEF ExitCode
  <2> QED BY <2>1, <2>2, <2>3, RankTyped
<1>2. 1 \in 0..2 /\ 2 \in 0..2
  OBVIOUS
<1> QED BY <1>1, <1>2, Zenon

\* Whatever became of the report, a scan that reports an alarming finding returns 1.
LEMMA ExitCodeAlarms ==
  ASSUME NEW c, NEW as, NEW rc, c.op = "scan", Rank(c.fail) > 0,
         NEW a \in as, Alarming(c, a)
  PROVE  ExitCode(c, as, rc) = 1
<1>1. Rank(c.fail) \in Int /\ ~(Rank(c.fail) < 0)
  BY RankTyped
<1> QED BY <1>1 DEF ExitCode, Alarming

(***************************************************************************)
(* The inductive invariant.                                                *)
(***************************************************************************)
LEMMA InitInv == Init => IInv
<1> SUFFICES ASSUME Init PROVE IInv
  OBVIOUS
<1>1. TypeOK
  BY ReportsAssumption, NoFileScoped DEF Init, TypeOK, Steps
<1>2. CommandInv /\ FilterInv /\ ExitInv /\ DiffInv /\ ZeroMeansWritten
  BY DEF Init, CommandInv, FilterInv, ExitInv, DiffInv, ZeroMeansWritten, Exited
<1>3. ScopeInv
  BY NoFileScoped DEF Init, ScopeInv
<1> QED BY <1>1, <1>2, <1>3 DEF IInv

\* A step of one shell leaves the locals of the others alone.
LEMMA StepLocal ==
  ASSUME TypeOK, NEW s \in Shells, Step(s), NEW t \in Shells, t # s
  PROVE  /\ pc'[t] = pc[t] /\ cmd'[t] = cmd[t] /\ base'[t] = base[t]
         /\ items'[t] = items[t] /\ found'[t] = found[t] /\ code'[t] = code[t]
         /\ old'[t] = old[t] /\ new'[t] = new[t]
<1> USE DEF TypeOK, Goto, Exit
<1>1. CASE \E c \in Commands : Start(s, c) \/ Rejected(s, c)
  BY <1>1 DEF Start, Rejected
<1>2. CASE LoadExceptions(s) \/ LoadBaseline(s) \/ LoadFails(s)
  BY <1>2 DEF LoadExceptions, LoadBaseline, LoadFails
<1>3. CASE \E p \in Pids : ScanPid(s, p)
  BY <1>3 DEF ScanPid
<1>4. CASE ScanEnds(s) \/ OpenOut(s) \/ OpenFails(s)
  BY <1>4 DEF ScanEnds, OpenOut, OpenFails
<1>5. CASE WriteOut(s) \/ WriteCut(s)
  BY <1>5 DEF WriteOut, WriteCut
<1>6. CASE ReadOld(s) \/ ReadNew(s)
  BY <1>6 DEF ReadOld, ReadNew
<1>7. CASE Return(s) \/ Killed(s)
  BY <1>7 DEF Return, Killed, Ends
<1> QED BY <1>1, <1>2, <1>3, <1>4, <1>5, <1>6, <1>7 DEF Step

LEMMA HashingsTyped ==
  ASSUME NEW p, NEW ignored, NEW as \in Hashings(Findings(p, ignored))
  PROVE  as \in SUBSET Anomaly
<1>1. \A a \in Anomaly, b \in BOOLEAN : [a EXCEPT !.hashed = b] \in Anomaly
  BY DEF Anomaly
<1>2. Findings(p, ignored) \in SUBSET Anomaly
  BY DEF Findings
<1>3. CASE Faults
  <2>1. PICK made \in SUBSET Findings(p, ignored) :
          as = {[a EXCEPT !.hashed = a \in made] : a \in Findings(p, ignored)}
    BY <1>3, Zenon DEF Hashings
  <2>2. \A a \in Findings(p, ignored) : [a EXCEPT !.hashed = a \in made] \in Anomaly
    <3> TAKE a \in Findings(p, ignored)
    <3>1. (a \in made) \in BOOLEAN
      OBVIOUS
    <3> QED BY <1>1, <1>2, <3>1
  <2> QED BY <2>1, <2>2
<1>4. CASE ~Faults
  BY <1>2, <1>4, Zenon DEF Hashings
<1> QED BY <1>3, <1>4

\* Reading gives what is on disk or nothing.
LEMMA ReadTyped ==
  ASSUME TypeOK, CommandInv, ScopeInv, NEW s \in Shells
  PROVE  /\ ReadOld(s) => \E f \in Content : Scoped(f) /\ old' = [old EXCEPT ![s] = f]
         /\ ReadNew(s) => \E f \in Content :
              Scoped(f) /\ new' = [new EXCEPT ![s] = f] /\ Exit(s, DiffCode(old[s], f))
<1>1. \A f \in FileNames : files[f] \in Content /\ Scoped(files[f])
  BY DEF TypeOK, ScopeInv
<1>2. pc[s] # "idle" => cmd[s].old \in FileNames /\ cmd[s].new \in FileNames
  BY ReportsAssumption DEF CommandInv, CommandLine
<1>3. NoFile \in Content /\ Scoped(NoFile)
  BY NoFileScoped
<1>4. ASSUME ReadOld(s)
      PROVE  \E f \in Content : Scoped(f) /\ old' = [old EXCEPT ![s] = f]
  BY <1>1, <1>2, <1>3, <1>4 DEF ReadOld, Goto
<1>5. ASSUME ReadNew(s)
      PROVE  \E f \in Content :
               Scoped(f) /\ new' = [new EXCEPT ![s] = f] /\ Exit(s, DiffCode(old[s], f))
  BY <1>1, <1>2, <1>3, <1>5 DEF ReadNew
<1> QED BY <1>4, <1>5

\* Every step leaves the files typed and scoped.
LEMMA StepFiles ==
  ASSUME IInv, NEW s \in Shells, Step(s)
  PROVE  files' \in [FileNames -> Content] /\ \A f \in FileNames : Scoped(files'[f])
<1> USE DEF IInv
<1>1. files \in [FileNames -> Content] /\ \A f \in FileNames : Scoped(files[f])
  BY DEF TypeOK, ScopeInv
<1>2. ASSUME NEW e \in Content, Scoped(e), pc[s] # "idle",
             files' = [files EXCEPT ![cmd[s].out] = e]
      PROVE  files' \in [FileNames -> Content] /\ \A f \in FileNames : Scoped(files'[f])
  BY <1>1, <1>2
<1>3. pc[s] # "idle" => Rendered(s) \in Content /\ Scoped(Rendered(s))
  BY RenderedScoped DEF CommandInv
<1>4. CASE OpenOut(s)
  BY <1>2, <1>3, <1>4, EmptiedScoped DEF OpenOut, Goto
<1>5. CASE WriteOut(s)
  BY <1>2, <1>3, <1>5 DEF WriteOut
<1>6. CASE WriteCut(s)
  BY <1>2, <1>3, <1>6, CutScoped DEF WriteCut
<1>7. CASE files' = files
  BY <1>1, <1>7
<1> QED BY <1>4, <1>5, <1>6, <1>7
  DEF Step, Start, Rejected, LoadExceptions, LoadBaseline, LoadFails, ScanPid, ScanEnds,
      OpenFails, ReadOld, ReadNew, Return, Killed, Ends

LEMMA StepType ==
  ASSUME IInv, NEW s \in Shells, Step(s)
  PROVE  TypeOK'
<1> USE DEF TypeOK, Goto, Exit, Steps, target
<1>0. TypeOK /\ CommandInv /\ ScopeInv
  BY DEF IInv
<1>1. ASSUME NEW c \in Commands, Start(s, c) \/ Rejected(s, c) PROVE TypeOK'
  <2>1. c.pid \in Pids \cup {0}
    BY ReportsAssumption DEF CommandLine
  <2>2. CASE Start(s, c)
    <3>1. FirstStep(c) \in Steps
      BY DEF FirstStep, AfterExceptions
    <3>2. (IF c.pid = 0 THEN Pids ELSE {c.pid}) \in SUBSET Pids
      BY <2>1
    <3>3. started' \in 0..MaxCommands
      BY <1>0, <2>2, ReportsAssumption DEF Start
    <3> QED BY <1>0, <2>2, <3>1, <3>2, <3>3 DEF Start
  <2>3. CASE Rejected(s, c)
    <3>1. started' \in 0..MaxCommands
      BY <1>0, <2>3, ReportsAssumption DEF Rejected
    <3> QED BY <1>0, <2>3, <3>1 DEF Rejected
  <2> QED BY <1>1, <2>2, <2>3
<1>2. CASE LoadExceptions(s)
  <2>1. AfterExceptions(cmd[s]) \in Steps
    BY DEF AfterExceptions
  <2> QED BY <1>0, <1>2, <2>1 DEF LoadExceptions
<1>3. CASE LoadBaseline(s)
  <2>1. files[cmd[s].baseline] \in Content
    BY <1>0, <1>3 DEF IInv, CommandInv, LoadBaseline
  <2> QED BY <1>0, <1>3, <2>1 DEF LoadBaseline
<1>4. CASE LoadFails(s)
  BY <1>0, <1>4 DEF LoadFails
<1>5. ASSUME NEW p \in Pids, ScanPid(s, p) PROVE TypeOK'
  <2>1. PICK as \in SUBSET Anomaly :
          /\ found' = [found EXCEPT ![s] = @ \cup as]
          /\ items' = [items EXCEPT ![s] = @ \cup Unsuppressed(as, Allowed(base[s]))]
    <3>1. PICK as \in Hashings(Findings(p, cmd[s].ignore_proc)) \cup (IF Faults THEN {{}} ELSE {}) :
            /\ found' = [found EXCEPT ![s] = @ \cup as]
            /\ items' = [items EXCEPT ![s] = @ \cup Unsuppressed(as, Allowed(base[s]))]
      BY <1>5, Zenon DEF ScanPid
    <3>2. as \in Hashings(Findings(p, cmd[s].ignore_proc)) \/ as = {}
      BY <3>1
    <3>3. as \in SUBSET Anomaly
      BY <3>2, HashingsTyped
    <3> QED BY <3>1, <3>3
  <2>2. Unsuppressed(as, Allowed(base[s])) \in SUBSET Anomaly
    BY DEF Unsuppressed
  <2> QED BY <1>0, <1>5, <2>1, <2>2 DEF ScanPid
<1>6. CASE ScanEnds(s) \/ OpenFails(s)
  <2>1. \A rc \in 0..2 : ExitCode(cmd[s], items[s], rc) \in 0..2
    BY ExitCodeTyped
  <2>2. CASE ScanEnds(s)
    BY <1>0, <2>1, <2>2 DEF ScanEnds
  <2>3. CASE OpenFails(s)
    BY <1>0, <2>1, <2>3 DEF OpenFails
  <2> QED BY <1>6, <2>2, <2>3
<1>7. CASE OpenOut(s) \/ WriteOut(s) \/ WriteCut(s)
  <2>1. files' \in [FileNames -> Content] /\ pc[s] # "idle"
    BY <1>0, <1>7, StepFiles DEF OpenOut, WriteOut, WriteCut
  <2>2. \A rc \in 0..2 : ExitCode(cmd[s], items[s], rc) \in 0..2
    BY ExitCodeTyped
  <2>3. CASE OpenOut(s)
    BY <1>0, <2>1, <2>3 DEF OpenOut
  <2>4. CASE WriteOut(s)
    BY <1>0, <2>1, <2>2, <2>4 DEF WriteOut
  <2>5. CASE WriteCut(s)
    BY <1>0, <2>1, <2>2, <2>5 DEF WriteCut, ShortWriteCode
  <2> QED BY <1>7, <2>3, <2>4, <2>5
<1>8. CASE ReadOld(s)
  <2>1. PICK f \in Content : old' = [old EXCEPT ![s] = f]
    BY <1>0, <1>8, ReadTyped DEF ReadOld
  <2> QED BY <1>0, <1>8, <2>1 DEF ReadOld
<1>9. CASE ReadNew(s)
  <2>1. PICK f \in Content : new' = [new EXCEPT ![s] = f] /\ Exit(s, DiffCode(old[s], f))
    BY <1>0, <1>9, ReadTyped DEF ReadNew
  <2>2. DiffCode(old[s], f) \in 0..2
    BY DEF DiffCode
  <2> QED BY <1>0, <1>9, <2>1, <2>2 DEF ReadNew
<1>10. CASE Return(s) \/ Killed(s)
  BY <1>0, <1>10, NoFileScoped DEF Return, Killed, Ends
<1> QED BY <1>1, <1>2, <1>3, <1>4, <1>5, <1>6, <1>7, <1>8, <1>9, <1>10 DEF Step

\* Locals of the shell that makes the step.
LEMMA StepCommand ==
  ASSUME IInv, NEW s \in Shells, Step(s)
  PROVE  CommandInv'
<1> USE DEF Goto, Exit
<1>0. TypeOK /\ CommandInv
  BY DEF IInv
<1> DEFINE P(t) == /\ pc'[t] # "idle" => cmd'[t] \in Commands
                   /\ pc'[t] = "load" => cmd'[t].baseline \in FileNames
                   /\ pc'[t] \in {"old", "new"} => cmd'[t].op = "diff"
                   /\ pc'[t] \in {"exceptions", "load", "scan", "open", "write"} => cmd'[t].op # "diff"
                   /\ pc'[t] \in {"idle", "exceptions", "load"} => found'[t] = {} /\ items'[t] = {}
<1>1. ASSUME NEW t \in Shells, t # s PROVE P(t)
  BY <1>0, <1>1, StepLocal DEF CommandInv
<1>2. P(s)
  <2> USE <1>0 DEF TypeOK, CommandInv
  <2>1. ASSUME NEW c \in Commands, AfterExceptions(c) = "load" PROVE c.baseline \in FileNames
    BY <2>1, ReportsAssumption DEF AfterExceptions, CommandLine
  <2>2. ASSUME NEW c \in Commands, Start(s, c) PROVE P(s)
    <3>1. /\ FirstStep(c) = "load" => c.baseline \in FileNames
          /\ FirstStep(c) \in {"old", "new"} => c.op = "diff"
          /\ FirstStep(c) \notin {"old", "new"} => c.op # "diff"
          /\ FirstStep(c) # "idle"
      BY <2>1 DEF FirstStep, AfterExceptions
    <3> QED BY <2>2, <3>1 DEF Start
  <2>3. ASSUME NEW c \in Commands, Rejected(s, c) PROVE P(s)
    BY <2>3 DEF Rejected
  <2>4. CASE LoadExceptions(s)
    BY <2>1, <2>4 DEF LoadExceptions, AfterExceptions
  <2>5. CASE LoadBaseline(s) \/ LoadFails(s)
    BY <2>5 DEF LoadBaseline, LoadFails
  <2>6. ASSUME NEW p \in Pids, ScanPid(s, p) PROVE P(s)
    BY <2>6 DEF ScanPid
  <2>7. CASE ScanEnds(s) \/ OpenOut(s) \/ OpenFails(s)
    BY <2>7 DEF ScanEnds, OpenOut, OpenFails
  <2>8. CASE WriteOut(s) \/ WriteCut(s)
    BY <2>8 DEF WriteOut, WriteCut
  <2>9. CASE ReadOld(s) \/ ReadNew(s)
    BY <2>9 DEF ReadOld, ReadNew
  <2>10. CASE Return(s) \/ Killed(s)
    BY <2>10 DEF Return, Killed, Ends
  <2> QED BY <2>2, <2>3, <2>4, <2>5, <2>6, <2>7, <2>8, <2>9, <2>10 DEF Step
<1> QED BY <1>1, <1>2 DEF CommandInv

\* What one process adds is divided by the baseline that was loaded; the baseline is
\* loaded while there is nothing to divide.
LEMMA StepFilter ==
  ASSUME IInv, NEW s \in Shells, Step(s)
  PROVE  FilterInv'
<1> USE DEF Goto, Exit
<1>0. TypeOK /\ CommandInv /\ FilterInv
  BY DEF IInv
<1> DEFINE P(t) == /\ \A a \in found'[t] \ items'[t] : Fingerprint(a) \in Allowed(base'[t])
                   /\ \A a \in items'[t] : Fingerprint(a) \notin Allowed(base'[t])
<1>1. ASSUME NEW t \in Shells, t # s PROVE P(t)
  BY <1>0, <1>1, StepLocal DEF FilterInv
<1>2. P(s)
  <2> USE <1>0 DEF TypeOK, CommandInv
  <2>1. CASE LoadBaseline(s)
    BY <2>1 DEF LoadBaseline
  <2>2. ASSUME NEW p \in Pids, ScanPid(s, p) PROVE P(s)
    <3>1. PICK as :
            /\ found' = [found EXCEPT ![s] = @ \cup as]
            /\ items' = [items EXCEPT ![s] = @ \cup Unsuppressed(as, Allowed(base[s]))]
            /\ base' = base
      BY <2>2 DEF ScanPid
    <3>2. found'[s] = found[s] \cup as /\ base'[s] = base[s]
          /\ items'[s] = items[s] \cup Unsuppressed(as, Allowed(base[s]))
      BY <3>1
    <3> QED BY <3>2 DEF FilterInv, Unsuppressed
  <2>3. CASE Return(s) \/ Killed(s)
    BY <2>3 DEF Return, Killed, Ends
  <2>4. CASE found'[s] = found[s] /\ items'[s] = items[s] /\ base'[s] = base[s]
    BY <2>4 DEF FilterInv
  <2> QED BY <2>1, <2>2, <2>3, <2>4
    DEF Step, Start, Rejected, LoadExceptions, LoadFails, ScanEnds, OpenOut, OpenFails,
        WriteOut, WriteCut, ReadOld, ReadNew
<1> QED BY <1>1, <1>2 DEF FilterInv

\* A baseline in use, and a report that was read, is what some file held.
LEMMA StepScope ==
  ASSUME IInv, NEW s \in Shells, Step(s)
  PROVE  ScopeInv'
<1>0. TypeOK /\ CommandInv /\ ScopeInv
  BY DEF IInv
<1> DEFINE P(t) == Scoped(base'[t]) /\ Scoped(old'[t]) /\ Scoped(new'[t])
<1>1. \A f \in FileNames : Scoped(files'[f])
  BY StepFiles
<1>2. ASSUME NEW t \in Shells, t # s PROVE P(t)
  BY <1>0, <1>2, StepLocal DEF ScopeInv
<1>3. P(s)
  <2>0. Scoped(base[s]) /\ Scoped(old[s]) /\ Scoped(new[s])
    BY <1>0 DEF ScopeInv
  <2> USE <1>0 DEF TypeOK
  <2>1. CASE LoadBaseline(s)
    <3>1. base'[s] = files[cmd[s].baseline] /\ cmd[s].baseline \in FileNames
      BY <2>1 DEF LoadBaseline, Goto, CommandInv
    <3>2. old' = old /\ new' = new
      BY <2>1 DEF LoadBaseline
    <3> QED BY <2>0, <3>1, <3>2 DEF ScopeInv
  <2>2. CASE ReadOld(s)
    <3>1. PICK f \in Content : Scoped(f) /\ old' = [old EXCEPT ![s] = f]
      BY <2>2, ReadTyped
    <3>2. base' = base /\ new' = new
      BY <2>2 DEF ReadOld
    <3> QED BY <2>0, <3>1, <3>2
  <2>3. CASE ReadNew(s)
    <3>1. PICK f \in Content : Scoped(f) /\ new' = [new EXCEPT ![s] = f]
      BY <2>3, ReadTyped
    <3>2. base' = base /\ old' = old
      BY <2>3 DEF ReadNew
    <3> QED BY <2>0, <3>1, <3>2
  <2>4. CASE Return(s) \/ Killed(s)
    BY <2>4, NoFileScoped DEF Return, Killed, Ends
  <2>5. CASE base' = base /\ old' = old /\ new' = new
    BY <2>0, <2>5
  <2> QED BY <2>1, <2>2, <2>3, <2>4, <2>5
    DEF Step, Start, Rejected, LoadExceptions, LoadFails, ScanPid, ScanEnds, OpenOut,
        OpenFails, WriteOut, WriteCut
<1> QED BY <1>1, <1>2, <1>3 DEF ScopeInv

\* A scan exits through ExitCode, or before it has found anything.
LEMMA StepExit ==
  ASSUME IInv, NEW s \in Shells, Step(s)
  PROVE  ExitInv'
<1> USE DEF Goto, Exit
<1>0. TypeOK /\ CommandInv /\ ExitInv
  BY DEF IInv
<1> DEFINE P(t) ==
      pc'[t] = "exit" /\ cmd'[t].op = "scan" /\ Rank(cmd'[t].fail) > 0 =>
        \A a \in items'[t] : Alarming(cmd'[t], a) => code'[t] = 1
<1>1. ASSUME NEW t \in Shells, t # s PROVE P(t)
  BY <1>0, <1>1, StepLocal DEF ExitInv, Exited
<1>2. P(s)
  <2> USE <1>0 DEF TypeOK
  <2>1. ASSUME NEW rc \in 0..2, code'[s] = ExitCode(cmd[s], items[s], rc),
               cmd'[s] = cmd[s], items'[s] = items[s]
        PROVE  P(s)
    BY <2>1, ExitCodeAlarms
  <2>2. CASE pc'[s] # "exit"
    BY <2>2
  <2>3. ASSUME NEW c \in Commands, Rejected(s, c) PROVE P(s)
    BY <2>3 DEF Rejected, CommandInv
  <2>4. CASE LoadFails(s)
    BY <2>4 DEF LoadFails, CommandInv
  <2>5. CASE ScanEnds(s)
    BY <2>1, <2>2, <2>5 DEF ScanEnds
  <2>6. CASE OpenFails(s) \/ WriteOut(s) \/ WriteCut(s)
    BY <2>1, <2>6 DEF OpenFails, WriteOut, WriteCut, ShortWriteCode
  <2>7. CASE ReadNew(s)
    BY <2>7 DEF ReadNew, CommandInv
  <2>8. ASSUME NEW c \in Commands, Start(s, c) PROVE P(s)
    BY <2>2, <2>8 DEF Start, FirstStep, AfterExceptions
  <2>9. CASE LoadExceptions(s) \/ LoadBaseline(s)
    BY <2>2, <2>9 DEF LoadExceptions, LoadBaseline, AfterExceptions
  <2>10. ASSUME NEW p \in Pids, ScanPid(s, p) PROVE P(s)
    BY <2>2, <2>10 DEF ScanPid, Exited
  <2>11. CASE OpenOut(s) \/ ReadOld(s)
    BY <2>2, <2>11 DEF OpenOut, ReadOld
  <2>12. CASE Return(s) \/ Killed(s)
    BY <2>2, <2>12 DEF Return, Killed, Ends
  <2> QED BY <2>3, <2>4, <2>5, <2>6, <2>7, <2>8, <2>9, <2>10, <2>11, <2>12 DEF Step
<1> QED BY <1>1, <1>2 DEF ExitInv, Exited

\* A diff exits when it has read the second report.
LEMMA StepDiff ==
  ASSUME IInv, NEW s \in Shells, Step(s)
  PROVE  DiffInv'
<1>0. TypeOK /\ CommandInv /\ DiffInv
  BY DEF IInv
<1> DEFINE P(t) == pc'[t] = "exit" /\ cmd'[t].op = "diff" => code'[t] = DiffCode(old'[t], new'[t])
<1>1. ASSUME NEW t \in Shells, t # s PROVE P(t)
  BY <1>0, <1>1, StepLocal DEF DiffInv, Exited
<1>2. P(s)
  <2> USE <1>0 DEF TypeOK, Goto
  <2>1. CASE pc'[s] # "exit"
    BY <2>1
  <2>2. CASE cmd'[s].op # "diff"
    BY <2>2
  <2>3. CASE ReadNew(s)
    <3>1. PICK f : new' = [new EXCEPT ![s] = f] /\ code' = [code EXCEPT ![s] = DiffCode(old[s], f)]
      BY <2>3 DEF ReadNew, Exit
    <3>2. old' = old
      BY <2>3 DEF ReadNew
    <3> QED BY <3>1, <3>2
  <2>4. ASSUME NEW c \in Commands, Start(s, c) PROVE pc'[s] # "exit"
    BY <2>4 DEF Start, FirstStep, AfterExceptions
  <2>5. ASSUME NEW c \in Commands, Rejected(s, c) PROVE cmd'[s].op # "diff"
    BY <2>5 DEF Rejected, ArgsMissing
  <2>6. CASE LoadExceptions(s) \/ LoadBaseline(s) \/ OpenOut(s) \/ ReadOld(s)
    BY <2>1, <2>6 DEF LoadExceptions, LoadBaseline, OpenOut, ReadOld, AfterExceptions
  <2>7. CASE (\E p \in Pids : ScanPid(s, p)) \/ ScanEnds(s)
    BY <2>2, <2>7 DEF ScanPid, ScanEnds, CommandInv
  <2>8. CASE LoadFails(s) \/ OpenFails(s) \/ WriteOut(s) \/ WriteCut(s)
    BY <2>2, <2>8 DEF LoadFails, OpenFails, WriteOut, WriteCut, CommandInv
  <2>9. CASE Return(s) \/ Killed(s)
    BY <2>1, <2>9 DEF Return, Killed, Ends
  <2> QED BY <2>1, <2>2, <2>3, <2>4, <2>5, <2>6, <2>7, <2>8, <2>9 DEF Step
<1> QED BY <1>1, <1>2 DEF DiffInv, Exited

LEMMA FailedCodeStays ==
  ASSUME NEW c, NEW as
  PROVE  ExitCode(c, as, 2) # 0
<1>1. CASE c.op # "scan"
  BY <1>1 DEF ExitCode
<1>2. CASE c.op = "scan" /\ Rank(c.fail) < 0
  BY <1>2 DEF ExitCode
<1>3. CASE c.op = "scan" /\ ~(Rank(c.fail) < 0)
  <2>1. ExitCode(c, as, 2) = 1 \/ ExitCode(c, as, 2) = 2
    BY <1>3, Zenon DEF ExitCode
  <2>2. 1 # 0 /\ 2 # 0
    OBVIOUS
  <2> QED BY <2>1, <2>2, Zenon
<1> QED BY <1>1, <1>2, <1>3

\* A file that is opened is the opener's; otherwise it keeps what it had.
LEMMA StepOwner ==
  ASSUME IInv, NEW s \in Shells, Step(s), NEW f \in FileNames
  PROVE  files'[f] = files[f] \/ files'[f].by = {s}
<1>0. TypeOK /\ CommandInv
  BY DEF IInv
<1>1. Rendered(s).by = {s} /\ (pc[s] # "idle" => Rendered(s) \in Content)
  <2>1. Rendered(s).by = {s}
    BY DEF Rendered
  <2> QED BY <1>0, <2>1, RenderedScoped DEF CommandInv
<1>2. ASSUME NEW e, e.by = {s}, files' = [files EXCEPT ![cmd[s].out] = e]
      PROVE  files'[f] = files[f] \/ files'[f].by = {s}
  BY <1>0, <1>2 DEF TypeOK
<1>3. ASSUME NEW r \in Content, r.by = {s}
      PROVE  /\ [r EXCEPT !.app = NoPath, !.fps = {}, !.whole = FALSE].by = {s}
             /\ \A e \in Cut(r) : e.by = {s}
  BY <1>3 DEF Cut, Content
<1>4. CASE OpenOut(s)
  BY <1>1, <1>2, <1>3, <1>4 DEF OpenOut, Goto
<1>5. CASE WriteOut(s)
  BY <1>1, <1>2, <1>5 DEF WriteOut
<1>6. CASE WriteCut(s)
  <2>1. PICK cut \in Cut(Rendered(s)) : files' = [files EXCEPT ![cmd[s].out] = cut]
    BY <1>6 DEF WriteCut
  <2>2. pc[s] # "idle"
    BY <1>6 DEF WriteCut
  <2> QED BY <1>1, <1>2, <1>3, <2>1, <2>2
<1>7. CASE files' = files
  BY <1>7
<1> QED BY <1>4, <1>5, <1>6, <1>7
  DEF Step, Start, Rejected, LoadExceptions, LoadBaseline, LoadFails, ScanPid, ScanEnds,
      OpenFails, ReadOld, ReadNew, Return, Killed, Ends

\* Only the step that writes all of a report ends a command with 0.
LEMMA StepWritten ==
  ASSUME IInv, NEW s \in Shells, Step(s)
  PROVE  ZeroMeansWritten'
<1>0. TypeOK /\ CommandInv /\ ZeroMeansWritten
  BY DEF IInv
<1> DEFINE Q(t) == /\ pc'[t] = "exit" /\ code'[t] = 0
                   /\ cmd'[t].op \in {"scan", "create", "apply", "save"} /\ cmd'[t].out # NoName
           P(t) == Q(t) /\ files'[cmd'[t].out].by = {t}
                     => /\ files'[cmd'[t].out].whole
                        /\ files'[cmd'[t].out].of = items'[t]
<1>1. ASSUME NEW t \in Shells, t # s PROVE P(t)
  <2>1. SUFFICES ASSUME Q(t), files'[cmd'[t].out].by = {t}
                 PROVE  files'[cmd'[t].out].whole /\ files'[cmd'[t].out].of = items'[t]
    OBVIOUS
  <2>2. /\ pc[t] = "exit" /\ code[t] = 0 /\ cmd'[t] = cmd[t] /\ items'[t] = items[t]
        /\ cmd[t].op \in {"scan", "create", "apply", "save"} /\ cmd[t].out # NoName
    BY <1>0, <1>1, <2>1, StepLocal
  <2>3. cmd[t].out \in FileNames
    BY <1>0, <2>2, ReportsAssumption DEF CommandInv, CommandLine
  <2>4. files'[cmd[t].out] = files[cmd[t].out]
    BY <1>1, <2>1, <2>2, <2>3, StepOwner
  <2> QED BY <1>0, <2>1, <2>2, <2>4 DEF ZeroMeansWritten, Exited
<1>2. P(s)
  <2> USE <1>0 DEF TypeOK, Goto
  <2>1. CASE pc'[s] # "exit" \/ code'[s] # 0
    BY <2>1
  <2>2. CASE WriteOut(s)
    <3>1. cmd[s] \in Commands /\ cmd' = cmd /\ items' = items
      BY <2>2 DEF WriteOut, CommandInv
    <3>2. files' = [files EXCEPT ![cmd[s].out] = Rendered(s)]
      BY <2>2 DEF WriteOut
    <3>3. Rendered(s).whole /\ Rendered(s).of = items[s]
      BY DEF Rendered
    <3>4. cmd[s].out # NoName => cmd[s].out \in FileNames
      BY <3>1, ReportsAssumption DEF CommandLine
    <3> QED BY <3>1, <3>2, <3>3, <3>4
  <2>3. CASE ScanEnds(s)
    BY <2>3 DEF ScanEnds
  <2>4. ASSUME NEW c \in Commands, Start(s, c) PROVE pc'[s] # "exit"
    BY <2>4 DEF Start, FirstStep, AfterExceptions
  <2>5. ASSUME NEW c \in Commands, Rejected(s, c) PROVE code'[s] # 0
    BY <2>5 DEF Rejected, Exit
  <2>6. CASE LoadExceptions(s) \/ LoadBaseline(s) \/ OpenOut(s) \/ ReadOld(s)
    BY <2>1, <2>6 DEF LoadExceptions, LoadBaseline, OpenOut, ReadOld, AfterExceptions
  <2>7. ASSUME NEW p \in Pids, ScanPid(s, p) PROVE pc'[s] # "exit"
    BY <2>7 DEF ScanPid
  <2>8. CASE LoadFails(s) \/ OpenFails(s) \/ WriteCut(s)
    BY <2>1, <2>8, FailedCodeStays DEF LoadFails, OpenFails, WriteCut, ShortWriteCode, Exit
  <2>9. CASE ReadNew(s)
    BY <2>9 DEF ReadNew, CommandInv
  <2>10. CASE Return(s) \/ Killed(s)
    BY <2>1, <2>10 DEF Return, Killed, Ends
  <2> QED BY <2>1, <2>2, <2>3, <2>4, <2>5, <2>6, <2>7, <2>8, <2>9, <2>10 DEF Step
<1> QED BY <1>1, <1>2 DEF ZeroMeansWritten, Exited

LEMMA StepInv == IInv /\ [Next]_vars => IInv'
<1> SUFFICES ASSUME IInv, [Next]_vars PROVE IInv'
  OBVIOUS
<1>1. CASE UNCHANGED vars
  BY <1>1 DEF vars, target, IInv, TypeOK, CommandInv, ScopeInv, FilterInv, ExitInv, DiffInv,
              ZeroMeansWritten, Exited
<1>2. ASSUME NEW s \in Shells, Step(s) PROVE IInv'
  BY <1>2, StepType, StepCommand, StepFilter, StepScope, StepExit, StepDiff, StepWritten DEF IInv
<1>3. ASSUME NEW p \in Pids, Change(p) PROVE IInv'
  <2>1. TypeOK'
    BY <1>3, ReportsAssumption DEF IInv, TypeOK, Change
  <2> QED BY <1>3, <2>1 DEF Change, IInv, CommandInv, ScopeInv, FilterInv, ExitInv, DiffInv,
                            ZeroMeansWritten, Exited
<1> QED BY <1>1, <1>2, <1>3 DEF Next

\* The invariant that the theorems rest on.
THEOREM Inductive == Spec => []IInv
  BY InitInv, StepInv, PTL DEF Spec

(***************************************************************************)
(* What follows from it.                                                   *)
(***************************************************************************)

\* Every variable keeps its type.
THEOREM TypeCorrect == Spec => []TypeOK
<1>1. IInv => TypeOK
  BY DEF IInv
<1> QED BY <1>1, Inductive, PTL

\* A baseline hides findings of its own application only, and one without a hash only
\* if it has such a finding itself (main.cpp:218-221, memscan.cpp:612-617).
THEOREM HidesOnlyItsApp == Spec => []BaselineHidesOnlyItsApp
<1>1. IInv => BaselineHidesOnlyItsApp
  <2> SUFFICES ASSUME IInv, NEW s \in Shells, NEW a \in found[s] \ items[s]
               PROVE  IF a.hashed THEN Lower[a.process] = Lower[base[s].app]
                      ELSE \E b \in base[s].of : ~b.hashed
    BY DEF BaselineHidesOnlyItsApp
  <2>1. Fingerprint(a) \in Allowed(base[s]) /\ a \in Anomaly
    BY DEF IInv, FilterInv, TypeOK
  <2>2. /\ Fingerprint(a) # NoHash => Fingerprint(a)[1] = Lower[base[s].app]
        /\ Fingerprint(a) \in FingerprintsOf(base[s].of)
    BY <2>1 DEF IInv, ScopeInv, Scoped
  <2>3. CASE a.hashed
    BY <2>1, <2>2, <2>3, FingerprintTyped
  <2>4. CASE ~a.hashed
    <3>1. PICK b \in base[s].of : Fingerprint(b) = NoHash
      BY <2>1, <2>2, <2>4, FingerprintTyped DEF FingerprintsOf
    <3>2. b \in Anomaly
      BY DEF IInv, TypeOK, Content
    <3> QED BY <2>4, <3>1, <3>2, FingerprintTyped
  <2> QED BY <2>3, <2>4
<1> QED BY <1>1, Inductive, PTL

\* A whole baseline hides all that its application had (main.cpp:211-224).
THEOREM HidesWhatItSaw == Spec => []BaselineHidesWhatItSaw
<1>1. IInv => BaselineHidesWhatItSaw
  BY DEF IInv, ScopeInv, Scoped, FilterInv, Allowed, BaselineHidesWhatItSaw
<1> QED BY <1>1, Inductive, PTL

\* A finding at the threshold that is new to the baseline makes the exit code 1,
\* whatever fails (main.cpp:193-203).
THEOREM AlarmIsRaised == Spec => []NewFindingRaisesAlarm
<1>1. IInv => NewFindingRaisesAlarm
  <2> SUFFICES ASSUME IInv, NEW s \in Shells, Exited(s, {"scan"}), Rank(cmd[s].fail) > 0,
                      NEW a \in found[s], Alarming(cmd[s], a),
                      \A b \in base[s].of : Fingerprint(b) # Fingerprint(a)
               PROVE  code[s] = 1
    BY DEF NewFindingRaisesAlarm, Alarming
  <2>1. Fingerprint(a) \notin Allowed(base[s])
    BY DEF IInv, ScopeInv, Scoped, FingerprintsOf
  <2>2. a \in items[s]
    BY <2>1 DEF IInv, FilterInv
  <2> QED BY <2>2 DEF IInv, ExitInv
<1> QED BY <1>1, Inductive, PTL

\* A command that exits with 0 has left its file whole, whatever other commands wrote
\* meanwhile, unless one of them has opened the file since (json.cpp:230-242).
THEOREM ZeroIsWritten == Spec => []ZeroMeansWritten
<1>1. IInv => ZeroMeansWritten
  BY DEF IInv
<1> QED BY <1>1, Inductive, PTL

\* What is compared of a snapshot was found by its scan and could be hashed; of a whole
\* one it is all of that.
LEMMA ReadOfSnapshot ==
  ASSUME NEW f \in Content, Scoped(f)
  PROVE  /\ FingerprintsFromReport(f) \subseteq FoundBy(f)
         /\ WholeSnapshot(f) => FingerprintsFromReport(f) = FoundBy(f)
<1>1. CASE f.kind = "report"
  <2>1. \A a \in f.of : Fingerprint(a) = NoHash <=> ~a.hashed
    BY FingerprintTyped DEF Content
  <2>2. FingerprintsOf(f.of) \ {NoHash} = FoundBy(f)
    BY <1>1, <2>1 DEF FoundBy, FingerprintsOf, Hashed
  <2>3. FingerprintsFromReport(f) = f.fps \ {NoHash}
    BY <1>1 DEF FingerprintsFromReport
  <2> QED BY <1>1, <2>2, <2>3 DEF Scoped, WholeSnapshot
<1>2. CASE f.kind # "report"
  BY <1>2 DEF FingerprintsFromReport, WholeSnapshot
<1> QED BY <1>1, <1>2

\* The exit code of a diff says whether the scans found the same, and 0 never passes
\* over what a whole snapshot has, whatever the other one is (main.cpp:111-161, 258-263).
THEOREM DiffIsExact == Spec => []DiffComparesFindings
<1>1. IInv => DiffComparesFindings
  <2> SUFFICES ASSUME IInv, NEW s \in Shells, Exited(s, {"diff"})
               PROVE  /\ WholeSnapshot(old[s]) /\ WholeSnapshot(new[s]) =>
                           (code[s] = 0) = (FoundBy(old[s]) = FoundBy(new[s]))
                      /\ WholeSnapshot(old[s]) /\ code[s] = 0 =>
                           FoundBy(old[s]) \subseteq FoundBy(new[s])
                      /\ WholeSnapshot(new[s]) /\ code[s] = 0 =>
                           FoundBy(new[s]) \subseteq FoundBy(old[s])
    BY DEF DiffComparesFindings
  <2>1. /\ old[s] \in Content /\ Scoped(old[s])
        /\ new[s] \in Content /\ Scoped(new[s])
    BY DEF IInv, TypeOK, ScopeInv
  <2>2. (code[s] = 0) = (FingerprintsFromReport(old[s]) = FingerprintsFromReport(new[s]))
    BY DEF IInv, DiffInv, DiffCode
  <2>3. /\ FingerprintsFromReport(old[s]) \subseteq FoundBy(old[s])
        /\ FingerprintsFromReport(new[s]) \subseteq FoundBy(new[s])
        /\ WholeSnapshot(old[s]) => FingerprintsFromReport(old[s]) = FoundBy(old[s])
        /\ WholeSnapshot(new[s]) => FingerprintsFromReport(new[s]) = FoundBy(new[s])
    BY <2>1, ReadOfSnapshot
  <2> QED BY <2>2, <2>3
<1> QED BY <1>1, Inductive, PTL
=============================================================================
