-------------------------- MODULE SystemScanProofs --------------------------
(***************************************************************************)
(* Theorems of SystemScan, for any processes, pids, tids and options.      *)
(***************************************************************************)
EXTENDS SystemScan, FiniteSetTheorems, TLAPS

(***************************************************************************)
(* Type correctness.  That the process whose memory is read can be opened  *)
(* needs Holding: from the second call on, the handle keeps the pid for    *)
(* the process, and the parts known are of it.                             *)
(***************************************************************************)
Holding ==
  /\ pc # "scan" => call = 1
  /\ call = 1 => h = NoProc /\ parts.modules = {}
  /\ call > 1 => /\ h \in Openable /\ running[pid] = h
                 /\ parts.process \subseteq {h} /\ parts.modules \subseteq {h}
  /\ running[0] = Idle

LEMMA CallsInOrder ==
  /\ DOMAIN Calls = 1..5
  /\ \A k \in 1..5 : /\ Calls[k] = "open" <=> k = 1
                     /\ Calls[k] = "walk" <=> k = 5
  BY DEF Calls

LEMMA NoPartsTyped == NoParts \in Parts /\ NoParts.process = {} /\ NoParts.modules = {}
  BY DEF NoParts, Parts

LEMMA PartsTyped ==
  ASSUME NEW q \in SUBSET Procs, parts \in Parts
  PROVE  /\ [parts EXCEPT !.process = q] \in Parts
         /\ [parts EXCEPT !.modules = q] \in Parts
         /\ [parts EXCEPT !.thread_starts = q] \in Parts
         /\ [parts EXCEPT !.process = q].process = q
         /\ [parts EXCEPT !.process = q].modules = parts.modules
         /\ [parts EXCEPT !.modules = q].process = parts.process
         /\ [parts EXCEPT !.modules = q].modules = q
         /\ [parts EXCEPT !.thread_starts = q].process = parts.process
         /\ [parts EXCEPT !.thread_starts = q].modules = parts.modules
  BY DEF Parts

LEMMA UsedFinite == IsFiniteSet(Used) /\ Cardinality(Used) \in Nat
<1>1. Used \in SUBSET Pids /\ IsFiniteSet(Pids)
  BY SystemAssumption DEF Used
<1>2. IsFiniteSet(Used)
  BY <1>1, FS_Subset
<1> QED BY <1>2, FS_CardinalityType

LEMMA InitHolds == Init => TypeOK /\ Holding
<1> SUFFICES ASSUME Init PROVE TypeOK /\ Holding
  OBVIOUS
<1>1. /\ 0 \in Pids /\ pid = 0 /\ call = 1 /\ call \in DOMAIN Calls
      /\ parts \in Parts /\ parts.process = {} /\ parts.modules = {}
  BY SystemAssumption, CallsInOrder, NoPartsTyped DEF Init
<1>2. threads \in [Tids -> Procs \cup {NoProc}]
  BY DEF Init
<1>3. /\ running \in [Pids -> Procs \cup {NoProc}] /\ running[0] = Idle /\ ended = {}
      /\ opt \in Options /\ pc = "enum" /\ pids = {} /\ h = NoProc /\ snap = {}
      /\ out = {} /\ always = {} /\ missed = {} /\ walked = {}
  BY DEF Init
<1>4. cut \in BOOLEAN
  BY Zenon DEF Init
<1>5. Holding
  BY <1>1, <1>3 DEF Holding
<1>6. TypeOK
  BY <1>1, <1>2, <1>3, <1>4 DEF TypeOK
<1> QED BY <1>5, <1>6

\* What the others do leaves the process that is held its pid.
LEMMA SystemStep ==
  ASSUME TypeOK, Holding, System PROVE TypeOK' /\ Holding'
<1>1. ASSUME NEW q \in Procs, Exit(q) PROVE TypeOK' /\ Holding'
  <2>1. TypeOK'
    BY <1>1 DEF TypeOK, Exit, scan
  <2>2. Holding'
    BY <1>1, SystemAssumption DEF TypeOK, Holding, Exit, Live, scan
  <2> QED BY <2>1, <2>2
<1>2. ASSUME NEW q \in Procs, NEW k \in Pids, Start(q, k) PROVE TypeOK' /\ Holding'
  <2>1. TypeOK'
    BY <1>2 DEF TypeOK, Start, scan
  <2>2. Holding'
    BY <1>2, SystemAssumption DEF TypeOK, Holding, Start, scan
  <2> QED BY <2>1, <2>2
<1>3. ASSUME NEW q \in Procs, NEW t \in Tids, StartThread(q, t) PROVE TypeOK' /\ Holding'
  BY <1>3 DEF TypeOK, Holding, StartThread, scan
<1>4. ASSUME NEW t \in Tids, ExitThread(t) PROVE TypeOK' /\ Holding'
  BY <1>4 DEF TypeOK, Holding, ExitThread, scan
<1> QED BY <1>1, <1>2, <1>3, <1>4 DEF System

LEMMA LoopStep ==
  ASSUME TypeOK, Holding, ListPids \/ NextPid \/ ScanSystemReturns PROVE TypeOK' /\ Holding'
<1>1. CASE ListPids
  <2>1. pids' \subseteq Pids /\ cut' \in BOOLEAN
    <3>1. opt.pid \in Pids
      BY SystemAssumption DEF TypeOK
    <3>2. pids' \subseteq Pids
      BY <1>1, <3>1 DEF ListPids, EnumAllPids, Used
    <3>3. cut' \in {TRUE, FALSE, Cardinality(Used) > MaxPids}
      BY <1>1, Zenon DEF ListPids, EnumAllPids
    <3>4. (Cardinality(Used) > MaxPids) \in BOOLEAN
      <4>1. Cardinality(Used) \in Nat /\ MaxPids \in Nat
        BY UsedFinite, SystemAssumption
      <4> QED BY <4>1
    <3>5. cut' \in BOOLEAN
      BY <3>3, <3>4, Zenon
    <3> QED BY <3>2, <3>5
  <2>2. always' \subseteq Procs \ ended /\ missed' \subseteq Procs
    BY <1>1 DEF ListPids, EnumAllPids, Live
  <2> QED BY <1>1, <2>1, <2>2 DEF TypeOK, Holding, ListPids, system, scan
<1>2. CASE NextPid
  BY <1>2 DEF TypeOK, Holding, NextPid, Rest, system
<1>3. CASE ScanSystemReturns
  BY <1>3 DEF TypeOK, Holding, ScanSystemReturns, system, scan
<1> QED BY <1>1, <1>2, <1>3

LEMMA OpenStep ==
  ASSUME TypeOK, Holding, OpenProcess \/ OpenProcessFails PROVE TypeOK' /\ Holding'
<1>1. CASE OpenProcess
  <2>1. /\ h' \in Openable /\ h' = running[pid] /\ call = 1 /\ call' = 2 /\ pc = "scan"
        /\ UNCHANGED <<system, opt, pc, pids, pid, snap, out, always, missed, cut, walked>>
    BY <1>1, SystemAssumption, CallsInOrder DEF TypeOK, OpenProcess, HandleOf, GoOn, At
  <2>2. PICK name \in {{}, {h'}} : parts' = [parts EXCEPT !.process = name]
    BY <1>1 DEF OpenProcess
  <2>3. parts' \in Parts /\ parts'.process \subseteq {h'} /\ parts'.modules = {}
    <3>1. name \subseteq Procs /\ parts \in Parts /\ parts.modules = {}
      BY <2>1, <2>2, SystemAssumption DEF TypeOK, Holding
    <3> QED BY <2>2, <3>1, PartsTyped
  <2>4. Holding'
    BY <2>1, <2>3 DEF TypeOK, Holding, system
  <2> QED BY <2>1, <2>3, <2>4, CallsInOrder DEF TypeOK, system
<1>2. CASE OpenProcessFails
  <2>1. call = 1 /\ h = NoProc
    BY <1>2, CallsInOrder DEF TypeOK, Holding, OpenProcessFails, At
  <2> QED BY <1>2, <2>1, CallsInOrder, NoPartsTyped DEF TypeOK, Holding, OpenProcessFails, AfterFailure, system
<1> QED BY <1>1, <1>2

LEMMA SnapshotStep ==
  ASSUME TypeOK, Holding, SnapshotThreads \/ QueryThread \/ QueriesEnd \/ CollectModules
  PROVE  TypeOK' /\ Holding'
<1>1. call \in 2..4 /\ call' \in {call, call + 1} /\ pc = "scan" /\ snap' \subseteq Tids
      /\ UNCHANGED <<system, opt, pc, pids, pid, h, out, always, missed, cut, walked>>
  BY CallsInOrder DEF TypeOK, SnapshotThreads, QueryThread, QueriesEnd, CollectModules, At, GoOn
<1>2. h \in Openable /\ h = running[pid] /\ parts \in Parts
  BY <1>1 DEF TypeOK, Holding
<1>3. parts' \in Parts /\ parts'.process \subseteq {h} /\ parts'.modules \subseteq {h}
  <2>1. CASE UNCHANGED parts
    BY <1>1, <2>1 DEF TypeOK, Holding
  <2>2. CASE QueryThread /\ ~UNCHANGED parts
    <3>1. PICK t \in Tids : parts' = [parts EXCEPT !.thread_starts = @ \cup ({threads[t]} \ {NoProc})]
      BY <2>2 DEF QueryThread, TypeOK
    <3>2. parts.thread_starts \cup ({threads[t]} \ {NoProc}) \subseteq Procs
      BY <1>2 DEF TypeOK, Parts
    <3>3. parts.process \subseteq {h} /\ parts.modules \subseteq {h}
      BY <1>1 DEF Holding
    <3> DEFINE q == parts.thread_starts \cup ({threads[t]} \ {NoProc})
    <3>4. parts' = [parts EXCEPT !.thread_starts = q] /\ q \in SUBSET Procs
      BY <3>1, <3>2
    <3> HIDE DEF q
    <3>5. parts' \in Parts /\ parts'.process = parts.process /\ parts'.modules = parts.modules
      BY <1>2, <3>4, PartsTyped
    <3> QED BY <3>3, <3>5
  <2>3. CASE CollectModules
    <3>1. PICK known \in {{}, {h} \cap Live} : parts' = [parts EXCEPT !.modules = known]
      BY <1>2, <2>3 DEF CollectModules
    <3>2. known \subseteq {h} /\ known \subseteq Procs
      BY <1>2, SystemAssumption
    <3>3. parts.process \subseteq {h}
      BY <1>1 DEF Holding
    <3>4. parts' \in Parts /\ parts'.process = parts.process /\ parts'.modules = known
      BY <1>2, <3>1, <3>2, PartsTyped
    <3> QED BY <3>2, <3>3, <3>4
  <2> QED BY <2>1, <2>2, <2>3 DEF SnapshotThreads, QueryThread, QueriesEnd, CollectModules
<1>4. Holding'
  BY <1>1, <1>3 DEF Holding, system
<1> QED BY <1>1, <1>3, <1>4, CallsInOrder DEF TypeOK, system

\* A finding has the pid of the process that is held, and its parts.
LEMMA WalkStep ==
  ASSUME TypeOK, Holding, Report \/ CloseHandle
  PROVE  /\ TypeOK' /\ Holding'
         /\ \A f \in out' \ out :
              running[f.pid] = f.memory /\ f.parts.process \cup f.parts.modules \subseteq {f.memory}
<1>1. call = 5 /\ h \in Openable /\ h = running[pid]
  BY CallsInOrder DEF TypeOK, Holding, Report, CloseHandle, At
<1>2. CASE Report
  <2> DEFINE f == [pid |-> pid, parts |-> parts, memory |-> h]
  <2>1. out' = out \cup {f}
    BY <1>2 DEF Report
  <2>2. f \in [pid : Pids, parts : Parts, memory : Openable]
    BY <1>1 DEF TypeOK
  <2>3. TypeOK' /\ Holding'
    BY <1>2, <2>1, <2>2 DEF TypeOK, Holding, Report, system, scan
  <2>4. f.parts.process \cup f.parts.modules \subseteq {f.memory} /\ running[f.pid] = f.memory
    BY <1>1 DEF Holding
  <2> QED BY <2>1, <2>3, <2>4
<1>3. CASE CloseHandle
  <2>1. running' \in [Pids -> Procs \cup {NoProc}] /\ running'[0] = Idle
    BY <1>1, <1>3, SystemAssumption DEF CloseHandle, TypeOK, Holding
  <2>2. walked' \subseteq Openable
    BY <1>1, <1>3 DEF CloseHandle, TypeOK
  <2>3. TypeOK'
    BY <1>3, <2>1, <2>2, CallsInOrder, NoPartsTyped DEF CloseHandle, TypeOK
  <2>4. Holding'
    BY <1>3, <2>1, NoPartsTyped DEF CloseHandle, Holding
  <2> QED BY <1>3, <2>3, <2>4 DEF CloseHandle
<1> QED BY <1>2, <1>3

LEMMA StepHolds ==
  ASSUME TypeOK, Holding, [Next]_vars PROVE TypeOK' /\ Holding'
<1>1. CASE UNCHANGED vars
  BY <1>1 DEF vars, system, scan, TypeOK, Holding
<1> QED BY <1>1, SystemStep, LoopStep, OpenStep, SnapshotStep, WalkStep DEF Next, Scanner

\* Every variable keeps its type; no process is walked that does not open.
THEOREM TypeCorrect == Spec => []TypeOK
<1>1. TypeOK /\ Holding /\ [Next]_vars => (TypeOK /\ Holding)'
  BY StepHolds
<1> QED BY InitHolds, <1>1, PTL DEF Spec

(***************************************************************************)
(* Findings.  No step but Report adds one, and Holding says what it is     *)
(* made of.                                                                *)
(***************************************************************************)
LEMMA StepFindings ==
  ASSUME TypeOK, Holding, [Next]_vars, NEW f \in out' \ out
  PROVE  running[f.pid] = f.memory /\ f.parts.process \cup f.parts.modules \subseteq {f.memory}
<1>1. CASE Report \/ CloseHandle
  BY <1>1, WalkStep
<1>2. CASE System \/ UNCHANGED vars
  BY <1>2 DEF System, Exit, Start, StartThread, ExitThread, vars
<1>3. CASE Scanner /\ ~Report /\ ~CloseHandle
  BY <1>3 DEF Scanner, ListPids, NextPid, ScanSystemReturns, OpenProcess, OpenProcessFails,
              SnapshotThreads, QueryThread, QueriesEnd, CollectModules, scan
<1> QED BY <1>1, <1>2, <1>3 DEF Next

\* Whatever comes and goes between the calls, the pid of a finding names the process
\* whose memory was read, and path and modules are of it (memscan.cpp:489-501, 576-618).
THEOREM FindingsTheorem == Spec => FindingsOfOneProcess
<1>1. TypeOK /\ Holding /\ [Next]_vars => (TypeOK /\ Holding)'
  BY StepHolds
<1>2. TypeOK /\ Holding /\ [Next]_vars =>
        [\A f \in out' \ out :
           running[f.pid] = f.memory /\ f.parts.process \cup f.parts.modules \subseteq {f.memory}]_vars
  BY StepFindings
<1> QED BY InitHolds, <1>1, <1>2, PTL DEF Spec, FindingsOfOneProcess

(***************************************************************************)
(* Completeness.  A process that was listed, stays and opens is walked, or *)
(* its pid is still in the list, or at work.  It cannot have lost its pid: *)
(* only a process that has exited does.                                    *)
(***************************************************************************)
Due(q) == q \in walked \cup missed \/ (\E k \in pids : running[k] = q) \/ (pc = "scan" /\ running[pid] = q)
AllDue == pc # "enum" => \A q \in always \cap Openable : Due(q)

LEMMA SystemDue ==
  ASSUME TypeOK, Holding, AllDue, System PROVE AllDue'
<1> SUFFICES ASSUME pc # "enum", NEW q \in always' \cap Openable PROVE Due(q)'
  BY DEF AllDue, System, Exit, Start, StartThread, ExitThread, scan
<1>1. q \in always /\ Due(q)
  BY DEF AllDue, System, Exit, Start, StartThread, ExitThread
<1>2. UNCHANGED <<pc, pids, pid, walked, missed>>
  BY DEF System, Exit, Start, StartThread, ExitThread, scan
<1>3. \A k \in Pids : running[k] = q => running'[k] = q
  <2>1. ASSUME NEW d \in Procs, Exit(d) PROVE d # q
    BY <2>1 DEF Exit
  <2>2. q # NoProc
    BY SystemAssumption
  <2> QED BY <2>1, <2>2 DEF System, Exit, Start, StartThread, ExitThread, TypeOK
<1> QED BY <1>1, <1>2, <1>3 DEF Due, TypeOK

LEMMA ScannerDue ==
  ASSUME TypeOK, Holding, AllDue, Scanner PROVE AllDue'
<1> SUFFICES ASSUME pc' # "enum", NEW q \in always' \cap Openable PROVE Due(q)'
  BY DEF AllDue
<1>0. q # Idle /\ q # NoProc
  BY SystemAssumption
<1>1. CASE ListPids
  <2>1. running' = running
    BY <1>1 DEF ListPids, system
  <2>2. CASE EnumAllPids
    BY <2>1, <2>2 DEF EnumAllPids, Due
  <2>3. CASE pids' = {opt.pid} /\ always' = {running[opt.pid]} \cap Live
    BY <2>1, <2>3 DEF Due
  <2> QED BY <1>1, <2>2, <2>3 DEF ListPids
<1>2. CASE NextPid
  <2>1. PICK k \in pids : pids' = pids \ {k} /\ pid' = k /\ pc' = IF k = 0 THEN "next" ELSE "scan"
    BY <1>2 DEF NextPid, Rest
  <2>2. pc = "next" /\ UNCHANGED <<running, walked, missed, always>>
    BY <1>2 DEF NextPid, system
  <2>3. q \in walked \cup missed \/ \E j \in pids : running[j] = q
    BY <2>2 DEF AllDue, Due
  <2>4. running[0] # q
    BY <1>0 DEF Holding
  <2> QED BY <2>1, <2>2, <2>3, <2>4 DEF Due
<1>3. CASE OpenProcessFails
  <2>1. q \notin ended /\ UNCHANGED <<running, pids, walked, missed, always>> /\ pc = "scan"
    BY <1>3 DEF OpenProcessFails, At, system, TypeOK
  <2>2. running[pid] # q
    BY <1>0, <1>3, <2>1 DEF OpenProcessFails, HandleOf
  <2> QED BY <2>1, <2>2 DEF AllDue, Due
<1>4. CASE CloseHandle
  <2>1. /\ q \notin ended /\ UNCHANGED <<pids, missed, always>> /\ pc = "scan" /\ call = 5
        /\ walked' = walked \cup ({h} \cap Live)
    BY <1>4, CallsInOrder DEF CloseHandle, At, TypeOK
  <2>2. \A k \in Pids : running[k] = q => running'[k] = q
    BY <1>4, <2>1 DEF CloseHandle
  <2>3. running[pid] = q => q \in walked'
    BY <2>1, SystemAssumption DEF Holding, Live, TypeOK
  <2>4. Due(q)
    BY <2>1 DEF AllDue
  <2> QED BY <2>1, <2>2, <2>3, <2>4 DEF Due, TypeOK
<1>5. CASE ScanSystemReturns
  BY <1>5 DEF ScanSystemReturns, AllDue, Due, system, scan
<1>6. CASE OpenProcess \/ SnapshotThreads \/ QueryThread \/ QueriesEnd \/ CollectModules \/ Report
  <2>1. UNCHANGED <<running, pc, pids, pid, walked, missed, always>>
    BY <1>6, Zenon DEF OpenProcess, SnapshotThreads, QueryThread, QueriesEnd, CollectModules, Report,
                       system, scan
  <2> QED BY <2>1 DEF AllDue, Due
<1> QED BY <1>1, <1>2, <1>3, <1>4, <1>5, <1>6 DEF Scanner

LEMMA StepDue ==
  ASSUME TypeOK, Holding, AllDue, [Next]_vars PROVE AllDue'
<1>1. CASE UNCHANGED vars
  BY <1>1 DEF vars, system, scan, AllDue, Due
<1> QED BY <1>1, SystemDue, ScannerDue DEF Next

LEMMA InitDue == Init => AllDue
  BY DEF Init, AllDue

\* The scan does not return before its list is empty.
NoneLeft == pc = "done" => pids = {}

LEMMA StepNoneLeft == ASSUME NoneLeft, [Next]_vars PROVE NoneLeft'
<1>1. CASE System \/ UNCHANGED vars
  BY <1>1 DEF NoneLeft, vars, System, Exit, Start, StartThread, ExitThread
<1>2. CASE Scanner
  BY <1>2 DEF NoneLeft, Scanner, ListPids, NextPid, ScanSystemReturns, OpenProcess, OpenProcessFails,
              AfterFailure, SnapshotThreads, QueryThread, QueriesEnd, CollectModules, Report, CloseHandle, At
<1> QED BY <1>1, <1>2 DEF Next

(***************************************************************************)
(* The list.  An enumeration that succeeds, of ids that it has room for,   *)
(* gives all of them: a set of as many ids as are in use is that set.      *)
(***************************************************************************)
Listed == missed = {} \/ cut

LEMMA EnumerationComplete ==
  ASSUME TypeOK, EnumAllPids PROVE Listed'
<1> SUFFICES ASSUME ~cut' PROVE missed' = {}
  BY DEF Listed
<1>1. IsFiniteSet(Used) /\ Cardinality(Used) \in Nat
  BY UsedFinite
<1>2. /\ pids' \in SUBSET Used /\ Cardinality(pids') = CutOff
      /\ ~(Cardinality(Used) > MaxPids)
  BY DEF EnumAllPids
<1>3. Cardinality(pids') = Cardinality(Used)
  BY <1>1, <1>2, SystemAssumption DEF CutOff
<1>4. pids' = Used
  BY <1>1, <1>2, <1>3, FS_Subset
<1>5. \A q \in Live : \E k \in Used : running[k] = q
  BY SystemAssumption DEF Live, Used
<1> QED BY <1>4, <1>5 DEF EnumAllPids

LEMMA StepListed == ASSUME TypeOK, Listed, [Next]_vars PROVE Listed'
<1>1. CASE ListPids
  BY <1>1, EnumerationComplete DEF ListPids, Listed
<1>2. CASE ~ListPids
  <2>1. UNCHANGED <<missed, cut>>
    BY <1>2, Zenon DEF Next, System, Exit, Start, StartThread, ExitThread, Scanner, NextPid,
              ScanSystemReturns, OpenProcess, OpenProcessFails, SnapshotThreads, QueryThread,
              QueriesEnd, CollectModules, Report, CloseHandle, vars
  <2> QED BY <2>1 DEF Listed
<1> QED BY <1>1, <1>2

\* Every process that was there, stays and opens has been walked when the scan returns,
\* for any number of processes that come and go, unless the list was cut or failed
\* (memscan.cpp:489-491, 630-651).
THEOREM EveryoneTheorem == Spec => []EveryoneScanned
<1>1. TypeOK /\ Holding /\ AllDue /\ NoneLeft /\ Listed /\ [Next]_vars
        => (TypeOK /\ Holding /\ AllDue /\ NoneLeft /\ Listed)'
  BY StepHolds, StepDue, StepNoneLeft, StepListed
<1>2. Init => NoneLeft /\ Listed
  BY DEF Init, NoneLeft, Listed
<1>3. AllDue /\ NoneLeft /\ Listed => EveryoneScanned
  BY DEF AllDue, NoneLeft, Due, Listed, EveryoneScanned
<1> QED BY InitHolds, InitDue, <1>1, <1>2, <1>3, PTL DEF Spec
=============================================================================
