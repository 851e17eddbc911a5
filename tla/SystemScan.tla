----------------------------- MODULE SystemScan -----------------------------
(***************************************************************************)
(* ScanSystem of src/core/memscan.cpp among processes and threads that     *)
(* come and go.  The process ids are enumerated once.  A pid names a       *)
(* process until that has exited and no handle to it is open, a tid names  *)
(* a thread until that has exited; both are given again.  Of what ScanPid  *)
(* learns about a process, the name and the memory are read by the handle, *)
(* thread starts by tid and modules by pid.                                *)
(*                                                                         *)
(* What the walk finds is the matter of ProcessScan; here a finding        *)
(* records of which processes its parts are.                               *)
(***************************************************************************)
EXTENDS Integers, FiniteSets

CONSTANTS
  Procs,    \* processes that run at some time
  Openable, \* those that OpenProcess opens, as long as they are there
  Idle,     \* the process with pid 0
  NoProc,
  Pids, Tids,
  MaxPids,  \* ids that EnumProcesses returns at most (4096)
  Options   \* the options of a scan: [all, pid]

ASSUME SystemAssumption ==
  /\ Openable \subseteq Procs \ {Idle} /\ Idle \in Procs /\ NoProc \notin Procs
  /\ 0 \in Pids /\ IsFiniteSet(Pids) /\ MaxPids \in Nat
  /\ Options \subseteq [all : BOOLEAN, pid : Pids]

VARIABLES
  running,  \* the process that a pid names, or NoProc
  ended,    \* processes that have exited
  threads,  \* the process of the thread that a tid names, or NoProc
  opt, pc,
  pids,     \* those that are not scanned yet
  pid, call, \* the pid at work and the next of its Calls
  h,        \* the process that ScanPid has open
  snap,     \* threads of the snapshot that are not queried yet
  parts,    \* of which processes ScanPid knows the parts
  out,      \* findings
  always,   \* history: the processes that were there at the enumeration and still are
  missed,   \* history: those of them that the enumeration did not give
  cut,      \* history: it failed, or more ids were in use than it has room for
  walked    \* history: processes that were walked to the end

system == <<running, ended, threads>>
scan == <<pid, call, h, snap, parts>>
vars == <<system, opt, pc, pids, scan, out, always, missed, cut, walked>>

NoParts == [process |-> {}, thread_starts |-> {}, modules |-> {}]
Live == {q \in Procs : q \notin ended /\ \E k \in Pids : running[k] = q}

----------------------------------------------------------------------------
(* The system.                                                             *)

Exit(q) ==
  /\ q \in Live \ {Idle}
  /\ ended' = ended \cup {q} /\ always' = always \ {q}
  /\ running' = [k \in Pids |-> IF running[k] = q /\ h # q THEN NoProc ELSE running[k]]
  /\ threads' = [t \in Tids |-> IF threads[t] = q THEN NoProc ELSE threads[t]]
  /\ UNCHANGED <<opt, pc, pids, scan, out, missed, cut, walked>>

Start(q, k) ==
  /\ q \in Procs \ (Live \cup ended) /\ running[k] = NoProc
  /\ running' = [running EXCEPT ![k] = q]
  /\ UNCHANGED <<ended, threads, opt, pc, pids, scan, out, always, missed, cut, walked>>

StartThread(q, t) ==
  /\ q \in Live /\ threads[t] = NoProc
  /\ threads' = [threads EXCEPT ![t] = q]
  /\ UNCHANGED <<running, ended, opt, pc, pids, scan, out, always, missed, cut, walked>>

ExitThread(t) ==
  /\ threads[t] # NoProc
  /\ threads' = [threads EXCEPT ![t] = NoProc]
  /\ UNCHANGED <<running, ended, opt, pc, pids, scan, out, always, missed, cut, walked>>

\* What happens after the scan is of no interest.
System ==
  /\ pc # "done"
  /\ \/ \E q \in Procs : Exit(q) \/ (\E k \in Pids : Start(q, k)) \/ (\E t \in Tids : StartThread(q, t))
     \/ \E t \in Tids : ExitThread(t)

----------------------------------------------------------------------------
(* The scanner.                                                            *)

Init ==
  /\ running \in [Pids -> Procs \cup {NoProc}] /\ running[0] = Idle
  /\ \A j, k \in Pids : running[j] = running[k] /\ running[j] # NoProc => j = k
  /\ ended = {} /\ threads = [t \in Tids |-> NoProc]
  /\ opt \in Options /\ pc = "enum" /\ pids = {}
  /\ pid = 0 /\ call = 1 /\ h = NoProc /\ snap = {} /\ parts = NoParts
  /\ out = {} /\ always = {} /\ missed = {} /\ cut = FALSE /\ walked = {}

Used == {k \in Pids : running[k] # NoProc}

\* Mutant of Calls: the snapshots are taken before the process is held.
SnapshotsFirst == <<"snapshot", "query", "modules", "open", "walk">>

\* The calls of ScanPid, in their order.
Calls == <<"open", "snapshot", "query", "modules", "walk">>
At(c) == pc = "scan" /\ Calls[call] = c
GoOn == call' = call + 1

\* How many ids EnumProcesses gives.
CutOff == IF Cardinality(Used) <= MaxPids THEN Cardinality(Used) ELSE MaxPids

\* A failure leaves the list empty, and the scan goes on with it.
EnumAllPids ==
  /\ \/ /\ pids' \in {S \in SUBSET Used : Cardinality(S) = CutOff}
        /\ cut' = (Cardinality(Used) > MaxPids)
     \/ pids' = {} /\ cut' = TRUE
  /\ always' = Live /\ missed' = {q \in Live : \A k \in pids' : running[k] # q}

\* With --pid, unless --all is given; pid 0 asks for all processes, too.
ListPids ==
  /\ pc = "enum" /\ pc' = "next"
  /\ IF opt.all \/ opt.pid = 0
     THEN EnumAllPids
     ELSE /\ pids' = {opt.pid} /\ missed' = {} /\ cut' = FALSE
          /\ always' = {running[opt.pid]} \cap Live
  /\ UNCHANGED <<system, opt, scan, out, walked>>

\* Mutant of Rest: pid 0 is passed over before the loop goes on.
RestWithIdle(k) == IF k = 0 THEN pids ELSE pids \ {k}

Rest(k) == pids \ {k}

\* Pid 0 is passed over.
NextPid ==
  /\ pc = "next" /\ pids # {}
  /\ \E k \in pids :
       /\ pids' = Rest(k) /\ pid' = k
       /\ pc' = IF k = 0 THEN "next" ELSE "scan"
  /\ UNCHANGED <<system, opt, call, h, snap, parts, out, always, missed, cut, walked>>

ScanSystemReturns ==
  /\ pc = "next" /\ pids = {} /\ pc' = "done"
  /\ UNCHANGED <<system, opt, pids, scan, out, always, missed, cut, walked>>

\* Mutant of HandleOf: asks for less access, and gets protected processes, too.
LimitedHandleOf(q) == IF q \in Procs \ (ended \cup {Idle}) THEN q ELSE NoProc

\* What OpenProcess gives, with the right to read the memory.
HandleOf(q) == IF q \in Openable \ ended THEN q ELSE NoProc

\* The path is the second call on the handle, and may fail.
OpenProcess ==
  /\ At("open") /\ HandleOf(running[pid]) # NoProc
  /\ h' = HandleOf(running[pid]) /\ GoOn
  /\ \E name \in {{}, {h'}} : parts' = [parts EXCEPT !.process = name]
  /\ UNCHANGED <<system, opt, pc, pids, pid, snap, out, always, missed, cut, walked>>

\* Mutant of AfterFailure: the scan stops where a process cannot be opened.
StopAfterFailure == "done"

\* ScanSystem does not look at what ScanPid returns.
AfterFailure == "next"

OpenProcessFails ==
  /\ At("open") /\ HandleOf(running[pid]) = NoProc
  /\ pc' = AfterFailure /\ call' = 1 /\ parts' = NoParts /\ snap' = {}
  /\ UNCHANGED <<system, opt, pids, pid, h, out, always, missed, cut, walked>>

\* The threads of pid, of a snapshot of all threads; none if there is no snapshot.
SnapshotThreads ==
  /\ At("snapshot") /\ GoOn
  /\ \/ snap' = {t \in Tids : threads[t] # NoProc /\ threads[t] = running[pid]}
     \/ snap' = {}
  /\ UNCHANGED <<system, opt, pc, pids, pid, h, parts, out, always, missed, cut, walked>>

\* OpenThread and NtQueryInformationThread by tid; a thread that is gone or refuses is
\* left out.
QueryThread ==
  /\ At("query") /\ snap # {}
  /\ \E t \in snap :
       /\ snap' = snap \ {t}
       /\ \/ parts' = [parts EXCEPT !.thread_starts = @ \cup ({threads[t]} \ {NoProc})]
          \/ UNCHANGED parts
  /\ UNCHANGED <<system, opt, pc, pids, pid, call, h, out, always, missed, cut, walked>>

QueriesEnd ==
  /\ At("query") /\ snap = {} /\ GoOn
  /\ UNCHANGED <<system, opt, pc, pids, pid, h, snap, parts, out, always, missed, cut, walked>>

\* The modules of whoever has the pid; the snapshot may fail.
CollectModules ==
  /\ At("modules") /\ GoOn
  /\ \E known \in {{}, {running[pid]} \cap Live} : parts' = [parts EXCEPT !.modules = known]
  /\ UNCHANGED <<system, opt, pc, pids, pid, h, snap, out, always, missed, cut, walked>>

\* A region of the process that is open becomes a finding.
Report ==
  /\ At("walk") /\ h \in Live
  /\ out' = out \cup {[pid |-> pid, parts |-> parts, memory |-> h]}
  /\ UNCHANGED <<system, opt, pc, pids, scan, always, missed, cut, walked>>

\* The walk ends behind the last address, or where a query fails because the process
\* has exited; its pid is free when the handle is closed.
CloseHandle ==
  /\ At("walk") /\ pc' = "next"
  /\ h' = NoProc /\ call' = 1 /\ parts' = NoParts /\ snap' = {}
  /\ walked' = walked \cup ({h} \cap Live)
  /\ running' = [k \in Pids |-> IF running[k] = h /\ h \in ended THEN NoProc ELSE running[k]]
  /\ UNCHANGED <<ended, threads, opt, pids, pid, out, always, missed, cut>>

Scanner ==
  \/ ListPids \/ NextPid \/ ScanSystemReturns \/ OpenProcess \/ OpenProcessFails
  \/ SnapshotThreads \/ QueryThread \/ QueriesEnd \/ CollectModules \/ Report \/ CloseHandle

Next == System \/ Scanner

\* A call of the scanner returns, whatever the other processes do.
Spec == Init /\ [][Next]_vars /\ WF_vars(Scanner)

----------------------------------------------------------------------------
(* Properties.                                                             *)

Parts == [process : SUBSET Procs, thread_starts : SUBSET Procs, modules : SUBSET Procs]

\* The type of every variable; a process that is open or was walked is one that
\* OpenProcess gives, and nobody stays who has exited (memscan.cpp:489-493, 626).
TypeOK ==
  /\ running \in [Pids -> Procs \cup {NoProc}] /\ ended \subseteq Procs
  /\ threads \in [Tids -> Procs \cup {NoProc}]
  /\ opt \in Options /\ pc \in {"enum", "next", "scan", "done"} /\ pids \subseteq Pids
  /\ pid \in Pids /\ call \in DOMAIN Calls /\ h \in Openable \cup {NoProc} /\ snap \subseteq Tids
  /\ parts \in Parts /\ out \subseteq [pid : Pids, parts : Parts, memory : Openable]
  /\ always \subseteq Procs \ ended /\ missed \subseteq Procs /\ cut \in BOOLEAN
  /\ walked \subseteq Openable

\* When the scan returns, every process that was there at the enumeration, stayed and
\* can be opened has been walked, whoever else came, went or was refused.  Left out is
\* only who was not in the list, and nobody was unless the enumeration failed or more
\* ids were in use than the 4096 it has room for (memscan.cpp:489-491, 630-651).
EveryoneScanned ==
  pc = "done" => /\ always \cap Openable \subseteq walked \cup missed
                 /\ missed = {} \/ cut

\* A finding is about one process: at that time its pid names the process whose memory
\* was read, and so do the path and the modules, which were asked for earlier, one of
\* them by pid (memscan.cpp:489-501, 576-618).
FindingsOfOneProcess ==
  [][\A f \in out' \ out :
       running[f.pid] = f.memory /\ f.parts.process \cup f.parts.modules \subseteq {f.memory}]_vars

\* The scan returns, though processes and threads come and go (memscan.cpp:638-652).
ScanSystemEnds == <>(pc = "done")

----------------------------------------------------------------------------
(* What the README says, and the code does not keep.                       *)

\* README.md:49: a thread whose start is held against a region is one of the process.
ThreadStartsOfProcess == \A f \in out : f.parts.thread_starts \subseteq {f.memory}
=============================================================================
