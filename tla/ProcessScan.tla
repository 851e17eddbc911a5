---------------------------- MODULE ProcessScan ----------------------------
(***************************************************************************)
(* ScanPid of src/core/memscan.cpp against a target that keeps running.    *)
(* The scanner takes one snapshot of the threads and one of the loader's   *)
(* module list, then walks the address space with VirtualQueryEx; for each *)
(* region it asks for the mapped path, reads the first page, reads the     *)
(* headers of the image (once per allocation) or of a private PE, judges   *)
(* the region, and may dump it as evidence.  Between any two of these      *)
(* calls the target may change its memory, its module list, its threads,   *)
(* or exit.                                                                *)
(*                                                                         *)
(* Addresses are page numbers.  Nothing the scanner does changes the       *)
(* target.                                                                 *)
(***************************************************************************)
EXTENDS RegionSignals

CONSTANTS
  NumPages,      \* lpMaximumApplicationAddress, in pages
  LayoutProbes,  \* sizes LoadImageLayout tries, in pages (16, 4, 1 in the code)
  PeReadPages,   \* most a private PE is read again for (16 in the code)
  EvidenceCap,   \* evidence attempts per process (16), 0 without --evidence
  ProcessName,   \* the path of the target's executable
  Files,         \* device paths of the files that can be mapped
  PathsOf,       \* the paths under which the loader may list each of them
  IgnoreProc, IgnorePaths, \* what the exception patterns match
  BaselineFps,   \* fingerprints of the loaded baseline
  Tids,          \* thread ids
  Targets,       \* the states the target may be in when it is opened
  NewImages,     \* images the target may map: [file, pages]
  NewProtections, NewContents, \* what the target may set a page to
  MaxChanges     \* bound on what the target does during the scan

Pages == 0..(NumPages - 1)

ASSUME ScanAssumption ==
  /\ NumPages \in Nat \ {0}
  /\ LayoutProbes \in Seq(Nat \ {0}) /\ Len(LayoutProbes) > 0
  /\ \A i, j \in DOMAIN LayoutProbes : i < j => LayoutProbes[i] > LayoutProbes[j]
  /\ PeReadPages \in Nat \ {0}
  /\ EvidenceCap \in Nat /\ MaxChanges \in Nat
  /\ ProcessName \in Names
ASSUME FileAssumption ==
  /\ NoName \notin Files /\ \A f \in Files : DosPathFromDevice(f) \in Names
  /\ PathsOf \in [Files -> SUBSET Names]

\* One page of the target.  file is the path GetMappedFileNameW gives, the other
\* fields are those VirtualQueryEx reports; alloc is the allocation base.
PageState == [st : {"free", "reserve", "commit"}, alloc : Pages, type : Types,
              protect : Protections, content : Contents, file : Files \cup {NoName}]
ModuleLists == [Pages -> Names \cup {NoName, NotListed}]
ThreadMaps == UNION {[S -> Pages] : S \in SUBSET Tids}
NoModules == [a \in Pages |-> NotListed]

ASSUME TargetAssumption ==
  \A t \in Targets : /\ t.mem \in [Pages -> PageState]
                     /\ t.ldr \in ModuleLists
                     /\ t.threads \in ThreadMaps
ASSUME ImageAssumption ==
  \A image \in NewImages : /\ image.file \in Files
                           /\ image.pages \in Seq([protect : Protections, content : Contents])
                           /\ Len(image.pages) > 0
                           /\ \A i \in DOMAIN image.pages :
                                /\ image.pages[i].protect \in Protections
                                /\ image.pages[i].content \in Contents
ASSUME ChangeAssumption == NewProtections \subseteq Protections /\ NewContents \subseteq Contents

VARIABLES
  mem, ldr, threads, alive,        \* the target
  pc,                              \* the next call of the scanner
  process, thread_starts, modules, modules_known, image_cache, \* ScanPid's locals
  p,                               \* the address the walk has reached
  mbi, mapped, head, layout,       \* what was read of the current region
  attempt,                         \* index into LayoutProbes
  out, evidence, evidence_count,   \* findings, captures attempted, their number
  touched, changes                 \* history: pages the target changed, how often

target == <<mem, ldr, threads, alive>>
context == <<process, thread_starts, modules, modules_known>>
region == <<mbi, mapped, head, layout, attempt>>
results == <<out, evidence, evidence_count>>
history == <<touched, changes>>
vars == <<target, pc, context, image_cache, p, region, results, history>>

----------------------------------------------------------------------------
(* What the system calls see of the target.                                *)

\* Pages that VirtualQueryEx reports as one region.
SameRegion(m, a, b) ==
  /\ m[a].st = m[b].st
  /\ m[a].st # "free" => m[a].alloc = m[b].alloc
  /\ m[a].st = "commit" => m[a].type = m[b].type /\ m[a].protect = m[b].protect

\* VirtualQueryEx at page a returns the n pages from a on.
IsRegion(m, a, n) ==
  /\ n \in Nat \ {0} /\ a + n <= NumPages
  /\ \A b \in a..(a + n - 1) : SameRegion(m, a, b)
  /\ a + n < NumPages => ~SameRegion(m, a, a + n)

RegionAt(m, a, n) == [base |-> a, size |-> n, alloc |-> m[a].alloc, st |-> m[a].st,
                      type |-> m[a].type, protect |-> m[a].protect]
Regions == [base : Pages, size : 1..NumPages, alloc : Pages,
            st : {"free", "reserve", "commit"}, type : Types, protect : Protections]

\* ReadProcessMemory fails unless it can read all it was asked for.
CanRead(m, a, n) ==
  /\ a + n <= NumPages
  /\ \A b \in a..(a + n - 1) : m[b].st = "commit" /\ IsReadableProbeTarget(m[b].protect)

\* The path of the file that is mapped at page a.
MappedPath(m, a) ==
  IF m[a].st = "commit" /\ m[a].type # "PRIVATE" /\ m[a].file # NoName
  THEN DosPathFromDevice(m[a].file) ELSE NoName

\* An image_cache entry that is not there yet.
NotCached == [head |-> NoBytes, pages |-> NumPages + 1]

Smaller(a, b) == IF a < b THEN a ELSE b

----------------------------------------------------------------------------
(* The scanner.                                                            *)

Init ==
  /\ \E t \in Targets : mem = t.mem /\ ldr = t.ldr /\ threads = t.threads
  /\ alive = TRUE
  /\ pc = "open"
  /\ process = NoName /\ thread_starts = [t \in {} |-> 0]
  /\ modules = NoModules /\ modules_known = FALSE
  /\ image_cache = [a \in Pages |-> NotCached]
  /\ p = 0
  /\ mbi = [base |-> 0, size |-> 1, alloc |-> 0, st |-> "free", type |-> "PRIVATE",
            protect |-> [base |-> "NOACCESS", guard |-> FALSE]]
  /\ mapped = NoName /\ head = NoBytes /\ layout = NoLayout /\ attempt = 1
  /\ out = <<>> /\ evidence = <<>> /\ evidence_count = 0
  /\ touched = {} /\ changes = 0

\* A process that is gone or protected: ScanPid returns false.
OpenFails ==
  /\ pc = "open"
  /\ pc' = "done"
  /\ UNCHANGED <<target, context, image_cache, p, region, results, history>>

\* OpenProcess and QueryFullProcessImageNameW; the path may stay empty.
Open ==
  /\ pc = "open" /\ alive
  /\ process' \in {ProcessName, NoName}
  /\ pc' = "threads"
  /\ UNCHANGED <<target, thread_starts, modules, modules_known, image_cache, p, region,
                 results, history>>

\* A thread that cannot be opened or queried is left out, and so are all of them
\* when there is no snapshot.
CollectThreadStarts ==
  /\ pc = "threads"
  /\ \E seen \in SUBSET (IF alive THEN DOMAIN threads ELSE {}) :
       thread_starts' = [t \in seen |-> threads[t]]
  /\ pc' = "modules"
  /\ UNCHANGED <<target, process, modules, modules_known, image_cache, p, region, results,
                 history>>

CollectModules ==
  /\ pc = "modules"
  /\ \/ alive /\ modules_known' = TRUE /\ modules' = ldr
     \/ modules_known' = FALSE /\ modules' = NoModules
  /\ pc' = "walk"
  /\ UNCHANGED <<target, process, thread_starts, image_cache, p, region, results, history>>

\* The walk ends at the last address, or where VirtualQueryEx fails.
StopWalk ==
  /\ pc = "walk" /\ (p >= NumPages \/ ~alive)
  /\ pc' = "done"
  /\ UNCHANGED <<target, context, image_cache, p, region, results, history>>

\* Mutants of NextAddress: one page further, whatever the size of the region; or
\* not at all past a region that is skipped.
NextPage(n) == p + 1
NextCommitted(n) == IF mem[p].st = "commit" THEN p + n ELSE p

\* The address after the n pages of the region at p.
NextAddress(n) == p + n

\* Mutant of FreshRegion: what was parsed of the last region is kept.
KeepsLayout == mapped' = NoName /\ head' = NoBytes /\ layout' = layout /\ attempt' = 1

\* The locals of the loop's body.
FreshRegion == mapped' = NoName /\ head' = NoBytes /\ layout' = NoLayout /\ attempt' = 1

\* p moves on before the region is looked at; a region that is not committed is
\* skipped here.
QueryRegion ==
  /\ pc = "walk" /\ p < NumPages /\ alive
  /\ \E n \in 1..(NumPages - p) :
       /\ IsRegion(mem, p, n)
       /\ mbi' = RegionAt(mem, p, n)
       /\ p' = NextAddress(n)
  /\ pc' = IF mbi'.st = "commit" THEN "resolve" ELSE "walk"
  /\ FreshRegion
  /\ UNCHANGED <<target, context, image_cache, results, history>>

ShouldIgnore(path) == process \in IgnoreProc \/ path \in IgnorePaths

ResolvePath ==
  /\ pc = "resolve"
  /\ mapped' = IF alive THEN MappedPath(mem, mbi.base) ELSE NoName
  /\ pc' = IF ShouldIgnore(mapped') THEN "walk" ELSE "probe"
  /\ UNCHANGED <<target, context, image_cache, p, mbi, head, layout, attempt, results, history>>

AfterProbe(bytes) ==
  IF mbi.type = "IMAGE" THEN "layout"
  ELSE IF mbi.type = "PRIVATE" /\ ContainsMzPe(bytes) THEN "private" ELSE "judge"

\* The first page, unless the protection that was queried forbids to look.
Probe ==
  /\ pc = "probe"
  /\ head' = IF IsReadableProbeTarget(mbi.protect) /\ alive /\ CanRead(mem, mbi.base, 1)
             THEN mem[mbi.base].content ELSE NoBytes
  /\ pc' = AfterProbe(head')
  /\ UNCHANGED <<target, context, image_cache, p, mbi, mapped, layout, attempt, results, history>>

\* Mutant of LayoutBase: the region in place of its allocation.
RegionBase == mbi.base

\* Layouts are read and cached by allocation.
LayoutBase == mbi.alloc

CachedLayout ==
  /\ pc = "layout" /\ image_cache[LayoutBase] # NotCached
  /\ layout' = image_cache[LayoutBase]
  /\ pc' = "judge"
  /\ UNCHANGED <<target, context, image_cache, p, mbi, mapped, head, attempt, results, history>>

\* One read of LoadImageLayout, from the allocation base: the first that succeeds
\* settles the layout of the allocation, and so does the failure of the last.
LoadImageLayout ==
  /\ pc = "layout" /\ image_cache[LayoutBase] = NotCached
  /\ LET pages == LayoutProbes[attempt]
         found == alive /\ CanRead(mem, LayoutBase, pages)
         last  == attempt = Len(LayoutProbes)
     IN  /\ layout' = IF found THEN [head |-> mem[LayoutBase].content, pages |-> pages]
                      ELSE NoLayout
         /\ attempt' = IF found \/ last THEN 1 ELSE attempt + 1
         /\ pc' = IF found \/ last THEN "judge" ELSE "layout"
         /\ image_cache' = IF found \/ last
                           THEN [image_cache EXCEPT ![LayoutBase] = layout'] ELSE image_cache
  /\ UNCHANGED <<target, context, p, mbi, mapped, head, results, history>>

\* A private PE is read a second time, for its imports.
ReadPrivatePe ==
  /\ pc = "private"
  /\ LET pages == Smaller(mbi.size, PeReadPages)
     IN  layout' = IF alive /\ CanRead(mem, mbi.base, pages)
                   THEN [head |-> mem[mbi.base].content, pages |-> pages] ELSE NoLayout
  /\ pc' = "judge"
  /\ UNCHANGED <<target, context, image_cache, p, mbi, mapped, head, attempt, results, history>>

\* The Anomaly that the code builds from the reasons it has collected.
AnomalyOf(region_mbi, path, bytes, pe_layout, known, mods, starts, name) ==
  LET reasons == RegionReasons(region_mbi, bytes, path, known, mods, pe_layout, starts)
      section == IF region_mbi.type = "IMAGE"
                 THEN SectionName(pe_layout, region_mbi.base - region_mbi.alloc) ELSE NoSection
  IN  [base |-> region_mbi.base, size |-> region_mbi.size, alloc |-> region_mbi.alloc,
       type |-> region_mbi.type, protect |-> region_mbi.protect, mapped_path |-> path,
       module_path |-> ModulePath(region_mbi, mods), is_pe |-> ContainsMzPe(bytes),
       reasons |-> reasons, api_tags |-> ApiTagsOf(pe_layout),
       thread_ids |-> ThreadsInRegion(starts, region_mbi), severity |-> Severity(reasons),
       fingerprint |-> Fingerprint(name, path, region_mbi, ContainsMzPe(bytes), section, reasons)]

\* A region with no reason is not a finding; nor is one the baseline knows.
Reported(anomaly) == anomaly.reasons # {} /\ anomaly.fingerprint \notin BaselineFps

\* Mutant of EvidenceDue: one capture more than the cap.
EvidenceDueTooOften == evidence_count <= EvidenceCap

EvidenceDue == evidence_count < EvidenceCap

Judge ==
  /\ pc = "judge"
  /\ LET a == AnomalyOf(mbi, mapped, head, layout, modules_known, modules, thread_starts, process)
     IN  /\ out' = IF Reported(a) THEN Append(out, a) ELSE out
         /\ pc' = IF Reported(a) /\ EvidenceDue THEN "evidence" ELSE "walk"
  /\ UNCHANGED <<target, context, image_cache, p, region, evidence, evidence_count, history>>

\* Mutant of CountAfter: only captures that succeed are counted.
CountWritten(written) == IF written THEN evidence_count + 1 ELSE evidence_count

CountAfter(written) == evidence_count + 1

\* WriteEvidence reads the region once more; whether it succeeds is not looked at.
CaptureEvidence ==
  /\ pc = "evidence"
  /\ \E written \in BOOLEAN :
       /\ written => alive /\ CanRead(mem, mbi.base, 1)
       /\ evidence' = Append(evidence, [base |-> mbi.base, written |-> written])
       /\ evidence_count' = CountAfter(written)
  /\ pc' = "walk"
  /\ UNCHANGED <<target, context, image_cache, p, region, out, history>>

Done == pc = "done" /\ UNCHANGED vars

Scanner ==
  \/ OpenFails \/ Open \/ CollectThreadStarts \/ CollectModules
  \/ StopWalk \/ QueryRegion \/ ResolvePath \/ Probe
  \/ CachedLayout \/ LoadImageLayout \/ ReadPrivatePe \/ Judge \/ CaptureEvidence

----------------------------------------------------------------------------
(* The target.  It acts only while a scan is open: what it did before is   *)
(* another member of Targets, what it does afterwards nobody sees.         *)

Change(where) ==
  /\ pc \notin {"open", "done"} /\ alive /\ changes < MaxChanges
  /\ changes' = changes + 1
  /\ touched' = touched \cup where
  /\ UNCHANGED <<pc, context, image_cache, p, region, results>>

Protect(a, protect) ==
  /\ Change({a}) /\ mem[a].st = "commit" /\ mem[a].protect # protect
  /\ mem' = [mem EXCEPT ![a].protect = protect]
  /\ UNCHANGED <<ldr, threads, alive>>

Write(a, content) ==
  /\ Change({a}) /\ CanRead(mem, a, 1) /\ mem[a].content # content
  /\ mem' = [mem EXCEPT ![a].content = content]
  /\ UNCHANGED <<ldr, threads, alive>>

AllocatePrivate(a, protect, content) ==
  /\ Change({a}) /\ mem[a].st = "free"
  /\ mem' = [mem EXCEPT ![a] = [st |-> "commit", alloc |-> a, type |-> "PRIVATE",
                                protect |-> protect, content |-> content, file |-> NoName]]
  /\ UNCHANGED <<ldr, threads, alive>>

\* The loader maps an image first and links it into its list afterwards.
MapImage(a, image) ==
  LET span == a..(a + Len(image.pages) - 1)
  IN  /\ Change(span) /\ span \subseteq Pages /\ \A b \in span : mem[b].st = "free"
      /\ mem' = [b \in Pages |->
                   IF b \in span
                   THEN [st |-> "commit", alloc |-> a, type |-> "IMAGE",
                         protect |-> image.pages[b - a + 1].protect,
                         content |-> image.pages[b - a + 1].content, file |-> image.file]
                   ELSE mem[b]]
      /\ UNCHANGED <<ldr, threads, alive>>

ListModule(a) ==
  /\ Change({a}) /\ mem[a].st = "commit" /\ mem[a].type = "IMAGE" /\ mem[a].alloc = a
  /\ ldr[a] = NotListed /\ mem[a].file # NoName
  /\ \E path \in PathsOf[mem[a].file] : ldr' = [ldr EXCEPT ![a] = path]
  /\ UNCHANGED <<mem, threads, alive>>

\* NtUnmapViewOfSection: the list keeps its entry.
UnmapImage(a) ==
  LET span == {b \in Pages : mem[b].st = "commit" /\ mem[b].alloc = a}
  IN  /\ Change(span) /\ mem[a].st = "commit" /\ mem[a].type = "IMAGE" /\ mem[a].alloc = a
      /\ mem' = [b \in Pages |-> IF b \in span THEN [mem[b] EXCEPT !.st = "free"] ELSE mem[b]]
      /\ UNCHANGED <<ldr, threads, alive>>

StartThread(t, a) ==
  /\ Change({a}) /\ t \notin DOMAIN threads
  /\ threads' = [u \in DOMAIN threads \cup {t} |-> IF u = t THEN a ELSE threads[u]]
  /\ UNCHANGED <<mem, ldr, alive>>

\* The scanner's handle keeps the process id, but the address space is gone.
Exit ==
  /\ Change(Pages)
  /\ alive' = FALSE
  /\ UNCHANGED <<mem, ldr, threads>>

Target ==
  \/ \E a \in Pages :
       \/ \E protect \in NewProtections : Protect(a, protect)
       \/ \E content \in NewContents : Write(a, content)
       \/ \E protect \in NewProtections, content \in NewContents :
            AllocatePrivate(a, protect, content)
       \/ \E image \in NewImages : MapImage(a, image)
       \/ ListModule(a)
       \/ UnmapImage(a)
       \/ \E t \in Tids : StartThread(t, a)
  \/ Exit

Next == Scanner \/ Target \/ Done

\* Every call of the scanner returns; nothing is asked of the target.
Spec == Init /\ [][Next]_vars /\ WF_vars(Scanner)

----------------------------------------------------------------------------
(* Properties.                                                             *)

Anomaly == [base : Pages, size : 1..NumPages, alloc : Pages, type : Types,
            protect : Protections, mapped_path : Names \cup {NoName},
            module_path : Names \cup {NoName}, is_pe : BOOLEAN, reasons : SUBSET Reasons,
            api_tags : SUBSET ApiTags, thread_ids : SUBSET Tids,
            severity : {"low", "medium", "high"},
            fingerprint : Fingerprints]

\* The type of every variable.
TypeOK ==
  /\ mem \in [Pages -> PageState] /\ ldr \in ModuleLists /\ threads \in ThreadMaps
  /\ alive \in BOOLEAN
  /\ pc \in {"open", "threads", "modules", "walk", "resolve", "probe", "layout", "private",
             "judge", "evidence", "done"}
  /\ process \in Names \cup {NoName} /\ thread_starts \in ThreadMaps
  /\ modules \in ModuleLists /\ modules_known \in BOOLEAN
  /\ image_cache \in [Pages -> Layouts]
  /\ p \in 0..NumPages
  /\ mbi \in Regions /\ mapped \in Names \cup {NoName} /\ head \in Contents \cup {NoBytes}
  /\ layout \in Layouts /\ attempt \in 1..Len(LayoutProbes)
  /\ out \in Seq(Anomaly) /\ evidence \in Seq([base : Pages, written : BOOLEAN])
  /\ evidence_count \in 0..EvidenceCap
  /\ touched \subseteq Pages /\ changes \in 0..MaxChanges

\* However the target remaps itself under the walk, no address is reported twice:
\* findings are disjoint and in address order (memscan.cpp:506-509, p moves past
\* the region before anything else can continue the loop).
FindingsDisjoint ==
  \A i, j \in DOMAIN out : i < j => out[i].base + out[i].size <= out[j].base

\* Import groups, entropy and overlays are context: each finding has a signal of
\* another kind, except that entropy alone reports a private executable region
\* (memscan.cpp:320-327, 559-565).
ContextReasons == {"SuspiciousImports", "HighEntropyExecutable", "LargeOverlay"}
ContextNeedsPrimary ==
  \A i \in DOMAIN out :
    \/ out[i].reasons \ ContextReasons # {}
    \/ /\ out[i].type = "PRIVATE" /\ HasExecute(out[i].protect)
       /\ out[i].reasons = {"HighEntropyExecutable"}

\* What the scanner would say of the region at b if it looked at it in one instant.
InstantLayout(b, n) ==
  LET a    == IF mem[b].type = "IMAGE" THEN mem[b].alloc ELSE b
      good == {k \in IF mem[b].type = "IMAGE" THEN Range(LayoutProbes)
                     ELSE {Smaller(n, PeReadPages)} : CanRead(mem, a, k)}
  IN  IF good = {} \/ mem[b].type = "MAPPED" \/ (mem[b].type = "PRIVATE" /\ ~Pe[mem[b].content].valid)
      THEN NoLayout
      ELSE [head |-> mem[a].content, pages |-> CHOOSE k \in good : \A l \in good : l <= k]
InstantAnomaly(b, n) ==
  AnomalyOf(RegionAt(mem, b, n), MappedPath(mem, b),
            IF CanRead(mem, b, 1) THEN mem[b].content ELSE NoBytes,
            InstantLayout(b, n), modules_known, IF modules_known THEN ldr ELSE NoModules,
            thread_starts, process)

\* A region that nobody touched since the scan began, nor its neighbours, nor the
\* pages the header probes reach.
Still(b, n) ==
  /\ IsRegion(mem, b, n)
  /\ b > 0 => ~SameRegion(mem, b - 1, b)
  /\ touched \cap ((b - 1)..(b + n)) = {}
  /\ \A q \in touched : q < mem[b].alloc \/ \A k \in Range(LayoutProbes) : q >= mem[b].alloc + k

\* The walk is not atomic, its module list is a snapshot and its layouts are
\* cached, yet a region that stands still is reported exactly as if it had been
\* judged in one instant, whatever the target does elsewhere (memscan.cpp:488-628).
StillRegionsExact ==
  pc = "done" /\ p = NumPages =>
    \A b \in Pages : \A n \in 1..(NumPages - b) :
      Still(b, n) =>
        {f \in Range(out) : f.base = b} =
          {f \in {InstantAnomaly(b, n)} :
             mem[b].st = "commit" /\ ~ShouldIgnore(MappedPath(mem, b)) /\ Reported(f)}

\* The mapped path and the loader's path of an image that nobody touched are said to
\* disagree exactly if the loader lists another file than the one that is mapped,
\* however the two are spelled (memscan.cpp:55-61, 72-90, 422-438).
PathMismatchExact ==
  \A i \in DOMAIN out :
    LET f == out[i] IN
    f.base \notin touched /\ f.is_pe /\ f.module_path # NoName /\ f.mapped_path # NoName =>
      ("ModulePathMismatch" \in f.reasons) = (f.module_path \notin PathsOf[mem[f.base].file])

\* Evidence is attempted for the first findings, in order, up to the cap, failed
\* attempts included (memscan.cpp:497, 621-624).
EvidenceBudget ==
  /\ Len(evidence) = IF pc = "evidence" THEN Len(out) - 1 ELSE Smaller(EvidenceCap, Len(out))
  /\ \A i \in DOMAIN evidence : i \in DOMAIN out /\ evidence[i].base = out[i].base

\* The scan of one process ends, whatever the target does.
ScanTerminates == <>(pc = "done")

\* Each file is found on its drive, and no other path names it: what PathMismatchExact
\* needs of the names and the drives.
DrivesTellApart ==
  \A f \in Files, path \in Names :
    NormalizePath(DosPathFromDevice(f)) = NormalizePath(path) <=> path \in PathsOf[f]
=============================================================================
