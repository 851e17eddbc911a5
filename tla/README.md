# HollowDetect: TLA+ models and proofs

HollowDetect is a Windows command line tool that looks for process hollowing. It
lists processes, walks the address space of each with `VirtualQueryEx`, derives
*signals* (reasons) for every committed region, filters findings with a baseline
and exceptions, prints a JSON report, and can keep evidence of what it found.
This directory holds TLA+ models of that program, TLC configurations that check
them on small instances, and TLAPS proofs for all instances.

Paths such as `src/core/memscan.cpp` are those of the repository.

## 1. Inventory

| Component | Code | State | Operations | Interacts with |
|---|---|---|---|---|
| Region signals | `memscan.cpp`, `util.cpp` | none, functions | protections, header tests, section lookup, reasons, severity, fingerprint | called by the scan of one process |
| Scan of one process | `memscan.cpp` `ScanPid` | thread starts, module list, layout cache, position of the walk, findings, evidence count | open, two snapshots, query, resolve, probe, layout, judge, capture | the live target process; baseline and exceptions; `WriteEvidence` |
| Scan of the system | `memscan.cpp` `ScanSystem`, `EnumAllPids` | list of process ids, handle, snapshots | enumerate, scan each, skip what cannot be opened | `ScanPid`; processes and threads that come and go |
| Paths | `memscan.cpp` | the logical drives | device name to drive, normalization, comparison, wildcard match | `ScanPid` |
| PE parser | `peparse.cpp` | none, functions over a buffer | headers, sections, imports, exports, overlay | signals |
| Evidence directory | `evidence.cpp`, `json.cpp` | one dump and one metadata file per pid and base, `manifest.jsonl`, `index.json` | capture (nine file operations) | other scans in the same directory; the file system |
| Baselines and exceptions | `config.cpp` | files, lists of patterns and fingerprints | load, save | command line, `ScanPid` |
| Command line | `main.cpp` | report files, exit code | scan, baseline create/apply, snapshot save/diff | everything above |
| JSON text | `json.cpp` | text files | escape, find a key, read a string or an array, write a file | baselines, reports, evidence |
| Directory creation | `json.cpp` `EnsureDirectoryTree` | directories | create each prefix | every file that is written |
| Hash, hexadecimal | `util.cpp` | none | SHA-256, which may fail | fingerprints, evidence |

What is hard in this system, and what makes each part correct:

- **The target keeps running.** The scanner has no lock on the process it looks
  at. Each region takes up to six calls, and between any two the target can
  remap, unmap, reprotect, overwrite, start threads, load modules or exit. The
  walk must still never report an address twice, must end, and must be exact about
  whatever did not change.
- **State that outlives a region.** The thread starts and the module list are
  taken once per scan, layouts are cached by allocation base with failures
  included. None of it may leak into a region it does not belong to.
- **Ids are given again.** Memory is read by handle, modules are listed by pid,
  threads are opened by tid. What is put together in one finding must be of one
  process, though the ids are those of an earlier snapshot.
- **Two spellings of one path.** The memory manager says
  `\Device\HarddiskVolume3\...`, the loader `\\?\C:/...` in any case. The two must
  disagree exactly if they name two files.
- **Order of the signals.** Imports, entropy and overlays are context: they look
  at the reasons found so far. Their guards and their place in the sequence keep
  an ordinary image from being reported for them.
- **The parser reads what an opponent wrote,** as a file or as a loaded image: it
  must stay inside the buffer, end, and find what the loader finds.
- **Evidence is written in steps, by anyone.** A capture is a dump, a metadata
  file, a manifest line and a rewritten index, with no lock, no temporary file
  and no repair. What counts is that the manifest tells the truth and that the
  index never shows what the manifest does not have, whatever fails and whoever
  else writes there.
- **Text is searched, not parsed.** Baselines and reports are read back by looking
  for keys, also in files that were cut off and inside of strings that a scanned
  application chose.
- **Limits.** 16 captures per process, 64 MiB of manifest, 4096 process ids,
  64 KiB of header, 32-bit sums in the parser.
- **Errors that are swallowed.** `ScanPid`, `WriteEvidence`, `EnumAllPids` and the
  hash report failures that their callers do not look at.

`PROJECT.json` lists every hazard at its line with the properties that watch it.

## 2. Modules

| Module | What it is |
|---|---|
| `Paths` | Device paths, drive letters, normalization. |
| `RegionSignals` | The signals as functions of what was read from a region; extends `Paths`. |
| `ProcessScan` | `ScanPid` against a target that acts between the calls; extends `RegionSignals`. |
| `ProcessScanProofs`, `StillRegionProofs`, `MCProcessScan` | Its theorems, the one about regions that stand still in a module of its own; pages, images, paths and targets for TLC. |
| `SystemScan` | `ScanSystem` among processes and threads whose ids are given again. |
| `SystemScanProofs`, `MCSystemScan` | Its theorems; its options for TLC. |
| `PeParse` | `ParsePe` over one buffer. |
| `PeParseProofs`, `MCPeParse` | Its theorems; images for TLC. |
| `CaptureLog` | Abstract specification of an evidence directory. |
| `EvidenceStore` | `WriteEvidence` by several writers, with faults; implements `CaptureLog`. |
| `EvidenceStoreProofs`, `MCEvidenceStore` | Its theorems, the refinement included; writers and stems for TLC. |
| `Reports` | The commands of `main.cpp` over report and baseline files. |
| `ReportsProofs`, `MCReports` | Its theorems; shells, processes and commands for TLC. |
| `TextFiles` | Directories, the text of baselines and reports and its readers. |
| `TextFilesProofs`, `TextLoadProofs`, `MCTextFiles` | Its theorems, those about what is loaded from a text in a module of their own; texts for TLC. |

The modules meet at these places. `SystemScan` leaves the walk to `ProcessScan`,
`ProcessScan` leaves a capture to `EvidenceStore` and the contents of a header to
`PeParse`, `Reports` leaves the scan of a process to `ProcessScan` and the letters of a
file to `TextFiles`. In each case the outer module takes every outcome that the
inner one allows: a capture may fail, a process may yield nothing, a file may keep a
part of its fingerprints.

### Paths and RegionSignals

A path is the sequence of its pieces: a separator, a name, a part of a device's name.
`DosPathFromDevice` (`memscan.cpp:72-91`) puts the letter of the first drive in place of
its device, compared as a prefix and without case. `NormalizePath` (55-61) turns the
slashes, takes `\\?\` away and lowers the case. The drives stay the same during a scan;
a drive that `QueryDosDeviceW` does not know is not in `Drives`.

A page holds one of the `Contents`. The constant `Pe` gives what `ParsePe` and
`ByteEntropy` say of a buffer that starts with such a page: whether the header is
valid, its identity (the six fields of `SamePeIdentity` as one number), the CLR
directory, the API groups of its imports and how far the import data reaches, its
section table, and whether its entropy is at least 7.2. `Disk` gives the same for
the file behind a path, and whether its overlay reaches a mebibyte. Protection
words keep the base protection and the guard bit, which is all the code looks at.

`PrimaryReasons` is the block that pushes reasons without looking at others
(`memscan.cpp:532-547`); `AddSuspiciousImportContext`, `AddHighEntropy` and
`AddLargeOverlay` follow in the order of the code, each with the reasons so far;
`RegionReasons` composes them and adds `PrivateThreadStart`. Reasons are a set: the
code pushes each at most once, always in the same order, so the vector and the set
determine each other. A fingerprint is the tuple of what is hashed.

### ProcessScan

One action per call of `ScanPid`; `pc` names the next call.

| Action | Code (`memscan.cpp`) |
|---|---|
| `OpenFails`, `Open` | 489-493 |
| `CollectThreadStarts`, `CollectModules` | 440-474, 389-411: snapshots, which may fail |
| `QueryRegion`, `StopWalk` | 503-510: `p` moves on before anything else can continue the loop |
| `ResolvePath` | 511-512: the mapped path, through `DosPathFromDevice`, then the exceptions |
| `Probe` | 524-530: the first page, if the protection that was queried allows it |
| `CachedLayout`, `LoadImageLayout` | 329-347, 538-547: up to three reads from the allocation base, the last failure cached too |
| `ReadPrivatePe` | 549-558: the second read of a private PE |
| `Judge` | 532-621: the reasons, the baseline filter, the finding |
| `CaptureEvidence` | 621-624: one attempt, successful or not |

Addresses are page numbers and regions are runs of pages that `VirtualQueryEx`
would report as one. The target's actions (`Protect`, `Write`, `AllocatePrivate`,
`MapImage`, `ListModule`, `UnmapImage`, `StartThread`, `Exit`) are what a process
can do to itself; they are external to the repository. A loader maps an image in
one step and lists it in a later one, under any of the paths `PathsOf` that lead to the
file; `Files` gives the device path of each. `touched` and `changes` are history.

`WriteEvidence` is one step here, since nothing in `ScanPid` depends on what happens
inside; its inside is `EvidenceStore`. `--max-dump-bytes 0`, which turns every capture
into a success without files, is not distinguished.

### SystemScan

| Action | Code (`memscan.cpp`) |
|---|---|
| `ListPids`, with `EnumAllPids` | 630-646: the options, and at most `MaxPids` ids; a failure leaves none |
| `NextPid`, `ScanSystemReturns` | 647-652: pid 0 is passed over |
| `OpenProcess`, `OpenProcessFails` | 489-493: the handle and the path; what `ScanPid` returns is not looked at |
| `SnapshotThreads`, `QueryThread`, `QueriesEnd` | 440-474: the owner from the snapshot, the start by tid |
| `CollectModules` | 389-411, by pid |
| `Report`, `CloseHandle` | 503-626: any number of findings, as long as the process is there |

Processes start on a free pid and exit, threads start on a free tid and exit
(`Start`, `Exit`, `StartThread`, `ExitThread`; external). A pid stays taken while a handle
to its process is open, as Windows guarantees. A finding is abstracted to the
processes that its path, its thread starts, its modules and its memory are of.
`always`, `missed`, `cut` and `walked` are history: who stays, whom the enumeration did
not give, whether it failed or was cut off, and who has been walked.

### PeParse

A cell of the buffer stands for one 32-bit field, one character or one hint, and a
structure for those of its fields that decide something; sizes and offsets are in cells.
Each action is one structure that is read, with its bounds test.

| Action | Code (`peparse.cpp`) |
|---|---|
| `ReadDosHeader`, `ReadNtHeader`, `ReadOptionalHeader` | 404-465 |
| `ReadSection`, `FillSectionStats` | 467-483, 234-280: at most 96 sections; entropy is the bytes it is made of |
| `FindImportTable` | 290-310: the first layout whose first descriptor has a name |
| `ReadDescriptor`, `ImportsEnd` | 311-328 |
| `ReadThunk`, `ThunksEnd` | 330-371: up to 256 thunks per layout; a layout that yields nothing hands over to the next |
| `FindExportDirectory`, `ReadExport`, `ExportsEnd` | 374-402 |

`Layouts` is `RvaOffsets` (173-194): an rva is looked for at itself, as in a loaded image,
and where each section would have it in a file. Sums are 64 bits wide, as in the code,
except for `SlotRva` (394), which wraps. `touched` is the set of offsets that the last step
may have read: a superset where the code stops at the first hit.

### EvidenceStore and CaptureLog

Each file operation of `WriteEvidence` is a step of a writer (a scan of its own):
open and write are two steps, because a file is empty in between. The share modes
passed to `CreateFileW` are `Conflict`: an open that meets another writer fails, and
`Refused` is the early return that follows. `Stops` is a failing call or the death of
the process at any step; what was opened stays empty, and a manifest line may be on
disk in part. A dump or metadata file holds the number of the capture that wrote
it, so that "these two belong together" can be said. The manifest is the sequence of the
pieces that were appended; one that was written in part has no end of line, so that a
line is what stands between two whole pieces, with the second one (`LineOf`).
`started`, `done` and `overlapped` are history: the stem of each capture, those that
returned true, and those that were at work together with another one.

`CaptureLog` is what the directory promises of its two shared files: the manifest only
grows, and an index that can be read shows a prefix of it. The refinement maps the
manifest to the log and a complete index to the published prefix.

### Reports

Shells run the commands of `main.cpp` side by side on the same files. A command is
a record of its options; the constant `Commands` gives the ones that are run.

| Action | Code |
|---|---|
| `Start`, `Rejected` | option parsing and the checks for missing options (`main.cpp:163-177, 206-215, 227-239, 244-253`) |
| `LoadExceptions`, `LoadBaseline`, `LoadFails` | `main.cpp:178-184, 236-238`, `config.cpp:9-33` |
| `ScanPid` | one process of `ScanSystem` (`memscan.cpp:647-650`) with the baseline filter (`memscan.cpp:612-619`); with faults, one that cannot be opened, or whose findings cannot be hashed |
| `ScanEnds` | the standard output, or on to the file |
| `OpenOut`, `WriteOut`, `OpenFails`, `WriteCut` | `WriteTextFile` with the text of `RenderJson` or `SaveBaseline`, and the exit code |
| `ReadOld`, `ReadNew` | `CmdSnapshotDiff`; a report that cannot be read is an empty one |
| `Return`, `Killed`, `Change` | external: the end of a command, and processes that change |

A finding is its process path, a body, which stands for everything else that is
hashed, and whether the hash was made. The fingerprint is the pair with the path in
lower case, or `NoHash`, the empty string of `util.cpp:41`, which a baseline keeps and
the reader of a report passes over. A file holds what can be read back from it; that a
cut text yields the first fingerprints, and a baseline's array only behind a comma or
its bracket, is checked in `TextFiles` (`ReportLoadsWhatWasSaved`, `BaselineLoadsWhatWasSaved`). `found`,
`of` and `by` are history: what the scan saw before the filter, what a file was made
from, and who wrote it. A wildcard pattern is the set of paths it matches.

### TextFiles

| Action | Code |
|---|---|
| `EnsureDirectory`, `DirectoryThere` | `EnsureDirectoryTree` (`json.cpp:190-228`), one prefix per step |
| `WriteTextFile` | the text of `SaveBaseline` or `RenderJson`, cut anywhere |
| `FindKeyValue`, `KeyMissing` | `FindKeyValue` (`json.cpp:69-94`), one string per step |
| `FindString` | `JsonFindString` (`json.cpp:245-255`) |
| `OpenArray`, `ReadElement` | `JsonFindStringArray` (`json.cpp:257-287`) |
| `NextFingerprint` | `FingerprintsFromReport` (`main.cpp:111-131`) |

A text is a sequence of characters, where a word without special characters and a run
of blanks are one character each. Characters that the text itself is made of are kept
apart, as are control characters with and without an escape of their own, and half a
surrogate pair. Several shells create directories of one tree; a drive or a share is
its root. `Directory(path, k)` is what the first `k` names of a path denote, dots
dropped.

## 3. Checks

`tlc -workers 2 -config X.cfg M` for each row; `PROJECT.json` has the list.

| Run | Configuration | Checks | Result |
|---|---|---|---|
| `scan_quiet` | `ProcessScanQuiet` | `TypeOK`, `ContextNeedsPrimary`, `StillRegionsExact`, `PathMismatchExact` | holds |
| `scan_live` | `ProcessScanLive` | `FindingsDisjoint`, `ContextNeedsPrimary`, `StillRegionsExact`, `EvidenceBudget`, `ScanTerminates` | holds |
| `system_scan` | `SystemScan` | `TypeOK`, `EveryoneScanned`, `FindingsOfOneProcess`, `ScanSystemEnds` | holds |
| `pe_parse` | `PeParse` | `TypeOK`, `ReadsInside`, `LoadedNamesFound`, `NothingElseFound`, `OverlayBehindSections`, `ParseReturns` | holds |
| `evidence_shared` | `EvidenceShared` | `TypeOK`, `ManifestNamesCompleteFiles`, `DoneEndsOneLine`, `IndexFollowsLastCapture`, `ImplementsCaptureLog` | holds |
| `reports_shared` | `ReportsShared` | `TypeOK`, `NewFindingRaisesAlarm`, `ZeroMeansWritten` | holds |
| `reports_sequence` | `ReportsSequence` | `BaselineHidesOnlyItsApp`, `BaselineHidesWhatItSaw`, `NewFindingRaisesAlarm`, `DiffComparesFindings` | holds |
| `text_files` | `TextFiles` | `TypeOK`, `DirectoriesShared`, `BaselineLoadsWhatWasSaved`, `ReportLoadsWhatWasSaved`, `ReadEnds` | holds |
| `scan_foreign_drive` | `ScanForeignDrive` | `PathMismatchExact` | violated |
| `system_foreign_thread` | `SystemForeignThread` | `ThreadStartsOfProcess` | violated |
| `evidence_lost_refresh` | `EvidenceLostRefresh` | `EveryCaptureRefreshes` | violated |
| `evidence_torn_line` | `EvidenceTornLine` | `OneLinePerCapture` | violated |

**What the passing runs show.**

- *Scan of one process.* `StillRegionsExact` is the central property: the walk is not
  atomic, its module list is a snapshot and its layouts are cached, yet a region that
  nobody touched, nor its neighbours, nor the pages its layout is read from, is
  reported exactly as if it had been judged in one instant. A stale layout, a local
  that survives an iteration, or a cache with the wrong key breaks it.
  `FindingsDisjoint` and `ScanTerminates` say that a hostile memory map can neither
  make the walk report an address twice nor keep it going. `PathMismatchExact` says that
  the spellings of memory manager and loader make no difference.
- *Scan of the system.* A finding is put together from a handle, a pid and ids of
  threads, and what comes by handle and by pid is always of one process
  (`FindingsOfOneProcess`): the handle is opened before the modules are asked for, and
  keeps its pid from being given again. With the snapshots before `OpenProcess` this
  breaks. Whoever stays is walked, whatever fails for the others, and the enumeration leaves
  nobody out unless it fails or more ids are in use than it has room for: a list that is
  exactly full is complete (`EveryoneScanned`).
- *Parser.* No buffer makes it read outside, not with sums that wrap, and tables that
  point to themselves do not keep it going. Looking for a file's layout in a loaded
  image, too, loses none of the loader's names, and adds none if the two agree.
- *Evidence.* A whole manifest line is always true as long as no other capture has
  the same pid and base. A capture that reported success ends one line and is on no
  other; what stands in front of it there is torn text of captures that failed, never
  that of another one that reported success (`DoneEndsOneLine`). If it had the directory
  for itself, the index shows the whole manifest, whatever failed or overlapped before
  (`IndexFollowsLastCapture`), and no stale rewrite ever makes the index show something
  the manifest does not have (`ImplementsCaptureLog`).
- *Command line.* An exit code of 1 is never lost: whatever is cut off, rewritten
  or full, a finding at the threshold that the baseline was not made from raises it
  (`NewFindingRaisesAlarm`). A baseline hides its own application and no other
  although `apply` does not look at the application, because the path is in each hash;
  where a hash could not be made, this is all that is lost. An exit code of 0 means
  that the file is whole, and a diff of whole snapshots tells whether the scans found
  the same. Where one of the two is cut off or cannot be read, 0 still means that nothing
  of the whole one is lost (`DiffComparesFindings`).
- *Text.* Whatever characters an application has in its path, and wherever the file was
  cut, what is loaded is what was saved, or its first part; no text of an application
  passes for a fingerprint. Two commands that create one tree do not disturb each other.

**What the violated runs show.** Each checks a sentence of the repository's
`README.md` that the code does not keep; `PROJECT.json` quotes it under `findings`.
An image on `HarddiskVolume10` gets the drive letter of `HarddiskVolume1`, and its
paths are said to disagree; a thread that has exited gives its id to another process,
whose start address is then held against the scanned one; between two scans in one
evidence directory an index refresh is lost (`EveryCaptureRefreshes`, which
`IndexFollowsLastCapture` is for captures that met no other); and behind a line that was
written in part the next capture, which returns true, has no line of its own
(`OneLinePerCapture`; `RenderEvidenceIndex` counts the two as one item). `DoneEndsOneLine`
says what is left of it.

The models have more of this kind, without a run of their own. In each case the
definition follows the code:

- entropy alone reports private executable memory (`AddHighEntropy`,
  `memscan.cpp:560`, `README.md:47`);
- a module that loads during a scan looks like a hidden one (`AddModuleConsistency`,
  `memscan.cpp:431`, `README.md:43`);
- a failed read of an image's first page counts as a header that is not MZ (`Probe`,
  `README.md:84`);
- the seventeenth finding of a process has no evidence (`EvidenceDue`, `README.md:3`);
- a new dump stays beside old metadata if a capture stops between the two (`Stops`,
  `evidence.cpp:251`);
- the index stays behind for good once the manifest is larger than 64 MiB (`Refused`);
- a report that cannot be read counts as empty, so that `snapshot diff` prints
  everything as removed, or nothing (`ReadOld`, `ReadNew`, `main.cpp:114`, `README.md:78`), and with two of them the exit
  code is 0;
- an enumeration that fails is a scan of nobody that returns true (`EnumAllPids`,
  `memscan.cpp:641`);
- a baseline for a path in another case is empty, with exit code 0 (`Kept`);
- a baseline with a finding that could not be hashed hides every such finding
  (`NoHash`, `util.cpp:41`, `README.md:67`);
- an import name whose rva lies behind the part of a loaded image that was read is
  looked for where a file would have it, and may be reported with other bytes
  (`Layouts`, `peparse.cpp:185`, `README.md:78`).

**Bounds.**

- *Scan of one process:* four pages, the smallest space with an image of a header and
  a code page, another region and a gap or a file mapping. Layout probes are 3 and 1
  pages (the code's 16, 4 and 1), so that the long probe fails where a neighbouring
  page is free and the short one succeeds. The evidence cap is 1, so that a second
  finding exceeds it. `scan_quiet` starts from 3240 targets that stand still (header
  and code protections, contents, private page, loader path, thread) with an ignored
  path and a baseline; `scan_live` lets the target act twice at any point of the walk
  (`MaxChanges = 2`), enough to unmap and remap, or to map and list. Both have two
  drives that `DrivesTellApart`; in `scan_foreign_drive` one device's name begins with
  the other's.
- *Scan of the system:* three processes and the idle one, one of them protected, ids
  0, 1 and 2, one thread id, an enumeration of at most two. A pid or tid can so be
  given again at any point, and the enumeration can be cut off.
- *Parser:* 15139 buffers, made from four images (32 and 64 bits, file layout equal to
  the memory layout or not, a section at the top of the address space), cut off after
  each cell and with each cell overwritten by nine values. Words are 0..127, and the
  limits are 2 sections, 3 descriptors, 3 thunks, 2 exports and 3 characters, so that
  each limit is reached and the sum of the export slots wraps.
- *Evidence:* two writers, two stems (so that stems are shared and distinct), three
  captures, and a manifest limit of two pieces, so that a third one is refused. The
  violated runs need less: no faults for the lost refresh, one writer with two captures
  for the torn line.
- *Command line:* two files and two processes of different applications.
  `reports_shared` has two shells that run two of seven commands, one after or over the
  other, and two severities; processes stand still there. `reports_sequence` lets one
  shell run three of six with one change in between, so that a baseline can be made,
  spoilt and used, and two reports made and compared.
- *Text:* 102 documents of at most three findings, cut anywhere, whose application is
  made of quotes, backslashes, control characters, half surrogates, or imitates a key,
  an array or a fingerprint; two shells, one of which may not create its last directory.

No symmetry is used. Deadlock is checked for the scan of a process, where `Done` stands
for the return; in the other systems captures or commands run out, or the command has
returned, so they may stop.

**Fairness.** `ProcessScan` and `SystemScan` have `WF_vars(Scanner)`: every call the
scanner makes returns, which the blocking system calls it uses justify. Nothing is
assumed of the targets. `PeParse` and `TextFiles` are sequential code, of which
`WF_vars(Next)` says that it runs. The evidence store and the command line have safety
properties only and no fairness.

**Mutants.** Next to a definition stand, under the heading "Mutant of", altered
forms of it: a counter that skips failures, a cache with the region's base as its
key, a local that is not reset, a snapshot before the handle, a sum that wraps. No
action uses them; each property is shown to fail when its mutant takes the
definition's place.

## 4. Proofs

`tlapm` on `ProcessScanProofs.tla`, `StillRegionProofs.tla`, `SystemScanProofs.tla`,
`PeParseProofs.tla`, `EvidenceStoreProofs.tla`, `ReportsProofs.tla`, `TextFilesProofs.tla`
and `TextLoadProofs.tla` checks everything. The invariants that a proof needs are
defined at the head of its module.

The theorems hold for all constants that satisfy the named assumptions of the
modules (`SignalAssumption`, `ScanAssumption`, `TargetAssumption`, `ImageAssumption`,
`FileAssumption`, `ChangeAssumption`, `SystemAssumption`, `PeAssumption`,
`BufferAssumption`, `StoreAssumption`, `ReportsAssumption`, `TextAssumption`), which say
that the parameters have the right shape. Two of them say more: `ScanAssumption` that
the sizes of the layout probes fall (`memscan.cpp:337`: 64 KiB, 16 KiB, 4 KiB), and
`BufferAssumption` that offsets into a buffer fit a 32-bit word, since what `ParsePe` is
given has at most 64 KiB (`memscan.cpp:335, 367-369, 548-552`). One theorem has a hypothesis of its own, without which a run refutes
it: `PathsCompared` (`DrivesTellApart`).

| Theorem | States | Argument |
|---|---|---|
| `ProcessScanProofs!TypeCorrect` | `[]TypeOK` | with `CountInv`: an attempt is due only below the cap. `MinOfNaturals` shows that the first covering section exists. |
| `ProcessScanProofs!Disjoint` | `[]FindingsDisjoint` | `WalkInv`: the region at hand ends at `p` and every finding lies below it. `StepOut` says that only `Judge` appends. |
| `ProcessScanProofs!Context` | `[]ContextNeedsPrimary` | `HeaderInv`: the imports of private memory are read only after the probe found a header there. `ContextOfReasons` is the case split over the signals. |
| `ProcessScanProofs!Budget` | `[]EvidenceBudget` | `BudgetInv`: the counter is the number of attempts, and an attempt in progress is for the last finding. |
| `ProcessScanProofs!PathsCompared` | `DrivesTellApart` implies `[]PathMismatchExact` | `PathInv`: what was read of an untouched image's paths is what it has now. `MismatchOfReasons` finds the comparison among the signals; the hypothesis is what `scan_foreign_drive` lacks. |
| `StillRegionProofs!StillExact` | `[]StillRegionsExact` | `StillInv`, in six parts: what the cache says of a quiet allocation is its layout (`CacheInv`), the module list is the loader's but where it was touched (`ListInv`), probes that failed would fail again (`ProbeInv`), what is held of the region is what it would read now (`HeldInv`), and what was found so far is what an instant would yield (`ExactInv`). `StillBefore` turns a later stillness into an earlier one; `NothingAhead` and `OneRegion` say that a still region is queried once and whole. |
| `SystemScanProofs!TypeCorrect` | `[]TypeOK` | only processes that can be opened are walked. |
| `SystemScanProofs!FindingsTheorem` | `FindingsOfOneProcess` | `Holding`: while a handle is open, the pid names its process or one that has exited, and no other. |
| `SystemScanProofs!EveryoneTheorem` | `[]EveryoneScanned` | `AllDue`: who stays is walked, at work, listed or missed, and `NoneLeft` at the end. `EnumerationComplete`: a list as long as the ids in use, if they have room, has all of them. |
| `PeParseProofs!TypeCorrect` | `[]TypeOK` | with `AtWork`: what each step can rely on. |
| `PeParseProofs!NoReadOutside` | `[]ReadsInside` | a lemma for each kind of read: a structure that fits, a text, the cells of an entropy, a slot. |
| `PeParseProofs!OverlayTheorem` | `[]OverlayBehindSections` | `SectionsRead`: the table is what the header lists, as far as it fits. |
| `PeParseProofs!NamesFound` | `[]LoadedNamesFound` | `PlaceInv`: a table that is in place is read in place, entry by entry. `CompleteInv` and `ExportInv`: what an entry behind the reader names is reported; the entry at work is read in place, or has nothing to lose. |
| `PeParseProofs!NothingInvented` | `[]NothingElseFound` | `SoundInv` and `ExportInv`: where the layouts agree every offset that is tried is the rva itself (`InPlace`), so that what is read is what the loader sees. |
| `EvidenceStoreProofs!TypeCorrect` | `[]TypeOK` | with `ActiveInv`: two writers are never at work on one capture. |
| `EvidenceStoreProofs!Inductive` | `[]IInv` | the conjunction of the parts below. |
| `EvidenceStoreProofs!ManifestIsTrue` | `[]ManifestNamesCompleteFiles` | `FilesInv`: what a capture has written stays while its stem is its own; the line comes last. |
| `EvidenceStoreProofs!DoneLogged` | `[]DoneEndsOneLine` | `LoggedInv`: before its append a capture has no piece, afterwards one that is whole; so a line, which has only one whole piece, ends with it and has no other that returned true. |
| `EvidenceStoreProofs!Refinement` | `ImplementsCaptureLog` | `StepManifest` and `PrefixInv`: each step appends one piece, publishes a prefix, withdraws the index, or stutters. |
| `EvidenceStoreProofs!IndexFollows` | `[]IndexFollowsLastCapture` | `LastInv`: captures at work together are known to overlap, so behind the line of one that does not nothing is appended while it is at work, and what it read back is still the manifest. |
| `ReportsProofs!Inductive`, `TypeCorrect` | `[]IInv`, `[]TypeOK` | `CommandInv`: which options a step can rely on, and that nothing is found before the baseline is loaded. |
| `ReportsProofs!HidesOnlyItsApp`, `HidesWhatItSaw` | `[]BaselineHidesOnlyItsApp`, `[]BaselineHidesWhatItSaw` | `Scoped`: what a file allows, whole or cut off; `FilterInv`: the loaded baseline divides what was found. |
| `ReportsProofs!AlarmIsRaised` | `[]NewFindingRaisesAlarm` | `ExitInv`, with `ExitCodeAlarms`: no result of the write changes the code of an alarming scan. |
| `ReportsProofs!ZeroIsWritten` | `[]ZeroMeansWritten` | `StepOwner` and `StepWritten`: a file whose last writer is `s` is as `s` left it; `FailedCodeStays`: a failed write never ends in 0. |
| `ReportsProofs!DiffIsExact` | `[]DiffComparesFindings` | `DiffInv`, and `Scoped`: a whole report has what was found, any other one no more than that; `ReadOfSnapshot` takes the empty fingerprint out. |
| `TextFilesProofs!TreeShared` | `[]DirectoriesShared` | `MadeInv`: the directories that a shell has passed are there and stay, whoever made them, so the next one fails only if it cannot be created (`NextDirectory`). |
| `TextFilesProofs!TypeCorrect` | `[]TypeOK` | `TextInv`: the places of the reader are in the text, and a fingerprint was found with its quotes. `StringInside`: a string that is read whole ends in the text, with `UnitInside` for its characters and escapes; `DocumentTyped` for what is written. |
| `TextLoadProofs!BaselineExact` | `[]BaselineLoadsWhatWasSaved` | `BaselineInv`: the text is cut from one that is laid out as `BaselineAt` says, and each step of the reader is at the place in it that its `pc` calls for (`BaselineRead`). The array is read element by element (`ElementStep`), and the loop ends at the bracket or where the text does (`NoElementStep`). |
| `TextLoadProofs!ReportExact` | `[]ReportLoadsWhatWasSaved` | `ReportInv`: the search for the next fingerprint never passes the key of one that has not been loaded (`Loaded`), so at the end all are loaded, or the text ends inside the next. |

Recursive functions (`Directory`, `FlattenSeq`, `ParseJsonString`) are reasoned about by
induction over numbers. The library's theorem for it has a parameter that is an
operator; `TextFilesProofs!Induction` states it of a set instead, and follows from the
theorem that every set of numbers has a smallest member. With it the function is shown to
exist (`DirectoryExists`, `FlattenExists`, `RestExists`), so that its equation holds, and
to have values of the right kind.

None of the invariants is inductive by itself: `FindingsDisjoint` says nothing of
where `p` is, `ContextNeedsPrimary` nothing of how the layout came about,
`ManifestNamesCompleteFiles` nothing of a capture that has yet to write its line,
`OverlayBehindSections` nothing of a table that is half read, `LoadedNamesFound` nothing
of how far the tables have been read, `StillRegionsExact` nothing of the region at hand,
`DirectoriesShared` nothing of a shell on its way, and `BaselineLoadsWhatWasSaved` and
`ReportLoadsWhatWasSaved` nothing of a search in progress. `StillInv` shows where the difficulty
of the walk lies: a region that stands still at the end stood still before, so each part
may be said of the regions that are still untouched now, and every step of the target
takes regions out of it.

What is loaded from a text rests on three facts about strings, each an induction over the
text. `ReadEscaped`: what `ParseJsonString` reads of an escaped string is what was escaped, and
it stops behind its last quote, unless the text ends before. `ReadFromInside` and
`ReadFromEnd`: the search for a key takes any quote for the start of a string, so it must be
known what it reads from a quote inside of an escaped string or at its end. `ValueHarmless`
puts them together: no quote of a value, escaped or the last one, begins a string that is
taken for a key, or that runs over the key that is looked for. `SearchStep`, `FindStep` and
`MissStep` then say what a step of `FindKeyValue` does in any text of which the values and the
keys are known, and the two layouts are instances of it. `PartsOfFlatten` gives the places of
the elements in a text that `FlattenSeq` puts together.

Every invariant that a passing run checks is stated by a theorem. Only model-checked are the
liveness properties `ScanTerminates`, `ScanSystemEnds`, `ParseReturns` and `ReadEnds`, since
liveness under fairness is out of the prover's reach.

## 5. Not modelled

- The layout of reports and metadata, the JSON that `snapshot diff` prints, `ToHex64`:
  nothing is read back from them but what `TextFiles` has.
- Entropy as a number. Whether a page or section is over 7.2 is a constant; which bytes
  are counted is in `PeParse`.
- SHA-256 that is made: an injective function here.
- Wildcard matching (`PathMatchSpecW`): the sets of ignored names are parameters.
- PE fields that are only copied (machine, timestamp, section names and characteristics).
- Drives that change during a scan; `Utf8ToWide`, taken as the inverse of `WideToUtf8`;
  directory parts of two dots. What can be opened is opened: `OpenProcess` does not fail
  for a while.
- `self-check`, `dump-schema`, the usage text and a `snapshot diff` with too few
  arguments, which change nothing.
- The vendored `minjson.hpp`, which nothing includes, build files, the example target and
  the tests.
- Of `EnsureDirectoryTree`, a file that has the name of a directory, for which
  `CreateDirectoryW` says ERROR_ALREADY_EXISTS, too (`json.cpp:222`), and the call for a
  bare drive. Of the escapes, newline and tab stand for the five control
  characters that have one of their own, and that of a slash, which nothing writes, is
  left out (`json.cpp:49-53, 143-147`).
- In `ProcessScan`, thread starts of another process (`SystemScan` has them), and a
  header whose validity depends on more than the first page that was read: `Pe` is a
  function of that page's contents.

## 6. Plan

What is above is done. What is left, in order of importance:

1. `ScanEvidence`: composition of the evidence budget of `ProcessScan` with
   `EvidenceStore`, so that attempts and manifest lines are related.
2. An abstract snapshot store that `Reports` implements as long as reads succeed.
