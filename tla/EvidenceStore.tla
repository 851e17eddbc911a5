--------------------------- MODULE EvidenceStore ---------------------------
(***************************************************************************)
(* WriteEvidence of src/core/evidence.cpp, with the file functions of      *)
(* src/core/json.cpp, run by any number of writers (scans in processes of  *)
(* their own) on one evidence directory.  A capture writes a dump and a    *)
(* metadata file under its stem (pid and base address), appends a line to  *)
(* manifest.jsonl, reads the manifest back and rewrites index.json from    *)
(* it.  There is no lock and no temporary file: the writers meet in the    *)
(* share modes of CreateFileW, where the second open simply fails, and any *)
(* step can fail or be the last one of a process.                          *)
(*                                                                         *)
(* Captures are numbered in the order in which they start.  What a file    *)
(* holds is the number of the capture that wrote it.                       *)
(***************************************************************************)
EXTENDS Integers, Sequences, SequencesExt

CONSTANTS
  Writers,        \* scans that share the directory
  Stems,          \* pid and base address of a finding
  MaxCaptures,    \* bound on the captures started
  ManifestLimit,  \* most pieces that ReadTextFile still reads (64 MiB of them)
  Faults          \* whether calls may fail and processes die

ASSUME StoreAssumption ==
  /\ MaxCaptures \in Nat /\ ManifestLimit \in Nat /\ Faults \in BOOLEAN

VARIABLES
  wpc,       \* wpc[w] : the next call of writer w
  cur,       \* cur[w] : its capture
  loaded,    \* loaded[w] : manifest_text
  dumps, metas,  \* the .bin and the .json file of each stem
  manifest,  \* the pieces appended to manifest.jsonl, in order
  index,     \* index.json
  started,   \* history: the stem of each capture
  done,      \* history: the captures for which WriteEvidence returned true
  overlapped \* history: the captures that were at work together with another one

files == <<dumps, metas, manifest, index>>
history == <<started, done, overlapped>>
vars == <<wpc, cur, loaded, files, history>>

Absent == 0
Torn == -1     \* truncated, or written in part

\* A piece of the manifest; a piece that is not whole has no end of line.
Pieces == [id : 1..MaxCaptures, whole : BOOLEAN]
NoIndex == [whole |-> FALSE, text |-> <<>>]

Steps == {"read", "dump_open", "dump_write", "meta_open", "meta_write", "line_open",
          "line_write", "load_open", "load_read", "index_open", "index_write", "return"}

Init ==
  /\ wpc = [w \in Writers |-> "idle"]
  /\ cur = [w \in Writers |-> 0]
  /\ loaded = [w \in Writers |-> <<>>]
  /\ dumps = [s \in Stems |-> Absent] /\ metas = [s \in Stems |-> Absent]
  /\ manifest = <<>> /\ index = NoIndex
  /\ started = <<>> /\ done = {} /\ overlapped = {}

StemOf(w) == started[cur[w]]
Goto(w, from, to) == wpc[w] = from /\ wpc' = [wpc EXCEPT ![w] = to]

\* The captures of the other writers.
AtWork(w) == {cur[v] : v \in {u \in Writers \ {w} : wpc[u] # "idle"}}

\* Some other writer has the file open in one of these steps.
Holds(w, steps) == \E v \in Writers \ {w} : wpc[v] \in steps
HoldsStem(w, step) == \E v \in Writers \ {w} : wpc[v] = step /\ StemOf(v) = StemOf(w)

\* The sharing violations: dump, metadata and index are opened for themselves
\* alone, the manifest for one appender or for several readers.
Conflict(w) ==
  \/ wpc[w] = "dump_open" /\ HoldsStem(w, "dump_write")
  \/ wpc[w] = "meta_open" /\ HoldsStem(w, "meta_write")
  \/ wpc[w] = "line_open" /\ Holds(w, {"line_write", "load_read"})
  \/ wpc[w] = "load_open" /\ Holds(w, {"line_write"})
  \/ wpc[w] = "index_open" /\ Holds(w, {"index_write"})

----------------------------------------------------------------------------
(* The steps of a capture.                                                 *)

\* The directory exists or is made.
Begin(w, s) ==
  /\ Goto(w, "idle", "read") /\ Len(started) < MaxCaptures
  /\ started' = Append(started, s)
  /\ cur' = [cur EXCEPT ![w] = Len(started) + 1]
  /\ loaded' = [loaded EXCEPT ![w] = <<>>]
  /\ overlapped' = IF AtWork(w) = {} THEN overlapped
                    ELSE overlapped \cup AtWork(w) \cup {Len(started) + 1}
  /\ UNCHANGED <<files, done>>

ReadRemote(w) ==
  /\ Goto(w, "read", "dump_open")
  /\ UNCHANGED <<files, cur, loaded, history>>

\* CREATE_ALWAYS empties the file before anything is written.
OpenDump(w) ==
  /\ ~Conflict(w) /\ Goto(w, "dump_open", "dump_write")
  /\ dumps' = [dumps EXCEPT ![StemOf(w)] = Torn]
  /\ UNCHANGED <<metas, manifest, index, cur, loaded, history>>

\* Mutant of WriteDump: the number of bytes written is not compared.
WriteDumpUnchecked(w) ==
  /\ Goto(w, "dump_write", "meta_open")
  /\ dumps' \in {dumps, [dumps EXCEPT ![StemOf(w)] = cur[w]]}
  /\ UNCHANGED <<metas, manifest, index, cur, loaded, history>>

WriteDump(w) ==
  /\ Goto(w, "dump_write", "meta_open")
  /\ dumps' = [dumps EXCEPT ![StemOf(w)] = cur[w]]
  /\ UNCHANGED <<metas, manifest, index, cur, loaded, history>>

OpenMeta(w) ==
  /\ ~Conflict(w) /\ Goto(w, "meta_open", "meta_write")
  /\ metas' = [metas EXCEPT ![StemOf(w)] = Torn]
  /\ UNCHANGED <<dumps, manifest, index, cur, loaded, history>>

WriteMeta(w) ==
  /\ Goto(w, "meta_write", "line_open")
  /\ metas' = [metas EXCEPT ![StemOf(w)] = cur[w]]
  /\ UNCHANGED <<dumps, manifest, index, cur, loaded, history>>

\* OPEN_ALWAYS: the file keeps what it has.
OpenManifest(w) ==
  /\ ~Conflict(w) /\ Goto(w, "line_open", "line_write")
  /\ UNCHANGED <<files, cur, loaded, history>>

\* Mutant of AfterAppend: GENERIC_WRITE in place of FILE_APPEND_DATA, so that
\* the line lands at the start of the file.
AfterOverwrite(w) ==
  IF manifest = <<>> THEN <<[id |-> cur[w], whole |-> TRUE]>>
  ELSE [manifest EXCEPT ![1] = [id |-> cur[w], whole |-> TRUE]]

AfterAppend(w) == Append(manifest, [id |-> cur[w], whole |-> TRUE])

\* Mutant of AppendTextLine: the number of bytes written is not compared.
AppendTextLineUnchecked(w) ==
  /\ Goto(w, "line_write", "load_open")
  /\ \E b \in BOOLEAN : manifest' = Append(manifest, [id |-> cur[w], whole |-> b])
  /\ UNCHANGED <<dumps, metas, index, cur, loaded, history>>

AppendTextLine(w) ==
  /\ Goto(w, "line_write", "load_open")
  /\ manifest' = AfterAppend(w)
  /\ UNCHANGED <<dumps, metas, index, cur, loaded, history>>

OpenForLoad(w) ==
  /\ ~Conflict(w) /\ Goto(w, "load_open", "load_read")
  /\ UNCHANGED <<files, cur, loaded, history>>

\* Mutants of ReadTextFile: a long manifest is cut, or read as it is.
ReadTextFileCut(w) ==
  /\ Goto(w, "load_read", "index_open")
  /\ loaded' = [loaded EXCEPT ![w] = SubSeq(manifest, 1, Min({Len(manifest), ManifestLimit}))]
  /\ UNCHANGED <<files, cur, history>>

ReadTextFileUnbounded(w) ==
  /\ Goto(w, "load_read", "index_open")
  /\ loaded' = [loaded EXCEPT ![w] = manifest]
  /\ UNCHANGED <<files, cur, history>>

ReadTextFile(w) ==
  /\ Goto(w, "load_read", "index_open") /\ Len(manifest) <= ManifestLimit
  /\ loaded' = [loaded EXCEPT ![w] = manifest]
  /\ UNCHANGED <<files, cur, history>>

OpenIndex(w) ==
  /\ ~Conflict(w) /\ Goto(w, "index_open", "index_write")
  /\ index' = NoIndex
  /\ UNCHANGED <<dumps, metas, manifest, cur, loaded, history>>

\* The index holds a rendering of the text that was loaded.
WriteIndex(w) ==
  /\ Goto(w, "index_write", "return")
  /\ index' = [whole |-> TRUE, text |-> loaded[w]]
  /\ UNCHANGED <<dumps, metas, manifest, cur, loaded, history>>

Return(w) ==
  /\ Goto(w, "return", "idle")
  /\ done' = done \cup {cur[w]}
  /\ UNCHANGED <<files, cur, loaded, started, overlapped>>

\* WriteEvidence returns false: an open meets another writer, or the manifest has
\* grown past what ReadTextFile accepts.
Refused(w) ==
  /\ Conflict(w) \/ (wpc[w] = "load_read" /\ Len(manifest) > ManifestLimit)
  /\ wpc' = [wpc EXCEPT ![w] = "idle"]
  /\ UNCHANGED <<files, cur, loaded, history>>

\* A call fails and WriteEvidence returns false, or the process dies and another
\* one takes its place.  What was opened stays as it is; of the line, a part may
\* have reached the disk.
Stops(w) ==
  /\ Faults /\ wpc[w] # "idle"
  /\ wpc' = [wpc EXCEPT ![w] = "idle"]
  /\ \/ UNCHANGED manifest
     \/ /\ wpc[w] = "line_write"
        /\ manifest' = Append(manifest, [id |-> cur[w], whole |-> FALSE])
  /\ UNCHANGED <<dumps, metas, index, cur, loaded, history>>

Step(w) ==
  \/ \E s \in Stems : Begin(w, s)
  \/ ReadRemote(w) \/ OpenDump(w) \/ WriteDump(w) \/ OpenMeta(w) \/ WriteMeta(w)
  \/ OpenManifest(w) \/ AppendTextLine(w) \/ OpenForLoad(w) \/ ReadTextFile(w)
  \/ OpenIndex(w) \/ WriteIndex(w) \/ Return(w) \/ Refused(w) \/ Stops(w)

Next == \E w \in Writers : Step(w)

Spec == Init /\ [][Next]_vars

----------------------------------------------------------------------------
(* Properties.                                                             *)

Contents == {Torn, Absent} \cup 1..MaxCaptures

\* The type of every variable.  What is held of the manifest in memory, and goes into
\* the index, is never longer than ReadTextFile allows (json.cpp:169-177).
TypeOK ==
  /\ wpc \in [Writers -> Steps \cup {"idle"}]
  /\ cur \in [Writers -> 0..MaxCaptures]
  /\ loaded \in [Writers -> Seq(Pieces)]
  /\ \A w \in Writers : Len(loaded[w]) <= ManifestLimit
  /\ dumps \in [Stems -> Contents] /\ metas \in [Stems -> Contents]
  /\ manifest \in Seq(Pieces)
  /\ index \in [whole : BOOLEAN, text : Seq(Pieces)] /\ Len(index.text) <= ManifestLimit
  /\ started \in Seq(Stems) /\ Len(started) <= MaxCaptures
  /\ done \subseteq 1..MaxCaptures /\ overlapped \subseteq 1..MaxCaptures

\* The stem of capture c names no other capture.
OwnStem(c) == \A d \in DOMAIN started : started[d] = started[c] => d = c

\* A manifest line that was written whole names a dump and a metadata file that
\* are complete and come from the capture of that line, whatever failed and
\* whoever else wrote in the directory, as long as no other capture has taken the
\* same pid and base address (evidence.cpp:251-261: the line comes last).
ManifestNamesCompleteFiles ==
  \A i \in DOMAIN manifest :
    LET c == manifest[i].id IN
      manifest[i].whole /\ OwnStem(c) => dumps[started[c]] = c /\ metas[started[c]] = c

\* The pieces on the line that ends with piece i: it begins behind the last piece that
\* has an end of line.
LineOf(i) == {j \in 1..i : \A k \in j..(i - 1) : ~manifest[k].whole}

\* The text of capture c ends the line at i, with its end of line, and is nowhere else.
EndsLine(c, i) ==
  /\ manifest[i] = [id |-> c, whole |-> TRUE]
  /\ \A j \in DOMAIN manifest : manifest[j].id = c => j = i

\* A capture for which WriteEvidence returned true ends one line of the manifest and is
\* on no other, and no other capture that returned true is on that line: in front of
\* it stands at most the torn text of captures that failed (evidence.cpp:36-46, 259-267).
DoneEndsOneLine ==
  \A c \in done : \E i \in DOMAIN manifest :
    EndsLine(c, i) /\ \A j \in LineOf(i) \ {i} : manifest[j].id \notin done

\* README.md:80 says that evidence mode appends one line per capture to manifest.jsonl:
\* a capture that returned true has a line with nothing else on it.  The code writes a
\* line and its end in one call and looks for no torn line before it (evidence.cpp:36-46),
\* so that this fails.
OneLinePerCapture ==
  \A c \in done : \E i \in DOMAIN manifest : EndsLine(c, i) /\ LineOf(i) = {i}

\* The directory is a capture log: the manifest only grows, and an index that can
\* be read presents a prefix of it, even when it is rewritten from a stale copy
\* (evidence.cpp:259-267).
Log == INSTANCE CaptureLog WITH
         Entries <- Pieces, log <- manifest,
         published <- IF index.whole THEN {index.text} ELSE {}
ImplementsCaptureLog == Log!Spec

IndexShowsManifest == index = [whole |-> TRUE, text |-> manifest]

\* When the last piece of the manifest is of a capture that returned true, and that had
\* the directory for itself while it was at work, the index shows the whole manifest:
\* whatever failed or overlapped before it, and whoever has started since and has not
\* come to its line yet (evidence.cpp:259-267).
IndexFollowsLastCapture ==
  manifest # <<>> /\ Last(manifest).id \in done \ overlapped => IndexShowsManifest

\* README.md:80 says of every capture that it refreshes index.json.  The manifest is
\* read and the index written without a lock (evidence.cpp:263-267), so that this fails
\* when captures overlap.
EveryCaptureRefreshes ==
  manifest # <<>> /\ Last(manifest).id \in done => IndexShowsManifest
=============================================================================
