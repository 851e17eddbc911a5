----------------------------- MODULE TextFiles -----------------------------
(***************************************************************************)
(* The files that HollowDetect writes and reads again: the directories of  *)
(* src/core/json.cpp, which several shells create at the same time, the    *)
(* text of a baseline (src/core/config.cpp) or of a report                 *)
(* (src/cli/main.cpp), which may be cut off, and the readers, which look   *)
(* for keys in the text without parsing all of it.                         *)
(*                                                                         *)
(* A text is a sequence of characters; a word without special characters,  *)
(* and a run of blanks, is one character.                                  *)
(***************************************************************************)
EXTENDS Integers, SequencesExt

CONSTANTS
  Shells, Saver,  \* all of them create directories, one goes on to save and load
  DirectoryOf,    \* the path of each shell's directory, name by name
  Denied,         \* directories that CreateDirectoryW does not create
  Documents       \* what is saved: [kind, app, items], an item is [process, fingerprint]

Quote == "\""
Backslash == "\\"
Blank == " "
Named == [newline |-> "n", tab |-> "t"]  \* control characters with an escape of their own
Control == "control"                     \* any other one
Surrogate == "surrogate"                 \* half a pair, which UTF-8 does not have
Replacement == "replacement"

Item == [process : Seq(STRING), fingerprint : Seq(STRING)]

ASSUME TextAssumption ==
  /\ Saver \in Shells /\ DirectoryOf \in [Shells -> Seq(STRING)]
  /\ Documents \subseteq [kind : {"baseline", "report"}, app : Seq(STRING), items : Seq(Item)]

VARIABLES
  dirs,       \* the directories that exist
  pc,         \* the next call of each shell
  n,          \* the prefix of the path that it creates next
  doc,        \* what is saved
  text,       \* the contents of the file
  key, pos,   \* the key that the reader looks for, and where it is
  mark,       \* where it found "fingerprint" last
  app, found  \* what it has loaded: the app, or NoText, and the fingerprints

vars == <<dirs, pc, n, doc, text, key, pos, mark, app, found>>
reader == <<key, pos, mark, app, found>>
NoText == <<"none">>

Goto(s, to) == pc' = [pc EXCEPT ![s] = to]

----------------------------------------------------------------------------
Init ==
  /\ dirs = {<<>>} /\ pc = [s \in Shells |-> "mkdir"] /\ n = [s \in Shells |-> 1]
  /\ doc \in Documents /\ text = <<>>
  /\ key = "app" /\ pos = 1 /\ mark = 0 /\ app = NoText /\ found = <<>>

----------------------------------------------------------------------------
(* Directories.                                                            *)

\* The directory that the first k names of a path denote; the root is there.
Directory(path, k) ==
  LET dir[j \in 0..Len(path)] ==
        IF j = 0 THEN <<>> ELSE IF path[j] = "." THEN dir[j - 1] ELSE Append(dir[j - 1], path[j])
  IN  dir[k]
Above(path) == {Directory(path, k) : k \in 0..Len(path)}

\* Mutant of Accepted: a directory that another shell has created is an error.
AcceptedIfNew(result) == result = "created"

\* ERROR_ALREADY_EXISTS is as good as success.
Accepted(result) == result \in {"created", "exists"}

CreateDirectory(d) ==
  IF d \in dirs THEN "exists"
  ELSE IF Front(d) \in dirs /\ d \notin Denied THEN "created" ELSE "fails"

\* One prefix of the path; the loop of EnsureDirectoryTree begins behind the drive or
\* the share, and passes over a part that is only a dot.
EnsureDirectory(s) ==
  LET d == Directory(DirectoryOf[s], n[s])
      result == CreateDirectory(d)
  IN
  /\ pc[s] = "mkdir" /\ n[s] <= Len(DirectoryOf[s])
  /\ IF d = <<>> \/ Accepted(result)
     THEN n' = [n EXCEPT ![s] = @ + 1] /\ UNCHANGED pc
     ELSE Goto(s, "failed") /\ UNCHANGED n
  /\ dirs' = IF d # <<>> /\ result = "created" THEN dirs \cup {d} ELSE dirs
  /\ UNCHANGED <<doc, text, reader>>

DirectoryThere(s) ==
  /\ pc[s] = "mkdir" /\ n[s] > Len(DirectoryOf[s])
  /\ Goto(s, IF s = Saver THEN "write" ELSE "made")
  /\ UNCHANGED <<dirs, n, doc, text, reader>>

----------------------------------------------------------------------------
(* Text.                                                                   *)

ToUtf8(ch) == IF ch = Surrogate THEN Replacement ELSE ch

\* Mutant of EscapeChar: quotes are left alone.
EscapeBackslash(ch) ==
  IF ch = Backslash THEN <<Backslash, ch>>
  ELSE IF ch \in DOMAIN Named THEN <<Backslash, Named[ch]>>
  ELSE IF ch = Control THEN <<Backslash, "u", "0", "0", "1", "f">> ELSE <<ch>>

EscapeChar(ch) ==
  IF ch \in {Quote, Backslash} THEN <<Backslash, ch>>
  ELSE IF ch \in DOMAIN Named THEN <<Backslash, Named[ch]>>
  ELSE IF ch = Control THEN <<Backslash, "u", "0", "0", "1", "f">> ELSE <<ch>>

Escape(s) == FlattenSeq([k \in DOMAIN s |-> EscapeChar(ToUtf8(s[k]))])
JsonString(s) == <<Quote>> \o Escape(s) \o <<Quote>>
Key(k) == <<Blank, Quote, k, Quote, ":", Blank>>

\* The elements of an array, each behind a blank, with commas in between.
Elements(es) ==
  FlattenSeq([k \in DOMAIN es |-> <<Blank>> \o es[k] \o (IF k < Len(es) THEN <<",">> ELSE <<>>)])

BaselineText(d) ==
  <<"{">> \o Key("schema_version") \o <<"1", ",">>
  \o Key("app") \o JsonString(d.app) \o <<",">>
  \o Key("allowed") \o <<"[">> \o Elements([k \in DOMAIN d.items |-> JsonString(d.items[k].fingerprint)])
  \o <<Blank, "]", Blank, "}", Blank>>

\* Of the fields of a finding, those that an application can choose look like its path.
ItemText(item) ==
  <<"{">> \o Key("process") \o JsonString(item.process) \o <<",">>
  \o Key("import_names") \o <<"[">> \o JsonString(item.process) \o <<"]", ",">>
  \o Key("fingerprint") \o JsonString(item.fingerprint) \o <<Blank, "}">>

ReportText(d) ==
  <<"{">> \o Key("items") \o <<"[">> \o Elements([k \in DOMAIN d.items |-> ItemText(d.items[k])])
  \o <<Blank, "]", Blank, "}", Blank>>

TextOf(d) == IF d.kind = "baseline" THEN BaselineText(d) ELSE ReportText(d)

\* A command that is killed, or a full disk, leaves the first part of the text.
WriteTextFile ==
  /\ pc[Saver] = "write"
  /\ LET whole == TextOf(doc) IN \E k \in 0..Len(whole) : text' = SubSeq(whole, 1, k)
  /\ Goto(Saver, IF doc.kind = "baseline" THEN "search" ELSE "report")
  /\ UNCHANGED <<dirs, n, doc, reader>>

----------------------------------------------------------------------------
(* Reading.                                                                *)

There(p) == p <= Len(text)
CharAt(p) == IF There(p) THEN text[p] ELSE "end"
SkipWs(p) == IF CharAt(p) = Blank THEN p + 1 ELSE p

Failed == [ok |-> FALSE, pos |-> 0, out |-> <<>>]
Unescaped == [k \in {Quote, Backslash, "n", "t"} |->
  CASE k = "n" -> "newline" [] k = "t" -> "tab" [] OTHER -> k]

\* The character or escape at p: what it means and how long it is, nothing if it is broken.
Unit(p) ==
  IF CharAt(p) # Backslash THEN {[out |-> CharAt(p), size |-> 1]}
  ELSE IF CharAt(p + 1) \in DOMAIN Unescaped THEN {[out |-> Unescaped[CharAt(p + 1)], size |-> 2]}
  ELSE IF CharAt(p + 1) = "u" /\ There(p + 5) THEN {[out |-> "?", size |-> 6]} ELSE {}

ParseJsonString(start) ==
  LET rest[p \in 1..Len(text) + 1] ==
        IF ~There(p) \/ Unit(p) = {} THEN Failed
        ELSE IF text[p] = Quote THEN [ok |-> TRUE, pos |-> p + 1, out |-> <<>>]
        ELSE LET u == CHOOSE x \in Unit(p) : TRUE
                 r == rest[p + u.size]
             IN  IF r.ok THEN [r EXCEPT !.out = <<u.out>> \o @] ELSE Failed
      open == SkipWs(start)
  IN  IF CharAt(open) = Quote THEN rest[open + 1] ELSE Failed

\* Mutant of Resume: the string that was no key is looked at again.
ResumeAtQuote(quote) == quote

\* Where the search goes on if a string is no key: inside of it.
Resume(quote) == quote + 1

NextQuote == {p \in pos..Len(text) : text[p] = Quote /\ \A c \in pos..p - 1 : text[c] # Quote}

Search == pc[Saver] = "search"

\* One string of FindKeyValue: the key, whose value is next, another key, or a value.
FindKeyValue ==
  /\ Search
  /\ \E p \in NextQuote :
       LET string == ParseJsonString(p)
           colon == SkipWs(string.pos)
       IN
       /\ string.ok
       /\ \/ CharAt(colon) # ":" /\ pos' = Resume(p) /\ UNCHANGED pc
          \/ CharAt(colon) = ":" /\ string.out # <<key>> /\ pos' = colon + 1 /\ UNCHANGED pc
          \/ CharAt(colon) = ":" /\ string.out = <<key>> /\ pos' = SkipWs(colon + 1) /\ Goto(Saver, "value")
  /\ UNCHANGED <<dirs, n, doc, text, key, mark, app, found>>

\* Mutant of BehindMark: one character more than the word in quotes has.
BehindColon == mark + 4

BehindMark == mark + 3

\* After the app of a baseline its array is looked for, from the start; after one
\* fingerprint of a report the next one.
GoOn ==
  IF key = "app" THEN key' = "allowed" /\ pos' = 1 /\ Goto(Saver, "search")
  ELSE /\ UNCHANGED key
       /\ pos' = IF key = "fingerprint" THEN BehindMark ELSE pos
       /\ Goto(Saver, IF key = "fingerprint" THEN "report" ELSE "done")

\* No string is left, or one that is broken comes first.
KeyMissing ==
  /\ Search /\ \A p \in NextQuote : ~ParseJsonString(p).ok
  /\ GoOn
  /\ UNCHANGED <<dirs, n, doc, text, mark, app, found>>

\* JsonFindString; fingerprints are a set, without the empty one.
FindString ==
  LET string == ParseJsonString(pos) IN
  /\ pc[Saver] = "value" /\ key # "allowed"
  /\ app' = IF key = "app" /\ string.ok THEN string.out ELSE app
  /\ found' = IF key = "fingerprint" /\ string.ok /\ string.out # <<>> THEN Append(found, string.out) ELSE found
  /\ GoOn
  /\ UNCHANGED <<dirs, n, doc, text, mark>>

OpenArray ==
  /\ pc[Saver] = "value" /\ key = "allowed"
  /\ IF CharAt(pos) = "[" THEN pos' = pos + 1 /\ Goto(Saver, "items")
     ELSE UNCHANGED pos /\ Goto(Saver, "done")
  /\ UNCHANGED <<dirs, n, doc, text, key, mark, app, found>>

\* Mutant of ArrayBroken: what has been read of a broken array is kept.
KeepsItems == found

\* An array that is broken counts as an empty one.
ArrayBroken == <<>>

\* One element of JsonFindStringArray.  The end of the text ends the array, too, but
\* only right behind a comma.
ReadElement ==
  LET at == SkipWs(pos)
      string == ParseJsonString(at)
      behind == SkipWs(string.pos)
  IN
  /\ pc[Saver] = "items"
  /\ \/ /\ ~There(pos) \/ CharAt(at) = "]"
        /\ Goto(Saver, "done") /\ UNCHANGED <<pos, found>>
     \/ /\ There(pos) /\ CharAt(at) # "]" /\ string.ok /\ CharAt(behind) \in {",", "]"}
        /\ found' = Append(found, string.out) /\ pos' = behind + 1
        /\ IF CharAt(behind) = "," THEN UNCHANGED pc ELSE Goto(Saver, "done")
     \/ /\ There(pos) /\ CharAt(at) # "]" /\ ~(string.ok /\ CharAt(behind) \in {",", "]"})
        /\ found' = ArrayBroken /\ Goto(Saver, "done") /\ UNCHANGED pos
  /\ UNCHANGED <<dirs, n, doc, text, key, mark, app>>

\* FingerprintsFromReport looks for the word in quotes, whatever it is, and for the key
\* from there on.
Marks == {p \in pos..Len(text) - 2 : SubSeq(text, p, p + 2) = <<Quote, "fingerprint", Quote>>}

NextFingerprint ==
  /\ pc[Saver] = "report"
  /\ IF Marks = {} THEN Goto(Saver, "done") /\ UNCHANGED <<key, pos, mark>>
     ELSE /\ \E p \in Marks : (\A q \in Marks : p <= q) /\ mark' = p /\ pos' = p
          /\ key' = "fingerprint" /\ Goto(Saver, "search")
  /\ UNCHANGED <<dirs, n, doc, text, app, found>>

Read ==
  \/ FindKeyValue \/ KeyMissing \/ FindString \/ OpenArray \/ ReadElement \/ NextFingerprint

Next ==
  \/ \E s \in Shells : EnsureDirectory(s) \/ DirectoryThere(s)
  \/ WriteTextFile \/ Read

Spec == Init /\ [][Next]_vars /\ WF_vars(Next)

----------------------------------------------------------------------------
(* Properties.                                                             *)

\* The type of every variable; only directories of a path are made, and the reader stays
\* in the text or right behind it (json.cpp:69-94, 257-285, main.cpp:120-130).
TypeOK ==
  /\ dirs \subseteq UNION {Above(DirectoryOf[s]) : s \in Shells}
  /\ pc \in [Shells -> {"mkdir", "made", "failed", "write", "search", "value", "items", "report", "done"}]
  /\ n \in [Shells -> Nat \ {0}] /\ doc \in Documents
  /\ IsPrefix(text, TextOf(doc))
  /\ key \in {"app", "allowed", "fingerprint"} /\ pos \in 1..Len(text) + 1 /\ mark \in 0..Len(text)

\* Two shells that create one tree at the same time do not disturb each other: none
\* fails but for a directory that cannot be created, and the directory of one that goes
\* on is there (json.cpp:190-235).
DirectoriesShared ==
  \A s \in Shells :
    CASE pc[s] = "mkdir" -> TRUE
      [] pc[s] = "failed" -> Above(DirectoryOf[s]) \cap Denied # {}
      [] OTHER -> Above(DirectoryOf[s]) \subseteq dirs

\* What a string becomes that is saved and loaded: half a surrogate pair and control
\* characters without an escape of their own are lost.
Kept(s) ==
  [k \in DOMAIN s |-> IF s[k] = Surrogate THEN Replacement ELSE IF s[k] = Control THEN "?" ELSE s[k]]

\* The array of a baseline may be read up to a comma at which the text was cut.
Saved == {Kept(doc.items[k].fingerprint) : k \in DOMAIN doc.items}
SavedUpTo(k) == [j \in 1..k |-> Kept(doc.items[j].fingerprint)]
WholeText == text = TextOf(doc)

\* Whatever characters an application has in its path, what is loaded is what was saved;
\* of a text that was cut off, the app or none and the first fingerprints: none unless
\* the text ends behind their comma or their bracket (config.cpp:22-46,
\* json.cpp:69-94, 245-287).
BaselineLoadsWhatWasSaved ==
  pc[Saver] = "done" /\ doc.kind = "baseline" =>
    /\ app \in {NoText, Kept(doc.app)}
    /\ \E k \in 0..Len(doc.items) :
         /\ found = SavedUpTo(k)
         /\ k \in 1..Len(doc.items) - 1 => Last(text) = ","
    /\ WholeText => app = Kept(doc.app) /\ found = SavedUpTo(Len(doc.items))

\* No text of an application passes for a fingerprint of a report, and none is lost;
\* of a report that was cut off, the first ones are found (main.cpp:113-131).
ReportLoadsWhatWasSaved ==
  pc[Saver] = "done" /\ doc.kind = "report" =>
    /\ \E k \in 0..Len(doc.items) : ToSet(found) = ToSet(SavedUpTo(k)) \ {<<>>}
    /\ WholeText => ToSet(found) = Saved \ {<<>>}

\* The reader comes to an end, wherever the text does (json.cpp:69-94, 257-285,
\* main.cpp:120-130).
ReadEnds == <>(pc[Saver] \in {"failed", "done"})
=============================================================================
