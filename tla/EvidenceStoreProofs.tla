------------------------ MODULE EvidenceStoreProofs ------------------------
(***************************************************************************)
(* Theorems of EvidenceStore, for every number of writers, stems and       *)
(* captures, with and without faults.                                      *)
(***************************************************************************)
EXTENDS EvidenceStore, SequenceTheorems, TLAPS

(***************************************************************************)
(* The inductive invariant.                                                *)
(***************************************************************************)
AfterLine == {"load_open", "load_read", "index_open", "index_write", "return"}
BeforeLine == Steps \ AfterLine
DumpWritten == AfterLine \cup {"meta_open", "meta_write", "line_open", "line_write"}
MetaWritten == AfterLine \cup {"line_open", "line_write"}

\* Two writers are never at work on the same capture.
ActiveInv ==
  \A w \in Writers : wpc[w] # "idle" =>
    /\ cur[w] \in 1..Len(started)
    /\ \A v \in Writers \ {w} : wpc[v] # "idle" => cur[v] # cur[w]

HasLine(c) == \E i \in DOMAIN manifest : manifest[i] = [id |-> c, whole |-> TRUE]

\* A capture appends once, after its dump and metadata steps.
LoggedInv ==
  /\ \A i \in DOMAIN manifest : manifest[i].id \in 1..Len(started)
  /\ \A i, j \in DOMAIN manifest : manifest[i].id = manifest[j].id => i = j
  /\ \A w \in Writers : wpc[w] \in BeforeLine =>
       \A i \in DOMAIN manifest : manifest[i].id # cur[w]
  /\ \A w \in Writers : wpc[w] \in AfterLine => HasLine(cur[w])
  /\ \A c \in done : HasLine(c)

\* What a capture has written stays as long as its stem is its own.
FilesInv ==
  /\ \A w \in Writers : wpc[w] \in DumpWritten /\ OwnStem(cur[w]) => dumps[StemOf(w)] = cur[w]
  /\ \A w \in Writers : wpc[w] \in MetaWritten /\ OwnStem(cur[w]) => metas[StemOf(w)] = cur[w]

\* What was read of the manifest, and what was made of it, stays a prefix of it.
PrefixInv ==
  /\ \A w \in Writers : IsPrefix(loaded[w], manifest)
  /\ index.whole => IsPrefix(index.text, manifest)

\* Captures that are at work together are known to overlap.  One that does not is alone
\* from its start on: its piece stays the last one, and of it the index is made.
LastInv ==
  /\ IndexFollowsLastCapture
  /\ \A w \in Writers : wpc[w] # "idle" => cur[w] \notin done
  /\ \A v, w \in Writers :
       v # w /\ wpc[v] # "idle" /\ wpc[w] # "idle" => cur[w] \in overlapped
  /\ \A w \in Writers : wpc[w] \in AfterLine =>
       manifest # <<>> /\ Last(manifest).id \in {cur[w]} \cup overlapped
  /\ \A w \in Writers : cur[w] \notin overlapped =>
       /\ wpc[w] \in AfterLine => Last(manifest).id = cur[w]
       /\ wpc[w] \in {"index_open", "index_write"} => loaded[w] = manifest
       /\ wpc[w] = "return" => IndexShowsManifest

IInv == TypeOK /\ ActiveInv /\ LoggedInv /\ FilesInv /\ PrefixInv /\ ManifestNamesCompleteFiles


(***************************************************************************)
(* Type correctness.  That a capture's number is in range when its line is *)
(* appended needs ActiveInv, so the two are proved together.               *)
(***************************************************************************)
LEMMA InitTypeActive == Init => TypeOK /\ ActiveInv
  BY StoreAssumption, EmptySeq DEF Init, TypeOK, ActiveInv, Steps, Contents, NoIndex, Absent

LEMMA StepTypeActive ==
  ASSUME TypeOK, ActiveInv, [Next]_vars
  PROVE  TypeOK' /\ ActiveInv'
<1> USE DEF Goto, Steps, files, history
<1>1. CASE UNCHANGED vars
  BY <1>1 DEF vars, files, history, TypeOK, ActiveInv
<1>2. ASSUME NEW w \in Writers, Step(w)
      PROVE  TypeOK' /\ ActiveInv'
  <2>0. /\ wpc[w] # "idle" => cur[w] \in 1..MaxCaptures
        /\ wpc[w] # "idle" => StemOf(w) \in Stems
    <3>1. DOMAIN started = 1..Len(started) /\ Len(started) \in Nat
      BY LenProperties DEF TypeOK
    <3> QED BY <3>1, ElementOfSeq, StoreAssumption DEF TypeOK, ActiveInv, StemOf
  <2>1. ASSUME NEW s \in Stems, Begin(w, s) PROVE TypeOK' /\ ActiveInv'
    <3>1. /\ Append(started, s) \in Seq(Stems)
          /\ Len(Append(started, s)) = Len(started) + 1
          /\ Len(started) \in Nat
      BY <2>1, AppendProperties, LenProperties DEF TypeOK
    <3>2. TypeOK'
      <4>1. overlapped' \subseteq 1..MaxCaptures
        <5>1. AtWork(w) \subseteq 1..MaxCaptures
          BY <3>1, StoreAssumption DEF TypeOK, ActiveInv, AtWork
        <5>2. Len(started) + 1 \in 1..MaxCaptures /\ overlapped \subseteq 1..MaxCaptures
          BY <2>1, <3>1, StoreAssumption DEF TypeOK, Begin
        <5>3. overlapped' \in {overlapped, overlapped \cup AtWork(w) \cup {Len(started) + 1}}
          BY <2>1 DEF Begin
        <5> QED BY <5>1, <5>2, <5>3
      <4>2. \A v \in Writers : loaded'[v] \in {loaded[v], <<>>}
        BY <2>1 DEF TypeOK, Begin
      <4>3. /\ loaded' \in [Writers -> Seq(Pieces)]
            /\ \A v \in Writers : Len(loaded'[v]) <= ManifestLimit
        BY <2>1, <4>2, StoreAssumption, EmptySeq DEF TypeOK, Begin
      <4> QED BY <2>1, <3>1, <4>1, <4>3, StoreAssumption DEF TypeOK, Begin
    <3>3. ActiveInv'
      BY <2>1, <3>1, StoreAssumption DEF TypeOK, ActiveInv, Begin
    <3> QED BY <3>2, <3>3
  <2>2. ASSUME started' = started, cur' = cur,
               \A v \in Writers : wpc'[v] # "idle" => wpc[v] # "idle"
        PROVE  ActiveInv'
    BY <2>2 DEF ActiveInv
  <2>3. CASE ReadRemote(w) \/ OpenManifest(w) \/ OpenForLoad(w) \/ Refused(w)
    <3>1. TypeOK'
      BY <2>3 DEF TypeOK, ReadRemote, OpenManifest, OpenForLoad, Refused
    <3>2. ActiveInv'
      BY <2>2, <2>3 DEF TypeOK, ReadRemote, OpenManifest, OpenForLoad, Refused
    <3> QED BY <3>1, <3>2
  <2>4. CASE OpenDump(w) \/ WriteDump(w)
    <3>1. TypeOK'
      BY <2>0, <2>4 DEF TypeOK, Contents, OpenDump, WriteDump
    <3>2. ActiveInv'
      BY <2>2, <2>4 DEF TypeOK, OpenDump, WriteDump
    <3> QED BY <3>1, <3>2
  <2>5. CASE OpenMeta(w) \/ WriteMeta(w)
    <3>1. TypeOK'
      BY <2>0, <2>5 DEF TypeOK, Contents, OpenMeta, WriteMeta
    <3>2. ActiveInv'
      BY <2>2, <2>5 DEF TypeOK, OpenMeta, WriteMeta
    <3> QED BY <3>1, <3>2
  <2>6. CASE AppendTextLine(w)
    <3>1. [id |-> cur[w], whole |-> TRUE] \in Pieces
      BY <2>0, <2>6 DEF Pieces, AppendTextLine, AfterAppend
    <3>2. TypeOK'
      BY <2>6, <3>1, AppendProperties DEF TypeOK, AppendTextLine, AfterAppend
    <3>3. ActiveInv'
      BY <2>2, <2>6 DEF TypeOK, AppendTextLine, AfterAppend
    <3> QED BY <3>2, <3>3
  <2>7. CASE ReadTextFile(w) \/ OpenIndex(w) \/ WriteIndex(w)
    <3>1. TypeOK'
      <4>1. NoIndex \in [whole : BOOLEAN, text : Seq(Pieces)] /\ Len(NoIndex.text) <= ManifestLimit
        BY EmptySeq, StoreAssumption DEF NoIndex
      <4>2. CASE ReadTextFile(w)
        BY <4>2 DEF TypeOK, ReadTextFile
      <4>3. CASE OpenIndex(w)
        BY <4>1, <4>3 DEF TypeOK, OpenIndex
      <4>4. CASE WriteIndex(w)
        BY <4>4 DEF TypeOK, WriteIndex
      <4> QED BY <2>7, <4>2, <4>3, <4>4
    <3>2. ActiveInv'
      BY <2>2, <2>7 DEF TypeOK, ReadTextFile, OpenIndex, WriteIndex
    <3> QED BY <3>1, <3>2
  <2>8. CASE Return(w)
    <3>1. TypeOK'
      BY <2>0, <2>8 DEF TypeOK, Return
    <3>2. ActiveInv'
      BY <2>2, <2>8 DEF TypeOK, Return
    <3> QED BY <3>1, <3>2
  <2>9. CASE Stops(w)
    <3>1. [id |-> cur[w], whole |-> FALSE] \in Pieces
      BY <2>0, <2>9 DEF Pieces, Stops
    <3>2. TypeOK'
      <4>1. manifest' \in Seq(Pieces)
        <5>1. manifest \in Seq(Pieces)
          BY DEF TypeOK
        <5>2. Append(manifest, [id |-> cur[w], whole |-> FALSE]) \in Seq(Pieces)
          BY <3>1, <5>1, AppendProperties
        <5> QED BY <2>9, <5>1, <5>2 DEF Stops
      <4> QED BY <2>9, <4>1 DEF TypeOK, Stops
    <3>3. ActiveInv'
      BY <2>2, <2>9 DEF TypeOK, Stops
    <3> QED BY <3>2, <3>3
  <2> QED BY <1>2, <2>1, <2>3, <2>4, <2>5, <2>6, <2>7, <2>8, <2>9 DEF Step
<1> QED BY <1>1, <1>2 DEF Next

\* Every variable keeps its type.
THEOREM TypeCorrect == Spec => []TypeOK
<1>1. Init => TypeOK /\ ActiveInv
  BY InitTypeActive
<1>2. TypeOK /\ ActiveInv /\ [Next]_vars => (TypeOK /\ ActiveInv)'
  BY StepTypeActive
<1> QED BY <1>1, <1>2, PTL DEF Spec

(***************************************************************************)
(* The manifest.  A step leaves it alone or appends one piece of the       *)
(* capture at work; from this follow the uniqueness of a capture's line    *)
(* and the refinement.                                                     *)
(***************************************************************************)
LEMMA StepManifest ==
  ASSUME NEW w \in Writers, Step(w)
  PROVE  \/ manifest' = manifest
         \/ \E b \in BOOLEAN :
              /\ wpc[w] = "line_write" /\ started' = started /\ cur' = cur /\ done' = done
              /\ manifest' = Append(manifest, [id |-> cur[w], whole |-> b])
  BY DEF Step, Begin, ReadRemote, OpenDump, WriteDump, OpenMeta, WriteMeta, OpenManifest,
         AppendTextLine, AfterAppend, OpenForLoad, ReadTextFile, OpenIndex, WriteIndex, Return,
         Refused, Stops, Goto, files, history

LEMMA AppendPiece ==
  ASSUME NEW m \in Seq(Pieces), NEW e \in Pieces
  PROVE  /\ Append(m, e) \in Seq(Pieces)
         /\ DOMAIN m = 1..Len(m) /\ Len(m) \in Nat
         /\ DOMAIN Append(m, e) = 1..(Len(m) + 1)
         /\ \A i \in 1..Len(m) : Append(m, e)[i] = m[i]
         /\ Append(m, e)[Len(m) + 1] = e
  BY AppendProperties, LenProperties

\* The steps that move a writer on without touching the manifest or the history.
LEMMA StepQuiet ==
  ASSUME TypeOK, NEW w \in Writers, Step(w)
  PROVE  \/ \E s \in Stems : Begin(w, s)
         \/ AppendTextLine(w)
         \/ Return(w)
         \/ Stops(w) /\ manifest' # manifest
         \/ /\ manifest' = manifest /\ started' = started /\ cur' = cur /\ done' = done
            /\ wpc[w] # "idle"
            /\ wpc'[w] \in AfterLine => wpc[w] \in AfterLine
            /\ wpc'[w] \in BeforeLine => wpc[w] \in BeforeLine
            /\ \A v \in Writers \ {w} : wpc'[v] = wpc[v]
  BY DEF Step, Begin, ReadRemote, OpenDump, WriteDump, OpenMeta, WriteMeta, OpenManifest,
         AppendTextLine, OpenForLoad, ReadTextFile, OpenIndex, WriteIndex, Return, Refused,
         Conflict, Stops, Goto, files, history, TypeOK, AfterLine, BeforeLine, Steps

LEMMA StepLogged ==
  ASSUME TypeOK, ActiveInv, LoggedInv, [Next]_vars
  PROVE  LoggedInv'
<1>0. /\ DOMAIN manifest = 1..Len(manifest) /\ Len(manifest) \in Nat
      /\ Len(started) \in Nat /\ manifest \in Seq(Pieces)
  BY LenProperties DEF TypeOK
<1>1. CASE UNCHANGED vars
  BY <1>1 DEF vars, files, history, LoggedInv, HasLine
<1>2. ASSUME NEW w \in Writers, Step(w)
      PROVE  LoggedInv'
  <2>1. ASSUME NEW s \in Stems, Begin(w, s) PROVE LoggedInv'
    <3>1. /\ Len(started') = Len(started) + 1 /\ manifest' = manifest /\ done' = done
          /\ cur' = [cur EXCEPT ![w] = Len(started) + 1]
          /\ wpc' = [wpc EXCEPT ![w] = "read"]
      BY <2>1, AppendProperties DEF TypeOK, Begin, Goto, files, history
    <3>2. /\ \A v \in Writers : wpc'[v] \in AfterLine => wpc[v] \in AfterLine /\ cur'[v] = cur[v]
          /\ \A v \in Writers \ {w} : wpc'[v] = wpc[v] /\ cur'[v] = cur[v]
          /\ cur'[w] = Len(started) + 1
      BY <3>1 DEF TypeOK, AfterLine
    <3>3. \A i \in DOMAIN manifest : /\ manifest[i].id \in 1..Len(started')
                                    /\ manifest[i].id # Len(started) + 1
      BY <1>0, <3>1 DEF LoggedInv
    <3>4. \A v \in Writers : wpc'[v] \in BeforeLine =>
            \A i \in DOMAIN manifest : manifest[i].id # cur'[v]
      BY <3>2, <3>3 DEF LoggedInv
    <3>5. \A v \in Writers : wpc'[v] \in AfterLine => HasLine(cur'[v])
      BY <3>2 DEF LoggedInv
    <3>6. \A c : HasLine(c)' <=> HasLine(c)
      BY <3>1 DEF HasLine
    <3> QED BY <3>1, <3>3, <3>4, <3>5, <3>6 DEF LoggedInv
  <2>2. ASSUME NEW b \in BOOLEAN, wpc[w] = "line_write",
               started' = started, cur' = cur, done' = done,
               manifest' = Append(manifest, [id |-> cur[w], whole |-> b]),
               \A v \in Writers \ {w} : wpc'[v] = wpc[v],
               \/ wpc'[w] = "idle"
               \/ b /\ wpc'[w] = "load_open"
        PROVE  LoggedInv'
    <3> DEFINE e == [id |-> cur[w], whole |-> b]
               n == Len(manifest) + 1
    <3>1. /\ cur[w] \in 1..Len(started) /\ e \in Pieces
          /\ \A v \in Writers \ {w} : wpc[v] # "idle" => cur[v] # cur[w]
      BY <1>0, <2>2, StoreAssumption DEF ActiveInv, TypeOK, Pieces
    <3>2. /\ DOMAIN manifest' = 1..n
          /\ \A i \in 1..Len(manifest) : manifest'[i] = manifest[i]
          /\ manifest'[n] = e
          /\ n \in 1..n /\ DOMAIN manifest \subseteq 1..n
      BY <1>0, <2>2, <3>1, AppendPiece
    <3>3. \A i \in DOMAIN manifest : manifest[i].id # cur[w]
      BY <2>2 DEF LoggedInv, BeforeLine, AfterLine, Steps
    <3>4. \A c : HasLine(c) => HasLine(c)'
      <4>1. ASSUME NEW c, NEW i \in DOMAIN manifest, manifest[i] = [id |-> c, whole |-> TRUE]
            PROVE  i \in DOMAIN manifest' /\ manifest'[i] = [id |-> c, whole |-> TRUE]
        BY <1>0, <3>2, <4>1
      <4> QED BY <4>1 DEF HasLine
    <3>5. \A i \in DOMAIN manifest' : manifest'[i].id \in 1..Len(started')
      BY <1>0, <2>2, <3>1, <3>2 DEF LoggedInv
    <3>6. \A i, j \in DOMAIN manifest' : manifest'[i].id = manifest'[j].id => i = j
      BY <1>0, <3>2, <3>3 DEF LoggedInv
    <3>7. ASSUME NEW v \in Writers, wpc'[v] \in BeforeLine
          PROVE  \A i \in DOMAIN manifest' : manifest'[i].id # cur'[v]
      <4>1. v # w /\ wpc[v] = wpc'[v] /\ wpc[v] # "idle"
        BY <2>2, <3>7 DEF BeforeLine, AfterLine, Steps
      <4> QED BY <1>0, <2>2, <3>1, <3>2, <3>7, <4>1 DEF LoggedInv
    <3>8. ASSUME NEW v \in Writers, wpc'[v] \in AfterLine
          PROVE  HasLine(cur[v])'
      <4>1. CASE v = w
        <5>1. e = [id |-> cur'[v], whole |-> TRUE]
          BY <2>2, <3>8, <4>1 DEF AfterLine
        <5> QED BY <3>2, <5>1 DEF HasLine
      <4>2. CASE v # w
        BY <2>2, <3>4, <3>8, <4>2 DEF LoggedInv
      <4> QED BY <4>1, <4>2
    <3>9. \A c \in done' : HasLine(c)'
      BY <2>2, <3>4 DEF LoggedInv
    <3> QED BY <3>5, <3>6, <3>7, <3>8, <3>9 DEF LoggedInv
  <2>3. CASE AppendTextLine(w)
    <3>1. /\ wpc[w] = "line_write" /\ wpc'[w] = "load_open"
          /\ \A v \in Writers \ {w} : wpc'[v] = wpc[v]
      BY <2>3 DEF AppendTextLine, AfterAppend, Goto, TypeOK
    <3> QED BY <2>2, <2>3, <3>1 DEF AppendTextLine, AfterAppend, history
  <2>4. CASE Stops(w) /\ manifest' # manifest
    <3>1. /\ wpc[w] = "line_write" /\ wpc'[w] = "idle"
          /\ \A v \in Writers \ {w} : wpc'[v] = wpc[v]
      BY <2>4 DEF Stops, TypeOK
    <3> QED BY <2>2, <2>4, <3>1 DEF Stops, history
  <2>5. CASE Return(w)
    <3>1. /\ HasLine(cur[w]) /\ cur[w] \in Nat
          /\ manifest' = manifest /\ started' = started /\ cur' = cur
          /\ done' = done \cup {cur[w]} /\ wpc'[w] = "idle"
          /\ \A v \in Writers \ {w} : wpc'[v] = wpc[v]
      BY <2>5, StoreAssumption DEF Return, Goto, files, history, TypeOK, LoggedInv, AfterLine
    <3> QED BY <3>1 DEF LoggedInv, HasLine, BeforeLine, AfterLine, Steps
  <2>6. CASE /\ manifest' = manifest /\ started' = started /\ cur' = cur /\ done' = done
             /\ wpc'[w] \in AfterLine => wpc[w] \in AfterLine
             /\ wpc'[w] \in BeforeLine => wpc[w] \in BeforeLine
             /\ \A v \in Writers \ {w} : wpc'[v] = wpc[v]
    BY <2>6 DEF LoggedInv, HasLine
  <2> QED BY <1>2, <2>1, <2>3, <2>4, <2>5, <2>6, StepQuiet
<1> QED BY <1>1, <1>2 DEF Next

(***************************************************************************)
(* Prefixes, and the implementation of CaptureLog.                         *)
(***************************************************************************)
LEMMA PrefixReflexive ==
  ASSUME NEW S, NEW s \in Seq(S)
  PROVE  IsPrefix(s, s)
  BY LenProperties DEF IsPrefix

LEMMA PrefixEmpty ==
  ASSUME NEW S, NEW s \in Seq(S)
  PROVE  IsPrefix(<<>>, s)
<1>1. Len(s) \in Nat /\ Len(<<>>) = 0
  BY LenProperties, EmptySeq
<1>2. SubSeq(<<>>, 1, 0) = <<>> /\ SubSeq(s, 1, 0) = <<>>
  BY SubSeqEmpty
<1> QED BY <1>1, <1>2 DEF IsPrefix

LEMMA PrefixAppend ==
  ASSUME NEW S, NEW s \in Seq(S), NEW t \in Seq(S), NEW e \in S, IsPrefix(s, t)
  PROVE  IsPrefix(s, Append(t, e))
<1> DEFINE u == Append(t, e)
<1>1. /\ Len(s) \in Nat /\ Len(t) \in Nat /\ Len(s) <= Len(t)
      /\ u \in Seq(S) /\ Len(u) = Len(t) + 1
      /\ \A i \in 1..Len(t) : u[i] = t[i]
  BY LenProperties, AppendProperties DEF IsPrefix
<1>2. \A i \in 1..Len(s) : t[i] \in S /\ u[i] \in S
  BY <1>1, ElementOfSeq
<1>3. /\ SubSeq(t, 1, Len(s)) \in Seq(S) /\ Len(SubSeq(t, 1, Len(s))) = Len(s)
      /\ \A i \in 1..Len(s) : SubSeq(t, 1, Len(s))[i] = t[i]
  BY <1>1, <1>2, SubSeqProperties
<1>4. /\ SubSeq(u, 1, Len(s)) \in Seq(S) /\ Len(SubSeq(u, 1, Len(s))) = Len(s)
      /\ \A i \in 1..Len(s) : SubSeq(u, 1, Len(s))[i] = u[i]
  BY <1>1, <1>2, SubSeqProperties
<1>5. SubSeq(t, 1, Len(s)) = SubSeq(u, 1, Len(s))
  <2>1. \A i \in 1..Len(s) : SubSeq(t, 1, Len(s))[i] = SubSeq(u, 1, Len(s))[i]
    BY <1>1, <1>3, <1>4
  <2> HIDE DEF u
  <2> QED BY <1>3, <1>4, <2>1, SeqEqual
<1> QED BY <1>1, <1>5 DEF IsPrefix

LEMMA PrefixIsSubSeq ==
  ASSUME NEW S, NEW s \in Seq(S), NEW t \in Seq(S), IsPrefix(s, t)
  PROVE  Len(s) \in 0..Len(t) /\ s = SubSeq(t, 1, Len(s))
<1>1. Len(s) \in Nat /\ Len(t) \in Nat
  BY LenProperties
<1> QED BY <1>1, SubSeqFull DEF IsPrefix

LEMMA StepPrefix ==
  ASSUME TypeOK, ActiveInv, PrefixInv, [Next]_vars
  PROVE  PrefixInv'
<1>1. CASE UNCHANGED vars
  BY <1>1 DEF vars, files, history, PrefixInv
<1>2. ASSUME NEW w \in Writers, Step(w)
      PROVE  PrefixInv'
  <2>0. /\ manifest \in Seq(Pieces)
        /\ \A v \in Writers : loaded[v] \in Seq(Pieces) /\ IsPrefix(loaded[v], manifest)
        /\ index.text \in Seq(Pieces)
        /\ index.whole => IsPrefix(index.text, manifest)
    BY DEF TypeOK, PrefixInv
  <2>1. CASE manifest' # manifest
    <3>1. PICK b \in BOOLEAN : /\ wpc[w] = "line_write"
                               /\ manifest' = Append(manifest, [id |-> cur[w], whole |-> b])
      BY <1>2, <2>1, StepManifest
    <3>2. [id |-> cur[w], whole |-> b] \in Pieces
      <4>1. cur[w] \in 1..Len(started) /\ Len(started) \in Nat /\ Len(started) <= MaxCaptures
        BY <3>1, LenProperties DEF ActiveInv, TypeOK
      <4> QED BY <4>1, StoreAssumption DEF Pieces
    <3>3. loaded' = loaded /\ index' = index
      BY <1>2, <2>1 DEF Step, Begin, ReadRemote, OpenDump, WriteDump, OpenMeta, WriteMeta,
                        OpenManifest, AppendTextLine, OpenForLoad, ReadTextFile, OpenIndex,
                        WriteIndex, Return, Refused, Stops, files, history
    <3>4. \A v \in Writers : IsPrefix(loaded[v], manifest')
      BY <2>0, <3>1, <3>2, PrefixAppend
    <3>5. index.whole => IsPrefix(index.text, manifest')
      BY <2>0, <3>1, <3>2, PrefixAppend
    <3> QED BY <3>3, <3>4, <3>5 DEF PrefixInv
  <2>2. CASE manifest' = manifest
    <3>1. /\ \A v \in Writers : loaded'[v] \in {loaded[v], manifest, <<>>}
          /\ index' \in {index, NoIndex, [whole |-> TRUE, text |-> loaded[w]]}
      BY <1>2, <2>2 DEF Step, Begin, ReadRemote, OpenDump, WriteDump, OpenMeta, WriteMeta,
                        OpenManifest, AppendTextLine, OpenForLoad, ReadTextFile, OpenIndex,
                        WriteIndex, Return, Refused, Stops, files, history, TypeOK
    <3>2. IsPrefix(manifest, manifest) /\ IsPrefix(<<>>, manifest)
      BY <2>0, PrefixReflexive, PrefixEmpty
    <3>3. \A v \in Writers : IsPrefix(loaded'[v], manifest)
      BY <2>0, <3>1, <3>2
    <3>4. index'.whole => IsPrefix(index'.text, manifest)
      BY <2>0, <3>1 DEF NoIndex
    <3> QED BY <2>2, <3>3, <3>4 DEF PrefixInv
  <2> QED BY <2>1, <2>2
<1> QED BY <1>1, <1>2 DEF Next

LEMMA InitPrefix == Init => PrefixInv
<1> SUFFICES ASSUME Init PROVE PrefixInv
  OBVIOUS
<1>1. IsPrefix(<<>>, <<>>)
  BY PrefixEmpty, EmptySeq
<1> QED BY <1>1 DEF Init, PrefixInv, NoIndex

LEMMA StepRefines ==
  ASSUME TypeOK, ActiveInv, PrefixInv, [Next]_vars
  PROVE  [Log!Next]_<<manifest, IF index.whole THEN {index.text} ELSE {}>>
<1>1. CASE UNCHANGED vars
  BY <1>1 DEF vars, files, history
<1>2. ASSUME NEW w \in Writers, Step(w)
      PROVE  [Log!Next]_<<manifest, IF index.whole THEN {index.text} ELSE {}>>
  <2>1. CASE manifest' # manifest
    <3>1. PICK b \in BOOLEAN : /\ wpc[w] = "line_write"
                               /\ manifest' = Append(manifest, [id |-> cur[w], whole |-> b])
      BY <1>2, <2>1, StepManifest
    <3>2. [id |-> cur[w], whole |-> b] \in Pieces
      <4>1. cur[w] \in 1..Len(started) /\ Len(started) \in Nat /\ Len(started) <= MaxCaptures
        BY <3>1, LenProperties DEF ActiveInv, TypeOK
      <4> QED BY <4>1, StoreAssumption DEF Pieces
    <3>3. index' = index
      BY <1>2, <2>1 DEF Step, Begin, ReadRemote, OpenDump, WriteDump, OpenMeta, WriteMeta,
                        OpenManifest, AppendTextLine, OpenForLoad, ReadTextFile, OpenIndex,
                        WriteIndex, Return, Refused, Stops, files, history
    <3> QED BY <3>1, <3>2, <3>3 DEF Log!Next, Log!Record
  <2>2. CASE manifest' = manifest
    <3>1. index' \in {index, NoIndex, [whole |-> TRUE, text |-> loaded[w]]}
      BY <1>2, <2>2 DEF Step, Begin, ReadRemote, OpenDump, WriteDump, OpenMeta, WriteMeta,
                        OpenManifest, AppendTextLine, OpenForLoad, ReadTextFile, OpenIndex,
                        WriteIndex, Return, Refused, Stops, files, history
    <3>2. CASE index' = index
      BY <2>2, <3>2
    <3>3. CASE index' = NoIndex
      BY <2>2, <3>3 DEF NoIndex, Log!Next, Log!Withdraw
    <3>4. CASE index' = [whole |-> TRUE, text |-> loaded[w]]
      <4>1. loaded[w] \in Seq(Pieces) /\ manifest \in Seq(Pieces) /\ IsPrefix(loaded[w], manifest)
        BY DEF TypeOK, PrefixInv
      <4>2. /\ Len(loaded[w]) \in 0..Len(manifest)
            /\ loaded[w] = SubSeq(manifest, 1, Len(loaded[w]))
        BY <4>1, PrefixIsSubSeq
      <4> QED BY <2>2, <3>4, <4>2 DEF Log!Next, Log!Publish
    <3> QED BY <3>1, <3>2, <3>3, <3>4
  <2> QED BY <2>1, <2>2
<1> QED BY <1>1, <1>2 DEF Next

\* The evidence directory implements the capture log: the manifest only grows, and
\* a readable index.json is always a rendering of a prefix of it.
THEOREM Refinement == Spec => ImplementsCaptureLog
<1>1. Init => TypeOK /\ ActiveInv /\ PrefixInv
  BY InitTypeActive, InitPrefix
<1>2. TypeOK /\ ActiveInv /\ PrefixInv /\ [Next]_vars => (TypeOK /\ ActiveInv /\ PrefixInv)'
  BY StepTypeActive, StepPrefix
<1>3. Init => Log!Init
  BY DEF Init, NoIndex, Log!Init
<1>4. TypeOK /\ ActiveInv /\ PrefixInv /\ [Next]_vars
        => [Log!Next]_<<manifest, IF index.whole THEN {index.text} ELSE {}>>
  BY StepRefines
<1> QED BY <1>1, <1>2, <1>3, <1>4, PTL DEF Spec, ImplementsCaptureLog, Log!Spec

(***************************************************************************)
(* The files.  A step touches the dump and the metadata of its own stem    *)
(* only, and only before its line is in the manifest.                      *)
(***************************************************************************)
LEMMA StepFiles ==
  ASSUME TypeOK, ActiveInv, NEW w \in Writers, Step(w)
  PROVE  /\ \/ dumps' = dumps
            \/ /\ wpc[w] \in {"dump_open", "dump_write"}
               /\ \A s \in Stems \ {StemOf(w)} : dumps'[s] = dumps[s]
         /\ \/ metas' = metas
            \/ /\ wpc[w] \in {"meta_open", "meta_write"}
               /\ \A s \in Stems \ {StemOf(w)} : metas'[s] = metas[s]
         /\ wpc'[w] \in DumpWritten =>
              \/ wpc[w] \in DumpWritten
              \/ wpc[w] = "dump_write" /\ dumps' = [dumps EXCEPT ![StemOf(w)] = cur[w]]
         /\ wpc'[w] \in MetaWritten =>
              \/ wpc[w] \in MetaWritten
              \/ wpc[w] = "meta_write" /\ metas' = [metas EXCEPT ![StemOf(w)] = cur[w]]
         /\ \A v \in Writers \ {w} : wpc'[v] = wpc[v] /\ cur'[v] = cur[v]
         /\ \/ started' = started /\ cur' = cur
            \/ wpc'[w] = "read" /\ \E s \in Stems : started' = Append(started, s)
<1> USE DEF Step, Begin, ReadRemote, OpenDump, WriteDump, OpenMeta, WriteMeta, OpenManifest,
            AppendTextLine, OpenForLoad, ReadTextFile, OpenIndex, WriteIndex, Return, Refused,
            Stops, Goto, files, history
<1>1. \/ dumps' = dumps
      \/ /\ wpc[w] \in {"dump_open", "dump_write"}
         /\ \A s \in Stems \ {StemOf(w)} : dumps'[s] = dumps[s]
  BY DEF TypeOK
<1>2. \/ metas' = metas
      \/ /\ wpc[w] \in {"meta_open", "meta_write"}
         /\ \A s \in Stems \ {StemOf(w)} : metas'[s] = metas[s]
  BY DEF TypeOK
<1>3. wpc'[w] \in DumpWritten =>
        \/ wpc[w] \in DumpWritten
        \/ wpc[w] = "dump_write" /\ dumps' = [dumps EXCEPT ![StemOf(w)] = cur[w]]
  BY DEF TypeOK, DumpWritten, AfterLine, Steps
<1>4. wpc'[w] \in MetaWritten =>
        \/ wpc[w] \in MetaWritten
        \/ wpc[w] = "meta_write" /\ metas' = [metas EXCEPT ![StemOf(w)] = cur[w]]
  BY DEF TypeOK, MetaWritten, AfterLine, Steps
<1>5. \A v \in Writers \ {w} : wpc'[v] = wpc[v] /\ cur'[v] = cur[v]
  BY DEF TypeOK
<1>6. \/ started' = started /\ cur' = cur
      \/ wpc'[w] = "read" /\ \E s \in Stems : started' = Append(started, s)
  BY DEF TypeOK, Steps
<1> QED BY <1>1, <1>2, <1>3, <1>4, <1>5, <1>6

\* A stem that is a capture's own was its own before.
LEMMA OwnStemBefore ==
  ASSUME TypeOK, NEW c \in 1..Len(started), OwnStem(c)',
         started' = started \/ \E s \in Stems : started' = Append(started, s)
  PROVE  OwnStem(c) /\ started'[c] = started[c] /\ started[c] \in Stems
<1>1. DOMAIN started = 1..Len(started) /\ Len(started) \in Nat
  BY LenProperties DEF TypeOK
<1>2. started[c] \in Stems
  BY ElementOfSeq DEF TypeOK
<1>3. CASE started' = started
  BY <1>2, <1>3 DEF OwnStem
<1>4. CASE \E s \in Stems : started' = Append(started, s)
  <2>1. /\ \A d \in 1..Len(started) : started'[d] = started[d]
        /\ DOMAIN started' = 1..(Len(started) + 1)
    BY <1>4, AppendProperties, LenProperties DEF TypeOK
  <2>2. DOMAIN started \subseteq DOMAIN started'
    BY <1>1, <2>1
  <2> QED BY <1>1, <1>2, <2>1, <2>2 DEF OwnStem
<1> QED BY <1>3, <1>4

LEMMA StepFilesInv ==
  ASSUME TypeOK, ActiveInv, LoggedInv, FilesInv, ManifestNamesCompleteFiles, [Next]_vars
  PROVE  FilesInv' /\ ManifestNamesCompleteFiles'
<1>0. DOMAIN started = 1..Len(started) /\ DOMAIN manifest = 1..Len(manifest)
  BY LenProperties DEF TypeOK
<1>1. CASE UNCHANGED vars
  BY <1>1 DEF vars, files, history, FilesInv, ManifestNamesCompleteFiles, OwnStem, StemOf
<1>2. ASSUME NEW w \in Writers, Step(w)
      PROVE  FilesInv' /\ ManifestNamesCompleteFiles'
  <2>0. /\ \A c \in 1..Len(started) : OwnStem(c)' =>
             OwnStem(c) /\ started'[c] = started[c] /\ started[c] \in Stems
        /\ wpc[w] \notin {"idle"} => StemOf(w) \in Stems /\ cur[w] \in DOMAIN started
    <3>1. started' = started \/ \E s \in Stems : started' = Append(started, s)
      BY <1>2, StepFiles
    <3>2. wpc[w] # "idle" => StemOf(w) \in Stems /\ cur[w] \in DOMAIN started
      BY <1>0, ElementOfSeq DEF ActiveInv, StemOf, TypeOK
    <3> QED BY <3>1, <3>2, OwnStemBefore
  <2>1. ASSUME NEW v \in Writers, wpc'[v] \in DumpWritten, OwnStem(cur[v])'
        PROVE  dumps'[started'[cur'[v]]] = cur'[v]
    <3>1. wpc'[v] # "read" /\ cur'[v] = cur[v]
      BY <1>2, <2>1, StepFiles DEF DumpWritten, AfterLine
    <3>2. wpc[v] # "idle"
      BY <1>2, <2>1, StepFiles DEF DumpWritten, AfterLine
    <3>3. /\ cur[v] \in 1..Len(started) /\ OwnStem(cur[v])
          /\ started'[cur[v]] = started[cur[v]] /\ started[cur[v]] \in Stems
      BY <2>0, <2>1, <3>1, <3>2 DEF ActiveInv
    <3>4. CASE v = w
      <4>1. \/ wpc[w] \in DumpWritten
            \/ dumps' = [dumps EXCEPT ![StemOf(w)] = cur[w]]
        BY <1>2, <2>1, <3>4, StepFiles
      <4>2. CASE wpc[w] \in DumpWritten
        <5>1. dumps' = dumps
          BY <1>2, <4>2, StepFiles DEF DumpWritten, AfterLine
        <5> QED BY <3>1, <3>3, <3>4, <4>2, <5>1 DEF FilesInv, StemOf
      <4>3. CASE dumps' = [dumps EXCEPT ![StemOf(w)] = cur[w]]
        BY <3>1, <3>3, <3>4, <4>3 DEF StemOf, TypeOK
      <4> QED BY <4>1, <4>2, <4>3
    <3>5. CASE v # w
      <4>1. wpc[v] \in DumpWritten /\ dumps[started[cur[v]]] = cur[v]
        BY <1>2, <2>1, <3>3, <3>5, StepFiles DEF FilesInv, StemOf
      <4>2. wpc[w] # "idle" => started[cur[w]] # started[cur[v]]
        BY <2>0, <3>2, <3>3, <3>5 DEF ActiveInv, OwnStem
      <4> QED BY <1>2, <3>1, <3>3, <4>1, <4>2, StepFiles DEF StemOf
    <3> QED BY <3>4, <3>5
  <2>2. ASSUME NEW v \in Writers, wpc'[v] \in MetaWritten, OwnStem(cur[v])'
        PROVE  metas'[started'[cur'[v]]] = cur'[v]
    <3>1. wpc'[v] # "read" /\ cur'[v] = cur[v]
      BY <1>2, <2>2, StepFiles DEF MetaWritten, AfterLine
    <3>2. wpc[v] # "idle"
      BY <1>2, <2>2, StepFiles DEF MetaWritten, AfterLine
    <3>3. /\ cur[v] \in 1..Len(started) /\ OwnStem(cur[v])
          /\ started'[cur[v]] = started[cur[v]] /\ started[cur[v]] \in Stems
      BY <2>0, <2>2, <3>1, <3>2 DEF ActiveInv
    <3>4. CASE v = w
      <4>1. \/ wpc[w] \in MetaWritten
            \/ metas' = [metas EXCEPT ![StemOf(w)] = cur[w]]
        BY <1>2, <2>2, <3>4, StepFiles
      <4>2. CASE wpc[w] \in MetaWritten
        <5>1. metas' = metas
          BY <1>2, <4>2, StepFiles DEF MetaWritten, AfterLine
        <5> QED BY <3>1, <3>3, <3>4, <4>2, <5>1 DEF FilesInv, StemOf
      <4>3. CASE metas' = [metas EXCEPT ![StemOf(w)] = cur[w]]
        BY <3>1, <3>3, <3>4, <4>3 DEF StemOf, TypeOK
      <4> QED BY <4>1, <4>2, <4>3
    <3>5. CASE v # w
      <4>1. wpc[v] \in MetaWritten /\ metas[started[cur[v]]] = cur[v]
        BY <1>2, <2>2, <3>3, <3>5, StepFiles DEF FilesInv, StemOf
      <4>2. wpc[w] # "idle" => started[cur[w]] # started[cur[v]]
        BY <2>0, <3>2, <3>3, <3>5 DEF ActiveInv, OwnStem
      <4> QED BY <1>2, <3>1, <3>3, <4>1, <4>2, StepFiles DEF StemOf
    <3> QED BY <3>4, <3>5
  <2>3. ASSUME NEW c \in 1..Len(started), OwnStem(c)',
               dumps[started[c]] = c /\ metas[started[c]] = c,
               wpc[w] \in BeforeLine => cur[w] # c \/ wpc[w] \notin {"dump_open", "dump_write",
                                                                   "meta_open", "meta_write"}
        PROVE  dumps'[started'[c]] = c /\ metas'[started'[c]] = c
    <3>1. OwnStem(c) /\ started'[c] = started[c] /\ started[c] \in Stems
      BY <2>0, <2>3
    <3>2. wpc[w] \in {"dump_open", "dump_write", "meta_open", "meta_write"}
            => StemOf(w) # started[c]
      BY <2>0, <2>3, <3>1 DEF OwnStem, StemOf, BeforeLine, AfterLine, Steps
    <3> QED BY <1>2, <2>3, <3>1, <3>2, StepFiles
  <2>4. ASSUME NEW i \in DOMAIN manifest', manifest'[i].whole, OwnStem(manifest[i].id)'
        PROVE  LET c == manifest'[i].id IN dumps'[started'[c]] = c /\ metas'[started'[c]] = c
    <3> DEFINE c == manifest'[i].id
    <3>1. ASSUME i \in DOMAIN manifest, manifest'[i] = manifest[i]
          PROVE  dumps'[started'[c]] = c /\ metas'[started'[c]] = c
      <4>1. c \in 1..Len(started) /\ OwnStem(c)
        BY <2>0, <2>4, <3>1 DEF LoggedInv
      <4>2. dumps[started[c]] = c /\ metas[started[c]] = c
        BY <2>4, <3>1, <4>1 DEF ManifestNamesCompleteFiles
      <4>3. wpc[w] \in BeforeLine => cur[w] # c
        BY <3>1 DEF LoggedInv
      <4> QED BY <2>3, <2>4, <4>1, <4>2, <4>3
    <3>2. CASE manifest' = manifest
      BY <2>4, <3>1, <3>2
    <3>3. CASE manifest' # manifest
      <4>1. PICK b \in BOOLEAN :
              /\ wpc[w] = "line_write" /\ started' = started /\ cur' = cur
              /\ manifest' = Append(manifest, [id |-> cur[w], whole |-> b])
        BY <1>2, <3>3, StepManifest
      <4>2. cur[w] \in 1..Len(started) /\ [id |-> cur[w], whole |-> b] \in Pieces
        <5>1. cur[w] \in 1..Len(started) /\ Len(started) \in Nat /\ Len(started) <= MaxCaptures
          BY <4>1, LenProperties DEF ActiveInv, TypeOK
        <5> QED BY <5>1, StoreAssumption DEF Pieces
      <4>3. /\ DOMAIN manifest' = 1..(Len(manifest) + 1) /\ Len(manifest) \in Nat
            /\ \A j \in 1..Len(manifest) : manifest'[j] = manifest[j]
            /\ manifest'[Len(manifest) + 1] = [id |-> cur[w], whole |-> b]
        BY <4>1, <4>2, AppendPiece DEF TypeOK
      <4>4. CASE i = Len(manifest) + 1
        <5>1. c = cur[w] /\ OwnStem(c)
          BY <2>0, <2>4, <4>2, <4>3, <4>4
        <5>2. dumps[started[c]] = c /\ metas[started[c]] = c
          BY <4>1, <5>1 DEF FilesInv, StemOf, DumpWritten, MetaWritten
        <5> QED BY <2>3, <2>4, <4>1, <4>2, <5>1, <5>2
      <4>5. CASE i # Len(manifest) + 1
        BY <1>0, <2>4, <3>1, <4>3, <4>5
      <4> QED BY <4>4, <4>5
    <3> QED BY <3>2, <3>3
  <2> QED BY <2>1, <2>2, <2>4 DEF FilesInv, ManifestNamesCompleteFiles, StemOf
<1> QED BY <1>1, <1>2 DEF Next

(***************************************************************************)
(* The inductive invariant and the safety theorems.                        *)
(***************************************************************************)
LEMMA InitIInv == Init => IInv
<1> SUFFICES ASSUME Init PROVE IInv
  OBVIOUS
<1>1. TypeOK /\ ActiveInv /\ PrefixInv
  BY InitTypeActive, InitPrefix
<1>2. DOMAIN <<>> = {}
  OBVIOUS
<1>3. LoggedInv /\ FilesInv /\ ManifestNamesCompleteFiles
  BY <1>2 DEF Init, LoggedInv, FilesInv, ManifestNamesCompleteFiles, BeforeLine, AfterLine,
              DumpWritten, MetaWritten, Steps
<1> QED BY <1>1, <1>3 DEF IInv

THEOREM Inductive == Spec => []IInv
<1>1. IInv /\ [Next]_vars => IInv'
  BY StepTypeActive, StepLogged, StepPrefix, StepFilesInv DEF IInv
<1> QED BY <1>1, InitIInv, PTL DEF Spec

\* A whole line of the manifest names complete files of its own capture.
THEOREM ManifestIsTrue == Spec => []ManifestNamesCompleteFiles
<1>1. IInv => ManifestNamesCompleteFiles
  BY DEF IInv
<1> QED BY <1>1, Inductive, PTL

\* A capture that returned true ends one line, on which no other such capture is.
LEMMA LoggedOnOneLine == TypeOK /\ LoggedInv => DoneEndsOneLine
<1> SUFFICES ASSUME TypeOK, LoggedInv, NEW c \in done
             PROVE  \E i \in DOMAIN manifest :
                      EndsLine(c, i) /\ \A j \in LineOf(i) \ {i} : manifest[j].id \notin done
  BY DEF DoneEndsOneLine
<1>1. PICK i \in DOMAIN manifest : manifest[i] = [id |-> c, whole |-> TRUE]
  BY DEF LoggedInv, HasLine
<1>2. EndsLine(c, i)
  BY <1>1 DEF LoggedInv, EndsLine
<1>3. ASSUME NEW j \in LineOf(i) \ {i} PROVE manifest[j].id \notin done
  <2>1. DOMAIN manifest = 1..Len(manifest) /\ Len(manifest) \in Nat
    BY LenProperties DEF TypeOK
  <2>2. j \in DOMAIN manifest /\ ~manifest[j].whole
    BY <2>1 DEF LineOf
  <2>3. SUFFICES ASSUME HasLine(manifest[j].id) PROVE FALSE
    BY DEF LoggedInv
  <2>4. PICK k \in DOMAIN manifest : manifest[k] = [id |-> manifest[j].id, whole |-> TRUE]
    BY <2>3 DEF HasLine
  <2>5. k = j
    BY <2>2, <2>4 DEF LoggedInv
  <2> QED BY <2>2, <2>4, <2>5
<1> QED BY <1>2, <1>3

\* A capture that returned true is in the manifest once and ends a line there; what else
\* is on that line is of captures that did not return true.
THEOREM DoneLogged == Spec => []DoneEndsOneLine
<1>1. IInv => DoneEndsOneLine
  BY LoggedOnOneLine DEF IInv
<1> QED BY <1>1, Inductive, PTL

(***************************************************************************)
(* The index.  Captures that overlap lose a refresh; of one that is alone  *)
(* while it is at work, what it read back is the manifest when it writes   *)
(* the index.                                                              *)
(***************************************************************************)
LEMMA LastOfAppend ==
  ASSUME NEW m \in Seq(Pieces), NEW e \in Pieces
  PROVE  Append(m, e) # m /\ Append(m, e) # <<>> /\ Last(Append(m, e)) = e
<1>1. /\ Append(m, e) \in Seq(Pieces) /\ Len(Append(m, e)) = Len(m) + 1
      /\ Append(m, e)[Len(m) + 1] = e /\ Len(m) \in Nat
  BY AppendProperties, LenProperties
<1> QED BY <1>1, EmptySeq DEF Last

\* What a step leaves alone.
LEMMA StepOthers ==
  ASSUME IInv, NEW w \in Writers, Step(w)
  PROVE  /\ \A v \in Writers \ {w} : /\ wpc'[v] = wpc[v] /\ cur'[v] = cur[v]
                                     /\ loaded'[v] = loaded[v]
         /\ \/ \E s \in Stems : Begin(w, s)
            \/ wpc[w] # "idle" /\ cur' = cur /\ overlapped' = overlapped
         /\ done' = done \/ Return(w)
<1> USE DEF IInv, TypeOK, Step, Begin, ReadRemote, OpenDump, WriteDump, OpenMeta, WriteMeta,
            OpenManifest, AppendTextLine, OpenForLoad, ReadTextFile, OpenIndex, WriteIndex,
            Return, Refused, Conflict, Stops, Goto, files, history
<1>1. \A v \in Writers \ {w} : wpc'[v] = wpc[v] /\ cur'[v] = cur[v] /\ loaded'[v] = loaded[v]
  OBVIOUS
<1>2. \/ \E s \in Stems : Begin(w, s)
      \/ wpc[w] # "idle" /\ cur' = cur /\ overlapped' = overlapped
  OBVIOUS
<1>3. done' = done \/ Return(w)
  OBVIOUS
<1> QED BY <1>1, <1>2, <1>3

\* A new capture is not done, and every capture that it meets is known to overlap.
LEMMA BeginLast ==
  ASSUME IInv, LastInv, NEW w \in Writers, NEW s \in Stems, Begin(w, s)
  PROVE  LastInv'
<1>1. /\ Len(started) \in Nat /\ cur'[w] = Len(started) + 1 /\ wpc'[w] = "read"
      /\ wpc[w] = "idle" /\ manifest' = manifest /\ index' = index /\ done' = done
      /\ overlapped' = IF AtWork(w) = {} THEN overlapped
                       ELSE overlapped \cup AtWork(w) \cup {cur'[w]}
      /\ \A v \in Writers \ {w} : wpc'[v] = wpc[v] /\ cur'[v] = cur[v] /\ loaded'[v] = loaded[v]
  BY LenProperties DEF IInv, TypeOK, Begin, Goto, files
<1>2. overlapped \subseteq overlapped'
  BY <1>1
<1>3. cur'[w] \notin done'
  <2>1. \A c \in done : c \in 1..Len(started)
    BY DEF IInv, LoggedInv, HasLine
  <2> QED BY <1>1, <2>1
<1>4. \A v \in Writers \ {w} : wpc[v] # "idle" =>
        cur[v] \in overlapped' /\ cur'[w] \in overlapped'
  <2> SUFFICES ASSUME NEW v \in Writers \ {w}, wpc[v] # "idle"
               PROVE  cur[v] \in overlapped' /\ cur'[w] \in overlapped'
    OBVIOUS
  <2>1. cur[v] \in AtWork(w)
    BY DEF AtWork
  <2> QED BY <1>1, <2>1
<1>5. IndexFollowsLastCapture'
  BY <1>1, <1>2 DEF LastInv, IndexFollowsLastCapture, IndexShowsManifest
<1>6. \A v \in Writers : wpc'[v] # "idle" => cur'[v] \notin done'
  BY <1>1, <1>3 DEF LastInv
<1>7. \A v, u \in Writers : v # u /\ wpc'[v] # "idle" /\ wpc'[u] # "idle" => cur'[u] \in overlapped'
  BY <1>1, <1>2, <1>4 DEF LastInv
<1>8. \A v \in Writers : wpc'[v] \in AfterLine =>
        v # w /\ manifest' # <<>> /\ Last(manifest').id \in {cur'[v]} \cup overlapped'
  BY <1>1, <1>2 DEF LastInv, AfterLine
<1>9. \A v \in Writers : cur'[v] \notin overlapped' =>
        /\ wpc'[v] \in AfterLine => Last(manifest').id = cur'[v]
        /\ wpc'[v] \in {"index_open", "index_write"} => loaded'[v] = manifest'
        /\ wpc'[v] = "return" => IndexShowsManifest'
  BY <1>1, <1>2 DEF LastInv, AfterLine, IndexShowsManifest
<1> QED BY <1>5, <1>6, <1>7, <1>8, <1>9 DEF LastInv

\* A piece is the last one then, and those behind their line know the capture.
LEMMA AppendLast ==
  ASSUME IInv, LastInv, NEW w \in Writers, Step(w), manifest' # manifest
  PROVE  LastInv'
<1>1. PICK b \in BOOLEAN :
        /\ wpc[w] = "line_write" /\ cur' = cur /\ done' = done
        /\ manifest' = Append(manifest, [id |-> cur[w], whole |-> b])
  BY StepManifest
<1>2. manifest \in Seq(Pieces) /\ [id |-> cur[w], whole |-> b] \in Pieces
  <2>1. cur[w] \in 1..Len(started) /\ Len(started) \in Nat /\ Len(started) <= MaxCaptures
    BY <1>1, LenProperties DEF IInv, TypeOK, ActiveInv
  <2> QED BY <2>1, StoreAssumption DEF IInv, TypeOK, Pieces
<1>3. manifest' # <<>> /\ Last(manifest').id = cur[w]
  BY <1>1, <1>2, LastOfAppend
<1>4. cur[w] \notin done
  BY <1>1 DEF LastInv
<1>5. wpc'[w] \in {"load_open", "idle"} /\ overlapped' = overlapped
  BY <1>1 DEF IInv, TypeOK, Step, Begin, ReadRemote, OpenDump, WriteDump, OpenMeta, WriteMeta,
              OpenManifest, AppendTextLine, OpenForLoad, ReadTextFile, OpenIndex, WriteIndex,
              Return, Refused, Stops, Goto, files, history
<1>6. \A v \in Writers \ {w} : /\ wpc'[v] = wpc[v]
                               /\ wpc[v] # "idle" => cur[w] \in overlapped /\ cur[v] \in overlapped
  BY <1>1, StepOthers DEF LastInv
<1>7. IndexFollowsLastCapture'
  BY <1>1, <1>3, <1>4 DEF IndexFollowsLastCapture
<1>8. \A v \in Writers : wpc'[v] \in AfterLine =>
        manifest' # <<>> /\ Last(manifest').id \in {cur'[v]} \cup overlapped'
  BY <1>1, <1>3, <1>5, <1>6 DEF AfterLine
<1>9. \A v \in Writers : cur'[v] \notin overlapped' =>
        /\ wpc'[v] \in AfterLine => Last(manifest').id = cur'[v]
        /\ wpc'[v] \in {"index_open", "index_write"} => loaded'[v] = manifest'
        /\ wpc'[v] = "return" => IndexShowsManifest'
  BY <1>1, <1>3, <1>5, <1>6 DEF AfterLine
<1>10. /\ \A v \in Writers : wpc'[v] # "idle" => cur'[v] \notin done'
       /\ \A v, u \in Writers :
            v # u /\ wpc'[v] # "idle" /\ wpc'[u] # "idle" => cur'[u] \in overlapped'
  BY <1>1, <1>5, <1>6 DEF LastInv
<1> QED BY <1>7, <1>8, <1>9, <1>10 DEF LastInv

LEMMA StepLast ==
  ASSUME IInv, LastInv, NEW w \in Writers, Step(w)
  PROVE  LastInv'
<1>1. CASE \E s \in Stems : Begin(w, s)
  BY <1>1, BeginLast
<1>2. CASE manifest' # manifest
  BY <1>2, AppendLast
<1>3. CASE ~(\E s \in Stems : Begin(w, s)) /\ manifest' = manifest
  <2>1. /\ wpc[w] # "idle" /\ cur' = cur /\ overlapped' = overlapped /\ manifest' = manifest
        /\ \A v \in Writers \ {w} : wpc'[v] = wpc[v] /\ loaded'[v] = loaded[v]
    BY <1>3, StepOthers
  <2>2. /\ wpc'[w] \in AfterLine => wpc[w] \in AfterLine
        /\ wpc'[w] \in {"index_open", "index_write"} =>
             \/ loaded'[w] = manifest
             \/ wpc[w] = "index_open" /\ loaded'[w] = loaded[w]
        /\ wpc'[w] = "return" => wpc[w] = "index_write" /\ index' = [whole |-> TRUE, text |-> loaded[w]]
        /\ index' = index \/ wpc[w] \in {"index_open", "index_write"}
    <3>1. ~AppendTextLine(w)
      <4>1. ASSUME AppendTextLine(w)
            PROVE  manifest \in Seq(Pieces) /\ [id |-> cur[w], whole |-> TRUE] \in Pieces
        <5>1. wpc[w] = "line_write" /\ Len(started) \in Nat /\ Len(started) <= MaxCaptures
          BY <4>1, LenProperties DEF IInv, TypeOK, AppendTextLine, Goto
        <5>2. cur[w] \in 1..Len(started)
          BY <5>1 DEF IInv, ActiveInv
        <5> QED BY <5>1, <5>2, StoreAssumption DEF IInv, TypeOK, Pieces
      <4> QED BY <1>3, <4>1, LastOfAppend DEF AppendTextLine, AfterAppend
    <3> QED BY <1>3, <3>1 DEF IInv, TypeOK, Step, ReadRemote, OpenDump, WriteDump, OpenMeta,
               WriteMeta, OpenManifest, OpenForLoad, ReadTextFile, OpenIndex, WriteIndex, Return,
               Refused, Stops, Goto, files, history, AfterLine
  <2>3. \A v \in Writers \ {w} : wpc[v] # "idle" => cur[v] \in overlapped /\ cur[w] \in overlapped
    BY <2>1 DEF LastInv
  <2>4. \A v \in Writers : wpc'[v] # "idle" => cur'[v] \notin done'
    <3>1. CASE done' = done
      BY <2>1, <3>1 DEF LastInv
    <3>2. CASE Return(w)
      <4>1. done' = done \cup {cur[w]} /\ wpc'[w] = "idle"
        BY <3>2 DEF Return, Goto, IInv, TypeOK
      <4> QED BY <2>1, <4>1 DEF LastInv, IInv, ActiveInv
    <3> QED BY <3>1, <3>2, StepOthers
  <2>5. \A v, u \in Writers :
          v # u /\ wpc'[v] # "idle" /\ wpc'[u] # "idle" => cur'[u] \in overlapped'
    BY <2>1 DEF LastInv
  <2>6. \A v \in Writers : wpc'[v] \in AfterLine =>
          manifest' # <<>> /\ Last(manifest').id \in {cur'[v]} \cup overlapped'
    BY <2>1, <2>2 DEF LastInv
  <2>7. ASSUME NEW v \in Writers, cur'[v] \notin overlapped'
        PROVE  /\ wpc'[v] \in AfterLine => Last(manifest').id = cur'[v]
               /\ wpc'[v] \in {"index_open", "index_write"} => loaded'[v] = manifest'
               /\ wpc'[v] = "return" => IndexShowsManifest'
    <3>1. CASE v = w
      BY <2>1, <2>2, <2>7, <3>1 DEF LastInv, IndexShowsManifest
    <3>2. CASE v # w
      BY <2>1, <2>3, <2>7, <3>2 DEF AfterLine
    <3> QED BY <3>1, <3>2
  <2>8. IndexFollowsLastCapture'
    <3>1. CASE wpc[w] \in {"index_open", "index_write"}
      <4>1. Last(manifest).id \in {cur[w]} \cup overlapped /\ cur[w] \notin done
        BY <2>1, <3>1 DEF LastInv, AfterLine
      <4>2. done' = done
        BY <3>1, StepOthers DEF Return, Goto
      <4> QED BY <2>1, <4>1, <4>2 DEF IndexFollowsLastCapture
    <3>2. CASE index' = index /\ done' = done
      BY <2>1, <3>2 DEF LastInv, IndexFollowsLastCapture, IndexShowsManifest
    <3>3. CASE index' = index /\ Return(w)
      <4>1. done' = done \cup {cur[w]} /\ wpc[w] = "return"
        BY <3>3 DEF Return, Goto
      <4> QED BY <2>1, <3>3, <4>1 DEF LastInv, IndexFollowsLastCapture, IndexShowsManifest
    <3> QED BY <2>2, <3>1, <3>2, <3>3, StepOthers
  <2> QED BY <2>4, <2>5, <2>6, <2>7, <2>8 DEF LastInv
<1> QED BY <1>1, <1>2, <1>3

\* A capture that returned true, and that no other one met while it was at work, leaves an
\* index that shows the whole manifest, whatever failed or overlapped before, until the
\* next piece is appended (evidence.cpp:259-267).
THEOREM IndexFollows == Spec => []IndexFollowsLastCapture
<1>1. Init => LastInv
  BY DEF Init, LastInv, IndexFollowsLastCapture, AfterLine
<1>2. IInv /\ LastInv /\ [Next]_vars => LastInv'
  <2> SUFFICES ASSUME IInv, LastInv, [Next]_vars PROVE LastInv'
    OBVIOUS
  <2>1. CASE UNCHANGED vars
    BY <2>1 DEF vars, files, history, LastInv, IndexFollowsLastCapture, IndexShowsManifest
  <2>2. CASE Next
    BY <2>2, StepLast DEF Next
  <2> QED BY <2>1, <2>2
<1>3. LastInv => IndexFollowsLastCapture
  BY DEF LastInv
<1> QED BY <1>1, <1>2, <1>3, Inductive, PTL DEF Spec
=============================================================================
